---------------------------- MODULE NodesApiProofs ----------------------------
(***************************************************************************)
(* Theorems about NodesApi for every value of its constants.               *)
(***************************************************************************)
EXTENDS NodesApi, FiniteSetTheorems, TLAPS

-----------------------------------------------------------------------------
(***************************************************************************)
(* The inductive invariant.                                                *)
(***************************************************************************)

Tasks == {"none", "applying", "created", "busy"}
Releases == {"none", "releasing", "marking", "gaveup"}
RowSet == [status : {"none", "provisioning", "busy", "down"}, run : Runs \union {NoRun}]
RequestSet ==
    {NoRequest} \union [op : {"register"}, id : {OwnId(i) : i \in OwnIds}]
                \union [op : {"delete"}, id : Ids, seen : RowSet]

RunsShape ==
    /\ task \in [Runs -> Tasks] /\ release \in [Runs -> Releases]
    /\ ended \in [Runs -> BOOLEAN] /\ vm \in [Runs -> BOOLEAN]
    /\ preempted \subseteq Runs

Shape ==
    /\ rows \in [Ids -> RowSet]
    /\ RunsShape
    /\ req \in [Clients -> RequestSet]
    /\ overtaken \subseteq Runs /\ blind \subseteq Runs

\* The rows an id can hold: a run has rows under its own two ids only, busy
\* under the instance id only, and an operator's node has no run.
RowFits(id, row) ==
    \/ \E r \in Runs : id = PlaceholderId(r) /\ row.run = r
                       /\ row.status \in {"provisioning", "down"}
    \/ \E r \in Runs : id = InstanceId(r) /\ row.run = r /\ row.status \in {"busy", "down"}
    \/ \E i \in OwnIds : id = OwnId(i) /\ row.run = NoRun /\ row.status \in {"provisioning", "down"}

RowsFit == \A id \in Ids : Exists(id) => RowFits(id, rows[id])

\* set_busy is called once in the life of a run.
Early(r) == task[r] # "busy"

\* A run that was never ended before its row was busy: only then is it released,
\* and as long as its VM is there the row is busy.
Orderly(r) ==
    /\ release[r] # "none" => ~Early(r) /\ ended[r]
    /\ release[r] = "marking" => ~vm[r]
    /\ ~Early(r) /\ vm[r] => rows[InstanceId(r)].status = "busy" \/ r \in blind

\* Which of its two rows a run has while it is provisioned and after.
StageRows(r) ==
    /\ task[r] \in {"applying", "created"} => Exists(PlaceholderId(r))
    /\ Exists(InstanceId(r)) <=> ~Early(r)
    /\ ~Early(r) /\ Exists(PlaceholderId(r)) => r \in overtaken
    /\ r \in preempted \/ Orderly(r)

\* The row is there, or set_busy has renamed it.
KnownId(id) == Exists(id) \/ \E r \in Runs : id = PlaceholderId(r) /\ ~Early(r)

\* What a client holds between its read and its write.
RequestFits(c) ==
    req[c].op = "delete" => RowFits(req[c].id, req[c].seen) /\ KnownId(req[c].id)

NodesInv ==
    /\ Shape
    /\ RowsFit
    /\ \A r \in Runs : StageRows(r)
    /\ \A c \in Clients : RequestFits(c)

-----------------------------------------------------------------------------
(***************************************************************************)
(* Ids and rows.                                                           *)
(***************************************************************************)

\* The three kinds of id are told apart, and so are the ids of two runs.
LEMMA IdFacts ==
    /\ \A r \in Runs : PlaceholderId(r) \in Ids /\ InstanceId(r) \in Ids
    /\ \A i \in OwnIds : OwnId(i) \in Ids
    /\ \A r, s : PlaceholderId(r) = PlaceholderId(s) => r = s
    /\ \A r, s : InstanceId(r) = InstanceId(s) => r = s
    /\ \A r, s : PlaceholderId(r) # InstanceId(s)
    /\ \A r, i : PlaceholderId(r) # OwnId(i) /\ InstanceId(r) # OwnId(i)
    /\ \A id \in Ids : \/ \E r \in Runs : id = PlaceholderId(r) \/ id = InstanceId(r)
                       \/ \E i \in OwnIds : id = OwnId(i)
  BY DEF Ids, PlaceholderId, InstanceId, OwnId

LEMMA RowFacts ==
    /\ NoRow \in RowSet /\ NoRow.status = "none" /\ NoRow.run = NoRun
    /\ \A st, run : Row(st, run).status = st /\ Row(st, run).run = run
    /\ \A st \in {"none", "provisioning", "busy", "down"}, run \in Runs \union {NoRun} :
          Row(st, run) \in RowSet
    /\ \A row \in RowSet : row = NoRow <=> row.status = "none" /\ row.run = NoRun
  BY DEF NoRow, Row, RowSet

\* Merged is also what set_down_by_run does to a row.
LEMMA MergedFacts ==
    \A row \in RowSet : /\ Merged(row) \in RowSet
                        /\ Merged(row).run = row.run /\ Merged(row).status = "down"
  BY DEF Merged, RowSet

\* The two rows of a run, seen from their ids.
LEMMA RunRows ==
    ASSUME Shape, RowsFit, NEW r \in Runs
    PROVE  /\ rows[PlaceholderId(r)] \in RowSet /\ rows[InstanceId(r)] \in RowSet
           /\ Exists(PlaceholderId(r)) =>
                 /\ rows[PlaceholderId(r)].run = r
                 /\ rows[PlaceholderId(r)].status \in {"provisioning", "down"}
           /\ Exists(InstanceId(r)) =>
                 /\ rows[InstanceId(r)].run = r
                 /\ rows[InstanceId(r)].status \in {"busy", "down"}
           /\ \A id \in Ids : rows[id].run = r => id \in {PlaceholderId(r), InstanceId(r)}
           /\ RowsOf(r) = {id \in {PlaceholderId(r), InstanceId(r)} : Exists(id)}
<1>1. /\ rows[PlaceholderId(r)] \in RowSet /\ rows[InstanceId(r)] \in RowSet
      /\ Exists(PlaceholderId(r)) => RowFits(PlaceholderId(r), rows[PlaceholderId(r)])
      /\ Exists(InstanceId(r)) => RowFits(InstanceId(r), rows[InstanceId(r)])
  BY IdFacts DEF Shape, RowsFit
<1>2. Exists(PlaceholderId(r)) => /\ rows[PlaceholderId(r)].run = r
                                  /\ rows[PlaceholderId(r)].status \in {"provisioning", "down"}
  BY <1>1, IdFacts DEF RowFits
<1>3. Exists(InstanceId(r)) => /\ rows[InstanceId(r)].run = r
                               /\ rows[InstanceId(r)].status \in {"busy", "down"}
  BY <1>1, IdFacts DEF RowFits
<1>4. \A id \in Ids : rows[id].run = r => Exists(id)
  BY RowFacts, NoRunAssumption DEF Exists
<1>5. \A id \in Ids : rows[id].run = r => id \in {PlaceholderId(r), InstanceId(r)}
  BY <1>4, IdFacts, NoRunAssumption DEF RowsFit, RowFits
<1> QED BY <1>1, <1>2, <1>3, <1>4, <1>5, IdFacts DEF RowsOf

\* A run has two rows when both its ids are taken, and one when one is.
LEMMA RowCount ==
    ASSUME Shape, RowsFit, NEW r \in Runs
    PROVE  /\ Cardinality(RowsOf(r)) > 1 <=> Exists(PlaceholderId(r)) /\ Exists(InstanceId(r))
           /\ Cardinality(RowsOf(r)) <= 1 <=> ~(Exists(PlaceholderId(r)) /\ Exists(InstanceId(r)))
           /\ Exists(PlaceholderId(r)) /\ ~Exists(InstanceId(r)) => Cardinality(RowsOf(r)) = 1
<1> DEFINE p == PlaceholderId(r)
           i == InstanceId(r)
<1>1. p # i /\ RowsOf(r) = {id \in {p, i} : Exists(id)}
  BY RunRows, IdFacts
<1> HIDE DEF p, i
<1>2. CASE Exists(p) /\ Exists(i)
  <2>1. RowsOf(r) = {p} \union {i}
    BY <1>1, <1>2
  <2>2. IsFiniteSet({p}) /\ Cardinality({p}) = 1
    BY FS_Singleton
  <2>3. Cardinality(RowsOf(r)) = 2
    BY <1>1, <2>1, <2>2, FS_AddElement
  <2> QED BY <1>2, <2>3 DEF p, i
<1>3. CASE Exists(p) /\ ~Exists(i)
  <2>1. RowsOf(r) = {p}
    BY <1>1, <1>3
  <2> QED BY <1>3, <2>1, FS_Singleton DEF p, i
<1>4. CASE ~Exists(p) /\ Exists(i)
  <2>1. RowsOf(r) = {i}
    BY <1>1, <1>4
  <2>2. Cardinality(RowsOf(r)) = 1
    BY <2>1, FS_Singleton
  <2> QED BY <1>4, <2>2 DEF p, i
<1>5. CASE ~Exists(p) /\ ~Exists(i)
  <2>1. Cardinality(RowsOf(r)) = 0
    BY <1>1, <1>5, FS_EmptySet
  <2> QED BY <1>5, <2>1 DEF p, i
<1> QED BY <1>2, <1>3, <1>4, <1>5

-----------------------------------------------------------------------------
(***************************************************************************)
(* The invariant is inductive.                                             *)
(***************************************************************************)

\* A row that stays, or whose run is past set_busy, leaves a request what it was.
LEMMA RequestsKept ==
    ASSUME NodesInv,
           \A r \in Runs : ~Early(r) => ~Early(r)',
           \A id \in Ids : Exists(id) => KnownId(id)',
           UNCHANGED req
    PROVE  \A c \in Clients : RequestFits(c)'
<1> SUFFICES ASSUME NEW c \in Clients, req[c].op = "delete"
             PROVE  RowFits(req[c].id, req[c].seen) /\ KnownId(req[c].id)'
  BY DEF RequestFits, RowFits
<1>1. RowFits(req[c].id, req[c].seen) /\ KnownId(req[c].id)
  BY DEF NodesInv, RequestFits
<1>2. req[c].id \in Ids
  BY DEF NodesInv, Shape, RequestSet, NoRequest
<1> QED BY <1>1, <1>2 DEF KnownId

\* What a step leaves of a run it is not about.
Still(r) ==
    /\ UNCHANGED <<task[r], release[r], ended[r], vm[r]>>
    /\ r \in preempted' <=> r \in preempted

LEMMA StageRowsKept ==
    ASSUME NEW r \in Runs, StageRows(r), Still(r),
           UNCHANGED <<rows[PlaceholderId(r)], rows[InstanceId(r)]>>,
           overtaken \subseteq overtaken', blind \subseteq blind'
    PROVE  StageRows(r)'
  BY DEF StageRows, Orderly, Early, Exists, Still

\* One row is written, and fits its id.
LEMMA WriteRow ==
    ASSUME Shape, RowsFit, NEW id \in Ids, NEW row \in RowSet, RowFits(id, row),
           rows' = [rows EXCEPT ![id] = row]
    PROVE  /\ rows' \in [Ids -> RowSet] /\ RowsFit'
           /\ \A x \in Ids : rows'[x] = IF x = id THEN row ELSE rows[x]
           /\ \A x \in Ids : Exists(x)' <=> x = id \/ Exists(x)
<1>1. rows' \in [Ids -> RowSet] /\ \A x \in Ids : rows'[x] = IF x = id THEN row ELSE rows[x]
  BY DEF Shape
<1>2. row.status # "none"
  BY DEF RowFits
<1>3. \A x \in Ids : Exists(x)' <=> x = id \/ Exists(x)
  BY <1>1, <1>2, RowFacts DEF Exists
<1>4. RowsFit'
  BY <1>1, <1>3 DEF RowsFit, RowFits
<1> QED BY <1>1, <1>3, <1>4

LEMMA CreateProvisioningRows ==
    ASSUME Shape, RowsFit, NEW r \in Runs, CreateProvisioning(r)
    PROVE  /\ rows' \in [Ids -> RowSet] /\ RowsFit'
           /\ \A x \in Ids :
                 rows'[x] = IF x = PlaceholderId(r) THEN Row("provisioning", r) ELSE rows[x]
           /\ \A x \in Ids : Exists(x)' <=> x = PlaceholderId(r) \/ Exists(x)
<1>1. Row("provisioning", r) \in RowSet /\ PlaceholderId(r) \in Ids
  BY RowFacts, IdFacts
<1>2. RowFits(PlaceholderId(r), Row("provisioning", r))
  BY RowFacts DEF RowFits
<1> QED BY <1>1, <1>2, WriteRow DEF CreateProvisioning

LEMMA SetBusyRows ==
    ASSUME Shape, RowsFit, NEW r \in Runs, SetBusy(r),
           Exists(PlaceholderId(r)), ~Exists(InstanceId(r))
    PROVE  /\ rows' \in [Ids -> RowSet] /\ RowsFit'
           /\ \A x \in Ids :
                 rows'[x] = IF x = InstanceId(r) THEN Row("busy", r)
                            ELSE IF x = PlaceholderId(r) THEN NoRow ELSE rows[x]
           /\ \A x \in Ids :
                 Exists(x)' <=> x = InstanceId(r) \/ (x # PlaceholderId(r) /\ Exists(x))
<1> DEFINE p == PlaceholderId(r)
           i == InstanceId(r)
<1>1. p \in Ids /\ i \in Ids /\ p # i
  BY IdFacts
<1>2. rows' = [rows EXCEPT ![p] = NoRow, ![i] = Row("busy", r)]
  BY RunRows DEF SetBusy
<1>3. Row("busy", r) \in RowSet /\ NoRow \in RowSet /\ Row("busy", r) # NoRow
  BY RowFacts
<1>4. \A x \in Ids : rows'[x] = IF x = i THEN Row("busy", r) ELSE IF x = p THEN NoRow ELSE rows[x]
  BY <1>1, <1>2 DEF Shape
<1>5. rows' \in [Ids -> RowSet]
  BY <1>2, <1>3 DEF Shape
<1>6. \A x \in Ids : Exists(x)' <=> x = i \/ (x # p /\ Exists(x))
  BY <1>1, <1>3, <1>4 DEF Exists
<1>7. RowFits(i, Row("busy", r))
  BY RowFacts DEF RowFits
<1>8. RowsFit'
  <2> SUFFICES ASSUME NEW x \in Ids, Exists(x)' PROVE RowFits(x, rows'[x])
    BY DEF RowsFit, RowFits
  <2>1. CASE x = i BY <1>4, <1>7, <2>1
  <2>2. CASE x # i
    <3>1. rows'[x] = rows[x] /\ Exists(x)
      BY <1>4, <1>6, <2>2
    <3> QED BY <3>1 DEF RowsFit
  <2> QED BY <2>1, <2>2
<1> QED BY <1>4, <1>5, <1>6, <1>8

LEMMA SetDownRows ==
    ASSUME Shape, RowsFit, NEW r \in Runs, SetDownByRun(r)
    PROVE  /\ rows' \in [Ids -> RowSet] /\ RowsFit'
           /\ \A x \in Ids : x \notin {PlaceholderId(r), InstanceId(r)} => rows'[x] = rows[x]
           /\ \A x \in Ids : Exists(x)' <=> Exists(x)
           /\ \A x \in {PlaceholderId(r), InstanceId(r)} :
                 rows'[x].status = IF Exists(x) THEN "down" ELSE "none"
           /\ ~(Exists(PlaceholderId(r)) /\ Exists(InstanceId(r)))
<1>1. \A x \in Ids : rows'[x] = IF x \in RowsOf(r) THEN Merged(rows[x]) ELSE rows[x]
  BY DEF SetDownByRun, Merged
<1>2. RowsOf(r) = {x \in {PlaceholderId(r), InstanceId(r)} : Exists(x)}
  BY RunRows
<1>3. rows' \in [Ids -> RowSet]
  <2>1. \A x \in Ids : rows'[x] \in RowSet
    BY <1>1, MergedFacts DEF Shape
  <2> QED BY <2>1 DEF SetDownByRun
<1>4. \A x \in RowsOf(r) : x \in Ids /\ rows[x] \in RowSet
                           /\ rows'[x].status = "down" /\ rows'[x].run = rows[x].run
  BY <1>1, MergedFacts DEF RowsOf, Shape
<1>5. \A x \in Ids : Exists(x)' <=> Exists(x)
  BY <1>1, <1>2, <1>4, RowFacts DEF Exists
<1>6. RowsFit'
  <2> SUFFICES ASSUME NEW x \in Ids, Exists(x)' PROVE RowFits(x, rows'[x])
    BY DEF RowsFit, RowFits
  <2>1. RowFits(x, rows[x])
    BY <1>5 DEF RowsFit
  <2>2. CASE x \in RowsOf(r) BY <1>4, <2>1, <2>2 DEF RowFits
  <2>3. CASE x \notin RowsOf(r) BY <1>1, <2>1, <2>3
  <2> QED BY <2>2, <2>3
<1>7. \A x \in {PlaceholderId(r), InstanceId(r)} :
          rows'[x].status = IF Exists(x) THEN "down" ELSE "none"
  BY <1>1, <1>2, <1>4, IdFacts, RowFacts DEF Exists
<1> QED BY <1>1, <1>2, <1>3, <1>5, <1>6, <1>7, RowCount DEF SetDownByRun

\* A step of the orchestrator with one run, which touches no row but the run's
\* and takes none but its placeholder away.
LEMMA OneRunStep ==
    ASSUME NodesInv, NEW r \in Runs,
           rows' \in [Ids -> RowSet], RowsFit', RunsShape',
           \A s \in Runs \ {r} : Still(s),
           \A x \in Ids : x \notin {PlaceholderId(r), InstanceId(r)} => rows'[x] = rows[x],
           UNCHANGED apiVars,
           StageRows(r)',
           ~Early(r) => ~Early(r)',
           \A x \in {PlaceholderId(r), InstanceId(r)} : Exists(x) => KnownId(x)'
    PROVE  NodesInv'
<1>1. Shape'
  BY DEF NodesInv, Shape, apiVars
<1>2. ASSUME NEW s \in Runs PROVE StageRows(s)'
  <2>1. CASE s = r BY <2>1
  <2>2. CASE s # r
    <3>1. UNCHANGED <<rows[PlaceholderId(s)], rows[InstanceId(s)]>> /\ Still(s)
      BY <2>2, IdFacts
    <3> QED BY <3>1, StageRowsKept DEF NodesInv, apiVars
  <2> QED BY <2>1, <2>2
<1>3. \A s \in Runs : ~Early(s) => ~Early(s)'
  BY DEF Early, Still
<1>4. \A x \in Ids : Exists(x) => KnownId(x)'
  BY DEF KnownId, Exists
<1>5. \A c \in Clients : RequestFits(c)'
  BY <1>3, <1>4, RequestsKept DEF apiVars
<1> QED BY <1>1, <1>2, <1>5 DEF NodesInv

\* A step is about one run, and no run that was preempted is forgotten.
LEMMA RunFrame ==
    ASSUME Shape, NEW r \in Runs, RunMoves(r)
    PROVE  /\ RunsShape'
           /\ \A s \in Runs \ {r} : Still(s)
           /\ r \in preempted => r \in preempted'
           /\ UNCHANGED apiVars
<1> USE DEF Shape, RunsShape, Tasks, Releases, Still, Goto, RelGoto, SetVm, SetEnded
<1>1. CASE Provision(r) BY <1>1 DEF Provision
<1>2. CASE Apply(r) BY <1>2 DEF Apply
<1>3. CASE ApplyFails(r)
  <2>1. PICK over \in BOOLEAN : ended' = [ended EXCEPT ![r] = over]
    BY <1>3 DEF ApplyFails
  <2>2. PICK up \in {FALSE, vm[r]} : vm' = [vm EXCEPT ![r] = up]
    BY <1>3 DEF ApplyFails
  <2>3. up \in BOOLEAN
    BY <2>2
  <2> QED BY <1>3, <2>1, <2>2, <2>3 DEF ApplyFails
<1>4. CASE Busy(r) BY <1>4 DEF Busy
<1>5. CASE EndRun(r) BY <1>5 DEF EndRun
<1>6. CASE Destroy(r) BY <1>6 DEF Destroy
<1>7. CASE DestroyFails(r) BY <1>7 DEF DestroyFails
<1>8. CASE MarkDown(r) BY <1>8 DEF MarkDown
<1>9. CASE MarkDownRaises(r) BY <1>9 DEF MarkDownRaises
<1>10. CASE RecoverLeaked(r) BY <1>10 DEF RecoverLeaked
<1> QED BY <1>1, <1>2, <1>3, <1>4, <1>5, <1>6, <1>7, <1>8, <1>9, <1>10 DEF RunMoves

LEMMA RunMovesStep ==
    ASSUME NodesInv, NEW r \in Runs, RunMoves(r)
    PROVE  NodesInv'
<1> DEFINE p == PlaceholderId(r)
           i == InstanceId(r)
<1>0. /\ Shape /\ RowsFit /\ StageRows(r)
      /\ p \in Ids /\ i \in Ids /\ p # i
      /\ rows \in [Ids -> RowSet] /\ task[r] \in Tasks /\ vm[r] \in BOOLEAN
      /\ task \in [Runs -> Tasks] /\ release \in [Runs -> Releases]
      /\ ended \in [Runs -> BOOLEAN] /\ vm \in [Runs -> BOOLEAN]
  BY IdFacts DEF NodesInv, Shape, RunsShape
<1>f. /\ RunsShape' /\ \A s \in Runs \ {r} : Still(s)
      /\ r \in preempted => r \in preempted'
      /\ UNCHANGED apiVars
  BY <1>0, RunFrame
\* No row is written.
<1>1. ASSUME UNCHANGED rows, Early(r)' <=> Early(r), StageRows(r)' PROVE NodesInv'
  <2>1. \A x \in Ids : Exists(x) => KnownId(x)'
    BY <1>1 DEF KnownId, Exists
  <2>2. RowsFit'
    BY <1>0, <1>1 DEF RowsFit, RowFits, Exists
  <2> QED BY <1>0, <1>f, <1>1, <2>1, <2>2, OneRunStep
<1>2. CASE Provision(r)
  <2>1. /\ task[r] = "none" /\ task'[r] = "applying"
        /\ UNCHANGED <<release, vm, ended, preempted, blind>>
    BY <1>0, <1>2, <1>f DEF Provision, Goto, apiVars
  <2>2. /\ rows' \in [Ids -> RowSet] /\ RowsFit'
        /\ \A x \in Ids : x # p => rows'[x] = rows[x]
        /\ \A x \in Ids : Exists(x)' <=> x = p \/ Exists(x)
    BY <1>0, <1>2, CreateProvisioningRows DEF Provision
  <2>3. StageRows(r)'
    BY <1>0, <2>1, <2>2 DEF StageRows, Orderly, Early
  <2> QED BY <1>0, <1>f, <2>1, <2>2, <2>3, OneRunStep DEF Early, KnownId
<1>3. CASE ApplyFails(r)
  <2>1. /\ task[r] \in {"applying", "created"} /\ task'[r] = "none"
        /\ UNCHANGED <<release, preempted, blind>>
    BY <1>0, <1>3, <1>f DEF ApplyFails, Goto, apiVars
  <2>2. /\ rows' \in [Ids -> RowSet] /\ RowsFit'
        /\ \A x \in Ids : x \notin {p, i} => rows'[x] = rows[x]
        /\ \A x \in Ids : Exists(x)' <=> Exists(x)
    BY <1>0, <1>3, SetDownRows DEF ApplyFails
  <2>3. StageRows(r)'
    BY <1>0, <2>1, <2>2 DEF StageRows, Orderly, Early
  <2> QED BY <1>0, <1>f, <2>1, <2>2, <2>3, OneRunStep DEF Early, KnownId
<1>4. CASE Apply(r)
  <2>1. /\ task[r] = "applying" /\ task'[r] = "created" /\ Early(r) /\ Early(r)'
        /\ UNCHANGED <<rows, release, preempted, ended>>
    BY <1>0, <1>4 DEF Apply, Goto, Early
  <2>2. StageRows(r)'
    BY <1>0, <1>f, <2>1 DEF StageRows, Orderly, Exists, apiVars
  <2> QED BY <1>1, <2>1, <2>2
<1>5. CASE Busy(r)
  <2>1. /\ task[r] = "created" /\ task'[r] = "busy"
        /\ UNCHANGED <<release, preempted, vm>>
    BY <1>0, <1>5 DEF Busy, Goto
  <2>2. Exists(p) /\ ~Exists(i)
    BY <1>0, <2>1 DEF StageRows, Early
  <2>3. /\ rows' \in [Ids -> RowSet] /\ RowsFit'
        /\ \A x \in Ids : x \notin {p, i} => rows'[x] = rows[x]
        /\ \A x \in Ids : Exists(x)' <=> x = i \/ (x # p /\ Exists(x))
        /\ rows'[i].status = "busy"
    BY <1>0, <1>5, <2>2, SetBusyRows, RowFacts DEF Busy
  <2>4. StageRows(r)'
    BY <1>0, <2>1, <2>3 DEF StageRows, Orderly, Early
  <2>5. ~Early(r)'
    BY <2>1 DEF Early
  <2>6. \A x \in {p, i} : KnownId(x)'
    BY <1>0, <2>3, <2>5 DEF KnownId
  <2> QED BY <1>0, <1>f, <2>1, <2>3, <2>4, <2>5, <2>6, OneRunStep
<1>6. CASE EndRun(r)
  <2>1. /\ UNCHANGED <<rows, task, vm>> /\ ended'[r] /\ release'[r] = "releasing"
        /\ Early(r) => r \in preempted'
    BY <1>0, <1>6 DEF EndRun, RelGoto, SetEnded, Early
  <2>2. StageRows(r)'
    BY <1>0, <1>f, <2>1 DEF StageRows, Orderly, Early, Exists, apiVars
  <2> QED BY <1>1, <2>1, <2>2 DEF Early
<1>7. CASE Destroy(r)
  <2>1. /\ UNCHANGED <<rows, task, ended, preempted>> /\ ~vm'[r]
        /\ release[r] = "releasing" /\ release'[r] = "marking"
    BY <1>0, <1>7 DEF Destroy, RelGoto, SetVm
  <2>2. StageRows(r)'
    BY <1>0, <1>f, <2>1 DEF StageRows, Orderly, Early, Exists, apiVars
  <2> QED BY <1>1, <2>1, <2>2 DEF Early
<1>8. CASE DestroyFails(r) \/ RecoverLeaked(r) \/ MarkDownRaises(r)
  <2>1. /\ UNCHANGED <<rows, task, ended, vm, preempted>>
        /\ release[r] # "none" /\ release'[r] # "marking"
    BY <1>0, <1>8 DEF DestroyFails, RecoverLeaked, MarkDownRaises, RelGoto
  <2>2. StageRows(r)'
    BY <1>0, <1>f, <2>1 DEF StageRows, Orderly, Early, Exists, apiVars
  <2> QED BY <1>1, <2>1, <2>2 DEF Early
<1>9. CASE MarkDown(r)
  <2>1. /\ UNCHANGED <<task, ended, vm, preempted>>
        /\ release[r] = "marking" /\ release'[r] = "none"
    BY <1>0, <1>9 DEF MarkDown, RelGoto
  <2>2. /\ rows' \in [Ids -> RowSet] /\ RowsFit'
        /\ \A x \in Ids : x \notin {p, i} => rows'[x] = rows[x]
        /\ \A x \in Ids : Exists(x)' <=> Exists(x)
    BY <1>0, <1>9, SetDownRows DEF MarkDown
  <2>3. StageRows(r)'
    BY <1>0, <1>f, <2>1, <2>2 DEF StageRows, Orderly, Early, apiVars
  <2> QED BY <1>0, <1>f, <2>1, <2>2, <2>3, OneRunStep DEF Early, KnownId
<1> QED BY <1>2, <1>3, <1>4, <1>5, <1>6, <1>7, <1>8, <1>9 DEF RunMoves

\* What a deregistration that writes its row back has in its hands.
LEMMA SavedRow ==
    ASSUME NodesInv, NEW c \in Clients, req[c].op = "delete"
    PROVE  /\ req[c].id \in Ids /\ req[c].seen \in RowSet
           /\ RowFits(req[c].id, Merged(req[c].seen)) /\ Merged(req[c].seen) \in RowSet
           /\ Merged(req[c].seen).status = "down" /\ KnownId(req[c].id)
<1>1. req[c].id \in Ids /\ req[c].seen \in RowSet
  BY DEF NodesInv, Shape, RequestSet, NoRequest
<1>2. RowFits(req[c].id, req[c].seen) /\ KnownId(req[c].id)
  BY DEF NodesInv, RequestFits
<1>3. RowFits(req[c].id, Merged(req[c].seen))
  BY <1>1, <1>2, MergedFacts DEF RowFits
<1> QED BY <1>1, <1>2, <1>3, MergedFacts

LEMMA ClientMovesStep ==
    ASSUME NodesInv, NEW c \in Clients, ClientMoves(c)
    PROVE  NodesInv'
<1>0. Shape /\ RowsFit /\ req \in [Clients -> RequestSet]
  BY DEF NodesInv, Shape
\* The request of one client changes, and the rows do not.
<1>1. ASSUME UNCHANGED <<rows, runVars, overtaken, blind>>,
             NEW q \in RequestSet, req' = [req EXCEPT ![c] = q],
             q.op = "delete" => RowFits(q.id, q.seen) /\ Exists(q.id)
      PROVE  NodesInv'
  <2>1. Shape' /\ RowsFit'
    BY <1>0, <1>1 DEF Shape, RunsShape, runVars, RowsFit, RowFits, Exists
  <2>2. \A r \in Runs : StageRows(r)'
    BY <1>1 DEF NodesInv, StageRows, Orderly, Early, Exists, runVars
  <2>3. ASSUME NEW o \in Clients PROVE RequestFits(o)'
    <3>1. CASE o = c
      BY <1>0, <1>1, <3>1 DEF RequestFits, RowFits, KnownId, Exists, Early, runVars
    <3>2. CASE o # c
      <4>1. req'[o] = req[o]
        BY <1>0, <1>1, <3>2
      <4> QED BY <1>1, <4>1 DEF NodesInv, RequestFits, RowFits, KnownId, Exists, Early, runVars
    <3> QED BY <3>1, <3>2
  <2> QED BY <2>1, <2>2, <2>3 DEF NodesInv
\* One row is written by a client that has its answer.
<1>2. ASSUME NEW id \in Ids, NEW row \in RowSet, RowFits(id, row),
             rows' = [rows EXCEPT ![id] = row],
             \A r \in Runs : id = InstanceId(r) => Exists(id) /\ r \in blind',
             \A r \in Runs : id = PlaceholderId(r) => Exists(id) \/ (r \in overtaken' /\ ~Early(r)),
             req' = [req EXCEPT ![c] = NoRequest],
             overtaken \subseteq overtaken', blind \subseteq blind',
             overtaken' \subseteq Runs, blind' \subseteq Runs,
             UNCHANGED runVars
      PROVE  NodesInv'
  <2>1. /\ rows' \in [Ids -> RowSet] /\ RowsFit'
        /\ \A x \in Ids : rows'[x] = IF x = id THEN row ELSE rows[x]
        /\ \A x \in Ids : Exists(x)' <=> x = id \/ Exists(x)
    BY <1>0, <1>2, WriteRow
  <2>2. Shape'
    BY <1>0, <1>2, <2>1 DEF Shape, RunsShape, runVars, RequestSet
  <2>3. ASSUME NEW r \in Runs PROVE StageRows(r)'
    <3>1. PlaceholderId(r) \in Ids /\ InstanceId(r) \in Ids /\ StageRows(r)
      BY IdFacts DEF NodesInv
    <3> QED BY <1>2, <2>1, <3>1 DEF StageRows, Orderly, Early, runVars
  <2>4. ASSUME NEW o \in Clients PROVE RequestFits(o)'
    <3>1. CASE o = c
      BY <1>0, <1>2, <3>1 DEF RequestFits, NoRequest
    <3>2. CASE o # c
      <4>1. req'[o] = req[o] /\ req[o] \in RequestSet
        BY <1>0, <1>2, <3>2
      <4>2. req[o].op = "delete" => req[o].id \in Ids
        BY <4>1 DEF RequestSet, NoRequest
      <4> QED BY <1>2, <2>1, <4>1, <4>2 DEF NodesInv, RequestFits, RowFits, KnownId, Early, runVars
    <3> QED BY <3>1, <3>2
  <2> QED BY <2>1, <2>2, <2>3, <2>4 DEF NodesInv
<1>3. ASSUME NEW i \in OwnIds, Register(c, i) PROVE NodesInv'
  <2> DEFINE q == [op |-> "register", id |-> OwnId(i)]
  <2>1. q \in RequestSet /\ q.op # "delete"
    BY DEF RequestSet
  <2> QED BY <1>1, <1>3, <2>1 DEF Register
<1>4. ASSUME NEW id \in Ids, Deregister(c, id) PROVE NodesInv'
  <2> DEFINE q == [op |-> "delete", id |-> id, seen |-> rows[id]]
  <2>1. q \in RequestSet /\ q.id = id /\ q.seen = rows[id]
    BY <1>0 DEF RequestSet, Shape
  <2>2. RowFits(id, rows[id]) /\ Exists(id)
    BY <1>0, <1>4 DEF Deregister, RowsFit
  <2> QED BY <1>1, <1>4, <2>1, <2>2 DEF Deregister
<1>5. CASE RegisterCreate(c)
  <2> DEFINE row == IF Exists(req[c].id) THEN rows[req[c].id] ELSE Row("provisioning", NoRun)
  <2>1. PICK i \in OwnIds : req[c].id = OwnId(i)
    BY <1>0, <1>5 DEF RegisterCreate, RequestSet, NoRequest
  <2>2. req[c].id \in Ids
    BY <2>1, IdFacts
  <2>3. row \in RowSet
    BY <1>0, <2>2, RowFacts DEF Shape
  <2>4. RowFits(req[c].id, row)
    BY <1>0, <2>1, <2>2, RowFacts DEF RowsFit, RowFits
  <2>5. rows' = [rows EXCEPT ![req[c].id] = row]
    BY <1>5 DEF RegisterCreate, Exists
  <2>6. \A r \in Runs : req[c].id # InstanceId(r) /\ req[c].id # PlaceholderId(r)
    BY <2>1, IdFacts
  <2> HIDE DEF row
  <2> QED BY <1>0, <1>2, <1>5, <2>2, <2>3, <2>4, <2>5, <2>6 DEF RegisterCreate, Reply, Shape
<1>6. CASE DeregisterSave(c)
  <2> DEFINE id == req[c].id
             row == Merged(req[c].seen)
  <2>1. req[c].op = "delete"
    BY <1>6 DEF DeregisterSave
  <2>2. /\ id \in Ids /\ row \in RowSet /\ RowFits(id, row) /\ KnownId(id)
    BY <2>1, SavedRow
  <2>3. /\ rows' = [rows EXCEPT ![id] = row]
        /\ overtaken' = overtaken \union {r \in Runs : id = PlaceholderId(r) /\ ~Exists(id)}
        /\ blind' = blind \union {r \in Runs : id = InstanceId(r)}
        /\ req' = [req EXCEPT ![c] = NoRequest] /\ UNCHANGED runVars
    BY <1>6 DEF DeregisterSave, Reply
  <2>4. overtaken \subseteq Runs /\ blind \subseteq Runs
    BY <1>0 DEF Shape
  <2> HIDE DEF id, row
  <2>5. \A r \in Runs : id = InstanceId(r) => Exists(id) /\ r \in blind'
    BY <2>2, <2>3, IdFacts DEF KnownId
  <2>6. \A r \in Runs : id = PlaceholderId(r) => Exists(id) \/ (r \in overtaken' /\ ~Early(r))
    BY <2>2, <2>3, IdFacts DEF KnownId
  <2> QED BY <1>2, <2>2, <2>3, <2>4, <2>5, <2>6
<1> QED BY <1>3, <1>4, <1>5, <1>6 DEF ClientMoves

LEMMA NodesInit == Init => NodesInv
<1> SUFFICES ASSUME Init PROVE NodesInv
  OBVIOUS
<1>1. Shape
  BY RowFacts DEF Init, Shape, RunsShape, Tasks, Releases, RequestSet
<1>2. \A id \in Ids : ~Exists(id)
  BY DEF Init, Exists
<1>3. \A r \in Runs : StageRows(r)
  BY <1>2, IdFacts DEF Init, StageRows, Orderly, Early
<1>4. \A c \in Clients : RequestFits(c)
  BY DEF Init, RequestFits, NoRequest
<1> QED BY <1>1, <1>2, <1>3, <1>4 DEF NodesInv, RowsFit

LEMMA NodesStep == NodesInv /\ [Next]_vars => NodesInv'
<1> SUFFICES ASSUME NodesInv, [Next]_vars PROVE NodesInv'
  OBVIOUS
<1>1. CASE UNCHANGED vars
  BY <1>1 DEF vars, runVars, NodesInv, Shape, RunsShape, RowsFit, RowFits, StageRows, Orderly,
              Early, RequestFits, KnownId, Exists
<1> QED BY <1>1, RunMovesStep, ClientMovesStep DEF Next

LEMMA NodesInvHolds == Spec => []NodesInv
  BY NodesInit, NodesStep, PTL DEF Spec

-----------------------------------------------------------------------------
(***************************************************************************)
(* What follows of the invariant.                                          *)
(***************************************************************************)

\* TypeOK: a busy row is never under the placeholder id of a run.
THEOREM NodesTypeCorrect == Spec => []TypeOK
<1>1. ASSUME NodesInv PROVE TypeOK
  <2>1. Shape /\ RowsFit
    BY <1>1 DEF NodesInv
  <2>2. \A c \in Clients : req[c] = NoRequest \/ req[c].id \in Ids
    BY <2>1, IdFacts DEF Shape, RequestSet
  <2>3. ASSUME NEW r \in Runs PROVE rows[PlaceholderId(r)].status # "busy"
    BY <2>1, RunRows, RowFacts DEF Exists
  <2> QED BY <2>1, <2>2, <2>3 DEF TypeOK, Shape, RunsShape, RowSet, Tasks, Releases
<1> QED BY <1>1, NodesInvHolds, PTL

\* BusyFindsItsRow: whatever clients register and deregister meanwhile, set_busy
\* finds exactly the row that create_provisioning wrote for its run.
THEOREM BusyFindsItsRowHolds == Spec => []BusyFindsItsRow
<1>1. ASSUME NodesInv PROVE BusyFindsItsRow
  <2> SUFFICES ASSUME NEW r \in Runs, task[r] = "created"
               PROVE  Cardinality(RowsOf(r)) = 1
    BY DEF BusyFindsItsRow
  <2>1. Exists(PlaceholderId(r)) /\ ~Exists(InstanceId(r))
    BY <1>1 DEF NodesInv, StageRows, Early
  <2> QED BY <1>1, <2>1, RowCount DEF NodesInv
<1> QED BY <1>1, NodesInvHolds, PTL

\* TwoRowsNeedRace: only a deregistration that read the row before set_busy
\* renamed it, and merged it back after, leaves a run with two rows.
THEOREM TwoRowsNeedRaceHolds == Spec => []TwoRowsNeedRace
<1>1. ASSUME NodesInv PROVE TwoRowsNeedRace
  <2> SUFFICES ASSUME NEW r \in Runs, Cardinality(RowsOf(r)) > 1
               PROVE  r \in overtaken
    BY DEF TwoRowsNeedRace
  <2>1. Exists(PlaceholderId(r)) /\ Exists(InstanceId(r))
    BY <1>1, RowCount DEF NodesInv
  <2> QED BY <1>1, <2>1 DEF NodesInv, StageRows
<1> QED BY <1>1, NodesInvHolds, PTL

\* LeakIsFindable: a release gives up on a VM that the next start will not find
\* only when a client has marked its row down, or when the run was once ended
\* before set_busy; whatever clients and runs do beside.
THEOREM LeakIsFindableHolds == Spec => []LeakIsFindable
<1>1. ASSUME NodesInv PROVE LeakIsFindable
  <2> SUFFICES ASSUME NEW r \in Runs, release[r] = "gaveup", vm[r],
                      r \notin blind, r \notin preempted
               PROVE  r \in Leaked
    BY DEF LeakIsFindable
  <2>1. ~Early(r) /\ ended[r] /\ rows[InstanceId(r)].status = "busy"
    BY <1>1 DEF NodesInv, StageRows, Orderly
  <2>2. Exists(InstanceId(r))
    BY <1>1, <2>1 DEF NodesInv, StageRows
  <2>3. rows[InstanceId(r)].run = r /\ InstanceId(r) \in Ids
    BY <1>1, <2>2, RunRows, IdFacts DEF NodesInv
  <2> QED BY <2>1, <2>3 DEF Leaked, RowsOf
<1> QED BY <1>1, NodesInvHolds, PTL

-----------------------------------------------------------------------------
(***************************************************************************)
(* The rows implement NodeTable.                                           *)
(***************************************************************************)

TableStep ==
    [\E r \in Runs : TableMoves(r) \/ (r \in overtaken' /\ OnlyRowsOf(r))]_(Table!nodeVars)

\* What NodeTable calls ambiguous is a run with two rows.
LEMMA TwoRowsAreAmbiguous ==
    ASSUME Shape, RowsFit, NEW r \in Runs
    PROVE  /\ Table!Ambiguous(r) <=> Exists(PlaceholderId(r)) /\ Exists(InstanceId(r))
           /\ Exists(PlaceholderId(r)) <=> rows[PlaceholderId(r)].status # "none"
           /\ Exists(InstanceId(r)) <=> rows[InstanceId(r)].status # "none"
  BY RunRows, RowFacts DEF Table!Ambiguous, Exists

\* The rows of the runs stay, whatever becomes of the operators' own.
LEMMA TableIdle ==
    ASSUME \A r \in Runs : UNCHANGED <<rows[PlaceholderId(r)], rows[InstanceId(r)]>>
    PROVE  UNCHANGED Table!nodeVars
  BY DEF Table!nodeVars

\* Marking down every row of a run that has one at most.
LEMMA TableDown ==
    ASSUME Shape, RowsFit, NEW r \in Runs,
           ~(Exists(PlaceholderId(r)) /\ Exists(InstanceId(r))),
           \A x \in {PlaceholderId(r), InstanceId(r)} :
              rows'[x].status = IF Exists(x) THEN "down" ELSE "none",
           \A x \in Ids : x \notin {PlaceholderId(r), InstanceId(r)} => rows'[x] = rows[x]
    PROVE  Table!SetDownByRun(r)
<1> DEFINE ph == [s \in Runs |-> rows[PlaceholderId(s)].status]
           in == [s \in Runs |-> rows[InstanceId(s)].status]
<1>1. ~Table!Ambiguous(r)
  BY TwoRowsAreAmbiguous
<1>2. ph' = [ph EXCEPT ![r] = IF @ = "none" THEN @ ELSE "down"]
  <2>1. \A s \in Runs : ph'[s] = IF s = r THEN IF ph[r] = "none" THEN "none" ELSE "down"
                                 ELSE ph[s]
    BY TwoRowsAreAmbiguous, IdFacts
  <2> QED BY <2>1
<1>3. in' = [in EXCEPT ![r] = IF @ = "none" THEN @ ELSE "down"]
  <2>1. \A s \in Runs : in'[s] = IF s = r THEN IF in[r] = "none" THEN "none" ELSE "down"
                                 ELSE in[s]
    BY TwoRowsAreAmbiguous, IdFacts
  <2> QED BY <2>1
<1> QED BY <1>1, <1>2, <1>3 DEF Table!SetDownByRun

LEMMA TableRunMoves ==
    ASSUME NodesInv, NEW r \in Runs, RunMoves(r)
    PROVE  TableStep
<1>0. /\ Shape /\ RowsFit /\ StageRows(r)
      /\ \A s \in Runs : PlaceholderId(s) \in Ids /\ InstanceId(s) \in Ids
  BY IdFacts DEF NodesInv
<1> DEFINE ph == [s \in Runs |-> rows[PlaceholderId(s)].status]
           in == [s \in Runs |-> rows[InstanceId(s)].status]
<1>1. ASSUME UNCHANGED rows PROVE TableStep
  BY <1>1, TableIdle DEF TableStep
<1>2. ASSUME SetDownByRun(r) PROVE TableStep
  BY <1>0, <1>2, SetDownRows, TableDown DEF TableStep, TableMoves
<1>3. CASE Provision(r)
  <2>1. \A x \in Ids :
           rows'[x] = IF x = PlaceholderId(r) THEN Row("provisioning", r) ELSE rows[x]
    BY <1>0, <1>3, CreateProvisioningRows DEF Provision
  <2>2. in' = in
    BY <1>0, <2>1, IdFacts
  <2>3. \A s \in Runs : ph'[s] = IF s = r THEN "provisioning" ELSE ph[s]
    BY <1>0, <2>1, IdFacts, RowFacts
  <2>4. ph' = [ph EXCEPT ![r] = "provisioning"]
    BY <2>3
  <2>5. Table!CreateProvisioning(r)
    BY <2>2, <2>4 DEF Table!CreateProvisioning
  <2> QED BY <2>5 DEF TableStep, TableMoves
<1>4. CASE Busy(r)
  <2>1. Exists(PlaceholderId(r)) /\ ~Exists(InstanceId(r))
    BY <1>0, <1>4 DEF Busy, Goto, StageRows, Early
  <2>2. \A x \in Ids : rows'[x] = IF x = InstanceId(r) THEN Row("busy", r)
                                  ELSE IF x = PlaceholderId(r) THEN NoRow ELSE rows[x]
    BY <1>0, <1>4, <2>1, SetBusyRows DEF Busy
  <2>3. \A s \in Runs : /\ in'[s] = IF s = r THEN "busy" ELSE in[s]
                        /\ ph'[s] = IF s = r THEN "none" ELSE ph[s]
    BY <1>0, <2>2, IdFacts, RowFacts
  <2>4. in' = [in EXCEPT ![r] = "busy"] /\ ph' = [ph EXCEPT ![r] = "none"]
    BY <2>3
  <2>5. Table!SetBusy(r)
    BY <1>0, <2>1, <2>4, TwoRowsAreAmbiguous DEF Table!SetBusy
  <2> QED BY <2>5 DEF TableStep, TableMoves
<1> QED BY <1>1, <1>2, <1>3, <1>4
        DEF RunMoves, ApplyFails, Apply, EndRun, Destroy, DestroyFails, MarkDown,
            MarkDownRaises, RecoverLeaked

LEMMA TableClientMoves ==
    ASSUME NodesInv, NEW c \in Clients, ClientMoves(c)
    PROVE  TableStep
<1>0. Shape /\ RowsFit /\ req \in [Clients -> RequestSet] /\ rows \in [Ids -> RowSet]
  BY DEF NodesInv, Shape
<1>1. ASSUME UNCHANGED rows PROVE TableStep
  BY <1>1, TableIdle DEF TableStep
<1>2. ASSUME NEW i \in OwnIds, \A x \in Ids \ {OwnId(i)} : rows'[x] = rows[x]
      PROVE  TableStep
  BY <1>2, TableIdle, IdFacts DEF TableStep
<1>3. CASE RegisterCreate(c)
  <2>1. PICK i \in OwnIds : req[c].id = OwnId(i)
    BY <1>0, <1>3 DEF RegisterCreate, RequestSet, NoRequest
  <2>2. \A x \in Ids \ {OwnId(i)} : rows'[x] = rows[x]
    BY <1>0, <1>3, <2>1 DEF RegisterCreate
  <2> QED BY <1>2, <2>2
<1>4. CASE DeregisterSave(c)
  <2> DEFINE id == req[c].id
             row == Merged(req[c].seen)
  <2>1. req[c].op = "delete"
    BY <1>4 DEF DeregisterSave
  <2>2. id \in Ids /\ row \in RowSet /\ RowFits(id, row) /\ row.status = "down" /\ KnownId(id)
    BY <2>1, SavedRow
  <2>3. /\ rows' = [rows EXCEPT ![id] = row]
        /\ overtaken' = overtaken \union {r \in Runs : id = PlaceholderId(r) /\ ~Exists(id)}
    BY <1>4 DEF DeregisterSave
  <2> HIDE DEF id, row
  <2>4. \A x \in Ids : rows'[x] = IF x = id THEN row ELSE rows[x]
    BY <1>0, <2>3
  <2>5. CASE \E i \in OwnIds : id = OwnId(i)
    BY <1>2, <2>4, <2>5
  <2>6. ASSUME NEW r \in Runs, id \in {PlaceholderId(r), InstanceId(r)} PROVE TableStep
    <3>1. row.run = r
      BY <2>2, <2>6, IdFacts DEF RowFits
    <3>2. OnlyRowsOf(r)
      BY <2>4, <3>1 DEF OnlyRowsOf
    <3>3. CASE r \in overtaken'
      BY <3>2, <3>3 DEF TableStep
    <3>4. CASE r \notin overtaken'
      <4>1. Exists(id)
        BY <2>2, <2>3, <2>6, <3>4, IdFacts DEF KnownId
      <4>2. ~(Exists(PlaceholderId(r)) /\ Exists(InstanceId(r)))
        BY <2>3, <3>4 DEF NodesInv, StageRows
      <4>3. \A x \in {PlaceholderId(r), InstanceId(r)} :
               rows'[x].status = IF Exists(x) THEN "down" ELSE "none"
        <5> SUFFICES ASSUME NEW x \in {PlaceholderId(r), InstanceId(r)}
                     PROVE  rows'[x].status = IF Exists(x) THEN "down" ELSE "none"
          OBVIOUS
        <5>1. CASE x = id BY <2>2, <2>4, <4>1, <5>1
        <5>2. CASE x # id
          <6>1. x \in Ids /\ ~Exists(x)
            BY <2>6, <4>1, <4>2, <5>2, IdFacts
          <6> QED BY <2>4, <5>2, <6>1, RowFacts DEF Exists
        <5> QED BY <5>1, <5>2
      <4>4. Table!SetDownByRun(r)
        BY <1>0, <2>4, <2>6, <4>2, <4>3, TableDown
      <4> QED BY <4>4 DEF TableStep, TableMoves
    <3> QED BY <3>3, <3>4
  <2> QED BY <2>2, <2>5, <2>6, IdFacts
<1> QED BY <1>1, <1>3, <1>4 DEF ClientMoves, Register, Deregister

\* RowsImplementNodeTable: what the orchestrator takes the table for is what its
\* rows do, clients and all, but for runs whose renamed row a deregistration
\* brought back.
THEOREM NodeTableImplemented == Spec => RowsImplementNodeTable
<1>1. Init => Table!NodeTableInit
  BY IdFacts, RowFacts DEF Init, Table!NodeTableInit
<1>2. NodesInv /\ [Next]_vars => TableStep
  <2>1. UNCHANGED vars => TableStep
    BY TableIdle DEF vars, TableStep
  <2> QED BY <2>1, TableRunMoves, TableClientMoves DEF Next
<1>3. Spec => [][\E r \in Runs : TableMoves(r) \/ (r \in overtaken' /\ OnlyRowsOf(r))]_(Table!nodeVars)
  BY <1>2, NodesInvHolds, PTL DEF Spec, TableStep
<1> QED BY <1>1, <1>3, PTL DEF Spec, RowsImplementNodeTable
===============================================================================
