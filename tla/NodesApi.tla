------------------------------- MODULE NodesApi -------------------------------
(***************************************************************************)
(* The `nodes` table row by row, with its two users: the orchestrator,     *)
(* which creates, renames and marks down the row of a run, and the clients *)
(* of POST /nodes and DELETE /nodes/{id}, whose handlers read a row in one *)
(* session and write it in another.  Module NodeTable is what the          *)
(* orchestrator takes this table for.                                      *)
(***************************************************************************)
EXTENDS Naturals, RunIds

CONSTANTS
    OwnIds,   \* ids an operator registers nodes under
    Clients   \* requests to the nodes API under way at once

ASSUME NodesApiAssumption == IsFiniteSet(OwnIds) /\ IsFiniteSet(Clients)

VARIABLES
    rows,       \* the table: a row, or NoRow, for each id
    task,       \* where the provisioning of each run is
    release,    \* where the release_node of each run is
    ended,      \* the run is done or failed
    vm,         \* the run has a VM
    req,        \* the request of each client between its read and its write
    overtaken,  \* runs whose row was renamed between the two
    blind,      \* runs whose busy row a client has marked down
    preempted   \* runs that were ended before their row was busy

runVars == <<task, release, ended, vm, preempted>>
vars == <<rows, runVars, req, overtaken, blind>>

NoRun == "no run"

ASSUME NoRunAssumption == NoRun \notin Runs

PlaceholderId(r) == <<"node", r>>
InstanceId(r) == <<"instance", r>>
OwnId(i) == <<"own", i>>
Ids == {PlaceholderId(r) : r \in Runs} \union {InstanceId(r) : r \in Runs}
          \union {OwnId(i) : i \in OwnIds}

Row(st, run) == [status |-> st, run |-> run]
NoRow == Row("none", NoRun)
Exists(id) == rows[id] # NoRow
RowsOf(r) == {id \in Ids : rows[id].run = r}
NoRequest == [op |-> "none"]

Init ==
    /\ rows = [id \in Ids |-> NoRow]
    /\ task = [r \in Runs |-> "none"] /\ release = [r \in Runs |-> "none"]
    /\ ended = [r \in Runs |-> FALSE] /\ vm = [r \in Runs |-> FALSE]
    /\ req = [c \in Clients |-> NoRequest]
    /\ overtaken = {} /\ blind = {} /\ preempted = {}

-----------------------------------------------------------------------------
\* NodeRepository.

\* create_provisioning: insert or reset, by primary key.
CreateProvisioning(r) ==
    rows' = [rows EXCEPT ![PlaceholderId(r)] = Row("provisioning", r)]

\* Mutant: the row keeps its primary key.
BugSetBusyKey(r) ==
    \E id \in RowsOf(r) :
        /\ RowsOf(r) = {id}
        /\ rows' = [rows EXCEPT ![id] = Row("busy", r)]

\* Mutant: the busy row is inserted beside the placeholder.
BugSetBusyRow(r) ==
    \E id \in RowsOf(r) :
        /\ RowsOf(r) = {id}
        /\ rows' = [rows EXCEPT ![InstanceId(r)] = Row("busy", r)]

\* set_busy: the row of the run gets the instance id for its primary key.
SetBusy(r) ==
    \E id \in RowsOf(r) :
        /\ RowsOf(r) = {id}
        /\ rows' = [rows EXCEPT ![id] = NoRow, ![InstanceId(r)] = Row("busy", r)]

\* Mutant: only the row under the placeholder key is marked.
BugSetDownByRun(r) ==
    rows' = [rows EXCEPT ![PlaceholderId(r)].status = "down"]

\* set_down_by_run, when it finds one row at most (it raises otherwise).
SetDownByRun(r) ==
    /\ Cardinality(RowsOf(r)) <= 1
    /\ rows' = [id \in Ids |->
                   IF id \in RowsOf(r) THEN [rows[id] EXCEPT !.status = "down"] ELSE rows[id]]

\* get_leaked: the runs that have ended and have a busy row.
Leaked == {r \in Runs : ended[r] /\ \E id \in RowsOf(r) : rows[id].status = "busy"}

-----------------------------------------------------------------------------
\* The orchestrator.  A release starts as soon as its run has ended, and the
\* provisioning task of a run that was ended under it goes on beside it.

Goto(r, from, to) == task[r] = from /\ task' = [task EXCEPT ![r] = to]
RelGoto(r, from, to) == release[r] = from /\ release' = [release EXCEPT ![r] = to]
SetVm(r, up) == vm' = [vm EXCEPT ![r] = up]
SetEnded(r, over) == ended' = [ended EXCEPT ![r] = over]
apiVars == <<req, overtaken, blind>>

Provision(r) ==
    /\ ~ended[r]
    /\ Goto(r, "none", "applying")
    /\ CreateProvisioning(r)
    /\ UNCHANGED <<release, ended, vm, preempted, apiVars>>

\* terraform apply has made the server, and goes on, or hangs.
Apply(r) ==
    /\ Goto(r, "applying", "created")
    /\ SetVm(r, TRUE)
    /\ UNCHANGED <<rows, release, ended, preempted, apiVars>>

\* The run goes back to the queue, or has failed, whatever it was meanwhile; a
\* server that was made is destroyed, or is not.
ApplyFails(r) ==
    /\ task[r] \in {"applying", "created"} /\ Goto(r, task[r], "none")
    /\ SetDownByRun(r)
    /\ \E over \in BOOLEAN : SetEnded(r, over)
    /\ \E up \in {FALSE, vm[r]} : SetVm(r, up)
    /\ UNCHANGED <<release, preempted, apiVars>>

\* set_busy, and set_running, which does not look at the status.
Busy(r) ==
    /\ Goto(r, "created", "busy")
    /\ SetBusy(r)
    /\ SetEnded(r, FALSE)
    /\ UNCHANGED <<release, vm, preempted, apiVars>>

\* A report or a watchdog ends the run, in provisioning or running, and its
\* node is released.
EndRun(r) ==
    /\ task[r] # "none" /\ ~ended[r]
    /\ SetEnded(r, TRUE)
    /\ release[r] \in {"none", "gaveup"} /\ RelGoto(r, release[r], "releasing")
    /\ preempted' = preempted \union (IF task[r] = "busy" THEN {} ELSE {r})
    /\ UNCHANGED <<rows, task, vm, apiVars>>

Destroy(r) ==
    /\ RelGoto(r, "releasing", "marking")
    /\ SetVm(r, FALSE)
    /\ UNCHANGED <<rows, task, ended, preempted, apiVars>>

\* Mutant: the row is marked down although the VM is still there.
BugDestroyFails(r) ==
    /\ RelGoto(r, "releasing", "gaveup")
    /\ SetDownByRun(r)
    /\ UNCHANGED <<task, ended, vm, preempted, apiVars>>

\* Three attempts have failed; the row stays as it is.
DestroyFails(r) ==
    /\ RelGoto(r, "releasing", "gaveup")
    /\ UNCHANGED <<rows, task, ended, vm, preempted, apiVars>>

MarkDown(r) ==
    /\ RelGoto(r, "marking", "none")
    /\ SetDownByRun(r)
    /\ UNCHANGED <<task, ended, vm, preempted, apiVars>>

\* set_down_by_run raises on two rows, three times.
MarkDownRaises(r) ==
    /\ Cardinality(RowsOf(r)) > 1
    /\ RelGoto(r, "marking", "gaveup")
    /\ UNCHANGED <<rows, task, ended, vm, preempted, apiVars>>

\* recover_leaked_nodes, after a restart.
RecoverLeaked(r) ==
    /\ r \in Leaked
    /\ RelGoto(r, "gaveup", "releasing")
    /\ UNCHANGED <<rows, task, ended, vm, preempted, apiVars>>

-----------------------------------------------------------------------------
\* POST /nodes and DELETE /nodes/{id}.

Reply(c) == req' = [req EXCEPT ![c] = NoRequest]

\* The id is free, or the answer is 409.
Register(c, i) ==
    /\ req[c] = NoRequest /\ ~Exists(OwnId(i))
    /\ req' = [req EXCEPT ![c] = [op |-> "register", id |-> OwnId(i)]]
    /\ UNCHANGED <<rows, runVars, overtaken, blind>>

\* A row inserted meanwhile violates the primary key: 500, and no change.
RegisterCreate(c) ==
    /\ req[c].op = "register"
    /\ rows' = [rows EXCEPT ![req[c].id] = IF @ = NoRow THEN Row("provisioning", NoRun) ELSE @]
    /\ Reply(c)
    /\ UNCHANGED <<runVars, overtaken, blind>>

\* The row is read and detached from its session, or the answer is 404.
Deregister(c, id) ==
    /\ req[c] = NoRequest /\ Exists(id)
    /\ req' = [req EXCEPT ![c] = [op |-> "delete", id |-> id, seen |-> rows[id]]]
    /\ UNCHANGED <<rows, runVars, overtaken, blind>>

\* Mutant: the row is written without its run.
BugMerged(seen) == Row("down", NoRun)

\* The row as it was read, but down.
Merged(seen) == [seen EXCEPT !.status = "down"]

\* session.merge writes every column under the id that was read, and inserts
\* the row when the id is gone.
DeregisterSave(c) ==
    /\ req[c].op = "delete"
    /\ LET id == req[c].id
       IN  /\ rows' = [rows EXCEPT ![id] = Merged(req[c].seen)]
           /\ overtaken' = overtaken \union {r \in Runs : id = PlaceholderId(r) /\ ~Exists(id)}
           /\ blind' = blind \union {r \in Runs : id = InstanceId(r)}
    /\ Reply(c)
    /\ UNCHANGED runVars

-----------------------------------------------------------------------------
RunMoves(r) ==
    \/ Provision(r) \/ ApplyFails(r) \/ Apply(r) \/ Busy(r) \/ EndRun(r)
    \/ Destroy(r) \/ DestroyFails(r) \/ MarkDown(r) \/ MarkDownRaises(r) \/ RecoverLeaked(r)

ClientMoves(c) ==
    \/ \E i \in OwnIds : Register(c, i)
    \/ \E id \in Ids : Deregister(c, id)
    \/ RegisterCreate(c) \/ DeregisterSave(c)

Next == (\E r \in Runs : RunMoves(r)) \/ (\E c \in Clients : ClientMoves(c))

Spec == Init /\ [][Next]_vars

-----------------------------------------------------------------------------
\* Properties.

\* Every variable has its type; the placeholder row of a run is never busy.
TypeOK ==
    /\ rows \in [Ids -> [status : {"none", "provisioning", "busy", "down"},
                         run : Runs \union {NoRun}]]
    /\ task \in [Runs -> {"none", "applying", "created", "busy"}]
    /\ release \in [Runs -> {"none", "releasing", "marking", "gaveup"}]
    /\ ended \in [Runs -> BOOLEAN] /\ vm \in [Runs -> BOOLEAN]
    /\ \A c \in Clients : req[c] = NoRequest \/ req[c].id \in Ids
    /\ overtaken \union blind \union preempted \subseteq Runs
    /\ \A r \in Runs : rows[PlaceholderId(r)].status # "busy"

\* set_busy, whose exception would leave a VM behind that no task knows of,
\* finds exactly the row of its run, whatever clients deregister meanwhile.
BusyFindsItsRow ==
    \A r \in Runs : task[r] = "created" => Cardinality(RowsOf(r)) = 1

\* "Leaving it busy on failure is intentional: recover_leaked_nodes will pick
\* it up on restart and retry, rather than silently forgetting a live Scaleway
\* VM" (orchestrator.py:141).  The code keeps less: a VM its release gave up on is
\* found at the next start unless a client has marked its node down, or the run
\* was ended before set_busy (by its watchdog, orchestrator.py:254, or a /fail).
LeakIsFindable ==
    \A r \in Runs : release[r] = "gaveup" /\ vm[r] =>
        r \in Leaked \union blind \union preempted

\* A run has the two rows every lookup chokes on only when a deregistration
\* read its row before set_busy renamed it and wrote it back after.
TwoRowsNeedRace ==
    \A r \in Runs : Cardinality(RowsOf(r)) > 1 => r \in overtaken

\* The rows of the runs as NodeTable sees them.
Table == INSTANCE NodeTable WITH
    placeholder <- [r \in Runs |-> rows[PlaceholderId(r)].status],
    instance <- [r \in Runs |-> rows[InstanceId(r)].status]

TableMoves(r) ==
    Table!CreateProvisioning(r) \/ Table!SetBusy(r) \/ Table!SetDownByRun(r)

OnlyRowsOf(r) ==
    \A id \in Ids : r \notin {rows[id].run, rows'[id].run} => rows'[id] = rows[id]

\* What NodeTable says of the table is what these rows do: every step, a
\* client's too, is one of its operations or changes nothing it can see, or
\* one on a run whose renamed row a deregistration has brought back.
RowsImplementNodeTable ==
    /\ Table!NodeTableInit
    /\ [][\E r \in Runs : TableMoves(r) \/ (r \in overtaken' /\ OnlyRowsOf(r))]_(Table!nodeVars)
===============================================================================
