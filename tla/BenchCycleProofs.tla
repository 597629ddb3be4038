--------------------------- MODULE BenchCycleProofs ---------------------------
(***************************************************************************)
(* Theorems about BenchCycle for every value of its constants.             *)
(***************************************************************************)
EXTENDS BenchCycle, TLAPS

-----------------------------------------------------------------------------
(***************************************************************************)
(* The inductive invariant.                                                *)
(***************************************************************************)

\* A cycle that may have, or will have, a VM to destroy.
BeforeDestroy == {"apply", "applying", "address", "deploy", "health", "submit", "wait",
                  "verdict", "destroy", "destroying"}
BeforeSubmit == {"idle", "preflight", "apply", "applying", "address", "deploy", "health",
                 "submit"}
AfterVerdict == {"destroy", "destroying", "list", "reap", "remove", "cleanup", "done"}
Commanding == {"applying", "destroying"}

\* A server exists, and is named, only after the apply of its cycle.
Past(v) == v \in Cycles /\ at[v] \notin {"idle", "preflight", "apply", "applying"}
Placed ==
    /\ \A v \in servers : Past(v)
    /\ recorded # NoCycle => Past(recorded)
    /\ \A c \in Cycles : copy[c] # NoCycle => Past(copy[c])
    /\ \A c \in Cycles : host[c] # NoCycle => Past(host[c])

\* The state can be trusted: it names every server there is.
Trusted == ~overlapped /\ ~cutOff
Informed(c) ==
    at[c] \in Commanding =>
        servers \subseteq {copy[c]} /\ \A d \in Cycles \ {c} : at[d] \notin Commanding
Single == Trusted => servers \subseteq {recorded} /\ \A c \in Cycles : Informed(c)

Clean == Trusted /\ ~broken

\* Whatever a failed teardown step does not excuse has a cycle that will still
\* come to it.
VmAwaited == servers # {} => \E c \in Cycles : at[c] \in BeforeDestroy
RecordAwaited(r) ==
    \/ \E c \in Cycles : at[c] \in BeforeDestroy \union {"list"}
    \/ \E c \in Cycles : at[c] \in {"reap", "remove"} /\ r \in keys[c]
Awaited == Clean => VmAwaited /\ \A r \in tracked : RecordAwaited(r)

\* The runs of a cycle are created by its own submission.
NotYet == \A c \in Cycles, r \in Runs :
    at[c] \in BeforeSubmit /\ CycleOf[r] = c => phase[r] = "absent"

\* A run whose row is in the database of a server.
InTable(r) == phase[r] # "absent" /\ ~Lost(r)

Excused(r) == result[r] \/ Lost(r) \/ r \in revived

\* What a cycle has seen of its runs by its verdict.
Seen == \A c \in Cycles, r \in Runs :
    at[c] = "verdict" /\ CycleOf[r] = c /\ phase[r] # "absent" =>
        phase[r] = "over" \/ Lost(r) \/ r \in revived

Earned ==
    /\ \A c \in Cycles : verdict[c] # "none" => at[c] \in AfterVerdict
    /\ \A c \in Cycles, r \in Runs :
           verdict[c] = "green" /\ CycleOf[r] = c /\ phase[r] # "absent" => Excused(r)

\* An apply is for a run in the table that has no result.
Working == \A r \in applying : InTable(r) /\ ~result[r]

\* A run that another cycle has submitted, and not torn down.
Others(c, r) ==
    /\ CycleOf[r] # c
    /\ at[CycleOf[r]] \in {"wait", "verdict", "destroy", "destroying"}

\* What is left to do when a cycle has seen no active run, and when its verdict
\* is green.
Quiet == \A c \in Cycles : Clean =>
    /\ at[c] = "verdict" => \A r \in Runs : InTable(r) =>
           phase[r] = "over" \/ r \in revived \/ Others(c, r)
    /\ at[c] \in {"destroy", "destroying"} /\ verdict[c] = "green" =>
           \A r \in Runs : InTable(r) =>
               (phase[r] = "over" /\ result[r]) \/ r \in revived \/ Others(c, r)

-----------------------------------------------------------------------------
(***************************************************************************)
(* What the steps do.                                                      *)
(***************************************************************************)

LEMMA GotoAfterFacts ==
    ASSUME NEW c, NEW outcome
    PROVE  /\ GotoAfter(c, "bench", outcome) => at' = [at EXCEPT ![c] = "destroy"]
           /\ GotoAfter(c, "destroy", outcome) => at' = [at EXCEPT ![c] = "list"]
           /\ GotoAfter(c, "list", outcome) => at' = [at EXCEPT ![c] = "reap"]
           /\ GotoAfter(c, "reap", outcome) =>
                  at' = [at EXCEPT ![c] = IF outcome = "cancelled" THEN "cleanup" ELSE "done"]
<1>1. FollowedBy("bench") = "destroy" /\ FollowedBy("destroy") = "list"
      /\ FollowedBy("list") = "reap" /\ FollowedBy("reap") = "end"
  BY DEF FollowedBy
<1> QED BY <1>1 DEF GotoAfter, Goto

\* The end of a job, whatever its outcome.
LEMMA ConcludeFacts ==
    ASSUME NEW c, NEW outcome, Conclude(c, outcome)
    PROVE  /\ at' = [at EXCEPT ![c] = "destroy"]
           /\ verdict' = [verdict EXCEPT ![c] = outcome]
           /\ posted' = [posted EXCEPT ![c] = "no"]
           /\ UNCHANGED <<keys, reaped>>
  BY GotoAfterFacts DEF Conclude

\* No apply outlives its server, and none begins.
AppliesKept ==
    /\ applying' \subseteq applying
    /\ \A r \in applying' : Home(r) \in servers => Home(r) \in servers'

\* A server takes its rows, and every terraform child, with it.
LEMMA ChangeFacts ==
    ASSUME TypeOK, NEW gone, NEW new \in SUBSET Cycles, ChangeServers(gone, new)
    PROVE  /\ servers' = (servers \ gone) \union new
           /\ loop' \in [Cycles -> {"off", "boot", "polling", "dead"}]
           /\ \A v \in Cycles : loop'[v] # "off" => v \in servers'
           /\ key' \in [Cycles -> Cycles \union {NoCycle}]
           /\ AppliesKept /\ destroying' \subseteq Runs /\ UNCHANGED tracked
           /\ stray' \subseteq Runs
<1>1. /\ servers' = (servers \ gone) \union new
      /\ loop' = [v \in Cycles |-> IF v \in gone THEN "off" ELSE loop[v]]
      /\ key' = [v \in Cycles |-> IF v \in gone THEN NoCycle ELSE key[v]]
      /\ ProcessesEnd(gone)
  BY DEF ChangeServers
<1>2. /\ applying' = applying \ {r \in Runs : Home(r) \in gone}
      /\ destroying' \subseteq Runs /\ UNCHANGED tracked /\ stray' \subseteq Runs
  BY <1>1 DEF ProcessesEnd, Fleet!Die, TypeOK
<1>3. AppliesKept
  BY <1>1, <1>2 DEF AppliesKept, TypeOK
<1>4. /\ loop' \in [Cycles -> {"off", "boot", "polling", "dead"}]
      /\ \A v \in Cycles : loop'[v] # "off" => v \in servers'
      /\ key' \in [Cycles -> Cycles \union {NoCycle}]
  BY <1>1 DEF TypeOK
<1> QED BY <1>1, <1>2, <1>3, <1>4

LEMMA RestartFacts ==
    ASSUME TypeOK, NEW v \in servers, ProcessRestarts(v)
    PROVE  /\ UNCHANGED servers
           /\ loop' \in [Cycles -> {"off", "boot", "polling", "dead"}]
           /\ \A w \in Cycles : loop'[w] # "off" => w \in servers'
           /\ AppliesKept /\ destroying' \subseteq Runs /\ UNCHANGED tracked
           /\ stray' \subseteq Runs
<1>1. UNCHANGED servers /\ loop' = [loop EXCEPT ![v] = "boot"] /\ ProcessesEnd({v})
  BY DEF ProcessRestarts
<1>2. /\ applying' \subseteq applying
      /\ destroying' \subseteq Runs /\ UNCHANGED tracked /\ stray' \subseteq Runs
  BY <1>1 DEF ProcessesEnd, Fleet!Die, TypeOK
<1>3. AppliesKept
  BY <1>1, <1>2 DEF AppliesKept
<1> QED BY <1>1, <1>2, <1>3 DEF TypeOK

\* The beginning of a terraform command.
LEMMA ReadFacts ==
    ASSUME TypeOK, NEW c \in Cycles, NEW step, ReadState(c, step)
    PROVE  /\ copy' = [copy EXCEPT ![c] = IF recorded \in servers THEN recorded ELSE NoCycle]
           /\ at' = [at EXCEPT ![c] = step]
           /\ overlapped' \in BOOLEAN
           /\ ~overlapped' => ~overlapped /\ \A d \in Cycles : at[d] \notin Commanding
           /\ UNCHANGED <<recorded, host, posted, verdict, keys, reaped>>
  BY DEF ReadState, Goto, Commanding, TypeOK

\* What a run may do, as far as its row and its cycle are concerned.
LEMMA RunMovesFacts ==
    ASSUME TypeOK, NEW r \in Runs, RunMoves(r)
    PROVE  /\ InTable(r)
           /\ phase' \in [Runs -> {"absent", "waiting", "active", "over"}]
           /\ spent' \in [Runs -> Nat] /\ result' \in [Runs -> BOOLEAN]
           /\ \A q \in Runs \ {r} : phase'[q] = phase[q] /\ result'[q] = result[q]
           /\ phase'[r] \in {"waiting", "active", "over"}
           /\ result[r] => result'[r]
           /\ phase[r] = "over" /\ phase'[r] # "over" => r \in revived' /\ ~result[r]
           /\ revived \subseteq revived' /\ revived' \subseteq Runs
           /\ \A q \in applying : ~result'[q]
           /\ ended' \subseteq Runs
           /\ UNCHANGED <<fleetVars, stateVars, serverVars, jobVars, broken, overlapped, cutOff,
                          faults>>
<1> USE DEF TypeOK
<1>1. /\ InTable(r) /\ ended' \subseteq Runs
      /\ UNCHANGED <<fleetVars, stateVars, serverVars, jobVars, broken, overlapped, cutOff,
                     faults>>
      /\ \A q \in applying : ~result'[q]
  BY DEF RunMoves, Fleet!EndedKept, Fleet!ApplyAlone, fleetVars, InTable, Rows, Lost
<1>2. /\ phase' \in [Runs -> {"absent", "waiting", "active", "over"}]
      /\ spent' \in [Runs -> Nat] /\ result' \in [Runs -> BOOLEAN]
      /\ \A q \in Runs \ {r} : phase'[q] = phase[q] /\ result'[q] = result[q]
      /\ phase'[r] \in {"waiting", "active", "over"}
      /\ result[r] => result'[r]
      /\ phase[r] = "over" /\ phase'[r] # "over" => ~result[r]
  <2>1. CASE Fleet!Claim({r}) BY <2>1 DEF Fleet!Claim
  <2>2. CASE Fleet!Retry(r)
    <3>1. spent[r] + 1 \in Nat
      OBVIOUS
    <3> QED BY <2>2, <3>1 DEF Fleet!Retry, Fleet!Move
  <2>3. CASE Fleet!Revive(r) BY <2>3 DEF Fleet!Revive, Fleet!Move
  <2>4. CASE Fleet!GiveUp({r}) BY <2>4 DEF Fleet!GiveUp
  <2>5. CASE Fleet!Deliver(r) BY <2>5 DEF Fleet!Deliver, Fleet!Move
  <2> QED BY <2>1, <2>2, <2>3, <2>4, <2>5 DEF RunMoves
<1>3. /\ phase[r] = "over" /\ phase'[r] # "over" => r \in revived'
      /\ revived \subseteq revived' /\ revived' \subseteq Runs
  BY DEF RunMoves
<1> QED BY <1>1, <1>2, <1>3

LEMMA FleetMovesFacts ==
    ASSUME TypeOK, NEW r \in Runs, FleetMoves(r)
    PROVE  /\ InTable(r) /\ servers # {}
           /\ applying' \subseteq applying \union {r} /\ destroying' \subseteq Runs
           /\ tracked' \subseteq tracked \union {r} /\ stray' \subseteq Runs
           /\ \A q \in applying' : ~result[q]
           /\ ended' \subseteq Runs
           /\ UNCHANGED <<phase, spent, result, stateVars, serverVars, jobVars, historyVars,
                          faults>>
<1> USE DEF TypeOK
<1>1. /\ InTable(r) /\ servers # {} /\ ended' \subseteq Runs
      /\ UNCHANGED <<phase, spent, result, stateVars, serverVars, jobVars, historyVars, faults>>
  BY DEF FleetMoves, ProcessUp, Fleet!EndedKept, runVars, InTable, Rows, Lost
<1>2. \A q \in applying' : ~result[q]
  BY <1>1 DEF FleetMoves, Fleet!ApplyAlone
<1>3. /\ applying' \subseteq applying \union {r} /\ destroying' \subseteq Runs
      /\ tracked' \subseteq tracked \union {r} /\ stray' \subseteq Runs
  <2>1. CASE Fleet!BeginApply(r) BY <2>1 DEF Fleet!BeginApply
  <2>2. ASSUME NEW b \in BOOLEAN, Fleet!EndApply(r, b) PROVE <1>3
    BY <2>2 DEF Fleet!EndApply
  <2>3. CASE Fleet!Destroy(r) BY <2>3 DEF Fleet!Destroy
  <2>4. ASSUME NEW gone \in BOOLEAN, NEW last \in BOOLEAN, Fleet!Forget(r, gone, last) PROVE <1>3
    BY <2>4 DEF Fleet!Forget
  <2> QED BY <2>1, <2>2, <2>3, <2>4 DEF FleetMoves
<1> QED BY <1>1, <1>2, <1>3

-----------------------------------------------------------------------------
(***************************************************************************)
(* Type correctness.                                                       *)
(***************************************************************************)

\* The parts of TypeOK, by the group of variables they are about.
RunsTyped ==
    /\ phase \in [Runs -> {"absent", "waiting", "active", "over"}]
    /\ spent \in [Runs -> Nat] /\ result \in [Runs -> BOOLEAN] /\ ended \subseteq Runs
FleetTyped ==
    /\ applying \subseteq Runs /\ destroying \subseteq Runs
    /\ tracked \subseteq Runs /\ stray \subseteq Runs
StateTyped ==
    /\ recorded \in Cycles \union {NoCycle}
    /\ copy \in [Cycles -> Cycles \union {NoCycle}]
    /\ host \in [Cycles -> Cycles \union {NoCycle}]
ServerTyped ==
    /\ servers \subseteq Cycles
    /\ loop \in [Cycles -> {"off", "boot", "polling", "dead"}]
    /\ \A v \in Cycles : loop[v] # "off" => v \in servers
    /\ key \in [Cycles -> Cycles \union {NoCycle}]
JobsTyped ==
    /\ at \in [Cycles -> Steps]
    /\ posted \in [Cycles -> {"no", "ok", "masked"}]
    /\ verdict \in [Cycles -> Outcomes \union {"none"}]
    /\ keys \in [Cycles -> SUBSET Runs] /\ reaped \in [Cycles -> SUBSET Runs]
HistoryTyped ==
    /\ broken \in BOOLEAN /\ overlapped \in BOOLEAN /\ cutOff \in BOOLEAN
    /\ revived \subseteq Runs
FaultsTyped == faults \in 0 .. MaxFaults

LEMMA TypeParts ==
    /\ TypeOK => /\ RunsTyped /\ FleetTyped /\ StateTyped /\ ServerTyped /\ JobsTyped
                 /\ HistoryTyped /\ FaultsTyped
    /\ RunsTyped /\ FleetTyped /\ StateTyped /\ ServerTyped /\ JobsTyped
           /\ HistoryTyped /\ FaultsTyped => TypeOK
    /\ RunsTyped' /\ FleetTyped' /\ StateTyped' /\ ServerTyped' /\ JobsTyped'
           /\ HistoryTyped' /\ FaultsTyped' => TypeOK'
  BY DEF TypeOK, RunsTyped, FleetTyped, StateTyped, ServerTyped, JobsTyped, HistoryTyped,
         FaultsTyped

LEMMA KeptParts ==
    ASSUME TypeOK
    PROVE  /\ UNCHANGED runVars => RunsTyped'
           /\ UNCHANGED fleetVars => FleetTyped'
           /\ UNCHANGED stateVars => StateTyped'
           /\ UNCHANGED serverVars => ServerTyped'
           /\ UNCHANGED jobVars => JobsTyped'
           /\ UNCHANGED <<broken, overlapped, cutOff, revived>> => HistoryTyped'
           /\ UNCHANGED faults => FaultsTyped'
<1>1. UNCHANGED runVars => RunsTyped'
  BY DEF runVars, RunsTyped, TypeOK
<1>2. UNCHANGED fleetVars => FleetTyped'
  BY DEF fleetVars, FleetTyped, TypeOK
<1>3. UNCHANGED stateVars => StateTyped'
  BY DEF stateVars, StateTyped, TypeOK
<1>4. UNCHANGED serverVars => ServerTyped'
  BY DEF serverVars, ServerTyped, TypeOK
<1>5. UNCHANGED jobVars => JobsTyped'
  BY DEF jobVars, JobsTyped, TypeOK
<1>6. UNCHANGED <<broken, overlapped, cutOff, revived>> => HistoryTyped'
  BY DEF HistoryTyped, TypeOK
<1>7. UNCHANGED faults => FaultsTyped'
  BY DEF FaultsTyped, TypeOK
<1> QED BY <1>1, <1>2, <1>3, <1>4, <1>5, <1>6, <1>7

LEMMA FaultTyped ==
    ASSUME TypeOK, Fault
    PROVE  FaultsTyped'
  BY CycleBoundsAssumption DEF TypeOK, Fault, FaultsTyped

LEMMA BreakTyped ==
    ASSUME TypeOK, BreakStep, UNCHANGED <<overlapped, cutOff, revived>>
    PROVE  HistoryTyped' /\ FaultsTyped'
  BY FaultTyped DEF BreakStep, HistoryTyped, TypeOK

LEMMA StepDoneTyped ==
    ASSUME TypeOK, NEW c \in Cycles, NEW step \in Steps, StepDone(c, step)
    PROVE  JobsTyped'
  BY DEF StepDone, Goto, JobsTyped, TypeOK

LEMMA ConcludeTyped ==
    ASSUME TypeOK, NEW c \in Cycles, NEW outcome \in Outcomes, Conclude(c, outcome)
    PROVE  JobsTyped'
  BY ConcludeFacts DEF JobsTyped, TypeOK, Steps

LEMMA ReadTyped ==
    ASSUME TypeOK, NEW c \in Cycles, NEW step \in Steps, ReadState(c, step),
           UNCHANGED <<broken, cutOff, revived>>
    PROVE  JobsTyped' /\ StateTyped' /\ HistoryTyped'
  BY ReadFacts DEF JobsTyped, StateTyped, HistoryTyped, TypeOK

LEMMA ChangeTyped ==
    ASSUME TypeOK, NEW gone, NEW new \in SUBSET Cycles, ChangeServers(gone, new)
    PROVE  FleetTyped' /\ ServerTyped'
  BY ChangeFacts DEF FleetTyped, ServerTyped, AppliesKept, TypeOK

LEMMA RestartTyped ==
    ASSUME TypeOK, NEW v \in servers, ProcessRestarts(v),
           key' \in [Cycles -> Cycles \union {NoCycle}]
    PROVE  FleetTyped' /\ ServerTyped'
  BY RestartFacts DEF FleetTyped, ServerTyped, AppliesKept, TypeOK

LEMMA AppliedTyped ==
    ASSUME TypeOK, NEW c \in Cycles, TerraformApplied(c)
    PROVE  TypeOK'
<1> USE KeptParts, TypeParts DEF Steps, Outcomes
<1>1. DropCopy(c) /\ UNCHANGED <<runVars, broken, overlapped, revived>>
  BY DEF TerraformApplied
<1>2. CASE /\ KeepsServer(c) \/ CreatesServer(c)
           /\ StepDone(c, "address") /\ UNCHANGED <<cutOff, faults>>
  <2>1. JobsTyped'
    BY <1>2, StepDoneTyped
  <2>2. StateTyped'
    BY <1>1, <1>2 DEF KeepsServer, CreatesServer, DropCopy, StateTyped
  <2>3. FleetTyped' /\ ServerTyped'
    BY <1>2, ChangeTyped DEF KeepsServer, CreatesServer
  <2>4. HistoryTyped'
    BY <1>1, <1>2
  <2> QED BY <1>1, <1>2, <2>1, <2>2, <2>3, <2>4
<1>3. CASE StopsMidway(c) /\ \E outcome \in {"red", "cancelled"} : Conclude(c, outcome)
  <2>1. JobsTyped'
    BY <1>3, ConcludeTyped
  <2>2. StateTyped'
    BY <1>1, <1>3 DEF StopsMidway, DropCopy, StateTyped
  <2>3. FleetTyped' /\ ServerTyped'
    BY <1>3, ChangeTyped DEF StopsMidway
  <2>4. HistoryTyped' /\ FaultsTyped'
    BY <1>1, <1>3, FaultTyped DEF StopsMidway, HistoryTyped
  <2> QED BY <1>1, <2>1, <2>2, <2>3, <2>4
<1> QED BY <1>2, <1>3 DEF TerraformApplied

LEMMA BenchTyped ==
    ASSUME TypeOK, NEW c \in Cycles, Bench(c)
    PROVE  TypeOK'
<1> USE KeptParts, TypeParts, StepDoneTyped, ConcludeTyped DEF Steps, Outcomes, historyVars
<1>1. CASE Start(c) BY <1>1 DEF Start
<1>2. CASE Preflight(c)
  <2>1. JobsTyped'
    <3>1. CASE StepDone(c, "apply")
      BY <3>1
    <3>2. ASSUME NEW outcome \in {"green", "red", "cancelled"},
                 verdict' = [verdict EXCEPT ![c] = outcome],
                 Goto(c, IF outcome = "cancelled" THEN "cleanup" ELSE "done"),
                 UNCHANGED <<posted, keys, reaped>>
          PROVE  JobsTyped'
      BY <3>2 DEF Goto, JobsTyped
    <3> QED BY <1>2, <3>1, <3>2 DEF Preflight
  <2> QED BY <1>2, <2>1 DEF Preflight
<1>3. CASE TerraformApply(c)
  <2>1. CASE ReadState(c, "applying")
    BY <1>3, <2>1, ReadTyped DEF TerraformApply
  <2>2. CASE Conclude(c, "red") /\ UNCHANGED <<stateVars, overlapped>>
    BY <1>3, <2>2 DEF TerraformApply
  <2> QED BY <1>3, <2>1, <2>2 DEF TerraformApply
<1>4. CASE GetVmIp(c)
  <2>1. JobsTyped'
    BY <1>4 DEF GetVmIp
  <2>2. StateTyped'
    BY <1>4 DEF GetVmIp, StateTyped
  <2> QED BY <1>4, <2>1, <2>2 DEF GetVmIp
<1>5. CASE StartStack(c)
  <2>1. CASE /\ host[c] \in servers
             /\ ProcessRestarts(host[c]) /\ key' = [key EXCEPT ![host[c]] = c]
             /\ StepDone(c, "health")
    <3>1. key' \in [Cycles -> Cycles \union {NoCycle}]
      BY <2>1 DEF ServerTyped
    <3>2. FleetTyped' /\ ServerTyped'
      BY <2>1, <3>1, RestartTyped
    <3> QED BY <1>5, <2>1, <3>2 DEF StartStack
  <2>2. CASE Conclude(c, "red") /\ UNCHANGED <<fleetVars, serverVars>>
    BY <1>5, <2>2 DEF StartStack
  <2> QED BY <1>5, <2>1, <2>2 DEF StartStack
<1>6. CASE WaitForHealth(c) BY <1>6 DEF WaitForHealth
<1>7. CASE SubmitRuns(c)
  <2>1. PICK S \in SUBSET Pending(c), answer \in {"ok", "masked"} :
           /\ phase' = [r \in Runs |-> IF r \in S THEN "waiting" ELSE phase[r]]
           /\ posted' = [posted EXCEPT ![c] = answer]
    BY <1>7 DEF SubmitRuns
  <2>2. RunsTyped'
    BY <1>7, <2>1 DEF SubmitRuns, RunsTyped
  <2>3. JobsTyped'
    BY <1>7, <2>1 DEF SubmitRuns, Goto, JobsTyped
  <2> QED BY <1>7, <2>2, <2>3 DEF SubmitRuns
<1>8. CASE WaitForRuns(c) BY <1>8 DEF WaitForRuns
<1>9. CASE Timeout(c) BY <1>9 DEF Timeout
<1>10. CASE Verdict(c) BY <1>10 DEF Verdict
<1>11. CASE Cancel(c) BY <1>11 DEF Cancel
<1> QED BY <1>1, <1>2, <1>3, <1>4, <1>5, <1>6, <1>7, <1>8, <1>9, <1>10, <1>11,
           AppliedTyped DEF Bench

LEMMA TornDownTyped ==
    ASSUME TypeOK, NEW c \in Cycles, TornDown(c)
    PROVE  TypeOK'
<1> USE KeptParts, TypeParts
<1>1. /\ GotoAfter(c, "destroy", verdict[c]) /\ DropCopy(c)
      /\ UNCHANGED <<posted, verdict, keys, reaped, runVars, overlapped, cutOff, revived>>
  BY DEF TornDown
<1>2. JobsTyped'
  BY <1>1, GotoAfterFacts DEF JobsTyped, Steps
<1>3. CASE /\ ChangeServers(Named(c), {})
           /\ recorded' = IF copy[c] = NoCycle THEN recorded ELSE NoCycle
           /\ broken' = (broken /\ overlapped) /\ UNCHANGED faults
  <2>1. FleetTyped' /\ ServerTyped'
    BY <1>3, ChangeTyped
  <2>2. StateTyped' /\ HistoryTyped'
    BY <1>1, <1>3 DEF DropCopy, StateTyped, HistoryTyped
  <2> QED BY <1>1, <1>2, <1>3, <2>1, <2>2
<1>4. CASE /\ BreakStep
           /\ \/ UNCHANGED <<recorded, fleetVars, serverVars>>
              \/ ChangeServers(Named(c), {}) /\ recorded' \in {recorded, NoCycle}
  <2>1. FleetTyped' /\ ServerTyped'
    BY <1>4, ChangeTyped
  <2>2. StateTyped'
    BY <1>1, <1>4 DEF DropCopy, StateTyped
  <2>3. HistoryTyped' /\ FaultsTyped'
    BY <1>1, <1>4, BreakTyped
  <2> QED BY <1>1, <1>2, <2>1, <2>2, <2>3
<1> QED BY <1>3, <1>4 DEF TornDown

LEMMA TeardownTyped ==
    ASSUME TypeOK, NEW c \in Cycles, Teardown(c)
    PROVE  TypeOK'
<1> USE KeptParts, TypeParts, BreakTyped
<1>1. CASE TearDown(c)
  <2>1. CASE ReadState(c, "destroying") /\ UNCHANGED <<broken, faults>>
    BY <1>1, <2>1, ReadTyped DEF TearDown, Steps
  <2>2. CASE /\ GotoAfter(c, "destroy", verdict[c]) /\ BreakStep
             /\ UNCHANGED <<stateVars, overlapped, posted, verdict, keys, reaped>>
    <3>1. JobsTyped'
      BY <2>2, GotoAfterFacts DEF JobsTyped, Steps
    <3> QED BY <1>1, <2>2, <3>1 DEF TearDown
  <2> QED BY <1>1, <2>1, <2>2 DEF TearDown
<1>2. CASE ListStates(c)
  <2>1. JobsTyped'
    <3>1. tracked \in SUBSET Runs
      BY DEF FleetTyped
    <3> QED BY <1>2, <3>1, GotoAfterFacts DEF ListStates, JobsTyped, Steps
  <2> QED BY <1>2, <2>1 DEF ListStates
<1>3. CASE ReapDestroy(c)
  <2>1. PICK r \in keys[c] : /\ tracked' = tracked \ {r}
                             /\ reaped' = [reaped EXCEPT ![c] = {r}]
                             /\ keys' = [keys EXCEPT ![c] = @ \ {r}]
    BY <1>3 DEF ReapDestroy
  <2>2. r \in Runs
    BY DEF JobsTyped
  <2>3. JobsTyped'
    BY <1>3, <2>1, <2>2 DEF ReapDestroy, Goto, JobsTyped, Steps
  <2>4. FleetTyped'
    BY <1>3, <2>1 DEF ReapDestroy, FleetTyped
  <2> QED BY <1>3, <2>3, <2>4 DEF ReapDestroy, historyVars
<1>4. CASE ReapRemove(c)
  <2>1. JobsTyped'
    BY <1>4 DEF ReapRemove, Goto, JobsTyped, Steps
  <2>2. FleetTyped'
    BY <1>4 DEF ReapRemove, FleetTyped
  <2> QED BY <1>4, <2>1, <2>2 DEF ReapRemove, historyVars
<1>5. CASE ReapFails(c)
  <2>1. JobsTyped'
    BY <1>5, GotoAfterFacts DEF ReapFails, JobsTyped, Steps
  <2> QED BY <1>5, <2>1 DEF ReapFails
<1>6. CASE ReapEnds(c)
  <2>1. JobsTyped'
    BY <1>6, GotoAfterFacts DEF ReapEnds, JobsTyped, Steps
  <2> QED BY <1>6, <2>1 DEF ReapEnds, historyVars
<1>7. CASE CleanupServer(c)
  <2>1. FleetTyped' /\ ServerTyped'
    BY <1>7, ChangeTyped DEF CleanupServer
  <2> QED BY <1>7, <2>1 DEF CleanupServer, historyVars
<1>8. CASE Cleanup(c)
  <2>1. JobsTyped'
    BY <1>8 DEF Cleanup, Goto, JobsTyped, Steps
  <2>2. FleetTyped'
    BY <1>8 DEF Cleanup, FleetTyped
  <2> QED BY <1>8, <2>1, <2>2 DEF Cleanup
<1> QED BY <1>1, <1>2, <1>3, <1>4, <1>5, <1>6, <1>7, <1>8, TornDownTyped DEF Teardown

LEMMA ServerStepTyped ==
    ASSUME TypeOK, Server
    PROVE  TypeOK'
<1> USE KeptParts, TypeParts, FaultTyped DEF historyVars
<1>1. ASSUME NEW v \in Cycles, Boot(v) PROVE TypeOK'
  <2>1. ServerTyped'
    BY <1>1 DEF Boot, ServerTyped
  <2> QED BY <1>1, <2>1 DEF Boot
<1>2. ASSUME NEW v \in Cycles, ProcessCrash(v) PROVE TypeOK'
  <2>1. FleetTyped' /\ ServerTyped'
    BY <1>2, RestartTyped DEF ProcessCrash, ProcessUp, ServerTyped
  <2> QED BY <1>2, <2>1 DEF ProcessCrash
<1>3. ASSUME NEW r \in Runs, RunMoves(r) PROVE TypeOK'
  <2>1. RunsTyped' /\ HistoryTyped'
    BY <1>3, RunMovesFacts DEF RunsTyped, HistoryTyped
  <2> QED BY <1>3, <2>1, RunMovesFacts
<1>4. ASSUME NEW r \in Runs, FleetMoves(r) PROVE TypeOK'
  <2>1. RunsTyped' /\ FleetTyped'
    BY <1>4, FleetMovesFacts DEF RunsTyped, FleetTyped
  <2> QED BY <1>4, <2>1, FleetMovesFacts
<1> QED BY <1>1, <1>2, <1>3, <1>4 DEF Server

LEMMA TypeNext == TypeOK /\ [Next]_vars => TypeOK'
<1> SUFFICES ASSUME TypeOK, [Next]_vars PROVE TypeOK'
  OBVIOUS
<1>1. CASE UNCHANGED vars
  BY <1>1, KeptParts, TypeParts DEF vars, historyVars
<1> QED BY <1>1, BenchTyped, TeardownTyped, ServerStepTyped DEF Next

LEMMA TypeInit == Init => TypeOK
<1> SUFFICES ASSUME Init PROVE TypeOK
  OBVIOUS
<1> USE DEF Init
<1>1. RunsTyped /\ FleetTyped
  BY DEF Fleet!FleetInit, Fleet!Init, RunsTyped, FleetTyped
<1>2. StateTyped /\ ServerTyped /\ JobsTyped
  BY DEF StateTyped, ServerTyped, JobsTyped, Steps
<1>3. HistoryTyped
  BY DEF HistoryTyped
<1>4. FaultsTyped
  BY CycleBoundsAssumption DEF FaultsTyped
<1> HIDE DEF Init
<1> QED BY <1>1, <1>2, <1>3, <1>4, TypeParts

\* Every variable has its type; a process needs its VM.
THEOREM BenchTypeCorrect == Spec => []TypeOK
  BY TypeInit, TypeNext, PTL DEF Spec

-----------------------------------------------------------------------------
(***************************************************************************)
(* The servers and the terraform state.                                    *)
(***************************************************************************)

\* The steps that touch them.
StateStep(c) ==
    \/ TerraformApply(c) \/ TerraformApplied(c) \/ GetVmIp(c) \/ TearDown(c) \/ TornDown(c)
    \/ CleanupServer(c)

LEMMA OtherSteps ==
    ASSUME TypeOK, [Next]_vars, \A c \in Cycles : ~StateStep(c)
    PROVE  /\ UNCHANGED <<recorded, copy, host, servers, overlapped, cutOff>>
           /\ \A v \in Cycles : /\ Past(v) => Past(v)'
                                /\ at'[v] \in Commanding => at'[v] = at[v]
<1> DEFINE Elsewhere == UNCHANGED <<recorded, copy, host, servers, overlapped, cutOff>>
           Forward == \A v \in Cycles : /\ Past(v) => Past(v)'
                                        /\ at'[v] \in Commanding => at'[v] = at[v]
<1>1. ASSUME NEW c \in Cycles, NEW step, at' = [at EXCEPT ![c] = step],
             \/ step \notin {"idle", "preflight", "apply", "applying", "destroying"}
             \/ step \in {"preflight", "apply"} /\ ~Past(c)
      PROVE  Forward
  BY <1>1 DEF Past, Commanding, TypeOK
<1>2. ASSUME UNCHANGED at PROVE Forward
  BY <1>2 DEF Past
<1> HIDE DEF Elsewhere, Forward
<1> USE GotoAfterFacts DEF StepDone, Goto
<1>3. ASSUME NEW c \in Cycles, Bench(c) PROVE Elsewhere /\ Forward
  <2> USE DEF Elsewhere, stateVars, serverVars, historyVars
  <2>1. CASE Start(c)
    BY <1>1, <2>1 DEF Start, Past
  <2>2. CASE Preflight(c)
    BY <1>1, <2>2 DEF Preflight, Past
  <2>3. CASE StartStack(c)
    BY <1>1, <2>3 DEF StartStack, ProcessRestarts, Conclude
  <2>4. CASE WaitForHealth(c)
    BY <1>1, <2>4 DEF WaitForHealth, Conclude
  <2>5. CASE SubmitRuns(c)
    BY <1>1, <2>5 DEF SubmitRuns
  <2>6. CASE WaitForRuns(c)
    BY <1>1, <2>6 DEF WaitForRuns
  <2>7. CASE Timeout(c)
    BY <1>1, <2>7 DEF Timeout, Conclude
  <2>8. CASE Verdict(c)
    BY <1>1, <2>8 DEF Verdict, Conclude
  <2>9. CASE Cancel(c)
    BY <1>1, <2>9 DEF Cancel, Conclude
  <2> QED BY <1>3, <2>1, <2>2, <2>3, <2>4, <2>5, <2>6, <2>7, <2>8, <2>9 DEF Bench, StateStep
<1>4. ASSUME NEW c \in Cycles, Teardown(c) PROVE Elsewhere /\ Forward
  <2> USE DEF Elsewhere, stateVars, serverVars, historyVars
  <2>1. CASE ListStates(c)
    BY <1>1, <2>1 DEF ListStates
  <2>2. CASE ReapDestroy(c)
    BY <1>1, <2>2 DEF ReapDestroy
  <2>3. CASE ReapRemove(c)
    BY <1>1, <2>3 DEF ReapRemove
  <2>4. CASE ReapFails(c)
    BY <1>1, <2>4 DEF ReapFails
  <2>5. CASE ReapEnds(c)
    BY <1>1, <2>5 DEF ReapEnds
  <2>6. CASE Cleanup(c)
    BY <1>1, <2>6 DEF Cleanup
  <2> QED BY <1>4, <2>1, <2>2, <2>3, <2>4, <2>5, <2>6 DEF Teardown, StateStep
<1>5. ASSUME NEW v \in Cycles, Boot(v) \/ ProcessCrash(v) PROVE Elsewhere /\ Forward
  BY <1>2, <1>5
  DEF Boot, ProcessCrash, ProcessRestarts, Elsewhere, stateVars, serverVars, jobVars,
      historyVars
<1>6. ASSUME NEW r \in Runs, RunMoves(r) PROVE Elsewhere /\ Forward
  <2>1. UNCHANGED <<stateVars, serverVars, jobVars, overlapped, cutOff>>
    BY <1>6 DEF RunMoves
  <2> QED BY <1>2, <2>1 DEF Elsewhere, stateVars, serverVars, jobVars
<1>7. ASSUME NEW r \in Runs, FleetMoves(r) PROVE Elsewhere /\ Forward
  <2>1. UNCHANGED <<stateVars, serverVars, jobVars, historyVars>>
    BY <1>7 DEF FleetMoves
  <2> QED BY <1>2, <2>1 DEF Elsewhere, stateVars, serverVars, jobVars, historyVars
<1>8. ASSUME UNCHANGED vars PROVE Elsewhere /\ Forward
  <2>1. UNCHANGED <<stateVars, serverVars, jobVars, historyVars>>
    BY <1>8 DEF vars
  <2> QED BY <1>2, <2>1 DEF Elsewhere, stateVars, serverVars, jobVars, historyVars
<1>9. Elsewhere /\ Forward
  BY <1>3, <1>4, <1>5, <1>6, <1>7, <1>8 DEF Next, Server
<1> QED BY <1>9 DEF Elsewhere, Forward

\* What the end of a command does to servers and state.
LEMMA AppliedFacts ==
    ASSUME TypeOK, NEW c \in Cycles, TerraformApplied(c)
    PROVE  /\ at[c] = "applying"
           /\ \E step \in {"address", "destroy"} : at' = [at EXCEPT ![c] = step]
           /\ copy' = [copy EXCEPT ![c] = NoCycle] /\ UNCHANGED <<host, overlapped>>
           /\ cutOff => cutOff'
           /\ \/ UNCHANGED servers /\ recorded' \in {recorded, copy[c]}
              \/ servers' \subseteq servers /\ UNCHANGED recorded
              \/ /\ servers' = (servers \ Named(c)) \union {c}
                 /\ recorded' = c \/ (UNCHANGED recorded /\ cutOff')
           /\ AppliesKept
<1>1. at[c] = "applying" /\ DropCopy(c) /\ UNCHANGED overlapped
  BY DEF TerraformApplied
<1>2. CASE /\ KeepsServer(c) \/ CreatesServer(c)
           /\ StepDone(c, "address") /\ UNCHANGED <<cutOff, faults>>
  <2>1. CASE KeepsServer(c)
    BY <1>1, <1>2, <2>1
    DEF KeepsServer, StepDone, Goto, DropCopy, AppliesKept, fleetVars, serverVars
  <2>2. CASE CreatesServer(c)
    <3>1. servers' = (servers \ Named(c)) \union {c} /\ AppliesKept /\ recorded' = c
      BY <2>2, ChangeFacts DEF CreatesServer
    <3> QED BY <1>1, <1>2, <3>1 DEF StepDone, Goto, DropCopy
  <2> QED BY <1>2, <2>1, <2>2
<1>3. CASE StopsMidway(c) /\ \E outcome \in {"red", "cancelled"} : Conclude(c, outcome)
  <2>1. at' = [at EXCEPT ![c] = "destroy"]
    BY <1>3, ConcludeFacts
  <2>2. ASSUME NEW gone \in {{}, Named(c)}, ChangeServers(gone, {})
        PROVE  servers' \subseteq servers /\ AppliesKept
    BY <2>2, ChangeFacts
  <2>3. ASSUME ChangeServers(Named(c), {c})
        PROVE  servers' = (servers \ Named(c)) \union {c} /\ AppliesKept
    BY <2>3, ChangeFacts
  <2> QED BY <1>1, <1>3, <2>1, <2>2, <2>3 DEF StopsMidway, DropCopy
<1> QED BY <1>2, <1>3 DEF TerraformApplied

LEMMA TornDownFacts ==
    ASSUME TypeOK, NEW c \in Cycles, TornDown(c)
    PROVE  /\ at[c] = "destroying" /\ at' = [at EXCEPT ![c] = "list"]
           /\ copy' = [copy EXCEPT ![c] = NoCycle] /\ UNCHANGED <<host, overlapped, cutOff>>
           /\ UNCHANGED <<phase, result, revived, tracked, keys, verdict>>
           /\ \/ servers' = servers \ Named(c) /\ recorded' \in {recorded, NoCycle}
              \/ UNCHANGED <<servers, recorded>> /\ broken'
           /\ servers' = servers \ Named(c) \/ broken'
           /\ AppliesKept
<1>1. /\ at[c] = "destroying" /\ at' = [at EXCEPT ![c] = "list"]
      /\ copy' = [copy EXCEPT ![c] = NoCycle] /\ UNCHANGED <<host, overlapped, cutOff>>
      /\ UNCHANGED <<phase, result, revived, keys, verdict>>
  BY GotoAfterFacts DEF TornDown, DropCopy, runVars
<1>2. ChangeServers(Named(c), {})
      => servers' = servers \ Named(c) /\ AppliesKept /\ UNCHANGED tracked
  BY ChangeFacts
<1>3. CASE /\ ChangeServers(Named(c), {})
           /\ recorded' = IF copy[c] = NoCycle THEN recorded ELSE NoCycle
  BY <1>1, <1>2, <1>3
<1>4. CASE /\ BreakStep
           /\ \/ UNCHANGED <<recorded, fleetVars, serverVars>>
              \/ ChangeServers(Named(c), {}) /\ recorded' \in {recorded, NoCycle}
  BY <1>1, <1>2, <1>4 DEF BreakStep, AppliesKept, fleetVars, serverVars
<1> QED BY <1>3, <1>4 DEF TornDown

\* The orchestrator VM's teardown begins, or fails to.
LEMMA TearDownFacts ==
    ASSUME TypeOK, NEW c \in Cycles, TearDown(c)
    PROVE  /\ at[c] = "destroy"
           /\ UNCHANGED <<phase, result, revived, tracked, applying, keys, verdict, servers,
                          recorded, host, cutOff>>
           /\ \/ ReadState(c, "destroying") /\ UNCHANGED broken
              \/ /\ at' = [at EXCEPT ![c] = "list"] /\ broken'
                 /\ UNCHANGED <<copy, overlapped>>
<1>1. /\ at[c] = "destroy"
      /\ UNCHANGED <<phase, result, revived, tracked, applying, servers, cutOff>>
  BY DEF TearDown, runVars, fleetVars, serverVars
<1>2. CASE ReadState(c, "destroying") /\ UNCHANGED <<broken, faults>>
  BY <1>1, <1>2 DEF ReadState
<1>3. CASE /\ GotoAfter(c, "destroy", verdict[c]) /\ BreakStep
           /\ UNCHANGED <<stateVars, overlapped, posted, verdict, keys, reaped>>
  BY <1>1, <1>3, GotoAfterFacts DEF BreakStep, stateVars
<1> QED BY <1>2, <1>3 DEF TearDown

LEMMA CleanupFacts ==
    ASSUME TypeOK, NEW c \in Cycles, CleanupServer(c)
    PROVE  /\ at[c] = "cleanup"
           /\ servers' \subseteq servers /\ AppliesKept
           /\ UNCHANGED <<phase, result, revived, tracked, keys, verdict, at,
                          recorded, copy, host, broken, overlapped, cutOff>>
<1>1. PICK v \in servers : ChangeServers({v}, {})
  BY DEF CleanupServer
<1>2. servers' \subseteq servers /\ AppliesKept /\ UNCHANGED tracked
  BY <1>1, ChangeFacts
<1> QED BY <1>2 DEF CleanupServer, jobVars, runVars, stateVars, historyVars

LEMMA PlacedNext == TypeOK /\ Placed /\ [Next]_vars => Placed'
<1> SUFFICES ASSUME TypeOK, Placed, [Next]_vars PROVE Placed'
  OBVIOUS
<1>1. ASSUME \A v \in Cycles : Past(v) => Past(v)',
             \A v \in servers' : Past(v) \/ Past(v)',
             recorded' # NoCycle => Past(recorded') \/ (Past(recorded))',
             \A d \in Cycles : copy'[d] # NoCycle => Past(copy'[d]),
             \A d \in Cycles : host'[d] # NoCycle => Past(host'[d])
      PROVE  Placed'
  BY <1>1 DEF Placed, Past
<1>2. ASSUME NEW c \in Cycles, TerraformApply(c) PROVE Placed'
  <2>1. /\ at[c] = "apply" /\ UNCHANGED <<servers, recorded, host>>
        /\ \/ ReadState(c, "applying")
           \/ at' = [at EXCEPT ![c] = "destroy"] /\ UNCHANGED copy
    BY <1>2, ConcludeFacts DEF TerraformApply, serverVars, stateVars, ReadState
  <2>2. \A v \in Cycles : Past(v) => Past(v)'
    BY <2>1, ReadFacts DEF Past, TypeOK
  <2>3. \A d \in Cycles : copy'[d] # NoCycle => Past(copy'[d])
    BY <2>1, ReadFacts DEF Placed, TypeOK
  <2> QED BY <1>1, <2>1, <2>2, <2>3 DEF Placed, Past
<1>3. ASSUME NEW c \in Cycles, TerraformApplied(c) PROVE Placed'
  <2>1. Past(c)' /\ \A v \in Cycles : Past(v) => Past(v)'
    BY <1>3, AppliedFacts DEF Past, TypeOK
  <2>2. /\ servers' \subseteq servers \union {c} /\ recorded' \in {recorded, copy[c], c}
        /\ UNCHANGED host /\ \A d \in Cycles : copy'[d] \in {copy[d], NoCycle}
    BY <1>3, AppliedFacts DEF TypeOK
  <2>3. \A v : v = recorded' => (Past(v)' <=> (Past(recorded))')
    BY DEF Past
  <2> QED BY <1>1, <2>1, <2>2, <2>3 DEF Placed, Past
<1>4. ASSUME NEW c \in Cycles, GetVmIp(c) PROVE Placed'
  <2>1. /\ at[c] = "address" /\ UNCHANGED <<servers, recorded, copy>>
        /\ \E step \in {"deploy", "destroy"} : at' = [at EXCEPT ![c] = step]
        /\ \/ UNCHANGED host
           \/ recorded # NoCycle /\ host' = [host EXCEPT ![c] = recorded]
    BY <1>4, ConcludeFacts DEF GetVmIp, StepDone, Goto, serverVars
  <2>2. \A v \in Cycles : Past(v) => Past(v)'
    BY <2>1 DEF Past, TypeOK
  <2>3. \A d \in Cycles : host'[d] # NoCycle => Past(host'[d])
    BY <2>1 DEF Placed, TypeOK
  <2> QED BY <1>1, <2>1, <2>2, <2>3 DEF Placed, Past
<1>5. ASSUME NEW c \in Cycles, TearDown(c) PROVE Placed'
  <2>1. \A v \in Cycles : Past(v) => Past(v)'
    BY <1>5, TearDownFacts, ReadFacts DEF Past, TypeOK
  <2>2. \A d \in Cycles : copy'[d] # NoCycle => Past(copy'[d])
    BY <1>5, TearDownFacts, ReadFacts DEF Placed, TypeOK
  <2>3. UNCHANGED <<servers, recorded, host>>
    BY <1>5, TearDownFacts
  <2> QED BY <1>1, <2>1, <2>2, <2>3 DEF Placed, Past
<1>6. ASSUME NEW c \in Cycles, TornDown(c) PROVE Placed'
  <2>1. \A v \in Cycles : Past(v) => Past(v)'
    BY <1>6, TornDownFacts DEF Past, TypeOK
  <2>2. /\ servers' \subseteq servers /\ recorded' \in {recorded, NoCycle} /\ UNCHANGED host
        /\ \A d \in Cycles : copy'[d] \in {copy[d], NoCycle}
    BY <1>6, TornDownFacts DEF TypeOK
  <2> QED BY <1>1, <2>1, <2>2 DEF Placed, Past
<1>7. ASSUME NEW c \in Cycles, CleanupServer(c) PROVE Placed'
  <2>1. UNCHANGED <<at, recorded, copy, host>> /\ servers' \subseteq servers
    BY <1>7, CleanupFacts
  <2> QED BY <2>1 DEF Placed, Past
<1>8. CASE \A c \in Cycles : ~StateStep(c)
  <2>1. /\ UNCHANGED <<recorded, copy, host, servers>>
        /\ \A v \in Cycles : Past(v) => Past(v)'
    BY <1>8, OtherSteps
  <2> QED BY <1>1, <2>1 DEF Placed, Past
<1> QED BY <1>2, <1>3, <1>4, <1>5, <1>6, <1>7, <1>8 DEF StateStep

LEMMA SingleNext == TypeOK /\ Single /\ [Next]_vars => Single'
<1> SUFFICES ASSUME TypeOK, Single, [Next]_vars, Trusted'
             PROVE  servers' \subseteq {recorded'} /\ \A v \in Cycles : Informed(v)'
  BY DEF Single
<1>1. ASSUME NEW c \in Cycles, TerraformApply(c) \/ TearDown(c)
      PROVE  servers' \subseteq {recorded'} /\ \A v \in Cycles : Informed(v)'
  <2>1. /\ UNCHANGED <<servers, recorded, cutOff>>
        /\ \/ \E step : ReadState(c, step)
           \/ /\ UNCHANGED <<copy, overlapped>>
              /\ \E step \in {"list", "destroy"} : at' = [at EXCEPT ![c] = step]
    BY <1>1, TearDownFacts, ConcludeFacts DEF TerraformApply, serverVars, stateVars, ReadState
  <2>2. CASE \E step : ReadState(c, step)
    <3>1. PICK step : ReadState(c, step)
      BY <2>2
    <3>2. /\ ~overlapped /\ \A d \in Cycles : at[d] \notin Commanding
          /\ copy' = [copy EXCEPT ![c] = IF recorded \in servers THEN recorded ELSE NoCycle]
          /\ at' = [at EXCEPT ![c] = step]
      BY <3>1, ReadFacts DEF Trusted
    <3>3. servers \subseteq {recorded}
      BY <2>1, <3>2 DEF Single, Trusted
    <3> QED BY <2>1, <3>2, <3>3 DEF Informed, TypeOK
  <2>3. CASE /\ UNCHANGED <<copy, overlapped>>
             /\ \E step \in {"list", "destroy"} : at' = [at EXCEPT ![c] = step]
    <3>1. \A d \in Cycles : at'[d] \in Commanding => at'[d] = at[d]
      BY <2>3 DEF TypeOK, Commanding
    <3> QED BY <2>1, <2>3, <3>1 DEF Single, Trusted, Informed
  <2> QED BY <2>1, <2>2, <2>3
<1>2. ASSUME NEW c \in Cycles, TerraformApplied(c)
      PROVE  servers' \subseteq {recorded'} /\ \A v \in Cycles : Informed(v)'
  <2>1. at[c] = "applying" /\ Trusted
    BY <1>2, AppliedFacts DEF Trusted
  <2>2. /\ servers \subseteq {recorded} /\ servers \subseteq {copy[c]}
        /\ \A d \in Cycles \ {c} : at[d] \notin Commanding
    BY <2>1 DEF Single, Informed, Commanding
  <2>3. \A d \in Cycles : at'[d] \notin Commanding
    BY <1>2, <2>2, AppliedFacts DEF TypeOK, Commanding
  <2>4. servers' \subseteq {recorded'}
    <3>1. CASE UNCHANGED servers /\ recorded' \in {recorded, copy[c]}
      BY <2>2, <3>1
    <3>2. CASE servers' \subseteq servers /\ UNCHANGED recorded
      BY <2>2, <3>2
    <3>3. CASE servers' = (servers \ Named(c)) \union {c} /\ recorded' = c
      BY <2>2, <3>3, NoCycleAssumption DEF Named, TypeOK
    <3> QED BY <1>2, <3>1, <3>2, <3>3, AppliedFacts DEF Trusted
  <2> QED BY <2>3, <2>4 DEF Informed
<1>3. ASSUME NEW c \in Cycles, TornDown(c)
      PROVE  servers' \subseteq {recorded'} /\ \A v \in Cycles : Informed(v)'
  <2>1. at[c] = "destroying" /\ Trusted
    BY <1>3, TornDownFacts DEF Trusted
  <2>2. /\ servers \subseteq {recorded} /\ servers \subseteq {copy[c]}
        /\ \A d \in Cycles \ {c} : at[d] \notin Commanding
    BY <2>1 DEF Single, Informed, Commanding
  <2>3. \A d \in Cycles : at'[d] \notin Commanding
    BY <1>3, <2>2, TornDownFacts DEF TypeOK, Commanding
  <2>4. servers' = {} \/ UNCHANGED <<servers, recorded>>
    BY <1>3, <2>2, TornDownFacts, NoCycleAssumption DEF Named, TypeOK
  <2> QED BY <2>2, <2>3, <2>4 DEF Informed
<1>4. ASSUME NEW c \in Cycles, GetVmIp(c)
      PROVE  servers' \subseteq {recorded'} /\ \A v \in Cycles : Informed(v)'
  <2>1. /\ UNCHANGED <<servers, recorded, copy, overlapped, cutOff>>
        /\ \E step \in {"deploy", "destroy"} : at' = [at EXCEPT ![c] = step]
    BY <1>4, ConcludeFacts DEF GetVmIp, StepDone, Goto, serverVars, historyVars
  <2>2. \A d \in Cycles : at'[d] \in Commanding => at'[d] = at[d]
    BY <2>1 DEF TypeOK, Commanding
  <2> QED BY <2>1, <2>2 DEF Single, Trusted, Informed
<1>5. ASSUME NEW c \in Cycles, CleanupServer(c)
      PROVE  servers' \subseteq {recorded'} /\ \A v \in Cycles : Informed(v)'
  <2>1. servers' \subseteq servers /\ UNCHANGED <<recorded, copy, overlapped, cutOff, at>>
    BY <1>5, CleanupFacts
  <2> QED BY <2>1 DEF Single, Trusted, Informed
<1>6. CASE \A c \in Cycles : ~StateStep(c)
  <2>1. /\ UNCHANGED <<recorded, copy, servers, overlapped, cutOff>>
        /\ \A v \in Cycles : at'[v] \in Commanding => at'[v] = at[v]
    BY <1>6, OtherSteps
  <2> QED BY <2>1 DEF Single, Trusted, Informed
<1> QED BY <1>1, <1>2, <1>3, <1>4, <1>5, <1>6 DEF StateStep

LEMMA PlaceInit == Init => Placed /\ Single
  BY DEF Init, Placed, Single, Informed, Commanding

\* A destroy that succeeds, on a state that can be trusted, leaves no server.
LEMMA CleanTornDown ==
    ASSUME TypeOK, Single, NEW c \in Cycles, TornDown(c), Clean'
    PROVE  servers' = {}
<1>1. /\ at[c] = "destroying" /\ Trusted /\ servers' = servers \ Named(c)
  BY TornDownFacts DEF Clean, Trusted
<1>2. servers \subseteq {copy[c]}
  BY <1>1 DEF Single, Informed, Commanding
<1> QED BY <1>1, <1>2, NoCycleAssumption DEF Named, TypeOK

\* The row of a run stays where it is, and what is lost is lost.
Settled == \A r \in Runs : phase[r] # "absent" =>
               UNCHANGED Home(r) /\ (Lost(r) => Lost(r)')

LEMMA RowsSettled == TypeOK /\ Placed /\ NotYet /\ [Next]_vars => Settled
<1> SUFFICES ASSUME TypeOK, Placed, NotYet, [Next]_vars, NEW r \in Runs, phase[r] # "absent"
             PROVE  UNCHANGED Home(r) /\ (Lost(r) => Lost(r)')
  BY DEF Settled
<1> USE CycleOfAssumption DEF Home, Lost
<1>1. ASSUME servers' \subseteq servers, UNCHANGED host
      PROVE  UNCHANGED Home(r) /\ (Lost(r) => Lost(r)')
  BY <1>1
<1>2. ASSUME NEW c \in Cycles, TerraformApply(c) \/ TearDown(c) \/ TornDown(c)
                               \/ CleanupServer(c)
      PROVE  UNCHANGED Home(r) /\ (Lost(r) => Lost(r)')
  <2>1. servers' \subseteq servers /\ UNCHANGED host
    BY <1>2, TearDownFacts, TornDownFacts, CleanupFacts
    DEF TerraformApply, ReadState, serverVars, stateVars
  <2> QED BY <1>1, <2>1
<1>3. ASSUME NEW c \in Cycles, TerraformApplied(c)
      PROVE  UNCHANGED Home(r) /\ (Lost(r) => Lost(r)')
  <2>1. at[c] = "applying" /\ servers' \subseteq servers \union {c} /\ UNCHANGED host
    BY <1>3, AppliedFacts
  <2>2. Home(r) # c
    BY <2>1, NoCycleAssumption DEF Placed, Past
  <2> QED BY <2>1, <2>2
<1>4. ASSUME NEW c \in Cycles, GetVmIp(c)
      PROVE  UNCHANGED Home(r) /\ (Lost(r) => Lost(r)')
  <2>1. /\ at[c] = "address" /\ UNCHANGED servers
        /\ UNCHANGED host \/ host' = [host EXCEPT ![c] = recorded]
    BY <1>4 DEF GetVmIp, serverVars
  <2>2. CycleOf[r] # c
    BY <2>1 DEF NotYet, BeforeSubmit
  <2> QED BY <2>1, <2>2 DEF TypeOK
<1>5. CASE \A c \in Cycles : ~StateStep(c)
  BY <1>1, <1>5, OtherSteps
<1> QED BY <1>2, <1>3, <1>4, <1>5 DEF StateStep

-----------------------------------------------------------------------------
(***************************************************************************)
(* The steps of the workflows, as far as the invariants tell them apart.   *)
(***************************************************************************)

\* The steps of the bench job but for the submission: rows and records stay.
JobFrame(c) ==
    /\ UNCHANGED <<phase, result, revived, broken, tracked, keys>>
    /\ AppliesKept /\ (Trusted' => Trusted)
    /\ servers' # {} => servers # {} \/ at[c] = "applying"

JobGoesOn(c, step) ==
    /\ UNCHANGED verdict
    /\ at' = [at EXCEPT ![c] = step]
    /\ at[c] \in BeforeSubmit \union {"wait"}
    /\ step \in (IF at[c] = "wait" THEN {"verdict"} ELSE BeforeSubmit)
    /\ at[c] \in BeforeDestroy => step \in BeforeDestroy
    /\ step = "verdict" => host[c] \in servers /\ Active(host[c]) = {}

JobEnds(c, outcome) ==
    /\ verdict' = [verdict EXCEPT ![c] = outcome]
    /\ at' = [at EXCEPT ![c] = "destroy"]
    /\ at[c] \in BeforeDestroy \ {"destroy", "destroying"}
    /\ outcome = "green" => at[c] = "verdict" /\ host[c] \in servers /\ Failed(host[c]) = {}

JobSkips(c, outcome, step) ==
    /\ verdict' = [verdict EXCEPT ![c] = outcome]
    /\ at' = [at EXCEPT ![c] = step]
    /\ at[c] = "preflight" /\ step \in {"done", "cleanup"}

JobMoves(c) ==
    \/ \E step \in Steps : JobGoesOn(c, step)
    \/ \E outcome \in Outcomes : JobEnds(c, outcome)
    \/ \E outcome \in Outcomes, step \in Steps : JobSkips(c, outcome, step)

LEMMA BenchFacts ==
    ASSUME TypeOK, NEW c \in Cycles, Bench(c), ~SubmitRuns(c)
    PROVE  JobFrame(c) /\ JobMoves(c)
<1>1. ASSUME NEW step \in Steps, at' = [at EXCEPT ![c] = step], UNCHANGED <<verdict, keys>>,
             at[c] \in BeforeSubmit \union {"wait"},
             step \in (IF at[c] = "wait" THEN {"verdict"} ELSE BeforeSubmit),
             at[c] \in BeforeDestroy => step \in BeforeDestroy,
             step = "verdict" => host[c] \in servers /\ Active(host[c]) = {}
      PROVE  JobMoves(c) /\ UNCHANGED keys
  BY <1>1 DEF JobGoesOn, JobMoves
<1>2. ASSUME NEW outcome \in Outcomes, Conclude(c, outcome),
             at[c] \in BeforeDestroy \ {"destroy", "destroying"},
             outcome = "green" => /\ at[c] = "verdict"
                                  /\ host[c] \in servers /\ Failed(host[c]) = {}
      PROVE  JobMoves(c) /\ UNCHANGED keys
  BY <1>2, ConcludeFacts DEF JobEnds, JobMoves
<1>3. ASSUME UNCHANGED <<runVars, fleetVars, serverVars, historyVars, keys>>
      PROVE  JobFrame(c)
  BY <1>3 DEF JobFrame, AppliesKept, Trusted, runVars, fleetVars, serverVars, historyVars
<1> USE <1>1, <1>2
    DEF Steps, Outcomes, BeforeSubmit, BeforeDestroy, StepDone, Goto
<1>4. CASE Start(c)
  <2>1. JobMoves(c) /\ UNCHANGED keys
    BY <1>4 DEF Start
  <2> QED BY <1>3, <1>4, <2>1 DEF Start
<1>5. CASE Preflight(c)
  <2>1. StepDone(c, "apply") => JobMoves(c) /\ UNCHANGED keys
    BY <1>5 DEF Preflight
  <2>2. ASSUME NEW outcome \in {"green", "red", "cancelled"},
               verdict' = [verdict EXCEPT ![c] = outcome],
               Goto(c, IF outcome = "cancelled" THEN "cleanup" ELSE "done"),
               UNCHANGED <<posted, keys, reaped>>
        PROVE  JobMoves(c) /\ UNCHANGED keys
    BY <1>5, <2>2 DEF Preflight, JobSkips, JobMoves
  <2>3. JobMoves(c) /\ UNCHANGED keys
    BY <1>5, <2>1, <2>2 DEF Preflight
  <2> QED BY <1>3, <1>5, <2>3 DEF Preflight
<1>6. CASE TerraformApply(c)
  <2>1. JobMoves(c) /\ UNCHANGED keys
    BY <1>6 DEF TerraformApply, ReadState
  <2>2. Trusted' => Trusted
    BY <1>6, ReadFacts DEF TerraformApply, Trusted
  <2> QED BY <1>6, <2>1, <2>2
          DEF TerraformApply, JobFrame, AppliesKept, runVars, fleetVars, serverVars
<1>7. CASE TerraformApplied(c)
  <2>1. JobMoves(c) /\ UNCHANGED keys
    BY <1>7 DEF TerraformApplied
  <2>2. UNCHANGED <<phase, result, revived, broken>>
    BY <1>7 DEF TerraformApplied, runVars
  <2>3. UNCHANGED tracked
    BY <1>7, ChangeFacts
    DEF TerraformApplied, KeepsServer, CreatesServer, StopsMidway, fleetVars
  <2>4. AppliesKept /\ (Trusted' => Trusted) /\ at[c] = "applying"
    BY <1>7, AppliedFacts DEF Trusted
  <2> QED BY <2>1, <2>2, <2>3, <2>4 DEF JobFrame
<1>8. CASE GetVmIp(c)
  <2>1. JobMoves(c) /\ UNCHANGED keys
    BY <1>8 DEF GetVmIp
  <2> QED BY <1>3, <1>8, <2>1 DEF GetVmIp
<1>9. CASE StartStack(c)
  <2>1. JobMoves(c) /\ UNCHANGED keys
    BY <1>9 DEF StartStack
  <2>2. CASE host[c] \in servers /\ ProcessRestarts(host[c])
    <3>1. AppliesKept /\ UNCHANGED <<servers, tracked>>
      BY <2>2, RestartFacts
    <3> QED BY <1>9, <2>1, <3>1 DEF StartStack, JobFrame, Trusted, runVars, historyVars
  <2>3. CASE Conclude(c, "red") /\ UNCHANGED <<fleetVars, serverVars>>
    BY <1>3, <1>9, <2>1, <2>3 DEF StartStack
  <2> QED BY <1>9, <2>2, <2>3 DEF StartStack
<1>10. CASE WaitForHealth(c)
  <2>1. JobMoves(c) /\ UNCHANGED keys
    BY <1>10 DEF WaitForHealth
  <2> QED BY <1>3, <1>10, <2>1 DEF WaitForHealth
<1>11. CASE WaitForRuns(c)
  <2>1. JobMoves(c) /\ UNCHANGED keys
    BY <1>11 DEF WaitForRuns, ProcessUp
  <2> QED BY <1>3, <1>11, <2>1 DEF WaitForRuns
<1>12. CASE Timeout(c)
  <2>1. JobMoves(c) /\ UNCHANGED keys
    BY <1>12 DEF Timeout
  <2> QED BY <1>3, <1>12, <2>1 DEF Timeout
<1>13. CASE Verdict(c)
  <2>1. JobMoves(c) /\ UNCHANGED keys
    BY <1>13 DEF Verdict, ProcessUp
  <2> QED BY <1>3, <1>13, <2>1 DEF Verdict
<1>14. CASE Cancel(c)
  <2>1. JobMoves(c) /\ UNCHANGED keys
    BY <1>14 DEF Cancel
  <2> QED BY <1>3, <1>14, <2>1 DEF Cancel
<1> QED BY <1>4, <1>5, <1>6, <1>7, <1>8, <1>9, <1>10, <1>11, <1>12, <1>13, <1>14 DEF Bench

LEMMA SubmitFacts ==
    ASSUME TypeOK, NEW c \in Cycles, SubmitRuns(c)
    PROVE  /\ at[c] = "submit" /\ at' = [at EXCEPT ![c] = "wait"]
           /\ UNCHANGED <<result, servers, host, revived, tracked, applying, keys, verdict,
                          broken, overlapped, cutOff>>
           /\ \A r \in Runs : \/ phase'[r] = phase[r]
                              \/ CycleOf[r] = c /\ phase[r] = "absent" /\ phase'[r] = "waiting"
<1>1. PICK S \in SUBSET Pending(c) :
         phase' = [r \in Runs |-> IF r \in S THEN "waiting" ELSE phase[r]]
  BY DEF SubmitRuns
<1>2. \A r \in Runs : \/ phase'[r] = phase[r]
                      \/ CycleOf[r] = c /\ phase[r] = "absent" /\ phase'[r] = "waiting"
  BY <1>1 DEF Pending
<1> QED BY <1>2 DEF SubmitRuns, Goto, fleetVars, stateVars, serverVars, historyVars

\* The steps after the destroy.
Later(c) ==
    \/ ListStates(c) \/ ReapDestroy(c) \/ ReapRemove(c) \/ ReapFails(c) \/ ReapEnds(c)
    \/ CleanupServer(c) \/ Cleanup(c)

LEMMA LaterFacts ==
    ASSUME TypeOK, NEW c \in Cycles, Later(c)
    PROVE  /\ UNCHANGED <<phase, result, revived, verdict, host, overlapped, cutOff>>
           /\ at[c] \in {"list", "reap", "remove", "cleanup"}
           /\ \E step \in {"reap", "remove", "cleanup", "done"} : at' = [at EXCEPT ![c] = step]
           /\ ~broken' => ~broken
           /\ servers' \subseteq servers /\ AppliesKept
           /\ tracked' \subseteq tracked
           /\ \A d \in Cycles \ {c} : keys'[d] = keys[d]
           /\ ~broken' => \A r \in tracked' :
                  at[c] = "list" \/ (at[c] \in {"reap", "remove"} /\ r \in keys[c])
                  => at'[c] \in {"reap", "remove"} /\ r \in keys'[c]
<1>1. CASE CleanupServer(c)
  <2>1. at' = [at EXCEPT ![c] = "cleanup"]
    BY <1>1, CleanupFacts DEF TypeOK
  <2> QED BY <1>1, <2>1, CleanupFacts DEF TypeOK
<1> USE GotoAfterFacts
        DEF TypeOK, Goto, BreakStep, AppliesKept, runVars, fleetVars, stateVars, serverVars,
            jobVars, historyVars
<1>2. CASE ListStates(c)
  BY <1>2 DEF ListStates
<1>3. CASE ReapDestroy(c)
  BY <1>3 DEF ReapDestroy
<1>4. CASE ReapRemove(c)
  BY <1>4 DEF ReapRemove
<1>5. CASE ReapFails(c)
  BY <1>5 DEF ReapFails
<1>6. CASE ReapEnds(c)
  BY <1>6 DEF ReapEnds
<1>7. CASE Cleanup(c)
  BY <1>7 DEF Cleanup
<1> QED BY <1>1, <1>2, <1>3, <1>4, <1>5, <1>6, <1>7 DEF Later

\* The orchestrator's own steps.
LEMMA ServerFacts ==
    ASSUME TypeOK, NEW v \in Cycles, Boot(v) \/ ProcessCrash(v)
    PROVE  /\ UNCHANGED <<phase, result, revived, servers, host, tracked, at, verdict, keys,
                          broken, overlapped, cutOff>>
           /\ AppliesKept
<1>1. CASE Boot(v)
  BY <1>1 DEF Boot, AppliesKept, runVars, fleetVars, stateVars, jobVars, historyVars
<1>2. CASE ProcessCrash(v)
  BY <1>2, RestartFacts
  DEF ProcessCrash, ProcessUp, runVars, stateVars, jobVars, historyVars
<1> QED BY <1>1, <1>2

\* The cases of Next.
LEMMA NextCases ==
    ASSUME [Next]_vars
    PROVE  \/ \E c \in Cycles : \/ Bench(c) /\ ~SubmitRuns(c)
                                \/ SubmitRuns(c)
                                \/ TearDown(c)
                                \/ TornDown(c)
                                \/ Later(c)
           \/ \E v \in Cycles : Boot(v) \/ ProcessCrash(v)
           \/ \E r \in Runs : RunMoves(r)
           \/ \E r \in Runs : FleetMoves(r)
           \/ UNCHANGED vars
  BY DEF Next, Teardown, Later, Server

-----------------------------------------------------------------------------
(***************************************************************************)
(* Nothing recorded is left.                                               *)
(***************************************************************************)

\* A step of one cycle leaves the others to come to what they had to come to.
LEMMA AwaitedByOthers ==
    ASSUME TypeOK, NEW c \in Cycles, NEW step, NEW r \in Runs, RecordAwaited(r),
           at' = [at EXCEPT ![c] = step],
           \A d \in Cycles \ {c} : keys'[d] = keys[d],
           at[c] \in BeforeDestroy \union {"list"}
               => at'[c] \in BeforeDestroy \union {"list"} \/
                  (at'[c] \in {"reap", "remove"} /\ r \in keys'[c]),
           at[c] \in {"reap", "remove"} /\ r \in keys[c]
               => at'[c] \in {"reap", "remove"} /\ r \in keys'[c]
    PROVE  RecordAwaited(r)'
<1>1. \A d \in Cycles \ {c} : at'[d] = at[d]
  BY DEF TypeOK
<1>2. ASSUME NEW d \in Cycles, at[d] \in BeforeDestroy \union {"list"}
      PROVE  RecordAwaited(r)'
  BY <1>1, <1>2 DEF RecordAwaited
<1>3. ASSUME NEW d \in Cycles, at[d] \in {"reap", "remove"}, r \in keys[d]
      PROVE  RecordAwaited(r)'
  BY <1>1, <1>3 DEF RecordAwaited
<1> QED BY <1>2, <1>3 DEF RecordAwaited

LEMMA AwaitedNext == TypeOK /\ Single /\ Awaited /\ [Next]_vars => Awaited'
<1> SUFFICES ASSUME TypeOK, Single, Awaited, [Next]_vars, Clean'
             PROVE  VmAwaited' /\ \A r \in tracked' : RecordAwaited(r)'
  BY DEF Awaited
<1>1. ASSUME NEW c \in Cycles, Bench(c), ~SubmitRuns(c)
      PROVE  VmAwaited' /\ \A r \in tracked' : RecordAwaited(r)'
  <2>1. JobFrame(c) /\ JobMoves(c)
    BY <1>1, BenchFacts
  <2>2. PICK step \in Steps :
           /\ at' = [at EXCEPT ![c] = step]
           /\ at[c] \in BeforeDestroy => step \in BeforeDestroy
           /\ at[c] \notin {"list", "reap", "remove"}
    BY <2>1 DEF JobMoves, JobGoesOn, JobEnds, JobSkips, Steps, BeforeDestroy, BeforeSubmit
  <2>3. /\ Clean /\ UNCHANGED <<tracked, keys>>
        /\ servers' # {} => servers # {} \/ at[c] = "applying"
    BY <2>1 DEF JobFrame, Clean
  <2>4. VmAwaited'
    <3> SUFFICES ASSUME servers' # {} PROVE \E d \in Cycles : at'[d] \in BeforeDestroy
      BY DEF VmAwaited
    <3>1. PICK d \in Cycles : at[d] \in BeforeDestroy
      BY <2>3 DEF Awaited, VmAwaited, BeforeDestroy
    <3> QED BY <2>2, <3>1 DEF TypeOK
  <2>5. ASSUME NEW r \in tracked' PROVE RecordAwaited(r)'
    <3>1. r \in Runs /\ RecordAwaited(r)
      BY <2>3 DEF Awaited, TypeOK
    <3> QED BY <2>2, <2>3, <3>1, AwaitedByOthers DEF TypeOK
  <2> QED BY <2>4, <2>5
<1>2. ASSUME NEW c \in Cycles, at'[c] \in BeforeDestroy
      PROVE  VmAwaited' /\ \A r \in tracked' : RecordAwaited(r)'
  BY <1>2 DEF VmAwaited, RecordAwaited
<1>3. ASSUME NEW c \in Cycles, SubmitRuns(c)
      PROVE  VmAwaited' /\ \A r \in tracked' : RecordAwaited(r)'
  BY <1>2, <1>3, SubmitFacts DEF BeforeDestroy, TypeOK
<1>4. ASSUME NEW c \in Cycles, TearDown(c)
      PROVE  VmAwaited' /\ \A r \in tracked' : RecordAwaited(r)'
  <2>1. at' = [at EXCEPT ![c] = "destroying"]
    BY <1>4, TearDownFacts, ReadFacts DEF Clean
  <2> QED BY <1>2, <2>1 DEF BeforeDestroy, TypeOK
<1>5. ASSUME NEW c \in Cycles, TornDown(c)
      PROVE  VmAwaited' /\ \A r \in tracked' : RecordAwaited(r)'
  <2>1. servers' = {} /\ at'[c] = "list"
    BY <1>5, CleanTornDown, TornDownFacts DEF TypeOK
  <2> QED BY <2>1 DEF VmAwaited, RecordAwaited
<1>6. ASSUME NEW c \in Cycles, Later(c)
      PROVE  VmAwaited' /\ \A r \in tracked' : RecordAwaited(r)'
  <2>1. /\ at[c] \in {"list", "reap", "remove", "cleanup"}
        /\ servers' \subseteq servers /\ tracked' \subseteq tracked
        /\ \A d \in Cycles \ {c} : keys'[d] = keys[d]
    BY <1>6, LaterFacts
  <2>2. /\ Clean
        /\ \A r \in tracked' :
               at[c] = "list" \/ (at[c] \in {"reap", "remove"} /\ r \in keys[c])
               => at'[c] \in {"reap", "remove"} /\ r \in keys'[c]
    BY <1>6, LaterFacts DEF Clean, Trusted
  <2>3. PICK step \in {"reap", "remove", "cleanup", "done"} : at' = [at EXCEPT ![c] = step]
    BY <1>6, LaterFacts
  <2>4. VmAwaited'
    <3>1. \A d \in Cycles : at[d] \in BeforeDestroy => at'[d] = at[d]
      BY <2>1, <2>3 DEF BeforeDestroy, TypeOK
    <3> QED BY <2>1, <2>2, <3>1 DEF Awaited, VmAwaited
  <2>5. ASSUME NEW r \in tracked' PROVE RecordAwaited(r)'
    <3>1. r \in Runs /\ RecordAwaited(r)
      BY <2>1, <2>2 DEF Awaited, TypeOK
    <3>2. at[c] \notin BeforeDestroy
      BY <2>1 DEF BeforeDestroy
    <3> QED BY <2>1, <2>2, <2>3, <3>1, <3>2, AwaitedByOthers
  <2> QED BY <2>4, <2>5
<1>7. ASSUME UNCHANGED <<broken, overlapped, cutOff, servers, at, keys>>,
             \/ tracked' \subseteq tracked
             \/ servers # {}
      PROVE  VmAwaited' /\ \A r \in tracked' : RecordAwaited(r)'
  <2>1. VmAwaited /\ \A r \in tracked : RecordAwaited(r)
    BY <1>7 DEF Awaited, Clean, Trusted
  <2>2. VmAwaited'
    BY <1>7, <2>1 DEF VmAwaited
  <2>3. ASSUME NEW r \in tracked' PROVE RecordAwaited(r)'
    BY <1>7, <2>1, <2>3 DEF VmAwaited, RecordAwaited
  <2> QED BY <2>2, <2>3
<1>8. CASE \E v \in Cycles : Boot(v) \/ ProcessCrash(v)
  BY <1>7, <1>8, ServerFacts
<1>9. CASE \E r \in Runs : RunMoves(r)
  BY <1>7, <1>9, RunMovesFacts DEF fleetVars, serverVars, jobVars
<1>10. CASE \E r \in Runs : FleetMoves(r)
  BY <1>7, <1>10, FleetMovesFacts DEF serverVars, jobVars, historyVars
<1>11. CASE UNCHANGED vars
  BY <1>7, <1>11 DEF vars, fleetVars, serverVars, jobVars, historyVars
<1> QED BY <1>1, <1>3, <1>4, <1>5, <1>6, <1>8, <1>9, <1>10, <1>11, NextCases

\* Once no cycle is under way there is no orchestrator and no recorded GPU VM,
\* unless a step of a teardown failed after the last destroy, an apply was cut off
\* between its VM and the state, or two commands shared the state.
THEOREM NothingRecordedLeftHolds == Spec => []NothingRecordedLeft
<1>1. Init => Awaited
  BY DEF Init, Awaited, VmAwaited, Fleet!FleetInit
<1>2. TypeOK /\ Awaited => NothingRecordedLeft
  BY DEF Awaited, Clean, Trusted, VmAwaited, RecordAwaited, NothingRecordedLeft, UnderWay,
         BeforeDestroy, TypeOK
<1> QED
  BY <1>1, <1>2, TypeInit, TypeNext, PlaceInit, SingleNext, AwaitedNext, PTL DEF Spec

-----------------------------------------------------------------------------
(***************************************************************************)
(* A green cycle has its results.                                          *)
(***************************************************************************)

Ledger == NotYet /\ Seen /\ Earned

\* Steps that leave the runs alone, and whose cycle is past its verdict.
LEMMA LedgerKept ==
    ASSUME TypeOK, Ledger, Settled, UNCHANGED <<phase, result, revived, verdict>>,
           \/ UNCHANGED at
           \/ \E c \in Cycles, step \in AfterVerdict : at' = [at EXCEPT ![c] = step]
    PROVE  Ledger'
<1>1. \A d \in Cycles : at'[d] = at[d] \/ at'[d] \in AfterVerdict
  BY DEF TypeOK
<1>2. \A d \in Cycles : at'[d] \in BeforeSubmit \union {"verdict"} => at'[d] = at[d]
  BY <1>1 DEF AfterVerdict, BeforeSubmit
<1>3. NotYet'
  BY <1>2 DEF Ledger, NotYet
<1>4. Seen'
  BY <1>2 DEF Ledger, Seen, Settled
<1>5. Earned'
  BY <1>1 DEF Ledger, Earned, Excused, Settled
<1> QED BY <1>3, <1>4, <1>5 DEF Ledger

LEMMA LedgerJob ==
    ASSUME TypeOK, Ledger, Settled, NEW c \in Cycles, JobFrame(c), JobMoves(c)
    PROVE  Ledger'
<1>1. UNCHANGED <<phase, result, revived>>
  BY DEF JobFrame
<1>2. /\ \A d \in Cycles \ {c} : at'[d] = at[d] /\ verdict'[d] = verdict[d]
      /\ at[c] \notin AfterVerdict
      /\ at'[c] \in BeforeSubmit => at[c] \in BeforeSubmit
      /\ at'[c] = "verdict" => Active(host[c]) = {}
      /\ verdict'[c] = verdict[c] \/ at'[c] \in AfterVerdict
      /\ verdict'[c] = "green" => \/ verdict[c] = "green"
                                  \/ at[c] = "verdict" /\ Failed(host[c]) = {}
                                  \/ at[c] = "preflight"
  <2> USE DEF TypeOK, AfterVerdict, BeforeSubmit, BeforeDestroy
  <2>1. ASSUME NEW step \in Steps, JobGoesOn(c, step) PROVE <1>2
    BY <2>1 DEF JobGoesOn
  <2>2. ASSUME NEW outcome \in Outcomes, JobEnds(c, outcome) PROVE <1>2
    BY <2>2 DEF JobEnds
  <2>3. ASSUME NEW outcome \in Outcomes, NEW step \in Steps, JobSkips(c, outcome, step) PROVE <1>2
    BY <2>3 DEF JobSkips
  <2> QED BY <2>1, <2>2, <2>3 DEF JobMoves
<1>3. NotYet'
  BY <1>1, <1>2 DEF Ledger, NotYet
<1>4. ASSUME NEW r \in Runs, CycleOf[r] = c, phase[r] # "absent", ~Lost(r)
      PROVE  r \in Rows(host[c])
  BY <1>4 DEF Rows, Lost, Home
<1>5. Seen'
  <2> SUFFICES ASSUME NEW r \in Runs, at'[c] = "verdict", CycleOf[r] = c, phase[r] # "absent"
               PROVE  phase[r] = "over" \/ Lost(r)
    BY <1>1, <1>2 DEF Ledger, Seen, Settled
  <2> QED BY <1>2, <1>4 DEF Active, TypeOK
<1>6. \A d \in Cycles : verdict'[d] # "none" => at'[d] \in AfterVerdict
  BY <1>2 DEF Ledger, Earned
<1>7. ASSUME NEW d \in Cycles, NEW r \in Runs,
             verdict'[d] = "green", CycleOf[r] = d, phase[r] # "absent"
      PROVE  Excused(r)
  <2>1. CASE verdict[d] = "green"
    BY <1>7, <2>1 DEF Ledger, Earned
  <2>2. CASE d = c /\ at[c] = "verdict" /\ Failed(host[c]) = {}
    <3>1. phase[r] = "over" \/ Lost(r) \/ r \in revived
      BY <1>7, <2>2 DEF Ledger, Seen
    <3>2. phase[r] = "over" /\ ~Lost(r) => result[r]
      BY <1>4, <1>7, <2>2 DEF Failed
    <3> QED BY <3>1, <3>2 DEF Excused
  <2>3. CASE d = c /\ at[c] = "preflight"
    BY <1>7, <2>3 DEF Ledger, NotYet, BeforeSubmit
  <2> QED BY <1>2, <1>7, <2>1, <2>2, <2>3
<1>8. Earned'
  BY <1>1, <1>6, <1>7 DEF Earned, Excused, Settled
<1> QED BY <1>3, <1>5, <1>8 DEF Ledger

LEMMA LedgerSubmit ==
    ASSUME TypeOK, Ledger, Settled, NEW c \in Cycles, SubmitRuns(c)
    PROVE  Ledger'
<1>1. /\ at[c] = "submit" /\ at' = [at EXCEPT ![c] = "wait"]
      /\ UNCHANGED <<result, revived, verdict>>
      /\ \A r \in Runs : CycleOf[r] # c => phase'[r] = phase[r]
  BY SubmitFacts
<1>2. at'[c] = "wait" /\ \A d \in Cycles \ {c} : at'[d] = at[d]
  BY <1>1 DEF TypeOK
<1>3. verdict[c] = "none"
  BY <1>1 DEF Ledger, Earned, AfterVerdict
<1>4. NotYet'
  BY <1>1, <1>2 DEF Ledger, NotYet, BeforeSubmit
<1>5. Seen'
  BY <1>1, <1>2 DEF Ledger, Seen, Settled
<1>6. Earned'
  BY <1>1, <1>2, <1>3 DEF Ledger, Earned, Excused, Settled
<1> QED BY <1>4, <1>5, <1>6 DEF Ledger

LEMMA LedgerRun ==
    ASSUME TypeOK, Ledger, Settled, NEW r \in Runs, RunMoves(r)
    PROVE  Ledger'
<1>1. /\ phase[r] # "absent"
      /\ \A q \in Runs \ {r} : phase'[q] = phase[q] /\ result'[q] = result[q]
      /\ result[r] => result'[r]
      /\ phase[r] = "over" /\ phase'[r] # "over" => r \in revived'
      /\ revived \subseteq revived' /\ UNCHANGED <<at, verdict>>
  BY RunMovesFacts DEF InTable, jobVars
<1>2. NotYet'
  BY <1>1 DEF Ledger, NotYet
<1>3. Seen'
  BY <1>1 DEF Ledger, Seen, Settled
<1>4. Earned'
  BY <1>1 DEF Ledger, Earned, Excused, Settled
<1> QED BY <1>2, <1>3, <1>4 DEF Ledger

LEMMA LedgerNext == TypeOK /\ Placed /\ Ledger /\ [Next]_vars => Ledger'
<1> SUFFICES ASSUME TypeOK, Placed, Ledger, [Next]_vars PROVE Ledger'
  OBVIOUS
<1>1. Settled
  BY RowsSettled DEF Ledger
<1>2. ASSUME NEW c \in Cycles, Bench(c), ~SubmitRuns(c) PROVE Ledger'
  BY <1>1, <1>2, BenchFacts, LedgerJob
<1>3. ASSUME NEW c \in Cycles, TearDown(c) \/ TornDown(c) \/ Later(c) PROVE Ledger'
  <2>1. UNCHANGED <<phase, result, revived, verdict>>
    BY <1>3, TearDownFacts, TornDownFacts, LaterFacts
  <2>2. \E step \in AfterVerdict : at' = [at EXCEPT ![c] = step]
    BY <1>3, TearDownFacts, ReadFacts, TornDownFacts, LaterFacts DEF AfterVerdict
  <2> QED BY <1>1, <2>1, <2>2, LedgerKept
<1>4. CASE \E v \in Cycles : Boot(v) \/ ProcessCrash(v)
  BY <1>1, <1>4, ServerFacts, LedgerKept
<1>5. CASE \E r \in Runs : FleetMoves(r)
  <2>1. UNCHANGED <<phase, result, revived, verdict, at>>
    BY <1>5, FleetMovesFacts DEF jobVars, historyVars
  <2> QED BY <1>1, <2>1, LedgerKept
<1>6. CASE UNCHANGED vars
  <2>1. UNCHANGED <<phase, result, revived, verdict, at>>
    BY <1>6 DEF vars, runVars, jobVars, historyVars
  <2> QED BY <1>1, <2>1, LedgerKept
<1> QED BY <1>1, <1>2, <1>3, <1>4, <1>5, <1>6, LedgerSubmit, LedgerRun, NextCases

LEMMA LedgerInit == Init => Ledger
  BY DEF Init, Ledger, NotYet, Seen, Earned, BeforeSubmit, Fleet!FleetInit, Fleet!Init

\* A green cycle has its results: each run it created has delivered, but for
\* those whose database was torn down and those that were given up and revived.
THEOREM GreenIsEarnedHolds == Spec => []GreenIsEarned
<1>1. Ledger => GreenIsEarned
  BY DEF Ledger, Earned, Excused, GreenIsEarned
<1>2. Placed /\ Single => Placed
  OBVIOUS
<1> QED
  BY <1>1, <1>2, TypeInit, TypeNext, PlaceInit, PlacedNext, LedgerInit, LedgerNext, PTL
  DEF Spec

-----------------------------------------------------------------------------
(***************************************************************************)
(* The teardown of a green cycle is quiet.                                 *)
(***************************************************************************)

\* Rows and applies of a step that leaves the runs alone.
LEMMA WorkingKept ==
    ASSUME TypeOK, Working, Settled, AppliesKept, UNCHANGED result,
           \A r \in Runs : phase[r] # "absent" => phase'[r] # "absent"
    PROVE  Working'
<1> SUFFICES ASSUME NEW r \in applying' PROVE InTable(r)' /\ ~result'[r]
  BY DEF Working
<1>1. r \in Runs /\ r \in applying /\ InTable(r) /\ ~result[r]
  BY DEF Working, AppliesKept, TypeOK
<1>2. Home(r) \in servers'
  BY <1>1 DEF InTable, Lost, AppliesKept
<1> QED BY <1>1, <1>2 DEF InTable, Lost, Settled

LEMMA WorkingNext == TypeOK /\ Placed /\ NotYet /\ Working /\ [Next]_vars => Working'
<1> SUFFICES ASSUME TypeOK, Placed, NotYet, Working, [Next]_vars PROVE Working'
  OBVIOUS
<1>1. Settled
  BY RowsSettled
<1>2. ASSUME NEW c \in Cycles, Bench(c), ~SubmitRuns(c) PROVE Working'
  BY <1>1, <1>2, BenchFacts, WorkingKept DEF JobFrame
<1>3. ASSUME NEW c \in Cycles, SubmitRuns(c) PROVE Working'
  <2>1. UNCHANGED <<result, servers, applying>>
    BY <1>3, SubmitFacts
  <2>2. \A r \in Runs : phase[r] # "absent" => phase'[r] # "absent"
    BY <1>3, SubmitFacts
  <2>3. AppliesKept
    BY <2>1 DEF AppliesKept
  <2> QED BY <1>1, <2>1, <2>2, <2>3, WorkingKept
<1>4. ASSUME NEW c \in Cycles, TearDown(c) \/ TornDown(c) \/ Later(c) PROVE Working'
  <2>1. UNCHANGED <<phase, result>>
    BY <1>4, TearDownFacts, TornDownFacts, LaterFacts
  <2>2. AppliesKept
    BY <1>4, TearDownFacts, TornDownFacts, LaterFacts DEF AppliesKept
  <2> QED BY <1>1, <2>1, <2>2, WorkingKept
<1>5. CASE \E v \in Cycles : Boot(v) \/ ProcessCrash(v)
  BY <1>1, <1>5, ServerFacts, WorkingKept
<1>6. ASSUME NEW r \in Runs, RunMoves(r) PROVE Working'
  <2>1. /\ UNCHANGED <<applying, servers>> /\ \A q \in applying : ~result'[q]
        /\ \A q \in Runs : phase[q] # "absent" => phase'[q] # "absent"
    BY <1>6, RunMovesFacts DEF fleetVars, serverVars
  <2> QED BY <1>1, <2>1 DEF Working, InTable, Lost, Settled, TypeOK
<1>7. ASSUME NEW r \in Runs, FleetMoves(r) PROVE Working'
  <2>1. /\ UNCHANGED <<phase, result, servers>> /\ InTable(r)
        /\ applying' \subseteq applying \union {r} /\ \A q \in applying' : ~result[q]
    BY <1>7, FleetMovesFacts DEF serverVars
  <2> QED BY <1>1, <2>1 DEF Working, InTable, Lost, Settled, TypeOK
<1>8. CASE UNCHANGED vars
  <2>1. UNCHANGED <<phase, result, applying, servers>>
    BY <1>8 DEF vars, runVars, fleetVars, serverVars
  <2>2. AppliesKept
    BY <2>1 DEF AppliesKept
  <2> QED BY <1>1, <2>1, <2>2, WorkingKept
<1> QED BY <1>2, <1>3, <1>4, <1>5, <1>6, <1>7, <1>8, NextCases

\* Steps that leave the runs alone, and the cycles from the wait to the destroy.
LEMMA QuietKept ==
    ASSUME TypeOK, Quiet, Settled, UNCHANGED <<phase, result, revived, verdict>>,
           Clean' => Clean,
           \/ UNCHANGED at
           \/ \E c \in Cycles :
                 /\ at[c] = "destroy" /\ at' = [at EXCEPT ![c] = "destroying"]
           \/ \E c \in Cycles, step \in {"reap", "remove", "cleanup", "done"} :
                 at[c] \in {"list", "reap", "remove", "cleanup"} /\ at' = [at EXCEPT ![c] = step]
    PROVE  Quiet'
<1> DEFINE Late == {"destroy", "destroying"}
<1>1. \A d \in Cycles :
          /\ at'[d] = "verdict" => at[d] = "verdict"
          /\ at'[d] \in Late => at[d] \in Late
          /\ at[d] \in {"wait", "verdict"} \union Late => at'[d] \in {"wait", "verdict"} \union Late
  BY DEF TypeOK
<1>2. \A r \in Runs : InTable(r)' => InTable(r)
  BY DEF InTable, Settled
<1>3. \A d \in Cycles, r \in Runs : Others(d, r) => Others(d, r)'
  BY <1>1, CycleOfAssumption DEF Others
<1> QED BY <1>1, <1>2, <1>3 DEF Quiet

LEMMA QuietJob ==
    ASSUME TypeOK, Single, Quiet, Settled, NEW c \in Cycles, JobFrame(c), JobMoves(c)
    PROVE  Quiet'
<1>1. UNCHANGED <<phase, result, revived>> /\ (Clean' => Clean)
  BY DEF JobFrame, Clean
<1>2. /\ \A d \in Cycles \ {c} : at'[d] = at[d] /\ verdict'[d] = verdict[d]
      /\ at[c] \notin {"destroy", "destroying"} /\ at'[c] # "destroying"
      /\ at[c] \in {"wait", "verdict"} => at'[c] \in {"verdict", "destroy"}
      /\ at'[c] = "verdict" => host[c] \in servers /\ Active(host[c]) = {}
      /\ at'[c] = "destroy" /\ verdict'[c] = "green"
         => at[c] = "verdict" /\ host[c] \in servers /\ Failed(host[c]) = {}
  <2> USE DEF TypeOK, BeforeSubmit, BeforeDestroy
  <2>1. ASSUME NEW step \in Steps, JobGoesOn(c, step) PROVE <1>2
    BY <2>1 DEF JobGoesOn
  <2>2. ASSUME NEW outcome \in Outcomes, JobEnds(c, outcome) PROVE <1>2
    BY <2>2 DEF JobEnds
  <2>3. ASSUME NEW outcome \in Outcomes, NEW step \in Steps, JobSkips(c, outcome, step) PROVE <1>2
    BY <2>3 DEF JobSkips
  <2> QED BY <2>1, <2>2, <2>3 DEF JobMoves
<1>3. \A r \in Runs : InTable(r)' => InTable(r)
  BY <1>1 DEF InTable, Settled
<1>4. \A d \in Cycles, r \in Runs : Others(d, r) => Others(d, r)'
  BY <1>2, CycleOfAssumption DEF Others
<1>5. ASSUME Clean, host[c] \in servers, NEW r \in Runs, InTable(r)
      PROVE  r \in Rows(host[c])
  <2>1. servers = {host[c]}
    BY <1>5 DEF Single, Clean
  <2> QED BY <1>5, <2>1 DEF InTable, Lost, Rows
<1>6. ASSUME NEW d \in Cycles, Clean', at'[d] = "verdict", NEW r \in Runs, InTable(r)
      PROVE  phase[r] = "over" \/ r \in revived \/ Others(d, r)'
  <2>1. CASE d # c
    BY <1>1, <1>2, <1>4, <1>6, <2>1 DEF Quiet
  <2>2. CASE d = c
    <3>1. r \notin Active(host[c]) /\ r \in Rows(host[c])
      BY <1>1, <1>2, <1>5, <1>6, <2>2
    <3>2. phase[r] \notin {"absent", "waiting", "active"}
      BY <1>6, <3>1 DEF Active, InTable
    <3> QED BY <3>2 DEF TypeOK
  <2> QED BY <2>1, <2>2
<1>7. ASSUME NEW d \in Cycles, Clean', at'[d] \in {"destroy", "destroying"},
             verdict'[d] = "green", NEW r \in Runs, InTable(r)
      PROVE  (phase[r] = "over" /\ result[r]) \/ r \in revived \/ Others(d, r)'
  <2>1. CASE d # c
    BY <1>1, <1>2, <1>4, <1>7, <2>1 DEF Quiet
  <2>2. CASE d = c
    <3>1. at[c] = "verdict" /\ Failed(host[c]) = {} /\ r \in Rows(host[c])
      BY <1>1, <1>2, <1>5, <1>7, <2>2
    <3>2. phase[r] = "over" \/ r \in revived \/ Others(c, r)
      BY <1>1, <1>7, <3>1 DEF Quiet
    <3>3. phase[r] = "over" => result[r]
      BY <3>1 DEF Failed
    <3> QED BY <1>4, <2>2, <3>2, <3>3
  <2> QED BY <2>1, <2>2
<1> QED BY <1>1, <1>3, <1>6, <1>7 DEF Quiet

LEMMA QuietSubmit ==
    ASSUME TypeOK, Quiet, Settled, NEW c \in Cycles, SubmitRuns(c)
    PROVE  Quiet'
<1>1. /\ at[c] = "submit" /\ at' = [at EXCEPT ![c] = "wait"]
      /\ UNCHANGED <<result, revived, verdict>> /\ (Clean' => Clean)
      /\ \A r \in Runs : phase'[r] = phase[r] \/ (CycleOf[r] = c /\ phase[r] = "absent")
  BY SubmitFacts DEF Clean, Trusted
<1>2. at'[c] = "wait" /\ \A d \in Cycles \ {c} : at'[d] = at[d]
  BY <1>1 DEF TypeOK
<1>3. \A d \in Cycles, r \in Runs : Others(d, r) => Others(d, r)'
  BY <1>1, <1>2, CycleOfAssumption DEF Others
<1>4. ASSUME NEW d \in Cycles \ {c}, NEW r \in Runs, InTable(r)'
      PROVE  \/ InTable(r) /\ phase'[r] = phase[r]
             \/ Others(d, r)'
  <2>1. CASE phase'[r] = phase[r]
    BY <1>4, <2>1 DEF InTable, Settled
  <2>2. CASE CycleOf[r] = c /\ phase[r] = "absent"
    BY <1>2, <2>2 DEF Others
  <2> QED BY <1>1, <2>1, <2>2
<1> QED BY <1>1, <1>2, <1>3, <1>4 DEF Quiet

LEMMA QuietRun ==
    ASSUME TypeOK, Quiet, NEW r \in Runs, RunMoves(r)
    PROVE  Quiet'
<1>1. /\ InTable(r)
      /\ \A q \in Runs \ {r} : phase'[q] = phase[q] /\ result'[q] = result[q]
      /\ phase'[r] # "absent"
      /\ result[r] => result'[r]
      /\ phase[r] = "over" /\ phase'[r] # "over" => r \in revived' /\ ~result[r]
      /\ revived \subseteq revived'
      /\ UNCHANGED <<host, servers, at, verdict, broken, overlapped, cutOff>>
  BY RunMovesFacts DEF stateVars, serverVars, jobVars
<1>2. \A q \in Runs : InTable(q)' => InTable(q)
  BY <1>1 DEF InTable, Lost, Home
<1>3. \A d \in Cycles, q \in Runs : Others(d, q) => Others(d, q)'
  BY <1>1 DEF Others
<1>4. \A q \in Runs : phase[q] = "over" => phase'[q] = "over" \/ q \in revived'
  BY <1>1
<1>5. \A q \in Runs : phase[q] = "over" /\ result[q] => phase'[q] = "over" /\ result'[q]
  BY <1>1
<1>6. (Clean' => Clean) /\ \A q \in Runs : q \in revived => q \in revived'
  BY <1>1 DEF Clean, Trusted
<1> QED BY <1>1, <1>2, <1>3, <1>4, <1>5, <1>6 DEF Quiet

LEMMA QuietNext == TypeOK /\ Placed /\ Single /\ NotYet /\ Quiet /\ [Next]_vars => Quiet'
<1> SUFFICES ASSUME TypeOK, Placed, Single, NotYet, Quiet, [Next]_vars PROVE Quiet'
  OBVIOUS
<1>1. Settled
  BY RowsSettled
<1>2. ASSUME NEW c \in Cycles, Bench(c), ~SubmitRuns(c) PROVE Quiet'
  BY <1>1, <1>2, BenchFacts, QuietJob
<1>3. ASSUME NEW c \in Cycles, TearDown(c) PROVE Quiet'
  <2>1. CASE broken' BY <2>1 DEF Quiet, Clean
  <2>2. CASE ReadState(c, "destroying") /\ UNCHANGED broken
    <3>1. /\ at[c] = "destroy" /\ at' = [at EXCEPT ![c] = "destroying"]
          /\ UNCHANGED <<phase, result, revived, verdict>> /\ (Clean' => Clean)
      BY <1>3, <2>2, TearDownFacts, ReadFacts DEF Clean, Trusted
    <3> QED BY <1>1, <3>1, QuietKept
  <2> QED BY <1>3, <2>1, <2>2, TearDownFacts
<1>4. ASSUME NEW c \in Cycles, TornDown(c) PROVE Quiet'
  <2> SUFFICES ASSUME Clean' PROVE Quiet'
    BY DEF Quiet
  <2>1. servers' = {}
    BY <1>4, CleanTornDown
  <2> QED BY <2>1 DEF Quiet, InTable, Lost
<1>5. ASSUME NEW c \in Cycles, Later(c) PROVE Quiet'
  <2>1. UNCHANGED <<phase, result, revived, verdict>> /\ (Clean' => Clean)
    BY <1>5, LaterFacts DEF Clean, Trusted
  <2>2. \E step \in {"reap", "remove", "cleanup", "done"} :
           at[c] \in {"list", "reap", "remove", "cleanup"} /\ at' = [at EXCEPT ![c] = step]
    BY <1>5, LaterFacts
  <2> QED BY <1>1, <2>1, <2>2, QuietKept
<1>6. CASE \E v \in Cycles : Boot(v) \/ ProcessCrash(v)
  <2>1. UNCHANGED <<phase, result, revived, verdict, at>> /\ (Clean' => Clean)
    BY <1>6, ServerFacts DEF Clean, Trusted
  <2> QED BY <1>1, <2>1, QuietKept
<1>7. CASE \E r \in Runs : FleetMoves(r)
  <2>1. UNCHANGED <<phase, result, revived, verdict, at>> /\ (Clean' => Clean)
    BY <1>7, FleetMovesFacts DEF jobVars, historyVars, Clean, Trusted
  <2> QED BY <1>1, <2>1, QuietKept
<1>8. CASE UNCHANGED vars
  <2>1. UNCHANGED <<phase, result, revived, verdict, at>> /\ (Clean' => Clean)
    BY <1>8 DEF vars, runVars, jobVars, historyVars, Clean, Trusted
  <2> QED BY <1>1, <2>1, QuietKept
<1> QED BY <1>1, <1>2, <1>3, <1>4, <1>5, <1>6, <1>7, <1>8, QuietSubmit, QuietRun, NextCases

\* The teardown of a green cycle, alone by then, cuts off no apply, but those of
\* runs that were given up and came back.
THEOREM GreenTeardownIsQuietHolds == Spec => []GreenTeardownIsQuiet
<1>1. Init => Working /\ Quiet
  BY DEF Init, Working, Quiet, Fleet!FleetInit
<1>2. TypeOK /\ Working /\ Quiet => GreenTeardownIsQuiet
  <2> SUFFICES ASSUME TypeOK, Working, Quiet, NEW c \in Cycles,
                      verdict[c] = "green", at[c] \in {"destroy", "destroying"},
                      ~broken, ~cutOff, ~overlapped,
                      \A d \in Cycles \ {c} : ~UnderWay(d),
                      NEW r \in applying
               PROVE  r \in revived
    BY DEF GreenTeardownIsQuiet
  <2>1. r \in Runs /\ InTable(r) /\ ~result[r] /\ Clean
    BY DEF Working, Clean, Trusted, TypeOK
  <2>2. ~Others(c, r)
    <3>1. CycleOf[r] \in Cycles
      BY <2>1, CycleOfAssumption
    <3> QED BY <3>1 DEF Others, UnderWay
  <2> QED BY <2>1, <2>2 DEF Quiet
<1>3. Ledger => NotYet
  BY DEF Ledger
<1> QED
  BY <1>1, <1>2, <1>3, TypeInit, TypeNext, PlaceInit, PlacedNext, SingleNext, LedgerInit,
     LedgerNext, WorkingNext, QuietNext, PTL
  DEF Spec

===============================================================================
