--------------------------- MODULE RefinementProofs ---------------------------
(***************************************************************************)
(* Orchestrator implements RunLifecycle, for every value of its constants. *)
(***************************************************************************)
EXTENDS OrchestratorProofs

\* The tuple of the requests in flight names two variables: expand it everywhere.
USE DEF requestVars

-----------------------------------------------------------------------------
(***************************************************************************)
(* A run without a row has no request and no release.  The mapping needs   *)
(* it: set_failed on a run that was never submitted would be no step of    *)
(* RunLifecycle.                                                           *)
(***************************************************************************)

Untouched(r) ==
    status[r] = "none" => /\ failing[r] = 0
                          /\ \A v \in Vms : handler[r][v] = "idle"
                          /\ \A k \in Origins : rel[k][r] = "idle"

Fresh == \A r \in Runs : Untouched(r)

\* Steps that start no task or request for a run without a row.
LEMMA UntouchedStep ==
    ASSUME NEW q \in Runs, Untouched(q),
           status'[q] = "none" => status[q] = "none",
           status[q] = "none" => /\ handler'[q] = handler[q] /\ failing'[q] = failing[q]
                                 /\ \A k \in Origins : rel'[k][q] = rel[k][q]
    PROVE  Untouched(q)'
  BY DEF Untouched

\* No transaction takes the row of a run away.
LEMMA RowsStay ==
    ASSUME TypeOK, NEW r \in Runs, NEW s, NEW S, NEW q \in Runs,
           \/ UNCHANGED runVars
           \/ CreateRun(r) \/ SetFailed(r) \/ CompleteRun(r) \/ Expire(r)
           \/ RequeueForRetry(r) \/ SetRunning(r)
           \/ ClaimTimedOut(s) \/ ClaimQueued(S)
    PROVE  status'[q] = "none" => status[q] = "none"
<1> USE DEF TypeOK, RunTableTypeOK
<1>1. CASE UNCHANGED runVars BY <1>1 DEF runVars
<1>2. CASE CreateRun(r) BY <1>2 DEF CreateRun
<1>3. CASE SetFailed(r) BY <1>3 DEF SetFailed
<1>4. CASE CompleteRun(r) BY <1>4 DEF CompleteRun
<1>5. CASE Expire(r) BY <1>5 DEF Expire
<1>6. CASE RequeueForRetry(r) BY <1>6 DEF RequeueForRetry
<1>7. CASE SetRunning(r) BY <1>7 DEF SetRunning
<1>8. CASE ClaimTimedOut(s) BY <1>8 DEF ClaimTimedOut
<1>9. CASE ClaimQueued(S) BY <1>9 DEF ClaimQueued
<1> QED BY <1>1, <1>2, <1>3, <1>4, <1>5, <1>6, <1>7, <1>8, <1>9

LEMMA StartReleaseSpares ==
    ASSUME TypeOK, NEW k \in Origins, NEW S, NEW q \in Runs, q \notin S,
           StartRelease(k, S)
    PROVE  \A j \in Origins : rel'[j][q] = rel[j][q]
  BY DEF TypeOK, StartRelease

LEMMA ReleaseFresh ==
    ASSUME TypeOK, Fresh, NEW r \in Runs, Release(r)
    PROVE  Fresh'
<1> SUFFICES ASSUME NEW q \in Runs PROVE Untouched(q)'
  BY DEF Fresh
<1>1. UNCHANGED <<handler, failing>>
  BY DEF Release, RelDestroy, RelForget, RelDown, RelMarkFailed, OrphanRequeue
<1>2. UNCHANGED runVars \/ SetFailed(r) \/ RequeueForRetry(r)
  BY DEF Release, RelDestroy, RelForget, RelDown, RelMarkFailed, OrphanRequeue
<1>3. status'[q] = "none" => status[q] = "none"
  BY <1>2, RowsStay
<1>4. \E k \in Origins : rel[k][r] # "idle" /\ \E t : rel' = [rel EXCEPT ![k][r] = t]
  <2>1. ASSUME NEW k \in Origins, RelDestroy(k, r) \/ RelForget(k, r) \/ RelDown(k, r)
        PROVE  rel[k][r] # "idle" /\ \E t : rel' = [rel EXCEPT ![k][r] = t]
    BY <2>1 DEF RelDestroy, RelForget, RelDown, RelGoto, RelReturns, RelAttemptFails
  <2>2. ASSUME NEW k \in Origins, RelMarkFailed(k, r)
        PROVE  rel[k][r] # "idle" /\ \E t : rel' = [rel EXCEPT ![k][r] = t]
    BY <2>2 DEF RelMarkFailed, RelGoto
  <2>3. ASSUME OrphanRequeue(r)
        PROVE  /\ "orphan" \in Origins /\ rel["orphan"][r] # "idle"
               /\ \E t : rel' = [rel EXCEPT !["orphan"][r] = t]
    BY <2>3 DEF OrphanRequeue, RelGoto, Origins
  <2> QED BY <2>1, <2>2, <2>3 DEF Release
<1>5. status[r] # "none" /\ (q # r => \A k \in Origins : rel'[k][q] = rel[k][q])
  BY <1>4 DEF Fresh, Untouched, TypeOK
<1> QED BY <1>1, <1>3, <1>5, UntouchedStep DEF Fresh

LEMMA ProvisionFresh ==
    ASSUME TypeOK, Fresh, NEW r \in Runs, Provision(r)
    PROVE  Fresh'
<1>1. UNCHANGED <<handler, failing, rel>>
  BY DEF Provision, ProvNode, ProvStage, ProvApply, ProvOutput, ProvBusy, ProvRunning,
         ProvSafeDestroy, ProvSafeForget, ProvRequeue, TailDown, ProvDown, ProvFail,
         ProvGoto
<1>2. UNCHANGED runVars \/ SetFailed(r) \/ RequeueForRetry(r) \/ SetRunning(r)
  BY DEF Provision, ProvNode, ProvStage, ProvApply, ProvOutput, ProvBusy, ProvRunning,
         ProvSafeDestroy, ProvSafeForget, ProvRequeue, TailDown, ProvDown, ProvFail
<1>3. \A q \in Runs : status'[q] = "none" => status[q] = "none"
  BY <1>2, RowsStay
<1> QED BY <1>1, <1>3, UntouchedStep DEF Fresh

LEMMA RequestsFresh ==
    ASSUME TypeOK, Fresh, NEW r \in Runs, Requests(r)
    PROVE  Fresh'
<1> SUFFICES ASSUME NEW q \in Runs PROVE Untouched(q)'
  BY DEF Fresh
<1>1. UNCHANGED runVars \/ CreateRun(r) \/ SetFailed(r) \/ CompleteRun(r)
  BY DEF Requests, Submit, PostComplete, PostFail, CompleteUpload, CompleteCommit,
         CompletePublish, FailCommit
<1>2. status'[q] = "none" => status[q] = "none"
  BY <1>1, RowsStay
<1>3. CASE Submit(r)
  BY <1>2, <1>3, UntouchedStep DEF Submit, taskVars, Fresh
<1>4. ASSUME NEW v \in Vms,
             PostComplete(r, v) \/ PostFail(r, v) \/ CompleteUpload(r, v)
             \/ CompleteCommit(r, v) \/ CompletePublish(r, v)
      PROVE  Untouched(q)'
  <2>1. /\ handler' = handler \/ \E h : handler' = [handler EXCEPT ![r][v] = h]
        /\ failing' = failing \/ \E n : failing' = [failing EXCEPT ![r] = n]
        /\ \/ rel' = rel
           \/ \E k \in Origins : StartRelease(k, {r})
    BY <1>4 DEF PostComplete, PostFail, CompleteUpload, CompleteCommit,
                CompletePublish, Respond, Origins
  <2>2. CASE q # r
    <3>1. handler'[q] = handler[q] /\ failing'[q] = failing[q]
      BY <2>1, <2>2 DEF TypeOK
    <3>2. \A k \in Origins : rel'[k][q] = rel[k][q]
      BY <2>1, <2>2, StartReleaseSpares
    <3> QED BY <1>2, <3>1, <3>2, UntouchedStep DEF Fresh
  <2>3. CASE q = r
    <3>1. CASE status[r] # "none"
      BY <1>2, <2>3, <3>1 DEF Untouched
    <3>2. CASE status[r] = "none"
      <4>1. handler[r][v] = "idle" /\ failing[r] = 0
        BY <3>2 DEF Fresh, Untouched
      <4>2. PostComplete(r, v) \/ PostFail(r, v)
        BY <1>4, <4>1 DEF CompleteUpload, CompleteCommit, CompletePublish
      <4>3. UNCHANGED <<handler, failing, rel>>
        BY <3>2, <4>1, <4>2 DEF PostComplete, PostFail, CanComplete, CanFail, TypeOK
      <4> QED BY <1>2, <4>3, UntouchedStep DEF Fresh
    <3> QED BY <3>1, <3>2
  <2> QED BY <2>2, <2>3
<1>5. CASE FailCommit(r)
  <2>1. status[r] # "none"
    BY <1>5 DEF FailCommit, Fresh, Untouched
  <2>2. CASE q # r
    <3>1. handler'[q] = handler[q] /\ failing'[q] = failing[q]
      BY <1>5, <2>2 DEF FailCommit, TypeOK
    <3>2. \A k \in Origins : rel'[k][q] = rel[k][q]
      BY <1>5, <2>2, StartReleaseSpares DEF FailCommit, Origins
    <3> QED BY <1>2, <3>1, <3>2, UntouchedStep DEF Fresh
  <2>3. CASE q = r
    BY <1>2, <2>1, <2>3 DEF Untouched
  <2> QED BY <2>2, <2>3
<1> QED BY <1>3, <1>4, <1>5 DEF Requests

LEMMA PollFresh ==
    ASSUME TypeOK, Fresh, Poll
    PROVE  Fresh'
<1> SUFFICES ASSUME NEW q \in Runs PROVE Untouched(q)'
  BY DEF Fresh
<1>1. \/ UNCHANGED runVars
      \/ \E s : ClaimTimedOut(s)
      \/ \E S : ClaimQueued(S)
  BY DEF Poll, RecoverLeaked, RecoverOrphans, PollCount, PollClaim, ReapProvisioning,
         ReapRunning
<1>2. status'[q] = "none" => status[q] = "none"
  BY <1>1, RowsStay
<1>3. UNCHANGED <<handler, failing>>
  BY DEF Poll, RecoverLeaked, RecoverOrphans, PollCount, PollClaim, ReapProvisioning,
         ReapRunning, taskVars
<1>4. UNCHANGED rel \/ \E k \in Origins : \E S :
        StartRelease(k, S) /\ \A r \in S : r \in Runs /\ status[r] # "none"
  BY DEF Poll, RecoverLeaked, RecoverOrphans, PollCount, PollClaim, ReapProvisioning,
         ReapRunning, taskVars, Leaked, Terminal, InProvisioning, TimedOut, Origins
<1>5. status[q] = "none" => \A k \in Origins : rel'[k][q] = rel[k][q]
  BY <1>4, StartReleaseSpares
<1> QED BY <1>2, <1>3, <1>5, UntouchedStep DEF Fresh

LEMMA NextFresh == TypeOK /\ Fresh /\ [Next]_vars => Fresh'
<1> SUFFICES ASSUME TypeOK, Fresh, [Next]_vars PROVE Fresh'
  OBVIOUS
<1>1. ASSUME NEW r \in Runs, Timeout(r) PROVE Fresh'
  BY <1>1, RowsStay, UntouchedStep DEF Timeout, taskVars, Fresh
<1>2. ASSUME NEW kept \in BOOLEAN, Crash(kept) PROVE Fresh'
  BY <1>2 DEF Crash, Fresh, Untouched, NoRequest, None, NoRelease, NoTask, runVars,
              Origins
<1>3. CASE UNCHANGED vars
  BY <1>3 DEF vars, runVars, taskVars, Fresh, Untouched
<1> QED BY <1>1, <1>2, <1>3, RequestsFresh, ProvisionFresh, ReleaseFresh, PollFresh
        DEF Next

LEMMA InitFresh == Init => Fresh
  BY DEF Init, Fresh, Untouched, NoRequest, None, NoRelease, NoTask

-----------------------------------------------------------------------------
(***************************************************************************)
(* The steps, one transaction of the run table at a time.                  *)
(***************************************************************************)

LifeStep == [Lifecycle!Next]_(Lifecycle!lifeVars)

PhaseOf == [r \in Runs |-> Phase(status[r])]

LEMMA PhaseValues ==
    ASSUME TypeOK, NEW r \in Runs
    PROVE  /\ status[r] = "none" <=> Phase(status[r]) = "absent"
           /\ status[r] = "queued" <=> Phase(status[r]) = "waiting"
           /\ status[r] \in {"provisioning", "running"} <=> Phase(status[r]) = "active"
           /\ status[r] \in {"done", "failed"} <=> Phase(status[r]) = "over"
  BY DEF TypeOK, RunTableTypeOK, RunStatus, Phase, Live, Terminal

\* A transaction that gives the runs of S the status s moves their phases.
LEMMA PhasesMove ==
    ASSUME TypeOK, NEW S, NEW s \in RunStatus,
           \A q \in Runs : status'[q] = IF q \in S THEN s ELSE status[q]
    PROVE  PhaseOf' = [q \in Runs |-> IF q \in S THEN Phase(s) ELSE PhaseOf[q]]
<1>1. \A q \in Runs : status[q] \in RunStatus \union {"none"}
  BY DEF TypeOK, RunTableTypeOK
<1>2. ASSUME NEW q \in Runs
      PROVE  PhaseOf'[q] = IF q \in S THEN Phase(s) ELSE PhaseOf[q]
  <2>1. CASE q \in S
    BY <2>1 DEF PhaseOf, Phase, RunStatus, Live, Terminal
  <2>2. CASE q \notin S
    BY <1>1, <2>2 DEF PhaseOf, Phase, RunStatus, Live, Terminal
  <2> QED BY <2>1, <2>2
<1>3. PhaseOf' = [q \in Runs |-> PhaseOf'[q]]
  BY DEF PhaseOf
<1> QED BY <1>2, <1>3

LEMMA PhaseOfStatus ==
    /\ Phase("queued") = "waiting"
    /\ Phase("provisioning") = "active" /\ Phase("running") = "active"
    /\ Phase("done") = "over" /\ Phase("failed") = "over"
  BY DEF Phase, Live, Terminal

\* The same for a transaction on a single run.
LEMMA OnePhase ==
    ASSUME TypeOK, NEW r \in Runs, NEW s \in RunStatus, status' = [status EXCEPT ![r] = s]
    PROVE  PhaseOf' = [PhaseOf EXCEPT ![r] = Phase(s)]
<1>1. \A q \in Runs : status'[q] = IF q \in {r} THEN s ELSE status[q]
  BY DEF TypeOK, RunTableTypeOK
<1>2. PhaseOf' = [q \in Runs |-> IF q \in {r} THEN Phase(s) ELSE PhaseOf[q]]
  BY <1>1, PhasesMove
<1> QED BY <1>2 DEF PhaseOf

LEMMA IdleStep ==
    ASSUME TypeOK, UNCHANGED <<status, attempts, resultRow>>
    PROVE  LifeStep
  BY DEF LifeStep, Lifecycle!lifeVars

LEMMA SubmitStep ==
    ASSUME TypeOK, NEW r \in Runs, CreateRun(r)
    PROVE  LifeStep
<1>1. PhaseOf' = [PhaseOf EXCEPT ![r] = "waiting"]
  BY OnePhase, PhaseOfStatus DEF CreateRun, RunStatus
<1>2. PhaseOf[r] = "absent"
  BY DEF CreateRun, PhaseOf, Phase, Live, Terminal
<1>3. Lifecycle!Enqueue(r)
  BY <1>1, <1>2 DEF Lifecycle!Enqueue, Lifecycle!Move, CreateRun, PhaseOf
<1> QED BY <1>3 DEF LifeStep, Lifecycle!Next

LEMMA FailStep ==
    ASSUME TypeOK, NEW r \in Runs, SetFailed(r), status[r] # "none"
    PROVE  LifeStep
<1>1. PhaseOf' = [PhaseOf EXCEPT ![r] = "over"]
  BY OnePhase, PhaseOfStatus DEF SetFailed, RunStatus
<1>2. PhaseOf[r] # "absent"
  BY PhaseValues DEF PhaseOf
<1>3. Lifecycle!GiveUp({r})
  BY <1>1, <1>2 DEF Lifecycle!GiveUp, SetFailed, PhaseOf
<1> QED BY <1>3 DEF LifeStep, Lifecycle!Next

LEMMA TimeoutStep ==
    ASSUME TypeOK, NEW s \in {"provisioning", "running"}, ClaimTimedOut(s)
    PROVE  LifeStep
<1>1. PhaseOf' = [q \in Runs |-> IF q \in TimedOut(s) THEN "over" ELSE PhaseOf[q]]
  BY PhasesMove, PhaseOfStatus DEF ClaimTimedOut, RunStatus
<1>2. \A q \in TimedOut(s) : PhaseOf[q] # "absent"
  BY PhaseValues DEF PhaseOf, TimedOut
<1>3. Lifecycle!GiveUp(TimedOut(s))
  BY <1>1, <1>2 DEF Lifecycle!GiveUp, ClaimTimedOut, PhaseOf
<1>4. TimedOut(s) \in SUBSET Runs
  BY DEF TimedOut
<1> QED BY <1>3, <1>4 DEF LifeStep, Lifecycle!Next

LEMMA ClaimStep ==
    ASSUME TypeOK, Handover, NEW g, NEW S \in SUBSET QueuedOf(g), ClaimQueued(S)
    PROVE  LifeStep
<1>1. PhaseOf' = [q \in Runs |-> IF q \in S THEN "active" ELSE PhaseOf[q]]
  BY PhasesMove, PhaseOfStatus DEF ClaimQueued, RunStatus
<1>2. \A q \in S : PhaseOf[q] = "waiting" /\ attempts[q] < MaxAttempts
  BY PhaseValues DEF PhaseOf, QueuedOf, Handover, HandedOver
<1>3. Lifecycle!Claim(S)
  BY <1>1, <1>2 DEF Lifecycle!Claim, ClaimQueued, PhaseOf
<1>4. S \in SUBSET Runs
  BY DEF QueuedOf
<1> QED BY <1>3, <1>4 DEF LifeStep, Lifecycle!Next

LEMMA DeliverStep ==
    ASSUME TypeOK, NEW r \in Runs, CompleteRun(r),
           status[r] \in {"running", "done", "failed"}
    PROVE  LifeStep
<1>1. PhaseOf' = [PhaseOf EXCEPT ![r] = "over"]
  BY OnePhase, PhaseOfStatus DEF CompleteRun, RunStatus
<1>2. PhaseOf[r] \in {"active", "over"}
  BY PhaseValues DEF PhaseOf
<1>3. Lifecycle!Deliver(r)
  BY <1>1, <1>2 DEF Lifecycle!Deliver, Lifecycle!Move, CompleteRun, PhaseOf
<1> QED BY <1>3 DEF LifeStep, Lifecycle!Next

LEMMA RunningStep ==
    ASSUME TypeOK, NEW r \in Runs, SetRunning(r), ~resultRow[r],
           status[r] \in {"provisioning", "failed"}
    PROVE  LifeStep
<1>1. PhaseOf' = [PhaseOf EXCEPT ![r] = "active"]
  BY OnePhase, PhaseOfStatus DEF SetRunning, RunStatus
<1>2. CASE status[r] = "failed"
  <2>1. PhaseOf[r] = "over"
    BY <1>2, PhaseValues DEF PhaseOf
  <2>2. Lifecycle!Revive(r)
    BY <1>1, <2>1 DEF Lifecycle!Revive, Lifecycle!Move, SetRunning, PhaseOf
  <2> QED BY <2>2 DEF LifeStep, Lifecycle!Next
<1>3. CASE status[r] = "provisioning"
  <2>1. PhaseOf[r] = "active"
    BY <1>3, PhaseValues DEF PhaseOf
  <2>2. PhaseOf' = PhaseOf
    BY <1>1, <2>1 DEF PhaseOf
  <2> QED BY <2>2 DEF LifeStep, Lifecycle!lifeVars, SetRunning, PhaseOf
<1> QED BY <1>2, <1>3

LEMMA RequeueStep ==
    ASSUME TypeOK, NEW r \in Runs, RequeueForRetry(r), ~resultRow[r],
           status[r] \in {"provisioning", "failed"}
    PROVE  LifeStep
<1>1. PhaseOf[r] \in {"active", "over"}
  BY PhaseValues DEF PhaseOf
<1>2. /\ attempts' = [attempts EXCEPT ![r] = @ + 1]
      /\ UNCHANGED resultRow
      /\ attempts[r] \in Nat
  BY DEF RequeueForRetry, TypeOK, RunTableTypeOK
<1>3. CASE BudgetSpent(r)
  <2>1. PhaseOf' = PhaseOf
    BY <1>3 DEF RequeueForRetry, PhaseOf, TypeOK, RunTableTypeOK
  <2>2. Lifecycle!LastTry(r)
    BY <1>1, <1>2, <2>1 DEF Lifecycle!LastTry, PhaseOf
  <2> QED BY <2>2 DEF LifeStep, Lifecycle!Next
<1>4. CASE ~BudgetSpent(r)
  <2>1. status' = [status EXCEPT ![r] = "queued"]
    BY <1>4 DEF RequeueForRetry
  <2>2. PhaseOf' = [PhaseOf EXCEPT ![r] = "waiting"]
    BY <2>1, OnePhase, PhaseOfStatus DEF RunStatus
  <2>3. attempts[r] + 1 < MaxAttempts
    BY <1>2, <1>4, MaxAttemptsAssumption DEF BudgetSpent
  <2>4. Lifecycle!Retry(r)
    BY <1>1, <1>2, <2>2, <2>3 DEF Lifecycle!Retry, Lifecycle!Move, PhaseOf
  <2> QED BY <2>4 DEF LifeStep, Lifecycle!Next
<1> QED BY <1>3, <1>4

-----------------------------------------------------------------------------
(***************************************************************************)
(* The steps of the orchestrator.                                          *)
(***************************************************************************)

LEMMA RequestsRefine ==
    ASSUME TypeOK, Handover, Fresh, NEW r \in Runs, Requests(r)
    PROVE  LifeStep
<1>1. CASE Submit(r)
  BY <1>1, SubmitStep DEF Submit
<1>2. ASSUME NEW v \in Vms, CompleteCommit(r, v) PROVE LifeStep
  <2>1. status[r] \in {"running", "done", "failed"}
    BY <1>2 DEF CompleteCommit, Handover, HandedOver, Completing
  <2> QED BY <1>2, <2>1, DeliverStep, IdleStep DEF CompleteCommit, runVars
<1>3. CASE FailCommit(r)
  <2>1. status[r] # "none"
    BY <1>3 DEF FailCommit, Fresh, Untouched
  <2> QED BY <1>3, <2>1, FailStep DEF FailCommit
<1>4. ASSUME NEW v \in Vms,
             PostComplete(r, v) \/ PostFail(r, v) \/ CompleteUpload(r, v)
             \/ CompletePublish(r, v)
      PROVE  LifeStep
  BY <1>4, IdleStep DEF PostComplete, PostFail, CompleteUpload, CompletePublish, runVars
<1> QED BY <1>1, <1>2, <1>3, <1>4 DEF Requests

LEMMA ProvisionRefines ==
    ASSUME TypeOK, Handover, NEW r \in Runs, Provision(r)
    PROVE  LifeStep
<1>1. Provisioner(r) => /\ status[r] \in {"provisioning", "failed"}
                        /\ ~resultRow[r]
  BY DEF Handover, HandedOver, NobodyMoves, TypeOK, RunTableTypeOK, RunStatus
<1>2. CASE ProvRunning(r)
  BY <1>1, <1>2, RunningStep DEF ProvRunning, Provisioner
<1>3. CASE ProvRequeue(r)
  BY <1>1, <1>3, RequeueStep DEF ProvRequeue, Provisioner
<1>4. CASE ProvFail(r)
  BY <1>1, <1>4, FailStep DEF ProvFail, Provisioner
<1> QED BY <1>2, <1>3, <1>4, IdleStep
        DEF Provision, ProvNode, ProvStage, ProvApply, ProvOutput, ProvBusy,
            ProvSafeDestroy, ProvSafeForget, TailDown, ProvDown, runVars

LEMMA ReleaseRefines ==
    ASSUME TypeOK, Handover, Fresh, NEW r \in Runs, Release(r)
    PROVE  LifeStep
<1>1. CASE OrphanRequeue(r)
  <2>1. /\ status[r] \in {"provisioning", "failed"}
        /\ ~resultRow[r]
    BY <1>1 DEF OrphanRequeue, Recovery, Handover, HandedOver, NobodyMoves, TypeOK,
                RunTableTypeOK, RunStatus
  <2> QED BY <1>1, <2>1, RequeueStep DEF OrphanRequeue
<1>2. ASSUME NEW k \in Origins, RelMarkFailed(k, r) PROVE LifeStep
  <2>1. status[r] # "none"
    BY <1>2 DEF RelMarkFailed, Fresh, Untouched
  <2> QED BY <1>2, <2>1, FailStep DEF RelMarkFailed
<1> QED BY <1>1, <1>2, IdleStep
        DEF Release, RelDestroy, RelForget, RelDown, runVars

LEMMA PollRefines ==
    ASSUME TypeOK, Handover, Poll
    PROVE  LifeStep
<1>1. ASSUME NEW g \in GpuTypes, PollClaim(g) PROVE LifeStep
  BY <1>1, ClaimStep DEF PollClaim, ClaimSets
<1>2. CASE ReapProvisioning \/ ReapRunning
  BY <1>2, TimeoutStep DEF ReapProvisioning, ReapRunning
<1>3. CASE RecoverLeaked \/ RecoverOrphans \/ PollCount
  BY <1>3, IdleStep DEF RecoverLeaked, RecoverOrphans, PollCount, runVars
<1> QED BY <1>1, <1>2, <1>3 DEF Poll

LEMMA NextRefines == TypeOK /\ Handover /\ Fresh /\ [Next]_vars => LifeStep
<1> SUFFICES ASSUME TypeOK, Handover, Fresh, [Next]_vars PROVE LifeStep
  OBVIOUS
<1>1. ASSUME NEW r \in Runs, Timeout(r) PROVE LifeStep
  BY <1>1, IdleStep DEF Timeout, Expire
<1>2. ASSUME NEW kept \in BOOLEAN, Crash(kept) PROVE LifeStep
  BY <1>2, IdleStep DEF Crash, runVars
<1>3. CASE UNCHANGED vars
  BY <1>3, IdleStep DEF vars, runVars
<1> QED BY <1>1, <1>2, <1>3, RequestsRefine, ProvisionRefines, ReleaseRefines,
           PollRefines
        DEF Next

LEMMA InitRefines == Init => Lifecycle!Init
  BY DEF Init, RunTableInit, Lifecycle!Init, Phase, Live, Terminal

\* A client that only polls a run sees RunLifecycle, whatever the tasks, the
\* watchdogs, the runners and the crashes do behind it: in particular one
\* result at most, for good, and no more attempts than the budget.
THEOREM LifecycleImplemented == Spec => ImplementsLifecycle
<1>1. Spec => []Fresh
  BY TypeCorrect, InitFresh, NextFresh, PTL DEF Spec
<1>2. Spec => [][Lifecycle!Next]_(Lifecycle!lifeVars)
  BY TypeCorrect, HandoverHolds, <1>1, NextRefines, PTL DEF Spec, LifeStep
<1> QED BY <1>2, InitRefines, PTL DEF Spec, ImplementsLifecycle, Lifecycle!Spec
===============================================================================
