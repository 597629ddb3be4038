-------------------------- MODULE OrchestratorProofs --------------------------
(***************************************************************************)
(* Theorems about Orchestrator for every value of its constants.           *)
(***************************************************************************)
EXTENDS Orchestrator, FiniteSetTheorems, TLAPS

\* The tuple of the requests in flight names two variables: expand it everywhere.
USE DEF requestVars

-----------------------------------------------------------------------------
(***************************************************************************)
(* Type correctness.  One lemma per group of actions, one step per action. *)
(***************************************************************************)

LEMMA StartReleaseType ==
    ASSUME TypeOK, NEW k \in Origins, NEW S, StartRelease(k, S)
    PROVE  rel' \in [Origins -> [Runs -> RelSteps]]
  BY DEF TypeOK, StartRelease, RelSteps

LEMMA RelMovesType ==
    ASSUME TypeOK, NEW k \in Origins, NEW r \in Runs,
           \/ \E step \in RelSteps : RelGoto(k, r, step)
           \/ RelReturns(k, r)
           \/ RelAttemptFails(k, r)
    PROVE  /\ rel' \in [Origins -> [Runs -> RelSteps]]
           /\ tries' \in [Origins -> [Runs -> 0 .. ReleaseTries - 1]]
<1> DEFINE Tries == 0 .. ReleaseTries - 1
<1>1. ASSUME NEW step \in RelSteps
      PROVE  [rel EXCEPT ![k][r] = step] \in [Origins -> [Runs -> RelSteps]]
  BY <1>1 DEF TypeOK
<1>2. ASSUME NEW n \in Tries
      PROVE  [tries EXCEPT ![k][r] = n] \in [Origins -> [Runs -> Tries]]
  BY <1>2 DEF TypeOK
<1>3. 0 \in Tries /\ tries[k][r] \in Tries
  BY ReleaseTriesAssumption DEF TypeOK
<1>4. tries[k][r] + 1 < ReleaseTries => tries[k][r] + 1 \in Tries
  BY <1>3, ReleaseTriesAssumption
<1>5. "destroy" \in RelSteps /\ AfterRelease(k) \in RelSteps
  BY DEF AfterRelease, RelSteps
<1>6. tries \in [Origins -> [Runs -> Tries]]
  BY DEF TypeOK
<1> HIDE DEF Tries
<1>7. RelReturns(k, r) =>
        /\ rel' \in [Origins -> [Runs -> RelSteps]]
        /\ tries' \in [Origins -> [Runs -> Tries]]
  BY <1>1, <1>2, <1>3, <1>5 DEF RelReturns
<1>8. RelAttemptFails(k, r) =>
        /\ rel' \in [Origins -> [Runs -> RelSteps]]
        /\ tries' \in [Origins -> [Runs -> Tries]]
  BY <1>1, <1>2, <1>4, <1>5, <1>7 DEF RelAttemptFails
<1>9. (\E step \in RelSteps : RelGoto(k, r, step)) =>
        /\ rel' \in [Origins -> [Runs -> RelSteps]]
        /\ tries' \in [Origins -> [Runs -> Tries]]
  BY <1>1, <1>6 DEF RelGoto
<1> QED BY <1>7, <1>8, <1>9 DEF Tries

LEMMA ForgetStateType ==
    ASSUME GpuCloudTypeOK, NEW r \in Runs, NEW gone \in BOOLEAN, ForgetState(r, gone)
    PROVE  GpuCloudTypeOK'
  BY DEF GpuCloudTypeOK, ForgetState

LEMMA DestroyTrackedType ==
    ASSUME GpuCloudTypeOK, NEW r \in Runs, DestroyTracked(r)
    PROVE  GpuCloudTypeOK'
  BY DEF GpuCloudTypeOK, DestroyTracked, RunnerStates

LEMMA SetDownType ==
    ASSUME NodeTableTypeOK, NEW r \in Runs, SetDownByRun(r)
    PROVE  NodeTableTypeOK'
  BY DEF NodeTableTypeOK, SetDownByRun

LEMMA RunTransactionType ==
    ASSUME RunTableTypeOK, NEW r \in Runs,
           \/ CreateRun(r) \/ SetRunning(r) \/ SetFailed(r) \/ CompleteRun(r)
           \/ RequeueForRetry(r) \/ Expire(r)
    PROVE  RunTableTypeOK'
<1>1. CASE CreateRun(r) BY <1>1 DEF RunTableTypeOK, CreateRun, RunStatus
<1>2. CASE SetRunning(r) BY <1>2 DEF RunTableTypeOK, SetRunning, RunStatus
<1>3. CASE SetFailed(r) BY <1>3 DEF RunTableTypeOK, SetFailed, RunStatus
<1>4. CASE CompleteRun(r) BY <1>4 DEF RunTableTypeOK, CompleteRun, RunStatus
<1>5. CASE RequeueForRetry(r) BY <1>5 DEF RunTableTypeOK, RequeueForRetry, RunStatus
<1>6. CASE Expire(r) BY <1>6 DEF RunTableTypeOK, Expire
<1> QED BY <1>1, <1>2, <1>3, <1>4, <1>5, <1>6

LEMMA RunSweepType ==
    ASSUME RunTableTypeOK, NEW S, NEW s, ClaimQueued(S) \/ ClaimTimedOut(s)
    PROVE  RunTableTypeOK'
  BY DEF RunTableTypeOK, ClaimQueued, ClaimTimedOut, RunStatus

LEMMA ReleaseType ==
    ASSUME TypeOK, NEW r \in Runs, Release(r)
    PROVE  TypeOK'
<1>1. ASSUME NEW k \in Origins, RelDestroy(k, r) PROVE TypeOK'
  BY <1>1, RelMovesType, DestroyTrackedType
     DEF TypeOK, RelDestroy, RelSteps, runVars, nodeVars, cloudVars, pollVars,
         RunTableTypeOK, NodeTableTypeOK, GpuCloudTypeOK
<1>2. ASSUME NEW k \in Origins, RelForget(k, r) PROVE TypeOK'
  BY <1>2, RelMovesType, ForgetStateType
     DEF TypeOK, RelForget, RelSteps, runVars, nodeVars, pollVars,
         RunTableTypeOK, NodeTableTypeOK
<1>3. ASSUME NEW k \in Origins, RelDown(k, r) PROVE TypeOK'
  BY <1>3, RelMovesType, SetDownType
     DEF TypeOK, RelDown, RelSteps, runVars, nodeVars, cloudVars, pollVars,
         RunTableTypeOK, NodeTableTypeOK, GpuCloudTypeOK
<1>4. ASSUME NEW k \in Origins, RelMarkFailed(k, r) PROVE TypeOK'
  BY <1>4, RelMovesType, RunTransactionType
     DEF TypeOK, RelMarkFailed, RelSteps, nodeVars, cloudVars, pollVars,
         NodeTableTypeOK, GpuCloudTypeOK
<1>5. CASE OrphanRequeue(r)
  BY <1>5, RelMovesType, RunTransactionType
     DEF TypeOK, OrphanRequeue, Origins, RelSteps, nodeVars, cloudVars, pollVars,
         NodeTableTypeOK, GpuCloudTypeOK
<1> QED BY <1>1, <1>2, <1>3, <1>4, <1>5 DEF Release

LEMMA ProvGotoType ==
    ASSUME TypeOK, NEW r \in Runs, NEW step \in ProvSteps, ProvGoto(r, step)
    PROVE  /\ prov' \in [Runs -> ProvSteps]
           /\ tail' \in [Runs -> Nat] /\ failing' \in [Runs -> Nat]
           /\ handler' \in [Runs -> [Vms -> HandlerSteps]]
           /\ rel' \in [Origins -> [Runs -> RelSteps]]
           /\ tries' \in [Origins -> [Runs -> 0 .. ReleaseTries - 1]]
  BY DEF TypeOK, ProvGoto

LEMMA ApplyType ==
    ASSUME GpuCloudTypeOK, NEW r \in Runs, NEW U,
           CreateStopped(r, U) \/ Start(r, U)
    PROVE  GpuCloudTypeOK'
<1>1. ASSUME NEW v \in VmFor(r, U) PROVE v \in Vms
  BY <1>1 DEF VmFor, GpuCloudTypeOK
<1>2. CASE CreateStopped(r, U)
  <2>1. PICK v \in VmFor(r, U) : Record(r, v)
    BY <1>2 DEF CreateStopped
  <2> QED BY <1>1, <1>2, <2>1 DEF GpuCloudTypeOK, CreateStopped, Record
<1>3. CASE Start(r, U)
  <2>1. PICK v \in VmFor(r, U) :
          /\ Record(r, v)
          /\ runner' = [runner EXCEPT ![r][v] = IF @ = "unbooted" THEN "work" ELSE @]
    BY <1>3 DEF Start
  <2>2. v \in Vms
    BY <1>1
  <2>3. (IF runner[r][v] = "unbooted" THEN "work" ELSE runner[r][v]) \in RunnerStates
    BY <2>2 DEF GpuCloudTypeOK, RunnerStates
  <2>4. runner' \in [Runs -> [Vms -> RunnerStates]]
    BY <2>1, <2>2, <2>3 DEF GpuCloudTypeOK
  <2> QED BY <2>1, <2>2, <2>4 DEF GpuCloudTypeOK, Record
<1> QED BY <1>2, <1>3

LEMMA ProvisionType ==
    ASSUME TypeOK, NEW r \in Runs, Provision(r)
    PROVE  TypeOK'
<1> USE DEF TypeOK, ProvSteps, pollVars
<1>1. CASE ProvNode(r)
  BY <1>1, ProvGotoType
     DEF ProvNode, CreateProvisioning, runVars, cloudVars, RunTableTypeOK,
         NodeTableTypeOK, GpuCloudTypeOK
<1>2. CASE ProvStage(r)
  BY <1>2, ProvGotoType
     DEF ProvStage, StageWorkspace, runVars, nodeVars, RunTableTypeOK,
         NodeTableTypeOK, GpuCloudTypeOK
<1>3. CASE ProvApply(r)
  <2>1. GpuCloudTypeOK'
    <3>1. CASE UNCHANGED cloudVars
      BY <3>1 DEF cloudVars, GpuCloudTypeOK
    <3>2. CASE CreateStopped(r, Answering(r)) \/ Start(r, Answering(r))
      BY <3>2, ApplyType
    <3> QED BY <1>3, <3>1, <3>2 DEF ProvApply, ApplyLacksCapacity, ApplyErrs
  <2>2. \E step \in ProvSteps : ProvGoto(r, step)
    BY <1>3 DEF ProvApply
  <2> QED BY <1>3, <2>1, <2>2, ProvGotoType
          DEF ProvApply, runVars, nodeVars, RunTableTypeOK, NodeTableTypeOK
<1>4. CASE ProvOutput(r)
  BY <1>4, ProvGotoType
     DEF ProvOutput, runVars, nodeVars, cloudVars, RunTableTypeOK,
         NodeTableTypeOK, GpuCloudTypeOK
<1>5. CASE ProvBusy(r)
  BY <1>5, ProvGotoType
     DEF ProvBusy, SetBusy, runVars, nodeVars, cloudVars, RunTableTypeOK,
         NodeTableTypeOK, GpuCloudTypeOK
<1>6. CASE ProvRunning(r)
  BY <1>6, ProvGotoType, RunTransactionType
     DEF ProvRunning, nodeVars, cloudVars, NodeTableTypeOK, GpuCloudTypeOK
<1>7. CASE ProvSafeDestroy(r)
  <2>1. GpuCloudTypeOK'
    BY <1>7, DestroyTrackedType DEF ProvSafeDestroy, cloudVars, GpuCloudTypeOK
  <2>2. \E step \in ProvSteps : ProvGoto(r, step)
    BY <1>7 DEF ProvSafeDestroy
  <2> QED BY <1>7, <2>1, <2>2, ProvGotoType
          DEF ProvSafeDestroy, runVars, nodeVars, RunTableTypeOK, NodeTableTypeOK
<1>8. CASE ProvSafeForget(r)
  BY <1>8, ProvGotoType, ForgetStateType
     DEF ProvSafeForget, runVars, nodeVars, RunTableTypeOK, NodeTableTypeOK
<1>9. CASE ProvRequeue(r)
  <2>1. tail' \in [Runs -> Nat]
    BY <1>9 DEF ProvRequeue
  <2> QED BY <1>9, <2>1, RunTransactionType
          DEF ProvRequeue, nodeVars, cloudVars, NodeTableTypeOK, GpuCloudTypeOK
<1>10. CASE TailDown(r)
  <2>1. tail' \in [Runs -> Nat]
    <3>1. tail[r] - 1 \in Nat
      BY <1>10 DEF TailDown
    <3> QED BY <1>10, <3>1 DEF TailDown
  <2> QED BY <1>10, <2>1, SetDownType
          DEF TailDown, runVars, nodeVars, cloudVars, RunTableTypeOK, NodeTableTypeOK,
              GpuCloudTypeOK
<1>11. CASE ProvDown(r)
  BY <1>11, ProvGotoType, SetDownType
     DEF ProvDown, runVars, nodeVars, cloudVars, RunTableTypeOK, NodeTableTypeOK,
         GpuCloudTypeOK
<1>12. CASE ProvFail(r)
  BY <1>12, ProvGotoType, RunTransactionType
     DEF ProvFail, nodeVars, cloudVars, NodeTableTypeOK, GpuCloudTypeOK
<1> QED BY <1>1, <1>2, <1>3, <1>4, <1>5, <1>6, <1>7, <1>8, <1>9, <1>10, <1>11, <1>12
        DEF Provision

LEMMA RequestMovesType ==
    ASSUME TypeOK, NEW r \in Runs, NEW v \in Vms,
           NEW h \in HandlerSteps, NEW u \in RunnerStates
    PROVE  /\ [handler EXCEPT ![r][v] = h] \in [Runs -> [Vms -> HandlerSteps]]
           /\ [runner EXCEPT ![r][v] = u] \in [Runs -> [Vms -> RunnerStates]]
  BY DEF TypeOK, GpuCloudTypeOK

LEMMA RespondType ==
    ASSUME TypeOK, NEW r \in Runs, NEW v \in Vms, NEW next \in RunnerStates,
           Respond(r, v, next)
    PROVE  /\ GpuCloudTypeOK'
           /\ handler' \in [Runs -> [Vms -> HandlerSteps]]
<1>1. (IF runner[r][v] = "sent" THEN next ELSE runner[r][v]) \in RunnerStates
  BY DEF TypeOK, GpuCloudTypeOK
<1>2. "idle" \in HandlerSteps
  BY DEF HandlerSteps
<1> QED BY <1>1, <1>2 DEF TypeOK, GpuCloudTypeOK, Respond

LEMMA RequestsType ==
    ASSUME TypeOK, NEW r \in Runs, Requests(r)
    PROVE  TypeOK'
<1> USE DEF TypeOK, pollVars
<1>1. CASE Submit(r)
  BY <1>1, RunTransactionType
     DEF Submit, nodeVars, cloudVars, taskVars, NodeTableTypeOK, GpuCloudTypeOK
<1>2. ASSUME NEW v \in Vms, PostComplete(r, v) PROVE TypeOK'
  <2>1. {"sent", "trap"} \subseteq RunnerStates /\ "upload" \in HandlerSteps
    BY DEF RunnerStates, HandlerSteps
  <2>2. handler' \in [Runs -> [Vms -> HandlerSteps]]
    <3>1. [handler EXCEPT ![r][v] = "upload"] \in [Runs -> [Vms -> HandlerSteps]]
      BY <2>1, RequestMovesType
    <3> QED BY <1>2, <3>1 DEF PostComplete, TypeOK
  <2>3. runner' \in [Runs -> [Vms -> RunnerStates]]
    <3>1. /\ [runner EXCEPT ![r][v] = "sent"] \in [Runs -> [Vms -> RunnerStates]]
          /\ [runner EXCEPT ![r][v] = "trap"] \in [Runs -> [Vms -> RunnerStates]]
      BY <2>1, RequestMovesType
    <3> QED BY <1>2, <3>1 DEF PostComplete
  <2> QED BY <1>2, <2>2, <2>3
          DEF PostComplete, runVars, nodeVars, RunTableTypeOK, NodeTableTypeOK, GpuCloudTypeOK
<1>3. ASSUME NEW v \in Vms, PostFail(r, v) PROVE TypeOK'
  <2>1. failing' \in [Runs -> Nat]
    BY <1>3 DEF PostFail
  <2>2. runner' \in [Runs -> [Vms -> RunnerStates]]
    BY <1>3 DEF PostFail, GpuCloudTypeOK, RunnerStates
  <2> QED BY <1>3, <2>1, <2>2
          DEF PostFail, runVars, nodeVars, RunTableTypeOK, NodeTableTypeOK, GpuCloudTypeOK
<1>4. ASSUME NEW v \in Vms, CompleteUpload(r, v) PROVE TypeOK'
  <2>1. "trap" \in RunnerStates /\ "commit" \in HandlerSteps
    BY DEF RunnerStates, HandlerSteps
  <2>2. /\ GpuCloudTypeOK'
        /\ handler' \in [Runs -> [Vms -> HandlerSteps]]
    <3>1. CASE Respond(r, v, "trap")
      BY <2>1, <3>1, RespondType
    <3>2. CASE handler' = [handler EXCEPT ![r][v] = "commit"] /\ UNCHANGED cloudVars
      BY <2>1, <3>2, RequestMovesType DEF cloudVars, GpuCloudTypeOK
    <3> QED BY <1>4, <3>1, <3>2 DEF CompleteUpload
  <2> QED BY <1>4, <2>2
          DEF CompleteUpload, runVars, nodeVars, RunTableTypeOK, NodeTableTypeOK
<1>5. ASSUME NEW v \in Vms, CompleteCommit(r, v) PROVE TypeOK'
  <2>1. "trap" \in RunnerStates /\ "publish" \in HandlerSteps
    BY DEF RunnerStates, HandlerSteps
  <2>2. /\ GpuCloudTypeOK'
        /\ RunTableTypeOK'
        /\ handler' \in [Runs -> [Vms -> HandlerSteps]]
    <3>1. CASE Respond(r, v, "trap") /\ UNCHANGED runVars
      BY <2>1, <3>1, RespondType DEF runVars, RunTableTypeOK
    <3>2. CASE /\ CompleteRun(r)
               /\ handler' = [handler EXCEPT ![r][v] = "publish"]
               /\ UNCHANGED cloudVars
      BY <2>1, <3>2, RequestMovesType, RunTransactionType DEF cloudVars, GpuCloudTypeOK
    <3> QED BY <1>5, <3>1, <3>2 DEF CompleteCommit
  <2> QED BY <1>5, <2>2 DEF CompleteCommit, nodeVars, NodeTableTypeOK
<1>6. ASSUME NEW v \in Vms, CompletePublish(r, v) PROVE TypeOK'
  BY <1>6, RespondType, StartReleaseType
     DEF CompletePublish, runVars, nodeVars, RunTableTypeOK, NodeTableTypeOK,
         RunnerStates, Origins
<1>7. CASE FailCommit(r)
  <2>1. failing' \in [Runs -> Nat]
    <3>1. failing[r] - 1 \in Nat
      BY <1>7 DEF FailCommit
    <3> QED BY <1>7, <3>1 DEF FailCommit
  <2> QED BY <1>7, <2>1, RunTransactionType, StartReleaseType
          DEF FailCommit, nodeVars, cloudVars, NodeTableTypeOK, GpuCloudTypeOK, Origins
<1> QED BY <1>1, <1>2, <1>3, <1>4, <1>5, <1>6, <1>7 DEF Requests

LEMMA PollType ==
    ASSUME TypeOK, Poll
    PROVE  TypeOK'
<1> USE DEF TypeOK, PollSteps
<1>1. CASE RecoverLeaked
  BY <1>1, StartReleaseType
     DEF RecoverLeaked, Origins, runVars, nodeVars, cloudVars, RunTableTypeOK,
         NodeTableTypeOK, GpuCloudTypeOK
<1>2. CASE RecoverOrphans
  BY <1>2, StartReleaseType
     DEF RecoverOrphans, Origins, runVars, nodeVars, cloudVars, RunTableTypeOK,
         NodeTableTypeOK, GpuCloudTypeOK
<1>3. CASE PollCount
  <2>1. ASSUME NEW g \in GpuTypes PROVE LiveCount(g) \in Nat
    BY RunsAssumption, FS_Subset, FS_CardinalityType DEF LiveCount
  <2> QED BY <1>3, <2>1
          DEF PollCount, taskVars, runVars, nodeVars, cloudVars, RunTableTypeOK,
              NodeTableTypeOK, GpuCloudTypeOK
<1>4. ASSUME NEW g \in GpuTypes, PollClaim(g) PROVE TypeOK'
  <2>1. PICK S \in ClaimSets(g) :
          /\ ClaimQueued(S)
          /\ prov' = [r \in Runs |-> IF r \in S THEN "node" ELSE prov[r]]
    BY <1>4 DEF PollClaim
  <2>2. RunTableTypeOK'
    BY <2>1, RunSweepType
  <2>3. prov' \in [Runs -> ProvSteps]
    BY <2>1 DEF ProvSteps
  <2> QED BY <1>4, <2>2, <2>3
          DEF PollClaim, nodeVars, cloudVars, NodeTableTypeOK, GpuCloudTypeOK
<1>5. CASE ReapProvisioning
  BY <1>5, StartReleaseType, RunSweepType
     DEF ReapProvisioning, Origins, nodeVars, cloudVars, NodeTableTypeOK, GpuCloudTypeOK
<1>6. CASE ReapRunning
  BY <1>6, StartReleaseType, RunSweepType
     DEF ReapRunning, Origins, nodeVars, cloudVars, NodeTableTypeOK, GpuCloudTypeOK
<1> QED BY <1>1, <1>2, <1>3, <1>4, <1>5, <1>6 DEF Poll

LEMMA CrashType ==
    ASSUME TypeOK, NEW kept \in BOOLEAN, Crash(kept)
    PROVE  TypeOK'
<1>1. GpuCloudTypeOK'
  <2>1. PICK made \in Unrecorded : CloudAfterCrash(made, kept)
    BY DEF Crash
  <2>2. \A r \in Runs : made[r] \subseteq Vms
    BY DEF Unrecorded
  <2> QED BY <2>1, <2>2 DEF TypeOK, GpuCloudTypeOK, CloudAfterCrash, RunnerStates
<1>2. /\ prov' \in [Runs -> ProvSteps]
      /\ tail' \in [Runs -> Nat] /\ failing' \in [Runs -> Nat]
      /\ handler' \in [Runs -> [Vms -> HandlerSteps]]
      /\ rel' \in [Origins -> [Runs -> RelSteps]]
      /\ live' \in [GpuTypes -> Nat]
      /\ poller' \in PollSteps
      /\ todo' \in SUBSET GpuTypes
  BY DEF Crash, NoTask, None, NoRequest, NoRelease, NoLive, ProvSteps, HandlerSteps,
         RelSteps, PollSteps
<1>3. tries' \in [Origins -> [Runs -> 0 .. ReleaseTries - 1]]
  BY ReleaseTriesAssumption DEF Crash, NoTries
<1>4. crashes' \in 0 .. MaxCrashes
  BY MaxCrashesAssumption DEF Crash, TypeOK
<1> QED BY <1>1, <1>2, <1>3, <1>4
        DEF Crash, TypeOK, runVars, nodeVars, RunTableTypeOK, NodeTableTypeOK

LEMMA InitType == Init => TypeOK
<1> SUFFICES ASSUME Init PROVE TypeOK
  OBVIOUS
<1>1. RunTableTypeOK /\ NodeTableTypeOK /\ GpuCloudTypeOK
  BY DEF Init, RunTableInit, NodeTableInit, GpuCloudInit, RunTableTypeOK,
         NodeTableTypeOK, GpuCloudTypeOK, RunStatus, RunnerStates
<1>2. tries \in [Origins -> [Runs -> 0 .. ReleaseTries - 1]] /\ crashes \in 0 .. MaxCrashes
  BY ReleaseTriesAssumption, MaxCrashesAssumption DEF Init, NoTries
<1> QED BY <1>1, <1>2
        DEF Init, TypeOK, NoTask, None, NoRequest, NoRelease, NoLive, ProvSteps,
            HandlerSteps, RelSteps, PollSteps

LEMMA NextType == TypeOK /\ [Next]_vars => TypeOK'
<1> SUFFICES ASSUME TypeOK, [Next]_vars PROVE TypeOK'
  OBVIOUS
<1>1. ASSUME NEW r \in Runs, Timeout(r) PROVE TypeOK'
  BY <1>1, RunTransactionType
     DEF Timeout, TypeOK, nodeVars, cloudVars, taskVars, pollVars, NodeTableTypeOK,
         GpuCloudTypeOK
<1>2. CASE UNCHANGED vars
  BY <1>2 DEF vars, TypeOK, runVars, nodeVars, cloudVars, taskVars, pollVars,
              RunTableTypeOK, NodeTableTypeOK, GpuCloudTypeOK
<1> QED BY <1>1, <1>2, RequestsType, ProvisionType, ReleaseType, PollType, CrashType
        DEF Next

\* Every variable keeps the type its module states, whatever the runs, the
\* quota, the budget of attempts and the number of crashes.
THEOREM TypeCorrect == Spec => []TypeOK
  BY InitType, NextType, PTL DEF Spec

-----------------------------------------------------------------------------
(***************************************************************************)
(* Who may move a run.  OneProvisioner alone is not inductive: complete_run *)
(* marks a run done whatever its status, so the proof also needs that a     *)
(* /complete in flight is about a run nobody provisions or recovers; and    *)
(* the budget, that a run not yet claimed again has attempts left.          *)
(***************************************************************************)

NobodyMoves(r) == ~Provisioner(r) /\ ~Recovery(r)

Completing(r) == \E v \in Vms : handler[r][v] \in {"upload", "commit", "publish"}

HandedOver(r) ==
    /\ ~(Provisioner(r) /\ Recovery(r))
    /\ status[r] \in {"none", "queued", "running", "done"} => NobodyMoves(r)
    /\ Booting => NobodyMoves(r)
    /\ Completing(r) => status[r] \in {"running", "done", "failed"} /\ NobodyMoves(r)
    /\ resultRow[r] => status[r] \in Terminal /\ NobodyMoves(r)
    /\ status[r] \in {"none", "queued"} => attempts[r] < MaxAttempts

Handover == \A r \in Runs : HandedOver(r)

\* A step that marks the run failed or leaves its row alone, and starts no
\* task or request for it, keeps its handover in order.
LEMMA CalmStep ==
    ASSUME NEW q \in Runs, HandedOver(q),
           status'[q] \in {status[q], "failed"},
           attempts'[q] = attempts[q],
           resultRow'[q] = resultRow[q],
           Completing(q)' => Completing(q),
           Provisioner(q)' => Provisioner(q),
           Recovery(q)' => Recovery(q),
           Booting' => Booting
    PROVE  HandedOver(q)'
  BY DEF HandedOver, NobodyMoves, Terminal

LEMMA RelMovesCalm ==
    ASSUME TypeOK, NEW k \in Origins, NEW r \in Runs, NEW q \in Runs,
           rel[k][r] # "idle",
           \/ \E step \in RelSteps : RelGoto(k, r, step)
           \/ RelReturns(k, r)
           \/ RelAttemptFails(k, r)
    PROVE  Recovery(q)' => Recovery(q)
  BY DEF TypeOK, Recovery, RelGoto, RelReturns, RelAttemptFails, Origins

LEMMA StartReleaseCalm ==
    ASSUME TypeOK, NEW k \in Origins, NEW S, NEW q \in Runs,
           StartRelease(k, S), k # "orphan" \/ q \notin S
    PROVE  Recovery(q)' => Recovery(q)
  BY DEF TypeOK, Recovery, StartRelease, Origins

LEMMA ReleaseHandover ==
    ASSUME TypeOK, Handover, NEW r \in Runs, Release(r)
    PROVE  Handover'
<1> SUFFICES ASSUME NEW q \in Runs PROVE HandedOver(q)'
  BY DEF Handover
<1>0. HandedOver(q) /\ HandedOver(r)
  BY DEF Handover
<1>1. ASSUME NEW k \in Origins, RelDestroy(k, r) \/ RelForget(k, r) \/ RelDown(k, r)
      PROVE  HandedOver(q)'
  <2>1. UNCHANGED <<runVars, prov, handler, pollVars>> /\ rel[k][r] # "idle"
    BY <1>1 DEF RelDestroy, RelForget, RelDown
  <2>2. Recovery(q)' => Recovery(q)
    <3>1. \/ \E step \in RelSteps : RelGoto(k, r, step)
          \/ RelReturns(k, r)
          \/ RelAttemptFails(k, r)
      BY <1>1 DEF RelDestroy, RelForget, RelDown, RelSteps
    <3> QED BY <2>1, <3>1, RelMovesCalm
  <2> QED BY <1>0, <2>1, <2>2, CalmStep
          DEF runVars, pollVars, Completing, Provisioner, Booting
<1>2. ASSUME NEW k \in Origins, RelMarkFailed(k, r) PROVE HandedOver(q)'
  <2>1. /\ UNCHANGED <<attempts, resultRow, prov, handler, pollVars>>
        /\ status'[q] \in {status[q], "failed"}
        /\ rel[k][r] # "idle" /\ RelGoto(k, r, "idle")
    BY <1>2 DEF RelMarkFailed, SetFailed, TypeOK, RunTableTypeOK
  <2>2. Recovery(q)' => Recovery(q)
    BY <2>1, RelMovesCalm DEF RelSteps
  <2> QED BY <1>0, <2>1, <2>2, CalmStep DEF pollVars, Completing, Provisioner, Booting
<1>3. CASE OrphanRequeue(r)
  <2>1. UNCHANGED <<resultRow, prov, handler, pollVars>>
    BY <1>3 DEF OrphanRequeue, RequeueForRetry
  <2>2. CASE q # r
    <3>1. status'[q] = status[q] /\ attempts'[q] = attempts[q]
      BY <1>3, <2>2 DEF OrphanRequeue, RequeueForRetry, TypeOK, RunTableTypeOK
    <3>2. Recovery(q)' <=> Recovery(q)
      BY <1>3, <2>2 DEF OrphanRequeue, RelGoto, Recovery, TypeOK, Origins
    <3> QED BY <1>0, <2>1, <3>1, <3>2, CalmStep
            DEF pollVars, Completing, Provisioner, Booting
  <2>3. CASE q = r
    <3>1. /\ Recovery(r) /\ ~Provisioner(r) /\ ~Completing(r) /\ ~resultRow[r] /\ ~Booting
          /\ status[r] \notin {"none", "queued", "running", "done"}
      BY <1>0, <1>3 DEF OrphanRequeue, Recovery, HandedOver, NobodyMoves
    <3>2. ~Provisioner(r)' /\ ~Completing(r)' /\ ~resultRow'[r] /\ ~Booting'
      BY <2>1, <3>1 DEF pollVars, Completing, Provisioner, Booting
    <3>3. CASE BudgetSpent(r)
      <4>1. status'[r] = status[r]
        BY <1>3, <3>3 DEF OrphanRequeue, RequeueForRetry, TypeOK, RunTableTypeOK
      <4> QED BY <2>3, <3>1, <3>2, <4>1 DEF HandedOver, NobodyMoves
    <3>4. CASE ~BudgetSpent(r)
      <4>1. /\ attempts'[r] = attempts[r] + 1 /\ attempts[r] \in Nat
            /\ attempts'[r] < MaxAttempts
        BY <1>3, <3>4, MaxAttemptsAssumption
           DEF OrphanRequeue, RequeueForRetry, BudgetSpent, TypeOK, RunTableTypeOK
      <4>2. ~Recovery(r)'
        BY <1>3, <3>4 DEF OrphanRequeue, RelGoto, Recovery, TypeOK, Origins
      <4> QED BY <2>3, <3>2, <4>1, <4>2 DEF HandedOver, NobodyMoves
    <3> QED BY <3>3, <3>4
  <2> QED BY <2>2, <2>3
<1> QED BY <1>1, <1>2, <1>3 DEF Release

LEMMA ProvisionHandover ==
    ASSUME TypeOK, Handover, NEW r \in Runs, Provision(r)
    PROVE  Handover'
<1> SUFFICES ASSUME NEW q \in Runs PROVE HandedOver(q)'
  BY DEF Handover
<1>0. HandedOver(q) /\ HandedOver(r)
  BY DEF Handover
<1>1. CASE \/ ProvNode(r) \/ ProvStage(r) \/ ProvApply(r) \/ ProvOutput(r)
           \/ ProvBusy(r) \/ ProvSafeDestroy(r) \/ ProvSafeForget(r)
           \/ TailDown(r) \/ ProvDown(r)
  <2>1. UNCHANGED <<runVars, handler, rel, pollVars>>
    BY <1>1 DEF ProvNode, ProvStage, ProvApply, ProvOutput, ProvBusy, ProvSafeDestroy,
                ProvSafeForget, TailDown, ProvDown, ProvGoto
  <2>2. Provisioner(q)' => Provisioner(q)
    BY <1>1 DEF ProvNode, ProvStage, ProvApply, ProvOutput, ProvBusy, ProvSafeDestroy,
                ProvSafeForget, TailDown, ProvDown, ProvGoto, Provisioner, TypeOK
  <2> QED BY <1>0, <2>1, <2>2, CalmStep DEF runVars, pollVars, Completing, Recovery, Booting
<1>2. CASE ProvFail(r)
  <2>1. /\ UNCHANGED <<attempts, resultRow, handler, rel, pollVars>>
        /\ status'[q] \in {status[q], "failed"}
        /\ Provisioner(q)' => Provisioner(q)
    BY <1>2 DEF ProvFail, ProvGoto, SetFailed, Provisioner, TypeOK, RunTableTypeOK
  <2> QED BY <1>0, <2>1, CalmStep DEF pollVars, Completing, Recovery, Booting
<1>3. CASE ProvRunning(r) \/ ProvRequeue(r)
  <2>1. /\ Provisioner(r) /\ ~Recovery(r) /\ ~Completing(r) /\ ~resultRow[r] /\ ~Booting
        /\ status[r] \notin {"none", "queued", "running", "done"}
    BY <1>0, <1>3 DEF ProvRunning, ProvRequeue, Provisioner, HandedOver, NobodyMoves
  <2>2. UNCHANGED <<resultRow, handler, rel, pollVars>>
    BY <1>3 DEF ProvRunning, ProvRequeue, ProvGoto, SetRunning, RequeueForRetry
  <2>3. CASE q # r
    <3>1. /\ status'[q] = status[q] /\ attempts'[q] = attempts[q]
          /\ Provisioner(q)' <=> Provisioner(q)
      BY <1>3, <2>3 DEF ProvRunning, ProvRequeue, ProvGoto, SetRunning, RequeueForRetry,
                        Provisioner, TypeOK, RunTableTypeOK
    <3> QED BY <1>0, <2>2, <3>1, CalmStep DEF pollVars, Completing, Recovery, Booting
  <2>4. CASE q = r
    <3>1. ~Recovery(r)' /\ ~Completing(r)' /\ ~resultRow'[r] /\ ~Booting'
      BY <2>1, <2>2 DEF pollVars, Completing, Recovery, Booting
    <3>2. CASE ProvRunning(r)
      <4>1. status'[r] = "running" /\ ~Provisioner(r)'
        BY <3>2 DEF ProvRunning, ProvGoto, SetRunning, Provisioner, TypeOK, RunTableTypeOK
      <4> QED BY <2>4, <3>1, <4>1 DEF HandedOver, NobodyMoves
    <3>3. CASE ProvRequeue(r) /\ BudgetSpent(r)
      <4>1. status'[r] = status[r]
        BY <3>3 DEF ProvRequeue, RequeueForRetry, TypeOK, RunTableTypeOK
      <4> QED BY <2>1, <2>4, <3>1, <4>1 DEF HandedOver, NobodyMoves
    <3>4. CASE ProvRequeue(r) /\ ~BudgetSpent(r)
      <4>1. /\ attempts'[r] = attempts[r] + 1 /\ attempts[r] \in Nat
            /\ attempts'[r] < MaxAttempts
        BY <3>4, MaxAttemptsAssumption
           DEF ProvRequeue, RequeueForRetry, BudgetSpent, TypeOK, RunTableTypeOK
      <4>2. ~Provisioner(r)'
        BY <3>4 DEF ProvRequeue, Provisioner, TypeOK
      <4> QED BY <2>4, <3>1, <4>1, <4>2 DEF HandedOver, NobodyMoves
    <3> QED BY <1>3, <3>2, <3>3, <3>4
  <2> QED BY <2>3, <2>4
<1> QED BY <1>1, <1>2, <1>3 DEF Provision

LEMMA RequestsHandover ==
    ASSUME TypeOK, Handover, NEW r \in Runs, Requests(r)
    PROVE  Handover'
<1> SUFFICES ASSUME NEW q \in Runs PROVE HandedOver(q)'
  BY DEF Handover
<1>0. HandedOver(q) /\ HandedOver(r)
  BY DEF Handover
<1>1. CASE Submit(r)
  <2>1. /\ UNCHANGED <<attempts, resultRow, prov, handler, rel, pollVars>>
        /\ status[r] = "none"
        /\ status' = [status EXCEPT ![r] = "queued"]
    BY <1>1 DEF Submit, CreateRun, taskVars
  <2>2. /\ Completing(q)' <=> Completing(q)
        /\ Provisioner(q)' <=> Provisioner(q)
        /\ Recovery(q)' <=> Recovery(q)
        /\ Booting' <=> Booting
    BY <2>1 DEF pollVars, Completing, Provisioner, Recovery, Booting
  <2>3. CASE q = r
    <3>1. status'[q] = "queued"
      BY <2>1, <2>3 DEF TypeOK, RunTableTypeOK
    <3> QED BY <1>0, <2>1, <2>2, <2>3, <3>1 DEF HandedOver, NobodyMoves, Terminal
  <2>4. CASE q # r
    BY <1>0, <2>1, <2>2, <2>4, CalmStep DEF TypeOK, RunTableTypeOK
  <2> QED BY <2>3, <2>4
<1>2. ASSUME NEW v \in Vms,
             PostComplete(r, v) \/ PostFail(r, v) \/ CompleteUpload(r, v)
             \/ CompletePublish(r, v)
      PROVE  HandedOver(q)'
  <2>1. UNCHANGED <<runVars, prov, pollVars>>
    BY <1>2 DEF PostComplete, PostFail, CompleteUpload, CompletePublish
  <2>2. Recovery(q)' => Recovery(q)
    <3>1. CASE CompletePublish(r, v) /\ StartRelease("complete", {r})
      BY <3>1, StartReleaseCalm DEF Origins
    <3>2. CASE UNCHANGED rel
      BY <3>2 DEF Recovery
    <3> QED BY <1>2, <3>1, <3>2
            DEF PostComplete, PostFail, CompleteUpload, CompletePublish
  <2>3. Completing(q)' => Completing(q) \/ status[q] = "running"
    <3>1. ASSUME NEW h,
                 handler' = [handler EXCEPT ![r][v] = h],
                 h \in {"upload", "commit", "publish"} =>
                   Completing(r) \/ status[r] = "running"
          PROVE  Completing(q)' => Completing(q) \/ status[q] = "running"
      <4>1. ASSUME NEW w \in Vms, handler'[q][w] \in {"upload", "commit", "publish"}
            PROVE  Completing(q) \/ status[q] = "running"
        <5>1. CASE q = r /\ w = v
          BY <3>1, <4>1, <5>1 DEF TypeOK
        <5>2. CASE ~(q = r /\ w = v)
          <6>1. handler'[q][w] = handler[q][w]
            BY <3>1, <5>2 DEF TypeOK
          <6> QED BY <4>1, <6>1 DEF Completing
        <5> QED BY <5>1, <5>2
      <4> QED BY <4>1 DEF Completing
    <3>2. CASE PostComplete(r, v)
      <4>1. CASE CanComplete(status[r])
        BY <1>2, <3>1, <3>2, <4>1 DEF PostComplete, CanComplete
      <4>2. CASE ~CanComplete(status[r])
        BY <3>2, <4>2 DEF PostComplete, Completing
      <4> QED BY <4>1, <4>2
    <3>3. CASE PostFail(r, v)
      BY <3>3 DEF PostFail, Completing
    <3>4. CASE CompleteUpload(r, v) \/ CompletePublish(r, v)
      <4>1. Completing(r)
        BY <3>4 DEF CompleteUpload, CompletePublish, Completing
      <4>2. \E h : handler' = [handler EXCEPT ![r][v] = h]
        BY <3>4 DEF CompleteUpload, CompletePublish, Respond
      <4> QED BY <3>1, <4>1, <4>2
    <3> QED BY <1>2, <3>2, <3>3, <3>4
  <2>4. /\ Provisioner(q)' <=> Provisioner(q)
        /\ Booting' <=> Booting
        /\ UNCHANGED <<status, attempts, resultRow>>
    BY <2>1 DEF runVars, pollVars, Provisioner, Booting
  <2> QED BY <1>0, <2>2, <2>3, <2>4 DEF HandedOver, NobodyMoves
<1>3. ASSUME NEW v \in Vms, CompleteCommit(r, v) PROVE HandedOver(q)'
  <2>1. UNCHANGED <<prov, rel, pollVars>> /\ Completing(r)
    BY <1>3 DEF CompleteCommit, Completing
  <2>2. Completing(q)' => Completing(q)
    <3>1. \E h : handler' = [handler EXCEPT ![r][v] = h]
      BY <1>3 DEF CompleteCommit, Respond
    <3>2. q # r => handler'[q] = handler[q]
      BY <3>1 DEF TypeOK
    <3> QED BY <2>1, <3>2 DEF Completing
  <2>3. /\ Provisioner(q)' <=> Provisioner(q)
        /\ Recovery(q)' <=> Recovery(q)
        /\ Booting' <=> Booting
    BY <2>1 DEF pollVars, Provisioner, Recovery, Booting
  <2>4. CASE UNCHANGED runVars
    BY <1>0, <2>2, <2>3, <2>4, CalmStep DEF runVars
  <2>5. CASE CompleteRun(r)
    <3>1. CASE q = r
      <4>1. status'[r] = "done"
        BY <2>5 DEF CompleteRun, TypeOK, RunTableTypeOK
      <4> QED BY <1>0, <2>1, <2>3, <3>1, <4>1 DEF HandedOver, NobodyMoves, Terminal
    <3>2. CASE q # r
      <4>1. /\ status'[q] = status[q] /\ attempts'[q] = attempts[q]
            /\ resultRow'[q] = resultRow[q]
        BY <2>5, <3>2 DEF CompleteRun, TypeOK, RunTableTypeOK
      <4> QED BY <1>0, <2>2, <2>3, <4>1, CalmStep
    <3> QED BY <3>1, <3>2
  <2> QED BY <1>3, <2>4, <2>5 DEF CompleteCommit
<1>4. CASE FailCommit(r)
  <2>1. /\ UNCHANGED <<attempts, resultRow, prov, pollVars>>
        /\ status'[q] \in {status[q], "failed"}
    BY <1>4 DEF FailCommit, SetFailed, TypeOK, RunTableTypeOK
  <2>2. Recovery(q)' => Recovery(q)
    BY <1>4, StartReleaseCalm DEF FailCommit, Origins
  <2>3. Completing(q)' => Completing(q)
    BY <1>4 DEF FailCommit, Completing
  <2> QED BY <1>0, <2>1, <2>2, <2>3, CalmStep DEF pollVars, Provisioner, Booting
<1> QED BY <1>1, <1>2, <1>3, <1>4 DEF Requests

LEMMA PollHandover ==
    ASSUME TypeOK, Handover, Poll
    PROVE  Handover'
<1> SUFFICES ASSUME NEW q \in Runs PROVE HandedOver(q)'
  BY DEF Handover
<1>0. HandedOver(q)
  BY DEF Handover
<1>1. CASE RecoverLeaked
  <2>1. /\ UNCHANGED <<status, attempts, resultRow, prov, handler>>
        /\ Booting' => Booting
        /\ Recovery(q)' => Recovery(q)
    BY <1>1, StartReleaseCalm DEF RecoverLeaked, runVars, Booting, Origins
  <2> QED BY <1>0, <2>1, CalmStep DEF Completing, Provisioner
<1>2. CASE RecoverOrphans
  <2>1. /\ UNCHANGED <<status, attempts, resultRow, prov, handler>>
        /\ Booting /\ ~Booting'
    BY <1>2 DEF RecoverOrphans, runVars, Booting
  <2>2. /\ Completing(q)' <=> Completing(q)
        /\ Provisioner(q)' <=> Provisioner(q)
    BY <2>1 DEF Completing, Provisioner
  <2>3. CASE q \in InProvisioning
    BY <1>0, <2>1, <2>2, <2>3 DEF HandedOver, NobodyMoves, InProvisioning, Terminal
  <2>4. CASE q \notin InProvisioning
    <3>1. Recovery(q)' => Recovery(q)
      BY <1>2, <2>4, StartReleaseCalm DEF RecoverOrphans, Origins
    <3> QED BY <1>0, <2>1, <2>2, <3>1, CalmStep
  <2> QED BY <2>3, <2>4
<1>3. CASE PollCount
  BY <1>0, <1>3, CalmStep
     DEF PollCount, runVars, taskVars, Completing, Provisioner, Recovery, Booting
<1>4. ASSUME NEW g \in GpuTypes, PollClaim(g) PROVE HandedOver(q)'
  <2>1. PICK S \in ClaimSets(g) :
          /\ ClaimQueued(S)
          /\ prov' = [r \in Runs |-> IF r \in S THEN "node" ELSE prov[r]]
    BY <1>4 DEF PollClaim
  <2>2. /\ UNCHANGED <<attempts, resultRow, handler, rel>>
        /\ ~Booting /\ ~Booting'
    BY <1>4, <2>1 DEF PollClaim, ClaimQueued, Booting
  <2>3. /\ Completing(q)' <=> Completing(q)
        /\ Recovery(q)' <=> Recovery(q)
    BY <2>2 DEF Completing, Recovery
  <2>4. CASE q \in S
    <3>1. status[q] = "queued"
      BY <2>4 DEF ClaimSets, QueuedOf
    <3>2. status'[q] = "provisioning"
      BY <2>1, <2>4 DEF ClaimQueued
    <3> QED BY <1>0, <2>2, <2>3, <3>1, <3>2 DEF HandedOver, NobodyMoves, Terminal
  <2>5. CASE q \notin S
    <3>1. status'[q] = status[q] /\ (Provisioner(q)' <=> Provisioner(q))
      BY <2>1, <2>5 DEF ClaimQueued, Provisioner
    <3> QED BY <1>0, <2>2, <2>3, <3>1, CalmStep
  <2> QED BY <2>4, <2>5
<1>5. CASE ReapProvisioning \/ ReapRunning
  <2>1. /\ UNCHANGED <<attempts, resultRow, prov, handler>>
        /\ status'[q] \in {status[q], "failed"}
        /\ ~Booting'
    BY <1>5 DEF ReapProvisioning, ReapRunning, ClaimTimedOut, Booting
  <2>2. Recovery(q)' => Recovery(q)
    BY <1>5, StartReleaseCalm DEF ReapProvisioning, ReapRunning, Origins
  <2> QED BY <1>0, <2>1, <2>2, CalmStep DEF Completing, Provisioner
<1> QED BY <1>1, <1>2, <1>3, <1>4, <1>5 DEF Poll

LEMMA CrashHandover ==
    ASSUME TypeOK, Handover, NEW kept \in BOOLEAN, Crash(kept)
    PROVE  Handover'
<1> SUFFICES ASSUME NEW q \in Runs PROVE HandedOver(q)'
  BY DEF Handover
<1>1. ~Provisioner(q)' /\ ~Recovery(q)' /\ ~Completing(q)'
  BY DEF Crash, Provisioner, Recovery, Completing, NoTask, NoRelease, NoRequest, Origins
<1>2. UNCHANGED <<status, attempts, resultRow>>
  BY DEF Crash, runVars
<1> QED BY <1>1, <1>2 DEF Handover, HandedOver, NobodyMoves

LEMMA InitHandover == Init => Handover
  BY MaxAttemptsAssumption
     DEF Init, Handover, HandedOver, NobodyMoves, Provisioner, Recovery, Completing,
         RunTableInit, NoTask, NoRelease, NoRequest, Origins

LEMMA NextHandover == TypeOK /\ Handover /\ [Next]_vars => Handover'
<1> SUFFICES ASSUME TypeOK, Handover, [Next]_vars PROVE Handover'
  OBVIOUS
<1>1. ASSUME NEW r \in Runs, Timeout(r) PROVE Handover'
  BY <1>1, CalmStep
     DEF Timeout, Expire, taskVars, pollVars, Handover, Completing, Provisioner,
         Recovery, Booting
<1>2. CASE UNCHANGED vars
  BY <1>2, CalmStep
     DEF vars, runVars, taskVars, pollVars, Handover, Completing, Provisioner,
         Recovery, Booting
<1> QED BY <1>1, <1>2, RequestsHandover, ProvisionHandover, ReleaseHandover,
           PollHandover, CrashHandover
        DEF Next

\* In every reachable state each run is in order: who may move it, whether a
\* /complete may be at work on it and what its budget allows agree with its
\* status column.
THEOREM HandoverHolds == Spec => []Handover
  BY TypeCorrect, InitHandover, NextHandover, PTL DEF Spec

\* At most one coroutine drives the provisioning of a run: the run changes
\* hands through its status column only, crashes and restarts included.
THEOREM OneProvisionerHolds == Spec => []OneProvisioner
<1>1. Handover => OneProvisioner
  BY DEF Handover, HandedOver, NobodyMoves, OneProvisioner
<1> QED BY <1>1, HandoverHolds, PTL

\* A run whose results were committed stays over: no requeue, no recovery and
\* no late provisioning task brings it back.
THEOREM ResultIsFinalHolds == Spec => []ResultIsFinal
<1>1. Handover => ResultIsFinal
  BY DEF Handover, HandedOver, NobodyMoves, ResultIsFinal
<1> QED BY <1>1, HandoverHolds, PTL

\* The provisioning task and the recovery after crashes never put a run back
\* in the queue with its attempts used up.
THEOREM RetryBudgetHolds == Spec => []RetryBudget
<1>1. Handover => RetryBudget
  BY DEF Handover, HandedOver, RetryBudget
<1> QED BY <1>1, HandoverHolds, PTL

-----------------------------------------------------------------------------
(***************************************************************************)
(* The capacity gate.  Between the count and the claims the snapshot is     *)
(* stale; what saves the quota is that, of the runs that never ended, there *)
(* are at most as many live ones as were counted, since only the poller     *)
(* itself makes one live.                                                   *)
(***************************************************************************)

Snapshot == poller = "claim" => \A g \in todo : Cardinality(NeverEnded(g)) <= live[g]

EndedMarked == \A r \in Runs : status[r] \in Terminal => endedAt[r]

QuotaInv == QuotaKept /\ EndedMarked /\ Snapshot

\* No run that never ended becomes live.
NoNewLife ==
    \A r \in Runs :
        /\ status'[r] \in Live /\ ~endedAt'[r] => status[r] \in Live /\ ~endedAt[r]
        /\ status'[r] \in Terminal => endedAt'[r]

LEMMA NeverEndedFinite ==
    ASSUME NEW g
    PROVE  IsFiniteSet(NeverEnded(g)) /\ Cardinality(NeverEnded(g)) \in Nat
  BY RunsAssumption, FS_Subset, FS_CardinalityType DEF NeverEnded

LEMMA NoNewLifeStep ==
    ASSUME TypeOK, QuotaInv, NoNewLife, TypeOK',
           poller' = "claim" => UNCHANGED pollVars
    PROVE  QuotaInv'
<1>1. ASSUME NEW g PROVE NeverEnded(g)' \subseteq NeverEnded(g)
  BY DEF NeverEnded, NoNewLife
<1>2. ASSUME NEW g
      PROVE  /\ Cardinality(NeverEnded(g)) \in Nat
             /\ Cardinality(NeverEnded(g)') \in Nat
             /\ Cardinality(NeverEnded(g)') <= Cardinality(NeverEnded(g))
  BY <1>1, NeverEndedFinite, FS_Subset, FS_CardinalityType
<1>3. QuotaKept'
  BY <1>2, QuotaAssumption DEF QuotaInv, QuotaKept
<1>4. EndedMarked'
  BY DEF EndedMarked, NoNewLife
<1>5. Snapshot'
  BY <1>2 DEF QuotaInv, Snapshot, TypeOK, pollVars
<1> QED BY <1>3, <1>4, <1>5 DEF QuotaInv

LEMMA NoNewLifeTransactions ==
    ASSUME TypeOK, EndedMarked, NEW r \in Runs, NEW s,
           \/ UNCHANGED runVars
           \/ CreateRun(r) \/ SetFailed(r) \/ CompleteRun(r) \/ Expire(r)
           \/ RequeueForRetry(r) /\ status[r] # "none"
           \/ SetRunning(r) /\ status[r] \in {"provisioning", "failed"}
           \/ ClaimTimedOut(s)
    PROVE  NoNewLife
<1> USE DEF TypeOK, RunTableTypeOK, EndedMarked, NoNewLife, Live, Terminal
<1>1. CASE UNCHANGED runVars BY <1>1 DEF runVars
<1>2. CASE CreateRun(r) BY <1>2 DEF CreateRun
<1>3. CASE SetFailed(r) BY <1>3 DEF SetFailed
<1>4. CASE CompleteRun(r) BY <1>4 DEF CompleteRun
<1>5. CASE Expire(r) BY <1>5 DEF Expire
<1>6. CASE RequeueForRetry(r) BY <1>6 DEF RequeueForRetry
<1>7. CASE SetRunning(r) /\ status[r] \in {"provisioning", "failed"}
  BY <1>7 DEF SetRunning
<1>8. CASE ClaimTimedOut(s) BY <1>8 DEF ClaimTimedOut
<1> QED BY <1>1, <1>2, <1>3, <1>4, <1>5, <1>6, <1>7, <1>8

LEMMA TaskQuota ==
    ASSUME TypeOK, Handover, EndedMarked, NEW r \in Runs,
           Requests(r) \/ Provision(r) \/ Release(r) \/ Timeout(r)
    PROVE  NoNewLife /\ UNCHANGED pollVars
<1>0. HandedOver(r)
  BY DEF Handover
<1>1. CASE Requests(r)
  BY <1>1, NoNewLifeTransactions
     DEF Requests, Submit, PostComplete, PostFail, CompleteUpload, CompleteCommit,
         CompletePublish, FailCommit
<1>2. CASE Provision(r)
  <2>1. Provisioner(r) => status[r] \in {"provisioning", "failed"}
    BY <1>0 DEF HandedOver, NobodyMoves, TypeOK, RunTableTypeOK, RunStatus
  <2>2. CASE ProvRunning(r)
    BY <2>1, <2>2, NoNewLifeTransactions DEF ProvRunning, Provisioner
  <2>3. CASE ProvRequeue(r)
    BY <2>1, <2>3, NoNewLifeTransactions DEF ProvRequeue, Provisioner
  <2> QED BY <1>2, <2>2, <2>3, NoNewLifeTransactions
          DEF Provision, ProvNode, ProvStage, ProvApply, ProvOutput, ProvBusy,
              ProvSafeDestroy, ProvSafeForget, TailDown, ProvDown, ProvFail
<1>3. CASE Release(r)
  <2>1. Recovery(r) => status[r] # "none"
    BY <1>0 DEF HandedOver, NobodyMoves
  <2>2. CASE OrphanRequeue(r)
    BY <2>1, <2>2, NoNewLifeTransactions DEF OrphanRequeue, Recovery
  <2> QED BY <1>3, <2>2, NoNewLifeTransactions
          DEF Release, RelDestroy, RelForget, RelDown, RelMarkFailed
<1>4. CASE Timeout(r)
  BY <1>4, NoNewLifeTransactions DEF Timeout
<1> QED BY <1>1, <1>2, <1>3, <1>4

LEMMA CountQuota ==
    ASSUME TypeOK, QuotaInv, PollCount
    PROVE  QuotaInv'
<1>1. /\ UNCHANGED runVars
      /\ live' = [g \in GpuTypes |-> LiveCount(g)]
      /\ todo' = GpuTypes
  BY DEF PollCount
<1>2. ASSUME NEW g \in GpuTypes PROVE Cardinality(NeverEnded(g)) <= LiveCount(g)
  <2>1. NeverEnded(g) \subseteq {r \in Runs : status[r] \in Live /\ GpuOf[r] = g}
    BY DEF NeverEnded
  <2> QED BY <2>1, RunsAssumption, FS_Subset DEF LiveCount
<1>3. ASSUME NEW g PROVE NeverEnded(g)' = NeverEnded(g)
  BY <1>1 DEF runVars, NeverEnded
<1>4. Snapshot'
  BY <1>1, <1>2, <1>3 DEF Snapshot
<1>5. QuotaKept' /\ EndedMarked'
  BY <1>1, <1>3 DEF QuotaInv, QuotaKept, EndedMarked, runVars
<1> QED BY <1>4, <1>5 DEF QuotaInv

LEMMA ClaimFits ==
    ASSUME TypeOK, Snapshot, QuotaKept, NEW g \in todo, poller = "claim",
           NEW S \in ClaimSets(g)
    PROVE  Cardinality(NeverEnded(g) \union S) <= Quota[g]
<1>1. g \in GpuTypes /\ S \subseteq QueuedOf(g) /\ S \subseteq Runs
  BY DEF TypeOK, ClaimSets, QueuedOf
<1>2. /\ IsFiniteSet(S) /\ Cardinality(S) \in Nat
      /\ IsFiniteSet(QueuedOf(g)) /\ Cardinality(QueuedOf(g)) \in Nat
  BY <1>1, RunsAssumption, FS_Subset, FS_CardinalityType DEF QueuedOf
<1>3. Cardinality(NeverEnded(g)) <= Quota[g] /\ Cardinality(NeverEnded(g)) <= live[g]
  BY <1>1 DEF QuotaKept, Snapshot
<1>4. Quota[g] \in Nat /\ live[g] \in Nat
  BY <1>1, QuotaAssumption DEF TypeOK
<1>5. CASE Quota[g] - live[g] <= 0
  <2>1. S = {}
    BY <1>4, <1>5 DEF ClaimSets
  <2>2. NeverEnded(g) \union S = NeverEnded(g)
    BY <2>1
  <2> QED BY <1>3, <2>2
<1>6. CASE Quota[g] - live[g] > 0
  <2>1. Cardinality(S) = IF Cardinality(QueuedOf(g)) < Quota[g] - live[g]
                           THEN Cardinality(QueuedOf(g)) ELSE Quota[g] - live[g]
    BY <1>4, <1>6 DEF ClaimSets
  <2>2. Cardinality(S) <= Quota[g] - live[g]
    BY <1>2, <1>4, <2>1
  <2>3. /\ Cardinality(NeverEnded(g) \union S) \in Nat
        /\ Cardinality(NeverEnded(g) \union S) <= Cardinality(NeverEnded(g)) + Cardinality(S)
    <3>1. /\ IsFiniteSet(NeverEnded(g) \union S)
          /\ Cardinality(NeverEnded(g) \union S)
               = Cardinality(NeverEnded(g)) + Cardinality(S) - Cardinality(NeverEnded(g) \cap S)
      BY <1>2, NeverEndedFinite, FS_Union
    <3>2. Cardinality(NeverEnded(g) \cap S) \in Nat
      BY <1>2, FS_Intersection, FS_CardinalityType, NeverEndedFinite
    <3> QED BY <1>2, <3>1, <3>2, NeverEndedFinite, FS_CardinalityType
  <2> QED BY <1>2, <1>3, <1>4, <2>2, <2>3, NeverEndedFinite
<1> QED BY <1>4, <1>5, <1>6

LEMMA ClaimQuota ==
    ASSUME TypeOK, QuotaInv, NEW g \in GpuTypes, PollClaim(g)
    PROVE  QuotaInv'
<1>1. PICK S \in ClaimSets(g) : ClaimQueued(S)
  BY DEF PollClaim
<1>2. /\ g \in todo /\ poller = "claim" /\ todo' = todo \ {g}
      /\ live' = [live EXCEPT ![g] = 0]
  BY DEF PollClaim
<1>3. S \subseteq QueuedOf(g)
  BY DEF ClaimSets
<1>4. NeverEnded(g)' \subseteq NeverEnded(g) \union S
  BY <1>1 DEF NeverEnded, ClaimQueued
<1>5. ASSUME NEW h, h # g PROVE NeverEnded(h)' = NeverEnded(h)
  BY <1>1, <1>3, <1>5 DEF NeverEnded, ClaimQueued, QueuedOf
<1>6. ASSUME NEW h \in GpuTypes PROVE Cardinality(NeverEnded(h)') <= Quota[h]
  <2>1. CASE h = g
    <3>1. Cardinality(NeverEnded(g) \union S) <= Quota[g]
      BY <1>2, ClaimFits DEF QuotaInv
    <3>2. IsFiniteSet(NeverEnded(g) \union S)
      BY <1>3, RunsAssumption, FS_Subset DEF NeverEnded, QueuedOf
    <3>3. /\ Cardinality(NeverEnded(g)') <= Cardinality(NeverEnded(g) \union S)
          /\ Cardinality(NeverEnded(g)') \in Nat
          /\ Cardinality(NeverEnded(g) \union S) \in Nat
      BY <1>4, <3>2, FS_Subset, FS_CardinalityType
    <3> QED BY <2>1, <3>1, <3>3, QuotaAssumption
  <2>2. CASE h # g
    BY <1>5, <2>2 DEF QuotaInv, QuotaKept
  <2> QED BY <2>1, <2>2
<1>7. QuotaKept'
  BY <1>6 DEF QuotaKept
<1>8. EndedMarked'
  BY <1>1 DEF QuotaInv, EndedMarked, ClaimQueued, Terminal
<1>9. Snapshot'
  BY <1>2, <1>5 DEF QuotaInv, Snapshot, TypeOK
<1> QED BY <1>7, <1>8, <1>9 DEF QuotaInv

LEMMA InitQuota == Init => QuotaInv
<1> SUFFICES ASSUME Init PROVE QuotaInv
  OBVIOUS
<1>1. ASSUME NEW g PROVE NeverEnded(g) = {}
  BY DEF Init, RunTableInit, NeverEnded, Live
<1>2. QuotaKept
  BY <1>1, QuotaAssumption, FS_EmptySet DEF QuotaKept
<1>3. EndedMarked /\ Snapshot
  BY DEF Init, RunTableInit, EndedMarked, Snapshot, Terminal
<1> QED BY <1>2, <1>3 DEF QuotaInv

LEMMA NextQuota == TypeOK /\ TypeOK' /\ Handover /\ QuotaInv /\ [Next]_vars => QuotaInv'
<1> SUFFICES ASSUME TypeOK, TypeOK', Handover, QuotaInv, [Next]_vars PROVE QuotaInv'
  OBVIOUS
<1>0. EndedMarked
  BY DEF QuotaInv
<1>1. ASSUME NEW r \in Runs, Requests(r) \/ Provision(r) \/ Release(r) \/ Timeout(r)
      PROVE  QuotaInv'
  BY <1>0, <1>1, TaskQuota, NoNewLifeStep
<1>2. CASE Poll
  <2>1. CASE RecoverLeaked \/ RecoverOrphans \/ ReapProvisioning \/ ReapRunning
    <3>1. poller' # "claim"
      BY <2>1 DEF RecoverLeaked, RecoverOrphans, ReapProvisioning, ReapRunning
    <3>2. UNCHANGED runVars \/ \E s : ClaimTimedOut(s)
      BY <2>1 DEF RecoverLeaked, RecoverOrphans, ReapProvisioning, ReapRunning
    <3>3. NoNewLife
      BY <1>0, <3>2, RunsAssumption, NoNewLifeTransactions
    <3> QED BY <3>1, <3>3, NoNewLifeStep
  <2> QED BY <1>2, <2>1, CountQuota, ClaimQuota DEF Poll
<1>3. ASSUME NEW kept \in BOOLEAN, Crash(kept) PROVE QuotaInv'
  <2>1. poller' # "claim" /\ UNCHANGED runVars
    BY <1>3 DEF Crash
  <2> QED BY <1>0, <2>1, RunsAssumption, NoNewLifeTransactions, NoNewLifeStep
<1>4. CASE UNCHANGED vars
  <2>1. UNCHANGED <<runVars, pollVars>>
    BY <1>4 DEF vars
  <2> QED BY <1>0, <2>1, RunsAssumption, NoNewLifeTransactions, NoNewLifeStep
<1> QED BY <1>1, <1>2, <1>3, <1>4 DEF Next

\* The runs that have not ended since they were created never outnumber the
\* quota of their GPU type, whatever happens between the count and the claims
\* of poll_once, and across crashes.
THEOREM QuotaKeptHolds == Spec => []QuotaKept
<1>1. QuotaInv => QuotaKept
  BY DEF QuotaInv
<1>2. Spec => []QuotaInv
  BY TypeCorrect, HandoverHolds, InitQuota, NextQuota, PTL DEF Spec
<1> QED BY <1>1, <1>2, PTL
===============================================================================
