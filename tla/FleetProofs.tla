------------------------------ MODULE FleetProofs ------------------------------
(***************************************************************************)
(* The node rows and the VMs of a run, and what the orchestrator promises  *)
(* to CI: Orchestrator implements GpuFleet, for every value of its         *)
(* constants.                                                              *)
(***************************************************************************)
EXTENDS RefinementProofs

\* The tuple of the requests in flight names two variables: expand it everywhere.
USE DEF requestVars

-----------------------------------------------------------------------------
(***************************************************************************)
(* A task, a request or a release works on one run and leaves the rows,    *)
(* the VMs and the tasks of the others alone.  The invariants below are    *)
(* about one run each, so their proofs look at that run's own steps, at    *)
(* the polling loop and at crashes only.                                   *)
(***************************************************************************)

SameRun(q) ==
    status'[q] = status[q] /\ endedAt'[q] = endedAt[q] /\ resultRow'[q] = resultRow[q]

SameNode(q) == placeholder'[q] = placeholder[q] /\ instance'[q] = instance[q]

SameVms(q) == tracked'[q] = tracked[q] /\ stray'[q] = stray[q] /\ runner'[q] = runner[q]

SameTasks(q) ==
    /\ prov'[q] = prov[q]
    /\ handler'[q] = handler[q] /\ failing'[q] = failing[q]
    /\ \A k \in Origins : rel'[k][q] = rel[k][q]

Rests(q) == SameRun(q) /\ SameNode(q) /\ SameVms(q) /\ SameTasks(q)

Works(r) == Requests(r) \/ Provision(r) \/ Release(r) \/ Timeout(r)

LEMMA OtherRun ==
    ASSUME RunTableTypeOK, NEW r \in Runs, NEW q \in Runs, q # r,
           \/ UNCHANGED runVars
           \/ CreateRun(r) \/ SetRunning(r) \/ SetFailed(r) \/ CompleteRun(r)
           \/ RequeueForRetry(r) \/ Expire(r)
    PROVE  SameRun(q)
<1> USE DEF RunTableTypeOK, SameRun
<1>1. CASE UNCHANGED runVars BY <1>1 DEF runVars
<1>2. CASE CreateRun(r) BY <1>2 DEF CreateRun
<1>3. CASE SetRunning(r) BY <1>3 DEF SetRunning
<1>4. CASE SetFailed(r) BY <1>4 DEF SetFailed
<1>5. CASE CompleteRun(r) BY <1>5 DEF CompleteRun
<1>6. CASE RequeueForRetry(r) BY <1>6 DEF RequeueForRetry
<1>7. CASE Expire(r) BY <1>7 DEF Expire
<1> QED BY <1>1, <1>2, <1>3, <1>4, <1>5, <1>6, <1>7

LEMMA OtherNode ==
    ASSUME NodeTableTypeOK, NEW r \in Runs, NEW q \in Runs, q # r,
           \/ UNCHANGED nodeVars
           \/ CreateProvisioning(r) \/ SetBusy(r) \/ SetDownByRun(r)
    PROVE  SameNode(q)
  BY DEF NodeTableTypeOK, SameNode, nodeVars, CreateProvisioning, SetBusy, SetDownByRun

\* A request moves the runner it comes from; it boots none and stops none.
RunnerMoves(r) ==
    \E v \in Vms : \E u :
        /\ runner' = [runner EXCEPT ![r][v] = u]
        /\ u = "unbooted" <=> runner[r][v] = "unbooted"
        /\ UNCHANGED <<workspace, tracked, stray>>

LEMMA OtherVms ==
    ASSUME GpuCloudTypeOK, NEW r \in Runs, NEW q \in Runs, q # r, NEW U,
           \/ UNCHANGED cloudVars
           \/ StageWorkspace(r) \/ DestroyTracked(r)
           \/ CreateStopped(r, U) \/ Start(r, U)
           \/ (\E gone \in BOOLEAN : ForgetState(r, gone)) \/ RunnerMoves(r)
    PROVE  SameVms(q)
<1> USE DEF GpuCloudTypeOK, SameVms
<1>1. CASE UNCHANGED cloudVars BY <1>1 DEF cloudVars
<1>2. CASE StageWorkspace(r) BY <1>2 DEF StageWorkspace
<1>3. CASE DestroyTracked(r) BY <1>3 DEF DestroyTracked
<1>4. CASE CreateStopped(r, U) BY <1>4 DEF CreateStopped, Record
<1>5. CASE Start(r, U) BY <1>5 DEF Start, Record
<1>6. CASE \E gone \in BOOLEAN : ForgetState(r, gone) BY <1>6 DEF ForgetState
<1>7. CASE RunnerMoves(r) BY <1>7 DEF RunnerMoves
<1> QED BY <1>1, <1>2, <1>3, <1>4, <1>5, <1>6, <1>7

LEMMA RequestsRunner ==
    ASSUME TypeOK, NEW r \in Runs, Requests(r)
    PROVE  UNCHANGED cloudVars \/ RunnerMoves(r)
<1>1. ASSUME NEW v \in Vms, NEW next, Respond(r, v, next), next # "unbooted"
      PROVE  \E u : /\ runner' = [runner EXCEPT ![r][v] = u]
                    /\ u = "unbooted" <=> runner[r][v] = "unbooted"
                    /\ UNCHANGED <<workspace, tracked, stray>>
  BY <1>1 DEF Respond
<1>2. ASSUME NEW v \in Vms, PostComplete(r, v) \/ PostFail(r, v)
      PROVE  \E u : /\ runner' = [runner EXCEPT ![r][v] = u]
                    /\ u = "unbooted" <=> runner[r][v] = "unbooted"
                    /\ UNCHANGED <<workspace, tracked, stray>>
  BY <1>2 DEF PostComplete, PostFail
<1>3. ASSUME NEW v \in Vms, CompleteUpload(r, v) \/ CompleteCommit(r, v) \/ CompletePublish(r, v)
      PROVE  UNCHANGED cloudVars \/ Respond(r, v, "trap") \/ Respond(r, v, "off")
  BY <1>3 DEF CompleteUpload, CompleteCommit, CompletePublish
<1> QED BY <1>1, <1>2, <1>3 DEF RunnerMoves, Requests, Submit, FailCommit

\* How a release_node moves, whatever the outcome of its attempt.
RelMoves(k, r) == \E t : rel' = [rel EXCEPT ![k][r] = t]

LEMMA RelMovesOne ==
    ASSUME NEW k \in Origins, NEW r \in Runs,
           \/ \E step \in RelSteps : RelGoto(k, r, step)
           \/ RelReturns(k, r)
           \/ RelAttemptFails(k, r)
    PROVE  RelMoves(k, r)
  BY DEF RelGoto, RelReturns, RelAttemptFails, RelMoves

LEMMA ReleaseSpares ==
    ASSUME TypeOK, NEW r \in Runs, NEW q \in Runs, q # r, Release(r)
    PROVE  Rests(q) /\ UNCHANGED <<pollVars, crashes>>
<1>1. UNCHANGED <<prov, requestVars, pollVars, crashes>>
  BY DEF Release, RelDestroy, RelForget, RelDown, RelMarkFailed, OrphanRequeue
<1>2. UNCHANGED runVars \/ SetFailed(r) \/ RequeueForRetry(r)
  BY DEF Release, RelDestroy, RelForget, RelDown, RelMarkFailed, OrphanRequeue
<1>3. UNCHANGED nodeVars \/ SetDownByRun(r)
  BY DEF Release, RelDestroy, RelForget, RelDown, RelMarkFailed, OrphanRequeue
<1>4. UNCHANGED cloudVars \/ DestroyTracked(r) \/ \E gone \in BOOLEAN : ForgetState(r, gone)
  BY DEF Release, RelDestroy, RelForget, RelDown, RelMarkFailed, OrphanRequeue
<1>5. \E k \in Origins : RelMoves(k, r)
  BY RelMovesOne
     DEF Release, RelDestroy, RelForget, RelDown, RelMarkFailed, OrphanRequeue, RelSteps,
         Origins
<1>6. \A j \in Origins : rel'[j][q] = rel[j][q]
  BY <1>5 DEF RelMoves, TypeOK
<1> QED BY <1>1, <1>2, <1>3, <1>4, <1>6, OtherRun, OtherNode, OtherVms
        DEF TypeOK, Rests, SameTasks

LEMMA ProvisionSpares ==
    ASSUME TypeOK, NEW r \in Runs, NEW q \in Runs, q # r, Provision(r)
    PROVE  Rests(q) /\ UNCHANGED <<pollVars, crashes>>
<1>1. UNCHANGED <<requestVars, rel, pollVars, crashes>>
  BY DEF Provision, ProvNode, ProvStage, ProvApply, ProvOutput, ProvBusy, ProvRunning,
         ProvSafeDestroy, ProvSafeForget, ProvRequeue, TailDown, ProvDown, ProvFail,
         ProvGoto
<1>2. UNCHANGED prov \/ \E t : prov' = [prov EXCEPT ![r] = t]
  BY DEF Provision, ProvNode, ProvStage, ProvApply, ProvOutput, ProvBusy, ProvRunning,
         ProvSafeDestroy, ProvSafeForget, ProvRequeue, TailDown, ProvDown, ProvFail,
         ProvGoto
<1>3. UNCHANGED runVars \/ SetRunning(r) \/ SetFailed(r) \/ RequeueForRetry(r)
  BY DEF Provision, ProvNode, ProvStage, ProvApply, ProvOutput, ProvBusy, ProvRunning,
         ProvSafeDestroy, ProvSafeForget, ProvRequeue, TailDown, ProvDown, ProvFail
<1>4. UNCHANGED nodeVars \/ CreateProvisioning(r) \/ SetBusy(r) \/ SetDownByRun(r)
  BY DEF Provision, ProvNode, ProvStage, ProvApply, ProvOutput, ProvBusy, ProvRunning,
         ProvSafeDestroy, ProvSafeForget, ProvRequeue, TailDown, ProvDown, ProvFail
<1>5. \/ UNCHANGED cloudVars \/ StageWorkspace(r) \/ DestroyTracked(r)
      \/ CreateStopped(r, Answering(r)) \/ Start(r, Answering(r))
      \/ \E gone \in BOOLEAN : ForgetState(r, gone)
  BY DEF Provision, ProvNode, ProvStage, ProvApply, ApplyLacksCapacity, ApplyErrs,
         ProvOutput, ProvBusy, ProvRunning, ProvSafeDestroy, ProvSafeForget,
         ProvRequeue, TailDown, ProvDown, ProvFail
<1>6. prov'[q] = prov[q]
  BY <1>2 DEF TypeOK
<1> QED BY <1>1, <1>3, <1>4, <1>5, <1>6, OtherRun, OtherNode, OtherVms
        DEF TypeOK, Rests, SameTasks

LEMMA RequestsSpare ==
    ASSUME TypeOK, NEW r \in Runs, NEW q \in Runs, q # r, Requests(r)
    PROVE  Rests(q) /\ UNCHANGED <<pollVars, crashes>>
<1>1. UNCHANGED <<prov, nodeVars, pollVars, crashes>>
  BY DEF Requests, Submit, PostComplete, PostFail, CompleteUpload, CompleteCommit,
         CompletePublish, FailCommit, taskVars
<1>2. UNCHANGED runVars \/ CreateRun(r) \/ SetFailed(r) \/ CompleteRun(r)
  BY DEF Requests, Submit, PostComplete, PostFail, CompleteUpload, CompleteCommit,
         CompletePublish, FailCommit
<1>3. UNCHANGED handler \/ \E v \in Vms : \E h : handler' = [handler EXCEPT ![r][v] = h]
  BY DEF Requests, Submit, PostComplete, PostFail, CompleteUpload, CompleteCommit,
         CompletePublish, FailCommit, Respond, taskVars
<1>4. UNCHANGED rel \/ \E k \in Origins : StartRelease(k, {r})
  BY DEF Requests, Submit, PostComplete, PostFail, CompleteUpload, CompleteCommit,
         CompletePublish, FailCommit, Origins, taskVars
<1>5. UNCHANGED cloudVars \/ RunnerMoves(r)
  BY RequestsRunner
<1>6. handler'[q] = handler[q] /\ failing'[q] = failing[q]
  <2>1. UNCHANGED failing \/ \E n : failing' = [failing EXCEPT ![r] = n]
    BY DEF Requests, Submit, PostComplete, PostFail, CompleteUpload, CompleteCommit,
           CompletePublish, FailCommit, taskVars
  <2> QED BY <1>3, <2>1 DEF TypeOK
<1>7. \A j \in Origins : rel'[j][q] = rel[j][q]
  BY <1>4, StartReleaseSpares
<1> QED BY <1>1, <1>2, <1>5, <1>6, <1>7, OtherRun, OtherNode, OtherVms
        DEF TypeOK, Rests, SameTasks

LEMMA OthersRest ==
    ASSUME TypeOK, NEW r \in Runs, NEW q \in Runs, q # r, Works(r)
    PROVE  Rests(q) /\ UNCHANGED <<pollVars, crashes>>
<1>1. CASE Timeout(r)
  BY <1>1, OtherRun, OtherNode, OtherVms
     DEF Timeout, taskVars, TypeOK, Rests, SameTasks
<1> QED BY <1>1, ReleaseSpares, ProvisionSpares, RequestsSpare DEF Works

-----------------------------------------------------------------------------
(***************************************************************************)
(* Who may destroy a VM.  A release that is not the recovery of an orphan  *)
(* was started when its run was over, so the row has ended_at set; and     *)
(* ended_at is never cleared.                                              *)
(***************************************************************************)

Over(r) ==
    /\ status[r] \in Terminal => endedAt[r]
    /\ \A k \in Origins : rel[k][r] # "idle" => k = "orphan" \/ endedAt[r]
    /\ \A v \in Vms : handler[r][v] = "publish" => endedAt[r]

EndedFirst == \A r \in Runs : Over(r)

\* ended_at is set by every transaction that ends a run and cleared by none.
LEMMA EndedStays ==
    ASSUME RunTableTypeOK, NEW r \in Runs, NEW q \in Runs, NEW s, NEW S,
           \/ UNCHANGED runVars
           \/ CreateRun(r) \/ SetRunning(r) \/ SetFailed(r) \/ CompleteRun(r)
           \/ RequeueForRetry(r) \/ Expire(r)
           \/ ClaimTimedOut(s) \/ ClaimQueued(S)
    PROVE  /\ endedAt[q] => endedAt'[q]
           /\ status'[q] \in Terminal => status[q] \in Terminal \/ endedAt'[q]
<1> USE DEF RunTableTypeOK, Terminal
<1>1. CASE UNCHANGED runVars BY <1>1 DEF runVars
<1>2. CASE CreateRun(r) BY <1>2 DEF CreateRun
<1>3. CASE SetRunning(r) BY <1>3 DEF SetRunning
<1>4. CASE SetFailed(r) BY <1>4 DEF SetFailed
<1>5. CASE CompleteRun(r) BY <1>5 DEF CompleteRun
<1>6. CASE RequeueForRetry(r) BY <1>6 DEF RequeueForRetry
<1>7. CASE Expire(r) BY <1>7 DEF Expire
<1>8. CASE ClaimTimedOut(s) BY <1>8 DEF ClaimTimedOut
<1>9. CASE ClaimQueued(S) BY <1>9 DEF ClaimQueued
<1> QED BY <1>1, <1>2, <1>3, <1>4, <1>5, <1>6, <1>7, <1>8, <1>9

LEMMA OverStep ==
    ASSUME NEW q \in Runs, Over(q),
           endedAt[q] => endedAt'[q],
           status'[q] \in Terminal => status[q] \in Terminal \/ endedAt'[q],
           \A k \in Origins : rel'[k][q] # "idle" =>
               rel[k][q] # "idle" \/ k = "orphan" \/ endedAt'[q],
           \A v \in Vms : handler'[q][v] = "publish" =>
               handler[q][v] = "publish" \/ endedAt'[q]
    PROVE  Over(q)'
  BY DEF Over

LEMMA RestsOver ==
    ASSUME NEW q \in Runs, Over(q), Rests(q)
    PROVE  Over(q)'
  BY DEF Over, Rests, SameRun, SameTasks

\* A release that is started was not at work before, or is at work already.
LEMMA StartReleaseRel ==
    ASSUME TypeOK, NEW k \in Origins, NEW S, NEW q \in Runs, StartRelease(k, S)
    PROVE  \A j \in Origins :
               /\ rel[j][q] # "idle" => rel'[j][q] = rel[j][q]
               /\ rel'[j][q] # rel[j][q] => j = k /\ q \in S /\ rel'[j][q] = "destroy"
  BY DEF TypeOK, StartRelease

LEMMA WorksOver ==
    ASSUME TypeOK, EndedFirst, NEW r \in Runs, Works(r)
    PROVE  EndedFirst'
<1>0. Over(r)
  BY DEF EndedFirst
<1>1. CASE Timeout(r)
  <2>1. Over(r)'
    BY <1>0, <1>1, EndedStays, OverStep DEF Timeout, taskVars, TypeOK
  <2> QED BY <2>1, OthersRest, RestsOver DEF EndedFirst, Works
<1>2. CASE Release(r)
  <2>1. UNCHANGED runVars \/ SetFailed(r) \/ RequeueForRetry(r)
    BY <1>2 DEF Release, RelDestroy, RelForget, RelDown, RelMarkFailed, OrphanRequeue
  <2>2. UNCHANGED handler /\ \E k \in Origins : rel[k][r] # "idle" /\ RelMoves(k, r)
    BY <1>2, RelMovesOne
       DEF Release, RelDestroy, RelForget, RelDown, RelMarkFailed, OrphanRequeue,
           RelSteps, Origins
  <2>3. \A j \in Origins : rel'[j][r] # "idle" => rel[j][r] # "idle"
    BY <2>2 DEF RelMoves, TypeOK
  <2>4. Over(r)'
    BY <1>0, <2>1, <2>2, <2>3, EndedStays, OverStep DEF TypeOK
  <2> QED BY <1>2, <2>4, OthersRest, RestsOver DEF EndedFirst, Works
<1>3. CASE Provision(r)
  <2>1. UNCHANGED <<handler, rel>>
    BY <1>3 DEF Provision, ProvNode, ProvStage, ProvApply, ProvOutput, ProvBusy,
                ProvRunning, ProvSafeDestroy, ProvSafeForget, ProvRequeue, TailDown,
                ProvDown, ProvFail, ProvGoto
  <2>2. UNCHANGED runVars \/ SetRunning(r) \/ SetFailed(r) \/ RequeueForRetry(r)
    BY <1>3 DEF Provision, ProvNode, ProvStage, ProvApply, ProvOutput, ProvBusy,
                ProvRunning, ProvSafeDestroy, ProvSafeForget, ProvRequeue, TailDown,
                ProvDown, ProvFail
  <2>3. Over(r)'
    BY <1>0, <2>1, <2>2, EndedStays, OverStep DEF TypeOK
  <2> QED BY <1>3, <2>3, OthersRest, RestsOver DEF EndedFirst, Works
<1>4. CASE Requests(r)
  <2>1. UNCHANGED runVars \/ CreateRun(r) \/ SetFailed(r) \/ CompleteRun(r)
    BY <1>4 DEF Requests, Submit, PostComplete, PostFail, CompleteUpload,
                CompleteCommit, CompletePublish, FailCommit
  <2>2. /\ endedAt[r] => endedAt'[r]
        /\ status'[r] \in Terminal => status[r] \in Terminal \/ endedAt'[r]
    BY <2>1, EndedStays DEF TypeOK
  <2>3. ASSUME Submit(r) PROVE Over(r)'
    BY <1>0, <2>2, <2>3, OverStep DEF Submit, taskVars
  <2>4. ASSUME NEW v \in Vms, PostComplete(r, v) \/ PostFail(r, v) \/ CompleteUpload(r, v)
        PROVE  Over(r)'
    <3>1. UNCHANGED rel
      BY <2>4 DEF PostComplete, PostFail, CompleteUpload
    <3>2. UNCHANGED handler \/ \E h \in {"upload", "commit", "idle"} :
                                 handler' = [handler EXCEPT ![r][v] = h]
      BY <2>4 DEF PostComplete, PostFail, CompleteUpload, Respond, TypeOK
    <3>3. \A w \in Vms : handler'[r][w] = "publish" => handler[r][w] = "publish"
      BY <3>2 DEF TypeOK
    <3> QED BY <1>0, <2>2, <3>1, <3>3, OverStep
  <2>5. ASSUME NEW v \in Vms, CompleteCommit(r, v) PROVE Over(r)'
    <3>1. UNCHANGED rel
      BY <2>5 DEF CompleteCommit
    <3>2. CASE CompleteRun(r)
      <4>1. endedAt'[r]
        BY <3>2 DEF CompleteRun, TypeOK, RunTableTypeOK
      <4> QED BY <1>0, <2>2, <3>1, <4>1, OverStep
    <3>3. CASE Respond(r, v, "trap")
      <4>1. \A w \in Vms : handler'[r][w] = "publish" => handler[r][w] = "publish"
        BY <3>3 DEF Respond, TypeOK
      <4> QED BY <1>0, <2>2, <3>1, <4>1, OverStep
    <3> QED BY <2>5, <3>2, <3>3 DEF CompleteCommit
  <2>6. ASSUME NEW v \in Vms, CompletePublish(r, v) PROVE Over(r)'
    <3>1. endedAt[r]
      BY <1>0, <2>6 DEF CompletePublish, Over
    <3> QED BY <1>0, <2>2, <3>1, OverStep
  <2>7. ASSUME FailCommit(r) PROVE Over(r)'
    <3>1. endedAt'[r]
      BY <2>7 DEF FailCommit, SetFailed, TypeOK, RunTableTypeOK
    <3> QED BY <1>0, <2>2, <3>1, OverStep
  <2>8. Over(r)'
    BY <1>4, <2>3, <2>4, <2>5, <2>6, <2>7 DEF Requests
  <2> QED BY <1>4, <2>8, OthersRest, RestsOver DEF EndedFirst, Works
<1> QED BY <1>1, <1>2, <1>3, <1>4 DEF Works

LEMMA PollOver ==
    ASSUME TypeOK, EndedFirst, Poll
    PROVE  EndedFirst'
<1> SUFFICES ASSUME NEW q \in Runs PROVE Over(q)'
  BY DEF EndedFirst
<1>0. Over(q) /\ UNCHANGED handler
  BY DEF EndedFirst, Poll, RecoverLeaked, RecoverOrphans, PollCount, PollClaim,
         ReapProvisioning, ReapRunning, taskVars
<1>1. \/ UNCHANGED runVars
      \/ \E s : ClaimTimedOut(s)
      \/ \E S : ClaimQueued(S)
  BY DEF Poll, RecoverLeaked, RecoverOrphans, PollCount, PollClaim, ReapProvisioning,
         ReapRunning
<1>2. /\ endedAt[q] => endedAt'[q]
      /\ status'[q] \in Terminal => status[q] \in Terminal \/ endedAt'[q]
  BY <1>1, EndedStays DEF TypeOK
<1>3. \A k \in Origins : rel'[k][q] # "idle" =>
        rel[k][q] # "idle" \/ k = "orphan" \/ endedAt'[q]
  <2>1. CASE RecoverLeaked
    <3>1. q \in Leaked({r \in Runs : status[r] \in Terminal}) => endedAt[q]
      BY <1>0 DEF Leaked, Over
    <3> QED BY <1>2, <2>1, <3>1, StartReleaseRel DEF RecoverLeaked, Origins
  <2>2. CASE RecoverOrphans
    BY <2>2, StartReleaseRel DEF RecoverOrphans, Origins
  <2>3. CASE ReapProvisioning
    <3>1. q \in TimedOut("provisioning") => endedAt'[q]
      BY <2>3 DEF ReapProvisioning, ClaimTimedOut
    <3> QED BY <2>3, <3>1, StartReleaseRel DEF ReapProvisioning, Origins
  <2>4. CASE ReapRunning
    <3>1. q \in TimedOut("running") => endedAt'[q]
      BY <2>4 DEF ReapRunning, ClaimTimedOut
    <3> QED BY <2>4, <3>1, StartReleaseRel DEF ReapRunning, Origins
  <2>5. CASE PollCount \/ \E g \in GpuTypes : PollClaim(g)
    BY <2>5 DEF PollCount, PollClaim, taskVars
  <2> QED BY <2>1, <2>2, <2>3, <2>4, <2>5 DEF Poll
<1> QED BY <1>0, <1>2, <1>3, OverStep

LEMMA NextOver == TypeOK /\ EndedFirst /\ [Next]_vars => EndedFirst'
<1> SUFFICES ASSUME TypeOK, EndedFirst, [Next]_vars PROVE EndedFirst'
  OBVIOUS
<1>1. ASSUME NEW kept \in BOOLEAN, Crash(kept) PROVE EndedFirst'
  BY <1>1 DEF Crash, runVars, EndedFirst, Over, NoRequest, NoRelease, NoTask
<1>2. CASE UNCHANGED vars
  BY <1>2 DEF vars, runVars, taskVars, EndedFirst, Over
<1> QED BY <1>1, <1>2, WorksOver, PollOver DEF Next, Works

LEMMA InitOver == Init => EndedFirst
  BY DEF Init, RunTableInit, EndedFirst, Over, Terminal, NoRequest, NoRelease, NoTask

LEMMA EndedFirstHolds == Spec => []EndedFirst
  BY TypeCorrect, InitOver, NextOver, PTL DEF Spec

-----------------------------------------------------------------------------
(***************************************************************************)
(* A run in provisioning is somebody's work.  ProvisioningIsOwned is       *)
(* inductive once the type is known: a task lets go of a run by moving its *)
(* status on, or because two node rows stopped it; and two node rows never *)
(* become one again.                                                       *)
(***************************************************************************)

Owned(r) ==
    status[r] = "provisioning" /\ ~Booting => Provisioner(r) \/ Recovery(r) \/ Ambiguous(r)

LEMMA AmbiguousStays ==
    ASSUME NodeTableTypeOK, NEW r \in Runs, NEW q \in Runs, Ambiguous(q),
           \/ UNCHANGED nodeVars
           \/ CreateProvisioning(r) \/ SetBusy(r) \/ SetDownByRun(r)
    PROVE  Ambiguous(q)'
  BY DEF NodeTableTypeOK, nodeVars, Ambiguous, CreateProvisioning, SetBusy, SetDownByRun

LEMMA RestsOwned ==
    ASSUME NEW q \in Runs, Owned(q), Rests(q), UNCHANGED poller
    PROVE  Owned(q)'
<1>1. "orphan" \in Origins
  BY DEF Origins
<1> QED BY <1>1 DEF Owned, Rests, SameRun, SameNode, SameTasks, Booting, Provisioner,
                    Recovery, Ambiguous

LEMMA OwnedStep ==
    ASSUME NEW q \in Runs, Owned(q), Booting' <=> Booting,
           status'[q] = "provisioning" =>
               /\ status[q] = "provisioning"
               /\ Provisioner(q) => Provisioner(q)' \/ Ambiguous(q)'
               /\ Recovery(q) => Recovery(q)'
               /\ Ambiguous(q) => Ambiguous(q)'
    PROVE  Owned(q)'
  BY DEF Owned

LEMMA ReleaseOwned ==
    ASSUME TypeOK, NEW r \in Runs, Owned(r), Release(r)
    PROVE  Owned(r)'
<1>1. UNCHANGED <<prov, pollVars>> /\ (UNCHANGED nodeVars \/ SetDownByRun(r))
  BY DEF Release, RelDestroy, RelForget, RelDown, RelMarkFailed, OrphanRequeue
<1>2. /\ Provisioner(r)' <=> Provisioner(r)
      /\ Ambiguous(r) => Ambiguous(r)'
      /\ Booting' <=> Booting
  BY <1>1, AmbiguousStays DEF Provisioner, Booting, pollVars, TypeOK
<1>3. ASSUME NEW k \in Origins, RelDestroy(k, r) \/ RelForget(k, r) \/ RelDown(k, r)
      PROVE  Owned(r)'
  <2>1. UNCHANGED runVars
    BY <1>3 DEF RelDestroy, RelForget, RelDown
  <2>2. \E t : rel' = [rel EXCEPT ![k][r] = t] /\ (k = "orphan" => t # "idle")
    BY <1>3 DEF RelDestroy, RelForget, RelDown, RelGoto, RelReturns, RelAttemptFails,
                AfterRelease
  <2>3. Recovery(r) => Recovery(r)'
    BY <2>2 DEF Recovery, TypeOK, Origins
  <2> QED BY <1>2, <2>1, <2>3, OwnedStep DEF runVars
<1>4. ASSUME NEW k \in Origins, RelMarkFailed(k, r) PROVE Owned(r)'
  BY <1>4 DEF RelMarkFailed, SetFailed, Owned, TypeOK, RunTableTypeOK
<1>5. CASE OrphanRequeue(r)
  <2>1. CASE BudgetSpent(r)
    <3>1. Recovery(r)'
      BY <1>5, <2>1 DEF OrphanRequeue, RelGoto, Recovery, TypeOK, Origins
    <3> QED BY <3>1 DEF Owned
  <2>2. CASE ~BudgetSpent(r)
    BY <1>5, <2>2 DEF OrphanRequeue, RequeueForRetry, Owned, TypeOK, RunTableTypeOK
  <2> QED BY <2>1, <2>2
<1> QED BY <1>3, <1>4, <1>5 DEF Release

LEMMA ProvisionOwned ==
    ASSUME TypeOK, NEW r \in Runs, Owned(r), Provision(r)
    PROVE  Owned(r)'
<1>1. /\ UNCHANGED <<rel, pollVars>>
      /\ UNCHANGED nodeVars \/ CreateProvisioning(r) \/ SetBusy(r) \/ SetDownByRun(r)
  BY DEF Provision, ProvNode, ProvStage, ProvApply, ProvOutput, ProvBusy, ProvRunning,
         ProvSafeDestroy, ProvSafeForget, ProvRequeue, TailDown, ProvDown, ProvFail,
         ProvGoto
<1>2. /\ Recovery(r)' <=> Recovery(r)
      /\ Ambiguous(r) => Ambiguous(r)'
      /\ Booting' <=> Booting
  BY <1>1, AmbiguousStays DEF Recovery, Booting, pollVars, TypeOK
<1>3. CASE \/ ProvNode(r) \/ ProvStage(r) \/ ProvApply(r) \/ ProvOutput(r) \/ ProvBusy(r)
           \/ ProvSafeDestroy(r) \/ ProvSafeForget(r)
  <2>1. UNCHANGED runVars /\ \E t : t # "idle" /\ prov' = [prov EXCEPT ![r] = t]
    BY <1>3 DEF ProvNode, ProvStage, ProvApply, ProvOutput, ProvBusy, ProvSafeDestroy,
                ProvSafeForget, ProvGoto
  <2>2. Provisioner(r)'
    BY <2>1 DEF Provisioner, TypeOK
  <2> QED BY <2>2 DEF Owned
<1>4. CASE TailDown(r)
  BY <1>2, <1>4, OwnedStep DEF TailDown, runVars, Provisioner
<1>5. CASE ProvDown(r)
  <2>1. CASE Ambiguous(r)
    BY <1>2, <2>1 DEF Owned
  <2>2. CASE ~Ambiguous(r)
    <3>1. Provisioner(r)'
      BY <1>5, <2>2 DEF ProvDown, ProvGoto, Provisioner, TypeOK
    <3> QED BY <3>1 DEF Owned
  <2> QED BY <2>1, <2>2
<1>6. CASE ProvRunning(r) \/ ProvFail(r)
  BY <1>6 DEF ProvRunning, ProvFail, SetRunning, SetFailed, Owned, TypeOK, RunTableTypeOK
<1>7. CASE ProvRequeue(r)
  <2>1. CASE BudgetSpent(r)
    <3>1. Provisioner(r)'
      BY <1>7, <2>1 DEF ProvRequeue, Provisioner, TypeOK
    <3> QED BY <3>1 DEF Owned
  <2>2. CASE ~BudgetSpent(r)
    BY <1>7, <2>2 DEF ProvRequeue, RequeueForRetry, Owned, TypeOK, RunTableTypeOK
  <2> QED BY <2>1, <2>2
<1> QED BY <1>3, <1>4, <1>5, <1>6, <1>7 DEF Provision

LEMMA RequestsOwned ==
    ASSUME TypeOK, NEW r \in Runs, Owned(r), Requests(r)
    PROVE  Owned(r)'
<1>1. UNCHANGED <<prov, nodeVars, pollVars>>
  BY DEF Requests, Submit, PostComplete, PostFail, CompleteUpload, CompleteCommit,
         CompletePublish, FailCommit, taskVars
<1>2. UNCHANGED runVars \/ CreateRun(r) \/ SetFailed(r) \/ CompleteRun(r)
  BY DEF Requests, Submit, PostComplete, PostFail, CompleteUpload, CompleteCommit,
         CompletePublish, FailCommit
<1>3. status'[r] = "provisioning" => status[r] = "provisioning"
  BY <1>2 DEF runVars, CreateRun, SetFailed, CompleteRun, TypeOK, RunTableTypeOK
<1>4. UNCHANGED rel \/ \E k \in Origins : StartRelease(k, {r})
  BY DEF Requests, Submit, PostComplete, PostFail, CompleteUpload, CompleteCommit,
         CompletePublish, FailCommit, Origins, taskVars
<1>5. Recovery(r) => Recovery(r)'
  BY <1>4, StartReleaseRel DEF Recovery, Origins
<1> QED BY <1>1, <1>3, <1>5, OwnedStep
        DEF pollVars, nodeVars, Booting, Provisioner, Ambiguous

LEMMA PollOwned ==
    ASSUME TypeOK, NEW q \in Runs, Owned(q), Poll
    PROVE  Owned(q)'
<1>1. UNCHANGED nodeVars
  BY DEF Poll, RecoverLeaked, RecoverOrphans, PollCount, PollClaim, ReapProvisioning,
         ReapRunning
<1>2. CASE RecoverLeaked
  BY <1>2 DEF RecoverLeaked, Owned, Booting
<1>3. CASE RecoverOrphans
  <2>1. status'[q] = "provisioning" => Recovery(q)'
    BY <1>3 DEF RecoverOrphans, StartRelease, InProvisioning, runVars, Recovery, TypeOK,
                Origins
  <2> QED BY <2>1 DEF Owned
<1>4. CASE PollCount
  BY <1>1, <1>4 DEF PollCount, runVars, taskVars, nodeVars, Owned, Booting, Provisioner,
                    Recovery, Ambiguous
<1>5. ASSUME NEW g \in GpuTypes, PollClaim(g) PROVE Owned(q)'
  <2>1. PICK S \in ClaimSets(g) :
          /\ ClaimQueued(S)
          /\ prov' = [r \in Runs |-> IF r \in S THEN "node" ELSE prov[r]]
    BY <1>5 DEF PollClaim
  <2>2. UNCHANGED rel /\ ~Booting /\ ~Booting'
    BY <1>5 DEF PollClaim, Booting
  <2> QED BY <1>1, <2>1, <2>2
          DEF ClaimQueued, Owned, Provisioner, Recovery, Ambiguous, nodeVars
<1>6. CASE ReapProvisioning \/ ReapRunning
  <2>1. UNCHANGED prov /\ ~Booting /\ ~Booting'
    BY <1>6 DEF ReapProvisioning, ReapRunning, Booting
  <2>2. Recovery(q) => Recovery(q)'
    BY <1>6, StartReleaseRel DEF ReapProvisioning, ReapRunning, Recovery, Origins
  <2>3. status'[q] = "provisioning" => status[q] = "provisioning"
    BY <1>6 DEF ReapProvisioning, ReapRunning, ClaimTimedOut
  <2> QED BY <1>1, <2>1, <2>2, <2>3, OwnedStep DEF nodeVars, Provisioner, Ambiguous
<1> QED BY <1>2, <1>3, <1>4, <1>5, <1>6 DEF Poll

\* A run whose row says provisioning is never forgotten: once the recoveries
\* of startup are over, a task or a recovery is at work on it, or two node
\* rows (the trace of an earlier crash) have stopped the one that was.
THEOREM ProvisioningIsOwnedHolds == Spec => []ProvisioningIsOwned
<1>1. ProvisioningIsOwned <=> \A r \in Runs : Owned(r)
  BY DEF ProvisioningIsOwned, Owned
<1>2. Init => \A r \in Runs : Owned(r)
  BY DEF Init, RunTableInit, Owned
<1>3. TypeOK /\ (\A r \in Runs : Owned(r)) /\ [Next]_vars => (\A r \in Runs : Owned(r))'
  <2> SUFFICES ASSUME TypeOK, \A r \in Runs : Owned(r), [Next]_vars, NEW q \in Runs
               PROVE  Owned(q)'
    OBVIOUS
  <2>1. ASSUME NEW r \in Runs, Works(r) PROVE Owned(q)'
    <3>1. CASE q # r
      BY <2>1, <3>1, OthersRest, RestsOwned DEF pollVars
    <3>2. CASE Timeout(r)
      BY <3>2 DEF Timeout, Expire, nodeVars, taskVars, pollVars, Owned, Booting,
                  Provisioner, Recovery, Ambiguous
    <3> QED BY <2>1, <3>1, <3>2, ReleaseOwned, ProvisionOwned, RequestsOwned DEF Works
  <2>2. ASSUME NEW kept \in BOOLEAN, Crash(kept) PROVE Owned(q)'
    BY <2>2 DEF Crash, Owned, Booting
  <2>3. CASE UNCHANGED vars
    BY <2>3 DEF vars, runVars, nodeVars, taskVars, pollVars, Owned, Booting, Provisioner,
                Recovery, Ambiguous
  <2> QED BY <2>1, <2>2, <2>3, PollOwned DEF Next, Works
<1>4. Spec => [](\A r \in Runs : Owned(r))
  BY TypeCorrect, <1>2, <1>3, PTL DEF Spec
<1> QED BY <1>1, <1>4, PTL

-----------------------------------------------------------------------------
(***************************************************************************)
(* The VM of a running run.  The provisioning task sees the VM up when it  *)
(* reads the outputs, and marks the run running two awaits later: Homed    *)
(* carries the VM over them.  While a run that never ended runs, nobody    *)
(* destroys: releases work on ended runs (Over), the safe destroy and the  *)
(* recovery of orphans on runs that are not running (Handover).            *)
(***************************************************************************)

Homed(r) ==
    (status[r] = "running" \/ prov[r] \in {"busy", "running"}) /\ ~endedAt[r] => Up(r)

LEMMA UpStays ==
    ASSUME GpuCloudTypeOK, NEW r \in Runs, Up(r), NEW U,
           \/ UNCHANGED cloudVars
           \/ StageWorkspace(r) \/ CreateStopped(r, U) \/ Start(r, U)
           \/ RunnerMoves(r)
    PROVE  Up(r)'
<1> USE DEF GpuCloudTypeOK, Up
<1>1. CASE UNCHANGED cloudVars BY <1>1 DEF cloudVars
<1>2. CASE StageWorkspace(r) BY <1>2 DEF StageWorkspace
<1>3. CASE CreateStopped(r, U) BY <1>3 DEF CreateStopped
<1>4. CASE Start(r, U)
  <2>1. PICK v \in VmFor(r, U) :
          /\ Record(r, v)
          /\ runner' = [runner EXCEPT ![r][v] = IF @ = "unbooted" THEN "work" ELSE @]
    BY <1>4 DEF Start
  <2>2. v \in Vms /\ tracked'[r] = {v}
    BY <2>1 DEF VmFor, Record
  <2>3. runner'[r][v] # "unbooted"
    BY <2>1, <2>2
  <2> QED BY <2>2, <2>3
<1>5. CASE RunnerMoves(r) BY <1>5 DEF RunnerMoves
<1> QED BY <1>1, <1>2, <1>3, <1>4, <1>5

LEMMA RestsHomed ==
    ASSUME NEW q \in Runs, Homed(q), Rests(q)
    PROVE  Homed(q)'
  BY DEF Homed, Rests, SameRun, SameVms, SameTasks, Up

LEMMA HomedStep ==
    ASSUME NEW q \in Runs, Homed(q), endedAt[q] => endedAt'[q],
           status'[q] = "running" => status[q] = "running" \/ prov[q] = "running",
           prov'[q] \in {"busy", "running"} => prov[q] \in {"busy", "running"},
           Up(q) => Up(q)'
    PROVE  Homed(q)'
  BY DEF Homed

LEMMA ReleaseHomed ==
    ASSUME TypeOK, Handover, EndedFirst, NEW r \in Runs, Homed(r), Release(r)
    PROVE  Homed(r)'
<1>1. UNCHANGED prov /\ (UNCHANGED runVars \/ SetFailed(r) \/ RequeueForRetry(r))
  BY DEF Release, RelDestroy, RelForget, RelDown, RelMarkFailed, OrphanRequeue
<1>2. endedAt[r] => endedAt'[r]
  BY <1>1, EndedStays DEF TypeOK
<1>3. status'[r] = "running" => status[r] = "running"
  BY <1>1 DEF runVars, SetFailed, RequeueForRetry, TypeOK, RunTableTypeOK
<1>4. endedAt[r] \/ Recovery(r)
  BY DEF EndedFirst, Over, Recovery, Release, RelDestroy, RelForget, RelDown,
         RelMarkFailed, OrphanRequeue
<1>5. CASE endedAt[r]
  BY <1>2, <1>5 DEF Homed
<1>6. CASE Recovery(r)
  <2>1. status[r] # "running" /\ prov[r] = "idle"
    BY <1>6 DEF Handover, HandedOver, NobodyMoves, Provisioner
  <2> QED BY <1>1, <1>3, <2>1 DEF Homed
<1> QED BY <1>4, <1>5, <1>6

LEMMA ProvisionHomed ==
    ASSUME TypeOK, Handover, NEW r \in Runs, Homed(r), Provision(r)
    PROVE  Homed(r)'
<1>1. UNCHANGED runVars \/ SetRunning(r) \/ SetFailed(r) \/ RequeueForRetry(r)
  BY DEF Provision, ProvNode, ProvStage, ProvApply, ProvOutput, ProvBusy, ProvRunning,
         ProvSafeDestroy, ProvSafeForget, ProvRequeue, TailDown, ProvDown, ProvFail
<1>2. endedAt[r] => endedAt'[r]
  BY <1>1, EndedStays DEF TypeOK
<1>3. Provisioner(r) => status[r] # "running"
  BY DEF Handover, HandedOver, NobodyMoves
<1>4. CASE TailDown(r)
  BY <1>4 DEF TailDown, runVars, cloudVars, Homed, Up
<1>5. CASE ProvBusy(r) \/ ProvRunning(r)
  <2>1. UNCHANGED cloudVars /\ prov[r] \in {"busy", "running"}
    BY <1>5 DEF ProvBusy, ProvRunning
  <2>2. Homed(r) /\ (~endedAt[r] => Up(r))
    BY <2>1 DEF Homed
  <2> QED BY <1>2, <2>1, <2>2 DEF Homed, Up, cloudVars
<1>6. CASE ProvOutput(r)
  <2>1. UNCHANGED <<runVars, cloudVars>> /\ status[r] # "running"
    BY <1>3, <1>6 DEF ProvOutput, Provisioner
  <2>2. prov'[r] = "busy" => Up(r)
    BY <1>6 DEF ProvOutput, OutputReadable, ProvGoto, TypeOK
  <2>3. prov'[r] # "running"
    BY <1>6 DEF ProvOutput, ProvGoto, TypeOK
  <2> QED BY <2>1, <2>2, <2>3 DEF Homed, Up, cloudVars, runVars
<1>7. CASE \/ ProvNode(r) \/ ProvStage(r) \/ ProvApply(r) \/ ProvSafeDestroy(r)
           \/ ProvSafeForget(r) \/ ProvRequeue(r) \/ ProvDown(r) \/ ProvFail(r)
  <2>1. Provisioner(r)
    BY <1>7 DEF ProvNode, ProvStage, ProvApply, ProvSafeDestroy, ProvSafeForget,
                ProvRequeue, ProvDown, ProvFail, Provisioner
  <2>2. \E t : prov' = [prov EXCEPT ![r] = t] /\ t \notin {"busy", "running"}
    BY <1>7 DEF ProvNode, ProvStage, ProvApply, ProvSafeDestroy, ProvSafeForget,
                ProvRequeue, ProvDown, ProvFail, ProvGoto
  <2>3. UNCHANGED runVars \/ SetFailed(r) \/ RequeueForRetry(r)
    BY <1>7 DEF ProvNode, ProvStage, ProvApply, ProvSafeDestroy, ProvSafeForget,
                ProvRequeue, ProvDown, ProvFail
  <2>4. status'[r] = "running" => status[r] = "running"
    BY <2>3 DEF runVars, SetFailed, RequeueForRetry, TypeOK, RunTableTypeOK
  <2> QED BY <1>3, <2>1, <2>2, <2>4 DEF Homed, TypeOK
<1> QED BY <1>4, <1>5, <1>6, <1>7 DEF Provision

LEMMA RequestsHomed ==
    ASSUME TypeOK, NEW r \in Runs, Homed(r), Requests(r)
    PROVE  Homed(r)'
<1>1. /\ UNCHANGED prov
      /\ UNCHANGED runVars \/ CreateRun(r) \/ SetFailed(r) \/ CompleteRun(r)
  BY DEF Requests, Submit, PostComplete, PostFail, CompleteUpload, CompleteCommit,
         CompletePublish, FailCommit, taskVars
<1>2. endedAt[r] => endedAt'[r]
  BY <1>1, EndedStays DEF TypeOK
<1>3. status'[r] = "running" => status[r] = "running"
  BY <1>1 DEF runVars, CreateRun, SetFailed, CompleteRun, TypeOK, RunTableTypeOK
<1>4. Up(r) => Up(r)'
  BY RequestsRunner, UpStays DEF TypeOK
<1> QED BY <1>1, <1>2, <1>3, <1>4, HomedStep

LEMMA PollHomed ==
    ASSUME TypeOK, NEW q \in Runs, Homed(q), Poll
    PROVE  Homed(q)'
<1>1. /\ UNCHANGED cloudVars
      /\ \/ UNCHANGED runVars
         \/ \E s : ClaimTimedOut(s)
         \/ \E S : ClaimQueued(S)
  BY DEF Poll, RecoverLeaked, RecoverOrphans, PollCount, PollClaim, ReapProvisioning,
         ReapRunning
<1>2. endedAt[q] => endedAt'[q]
  BY <1>1, EndedStays DEF TypeOK
<1>3. status'[q] = "running" => status[q] = "running"
  BY <1>1 DEF runVars, ClaimTimedOut, ClaimQueued
<1>4. prov'[q] \in {"busy", "running"} => prov[q] \in {"busy", "running"}
  BY DEF Poll, RecoverLeaked, RecoverOrphans, PollCount, PollClaim, ReapProvisioning,
         ReapRunning, taskVars
<1>5. Up(q)' <=> Up(q)
  BY <1>1 DEF Up, cloudVars
<1> QED BY <1>2, <1>3, <1>4, <1>5, HomedStep

LEMMA CrashHomed ==
    ASSUME TypeOK, NEW q \in Runs, Homed(q), NEW kept \in BOOLEAN, Crash(kept)
    PROVE  Homed(q)'
<1>1. UNCHANGED runVars /\ prov'[q] = "idle"
  BY DEF Crash, NoTask
<1>2. PICK made \in Unrecorded : CloudAfterCrash(made, kept)
  BY DEF Crash
<1>3. Up(q) => Up(q)'
  BY <1>2 DEF CloudAfterCrash, Up, TypeOK, GpuCloudTypeOK
<1> QED BY <1>1, <1>3, HomedStep DEF runVars

\* While a run that was never ended is running, its recorded VM is up: no
\* release that a watchdog, a request or a recovery started for an earlier
\* life of the run reaches it.
THEOREM RunningHasVmHolds == Spec => []RunningHasVm
<1> DEFINE Homes == \A r \in Runs : Homed(r)
<1>1. Init => Homes
  BY DEF Init, RunTableInit, NoTask, Homed
<1>2. TypeOK /\ Handover /\ EndedFirst /\ Homes /\ [Next]_vars => Homes'
  <2> SUFFICES ASSUME TypeOK, Handover, EndedFirst, Homes, [Next]_vars, NEW q \in Runs
               PROVE  Homed(q)'
    OBVIOUS
  <2>1. ASSUME NEW r \in Runs, Works(r) PROVE Homed(q)'
    <3>1. CASE q # r
      BY <2>1, <3>1, OthersRest, RestsHomed
    <3>2. CASE Timeout(r)
      BY <3>2 DEF Timeout, Expire, cloudVars, taskVars, Homed, Up
    <3> QED BY <2>1, <3>1, <3>2, ReleaseHomed, ProvisionHomed, RequestsHomed DEF Works
  <2>2. CASE UNCHANGED vars
    BY <2>2 DEF vars, runVars, cloudVars, taskVars, Homed, Up
  <2> QED BY <2>1, <2>2, PollHomed, CrashHomed DEF Next, Works
<1>3. Homes => RunningHasVm
  BY DEF Homed, RunningHasVm
<1> HIDE DEF Homes
<1> QED BY TypeCorrect, HandoverHolds, EndedFirstHolds, <1>1, <1>2, <1>3, PTL DEF Spec

-----------------------------------------------------------------------------
(***************************************************************************)
(* Which VM reports.  As long as no VM of the run has lost its record, a   *)
(* booted runner is the recorded VM's, there is one recorded VM at most,   *)
(* and while a /complete is in flight nobody applies: a second reporter    *)
(* would have to be a second VM.                                           *)
(***************************************************************************)

Booted(r, v) == runner[r][v] # "unbooted"

Recorded(r) ==
    /\ \A v, w \in tracked[r] : v = w
    /\ stray[r] = {} => \A v \in Vms : Booted(r, v) => v \in tracked[r]

Delivers(r, v) == handler[r][v] \in {"upload", "commit", "publish"}

Commits(r, v) == handler[r][v] \in {"upload", "commit"}

OneReporter(r) ==
    stray[r] = {} =>
        /\ \A v, w \in Vms : Delivers(r, v) /\ (Delivers(r, w) \/ Booted(r, w)) => v = w
        /\ resultRow[r] => \A v \in Vms : ~Commits(r, v)

\* What the steps of the orchestrator do to the VMs of a run, crashes apart.
VmMoves(r) ==
    \/ UNCHANGED cloudVars
    \/ StageWorkspace(r) \/ DestroyTracked(r)
    \/ prov[r] = "apply" /\ (CreateStopped(r, Answering(r)) \/ Start(r, Answering(r)))
    \/ (\E gone \in BOOLEAN : ForgetState(r, gone)) \/ RunnerMoves(r)

LEMMA WorksVms ==
    ASSUME TypeOK, NEW r \in Runs, Works(r)
    PROVE  VmMoves(r)
<1>1. CASE Requests(r)
  BY <1>1, RequestsRunner DEF VmMoves
<1>2. CASE Provision(r)
  BY <1>2 DEF VmMoves, Provision, ProvNode, ProvStage, ProvApply, ApplyLacksCapacity,
              ApplyErrs, ProvOutput, ProvBusy, ProvRunning, ProvSafeDestroy,
              ProvSafeForget, ProvRequeue, TailDown, ProvDown, ProvFail
<1>3. CASE Release(r)
  BY <1>3 DEF VmMoves, Release, RelDestroy, RelForget, RelDown, RelMarkFailed,
              OrphanRequeue
<1>4. CASE Timeout(r)
  BY <1>4 DEF VmMoves, Timeout
<1> QED BY <1>1, <1>2, <1>3, <1>4 DEF Works

\* What a move does to the records and the runners of the run.
LEMMA MovedVms ==
    ASSUME TypeOK, NEW r \in Runs, Recorded(r), VmMoves(r)
    PROVE  /\ Recorded(r)'
           /\ stray[r] \subseteq stray'[r]
           /\ (\A v \in Vms : Booted(r, v)' => Booted(r, v)) \/ prov[r] = "apply"
<1> USE DEF TypeOK, GpuCloudTypeOK, Recorded, Booted
<1>1. CASE UNCHANGED cloudVars
  BY <1>1 DEF cloudVars
<1>2. CASE StageWorkspace(r)
  BY <1>2 DEF StageWorkspace
<1>3. CASE DestroyTracked(r)
  <2>1. tracked'[r] = {} /\ stray' = stray
    BY <1>3 DEF DestroyTracked
  <2>2. \A v \in Vms : runner'[r][v] = IF v \in tracked[r] THEN "unbooted" ELSE runner[r][v]
    BY <1>3 DEF DestroyTracked
  <2> QED BY <2>1, <2>2
<1>4. CASE prov[r] = "apply" /\ CreateStopped(r, Answering(r))
  <2>1. /\ tracked[r] = {} /\ stray' = stray /\ runner' = runner
        /\ \E v \in Vms : tracked'[r] = {v}
    BY <1>4 DEF CreateStopped, VmFor, Record
  <2> QED BY <1>4, <2>1
<1>5. CASE prov[r] = "apply" /\ Start(r, Answering(r))
  <2>1. PICK v \in VmFor(r, Answering(r)) :
          /\ Record(r, v)
          /\ runner' = [runner EXCEPT ![r][v] = IF @ = "unbooted" THEN "work" ELSE @]
    BY <1>5 DEF Start
  <2>2. v \in Vms /\ tracked'[r] = {v} /\ stray' = stray
    BY <2>1 DEF VmFor, Record
  <2>3. tracked[r] \subseteq {v}
    BY <2>1 DEF VmFor
  <2>4. \A w \in Vms : w # v => runner'[r][w] = runner[r][w]
    BY <2>1, <2>2
  <2> QED BY <1>5, <2>2, <2>3, <2>4
<1>6. CASE \E gone \in BOOLEAN : ForgetState(r, gone)
  <2>1. PICK gone \in BOOLEAN : ForgetState(r, gone)
    BY <1>6
  <2>2. /\ runner' = runner
        /\ stray'[r] = IF gone THEN stray[r] \union tracked[r] ELSE stray[r]
        /\ tracked'[r] = IF gone THEN {} ELSE tracked[r]
    BY <2>1 DEF ForgetState
  <2> QED BY <2>2
<1>7. CASE RunnerMoves(r)
  <2>1. \A w \in Vms : runner'[r][w] = "unbooted" <=> runner[r][w] = "unbooted"
    BY <1>7 DEF RunnerMoves
  <2> QED BY <1>7, <2>1 DEF RunnerMoves
<1> QED BY <1>1, <1>2, <1>3, <1>4, <1>5, <1>6, <1>7 DEF VmMoves

LEMMA RestsReporter ==
    ASSUME NEW q \in Runs, Rests(q)
    PROVE  /\ Recorded(q) => Recorded(q)'
           /\ OneReporter(q) => OneReporter(q)'
  BY DEF Recorded, OneReporter, Delivers, Commits, Booted, Rests, SameRun, SameVms,
         SameTasks

LEMMA ReporterStep ==
    ASSUME NEW q \in Runs, OneReporter(q),
           stray[q] \subseteq stray'[q],
           resultRow'[q] => resultRow[q],
           \A v \in Vms : /\ Delivers(q, v)' => Delivers(q, v)
                          /\ Commits(q, v)' => Commits(q, v),
           Completing(q) => \A v \in Vms : Booted(q, v)' => Booted(q, v)
    PROVE  OneReporter(q)'
<1>1. \A v \in Vms : Delivers(q, v) => Completing(q)
  BY DEF Delivers, Completing
<1> QED BY <1>1 DEF OneReporter

LEMMA RequestsReporter ==
    ASSUME TypeOK, Handover, NEW r \in Runs, Recorded(r), OneReporter(r), Requests(r)
    PROVE  OneReporter(r)'
<1>1. /\ stray[r] \subseteq stray'[r]
      /\ \A v \in Vms : Booted(r, v)' => Booted(r, v)
  <2>1. UNCHANGED cloudVars \/ RunnerMoves(r)
    BY RequestsRunner
  <2> QED BY <2>1 DEF RunnerMoves, cloudVars, Booted, TypeOK, GpuCloudTypeOK
<1>2. ASSUME Submit(r) PROVE OneReporter(r)'
  BY <1>1, <1>2, ReporterStep DEF Submit, CreateRun, taskVars, Delivers, Commits
<1>3. ASSUME NEW v \in Vms, PostComplete(r, v) PROVE OneReporter(r)'
  <2>1. UNCHANGED <<resultRow, stray>> /\ Booted(r, v)
    BY <1>3 DEF PostComplete, runVars, Booted
  <2>2. CASE CanComplete(status[r])
    <3>1. handler' = [handler EXCEPT ![r][v] = "upload"] /\ ~resultRow[r]
      BY <1>3, <2>2 DEF PostComplete, CanComplete, Handover, HandedOver, Terminal
    <3>2. \A w \in Vms : Delivers(r, w)' => Delivers(r, w) \/ w = v
      BY <3>1 DEF Delivers, TypeOK
    <3>3. stray[r] = {} => \A w \in Vms : Delivers(r, w) \/ Booted(r, w) => w = v
      BY <2>1 DEF OneReporter, Recorded
    <3> QED BY <1>1, <2>1, <3>1, <3>2, <3>3 DEF OneReporter
  <2>3. CASE ~CanComplete(status[r])
    BY <1>1, <1>3, <2>1, <2>3, ReporterStep DEF PostComplete, Delivers, Commits
  <2> QED BY <2>2, <2>3
<1>4. ASSUME NEW v \in Vms, NEW h,
             handler' = [handler EXCEPT ![r][v] = h],
             h \in {"upload", "commit", "publish"} => Delivers(r, v),
             h \in {"upload", "commit"} => Commits(r, v),
             resultRow' = resultRow
      PROVE  OneReporter(r)'
  <2>1. \A w \in Vms : /\ Delivers(r, w)' => Delivers(r, w)
                       /\ Commits(r, w)' => Commits(r, w)
    BY <1>4 DEF Delivers, Commits, TypeOK
  <2> QED BY <1>1, <1>4, <2>1, ReporterStep
<1>5. ASSUME NEW v \in Vms, PostFail(r, v) PROVE OneReporter(r)'
  BY <1>1, <1>5, ReporterStep DEF PostFail, runVars, Delivers, Commits
<1>6. ASSUME NEW v \in Vms, CompleteUpload(r, v) PROVE OneReporter(r)'
  <2>1. PICK h \in {"commit", "idle"} : handler' = [handler EXCEPT ![r][v] = h]
    BY <1>6 DEF CompleteUpload, Respond
  <2>2. Delivers(r, v) /\ Commits(r, v) /\ resultRow' = resultRow
    BY <1>6 DEF CompleteUpload, Delivers, Commits, runVars
  <2> QED BY <1>4, <2>1, <2>2
<1>7. ASSUME NEW v \in Vms, CompleteCommit(r, v) PROVE OneReporter(r)'
  <2>1. Delivers(r, v) /\ Commits(r, v)
    BY <1>7 DEF CompleteCommit, Delivers, Commits
  <2>2. CASE CompleteRun(r) /\ handler' = [handler EXCEPT ![r][v] = "publish"]
    <3>1. \A w \in Vms : /\ Delivers(r, w)' => Delivers(r, w)
                         /\ Commits(r, w)' => Commits(r, w) /\ w # v
      BY <2>1, <2>2 DEF Delivers, Commits, TypeOK
    <3>2. stray[r] = {} => \A w \in Vms : Delivers(r, w) => w = v
      BY <2>1 DEF OneReporter
    <3>3. \A w \in Vms : Commits(r, w) => Delivers(r, w)
      BY DEF Commits, Delivers
    <3> QED BY <1>1, <3>1, <3>2, <3>3 DEF OneReporter
  <2>3. CASE UNCHANGED runVars /\ Respond(r, v, "trap")
    <3>1. PICK h \in {"idle"} : handler' = [handler EXCEPT ![r][v] = h]
      BY <2>3 DEF Respond
    <3> QED BY <1>4, <2>3, <3>1 DEF runVars
  <2> QED BY <1>7, <2>2, <2>3 DEF CompleteCommit
<1>8. ASSUME NEW v \in Vms, CompletePublish(r, v) PROVE OneReporter(r)'
  BY <1>4, <1>8 DEF CompletePublish, Respond, runVars
<1>9. ASSUME FailCommit(r) PROVE OneReporter(r)'
  BY <1>1, <1>9, ReporterStep DEF FailCommit, SetFailed, Delivers, Commits
<1> QED BY <1>2, <1>3, <1>5, <1>6, <1>7, <1>8, <1>9 DEF Requests

LEMMA OtherWorkReporter ==
    ASSUME TypeOK, Handover, NEW r \in Runs, Recorded(r), OneReporter(r),
           Provision(r) \/ Release(r) \/ Timeout(r)
    PROVE  OneReporter(r)'
<1>1. UNCHANGED handler
  BY DEF Provision, ProvNode, ProvStage, ProvApply, ProvOutput, ProvBusy, ProvRunning,
         ProvSafeDestroy, ProvSafeForget, ProvRequeue, TailDown, ProvDown, ProvFail,
         ProvGoto, Release, RelDestroy, RelForget, RelDown, RelMarkFailed,
         OrphanRequeue, Timeout, taskVars
<1>2. \/ UNCHANGED runVars \/ SetRunning(r) \/ SetFailed(r) \/ RequeueForRetry(r)
      \/ Expire(r)
  BY DEF Provision, ProvNode, ProvStage, ProvApply, ProvOutput, ProvBusy, ProvRunning,
         ProvSafeDestroy, ProvSafeForget, ProvRequeue, TailDown, ProvDown, ProvFail,
         Release, RelDestroy, RelForget, RelDown, RelMarkFailed, OrphanRequeue, Timeout
<1>3. UNCHANGED resultRow
  BY <1>2 DEF runVars, SetRunning, SetFailed, RequeueForRetry, Expire
<1>4. /\ stray[r] \subseteq stray'[r]
      /\ (\A v \in Vms : Booted(r, v)' => Booted(r, v)) \/ prov[r] = "apply"
  BY WorksVms, MovedVms DEF Works
<1>5. Completing(r) => prov[r] # "apply"
  BY DEF Handover, HandedOver, NobodyMoves, Provisioner
<1> QED BY <1>1, <1>3, <1>4, <1>5, ReporterStep DEF Delivers, Commits

DoneHasRow(r) == status[r] = "done" => resultRow[r]

LEMMA RowKept ==
    ASSUME RunTableTypeOK, NEW r \in Runs, NEW q \in Runs, NEW s, NEW S, DoneHasRow(q),
           \/ UNCHANGED runVars
           \/ CreateRun(r) \/ SetRunning(r) \/ SetFailed(r) \/ CompleteRun(r)
           \/ RequeueForRetry(r) \/ Expire(r)
           \/ ClaimTimedOut(s) \/ ClaimQueued(S)
    PROVE  DoneHasRow(q)'
<1> USE DEF RunTableTypeOK, DoneHasRow
<1>1. CASE UNCHANGED runVars BY <1>1 DEF runVars
<1>2. CASE CreateRun(r) BY <1>2 DEF CreateRun
<1>3. CASE SetRunning(r) BY <1>3 DEF SetRunning
<1>4. CASE SetFailed(r) BY <1>4 DEF SetFailed
<1>5. CASE CompleteRun(r) BY <1>5 DEF CompleteRun
<1>6. CASE RequeueForRetry(r) BY <1>6 DEF RequeueForRetry
<1>7. CASE Expire(r) BY <1>7 DEF Expire
<1>8. CASE ClaimTimedOut(s) BY <1>8 DEF ClaimTimedOut
<1>9. CASE ClaimQueued(S) BY <1>9 DEF ClaimQueued
<1> QED BY <1>1, <1>2, <1>3, <1>4, <1>5, <1>6, <1>7, <1>8, <1>9

\* Every step performs one transaction on the run table, or none.
LEMMA OneTransaction ==
    ASSUME [Next]_vars
    PROVE  \/ UNCHANGED runVars
           \/ \E r \in Runs : \/ CreateRun(r) \/ SetRunning(r) \/ SetFailed(r)
                              \/ CompleteRun(r) \/ RequeueForRetry(r) \/ Expire(r)
           \/ \E s : ClaimTimedOut(s)
           \/ \E S : ClaimQueued(S)
<1>1. ASSUME NEW r \in Runs, Requests(r)
      PROVE  UNCHANGED runVars \/ CreateRun(r) \/ SetFailed(r) \/ CompleteRun(r)
  BY <1>1 DEF Requests, Submit, PostComplete, PostFail, CompleteUpload, CompleteCommit,
              CompletePublish, FailCommit
<1>2. ASSUME NEW r \in Runs, Provision(r)
      PROVE  UNCHANGED runVars \/ SetRunning(r) \/ SetFailed(r) \/ RequeueForRetry(r)
  BY <1>2 DEF Provision, ProvNode, ProvStage, ProvApply, ProvOutput, ProvBusy,
              ProvRunning, ProvSafeDestroy, ProvSafeForget, ProvRequeue, TailDown,
              ProvDown, ProvFail
<1>3. ASSUME NEW r \in Runs, Release(r)
      PROVE  UNCHANGED runVars \/ SetFailed(r) \/ RequeueForRetry(r)
  BY <1>3 DEF Release, RelDestroy, RelForget, RelDown, RelMarkFailed, OrphanRequeue
<1>4. CASE Poll
  BY <1>4 DEF Poll, RecoverLeaked, RecoverOrphans, PollCount, PollClaim,
              ReapProvisioning, ReapRunning
<1>5. CASE UNCHANGED vars
  BY <1>5 DEF vars
<1> QED BY <1>1, <1>2, <1>3, <1>4, <1>5 DEF Next, Timeout, Crash

\* What follows for a run from its own steps and from the poller and crashes.
LEMMA NextReporter ==
    ASSUME TypeOK, Handover, NEW q \in Runs, Recorded(q), OneReporter(q), [Next]_vars
    PROVE  Recorded(q)' /\ OneReporter(q)'
<1>1. ASSUME NEW r \in Runs, Works(r) PROVE Recorded(q)' /\ OneReporter(q)'
  <2>1. CASE q # r
    BY <1>1, <2>1, OthersRest, RestsReporter
  <2>2. CASE q = r
    BY <1>1, <2>2, WorksVms, MovedVms, RequestsReporter, OtherWorkReporter DEF Works
  <2> QED BY <2>1, <2>2
<1>2. ASSUME UNCHANGED <<cloudVars, handler, resultRow>>
      PROVE  Recorded(q)' /\ OneReporter(q)'
  BY <1>2 DEF cloudVars, Recorded, OneReporter, Delivers, Commits, Booted
<1>3. CASE Poll \/ UNCHANGED vars
  BY <1>2, <1>3 DEF Poll, RecoverLeaked, RecoverOrphans, PollCount, PollClaim,
              ReapProvisioning, ReapRunning, ClaimQueued, ClaimTimedOut, vars, runVars,
              taskVars
<1>4. ASSUME NEW kept \in BOOLEAN, Crash(kept) PROVE Recorded(q)' /\ OneReporter(q)'
  <2>1. PICK made \in Unrecorded : CloudAfterCrash(made, kept)
    BY <1>4 DEF Crash
  <2>2. \A v \in Vms : ~Delivers(q, v)' /\ ~Commits(q, v)'
    BY <1>4 DEF Crash, NoRequest, Delivers, Commits
  <2>3. Recorded(q)'
    BY <2>1 DEF CloudAfterCrash, Recorded, Booted, TypeOK, GpuCloudTypeOK
  <2> QED BY <2>2, <2>3 DEF OneReporter
<1> QED BY <1>1, <1>3, <1>4 DEF Next, Works

\* A done run has its result row, and complete_run never meets a row that is
\* already there unless a VM of the run has lost its record and reported too:
\* one recorded VM cannot post two results.
THEOREM ResultOnceHolds == Spec => []ResultOnce
<1> DEFINE Reports == \A r \in Runs : Recorded(r) /\ OneReporter(r)
           Rows == \A r \in Runs : DoneHasRow(r)
<1>1. Init => Reports /\ Rows
  BY DEF Init, RunTableInit, GpuCloudInit, NoRequest, Recorded, OneReporter, Booted,
         Delivers, Commits, DoneHasRow
<1>2. TypeOK /\ Handover /\ Reports /\ [Next]_vars => Reports'
  BY NextReporter
<1>3. TypeOK /\ Rows /\ [Next]_vars => Rows'
  BY OneTransaction, RowKept DEF TypeOK
<1>4. Reports /\ Rows => ResultOnce
  BY DEF OneReporter, Commits, DoneHasRow, ResultOnce
<1> HIDE DEF Reports, Rows
<1> QED BY TypeCorrect, HandoverHolds, <1>1, <1>2, <1>3, <1>4, PTL DEF Spec

-----------------------------------------------------------------------------
(***************************************************************************)
(* A process that never crashed.  Its runs start at most one VM and have   *)
(* at most one renamed node row: once a VM has started, or a row has been  *)
(* renamed, the provisioning task is past the steps that lead to another   *)
(* attempt, and nothing else requeues the run.                             *)
(***************************************************************************)

Starting == {"node", "stage", "apply", "sdestroy", "sforget", "requeue"}

Used(r, v) == Booted(r, v) \/ handler[r][v] # "idle"

Begun(r) == instance[r] # "none" \/ failing[r] > 0 \/ \E v \in Vms : Used(r, v)

FirstLife(r) ==
    crashes = 0 =>
        /\ ~Recovery(r)
        /\ Booting => status[r] \in {"none", "queued"} /\ ~endedAt[r]
        /\ Begun(r) => status[r] \notin {"none", "queued"} /\ prov[r] \notin Starting
        /\ \A v, w \in Vms : Used(r, v) /\ Used(r, w) => v = w
        /\ ~Ambiguous(r)

LEMMA RestsFirst ==
    ASSUME NEW q \in Runs, FirstLife(q), Rests(q), UNCHANGED <<poller, crashes>>
    PROVE  FirstLife(q)'
<1>1. "orphan" \in Origins
  BY DEF Origins
<1> QED BY <1>1 DEF FirstLife, Recovery, Booting, Begun, Used, Booted, Ambiguous, Rests,
                    SameRun, SameNode, SameVms, SameTasks

\* Steps that begin nothing.
LEMMA FirstStep ==
    ASSUME NEW q \in Runs, FirstLife(q), crashes' = crashes,
           Recovery(q)' => Recovery(q),
           Booting' /\ crashes = 0 => status'[q] \in {"none", "queued"} /\ ~endedAt'[q],
           status'[q] \in {"none", "queued"} => \/ status[q] \in {"none", "queued"}
                                                \/ crashes = 0 => ~Begun(q),
           prov'[q] \in Starting => \/ prov[q] \in Starting
                                    \/ crashes = 0 => ~Begun(q),
           instance'[q] # "none" => instance[q] # "none",
           placeholder'[q] # "none" => \/ placeholder[q] # "none"
                                       \/ crashes = 0 => ~Begun(q),
           failing'[q] > 0 => Begun(q),
           \A v \in Vms : Used(q, v)' => Used(q, v)
    PROVE  FirstLife(q)'
  BY DEF FirstLife, Begun, Ambiguous

\* While the process starts for the first time, no run moves but by POST /runs.
LEMMA BootCalm ==
    ASSUME TypeOK, Handover, EndedFirst, NEW r \in Runs, FirstLife(r), Works(r),
           Booting, crashes = 0
    PROVE  status'[r] \in {"none", "queued"} /\ ~endedAt'[r]
<1>1. /\ status[r] \in {"none", "queued"} /\ ~endedAt[r]
      /\ ~Provisioner(r) /\ ~Recovery(r) /\ ~Completing(r)
      /\ ~(failing[r] > 0) /\ \A v \in Vms : handler[r][v] = "idle"
  BY DEF FirstLife, Begun, Used, Handover, HandedOver, NobodyMoves
<1>2. \A k \in Origins : rel[k][r] = "idle"
  BY <1>1 DEF EndedFirst, Over, Recovery
<1>3. UNCHANGED runVars \/ CreateRun(r) \/ Expire(r)
  <2>1. CASE Requests(r)
    BY <1>1, <2>1 DEF Requests, Submit, PostComplete, PostFail, CompleteUpload,
                      CompleteCommit, CompletePublish, FailCommit
  <2>2. CASE Provision(r)
    BY <1>1, <2>2 DEF Provisioner, Provision, ProvNode, ProvStage, ProvApply, ProvOutput,
                      ProvBusy, ProvRunning, ProvSafeDestroy, ProvSafeForget,
                      ProvRequeue, TailDown, ProvDown, ProvFail
  <2>3. CASE Release(r)
    BY <1>2, <2>3 DEF Release, RelDestroy, RelForget, RelDown, RelMarkFailed,
                      OrphanRequeue, Origins
  <2> QED BY <2>1, <2>2, <2>3 DEF Works, Timeout
<1> QED BY <1>1, <1>3 DEF runVars, CreateRun, Expire, TypeOK, RunTableTypeOK

LEMMA ReleaseFirst ==
    ASSUME TypeOK, Handover, EndedFirst, NEW r \in Runs, Recorded(r), FirstLife(r),
           Release(r)
    PROVE  FirstLife(r)'
<1>1. UNCHANGED <<prov, requestVars, pollVars, crashes>>
  BY DEF Release, RelDestroy, RelForget, RelDown, RelMarkFailed, OrphanRequeue
<1>2. UNCHANGED nodeVars \/ SetDownByRun(r)
  BY DEF Release, RelDestroy, RelForget, RelDown, RelMarkFailed, OrphanRequeue
<1>3. /\ instance'[r] # "none" => instance[r] # "none"
      /\ placeholder'[r] # "none" => placeholder[r] # "none"
  BY <1>2 DEF nodeVars, SetDownByRun, TypeOK, NodeTableTypeOK
<1>4. \E k \in Origins : rel[k][r] # "idle" /\ RelMoves(k, r)
  BY RelMovesOne
     DEF Release, RelDestroy, RelForget, RelDown, RelMarkFailed, OrphanRequeue, RelSteps,
         Origins
<1>5. Recovery(r)' => Recovery(r)
  BY <1>4 DEF RelMoves, Recovery, TypeOK, Origins
<1>6. UNCHANGED cloudVars \/ DestroyTracked(r) \/ \E gone \in BOOLEAN : ForgetState(r, gone)
  BY DEF Release, RelDestroy, RelForget, RelDown, RelMarkFailed, OrphanRequeue
<1>7. \A v \in Vms : Booted(r, v)' => Booted(r, v)
  BY <1>6 DEF cloudVars, DestroyTracked, ForgetState, Booted, TypeOK, GpuCloudTypeOK
<1>8. UNCHANGED runVars \/ SetFailed(r) \/ (RequeueForRetry(r) /\ Recovery(r))
  BY DEF Release, RelDestroy, RelForget, RelDown, RelMarkFailed, OrphanRequeue, Recovery
<1>9. status'[r] \in {"none", "queued"} => \/ status[r] \in {"none", "queued"}
                                           \/ crashes = 0 => ~Begun(r)
  BY <1>8 DEF runVars, SetFailed, RequeueForRetry, FirstLife, TypeOK, RunTableTypeOK
<1>10. Booting' /\ crashes = 0 => status'[r] \in {"none", "queued"} /\ ~endedAt'[r]
  BY <1>1, BootCalm DEF Works, Booting, pollVars
<1> QED BY <1>1, <1>3, <1>5, <1>7, <1>9, <1>10, FirstStep DEF Used, Begun

LEMMA RequestsFirst ==
    ASSUME TypeOK, Handover, EndedFirst, NEW r \in Runs, FirstLife(r), Requests(r)
    PROVE  FirstLife(r)'
<1>1. UNCHANGED <<prov, nodeVars, pollVars, crashes>>
  BY DEF Requests, Submit, PostComplete, PostFail, CompleteUpload, CompleteCommit,
         CompletePublish, FailCommit, taskVars
<1>2. UNCHANGED rel \/ StartRelease("complete", {r}) \/ StartRelease("fail", {r})
  BY DEF Requests, Submit, PostComplete, PostFail, CompleteUpload, CompleteCommit,
         CompletePublish, FailCommit, taskVars
<1>3. Recovery(r)' => Recovery(r)
  BY <1>2, StartReleaseCalm DEF Recovery, Origins
<1>4. UNCHANGED runVars \/ CreateRun(r) \/ SetFailed(r) \/ CompleteRun(r)
  BY DEF Requests, Submit, PostComplete, PostFail, CompleteUpload, CompleteCommit,
         CompletePublish, FailCommit
<1>5. status'[r] \in {"none", "queued"} => status[r] \in {"none", "queued"}
  BY <1>4 DEF runVars, CreateRun, SetFailed, CompleteRun, TypeOK, RunTableTypeOK
<1>6. Booting' /\ crashes = 0 => status'[r] \in {"none", "queued"} /\ ~endedAt'[r]
  BY <1>1, BootCalm DEF Works, Booting, pollVars
<1>7. \A v \in Vms : Booted(r, v)' => Booted(r, v)
  <2>1. UNCHANGED cloudVars \/ RunnerMoves(r)
    BY RequestsRunner
  <2> QED BY <2>1 DEF RunnerMoves, cloudVars, Booted, TypeOK, GpuCloudTypeOK
<1>8. ASSUME \A v \in Vms : handler'[r][v] # "idle" => Used(r, v),
             failing'[r] > 0 => Begun(r)
      PROVE  FirstLife(r)'
  <2>1. \A v \in Vms : Used(r, v)' => Used(r, v)
    BY <1>7, <1>8 DEF Used
  <2> QED BY <1>1, <1>3, <1>5, <1>6, <1>8, <2>1, FirstStep DEF nodeVars
<1>9. ASSUME Submit(r) PROVE FirstLife(r)'
  BY <1>8, <1>9 DEF Submit, CreateRun, taskVars, Used, Begun
<1>10. ASSUME NEW v \in Vms, NEW h,
              handler' = [handler EXCEPT ![r][v] = h], Used(r, v),
              failing' = failing
       PROVE  FirstLife(r)'
  <2>1. \A w \in Vms : w # v => handler'[r][w] = handler[r][w]
    BY <1>10 DEF TypeOK
  <2> QED BY <1>8, <1>10, <2>1 DEF Used, Begun
<1>11. ASSUME NEW v \in Vms, PostComplete(r, v) PROVE FirstLife(r)'
  <2>1. Used(r, v) /\ failing' = failing
    BY <1>11 DEF PostComplete, Used, Booted
  <2>2. PICK h \in {"upload", "idle"} : handler' = [handler EXCEPT ![r][v] = h]
    BY <1>11 DEF PostComplete, TypeOK
  <2> QED BY <1>10, <2>1, <2>2
<1>12. ASSUME NEW v \in Vms, PostFail(r, v) PROVE FirstLife(r)'
  <2>1. Begun(r) /\ handler' = handler
    BY <1>12 DEF PostFail, Begun, Used, Booted
  <2> QED BY <1>8, <2>1 DEF Used
<1>13. ASSUME NEW v \in Vms,
              CompleteUpload(r, v) \/ CompleteCommit(r, v) \/ CompletePublish(r, v)
       PROVE  FirstLife(r)'
  <2>1. Used(r, v) /\ failing' = failing
    BY <1>13 DEF CompleteUpload, CompleteCommit, CompletePublish, Used
  <2>2. PICK h \in {"commit", "publish", "idle"} : handler' = [handler EXCEPT ![r][v] = h]
    BY <1>13 DEF CompleteUpload, CompleteCommit, CompletePublish, Respond
  <2> QED BY <1>10, <2>1, <2>2
<1>14. ASSUME FailCommit(r) PROVE FirstLife(r)'
  BY <1>8, <1>14 DEF FailCommit, Used, Begun
<1> QED BY <1>9, <1>11, <1>12, <1>13, <1>14 DEF Requests

LEMMA ApplyFirst ==
    ASSUME TypeOK, Handover, NEW r \in Runs, FirstLife(r), prov[r] = "apply",
           Start(r, Answering(r)), UNCHANGED <<runVars, nodeVars, pollVars, crashes>>,
           ProvGoto(r, "output") \/ ProvGoto(r, "down")
    PROVE  FirstLife(r)'
<1> SUFFICES ASSUME crashes = 0 PROVE FirstLife(r)'
  BY DEF FirstLife
<1>1. /\ ~Begun(r) /\ ~Recovery(r) /\ ~Booting /\ ~Ambiguous(r)
      /\ status[r] \notin {"none", "queued"}
  BY DEF FirstLife, Starting, Handover, HandedOver, NobodyMoves, Provisioner
<1>2. /\ UNCHANGED <<status, handler, failing, rel, poller, placeholder, instance>>
      /\ prov'[r] \in {"output", "down"}
  BY DEF ProvGoto, runVars, nodeVars, pollVars, TypeOK
<1>3. /\ ~Recovery(r)' /\ ~Booting' /\ ~Ambiguous(r)'
      /\ status'[r] \notin {"none", "queued"} /\ prov'[r] \notin Starting
      /\ \A v \in Vms : handler'[r][v] = "idle"
  BY <1>1, <1>2 DEF Recovery, Booting, Ambiguous, Begun, Used, Starting
<1>4. PICK v \in Vms : runner' = [runner EXCEPT ![r][v] = IF @ = "unbooted" THEN "work" ELSE @]
  BY DEF Start, VmFor, TypeOK, GpuCloudTypeOK
<1>5. \A w \in Vms : w # v => runner'[r][w] = runner[r][w]
  BY <1>4 DEF TypeOK, GpuCloudTypeOK
<1>6. \A w \in Vms : Used(r, w)' => w = v
  BY <1>1, <1>3, <1>5 DEF Begun, Used, Booted
<1> QED BY <1>3, <1>6 DEF FirstLife

LEMMA ProvisionFirst ==
    ASSUME TypeOK, Handover, EndedFirst, NEW r \in Runs, Recorded(r), FirstLife(r),
           Provision(r)
    PROVE  FirstLife(r)'
<1>1. /\ UNCHANGED <<requestVars, rel, pollVars, crashes>>
      /\ Recovery(r)' <=> Recovery(r)
  BY DEF Provision, ProvNode, ProvStage, ProvApply, ProvOutput, ProvBusy, ProvRunning,
         ProvSafeDestroy, ProvSafeForget, ProvRequeue, TailDown, ProvDown, ProvFail,
         ProvGoto, Recovery
<1>2. \/ UNCHANGED runVars \/ SetRunning(r) \/ SetFailed(r)
      \/ RequeueForRetry(r) /\ prov[r] = "requeue"
  BY DEF Provision, ProvNode, ProvStage, ProvApply, ProvOutput, ProvBusy, ProvRunning,
         ProvSafeDestroy, ProvSafeForget, ProvRequeue, TailDown, ProvDown, ProvFail
<1>3. prov[r] = "requeue" => (crashes = 0 => ~Begun(r))
  BY DEF FirstLife, Starting
<1>4. status'[r] \in {"none", "queued"} => \/ status[r] \in {"none", "queued"}
                                           \/ crashes = 0 => ~Begun(r)
  BY <1>2, <1>3 DEF runVars, SetRunning, SetFailed, RequeueForRetry, TypeOK,
                    RunTableTypeOK
<1>5. Booting' /\ crashes = 0 => status'[r] \in {"none", "queued"} /\ ~endedAt'[r]
  BY <1>1, BootCalm DEF Works, Booting, pollVars
<1>6. ASSUME prov'[r] \in Starting => prov[r] \in Starting,
             \A v \in Vms : Booted(r, v)' => Booted(r, v),
             \/ UNCHANGED nodeVars \/ SetDownByRun(r)
             \/ CreateProvisioning(r) /\ prov[r] = "node"
      PROVE  FirstLife(r)'
  <2>1. /\ instance'[r] # "none" => instance[r] # "none"
        /\ placeholder'[r] # "none" => placeholder[r] # "none" \/ prov[r] = "node"
    BY <1>6 DEF nodeVars, SetDownByRun, CreateProvisioning, TypeOK, NodeTableTypeOK
  <2>2. prov[r] = "node" => (crashes = 0 => ~Begun(r))
    BY DEF FirstLife, Starting
  <2>3. \A v \in Vms : Used(r, v)' => Used(r, v)
    BY <1>1, <1>6 DEF Used
  <2> QED BY <1>1, <1>4, <1>5, <1>6, <2>1, <2>2, <2>3, FirstStep DEF Begun
<1>7. CASE ProvApply(r)
  <2>1. prov[r] = "apply" /\ UNCHANGED <<runVars, nodeVars, pollVars, crashes>>
    BY <1>7 DEF ProvApply
  <2>2. CASE Start(r, Answering(r)) /\ (ProvGoto(r, "output") \/ ProvGoto(r, "down"))
    BY <2>1, <2>2, ApplyFirst
  <2>3. CASE UNCHANGED cloudVars \/ CreateStopped(r, Answering(r))
    <3>1. \A v \in Vms : Booted(r, v)' => Booted(r, v)
      BY <2>3 DEF cloudVars, CreateStopped, Booted
    <3> QED BY <1>6, <2>1, <3>1 DEF Starting
  <2> QED BY <1>7, <2>2, <2>3 DEF ProvApply, ApplyLacksCapacity, ApplyErrs
<1>8. ASSUME prov[r] # "apply" PROVE \A v \in Vms : Booted(r, v)' => Booted(r, v)
  BY <1>8, WorksVms, MovedVms DEF Works
<1>9. CASE \/ ProvNode(r) \/ ProvStage(r) \/ ProvSafeDestroy(r) \/ ProvSafeForget(r)
           \/ ProvRequeue(r)
  <2>1. prov[r] \in Starting /\ prov[r] # "apply"
    BY <1>9 DEF ProvNode, ProvStage, ProvSafeDestroy, ProvSafeForget, ProvRequeue,
                Starting
  <2>2. UNCHANGED nodeVars \/ (CreateProvisioning(r) /\ prov[r] = "node")
    BY <1>9 DEF ProvNode, ProvStage, ProvSafeDestroy, ProvSafeForget, ProvRequeue
  <2> QED BY <1>6, <1>8, <2>1, <2>2
<1>10. CASE ProvOutput(r) \/ ProvRunning(r) \/ ProvDown(r) \/ ProvFail(r)
  <2>1. prov[r] # "apply" /\ (UNCHANGED nodeVars \/ SetDownByRun(r))
    BY <1>10 DEF ProvOutput, ProvRunning, ProvDown, ProvFail
  <2>2. \E t \in {"busy", "down", "idle", "fail"} : prov' = [prov EXCEPT ![r] = t]
    BY <1>10 DEF ProvOutput, ProvRunning, ProvDown, ProvFail, ProvGoto
  <2>3. prov'[r] \notin Starting
    BY <2>2 DEF Starting, TypeOK
  <2> QED BY <1>6, <1>8, <2>1, <2>3
<1>11. CASE TailDown(r)
  <2>1. prov' = prov /\ UNCHANGED cloudVars /\ (UNCHANGED nodeVars \/ SetDownByRun(r))
    BY <1>11 DEF TailDown
  <2>2. \A v \in Vms : Booted(r, v)' => Booted(r, v)
    BY <2>1 DEF cloudVars, Booted
  <2> QED BY <1>6, <2>1, <2>2
<1>12. CASE ProvBusy(r)
  <2>1. /\ Provisioner(r) /\ UNCHANGED <<runVars, cloudVars>>
        /\ \E t \in {"running", "down"} : prov' = [prov EXCEPT ![r] = t]
    BY <1>12 DEF ProvBusy, ProvGoto, Provisioner
  <2>2. prov'[r] \notin Starting
    BY <2>1 DEF Starting, TypeOK
  <2>3. ~Booting' /\ status'[r] \notin {"none", "queued"}
    BY <1>1, <2>1 DEF Handover, HandedOver, NobodyMoves, Booting, pollVars, runVars
  <2>4. \A v \in Vms : Used(r, v)' <=> Used(r, v)
    BY <1>1, <2>1 DEF Used, Booted, cloudVars
  <2>5. CASE SetBusy(r)
    <3>1. ~Ambiguous(r)'
      BY <2>5 DEF SetBusy, Ambiguous, TypeOK, NodeTableTypeOK
    <3> QED BY <1>1, <1>4, <2>2, <2>3, <2>4, <3>1 DEF FirstLife
  <2>6. CASE UNCHANGED nodeVars
    <3>1. \A v \in Vms : Booted(r, v)' => Booted(r, v)
      BY <2>1 DEF cloudVars, Booted
    <3> QED BY <1>6, <2>2, <2>6, <3>1
  <2> QED BY <1>12, <2>5, <2>6 DEF ProvBusy
<1> QED BY <1>7, <1>9, <1>10, <1>11, <1>12 DEF Provision

LEMMA PollFirst ==
    ASSUME TypeOK, NEW q \in Runs, FirstLife(q), Poll
    PROVE  FirstLife(q)'
<1>1. UNCHANGED <<nodeVars, cloudVars, requestVars, crashes>>
  BY DEF Poll, RecoverLeaked, RecoverOrphans, PollCount, PollClaim, ReapProvisioning,
         ReapRunning, ClaimQueued, ClaimTimedOut, runVars, taskVars
<1>2. \A v \in Vms : Used(q, v)' <=> Used(q, v)
  BY <1>1 DEF Used, Booted, cloudVars
<1>3. status'[q] \in {"none", "queued"} => status[q] \in {"none", "queued"}
  BY DEF Poll, RecoverLeaked, RecoverOrphans, PollCount, PollClaim, ReapProvisioning,
         ReapRunning, ClaimQueued, ClaimTimedOut, runVars
<1>4. Booting' /\ crashes = 0 => status'[q] \in {"none", "queued"} /\ ~endedAt'[q]
  BY DEF Poll, RecoverLeaked, RecoverOrphans, PollCount, PollClaim, ReapProvisioning,
         ReapRunning, runVars, Booting, FirstLife
<1>5. prov'[q] \in Starting => \/ prov[q] \in Starting
                               \/ crashes = 0 => ~Begun(q)
  <2>1. CASE \E g \in GpuTypes : PollClaim(g)
    <3>1. PICK g \in GpuTypes : PollClaim(g)
      BY <2>1
    <3>2. PICK S \in ClaimSets(g) : prov' = [r \in Runs |-> IF r \in S THEN "node" ELSE prov[r]]
      BY <3>1 DEF PollClaim
    <3>3. q \in S => status[q] = "queued"
      BY DEF ClaimSets, QueuedOf
    <3> QED BY <3>2, <3>3 DEF FirstLife
  <2>2. CASE UNCHANGED prov
    BY <2>2
  <2> QED BY <2>1, <2>2 DEF Poll, RecoverLeaked, RecoverOrphans, PollCount,
                            ReapProvisioning, ReapRunning, taskVars
<1>6. crashes = 0 => (Recovery(q)' => Recovery(q))
  <2>1. CASE RecoverOrphans
    <3>1. crashes = 0 => q \notin InProvisioning
      BY <2>1 DEF RecoverOrphans, Booting, FirstLife, InProvisioning
    <3> QED BY <2>1, <3>1, StartReleaseCalm DEF RecoverOrphans, Origins
  <2>2. CASE RecoverLeaked \/ ReapProvisioning \/ ReapRunning
    BY <2>2, StartReleaseCalm DEF RecoverLeaked, ReapProvisioning, ReapRunning, Origins
  <2>3. CASE UNCHANGED rel
    BY <2>3 DEF Recovery
  <2> QED BY <2>1, <2>2, <2>3 DEF Poll, PollCount, PollClaim, taskVars
<1>7. CASE crashes = 0
  BY <1>1, <1>2, <1>3, <1>4, <1>5, <1>6, <1>7, FirstStep DEF nodeVars, Begun
<1>8. CASE crashes # 0
  BY <1>1, <1>8 DEF FirstLife
<1> QED BY <1>7, <1>8

LEMMA NextFirst ==
    ASSUME TypeOK, Handover, EndedFirst, NEW q \in Runs, Recorded(q), FirstLife(q),
           [Next]_vars
    PROVE  FirstLife(q)'
<1>1. ASSUME NEW r \in Runs, Works(r) PROVE FirstLife(q)'
  <2>1. CASE q # r
    BY <1>1, <2>1, OthersRest, RestsFirst DEF pollVars
  <2>2. CASE q = r /\ Timeout(r)
    <3>1. Booting' /\ crashes = 0 => status'[q] \in {"none", "queued"} /\ ~endedAt'[q]
      BY <2>2 DEF Timeout, Expire, pollVars, Booting, FirstLife
    <3> QED BY <2>2, <3>1, FirstStep
            DEF Timeout, Expire, nodeVars, cloudVars, taskVars, Recovery, Begun, Used,
                Booted
  <2> QED BY <1>1, <2>1, <2>2, ReleaseFirst, ProvisionFirst, RequestsFirst DEF Works
<1>2. ASSUME NEW kept \in BOOLEAN, Crash(kept) PROVE FirstLife(q)'
  BY <1>2 DEF Crash, FirstLife, TypeOK
<1>3. CASE UNCHANGED vars
  BY <1>3 DEF vars, runVars, nodeVars, cloudVars, taskVars, pollVars, FirstLife, Recovery,
              Booting, Begun, Used, Booted, Ambiguous
<1> QED BY <1>1, <1>2, <1>3, PollFirst DEF Next, Works

FirstLives == \A r \in Runs : FirstLife(r)

LEMMA FirstLivesHold == Spec => []FirstLives
<1> DEFINE Lives == \A r \in Runs : Recorded(r) /\ OneReporter(r) /\ FirstLife(r)
<1>1. Init => Lives
  BY DEF Init, RunTableInit, NodeTableInit, GpuCloudInit, NoRequest, None, NoRelease,
         NoTask, Origins, Recorded, OneReporter, Booted, Delivers, Commits, FirstLife, Recovery,
         Begun, Used, Ambiguous
<1>2. TypeOK /\ Handover /\ EndedFirst /\ Lives /\ [Next]_vars => Lives'
  BY NextReporter, NextFirst
<1>3. Lives => FirstLives
  BY DEF FirstLives
<1> HIDE DEF Lives
<1> QED BY TypeCorrect, HandoverHolds, EndedFirstHolds, <1>1, <1>2, <1>3, PTL DEF Spec

\* Without a crash the primary key node-<run id> and the renamed row never
\* exist side by side, whatever the retries and the releases do.
THEOREM TwoRowsNeedCrashHolds == Spec => []TwoRowsNeedCrash
<1>1. TypeOK /\ FirstLives => TwoRowsNeedCrash
  BY DEF TypeOK, FirstLives, FirstLife, TwoRowsNeedCrash
<1> QED BY <1>1, TypeCorrect, FirstLivesHold, PTL

-----------------------------------------------------------------------------
(***************************************************************************)
(* Who may take a done run away.                                           *)
(***************************************************************************)

KeepsDone(r) ==
    status[r] = "done" =>
        /\ failing'[r] <= failing[r]
        /\ \/ status'[r] = "done"
           \/ rel["reapR"][r] = "finish" /\ rel'["reapR"][r] = "idle"
           \/ failing'[r] < failing[r]

LEMMA OwnStepKeepsDone ==
    ASSUME TypeOK, Handover, NEW r \in Runs, DoneHasRow(r), Works(r)
    PROVE  KeepsDone(r)
<1> SUFFICES ASSUME status[r] = "done" PROVE KeepsDone(r)
  BY DEF KeepsDone
<1>1. ~Provisioner(r) /\ ~Recovery(r) /\ failing[r] \in Nat
  BY DEF Handover, HandedOver, NobodyMoves, TypeOK
<1>2. ASSUME UNCHANGED runVars \/ CreateRun(r) \/ CompleteRun(r) \/ Expire(r)
      PROVE  status'[r] = "done"
  BY <1>2 DEF runVars, CreateRun, CompleteRun, Expire, TypeOK, RunTableTypeOK
<1>3. CASE FailCommit(r)
  <2>1. failing'[r] = failing[r] - 1
    BY <1>3 DEF FailCommit, TypeOK
  <2> QED BY <1>1, <2>1 DEF KeepsDone
<1>4. CASE Requests(r) /\ ~FailCommit(r)
  <2>1. failing'[r] = failing[r]
    BY <1>4 DEF Requests, Submit, PostComplete, PostFail, CanFail, CompleteUpload,
                CompleteCommit, CompletePublish, taskVars, TypeOK
  <2>2. UNCHANGED runVars \/ CreateRun(r) \/ CompleteRun(r)
    BY <1>4 DEF Requests, Submit, PostComplete, PostFail, CompleteUpload, CompleteCommit,
                CompletePublish
  <2> QED BY <1>1, <1>2, <2>1, <2>2 DEF KeepsDone
<1>5. CASE Provision(r)
  <2>1. failing' = failing /\ UNCHANGED runVars
    BY <1>1, <1>5 DEF Provisioner, Provision, ProvNode, ProvStage, ProvApply, ProvOutput,
                      ProvBusy, ProvRunning, ProvSafeDestroy, ProvSafeForget,
                      ProvRequeue, TailDown, ProvDown, ProvFail
  <2> QED BY <1>1, <1>2, <2>1 DEF KeepsDone
<1>6. CASE Release(r)
  <2>1. failing' = failing /\ ~OrphanRequeue(r)
    BY <1>1, <1>6 DEF Release, RelDestroy, RelForget, RelDown, RelMarkFailed,
                      OrphanRequeue, Recovery
  <2>2. CASE UNCHANGED runVars
    BY <1>1, <1>2, <2>1, <2>2 DEF KeepsDone
  <2>3. ASSUME NEW k \in Origins, RelMarkFailed(k, r) PROVE KeepsDone(r)
    <3>1. k = "reapR" /\ rel["reapR"][r] = "finish"
      BY <1>1, <2>3 DEF RelMarkFailed, Recovery
    <3> QED BY <1>1, <2>1, <2>3, <3>1 DEF RelMarkFailed, RelGoto, KeepsDone, TypeOK
  <2> QED BY <1>1, <1>6, <2>1, <2>2, <2>3 DEF Release, RelDestroy, RelForget, RelDown
<1>7. CASE Timeout(r)
  BY <1>1, <1>2, <1>7 DEF Timeout, taskVars, KeepsDone
<1> QED BY <1>3, <1>4, <1>5, <1>6, <1>7 DEF Works

\* A done run stays done, but for the running watchdog's second write after
\* the release and a /fail accepted before the run was done; and no /fail is
\* accepted once it is.
THEOREM DoneStaysHolds == Spec => DoneStays
<1> DEFINE Rows == \A r \in Runs : DoneHasRow(r)
           Kept == \A r \in Runs : KeepsDone(r)
<1>1. Init => Rows
  BY DEF Init, RunTableInit, DoneHasRow
<1>2. TypeOK /\ Rows /\ [Next]_vars => Rows'
  BY OneTransaction, RowKept DEF TypeOK
<1>3. TypeOK /\ Handover /\ Rows /\ [Next]_vars => [Kept]_vars
  <2> SUFFICES ASSUME TypeOK, Handover, Rows, Next, NEW q \in Runs
               PROVE  KeepsDone(q)
    OBVIOUS
  <2>0. failing[q] \in Nat
    BY DEF TypeOK
  <2>1. ASSUME NEW r \in Runs, Works(r) PROVE KeepsDone(q)
    <3>1. CASE q = r
      BY <2>1, <3>1, OwnStepKeepsDone
    <3>2. CASE q # r
      BY <2>0, <2>1, <3>2, OthersRest DEF Rests, SameRun, SameTasks, KeepsDone
    <3> QED BY <3>1, <3>2
  <2>2. CASE Poll
    <3>1. failing' = failing /\ (status[q] = "done" => status'[q] = "done")
      BY <2>2 DEF Poll, RecoverLeaked, RecoverOrphans, PollCount, PollClaim,
                  ReapProvisioning, ReapRunning, ClaimSets, QueuedOf, ClaimQueued,
                  ClaimTimedOut, TimedOut, runVars, taskVars
    <3> QED BY <2>0, <3>1 DEF KeepsDone
  <2>3. CASE \E kept \in BOOLEAN : Crash(kept)
    BY <2>0, <2>3 DEF Crash, None, runVars, KeepsDone
  <2> QED BY <2>1, <2>2, <2>3 DEF Next, Works
<1>4. Spec => []Rows
  <2> HIDE DEF Rows
  <2> QED BY TypeCorrect, <1>1, <1>2, PTL DEF Spec
<1>5. Spec => [][Kept]_vars
  <2> HIDE DEF Rows, Kept
  <2> QED BY TypeCorrect, HandoverHolds, <1>3, <1>4, PTL DEF Spec
<1> QED BY <1>5 DEF DoneStays, KeepsDone

-----------------------------------------------------------------------------
(***************************************************************************)
(* Orchestrator implements GpuFleet.  A step moves the life of runs and    *)
(* leaves the four sets of the fleet alone, or it moves one of the sets    *)
(* and no life.                                                            *)
(***************************************************************************)

Destroys(r) == prov[r] = "sforget" \/ \E k \in Origins : rel[k][r] = "forget"

Applying == {r \in Runs : prov[r] = "apply"}
Destroying == {r \in Runs : Destroys(r)}
TrackedRuns == {r \in Runs : tracked[r] # {}}
StrayRuns == {r \in Runs : stray[r] # {}}
EndedRuns == {r \in Runs : endedAt[r]}

SameFleet == UNCHANGED <<Applying, Destroying, TrackedRuns, StrayRuns>>
SameLife == UNCHANGED <<PhaseOf, attempts, resultRow>>

\* The actions of GpuFleet under the mapping.
LEMMA FleetActions ==
    /\ Fleet!FleetInit <=>
         /\ Fleet!Init
         /\ EndedRuns = {} /\ Applying = {} /\ Destroying = {}
         /\ TrackedRuns = {} /\ StrayRuns = {}
    /\ \A r : Fleet!BeginApply(r) <=>
         /\ r \notin Applying /\ Applying' = Applying \union {r}
         /\ UNCHANGED <<Destroying, TrackedRuns, StrayRuns>>
    /\ \A r, recorded : Fleet!EndApply(r, recorded) <=>
         /\ r \in Applying /\ Applying' = Applying \ {r}
         /\ TrackedRuns' = IF recorded THEN TrackedRuns \union {r} ELSE TrackedRuns
         /\ UNCHANGED <<Destroying, StrayRuns>>
    /\ \A r : Fleet!Destroy(r) <=>
         /\ r \in Applying => r \in EndedRuns
         /\ TrackedRuns' = TrackedRuns \ {r} /\ Destroying' = Destroying \union {r}
         /\ UNCHANGED <<Applying, StrayRuns>>
    /\ \A r, gone, last : Fleet!Forget(r, gone, last) <=>
         /\ r \in Destroying
         /\ StrayRuns' = IF gone THEN StrayRuns \union ({r} \intersect TrackedRuns)
                                 ELSE StrayRuns
         /\ TrackedRuns' = IF gone THEN TrackedRuns \ {r} ELSE TrackedRuns
         /\ Destroying' = IF last THEN Destroying \ {r} ELSE Destroying
         /\ UNCHANGED Applying
    /\ \A S : Fleet!Die(Runs, S) <=>
         /\ S \subseteq Applying \ TrackedRuns /\ StrayRuns' = StrayRuns \union S
         /\ Applying' = {} /\ Destroying' = {} /\ UNCHANGED TrackedRuns
  BY DEF Fleet!FleetInit, Fleet!BeginApply, Fleet!EndApply, Fleet!Destroy, Fleet!Forget,
         Fleet!Die, Applying, Destroying, Destroys, TrackedRuns, StrayRuns, EndedRuns

FleetMove == Fleet!FleetMoves /\ SameLife

FleetStep == [Fleet!FleetNext]_(Fleet!allVars)

\* The steps of RunLifecycle are those GpuFleet extends.
LEMMA SameLifecycle == LifeStep => Fleet!Next \/ SameLife
  BY DEF LifeStep, SameLife, PhaseOf,
         Lifecycle!lifeVars, Lifecycle!Next, Lifecycle!Move, Lifecycle!Enqueue,
         Lifecycle!Claim, Lifecycle!Retry, Lifecycle!LastTry, Lifecycle!Revive,
         Lifecycle!Deliver, Lifecycle!GiveUp,
         Fleet!Next, Fleet!Move, Fleet!Enqueue, Fleet!Claim, Fleet!Retry,
         Fleet!LastTry, Fleet!Revive, Fleet!Deliver, Fleet!GiveUp

\* ended_at holds exactly the runs that have been over.
LEMMA EndedKept ==
    ASSUME TypeOK, TypeOK', EndedFirst', [Next]_vars
    PROVE  EndedRuns' = EndedRuns \union {r \in Runs : PhaseOf'[r] = "over"}
<1>1. ASSUME NEW q \in Runs
      PROVE  /\ endedAt[q] => endedAt'[q]
             /\ endedAt'[q] => endedAt[q] \/ status'[q] \in Terminal
  <2>1. CASE UNCHANGED runVars
    BY <2>1 DEF runVars
  <2>2. ASSUME NEW r \in Runs,
               \/ CreateRun(r) \/ SetRunning(r) \/ SetFailed(r)
               \/ CompleteRun(r) \/ RequeueForRetry(r) \/ Expire(r)
        PROVE  /\ endedAt[q] => endedAt'[q]
               /\ endedAt'[q] => endedAt[q] \/ status'[q] \in Terminal
    <3> USE DEF TypeOK, RunTableTypeOK, Terminal
    <3>1. CASE CreateRun(r) \/ SetRunning(r) \/ RequeueForRetry(r) \/ Expire(r)
      BY <3>1 DEF CreateRun, SetRunning, RequeueForRetry, Expire
    <3>2. CASE SetFailed(r)
      BY <3>2 DEF SetFailed
    <3>3. CASE CompleteRun(r)
      BY <3>3 DEF CompleteRun
    <3> QED BY <2>2, <3>1, <3>2, <3>3
  <2>3. ASSUME NEW s, ClaimTimedOut(s)
        PROVE  /\ endedAt[q] => endedAt'[q]
               /\ endedAt'[q] => endedAt[q] \/ status'[q] \in Terminal
    BY <2>3 DEF ClaimTimedOut, Terminal
  <2>4. ASSUME NEW S, ClaimQueued(S)
        PROVE  /\ endedAt[q] => endedAt'[q]
               /\ endedAt'[q] => endedAt[q] \/ status'[q] \in Terminal
    BY <2>4 DEF ClaimQueued
  <2> QED BY <2>1, <2>2, <2>3, <2>4, OneTransaction
<1>2. \A q \in Runs : status'[q] \in Terminal => endedAt'[q]
  BY DEF EndedFirst, Over
<1>3. \A q \in Runs : PhaseOf'[q] = "over" <=> status'[q] \in Terminal
  BY DEF PhaseOf, Phase, TypeOK, RunTableTypeOK, RunStatus, Live, Terminal
<1> QED BY <1>1, <1>2, <1>3 DEF EndedRuns

\* After a step too, a run under an apply is not queued again, and has no result.
LEMMA ApplyIsAlone ==
    ASSUME TypeOK', Handover'
    PROVE  Fleet!ApplyAlone
<1> SUFFICES ASSUME NEW r \in Runs, prov'[r] = "apply"
             PROVE  Phase(status[r])' \in {"active", "over"} /\ ~resultRow'[r]
  BY DEF Fleet!ApplyAlone
<1>1. status'[r] \in {"provisioning", "failed"} /\ ~resultRow'[r]
  BY DEF Provisioner, Handover, HandedOver, NobodyMoves, TypeOK, RunTableTypeOK, RunStatus
<1> QED BY <1>1 DEF Phase, Live, Terminal

\* Either kind of step is a step of GpuFleet.
LEMMA FleetStepOf ==
    ASSUME TypeOK, TypeOK', Handover', EndedFirst, EndedFirst', [Next]_vars,
           (LifeStep /\ SameFleet) \/ FleetMove
    PROVE  FleetStep
<1>1. EndedRuns' = EndedRuns \union {r \in Runs : PhaseOf'[r] = "over"}
  BY EndedKept
<1>2. Fleet!EndedKept
  BY <1>1 DEF Fleet!EndedKept, EndedRuns, PhaseOf
<1>4. Fleet!ApplyAlone
  BY ApplyIsAlone
<1>5. CASE FleetMove
  BY <1>2, <1>4, <1>5
     DEF FleetMove, SameLife, PhaseOf, FleetStep, Fleet!FleetNext, Fleet!lifeVars
<1>6. CASE Fleet!Next /\ SameFleet
  BY <1>2, <1>4, <1>6
     DEF SameFleet, Applying, Destroying, Destroys, TrackedRuns, StrayRuns, FleetStep,
         Fleet!FleetNext, Fleet!fleetVars
<1>7. CASE SameLife /\ SameFleet
  <2>1. \A r \in Runs : PhaseOf[r] = "over" => r \in EndedRuns
    BY DEF PhaseOf, Phase, EndedRuns, EndedFirst, Over, TypeOK, RunTableTypeOK, RunStatus,
           Live, Terminal
  <2>2. EndedRuns' = EndedRuns
    BY <1>1, <1>7, <2>1 DEF SameLife
  <2> QED BY <1>7, <2>2
          DEF SameLife, PhaseOf, SameFleet, Applying, Destroying, Destroys, TrackedRuns,
              StrayRuns, EndedRuns, FleetStep, Fleet!allVars, Fleet!lifeVars,
              Fleet!fleetVars
<1> QED BY <1>5, <1>6, <1>7, SameLifecycle

\* What counts of one run for the sets of the fleet.
SameInFleet(q) ==
    /\ prov'[q] = "apply" <=> prov[q] = "apply"
    /\ Destroys(q)' <=> Destroys(q)
    /\ tracked'[q] = {} <=> tracked[q] = {}
    /\ stray'[q] = {} <=> stray[q] = {}

LEMMA RestsInFleet ==
    ASSUME NEW q \in Runs, Rests(q)
    PROVE  SameInFleet(q)
  BY DEF Rests, SameTasks, SameVms, SameInFleet, Destroys

LEMMA AllSameFleet ==
    ASSUME \A q \in Runs : SameInFleet(q)
    PROVE  SameFleet
  BY DEF SameFleet, SameInFleet, Applying, Destroying, TrackedRuns, StrayRuns

\* The sets move at r only.
LEMMA FleetAt ==
    ASSUME NEW r \in Runs, \A q \in Runs : q # r => SameInFleet(q)
    PROVE  /\ prov'[r] = "apply" <=> r \in Applying'
           /\ Destroys(r)' <=> r \in Destroying'
           /\ tracked'[r] # {} <=> r \in TrackedRuns'
           /\ stray'[r] # {} <=> r \in StrayRuns'
           /\ Applying' \ {r} = Applying \ {r}
           /\ Destroying' \ {r} = Destroying \ {r}
           /\ TrackedRuns' \ {r} = TrackedRuns \ {r}
           /\ StrayRuns' \ {r} = StrayRuns \ {r}
  BY DEF SameInFleet, Applying, Destroying, TrackedRuns, StrayRuns

LEMMA BeginMoves ==
    ASSUME TypeOK, NEW r \in Runs, \A q \in Runs : q # r => SameInFleet(q), ProvStage(r)
    PROVE  Fleet!FleetMoves
<1>1. /\ prov[r] = "stage" /\ prov'[r] = "apply"
      /\ UNCHANGED <<rel, tracked, stray>>
  BY DEF ProvStage, ProvGoto, StageWorkspace, TypeOK
<1>2. /\ r \notin Applying /\ r \in Applying'
      /\ Destroys(r)' <=> Destroys(r)
  BY <1>1, FleetAt DEF Applying, Destroys
<1>3. /\ Applying' = Applying \union {r}
      /\ UNCHANGED <<Destroying, TrackedRuns, StrayRuns>>
  BY <1>1, <1>2, FleetAt DEF Destroying, TrackedRuns, StrayRuns
<1>4. Fleet!BeginApply(r)
  BY <1>2, <1>3, FleetActions
<1> QED BY <1>4 DEF Fleet!FleetMoves

LEMMA EndMoves ==
    ASSUME TypeOK, NEW r \in Runs, \A q \in Runs : q # r => SameInFleet(q), ProvApply(r)
    PROVE  Fleet!FleetMoves
<1>1. /\ prov[r] = "apply" /\ prov'[r] \in {"output", "sdestroy", "down"}
      /\ UNCHANGED rel
  BY DEF ProvApply, ProvGoto, TypeOK
<1>2. /\ stray' = stray
      /\ tracked'[r] = tracked[r] \/ tracked'[r] # {}
  <2>1. CASE UNCHANGED cloudVars
    BY <2>1 DEF cloudVars
  <2>2. CASE CreateStopped(r, Answering(r)) \/ Start(r, Answering(r))
    <3>1. \E v : Record(r, v)
      BY <2>2 DEF CreateStopped, Start
    <3> QED BY <3>1 DEF Record, TypeOK, GpuCloudTypeOK
  <2> QED BY <2>1, <2>2 DEF ProvApply, ApplyLacksCapacity, ApplyErrs
<1>3. /\ r \in Applying /\ r \notin Applying'
      /\ Destroys(r)' <=> Destroys(r)
  BY <1>1, FleetAt DEF Applying, Destroys
<1>4. /\ Applying' = Applying \ {r}
      /\ UNCHANGED <<Destroying, StrayRuns>>
  BY <1>2, <1>3, FleetAt DEF Destroying, StrayRuns
<1>5. r \in TrackedRuns => r \in TrackedRuns'
  BY <1>2, FleetAt DEF TrackedRuns
<1>6. CASE r \in TrackedRuns'
  <2>1. TrackedRuns' = TrackedRuns \union {r}
    BY <1>6, FleetAt
  <2>2. Fleet!EndApply(r, TRUE)
    BY <1>3, <1>4, <2>1, FleetActions
  <2> QED BY <2>2 DEF Fleet!FleetMoves
<1>7. CASE r \notin TrackedRuns'
  <2>1. TrackedRuns' = TrackedRuns
    BY <1>5, <1>7, FleetAt
  <2>2. Fleet!EndApply(r, FALSE)
    BY <1>3, <1>4, <2>1, FleetActions
  <2> QED BY <2>2 DEF Fleet!FleetMoves
<1> QED BY <1>6, <1>7

\* A destroy by the task that provisions, or by a release.
LEMMA DestroyMoves ==
    ASSUME TypeOK, NEW r \in Runs, \A q \in Runs : q # r => SameInFleet(q),
           DestroyTracked(r), Destroys(r)',
           prov[r] = "apply" => endedAt[r], prov'[r] = "apply" <=> prov[r] = "apply"
    PROVE  Fleet!FleetMoves
<1>1. tracked'[r] = {} /\ stray' = stray
  BY DEF DestroyTracked, TypeOK, GpuCloudTypeOK
<1>2. /\ Applying' = Applying /\ StrayRuns' = StrayRuns
      /\ TrackedRuns' = TrackedRuns \ {r} /\ Destroying' = Destroying \union {r}
  BY <1>1, FleetAt DEF Applying, StrayRuns
<1>3. r \in Applying => r \in EndedRuns
  BY DEF Applying, EndedRuns
<1>4. Fleet!Destroy(r)
  BY <1>2, <1>3, FleetActions
<1> QED BY <1>4 DEF Fleet!FleetMoves

LEMMA ForgetMoves ==
    ASSUME TypeOK, NEW r \in Runs, \A q \in Runs : q # r => SameInFleet(q),
           NEW gone \in BOOLEAN, ForgetState(r, gone), Destroys(r),
           prov'[r] = "apply" <=> prov[r] = "apply"
    PROVE  Fleet!FleetMoves
<1>1. /\ stray'[r] = IF gone THEN stray[r] \union tracked[r] ELSE stray[r]
      /\ tracked'[r] = IF gone THEN {} ELSE tracked[r]
  BY DEF ForgetState, TypeOK, GpuCloudTypeOK
<1>2. /\ r \in Destroying
      /\ r \in TrackedRuns <=> tracked[r] # {}
      /\ r \in StrayRuns <=> stray[r] # {}
      /\ r \in Applying <=> prov[r] = "apply"
  BY DEF Destroying, TrackedRuns, StrayRuns, Applying
<1>3. Applying' = Applying
  <2>1. r \in Applying' <=> r \in Applying
    BY <1>2, FleetAt
  <2> QED BY <2>1, FleetAt
<1>4. TrackedRuns' = IF gone THEN TrackedRuns \ {r} ELSE TrackedRuns
  <2>1. r \in TrackedRuns' <=> tracked'[r] # {}
    BY DEF TrackedRuns
  <2>2. CASE gone
    <3>1. r \notin TrackedRuns'
      BY <1>1, <2>1, <2>2
    <3> QED BY <2>2, <3>1, FleetAt
  <2>3. CASE ~gone
    <3>1. r \in TrackedRuns' <=> r \in TrackedRuns
      BY <1>1, <1>2, <2>1, <2>3
    <3>2. TrackedRuns' = TrackedRuns
      BY <3>1, FleetAt
    <3> QED BY <2>3, <3>2
  <2> QED BY <2>2, <2>3
<1>5. StrayRuns' = IF gone THEN StrayRuns \union ({r} \intersect TrackedRuns) ELSE StrayRuns
  <2>1. stray'[r] # {} <=> stray[r] # {} \/ (gone /\ tracked[r] # {})
    BY <1>1
  <2>2. r \in StrayRuns' <=> r \in StrayRuns \/ (gone /\ r \in TrackedRuns)
    BY <1>2, <2>1, FleetAt
  <2> QED BY <2>2, FleetAt
<1>6. CASE r \in Destroying'
  <2>1. Destroying' = Destroying
    BY <1>2, <1>6, FleetAt
  <2>2. Fleet!Forget(r, gone, FALSE)
    BY <1>2, <1>3, <1>4, <1>5, <2>1, FleetActions
  <2> QED BY <2>2 DEF Fleet!FleetMoves
<1>7. CASE r \notin Destroying'
  <2>1. Destroying' = Destroying \ {r}
    BY <1>7, FleetAt
  <2>2. Fleet!Forget(r, gone, TRUE)
    BY <1>2, <1>3, <1>4, <1>5, <2>1, FleetActions
  <2> QED BY <2>2 DEF Fleet!FleetMoves
<1> QED BY <1>6, <1>7

LEMMA CrashMoves ==
    ASSUME TypeOK, NEW kept \in BOOLEAN, Crash(kept)
    PROVE  Fleet!FleetMoves
<1>1. PICK made \in Unrecorded : CloudAfterCrash(made, kept)
  BY DEF Crash
<1> DEFINE S == {r \in Runs : made[r] # {}}
<1>2. \A r \in Runs : made[r] # {} => prov[r] = "apply" /\ tracked[r] = {}
  BY DEF Unrecorded
<1>3. S \subseteq Applying \ TrackedRuns
  BY <1>2 DEF Applying, TrackedRuns
<1>4. StrayRuns' = StrayRuns \union S /\ TrackedRuns' = TrackedRuns
  BY <1>1 DEF CloudAfterCrash, StrayRuns, TrackedRuns
<1>5. Applying' = {} /\ Destroying' = {}
  BY DEF Crash, NoTask, NoRelease, Applying, Destroying, Destroys
<1> HIDE DEF S
<1>6. Fleet!Die(Runs, S)
  BY <1>3, <1>4, <1>5, FleetActions
<1>7. S \in SUBSET Applying
  BY <1>3
<1> QED BY <1>6, <1>7 DEF Fleet!FleetMoves, Applying

LEMMA ReleaseInFleet ==
    ASSUME TypeOK, Handover, EndedFirst, NEW r \in Runs, Release(r),
           \A q \in Runs : q # r => SameInFleet(q)
    PROVE  SameInFleet(r) \/ (Fleet!FleetMoves /\ UNCHANGED runVars)
<1>1. prov' = prov
  BY DEF Release, RelDestroy, RelForget, RelDown, RelMarkFailed, OrphanRequeue
\* Only the steps named "forget" count.
<1>2. ASSUME NEW k \in Origins, NEW t, rel' = [rel EXCEPT ![k][r] = t],
             rel[k][r] # "forget", t # "forget"
      PROVE  Destroys(r)' <=> Destroys(r)
  BY <1>1, <1>2 DEF Destroys, TypeOK
<1>3. ASSUME NEW k \in Origins, RelDestroy(k, r)
      PROVE  SameInFleet(r) \/ (Fleet!FleetMoves /\ UNCHANGED runVars)
  <2>1. rel[k][r] = "destroy" /\ UNCHANGED runVars
    BY <1>3 DEF RelDestroy
  <2>2. CASE DestroyTracked(r) /\ RelGoto(k, r, "forget")
    <3>1. Destroys(r)'
      BY <2>2 DEF RelGoto, Destroys, TypeOK
    <3>2. prov[r] = "apply" => endedAt[r]
      BY <2>1 DEF EndedFirst, Over, Handover, HandedOver, Provisioner, Recovery
    <3> QED BY <1>1, <2>1, <2>2, <3>1, <3>2, DestroyMoves
  <2>3. CASE UNCHANGED cloudVars /\ (RelGoto(k, r, "down") \/ RelAttemptFails(k, r))
    <3>1. PICK t : rel' = [rel EXCEPT ![k][r] = t] /\ t # "forget"
      BY <2>3 DEF RelGoto, RelAttemptFails, RelReturns, AfterRelease
    <3>2. Destroys(r)' <=> Destroys(r)
      BY <1>2, <2>1, <3>1
    <3> QED BY <1>1, <2>3, <3>2 DEF SameInFleet, cloudVars
  <2> QED BY <1>3, <2>2, <2>3 DEF RelDestroy
<1>4. ASSUME NEW k \in Origins, RelForget(k, r)
      PROVE  SameInFleet(r) \/ (Fleet!FleetMoves /\ UNCHANGED runVars)
  <2>1. Destroys(r) /\ UNCHANGED runVars
    BY <1>4 DEF RelForget, Destroys
  <2>2. PICK gone \in BOOLEAN : ForgetState(r, gone)
    BY <1>4 DEF RelForget
  <2> QED BY <1>1, <2>1, <2>2, ForgetMoves
<1>5. ASSUME NEW k \in Origins, RelDown(k, r) \/ RelMarkFailed(k, r) PROVE SameInFleet(r)
  <2>1. UNCHANGED cloudVars /\ rel[k][r] # "forget"
    BY <1>5 DEF RelDown, RelMarkFailed
  <2>2. PICK t : rel' = [rel EXCEPT ![k][r] = t] /\ t # "forget"
    BY <1>5 DEF RelDown, RelMarkFailed, RelGoto, RelAttemptFails, RelReturns, AfterRelease
  <2>3. Destroys(r)' <=> Destroys(r)
    BY <1>2, <2>1, <2>2
  <2> QED BY <1>1, <2>1, <2>3 DEF SameInFleet, cloudVars
<1>6. ASSUME OrphanRequeue(r) PROVE SameInFleet(r)
  <2>1. UNCHANGED cloudVars /\ rel["orphan"][r] # "forget" /\ "orphan" \in Origins
    BY <1>6 DEF OrphanRequeue, Origins
  <2>2. PICK t \in {"giveup", "idle"} : rel' = [rel EXCEPT !["orphan"][r] = t]
    BY <1>6 DEF OrphanRequeue, RelGoto
  <2>3. Destroys(r)' <=> Destroys(r)
    BY <1>2, <2>1, <2>2
  <2> QED BY <1>1, <2>1, <2>3 DEF SameInFleet, cloudVars
<1> QED BY <1>3, <1>4, <1>5, <1>6 DEF Release

LEMMA ProvisionInFleet ==
    ASSUME TypeOK, NEW r \in Runs, Provision(r),
           \A q \in Runs : q # r => SameInFleet(q)
    PROVE  SameInFleet(r) \/ (Fleet!FleetMoves /\ UNCHANGED runVars)
<1>1. UNCHANGED rel
  BY DEF Provision, ProvNode, ProvStage, ProvApply, ProvOutput, ProvBusy, ProvRunning,
         ProvSafeDestroy, ProvSafeForget, ProvRequeue, TailDown, ProvDown, ProvFail,
         ProvGoto
<1>2. ASSUME UNCHANGED cloudVars, prov[r] \notin {"apply", "sforget"},
             prov'[r] \notin {"apply", "sforget"}
      PROVE  SameInFleet(r)
  BY <1>1, <1>2 DEF SameInFleet, Destroys, cloudVars
<1>3. ASSUME ProvStage(r) \/ ProvApply(r) PROVE Fleet!FleetMoves /\ UNCHANGED runVars
  BY <1>3, BeginMoves, EndMoves DEF ProvStage, ProvApply
<1>4. ASSUME ProvSafeDestroy(r)
      PROVE  SameInFleet(r) \/ (Fleet!FleetMoves /\ UNCHANGED runVars)
  <2>1. prov[r] = "sdestroy" /\ UNCHANGED runVars
    BY <1>4 DEF ProvSafeDestroy
  <2>2. CASE DestroyTracked(r) /\ ProvGoto(r, "sforget")
    <3>1. prov'[r] = "sforget"
      BY <2>2 DEF ProvGoto, TypeOK
    <3> QED BY <2>1, <2>2, <3>1, DestroyMoves DEF Destroys
  <2>3. CASE UNCHANGED cloudVars /\ ProvGoto(r, "requeue")
    <3>1. prov'[r] = "requeue"
      BY <2>3 DEF ProvGoto, TypeOK
    <3> QED BY <1>2, <2>1, <2>3, <3>1
  <2> QED BY <1>4, <2>2, <2>3 DEF ProvSafeDestroy
<1>5. ASSUME ProvSafeForget(r)
      PROVE  Fleet!FleetMoves /\ UNCHANGED runVars
  <2>1. /\ prov[r] = "sforget" /\ prov'[r] = "requeue" /\ UNCHANGED runVars
    BY <1>5 DEF ProvSafeForget, ProvGoto, TypeOK
  <2>2. PICK gone \in BOOLEAN : ForgetState(r, gone)
    BY <1>5 DEF ProvSafeForget
  <2> QED BY <2>1, <2>2, ForgetMoves DEF Destroys
<1>6. ASSUME ProvNode(r) \/ ProvOutput(r) \/ ProvBusy(r) \/ ProvRunning(r) \/ ProvRequeue(r)
             \/ ProvDown(r) \/ ProvFail(r)
      PROVE  SameInFleet(r)
  <2>1. UNCHANGED cloudVars /\ prov[r] \notin {"apply", "sforget"}
    BY <1>6 DEF ProvNode, ProvOutput, ProvBusy, ProvRunning, ProvRequeue, ProvDown, ProvFail
  <2>2. \E t : prov' = [prov EXCEPT ![r] = t] /\ t \notin {"apply", "sforget"}
    BY <1>6 DEF ProvNode, ProvOutput, ProvBusy, ProvRunning, ProvRequeue, ProvDown,
                ProvFail, ProvGoto
  <2> QED BY <1>2, <2>1, <2>2 DEF TypeOK
<1>7. ASSUME TailDown(r) PROVE SameInFleet(r)
  BY <1>1, <1>7 DEF TailDown, SameInFleet, Destroys, cloudVars
<1> QED BY <1>3, <1>4, <1>5, <1>6, <1>7 DEF Provision

LEMMA RequestsInFleet ==
    ASSUME TypeOK, NEW r \in Runs, Requests(r)
    PROVE  SameInFleet(r)
<1>1. prov' = prov
  BY DEF Requests, Submit, PostComplete, PostFail, CompleteUpload, CompleteCommit,
         CompletePublish, FailCommit, taskVars
<1>2. UNCHANGED <<tracked, stray>>
  BY RequestsRunner DEF cloudVars, RunnerMoves
<1>3. UNCHANGED rel \/ \E k \in Origins : StartRelease(k, {r})
  BY DEF Requests, Submit, PostComplete, PostFail, CompleteUpload, CompleteCommit,
         CompletePublish, FailCommit, Origins, taskVars
<1>4. \A k \in Origins : rel'[k][r] = "forget" <=> rel[k][r] = "forget"
  BY <1>3, StartReleaseRel
<1> QED BY <1>1, <1>2, <1>4 DEF SameInFleet, Destroys

LEMMA PollInFleet ==
    ASSUME TypeOK, Handover, NEW q \in Runs, Poll
    PROVE  SameInFleet(q)
<1>1. UNCHANGED cloudVars
  BY DEF Poll, RecoverLeaked, RecoverOrphans, PollCount, PollClaim, ReapProvisioning,
         ReapRunning
<1>2. UNCHANGED rel \/ \E k \in Origins : \E S : StartRelease(k, S)
  BY DEF Poll, RecoverLeaked, RecoverOrphans, PollCount, PollClaim, ReapProvisioning,
         ReapRunning, Origins, taskVars
<1>3. \A k \in Origins : rel'[k][q] = "forget" <=> rel[k][q] = "forget"
  BY <1>2, StartReleaseRel
<1>4. prov'[q] = prov[q] \/ (prov[q] = "idle" /\ prov'[q] = "node")
  <2>1. CASE \E g \in GpuTypes : PollClaim(g)
    <3>1. PICK g \in GpuTypes : PollClaim(g)
      BY <2>1
    <3>2. PICK S \in ClaimSets(g) : prov' = [r \in Runs |-> IF r \in S THEN "node" ELSE prov[r]]
      BY <3>1 DEF PollClaim
    <3>3. q \in S => prov[q] = "idle"
      BY DEF ClaimSets, QueuedOf, Handover, HandedOver, NobodyMoves, Provisioner
    <3> QED BY <3>2, <3>3
  <2>2. CASE UNCHANGED prov
    BY <2>2
  <2> QED BY <2>1, <2>2 DEF Poll, RecoverLeaked, RecoverOrphans, PollCount,
                            ReapProvisioning, ReapRunning, taskVars
<1> QED BY <1>1, <1>3, <1>4 DEF SameInFleet, Destroys, cloudVars

LEMMA NextFleet ==
    ASSUME TypeOK, Handover, Fresh, EndedFirst, TypeOK', Handover', EndedFirst',
           [Next]_vars
    PROVE  FleetStep
<1>1. LifeStep
  BY NextRefines
<1>2. ASSUME Fleet!FleetMoves, UNCHANGED runVars PROVE FleetStep
  BY <1>2, FleetStepOf DEF FleetMove, SameLife, PhaseOf, runVars
<1>3. ASSUME \A q \in Runs : SameInFleet(q) PROVE FleetStep
  BY <1>1, <1>3, AllSameFleet, FleetStepOf
<1>4. ASSUME NEW r \in Runs, Works(r) PROVE FleetStep
  <2>1. \A q \in Runs : q # r => SameInFleet(q)
    BY <1>4, OthersRest, RestsInFleet
  <2>2. ASSUME Timeout(r) PROVE SameInFleet(r)
    BY <2>2 DEF Timeout, taskVars, cloudVars, SameInFleet, Destroys
  <2>3. SameInFleet(r) \/ (Fleet!FleetMoves /\ UNCHANGED runVars)
    BY <1>4, <2>1, <2>2, ReleaseInFleet, ProvisionInFleet, RequestsInFleet DEF Works
  <2>4. CASE SameInFleet(r)
    BY <1>3, <2>1, <2>4
  <2> QED BY <1>2, <2>3, <2>4
<1>5. CASE Poll
  BY <1>3, <1>5, PollInFleet
<1>6. ASSUME NEW kept \in BOOLEAN, Crash(kept) PROVE FleetStep
  BY <1>2, <1>6, CrashMoves DEF Crash
<1>7. CASE UNCHANGED vars
  BY <1>3, <1>7 DEF vars, taskVars, cloudVars, SameInFleet, Destroys
<1> QED BY <1>4, <1>5, <1>6, <1>7 DEF Next, Works

\* What the CI jobs rely on holds of every orchestrator: a VM loses its record
\* only in a crash inside its apply or when an apply ends inside a destroy of
\* the same run, and a run under `terraform apply` is neither queued again nor
\* completed.
THEOREM FleetImplemented == Spec => ImplementsFleet
<1>1. Init => Fleet!FleetInit
  <2> SUFFICES ASSUME Init PROVE Fleet!FleetInit
    OBVIOUS
  <2>1. Fleet!Init
    BY DEF Init, RunTableInit, Fleet!Init, Phase, Live, Terminal
  <2>2. EndedRuns = {} /\ TrackedRuns = {} /\ StrayRuns = {}
    BY DEF Init, RunTableInit, GpuCloudInit, EndedRuns, TrackedRuns, StrayRuns
  <2>3. Applying = {} /\ Destroying = {}
    BY DEF Init, NoTask, NoRelease, Applying, Destroying, Destroys
  <2> QED BY <2>1, <2>2, <2>3, FleetActions
<1>2. Spec => []Fresh
  BY TypeCorrect, InitFresh, NextFresh, PTL DEF Spec
<1>3. Spec => [][Fleet!FleetNext]_(Fleet!allVars)
  BY TypeCorrect, HandoverHolds, EndedFirstHolds, <1>2, NextFleet, PTL DEF Spec, FleetStep
<1> QED BY <1>1, <1>3, PTL DEF Spec, ImplementsFleet, Fleet!FleetSpec
===============================================================================
