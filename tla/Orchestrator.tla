----------------------------- MODULE Orchestrator -----------------------------
(***************************************************************************)
(* The orchestrator process: the polling loop, the asyncio tasks it starts *)
(* for a run, and the HTTP requests a runner sends about its run.  All of  *)
(* them work on the same tables and on the same terraform workspace, and   *)
(* may be interleaved at every `await`: an action below is what one of     *)
(* them does between two awaits, a step name says what it does next.       *)
(***************************************************************************)
EXTENDS RunTable, NodeTable, GpuCloud, Integers

CONSTANTS
    Quota,         \* _GPU_QUOTA: the live VMs of each type we may hold
    ReleaseTries,  \* attempts release_node makes
    MaxCrashes     \* bound on the crashes of one behaviour

ASSUME QuotaAssumption == Quota \in [GpuTypes -> Nat]
ASSUME ReleaseTriesAssumption == ReleaseTries \in Nat \ {0}
ASSUME MaxCrashesAssumption == MaxCrashes \in Nat

VARIABLES
    prov,     \* handle_queued_run of each run: its next step
    tail,     \* calls of handle_queued_run that have requeued the run and have
              \* yet to call set_down_by_run
    handler,  \* handler[r][v]: the /complete request of VM v in flight
    failing,  \* /fail requests about the run that were accepted: fail_run is next
    rel,      \* rel[k][r]: next step of the release_node that k started
    tries,    \* failed attempts of that release_node
    poller,   \* next step of polling_loop
    live,     \* poll_once's snapshot of count_live_by_type
    todo,     \* GPU types poll_once has yet to claim for
    crashes   \* crashes so far

requestVars == <<handler, failing>>
taskVars == <<prov, tail, requestVars, rel, tries>>
pollVars == <<poller, live, todo>>
vars == <<runVars, nodeVars, cloudVars, taskVars, pollVars, crashes>>

\* Who starts a release_node: the two request handlers, the two watchdogs and
\* the two recoveries at startup.
Origins == {"complete", "fail", "reapP", "reapR", "leaked", "orphan"}

ProvSteps == {"idle", "node", "stage", "apply", "output", "busy", "running",
              "sdestroy", "sforget", "requeue", "down", "fail"}
HandlerSteps == {"idle", "upload", "commit", "publish"}
RelSteps == {"idle", "destroy", "forget", "down", "finish", "giveup"}
PollSteps == {"leaked", "orphans", "count", "claim", "reapP", "reapR"}

NoTask == [r \in Runs |-> "idle"]
NoRequest == [r \in Runs |-> [v \in Vms |-> "idle"]]
None == [r \in Runs |-> 0]
NoRelease == [k \in Origins |-> NoTask]
NoTries == [k \in Origins |-> [r \in Runs |-> 0]]
NoLive == [g \in GpuTypes |-> 0]

\* Every variable of the tables, the cloud, the tasks and the loop has its type.
TypeOK ==
    /\ RunTableTypeOK
    /\ NodeTableTypeOK
    /\ GpuCloudTypeOK
    /\ prov \in [Runs -> ProvSteps]
    /\ tail \in [Runs -> Nat]
    /\ handler \in [Runs -> [Vms -> HandlerSteps]]
    /\ failing \in [Runs -> Nat]
    /\ rel \in [Origins -> [Runs -> RelSteps]]
    /\ tries \in [Origins -> [Runs -> 0 .. ReleaseTries - 1]]
    /\ poller \in PollSteps
    /\ live \in [GpuTypes -> Nat]
    /\ todo \in SUBSET GpuTypes
    /\ crashes \in 0 .. MaxCrashes

Init ==
    /\ RunTableInit
    /\ NodeTableInit
    /\ GpuCloudInit
    /\ prov = NoTask
    /\ tail = None
    /\ handler = NoRequest /\ failing = None
    /\ rel = NoRelease
    /\ tries = NoTries
    /\ poller = "leaked"
    /\ live = NoLive
    /\ todo = {}
    /\ crashes = 0

-----------------------------------------------------------------------------
(***************************************************************************)
(* release_node.                                                           *)
(***************************************************************************)

\* Start release_node for the runs of S.  A release of the same origin still
\* at work for a run stands for both.
StartRelease(k, S) ==
    rel' = [rel EXCEPT ![k] = [r \in Runs |->
                IF r \in S /\ @[r] = "idle" THEN "destroy" ELSE @[r]]]

\* Mutant: the recovery of an orphan does not go on after the release.
BugAfterRelease(k) == IF k = "reapR" THEN "finish" ELSE "idle"

\* The step after release_node returns, confirmed or not: the coroutine that
\* awaited it goes on, a bare task or background task ends.
AfterRelease(k) == IF k \in {"orphan", "reapR"} THEN "finish" ELSE "idle"

RelGoto(k, r, step) ==
    /\ rel' = [rel EXCEPT ![k][r] = step]
    /\ UNCHANGED tries

RelReturns(k, r) ==
    /\ rel' = [rel EXCEPT ![k][r] = AfterRelease(k)]
    /\ tries' = [tries EXCEPT ![k][r] = 0]

\* Mutant: one attempt too many.
BugRelAttemptFails(k, r) ==
    IF tries[k][r] < ReleaseTries
      THEN /\ rel' = [rel EXCEPT ![k][r] = "destroy"]
           /\ tries' = [tries EXCEPT ![k][r] = @ + 1]
      ELSE RelReturns(k, r)

\* One attempt raised: try again from the start, or give up for good.
RelAttemptFails(k, r) ==
    IF tries[k][r] + 1 < ReleaseTries
      THEN /\ rel' = [rel EXCEPT ![k][r] = "destroy"]
           /\ tries' = [tries EXCEPT ![k][r] = @ + 1]
      ELSE RelReturns(k, r)

RelDestroy(k, r) ==
    /\ rel[k][r] = "destroy"
    /\ \/ ~workspace[r] /\ RelGoto(k, r, "down") /\ UNCHANGED cloudVars
       \/ DestroyTracked(r) /\ RelGoto(k, r, "forget")
       \/ workspace[r] /\ RelAttemptFails(k, r) /\ UNCHANGED cloudVars
    /\ UNCHANGED <<runVars, nodeVars, prov, tail, requestVars, pollVars, crashes>>

\* rmtree raises when another release removed the workspace meanwhile.
RelForget(k, r) ==
    /\ rel[k][r] = "forget"
    /\ \E gone \in BOOLEAN : ForgetState(r, gone)
    /\ IF workspace[r] THEN RelGoto(k, r, "down") ELSE RelAttemptFails(k, r)
    /\ UNCHANGED <<runVars, nodeVars, prov, tail, requestVars, pollVars, crashes>>

RelDown(k, r) ==
    /\ rel[k][r] = "down"
    /\ \/ SetDownByRun(r) /\ RelReturns(k, r)
       \/ Ambiguous(r) /\ RelAttemptFails(k, r) /\ UNCHANGED nodeVars
    /\ UNCHANGED <<runVars, cloudVars, prov, tail, requestVars, pollVars, crashes>>

\* _abort_stuck_running, and the last step of
\* _recover_orphaned_provisioning_run once the budget is spent.
RelMarkFailed(k, r) ==
    /\ <<k, rel[k][r]>> \in {<<"reapR", "finish">>, <<"orphan", "giveup">>}
    /\ SetFailed(r)
    /\ RelGoto(k, r, "idle")
    /\ UNCHANGED <<nodeVars, cloudVars, prov, tail, requestVars, pollVars, crashes>>

OrphanRequeue(r) ==
    /\ rel["orphan"][r] = "finish"
    /\ RequeueForRetry(r)
    /\ RelGoto("orphan", r, IF BudgetSpent(r) THEN "giveup" ELSE "idle")
    /\ UNCHANGED <<nodeVars, cloudVars, prov, tail, requestVars, pollVars, crashes>>

Release(r) ==
    \/ \E k \in Origins : RelDestroy(k, r)
    \/ \E k \in Origins : RelForget(k, r)
    \/ \E k \in Origins : RelDown(k, r)
    \/ \E k \in Origins : RelMarkFailed(k, r)
    \/ OrphanRequeue(r)

-----------------------------------------------------------------------------
(***************************************************************************)
(* handle_queued_run.                                                      *)
(***************************************************************************)

ProvGoto(r, step) ==
    /\ prov' = [prov EXCEPT ![r] = step]
    /\ UNCHANGED <<tail, requestVars, rel, tries>>

ProvNode(r) ==
    /\ prov[r] = "node"
    /\ CreateProvisioning(r)
    /\ ProvGoto(r, "stage")
    /\ UNCHANGED <<runVars, cloudVars, pollVars, crashes>>

ProvStage(r) ==
    /\ prov[r] = "stage"
    /\ StageWorkspace(r)
    /\ ProvGoto(r, "apply")
    /\ UNCHANGED <<runVars, nodeVars, pollVars, crashes>>

\* VM names a request in flight still stands for.
Answering(r) == {v \in Vms : handler[r][v] # "idle"}

\* OutOfStockError, ScalewayQuotaError, ServerStartError: nothing was created,
\* or a server that is not running.
ApplyLacksCapacity(r) ==
    ~Up(r) /\ (UNCHANGED cloudVars \/ CreateStopped(r, Answering(r)))

\* Any other error of init or apply: nothing, or part of the VM, or all of it
\* was created and recorded before the command failed.
ApplyErrs(r) ==
    UNCHANGED cloudVars \/ CreateStopped(r, Answering(r)) \/ Start(r, Answering(r))

\* A terraform command may also hang: this action is given no fairness.
ProvApply(r) ==
    /\ prov[r] = "apply"
    /\ \/ Start(r, Answering(r)) /\ ProvGoto(r, "output")
       \/ ApplyLacksCapacity(r) /\ ProvGoto(r, "sdestroy")
       \/ ApplyErrs(r) /\ ProvGoto(r, "down")
    /\ UNCHANGED <<runVars, nodeVars, pollVars, crashes>>

ProvOutput(r) ==
    /\ prov[r] = "output"
    /\ \/ OutputReadable(r) /\ ProvGoto(r, "busy")
       \/ ProvGoto(r, "down")
    /\ UNCHANGED <<runVars, nodeVars, cloudVars, pollVars, crashes>>

\* An exception here reaches handle_queued_run, whose handler calls _fail.
ProvBusy(r) ==
    /\ prov[r] = "busy"
    /\ \/ SetBusy(r) /\ ProvGoto(r, "running")
       \/ Ambiguous(r) /\ ProvGoto(r, "down") /\ UNCHANGED nodeVars
    /\ UNCHANGED <<runVars, cloudVars, pollVars, crashes>>

ProvRunning(r) ==
    /\ prov[r] = "running"
    /\ SetRunning(r)
    /\ ProvGoto(r, "idle")
    /\ UNCHANGED <<nodeVars, cloudVars, pollVars, crashes>>

\* _safe_destroy: errors are swallowed.
ProvSafeDestroy(r) ==
    /\ prov[r] = "sdestroy"
    /\ \/ DestroyTracked(r) /\ ProvGoto(r, "sforget")
       \/ ProvGoto(r, "requeue") /\ UNCHANGED cloudVars
    /\ UNCHANGED <<runVars, nodeVars, pollVars, crashes>>

ProvSafeForget(r) ==
    /\ prov[r] = "sforget"
    /\ \E gone \in BOOLEAN : ForgetState(r, gone)
    /\ ProvGoto(r, "requeue")
    /\ UNCHANGED <<runVars, nodeVars, pollVars, crashes>>

\* Requeued, the run may be claimed again before this task's set_down_by_run.
ProvRequeue(r) ==
    /\ prov[r] = "requeue"
    /\ RequeueForRetry(r)
    /\ prov' = [prov EXCEPT ![r] = IF BudgetSpent(r) THEN "down" ELSE "idle"]
    /\ tail' = [tail EXCEPT ![r] = IF BudgetSpent(r) THEN @ ELSE @ + 1]
    /\ UNCHANGED <<nodeVars, cloudVars, requestVars, rel, tries, pollVars, crashes>>

\* When set_down_by_run raises, so does the one in the last-resort guard:
\* the task ends without marking the run.
TailDown(r) ==
    /\ tail[r] > 0
    /\ \/ SetDownByRun(r)
       \/ Ambiguous(r) /\ UNCHANGED nodeVars
    /\ tail' = [tail EXCEPT ![r] = @ - 1]
    /\ UNCHANGED <<runVars, cloudVars, prov, requestVars, rel, tries, pollVars, crashes>>

ProvDown(r) ==
    /\ prov[r] = "down"
    /\ \/ SetDownByRun(r) /\ ProvGoto(r, "fail")
       \/ Ambiguous(r) /\ ProvGoto(r, "idle") /\ UNCHANGED nodeVars
    /\ UNCHANGED <<runVars, cloudVars, pollVars, crashes>>

ProvFail(r) ==
    /\ prov[r] = "fail"
    /\ SetFailed(r)
    /\ ProvGoto(r, "idle")
    /\ UNCHANGED <<nodeVars, cloudVars, pollVars, crashes>>

Provision(r) ==
    \/ ProvNode(r) \/ ProvStage(r) \/ ProvApply(r) \/ ProvOutput(r)
    \/ ProvBusy(r) \/ ProvRunning(r)
    \/ ProvSafeDestroy(r) \/ ProvSafeForget(r) \/ ProvRequeue(r) \/ TailDown(r)
    \/ ProvDown(r) \/ ProvFail(r)

-----------------------------------------------------------------------------
(***************************************************************************)
(* Requests: POST /runs, and what the runner on a VM posts about its run.  *)
(***************************************************************************)

Submit(r) ==
    /\ CreateRun(r)
    /\ UNCHANGED <<nodeVars, cloudVars, taskVars, pollVars, crashes>>

\* Mutants: a guard too wide, a guard left out.
BugCanComplete(s) == s \in {"running", "provisioning"}
BugCanFail(s) == s # "none"

\* The statuses RunService.complete and RunService.fail go on with.
CanComplete(s) == s = "running"
CanFail(s) == s \in {"running", "provisioning"}

\* A refusal is a 409, which sends the runner into its ERR trap.
PostComplete(r, v) ==
    /\ runner[r][v] = "work" /\ handler[r][v] = "idle"
    /\ IF CanComplete(status[r])
         THEN /\ handler' = [handler EXCEPT ![r][v] = "upload"]
              /\ runner' = [runner EXCEPT ![r][v] = "sent"]
         ELSE /\ runner' = [runner EXCEPT ![r][v] = "trap"]
              /\ UNCHANGED handler
    /\ UNCHANGED <<workspace, tracked, stray>>
    /\ UNCHANGED <<runVars, nodeVars, prov, tail, failing, rel, tries, pollVars, crashes>>

\* The runner's own report, then the one of its systemd unit.  They need not wait
\* for an answer: a runner that is killed, or loses its connection, leaves the
\* request it has sent to the orchestrator.
PostFail(r, v) ==
    /\ runner[r][v] \in {"work", "sent", "trap", "exit"}
    /\ failing' = [failing EXCEPT ![r] = IF CanFail(status[r]) THEN @ + 1 ELSE @]
    /\ runner' = [runner EXCEPT ![r][v] = IF @ = "exit" THEN "off" ELSE "exit"]
    /\ UNCHANGED <<workspace, tracked, stray>>
    /\ UNCHANGED <<runVars, nodeVars, prov, tail, handler, rel, tries, pollVars, crashes>>

\* The request ends; the answer reaches the runner if it still waits for it.
Respond(r, v, next) ==
    /\ handler' = [handler EXCEPT ![r][v] = "idle"]
    /\ runner' = [runner EXCEPT ![r][v] = IF @ = "sent" THEN next ELSE @]
    /\ UNCHANGED <<workspace, tracked, stray>>

\* The upload or the aggregation may raise: a 500, nothing committed.
CompleteUpload(r, v) ==
    /\ handler[r][v] = "upload"
    /\ \/ handler' = [handler EXCEPT ![r][v] = "commit"] /\ UNCHANGED cloudVars
       \/ Respond(r, v, "trap")
    /\ UNCHANGED <<runVars, nodeVars, prov, tail, failing, rel, tries, pollVars, crashes>>

CompleteCommit(r, v) ==
    /\ handler[r][v] = "commit"
    /\ \/ /\ CompleteRun(r)
          /\ handler' = [handler EXCEPT ![r][v] = "publish"]
          /\ UNCHANGED cloudVars
       \/ resultRow[r] /\ Respond(r, v, "trap") /\ UNCHANGED runVars
    /\ UNCHANGED <<nodeVars, prov, tail, failing, rel, tries, pollVars, crashes>>

\* upload_meta and update_leaderboard_for.  The background release_node runs
\* only after a response that succeeded.
CompletePublish(r, v) ==
    /\ handler[r][v] = "publish"
    /\ \/ Respond(r, v, "off") /\ StartRelease("complete", {r})
       \/ Respond(r, v, "trap") /\ UNCHANGED rel
    /\ UNCHANGED <<runVars, nodeVars, prov, tail, failing, tries, pollVars, crashes>>

\* fail_run does not look at the status RunService.fail read.
FailCommit(r) ==
    /\ failing[r] > 0
    /\ SetFailed(r)
    /\ failing' = [failing EXCEPT ![r] = @ - 1]
    /\ StartRelease("fail", {r})
    /\ UNCHANGED <<nodeVars, cloudVars, prov, tail, handler, tries, pollVars, crashes>>

Requests(r) ==
    \/ Submit(r)
    \/ \E v \in Vms : PostComplete(r, v) \/ PostFail(r, v)
    \/ \E v \in Vms : CompleteUpload(r, v) \/ CompleteCommit(r, v) \/ CompletePublish(r, v)
    \/ FailCommit(r)

-----------------------------------------------------------------------------
(***************************************************************************)
(* polling_loop: two recoveries at startup, then poll_once for ever.       *)
(***************************************************************************)

RecoverLeaked ==
    /\ poller = "leaked"
    /\ StartRelease("leaked", Leaked({r \in Runs : status[r] \in Terminal}))
    /\ poller' = "orphans"
    /\ UNCHANGED <<runVars, nodeVars, cloudVars, prov, tail, requestVars, tries,
                   live, todo, crashes>>

RecoverOrphans ==
    /\ poller = "orphans"
    /\ StartRelease("orphan", InProvisioning)
    /\ poller' = "count"
    /\ UNCHANGED <<runVars, nodeVars, cloudVars, prov, tail, requestVars, tries,
                   live, todo, crashes>>

PollCount ==
    /\ poller = "count"
    /\ live' = [g \in GpuTypes |-> LiveCount(g)]
    /\ todo' = GpuTypes
    /\ poller' = "claim"
    /\ UNCHANGED <<runVars, nodeVars, cloudVars, taskVars, crashes>>

\* Mutant: the runs that are live are not subtracted from the quota.
BugClaimSets(g) ==
    LET queued == QueuedOf(g)
    IN  {S \in SUBSET queued :
            Cardinality(S) = IF Cardinality(queued) < Quota[g]
                             THEN Cardinality(queued) ELSE Quota[g]}

\* claim_queued(limit=free) takes as many as there are, up to the limit; a
\* limit of zero or less takes none.
ClaimSets(g) ==
    LET free == Quota[g] - live[g]
        queued == QueuedOf(g)
    IN  {S \in SUBSET queued :
            \/ free <= 0 /\ S = {}
            \/ free > 0 /\ Cardinality(S) =
                 IF Cardinality(queued) < free THEN Cardinality(queued) ELSE free}

PollClaim(g) ==
    /\ poller = "claim" /\ g \in todo
    /\ \E S \in ClaimSets(g) :
         /\ ClaimQueued(S)
         /\ prov' = [r \in Runs |-> IF r \in S THEN "node" ELSE prov[r]]
    /\ todo' = todo \ {g}
    /\ live' = [live EXCEPT ![g] = 0]
    /\ poller' = IF todo = {g} THEN "reapP" ELSE "claim"
    /\ UNCHANGED <<nodeVars, cloudVars, tail, requestVars, rel, tries, crashes>>

ReapProvisioning ==
    /\ poller = "reapP"
    /\ ClaimTimedOut("provisioning")
    /\ StartRelease("reapP", TimedOut("provisioning"))
    /\ poller' = "reapR"
    /\ UNCHANGED <<nodeVars, cloudVars, prov, tail, requestVars, tries, live, todo, crashes>>

ReapRunning ==
    /\ poller = "reapR"
    /\ ClaimTimedOut("running")
    /\ StartRelease("reapR", TimedOut("running"))
    /\ poller' = "count"
    /\ UNCHANGED <<nodeVars, cloudVars, prov, tail, requestVars, tries, live, todo, crashes>>

Poll ==
    \/ RecoverLeaked \/ RecoverOrphans
    \/ PollCount \/ (\E g \in GpuTypes : PollClaim(g))
    \/ ReapProvisioning \/ ReapRunning

-----------------------------------------------------------------------------
(***************************************************************************)
(* The passage of time, and crashes.                                       *)
(***************************************************************************)

Timeout(r) ==
    /\ Expire(r)
    /\ UNCHANGED <<nodeVars, cloudVars, taskVars, pollVars, crashes>>

\* What the applies at work had created and not recorded when they were killed.
Unrecorded == {made \in [Runs -> {{}} \union {{v} : v \in Vms}] :
                 \A r \in Runs : made[r] # {} =>
                     /\ prov[r] = "apply" /\ tracked[r] = {}
                     /\ made[r] \intersect (stray[r] \union Answering(r)) = {}}

\* The process dies and is started again, in the same container (kept) or in a
\* new one.  Tables, bucket and VMs stay.
Crash(kept) ==
    /\ crashes < MaxCrashes
    /\ crashes' = crashes + 1
    /\ \E made \in Unrecorded : CloudAfterCrash(made, kept)
    /\ prov' = NoTask
    /\ tail' = None
    /\ handler' = NoRequest /\ failing' = None
    /\ rel' = NoRelease
    /\ tries' = NoTries
    /\ poller' = "leaked"
    /\ live' = NoLive
    /\ todo' = {}
    /\ UNCHANGED <<runVars, nodeVars>>

Next ==
    \/ \E r \in Runs : Requests(r) \/ Provision(r) \/ Release(r) \/ Timeout(r)
    \/ Poll
    \/ \E kept \in BOOLEAN : Crash(kept)

Spec == Init /\ [][Next]_vars

\* What makes each submitted run end: the loop keeps ticking and deadlines
\* pass.  No fairness for terraform, for the tasks or for the runners: all of
\* them may hang.
FairSpec == Spec /\ WF_vars(Poll) /\ \A r \in Runs : WF_vars(Timeout(r))

-----------------------------------------------------------------------------
(***************************************************************************)
(* Safety.                                                                 *)
(***************************************************************************)

Booting == poller \in {"leaked", "orphans"}

\* A task that may still start or requeue the run on its own.
Provisioner(r) == prov[r] # "idle"
Recovery(r) == rel["orphan"][r] # "idle"

\* Nobody works on two provisionings of one run: the claim, the requeue and
\* the recovery of orphans hand the run over, through its status column only.
OneProvisioner ==
    \A r \in Runs :
        /\ ~(Provisioner(r) /\ Recovery(r))
        /\ status[r] \in {"none", "queued", "running", "done"} =>
             ~Provisioner(r) /\ ~Recovery(r)
        /\ Booting => ~Provisioner(r) /\ ~Recovery(r)

\* A run whose results were committed is over for good, whatever watchdog,
\* recovery, retry or late provisioning task is still at work on it.
ResultIsFinal ==
    \A r \in Runs : resultRow[r] => status[r] \in Terminal /\ ~Provisioner(r)

\* A done run has its result row; and complete_run meets a row already there
\* (results.run_id is UNIQUE: the whole transaction rolls back) only when a VM
\* that no state object records has reported too.
ResultOnce ==
    \A r \in Runs :
        /\ status[r] = "done" => resultRow[r]
        /\ resultRow[r] /\ (\E v \in Vms : handler[r][v] \in {"upload", "commit"})
             => stray[r] # {}

\* A done run stays done, but for two late writers that do not look at it: the
\* running watchdog, which marks its run a second time after the release, and a
\* /fail that was accepted before the run was done (of the unit of a runner that
\* was killed while its /complete was at work, say).  No other task ends it a
\* second time or brings it back, and no /fail is accepted once it is done.
DoneStays ==
    [][\A r \in Runs : status[r] = "done" =>
          /\ failing'[r] <= failing[r]
          /\ \/ status'[r] = "done"
             \/ rel["reapR"][r] = "finish" /\ rel'["reapR"][r] = "idle"
             \/ failing'[r] < failing[r]]_vars

\* Attempts counted by the provisioning task and by the recovery after
\* crashes share one budget: a queued run always has some of it left.
RetryBudget == \A r \in Runs : status[r] = "queued" => attempts[r] < MaxAttempts

NeverEnded(g) ==
    {r \in Runs : GpuOf[r] = g /\ status[r] \in Live /\ ~endedAt[r]}

\* The capacity gate of poll_once, its count taken before the claims: the
\* runs that never ended since they were created stay within the quota.
\* (Runs a late task brought back are beyond the gate's reach: their row has
\* ended_at set.)
QuotaKept == \A g \in GpuTypes : Cardinality(NeverEnded(g)) <= Quota[g]

\* No release started for an earlier life of a run takes the VM from under it
\* while it runs, unless the run had already been ended once.
RunningHasVm ==
    \A r \in Runs : status[r] = "running" /\ ~endedAt[r] => Up(r)

\* Without a crash a run never gets a second node row.
TwoRowsNeedCrash == \A r \in Runs : Ambiguous(r) => crashes > 0

\* A run in provisioning is somebody's work, or the two node rows of an
\* earlier crash have stopped the task that worked on it.
ProvisioningIsOwned ==
    \A r \in Runs :
        status[r] = "provisioning" /\ ~Booting =>
            Provisioner(r) \/ Recovery(r) \/ Ambiguous(r)

-----------------------------------------------------------------------------
(***************************************************************************)
(* Liveness, and the life of a run as its client sees it.                  *)
(***************************************************************************)

\* The watchdogs end every submitted run, even when terraform, the VM and
\* every task of the run hang and late tasks bring the run back.
EveryRunEnds == \A r \in Runs : <>[](status[r] \in Terminal \union {"none"})

Phase(s) == CASE s = "none"            -> "absent"
              [] s = "queued"          -> "waiting"
              [] s \in Live            -> "active"
              [] s \in Terminal        -> "over"

Lifecycle == INSTANCE RunLifecycle WITH
                phase <- [r \in Runs |-> Phase(status[r])],
                spent <- attempts,
                result <- resultRow

\* Every step of the orchestrator, its crashes included, is a step of
\* RunLifecycle or leaves what its client sees unchanged.
ImplementsLifecycle == Lifecycle!Spec

Fleet == INSTANCE GpuFleet WITH
            phase <- [r \in Runs |-> Phase(status[r])],
            spent <- attempts,
            result <- resultRow,
            ended <- {r \in Runs : endedAt[r]},
            applying <- {r \in Runs : prov[r] = "apply"},
            destroying <- {r \in Runs : \/ prov[r] = "sforget"
                                        \/ \E k \in Origins : rel[k][r] = "forget"},
            tracked <- {r \in Runs : tracked[r] # {}},
            stray <- {r \in Runs : stray[r] # {}}

\* What CI may rely on: a VM loses its record in two ways only, a crash inside
\* its apply and an apply that ends inside a destroy of the same run; and a run
\* under `terraform apply` is neither queued again nor completed.
ImplementsFleet == Fleet!FleetSpec

-----------------------------------------------------------------------------
(***************************************************************************)
(* What comments of the code say, and the code does not keep.              *)
(***************************************************************************)

\* config.py, gpu_quota: the loop "never asks Scaleway for capacity we can't
\* have": an apply at work, the VMs of other runs of its type counted, stays
\* within the quota.
NeverAsksBeyondQuota ==
    \A g \in GpuTypes :
        (\E r \in Runs : GpuOf[r] = g /\ prov[r] = "apply") =>
            Cardinality({r \in Runs : /\ GpuOf[r] = g
                                      /\ VmsOf(r) # {} \/ prov[r] = "apply"}) <= Quota[g]

\* terraform.py, state bucket: "the state survives the orchestrator VM that
\* created it, so a leftover GPU VM can always be destroyed".
LeftoverHasState == \A r \in Runs : stray[r] = {}
=============================================================================
