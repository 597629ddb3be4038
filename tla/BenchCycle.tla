------------------------------ MODULE BenchCycle ------------------------------
(***************************************************************************)
(* The CI workflows around the orchestrator: bench.yml provisions its VM,  *)
(* submits, waits, tears the VM down and reaps the GPU VMs the bucket      *)
(* still records; bench-cleanup.yml follows a cancelled cycle.  Nothing    *)
(* keeps two cycles apart: they share a bucket and the terraform state of  *)
(* orchestrator-vm, which has no lock.  A terraform command reads that     *)
(* state, works, and writes its own copy back: the last one to write wins. *)
(* Of the orchestrator this module takes what GpuFleet promises (and       *)
(* Orchestrator is checked to implement).                                  *)
(***************************************************************************)
EXTENDS Naturals, RunIds

CONSTANTS
    Cycles,       \* runs of the bench workflow
    CycleOf,      \* the cycle whose models.yaml entry a run is for
    NoCycle,      \* no orchestrator has been deployed yet
    MaxAttempts,  \* settings.provision_max_attempts
    MaxFaults     \* bound on errors of S3, Scaleway and the database, crashes and
                  \* applies cut off after they have created a VM

ASSUME CycleOfAssumption == CycleOf \in [Runs -> Cycles]
ASSUME NoCycleAssumption == NoCycle \notin Cycles
ASSUME CycleBoundsAssumption == MaxFaults \in Nat /\ MaxAttempts \in Nat \ {0}

VARIABLES
    phase, spent, result,                           \* RunLifecycle
    ended, applying, destroying, tracked, stray,    \* GpuFleet
    servers,   \* orchestrator VMs: each goes by the cycle that created it
    recorded,  \* the one that the terraform state names
    copy,      \* the one that the state read by a cycle's command at work names
    host,      \* the one whose address a cycle was given
    loop,      \* the process on each: polling_loop is booting, polling or dead
    key,       \* the cycle whose API key it was deployed with
    at,        \* the step each cycle is at
    posted,    \* what became of its POST /bench
    verdict,   \* the outcome of its jobs
    keys,      \* state objects its reaper has still to look at
    reaped,    \* the one it has destroyed and is about to remove, as a set
    broken,    \* a teardown or cleanup step failed since the VM last went
    overlapped,\* two terraform commands were at work on the state at a time
    cutOff,    \* an apply ended after it created a VM and before it wrote the state
    revived,   \* runs that were given up and came back
    faults     \* faults so far

Fleet == INSTANCE GpuFleet

runVars == <<phase, spent, result, ended>>
fleetVars == <<applying, destroying, tracked, stray>>
stateVars == <<recorded, copy, host>>
serverVars == <<servers, loop, key>>
jobVars == <<at, posted, verdict, keys, reaped>>
historyVars == <<broken, overlapped, cutOff, revived>>
vars == <<runVars, fleetVars, stateVars, serverVars, jobVars, historyVars, faults>>

Steps == {"idle", "preflight", "apply", "applying", "address", "deploy", "health", "submit",
          "wait", "verdict", "destroy", "destroying", "list", "reap", "remove", "cleanup",
          "done"}

\* "red" stands as well for the success of jobs that took an unanswered call for
\* a good one: what is said of a green cycle is not said of either.
Outcomes == {"green", "red", "cancelled"}

\* Every variable has its type; a process needs its VM.
TypeOK ==
    /\ phase \in [Runs -> {"absent", "waiting", "active", "over"}]
    /\ spent \in [Runs -> Nat] /\ result \in [Runs -> BOOLEAN] /\ ended \subseteq Runs
    /\ applying \subseteq Runs /\ destroying \subseteq Runs
    /\ tracked \subseteq Runs /\ stray \subseteq Runs
    /\ recorded \in Cycles \union {NoCycle}
    /\ copy \in [Cycles -> Cycles \union {NoCycle}]
    /\ host \in [Cycles -> Cycles \union {NoCycle}]
    /\ servers \subseteq Cycles
    /\ loop \in [Cycles -> {"off", "boot", "polling", "dead"}]
    /\ \A v \in Cycles : loop[v] # "off" => v \in servers
    /\ key \in [Cycles -> Cycles \union {NoCycle}]
    /\ at \in [Cycles -> Steps]
    /\ posted \in [Cycles -> {"no", "ok", "masked"}]
    /\ verdict \in [Cycles -> Outcomes \union {"none"}]
    /\ keys \in [Cycles -> SUBSET Runs] /\ reaped \in [Cycles -> SUBSET Runs]
    /\ broken \in BOOLEAN /\ overlapped \in BOOLEAN /\ cutOff \in BOOLEAN
    /\ revived \subseteq Runs
    /\ faults \in 0 .. MaxFaults

Init ==
    /\ Fleet!FleetInit
    /\ recorded = NoCycle
    /\ copy = [c \in Cycles |-> NoCycle] /\ host = [c \in Cycles |-> NoCycle]
    /\ servers = {}
    /\ loop = [v \in Cycles |-> "off"] /\ key = [v \in Cycles |-> NoCycle]
    /\ at = [c \in Cycles |-> "idle"]
    /\ posted = [c \in Cycles |-> "no"]
    /\ verdict = [c \in Cycles |-> "none"]
    /\ keys = [c \in Cycles |-> {}] /\ reaped = [c \in Cycles |-> {}]
    /\ broken = FALSE /\ overlapped = FALSE /\ cutOff = FALSE /\ revived = {}
    /\ faults = 0

Fault == faults < MaxFaults /\ faults' = faults + 1

-----------------------------------------------------------------------------
\* An orchestrator VM, its database and its process.

\* The VM a run's row is in the database of.
Home(r) == host[CycleOf[r]]

\* The row went with its database.
Lost(r) == Home(r) \notin servers

Rows(v) == {r \in Runs : phase[r] # "absent" /\ Home(r) = v /\ v \in servers}

\* Mutant: ACTIVE_RUN_STATUSES without queued.
BugActive(v) == {r \in Rows(v) : phase[r] = "active"}

\* bench_status: queued, provisioning and running.
Active(v) == {r \in Rows(v) : phase[r] \in {"waiting", "active"}}

\* Mutant: the runs that got no VM are left out.
BugFailed(v) == {r \in Rows(v) : phase[r] = "over" /\ ~result[r] /\ spent[r] = 0}

\* Rows in failed for sure; a done run may be marked failed as well.
Failed(v) == {r \in Rows(v) : phase[r] = "over" /\ ~result[r]}

\* The process behind the address a cycle has.
ProcessUp(v) == v \in servers /\ loop[v] # "off"

\* The processes on the servers of V end, and every terraform child with them.
ProcessesEnd(V) ==
    \E S \in SUBSET applying : Fleet!Die({r \in Runs : Home(r) \in V}, S)

\* Mutant: a record of the process is left.
BugChangeServers(gone, new) ==
    /\ servers' = (servers \ gone) \union new
    /\ ProcessesEnd(gone)
    /\ UNCHANGED <<loop, key>>

\* VMs go, each with its database and its process; others are new.
ChangeServers(gone, new) ==
    /\ servers' = (servers \ gone) \union new
    /\ loop' = [v \in Cycles |-> IF v \in gone THEN "off" ELSE loop[v]]
    /\ key' = [v \in Cycles |-> IF v \in gone THEN NoCycle ELSE key[v]]
    /\ ProcessesEnd(gone)

ProcessRestarts(v) ==
    /\ loop' = [loop EXCEPT ![v] = "boot"]
    /\ ProcessesEnd({v})
    /\ UNCHANGED servers

-----------------------------------------------------------------------------
(***************************************************************************)
(* bench.yml, up to its verdict.                                           *)
(***************************************************************************)

UnderWay(c) == at[c] \notin {"idle", "done"}

Goto(c, step) == at' = [at EXCEPT ![c] = step]

\* Mutant: the GPU VMs are reaped while the orchestrator still works.
BugFollowedBy(step) ==
    CASE step = "bench" -> "list" [] step = "list" -> "reap" [] step = "reap" -> "destroy"
      [] step = "destroy" -> "end"

\* The teardown job comes after the bench job in any case, and its steps in
\* this order.
FollowedBy(step) ==
    CASE step = "bench" -> "destroy" [] step = "destroy" -> "list" [] step = "list" -> "reap"
      [] step = "reap" -> "end"

\* The conclusion `cancelled` triggers bench-cleanup.yml.
GotoAfter(c, step, outcome) ==
    Goto(c, IF FollowedBy(step) # "end" THEN FollowedBy(step)
            ELSE IF outcome = "cancelled" THEN "cleanup" ELSE "done")

\* A job ends with this outcome: on to the teardown.
Conclude(c, outcome) ==
    /\ verdict' = [verdict EXCEPT ![c] = outcome]
    /\ posted' = [posted EXCEPT ![c] = "no"]
    /\ GotoAfter(c, "bench", outcome)
    /\ UNCHANGED <<keys, reaped>>

StepDone(c, step) ==
    /\ Goto(c, step)
    /\ UNCHANGED <<posted, verdict, keys, reaped>>

\* A push to models.yaml, or by hand.
Start(c) ==
    /\ at[c] = "idle"
    /\ StepDone(c, "preflight")
    /\ UNCHANGED <<runVars, fleetVars, stateVars, serverVars, historyVars, faults>>

\* Nothing pending, or an error before provision: no VM, and no teardown.
Preflight(c) ==
    /\ at[c] = "preflight"
    /\ \/ StepDone(c, "apply")
       \/ \E outcome \in {"green", "red", "cancelled"} :
            /\ verdict' = [verdict EXCEPT ![c] = outcome]
            /\ Goto(c, IF outcome = "cancelled" THEN "cleanup" ELSE "done")
            /\ UNCHANGED <<posted, keys, reaped>>
    /\ UNCHANGED <<runVars, fleetVars, stateVars, serverVars, historyVars, faults>>

\* A terraform command begins: its copy of the state, refreshed, names no VM
\* that is gone.  Nothing looks whether another command is at work.
ReadState(c, step) ==
    /\ copy' = [copy EXCEPT ![c] = IF recorded \in servers THEN recorded ELSE NoCycle]
    /\ overlapped' = (overlapped \/ \E d \in Cycles : at[d] \in {"applying", "destroying"})
    /\ Goto(c, step)
    /\ UNCHANGED <<recorded, host, posted, verdict, keys, reaped>>

DropCopy(c) == copy' = [copy EXCEPT ![c] = NoCycle] /\ UNCHANGED host

\* The server that the copy names, as a set.
Named(c) == {copy[c]} \ {NoCycle}

\* terraform init, and the plan of the apply.
TerraformApply(c) ==
    /\ at[c] = "apply"
    /\ \/ ReadState(c, "applying")
       \/ Conclude(c, "red") /\ UNCHANGED <<stateVars, overlapped>>
    /\ UNCHANGED <<runVars, fleetVars, serverVars, broken, cutOff, revived, faults>>

\* A VM that the copy names is kept, with its database; a state without a change
\* is not written back.
KeepsServer(c) ==
    /\ copy[c] # NoCycle
    /\ recorded' \in {recorded, copy[c]}
    /\ UNCHANGED <<fleetVars, serverVars>>

\* A VM is created, in place of one that the new commit's main.tf replaces.
CreatesServer(c) ==
    /\ ChangeServers(Named(c), {c})
    /\ recorded' = c

\* An error, or the signal of a cancelled job, at any point of this.
StopsMidway(c) ==
    /\ \/ \E gone \in {{}, Named(c)} : ChangeServers(gone, {}) /\ UNCHANGED <<cutOff, faults>>
       \/ ChangeServers(Named(c), {c}) /\ cutOff' = TRUE /\ Fault
    /\ UNCHANGED recorded

TerraformApplied(c) ==
    /\ at[c] = "applying"
    /\ \/ /\ KeepsServer(c) \/ CreatesServer(c)
          /\ StepDone(c, "address") /\ UNCHANGED <<cutOff, faults>>
       \/ StopsMidway(c) /\ \E outcome \in {"red", "cancelled"} : Conclude(c, outcome)
    /\ DropCopy(c)
    /\ UNCHANGED <<runVars, broken, overlapped, revived>>

\* terraform output: of the state as it is by now.
GetVmIp(c) ==
    /\ at[c] = "address"
    /\ \/ /\ recorded # NoCycle
          /\ host' = [host EXCEPT ![c] = recorded]
          /\ StepDone(c, "deploy")
       \/ Conclude(c, "red") /\ UNCHANGED host
    /\ UNCHANGED <<runVars, fleetVars, recorded, copy, serverVars, historyVars, faults>>

\* .env has a key of this cycle: compose recreates the container.
StartStack(c) ==
    /\ at[c] = "deploy"
    /\ \/ /\ host[c] \in servers
          /\ ProcessRestarts(host[c]) /\ key' = [key EXCEPT ![host[c]] = c]
          /\ StepDone(c, "health")
       \/ Conclude(c, "red") /\ UNCHANGED <<fleetVars, serverVars>>
    /\ UNCHANGED <<runVars, stateVars, historyVars, faults>>

\* GET /health says ok whatever has become of polling_loop.
WaitForHealth(c) ==
    /\ at[c] = "health"
    /\ \/ ProcessUp(host[c]) /\ StepDone(c, "submit")
       \/ Conclude(c, "red")
    /\ UNCHANGED <<runVars, fleetVars, stateVars, serverVars, historyVars, faults>>

Pending(c) == {r \in Runs : CycleOf[r] = c /\ phase[r] = "absent"}

\* submit skips an entry that has become active, or has its meta, meanwhile:
\* the work of somebody else's run.
SubmitCreates(c, S) ==
    /\ S \subseteq Pending(c)
    /\ Pending(c) # S => \E r \in Runs : CycleOf[r] # c /\ phase[r] # "absent"

\* POST /bench.  `curl | tee` hides its failure: a wrong key, no answer, or an
\* error after some of the entries.
SubmitRuns(c) ==
    /\ at[c] = "submit"
    /\ \E S \in SUBSET Pending(c), answer \in {"ok", "masked"} :
         /\ answer = "ok" => SubmitCreates(c, S)
         /\ answer = "ok" \/ S # {} => ProcessUp(host[c]) /\ key[host[c]] = c
         /\ phase' = [r \in Runs |-> IF r \in S THEN "waiting" ELSE phase[r]]
         /\ posted' = [posted EXCEPT ![c] = answer]
    /\ Goto(c, "wait")
    /\ UNCHANGED <<verdict, keys, reaped>>
    /\ UNCHANGED <<spent, result, ended, fleetVars, stateVars, serverVars, historyVars, faults>>

\* Any other answer than 0, or none, and the loop goes on.
WaitForRuns(c) ==
    /\ at[c] = "wait"
    /\ ProcessUp(host[c]) /\ Active(host[c]) = {}
    /\ StepDone(c, "verdict")
    /\ UNCHANGED <<runVars, fleetVars, stateVars, serverVars, historyVars, faults>>

\* timeout-minutes.  GitHub's word for it is not the workflow's business.
Timeout(c) ==
    /\ at[c] = "wait"
    /\ \E outcome \in {"red", "cancelled"} : Conclude(c, outcome)
    /\ UNCHANGED <<runVars, fleetVars, stateVars, serverVars, historyVars, faults>>

\* No answer counts as no failed run; an answer may count a done run as failed.
Verdict(c) ==
    /\ at[c] = "verdict"
    /\ \/ /\ ProcessUp(host[c]) /\ Failed(host[c]) = {}
          /\ Conclude(c, IF posted[c] = "ok" THEN "green" ELSE "red")
       \/ Conclude(c, "red")
    /\ UNCHANGED <<runVars, fleetVars, stateVars, serverVars, historyVars, faults>>

Cancel(c) ==
    /\ at[c] \in {"apply", "address", "deploy", "health", "submit", "wait", "verdict"}
    /\ Conclude(c, "cancelled")
    /\ UNCHANGED <<runVars, fleetVars, stateVars, serverVars, historyVars, faults>>

Bench(c) ==
    \/ Start(c) \/ Preflight(c) \/ TerraformApply(c) \/ TerraformApplied(c) \/ GetVmIp(c)
    \/ StartStack(c) \/ WaitForHealth(c)
    \/ SubmitRuns(c) \/ WaitForRuns(c) \/ Timeout(c) \/ Verdict(c) \/ Cancel(c)

-----------------------------------------------------------------------------
(***************************************************************************)
(* bench.yml, teardown, and bench-cleanup.yml.                             *)
(***************************************************************************)

BreakStep ==
    /\ Fault
    /\ broken' = TRUE

\* terraform init, and the plan of the destroy; the reaper runs even if they
\* fail (`if: always()`).
TearDown(c) ==
    /\ at[c] = "destroy"
    /\ \/ ReadState(c, "destroying") /\ UNCHANGED <<broken, faults>>
       \/ /\ GotoAfter(c, "destroy", verdict[c]) /\ BreakStep
          /\ UNCHANGED <<stateVars, overlapped, posted, verdict, keys, reaped>>
    /\ UNCHANGED <<runVars, fleetVars, serverVars, cutOff, revived>>

\* What the copy names is destroyed, and the copy without it written back; where
\* there is nothing to destroy there is nothing to write.  A success makes up for
\* an earlier failure, unless there may be VMs that the copy does not name.
TornDown(c) ==
    /\ at[c] = "destroying"
    /\ GotoAfter(c, "destroy", verdict[c])
    /\ \/ /\ ChangeServers(Named(c), {})
          /\ recorded' = IF copy[c] = NoCycle THEN recorded ELSE NoCycle
          /\ broken' = (broken /\ overlapped) /\ UNCHANGED faults
       \/ /\ BreakStep
          /\ \/ UNCHANGED <<recorded, fleetVars, serverVars>>
             \/ ChangeServers(Named(c), {}) /\ recorded' \in {recorded, NoCycle}
    /\ DropCopy(c)
    /\ UNCHANGED <<posted, verdict, keys, reaped, runVars, overlapped, cutOff, revived>>

\* An error of the listing reads as an empty list (`|| true`).
ListStates(c) ==
    /\ at[c] = "list"
    /\ GotoAfter(c, "list", verdict[c])
    /\ \/ keys' = [keys EXCEPT ![c] = tracked] /\ UNCHANGED <<broken, faults>>
       \/ keys' = [keys EXCEPT ![c] = {}] /\ BreakStep
    /\ UNCHANGED <<posted, verdict, reaped>>
    /\ UNCHANGED <<runVars, fleetVars, stateVars, serverVars, overlapped, cutOff, revived>>

\* terraform init and destroy, for one object after the other.
ReapDestroy(c) ==
    /\ at[c] = "reap"
    /\ \E r \in keys[c] :
         /\ tracked' = tracked \ {r}
         /\ reaped' = [reaped EXCEPT ![c] = {r}]
         /\ keys' = [keys EXCEPT ![c] = @ \ {r}]
    /\ Goto(c, "remove")
    /\ UNCHANGED <<posted, verdict, applying, destroying, stray>>
    /\ UNCHANGED <<runVars, stateVars, serverVars, historyVars, faults>>

\* aws s3 rm: also of what an apply has recorded there since the destroy.
ReapRemove(c) ==
    /\ at[c] = "remove"
    /\ stray' = stray \union (reaped[c] \intersect tracked)
    /\ tracked' = tracked \ reaped[c]
    /\ reaped' = [reaped EXCEPT ![c] = {}]
    /\ Goto(c, "reap")
    /\ UNCHANGED <<posted, verdict, keys, applying, destroying>>
    /\ UNCHANGED <<runVars, stateVars, serverVars, historyVars, faults>>

\* Under `bash -e` the first error ends the loop, the other objects untouched.
ReapFails(c) ==
    /\ at[c] \in {"reap", "remove"} /\ (at[c] = "reap" => keys[c] # {})
    /\ BreakStep
    /\ GotoAfter(c, "reap", verdict[c])
    /\ keys' = [keys EXCEPT ![c] = {}] /\ reaped' = [reaped EXCEPT ![c] = {}]
    /\ UNCHANGED <<posted, verdict>>
    /\ UNCHANGED <<runVars, fleetVars, stateVars, serverVars, overlapped, cutOff, revived>>

ReapEnds(c) ==
    /\ at[c] = "reap" /\ keys[c] = {}
    /\ GotoAfter(c, "reap", verdict[c])
    /\ UNCHANGED <<posted, verdict, keys, reaped>>
    /\ UNCHANGED <<runVars, fleetVars, stateVars, serverVars, historyVars, faults>>

\* bench-cleanup.yml terminates every server whose name begins with llmgrill-:
\* the orchestrator's too, when it is in the same zone ...
CleanupServer(c) ==
    /\ at[c] = "cleanup"
    /\ \E v \in servers : ChangeServers({v}, {})
    /\ UNCHANGED <<jobVars, runVars, stateVars, historyVars, faults>>

\* The GPU VMs of S are left when the listing fails or a termination does.
CleanupLeaves(S) == S \subseteq tracked \union stray /\ S # {}

\* ... and the GPU VMs, recorded or not.
Cleanup(c) ==
    /\ at[c] = "cleanup"
    /\ \/ tracked' = {} /\ stray' = {} /\ UNCHANGED <<broken, faults>>
       \/ \E S \in SUBSET (tracked \union stray) :
            /\ CleanupLeaves(S) /\ BreakStep
            /\ tracked' = tracked \intersect S /\ stray' = stray \intersect S
    /\ Goto(c, "done")
    /\ UNCHANGED <<posted, verdict, keys, reaped, applying, destroying>>
    /\ UNCHANGED <<runVars, stateVars, serverVars, overlapped, cutOff, revived>>

Teardown(c) ==
    \/ TearDown(c) \/ TornDown(c) \/ ListStates(c)
    \/ ReapDestroy(c) \/ ReapRemove(c) \/ ReapFails(c) \/ ReapEnds(c)
    \/ CleanupServer(c) \/ Cleanup(c)

-----------------------------------------------------------------------------
(***************************************************************************)
(* The orchestrator meanwhile.                                             *)
(***************************************************************************)

\* The recoveries at startup are outside the loop's try: an error of the
\* database ends polling_loop, and nothing restarts it.
Boot(v) ==
    /\ loop[v] = "boot"
    /\ \E fate \in {"polling", "dead"} : loop' = [loop EXCEPT ![v] = fate]
    /\ UNCHANGED <<runVars, fleetVars, stateVars, servers, key, jobVars, historyVars, faults>>

\* restart: unless-stopped.
ProcessCrash(v) ==
    /\ ProcessUp(v) /\ Fault
    /\ ProcessRestarts(v)
    /\ UNCHANGED <<key, runVars, stateVars, jobVars, historyVars>>

\* Claims, retries and revivals are the loop's and its tasks'; giving up and
\* delivering may also be the doing of a request.
RunMoves(r) ==
    /\ r \in Rows(Home(r)) /\ ProcessUp(Home(r))
    /\ \/ /\ loop[Home(r)] = "polling"
          /\ Fleet!Claim({r}) \/ Fleet!Retry(r) \/ Fleet!Revive(r)
       \/ Fleet!GiveUp({r}) \/ Fleet!Deliver(r)
    /\ UNCHANGED fleetVars
    /\ Fleet!EndedKept /\ Fleet!ApplyAlone
    /\ revived' = IF phase[r] = "over" /\ phase'[r] # "over" THEN revived \union {r}
                  ELSE revived
    /\ UNCHANGED <<stateVars, serverVars, jobVars, broken, overlapped, cutOff, faults>>

FleetMoves(r) ==
    /\ r \in Rows(Home(r)) /\ ProcessUp(Home(r))
    /\ \/ loop[Home(r)] = "polling" /\ Fleet!BeginApply(r)
       \/ \E b \in BOOLEAN : Fleet!EndApply(r, b)
       \/ Fleet!Destroy(r)
       \/ \E gone, last \in BOOLEAN : Fleet!Forget(r, gone, last)
    /\ UNCHANGED runVars
    /\ Fleet!EndedKept /\ Fleet!ApplyAlone
    /\ UNCHANGED <<stateVars, serverVars, jobVars, historyVars, faults>>

Server == \/ \E v \in Cycles : Boot(v) \/ ProcessCrash(v)
          \/ \E r \in Runs : RunMoves(r) \/ FleetMoves(r)

Next ==
    \/ \E c \in Cycles : Bench(c) \/ Teardown(c)
    \/ Server

Spec == Init /\ [][Next]_vars

-----------------------------------------------------------------------------
(***************************************************************************)
(* Properties.                                                             *)
(***************************************************************************)

\* "Destroy VM (always, even if bench failed)", then "Reap leftover GPU VMs":
\* once no cycle is under way there is no orchestrator and no GPU VM that a
\* state object records, whatever the orchestrator gave up on, forgot or was
\* doing when it was torn down, and however cycles overlapped but for their
\* terraform commands.  The excuses: a step of a teardown failed after the last
\* successful destroy, an apply was cut off between the VM and the state, or two
\* commands were at work on the state at a time (with no lock on it two cycles
\* each create a VM, and the state names one of them).
NothingRecordedLeft ==
    /\ \A c \in Cycles : ~UnderWay(c)
    /\ ~broken /\ ~cutOff /\ ~overlapped
    => servers = {} /\ tracked = {}

\* A green cycle has its results: submission and verdict answered, each run it
\* created has delivered, but for those whose database somebody else's
\* teardown destroyed, and those that were given up and came back between the
\* two reads of /bench/status.
GreenIsEarned ==
    \A c \in Cycles : verdict[c] = "green" =>
        \A r \in Runs : CycleOf[r] = c /\ phase[r] # "absent" =>
            result[r] \/ Lost(r) \/ r \in revived

\* The teardown of a green cycle, alone by then, cuts off no apply, and so loses
\* no VM, but those of runs that were given up and came back; an orchestrator
\* that the state does not name goes on for itself.
GreenTeardownIsQuiet ==
    \A c \in Cycles :
        /\ verdict[c] = "green" /\ at[c] \in {"destroy", "destroying"}
        /\ ~broken /\ ~cutOff /\ ~overlapped
        /\ \A d \in Cycles \ {c} : ~UnderWay(d)
        => applying \subseteq revived
===============================================================================
