-------------------------------- MODULE Runner --------------------------------
(***************************************************************************)
(* One GPU VM from its cloud-init to the last report about its run:        *)
(* cloud-init's runcmd, runner.sh with its ERR trap and its background log *)
(* upload, the systemd unit around it, and the handlers of the requests    *)
(* they post.  Requests and answers may be lost, a request whose sender    *)
(* has gone goes on, and between the status check of a handler and its     *)
(* commit anything may happen.                                             *)
(***************************************************************************)
EXTENDS LogCut

CONSTANTS
    Work,        \* the steps of runner.sh that begin with report_phase, in order
    LogSize,     \* the size the log has reached by each step, see StepNo
    MaxFaults    \* bound on lost requests and answers, reboots and timeouts together

\* The step after the last of Work, and what a log read in it tells of.
Last == Len(Work) + 1

ASSUME RunnerAssumption ==
    /\ Work \in Seq(STRING) /\ Len(Work) > 0
    /\ \A i, j \in 1 .. Len(Work) : Work[i] = Work[j] => i = j
    /\ LogSize \in [1 .. Last -> Nat]
    /\ MaxFaults \in Nat

VARIABLES
    status,    \* the run's row
    started,   \* the provisioning task has called set_running
    phase,     \* its current_phase column
    log,       \* its log object
    inflight,  \* requests that have passed their check and have yet to take effect
    reaper,    \* a watchdog has claimed the run and will mark it again
    at,        \* the step of the VM
    call,      \* the foreground request of this step, and its answer
    periodic,  \* _periodic_log_upload: off, asleep or waiting for its answer
    uploaded,  \* LOGS_UPLOADED
    jq,        \* apt-get has installed it
    enabled,   \* the unit is enabled: it starts again after a reboot
    reboots,   \* how often the VM has rebooted: the life of the script
    faults,    \* used up of MaxFaults
    left,      \* the step the runner was at when it turned to its report
    reported,  \* it has posted /complete or /fail
    raced,     \* a log upload was lost, or overlapped the final one
    orphaned,  \* a /complete or /fail went on after its sender had stopped waiting
    adrift,    \* so did a phase report
    reaped,    \* a watchdog has claimed the run
    excuse     \* the last report did not arrive, or arrived too early

rowVars == <<status, started, phase, log, reaper>>
vmVars == <<at, call, periodic, uploaded, jq, enabled>>
boundVars == <<reboots, faults>>
historyVars == <<left, reported, raced, orphaned, adrift, reaped, excuse>>
vars == <<rowVars, inflight, vmVars, boundVars, historyVars>>

Ended == {"done", "failed"}

Working == {Work[i] : i \in 1 .. Len(Work)}

\* The phases of runner.sh are told apart from what this module adds to them.
ASSUME PhasesAssumption ==
    Working \intersect {"logs", "complete", "cleanup", "faillogs", "fail", "pullfailed", "unit",
                        "apt", "pull", "off", "gone", "none"} = {}

\* The steps whose request comes from the host, not from the container.
OnHost == {"pullfailed", "unit"}
InRunner == Working \union {"logs", "complete", "cleanup", "faillogs", "fail"}
Posting == (InRunner \ {"cleanup"}) \union OnHost
VmSteps == InRunner \union OnHost \union {"apt", "pull", "off", "gone"}

\* How far the runner is: what a log read at the step tells of.
StepNo(step) ==
    IF step \in Working THEN CHOOSE i \in 1 .. Len(Work) : Work[i] = step ELSE Last
Reading == IF at \in {"faillogs", "fail"} THEN left ELSE StepNo(at)

\* Mutant: the benchmark is not followed by the report.
BugNextStep(step) ==
    IF StepNo(step) = Len(Work) THEN "done" ELSE Work[StepNo(step) + 1]

NextStep(step) ==
    IF StepNo(step) = Len(Work) THEN "logs" ELSE Work[StepNo(step) + 1]

-----------------------------------------------------------------------------
\* Requests.

NoLog == [step |-> 0, life |-> 0, body |-> <<>>]

Kind(step) ==
    CASE step \in Working -> "phase"
      [] step \in {"logs", "faillogs"} -> "logs"
      [] step = "complete" -> "complete"
      [] step \in OnHost \union {"fail"} -> "fail"

\* A request: who waits for its answer ("main", "periodic", "nobody"), and of
\* which step it tells.  A phase report that has passed its second check as
\* well is a "write".
Request(kind, from) == [kind |-> kind, from |-> from, step |-> Reading, life |-> reboots]
Requests ==
    [kind : {"phase", "write", "logs", "complete", "fail"}, from : {"main", "periodic", "nobody"},
     step : 1 .. Last, life : 0 .. MaxFaults]

\* Its sender is gone, or has stopped waiting.
Orphan(S) == {IF q \in S THEN [q EXCEPT !.from = "nobody"] ELSE q : q \in inflight}
Of(sender) == {q \in inflight : q.from = sender}

\* Mutant: fail takes a run of any status.
BugAccepts(kind) ==
    \/ kind \in {"logs", "fail"}
    \/ kind \in {"phase", "complete"} /\ status = "running"

\* The status each handler asks for before it goes on; 409 otherwise.
Accepts(kind) ==
    \/ kind = "logs"
    \/ kind \in {"phase", "complete"} /\ status = "running"
    \/ kind = "fail" /\ status \in {"running", "provisioning"}

\* Without jq the host posts an empty body, which is answered 422.
WellFormed == at \in OnHost => jq

-----------------------------------------------------------------------------
Init ==
    /\ status = "provisioning" /\ started = FALSE
    /\ phase = "none" /\ log = NoLog
    /\ inflight = {} /\ reaper = FALSE
    /\ at = "apt" /\ call = "unsent" /\ periodic = "off"
    /\ uploaded = FALSE /\ jq = FALSE /\ enabled = FALSE
    /\ reboots = 0 /\ faults = 0
    /\ left = 0 /\ reported = FALSE /\ raced = FALSE /\ orphaned = FALSE /\ adrift = FALSE
    /\ reaped = FALSE /\ excuse = FALSE

Fault == faults < MaxFaults /\ faults' = faults + 1

\* The step is over: the next one has yet to post.
Goto(step) == at' = step /\ call' = "unsent"

\* Mutant: fail posts its report before the log.
BugToFail ==
    /\ Goto("fail")
    /\ left' = StepNo(at)
    /\ UNCHANGED <<periodic, uploaded, jq, enabled>>

\* fail and on_err: the log goes first, unless upload_logs has run already.
ToFail ==
    /\ Goto(IF uploaded THEN "fail" ELSE "faillogs")
    /\ left' = StepNo(at)
    /\ UNCHANGED <<periodic, uploaded, jq, enabled>>

-----------------------------------------------------------------------------
\* cloud-init.

\* runcmd goes on whether apt-get succeeds or not.
Apt ==
    /\ at = "apt"
    /\ jq' \in BOOLEAN
    /\ Goto("pull")
    /\ UNCHANGED <<rowVars, inflight, periodic, uploaded, enabled, boundVars, historyVars>>

\* systemctl enable --now starts the runner, which starts its log upload.
PullOk ==
    /\ at = "pull"
    /\ Goto(Work[1])
    /\ periodic' = "asleep" /\ enabled' = TRUE
    /\ UNCHANGED <<rowVars, inflight, uploaded, jq, boundVars, historyVars>>

\* Mutant: runcmd ends without a report.
BugPullFails ==
    /\ at = "pull"
    /\ Goto("off")
    /\ UNCHANGED <<rowVars, inflight, periodic, uploaded, jq, enabled, boundVars, historyVars>>

PullFails ==
    /\ at = "pull"
    /\ Goto("pullfailed")
    /\ UNCHANGED <<rowVars, inflight, periodic, uploaded, jq, enabled, boundVars, historyVars>>

-----------------------------------------------------------------------------
\* Requests of the foreground.

\* Any log in flight when the final one is posted may land after it.
RacesFinal == Kind(at) = "logs" /\ \E q \in inflight : q.kind = "logs"
Reports == at \in {"complete", "fail"}

\* The request arrives, and passes the check of its handler or is refused.
Post ==
    /\ at \in Posting /\ call = "unsent"
    /\ IF WellFormed /\ Accepts(Kind(at))
       THEN inflight' = inflight \union {Request(Kind(at), "main")} /\ call' = "waits"
       ELSE call' = "error" /\ UNCHANGED inflight
    /\ raced' = (raced \/ RacesFinal)
    /\ reported' = (reported \/ Reports)
    /\ excuse' = (excuse \/ ~WellFormed)
    /\ UNCHANGED <<rowVars, at, periodic, uploaded, jq, enabled, boundVars>>
    /\ UNCHANGED <<left, orphaned, adrift, reaped>>

\* It does not arrive, or its handler raises before it has had an effect.
PostLost ==
    /\ at \in Posting /\ call = "unsent"
    /\ Fault
    /\ call' = "error"
    /\ raced' = (raced \/ Kind(at) = "logs")
    /\ reported' = (reported \/ Reports)
    /\ excuse' = (excuse \/ at \in OnHost)
    /\ UNCHANGED <<rowVars, inflight, at, periodic, uploaded, jq, enabled, reboots>>
    /\ UNCHANGED <<left, orphaned, adrift, reaped>>

\* curl gives up on the answer; the handler does not.
AnswerLost ==
    /\ call = "waits"
    /\ Fault
    /\ call' = "error"
    /\ inflight' = Orphan(Of("main"))
    /\ raced' = (raced \/ Kind(at) = "logs")
    /\ orphaned' = (orphaned \/ Kind(at) \in {"complete", "fail"})
    /\ adrift' = (adrift \/ Kind(at) = "phase")
    /\ UNCHANGED <<rowVars, at, periodic, uploaded, jq, enabled, reboots>>
    /\ UNCHANGED <<left, reported, reaped, excuse>>

Answered == call \in {"ok", "error"}

-----------------------------------------------------------------------------
\* runner.sh.

\* report_phase ignores the answer, then the step is worked on.
WorkDone ==
    /\ at \in Working /\ Answered
    /\ Goto(NextStep(at))
    /\ UNCHANGED <<rowVars, inflight, periodic, uploaded, jq, enabled, boundVars, historyVars>>

WorkFails ==
    /\ at \in Working /\ Answered
    /\ ToFail
    /\ UNCHANGED <<rowVars, inflight, boundVars, reported, raced, orphaned, adrift, reaped, excuse>>

\* upload_logs returns 0 whatever the answer.
LogsDone ==
    /\ at \in {"logs", "faillogs"} /\ Answered
    /\ Goto(IF at = "logs" THEN "complete" ELSE "fail")
    /\ uploaded' = TRUE
    /\ UNCHANGED <<rowVars, inflight, periodic, jq, enabled, boundVars, historyVars>>

CompleteDone ==
    /\ at = "complete" /\ call = "ok"
    /\ Goto("cleanup")
    /\ UNCHANGED <<rowVars, inflight, periodic, uploaded, jq, enabled, boundVars, historyVars>>

\* The payload cannot be built, or curl fails: the ERR trap reports a failure.
CompleteFails ==
    /\ at = "complete" /\ call \in {"unsent", "error"}
    /\ ToFail
    /\ UNCHANGED <<rowVars, inflight, boundVars, reported, raced, orphaned, adrift, reaped, excuse>>

\* The unit ends with success, and ExecStopPost has nothing to report.
CleanupDone ==
    /\ at = "cleanup"
    /\ Goto("off")
    /\ periodic' = "off" /\ inflight' = Orphan(Of("periodic"))
    /\ UNCHANGED <<rowVars, uploaded, jq, enabled, boundVars, historyVars>>

CleanupFails ==
    /\ at = "cleanup"
    /\ ToFail
    /\ UNCHANGED <<rowVars, inflight, boundVars, reported, raced, orphaned, adrift, reaped, excuse>>

\* The container is gone, with its background upload: ExecStopPost is next.
LeaveRunner(next, background) ==
    /\ Goto(next)
    /\ periodic' = background
    /\ inflight' = Orphan(Of("main") \union Of("periodic"))
    /\ orphaned' = (orphaned \/ \E q \in Of("main") : q.kind \in {"complete", "fail"})
    /\ adrift' = (adrift \/ \E q \in Of("main") : q.kind \in {"phase", "write"})
    /\ UNCHANGED reaped

FailReported ==
    /\ at = "fail" /\ Answered
    /\ LeaveRunner("unit", "off")
    /\ UNCHANGED <<rowVars, uploaded, jq, enabled, boundVars, left, reported, raced, excuse>>

\* Mutant: the unit has no ExecStopPost.
BugKilled ==
    /\ at \in InRunner
    /\ LeaveRunner("off", "off")
    /\ UNCHANGED <<rowVars, uploaded, jq, enabled, boundVars, left, reported, raced, excuse>>

\* Killed before or while it reports: out of memory, no GPU, docker restarted.
Killed ==
    /\ at \in InRunner
    /\ LeaveRunner("unit", "off")
    /\ UNCHANGED <<rowVars, uploaded, jq, enabled, boundVars, left, reported, raced, excuse>>

\* fail-report.sh of ExecStopPost, or of a failed pull, is the last command.
HostReported ==
    /\ at \in OnHost /\ Answered
    /\ Goto("off")
    /\ UNCHANGED <<rowVars, inflight, periodic, uploaded, jq, enabled, boundVars, historyVars>>

\* An enabled unit runs the whole script again, with a new log file.
Reboot ==
    /\ enabled /\ at # "gone" /\ Fault
    /\ LeaveRunner(Work[1], "asleep")
    /\ uploaded' = FALSE
    /\ reboots' = reboots + 1
    /\ raced' = (\E q \in inflight : q.kind = "logs")
    /\ left' = 0 /\ reported' = FALSE /\ excuse' = FALSE
    /\ UNCHANGED <<rowVars, jq, enabled>>

-----------------------------------------------------------------------------
\* _periodic_log_upload, beside the steps above.

PeriodicPost ==
    /\ periodic = "asleep" /\ at \in InRunner
    /\ periodic' = "waits"
    /\ inflight' = inflight \union {Request("logs", "periodic")}
    /\ UNCHANGED <<rowVars, at, call, uploaded, jq, enabled, boundVars, historyVars>>

\* Its request goes on, and the next one follows thirty seconds later.
PeriodicAnswerLost ==
    /\ periodic = "waits"
    /\ Fault
    /\ periodic' = "asleep"
    /\ inflight' = Orphan(Of("periodic"))
    /\ raced' = TRUE
    /\ UNCHANGED <<rowVars, at, call, uploaded, jq, enabled, reboots>>
    /\ UNCHANGED <<left, reported, orphaned, adrift, reaped, excuse>>

-----------------------------------------------------------------------------
\* The handlers: the rest of each request, after its check.

\* The request is over, and whoever waits for it is told.
Answer(q, answer) ==
    /\ inflight' = inflight \ {q}
    /\ call' = IF q.from = "main" THEN answer ELSE call
    /\ periodic' = IF q.from = "periodic" THEN "asleep" ELSE periodic

handlerUnchanged == <<started, reaper, at, uploaded, jq, enabled, boundVars, historyVars>>

\* It has passed the second check of a phase report, and goes on to its commit.
PassOn(q) ==
    /\ inflight' = (inflight \ {q}) \union {[q EXCEPT !.kind = "write"]}
    /\ UNCHANGED <<call, periodic>>

\* Mutant: the repository does not look at the status again.
BugCheckPhase(q) ==
    /\ q.kind = "phase"
    /\ PassOn(q)
    /\ UNCHANGED <<handlerUnchanged, status, phase, log>>

\* set_phase of the repository reads the row again, and does not lock it.
CheckPhase(q) ==
    /\ q.kind = "phase"
    /\ IF status = "running" THEN PassOn(q) ELSE Answer(q, "ok")
    /\ UNCHANGED <<handlerUnchanged, status, phase, log>>

\* Its commit writes the column alone, whatever the row has become.
WritePhase(q) ==
    /\ q.kind = "write"
    /\ phase' = Work[q.step]
    /\ Answer(q, "ok")
    /\ UNCHANGED <<handlerUnchanged, status, log>>

\* The log of the request's step replaces the one that is stored.
TakeLogs(q) ==
    /\ q.kind = "logs"
    /\ log' = [step |-> q.step, life |-> q.life, body |-> Stored(Posted(LogSize[q.step]))]
    /\ Answer(q, "ok")
    /\ UNCHANGED <<handlerUnchanged, status, phase>>

\* complete_run is unconditional; meta and leaderboard may raise after it.
TakeComplete(q) ==
    /\ q.kind = "complete"
    /\ status' = "done"
    /\ \E answer \in {"ok", "error"} : Answer(q, answer)
    /\ UNCHANGED <<handlerUnchanged, phase, log>>

\* Upload, aggregation or the insert of the result raises: the row is as it was.
RaiseComplete(q) ==
    /\ q.kind = "complete"
    /\ Answer(q, "error")
    /\ UNCHANGED <<handlerUnchanged, status, phase, log>>

\* So is fail_run.
TakeFail(q) ==
    /\ q.kind = "fail"
    /\ status' = "failed"
    /\ Answer(q, "ok")
    /\ UNCHANGED <<handlerUnchanged, phase, log>>

Handle(q) ==
    \/ CheckPhase(q) \/ WritePhase(q) \/ TakeLogs(q)
    \/ TakeComplete(q) \/ RaiseComplete(q) \/ TakeFail(q)

-----------------------------------------------------------------------------
\* The orchestrator around them.

\* The provisioning task calls set_running when apply has returned: the VM may
\* have failed its run by then, and the row is not looked at.
TaskSetRunning ==
    /\ ~started
    /\ started' = TRUE /\ status' = "running"
    /\ excuse' = (excuse \/ status # "provisioning")
    /\ UNCHANGED <<phase, log, reaper, inflight, vmVars, boundVars>>
    /\ UNCHANGED <<left, reported, raced, orphaned, adrift, reaped>>

\* A watchdog claims the run as failed; the one of running runs marks it once
\* more at its leisure.
Reap ==
    /\ status \notin Ended
    /\ Fault
    /\ status' = "failed" /\ reaper' = (status = "running")
    /\ reaped' = TRUE
    /\ UNCHANGED <<started, phase, log, inflight, vmVars, reboots>>
    /\ UNCHANGED <<left, reported, raced, orphaned, adrift, excuse>>

ReapEnd ==
    /\ reaper
    /\ status' = "failed" /\ reaper' = FALSE
    /\ UNCHANGED <<started, phase, log, inflight, vmVars, boundVars, historyVars>>

\* release_node destroys the VM of an ended run.
VmGone ==
    /\ status \in Ended /\ at # "gone"
    /\ LeaveRunner("gone", "off")
    /\ UNCHANGED <<rowVars, uploaded, jq, enabled, boundVars, left, reported, raced, excuse>>

-----------------------------------------------------------------------------
VmStep ==
    \/ Apt \/ PullOk \/ PullFails
    \/ Post \/ WorkDone \/ WorkFails \/ LogsDone
    \/ CompleteDone \/ CompleteFails \/ CleanupDone \/ CleanupFails
    \/ FailReported \/ HostReported

Next ==
    \/ VmStep \/ PeriodicPost
    \/ PostLost \/ AnswerLost \/ PeriodicAnswerLost
    \/ Killed \/ Reboot \/ VmGone
    \/ \E q \in inflight : Handle(q)
    \/ TaskSetRunning \/ Reap \/ ReapEnd

\* Every step of the VM ends (downloads and the health check have a timeout;
\* that the others end is assumed) and every handler and task goes on.
Fairness ==
    /\ WF_vars(VmStep)
    /\ WF_vars(TaskSetRunning)
    /\ \A kind \in {"phase", "write", "logs", "complete", "fail"} :
           WF_vars(\E q \in Of("main") : q.kind = kind /\ Handle(q))
    /\ \A kind \in {"complete", "fail"} :
           WF_vars(\E q \in Of("nobody") : q.kind = kind /\ Handle(q))

Spec == Init /\ [][Next]_vars
FairSpec == Spec /\ Fairness

-----------------------------------------------------------------------------
\* Properties.

\* Every variable has its type.
TypeOK ==
    /\ status \in {"provisioning", "running"} \union Ended
    /\ phase \in {"none"} \union Working
    /\ log.step \in 0 .. Last /\ log.life \in 0 .. MaxFaults
    /\ inflight \subseteq Requests
    /\ at \in VmSteps
    /\ call \in {"unsent", "waits", "ok", "error"}
    /\ periodic \in {"off", "asleep", "waits"}
    /\ {started, reaper, uploaded, jq, enabled, reported, raced} \subseteq BOOLEAN
    /\ {orphaned, adrift, reaped, excuse} \subseteq BOOLEAN
    /\ reboots \in 0 .. MaxFaults /\ faults \in 0 .. MaxFaults /\ left \in 0 .. Last

\* A VM that has gone quiet does not leave its run in `running` for the
\* watchdog to find hours later, unless its last report was lost or refused, or
\* set_running came after it: fail, on_err, ExecStopPost and the failed pull
\* between them report every other end.
SilentNeedsExcuse ==
    at \in {"off", "gone"} /\ status = "running" /\ reaper = FALSE
        /\ ~(\E q \in inflight : q.kind \in {"complete", "fail"})
    => excuse

\* When a runner has reported, the stored log tells of this run of the script
\* and up to the step it was at (for a failed report or clean-up: up to the end
\* of the benchmark), unless an upload was lost or overlapped the final one.
\* upload_logs comes before the report for this.
LogBeforeReport ==
    reported /\ ~raced => log.life = reboots /\ log.step >= left

\* Whatever its size, the stored log is the log of its step, or its beginning
\* and its end, within the limit: the two cuts do not undo each other.
StoredLogIsFaithful ==
    log.step = 0 \/ FaithfulCut(LogSize[log.step], log.body)

\* A completed run is not turned into a failed one, unless a /complete or /fail
\* was left behind by its sender (and one overtook the other between check and
\* commit) or a watchdog had claimed the run first.
DoneStays ==
    [][status = "done" /\ status' = "failed" => orphaned \/ reaper]_vars

\* The phase reports whose commit is still to come.
Checked == {<<q.step, q.life>> : q \in {o \in inflight : o.kind = "write"}}

\* current_phase tells at which step a run was when it ended.  No report passes
\* its second check once the run has ended ("reaper may have already claimed this
\* run; silently ignore", repositories/run_repository.py:177); and one that had passed before does
\* not move the phase either, unless a watchdog ended the run under its runner,
\* or the runner had stopped waiting for that report or for its last one.
PhaseFrozen ==
    [][(status \in Ended) =>
          /\ Checked' \subseteq Checked
          /\ phase' # phase => orphaned \/ adrift \/ reaped]_vars

\* A run whose VM boots ends by the reports of the VM alone, with no help from
\* the watchdogs, unless the last report had an excuse.
ReportArrives == <>((started /\ status \in Ended) \/ excuse)
===============================================================================
