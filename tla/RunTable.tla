------------------------------ MODULE RunTable ------------------------------
(***************************************************************************)
(* The `runs` table (with the `results` row of each run) and the           *)
(* transactions RunRepository performs on it.  Each operator below is one  *)
(* committed transaction of one repository method; the callers, which keep *)
(* several of them apart by an `await`, are in module Orchestrator.        *)
(***************************************************************************)
EXTENDS Naturals, RunIds

CONSTANTS
    GpuTypes,     \* models.GpuType
    GpuOf,        \* gpu_type_required of each run, fixed when it is created
    MaxAttempts   \* settings.provision_max_attempts

ASSUME GpuOfAssumption == GpuOf \in [Runs -> GpuTypes]
ASSUME MaxAttemptsAssumption == MaxAttempts \in Nat \ {0}

VARIABLES
    status,    \* status column; "none" while the run has no row
    attempts,  \* provision_attempts column
    endedAt,   \* ended_at column is set (no transaction ever clears it)
    overdue,   \* the timestamp the watchdog reads is older than its cutoff
    resultRow  \* the run has its (unique) row in `results`

runVars == <<status, attempts, endedAt, overdue, resultRow>>

RunStatus == {"queued", "provisioning", "running", "done", "failed"}
Terminal == {"done", "failed"}
Live == {"provisioning", "running"}

RunTableTypeOK ==
    /\ status \in [Runs -> RunStatus \union {"none"}]
    /\ attempts \in [Runs -> Nat]
    /\ endedAt \in [Runs -> BOOLEAN]
    /\ overdue \in [Runs -> BOOLEAN]
    /\ resultRow \in [Runs -> BOOLEAN]

RunTableInit ==
    /\ status = [r \in Runs |-> "none"]
    /\ attempts = [r \in Runs |-> 0]
    /\ endedAt = [r \in Runs |-> FALSE]
    /\ overdue = [r \in Runs |-> FALSE]
    /\ resultRow = [r \in Runs |-> FALSE]

-----------------------------------------------------------------------------
\* Reads.

QueuedOf(g) == {r \in Runs : status[r] = "queued" /\ GpuOf[r] = g}

\* count_live_by_type, for one type.
LiveCount(g) == Cardinality({r \in Runs : status[r] \in Live /\ GpuOf[r] = g})

\* Mutant: the recovery takes the runs in running as well.
BugInProvisioning == {r \in Runs : status[r] \in Live}

\* get_orphaned_provisioning.
InProvisioning == {r \in Runs : status[r] = "provisioning"}

\* Mutant: the provisioning watchdog finds nothing.
BugTimedOut(s) == {r \in Runs : status[r] = s /\ s = "running" /\ overdue[r]}

\* The rows the two watchdog queries select: status s, timestamp < cutoff.
TimedOut(s) == {r \in Runs : status[r] = s /\ overdue[r]}

-----------------------------------------------------------------------------
\* Transactions.

CreateRun(r) ==
    /\ status[r] = "none"
    /\ status' = [status EXCEPT ![r] = "queued"]
    /\ UNCHANGED <<attempts, endedAt, overdue, resultRow>>

\* The caller chooses S among the queued rows: the query has no ORDER BY.
\* provisioning_started_at is stamped, so the run is no longer overdue.
ClaimQueued(S) ==
    /\ status' = [r \in Runs |-> IF r \in S THEN "provisioning" ELSE status[r]]
    /\ overdue' = [r \in Runs |-> IF r \in S THEN FALSE ELSE overdue[r]]
    /\ UNCHANGED <<attempts, endedAt, resultRow>>

\* started_at is stamped, whatever the status was.
SetRunning(r) ==
    /\ status' = [status EXCEPT ![r] = "running"]
    /\ overdue' = [overdue EXCEPT ![r] = FALSE]
    /\ UNCHANGED <<attempts, endedAt, resultRow>>

\* fail_run and set_failed: unconditional as well.
SetFailed(r) ==
    /\ status' = [status EXCEPT ![r] = "failed"]
    /\ endedAt' = [endedAt EXCEPT ![r] = TRUE]
    /\ UNCHANGED <<attempts, overdue, resultRow>>

\* Mutant: the results row is not added to the session.
BugCompleteRun(r) ==
    /\ ~resultRow[r]
    /\ status' = [status EXCEPT ![r] = "done"]
    /\ endedAt' = [endedAt EXCEPT ![r] = TRUE]
    /\ UNCHANGED <<attempts, overdue, resultRow>>

\* The commit inserts the results row; `results.run_id` is UNIQUE, so a second
\* insert rolls the whole transaction back.
CompleteRun(r) ==
    /\ ~resultRow[r]
    /\ status' = [status EXCEPT ![r] = "done"]
    /\ endedAt' = [endedAt EXCEPT ![r] = TRUE]
    /\ resultRow' = [resultRow EXCEPT ![r] = TRUE]
    /\ UNCHANGED <<attempts, overdue>>

\* claim_running_timed_out and claim_provisioning_timed_out: select and mark
\* in one transaction.
ClaimTimedOut(s) ==
    /\ status' = [r \in Runs |-> IF r \in TimedOut(s) THEN "failed" ELSE status[r]]
    /\ endedAt' = [r \in Runs |-> r \in TimedOut(s) \/ endedAt[r]]
    /\ UNCHANGED <<attempts, overdue, resultRow>>

\* Mutant: one attempt too many.
BugBudgetSpent(r) == attempts[r] + 1 > MaxAttempts

BudgetSpent(r) == attempts[r] + 1 >= MaxAttempts

\* Mutant: the attempt is not counted.
BugRequeueForRetry(r) ==
    /\ status' = [status EXCEPT ![r] = IF BudgetSpent(r) THEN @ ELSE "queued"]
    /\ UNCHANGED <<attempts, endedAt, overdue, resultRow>>

\* requeue_for_retry: counts the attempt, then either puts the run back in the
\* queue or, the budget spent, leaves its status for the caller to settle.
RequeueForRetry(r) ==
    /\ attempts' = [attempts EXCEPT ![r] = @ + 1]
    /\ status' = [status EXCEPT ![r] = IF BudgetSpent(r) THEN @ ELSE "queued"]
    /\ UNCHANGED <<endedAt, overdue, resultRow>>

\* Time passes: the run has been in its live status for longer than
\* run_provisioning_timeout_minutes or run_running_timeout_minutes.
Expire(r) ==
    /\ status[r] \in Live /\ ~overdue[r]
    /\ overdue' = [overdue EXCEPT ![r] = TRUE]
    /\ UNCHANGED <<status, attempts, endedAt, resultRow>>
=============================================================================
