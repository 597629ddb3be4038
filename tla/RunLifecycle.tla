----------------------------- MODULE RunLifecycle -----------------------------
(***************************************************************************)
(* What the run table promises to a client that only polls it, bench.yml   *)
(* for instance: the life of one run, with every task, table and VM behind *)
(* it hidden.  Orchestrator is shown to implement it.                      *)
(***************************************************************************)
EXTENDS Naturals, RunIds

CONSTANT MaxAttempts

VARIABLES
    phase,  \* "absent", "waiting" (queued), "active" (holds a slot) or "over"
    spent,  \* provisioning attempts counted
    result  \* the run's results are in the database

lifeVars == <<phase, spent, result>>

Init ==
    /\ phase = [r \in Runs |-> "absent"]
    /\ spent = [r \in Runs |-> 0]
    /\ result = [r \in Runs |-> FALSE]

Move(r, from, to) ==
    /\ phase[r] \in from
    /\ phase' = [phase EXCEPT ![r] = to]

Enqueue(r) == Move(r, {"absent"}, "waiting") /\ UNCHANGED <<spent, result>>

\* The poller hands out slots for several runs at a time.
Claim(S) ==
    /\ \A r \in S : phase[r] = "waiting" /\ spent[r] < MaxAttempts
    /\ phase' = [r \in Runs |-> IF r \in S THEN "active" ELSE phase[r]]
    /\ UNCHANGED <<spent, result>>

\* An attempt did not get a VM.  The run may have been given up meanwhile: an
\* attempt still at work then puts it back in the queue, but only without a result.
Retry(r) ==
    /\ spent[r] + 1 < MaxAttempts /\ ~result[r]
    /\ Move(r, {"active", "over"}, "waiting")
    /\ spent' = [spent EXCEPT ![r] = @ + 1]
    /\ UNCHANGED result

LastTry(r) ==
    /\ phase[r] \in {"active", "over"} /\ ~result[r]
    /\ spent' = [spent EXCEPT ![r] = @ + 1]
    /\ UNCHANGED <<phase, result>>

\* A late attempt brings back a run that was given up.
Revive(r) == ~result[r] /\ Move(r, {"over"}, "active") /\ UNCHANGED <<spent, result>>

\* Fail, or the watchdogs, which take several runs at a time.
GiveUp(S) ==
    /\ \A r \in S : phase[r] # "absent"
    /\ phase' = [r \in Runs |-> IF r \in S THEN "over" ELSE phase[r]]
    /\ UNCHANGED <<spent, result>>

\* Once, and for good: no action takes a run with a result out of "over".
Deliver(r) ==
    /\ ~result[r]
    /\ Move(r, {"active", "over"}, "over")
    /\ result' = [result EXCEPT ![r] = TRUE]
    /\ UNCHANGED spent

Next ==
    \/ \E r \in Runs : Enqueue(r) \/ Retry(r) \/ LastTry(r) \/ Revive(r) \/ Deliver(r)
    \/ \E S \in SUBSET Runs : Claim(S) \/ GiveUp(S)

Spec == Init /\ [][Next]_lifeVars
===============================================================================
