------------------------------- MODULE GpuFleet -------------------------------
(***************************************************************************)
(* What the orchestrator promises to the CI jobs that start it and clean   *)
(* up after it: the life of its runs (RunLifecycle) together with what is  *)
(* left in the cloud for them.  A VM that a state object records can be    *)
(* destroyed by anyone who lists the bucket; a stray one cannot.           *)
(* Orchestrator is checked to implement it, and BenchCycle builds on it.   *)
(***************************************************************************)
EXTENDS RunLifecycle

VARIABLES
    ended,      \* runs that have been over once (ended_at is set)
    applying,   \* runs a `terraform apply` is at work for
    destroying, \* runs with a destroy_node between the destroy and the deletion
                \* of the state object
    tracked,    \* runs with a VM their state object records
    stray       \* runs with a VM no state object records

fleetVars == <<applying, destroying, tracked, stray>>
allVars == <<lifeVars, ended, fleetVars>>

FleetInit ==
    /\ Init
    /\ ended = {}
    /\ applying = {} /\ destroying = {}
    /\ tracked = {} /\ stray = {}

EndedKept == ended' = ended \union {r \in Runs : phase'[r] = "over"}

\* A run keeps its slot, or has been given up, until its apply is over: it is
\* not queued again under it, and nobody completes it.
ApplyAlone ==
    \A r \in applying' : phase'[r] \in {"active", "over"} /\ ~result'[r]

BeginApply(r) ==
    /\ r \notin applying
    /\ applying' = applying \union {r}
    /\ UNCHANGED <<destroying, tracked, stray>>

\* A failed apply too may have created, and recorded, a server.
EndApply(r, recorded) ==
    /\ r \in applying
    /\ applying' = applying \ {r}
    /\ tracked' = IF recorded THEN tracked \union {r} ELSE tracked
    /\ UNCHANGED <<destroying, stray>>

\* `terraform destroy`: what the state object records, and nothing else.  It
\* meets an apply of the same run only when the run has been given up before.
Destroy(r) ==
    /\ r \in applying => r \in ended
    /\ tracked' = tracked \ {r}
    /\ destroying' = destroying \union {r}
    /\ UNCHANGED <<applying, stray>>

\* The state object goes next, or stays when S3 refuses (gone = FALSE).  An
\* apply that has ended since the destroy is recorded there: the only way to
\* lose a VM without a crash.  last: no other destroy of the run is under way.
Forget(r, gone, last) ==
    /\ r \in destroying
    /\ stray' = IF gone THEN stray \union ({r} \intersect tracked) ELSE stray
    /\ tracked' = IF gone THEN tracked \ {r} ELSE tracked
    /\ destroying' = IF last THEN destroying \ {r} ELSE destroying
    /\ UNCHANGED applying

\* The process that works on the runs of R dies: S are those whose apply had
\* created a VM by then and not recorded it.
Die(R, S) ==
    /\ S \subseteq (applying \intersect R) \ tracked
    /\ stray' = stray \union S
    /\ applying' = applying \ R /\ destroying' = destroying \ R
    /\ UNCHANGED tracked

FleetMoves ==
    \/ \E r \in Runs : BeginApply(r) \/ Destroy(r)
    \/ \E r \in Runs, b \in BOOLEAN : EndApply(r, b)
    \/ \E r \in Runs, b, last \in BOOLEAN : Forget(r, b, last)
    \/ \E S \in SUBSET applying : Die(Runs, S)

FleetNext ==
    /\ \/ Next /\ UNCHANGED fleetVars
       \/ FleetMoves /\ UNCHANGED lifeVars
    /\ EndedKept /\ ApplyAlone

FleetSpec == FleetInit /\ [][FleetNext]_allVars
===============================================================================
