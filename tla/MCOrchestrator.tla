---------------------------- MODULE MCOrchestrator ----------------------------
(***************************************************************************)
(* Instances of Orchestrator for TLC.                                      *)
(***************************************************************************)
EXTENDS Orchestrator, TLC

\* Every run needs the same type of GPU, of which the quota allows one.
MCGpuOf == [r \in Runs |-> CHOOSE g \in GpuTypes : TRUE]
MCQuota == [g \in GpuTypes |-> 1]

MCSymmetry == Permutations(Runs) \union Permutations(Vms)

\* Bounds of the instance with two runs: one release_node at work in all, of
\* which only the one of the running watchdog fails and is tried again, no runner
\* ever reports, so that only the watchdogs end a run, and no stopped or stray VM
\* is left behind.
OneRelease ==
    /\ Cardinality({<<k, r>> \in Origins \X Runs : rel[k][r] # "idle"}) <= 1
    /\ \A k \in Origins \ {"reapR"}, r \in Runs : tries[k][r] = 0

SilentVms ==
    /\ \A r \in Runs, v \in Vms : runner[r][v] \in {"unbooted", "work"}
    /\ \A r \in Runs : stray[r] = {} /\ (tracked[r] # {} => Up(r))
===============================================================================
