------------------------------ MODULE NodeTable ------------------------------
(***************************************************************************)
(* The `nodes` table as NodeRepository uses it for one run.  The row is    *)
(* inserted under the primary key node-<run id> and set_busy renames that  *)
(* key to the Scaleway instance id, so a run has up to two rows: the one   *)
(* still under its placeholder key and the renamed one.                    *)
(***************************************************************************)
EXTENDS RunIds

VARIABLES
    placeholder,  \* status of the row node-<run id>, or "none"
    instance      \* status of the row keyed by the instance id, or "none"

nodeVars == <<placeholder, instance>>

NodeTableTypeOK ==
    /\ placeholder \in [Runs -> {"none", "provisioning", "down"}]
    /\ instance \in [Runs -> {"none", "busy", "down"}]

NodeTableInit ==
    /\ placeholder = [r \in Runs |-> "none"]
    /\ instance = [r \in Runs |-> "none"]

\* Every lookup by current_run_id demands a single row (scalar_one,
\* scalar_one_or_none) and raises MultipleResultsFound when there are two.
Ambiguous(r) == placeholder[r] # "none" /\ instance[r] # "none"

\* Mutant: the join with `runs` is left out.
BugLeaked(ended) == {r \in Runs : instance[r] = "busy"}

\* get_leaked joins `nodes` with `runs`; ended is the set of done and failed runs.
Leaked(ended) == {r \in ended : instance[r] = "busy"}

\* create_provisioning looks the row up by its key, node-<run id>, only.
CreateProvisioning(r) ==
    /\ placeholder' = [placeholder EXCEPT ![r] = "provisioning"]
    /\ UNCHANGED instance

\* Mutant: the busy row is inserted beside the placeholder.
BugSetBusy(r) ==
    /\ ~Ambiguous(r)
    /\ instance' = [instance EXCEPT ![r] = "busy"]
    /\ UNCHANGED placeholder

SetBusy(r) ==
    /\ ~Ambiguous(r)
    /\ placeholder' = [placeholder EXCEPT ![r] = "none"]
    /\ instance' = [instance EXCEPT ![r] = "busy"]

\* A no-op when the run has no row.
SetDownByRun(r) ==
    /\ ~Ambiguous(r)
    /\ placeholder' = [placeholder EXCEPT ![r] = IF @ = "none" THEN @ ELSE "down"]
    /\ instance' = [instance EXCEPT ![r] = IF @ = "none" THEN @ ELSE "down"]
=============================================================================
