------------------------------ MODULE GpuCloud ------------------------------
(***************************************************************************)
(* What `terraform` and Scaleway do for one run: the workspace directory   *)
(* on the orchestrator's disk, the VM its remote state object records, the *)
(* VMs no state object records, and the benchmark runner inside each VM.   *)
(* The outcomes of a terraform command are choices of the environment;     *)
(* what the orchestrator does with them is in module Orchestrator.         *)
(***************************************************************************)
EXTENDS RunIds

CONSTANT Vms   \* names for the VMs one run may hold at a time

VARIABLES
    workspace,  \* _workspace(run) exists
    tracked,    \* the VM that gpu/<run>.tfstate records, as a set
    stray,      \* the VMs of this run that no state object records
    runner      \* runner[r][v]: what the runner of VM v may still send

cloudVars == <<workspace, tracked, stray, runner>>

\* "unbooted": no such VM, or a server that never started; "work": may send
\* /complete or /fail; "sent": waits for the answer to its /complete, unless it
\* is killed or loses its connection; "trap": must report a failure; "exit": the
\* unit's ExecStopPost may report once more; "off": nothing left to send.
RunnerStates == {"unbooted", "work", "sent", "trap", "exit", "off"}

GpuCloudTypeOK ==
    /\ workspace \in [Runs -> BOOLEAN]
    /\ tracked \in [Runs -> SUBSET Vms]
    /\ stray \in [Runs -> SUBSET Vms]
    /\ runner \in [Runs -> [Vms -> RunnerStates]]

GpuCloudInit ==
    /\ workspace = [r \in Runs |-> FALSE]
    /\ tracked = [r \in Runs |-> {}]
    /\ stray = [r \in Runs |-> {}]
    /\ runner = [r \in Runs |-> [v \in Vms |-> "unbooted"]]

VmsOf(r) == tracked[r] \union stray[r]

\* The run's recorded VM has started.
Up(r) == \E v \in tracked[r] : runner[r][v] # "unbooted"

-----------------------------------------------------------------------------
\* provision_node.

StageWorkspace(r) ==
    /\ workspace' = [workspace EXCEPT ![r] = TRUE]
    /\ UNCHANGED <<tracked, stray, runner>>

\* The recorded VM, or a new one under a name no VM or request still uses.
VmFor(r, inUse) ==
    IF tracked[r] # {} THEN tracked[r] ELSE Vms \ (stray[r] \union inUse)

Record(r, v) ==
    /\ tracked' = [tracked EXCEPT ![r] = {v}]
    /\ UNCHANGED <<workspace, stray>>

\* A server that is not running: Scaleway made it, then could not start it.
CreateStopped(r, inUse) ==
    /\ tracked[r] = {}
    /\ \E v \in VmFor(r, inUse) : Record(r, v)
    /\ UNCHANGED runner

\* A VM that starts boots its runner; apply leaves one that is up alone.
Start(r, inUse) ==
    \E v \in VmFor(r, inUse) :
        /\ Record(r, v)
        /\ runner' = [runner EXCEPT ![r][v] = IF @ = "unbooted" THEN "work" ELSE @]

\* `terraform output` runs in the workspace and reads the state object.
OutputReadable(r) == workspace[r] /\ Up(r)

-----------------------------------------------------------------------------
\* destroy_node, in its two steps.

\* Mutant: the state object is deleted first, and the destroy finds nothing.
BugDestroyTracked(r) ==
    /\ workspace[r]
    /\ stray' = [stray EXCEPT ![r] = @ \union tracked[r]]
    /\ tracked' = [tracked EXCEPT ![r] = {}]
    /\ UNCHANGED <<workspace, runner>>

\* `terraform destroy`: removes what the state object records, and nothing else.
DestroyTracked(r) ==
    /\ workspace[r]
    /\ runner' = [runner EXCEPT ![r] =
                    [v \in Vms |-> IF v \in tracked[r] THEN "unbooted" ELSE @[v]]]
    /\ tracked' = [tracked EXCEPT ![r] = {}]
    /\ UNCHANGED <<workspace, stray>>

\* _delete_remote_state (best effort: gone says whether it worked), then
\* rmtree.  An apply that finished since the destroy began has recorded its VM
\* in that object: the VM is left without one.
ForgetState(r, gone) ==
    /\ workspace' = [workspace EXCEPT ![r] = FALSE]
    /\ stray' = [stray EXCEPT ![r] = IF gone THEN @ \union tracked[r] ELSE @]
    /\ tracked' = [tracked EXCEPT ![r] = IF gone THEN {} ELSE @]
    /\ UNCHANGED runner

-----------------------------------------------------------------------------
\* The orchestrator's process dies, and every terraform child with it, and the
\* connections to the runners.  made[r]: the VM that an apply at work for r had
\* created and not recorded yet; kept: the container, and so its disk, is kept.
CloudAfterCrash(made, kept) ==
    /\ workspace' = [r \in Runs |-> kept /\ workspace[r]]
    /\ stray' = [r \in Runs |-> stray[r] \union made[r]]
    /\ runner' = [r \in Runs |-> [v \in Vms |->
                    IF v \in made[r] THEN "work"
                    ELSE IF runner[r][v] = "sent" THEN "trap"
                    ELSE runner[r][v]]]
    /\ UNCHANGED tracked
=============================================================================
