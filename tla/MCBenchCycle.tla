---------------------------- MODULE MCBenchCycle ----------------------------
(***************************************************************************)
(* Instances of BenchCycle for TLC: one cycle has an entry to run.          *)
(***************************************************************************)
EXTENDS BenchCycle, TLC

CONSTANTS c1, c2, r1

MCCycles == {c1, c2}
MCRuns == {r1}
MCCycleOf == [r \in MCRuns |-> c1]

\* After an overlap of terraform commands no fault on top of it.
OneMishap == overlapped => faults = 0
===============================================================================
