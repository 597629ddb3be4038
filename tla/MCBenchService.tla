---------------------------- MODULE MCBenchService ----------------------------
(***************************************************************************)
(* Instances of BenchService for TLC.                                      *)
(***************************************************************************)
EXTENDS BenchService, TLC

CONSTANTS r1, r2, r3, p1, p2

\* Two runs of one entry, one of another.
MCRuns == {r1, r2, r3}
MCPairs == {p1, p2}
MCPairOf == [r \in MCRuns |-> IF r = r3 THEN p2 ELSE p1]

MCSymmetry == Permutations(Requests) \union Permutations(Submissions)
===============================================================================
