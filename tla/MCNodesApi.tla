----------------------------- MODULE MCNodesApi -----------------------------
(***************************************************************************)
(* An instance of NodesApi for TLC.                                        *)
(***************************************************************************)
EXTENDS NodesApi, TLC

MCSymmetry == Permutations(Runs) \union Permutations(Clients)
=============================================================================
