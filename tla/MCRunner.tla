------------------------------- MODULE MCRunner -------------------------------
(***************************************************************************)
(* An instance of Runner for TLC: the first and the last of the five       *)
(* phases of runner.sh, and limits so scaled down that the logs of the     *)
(* steps fall on both sides of them.                                       *)
(***************************************************************************)
EXTENDS Runner

MCWork == <<"downloading_model", "benchmarking">>

\* At the limit, one byte above it, and far above it.
MCLogSize == <<10, 11, 17>>
===============================================================================
