-------------------------------- MODULE RunIds --------------------------------
(***************************************************************************)
(* The identities every table and every task is keyed by.                  *)
(***************************************************************************)
EXTENDS FiniteSets

CONSTANT Runs   \* the runs submitted in the lifetime of the database

ASSUME RunsAssumption == IsFiniteSet(Runs) /\ Runs # {}
===============================================================================
