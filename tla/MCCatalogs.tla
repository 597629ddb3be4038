----------------------------- MODULE MCCatalogs -----------------------------
(***************************************************************************)
(* An instance of Catalogs for TLC: the second commit adds an entry, the   *)
(* third takes the first entry away.                                       *)
(***************************************************************************)
EXTENDS Catalogs

CONSTANTS k1, k2
MCKeys == {k1, k2}
MCEntries == <<{k1}, {k1, k2}, {k2}>>
=============================================================================
