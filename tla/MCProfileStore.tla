--------------------------- MODULE MCProfileStore ---------------------------
(***************************************************************************)
(* Two processes, two names and two ordinary values: enough for one        *)
(* process to replace, remove or activate what the other has read.  A      *)
(* third value is written with surrogate escapes.                          *)
(***************************************************************************)
EXTENDS ProfileStore, TLC

StoreSymmetry ==
  Permutations(Processes) \union Permutations(Names) \union Permutations(Values \ Surrogates)
=============================================================================
