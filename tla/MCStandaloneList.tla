--------------------------- MODULE MCStandaloneList ---------------------------
(***************************************************************************)
(* Blocks of up to 5 cells: the realloc of a shrinking list is reached     *)
(* inside a loop, and an append to a list of four that does not fit.       *)
(***************************************************************************)
EXTENDS StandaloneList, TLC

CONSTANTS a, b

MCItems == {a, b}
Interchangeable == Permutations(MCItems)
=============================================================================
