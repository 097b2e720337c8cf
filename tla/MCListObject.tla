----------------------------- MODULE MCListObject -----------------------------
(***************************************************************************)
(* Blocks of up to 8 cells: appends grow the list through blocks of 4 and  *)
(* 8 cells, deletes shrink it through 7, 6, 5 and 4, and an append to 8    *)
(* cells asks for more than the limit.                                     *)
(***************************************************************************)
EXTENDS ListObject, TLC

CONSTANTS a, b

MCItems == {a, b}
MCSteps == {-2, -1, 1, 2, 3}
Interchangeable == Permutations(MCItems)
=============================================================================
