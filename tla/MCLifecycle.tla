---------------------------- MODULE MCLifecycle ----------------------------
(* Two state containers, an argument and one user name; the symmetry of the memory. *)
EXTENDS Lifecycle, TLC

CONSTANTS b1, b2, b3, b4, b5

MCBlocks == {b1, b2, b3, b4, b5}
MCStateVars == <<"s1", "s2">>
MCConstants == <<"c">>
Interchangeable == Permutations(MCBlocks)
=============================================================================
