--------------------------- MODULE MCStandaloneDict ---------------------------
(***************************************************************************)
(* Integer keys that hash to themselves; two blocks, so that the block of  *)
(* a table can be handed out again two rebuilds later.                     *)
(***************************************************************************)
EXTENDS StandaloneDict

KeysWithMinusOne == {-1, 1}

MCHash == [k \in Keys |-> prepare_int_key_for_lookup(k)]
=============================================================================
