----------------------------- MODULE MCDictObject -----------------------------
(***************************************************************************)
(* Four keys that meet in slot 1 of a table of 8, enough for the table to  *)
(* grow to 16 slots and to shrink back.  Three have one hash and are       *)
(* interchangeable.  The fourth does not collide in a table of 16, and the *)
(* high bits of its hash perturb its probe path.                           *)
(***************************************************************************)
EXTENDS DictOrder, TLC

CONSTANTS k1, k2, k3, k41

MCKeys == {k1, k2, k3, k41}
MCHash == [k \in MCKeys |-> IF k = k41 THEN 41 ELSE 1]
Interchangeable == Permutations({k1, k2, k3})
=============================================================================
