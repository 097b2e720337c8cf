------------------------------ MODULE DictOrder -------------------------------
(***************************************************************************)
(* DictObject implements OrderedMap: the items of the map are the live     *)
(* entries of the table, in entry order (dictobject.c:98-107).             *)
(***************************************************************************)
EXTENDS DictObject, Sequences

items ==
  [n \in 1 .. Cardinality(LivePositions(keys)) |->
     LET e == keys.entries[NthLive(keys, n - 1)] IN [key |-> e.key, val |-> e.val]]

Map == INSTANCE OrderedMap

(* Whatever the table goes through (dummies, rebuilds, stale entries that  *)
(* popitem leaves behind), callers see an insertion-ordered map; an insert *)
(* that returns ERR_NO_MEMORY has changed none of it.                      *)
ImplementsOrderedMap == Map!MapSpec
=============================================================================
