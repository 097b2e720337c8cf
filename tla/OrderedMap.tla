------------------------------ MODULE OrderedMap ------------------------------
(***************************************************************************)
(* What the dictionary promises its callers: a finite map that remembers   *)
(* the order in which its keys were first inserted.  Replacing a value     *)
(* keeps the place of its key, popitem takes the last item, and an insert  *)
(* that finds no memory changes nothing.                                   *)
(***************************************************************************)
EXTENDS Integers, Sequences

CONSTANTS Keys, Vals

VARIABLES items,  \* the items, oldest first
          status  \* what the last call returned

mapVars == <<items, status>>

Item == [key : Keys, val : Vals]

PositionsOf(k) == {i \in 1 .. Len(items) : items[i].key = k}

MapInit == items = <<>> /\ status = "OK"

Put(k, v) ==
  \/ /\ PositionsOf(k) = {}
     /\ items' = Append(items, [key |-> k, val |-> v])
     /\ status' = "OK"
  \/ \E i \in PositionsOf(k) :
       /\ items' = [items EXCEPT ![i].val = v]
       /\ status' = "OK_REPLACED"

PutNoMemory(k) ==
  /\ PositionsOf(k) = {}
  /\ status' = "ERR_NO_MEMORY"
  /\ UNCHANGED items

Remove(k) ==
  /\ \E i \in PositionsOf(k) :
       items' = SubSeq(items, 1, i - 1) \o SubSeq(items, i + 1, Len(items))
  /\ status' = "OK"

PopLast ==
  /\ items # <<>>
  /\ items' = SubSeq(items, 1, Len(items) - 1)
  /\ status' = "OK"

PopNothing ==
  /\ items = <<>>
  /\ status' = "ERR_DICT_EMPTY"
  /\ UNCHANGED items

Empty == items' = <<>> /\ status' = "OK"

MapNext ==
  \/ \E k \in Keys, v \in Vals : Put(k, v)
  \/ \E k \in Keys : PutNoMemory(k)
  \/ \E k \in Keys : Remove(k)
  \/ PopLast
  \/ PopNothing
  \/ Empty

MapSpec == MapInit /\ [][MapNext]_mapVars
=============================================================================
