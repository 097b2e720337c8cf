---------------------------- MODULE StandaloneList ----------------------------
(***************************************************************************)
(* What compiled code does with a NumbaList: the overloads of              *)
(* standalone/list.py over the C list, which drop the status the C         *)
(* functions return, and the `for` loop that defaults/list_support.py      *)
(* lowers to                                                               *)
(*                                                                         *)
(*     for _li in range(len(lst)):                                         *)
(*         x = lst[_li]                                                    *)
(*         body                                                            *)
(*                                                                         *)
(* The statements of a loop body are the other operations, so they may     *)
(* happen between two steps of the loop.  A value read from the stack      *)
(* variable that numba_list_getitem did not set is Trash.                  *)
(***************************************************************************)
EXTENDS ListObject

VARIABLES
  out,      \* the value of the last expression read
  bound,    \* the end of the range of the loop, or NoLoop outside loops
  at,       \* the next _li of the loop
  seen,     \* the values the loop variable has had
  touched   \* history: the body overwrote or removed items since it began

loopVars == <<bound, at, seen>>
allVars == <<lp, mutable, status, base, out, bound, at, seen, touched>>

NoLoop == -1
Looping == bound # NoLoop

Note(b) == touched' = (Looping /\ (touched \/ b)) /\ UNCHANGED loopVars

-----------------------------------------------------------------------------

_normalize_first(index, length) ==    \* mutant: every negative index is the last item
  IF index < 0 THEN length - 1 ELSE index
_normalize_index(index, length) == IF index < 0 THEN index + length ELSE index

standalone_list_length_allocated == lp.allocated    \* mutant: numba_list_allocated
standalone_list_length == lp.size

(* standalone_list_getitem at the C index idx.                             *)
getitem(idx) == IF valid_index(idx, lp.size) THEN lp.items[idx] ELSE Trash

ListAppend(item) == AppendItem(item) /\ Note(FALSE) /\ UNCHANGED out

ListGet(index) ==
  /\ out' = getitem(_normalize_index(index, lp.size))
  /\ UNCHANGED <<vars, loopVars, touched>>

ListSet(index, item) ==
  SetItem(_normalize_index(index, lp.size), item) /\ Note(TRUE) /\ UNCHANGED out

pop_index_head(length) == 0    \* mutant: takes the first item
pop_index(length) == length - 1

(* lst.pop(): the value, then the delete, both at length - 1.              *)
ListPop ==
  LET idx == pop_index(lp.size) IN
  out' = getitem(idx) /\ DelItem(idx) /\ Note(TRUE)

ListPopAt(index) ==
  LET idx == _normalize_index(index, lp.size) IN
  out' = getitem(idx) /\ DelItem(idx) /\ Note(TRUE)

ListClear == Clear /\ Note(TRUE) /\ UNCHANGED out

-----------------------------------------------------------------------------
(* The loop.                                                               *)

LoopBegin ==
  /\ ~Looping
  /\ bound' = standalone_list_length /\ at' = 0 /\ seen' = <<>> /\ touched' = FALSE
  /\ UNCHANGED <<vars, out>>

LoopNext ==
  /\ Looping /\ at < bound
  /\ seen' = Append(seen, getitem(at))
  /\ at' = at + 1
  /\ UNCHANGED <<vars, out, bound, touched>>

LoopEnd ==
  /\ Looping /\ at >= bound
  /\ bound' = NoLoop /\ at' = 0 /\ seen' = <<>> /\ touched' = FALSE
  /\ UNCHANGED <<vars, out>>

-----------------------------------------------------------------------------

PyIndices == -(MaxAllocated + 1) .. MaxAllocated

StandaloneInit ==
  /\ Init
  /\ out = Trash /\ bound = NoLoop /\ at = 0 /\ seen = <<>> /\ touched = FALSE

StandaloneNext ==
  /\ Live
  /\ \/ \E item \in Items : ListAppend(item)
     \/ \E index \in PyIndices : ListGet(index)
     \/ \E index \in PyIndices, item \in Items : ListSet(index, item)
     \/ ListPop
     \/ \E index \in PyIndices : ListPopAt(index)
     \/ ListClear
     \/ LoopBegin
     \/ LoopNext
     \/ LoopEnd

StandaloneSpec == StandaloneInit /\ [][StandaloneNext]_allVars

-----------------------------------------------------------------------------

(* The position (from 1) Python means by an index, and whether it exists.  *)
Position(index) == IF index < 0 THEN Len(list) + index + 1 ELSE index + 1
InRange(index) == Position(index) \in DOMAIN list

(* Where Python raises IndexError, a NumbaList is left as it is and the    *)
(* value read is one nobody wrote; everywhere else a NumbaList does what   *)
(* Python's list does, pop(i) giving the item it removes.                  *)
PythonMeaning ==
  [][/\ \A i \in PyIndices : ListGet(i) =>
          out' = IF InRange(i) THEN list[Position(i)] ELSE Trash
     /\ \A i \in PyIndices, x \in Items : ListSet(i, x) =>
          list' = IF InRange(i) THEN [list EXCEPT ![Position(i)] = x] ELSE list
     /\ \A i \in PyIndices : ListPopAt(i) =>
          /\ list' = IF InRange(i) THEN RemoveAt(list, Position(i)) ELSE list
          /\ out' = IF InRange(i) THEN list[Position(i)] ELSE Trash]_allVars

(* lst.pop() undoes an append, and on an empty list changes nothing.       *)
PopTakesLast ==
  [][ListPop =>
       IF list = <<>> THEN list' = <<>> /\ out' = Trash
       ELSE list = Append(list', out')]_allVars

(* A loop whose body only appends (or reads) gets the items the list had   *)
(* when it began, in order, and stops: the items it appends are not among  *)
(* them, even when the list moved to another block meanwhile.              *)
LoopInOrder ==
  Looping /\ ~touched =>
    /\ bound <= lp.size
    /\ seen = SubSeq(list, 1, at)
=============================================================================
