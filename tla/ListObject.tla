------------------------------ MODULE ListObject ------------------------------
(***************************************************************************)
(* The growable array behind NumbaList (numba_rt/cext/listobject.c): one   *)
(* list, the operations of the C interface that change it, and the realloc *)
(* policy.  Cells hold items; what malloc and realloc hand over without    *)
(* writing it is Trash.  lp.items of a NULL pointer is the empty function. *)
(***************************************************************************)
EXTENDS Integers, SequencesExt, FiniteSets

CONSTANTS
  Items,           \* the values a program stores
  Trash,           \* a cell nobody wrote
  SizeModulus,     \* 2^w for the width w of size_t
  MaxAllocated,    \* PY_SSIZE_T_MAX / item_size
  InitAllocated,   \* preallocations given to numba_list_new
  Steps            \* slice steps a program uses

ASSUME ItemsAssumption == Trash \notin Items
ASSUME WidthAssumption ==
  MaxAllocated \in Nat /\ SizeModulus \in Nat /\ 2 * MaxAllocated < SizeModulus
ASSUME InitAssumption == InitAllocated \subseteq 0 .. MaxAllocated
ASSUME StepsAssumption == Steps \subseteq Int \ {0}

VARIABLES
  lp,       \* NB_List: size, allocated, items, whether items is NULL
  mutable,  \* lp->is_mutable
  status,   \* what the last call returned, or "abort" (an assert failed)
            \* or "undefined" (a memmove of a negative length)
  base      \* history: the size the block was last reallocated for

vars == <<lp, mutable, status, base>>

Cell == Items \cup {Trash}

(* The list a program sees. *)
contents(l) == [n \in 1 .. l.size |-> l.items[n - 1]]
list == contents(lp)

-----------------------------------------------------------------------------

(* (size_t) i, for an i that fits. *)
toUnsigned(i) == IF i < 0 THEN i + SizeModulus ELSE i

valid_index(i, limit) == toUnsigned(i) < toUnsigned(limit)

numba_list_new_no_items(allocated) ==    \* mutant: lp->items is not set
  [size |-> 0, allocated |-> allocated,
   items |-> [i \in 0 .. allocated - 1 |-> Trash], null |-> TRUE]
numba_list_new(allocated) ==
  [size |-> 0, allocated |-> allocated,
   items |-> [i \in 0 .. allocated - 1 |-> Trash], null |-> allocated = 0]

memmove(buf, dst, src, n) ==
  [i \in DOMAIN buf |-> IF i \in dst .. dst + n - 1 THEN buf[i - dst + src] ELSE buf[i]]

-----------------------------------------------------------------------------
(* numba_list_resize.                                                      *)

new_allocated_exact(newsize) == newsize    \* mutant: no room to grow
new_allocated(newsize) ==
  IF newsize = 0 THEN 0
  ELSE newsize + newsize \div 8 + (IF newsize < 9 THEN 3 ELSE 6)

fits_exactly(l, newsize) ==    \* mutant: every shrink goes to realloc
  l.allocated >= newsize /\ newsize >= l.allocated
fits(l, newsize) == l.allocated >= newsize /\ newsize >= l.allocated \div 2

(* realloc keeps the cells both blocks have; realloc(p, 0) may return NULL *)
(* or not.                                                                 *)
reallocs(l, newsize) ==
  {[size |-> newsize, allocated |-> new_allocated(newsize),
    items |-> [i \in 0 .. new_allocated(newsize) - 1 |->
                 IF i < l.allocated THEN l.items[i] ELSE Trash],
    null |-> null] : null \in IF newsize = 0 THEN BOOLEAN ELSE {FALSE}}

(* The pairs (status, list) numba_list_resize may end in.  A realloc to no *)
(* more bytes than the block has does not fail (comment, lines 333-337).   *)
resize(l, newsize) ==
  IF ~mutable THEN {<<"LIST_ERR_IMMUTABLE", l>>}
  ELSE IF fits(l, newsize)
    THEN {<<IF l.null /\ newsize # 0 THEN "abort" ELSE "LIST_OK", [l EXCEPT !.size = newsize]>>}
  ELSE (IF new_allocated(newsize) <= MaxAllocated
          THEN {"LIST_OK"} \X reallocs(l, newsize) ELSE {})
       \cup (IF new_allocated(newsize) > l.allocated
               THEN {<<"LIST_ERR_NO_MEMORY", l>>} ELSE {})

(* A call ends with status s and list l.                                   *)
Return(s, l) == status' = s /\ lp' = l /\ UNCHANGED <<mutable, base>>

(* A call that resized ends with r and list l.                             *)
ReturnResized(r, l) ==
  /\ status' = r[1]
  /\ lp' = l
  /\ base' = IF r[1] = "LIST_OK" /\ ~fits(lp, l.size) THEN l.size ELSE base
  /\ UNCHANGED mutable

(* A call that checks is_mutable and then an index. *)
Refused(index) ==
  IF ~mutable THEN "LIST_ERR_IMMUTABLE"
  ELSE IF ~valid_index(index, lp.size) THEN "LIST_ERR_INDEX" ELSE "no"

-----------------------------------------------------------------------------

written_late(l, item) ==    \* mutant: one cell past the new last one
  [l EXCEPT !.items = [i \in DOMAIN @ |-> IF i = l.size THEN item ELSE @[i]]]
written(l, item) == [l EXCEPT !.items[l.size - 1] = item]

AppendItem(item) ==
  \E r \in resize(lp, lp.size + 1) :
    ReturnResized(r, IF r[1] = "LIST_OK" THEN written(r[2], item) ELSE r[2])

SetItem(index, item) ==
  IF Refused(index) # "no"
    THEN Return(Refused(index), lp)
    ELSE Return("LIST_OK", [lp EXCEPT !.items[index] = item])

shifted_short(l, index) ==    \* mutant: the last item stays where it is
  memmove(l.items, index, index + 1, l.size - 2 - index)
shifted(l, index) == memmove(l.items, index, index + 1, l.size - 1 - index)

(* The items move before the list is resized, and stay moved if that fails. *)
DelItem(index) ==
  IF Refused(index) # "no"
    THEN Return(Refused(index), lp)
    ELSE \E r \in resize([lp EXCEPT !.items = shifted(lp, index)], lp.size - 1) :
           ReturnResized(r, r[2])

Clear == \E r \in resize(lp, 0) : ReturnResized(r, r[2])

SetMutable(b) == mutable' = b /\ UNCHANGED <<lp, status, base>>

-----------------------------------------------------------------------------
(* numba_list_delete_slice.                                                *)

slicelength(start, stop, step) ==
  IF step > 0
    THEN IF start < stop THEN (stop - start - 1) \div step + 1 ELSE 0
    ELSE IF stop < start THEN (start - stop - 1) \div (-step) + 1 ELSE 0

(* The slice with a positive step. *)
forward(start, stop, step) ==
  IF step > 0
    THEN [start |-> start, stop |-> stop, step |-> step]
    ELSE [start |-> start + step * (slicelength(start, stop, step) - 1),
          stop |-> start + 1, step |-> -step]

(* Turn i of the loop (there are as many as deleted items) moves the items *)
(* between the i-th deleted one and the next i + 1 places down.            *)
packed(l, s, n) ==
  LET cur(i) == s.start + i * s.step
      lim(i) == IF cur(i) + s.step >= l.size THEN l.size - cur(i) - 1 ELSE s.step - 1
      after[i \in 0 .. n] ==
        IF i = 0 THEN l.items
        ELSE memmove(after[i - 1], cur(i - 1) - (i - 1), cur(i - 1) + 1, lim(i - 1))
  IN  after[n]

without_slice_no_tail(l, s, n) ==    \* mutant: the tail is not moved
  IF s.step = 1 THEN memmove(l.items, s.start, s.stop, l.size - s.stop)
  ELSE packed(l, s, n)
without_slice(l, s, n) ==
  LET cur == s.start + n * s.step IN
  IF s.step = 1 THEN memmove(l.items, s.start, s.stop, l.size - s.stop)
  ELSE IF cur < l.size THEN memmove(packed(l, s, n), cur - n, cur, l.size - cur)
  ELSE packed(l, s, n)

DeleteSlice(start, stop, step) ==
  LET n == slicelength(start, stop, step)
      s == forward(start, stop, step)
  IN
  IF ~mutable THEN Return("LIST_ERR_IMMUTABLE", lp)
  ELSE IF n <= 0 THEN Return("LIST_OK", lp)
  ELSE IF lp.size < s.stop THEN Return("undefined", lp)    \* memmove by size - stop < 0
  ELSE \E r \in resize([lp EXCEPT !.items = without_slice(lp, s, n)], lp.size - n) :
         ReturnResized(r, r[2])

(* Slices as slice.indices() clips them. *)
Clipped(start, stop, step) ==
  /\ step > 0 => start >= 0 /\ stop <= lp.size
  /\ step < 0 => start <= lp.size - 1 /\ stop >= -1

-----------------------------------------------------------------------------

TypeOK ==
  /\ lp \in [size : 0 .. MaxAllocated, allocated : 0 .. MaxAllocated,
             items : [0 .. lp.allocated - 1 -> Cell], null : BOOLEAN]
  /\ mutable \in BOOLEAN
  /\ status \in {"LIST_OK", "LIST_ERR_NO_MEMORY", "LIST_ERR_INDEX",
                 "LIST_ERR_IMMUTABLE", "abort", "undefined"}
  /\ base \in Nat

Indices == -1 .. MaxAllocated

Init ==
  /\ \E n \in InitAllocated : lp = numba_list_new(n)
  /\ mutable = TRUE
  /\ status = "LIST_OK"
  /\ base = 0

Live == status \notin {"abort", "undefined"}

Mutate ==
  \/ \E item \in Items : AppendItem(item)
  \/ \E index \in Indices, item \in Items : SetItem(index, item)
  \/ \E index \in Indices : DelItem(index)
  \/ Clear

Next ==
  /\ Live
  /\ \/ Mutate
     \/ \E start, stop \in Indices, step \in Steps :
          Clipped(start, stop, step) /\ DeleteSlice(start, stop, step)
     \/ \E b \in BOOLEAN : SetMutable(b)

Spec == Init /\ [][Next]_vars

-----------------------------------------------------------------------------

(* listobject.h:38: "0 <= size <= allocated", "item == NULL implies        *)
(* size == allocated == 0".                                                *)
HeaderInvariants ==
  /\ 0 <= lp.size /\ lp.size <= lp.allocated
  /\ lp.null => lp.size = 0 /\ lp.allocated = 0

(* The assert of numba_list_resize never fails: a NULL block is never      *)
(* taken for room.                                                         *)
AssertHolds == status # "abort"

(* No call makes a cell part of the list that was never written.           *)
LiveCellsWritten == \A i \in 0 .. lp.size - 1 : lp.items[i] # Trash

(* The comments at lines 418 and 516: a call that decreases the size does  *)
(* not run out of memory.  A call that does was an append to a full block, *)
(* and it leaves the list as it was.                                       *)
OnlyGrowthRunsOut ==
  [][status' = "LIST_ERR_NO_MEMORY" /\ status # "LIST_ERR_NO_MEMORY"
       => lp' = lp /\ lp.size = lp.allocated]_vars

(* listobject.h:31, O(1) amortized appends and deletes: a realloc for a    *)
(* size other than the last one comes after the list gained or lost at     *)
(* least an eighth of its items.                                           *)
Distance(m, n) == IF m < n THEN n - m ELSE m - n
ReallocIsPaidFor ==
  [][base' # base => 8 * Distance(base, base') >= base]_vars

(* Each call leaves the list Python's list has after the same call, and    *)
(* refuses exactly the indices outside it.                                 *)
CallsAreExact ==
  [][/\ \A item \in Items : AppendItem(item) =>
          list' = IF status' = "LIST_OK" THEN Append(list, item) ELSE list
     /\ \A index \in Indices, item \in Items : SetItem(index, item) =>
          list' = IF mutable /\ index + 1 \in DOMAIN list
                    THEN [list EXCEPT ![index + 1] = item] ELSE list
     /\ \A index \in Indices : DelItem(index) =>
          list' = IF mutable /\ index + 1 \in DOMAIN list
                    THEN RemoveAt(list, index + 1) ELSE list]_vars

(* The items of s but those at the positions in gone.                      *)
Without(s, gone) ==
  LET kept == DOMAIN s \ gone
      nth(n) == CHOOSE k \in kept : Cardinality({j \in kept : j < k}) = n - 1
  IN  [n \in 1 .. Cardinality(kept) |-> s[nth(n)]]

InSlice(p, start, stop, step) ==
  IF step > 0
    THEN start <= p /\ p < stop /\ (p - start) % step = 0
    ELSE stop < p /\ p <= start /\ (start - p) % (-step) = 0

(* numba_list_delete_slice removes the positions start, start + step, ...  *)
(* short of stop, and no others, whichever way the step goes.              *)
SliceIsExact ==
  \A start, stop \in Indices, step \in Steps :
    LET n == slicelength(start, stop, step)
        after == without_slice(lp, forward(start, stop, step), n)
        sliced == {p \in DOMAIN list : InSlice(p - 1, start, stop, step)}
    IN  Clipped(start, stop, step) =>
          /\ Cardinality(sliced) = n
          /\ n > 0 => [m \in 1 .. lp.size - n |-> after[m - 1]] = Without(list, sliced)
=============================================================================
