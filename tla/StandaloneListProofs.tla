------------------------- MODULE StandaloneListProofs -------------------------
(***************************************************************************)
(* Every program over a NumbaList, whatever items it stores and however    *)
(* often memory runs out, keeps the invariants of listobject.h, trips no   *)
(* assert, reads no unwritten cell at an index the list has, pays for      *)
(* every realloc, and sees Python's list.                                  *)
(***************************************************************************)
EXTENDS StandaloneList, NatRecursion, FiniteSetTheorems, SequenceTheorems, TLAPS

(* A list the C functions accept, and the cells of it that are in use.     *)
WellFormed(l) ==
  /\ l \in [size : Nat, allocated : 0 .. MaxAllocated,
            items : [0 .. l.allocated - 1 -> Cell], null : BOOLEAN]
  /\ l.size <= l.allocated
  /\ l.null => l.allocated = 0

AllWritten(l) == \A i \in 0 .. l.size - 1 : l.items[i] \in Items

Errors == {"LIST_ERR_NO_MEMORY", "LIST_ERR_INDEX", "LIST_ERR_IMMUTABLE"}

ListInv ==
  /\ WellFormed(lp)
  /\ AllWritten(lp)
  /\ mutable \in BOOLEAN
  /\ status \in Errors \cup {"LIST_OK"}
  /\ base \in Nat
  /\ base = 0 \/ lp.allocated = new_allocated(base)

(* The list a program sees is a sequence of items, as long as size says.   *)
LEMMA Contents ==
  ASSUME NEW l, WellFormed(l), AllWritten(l)
  PROVE  /\ contents(l) \in Seq(Items) /\ Len(contents(l)) = l.size
         /\ l.size \in Nat /\ DOMAIN contents(l) = 1 .. l.size
         /\ \A n \in 1 .. l.size : contents(l)[n] = l.items[n - 1]
<1>1. l.size \in Nat
  BY DEF WellFormed
<1>2. \A n \in 1 .. l.size : n - 1 \in 0 .. l.size - 1
  BY <1>1
<1>3. contents(l) \in [1 .. l.size -> Items]
  BY <1>2 DEF contents, AllWritten
<1>4. contents(l) \in Seq(Items)
  BY <1>1, <1>3
<1>5. DOMAIN contents(l) = 1 .. l.size
  BY DEF contents
<1>6. Len(contents(l)) = l.size
  BY <1>1, <1>4, <1>5
<1>7. \A n \in 1 .. l.size : contents(l)[n] = l.items[n - 1]
  BY DEF contents
<1> QED
  BY <1>1, <1>4, <1>5, <1>6, <1>7

(* What the community module's RemoveAt does to each position.             *)
LEMMA RemoveAtContents ==
  ASSUME NEW S, NEW s \in Seq(S), NEW p \in 1 .. Len(s)
  PROVE  /\ RemoveAt(s, p) \in Seq(S) /\ Len(RemoveAt(s, p)) = Len(s) - 1
         /\ \A n \in 1 .. Len(s) - 1 : RemoveAt(s, p)[n] = IF n < p THEN s[n] ELSE s[n + 1]
<1> DEFINE x == SubSeq(s, 1, p - 1)  y == SubSeq(s, p + 1, Len(s))
<1>1. p \in Nat /\ Len(s) \in Nat /\ 1 <= p /\ p <= Len(s)
  OBVIOUS
<1>2. /\ x \in Seq(S) /\ Len(x) = p - 1 /\ \A n \in 1 .. p - 1 : x[n] = s[n]
  BY <1>1, SubSeqProperties
<1>3. /\ y \in Seq(S) /\ Len(y) = Len(s) - p
      /\ \A n \in 1 .. Len(s) - p : y[n] = s[p + n]
  BY <1>1, SubSeqProperties
<1> HIDE DEF x, y
<1>4. /\ x \o y \in Seq(S) /\ Len(x \o y) = Len(x) + Len(y)
      /\ \A i \in 1 .. Len(x) + Len(y) :
           (x \o y)[i] = IF i <= Len(x) THEN x[i] ELSE y[i - Len(x)]
  BY <1>2, <1>3, ConcatProperties
<1>5. RemoveAt(s, p) = x \o y
  BY DEF RemoveAt, x, y
<1>6. ASSUME NEW n \in 1 .. Len(s) - 1
      PROVE  (x \o y)[n] = IF n < p THEN s[n] ELSE s[n + 1]
  <2>0. n \in Nat /\ n \in 1 .. Len(x) + Len(y)
    BY <1>1, <1>2, <1>3
  <2>1. CASE n < p
    <3>1. n <= Len(x) /\ n \in 1 .. p - 1
      BY <1>1, <1>2, <2>0, <2>1
    <3> QED
      BY <1>2, <1>4, <2>0, <2>1, <3>1
  <2>2. CASE n >= p
    <3>1. ~(n <= Len(x)) /\ n - Len(x) = n - p + 1 /\ n - p + 1 \in 1 .. Len(s) - p
      BY <1>1, <1>2, <1>3, <2>0, <2>2
    <3>2. (x \o y)[n] = y[n - p + 1] /\ y[n - p + 1] = s[p + (n - p + 1)]
      BY <1>3, <1>4, <2>0, <3>1
    <3>3. p + (n - p + 1) = n + 1
      BY <1>1
    <3> QED
      BY <1>1, <2>0, <2>2, <3>2, <3>3
  <2> QED
    BY <1>1, <2>0, <2>1, <2>2
<1>7. Len(x) + Len(y) = Len(s) - 1
  BY <1>1, <1>2, <1>3
<1> QED
  BY <1>4, <1>5, <1>6, <1>7

(* The size a realloc asks for is a number, at least the size of the list. *)
LEMMA NewAllocatedBounds ==
  ASSUME NEW n \in Nat
  PROVE  new_allocated(n) \in Nat /\ n <= new_allocated(n)
BY DEF new_allocated

(* A realloc for a smaller list never asks for a larger block, so the      *)
(* assumption about realloc in the comment at line 333 is all that a       *)
(* delete needs.                                                           *)
LEMMA ShrinkNeverGrows ==
  ASSUME NEW l, l.allocated \in Nat, NEW n \in Nat, n <= l.allocated, ~fits(l, n)
  PROVE  new_allocated(n) <= l.allocated
BY DEF fits, new_allocated

(* A realloc for a size other than that of the last one happens only when  *)
(* the list is an eighth of it away.                                       *)
LEMMA FarFromBase ==
  ASSUME NEW l, NEW m \in Nat, NEW n \in Nat,
         m = 0 \/ l.allocated = new_allocated(m), ~fits(l, n), n # m, l.allocated \in Nat
  PROVE  8 * Distance(m, n) >= m
<1> DEFINE a == l.allocated
<1>1. CASE m = 0
  BY <1>1 DEF Distance
<1>2. CASE m > 0
  <2>1. a \in Nat /\ a = m + m \div 8 + (IF m < 9 THEN 3 ELSE 6)
    BY <1>2 DEF new_allocated
  <2>2. n > a \/ n < a \div 2
    BY <2>1 DEF fits
  <2> HIDE DEF a
  <2>3. CASE n > a
    BY <2>1, <2>3 DEF Distance
  <2>4. CASE n < a \div 2
    <3>1. 2 * n + 2 <= a
      BY <2>1, <2>4
    <3>2. 8 * a <= 9 * m + 48 /\ (m < 9 => 8 * a <= 9 * m + 24)
      BY <2>1
    <3>3. n < m
      <4>1. CASE m < 8
        BY <2>1, <3>1, <4>1
      <4>2. CASE m >= 8
        BY <2>1, <3>1, <4>2
      <4> QED
        BY <2>1, <4>1, <4>2
    <3>4. 16 * n + 16 <= 9 * m + 48 /\ (m < 9 => 16 * n + 16 <= 9 * m + 24)
      BY <3>1, <3>2, <2>1
    <3>5. 8 * (m - n) >= m
      <4>1. CASE m < 9
        BY <3>4, <3>3, <4>1
      <4>2. CASE m >= 9
        BY <3>4, <4>2
      <4> QED
        BY <4>1, <4>2
    <3> QED
      BY <3>3, <3>5 DEF Distance
  <2> QED
    BY <2>2, <2>3, <2>4
<1> QED
  BY <1>1, <1>2

(* The number of cells is small enough for an index and a size to be told  *)
(* apart after the cast to size_t.                                         *)
LEMMA ValidIndex ==
  ASSUME NEW l, WellFormed(l), NEW i \in -(MaxAllocated + 1) .. MaxAllocated
  PROVE  valid_index(i, l.size) <=> i \in 0 .. l.size - 1
<1>1. l.size \in Nat /\ l.size <= MaxAllocated
  BY WidthAssumption DEF WellFormed
<1> QED
  BY <1>1, WidthAssumption DEF valid_index, toUnsigned

(* numba_list_resize either fails and leaves the list alone, which it can  *)
(* only do to a list that must grow, or gives a list of the new size that  *)
(* keeps the cells both have.                                              *)
LEMMA ResizeOutcome ==
  ASSUME WellFormed(lp), mutable \in BOOLEAN,
         NEW l, WellFormed(l), NEW n \in Nat, NEW r \in resize(l, n)
  PROVE  \/ /\ r[1] \in Errors \ {"LIST_ERR_INDEX"} /\ r[2] = l
            /\ r[1] = "LIST_ERR_IMMUTABLE" <=> ~mutable
            /\ r[1] = "LIST_ERR_NO_MEMORY" => n > l.allocated
         \/ /\ r[1] = "LIST_OK" /\ mutable
            /\ WellFormed(r[2]) /\ r[2].size = n
            /\ r[2].allocated = IF fits(l, n) THEN l.allocated ELSE new_allocated(n)
            /\ \A i \in 0 .. l.allocated - 1 : i < n => r[2].items[i] = l.items[i]
<1>1. CASE ~mutable
  BY <1>1 DEF resize, Errors
<1>2. CASE mutable /\ fits(l, n)
  <2>1. r = <<IF l.null /\ n # 0 THEN "abort" ELSE "LIST_OK", [l EXCEPT !.size = n]>>
    BY <1>2 DEF resize
  <2>2. n <= l.allocated /\ l.allocated \in Nat
    BY <1>2, WidthAssumption DEF fits, WellFormed
  <2>3. r[1] = "LIST_OK" /\ r[2] = [l EXCEPT !.size = n]
    BY <2>1, <2>2 DEF WellFormed
  <2>4. WellFormed(r[2]) /\ r[2].size = n /\ r[2].allocated = l.allocated
        /\ r[2].items = l.items
    BY <2>2, <2>3 DEF WellFormed
  <2> QED
    BY <1>2, <2>3, <2>4
<1>3. CASE mutable /\ ~fits(l, n)
  <2>1. CASE r = <<"LIST_ERR_NO_MEMORY", l>> /\ new_allocated(n) > l.allocated
    <3>1. l.allocated \in Nat
      BY WidthAssumption DEF WellFormed
    <3>2. n > l.allocated
      BY <1>3, <2>1, <3>1, ShrinkNeverGrows, NewAllocatedBounds
    <3> QED
      BY <1>3, <2>1, <3>2 DEF Errors
  <2>2. CASE /\ new_allocated(n) <= MaxAllocated
             /\ \E m \in reallocs(l, n) : r = <<"LIST_OK", m>>
    <3>1. PICK m \in reallocs(l, n) : r = <<"LIST_OK", m>>
      BY <2>2
    <3>2. PICK null \in (IF n = 0 THEN BOOLEAN ELSE {FALSE}) :
            m = [size |-> n, allocated |-> new_allocated(n),
                 items |-> [i \in 0 .. new_allocated(n) - 1 |->
                              IF i < l.allocated THEN l.items[i] ELSE Trash],
                 null |-> null]
      BY <3>1 DEF reallocs
    <3>3. new_allocated(n) \in Nat /\ n <= new_allocated(n)
          /\ (n = 0 => new_allocated(n) = 0)
      BY NewAllocatedBounds DEF new_allocated
    <3>4. l.allocated \in Nat /\ l.items \in [0 .. l.allocated - 1 -> Cell]
      BY WidthAssumption DEF WellFormed
    <3>5. m.items \in [0 .. new_allocated(n) - 1 -> Cell]
      BY <3>2, <3>3, <3>4 DEF Cell
    <3>6. m.size = n /\ m.allocated = new_allocated(n) /\ m.null = null
          /\ m = [size |-> n, allocated |-> new_allocated(n), items |-> m.items, null |-> null]
      BY <3>2
    <3>7. WellFormed(m)
      <4>1. null \in BOOLEAN /\ (null => n = 0)
        BY <3>2
      <4>2. new_allocated(n) \in 0 .. MaxAllocated
        BY <2>2, <3>3, WidthAssumption
      <4> QED
        BY <3>3, <3>5, <3>6, <4>1, <4>2 DEF WellFormed
    <3>8. \A i \in 0 .. l.allocated - 1 : i < n => m.items[i] = l.items[i]
      BY <3>2, <3>3, <3>4
    <3> QED
      BY <1>3, <3>1, <3>6, <3>7, <3>8
  <2> QED
    BY <1>3, <2>1, <2>2 DEF resize
<1> QED
  BY <1>1, <1>2, <1>3

-----------------------------------------------------------------------------

(* What a call does to base, once the list it leaves is known.             *)
LEMMA BaseKept ==
  ASSUME ListInv, NEW r, NEW l, NEW n \in Nat, l.size = n, ReturnResized(r, l),
         r[1] = "LIST_OK",
         l.allocated = IF fits(lp, n) THEN lp.allocated ELSE new_allocated(n)
  PROVE  /\ base' \in Nat
         /\ base' = 0 \/ lp'.allocated = new_allocated(base')
         /\ base' # base => 8 * Distance(base, base') >= base
<1>1. lp' = l /\ base' = IF ~fits(lp, n) THEN n ELSE base
  BY DEF ReturnResized
<1>2. base \in Nat /\ lp.allocated \in Nat
  BY WidthAssumption DEF ListInv, WellFormed
<1>3. CASE fits(lp, n)
  BY <1>1, <1>2, <1>3 DEF ListInv
<1>4. CASE ~fits(lp, n)
  BY <1>1, <1>2, <1>4, FarFromBase DEF ListInv
<1> QED
  BY <1>3, <1>4

(* What a step of the list does, in the words of the properties: it fails  *)
(* and leaves the list alone, or succeeds.                                 *)
Fails ==
  /\ lp' = lp /\ status' \in Errors
  /\ status' = "LIST_ERR_NO_MEMORY" => lp.size = lp.allocated

PaidFor == base' # base => 8 * Distance(base, base') >= base

(* A failed call keeps the invariant.                                      *)
LEMMA FailedStep ==
  ASSUME ListInv, Fails, UNCHANGED <<mutable, base>>
  PROVE  ListInv' /\ PaidFor
BY DEF ListInv, Fails, PaidFor, Errors, WellFormed, AllWritten, Cell, new_allocated

(* An append writes the one cell the list gains, or fails.                 *)
LEMMA AppendStep ==
  ASSUME ListInv, NEW item \in Items, AppendItem(item)
  PROVE  /\ ListInv' /\ PaidFor
         /\ Fails \/ (status' = "LIST_OK" /\ list' = Append(list, item))
<1> DEFINE n == lp.size + 1
<1>1. WellFormed(lp) /\ mutable \in BOOLEAN /\ n \in Nat /\ lp.size \in Nat
      /\ lp.allocated \in Nat /\ lp.size <= lp.allocated
  BY WidthAssumption DEF ListInv, WellFormed
<1>2. PICK r \in resize(lp, n) :
        ReturnResized(r, IF r[1] = "LIST_OK" THEN written(r[2], item) ELSE r[2])
  BY DEF AppendItem
<1> HIDE DEF n
<1>3. CASE /\ r[1] \in Errors \ {"LIST_ERR_INDEX"} /\ r[2] = lp
           /\ r[1] = "LIST_ERR_NO_MEMORY" => n > lp.allocated
  <2>1. Fails /\ UNCHANGED <<mutable, base>>
    BY <1>1, <1>2, <1>3 DEF ReturnResized, Fails, Errors, n
  <2> QED
    BY <2>1, FailedStep
<1>4. CASE /\ r[1] = "LIST_OK" /\ WellFormed(r[2]) /\ r[2].size = n
           /\ r[2].allocated = IF fits(lp, n) THEN lp.allocated ELSE new_allocated(n)
           /\ \A i \in 0 .. lp.allocated - 1 : i < n => r[2].items[i] = lp.items[i]
  <2> DEFINE m == r[2]
  <2> HIDE DEF m
  <2>1. lp' = written(m, item) /\ status' = "LIST_OK" /\ mutable' = mutable
    BY <1>2, <1>4 DEF ReturnResized, m
  <2>2. m \in [size : Nat, allocated : 0 .. MaxAllocated,
                items : [0 .. m.allocated - 1 -> Cell], null : BOOLEAN]
        /\ m.size = n /\ n <= m.allocated /\ (m.null => m.allocated = 0)
    BY <1>4 DEF WellFormed, m
  <2>3. m.size - 1 = lp.size /\ lp.size \in 0 .. m.allocated - 1
    BY <1>1, <2>2, WidthAssumption DEF n
  <2>4. lp' = [m EXCEPT !.items = [m.items EXCEPT ![lp.size] = item]]
    BY <2>1, <2>3 DEF written
  <2>5. /\ lp'.size = n /\ lp'.allocated = m.allocated /\ lp'.null = m.null
        /\ lp'.items = [m.items EXCEPT ![lp.size] = item]
        /\ lp' \in [size : Nat, allocated : 0 .. MaxAllocated,
                     items : [0 .. m.allocated - 1 -> Cell], null : BOOLEAN]
    BY <2>2, <2>4 DEF Cell
  <2>6. WellFormed(lp)'
    BY <2>2, <2>5 DEF WellFormed
  <2>7. \A i \in 0 .. lp.size - 1 : lp'.items[i] = lp.items[i]
    <3> SUFFICES ASSUME NEW i \in 0 .. lp.size - 1
                 PROVE  lp'.items[i] = lp.items[i]
      OBVIOUS
    <3>1. i < n /\ i # lp.size /\ i \in 0 .. lp.allocated - 1
          /\ i \in 0 .. m.allocated - 1
      BY <1>1, <2>2, <2>3 DEF n
    <3>2. m.items[i] = lp.items[i]
      BY ONLY <1>4, <3>1 DEF m
    <3> QED
      BY ONLY <2>2, <2>5, <3>1, <3>2
  <2>8. lp'.items[lp.size] = item
    BY <2>2, <2>3, <2>5
  <2>9. AllWritten(lp)'
    BY <1>1, <2>5, <2>7, <2>8 DEF AllWritten, ListInv, n
  <2>10. /\ base' \in Nat
         /\ base' = 0 \/ lp'.allocated = new_allocated(base')
         /\ PaidFor
    <3>1. ReturnResized(r, lp')
      BY <1>2, <1>4, <2>1 DEF ReturnResized, m
    <3>2. lp'.allocated = IF fits(lp, n) THEN lp.allocated ELSE new_allocated(n)
      BY <1>4, <2>5 DEF m
    <3> QED
      BY <1>1, <1>4, <2>5, <3>1, <3>2, BaseKept DEF PaidFor
  <2>11. ListInv'
    BY <1>1, <2>1, <2>6, <2>9, <2>10 DEF ListInv
  <2>12. list' = Append(list, item)
    <3>1. /\ list \in Seq(Items) /\ Len(list) = lp.size
          /\ \A k \in 1 .. lp.size : list[k] = lp.items[k - 1]
      BY Contents DEF ListInv, list
    <3>2. /\ list' \in Seq(Items) /\ Len(list') = lp'.size
          /\ \A k \in 1 .. lp'.size : list'[k] = lp'.items[k - 1]
      <4> DEFINE l == lp'
      <4>1. WellFormed(l) /\ AllWritten(l)
        BY <2>6, <2>9 DEF WellFormed, AllWritten
      <4> HIDE DEF l
      <4>2. /\ contents(l) \in Seq(Items) /\ Len(contents(l)) = l.size
            /\ \A k \in 1 .. l.size : contents(l)[k] = l.items[k - 1]
        BY <4>1, Contents
      <4> QED
        BY <4>2 DEF l, list, contents
    <3>3. /\ Append(list, item) \in Seq(Items) /\ Len(Append(list, item)) = lp.size + 1
          /\ \A k \in 1 .. lp.size : Append(list, item)[k] = list[k]
          /\ Append(list, item)[lp.size + 1] = item
      BY <3>1, AppendProperties
    <3>4. ASSUME NEW k \in 1 .. lp.size + 1 PROVE list'[k] = Append(list, item)[k]
      <4>1. k \in 1 .. lp'.size
        BY <2>5 DEF n
      <4>2. CASE k = lp.size + 1
        <5>1. k - 1 = lp.size
          BY <1>1, <4>2
        <5> QED
          BY <2>8, <3>2, <3>3, <4>1, <4>2, <5>1
      <4>3. CASE k \in 1 .. lp.size
        <5>1. k - 1 \in 0 .. lp.size - 1
          BY <1>1, <4>3
        <5> QED
          BY <2>7, <3>1, <3>2, <3>3, <4>1, <4>3, <5>1
      <4>4. k = lp.size + 1 \/ k \in 1 .. lp.size
        BY <1>1
      <4> QED
        BY <4>2, <4>3, <4>4
    <3>5. Len(list') = Len(Append(list, item)) /\ Len(list') = lp.size + 1
      BY <2>5, <3>2, <3>3 DEF n
    <3>6. \A k \in 1 .. Len(list') : list'[k] = Append(list, item)[k]
      BY <3>4, <3>5
    <3> QED
      BY <3>2, <3>3, <3>5, <3>6, SeqEqual
  <2> QED
    BY <2>1, <2>10, <2>11, <2>12
<1> QED
  <2>1. lp.size + 1 = n
    BY DEF n
  <2> QED
    BY <1>1, <1>2, <1>3, <1>4, ResizeOutcome

(* A write to an index of the list replaces that item and no other.        *)
LEMMA SetItemStep ==
  ASSUME ListInv, NEW index \in -(MaxAllocated + 1) .. MaxAllocated, NEW item \in Items,
         SetItem(index, item)
  PROVE  /\ ListInv' /\ PaidFor
         /\ IF mutable /\ index \in 0 .. lp.size - 1
              THEN status' = "LIST_OK" /\ list' = [list EXCEPT ![index + 1] = item]
              ELSE Fails
<1>1. /\ WellFormed(lp) /\ mutable \in BOOLEAN /\ base \in Nat
      /\ lp.size \in Nat /\ lp.allocated \in Nat /\ lp.size <= lp.allocated
  BY WidthAssumption DEF ListInv, WellFormed
<1>2. valid_index(index, lp.size) <=> index \in 0 .. lp.size - 1
  BY <1>1, ValidIndex
<1>3. CASE ~(mutable /\ index \in 0 .. lp.size - 1)
  <2>1. Fails /\ UNCHANGED <<mutable, base>>
    BY <1>2, <1>3 DEF SetItem, Refused, Return, Fails, Errors
  <2> QED
    BY <1>3, <2>1, FailedStep
<1>4. CASE mutable /\ index \in 0 .. lp.size - 1
  <2>1. /\ status' = "LIST_OK" /\ lp' = [lp EXCEPT !.items = [lp.items EXCEPT ![index] = item]]
        /\ UNCHANGED <<mutable, base>>
    BY <1>2, <1>4 DEF SetItem, Refused, Return
  <2>2. /\ lp'.size = lp.size /\ lp'.allocated = lp.allocated /\ lp'.null = lp.null
        /\ lp'.items = [lp.items EXCEPT ![index] = item]
        /\ WellFormed(lp)'
    BY <1>1, <2>1 DEF WellFormed, Cell
  <2>3. \A i \in 0 .. lp.size - 1 : lp'.items[i] = IF i = index THEN item ELSE lp.items[i]
    BY <1>1, <2>2 DEF WellFormed
  <2>4. AllWritten(lp)'
    BY <2>2, <2>3 DEF AllWritten, ListInv
  <2>5. ListInv' /\ PaidFor
    BY <1>1, <2>1, <2>2, <2>4 DEF ListInv, PaidFor, new_allocated
  <2>6. list' = [list EXCEPT ![index + 1] = item]
    <3>1. list' = [k \in 1 .. lp.size |-> lp'.items[k - 1]]
      BY <2>2 DEF list, contents
    <3>2. list = [k \in 1 .. lp.size |-> lp.items[k - 1]]
      BY DEF list, contents
    <3>3. \A k \in 1 .. lp.size : k - 1 \in 0 .. lp.size - 1 /\ (k - 1 = index <=> k = index + 1)
      BY <1>1, <1>4
    <3> QED
      BY <2>3, <3>1, <3>2, <3>3
  <2> QED
    BY <1>4, <2>1, <2>5, <2>6
<1> QED
  BY <1>3, <1>4

(* A delete of an index of the list succeeds, whether or not it returns    *)
(* memory, and removes that item and no other.                             *)
LEMMA DelItemStep ==
  ASSUME ListInv, NEW index \in -(MaxAllocated + 1) .. MaxAllocated, DelItem(index)
  PROVE  /\ ListInv' /\ PaidFor
         /\ IF mutable /\ index \in 0 .. lp.size - 1
              THEN status' = "LIST_OK" /\ list' = RemoveAt(list, index + 1)
              ELSE Fails
<1>1. /\ WellFormed(lp) /\ mutable \in BOOLEAN /\ base \in Nat
      /\ lp.size \in Nat /\ lp.allocated \in Nat /\ lp.size <= lp.allocated
  BY WidthAssumption DEF ListInv, WellFormed
<1>2. valid_index(index, lp.size) <=> index \in 0 .. lp.size - 1
  BY <1>1, ValidIndex
<1>3. CASE ~(mutable /\ index \in 0 .. lp.size - 1)
  <2>1. Fails /\ UNCHANGED <<mutable, base>>
    BY <1>2, <1>3 DEF DelItem, Refused, Return, Fails, Errors
  <2> QED
    BY <1>3, <2>1, FailedStep
<1>4. CASE mutable /\ index \in 0 .. lp.size - 1
  <2> DEFINE n == lp.size - 1
             l == [lp EXCEPT !.items = shifted(lp, index)]
  <2>1. PICK r \in resize(l, n) : ReturnResized(r, r[2])
    BY <1>2, <1>4 DEF DelItem, Refused
  <2>2. n \in Nat /\ n < lp.allocated /\ index \in 0 .. n
    BY <1>1, <1>4
  <2>3. shifted(lp, index) = [i \in 0 .. lp.allocated - 1 |->
          IF i \in index .. index + n - index - 1 THEN lp.items[i - index + (index + 1)]
          ELSE lp.items[i]]
    BY <1>1, <1>4 DEF shifted, memmove, WellFormed
  <2>4. shifted(lp, index) = [i \in 0 .. lp.allocated - 1 |->
          IF index <= i /\ i < n THEN lp.items[i + 1] ELSE lp.items[i]]
    <3>1. \A i \in 0 .. lp.allocated - 1 :
            /\ i \in index .. index + n - index - 1 <=> index <= i /\ i < n
            /\ i - index + (index + 1) = i + 1
      BY <1>1, <1>4, <2>2
    <3> QED
      BY <2>3, <3>1
  <2>5. shifted(lp, index) \in [0 .. lp.allocated - 1 -> Cell]
    BY <1>1, <2>2, <2>4 DEF WellFormed
  <2>6. /\ l.size = lp.size /\ l.allocated = lp.allocated /\ l.null = lp.null
        /\ l.items = shifted(lp, index) /\ WellFormed(l)
    BY <1>1, <2>5 DEF WellFormed
  <2> HIDE DEF n, l
  <2>7. /\ r[1] = "LIST_OK" /\ WellFormed(r[2]) /\ r[2].size = n
        /\ r[2].allocated = IF fits(l, n) THEN l.allocated ELSE new_allocated(n)
        /\ \A i \in 0 .. l.allocated - 1 : i < n => r[2].items[i] = l.items[i]
    <3>1. ~(r[1] = "LIST_ERR_NO_MEMORY" /\ n > l.allocated)
      BY <1>1, <2>2, <2>6
    <3> QED
      BY <1>1, <1>4, <2>1, <2>2, <2>6, <3>1, ResizeOutcome DEF Errors
  <2>8. lp' = r[2] /\ status' = "LIST_OK" /\ mutable' = mutable
    BY <2>1, <2>7 DEF ReturnResized
  <2>9. \A i \in 0 .. n - 1 : lp'.items[i] = IF i < index THEN lp.items[i] ELSE lp.items[i + 1]
    <3> TAKE i \in 0 .. n - 1
    <3>1. i \in 0 .. lp.allocated - 1 /\ i < n /\ i \in Nat
      BY <1>1, <2>2
    <3>2. lp'.items[i] = l.items[i]
      BY <2>6, <2>7, <2>8, <3>1
    <3> QED
      BY <2>2, <2>4, <2>6, <3>1, <3>2
  <2>10. AllWritten(lp)'
    <3>1. \A i \in 0 .. n - 1 : i \in 0 .. lp.size - 1 /\ i + 1 \in 0 .. lp.size - 1
      BY <1>1 DEF n
    <3> QED
      BY <2>7, <2>8, <2>9, <3>1 DEF AllWritten, ListInv
  <2>11. /\ base' \in Nat
         /\ base' = 0 \/ lp'.allocated = new_allocated(base')
         /\ PaidFor
    <3>1. r[2].allocated = IF fits(lp, n) THEN lp.allocated ELSE new_allocated(n)
      BY <2>6, <2>7 DEF fits
    <3> QED
      BY <2>1, <2>2, <2>7, <2>8, <3>1, BaseKept DEF PaidFor
  <2>12. ListInv'
    BY <1>1, <2>7, <2>8, <2>10, <2>11 DEF ListInv
  <2>13. list' = RemoveAt(list, index + 1)
    <3>1. /\ list \in Seq(Items) /\ Len(list) = lp.size
          /\ \A k \in 1 .. lp.size : list[k] = lp.items[k - 1]
      BY Contents DEF ListInv, list
    <3>2. /\ list' \in Seq(Items) /\ Len(list') = n
          /\ \A k \in 1 .. n : list'[k] = lp'.items[k - 1]
      <4> DEFINE m == lp'
      <4>1. WellFormed(m) /\ AllWritten(m) /\ m.size = n
        BY <2>7, <2>8, <2>10 DEF WellFormed, AllWritten
      <4> HIDE DEF m
      <4>2. /\ contents(m) \in Seq(Items) /\ Len(contents(m)) = m.size
            /\ \A k \in 1 .. m.size : contents(m)[k] = m.items[k - 1]
        BY <4>1, Contents
      <4> QED
        BY <4>1, <4>2 DEF m, list, contents
    <3> DEFINE p == index + 1
    <3>3. p \in 1 .. Len(list) /\ p \in Nat /\ index = p - 1 /\ Len(list) - 1 = n
      BY <1>1, <1>4, <3>1 DEF n
    <3> HIDE DEF p
    <3>4. /\ RemoveAt(list, p) \in Seq(Items) /\ Len(RemoveAt(list, p)) = n
          /\ \A k \in 1 .. n : RemoveAt(list, p)[k] = IF k < p THEN list[k] ELSE list[k + 1]
      BY <3>1, <3>3, RemoveAtContents
    <3>5. ASSUME NEW k \in 1 .. n PROVE list'[k] = RemoveAt(list, p)[k]
      <4>1. /\ k \in Nat /\ k - 1 \in 0 .. n - 1 /\ k \in 1 .. lp.size /\ k + 1 \in 1 .. lp.size
            /\ (k - 1) + 1 = k /\ (k + 1) - 1 = k /\ (k - 1 < index <=> k < p)
        BY <1>1, <2>2, <3>3 DEF n
      <4>2. list'[k] = IF k < p THEN lp.items[k - 1] ELSE lp.items[k]
        BY <2>9, <3>2, <4>1
      <4>3. list[k] = lp.items[k - 1] /\ list[k + 1] = lp.items[k]
        BY <3>1, <4>1
      <4> QED
        BY <3>4, <4>2, <4>3
    <3>6. list' = RemoveAt(list, p)
      BY <3>2, <3>4, <3>5, SeqEqual
    <3> QED
      BY <3>6 DEF p
  <2> QED
    BY <1>4, <2>8, <2>11, <2>12, <2>13
<1> QED
  BY <1>3, <1>4

(* clear() empties the list; a realloc to nothing does not fail.           *)
LEMMA ClearStep ==
  ASSUME ListInv, Clear
  PROVE  /\ ListInv' /\ PaidFor
         /\ IF mutable THEN status' = "LIST_OK" /\ list' = <<>> ELSE Fails
<1>1. /\ WellFormed(lp) /\ mutable \in BOOLEAN /\ base \in Nat
      /\ lp.size \in Nat /\ lp.allocated \in Nat /\ lp.size <= lp.allocated
  BY WidthAssumption DEF ListInv, WellFormed
<1>2. PICK r \in resize(lp, 0) : ReturnResized(r, r[2])
  BY DEF Clear
<1>3. \/ r[1] = "LIST_ERR_IMMUTABLE" /\ r[2] = lp /\ ~mutable
      \/ /\ r[1] = "LIST_OK" /\ WellFormed(r[2]) /\ r[2].size = 0 /\ mutable
         /\ r[2].allocated = IF fits(lp, 0) THEN lp.allocated ELSE new_allocated(0)
  <2>1. 0 \in Nat /\ ~(0 > lp.allocated)
    BY <1>1
  <2> QED
    BY <1>1, <2>1, ResizeOutcome DEF Errors
<1>4. CASE r[1] = "LIST_ERR_IMMUTABLE" /\ r[2] = lp /\ ~mutable
  <2>1. Fails /\ UNCHANGED <<mutable, base>>
    BY <1>2, <1>4 DEF ReturnResized, Fails, Errors
  <2> QED
    BY <1>4, <2>1, FailedStep
<1>5. CASE /\ r[1] = "LIST_OK" /\ WellFormed(r[2]) /\ r[2].size = 0 /\ mutable
           /\ r[2].allocated = IF fits(lp, 0) THEN lp.allocated ELSE new_allocated(0)
  <2>1. lp' = r[2] /\ status' = "LIST_OK" /\ mutable' = mutable
    BY <1>2, <1>5 DEF ReturnResized
  <2>2. AllWritten(lp)' /\ list' = <<>>
    BY <1>5, <2>1 DEF AllWritten, list, contents
  <2>3. /\ base' \in Nat
        /\ base' = 0 \/ lp'.allocated = new_allocated(base')
        /\ PaidFor
    BY <1>2, <1>5, <2>1, BaseKept DEF PaidFor
  <2> QED
    BY <1>1, <1>5, <2>1, <2>2, <2>3 DEF ListInv
<1> QED
  BY <1>3, <1>4, <1>5
-----------------------------------------------------------------------------

(* The C index of a Python index stays within the indices the lemmas are   *)
(* about, and is an index of the list exactly when Python's is.            *)
LEMMA NormalizedIndex ==
  ASSUME ListInv, NEW i \in PyIndices
  PROVE  /\ _normalize_index(i, lp.size) \in -(MaxAllocated + 1) .. MaxAllocated
         /\ _normalize_index(i, lp.size) + 1 = Position(i)
         /\ InRange(i) <=> _normalize_index(i, lp.size) \in 0 .. lp.size - 1
<1>1. lp.size \in Nat /\ lp.size <= MaxAllocated /\ MaxAllocated \in Nat
  BY WidthAssumption DEF ListInv, WellFormed
<1>2. Len(list) = lp.size /\ DOMAIN list = 1 .. lp.size
  BY Contents DEF ListInv, list
<1>3. /\ _normalize_index(i, lp.size) \in -(MaxAllocated + 1) .. MaxAllocated
      /\ _normalize_index(i, lp.size) + 1 = Position(i)
  BY <1>1, <1>2 DEF _normalize_index, Position, PyIndices
<1>4. ASSUME NEW j \in Int PROVE j + 1 \in 1 .. lp.size <=> j \in 0 .. lp.size - 1
  BY <1>1
<1> QED
  BY <1>2, <1>3, <1>4 DEF InRange

(* pop() goes to the last item, or to index -1 of an empty list.           *)
LEMMA PopIndex ==
  ASSUME ListInv
  PROVE  /\ pop_index(lp.size) \in -(MaxAllocated + 1) .. MaxAllocated
         /\ lp.size = 0 => pop_index(lp.size) \notin 0 .. lp.size - 1
         /\ lp.size # 0 => pop_index(lp.size) \in 0 .. lp.size - 1
<1>1. lp.size \in Nat /\ lp.size <= MaxAllocated /\ MaxAllocated \in Nat
  BY WidthAssumption DEF ListInv, WellFormed
<1> QED
  BY <1>1 DEF pop_index

(* Reading at a C index gives the item there, or nothing anybody wrote.    *)
LEMMA GetItem ==
  ASSUME ListInv, NEW j \in -(MaxAllocated + 1) .. MaxAllocated
  PROVE  getitem(j) = IF j \in 0 .. lp.size - 1 THEN list[j + 1] ELSE Trash
<1>1. WellFormed(lp) /\ lp.size \in Nat
  BY DEF ListInv, WellFormed
<1>2. valid_index(j, lp.size) <=> j \in 0 .. lp.size - 1
  BY <1>1, ValidIndex
<1>3. j \in 0 .. lp.size - 1 => list[j + 1] = lp.items[j]
  <2>1. j \in 0 .. lp.size - 1 => j + 1 \in 1 .. lp.size /\ (j + 1) - 1 = j
    BY <1>1
  <2> QED
    BY <2>1 DEF list, contents
<1> QED
  BY <1>2, <1>3 DEF getitem

(* An empty list satisfies the invariant, whatever it preallocates.        *)
LEMMA InitListInv == Init => ListInv /\ mutable
<1> SUFFICES ASSUME Init PROVE ListInv /\ mutable
  OBVIOUS
<1>1. PICK n \in InitAllocated : lp = numba_list_new(n)
  BY DEF Init
<1>2. n \in 0 .. MaxAllocated /\ n \in Nat
  BY <1>1, InitAssumption, WidthAssumption
<1> DEFINE b == n = 0
<1>3. /\ lp = [size |-> 0, allocated |-> n, items |-> lp.items, null |-> b]
      /\ lp.items = [i \in 0 .. n - 1 |-> Trash]
  BY <1>1 DEF numba_list_new
<1>4. lp.items \in [0 .. n - 1 -> Cell]
  BY <1>3 DEF Cell
<1>5. WellFormed(lp)
  <2>1. b \in BOOLEAN /\ (b => n = 0)
    OBVIOUS
  <2> HIDE DEF b
  <2>2. lp.size = 0 /\ lp.allocated = n /\ lp.null = b
    BY <1>3
  <2> QED
    BY <1>2, <1>3, <1>4, <2>1, <2>2 DEF WellFormed
<1>6. AllWritten(lp)
  BY <1>3 DEF AllWritten
<1> QED
  BY <1>5, <1>6 DEF Init, ListInv

(* Each step of a program keeps the invariant, pays for its realloc and    *)
(* runs out of memory only by growing.                                     *)
LEMMA StandaloneStep ==
  ASSUME ListInv, [StandaloneNext]_allVars
  PROVE  /\ ListInv' /\ PaidFor /\ mutable' = mutable
         /\ status' = "LIST_ERR_NO_MEMORY" =>
              lp' = lp /\ (lp.size = lp.allocated \/ status = "LIST_ERR_NO_MEMORY")
<1>1. ASSUME UNCHANGED vars
      PROVE  ListInv' /\ PaidFor /\ lp' = lp /\ status' = status
  BY <1>1 DEF vars, ListInv, PaidFor, WellFormed, AllWritten, new_allocated
<1>2. ASSUME NEW item \in Items, ListAppend(item)
      PROVE  ListInv' /\ PaidFor /\ (Fails \/ status' = "LIST_OK")
  BY <1>2, AppendStep DEF ListAppend
<1>3. ASSUME NEW i \in PyIndices, NEW item \in Items, ListSet(i, item)
      PROVE  ListInv' /\ PaidFor /\ (Fails \/ status' = "LIST_OK")
  BY <1>3, NormalizedIndex, SetItemStep DEF ListSet
<1>4. ASSUME ListPop
      PROVE  ListInv' /\ PaidFor /\ (Fails \/ status' = "LIST_OK")
  BY <1>4, PopIndex, DelItemStep DEF ListPop
<1>5. ASSUME NEW i \in PyIndices, ListPopAt(i)
      PROVE  ListInv' /\ PaidFor /\ (Fails \/ status' = "LIST_OK")
  BY <1>5, NormalizedIndex, DelItemStep DEF ListPopAt
<1>6. ASSUME ListClear
      PROVE  ListInv' /\ PaidFor /\ (Fails \/ status' = "LIST_OK")
  BY <1>6, ClearStep DEF ListClear
<1> DEFINE RunsOut ==
      status' = "LIST_ERR_NO_MEMORY" =>
        lp' = lp /\ (lp.size = lp.allocated \/ status = "LIST_ERR_NO_MEMORY")
<1>7. UNCHANGED vars => ListInv' /\ PaidFor /\ RunsOut
  BY <1>1
<1>8. StandaloneNext => ListInv' /\ PaidFor /\ RunsOut
  <2>1. ASSUME (\E i \in PyIndices : ListGet(i)) \/ LoopBegin \/ LoopNext \/ LoopEnd
        PROVE  UNCHANGED vars
    BY <2>1 DEF ListGet, LoopBegin, LoopNext, LoopEnd
  <2>2. Fails => RunsOut
    BY DEF Fails
  <2>3. status' = "LIST_OK" => RunsOut
    OBVIOUS
  <2> HIDE DEF RunsOut
  <2> QED
    BY <1>2, <1>3, <1>4, <1>5, <1>6, <1>7, <2>1, <2>2, <2>3 DEF StandaloneNext
<1>9. mutable' = mutable
  <2>1. ASSUME NEW s, NEW l, Return(s, l) \/ ReturnResized(s, l) PROVE mutable' = mutable
    BY <2>1 DEF Return, ReturnResized
  <2>2. ASSUME NEW item, AppendItem(item) PROVE mutable' = mutable
    BY <2>1, <2>2 DEF AppendItem
  <2>3. ASSUME NEW i, NEW item, SetItem(i, item) PROVE mutable' = mutable
    BY <2>1, <2>3 DEF SetItem
  <2>4. ASSUME NEW i, DelItem(i) PROVE mutable' = mutable
    BY <2>1, <2>4 DEF DelItem
  <2>5. ASSUME Clear PROVE mutable' = mutable
    BY <2>1, <2>5 DEF Clear
  <2> QED
    BY <2>2, <2>3, <2>4, <2>5
    DEF StandaloneNext, allVars, vars, ListAppend, ListGet, ListSet, ListPop, ListPopAt,
        ListClear, LoopBegin, LoopNext, LoopEnd
<1>10. UNCHANGED allVars => UNCHANGED vars
  BY DEF allVars, vars
<1> QED
  BY <1>7, <1>8, <1>9, <1>10

(* The invariant of every program over a NumbaList.                        *)
THEOREM NumbaListInvariant == StandaloneSpec => [](ListInv /\ mutable)
<1>1. StandaloneInit => ListInv /\ mutable
  BY InitListInv DEF StandaloneInit
<1>2. ListInv /\ mutable /\ [StandaloneNext]_allVars => (ListInv /\ mutable)'
  BY StandaloneStep
<1> QED
  BY <1>1, <1>2, PTL DEF StandaloneSpec

(* The invariants listobject.h:38 states hold in every program.            *)
THEOREM HeaderHolds == StandaloneSpec => []HeaderInvariants
<1>1. ListInv => HeaderInvariants
  BY WidthAssumption DEF ListInv, WellFormed, HeaderInvariants
<1> QED
  BY <1>1, NumbaListInvariant, PTL

(* No program trips the assert of numba_list_resize.                       *)
THEOREM ListAssertHolds == StandaloneSpec => []AssertHolds
<1>1. ListInv => AssertHolds
  BY DEF ListInv, AssertHolds, Errors
<1> QED
  BY <1>1, NumbaListInvariant, PTL

(* Every cell of the list was written: what a program reads at an index    *)
(* the list has is an item it stored.                                      *)
THEOREM ItemsWereStored == StandaloneSpec => []LiveCellsWritten
<1>1. ListInv => LiveCellsWritten
  BY ItemsAssumption DEF ListInv, AllWritten, LiveCellsWritten
<1> QED
  BY <1>1, NumbaListInvariant, PTL

(* Appends and deletes are O(1) amortized at every size.                   *)
THEOREM ReallocsArePaidFor == StandaloneSpec => ReallocIsPaidFor
<1>1. ListInv /\ [StandaloneNext]_allVars =>
        [base' # base => 8 * Distance(base, base') >= base]_vars
  BY StandaloneStep DEF PaidFor
<1> QED
  BY <1>1, NumbaListInvariant, PTL DEF StandaloneSpec, ReallocIsPaidFor

(* Only an append to a full block runs out of memory, and it leaves the    *)
(* list as it was: the comment at line 418 is right.                       *)
THEOREM OnlyAppendsRunOut == StandaloneSpec => OnlyGrowthRunsOut
<1>1. ListInv /\ [StandaloneNext]_allVars =>
        [status' = "LIST_ERR_NO_MEMORY" /\ status # "LIST_ERR_NO_MEMORY"
           => lp' = lp /\ lp.size = lp.allocated]_vars
  BY StandaloneStep
<1> QED
  BY <1>1, NumbaListInvariant, PTL DEF StandaloneSpec, OnlyGrowthRunsOut

(* list.pop() is Python's, for every list.                                 *)
THEOREM PopIsPython == StandaloneSpec => PopTakesLast
<1>1. ASSUME ListInv, mutable, ListPop
      PROVE  IF list = <<>> THEN list' = <<>> /\ out' = Trash ELSE list = Append(list', out')
  <2> DEFINE j == pop_index(lp.size)
  <2>1. /\ list \in Seq(Items) /\ Len(list) = lp.size /\ lp.size \in Nat
        /\ j = lp.size - 1 /\ j \in -(MaxAllocated + 1) .. MaxAllocated
        /\ out' = getitem(j)
        /\ getitem(j) = IF j \in 0 .. lp.size - 1 THEN list[j + 1] ELSE Trash
    BY <1>1, Contents, PopIndex, GetItem DEF ListInv, list, ListPop, pop_index
  <2>2. IF j \in 0 .. lp.size - 1 THEN list' = RemoveAt(list, j + 1) ELSE Fails
    BY <1>1, <2>1, DelItemStep DEF ListPop
  <2> HIDE DEF j
  <2>3. CASE lp.size = 0
    <3>1. list = <<>> /\ j \notin 0 .. lp.size - 1
      BY <2>1, <2>3
    <3>2. lp' = lp
      BY <2>2, <3>1 DEF Fails
    <3>3. list' = <<>>
      BY <3>1, <3>2 DEF list, contents
    <3> QED
      BY <2>1, <3>1, <3>3
  <2>4. CASE lp.size # 0
    <3>1. list # <<>> /\ j \in 0 .. lp.size - 1 /\ j + 1 = lp.size /\ lp.size \in 1 .. Len(list)
      BY <2>1, <2>4
    <3>2. list' = RemoveAt(list, lp.size) /\ out' = list[lp.size] /\ out' \in Items
      BY <2>1, <2>2, <3>1
    <3>3. /\ list' \in Seq(Items) /\ Len(list') = lp.size - 1
          /\ \A k \in 1 .. lp.size - 1 :
               list'[k] = IF k < lp.size THEN list[k] ELSE list[k + 1]
      BY <2>1, <3>1, <3>2, RemoveAtContents
    <3>4. /\ Append(list', out') \in Seq(Items) /\ Len(Append(list', out')) = lp.size
          /\ \A k \in 1 .. lp.size - 1 : Append(list', out')[k] = list'[k]
          /\ Append(list', out')[lp.size] = out'
      <4>1. (lp.size - 1) + 1 = lp.size
        BY <2>1
      <4> QED
        BY <3>2, <3>3, <4>1, AppendProperties
    <3>5. ASSUME NEW k \in 1 .. lp.size PROVE list[k] = Append(list', out')[k]
      <4>1. CASE k = lp.size
        BY <3>2, <3>4, <4>1
      <4>2. CASE k # lp.size
        <5>1. k \in 1 .. lp.size - 1 /\ k < lp.size
          BY <2>1, <4>2
        <5>2. list'[k] = list[k]
          BY <3>3, <5>1
        <5>3. Append(list', out')[k] = list'[k]
          BY <3>4, <5>1
        <5> QED
          BY <5>2, <5>3
      <4> QED
        BY <4>1, <4>2
    <3> QED
      BY <2>1, <3>1, <3>4, <3>5, SeqEqual
  <2> QED
    BY <2>3, <2>4
<1>2. ListInv /\ mutable =>
        [ListPop => IF list = <<>> THEN list' = <<>> /\ out' = Trash
                    ELSE list = Append(list', out')]_allVars
  BY <1>1
<1> QED
  BY <1>2, NumbaListInvariant, PTL DEF StandaloneSpec, PopTakesLast

(* Reads, writes and pops at an index are Python's, for every list and     *)
(* every index that fits.                                                  *)
THEOREM IndexingIsPython == StandaloneSpec => PythonMeaning
<1> DEFINE A ==
      /\ \A i \in PyIndices : ListGet(i) =>
           out' = IF InRange(i) THEN list[Position(i)] ELSE Trash
      /\ \A i \in PyIndices, x \in Items : ListSet(i, x) =>
           list' = IF InRange(i) THEN [list EXCEPT ![Position(i)] = x] ELSE list
      /\ \A i \in PyIndices : ListPopAt(i) =>
           /\ list' = IF InRange(i) THEN RemoveAt(list, Position(i)) ELSE list
           /\ out' = IF InRange(i) THEN list[Position(i)] ELSE Trash
<1>1. ASSUME ListInv, mutable, NEW i \in PyIndices
      PROVE  getitem(_normalize_index(i, lp.size)) =
               IF InRange(i) THEN list[Position(i)] ELSE Trash
  BY <1>1, NormalizedIndex, GetItem
<1>2. ASSUME Fails PROVE list' = list
  BY <1>2 DEF Fails, list, contents
<1>3. ASSUME ListInv, mutable, NEW i \in PyIndices, NEW x \in Items, ListSet(i, x)
      PROVE  list' = IF InRange(i) THEN [list EXCEPT ![Position(i)] = x] ELSE list
  BY <1>2, <1>3, NormalizedIndex, SetItemStep DEF ListSet
<1>4. ASSUME ListInv, mutable, NEW i \in PyIndices, ListPopAt(i)
      PROVE  list' = IF InRange(i) THEN RemoveAt(list, Position(i)) ELSE list
  BY <1>2, <1>4, NormalizedIndex, DelItemStep DEF ListPopAt
<1>5. ListInv /\ mutable => A
  BY <1>1, <1>3, <1>4 DEF ListGet, ListPopAt
<1>6. ListInv /\ mutable => [A]_allVars
  BY <1>5
<1> QED
  BY <1>6, NumbaListInvariant, PTL DEF StandaloneSpec, PythonMeaning

(* The variables keep their types in every program.                        *)
THEOREM ListTypes == StandaloneSpec => []TypeOK
<1>1. ListInv => TypeOK
  <2> SUFFICES ASSUME ListInv PROVE TypeOK
    OBVIOUS
  <2>1. /\ lp \in [size : Nat, allocated : 0 .. MaxAllocated,
                  items : [0 .. lp.allocated - 1 -> Cell], null : BOOLEAN]
        /\ lp.size \in 0 .. MaxAllocated
    BY WidthAssumption DEF ListInv, WellFormed
  <2>2. lp \in [size : 0 .. MaxAllocated, allocated : 0 .. MaxAllocated,
               items : [0 .. lp.allocated - 1 -> Cell], null : BOOLEAN]
    BY <2>1
  <2> QED
    BY <2>2 DEF TypeOK, ListInv, Errors
<1> QED
  BY <1>1, NumbaListInvariant, PTL

-----------------------------------------------------------------------------

(* What the loop has seen, position by position, and that it is within the *)
(* range it began with.                                                    *)
LoopInv ==
  /\ bound \in Nat \cup {NoLoop}
  /\ Looping /\ ~touched =>
       /\ at \in 0 .. bound /\ bound <= lp.size
       /\ seen \in Seq(Items) /\ Len(seen) = at
       /\ \A k \in 1 .. at : seen[k] = list[k]

(* One more turn of the loop reads the next item of the list.              *)
LEMMA LoopNextStep ==
  ASSUME ListInv, LoopInv, LoopNext
  PROVE  LoopInv'
<1>1. CASE touched
  BY <1>1 DEF LoopNext, LoopInv, vars, NoLoop, Looping
<1>2. CASE ~touched
  <2>1. /\ bound \in Nat /\ at \in Nat /\ at < bound /\ bound <= lp.size /\ lp.size \in Nat
        /\ seen \in Seq(Items) /\ Len(seen) = at
        /\ \A k \in 1 .. at : seen[k] = list[k]
    BY <1>2 DEF LoopNext, LoopInv, Looping, NoLoop, ListInv, WellFormed
  <2>2. list \in Seq(Items) /\ Len(list) = lp.size
    BY Contents DEF ListInv, list
  <2>3. getitem(at) = list[at + 1] /\ list[at + 1] \in Items
    <3>1. at \in 0 .. lp.size - 1 /\ at \in -(MaxAllocated + 1) .. MaxAllocated
          /\ at + 1 \in 1 .. Len(list)
      BY <2>1, <2>2, WidthAssumption DEF ListInv, WellFormed
    <3> QED
      BY <2>2, <3>1, GetItem
  <2>4. /\ lp' = lp /\ list' = list /\ at' = at + 1 /\ bound' = bound
        /\ seen' = Append(seen, list[at + 1])
    BY <2>3 DEF LoopNext, vars, list, contents
  <2>5. /\ seen' \in Seq(Items) /\ Len(seen') = at + 1
        /\ \A k \in 1 .. at : seen'[k] = seen[k]
        /\ seen'[at + 1] = list[at + 1]
    BY <2>1, <2>3, <2>4, AppendProperties
  <2>6. \A k \in 1 .. at + 1 : k \in 1 .. at \/ k = at + 1
    BY <2>1
  <2>7. \A k \in 1 .. at + 1 : seen'[k] = list[k]
    BY <2>1, <2>5, <2>6
  <2>8. at + 1 \in 0 .. bound
    BY <2>1
  <2> QED
    BY <2>1, <2>4, <2>5, <2>7, <2>8 DEF LoopInv
<1> QED
  BY <1>1, <1>2

(* An append leaves the positions the loop has been to.                    *)
LEMMA LoopAppendStep ==
  ASSUME ListInv, LoopInv, NEW item \in Items, ListAppend(item)
  PROVE  LoopInv'
<1>1. UNCHANGED loopVars /\ touched' = (Looping /\ touched)
  BY DEF ListAppend, Note
<1>2. list \in Seq(Items) /\ Len(list) = lp.size /\ lp.size \in Nat
  BY Contents DEF ListInv, list
<1>3. list' = list \/ list' = Append(list, item)
  BY AppendStep DEF ListAppend, Fails, list, contents
<1>4. lp'.size \in Nat /\ Len(list') = lp'.size
  <2> DEFINE l == lp'
  <2>1. WellFormed(l) /\ AllWritten(l)
    BY AppendStep DEF ListAppend, ListInv, WellFormed, AllWritten
  <2> HIDE DEF l
  <2>2. l.size \in Nat /\ Len(contents(l)) = l.size
    BY <2>1, Contents
  <2> QED
    BY <2>2 DEF l, list, contents
<1>5. /\ lp.size <= lp'.size
      /\ \A k \in 1 .. lp.size : list'[k] = list[k]
  BY <1>2, <1>3, <1>4, AppendProperties
<1>6. CASE Looping /\ ~touched
  <2>1. /\ bound \in Nat /\ at \in 0 .. bound /\ bound <= lp.size
        /\ seen \in Seq(Items) /\ Len(seen) = at
        /\ \A k \in 1 .. at : seen[k] = list[k]
    BY <1>6 DEF LoopInv, Looping
  <2>2. \A k \in 1 .. at : k \in 1 .. lp.size
    BY <1>2, <2>1
  <2>3. bound <= lp'.size
    BY <1>2, <1>4, <1>5, <2>1
  <2>4. bound' = bound /\ at' = at /\ seen' = seen
    BY <1>1 DEF loopVars
  <2> QED
    BY <1>5, <2>1, <2>2, <2>3, <2>4 DEF LoopInv
<1>7. CASE ~(Looping /\ ~touched)
  BY <1>1, <1>7 DEF LoopInv, loopVars, Looping
<1> QED
  BY <1>6, <1>7

(* A loop begins at the front of the list, with its whole length to go.    *)
LEMMA LoopBeginStep ==
  ASSUME ListInv, LoopBegin
  PROVE  LoopInv'
<1>1. lp.size \in Nat /\ lp' = lp
  BY DEF ListInv, WellFormed, LoopBegin, vars
<1> QED
  BY <1>1 DEF LoopBegin, LoopInv, standalone_list_length

(* Loops over a list that only grows see its items in order.               *)
THEOREM LoopsSeeTheList == StandaloneSpec => []LoopInOrder
<1>1. StandaloneInit => LoopInv
  BY DEF StandaloneInit, LoopInv, Looping
<1>2. ASSUME ListInv, LoopInv, [StandaloneNext]_allVars
      PROVE  LoopInv'
  <2>1. ASSUME NEW i \in PyIndices, ListGet(i) PROVE LoopInv'
    BY <1>2, <2>1 DEF ListGet, LoopInv, vars, loopVars, Looping, list, contents
  <2>2. ASSUME Note(TRUE) PROVE LoopInv'
    BY <1>2, <2>2 DEF Note, LoopInv, loopVars, Looping
  <2>3. ASSUME LoopEnd PROVE LoopInv'
    BY <2>3 DEF LoopEnd, LoopInv, Looping
  <2>4. ASSUME UNCHANGED allVars PROVE LoopInv'
    BY <1>2, <2>4 DEF allVars, LoopInv, Looping, list, contents
  <2> QED
    BY <1>2, <2>1, <2>2, <2>3, <2>4, LoopNextStep, LoopAppendStep, LoopBeginStep
    DEF StandaloneNext, ListSet, ListPop, ListPopAt, ListClear
<1>3. ASSUME ListInv, LoopInv PROVE LoopInOrder
  <2> SUFFICES ASSUME Looping, ~touched
               PROVE  bound <= lp.size /\ seen = SubSeq(list, 1, at)
    BY DEF LoopInOrder
  <2>1. /\ bound \in Nat /\ at \in 0 .. bound /\ bound <= lp.size
        /\ seen \in Seq(Items) /\ Len(seen) = at
        /\ \A k \in 1 .. at : seen[k] = list[k]
    BY <1>3 DEF LoopInv, Looping
  <2>2. list \in Seq(Items) /\ Len(list) = lp.size /\ lp.size \in Nat
    BY <1>3, Contents DEF ListInv, list
  <2>3. at \in Int /\ \A k \in 1 .. at : list[k] \in Items
    BY <2>1, <2>2
  <2>4. /\ SubSeq(list, 1, at) \in Seq(Items)
        /\ Len(SubSeq(list, 1, at)) = IF 1 <= at THEN at - 1 + 1 ELSE 0
        /\ \A k \in 1 .. at - 1 + 1 : SubSeq(list, 1, at)[k] = list[1 + k - 1]
    BY <2>3, SubSeqProperties
  <2>5. Len(SubSeq(list, 1, at)) = at
    BY <2>1, <2>4
  <2>6. \A k \in 1 .. at : SubSeq(list, 1, at)[k] = list[k]
    <3>1. \A k \in 1 .. at : k \in 1 .. at - 1 + 1 /\ 1 + k - 1 = k
      BY <2>1
    <3> QED
      BY <2>4, <3>1
  <2> QED
    BY <2>1, <2>4, <2>5, <2>6, SeqEqual
<1> QED
  BY <1>1, <1>2, <1>3, NumbaListInvariant, PTL DEF StandaloneSpec

-----------------------------------------------------------------------------
(* numba_list_delete_slice.                                                *)

(* A slice with a positive step that deletes n cells of a list of a size.  *)
Cur(s, i) == s.start + i * s.step
Strides(s, n, size) ==
  /\ s.start \in Nat /\ s.step \in Nat \ {0} /\ s.stop \in Nat /\ n \in Nat \ {0}
  /\ Cur(s, n - 1) < s.stop /\ s.stop <= Cur(s, n) /\ s.stop <= size

(* How far the cell q moves down: the number of deleted cells before it.   *)
Shift(s, n, q) ==
  IF q < s.start THEN 0
  ELSE IF (q - s.start) \div s.step < n THEN (q - s.start) \div s.step + 1 ELSE n

(* The deleted cells are a step apart.                                     *)
LEMMA Apart ==
  ASSUME NEW s, s.start \in Nat, s.step \in Nat \ {0}, NEW i \in Nat, NEW j \in Nat
  PROVE  /\ Cur(s, i) \in Nat /\ s.start + i <= Cur(s, i) /\ Cur(s, 0) = s.start
         /\ Cur(s, i + 1) = Cur(s, i) + s.step
         /\ i <= j => Cur(s, i) - i <= Cur(s, j) - j
         /\ i < j => Cur(s, i) + s.step <= Cur(s, j)
<1> DEFINE d == s.step
<1>1. d \in Nat \ {0}
  OBVIOUS
<1> HIDE DEF d
<1>2. i * d \in Nat /\ j * d \in Nat /\ i <= i * d
  BY <1>1
<1>3. (i + 1) * d = i * d + d
  BY <1>1
<1>4. i <= j => j - i <= j * d - i * d
  BY <1>1
<1>5. i < j => i * d + d <= j * d
  BY <1>1
<1>6. 0 * d = 0
  BY <1>1
<1> QED
  BY <1>1, <1>2, <1>3, <1>4, <1>5, <1>6 DEF Cur, d

(* A cell is before the slice, behind its last stride, or at or between    *)
(* two cells that the strides delete; Shift tells which.                   *)
LEMMA WhereCellsAre ==
  ASSUME NEW s, NEW n, NEW size, Strides(s, n, size), NEW q \in Nat
  PROVE  \/ q < s.start /\ Shift(s, n, q) = 0
         \/ \E t \in 1 .. n : Cur(s, t - 1) <= q /\ q < Cur(s, t) /\ Shift(s, n, q) = t
         \/ Cur(s, n) <= q /\ Shift(s, n, q) = n
<1>1. s.start \in Nat /\ s.step \in Nat \ {0} /\ n \in Nat \ {0}
  BY DEF Strides
<1>2. CASE q < s.start
  BY <1>2 DEF Shift
<1>3. CASE q >= s.start
  <2> DEFINE d == s.step
             x == q - s.start
             t == x \div d
  <2>1. x \in Nat /\ d \in Nat \ {0}
    BY <1>1, <1>3
  <2> HIDE DEF d, x
  <2>2. t \in Nat /\ d * t <= x /\ x < d * t + d
    BY <2>1
  <2> HIDE DEF t
  <2>3. Cur(s, t) <= q /\ q < Cur(s, t + 1)
    <3>1. t * d = d * t /\ (t + 1) * d = d * t + d
      BY <2>1, <2>2
    <3>2. s.start + t * d <= q /\ q < s.start + (t + 1) * d
      BY <1>1, <2>1, <2>2, <3>1 DEF x
    <3> QED
      BY <3>2 DEF Cur, d
  <2>4. Shift(s, n, q) = IF t < n THEN t + 1 ELSE n
    BY <1>1, <1>3 DEF Shift, t, x, d
  <2>5. CASE t < n
    <3>1. t + 1 \in 1 .. n /\ (t + 1) - 1 = t
      BY <1>1, <2>2, <2>5
    <3> QED
      BY <2>3, <2>4, <2>5, <3>1
  <2>6. CASE ~(t < n)
    <3>1. Cur(s, n) <= Cur(s, t)
      <4>1. n <= t
        BY <1>1, <2>2, <2>6
      <4>2. n = t \/ n < t
        BY <1>1, <2>2, <4>1
      <4>3. Cur(s, n) \in Nat /\ Cur(s, t) \in Nat /\ (n < t => Cur(s, n) + s.step <= Cur(s, t))
        BY <1>1, <2>2, Apart
      <4> QED
        BY <1>1, <4>2, <4>3
    <3>2. Cur(s, n) \in Nat /\ Cur(s, t) \in Nat
      BY <1>1, <2>2, Apart
    <3> QED
      BY <2>3, <2>4, <2>6, <3>1, <3>2
  <2> QED
    BY <2>5, <2>6
<1> QED
  BY <1>1, <1>2, <1>3

(* The moves of a turn of the loop of numba_list_delete_slice.             *)
lim(l, s, i) ==
  IF Cur(s, i) + s.step >= l.size THEN l.size - Cur(s, i) - 1 ELSE s.step - 1
turn(c, l, s, i) == memmove(c, Cur(s, i) - i, Cur(s, i) + 1, lim(l, s, i))

(* After turn i every cell before the next stride is where it belongs, and *)
(* the cells behind it have not moved.                                     *)
Packed(c, l, s, i) ==
  /\ c \in [0 .. l.allocated - 1 -> Cell]
  /\ \A q \in 0 .. l.size - 1 : q < s.start => c[q] = l.items[q]
  /\ \A t \in 1 .. i : \A q \in 0 .. l.size - 1 :
       Cur(s, t - 1) < q /\ q < Cur(s, t) => c[q - t] = l.items[q]
  /\ \A q \in 0 .. l.allocated - 1 : Cur(s, i) - i <= q => c[q] = l.items[q]

LEMMA PackingStep ==
  ASSUME NEW l, WellFormed(l), NEW s, NEW n, Strides(s, n, l.size),
         NEW i \in 0 .. n - 1, NEW c, Packed(c, l, s, i)
  PROVE  Packed(turn(c, l, s, i), l, s, i + 1)
<1> DEFINE A == l.allocated
           dst == Cur(s, i) - i
           src == Cur(s, i) + 1
           k == lim(l, s, i)
           new == memmove(c, dst, src, k)
<1>1. /\ A \in Nat /\ l.size \in Nat /\ l.size <= A /\ l.items \in [0 .. A - 1 -> Cell]
      /\ s.start \in Nat /\ s.step \in Nat \ {0} /\ n \in Nat \ {0} /\ i \in Nat
  BY WidthAssumption DEF WellFormed, Strides
<1>2. /\ Cur(s, i) \in Nat /\ s.start + i <= Cur(s, i) /\ Cur(s, i + 1) = Cur(s, i) + s.step
      /\ \A t \in 1 .. i : Cur(s, t) \in Nat /\ Cur(s, t) - t <= Cur(s, i) - i
  <2>1. \A t \in 1 .. i : t \in Nat /\ t <= i
    BY <1>1
  <2> QED
    BY <1>1, <2>1, Apart
<1>3. Cur(s, i) < l.size
  <2>1. n - 1 \in Nat /\ i <= n - 1 /\ (i = n - 1 \/ i < n - 1)
    BY <1>1
  <2>2. Cur(s, n - 1) \in Nat /\ (i < n - 1 => Cur(s, i) + s.step <= Cur(s, n - 1))
    BY <1>1, <2>1, Apart
  <2>3. Cur(s, n - 1) < l.size
    BY <1>1, <2>2 DEF Strides
  <2> QED
    BY <1>1, <1>2, <2>1, <2>2, <2>3
<1>4. /\ k \in Nat /\ dst \in Nat /\ src \in Nat /\ dst <= src /\ src + k <= A
      /\ src - dst = i + 1 /\ k <= s.step - 1 /\ s.start <= dst
      /\ Cur(s, i + 1) - (i + 1) = dst + (s.step - 1)
      /\ k = s.step - 1 \/ dst + k = l.size - (i + 1)
  <2> DEFINE x == Cur(s, i)
             d == s.step
             z == l.size
  <2>1. k = IF x + d >= z THEN z - x - 1 ELSE d - 1
    BY DEF lim
  <2>2. x \in Nat /\ d \in Nat \ {0} /\ z \in Nat /\ x < z /\ z <= A /\ s.start + i <= x
        /\ Cur(s, i + 1) = x + d
    BY <1>1, <1>2, <1>3
  <2> HIDE DEF x, d, z, k, A
  <2>3. dst = x - i /\ src = x + 1
    BY DEF x
  <2> HIDE DEF dst, src
  <2>4. k \in Nat /\ k <= d - 1 /\ x + 1 + k <= z /\ (k = d - 1 \/ x + k = z - 1)
    BY <2>1, <2>2
  <2>5. dst \in Nat /\ src \in Nat /\ dst <= src /\ src - dst = i + 1 /\ s.start <= dst
    <3>1. i \in Nat /\ s.start \in Nat /\ x \in Nat /\ s.start + i <= x
      BY <1>1, <2>2
    <3> QED
      BY ONLY <3>1, <2>3
  <2>6. src + k <= A /\ (k = d - 1 \/ dst + k = z - (i + 1))
    BY <1>1, <2>2, <2>3, <2>4
  <2>7. Cur(s, i + 1) - (i + 1) = dst + (d - 1)
    BY <1>1, <2>2, <2>3
  <2> QED
    BY <2>4, <2>5, <2>6, <2>7 DEF d, z
<1>5. /\ c \in [0 .. A - 1 -> Cell]
      /\ \A q \in 0 .. l.size - 1 : q < s.start => c[q] = l.items[q]
      /\ \A t \in 1 .. i : \A q \in 0 .. l.size - 1 :
           Cur(s, t - 1) < q /\ q < Cur(s, t) => c[q - t] = l.items[q]
      /\ \A q \in 0 .. A - 1 : dst <= q => c[q] = l.items[q]
  BY DEF Packed
<1> HIDE DEF A, dst, src, k
<1>6. /\ new \in [0 .. A - 1 -> Cell]
      /\ \A q \in 0 .. A - 1 : ~(dst <= q /\ q < dst + k) => new[q] = c[q]
      /\ \A q, r \in 0 .. A - 1 : dst <= q /\ q < dst + k /\ r - q = src - dst => new[q] = c[r]
  <2> DEFINE I == 0 .. A - 1
  <2>1. /\ A \in Nat /\ c \in [I -> Cell] /\ dst \in Nat /\ src \in Nat /\ k \in Nat
        /\ dst <= src /\ src + k <= A /\ I = 0 .. A - 1
    BY <1>1, <1>4, <1>5
  <2> HIDE DEF I
  <2>2. new = [x \in I |-> IF x \in dst .. dst + k - 1 THEN c[x - dst + src] ELSE c[x]]
    BY <2>1 DEF new, memmove
  <2>3. ASSUME NEW x \in I
        PROVE  /\ x \in dst .. dst + k - 1 <=> dst <= x /\ x < dst + k
               /\ dst <= x /\ x < dst + k => x - dst + src \in I
    BY <2>1 DEF I
  <2>4. ASSUME NEW q \in I, NEW r \in I, dst <= q, q < dst + k, r - q = src - dst
        PROVE  new[q] = c[r]
    <3>1. q - dst + src = r
      BY <2>1, <2>4 DEF I
    <3> QED
      BY <2>2, <2>3, <2>4, <3>1
  <2> HIDE DEF new
  <2>5. new \in [I -> Cell]
    BY <2>1, <2>2, <2>3
  <2>6. \A q \in I : ~(dst <= q /\ q < dst + k) => new[q] = c[q]
    BY <2>2, <2>3
  <2> QED
    BY <2>4, <2>5, <2>6 DEF I
<1> HIDE DEF new
<1>7. ASSUME NEW q \in 0 .. l.size - 1, q < s.start PROVE new[q] = l.items[q]
  BY <1>1, <1>4, <1>5, <1>6, <1>7
<1>8. ASSUME NEW t \in 1 .. i + 1, NEW q \in 0 .. l.size - 1, Cur(s, t - 1) < q, q < Cur(s, t)
      PROVE  new[q - t] = l.items[q]
  <2>1. CASE t = i + 1
    <3>1. (i + 1) - 1 = i
      BY <1>1
    <3>2. Cur(s, i) < q /\ q < Cur(s, i) + s.step
      BY <1>2, <1>8, <2>1, <3>1
    <3>3. q \in 0 .. A - 1 /\ q - t \in 0 .. A - 1 /\ dst <= q - t /\ q - t < dst + k /\ q - (q - t) = src - dst
          /\ dst <= q
      <4> DEFINE x == Cur(s, i)
      <4>1. /\ q \in Nat /\ q < l.size /\ x < q /\ q < x + s.step /\ x \in Nat /\ i \in Nat /\ i <= x
            /\ dst = x - i /\ l.size <= A /\ A \in Nat /\ l.size \in Nat /\ t = i + 1 /\ s.step \in Nat
            /\ k \in Nat /\ (k = s.step - 1 \/ dst + k = l.size - (i + 1)) /\ src - dst = i + 1
        <5>1. q \in Nat /\ q < l.size
          BY <1>1
        <5>2. x \in Nat /\ i <= x
          BY <1>1, <1>2
        <5> QED
          BY <1>1, <1>4, <2>1, <3>2, <5>1, <5>2 DEF dst
      <4> HIDE DEF x
      <4> QED
        BY ONLY <4>1
    <3> QED
      BY <1>5, <1>6, <3>3
  <2>2. CASE t # i + 1
    <3>1. t \in 1 .. i
      BY <1>1, <2>2
    <3>2. Cur(s, t) - t <= dst /\ Cur(s, t) \in Nat
      BY <1>2, <3>1 DEF dst
    <3>3. q - t < dst
      BY <1>1, <1>4, <1>8, <3>1, <3>2
    <3>4. t <= q
      <4>1. t - 1 \in Nat
        BY <3>1
      <4>2. s.start + (t - 1) <= Cur(s, t - 1) /\ Cur(s, t - 1) \in Nat
        BY <1>1, <4>1, Apart
      <4> QED
        BY <1>1, <1>8, <4>1, <4>2
    <3>5. q - t \in 0 .. A - 1
      BY <1>1, <3>1, <3>4
    <3>6. new[q - t] = c[q - t]
      BY <1>1, <1>4, <1>6, <3>3, <3>5
    <3> QED
      BY <1>5, <1>8, <3>1, <3>6
  <2> QED
    BY <2>1, <2>2
<1>9. ASSUME NEW q \in 0 .. A - 1, Cur(s, i + 1) - (i + 1) <= q PROVE new[q] = l.items[q]
  BY <1>1, <1>4, <1>5, <1>6, <1>9
<1>10. Packed(new, l, s, i + 1)
  BY <1>6, <1>7, <1>8, <1>9 DEF Packed, A
<1> QED
  BY <1>10 DEF new, dst, src, k, turn

(* The whole loop.                                                         *)
LEMMA PackedCells ==
  ASSUME NEW l, WellFormed(l), NEW s, NEW n, Strides(s, n, l.size)
  PROVE  Packed(packed(l, s, n), l, s, n)
<1> DEFINE S == [0 .. l.allocated - 1 -> Cell]
           T(c, i) == turn(c, l, s, i)
           P(c, i) == Packed(c, l, s, i)
<1>1. n \in Nat /\ l.items \in S /\ P(l.items, 0)
  <2>1. n \in Nat /\ l.items \in S
    BY DEF WellFormed, Strides
  <2>2. l.size \in Nat /\ l.allocated \in Nat /\ l.size <= l.allocated
    BY WidthAssumption DEF WellFormed
  <2> QED
    BY <2>1, <2>2 DEF Packed
<1>2. ASSUME NEW c, NEW i \in 0 .. n - 1, P(c, i) PROVE P(T(c, i), i + 1)
  BY <1>2, PackingStep
<1>3. ASSUME NEW c, NEW i, P(c, i) PROVE c \in S
  BY <1>3 DEF Packed
<1> HIDE DEF S, T, P
<1> DEFINE step == [i \in 1 .. n |-> [c \in S |-> IF T(c, i - 1) \in S THEN T(c, i - 1) ELSE c]]
<1>4. step \in [1 .. n -> [S -> S]]
  OBVIOUS
<1>5. PICK f \in [0 .. n -> S] : FollowsTo(f, n, l.items, step)
  <2> HIDE DEF step
  <2> QED
    BY <1>1, <1>4, FiniteRecursion
<1>6. ASSUME NEW i \in 1 .. n
      PROVE  f[i] = IF T(f[i - 1], i - 1) \in S THEN T(f[i - 1], i - 1) ELSE f[i - 1]
  <2>1. f[i - 1] \in S
    BY <1>1
  <2> QED
    BY <1>5, <2>1 DEF FollowsTo
<1> HIDE DEF step
<1>7. \A i \in 0 .. n : P(f[i], i)
  <2> DEFINE A == {i \in Nat : i <= n => P(f[i], i)}
  <2>1. 0 \in A
    BY <1>1, <1>5 DEF FollowsTo
  <2>2. \A i \in Nat : i \in A => i + 1 \in A
    <3> SUFFICES ASSUME NEW i \in Nat, i \in A, i + 1 <= n PROVE P(f[i + 1], i + 1)
      OBVIOUS
    <3>1. i + 1 \in 1 .. n /\ i \in 0 .. n - 1 /\ (i + 1) - 1 = i /\ P(f[i], i)
      BY <1>1
    <3>2. P(T(f[i], i), i + 1)
      BY <1>2, <3>1
    <3>3. f[i + 1] = T(f[i], i)
      <4>1. f[i + 1] = IF T(f[i], i) \in S THEN T(f[i], i) ELSE f[i]
        BY <1>6, <3>1
      <4> QED
        BY <1>3, <3>2, <4>1
    <3> QED
      BY <3>2, <3>3
  <2> HIDE DEF A
  <2>3. A = Nat
    BY <2>1, <2>2, NatSetInduction, A \in SUBSET Nat DEF A
  <2> QED
    BY <1>1, <2>3 DEF A
<1>8. \A i \in 1 .. n : f[i] = T(f[i - 1], i - 1)
  <2> TAKE i \in 1 .. n
  <2>1. i - 1 \in 0 .. n - 1 /\ i - 1 \in 0 .. n /\ (i - 1) + 1 = i
    BY <1>1
  <2>2. T(f[i - 1], i - 1) \in S
    BY <1>2, <1>3, <1>7, <2>1
  <2> QED
    BY <1>6, <2>2
<1> DEFINE F(q) == [i \in 0 .. n |-> IF i = 0 THEN l.items ELSE T(q[i - 1], i - 1)]
           p == CHOOSE q : q = F(q)
<1>9. f = F(f)
  <2>1. ASSUME NEW i \in 0 .. n PROVE f[i] = F(f)[i]
    <3>1. i = 0 \/ i \in 1 .. n
      BY <1>1
    <3> QED
      BY <1>5, <1>8, <3>1 DEF FollowsTo
  <2>2. f = [i \in 0 .. n |-> f[i]] /\ F(f) = [i \in 0 .. n |-> F(f)[i]]
    OBVIOUS
  <2> HIDE DEF F
  <2> QED
    BY <2>1, <2>2
<1>10. p = F(p)
  <2> HIDE DEF F
  <2> QED
    BY <1>9
<1>11. packed(l, s, n) = p[n]
  BY DEF packed, T, turn, Cur, lim
<1> HIDE DEF p
<1>12. p[0] = l.items /\ \A i \in 1 .. n : p[i] = T(p[i - 1], i - 1)
  <2>1. \A i \in 0 .. n : p[i] = IF i = 0 THEN l.items ELSE T(p[i - 1], i - 1)
    BY <1>10
  <2>2. 0 \in 0 .. n /\ \A i \in 1 .. n : i \in 0 .. n /\ i # 0
    BY <1>1
  <2> QED
    BY <2>1, <2>2
<1> HIDE DEF F
<1>13. \A i \in 0 .. n : P(p[i], i)
  <2> DEFINE A == {i \in Nat : i <= n => P(p[i], i)}
  <2>1. 0 \in A
    BY <1>1, <1>12
  <2>2. \A i \in Nat : i \in A => i + 1 \in A
    <3> SUFFICES ASSUME NEW i \in Nat, i \in A, i + 1 <= n PROVE P(p[i + 1], i + 1)
      OBVIOUS
    <3>1. i + 1 \in 1 .. n /\ i \in 0 .. n - 1 /\ (i + 1) - 1 = i /\ P(p[i], i)
      BY <1>1
    <3>2. P(T(p[i], i), i + 1)
      BY <1>2, <3>1
    <3> QED
      BY <1>12, <3>1, <3>2
  <2> HIDE DEF A
  <2>3. A = Nat
    BY <2>1, <2>2, NatSetInduction, A \in SUBSET Nat DEF A
  <2> QED
    BY <1>1, <2>3 DEF A
<1> QED
  BY <1>1, <1>11, <1>13 DEF P

(* Every cell the slice keeps ends up as far down as cells before it are   *)
(* deleted.                                                                *)
LEMMA KeptCellsMove ==
  ASSUME NEW l, WellFormed(l), NEW s, NEW n, Strides(s, n, l.size),
         NEW q \in 0 .. l.size - 1, \A i \in 0 .. n - 1 : q # Cur(s, i)
  PROVE  /\ without_slice(l, s, n) \in [0 .. l.allocated - 1 -> Cell]
         /\ without_slice(l, s, n)[q - Shift(s, n, q)] = l.items[q]
<1> DEFINE A == l.allocated
           d == s.step
           W == without_slice(l, s, n)
<1>1. /\ A \in Nat /\ l.size \in Nat /\ l.size <= A /\ l.items \in [0 .. A - 1 -> Cell]
      /\ s.start \in Nat /\ d \in Nat \ {0} /\ n \in Nat \ {0} /\ s.stop \in Nat /\ s.stop <= l.size
  BY WidthAssumption DEF WellFormed, Strides
<1>2. /\ Cur(s, n) \in Nat /\ s.start + n <= Cur(s, n)
      /\ \A t \in 1 .. n : Cur(s, t) \in Nat /\ Cur(s, t) - t <= Cur(s, n) - n
  <2>1. \A t \in 1 .. n : t \in Nat /\ t <= n
    BY <1>1
  <2> QED
    BY <1>1, <2>1, Apart
<1> DEFINE mid(t) == t \in 1 .. n /\ Cur(s, t - 1) < q /\ q < Cur(s, t) /\ Shift(s, n, q) = t
<1>3. \/ q < s.start /\ Shift(s, n, q) = 0
      \/ \E t : mid(t)
      \/ Cur(s, n) <= q /\ Shift(s, n, q) = n
  <2>1. q \in Nat
    BY <1>1
  <2>2. ASSUME NEW t \in 1 .. n, Cur(s, t - 1) <= q PROVE Cur(s, t - 1) < q
    <3>1. t - 1 \in 0 .. n - 1 /\ t - 1 \in Nat
      BY <1>1
    <3>2. Cur(s, t - 1) # q /\ Cur(s, t - 1) \in Nat
      BY <1>1, <3>1, Apart
    <3> QED
      BY <2>1, <2>2, <3>2
  <2> QED
    BY <2>1, <2>2, WhereCellsAre
<1>4. W = IF d = 1 THEN memmove(l.items, s.start, s.stop, l.size - s.stop)
          ELSE IF Cur(s, n) < l.size
            THEN memmove(packed(l, s, n), Cur(s, n) - n, Cur(s, n), l.size - Cur(s, n))
          ELSE packed(l, s, n)
  BY DEF without_slice, Cur
<1> HIDE DEF W, A
<1>5. CASE d = 1
  <2>1. Cur(s, n) = s.start + n /\ Cur(s, n - 1) = s.start + (n - 1) /\ \A t \in 1 .. n : Cur(s, t) = s.start + t /\ Cur(s, t - 1) = s.start + (t - 1)
    <3>1. ASSUME NEW m \in Nat PROVE m * d = m
      BY <1>5, <3>1
    <3>2. n \in Nat /\ n - 1 \in Nat /\ \A t \in 1 .. n : t \in Nat /\ t - 1 \in Nat
      BY <1>1
    <3> HIDE DEF d
    <3> QED
      BY <3>1, <3>2 DEF Cur, d
  <2>2. s.stop = s.start + n
    <3>1. Cur(s, n - 1) < s.stop /\ s.stop <= Cur(s, n)
      BY DEF Strides
    <3>2. s.start + (n - 1) < s.stop /\ s.stop <= s.start + n
      BY <2>1, <3>1
    <3> QED
      BY <1>1, <3>2
  <2>3. W = [i \in 0 .. A - 1 |-> IF i \in s.start .. s.start + (l.size - s.stop) - 1
                                    THEN l.items[i - s.start + s.stop] ELSE l.items[i]]
    BY <1>1, <1>4, <1>5 DEF memmove
  <2>4. \A i \in 0 .. A - 1 : i \in s.start .. s.start + (l.size - s.stop) - 1 =>
                                i - s.start + s.stop \in 0 .. A - 1
    <3> DEFINE size == l.size
               first == s.start
               next == s.stop
    <3>1. A \in Nat /\ size \in Nat /\ size <= A /\ first \in Nat /\ next \in Nat
      BY <1>1
    <3> HIDE DEF size, first, next
    <3>2. \A i \in 0 .. A - 1 : i \in first .. first + (size - next) - 1 => i - first + next \in 0 .. A - 1
      BY <3>1
    <3> QED
      BY <3>2 DEF size, first, next
  <2>5. W \in [0 .. A - 1 -> Cell]
    BY <1>1, <2>3, <2>4
  <2>6. ~ \E t : mid(t)
    <3> SUFFICES ASSUME NEW t \in 1 .. n, Cur(s, t - 1) < q, q < Cur(s, t) PROVE FALSE
      OBVIOUS
    <3> QED
      BY <1>1, <2>1
  <2>7. CASE q < s.start /\ Shift(s, n, q) = 0
    <3>1. q - 0 = q /\ q \in 0 .. A - 1 /\ q \notin s.start .. s.start + (l.size - s.stop) - 1
      BY <1>1, <2>7
    <3> QED
      BY <2>3, <2>5, <2>7, <3>1 DEF W, A
  <2>8. CASE Cur(s, n) <= q /\ Shift(s, n, q) = n
    <3>1. /\ q - n \in 0 .. A - 1 /\ q - n \in s.start .. s.start + (l.size - s.stop) - 1
          /\ (q - n) - s.start + s.stop = q
      <4>1. s.start + n <= q
        BY <2>1, <2>8
      <4>2. /\ s.start \in Nat /\ n \in Nat /\ A \in Nat /\ l.size \in Nat /\ q \in Nat
            /\ l.size <= A /\ q <= l.size - 1
        BY <1>1
      <4> HIDE DEF A
      <4> QED
        BY <2>2, <4>1, <4>2
    <3>2. W[q - n] = l.items[q]
      BY <2>3, <3>1
    <3> QED
      BY <2>5, <2>8, <3>2 DEF W, A
  <2> QED
    BY <1>3, <2>6, <2>7, <2>8
<1>6. CASE d # 1
  <2> DEFINE c == packed(l, s, n)
  <2>1. /\ c \in [0 .. A - 1 -> Cell]
        /\ q < s.start => c[q] = l.items[q]
        /\ \A t : mid(t) => c[q - t] = l.items[q]
        /\ \A r \in 0 .. A - 1 : Cur(s, n) - n <= r => c[r] = l.items[r]
    BY PackedCells DEF Packed, A
  <2> HIDE DEF c
  <2>2. \A t : mid(t) => q - t \in 0 .. A - 1 /\ q - t < Cur(s, n) - n
    <3> SUFFICES ASSUME NEW t \in 1 .. n, Cur(s, t - 1) < q, q < Cur(s, t)
                 PROVE  q - t \in 0 .. A - 1 /\ q - t < Cur(s, n) - n
      OBVIOUS
    <3>1. t - 1 \in Nat /\ t \in Nat
      BY <1>1
    <3>2. s.start + (t - 1) <= Cur(s, t - 1) /\ Cur(s, t - 1) \in Nat
      BY <1>1, <3>1, Apart
    <3>3. Cur(s, t) \in Nat /\ Cur(s, t) - t <= Cur(s, n) - n /\ Cur(s, n) \in Nat
      BY <1>2
    <3>4. q \in Nat /\ q <= A - 1
      BY <1>1
    <3>5. t <= q
      BY <1>1, <3>1, <3>2, <3>4
    <3> DEFINE a == Cur(s, t)
               z == Cur(s, n)
    <3>6. a \in Nat /\ z \in Nat /\ a - t <= z - n /\ q < a /\ A \in Nat /\ n \in Nat
      BY <1>1, <3>3
    <3> HIDE DEF a, z
    <3>7. q - t \in 0 .. A - 1 /\ q - t < z - n
      BY <3>1, <3>4, <3>5, <3>6
    <3> QED
      BY <3>7 DEF z
  <2>3. CASE Cur(s, n) < l.size
    <3> DEFINE dst == Cur(s, n) - n
               src == Cur(s, n)
               k == l.size - Cur(s, n)
    <3>1. W = [i \in 0 .. A - 1 |-> IF i \in dst .. dst + k - 1 THEN c[i - dst + src] ELSE c[i]]
      BY <1>1, <1>4, <1>6, <2>1, <2>3 DEF memmove, c
    <3>2. dst \in Nat /\ src \in Nat /\ k \in Nat /\ dst <= src /\ src + k = l.size /\ src - dst = n /\ s.start <= dst
      BY <1>1, <1>2, <2>3
    <3> HIDE DEF dst, src, k
    <3>3. \A i \in 0 .. A - 1 : i \in dst .. dst + k - 1 => i - dst + src \in 0 .. A - 1
      BY <1>1, <3>2
    <3>4. W \in [0 .. A - 1 -> Cell]
      BY <2>1, <3>1, <3>3
    <3>5. \A i \in 0 .. A - 1 : i < dst => W[i] = c[i]
      BY <1>1, <3>1, <3>2
    <3>6. CASE q < s.start /\ Shift(s, n, q) = 0
      <4>1. q - 0 = q /\ q \in 0 .. A - 1 /\ q < dst
        BY <1>1, <3>2, <3>6
      <4> QED
        BY <2>1, <3>4, <3>5, <3>6, <4>1 DEF W, A
    <3>7. CASE \E t : mid(t)
      <4>1. PICK t : mid(t)
        BY <3>7
      <4>2. W[q - t] = c[q - t]
        BY <2>2, <3>5, <4>1 DEF dst
      <4> QED
        BY <2>1, <3>4, <4>1, <4>2 DEF W, A
    <3>8. CASE Cur(s, n) <= q /\ Shift(s, n, q) = n
      <4>1. /\ q - n \in 0 .. A - 1 /\ q - n \in dst .. dst + k - 1 /\ (q - n) - dst + src = q
            /\ q \in 0 .. A - 1 /\ dst <= q
        <5>1. src <= q /\ q \in Nat /\ q <= l.size - 1 /\ n \in Nat
          BY <1>1, <3>8 DEF src
        <5>2. q - n \in Nat /\ dst <= q - n /\ q - n <= l.size - 1 /\ dst <= q /\ (q - n) - dst + src = q
              /\ q - n <= dst + k - 1
          BY <1>1, <3>2, <5>1
        <5>3. l.size \in Nat /\ A \in Nat /\ l.size <= A /\ dst \in Nat /\ k \in Nat
          BY <1>1, <3>2
        <5>4. q - n \in 0 .. A - 1 /\ q \in 0 .. A - 1
          BY ONLY <5>1, <5>2, <5>3
        <5>5. q - n \in dst .. dst + k - 1
          BY ONLY <5>1, <5>2, <5>3
        <5> QED
          BY <5>2, <5>4, <5>5
      <4>2. W[q - n] = c[q]
        BY <3>1, <4>1
      <4> QED
        BY <2>1, <3>4, <3>8, <4>1, <4>2 DEF W, A, dst
    <3> QED
      BY <1>3, <3>6, <3>7, <3>8
  <2>4. CASE ~(Cur(s, n) < l.size)
    <3>1. W = c
      BY <1>4, <1>6, <2>4 DEF c
    <3>2. ~(Cur(s, n) <= q)
      BY <1>1, <1>2, <2>4
    <3>3. CASE q < s.start /\ Shift(s, n, q) = 0
      <4>1. q - 0 = q
        BY <1>1
      <4> QED
        BY <2>1, <3>1, <3>3, <4>1 DEF W, A
    <3>4. CASE \E t : mid(t)
      BY <2>1, <3>1, <3>4 DEF W, A
    <3> QED
      BY <1>3, <3>2, <3>3, <3>4
  <2> QED
    BY <2>3, <2>4
<1> QED
  BY <1>5, <1>6

(* The multiples of d up to x.                                             *)
LEMMA Multiples ==
  ASSUME NEW x \in Nat, NEW d \in Nat \ {0}, NEW n, n = x \div d + 1
  PROVE  /\ n \in Nat \ {0} /\ (n - 1) * d <= x /\ x < n * d
         /\ \A k \in 0 .. n - 1 : k * d \in 0 .. x
         /\ \A y \in 0 .. x : y % d = 0 <=> \E k \in 0 .. n - 1 : y = k * d
<1>1. n \in Nat \ {0} /\ (n - 1) * d <= x /\ x < n * d
  OBVIOUS
<1>2. ASSUME NEW k \in 0 .. n - 1 PROVE k * d \in 0 .. x
  <2>1. k \in Nat /\ n - 1 \in Nat /\ k <= n - 1
    BY <1>1
  <2>2. k * d <= (n - 1) * d /\ k * d \in Nat /\ (n - 1) * d \in Nat
    BY <2>1
  <2> QED
    BY <1>1, <2>2
<1>3. ASSUME NEW k \in 0 .. n - 1 PROVE (k * d) % d = 0
  <2>1. k \in Nat
    BY <1>1
  <2> QED
    BY <2>1
<1>4. ASSUME NEW y \in 0 .. x, y % d = 0 PROVE \E k \in 0 .. n - 1 : y = k * d
  <2> DEFINE k == y \div d
  <2>1. y \in Nat /\ y <= x
    OBVIOUS
  <2>2. k \in Nat /\ y = k * d
    BY <1>4, <2>1
  <2> HIDE DEF k
  <2>3. k < n
    <3>1. CASE n <= k
      <4>1. n * d <= k * d /\ n * d \in Nat /\ k * d \in Nat
        BY <1>1, <2>2, <3>1
      <4> QED
        BY <1>1, <2>1, <2>2, <4>1
    <3> QED
      BY <1>1, <2>2, <3>1
  <2>4. k \in 0 .. n - 1
    BY <1>1, <2>2, <2>3
  <2> QED
    BY <2>2, <2>4
<1> QED
  BY <1>1, <1>2, <1>3, <1>4

(* slicelength counts the cells of the slice, and forward strides over the *)
(* same cells, whichever way the step goes.                                *)
LEMMA SliceCells ==
  ASSUME WellFormed(lp), NEW start \in Indices, NEW stop \in Indices, NEW step \in Steps,
         Clipped(start, stop, step),
         NEW n, n = slicelength(start, stop, step), NEW s, s = forward(start, stop, step)
  PROVE  /\ n \in Nat
         /\ n # 0 => Strides(s, n, lp.size)
         /\ \A p \in Nat : InSlice(p, start, stop, step) <=> \E i \in 0 .. n - 1 : p = Cur(s, i)
<1>1. start \in Int /\ stop \in Int /\ step \in Int /\ step # 0 /\ lp.size \in Nat /\ start >= -1 /\ stop >= -1
  BY StepsAssumption, WidthAssumption DEF Indices, WellFormed
<1>2. CASE step > 0 /\ ~(start < stop)
  <2>1. n = 0
    BY <1>2 DEF slicelength
  <2>2. \A p \in Nat : ~InSlice(p, start, stop, step)
    BY <1>1, <1>2 DEF InSlice
  <2>3. ~ \E i \in 0 .. n - 1 : TRUE
    BY <2>1
  <2> QED
    BY <2>1, <2>2, <2>3
<1>3. CASE step < 0 /\ ~(stop < start)
  <2>1. n = 0
    BY <1>1, <1>3 DEF slicelength
  <2>2. \A p \in Nat : ~InSlice(p, start, stop, step)
    BY <1>1, <1>3 DEF InSlice
  <2>3. ~ \E i \in 0 .. n - 1 : TRUE
    BY <2>1
  <2> QED
    BY <2>1, <2>2, <2>3
<1>4. CASE step > 0 /\ start < stop
  <2> DEFINE x == stop - start - 1
  <2>1. x \in Nat /\ step \in Nat \ {0} /\ n = x \div step + 1 /\ start \in Nat /\ stop <= lp.size
    BY <1>1, <1>4 DEF slicelength, Clipped
  <2> HIDE DEF x
  <2>2. /\ n \in Nat \ {0} /\ (n - 1) * step <= x /\ x < n * step
        /\ \A k \in 0 .. n - 1 : k * step \in 0 .. x
        /\ \A y \in 0 .. x : y % step = 0 <=> \E k \in 0 .. n - 1 : y = k * step
    BY <2>1, Multiples
  <2>3. s.start = start /\ s.stop = stop /\ s.step = step
    BY <1>4 DEF forward
  <2>4. \A k : Cur(s, k) = start + k * step
    BY <2>3 DEF Cur
  <2>5. Strides(s, n, lp.size)
    <3>1. start + (n - 1) * step < stop /\ stop <= start + n * step
      <4> DEFINE u == (n - 1) * step  v == n * step
      <4>1. u \in Int /\ v \in Int /\ u <= x /\ x < v
        BY <2>1, <2>2
      <4> HIDE DEF u, v
      <4>2. start + u < stop /\ stop <= start + v
        BY <1>1, <4>1 DEF x
      <4> QED
        BY <4>2 DEF u, v
    <3>2. stop \in Nat
      BY <1>1, <1>4, <2>1
    <3> QED
      BY <2>1, <2>2, <2>3, <2>4, <3>1, <3>2 DEF Strides
  <2>6. ASSUME NEW p \in Nat
        PROVE  InSlice(p, start, stop, step) <=> \E i \in 0 .. n - 1 : p = Cur(s, i)
    <3>1. InSlice(p, start, stop, step) <=> start <= p /\ p < stop /\ (p - start) % step = 0
      BY <1>4 DEF InSlice
    <3>2. start <= p /\ p < stop <=> p - start \in 0 .. x
      BY <1>1, <2>1 DEF x
    <3>3. \A k \in 0 .. n - 1 : p = Cur(s, k) <=> p - start = k * step
      <4> TAKE k \in 0 .. n - 1
      <4> DEFINE z == k * step
      <4>1. z \in Int /\ Cur(s, k) = start + z
        BY <2>2, <2>4
      <4> HIDE DEF z
      <4>2. p = start + z <=> p - start = z
        BY <1>1, <4>1
      <4> QED
        BY <4>1, <4>2 DEF z
    <3> QED
      BY <2>2, <3>1, <3>2, <3>3
  <2> QED
    BY <2>2, <2>5, <2>6
<1>5. CASE step < 0 /\ stop < start
  <2> DEFINE x == start - stop - 1
             d == -step
             first == start - (n - 1) * d
  <2>1. x \in Nat /\ d \in Nat \ {0} /\ n = x \div d + 1 /\ start \in Nat /\ start <= lp.size - 1
    BY <1>1, <1>5 DEF slicelength, Clipped
  <2> HIDE DEF x
  <2>2. s.start = start + step * (n - 1) /\ s.stop = start + 1 /\ s.step = d
    BY <1>5, <1>1 DEF forward
  <2>3. step * (n - 1) = -((n - 1) * d)
    <3>1. n - 1 \in Int
      BY <2>1
    <3> QED
      BY <1>1, <3>1
  <2> HIDE DEF d
  <2>4. /\ n \in Nat \ {0} /\ (n - 1) * d <= x /\ x < n * d
        /\ \A k \in 0 .. n - 1 : k * d \in 0 .. x
        /\ \A y \in 0 .. x : y % d = 0 <=> \E k \in 0 .. n - 1 : y = k * d
    BY <2>1, Multiples
  <2>5. first \in Nat /\ s.start = first
    <3> DEFINE u == (n - 1) * d
    <3>1. u \in Int /\ u <= x
      BY <2>1, <2>4
    <3>2. s.start = start + (-u)
      BY <2>2, <2>3
    <3> HIDE DEF u
    <3>3. start - u \in Nat /\ s.start = start - u
      BY <1>1, <3>1, <3>2 DEF x
    <3> QED
      BY <3>3 DEF u
  <2>6. \A k \in 0 .. n - 1 : Cur(s, n - 1 - k) = start - k * d
    <3> TAKE k \in 0 .. n - 1
    <3>1. (n - 1 - k) * d = (n - 1) * d - k * d /\ k * d \in Int /\ (n - 1) * d \in Int
      <4>1. n - 1 \in Int /\ k \in Int
        BY <2>4
      <4> QED
        BY <2>1, <4>1
    <3> QED
      BY <1>1, <2>2, <2>5, <3>1 DEF Cur
  <2>7. Strides(s, n, lp.size)
    <3>1. Cur(s, n - 1) = start
      <4>1. 0 \in 0 .. n - 1 /\ n - 1 - 0 = n - 1 /\ start - 0 * d = start
        BY <1>1, <2>1, <2>4
      <4> QED
        BY <2>6, <4>1
    <3>2. Cur(s, n) = start + d
      <4>1. n * d = (n - 1) * d + d /\ (n - 1) * d \in Int
        BY <2>1, <2>4
      <4> QED
        BY <1>1, <2>1, <2>2, <2>5, <4>1 DEF Cur
    <3>3. start < start + 1 /\ start + 1 <= start + d /\ start + 1 <= lp.size /\ start + 1 \in Nat
      BY <1>1, <2>1
    <3>4. d \in Nat \ {0} /\ n \in Nat \ {0}
      BY <2>1, <2>4
    <3> QED
      BY <2>2, <2>5, <3>1, <3>2, <3>3, <3>4 DEF Strides
  <2>8. ASSUME NEW p \in Nat
        PROVE  InSlice(p, start, stop, step) <=> \E i \in 0 .. n - 1 : p = Cur(s, i)
    <3>1. InSlice(p, start, stop, step) <=> stop < p /\ p <= start /\ (start - p) % d = 0
      BY <1>1, <1>5 DEF InSlice, d
    <3>2. stop < p /\ p <= start <=> start - p \in 0 .. x
      BY <1>1, <2>1 DEF x
    <3>3. \A k \in 0 .. n - 1 : p = Cur(s, n - 1 - k) <=> start - p = k * d
      <4> TAKE k \in 0 .. n - 1
      <4> DEFINE z == k * d
      <4>1. z \in Int /\ Cur(s, n - 1 - k) = start - z
        BY <2>4, <2>6
      <4> HIDE DEF z
      <4>2. p = start - z <=> start - p = z
        BY <1>1, <4>1
      <4> QED
        BY <4>1, <4>2 DEF z
    <3>4. \A i \in 0 .. n - 1 : n - 1 - i \in 0 .. n - 1 /\ n - 1 - (n - 1 - i) = i
      BY <2>4
    <3>5. (\E k \in 0 .. n - 1 : start - p = k * d) <=> \E i \in 0 .. n - 1 : p = Cur(s, i)
      <4>1. ASSUME NEW k \in 0 .. n - 1, start - p = k * d
            PROVE  \E i \in 0 .. n - 1 : p = Cur(s, i)
        <5>1. n - 1 - k \in 0 .. n - 1 /\ p = Cur(s, n - 1 - k)
          BY <3>3, <3>4, <4>1
        <5> QED
          BY <5>1
      <4>2. ASSUME NEW i \in 0 .. n - 1, p = Cur(s, i)
            PROVE  \E k \in 0 .. n - 1 : start - p = k * d
        <5> DEFINE k == n - 1 - i
        <5>1. k \in 0 .. n - 1 /\ n - 1 - k = i
          BY <3>4
        <5> HIDE DEF k
        <5>2. start - p = k * d
          BY <3>3, <4>2, <5>1
        <5> QED
          BY <5>1, <5>2
      <4> QED
        BY <4>1, <4>2
    <3> QED
      BY <2>4, <3>1, <3>2, <3>5
  <2> QED
    BY <2>4, <2>7, <2>8
<1> QED
  BY <1>1, <1>2, <1>3, <1>4, <1>5

(* The positions of the first k cells a slice deletes.                     *)
Gone(s, k) == {Cur(s, i) + 1 : i \in 0 .. k - 1}

LEMMA GoneCardinality ==
  ASSUME NEW s, s.start \in Nat, s.step \in Nat \ {0}, NEW n \in Nat
  PROVE  /\ IsFiniteSet(Gone(s, n)) /\ Cardinality(Gone(s, n)) = n
         /\ \A x \in Gone(s, n) : x \in Nat /\ x <= Cur(s, n)
<1> DEFINE A == {k \in Nat : /\ IsFiniteSet(Gone(s, k)) /\ Cardinality(Gone(s, k)) = k
                             /\ \A x \in Gone(s, k) : x \in Nat /\ x <= Cur(s, k)}
<1>1. 0 \in A
  <2>1. Gone(s, 0) = {}
    BY DEF Gone
  <2> QED
    BY <2>1, FS_EmptySet
<1>2. ASSUME NEW k \in Nat, k \in A PROVE k + 1 \in A
  <2>1. Gone(s, k + 1) = Gone(s, k) \cup {Cur(s, k) + 1}
    <3>1. \A i : i \in 0 .. (k + 1) - 1 <=> i \in 0 .. k - 1 \/ i = k
      OBVIOUS
    <3> QED
      BY <3>1, Zenon DEF Gone
  <2>2. Cur(s, k) \in Nat /\ Cur(s, k + 1) = Cur(s, k) + s.step
    BY Apart
  <2>3. \A x \in Gone(s, k + 1) : x \in Nat /\ x <= Cur(s, k + 1)
    BY <1>2, <2>1, <2>2
  <2>4. Cur(s, k) + 1 \notin Gone(s, k)
    BY <1>2, <2>2
  <2>5. /\ IsFiniteSet(Gone(s, k) \cup {Cur(s, k) + 1})
        /\ Cardinality(Gone(s, k) \cup {Cur(s, k) + 1}) = k + 1
    BY <1>2, <2>4, FS_AddElement
  <2> QED
    BY <2>1, <2>3, <2>5
<1>3. A = Nat
  <2> HIDE DEF A
  <2> QED
    BY <1>1, <1>2, NatSetInduction, A \in SUBSET Nat DEF A
<1> QED
  BY <1>3

(* Shift counts the deleted cells before a cell that is kept.              *)
LEMMA ShiftCounts ==
  ASSUME NEW s, NEW n, NEW size, Strides(s, n, size), NEW q \in Nat,
         \A i \in 0 .. n - 1 : q # Cur(s, i)
  PROVE  /\ Shift(s, n, q) \in 0 .. n
         /\ {p \in Gone(s, n) : p < q + 1} = Gone(s, Shift(s, n, q))
<1> DEFINE t == Shift(s, n, q)
<1>1. s.start \in Nat /\ s.step \in Nat \ {0} /\ n \in Nat \ {0}
  BY DEF Strides
<1>2. /\ t \in 0 .. n
      /\ t > 0 => Cur(s, t - 1) <= q
      /\ t < n => q < Cur(s, t)
  <2>1. CASE q < s.start /\ Shift(s, n, q) = 0
    BY <1>1, <2>1, Apart
  <2>2. CASE \E r \in 1 .. n : Cur(s, r - 1) <= q /\ q < Cur(s, r) /\ Shift(s, n, q) = r
    BY <1>1, <2>2
  <2>3. CASE Cur(s, n) <= q /\ Shift(s, n, q) = n
    <3>1. n - 1 \in Nat /\ (n - 1) + 1 = n
      BY <1>1
    <3>2. Cur(s, n - 1) \in Nat /\ Cur(s, (n - 1) + 1) = Cur(s, n - 1) + s.step
      BY <1>1, <3>1, Apart
    <3>3. Cur(s, n - 1) <= q
      BY <1>1, <2>3, <3>1, <3>2
    <3> QED
      BY <1>1, <2>3, <3>3
  <2> QED
    BY <2>1, <2>2, <2>3, WhereCellsAre
<1> HIDE DEF t
<1>3. ASSUME NEW i \in 0 .. n - 1 PROVE Cur(s, i) + 1 < q + 1 <=> i \in 0 .. t - 1
  <2>1. i \in Nat /\ t \in Nat /\ Cur(s, i) \in Nat
    BY <1>1, <1>2, Apart
  <2>2. CASE i < t
    <3>1. t - 1 \in Nat /\ i <= t - 1 /\ (i = t - 1 \/ i < t - 1) /\ t > 0
      BY <2>1, <2>2
    <3>2. Cur(s, t - 1) \in Nat /\ (i < t - 1 => Cur(s, i) + s.step <= Cur(s, t - 1))
      BY <1>1, <2>1, <3>1, Apart
    <3>3. Cur(s, i) <= q /\ Cur(s, i) # q
      <4>1. Cur(s, t - 1) <= q
        BY <1>2, <3>1
      <4> QED
        BY <1>1, <2>1, <3>1, <3>2, <4>1
    <3> QED
      BY <2>1, <2>2, <3>3
  <2>3. CASE ~(i < t)
    <3>1. t < n /\ (i = t \/ t < i)
      BY <1>1, <2>1, <2>3
    <3>2. Cur(s, t) \in Nat /\ (t < i => Cur(s, t) + s.step <= Cur(s, i))
      BY <1>1, <2>1, <3>1, Apart
    <3>3. q < Cur(s, i)
      <4>1. q < Cur(s, t)
        BY <1>2, <3>1
      <4> QED
        BY <1>1, <2>1, <3>1, <3>2, <4>1
    <3> QED
      BY <2>1, <2>3, <3>3
  <2> QED
    BY <2>2, <2>3
<1>4. \A i \in 0 .. t - 1 : i \in 0 .. n - 1
  BY <1>1, <1>2
<1>5. {p \in Gone(s, n) : p < q + 1} = Gone(s, t)
  BY <1>3, <1>4, Zenon DEF Gone
<1> QED
  BY <1>2, <1>5 DEF t

(* Deleting a slice moves cells within the block.                          *)
LEMMA WithoutSliceType ==
  ASSUME NEW l, WellFormed(l), NEW s, NEW n, Strides(s, n, l.size)
  PROVE  without_slice(l, s, n) \in [0 .. l.allocated - 1 -> Cell]
<1> DEFINE A == l.allocated
<1>1. /\ A \in Nat /\ l.size \in Nat /\ l.size <= A /\ l.items \in [0 .. A - 1 -> Cell]
      /\ s.start \in Nat /\ n \in Nat \ {0} /\ s.stop \in Nat /\ s.stop <= l.size
  BY WidthAssumption DEF WellFormed, Strides
<1>2. Cur(s, n) \in Nat /\ s.start + n <= Cur(s, n) /\ s.start <= s.stop
  <2>1. s.step \in Nat \ {0} /\ n - 1 \in Nat
    BY DEF Strides
  <2>2. Cur(s, n) \in Nat /\ s.start + n <= Cur(s, n)
        /\ Cur(s, n - 1) \in Nat /\ s.start + (n - 1) <= Cur(s, n - 1)
    BY <1>1, <2>1, Apart
  <2>3. Cur(s, n - 1) < s.stop
    BY DEF Strides
  <2> QED
    BY <1>1, <2>2, <2>3
<1>3. packed(l, s, n) \in [0 .. A - 1 -> Cell]
  BY PackedCells DEF Packed
<1> HIDE DEF A
<1>4. ASSUME NEW c \in [0 .. A - 1 -> Cell], NEW dst \in Nat, NEW src \in Nat, NEW k \in Nat,
             dst <= src, src + k <= A
      PROVE  memmove(c, dst, src, k) \in [0 .. A - 1 -> Cell]
  <2>1. \A i \in 0 .. A - 1 : i \in dst .. dst + k - 1 => i - dst + src \in 0 .. A - 1
    BY <1>1, <1>4
  <2> QED
    BY <2>1 DEF memmove
<1>5. CASE s.step = 1
  <2>1. l.size - s.stop \in Nat /\ s.stop + (l.size - s.stop) <= A
    BY <1>1
  <2> QED
    BY <1>1, <1>2, <1>4, <1>5, <2>1 DEF without_slice, A
<1>6. CASE s.step # 1 /\ Cur(s, n) < l.size
  <2>1. /\ l.size - Cur(s, n) \in Nat /\ Cur(s, n) + (l.size - Cur(s, n)) <= A
        /\ Cur(s, n) - n \in Nat /\ Cur(s, n) - n <= Cur(s, n)
    BY <1>1, <1>2, <1>6
  <2>2. memmove(packed(l, s, n), Cur(s, n) - n, Cur(s, n), l.size - Cur(s, n)) \in [0 .. A - 1 -> Cell]
    BY <1>2, <1>3, <1>4, <2>1
  <2> QED
    BY <1>6, <2>2 DEF without_slice, A, Cur
<1>7. CASE s.step # 1 /\ ~(Cur(s, n) < l.size)
  BY <1>3, <1>7 DEF without_slice, A, Cur
<1> QED
  BY <1>5, <1>6, <1>7 DEF A

(* There are m positions up to m.                                          *)
LEMMA UptoCardinality ==
  ASSUME NEW m \in Nat
  PROVE  IsFiniteSet(1 .. m) /\ Cardinality(1 .. m) = m
<1>1. IsFiniteSet(1 .. m) /\ Cardinality(1 .. m) = IF 1 > m THEN 0 ELSE m - 1 + 1
  BY FS_Interval
<1> QED
  BY <1>1

(* What is left when some elements go.                                     *)
LEMMA Removed ==
  ASSUME NEW S, IsFiniteSet(S), NEW T \in SUBSET S
  PROVE  IsFiniteSet(S \ T) /\ Cardinality(S \ T) = Cardinality(S) - Cardinality(T)
<1>1. IsFiniteSet(S \ T) /\ Cardinality(S \ T) = Cardinality(S) - Cardinality(S \cap T)
  BY FS_Difference
<1>2. S \cap T = T
  OBVIOUS
<1> QED
  BY <1>1, <1>2, Zenon

(* The packed cells are the items the slice keeps, in order.               *)
LEMMA PackedIsWithout ==
  ASSUME WellFormed(lp), NEW s, NEW n, Strides(s, n, lp.size)
  PROVE  /\ n <= lp.size
         /\ without_slice(lp, s, n) \in [0 .. lp.allocated - 1 -> Cell]
         /\ [m \in 1 .. lp.size - n |-> without_slice(lp, s, n)[m - 1]] = Without(list, Gone(s, n))
         /\ \A m \in 1 .. lp.size - n : \E k \in 1 .. lp.size :
              without_slice(lp, s, n)[m - 1] = list[k]
<1> DEFINE G == Gone(s, n)
           P == 1 .. lp.size
           K == P \ G
           W == without_slice(lp, s, n)
           Below(k) == {j \in K : j < k}
           C(k) == Cardinality(Below(k))
<1>1. /\ lp.size \in Nat /\ s.start \in Nat /\ s.step \in Nat \ {0} /\ n \in Nat \ {0}
  BY DEF WellFormed, Strides
<1>2. IsFiniteSet(G) /\ Cardinality(G) = n
  BY <1>1, GoneCardinality
<1>3. \A i \in 0 .. n - 1 : Cur(s, i) \in Nat /\ Cur(s, i) < lp.size
  <2> TAKE i \in 0 .. n - 1
  <2>1. i \in Nat /\ n - 1 \in Nat /\ (i = n - 1 \/ i < n - 1)
    BY <1>1
  <2>2. Cur(s, i) \in Nat /\ Cur(s, n - 1) \in Nat
        /\ (i < n - 1 => Cur(s, i) + s.step <= Cur(s, n - 1))
    BY <1>1, <2>1, Apart
  <2>3. Cur(s, n - 1) < lp.size
    BY <1>1, <2>2 DEF Strides
  <2> QED
    BY <1>1, <2>1, <2>2, <2>3
<1>4. G \subseteq P
  <2>1. \A i \in 0 .. n - 1 : Cur(s, i) + 1 \in P
    BY <1>1, <1>3
  <2> QED
    BY <2>1 DEF Gone
<1>5. /\ IsFiniteSet(P) /\ Cardinality(P) = lp.size
      /\ IsFiniteSet(K) /\ Cardinality(K) = lp.size - n /\ n <= lp.size
  <2>1. IsFiniteSet(P) /\ Cardinality(P) = lp.size
    BY <1>1, UptoCardinality
  <2>2. G \in SUBSET P
    BY <1>4
  <2> HIDE DEF P, G
  <2>3. IsFiniteSet(K) /\ Cardinality(K) = lp.size - n
    BY <1>2, <2>1, <2>2, Removed DEF K
  <2>4. n <= lp.size
    BY <1>2, <1>4, <2>1, FS_Subset
  <2> QED
    BY <2>1, <2>3, <2>4
<1>6. \A k \in K : k - 1 \in 0 .. lp.size - 1 /\ \A i \in 0 .. n - 1 : k - 1 # Cur(s, i)
  <2> SUFFICES ASSUME NEW k \in K, NEW i \in 0 .. n - 1, k - 1 = Cur(s, i) PROVE FALSE
    BY <1>1
  <2>1. k = Cur(s, i) + 1
    BY <1>1
  <2> QED
    BY <2>1 DEF Gone
<1>7. W \in [0 .. lp.allocated - 1 -> Cell]
  BY WithoutSliceType
<1>8. ASSUME NEW k \in K PROVE W[C(k)] = list[k] /\ C(k) \in Nat
  <2> DEFINE q == k - 1
             t == Shift(s, n, q)
  <2>1. q \in 0 .. lp.size - 1 /\ q \in Nat /\ k = q + 1 /\ \A i \in 0 .. n - 1 : q # Cur(s, i)
    BY <1>1, <1>6
  <2> HIDE DEF q
  <2>2. t \in 0 .. n /\ {p \in G : p < q + 1} = Gone(s, t)
    BY <2>1, ShiftCounts
  <2>3. W[q - t] = lp.items[q]
    BY <2>1, KeptCellsMove
  <2>4. Below(k) = (1 .. q) \ G
    <3>1. \A j : j \in P /\ j < k <=> j \in 1 .. q
      BY <1>1, <2>1
    <3> QED
      BY <3>1, Zenon
  <2>5. (1 .. q) \cap G = Gone(s, t)
    <3>1. \A j \in P : j < q + 1 <=> j \in 1 .. q
      BY <1>1, <2>1
    <3> QED
      BY <1>4, <2>2, <3>1, Zenon
  <2>6. Cardinality((1 .. q) \ Gone(s, t)) = q - t
    <3>1. IsFiniteSet(1 .. q) /\ Cardinality(1 .. q) = q
      BY <2>1, UptoCardinality
    <3>2. Cardinality(Gone(s, t)) = t
      BY <1>1, <2>2, GoneCardinality
    <3>3. Gone(s, t) \in SUBSET (1 .. q)
      BY <2>5, Zenon
    <3> HIDE DEF G, t
    <3> QED
      BY ONLY <3>1, <3>2, <3>3, Removed
  <2>7. C(k) = q - t
    <3>1. (1 .. q) \ G = (1 .. q) \ Gone(s, t)
      BY <2>5, Zenon
    <3> QED
      BY <2>4, <2>6, <3>1
  <2>8. list[k] = lp.items[q]
    BY <1>1, <2>1 DEF list, contents
  <2>9. C(k) \in Nat
    <3>1. Below(k) \in SUBSET K
      OBVIOUS
    <3> QED
      BY <1>5, <3>1, FS_Subset, FS_CardinalityType
  <2> QED
    BY <2>3, <2>7, <2>8, <2>9
<1>9. ASSUME NEW m \in 1 .. lp.size - n PROVE \E k \in K : C(k) = m - 1
  <2>1. K \in SUBSET Nat /\ \A k \in K : k < lp.size + 1
    BY <1>1
  <2>2. m \in 1 .. Cardinality(K) /\ lp.size + 1 \in Nat
    BY <1>1, <1>5
  <2> HIDE DEF K
  <2> QED
    BY <1>5, <2>1, <2>2, RankTaken
<1> DEFINE nth(m) == CHOOSE k \in K : C(k) = m - 1
<1>10. ASSUME NEW m \in 1 .. lp.size - n PROVE nth(m) \in K /\ C(nth(m)) = m - 1
  <2> HIDE DEF K, C
  <2> QED
    BY <1>9
<1>11. Without(list, G) = [m \in 1 .. lp.size - n |-> list[nth(m)]]
  <2>1. DOMAIN list = P
    BY DEF list, contents
  <2> QED
    BY <1>5, <2>1 DEF Without
<1> HIDE DEF nth, C, K, W
<1>12. \A m \in 1 .. lp.size - n : W[m - 1] = list[nth(m)] /\ nth(m) \in K
  BY <1>8, <1>10
<1>13. [m \in 1 .. lp.size - n |-> W[m - 1]] = [m \in 1 .. lp.size - n |-> list[nth(m)]]
  BY <1>12
<1> QED
  BY <1>5, <1>7, <1>11, <1>12, <1>13 DEF W, K

(* Every slice a program can write, on every list.                         *)
LEMMA ExactSlice ==
  ASSUME WellFormed(lp), NEW start \in Indices, NEW stop \in Indices, NEW step \in Steps,
         Clipped(start, stop, step),
         NEW n, n = slicelength(start, stop, step), NEW s, s = forward(start, stop, step),
         NEW sliced, sliced = {p \in DOMAIN list : InSlice(p - 1, start, stop, step)}
  PROVE  /\ n \in Nat /\ (n # 0 => Strides(s, n, lp.size))
         /\ Cardinality(sliced) = n
         /\ n # 0 => sliced = Gone(s, n)
<1>1. /\ n \in Nat /\ (n # 0 => Strides(s, n, lp.size))
      /\ \A p \in Nat : InSlice(p, start, stop, step) <=> \E i \in 0 .. n - 1 : p = Cur(s, i)
  BY SliceCells
<1>2. DOMAIN list = 1 .. lp.size /\ lp.size \in Nat
  BY DEF list, contents, WellFormed
<1>3. \A p \in DOMAIN list : p - 1 \in Nat /\ p \in Nat
  BY <1>2
<1>4. CASE n = 0
  <2>1. ~ \E i \in 0 .. n - 1 : TRUE
    BY <1>4
  <2>2. sliced = {}
    BY <1>1, <1>3, <2>1
  <2> QED
    BY <1>1, <1>4, <2>2, FS_EmptySet
<1>5. CASE n # 0
  <2>1. s.start \in Nat /\ s.step \in Nat \ {0} /\ n \in Nat \ {0} /\ Strides(s, n, lp.size)
    BY <1>1, <1>5 DEF Strides
  <2>2. \A i \in 0 .. n - 1 : Cur(s, i) \in Nat /\ Cur(s, i) + 1 \in DOMAIN list
    <3> TAKE i \in 0 .. n - 1
    <3>1. i \in Nat /\ n - 1 \in Nat /\ (i = n - 1 \/ i < n - 1)
      BY <2>1
    <3>2. Cur(s, i) \in Nat /\ Cur(s, n - 1) \in Nat
          /\ (i < n - 1 => Cur(s, i) + s.step <= Cur(s, n - 1))
      BY <2>1, <3>1, Apart
    <3>3. Cur(s, n - 1) < lp.size
      BY <1>2, <2>1, <3>2 DEF Strides
    <3> QED
      BY <1>2, <2>1, <3>1, <3>2, <3>3
  <2>3. \A p \in DOMAIN list : \A i \in 0 .. n - 1 : p - 1 = Cur(s, i) <=> p = Cur(s, i) + 1
    BY <1>3, <2>2
  <2>4. \A p \in DOMAIN list : InSlice(p - 1, start, stop, step) <=> \E i \in 0 .. n - 1 : p = Cur(s, i) + 1
    BY <1>1, <1>3, <2>3
  <2>5. sliced = Gone(s, n)
    <3>1. \A p : p \in Gone(s, n) <=> \E i \in 0 .. n - 1 : p = Cur(s, i) + 1
      BY Zenon DEF Gone
    <3>2. \A p \in Gone(s, n) : p \in DOMAIN list
      BY <2>2, <3>1
    <3>3. \A p \in DOMAIN list : p \in sliced <=> p \in Gone(s, n)
      BY <2>4, <3>1
    <3>4. sliced \subseteq DOMAIN list
      OBVIOUS
    <3> QED
      BY <3>2, <3>3, <3>4
  <2> QED
    BY <1>1, <2>1, <2>5, GoneCardinality
<1> QED
  BY <1>4, <1>5

LEMMA SlicesExact == WellFormed(lp) => SliceIsExact
<1> SUFFICES ASSUME WellFormed(lp), NEW start \in Indices, NEW stop \in Indices, NEW step \in Steps,
                    Clipped(start, stop, step)
             PROVE  LET n == slicelength(start, stop, step)
                        after == without_slice(lp, forward(start, stop, step), n)
                        sliced == {p \in DOMAIN list : InSlice(p - 1, start, stop, step)}
                    IN  /\ Cardinality(sliced) = n
                        /\ n > 0 => [m \in 1 .. lp.size - n |-> after[m - 1]] = Without(list, sliced)
  BY DEF SliceIsExact
<1> DEFINE n == slicelength(start, stop, step)
           s == forward(start, stop, step)
           sliced == {p \in DOMAIN list : InSlice(p - 1, start, stop, step)}
<1> HIDE DEF n, s, sliced
<1>1. /\ n \in Nat /\ (n # 0 => Strides(s, n, lp.size))
      /\ Cardinality(sliced) = n
      /\ n # 0 => sliced = Gone(s, n)
  BY ExactSlice DEF n, s, sliced
<1>2. ASSUME n > 0
      PROVE  [m \in 1 .. lp.size - n |-> without_slice(lp, s, n)[m - 1]] = Without(list, sliced)
  <2>1. n # 0
    BY <1>2
  <2> QED
    BY <1>1, <2>1, PackedIsWithout
<1> QED
  BY <1>1, <1>2 DEF n, s, sliced

(* Removing no position removes nothing.                                   *)
LEMMA NothingRemoved ==
  ASSUME WellFormed(lp)
  PROVE  Without(list, {}) = list
<1> DEFINE P == 1 .. lp.size
           C(k) == Cardinality({j \in P : j < k})
           nth(m) == CHOOSE k \in P : C(k) = m - 1
<1>1. lp.size \in Nat /\ DOMAIN list = P /\ list = [k \in P |-> list[k]]
  BY DEF WellFormed, list, contents
<1>2. Without(list, {}) = [m \in 1 .. Cardinality(P) |-> list[nth(m)]]
  <2>1. DOMAIN list \ {} = P
    BY <1>1
  <2> QED
    BY <2>1 DEF Without
<1>3. Cardinality(P) = lp.size
  BY <1>1, UptoCardinality
<1>4. ASSUME NEW k \in P PROVE C(k) = k - 1
  <2>1. k - 1 \in Nat
    BY <1>1
  <2>2. \A j : j \in P /\ j < k <=> j \in 1 .. k - 1
    BY <1>1
  <2>3. {j \in P : j < k} = 1 .. k - 1
    BY <2>2, Zenon
  <2> QED
    BY <2>1, <2>3, UptoCardinality
<1> HIDE DEF C
<1>5. ASSUME NEW m \in P PROVE nth(m) = m
  <2>1. C(m) = m - 1 /\ \A k \in P : C(k) = m - 1 => k = m
    BY <1>1, <1>4
  <2> QED
    BY <2>1
<1> HIDE DEF nth
<1> QED
  BY <1>1, <1>2, <1>3, <1>5

(* Deleting a slice succeeds, whether or not it returns memory, and leaves *)
(* the items the slice does not name, in order.                            *)
LEMMA DeleteSliceStep ==
  ASSUME ListInv, NEW start \in Indices, NEW stop \in Indices, NEW step \in Steps,
         Clipped(start, stop, step), DeleteSlice(start, stop, step)
  PROVE  /\ ListInv' /\ PaidFor /\ (Fails \/ status' = "LIST_OK")
         /\ list' = IF mutable
                      THEN Without(list, {p \in DOMAIN list : InSlice(p - 1, start, stop, step)})
                      ELSE list
<1> DEFINE n == slicelength(start, stop, step)
           s == forward(start, stop, step)
           sliced == {p \in DOMAIN list : InSlice(p - 1, start, stop, step)}
<1>0. WellFormed(lp) /\ mutable \in BOOLEAN /\ base \in Nat
  BY DEF ListInv
<1>1. IF ~mutable THEN Return("LIST_ERR_IMMUTABLE", lp)
      ELSE IF n <= 0 THEN Return("LIST_OK", lp)
      ELSE IF lp.size < s.stop THEN Return("undefined", lp)
      ELSE \E r \in resize([lp EXCEPT !.items = without_slice(lp, s, n)], lp.size - n) :
             ReturnResized(r, r[2])
  BY DEF DeleteSlice
<1>2. /\ list \in Seq(Items) /\ Len(list) = lp.size /\ lp.size \in Nat /\ DOMAIN list = 1 .. lp.size
      /\ \A k \in 1 .. lp.size : list[k] = lp.items[k - 1]
  BY Contents DEF ListInv, list
<1>3. sliced \subseteq DOMAIN list
  OBVIOUS
<1> HIDE DEF n, s, sliced
<1>4. /\ n \in Nat /\ (n # 0 => Strides(s, n, lp.size))
      /\ Cardinality(sliced) = n
      /\ n # 0 => sliced = Gone(s, n)
  <2>1. /\ n = slicelength(start, stop, step) /\ s = forward(start, stop, step)
        /\ sliced = {p \in DOMAIN list : InSlice(p - 1, start, stop, step)}
    BY DEF n, s, sliced
  <2>2. Clipped(start, stop, step)
    OBVIOUS
  <2> QED
    BY ONLY <1>0, <2>1, <2>2, ExactSlice, start \in Indices, stop \in Indices, step \in Steps
<1> SUFFICES /\ ListInv' /\ PaidFor /\ (Fails \/ status' = "LIST_OK")
             /\ list' = IF mutable THEN Without(list, sliced) ELSE list
  BY DEF sliced
<1>5. CASE ~mutable
  <2>1. Fails /\ UNCHANGED <<mutable, base>>
    BY <1>1, <1>5 DEF Return, Fails, Errors
  <2>2. list' = list
    BY <2>1 DEF Fails, list, contents
  <2> QED
    BY <1>5, <2>1, <2>2, FailedStep
<1>6. CASE mutable /\ n = 0
  <2>1. lp' = lp /\ status' = "LIST_OK" /\ UNCHANGED <<mutable, base>>
    BY <1>1, <1>6 DEF Return
  <2>2. ListInv' /\ PaidFor
    BY <2>1 DEF ListInv, PaidFor, WellFormed, AllWritten, new_allocated
  <2>3. sliced = {}
    <3>1. IsFiniteSet(DOMAIN list)
      BY <1>2, UptoCardinality
    <3>2. IsFiniteSet(sliced)
      BY <1>3, <3>1, FS_Subset
    <3> QED
      BY <1>4, <1>6, <3>2, FS_EmptySet
  <2>4. Without(list, {}) = list
    BY <1>0, NothingRemoved
  <2>5. list' = list
    BY <2>1 DEF list, contents
  <2> QED
    BY <1>6, <2>1, <2>2, <2>3, <2>4, <2>5
<1>7. CASE mutable /\ n # 0
  <2> DEFINE W == without_slice(lp, s, n)
             l == [lp EXCEPT !.items = W]
             m == lp.size - n
  <2>1. Strides(s, n, lp.size) /\ sliced = Gone(s, n) /\ n > 0
    BY <1>4, <1>7
  <2>2. /\ n <= lp.size
        /\ W \in [0 .. lp.allocated - 1 -> Cell]
        /\ [k \in 1 .. lp.size - n |-> W[k - 1]] = Without(list, Gone(s, n))
        /\ \A k \in 1 .. lp.size - n : \E j \in 1 .. lp.size : W[k - 1] = list[j]
    BY <1>0, <2>1, PackedIsWithout
  <2>3. lp.size \in Nat /\ s.stop \in Nat /\ s.stop <= lp.size /\ lp.allocated \in Nat /\ lp.size <= lp.allocated
    BY <1>0, <2>1, WidthAssumption DEF Strides, WellFormed
  <2>4. PICK r \in resize(l, m) : ReturnResized(r, r[2])
    BY <1>4, <1>1, <1>7, <2>1, <2>3
  <2> HIDE DEF W
  <2>5. /\ m \in Nat /\ m <= lp.allocated
        /\ l.size = lp.size /\ l.allocated = lp.allocated /\ l.null = lp.null /\ l.items = W
        /\ WellFormed(l)
    BY <1>0, <1>4, <2>2, <2>3 DEF WellFormed
  <2>6. \A k \in 1 .. m : W[k - 1] \in Items
    <3> TAKE k \in 1 .. m
    <3>1. PICK j \in 1 .. lp.size : W[k - 1] = list[j]
      BY <2>2
    <3> QED
      BY <1>2, <3>1
  <2>7. [k \in 1 .. m |-> W[k - 1]] = Without(list, sliced)
    BY <2>1, <2>2
  <2> HIDE DEF l, m
  <2>8. /\ r[1] = "LIST_OK" /\ WellFormed(r[2]) /\ r[2].size = m
        /\ r[2].allocated = IF fits(l, m) THEN l.allocated ELSE new_allocated(m)
        /\ \A i \in 0 .. l.allocated - 1 : i < m => r[2].items[i] = l.items[i]
    <3>1. ~(r[1] = "LIST_ERR_NO_MEMORY" /\ m > l.allocated)
      BY <2>3, <2>5
    <3> QED
      BY <1>0, <1>7, <2>4, <2>5, <3>1, ResizeOutcome DEF Errors
  <2>9. lp' = r[2] /\ status' = "LIST_OK" /\ mutable' = mutable
    BY <2>4, <2>8 DEF ReturnResized
  <2>10. \A k \in 1 .. m : lp'.items[k - 1] = W[k - 1]
    <3> TAKE k \in 1 .. m
    <3>1. k - 1 \in 0 .. l.allocated - 1 /\ k - 1 < m
      BY <2>3, <2>5
    <3> QED
      BY <2>5, <2>8, <2>9, <3>1
  <2>11. AllWritten(lp)'
    <3>1. \A i \in 0 .. m - 1 : i + 1 \in 1 .. m /\ (i + 1) - 1 = i
      BY <2>5
    <3>2. \A i \in 0 .. m - 1 : lp'.items[i] \in Items
      BY <2>6, <2>10, <3>1
    <3> QED
      BY <2>8, <2>9, <3>2 DEF AllWritten
  <2>12. /\ base' \in Nat
         /\ base' = 0 \/ lp'.allocated = new_allocated(base')
         /\ PaidFor
    <3>1. r[2].allocated = IF fits(lp, m) THEN lp.allocated ELSE new_allocated(m)
      BY <2>5, <2>8 DEF fits
    <3> QED
      BY <2>4, <2>5, <2>8, <2>9, <3>1, BaseKept DEF PaidFor
  <2>13. ListInv'
    BY <1>0, <2>8, <2>9, <2>11, <2>12 DEF ListInv
  <2>14. list' = [k \in 1 .. m |-> W[k - 1]]
    <3>1. list' = [k \in 1 .. m |-> lp'.items[k - 1]]
      BY <2>8, <2>9 DEF list, contents
    <3> QED
      BY <2>10, <3>1
  <2> QED
    BY <1>7, <2>7, <2>9, <2>12, <2>13, <2>14
<1> QED
  BY <1>0, <1>5, <1>6, <1>7

(* Each call of the C interface keeps the invariant, pays for its realloc  *)
(* and runs out of memory only by growing.                                 *)
LEMMA ListStep ==
  ASSUME ListInv, [Next]_vars
  PROVE  /\ ListInv' /\ PaidFor
         /\ status' = "LIST_ERR_NO_MEMORY" =>
              lp' = lp /\ (lp.size = lp.allocated \/ status = "LIST_ERR_NO_MEMORY")
<1>0. \A index \in Indices : index \in -(MaxAllocated + 1) .. MaxAllocated
  BY WidthAssumption DEF Indices
<1>1. ASSUME NEW item \in Items, AppendItem(item)
      PROVE  ListInv' /\ PaidFor /\ (Fails \/ status' = "LIST_OK")
  BY <1>1, AppendStep
<1>2. ASSUME NEW i \in Indices, NEW item \in Items, SetItem(i, item)
      PROVE  ListInv' /\ PaidFor /\ (Fails \/ status' = "LIST_OK")
  BY <1>0, <1>2, SetItemStep
<1>3. ASSUME NEW i \in Indices, DelItem(i)
      PROVE  ListInv' /\ PaidFor /\ (Fails \/ status' = "LIST_OK")
  BY <1>0, <1>3, DelItemStep
<1>4. ASSUME Clear
      PROVE  ListInv' /\ PaidFor /\ (Fails \/ status' = "LIST_OK")
  BY <1>4, ClearStep
<1>5. ASSUME NEW start \in Indices, NEW stop \in Indices, NEW step \in Steps,
             Clipped(start, stop, step), DeleteSlice(start, stop, step)
      PROVE  ListInv' /\ PaidFor /\ (Fails \/ status' = "LIST_OK")
  BY <1>5, DeleteSliceStep
<1>6. ASSUME NEW b \in BOOLEAN, SetMutable(b)
      PROVE  ListInv' /\ PaidFor /\ lp' = lp /\ status' = status
  BY <1>6 DEF SetMutable, ListInv, PaidFor, WellFormed, AllWritten, new_allocated
<1>7. ASSUME UNCHANGED vars
      PROVE  ListInv' /\ PaidFor /\ lp' = lp /\ status' = status
  BY <1>7 DEF vars, ListInv, PaidFor, WellFormed, AllWritten, new_allocated
<1> DEFINE RunsOut ==
      status' = "LIST_ERR_NO_MEMORY" =>
        lp' = lp /\ (lp.size = lp.allocated \/ status = "LIST_ERR_NO_MEMORY")
<1>8. (Fails => RunsOut) /\ (status' = "LIST_OK" => RunsOut)
      /\ (lp' = lp /\ status' = status => RunsOut)
  BY DEF Fails
<1> HIDE DEF RunsOut
<1>9. ListInv' /\ PaidFor /\ RunsOut
  BY <1>1, <1>2, <1>3, <1>4, <1>5, <1>6, <1>7, <1>8 DEF Next, Mutate
<1> QED
  BY <1>9 DEF RunsOut

(* The invariant of every program in C over one list, made immutable and   *)
(* mutable again as it likes.                                              *)
THEOREM ListInvariant == Spec => []ListInv
<1>1. Init => ListInv
  BY InitListInv
<1>2. ListInv /\ [Next]_vars => ListInv'
  BY ListStep
<1> QED
  BY <1>1, <1>2, PTL DEF Spec

(* numba_list_delete_slice removes exactly the slice: start and stop       *)
(* anywhere Python's slice.indices puts them, any step, any list.          *)
THEOREM SlicesAreExact == Spec => []SliceIsExact
<1>1. ListInv => SliceIsExact
  BY SlicesExact DEF ListInv
<1> QED
  BY <1>1, ListInvariant, PTL

(* The header's invariants, the assert of numba_list_resize and the cells  *)
(* of the list, with deletes of slices among the calls.                    *)
THEOREM CallsKeepHeader == Spec => [](HeaderInvariants /\ AssertHolds /\ LiveCellsWritten)
<1>1. ListInv => HeaderInvariants
  BY WidthAssumption DEF ListInv, WellFormed, HeaderInvariants
<1>2. ListInv => AssertHolds
  BY DEF ListInv, AssertHolds, Errors
<1>3. ListInv => LiveCellsWritten
  BY ItemsAssumption DEF ListInv, AllWritten, LiveCellsWritten
<1> QED
  BY <1>1, <1>2, <1>3, ListInvariant, PTL

(* The C calls do what Python's list does and refuse the same indices; an  *)
(* append that does not succeed and a call on an immutable list leave the  *)
(* list as it was.                                                         *)
THEOREM CallsArePython == Spec => CallsAreExact
<1>1. ASSUME ListInv, NEW item \in Items, AppendItem(item)
      PROVE  list' = IF status' = "LIST_OK" THEN Append(list, item) ELSE list
  <2>1. Fails => list' = list /\ status' # "LIST_OK"
    BY DEF Fails, Errors, list, contents
  <2> QED
    BY <1>1, <2>1, AppendStep
<1>2. \A index \in Indices : index \in -(MaxAllocated + 1) .. MaxAllocated
  BY WidthAssumption DEF Indices
<1>3. ASSUME ListInv, NEW index \in Indices
      PROVE  index + 1 \in DOMAIN list <=> index \in 0 .. lp.size - 1
  <2>1. DOMAIN list = 1 .. lp.size /\ lp.size \in Nat /\ index \in Int
    BY <1>2, <1>3 DEF list, contents, ListInv, WellFormed
  <2> QED
    BY <2>1
<1>4. Fails => list' = list
  BY DEF Fails, list, contents
<1>5. ASSUME ListInv, NEW index \in Indices, NEW item \in Items, SetItem(index, item)
      PROVE  list' = IF mutable /\ index + 1 \in DOMAIN list
                       THEN [list EXCEPT ![index + 1] = item] ELSE list
  BY <1>2, <1>3, <1>4, <1>5, SetItemStep
<1>6. ASSUME ListInv, NEW index \in Indices, DelItem(index)
      PROVE  list' = IF mutable /\ index + 1 \in DOMAIN list
                       THEN RemoveAt(list, index + 1) ELSE list
  BY <1>2, <1>3, <1>4, <1>6, DelItemStep
<1>7. ListInv =>
        [/\ \A item \in Items : AppendItem(item) =>
              list' = IF status' = "LIST_OK" THEN Append(list, item) ELSE list
         /\ \A index \in Indices, item \in Items : SetItem(index, item) =>
              list' = IF mutable /\ index + 1 \in DOMAIN list
                        THEN [list EXCEPT ![index + 1] = item] ELSE list
         /\ \A index \in Indices : DelItem(index) =>
              list' = IF mutable /\ index + 1 \in DOMAIN list
                        THEN RemoveAt(list, index + 1) ELSE list]_vars
  BY <1>1, <1>5, <1>6
<1> QED
  BY <1>7, ListInvariant, PTL DEF CallsAreExact

(* Growth is paid for and only growth runs out of memory, with deletes of  *)
(* slices among the calls.                                                 *)
THEOREM CallsPayForReallocs == Spec => ReallocIsPaidFor /\ OnlyGrowthRunsOut
<1>1. ListInv /\ [Next]_vars =>
        [base' # base => 8 * Distance(base, base') >= base]_vars
  BY ListStep DEF PaidFor
<1>2. ListInv /\ [Next]_vars =>
        [status' = "LIST_ERR_NO_MEMORY" /\ status # "LIST_ERR_NO_MEMORY"
           => lp' = lp /\ lp.size = lp.allocated]_vars
  BY ListStep
<1> QED
  BY <1>1, <1>2, ListInvariant, PTL DEF Spec, ReallocIsPaidFor, OnlyGrowthRunsOut

=============================================================================
