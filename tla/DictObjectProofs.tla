--------------------------- MODULE DictObjectProofs ---------------------------
(***************************************************************************)
(* Every step of DictObject preserves Inductive, for any number of keys,   *)
(* any hash function and any tower of table sizes.                         *)
(***************************************************************************)
EXTENDS DictObject, NatRecursion, FiniteSetTheorems

(* What the lemmas below say of one NB_DictKeys.                           *)
GoodTable(dk) ==
  /\ WellTyped(dk)
  /\ WithinBudget(dk)
  /\ PaidFor(dk)
  /\ Bijective(dk)
  /\ \A i \in LivePositions(dk) : OnProbePath(dk, i)
  /\ Distinct(dk)

(* What an operation does to the entries of dk: Keeps, those at P stay as  *)
(* they are; Adds, the next one holds k and v; Revalues, the one at i gets *)
(* another value; Compacts, the n live ones move to the front.             *)
Keeps(dk, new, P) ==
  LivePositions(new) = P /\ \A x \in P : new.entries[x] = dk.entries[x]

Adds(dk, new, k, v) ==
  /\ LivePositions(new) = LivePositions(dk) \cup {dk.nentries}
  /\ new.entries[dk.nentries] = [hash |-> Hash[k], key |-> k, val |-> v]
  /\ \A x \in LivePositions(dk) : new.entries[x] = dk.entries[x]

Revalues(dk, new, i, v) ==
  \A x \in LivePositions(dk) :
    new.entries[x] = IF x = i THEN [dk.entries[i] EXCEPT !.val = v] ELSE dk.entries[x]

Compacts(dk, new, n) ==
  /\ LivePositions(new) = 0 .. n - 1
  /\ \A x \in 0 .. n - 1 :
       new.entries[x] = dk.entries[IF dk.nentries = n THEN x ELSE NthLive(dk, x)]

-----------------------------------------------------------------------------
(* Sizes and probing.                                                      *)

(* A table always has fewer entries than slots, and room for five.         *)
LEMMA UsableFraction ==
  ASSUME NEW size \in Sizes
  PROVE  /\ size \in Nat /\ size >= 8
         /\ USABLE_FRACTION(size) \in Nat
         /\ 5 <= USABLE_FRACTION(size) /\ USABLE_FRACTION(size) < size
         /\ \A n \in Nat : size >= 3 * n => 2 * n <= USABLE_FRACTION(size)
BY DictConstants DEF USABLE_FRACTION, D_MINSIZE

(* Every probe is a slot of the table.                                     *)
LEMMA ProbeInTable ==
  ASSUME NEW size \in Sizes, NEW hash \in Hashes
  PROVE  \A n \in Nat : Probe(size, hash)[n].i \in Slots(size)
<1> DEFINE P == [i : Slots(size), perturb : Nat]
           x0 == [i |-> hash % size, perturb |-> hash]
           next(prev) == LET q == prev.perturb \div 32
                         IN  [i |-> (5 * prev.i + q + 1) % size, perturb |-> q]
           step == [n \in Nat |-> [prev \in P |-> next(prev)]]
           Rec(g) == [n \in Nat |-> IF n = 0 THEN x0 ELSE next(g[n - 1])]
<1>1. size \in Nat \ {0} /\ hash \in Nat
  BY UsableFraction, DictConstants DEF Hashes
<1>2. x0 \in P
  BY <1>1 DEF Slots
<1>3. ASSUME NEW prev \in P PROVE next(prev) \in P
  <2>1. prev.perturb \div 32 \in Nat /\ prev.i \in Nat
    BY <1>1 DEF Slots
  <2>2. (5 * prev.i + (prev.perturb \div 32) + 1) % size \in 0 .. size - 1
    BY <1>1, <2>1
  <2> DEFINE q == prev.perturb \div 32
             r == (5 * prev.i + q + 1) % size
  <2>3. next(prev) = [i |-> r, perturb |-> q]
    OBVIOUS
  <2>4. r \in Slots(size) /\ q \in Nat
    BY <2>1, <2>2 DEF Slots
  <2> HIDE DEF r, q, next
  <2> QED
    BY <2>3, <2>4
<1> HIDE DEF P, x0, next
<1>4. step \in [Nat -> [P -> P]]
  BY <1>3
<1>5. \A n \in Nat : \A prev \in P : step[n][prev] = next(prev)
  OBVIOUS
<1> HIDE DEF step
<1>6. PICK g \in [Nat -> P] : Follows(g, x0, step)
  BY <1>2, <1>4, PrimitiveRecursion
<1>7. g = Rec(g)
  <2>1. ASSUME NEW n \in Nat PROVE g[n] = IF n = 0 THEN x0 ELSE next(g[n - 1])
    <3>1. CASE n = 0
      BY <1>6, <3>1 DEF Follows
    <3>2. CASE n # 0
      <4>1. n - 1 \in Nat /\ (n - 1) + 1 = n
        BY <3>2
      <4>2. g[(n - 1) + 1] = step[(n - 1) + 1][g[n - 1]]
        BY <1>6, <4>1 DEF Follows
      <4>3. step[n][g[n - 1]] = next(g[n - 1])
        BY <1>5, <1>6, <4>1
      <4> QED
        BY <3>2, <4>1, <4>2, <4>3
    <3> QED
      BY <3>1, <3>2
  <2> QED
    BY <2>1, <1>6
<1> DEFINE p == CHOOSE f : f = Rec(f)
<1>8. p = Rec(p)
  BY <1>7
<1>9. Probe(size, hash) = p
  BY DEF Probe, x0, next
<1> HIDE DEF p
<1> DEFINE T == {n \in Nat : p[n] \in P}
<1>10. 0 \in T
  BY <1>8, <1>2
<1>11. ASSUME NEW n \in Nat, n \in T PROVE n + 1 \in T
  <2>1. p[n + 1] = next(p[n])
    BY <1>8
  <2> QED
    BY <2>1, <1>11, <1>3
<1>12. T = Nat
  <2> HIDE DEF T
  <2> QED
    BY <1>10, <1>11, NatSetInduction, T \in SUBSET Nat DEF T
<1> QED
  BY <1>9, <1>12 DEF P

(* A search that stops on a non-empty set of slots does stop, on a slot of *)
(* that set, and has passed none of them before.                           *)
LEMMA FirstInStops ==
  ASSUME NEW size \in Sizes, NEW hash \in Hashes,
         NEW S \in SUBSET Slots(size), S # {}
  PROVE  /\ FirstIn(size, hash, S) \in S
         /\ \E n \in 0 .. MaxProbe :
              /\ Probe(size, hash)[n].i = FirstIn(size, hash, S)
              /\ \A m \in 0 .. n - 1 : Probe(size, hash)[m].i \notin S
<1> DEFINE p == Probe(size, hash)
           T == {n \in 0 .. MaxProbe : p[n].i \in S}
           Stop(n) == p[n].i \in S /\ \A m \in 0 .. n - 1 : p[m].i \notin S
           n0 == CHOOSE n \in 0 .. MaxProbe : Stop(n)
<1>0. MaxProbe \in Nat
  BY DictConstants
<1>1. T # {} /\ T \in SUBSET Nat
  <2>1. PICK s \in S : TRUE
    OBVIOUS
  <2>2. Meets(size, hash, {s})
    BY <2>1, ProbeCoversTable
  <2> QED
    BY <2>1, <2>2, <1>0 DEF Meets
<1>2. PICK x \in T : \A y \in T : x <= y
  <2> HIDE DEF T
  <2> QED
    BY <1>1, NatLeast
<1>3. Stop(x)
  <2> SUFFICES ASSUME NEW m \in 0 .. x - 1, p[m].i \in S PROVE FALSE
    BY <1>2
  <2>1. m \in T
    BY <1>2, <1>0
  <2> QED
    BY <2>1, <1>2, <1>0
<1>4. n0 \in 0 .. MaxProbe /\ Stop(n0)
  BY <1>2, <1>3
<1>5. FirstIn(size, hash, S) = p[n0].i
  BY DEF FirstIn
<1> HIDE DEF n0, p
<1> QED
  BY <1>4, <1>5 DEF p

-----------------------------------------------------------------------------
(* What a good table says of its slots and entries.                        *)

(* The fields of a good table, and the range its live entries lie in.      *)
LEMMA GoodTypes ==
  ASSUME NEW dk, GoodTable(dk)
  PROVE  /\ dk.size \in Sizes /\ dk.usable \in Nat /\ dk.nentries \in Nat
         /\ dk.indices \in [Slots(dk.size) ->
                            {DKIX_EMPTY, DKIX_DUMMY} \cup 0 .. dk.nentries - 1]
         /\ dk.entries \in [0 .. USABLE_FRACTION(dk.size) - 1 -> Entry]
         /\ dk.nentries + dk.usable <= USABLE_FRACTION(dk.size)
         /\ LivePositions(dk) \subseteq 0 .. dk.nentries - 1
         /\ LivePositions(dk) \subseteq 0 .. USABLE_FRACTION(dk.size) - 1
<1>1. WellTyped(dk) /\ WithinBudget(dk)
  BY DEF GoodTable
<1>2. /\ dk.size \in Sizes /\ dk.usable \in Nat /\ dk.nentries \in Nat
      /\ dk.indices \in [Slots(dk.size) ->
                            {DKIX_EMPTY, DKIX_DUMMY} \cup 0 .. dk.nentries - 1]
      /\ dk.entries \in [0 .. USABLE_FRACTION(dk.size) - 1 -> Entry]
  BY <1>1 DEF WellTyped
<1>3. USABLE_FRACTION(dk.size) \in Nat
  BY <1>2, UsableFraction
<1>4. dk.nentries + dk.usable <= USABLE_FRACTION(dk.size)
  BY <1>1 DEF WithinBudget
<1>5. LivePositions(dk) \subseteq 0 .. dk.nentries - 1
  BY DEF LivePositions
<1> QED
  BY <1>2, <1>3, <1>4, <1>5

(* A table of a given size has that many slots.                            *)
LEMMA SlotsFinite ==
  ASSUME NEW size \in Sizes
  PROVE  IsFiniteSet(Slots(size)) /\ Cardinality(Slots(size)) = size
<1>1. size \in Nat /\ size >= 8
  BY UsableFraction
<1> QED
  BY <1>1, FS_Interval DEF Slots

(* dictobject.c:146: there is always an unused slot.                       *)
LEMMA UnusedExists ==
  ASSUME NEW dk, GoodTable(dk)
  PROVE  UnusedSlots(dk) # {} /\ UnusedSlots(dk) \subseteq Slots(dk.size)
<1>1. dk.size \in Sizes /\ dk.usable \in Nat
  BY GoodTypes
<1>2. Cardinality(UnusedSlots(dk)) >= dk.size - (USABLE_FRACTION(dk.size) - dk.usable)
  BY DEF GoodTable, PaidFor
<1>3. Cardinality(UnusedSlots(dk)) > 0
  <2>1. UnusedSlots(dk) \subseteq Slots(dk.size)
    BY DEF UnusedSlots
  <2>2. Cardinality(UnusedSlots(dk)) \in Nat
    BY <2>1, <1>1, SlotsFinite, FS_Subset, FS_CardinalityType
  <2> QED
    BY <1>1, <1>2, <2>2, UsableFraction
<1> QED
  BY <1>3, FS_EmptySet DEF UnusedSlots

(* There are finitely many live entries, at most nentries of them.         *)
LEMMA LiveFinite ==
  ASSUME NEW dk, GoodTable(dk)
  PROVE  /\ IsFiniteSet(LivePositions(dk))
         /\ Cardinality(LivePositions(dk)) \in Nat
         /\ Cardinality(LivePositions(dk)) <= dk.nentries
<1>1. dk.nentries \in Nat /\ LivePositions(dk) \subseteq 0 .. dk.nentries - 1
  BY GoodTypes
<1>2. IsFiniteSet(0 .. dk.nentries - 1)
      /\ Cardinality(0 .. dk.nentries - 1) = dk.nentries
  <2> DEFINE n == dk.nentries
  <2>1. n \in Nat
    BY <1>1
  <2> HIDE DEF n
  <2>2. 0 \in Int /\ n - 1 \in Int /\ (~ 0 > n - 1 \/ n = 0)
    BY ONLY <2>1
  <2>3. IsFiniteSet(0 .. n - 1) /\ Cardinality(0 .. n - 1) = n
    BY ONLY <2>1, <2>2, FS_Interval
  <2> QED
    BY ONLY <2>3 DEF n
<1> QED
  BY <1>1, <1>2, FS_Subset, FS_CardinalityType

(* The probe path of a live entry is followed to that entry: a search that *)
(* stops at unused slots and at a set of slots containing those of entry i *)
(* stops at a slot of that set.                                            *)
LEMMA SearchStops ==
  ASSUME NEW dk, GoodTable(dk), NEW i \in LivePositions(dk),
         NEW T \in SUBSET Slots(dk.size),
         \A s \in Slots(dk.size) : dk.indices[s] = i => s \in T,
         T \cap UnusedSlots(dk) = {}
  PROVE  FirstIn(dk.size, dk.entries[i].hash, UnusedSlots(dk) \cup T) \in T
<1> DEFINE S == UnusedSlots(dk) \cup T
           hash == dk.entries[i].hash
           p == Probe(dk.size, hash)
<1>1. dk.size \in Sizes /\ hash \in Hashes /\ MaxProbe \in Nat
  BY GoodTypes, DictConstants DEF Entry
<1>2. S \in SUBSET Slots(dk.size) /\ S # {}
  BY UnusedExists
<1>3. PICK n \in 0 .. MaxProbe :
        p[n].i = FirstIn(dk.size, hash, S) /\ \A m \in 0 .. n - 1 : p[m].i \notin S
  <2> HIDE DEF hash, S
  <2> QED
    BY <1>1, <1>2, FirstInStops
<1>4. FirstIn(dk.size, hash, S) \in S
  <2> HIDE DEF hash, S
  <2> QED
    BY <1>1, <1>2, FirstInStops
<1>5. PICK n1 \in 0 .. MaxProbe :
        dk.indices[p[n1].i] = i /\ \A m \in 0 .. n1 - 1 : dk.indices[p[m].i] # DKIX_EMPTY
  BY DEF GoodTable, OnProbePath
<1>6. p[n].i \in Slots(dk.size) /\ p[n1].i \in Slots(dk.size)
  <2> HIDE DEF hash
  <2> QED
    BY <1>1, ProbeInTable
<1>7. p[n1].i \in T
  BY <1>5, <1>6
<1>8. n <= n1
  BY <1>1, <1>3, <1>7
<1>9. CASE n = n1
  BY <1>3, <1>7, <1>9
<1>10. CASE n < n1
  <2>1. dk.indices[p[n].i] # DKIX_EMPTY
    BY <1>5, <1>10
  <2> QED
    BY <2>1, <1>3, <1>4 DEF UnusedSlots
<1> QED
  BY <1>1, <1>8, <1>9, <1>10

(* numba_dict_lookup finds the entry that holds k, and nothing else.       *)
LEMMA LookupFinds ==
  ASSUME NEW dk, GoodTable(dk), NEW k \in Keys
  PROVE  /\ \A i \in LivePositions(dk) : dk.entries[i].key = k => lookup(dk, k) = i
         /\ (\A i \in LivePositions(dk) : dk.entries[i].key # k)
              => lookup(dk, k) = DKIX_EMPTY
<1> DEFINE T == {s \in Slots(dk.size) : Holds(dk, s, k)}
           s0 == FirstIn(dk.size, Hash[k], UnusedSlots(dk) \cup T)
<1>1. lookup(dk, k) = dk.indices[s0]
  BY DEF lookup, lookup_stop
<1>2. \A s \in T : dk.indices[s] \in LivePositions(dk) /\ dk.entries[dk.indices[s]].key = k
  BY DEF GoodTable, Bijective, Holds
<1>3. ASSUME NEW i \in LivePositions(dk), dk.entries[i].key = k
      PROVE  dk.indices[s0] = i
  <2>1. dk.entries[i].hash = Hash[k] /\ i \in Nat
    BY <1>3, GoodTypes DEF GoodTable, Distinct
  <2>2. \A s \in Slots(dk.size) : dk.indices[s] = i => s \in T
    BY <2>1, <1>3 DEF Holds
  <2>3. T \cap UnusedSlots(dk) = {}
    BY DEF Holds, UnusedSlots, DKIX_EMPTY
  <2>4. s0 \in T
    <3> HIDE DEF T
    <3>1. T \in SUBSET Slots(dk.size)
      BY DEF T
    <3> QED
      BY <3>1, <2>1, <2>2, <2>3, SearchStops
  <2>5. dk.indices[s0] \in LivePositions(dk) /\ dk.entries[dk.indices[s0]].key = k
    BY <2>4, <1>2
  <2> QED
    BY <2>5, <1>3 DEF GoodTable, Distinct
<1>4. ASSUME \A i \in LivePositions(dk) : dk.entries[i].key # k
      PROVE  dk.indices[s0] = DKIX_EMPTY
  <2>1. T = {}
    BY <1>2, <1>4
  <2>2. dk.size \in Sizes /\ Hash[k] \in Hashes
    BY GoodTypes, DictConstants
  <2>3. s0 \in UnusedSlots(dk) \cup T
    <3> HIDE DEF T
    <3> QED
      BY <2>1, <2>2, UnusedExists, FirstInStops
  <2> QED
    BY <2>1, <2>3 DEF UnusedSlots
<1> QED
  BY <1>1, <1>3, <1>4

(* lookdict_index finds the slot of every live entry.                      *)
LEMMA LookdictFinds ==
  ASSUME NEW dk, GoodTable(dk), NEW i \in LivePositions(dk)
  PROVE  LET j == lookdict_index(dk, dk.entries[i].hash, i)
         IN  j \in Slots(dk.size) /\ dk.indices[j] = i
<1> DEFINE T == {t \in Slots(dk.size) : dk.indices[t] = i}
           S == {t \in Slots(dk.size) : dk.indices[t] \in {i, DKIX_EMPTY}}
<1>1. S = UnusedSlots(dk) \cup T
  BY DEF UnusedSlots
<1>2. i # DKIX_EMPTY
  BY GoodTypes DEF DKIX_EMPTY
<1>3. T \cap UnusedSlots(dk) = {}
  BY <1>2 DEF UnusedSlots
<1>4. FirstIn(dk.size, dk.entries[i].hash, UnusedSlots(dk) \cup T) \in T
  <2>1. T \in SUBSET Slots(dk.size) /\ \A s \in Slots(dk.size) : dk.indices[s] = i => s \in T
    OBVIOUS
  <2> HIDE DEF T
  <2> QED
    BY <2>1, <1>3, SearchStops
<1> QED
  BY <1>1, <1>4 DEF lookdict_index

-----------------------------------------------------------------------------
(* The two ways a table changes.                                           *)

(* Entry i goes, its slot becomes a dummy; other live entries are kept.    *)
LEMMA RemoveEntry ==
  ASSUME NEW dk, GoodTable(dk), NEW i \in LivePositions(dk),
         NEW j \in Slots(dk.size), dk.indices[j] = i,
         NEW new, WellTyped(new),
         new.size = dk.size, new.usable = dk.usable, new.nentries <= dk.nentries,
         new.indices = [dk.indices EXCEPT ![j] = DKIX_DUMMY],
         LivePositions(new) = LivePositions(dk) \ {i},
         \A x \in LivePositions(new) : new.entries[x] = dk.entries[x]
  PROVE  /\ GoodTable(new)
         /\ Cardinality(LivePositions(new)) = Cardinality(LivePositions(dk)) - 1
<1> USE DEF DKIX_EMPTY, DKIX_DUMMY
<1>0. /\ dk.size \in Sizes /\ dk.usable \in Nat /\ dk.nentries \in Nat
      /\ dk.indices \in [Slots(dk.size) ->
                            {DKIX_EMPTY, DKIX_DUMMY} \cup 0 .. dk.nentries - 1]
      /\ LivePositions(dk) \subseteq 0 .. dk.nentries - 1
      /\ dk.nentries + dk.usable <= USABLE_FRACTION(dk.size)
      /\ USABLE_FRACTION(dk.size) \in Nat /\ i \in Nat
      /\ new.nentries \in Nat
  BY GoodTypes, UsableFraction DEF WellTyped
<1>1. \A s \in Slots(dk.size) :
        new.indices[s] = IF s = j THEN DKIX_DUMMY ELSE dk.indices[s]
  BY <1>0
<1>2. WithinBudget(new)
  BY <1>0 DEF WithinBudget
<1>3. PaidFor(new)
  <2>1. UnusedSlots(new) = UnusedSlots(dk)
    BY <1>1, <1>0 DEF UnusedSlots
  <2> QED
    BY <2>1 DEF PaidFor, GoodTable
<1>4. Bijective(new)
  <2>1. \A s \in Slots(new.size) :
          new.indices[s] >= 0 => new.indices[s] \in LivePositions(new)
    BY <1>0, <1>1 DEF GoodTable, Bijective
  <2>2. \A x \in LivePositions(new) : \E s \in Slots(new.size) : new.indices[s] = x
    BY <1>0, <1>1 DEF GoodTable, Bijective
  <2>3. \A s, t \in Slots(new.size) :
          new.indices[s] >= 0 /\ new.indices[s] = new.indices[t] => s = t
    BY <1>0, <1>1 DEF GoodTable, Bijective
  <2> QED
    BY <2>1, <2>2, <2>3 DEF Bijective
<1>5. ASSUME NEW x \in LivePositions(new) PROVE OnProbePath(new, x)
  <2> DEFINE hash == dk.entries[x].hash
             p == Probe(dk.size, hash)
  <2>1. x \in LivePositions(dk) /\ x # i /\ new.entries[x].hash = hash /\ hash \in Hashes
    BY GoodTypes DEF Entry
  <2>2. PICK n \in 0 .. MaxProbe :
          dk.indices[p[n].i] = x /\ \A m \in 0 .. n - 1 : dk.indices[p[m].i] # DKIX_EMPTY
    BY <2>1 DEF GoodTable, OnProbePath
  <2>3. \A m \in 0 .. n : p[m].i \in Slots(dk.size)
    <3>1. \A m \in 0 .. n : m \in Nat
      BY DictConstants
    <3> HIDE DEF hash
    <3> QED
      BY <1>0, <2>1, <3>1, ProbeInTable
  <2>4. n \in 0 .. n /\ \A m \in 0 .. n - 1 : m \in 0 .. n
    BY DictConstants
  <2>5. new.indices[p[n].i] = x
    BY <1>1, <2>1, <2>2, <2>3, <2>4
  <2>6. \A m \in 0 .. n - 1 : new.indices[p[m].i] # DKIX_EMPTY
    BY <1>1, <2>2, <2>3, <2>4
  <2> QED
    BY <2>1, <2>5, <2>6 DEF OnProbePath
<1>6. Distinct(new)
  BY DEF GoodTable, Distinct
<1>7. Cardinality(LivePositions(new)) = Cardinality(LivePositions(dk)) - 1
  <2> DEFINE L == LivePositions(dk)
  <2>1. IsFiniteSet(L) /\ i \in L /\ LivePositions(new) = L \ {i}
    BY LiveFinite
  <2> HIDE DEF L
  <2>2. Cardinality(L \ {i}) = Cardinality(L) - 1
    BY <2>1, FS_RemoveElement
  <2> QED
    BY <2>1, <2>2 DEF L
<1> QED
  BY <1>2, <1>3, <1>4, <1>5, <1>6, <1>7 DEF GoodTable

(* Entry nentries is filled with key k, and slot h, which a probe for k    *)
(* reaches before any unused slot, points to it.                           *)
LEMMA AddEntry ==
  ASSUME NEW dk, GoodTable(dk), NEW k \in Keys, Hash[k] # NoHash, dk.usable > 0,
         \A x \in LivePositions(dk) : dk.entries[x].key # k,
         NEW h \in Slots(dk.size), dk.indices[h] < 0,
         \E n \in 0 .. MaxProbe :
           /\ Probe(dk.size, Hash[k])[n].i = h
           /\ \A m \in 0 .. n - 1 : dk.indices[Probe(dk.size, Hash[k])[m].i] # DKIX_EMPTY,
         NEW new,
         new \in [size : {dk.size}, usable : {dk.usable - 1}, nentries : {dk.nentries + 1},
                 indices : {[dk.indices EXCEPT ![h] = dk.nentries]},
                 entries : [0 .. USABLE_FRACTION(dk.size) - 1 -> Entry]],
         \A x \in 0 .. dk.nentries - 1 : new.entries[x] = dk.entries[x],
         new.entries[dk.nentries].hash = Hash[k],
         new.entries[dk.nentries].key = k
  PROVE  /\ GoodTable(new)
         /\ LivePositions(new) = LivePositions(dk) \cup {dk.nentries}
         /\ Cardinality(LivePositions(new)) = Cardinality(LivePositions(dk)) + 1
<1> USE DEF DKIX_EMPTY, DKIX_DUMMY
<1> DEFINE N == dk.nentries
<1>0. /\ dk.size \in Sizes /\ dk.usable \in Nat /\ dk.nentries \in Nat
      /\ dk.indices \in [Slots(dk.size) ->
                            {DKIX_EMPTY, DKIX_DUMMY} \cup 0 .. dk.nentries - 1]
      /\ LivePositions(dk) \subseteq 0 .. dk.nentries - 1
      /\ dk.nentries + dk.usable <= USABLE_FRACTION(dk.size)
      /\ USABLE_FRACTION(dk.size) \in Nat /\ N \notin LivePositions(dk)
  BY GoodTypes, UsableFraction
<1>1. new.size = dk.size /\ new.usable = dk.usable - 1 /\ new.nentries = N + 1
      /\ new.indices = [dk.indices EXCEPT ![h] = N]
  OBVIOUS
<1>2. \A s \in Slots(dk.size) : new.indices[s] = IF s = h THEN N ELSE dk.indices[s]
  BY <1>0, <1>1
<1>3. LivePositions(new) = LivePositions(dk) \cup {N}
  <2>1. \A x : x \in 0 .. new.nentries - 1 <=> x \in 0 .. N - 1 \/ x = N
    BY <1>0, <1>1
  <2>2. \A x \in 0 .. N - 1 : new.entries[x].hash = dk.entries[x].hash
    OBVIOUS
  <2>3. new.entries[N].hash # NoHash
    OBVIOUS
  <2> HIDE DEF N
  <2>4. LivePositions(dk) = {x \in 0 .. N - 1 : dk.entries[x].hash # NoHash}
    BY DEF LivePositions, N
  <2>5. LivePositions(new) = {x \in 0 .. new.nentries - 1 : new.entries[x].hash # NoHash}
    BY DEF LivePositions
  <2> QED
    BY <2>1, <2>2, <2>3, <2>4, <2>5
<1>4. WellTyped(new)
  <2>1. new.indices \in [Slots(dk.size) -> {DKIX_EMPTY, DKIX_DUMMY} \cup 0 .. N]
    BY <1>0, <1>1
  <2>2. new.usable \in Nat /\ N + 1 \in Nat /\ N + 1 - 1 = N
    BY <1>0, <1>1
  <2> DEFINE I == [Slots(dk.size) -> {DKIX_EMPTY, DKIX_DUMMY} \cup 0 .. N]
             E == [0 .. USABLE_FRACTION(dk.size) - 1 -> Entry]
  <2>3. new.size \in Sizes /\ new.nentries \in Nat /\ new.indices \in I /\ new.entries \in E
    BY <1>0, <1>1, <2>1, <2>2
  <2>4. new = [size |-> new.size, usable |-> new.usable, nentries |-> new.nentries,
               indices |-> new.indices, entries |-> new.entries]
    OBVIOUS
  <2>5. new \in [size : Sizes, usable : Nat, nentries : Nat, indices : I, entries : E]
    <3> HIDE DEF I, E
    <3> QED
      BY <2>2, <2>3, <2>4, Zenon
  <2> QED
    BY <1>1, <2>2, <2>5 DEF WellTyped
<1>5. WithinBudget(new)
  BY <1>0, <1>1 DEF WithinBudget
<1>6. PaidFor(new)
  <2>1. UnusedSlots(dk) \subseteq UnusedSlots(new) \cup {h}
    BY <1>1, <1>2 DEF UnusedSlots
  <2>2. IsFiniteSet(UnusedSlots(dk)) /\ IsFiniteSet(UnusedSlots(new))
    BY <1>0, <1>1, SlotsFinite, FS_Subset DEF UnusedSlots
  <2>3. IsFiniteSet(UnusedSlots(new) \cup {h})
        /\ Cardinality(UnusedSlots(new) \cup {h}) <= Cardinality(UnusedSlots(new)) + 1
        /\ Cardinality(UnusedSlots(new)) \in Nat
    <3> DEFINE U == UnusedSlots(new)
    <3>1. IsFiniteSet(U)
      BY <2>2
    <3> HIDE DEF U
    <3>2. IsFiniteSet(U \cup {h}) /\ Cardinality(U) \in Nat
          /\ Cardinality(U \cup {h}) = IF h \in U THEN Cardinality(U) ELSE Cardinality(U) + 1
      BY <3>1, FS_AddElement, FS_CardinalityType
    <3>3. Cardinality(U \cup {h}) <= Cardinality(U) + 1
      BY <3>2
    <3> QED
      BY <3>2, <3>3 DEF U
  <2>4. Cardinality(UnusedSlots(dk)) <= Cardinality(UnusedSlots(new)) + 1
        /\ Cardinality(UnusedSlots(dk)) \in Nat
    <3>1. Cardinality(UnusedSlots(dk)) <= Cardinality(UnusedSlots(new) \cup {h})
      BY <2>1, <2>3, FS_Subset
    <3>2. Cardinality(UnusedSlots(dk)) \in Nat
          /\ Cardinality(UnusedSlots(new) \cup {h}) \in Nat
      BY <2>2, <2>3, FS_CardinalityType
    <3> QED
      BY <2>3, <3>1, <3>2
  <2>5. dk.size \in Nat
    BY <1>0, UsableFraction
  <2> QED
    BY <1>0, <1>1, <2>3, <2>4, <2>5 DEF PaidFor, GoodTable
<1>7. Bijective(new)
  <2>1. \A s \in Slots(new.size) :
          new.indices[s] >= 0 => new.indices[s] \in LivePositions(new)
    BY <1>1, <1>2, <1>3 DEF GoodTable, Bijective
  <2>2. \A x \in LivePositions(new) : \E s \in Slots(new.size) : new.indices[s] = x
    <3> SUFFICES ASSUME NEW x \in LivePositions(new)
                 PROVE  \E s \in Slots(new.size) : new.indices[s] = x
      OBVIOUS
    <3>1. CASE x = N
      BY <1>1, <1>2, <3>1
    <3>2. CASE x \in LivePositions(dk)
      <4>1. PICK s \in Slots(dk.size) : dk.indices[s] = x
        BY <3>2 DEF GoodTable, Bijective
      <4>2. s # h
        BY <4>1, <3>2, <1>0
      <4> QED
        BY <4>1, <4>2, <1>1, <1>2
    <3> QED
      BY <1>3, <3>1, <3>2
  <2>3. \A s, t \in Slots(new.size) :
          new.indices[s] >= 0 /\ new.indices[s] = new.indices[t] => s = t
    <3>1. ASSUME NEW s \in Slots(dk.size) PROVE dk.indices[s] # N
      <4>1. dk.indices[s] \in {DKIX_EMPTY, DKIX_DUMMY} \cup 0 .. N - 1
        BY <1>0
      <4> QED
        BY <4>1, <1>0
    <3> QED
      BY <1>0, <1>1, <1>2, <3>1 DEF GoodTable, Bijective
  <2> QED
    BY <2>1, <2>2, <2>3 DEF Bijective
<1>8. ASSUME NEW x \in LivePositions(new) PROVE OnProbePath(new, x)
  <2>1. CASE x = N
    <3> DEFINE p == Probe(dk.size, Hash[k])
    <3>1. PICK n \in 0 .. MaxProbe :
            p[n].i = h /\ \A m \in 0 .. n - 1 : dk.indices[p[m].i] # DKIX_EMPTY
      OBVIOUS
    <3>2. Hash[k] \in Hashes /\ \A m \in 0 .. n - 1 : m \in Nat
      BY DictConstants
    <3>3. \A m \in 0 .. n - 1 : p[m].i \in Slots(dk.size)
      BY <1>0, <3>2, ProbeInTable
    <3>4. new.indices[p[n].i] = N
      BY <1>2, <3>1
    <3>5. \A m \in 0 .. n - 1 : new.indices[p[m].i] # DKIX_EMPTY
      <4> HIDE DEF p
      <4> SUFFICES ASSUME NEW m \in 0 .. n - 1
                   PROVE  new.indices[p[m].i] # DKIX_EMPTY
        OBVIOUS
      <4>1. p[m].i \in Slots(dk.size) /\ dk.indices[p[m].i] # DKIX_EMPTY
        BY <3>1, <3>3
      <4> QED
        BY ONLY <4>1, <1>0, <1>2 DEF DKIX_EMPTY
    <3>6. new.entries[x].hash = Hash[k]
      BY <2>1
    <3>7. Probe(new.size, new.entries[x].hash) = p
      BY <1>1, <3>6
    <3> HIDE DEF p
    <3> QED
      BY ONLY <2>1, <3>1, <3>4, <3>5, <3>7 DEF OnProbePath
  <2>2. CASE x \in LivePositions(dk)
    <3> DEFINE hash == dk.entries[x].hash
               p == Probe(dk.size, hash)
    <3>1. new.entries[x].hash = hash /\ hash \in Hashes /\ x \in 0 .. N - 1
      BY <1>0, <2>2, GoodTypes DEF Entry
    <3>2. PICK n \in 0 .. MaxProbe :
            dk.indices[p[n].i] = x /\ \A m \in 0 .. n - 1 : dk.indices[p[m].i] # DKIX_EMPTY
      BY <2>2 DEF GoodTable, OnProbePath
    <3>3. \A m \in 0 .. n : p[m].i \in Slots(dk.size)
      <4>1. \A m \in 0 .. n : m \in Nat
        BY DictConstants
      <4> HIDE DEF hash
      <4> QED
        BY <1>0, <3>1, <4>1, ProbeInTable
    <3>4. n \in 0 .. n /\ \A m \in 0 .. n - 1 : m \in 0 .. n
      BY DictConstants
    <3>5. new.indices[p[n].i] = x
      BY <1>2, <3>1, <3>2, <3>3, <3>4
    <3>6. \A m \in 0 .. n - 1 : new.indices[p[m].i] # DKIX_EMPTY
      <4> HIDE DEF p, hash
      <4> SUFFICES ASSUME NEW m \in 0 .. n - 1
                   PROVE  new.indices[p[m].i] # DKIX_EMPTY
        OBVIOUS
      <4>1. p[m].i \in Slots(dk.size) /\ dk.indices[p[m].i] # DKIX_EMPTY
        BY <3>2, <3>3, <3>4
      <4> QED
        BY ONLY <4>1, <1>0, <1>2 DEF DKIX_EMPTY
    <3> QED
      BY <1>1, <3>1, <3>5, <3>6 DEF OnProbePath
  <2> QED
    BY <1>3, <2>1, <2>2
<1>9. Distinct(new)
  <2>1. Distinct(dk)
    BY DEF GoodTable
  <2>2. \A x \in LivePositions(dk) : new.entries[x] = dk.entries[x]
    BY <1>0
  <2>3. \A x \in LivePositions(new) :
          new.entries[x].key \in Keys /\ new.entries[x].hash = Hash[new.entries[x].key]
    BY <1>3, <2>1, <2>2 DEF Distinct
  <2>4. \A x, y \in LivePositions(new) : new.entries[x].key = new.entries[y].key => x = y
    BY <1>3, <2>1, <2>2 DEF Distinct
  <2> QED
    BY <2>3, <2>4 DEF Distinct
<1>10. Cardinality(LivePositions(new)) = Cardinality(LivePositions(dk)) + 1
  <2> DEFINE L == LivePositions(dk)
  <2>1. IsFiniteSet(L) /\ N \notin L /\ LivePositions(new) = L \cup {N}
    BY <1>0, <1>3, LiveFinite
  <2> HIDE DEF L, N
  <2>2. Cardinality(L \cup {N}) = Cardinality(L) + 1
    BY <2>1, FS_AddElement
  <2> QED
    BY <2>1, <2>2 DEF L
<1> QED
  BY <1>3, <1>4, <1>5, <1>6, <1>7, <1>8, <1>9, <1>10 DEF GoodTable

-----------------------------------------------------------------------------
(* Rebuilding a table.                                                     *)

(* Live entries are numbered 0, 1, ... without gaps.                       *)
LEMMA NthLiveExists ==
  ASSUME NEW dk, GoodTable(dk)
  PROVE  \A n \in 0 .. Cardinality(LivePositions(dk)) - 1 :
           /\ NthLive(dk, n) \in LivePositions(dk)
           /\ Cardinality({j \in LivePositions(dk) : j < NthLive(dk, n)}) = n
<1> DEFINE L == LivePositions(dk)
           Below(m) == {j \in L : j < m}
           C(m) == Cardinality(Below(m))
           A == {m \in Nat : \A n \in Nat : n < C(m) => \E x \in L : C(x) = n}
<1>1. IsFiniteSet(L) /\ dk.nentries \in Nat /\ \A x \in L : x \in Nat /\ x < dk.nentries
  BY GoodTypes, LiveFinite
<1> HIDE DEF L
<1>2. 0 \in A
  <2>1. Below(0) = {}
    <3>1. \A x \in L : ~(x < 0)
      BY <1>1
    <3> QED
      BY <3>1, Zenon
  <2>2. C(0) = 0
    BY <2>1, FS_EmptySet
  <2> HIDE DEF C
  <2> QED
    BY <2>2
<1>3. ASSUME NEW m \in Nat, m \in A PROVE m + 1 \in A
  <2>1. CASE m \in L
    <3>1. Below(m + 1) = Below(m) \cup {m} /\ m \notin Below(m)
      <4>1. \A x \in L : x < m + 1 <=> x < m \/ x = m
        BY <1>1
      <4>2. ~(m < m)
        OBVIOUS
      <4> QED
        BY <4>1, <4>2, <2>1, Zenon
    <3>2. IsFiniteSet(Below(m))
      BY <1>1, FS_Subset
    <3>3. C(m + 1) = C(m) + 1 /\ C(m) \in Nat
      <4> HIDE DEF Below
      <4> QED
        BY <3>1, <3>2, FS_AddElement, FS_CardinalityType
    <3> HIDE DEF C
    <3> QED
      BY <1>3, <2>1, <3>3
  <2>2. CASE m \notin L
    <3>1. Below(m + 1) = Below(m)
      <4>1. \A x \in L : x < m + 1 <=> x < m
        BY <1>1, <2>2
      <4> QED
        BY <4>1, Zenon
    <3>2. C(m + 1) = C(m)
      BY <3>1
    <3> HIDE DEF C
    <3> QED
      BY <1>3, <3>2
  <2> QED
    BY <2>1, <2>2
<1>4. A = Nat
  <2> HIDE DEF A
  <2> QED
    BY <1>2, <1>3, NatSetInduction, A \in SUBSET Nat DEF A
<1>5. Below(dk.nentries) = L
  BY <1>1, Zenon
<1>6. C(dk.nentries) = Cardinality(L) /\ dk.nentries \in A
  BY <1>1, <1>4, <1>5
<1> SUFFICES ASSUME NEW n \in 0 .. Cardinality(L) - 1
             PROVE  NthLive(dk, n) \in L /\ C(NthLive(dk, n)) = n
  BY DEF L
<1>7. \E x \in L : C(x) = n
  <2>1. n \in Nat /\ n < C(dk.nentries)
    BY <1>1, <1>6, FS_CardinalityType
  <2> QED
    BY <1>6, <2>1
<1>8. NthLive(dk, n) = CHOOSE x \in L : C(x) = n
  BY DEF NthLive, L
<1> HIDE DEF C
<1> QED
  BY <1>7, <1>8

(* The entries numba_dict_resize copies: all live ones, each once.         *)
LEMMA Compaction ==
  ASSUME NEW dk, GoodTable(dk), NEW n, n = Cardinality(LivePositions(dk))
  PROVE  LET src(i) == IF dk.nentries = n THEN i ELSE NthLive(dk, i)
         IN  /\ \A i \in 0 .. n - 1 : src(i) \in LivePositions(dk)
             /\ \A i, j \in 0 .. n - 1 : src(i) = src(j) => i = j
<1> DEFINE src(i) == IF dk.nentries = n THEN i ELSE NthLive(dk, i)
<1>1. CASE dk.nentries = n
  <2> DEFINE L == LivePositions(dk)
             I == 0 .. n - 1
  <2>1. n \in Nat /\ L \subseteq I
    BY <1>1, GoodTypes
  <2>2. IsFiniteSet(I) /\ Cardinality(I) = n
    <3>1. 0 \in Int /\ n - 1 \in Int
      BY <2>1
    <3>2. IsFiniteSet(I) /\ Cardinality(I) = IF 0 > n - 1 THEN 0 ELSE n - 1 - 0 + 1
      BY <3>1, FS_Interval, Zenon
    <3> QED
      BY <3>2, <2>1
  <2>3. L = I
    <3> HIDE DEF L, I
    <3>1. Cardinality(L) = n
      BY DEF L
    <3> QED
      BY <2>1, <2>2, <3>1, FS_Subset
  <2> QED
    BY <1>1, <2>3
<1>2. CASE dk.nentries # n
  <2>1. ASSUME NEW i \in 0 .. n - 1 PROVE src(i) \in LivePositions(dk)
    BY <1>2, NthLiveExists
  <2>2. ASSUME NEW i \in 0 .. n - 1, NEW j \in 0 .. n - 1, src(i) = src(j) PROVE i = j
    <3> DEFINE C(m) == Cardinality({x \in LivePositions(dk) : x < m})
    <3>1. C(NthLive(dk, i)) = i /\ C(NthLive(dk, j)) = j
      BY NthLiveExists
    <3>2. NthLive(dk, i) = NthLive(dk, j)
      BY <1>2, <2>2
    <3> HIDE DEF C
    <3> QED
      BY <3>1, <3>2
  <2> QED
    BY <2>1, <2>2
<1> QED
  BY <1>1, <1>2

(* build_indices, entry by entry.                                          *)
LEMMA BuildIndicesStep ==
  ASSUME NEW size \in Sizes, NEW entries
  PROVE  /\ build_indices(size, entries, 0) = [s \in Slots(size) |-> DKIX_EMPTY]
         /\ \A m \in Nat :
              LET idx  == build_indices(size, entries, m)
                  slot == FirstIn(size, entries[m].hash,
                                  {s \in Slots(size) : idx[s] = DKIX_EMPTY})
              IN  build_indices(size, entries, m + 1) = [idx EXCEPT ![slot] = m]
<1> DEFINE S == [Slots(size) -> Int]
           x0 == [s \in Slots(size) |-> DKIX_EMPTY]
           slot(m, idx) == FirstIn(size, entries[m].hash,
                                   {s \in Slots(size) : idx[s] = DKIX_EMPTY})
           next(m, idx) == [idx EXCEPT ![slot(m - 1, idx)] = m - 1]
           step == [m \in Nat |-> [idx \in S |-> next(m, idx)]]
           Rec(b) == [m \in Nat |-> IF m = 0 THEN x0 ELSE next(m, b[m - 1])]
           b0 == CHOOSE b : b = Rec(b)
<1>1. x0 \in S
  BY DEF DKIX_EMPTY
<1>2. ASSUME NEW m \in Nat, NEW idx \in S PROVE next(m, idx) \in S
  <2> DEFINE t == slot(m - 1, idx)
  <2>1. next(m, idx) = [idx EXCEPT ![t] = m - 1] /\ m - 1 \in Int
    OBVIOUS
  <2> HIDE DEF t, next
  <2> QED
    BY <2>1
<1>3. ASSUME NEW n \in Nat PROVE build_indices(size, entries, n) = b0[n]
  BY DEF build_indices
<1> HIDE DEF S, x0, next
<1>4. step \in [Nat -> [S -> S]]
  BY <1>2
<1>5. \A m \in Nat : \A idx \in S : step[m][idx] = next(m, idx)
  OBVIOUS
<1> HIDE DEF step
<1>6. PICK g \in [Nat -> S] : Follows(g, x0, step)
  BY <1>1, <1>4, PrimitiveRecursion
<1>7. g = Rec(g)
  <2>1. ASSUME NEW n \in Nat PROVE g[n] = IF n = 0 THEN x0 ELSE next(n, g[n - 1])
    <3>1. CASE n = 0
      BY <1>6, <3>1 DEF Follows
    <3>2. CASE n # 0
      <4>1. n - 1 \in Nat /\ (n - 1) + 1 = n
        BY <3>2
      <4>2. g[(n - 1) + 1] = step[(n - 1) + 1][g[n - 1]]
        BY <1>6, <4>1 DEF Follows
      <4>3. step[n][g[n - 1]] = next(n, g[n - 1])
        BY <1>5, <1>6, <4>1
      <4> QED
        BY <3>2, <4>1, <4>2, <4>3
    <3> QED
      BY <3>1, <3>2
  <2> QED
    BY <2>1, <1>6
<1>8. b0 = Rec(b0)
  BY <1>7
<1> HIDE DEF b0
<1>9. b0[0] = x0
  BY <1>8
<1>10. ASSUME NEW m \in Nat PROVE b0[m + 1] = [b0[m] EXCEPT ![slot(m, b0[m])] = m]
  <2>1. b0[m + 1] = next(m + 1, b0[m])
    <3>1. m + 1 \in Nat /\ m + 1 # 0 /\ (m + 1) - 1 = m
      OBVIOUS
    <3> QED
      BY <1>8, <3>1
  <2>2. (m + 1) - 1 = m
    OBVIOUS
  <2> HIDE DEF slot
  <2> QED
    BY <2>1, <2>2 DEF next
<1> QED
  BY <1>3, <1>9, <1>10 DEF x0

(* n entries with different keys, indexed into an empty table.             *)
LEMMA BuildIndices ==
  ASSUME NEW size \in Sizes, NEW n \in Nat, n <= USABLE_FRACTION(size),
         NEW entries \in [0 .. USABLE_FRACTION(size) - 1 -> Entry],
         \A i \in 0 .. n - 1 :
           /\ entries[i].hash # NoHash
           /\ entries[i].key \in Keys
           /\ entries[i].hash = Hash[entries[i].key],
         \A i, j \in 0 .. n - 1 : entries[i].key = entries[j].key => i = j
  PROVE  LET dk == [size |-> size, usable |-> USABLE_FRACTION(size) - n,
                    nentries |-> n, indices |-> build_indices(size, entries, n),
                    entries |-> entries]
         IN  GoodTable(dk) /\ LivePositions(dk) = 0 .. n - 1
<1> DEFINE U == USABLE_FRACTION(size)
           B(m) == build_indices(size, entries, m)
           Dk(m) == [size |-> size, usable |-> U - m, nentries |-> m,
                     indices |-> B(m), entries |-> entries]
           A == {m \in Nat : m <= n => GoodTable(Dk(m)) /\ LivePositions(Dk(m)) = 0 .. m - 1}
<1>1. U \in Nat /\ U < size /\ size \in Nat
  BY UsableFraction
<1>2. 0 \in A
  <2> DEFINE dk == Dk(0)
  <2>1. B(0) = [s \in Slots(size) |-> DKIX_EMPTY]
    BY BuildIndicesStep
  <2>2. /\ dk.size = size /\ dk.usable = U /\ dk.nentries = 0 /\ dk.entries = entries
        /\ dk.indices = [s \in Slots(size) |-> DKIX_EMPTY]
    BY <2>1, <1>1
  <2>3. LivePositions(dk) = {} /\ 0 .. 0 - 1 = {}
    BY <2>2 DEF LivePositions
  <2>4. WellTyped(dk)
    <3> DEFINE I == [Slots(size) -> {DKIX_EMPTY, DKIX_DUMMY} \cup 0 .. 0 - 1]
               E == [0 .. U - 1 -> Entry]
    <3>1. dk.indices \in I
      BY <2>2
    <3>2. dk \in [size : Sizes, usable : Nat, nentries : Nat, indices : I, entries : E]
      <4> HIDE DEF B, I
      <4> QED
        BY <1>1, <3>1
    <3> QED
      BY <2>2, <3>2 DEF WellTyped
  <2>5. UnusedSlots(dk) = Slots(size)
    BY <2>2 DEF UnusedSlots
  <2>6. PaidFor(dk)
    BY <1>1, <2>2, <2>5, SlotsFinite DEF PaidFor
  <2> HIDE DEF Dk
  <2>7. WithinBudget(dk) /\ Bijective(dk) /\ Distinct(dk)
    BY <1>1, <2>2, <2>3 DEF WithinBudget, Bijective, Distinct, DKIX_EMPTY
  <2>8. GoodTable(dk)
    BY <2>3, <2>4, <2>6, <2>7 DEF GoodTable
  <2> QED
    BY <2>3, <2>8
<1>3. ASSUME NEW m \in Nat, m \in A PROVE m + 1 \in A
  <2> SUFFICES ASSUME m + 1 <= n
               PROVE  GoodTable(Dk(m + 1)) /\ LivePositions(Dk(m + 1)) = 0 .. m
    OBVIOUS
  <2> DEFINE dk == Dk(m)
             new == Dk(m + 1)
             k == entries[m].key
             h == FirstIn(size, entries[m].hash, {s \in Slots(size) : B(m)[s] = DKIX_EMPTY})
  <2>1. GoodTable(dk) /\ LivePositions(dk) = 0 .. m - 1
    BY <1>3
  <2>2. m \in 0 .. n - 1 /\ \A x \in 0 .. m - 1 : x \in 0 .. n - 1 /\ x # m
    OBVIOUS
  <2>3. k \in Keys /\ Hash[k] # NoHash /\ entries[m].hash = Hash[k]
    BY <2>2
  <2>4. \A x \in 0 .. m - 1 : entries[x].key # k
    BY <2>2
  <2>5. B(m + 1) = [B(m) EXCEPT ![h] = m]
    BY BuildIndicesStep
  <2> HIDE DEF B, k
  <2>6. /\ dk.size = size /\ dk.usable = U - m /\ dk.nentries = m
        /\ dk.indices = B(m) /\ dk.entries = entries
    OBVIOUS
  <2>7. new = [size |-> size, usable |-> (U - m) - 1, nentries |-> m + 1,
               indices |-> [B(m) EXCEPT ![h] = m], entries |-> entries]
    <3> HIDE DEF h
    <3>1. U - (m + 1) = (U - m) - 1
      BY <1>1
    <3> QED
      BY <2>5, <3>1
  <2> HIDE DEF dk, new, Dk
  <2>8. UnusedSlots(dk) = {s \in Slots(size) : B(m)[s] = DKIX_EMPTY}
    BY <2>6 DEF UnusedSlots
  <2>9. h = FirstIn(size, Hash[k], UnusedSlots(dk))
    BY <2>3, <2>8
  <2>10. Hash[k] \in Hashes /\ UnusedSlots(dk) # {} /\ UnusedSlots(dk) \in SUBSET Slots(size)
    BY <2>1, <2>3, <2>6, UnusedExists, DictConstants
  <2>11. h \in UnusedSlots(dk)
         /\ \E q \in 0 .. MaxProbe :
              /\ Probe(size, Hash[k])[q].i = h
              /\ \A r \in 0 .. q - 1 : Probe(size, Hash[k])[r].i \notin UnusedSlots(dk)
    <3> HIDE DEF h
    <3> QED
      BY <2>9, <2>10, FirstInStops
  <2> HIDE DEF h
  <2>12. \E q \in 0 .. MaxProbe :
           /\ Probe(dk.size, Hash[k])[q].i = h
           /\ \A r \in 0 .. q - 1 : dk.indices[Probe(dk.size, Hash[k])[r].i] # DKIX_EMPTY
    <3>1. PICK q \in 0 .. MaxProbe :
            /\ Probe(size, Hash[k])[q].i = h
            /\ \A r \in 0 .. q - 1 : Probe(size, Hash[k])[r].i \notin UnusedSlots(dk)
      BY <2>11
    <3>2. \A r \in 0 .. q - 1 : Probe(size, Hash[k])[r].i \in Slots(size)
      BY <2>10, ProbeInTable, DictConstants
    <3> QED
      BY <2>6, <3>1, <3>2 DEF UnusedSlots
  <2>13. h \in Slots(dk.size) /\ dk.indices[h] < 0
    BY <2>6, <2>11 DEF UnusedSlots, DKIX_EMPTY
  <2>14. dk.usable > 0
    BY <1>1, <2>6
  <2>15. new \in [size : {dk.size}, usable : {dk.usable - 1}, nentries : {dk.nentries + 1},
                  indices : {[dk.indices EXCEPT ![h] = dk.nentries]},
                  entries : [0 .. USABLE_FRACTION(dk.size) - 1 -> Entry]]
    BY <2>6, <2>7, Zenon
  <2>16. GoodTable(new) /\ LivePositions(new) = LivePositions(dk) \cup {m}
    <3>1. new.entries = entries
      BY <2>7
    <3>2. \A x \in LivePositions(dk) : dk.entries[x].key # k
      BY <2>1, <2>4, <2>6
    <3>3. \A x \in 0 .. dk.nentries - 1 : new.entries[x] = dk.entries[x]
      BY <2>6, <3>1
    <3>4. new.entries[dk.nentries].hash = Hash[k] /\ new.entries[dk.nentries].key = k
      BY <2>3, <2>6, <3>1 DEF k
    <3>5. GoodTable(dk) /\ k \in Keys /\ Hash[k] # NoHash
      BY <2>1, <2>3
    <3>6. GoodTable(new) /\ LivePositions(new) = LivePositions(dk) \cup {dk.nentries}
      BY <2>12, <2>13, <2>14, <2>15, <3>2, <3>3, <3>4, <3>5, AddEntry
    <3> QED
      BY <2>6, <3>6
  <2>17. LivePositions(new) = 0 .. m
    BY <2>1, <2>16
  <2> QED
    BY <2>16, <2>17 DEF new
<1>4. A = Nat
  <2> HIDE DEF A
  <2> QED
    BY <1>2, <1>3, NatSetInduction, A \in SUBSET Nat DEF A
<1>5. n \in A
  BY <1>4
<1> QED
  BY <1>5

(* numba_dict_resize keeps every item and leaves room for as many more.    *)
LEMMA Resized ==
  ASSUME NEW dk, GoodTable(dk), NEW n, n = Cardinality(LivePositions(dk)),
         NEW newsize \in Sizes, newsize >= 3 * n
  PROVE  LET new == resized(dk, n, newsize)
         IN  /\ GoodTable(new) /\ new.nentries = n
             /\ Cardinality(LivePositions(new)) = n
             /\ new.usable >= n /\ new.usable > 0
             /\ \A x \in LivePositions(new) :
                  \E y \in LivePositions(dk) : new.entries[x] = dk.entries[y]
             /\ Compacts(dk, new, n)
<1> DEFINE U == USABLE_FRACTION(newsize)
           src(i) == IF dk.nentries = n THEN i ELSE NthLive(dk, i)
           E == [i \in 0 .. U - 1 |-> IF i >= n THEN FilledEntry ELSE dk.entries[src(i)]]
           new == resized(dk, n, newsize)
<1>1. n \in Nat /\ U \in Nat /\ 2 * n <= U /\ 5 <= U /\ newsize \in Nat
  BY LiveFinite, UsableFraction
<1>2. n <= U /\ U - n >= n /\ U - n > 0
  BY <1>1
<1>3. /\ \A i \in 0 .. n - 1 : src(i) \in LivePositions(dk)
      /\ \A i, j \in 0 .. n - 1 : src(i) = src(j) => i = j
  BY Compaction
<1>4. new = [size |-> newsize, usable |-> U - n, nentries |-> n,
             indices |-> build_indices(newsize, E, n), entries |-> E]
  BY DEF resized
<1> HIDE DEF U, src, new
<1>5. \A i \in 0 .. n - 1 : E[i] = dk.entries[src(i)]
  BY <1>1, <1>2
<1>6. E \in [0 .. U - 1 -> Entry]
  <2>1. FilledEntry \in Entry
    BY DictConstants DEF FilledEntry, Entry, NoHash, Hashes
  <2>2. \A i \in 0 .. n - 1 : dk.entries[src(i)] \in Entry
    <3> DEFINE I == 0 .. USABLE_FRACTION(dk.size) - 1
    <3>1. dk.entries \in [I -> Entry] /\ LivePositions(dk) \subseteq I
      BY GoodTypes
    <3> HIDE DEF I
    <3> QED
      BY <1>3, <3>1
  <2>3. \A i \in 0 .. U - 1 : i >= n \/ i \in 0 .. n - 1
    BY <1>1
  <2> QED
    BY <2>1, <2>2, <2>3
<1> HIDE DEF E
<1>7. \A i \in 0 .. n - 1 :
        /\ E[i].hash # NoHash
        /\ E[i].key \in Keys
        /\ E[i].hash = Hash[E[i].key]
  BY <1>3, <1>5 DEF GoodTable, Distinct, LivePositions
<1>8. \A i, j \in 0 .. n - 1 : E[i].key = E[j].key => i = j
  <2> SUFFICES ASSUME NEW i \in 0 .. n - 1, NEW j \in 0 .. n - 1, E[i].key = E[j].key
               PROVE  i = j
    OBVIOUS
  <2>1. src(i) = src(j)
    BY <1>3, <1>5 DEF GoodTable, Distinct
  <2> QED
    BY <2>1, <1>3
<1>9. GoodTable(new) /\ LivePositions(new) = 0 .. n - 1
  BY <1>1, <1>2, <1>4, <1>6, <1>7, <1>8, BuildIndices DEF U
<1>10. Cardinality(LivePositions(new)) = n
  <2>1. 0 \in Int /\ n - 1 \in Int
    BY <1>1
  <2>2. Cardinality(0 .. n - 1) = IF 0 > n - 1 THEN 0 ELSE n - 1 - 0 + 1
    BY <2>1, FS_Interval, Zenon
  <2> QED
    BY <2>2, <1>1, <1>9
<1>11. new.usable = U - n /\ new.nentries = n /\ new.entries = E
  BY <1>4
<1>12. \A x \in LivePositions(new) :
         \E y \in LivePositions(dk) : new.entries[x] = dk.entries[y]
  BY <1>3, <1>5, <1>9, <1>11
<1>13. \A x \in 0 .. n - 1 :
         new.entries[x] = dk.entries[IF dk.nentries = n THEN x ELSE NthLive(dk, x)]
  BY <1>5, <1>11 DEF src
<1> QED
  BY <1>2, <1>9, <1>10, <1>11, <1>12, <1>13 DEF new, Compacts

(* The part of numba_dict_insert that fills a new entry.                   *)
LEMMA NewEntry ==
  ASSUME NEW dk, GoodTable(dk), NEW k \in Keys, NEW v \in Vals,
         Hash[k] # NoHash, dk.usable > 0,
         \A x \in LivePositions(dk) : dk.entries[x].key # k
  PROVE  LET new == new_entry(dk, k, v)
         IN  /\ GoodTable(new)
             /\ Cardinality(LivePositions(new)) = Cardinality(LivePositions(dk)) + 1
             /\ new.usable = dk.usable - 1 /\ new.nentries = dk.nentries + 1
             /\ UnusedSlots(new) \subseteq UnusedSlots(dk)
             /\ Adds(dk, new, k, v)
<1> DEFINE h == find_empty_slot(dk, Hash[k])
           S == {s \in Slots(dk.size) : dk.indices[s] < 0}
           e == [hash |-> Hash[k], key |-> k, val |-> v]
           new == new_entry(dk, k, v)
<1>1. /\ dk.size \in Sizes /\ dk.usable \in Nat /\ dk.nentries \in Nat
      /\ dk.indices \in [Slots(dk.size) ->
                            {DKIX_EMPTY, DKIX_DUMMY} \cup 0 .. dk.nentries - 1]
      /\ dk.entries \in [0 .. USABLE_FRACTION(dk.size) - 1 -> Entry]
      /\ dk.nentries \in 0 .. USABLE_FRACTION(dk.size) - 1
      /\ USABLE_FRACTION(dk.size) \in Nat
      /\ Hash[k] \in Hashes
  <2>1. /\ dk.size \in Sizes /\ dk.usable \in Nat /\ dk.nentries \in Nat
        /\ dk.indices \in [Slots(dk.size) ->
                              {DKIX_EMPTY, DKIX_DUMMY} \cup 0 .. dk.nentries - 1]
        /\ dk.entries \in [0 .. USABLE_FRACTION(dk.size) - 1 -> Entry]
        /\ dk.nentries + dk.usable <= USABLE_FRACTION(dk.size)
    BY GoodTypes
  <2>2. USABLE_FRACTION(dk.size) \in Nat
    BY <2>1, UsableFraction
  <2>3. Hash[k] \in Hashes
    BY DictConstants
  <2>4. dk.nentries \in 0 .. USABLE_FRACTION(dk.size) - 1
    BY <2>1, <2>2
  <2> QED
    BY <2>1, <2>2, <2>3, <2>4
<1>2. S # {} /\ S \in SUBSET Slots(dk.size) /\ UnusedSlots(dk) \subseteq S
  BY UnusedExists DEF UnusedSlots, DKIX_EMPTY
<1>3. h = FirstIn(dk.size, Hash[k], S)
  BY DEF find_empty_slot
<1>4. h \in S
      /\ \E n \in 0 .. MaxProbe :
           /\ Probe(dk.size, Hash[k])[n].i = h
           /\ \A m \in 0 .. n - 1 : Probe(dk.size, Hash[k])[m].i \notin S
  <2> HIDE DEF S, h
  <2> QED
    BY <1>1, <1>2, <1>3, FirstInStops
<1>5. \E n \in 0 .. MaxProbe :
        /\ Probe(dk.size, Hash[k])[n].i = h
        /\ \A m \in 0 .. n - 1 : dk.indices[Probe(dk.size, Hash[k])[m].i] # DKIX_EMPTY
  <2>1. PICK n \in 0 .. MaxProbe :
          /\ Probe(dk.size, Hash[k])[n].i = h
          /\ \A m \in 0 .. n - 1 : Probe(dk.size, Hash[k])[m].i \notin S
    BY <1>4
  <2>2. \A m \in 0 .. n - 1 : Probe(dk.size, Hash[k])[m].i \in Slots(dk.size)
    <3>1. \A m \in 0 .. n - 1 : m \in Nat
      BY DictConstants
    <3> QED
      BY <1>1, <3>1, ProbeInTable
  <2>3. \A m \in 0 .. n - 1 : dk.indices[Probe(dk.size, Hash[k])[m].i] # DKIX_EMPTY
    BY <2>1, <2>2 DEF DKIX_EMPTY
  <2> HIDE DEF h
  <2> QED
    BY <2>1, <2>3
<1>6. h \in Slots(dk.size) /\ dk.indices[h] < 0
  BY <1>4
<1>7. new = [dk EXCEPT !.indices[h] = dk.nentries, !.entries[dk.nentries] = e,
                       !.usable = @ - 1, !.nentries = @ + 1]
  BY DEF new_entry
<1> HIDE DEF h, new, S
<1>8. new = [size |-> dk.size, usable |-> dk.usable - 1, nentries |-> dk.nentries + 1,
             indices |-> [dk.indices EXCEPT ![h] = dk.nentries],
             entries |-> [dk.entries EXCEPT ![dk.nentries] = e]]
  <2> DEFINE I == Slots(dk.size)
             X == {DKIX_EMPTY, DKIX_DUMMY} \cup 0 .. dk.nentries - 1
             J == 0 .. USABLE_FRACTION(dk.size) - 1
  <2>1. dk \in [size : Sizes, usable : Nat, nentries : Nat,
                indices : [I -> X], entries : [J -> Entry]]
    BY DEF GoodTable, WellTyped
  <2> HIDE DEF I, X, J, e
  <2> QED
    BY <1>7, <2>1
<1>9. e \in Entry
  BY <1>1 DEF Entry
<1> DEFINE E == [dk.entries EXCEPT ![dk.nentries] = e]
<1>10. /\ E \in [0 .. USABLE_FRACTION(dk.size) - 1 -> Entry]
       /\ E[dk.nentries].hash = Hash[k] /\ E[dk.nentries].key = k
       /\ \A x \in 0 .. dk.nentries - 1 : E[x] = dk.entries[x]
  <2>1. E[dk.nentries] = e
    BY <1>1
  <2>2. E \in [0 .. USABLE_FRACTION(dk.size) - 1 -> Entry]
    <3> HIDE DEF e
    <3> QED
      BY <1>1, <1>9
  <2>3. \A x \in 0 .. dk.nentries - 1 :
          x # dk.nentries /\ x \in 0 .. USABLE_FRACTION(dk.size) - 1
    BY <1>1
  <2>4. \A x \in 0 .. dk.nentries - 1 : E[x] = dk.entries[x]
    <3> HIDE DEF e
    <3> QED
      BY <1>1, <2>3
  <2> QED
    BY <2>1, <2>2, <2>4
<1> HIDE DEF E
<1>11. new \in [size : {dk.size}, usable : {dk.usable - 1}, nentries : {dk.nentries + 1},
               indices : {[dk.indices EXCEPT ![h] = dk.nentries]},
               entries : [0 .. USABLE_FRACTION(dk.size) - 1 -> Entry]]
       /\ new.entries = E
  BY <1>8, <1>10 DEF E
<1>12. GoodTable(new)
       /\ Cardinality(LivePositions(new)) = Cardinality(LivePositions(dk)) + 1
  <2>1. /\ \A x \in 0 .. dk.nentries - 1 : new.entries[x] = dk.entries[x]
        /\ new.entries[dk.nentries].hash = Hash[k]
        /\ new.entries[dk.nentries].key = k
    BY <1>10, <1>11
  <2> QED
    BY <1>5, <1>6, <1>11, <2>1, AddEntry
<1>13. new.usable = dk.usable - 1 /\ new.nentries = dk.nentries + 1
  BY <1>11
<1>14. UnusedSlots(new) \subseteq UnusedSlots(dk)
  <2>1. new.size = dk.size /\ new.indices = [dk.indices EXCEPT ![h] = dk.nentries]
    BY <1>11
  <2>2. dk.nentries # DKIX_EMPTY
    BY <1>1 DEF DKIX_EMPTY
  <2> QED
    BY <1>1, <2>1, <2>2 DEF UnusedSlots
<1>15. \A x \in 0 .. dk.nentries - 1 : new.entries[x] = dk.entries[x]
  BY <1>10, <1>11
<1>16. new.entries[dk.nentries] = e
  BY <1>1, <1>11 DEF E
<1>17. LivePositions(new) = LivePositions(dk) \cup {dk.nentries}
  <2>1. new.entries[dk.nentries].hash # NoHash
    BY <1>16
  <2>2. 0 .. new.nentries - 1 = (0 .. dk.nentries - 1) \cup {dk.nentries}
    BY <1>1, <1>13
  <2> QED
    BY <1>1, <1>15, <2>1, <2>2 DEF LivePositions
<1>18. \A x \in LivePositions(dk) : new.entries[x] = dk.entries[x]
  BY <1>15 DEF LivePositions
<1> QED
  BY <1>12, <1>13, <1>14, <1>16, <1>17, <1>18 DEF new, Adds

-----------------------------------------------------------------------------
(* Deletion.                                                               *)

(* numba_dict_delitem of the entry of a key in the dict.                   *)
LEMMA DelItemKeepsGood ==
  ASSUME NEW dk, GoodTable(dk), NEW i \in LivePositions(dk),
         NEW j \in Slots(dk.size), dk.indices[j] = i
  PROVE  LET new == delitem(dk, j, i)
         IN  /\ GoodTable(new)
             /\ Cardinality(LivePositions(new)) = Cardinality(LivePositions(dk)) - 1
             /\ new.usable = dk.usable
             /\ UnusedSlots(new) \subseteq UnusedSlots(dk)
             /\ Keeps(dk, new, LivePositions(dk) \ {i})
<1> DEFINE new == delitem(dk, j, i)
           e == [hash |-> NoHash, key |-> NoKey, val |-> Zero]
           I == Slots(dk.size)
           X == {DKIX_EMPTY, DKIX_DUMMY} \cup 0 .. dk.nentries - 1
           J == 0 .. USABLE_FRACTION(dk.size) - 1
<1>1. new = [dk EXCEPT !.indices[j] = DKIX_DUMMY, !.entries[i] = e]
  BY DEF delitem
<1>2. dk \in [size : Sizes, usable : Nat, nentries : Nat,
              indices : [I -> X], entries : [J -> Entry]]
  BY DEF GoodTable, WellTyped
<1>3. e \in Entry /\ e.hash = NoHash
  BY DictConstants DEF Entry, NoHash, Hashes
<1>4. i \in J /\ LivePositions(dk) \subseteq J
  BY GoodTypes
<1>5. DKIX_DUMMY \in X
  OBVIOUS
<1> HIDE DEF new, e, I, J, X
<1>6. new \in [size : Sizes, usable : Nat, nentries : Nat,
               indices : [I -> X], entries : [J -> Entry]]
  BY <1>1, <1>2, <1>3, <1>5
<1>7. /\ new.size = dk.size /\ new.usable = dk.usable /\ new.nentries = dk.nentries
      /\ new.indices = [dk.indices EXCEPT ![j] = DKIX_DUMMY]
      /\ new.entries = [dk.entries EXCEPT ![i] = e]
  BY <1>1, <1>2
<1>8. WellTyped(new)
  BY <1>6, <1>7 DEF WellTyped, I, J, X
<1>9. \A x \in LivePositions(dk) : new.entries[x] = IF x = i THEN e ELSE dk.entries[x]
  BY <1>2, <1>4, <1>7
<1>10. LivePositions(new) = LivePositions(dk) \ {i}
  <2>1. \A x \in 0 .. dk.nentries - 1 :
          new.entries[x].hash # NoHash <=> x # i /\ dk.entries[x].hash # NoHash
    <3>1. \A x \in 0 .. dk.nentries - 1 : x \in J
      BY GoodTypes, UsableFraction DEF J
    <3> QED
      BY <1>2, <1>3, <1>7, <3>1
  <2> QED
    BY <1>7, <2>1 DEF LivePositions
<1>11. new.nentries <= dk.nentries
  BY <1>2, <1>7
<1>12. \A x \in LivePositions(new) : new.entries[x] = dk.entries[x]
  BY <1>9, <1>10
<1>13. GoodTable(new)
       /\ Cardinality(LivePositions(new)) = Cardinality(LivePositions(dk)) - 1
  <2>1. /\ new.size = dk.size /\ new.usable = dk.usable
        /\ new.indices = [dk.indices EXCEPT ![j] = DKIX_DUMMY]
    BY <1>7
  <2> QED
    BY <1>8, <1>10, <1>11, <1>12, <2>1, RemoveEntry
<1>14. UnusedSlots(new) \subseteq UnusedSlots(dk)
  BY <1>2, <1>7 DEF UnusedSlots, DKIX_EMPTY, DKIX_DUMMY, I
<1> QED
  BY <1>7, <1>10, <1>12, <1>13, <1>14 DEF new, Keeps

(* numba_dict_popitem of the last entry.                                   *)
LEMMA PopItemKeepsGood ==
  ASSUME NEW dk, GoodTable(dk), NEW i \in LivePositions(dk), LastLive(dk, i),
         NEW j \in Slots(dk.size), dk.indices[j] = i
  PROVE  LET new == popitem(dk, j, i)
         IN  /\ GoodTable(new)
             /\ Cardinality(LivePositions(new)) = Cardinality(LivePositions(dk)) - 1
             /\ new.size = dk.size /\ new.usable = dk.usable
             /\ new.nentries \in Nat
             /\ UnusedSlots(new) \subseteq UnusedSlots(dk)
             /\ Keeps(dk, new, LivePositions(dk) \ {i})
<1> DEFINE new == popitem(dk, j, i)
           e == [dk.entries[i] EXCEPT !.key = NoKey, !.val = Zero]
           I == Slots(dk.size)
           X == {DKIX_EMPTY, DKIX_DUMMY} \cup 0 .. dk.nentries - 1
           Y == {DKIX_EMPTY, DKIX_DUMMY} \cup 0 .. i - 1
           J == 0 .. USABLE_FRACTION(dk.size) - 1
<1>1. new = [dk EXCEPT !.indices[j] = DKIX_DUMMY, !.entries[i].key = NoKey,
                       !.entries[i].val = Zero, !.nentries = i]
  BY DEF popitem
<1>2. dk \in [size : Sizes, usable : Nat, nentries : Nat,
              indices : [I -> X], entries : [J -> Entry]]
  BY DEF GoodTable, WellTyped
<1>3. i \in J /\ i \in Nat /\ i \in 0 .. dk.nentries - 1 /\ LivePositions(dk) \subseteq J
  BY GoodTypes
<1>4. e \in Entry
  <2>1. dk.entries[i] \in Entry
    BY <1>2, <1>3
  <2> QED
    BY <2>1 DEF Entry
<1>5. \A s \in I : s # j => dk.indices[s] \in Y
  <2> SUFFICES ASSUME NEW s \in I, s # j, dk.indices[s] \notin {DKIX_EMPTY, DKIX_DUMMY}
               PROVE  dk.indices[s] \in 0 .. i - 1
    OBVIOUS
  <2>1. dk.indices[s] >= 0 /\ dk.indices[s] \in Nat
    BY <1>2
  <2>2. dk.indices[s] \in LivePositions(dk) /\ dk.indices[s] # i
    BY <2>1, <1>3 DEF GoodTable, Bijective
  <2>3. dk.indices[s] <= i
    BY <2>2 DEF LastLive
  <2> QED
    BY <2>1, <2>2, <2>3, <1>3
<1>6. DKIX_DUMMY \in Y
  OBVIOUS
<1> HIDE DEF new, e, I, J, X, Y
<1>7. /\ new.size = dk.size /\ new.usable = dk.usable /\ new.nentries = i
      /\ new.indices = [dk.indices EXCEPT ![j] = DKIX_DUMMY]
      /\ new.entries = [dk.entries EXCEPT ![i] = e]
  BY <1>1, <1>2, <1>3 DEF e
<1>8. new.indices \in [I -> Y]
  BY <1>2, <1>5, <1>6, <1>7
<1>9. new.entries \in [J -> Entry]
  BY <1>2, <1>4, <1>7
<1>10. WellTyped(new)
  <2>1. new = [size |-> new.size, usable |-> new.usable, nentries |-> new.nentries,
               indices |-> new.indices, entries |-> new.entries]
    BY <1>1, <1>2
  <2>2. new \in [size : Sizes, usable : Nat, nentries : Nat,
                 indices : [I -> Y], entries : [J -> Entry]]
    BY <2>1, <1>2, <1>3, <1>7, <1>8, <1>9
  <2> QED
    BY <2>2, <1>7 DEF WellTyped, I, J, Y
<1>11. \A x \in J : x # i => new.entries[x] = dk.entries[x]
  BY <1>2, <1>7
<1>12. LivePositions(new) = LivePositions(dk) \ {i}
  <2>1. \A x \in 0 .. i - 1 : x \in J /\ x # i /\ x \in 0 .. dk.nentries - 1
    BY <1>2, <1>3, GoodTypes, UsableFraction DEF J
  <2>2. \A x \in LivePositions(dk) : x # i => x \in 0 .. i - 1
    BY <1>3, GoodTypes DEF LastLive
  <2>3. LivePositions(new) = {x \in 0 .. i - 1 : new.entries[x].hash # NoHash}
    BY <1>7 DEF LivePositions
  <2>4. LivePositions(dk) = {x \in 0 .. dk.nentries - 1 : dk.entries[x].hash # NoHash}
    BY DEF LivePositions
  <2> QED
    BY <1>11, <2>1, <2>2, <2>3, <2>4
<1>13. \A x \in LivePositions(new) : new.entries[x] = dk.entries[x]
  BY <1>3, <1>11, <1>12
<1>14. new.nentries <= dk.nentries
  BY <1>2, <1>3, <1>7
<1>15. GoodTable(new)
       /\ Cardinality(LivePositions(new)) = Cardinality(LivePositions(dk)) - 1
  BY <1>7, <1>10, <1>12, <1>13, <1>14, RemoveEntry
<1>16. UnusedSlots(new) \subseteq UnusedSlots(dk)
  BY <1>2, <1>7 DEF UnusedSlots, DKIX_EMPTY, DKIX_DUMMY, I
<1> QED
  BY <1>3, <1>7, <1>12, <1>13, <1>15, <1>16 DEF new, Keeps

(* The backwards scan of numba_dict_popitem finds an entry.                *)
LEMMA LastLiveExists ==
  ASSUME NEW dk, GoodTable(dk), LivePositions(dk) # {}
  PROVE  \E i \in LivePositions(dk) : LastLive(dk, i)
<1> DEFINE L == LivePositions(dk)
           N == dk.nentries
           D == {N - x : x \in L}
<1>1. N \in Nat /\ \A x \in L : x \in Nat /\ x < N
  BY GoodTypes
<1> HIDE DEF L, N
<1>2. D \in SUBSET Nat /\ D # {}
  BY <1>1 DEF L
<1>3. PICK d \in D : \A y \in D : d <= y
  <2> HIDE DEF D
  <2> QED
    BY <1>2, NatLeast
<1>4. PICK i \in L : d = N - i
  BY <1>3
<1>5. \A y \in L : y <= i
  <2> SUFFICES ASSUME NEW y \in L PROVE y <= i
    OBVIOUS
  <2>1. N - i <= N - y
    BY <1>3, <1>4
  <2> QED
    BY <1>1, <2>1
<1> QED
  BY <1>5 DEF LastLive, L

(* numba_dict_clear pops until nothing is left.                            *)
LEMMA ClearedKeepsGood ==
  ASSUME NEW dk, GoodTable(dk)
  PROVE  LET n   == Cardinality(LivePositions(dk))
             new == cleared(dk, n)
         IN  /\ GoodTable(new) /\ Cardinality(LivePositions(new)) = 0
             /\ new.usable = dk.usable
             /\ UnusedSlots(new) \subseteq UnusedSlots(dk)
<1> DEFINE n == Cardinality(LivePositions(dk))
           pop(t) == popitem(t, lookdict_index(t, t.entries[last_live(t)].hash, last_live(t)), last_live(t))
           next(t) == IF LivePositions(t) = {} THEN t ELSE pop(t)
           S == {t \in [size : {dk.size}, usable : {dk.usable}, nentries : Nat,
                        indices : [Slots(dk.size) -> Int],
                        entries : [0 .. USABLE_FRACTION(dk.size) - 1 -> Entry]] :
                   GoodTable(t) /\ UnusedSlots(t) \subseteq UnusedSlots(dk)}
           step == [m \in Nat |-> [t \in S |-> next(t)]]
           Rec(c) == [m \in Nat |-> IF m = 0 THEN dk ELSE next(c[m - 1])]
           c0 == CHOOSE c : c = Rec(c)
<1>1. ASSUME NEW t, GoodTable(t), t.size = dk.size, t.usable = dk.usable,
             UnusedSlots(t) \subseteq UnusedSlots(dk)
      PROVE  t \in S
  <2> DEFINE I == Slots(dk.size)
             X == {DKIX_EMPTY, DKIX_DUMMY} \cup 0 .. t.nentries - 1
             J == 0 .. USABLE_FRACTION(dk.size) - 1
  <2>1. t \in [size : Sizes, usable : Nat, nentries : Nat,
               indices : [I -> X], entries : [J -> Entry]]
    BY <1>1 DEF GoodTable, WellTyped
  <2>2. X \subseteq Int
    BY <2>1 DEF DKIX_EMPTY, DKIX_DUMMY
  <2> HIDE DEF I, X, J
  <2>3. t.indices \in [I -> Int]
    BY <2>1, <2>2
  <2>4. t \in [size : {dk.size}, usable : {dk.usable}, nentries : Nat,
               indices : [I -> Int], entries : [J -> Entry]]
    BY <1>1, <2>1, <2>3
  <2> QED
    BY <1>1, <2>4 DEF I, J
<1>2. ASSUME NEW t \in S, LivePositions(t) # {}
      PROVE  /\ next(t) \in S
             /\ Cardinality(LivePositions(next(t))) = Cardinality(LivePositions(t)) - 1
  <2>1. GoodTable(t) /\ t.size = dk.size /\ t.usable = dk.usable
        /\ UnusedSlots(t) \subseteq UnusedSlots(dk)
    OBVIOUS
  <2>2. \E i \in LivePositions(t) : LastLive(t, i)
    BY <1>2, <2>1, LastLiveExists
  <2>3. last_live(t) \in LivePositions(t) /\ LastLive(t, last_live(t))
    BY <2>2 DEF last_live
  <2> DEFINE i == last_live(t)
             j == lookdict_index(t, t.entries[i].hash, i)
             new == popitem(t, j, i)
  <2> HIDE DEF i, S
  <2>4. j \in Slots(t.size) /\ t.indices[j] = i
    BY <2>1, <2>3, LookdictFinds DEF i
  <2>5. i \in LivePositions(t) /\ LastLive(t, i)
    BY <2>3 DEF i
  <2> HIDE DEF j
  <2>6. /\ GoodTable(new)
        /\ Cardinality(LivePositions(new)) = Cardinality(LivePositions(t)) - 1
        /\ new.size = t.size /\ new.usable = t.usable
        /\ UnusedSlots(new) \subseteq UnusedSlots(t)
    BY <2>1, <2>4, <2>5, PopItemKeepsGood
  <2>7. new = next(t)
    BY <1>2 DEF i, j
  <2> HIDE DEF new, next
  <2> QED
    BY <1>1, <2>1, <2>6, <2>7
<1>3. dk \in S
  BY <1>1
<1>4. ASSUME NEW t \in S PROVE next(t) \in S
  <2>1. CASE LivePositions(t) = {}
    BY <2>1
  <2>2. CASE LivePositions(t) # {}
    BY <1>2, <2>2
  <2> QED
    BY <2>1, <2>2
<1>5. \A t \in S : GoodTable(t) /\ t.usable = dk.usable
                   /\ UnusedSlots(t) \subseteq UnusedSlots(dk)
  OBVIOUS
<1>6. cleared(dk, n) = c0[n]
  BY DEF cleared
<1> HIDE DEF S, next
<1>7. step \in [Nat -> [S -> S]]
  BY <1>4
<1>8. \A m \in Nat : \A t \in S : step[m][t] = next(t)
  OBVIOUS
<1> HIDE DEF step
<1>9. PICK g \in [Nat -> S] : Follows(g, dk, step)
  BY <1>3, <1>7, PrimitiveRecursion
<1>10. g = Rec(g)
  <2>1. ASSUME NEW m \in Nat PROVE g[m] = IF m = 0 THEN dk ELSE next(g[m - 1])
    <3>1. CASE m = 0
      BY <1>9, <3>1 DEF Follows
    <3>2. CASE m # 0
      <4>1. m - 1 \in Nat /\ (m - 1) + 1 = m
        BY <3>2
      <4>2. g[(m - 1) + 1] = step[(m - 1) + 1][g[m - 1]]
        BY <1>9, <4>1 DEF Follows
      <4>3. step[m][g[m - 1]] = next(g[m - 1])
        BY <1>8, <1>9, <4>1
      <4> QED
        BY <3>2, <4>1, <4>2, <4>3
    <3> QED
      BY <3>1, <3>2
  <2> QED
    BY <2>1, <1>9
<1>11. c0 = Rec(c0)
  BY <1>10
<1> HIDE DEF c0, n
<1> DEFINE A == {m \in Nat : m <= n => /\ c0[m] \in S
                                      /\ Cardinality(LivePositions(c0[m])) = n - m}
<1>12. n \in Nat
  BY LiveFinite DEF n
<1>13. 0 \in A
  BY <1>3, <1>11, <1>12 DEF n
<1>14. ASSUME NEW m \in Nat, m \in A PROVE m + 1 \in A
  <2> SUFFICES ASSUME m + 1 <= n
               PROVE  c0[m + 1] \in S /\ Cardinality(LivePositions(c0[m + 1])) = n - (m + 1)
    OBVIOUS
  <2>1. c0[m] \in S /\ Cardinality(LivePositions(c0[m])) = n - m
    BY <1>12, <1>14
  <2>2. c0[m + 1] = next(c0[m])
    BY <1>11
  <2>3. LivePositions(c0[m]) # {}
    BY <2>1, <1>12, FS_EmptySet
  <2> QED
    BY <1>2, <1>12, <2>1, <2>2, <2>3
<1>15. A = Nat
  <2> HIDE DEF A
  <2> QED
    BY <1>13, <1>14, NatSetInduction, A \in SUBSET Nat DEF A
<1>16. c0[n] \in S /\ Cardinality(LivePositions(c0[n])) = 0
  <2>1. n \in A
    BY <1>12, <1>15
  <2> QED
    BY <2>1, <1>12
<1> QED
  BY <1>5, <1>6, <1>16 DEF n

-----------------------------------------------------------------------------
(* The dictionary.                                                         *)

(* Inductive, in the form the lemmas above use.                            *)
LEMMA InductiveGood ==
  Inductive <=> /\ used \in Nat /\ status \in Statuses
                /\ GoodTable(keys) /\ used = Cardinality(LivePositions(keys))
BY DEF Inductive, TypeOK, CountersAgree, IndexMatchesEntries, EntriesReachable, GoodTable

(* numba_dict_new gives a table the invariant holds of.                    *)
LEMMA InitInductive == Init => Inductive
<1> SUFFICES ASSUME Init PROVE Inductive
  OBVIOUS
<1>1. PICK size \in InitSizes : keys = numba_dictkeys_new(size)
  BY DEF Init
<1> DEFINE E == [i \in 0 .. USABLE_FRACTION(size) - 1 |-> FilledEntry]
<1>2. size \in Sizes /\ USABLE_FRACTION(size) \in Nat
  BY DictConstants, UsableFraction
<1>3. E \in [0 .. USABLE_FRACTION(size) - 1 -> Entry]
  <2>1. FilledEntry \in Entry
    BY DictConstants DEF FilledEntry, Entry, NoHash, Hashes
  <2> QED
    BY <2>1
<1>4. build_indices(size, E, 0) = [s \in Slots(size) |-> DKIX_EMPTY]
  <2> HIDE DEF E
  <2> QED
    BY <1>2, BuildIndicesStep
<1>5. keys = [size |-> size, usable |-> USABLE_FRACTION(size) - 0, nentries |-> 0,
              indices |-> build_indices(size, E, 0), entries |-> E]
  BY <1>1, <1>2, <1>4 DEF numba_dictkeys_new
<1> HIDE DEF E
<1>6. 0 .. 0 - 1 = {} /\ 0 \in Nat /\ 0 <= USABLE_FRACTION(size)
  BY <1>2
<1>7. GoodTable(keys) /\ LivePositions(keys) = 0 .. 0 - 1
  BY <1>2, <1>3, <1>5, <1>6, BuildIndices
<1>8. used = 0 /\ status = "OK" /\ Cardinality(LivePositions(keys)) = 0
  BY <1>6, <1>7, FS_EmptySet DEF Init
<1> QED
  BY <1>7, <1>8, InductiveGood DEF Statuses

(* What a step may do to usable and to the unused slots.                   *)
Reclaims == keys'.usable > keys.usable \/ ~(UnusedSlots(keys') \subseteq UnusedSlots(keys))

StepOK ==
  /\ Inductive'
  /\ Reclaims => keys.usable = 0 /\ keys'.nentries = used'
  /\ keys'.usable > keys.usable => keys'.usable >= used - 1
  /\ status' = "abort" => \E k \in Keys : Hash[k] = NoHash

(* A step that keeps usable and the unused slots is fine when its table is *)
(* good and used counts it.                                                *)
LEMMA QuietStep ==
  ASSUME Inductive, GoodTable(keys'), used' = Cardinality(LivePositions(keys')),
         keys'.usable <= keys.usable, UnusedSlots(keys') \subseteq UnusedSlots(keys),
         status' \in Statuses \ {"abort"}
  PROVE  StepOK
<1>1. used' \in Nat
  <2>1. \A dk : GoodTable(dk) => Cardinality(LivePositions(dk)) \in Nat
    BY LiveFinite
  <2> QED
    BY <2>1
<1>2. Inductive'
  <2>1. Inductive' <=> /\ used' \in Nat /\ status' \in Statuses
                       /\ GoodTable(keys') /\ used' = Cardinality(LivePositions(keys'))
    BY DEF Inductive, TypeOK, CountersAgree, IndexMatchesEntries, EntriesReachable, GoodTable
  <2> QED
    BY <1>1, <2>1
<1>3. keys.usable \in Nat /\ keys'.usable \in Nat
  <2>1. \A dk : GoodTable(dk) => dk.usable \in Nat
    BY GoodTypes
  <2> QED
    BY <2>1, InductiveGood
<1>4. ~(keys'.usable > keys.usable)
  BY <1>3
<1> QED
  BY <1>2, <1>4 DEF StepOK, Reclaims

(* A step that changes no variable but status.                             *)
LEMMA NoChange ==
  ASSUME Inductive, UNCHANGED <<used, keys>>, status' \in Statuses,
         status' = "abort" => \E k \in Keys : Hash[k] = NoHash
  PROVE  StepOK
<1>1. Inductive'
  BY DEF Inductive, TypeOK, CountersAgree, IndexMatchesEntries, EntriesReachable
<1>2. keys.usable \in Nat
  BY InductiveGood, GoodTypes
<1> QED
  BY <1>1, <1>2 DEF StepOK, Reclaims

(* Replacing a value moves nothing.                                        *)
LEMMA ReplaceKeepsGood ==
  ASSUME NEW dk, GoodTable(dk), NEW i \in LivePositions(dk), NEW v \in Vals,
         NEW new, new = [dk EXCEPT !.entries[i].val = v]
  PROVE  /\ GoodTable(new) /\ LivePositions(new) = LivePositions(dk)
         /\ new.usable = dk.usable /\ UnusedSlots(new) = UnusedSlots(dk)
         /\ Revalues(dk, new, i, v)
<1> DEFINE I == Slots(dk.size)
           X == {DKIX_EMPTY, DKIX_DUMMY} \cup 0 .. dk.nentries - 1
           J == 0 .. USABLE_FRACTION(dk.size) - 1
           e == [dk.entries[i] EXCEPT !.val = v]
<1>1. dk \in [size : Sizes, usable : Nat, nentries : Nat,
              indices : [I -> X], entries : [J -> Entry]]
  BY DEF GoodTable, WellTyped
<1>2. LivePositions(dk) \subseteq J /\ 0 .. dk.nentries - 1 \subseteq J
  BY GoodTypes, UsableFraction
<1>3. e \in Entry /\ e.hash = dk.entries[i].hash /\ e.key = dk.entries[i].key
  <2>1. dk.entries[i] \in Entry
    BY <1>1, <1>2
  <2> QED
    BY <2>1 DEF Entry
<1> HIDE DEF I, X, J
<1>4. /\ new.size = dk.size /\ new.usable = dk.usable /\ new.nentries = dk.nentries
      /\ new.indices = dk.indices /\ new.entries = [dk.entries EXCEPT ![i] = e]
  BY <1>1, <1>2
<1>5. WellTyped(new)
  <2>1. new.entries \in [J -> Entry]
    <3> HIDE DEF e
    <3> QED
      BY <1>1, <1>3, <1>4
  <2>2. new = [size |-> new.size, usable |-> new.usable, nentries |-> new.nentries,
               indices |-> new.indices, entries |-> new.entries]
    BY <1>1
  <2>3. new \in [size : Sizes, usable : Nat, nentries : Nat,
                 indices : [I -> X], entries : [J -> Entry]]
    <3> HIDE DEF e
    <3> QED
      BY <1>1, <1>4, <2>1, <2>2
  <2> QED
    BY <1>4, <2>3 DEF WellTyped, I, X, J
<1>6. \A x \in J : /\ new.entries[x].hash = dk.entries[x].hash
                   /\ new.entries[x].key = dk.entries[x].key
  BY <1>1, <1>3, <1>4
<1>7. LivePositions(new) = LivePositions(dk)
  BY <1>2, <1>4, <1>6 DEF LivePositions
<1>8. UnusedSlots(new) = UnusedSlots(dk)
  BY <1>4 DEF UnusedSlots
<1>9. WithinBudget(new) /\ PaidFor(new)
  BY <1>4, <1>8 DEF GoodTable, WithinBudget, PaidFor
<1>10. Bijective(new)
  BY <1>4, <1>7 DEF GoodTable, Bijective
<1>11. \A x \in LivePositions(new) : OnProbePath(new, x)
  <2> SUFFICES ASSUME NEW x \in LivePositions(dk) PROVE OnProbePath(new, x)
    BY <1>7
  <2>1. OnProbePath(dk, x) /\ new.entries[x].hash = dk.entries[x].hash
    BY <1>2, <1>6 DEF GoodTable
  <2> QED
    BY <1>4, <2>1 DEF OnProbePath
<1>12. Distinct(new)
  BY <1>2, <1>6, <1>7 DEF GoodTable, Distinct
<1>13. \A x \in LivePositions(dk) : new.entries[x] = IF x = i THEN e ELSE dk.entries[x]
  <2> HIDE DEF e
  <2> QED
    BY <1>1, <1>2, <1>4
<1> QED
  BY <1>4, <1>5, <1>7, <1>8, <1>9, <1>10, <1>11, <1>12, <1>13 DEF GoodTable, Revalues

(* lookup gives the position of a live entry of k, or DKIX_EMPTY.          *)
LEMMA LookupLive ==
  ASSUME NEW dk, GoodTable(dk), NEW k \in Keys
  PROVE  /\ lookup(dk, k) >= 0 =>
              /\ lookup(dk, k) \in LivePositions(dk)
              /\ dk.entries[lookup(dk, k)].key = k
              /\ dk.entries[lookup(dk, k)].hash = Hash[k]
         /\ lookup(dk, k) = DKIX_EMPTY =>
              \A x \in LivePositions(dk) : dk.entries[x].key # k
<1>1. CASE \E x \in LivePositions(dk) : dk.entries[x].key = k
  <2>1. PICK x \in LivePositions(dk) : dk.entries[x].key = k
    BY <1>1
  <2>2. lookup(dk, k) = x
    BY <2>1, LookupFinds
  <2>3. x \in Nat /\ dk.entries[x].hash = Hash[k]
    BY <2>1, GoodTypes DEF GoodTable, Distinct
  <2> QED
    BY <2>1, <2>2, <2>3 DEF DKIX_EMPTY
<1>2. CASE \A x \in LivePositions(dk) : dk.entries[x].key # k
  <2>1. lookup(dk, k) = DKIX_EMPTY
    BY <1>2, LookupFinds
  <2> QED
    BY <1>2, <2>1 DEF DKIX_EMPTY
<1> QED
  BY <1>1, <1>2

(* Whatever numba_dict_insert does, be it a replacement, an insertion, a   *)
(* rebuild, a failed rebuild or an abort, the table stays good.            *)
LEMMA InsertStep ==
  ASSUME Inductive, NEW k \in Keys, NEW v \in Vals, Insert(k, v)
  PROVE  StepOK
<1>0. GoodTable(keys) /\ used = Cardinality(LivePositions(keys)) /\ used \in Nat
  BY InductiveGood
<1>1. CASE InsertReplace(k, v)
  <2> DEFINE ix == lookup(keys, k)
  <2>1. ix >= 0 /\ keys' = [keys EXCEPT !.entries[ix].val = v]
        /\ status' = "OK_REPLACED" /\ used' = used
    BY <1>1 DEF InsertReplace
  <2>2. ix \in LivePositions(keys)
    BY <1>0, <2>1, LookupLive
  <2> HIDE DEF ix
  <2>3. /\ GoodTable(keys') /\ LivePositions(keys') = LivePositions(keys)
        /\ keys'.usable = keys.usable /\ UnusedSlots(keys') = UnusedSlots(keys)
    BY <1>0, <2>1, <2>2, ReplaceKeepsGood
  <2>4. keys.usable \in Nat
    BY <1>0, GoodTypes
  <2> QED
    BY <1>0, <2>1, <2>3, <2>4, QuietStep DEF Statuses
<1>1a. CASE Hash[k] = NoHash /\ ~InsertReplace(k, v)
  <2>1. UNCHANGED <<used, keys>> /\ status' \in {"abort", "ERR_NO_MEMORY"}
    BY <1>1a DEF Insert, InsertNew, InsertResize, InsertNoMemory, AddItem, Abort
  <2> QED
    BY <1>1a, <2>1, NoChange DEF Statuses
<1>2. CASE InsertNew(k, v) /\ Hash[k] # NoHash
  <2>1. /\ lookup(keys, k) = DKIX_EMPTY /\ keys.usable > 0 /\ Hash[k] # NoHash
        /\ keys' = new_entry(keys, k, v) /\ used' = used + 1 /\ status' = "OK"
    BY <1>2 DEF InsertNew, AddItem
  <2>2. \A x \in LivePositions(keys) : keys.entries[x].key # k
    BY <1>0, <2>1, LookupLive
  <2>3. /\ GoodTable(keys')
        /\ Cardinality(LivePositions(keys')) = Cardinality(LivePositions(keys)) + 1
        /\ keys'.usable = keys.usable - 1
        /\ UnusedSlots(keys') \subseteq UnusedSlots(keys)
    BY <1>0, <2>1, <2>2, NewEntry
  <2>4. keys'.usable <= keys.usable
    BY <1>0, <2>3, GoodTypes
  <2>5. used' = Cardinality(LivePositions(keys'))
    BY <1>0, <2>1, <2>3
  <2> QED
    BY <2>1, <2>3, <2>4, <2>5, QuietStep DEF Statuses
<1>3. CASE InsertResize(k, v) /\ Hash[k] # NoHash
  <2>1. PICK newsize \in Sizes :
          /\ NewSize(newsize, D_GROWTH_RATE(used))
          /\ AddItem(resized(keys, used, newsize), k, v)
    BY <1>3 DEF InsertResize
  <2>2. /\ lookup(keys, k) = DKIX_EMPTY /\ keys.usable <= 0 /\ Hash[k] # NoHash
        /\ used' = used + 1 /\ status' = "OK"
    BY <1>3, <2>1 DEF InsertResize, AddItem
  <2> DEFINE mid == resized(keys, used, newsize)
  <2>3. newsize >= 3 * used
    BY <2>1 DEF NewSize, D_GROWTH_RATE
  <2>4. /\ GoodTable(mid) /\ mid.nentries = used
        /\ Cardinality(LivePositions(mid)) = used
        /\ mid.usable >= used /\ mid.usable > 0
        /\ \A x \in LivePositions(mid) :
             \E y \in LivePositions(keys) : mid.entries[x] = keys.entries[y]
    BY <1>0, <2>3, Resized
  <2>5. keys' = new_entry(mid, k, v)
    BY <1>3, <2>1 DEF AddItem
  <2> HIDE DEF mid
  <2>6. \A x \in LivePositions(mid) : mid.entries[x].key # k
    BY <1>0, <2>2, <2>4, LookupLive
  <2>7. /\ GoodTable(keys')
        /\ Cardinality(LivePositions(keys')) = Cardinality(LivePositions(mid)) + 1
        /\ keys'.usable = mid.usable - 1 /\ keys'.nentries = mid.nentries + 1
    BY <2>2, <2>4, <2>5, <2>6, NewEntry
  <2>8. keys.usable = 0 /\ keys'.nentries = used' /\ keys'.usable >= used - 1
    <3>1. keys.usable \in Nat /\ mid.usable \in Nat
      BY <1>0, <2>4, GoodTypes
    <3> QED
      BY <1>0, <2>2, <2>4, <2>7, <3>1
  <2>9. Inductive'
    <3>1. Inductive' <=> /\ used' \in Nat /\ status' \in Statuses
                         /\ GoodTable(keys') /\ used' = Cardinality(LivePositions(keys'))
      BY DEF Inductive, TypeOK, CountersAgree, IndexMatchesEntries, EntriesReachable, GoodTable
    <3> QED
      BY <1>0, <2>2, <2>4, <2>7, <3>1 DEF Statuses
  <2> QED
    BY <2>2, <2>8, <2>9 DEF StepOK
<1>4. CASE InsertNoMemory(k)
  BY <1>4, NoChange DEF InsertNoMemory, Statuses
<1> QED
  BY <1>1, <1>1a, <1>2, <1>3, <1>4 DEF Insert

(* numba_dict_delitem of a key of the dict leaves a dummy and a good table. *)
LEMMA DelItemStep ==
  ASSUME Inductive, NEW k \in Keys, DelItem(k)
  PROVE  StepOK
<1> DEFINE i == lookup(keys, k)
           j == lookdict_index(keys, Hash[k], i)
<1>0. GoodTable(keys) /\ used = Cardinality(LivePositions(keys)) /\ used \in Nat
  BY InductiveGood
<1>1. i >= 0
  BY DEF DelItem
<1>2. i \in LivePositions(keys) /\ keys.entries[i].hash = Hash[k]
  BY <1>0, <1>1, LookupLive
<1>3. j \in Slots(keys.size) /\ keys.indices[j] = i
  <2> HIDE DEF i
  <2> QED
    BY <1>0, <1>2, LookdictFinds
<1>4. j >= 0 /\ ~(j < 0)
  BY <1>0, <1>3, GoodTypes, UsableFraction DEF Slots
<1>5. keys' = delitem(keys, j, i) /\ used' = used - 1 /\ status' = "OK"
  BY <1>4 DEF DelItem
<1> HIDE DEF i, j
<1>6. /\ GoodTable(keys')
      /\ Cardinality(LivePositions(keys')) = Cardinality(LivePositions(keys)) - 1
      /\ keys'.usable = keys.usable
      /\ UnusedSlots(keys') \subseteq UnusedSlots(keys)
  BY <1>0, <1>2, <1>3, <1>5, DelItemKeepsGood
<1>7. keys'.usable <= keys.usable
  BY <1>0, <1>6, GoodTypes
<1>8. used' = Cardinality(LivePositions(keys'))
  BY <1>0, <1>5, <1>6
<1> QED
  BY <1>5, <1>6, <1>7, <1>8, QuietStep DEF Statuses

(* numba_dict_popitem removes the last entry and shortens the entry array. *)
LEMMA PopItemStep ==
  ASSUME Inductive, PopItem
  PROVE  StepOK
<1> DEFINE i == last_live(keys)
           j == lookdict_index(keys, keys.entries[i].hash, i)
<1>0. GoodTable(keys) /\ used = Cardinality(LivePositions(keys)) /\ used \in Nat
  BY InductiveGood
<1>1. LivePositions(keys) # {}
  BY <1>0, FS_EmptySet DEF PopItem
<1>2. i \in LivePositions(keys) /\ LastLive(keys, i)
  BY <1>0, <1>1, LastLiveExists DEF last_live
<1>3. j \in Slots(keys.size) /\ keys.indices[j] = i
  <2> HIDE DEF i
  <2> QED
    BY <1>0, <1>2, LookdictFinds
<1>4. ~(j < 0)
  BY <1>0, <1>3, GoodTypes, UsableFraction DEF Slots
<1>5. keys' = popitem(keys, j, i) /\ used' = used - 1 /\ status' = "OK"
  BY <1>1, <1>4 DEF PopItem
<1> HIDE DEF i, j
<1>6. /\ GoodTable(keys')
      /\ Cardinality(LivePositions(keys')) = Cardinality(LivePositions(keys)) - 1
      /\ keys'.usable = keys.usable
      /\ UnusedSlots(keys') \subseteq UnusedSlots(keys)
  BY <1>0, <1>2, <1>3, <1>5, PopItemKeepsGood
<1>7. keys'.usable <= keys.usable
  BY <1>0, <1>6, GoodTypes
<1>8. used' = Cardinality(LivePositions(keys'))
  BY <1>0, <1>5, <1>6
<1> QED
  BY <1>5, <1>6, <1>7, <1>8, QuietStep DEF Statuses

(* numba_dict_clear leaves a good table without entries.                   *)
LEMMA ClearStep ==
  ASSUME Inductive, Clear
  PROVE  StepOK
<1>0. GoodTable(keys) /\ used = Cardinality(LivePositions(keys)) /\ used \in Nat
  BY InductiveGood
<1>1. keys' = cleared(keys, Cardinality(LivePositions(keys))) /\ used' = 0 /\ status' = "OK"
  BY <1>0 DEF Clear
<1>2. /\ GoodTable(keys') /\ Cardinality(LivePositions(keys')) = 0
      /\ keys'.usable = keys.usable
      /\ UnusedSlots(keys') \subseteq UnusedSlots(keys)
  BY <1>0, <1>1, ClearedKeepsGood
<1>3. keys'.usable <= keys.usable
  BY <1>0, <1>2, GoodTypes
<1> QED
  BY <1>1, <1>2, <1>3, QuietStep DEF Statuses

(* Every call keeps the invariant and obeys the two action properties.     *)
LEMMA NextStep ==
  ASSUME Inductive, Next
  PROVE  StepOK
<1>1. ASSUME NEW k \in Keys, NEW v \in Vals, Insert(k, v) PROVE StepOK
  BY <1>1, InsertStep
<1>2. ASSUME NEW k \in Keys, DelItem(k) PROVE StepOK
  BY <1>2, DelItemStep
<1>3. CASE PopItem
  BY <1>3, PopItemStep
<1>4. CASE PopItemEmpty
  BY <1>4, NoChange DEF PopItemEmpty, Statuses
<1>5. CASE Clear
  BY <1>5, ClearStep
<1> QED
  BY <1>1, <1>2, <1>3, <1>4, <1>5 DEF Next

-----------------------------------------------------------------------------
(* The theorems.                                                           *)

(* The table invariant holds in every reachable state: the counters agree, *)
(* slots and entries are in bijection, no probe path is cut.               *)
THEOREM TableInvariant == Spec => []Inductive
<1>1. Init => Inductive
  BY InitInductive
<1>2. Inductive /\ [Next]_vars => Inductive'
  <2>1. ASSUME Inductive, Next PROVE Inductive'
    BY <2>1, NextStep DEF StepOK
  <2>2. ASSUME Inductive, UNCHANGED vars PROVE Inductive'
    BY <2>2 DEF vars, Inductive, TypeOK, CountersAgree, IndexMatchesEntries, EntriesReachable
  <2> QED
    BY <2>1, <2>2
<1> QED
  BY <1>1, <1>2, PTL DEF Spec

(* The variables and the fields of the table keep their kinds: in          *)
(* particular every index cell is empty, dummy or an entry in use.         *)
THEOREM DictTypes == Spec => []TypeOK
<1>1. Inductive => TypeOK
  BY DEF Inductive
<1> QED
  BY <1>1, TableInvariant, PTL

(* dictobject.c:146: "there must be at least one Unused slot".             *)
THEOREM SearchTerminates == Spec => []UnusedSlotRemains
<1>1. Inductive => UnusedSlotRemains
  BY InductiveGood, UnusedExists DEF UnusedSlotRemains
<1> QED
  BY <1>1, TableInvariant, PTL

(* used counts the live entries and the entry array is never overrun.      *)
THEOREM CountersSound == Spec => []CountersAgree
<1>1. Inductive => CountersAgree
  BY DEF Inductive
<1> QED
  BY <1>1, TableInvariant, PTL

(* No delete, popitem, clear or rebuild cuts the probe path of a key.      *)
THEOREM NoPathCut == Spec => []EntriesReachable
<1>1. Inductive => EntriesReachable
  BY DEF Inductive
<1> QED
  BY <1>1, TableInvariant, PTL

(* numba_dict_lookup finds every key of the dict, and no other.            *)
THEOREM LookupIsCorrect == Spec => []LookupCorrect
<1>1. Inductive => LookupCorrect
  <2> SUFFICES ASSUME Inductive, NEW k \in Keys
               PROVE  LET at == {i \in LivePositions(keys) : keys.entries[i].key = k}
                      IN  IF at = {} THEN lookup(keys, k) = DKIX_EMPTY
                          ELSE at = {lookup(keys, k)}
    BY DEF LookupCorrect
  <2> DEFINE at == {i \in LivePositions(keys) : keys.entries[i].key = k}
  <2>0. GoodTable(keys)
    BY InductiveGood
  <2>1. CASE at = {}
    BY <2>0, <2>1, LookupFinds
  <2>2. CASE at # {}
    <3>1. PICK i \in LivePositions(keys) : keys.entries[i].key = k
      BY <2>2
    <3>2. lookup(keys, k) = i
      BY <2>0, <3>1, LookupFinds
    <3>3. at = {i}
      BY <2>0, <3>1 DEF GoodTable, Distinct
    <3> QED
      BY <3>2, <3>3
  <2> QED
    BY <2>1, <2>2
<1> QED
  BY <1>1, TableInvariant, PTL

(* While no key hashes to -1, none of the asserts on a hash, a deleted      *)
(* position and what popitem finds (657, 789, 825, 828) fails.              *)
THEOREM AssertsHold == Spec => []NoAbort
<1>1. Init => NoAbort
  BY DEF Init, NoAbort, Running
<1>2. Inductive /\ NoAbort /\ [Next]_vars => NoAbort'
  <2>1. ASSUME Inductive, Next PROVE NoAbort'
    BY <2>1, NextStep DEF StepOK, NoAbort, Running
  <2>2. ASSUME NoAbort, UNCHANGED vars PROVE NoAbort'
    BY <2>2 DEF vars, NoAbort, Running
  <2> QED
    BY <2>1, <2>2
<1> QED
  BY <1>1, <1>2, TableInvariant, PTL DEF Spec

(* Only a rebuild, made when usable has run out, gives slots back.         *)
THEOREM ReclaimedByRebuild == Spec => OnlyRebuildReclaims
<1>1. Inductive /\ [Next]_vars =>
        [Reclaims => keys.usable = 0 /\ keys'.nentries = used']_vars
  BY NextStep DEF StepOK
<1> QED
  BY <1>1, TableInvariant, PTL DEF Spec, OnlyRebuildReclaims, Reclaims

(* A rebuild leaves room for as many insertions as there were items.       *)
THEOREM RebuildIsPaidFor == Spec => RebuildLeavesRoom
<1>1. Inductive /\ [Next]_vars =>
        [keys'.usable > keys.usable => keys'.usable >= used - 1]_vars
  BY NextStep DEF StepOK
<1> QED
  BY <1>1, TableInvariant, PTL DEF Spec, RebuildLeavesRoom
=============================================================================
