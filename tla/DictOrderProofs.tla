---------------------------- MODULE DictOrderProofs ----------------------------
(***************************************************************************)
(* The order of the entries of a dict: every operation of DictObject is a  *)
(* step of OrderedMap, and what compiled code sees of a dict, its loops    *)
(* included, is what StandaloneDict says of it.                            *)
(***************************************************************************)
EXTENDS DictOrder, StandaloneDict, DictObjectProofs, FunctionTheorems, SequenceTheorems

-----------------------------------------------------------------------------
(* Enumerations.  f lists the n numbers of L in increasing order.          *)

Lists(f, n, L) ==
  /\ f \in [1 .. n -> L]
  /\ \A a, b \in 1 .. n : a < b => f[a] < f[b]
  /\ \A x \in L : \E a \in 1 .. n : f[a] = x

Rank(L, x) == Cardinality({j \in L : j < x})

(* Ranks are numbers, and smaller numbers have smaller ranks.              *)
LEMMA RankGrows ==
  ASSUME NEW L \in SUBSET Nat, IsFiniteSet(L), NEW x \in L, NEW y \in L
  PROVE  /\ Rank(L, x) \in Nat /\ Rank(L, x) < Cardinality(L)
         /\ x < y => Rank(L, x) < Rank(L, y)
         /\ Rank(L, x) = Rank(L, y) => x = y
<1> DEFINE B(z) == {j \in L : j < z}
<1>1. ASSUME NEW z \in L
      PROVE  /\ IsFiniteSet(B(z)) /\ Cardinality(B(z)) \in Nat
             /\ IsFiniteSet(B(z) \cup {z})
             /\ Cardinality(B(z) \cup {z}) = Cardinality(B(z)) + 1
  <2>1. B(z) \in SUBSET L /\ z \notin B(z)
    OBVIOUS
  <2> HIDE DEF B
  <2>2. IsFiniteSet(B(z))
    BY <2>1, FS_Subset
  <2> QED
    BY <2>1, <2>2, FS_CardinalityType, FS_AddElement
<1>2. ASSUME NEW z \in L, NEW w \in L, z < w
      PROVE  Cardinality(B(z)) < Cardinality(B(w))
  <2>1. ASSUME NEW j \in B(z) \cup {z} PROVE j \in B(w)
    <3>1. z \in Nat /\ w \in Nat /\ j \in L /\ j \in Nat /\ (j < z \/ j = z)
      OBVIOUS
    <3>2. j < w
      BY <1>2, <3>1
    <3> QED
      BY <3>1, <3>2
  <2> DEFINE C == B(z) \cup {z}
             D == B(w)
  <2>2. Cardinality(C) = Cardinality(B(z)) + 1 /\ Cardinality(B(z)) \in Nat
    BY <1>1
  <2>3. IsFiniteSet(D) /\ Cardinality(D) \in Nat
    BY <1>1
  <2>4. C \in SUBSET D
    BY <2>1
  <2> HIDE DEF C, D
  <2>5. Cardinality(C) <= Cardinality(D)
    BY <2>3, <2>4, FS_Subset
  <2>6. Cardinality(B(z)) < Cardinality(D)
    <3> HIDE DEF B
    <3> QED
      BY <2>2, <2>3, <2>5
  <2> QED
    BY <2>6 DEF D
<1>3. Cardinality(B(x)) < Cardinality(L)
  <2>1. B(x) \cup {x} \in SUBSET L
    OBVIOUS
  <2> HIDE DEF B
  <2>2. Cardinality(B(x) \cup {x}) <= Cardinality(L) /\ Cardinality(L) \in Nat
    BY <2>1, FS_Subset, FS_CardinalityType
  <2> QED
    BY <1>1, <2>2
<1>4. Rank(L, x) = Cardinality(B(x)) /\ Rank(L, y) = Cardinality(B(y))
  BY DEF Rank
<1> HIDE DEF B
<1>5. ASSUME NEW z \in L, NEW w \in L, z < w
      PROVE  Cardinality(B(z)) # Cardinality(B(w))
  <2>1. Cardinality(B(z)) < Cardinality(B(w))
    BY <1>2, <1>5
  <2>2. Cardinality(B(z)) \in Nat /\ Cardinality(B(w)) \in Nat
    BY <1>1
  <2> QED
    BY <2>1, <2>2
<1>6. Cardinality(B(x)) = Cardinality(B(y)) => x = y
  <2>1. x < y \/ y < x \/ x = y
    OBVIOUS
  <2> QED
    BY <1>5, <2>1, Zenon
<1>7. x < y => Cardinality(B(x)) < Cardinality(B(y))
  BY <1>2, Zenon
<1>8. Cardinality(B(x)) \in Nat
  BY <1>1
<1> QED
  BY <1>3, <1>4, <1>6, <1>7, <1>8

(* A list of L has as many items as L, and the item at a has rank a - 1.   *)
LEMMA ListRanks ==
  ASSUME NEW L \in SUBSET Nat, IsFiniteSet(L), NEW n \in Nat, NEW f, Lists(f, n, L)
  PROVE  /\ n = Cardinality(L)
         /\ \A a \in 1 .. n : f[a] \in L /\ Rank(L, f[a]) = a - 1
<1>1. /\ f \in [1 .. n -> L]
      /\ \A a, b \in 1 .. n : a < b => f[a] < f[b]
      /\ \A x \in L : \E a \in 1 .. n : f[a] = x
  BY DEF Lists
<1>2. \A a, b \in 1 .. n : f[a] = f[b] => a = b
  <2> SUFFICES ASSUME NEW a \in 1 .. n, NEW b \in 1 .. n, f[a] = f[b], a # b PROVE FALSE
    OBVIOUS
  <2>1. f[a] \in Nat /\ f[b] \in Nat
    BY <1>1
  <2>2. a < b \/ b < a
    OBVIOUS
  <2> QED
    BY <1>1, <2>1, <2>2
<1>3. ASSUME NEW m \in Nat, m <= n, NEW T, T = {f[b] : b \in 1 .. m}
      PROVE  Cardinality(T) = m
  <2> DEFINE g == [b \in 1 .. m |-> f[b]]
             I == 1 .. m
  <2>1. IsFiniteSet(I) /\ Cardinality(I) = m
    <3>1. 1 \in Int /\ m \in Int
      OBVIOUS
    <3>2. IsFiniteSet(1 .. m) /\ Cardinality(1 .. m) = IF 1 > m THEN 0 ELSE m - 1 + 1
      BY <3>1, FS_Interval, Zenon
    <3> QED
      BY <3>2
  <2>2. I \subseteq 1 .. n
    BY <1>3
  <2>3. g \in [I -> T] /\ \A b \in I : g[b] = f[b]
    BY <1>3
  <2> HIDE DEF g, I
  <2>4. g \in Bijection(I, T)
    <3>1. \A a, b \in I : g[a] = g[b] => a = b
      BY <1>2, <2>2, <2>3
    <3>2. \A t \in T : \E b \in I : g[b] = t
      BY <1>3, <2>3 DEF I
    <3> QED
      BY <2>3, <3>1, <3>2 DEF Bijection, Injection, Surjection, IsInjective
  <2>5. ExistsBijection(I, T)
    BY <2>4 DEF ExistsBijection
  <2> QED
    BY <2>1, <2>5, FS_Bijection
<1>4. n = Cardinality(L)
  <2>1. L = {f[b] : b \in 1 .. n}
    BY <1>1
  <2> QED
    BY <1>3, <2>1
<1>5. ASSUME NEW a \in 1 .. n PROVE f[a] \in L /\ Rank(L, f[a]) = a - 1
  <2> DEFINE T == {f[b] : b \in 1 .. a - 1}
  <2>1. a - 1 \in Nat /\ a - 1 <= n /\ f[a] \in L
    BY <1>1
  <2>2. ASSUME NEW j \in L, j < f[a] PROVE j \in T
    <3>1. PICK b \in 1 .. n : f[b] = j
      BY <1>1
    <3>2. ~(a < b) /\ a # b
      <4>1. f[a] \in Nat /\ f[b] \in Nat
        BY <1>1
      <4> QED
        BY <1>1, <2>2, <3>1, <4>1
    <3>3. b \in 1 .. a - 1
      BY <3>2
    <3> QED
      BY <3>1, <3>3
  <2>3. ASSUME NEW j \in T PROVE j \in L /\ j < f[a]
    <3>1. PICK b \in 1 .. a - 1 : f[b] = j
      OBVIOUS
    <3>2. b \in 1 .. n /\ b < a
      OBVIOUS
    <3> QED
      BY <1>1, <3>1, <3>2
  <2> HIDE DEF T
  <2>4. {j \in L : j < f[a]} = T
    BY <2>2, <2>3
  <2>5. Cardinality(T) = a - 1
    BY <1>3, <2>1 DEF T
  <2> QED
    BY <2>1, <2>4, <2>5 DEF Rank
<1> QED
  BY <1>4, <1>5

-----------------------------------------------------------------------------
(* The live entries of a table, listed.                                    *)

InOrder(dk) == [a \in 1 .. Cardinality(LivePositions(dk)) |-> NthLive(dk, a - 1)]

(* NthLive lists the live positions,                                       *)
LEMMA NthLiveLists ==
  ASSUME NEW dk, GoodTable(dk)
  PROVE  Lists(InOrder(dk), Cardinality(LivePositions(dk)), LivePositions(dk))
<1> DEFINE L == LivePositions(dk)
           n == Cardinality(L)
           f == InOrder(dk)
<1>1. L \in SUBSET Nat /\ IsFiniteSet(L) /\ n \in Nat
  BY GoodTypes, LiveFinite
<1>2. \A a \in 0 .. n - 1 : NthLive(dk, a) \in L /\ Rank(L, NthLive(dk, a)) = a
  BY NthLiveExists DEF Rank
<1>3. \A a \in 1 .. n : a - 1 \in 0 .. n - 1 /\ f[a] = NthLive(dk, a - 1)
  BY <1>1 DEF InOrder
<1>4. f \in [1 .. n -> L] /\ \A a \in 1 .. n : f[a] \in L /\ Rank(L, f[a]) = a - 1
  <2>1. \A a \in 1 .. n : f[a] \in L /\ Rank(L, f[a]) = a - 1
    BY <1>2, <1>3
  <2>2. DOMAIN f = 1 .. n /\ f = [a \in 1 .. n |-> f[a]]
    BY DEF InOrder
  <2> HIDE DEF f, n, L
  <2> QED
    BY <2>1, <2>2
<1> HIDE DEF f, n, L
<1>5. ASSUME NEW a \in 1 .. n, NEW b \in 1 .. n, a < b PROVE f[a] < f[b]
  <2>1. f[a] \in Nat /\ f[b] \in Nat
    BY <1>1, <1>4
  <2>2. Rank(L, f[a]) < Rank(L, f[b])
    BY <1>4, <1>5
  <2>3. f[a] # f[b]
    BY <1>1, <1>4, <2>2
  <2>4. f[b] < f[a] => Rank(L, f[b]) < Rank(L, f[a])
    BY <1>1, <1>4, RankGrows
  <2>5. ~(f[b] < f[a])
    BY <1>4, <2>2, <2>4
  <2> QED
    BY <2>1, <2>3, <2>5
<1>6. ASSUME NEW x \in L PROVE \E a \in 1 .. n : f[a] = x
  <2>1. Rank(L, x) \in Nat /\ Rank(L, x) < n
    BY <1>1, RankGrows DEF n
  <2>2. Rank(L, x) + 1 \in 1 .. n /\ (Rank(L, x) + 1) - 1 = Rank(L, x)
    BY <1>1, <2>1
  <2>3. Rank(L, f[Rank(L, x) + 1]) = Rank(L, x) /\ f[Rank(L, x) + 1] \in L
    BY <1>4, <2>2
  <2> QED
    BY <1>1, <2>2, <2>3, RankGrows
<1> QED
  BY <1>4, <1>5, <1>6 DEF Lists, f, n, L

(* and whatever else lists them is the same list.                          *)
LEMMA OneList ==
  ASSUME NEW dk, GoodTable(dk), NEW n \in Nat, NEW f, Lists(f, n, LivePositions(dk))
  PROVE  n = Cardinality(LivePositions(dk)) /\ f = InOrder(dk)
<1> DEFINE L == LivePositions(dk)
           g == InOrder(dk)
<1>1. L \in SUBSET Nat /\ IsFiniteSet(L) /\ Cardinality(L) \in Nat
  BY GoodTypes, LiveFinite
<1>2. Lists(g, Cardinality(L), L)
  BY NthLiveLists
<1> HIDE DEF g
<1>3. n = Cardinality(L) /\ \A a \in 1 .. n : f[a] \in L /\ Rank(L, f[a]) = a - 1
  <2> HIDE DEF L
  <2> QED
    BY <1>1, ListRanks DEF L
<1>4. \A a \in 1 .. n : g[a] \in L /\ Rank(L, g[a]) = a - 1
  <2> HIDE DEF L
  <2> QED
    BY <1>1, <1>2, <1>3, ListRanks
<1>5. \A a \in 1 .. n : f[a] = g[a]
  <2> HIDE DEF L
  <2> QED
    BY <1>1, <1>3, <1>4, RankGrows
<1>6. f \in [1 .. n -> L] /\ g \in [1 .. n -> L]
  BY <1>2, <1>3 DEF Lists
<1> QED
  BY <1>3, <1>5, <1>6 DEF g

-----------------------------------------------------------------------------
(* What the operations do to the sequence of the entries that hold items.  *)

Written(dk) == [a \in 1 .. Cardinality(LivePositions(dk)) |-> dk.entries[InOrder(dk)[a]]]

(* Any list of the live positions gives that sequence.                     *)
LEMMA WrittenBy ==
  ASSUME NEW dk, GoodTable(dk), NEW n \in Nat, NEW f, Lists(f, n, LivePositions(dk))
  PROVE  /\ n = Cardinality(LivePositions(dk))
         /\ Written(dk) = [a \in 1 .. n |-> dk.entries[f[a]]]
BY OneList DEF Written

(* The list of a good table and the sequence, unfolded.                    *)
LEMMA WrittenIs ==
  ASSUME NEW dk, GoodTable(dk), NEW n, n = Cardinality(LivePositions(dk)),
         NEW f, f = InOrder(dk)
  PROVE  /\ n \in Nat /\ LivePositions(dk) \subseteq Nat
         /\ f \in [1 .. n -> LivePositions(dk)]
         /\ \A a, b \in 1 .. n : a < b => f[a] < f[b]
         /\ \A x \in LivePositions(dk) : \E a \in 1 .. n : f[a] = x
         /\ Written(dk) = [a \in 1 .. n |-> dk.entries[f[a]]]
         /\ Lists(f, n, LivePositions(dk))
<1>1. Lists(f, n, LivePositions(dk))
  BY NthLiveLists
<1>2. n \in Nat /\ LivePositions(dk) \subseteq Nat
  BY LiveFinite, GoodTypes
<1> QED
  BY <1>1, <1>2 DEF Lists, Written

(* Removing an entry closes the gap and moves nothing else.                *)
LEMMA RemovedFrom ==
  ASSUME NEW dk, GoodTable(dk), NEW new, GoodTable(new),
         NEW n, n = Cardinality(LivePositions(dk)),
         NEW a \in 1 .. n, NEW i, InOrder(dk)[a] = i,
         Keeps(dk, new, LivePositions(dk) \ {i})
  PROVE  /\ n - 1 = Cardinality(LivePositions(new))
         /\ Written(new) = [b \in 1 .. n - 1 |-> Written(dk)[IF b < a THEN b ELSE b + 1]]
<1> DEFINE f == InOrder(dk)
           L == LivePositions(dk)
           g == [b \in 1 .. n - 1 |-> f[IF b < a THEN b ELSE b + 1]]
<1>1. /\ n \in Nat /\ L \subseteq Nat
      /\ f \in [1 .. n -> L]
      /\ \A x, y \in 1 .. n : x < y => f[x] < f[y]
      /\ \A x \in L : \E y \in 1 .. n : f[y] = x
      /\ Written(dk) = [b \in 1 .. n |-> dk.entries[f[b]]]
  BY WrittenIs
<1>2. LivePositions(new) = L \ {i} /\ \A x \in L \ {i} : new.entries[x] = dk.entries[x]
  BY DEF Keeps
<1>3. f[a] = i
  OBVIOUS
<1> HIDE DEF f, L
<1>4. \A b \in 1 .. n - 1 : (IF b < a THEN b ELSE b + 1) \in 1 .. n
  BY <1>1
<1>5. \A b \in 1 .. n : b # a => f[b] # i
  <2> SUFFICES ASSUME NEW b \in 1 .. n, b # a PROVE f[b] # i
    OBVIOUS
  <2>1. f[a] < f[b] \/ f[b] < f[a]
    BY <1>1
  <2>2. f[a] \in Nat /\ f[b] \in Nat
    BY <1>1
  <2> QED
    BY <1>3, <2>1, <2>2
<1>6. g \in [1 .. n - 1 -> L \ {i}]
  <2>1. \A b \in 1 .. n - 1 : (IF b < a THEN b ELSE b + 1) # a
    OBVIOUS
  <2>2. \A b \in 1 .. n - 1 : f[IF b < a THEN b ELSE b + 1] \in L \ {i}
    BY <1>1, <1>4, <1>5, <2>1
  <2> QED
    BY <2>2
<1>7. ASSUME NEW x \in 1 .. n - 1, NEW y \in 1 .. n - 1, x < y PROVE g[x] < g[y]
  <2>1. (IF x < a THEN x ELSE x + 1) < (IF y < a THEN y ELSE y + 1)
    BY <1>7
  <2> QED
    BY <1>1, <1>4, <2>1
<1>8. ASSUME NEW x \in L \ {i} PROVE \E b \in 1 .. n - 1 : g[b] = x
  <2>1. PICK y \in 1 .. n : f[y] = x
    BY <1>1
  <2>2. y # a
    BY <1>3, <2>1
  <2>3. CASE y < a
    <3>1. y \in 1 .. n - 1 /\ g[y] = x
      BY <1>1, <2>1, <2>3
    <3> QED
      BY <3>1
  <2>4. CASE y > a
    <3>1. y - 1 \in 1 .. n - 1 /\ ~(y - 1 < a) /\ (y - 1) + 1 = y
      BY <1>1, <2>4
    <3>2. g[y - 1] = x
      BY <2>1, <3>1
    <3> QED
      BY <3>1, <3>2
  <2> QED
    BY <2>2, <2>3, <2>4
<1>9. n - 1 \in Nat
  BY <1>1
<1>10. Lists(g, n - 1, LivePositions(new))
  <2> HIDE DEF g
  <2> QED
    BY <1>2, <1>6, <1>7, <1>8 DEF Lists
<1>11. /\ n - 1 = Cardinality(LivePositions(new))
       /\ Written(new) = [b \in 1 .. n - 1 |-> new.entries[g[b]]]
  <2> HIDE DEF g
  <2> QED
    BY <1>9, <1>10, WrittenBy
<1>12. \A b \in 1 .. n - 1 :
         new.entries[g[b]] = Written(dk)[IF b < a THEN b ELSE b + 1]
  <2> SUFFICES ASSUME NEW b \in 1 .. n - 1
               PROVE  new.entries[g[b]] = Written(dk)[IF b < a THEN b ELSE b + 1]
    OBVIOUS
  <2>1. new.entries[g[b]] = dk.entries[g[b]]
    BY <1>2, <1>6
  <2>2. g[b] = f[IF b < a THEN b ELSE b + 1]
    OBVIOUS
  <2> HIDE DEF g
  <2> QED
    BY <1>1, <1>4, <2>1, <2>2
<1> QED
  BY <1>11, <1>12

(* A new entry comes last.                                                 *)
LEMMA AddedTo ==
  ASSUME NEW dk, GoodTable(dk), NEW new, GoodTable(new), NEW k, NEW v,
         Adds(dk, new, k, v), NEW n, n = Cardinality(LivePositions(dk))
  PROVE  /\ n + 1 = Cardinality(LivePositions(new))
         /\ Written(new) = [b \in 1 .. n + 1 |->
              IF b = n + 1 THEN [hash |-> Hash[k], key |-> k, val |-> v]
              ELSE Written(dk)[b]]
<1> DEFINE f == InOrder(dk)
           L == LivePositions(dk)
           N == dk.nentries
           e == [hash |-> Hash[k], key |-> k, val |-> v]
           g == [b \in 1 .. n + 1 |-> IF b = n + 1 THEN N ELSE f[b]]
<1>1. /\ n \in Nat /\ L \subseteq Nat
      /\ f \in [1 .. n -> L]
      /\ \A x, y \in 1 .. n : x < y => f[x] < f[y]
      /\ \A x \in L : \E y \in 1 .. n : f[y] = x
      /\ Written(dk) = [b \in 1 .. n |-> dk.entries[f[b]]]
  BY WrittenIs
<1>2. N \in Nat /\ \A x \in L : x < N
  BY GoodTypes
<1>3. /\ LivePositions(new) = L \cup {N} /\ new.entries[N] = e
      /\ \A x \in L : new.entries[x] = dk.entries[x]
  BY DEF Adds
<1> HIDE DEF f, L, N, e
<1>4. \A b \in 1 .. n + 1 : b # n + 1 => b \in 1 .. n
  BY <1>1
<1>5. g \in [1 .. n + 1 -> L \cup {N}]
  BY <1>1, <1>4
<1>6. ASSUME NEW x \in 1 .. n + 1, NEW y \in 1 .. n + 1, x < y PROVE g[x] < g[y]
  <2>1. x # n + 1 /\ x \in 1 .. n
    BY <1>1, <1>6
  <2>2. CASE y = n + 1
    BY <1>1, <1>2, <2>1, <2>2
  <2>3. CASE y # n + 1
    BY <1>1, <1>4, <1>6, <2>1, <2>3
  <2> QED
    BY <2>2, <2>3
<1>7. ASSUME NEW x \in L \cup {N} PROVE \E b \in 1 .. n + 1 : g[b] = x
  <2>1. CASE x = N
    <3>1. n + 1 \in 1 .. n + 1 /\ g[n + 1] = N
      BY <1>1
    <3> QED
      BY <2>1, <3>1
  <2>2. CASE x \in L
    <3>1. PICK y \in 1 .. n : f[y] = x
      BY <1>1, <2>2
    <3>2. y \in 1 .. n + 1 /\ y # n + 1
      BY <1>1
    <3> QED
      BY <3>1, <3>2
  <2> QED
    BY <2>1, <2>2
<1>8. n + 1 \in Nat
  BY <1>1
<1>9. Lists(g, n + 1, LivePositions(new))
  <2> HIDE DEF g
  <2> QED
    BY <1>3, <1>5, <1>6, <1>7 DEF Lists
<1>10. /\ n + 1 = Cardinality(LivePositions(new))
       /\ Written(new) = [b \in 1 .. n + 1 |-> new.entries[g[b]]]
  <2> HIDE DEF g
  <2> QED
    BY <1>8, <1>9, WrittenBy
<1>11. \A b \in 1 .. n + 1 :
         new.entries[g[b]] = IF b = n + 1 THEN e ELSE Written(dk)[b]
  BY <1>1, <1>3, <1>4
<1> QED
  BY <1>10, <1>11 DEF e

(* A rebuild keeps the order.                                              *)
LEMMA CompactedFrom ==
  ASSUME NEW dk, GoodTable(dk), NEW n, n = Cardinality(LivePositions(dk)),
         NEW new, GoodTable(new), Compacts(dk, new, n)
  PROVE  Written(new) = Written(dk) /\ Cardinality(LivePositions(new)) = n
<1> DEFINE src(i) == IF dk.nentries = n THEN i ELSE NthLive(dk, i)
           L == LivePositions(dk)
           f == InOrder(dk)
           g == [b \in 1 .. n |-> b - 1]
<1>1. /\ n \in Nat /\ L \subseteq Nat
      /\ f \in [1 .. n -> L]
      /\ Written(dk) = [b \in 1 .. n |-> dk.entries[f[b]]]
  BY WrittenIs
<1>2. LivePositions(new) = 0 .. n - 1 /\ \A x \in 0 .. n - 1 : new.entries[x] = dk.entries[src(x)]
  BY DEF Compacts
<1>3. Lists(g, n, 0 .. n - 1)
  <2>1. g \in [1 .. n -> 0 .. n - 1]
    BY <1>1
  <2>2. \A x \in 0 .. n - 1 : x + 1 \in 1 .. n /\ g[x + 1] = x
    BY <1>1
  <2>3. \A x \in 0 .. n - 1 : \E b \in 1 .. n : g[b] = x
    BY <2>2, Zenon
  <2>4. \A b, c \in 1 .. n : b < c => g[b] < g[c]
    OBVIOUS
  <2> HIDE DEF g
  <2> QED
    BY <2>1, <2>3, <2>4 DEF Lists
<1>4. /\ n = Cardinality(LivePositions(new))
      /\ Written(new) = [b \in 1 .. n |-> new.entries[g[b]]]
  <2> HIDE DEF g
  <2> QED
    BY <1>1, <1>2, <1>3, WrittenBy
<1>5. ASSUME NEW b \in 1 .. n PROVE src(b - 1) = f[b]
  <2>1. CASE dk.nentries = n
    <3>1. L = 0 .. n - 1
      <4>1. L \subseteq 0 .. n - 1
        BY <2>1, GoodTypes
      <4>2. 0 \in Int /\ n - 1 \in Int
        BY <1>1
      <4>3. IsFiniteSet(0 .. n - 1)
            /\ Cardinality(0 .. n - 1) = IF 0 > n - 1 THEN 0 ELSE n - 1 - 0 + 1
        BY <4>2, FS_Interval, Zenon
      <4>4. Cardinality(0 .. n - 1) = n
        BY <1>1, <4>3
      <4> QED
        BY <4>1, <4>3, <4>4, FS_Subset
    <3>2. g = f
      <4> HIDE DEF g, f
      <4> QED
        BY <1>1, <1>3, <3>1, OneList DEF f
    <3> QED
      BY <2>1, <3>2
  <2>2. CASE dk.nentries # n
    BY <2>2 DEF InOrder
  <2> QED
    BY <2>1, <2>2
<1>6. \A b \in 1 .. n : new.entries[g[b]] = dk.entries[f[b]]
  <2> SUFFICES ASSUME NEW b \in 1 .. n PROVE new.entries[g[b]] = dk.entries[f[b]]
    OBVIOUS
  <2>1. g[b] = b - 1 /\ b - 1 \in 0 .. n - 1
    BY <1>1
  <2> HIDE DEF g, f, src
  <2> QED
    BY <1>2, <1>5, <2>1
<1> HIDE DEF g, f
<1> QED
  BY <1>1, <1>4, <1>6

(* A new value for a key changes that value only.                          *)
LEMMA RevaluedIn ==
  ASSUME NEW dk, GoodTable(dk), NEW new, GoodTable(new),
         LivePositions(new) = LivePositions(dk),
         NEW i \in LivePositions(dk), NEW v, Revalues(dk, new, i, v),
         NEW n, n = Cardinality(LivePositions(dk)),
         NEW a \in 1 .. n, InOrder(dk)[a] = i
  PROVE  Written(new) = [b \in 1 .. n |->
           IF b = a THEN [Written(dk)[a] EXCEPT !.val = v] ELSE Written(dk)[b]]
<1> DEFINE f == InOrder(dk)
           L == LivePositions(dk)
           e == [dk.entries[i] EXCEPT !.val = v]
<1>1. /\ n \in Nat /\ L \subseteq Nat
      /\ f \in [1 .. n -> L]
      /\ \A x, y \in 1 .. n : x < y => f[x] < f[y]
      /\ Written(dk) = [b \in 1 .. n |-> dk.entries[f[b]]]
      /\ Lists(f, n, L)
  BY WrittenIs
<1>2. \A x \in L : new.entries[x] = IF x = i THEN e ELSE dk.entries[x]
  BY DEF Revalues
<1>3. f[a] = i
  OBVIOUS
<1>4. e = [Written(dk)[a] EXCEPT !.val = v]
  BY <1>1, <1>3
<1> HIDE DEF f, e
<1>5. Written(new) = [b \in 1 .. n |-> new.entries[f[b]]]
  BY <1>1, WrittenBy
<1>6. \A b \in 1 .. n : b # a => f[b] # i
  <2> SUFFICES ASSUME NEW b \in 1 .. n, b # a PROVE f[b] # i
    OBVIOUS
  <2>1. f[a] < f[b] \/ f[b] < f[a]
    BY <1>1
  <2>2. f[a] \in Nat /\ f[b] \in Nat
    BY <1>1
  <2> QED
    BY <1>3, <2>1, <2>2
<1>7. \A b \in 1 .. n : new.entries[f[b]] = IF b = a THEN e ELSE Written(dk)[b]
  BY <1>1, <1>2, <1>3, <1>6
<1> QED
  BY <1>4, <1>5, <1>7

-----------------------------------------------------------------------------
(* Sequences written as functions.                                         *)

LEMMA AppendIs ==
  ASSUME NEW S, NEW s \in Seq(S), NEW e \in S, NEW n, n = Len(s)
  PROVE  [b \in 1 .. n + 1 |-> IF b = n + 1 THEN e ELSE s[b]] = Append(s, e)
<1> DEFINE t == [b \in 1 .. n + 1 |-> IF b = n + 1 THEN e ELSE s[b]]
           u == Append(s, e)
<1>1. n \in Nat /\ \A b \in 1 .. n : s[b] \in S
  OBVIOUS
<1>2. u \in Seq(S) /\ Len(u) = n + 1 /\ u[n + 1] = e /\ \A b \in 1 .. n : u[b] = s[b]
  OBVIOUS
<1>3. \A b \in 1 .. n + 1 : b = n + 1 \/ b \in 1 .. n
  BY <1>1
<1> HIDE DEF u
<1>4. \A b \in 1 .. n + 1 : u[b] = t[b]
  BY <1>2, <1>3
<1>5. DOMAIN u = 1 .. n + 1 /\ u = [b \in 1 .. n + 1 |-> u[b]]
  BY <1>2
<1> QED
  BY <1>4, <1>5 DEF u

LEMMA GapIs ==
  ASSUME NEW S, NEW s \in Seq(S), NEW n, n = Len(s), NEW a \in 1 .. n
  PROVE  LET t == [b \in 1 .. n - 1 |-> s[IF b < a THEN b ELSE b + 1]]
         IN  /\ t = SubSeq(s, 1, a - 1) \o SubSeq(s, a + 1, n)
             /\ a = n => t = SubSeq(s, 1, n - 1)
<1> DEFINE t == [b \in 1 .. n - 1 |-> s[IF b < a THEN b ELSE b + 1]]
           p == SubSeq(s, 1, a - 1)
           q == SubSeq(s, a + 1, n)
<1>1. n \in Nat /\ a \in Nat /\ 1 <= a /\ a <= n
  OBVIOUS
<1>2. p \in Seq(S) /\ Len(p) = a - 1 /\ \A b \in 1 .. a - 1 : p[b] = s[b]
  BY <1>1
<1>3. q \in Seq(S) /\ Len(q) = n - a /\ \A b \in 1 .. n - a : q[b] = s[a + b]
  BY <1>1
<1> DEFINE r == p \o q
<1> HIDE DEF p, q
<1>4. r \in Seq(S) /\ Len(r) = n - 1
  BY <1>1, <1>2, <1>3
<1>5. \A b \in 1 .. n - 1 : r[b] = IF b < a THEN p[b] ELSE q[b - (a - 1)]
  BY <1>1, <1>2, <1>3
<1>6. ASSUME NEW b \in 1 .. n - 1 PROVE r[b] = t[b]
  <2>1. CASE b < a
    <3>1. b \in 1 .. a - 1
      BY <1>1, <2>1
    <3> HIDE DEF r
    <3> QED
      BY <1>2, <1>5, <2>1, <3>1
  <2>2. CASE ~(b < a)
    <3>1. b - (a - 1) \in 1 .. n - a /\ a + (b - (a - 1)) = b + 1
      BY <1>1, <2>2
    <3>2. q[b - (a - 1)] = s[b + 1]
      BY <1>3, <3>1
    <3>3. r[b] = q[b - (a - 1)]
      BY <1>5, <2>2
    <3>4. t[b] = s[b + 1]
      BY <2>2
    <3> HIDE DEF r, t
    <3> QED
      BY <3>2, <3>3, <3>4
  <2> QED
    BY <2>1, <2>2
<1>7. r = t
  <2>1. DOMAIN r = 1 .. n - 1 /\ r = [b \in 1 .. n - 1 |-> r[b]]
    <3> HIDE DEF r
    <3> QED
      BY <1>1, <1>4
  <2> HIDE DEF r
  <2> QED
    BY <1>6, <2>1
<1>8. ASSUME a = n PROVE t = p
  <2>1. \A b \in 1 .. n - 1 : t[b] = p[b]
    BY <1>2, <1>8
  <2>2. p = [b \in 1 .. n - 1 |-> p[b]]
    BY <1>2, <1>8
  <2> QED
    BY <2>1, <2>2
<1>9. a = n => p = SubSeq(s, 1, n - 1)
  BY DEF p
<1> QED
  BY <1>7, <1>8, <1>9 DEF p, q

-----------------------------------------------------------------------------
(* The items and the keys of a table, as sequences.                        *)

Item(e) == [key |-> e.key, val |-> e.val]
AnyItem == [key : Keys \cup {NoKey}, val : Vals \cup {Zero, Fill}]

ItemsOf(dk) == [a \in 1 .. Cardinality(LivePositions(dk)) |-> Item(Written(dk)[a])]

LEMMA ItemsShape ==
  ASSUME NEW dk, GoodTable(dk), NEW n, n = Cardinality(LivePositions(dk))
  PROVE  /\ n \in Nat
         /\ Written(dk) \in [1 .. n -> Entry]
         /\ ItemsOf(dk) \in Seq(AnyItem) /\ Len(ItemsOf(dk)) = n
         /\ \A a \in 1 .. n :
              /\ ItemsOf(dk)[a] = Item(Written(dk)[a])
              /\ Written(dk)[a] = dk.entries[InOrder(dk)[a]]
              /\ InOrder(dk)[a] \in LivePositions(dk)
<1>1. /\ n \in Nat
      /\ InOrder(dk) \in [1 .. n -> LivePositions(dk)]
      /\ Written(dk) = [a \in 1 .. n |-> dk.entries[InOrder(dk)[a]]]
  BY WrittenIs
<1>2. \A x \in LivePositions(dk) : dk.entries[x] \in Entry
  <2> DEFINE J == 0 .. USABLE_FRACTION(dk.size) - 1
  <2>1. dk.entries \in [J -> Entry] /\ LivePositions(dk) \subseteq J
    BY GoodTypes
  <2> HIDE DEF J
  <2> QED
    BY <2>1
<1>3. Written(dk) \in [1 .. n -> Entry]
  BY <1>1, <1>2
<1>4. \A e \in Entry : Item(e) \in AnyItem
  BY DEF Entry, Item, AnyItem
<1>5. ItemsOf(dk) = [a \in 1 .. n |-> Item(Written(dk)[a])]
  BY DEF ItemsOf
<1>6. ItemsOf(dk) \in [1 .. n -> AnyItem]
  BY <1>3, <1>4, <1>5
<1>7. ItemsOf(dk) \in Seq(AnyItem) /\ Len(ItemsOf(dk)) = n
  BY <1>1, <1>6
<1> QED
  BY <1>1, <1>3, <1>5, <1>7

LEMMA ItemsAre == items = ItemsOf(keys) /\ items' = ItemsOf(keys')
<1>1. ASSUME NEW dk
      PROVE  [n \in 1 .. Cardinality(LivePositions(dk)) |->
                LET e == dk.entries[NthLive(dk, n - 1)] IN [key |-> e.key, val |-> e.val]]
             = ItemsOf(dk)
  <2>1. \A n \in 1 .. Cardinality(LivePositions(dk)) :
          dk.entries[NthLive(dk, n - 1)] = Written(dk)[n]
    BY DEF Written, InOrder
  <2> QED
    BY <2>1 DEF ItemsOf, Item
<1> QED
  BY <1>1 DEF items

LEMMA KeysAre ==
  ASSUME NEW dk, GoodTable(dk), NEW n, n = Cardinality(LivePositions(dk))
  PROVE  /\ KeyOrder(dk) = [a \in 1 .. n |-> Written(dk)[a].key]
         /\ KeyOrder(dk) \in Seq(Keys) /\ Len(KeyOrder(dk)) = n /\ n \in Nat
<1>1. /\ n \in Nat
      /\ \A a \in 1 .. n : /\ Written(dk)[a] = dk.entries[InOrder(dk)[a]]
                           /\ InOrder(dk)[a] \in LivePositions(dk)
  BY ItemsShape
<1>2. \A a \in 1 .. n : InOrder(dk)[a] = NthLive(dk, a - 1)
  BY DEF InOrder
<1>3. KeyOrder(dk) = [a \in 1 .. n |-> dk.entries[NthLive(dk, a - 1)].key]
  BY DEF KeyOrder
<1>4. \A a \in 1 .. n : dk.entries[NthLive(dk, a - 1)].key = Written(dk)[a].key
  BY <1>1, <1>2
<1>5. \A x \in LivePositions(dk) : dk.entries[x].key \in Keys
  BY DEF GoodTable, Distinct
<1>6. \A a \in 1 .. n : Written(dk)[a].key \in Keys
  BY <1>1, <1>5
<1>7. KeyOrder(dk) = [a \in 1 .. n |-> Written(dk)[a].key]
  BY <1>3, <1>4
<1>8. KeyOrder(dk) \in [1 .. n -> Keys]
  BY <1>6, <1>7
<1> QED
  BY <1>1, <1>7, <1>8

-----------------------------------------------------------------------------
(* What the operations do to the items.                                    *)

(* lookup finds the place of a key among the items, if it has one.         *)
LEMMA LookupPlaces ==
  ASSUME NEW dk, GoodTable(dk), NEW k \in Keys, NEW n, n = Cardinality(LivePositions(dk))
  PROVE  /\ lookup(dk, k) = DKIX_EMPTY => \A a \in 1 .. n : ItemsOf(dk)[a].key # k
         /\ lookup(dk, k) >= 0 =>
              \E a \in 1 .. n : InOrder(dk)[a] = lookup(dk, k) /\ ItemsOf(dk)[a].key = k
<1>1. \A a \in 1 .. n : /\ InOrder(dk)[a] \in LivePositions(dk)
                        /\ ItemsOf(dk)[a].key = dk.entries[InOrder(dk)[a]].key
  <2>1. \A a \in 1 .. n : /\ ItemsOf(dk)[a] = Item(Written(dk)[a])
                          /\ Written(dk)[a] = dk.entries[InOrder(dk)[a]]
                          /\ InOrder(dk)[a] \in LivePositions(dk)
    BY ItemsShape
  <2>2. \A e : Item(e).key = e.key
    BY DEF Item
  <2> QED
    BY <2>1, <2>2
<1>2. ASSUME lookup(dk, k) = DKIX_EMPTY PROVE \A a \in 1 .. n : ItemsOf(dk)[a].key # k
  BY <1>1, <1>2, LookupLive
<1>3. ASSUME lookup(dk, k) >= 0
      PROVE  \E a \in 1 .. n : InOrder(dk)[a] = lookup(dk, k) /\ ItemsOf(dk)[a].key = k
  <2>1. lookup(dk, k) \in LivePositions(dk) /\ dk.entries[lookup(dk, k)].key = k
    BY <1>3, LookupLive
  <2>2. \A x \in LivePositions(dk) : \E a \in 1 .. n : InOrder(dk)[a] = x
    BY WrittenIs
  <2>3. PICK a \in 1 .. n : InOrder(dk)[a] = lookup(dk, k)
    BY <2>1, <2>2
  <2> QED
    BY <1>1, <2>1, <2>3
<1> QED
  BY <1>2, <1>3

LEMMA ReplaceItems ==
  ASSUME NEW dk, GoodTable(dk), NEW new, GoodTable(new),
         LivePositions(new) = LivePositions(dk),
         NEW i \in LivePositions(dk), NEW v, Revalues(dk, new, i, v),
         NEW n, n = Cardinality(LivePositions(dk)), NEW a \in 1 .. n, InOrder(dk)[a] = i
  PROVE  /\ ItemsOf(new) = [ItemsOf(dk) EXCEPT ![a].val = v]
         /\ KeyOrder(new) = KeyOrder(dk)
<1> DEFINE W == Written(dk)
           V == Written(new)
<1>2. V = [b \in 1 .. n |-> IF b = a THEN [W[a] EXCEPT !.val = v] ELSE W[b]]
  BY RevaluedIn
<1>3. W \in [1 .. n -> Entry]
  BY ItemsShape
<1>4. /\ ItemsOf(dk) = [b \in 1 .. n |-> Item(W[b])]
      /\ ItemsOf(new) = [b \in 1 .. n |-> Item(V[b])]
  BY DEF ItemsOf
<1>5. /\ KeyOrder(dk) = [b \in 1 .. n |-> W[b].key]
      /\ KeyOrder(new) = [b \in 1 .. n |-> V[b].key]
  BY KeysAre
<1> HIDE DEF W, V
<1>6. a \in 1 .. n
  OBVIOUS
<1>7. /\ [W[a] EXCEPT !.val = v].key = W[a].key
      /\ [W[a] EXCEPT !.val = v].val = v
  BY <1>3, <1>6 DEF Entry
<1>8. \A b \in 1 .. n :
        /\ V[b].key = W[b].key
        /\ V[b].val = IF b = a THEN v ELSE W[b].val
  BY <1>2, <1>7
<1>9. ItemsOf(new) = [ItemsOf(dk) EXCEPT ![a].val = v]
  <2>1. \A b \in 1 .. n : Item(V[b]) = IF b = a THEN [Item(W[a]) EXCEPT !.val = v] ELSE Item(W[b])
    BY <1>8 DEF Item
  <2>2. [ItemsOf(dk) EXCEPT ![a].val = v]
          = [b \in 1 .. n |-> IF b = a THEN [Item(W[a]) EXCEPT !.val = v] ELSE Item(W[b])]
    BY <1>4, <1>6
  <2>3. ItemsOf(new) = [b \in 1 .. n |-> IF b = a THEN [Item(W[a]) EXCEPT !.val = v] ELSE Item(W[b])]
    BY <1>4, <2>1
  <2> QED
    BY <2>2, <2>3
<1>10. KeyOrder(new) = KeyOrder(dk)
  BY <1>5, <1>8
<1> QED
  BY <1>9, <1>10

LEMMA AddItems ==
  ASSUME NEW dk, GoodTable(dk), NEW k \in Keys, NEW v \in Vals,
         Hash[k] # NoHash, dk.usable > 0,
         \A x \in LivePositions(dk) : dk.entries[x].key # k,
         NEW new, new = new_entry(dk, k, v)
  PROVE  /\ GoodTable(new)
         /\ ItemsOf(new) = Append(ItemsOf(dk), [key |-> k, val |-> v])
         /\ Len(KeyOrder(new)) = Len(KeyOrder(dk)) + 1
<1> DEFINE n == Cardinality(LivePositions(dk))
           W == Written(dk)
           V == Written(new)
           e == [hash |-> Hash[k], key |-> k, val |-> v]
           c == [key |-> k, val |-> v]
<1>1. GoodTable(new) /\ Adds(dk, new, k, v)
  BY NewEntry
<1>2. /\ n + 1 = Cardinality(LivePositions(new))
      /\ V = [b \in 1 .. n + 1 |-> IF b = n + 1 THEN e ELSE W[b]]
  BY <1>1, AddedTo
<1>3. ItemsOf(dk) \in Seq(AnyItem) /\ Len(ItemsOf(dk)) = n /\ n \in Nat
  BY ItemsShape
<1>4. /\ ItemsOf(dk) = [b \in 1 .. n |-> Item(W[b])]
      /\ ItemsOf(new) = [b \in 1 .. n + 1 |-> Item(V[b])]
  BY <1>2 DEF ItemsOf
<1>5. Item(e) = c /\ c \in AnyItem
  BY DEF Item, AnyItem
<1>6. Len(KeyOrder(new)) = n + 1 /\ Len(KeyOrder(dk)) = n
  BY <1>1, <1>2, KeysAre
<1> HIDE DEF n, W, V, e, c
<1>7. \A b \in 1 .. n + 1 : Item(V[b]) = IF b = n + 1 THEN c ELSE ItemsOf(dk)[b]
  <2> SUFFICES ASSUME NEW b \in 1 .. n + 1
               PROVE  Item(V[b]) = IF b = n + 1 THEN c ELSE ItemsOf(dk)[b]
    OBVIOUS
  <2>1. b = n + 1 \/ b \in 1 .. n
    BY <1>3
  <2> QED
    BY <1>2, <1>4, <1>5, <2>1
<1>8. ItemsOf(new) = [b \in 1 .. n + 1 |-> IF b = n + 1 THEN c ELSE ItemsOf(dk)[b]]
  BY <1>4, <1>7
<1>9. ItemsOf(new) = Append(ItemsOf(dk), c)
  BY <1>3, <1>5, <1>8, AppendIs
<1> QED
  BY <1>1, <1>6, <1>9 DEF c

LEMMA ResizeItems ==
  ASSUME NEW dk, GoodTable(dk), NEW n, n = Cardinality(LivePositions(dk)),
         NEW newsize \in Sizes, newsize >= 3 * n, NEW new, new = resized(dk, n, newsize)
  PROVE  /\ GoodTable(new) /\ Cardinality(LivePositions(new)) = n /\ new.usable > 0
         /\ ItemsOf(new) = ItemsOf(dk) /\ KeyOrder(new) = KeyOrder(dk)
         /\ \A x \in LivePositions(new) :
              \E y \in LivePositions(dk) : new.entries[x] = dk.entries[y]
<1>1. /\ GoodTable(new) /\ new.usable > 0 /\ Compacts(dk, new, n)
      /\ \A x \in LivePositions(new) :
           \E y \in LivePositions(dk) : new.entries[x] = dk.entries[y]
  BY Resized
<1>2. Written(new) = Written(dk) /\ Cardinality(LivePositions(new)) = n
  BY <1>1, CompactedFrom
<1>3. ItemsOf(new) = ItemsOf(dk)
  BY <1>2 DEF ItemsOf
<1>4. KeyOrder(new) = KeyOrder(dk)
  BY <1>1, <1>2, KeysAre
<1> QED
  BY <1>1, <1>2, <1>3, <1>4

(* s without the item at a.                                                *)
Gap(s, a) == SubSeq(s, 1, a - 1) \o SubSeq(s, a + 1, Len(s))

(* Deletion and popitem both keep everything but one entry.                *)
LEMMA RemoveItems ==
  ASSUME NEW dk, GoodTable(dk), NEW n, n = Cardinality(LivePositions(dk)),
         NEW a \in 1 .. n, NEW i, InOrder(dk)[a] = i,
         NEW new, GoodTable(new), Keeps(dk, new, LivePositions(dk) \ {i})
  PROVE  /\ ItemsOf(new) = Gap(ItemsOf(dk), a)
         /\ Len(ItemsOf(dk)) = n /\ ItemsOf(dk) \in Seq(AnyItem)
         /\ Len(KeyOrder(new)) = Len(KeyOrder(dk)) - 1
<1> DEFINE W == Written(dk)
           V == Written(new)
           s == ItemsOf(dk)
<1>1. /\ n - 1 = Cardinality(LivePositions(new))
      /\ V = [b \in 1 .. n - 1 |-> W[IF b < a THEN b ELSE b + 1]]
  BY RemovedFrom
<1>2. s \in Seq(AnyItem) /\ Len(s) = n /\ n \in Nat
  BY ItemsShape
<1>3. s = [b \in 1 .. n |-> Item(W[b])]
  BY DEF ItemsOf
<1>4. ItemsOf(new) = [b \in 1 .. n - 1 |-> Item(V[b])]
  BY <1>1 DEF ItemsOf
<1>5. Len(KeyOrder(new)) = n - 1 /\ Len(KeyOrder(dk)) = n
  BY <1>1, KeysAre
<1> HIDE DEF W, V, s
<1>6. \A b \in 1 .. n - 1 : Item(V[b]) = s[IF b < a THEN b ELSE b + 1]
  <2> SUFFICES ASSUME NEW b \in 1 .. n - 1 PROVE Item(V[b]) = s[IF b < a THEN b ELSE b + 1]
    OBVIOUS
  <2>1. (IF b < a THEN b ELSE b + 1) \in 1 .. n
    BY <1>2
  <2> QED
    BY <1>1, <1>3, <2>1
<1>7. ItemsOf(new) = [b \in 1 .. n - 1 |-> s[IF b < a THEN b ELSE b + 1]]
  BY <1>4, <1>6
<1>8. ItemsOf(new) = Gap(s, a)
  <2>1. [b \in 1 .. n - 1 |-> s[IF b < a THEN b ELSE b + 1]]
          = SubSeq(s, 1, a - 1) \o SubSeq(s, a + 1, n)
    BY <1>2, GapIs
  <2> QED
    BY <1>2, <1>7, <2>1 DEF Gap
<1> QED
  BY <1>2, <1>5, <1>8 DEF s

LEMMA GapAtEnd ==
  ASSUME NEW s \in Seq(AnyItem), NEW n, n = Len(s), n # 0
  PROVE  Gap(s, n) = SubSeq(s, 1, n - 1)
<1>1. n \in 1 .. n
  OBVIOUS
<1> QED
  BY <1>1, GapIs DEF Gap

(* numba_dict_popitem takes the last item.                                 *)
LEMMA LastIsLast ==
  ASSUME NEW dk, GoodTable(dk), NEW n, n = Cardinality(LivePositions(dk)),
         NEW i \in LivePositions(dk), LastLive(dk, i)
  PROVE  n \in 1 .. n /\ InOrder(dk)[n] = i
<1> DEFINE f == InOrder(dk)
<1>1. /\ n \in Nat /\ LivePositions(dk) \subseteq Nat
      /\ f \in [1 .. n -> LivePositions(dk)]
      /\ \A a, b \in 1 .. n : a < b => f[a] < f[b]
      /\ \A x \in LivePositions(dk) : \E a \in 1 .. n : f[a] = x
  BY WrittenIs
<1> HIDE DEF f
<1>2. PICK a \in 1 .. n : f[a] = i
  BY <1>1
<1>3. n \in 1 .. n /\ f[n] \in LivePositions(dk)
  BY <1>1
<1>4. f[n] <= i
  BY <1>3 DEF LastLive
<1>5. a = n
  <2>1. f[a] \in Nat /\ f[n] \in Nat
    BY <1>1, <1>3
  <2>2. a < n => f[a] < f[n]
    BY <1>1, <1>3
  <2> QED
    BY <1>1, <1>2, <1>4, <2>1, <2>2
<1> QED
  BY <1>2, <1>3, <1>5 DEF f

(* A table without items.                                                  *)
LEMMA NoItems ==
  ASSUME NEW dk, GoodTable(dk), Cardinality(LivePositions(dk)) = 0
  PROVE  ItemsOf(dk) = <<>> /\ KeyOrder(dk) = <<>>
<1>1. ItemsOf(dk) \in Seq(AnyItem) /\ Len(ItemsOf(dk)) = 0
  BY ItemsShape
<1>2. KeyOrder(dk) \in Seq(Keys) /\ Len(KeyOrder(dk)) = 0
  BY KeysAre
<1> QED
  BY <1>1, <1>2

-----------------------------------------------------------------------------
(* Every operation of the dict is an operation of the map.                 *)

LEMMA InsertMaps ==
  ASSUME Inductive, NEW k \in Keys, NEW v \in Vals, Hash[k] # NoHash, Insert(k, v)
  PROVE  Map!Put(k, v) \/ Map!PutNoMemory(k)
<1> DEFINE n == Cardinality(LivePositions(keys))
<1>0. GoodTable(keys) /\ used = n
  BY InductiveGood
<1>1. items = ItemsOf(keys) /\ items' = ItemsOf(keys')
  BY ItemsAre
<1>2. Len(ItemsOf(keys)) = n /\ n \in Nat
  BY <1>0, ItemsShape
<1>3. ASSUME lookup(keys, k) = DKIX_EMPTY PROVE Map!PositionsOf(k) = {}
  BY <1>0, <1>1, <1>2, <1>3, LookupPlaces DEF Map!PositionsOf
<1>4. ASSUME lookup(keys, k) = DKIX_EMPTY
      PROVE  \A x \in LivePositions(keys) : keys.entries[x].key # k
  BY <1>0, <1>4, LookupLive
<1>5. CASE InsertReplace(k, v)
  <2> DEFINE ix == lookup(keys, k)
  <2>1. ix >= 0 /\ keys' = [keys EXCEPT !.entries[ix].val = v]
        /\ status' = "OK_REPLACED" /\ used' = used
    BY <1>5 DEF InsertReplace
  <2>2. ix \in LivePositions(keys)
    BY <1>0, <2>1, LookupLive
  <2>3. PICK a \in 1 .. n : InOrder(keys)[a] = ix /\ ItemsOf(keys)[a].key = k
    BY <1>0, <2>1, LookupPlaces
  <2> HIDE DEF ix
  <2>4. GoodTable(keys') /\ LivePositions(keys') = LivePositions(keys)
        /\ Revalues(keys, keys', ix, v)
    BY <1>0, <2>1, <2>2, ReplaceKeepsGood
  <2>5. ItemsOf(keys') = [ItemsOf(keys) EXCEPT ![a].val = v]
    BY <1>0, <2>2, <2>3, <2>4, ReplaceItems
  <2>6. a \in Map!PositionsOf(k)
    BY <1>1, <1>2, <2>3 DEF Map!PositionsOf
  <2>7. items' = [items EXCEPT ![a].val = v]
    BY <1>1, <2>5
  <2> QED
    BY <2>1, <2>6, <2>7 DEF Map!Put
<1>6. CASE InsertNew(k, v)
  <2>1. /\ lookup(keys, k) = DKIX_EMPTY /\ keys.usable > 0
        /\ keys' = new_entry(keys, k, v) /\ status' = "OK"
    BY <1>6 DEF InsertNew, AddItem
  <2>2. ItemsOf(keys') = Append(ItemsOf(keys), [key |-> k, val |-> v])
    BY <1>0, <1>4, <2>1, AddItems
  <2> QED
    BY <1>1, <1>3, <2>1, <2>2 DEF Map!Put
<1>7. CASE InsertResize(k, v)
  <2>1. PICK newsize \in Sizes :
          /\ NewSize(newsize, D_GROWTH_RATE(used))
          /\ AddItem(resized(keys, used, newsize), k, v)
    BY <1>7 DEF InsertResize
  <2>2. lookup(keys, k) = DKIX_EMPTY
    BY <1>7 DEF InsertResize
  <2>3. newsize >= 3 * used
    BY <2>1 DEF NewSize, D_GROWTH_RATE
  <2>4. PICK mid : mid = resized(keys, used, newsize)
    OBVIOUS
  <2>5. /\ GoodTable(mid) /\ mid.usable > 0 /\ ItemsOf(mid) = ItemsOf(keys)
        /\ \A x \in LivePositions(mid) :
             \E y \in LivePositions(keys) : mid.entries[x] = keys.entries[y]
    BY <1>0, <2>3, <2>4, ResizeItems
  <2>6. keys' = new_entry(mid, k, v) /\ status' = "OK"
    BY <2>1, <2>4 DEF AddItem
  <2>7. \A x \in LivePositions(mid) : mid.entries[x].key # k
    BY <1>4, <2>2, <2>5
  <2>8. ItemsOf(keys') = Append(ItemsOf(mid), [key |-> k, val |-> v])
    BY <2>5, <2>6, <2>7, AddItems
  <2> QED
    BY <1>1, <1>3, <2>2, <2>5, <2>6, <2>8 DEF Map!Put
<1>8. CASE InsertNoMemory(k)
  BY <1>1, <1>3, <1>8 DEF InsertNoMemory, Map!PutNoMemory
<1> QED
  BY <1>5, <1>6, <1>7, <1>8 DEF Insert

LEMMA DelItemMaps ==
  ASSUME Inductive, NEW k \in Keys, DelItem(k)
  PROVE  Map!Remove(k)
<1> DEFINE i == lookup(keys, k)
           j == lookdict_index(keys, Hash[k], i)
           n == Cardinality(LivePositions(keys))
<1>0. GoodTable(keys) /\ items = ItemsOf(keys) /\ items' = ItemsOf(keys')
  BY InductiveGood, ItemsAre
<1>1. i >= 0
  BY DEF DelItem
<1>2. i \in LivePositions(keys) /\ keys.entries[i].hash = Hash[k]
  BY <1>0, <1>1, LookupLive
<1>3. j \in Slots(keys.size) /\ keys.indices[j] = i
  <2> HIDE DEF i
  <2> QED
    BY <1>0, <1>2, LookdictFinds
<1>4. j >= 0 /\ ~(j < 0)
  BY <1>0, <1>3, GoodTypes, UsableFraction DEF Slots
<1>5. keys' = delitem(keys, j, i) /\ used' = used - 1 /\ status' = "OK"
  BY <1>4 DEF DelItem
<1>6. PICK a \in 1 .. n : InOrder(keys)[a] = i /\ ItemsOf(keys)[a].key = k
  BY <1>0, <1>1, LookupPlaces
<1> HIDE DEF i, j
<1>7. GoodTable(keys') /\ Keeps(keys, keys', LivePositions(keys) \ {i})
  BY <1>0, <1>2, <1>3, <1>5, DelItemKeepsGood
<1>8. ItemsOf(keys') = Gap(ItemsOf(keys), a) /\ Len(ItemsOf(keys)) = n
  BY <1>0, <1>6, <1>7, RemoveItems
<1>9. a \in Map!PositionsOf(k)
  BY <1>0, <1>6, <1>8 DEF Map!PositionsOf
<1> QED
  BY <1>0, <1>5, <1>8, <1>9 DEF Map!Remove, Gap

LEMMA PopItemMaps ==
  ASSUME Inductive, PopItem
  PROVE  Map!PopLast
<1> DEFINE i == last_live(keys)
           j == lookdict_index(keys, keys.entries[i].hash, i)
           n == Cardinality(LivePositions(keys))
<1>0. GoodTable(keys) /\ used = n /\ items = ItemsOf(keys) /\ items' = ItemsOf(keys')
  BY InductiveGood, ItemsAre
<1>1. LivePositions(keys) # {} /\ n # 0
  BY <1>0, FS_EmptySet DEF PopItem
<1>2. i \in LivePositions(keys) /\ LastLive(keys, i)
  BY <1>0, <1>1, LastLiveExists DEF last_live
<1>3. j \in Slots(keys.size) /\ keys.indices[j] = i
  <2> HIDE DEF i
  <2> QED
    BY <1>0, <1>2, LookdictFinds
<1>4. ~(j < 0)
  BY <1>0, <1>3, GoodTypes, UsableFraction DEF Slots
<1>5. keys' = popitem(keys, j, i) /\ status' = "OK"
  BY <1>1, <1>4 DEF PopItem
<1> HIDE DEF i, j
<1>6. GoodTable(keys') /\ Keeps(keys, keys', LivePositions(keys) \ {i})
  BY <1>0, <1>2, <1>3, <1>5, PopItemKeepsGood
<1>7. n \in 1 .. n /\ InOrder(keys)[n] = i
  BY <1>0, <1>2, LastIsLast
<1>8. /\ ItemsOf(keys') = SubSeq(ItemsOf(keys), 1, n - 1)
      /\ Len(ItemsOf(keys)) = n
  <2>1. /\ ItemsOf(keys') = Gap(ItemsOf(keys), n)
        /\ Len(ItemsOf(keys)) = n /\ ItemsOf(keys) \in Seq(AnyItem)
    BY <1>0, <1>6, <1>7, RemoveItems
  <2> HIDE DEF n
  <2> QED
    BY <1>1, <2>1, GapAtEnd
<1>9. items # <<>>
  BY <1>0, <1>1, <1>8
<1> QED
  BY <1>0, <1>5, <1>8, <1>9 DEF Map!PopLast

LEMMA ClearMaps ==
  ASSUME Inductive, Clear
  PROVE  Map!Empty
<1>0. GoodTable(keys) /\ used = Cardinality(LivePositions(keys)) /\ items' = ItemsOf(keys')
  BY InductiveGood, ItemsAre
<1>1. keys' = cleared(keys, Cardinality(LivePositions(keys))) /\ status' = "OK"
  BY <1>0 DEF Clear
<1>2. GoodTable(keys') /\ Cardinality(LivePositions(keys')) = 0
  BY <1>0, <1>1, ClearedKeepsGood
<1> QED
  BY <1>0, <1>1, <1>2, NoItems DEF Map!Empty

(* No key hashes to the mark of an empty entry: numba_dict_insert asserts  *)
(* it (dictobject.c:657).                                                  *)
NoKeyIsNoHash == \A k \in Keys : Hash[k] # NoHash

LEMMA NextMaps ==
  ASSUME NoKeyIsNoHash, Inductive, Next
  PROVE  Map!MapNext
<1>1. ASSUME NEW k \in Keys, NEW v \in Vals, Insert(k, v) PROVE Map!MapNext
  BY <1>1, InsertMaps DEF NoKeyIsNoHash, Map!MapNext
<1>2. ASSUME NEW k \in Keys, DelItem(k) PROVE Map!MapNext
  BY <1>2, DelItemMaps DEF Map!MapNext
<1>3. CASE PopItem
  BY <1>3, PopItemMaps DEF Map!MapNext
<1>4. CASE PopItemEmpty
  <2>1. GoodTable(keys) /\ used = Cardinality(LivePositions(keys))
    BY InductiveGood
  <2>2. items = <<>> /\ items' = items /\ status' = "ERR_DICT_EMPTY"
    BY <1>4, <2>1, ItemsAre, NoItems DEF PopItemEmpty
  <2> QED
    BY <2>2 DEF Map!MapNext, Map!PopNothing
<1>5. CASE Clear
  BY <1>5, ClearMaps DEF Map!MapNext
<1> QED
  BY <1>1, <1>2, <1>3, <1>4, <1>5 DEF Next

(* The dictionary of the C runtime is an insertion-ordered map: through    *)
(* dummies, rebuilds, stale entries and failed rebuilds, each of its calls *)
(* is one of the map's.  It needs what the code asserts of hashes.         *)
THEOREM DictIsOrderedMap ==
  ASSUME NoKeyIsNoHash
  PROVE  Spec => ImplementsOrderedMap
<1>1. Init => Map!MapInit
  <2> SUFFICES ASSUME Init PROVE Map!MapInit
    OBVIOUS
  <2>1. Inductive /\ status = "OK" /\ used = 0
    BY InitInductive DEF Init
  <2>2. GoodTable(keys) /\ Cardinality(LivePositions(keys)) = 0
    BY <2>1, InductiveGood
  <2> QED
    BY <2>1, <2>2, ItemsAre, NoItems DEF Map!MapInit
<1>2. Inductive /\ [Next]_vars => [Map!MapNext]_(Map!mapVars)
  <2>1. ASSUME Inductive, Next PROVE Map!MapNext
    BY <2>1, NextMaps
  <2>2. ASSUME UNCHANGED vars PROVE UNCHANGED Map!mapVars
    BY <2>2 DEF vars, Map!mapVars, items
  <2> QED
    BY <2>1, <2>2
<1> QED
  BY <1>1, <1>2, TableInvariant, PTL DEF Spec, ImplementsOrderedMap, Map!MapSpec

-----------------------------------------------------------------------------
(* Compiled code: the invariant.                                           *)

(* The table is good whatever compiled code does, and only a loop can      *)
(* leave status "undefined".                                               *)
StandaloneTypes ==
  /\ status \in Statuses \cup {"undefined"}
  /\ GoodTable(keys) /\ used = Cardinality(LivePositions(keys)) /\ used \in Nat
  /\ block \in Blocks /\ mutated \in BOOLEAN
  /\ it \in [parent_keys : Blocks \cup {"none"}, size : Nat, pos : Nat]
  /\ left \in Nat /\ seen \in Seq(Keys)

(* As long as a body keeps the keys, what the loop was given is the start  *)
(* of the keys, and what its range has left is the rest;                   *)
Progress ==
  Looping /\ ~mutated =>
    /\ Len(seen) <= used /\ left = used - Len(seen)
    /\ seen = SubSeq(KeyOrder(keys), 1, Len(seen))

(* the iterator passes its own test, and stands behind the entry it gave   *)
(* last.                                                                   *)
Cursor ==
  Looping /\ ~mutated /\ Running =>
    /\ it.size = used /\ it.parent_keys = block
    /\ it.pos = IF seen = <<>> THEN 0 ELSE InOrder(keys)[Len(seen)] + 1

StandaloneInv == StandaloneTypes /\ Progress /\ Cursor /\ UndefinedOnlyAfterMutation

LEMMA InductiveNext ==
  Inductive' => /\ GoodTable(keys') /\ used' = Cardinality(LivePositions(keys'))
                /\ used' \in Nat /\ status' \in Statuses
BY DEF Inductive, TypeOK, CountersAgree, IndexMatchesEntries, EntriesReachable, GoodTable

LEMMA StandaloneInductive ==
  ASSUME StandaloneInv, status # "undefined"
  PROVE  Inductive
BY InductiveGood DEF StandaloneInv, StandaloneTypes

(* A call that leaves the loop alone keeps the invariant, if it changes    *)
(* the keys (and Note says so) or neither their places nor the block.      *)
LEMMA BodyStep ==
  ASSUME StandaloneInv, Running, Inductive', UNCHANGED loopVars, Note, block' \in Blocks,
         \/ KeyOrder(keys') # KeyOrder(keys)
         \/ /\ used' = used
            /\ \/ status' = "abort"
               \/ block' = block /\ (used = 0 \/ InOrder(keys') = InOrder(keys))
  PROVE  StandaloneInv'
<1>1. /\ GoodTable(keys') /\ used' = Cardinality(LivePositions(keys'))
      /\ used' \in Nat /\ status' \in Statuses
  BY InductiveNext
<1>2. it' = it /\ left' = left /\ seen' = seen /\ (Looping' <=> Looping)
  BY DEF loopVars, Looping
<1>3. mutated' = (Looping /\ (mutated \/ KeyOrder(keys') # KeyOrder(keys)))
  BY DEF Note
<1>4. StandaloneTypes'
  BY <1>1, <1>2, <1>3 DEF StandaloneInv, StandaloneTypes
<1>5. ASSUME Looping', ~mutated'
      PROVE  /\ Looping /\ ~mutated /\ KeyOrder(keys') = KeyOrder(keys) /\ used' = used
             /\ \/ status' = "abort"
                \/ block' = block /\ (used = 0 \/ InOrder(keys') = InOrder(keys))
  BY <1>2, <1>3, <1>5
<1>6. Progress'
  BY <1>2, <1>5 DEF StandaloneInv, Progress
<1>7. Cursor'
  <2> SUFFICES ASSUME Looping', ~mutated', Running' PROVE Cursor'
    BY DEF Cursor
  <2>1. Looping /\ ~mutated /\ used' = used /\ block' = block
        /\ (used = 0 \/ InOrder(keys') = InOrder(keys))
    BY <1>5 DEF Running
  <2>2. /\ it.size = used /\ it.parent_keys = block
        /\ it.pos = IF seen = <<>> THEN 0 ELSE InOrder(keys)[Len(seen)] + 1
    BY <2>1 DEF StandaloneInv, Cursor
  <2>3. used = 0 => seen = <<>>
    <3>1. Len(seen) <= used /\ seen \in Seq(Keys)
      BY <2>1 DEF StandaloneInv, Progress, StandaloneTypes
    <3> QED
      BY <3>1
  <2> QED
    BY <1>2, <2>1, <2>2, <2>3 DEF Cursor
<1>8. UndefinedOnlyAfterMutation'
  BY <1>1 DEF UndefinedOnlyAfterMutation, Statuses
<1> QED
  BY <1>4, <1>6, <1>7, <1>8 DEF StandaloneInv

(* d[key] = value: a replaced value and a failed insert leave the keys     *)
(* where they are, every other outcome adds a key.                         *)
LEMMA SetItemStep ==
  ASSUME StandaloneInv, status \notin {"abort", "undefined"},
         NEW k \in Keys, NEW v \in Vals, SetItem(k, v)
  PROVE  StandaloneInv'
<1>0. Inductive /\ GoodTable(keys) /\ used = Cardinality(LivePositions(keys)) /\ used \in Nat
  BY StandaloneInductive DEF StandaloneInv, StandaloneTypes
<1>1. Running /\ Note /\ UNCHANGED loopVars /\ block \in Blocks
  BY DEF SetItem, Running, StandaloneInv, StandaloneTypes
<1>2. Insert(k, v) /\ block' \in Blocks
  BY <1>1 DEF SetItem, Insert
<1>3. Inductive'
  BY <1>0, <1>2, InsertStep DEF StepOK
<1>4. ASSUME lookup(keys, k) = DKIX_EMPTY
      PROVE  \A x \in LivePositions(keys) : keys.entries[x].key # k
  BY <1>0, <1>4, LookupLive
<1>5. \A dk : GoodTable(dk) => Len(KeyOrder(dk)) \in Nat
  BY KeysAre
<1>6. CASE InsertReplace(k, v) /\ UNCHANGED block
  <2> DEFINE ix == lookup(keys, k)
             n == Cardinality(LivePositions(keys))
  <2>1. ix >= 0 /\ keys' = [keys EXCEPT !.entries[ix].val = v] /\ used' = used
    BY <1>6 DEF InsertReplace
  <2>2. ix \in LivePositions(keys)
    BY <1>0, <2>1, LookupLive
  <2>3. PICK a \in 1 .. n : InOrder(keys)[a] = ix /\ ItemsOf(keys)[a].key = k
    BY <1>0, <2>1, LookupPlaces
  <2> HIDE DEF ix
  <2>4. GoodTable(keys') /\ LivePositions(keys') = LivePositions(keys)
        /\ Revalues(keys, keys', ix, v)
    BY <1>0, <2>1, <2>2, ReplaceKeepsGood
  <2>5. InOrder(keys') = InOrder(keys)
    BY <2>4 DEF InOrder, NthLive
  <2> QED
    BY <1>1, <1>2, <1>3, <1>6, <2>1, <2>5, BodyStep
<1>7. CASE UNCHANGED <<used, keys>> /\ (status' = "abort" \/ UNCHANGED block)
  BY <1>1, <1>2, <1>3, <1>7, BodyStep
<1>8. CASE InsertNew(k, v) /\ Hash[k] # NoHash
  <2>1. /\ lookup(keys, k) = DKIX_EMPTY /\ keys.usable > 0
        /\ keys' = new_entry(keys, k, v)
    BY <1>8 DEF InsertNew, AddItem
  <2>2. Len(KeyOrder(keys')) = Len(KeyOrder(keys)) + 1
    BY <1>0, <1>4, <1>8, <2>1, AddItems
  <2>3. KeyOrder(keys') # KeyOrder(keys)
    BY <1>0, <1>5, <2>2
  <2> QED
    BY <1>1, <1>2, <1>3, <2>3, BodyStep
<1>9. CASE InsertResize(k, v) /\ Hash[k] # NoHash
  <2>1. PICK newsize \in Sizes :
          /\ NewSize(newsize, D_GROWTH_RATE(used))
          /\ AddItem(resized(keys, used, newsize), k, v)
    BY <1>9 DEF InsertResize
  <2>2. lookup(keys, k) = DKIX_EMPTY
    BY <1>9 DEF InsertResize
  <2>3. newsize >= 3 * used
    BY <2>1 DEF NewSize, D_GROWTH_RATE
  <2>4. PICK mid : mid = resized(keys, used, newsize)
    OBVIOUS
  <2>5. /\ GoodTable(mid) /\ mid.usable > 0 /\ KeyOrder(mid) = KeyOrder(keys)
        /\ \A x \in LivePositions(mid) :
             \E y \in LivePositions(keys) : mid.entries[x] = keys.entries[y]
    BY <1>0, <2>3, <2>4, ResizeItems
  <2>6. keys' = new_entry(mid, k, v)
    BY <1>9, <2>1, <2>4 DEF AddItem
  <2>7. \A x \in LivePositions(mid) : mid.entries[x].key # k
    BY <1>4, <2>2, <2>5
  <2>8. Len(KeyOrder(keys')) = Len(KeyOrder(mid)) + 1
    BY <1>9, <2>5, <2>6, <2>7, AddItems
  <2>9. KeyOrder(keys') # KeyOrder(keys)
    BY <1>0, <1>5, <2>5, <2>8
  <2> QED
    BY <1>1, <1>2, <1>3, <2>9, BodyStep
<1>10. ASSUME Hash[k] = NoHash, InsertNew(k, v) \/ InsertResize(k, v)
       PROVE  UNCHANGED <<used, keys>> /\ status' = "abort"
  BY <1>10 DEF InsertNew, InsertResize, AddItem, Abort
<1>11. InsertNoMemory(k) => UNCHANGED <<used, keys>>
  BY DEF InsertNoMemory
<1> QED
  BY <1>6, <1>7, <1>8, <1>9, <1>10, <1>11 DEF SetItem

(* d.pop(key) shortens the sequence of the keys.                           *)
LEMMA PopPresentStep ==
  ASSUME StandaloneInv, status \notin {"abort", "undefined"}, NEW k \in Keys, PopPresent(k)
  PROVE  StandaloneInv'
<1> DEFINE i == lookup(keys, k)
           j == lookdict_index(keys, Hash[k], i)
           n == Cardinality(LivePositions(keys))
<1>0. Inductive /\ GoodTable(keys) /\ used = Cardinality(LivePositions(keys)) /\ used \in Nat
  BY StandaloneInductive DEF StandaloneInv, StandaloneTypes
<1>1. Running /\ Note /\ UNCHANGED loopVars /\ block' \in Blocks /\ DelItem(k)
  BY DEF PopPresent, Running, StandaloneInv, StandaloneTypes
<1>2. Inductive'
  BY <1>0, <1>1, DelItemStep DEF StepOK
<1>3. i >= 0
  BY <1>1 DEF DelItem
<1>4. i \in LivePositions(keys) /\ keys.entries[i].hash = Hash[k]
  BY <1>0, <1>3, LookupLive
<1>5. j \in Slots(keys.size) /\ keys.indices[j] = i
  <2> HIDE DEF i
  <2> QED
    BY <1>0, <1>4, LookdictFinds
<1>6. j >= 0 /\ ~(j < 0)
  BY <1>0, <1>5, GoodTypes, UsableFraction DEF Slots
<1>7. keys' = delitem(keys, j, i)
  BY <1>1, <1>6 DEF DelItem
<1>8. PICK a \in 1 .. n : InOrder(keys)[a] = i
  BY <1>0, <1>3, LookupPlaces
<1> HIDE DEF i, j
<1>9. GoodTable(keys') /\ Keeps(keys, keys', LivePositions(keys) \ {i})
  BY <1>0, <1>4, <1>5, <1>7, DelItemKeepsGood
<1>10. Len(KeyOrder(keys')) = Len(KeyOrder(keys)) - 1
  BY <1>0, <1>8, <1>9, RemoveItems
<1>11. Len(KeyOrder(keys)) \in Nat
  BY <1>0, KeysAre
<1>12. KeyOrder(keys') # KeyOrder(keys)
  BY <1>10, <1>11
<1> QED
  BY <1>1, <1>2, <1>12, BodyStep

(* d.clear() leaves no key, and changes the keys unless there were none.   *)
LEMMA ClearAllStep ==
  ASSUME StandaloneInv, status \notin {"abort", "undefined"}, ClearAll
  PROVE  StandaloneInv'
<1>0. Inductive /\ GoodTable(keys) /\ used = Cardinality(LivePositions(keys)) /\ used \in Nat
  BY StandaloneInductive DEF StandaloneInv, StandaloneTypes
<1>1. /\ Running /\ Note /\ UNCHANGED loopVars /\ block' = block /\ block \in Blocks
      /\ Clear /\ used' = 0
  BY DEF ClearAll, Clear, Running, StandaloneInv, StandaloneTypes
<1>2. Inductive'
  BY <1>0, <1>1, ClearStep DEF StepOK
<1>3. KeyOrder(keys') = <<>>
  BY <1>1, <1>2, InductiveNext, NoItems
<1>4. Len(KeyOrder(keys)) = used
  BY <1>0, KeysAre
<1>5. CASE used = 0
  BY <1>1, <1>2, <1>5, BodyStep
<1>6. CASE used # 0
  <2>1. KeyOrder(keys') # KeyOrder(keys)
    BY <1>3, <1>4, <1>6
  <2> QED
    BY <1>1, <1>2, <2>1, BodyStep
<1> QED
  BY <1>5, <1>6

(* While the keys stay, the iterator stops at the next one in order.       *)
LEMMA NextIsNext ==
  ASSUME NEW dk, GoodTable(dk), NEW n, n = Cardinality(LivePositions(dk)),
         NEW f, f = InOrder(dk), NEW m \in Nat, m < n,
         NEW pos, pos = IF m = 0 THEN 0 ELSE f[m] + 1
  PROVE  /\ m + 1 \in 1 .. n /\ f[m + 1] \in LivePositions(dk)
         /\ f[m + 1] >= pos
         /\ \A x \in LivePositions(dk) : x >= pos => f[m + 1] <= x
<1>1. /\ n \in Nat /\ LivePositions(dk) \subseteq Nat
      /\ f \in [1 .. n -> LivePositions(dk)]
      /\ \A a, b \in 1 .. n : a < b => f[a] < f[b]
      /\ \A x \in LivePositions(dk) : \E a \in 1 .. n : f[a] = x
  BY WrittenIs
<1>2. m + 1 \in 1 .. n /\ f[m + 1] \in LivePositions(dk) /\ f[m + 1] \in Nat
  BY <1>1
<1>3. f[m + 1] >= pos
  <2>1. CASE m = 0
    BY <1>2, <2>1
  <2>2. CASE m # 0
    <3>1. m \in 1 .. n /\ m < m + 1 /\ f[m] \in Nat
      BY <1>1, <2>2
    <3>2. f[m] < f[m + 1]
      BY <1>1, <1>2, <3>1
    <3> QED
      BY <1>2, <2>2, <3>1, <3>2
  <2> QED
    BY <2>1, <2>2
<1>4. ASSUME NEW x \in LivePositions(dk), x >= pos PROVE f[m + 1] <= x
  <2>1. PICK a \in 1 .. n : f[a] = x
    BY <1>1
  <2>2. m < a
    <3>1. CASE m = 0
      BY <3>1
    <3>2. CASE m # 0
      <4>1. m \in 1 .. n /\ f[m] \in Nat /\ f[a] \in Nat
        BY <1>1, <3>2
      <4>2. f[m] < f[a]
        BY <1>4, <2>1, <3>2, <4>1
      <4>3. a < m => f[a] < f[m]
        BY <1>1, <4>1
      <4> QED
        BY <4>1, <4>2, <4>3
    <3> QED
      BY <3>1, <3>2
  <2>3. a = m + 1 \/ m + 1 < a
    BY <2>2
  <2>4. m + 1 < a => f[m + 1] < f[a]
    BY <1>1, <1>2
  <2> QED
    BY <1>1, <1>2, <2>1, <2>3, <2>4
<1> QED
  BY <1>2, <1>3, <1>4

LEMMA LoopNextStep ==
  ASSUME StandaloneInv, status \notin {"abort", "undefined"}, LoopNext
  PROVE  StandaloneInv'
<1> DEFINE n == Cardinality(LivePositions(keys))
           f == InOrder(keys)
           m == Len(seen)
<1>0. /\ GoodTable(keys) /\ used = n /\ n \in Nat /\ Running
      /\ StandaloneTypes /\ Progress /\ Cursor
  BY DEF StandaloneInv, StandaloneTypes, Running
<1>1. /\ Looping /\ left > 0 /\ left' = left - 1
      /\ UNCHANGED <<used, keys, block, mutated>>
  BY DEF LoopNext
<1>2. seen \in Seq(Keys) /\ m \in Nat /\ left \in Nat
      /\ it \in [parent_keys : Blocks \cup {"none"}, size : Nat, pos : Nat]
  BY <1>0 DEF StandaloneTypes
<1>3. ASSUME ~mutated
      PROVE  /\ m < n /\ left = n - m /\ seen = SubSeq(KeyOrder(keys), 1, m)
             /\ it.size = used /\ it.parent_keys = block
             /\ it.pos = IF m = 0 THEN 0 ELSE f[m] + 1
  <2>1. m <= n /\ left = n - m /\ seen = SubSeq(KeyOrder(keys), 1, m)
    BY <1>0, <1>1, <1>3 DEF Progress
  <2>2. m < n
    BY <1>0, <1>1, <1>2, <2>1
  <2>3. seen = <<>> <=> m = 0
    BY <1>2
  <2>4. /\ it.size = used /\ it.parent_keys = block
        /\ it.pos = IF seen = <<>> THEN 0 ELSE f[m] + 1
    BY <1>0, <1>1, <1>3 DEF Cursor
  <2> HIDE DEF m
  <2> QED
    BY <2>1, <2>2, <2>3, <2>4
<1>4. ASSUME ~mutated
      PROVE  /\ m + 1 \in 1 .. n
             /\ NextLive(it.pos) = {f[m + 1]}
  <2>1. /\ m + 1 \in 1 .. n /\ f[m + 1] \in LivePositions(keys)
        /\ f[m + 1] >= it.pos
        /\ \A x \in LivePositions(keys) : x >= it.pos => f[m + 1] <= x
    <3> HIDE DEF m, f, n
    <3> QED
      BY <1>0, <1>2, <1>3, <1>4, NextIsNext DEF f, n
  <2>2. LivePositions(keys) \subseteq Nat
    BY <1>0, GoodTypes
  <2> HIDE DEF m, f, n
  <2> QED
    BY <2>1, <2>2 DEF NextLive
<1>5. CASE it.parent_keys # block \/ it.size # used \/ NextLive(it.pos) = {}
  <2>1. status' = "undefined" /\ UNCHANGED <<it, seen>>
    BY <1>5 DEF LoopNext
  <2>2. mutated
    BY <1>3, <1>4, <1>5
  <2>3. StandaloneTypes'
    BY <1>0, <1>1, <1>2, <2>1 DEF StandaloneTypes
  <2> QED
    BY <1>1, <2>1, <2>2, <2>3 DEF StandaloneInv, Progress, Cursor, UndefinedOnlyAfterMutation
<1>6. CASE ~(it.parent_keys # block \/ it.size # used \/ NextLive(it.pos) = {})
  <2>1. PICK i \in NextLive(it.pos) :
          /\ it' = [it EXCEPT !.pos = i + 1]
          /\ seen' = Append(seen, keys.entries[i].key)
          /\ status' = status
    BY <1>6 DEF LoopNext, iter_next
  <2>2. i \in LivePositions(keys) /\ i \in Nat /\ keys.entries[i].key \in Keys
    <3>1. i \in LivePositions(keys)
      BY DEF NextLive
    <3> QED
      BY <1>0, <3>1, GoodTypes DEF GoodTable, Distinct
  <2>3. /\ it' \in [parent_keys : Blocks \cup {"none"}, size : Nat, pos : Nat]
        /\ it'.pos = i + 1 /\ it'.size = it.size /\ it'.parent_keys = it.parent_keys
    BY <1>2, <2>1, <2>2
  <2>4. seen' \in Seq(Keys) /\ Len(seen') = m + 1 /\ seen' # <<>>
    BY <1>2, <2>1, <2>2
  <2>5. StandaloneTypes'
    BY <1>0, <1>1, <1>2, <2>1, <2>3, <2>4 DEF StandaloneTypes
  <2>6. ASSUME ~mutated'
        PROVE  /\ Len(seen') <= used' /\ left' = used' - Len(seen')
               /\ seen' = SubSeq(KeyOrder(keys'), 1, Len(seen'))
               /\ it'.size = used' /\ it'.parent_keys = block'
               /\ it'.pos = IF seen' = <<>> THEN 0 ELSE InOrder(keys')[Len(seen')] + 1
    <3>1. ~mutated
      BY <1>1, <2>6
    <3>2. i = f[m + 1] /\ m + 1 \in 1 .. n
      BY <1>4, <2>1, <3>1
    <3>3. /\ left = n - m /\ seen = SubSeq(KeyOrder(keys), 1, m)
          /\ it.size = used /\ it.parent_keys = block
      BY <1>3, <3>1
    <3>4. SubSeq(KeyOrder(keys), 1, m + 1) = Append(seen, keys.entries[i].key)
      <4> DEFINE K == KeyOrder(keys)
      <4>1. K \in Seq(Keys) /\ Len(K) = n
        BY <1>0, KeysAre
      <4>2. K[m + 1] = keys.entries[i].key
        <5>1. K[m + 1] = Written(keys)[m + 1].key
          BY <1>0, <3>2, KeysAre
        <5>2. Written(keys)[m + 1] = keys.entries[f[m + 1]]
          BY <1>0, <3>2, ItemsShape
        <5> HIDE DEF K, f, m
        <5> QED
          BY <5>1, <5>2, <3>2
      <4> HIDE DEF K, n, f
      <4>3. SubSeq(K, 1, m + 1) = Append(SubSeq(K, 1, m), K[m + 1])
        <5>1. m \in Nat /\ m + 1 <= Len(K)
          BY <1>0, <1>2, <3>2, <4>1
        <5> HIDE DEF m
        <5> QED
          BY <4>1, <5>1
      <4> QED
        BY <3>3, <4>2, <4>3 DEF K
    <3>5. Len(seen') <= used' /\ left' = used' - Len(seen')
      <4> HIDE DEF m, n
      <4> QED
        BY <1>0, <1>1, <1>2, <2>4, <3>2, <3>3
    <3>6. seen' = SubSeq(KeyOrder(keys'), 1, Len(seen'))
      <4> HIDE DEF m
      <4> QED
        BY <1>1, <2>1, <2>4, <3>4
    <3>7. it'.pos = InOrder(keys')[Len(seen')] + 1
      <4> HIDE DEF m
      <4> QED
        BY <1>1, <2>3, <2>4, <3>2
    <3> QED
      BY <1>1, <2>3, <2>4, <3>3, <3>5, <3>6, <3>7
  <2>7. UndefinedOnlyAfterMutation'
    BY <2>1 DEF UndefinedOnlyAfterMutation
  <2>8. Progress' /\ Cursor'
    BY <2>6 DEF Progress, Cursor
  <2> QED
    BY <2>5, <2>7, <2>8 DEF StandaloneInv
<1> QED
  BY <1>5, <1>6

LEMMA LoopEdges ==
  ASSUME StandaloneInv, status \notin {"abort", "undefined"}, LoopBegin \/ LoopEnd
  PROVE  StandaloneInv'
<1>1. /\ GoodTable(keys) /\ used = Cardinality(LivePositions(keys)) /\ used \in Nat
      /\ StandaloneTypes
  BY DEF StandaloneInv, StandaloneTypes
<1>2. <<>> \in Seq(Keys) /\ Len(<<>>) = 0
  OBVIOUS
<1>3. CASE LoopBegin
  <2>1. /\ it' = [parent_keys |-> block, size |-> used, pos |-> 0]
        /\ left' = used /\ seen' = <<>> /\ mutated' = FALSE
        /\ UNCHANGED <<used, keys, status, block>>
    BY <1>3 DEF LoopBegin, numba_dict_iter
  <2>2. StandaloneTypes'
    BY <1>1, <1>2, <2>1 DEF StandaloneTypes
  <2>3. SubSeq(KeyOrder(keys), 1, 0) = <<>>
    BY <1>1, KeysAre
  <2>4. Progress' /\ Cursor'
    BY <1>1, <1>2, <2>1, <2>3 DEF Progress, Cursor
  <2>5. UndefinedOnlyAfterMutation'
    BY <2>1 DEF UndefinedOnlyAfterMutation
  <2> QED
    BY <2>2, <2>4, <2>5 DEF StandaloneInv
<1>4. CASE LoopEnd
  <2>1. /\ it' = NoIter /\ seen' = <<>> /\ mutated' = FALSE
        /\ UNCHANGED <<used, keys, status, block, left>>
    BY <1>4 DEF LoopEnd
  <2>2. StandaloneTypes'
    BY <1>1, <1>2, <2>1 DEF StandaloneTypes, NoIter
  <2>3. Progress' /\ Cursor' /\ UndefinedOnlyAfterMutation'
    BY <2>1 DEF Progress, Cursor, UndefinedOnlyAfterMutation, Looping
  <2> QED
    BY <2>2, <2>3 DEF StandaloneInv
<1> QED
  BY <1>3, <1>4

-----------------------------------------------------------------------------
(* The theorems about compiled code.                                       *)

(* In every program that pops only keys it has, whatever its loops do to   *)
(* the dict: the table stays good, and a loop whose body keeps the keys    *)
(* stays in step with them.                                                *)
THEOREM StandaloneInvariant == StandaloneSpec => []StandaloneInv
<1>1. StandaloneInit => StandaloneInv
  <2> SUFFICES ASSUME StandaloneInit PROVE StandaloneInv
    OBVIOUS
  <2>1. Inductive /\ status = "OK"
    BY InitInductive DEF StandaloneInit, Init
  <2>2. /\ GoodTable(keys) /\ used = Cardinality(LivePositions(keys)) /\ used \in Nat
        /\ block \in Blocks /\ it = NoIter /\ left = 0 /\ seen = <<>> /\ mutated = FALSE
    BY <2>1, InductiveGood DEF StandaloneInit
  <2>3. StandaloneTypes
    <3>1. it \in [parent_keys : Blocks \cup {"none"}, size : Nat, pos : Nat]
      BY <2>2 DEF NoIter
    <3>2. seen \in Seq(Keys) /\ left \in Nat /\ mutated \in BOOLEAN
      <4>1. <<>> \in Seq(Keys) /\ 0 \in Nat /\ FALSE \in BOOLEAN
        OBVIOUS
      <4>2. seen = <<>> /\ left = 0 /\ mutated = FALSE
        BY <2>2
      <4> QED
        BY <4>1, <4>2, Zenon
    <3>3. status \in Statuses \cup {"undefined"}
      BY <2>1 DEF Statuses
    <3> QED
      BY <2>2, <3>1, <3>2, <3>3 DEF StandaloneTypes
  <2> QED
    BY <2>1, <2>2, <2>3
    DEF StandaloneInv, Progress, Cursor, UndefinedOnlyAfterMutation, Looping
<1>2. StandaloneInv /\ [StandaloneNext]_allVars => StandaloneInv'
  <2>1. ASSUME StandaloneInv, StandaloneNext PROVE StandaloneInv'
    <3>1. status \notin {"abort", "undefined"}
      BY <2>1 DEF StandaloneNext
    <3>2. ASSUME NEW k \in Keys, NEW v \in Vals, SetItem(k, v) PROVE StandaloneInv'
      BY <2>1, <3>1, <3>2, SetItemStep
    <3>3. ASSUME NEW k \in Keys, PopPresent(k) PROVE StandaloneInv'
      BY <2>1, <3>1, <3>3, PopPresentStep
    <3>4. CASE ClearAll
      BY <2>1, <3>1, <3>4, ClearAllStep
    <3>5. CASE LoopNext
      BY <2>1, <3>1, <3>5, LoopNextStep
    <3>6. CASE LoopBegin \/ LoopEnd
      BY <2>1, <3>1, <3>6, LoopEdges
    <3> QED
      BY <2>1, <3>2, <3>3, <3>4, <3>5, <3>6 DEF StandaloneNext
  <2>2. ASSUME StandaloneInv, UNCHANGED allVars PROVE StandaloneInv'
    BY <2>2 DEF allVars, StandaloneInv, StandaloneTypes, Progress, Cursor,
                UndefinedOnlyAfterMutation, Looping, Running
  <2> QED
    BY <2>1, <2>2
<1> QED
  BY <1>1, <1>2, PTL DEF StandaloneSpec

(* `in`, [] and get of compiled code agree with the items of the dict.     *)
THEOREM ReadsAgree == StandaloneSpec => []AnswersMatch
<1>1. StandaloneInv => AnswersMatch
  <2> SUFFICES ASSUME StandaloneInv, NEW k \in Keys
               PROVE  LET at == {i \in LivePositions(keys) : keys.entries[i].key = k}
                      IN  /\ standalone_dict_contains(keys, k) <=> at # {}
                          /\ \A d \in Vals :
                               standalone_dict_get(keys, k, d) \in
                                 IF at = {} THEN {d} ELSE {keys.entries[i].val : i \in at}
                          /\ at = {} => standalone_dict_lookup(keys, k) = Zero
    BY DEF AnswersMatch
  <2> DEFINE at == {i \in LivePositions(keys) : keys.entries[i].key = k}
             ix == lookup(keys, k)
  <2>1. GoodTable(keys)
    BY DEF StandaloneInv, StandaloneTypes
  <2>2. CASE at = {}
    <3>1. ix = -1
      BY <2>1, <2>2, LookupFinds DEF DKIX_EMPTY
    <3>2. ~(ix >= 0)
      BY <3>1
    <3> HIDE DEF ix
    <3> QED
      BY <2>2, <3>2
      DEF standalone_dict_contains, standalone_dict_get, standalone_dict_lookup, found, ix
  <2>3. CASE at # {}
    <3>1. PICK i \in LivePositions(keys) : keys.entries[i].key = k
      BY <2>3
    <3>2. ix = i /\ i \in Nat
      BY <2>1, <3>1, LookupFinds, GoodTypes
    <3>3. ix >= 0 /\ ix \in at
      BY <3>1, <3>2
    <3> HIDE DEF ix
    <3> QED
      BY <2>3, <3>3
      DEF standalone_dict_contains, standalone_dict_get, standalone_dict_lookup, found, ix
  <2> QED
    BY <2>2, <2>3
<1> QED
  BY <1>1, StandaloneInvariant, PTL

(* A loop whose body keeps the keys is given each of them once, in order.  *)
THEOREM DictLoopsInOrder == StandaloneSpec => []LoopInOrder
<1>1. StandaloneInv => LoopInOrder
  BY DEF StandaloneInv, Progress, LoopInOrder
<1> QED
  BY <1>1, StandaloneInvariant, PTL

(* The range of a loop, fixed before the body runs, outruns the iterator   *)
(* only after the body changed the keys.                                   *)
THEOREM UndefinedIsEarned == StandaloneSpec => []UndefinedOnlyAfterMutation
<1>1. StandaloneInv => UndefinedOnlyAfterMutation
  BY DEF StandaloneInv
<1> QED
  BY <1>1, StandaloneInvariant, PTL

=============================================================================
