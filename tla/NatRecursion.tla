----------------------------- MODULE NatRecursion -----------------------------
(***************************************************************************)
(* Induction over the natural numbers stated with sets, and the existence  *)
(* of functions defined by primitive recursion.  The recursive functions   *)
(* of the models (probe sequences, index tables built entry by entry) are  *)
(* unfolded with these lemmas.                                             *)
(***************************************************************************)
EXTENDS Integers, WellFoundedInduction, FiniteSetTheorems, TLAPS

(* Less-than is well-founded on Nat, in the form WFMin wants.              *)
LEMMA NatLessWellFounded ==
  IsWellFoundedOn({ss \in Nat \X Nat : ss[1] < ss[2]}, Nat)
BY NatLessThanWellFounded, Zenon DEF OpToRel

(* A set of naturals that contains 0 and is closed under successor is Nat. *)
LEMMA NatSetInduction ==
  ASSUME NEW T \in SUBSET Nat, 0 \in T, \A n \in Nat : n \in T => n + 1 \in T
  PROVE  T = Nat
<1> DEFINE R == {ss \in Nat \X Nat : ss[1] < ss[2]}
           U == Nat \ T
<1> SUFFICES ASSUME U # {} PROVE FALSE
  OBVIOUS
<1>1. PICK x \in U : \A y \in U : ~(<<y, x>> \in R)
  <2> HIDE DEF R, U
  <2>1. U \subseteq Nat
    BY DEF U
  <2>2. IsWellFoundedOn(R, Nat)
    BY NatLessWellFounded DEF R
  <2> QED
    BY <2>1, <2>2, WFMin
<1>2. x # 0
  BY DEF U
<1>3. x - 1 \in Nat /\ x - 1 < x
  BY <1>2
<1>4. x - 1 \in T
  BY <1>1, <1>3
<1>5. (x - 1) + 1 \in T
  BY <1>4, <1>3
<1> QED
  BY <1>5

(* A non-empty set of naturals has a least element.                        *)
LEMMA NatLeast ==
  ASSUME NEW T \in SUBSET Nat, T # {}
  PROVE  \E x \in T : \A y \in T : x <= y
<1> DEFINE R == {ss \in Nat \X Nat : ss[1] < ss[2]}
<1>1. PICK x \in T : \A y \in T : ~(<<y, x>> \in R)
  <2> HIDE DEF R
  <2>1. IsWellFoundedOn(R, Nat)
    BY NatLessWellFounded DEF R
  <2> QED
    BY <2>1, WFMin
<1>2. ASSUME NEW y \in T PROVE x <= y
  <2>1. <<y, x>> \in Nat \X Nat /\ ~(y < x)
    BY <1>1
  <2> QED
    BY <2>1
<1> QED
  BY <1>2

(* g starts at x0, and g[n] is step[n] of the value before.                *)
Follows(g, x0, step) ==
  g[0] = x0 /\ \A n \in Nat : g[n + 1] = step[n + 1][g[n]]

(* A first value and a step define a function on Nat.                      *)
LEMMA PrimitiveRecursion ==
  ASSUME NEW S, NEW x0 \in S, NEW step \in [Nat -> [S -> S]]
  PROVE  \E g \in [Nat -> S] : Follows(g, x0, step)
<1> DEFINE Upto(n, f) ==
             /\ f \in [0 .. n -> S]
             /\ f[0] = x0
             /\ \A k \in 1 .. n : f[k] = step[k][f[k - 1]]
           T == {n \in Nat : \E f \in [0 .. n -> S] : Upto(n, f)}
<1>1. T = Nat
  <2>1. 0 \in T
    <3>1. Upto(0, [k \in 0 .. 0 |-> x0])
      OBVIOUS
    <3> QED
      BY <3>1
  <2>2. \A n \in Nat : n \in T => n + 1 \in T
    <3> SUFFICES ASSUME NEW n \in Nat, n \in T PROVE n + 1 \in T
      OBVIOUS
    <3>1. PICK f \in [0 .. n -> S] : Upto(n, f)
      OBVIOUS
    <3> DEFINE h == [k \in 0 .. n + 1 |->
                       IF k = n + 1 THEN step[n + 1][f[n]] ELSE f[k]]
    <3>2. Upto(n + 1, h)
      <4>1. f[n] \in S /\ step[n + 1][f[n]] \in S
        BY <3>1
      <4>2. h \in [0 .. n + 1 -> S]
        BY <3>1, <4>1
      <4>3. h[0] = x0
        BY <3>1
      <4>4. ASSUME NEW k \in 1 .. n + 1
            PROVE  h[k] = step[k][h[k - 1]]
        <5>1. CASE k = n + 1
          <6>1. k - 1 = n /\ n \in 0 .. n + 1 /\ n # n + 1
            BY <5>1
          <6>2. h[k - 1] = f[n]
            BY <6>1
          <6>3. h[k] = step[n + 1][f[n]]
            BY <5>1
          <6> QED
            BY <5>1, <6>2, <6>3
        <5>2. CASE k # n + 1
          <6>1. k \in 1 .. n /\ k - 1 \in 0 .. n
            BY <5>2
          <6>2. h[k] = f[k] /\ h[k - 1] = f[k - 1]
            BY <6>1
          <6> QED
            BY <6>1, <6>2, <3>1
        <5> QED
          BY <5>1, <5>2
      <4> QED
        BY <4>2, <4>3, <4>4
    <3>3. h \in [0 .. n + 1 -> S]
      BY <3>2
    <3> HIDE DEF h, Upto
    <3> QED
      BY <3>2, <3>3
  <2> HIDE DEF T
  <2> QED
    BY <2>1, <2>2, NatSetInduction, T \in SUBSET Nat DEF T
<1>2. ASSUME NEW n \in Nat, NEW m \in Nat, NEW f, NEW h,
             Upto(n, f), Upto(m, h)
      PROVE  \A k \in Nat : k <= n /\ k <= m => f[k] = h[k]
  <2> DEFINE A == {k \in Nat : k <= n /\ k <= m => f[k] = h[k]}
  <2>1. 0 \in A
    BY <1>2
  <2>2. \A k \in Nat : k \in A => k + 1 \in A
    <3> SUFFICES ASSUME NEW k \in Nat, k \in A PROVE k + 1 \in A
      OBVIOUS
    <3> SUFFICES ASSUME k + 1 <= n, k + 1 <= m PROVE f[k + 1] = h[k + 1]
      OBVIOUS
    <3>1. k + 1 \in 1 .. n /\ k + 1 \in 1 .. m /\ (k + 1) - 1 = k
      OBVIOUS
    <3>2. f[k + 1] = step[k + 1][f[k]] /\ h[k + 1] = step[k + 1][h[k]]
      BY <3>1, <1>2
    <3>3. f[k] = h[k]
      OBVIOUS
    <3> QED
      BY <3>2, <3>3
  <2>3. A = Nat
    <3> HIDE DEF A
    <3> QED
      BY <2>1, <2>2, NatSetInduction, A \in SUBSET Nat DEF A
  <2> QED
    BY <2>3
<1> DEFINE F(n) == CHOOSE f \in [0 .. n -> S] : Upto(n, f)
           G == [n \in Nat |-> F(n)[n]]
<1>3. ASSUME NEW n \in Nat PROVE F(n) \in [0 .. n -> S] /\ Upto(n, F(n))
  BY <1>1
<1> HIDE DEF F
<1>4. G \in [Nat -> S]
  BY <1>3
<1>5. ASSUME NEW n \in Nat
      PROVE  G[n] = IF n = 0 THEN x0 ELSE step[n][G[n - 1]]
  <2>1. CASE n = 0
    BY <2>1, <1>3
  <2>2. CASE n # 0
    <3>1. n - 1 \in Nat /\ n \in 1 .. n /\ n - 1 <= n
      BY <2>2
    <3>2. F(n)[n] = step[n][F(n)[n - 1]]
      BY <3>1, <1>3
    <3>3. F(n)[n - 1] = F(n - 1)[n - 1]
      <4>1. Upto(n, F(n)) /\ Upto(n - 1, F(n - 1))
        BY <3>1, <1>3
      <4> HIDE DEF Upto
      <4> QED
        BY <3>1, <4>1, <1>2
    <3> QED
      BY <2>2, <3>1, <3>2, <3>3
  <2> QED
    BY <2>1, <2>2
<1>6. G[0] = x0
  BY <1>5
<1>7. ASSUME NEW n \in Nat PROVE G[n + 1] = step[n + 1][G[n]]
  <2>1. n + 1 \in Nat /\ n + 1 # 0 /\ (n + 1) - 1 = n
    OBVIOUS
  <2> HIDE DEF G
  <2> QED
    BY <1>5, <2>1
<1> HIDE DEF G
<1> QED
  BY <1>4, <1>6, <1>7 DEF Follows

FollowsTo(f, N, x0, step) ==
  f[0] = x0 /\ \A n \in 1 .. N : f[n] = step[n][f[n - 1]]

(* Finitely many steps from a first value.                                 *)
LEMMA FiniteRecursion ==
  ASSUME NEW N \in Nat, NEW S, NEW x0 \in S, NEW step \in [1 .. N -> [S -> S]]
  PROVE  \E f \in [0 .. N -> S] : FollowsTo(f, N, x0, step)
<1> DEFINE more == [n \in Nat |-> IF n \in 1 .. N THEN step[n] ELSE [x \in S |-> x]]
<1>1. more \in [Nat -> [S -> S]]
  <2>1. [x \in S |-> x] \in [S -> S]
    OBVIOUS
  <2> HIDE DEF more
  <2>2. more = [n \in Nat |-> IF n \in 1 .. N THEN step[n] ELSE [x \in S |-> x]]
    BY DEF more
  <2>3. \A n \in Nat : more[n] \in [S -> S]
    BY <2>1, <2>2
  <2> QED
    BY <2>2, <2>3
<1>2. PICK g \in [Nat -> S] : Follows(g, x0, more)
  <2> HIDE DEF more
  <2> QED
    BY <1>1, PrimitiveRecursion
<1> DEFINE f == [n \in 0 .. N |-> g[n]]
<1>3. f \in [0 .. N -> S] /\ f[0] = x0
  BY <1>2 DEF Follows
<1>4. ASSUME NEW n \in 1 .. N PROVE f[n] = step[n][f[n - 1]]
  <2>1. n - 1 \in Nat /\ n \in Nat /\ (n - 1) + 1 = n /\ n \in 0 .. N /\ n - 1 \in 0 .. N
    OBVIOUS
  <2>2. g[(n - 1) + 1] = more[(n - 1) + 1][g[n - 1]]
    BY <1>2, <2>1 DEF Follows
  <2>3. more[n] = step[n]
    BY <2>1
  <2> HIDE DEF more
  <2> QED
    BY <2>1, <2>2, <2>3
<1> HIDE DEF f
<1> QED
  BY <1>3, <1>4 DEF FollowsTo

(* Numbers of a finite set have ranks, and every rank is taken.            *)
LEMMA RankTaken ==
  ASSUME NEW K \in SUBSET Nat, IsFiniteSet(K), NEW m \in Nat, \A k \in K : k < m,
         NEW n \in 1 .. Cardinality(K)
  PROVE  \E k \in K : Cardinality({j \in K : j < k}) = n - 1
<1> DEFINE Below(x) == {j \in K : j < x}
           C(x) == Cardinality(Below(x))
           A == {x \in Nat : \A r \in Nat : r < C(x) => \E k \in K : C(k) = r}
<1>1. 0 \in A
  <2>1. Below(0) = {}
    BY \A x \in K : ~(x < 0), Zenon
  <2>2. C(0) = 0
    BY <2>1, FS_EmptySet
  <2> HIDE DEF C
  <2> QED
    BY <2>2
<1>2. ASSUME NEW x \in Nat, x \in A PROVE x + 1 \in A
  <2>1. CASE x \in K
    <3>1. Below(x + 1) = Below(x) \cup {x} /\ x \notin Below(x)
      <4>1. \A y \in K : y < x + 1 <=> y < x \/ y = x
        OBVIOUS
      <4>2. ~(x < x)
        OBVIOUS
      <4> QED
        BY <4>1, <4>2, <2>1, Zenon
    <3>2. IsFiniteSet(Below(x))
      BY FS_Subset
    <3>3. C(x + 1) = C(x) + 1 /\ C(x) \in Nat
      <4> HIDE DEF Below
      <4> QED
        BY <3>1, <3>2, FS_AddElement, FS_CardinalityType
    <3> HIDE DEF C
    <3> QED
      BY <1>2, <2>1, <3>3
  <2>2. CASE x \notin K
    <3>1. Below(x + 1) = Below(x)
      <4>1. \A y \in K : y < x + 1 <=> y < x
        BY <2>2
      <4> QED
        BY <4>1, Zenon
    <3>2. C(x + 1) = C(x)
      BY <3>1
    <3> HIDE DEF C
    <3> QED
      BY <1>2, <3>2
  <2> QED
    BY <2>1, <2>2
<1>3. A = Nat
  <2> HIDE DEF A
  <2> QED
    BY <1>1, <1>2, NatSetInduction, A \in SUBSET Nat DEF A
<1>4. Below(m) = K
  BY Zenon
<1>5. C(m) = Cardinality(K) /\ m \in A
  BY <1>3, <1>4
<1>6. n - 1 \in Nat /\ n - 1 < Cardinality(K)
  BY FS_CardinalityType
<1> HIDE DEF C
<1>7. \E k \in K : C(k) = n - 1
  BY <1>5, <1>6
<1> QED
  BY <1>7 DEF C

=============================================================================
