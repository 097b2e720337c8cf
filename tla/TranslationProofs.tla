-------------------------- MODULE TranslationProofs --------------------------
(***************************************************************************)
(* What the translation of a node promises for any declarations and any    *)
(* bodies, of any length: the host's slots hold what compiled code reads,  *)
(* and compiled code means what Python means.                              *)
(***************************************************************************)
EXTENDS Translation, NatRecursion, SequenceTheorems

-----------------------------------------------------------------------------
\* Types

LEMMA FirstInFacts ==
  ASSUME NEW S \in SUBSET Nat, S # {}
  PROVE  FirstIn(S) \in S /\ \A j \in S : FirstIn(S) <= j
<1>1. \E i \in S : \A j \in S : i <= j
  BY NatLeast
<1> QED
  BY <1>1 DEF FirstIn

(* The words for types are no structs.                                     *)
LEMMA StructWords ==
  ASSUME NEW t \in Structs
  PROVE  t \notin Primitives /\ t # "datetime" /\ t # "unknown" /\ t # "voidptr"
         /\ t # "none" /\ t # "nothing" /\ t # "pointer"
BY AnalysisAssumption DEF AnalysisAssumption

Types ==
  {Unknown} \cup [class : {"PrimitiveType"}, value : Primitives]
    \cup [class : {"DateTimeType"}, value : {"datetime"}]
    \cup [class : {"StructType"}, value : Structs]

(* The first class that supports a type.                                   *)
LEMMA GetType ==
  ASSUME NEW type, NEW valueType, valueType \in Primitives \cup {"unknown"}
  PROVE  /\ get_type(type, valueType) \in Types
         /\ type \in Primitives => get_type(type, valueType) = [class |-> "PrimitiveType", value |-> type]
         /\ type = "datetime" =>
              get_type(type, "unknown") = [class |-> "DateTimeType", value |-> "datetime"]
         /\ type \in Structs => get_type(type, "unknown") = [class |-> "StructType", value |-> type]
         /\ valueType \in Primitives /\ type \notin Primitives =>
              get_type(type, valueType) = [class |-> "PrimitiveType", value |-> valueType]
<1> DEFINE M(v) == {i \in DOMAIN TypeClasses : \/ is_type_supported(TypeClasses[i], type)
                                              \/ is_type_supported(TypeClasses[i], v)}
<1>0. /\ DOMAIN TypeClasses = 1 .. 3
      /\ TypeClasses[1] = "PrimitiveType" /\ TypeClasses[2] = "DateTimeType" /\ TypeClasses[3] = "StructType"
  BY DEF TypeClasses
<1>1. ASSUME NEW t
      PROVE  /\ is_type_supported("PrimitiveType", t) <=> t \in Primitives
             /\ is_type_supported("DateTimeType", t) <=> t = "datetime"
             /\ is_type_supported("StructType", t) <=> t \in Structs
  BY DEF is_type_supported
<1>2. "unknown" \notin Primitives /\ "unknown" \notin Structs /\ "datetime" \notin Primitives
  BY StructWords DEF Primitives
<1>3. ASSUME NEW v, v \in Primitives \cup {"unknown"}
      PROVE  /\ get_type(type, v) =
                  IF M(v) = {} THEN Unknown
                  ELSE [class |-> TypeClasses[FirstIn(M(v))],
                        value |-> IF is_type_supported(TypeClasses[FirstIn(M(v))], type) THEN type ELSE v]
             /\ M(v) \subseteq 1 .. 3
             /\ 1 \in M(v) <=> type \in Primitives \/ v \in Primitives
             /\ 2 \in M(v) <=> type = "datetime"
             /\ 3 \in M(v) <=> type \in Structs
             /\ M(v) # {} => FirstIn(M(v)) \in M(v) /\ \A j \in M(v) : FirstIn(M(v)) <= j
  <2>1. M(v) \subseteq 1 .. 3
    BY <1>0
  <2>2. v # "datetime" /\ v \notin Structs
    BY <1>2, <1>3, StructWords
  <2>3. get_type(type, v) =
                  IF M(v) = {} THEN Unknown
                  ELSE [class |-> TypeClasses[FirstIn(M(v))],
                        value |-> IF is_type_supported(TypeClasses[FirstIn(M(v))], type) THEN type ELSE v]
    BY DEF get_type
  <2>4. /\ 1 \in M(v) <=> type \in Primitives \/ v \in Primitives
        /\ 2 \in M(v) <=> type = "datetime"
        /\ 3 \in M(v) <=> type \in Structs
    BY <1>0, <1>1, <2>2
  <2>5. M(v) # {} => FirstIn(M(v)) \in M(v) /\ \A j \in M(v) : FirstIn(M(v)) <= j
    <3>1. M(v) \in SUBSET Nat
      BY <2>1
    <3> HIDE DEF M
    <3> QED
      BY <3>1, FirstInFacts
  <2> HIDE DEF M
  <2> QED
    BY <2>1, <2>3, <2>4, <2>5
<1> HIDE DEF M
<1>4. ASSUME NEW v, v \in Primitives \cup {"unknown"}, type \in Primitives \/ v \in Primitives
      PROVE  get_type(type, v) = [class |-> "PrimitiveType", value |-> IF type \in Primitives THEN type ELSE v]
  <2>1. FirstIn(M(v)) = 1
    <3>1. 1 \in M(v)
      BY <1>3, <1>4
    <3>2. FirstIn(M(v)) \in 1 .. 3 /\ FirstIn(M(v)) <= 1
      BY <3>1, <1>3, <1>4
    <3> QED
      BY <3>2
  <2> QED
    BY <2>1, <1>0, <1>1, <1>3, <1>4
<1>5. ASSUME type \notin Primitives, type = "datetime"
      PROVE  get_type(type, "unknown") = [class |-> "DateTimeType", value |-> "datetime"]
  <2>0. "unknown" \in Primitives \cup {"unknown"}
    OBVIOUS
  <2>1. FirstIn(M("unknown")) = 2
    <3>1. 2 \in M("unknown") /\ 3 \notin M("unknown") /\ 1 \notin M("unknown")
      BY <1>2, <1>3, <1>5, StructWords, <2>0
    <3>2. FirstIn(M("unknown")) \in 1 .. 3 /\ FirstIn(M("unknown")) \in M("unknown")
      BY <3>1, <1>3, <2>0
    <3> QED
      BY <3>1, <3>2
  <2> QED
    BY <2>0, <2>1, <1>0, <1>1, <1>3, <1>5
<1>6. ASSUME type \in Structs
      PROVE  get_type(type, "unknown") = [class |-> "StructType", value |-> type]
  <2>0. "unknown" \in Primitives \cup {"unknown"}
    OBVIOUS
  <2>1. FirstIn(M("unknown")) = 3
    <3>1. 3 \in M("unknown") /\ 1 \notin M("unknown") /\ 2 \notin M("unknown")
      BY <1>2, <1>3, <1>6, StructWords, <2>0
    <3>2. FirstIn(M("unknown")) \in 1 .. 3 /\ FirstIn(M("unknown")) \in M("unknown")
      BY <3>1, <1>3, <2>0
    <3> QED
      BY <3>1, <3>2
  <2> QED
    BY <2>0, <2>1, <1>0, <1>1, <1>3, <1>6
<1>7. get_type(type, valueType) \in Types
  <2>1. CASE type \in Primitives \/ valueType \in Primitives
    BY <2>1, <1>4 DEF Types
  <2>2. CASE type \notin Primitives /\ valueType = "unknown" /\ type = "datetime"
    BY <2>2, <1>5 DEF Types
  <2>3. CASE valueType = "unknown" /\ type \in Structs
    BY <2>3, <1>6 DEF Types
  <2>4. CASE valueType = "unknown" /\ type \notin Primitives /\ type # "datetime" /\ type \notin Structs
    <3>1. M(valueType) = {}
      BY <2>4, <1>2, <1>3
    <3> QED
      BY <3>1, <1>3 DEF Types
  <2> QED
    BY <2>1, <2>2, <2>3, <2>4
<1> QED
  BY <1>2, <1>4, <1>5, <1>6, <1>7

(* How the types are represented.                                          *)
LEMMA NumbaNames ==
  /\ resolve_numba_name("int") = "int64" /\ resolve_numba_name("float") = "float64"
  /\ resolve_numba_name("bool") = "int8" /\ resolve_numba_name("datetime") = "int64"
  /\ \A t \in Structs : resolve_numba_name(t) = "voidptr"
<1> DEFINE F(t) == {i \in DOMAIN numba_types : numba_types[i].type = t}
<1>1. /\ DOMAIN numba_types = 1 .. 5
      /\ numba_types[1].type = "int" /\ numba_types[2].type = "float" /\ numba_types[3].type = "bool"
      /\ numba_types[4].type = "voidptr" /\ numba_types[5].type = "datetime"
      /\ numba_types[1].numba_name = "int64" /\ numba_types[2].numba_name = "float64"
      /\ numba_types[3].numba_name = "int8" /\ numba_types[4].numba_name = "voidptr"
      /\ numba_types[5].numba_name = "int64"
  BY DEF numba_types
<1>2. ASSUME NEW i \in 1 .. 5 PROVE i = 1 \/ i = 2 \/ i = 3 \/ i = 4 \/ i = 5
  OBVIOUS
<1>3. F("int") = {1} /\ F("float") = {2} /\ F("bool") = {3} /\ F("datetime") = {5}
  BY <1>1, <1>2
<1>4. ASSUME NEW t \in Structs PROVE F(t) = {}
  BY <1>1, <1>2, StructWords DEF Primitives
<1>5. ASSUME NEW i \in Nat PROVE FirstIn({i}) = i
  BY FirstInFacts
<1>6. ASSUME NEW t PROVE resolve_numba_name(t) = IF F(t) = {} THEN "voidptr" ELSE numba_types[FirstIn(F(t))].numba_name
  BY DEF resolve_numba_name
<1> HIDE DEF F
<1> QED
  BY <1>1, <1>3, <1>4, <1>5, <1>6

(* A size is known for every type, and is a number.                        *)
LEMMA TypeSizes ==
  ASSUME NEW t, t \in Primitives \cup {"datetime"} \cup Structs
  PROVE  get_type_size(t) \in Nat
<1> DEFINE S(name) == {i \in DOMAIN numba_types : numba_types[i].numba_name = name}
<1>1. /\ DOMAIN numba_types = 1 .. 5
      /\ numba_types[1].numba_name = "int64" /\ numba_types[2].numba_name = "float64"
      /\ numba_types[3].numba_name = "int8" /\ numba_types[4].numba_name = "voidptr"
  BY DEF numba_types
<1>2. \A i \in 1 .. 5 : numba_types[i].size \in Nat
  BY DEF numba_types
<1>3. resolve_numba_name(t) \in {"int64", "float64", "int8", "voidptr"}
  BY NumbaNames DEF Primitives
<1>4. S(resolve_numba_name(t)) # {} /\ S(resolve_numba_name(t)) \in SUBSET (1 .. 5)
  BY <1>1, <1>3
<1> HIDE DEF S
<1>5. FirstIn(S(resolve_numba_name(t))) \in 1 .. 5
  BY <1>4, FirstInFacts
<1> QED
  BY <1>2, <1>5 DEF get_type_size, get_size_for_numba_name, S

-----------------------------------------------------------------------------
\* The order of the state

(* In a strict order of 1 .. n every place is taken, by one element.       *)
LEMMA OrderRanks ==
  ASSUME NEW n \in Nat, NEW R,
         \A i \in 1 .. n : <<i, i>> \notin R,
         \A i, j, k \in 1 .. n : <<i, j>> \in R /\ <<j, k>> \in R => <<i, k>> \in R,
         \A i, j \in 1 .. n : i # j => <<i, j>> \in R \/ <<j, i>> \in R
  PROVE  LET B(j) == {k \in 1 .. n : <<k, j>> \in R}
         IN  /\ \A i \in 1 .. n : \E j \in 1 .. n : Cardinality(B(j)) = i - 1
             /\ \A i, j \in 1 .. n : Cardinality(B(i)) = Cardinality(B(j)) => i = j
             /\ \A i, j \in 1 .. n : Cardinality(B(i)) < Cardinality(B(j)) => <<i, j>> \in R
<1> DEFINE B(j) == {k \in 1 .. n : <<k, j>> \in R}
           D == 1 .. n
<1>1. IsFiniteSet(D) /\ Cardinality(D) = n
  BY FS_Interval
<1>2. ASSUME NEW j \in D PROVE IsFiniteSet(B(j)) /\ Cardinality(B(j)) \in 0 .. n - 1
  <2>1. B(j) \in SUBSET D /\ B(j) # D
    OBVIOUS
  <2> HIDE DEF B, D
  <2>2. IsFiniteSet(B(j)) /\ Cardinality(B(j)) <= n /\ Cardinality(B(j)) # n
    BY <2>1, <1>1, FS_Subset
  <2>3. Cardinality(B(j)) \in Nat
    BY <2>2, FS_CardinalityType
  <2> QED
    BY <2>2, <2>3
<1>3. ASSUME NEW i \in D, NEW j \in D, <<i, j>> \in R PROVE Cardinality(B(i)) < Cardinality(B(j))
  <2>1. B(i) \in SUBSET B(j) /\ i \in B(j) /\ i \notin B(i)
    BY <1>3
  <2>2. IsFiniteSet(B(j)) /\ Cardinality(B(j)) \in Nat /\ Cardinality(B(i)) \in Nat
    <3> HIDE DEF B, D
    <3> QED
      BY <1>2
  <2> HIDE DEF B, D
  <2>3. Cardinality(B(i)) <= Cardinality(B(j)) /\ Cardinality(B(i)) # Cardinality(B(j))
    BY <2>1, <2>2, FS_Subset
  <2> QED
    BY <2>2, <2>3
<1>4. ASSUME NEW i \in D, NEW j \in D, Cardinality(B(i)) = Cardinality(B(j)) PROVE i = j
  <2>1. Cardinality(B(i)) \in Nat
    <3> HIDE DEF B, D
    <3> QED
      BY <1>2
  <2>2. ~(<<i, j>> \in R) /\ ~(<<j, i>> \in R)
    <3> HIDE DEF B
    <3> QED
      BY <2>1, <1>3, <1>4
  <2> QED
    BY <2>2
<1>5. ASSUME NEW i \in D, NEW j \in D, Cardinality(B(i)) < Cardinality(B(j)) PROVE <<i, j>> \in R
  <2>1. Cardinality(B(i)) \in Nat /\ Cardinality(B(j)) \in Nat
    <3> HIDE DEF B, D
    <3> QED
      BY <1>2
  <2>2. ~(<<j, i>> \in R) /\ i # j
    <3> HIDE DEF B
    <3> QED
      BY <2>1, <1>3, <1>5
  <2> QED
    BY <2>2
<1>6. ASSUME NEW i \in D PROVE \E j \in D : Cardinality(B(j)) = i - 1
  <2> DEFINE f == [j \in D |-> Cardinality(B(j))]
             T == 0 .. n - 1
  <2>1. f \in [D -> T] /\ \A j, k \in D : f[j] = f[k] => j = k
    <3> HIDE DEF B
    <3>1. \A j \in D : Cardinality(B(j)) \in T
      BY <1>2
    <3> HIDE DEF D, T
    <3> QED
      BY <3>1, <1>4
  <2>2. IsFiniteSet(T) /\ Cardinality(T) = n
    BY FS_Interval
  <2>3. i - 1 \in T
    OBVIOUS
  <2> HIDE DEF T, D, f
  <2>4. f \in Injection(D, T)
    BY <2>1 DEF Injection, IsInjective
  <2>5. f \in Surjection(D, T)
    BY <2>2, <2>4, <1>1, FS_Injection
  <2>6. PICK j \in D : f[j] = i - 1
    BY <2>3, <2>5 DEF Surjection
  <2> QED
    BY <2>6 DEF f
<1> HIDE DEF B
<1>7. /\ \A i \in 1 .. n : \E j \in 1 .. n : Cardinality(B(j)) = i - 1
      /\ \A i, j \in 1 .. n : Cardinality(B(i)) = Cardinality(B(j)) => i = j
      /\ \A i, j \in 1 .. n : Cardinality(B(i)) < Cardinality(B(j)) => <<i, j>> \in R
  BY <1>4, <1>5, <1>6
<1> QED
  BY <1>7 DEF B

(* Names in alphabetical order differ in their positions.                  *)
LEMMA Positions ==
  ASSUME NEW n, NEW m, \E i \in DOMAIN Names : Names[i] = n, \E i \in DOMAIN Names : Names[i] = m
  PROVE  /\ Position(n) \in Nat /\ Position(m) \in Nat
         /\ n # m => Position(n) # Position(m)
<1>1. /\ Position(n) \in DOMAIN Names /\ Names[Position(n)] = n
      /\ Position(m) \in DOMAIN Names /\ Names[Position(m)] = m
  BY DEF Position
<1> QED
  BY <1>1, AnalysisAssumption DEF AnalysisAssumption

IsStates(states) ==
  /\ IsSequence(states) /\ Distinct(states)
  /\ \A i \in DOMAIN states : IsVariable(states[i])

(* sorted_by_size is a permutation, in which every state comes before the  *)
(* next ones.                                                              *)
LEMMA SortedBySize ==
  ASSUME NEW states, IsStates(states)
  PROVE  \E p \in [DOMAIN states -> DOMAIN states] :
           /\ sorted_by_size(states) = [i \in DOMAIN states |-> try_parse_state(states[p[i]])]
           /\ \A i, j \in DOMAIN states : p[i] = p[j] => i = j
           /\ \A i, j \in DOMAIN states : i < j => sorted_before(states[p[i]], states[p[j]])
<1> DEFINE n == Len(states)
           R == {ij \in (1 .. n) \X (1 .. n) : sorted_before(states[ij[1]], states[ij[2]])}
           size(i) == get_type_size(states[i].type)
           at(i) == Position(states[i].name)
           B(j) == {k \in 1 .. n : <<k, j>> \in R}
           p == [i \in 1 .. n |-> CHOOSE j \in 1 .. n : Cardinality(B(j)) = i - 1]
<1>1. n \in Nat /\ DOMAIN states = 1 .. n
  BY DEF IsStates, IsSequence
<1>2. ASSUME NEW i \in 1 .. n, NEW j \in 1 .. n
      PROVE  /\ size(i) \in Nat /\ size(j) \in Nat /\ at(i) \in Nat /\ at(j) \in Nat
             /\ i # j => at(i) # at(j)
             /\ <<i, j>> \in R <=> size(i) > size(j) \/ (size(i) = size(j) /\ at(i) < at(j))
  <2>1. i # j => states[i].name # states[j].name
    BY <1>1 DEF IsStates, Distinct
  <2>2. IsVariable(states[i]) /\ IsVariable(states[j])
    BY <1>1 DEF IsStates
  <2>3. at(i) \in Nat /\ at(j) \in Nat /\ (i # j => at(i) # at(j))
    BY <2>1, <2>2, Positions DEF IsVariable
  <2>4. size(i) \in Nat /\ size(j) \in Nat
    BY <2>2, TypeSizes DEF IsVariable
  <2>5. <<i, j>> \in R <=> sorted_before(states[i], states[j])
    OBVIOUS
  <2> QED
    BY <2>3, <2>4, <2>5 DEF sorted_before, Alphabetical
<1> HIDE DEF size, at
<1>3. /\ \A i \in 1 .. n : <<i, i>> \notin R
      /\ \A i, j, k \in 1 .. n : <<i, j>> \in R /\ <<j, k>> \in R => <<i, k>> \in R
      /\ \A i, j \in 1 .. n : i # j => <<i, j>> \in R \/ <<j, i>> \in R
  <2> HIDE DEF R, n
  <2>1. ASSUME NEW i \in 1 .. n PROVE <<i, i>> \notin R
    BY <1>2
  <2>2. ASSUME NEW i \in 1 .. n, NEW j \in 1 .. n, NEW k \in 1 .. n, <<i, j>> \in R, <<j, k>> \in R
        PROVE  <<i, k>> \in R
    <3>1. size(i) > size(j) \/ (size(i) = size(j) /\ at(i) < at(j))
      BY <2>2, <1>2
    <3>2. size(j) > size(k) \/ (size(j) = size(k) /\ at(j) < at(k))
      BY <2>2, <1>2
    <3>3. size(i) \in Nat /\ size(j) \in Nat /\ size(k) \in Nat /\ at(i) \in Nat /\ at(j) \in Nat /\ at(k) \in Nat
      BY <1>2
    <3>4. size(i) > size(k) \/ (size(i) = size(k) /\ at(i) < at(k))
      BY <3>1, <3>2, <3>3
    <3> QED
      BY <3>4, <1>2
  <2>3. ASSUME NEW i \in 1 .. n, NEW j \in 1 .. n, i # j PROVE <<i, j>> \in R \/ <<j, i>> \in R
    BY <2>3, <1>2
  <2> QED
    BY <2>1, <2>2, <2>3
<1>4. /\ \A i \in 1 .. n : \E j \in 1 .. n : Cardinality(B(j)) = i - 1
      /\ \A i, j \in 1 .. n : Cardinality(B(i)) = Cardinality(B(j)) => i = j
      /\ \A i, j \in 1 .. n : Cardinality(B(i)) < Cardinality(B(j)) => <<i, j>> \in R
  <2> HIDE DEF R, n
  <2> QED
    BY <1>1, <1>3, OrderRanks
<1>5. ASSUME NEW i \in 1 .. n PROVE p[i] \in 1 .. n /\ Cardinality(B(p[i])) = i - 1
  <2> HIDE DEF B
  <2> QED
    BY <1>4
<1>6. sorted_by_size(states) = [i \in 1 .. n |-> try_parse_state(states[p[i]])]
  <2>1. ASSUME NEW j \in 1 .. n
        PROVE  {k \in 1 .. n : sorted_before(states[k], states[j])} = B(j)
    OBVIOUS
  <2> DEFINE C(j) == {k \in 1 .. n : sorted_before(states[k], states[j])}
  <2>2. ASSUME NEW i \in 1 .. n
        PROVE  (CHOOSE j \in 1 .. n : Cardinality(C(j)) = i - 1) = p[i]
    <3>1. \A j \in 1 .. n : (Cardinality(C(j)) = i - 1) <=> (Cardinality(B(j)) = i - 1)
      BY <2>1
    <3> HIDE DEF B, C
    <3>2. (CHOOSE j \in 1 .. n : Cardinality(C(j)) = i - 1) = CHOOSE j \in 1 .. n : Cardinality(B(j)) = i - 1
      BY <3>1
    <3> QED
      BY <3>2
  <2>3. sorted_by_size(states) =
          [i \in 1 .. n |-> try_parse_state(states[CHOOSE j \in 1 .. n : Cardinality(C(j)) = i - 1])]
    <3> HIDE DEF n
    <3> QED
      BY <1>1 DEF sorted_by_size
  <2> HIDE DEF C, p
  <2> QED
    BY <2>2, <2>3
<1>7. p \in [1 .. n -> 1 .. n]
  BY <1>5
<1>8. ASSUME NEW i \in 1 .. n, NEW j \in 1 .. n, p[i] = p[j] PROVE i = j
  <2> HIDE DEF B, R, p
  <2>1. Cardinality(B(p[i])) = i - 1 /\ Cardinality(B(p[j])) = j - 1
    BY <1>5
  <2> QED
    BY <2>1, <1>1, <1>8
<1>9. ASSUME NEW i \in 1 .. n, NEW j \in 1 .. n, i < j
      PROVE  sorted_before(states[p[i]], states[p[j]])
  <2>1. <<p[i], p[j]>> \in R
    <3> HIDE DEF B, R, p
    <3>1. p[i] \in 1 .. n /\ p[j] \in 1 .. n
      BY <1>5
    <3>2. Cardinality(B(p[i])) < Cardinality(B(p[j]))
      <4>1. Cardinality(B(p[i])) = i - 1 /\ Cardinality(B(p[j])) = j - 1
        BY <1>5
      <4> QED
        BY <4>1, <1>1, <1>9
    <3> QED
      BY <3>1, <3>2, <1>4
  <2> QED
    BY <2>1
<1> HIDE DEF p, n
<1> QED
  BY <1>1, <1>6, <1>7, <1>8, <1>9

-----------------------------------------------------------------------------
\* The variables a declaration makes

HostKinds == {"ConstantSource", "OutputSource", "StateSource", "InputSource"}
DeclaredTypes == Types \ {Unknown}

(* A variable of a declaration; the value of a state is of its type.       *)
IsHostVariable(d, v) ==
  /\ v = Source(v.source, v.type, v.name, v.idx, v.opaque, v.value)
  /\ v.source \in HostKinds /\ IsSourceName(v.name) /\ v.type \in DeclaredTypes /\ v.idx \in Nat
  /\ v.source = "ConstantSource" =>
       /\ v.type.class = "PrimitiveType" /\ v.opaque = FALSE
       /\ Number(v.value) /\ IsNumber(Value(PythonType(v), v.value.n))
  /\ v.source \in {"OutputSource", "StateSource"} => v.opaque = (v.type.class = "StructType")
  /\ v.source = "InputSource" => v.opaque = TRUE
  /\ v.source = "StateSource" =>
       /\ v.idx \in DOMAIN d.states /\ v.value = state_values(d)[v.idx] /\ IsNumber(v.value)
       /\ v.value.type = IF v.type.class = "StructType" THEN "float" ELSE PythonType(v)
       /\ v.type.class # "StructType" => resolve_numba_name(v.type.value) = resolve_numba_name(v.value.type)

(* The variables of a declaration: their names and their cells differ.     *)
Created(d, V) ==
  /\ \A v \in V : IsHostVariable(d, v)
  /\ \A v, w \in V : v.name = w.name => v = w
  /\ \A v, w \in V : v.source # "ConstantSource" /\ v.source = w.source /\ v.idx = w.idx => v = w
  /\ \A v, w \in V : v.source = "StateSource" /\ w.source = "StateSource" /\ v.idx < w.idx =>
       get_type_size(v.type.value) >= get_type_size(w.type.value)

(* What types a declaration can give.                                      *)
LEMMA DeclaredType ==
  ASSUME NEW t, t \in Primitives \cup {"datetime"} \cup Structs
  PROVE  LET type == get_type(t, "unknown")
         IN  /\ type \in DeclaredTypes /\ type.value = t
             /\ type.class = "StructType" <=> t \in Structs
             /\ type.class = "DateTimeType" <=> t = "datetime"
             /\ type.class = "PrimitiveType" <=> t \in Primitives
<1> DEFINE type == get_type(t, "unknown")
<1>1. "datetime" \notin Primitives /\ \A s \in Structs : s \notin Primitives /\ s # "datetime"
  BY StructWords DEF Primitives
<1>2. type \in Types
  BY GetType
<1>3. /\ t \in Primitives => type = [class |-> "PrimitiveType", value |-> t]
      /\ t = "datetime" => type = [class |-> "DateTimeType", value |-> t]
      /\ t \in Structs => type = [class |-> "StructType", value |-> t]
  BY GetType
<1> HIDE DEF type
<1>4. type # Unknown /\ type.value = t
  BY <1>3 DEF Unknown
<1>5. /\ type.class = "StructType" <=> t \in Structs
      /\ type.class = "DateTimeType" <=> t = "datetime"
      /\ type.class = "PrimitiveType" <=> t \in Primitives
  BY <1>1, <1>3
<1> QED
  BY <1>2, <1>4, <1>5 DEF DeclaredTypes, type

LEMMA ConstantVariable ==
  ASSUME NEW d, IsDeclaration(d), analysed(d), NEW i \in DOMAIN d.constants
  PROVE  LET v == constant_variables(d)[i]
         IN  IsHostVariable(d, v) /\ v.source = "ConstantSource"
<1> DEFINE c == d.constants[i]
           v == constant_variables(d)[i]
           x == validate_input(c.value)
<1>1. IsVariable(c) /\ IsNumber(c.value) /\ input_accepted(c)
  BY DEF IsDeclaration, analysed
<1>2. v = Source("ConstantSource", get_type(c.type, x.type), c.name, 0, FALSE, x)
  BY DEF constant_variables
<1>3. c.value = Value(c.value.type, c.value.n) /\ c.value.n \in Int
      /\ (c.value.type # "float" => c.value.n % 2 = 0)
  BY <1>1 DEF IsNumber
<1>4. /\ x.n = c.value.n
      /\ x.type = IF c.value.type = "datetime" THEN "int" ELSE c.value.type
      /\ x = Value(x.type, x.n)
  BY <1>3 DEF validate_input, Value
<1>5. c.type \in Primitives \cup {"datetime"} /\ (c.value.type = c.type \/ (c.value.type = "bool" /\ c.type = "int"))
  BY <1>1 DEF input_accepted, isinstance
<1>6. x.type \in Primitives /\ (x.type = "float" <=> c.type = "float")
  BY <1>4, <1>5 DEF Primitives
<1>7. get_type(c.type, x.type) =
        [class |-> "PrimitiveType", value |-> IF c.type = "datetime" THEN "int" ELSE c.type]
  BY <1>4, <1>5, <1>6, GetType DEF Primitives
<1> HIDE DEF x, v
<1>8. /\ v.type = [class |-> "PrimitiveType", value |-> IF c.type = "datetime" THEN "int" ELSE c.type]
      /\ v.source = "ConstantSource" /\ v.name = c.name /\ v.idx = 0 /\ v.opaque = FALSE /\ v.value = x
  BY <1>2, <1>7 DEF Source
<1>9. v.type \in DeclaredTypes /\ v.type.class = "PrimitiveType"
  BY <1>5, <1>8 DEF DeclaredTypes, Types, Unknown, Primitives
<1>10. PythonType(v) = IF c.type = "datetime" THEN "int" ELSE c.type
  BY <1>8, <1>5 DEF PythonType, Primitives
<1>11. IsNumber(Value(PythonType(v), v.value.n))
  <2>1. PythonType(v) # "float" => c.value.type # "float"
    BY <1>5, <1>10 DEF Primitives
  <2> QED
    BY <2>1, <1>3, <1>4, <1>8 DEF IsNumber, Value
<1>12. Number(v.value)
  BY <1>6, <1>8 DEF Number
<1>13. v = Source(v.source, v.type, v.name, v.idx, v.opaque, v.value)
  BY <1>2, <1>7, <1>8
<1>14. IsSourceName(v.name)
  BY <1>1, <1>8 DEF IsVariable
<1>15. IsHostVariable(d, v) /\ v.source = "ConstantSource"
  BY <1>8, <1>9, <1>11, <1>12, <1>13, <1>14 DEF IsHostVariable, HostKinds
<1> QED
  BY <1>15 DEF v

LEMMA OutputVariable ==
  ASSUME NEW d, IsDeclaration(d), NEW i \in DOMAIN output_variables(d)
  PROVE  LET v == output_variables(d)[i]
         IN  IsHostVariable(d, v) /\ v.source = "OutputSource" /\ v.idx = i
<1> DEFINE v == output_variables(d)[i]
           o == d.outputs[i]
           type == get_type(o.type, "unknown")
<1>1. IsSequence(d.outputs) /\ \A j \in DOMAIN d.outputs : IsVariable(d.outputs[j])
  BY DEF IsDeclaration
<1>2. i \in 1 .. IF d.named THEN Len(d.outputs) ELSE 1
  BY DEF output_variables
<1>3. i \in DOMAIN d.outputs /\ i \in Nat
  <2>1. DOMAIN d.outputs = 1 .. Len(d.outputs) /\ Len(d.outputs) \in Nat
    BY <1>1 DEF IsSequence
  <2>2. CASE d.named
    BY <2>1, <2>2, <1>2
  <2>3. CASE ~d.named
    <3>1. d.outputs # <<>>
      BY <2>3 DEF IsDeclaration
    <3>2. Len(d.outputs) # 0
      <4> SUFFICES ASSUME Len(d.outputs) = 0 PROVE FALSE
        OBVIOUS
      <4>1. d.outputs = [j \in 1 .. Len(d.outputs) |-> d.outputs[j]]
        BY <1>1 DEF IsSequence
      <4>2. d.outputs = <<>>
        BY <4>1
      <4> QED
        BY <4>2, <3>1
    <3> QED
      BY <2>1, <2>3, <3>2, <1>2
  <2> QED
    BY <2>2, <2>3 DEF IsDeclaration
<1>4. IsVariable(o)
  BY <1>1, <1>3
<1>5. type \in DeclaredTypes
  BY <1>4, DeclaredType DEF IsVariable
<1>6. v = Source("OutputSource", type, IF d.named THEN o.name ELSE <<"output_0", 0>>, i,
                 type.class = "StructType", Value("none", 0))
  BY <1>2 DEF output_variables
<1> HIDE DEF type, v
<1>7. IsSourceName(IF d.named THEN o.name ELSE <<"output_0", 0>>)
  BY <1>4 DEF IsVariable, IsSourceName
<1>8. IsHostVariable(d, v) /\ v.source = "OutputSource" /\ v.idx = i
  BY <1>3, <1>5, <1>6, <1>7 DEF IsHostVariable, Source, HostKinds
<1> QED
  BY <1>8 DEF v

LEMMA InputVariable ==
  ASSUME NEW d, IsDeclaration(d), NEW i \in DOMAIN d.inputs
  PROVE  LET v == input_variables(d)[i]
         IN  IsHostVariable(d, v) /\ v.source = "InputSource" /\ v.idx = i
<1> DEFINE v == input_variables(d)[i]
           type == get_type(d.inputs[i].type, "unknown")
<1>1. IsVariable(d.inputs[i]) /\ i \in Nat
  BY DEF IsDeclaration, IsSequence
<1>2. type \in DeclaredTypes
  BY <1>1, DeclaredType DEF IsVariable
<1>3. v = Source("InputSource", type, d.inputs[i].name, i, TRUE, Value("none", 0))
  BY DEF input_variables
<1> HIDE DEF v, type
<1>4. IsHostVariable(d, v) /\ v.source = "InputSource" /\ v.idx = i
  BY <1>1, <1>2, <1>3 DEF IsHostVariable, Source, HostKinds, IsVariable
<1> QED
  BY <1>4 DEF v

(* A parsed state: of the type declared, with a value of its storage.      *)
LEMMA ParsedState ==
  ASSUME NEW s, IsVariable(s), IsNumber(s.value), state_accepted(s),
         s.type \in Structs => s.value.type = "float"
  PROVE  LET t == try_parse_state(s)
         IN  /\ t.type = s.type /\ t.name = s.name /\ IsNumber(t.value)
             /\ t.value.type = IF s.type \in Structs THEN "float" ELSE IF s.type = "datetime" THEN "int" ELSE s.type
             /\ s.type \notin Structs => resolve_numba_name(s.type) = resolve_numba_name(t.value.type)
<1> DEFINE t == try_parse_state(s)
<1>1. /\ s.value = Value(s.value.type, s.value.n) /\ s.value.n \in Int
      /\ s.value.type # "float" => s.value.n % 2 = 0
  BY DEF IsNumber
<1>2. s.type \in Primitives \cup {"datetime"} \cup Structs
  BY DEF IsVariable
<1>3. CASE s.type = "datetime"
  <2>1. t = [s EXCEPT !.value = Value("int", int(s.value.n))]
    BY <1>3 DEF try_parse_state
  <2>2. int(s.value.n) \in Int /\ int(s.value.n) % 2 = 0
    BY <1>1 DEF int
  <2>3. s.type \notin Structs
    BY <1>3, StructWords
  <2> QED
    BY <1>3, <2>1, <2>2, <2>3, NumbaNames DEF Value, IsNumber
<1>4. CASE s.type = "float"
  <2>1. t = [s EXCEPT !.value.type = "float"]
    BY <1>4 DEF try_parse_state
  <2>2. t.value = [s.value EXCEPT !.type = "float"] /\ t.type = s.type /\ t.name = s.name
    BY <2>1
  <2>3. t.value = Value("float", s.value.n)
    BY <1>1, <2>2 DEF Value
  <2>4. s.type \notin Structs
    BY <1>4, StructWords DEF Primitives
  <2> QED
    BY <1>1, <1>4, <2>2, <2>3, <2>4, NumbaNames DEF Value, IsNumber
<1>5. CASE s.type # "datetime" /\ s.type # "float"
  <2>1. t = s
    BY <1>5 DEF try_parse_state
  <2>2. CASE s.type \in Structs
    BY <2>1, <2>2
  <2>3. CASE s.type \in Primitives
    <3>1. s.value.type = s.type
      BY <2>3, <1>5 DEF state_accepted
    <3>2. s.type \notin Structs
      BY <2>3, StructWords
    <3> QED
      BY <1>5, <2>1, <3>1, <3>2
  <2> QED
    BY <2>2, <2>3, <1>2, <1>5
<1> QED
  BY <1>3, <1>4, <1>5

LEMMA StateVariables ==
  ASSUME NEW d, IsDeclaration(d), analysed(d)
  PROVE  /\ IsSequence(d.states) /\ DOMAIN state_variables(d) = DOMAIN d.states
         /\ \A i \in DOMAIN d.states :
              LET v == state_variables(d)[i]
              IN  IsHostVariable(d, v) /\ v.source = "StateSource" /\ v.idx = i
         /\ \A i, j \in DOMAIN d.states : i < j =>
              get_type_size(state_variables(d)[i].type.value) >= get_type_size(state_variables(d)[j].type.value)
<1> DEFINE S == d.states
           V == state_variables(d)
<1>1. IsSequence(S) /\ \A i \in DOMAIN S : IsVariable(S[i]) /\ IsNumber(S[i].value) /\ state_accepted(S[i])
                                            /\ (S[i].type \in Structs => S[i].value.type = "float")
  BY DEF IsDeclaration, analysed
<1>2. IsStates(S)
  BY <1>1 DEF IsStates, analysed
<1>3. PICK p \in [DOMAIN S -> DOMAIN S] :
           /\ sorted_by_size(S) = [i \in DOMAIN S |-> try_parse_state(S[p[i]])]
           /\ \A i, j \in DOMAIN S : p[i] = p[j] => i = j
           /\ \A i, j \in DOMAIN S : i < j => sorted_before(S[p[i]], S[p[j]])
  BY <1>2, SortedBySize
<1>4. DOMAIN V = DOMAIN S
  BY <1>3 DEF state_variables
<1>5. ASSUME NEW i \in DOMAIN S
      PROVE  /\ IsHostVariable(d, V[i]) /\ V[i].source = "StateSource" /\ V[i].idx = i
             /\ V[i].type.value = S[p[i]].type
  <2> DEFINE s == S[p[i]]
             t == try_parse_state(s)
             type == get_type(s.type, "unknown")
             v == V[i]
  <2>1. p[i] \in DOMAIN S /\ i \in Nat
    BY <1>1 DEF IsSequence
  <2>2. IsVariable(s) /\ IsNumber(s.value) /\ state_accepted(s) /\ (s.type \in Structs => s.value.type = "float")
    BY <2>1, <1>1
  <2>3. sorted_by_size(S)[i] = t
    BY <1>3
  <2>4. state_values(d)[i] = t.value
    BY <2>3 DEF state_values
  <2> HIDE DEF s
  <2>5. /\ t.type = s.type /\ t.name = s.name /\ IsNumber(t.value)
        /\ t.value.type = IF s.type \in Structs THEN "float" ELSE IF s.type = "datetime" THEN "int" ELSE s.type
        /\ s.type \notin Structs => resolve_numba_name(s.type) = resolve_numba_name(t.value.type)
    BY <2>2, ParsedState
  <2>6. s.type \in Primitives \cup {"datetime"} \cup Structs /\ IsSourceName(s.name)
    BY <2>2 DEF IsVariable
  <2>7. /\ type \in DeclaredTypes /\ type.value = s.type
        /\ type.class = "StructType" <=> s.type \in Structs
    BY <2>6, DeclaredType
  <2> HIDE DEF t
  <2>8. v = Source("StateSource", type, s.name, i, type.class = "StructType", t.value)
    BY <2>3, <2>5, <1>3 DEF state_variables
  <2> HIDE DEF type, v
  <2>9. /\ v.source = "StateSource" /\ v.type = type /\ v.name = s.name /\ v.idx = i
        /\ v.opaque = (type.class = "StructType") /\ v.value = t.value
    BY <2>8 DEF Source
  <2>10. PythonType(v) = IF s.type = "datetime" THEN "int" ELSE s.type
    BY <2>7, <2>9 DEF PythonType
  <2>11. IsHostVariable(d, v)
    BY <2>1, <2>4, <2>5, <2>6, <2>7, <2>8, <2>9, <2>10 DEF IsHostVariable, HostKinds
  <2> QED
    BY <2>7, <2>9, <2>11 DEF v, s
<1>6. ASSUME NEW i \in DOMAIN S, NEW j \in DOMAIN S, i < j
      PROVE  get_type_size(V[i].type.value) >= get_type_size(V[j].type.value)
  <2>1. sorted_before(S[p[i]], S[p[j]])
    BY <1>3, <1>6
  <2>2. IsVariable(S[p[i]]) /\ IsVariable(S[p[j]])
    BY <1>1
  <2>3. get_type_size(S[p[i]].type) \in Nat /\ get_type_size(S[p[j]].type) \in Nat
    BY <2>2, TypeSizes DEF IsVariable
  <2> QED
    BY <2>1, <2>3, <1>5 DEF sorted_before
<1> QED
  BY <1>1, <1>4, <1>5, <1>6

(* The elements of a concatenation.                                        *)
Members(q) == {q[i] : i \in DOMAIN q}

LEMMA Elements ==
  ASSUME NEW a, NEW b, IsSequence(a), IsSequence(b)
  PROVE  /\ IsSequence(a \o b)
         /\ Members(a \o b) = Members(a) \cup Members(b)
<1> DEFINE n == Len(a)
           m == Len(b)
           c == a \o b
           S == {a[i] : i \in DOMAIN a} \cup {b[i] : i \in DOMAIN b}
<1>1. n \in Nat /\ m \in Nat /\ DOMAIN a = 1 .. n /\ DOMAIN b = 1 .. m
  BY DEF IsSequence
<1>2. a \in Seq(S) /\ b \in Seq(S)
  <2>1. a \in [1 .. n -> S] /\ b \in [1 .. m -> S]
    <3>1. \A i \in 1 .. n : a[i] \in S
      BY <1>1
    <3>2. \A i \in 1 .. m : b[i] \in S
      BY <1>1
    <3> HIDE DEF S
    <3> QED
      BY <3>1, <3>2 DEF IsSequence
  <2> HIDE DEF S, n, m
  <2> QED
    BY <2>1, <1>1, SeqDef
<1>3. c \in Seq(S) /\ Len(c) = n + m /\ DOMAIN c = 1 .. n + m
      /\ \A i \in 1 .. n + m : c[i] = IF i <= n THEN a[i] ELSE b[i - n]
  <2>1. c \in Seq(S) /\ Len(c) = n + m /\ \A i \in 1 .. n + m : c[i] = IF i <= n THEN a[i] ELSE b[i - n]
    <3> HIDE DEF S
    <3> QED
      BY <1>1, <1>2, ConcatProperties
  <2>2. DOMAIN c = 1 .. Len(c)
    <3> HIDE DEF S, c
    <3> QED
      BY <2>1, LenProperties
  <2> QED
    BY <2>1, <2>2
<1>4. IsSequence(c)
  <2> HIDE DEF S, c
  <2>1. c \in [1 .. Len(c) -> S] /\ Len(c) \in Nat
    BY <1>3, LenProperties
  <2> QED
    BY <2>1 DEF IsSequence
<1>5. {c[i] : i \in DOMAIN c} \subseteq S
  BY <1>1, <1>3
<1>6. S \subseteq {c[i] : i \in DOMAIN c}
  <2>1. ASSUME NEW i \in 1 .. n PROVE i \in DOMAIN c /\ c[i] = a[i]
    BY <1>1, <1>3
  <2>2. ASSUME NEW i \in 1 .. m PROVE i + n \in DOMAIN c /\ c[i + n] = b[i]
    BY <1>1, <1>3
  <2> HIDE DEF c, n, m
  <2> QED
    BY <1>1, <2>1, <2>2
<1> QED
  BY <1>4, <1>5, <1>6 DEF Members

CreatedVariables(d) == Members(created_variables(d))

LEMMA CreatedFacts ==
  ASSUME NEW d \in Nodes, analysed(d), Distinct(created_variables(d))
  PROVE  Created(d, CreatedVariables(d)) /\ IsSequence(created_variables(d))
<1> DEFINE c == constant_variables(d)
           o == output_variables(d)
           s == state_variables(d)
           i == input_variables(d)
           E(q) == Members(q)
           V == CreatedVariables(d)
<1>1. IsDeclaration(d)
  BY TranslationAssumption DEF TranslationAssumption
<1>2. IsSequence(d.constants) /\ IsSequence(d.inputs) /\ IsSequence(d.outputs)
  BY <1>1 DEF IsDeclaration
<1>3. IsSequence(d.states) /\ DOMAIN s = DOMAIN d.states
  BY <1>1, StateVariables
<1>4. IsSequence(c) /\ IsSequence(i) /\ IsSequence(s)
  <2>1. ASSUME NEW q, NEW f, IsSequence(q), DOMAIN f = DOMAIN q, f = [j \in DOMAIN f |-> f[j]] PROVE IsSequence(f)
    <3>1. Len(q) \in Nat /\ DOMAIN q = 1 .. Len(q)
      BY <2>1 DEF IsSequence
    <3>2. f \in Seq({f[j] : j \in 1 .. Len(q)}) /\ Len(f) = Len(q)
      BY <2>1, <3>1, SeqDef
    <3> QED
      BY <2>1, <3>1, <3>2 DEF IsSequence
  <2>2. c = [j \in DOMAIN c |-> c[j]] /\ DOMAIN c = DOMAIN d.constants
    BY DEF constant_variables
  <2>3. i = [j \in DOMAIN i |-> i[j]] /\ DOMAIN i = DOMAIN d.inputs
    BY DEF input_variables
  <2>4. s = [j \in DOMAIN s |-> s[j]]
    BY DEF state_variables
  <2> HIDE DEF c, i, s
  <2> QED
    BY <2>1, <2>2, <2>3, <2>4, <1>2, <1>3
<1>5. IsSequence(o)
  <2> DEFINE n == IF d.named THEN Len(d.outputs) ELSE 1
  <2>1. n \in Nat
    BY <1>2 DEF IsSequence
  <2>2. o = [j \in 1 .. n |-> o[j]]
    BY DEF output_variables
  <2> HIDE DEF n, o
  <2>3. o \in [1 .. n -> {o[j] : j \in 1 .. n}]
    BY <2>2
  <2>4. o \in Seq({o[j] : j \in 1 .. n}) /\ Len(o) = n
    BY <2>1, <2>3, SeqDef
  <2> QED
    BY <2>1, <2>2, <2>4 DEF IsSequence
<1>6. IsSequence(created_variables(d)) /\ V = E(c) \cup E(o) \cup E(s) \cup E(i)
  <2>1. created_variables(d) = ((c \o o) \o s) \o i
    BY DEF created_variables
  <2>0. ASSUME NEW a, NEW b, IsSequence(a), IsSequence(b)
        PROVE  IsSequence(a \o b) /\ E(a \o b) = E(a) \cup E(b)
    BY <2>0, Elements
  <2> HIDE DEF E
  <2> HIDE DEF c, o, s, i
  <2>2. IsSequence(c \o o) /\ E(c \o o) = E(c) \cup E(o)
    BY <1>4, <1>5, <2>0
  <2>3. IsSequence((c \o o) \o s) /\ E((c \o o) \o s) = E(c \o o) \cup E(s)
    BY <1>4, <2>2, <2>0
  <2>4. IsSequence(((c \o o) \o s) \o i) /\ E(((c \o o) \o s) \o i) = E((c \o o) \o s) \cup E(i)
    BY <1>4, <2>3, <2>0
  <2>5. V = E(created_variables(d))
    BY DEF CreatedVariables, E
  <2> HIDE DEF E, V
  <2> QED
    BY <2>1, <2>2, <2>3, <2>4, <2>5
<1>7. ASSUME NEW v \in E(c) PROVE IsHostVariable(d, v) /\ v.source = "ConstantSource"
  <2>1. DOMAIN c = DOMAIN d.constants
    BY DEF constant_variables
  <2>2. \A j \in DOMAIN d.constants : IsHostVariable(d, c[j]) /\ c[j].source = "ConstantSource"
    BY <1>1, ConstantVariable
  <2> HIDE DEF c
  <2> QED
    BY <2>1, <2>2 DEF Members
<1>8. ASSUME NEW v \in E(o) PROVE IsHostVariable(d, v) /\ v.source = "OutputSource" /\ v = o[v.idx]
  <2>1. \A j \in DOMAIN o : IsHostVariable(d, o[j]) /\ o[j].source = "OutputSource" /\ o[j].idx = j
    BY <1>1, OutputVariable
  <2> HIDE DEF o
  <2> QED
    BY <2>1 DEF Members
<1>9. ASSUME NEW v \in E(s)
      PROVE  IsHostVariable(d, v) /\ v.source = "StateSource" /\ v.idx \in DOMAIN d.states /\ v = s[v.idx]
  <2>1. \A j \in DOMAIN d.states : IsHostVariable(d, s[j]) /\ s[j].source = "StateSource" /\ s[j].idx = j
    BY <1>1, StateVariables
  <2> HIDE DEF s
  <2> QED
    BY <2>1, <1>3 DEF Members
<1>10. ASSUME NEW v \in E(i) PROVE IsHostVariable(d, v) /\ v.source = "InputSource" /\ v = i[v.idx]
  <2>1. \A j \in DOMAIN d.inputs : IsHostVariable(d, i[j]) /\ i[j].source = "InputSource" /\ i[j].idx = j
    BY <1>1, InputVariable
  <2>2. DOMAIN i = DOMAIN d.inputs
    BY DEF input_variables
  <2> HIDE DEF i
  <2> QED
    BY <2>1, <2>2 DEF Members
<1>11. \A v \in V : IsHostVariable(d, v)
  <2> HIDE DEF c, o, s, i, E, V
  <2> QED
    BY <1>6, <1>7, <1>8, <1>9, <1>10
<1>12. ASSUME NEW v \in V, NEW w \in V, v.name = w.name PROVE v = w
  BY <1>12 DEF CreatedVariables, Distinct, Members
<1>13. ASSUME NEW v \in V, NEW w \in V, v.source # "ConstantSource", v.source = w.source, v.idx = w.idx PROVE v = w
  <2>1. v \in E(o) \cup E(s) \cup E(i)
    <3> HIDE DEF c, o, s, i, E, V
    <3> QED
      BY <1>6, <1>7, <1>13
  <2>2. (v \in E(o) /\ w \in E(o)) \/ (v \in E(s) /\ w \in E(s)) \/ (v \in E(i) /\ w \in E(i))
    <3> HIDE DEF c, o, s, i, E, V
    <3>1. \A u \in V : \/ u.source = "ConstantSource" /\ u \in E(c)
                       \/ u.source = "OutputSource" /\ u \in E(o)
                       \/ u.source = "StateSource" /\ u \in E(s)
                       \/ u.source = "InputSource" /\ u \in E(i)
      BY <1>6, <1>7, <1>8, <1>9, <1>10
    <3> QED
      BY <3>1, <1>13
  <2> HIDE DEF c, o, s, i, E, V
  <2> QED
    BY <2>2, <1>13, <1>8, <1>9, <1>10
<1>14. ASSUME NEW v \in V, NEW w \in V, v.source = "StateSource", w.source = "StateSource", v.idx < w.idx
       PROVE  get_type_size(v.type.value) >= get_type_size(w.type.value)
  <2>1. v \in E(s) /\ w \in E(s)
    <3> HIDE DEF c, o, s, i, E, V
    <3> QED
      BY <1>6, <1>7, <1>8, <1>9, <1>10, <1>14
  <2>2. v.idx \in DOMAIN d.states /\ v = s[v.idx] /\ w.idx \in DOMAIN d.states /\ w = s[w.idx]
    <3> HIDE DEF c, o, s, i, E, V
    <3> QED
      BY <2>1, <1>9
  <2>3. \A j, k \in DOMAIN d.states : j < k => get_type_size(s[j].type.value) >= get_type_size(s[k].type.value)
    BY <1>1, StateVariables
  <2> HIDE DEF s
  <2>4. get_type_size(s[v.idx].type.value) >= get_type_size(s[w.idx].type.value)
    BY <2>2, <2>3, <1>14
  <2> QED
    BY <2>2, <2>4
<1> HIDE DEF V
<1>15. Created(d, V)
  BY <1>11, <1>12, <1>13, <1>14 DEF Created
<1> QED
  BY <1>6, <1>15 DEF V

-----------------------------------------------------------------------------
\* The table of names

(* What a name stands for: a variable of the declaration, under its own    *)
(* name or an alias; a local variable; or a constant behind a temporary.   *)
Entry(D, n, v) ==
  \/ v \in D /\ IsSourceName(n) /\ (n = v.name \/ v.opaque)
  \/ v = Source("LocalVariableSource", v.type, n, 0, FALSE, Value("none", 0))
     /\ v.type \in Types /\ v.type.class # "StructType"
  \/ ~IsSourceName(n) /\ v.source = "LocalConstantSource"

TableOK(D, table, count) ==
  /\ count \in Nat /\ \A i \in Nat : i < count => Known(table, Temporary(i))
  /\ \A n \in DOMAIN table : Entry(D, n, table[n])
  /\ \A v \in D : Known(table, v.name) /\ table[v.name] = v

(* The names of the source keep what they stand for.                       *)
Extends(table, later) ==
  \A n \in DOMAIN table : n \in DOMAIN later /\ (IsSourceName(n) => later[n] = table[n])

LEMMA TemporaryNames ==
  ASSUME NEW i \in Nat
  PROVE  ~IsSourceName(Temporary(i)) /\ ~IsSourceName(OutputPointer(i)) /\ Temporary(i)[1] # OutputPointer(i)[1]
         /\ \A j \in Nat : OutputPointer(i) = OutputPointer(j) => i = j
BY DEF IsSourceName, Temporary, OutputPointer

LEMMA HostEntry ==
  ASSUME NEW D, NEW table, NEW count, TableOK(D, table, count), NEW n \in DOMAIN table,
         table[n].source \in HostKinds
  PROVE  table[n] \in D /\ IsSourceName(n) /\ (n = table[n].name \/ table[n].opaque)
<1>1. Entry(D, n, table[n])
  BY DEF TableOK
<1> DEFINE v == table[n]
<1>2. v = Source("LocalVariableSource", v.type, n, 0, FALSE, Value("none", 0)) => v.source = "LocalVariableSource"
  BY DEF Source
<1> QED
  BY <1>1, <1>2 DEF Entry, HostKinds

(* What the table says of the host is what was declared.                   *)
LEMMA HostVariables ==
  ASSUME NEW d, NEW D, NEW table, NEW count, Created(d, D), TableOK(D, table, count)
  PROVE  \A kind \in HostKinds : Of(table, kind) = {v \in D : v.source = kind}
<1> SUFFICES ASSUME NEW kind \in HostKinds PROVE Of(table, kind) = {v \in D : v.source = kind}
  OBVIOUS
<1>1. ASSUME NEW v \in Of(table, kind) PROVE v \in D /\ v.source = kind
  <2>1. PICK n \in DOMAIN table : v = table[n] /\ v.source = kind
    BY <1>1 DEF Of, Vars
  <2> QED
    BY <2>1, HostEntry
<1>2. ASSUME NEW v \in D, v.source = kind PROVE v \in Of(table, kind)
  <2>1. v.name \in DOMAIN table /\ table[v.name] = v
    BY <1>2 DEF TableOK, Known
  <2> QED
    BY <2>1, <1>2 DEF Of, Vars
<1> QED
  BY <1>1, <1>2

LEMMA WithNew ==
  ASSUME NEW D, NEW table, NEW count, TableOK(D, table, count),
         NEW n, NEW v, n \notin DOMAIN table, Entry(D, n, v)
  PROVE  TableOK(D, With(table, n, v), count) /\ Extends(table, With(table, n, v))
<1> DEFINE T == With(table, n, v)
<1>1. /\ DOMAIN T = DOMAIN table \cup {n} /\ T[n] = v
      /\ \A k \in DOMAIN table : T[k] = table[k]
  BY DEF With
<1> HIDE DEF T
<1>2. TableOK(D, T, count)
  BY <1>1 DEF TableOK, Known
<1>3. Extends(table, T)
  BY <1>1 DEF Extends
<1> QED
  BY <1>2, <1>3 DEF T

LEMMA WithTemporary ==
  ASSUME NEW d, NEW D, NEW table, NEW count, Created(d, D), TableOK(D, table, count),
         NEW v, Entry(D, Temporary(count), v)
  PROVE  TableOK(D, With(table, Temporary(count), v), count + 1) /\ Extends(table, With(table, Temporary(count), v))
<1> DEFINE t == Temporary(count)
           T == With(table, t, v)
<1>1. count \in Nat /\ ~IsSourceName(t)
  BY TemporaryNames DEF TableOK
<1>2. /\ DOMAIN T = DOMAIN table \cup {t} /\ T[t] = v
      /\ \A k \in DOMAIN table : k # t => T[k] = table[k]
  BY DEF With
<1>3. \A i \in Nat : i < count + 1 => Known(T, Temporary(i))
  <2>1. \A i \in Nat : i < count => Known(table, Temporary(i))
    BY DEF TableOK
  <2> HIDE DEF T
  <2>2. ASSUME NEW i \in Nat, i < count + 1 PROVE Known(T, Temporary(i))
    <3>1. i < count \/ i = count
      BY <1>1, <2>2
    <3> QED
      BY <3>1, <2>1, <1>2 DEF Known
  <2> QED
    BY <2>2
<1> HIDE DEF T, t
<1>4. \A k \in DOMAIN T : Entry(D, k, T[k])
  BY <1>2 DEF TableOK, t
<1>5. \A w \in D : Known(T, w.name) /\ T[w.name] = w
  <2>1. \A w \in D : w.name # t
    BY <1>1 DEF Created, IsHostVariable
  <2> QED
    BY <1>2, <2>1 DEF TableOK, Known
<1>6. TableOK(D, T, count + 1)
  BY <1>1, <1>3, <1>4, <1>5 DEF TableOK
<1>7. Extends(table, T)
  BY <1>1, <1>2 DEF Extends
<1> QED
  BY <1>6, <1>7 DEF T, t

LEMMA ExtendsIsTransitive ==
  ASSUME NEW a, NEW b, NEW c, Extends(a, b), Extends(b, c)
  PROVE  Extends(a, c)
BY DEF Extends

(* What is declared is there from the start.                               *)
LEMMA InitialTable ==
  ASSUME NEW d \in Nodes, analysed(d), Distinct(created_variables(d))
  PROVE  LET made == created_variables(d)
         IN  TableOK(CreatedVariables(d),
                     [n \in {made[i].name : i \in DOMAIN made} |-> made[CHOOSE i \in DOMAIN made : made[i].name = n]], 0)
<1> DEFINE made == created_variables(d)
           table == [n \in {made[i].name : i \in DOMAIN made} |-> made[CHOOSE i \in DOMAIN made : made[i].name = n]]
           D == CreatedVariables(d)
<1>1. Created(d, D)
  BY CreatedFacts
<1>2. ASSUME NEW i \in DOMAIN made
      PROVE  /\ made[i].name \in DOMAIN table /\ table[made[i].name] = made[i] /\ made[i] \in D
             /\ IsSourceName(made[i].name)
  <2>1. (CHOOSE j \in DOMAIN made : made[j].name = made[i].name) = i
    BY DEF Distinct
  <2>2. made[i] \in D
    BY DEF CreatedVariables, Members
  <2>3. IsSourceName(made[i].name)
    BY <2>2, <1>1 DEF Created, IsHostVariable
  <2> QED
    BY <2>1, <2>2, <2>3
<1>3. DOMAIN table = {made[i].name : i \in DOMAIN made} /\ D = {made[i] : i \in DOMAIN made}
  BY DEF CreatedVariables, Members
<1> HIDE DEF table, D, made
<1>4. \A n \in DOMAIN table : Entry(D, n, table[n])
  BY <1>2, <1>3 DEF Entry
<1>5. \A v \in D : Known(table, v.name) /\ table[v.name] = v
  BY <1>2, <1>3 DEF Known
<1>6. TableOK(D, table, 0)
  BY <1>4, <1>5 DEF TableOK
<1> QED
  BY <1>6 DEF table, D, made

-----------------------------------------------------------------------------
\* Generated expressions

(* The names that hold pointers to numbers: they are only read and written *)
(* through.                                                                *)
ScalarNames(D) == {local_variable_name(v) : v \in {v \in D : v.source # "ConstantSource" /\ Scalar(v)}}

IsAtom(D, x) ==
  /\ x.e \in {"const", "name", "cell", "none"}
  /\ x.e = "const" => Number(x.v)
  /\ x.e = "name" => x.n \notin ScalarNames(D)
  /\ x.e = "cell" => x.n \in ScalarNames(D)
IsValue(D, x) ==
  \/ IsAtom(D, x)
  \/ x.e = "field" /\ IsAtom(D, x.l)
  \/ x.e \in {"plus", "less"} /\ IsAtom(D, x.l) /\ IsAtom(D, x.r)

LEMMA LocalNames ==
  ASSUME NEW d, NEW D, Created(d, D), NEW v \in D
  PROVE  /\ v.source = "OutputSource" => local_variable_name(v) = OutputPointer(v.idx) /\ v.idx \in Nat
         /\ v.source # "OutputSource" => local_variable_name(v) = v.name
         /\ IsSourceName(v.name)
         /\ IsSourceName(local_variable_name(v)) <=> v.source # "OutputSource"
         /\ \A w \in D : local_variable_name(v) = local_variable_name(w) => v = w
         /\ \A i \in Nat : local_variable_name(v) # Temporary(i)
         /\ local_variable_name(v) \in ScalarNames(D) <=> v.source # "ConstantSource" /\ Scalar(v)
<1>1. ASSUME NEW w \in D
      PROVE  /\ IsSourceName(w.name) /\ w.idx \in Nat
             /\ w.source = "OutputSource" => local_variable_name(w) = OutputPointer(w.idx)
             /\ w.source # "OutputSource" => local_variable_name(w) = w.name
  BY DEF Created, IsHostVariable, local_variable_name
<1>2. ASSUME NEW w \in D, local_variable_name(v) = local_variable_name(w) PROVE v = w
  <2>1. CASE v.source = "OutputSource" /\ w.source = "OutputSource"
    <3>1. v.idx = w.idx
      BY <2>1, <1>1, <1>2, TemporaryNames
    <3> QED
      BY <2>1, <3>1 DEF Created
  <2>2. CASE v.source # "OutputSource" /\ w.source # "OutputSource"
    BY <2>2, <1>1, <1>2 DEF Created
  <2>3. CASE (v.source = "OutputSource") # (w.source = "OutputSource")
    BY <2>3, <1>1, <1>2, TemporaryNames
  <2> QED
    BY <2>1, <2>2, <2>3
<1>3. IsSourceName(local_variable_name(v)) <=> v.source # "OutputSource"
  BY <1>1, TemporaryNames
<1>4. ASSUME NEW i \in Nat PROVE local_variable_name(v) # Temporary(i)
  <2>1. OutputPointer(v.idx) # Temporary(i)
    BY DEF OutputPointer, Temporary
  <2> QED
    BY <1>1, <2>1, TemporaryNames
<1>5. local_variable_name(v) \in ScalarNames(D) <=> v.source # "ConstantSource" /\ Scalar(v)
  BY <1>2 DEF ScalarNames
<1> QED
  BY <1>1, <1>2, <1>3, <1>4, <1>5

(* What a variable is read by.                                             *)
LEMMA GetHost ==
  ASSUME NEW d, NEW D, Created(d, D), NEW v \in D
  PROVE  /\ v.source = "ConstantSource" => get(v) = Const(v.value) /\ Number(v.value)
         /\ v.source # "ConstantSource" /\ v.type.class = "StructType" => get(v) = Name(local_variable_name(v))
         /\ v.source # "ConstantSource" /\ v.type.class # "StructType" => get(v) = Cell(local_variable_name(v))
         /\ IsAtom(D, get(v))
<1>1. IsHostVariable(d, v)
  BY DEF Created
<1>2. v.source \in HostKinds /\ (v.source = "ConstantSource" => Number(v.value))
  BY <1>1 DEF IsHostVariable
<1>3. v.source = "ConstantSource" => get(v) = Const(v.value)
  BY <1>1 DEF get, IsHostVariable
<1>4. v.source # "ConstantSource" /\ v.type.class = "StructType" => get(v) = Name(local_variable_name(v))
  BY <1>2 DEF get, HostKinds
<1>5. v.source # "ConstantSource" /\ v.type.class # "StructType" => get(v) = Cell(local_variable_name(v))
  BY <1>2 DEF get, HostKinds
<1>6. local_variable_name(v) \in ScalarNames(D) <=> v.source # "ConstantSource" /\ v.type.class # "StructType"
  BY LocalNames DEF Scalar
<1>7. \A n : Name(n).e = "name" /\ Name(n).n = n /\ Cell(n).e = "cell" /\ Cell(n).n = n
  BY DEF Name, Cell
<1>8. \A c : Const(c).e = "const" /\ Const(c).v = c
  BY DEF Const
<1> QED
  BY <1>2, <1>3, <1>4, <1>5, <1>6, <1>7, <1>8 DEF IsAtom

LEMMA GetLocal ==
  ASSUME NEW v, NEW n, v = Source("LocalVariableSource", v.type, n, 0, FALSE, Value("none", 0))
  PROVE  get(v) = Name(n) /\ v.source = "LocalVariableSource" /\ v.opaque = FALSE /\ v.name = n
<1>1. v.source = "LocalVariableSource" /\ v.opaque = FALSE /\ v.name = n
  BY DEF Source
<1> QED
  BY <1>1 DEF get, local_variable_name

LEMMA NewLocal ==
  ASSUME NEW type, NEW n, type.class # "StructType"
  PROVE  LET v == LocalVariableSource(type, n)
         IN  v = Source("LocalVariableSource", v.type, n, 0, FALSE, Value("none", 0)) /\ v.type = type
             /\ get(v) = Name(n)
<1> DEFINE v == LocalVariableSource(type, n)
<1>1. v = Source("LocalVariableSource", type, n, 0, FALSE, Value("none", 0))
  BY DEF LocalVariableSource
<1>2. v.type = type
  BY <1>1 DEF Source
<1> HIDE DEF v
<1>3. v = Source("LocalVariableSource", v.type, n, 0, FALSE, Value("none", 0))
  BY <1>1, <1>2
<1>4. get(v) = Name(n)
  BY <1>3, GetLocal
<1> QED
  BY <1>2, <1>3, <1>4 DEF v

(* A name of the source stands for a variable of the host or for itself.   *)
LEMMA VisitName ==
  ASSUME NEW d, NEW D, NEW table, NEW count, Created(d, D), TableOK(D, table, count),
         NEW n, IsSourceName(n)
  PROVE  /\ IsAtom(D, visit_Name(table, n))
         /\ (~Known(table, n) \/ table[n] \notin D) => n \notin ScalarNames(D) /\ \A v \in D : local_variable_name(v) # n
         /\ \/ Known(table, n) /\ table[n] \in D /\ (n = table[n].name \/ table[n].opaque)
               /\ visit_Name(table, n) = get(table[n])
            \/ visit_Name(table, n) = Name(n) /\ ~IsStruct(table, n)
               /\ (Known(table, n) => table[n].source = "LocalVariableSource" /\ table[n].opaque = FALSE
                                      /\ table[n].type \in Types)
<1>0. ASSUME ~Known(table, n) \/ table[n] \notin D PROVE n \notin ScalarNames(D) /\ IsAtom(D, Name(n)) /\ \A v \in D : local_variable_name(v) # n
  <2>1. ASSUME NEW v \in D PROVE local_variable_name(v) # n
    <3>1. Known(table, v.name) /\ table[v.name] = v
      BY DEF TableOK
    <3> QED
      BY <3>1, <1>0, LocalNames
  <2>2. n \notin ScalarNames(D)
    BY <2>1 DEF ScalarNames
  <2> QED
    BY <2>1, <2>2 DEF IsAtom, Name
<1>1. CASE ~Known(table, n)
  BY <1>0, <1>1 DEF visit_Name, IsStruct
<1>2. CASE Known(table, n) /\ table[n] \in D
  <2>1. Entry(D, n, table[n])
    BY <1>2 DEF TableOK, Known
  <2>2. n = table[n].name \/ table[n].opaque
    <3> DEFINE v == table[n]
    <3>1. ASSUME v = Source("LocalVariableSource", v.type, n, 0, FALSE, Value("none", 0)) PROVE n = v.name
      BY <3>1, GetLocal
    <3> QED
      BY <2>1, <3>1 DEF Entry
  <2> QED
    BY <1>2, <2>2, GetHost DEF visit_Name
<1>3. CASE Known(table, n) /\ table[n] \notin D
  <2> DEFINE v == table[n]
  <2>1. Entry(D, n, v)
    BY <1>3 DEF TableOK, Known
  <2>2. v = Source("LocalVariableSource", v.type, n, 0, FALSE, Value("none", 0))
        /\ v.type \in Types /\ v.type.class # "StructType"
    BY <1>3, <2>1 DEF Entry
  <2>3. get(v) = Name(n) /\ v.source = "LocalVariableSource" /\ v.opaque = FALSE
    BY <2>2, GetLocal
  <2>4. visit_Name(table, n) = Name(n) /\ ~IsStruct(table, n)
    BY <1>3, <2>2, <2>3 DEF visit_Name, IsStruct
  <2> QED
    BY <1>0, <1>3, <2>2, <2>3, <2>4
<1> QED
  BY <1>1, <1>2, <1>3

(* Later entries do not change what an earlier name is.                    *)
LEMMA VisitNameLater ==
  ASSUME NEW table, NEW later, Extends(table, later), NEW n, IsSourceName(n), Known(table, n)
  PROVE  Known(later, n) /\ later[n] = table[n] /\ visit_Name(later, n) = visit_Name(table, n)
BY DEF Extends, visit_Name, Known

LEMMA VisitAtom ==
  ASSUME NEW d, NEW D, NEW table, NEW count, Created(d, D), TableOK(D, table, count),
         NEW x, IsOperand(x)
  PROVE  /\ IsAtom(D, visit_atom(table, x))
         /\ x.e = "name" => x = Name(x.n) /\ IsSourceName(x.n) /\ visit_atom(table, x) = visit_Name(table, x.n)
         /\ x.e = "const" => visit_atom(table, x) = x
         /\ x.e \in {"name", "const"}
<1>1. CASE x.e = "name"
  BY <1>1, VisitName DEF IsOperand, visit_atom
<1>2. CASE x.e = "const"
  <2>1. visit_atom(table, x) = x /\ Number(x.v)
    BY <1>2 DEF IsOperand, visit_atom, Number
  <2> QED
    BY <2>1, <1>2 DEF IsAtom
<1> QED
  BY <1>1, <1>2 DEF IsOperand

(* The shapes of an expression, and of what it becomes.                    *)
LEMMA Visit ==
  ASSUME NEW d, NEW D, NEW table, NEW count, Created(d, D), TableOK(D, table, count),
         NEW x, IsExpression(x)
  PROVE  /\ IsValue(D, visit(table, x))
         /\ \/ IsOperand(x) /\ visit(table, x) = visit_atom(table, x)
            \/ x = Nil /\ visit(table, x) = Nil
            \/ x = Field(Name(x.l.n)) /\ IsSourceName(x.l.n)
               /\ visit(table, x) = Field(IF IsStruct(table, x.l.n) THEN Name(x.l.n) ELSE visit_Name(table, x.l.n))
            \/ x.e \in {"plus", "less"} /\ x = Op(x.e, x.l, x.r) /\ IsOperand(x.l) /\ IsOperand(x.r)
               /\ visit(table, x) = Op(x.e, visit_atom(table, x.l), visit_atom(table, x.r))
            \/ x = Datetime(x.v.n) /\ IsNumber(x.v) /\ visit(table, x) = Const(x.v)
<1>1. CASE IsOperand(x)
  <2>1. x.e \in {"name", "const"}
    BY <1>1 DEF IsOperand
  <2> QED
    BY <1>1, <2>1, VisitAtom DEF visit, IsValue
<1>2. CASE x = Nil
  BY <1>2 DEF visit, visit_atom, Nil, IsValue, IsAtom
<1>3. CASE x.e = "field" /\ x = Field(x.l) /\ x.l = Name(x.l.n) /\ IsSourceName(x.l.n)
  <2>1. visit(table, x) = Field(IF IsStruct(table, x.l.n) THEN Name(x.l.n) ELSE visit_Name(table, x.l.n))
    BY <1>3 DEF visit, visit_atom
  <2>2. IsAtom(D, visit_Name(table, x.l.n))
    BY <1>3, VisitName
  <2>4. IsStruct(table, x.l.n) => IsAtom(D, Name(x.l.n))
    <3> SUFFICES ASSUME IsStruct(table, x.l.n) PROVE IsAtom(D, Name(x.l.n))
      OBVIOUS
    <3> DEFINE n == x.l.n
    <3>1. n \notin ScalarNames(D)
      <4>1. ASSUME NEW v \in D, v.source # "ConstantSource", Scalar(v), n = local_variable_name(v) PROVE FALSE
        <5>1. n = v.name
          BY <4>1, <1>3, LocalNames
        <5>2. table[n] = v
          BY <5>1 DEF TableOK
        <5> QED
          BY <4>1, <5>2 DEF IsStruct, Scalar
      <4> QED
        BY <4>1 DEF ScalarNames
    <3> HIDE DEF n
    <3>2. IsAtom(D, Name(n))
      BY <3>1 DEF IsAtom, Name
    <3> QED
      BY <3>2 DEF n
  <2>3. \A y : IsAtom(D, y) => IsValue(D, Field(y))
    BY DEF IsValue, Field
  <2> QED
    BY <1>3, <2>1, <2>2, <2>3, <2>4
<1>4. CASE x.e \in {"plus", "less"} /\ x = Op(x.e, x.l, x.r) /\ IsOperand(x.l) /\ IsOperand(x.r)
  <2>1. visit(table, x) = Op(x.e, visit_atom(table, x.l), visit_atom(table, x.r))
    BY <1>4 DEF visit
  <2>2. IsAtom(D, visit_atom(table, x.l)) /\ IsAtom(D, visit_atom(table, x.r))
    BY <1>4, VisitAtom
  <2> QED
    BY <1>4, <2>1, <2>2 DEF IsValue, Op
<1>5. CASE x.e = "datetime" /\ x = Datetime(x.v.n) /\ IsNumber(x.v)
  <2>1. visit(table, x) = Const(x.v)
    BY <1>5 DEF visit, visit_atom
  <2>2. x.v = Value("int", x.v.n)
    BY <1>5 DEF Datetime
  <2>3. x.v.type = "int"
    BY <2>2 DEF Value
  <2> QED
    BY <1>5, <2>1, <2>3 DEF IsValue, IsAtom, Const, Number, Primitives
<1> QED
  BY <1>1, <1>2, <1>3, <1>4, <1>5 DEF IsExpression

-----------------------------------------------------------------------------
\* Visits

IsGenerated(D, st) ==
  \/ st.s \in {"return", "tick"} /\ st.es = <<>>
  \/ \E n, x : /\ IsValue(D, x)
               /\ \/ st = Assign(n, x) /\ n \notin ScalarNames(D)
                  \/ st = SetField(n, x)
                  \/ st = Store(n, x) /\ n \in ScalarNames(D)
                  \/ st = Copy(n, x) /\ n \notin ScalarNames(D)

IsCode(D, stmts) == IsSequence(stmts) /\ \A i \in DOMAIN stmts : IsGenerated(D, stmts[i])

LEMMA CodeOf ==
  ASSUME NEW D
  PROVE  /\ IsCode(D, <<>>)
         /\ \A st : IsGenerated(D, st) => IsCode(D, <<st>>)
         /\ \A a, b : IsCode(D, a) /\ IsCode(D, b) => IsCode(D, a \o b)
<1>1. IsCode(D, <<>>)
  BY DEF IsCode, IsSequence
<1>2. ASSUME NEW st, IsGenerated(D, st) PROVE IsCode(D, <<st>>)
  <2>1. Len(<<st>>) = 1 /\ DOMAIN <<st>> = 1 .. 1 /\ <<st>>[1] = st
    OBVIOUS
  <2>2. <<st>> = [i \in 1 .. Len(<<st>>) |-> <<st>>[i]]
    OBVIOUS
  <2> QED
    BY <1>2, <2>1, <2>2 DEF IsCode, IsSequence
<1>3. ASSUME NEW a, NEW b, IsCode(D, a), IsCode(D, b) PROVE IsCode(D, a \o b)
  <2>1. IsSequence(a \o b) /\ Members(a \o b) = Members(a) \cup Members(b)
    BY <1>3, Elements DEF IsCode
  <2>2. \A x \in Members(a) \cup Members(b) : IsGenerated(D, x)
    BY <1>3 DEF IsCode, Members
  <2>3. ASSUME NEW c, \A x \in Members(c) : IsGenerated(D, x), IsSequence(c) PROVE IsCode(D, c)
    BY <2>3 DEF IsCode, Members
  <2> QED
    BY <2>1, <2>2, <2>3
<1> QED
  BY <1>1, <1>2, <1>3

LEMMA GeneratedTypes ==
  ASSUME NEW x
  PROVE  /\ x.e = "const" /\ x.v.type \in Primitives => get_type_from_ast(x) = [class |-> "PrimitiveType", value |-> x.v.type]
         /\ x.e = "less" => get_type_from_ast(x) = [class |-> "PrimitiveType", value |-> "bool"]
         /\ x.e \notin {"const", "less"} => get_type_from_ast(x) = Unknown
BY GetType DEF get_type_from_ast

(* A variable for an expression, and what computes it.                     *)
Computes(D, table, count, x, r) ==
  /\ TableOK(D, r.names, r.tmp) /\ Extends(table, r.names) /\ IsCode(D, r.code)
  /\ \A n : IsSourceName(n) => visit_Name(r.names, n) = visit_Name(table, n)
  /\ IsAtom(D, get(r.var))
  /\ x.e = "name" => /\ r.code = <<>> /\ get(r.var) = visit_Name(table, x.n)
                     /\ r.var.type = IF Known(table, x.n) THEN table[x.n].type ELSE Unknown
  /\ x.e = "const" => r.code = <<>> /\ get(r.var) = x
                      /\ r.var.type = [class |-> "PrimitiveType", value |-> x.v.type]
  /\ x.e \notin {"name", "const"} =>
       /\ r.code = <<Assign(Temporary(count), visit(table, x))>> /\ get(r.var) = Name(Temporary(count))
       /\ r.var.type = get_type_from_ast(visit(table, x))

LEMMA FromAst ==
  ASSUME NEW d, NEW D, NEW table, NEW count, Created(d, D), TableOK(D, table, count),
         NEW x, IsExpression(x), x # Nil
  PROVE  Computes(D, table, count, x, from_ast(table, count, x))
<1> DEFINE r == from_ast(table, count, x)
           t == Temporary(count)
<1> SUFFICES Computes(D, table, count, x, r)
  OBVIOUS
<1> HIDE DEF r
<1>0. count \in Nat /\ ~IsSourceName(t)
  BY TemporaryNames DEF TableOK
<1>1. x.e \in {"name", "const", "field", "plus", "less", "datetime"}
  BY DEF IsExpression, IsOperand
<1>2. IsCode(D, <<>>) /\ \A st : IsGenerated(D, st) => IsCode(D, <<st>>)
  BY CodeOf
<1>3. Extends(table, table)
  BY DEF Extends
<1>4. Unknown \in Types /\ Unknown.class # "StructType"
  BY DEF Types, Unknown
<1>5. CASE x.e = "name" /\ Known(table, x.n)
  <2>1. r = [var |-> table[x.n], code |-> <<>>, names |-> table, tmp |-> count]
    BY <1>5 DEF from_ast, r
  <2>2. IsSourceName(x.n)
    BY <1>5 DEF IsExpression, IsOperand, Nil
  <2>3. IsAtom(D, visit_Name(table, x.n)) /\ visit_Name(table, x.n) = get(table[x.n])
    BY <1>5, <2>2, VisitName DEF visit_Name
  <2> QED
    BY <1>2, <1>3, <1>5, <2>1, <2>3 DEF Computes
<1>6. CASE x.e = "name" /\ ~Known(table, x.n)
  <2> DEFINE v == LocalVariableSource(Unknown, x.n)
  <2>1. r = [var |-> v, code |-> <<>>, names |-> With(table, x.n, v), tmp |-> count]
    BY <1>6 DEF from_ast, r
  <2>2. IsSourceName(x.n)
    BY <1>6 DEF IsExpression, IsOperand, Nil
  <2>3. v = Source("LocalVariableSource", v.type, x.n, 0, FALSE, Value("none", 0)) /\ v.type = Unknown
        /\ get(v) = Name(x.n)
    BY <1>4, NewLocal
  <2> HIDE DEF v
  <2>4. Entry(D, x.n, v)
    BY <1>4, <2>3 DEF Entry
  <2>5. TableOK(D, With(table, x.n, v), count) /\ Extends(table, With(table, x.n, v))
    BY <1>6, <2>4, WithNew DEF Known
  <2>6. visit_Name(table, x.n) = Name(x.n)
    BY <1>6 DEF visit_Name
  <2>7. IsAtom(D, visit_Name(table, x.n))
    BY <2>2, VisitName
  <2>8. \A n : visit_Name(With(table, x.n, v), n) = visit_Name(table, n)
    BY <1>6, <2>3, <2>6 DEF With, visit_Name, Known
  <2> QED
    <3>1. r.var = v /\ r.code = <<>> /\ r.names = With(table, x.n, v) /\ r.tmp = count
      BY <2>1
    <3> QED
      BY <1>2, <1>6, <2>3, <2>5, <2>6, <2>7, <2>8, <3>1 DEF Computes
<1>7. ASSUME NEW v, Entry(D, t, v)
      PROVE  /\ TableOK(D, With(table, t, v), count + 1) /\ Extends(table, With(table, t, v))
             /\ \A n : IsSourceName(n) => visit_Name(With(table, t, v), n) = visit_Name(table, n)
  <2>1. TableOK(D, With(table, t, v), count + 1) /\ Extends(table, With(table, t, v))
    BY <1>7, WithTemporary
  <2>2. \A n : IsSourceName(n) => visit_Name(With(table, t, v), n) = visit_Name(table, n)
    <3> HIDE DEF t
    <3> QED
      BY <1>0 DEF With, visit_Name, Known
  <2> QED
    BY <2>1, <2>2
<1>8. CASE x.e = "const"
  <2> DEFINE v == LocalConstantSource(get_type(x.v.type, "unknown"), t, x.v)
  <2>1. r = [var |-> v, code |-> <<>>, names |-> With(table, t, v), tmp |-> count + 1]
    BY <1>8 DEF from_ast, r
  <2>2. x = Const(x.v) /\ x.v.type \in Primitives
    BY <1>8 DEF IsExpression, IsOperand, Nil
  <2>3. get_type(x.v.type, "unknown") = [class |-> "PrimitiveType", value |-> x.v.type]
    BY <2>2, GetType
  <2>4. v.source = "LocalConstantSource" /\ v.type = [class |-> "PrimitiveType", value |-> x.v.type] /\ v.value = x.v
    BY <2>3 DEF LocalConstantSource, Source
  <2> HIDE DEF v
  <2>5. get(v) = x
    BY <2>2, <2>4 DEF get
  <2>6. IsAtom(D, x)
    BY <1>8, <2>2 DEF IsAtom, Number
  <2>7. Entry(D, t, v)
    BY <1>0, <2>4 DEF Entry
  <2>8. /\ TableOK(D, With(table, t, v), count + 1) /\ Extends(table, With(table, t, v))
        /\ \A n : IsSourceName(n) => visit_Name(With(table, t, v), n) = visit_Name(table, n)
    <3> HIDE DEF t
    <3> QED
      BY <2>7, <1>7
  <2> QED
    <3>1. r.var = v /\ r.code = <<>> /\ r.names = With(table, t, v) /\ r.tmp = count + 1
      BY <2>1
    <3> QED
      BY <1>2, <1>8, <2>4, <2>5, <2>6, <2>8, <3>1 DEF Computes
<1>9. CASE x.e \in {"field", "plus", "less", "datetime"}
  <2> DEFINE y == visit(table, x)
             v == LocalVariableSource(get_type_from_ast(y), t)
  <2>1. r = [var |-> v, code |-> <<Assign(t, y)>>, names |-> With(table, t, v), tmp |-> count + 1]
    <3>1. x.e \notin {"name", "const", "none"}
      BY <1>9
    <3> QED
      BY <3>1 DEF from_ast, r
  <2>2. IsValue(D, y)
    BY Visit
  <2>3. get_type_from_ast(y) \in Types /\ get_type_from_ast(y).class # "StructType"
    <3>1. y.e = "const" => y.v.type \in Primitives
      BY <2>2 DEF IsValue, IsAtom, Number
    <3> HIDE DEF y
    <3>2. get_type_from_ast(y) \in {[class |-> "PrimitiveType", value |-> p] : p \in Primitives} \cup {Unknown}
      BY <3>1, GeneratedTypes DEF Primitives
    <3> QED
      BY <3>2, <1>4 DEF Types
  <2>4. t \notin ScalarNames(D)
    <3>1. \A v0 \in D : local_variable_name(v0) # t
      BY <1>0, LocalNames
    <3> QED
      BY <3>1 DEF ScalarNames
  <2>5. v = Source("LocalVariableSource", v.type, t, 0, FALSE, Value("none", 0)) /\ v.type = get_type_from_ast(y)
        /\ get(v) = Name(t)
    BY <2>3, NewLocal
  <2> HIDE DEF v, y
  <2>6. Entry(D, t, v)
    BY <2>3, <2>5 DEF Entry
  <2>7. /\ TableOK(D, With(table, t, v), count + 1) /\ Extends(table, With(table, t, v))
        /\ \A n : IsSourceName(n) => visit_Name(With(table, t, v), n) = visit_Name(table, n)
    <3> HIDE DEF t
    <3> QED
      BY <2>6, <1>7
  <2>8. IsCode(D, <<Assign(t, y)>>)
    BY <1>2, <2>2, <2>4 DEF IsGenerated
  <2>9. IsAtom(D, Name(t))
    BY <2>4 DEF IsAtom, Name
  <2>10. x.e \notin {"name", "const"}
    BY <1>9
  <2> QED
    <3>1. r.var = v /\ r.code = <<Assign(t, y)>> /\ r.names = With(table, t, v) /\ r.tmp = count + 1
      BY <2>1
    <3> QED
      BY <2>5, <2>7, <2>8, <2>9, <2>10, <3>1 DEF Computes, y, t
<1> QED
  BY <1>1, <1>5, <1>6, <1>8, <1>9

(* What an assignment becomes: a pointer under another name (an alias), a  *)
(* store through what the name stands for, or a local variable.            *)
Assigns(D, table, count, st, y, r) ==
  LET n == st.n
      x == st.es[1]
  IN  /\ IsValue(D, y) /\ r.tmp = count
      /\ \/ y = visit(table, x)
         \/ x.e = "field" /\ IsStruct(table, x.l.n) /\ y = Field(visit_Name(table, x.l.n))
      /\ \/ /\ Known(table, n) /\ r.names = table
            /\ \/ get(table[n]) = Name(get(table[n]).n) /\ r.code = <<Assign(get(table[n]).n, y)>>
               \/ get(table[n]) = Cell(get(table[n]).n) /\ r.code = <<Store(get(table[n]).n, y)>>
         \/ /\ ~Known(table, n) /\ r.code = <<Assign(n, y)>>
            /\ \/ r.names = table
               \/ \E v : /\ r.names = With(table, n, v) /\ v.type \in Types /\ v.type.class # "StructType"
                         /\ v = Source("LocalVariableSource", v.type, n, 0, FALSE, Value("none", 0))
               \/ /\ x.e = "name" /\ Known(table, x.n) /\ table[x.n] \in D /\ table[x.n].opaque
                  /\ r.names = With(table, n, table[x.n])

LEMMA AssignTo ==
  ASSUME NEW target, NEW y, assignment(target, y) # Bad,
         target = Name(target.n) \/ target = Cell(target.n) \/ target.e = "const"
  PROVE  \/ target = Name(target.n) /\ assignment(target, y) = Assign(target.n, y)
         \/ target = Cell(target.n) /\ assignment(target, y) = Store(target.n, y)
<1>1. target.e = "const" => assignment(target, y) = Bad
  BY DEF assignment
<1>2. target = Name(target.n) => target.e = "name"
  BY DEF Name
<1>3. target = Cell(target.n) => target.e = "cell"
  BY DEF Cell
<1> QED
  BY <1>1, <1>2, <1>3 DEF assignment

(* A known target is a name, a cell or a constant.                         *)
LEMMA KnownTarget ==
  ASSUME NEW d, NEW D, NEW table, NEW count, Created(d, D), TableOK(D, table, count),
         NEW n, IsSourceName(n), Known(table, n)
  PROVE  LET t == get(table[n])
         IN  /\ t = visit_Name(table, n) /\ IsAtom(D, t)
             /\ t = Name(t.n) \/ t = Cell(t.n) \/ t.e = "const"
<1> DEFINE t == get(table[n])
<1>0. t = visit_Name(table, n)
  BY DEF visit_Name
<1>1. IsAtom(D, t)
  <2>1. IsAtom(D, visit_Name(table, n))
    BY VisitName
  <2> QED
    BY <2>1, <1>0
<1>2. CASE table[n] \in D
  <2> DEFINE v == table[n]
  <2>1. /\ v.source = "ConstantSource" => t = Const(v.value)
        /\ v.source # "ConstantSource" => t = Name(local_variable_name(v)) \/ t = Cell(local_variable_name(v))
    BY <1>2, GetHost
  <2>2. \A c : Const(c).e = "const"
    BY DEF Const
  <2>3. \A k : Name(k).n = k /\ Cell(k).n = k
    BY DEF Name, Cell
  <2> HIDE DEF t, v
  <2> QED
    BY <2>1, <2>2, <2>3, <1>0, <1>1 DEF t
<1>3. CASE table[n] \notin D
  <2>1. visit_Name(table, n) = Name(n)
    BY <1>3, VisitName
  <2>2. t.n = n
    BY <1>0, <2>1 DEF Name
  <2> QED
    BY <2>1, <2>2, <1>0, <1>1
<1> QED
  BY <1>2, <1>3

LEMMA GenericVisit ==
  ASSUME NEW d, NEW D, NEW table, NEW count, Created(d, D), TableOK(D, table, count),
         NEW st, IsSourceName(st.n), IsExpression(st.es[1]), generic_visit(table, count, st).ok
  PROVE  LET r == generic_visit(table, count, st)
             y == visit(table, st.es[1])
         IN  /\ r.tmp = count /\ r.names = table
             /\ \/ /\ Known(table, st.n)
                   /\ \/ get(table[st.n]) = Name(get(table[st.n]).n) /\ r.code = <<Assign(get(table[st.n]).n, y)>>
                      \/ get(table[st.n]) = Cell(get(table[st.n]).n) /\ r.code = <<Store(get(table[st.n]).n, y)>>
                \/ ~Known(table, st.n) /\ r.code = <<Assign(st.n, y)>>
<1> DEFINE r == generic_visit(table, count, st)
           y == visit(table, st.es[1])
           t == visit_Name(table, st.n)
           stmt == assignment(t, y)
<1>1. r = IF stmt = Bad THEN Raises ELSE Visited(<<stmt>>, table, count)
  BY DEF generic_visit
<1>2. stmt # Bad /\ r = Visited(<<stmt>>, table, count)
  BY <1>1 DEF Raises
<1>3. r.tmp = count /\ r.names = table /\ r.code = <<stmt>>
  BY <1>2 DEF Visited
<1>4. CASE Known(table, st.n)
  <2>1. /\ t = get(table[st.n]) /\ IsAtom(D, t)
        /\ t = Name(t.n) \/ t = Cell(t.n) \/ t.e = "const"
    BY <1>4, KnownTarget
  <2> HIDE DEF t, y, r
  <2> QED
    BY <1>2, <1>3, <1>4, <2>1, AssignTo DEF r, y
<1>5. CASE ~Known(table, st.n)
  <2>1. t = Name(st.n)
    BY <1>5 DEF visit_Name
  <2>2. stmt = Assign(st.n, y)
    BY <2>1 DEF assignment, Name
  <2> QED
    BY <1>3, <1>5, <2>2
<1> QED
  BY <1>4, <1>5

(* The same with a source for the target.                                  *)
Binds(table, count, n, y, r) ==
  /\ r.tmp = count
  /\ \/ /\ Known(table, n) /\ r.names = table
        /\ \/ get(table[n]) = Name(get(table[n]).n) /\ r.code = <<Assign(get(table[n]).n, y)>>
           \/ get(table[n]) = Cell(get(table[n]).n) /\ r.code = <<Store(get(table[n]).n, y)>>
     \/ /\ ~Known(table, n) /\ r.code = <<Assign(n, y)>>
        /\ \E v : /\ r.names = With(table, n, v) /\ v.type \in Types /\ v.type.class # "StructType"
                  /\ v = Source("LocalVariableSource", v.type, n, 0, FALSE, Value("none", 0))

LEMMA AssignKnown ==
  ASSUME NEW d, NEW D, NEW table, NEW count, Created(d, D), TableOK(D, table, count),
         NEW n, IsSourceName(n), NEW type, NEW y, assign_known(table, count, n, type, y).ok,
         type \in Types, type.class # "StructType" \/ Known(table, n)
  PROVE  Binds(table, count, n, y, assign_known(table, count, n, type, y))
<1> DEFINE r == assign_known(table, count, n, type, y)
<1> SUFFICES Binds(table, count, n, y, r)
  OBVIOUS
<1>0. r.ok
  OBVIOUS
<1> HIDE DEF r
<1>1. CASE Known(table, n)
  <2> DEFINE t == get(table[n])
             stmt == assignment(t, y)
  <2>1. r = IF stmt = Bad THEN Raises ELSE Visited(<<stmt>>, table, count)
    BY <1>1 DEF assign_known, r
  <2>2. stmt # Bad /\ r = Visited(<<stmt>>, table, count)
    BY <1>0, <2>1 DEF Raises
  <2>3. r.tmp = count /\ r.names = table /\ r.code = <<stmt>>
    BY <2>2 DEF Visited
  <2>4. IsAtom(D, t) /\ (t = Name(t.n) \/ t = Cell(t.n) \/ t.e = "const")
    BY <1>1, KnownTarget
  <2>6. \/ t = Name(t.n) /\ stmt = Assign(t.n, y)
        \/ t = Cell(t.n) /\ stmt = Store(t.n, y)
    <3> HIDE DEF t
    <3> QED
      BY <2>2, <2>4, AssignTo
  <2> HIDE DEF stmt, t
  <2> QED
    BY <1>1, <2>3, <2>6 DEF Binds, t
<1>2. CASE ~Known(table, n)
  <2> DEFINE v == LocalVariableSource(type, n)
  <2>1. r = Visited(<<Assign(n, y)>>, With(table, n, v), count)
    BY <1>2 DEF assign_known, r
  <2>2. r.tmp = count /\ r.names = With(table, n, v) /\ r.code = <<Assign(n, y)>>
    BY <2>1 DEF Visited
  <2>3. v.type = type /\ v = Source("LocalVariableSource", v.type, n, 0, FALSE, Value("none", 0))
    BY <1>2, NewLocal
  <2> HIDE DEF v
  <2> QED
    BY <1>2, <2>2, <2>3 DEF Binds
<1> QED
  BY <1>1, <1>2

LEMMA VisitAssign ==
  ASSUME NEW d, NEW D, NEW table, NEW count, Created(d, D), TableOK(D, table, count),
         NEW st, st.s = "assign", IsStatement(st), visit_Assign(table, count, st).ok
  PROVE  \E y : Assigns(D, table, count, st, y, visit_Assign(table, count, st))
<1> DEFINE r == visit_Assign(table, count, st)
           x == st.es[1]
           n == st.n
           plain == visit(table, x)
<1>1. IsSourceName(n) /\ IsExpression(x)
  BY DEF IsStatement, IsSequence
<1>2. IsValue(D, plain)
  BY <1>1, Visit
<1>3. Unknown.class # "StructType"
  BY DEF Unknown
<1>4. CASE x.e = "field" /\ IsStruct(table, x.l.n)
  <2> DEFINE t == get(table[x.l.n])
             y == Field(t)
             type == get_type("float", "unknown")
  <2>1. r = assign_known(table, count, n, type, y)
    BY <1>4 DEF visit_Assign
  <2>2. type = [class |-> "PrimitiveType", value |-> "float"]
    BY GetType DEF Primitives
  <2>3. type \in Types /\ type.class # "StructType"
    BY <2>2 DEF Types, Primitives
  <2>4. IsSourceName(x.l.n) /\ Known(table, x.l.n)
    BY <1>1, <1>4 DEF IsExpression, IsOperand, IsStruct, Nil
  <2>5. t = visit_Name(table, x.l.n) /\ IsAtom(D, t)
    BY <2>4, KnownTarget
  <2>6. IsValue(D, y)
    BY <2>5 DEF IsValue, Field
  <2>7. Binds(table, count, n, y, r)
    <3> HIDE DEF y, type
    <3> QED
      BY <2>1, <2>3, <1>1, AssignKnown
  <2>8. y = Field(visit_Name(table, x.l.n))
    BY <2>5
  <2> HIDE DEF r, y, t
  <2>9. Assigns(D, table, count, st, y, r)
    BY <1>4, <2>6, <2>7, <2>8 DEF Assigns, Binds
  <2> QED
    BY <2>9 DEF r
<1>5. CASE x.e = "name" /\ Known(table, x.n)
  <2>1. IsSourceName(x.n) /\ IsOperand(x)
    BY <1>1, <1>5 DEF IsExpression, IsOperand, Nil
  <2>2. plain = visit_Name(table, x.n) /\ get(table[x.n]) = plain
    BY <1>5 DEF visit, visit_atom, visit_Name
  <2>3. Entry(D, x.n, table[x.n])
    BY <1>5 DEF TableOK, Known
  <2>4. CASE table[x.n].opaque /\ ~Known(table, n)
    <3>1. r = Visited(<<Assign(n, plain)>>, With(table, n, table[x.n]), count)
      BY <1>5, <2>2, <2>4 DEF visit_Assign
    <3>2. r.tmp = count /\ r.names = With(table, n, table[x.n]) /\ r.code = <<Assign(n, plain)>>
      BY <3>1 DEF Visited
    <3>3. table[x.n] \in D
      <4> DEFINE v == table[x.n]
      <4>1. ASSUME v = Source("LocalVariableSource", v.type, x.n, 0, FALSE, Value("none", 0)) PROVE FALSE
        <5>1. v.opaque = FALSE
          BY <4>1, GetLocal
        <5> QED
          BY <5>1, <2>4
      <4> QED
        BY <4>1, <2>1, <2>3 DEF Entry
    <3> HIDE DEF r
    <3>4. Assigns(D, table, count, st, plain, r)
      BY <1>2, <1>5, <2>4, <3>2, <3>3 DEF Assigns
    <3> QED
      BY <3>4 DEF r
  <2>5. CASE ~(table[x.n].opaque /\ ~Known(table, n))
    <3> DEFINE type == table[x.n].type
    <3>1. r = assign_known(table, count, n, type, plain)
      BY <1>5, <2>2, <2>5 DEF visit_Assign
    <3>2. type \in Types /\ (type.class # "StructType" \/ Known(table, n))
      <4> DEFINE v == table[x.n]
      <4>1. CASE v \in D
        <5>1. IsHostVariable(d, v)
          BY <4>1 DEF Created
        <5>2. v.type \in Types
          BY <5>1 DEF IsHostVariable, DeclaredTypes
        <5>3. v.type.class = "StructType" => v.opaque
          BY <5>1 DEF IsHostVariable, HostKinds
        <5> QED
          BY <5>2, <5>3, <2>5
      <4>2. CASE v \notin D
        BY <4>2, <2>1, <2>3 DEF Entry
      <4> QED
        BY <4>1, <4>2
    <3> HIDE DEF plain, type
    <3>3. Binds(table, count, n, plain, r)
      BY <3>1, <3>2, <1>1, AssignKnown
    <3> HIDE DEF r
    <3>4. Assigns(D, table, count, st, plain, r)
      BY <1>2, <3>3 DEF Assigns, Binds, plain
    <3> QED
      BY <3>4 DEF r
  <2> QED
    BY <2>4, <2>5
<1>6. CASE x.e = "datetime"
  <2> DEFINE type == get_type("datetime", "unknown")
             v == LocalVariableSource(type, n)
             T == With(table, n, v)
  <2>1. ~Known(table, n) /\ r = generic_visit(T, count, st)
    BY <1>6 DEF visit_Assign, Raises
  <2>2. type = [class |-> "DateTimeType", value |-> "datetime"]
    BY GetType
  <2>3. /\ v = Source("LocalVariableSource", v.type, n, 0, FALSE, Value("none", 0))
        /\ v.type = [class |-> "DateTimeType", value |-> "datetime"] /\ get(v) = Name(n)
    <3>1. type.class # "StructType"
      BY <2>2
    <3> HIDE DEF type
    <3>2. v = Source("LocalVariableSource", v.type, n, 0, FALSE, Value("none", 0)) /\ v.type = type /\ get(v) = Name(n)
      BY <3>1, NewLocal
    <3> HIDE DEF v
    <3> QED
      BY <2>2, <3>2
  <2>4. v.type \in Types /\ v.type.class # "StructType"
    BY <2>3 DEF Types
  <2> HIDE DEF v
  <2>5. visit_Name(T, n) = Name(n) /\ visit(T, x) = plain
    <3>1. visit(T, x) = plain
      BY <1>6 DEF visit, visit_atom
    <3> QED
      BY <2>3, <3>1 DEF visit_Name, With, Known
  <2>6. r = Visited(<<Assign(n, plain)>>, T, count)
    <3>1. assignment(Name(n), plain) = Assign(n, plain)
      BY DEF assignment, Name
    <3>2. Assign(n, plain) # Bad
      BY DEF Assign, Bad
    <3> QED
      BY <2>1, <2>5, <3>1, <3>2 DEF generic_visit
  <2>7. r.tmp = count /\ r.names = T /\ r.code = <<Assign(n, plain)>>
    BY <2>6 DEF Visited
  <2> HIDE DEF r, plain
  <2>8. Assigns(D, table, count, st, plain, r)
    BY <1>2, <2>1, <2>3, <2>4, <2>7 DEF Assigns, plain
  <2> QED
    BY <2>8 DEF r, plain
<1>7. CASE ~(x.e = "field" /\ IsStruct(table, x.l.n)) /\ ~(x.e = "name" /\ Known(table, x.n)) /\ x.e # "datetime"
  <2>1. r = generic_visit(table, count, st)
    BY <1>7 DEF visit_Assign
  <2>2. /\ r.tmp = count /\ r.names = table
             /\ \/ /\ Known(table, n)
                   /\ \/ get(table[n]) = Name(get(table[n]).n) /\ r.code = <<Assign(get(table[n]).n, plain)>>
                      \/ get(table[n]) = Cell(get(table[n]).n) /\ r.code = <<Store(get(table[n]).n, plain)>>
                \/ ~Known(table, n) /\ r.code = <<Assign(n, plain)>>
    BY <1>1, <2>1, GenericVisit
  <2> HIDE DEF r
  <2>3. Assigns(D, table, count, st, plain, r)
    BY <1>2, <2>2 DEF Assigns
  <2> QED
    BY <2>3 DEF r
<1> QED
  BY <1>4, <1>5, <1>6, <1>7

(* A visit that raised nothing.                                            *)
VisitOK(D, table, r) ==
  TableOK(D, r.names, r.tmp) /\ Extends(table, r.names) /\ IsCode(D, r.code)

LEMMA AssignsOK ==
  ASSUME NEW d, NEW D, NEW table, NEW count, Created(d, D), TableOK(D, table, count),
         NEW st, IsSourceName(st.n), IsExpression(st.es[1]), NEW y, NEW r, Assigns(D, table, count, st, y, r)
  PROVE  VisitOK(D, table, r)
<1> DEFINE n == st.n
           x == st.es[1]
<1>1. IsValue(D, y) /\ r.tmp = count
  BY DEF Assigns
<1>2. \A g : IsGenerated(D, g) => IsCode(D, <<g>>)
  BY CodeOf
<1>3. Extends(table, table)
  BY DEF Extends
<1>4. CASE Known(table, n)
  <2> DEFINE t == get(table[n])
  <2>1. r.names = table /\ \/ t = Name(t.n) /\ r.code = <<Assign(t.n, y)>>
                           \/ t = Cell(t.n) /\ r.code = <<Store(t.n, y)>>
    BY <1>4 DEF Assigns
  <2>2. IsAtom(D, t)
    BY <1>4, KnownTarget
  <2>3. /\ t = Name(t.n) => t.n \notin ScalarNames(D)
        /\ t = Cell(t.n) => t.n \in ScalarNames(D)
    <3>1. \A k : Name(k).e = "name" /\ Cell(k).e = "cell"
      BY DEF Name, Cell
    <3>2. /\ t = Name(t.n) => t.e = "name"
          /\ t = Cell(t.n) => t.e = "cell"
      BY <3>1
    <3> HIDE DEF t
    <3> QED
      BY <2>2, <3>2 DEF IsAtom
  <2> HIDE DEF t
  <2>4. IsCode(D, r.code)
    BY <1>1, <1>2, <2>1, <2>3 DEF IsGenerated
  <2> QED
    BY <1>1, <1>3, <2>1, <2>4 DEF VisitOK
<1>5. CASE ~Known(table, n)
  <2>1. n \notin ScalarNames(D)
    BY <1>5, VisitName
  <2>2. r.code = <<Assign(n, y)>>
    BY <1>5 DEF Assigns
  <2>3. IsCode(D, r.code)
    BY <1>1, <1>2, <2>1, <2>2 DEF IsGenerated
  <2>4. \/ r.names = table
        \/ \E v : Entry(D, n, v) /\ r.names = With(table, n, v)
    <3>1. \/ r.names = table
          \/ \E v : /\ r.names = With(table, n, v) /\ v.type \in Types /\ v.type.class # "StructType"
                    /\ v = Source("LocalVariableSource", v.type, n, 0, FALSE, Value("none", 0))
          \/ table[x.n] \in D /\ table[x.n].opaque /\ r.names = With(table, n, table[x.n])
      BY <1>5 DEF Assigns
    <3> QED
      BY <3>1 DEF Entry
  <2>5. TableOK(D, r.names, count) /\ Extends(table, r.names)
    <3>1. n \notin DOMAIN table
      BY <1>5 DEF Known
    <3> HIDE DEF n
    <3> QED
      BY <2>4, <3>1, <1>3, WithNew
  <2> QED
    BY <1>1, <2>3, <2>5 DEF VisitOK
<1> QED
  BY <1>4, <1>5

LEMMA VisitFieldStore ==
  ASSUME NEW d, NEW D, NEW table, NEW count, Created(d, D), TableOK(D, table, count),
         NEW st, IsExpression(st.es[1])
  PROVE  LET r == visit_field_store(table, count, st)
         IN  VisitOK(D, table, r) /\ r.ok /\ r.names = table /\ r.code = <<SetField(st.n, visit(table, st.es[1]))>>
<1> DEFINE r == visit_field_store(table, count, st)
           y == visit(table, st.es[1])
<1>1. r.ok /\ r.names = table /\ r.tmp = count /\ r.code = <<SetField(st.n, y)>>
  BY DEF visit_field_store, Visited
<1>2. IsValue(D, y)
  BY Visit
<1> HIDE DEF r, y
<1>3. IsCode(D, r.code)
  BY <1>1, <1>2, CodeOf DEF IsGenerated
<1>4. VisitOK(D, table, r)
  BY <1>1, <1>3 DEF VisitOK, Extends
<1> QED
  BY <1>1, <1>4 DEF r, y

(* Code that writes an output.                                             *)
LEMMA WriteCode ==
  ASSUME NEW d, NEW D, Created(d, D), NEW out \in D, out.source = "OutputSource", NEW x, IsAtom(D, x)
  PROVE  /\ IsCode(D, write(out, x))
         /\ write(out, x) = <<IF Scalar(out) THEN Store(OutputPointer(out.idx), x) ELSE Copy(OutputPointer(out.idx), x),
                              Tick(out.idx)>>
<1> DEFINE n == OutputPointer(out.idx)
           s == IF Scalar(out) THEN Store(n, x) ELSE Copy(n, x)
<1>1. local_variable_name(out) = n /\ (n \in ScalarNames(D) <=> Scalar(out))
  BY LocalNames
<1>2. write(out, x) = <<s, Tick(out.idx)>>
  BY <1>1 DEF write, Scalar
<1>3. IsGenerated(D, s)
  BY <1>1 DEF IsGenerated, IsValue
<1>4. IsGenerated(D, Tick(out.idx))
  BY DEF IsGenerated, Tick
<1> HIDE DEF s
<1>5. <<s, Tick(out.idx)>> = <<s>> \o <<Tick(out.idx)>>
  OBVIOUS
<1>6. IsCode(D, <<s>>) /\ IsCode(D, <<Tick(out.idx)>>)
  BY <1>3, <1>4, CodeOf
<1>7. IsCode(D, <<s, Tick(out.idx)>>)
  BY <1>5, <1>6, CodeOf
<1> QED
  BY <1>2, <1>7 DEF s, n

(* The code that emits x from before a table; f is what from_ast made.     *)
Emits(D, out, x, f, before, stmts) ==
  /\ out \in D /\ out.source = "OutputSource" /\ write_accepts(out, f.var.type)
  /\ stmts = (before \o f.code) \o write(out, get(f.var))

LEMMA VisitSetOutput ==
  ASSUME NEW d, NEW D, NEW table, NEW count, Created(d, D), TableOK(D, table, count),
         NEW st, IsExpression(st.es[1]), visit_set_output(table, count, st).ok
  PROVE  LET r == visit_set_output(table, count, st)
             f == from_ast(table, count, st.es[1])
         IN  /\ VisitOK(D, table, r) /\ r.names = f.names /\ st.es[1] # Nil
             /\ Known(table, st.n) /\ Emits(D, table[st.n], st.es[1], f, <<>>, r.code)
<1> DEFINE r == visit_set_output(table, count, st)
           x == st.es[1]
           f == from_ast(table, count, x)
           out == table[st.n]
<1>1. /\ st.n \in Outputs(table) /\ x # Nil /\ write_accepts(out, f.var.type)
      /\ r = Visited(f.code \o write(out, get(f.var)), f.names, f.tmp)
  BY DEF visit_set_output, Raises
<1>2. r.code = f.code \o write(out, get(f.var)) /\ r.names = f.names /\ r.tmp = f.tmp
  <2> DEFINE c == f.code \o write(out, get(f.var))
  <2> HIDE DEF r, f, c
  <2>1. r = Visited(c, f.names, f.tmp)
    BY <1>1 DEF c
  <2> QED
    BY <2>1 DEF Visited, c
<1>3. Known(table, st.n) /\ out.source = "OutputSource"
  BY <1>1 DEF Outputs, Known
<1>4. out \in D
  BY <1>3, HostEntry DEF Known, HostKinds
<1>5. Computes(D, table, count, x, f)
  BY <1>1, FromAst
<1> HIDE DEF f, r, out, x
<1>6. IsAtom(D, get(f.var)) /\ IsCode(D, f.code) /\ TableOK(D, f.names, f.tmp) /\ Extends(table, f.names)
  BY <1>5 DEF Computes
<1>7. IsCode(D, write(out, get(f.var)))
  BY <1>3, <1>4, <1>6, WriteCode
<1>8. IsCode(D, r.code)
  BY <1>2, <1>6, <1>7, CodeOf
<1>9. <<>> \o f.code = f.code
  BY <1>6 DEF IsCode, IsSequence
<1>10. VisitOK(D, table, r)
  BY <1>2, <1>6, <1>8 DEF VisitOK
<1>11. Emits(D, out, x, f, <<>>, r.code)
  BY <1>1, <1>2, <1>3, <1>4, <1>9 DEF Emits
<1> QED
  BY <1>1, <1>2, <1>3, <1>10, <1>11 DEF f, r, out, x

(* One element of what is returned: None emits nothing.                    *)
Returns(D, acc, i, x, r) ==
  LET f == from_ast(acc.names, acc.tmp, x)
  IN  /\ acc.ok /\ VisitOK(D, acc.names, r) /\ r.names = f.names
      /\ IF x = Nil THEN r.code = acc.code
         ELSE \E out \in D : out.idx = i /\ Emits(D, out, x, f, acc.code, r.code)

LEMMA VisitElement ==
  ASSUME NEW d, NEW D, NEW acc, Created(d, D), TableOK(D, acc.names, acc.tmp), IsCode(D, acc.code),
         NEW i, NEW x, IsExpression(x), visit_element(acc, i, x).ok
  PROVE  Returns(D, acc, i, x, visit_element(acc, i, x))
<1> DEFINE r == visit_element(acc, i, x)
           f == from_ast(acc.names, acc.tmp, x)
           outs == {n \in Outputs(acc.names) : acc.names[n].idx = i}
           out == acc.names[CHOOSE n \in outs : TRUE]
<1>1. acc.ok /\ outs # {}
  BY DEF visit_element, Raises
<1>2. out \in D /\ out.source = "OutputSource" /\ out.idx = i
  <2>1. (CHOOSE n \in outs : TRUE) \in outs
    BY <1>1
  <2>2. \A n \in outs : n \in DOMAIN acc.names /\ acc.names[n].source = "OutputSource" /\ acc.names[n].idx = i
    BY DEF Outputs
  <2>3. \A n \in outs : acc.names[n] \in D
    BY <2>2, HostEntry DEF HostKinds
  <2> QED
    BY <2>1, <2>2, <2>3
<1>3. CASE x = Nil
  <2> DEFINE t == Temporary(acc.tmp)
             v == LocalConstantSource(Unknown, t, Value("none", 0))
  <2>1. f.names = With(acc.names, t, v) /\ f.tmp = acc.tmp + 1
    BY <1>3 DEF from_ast, Nil
  <2>2. r.code = acc.code /\ r.names = f.names /\ r.tmp = f.tmp
    BY <1>1, <1>3 DEF visit_element, Visited
  <2>3. Entry(D, t, v)
    <3>1. acc.tmp \in Nat
      BY DEF TableOK
    <3> QED
      BY <3>1, TemporaryNames DEF Entry, LocalConstantSource, Source
  <2> HIDE DEF v
  <2>4. TableOK(D, With(acc.names, t, v), acc.tmp + 1) /\ Extends(acc.names, With(acc.names, t, v))
    BY <2>3, WithTemporary
  <2> HIDE DEF r, f, t
  <2>5. VisitOK(D, acc.names, r)
    BY <2>1, <2>2, <2>4 DEF VisitOK
  <2> QED
    BY <1>1, <1>3, <2>2, <2>5 DEF Returns, f, r
<1>4. CASE x # Nil
  <2>1. /\ write_accepts(out, f.var.type)
        /\ r = Visited((acc.code \o f.code) \o write(out, get(f.var)), f.names, f.tmp)
    <3>1. r = IF write_accepts(out, f.var.type)
              THEN Visited(acc.code \o f.code \o write(out, get(f.var)), f.names, f.tmp)
              ELSE Raises
      BY <1>1, <1>4 DEF visit_element
    <3> QED
      BY <3>1 DEF Raises
  <2>2. r.code = (acc.code \o f.code) \o write(out, get(f.var)) /\ r.names = f.names /\ r.tmp = f.tmp
    <3> DEFINE c == (acc.code \o f.code) \o write(out, get(f.var))
    <3> HIDE DEF r, f, c
    <3>1. r = Visited(c, f.names, f.tmp)
      BY <2>1 DEF c
    <3> QED
      BY <3>1 DEF Visited, c
  <2>3. Computes(D, acc.names, acc.tmp, x, f)
    BY <1>4, FromAst
  <2> HIDE DEF f, r, out
  <2>4. IsAtom(D, get(f.var)) /\ IsCode(D, f.code) /\ TableOK(D, f.names, f.tmp) /\ Extends(acc.names, f.names)
    BY <2>3 DEF Computes
  <2>5. IsCode(D, write(out, get(f.var)))
    BY <1>2, <2>4, WriteCode
  <2>6. IsCode(D, r.code)
    <3>1. IsCode(D, acc.code \o f.code)
      BY <2>4, CodeOf
    <3> QED
      BY <2>2, <2>5, <3>1, CodeOf
  <2>7. VisitOK(D, acc.names, r)
    BY <2>2, <2>4, <2>6 DEF VisitOK
  <2>8. Emits(D, out, x, f, acc.code, r.code)
    BY <1>2, <2>1, <2>2 DEF Emits
  <2> QED
    BY <1>1, <1>2, <1>4, <2>2, <2>7, <2>8 DEF Returns, f, r
<1> QED
  BY <1>3, <1>4

(* The elements one by one.                                                *)
LEMMA ReturnSteps ==
  ASSUME NEW table, NEW count, NEW st, IsSequence(st.es)
  PROVE  \E f : /\ f[0] = Visited(<<>>, table, count)
                /\ \A i \in 1 .. Len(st.es) : f[i] = visit_element(f[i - 1], i, st.es[i])
                /\ visit_Return(table, count, st) =
                     IF f[Len(st.es)].ok
                     THEN Visited(Append(f[Len(st.es)].code, Return(<<>>)), f[Len(st.es)].names, f[Len(st.es)].tmp)
                     ELSE Raises
<1> DEFINE n == Len(st.es)
           a == Visited(<<>>, table, count)
           S(x, i) == visit_element(x, i, st.es[i])
           P(g, k) == g = [i \in 0 .. k |-> IF i = 0 THEN a ELSE S(g[i - 1], i)]
           A == {k \in Nat : \E g : P(g, k)}
<1>1. n \in Nat
  BY DEF IsSequence
<1>2. visit_Return(table, count, st) =
        LET after == CHOOSE g : P(g, n)
        IN  IF after[n].ok THEN Visited(Append(after[n].code, Return(<<>>)), after[n].names, after[n].tmp) ELSE Raises
  BY DEF visit_Return
<1> HIDE DEF n, a, S
<1>3. 0 \in A
  <2>1. P([i \in 0 .. 0 |-> a], 0)
    OBVIOUS
  <2> QED
    BY <2>1
<1>4. ASSUME NEW k \in Nat, k \in A PROVE k + 1 \in A
  <2>1. PICK g : P(g, k)
    BY <1>4
  <2> DEFINE h == [i \in 0 .. k + 1 |-> IF i <= k THEN g[i] ELSE S(g[k], k + 1)]
  <2>2. h = [i \in 0 .. k + 1 |-> IF i = 0 THEN a ELSE S(h[i - 1], i)]
    <3>1. ASSUME NEW i \in 0 .. k + 1 PROVE h[i] = IF i = 0 THEN a ELSE S(h[i - 1], i)
      <4>1. CASE i <= k
        <5>1. i \in 0 .. k /\ (i # 0 => i - 1 \in 0 .. k + 1 /\ i - 1 <= k)
          BY <4>1
        <5>2. g[i] = IF i = 0 THEN a ELSE S(g[i - 1], i)
          BY <2>1, <5>1
        <5> QED
          BY <4>1, <5>1, <5>2
      <4>2. CASE i = k + 1
        <5>1. i # 0 /\ i - 1 = k /\ k \in 0 .. k + 1 /\ ~(i <= k)
          BY <4>2
        <5>2. h[k] = g[k] /\ h[i] = S(g[k], k + 1)
          BY <5>1
        <5> HIDE DEF h
        <5> QED
          BY <4>2, <5>1, <5>2
      <4> QED
        BY <4>1, <4>2
    <3>2. h = [i \in 0 .. k + 1 |-> h[i]]
      OBVIOUS
    <3> HIDE DEF h
    <3> QED
      BY <3>1, <3>2
  <2> HIDE DEF h
  <2>3. P(h, k + 1)
    BY <2>2
  <2> QED
    BY <2>3
<1>5. \E g : P(g, n)
  <2>1. A \in SUBSET Nat /\ \A k \in Nat : k \in A => k + 1 \in A
    BY <1>4
  <2> HIDE DEF A
  <2>2. A = Nat
    BY <1>3, <2>1, NatSetInduction
  <2> QED
    BY <1>1, <2>2 DEF A
<1> DEFINE f == CHOOSE g : P(g, n)
<1>6. P(f, n)
  BY <1>5
<1> HIDE DEF f
<1>7. f[0] = a /\ \A i \in 1 .. n : f[i] = S(f[i - 1], i)
  <2>1. 0 \in 0 .. n /\ \A i \in 1 .. n : i \in 0 .. n /\ i # 0
    BY <1>1
  <2> QED
    BY <1>6, <2>1
<1>8. visit_Return(table, count, st) = IF f[n].ok THEN Visited(Append(f[n].code, Return(<<>>)), f[n].names, f[n].tmp) ELSE Raises
  BY <1>2 DEF f
<1> QED
  BY <1>7, <1>8 DEF n, a, S

ReturnTrace(D, table, count, es, r, f) ==
  /\ f[0] = Visited(<<>>, table, count)
  /\ \A i \in 1 .. Len(es) : Returns(D, f[i - 1], i, es[i], f[i])
  /\ \A i \in 0 .. Len(es) : VisitOK(D, table, f[i]) /\ Extends(f[i].names, r.names)
  /\ r.code = f[Len(es)].code \o <<Return(<<>>)>>
  /\ r.names = f[Len(es)].names

LEMMA VisitReturn ==
  ASSUME NEW d, NEW D, NEW table, NEW count, Created(d, D), TableOK(D, table, count),
         NEW st, IsSequence(st.es), \A i \in DOMAIN st.es : IsExpression(st.es[i]),
         visit_Return(table, count, st).ok
  PROVE  LET r == visit_Return(table, count, st)
         IN  VisitOK(D, table, r) /\ \E f : ReturnTrace(D, table, count, st.es, r, f)
<1> DEFINE r == visit_Return(table, count, st)
           n == Len(st.es)
<1>1. PICK f : /\ f[0] = Visited(<<>>, table, count)
               /\ \A i \in 1 .. n : f[i] = visit_element(f[i - 1], i, st.es[i])
               /\ r = IF f[n].ok THEN Visited(Append(f[n].code, Return(<<>>)), f[n].names, f[n].tmp) ELSE Raises
  BY ReturnSteps
<1>0. n \in Nat /\ DOMAIN st.es = 1 .. n
  BY DEF IsSequence
<1>2. f[n].ok /\ r = Visited(Append(f[n].code, Return(<<>>)), f[n].names, f[n].tmp)
  <2>1. r.ok
    OBVIOUS
  <2>2. ~Raises.ok
    BY DEF Raises
  <2> HIDE DEF r, n
  <2> QED
    BY <1>1, <2>1, <2>2
<1>00. \A i \in 1 .. n : IsExpression(st.es[i])
  BY <1>0
<1> HIDE DEF r, n
<1>3. \A i \in 0 .. n : f[i].ok
  <2> DEFINE A == {k \in Nat : k <= n => f[n - k].ok}
  <2>1. A \in SUBSET Nat /\ 0 \in A
    BY <1>0, <1>2
  <2>2. ASSUME NEW k \in Nat, k \in A PROVE k + 1 \in A
    <3> SUFFICES ASSUME k + 1 <= n PROVE f[n - (k + 1)].ok
      OBVIOUS
    <3> DEFINE i == n - k
    <3>1. i \in 1 .. n /\ i - 1 = n - (k + 1)
      BY <1>0
    <3>2. f[i].ok
      BY <1>0, <2>2
    <3> HIDE DEF i
    <3>3. visit_element(f[i - 1], i, st.es[i]).ok
      BY <1>1, <3>1, <3>2
    <3>4. f[i - 1].ok
      BY <3>3 DEF visit_element, Raises
    <3> QED
      BY <3>1, <3>4
  <2> HIDE DEF A
  <2>3. A = Nat
    BY <2>1, <2>2, NatSetInduction
  <2>4. ASSUME NEW i \in 0 .. n PROVE f[i].ok
    <3>1. n - i \in Nat /\ n - i <= n /\ n - (n - i) = i
      BY <1>0
    <3>2. n - i \in A
      BY <2>3, <3>1
    <3> QED
      BY <3>1, <3>2 DEF A
  <2> QED
    BY <2>4
<1>4. ASSUME NEW i \in 1 .. n, VisitOK(D, table, f[i - 1])
      PROVE  Returns(D, f[i - 1], i, st.es[i], f[i]) /\ VisitOK(D, table, f[i]) /\ Extends(f[i - 1].names, f[i].names)
  <2>1. TableOK(D, f[i - 1].names, f[i - 1].tmp) /\ IsCode(D, f[i - 1].code) /\ Extends(table, f[i - 1].names)
    BY <1>4 DEF VisitOK
  <2>2. f[i] = visit_element(f[i - 1], i, st.es[i]) /\ IsExpression(st.es[i]) /\ f[i].ok
    <3>1. i \in 0 .. n
      BY <1>0
    <3> QED
      BY <1>00, <1>1, <1>3, <3>1
  <2>3. Returns(D, f[i - 1], i, st.es[i], f[i])
    BY <2>1, <2>2, VisitElement
  <2>4. VisitOK(D, f[i - 1].names, f[i])
    BY <2>3 DEF Returns
  <2>5. VisitOK(D, table, f[i])
    BY <2>1, <2>4, ExtendsIsTransitive DEF VisitOK
  <2> QED
    BY <2>3, <2>4, <2>5 DEF VisitOK
<1>5. \A i \in 0 .. n : VisitOK(D, table, f[i])
  <2> DEFINE A == {k \in Nat : k <= n => VisitOK(D, table, f[k])}
  <2>1. VisitOK(D, table, f[0])
    <3>1. f[0].names = table /\ f[0].tmp = count /\ f[0].code = <<>>
      BY <1>1 DEF Visited
    <3> QED
      BY <3>1, CodeOf DEF VisitOK, Extends
  <2>2. A \in SUBSET Nat /\ 0 \in A
    BY <2>1
  <2>3. ASSUME NEW k \in Nat, k \in A PROVE k + 1 \in A
    <3> SUFFICES ASSUME k + 1 <= n PROVE VisitOK(D, table, f[k + 1])
      OBVIOUS
    <3>1. k + 1 \in 1 .. n /\ (k + 1) - 1 = k /\ VisitOK(D, table, f[k])
      BY <1>0, <2>3
    <3> QED
      BY <3>1, <1>4
  <2> HIDE DEF A
  <2>4. A = Nat
    BY <2>2, <2>3, NatSetInduction
  <2>5. \A i \in 0 .. n : i \in Nat /\ i <= n
    BY <1>0
  <2> QED
    BY <2>4, <2>5 DEF A
<1>6. \A i \in 1 .. n : i - 1 \in 0 .. n
  BY <1>0
<1>7. \A i \in 1 .. n : Returns(D, f[i - 1], i, st.es[i], f[i]) /\ Extends(f[i - 1].names, f[i].names)
  BY <1>4, <1>5, <1>6
<1>8. r.names = f[n].names /\ r.tmp = f[n].tmp /\ r.code = Append(f[n].code, Return(<<>>))
  BY <1>2 DEF Visited
<1>9. \A i \in 0 .. n : Extends(f[i].names, r.names)
  <2> DEFINE A == {k \in Nat : k <= n => Extends(f[n - k].names, r.names)}
  <2>1. Extends(f[n].names, r.names)
    BY <1>8 DEF Extends
  <2>2. A \in SUBSET Nat /\ 0 \in A
    BY <2>1, <1>0
  <2>3. ASSUME NEW k \in Nat, k \in A PROVE k + 1 \in A
    <3> SUFFICES ASSUME k + 1 <= n PROVE Extends(f[n - (k + 1)].names, r.names)
      OBVIOUS
    <3> DEFINE i == n - k
    <3>1. i \in 1 .. n /\ i - 1 = n - (k + 1)
      BY <1>0
    <3>2. Extends(f[i].names, r.names)
      BY <1>0, <2>3
    <3> HIDE DEF i
    <3>3. Extends(f[i - 1].names, r.names)
      BY <1>7, <3>1, <3>2, ExtendsIsTransitive
    <3> QED
      BY <3>1, <3>3
  <2> HIDE DEF A
  <2>4. A = Nat
    BY <2>2, <2>3, NatSetInduction
  <2>5. ASSUME NEW i \in 0 .. n PROVE Extends(f[i].names, r.names)
    <3>1. n - i \in Nat /\ n - i <= n /\ n - (n - i) = i
      BY <1>0
    <3>2. n - i \in A
      BY <2>4, <3>1
    <3> QED
      BY <3>1, <3>2 DEF A
  <2> QED
    BY <2>5
<1>10. n \in 0 .. n
  BY <1>0
<1>11. IsCode(D, f[n].code) /\ TableOK(D, f[n].names, f[n].tmp) /\ Extends(table, f[n].names)
  BY <1>5, <1>10 DEF VisitOK
<1>12. r.code = f[n].code \o <<Return(<<>>)>>
  <2> DEFINE c == f[n].code
             g == Return(<<>>)
  <2> HIDE DEF c, g
  <2>1. c \in Seq({c[i] : i \in 1 .. Len(c)} \cup {g})
    <3>1. IsSequence(c)
      BY <1>11 DEF IsCode, c
    <3>2. c \in [1 .. Len(c) -> {c[i] : i \in 1 .. Len(c)} \cup {g}] /\ Len(c) \in Nat
      BY <3>1 DEF IsSequence
    <3> QED
      BY <3>2, SeqDef
  <2>2. Append(c, g) = c \o <<g>>
    BY <2>1, AppendIsConcat
  <2> QED
    BY <1>8, <2>2 DEF c, g
<1>13. IsCode(D, r.code)
  <2>1. IsGenerated(D, Return(<<>>))
    BY DEF IsGenerated, Return
  <2> QED
    BY <1>11, <1>12, <2>1, CodeOf
<1>14. VisitOK(D, table, r)
  BY <1>8, <1>11, <1>13 DEF VisitOK
<1>15. ReturnTrace(D, table, count, st.es, r, f)
  BY <1>1, <1>5, <1>7, <1>8, <1>9, <1>12 DEF n, ReturnTrace
<1> QED
  BY <1>14, <1>15 DEF r

LEMMA VisitStatementOK ==
  ASSUME NEW d, NEW D, NEW table, NEW count, Created(d, D), TableOK(D, table, count),
         NEW st, IsStatement(st), visit_statement(table, count, st).ok
  PROVE  VisitOK(D, table, visit_statement(table, count, st))
<1>1. IsSequence(st.es) /\ \A i \in DOMAIN st.es : IsExpression(st.es[i])
  BY DEF IsStatement
<1>2. st.s \in {"assign", "field", "output", "return"}
  BY DEF IsStatement
<1>3. st.s # "return" => IsSourceName(st.n) /\ IsExpression(st.es[1])
  BY <1>1 DEF IsStatement, IsSequence
<1>4. CASE st.s = "assign"
  <2>1. visit_statement(table, count, st) = visit_Assign(table, count, st)
    BY <1>4 DEF visit_statement
  <2>2. PICK y : Assigns(D, table, count, st, y, visit_Assign(table, count, st))
    BY <1>4, <2>1, VisitAssign
  <2> QED
    BY <1>3, <1>4, <2>1, <2>2, AssignsOK
<1>5. CASE st.s = "field"
  BY <1>3, <1>5, VisitFieldStore DEF visit_statement
<1>6. CASE st.s = "output"
  <2>1. visit_statement(table, count, st) = visit_set_output(table, count, st)
    BY <1>6 DEF visit_statement
  <2> QED
    BY <1>3, <1>6, <2>1, VisitSetOutput
<1>7. CASE st.s = "return"
  <2>1. visit_statement(table, count, st) = visit_Return(table, count, st)
    BY <1>7 DEF visit_statement
  <2> QED
    BY <1>1, <1>7, <2>1, VisitReturn
<1> QED
  BY <1>2, <1>4, <1>5, <1>6, <1>7

-----------------------------------------------------------------------------
\* The table in every state

Declared == CreatedVariables(node)

(* The declaration was accepted, and the table and the code are what       *)
(* visits made of it; or nothing was begun.                                *)
Accepted ==
  /\ analysed(node) /\ Distinct(created_variables(node))
  /\ TableOK(Declared, names, tmp)
IsSource(stmts) == IsSequence(stmts) /\ \A i \in DOMAIN stmts : IsStatement(stmts[i])
TableInv ==
  /\ node \in Nodes /\ phase \in Bodies \cup {"run", "refused"}
  /\ DOMAIN code = Bodies /\ \A b \in Bodies : IsCode(Declared, code[b])
  /\ DOMAIN source = Bodies /\ \A b \in Bodies : IsSource(source[b])
  /\ Accepted \/ (phase = "refused" /\ names = <<>> /\ tmp = 0 /\ Written = 0)

LEMMA DeclaredVariables ==
  ASSUME node \in Nodes, Accepted
  PROVE  /\ Created(node, Declared)
         /\ \A kind \in HostKinds : Of(names, kind) = {v \in Declared : v.source = kind}
         /\ CellVars = {v \in Declared : v.source # "ConstantSource"}
<1>1. Created(node, Declared)
  BY CreatedFacts DEF Accepted, Declared
<1>2. \A kind \in HostKinds : Of(names, kind) = {v \in Declared : v.source = kind}
  BY <1>1, HostVariables DEF Accepted
<1>3. \A v \in Declared : v.source \in HostKinds
  BY <1>1 DEF Created, IsHostVariable
<1> QED
  BY <1>1, <1>2, <1>3 DEF CellVars, HostKinds

LEMMA AppendToSequence ==
  ASSUME NEW s, IsSequence(s), NEW e
  PROVE  /\ IsSequence(Append(s, e)) /\ Len(Append(s, e)) = Len(s) + 1
         /\ DOMAIN Append(s, e) = 1 .. Len(s) + 1
         /\ \A i \in 1 .. Len(s) : Append(s, e)[i] = s[i]
         /\ Append(s, e)[Len(s) + 1] = e
<1> DEFINE n == Len(s)
           S == {s[i] : i \in 1 .. n} \cup {e}
           a == Append(s, e)
<1>1. n \in Nat /\ s \in [1 .. n -> S]
  BY DEF IsSequence
<1>2. s \in Seq(S)
  <2> HIDE DEF S, n
  <2> QED
    BY <1>1, SeqDef
<1>3. e \in S
  OBVIOUS
<1> HIDE DEF S
<1>4. a \in Seq(S) /\ Len(a) = n + 1 /\ (\A i \in 1 .. n : a[i] = s[i]) /\ a[n + 1] = e
  BY <1>2, <1>3, AppendProperties
<1> HIDE DEF a
<1>5. a \in [1 .. Len(a) -> S]
  BY <1>4, LenProperties
<1>6. IsSequence(a) /\ DOMAIN a = 1 .. n + 1
  BY <1>1, <1>4, <1>5 DEF IsSequence
<1> QED
  BY <1>4, <1>6 DEF a

LEMMA AppendSource ==
  ASSUME NEW s, IsSource(s), NEW st, IsStatement(st)
  PROVE  IsSource(Append(s, st))
<1>1. IsSequence(s)
  BY DEF IsSource
<1>2. DOMAIN s = 1 .. Len(s) /\ Len(s) \in Nat
  BY <1>1 DEF IsSequence
<1>3. ASSUME NEW i \in DOMAIN Append(s, st) PROVE IsStatement(Append(s, st)[i])
  <2>1. i \in 1 .. Len(s) + 1
    BY <1>1, AppendToSequence
  <2>2. CASE i = Len(s) + 1
    BY <1>1, <2>2, AppendToSequence
  <2>3. CASE i # Len(s) + 1
    <3>1. i \in 1 .. Len(s)
      BY <1>2, <2>1, <2>3
    <3> QED
      BY <1>1, <1>2, <3>1, AppendToSequence DEF IsSource
  <2> QED
    BY <2>2, <2>3
<1> QED
  BY <1>1, <1>3, AppendToSequence DEF IsSource

LEMMA TableInit == Init => TableInv
<1> SUFFICES ASSUME Init PROVE TableInv
  OBVIOUS
<1> USE DEF Init
<1>1. node \in Nodes /\ tmp = 0 /\ code = [b \in Bodies |-> <<>>] /\ source = [b \in Bodies |-> <<>>]
  OBVIOUS
<1>2. DOMAIN code = Bodies /\ DOMAIN source = Bodies /\ \A b \in Bodies : IsCode(Declared, code[b]) /\ IsSource(source[b])
  <2>1. IsSource(<<>>)
    BY DEF IsSource, IsSequence
  <2> QED
    BY <1>1, <2>1, CodeOf
<1>3. Written = 0
  BY <1>1 DEF Written, Bodies
<1>4. CASE analysed(node) /\ Distinct(created_variables(node))
  <2>1. phase = "start" /\ names = LET made == created_variables(node)
                                   IN [n \in {made[i].name : i \in DOMAIN made} |->
                                        made[CHOOSE i \in DOMAIN made : made[i].name = n]]
    BY <1>4
  <2>2. TableOK(Declared, names, 0)
    BY <1>1, <1>4, <2>1, InitialTable DEF Declared
  <2> QED
    BY <1>1, <1>2, <1>4, <2>1, <2>2 DEF TableInv, Accepted, Bodies
<1>5. CASE ~(analysed(node) /\ Distinct(created_variables(node)))
  <2>1. phase = "refused" /\ names = <<>>
    BY <1>5
  <2> QED
    BY <1>1, <1>2, <1>3, <2>1 DEF TableInv
<1> QED
  BY <1>4, <1>5

LEMMA BodyNames == Bodies = {"start", "stop", "execute"} /\ "run" \notin Bodies /\ "refused" \notin Bodies
                   /\ \A b \in Bodies : NextBody(b) \in Bodies \cup {"run"}
BY DEF Bodies, NextBody

LEMMA TableStep == TableInv /\ [Next]_vars => TableInv'
<1> SUFFICES ASSUME TableInv, [Next]_vars PROVE TableInv'
  OBVIOUS
<1> USE DEF TableInv
<1>1. ASSUME UNCHANGED <<node, names, tmp, code, source>>, phase' \in Bodies \cup {"run", "refused"},
             phase' = phase \/ phase \in Bodies
      PROVE  TableInv'
  <2>1. Declared' = Declared /\ Written' = Written
    BY <1>1 DEF Declared, Written
  <2>2. Accepted' = Accepted
    BY <1>1, <2>1 DEF Accepted
  <2>3. phase \in Bodies => Accepted
    BY BodyNames
  <2> QED
    BY <1>1, <2>1, <2>2, <2>3
<1>2. ASSUME NEW st \in Statements(node), VisitStatement(st) PROVE TableInv'
  <2> DEFINE r == visit_statement(names, tmp, st)
  <2>1. node' = node /\ Declared' = Declared /\ phase \in Bodies /\ DOMAIN source' = Bodies
    BY <1>2 DEF VisitStatement, Declared
  <2>2. Accepted /\ Created(node, Declared)
    BY <2>1, BodyNames, DeclaredVariables
  <2>3. IsStatement(st)
    BY TranslationAssumption DEF TranslationAssumption
  <2>6. \A b \in Bodies : IsSource(source'[b])
    <3>1. source' = [source EXCEPT ![phase] = Append(@, st)]
      BY <1>2 DEF VisitStatement
    <3>2. IsSource(Append(source[phase], st))
      BY <2>1, <2>3, AppendSource
    <3> QED
      BY <2>1, <3>1, <3>2
  <2>4. CASE r.ok
    <3>1. /\ code' = [code EXCEPT ![phase] = @ \o r.code]
          /\ names' = r.names /\ tmp' = r.tmp /\ phase' = phase
      BY <1>2, <2>4 DEF VisitStatement
    <3>2. VisitOK(Declared, names, r)
      BY <2>2, <2>3, <2>4, VisitStatementOK DEF Accepted
    <3> HIDE DEF r
    <3>3. TableOK(Declared, names', tmp') /\ IsCode(Declared, r.code)
      BY <3>1, <3>2 DEF VisitOK
    <3>4. IsCode(Declared, code[phase] \o r.code)
      BY <2>1, <3>3, CodeOf
    <3>5. DOMAIN code' = Bodies /\ \A b \in Bodies : IsCode(Declared, code'[b])
      BY <2>1, <3>1, <3>4
    <3>6. Accepted'
      BY <2>1, <2>2, <3>3 DEF Accepted
    <3> QED
      BY <2>1, <2>6, <3>1, <3>5, <3>6
  <2>5. CASE ~r.ok
    <3>1. phase' = "refused" /\ UNCHANGED <<code, names, tmp>>
      BY <1>2, <2>5 DEF VisitStatement
    <3>2. Accepted'
      BY <2>1, <2>2, <3>1 DEF Accepted
    <3> QED
      BY <2>1, <2>6, <3>1, <3>2
  <2> QED
    BY <2>4, <2>5
<1>3. CASE EndBody
  <2>1. phase' \in Bodies \cup {"run", "refused"} /\ phase \in Bodies
    BY <1>3, BodyNames DEF EndBody
  <2>2. UNCHANGED <<node, names, tmp, code, source>>
    BY <1>3 DEF EndBody
  <2> QED
    BY <1>1, <2>1, <2>2
<1>4. ASSUME NEW input \in Inputs, Call(input) PROVE TableInv'
  <2>1. UNCHANGED <<node, phase, names, tmp, code, source>>
    BY <1>4 DEF Call
  <2> QED
    BY <1>1, <2>1
<1>5. CASE UNCHANGED vars
  <2>1. UNCHANGED <<node, phase, names, tmp, code, source>>
    BY <1>5 DEF vars
  <2> QED
    BY <1>1, <2>1
<1> QED
  BY <1>2, <1>3, <1>4, <1>5 DEF Next

LEMMA TableHolds == Spec => []TableInv
BY TableInit, TableStep, PTL DEF Spec

(* Slot for slot, the host's storage of the state has the representation   *)
(* that compiled code reads, and the larger slots come first               *)
(* (primitive_support.py:89).                                              *)
THEOREM SlotsAgreeEverywhere == Spec => []SlotsAgree
<1>1. TableInv => SlotsAgree
  <2> SUFFICES ASSUME TableInv, NEW v \in Of(names, "StateSource"), NEW w \in Of(names, "StateSource")
               PROVE  /\ Scalar(v) => resolve_numba_name(v.type.value) = resolve_numba_name(state_values(node)[v.idx].type)
                      /\ v.idx < w.idx => get_type_size(v.type.value) >= get_type_size(w.type.value)
    BY DEF SlotsAgree
  <2>1. CASE Accepted
    <3>1. Created(node, Declared) /\ Of(names, "StateSource") = {u \in Declared : u.source = "StateSource"}
      BY <2>1, DeclaredVariables DEF TableInv, HostKinds
    <3>2. v \in Declared /\ v.source = "StateSource" /\ w \in Declared /\ w.source = "StateSource"
      BY <3>1
    <3>3. IsHostVariable(node, v)
      BY <3>1, <3>2 DEF Created
    <3>4. /\ v.value = state_values(node)[v.idx]
          /\ v.type.class # "StructType" => resolve_numba_name(v.type.value) = resolve_numba_name(v.value.type)
      BY <3>2, <3>3 DEF IsHostVariable
    <3>5. v.idx < w.idx => get_type_size(v.type.value) >= get_type_size(w.type.value)
      BY <3>1, <3>2 DEF Created
    <3> QED
      BY <3>4, <3>5 DEF Scalar
  <2>2. CASE ~Accepted
    <3>1. names = <<>>
      BY <2>2 DEF TableInv
    <3>2. Of(names, "StateSource") = {}
      BY <3>1 DEF Of, Vars
    <3> QED
      BY <3>2
  <2> QED
    BY <2>1, <2>2
<1> QED
  BY <1>1, TableHolds, PTL

-----------------------------------------------------------------------------
\* The machine of compiled code

(* Everything below is about a node whose declaration was accepted.        *)
AcceptedNode == node \in Nodes /\ Accepted

LEMMA CellFacts ==
  ASSUME AcceptedNode, NEW v \in CellVars
  PROVE  /\ CellType(CellOf(v)) = v.type.value
         /\ Scalar(v) <=> CellType(CellOf(v)) \notin Structs
         /\ Scalar(v) => CellType(CellOf(v)) \in Primitives \cup {"datetime"}
         /\ CellType(CellOf(v)) \in Primitives => PythonType(v) = CellType(CellOf(v))
         /\ CellType(CellOf(v)) \in Primitives \cup {"datetime"} => Scalar(v)
         /\ v.source # "ConstantSource" /\ v \in Declared /\ IsHostVariable(node, v)
         /\ \A w \in CellVars : CellOf(v) = CellOf(w) => v = w
<1>1. Created(node, Declared) /\ CellVars = {w \in Declared : w.source # "ConstantSource"}
  BY DeclaredVariables DEF AcceptedNode
<1>2. ASSUME NEW w \in CellVars, CellOf(v) = CellOf(w) PROVE v = w
  <2>1. v.source = w.source /\ v.idx = w.idx
    BY <1>2 DEF CellOf
  <2> QED
    BY <1>1, <2>1 DEF Created
<1>3. (CHOOSE w \in CellVars : CellOf(w) = CellOf(v)) = v
  BY <1>2
<1>4. CellType(CellOf(v)) = v.type.value
  BY <1>3 DEF CellType
<1>5. IsHostVariable(node, v) /\ v \in Declared /\ v.source # "ConstantSource"
  BY <1>1 DEF Created
<1>6. \/ v.type.class = "PrimitiveType" /\ v.type.value \in Primitives
      \/ v.type.class = "DateTimeType" /\ v.type.value = "datetime"
      \/ v.type.class = "StructType" /\ v.type.value \in Structs
  BY <1>5 DEF IsHostVariable, DeclaredTypes, Types
<1>7. "datetime" \notin Primitives /\ "datetime" \notin Structs /\ \A t \in Structs : t \notin Primitives
  BY StructWords DEF Primitives
<1>8. v.type.value \in Primitives => PythonType(v) = v.type.value
  BY <1>7 DEF PythonType
<1> QED
  BY <1>2, <1>4, <1>5, <1>6, <1>7, <1>8 DEF Scalar

LEMMA Conversion ==
  ASSUME NEW type, type \in Primitives \cup {"datetime"}, NEW v
  PROVE  /\ Number(Convert(type, v))
         /\ type \in Primitives => Convert(type, v).type = type
         /\ Convert(type, v).n = IF type = "float" THEN v.n ELSE int(v.n)
         /\ Convert(type, v) = Value(Convert(type, v).type, Convert(type, v).n)
<1>1. CASE type = "int" \/ type = "datetime"
  <2>1. Convert(type, v) = Value("int", int(v.n))
    BY <1>1, NumbaNames DEF Convert
  <2> QED
    BY <1>1, <2>1 DEF Value, Number, Primitives
<1>2. CASE type = "float"
  <2>1. Convert(type, v) = Value("float", v.n)
    BY <1>2, NumbaNames DEF Convert
  <2> QED
    BY <1>2, <2>1 DEF Value, Number, Primitives
<1>3. CASE type = "bool"
  <2>1. Convert(type, v) = Value("bool", int(v.n))
    BY <1>3, NumbaNames DEF Convert
  <2> QED
    BY <1>3, <2>1 DEF Value, Number, Primitives
<1> QED
  BY <1>1, <1>2, <1>3 DEF Primitives

Cells == {CellOf(v) : v \in CellVars}

(* The cells hold numbers, of the type of the cell.                        *)
CellsOK(cells) ==
  /\ DOMAIN cells = Cells
  /\ \A c \in Cells : Number(cells[c]) /\ (CellType(c) \in Primitives => cells[c].type = CellType(c))

StructPointer(p) == \E v \in CellVars : ~Scalar(v) /\ p = Pointer(CellOf(v))
ScalarPointer(p) == \E v \in CellVars : Scalar(v) /\ p = Pointer(CellOf(v))

(* Only the names that are read and written through hold pointers to       *)
(* numbers.                                                                *)
EnvOK(env) ==
  \A n \in DOMAIN env :
    IF n \in ScalarNames(Declared) THEN ScalarPointer(env[n])
                                   ELSE Number(env[n]) \/ StructPointer(env[n])

IsMachine(m) ==
  m = [env |-> m.env, cells |-> m.cells, ticks |-> m.ticks, fault |-> m.fault, done |-> m.done, leaks |-> m.leaks]

MachineOK(m) == IsMachine(m) /\ CellsOK(m.cells) /\ EnvOK(m.env)

LEMMA PointerFacts ==
  ASSUME AcceptedNode, NEW p
  PROVE  /\ StructPointer(p) => p.type = "pointer" /\ p.n \in Cells /\ ToStruct(p) /\ CellType(p.n) \notin Primitives \cup {"datetime"}
                                /\ p = Pointer(p.n) /\ ~Number(p)
         /\ ScalarPointer(p) => p.type = "pointer" /\ p.n \in Cells /\ ~ToStruct(p) /\ CellType(p.n) \in Primitives \cup {"datetime"}
                                /\ p = Pointer(p.n) /\ ~Number(p)
         /\ Number(p) => p.type # "pointer" /\ p.type # "nothing" /\ ~ToStruct(p)
<1>1. "pointer" \notin Primitives /\ "nothing" \notin Primitives
  BY DEF Primitives
<1>2. \A c : Pointer(c).type = "pointer" /\ Pointer(c).n = c
  BY DEF Pointer, Value
<1>3. ASSUME NEW v \in CellVars, p = Pointer(CellOf(v))
      PROVE  p.type = "pointer" /\ p.n = CellOf(v) /\ p.n \in Cells /\ p = Pointer(p.n) /\ ~Number(p)
  BY <1>1, <1>2, <1>3 DEF Cells, Number
<1>4. ASSUME NEW v \in CellVars
      PROVE  /\ Scalar(v) <=> CellType(CellOf(v)) \notin Structs
             /\ Scalar(v) <=> CellType(CellOf(v)) \in Primitives \cup {"datetime"}
  BY CellFacts
<1>5. StructPointer(p) => p.type = "pointer" /\ p.n \in Cells /\ ToStruct(p) /\ CellType(p.n) \notin Primitives \cup {"datetime"}
                                /\ p = Pointer(p.n) /\ ~Number(p)
  BY <1>3, <1>4 DEF StructPointer, ToStruct
<1>6. ScalarPointer(p) => p.type = "pointer" /\ p.n \in Cells /\ ~ToStruct(p) /\ CellType(p.n) \in Primitives \cup {"datetime"}
                                /\ p = Pointer(p.n) /\ ~Number(p)
  BY <1>3, <1>4 DEF ScalarPointer, ToStruct
<1>7. Number(p) => p.type # "pointer" /\ p.type # "nothing" /\ ~ToStruct(p)
  BY <1>1 DEF Number, ToStruct
<1> QED
  BY <1>5, <1>6, <1>7

LEMMA NothingType == Nothing.type = "nothing" /\ ~Number(Nothing) /\ ~ToStruct(Nothing)
BY DEF Nothing, Value, Number, Primitives, ToStruct

(* What a machine holds by a name or in a cell.                            *)
LEMMA AtomOK ==
  ASSUME AcceptedNode, NEW env, NEW cells, EnvOK(env), CellsOK(cells), NEW x, IsAtom(Declared, x)
  PROVE  LET a == Atom(env, cells, x) IN Number(a) \/ StructPointer(a) \/ a = Nothing
<1> DEFINE a == Atom(env, cells, x)
<1>1. x.e \in {"const", "name", "cell", "none"}
  BY DEF IsAtom
<1>2. CASE x.e = "const"
  BY <1>2 DEF Atom, IsAtom
<1>3. CASE x.e = "name"
  <2>1. a = IF Known(env, x.n) THEN env[x.n] ELSE Nothing
    BY <1>3 DEF Atom
  <2>2. x.n \notin ScalarNames(Declared)
    BY <1>3 DEF IsAtom
  <2> QED
    BY <2>1, <2>2 DEF EnvOK, Known
<1>4. CASE x.e = "cell"
  <2>1. a = IF Known(env, x.n) /\ env[x.n].type = "pointer" THEN cells[env[x.n].n] ELSE Nothing
    BY <1>4 DEF Atom
  <2>2. CASE Known(env, x.n)
    <3>1. ScalarPointer(env[x.n])
      BY <1>4, <2>2 DEF IsAtom, EnvOK, Known
    <3>2. env[x.n].n \in Cells
      BY <3>1, PointerFacts
    <3> QED
      BY <2>1, <3>2 DEF CellsOK
  <2>3. CASE ~Known(env, x.n)
    BY <2>1, <2>3
  <2> QED
    BY <2>2, <2>3
<1>5. CASE x.e = "none"
  BY <1>5 DEF Atom
<1> QED
  BY <1>1, <1>2, <1>3, <1>4, <1>5

LEMMA EvalOK ==
  ASSUME AcceptedNode, NEW env, NEW cells, EnvOK(env), CellsOK(cells), NEW x, IsValue(Declared, x)
  PROVE  LET a == Eval(env, cells, x) IN Number(a) \/ StructPointer(a) \/ a = Nothing
<1>1. CASE IsAtom(Declared, x)
  <2>1. Eval(env, cells, x) = Atom(env, cells, x)
    BY <1>1 DEF IsAtom, Eval
  <2> QED
    BY <1>1, <2>1, AtomOK
<1>2. CASE x.e = "field" /\ IsAtom(Declared, x.l)
  <2> DEFINE a == Atom(env, cells, x.l)
  <2>1. Eval(env, cells, x) = IF ToStruct(a) THEN cells[a.n] ELSE Nothing
    BY <1>2 DEF Eval
  <2>2. Number(a) \/ StructPointer(a) \/ a = Nothing
    BY <1>2, AtomOK
  <2> HIDE DEF a
  <2>3. ToStruct(a) => a.n \in Cells
    BY <2>2, PointerFacts, NothingType
  <2> QED
    BY <2>1, <2>3 DEF CellsOK
<1>3. CASE x.e \in {"plus", "less"}
  <2> DEFINE a == Atom(env, cells, x.l)
             b == Atom(env, cells, x.r)
  <2>1. Eval(env, cells, x) = IF ~(Number(a) /\ Number(b)) THEN Nothing
             ELSE IF x.e = "less" THEN Value("bool", IF a.n < b.n THEN 2 ELSE 0)
             ELSE Value(IF "float" \in {a.type, b.type} THEN "float" ELSE "int", a.n + b.n)
    BY <1>3 DEF Eval
  <2> HIDE DEF a, b
  <2>2. \A n : Number(Value("bool", n)) /\ Number(Value("float", n)) /\ Number(Value("int", n))
    BY DEF Number, Value, Primitives
  <2> QED
    BY <2>1, <2>2
<1> QED
  BY <1>1, <1>2, <1>3 DEF IsValue

LEMMA MachineUpdates ==
  ASSUME NEW m, IsMachine(m)
  PROVE  /\ \A e : LET k == [m EXCEPT !.env = e]
                   IN  IsMachine(k) /\ k.env = e /\ k.cells = m.cells /\ k.ticks = m.ticks
                       /\ k.fault = m.fault /\ k.done = m.done /\ k.leaks = m.leaks
         /\ \A e : LET k == [m EXCEPT !.cells = e]
                   IN  IsMachine(k) /\ k.env = m.env /\ k.cells = e /\ k.ticks = m.ticks
                       /\ k.fault = m.fault /\ k.done = m.done /\ k.leaks = m.leaks
         /\ \A e : LET k == [m EXCEPT !.ticks = e]
                   IN  IsMachine(k) /\ k.env = m.env /\ k.cells = m.cells /\ k.ticks = e
                       /\ k.fault = m.fault /\ k.done = m.done /\ k.leaks = m.leaks
         /\ \A e : LET k == [m EXCEPT !.fault = e]
                   IN  IsMachine(k) /\ k.env = m.env /\ k.cells = m.cells /\ k.ticks = m.ticks
                       /\ k.fault = e /\ k.done = m.done /\ k.leaks = m.leaks
         /\ \A e : LET k == [m EXCEPT !.done = e]
                   IN  IsMachine(k) /\ k.env = m.env /\ k.cells = m.cells /\ k.ticks = m.ticks
                       /\ k.fault = m.fault /\ k.done = e /\ k.leaks = m.leaks
BY DEF IsMachine

(* A store keeps the types of the cells.                                   *)
LEMMA StoreOK ==
  ASSUME NEW cells, CellsOK(cells), NEW c, NEW v, Number(v),
         c \in Cells => (CellType(c) \in Primitives => v.type = CellType(c))
  PROVE  CellsOK([cells EXCEPT ![c] = v])
BY DEF CellsOK

(* How a statement changes a machine that runs: v is what it computes and  *)
(* p what its name holds.                                                  *)
Computed(m, st, v, p) ==
  /\ st.es # <<>> /\ v = Eval(m.env, m.cells, st.es[1])
  /\ p = IF Known(m.env, st.n) THEN m.env[st.n] ELSE Nothing
  /\ ~m.done /\ ~m.fault

LEMMA ExecuteAssign ==
  ASSUME NEW m, NEW st, NEW v, NEW p, Computed(m, st, v, p), st.s = "assign"
  PROVE  Execute(m, st) = IF v.type = "nothing" THEN [m EXCEPT !.fault = TRUE]
                                                ELSE [m EXCEPT !.env = With(m.env, st.n, v)]
BY DEF Computed, Execute

LEMMA ExecuteField ==
  ASSUME NEW m, NEW st, NEW v, NEW p, Computed(m, st, v, p), st.s = "field"
  PROVE  Execute(m, st) = IF ~ToStruct(p) \/ ~Number(v) THEN [m EXCEPT !.fault = TRUE]
                          ELSE [m EXCEPT !.cells = [m.cells EXCEPT ![p.n] = Convert("float", v)]]
BY DEF Computed, Execute

LEMMA ExecuteStore ==
  ASSUME NEW m, NEW st, NEW v, NEW p, Computed(m, st, v, p), st.s = "store"
  PROVE  Execute(m, st) = IF p.type # "pointer" \/ ~Number(v) THEN [m EXCEPT !.fault = TRUE]
                          ELSE [m EXCEPT !.cells = [m.cells EXCEPT ![p.n] = Convert(CellType(p.n), v)]]
BY DEF Computed, Execute

LEMMA ExecuteCopy ==
  ASSUME NEW m, NEW st, NEW v, NEW p, Computed(m, st, v, p), st.s = "copy"
  PROVE  Execute(m, st) = IF p.type # "pointer" \/ ~ToStruct(v) THEN [m EXCEPT !.fault = TRUE]
                          ELSE [m EXCEPT !.cells = [m.cells EXCEPT ![p.n] = m.cells[v.n]]]
BY DEF Computed, Execute

LEMMA ExecuteReturn ==
  ASSUME NEW m, NEW st, ~m.done, ~m.fault, st.s = "return"
  PROVE  Execute(m, st) = [m EXCEPT !.done = TRUE]
BY DEF Execute

LEMMA ExecuteTick ==
  ASSUME NEW m, NEW st, ~m.done, ~m.fault, st.s = "tick"
  PROVE  Execute(m, st) = [m EXCEPT !.ticks = m.ticks \cup {st.n}]
BY DEF Execute

LEMMA ExecuteOK ==
  ASSUME AcceptedNode, NEW m, MachineOK(m), NEW st, IsGenerated(Declared, st)
  PROVE  MachineOK(Execute(m, st))
<1>1. IsMachine(m) /\ CellsOK(m.cells) /\ EnvOK(m.env)
  BY DEF MachineOK
<1>2. CASE m.done \/ m.fault
  <2>1. Execute(m, st) = m
    BY <1>2 DEF Execute
  <2> QED
    BY <2>1
<1>3. CASE ~m.done /\ ~m.fault /\ st.s = "return"
  <2>1. Execute(m, st) = [m EXCEPT !.done = TRUE]
    BY <1>3, ExecuteReturn
  <2> QED
    BY <1>1, <2>1, MachineUpdates DEF MachineOK
<1>4. CASE ~m.done /\ ~m.fault /\ st.s = "tick"
  <2>1. Execute(m, st) = [m EXCEPT !.ticks = m.ticks \cup {st.n}]
    BY <1>4, ExecuteTick
  <2> QED
    BY <1>1, <2>1, MachineUpdates DEF MachineOK
<1>5. CASE ~m.done /\ ~m.fault /\ st.s \notin {"return", "tick"}
  <2>1. /\ st.es # <<>> /\ IsValue(Declared, st.es[1])
        /\ \/ st.s = "assign" /\ st.n \notin ScalarNames(Declared)
           \/ st.s = "field"
           \/ st.s = "store" /\ st.n \in ScalarNames(Declared)
           \/ st.s = "copy" /\ st.n \notin ScalarNames(Declared)
    BY <1>5 DEF IsGenerated, Assign, SetField, Store, Copy
  <2>2. PICK v, p : v = Eval(m.env, m.cells, st.es[1]) /\ p = IF Known(m.env, st.n) THEN m.env[st.n] ELSE Nothing
    OBVIOUS
  <2>3. Computed(m, st, v, p)
    BY <1>5, <2>1, <2>2 DEF Computed
  <2>4. Number(v) \/ StructPointer(v) \/ v = Nothing
    BY <1>1, <2>1, <2>2, EvalOK
  <2> DEFINE fault == [m EXCEPT !.fault = TRUE]
  <2>5. MachineOK(fault)
    BY <1>1, MachineUpdates DEF MachineOK
  <2>6. p = Nothing \/ (Known(m.env, st.n) /\ p = m.env[st.n])
    BY <2>2
  <2>7. CASE st.s = "assign"
    <3>1. ASSUME v.type # "nothing" PROVE MachineOK([m EXCEPT !.env = With(m.env, st.n, v)])
      <4>1. Number(v) \/ StructPointer(v)
        BY <2>4, <3>1, NothingType
      <4>2. EnvOK(With(m.env, st.n, v))
        BY <1>1, <2>1, <2>7, <4>1 DEF EnvOK, With
      <4> QED
        BY <1>1, <4>2, MachineUpdates DEF MachineOK
    <3>2. Execute(m, st) = IF v.type = "nothing" THEN fault ELSE [m EXCEPT !.env = With(m.env, st.n, v)]
      BY <2>3, <2>7, ExecuteAssign
    <3> HIDE DEF fault
    <3> QED
      BY <2>5, <3>1, <3>2
  <2>8. CASE st.s = "field"
    <3>1. ASSUME ToStruct(p), Number(v)
          PROVE  MachineOK([m EXCEPT !.cells = [m.cells EXCEPT ![p.n] = Convert("float", v)]])
      <4>1. Number(Convert("float", v))
        BY Conversion DEF Primitives
      <4>2. Number(p) \/ StructPointer(p) \/ ScalarPointer(p) \/ p = Nothing
        BY <1>1, <2>6 DEF EnvOK, Known
      <4>3. CellType(p.n) \notin Primitives
        BY <3>1, <4>2, PointerFacts, NothingType
      <4>4. CellsOK([m.cells EXCEPT ![p.n] = Convert("float", v)])
        BY <1>1, <4>1, <4>3, StoreOK
      <4> QED
        BY <1>1, <4>4, MachineUpdates DEF MachineOK
    <3>2. Execute(m, st) = IF ~ToStruct(p) \/ ~Number(v) THEN fault
                           ELSE [m EXCEPT !.cells = [m.cells EXCEPT ![p.n] = Convert("float", v)]]
      BY <2>3, <2>8, ExecuteField
    <3> HIDE DEF fault
    <3> QED
      BY <2>5, <3>1, <3>2
  <2>9. CASE st.s = "store"
    <3>1. ASSUME p.type = "pointer", Number(v)
          PROVE  MachineOK([m EXCEPT !.cells = [m.cells EXCEPT ![p.n] = Convert(CellType(p.n), v)]])
      <4>1. ScalarPointer(p)
        BY <1>1, <2>1, <2>6, <2>9, <3>1, NothingType DEF EnvOK, Known
      <4>2. CellType(p.n) \in Primitives \cup {"datetime"}
        BY <4>1, PointerFacts
      <4>3. /\ Number(Convert(CellType(p.n), v))
            /\ CellType(p.n) \in Primitives => Convert(CellType(p.n), v).type = CellType(p.n)
        BY <4>2, Conversion
      <4>4. CellsOK([m.cells EXCEPT ![p.n] = Convert(CellType(p.n), v)])
        BY <1>1, <4>3, StoreOK
      <4> QED
        BY <1>1, <4>4, MachineUpdates DEF MachineOK
    <3>2. Execute(m, st) = IF p.type # "pointer" \/ ~Number(v) THEN fault
                           ELSE [m EXCEPT !.cells = [m.cells EXCEPT ![p.n] = Convert(CellType(p.n), v)]]
      BY <2>3, <2>9, ExecuteStore
    <3> HIDE DEF fault
    <3> QED
      BY <2>5, <3>1, <3>2
  <2>10. CASE st.s = "copy"
    <3>1. ASSUME p.type = "pointer", ToStruct(v)
          PROVE  MachineOK([m EXCEPT !.cells = [m.cells EXCEPT ![p.n] = m.cells[v.n]]])
      <4>1. Number(p) \/ StructPointer(p)
        BY <1>1, <2>1, <2>6, <2>10, <3>1, NothingType DEF EnvOK, Known
      <4>2. CellType(p.n) \notin Primitives
        BY <3>1, <4>1, PointerFacts
      <4>3. v.n \in Cells
        BY <2>4, <3>1, PointerFacts, NothingType
      <4>4. Number(m.cells[v.n])
        BY <1>1, <4>3 DEF CellsOK
      <4>5. CellsOK([m.cells EXCEPT ![p.n] = m.cells[v.n]])
        BY <1>1, <4>2, <4>4, StoreOK
      <4> QED
        BY <1>1, <4>5, MachineUpdates DEF MachineOK
    <3>2. Execute(m, st) = IF p.type # "pointer" \/ ~ToStruct(v) THEN fault
                           ELSE [m EXCEPT !.cells = [m.cells EXCEPT ![p.n] = m.cells[v.n]]]
      BY <2>3, <2>10, ExecuteCopy
    <3> HIDE DEF fault
    <3> QED
      BY <2>5, <3>1, <3>2
  <2> QED
    BY <2>1, <2>7, <2>8, <2>9, <2>10
<1> QED
  BY <1>2, <1>3, <1>4, <1>5

(* The run of several statements, one by one.                              *)
LEMMA ExecutionSteps ==
  ASSUME NEW m, NEW stmts, Len(stmts) \in Nat
  PROVE  \E f : /\ f[0] = m
                /\ \A i \in 1 .. Len(stmts) : f[i] = Execute(f[i - 1], stmts[i])
                /\ Execution(m, stmts) = f[Len(stmts)]
<1> DEFINE n == Len(stmts)
           S(x, i) == Execute(x, stmts[i])
           P(g, k) == g = [i \in 0 .. k |-> IF i = 0 THEN m ELSE S(g[i - 1], i)]
           A == {k \in Nat : \E g : P(g, k)}
<1>2. Execution(m, stmts) = (CHOOSE g : P(g, n))[n]
  BY DEF Execution
<1>1. n \in Nat
  OBVIOUS
<1> HIDE DEF n, S
<1>3. 0 \in A
  <2>1. P([i \in 0 .. 0 |-> m], 0)
    OBVIOUS
  <2> QED
    BY <2>1
<1>4. ASSUME NEW k \in Nat, k \in A PROVE k + 1 \in A
  <2>1. PICK g : P(g, k)
    BY <1>4
  <2> DEFINE h == [i \in 0 .. k + 1 |-> IF i <= k THEN g[i] ELSE S(g[k], k + 1)]
  <2>2. h = [i \in 0 .. k + 1 |-> IF i = 0 THEN m ELSE S(h[i - 1], i)]
    <3>1. ASSUME NEW i \in 0 .. k + 1 PROVE h[i] = IF i = 0 THEN m ELSE S(h[i - 1], i)
      <4>1. CASE i <= k
        <5>1. i \in 0 .. k /\ (i # 0 => i - 1 \in 0 .. k + 1 /\ i - 1 <= k)
          BY <4>1
        <5>2. g[i] = IF i = 0 THEN m ELSE S(g[i - 1], i)
          BY <2>1, <5>1
        <5> QED
          BY <4>1, <5>1, <5>2
      <4>2. CASE i = k + 1
        <5>1. i # 0 /\ i - 1 = k /\ k \in 0 .. k + 1 /\ ~(i <= k)
          BY <4>2
        <5>2. h[k] = g[k] /\ h[i] = S(g[k], k + 1)
          BY <5>1
        <5> HIDE DEF h
        <5> QED
          BY <4>2, <5>1, <5>2
      <4> QED
        BY <4>1, <4>2
    <3>2. h = [i \in 0 .. k + 1 |-> h[i]]
      OBVIOUS
    <3> HIDE DEF h
    <3> QED
      BY <3>1, <3>2
  <2> HIDE DEF h
  <2>3. P(h, k + 1)
    BY <2>2
  <2> QED
    BY <2>3
<1>5. \E g : P(g, n)
  <2>1. A \in SUBSET Nat /\ \A k \in Nat : k \in A => k + 1 \in A
    BY <1>4
  <2> HIDE DEF A
  <2>2. A = Nat
    BY <1>3, <2>1, NatSetInduction
  <2> QED
    BY <1>1, <2>2 DEF A
<1> DEFINE f == CHOOSE g : P(g, n)
<1>6. P(f, n)
  BY <1>5
<1> HIDE DEF f
<1>7. f[0] = m /\ \A i \in 1 .. n : f[i] = S(f[i - 1], i)
  <2>1. 0 \in 0 .. n /\ \A i \in 1 .. n : i \in 0 .. n /\ i # 0
    BY <1>1
  <2> QED
    BY <1>6, <2>1
<1>8. Execution(m, stmts) = f[n]
  BY <1>2 DEF f
<1> QED
  BY <1>7, <1>8 DEF n, S

LEMMA ExecutionOK ==
  ASSUME AcceptedNode, NEW m, MachineOK(m), NEW stmts, IsCode(Declared, stmts)
  PROVE  MachineOK(Execution(m, stmts))
<1> DEFINE n == Len(stmts)
<1>1. n \in Nat /\ DOMAIN stmts = 1 .. n
  BY DEF IsCode, IsSequence
<1>2. PICK f : /\ f[0] = m
               /\ \A i \in 1 .. n : f[i] = Execute(f[i - 1], stmts[i])
               /\ Execution(m, stmts) = f[n]
  BY <1>1, ExecutionSteps
<1>3. \A i \in 1 .. n : IsGenerated(Declared, stmts[i])
  BY <1>1 DEF IsCode
<1> HIDE DEF n
<1> DEFINE A == {k \in Nat : k <= n => MachineOK(f[k])}
<1>4. A \in SUBSET Nat /\ 0 \in A
  BY <1>2
<1>5. ASSUME NEW k \in Nat, k \in A PROVE k + 1 \in A
  <2> SUFFICES ASSUME k + 1 <= n PROVE MachineOK(f[k + 1])
    OBVIOUS
  <2>1. k + 1 \in 1 .. n /\ (k + 1) - 1 = k /\ MachineOK(f[k])
    BY <1>1, <1>5
  <2>2. f[k + 1] = Execute(f[k], stmts[k + 1])
    BY <1>2, <2>1
  <2> QED
    BY <1>3, <2>1, <2>2, ExecuteOK
<1> HIDE DEF A
<1>6. A = Nat
  BY <1>4, <1>5, NatSetInduction
<1> QED
  BY <1>1, <1>2, <1>6 DEF A

(* What the host allocates, and what it feeds.                             *)
LEMMA StoredOK ==
  ASSUME AcceptedNode, NEW c \in Cells, NEW n
  PROVE  LET v == Stored(c, Value("float", n))
         IN  Number(v) /\ (CellType(c) \in Primitives => v.type = CellType(c))
<1>1. Value("float", n).type = "float" /\ Number(Value("float", n))
  BY DEF Number, Value, Primitives
<1>2. PICK w \in CellVars : c = CellOf(w)
  BY DEF Cells
<1>3. CellType(c) \notin Structs => CellType(c) \in Primitives \cup {"datetime"}
  BY <1>2, CellFacts
<1>4. CellType(c) \in Structs => CellType(c) \notin Primitives
  BY StructWords
<1> QED
  BY <1>1, <1>3, <1>4, Conversion DEF Stored

LEMMA HostCellsOK ==
  ASSUME AcceptedNode
  PROVE  CellsOK(HostCells)
<1>1. Created(node, Declared) /\ CellVars = {v \in Declared : v.source # "ConstantSource"}
  BY DeclaredVariables DEF AcceptedNode
<1>3. DOMAIN HostCells = Cells
  BY DEF HostCells, Cells
<1>4. ASSUME NEW c \in Cells
      PROVE  Number(HostCells[c]) /\ (CellType(c) \in Primitives => HostCells[c].type = CellType(c))
  <2>1. PICK v \in CellVars : c = CellOf(v)
    BY DEF Cells
  <2>2. HostCells[c] = IF c[1] = "StateSource" THEN state_values(node)[c[2]]
                       ELSE Stored(c, Value("float", 0))
    BY DEF HostCells, Cells
  <2>3. c[1] = v.source /\ c[2] = v.idx
    BY <2>1 DEF CellOf
  <2>4. CASE v.source = "StateSource"
    <3>1. HostCells[c] = v.value /\ IsNumber(v.value)
          /\ v.value.type = IF v.type.class = "StructType" THEN "float" ELSE PythonType(v)
      BY <1>1, <2>2, <2>3, <2>4 DEF Created, IsHostVariable
    <3>2. /\ Scalar(v) => CellType(c) \in Primitives \cup {"datetime"}
          /\ CellType(c) \in Primitives => Scalar(v) /\ PythonType(v) = CellType(c)
          /\ CellType(c) = v.type.value
      BY <2>1, CellFacts
    <3>3. PythonType(v) = IF v.type.value = "datetime" THEN "int" ELSE v.type.value
      BY DEF PythonType
    <3>4. v.value.type \in Primitives
      BY <3>1, <3>2, <3>3 DEF Scalar, Primitives
    <3> QED
      BY <3>1, <3>2, <3>4 DEF Number, Scalar
  <2>5. CASE v.source # "StateSource"
    <3>1. LET w == Stored(c, Value("float", 0))
          IN  Number(w) /\ (CellType(c) \in Primitives => w.type = CellType(c))
      BY StoredOK
    <3> QED
      BY <2>2, <2>3, <2>5, <3>1
  <2> QED
    BY <2>4, <2>5
<1> QED
  BY <1>3, <1>4 DEF CellsOK

fed(cells, input) ==
  [c \in DOMAIN cells |-> IF c[1] = "InputSource" THEN Stored(c, Value("float", input)) ELSE cells[c]]

LEMMA FedOK ==
  ASSUME AcceptedNode, NEW cells, CellsOK(cells), NEW input
  PROVE  CellsOK(fed(cells, input))
BY StoredOK DEF fed, CellsOK

(* A phase starts with pointers to its cells, and the constants.           *)
LEMMA EnvironmentValues ==
  ASSUME AcceptedNode, NEW body
  PROVE  LET V == init_filter(body) \cup Of(names, "ConstantSource")
         IN  /\ V \subseteq Declared
             /\ DOMAIN Environment(body) = {local_variable_name(v) : v \in V}
             /\ \A v \in V : Environment(body)[local_variable_name(v)] =
                  IF v.source = "ConstantSource" THEN v.value ELSE Pointer(CellOf(v))
<1> DEFINE V == init_filter(body) \cup Of(names, "ConstantSource")
<1>1. Created(node, Declared) /\ \A kind \in HostKinds : Of(names, kind) = {v \in Declared : v.source = kind}
  BY DeclaredVariables DEF AcceptedNode
<1>2. V \subseteq Declared
  BY <1>1 DEF init_filter, HostKinds
<1>3. \A v, w \in V : local_variable_name(v) = local_variable_name(w) => v = w
  BY <1>1, <1>2, LocalNames
<1>4. Environment(body) = [n \in {local_variable_name(v) : v \in V} |->
     LET v == CHOOSE v \in V : local_variable_name(v) = n
     IN  IF v.source = "ConstantSource" THEN v.value ELSE Pointer(CellOf(v))]
  BY DEF Environment
<1> HIDE DEF V
<1>5. ASSUME NEW v \in V
      PROVE  Environment(body)[local_variable_name(v)] =
               IF v.source = "ConstantSource" THEN v.value ELSE Pointer(CellOf(v))
  <2>1. (CHOOSE w \in V : local_variable_name(w) = local_variable_name(v)) = v
    BY <1>3
  <2> QED
    BY <1>4, <2>1
<1> QED
  BY <1>2, <1>4, <1>5 DEF V

LEMMA EnvironmentOK ==
  ASSUME AcceptedNode, NEW body
  PROVE  EnvOK(Environment(body))
<1> DEFINE V == init_filter(body) \cup Of(names, "ConstantSource")
<1>1. /\ V \subseteq Declared
      /\ DOMAIN Environment(body) = {local_variable_name(v) : v \in V}
      /\ \A v \in V : Environment(body)[local_variable_name(v)] =
           IF v.source = "ConstantSource" THEN v.value ELSE Pointer(CellOf(v))
  BY EnvironmentValues
<1> HIDE DEF V
<1>2. Created(node, Declared) /\ CellVars = {v \in Declared : v.source # "ConstantSource"}
  BY DeclaredVariables DEF AcceptedNode
<1>3. ASSUME NEW v \in V
      PROVE  LET n == local_variable_name(v)
             IN  IF n \in ScalarNames(Declared) THEN ScalarPointer(Environment(body)[n])
                 ELSE Number(Environment(body)[n]) \/ StructPointer(Environment(body)[n])
  <2>1. v \in Declared
    BY <1>1
  <2>2. local_variable_name(v) \in ScalarNames(Declared) <=> v.source # "ConstantSource" /\ Scalar(v)
    BY <1>2, <2>1, LocalNames
  <2>3. CASE v.source = "ConstantSource"
    <3>1. Number(v.value)
      BY <1>2, <2>1, <2>3 DEF Created, IsHostVariable
    <3> QED
      BY <1>1, <2>2, <2>3, <3>1
  <2>4. CASE v.source # "ConstantSource"
    <3>1. v \in CellVars
      BY <1>2, <2>1, <2>4
    <3>2. Environment(body)[local_variable_name(v)] = Pointer(CellOf(v))
      BY <1>1, <2>4
    <3>3. Scalar(v) => ScalarPointer(Pointer(CellOf(v)))
      BY <3>1 DEF ScalarPointer
    <3>4. ~Scalar(v) => StructPointer(Pointer(CellOf(v)))
      BY <3>1 DEF StructPointer
    <3> QED
      BY <2>2, <2>4, <3>2, <3>3, <3>4
  <2> QED
    BY <2>3, <2>4
<1> QED
  BY <1>1, <1>3 DEF EnvOK

(* Python's machine stays a machine.                                       *)
LEMMA EmitMachine ==
  ASSUME NEW m, IsMachine(m), NEW i, NEW x
  PROVE  IsMachine(Emit(m, i, x))
BY DEF Emit, IsMachine

LEMMA PythonReturnSteps ==
  ASSUME NEW m, NEW xs, Len(xs) \in Nat
  PROVE  \E f : /\ f[0] = m
                /\ \A i \in 1 .. Len(xs) : f[i] = Emit(f[i - 1], i, xs[i])
                /\ PythonReturn(m, xs) = [f[Len(xs)] EXCEPT !.done = TRUE]
<1> DEFINE n == Len(xs)
           S(x, i) == Emit(x, i, xs[i])
           P(g, k) == g = [i \in 0 .. k |-> IF i = 0 THEN m ELSE S(g[i - 1], i)]
           A == {k \in Nat : \E g : P(g, k)}
<1>2. PythonReturn(m, xs) = [(CHOOSE g : P(g, n))[n] EXCEPT !.done = TRUE]
  BY DEF PythonReturn
<1>1. n \in Nat
  OBVIOUS
<1> HIDE DEF n, S
<1>3. 0 \in A
  <2>1. P([i \in 0 .. 0 |-> m], 0)
    OBVIOUS
  <2> QED
    BY <2>1
<1>4. ASSUME NEW k \in Nat, k \in A PROVE k + 1 \in A
  <2>1. PICK g : P(g, k)
    BY <1>4
  <2> DEFINE h == [i \in 0 .. k + 1 |-> IF i <= k THEN g[i] ELSE S(g[k], k + 1)]
  <2>2. h = [i \in 0 .. k + 1 |-> IF i = 0 THEN m ELSE S(h[i - 1], i)]
    <3>1. ASSUME NEW i \in 0 .. k + 1 PROVE h[i] = IF i = 0 THEN m ELSE S(h[i - 1], i)
      <4>1. CASE i <= k
        <5>1. i \in 0 .. k /\ (i # 0 => i - 1 \in 0 .. k + 1 /\ i - 1 <= k)
          BY <4>1
        <5>2. g[i] = IF i = 0 THEN m ELSE S(g[i - 1], i)
          BY <2>1, <5>1
        <5> QED
          BY <4>1, <5>1, <5>2
      <4>2. CASE i = k + 1
        <5>1. i # 0 /\ i - 1 = k /\ k \in 0 .. k + 1 /\ ~(i <= k)
          BY <4>2
        <5>2. h[k] = g[k] /\ h[i] = S(g[k], k + 1)
          BY <5>1
        <5> HIDE DEF h
        <5> QED
          BY <4>2, <5>1, <5>2
      <4> QED
        BY <4>1, <4>2
    <3>2. h = [i \in 0 .. k + 1 |-> h[i]]
      OBVIOUS
    <3> HIDE DEF h
    <3> QED
      BY <3>1, <3>2
  <2> HIDE DEF h
  <2>3. P(h, k + 1)
    BY <2>2
  <2> QED
    BY <2>3
<1>5. \E g : P(g, n)
  <2>1. A \in SUBSET Nat /\ \A k \in Nat : k \in A => k + 1 \in A
    BY <1>4
  <2> HIDE DEF A
  <2>2. A = Nat
    BY <1>3, <2>1, NatSetInduction
  <2> QED
    BY <1>1, <2>2 DEF A
<1> DEFINE f == CHOOSE g : P(g, n)
<1>6. P(f, n)
  BY <1>5
<1> HIDE DEF f
<1>7. f[0] = m /\ \A i \in 1 .. n : f[i] = S(f[i - 1], i)
  <2>1. 0 \in 0 .. n /\ \A i \in 1 .. n : i \in 0 .. n /\ i # 0
    BY <1>1
  <2> QED
    BY <1>6, <2>1
<1>8. PythonReturn(m, xs) = [f[n] EXCEPT !.done = TRUE]
  BY <1>2 DEF f
<1> QED
  BY <1>7, <1>8 DEF n, S

(* A call in Python begins with its names, and leaves the state's values.  *)
Begun(was) == [was EXCEPT !.env = PythonEnvironment(was.cells), !.ticks = {}, !.done = FALSE]
StateAt(c) == CHOOSE v \in Of(names, "StateSource") : CellOf(v) = c
Left(was, m) ==
  [m EXCEPT !.env = <<>>,
            !.cells = [c \in DOMAIN was.cells |->
                         IF c[1] = "StateSource" THEN Contents(m, m.env[StateAt(c).name]) ELSE m.cells[c]]]

LEMMA PythonRunSteps ==
  ASSUME NEW stmts, NEW was, Len(stmts) \in Nat
  PROVE  \E f : /\ f[0] = Begun(was)
                /\ \A i \in 1 .. Len(stmts) : f[i] = PythonExecute(f[i - 1], stmts[i])
                /\ PythonRun(stmts, was) = Left(was, f[Len(stmts)])
<1> DEFINE n == Len(stmts)
           S(x, i) == PythonExecute(x, stmts[i])
           P(g, k) == g = [i \in 0 .. k |-> IF i = 0 THEN Begun(was) ELSE S(g[i - 1], i)]
           A == {k \in Nat : \E g : P(g, k)}
<1>2. PythonRun(stmts, was) = Left(was, (CHOOSE g : P(g, n))[n])
  BY DEF PythonRun, Begun, Left, StateAt
<1>1. n \in Nat
  OBVIOUS
<1> HIDE DEF n, S
<1>3. 0 \in A
  <2>1. P([i \in 0 .. 0 |-> Begun(was)], 0)
    OBVIOUS
  <2> QED
    BY <2>1
<1>4. ASSUME NEW k \in Nat, k \in A PROVE k + 1 \in A
  <2>1. PICK g : P(g, k)
    BY <1>4
  <2> DEFINE h == [i \in 0 .. k + 1 |-> IF i <= k THEN g[i] ELSE S(g[k], k + 1)]
  <2>2. h = [i \in 0 .. k + 1 |-> IF i = 0 THEN Begun(was) ELSE S(h[i - 1], i)]
    <3>1. ASSUME NEW i \in 0 .. k + 1 PROVE h[i] = IF i = 0 THEN Begun(was) ELSE S(h[i - 1], i)
      <4>1. CASE i <= k
        <5>1. i \in 0 .. k /\ (i # 0 => i - 1 \in 0 .. k + 1 /\ i - 1 <= k)
          BY <4>1
        <5>2. g[i] = IF i = 0 THEN Begun(was) ELSE S(g[i - 1], i)
          BY <2>1, <5>1
        <5> QED
          BY <4>1, <5>1, <5>2
      <4>2. CASE i = k + 1
        <5>1. i # 0 /\ i - 1 = k /\ k \in 0 .. k + 1 /\ ~(i <= k)
          BY <4>2
        <5>2. h[k] = g[k] /\ h[i] = S(g[k], k + 1)
          BY <5>1
        <5> HIDE DEF h
        <5> QED
          BY <4>2, <5>1, <5>2
      <4> QED
        BY <4>1, <4>2
    <3>2. h = [i \in 0 .. k + 1 |-> h[i]]
      OBVIOUS
    <3> HIDE DEF h
    <3> QED
      BY <3>1, <3>2
  <2> HIDE DEF h
  <2>3. P(h, k + 1)
    BY <2>2
  <2> QED
    BY <2>3
<1>5. \E g : P(g, n)
  <2>1. A \in SUBSET Nat /\ \A k \in Nat : k \in A => k + 1 \in A
    BY <1>4
  <2> HIDE DEF A
  <2>2. A = Nat
    BY <1>3, <2>1, NatSetInduction
  <2> QED
    BY <1>1, <2>2 DEF A
<1> DEFINE f == CHOOSE g : P(g, n)
<1>6. P(f, n)
  BY <1>5
<1> HIDE DEF f
<1>7. f[0] = Begun(was) /\ \A i \in 1 .. n : f[i] = S(f[i - 1], i)
  <2>1. 0 \in 0 .. n /\ \A i \in 1 .. n : i \in 0 .. n /\ i # 0
    BY <1>1
  <2> QED
    BY <1>6, <2>1
<1>8. PythonRun(stmts, was) = Left(was, f[n])
  BY <1>2 DEF f
<1> QED
  BY <1>7, <1>8 DEF n, S

LEMMA PythonExecuteMachine ==
  ASSUME NEW m, IsMachine(m), NEW st, IsStatement(st)
  PROVE  IsMachine(PythonExecute(m, st))
<1>1. CASE m.done \/ m.fault
  BY <1>1 DEF PythonExecute
<1>2. CASE ~m.done /\ ~m.fault /\ st.s = "assign"
  BY <1>2 DEF PythonExecute, IsMachine
<1>3. CASE ~m.done /\ ~m.fault /\ st.s = "field"
  BY <1>3 DEF PythonExecute, IsMachine
<1>4. CASE ~m.done /\ ~m.fault /\ st.s = "output"
  <2>1. PythonExecute(m, st) = Emit(m, names[st.n].idx, st.es[1])
    BY <1>4 DEF PythonExecute
  <2> QED
    BY <2>1, EmitMachine
<1>5. CASE ~m.done /\ ~m.fault /\ st.s = "return"
  <2>1. PythonExecute(m, st) = PythonReturn(m, st.es)
    BY <1>5 DEF PythonExecute
  <2>2. Len(st.es) \in Nat
    BY DEF IsStatement, IsSequence
  <2> DEFINE n == Len(st.es)
  <2>3. PICK f : /\ f[0] = m
                 /\ \A i \in 1 .. n : f[i] = Emit(f[i - 1], i, st.es[i])
                 /\ PythonReturn(m, st.es) = [f[n] EXCEPT !.done = TRUE]
    BY <2>2, PythonReturnSteps
  <2> HIDE DEF n
  <2> DEFINE A == {k \in Nat : k <= n => IsMachine(f[k])}
  <2>4. A \in SUBSET Nat /\ 0 \in A
    BY <2>3
  <2>5. ASSUME NEW k \in Nat, k \in A PROVE k + 1 \in A
    <3> SUFFICES ASSUME k + 1 <= n PROVE IsMachine(f[k + 1])
      OBVIOUS
    <3>1. k + 1 \in 1 .. n /\ (k + 1) - 1 = k /\ IsMachine(f[k])
      BY <2>2, <2>5 DEF n
    <3> QED
      BY <2>3, <3>1, EmitMachine
  <2> HIDE DEF A
  <2>6. A = Nat
    BY <2>4, <2>5, NatSetInduction
  <2>7. IsMachine(f[n])
    BY <2>2, <2>6 DEF A, n
  <2> QED
    BY <2>1, <2>3, <2>7 DEF IsMachine
<1> QED
  BY <1>1, <1>2, <1>3, <1>4, <1>5 DEF IsStatement

LEMMA BegunMachine ==
  ASSUME NEW was, IsMachine(was)
  PROVE  LET m == Begun(was)
         IN  /\ IsMachine(m) /\ m.env = PythonEnvironment(was.cells) /\ m.ticks = {} /\ m.done = FALSE
             /\ m.cells = was.cells /\ m.fault = was.fault /\ m.leaks = was.leaks
<1> DEFINE e == PythonEnvironment(was.cells)
<1> HIDE DEF e
<1>1. Begun(was) = [was EXCEPT !.env = e, !.ticks = {}, !.done = FALSE]
  BY DEF Begun, e
<1> QED
  BY <1>1 DEF IsMachine, e

LEMMA LeftMachine ==
  ASSUME NEW was, NEW m, IsMachine(m)
  PROVE  LET k == Left(was, m)
         IN  /\ IsMachine(k) /\ DOMAIN k.cells = DOMAIN was.cells
             /\ \A c \in DOMAIN was.cells :
                  k.cells[c] = IF c[1] = "StateSource" THEN Contents(m, m.env[StateAt(c).name]) ELSE m.cells[c]
             /\ k.ticks = m.ticks /\ k.fault = m.fault /\ k.leaks = m.leaks
<1> DEFINE e == [c \in DOMAIN was.cells |->
                   IF c[1] = "StateSource" THEN Contents(m, m.env[StateAt(c).name]) ELSE m.cells[c]]
<1> HIDE DEF e
<1>1. Left(was, m) = [m EXCEPT !.env = <<>>, !.cells = e]
  BY DEF Left, e
<1>2. LET k == Left(was, m)
      IN  IsMachine(k) /\ k.cells = e /\ k.ticks = m.ticks /\ k.fault = m.fault /\ k.leaks = m.leaks
  BY <1>1 DEF IsMachine
<1> QED
  BY <1>2 DEF e

LEMMA PythonRunMachine ==
  ASSUME NEW stmts, IsSource(stmts), NEW was, IsMachine(was)
  PROVE  LET m == PythonRun(stmts, was) IN IsMachine(m) /\ DOMAIN m.cells = DOMAIN was.cells
<1> DEFINE n == Len(stmts)
<1>1. n \in Nat /\ DOMAIN stmts = 1 .. n
  BY DEF IsSource, IsSequence
<1>2. PICK f : /\ f[0] = Begun(was)
               /\ \A i \in 1 .. n : f[i] = PythonExecute(f[i - 1], stmts[i])
               /\ PythonRun(stmts, was) = Left(was, f[n])
  BY <1>1, PythonRunSteps
<1>3. \A i \in 1 .. n : IsStatement(stmts[i])
  BY <1>1 DEF IsSource
<1> HIDE DEF n
<1>4. IsMachine(Begun(was))
  BY BegunMachine
<1> DEFINE A == {k \in Nat : k <= n => IsMachine(f[k])}
<1>5. A \in SUBSET Nat /\ 0 \in A
  BY <1>2, <1>4
<1>6. ASSUME NEW k \in Nat, k \in A PROVE k + 1 \in A
  <2> SUFFICES ASSUME k + 1 <= n PROVE IsMachine(f[k + 1])
    OBVIOUS
  <2>1. k + 1 \in 1 .. n /\ (k + 1) - 1 = k /\ IsMachine(f[k])
    BY <1>1, <1>6
  <2> QED
    BY <1>2, <1>3, <2>1, PythonExecuteMachine
<1> HIDE DEF A
<1>7. A = Nat
  BY <1>5, <1>6, NatSetInduction
<1>8. IsMachine(f[n])
  BY <1>1, <1>7 DEF A
<1> QED
  BY <1>2, <1>8, LeftMachine

(* What the host holds, on either side, once the node runs.                *)
RunInv ==
  /\ calls \in 0 .. MaxCalls + 2
  /\ phase = "run" => /\ Accepted /\ CellsOK(memory)
                      /\ IsMachine(python) /\ DOMAIN python.cells = Cells

LEMMA RunInit == Init => RunInv
BY TranslationAssumption DEF Init, RunInv, TranslationAssumption

LEMMA RunStep == TableInv /\ RunInv /\ [Next]_vars => RunInv'
<1> SUFFICES ASSUME TableInv, RunInv, [Next]_vars PROVE RunInv'
  OBVIOUS
<1>1. MaxCalls \in Nat
  BY TranslationAssumption DEF TranslationAssumption
<1>2. ASSUME UNCHANGED <<node, names, tmp>>
      PROVE  /\ Accepted' = Accepted /\ Cells' = Cells
             /\ \A cells : CellsOK(cells)' = CellsOK(cells)'
  BY <1>2 DEF Accepted, Declared, Cells, CellVars
<1>3. ASSUME NEW st \in Statements(node), VisitStatement(st) PROVE RunInv'
  <2>1. phase' # "run" /\ calls' = calls
    BY <1>3, BodyNames DEF VisitStatement
  <2> QED
    BY <2>1 DEF RunInv
<1>4. CASE EndBody
  <2>1. UNCHANGED <<node, names, tmp, calls>> /\ phase \in Bodies
    BY <1>4 DEF EndBody
  <2>2. Accepted /\ Accepted'
    BY <1>2, <2>1, BodyNames DEF TableInv
  <2>3. phase' = "run" => memory' = HostCells /\ python' = Machine(<<>>, HostCells)
    BY <1>4, <2>1, BodyNames DEF EndBody, NextBody
  <2>4. CellsOK(HostCells)
    BY <2>2, HostCellsOK DEF AcceptedNode, TableInv
  <2>5. memory' = HostCells => CellsOK(memory)'
    BY <2>1, <2>4 DEF CellsOK, Cells, CellVars, Of, Vars, CellType
  <2>6. IsMachine(Machine(<<>>, HostCells)) /\ Machine(<<>>, HostCells).cells = HostCells
    BY DEF IsMachine, Machine
  <2>7. DOMAIN HostCells = Cells
    BY <2>4 DEF CellsOK
  <2>8. python' = Machine(<<>>, HostCells) => IsMachine(python)' /\ DOMAIN python'.cells = Cells'
    BY <1>2, <2>1, <2>6, <2>7 DEF IsMachine
  <2> QED
    BY <2>1, <2>2, <2>3, <2>5, <2>8 DEF RunInv
<1>5. ASSUME NEW input \in Inputs, Call(input) PROVE RunInv'
  <2> DEFINE body == Schedule(calls)
             m == Execution(Machine(Environment(body), fed(memory, input)), code[body])
             was == [python EXCEPT !.cells = fed(python.cells, input)]
  <2>1. /\ phase = "run" /\ phase' = phase /\ UNCHANGED <<node, names, tmp>>
        /\ calls' = calls + 1 /\ calls <= MaxCalls + 1
    BY <1>5 DEF Call
  <2>2. memory' = m.cells /\ python' = PythonRun(source[body], was)
    BY <1>5 DEF Call, fed
  <2>3. body \in Bodies
    BY DEF Schedule, Bodies
  <2>4. AcceptedNode /\ CellsOK(memory) /\ IsMachine(python) /\ DOMAIN python.cells = Cells
    BY <2>1 DEF RunInv, AcceptedNode, TableInv
  <2>5. IsCode(Declared, code[body]) /\ IsSource(source[body])
    BY <2>3 DEF TableInv
  <2> HIDE DEF body
  <2>6. MachineOK(Machine(Environment(body), fed(memory, input)))
    BY <2>4, FedOK, EnvironmentOK DEF MachineOK, IsMachine, Machine
  <2>7. MachineOK(m)
    BY <2>4, <2>5, <2>6, ExecutionOK
  <2>8. IsMachine(was) /\ DOMAIN was.cells = Cells
    BY <2>4 DEF IsMachine, fed
  <2> HIDE DEF m, was
  <2>9. IsMachine(python)' /\ DOMAIN python'.cells = Cells
    BY <2>2, <2>5, <2>8, PythonRunMachine DEF IsMachine
  <2>10. CellsOK(memory)'
    BY <2>1, <2>2, <2>7 DEF MachineOK, CellsOK, Cells, CellVars, Of, Vars, CellType
  <2>11. calls' \in 0 .. MaxCalls + 2
    BY <1>1, <2>1 DEF RunInv
  <2> QED
    BY <1>2, <2>1, <2>4, <2>9, <2>10, <2>11 DEF RunInv, AcceptedNode
<1>6. CASE UNCHANGED vars
  BY <1>6 DEF vars, RunInv, Accepted, Declared, CellsOK, Cells, CellVars, Of, Vars, CellType, IsMachine
<1> QED
  BY <1>3, <1>4, <1>5, <1>6 DEF Next

(* The counter of temporaries is behind the names they take, the code is   *)
(* of the statements generated, and host and generated code agree on the   *)
(* type of every cell.                                                     *)
THEOREM TranslationTypeOK == Spec => []TypeOK
<1>1. TableInv /\ RunInv => TypeOK
  <2> SUFFICES ASSUME TableInv, RunInv PROVE TypeOK
    OBVIOUS
  <2>1. tmp \in Nat /\ \A i \in 0 .. tmp - 1 : Known(names, Temporary(i))
    BY DEF TableInv, Accepted, TableOK
  <2>2. ASSUME NEW b \in Bodies, NEW i \in DOMAIN code[b]
        PROVE  code[b][i].s \in {"assign", "field", "store", "copy", "tick", "return"}
    <3>1. PICK st : st = code[b][i] /\ IsGenerated(Declared, st)
      BY <2>2 DEF TableInv, IsCode
    <3>2. st.s \in {"assign", "field", "store", "copy", "tick", "return"}
      <4>1. CASE st.s \in {"return", "tick"}
        BY <4>1
      <4>2. CASE st.s \notin {"return", "tick"}
        <5>1. PICK n, x : \/ st = Assign(n, x)
                          \/ st = SetField(n, x)
                          \/ st = Store(n, x)
                          \/ st = Copy(n, x)
          BY <3>1, <4>2 DEF IsGenerated
        <5> QED
          BY <5>1 DEF Assign, SetField, Store, Copy
      <4> QED
        BY <4>1, <4>2
    <3> QED
      BY <3>1, <3>2
  <2>3. phase = "run" => CellsOK(memory) /\ DOMAIN python.cells = Cells
    BY DEF RunInv
  <2>4. phase = "run" =>
          /\ DOMAIN memory = {CellOf(v) : v \in CellVars} /\ DOMAIN python.cells = DOMAIN memory
          /\ \A c \in DOMAIN memory : Number(memory[c])
          /\ \A c \in DOMAIN memory : CellType(c) \in Primitives => memory[c].type = CellType(c)
    BY <2>3 DEF CellsOK, Cells
  <2> QED
    BY <2>1, <2>2, <2>4 DEF TypeOK, TableInv, RunInv
<1>2. Spec => []RunInv
  BY RunInit, RunStep, TableHolds, PTL DEF Spec
<1> QED
  BY <1>1, <1>2, TableHolds, PTL

-----------------------------------------------------------------------------
\* The visits of a body, one after the other

(* Temporaries do not change what the names of the source are.             *)
SameNames(table, later) == \A n : IsSourceName(n) => visit_Name(later, n) = visit_Name(table, n)

LEMMA FromAstNames ==
  ASSUME NEW d, NEW D, NEW table, NEW count, Created(d, D), TableOK(D, table, count),
         NEW x, IsExpression(x)
  PROVE  LET r == from_ast(table, count, x)
         IN  /\ SameNames(table, r.names) /\ Extends(table, r.names) /\ TableOK(D, r.names, r.tmp)
             /\ x.e = "name" => Known(r.names, x.n) /\ r.names[x.n].type = r.var.type
<1> DEFINE r == from_ast(table, count, x)
<1>1. CASE x # Nil
  <2>1. Computes(D, table, count, x, r)
    BY <1>1, FromAst
  <2>2. x.e = "name" => Known(r.names, x.n) /\ r.names[x.n].type = r.var.type
    <3>1. CASE x.e = "name" /\ Known(table, x.n)
      <4>1. r = [var |-> table[x.n], code |-> <<>>, names |-> table, tmp |-> count]
        BY <3>1 DEF from_ast
      <4> HIDE DEF r
      <4> QED
        BY <3>1, <4>1
    <3>2. CASE x.e = "name" /\ ~Known(table, x.n)
      <4> DEFINE v == LocalVariableSource(Unknown, x.n)
      <4>1. r = [var |-> v, code |-> <<>>, names |-> With(table, x.n, v), tmp |-> count]
        BY <3>2 DEF from_ast
      <4> HIDE DEF r, v
      <4>2. x.n \in DOMAIN With(table, x.n, v) /\ With(table, x.n, v)[x.n] = v
        BY DEF With
      <4> QED
        BY <4>1, <4>2 DEF Known
    <3> QED
      BY <3>1, <3>2
  <2> HIDE DEF r
  <2>3. SameNames(table, r.names) /\ Extends(table, r.names) /\ TableOK(D, r.names, r.tmp)
    BY <2>1 DEF Computes, SameNames
  <2> QED
    BY <2>2, <2>3 DEF r
<1>2. CASE x = Nil
  <2> DEFINE t == Temporary(count)
             v == LocalConstantSource(Unknown, t, Value("none", 0))
  <2>1. x.e = "none"
    BY <1>2 DEF Nil
  <2>2. r = [var |-> v, code |-> <<>>, names |-> With(table, t, v), tmp |-> count + 1]
    BY <2>1 DEF from_ast
  <2>3. v.source = "LocalConstantSource"
    BY DEF LocalConstantSource, Source
  <2>4. count \in Nat /\ ~IsSourceName(t)
    BY TemporaryNames DEF TableOK
  <2> HIDE DEF r, v
  <2>5. Entry(D, t, v)
    BY <2>3, <2>4 DEF Entry
  <2>6. TableOK(D, With(table, t, v), count + 1) /\ Extends(table, With(table, t, v))
    BY <2>5, WithTemporary
  <2>7. SameNames(table, With(table, t, v))
    <3> HIDE DEF t
    <3> QED
      BY <2>4 DEF With, visit_Name, Known, SameNames
  <2>8. r.names = With(table, t, v) /\ r.tmp = count + 1
    BY <2>2
  <2> QED
    BY <2>1, <2>6, <2>7, <2>8 DEF r
<1> QED
  BY <1>1, <1>2

(* A name that stands for a variable of the host stood for it before.      *)
LEMMA NewNames ==
  ASSUME NEW d, NEW D, NEW table, NEW count, NEW later, NEW last, Created(d, D),
         TableOK(D, table, count), TableOK(D, later, last), SameNames(table, later),
         NEW n \in DOMAIN later, later[n] \in D
  PROVE  n \in DOMAIN table
<1> SUFFICES ASSUME n \notin DOMAIN table PROVE FALSE
  OBVIOUS
<1> DEFINE v == later[n]
<1>1. v.source \in HostKinds
  BY DEF Created, IsHostVariable
<1>2. IsSourceName(n)
  BY <1>1, HostEntry
<1>3. get(v) = Name(n)
  BY <1>2 DEF SameNames, visit_Name, Known
<1>4. Name(n).e = "name" /\ Name(n).n = n /\ \A k : Cell(k).e = "cell" /\ Const(k).e = "const" /\ Name(k).n = k
  BY DEF Name, Cell, Const
<1>5. local_variable_name(v) = n
  BY <1>3, <1>4, GetHost
<1>6. n = v.name
  BY <1>2, <1>5, LocalNames
<1> QED
  BY <1>6 DEF TableOK, Known

(* Only an assignment makes a name stand for a variable of the host.       *)
LEMMA ReturnNames ==
  ASSUME NEW d, NEW D, NEW table, NEW count, Created(d, D), TableOK(D, table, count),
         NEW st, IsSequence(st.es), \A i \in DOMAIN st.es : IsExpression(st.es[i]),
         visit_Return(table, count, st).ok
  PROVE  SameNames(table, visit_Return(table, count, st).names)
<1> DEFINE r == visit_Return(table, count, st)
           n == Len(st.es)
<1>0. PICK f : ReturnTrace(D, table, count, st.es, r, f)
  BY VisitReturn
<1>1. /\ f[0] = Visited(<<>>, table, count)
      /\ \A i \in 1 .. n : Returns(D, f[i - 1], i, st.es[i], f[i])
      /\ \A i \in 0 .. n : VisitOK(D, table, f[i])
      /\ r.names = f[n].names
  BY <1>0 DEF ReturnTrace
<1>2. n \in Nat /\ \A i \in 1 .. n : IsExpression(st.es[i])
  BY DEF IsSequence
<1> HIDE DEF r, n
<1> DEFINE A == {k \in Nat : k <= n => SameNames(table, f[k].names)}
<1>3. A \in SUBSET Nat /\ 0 \in A
  BY <1>1 DEF SameNames, Visited
<1>4. ASSUME NEW k \in Nat, k \in A PROVE k + 1 \in A
  <2> SUFFICES ASSUME k + 1 <= n PROVE SameNames(table, f[k + 1].names)
    OBVIOUS
  <2>1. k + 1 \in 1 .. n /\ (k + 1) - 1 = k /\ SameNames(table, f[k].names) /\ k \in 0 .. n
    BY <1>2, <1>4
  <2>2. f[k + 1].names = from_ast(f[k].names, f[k].tmp, st.es[k + 1]).names
    BY <1>1, <2>1 DEF Returns
  <2>3. TableOK(D, f[k].names, f[k].tmp)
    BY <1>1, <2>1 DEF VisitOK
  <2>4. SameNames(f[k].names, f[k + 1].names)
    BY <1>2, <2>1, <2>2, <2>3, FromAstNames
  <2> QED
    BY <2>1, <2>4 DEF SameNames
<1> HIDE DEF A
<1>5. A = Nat
  BY <1>3, <1>4, NatSetInduction
<1> QED
  BY <1>1, <1>2, <1>5 DEF A, r

LEMMA NewAliases ==
  ASSUME NEW d, NEW D, NEW table, NEW count, Created(d, D), TableOK(D, table, count),
         NEW st, IsStatement(st), visit_statement(table, count, st).ok,
         NEW n \in DOMAIN visit_statement(table, count, st).names,
         visit_statement(table, count, st).names[n] \in D, n \notin DOMAIN table
  PROVE  st.s = "assign" /\ st.n = n
<1> DEFINE r == visit_statement(table, count, st)
<1>1. VisitOK(D, table, r)
  BY VisitStatementOK
<1>2. TableOK(D, r.names, r.tmp)
  BY <1>1 DEF VisitOK
<1>3. ASSUME SameNames(table, r.names) PROVE FALSE
  <2> HIDE DEF r
  <2> QED
    BY <1>2, <1>3, NewNames DEF r
<1>0. IsSequence(st.es) /\ \A i \in DOMAIN st.es : IsExpression(st.es[i])
  BY DEF IsStatement
<1>01. st.s # "return" => IsExpression(st.es[1])
  BY <1>0 DEF IsStatement, IsSequence
<1>4. CASE st.s = "assign"
  <2>1. r = visit_Assign(table, count, st)
    BY <1>4 DEF visit_statement
  <2>2. PICK y : Assigns(D, table, count, st, y, r)
    BY <1>4, <2>1, VisitAssign
  <2> HIDE DEF r
  <2>3. r.names = table \/ \E v : r.names = With(table, st.n, v)
    BY <2>2 DEF Assigns
  <2>4. n \in DOMAIN r.names
    BY DEF r
  <2> QED
    BY <1>4, <2>3, <2>4 DEF With
<1>5. CASE st.s = "field"
  <2>1. r = visit_field_store(table, count, st)
    BY <1>5 DEF visit_statement
  <2>2. r.names = table
    BY <1>01, <1>5, <2>1, VisitFieldStore
  <2> HIDE DEF r
  <2> QED
    BY <1>3, <2>2 DEF SameNames
<1>6. CASE st.s = "output"
  <2>1. r = visit_set_output(table, count, st)
    BY <1>6 DEF visit_statement
  <2>2. r.names = from_ast(table, count, st.es[1]).names
    BY <1>01, <1>6, <2>1, VisitSetOutput
  <2> HIDE DEF r
  <2> QED
    BY <1>3, <1>01, <1>6, <2>2, FromAstNames
<1>7. CASE st.s = "return"
  <2>1. r = visit_Return(table, count, st)
    BY <1>7 DEF visit_statement
  <2> HIDE DEF r
  <2>2. r.ok
    BY DEF r
  <2> QED
    BY <1>0, <1>3, <2>1, <2>2, ReturnNames
<1> QED
  BY <1>4, <1>5, <1>6, <1>7 DEF IsStatement

(* A visit of one statement, from one table to the next.                   *)
Step(a, st, z) ==
  LET r == visit_statement(a.names, a.tmp, st)
  IN  r.ok /\ z.code = a.code \o r.code /\ z.names = r.names /\ z.tmp = r.tmp

(* V: the visits of the first k statements of a body.                      *)
Traced(D, table, stmts, V, k) ==
  /\ k \in 0 .. Len(stmts) /\ V[0].code = <<>>
  /\ \A i \in 0 .. k : TableOK(D, V[i].names, V[i].tmp) /\ Extends(V[i].names, table)
  /\ \A i \in 1 .. k : Step(V[i - 1], stmts[i], V[i])

(* A name that stands for a variable of another name was assigned to, in   *)
(* this body no later than here.                                           *)
Alias(D, table, n) == n \in DOMAIN table /\ table[n] \in D /\ table[n].name # n
AssignedBy(src, n, b, i) ==
  \E c \in Bodies : \E j \in DOMAIN src[c] : src[c][j].s = "assign" /\ src[c][j].n = n /\ (c = b => j <= i)

BodyTrace(D, table, count, src, stmts, b, k, current, V) ==
  /\ Traced(D, table, src[b], V, k) /\ V[k].code = stmts
  /\ \A i \in 0 .. k : \A n : Alias(D, V[i].names, n) => AssignedBy(src, n, b, i)
  /\ current => V[k].names = table /\ V[k].tmp = count

IsSources(src) == DOMAIN src = Bodies /\ \A b \in Bodies : IsSource(src[b])

LEMMA Appended ==
  ASSUME NEW src, IsSources(src), NEW b \in Bodies, NEW st
  PROVE  LET later == [src EXCEPT ![b] = Append(src[b], st)]
         IN  /\ DOMAIN later = Bodies /\ Len(later[b]) = Len(src[b]) + 1 /\ Len(src[b]) \in Nat
             /\ DOMAIN src[b] = 1 .. Len(src[b]) /\ DOMAIN later[b] = 1 .. Len(src[b]) + 1
             /\ later[b][Len(src[b]) + 1] = st
             /\ \A c \in Bodies : c # b => later[c] = src[c]
             /\ \A c \in Bodies : \A i \in DOMAIN src[c] : i \in DOMAIN later[c] /\ later[c][i] = src[c][i]
<1> DEFINE later == [src EXCEPT ![b] = Append(src[b], st)]
<1>1. DOMAIN later = Bodies /\ later[b] = Append(src[b], st) /\ \A c \in Bodies : c # b => later[c] = src[c]
  BY DEF IsSources
<1>2. IsSequence(src[b])
  BY DEF IsSources, IsSource
<1>3. Len(src[b]) \in Nat /\ DOMAIN src[b] = 1 .. Len(src[b])
  BY <1>2 DEF IsSequence
<1> DEFINE a == Append(src[b], st)
           n == Len(src[b])
<1>4. Len(a) = n + 1 /\ DOMAIN a = 1 .. n + 1 /\ (\A i \in 1 .. n : a[i] = src[b][i]) /\ a[n + 1] = st
  BY <1>2, AppendToSequence
<1> HIDE DEF later, a
<1>5. ASSUME NEW c \in Bodies, NEW i \in DOMAIN src[c] PROVE i \in DOMAIN later[c] /\ later[c][i] = src[c][i]
  <2>1. CASE c = b
    <3>1. i \in 1 .. n /\ i \in 1 .. n + 1
      BY <1>3, <2>1
    <3> HIDE DEF n
    <3> QED
      BY <1>1, <1>4, <2>1, <3>1 DEF a
  <2>2. CASE c # b
    BY <1>1, <2>2
  <2> QED
    BY <2>1, <2>2
<1>6. Len(later[b]) = n + 1 /\ DOMAIN later[b] = 1 .. n + 1 /\ later[b][n + 1] = st
  BY <1>1, <1>4 DEF a
<1> QED
  BY <1>1, <1>3, <1>5, <1>6 DEF later

LEMMA AssignedLater ==
  ASSUME NEW src, IsSources(src), NEW b \in Bodies, NEW st, NEW n, NEW c, NEW i, AssignedBy(src, n, c, i)
  PROVE  AssignedBy([src EXCEPT ![b] = Append(src[b], st)], n, c, i)
BY Appended DEF AssignedBy

(* Later visits leave the trace as it is.                                  *)
LEMMA TraceLater ==
  ASSUME NEW D, NEW table, NEW count, NEW later, NEW last, NEW src, IsSources(src), NEW stmts,
         NEW b \in Bodies, NEW c \in Bodies, NEW st, NEW k, NEW current, NEW V,
         BodyTrace(D, table, count, src, stmts, c, k, current, V), Extends(table, later),
         current => table = later /\ count = last
  PROVE  BodyTrace(D, later, last, [src EXCEPT ![b] = Append(src[b], st)], stmts, c, k, current, V)
<1> DEFINE src1 == [src EXCEPT ![b] = Append(src[b], st)]
<1>0. \A i \in DOMAIN src[c] : i \in DOMAIN src1[c] /\ src1[c][i] = src[c][i]
  BY Appended
<1>00. Len(src[c]) \in Nat /\ DOMAIN src[c] = 1 .. Len(src[c]) /\ Len(src1[c]) \in {Len(src[c]), Len(src[c]) + 1}
  BY Appended DEF IsSources, IsSource, IsSequence
<1>1. \A n, i : AssignedBy(src, n, c, i) => AssignedBy(src1, n, c, i)
  BY AssignedLater
<1> HIDE DEF src1
<1>2. Traced(D, table, src[c], V, k)
  BY DEF BodyTrace
<1>3. k \in 0 .. Len(src1[c]) /\ \A i \in 1 .. k : src1[c][i] = src[c][i]
  <2>1. k \in 0 .. Len(src[c])
    BY <1>2 DEF Traced
  <2>2. \A i \in 1 .. k : i \in DOMAIN src[c]
    BY <1>00, <2>1
  <2> QED
    BY <1>0, <1>00, <2>1, <2>2
<1>4. \A i \in 0 .. k : Extends(V[i].names, later)
  BY <1>2, ExtendsIsTransitive DEF Traced
<1>5. Traced(D, later, src1[c], V, k)
  BY <1>2, <1>3, <1>4 DEF Traced
<1>6. BodyTrace(D, later, last, src1, stmts, c, k, current, V)
  BY <1>1, <1>5 DEF BodyTrace
<1> QED
  BY <1>6 DEF src1

(* The visit of a statement.                                               *)
LEMMA TraceStep ==
  ASSUME NEW d, NEW D, Created(d, D), NEW table, NEW count, NEW src, IsSources(src), NEW stmts,
         NEW b \in Bodies, NEW st, IsStatement(st), NEW V,
         BodyTrace(D, table, count, src, stmts, b, Len(src[b]), TRUE, V),
         visit_statement(table, count, st).ok
  PROVE  LET r == visit_statement(table, count, st)
         IN  \E W : BodyTrace(D, r.names, r.tmp, [src EXCEPT ![b] = Append(src[b], st)], stmts \o r.code, b,
                              Len(src[b]) + 1, TRUE, W)
<1> DEFINE r == visit_statement(table, count, st)
           k == Len(src[b])
           W == [i \in 0 .. k + 1 |-> IF i <= k THEN V[i] ELSE [code |-> stmts \o r.code, names |-> r.names, tmp |-> r.tmp]]
           src1 == [src EXCEPT ![b] = Append(src[b], st)]
<1>0. /\ k \in Nat /\ Len(src1[b]) = k + 1 /\ src1[b][k + 1] = st
      /\ \A i \in 1 .. k : src1[b][i] = src[b][i]
  BY Appended
<1>01. \A n, i : AssignedBy(src, n, b, i) => AssignedBy(src1, n, b, i)
  BY AssignedLater
<1>02. AssignedBy(src1, st.n, b, k + 1) \/ st.s # "assign"
  BY Appended DEF AssignedBy
<1>1. /\ Traced(D, table, src[b], V, k) /\ V[k].code = stmts /\ V[k].names = table /\ V[k].tmp = count
      /\ \A i \in 0 .. k : \A n : Alias(D, V[i].names, n) => AssignedBy(src, n, b, i)
  BY DEF BodyTrace
<1>2. TableOK(D, table, count)
  BY <1>0, <1>1 DEF Traced
<1>3. VisitOK(D, table, r)
  BY <1>2, VisitStatementOK
<1>4. ASSUME NEW n, Alias(D, r.names, n) PROVE Alias(D, table, n) \/ (st.s = "assign" /\ st.n = n)
  <2>1. CASE n \in DOMAIN table
    <3>1. IsSourceName(n)
      <4> DEFINE T == r.names
                 C == r.tmp
      <4>1. n \in DOMAIN T /\ T[n] \in D
        BY <1>4 DEF Alias
      <4>2. TableOK(D, T, C)
        BY <1>3 DEF VisitOK
      <4> HIDE DEF T, C
      <4>3. T[n].source \in HostKinds
        BY <4>1 DEF Created, IsHostVariable
      <4> QED
        BY <4>1, <4>2, <4>3, HostEntry
    <3>2. r.names[n] = table[n]
      BY <1>3, <2>1, <3>1 DEF VisitOK, Extends
    <3> QED
      BY <1>4, <2>1, <3>2 DEF Alias
  <2>2. CASE n \notin DOMAIN table
    BY <1>2, <1>4, <2>2, NewAliases DEF Alias
  <2> QED
    BY <2>1, <2>2
<1>5. r.ok
  OBVIOUS
<1>6. /\ \A i \in 0 .. k : W[i] = V[i] /\ i \in 0 .. k + 1
      /\ W[k + 1].code = stmts \o r.code /\ W[k + 1].names = r.names /\ W[k + 1].tmp = r.tmp
  <2> HIDE DEF r
  <2> QED
    BY <1>0
<1>7. Step(W[k], st, W[k + 1])
  <2>1. W[k].names = table /\ W[k].tmp = count /\ W[k].code = stmts
    BY <1>0, <1>1, <1>6
  <2> HIDE DEF W
  <2> QED
    BY <1>5, <1>6, <2>1 DEF Step, r
<1> HIDE DEF W, r, k, src1
<1>8. Traced(D, r.names, src1[b], W, k + 1)
  <2>1. ASSUME NEW i \in 0 .. k + 1 PROVE TableOK(D, W[i].names, W[i].tmp) /\ Extends(W[i].names, r.names)
    <3>1. CASE i = k + 1
      BY <1>3, <1>6, <3>1 DEF VisitOK, Extends
    <3>2. CASE i # k + 1
      <4>1. i \in 0 .. k
        BY <1>0, <3>2
      <4>2. TableOK(D, V[i].names, V[i].tmp) /\ Extends(V[i].names, table)
        BY <1>1, <4>1 DEF Traced
      <4> QED
        BY <1>3, <1>6, <4>1, <4>2, ExtendsIsTransitive DEF VisitOK
    <3> QED
      BY <3>1, <3>2
  <2>2. ASSUME NEW i \in 1 .. k + 1 PROVE Step(W[i - 1], src1[b][i], W[i])
    <3>1. CASE i = k + 1
      BY <1>0, <1>7, <3>1
    <3>2. CASE i # k + 1
      <4>1. i \in 1 .. k /\ i - 1 \in 0 .. k /\ i \in 0 .. k
        BY <1>0, <3>2
      <4> QED
        BY <1>0, <1>1, <1>6, <4>1 DEF Traced
    <3> QED
      BY <3>1, <3>2
  <2>3. k + 1 \in 0 .. Len(src1[b]) /\ W[0].code = <<>>
    <3>1. 0 \in 0 .. k
      BY <1>0
    <3>2. V[0].code = <<>>
      BY <1>1 DEF Traced
    <3> QED
      BY <1>0, <1>6, <3>1, <3>2
  <2> QED
    BY <2>1, <2>2, <2>3 DEF Traced
<1>9. ASSUME NEW i \in 0 .. k + 1, NEW n, Alias(D, W[i].names, n) PROVE AssignedBy(src1, n, b, i)
  <2>1. CASE i = k + 1
    <3>1. Alias(D, table, n) \/ (st.s = "assign" /\ st.n = n)
      BY <1>4, <1>6, <1>9, <2>1
    <3>2. CASE Alias(D, table, n)
      <4>1. AssignedBy(src, n, b, k)
        BY <1>0, <1>1, <3>2
      <4>2. AssignedBy(src1, n, b, k)
        BY <1>01, <4>1
      <4>3. \A c \in Bodies : DOMAIN src1[c] \subseteq Nat
        <5>1. \A c \in Bodies : DOMAIN src[c] \subseteq Nat
          BY DEF IsSources, IsSource, IsSequence
        <5>2. \A c \in Bodies : c # b => src1[c] = src[c]
          BY Appended DEF src1
        <5>3. DOMAIN src1[b] = 1 .. Len(src[b]) + 1 /\ Len(src[b]) \in Nat
          BY Appended DEF src1
        <5> QED
          BY <5>1, <5>2, <5>3
      <4> QED
        BY <1>0, <2>1, <4>2, <4>3 DEF AssignedBy
    <3> QED
      BY <1>02, <2>1, <3>1, <3>2
  <2>2. CASE i # k + 1
    <3>1. i \in 0 .. k
      BY <1>0, <2>2
    <3> QED
      BY <1>01, <1>1, <1>6, <1>9, <3>1
  <2> QED
    BY <2>1, <2>2
<1>10. BodyTrace(D, r.names, r.tmp, src1, stmts \o r.code, b, k + 1, TRUE, W)
  BY <1>6, <1>8, <1>9 DEF BodyTrace
<1> QED
  BY <1>10 DEF r, k, src1

(* The bodies after the current one are empty; a refused node ends with    *)
(* the statement that was refused.                                         *)
LastStatement == source[LastBody][Len(source[LastBody])]
OrderInv ==
  /\ phase = "start" => source.stop = <<>>
  /\ phase \in {"start", "stop"} => source.execute = <<>>
  /\ phase = "refused" /\ Written > 0 => /\ Accepted /\ Len(source[LastBody]) > 0
                                         /\ ~visit_statement(names, tmp, LastStatement).ok

Current == IF phase = "refused" THEN LastBody ELSE phase
Translated(b) == IF phase = "refused" /\ b = LastBody THEN Len(source[b]) - 1 ELSE Len(source[b])
Begins == phase = "refused" => Written > 0

TraceInv ==
  Accepted /\ Begins =>
    \A b \in Bodies : \E V : BodyTrace(Declared, names, tmp, source, code[b], b, Translated(b), b = Current, V)

(* What a statement may use, and that nothing follows a return.            *)
Parameters(b) == {v \in Declared : v.source \in {"ConstantSource", "StateSource"}
                                   \/ (b = "execute" /\ v.source = "InputSource")}
Scope(P, stmts, j) ==
  {stmts[i].n : i \in {i \in 1 .. j : stmts[i].s = "assign"}} \cup {v.name : v \in P}
Scoped(P, stmts, j) ==
  /\ \A i \in DOMAIN stmts[j].es : Used(stmts[j].es[i]) \subseteq Scope(P, stmts, j - 1)
  /\ stmts[j].s = "field" => stmts[j].n \in Scope(P, stmts, j - 1)
  /\ \A i \in 1 .. j - 1 : stmts[i].s # "return"

ScopeInv == \A b \in Bodies : \A j \in DOMAIN source[b] : Scoped(Parameters(b), source[b], j)

LEMMA ScopedLater ==
  ASSUME NEW P, NEW s, NEW t, NEW j \in Nat, \A i \in 1 .. j - 1 : t[i] = s[i]
  PROVE  /\ Scope(P, t, j - 1) = Scope(P, s, j - 1)
         /\ t[j] = s[j] /\ Scoped(P, s, j) => Scoped(P, t, j)
<1>1. Scope(P, t, j - 1) = Scope(P, s, j - 1)
  BY DEF Scope
<1>2. \A i \in 1 .. j - 1 : t[i].s = s[i].s
  OBVIOUS
<1> QED
  BY <1>1, <1>2 DEF Scoped

LEMMA EmptyBody == Len(<<>>) = 0 /\ DOMAIN <<>> = {} /\ \A s : IsSequence(s) /\ Len(s) = 0 => s = <<>>
BY DEF IsSequence

LEMMA LastBodyFacts ==
  ASSUME TableInv
  PROVE  /\ LastBody \in Bodies
         /\ \A b \in Bodies : Len(source[b]) \in Nat /\ (source[b] = <<>> <=> Len(source[b]) = 0)
         /\ Written = Len(source["start"]) + Len(source["stop"]) + Len(source["execute"])
         /\ LastBody = IF Len(source["execute"]) > 0 THEN "execute"
                       ELSE IF Len(source["stop"]) > 0 THEN "stop" ELSE "start"
<1>1. \A b \in Bodies : IsSequence(source[b])
  BY DEF TableInv, IsSource
<1>2. \A b \in Bodies : Len(source[b]) \in Nat /\ (source[b] = <<>> <=> Len(source[b]) = 0)
  BY <1>1, EmptyBody DEF IsSequence
<1>3. source["execute"] = <<>> <=> Len(source["execute"]) = 0
  BY <1>2 DEF Bodies
<1>4. source["stop"] = <<>> <=> Len(source["stop"]) = 0
  BY <1>2 DEF Bodies
<1>5. Len(source["execute"]) \in Nat /\ Len(source["stop"]) \in Nat
  BY <1>2 DEF Bodies
<1> QED
  BY <1>2, <1>3, <1>4, <1>5 DEF LastBody, Bodies, Written

(* What the visit of a statement leaves.                                   *)
LEMMA VisitEffect ==
  ASSUME TableInv, OrderInv, NEW st \in Statements(node), VisitStatement(st)
  PROVE  /\ node' = node /\ phase \in Bodies /\ Accepted /\ IsStatement(st) /\ IsSources(source)
         /\ source' = [source EXCEPT ![phase] = Append(source[phase], st)]
         /\ LET r == visit_statement(names, tmp, st)
            IN  IF r.ok THEN /\ code' = [code EXCEPT ![phase] = code[phase] \o r.code]
                             /\ names' = r.names /\ tmp' = r.tmp /\ phase' = phase
                        ELSE phase' = "refused" /\ UNCHANGED <<code, names, tmp>> /\ LastBody' = phase
<1>1. /\ node' = node /\ phase \in Bodies
      /\ source' = [source EXCEPT ![phase] = Append(source[phase], st)]
      /\ LET r == visit_statement(names, tmp, st)
            IN  IF r.ok THEN /\ code' = [code EXCEPT ![phase] = code[phase] \o r.code]
                             /\ names' = r.names /\ tmp' = r.tmp /\ phase' = phase
                        ELSE phase' = "refused" /\ UNCHANGED <<code, names, tmp>>
  BY DEF VisitStatement
<1>2. Accepted /\ IsSources(source)
  BY <1>1, BodyNames DEF TableInv, IsSources
<1>3. IsStatement(st)
  BY TranslationAssumption DEF TranslationAssumption, TableInv
<1>4. /\ Len(source'[phase]) = Len(source[phase]) + 1 /\ Len(source[phase]) \in Nat
      /\ \A c \in Bodies : c # phase => source'[c] = source[c]
  BY <1>1, <1>2, Appended
<1>5. LastBody' = phase
  <2>1. source'["execute"] # <<>> <=> (phase = "execute" \/ source["execute"] # <<>>)
    BY <1>1, <1>2, <1>4, EmptyBody DEF Bodies
  <2>2. source'["stop"] # <<>> <=> (phase = "stop" \/ source["stop"] # <<>>)
    BY <1>1, <1>2, <1>4, EmptyBody DEF Bodies
  <2>3. LastBody' = IF source'["execute"] # <<>> THEN "execute" ELSE IF source'["stop"] # <<>> THEN "stop" ELSE "start"
    BY DEF LastBody
  <2>4. phase \in {"start", "stop", "execute"}
    BY <1>1, BodyNames
  <2> QED
    BY <2>1, <2>2, <2>3, <2>4 DEF OrderInv
<1> QED
  BY <1>1, <1>2, <1>3, <1>5

LEMMA OrderInit == Init => OrderInv
<1> SUFFICES ASSUME Init PROVE OrderInv
  OBVIOUS
<1>1. source = [b \in Bodies |-> <<>>]
  BY DEF Init
<1>2. source.stop = <<>> /\ source.execute = <<>> /\ Written = 0
  BY <1>1, EmptyBody DEF Bodies, Written
<1> QED
  BY <1>2 DEF OrderInv

LEMMA OrderStep == TableInv /\ OrderInv /\ [Next]_vars => OrderInv'
<1> SUFFICES ASSUME TableInv, OrderInv, [Next]_vars PROVE OrderInv'
  OBVIOUS
<1>1. ASSUME NEW st \in Statements(node), VisitStatement(st) PROVE OrderInv'
  <2> DEFINE r == visit_statement(names, tmp, st)
  <2>1. /\ node' = node /\ phase \in Bodies /\ Accepted /\ IsStatement(st) /\ IsSources(source)
        /\ source' = [source EXCEPT ![phase] = Append(source[phase], st)]
        /\ IF r.ok THEN phase' = phase
                   ELSE phase' = "refused" /\ UNCHANGED <<names, tmp>> /\ LastBody' = phase
    BY <1>1, VisitEffect
  <2> HIDE DEF r
  <2>2. /\ Len(source'[phase]) = Len(source[phase]) + 1 /\ Len(source[phase]) \in Nat
        /\ source'[phase][Len(source[phase]) + 1] = st
        /\ \A c \in Bodies : c # phase => source'[c] = source[c]
    BY <2>1, Appended
  <2>3. CASE r.ok
    <3>1. phase' = phase
      BY <2>1, <2>3
    <3>2. phase = "start" => source'.stop = <<>>
      BY <2>1, <2>2 DEF OrderInv, Bodies
    <3>3. phase \in {"start", "stop"} => source'.execute = <<>>
      BY <2>1, <2>2 DEF OrderInv, Bodies
    <3> QED
      BY <2>1, <3>1, <3>2, <3>3, BodyNames DEF OrderInv
  <2>4. CASE ~r.ok
    <3>1. phase' = "refused" /\ names' = names /\ tmp' = tmp /\ LastBody' = phase
      BY <2>1, <2>4
    <3>2. Accepted'
      BY <2>1, <3>1 DEF Accepted, Declared
    <3>3. LastStatement' = st /\ Len(source'[LastBody']) > 0
      BY <2>2, <3>1 DEF LastStatement
    <3> QED
      BY <2>4, <3>1, <3>2, <3>3 DEF OrderInv, r
  <2> QED
    BY <2>3, <2>4
<1>2. CASE EndBody
  <2>1. phase \in Bodies /\ phase' = NextBody(phase) /\ source' = source
    BY <1>2 DEF EndBody
  <2>2. phase' \in {"stop", "execute", "run"} /\ (phase' = "stop" => phase = "start")
    BY <2>1 DEF NextBody, Bodies
  <2> QED
    BY <2>1, <2>2 DEF OrderInv
<1>3. ASSUME UNCHANGED <<node, phase, names, tmp, code, source>> PROVE OrderInv'
  BY <1>3 DEF OrderInv, Accepted, Declared, LastStatement, LastBody, Written
<1>4. ASSUME NEW input \in Inputs, Call(input) PROVE OrderInv'
  BY <1>3, <1>4 DEF Call
<1>5. CASE UNCHANGED vars
  BY <1>3, <1>5 DEF vars
<1> QED
  BY <1>1, <1>2, <1>4, <1>5 DEF Next

LEMMA TraceInit == Init => TraceInv
<1> SUFFICES ASSUME Init, Accepted, Begins, NEW b \in Bodies
             PROVE  \E V : BodyTrace(Declared, names, tmp, source, code[b], b, Translated(b), b = Current, V)
  BY DEF TraceInv
<1>1. code = [c \in Bodies |-> <<>>] /\ source = [c \in Bodies |-> <<>>]
  BY DEF Init
<1>2. code[b] = <<>> /\ source[b] = <<>> /\ Written = 0 /\ Len(source[b]) = 0
  BY <1>1, EmptyBody DEF Bodies, Written
<1>3. Translated(b) = 0
  BY <1>2 DEF Translated, Begins
<1> DEFINE V == [i \in 0 .. 0 |-> [code |-> <<>>, names |-> names, tmp |-> tmp]]
<1>4. V[0].code = <<>> /\ V[0].names = names /\ V[0].tmp = tmp
  OBVIOUS
<1> HIDE DEF V
<1>5. TableOK(Declared, names, tmp) /\ Extends(names, names)
  BY DEF Accepted, Extends
<1>6. Traced(Declared, names, source[b], V, 0)
  BY <1>2, <1>4, <1>5 DEF Traced
<1>7. \A n : ~Alias(Declared, names, n)
  <2> DEFINE made == created_variables(node)
  <2>1. names = [n \in {made[i].name : i \in DOMAIN made} |-> made[CHOOSE i \in DOMAIN made : made[i].name = n]]
    BY DEF Init, Accepted
  <2> HIDE DEF made
  <2>2. ASSUME NEW n \in DOMAIN names PROVE names[n].name = n
    <3>1. PICK i \in DOMAIN made : made[i].name = n
      BY <2>1
    <3> QED
      BY <2>1, <3>1
  <2> QED
    BY <2>2 DEF Alias
<1>8. BodyTrace(Declared, names, tmp, source, code[b], b, 0, b = Current, V)
  BY <1>2, <1>4, <1>6, <1>7 DEF BodyTrace
<1> QED
  BY <1>3, <1>8

LEMMA TraceInvStep == TableInv /\ OrderInv /\ TraceInv /\ [Next]_vars => TraceInv'
<1> SUFFICES ASSUME TableInv, OrderInv, TraceInv, [Next]_vars PROVE TraceInv'
  OBVIOUS
<1>1. ASSUME NEW st \in Statements(node), VisitStatement(st), NEW c \in Bodies
      PROVE  (\E V : BodyTrace(Declared, names, tmp, source, code[c], c, Translated(c), c = Current, V))'
  <2> DEFINE r == visit_statement(names, tmp, st)
             b == phase
             D == Declared
             k == Len(source[b])
             src1 == [source EXCEPT ![b] = Append(source[b], st)]
  <2>1. /\ node' = node /\ b \in Bodies /\ Accepted /\ IsStatement(st) /\ IsSources(source) /\ source' = src1
        /\ IF r.ok THEN /\ code' = [code EXCEPT ![b] = code[b] \o r.code]
                        /\ names' = r.names /\ tmp' = r.tmp /\ phase' = b
                   ELSE phase' = "refused" /\ UNCHANGED <<code, names, tmp>> /\ LastBody' = b
    BY <1>1, VisitEffect
  <2>2. Declared' = D /\ DOMAIN code = Bodies
    BY <2>1 DEF Declared, TableInv
  <2>3. Created(node, D) /\ TableOK(D, names, tmp)
    BY <2>1, DeclaredVariables DEF TableInv, Accepted
  <2>4. b # "refused" /\ Begins /\ Current = b
    BY <2>1, BodyNames DEF Begins, Current
  <2>5. \A a \in Bodies : Translated(a) = Len(source[a])
    BY <2>4 DEF Translated
  <2>6. PICK V : BodyTrace(D, names, tmp, source, code[c], c, Len(source[c]), c = b, V)
    BY <2>1, <2>4, <2>5 DEF TraceInv
  <2>7. /\ Len(src1[b]) = k + 1 /\ k \in Nat /\ \A a \in Bodies : a # b => src1[a] = source[a]
    BY <2>1, Appended
  <2>8. r.ok => VisitOK(D, names, r)
    BY <2>1, <2>3, VisitStatementOK
  <2>9. ASSUME r.ok, c = b
        PROVE  \E W : BodyTrace(D, r.names, r.tmp, src1, code[b] \o r.code, b, k + 1, TRUE, W)
    <3>1. BodyTrace(D, names, tmp, source, code[b], b, k, TRUE, V)
      BY <2>6, <2>9 DEF BodyTrace
    <3> HIDE DEF D, k
    <3> QED
      BY <2>1, <2>3, <2>9, <3>1, TraceStep DEF k
  <2>10. ASSUME NEW later, NEW last, Extends(names, later), c = b => names = later /\ tmp = last
         PROVE  BodyTrace(D, later, last, src1, code[c], c, Len(source[c]), c = b, V)
    <3> DEFINE current == c = b
               n == Len(source[c])
    <3> HIDE DEF D
    <3>1. BodyTrace(D, names, tmp, source, code[c], c, n, current, V) /\ (current => names = later /\ tmp = last)
      BY <2>6, <2>10
    <3> HIDE DEF current, n
    <3>2. BodyTrace(D, later, last, src1, code[c], c, n, current, V)
      BY <2>1, <2>10, <3>1, TraceLater
    <3> QED
      BY <3>2 DEF current, n
  <2> HIDE DEF r, b, D, src1
  <2>11. CASE r.ok
    <3>1. phase' = b /\ names' = r.names /\ tmp' = r.tmp /\ code' = [code EXCEPT ![b] = code[b] \o r.code]
      BY <2>1, <2>11
    <3>2. Current' = b /\ Translated(c)' = Len(src1[c])
      BY <2>1, <2>4, <3>1 DEF Current, Translated, b
    <3>3. CASE c = b
      <4>1. PICK W : BodyTrace(D, r.names, r.tmp, src1, code[b] \o r.code, b, k + 1, TRUE, W)
        BY <2>9, <2>11, <3>3
      <4>2. code'[c] = code[b] \o r.code /\ Translated(c)' = k + 1 /\ (c = Current')
        BY <2>1, <2>2, <2>7, <3>1, <3>2, <3>3
      <4> QED
        BY <2>1, <2>2, <3>1, <3>3, <4>1, <4>2
    <3>4. CASE c # b
      <4>1. BodyTrace(D, r.names, r.tmp, src1, code[c], c, Len(source[c]), FALSE, V)
        BY <2>8, <2>10, <2>11, <3>4 DEF VisitOK
      <4>2. code'[c] = code[c] /\ Translated(c)' = Len(source[c]) /\ (c = Current') = FALSE
        BY <2>1, <2>2, <2>7, <3>1, <3>2, <3>4
      <4> QED
        BY <2>1, <2>2, <3>1, <4>1, <4>2
    <3> QED
      BY <3>3, <3>4
  <2>12. CASE ~r.ok
    <3>1. phase' = "refused" /\ names' = names /\ tmp' = tmp /\ code' = code /\ LastBody' = b
      BY <2>1, <2>12
    <3>2. Current' = b /\ Translated(c)' = IF c = b THEN Len(src1[c]) - 1 ELSE Len(src1[c])
      BY <2>1, <3>1 DEF Current, Translated
    <3>3. Translated(c)' = Len(source[c])
      BY <2>7, <3>2
    <3>4. Extends(names, names)
      BY DEF Extends
    <3>5. BodyTrace(D, names, tmp, src1, code[c], c, Len(source[c]), c = b, V)
      BY <2>10, <3>4
    <3> QED
      BY <2>1, <2>2, <3>1, <3>2, <3>3, <3>5
  <2> QED
    BY <2>11, <2>12
<1>2. ASSUME EndBody, Accepted', NEW c \in Bodies
      PROVE  (\E V : BodyTrace(Declared, names, tmp, source, code[c], c, Translated(c), c = Current, V))'
  <2>1. phase \in Bodies /\ phase' = NextBody(phase) /\ UNCHANGED <<node, names, tmp, code, source>>
    BY <1>2 DEF EndBody
  <2>2. Declared' = Declared /\ Accepted
    BY <1>2, <2>1 DEF Declared, Accepted
  <2>3. phase # "refused" /\ phase' # "refused" /\ Current = phase /\ Current' = phase' /\ phase' # phase
    BY <2>1 DEF NextBody, Bodies, Current
  <2>4. Translated(c) = Len(source[c]) /\ Translated(c)' = Len(source[c])
    BY <2>1, <2>3 DEF Translated
  <2>5. \A a \in Bodies : \E V : BodyTrace(Declared, names, tmp, source, code[a], a, Translated(a), a = phase, V)
    BY <2>2, <2>3 DEF TraceInv, Begins
  <2>6. CASE c # phase'
    <3>1. PICK V : BodyTrace(Declared, names, tmp, source, code[c], c, Len(source[c]), c = phase, V)
      BY <2>4, <2>5
    <3>2. BodyTrace(Declared, names, tmp, source, code[c], c, Len(source[c]), FALSE, V)
      BY <3>1 DEF BodyTrace
    <3> QED
      BY <2>1, <2>2, <2>3, <2>4, <2>6, <3>2
  <2>7. CASE c = phase'
    <3>1. source[c] = <<>>
      BY <2>1, <2>7 DEF OrderInv, NextBody, Bodies
    <3>2. PICK V : BodyTrace(Declared, names, tmp, source, code[phase], phase, Translated(phase), TRUE, V)
      BY <2>1, <2>5
    <3>3. \A n : Alias(Declared, names, n) => AssignedBy(source, n, phase, Translated(phase))
      BY <3>2 DEF BodyTrace, Traced
    <3>4. \A n : Alias(Declared, names, n) => AssignedBy(source, n, c, 0)
      BY <3>1, <3>3, EmptyBody DEF AssignedBy
    <3>5. code[c] = <<>>
      <4>1. PICK U : BodyTrace(Declared, names, tmp, source, code[c], c, 0, c = phase, U)
        BY <2>4, <2>5, <3>1, EmptyBody
      <4> QED
        BY <4>1 DEF BodyTrace, Traced
    <3> DEFINE W == [i \in 0 .. 0 |-> [code |-> <<>>, names |-> names, tmp |-> tmp]]
    <3>6. W[0].code = <<>> /\ W[0].names = names /\ W[0].tmp = tmp
      OBVIOUS
    <3> HIDE DEF W
    <3>7. TableOK(Declared, names, tmp) /\ Extends(names, names)
      BY <2>2 DEF Accepted, Extends
    <3>8. Traced(Declared, names, source[c], W, 0)
      BY <3>1, <3>6, <3>7, EmptyBody DEF Traced
    <3>9. BodyTrace(Declared, names, tmp, source, code[c], c, 0, TRUE, W)
      BY <3>4, <3>5, <3>6, <3>8 DEF BodyTrace
    <3> QED
      BY <2>1, <2>2, <2>3, <2>4, <2>7, <3>1, <3>9, EmptyBody
  <2> QED
    BY <2>6, <2>7
<1>3. ASSUME UNCHANGED <<node, phase, names, tmp, code, source>> PROVE TraceInv'
  <2>1. /\ Declared' = Declared /\ Accepted' = Accepted /\ Begins' = Begins /\ Current' = Current
        /\ \A b \in Bodies : Translated(b)' = Translated(b)
    BY <1>3 DEF Declared, Accepted, Begins, Current, Translated, LastBody, Written
  <2> QED
    BY <1>3, <2>1 DEF TraceInv
<1>4. ASSUME NEW st \in Statements(node), VisitStatement(st) PROVE TraceInv'
  BY <1>1, <1>4 DEF TraceInv
<1>5. CASE EndBody
  BY <1>2, <1>5 DEF TraceInv
<1>6. ASSUME NEW input \in Inputs, Call(input) PROVE TraceInv'
  BY <1>3, <1>6 DEF Call
<1>7. CASE UNCHANGED vars
  BY <1>3, <1>7 DEF vars
<1> QED
  BY <1>4, <1>5, <1>6, <1>7 DEF Next

LEMMA ScopeInit == Init => ScopeInv
<1> SUFFICES ASSUME Init PROVE ScopeInv
  OBVIOUS
<1>1. source = [c \in Bodies |-> <<>>]
  BY DEF Init
<1> QED
  BY <1>1, EmptyBody DEF ScopeInv

LEMMA ScopeStep == TableInv /\ OrderInv /\ ScopeInv /\ [Next]_vars => ScopeInv'
<1> SUFFICES ASSUME TableInv, OrderInv, ScopeInv, [Next]_vars PROVE ScopeInv'
  OBVIOUS
<1>1. ASSUME NEW st \in Statements(node), Meaningful(st), VisitStatement(st),
             NEW b \in Bodies, NEW j \in DOMAIN source'[b]
      PROVE  Scoped(Parameters(b), source[b], j)'
  <2> DEFINE src1 == [source EXCEPT ![phase] = Append(source[phase], st)]
             k == Len(source[phase])
  <2>1. node' = node /\ phase \in Bodies /\ Accepted /\ IsSources(source) /\ source' = src1
    BY <1>1, VisitEffect
  <2>2. /\ k \in Nat /\ DOMAIN source[phase] = 1 .. k /\ DOMAIN src1[phase] = 1 .. k + 1
        /\ src1[phase][k + 1] = st
        /\ \A c \in Bodies : c # phase => src1[c] = source[c]
        /\ \A c \in Bodies : \A i \in DOMAIN source[c] : i \in DOMAIN src1[c] /\ src1[c][i] = source[c][i]
    BY <2>1, Appended
  <2> HIDE DEF src1, k
  <2>3. Declared' = Declared
    BY <2>1 DEF Declared
  <2>4. \A c : Parameters(c)' = Parameters(c)
    BY <2>3 DEF Parameters
  <2>5. DOMAIN source[b] = 1 .. Len(source[b]) /\ Len(source[b]) \in Nat
    BY <2>1 DEF IsSources, IsSource, IsSequence
  <2>6. j \in Nat
    BY <2>1, <2>2, <2>5
  <2>7. ASSUME j - 1 <= Len(source[b]) PROVE \A i \in 1 .. j - 1 : src1[b][i] = source[b][i]
    <3>1. \A i \in 1 .. j - 1 : i \in DOMAIN source[b]
      BY <2>5, <2>6, <2>7
    <3> QED
      BY <2>2, <3>1
  <2>10. Scoped(Parameters(b), source[b], j)' = Scoped(Parameters(b), src1[b], j)
    BY <2>1, <2>4
  <2>8. CASE j \in DOMAIN source[b]
    <3>1. Scoped(Parameters(b), source[b], j) /\ src1[b][j] = source[b][j] /\ j - 1 <= Len(source[b])
      BY <2>2, <2>5, <2>8 DEF ScopeInv
    <3> QED
      BY <2>6, <2>7, <2>10, <3>1, ScopedLater
  <2>9. CASE j \notin DOMAIN source[b]
    <3>1. b = phase /\ j = k + 1
      BY <2>1, <2>2, <2>9
    <3>2. src1[b][j] = st /\ j - 1 = k /\ j - 1 <= Len(source[b])
      BY <2>2, <3>1 DEF k
    <3>3. InScope(phase) = Scope(Parameters(b), source[b], k)
      <4>1. Assigned(source[phase]) = {source[b][i].n : i \in {i \in 1 .. k : source[b][i].s = "assign"}}
        BY <2>2, <3>1 DEF Assigned
      <4>2. \A kind \in HostKinds : Visible(kind) = {v.name : v \in {v \in Declared : v.source = kind}}
        BY <2>1, DeclaredVariables DEF Visible, TableInv
      <4> QED
        BY <3>1, <4>1, <4>2 DEF InScope, Scope, Parameters, HostKinds
    <3>4. /\ \A i \in DOMAIN st.es : Used(st.es[i]) \subseteq Scope(Parameters(b), source[b], k)
          /\ st.s = "field" => st.n \in Scope(Parameters(b), source[b], k)
          /\ \A i \in 1 .. k : source[b][i].s # "return"
      BY <1>1, <2>2, <3>1, <3>3 DEF Meaningful
    <3>5. \A i \in 1 .. k : src1[b][i] = source[b][i]
      BY <2>7, <3>2
    <3>6. Scope(Parameters(b), src1[b], k) = Scope(Parameters(b), source[b], k)
      BY <2>6, <3>2, <3>5, ScopedLater
    <3>7. Scoped(Parameters(b), src1[b], j)
      BY <3>2, <3>4, <3>5, <3>6 DEF Scoped
    <3> QED
      BY <2>10, <3>7
  <2> QED
    BY <2>8, <2>9
<1>2. ASSUME UNCHANGED <<node, source>> PROVE ScopeInv'
  BY <1>2 DEF ScopeInv, Scoped, Scope, Parameters, Declared
<1>3. ASSUME NEW st \in Statements(node), Meaningful(st), VisitStatement(st) PROVE ScopeInv'
  BY <1>1, <1>3 DEF ScopeInv
<1>4. CASE EndBody
  BY <1>2, <1>4 DEF EndBody
<1>5. ASSUME NEW input \in Inputs, Call(input) PROVE ScopeInv'
  BY <1>2, <1>5 DEF Call
<1>6. CASE UNCHANGED vars
  BY <1>2, <1>6 DEF vars
<1> QED
  BY <1>3, <1>4, <1>5, <1>6 DEF Next

LEMMA TraceHolds == Spec => [](TableInv /\ RunInv /\ OrderInv /\ TraceInv /\ ScopeInv)
<1>1. Spec => []RunInv
  BY RunInit, RunStep, TableHolds, PTL DEF Spec
<1>2. Spec => []OrderInv
  BY OrderInit, OrderStep, TableHolds, PTL DEF Spec
<1>3. Spec => []TraceInv
  BY <1>2, TraceInit, TraceInvStep, TableHolds, PTL DEF Spec
<1>4. Spec => []ScopeInv
  BY <1>2, ScopeInit, ScopeStep, TableHolds, PTL DEF Spec
<1> QED
  BY <1>1, <1>2, <1>3, <1>4, TableHolds, PTL

-----------------------------------------------------------------------------
\* The types the compiler knows

TypeIn(table, n) == IF Known(table, n) THEN table[n].type ELSE Unknown
SameTypes(table, later) == \A n : IsSourceName(n) => TypeIn(later, n) = TypeIn(table, n)

StaticType(table, x) ==
  IF x.e = "name" THEN TypeIn(table, x.n)
  ELSE IF x.e \in {"const", "datetime"} THEN [class |-> "PrimitiveType", value |-> x.v.type]
  ELSE IF x.e = "less" THEN [class |-> "PrimitiveType", value |-> "bool"] ELSE Unknown

LEMMA ExpressionKinds ==
  ASSUME NEW x, IsExpression(x)
  PROVE  /\ x.e \in {"none", "name", "const", "field", "plus", "less", "datetime"}
         /\ x.e = "none" <=> x = Nil
         /\ x.e = "name" => x = Name(x.n) /\ IsSourceName(x.n)
         /\ x.e = "const" => x = Const(x.v) /\ x.v.type \in Primitives /\ IsNumber(x.v)
         /\ x.e = "field" => x = Field(x.l) /\ x.l = Name(x.l.n) /\ IsSourceName(x.l.n)
         /\ x.e \in {"plus", "less"} => x = Op(x.e, x.l, x.r) /\ IsOperand(x.l) /\ IsOperand(x.r)
         /\ x.e = "datetime" => x = Datetime(x.v.n) /\ IsNumber(x.v) /\ x.v.type = "int"
<1>1. Nil.e = "none"
  BY DEF Nil
<1>2. \A n : Datetime(n).v.type = "int"
  BY DEF Datetime, Value
<1> QED
  BY <1>1, <1>2 DEF IsExpression, IsOperand

LEMMA StaticTypes ==
  ASSUME NEW d, NEW D, NEW table, NEW count, Created(d, D), TableOK(D, table, count),
         NEW x, IsExpression(x), x # Nil
  PROVE  from_ast(table, count, x).var.type = StaticType(table, x)
<1> DEFINE r == from_ast(table, count, x)
<1>1. Computes(D, table, count, x, r)
  BY FromAst
<1> SUFFICES r.var.type = StaticType(table, x)
  OBVIOUS
<1> HIDE DEF r
<1>2. x.e \in {"name", "const", "field", "plus", "less", "datetime"}
  BY ExpressionKinds
<1>3. CASE x.e \in {"name", "const"}
  BY <1>1, <1>3 DEF Computes, StaticType, TypeIn
<1>4. CASE x.e \in {"field", "plus", "less", "datetime"}
  <2> DEFINE y == visit(table, x)
  <2>1. r.var.type = get_type_from_ast(y)
    BY <1>1, <1>4 DEF Computes
  <2>2. x.e \in {"plus", "less"} => y.e = x.e
    BY DEF visit, Op
  <2>3. x.e = "field" => y.e = "field"
    <3>1. x.e = "field" => x = Field(x.l)
      BY ExpressionKinds
    <3>2. x.e = "field" => y = x \/ y = Field(visit_Name(table, x.l.n))
      BY DEF visit, visit_atom
    <3> QED
      BY <3>1, <3>2 DEF Field
  <2>4. x.e = "datetime" => y.e = "const" /\ y.v = x.v /\ x.v.type = "int"
    <3>1. x.e = "datetime" => y = Const(x.v)
      BY DEF visit, visit_atom
    <3> QED
      BY <3>1, ExpressionKinds DEF Const
  <2> HIDE DEF y
  <2> QED
    BY <1>4, <2>1, <2>2, <2>3, <2>4, GeneratedTypes DEF StaticType, Primitives
<1> QED
  BY <1>2, <1>3, <1>4 DEF r

(* What an expression adds to the table has no type.                       *)
LEMMA FromAstTypes ==
  ASSUME NEW d, NEW D, NEW table, NEW count, Created(d, D), TableOK(D, table, count),
         NEW x, IsExpression(x)
  PROVE  SameTypes(table, from_ast(table, count, x).names)
<1> DEFINE r == from_ast(table, count, x)
           t == Temporary(count)
<1>1. count \in Nat /\ ~IsSourceName(t)
  BY TemporaryNames DEF TableOK
<1>2. \A v : SameTypes(table, With(table, t, v))
  <2> HIDE DEF t
  <2> QED
    BY <1>1 DEF SameTypes, With, TypeIn, Known
<1>3. CASE x.e = "name" /\ Known(table, x.n)
  <2>1. r = [var |-> table[x.n], code |-> <<>>, names |-> table, tmp |-> count]
    BY <1>3 DEF from_ast
  <2> HIDE DEF r
  <2> QED
    BY <2>1 DEF SameTypes, r
<1>4. CASE x.e = "name" /\ ~Known(table, x.n)
  <2> DEFINE v == LocalVariableSource(Unknown, x.n)
  <2>1. r = [var |-> v, code |-> <<>>, names |-> With(table, x.n, v), tmp |-> count]
    BY <1>4 DEF from_ast
  <2>2. v.type = Unknown
    BY DEF LocalVariableSource, Source
  <2> HIDE DEF r, v
  <2>3. r.names = With(table, x.n, v)
    BY <2>1
  <2>4. SameTypes(table, With(table, x.n, v))
    BY <1>4, <2>2 DEF SameTypes, With, TypeIn, Known
  <2> QED
    BY <2>3, <2>4 DEF r
<1>5. CASE x.e # "name"
  <2>1. \E v : r.names = With(table, t, v)
    <3>1. CASE x.e = "const"
      <4> DEFINE v == LocalConstantSource(get_type(x.v.type, "unknown"), t, x.v)
      <4>1. r = [var |-> v, code |-> <<>>, names |-> With(table, t, v), tmp |-> count + 1]
        BY <3>1 DEF from_ast
      <4> HIDE DEF r, v
      <4> QED
        BY <4>1
    <3>2. CASE x.e = "none"
      <4> DEFINE v == LocalConstantSource(Unknown, t, Value("none", 0))
      <4>1. r = [var |-> v, code |-> <<>>, names |-> With(table, t, v), tmp |-> count + 1]
        BY <3>2 DEF from_ast
      <4> HIDE DEF r, v
      <4> QED
        BY <4>1
    <3>3. CASE x.e \notin {"name", "const", "none"}
      <4> DEFINE y == visit(table, x)
                 v == LocalVariableSource(get_type_from_ast(y), t)
      <4>1. r = [var |-> v, code |-> <<Assign(t, y)>>, names |-> With(table, t, v), tmp |-> count + 1]
        BY <3>3 DEF from_ast
      <4> HIDE DEF r, v
      <4> QED
        BY <4>1
    <3> QED
      BY <1>5, <3>1, <3>2, <3>3
  <2> QED
    BY <1>2, <2>1
<1> QED
  BY <1>3, <1>4, <1>5

(* An output is written, or not, by what the table says of the value.      *)
EmitAccepted(D, table, i, x) ==
  \E out \in D : out.source = "OutputSource" /\ out.idx = i /\ write_accepts(out, StaticType(table, x))

LEMMA LaterStatic ==
  ASSUME NEW d, NEW D, NEW table, NEW count, Created(d, D), TableOK(D, table, count),
         NEW x, IsExpression(x), x # Nil, NEW later, Extends(from_ast(table, count, x).names, later)
  PROVE  StaticType(later, x) = StaticType(table, x)
<1> DEFINE r == from_ast(table, count, x)
<1>1. SameTypes(table, r.names) /\ (x.e = "name" => Known(r.names, x.n) /\ IsSourceName(x.n))
  BY FromAstTypes, FromAstNames, ExpressionKinds
<1> HIDE DEF r
<1>2. x.e = "name" => TypeIn(later, x.n) = TypeIn(r.names, x.n)
  BY <1>1 DEF Extends, TypeIn, Known, r
<1> QED
  BY <1>1, <1>2 DEF StaticType, SameTypes

(* What was accepted is accepted by the table of the end.                  *)
LEMMA OutputAccepted ==
  ASSUME NEW d, NEW D, NEW table, NEW count, Created(d, D), TableOK(D, table, count),
         NEW st, IsExpression(st.es[1]), visit_set_output(table, count, st).ok, IsSourceName(st.n),
         NEW later, Extends(visit_set_output(table, count, st).names, later)
  PROVE  /\ Known(table, st.n) /\ Known(later, st.n) /\ later[st.n] = table[st.n] /\ table[st.n] \in D
         /\ table[st.n].source = "OutputSource" /\ st.es[1] # Nil
         /\ EmitAccepted(D, later, later[st.n].idx, st.es[1])
<1> DEFINE r == visit_set_output(table, count, st)
           f == from_ast(table, count, st.es[1])
           x == st.es[1]
<1>1. /\ VisitOK(D, table, r) /\ r.names = f.names /\ x # Nil
      /\ Known(table, st.n) /\ Emits(D, table[st.n], x, f, <<>>, r.code)
  BY VisitSetOutput
<1>2. f.var.type = StaticType(table, x)
  BY <1>1, StaticTypes
<1> HIDE DEF r
<1>3. StaticType(later, x) = StaticType(table, x)
  BY <1>1, LaterStatic DEF r
<1> HIDE DEF f, x
<1>4. Known(later, st.n) /\ later[st.n] = table[st.n]
  BY <1>1, ExtendsIsTransitive DEF VisitOK, Extends, Known, r
<1> QED
  BY <1>1, <1>2, <1>3, <1>4 DEF Emits, EmitAccepted, x

LEMMA ReturnAccepted ==
  ASSUME NEW d, NEW D, NEW table, NEW count, Created(d, D), TableOK(D, table, count),
         NEW st, IsSequence(st.es), \A i \in DOMAIN st.es : IsExpression(st.es[i]),
         visit_Return(table, count, st).ok,
         NEW later, Extends(visit_Return(table, count, st).names, later), NEW i \in 1 .. Len(st.es), st.es[i] # Nil
  PROVE  EmitAccepted(D, later, i, st.es[i])
<1> DEFINE r == visit_Return(table, count, st)
           x == st.es[i]
           n == Len(st.es)
<1>1. PICK f : ReturnTrace(D, table, count, st.es, r, f)
  BY VisitReturn
<1>2. n \in Nat /\ DOMAIN st.es = 1 .. n /\ IsExpression(x)
  BY DEF IsSequence
<1> DEFINE g == from_ast(f[i - 1].names, f[i - 1].tmp, x)
<1>3. i - 1 \in 0 .. n /\ i \in 0 .. n
  BY <1>2
<1> HIDE DEF r, n
<1>4. /\ Returns(D, f[i - 1], i, x, f[i]) /\ VisitOK(D, table, f[i - 1]) /\ Extends(f[i].names, r.names)
  BY <1>1, <1>3 DEF ReturnTrace, n
<1>5. /\ f[i].names = g.names
      /\ \E out \in D : out.idx = i /\ Emits(D, out, x, g, f[i - 1].code, f[i].code)
  BY <1>4 DEF Returns
<1>6. TableOK(D, f[i - 1].names, f[i - 1].tmp)
  BY <1>4 DEF VisitOK
<1>7. Extends(g.names, later)
  BY <1>4, <1>5, ExtendsIsTransitive DEF r
<1>8. g.var.type = StaticType(later, x)
  BY <1>2, <1>6, <1>7, StaticTypes, LaterStatic
<1> HIDE DEF g, x
<1>9. EmitAccepted(D, later, i, x)
  BY <1>5, <1>8 DEF Emits, EmitAccepted
<1> QED
  BY <1>9 DEF x

-----------------------------------------------------------------------------
\* The machine of Python

PyValue(v) == (Number(v) /\ IsNumber(v)) \/ StructPointer(v)
PyCells(cells) == DOMAIN cells = Cells /\ \A c \in Cells : Number(cells[c]) /\ IsNumber(cells[c])
PyOK(m) == IsMachine(m) /\ PyCells(m.cells) /\ \A n \in DOMAIN m.env : PyValue(m.env[n])

(* Names hold the types they were given, but for those that leak, and a    *)
(* name is not a struct and a number.                                      *)
PyTyped(m) ==
  \A n \in DOMAIN m.env :
    /\ Typed(n) /\ Retyped(n) \notin m.leaks => TypeOf(m.env[n]) = PythonType(names[n])
    /\ Known(names, n) /\ ~m.fault => (ToStruct(m.env[n]) <=> ~Scalar(names[n]))

LEMMA Halves ==
  /\ \A n \in Int : int(n) \in Int /\ int(n) % 2 = 0 /\ (n % 2 = 0 => int(n) = n)
  /\ \A a, b \in Int : a % 2 = 0 /\ b % 2 = 0 => (a + b) % 2 = 0
BY DEF int

LEMMA ConvertNumber ==
  ASSUME NEW type, type \in Primitives \cup {"datetime"}, NEW v, v.n \in Int
  PROVE  LET c == Convert(type, v)
         IN  Number(c) /\ IsNumber(c) /\ c.type = (IF type = "datetime" THEN "int" ELSE type)
             /\ (type = "float" \/ v.n % 2 = 0 => c.n = v.n)
<1>1. CASE type = "int" \/ type = "datetime"
  <2>1. Convert(type, v) = Value("int", int(v.n))
    BY <1>1, NumbaNames DEF Convert
  <2> QED
    BY <1>1, <2>1, Halves DEF Value, Number, Primitives, IsNumber
<1>2. CASE type = "float"
  <2>1. Convert(type, v) = Value("float", v.n)
    BY <1>2, NumbaNames DEF Convert
  <2> QED
    BY <1>2, <2>1 DEF Value, Number, Primitives, IsNumber
<1>3. CASE type = "bool"
  <2>1. Convert(type, v) = Value("bool", int(v.n))
    BY <1>3, NumbaNames DEF Convert
  <2> QED
    BY <1>3, <2>1, Halves DEF Value, Number, Primitives, IsNumber
<1> QED
  BY <1>1, <1>2, <1>3 DEF Primitives

LEMMA PyValueFacts ==
  ASSUME AcceptedNode, NEW v, PyValue(v)
  PROVE  /\ v.type # "nothing" /\ v # Nothing
         /\ ToStruct(v) <=> StructPointer(v)
         /\ ToStruct(v) <=> ~Number(v)
         /\ Number(v) => IsNumber(v) /\ v.n \in Int /\ TypeOf(v) = v.type /\ v.type \in Primitives
         /\ ToStruct(v) => v.n \in Cells /\ TypeOf(v) = CellType(v.n) /\ TypeOf(v) \notin Primitives \cup {"datetime"}
<1>1. v.type # "nothing"
  BY PointerFacts DEF PyValue, Number, Primitives
<1>2. Number(v) => v.type # "pointer" /\ TypeOf(v) = v.type /\ v.type \in Primitives /\ ~StructPointer(v)
  BY PointerFacts DEF TypeOf, Number
<1>3. StructPointer(v) => v.type = "pointer" /\ TypeOf(v) = CellType(v.n)
  BY PointerFacts DEF TypeOf
<1> QED
  BY <1>1, <1>2, <1>3, PointerFacts, NothingType DEF PyValue, IsNumber

LEMMA PyAtom ==
  ASSUME NEW m, PyOK(m), NEW x, IsOperand(x)
  PROVE  LET a == Atom(m.env, m.cells, x)
         IN  /\ PyValue(a) \/ a = Nothing
             /\ x.e = "const" => a = x.v /\ Number(a) /\ IsNumber(a)
             /\ x.e = "name" => a = IF Known(m.env, x.n) THEN m.env[x.n] ELSE Nothing
             /\ x.e \in {"const", "name"}
<1>1. CASE x.e = "const"
  <2>1. Atom(m.env, m.cells, x) = x.v
    BY <1>1 DEF Atom
  <2> QED
    BY <1>1, <2>1 DEF IsOperand, PyValue, Number
<1>2. CASE x.e = "name"
  <2>1. Atom(m.env, m.cells, x) = IF Known(m.env, x.n) THEN m.env[x.n] ELSE Nothing
    BY <1>2 DEF Atom
  <2> QED
    BY <1>2, <2>1 DEF PyOK, Known
<1> QED
  BY <1>1, <1>2 DEF IsOperand

(* What an expression is worth.                                            *)
LEMMA PyEval ==
  ASSUME AcceptedNode, NEW m, PyOK(m), NEW x, IsExpression(x)
  PROVE  LET v == Eval(m.env, m.cells, x)
         IN  /\ PyValue(v) \/ v = Nothing
             /\ v.type = "nothing" <=> v = Nothing
             /\ x = Nil => v = Nothing
             /\ x.e \in {"const", "datetime"} => v = x.v /\ Number(v)
             /\ x.e = "less" /\ v # Nothing => v.type = "bool" /\ Number(v)
             /\ x.e \in {"plus", "field"} /\ v # Nothing => Number(v)
             /\ x.e = "name" => v = IF Known(m.env, x.n) THEN m.env[x.n] ELSE Nothing
<1> DEFINE v == Eval(m.env, m.cells, x)
<1>0. x.e \in {"none", "name", "const", "field", "plus", "less", "datetime"} /\ (x.e = "none" <=> x = Nil)
  BY ExpressionKinds
<1>1. PyValue(v) \/ v = Nothing => (v.type = "nothing" <=> v = Nothing)
  BY PyValueFacts, NothingType
<1>2. CASE x.e \in {"name", "const"}
  <2>1. v = Atom(m.env, m.cells, x)
    BY <1>2 DEF Eval
  <2>2. IsOperand(x)
    BY <1>2 DEF IsExpression, IsOperand, Nil
  <2> HIDE DEF v
  <2> QED
    BY <1>0, <1>1, <1>2, <2>1, <2>2, PyAtom DEF v
<1>3. CASE x.e = "none"
  <2>1. v = Nothing
    BY <1>3 DEF Eval, Atom
  <2> HIDE DEF v
  <2> QED
    BY <1>0, <1>1, <1>3, <2>1 DEF v
<1>4. CASE x.e = "datetime"
  <2>1. v = x.v
    BY <1>4 DEF Eval, Atom
  <2>2. IsNumber(x.v) /\ x.v.type = "int"
    BY <1>4, ExpressionKinds
  <2>3. Number(x.v)
    BY <2>2 DEF Number, Primitives
  <2>4. x # Nil
    BY <1>0, <1>4
  <2> HIDE DEF v
  <2> QED
    BY <1>1, <1>4, <2>1, <2>2, <2>3, <2>4 DEF v, PyValue
<1>5. CASE x.e = "field"
  <2> DEFINE a == Atom(m.env, m.cells, x.l)
  <2>1. v = IF ToStruct(a) THEN m.cells[a.n] ELSE Nothing
    BY <1>5 DEF Eval
  <2>2. PyValue(a) \/ a = Nothing
    <3>0. x.l = Name(x.l.n) /\ IsSourceName(x.l.n)
      BY <1>5, ExpressionKinds
    <3>00. x.l.e = "name"
      BY <3>0 DEF Name
    <3>1. IsOperand(x.l)
      BY <3>0, <3>00 DEF IsOperand
    <3> QED
      BY <3>1, PyAtom
  <2>3. x # Nil
    BY <1>0, <1>5
  <2> HIDE DEF v, a
  <2>4. ToStruct(a) => a.n \in Cells
    BY <2>2, PyValueFacts, NothingType
  <2>5. v = Nothing \/ (Number(v) /\ IsNumber(v))
    BY <2>1, <2>4 DEF PyOK, PyCells
  <2> QED
    BY <1>1, <1>5, <2>3, <2>5 DEF v, PyValue
<1>6. CASE x.e \in {"plus", "less"}
  <2> DEFINE a == Atom(m.env, m.cells, x.l)
             b == Atom(m.env, m.cells, x.r)
  <2>1. v = IF ~(Number(a) /\ Number(b)) THEN Nothing
             ELSE IF x.e = "less" THEN Value("bool", IF a.n < b.n THEN 2 ELSE 0)
             ELSE Value(IF "float" \in {a.type, b.type} THEN "float" ELSE "int", a.n + b.n)
    BY <1>6 DEF Eval
  <2>2. (PyValue(a) \/ a = Nothing) /\ (PyValue(b) \/ b = Nothing)
    BY <1>6, ExpressionKinds, PyAtom
  <2>3. x # Nil
    BY <1>0, <1>6
  <2> HIDE DEF v, a, b
  <2>4. Number(a) /\ Number(b) => /\ a.n \in Int /\ b.n \in Int
                                  /\ a.type # "float" => a.n % 2 = 0
                                  /\ b.type # "float" => b.n % 2 = 0
    BY <2>2, NothingType, PointerFacts DEF PyValue, IsNumber
  <2>5. \A n \in Int : /\ Number(Value("bool", IF n = 0 THEN 2 ELSE 0)) /\ IsNumber(Value("bool", IF n = 0 THEN 2 ELSE 0))
                       /\ Number(Value("float", n)) /\ IsNumber(Value("float", n))
                       /\ Number(Value("int", n)) /\ (n % 2 = 0 => IsNumber(Value("int", n)))
    BY DEF Number, IsNumber, Value, Primitives
  <2>6. Number(Value("bool", 2)) /\ IsNumber(Value("bool", 2)) /\ Number(Value("bool", 0)) /\ IsNumber(Value("bool", 0))
        /\ \A n : Value("bool", n).type = "bool"
    BY DEF Number, IsNumber, Value, Primitives
  <2>7. CASE ~(Number(a) /\ Number(b))
    BY <1>1, <1>6, <2>1, <2>3, <2>7 DEF v
  <2>8. CASE Number(a) /\ Number(b) /\ x.e = "less"
    <3>1. v \in {Value("bool", 2), Value("bool", 0)}
      BY <2>1, <2>8
    <3> QED
      BY <1>1, <2>3, <2>6, <2>8, <3>1 DEF v, PyValue
  <2>9. CASE Number(a) /\ Number(b) /\ x.e = "plus"
    <3>1. v = Value(IF "float" \in {a.type, b.type} THEN "float" ELSE "int", a.n + b.n)
      BY <2>1, <2>9
    <3>2. a.n + b.n \in Int /\ ("float" \notin {a.type, b.type} => (a.n + b.n) % 2 = 0)
      <4>1. a.n \in Int /\ b.n \in Int
        BY <2>4, <2>9
      <4>2. "float" \notin {a.type, b.type} => a.n % 2 = 0 /\ b.n % 2 = 0
        BY <2>4, <2>9
      <4>3. a.n % 2 = 0 /\ b.n % 2 = 0 => (a.n + b.n) % 2 = 0
        BY <4>1, Halves
      <4> QED
        BY <4>1, <4>2, <4>3
    <3>3. Number(v) /\ IsNumber(v)
      BY <2>5, <3>1, <3>2
    <3> QED
      BY <1>1, <2>3, <2>9, <3>3 DEF v, PyValue
  <2> QED
    BY <1>6, <2>7, <2>8, <2>9
<1> QED
  BY <1>0, <1>2, <1>3, <1>4, <1>5, <1>6

(* What Python's machine becomes when it emits.                            *)
Leaks(m, i, x, v) ==
  TypeOf(v) # PythonType(OutputNamed(i)) \/ (Instant(x) /\ OutputNamed(i).type.class = "PrimitiveType")
EmitResult(m, i, x, v, k) ==
  /\ IsMachine(k) /\ k.env = m.env /\ k.done = m.done
  /\ IF v.type = "nothing"
       THEN k.fault = TRUE /\ k.cells = m.cells /\ k.ticks = m.ticks /\ k.leaks = m.leaks
       ELSE /\ k.cells = [m.cells EXCEPT ![<<"OutputSource", i>>] = Contents(m, v)]
            /\ k.ticks = m.ticks \cup {i}
            /\ k.leaks = (IF Leaks(m, i, x, v) THEN m.leaks \cup {Emitted(i, x)} ELSE m.leaks)
            /\ k.fault <=> (ToStruct(v) <=> Scalar(OutputNamed(i)))

LEMMA EmitIs ==
  ASSUME NEW m, IsMachine(m), ~m.fault, NEW i, NEW x, x # Nil, NEW v, v = Eval(m.env, m.cells, x)
  PROVE  EmitResult(m, i, x, v, Emit(m, i, x))
<1> DEFINE other == Leaks(m, i, x, v)
           k == Emit(m, i, x)
<1>1. k = IF v.type = "nothing" THEN [m EXCEPT !.fault = TRUE]
          ELSE [m EXCEPT !.cells[<<"OutputSource", i>>] = Contents(m, v), !.ticks = @ \cup {i},
                         !.leaks = IF other THEN @ \cup {Emitted(i, x)} ELSE @,
                         !.fault = ToStruct(v) # ~Scalar(OutputNamed(i))]
  BY DEF Emit, Leaks
<1> HIDE DEF other, k
<1>2. CASE v.type = "nothing"
  BY <1>1, <1>2 DEF EmitResult, IsMachine, k
<1>3. CASE v.type # "nothing"
  <2> DEFINE c == [m.cells EXCEPT ![<<"OutputSource", i>>] = Contents(m, v)]
             l == IF other THEN m.leaks \cup {Emitted(i, x)} ELSE m.leaks
             f == ToStruct(v) # ~Scalar(OutputNamed(i))
  <2>1. k = [m EXCEPT !.cells = c, !.ticks = m.ticks \cup {i}, !.leaks = l, !.fault = f]
    BY <1>1, <1>3
  <2>2. f <=> (ToStruct(v) <=> Scalar(OutputNamed(i)))
    BY DEF ToStruct, Scalar
  <2> HIDE DEF c, l, f
  <2>3. IsMachine(k) /\ k.env = m.env /\ k.done = m.done /\ k.cells = c /\ k.ticks = m.ticks \cup {i} /\ k.leaks = l
        /\ (k.fault <=> f)
    BY <2>1 DEF IsMachine
  <2> QED
    BY <1>3, <2>2, <2>3 DEF EmitResult, k, c, l, other
<1> QED
  BY <1>2, <1>3

AssignResult(m, st, v, k) ==
  /\ IsMachine(k) /\ k.cells = m.cells /\ k.ticks = m.ticks /\ k.done = m.done
  /\ IF v.type = "nothing"
       THEN k.fault = TRUE /\ k.env = m.env /\ k.leaks = m.leaks
       ELSE /\ k.env = With(m.env, st.n, v)
            /\ k.fault <=> Known(names, st.n) /\ (ToStruct(v) <=> Scalar(names[st.n]))
            /\ k.leaks = (IF Typed(st.n) /\ TypeOf(v) # PythonType(names[st.n]) THEN m.leaks \cup {Retyped(st.n)}
                                                                             ELSE m.leaks)

LEMMA AssignIs ==
  ASSUME NEW m, IsMachine(m), ~m.fault, ~m.done, NEW st, st.s = "assign", NEW v, v = Eval(m.env, m.cells, st.es[1])
  PROVE  AssignResult(m, st, v, PythonExecute(m, st))
<1> DEFINE retyped == Typed(st.n) /\ TypeOf(v) # PythonType(names[st.n])
           mixed == Known(names, st.n) /\ ToStruct(v) # ~Scalar(names[st.n])
           k == PythonExecute(m, st)
<1>1. k = IF v.type = "nothing" THEN [m EXCEPT !.fault = TRUE]
          ELSE [m EXCEPT !.env = With(@, st.n, v), !.fault = mixed,
                         !.leaks = IF retyped THEN @ \cup {Retyped(st.n)} ELSE @]
  BY DEF PythonExecute
<1>0. mixed <=> Known(names, st.n) /\ (ToStruct(v) <=> Scalar(names[st.n]))
  BY DEF ToStruct, Scalar
<1> HIDE DEF k, mixed
<1>2. CASE v.type = "nothing"
  BY <1>1, <1>2 DEF AssignResult, IsMachine, k
<1>3. CASE v.type # "nothing"
  <2> DEFINE e == With(m.env, st.n, v)
             l == IF retyped THEN m.leaks \cup {Retyped(st.n)} ELSE m.leaks
  <2>1. k = [m EXCEPT !.env = e, !.fault = mixed, !.leaks = l]
    BY <1>1, <1>3
  <2> HIDE DEF e, l
  <2>2. IsMachine(k) /\ k.env = e /\ k.cells = m.cells /\ k.ticks = m.ticks /\ k.done = m.done /\ k.leaks = l
        /\ (k.fault <=> mixed)
    BY <2>1 DEF IsMachine
  <2> QED
    BY <1>0, <1>3, <2>2 DEF AssignResult, k, e, l
<1> QED
  BY <1>2, <1>3

FieldResult(m, p, v, k) ==
  /\ IsMachine(k) /\ k.env = m.env /\ k.ticks = m.ticks /\ k.done = m.done /\ k.leaks = m.leaks
  /\ IF ~ToStruct(p) \/ ~Number(v)
       THEN k.fault = TRUE /\ k.cells = m.cells
       ELSE k.fault = m.fault /\ k.cells = [m.cells EXCEPT ![p.n] = Convert("float", v)]

LEMMA FieldIs ==
  ASSUME NEW m, IsMachine(m), ~m.fault, ~m.done, NEW st, st.s = "field",
         NEW v, v = Eval(m.env, m.cells, st.es[1]), NEW p, p = m.env[st.n]
  PROVE  FieldResult(m, p, v, PythonExecute(m, st))
<1> DEFINE k == PythonExecute(m, st)
           c == [m.cells EXCEPT ![p.n] = Convert("float", v)]
<1>1. k = IF ~ToStruct(p) \/ ~Number(v) THEN [m EXCEPT !.fault = TRUE] ELSE [m EXCEPT !.cells = c]
  BY DEF PythonExecute
<1> HIDE DEF k, c
<1>2. FieldResult(m, p, v, k)
  BY <1>1 DEF FieldResult, IsMachine, c
<1> QED
  BY <1>2 DEF k

(* Which types an output takes.                                            *)
LEMMA WriteCases ==
  ASSUME AcceptedNode, NEW out \in Declared, out.source = "OutputSource", NEW t \in Types
  PROVE  /\ out.type.class \in {"StructType", "PrimitiveType", "DateTimeType"}
         /\ out.type.class = "StructType" => /\ write_accepts(out, t) <=> t = out.type
                                             /\ PythonType(out) = out.type.value /\ out.type.value \in Structs
         /\ out.type.class = "PrimitiveType" => /\ write_accepts(out, t) <=> t = Unknown \/ t.value = out.type.value
                                                /\ PythonType(out) = out.type.value /\ out.type.value \in Primitives
         /\ out.type.class = "DateTimeType" => write_accepts(out, t) /\ PythonType(out) = "int"
         /\ OutputNamed(out.idx) = out
         /\ out \in CellVars
<1>1. Created(node, Declared) /\ Of(names, "OutputSource") = {v \in Declared : v.source = "OutputSource"}
      /\ CellVars = {v \in Declared : v.source # "ConstantSource"}
  BY DeclaredVariables DEF AcceptedNode, HostKinds
<1>2. out.type \in DeclaredTypes
  BY <1>1 DEF Created, IsHostVariable
<1>3. \/ out.type.class = "PrimitiveType" /\ out.type.value \in Primitives
      \/ out.type.class = "DateTimeType" /\ out.type.value = "datetime"
      \/ out.type.class = "StructType" /\ out.type.value \in Structs
  BY <1>2 DEF DeclaredTypes, Types
<1>4. /\ "datetime" \notin Structs /\ "unknown" \notin Structs /\ "datetime" \notin Primitives /\ "unknown" \notin Primitives
      /\ \A s \in Structs : s \notin Primitives
  BY StructWords DEF Primitives
<1>5. t.value = "unknown" <=> t = Unknown
  BY <1>4 DEF Types, Unknown
<1>6. OutputNamed(out.idx) = out
  <2>1. \A w \in Of(names, "OutputSource") : w.idx = out.idx => w = out
    BY <1>1 DEF Created
  <2>2. out \in Of(names, "OutputSource")
    BY <1>1
  <2> QED
    BY <2>1, <2>2 DEF OutputNamed
<1>7. out.type.class = "StructType" => PythonType(out) = out.type.value
  BY <1>3, <1>4 DEF PythonType
<1>8. out.type.class = "PrimitiveType" => PythonType(out) = out.type.value
  BY <1>3, <1>4 DEF PythonType
<1>9. out.type.class = "DateTimeType" => PythonType(out) = "int"
  BY <1>3 DEF PythonType
<1>10. out.type.class = "StructType" => (write_accepts(out, t) <=> t = out.type)
  BY DEF write_accepts
<1>11. out.type.class = "PrimitiveType" => (write_accepts(out, t) <=> t = Unknown \/ t.value = out.type.value)
  BY <1>5 DEF write_accepts
<1>12. out.type.class = "DateTimeType" => write_accepts(out, t)
  BY DEF write_accepts
<1> QED
  BY <1>1, <1>3, <1>6, <1>7, <1>8, <1>9, <1>10, <1>11, <1>12

LEMMA KnownTypes ==
  ASSUME AcceptedNode, NEW x, IsExpression(x)
  PROVE  /\ StaticType(names, x) \in Types
         /\ x.e = "name" => /\ Typed(x.n) <=> StaticType(names, x) # Unknown
                            /\ Typed(x.n) => names[x.n].type = StaticType(names, x) /\ Known(names, x.n)
         /\ x.e \in {"const", "datetime"} => x.v.type \in Primitives
<1>1. TableOK(Declared, names, tmp) /\ Created(node, Declared)
  BY DeclaredVariables DEF AcceptedNode, Accepted
<1>2. ASSUME x.e = "name", Known(names, x.n) PROVE names[x.n].type \in Types
  <2>1. Entry(Declared, x.n, names[x.n]) /\ IsSourceName(x.n)
    BY <1>1, <1>2, ExpressionKinds DEF TableOK, Known
  <2>2. \A v \in Declared : v.type \in Types
    BY <1>1 DEF Created, IsHostVariable, DeclaredTypes
  <2> QED
    BY <2>1, <2>2 DEF Entry
<1>3. Unknown \in Types /\ \A t \in Primitives : [class |-> "PrimitiveType", value |-> t] \in Types
  BY DEF Types, Unknown
<1>4. x.e \in {"const", "datetime"} => x.v.type \in Primitives
  BY ExpressionKinds DEF Primitives
<1>5. "bool" \in Primitives
  BY DEF Primitives
<1> QED
  BY <1>2, <1>3, <1>4, <1>5 DEF StaticType, TypeIn, Typed

LeakOK(i, x, leaks) ==
  OutputNamed(i).type.class # "DateTimeType" =>
    /\ x.e \notin {"const", "less"}
    /\ x.e = "name" /\ Typed(x.n) => Retyped(x.n) \in leaks
    /\ ~Scalar(OutputNamed(i)) => x.e = "name" /\ Typed(x.n)
LeaksOK(leaks) == \A l \in leaks : l.kind = "emitted" => LeakOK(l.i, l.x, leaks)

LEMMA LeakKinds ==
  /\ \A i, x : Emitted(i, x).kind = "emitted" /\ Emitted(i, x).i = i /\ Emitted(i, x).x = x
  /\ \A n : Retyped(n).kind = "retyped" /\ Retyped(n).n = n
  /\ \A i, x, n : Emitted(i, x) # Retyped(n)
<1>1. \A i, x : Emitted(i, x).kind = "emitted" /\ Emitted(i, x).i = i /\ Emitted(i, x).x = x
  BY DEF Emitted
<1>2. \A n : Retyped(n).kind = "retyped" /\ Retyped(n).n = n
  BY DEF Retyped
<1> QED
  BY <1>1, <1>2

(* What an output that takes the value says of a leak.                     *)
LEMMA AcceptedLeak ==
  ASSUME AcceptedNode, NEW m, PyOK(m), PyTyped(m), NEW x, IsExpression(x), x # Nil,
         NEW v, v = Eval(m.env, m.cells, x), v.type # "nothing",
         NEW out \in Declared, out.source = "OutputSource", write_accepts(out, StaticType(names, x)),
         Leaks(m, out.idx, x, v)
  PROVE  LeakOK(out.idx, x, m.leaks)
<1> DEFINE t == StaticType(names, x)
<1>1. t \in Types
  BY KnownTypes
<1>2. /\ out.type.class \in {"StructType", "PrimitiveType", "DateTimeType"}
      /\ out.type.class = "StructType" => t = out.type /\ PythonType(out) = out.type.value /\ out.type.value \in Structs
      /\ out.type.class = "PrimitiveType" => /\ t = Unknown \/ t.value = out.type.value
                                             /\ PythonType(out) = out.type.value /\ out.type.value \in Primitives
      /\ OutputNamed(out.idx) = out
  BY <1>1, WriteCases
<1>3. TypeOf(v) # PythonType(out) \/ (Instant(x) /\ out.type.class = "PrimitiveType")
  BY <1>2 DEF Leaks
<1>4. /\ v # Nothing /\ PyValue(v)
      /\ x.e \in {"const", "datetime"} => v = x.v /\ Number(v)
      /\ x.e = "less" => v.type = "bool" /\ Number(v)
      /\ x.e = "name" => v = IF Known(m.env, x.n) THEN m.env[x.n] ELSE Nothing
  BY PyEval, NothingType
<1>5. x.e # "name" => ~Instant(x)
  BY DEF Instant
<1>6. Number(v) => TypeOf(v) = v.type
  BY <1>4, PyValueFacts
<1>7. Unknown.class = "UnknownType"
  BY DEF Unknown
<1>8. ASSUME out.type.class # "DateTimeType", x.e \in {"const", "less"} PROVE FALSE
  <2> DEFINE p == IF x.e = "const" THEN x.v.type ELSE "bool"
  <2>1. t = [class |-> "PrimitiveType", value |-> p]
    BY <1>8 DEF StaticType
  <2>2. TypeOf(v) = p
    BY <1>4, <1>6, <1>8
  <2> HIDE DEF p, t
  <2>3. t.class = "PrimitiveType" /\ t.value = p
    BY <2>1
  <2>4. out.type.class = "PrimitiveType" /\ PythonType(out) = p
    BY <1>2, <1>7, <1>8, <2>3
  <2> QED
    BY <1>3, <1>5, <1>8, <2>2, <2>4
<1>9. ASSUME out.type.class # "DateTimeType", x.e = "name", Typed(x.n), Retyped(x.n) \notin m.leaks PROVE FALSE
  <2>1. names[x.n].type = t /\ t # Unknown /\ Known(names, x.n)
    BY <1>9, KnownTypes
  <2> HIDE DEF t
  <2>2. t.value = out.type.value /\ PythonType(out) = out.type.value
    BY <1>2, <1>9, <2>1
  <2>3. out.type.value # "datetime"
    BY <1>2, <1>9, StructWords DEF Primitives
  <2>4. PythonType(names[x.n]) = PythonType(out)
    BY <2>1, <2>2, <2>3 DEF PythonType
  <2>5. x.n \in DOMAIN m.env /\ v = m.env[x.n]
    BY <1>4, <1>9 DEF Known
  <2>6. TypeOf(v) = PythonType(out)
    BY <1>9, <2>4, <2>5 DEF PyTyped
  <2>7. t.class = "DateTimeType" => t.value = "datetime"
    BY <1>1 DEF Types, Unknown
  <2>8. ~Instant(x)
    BY <2>1, <2>2, <2>3, <2>7 DEF Instant
  <2> QED
    BY <1>3, <2>6, <2>8
<1>10. ASSUME ~Scalar(out) PROVE x.e = "name" /\ Typed(x.n)
  <2>1. t = out.type /\ t.class = "StructType"
    BY <1>2, <1>10 DEF Scalar
  <2>2. x.e = "name"
    <3> SUFFICES ASSUME x.e # "name" PROVE FALSE
      OBVIOUS
    <3>1. t.class \in {"PrimitiveType", "UnknownType"}
      BY <1>7 DEF StaticType
    <3> HIDE DEF t
    <3> QED
      BY <2>1, <3>1
  <2>3. t # Unknown
    BY <1>7, <2>1
  <2> QED
    BY <2>2, <2>3, KnownTypes
<1> QED
  BY <1>2, <1>8, <1>9, <1>10 DEF LeakOK

(* An output that refuses the value: it leaks, or Python raises.           *)
PyKnown(table, m) == \A n \in DOMAIN m.env : ToStruct(m.env[n]) => Known(table, n)

LEMMA RefusedLeak ==
  ASSUME AcceptedNode, NEW m, PyOK(m), PyTyped(m), PyKnown(names, m), ~m.fault, m.leaks = {},
         NEW x, IsExpression(x), x # Nil,
         NEW v, v = Eval(m.env, m.cells, x), v.type # "nothing",
         NEW out \in Declared, out.source = "OutputSource", ~write_accepts(out, StaticType(names, x)),
         ~(ToStruct(v) <=> Scalar(out))
  PROVE  Leaks(m, out.idx, x, v)
<1> DEFINE t == StaticType(names, x)
<1>1. t \in Types
  BY KnownTypes
<1>2. /\ out.type.class \in {"StructType", "PrimitiveType"}
      /\ out.type.class = "StructType" => t # out.type /\ PythonType(out) = out.type.value /\ out.type.value \in Structs
      /\ out.type.class = "PrimitiveType" => /\ t # Unknown /\ t.value # out.type.value
                                             /\ PythonType(out) = out.type.value /\ out.type.value \in Primitives
      /\ OutputNamed(out.idx) = out
  BY <1>1, WriteCases
<1> SUFFICES ASSUME TypeOf(v) = PythonType(out), ~(Instant(x) /\ out.type.class = "PrimitiveType") PROVE FALSE
  BY <1>2 DEF Leaks
<1>3. /\ v # Nothing /\ PyValue(v)
      /\ x.e \in {"const", "datetime"} => v = x.v /\ Number(v)
      /\ x.e = "less" => v.type = "bool" /\ Number(v)
      /\ x.e \in {"plus", "field"} => Number(v)
      /\ x.e = "name" => v = IF Known(m.env, x.n) THEN m.env[x.n] ELSE Nothing
  BY PyEval, NothingType
<1>4. /\ Number(v) => TypeOf(v) = v.type /\ ~ToStruct(v)
      /\ ~Number(v) => ToStruct(v)
  BY <1>3, PyValueFacts
<1>5. x.e \in {"name", "const", "field", "plus", "less", "datetime"}
  BY ExpressionKinds
<1>6. ASSUME x.e = "name" PROVE FALSE
  <2>1. x.n \in DOMAIN m.env /\ v = m.env[x.n]
    BY <1>3, <1>6 DEF Known
  <2>2. Typed(x.n) => TypeOf(v) = PythonType(names[x.n]) /\ names[x.n].type = t
    BY <1>6, <2>1, KnownTypes DEF PyTyped
  <2>3. Typed(x.n) <=> t # Unknown
    BY <1>6, KnownTypes
  <2> HIDE DEF t
  <2>4. CASE out.type.class = "StructType"
    <3>1. ToStruct(v)
      BY <2>4 DEF Scalar
    <3>2. Known(names, x.n)
      BY <2>1, <3>1 DEF PyKnown
    <3>3. ~Scalar(names[x.n])
      BY <2>1, <3>1, <3>2 DEF PyTyped
    <3>4. names[x.n].type.class = "StructType" /\ names[x.n].type # Unknown
      BY <3>3 DEF Scalar, Unknown
    <3>5. Typed(x.n)
      BY <3>2, <3>4 DEF Typed
    <3>6. t.class = "StructType" /\ t.value \in Structs /\ t.value # "datetime"
      BY <1>1, <2>2, <3>4, <3>5, StructWords DEF Types, Unknown
    <3>7. t.value = out.type.value
      BY <1>2, <2>2, <2>4, <3>5, <3>6 DEF PythonType
    <3>8. t = [class |-> "StructType", value |-> t.value]
      BY <1>1, <3>6 DEF Types, Unknown
    <3>9. out.type = [class |-> "StructType", value |-> out.type.value]
      <4>1. out.type \in Types
        BY DeclaredVariables DEF AcceptedNode, Created, IsHostVariable, DeclaredTypes
      <4> QED
        BY <2>4, <4>1 DEF Types, Unknown
    <3> QED
      BY <1>2, <2>4, <3>7, <3>8, <3>9
  <2>5. CASE out.type.class = "PrimitiveType"
    <3>1. Typed(x.n) /\ TypeOf(v) = PythonType(names[x.n]) /\ names[x.n].type = t /\ Known(names, x.n)
      BY <1>2, <2>2, <2>3, <2>5 DEF Typed
    <3>2. t.value = "datetime" => t.class = "DateTimeType"
      BY <1>1, StructWords DEF Types, Primitives, Unknown
    <3>3. t.value # "datetime"
      BY <1>6, <2>5, <3>1, <3>2 DEF Instant
    <3>4. TypeOf(v) = t.value
      BY <3>1, <3>3 DEF PythonType
    <3> QED
      BY <1>2, <2>5, <3>4
  <2> QED
    BY <1>2, <2>4, <2>5
<1>7. ASSUME x.e # "name" PROVE FALSE
  <2>1. Number(v)
    BY <1>3, <1>5, <1>7
  <2>2. out.type.class = "PrimitiveType"
    BY <1>2, <1>4, <2>1 DEF Scalar
  <2>3. t # Unknown /\ t.value # v.type
    BY <1>2, <1>4, <2>1, <2>2
  <2>4. x.e \in {"const", "datetime", "less"}
    BY <1>5, <1>7, <2>3 DEF StaticType
  <2>5. t.value = v.type
    BY <1>3, <2>4 DEF StaticType
  <2> QED
    BY <2>3, <2>5
<1> QED
  BY <1>6, <1>7

-----------------------------------------------------------------------------
\* Python's machine, a statement at a time

PyInv(m) == PyOK(m) /\ PyTyped(m) /\ LeaksOK(m.leaks)
Later(m, k) == m.leaks \subseteq k.leaks /\ (m.fault => k.fault) /\ DOMAIN m.env \subseteq DOMAIN k.env

LEMMA LeaksGrow ==
  ASSUME NEW a, NEW b, LeaksOK(a), a \subseteq b,
         \A l \in b \ a : l.kind = "emitted" => LeakOK(l.i, l.x, b)
  PROVE  LeaksOK(b)
<1>1. ASSUME NEW l \in a, l.kind = "emitted" PROVE LeakOK(l.i, l.x, b)
  BY <1>1 DEF LeaksOK, LeakOK
<1> QED
  BY <1>1 DEF LeaksOK

LEMMA EmitKeeps ==
  ASSUME AcceptedNode, NEW m, PyInv(m), NEW i, NEW x, IsExpression(x),
         x # Nil => EmitAccepted(Declared, names, i, x)
  PROVE  LET k == Emit(m, i, x) IN PyInv(k) /\ Later(m, k) /\ k.env = m.env /\ k.done = m.done
<1> DEFINE k == Emit(m, i, x)
<1> SUFFICES PyInv(k) /\ Later(m, k) /\ k.env = m.env /\ k.done = m.done
  OBVIOUS
<1>0. PyOK(m) /\ PyTyped(m) /\ LeaksOK(m.leaks) /\ IsMachine(m) /\ PyCells(m.cells)
  BY DEF PyInv, PyOK
<1>1. CASE x = Nil \/ m.fault
  <2>1. k = m
    BY <1>1 DEF Emit
  <2> HIDE DEF k
  <2> QED
    BY <2>1 DEF Later
<1>2. CASE x # Nil /\ ~m.fault
  <2>1. PICK v : v = Eval(m.env, m.cells, x)
    OBVIOUS
  <2>2. EmitResult(m, i, x, v, k)
    BY <1>0, <1>2, <2>1, EmitIs
  <2> HIDE DEF k
  <2>3. IsMachine(k) /\ k.env = m.env /\ k.done = m.done
    BY <2>2 DEF EmitResult
  <2>4. CASE v.type = "nothing"
    <3>1. k.fault = TRUE /\ k.cells = m.cells /\ k.leaks = m.leaks
      BY <2>2, <2>4 DEF EmitResult
    <3> QED
      BY <1>0, <2>3, <3>1 DEF PyInv, PyOK, PyTyped, Later
  <2>5. CASE v.type # "nothing"
    <3>1. /\ k.cells = [m.cells EXCEPT ![<<"OutputSource", i>>] = Contents(m, v)]
          /\ k.leaks = (IF Leaks(m, i, x, v) THEN m.leaks \cup {Emitted(i, x)} ELSE m.leaks)
      BY <2>2, <2>5 DEF EmitResult
    <3>2. PICK out \in Declared : out.source = "OutputSource" /\ out.idx = i /\ write_accepts(out, StaticType(names, x))
      BY <1>2 DEF EmitAccepted
    <3>3. PyValue(v)
      BY <1>0, <2>1, <2>5, PyEval, NothingType
    <3>4. Number(Contents(m, v)) /\ IsNumber(Contents(m, v))
      <4>1. CASE Number(v)
        <5>1. IsNumber(v) /\ v.type # "pointer"
          BY <3>3, <4>1, PyValueFacts DEF Primitives
        <5> QED
          BY <4>1, <5>1 DEF Contents
      <4>2. CASE ~Number(v)
        <5>1. v.type = "pointer" /\ v.n \in Cells
          BY <3>3, <4>2, PyValueFacts, PointerFacts
        <5> QED
          BY <1>0, <5>1 DEF Contents, PyCells
      <4> QED
        BY <4>1, <4>2
    <3>5. PyCells(k.cells)
      <4> DEFINE c == Contents(m, v)
      <4> HIDE DEF c
      <4> QED
        BY <1>0, <3>1, <3>4 DEF PyCells, c
    <3>6. m.leaks \subseteq k.leaks /\ \A l \in k.leaks \ m.leaks : Leaks(m, i, x, v) /\ l = Emitted(i, x)
      BY <3>1
    <3>7. Leaks(m, i, x, v) => LeakOK(i, x, m.leaks)
      BY <1>0, <1>2, <2>1, <2>5, <3>2, AcceptedLeak
    <3>8. \A l \in k.leaks \ m.leaks : l.kind = "emitted" => LeakOK(l.i, l.x, k.leaks)
      BY <3>6, <3>7, LeakKinds DEF LeakOK
    <3>9. LeaksOK(k.leaks)
      BY <1>0, <3>6, <3>8, LeaksGrow
    <3>10. PyOK(k)
      BY <1>0, <2>3, <3>5 DEF PyOK
    <3>11. PyTyped(k)
      BY <1>0, <1>2, <2>3, <3>6 DEF PyTyped
    <3> QED
      BY <1>2, <2>3, <3>6, <3>9, <3>10, <3>11 DEF PyInv, Later
  <2> QED
    BY <2>4, <2>5
<1> QED
  BY <1>1, <1>2

(* The values of a return, one after the other.                            *)
EmitChain(m, xs, n, f) == f[0] = m /\ \A i \in 1 .. n : f[i] = Emit(f[i - 1], i, xs[i])

LEMMA EmitsKeep ==
  ASSUME AcceptedNode, NEW m, PyInv(m), NEW xs, NEW n \in Nat, NEW f, EmitChain(m, xs, n, f),
         \A i \in 1 .. n : IsExpression(xs[i]) /\ (xs[i] # Nil => EmitAccepted(Declared, names, i, xs[i]))
  PROVE  \A i \in 0 .. n : PyInv(f[i]) /\ Later(m, f[i]) /\ f[i].env = m.env /\ f[i].done = m.done
<1> DEFINE P(k) == PyInv(k) /\ Later(m, k) /\ k.env = m.env /\ k.done = m.done
           A == {k \in Nat : k <= n => P(f[k])}
<1>1. P(m)
  BY DEF Later
<1>2. ASSUME NEW k, P(k), NEW i, NEW x, IsExpression(x), x # Nil => EmitAccepted(Declared, names, i, x)
      PROVE  P(Emit(k, i, x))
  BY <1>2, EmitKeeps DEF Later
<1>3. A \in SUBSET Nat /\ 0 \in A
  BY <1>1 DEF EmitChain
<1> HIDE DEF P
<1>4. ASSUME NEW k \in Nat, k \in A PROVE k + 1 \in A
  <2> SUFFICES ASSUME k + 1 <= n PROVE P(f[k + 1])
    OBVIOUS
  <2>1. k + 1 \in 1 .. n /\ (k + 1) - 1 = k /\ P(f[k])
    BY <1>4
  <2>2. f[k + 1] = Emit(f[k], k + 1, xs[k + 1])
    BY <2>1 DEF EmitChain
  <2> QED
    BY <1>2, <2>1, <2>2
<1> HIDE DEF A
<1>5. A = Nat
  BY <1>3, <1>4, NatSetInduction
<1>6. \A i \in 0 .. n : P(f[i])
  BY <1>5 DEF A
<1> QED
  BY <1>6 DEF P

(* A name that is given what a known name holds is known.                  *)
LEMMA KnownAfter ==
  ASSUME NEW table, NEW count, NEW st, st.s = "assign", visit_statement(table, count, st).ok,
         st.es[1].e = "name", Known(table, st.es[1].n)
  PROVE  Known(visit_statement(table, count, st).names, st.n)
<1> DEFINE x == st.es[1]
           var == table[x.n]
<1>1. visit_statement(table, count, st) =
        IF var.opaque /\ ~Known(table, st.n)
        THEN Visited(<<Assign(st.n, get(var))>>, With(table, st.n, var), count)
        ELSE assign_known(table, count, st.n, var.type, get(var))
  BY DEF visit_statement, visit_Assign
<1> HIDE DEF x, var
<1>2. \A w : Known(With(table, st.n, w), st.n)
  BY DEF Known, With
<1>3. CASE var.opaque /\ ~Known(table, st.n)
  BY <1>1, <1>2, <1>3 DEF Visited
<1>4. CASE ~(var.opaque /\ ~Known(table, st.n))
  <2> DEFINE r == assign_known(table, count, st.n, var.type, get(var))
  <2>1. r.ok
    BY <1>1, <1>4
  <2>2. CASE Known(table, st.n)
    <3> DEFINE stmt == assignment(get(table[st.n]), get(var))
    <3>1. r = IF stmt = Bad THEN Raises ELSE Visited(<<stmt>>, table, count)
      BY <2>2 DEF assign_known
    <3> HIDE DEF stmt, r
    <3>2. r.names = table
      BY <2>1, <3>1 DEF Visited, Raises
    <3> QED
      BY <1>1, <1>4, <2>2, <3>2 DEF r
  <2>3. CASE ~Known(table, st.n)
    <3>1. r.names = With(table, st.n, LocalVariableSource(var.type, st.n))
      BY <2>3 DEF assign_known, Visited
    <3> QED
      BY <1>1, <1>2, <1>4, <3>1
  <2> QED
    BY <2>2, <2>3
<1> QED
  BY <1>3, <1>4

(* What a statement, translated with a table, does to Python's machine.    *)
PyNext(table, later, m, st, k) ==
  /\ PyInv(k) /\ Later(m, k) /\ PyKnown(later, k)
  /\ st.s # "return" => k.done = m.done
  /\ st.s = "assign" /\ ~m.done /\ ~k.fault => st.n \in DOMAIN k.env

LEMMA KnownLater ==
  ASSUME NEW table, NEW later, Extends(table, later), NEW m, PyKnown(table, m)
  PROVE  PyKnown(later, m)
BY DEF PyKnown, Extends, Known

LEMMA PyAssign ==
  ASSUME AcceptedNode, NEW m, PyInv(m), ~m.done, ~m.fault, NEW st, IsStatement(st), st.s = "assign",
         NEW table, NEW count, TableOK(Declared, table, count), visit_statement(table, count, st).ok,
         NEW later, later = visit_statement(table, count, st).names, PyKnown(table, m)
  PROVE  PyNext(table, later, m, st, PythonExecute(m, st))
<1> DEFINE k == PythonExecute(m, st)
           x == st.es[1]
<1>0. PyOK(m) /\ PyTyped(m) /\ LeaksOK(m.leaks) /\ IsMachine(m) /\ PyCells(m.cells)
  BY DEF PyInv, PyOK
<1>1. IsExpression(x)
  BY DEF IsStatement, IsSequence
<1>2. Extends(table, later)
  BY VisitStatementOK, DeclaredVariables DEF AcceptedNode, VisitOK
<1>3. PICK v : v = Eval(m.env, m.cells, x)
  OBVIOUS
<1>4. AssignResult(m, st, v, k)
  BY <1>0, <1>3, AssignIs
<1>5. Known(table, x.n) /\ x.e = "name" => Known(later, st.n)
  BY KnownAfter
<1>6. /\ PyValue(v) \/ v = Nothing
      /\ x = Nil => v = Nothing
      /\ x.e \in {"const", "datetime"} => Number(v)
      /\ x.e \in {"less", "plus", "field"} /\ v # Nothing => Number(v)
      /\ x.e = "name" => v = IF Known(m.env, x.n) THEN m.env[x.n] ELSE Nothing
  BY <1>0, <1>1, <1>3, PyEval
<1>7. x.e \in {"none", "name", "const", "field", "plus", "less", "datetime"} /\ (x.e = "none" <=> x = Nil)
  BY <1>1, ExpressionKinds
<1> HIDE DEF k, x
<1>8. IsMachine(k) /\ k.cells = m.cells /\ k.done = m.done
  BY <1>4 DEF AssignResult
<1>9. CASE v.type = "nothing"
  <2>1. k.fault = TRUE /\ k.env = m.env /\ k.leaks = m.leaks
    BY <1>4, <1>9 DEF AssignResult
  <2>2. PyKnown(later, m)
    BY <1>2, KnownLater
  <2>3. PyInv(k)
    BY <1>0, <1>8, <2>1 DEF PyInv, PyOK, PyTyped
  <2>4. Later(m, k)
    BY <2>1 DEF Later
  <2>5. PyKnown(later, k)
    BY <2>1, <2>2 DEF PyKnown
  <2> QED
    BY <1>8, <2>1, <2>3, <2>4, <2>5 DEF PyNext, k
<1>10. CASE v.type # "nothing"
  <2>1. /\ k.env = With(m.env, st.n, v)
        /\ k.fault <=> Known(names, st.n) /\ (ToStruct(v) <=> Scalar(names[st.n]))
        /\ k.leaks = (IF Typed(st.n) /\ TypeOf(v) # PythonType(names[st.n]) THEN m.leaks \cup {Retyped(st.n)}
                                                                             ELSE m.leaks)
    BY <1>4, <1>10 DEF AssignResult
  <2>2. PyValue(v)
    BY <1>6, <1>10, NothingType
  <2>3. /\ DOMAIN k.env = DOMAIN m.env \cup {st.n}
        /\ k.env[st.n] = v /\ \A n \in DOMAIN m.env : n # st.n => k.env[n] = m.env[n]
    BY <2>1 DEF With
  <2>4. \A n \in DOMAIN k.env : PyValue(k.env[n])
    BY <1>0, <2>2, <2>3 DEF PyOK
  <2>5. m.leaks \subseteq k.leaks /\ \A l \in k.leaks \ m.leaks : l = Retyped(st.n)
    BY <2>1
  <2>6. LeaksOK(k.leaks)
    BY <1>0, <2>5, LeaksGrow, LeakKinds
  <2>7. PyTyped(k)
    <3>1. ASSUME NEW n \in DOMAIN k.env, n # st.n
          PROVE  /\ Typed(n) /\ Retyped(n) \notin k.leaks => TypeOf(k.env[n]) = PythonType(names[n])
                 /\ Known(names, n) /\ ~k.fault => (ToStruct(k.env[n]) <=> ~Scalar(names[n]))
      BY <1>0, <2>3, <2>5, <3>1 DEF PyTyped
    <3>2. Typed(st.n) /\ Retyped(st.n) \notin k.leaks => TypeOf(v) = PythonType(names[st.n])
      BY <2>1
    <3>3. Known(names, st.n) /\ ~k.fault => (ToStruct(v) <=> ~Scalar(names[st.n]))
      <4>1. Known(names, st.n) /\ ~k.fault => ~(ToStruct(v) <=> Scalar(names[st.n]))
        BY <2>1
      <4> QED
        BY <4>1 DEF ToStruct, Scalar
    <3> QED
      BY <2>3, <3>1, <3>2, <3>3 DEF PyTyped
  <2>8. PyKnown(later, k)
    <3>1. PyKnown(later, m)
      BY <1>2, KnownLater
    <3>2. ASSUME ToStruct(v) PROVE Known(later, st.n)
      <4>1. ~Number(v)
        BY <2>2, <3>2, PyValueFacts
      <4>2. x.e = "name" /\ Known(m.env, x.n) /\ v = m.env[x.n]
        BY <1>6, <1>7, <1>10, <4>1, NothingType
      <4>3. Known(table, x.n)
        BY <3>2, <4>2 DEF PyKnown, Known
      <4> QED
        BY <1>5, <4>2, <4>3
    <3> QED
      BY <2>3, <3>1, <3>2 DEF PyKnown
  <2>9. PyOK(k)
    BY <1>0, <1>8, <2>4 DEF PyOK
  <2>10. Later(m, k)
    BY <2>3, <2>5 DEF Later
  <2> QED
    BY <1>8, <2>3, <2>6, <2>7, <2>8, <2>9, <2>10 DEF PyNext, PyInv, k
<1> QED
  BY <1>9, <1>10

LEMMA PyField ==
  ASSUME AcceptedNode, NEW m, PyInv(m), ~m.done, ~m.fault, NEW st, IsStatement(st), st.s = "field",
         NEW table, PyKnown(table, m), st.n \in DOMAIN m.env
  PROVE  PyNext(table, table, m, st, PythonExecute(m, st))
<1> DEFINE k == PythonExecute(m, st)
           x == st.es[1]
           p == m.env[st.n]
<1>0. PyOK(m) /\ PyTyped(m) /\ LeaksOK(m.leaks) /\ IsMachine(m) /\ PyCells(m.cells)
  BY DEF PyInv, PyOK
<1>1. IsExpression(x)
  BY DEF IsStatement, IsSequence
<1>2. PICK v : v = Eval(m.env, m.cells, x)
  OBVIOUS
<1>3. FieldResult(m, p, v, k)
  BY <1>0, <1>2, FieldIs
<1>4. PyValue(p)
  BY <1>0 DEF PyOK
<1> HIDE DEF k, p
<1>5. IsMachine(k) /\ k.env = m.env /\ k.done = m.done /\ k.leaks = m.leaks
  BY <1>3 DEF FieldResult
<1>6. PyCells(k.cells)
  <2>1. CASE ~ToStruct(p) \/ ~Number(v)
    BY <1>0, <1>3, <2>1 DEF FieldResult
  <2>2. CASE ToStruct(p) /\ Number(v)
    <3>1. k.cells = [m.cells EXCEPT ![p.n] = Convert("float", v)]
      BY <1>3, <2>2 DEF FieldResult
    <3>2. PyValue(v) \/ v = Nothing
      BY <1>0, <1>1, <1>2, PyEval
    <3>3. v.n \in Int
      BY <2>2, <3>2, PyValueFacts, NothingType
    <3> DEFINE c == Convert("float", v)
    <3>4. Number(c) /\ IsNumber(c)
      BY <3>3, ConvertNumber DEF Primitives
    <3> HIDE DEF c
    <3>5. k.cells = [m.cells EXCEPT ![p.n] = c]
      BY <3>1 DEF c
    <3> QED
      BY <1>0, <3>4, <3>5 DEF PyCells
  <2> QED
    BY <2>1, <2>2
<1>7. PyTyped(k)
  BY <1>0, <1>5 DEF PyTyped
<1> QED
  BY <1>0, <1>5, <1>6, <1>7 DEF PyNext, PyInv, PyOK, Later, PyKnown, k

LEMMA PyOutput ==
  ASSUME AcceptedNode, NEW m, PyInv(m), ~m.done, ~m.fault, NEW st, IsStatement(st), st.s = "output",
         NEW table, NEW count, TableOK(Declared, table, count), visit_statement(table, count, st).ok,
         NEW later, later = visit_statement(table, count, st).names, PyKnown(table, m), Extends(later, names)
  PROVE  PyNext(table, later, m, st, PythonExecute(m, st))
<1> DEFINE k == PythonExecute(m, st)
           x == st.es[1]
<1>1. IsExpression(x) /\ IsSourceName(st.n)
  BY DEF IsStatement, IsSequence
<1>2. Created(node, Declared) /\ visit_statement(table, count, st) = visit_set_output(table, count, st)
  BY DeclaredVariables DEF AcceptedNode, visit_statement
<1>3. Extends(table, later)
  BY <1>2, VisitStatementOK DEF VisitOK
<1>4. k = Emit(m, names[st.n].idx, x)
  BY DEF PythonExecute
<1>5. EmitAccepted(Declared, names, names[st.n].idx, x)
  BY <1>1, <1>2, OutputAccepted
<1> HIDE DEF k, x
<1>6. PyInv(k) /\ Later(m, k) /\ k.env = m.env /\ k.done = m.done
  BY <1>1, <1>4, <1>5, EmitKeeps
<1>7. PyKnown(later, k)
  BY <1>3, <1>6, KnownLater DEF PyKnown
<1> QED
  BY <1>6, <1>7 DEF PyNext, k

LEMMA ReturnChain ==
  ASSUME NEW m, NEW xs, Len(xs) \in Nat
  PROVE  \E f : EmitChain(m, xs, Len(xs), f) /\ PythonReturn(m, xs) = [f[Len(xs)] EXCEPT !.done = TRUE]
<1>1. PICK f : /\ f[0] = m
               /\ \A i \in 1 .. Len(xs) : f[i] = Emit(f[i - 1], i, xs[i])
               /\ PythonReturn(m, xs) = [f[Len(xs)] EXCEPT !.done = TRUE]
  BY PythonReturnSteps
<1> QED
  BY <1>1 DEF EmitChain

LEMMA PyReturn ==
  ASSUME AcceptedNode, NEW m, PyInv(m), ~m.done, ~m.fault, NEW st, IsStatement(st), st.s = "return",
         NEW table, NEW count, TableOK(Declared, table, count), visit_statement(table, count, st).ok,
         NEW later, later = visit_statement(table, count, st).names, PyKnown(table, m), Extends(later, names)
  PROVE  PyNext(table, later, m, st, PythonExecute(m, st))
<1> DEFINE k == PythonExecute(m, st)
           n == Len(st.es)
<1>1. /\ n \in Nat /\ DOMAIN st.es = 1 .. n /\ IsSequence(st.es)
      /\ \A i \in DOMAIN st.es : IsExpression(st.es[i])
  BY DEF IsStatement, IsSequence
<1>2. Created(node, Declared) /\ visit_statement(table, count, st) = visit_Return(table, count, st)
  BY DeclaredVariables DEF AcceptedNode, visit_statement
<1>3. Extends(table, later)
  BY <1>2, VisitStatementOK DEF VisitOK
<1>4. k = PythonReturn(m, st.es)
  BY DEF PythonExecute
<1>5. \A i \in 1 .. n : st.es[i] # Nil => EmitAccepted(Declared, names, i, st.es[i])
  BY <1>1, <1>2, ReturnAccepted
<1> HIDE DEF k, n
<1>7. PICK f : EmitChain(m, st.es, n, f) /\ PythonReturn(m, st.es) = [f[n] EXCEPT !.done = TRUE]
  BY <1>1, ReturnChain DEF n
<1>8. \A i \in 0 .. n : PyInv(f[i]) /\ Later(m, f[i]) /\ f[i].env = m.env /\ f[i].done = m.done
  BY <1>1, <1>5, <1>7, EmitsKeep
<1> DEFINE l == f[n]
<1>9. PyInv(l) /\ Later(m, l) /\ l.env = m.env /\ k = [l EXCEPT !.done = TRUE] /\ IsMachine(l)
  BY <1>1, <1>4, <1>7, <1>8 DEF PyInv, PyOK
<1> HIDE DEF l
<1>10. IsMachine(k) /\ k.env = l.env /\ k.cells = l.cells /\ k.fault = l.fault /\ k.leaks = l.leaks
  BY <1>9, MachineUpdates
<1>11. PyInv(k) /\ Later(m, k)
  BY <1>9, <1>10 DEF PyInv, PyOK, PyTyped, Later
<1>12. PyKnown(later, k)
  BY <1>3, <1>9, <1>10, KnownLater DEF PyKnown
<1> QED
  BY <1>11, <1>12 DEF PyNext, k

LEMMA PyStep ==
  ASSUME AcceptedNode, NEW m, PyInv(m), NEW st, IsStatement(st),
         NEW table, NEW count, TableOK(Declared, table, count), visit_statement(table, count, st).ok,
         NEW later, later = visit_statement(table, count, st).names, PyKnown(table, m), Extends(later, names),
         st.s = "field" /\ ~m.fault => st.n \in DOMAIN m.env
  PROVE  PyNext(table, later, m, st, PythonExecute(m, st))
<1>1. st.s \in {"assign", "field", "output", "return"}
  BY DEF IsStatement
<1>2. CASE m.done \/ m.fault
  <2>1. PythonExecute(m, st) = m
    BY <1>2 DEF PythonExecute
  <2>2. Extends(table, later)
    BY VisitStatementOK, DeclaredVariables DEF AcceptedNode, VisitOK
  <2> QED
    BY <1>2, <2>1, <2>2, KnownLater DEF PyNext, Later
<1>3. CASE ~m.done /\ ~m.fault /\ st.s = "assign"
  BY <1>3, PyAssign
<1>4. CASE ~m.done /\ ~m.fault /\ st.s = "field"
  <2>1. later = table
    <3>1. IsExpression(st.es[1])
      BY <1>4 DEF IsStatement, IsSequence
    <3> QED
      BY <1>4, <3>1, VisitFieldStore, DeclaredVariables DEF AcceptedNode, visit_statement
  <2> QED
    BY <1>4, <2>1, PyField
<1>5. CASE ~m.done /\ ~m.fault /\ st.s = "output"
  BY <1>5, PyOutput
<1>6. CASE ~m.done /\ ~m.fault /\ st.s = "return"
  BY <1>6, PyReturn
<1> QED
  BY <1>1, <1>2, <1>3, <1>4, <1>5, <1>6

(* Python's machine behind the first j statements of a body.               *)
RanTo(P, stmts, table, begun, m, j) ==
  /\ PyInv(m) /\ Later(begun, m) /\ PyKnown(table, m)
  /\ ~m.fault /\ (\A i \in 1 .. j : stmts[i].s # "return") => ~m.done /\ Scope(P, stmts, j) \subseteq DOMAIN m.env

LEMMA ScopeGrows ==
  ASSUME NEW P, NEW stmts, NEW j \in Nat
  PROVE  \A n \in Scope(P, stmts, j + 1) :
           n \in Scope(P, stmts, j) \/ (stmts[j + 1].s = "assign" /\ n = stmts[j + 1].n)
<1>1. \A i \in 1 .. j + 1 : i \in 1 .. j \/ i = j + 1
  OBVIOUS
<1> QED
  BY <1>1 DEF Scope

LEMMA PyBody ==
  ASSUME AcceptedNode, NEW stmts, IsSource(stmts), NEW K, NEW V, Traced(Declared, names, stmts, V, K),
         NEW P, \A j \in 1 .. K : Scoped(P, stmts, j),
         NEW begun, PyInv(begun), ~begun.done, PyKnown(V[0].names, begun), {v.name : v \in P} \subseteq DOMAIN begun.env,
         NEW f, f[0] = begun, \A i \in 1 .. K : f[i] = PythonExecute(f[i - 1], stmts[i])
  PROVE  \A j \in 0 .. K : RanTo(P, stmts, V[j].names, begun, f[j], j)
<1> DEFINE R(j) == RanTo(P, stmts, V[j].names, begun, f[j], j)
           A == {j \in Nat : j <= K => R(j)}
<1>1. K \in Nat /\ DOMAIN stmts = 1 .. Len(stmts) /\ Len(stmts) \in Nat /\ K <= Len(stmts)
  BY DEF Traced, IsSource, IsSequence
<1>2. \A i \in 1 .. K : IsStatement(stmts[i])
  BY <1>1 DEF IsSource
<1>3. R(0)
  <2>1. Scope(P, stmts, 0) = {v.name : v \in P}
    BY DEF Scope
  <2> QED
    BY <2>1 DEF RanTo, Later
<1>4. A \in SUBSET Nat /\ 0 \in A
  BY <1>3
<1>5. ASSUME NEW j \in Nat, j \in A PROVE j + 1 \in A
  <2> SUFFICES ASSUME j + 1 <= K PROVE R(j + 1)
    OBVIOUS
  <2>1. j + 1 \in 1 .. K /\ (j + 1) - 1 = j /\ R(j) /\ j \in 0 .. K /\ j + 1 \in 0 .. K
    BY <1>1, <1>5
  <2> DEFINE st == stmts[j + 1]
             m == f[j]
             k == f[j + 1]
             a == V[j]
             z == V[j + 1]
  <2>2. IsStatement(st) /\ k = PythonExecute(m, st) /\ Scoped(P, stmts, j + 1)
    BY <1>2, <2>1
  <2>3. /\ PyInv(m) /\ Later(begun, m) /\ PyKnown(a.names, m)
        /\ ~m.fault /\ (\A i \in 1 .. j : stmts[i].s # "return") => ~m.done /\ Scope(P, stmts, j) \subseteq DOMAIN m.env
    BY <2>1 DEF RanTo
  <2>4. TableOK(Declared, a.names, a.tmp) /\ Extends(z.names, names) /\ Step(a, st, z)
    <3>1. /\ \A i \in 0 .. K : TableOK(Declared, V[i].names, V[i].tmp) /\ Extends(V[i].names, names)
          /\ \A i \in 1 .. K : Step(V[i - 1], stmts[i], V[i])
      BY DEF Traced
    <3> QED
      BY <2>1, <3>1
  <2>5. /\ st.s = "field" => st.n \in Scope(P, stmts, j)
        /\ \A i \in 1 .. j : stmts[i].s # "return"
    BY <2>1, <2>2 DEF Scoped
  <2>6. PyNext(a.names, z.names, m, st, k)
    <3> HIDE DEF st, m, k, a, z
    <3>1. visit_statement(a.names, a.tmp, st).ok /\ z.names = visit_statement(a.names, a.tmp, st).names
      BY <2>4 DEF Step
    <3>2. st.s = "field" /\ ~m.fault => st.n \in DOMAIN m.env
      BY <2>3, <2>5
    <3> QED
      BY <2>2, <2>3, <2>4, <3>1, <3>2, PyStep
  <2>7. \A n \in Scope(P, stmts, j + 1) : n \in Scope(P, stmts, j) \/ (st.s = "assign" /\ n = st.n)
    BY ScopeGrows
  <2>8. (\A i \in 1 .. j + 1 : stmts[i].s # "return") => st.s # "return"
    OBVIOUS
  <2> DEFINE none == \A i \in 1 .. j + 1 : stmts[i].s # "return"
  <2>9. PyInv(k) /\ Later(m, k) /\ PyKnown(z.names, k) /\ (st.s # "return" => k.done = m.done)
        /\ (st.s = "assign" /\ ~m.done /\ ~k.fault => st.n \in DOMAIN k.env)
    <3> HIDE DEF st, m, k, a, z
    <3> QED
      BY <2>6 DEF PyNext
  <2>10. Later(begun, k)
    <3> HIDE DEF st, m, k, a, z
    <3> QED
      BY <2>3, <2>9 DEF Later
  <2>11. ASSUME ~k.fault, none PROVE ~k.done /\ Scope(P, stmts, j + 1) \subseteq DOMAIN k.env
    <3>1. st.s # "return"
      BY <2>8, <2>11
    <3> HIDE DEF none, st, m, k, a, z
    <3>2. ~m.fault /\ DOMAIN m.env \subseteq DOMAIN k.env
      BY <2>9, <2>11 DEF Later
    <3>3. ~m.done /\ Scope(P, stmts, j) \subseteq DOMAIN m.env
      BY <2>3, <2>5, <3>2
    <3> QED
      BY <2>7, <2>9, <2>11, <3>1, <3>2, <3>3
  <2> HIDE DEF none, st, m, k, a, z
  <2>12. RanTo(P, stmts, z.names, begun, k, j + 1)
    BY <2>9, <2>10, <2>11 DEF RanTo, none
  <2> QED
    BY <2>12 DEF z, k
<1> HIDE DEF A, R
<1>6. A = Nat
  BY <1>4, <1>5, NatSetInduction
<1>7. \A j \in 0 .. K : R(j)
  BY <1>1, <1>6 DEF A
<1> QED
  BY <1>7 DEF R

-----------------------------------------------------------------------------
\* Python's machine, from call to call

Readable == {v \in Declared : v.source # "OutputSource"}
IsState(v) == v \in Declared /\ v.source = "StateSource"
StatesTyped(cells, leaks) ==
  \A v : IsState(v) /\ Scalar(v) /\ Retyped(v.name) \notin leaks => cells[CellOf(v)].type = PythonType(v)
InputsTyped(cells) ==
  \A v \in Declared : v.source = "InputSource" /\ Scalar(v) => cells[CellOf(v)].type = PythonType(v)
PyHost(m) == IsMachine(m) /\ PyCells(m.cells) /\ StatesTyped(m.cells, m.leaks) /\ LeaksOK(m.leaks)

(* The names a call starts with.                                           *)
PythonNames(env, cells) ==
  /\ DOMAIN env = {v.name : v \in Readable}
  /\ \A v \in Readable :
       env[v.name] = IF v.source = "ConstantSource" THEN Value(PythonType(v), v.value.n)
                     ELSE IF Scalar(v) THEN cells[CellOf(v)] ELSE Pointer(CellOf(v))

LEMMA DeclaredNames ==
  ASSUME AcceptedNode
  PROVE  /\ \A v \in Declared : Known(names, v.name) /\ names[v.name] = v /\ v.type # Unknown /\ Typed(v.name)
         /\ \A v \in Declared : v.source # "ConstantSource" <=> v \in CellVars
         /\ \A v \in CellVars : CellOf(v) \in Cells
<1>1. Created(node, Declared) /\ CellVars = {v \in Declared : v.source # "ConstantSource"}
  BY DeclaredVariables DEF AcceptedNode
<1>2. \A v \in Declared : Known(names, v.name) /\ names[v.name] = v
  BY DEF AcceptedNode, Accepted, TableOK
<1>3. \A v \in Declared : v.type # Unknown
  BY <1>1 DEF Created, IsHostVariable, DeclaredTypes
<1> QED
  BY <1>1, <1>2, <1>3 DEF Typed, Cells

LEMMA PythonNamesOK ==
  ASSUME AcceptedNode, NEW cells
  PROVE  PythonNames(PythonEnvironment(cells), cells)
<1> DEFINE e == PythonEnvironment(cells)
           S == {v.name : v \in Of(names, "ConstantSource") \cup Of(names, "StateSource") \cup Of(names, "InputSource")}
           W(v) == IF v.source = "ConstantSource" THEN Value(PythonType(v), v.value.n)
                   ELSE IF Scalar(v) THEN cells[CellOf(v)] ELSE Pointer(CellOf(v))
<1>1. Readable = Of(names, "ConstantSource") \cup Of(names, "StateSource") \cup Of(names, "InputSource")
  <2>1. \A kind \in HostKinds : Of(names, kind) = {v \in Declared : v.source = kind}
    BY DeclaredVariables DEF AcceptedNode
  <2>2. \A v \in Declared : v.source \in HostKinds
    BY DeclaredVariables DEF AcceptedNode, Created, IsHostVariable
  <2> QED
    BY <2>1, <2>2 DEF HostKinds, Readable
<1>2. S = {v.name : v \in Readable}
  BY <1>1
<1>3. e = [n \in S |-> W(names[n])]
  BY DEF PythonEnvironment
<1> HIDE DEF e, S, W
<1>4. \A v \in Readable : e[v.name] = W(v)
  BY <1>2, <1>3, DeclaredNames DEF Readable
<1>5. DOMAIN e = {v.name : v \in Readable}
  BY <1>2, <1>3
<1> QED
  BY <1>4, <1>5 DEF PythonNames, W, e

LEMMA BegunOK ==
  ASSUME AcceptedNode, NEW was, PyHost(was), InputsTyped(was.cells),
         NEW table, NEW count, TableOK(Declared, table, count), NEW b
  PROVE  LET m == Begun(was)
         IN  /\ PyInv(m) /\ ~m.done /\ PyKnown(table, m) /\ {v.name : v \in Parameters(b)} \subseteq DOMAIN m.env
             /\ m.leaks = was.leaks /\ m.fault = was.fault /\ m.cells = was.cells
             /\ \A v : IsState(v) => v.name \in DOMAIN m.env
             /\ DOMAIN m.env = {v.name : v \in Readable}
<1> DEFINE m == Begun(was)
<1>1. /\ IsMachine(m) /\ m.env = PythonEnvironment(was.cells) /\ m.done = FALSE
      /\ m.cells = was.cells /\ m.fault = was.fault /\ m.leaks = was.leaks
  BY BegunMachine DEF PyHost
<1>2. PythonNames(m.env, m.cells)
  BY <1>1, PythonNamesOK
<1> HIDE DEF m
<1>3. DOMAIN m.env = {v.name : v \in Readable}
  BY <1>2 DEF PythonNames
<1>4. PyCells(m.cells) /\ StatesTyped(m.cells, m.leaks) /\ LeaksOK(m.leaks) /\ InputsTyped(m.cells)
  BY <1>1 DEF PyHost
<1>5. Created(node, Declared)
  BY DeclaredVariables DEF AcceptedNode
<1>6. ASSUME NEW v \in Readable
      PROVE  /\ PyValue(m.env[v.name])
             /\ Retyped(v.name) \notin m.leaks => TypeOf(m.env[v.name]) = PythonType(v)
             /\ ToStruct(m.env[v.name]) <=> ~Scalar(v)
  <2> DEFINE e == m.env[v.name]
  <2>1. e = IF v.source = "ConstantSource" THEN Value(PythonType(v), v.value.n)
            ELSE IF Scalar(v) THEN m.cells[CellOf(v)] ELSE Pointer(CellOf(v))
    BY <1>2 DEF PythonNames
  <2> HIDE DEF e
  <2>2. v \in Declared /\ IsHostVariable(node, v)
    BY <1>5 DEF Readable, Created
  <2>3. CASE v.source = "ConstantSource"
    <3>1. v.type.class = "PrimitiveType" /\ IsNumber(e)
      BY <2>1, <2>2, <2>3 DEF IsHostVariable
    <3>2. v.type \in Types /\ e.type = PythonType(v)
      BY <2>1, <2>2, <2>3 DEF IsHostVariable, DeclaredTypes, Value
    <3>3. v.type.value \in Primitives /\ Scalar(v)
      BY <3>1, <3>2 DEF Types, Unknown, Scalar
    <3>4. PythonType(v) \in Primitives
      BY <3>3 DEF PythonType, Primitives
    <3>5. Number(e) /\ PyValue(e)
      BY <3>1, <3>2, <3>4 DEF Number, PyValue
    <3> QED
      BY <3>2, <3>3, <3>5, PyValueFacts DEF e
  <2>4. CASE v.source # "ConstantSource" /\ Scalar(v)
    <3>1. CellOf(v) \in Cells
      BY <2>2, <2>4, DeclaredNames
    <3>2. e = m.cells[CellOf(v)] /\ Number(e) /\ IsNumber(e)
      BY <1>4, <2>1, <2>4, <3>1 DEF PyCells
    <3>3. PyValue(e) /\ TypeOf(e) = e.type /\ ~ToStruct(e)
      BY <3>2, PyValueFacts DEF PyValue
    <3>4. v.source \in {"StateSource", "InputSource"}
      BY <2>2, <2>4 DEF IsHostVariable, HostKinds, Readable
    <3>5. Retyped(v.name) \notin m.leaks => e.type = PythonType(v)
      BY <1>4, <2>2, <2>4, <3>2, <3>4 DEF StatesTyped, InputsTyped, IsState
    <3> QED
      BY <2>4, <3>3, <3>5 DEF e
  <2>5. CASE v.source # "ConstantSource" /\ ~Scalar(v)
    <3>1. v \in CellVars /\ e = Pointer(CellOf(v))
      BY <2>1, <2>2, <2>5, DeclaredNames
    <3>2. StructPointer(e)
      BY <2>5, <3>1 DEF StructPointer
    <3>3. PyValue(e) /\ ToStruct(e) /\ TypeOf(e) = CellType(CellOf(v))
      BY <3>1, <3>2, PyValueFacts DEF PyValue, Pointer, Value
    <3>4. CellType(CellOf(v)) = v.type.value /\ v.type.value \in Structs
      BY <2>5, <3>1, CellFacts
    <3>5. PythonType(v) = v.type.value
      BY <3>4, StructWords DEF PythonType
    <3> QED
      BY <2>5, <3>3, <3>4, <3>5 DEF e
  <2> QED
    BY <2>3, <2>4, <2>5
<1>7. \A v \in Readable : names[v.name] = v /\ Known(names, v.name) /\ v \in Declared
  BY DeclaredNames DEF Readable
<1>8. PyTyped(m)
  BY <1>3, <1>6, <1>7 DEF PyTyped
<1>9. PyOK(m)
  BY <1>1, <1>3, <1>4, <1>6 DEF PyOK
<1>10. \A v \in Declared : Known(table, v.name)
  BY DEF TableOK
<1>11. PyKnown(table, m)
  BY <1>3, <1>7, <1>10 DEF PyKnown
<1>12. Parameters(b) \subseteq Readable /\ \A v : IsState(v) => v \in Readable
  BY DEF Parameters, Readable, IsState
<1>13. {v.name : v \in Parameters(b)} \subseteq DOMAIN m.env /\ \A v : IsState(v) => v.name \in DOMAIN m.env
  BY <1>3, <1>12
<1>14. PyInv(m)
  BY <1>4, <1>8, <1>9 DEF PyInv
<1> QED
  BY <1>1, <1>3, <1>11, <1>13, <1>14 DEF m

LEMMA LeftOK ==
  ASSUME AcceptedNode, NEW was, DOMAIN was.cells = Cells, NEW m, PyInv(m), \A v : IsState(v) => v.name \in DOMAIN m.env
  PROVE  PyHost(Left(was, m)) /\ Left(was, m).leaks = m.leaks
<1> DEFINE k == Left(was, m)
<1>0. PyOK(m) /\ PyTyped(m) /\ LeaksOK(m.leaks) /\ IsMachine(m) /\ PyCells(m.cells)
  BY DEF PyInv, PyOK
<1>1. /\ IsMachine(k) /\ DOMAIN k.cells = Cells
      /\ \A c \in Cells : k.cells[c] = IF c[1] = "StateSource" THEN Contents(m, m.env[StateAt(c).name]) ELSE m.cells[c]
      /\ k.leaks = m.leaks
  BY <1>0, LeftMachine
<1> HIDE DEF k
<1>2. ASSUME NEW v, IsState(v)
      PROVE  CellOf(v) \in Cells /\ CellOf(v)[1] = "StateSource" /\ StateAt(CellOf(v)) = v
             /\ names[v.name] = v /\ Typed(v.name)
  <2>1. v \in CellVars /\ v \in Declared /\ CellOf(v) \in Cells /\ CellOf(v)[1] = "StateSource"
    BY <1>2, DeclaredNames DEF IsState, CellOf
  <2>2. v \in Of(names, "StateSource")
    BY <1>2, DeclaredVariables DEF AcceptedNode, IsState, HostKinds
  <2>3. \A w \in Of(names, "StateSource") : CellOf(w) = CellOf(v) => w = v
    BY <2>1, CellFacts DEF CellVars
  <2>4. StateAt(CellOf(v)) = v
    BY <2>2, <2>3 DEF StateAt
  <2> QED
    BY <1>2, <2>1, <2>4, DeclaredNames DEF IsState
<1>3. ASSUME NEW v, IsState(v)
      PROVE  LET e == m.env[v.name]
                 c == k.cells[CellOf(v)]
             IN  /\ c = Contents(m, e) /\ PyValue(e) /\ Number(c) /\ IsNumber(c)
                 /\ Retyped(v.name) \notin m.leaks => TypeOf(e) = PythonType(v)
                 /\ Number(e) => c = e
  <2> DEFINE e == m.env[v.name]
  <2>1. PyValue(e) /\ (Retyped(v.name) \notin m.leaks => TypeOf(e) = PythonType(v))
    BY <1>0, <1>2, <1>3 DEF PyOK, PyTyped
  <2>2. k.cells[CellOf(v)] = Contents(m, e)
    BY <1>1, <1>2, <1>3
  <2> HIDE DEF e
  <2>3. CASE Number(e)
    <3>1. Contents(m, e) = e /\ IsNumber(e)
      BY <2>1, <2>3, PyValueFacts DEF Contents, Primitives
    <3> QED
      BY <2>1, <2>2, <2>3, <3>1 DEF e
  <2>4. CASE ~Number(e)
    <3>1. e.n \in Cells /\ e.type = "pointer"
      BY <2>1, <2>4, PyValueFacts, PointerFacts
    <3>2. Contents(m, e) = m.cells[e.n]
      BY <3>1 DEF Contents
    <3> QED
      BY <1>0, <2>1, <2>2, <2>4, <3>1, <3>2 DEF PyCells, e
  <2> QED
    BY <2>3, <2>4
<1>4. ASSUME NEW c \in Cells, c[1] = "StateSource" PROVE \E v : IsState(v) /\ c = CellOf(v)
  <2>1. PICK v \in CellVars : c = CellOf(v)
    BY DEF Cells
  <2>2. v.source = "StateSource" /\ v \in Declared
    BY <1>4, <2>1, CellFacts DEF CellOf
  <2> QED
    BY <2>1, <2>2 DEF IsState
<1>5. PyCells(k.cells)
  <2>1. ASSUME NEW c \in Cells PROVE Number(k.cells[c]) /\ IsNumber(k.cells[c])
    <3>1. CASE c[1] = "StateSource"
      BY <1>3, <1>4, <3>1
    <3>2. CASE c[1] # "StateSource"
      BY <1>0, <1>1, <3>2 DEF PyCells
    <3> QED
      BY <3>1, <3>2
  <2> QED
    BY <1>1, <2>1 DEF PyCells
<1>6. StatesTyped(k.cells, k.leaks)
  <2>1. ASSUME NEW v, IsState(v), Scalar(v), Retyped(v.name) \notin k.leaks PROVE k.cells[CellOf(v)].type = PythonType(v)
    <3> DEFINE e == m.env[v.name]
    <3>1. TypeOf(e) = PythonType(v) /\ PyValue(e) /\ (Number(e) => k.cells[CellOf(v)] = e)
      BY <1>1, <1>3, <2>1
    <3> HIDE DEF e
    <3>2. CellType(CellOf(v)) = v.type.value /\ v.type.value \in Primitives \cup {"datetime"}
      BY <2>1, CellFacts, DeclaredNames DEF IsState
    <3>3. PythonType(v) \in Primitives
      BY <3>2 DEF PythonType, Primitives
    <3>4. Number(e) /\ TypeOf(e) = e.type
      BY <3>1, <3>3, PyValueFacts
    <3> QED
      BY <3>1, <3>4
  <2> QED
    BY <2>1 DEF StatesTyped
<1> QED
  BY <1>0, <1>1, <1>5, <1>6 DEF PyHost, k

(* The host's cells, as allocated and as fed.                              *)
LEMMA StoredTyped ==
  ASSUME AcceptedNode, NEW v \in CellVars, NEW n \in Int
  PROVE  LET c == Stored(CellOf(v), Value("float", n))
         IN  Number(c) /\ IsNumber(c) /\ (Scalar(v) => c.type = PythonType(v))
<1> DEFINE t == CellType(CellOf(v))
           w == Value("float", n)
<1>1. w.n = n /\ Number(w) /\ IsNumber(w)
  BY DEF Value, Number, IsNumber, Primitives
<1>2. /\ t = v.type.value /\ (Scalar(v) <=> t \notin Structs)
      /\ Scalar(v) => t \in Primitives \cup {"datetime"}
  BY CellFacts
<1>3. Stored(CellOf(v), w) = IF t \in Structs THEN w ELSE Convert(t, w)
  BY DEF Stored
<1> HIDE DEF t, w
<1>4. CASE Scalar(v)
  <2>1. LET c == Convert(t, w) IN Number(c) /\ IsNumber(c) /\ c.type = (IF t = "datetime" THEN "int" ELSE t)
    BY <1>1, <1>2, <1>4, ConvertNumber
  <2> QED
    BY <1>2, <1>3, <1>4, <2>1 DEF PythonType, w
<1>5. CASE ~Scalar(v)
  BY <1>1, <1>2, <1>3, <1>5 DEF w
<1> QED
  BY <1>4, <1>5

LEMMA HostStart ==
  ASSUME AcceptedNode
  PROVE  LET m == Machine(<<>>, HostCells)
         IN  PyHost(m) /\ m.cells = HostCells /\ m.leaks = {} /\ ~m.fault /\ InputsTyped(HostCells)
<1> DEFINE m == Machine(<<>>, HostCells)
<1>1. IsMachine(m) /\ m.cells = HostCells /\ m.leaks = {} /\ ~m.fault
  BY DEF Machine, IsMachine
<1>2. Created(node, Declared)
  BY DeclaredVariables DEF AcceptedNode
<1>3. CellsOK(HostCells)
  BY HostCellsOK
<1>4. ASSUME NEW v \in CellVars
      PROVE  LET c == HostCells[CellOf(v)]
             IN  IF v.source = "StateSource"
                 THEN IsNumber(c) /\ c.type = IF v.type.class = "StructType" THEN "float" ELSE PythonType(v)
                 ELSE c = Stored(CellOf(v), Value("float", 0))
  <2>1. CellOf(v) \in {CellOf(w) : w \in CellVars} /\ CellOf(v)[1] = v.source /\ CellOf(v)[2] = v.idx
    BY DEF CellOf
  <2>2. HostCells[CellOf(v)] =
          IF v.source = "StateSource" THEN state_values(node)[v.idx]
          ELSE Stored(CellOf(v), Value("float", 0))
    BY <2>1 DEF HostCells
  <2>3. IsHostVariable(node, v)
    BY CellFacts
  <2> QED
    BY <2>2, <2>3 DEF IsHostVariable
<1> HIDE DEF m
<1>5. PyCells(HostCells)
  <2>2. \A c \in Cells : IsNumber(HostCells[c])
    BY <1>4, StoredTyped DEF Cells
  <2> QED
    BY <1>3, <2>2 DEF PyCells, CellsOK
<1>6. StatesTyped(HostCells, {})
  BY <1>4, DeclaredNames DEF StatesTyped, IsState, Scalar
<1>7. InputsTyped(HostCells)
  BY <1>4, StoredTyped, DeclaredNames DEF InputsTyped
<1> QED
  BY <1>1, <1>5, <1>6, <1>7 DEF PyHost, LeaksOK, m

LEMMA FedHost ==
  ASSUME AcceptedNode, NEW m, PyHost(m), NEW input \in Int
  PROVE  LET k == [m EXCEPT !.cells = fed(m.cells, input)]
         IN  /\ PyHost(k) /\ InputsTyped(k.cells) /\ k.leaks = m.leaks /\ k.fault = m.fault
             /\ k.cells = fed(m.cells, input)
<1> DEFINE c == fed(m.cells, input)
           k == [m EXCEPT !.cells = c]
<1>1. IsMachine(k) /\ k.cells = c /\ k.leaks = m.leaks /\ k.fault = m.fault
  BY MachineUpdates DEF PyHost
<1>2. DOMAIN c = Cells
      /\ \A d \in Cells : c[d] = IF d[1] = "InputSource" THEN Stored(d, Value("float", input)) ELSE m.cells[d]
  BY DEF fed, PyHost, PyCells
<1> HIDE DEF c, k
<1>3. ASSUME NEW v \in CellVars
      PROVE  /\ v.source = "InputSource" => /\ Number(c[CellOf(v)]) /\ IsNumber(c[CellOf(v)])
                                            /\ Scalar(v) => c[CellOf(v)].type = PythonType(v)
             /\ v.source # "InputSource" => c[CellOf(v)] = m.cells[CellOf(v)]
  <2>1. CellOf(v) \in Cells /\ CellOf(v)[1] = v.source
    BY DeclaredNames DEF CellOf
  <2> QED
    BY <1>2, <2>1, StoredTyped
<1>4. PyCells(c)
  <2>1. ASSUME NEW d \in Cells PROVE Number(c[d]) /\ IsNumber(c[d])
    <3>1. PICK v \in CellVars : d = CellOf(v)
      BY DEF Cells
    <3>2. Number(m.cells[d]) /\ IsNumber(m.cells[d])
      BY DEF PyHost, PyCells
    <3> QED
      BY <1>3, <3>1, <3>2
  <2> QED
    BY <1>2, <2>1 DEF PyCells
<1>5. StatesTyped(c, m.leaks)
  BY <1>3, DeclaredNames DEF PyHost, StatesTyped, IsState
<1>6. InputsTyped(c)
  BY <1>3, DeclaredNames DEF InputsTyped
<1> QED
  BY <1>1, <1>4, <1>5, <1>6 DEF PyHost, k, c

(* A body as Python runs it, from what the host holds.                     *)
LEMMA PyRunBody ==
  ASSUME AcceptedNode, TraceInv, ScopeInv, TableInv, Begins, NEW b \in Bodies, NEW was, PyHost(was), InputsTyped(was.cells)
  PROVE  \E V, f :
           /\ BodyTrace(Declared, names, tmp, source, code[b], b, Translated(b), b = Current, V)
           /\ f[0] = Begun(was) /\ \A i \in 1 .. Len(source[b]) : f[i] = PythonExecute(f[i - 1], source[b][i])
           /\ PythonRun(source[b], was) = Left(was, f[Len(source[b])])
           /\ \A j \in 0 .. Translated(b) : RanTo(Parameters(b), source[b], V[j].names, Begun(was), f[j], j)
<1> DEFINE stmts == source[b]
           K == Translated(b)
<1>1. PICK V : BodyTrace(Declared, names, tmp, source, code[b], b, K, b = Current, V)
  BY DEF TraceInv, AcceptedNode
<1>2. IsSource(stmts) /\ Len(stmts) \in Nat /\ DOMAIN stmts = 1 .. Len(stmts)
  BY DEF TableInv, IsSource, IsSequence
<1>3. PICK f : /\ f[0] = Begun(was)
               /\ \A i \in 1 .. Len(stmts) : f[i] = PythonExecute(f[i - 1], stmts[i])
               /\ PythonRun(stmts, was) = Left(was, f[Len(stmts)])
  BY <1>2, PythonRunSteps
<1> HIDE DEF K
<1>4. Traced(Declared, names, stmts, V, K)
  BY <1>1 DEF BodyTrace
<1>5. K \in 0 .. Len(stmts) /\ TableOK(Declared, V[0].names, V[0].tmp)
  BY <1>4 DEF Traced
<1>6. \A j \in 1 .. K : Scoped(Parameters(b), stmts, j) /\ f[j] = PythonExecute(f[j - 1], stmts[j])
  BY <1>2, <1>3, <1>5 DEF ScopeInv
<1> DEFINE m == Begun(was)
<1>7. PyInv(m) /\ ~m.done /\ PyKnown(V[0].names, m) /\ {v.name : v \in Parameters(b)} \subseteq DOMAIN m.env
  BY <1>5, BegunOK
<1> HIDE DEF m, stmts
<1>8. \A j \in 0 .. K : RanTo(Parameters(b), stmts, V[j].names, m, f[j], j)
  <2>1. f[0] = m
    BY <1>3 DEF m
  <2> QED
    BY <1>2, <1>4, <1>6, <1>7, <2>1, PyBody
<1> QED
  BY <1>1, <1>3, <1>8 DEF stmts, K, m

LEMMA PyCall ==
  ASSUME AcceptedNode, TraceInv, ScopeInv, TableInv, Begins, NEW b \in Bodies, Translated(b) = Len(source[b]),
         NEW was, PyHost(was), InputsTyped(was.cells)
  PROVE  PyHost(PythonRun(source[b], was)) /\ was.leaks \subseteq PythonRun(source[b], was).leaks
<1> DEFINE n == Len(source[b])
<1>1. PICK V, f :
           /\ PythonRun(source[b], was) = Left(was, f[n])
           /\ \A j \in 0 .. n : RanTo(Parameters(b), source[b], V[j].names, Begun(was), f[j], j)
  BY PyRunBody
<1>2. n \in Nat
  BY DEF TableInv, IsSource, IsSequence
<1>3. PyInv(f[n]) /\ Later(Begun(was), f[n])
  BY <1>1, <1>2 DEF RanTo
<1>4. Begun(was).leaks = was.leaks /\ \A v : IsState(v) => v.name \in DOMAIN Begun(was).env
  BY BegunOK DEF AcceptedNode, Accepted
<1>5. was.leaks \subseteq f[n].leaks /\ \A v : IsState(v) => v.name \in DOMAIN f[n].env
  BY <1>3, <1>4 DEF Later
<1>6. DOMAIN was.cells = Cells
  BY DEF PyHost, PyCells
<1> HIDE DEF n
<1> QED
  BY <1>1, <1>3, <1>5, <1>6, LeftOK

PythonInv == phase = "run" => PyHost(python)

LEMMA PythonStep == TableInv /\ RunInv /\ TraceInv /\ ScopeInv /\ PythonInv /\ [Next]_vars => PythonInv'
<1> SUFFICES ASSUME TableInv, RunInv, TraceInv, ScopeInv, PythonInv, [Next]_vars PROVE PythonInv'
  OBVIOUS
<1>1. ASSUME UNCHANGED <<node, names>>, phase' = "run", PyHost(python') PROVE PythonInv'
  <2>1. PyHost(python)'
    <3> DEFINE m == python'
    <3>0. m = python' /\ PyHost(m)
      BY <1>1
    <3> HIDE DEF m
    <3>1. IsMachine(python)'
      BY <3>0 DEF PyHost, IsMachine
    <3>2. PyCells(python.cells)'
      BY <1>1, <3>0 DEF PyHost, PyCells, Cells, CellVars, Of, Vars
    <3>3. StatesTyped(python.cells, python.leaks)'
      BY <1>1, <3>0 DEF PyHost, StatesTyped, IsState, Declared
    <3>4. LeaksOK(python.leaks)'
      <4>1. LeaksOK(m.leaks)
        BY <3>0 DEF PyHost
      <4>2. \A i, x, n : OutputNamed(i)' = OutputNamed(i) /\ (Typed(n)' <=> Typed(n))
        BY <1>1 DEF OutputNamed, Typed, Of, Vars, Known
      <4> QED
        BY <3>0, <4>1, <4>2 DEF LeaksOK, LeakOK
    <3> QED
      BY <3>1, <3>2, <3>3, <3>4 DEF PyHost
  <2> QED
    BY <2>1 DEF PythonInv
<1>2. ASSUME NEW st \in Statements(node), VisitStatement(st) PROVE PythonInv'
  BY <1>2, BodyNames DEF VisitStatement, PythonInv
<1>3. CASE EndBody
  <2>1. phase \in Bodies /\ UNCHANGED <<node, names>>
        /\ (phase' = "run" => python' = Machine(<<>>, HostCells))
    BY <1>3, BodyNames DEF EndBody, NextBody
  <2>2. AcceptedNode
    BY <2>1, BodyNames DEF TableInv, AcceptedNode
  <2>3. PyHost(Machine(<<>>, HostCells))
    BY <2>2, HostStart
  <2>4. CASE phase' = "run"
    BY <1>1, <2>1, <2>3, <2>4
  <2> QED
    BY <2>4 DEF PythonInv
<1>4. ASSUME NEW input \in Inputs, Call(input) PROVE PythonInv'
  <2> DEFINE body == Schedule(calls)
             was == [python EXCEPT !.cells = fed(python.cells, input)]
  <2>1. phase = "run" /\ phase' = phase /\ UNCHANGED <<node, names>>
    BY <1>4 DEF Call
  <2>2. python' = PythonRun(source[body], was)
    BY <1>4 DEF Call, fed
  <2>3. body \in Bodies
    BY DEF Schedule, Bodies
  <2>4. AcceptedNode /\ PyHost(python) /\ Begins /\ Translated(body) = Len(source[body])
    BY <2>1 DEF RunInv, AcceptedNode, TableInv, PythonInv, Begins, Translated
  <2>5. input \in Int
    BY TranslationAssumption DEF TranslationAssumption
  <2>6. PyHost(was) /\ InputsTyped(was.cells)
    BY <2>4, <2>5, FedHost
  <2> HIDE DEF body, was
  <2>7. PyHost(python')
    BY <2>2, <2>3, <2>4, <2>6, PyCall
  <2> QED
    BY <1>1, <2>1, <2>7
<1>5. CASE UNCHANGED vars
  <2>1. UNCHANGED <<node, names, phase, python>>
    BY <1>5 DEF vars
  <2>2. phase = "run" => PyHost(python')
    BY <2>1 DEF PythonInv
  <2> QED
    BY <1>1, <2>1, <2>2 DEF PythonInv
<1> QED
  BY <1>2, <1>3, <1>4, <1>5 DEF Next

LEMMA PythonHolds == Spec => []PythonInv
<1>1. Init => PythonInv
  BY DEF Init, PythonInv
<1> QED
  BY <1>1, PythonStep, TraceHolds, PTL DEF Spec

(* Wherever the compiler knows the type of a value, it has refused to      *)
(* write it to an output of another (variable_factory.py:203).             *)
THEOREM MistypedRefused == Spec => []MistypedIsRefused
<1>1. TableInv /\ RunInv /\ PythonInv => MistypedIsRefused
  <2> SUFFICES ASSUME TableInv, RunInv, PythonInv, phase = "run",
                      NEW out \in Of(names, "OutputSource"),
                      NEW leak \in python.leaks, leak.kind = "emitted", leak.i = out.idx,
                      OutputNamed(out.idx).type.class # "DateTimeType"
               PROVE  /\ leak.x.e \notin {"const", "less"}
                      /\ leak.x.e = "name" /\ Typed(leak.x.n) => Retyped(leak.x.n) \in python.leaks
                      /\ ~Scalar(OutputNamed(out.idx)) => leak.x.e = "name" /\ Typed(leak.x.n)
    BY DEF MistypedIsRefused
  <2>1. LeakOK(leak.i, leak.x, python.leaks)
    BY DEF PythonInv, PyHost, LeaksOK
  <2> QED
    BY <2>1 DEF LeakOK
<1> QED
  BY <1>1, PythonHolds, TraceHolds, PTL

-----------------------------------------------------------------------------
\* What is refused

Blamed(m) == m.fault \/ m.leaks # {}

LEMMA EmitGrows ==
  ASSUME NEW m, IsMachine(m), NEW i, NEW x
  PROVE  LET k == Emit(m, i, x) IN IsMachine(k) /\ (Blamed(m) => Blamed(k)) /\ m.leaks \subseteq k.leaks
<1> DEFINE k == Emit(m, i, x)
<1>1. CASE m.fault \/ x = Nil
  <2>1. k = m
    BY <1>1 DEF Emit
  <2> HIDE DEF k
  <2> QED
    BY <2>1 DEF k
<1>2. CASE ~m.fault /\ x # Nil
  <2>1. PICK v : v = Eval(m.env, m.cells, x)
    OBVIOUS
  <2>2. EmitResult(m, i, x, v, k)
    BY <1>2, <2>1, EmitIs
  <2> HIDE DEF k
  <2>3. IsMachine(k) /\ m.leaks \subseteq k.leaks
    BY <2>2 DEF EmitResult
  <2> QED
    BY <1>2, <2>3 DEF Blamed, k
<1> QED
  BY <1>1, <1>2

LEMMA RefusedEmit ==
  ASSUME AcceptedNode, NEW m, PyInv(m), PyKnown(names, m), NEW x, IsExpression(x), x # Nil,
         NEW out \in Declared, out.source = "OutputSource", ~write_accepts(out, StaticType(names, x))
  PROVE  Blamed(Emit(m, out.idx, x))
<1> DEFINE k == Emit(m, out.idx, x)
<1>0. PyOK(m) /\ PyTyped(m) /\ IsMachine(m)
  BY DEF PyInv, PyOK
<1>1. CASE Blamed(m)
  BY <1>0, <1>1, EmitGrows
<1>2. CASE ~Blamed(m)
  <2>1. ~m.fault /\ m.leaks = {}
    BY <1>2 DEF Blamed
  <2>2. PICK v : v = Eval(m.env, m.cells, x)
    OBVIOUS
  <2>3. EmitResult(m, out.idx, x, v, k)
    BY <1>0, <2>1, <2>2, EmitIs
  <2>4. StaticType(names, x) \in Types
    BY KnownTypes
  <2>5. OutputNamed(out.idx) = out
    BY <2>4, WriteCases
  <2> HIDE DEF k
  <2>6. CASE v.type = "nothing"
    BY <2>3, <2>6 DEF EmitResult, Blamed, k
  <2>7. CASE v.type # "nothing" /\ (ToStruct(v) <=> Scalar(out))
    BY <2>3, <2>5, <2>7 DEF EmitResult, Blamed, k
  <2>8. CASE v.type # "nothing" /\ ~(ToStruct(v) <=> Scalar(out))
    <3>1. Leaks(m, out.idx, x, v)
      BY <1>0, <2>1, <2>2, <2>8, RefusedLeak
    <3>2. Emitted(out.idx, x) \in k.leaks
      BY <2>3, <2>8, <3>1 DEF EmitResult
    <3> QED
      BY <3>2 DEF Blamed, k
  <2> QED
    BY <2>6, <2>7, <2>8
<1> QED
  BY <1>1, <1>2

(* A target that get() gives no place for is a constant.                   *)
LEMMA BadTarget ==
  ASSUME NEW d, NEW D, NEW table, NEW count, Created(d, D), TableOK(D, table, count),
         NEW n, IsSourceName(n), NEW y
  PROVE  /\ assignment(visit_Name(table, n), y) = Bad => Known(table, n) /\ table[n].source = "ConstantSource"
         /\ Known(table, n) /\ assignment(get(table[n]), y) = Bad => table[n].source = "ConstantSource"
<1>1. \A a : assignment(Name(a), y) # Bad /\ assignment(Cell(a), y) # Bad
  BY DEF assignment, Bad, Name, Cell, Assign, Store
<1>2. \/ Known(table, n) /\ table[n] \in D /\ visit_Name(table, n) = get(table[n])
      \/ visit_Name(table, n) = Name(n)
  <2>1. \/ Known(table, n) /\ table[n] \in D /\ (n = table[n].name \/ table[n].opaque)
           /\ visit_Name(table, n) = get(table[n])
        \/ visit_Name(table, n) = Name(n) /\ ~IsStruct(table, n)
           /\ (Known(table, n) => table[n].source = "LocalVariableSource" /\ table[n].opaque = FALSE
                                  /\ table[n].type \in Types)
    BY VisitName, Zenon
  <2> QED
    BY <2>1, Zenon
<1>3. ASSUME NEW v \in D, assignment(get(v), y) = Bad PROVE v.source = "ConstantSource"
  BY <1>1, <1>3, GetHost
<1>4. Known(table, n) => get(table[n]) = visit_Name(table, n)
  BY DEF visit_Name
<1> QED
  BY <1>1, <1>2, <1>3, <1>4

LEMMA AssignRefused ==
  ASSUME NEW d, NEW D, NEW table, NEW count, Created(d, D), TableOK(D, table, count),
         NEW st, st.s = "assign", IsStatement(st), ~visit_Assign(table, count, st).ok
  PROVE  Known(table, st.n) /\ (table[st.n].source = "ConstantSource" \/ st.es[1].e = "datetime")
<1> DEFINE x == st.es[1]
           n == st.n
<1>1. IsSourceName(n) /\ IsExpression(x)
  BY DEF IsStatement, IsSequence
<1>2. ~Raises.ok /\ \A a, b, c : Visited(a, b, c).ok
  BY DEF Raises, Visited
<1>3. ASSUME NEW type, NEW y, ~assign_known(table, count, n, type, y).ok
      PROVE  Known(table, n) /\ table[n].source = "ConstantSource"
  <2>1. Known(table, n) /\ assignment(get(table[n]), y) = Bad
    <3>1. CASE Known(table, n)
      <4>1. assign_known(table, count, n, type, y) =
              IF assignment(get(table[n]), y) = Bad THEN Raises ELSE Visited(<<assignment(get(table[n]), y)>>, table, count)
        BY <3>1 DEF assign_known
      <4> QED
        BY <1>2, <1>3, <3>1, <4>1
    <3>2. CASE ~Known(table, n)
      BY <1>2, <1>3, <3>2 DEF assign_known
    <3> QED
      BY <3>1, <3>2
  <2> QED
    BY <1>1, <2>1, BadTarget
<1>4. ASSUME NEW t, ~generic_visit(t, count, st).ok PROVE assignment(visit_Name(t, n), visit(t, x)) = Bad
  <2>1. generic_visit(t, count, st) =
          IF assignment(visit_Name(t, n), visit(t, x)) = Bad THEN Raises
          ELSE Visited(<<assignment(visit_Name(t, n), visit(t, x))>>, t, count)
    BY DEF generic_visit
  <2> QED
    BY <1>2, <1>4, <2>1
<1>5. CASE x.e = "field" /\ IsStruct(table, x.l.n)
  BY <1>3, <1>5 DEF visit_Assign
<1>6. CASE x.e = "name" /\ Known(table, x.n)
  <2>1. CASE table[x.n].opaque /\ ~Known(table, n)
    BY <1>2, <1>6, <2>1 DEF visit_Assign
  <2>2. CASE ~(table[x.n].opaque /\ ~Known(table, n))
    BY <1>3, <1>6, <2>2 DEF visit_Assign
  <2> QED
    BY <2>1, <2>2
<1>7. CASE x.e = "datetime"
  <2> SUFFICES ASSUME ~Known(table, n) PROVE FALSE
    BY <1>7
  <2> DEFINE t == With(table, n, LocalVariableSource(get_type("datetime", "unknown"), n))
  <2>1. visit_Assign(table, count, st) = generic_visit(t, count, st)
    BY <1>7 DEF visit_Assign
  <2>2. assignment(visit_Name(t, n), visit(t, x)) = Bad
    BY <1>4, <2>1
  <2>3. visit_Name(t, n) = Name(n)
    <3>1. Known(t, n) /\ t[n] = LocalVariableSource(get_type("datetime", "unknown"), n)
      BY DEF Known, With
    <3>2. t[n].source = "LocalVariableSource" /\ t[n].name = n
      BY <3>1 DEF LocalVariableSource, Source
    <3> HIDE DEF t
    <3> QED
      BY <3>1, <3>2 DEF visit_Name, get, local_variable_name
  <2> QED
    BY <2>2, <2>3 DEF assignment, Bad, Name, Assign
<1>8. CASE ~(x.e = "field" /\ IsStruct(table, x.l.n)) /\ ~(x.e = "name" /\ Known(table, x.n)) /\ x.e # "datetime"
  <2>1. visit_Assign(table, count, st) = generic_visit(table, count, st)
    BY <1>8 DEF visit_Assign
  <2> QED
    BY <1>1, <1>4, <2>1, BadTarget
<1> QED
  BY <1>5, <1>6, <1>7, <1>8

(* An element is refused only for the type the table knows.                *)
LEMMA ElementTaken ==
  ASSUME NEW d, NEW D, NEW acc, Created(d, D), TableOK(D, acc.names, acc.tmp), acc.ok,
         NEW i, NEW x, IsExpression(x), NEW out \in D, out.source = "OutputSource", out.idx = i,
         x = Nil \/ write_accepts(out, StaticType(acc.names, x))
  PROVE  LET r == visit_element(acc, i, x)
             f == from_ast(acc.names, acc.tmp, x)
         IN  r.ok /\ r.names = f.names /\ r.tmp = f.tmp
<1> DEFINE outs == {n \in Outputs(acc.names) : acc.names[n].idx = i}
           o == acc.names[CHOOSE n \in outs : TRUE]
           f == from_ast(acc.names, acc.tmp, x)
           r == visit_element(acc, i, x)
<1>1. r = CASE ~acc.ok \/ outs = {} -> Raises
            [] acc.ok /\ outs # {} /\ x = Nil -> Visited(acc.code, f.names, f.tmp)
            [] OTHER -> IF write_accepts(o, f.var.type)
                        THEN Visited(acc.code \o f.code \o write(o, get(f.var)), f.names, f.tmp)
                        ELSE Raises
  BY DEF visit_element
<1>2. out.name \in outs
  <2>1. out.name \in DOMAIN acc.names /\ acc.names[out.name] = out
    BY DEF TableOK, Known
  <2> QED
    BY <2>1 DEF Outputs
<1>3. \A n \in outs : acc.names[n] = out
  <2> SUFFICES ASSUME NEW n \in outs PROVE acc.names[n] = out
    OBVIOUS
  <2>1. n \in DOMAIN acc.names /\ acc.names[n].source = "OutputSource" /\ acc.names[n].idx = i
    BY DEF Outputs
  <2>2. acc.names[n] \in D
    BY <2>1, HostEntry DEF HostKinds
  <2> QED
    BY <2>1, <2>2 DEF Created
<1> HIDE DEF outs, r, f
<1>4. outs # {} /\ o = out
  BY <1>2, <1>3
<1> HIDE DEF o
<1>5. x # Nil => f.var.type = StaticType(acc.names, x)
  BY StaticTypes DEF f
<1>6. x = Nil => r = Visited(acc.code, f.names, f.tmp)
  BY <1>1, <1>4
<1>7. x # Nil => r = Visited(acc.code \o f.code \o write(o, get(f.var)), f.names, f.tmp)
  BY <1>1, <1>4, <1>5
<1>8. \A a, b, c : Visited(a, b, c).ok /\ Visited(a, b, c).names = b /\ Visited(a, b, c).tmp = c
  BY DEF Visited
<1>9. r.ok /\ r.names = f.names /\ r.tmp = f.tmp
  BY <1>6, <1>7, <1>8
<1> QED
  BY <1>9 DEF r, f

LEMMA ReturnRefused ==
  ASSUME AcceptedNode, NEW m, PyInv(m), PyKnown(names, m), NEW st, IsStatement(st), st.s = "return",
         ~visit_Return(names, tmp, st).ok,
         \A i \in DOMAIN st.es : \E v \in Declared : v.source = "OutputSource" /\ v.idx = i,
         NEW h, EmitChain(m, st.es, Len(st.es), h)
  PROVE  Blamed(h[Len(st.es)])
<1> DEFINE N == Len(st.es)
<1>1. N \in Nat /\ DOMAIN st.es = 1 .. N /\ \A i \in DOMAIN st.es : IsExpression(st.es[i])
  BY DEF IsStatement, IsSequence
<1>2. PICK g : /\ g[0] = Visited(<<>>, names, tmp)
               /\ \A i \in 1 .. N : g[i] = visit_element(g[i - 1], i, st.es[i])
               /\ visit_Return(names, tmp, st) =
                    IF g[N].ok THEN Visited(Append(g[N].code, Return(<<>>)), g[N].names, g[N].tmp) ELSE Raises
  BY ReturnSteps DEF IsStatement
<1>3. ~g[N].ok
  BY <1>2 DEF Visited
<1>4. Created(node, Declared) /\ TableOK(Declared, names, tmp)
  BY DeclaredVariables DEF AcceptedNode, Accepted
<1> HIDE DEF N
<1> DEFINE Good(a, k) == /\ a.ok /\ TableOK(Declared, a.names, a.tmp) /\ SameTypes(names, a.names)
                         /\ PyInv(k) /\ k.env = m.env
           P(a, k) == IsMachine(k) /\ (Good(a, k) \/ Blamed(k))
           A == {i \in Nat : i <= N => P(g[i], h[i])}
<1>5. P(g[0], h[0])
  BY <1>2, <1>4 DEF EmitChain, Visited, SameTypes, PyInv, PyOK
<1>6. A \in SUBSET Nat /\ 0 \in A
  BY <1>5
<1>7. ASSUME NEW a, NEW k, Good(a, k), NEW i, NEW x, IsExpression(x),
             NEW out \in Declared, out.source = "OutputSource", out.idx = i
      PROVE  P(visit_element(a, i, x), Emit(k, i, x))
  <2>1. IsMachine(k)
    BY <1>7 DEF PyInv, PyOK
  <2>2. StaticType(a.names, x) = StaticType(names, x)
    <3>1. x.e = "name" => IsSourceName(x.n)
      BY <1>7, ExpressionKinds
    <3> QED
      BY <1>7, <3>1 DEF StaticType, SameTypes
  <2>3. CASE x # Nil /\ ~write_accepts(out, StaticType(names, x))
    <3>1. PyKnown(names, k)
      BY <1>7 DEF PyKnown
    <3>2. Blamed(Emit(k, i, x))
      BY <1>7, <2>3, <3>1, RefusedEmit
    <3> QED
      BY <2>1, <3>2, EmitGrows
  <2>4. CASE x = Nil \/ write_accepts(out, StaticType(names, x))
    <3> DEFINE r == visit_element(a, i, x)
               f == from_ast(a.names, a.tmp, x)
               q == Emit(k, i, x)
    <3>1. r.ok /\ r.names = f.names /\ r.tmp = f.tmp
      BY <1>4, <1>7, <2>2, <2>4, ElementTaken
    <3>2. TableOK(Declared, f.names, f.tmp)
      BY <1>4, <1>7, FromAstNames
    <3>3. SameTypes(a.names, f.names)
      BY <1>4, <1>7, FromAstTypes
    <3>4. x # Nil => EmitAccepted(Declared, names, i, x)
      BY <1>7, <2>4 DEF EmitAccepted
    <3>5. PyInv(q) /\ q.env = k.env
      BY <1>7, <3>4, EmitKeeps
    <3> HIDE DEF r, f, q
    <3>6. TableOK(Declared, r.names, r.tmp) /\ SameTypes(names, r.names)
      BY <1>7, <3>1, <3>2, <3>3 DEF SameTypes
    <3>7. Good(r, q)
      BY <1>7, <3>1, <3>5, <3>6
    <3>8. IsMachine(q)
      BY <3>5 DEF PyInv, PyOK
    <3> HIDE DEF Good
    <3> QED
      BY <3>7, <3>8 DEF r, q
  <2> QED
    BY <2>3, <2>4
<1>8. ASSUME NEW a, NEW k, IsMachine(k), Blamed(k), NEW z, NEW i, NEW x PROVE P(z, Emit(k, i, x))
  BY <1>8, EmitGrows
<1> HIDE DEF Good
<1>9. ASSUME NEW j \in Nat, j \in A PROVE j + 1 \in A
  <2> SUFFICES ASSUME j + 1 <= N PROVE P(g[j + 1], h[j + 1])
    OBVIOUS
  <2>1. j + 1 \in 1 .. N /\ (j + 1) - 1 = j /\ P(g[j], h[j])
    BY <1>1, <1>9
  <2>2. g[j + 1] = visit_element(g[j], j + 1, st.es[j + 1]) /\ h[j + 1] = Emit(h[j], j + 1, st.es[j + 1])
    BY <1>2, <2>1 DEF EmitChain, N
  <2>3. IsExpression(st.es[j + 1])
    BY <1>1, <2>1
  <2>4. PICK out \in Declared : out.source = "OutputSource" /\ out.idx = j + 1
    BY <1>1, <2>1
  <2> DEFINE a == g[j]
             k == h[j]
             i == j + 1
             x == st.es[j + 1]
             z == g[j + 1]
             q == h[j + 1]
  <2> HIDE DEF a, k, i, x, z, q, P
  <2>5. IsMachine(k) /\ (Good(a, k) \/ Blamed(k)) /\ z = visit_element(a, i, x) /\ q = Emit(k, i, x)
        /\ IsExpression(x) /\ out.idx = i
    BY <2>1, <2>2, <2>3, <2>4 DEF a, k, i, x, z, q, P
  <2>6. P(z, q)
    BY <1>7, <1>8, <2>4, <2>5
  <2> QED
    BY <2>6 DEF z, q
<1> HIDE DEF A
<1>10. A = Nat
  BY <1>6, <1>9, NatSetInduction
<1>11. P(g[N], h[N])
  BY <1>1, <1>10 DEF A
<1>12. Blamed(h[N])
  BY <1>3, <1>11 DEF Good
<1> QED
  BY <1>12 DEF N

LEMMA StatementRefused ==
  ASSUME AcceptedNode, NEW m, PyInv(m), PyKnown(names, m), ~m.done, ~m.fault, NEW st, IsStatement(st),
         ~visit_statement(names, tmp, st).ok, ~Excused(st)
  PROVE  Blamed(PythonExecute(m, st))
<1> DEFINE k == PythonExecute(m, st)
           x == st.es[1]
<1>1. Created(node, Declared) /\ TableOK(Declared, names, tmp)
      /\ Of(names, "OutputSource") = {v \in Declared : v.source = "OutputSource"}
  BY DeclaredVariables DEF AcceptedNode, Accepted, HostKinds
<1>2. st.s \in {"assign", "field", "output", "return"}
  BY DEF IsStatement
<1>3. st.s # "return" => IsExpression(x) /\ IsSourceName(st.n)
  BY DEF IsStatement, IsSequence
<1>4. CASE st.s = "assign"
  <2>1. ~visit_Assign(names, tmp, st).ok
    BY <1>4 DEF visit_statement
  <2> QED
    BY <1>1, <1>4, <2>1, AssignRefused DEF Excused
<1>5. CASE st.s = "field"
  BY <1>1, <1>3, <1>5, VisitFieldStore DEF visit_statement
<1>6. CASE st.s = "output"
  <2>1. ~visit_set_output(names, tmp, st).ok
    BY <1>6 DEF visit_statement
  <2>2. x # Nil /\ st.n \in Outputs(names)
    BY <1>6 DEF Excused
  <2> DEFINE f == from_ast(names, tmp, x)
             out == names[st.n]
  <2>3. visit_set_output(names, tmp, st) =
          IF st.n \notin Outputs(names) \/ x = Nil \/ ~write_accepts(out, f.var.type)
          THEN Raises ELSE Visited(f.code \o write(out, get(f.var)), f.names, f.tmp)
    BY DEF visit_set_output
  <2>4. \A a, b, c : Visited(a, b, c).ok
    BY DEF Visited
  <2>5. ~write_accepts(out, f.var.type)
    BY <2>1, <2>2, <2>3, <2>4
  <2>6. f.var.type = StaticType(names, x)
    BY <1>1, <1>3, <1>6, <2>2, StaticTypes
  <2>7. out \in Declared /\ out.source = "OutputSource"
    BY <1>1, <2>2, HostEntry DEF Outputs, HostKinds
  <2>8. k = Emit(m, out.idx, x)
    BY <1>6 DEF PythonExecute
  <2> HIDE DEF k, f, out
  <2>9. Blamed(Emit(m, out.idx, x))
    BY <1>3, <1>6, <2>2, <2>5, <2>6, <2>7, RefusedEmit
  <2> QED
    BY <2>8, <2>9 DEF k
<1>7. CASE st.s = "return"
  <2>1. ~visit_Return(names, tmp, st).ok
    BY <1>7 DEF visit_statement
  <2>2. \A i \in DOMAIN st.es : \E v \in Declared : v.source = "OutputSource" /\ v.idx = i
    BY <1>1, <1>7 DEF Excused
  <2>3. Len(st.es) \in Nat
    BY DEF IsStatement, IsSequence
  <2>4. PICK h : EmitChain(m, st.es, Len(st.es), h) /\ PythonReturn(m, st.es) = [h[Len(st.es)] EXCEPT !.done = TRUE]
    BY <2>3, ReturnChain
  <2> DEFINE l == h[Len(st.es)]
  <2>5. Blamed(l)
    BY <1>7, <2>1, <2>2, <2>4, ReturnRefused
  <2>6. k = [l EXCEPT !.done = TRUE]
    BY <1>7, <2>4 DEF PythonExecute
  <2>7. IsMachine(m) /\ IsMachine(k)
    BY PythonExecuteMachine DEF PyInv, PyOK
  <2> HIDE DEF k, l
  <2>8. k.fault = l.fault /\ k.leaks = l.leaks
    BY <2>6, <2>7 DEF IsMachine
  <2> QED
    BY <2>5, <2>8 DEF Blamed, k
<1> QED
  BY <1>2, <1>4, <1>5, <1>6, <1>7

(* A node is refused only for a reason Python shows, or for one of those   *)
(* the compiler is known not to support.                                   *)
THEOREM RefusesOnlyDishonest == Spec => []AcceptsHonest
<1>1. TableInv /\ OrderInv /\ TraceInv /\ ScopeInv => AcceptsHonest
  <2> SUFFICES ASSUME TableInv, OrderInv, TraceInv, ScopeInv, phase = "refused", Written > 0, ~Excused(LastStatement)
               PROVE  LET r == PythonRun(source[LastBody], Machine(<<>>, HostCells)) IN Blamed(r)
    BY DEF AcceptsHonest, LastStatement, Blamed
  <2> DEFINE b == LastBody
             n == Len(source[b])
             K == Translated(b)
             was == Machine(<<>>, HostCells)
             st == LastStatement
  <2>1. AcceptedNode /\ n > 0 /\ ~visit_statement(names, tmp, st).ok /\ Begins
    BY DEF OrderInv, AcceptedNode, TableInv, Begins
  <2>2. b \in Bodies /\ n \in Nat /\ K = n - 1 /\ Current = b /\ st = source[b][n]
    BY LastBodyFacts DEF Current, Translated, LastStatement
  <2>3. PyHost(was) /\ InputsTyped(was.cells)
    BY <2>1, HostStart
  <2>4. PICK V, f :
           /\ BodyTrace(Declared, names, tmp, source, code[b], b, K, b = Current, V)
           /\ f[0] = Begun(was) /\ \A i \in 1 .. n : f[i] = PythonExecute(f[i - 1], source[b][i])
           /\ PythonRun(source[b], was) = Left(was, f[n])
           /\ \A j \in 0 .. K : RanTo(Parameters(b), source[b], V[j].names, Begun(was), f[j], j)
    <3> HIDE DEF was, b
    <3> QED
      BY <2>1, <2>2, <2>3, PyRunBody
  <2>5. DOMAIN source[b] = 1 .. n /\ IsStatement(st)
    <3>1. IsSource(source[b])
      BY <2>2 DEF TableInv
    <3> HIDE DEF b, st
    <3>2. DOMAIN source[b] = 1 .. n /\ \A i \in 1 .. n : IsStatement(source[b][i])
      BY <3>1 DEF IsSource, IsSequence
    <3>3. n \in 1 .. n
      BY <2>1, <2>2
    <3> QED
      BY <2>2, <3>2, <3>3
  <2>6. \A i \in 1 .. K : source[b][i].s # "return"
    BY <2>1, <2>2, <2>5 DEF ScopeInv, Scoped
  <2> HIDE DEF was, b, n, K, st
  <2>7. V[K].names = names /\ K \in 0 .. K
    BY <2>1, <2>2, <2>4 DEF BodyTrace
  <2> DEFINE m == f[K]
  <2>8. PyInv(m) /\ PyKnown(names, m) /\ (~m.fault => ~m.done)
    <3>1. RanTo(Parameters(b), source[b], V[K].names, Begun(was), m, K)
      BY <2>4, <2>7
    <3> HIDE DEF m
    <3> QED
      BY <2>6, <2>7, <3>1 DEF RanTo
  <2>9. f[n] = PythonExecute(m, st)
    BY <2>1, <2>2, <2>4
  <2> HIDE DEF m
  <2>10. Blamed(PythonExecute(m, st)) /\ IsMachine(PythonExecute(m, st))
    <3>1. CASE m.fault
      BY <2>5, <2>8, <3>1, PythonExecuteMachine DEF PythonExecute, Blamed, PyInv, PyOK
    <3>2. CASE ~m.fault
      <4>1. ~Excused(st)
        BY DEF st
      <4> QED
        BY <2>1, <2>5, <2>8, <3>2, <4>1, StatementRefused, PythonExecuteMachine DEF PyInv, PyOK
    <3> QED
      BY <3>1, <3>2
  <2>11. Blamed(Left(was, f[n]))
    BY <2>9, <2>10, LeftMachine DEF Blamed
  <2> QED
    BY <2>4, <2>11 DEF b, was
<1> QED
  BY <1>1, TraceHolds, PTL

-----------------------------------------------------------------------------
\* Code, piece by piece

LEMMA ConcatIndices ==
  ASSUME NEW a, NEW b, IsSequence(a), IsSequence(b)
  PROVE  /\ Len(a) \in Nat /\ Len(b) \in Nat /\ Len(a \o b) = Len(a) + Len(b)
         /\ \A i \in 1 .. Len(a) : (a \o b)[i] = a[i]
         /\ \A i \in 1 .. Len(b) : (a \o b)[Len(a) + i] = b[i]
<1> DEFINE n == Len(a)
           m == Len(b)
           c == a \o b
           S == {a[i] : i \in DOMAIN a} \cup {b[i] : i \in DOMAIN b}
<1>1. n \in Nat /\ m \in Nat /\ DOMAIN a = 1 .. n /\ DOMAIN b = 1 .. m
  BY DEF IsSequence
<1>2. a \in Seq(S) /\ b \in Seq(S)
  <2>1. a \in [1 .. n -> S] /\ b \in [1 .. m -> S]
    <3>1. \A i \in 1 .. n : a[i] \in S
      BY <1>1
    <3>2. \A i \in 1 .. m : b[i] \in S
      BY <1>1
    <3> HIDE DEF S
    <3> QED
      BY <3>1, <3>2 DEF IsSequence
  <2> HIDE DEF S, n, m
  <2> QED
    BY <2>1, <1>1, SeqDef
<1>3. Len(c) = n + m /\ \A i \in 1 .. n + m : c[i] = IF i <= n THEN a[i] ELSE b[i - n]
  <2> HIDE DEF S
  <2> QED
    BY <1>1, <1>2, ConcatProperties
<1> HIDE DEF c, n, m
<1>4. \A i \in 1 .. n : c[i] = a[i]
  BY <1>1, <1>3
<1>5. \A i \in 1 .. m : c[n + i] = b[i]
  <2> SUFFICES ASSUME NEW i \in 1 .. m PROVE c[n + i] = b[i]
    OBVIOUS
  <2>1. n + i \in 1 .. n + m /\ ~(n + i <= n) /\ (n + i) - n = i
    BY <1>1
  <2> QED
    BY <1>3, <2>1
<1> QED
  BY <1>1, <1>3, <1>4, <1>5 DEF c, n, m

(* A run, from the machine it starts with.                                 *)
Runs(m, stmts, n, f) == f[0] = m /\ \A i \in 1 .. n : f[i] = Execute(f[i - 1], stmts[i])

LEMMA RunIsOne ==
  ASSUME NEW m, NEW s, NEW t, NEW n \in Nat, \A i \in 1 .. n : s[i] = t[i],
         NEW f, NEW g, Runs(m, s, n, f), Runs(m, t, n, g)
  PROVE  f[n] = g[n]
<1> DEFINE A == {k \in Nat : k <= n => f[k] = g[k]}
<1>1. A \in SUBSET Nat /\ 0 \in A
  BY DEF Runs
<1>2. ASSUME NEW k \in Nat, k \in A PROVE k + 1 \in A
  <2> SUFFICES ASSUME k + 1 <= n PROVE f[k + 1] = g[k + 1]
    OBVIOUS
  <2>1. k + 1 \in 1 .. n /\ (k + 1) - 1 = k /\ f[k] = g[k]
    BY <1>2
  <2> QED
    BY <2>1 DEF Runs
<1> HIDE DEF A
<1>3. A = Nat
  BY <1>1, <1>2, NatSetInduction
<1> QED
  BY <1>3 DEF A

LEMMA RunsOf ==
  ASSUME NEW m, NEW s, Len(s) \in Nat
  PROVE  \E f : Runs(m, s, Len(s), f) /\ Execution(m, s) = f[Len(s)]
BY ExecutionSteps DEF Runs

LEMMA ExecutionIs ==
  ASSUME NEW m, NEW s, Len(s) \in Nat, NEW f, Runs(m, s, Len(s), f)
  PROVE  Execution(m, s) = f[Len(s)]
<1>1. PICK g : /\ g[0] = m
               /\ \A i \in 1 .. Len(s) : g[i] = Execute(g[i - 1], s[i])
               /\ Execution(m, s) = g[Len(s)]
  BY ExecutionSteps
<1>2. Runs(m, s, Len(s), g)
  BY <1>1 DEF Runs
<1> QED
  BY <1>1, <1>2, RunIsOne

LEMMA ExecutionOfConcat ==
  ASSUME NEW m, NEW s, NEW t, IsSequence(s), IsSequence(t)
  PROVE  Execution(m, s \o t) = Execution(Execution(m, s), t)
<1> DEFINE n == Len(s)
           k == Len(t)
           c == s \o t
<1>1. /\ n \in Nat /\ k \in Nat /\ Len(c) = n + k
      /\ \A i \in 1 .. n : c[i] = s[i]
      /\ \A i \in 1 .. k : c[n + i] = t[i]
  BY ConcatIndices
<1> HIDE DEF n, k, c
<1>2. PICK f : Runs(m, c, n + k, f) /\ Execution(m, c) = f[n + k]
  <2>1. Len(c) \in Nat
    BY <1>1
  <2>2. \E f : Runs(m, c, Len(c), f) /\ Execution(m, c) = f[Len(c)]
    BY <2>1, RunsOf
  <2> QED
    BY <1>1, <2>2
<1>3. PICK g : Runs(m, s, n, g) /\ Execution(m, s) = g[n]
  BY <1>1, RunsOf DEF n
<1>4. f[n] = g[n]
  <2>1. Runs(m, c, n, f)
    BY <1>1, <1>2 DEF Runs
  <2> QED
    BY <1>1, <1>3, <2>1, RunIsOne
<1> DEFINE h == [i \in 0 .. k |-> f[n + i]]
<1>5. Runs(g[n], t, k, h)
  <2>1. h[0] = g[n]
    BY <1>1, <1>4
  <2>2. ASSUME NEW i \in 1 .. k PROVE h[i] = Execute(h[i - 1], t[i])
    <3>1. n + i \in 1 .. n + k /\ (n + i) - 1 = n + (i - 1) /\ i \in 0 .. k /\ i - 1 \in 0 .. k
      BY <1>1
    <3>2. f[n + i] = Execute(f[n + (i - 1)], c[n + i])
      BY <1>2, <3>1 DEF Runs
    <3> QED
      BY <1>1, <3>1, <3>2
  <2> QED
    BY <2>1, <2>2 DEF Runs
<1>6. h[k] = f[n + k]
  BY <1>1
<1> HIDE DEF h
<1>7. Execution(g[n], t) = h[k]
  BY <1>1, <1>5, ExecutionIs DEF k
<1> QED
  BY <1>2, <1>3, <1>6, <1>7 DEF c

LEMMA ExecutionOfOne ==
  ASSUME NEW m, NEW a
  PROVE  Execution(m, <<>>) = m /\ Execution(m, <<a>>) = Execute(m, a)
<1>1. Len(<<>>) = 0 /\ Len(<<a>>) = 1 /\ <<a>>[1] = a
  OBVIOUS
<1>2. Execution(m, <<>>) = m
  <2>1. PICK f : f[0] = m /\ Execution(m, <<>>) = f[0]
    BY <1>1, ExecutionSteps
  <2> QED
    BY <2>1
<1>3. PICK f : /\ f[0] = m
               /\ \A i \in 1 .. Len(<<a>>) : f[i] = Execute(f[i - 1], <<a>>[i])
               /\ Execution(m, <<a>>) = f[Len(<<a>>)]
  BY <1>1, ExecutionSteps
<1>4. f[1] = Execute(f[1 - 1], <<a>>[1]) /\ 1 - 1 = 0
  BY <1>1, <1>3
<1> QED
  BY <1>1, <1>2, <1>3, <1>4

LEMMA ExecutionOfTwo ==
  ASSUME NEW m, NEW a, NEW b
  PROVE  Execution(m, <<a, b>>) = Execute(Execute(m, a), b)
<1>1. Len(<<a, b>>) = 2 /\ <<a, b>>[1] = a /\ <<a, b>>[2] = b
  OBVIOUS
<1>2. PICK f : /\ f[0] = m
               /\ \A i \in 1 .. Len(<<a, b>>) : f[i] = Execute(f[i - 1], <<a, b>>[i])
               /\ Execution(m, <<a, b>>) = f[Len(<<a, b>>)]
  BY <1>1, ExecutionSteps
<1>3. f[1] = Execute(f[1 - 1], <<a, b>>[1]) /\ 1 - 1 = 0 /\ f[2] = Execute(f[2 - 1], <<a, b>>[2]) /\ 2 - 1 = 1
  BY <1>1, <1>2
<1> QED
  BY <1>1, <1>2, <1>3

-----------------------------------------------------------------------------
\* Compiled code beside Python, a statement at a time

(* What a name is worth in compiled code.                                  *)
Held(env, cells, table, n) == Atom(env, cells, visit_Name(table, n))

LEMMA ReadName ==
  ASSUME AcceptedNode, NEW table, NEW count, TableOK(Declared, table, count), NEW n, IsSourceName(n)
  PROVE  LET w == table[n]
         IN  \/ /\ Known(table, n) /\ w \in Declared /\ w.source = "ConstantSource"
                /\ visit_Name(table, n) = Const(w.value) /\ Number(w.value)
             \/ /\ Known(table, n) /\ w \in Declared /\ w.source # "ConstantSource" /\ ~Scalar(w)
                /\ visit_Name(table, n) = Name(local_variable_name(w))
             \/ /\ Known(table, n) /\ w \in Declared /\ w.source # "ConstantSource" /\ Scalar(w)
                /\ visit_Name(table, n) = Cell(local_variable_name(w))
             \/ /\ ~Known(table, n) \/ w \notin Declared
                /\ visit_Name(table, n) = Name(n) /\ \A v \in Declared : local_variable_name(v) # n
<1>1. Created(node, Declared)
  BY DeclaredVariables DEF AcceptedNode
<1> DEFINE w == table[n]
<1>2. /\ (~Known(table, n) \/ w \notin Declared) => \A v \in Declared : local_variable_name(v) # n
      /\ \/ Known(table, n) /\ w \in Declared /\ visit_Name(table, n) = get(w)
         \/ visit_Name(table, n) = Name(n) /\ (Known(table, n) => w.source = "LocalVariableSource")
  <2>1. (~Known(table, n) \/ w \notin Declared) => \A v \in Declared : local_variable_name(v) # n
    <3>1. ASSUME NEW v \in Declared, local_variable_name(v) = n PROVE Known(table, n) /\ w \in Declared
      <4>1. Known(table, v.name) /\ table[v.name] = v
        BY DEF TableOK
      <4>2. v.name = n
        BY <1>1, <3>1, LocalNames
      <4> QED
        BY <4>1, <4>2
    <3> QED
      BY <3>1
  <2>2. \/ Known(table, n) /\ w \in Declared /\ (n = w.name \/ w.opaque) /\ visit_Name(table, n) = get(w)
        \/ visit_Name(table, n) = Name(n) /\ ~IsStruct(table, n)
           /\ (Known(table, n) => w.source = "LocalVariableSource" /\ w.opaque = FALSE /\ w.type \in Types)
    BY <1>1, VisitName, Zenon
  <2> QED
    BY <2>1, <2>2
<1>3. w \in Declared => w.source # "LocalVariableSource"
  BY <1>1 DEF Created, IsHostVariable, HostKinds
<1>4. w \in Declared => /\ w.source = "ConstantSource" => get(w) = Const(w.value) /\ Number(w.value)
                        /\ w.source # "ConstantSource" /\ w.type.class = "StructType" => get(w) = Name(local_variable_name(w))
                        /\ w.source # "ConstantSource" /\ w.type.class # "StructType" => get(w) = Cell(local_variable_name(w))
  BY <1>1, GetHost
<1> QED
  BY <1>2, <1>3, <1>4 DEF Scalar

(* A name the compiler makes disturbs no other.                            *)
LEMMA OtherNames ==
  ASSUME AcceptedNode, NEW table, NEW count, TableOK(Declared, table, count), NEW n, IsSourceName(n),
         NEW env, NEW cells, NEW t, NEW val, \A v \in Declared : local_variable_name(v) # t, n # t
  PROVE  Held(With(env, t, val), cells, table, n) = Held(env, cells, table, n)
<1>1. \A u : u # t => (Known(With(env, t, val), u) <=> Known(env, u))
                      /\ (Known(env, u) => With(env, t, val)[u] = env[u])
  BY DEF With, Known
<1>2. \/ \E c : visit_Name(table, n) = Const(c)
      \/ \E u : u # t /\ visit_Name(table, n) \in {Name(u), Cell(u)}
  BY ReadName
<1> QED
  BY <1>1, <1>2 DEF Held, Atom, Const, Name, Cell

(* Nor does a write to the cell of another variable.                       *)
LEMMA OtherCells ==
  ASSUME AcceptedNode, NEW table, NEW count, TableOK(Declared, table, count), NEW n, IsSourceName(n),
         NEW env, NEW cells, NEW later,
         Known(table, n) /\ table[n] \in Declared /\ table[n].source # "ConstantSource" /\ Scalar(table[n]) =>
           LET u == local_variable_name(table[n])
               c == CellOf(table[n])
           IN  Known(env, u) /\ env[u] = Pointer(c) /\ later[c] = cells[c]
  PROVE  Held(env, later, table, n) = Held(env, cells, table, n)
<1>1. CASE \E x : visit_Name(table, n) \in {Const(x), Name(x)}
  BY <1>1 DEF Held, Atom, Const, Name
<1>2. CASE /\ Known(table, n) /\ table[n] \in Declared /\ table[n].source # "ConstantSource" /\ Scalar(table[n])
           /\ visit_Name(table, n) = Cell(local_variable_name(table[n]))
  BY <1>2 DEF Held, Atom, Cell, Pointer, Value
<1> QED
  BY <1>1, <1>2, ReadName

(* The compiled value of what Python means: pointers are the same, numbers *)
(* are numbers, and the same as long as nothing had another type.          *)
Agree(a, q, leaks) == IF ToStruct(q) THEN a = q ELSE Number(a) /\ (leaks = {} => a.n = q.n)

Means(P, table, m, p, n) ==
  /\ IsSourceName(n) /\ Known(p.env, n)
  /\ Known(table, n) /\ table[n] \in Declared => table[n] \in P
  /\ Agree(Held(m.env, m.cells, table, n), p.env[n], p.leaks)
  /\ ToStruct(p.env[n]) => Known(m.env, n) /\ m.env[n] = p.env[n]

(* A scalar state is a cell in compiled code and a name in Python.         *)
Shared(c) == c \in Cells /\ (c[1] = "StateSource" => CellType(c) \in Structs)
Mirrors(cells, others) == \A c \in Cells : Shared(c) => cells[c].n = others[c].n

Loaded(b, env) ==
  \A v \in init_filter(b) : Known(env, local_variable_name(v)) /\ env[local_variable_name(v)] = Pointer(CellOf(v))

(* The machine m runs the code of what p ran, and S are the names in scope.*)
Simulates(b, S, table, m, p) ==
  /\ MachineOK(m) /\ ~m.fault /\ (m.done <=> p.done) /\ m.ticks = p.ticks
  /\ Loaded(b, m.env)
  /\ \A n \in S : Means(Parameters(b), table, m, p, n)
  /\ p.leaks = {} => Mirrors(m.cells, p.cells)

LEMMA AgreeLater ==
  ASSUME NEW a, NEW q, NEW leaks, NEW later, leaks \subseteq later, Agree(a, q, leaks)
  PROVE  Agree(a, q, later)
BY DEF Agree

(* Expressions.                                                            *)
LEMMA EvalAgrees ==
  ASSUME AcceptedNode, NEW b, NEW S, NEW table, NEW count, TableOK(Declared, table, count),
         NEW m, NEW p, Simulates(b, S, table, m, p), PyOK(p),
         NEW x, IsExpression(x), Used(x) \subseteq S,
         NEW y, y = visit(table, x) \/ (x.e = "field" /\ IsStruct(table, x.l.n) /\ y = Field(visit_Name(table, x.l.n))),
         NEW q, q = Eval(p.env, p.cells, x), q.type # "nothing"
  PROVE  Agree(Eval(m.env, m.cells, y), q, p.leaks)
<1>0. Created(node, Declared)
  BY DeclaredVariables DEF AcceptedNode
<1>1. \A n \in S : Means(Parameters(b), table, m, p, n)
  BY DEF Simulates
<1>2. PyValue(q)
  BY PyEval, NothingType
<1> DEFINE leaks == p.leaks
           A(z) == Atom(m.env, m.cells, visit_atom(table, z))
           B(z) == Atom(p.env, p.cells, z)
<1>3. ASSUME NEW z, IsOperand(z), z.e = "name" => z.n \in S
      PROVE  /\ Agree(A(z), B(z), leaks)
             /\ PyValue(B(z)) \/ B(z) = Nothing
             /\ visit_atom(table, z).e \in {"name", "cell", "const"}
  <2>1. /\ z.e \in {"name", "const"}
        /\ z.e = "name" => z = Name(z.n) /\ visit_atom(table, z) = visit_Name(table, z.n) /\ IsSourceName(z.n)
        /\ z.e = "const" => visit_atom(table, z) = z
    BY <1>0, <1>3, VisitAtom
  <2>2. /\ PyValue(B(z)) \/ B(z) = Nothing
        /\ z.e = "const" => B(z) = z.v /\ Number(B(z))
        /\ z.e = "name" => B(z) = IF Known(p.env, z.n) THEN p.env[z.n] ELSE Nothing
    BY <1>3, PyAtom
  <2>3. CASE z.e = "const"
    <3>1. A(z) = z.v
      BY <2>1, <2>3 DEF Atom
    <3>2. ~ToStruct(z.v) /\ Number(z.v)
      BY <2>2, <2>3, PointerFacts
    <3> QED
      BY <2>1, <2>2, <2>3, <3>1, <3>2 DEF Agree
  <2>4. CASE z.e = "name"
    <3>1. Means(Parameters(b), table, m, p, z.n)
      BY <1>1, <1>3, <2>4
    <3>2. Agree(A(z), B(z), leaks)
      BY <2>1, <2>2, <2>4, <3>1 DEF Means, Held
    <3>3. visit_Name(table, z.n).e \in {"name", "cell", "const"}
      BY <2>1, <2>4, ReadName DEF Name, Cell, Const
    <3> QED
      BY <2>1, <2>2, <2>4, <3>2, <3>3
  <2> QED
    BY <2>1, <2>3, <2>4
<1> HIDE DEF A, B, leaks
<1>4. /\ x.e \in {"none", "name", "const", "field", "plus", "less", "datetime"}
      /\ x.e = "none" <=> x = Nil
      /\ x.e = "field" => x = Field(x.l) /\ x.l = Name(x.l.n) /\ IsSourceName(x.l.n)
      /\ x.e \in {"plus", "less"} => x = Op(x.e, x.l, x.r) /\ IsOperand(x.l) /\ IsOperand(x.r)
      /\ x.e \in {"name", "const"} => IsOperand(x)
  BY ExpressionKinds DEF IsOperand
<1>5. CASE x.e \in {"name", "const"}
  <2>1. x.e = "name" => x.n \in S
    BY DEF Used
  <2>2. Agree(A(x), B(x), leaks) /\ visit_atom(table, x).e \in {"name", "cell", "const"}
    BY <1>3, <1>4, <1>5, <2>1
  <2>3. y = visit_atom(table, x)
    BY <1>5 DEF visit
  <2>4. Eval(m.env, m.cells, y) = A(x)
    BY <2>2, <2>3 DEF Eval, A
  <2>5. q = B(x)
    BY <1>5 DEF Eval, B
  <2> QED
    BY <2>2, <2>4, <2>5 DEF leaks
<1>6. CASE x.e = "datetime"
  <2>1. y = Const(x.v)
    BY <1>6 DEF visit, visit_atom
  <2>2. Eval(m.env, m.cells, y) = x.v
    BY <2>1 DEF Eval, Atom, Const
  <2>3. q = x.v /\ Number(q)
    BY <1>6, PyEval
  <2> QED
    BY <2>2, <2>3, PointerFacts DEF Agree
<1>7. CASE x.e = "field"
  <2> DEFINE n == x.l.n
             s == p.env[n]
  <2>1. n \in S /\ x.l.e = "name" /\ x = Field(Name(n)) /\ IsSourceName(n)
    BY <1>4, <1>7 DEF Used, Name
  <2>2. Means(Parameters(b), table, m, p, n)
    BY <1>1, <2>1
  <2>3. q = IF ToStruct(s) THEN p.cells[s.n] ELSE Nothing
    BY <1>7, <2>1, <2>2 DEF Eval, Atom, Name, Means
  <2>4. ToStruct(s) /\ q = p.cells[s.n]
    BY <2>3, NothingType
  <2>5. Known(m.env, n) /\ m.env[n] = s /\ Held(m.env, m.cells, table, n) = s
    BY <2>2, <2>4 DEF Means, Agree
  <2>6. Atom(m.env, m.cells, Name(n)) = s /\ Atom(m.env, m.cells, visit_Name(table, n)) = s
    BY <2>5 DEF Held, Atom, Name
  <2>7. \E z : y = Field(z) /\ Atom(m.env, m.cells, z) = s
    <3>1. y = Field(Name(n)) \/ y = Field(visit_Name(table, n))
      BY <1>7, <2>1 DEF visit, visit_atom
    <3> QED
      BY <2>6, <3>1
  <2>8. Eval(m.env, m.cells, y) = m.cells[s.n]
    <3> HIDE DEF s, n
    <3> QED
      BY <2>4, <2>7 DEF Eval, Field
  <2>9. StructPointer(s)
    <3>1. PyValue(s)
      BY <2>2 DEF PyOK, Means, Known
    <3> QED
      BY <2>4, <3>1, PyValueFacts
  <2>10. s.n \in Cells /\ Shared(s.n)
    <3>1. PICK v \in CellVars : ~Scalar(v) /\ s = Pointer(CellOf(v))
      BY <2>9 DEF StructPointer
    <3> HIDE DEF s
    <3>2. s.n = CellOf(v) /\ CellOf(v) \in Cells
      BY <3>1 DEF Pointer, Value, Cells
    <3> QED
      BY <3>1, <3>2, CellFacts DEF Shared
  <2> HIDE DEF s
  <2>11. Number(m.cells[s.n]) /\ Number(p.cells[s.n])
    BY <2>10 DEF Simulates, MachineOK, CellsOK, PyOK, PyCells
  <2>12. leaks = {} => m.cells[s.n].n = p.cells[s.n].n
    BY <2>10 DEF Simulates, Mirrors, leaks
  <2> QED
    BY <2>4, <2>8, <2>11, <2>12, PointerFacts DEF Agree, leaks
<1>8. CASE x.e \in {"plus", "less"}
  <2>1. /\ IsOperand(x.l) /\ (x.l.e = "name" => x.l.n \in S)
        /\ IsOperand(x.r) /\ (x.r.e = "name" => x.r.n \in S)
    BY <1>4, <1>8 DEF Used
  <2>2. y = Op(x.e, visit_atom(table, x.l), visit_atom(table, x.r))
    BY <1>8 DEF visit
  <2>3. Agree(A(x.l), B(x.l), leaks) /\ Agree(A(x.r), B(x.r), leaks)
    BY <1>3, <2>1
  <2> DEFINE sum(a, c) == IF ~(Number(a) /\ Number(c)) THEN Nothing
                          ELSE IF x.e = "less" THEN Value("bool", IF a.n < c.n THEN 2 ELSE 0)
                          ELSE Value(IF "float" \in {a.type, c.type} THEN "float" ELSE "int", a.n + c.n)
  <2>4. q = sum(B(x.l), B(x.r))
    BY <1>8 DEF Eval, B
  <2>5. Eval(m.env, m.cells, y) = sum(A(x.l), A(x.r))
    BY <1>8, <2>2 DEF Eval, Op, A
  <2>6. PICK a, a2, c, c2 : a = A(x.l) /\ a2 = B(x.l) /\ c = A(x.r) /\ c2 = B(x.r)
    OBVIOUS
  <2>7. Number(a2) /\ Number(c2)
    BY <2>4, <2>6, NothingType
  <2>8. Number(a) /\ Number(c) /\ (leaks = {} => a.n = a2.n /\ c.n = c2.n)
    BY <2>3, <2>6, <2>7, PointerFacts DEF Agree
  <2>9. Number(sum(a, c)) /\ Number(sum(a2, c2)) /\ (leaks = {} => sum(a, c).n = sum(a2, c2).n)
    BY <2>7, <2>8 DEF Value, Number, Primitives
  <2> HIDE DEF sum
  <2> QED
    BY <2>4, <2>5, <2>6, <2>9, PointerFacts DEF Agree, leaks
<1>9. CASE x = Nil
  BY <1>9, PyEval, NothingType
<1> QED
  BY <1>4, <1>5, <1>6, <1>7, <1>8, <1>9

(* What a phase may use, it has loaded.                                    *)
LEMMA ParametersLoaded ==
  ASSUME AcceptedNode, NEW b, NEW env, Loaded(b, env), NEW v \in Parameters(b), v.source # "ConstantSource"
  PROVE  LET u == local_variable_name(v)
         IN  v \in Declared /\ v \in CellVars /\ Known(env, u) /\ env[u] = Pointer(CellOf(v)) /\ v.source # "OutputSource"
<1>1. /\ CellVars = {w \in Declared : w.source # "ConstantSource"}
      /\ \A kind \in HostKinds : Of(names, kind) = {w \in Declared : w.source = kind}
  BY DeclaredVariables DEF AcceptedNode
<1>2. v \in Declared /\ v.source \in {"StateSource", "InputSource"} /\ (v.source = "InputSource" => b = "execute")
  BY DEF Parameters
<1>3. v \in init_filter(b)
  BY <1>1, <1>2 DEF init_filter, HostKinds
<1> QED
  BY <1>1, <1>2, <1>3 DEF Loaded

(* A number of the right type survives its conversion.                     *)
LEMMA StoredAgrees ==
  ASSUME AcceptedNode, NEW w \in CellVars, Scalar(w), NEW q, PyValue(q), ~ToStruct(q), NEW v, Number(v),
         NEW leaks, leaks = {} => v.n = q.n /\ TypeOf(q) = PythonType(w)
  PROVE  Agree(Convert(CellType(CellOf(w)), v), q, leaks)
<1> DEFINE type == CellType(CellOf(w))
<1>1. type = w.type.value /\ type \in Primitives \cup {"datetime"}
  BY CellFacts
<1>2. /\ Number(Convert(type, v))
      /\ Convert(type, v).n = IF type = "float" THEN v.n ELSE int(v.n)
  BY <1>1, Conversion
<1>3. IsNumber(q) /\ q.n \in Int /\ TypeOf(q) = q.type
  BY PyValueFacts
<1>4. type # "float" => PythonType(w) # "float"
  BY <1>1 DEF PythonType
<1>5. leaks = {} => Convert(type, v).n = q.n
  <2> SUFFICES ASSUME leaks = {} PROVE Convert(type, v).n = q.n
    OBVIOUS
  <2>1. v.n = q.n /\ q.type = PythonType(w)
    BY <1>3
  <2> HIDE DEF type
  <2>2. CASE type = "float"
    BY <1>2, <2>1, <2>2
  <2>3. CASE type # "float"
    <3>1. q.n % 2 = 0
      BY <1>3, <1>4, <2>1, <2>3 DEF IsNumber
    <3>2. int(q.n) = q.n
      BY <1>3, <3>1, Halves
    <3> QED
      BY <1>2, <2>1, <2>3, <3>2
  <2> QED
    BY <2>2, <2>3
<1> QED
  BY <1>2, <1>5 DEF Agree

(* A name is given a value, in both machines.                              *)
LEMMA NameGiven ==
  ASSUME AcceptedNode, NEW b, NEW S, NEW table, NEW count, TableOK(Declared, table, count),
         NEW later, NEW last, TableOK(Declared, later, last),
         NEW m, NEW p, Simulates(b, S, table, m, p), NEW n, IsSourceName(n),
         \A w \in Declared : local_variable_name(w) # n,
         \A u : u # n => (Known(later, u) <=> Known(table, u)) /\ (Known(table, u) => later[u] = table[u]),
         NEW v, NEW q, Agree(v, q, p.leaks),
         Known(later, n) /\ later[n] \in Declared => later[n] \in Parameters(b),
         Held(With(m.env, n, v), m.cells, later, n) = v,
         NEW M, MachineOK(M), M.env = With(m.env, n, v), M.cells = m.cells, M.ticks = m.ticks,
         M.fault = m.fault, M.done = m.done,
         NEW k, k.env = With(p.env, n, q), k.cells = p.cells, k.ticks = p.ticks, k.done = p.done, p.leaks \subseteq k.leaks
  PROVE  Simulates(b, S \cup {n}, later, M, k)
<1>1. /\ ~m.fault /\ (m.done <=> p.done) /\ m.ticks = p.ticks
      /\ Loaded(b, m.env)
      /\ \A u \in S : Means(Parameters(b), table, m, p, u)
      /\ p.leaks = {} => Mirrors(m.cells, p.cells)
  BY DEF Simulates
<1>2. k.leaks = {} => p.leaks = {}
  OBVIOUS
<1>3. /\ \A u : u # n => /\ Known(M.env, u) <=> Known(m.env, u)
                         /\ Known(m.env, u) => M.env[u] = m.env[u]
                         /\ Known(k.env, u) <=> Known(p.env, u)
                         /\ Known(p.env, u) => k.env[u] = p.env[u]
      /\ Known(M.env, n) /\ M.env[n] = v /\ Known(k.env, n) /\ k.env[n] = q
  BY DEF With, Known
<1>4. Loaded(b, M.env)
  <2>1. init_filter(b) \subseteq Declared
    BY DeclaredVariables DEF AcceptedNode, init_filter, HostKinds
  <2> QED
    BY <1>1, <1>3, <2>1 DEF Loaded
<1>5. ASSUME NEW u \in S, u # n PROVE Means(Parameters(b), later, M, k, u)
  <2>1. Means(Parameters(b), table, m, p, u)
    BY <1>1, <1>5
  <2>2. IsSourceName(u) /\ Known(p.env, u)
    BY <2>1 DEF Means
  <2>3. Held(M.env, M.cells, table, u) = Held(m.env, m.cells, table, u)
    BY <1>5, <2>2, OtherNames
  <2>4. visit_Name(later, u) = visit_Name(table, u)
    BY <1>5 DEF visit_Name
  <2>5. Held(M.env, M.cells, later, u) = Held(m.env, m.cells, table, u)
    BY <2>3, <2>4 DEF Held
  <2>6. Agree(Held(M.env, M.cells, later, u), k.env[u], k.leaks)
    BY <1>2, <1>3, <1>5, <2>1, <2>2, <2>5, AgreeLater DEF Means
  <2>7. Known(later, u) /\ later[u] \in Declared => later[u] \in Parameters(b)
    BY <1>5, <2>1 DEF Means
  <2>8. ToStruct(k.env[u]) => Known(M.env, u) /\ M.env[u] = k.env[u]
    BY <1>3, <1>5, <2>1, <2>2 DEF Means
  <2> QED
    BY <1>3, <1>5, <2>2, <2>6, <2>7, <2>8 DEF Means
<1>6. Means(Parameters(b), later, M, k, n)
  <2>1. Agree(v, q, k.leaks)
    BY <1>2, AgreeLater
  <2>2. ToStruct(q) => v = q
    BY DEF Agree
  <2> QED
    BY <1>3, <2>1, <2>2 DEF Means
<1>7. k.leaks = {} => Mirrors(M.cells, k.cells)
  BY <1>1, <1>2
<1> QED
  BY <1>1, <1>4, <1>5, <1>6, <1>7 DEF Simulates

(* A cell is written that no name but n is read from.                      *)
CellsWritten(m, M, c, v) ==
  /\ MachineOK(M) /\ M.env = m.env /\ M.fault = m.fault /\ M.done = m.done
  /\ M.cells = [m.cells EXCEPT ![c] = v]

LEMMA OthersKeep ==
  ASSUME AcceptedNode, NEW b, NEW S, NEW table, NEW count, TableOK(Declared, table, count),
         NEW m, NEW p, Simulates(b, S, table, m, p), NEW w \in CellVars,
         NEW M, NEW v, CellsWritten(m, M, CellOf(w), v),
         NEW u \in S, Scalar(w) /\ w.source = "StateSource" => u # w.name,
         w.source = "InputSource" => ~Scalar(w)
  PROVE  Held(M.env, M.cells, table, u) = Held(m.env, m.cells, table, u)
<1>1. Means(Parameters(b), table, m, p, u) /\ Loaded(b, m.env)
  BY DEF Simulates
<1>2. IsSourceName(u) /\ (Known(table, u) /\ table[u] \in Declared => table[u] \in Parameters(b))
  BY <1>1 DEF Means
<1>3. w \in Declared /\ IsHostVariable(node, w)
  BY CellFacts
<1> DEFINE x == table[u]
<1>4. ASSUME Known(table, u), x \in Declared, x.source # "ConstantSource", Scalar(x)
      PROVE  LET t == local_variable_name(x)
                 c == CellOf(x)
             IN  Known(m.env, t) /\ m.env[t] = Pointer(c) /\ M.cells[c] = m.cells[c]
  <2>1. x \in CellVars /\ x.source # "OutputSource"
        /\ Known(m.env, local_variable_name(x)) /\ m.env[local_variable_name(x)] = Pointer(CellOf(x))
    BY <1>1, <1>2, <1>4, ParametersLoaded
  <2>2. x # w
    <3> SUFFICES ASSUME x = w PROVE FALSE
      OBVIOUS
    <3>1. w.source = "StateSource" /\ Scalar(w)
      BY <1>3, <1>4, <2>1 DEF IsHostVariable, HostKinds
    <3>2. w.opaque = FALSE
      BY <1>3, <3>1 DEF IsHostVariable, Scalar
    <3>3. u = w.name
      <4>1. Created(node, Declared) /\ x.source \in HostKinds
        BY <3>1, DeclaredVariables DEF AcceptedNode, HostKinds
      <4>2. u = x.name \/ x.opaque
        BY <1>4, <4>1, HostEntry DEF Known
      <4> QED
        BY <3>2, <4>2
    <3> QED
      BY <3>1, <3>3
  <2>3. CellOf(x) # CellOf(w)
    BY <2>1, <2>2, CellFacts
  <2>4. CellOf(x) \in Cells /\ DOMAIN m.cells = Cells
    BY <2>1 DEF Cells, Simulates, MachineOK, CellsOK
  <2> QED
    BY <2>1, <2>3, <2>4 DEF CellsWritten
<1>5. Held(m.env, M.cells, table, u) = Held(m.env, m.cells, table, u)
  BY <1>2, <1>4, OtherCells
<1> QED
  BY <1>5 DEF CellsWritten

(* Of what is declared, an assignment may change the scalar states.        *)
TargetOK(table, n) ==
  Known(table, n) /\ table[n] \in Declared /\ table[n].source # "ConstantSource" =>
    table[n].source = "StateSource" /\ Scalar(table[n]) /\ table[n].name = n

(* The code of an assignment.                                              *)
LEMMA AssignCode ==
  ASSUME AcceptedNode, NEW table, NEW count, TableOK(Declared, table, count),
         NEW st, IsSourceName(st.n), NEW y, NEW r, Assigns(Declared, table, count, st, y, r), TargetOK(table, st.n)
  PROVE  LET n == st.n
             x == st.es[1]
         IN  \/ /\ r.code = <<Assign(n, y)>> /\ \A w \in Declared : local_variable_name(w) # n
                /\ \A u : u # n => (Known(r.names, u) <=> Known(table, u)) /\ (Known(table, u) => r.names[u] = table[u])
                /\ \/ visit_Name(r.names, n) = Name(n) /\ (Known(r.names, n) => r.names[n] \notin Declared)
                   \/ /\ x.e = "name" /\ Known(table, x.n) /\ table[x.n] \in Declared /\ x.n # n
                      /\ Known(r.names, n) /\ r.names[n] = table[x.n]
             \/ /\ r.code = <<Store(n, y)>> /\ r.names = table /\ Known(table, n)
                /\ table[n] \in Declared /\ table[n].source = "StateSource" /\ Scalar(table[n]) /\ table[n].name = n
<1> DEFINE n == st.n
           x == st.es[1]
           w == table[n]
<1>1. Created(node, Declared)
  BY DeclaredVariables DEF AcceptedNode
<1>2. \/ /\ Known(table, n) /\ w \in Declared /\ w.source = "ConstantSource" /\ visit_Name(table, n) = Const(w.value)
      \/ /\ Known(table, n) /\ w \in Declared /\ w.source # "ConstantSource" /\ ~Scalar(w)
      \/ /\ Known(table, n) /\ w \in Declared /\ w.source # "ConstantSource" /\ Scalar(w)
         /\ visit_Name(table, n) = Cell(local_variable_name(w))
      \/ /\ ~Known(table, n) \/ w \notin Declared
         /\ visit_Name(table, n) = Name(n) /\ \A v \in Declared : local_variable_name(v) # n
  BY ReadName
<1>3. CASE Known(table, n)
  <2>1. get(w) = visit_Name(table, n)
    BY <1>3 DEF visit_Name
  <2>2. /\ r.names = table
        /\ \/ get(w) = Name(get(w).n) /\ r.code = <<Assign(get(w).n, y)>>
           \/ get(w) = Cell(get(w).n) /\ r.code = <<Store(get(w).n, y)>>
    BY <1>3 DEF Assigns
  <2>3. CASE w \notin Declared
    <3>1. get(w) = Name(n) /\ \A v \in Declared : local_variable_name(v) # n
      BY <1>2, <2>1, <2>3
    <3>2. r.code = <<Assign(n, y)>>
      BY <2>2, <3>1 DEF Name, Cell
    <3> QED
      BY <1>3, <2>1, <2>2, <2>3, <3>1, <3>2
  <2>4. CASE w \in Declared /\ w.source = "ConstantSource"
    <3>1. get(w) = Const(w.value)
      BY <1>1, <2>4, GetHost
    <3> QED
      BY <2>2, <3>1 DEF Name, Cell, Const
  <2>5. CASE w \in Declared /\ w.source # "ConstantSource"
    <3>1. w.source = "StateSource" /\ Scalar(w) /\ w.name = n
      BY <1>3, <2>5 DEF TargetOK
    <3>2. local_variable_name(w) = n
      BY <3>1 DEF local_variable_name
    <3>3. get(w) = Cell(n)
      BY <1>2, <1>3, <2>1, <2>5, <3>1, <3>2
    <3>4. r.code = <<Store(n, y)>>
      BY <2>2, <3>3 DEF Name, Cell
    <3> QED
      BY <1>3, <2>2, <2>5, <3>1, <3>4
  <2> QED
    BY <2>3, <2>4, <2>5
<1>4. CASE ~Known(table, n)
  <2>1. r.code = <<Assign(n, y)>> /\ \A v \in Declared : local_variable_name(v) # n
    BY <1>2, <1>4 DEF Assigns
  <2>2. \A v : /\ Known(With(table, n, v), n) /\ With(table, n, v)[n] = v
               /\ \A u : u # n => /\ Known(With(table, n, v), u) <=> Known(table, u)
                                  /\ Known(table, u) => With(table, n, v)[u] = table[u]
    BY DEF With, Known
  <2>3. \/ r.names = table
        \/ \E v : /\ r.names = With(table, n, v) /\ v.type \in Types /\ v.type.class # "StructType"
                  /\ v = Source("LocalVariableSource", v.type, n, 0, FALSE, Value("none", 0))
        \/ /\ x.e = "name" /\ Known(table, x.n) /\ table[x.n] \in Declared /\ table[x.n].opaque
           /\ r.names = With(table, n, table[x.n])
    BY <1>4 DEF Assigns
  <2>4. CASE r.names = table
    <3>1. visit_Name(r.names, n) = Name(n)
      BY <1>4, <2>4 DEF visit_Name
    <3> QED
      BY <1>4, <2>1, <2>4, <3>1
  <2>5. CASE \E v : /\ r.names = With(table, n, v) /\ v.type \in Types /\ v.type.class # "StructType"
                    /\ v = Source("LocalVariableSource", v.type, n, 0, FALSE, Value("none", 0))
    <3>1. PICK v : /\ r.names = With(table, n, v)
                   /\ v = Source("LocalVariableSource", v.type, n, 0, FALSE, Value("none", 0))
      BY <2>5
    <3>2. get(v) = Name(n) /\ v.source = "LocalVariableSource"
      BY <3>1, GetLocal
    <3>3. v \notin Declared
      BY <1>1, <3>2 DEF Created, IsHostVariable, HostKinds
    <3>4. visit_Name(r.names, n) = Name(n)
      BY <2>2, <3>1, <3>2 DEF visit_Name
    <3> QED
      BY <2>1, <2>2, <3>1, <3>3, <3>4
  <2>6. CASE /\ x.e = "name" /\ Known(table, x.n) /\ table[x.n] \in Declared /\ table[x.n].opaque
             /\ r.names = With(table, n, table[x.n])
    BY <1>4, <2>1, <2>2, <2>6
  <2> QED
    BY <2>3, <2>4, <2>5, <2>6
<1> QED
  BY <1>3, <1>4

(* An assignment.                                                          *)
LEMMA AssignSimulates ==
  ASSUME AcceptedNode, NEW b, NEW S, NEW table, NEW count, TableOK(Declared, table, count),
         NEW m, NEW p, Simulates(b, S, table, m, p), PyInv(p), ~p.done, ~p.fault,
         NEW st, IsStatement(st), st.s = "assign", Used(st.es[1]) \subseteq S, TargetOK(table, st.n),
         visit_statement(table, count, st).ok,
         NEW later, NEW last, later = visit_statement(table, count, st).names, TableOK(Declared, later, last),
         Extends(later, names),
         NEW k, k = PythonExecute(p, st), ~k.fault
  PROVE  Simulates(b, S \cup {st.n}, later, Execution(m, visit_statement(table, count, st).code), k)
<1> DEFINE n == st.n
           x == st.es[1]
           r == visit_statement(table, count, st)
<1>0. /\ Created(node, Declared) /\ IsExpression(x) /\ IsSourceName(n)
      /\ r = visit_Assign(table, count, st) /\ later = r.names
      /\ PyOK(p) /\ IsMachine(p) /\ MachineOK(m) /\ ~m.fault /\ ~m.done
  BY DeclaredVariables DEF AcceptedNode, IsStatement, IsSequence, visit_statement, PyInv, PyOK, Simulates
<1>1. PICK y : Assigns(Declared, table, count, st, y, r)
  BY <1>0, VisitAssign
<1>2. MachineOK(Execution(m, r.code))
  BY <1>0, VisitStatementOK, ExecutionOK DEF VisitOK
<1>3. PICK q : q = Eval(p.env, p.cells, x)
  OBVIOUS
<1>4. AssignResult(p, st, q, k)
  BY <1>0, <1>3, AssignIs
<1>5. q.type # "nothing"
  BY <1>4 DEF AssignResult
<1>6. /\ k.cells = p.cells /\ k.ticks = p.ticks /\ k.done = p.done /\ k.env = With(p.env, n, q)
      /\ ~(Known(names, n) /\ (ToStruct(q) <=> Scalar(names[n])))
      /\ k.leaks = (IF Typed(n) /\ TypeOf(q) # PythonType(names[n]) THEN p.leaks \cup {Retyped(n)} ELSE p.leaks)
  BY <1>4, <1>5 DEF AssignResult
<1>7. p.leaks \subseteq k.leaks
  BY <1>6
<1>8. PICK v : v = Eval(m.env, m.cells, y)
  OBVIOUS
<1>9. y = visit(table, x) \/ (x.e = "field" /\ IsStruct(table, x.l.n) /\ y = Field(visit_Name(table, x.l.n)))
  BY <1>1 DEF Assigns
<1>10. Agree(v, q, p.leaks)
  <2>1. Used(x) \subseteq S /\ IsExpression(x) /\ PyOK(p)
    BY <1>0
  <2> HIDE DEF x, r, n
  <2>2. Agree(Eval(m.env, m.cells, y), q, p.leaks)
    BY <1>3, <1>5, <1>9, <2>1, EvalAgrees, Zenon
  <2> QED
    BY <1>8, <2>2
<1>11. PyValue(q)
  BY <1>0, <1>3, <1>5, PyEval, NothingType
<1>12. v.type # "nothing"
  <2>1. Number(v) \/ v = q
    BY <1>10 DEF Agree
  <2> QED
    BY <1>5, <2>1, PointerFacts
<1> DEFINE assigned == /\ r.code = <<Assign(n, y)>> /\ \A w \in Declared : local_variable_name(w) # n
                       /\ \A u : u # n => (Known(r.names, u) <=> Known(table, u)) /\ (Known(table, u) => r.names[u] = table[u])
                       /\ \/ visit_Name(r.names, n) = Name(n) /\ (Known(r.names, n) => r.names[n] \notin Declared)
                          \/ /\ x.e = "name" /\ Known(table, x.n) /\ table[x.n] \in Declared /\ x.n # n
                             /\ Known(r.names, n) /\ r.names[n] = table[x.n]
           stored == /\ r.code = <<Store(n, y)>> /\ r.names = table /\ Known(table, n)
                     /\ table[n] \in Declared /\ table[n].source = "StateSource" /\ Scalar(table[n]) /\ table[n].name = n
<1>13. assigned \/ stored
  BY <1>0, <1>1, AssignCode
<1> DEFINE M == Execution(m, r.code)
<1> HIDE DEF r, x
<1>14. CASE assigned
  <2> DEFINE s == Assign(n, y)
  <2>1. M = Execute(m, s)
    BY <1>14, ExecutionOfOne
  <2>2. s.s = "assign" /\ s.n = n /\ s.es # <<>> /\ s.es[1] = y
    BY DEF Assign
  <2> HIDE DEF s
  <2>3. PICK h : Computed(m, s, v, h)
    BY <1>0, <1>8, <2>2 DEF Computed
  <2>4. M = [m EXCEPT !.env = With(m.env, n, v)]
    BY <1>12, <2>1, <2>2, <2>3, ExecuteAssign
  <2> HIDE DEF M
  <2>5. M.env = With(m.env, n, v) /\ M.cells = m.cells /\ M.ticks = m.ticks /\ M.fault = m.fault /\ M.done = m.done
    BY <1>0, <2>4, MachineUpdates DEF MachineOK
  <2>6. /\ Known(later, n) /\ later[n] \in Declared => later[n] \in Parameters(b)
        /\ Held(With(m.env, n, v), m.cells, later, n) = v
    <3>1. CASE visit_Name(r.names, n) = Name(n) /\ (Known(r.names, n) => r.names[n] \notin Declared)
      <4>1. Known(With(m.env, n, v), n) /\ With(m.env, n, v)[n] = v
        BY DEF With, Known
      <4> QED
        BY <1>0, <3>1, <4>1 DEF Held, Atom, Name
    <3>2. CASE /\ x.e = "name" /\ Known(table, x.n) /\ table[x.n] \in Declared /\ x.n # n
               /\ Known(r.names, n) /\ r.names[n] = table[x.n]
      <4>1. x.n \in S
        BY <3>2 DEF Used, x
      <4>2. Means(Parameters(b), table, m, p, x.n)
        BY <4>1 DEF Simulates
      <4>3. y = visit_Name(table, x.n)
        BY <1>9, <3>2 DEF visit, visit_atom
      <4>4. y.e \in {"const", "name", "cell"}
        BY <4>2, <4>3, ReadName DEF Means, Const, Name, Cell
      <4>5. v = Held(m.env, m.cells, table, x.n)
        BY <1>8, <4>3, <4>4 DEF Eval, Held
      <4>6. Held(With(m.env, n, v), m.cells, table, x.n) = Held(m.env, m.cells, table, x.n)
        BY <1>14, <3>2, <4>2, OtherNames DEF Means
      <4>7. visit_Name(later, n) = visit_Name(table, x.n)
        BY <1>0, <3>2 DEF visit_Name
      <4> QED
        BY <1>0, <3>2, <4>2, <4>5, <4>6, <4>7 DEF Held, Means
    <3> QED
      BY <1>14, <3>1, <3>2
  <2>7. Simulates(b, S \cup {n}, later, M, k)
    <3>1. MachineOK(M)
      BY <1>2 DEF M
    <3>2. /\ \A w \in Declared : local_variable_name(w) # n
          /\ \A u : u # n => (Known(later, u) <=> Known(table, u)) /\ (Known(table, u) => later[u] = table[u])
      BY <1>0, <1>14
    <3> HIDE DEF n
    <3> QED
      BY <1>0, <1>6, <1>7, <1>10, <2>5, <2>6, <3>1, <3>2, NameGiven
  <2> QED
    BY <2>7 DEF M, r
<1>15. CASE stored
  <2> DEFINE w == table[n]
             s == Store(n, y)
             c == CellOf(w)
  <2>1. M = Execute(m, s)
    BY <1>15, ExecutionOfOne
  <2>2. s.s = "store" /\ s.n = n /\ s.es # <<>> /\ s.es[1] = y
    BY DEF Store
  <2>3. w \in Parameters(b) /\ local_variable_name(w) = n /\ Loaded(b, m.env)
    BY <1>15 DEF Parameters, local_variable_name, Simulates
  <2>4. w \in CellVars /\ Known(m.env, n) /\ m.env[n] = Pointer(c)
    BY <1>15, <2>3, ParametersLoaded
  <2> DEFINE h == m.env[n]
             num == Convert(CellType(c), v)
  <2>5. names[n] = w /\ Known(names, n) /\ Typed(n)
    BY <1>15, DeclaredNames
  <2>6. ~ToStruct(q)
    BY <1>6, <1>15, <2>5
  <2>7. Number(v) /\ (p.leaks = {} => v.n = q.n)
    BY <1>10, <2>6 DEF Agree
  <2> HIDE DEF s, M
  <2>8. Computed(m, s, v, h)
    BY <1>0, <1>8, <2>2, <2>4 DEF Computed
  <2>9. h.type = "pointer" /\ h.n = c
    BY <2>4 DEF Pointer, Value
  <2>10. M = [m EXCEPT !.cells = [m.cells EXCEPT ![c] = num]]
    BY <2>1, <2>2, <2>7, <2>8, <2>9, ExecuteStore
  <2> HIDE DEF num
  <2>11. /\ M.env = m.env /\ M.cells = [m.cells EXCEPT ![c] = num]
         /\ M.ticks = m.ticks /\ M.fault = m.fault /\ M.done = m.done
    BY <1>0, <2>10, MachineUpdates DEF MachineOK
  <2>12. CellsWritten(m, M, c, num)
    BY <1>2, <2>11 DEF CellsWritten, M
  <2>13. k.leaks = {} => p.leaks = {} /\ TypeOf(q) = PythonType(w)
    BY <1>6, <2>5
  <2>14. Agree(num, q, k.leaks)
    BY <1>11, <1>15, <2>4, <2>6, <2>7, <2>13, StoredAgrees DEF num
  <2>15. \A u : u # n => /\ Known(k.env, u) <=> Known(p.env, u)
                         /\ Known(p.env, u) => k.env[u] = p.env[u]
    BY <1>6 DEF With, Known
  <2>16. Known(k.env, n) /\ k.env[n] = q
    BY <1>6 DEF With, Known
  <2>17. ASSUME NEW u \in S, u # n PROVE Means(Parameters(b), table, M, k, u)
    <3>1. Means(Parameters(b), table, m, p, u)
      BY DEF Simulates
    <3>2. Held(M.env, M.cells, table, u) = Held(m.env, m.cells, table, u)
      BY <1>15, <2>4, <2>12, <2>17, OthersKeep
    <3>3. Agree(Held(M.env, M.cells, table, u), k.env[u], k.leaks)
      BY <1>7, <2>15, <2>17, <3>1, <3>2, AgreeLater DEF Means
    <3> QED
      BY <2>11, <2>15, <2>17, <3>1, <3>3 DEF Means
  <2>18. Means(Parameters(b), table, M, k, n)
    <3>1. visit_Name(table, n) = Cell(n)
      BY <1>0, <1>15, <2>3, ReadName
    <3>2. c \in Cells /\ DOMAIN m.cells = Cells
      BY <2>4 DEF Cells, Simulates, MachineOK, CellsOK
    <3>3. Held(M.env, M.cells, table, n) = num
      BY <2>4, <2>9, <2>11, <3>1, <3>2 DEF Held, Atom, Cell
    <3> QED
      BY <1>0, <2>3, <2>6, <2>14, <2>16, <3>3 DEF Means
  <2>19. k.leaks = {} => Mirrors(M.cells, k.cells)
    <3>1. c[1] = "StateSource" /\ CellType(c) \notin Structs
      BY <1>15, <2>4, CellFacts DEF CellOf
    <3>2. ~Shared(c)
      BY <3>1 DEF Shared
    <3>3. \A a \in Cells : Shared(a) => M.cells[a] = m.cells[a]
      BY <2>11, <3>2 DEF Simulates, MachineOK, CellsOK
    <3> QED
      BY <1>6, <2>13, <3>3 DEF Simulates, Mirrors
  <2>20. Simulates(b, S \cup {n}, table, M, k)
    BY <1>2, <1>6, <2>3, <2>11, <2>17, <2>18, <2>19 DEF Simulates, M
  <2> QED
    BY <1>0, <1>15, <2>20 DEF M, r
<1> QED
  BY <1>13, <1>14, <1>15

(* A cell that both machines hold is given a value.                        *)
LEMMA CellGiven ==
  ASSUME AcceptedNode, NEW b, NEW S, NEW table, NEW count, TableOK(Declared, table, count),
         NEW m, NEW p, Simulates(b, S, table, m, p), PyOK(p),
         NEW w \in CellVars, ~Scalar(w) \/ w.source = "OutputSource",
         NEW M, NEW v, CellsWritten(m, M, CellOf(w), v),
         NEW k, NEW q, k.env = p.env, k.cells = [p.cells EXCEPT ![CellOf(w)] = q], k.done = p.done,
         p.leaks \subseteq k.leaks, k.leaks = {} => v.n = q.n, M.ticks = k.ticks
  PROVE  Simulates(b, S, table, M, k)
<1>1. /\ MachineOK(M) /\ M.env = m.env /\ M.fault = m.fault /\ M.done = m.done
      /\ M.cells = [m.cells EXCEPT ![CellOf(w)] = v]
  BY DEF CellsWritten
<1>2. /\ ~m.fault /\ (m.done <=> p.done) /\ Loaded(b, m.env)
      /\ \A n \in S : Means(Parameters(b), table, m, p, n)
      /\ p.leaks = {} => Mirrors(m.cells, p.cells)
      /\ DOMAIN m.cells = Cells /\ DOMAIN p.cells = Cells
  BY DEF Simulates, MachineOK, CellsOK, PyOK, PyCells
<1>3. ASSUME NEW n \in S PROVE Means(Parameters(b), table, M, k, n)
  <2>1. Means(Parameters(b), table, m, p, n)
    BY <1>2
  <2>2. Held(M.env, M.cells, table, n) = Held(m.env, m.cells, table, n)
    BY OthersKeep
  <2>3. Agree(Held(M.env, M.cells, table, n), k.env[n], k.leaks)
    BY <2>1, <2>2, AgreeLater DEF Means
  <2> QED
    BY <1>1, <2>1, <2>3 DEF Means
<1>4. k.leaks = {} => Mirrors(M.cells, k.cells)
  <2> SUFFICES ASSUME k.leaks = {}, NEW c \in Cells, Shared(c) PROVE M.cells[c].n = k.cells[c].n
    BY DEF Mirrors
  <2>1. p.leaks = {} /\ v.n = q.n
    OBVIOUS
  <2>2. m.cells[c].n = p.cells[c].n
    BY <1>2, <2>1 DEF Mirrors
  <2> QED
    BY <1>1, <1>2, <2>1, <2>2
<1> QED
  BY <1>1, <1>2, <1>3, <1>4 DEF Simulates

(* The store to a field of a struct.                                       *)
LEMMA FieldSimulates ==
  ASSUME AcceptedNode, NEW b, NEW S, NEW table, NEW count, TableOK(Declared, table, count),
         NEW m, NEW p, Simulates(b, S, table, m, p), PyInv(p), ~p.done, ~p.fault,
         NEW st, IsStatement(st), st.s = "field", Used(st.es[1]) \subseteq S, st.n \in S,
         NEW k, k = PythonExecute(p, st), ~k.fault
  PROVE  Simulates(b, S, table, Execution(m, <<SetField(st.n, visit(table, st.es[1]))>>), k)
<1> DEFINE n == st.n
           x == st.es[1]
           y == visit(table, x)
           s == SetField(n, y)
           M == Execution(m, <<s>>)
<1>0. /\ Created(node, Declared) /\ IsExpression(x) /\ Used(x) \subseteq S /\ n \in S
      /\ PyOK(p) /\ IsMachine(p) /\ MachineOK(m) /\ ~m.fault /\ ~m.done
  BY DeclaredVariables DEF AcceptedNode, IsStatement, IsSequence, PyInv, PyOK, Simulates
<1>1. MachineOK(M) /\ M = Execute(m, s)
  <2>1. IsCode(Declared, <<s>>)
    BY <1>0, VisitFieldStore DEF VisitOK
  <2> QED
    BY <1>0, <2>1, ExecutionOK, ExecutionOfOne
<1>2. PICK q, h : q = Eval(p.env, p.cells, x) /\ h = p.env[n]
  OBVIOUS
<1>3. FieldResult(p, h, q, k)
  BY <1>0, <1>2, FieldIs
<1>4. /\ ToStruct(h) /\ Number(q) /\ k.env = p.env /\ k.ticks = p.ticks /\ k.done = p.done /\ k.leaks = p.leaks
      /\ k.cells = [p.cells EXCEPT ![h.n] = Convert("float", q)]
  BY <1>3 DEF FieldResult
<1>5. PICK v : v = Eval(m.env, m.cells, y)
  OBVIOUS
<1>6. s.s = "field" /\ s.n = n /\ s.es # <<>> /\ s.es[1] = y
  BY DEF SetField
<1> HIDE DEF s, y, x, n
<1>7. Number(v) /\ (p.leaks = {} => v.n = q.n)
  <2>1. q.type # "nothing" /\ ~ToStruct(q)
    BY <1>4, PointerFacts
  <2>2. Agree(v, q, p.leaks)
    BY <1>0, <1>2, <1>5, <2>1, EvalAgrees DEF y
  <2> QED
    BY <2>1, <2>2 DEF Agree
<1>8. Known(m.env, n) /\ m.env[n] = h /\ Known(p.env, n)
  BY <1>0, <1>2, <1>4 DEF Simulates, Means
<1>9. PICK w \in CellVars : ~Scalar(w) /\ h = Pointer(CellOf(w))
  <2>1. StructPointer(h)
    BY <1>0, <1>2, <1>4, <1>8, PyValueFacts DEF PyOK, Known
  <2> QED
    BY <2>1 DEF StructPointer
<1>10. h.n = CellOf(w)
  BY <1>9 DEF Pointer, Value
<1> DEFINE num == Convert("float", v)
<1>11. M = [m EXCEPT !.cells = [m.cells EXCEPT ![CellOf(w)] = num]]
  <2>1. Computed(m, s, v, h)
    BY <1>0, <1>5, <1>6, <1>8 DEF Computed
  <2> QED
    BY <1>1, <1>4, <1>6, <1>7, <1>10, <2>1, ExecuteField
<1> HIDE DEF num, M
<1>12. CellsWritten(m, M, CellOf(w), num) /\ M.ticks = m.ticks
  BY <1>0, <1>1, <1>11, MachineUpdates DEF MachineOK, CellsWritten
<1>13. num.n = v.n /\ Convert("float", q).n = q.n
  BY Conversion DEF Primitives, num
<1>14. Simulates(b, S, table, M, k)
  <2>1. k.leaks = {} => num.n = Convert("float", q).n
    BY <1>4, <1>7, <1>13
  <2>2. M.ticks = k.ticks /\ p.leaks \subseteq k.leaks
    BY <1>4, <1>12 DEF Simulates
  <2>3. k.env = p.env /\ k.cells = [p.cells EXCEPT ![CellOf(w)] = Convert("float", q)] /\ k.done = p.done
    BY <1>4, <1>10
  <2> QED
    BY <1>0, <1>9, <1>12, <2>1, <2>2, <2>3, CellGiven
<1> QED
  BY <1>14 DEF M, s, y, x, n

(* What a visit adds to the table does not concern the names in scope.     *)
SameHost(table, later) ==
  \A n : IsSourceName(n) /\ Known(later, n) /\ later[n] \in Declared => Known(table, n) /\ table[n] = later[n]

LEMMA TableLater ==
  ASSUME NEW b, NEW S, NEW table, NEW later, SameNames(table, later), SameHost(table, later),
         NEW m, NEW p, Simulates(b, S, table, m, p)
  PROVE  Simulates(b, S, later, m, p)
<1>1. ASSUME NEW n \in S PROVE Means(Parameters(b), later, m, p, n)
  <2>1. Means(Parameters(b), table, m, p, n)
    BY DEF Simulates
  <2>2. IsSourceName(n)
    BY <2>1 DEF Means
  <2>3. Known(later, n) /\ later[n] \in Declared => later[n] \in Parameters(b)
    BY <2>1, <2>2 DEF Means, SameHost
  <2>4. Held(m.env, m.cells, later, n) = Held(m.env, m.cells, table, n)
    BY <2>2 DEF SameNames, Held
  <2> QED
    BY <2>1, <2>3, <2>4 DEF Means
<1> QED
  BY <1>1 DEF Simulates

LEMMA HostStays ==
  ASSUME AcceptedNode, NEW table, NEW count, TableOK(Declared, table, count),
         NEW later, NEW last, TableOK(Declared, later, last), SameNames(table, later), Extends(table, later)
  PROVE  SameHost(table, later)
<1> SUFFICES ASSUME NEW n, IsSourceName(n), Known(later, n), later[n] \in Declared
             PROVE  Known(table, n) /\ table[n] = later[n]
  BY DEF SameHost
<1>1. n \in DOMAIN table
  BY NewNames, DeclaredVariables DEF AcceptedNode, Known
<1> QED
  BY <1>1 DEF Extends, Known

(* A temporary is given a value.                                           *)
LEMMA TemporaryGiven ==
  ASSUME AcceptedNode, NEW b, NEW S, NEW table, NEW count, TableOK(Declared, table, count),
         NEW m, NEW p, Simulates(b, S, table, m, p), NEW v, NEW M, MachineOK(M),
         M.env = With(m.env, Temporary(count), v), M.cells = m.cells, M.ticks = m.ticks, M.fault = m.fault, M.done = m.done
  PROVE  Simulates(b, S, table, M, p)
<1> DEFINE t == Temporary(count)
<1>1. ~IsSourceName(t) /\ \A w \in Declared : local_variable_name(w) # t
  <2>1. count \in Nat
    BY DEF TableOK
  <2> QED
    BY <2>1, TemporaryNames, LocalNames, DeclaredVariables DEF AcceptedNode
<1> HIDE DEF t
<1>2. \A u : u # t => (Known(M.env, u) <=> Known(m.env, u)) /\ (Known(m.env, u) => M.env[u] = m.env[u])
  BY DEF With, Known, t
<1>3. Loaded(b, M.env)
  <2>1. init_filter(b) \subseteq Declared
    BY DeclaredVariables DEF AcceptedNode, init_filter, HostKinds
  <2> QED
    BY <1>1, <1>2, <2>1 DEF Loaded, Simulates
<1>4. ASSUME NEW u \in S PROVE Means(Parameters(b), table, M, p, u)
  <2>1. Means(Parameters(b), table, m, p, u)
    BY DEF Simulates
  <2>2. IsSourceName(u) /\ u # t
    BY <1>1, <2>1 DEF Means
  <2>3. Held(M.env, M.cells, table, u) = Held(m.env, m.cells, table, u)
    BY <1>1, <2>2, OtherNames DEF t
  <2> QED
    BY <1>2, <2>1, <2>2, <2>3 DEF Means
<1> QED
  BY <1>3, <1>4 DEF Simulates

(* What computes a variable for an expression.                             *)
LEMMA FromAstSimulates ==
  ASSUME AcceptedNode, NEW b, NEW S, NEW table, NEW count, TableOK(Declared, table, count),
         NEW m, NEW p, Simulates(b, S, table, m, p), PyOK(p), ~p.done,
         NEW x, IsExpression(x), x # Nil, Used(x) \subseteq S,
         NEW f, f = from_ast(table, count, x),
         NEW q, q = Eval(p.env, p.cells, x), q.type # "nothing"
  PROVE  LET M == Execution(m, f.code)
         IN  Simulates(b, S, f.names, M, p) /\ Agree(Eval(M.env, M.cells, get(f.var)), q, p.leaks)
<1> DEFINE y == visit(table, x)
           M == Execution(m, f.code)
<1>1. Created(node, Declared) /\ MachineOK(m) /\ ~m.fault /\ ~m.done
  BY DeclaredVariables DEF AcceptedNode, Simulates
<1>2. Computes(Declared, table, count, x, f)
  BY <1>1, FromAst
<1>3. /\ IsCode(Declared, f.code) /\ SameNames(table, f.names) /\ Extends(table, f.names)
      /\ TableOK(Declared, f.names, f.tmp)
  BY <1>2 DEF Computes, SameNames
<1>4. MachineOK(M)
  BY <1>1, <1>3, ExecutionOK
<1>5. PICK v : v = Eval(m.env, m.cells, y)
  OBVIOUS
<1>6. Agree(v, q, p.leaks)
  BY <1>5, EvalAgrees
<1>7. Simulates(b, S, table, M, p) /\ Eval(M.env, M.cells, get(f.var)) = v
  <2>1. CASE x.e \in {"name", "const"}
    <3>1. f.code = <<>> /\ get(f.var) = y
      BY <1>2, <2>1 DEF Computes, visit, visit_atom
    <3>2. M = m
      BY <3>1, ExecutionOfOne
    <3> QED
      BY <1>5, <3>1, <3>2
  <2>2. CASE x.e \notin {"name", "const"}
    <3> DEFINE t == Temporary(count)
               s == Assign(t, y)
    <3>1. f.code = <<s>> /\ get(f.var) = Name(t)
      BY <1>2, <2>2 DEF Computes
    <3>2. M = Execute(m, s)
      BY <3>1, ExecutionOfOne
    <3>3. s.s = "assign" /\ s.n = t /\ s.es # <<>> /\ s.es[1] = y
      BY DEF Assign
    <3> HIDE DEF s, t, y, M
    <3>4. v.type # "nothing"
      BY <1>6, PointerFacts DEF Agree, ToStruct
    <3>5. PICK h : Computed(m, s, v, h)
      BY <1>1, <1>5, <3>3 DEF Computed
    <3>6. M = [m EXCEPT !.env = With(m.env, t, v)]
      BY <3>2, <3>3, <3>4, <3>5, ExecuteAssign
    <3>7. M.env = With(m.env, t, v) /\ M.cells = m.cells /\ M.ticks = m.ticks /\ M.fault = m.fault /\ M.done = m.done
      BY <1>1, <3>6, MachineUpdates DEF MachineOK
    <3>8. Simulates(b, S, table, M, p)
      BY <1>4, <3>7, TemporaryGiven DEF t
    <3>9. Known(M.env, t) /\ M.env[t] = v
      BY <3>7 DEF With, Known
    <3>10. Eval(M.env, M.cells, Name(t)) = v
      BY <3>9 DEF Eval, Atom, Name
    <3> QED
      BY <3>1, <3>8, <3>10
  <2> QED
    BY <2>1, <2>2
<1>8. SameHost(table, f.names)
  BY <1>3, HostStays
<1>9. Simulates(b, S, f.names, M, p)
  BY <1>3, <1>7, <1>8, TableLater
<1> QED
  BY <1>6, <1>7, <1>9

(* An output is written.                                                   *)
LEMMA EmitSimulates ==
  ASSUME AcceptedNode, NEW b, b = "execute", NEW S, NEW table, NEW count, TableOK(Declared, table, count),
         NEW m, NEW p, Simulates(b, S, table, m, p), PyOK(p), ~p.done, ~p.fault,
         NEW x, IsExpression(x), x # Nil, Used(x) \subseteq S,
         NEW f, f = from_ast(table, count, x),
         NEW out \in Declared, out.source = "OutputSource",
         NEW k, k = Emit(p, out.idx, x), ~k.fault
  PROVE  Simulates(b, S, f.names, Execution(m, f.code \o write(out, get(f.var))), k)
<1> DEFINE i == out.idx
           c == CellOf(out)
           X == get(f.var)
           s == IF Scalar(out) THEN Store(OutputPointer(i), X) ELSE Copy(OutputPointer(i), X)
           W == write(out, X)
           M1 == Execution(m, f.code)
           M2 == Execute(M1, s)
           M == Execution(m, f.code \o W)
<1>1. Created(node, Declared) /\ MachineOK(m) /\ IsMachine(p) /\ PyCells(p.cells)
  BY DeclaredVariables DEF AcceptedNode, Simulates, PyOK
<1>2. IsCode(Declared, f.code) /\ TableOK(Declared, f.names, f.tmp) /\ IsAtom(Declared, X)
  BY <1>1, FromAst DEF Computes
<1>3. IsCode(Declared, W) /\ W = <<s, Tick(i)>>
  BY <1>1, <1>2, WriteCode
<1>4. M = Execute(M2, Tick(i)) /\ MachineOK(M)
  <2>1. IsSequence(f.code) /\ IsSequence(W)
    BY <1>2, <1>3 DEF IsCode
  <2>2. M = Execution(M1, W)
    BY <2>1, ExecutionOfConcat
  <2>3. IsCode(Declared, f.code \o W)
    BY <1>2, <1>3, CodeOf
  <2> QED
    BY <1>1, <1>3, <2>2, <2>3, ExecutionOfTwo, ExecutionOK
<1>5. PICK q : q = Eval(p.env, p.cells, x)
  OBVIOUS
<1>6. OutputNamed(i) = out /\ out \in CellVars
  BY WriteCases DEF Types
<1>7. EmitResult(p, i, x, q, k)
  BY <1>1, <1>5, EmitIs
<1>8. /\ q.type # "nothing" /\ k.env = p.env /\ k.done = p.done /\ k.ticks = p.ticks \cup {i}
      /\ k.cells = [p.cells EXCEPT ![<<"OutputSource", i>>] = Contents(p, q)]
      /\ p.leaks \subseteq k.leaks
  BY <1>7 DEF EmitResult
<1>9. ToStruct(q) <=> ~Scalar(out)
  BY <1>6, <1>7 DEF EmitResult
<1>10. k.leaks = {} => p.leaks = {} /\ TypeOf(q) = PythonType(out)
  BY <1>6, <1>7, <1>8 DEF EmitResult, Leaks
<1>11. PICK v : v = Eval(M1.env, M1.cells, X)
  OBVIOUS
<1>12. Simulates(b, S, f.names, M1, p) /\ Agree(v, q, p.leaks)
  BY <1>5, <1>8, <1>11, FromAstSimulates
<1>13. PyValue(q)
  BY <1>5, <1>8, NothingType, PyEval
<1>14. c = <<"OutputSource", i>> /\ c \in Cells
  BY <1>6 DEF CellOf, Cells
<1>15. Known(M1.env, OutputPointer(i)) /\ M1.env[OutputPointer(i)] = Pointer(c)
  <2>1. out \in init_filter(b)
    BY DeclaredVariables DEF AcceptedNode, init_filter, HostKinds
  <2>2. local_variable_name(out) = OutputPointer(i)
    BY DEF local_variable_name
  <2> QED
    BY <1>12, <2>1, <2>2 DEF Simulates, Loaded
<1>16. MachineOK(M1) /\ ~M1.fault /\ ~M1.done /\ M1.ticks = p.ticks
  BY <1>12 DEF Simulates
<1> DEFINE h == M1.env[OutputPointer(i)]
<1>17. h.type = "pointer" /\ h.n = c
  BY <1>15 DEF Pointer, Value
<1>18. s.n = OutputPointer(i) /\ s.es # <<>> /\ s.es[1] = X /\ s.s = IF Scalar(out) THEN "store" ELSE "copy"
  BY DEF Store, Copy
<1> HIDE DEF s, X, W, M1, c, M, M2
<1>19. Computed(M1, s, v, h)
  BY <1>11, <1>15, <1>16, <1>18 DEF Computed
<1>20. \E num : /\ M2 = [M1 EXCEPT !.cells = [M1.cells EXCEPT ![c] = num]]
                /\ k.leaks = {} => num.n = Contents(p, q).n
  <2>1. CASE Scalar(out)
    <3>1. Number(v) /\ ~ToStruct(q) /\ (p.leaks = {} => v.n = q.n)
      BY <1>9, <1>12, <2>1 DEF Agree
    <3> DEFINE num == Convert(CellType(c), v)
    <3>2. M2 = [M1 EXCEPT !.cells = [M1.cells EXCEPT ![c] = num]]
      BY <1>17, <1>18, <1>19, <2>1, <3>1, ExecuteStore DEF M2
    <3>3. Agree(num, q, k.leaks)
      BY <1>6, <1>10, <1>13, <2>1, <3>1, StoredAgrees DEF c
    <3>4. Contents(p, q) = q
      BY <1>13, <3>1, PyValueFacts, PointerFacts DEF Contents
    <3> HIDE DEF num
    <3>5. k.leaks = {} => num.n = Contents(p, q).n
      BY <3>1, <3>3, <3>4 DEF Agree
    <3> QED
      BY <3>2, <3>5
  <2>2. CASE ~Scalar(out)
    <3>1. ToStruct(q) /\ v = q
      BY <1>9, <1>12, <2>2 DEF Agree
    <3> DEFINE num == M1.cells[v.n]
    <3>2. M2 = [M1 EXCEPT !.cells = [M1.cells EXCEPT ![c] = num]]
      BY <1>17, <1>18, <1>19, <2>2, <3>1, ExecuteCopy DEF M2
    <3>3. q.type = "pointer" /\ q.n \in Cells /\ Shared(q.n)
      BY <1>13, <3>1, PyValueFacts DEF ToStruct, Shared
    <3>4. Contents(p, q) = p.cells[q.n]
      BY <3>3 DEF Contents
    <3>5. k.leaks = {} => M1.cells[q.n].n = p.cells[q.n].n
      BY <1>10, <1>12, <3>3 DEF Simulates, Mirrors
    <3> QED
      BY <3>1, <3>2, <3>4, <3>5
  <2> QED
    BY <2>1, <2>2
<1>21. PICK num : /\ M2 = [M1 EXCEPT !.cells = [M1.cells EXCEPT ![c] = num]]
                  /\ k.leaks = {} => num.n = Contents(p, q).n
  BY <1>20
<1>22. /\ IsMachine(M2) /\ M2.env = M1.env /\ M2.cells = [M1.cells EXCEPT ![c] = num]
       /\ M2.ticks = M1.ticks /\ M2.fault = M1.fault /\ M2.done = M1.done
  BY <1>16, <1>21, MachineUpdates DEF MachineOK
<1>23. M = [M2 EXCEPT !.ticks = M2.ticks \cup {i}]
  <2>1. Tick(i).s = "tick" /\ Tick(i).n = i
    BY DEF Tick
  <2>2. ~M2.done /\ ~M2.fault
    BY <1>16, <1>22
  <2> HIDE DEF M2
  <2>3. Execute(M2, Tick(i)) = [M2 EXCEPT !.ticks = M2.ticks \cup {Tick(i).n}]
    BY <2>1, <2>2, ExecuteTick
  <2> QED
    BY <1>4, <2>1, <2>3
<1>24. /\ M.env = M1.env /\ M.cells = [M1.cells EXCEPT ![c] = num] /\ M.ticks = M1.ticks \cup {i}
       /\ M.fault = M1.fault /\ M.done = M1.done
  BY <1>22, <1>23, MachineUpdates
<1>25. CellsWritten(M1, M, CellOf(out), num) /\ M.ticks = k.ticks
  BY <1>4, <1>8, <1>16, <1>24 DEF CellsWritten, c
<1>26. k.cells = [p.cells EXCEPT ![CellOf(out)] = Contents(p, q)]
  BY <1>8, <1>14 DEF c
<1>27. Simulates(b, S, f.names, M, k)
  <2>1. TableOK(Declared, f.names, f.tmp) /\ Simulates(b, S, f.names, M1, p) /\ out \in CellVars
    BY <1>2, <1>6, <1>12
  <2>2. CellsWritten(M1, M, CellOf(out), num) /\ M.ticks = k.ticks
    BY <1>25
  <2>3. /\ k.env = p.env /\ k.done = p.done /\ p.leaks \subseteq k.leaks
        /\ k.cells = [p.cells EXCEPT ![CellOf(out)] = Contents(p, q)]
        /\ k.leaks = {} => num.n = Contents(p, q).n
    BY <1>8, <1>21, <1>26
  <2> QED
    BY <2>1, <2>2, <2>3, CellGiven
<1> QED
  BY <1>27 DEF M, W, X

LEMMA ExecutionOfThree ==
  ASSUME NEW m, NEW s, NEW t, NEW u, IsSequence(s), IsSequence(t), IsSequence(u)
  PROVE  Execution(m, (s \o t) \o u) = Execution(Execution(m, s), t \o u)
<1>1. IsSequence(s \o t)
  BY Elements
<1>2. Execution(m, (s \o t) \o u) = Execution(Execution(m, s \o t), u)
  BY <1>1, ExecutionOfConcat
<1>3. Execution(m, s \o t) = Execution(Execution(m, s), t)
  BY ExecutionOfConcat
<1>4. Execution(Execution(m, s), t \o u) = Execution(Execution(Execution(m, s), t), u)
  BY ExecutionOfConcat
<1> QED
  BY <1>2, <1>3, <1>4

(* What is emitted after other code.                                       *)
LEMMA EmitsSimulate ==
  ASSUME AcceptedNode, NEW b, b = "execute", NEW S, NEW table, NEW count, TableOK(Declared, table, count),
         NEW before, IsCode(Declared, before),
         NEW m, NEW p, Simulates(b, S, table, Execution(m, before), p), PyOK(p), ~p.done, ~p.fault,
         NEW x, IsExpression(x), x # Nil, Used(x) \subseteq S,
         NEW f, f = from_ast(table, count, x),
         NEW out, NEW stmts, Emits(Declared, out, x, f, before, stmts),
         NEW k, k = Emit(p, out.idx, x), ~k.fault
  PROVE  Simulates(b, S, f.names, Execution(m, stmts), k)
<1>1. Created(node, Declared)
  BY DeclaredVariables DEF AcceptedNode
<1>2. out \in Declared /\ out.source = "OutputSource" /\ stmts = (before \o f.code) \o write(out, get(f.var))
  BY DEF Emits
<1>3. IsCode(Declared, f.code) /\ IsAtom(Declared, get(f.var))
  BY <1>1, FromAst DEF Computes
<1>4. IsCode(Declared, write(out, get(f.var)))
  BY <1>1, <1>2, <1>3, WriteCode
<1>5. IsSequence(before) /\ IsSequence(f.code) /\ IsSequence(write(out, get(f.var)))
  BY <1>3, <1>4 DEF IsCode
<1>6. Execution(m, stmts) = Execution(Execution(m, before), f.code \o write(out, get(f.var)))
  BY <1>2, <1>5, ExecutionOfThree
<1>7. PICK M : M = Execution(m, before)
  OBVIOUS
<1>8. Simulates(b, S, f.names, Execution(M, f.code \o write(out, get(f.var))), k)
  BY <1>2, <1>7, EmitSimulates
<1> QED
  BY <1>6, <1>7, <1>8

(* set_output.                                                             *)
LEMMA OutputSimulates ==
  ASSUME AcceptedNode, NEW b, b = "execute", NEW S, NEW table, NEW count, TableOK(Declared, table, count),
         NEW m, NEW p, Simulates(b, S, table, m, p), PyInv(p), ~p.done, ~p.fault,
         NEW st, IsStatement(st), st.s = "output", Used(st.es[1]) \subseteq S,
         NEW r, r = visit_statement(table, count, st), r.ok, Extends(r.names, names),
         NEW k, k = PythonExecute(p, st), ~k.fault
  PROVE  Simulates(b, S, r.names, Execution(m, r.code), k)
<1>1. IsExpression(st.es[1]) /\ IsSourceName(st.n)
  BY DEF IsStatement, IsSequence
<1>2. Created(node, Declared) /\ r = visit_set_output(table, count, st)
  BY DeclaredVariables DEF AcceptedNode, visit_statement
<1>3. PICK f : f = from_ast(table, count, st.es[1])
  OBVIOUS
<1>4. r.names = f.names /\ st.es[1] # Nil /\ Emits(Declared, table[st.n], st.es[1], f, <<>>, r.code)
  BY <1>1, <1>2, <1>3, VisitSetOutput
<1>5. names[st.n] = table[st.n]
  BY <1>1, <1>2, OutputAccepted
<1>6. k = Emit(p, table[st.n].idx, st.es[1])
  BY <1>5 DEF PythonExecute
<1>7. IsCode(Declared, <<>>) /\ Execution(m, <<>>) = m /\ PyOK(p)
  BY CodeOf, ExecutionOfOne DEF PyInv
<1>8. Simulates(b, S, table, Execution(m, <<>>), p)
  BY <1>7
<1>9. PICK out : out = table[st.n]
  OBVIOUS
<1>10. Simulates(b, S, f.names, Execution(m, r.code), k)
  BY <1>1, <1>3, <1>4, <1>6, <1>7, <1>8, <1>9, EmitsSimulate
<1> QED
  BY <1>4, <1>10

(* An element of what is returned.                                         *)
LEMMA ElementSimulates ==
  ASSUME AcceptedNode, NEW b, b = "execute", NEW S,
         NEW acc, TableOK(Declared, acc.names, acc.tmp), IsCode(Declared, acc.code),
         NEW m, NEW p, Simulates(b, S, acc.names, Execution(m, acc.code), p), PyOK(p), ~p.done, ~p.fault,
         NEW i, NEW x, IsExpression(x), Used(x) \subseteq S, NEW g, Returns(Declared, acc, i, x, g),
         NEW k, k = Emit(p, i, x), ~k.fault
  PROVE  Simulates(b, S, g.names, Execution(m, g.code), k)
<1>1. Created(node, Declared)
  BY DeclaredVariables DEF AcceptedNode
<1>2. PICK f : f = from_ast(acc.names, acc.tmp, x)
  OBVIOUS
<1>3. /\ g.names = f.names
      /\ IF x = Nil THEN g.code = acc.code
         ELSE \E out \in Declared : out.idx = i /\ Emits(Declared, out, x, f, acc.code, g.code)
  BY <1>2 DEF Returns
<1>4. CASE x = Nil
  <2>1. k = p
    BY <1>4 DEF Emit
  <2>2. SameNames(acc.names, f.names) /\ Extends(acc.names, f.names) /\ TableOK(Declared, f.names, f.tmp)
    BY <1>1, <1>2, FromAstNames
  <2>3. SameHost(acc.names, f.names)
    BY <2>2, HostStays
  <2>4. PICK M, table : M = Execution(m, acc.code) /\ table = acc.names
    OBVIOUS
  <2>5. Simulates(b, S, f.names, M, p)
    BY <2>2, <2>3, <2>4, TableLater
  <2> QED
    BY <1>3, <1>4, <2>1, <2>4, <2>5
<1>5. CASE x # Nil
  <2>1. PICK out \in Declared : out.idx = i /\ Emits(Declared, out, x, f, acc.code, g.code)
    BY <1>3, <1>5
  <2>2. Simulates(b, S, f.names, Execution(m, g.code), k)
    BY <1>2, <1>5, <2>1, EmitsSimulate
  <2> QED
    BY <1>3, <2>2
<1> QED
  BY <1>4, <1>5

LEMMA DoneTogether ==
  ASSUME AcceptedNode, NEW b, NEW S, NEW table, NEW m, NEW p, Simulates(b, S, table, m, p), IsMachine(p),
         NEW M, M = [m EXCEPT !.done = TRUE], NEW k, k = [p EXCEPT !.done = TRUE]
  PROVE  Simulates(b, S, table, M, k)
<1>1. /\ IsMachine(M) /\ M.env = m.env /\ M.cells = m.cells /\ M.ticks = m.ticks /\ M.fault = m.fault /\ M.done = TRUE
  BY MachineUpdates DEF Simulates, MachineOK
<1>2. k.env = p.env /\ k.cells = p.cells /\ k.ticks = p.ticks /\ k.done = TRUE /\ k.leaks = p.leaks
  BY MachineUpdates
<1>3. MachineOK(M)
  BY <1>1 DEF Simulates, MachineOK
<1>4. \A n \in S : Means(Parameters(b), table, M, k, n)
  BY <1>1, <1>2 DEF Simulates, Means
<1> QED
  BY <1>1, <1>2, <1>3, <1>4 DEF Simulates

(* return.                                                                 *)
LEMMA ElementsSimulate ==
  ASSUME AcceptedNode, NEW b, b = "execute", NEW S, NEW table, NEW count, TableOK(Declared, table, count),
         NEW m, NEW p, Simulates(b, S, table, m, p), PyInv(p), ~p.done,
         NEW xs, NEW n \in Nat, n = Len(xs), \A i \in 1 .. n : IsExpression(xs[i]) /\ Used(xs[i]) \subseteq S,
         \A i \in 1 .. n : xs[i] # Nil => EmitAccepted(Declared, names, i, xs[i]),
         NEW r, NEW g, ReturnTrace(Declared, table, count, xs, r, g),
         NEW h, EmitChain(p, xs, n, h)
  PROVE  \A i \in 0 .. n : ~h[i].fault => Simulates(b, S, g[i].names, Execution(m, g[i].code), h[i])
<1> DEFINE R(i) == ~h[i].fault => Simulates(b, S, g[i].names, Execution(m, g[i].code), h[i])
           A == {i \in Nat : i <= n => R(i)}
<1>1. /\ g[0] = Visited(<<>>, table, count)
      /\ \A i \in 1 .. n : Returns(Declared, g[i - 1], i, xs[i], g[i])
      /\ \A i \in 0 .. n : TableOK(Declared, g[i].names, g[i].tmp) /\ IsCode(Declared, g[i].code)
  BY DEF ReturnTrace, VisitOK
<1>2. h[0] = p /\ \A i \in 1 .. n : h[i] = Emit(h[i - 1], i, xs[i])
  BY DEF EmitChain
<1>3. \A i \in 0 .. n : PyInv(h[i]) /\ h[i].done = p.done
  BY EmitsKeep
<1>4. R(0)
  <2>1. g[0].names = table /\ g[0].code = <<>>
    BY <1>1 DEF Visited
  <2>2. Execution(m, g[0].code) = m
    BY <2>1, ExecutionOfOne
  <2> QED
    BY <1>2, <2>1, <2>2
<1>5. A \in SUBSET Nat /\ 0 \in A
  BY <1>4
<1>6. ASSUME NEW j \in Nat, j \in A PROVE j + 1 \in A
  <2> SUFFICES ASSUME j + 1 <= n, ~h[j + 1].fault
               PROVE  Simulates(b, S, g[j + 1].names, Execution(m, g[j + 1].code), h[j + 1])
    OBVIOUS
  <2>1. j + 1 \in 1 .. n /\ (j + 1) - 1 = j /\ j \in 0 .. n /\ j + 1 \in 0 .. n /\ R(j)
    BY <1>6
  <2> DEFINE acc == g[j]
             q == h[j]
             x == xs[j + 1]
             z == g[j + 1]
             k == h[j + 1]
  <2>2. k = Emit(q, j + 1, x) /\ PyInv(q) /\ ~q.done
    BY <1>2, <1>3, <2>1
  <2>3. IsExpression(x) /\ Used(x) \subseteq S /\ (x # Nil => EmitAccepted(Declared, names, j + 1, x))
    BY <2>1
  <2>4. Returns(Declared, acc, j + 1, x, z)
    BY <1>1, <2>1
  <2>5. TableOK(Declared, acc.names, acc.tmp) /\ IsCode(Declared, acc.code)
    BY <1>1, <2>1
  <2>6. ~q.fault => Simulates(b, S, acc.names, Execution(m, acc.code), q)
    BY <2>1
  <2>7. ~k.fault
    OBVIOUS
  <2> HIDE DEF acc, q, x, z, k, A, R
  <2>8. ~q.fault
    BY <2>2, <2>3, <2>7, EmitKeeps DEF Later
  <2>9. PyOK(q)
    BY <2>2 DEF PyInv
  <2>10. Simulates(b, S, z.names, Execution(m, z.code), k)
    BY <2>2, <2>3, <2>4, <2>5, <2>6, <2>7, <2>8, <2>9, ElementSimulates
  <2> QED
    BY <2>10 DEF z, k
<1> HIDE DEF A, R
<1>7. A = Nat
  BY <1>5, <1>6, NatSetInduction
<1>8. \A i \in 0 .. n : R(i)
  BY <1>7 DEF A
<1> QED
  BY <1>8 DEF R

LEMMA ReturnSimulates ==
  ASSUME AcceptedNode, NEW b, b = "execute", NEW S, NEW table, NEW count, TableOK(Declared, table, count),
         NEW m, NEW p, Simulates(b, S, table, m, p), PyInv(p), ~p.done, ~p.fault,
         NEW st, IsStatement(st), st.s = "return", \A i \in DOMAIN st.es : Used(st.es[i]) \subseteq S,
         NEW r, r = visit_statement(table, count, st), r.ok, Extends(r.names, names),
         NEW k, k = PythonExecute(p, st), ~k.fault
  PROVE  Simulates(b, S, r.names, Execution(m, r.code), k)
<1>1. PICK xs, n : xs = st.es /\ n = Len(xs)
  OBVIOUS
<1>2. /\ n \in Nat /\ DOMAIN xs = 1 .. n /\ IsSequence(xs)
      /\ \A i \in 1 .. n : IsExpression(xs[i]) /\ Used(xs[i]) \subseteq S
  BY <1>1 DEF IsStatement, IsSequence
<1>3. Created(node, Declared) /\ r = visit_Return(table, count, st)
  BY DeclaredVariables DEF AcceptedNode, visit_statement
<1>4. k = PythonReturn(p, xs)
  BY <1>1 DEF PythonExecute
<1>5. \A i \in 1 .. n : xs[i] # Nil => EmitAccepted(Declared, names, i, xs[i])
  BY <1>1, <1>2, <1>3, ReturnAccepted
<1>6. PICK g : ReturnTrace(Declared, table, count, xs, r, g)
  BY <1>1, <1>2, <1>3, VisitReturn
<1>7. PICK h : EmitChain(p, xs, n, h) /\ PythonReturn(p, xs) = [h[n] EXCEPT !.done = TRUE]
  <2>1. Len(xs) \in Nat
    BY <1>1, <1>2
  <2>2. \E h : EmitChain(p, xs, Len(xs), h) /\ PythonReturn(p, xs) = [h[Len(xs)] EXCEPT !.done = TRUE]
    BY <2>1, ReturnChain, Zenon
  <2> QED
    BY <1>1, <2>2, Zenon
<1>8. PICK l, z : l = h[n] /\ z = g[n]
  OBVIOUS
<1>9. PyInv(l) /\ IsMachine(l) /\ k = [l EXCEPT !.done = TRUE]
  <2>1. n \in 0 .. n
    BY <1>2
  <2> QED
    BY <1>2, <1>4, <1>5, <1>7, <1>8, <2>1, EmitsKeep DEF PyInv, PyOK
<1>10. ~l.fault /\ l.done = p.done
  <2>1. n \in 0 .. n
    BY <1>2
  <2> QED
    BY <1>2, <1>5, <1>7, <1>8, <1>9, <2>1, EmitsKeep, MachineUpdates
<1>11. Simulates(b, S, z.names, Execution(m, z.code), l)
  <2>1. n \in 0 .. n
    BY <1>2
  <2>2. \A i \in 0 .. n : ~h[i].fault => Simulates(b, S, g[i].names, Execution(m, g[i].code), h[i])
    BY <1>1, <1>2, <1>5, <1>6, <1>7, ElementsSimulate
  <2> QED
    BY <1>8, <1>10, <2>1, <2>2
<1>12. r.names = z.names /\ r.code = z.code \o <<Return(<<>>)>> /\ IsCode(Declared, z.code)
  <2>1. n \in 0 .. n
    BY <1>2
  <2> QED
    BY <1>1, <1>6, <1>8, <2>1 DEF ReturnTrace, VisitOK
<1>13. PICK M1, s, M : M1 = Execution(m, z.code) /\ s = Return(<<>>) /\ M = Execution(m, r.code)
  OBVIOUS
<1>14. M = Execute(M1, s)
  <2>1. IsSequence(z.code)
    BY <1>12 DEF IsCode
  <2>2. IsSequence(<<s>>)
    BY DEF IsSequence
  <2> QED
    BY <1>12, <1>13, <2>1, <2>2, ExecutionOfConcat, ExecutionOfOne
<1>15. M = [M1 EXCEPT !.done = TRUE]
  <2>1. ~M1.fault /\ ~M1.done
    BY <1>10, <1>11, <1>13 DEF Simulates
  <2>2. s.s = "return"
    BY <1>13 DEF Return
  <2> QED
    BY <1>14, <2>1, <2>2, ExecuteReturn
<1>16. Simulates(b, S, z.names, M, k)
  BY <1>9, <1>11, <1>13, <1>15, DoneTogether
<1> QED
  BY <1>12, <1>13, <1>16

(* What a statement may do, for the compiled code to mean it.              *)
PlainStep(b, table, st) ==
  /\ st.s \in {"output", "return"} => b = "execute"
  /\ st.s = "assign" => TargetOK(table, st.n)
InReach(S, st, T) ==
  /\ \A i \in DOMAIN st.es : Used(st.es[i]) \subseteq S
  /\ st.s = "field" => st.n \in S
  /\ \A n \in T : n \in S \/ (st.s = "assign" /\ n = st.n)
Translates(table, count, st, r) ==
  r = visit_statement(table, count, st) /\ r.ok /\ TableOK(Declared, r.names, r.tmp) /\ Extends(r.names, names)

LEMMA StepSimulates ==
  ASSUME AcceptedNode, NEW b \in Bodies, NEW S, NEW table, NEW count, TableOK(Declared, table, count),
         NEW m, NEW p, Simulates(b, S, table, m, p), PyInv(p), ~p.done, ~p.fault,
         NEW st, IsStatement(st), NEW T, InReach(S, st, T), PlainStep(b, table, st),
         NEW r, Translates(table, count, st, r), NEW k, k = PythonExecute(p, st), ~k.fault
  PROVE  Simulates(b, T, r.names, Execution(m, r.code), k)
<1>0. /\ \A i \in DOMAIN st.es : Used(st.es[i]) \subseteq S
      /\ st.s = "field" => st.n \in S
      /\ \A n \in T : n \in S \/ (st.s = "assign" /\ n = st.n)
      /\ r = visit_statement(table, count, st) /\ r.ok /\ TableOK(Declared, r.names, r.tmp) /\ Extends(r.names, names)
  BY DEF InReach, Translates
<1>1. st.s \in {"assign", "field", "output", "return"}
  BY DEF IsStatement
<1>2. st.s # "return" => IsExpression(st.es[1]) /\ Used(st.es[1]) \subseteq S
  BY <1>0 DEF IsStatement, IsSequence
<1>3. PICK last, later : last = r.tmp /\ later = r.names
  OBVIOUS
<1>4. CASE st.s = "assign"
  <2>1. TargetOK(table, st.n)
    BY <1>4 DEF PlainStep
  <2>2. Simulates(b, S \cup {st.n}, later, Execution(m, r.code), k)
    BY <1>0, <1>2, <1>3, <1>4, <2>1, AssignSimulates
  <2> QED
    BY <1>0, <1>3, <1>4, <2>2 DEF Simulates
<1>5. CASE st.s = "field"
  <2>1. r.names = table /\ r.code = <<SetField(st.n, visit(table, st.es[1]))>>
    BY <1>0, <1>2, <1>5, VisitFieldStore, DeclaredVariables DEF AcceptedNode, visit_statement
  <2>2. Simulates(b, S, r.names, Execution(m, r.code), k)
    BY <1>0, <1>2, <1>5, <2>1, FieldSimulates
  <2> QED
    BY <1>0, <1>5, <2>2 DEF Simulates
<1>6. CASE st.s = "output"
  <2>1. Simulates(b, S, r.names, Execution(m, r.code), k)
    BY <1>0, <1>2, <1>6, OutputSimulates DEF PlainStep
  <2> QED
    BY <1>0, <1>6, <2>1 DEF Simulates
<1>7. CASE st.s = "return"
  <2>1. Simulates(b, S, r.names, Execution(m, r.code), k)
    BY <1>0, <1>7, ReturnSimulates DEF PlainStep
  <2> QED
    BY <1>0, <1>7, <2>1 DEF Simulates
<1> QED
  BY <1>1, <1>4, <1>5, <1>6, <1>7

(* A body.                                                                 *)
LEMMA BodySimulates ==
  ASSUME AcceptedNode, NEW b \in Bodies, NEW stmts, IsSource(stmts), NEW K, NEW V, Traced(Declared, names, stmts, V, K),
         NEW P, P = Parameters(b), \A j \in 1 .. K : Scoped(P, stmts, j),
         \A j \in 1 .. K : PlainStep(b, V[j - 1].names, stmts[j]),
         NEW begun, NEW f, f[0] = begun, \A i \in 1 .. K : f[i] = PythonExecute(f[i - 1], stmts[i]),
         \A j \in 0 .. K : RanTo(P, stmts, V[j].names, begun, f[j], j),
         NEW m, Simulates(b, Scope(P, stmts, 0), V[0].names, m, begun)
  PROVE  \A j \in 0 .. K :
           ~f[j].fault => Simulates(b, Scope(P, stmts, j), V[j].names, Execution(m, V[j].code), f[j])
<1> DEFINE T(j) == Scope(P, stmts, j)
           R(j) == /\ IsCode(Declared, V[j].code)
                   /\ ~f[j].fault => Simulates(b, T(j), V[j].names, Execution(m, V[j].code), f[j])
           A == {j \in Nat : j <= K => R(j)}
<1>1. K \in Nat /\ DOMAIN stmts = 1 .. Len(stmts) /\ Len(stmts) \in Nat /\ K <= Len(stmts)
  BY DEF Traced, IsSource, IsSequence
<1>2. \A i \in 1 .. K : IsStatement(stmts[i])
  BY <1>1 DEF IsSource
<1>3. R(0)
  <2>1. V[0].code = <<>>
    BY DEF Traced
  <2> QED
    BY <2>1, CodeOf, ExecutionOfOne
<1>4. A \in SUBSET Nat /\ 0 \in A
  BY <1>3
<1>5. ASSUME NEW j \in Nat, j \in A PROVE j + 1 \in A
  <2> SUFFICES ASSUME j + 1 <= K PROVE R(j + 1)
    OBVIOUS
  <2>1. j + 1 \in 1 .. K /\ (j + 1) - 1 = j /\ R(j) /\ j \in 0 .. K /\ j + 1 \in 0 .. K
    BY <1>1, <1>5
  <2> DEFINE st == stmts[j + 1]
             q == f[j]
             k == f[j + 1]
             a == V[j]
             z == V[j + 1]
  <2>2. IsStatement(st) /\ k = PythonExecute(q, st) /\ Scoped(P, stmts, j + 1) /\ PlainStep(b, a.names, st)
    BY <1>2, <2>1
  <2>3. PyInv(q) /\ (~q.fault /\ (\A i \in 1 .. j : stmts[i].s # "return") => ~q.done)
    BY <2>1 DEF RanTo
  <2>4. TableOK(Declared, a.names, a.tmp) /\ TableOK(Declared, z.names, z.tmp) /\ Extends(z.names, names) /\ Step(a, st, z)
    <3>1. /\ \A i \in 0 .. K : TableOK(Declared, V[i].names, V[i].tmp) /\ Extends(V[i].names, names)
          /\ \A i \in 1 .. K : Step(V[i - 1], stmts[i], V[i])
      BY DEF Traced
    <3> QED
      BY <2>1, <3>1
  <2>5. /\ \A i \in DOMAIN st.es : Used(st.es[i]) \subseteq T(j)
        /\ st.s = "field" => st.n \in T(j)
        /\ \A i \in 1 .. j : stmts[i].s # "return"
    BY <2>1, <2>2 DEF Scoped
  <2>6. \A n \in T(j + 1) : n \in T(j) \/ (st.s = "assign" /\ n = st.n)
    BY ScopeGrows
  <2>7. IsCode(Declared, a.code) /\ (~q.fault => Simulates(b, T(j), a.names, Execution(m, a.code), q))
    BY <2>1
  <2>8. ~q.fault => ~q.done
    BY <2>3, <2>5
  <2>9. PICK S, S1 : S = T(j) /\ S1 = T(j + 1)
    OBVIOUS
  <2> HIDE DEF st, q, k, a, z, A, T, R
  <2>10. PICK r : r = visit_statement(a.names, a.tmp, st)
    OBVIOUS
  <2>11. r.ok /\ z.code = a.code \o r.code /\ z.names = r.names /\ z.tmp = r.tmp
    BY <2>4, <2>10 DEF Step
  <2>12. IsCode(Declared, r.code)
    BY <2>2, <2>4, <2>10, <2>11, VisitStatementOK, DeclaredVariables DEF AcceptedNode, VisitOK
  <2>13. IsCode(Declared, z.code) /\ Execution(m, z.code) = Execution(Execution(m, a.code), r.code)
    <3>1. IsSequence(a.code) /\ IsSequence(r.code)
      BY <2>7, <2>12 DEF IsCode
    <3> QED
      BY <2>7, <2>11, <2>12, <3>1, CodeOf, ExecutionOfConcat
  <2>14. ASSUME ~k.fault PROVE Simulates(b, S1, z.names, Execution(m, z.code), k)
    <3>1. ~q.fault
      BY <2>2, <2>14 DEF PythonExecute
    <3>2. PICK M, table, count : M = Execution(m, a.code) /\ table = a.names /\ count = a.tmp
      OBVIOUS
    <3>3. Simulates(b, S, table, M, q) /\ ~q.done /\ TableOK(Declared, table, count) /\ PyInv(q)
      BY <2>3, <2>4, <2>7, <2>8, <2>9, <3>1, <3>2
    <3>4. IsStatement(st) /\ InReach(S, st, S1) /\ PlainStep(b, table, st)
      BY <2>2, <2>5, <2>6, <2>9, <3>2 DEF InReach
    <3>5. Translates(table, count, st, r) /\ k = PythonExecute(q, st)
      BY <2>2, <2>4, <2>10, <2>11, <3>2 DEF Translates
    <3>6. Simulates(b, S1, r.names, Execution(M, r.code), k)
      BY <2>14, <3>1, <3>3, <3>4, <3>5, StepSimulates
    <3> QED
      BY <2>11, <2>13, <3>2, <3>6
  <2> QED
    BY <2>9, <2>13, <2>14 DEF R, T, k, z
<1> HIDE DEF A, R
<1>6. A = Nat
  BY <1>4, <1>5, NatSetInduction
<1>7. \A j \in 0 .. K : R(j)
  BY <1>1, <1>6 DEF A
<1> QED
  BY <1>7 DEF R

(* In plain bodies every statement is one the code means.                  *)
LEMMA PlainTargets ==
  ASSUME AcceptedNode, TableInv, Plain, NEW b \in Bodies, NEW current, NEW V, NEW K,
         BodyTrace(Declared, names, tmp, source, code[b], b, K, current, V)
  PROVE  \A j \in 1 .. K : PlainStep(b, V[j - 1].names, source[b][j])
<1> SUFFICES ASSUME NEW j \in 1 .. K PROVE PlainStep(b, V[j - 1].names, source[b][j])
  OBVIOUS
<1>1. Traced(Declared, names, source[b], V, K) /\ IsSource(source[b])
  BY DEF BodyTrace, TableInv
<1>2. K \in Nat /\ j \in DOMAIN source[b] /\ j - 1 \in 0 .. K /\ IsStatement(source[b][j])
  BY <1>1 DEF Traced, IsSource, IsSequence
<1> DEFINE st == source[b][j]
           table == V[j - 1].names
           n == st.n
           w == table[n]
<1>3. TableOK(Declared, table, V[j - 1].tmp) /\ Extends(table, names)
  BY <1>1, <1>2 DEF Traced
<1>4. /\ st.s \in {"output", "return"} => b = "execute"
      /\ st.s = "assign" /\ Known(names, n) =>
           names[n].source # "OutputSource" /\ (WritesThrough(names[n]) => n # names[n].name /\ AssignedOnce(b, j))
  BY <1>2 DEF Plain
<1>5. ASSUME st.s = "assign", Known(table, n), w \in Declared, w.source # "ConstantSource"
      PROVE  w.source = "StateSource" /\ Scalar(w) /\ w.name = n
  <2>1. IsSourceName(n)
    BY <1>2, <1>5 DEF IsStatement
  <2>2. Known(names, n) /\ names[n] = w
    BY <1>3, <1>5, <2>1 DEF Extends, Known
  <2>3. IsHostVariable(node, w)
    BY <1>5, DeclaredVariables DEF AcceptedNode, Created
  <2>4. w.source \in {"StateSource", "InputSource"}
    BY <1>4, <1>5, <2>2, <2>3 DEF IsHostVariable, HostKinds
  <2>5. ASSUME WritesThrough(w) PROVE FALSE
    <3>1. n # w.name /\ AssignedOnce(b, j)
      BY <1>4, <1>5, <2>2, <2>5
    <3>2. Alias(Declared, table, n)
      BY <1>5, <3>1 DEF Alias, Known
    <3>3. AssignedBy(source, n, b, j - 1)
      BY <1>2, <3>2 DEF BodyTrace
    <3>4. PICK c \in Bodies : \E i \in DOMAIN source[c] :
                 source[c][i].s = "assign" /\ source[c][i].n = n /\ (c = b => i <= j - 1)
      BY <3>3 DEF AssignedBy
    <3>5. PICK i \in DOMAIN source[c] : source[c][i].s = "assign" /\ source[c][i].n = n /\ (c = b => i <= j - 1)
      BY <3>4
    <3>6. c = b /\ i = j
      BY <3>1, <3>5 DEF AssignedOnce
    <3> QED
      BY <1>2, <3>5, <3>6
  <2>6. w.source = "StateSource" /\ Scalar(w)
    BY <2>4, <2>5 DEF WritesThrough
  <2>7. ~w.opaque
    BY <2>3, <2>6 DEF IsHostVariable, Scalar
  <2>8. n = w.name \/ w.opaque
    <3>1. n \in DOMAIN table /\ w.source \in HostKinds
      BY <1>5, <2>6 DEF Known, HostKinds
    <3> QED
      BY <1>3, <3>1, HostEntry
  <2> QED
    BY <2>6, <2>7, <2>8
<1>6. TargetOK(table, n) \/ st.s # "assign"
  BY <1>5 DEF TargetOK
<1> QED
  BY <1>4, <1>6 DEF PlainStep

(* Both machines begin a call with the same values.                        *)
LEMMA BeginSimulates ==
  ASSUME AcceptedNode, NEW b \in Bodies, NEW table, NEW count, TableOK(Declared, table, count),
         NEW cells, CellsOK(cells), NEW was, PyHost(was), was.leaks = {} => \A c \in Cells : cells[c].n = was.cells[c].n
  PROVE  Simulates(b, {v.name : v \in Parameters(b)}, table, Machine(Environment(b), cells), Begun(was))
<1> DEFINE m == Machine(Environment(b), cells)
           p == Begun(was)
<1>1. /\ m.env = Environment(b) /\ m.cells = cells /\ m.ticks = {} /\ m.fault = FALSE /\ m.done = FALSE /\ IsMachine(m)
  BY DEF Machine, IsMachine
<1>2. /\ p.env = PythonEnvironment(was.cells) /\ p.ticks = {} /\ p.done = FALSE /\ p.cells = was.cells /\ p.leaks = was.leaks
  BY BegunMachine DEF PyHost
<1> HIDE DEF m, p
<1>3. MachineOK(m)
  BY <1>1, EnvironmentOK DEF MachineOK
<1>4. PythonNames(p.env, was.cells) /\ PyCells(was.cells)
  BY <1>2, PythonNamesOK DEF PyHost
<1>5. /\ \A kind \in HostKinds : Of(names, kind) = {v \in Declared : v.source = kind}
      /\ Created(node, Declared)
  BY DeclaredVariables DEF AcceptedNode
<1>6. /\ \A v \in init_filter(b) \cup Of(names, "ConstantSource") :
           Known(m.env, local_variable_name(v))
           /\ m.env[local_variable_name(v)] = IF v.source = "ConstantSource" THEN v.value ELSE Pointer(CellOf(v))
  BY <1>1, EnvironmentValues DEF Known
<1>7. Loaded(b, m.env)
  <2>1. \A v \in init_filter(b) : v.source # "ConstantSource"
    BY <1>5 DEF init_filter, HostKinds
  <2> QED
    BY <1>6, <2>1 DEF Loaded
<1>8. ASSUME NEW v \in Parameters(b) PROVE Means(Parameters(b), table, m, p, v.name)
  <2>1. v \in Declared /\ v.source \in {"ConstantSource", "StateSource", "InputSource"} /\ v \in Readable
    BY DEF Parameters, Readable
  <2>2. IsHostVariable(node, v) /\ IsSourceName(v.name)
    BY <1>5, <2>1 DEF Created, IsHostVariable
  <2>3. Known(table, v.name) /\ table[v.name] = v
    BY <2>1 DEF TableOK
  <2>4. /\ Known(p.env, v.name)
        /\ p.env[v.name] = IF v.source = "ConstantSource" THEN Value(PythonType(v), v.value.n)
                           ELSE IF Scalar(v) THEN was.cells[CellOf(v)] ELSE Pointer(CellOf(v))
    BY <1>4, <2>1 DEF PythonNames, Known
  <2>5. local_variable_name(v) = v.name
    BY <2>1 DEF local_variable_name
  <2> DEFINE a == Held(m.env, m.cells, table, v.name)
             q == p.env[v.name]
  <2>6. Agree(a, q, p.leaks) /\ (ToStruct(q) => Known(m.env, v.name) /\ m.env[v.name] = q)
    <3>1. CASE v.source = "ConstantSource"
      <4>1. visit_Name(table, v.name) = Const(v.value) /\ Number(v.value)
        BY <2>1, <2>2, <2>3, <3>1, ReadName
      <4>2. a = v.value
        BY <4>1 DEF Held, Atom, Const
      <4>3. q.type = PythonType(v) /\ q.n = v.value.n
        BY <2>4, <3>1 DEF Value
      <4>4. v.type.class = "PrimitiveType" /\ v.type \in DeclaredTypes
        BY <2>2, <3>1 DEF IsHostVariable
      <4>5. PythonType(v) \in Primitives
        BY <4>4 DEF DeclaredTypes, Types, PythonType, Primitives
      <4>6. ~ToStruct(q)
        BY <4>3, <4>5, PointerFacts DEF Number
      <4> QED
        BY <4>1, <4>2, <4>3, <4>6 DEF Agree
    <3>2. CASE v.source # "ConstantSource"
      <4>1. v \in CellVars /\ CellOf(v) \in Cells /\ Known(m.env, v.name) /\ m.env[v.name] = Pointer(CellOf(v))
        BY <1>7, <2>5, <3>2, ParametersLoaded DEF Cells
      <4>2. CASE Scalar(v)
        <5>1. visit_Name(table, v.name) = Cell(v.name)
          BY <2>1, <2>2, <2>3, <2>5, <3>2, <4>2, ReadName
        <5>2. a = m.cells[CellOf(v)]
          BY <4>1, <5>1 DEF Held, Atom, Cell, Pointer, Value
        <5>3. q = was.cells[CellOf(v)] /\ Number(q)
          BY <1>4, <2>4, <3>2, <4>1, <4>2 DEF PyCells
        <5>4. Number(a) /\ (p.leaks = {} => a.n = q.n)
          BY <1>1, <1>2, <4>1, <5>2, <5>3 DEF CellsOK
        <5> QED
          BY <5>3, <5>4, PointerFacts DEF Agree
      <4>3. CASE ~Scalar(v)
        <5>1. visit_Name(table, v.name) = Name(v.name)
          BY <2>1, <2>2, <2>3, <2>5, <3>2, <4>3, ReadName
        <5>2. a = Pointer(CellOf(v)) /\ q = Pointer(CellOf(v))
          BY <2>4, <3>2, <4>1, <4>3, <5>1 DEF Held, Atom, Name
        <5>3. ToStruct(q)
          <6>1. StructPointer(q)
            BY <4>1, <4>3, <5>2 DEF StructPointer
          <6> QED
            BY <6>1, PointerFacts
        <5> QED
          BY <4>1, <5>2, <5>3 DEF Agree
      <4> QED
        BY <4>2, <4>3
    <3> QED
      BY <3>1, <3>2
  <2> QED
    BY <2>2, <2>3, <2>4, <2>6 DEF Means
<1>9. p.leaks = {} => Mirrors(m.cells, p.cells)
  BY <1>1, <1>2 DEF Mirrors, Shared
<1>10. ~m.fault /\ (m.done <=> p.done) /\ m.ticks = p.ticks
  BY <1>1, <1>2
<1>11. Simulates(b, {v.name : v \in Parameters(b)}, table, m, p)
  BY <1>3, <1>7, <1>8, <1>9, <1>10 DEF Simulates
<1> QED
  BY <1>11 DEF m, p

LEMMA StateCells ==
  ASSUME AcceptedNode, NEW c \in Cells, c[1] = "StateSource"
  PROVE  \E v \in CellVars : IsState(v) /\ c = CellOf(v) /\ StateAt(c) = v
<1>1. PICK v \in CellVars : c = CellOf(v)
  BY DEF Cells
<1>2. v.source = "StateSource" /\ v \in Declared
  BY <1>1, CellFacts DEF CellOf
<1>3. v \in Of(names, "StateSource")
  BY <1>2, DeclaredVariables DEF AcceptedNode, HostKinds
<1>4. \A w \in Of(names, "StateSource") : CellOf(w) = CellOf(v) => w = v
  BY CellFacts DEF CellVars
<1> QED
  BY <1>1, <1>2, <1>3, <1>4 DEF StateAt, IsState

StatesIn(S) == \A v : IsState(v) => v.name \in S
SameNumbers(cells, others) == \A c \in Cells : cells[c].n = others[c].n

(* Both machines leave the same values.                                    *)
LEMMA EndSimulates ==
  ASSUME AcceptedNode, NEW b, NEW S, NEW table, NEW count, TableOK(Declared, table, count),
         NEW m, NEW p, Simulates(b, S, table, m, p), PyInv(p), ~p.fault, p.leaks = {}, StatesIn(S),
         NEW was, DOMAIN was.cells = Cells
  PROVE  m.ticks = Left(was, p).ticks /\ SameNumbers(m.cells, Left(was, p).cells)
<1> DEFINE k == Left(was, p)
<1>1. PyOK(p) /\ PyTyped(p) /\ IsMachine(p)
  BY DEF PyInv, PyOK
<1>2. /\ \A c \in Cells : k.cells[c] = IF c[1] = "StateSource" THEN Contents(p, p.env[StateAt(c).name]) ELSE p.cells[c]
      /\ k.ticks = p.ticks
  BY <1>1, LeftMachine
<1> HIDE DEF k
<1>3. Mirrors(m.cells, p.cells) /\ m.ticks = p.ticks /\ Loaded(b, m.env)
  BY DEF Simulates
<1>4. ASSUME NEW c \in Cells PROVE m.cells[c].n = k.cells[c].n
  <2>1. CASE c[1] # "StateSource"
    BY <1>2, <1>3, <2>1 DEF Mirrors, Shared
  <2>2. CASE c[1] = "StateSource"
    <3>1. PICK v \in CellVars : IsState(v) /\ c = CellOf(v) /\ StateAt(c) = v
      BY <2>2, StateCells
    <3>2. PICK q : q = p.env[v.name]
      OBVIOUS
    <3>3. k.cells[c] = Contents(p, q)
      BY <1>2, <2>2, <3>1, <3>2
    <3>4. Means(Parameters(b), table, m, p, v.name)
      BY <3>1 DEF Simulates, StatesIn
    <3>5. v \in Declared /\ v.source = "StateSource" /\ v \in Parameters(b) /\ local_variable_name(v) = v.name
      BY <3>1 DEF IsState, Parameters, local_variable_name
    <3>6. Known(m.env, v.name) /\ m.env[v.name] = Pointer(c)
      BY <1>3, <3>1, <3>5, ParametersLoaded
    <3>7. Known(table, v.name) /\ table[v.name] = v /\ Known(names, v.name) /\ names[v.name] = v
      BY <3>5, DeclaredNames DEF TableOK
    <3>8. PyValue(q) /\ (ToStruct(q) <=> ~Scalar(v))
      BY <1>1, <3>2, <3>4, <3>7 DEF PyOK, PyTyped, Means, Known
    <3>9. CASE Scalar(v)
      <4>1. visit_Name(table, v.name) = Cell(v.name)
        BY <3>4, <3>5, <3>7, <3>9, ReadName DEF Means
      <4>2. Held(m.env, m.cells, table, v.name) = m.cells[c]
        BY <3>6, <4>1 DEF Held, Atom, Cell, Pointer, Value
      <4>3. m.cells[c].n = q.n
        BY <3>2, <3>4, <3>8, <3>9, <4>2 DEF Means, Agree
      <4>4. Contents(p, q) = q
        BY <3>8, <3>9, PyValueFacts, PointerFacts DEF Contents
      <4> QED
        BY <3>3, <4>3, <4>4
    <3>10. CASE ~Scalar(v)
      <4>1. q = Pointer(c)
        BY <3>2, <3>4, <3>6, <3>8, <3>10 DEF Means
      <4>2. Contents(p, q) = p.cells[c]
        BY <4>1 DEF Contents, Pointer, Value
      <4>3. Shared(c)
        BY <3>1, <3>10, CellFacts DEF Shared
      <4> QED
        BY <1>3, <3>3, <4>2, <4>3 DEF Mirrors
    <3> QED
      BY <3>9, <3>10
  <2> QED
    BY <2>1, <2>2
<1> QED
  BY <1>2, <1>3, <1>4 DEF k, SameNumbers

(* A call, in both machines.                                               *)
LEMMA CallSimulates ==
  ASSUME AcceptedNode, TraceInv, ScopeInv, TableInv, Begins, Plain, NEW b \in Bodies, Translated(b) = Len(source[b]),
         NEW was, PyHost(was), InputsTyped(was.cells), NEW cells, CellsOK(cells),
         was.leaks = {} /\ ~was.fault => \A c \in Cells : cells[c].n = was.cells[c].n,
         NEW k, k = PythonRun(source[b], was), ~k.fault,
         NEW m, m = Execution(Machine(Environment(b), cells), code[b])
  PROVE  /\ ~m.fault
         /\ k.leaks = {} => m.ticks = k.ticks /\ \A c \in Cells : m.cells[c].n = k.cells[c].n
<1> DEFINE P == Parameters(b)
           stmts == source[b]
           n == Len(stmts)
<1>1. PICK V, f :
           /\ BodyTrace(Declared, names, tmp, source, code[b], b, n, b = Current, V)
           /\ f[0] = Begun(was) /\ \A i \in 1 .. n : f[i] = PythonExecute(f[i - 1], stmts[i])
           /\ PythonRun(stmts, was) = Left(was, f[n])
           /\ \A j \in 0 .. n : RanTo(P, stmts, V[j].names, Begun(was), f[j], j)
  <2>1. \E V, f :
           /\ BodyTrace(Declared, names, tmp, source, code[b], b, Translated(b), b = Current, V)
           /\ f[0] = Begun(was) /\ \A i \in 1 .. Len(source[b]) : f[i] = PythonExecute(f[i - 1], source[b][i])
           /\ PythonRun(source[b], was) = Left(was, f[Len(source[b])])
           /\ \A j \in 0 .. Translated(b) : RanTo(Parameters(b), source[b], V[j].names, Begun(was), f[j], j)
    BY PyRunBody
  <2>2. Translated(b) = n
    OBVIOUS
  <2> QED
    BY <2>1, <2>2, Zenon
<1>2. n \in Nat /\ IsSource(stmts) /\ DOMAIN stmts = 1 .. n
  BY DEF TableInv, IsSource, IsSequence
<1>3. Traced(Declared, names, stmts, V, n) /\ V[n].code = code[b]
  BY <1>1 DEF BodyTrace
<1>4. /\ TableOK(Declared, V[0].names, V[0].tmp) /\ TableOK(Declared, V[n].names, V[n].tmp)
  BY <1>2, <1>3 DEF Traced
<1>5. \A j \in 1 .. n : Scoped(P, stmts, j)
  BY <1>2 DEF ScopeInv
<1>6. \A j \in 1 .. n : PlainStep(b, V[j - 1].names, stmts[j])
  BY <1>1, PlainTargets
<1> HIDE DEF n, stmts, P
<1>7. PICK p, begun, M0 : p = f[n] /\ begun = Begun(was) /\ M0 = Machine(Environment(b), cells)
  OBVIOUS
<1>8. PyInv(p) /\ Later(begun, p) /\ IsMachine(p)
  BY <1>1, <1>2, <1>7 DEF RanTo, PyInv, PyOK
<1>9. begun.fault = was.fault /\ begun.leaks = was.leaks
  BY <1>7, BegunMachine DEF PyHost
<1>10. k = Left(was, p) /\ k.fault = p.fault /\ k.leaks = p.leaks
  BY <1>1, <1>7, <1>8, LeftMachine DEF stmts
<1>11. ~p.fault /\ ~was.fault
  BY <1>8, <1>9, <1>10 DEF Later
<1>12. Scope(P, stmts, 0) = {v.name : v \in P}
  BY DEF Scope
<1>13. Simulates(b, Scope(P, stmts, 0), V[0].names, M0, begun)
  <2>1. PICK table, count : table = V[0].names /\ count = V[0].tmp
    OBVIOUS
  <2>2. TableOK(Declared, table, count)
    BY <1>4, <2>1
  <2>3. was.leaks = {} => \A c \in Cells : cells[c].n = was.cells[c].n
    BY <1>11
  <2>4. Simulates(b, {v.name : v \in Parameters(b)}, table, M0, begun)
    BY <1>7, <2>2, <2>3, BeginSimulates
  <2> QED
    BY <1>12, <2>1, <2>4 DEF P
<1>14. Simulates(b, Scope(P, stmts, n), V[n].names, m, p)
  <2>1. f[0] = begun /\ (\A i \in 1 .. n : f[i] = PythonExecute(f[i - 1], stmts[i]))
        /\ (\A j \in 0 .. n : RanTo(P, stmts, V[j].names, begun, f[j], j)) /\ P = Parameters(b)
    BY <1>1, <1>7 DEF P
  <2>2. \A j \in 0 .. n :
           ~f[j].fault => Simulates(b, Scope(P, stmts, j), V[j].names, Execution(M0, V[j].code), f[j])
    BY <1>2, <1>3, <1>5, <1>6, <1>13, <2>1, BodySimulates
  <2>3. n \in 0 .. n
    BY <1>2
  <2> QED
    BY <1>3, <1>7, <1>11, <2>2, <2>3
<1>15. \A v : IsState(v) => v.name \in Scope(P, stmts, n)
  BY DEF IsState, P, Parameters, Scope
<1>16. DOMAIN was.cells = Cells
  BY DEF PyHost, PyCells
<1>17. ~m.fault
  BY <1>14 DEF Simulates
<1>18. ASSUME k.leaks = {} PROVE m.ticks = k.ticks /\ \A c \in Cells : m.cells[c].n = k.cells[c].n
  <2>1. PICK S, table, count : S = Scope(P, stmts, n) /\ table = V[n].names /\ count = V[n].tmp
    OBVIOUS
  <2>2. TableOK(Declared, table, count) /\ Simulates(b, S, table, m, p) /\ StatesIn(S)
    BY <1>4, <1>14, <1>15, <2>1 DEF StatesIn
  <2>3. p.leaks = {}
    BY <1>10, <1>18
  <2> QED
    <3>1. m.ticks = Left(was, p).ticks /\ SameNumbers(m.cells, Left(was, p).cells)
      BY <1>8, <1>11, <1>16, <2>2, <2>3, EndSimulates
    <3> QED
      BY <1>10, <3>1 DEF SameNumbers
<1> QED
  BY <1>17, <1>18

(* While no phase has run nothing has ticked; and as long as Python raises *)
(* nothing, the host holds what Python means.                              *)
SameHosts == \A c \in Cells : memory[c].n = python.cells[c].n
MeaningInv ==
  /\ phase # "run" => ~faulted /\ ticked = {}
  /\ phase = "run" /\ Plain /\ ~python.fault =>
       ~faulted /\ (python.leaks = {} => SameHosts /\ ticked = python.ticks)

LEMMA MeaningInit == Init => MeaningInv
  BY DEF Init, MeaningInv

LEMMA MeaningStep ==
  TableInv /\ RunInv /\ TraceInv /\ ScopeInv /\ PythonInv /\ MeaningInv /\ [Next]_vars => MeaningInv'
<1> SUFFICES ASSUME TableInv, RunInv, TraceInv, ScopeInv, PythonInv, MeaningInv, [Next]_vars PROVE MeaningInv'
  OBVIOUS
<1>0. ASSUME UNCHANGED <<node, names>> PROVE Cells' = Cells
  BY <1>0 DEF Cells, CellVars, Of, Vars
<1>1. ASSUME NEW st \in Statements(node), VisitStatement(st) PROVE MeaningInv'
  <2>1. phase # "run" /\ phase' # "run" /\ UNCHANGED <<faulted, ticked>>
    BY <1>1, BodyNames DEF VisitStatement
  <2> QED
    BY <2>1 DEF MeaningInv
<1>2. CASE EndBody
  <2>1. /\ phase # "run" /\ UNCHANGED <<node, names, faulted, ticked>>
        /\ phase' = "run" => memory' = HostCells /\ python' = Machine(<<>>, HostCells)
    BY <1>2, BodyNames DEF EndBody, NextBody
  <2>2. ~faulted /\ ticked = {}
    BY <2>1 DEF MeaningInv
  <2>3. ASSUME phase' = "run" PROVE python'.cells = memory' /\ python'.ticks = {}
    BY <2>1, <2>3 DEF Machine
  <2>4. phase' = "run" => SameHosts'
    BY <2>3 DEF SameHosts
  <2> QED
    BY <2>1, <2>2, <2>3, <2>4 DEF MeaningInv
<1>3. ASSUME NEW input \in Inputs, Call(input) PROVE MeaningInv'
  <2> SUFFICES ASSUME Plain', ~python'.fault
               PROVE  ~faulted' /\ (python'.leaks = {} => SameHosts' /\ ticked' = python'.ticks)
    <3>1. phase' = "run"
      BY <1>3 DEF Call
    <3> QED
      BY <3>1 DEF MeaningInv
  <2> DEFINE body == Schedule(calls)
             was == [python EXCEPT !.cells = fed(python.cells, input)]
             cells == fed(memory, input)
             k == PythonRun(source[body], was)
             m == Execution(Machine(Environment(body), cells), code[body])
  <2>1. phase = "run" /\ UNCHANGED <<node, names, source>>
    BY <1>3 DEF Call
  <2>2. python' = k /\ memory' = m.cells /\ ticked' = m.ticks /\ faulted' = m.fault
    BY <1>3 DEF Call, fed
  <2>3. body \in Bodies
    BY DEF Schedule, Bodies
  <2>4. AcceptedNode /\ PyHost(python) /\ CellsOK(memory) /\ Begins /\ Translated(body) = Len(source[body])
    BY <2>1 DEF RunInv, AcceptedNode, TableInv, PythonInv, Begins, Translated
  <2>5. input \in Int
    BY TranslationAssumption DEF TranslationAssumption
  <2>6. /\ PyHost(was) /\ InputsTyped(was.cells) /\ was.leaks = python.leaks /\ was.fault = python.fault
        /\ was.cells = fed(python.cells, input)
    BY <2>4, <2>5, FedHost
  <2>7. Plain
    BY <2>1 DEF Plain, AssignedOnce, Known
  <2>8. CellsOK(cells)
    BY <2>4, FedOK
  <2>9. was.leaks = {} /\ ~was.fault => \A c \in Cells : cells[c].n = was.cells[c].n
    <3> SUFFICES ASSUME was.leaks = {}, ~was.fault, NEW c \in Cells PROVE cells[c].n = was.cells[c].n
      OBVIOUS
    <3>1. memory[c].n = python.cells[c].n
      BY <2>1, <2>6, <2>7 DEF MeaningInv, SameHosts
    <3>2. DOMAIN memory = Cells /\ DOMAIN python.cells = Cells
      BY <2>4 DEF CellsOK, PyHost, PyCells
    <3> HIDE DEF was
    <3> QED
      BY <2>6, <3>1, <3>2 DEF fed
  <2> HIDE DEF body, was, cells
  <2>10. PICK l, z : l = k /\ z = m
    OBVIOUS
  <2>11. ~z.fault /\ (l.leaks = {} => z.ticks = l.ticks /\ \A c \in Cells : z.cells[c].n = l.cells[c].n)
    BY <2>2, <2>3, <2>4, <2>6, <2>7, <2>8, <2>9, <2>10, CallSimulates
  <2> HIDE DEF k, m
  <2>12. python'.leaks = {} => SameHosts'
    BY <1>0, <2>1, <2>2, <2>10, <2>11 DEF SameHosts
  <2> QED
    BY <2>2, <2>10, <2>11, <2>12
<1>4. CASE UNCHANGED vars
  <2>1. UNCHANGED <<node, names, source, phase, faulted, ticked, memory, python>>
    BY <1>4 DEF vars
  <2>2. Plain' => Plain
    BY <2>1 DEF Plain, AssignedOnce, Known
  <2>3. SameHosts => SameHosts'
    BY <1>0, <2>1 DEF SameHosts
  <2> QED
    BY <2>1, <2>2, <2>3 DEF MeaningInv
<1> QED
  BY <1>1, <1>2, <1>3, <1>4 DEF Next

LEMMA MeaningHolds == Spec => []MeaningInv
  BY MeaningInit, MeaningStep, TraceHolds, PythonHolds, PTL DEF Spec

(* In plain bodies that Python runs without raising, no phase of the       *)
(* compiled code reads a name before it is set: what a phase uses, its     *)
(* init_filter has loaded (variable_factory.py).                           *)
THEOREM NamesAreSet == Spec => []NoFault
<1>1. MeaningInv => NoFault
  BY DEF MeaningInv, NoFault
<1> QED
  BY <1>1, MeaningHolds, PTL

(* Compiled code does what the Python source says, for every declaration,  *)
(* every plain body of any length and every number of calls: outputs,      *)
(* state and input buffers hold the values, and the same outputs tick.     *)
THEOREM CodeMeansPython == Spec => []PythonMeaning
<1>1. RunInv /\ MeaningInv => PythonMeaning
  <2> SUFFICES ASSUME RunInv, MeaningInv, phase = "run", Plain, ~python.fault, python.leaks = {}
               PROVE  (\A c \in DOMAIN memory : memory[c].n = python.cells[c].n) /\ ticked = python.ticks
    BY DEF PythonMeaning
  <2>1. SameHosts /\ ticked = python.ticks /\ DOMAIN memory = Cells
    BY DEF MeaningInv, RunInv, CellsOK
  <2> QED
    BY <2>1 DEF SameHosts
<1> QED
  BY <1>1, MeaningHolds, TraceHolds, PTL

=============================================================================
