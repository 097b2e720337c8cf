--------------------------- MODULE LifecycleProofs ---------------------------
(***************************************************************************)
(* The containers of a node, for any number of state variables, arguments  *)
(* and names, any bodies the compiler accepts and any memory: no compiled  *)
(* function uses a container that is not allocated, the slots of the host  *)
(* own the state, and names keep their Python meaning until a call writes  *)
(* the variable of one name through another.                               *)
(***************************************************************************)
EXTENDS Lifecycle, FiniteSetTheorems, FunctionTheorems, SequenceTheorems, TLAPS

-----------------------------------------------------------------------------
(* The kinds of value the variables hold.  No function runs before the     *)
(* last body was visited.                                                  *)

Statements ==
  [kind : {"use", "bind", "new", "leave"}, name : Names \cup {Null}, source : Names \cup {Null},
   as : (Names \cup {Null}) \X (Names \cup {Null})]

Types ==
  /\ table \in [Names -> Names \cup {Null}]
  /\ code \in [Phases -> Seq(Statements)]
  /\ visiting \in 1 .. 4
  /\ live \subseteq Blocks /\ stateful \subseteq Blocks
  /\ slot \in [States -> Blocks \cup {Null}] /\ born \in [States -> Blocks \cup {Null}]
  /\ local \in [Names -> Blocks \cup {Null}] /\ env \in [Names -> Blocks \cup {Null}]
  /\ phase \in Phases \cup {"none"} /\ pc \in Nat \ {0}
  /\ Visiting => phase = "none"

-----------------------------------------------------------------------------
(* What the visit makes.  A name stands for a variable that stands for     *)
(* itself, as the names of the state and of the arguments do.              *)

Rooted ==
  /\ \A x \in Names : table[x] # Null => table[table[x]] = table[x]
  /\ \A x \in Names \ UserNames : table[x] = x

(* A statement reads a name that was assigned before it, through the       *)
(* variable of the name.                                                   *)
Reads(p, j) ==
  LET st == code[p][j]
  IN  st.kind \in {"use", "bind"} =>
        /\ st.as[2] \in Names /\ table[st.as[2]] # Null /\ st.source = table[st.as[2]]
        /\ st.kind = "use" => st.as[1] = st.as[2]
        /\ st.as[2] \in UserNames => \E i \in 1 .. j - 1 : code[p][i].as[1] = st.as[2]

(* It writes the variable of the name it assigns, or one nothing reads; a  *)
(* new container goes to a variable no name assigned before it in the body *)
(* stands for.                                                             *)
Writes(p, j) ==
  LET st == code[p][j]
  IN  /\ st.kind = "bind" =>
           /\ st.as[1] \in Names /\ st.name \in Names
           /\ st.name = table[st.as[1]] \/ st.source = table[st.as[1]]
      /\ st.kind = "new" =>
           /\ st.as[1] \in UserNames /\ st.name = st.as[1] /\ table[st.name] = st.name
           /\ \A i \in 1 .. j - 1 :
                code[p][i].as[1] \in Names /\ table[code[p][i].as[1]] = st.name => code[p][i].as[1] = st.name

Visited ==
  \A p \in Phases : \A j \in 1 .. Len(code[p]) :
    /\ code[p][j].kind = "leave" => code[p][j].as = <<Null, Null>>
    /\ code[p][j].kind # "leave" => code[p][j].as[1] \in Names /\ table[code[p][j].as[1]] # Null
    /\ Reads(p, j) /\ Writes(p, j)

-----------------------------------------------------------------------------
(* What the run keeps.  The function of a phase makes the arguments, sets  *)
(* up the state, runs the body and, in STOP, frees the state.              *)

Makes == Len(Constants)
Held == Len(StateVars)
Prologue == Makes + Held
BodyEnd == Prologue + Len(code[phase])

(* STOP frees the state.                                                   *)
Freeing == phase = "STOP" /\ pc > BodyEnd

(* The slots that hold a container, by how far the function has come.      *)
Holds(j) ==
  \/ phase = "START" /\ pc > Makes + j
  \/ phase = "EXECUTE"
  \/ phase = "STOP" /\ pc <= BodyEnd + j

Before == phase = "none" => live = {} /\ \A v \in States : slot[v] = Null

(* It is one START made, each slot has its own, and none was freed before  *)
(* its turn, unless STOP assigned a variable it was to free.               *)
SlotsHold ==
  \A j \in 1 .. Held : Holds(j) =>
    /\ slot[StateVars[j]] = born[StateVars[j]] /\ slot[StateVars[j]] \in stateful
    /\ (Freeing => StopFreesItsOwn) => slot[StateVars[j]] \in live
    /\ \A k \in 1 .. Held : Holds(k) /\ slot[StateVars[k]] = slot[StateVars[j]] => k = j

(* STOP then frees what the slots hold.                                    *)
FreesSlots ==
  phase = "STOP" /\ StopFreesItsOwn =>
    \A j \in 1 .. Held : pc > Makes + j /\ Holds(j) => local[StateVars[j]] = slot[StateVars[j]]

(* If STOP reaches its frees too, no container of the state is anywhere    *)
(* else.                                                                   *)
Owned ==
  StopKeeps =>
    /\ \A j \in 1 .. Held : slot[StateVars[j]] # Null => Holds(j)
    /\ \A b \in live \cap stateful : \E j \in 1 .. Held : slot[StateVars[j]] = b

(* The variable of a name that was assigned in this call holds a container *)
(* that is allocated, until STOP frees the state; and it is the one the    *)
(* name is bound to, if no variable was overwritten.                       *)
Assigned(x) == \E i \in 1 .. pc - 1 : visit_FunctionDef(phase)[i].as[1] = x

Alive == Running /\ ~Freeing => \A x \in Names : Assigned(x) => local[table[x]] \in live

Meant == Running /\ ~Overwritten => \A x \in Names : Assigned(x) => local[table[x]] = env[x]

RunInv == Before /\ SlotsHold /\ FreesSlots /\ Owned /\ Alive /\ Meant

LifeInv == Types /\ Rooted /\ Visited /\ RunInv

-----------------------------------------------------------------------------
(* The layout of the compiled function.                                    *)

Kinds == {"use", "bind", "new", "leave", "make", "init", "load", "free"}
Emitted == [kind : Kinds, name : Names \cup {Null}, source : Names \cup {Null},
            as : (Names \cup {Null}) \X (Names \cup {Null})]

LEMMA NamesOfNode ==
  /\ StateVars \in Seq(States) /\ Constants \in Seq(Names \ UserNames)
  /\ States \subseteq Names \ UserNames /\ UserNames \subseteq Names /\ Null \notin Names
  /\ Null \notin Blocks /\ Held \in Nat /\ Makes \in Nat
  /\ \A j \in 1 .. Held : StateVars[j] \in States
  /\ \A j \in 1 .. Makes : Constants[j] \in Names \ UserNames
  /\ \A v \in States : \E j \in 1 .. Held : StateVars[j] = v
  /\ \A i, j \in 1 .. Held : StateVars[i] = StateVars[j] => i = j
  /\ \A j \in 1 .. Makes : Constants[j] \notin States
  /\ \A v \in Names \ UserNames : v \in States \/ \E j \in 1 .. Makes : Constants[j] = v
<1>1. StateVars \in Seq(ToSet(StateVars)) /\ Constants \in Seq(ToSet(Constants))
  BY LifecycleAssumption
<1>2. /\ Held \in Nat /\ DOMAIN StateVars = 1 .. Held
      /\ Makes \in Nat /\ DOMAIN Constants = 1 .. Makes
  BY <1>1 DEF Held, Makes
<1>3. /\ Len(StateVars \o Constants) = Held + Makes
      /\ DOMAIN (StateVars \o Constants) = 1 .. Held + Makes
      /\ \A j \in 1 .. Held : (StateVars \o Constants)[j] = StateVars[j]
      /\ \A j \in 1 .. Makes : (StateVars \o Constants)[Held + j] = Constants[j]
  <2>1. /\ StateVars \in Seq(ToSet(StateVars) \cup ToSet(Constants))
        /\ Constants \in Seq(ToSet(StateVars) \cup ToSet(Constants))
    BY <1>1
  <2>2. /\ StateVars \o Constants \in Seq(ToSet(StateVars) \cup ToSet(Constants))
        /\ Len(StateVars \o Constants) = Held + Makes
        /\ \A i \in 1 .. Held + Makes : (StateVars \o Constants)[i] =
              IF i <= Held THEN StateVars[i] ELSE Constants[i - Held]
    BY <2>1, ConcatProperties, Zenon DEF Held, Makes
  <2> QED
    BY <1>2, <2>2
<1>4. ToSet(StateVars \o Constants) = States \cup ToSet(Constants)
  <2>1. ASSUME NEW x \in ToSet(StateVars \o Constants) PROVE x \in States \cup ToSet(Constants)
    <3>1. PICK i \in 1 .. Held + Makes : x = (StateVars \o Constants)[i]
      BY <1>3 DEF ToSet
    <3>2. CASE i <= Held
      BY <1>2, <1>3, <3>1, <3>2 DEF ToSet, States
    <3>3. CASE i > Held
      <4>1. i - Held \in 1 .. Makes /\ Held + (i - Held) = i
        BY <1>2, <3>3
      <4> QED
        BY <1>2, <1>3, <3>1, <4>1 DEF ToSet
    <3> QED
      BY <1>2, <3>2, <3>3
  <2>2. ASSUME NEW x \in States \cup ToSet(Constants) PROVE x \in ToSet(StateVars \o Constants)
    <3>1. CASE x \in States
      BY <1>2, <1>3, <3>1 DEF ToSet, States
    <3>2. CASE x \in ToSet(Constants)
      <4>1. PICK j \in 1 .. Makes : x = Constants[j]
        BY <1>2, <3>2 DEF ToSet
      <4>2. Held + j \in 1 .. Held + Makes
        BY <1>2
      <4> QED
        BY <1>3, <4>1, <4>2 DEF ToSet
    <3> QED
      BY <3>1, <3>2
  <2> QED
    BY <2>1, <2>2
<1>5. \A i, j \in 1 .. Held : StateVars[i] = StateVars[j] => i = j
  BY <1>2, <1>3, LifecycleAssumption DEF IsInjective
<1>6. Constants \in Seq(Names \ UserNames) /\ StateVars \in Seq(States)
  BY <1>1, <1>4, LifecycleAssumption DEF States, Names
<1>7. ASSUME NEW j \in 1 .. Makes, Constants[j] \in States PROVE FALSE
  <2>1. PICK i \in 1 .. Held : Constants[j] = StateVars[i]
    BY <1>2, <1>7 DEF States, ToSet
  <2>2. Held + j \in 1 .. Held + Makes /\ i \in 1 .. Held + Makes /\ Held + j # i
    BY <1>2
  <2>3. (StateVars \o Constants)[i] = (StateVars \o Constants)[Held + j]
    BY <1>3, <2>1
  <2> QED
    BY <1>3, <2>2, <2>3, LifecycleAssumption DEF IsInjective
<1>8. /\ States \subseteq Names \ UserNames /\ UserNames \subseteq Names /\ Null \notin Names
      /\ \A v \in Names \ UserNames : v \in States \/ \E j \in 1 .. Makes : Constants[j] = v
  BY <1>2, <1>4, LifecycleAssumption DEF States, Names, ToSet
<1> QED
  BY <1>2, <1>4, <1>5, <1>6, <1>7, <1>8, LifecycleAssumption DEF States, Names, ToSet

LEMMA ForEachIs ==
  ASSUME NEW names \in Seq(Names), NEW kind \in Kinds
  PROVE  /\ ForEach(kind, names) \in Seq(Emitted)
         /\ Len(ForEach(kind, names)) = Len(names)
         /\ \A j \in 1 .. Len(names) :
              ForEach(kind, names)[j] = Statement(kind, names[j], names[j], <<names[j], names[j]>>)
<1>1. DOMAIN names = 1 .. Len(names) /\ Len(names) \in Nat /\ \A j \in 1 .. Len(names) : names[j] \in Names
  OBVIOUS
<1>2. \A j \in 1 .. Len(names) : Statement(kind, names[j], names[j], <<names[j], names[j]>>) \in Emitted
  BY <1>1 DEF Statement, Emitted
<1>3. ForEach(kind, names) = [j \in 1 .. Len(names) |-> Statement(kind, names[j], names[j], <<names[j], names[j]>>)]
  BY <1>1 DEF ForEach
<1> HIDE DEF Emitted
<1>4. ForEach(kind, names) \in [1 .. Len(names) -> Emitted]
  BY <1>2, <1>3
<1> QED
  BY <1>1, <1>3, <1>4, SeqDef

(* Where the statements of the function of a phase are.                    *)
Made(x) == Statement("make", x, x, <<x, x>>)
SetUp(p, v) == Statement(IF p = "START" THEN "init" ELSE "load", v, v, <<v, v>>)
Freed(v) == Statement("free", v, v, <<v, v>>)
End(p) == Prologue + Len(code[p])

LaidOut(p) ==
  LET f == visit_FunctionDef(p)
  IN  /\ Len(code[p]) \in Nat
      /\ Len(f) = End(p) + (IF p = "STOP" THEN Held ELSE 0)
      /\ \A j \in 1 .. Makes : f[j] = Made(Constants[j])
      /\ \A j \in 1 .. Held : f[Makes + j] = SetUp(p, StateVars[j])
      /\ \A j \in 1 .. Len(code[p]) : f[Prologue + j] = code[p][j]
      /\ p = "STOP" => \A j \in 1 .. Held : f[End(p) + j] = Freed(StateVars[j])

(* The elements of a sequence made of two, and of three.                   *)
LEMMA Concat2 ==
  ASSUME NEW S, NEW a \in Seq(S), NEW b \in Seq(S)
  PROVE  /\ a \o b \in Seq(S) /\ Len(a \o b) = Len(a) + Len(b)
         /\ \A j \in 1 .. Len(a) : (a \o b)[j] = a[j]
         /\ \A j \in 1 .. Len(b) : (a \o b)[Len(a) + j] = b[j]
<1>1. /\ a \o b \in Seq(S) /\ Len(a \o b) = Len(a) + Len(b)
      /\ \A i \in 1 .. Len(a) + Len(b) : (a \o b)[i] = IF i <= Len(a) THEN a[i] ELSE b[i - Len(a)]
  BY ConcatProperties, Zenon
<1>2. Len(a) \in Nat /\ Len(b) \in Nat
  OBVIOUS
<1> DEFINE e == a \o b
           la == Len(a)
           lb == Len(b)
<1> HIDE DEF e, la, lb
<1>3. \A i \in 1 .. la + lb : e[i] = IF i <= la THEN a[i] ELSE b[i - la]
  BY <1>1 DEF e, la, lb
<1>4. la \in Nat /\ lb \in Nat
  BY <1>2 DEF la, lb
<1>5. ASSUME NEW j \in 1 .. la PROVE e[j] = a[j]
  BY <1>3, <1>4
<1>6. ASSUME NEW j \in 1 .. lb PROVE e[la + j] = b[j]
  <2> DEFINE i == la + j
  <2>1. i \in 1 .. la + lb /\ ~(i <= la) /\ i - la = j
    BY <1>4
  <2> HIDE DEF i
  <2>2. e[i] = b[j]
    BY <1>3, <2>1
  <2> QED
    BY <2>2 DEF i
<1> QED
  BY <1>1, <1>5, <1>6 DEF e, la, lb

LEMMA Concat3 ==
  ASSUME NEW S, NEW a \in Seq(S), NEW b \in Seq(S), NEW c \in Seq(S)
  PROVE  /\ a \o (b \o c) \in Seq(S) /\ Len(a \o (b \o c)) = Len(a) + Len(b) + Len(c)
         /\ \A j \in 1 .. Len(a) : (a \o (b \o c))[j] = a[j]
         /\ \A j \in 1 .. Len(b) : (a \o (b \o c))[Len(a) + j] = b[j]
         /\ \A j \in 1 .. Len(c) : (a \o (b \o c))[Len(a) + Len(b) + j] = c[j]
<1> DEFINE d == b \o c
           e == a \o d
           la == Len(a)
           lb == Len(b)
           lc == Len(c)
<1>1. d \in Seq(S)
  BY Concat2
<1>2. /\ Len(d) = lb + lc
      /\ \A j \in 1 .. lb : d[j] = b[j]
      /\ \A j \in 1 .. lc : d[lb + j] = c[j]
  BY Concat2
<1> HIDE DEF d
<1>3. e \in Seq(S)
  BY <1>1, Concat2
<1>4. /\ Len(e) = la + Len(d)
      /\ \A j \in 1 .. la : e[j] = a[j]
      /\ \A j \in 1 .. Len(d) : e[la + j] = d[j]
  BY <1>1, Concat2
<1>5. la \in Nat /\ lb \in Nat /\ lc \in Nat
  OBVIOUS
<1> HIDE DEF e, la, lb, lc
<1>6. ASSUME NEW j \in 1 .. lb PROVE e[la + j] = b[j]
  BY <1>2, <1>4, <1>5
<1>7. ASSUME NEW j \in 1 .. lc PROVE e[la + lb + j] = c[j]
  <2>1. lb + j \in 1 .. Len(d) /\ la + lb + j = la + (lb + j)
    BY <1>2, <1>5
  <2> QED
    BY <1>2, <1>4, <2>1
<1>8. Len(e) = la + lb + lc
  BY <1>2, <1>4, <1>5
<1> QED
  BY <1>3, <1>4, <1>6, <1>7, <1>8 DEF d, e, la, lb, lc

LEMMA Layout ==
  ASSUME Types, NEW p \in Phases
  PROVE  LaidOut(p)
<1> DEFINE a == ForEach("make", Constants)
           b == ForEach(IF p = "START" THEN "init" ELSE "load", StateVars)
           c == code[p]
           d == ForEach("free", StateVars)
           n == Len(c)
<1>1. Constants \in Seq(Names) /\ StateVars \in Seq(Names)
  BY NamesOfNode
<1>2. a \in Seq(Emitted) /\ b \in Seq(Emitted) /\ d \in Seq(Emitted)
  BY <1>1, ForEachIs DEF Kinds
<1>3. /\ Len(a) = Makes /\ \A j \in 1 .. Makes : a[j] = Made(Constants[j])
      /\ Len(b) = Held /\ \A j \in 1 .. Held : b[j] = SetUp(p, StateVars[j])
      /\ Len(d) = Held /\ \A j \in 1 .. Held : d[j] = Freed(StateVars[j])
  BY <1>1, ForEachIs DEF Kinds, Makes, Held, Made, SetUp, Freed
<1>4. c \in Seq(Emitted)
  <2>1. Statements \subseteq Emitted
    BY DEF Statements, Emitted, Kinds
  <2> QED
    BY <2>1 DEF Types
<1>5. n \in Nat /\ Makes \in Nat /\ Held \in Nat
  BY <1>4, NamesOfNode
<1>6. visit_FunctionDef(p) = IF p = "STOP" THEN a \o (b \o c \o d) ELSE a \o (b \o c)
  BY DEF Phases, visit_FunctionDef, top_body, emit_container_state_init, emit_container_state_load,
         emit_container_state_free
<1> HIDE DEF a, b, c, d, Emitted
<1>7. CASE p # "STOP"
  <2> DEFINE f == a \o (b \o c)
  <2>1. /\ Len(f) = Makes + Held + n
        /\ \A j \in 1 .. Makes : f[j] = a[j]
        /\ \A j \in 1 .. Held : f[Makes + j] = b[j]
        /\ \A j \in 1 .. n : f[Makes + Held + j] = c[j]
    <3>1. /\ Len(f) = Len(a) + Len(b) + Len(c)
          /\ \A j \in 1 .. Len(a) : f[j] = a[j]
          /\ \A j \in 1 .. Len(b) : f[Len(a) + j] = b[j]
          /\ \A j \in 1 .. Len(c) : f[Len(a) + Len(b) + j] = c[j]
      <4>1. a \in Seq(Emitted) /\ b \in Seq(Emitted) /\ c \in Seq(Emitted)
        BY <1>2, <1>4
      <4> QED
        BY <4>1, Concat3, SMTT(60)
    <3> QED
      BY <1>3, <3>1
  <2> HIDE DEF f, n
  <2>2. visit_FunctionDef(p) = f
    BY <1>6, <1>7 DEF f
  <2>3. /\ Len(code[p]) = n /\ Len(f) = End(p)
        /\ \A j \in 1 .. n : f[Prologue + j] = code[p][j]
    BY <2>1 DEF End, Prologue, c, n
  <2> QED
    BY <1>3, <1>5, <1>7, <2>1, <2>2, <2>3 DEF LaidOut
<1>8. CASE p = "STOP"
  <2> DEFINE e == c \o d
             f == a \o (b \o e)
  <2>1. e \in Seq(Emitted)
    BY <1>2, <1>4, Concat2
  <2>2. /\ Len(e) = n + Held
        /\ \A j \in 1 .. n : e[j] = c[j]
        /\ \A j \in 1 .. Held : e[n + j] = d[j]
    <3>1. /\ Len(e) = Len(c) + Len(d)
          /\ \A j \in 1 .. Len(c) : e[j] = c[j]
          /\ \A j \in 1 .. Len(d) : e[Len(c) + j] = d[j]
      BY <1>2, <1>4, Concat2
    <3> QED
      BY <1>3, <3>1
  <2>3. (b \o c) \o d = b \o e
    BY <1>2, <1>4, ConcatAssociative
  <2>4. visit_FunctionDef(p) = f
    BY <1>6, <1>8, <2>3
  <2> HIDE DEF e, n
  <2>5. /\ Len(f) = Makes + Held + Len(e)
        /\ \A j \in 1 .. Makes : f[j] = a[j]
        /\ \A j \in 1 .. Held : f[Makes + j] = b[j]
        /\ \A j \in 1 .. Len(e) : f[Makes + Held + j] = e[j]
    <3>1. /\ Len(f) = Len(a) + Len(b) + Len(e)
          /\ \A j \in 1 .. Len(a) : f[j] = a[j]
          /\ \A j \in 1 .. Len(b) : f[Len(a) + j] = b[j]
          /\ \A j \in 1 .. Len(e) : f[Len(a) + Len(b) + j] = e[j]
      <4>1. a \in Seq(Emitted) /\ b \in Seq(Emitted) /\ e \in Seq(Emitted)
        BY <1>2, <2>1
      <4> QED
        BY <4>1, Concat3, SMTT(60)
    <3> QED
      BY <1>3, <3>1
  <2> HIDE DEF f
  <2>6. ASSUME NEW j \in 1 .. n PROVE f[Makes + Held + j] = c[j]
    BY <1>5, <2>2, <2>5
  <2>7. ASSUME NEW j \in 1 .. Held PROVE f[Makes + Held + n + j] = d[j]
    <3>1. n + j \in 1 .. Len(e) /\ Makes + Held + n + j = Makes + Held + (n + j)
      BY <1>5, <2>2
    <3> QED
      BY <2>2, <2>5, <3>1
  <2>8. Len(f) = Makes + Held + n + Held
    BY <1>5, <2>2, <2>5
  <2>9. /\ Len(code[p]) = n /\ Len(f) = End(p) + Held
        /\ \A j \in 1 .. n : f[Prologue + j] = code[p][j]
        /\ \A j \in 1 .. Held : f[End(p) + j] = d[j]
    BY <2>6, <2>7, <2>8 DEF End, Prologue, c, n
  <2> QED
    BY <1>3, <1>5, <1>8, <2>4, <2>5, <2>9 DEF LaidOut
<1> QED
  BY <1>7, <1>8

LEMMA Where ==
  ASSUME Types, NEW p \in Phases, NEW j \in 1 .. Len(visit_FunctionDef(p))
  PROVE  \/ j \in 1 .. Makes /\ visit_FunctionDef(p)[j] = Made(Constants[j])
         \/ \E i \in 1 .. Held : j = Makes + i /\ visit_FunctionDef(p)[j] = SetUp(p, StateVars[i])
         \/ \E i \in 1 .. Len(code[p]) : j = Prologue + i /\ visit_FunctionDef(p)[j] = code[p][i]
         \/ p = "STOP" /\ \E i \in 1 .. Held : j = End(p) + i /\ visit_FunctionDef(p)[j] = Freed(StateVars[i])
<1> DEFINE f == visit_FunctionDef(p)
           n == Len(code[p])
<1>1. LaidOut(p)
  BY Layout
<1>2. n \in Nat /\ Makes \in Nat /\ Held \in Nat /\ Prologue = Makes + Held /\ End(p) = Prologue + n
  BY <1>1, NamesOfNode DEF LaidOut, Prologue, End
<1>3. Len(f) = End(p) + (IF p = "STOP" THEN Held ELSE 0) /\ j \in 1 .. Len(f)
  BY <1>1 DEF LaidOut
<1> HIDE DEF f, n
<1>4. CASE j <= Makes
  BY <1>1, <1>2, <1>3, <1>4 DEF LaidOut, f
<1>5. CASE Makes < j /\ j <= Prologue
  <2>1. j - Makes \in 1 .. Held /\ j = Makes + (j - Makes)
    BY <1>2, <1>3, <1>5
  <2>2. f[Makes + (j - Makes)] = SetUp(p, StateVars[j - Makes])
    BY <1>1, <2>1 DEF LaidOut, f
  <2> QED
    BY <2>1, <2>2 DEF f
<1>6. CASE Prologue < j /\ j <= End(p)
  <2>1. j - Prologue \in 1 .. n /\ j = Prologue + (j - Prologue)
    BY <1>2, <1>3, <1>6
  <2>2. f[Prologue + (j - Prologue)] = code[p][j - Prologue]
    BY <1>1, <2>1 DEF LaidOut, f, n
  <2> QED
    BY <2>1, <2>2 DEF f, n
<1>7. CASE End(p) < j
  <2>1. p = "STOP" /\ j - End(p) \in 1 .. Held /\ j = End(p) + (j - End(p))
    BY <1>2, <1>3, <1>7
  <2>2. f[End(p) + (j - End(p))] = Freed(StateVars[j - End(p)])
    BY <1>1, <2>1 DEF LaidOut, f
  <2> QED
    BY <2>1, <2>2 DEF f
<1> QED
  BY <1>2, <1>3, <1>4, <1>5, <1>6, <1>7

(* A statement that reads a name finds it assigned before.                 *)
LEMMA Sources ==
  ASSUME Types, Rooted, Visited, NEW p \in Phases, NEW j \in 1 .. Len(visit_FunctionDef(p)),
         visit_FunctionDef(p)[j].kind \in {"use", "bind", "free"}
  PROVE  LET st == visit_FunctionDef(p)[j]
         IN  /\ st.as[2] \in Names /\ st.source = table[st.as[2]] /\ st.source \in Names
             /\ \E i \in 1 .. j - 1 : visit_FunctionDef(p)[i].as[1] = st.as[2]
             /\ st.kind \in {"use", "free"} => st.as[1] = st.as[2]
<1> DEFINE f == visit_FunctionDef(p)
           n == Len(code[p])
<1>1. LaidOut(p)
  BY Layout
<1>2. n \in Nat /\ Makes \in Nat /\ Held \in Nat /\ Prologue = Makes + Held /\ End(p) = Prologue + n
  BY <1>1, NamesOfNode DEF LaidOut, Prologue, End
<1>3. ASSUME NEW v \in Names \ UserNames PROVE \E i \in 1 .. Prologue : f[i].as[1] = v
  <2>1. CASE v \in States
    <3>1. PICK i \in 1 .. Held : StateVars[i] = v
      BY <2>1, NamesOfNode
    <3>2. f[Makes + i] = SetUp(p, v)
      BY <1>1, <3>1 DEF LaidOut
    <3>3. Makes + i \in 1 .. Prologue /\ SetUp(p, v).as[1] = v
      BY <1>2 DEF SetUp, Statement
    <3> QED
      BY <3>2, <3>3
  <2>2. CASE \E i \in 1 .. Makes : Constants[i] = v
    <3>1. PICK i \in 1 .. Makes : Constants[i] = v
      BY <2>2
    <3>2. f[i] = Made(v)
      BY <1>1, <3>1 DEF LaidOut
    <3>3. i \in 1 .. Prologue /\ Made(v).as[1] = v
      BY <1>2 DEF Made, Statement
    <3> QED
      BY <3>2, <3>3
  <2> QED
    BY <2>1, <2>2, NamesOfNode
<1>4. ASSUME NEW v \in States PROVE v \in Names \ UserNames /\ table[v] = v
  BY NamesOfNode DEF Rooted
<1>5. CASE \E i \in 1 .. Held : j = End(p) + i /\ f[j] = Freed(StateVars[i])
  <2>1. PICK i \in 1 .. Held : j = End(p) + i /\ f[j] = Freed(StateVars[i])
    BY <1>5
  <2> DEFINE v == StateVars[i]
  <2>2. v \in States
    BY NamesOfNode
  <2>3. f[j].source = v /\ f[j].as[1] = v /\ f[j].as[2] = v
    BY <2>1 DEF Freed, Statement
  <2> HIDE DEF v, f, n
  <2>4. 1 .. Prologue \subseteq 1 .. j - 1
    BY <1>2, <2>1
  <2> QED
    BY <1>3, <1>4, <2>2, <2>3, <2>4 DEF f
<1>6. CASE \E i \in 1 .. n : j = Prologue + i /\ f[j] = code[p][i]
  <2>1. PICK i \in 1 .. n : j = Prologue + i /\ f[j] = code[p][i]
    BY <1>6
  <2>2. Reads(p, i) /\ f[j] \in Statements
    BY <2>1 DEF Visited, Types
  <2>3. f[j].kind \in {"use", "bind"}
    BY <2>2 DEF Statements
  <2>4. /\ f[j].as[2] \in Names /\ table[f[j].as[2]] # Null /\ f[j].source = table[f[j].as[2]]
        /\ f[j].kind = "use" => f[j].as[1] = f[j].as[2]
        /\ f[j].as[2] \in UserNames => \E k \in 1 .. i - 1 : code[p][k].as[1] = f[j].as[2]
    BY <2>1, <2>2, <2>3 DEF Reads
  <2>5. f[j].source \in Names
    BY <2>4 DEF Types
  <2>6. CASE f[j].as[2] \in UserNames
    <3>1. PICK k \in 1 .. i - 1 : code[p][k].as[1] = f[j].as[2]
      BY <2>4, <2>6
    <3>2. k \in 1 .. n /\ Prologue + k \in 1 .. j - 1
      BY <1>2, <2>1
    <3>3. f[Prologue + k] = code[p][k]
      BY <1>1, <3>2 DEF LaidOut
    <3> QED
      BY <2>3, <2>4, <2>5, <3>1, <3>2, <3>3
  <2>7. CASE f[j].as[2] \notin UserNames
    <3>1. 1 .. Prologue \subseteq 1 .. j - 1
      BY <1>2, <2>1
    <3> QED
      BY <1>3, <2>3, <2>4, <2>5, <2>7, <3>1
  <2> QED
    BY <2>6, <2>7
<1>7. CASE j \in 1 .. Makes /\ f[j] = Made(Constants[j])
  BY <1>7 DEF Made, Statement
<1>8. CASE \E i \in 1 .. Held : j = Makes + i /\ f[j] = SetUp(p, StateVars[i])
  BY <1>8 DEF SetUp, Statement
<1> QED
  BY <1>5, <1>6, <1>7, <1>8, Where

(* A statement that makes or loads a container.                            *)
LEMMA Targets ==
  ASSUME Types, Rooted, Visited, NEW p \in Phases, NEW j \in 1 .. Len(visit_FunctionDef(p)),
         visit_FunctionDef(p)[j].kind \in {"make", "new", "init", "load"}
  PROVE  LET st == visit_FunctionDef(p)[j]
         IN  /\ st.as[1] = st.name /\ st.name \in Names /\ table[st.name] = st.name
             /\ st.kind \in {"make", "new"} => st.name \notin States
             /\ \A i \in 1 .. j - 1 :
                  /\ visit_FunctionDef(p)[i].as[1] \in Names
                  /\ table[visit_FunctionDef(p)[i].as[1]] = st.name
                  => visit_FunctionDef(p)[i].as[1] = st.name
<1> DEFINE f == visit_FunctionDef(p)
           n == Len(code[p])
<1>1. LaidOut(p)
  BY Layout
<1>2. n \in Nat /\ Makes \in Nat /\ Held \in Nat /\ Prologue = Makes + Held /\ End(p) = Prologue + n
  BY <1>1, NamesOfNode DEF LaidOut, Prologue, End
<1> HIDE DEF f, n
<1>3. ASSUME NEW i \in 1 .. Prologue
      PROVE  /\ f[i].as[1] \in Names \ UserNames /\ table[f[i].as[1]] = f[i].as[1]
             /\ f[i].name = f[i].as[1]
  <2>1. CASE i <= Makes
    <3>1. i \in 1 .. Makes
      BY <1>2, <2>1
    <3>2. f[i] = Made(Constants[i]) /\ Constants[i] \in Names \ UserNames
      BY <1>1, <3>1, NamesOfNode DEF LaidOut, f
    <3> QED
      BY <3>2 DEF Made, Statement, Rooted
  <2>2. CASE i > Makes
    <3>1. i - Makes \in 1 .. Held /\ Makes + (i - Makes) = i
      BY <1>2, <2>2
    <3> DEFINE v == StateVars[i - Makes]
    <3>2. f[Makes + (i - Makes)] = SetUp(p, v) /\ v \in Names \ UserNames
      BY <1>1, <3>1, NamesOfNode DEF LaidOut, f
    <3> HIDE DEF v
    <3>3. f[i] = SetUp(p, v)
      BY <3>1, <3>2
    <3> QED
      BY <3>2, <3>3 DEF SetUp, Statement, Rooted
  <2> QED
    BY <1>2, <2>1, <2>2
<1>4. CASE j \in 1 .. Makes /\ f[j] = Made(Constants[j])
  <2>1. Constants[j] \in Names \ States /\ f[j].kind = "make"
    BY <1>4, NamesOfNode DEF Made, Statement
  <2>2. j \in 1 .. Prologue /\ \A i \in 1 .. j - 1 : i \in 1 .. Prologue
    BY <1>2, <1>4
  <2>3. f[j].name = Constants[j]
    BY <1>4 DEF Made, Statement
  <2> QED
    BY <1>3, <2>1, <2>2, <2>3 DEF f
<1>5. CASE \E i \in 1 .. Held : j = Makes + i /\ f[j] = SetUp(p, StateVars[i])
  <2>1. f[j].kind \notin {"make", "new"}
    BY <1>5 DEF SetUp, Statement
  <2>2. j \in 1 .. Prologue /\ \A i \in 1 .. j - 1 : i \in 1 .. Prologue
    BY <1>2, <1>5
  <2> QED
    BY <1>3, <2>1, <2>2 DEF f
<1>6. CASE \E i \in 1 .. n : j = Prologue + i /\ f[j] = code[p][i]
  <2>1. PICK i \in 1 .. n : j = Prologue + i /\ f[j] = code[p][i]
    BY <1>6
  <2>2. Writes(p, i) /\ f[j] \in Statements
    BY <2>1 DEF Visited, Types, n
  <2>3. f[j].kind = "new"
    BY <2>2 DEF Statements, f
  <2>4. /\ f[j].as[1] \in UserNames /\ f[j].name = f[j].as[1] /\ table[f[j].name] = f[j].name
        /\ \A k \in 1 .. i - 1 :
             code[p][k].as[1] \in Names /\ table[code[p][k].as[1]] = f[j].name => code[p][k].as[1] = f[j].name
    BY <2>1, <2>2, <2>3 DEF Writes
  <2>5. ASSUME NEW l \in 1 .. j - 1, f[l].as[1] \in Names, table[f[l].as[1]] = f[j].name
        PROVE  f[l].as[1] = f[j].name
    <3>1. CASE l <= Prologue
      <4>1. l \in 1 .. Prologue
        BY <1>2, <3>1
      <4> QED
        BY <1>3, <2>5, <4>1
    <3>2. CASE l > Prologue
      <4>1. l - Prologue \in 1 .. i - 1 /\ l - Prologue \in 1 .. n /\ Prologue + (l - Prologue) = l
        BY <1>2, <2>1, <3>2
      <4>2. f[Prologue + (l - Prologue)] = code[p][l - Prologue]
        BY <1>1, <4>1 DEF LaidOut, f, n
      <4> QED
        BY <2>4, <2>5, <4>1, <4>2
    <3> QED
      BY <1>2, <3>1, <3>2
  <2>6. f[j].name \notin States /\ f[j].name \in Names
    BY <2>4, NamesOfNode
  <2> QED
    BY <2>4, <2>5, <2>6 DEF f
<1>7. CASE \E i \in 1 .. Held : j = End(p) + i /\ f[j] = Freed(StateVars[i])
  BY <1>7 DEF Freed, Statement, f
<1> QED
  BY <1>4, <1>5, <1>6, <1>7, Where DEF f, n

(* A statement that assigns a container to a name.                         *)
LEMMA BindTargets ==
  ASSUME Types, Rooted, Visited, NEW p \in Phases, NEW j \in 1 .. Len(visit_FunctionDef(p)),
         visit_FunctionDef(p)[j].kind = "bind"
  PROVE  LET st == visit_FunctionDef(p)[j]
         IN  /\ st.as[1] \in Names /\ st.name \in Names
             /\ st.name = table[st.as[1]] \/ st.source = table[st.as[1]]
             /\ \E i \in 1 .. Len(code[p]) : st = code[p][i]
<1> DEFINE f == visit_FunctionDef(p)
<1>1. CASE \E i \in 1 .. Len(code[p]) : j = Prologue + i /\ f[j] = code[p][i]
  <2>1. PICK i \in 1 .. Len(code[p]) : f[j] = code[p][i]
    BY <1>1
  <2>2. Writes(p, i)
    BY DEF Visited
  <2> QED
    BY <2>1, <2>2 DEF Writes
<1>2. CASE j \in 1 .. Makes /\ f[j] = Made(Constants[j])
  BY <1>2 DEF Made, Statement
<1>3. CASE \E i \in 1 .. Held : j = Makes + i /\ f[j] = SetUp(p, StateVars[i])
  BY <1>3 DEF SetUp, Statement
<1>4. CASE \E i \in 1 .. Held : j = End(p) + i /\ f[j] = Freed(StateVars[i])
  BY <1>4 DEF Freed, Statement
<1> QED
  BY <1>1, <1>2, <1>3, <1>4, Where

-----------------------------------------------------------------------------
(* The beginning and the visit.                                            *)

LEMMA NothingRan ==
  ASSUME phase = "none", live = {}, \A v \in States : slot[v] = Null
  PROVE  RunInv
<1>1. ~Running /\ ~Freeing /\ \A j : ~Holds(j)
  BY DEF Running, Freeing, Holds, Phases
<1>2. \A j \in 1 .. Held : StateVars[j] \in States
  BY NamesOfNode
<1>3. Before /\ SlotsHold /\ FreesSlots /\ Owned /\ Alive /\ Meant
  BY <1>1, <1>2 DEF Before, SlotsHold, FreesSlots, Owned, Alive, Meant
<1> QED
  BY <1>3 DEF RunInv

LEMMA InitHolds == Init => LifeInv
<1> SUFFICES ASSUME Init PROVE LifeInv
  OBVIOUS
<1>1. /\ phase = "none" /\ pc = 1 /\ visiting = 1 /\ live = {} /\ stateful = {}
      /\ slot = [v \in States |-> Null] /\ born = [v \in States |-> Null]
      /\ local = [v \in Names |-> Null] /\ env = [v \in Names |-> Null]
      /\ table = [n \in Names |-> IF n \in UserNames THEN Null ELSE n]
      /\ code = [p \in Phases |-> <<>>]
  BY DEF Init
<1>2. Types
  <2>1. code \in [Phases -> Seq(Statements)]
    <3> HIDE DEF Statements
    <3> QED
      BY <1>1
  <2>2. table \in [Names -> Names \cup {Null}]
    BY <1>1, NamesOfNode
  <2>3. visiting \in 1 .. 4 /\ pc \in Nat \ {0}
    BY <1>1
  <2> QED
    BY <1>1, <2>1, <2>2, <2>3 DEF Types
<1>3. Rooted
  BY <1>1, NamesOfNode DEF Rooted
<1>4. Visited
  BY <1>1 DEF Visited
<1>5. RunInv
  BY <1>1, NothingRan DEF Running, Phases
<1> QED
  BY <1>2, <1>3, <1>4, <1>5 DEF LifeInv

(* Nothing runs while the bodies are visited.                              *)
LEMMA VisitLeavesRun ==
  ASSUME LifeInv, Visiting, UNCHANGED <<live, slot, local, phase, pc, history>>
  PROVE  RunInv'
<1>1. /\ phase = "none" /\ phase' = "none" /\ slot' = slot /\ live' = live
      /\ live = {} /\ \A v \in States : slot[v] = Null
  BY DEF LifeInv, Types, RunInv, Before
<1>2. ~Running' /\ ~Freeing' /\ \A j : ~Holds(j)'
  BY <1>1 DEF Running, Freeing, Holds, Phases
<1>3. \A j \in 1 .. Held : StateVars[j] \in States
  BY NamesOfNode
<1>4. Before' /\ SlotsHold' /\ FreesSlots' /\ Alive' /\ Meant'
  BY <1>1, <1>2 DEF Before, SlotsHold, FreesSlots, Alive, Meant
<1>5. Owned'
  BY <1>1, <1>3 DEF Owned
<1> QED
  BY <1>4, <1>5 DEF RunInv

(* The statement st is added to the body that is visited, and the table    *)
(* gives variables to names that had none.                                 *)
Grows == \A x \in Names : table[x] # Null => table'[x] = table[x]

Fits(st) ==
  /\ st \in Statements
  /\ st.kind = "leave" => st.as = <<Null, Null>>
  /\ st.kind # "leave" => st.as[1] \in Names /\ table'[st.as[1]] # Null
  /\ st.kind \in {"use", "bind"} =>
       /\ st.as[2] \in Names /\ table'[st.as[2]] # Null /\ st.source = table'[st.as[2]]
       /\ st.kind = "use" => st.as[1] = st.as[2]
       /\ st.as[2] \in UserNames => \E i \in 1 .. Len(code[Body]) : code[Body][i].as[1] = st.as[2]
  /\ st.kind = "bind" =>
       /\ st.as[1] \in Names /\ st.name \in Names
       /\ st.name = table'[st.as[1]] \/ st.source = table'[st.as[1]]
  /\ st.kind = "new" =>
       /\ st.as[1] \in UserNames /\ st.name = st.as[1] /\ table'[st.name] = st.name
       /\ \A x \in Names : table'[x] = st.name => x = st.name

LEMMA BodyIsPhase ==
  ASSUME Types, Visiting PROVE Body \in Phases
<1>1. visiting \in 1 .. 3
  BY DEF Types, Visiting, BodyOrder
<1> QED
  BY <1>1 DEF Body, BodyOrder, Phases

LEMMA Emitting ==
  ASSUME LifeInv, NEW st, Emit(st), table' \in [Names -> Names \cup {Null}], Grows, Fits(st)
  PROVE  Types' /\ Visited'
<1> USE DEF LifeInv
<1> DEFINE n == Len(code[Body])
<1>1. Body \in Phases /\ st \in Statements /\ Visiting
  BY BodyIsPhase DEF Emit, Fits
<1>2. code \in [Phases -> Seq(Statements)]
  BY DEF Types
<1>3. code' = [code EXCEPT ![Body] = Append(code[Body], st)]
  BY DEF Emit
<1> HIDE DEF Statements
<1>4. code' \in [Phases -> Seq(Statements)]
  BY <1>1, <1>2, <1>3
<1>5. Types'
  BY <1>4 DEF Types, Emit, Visiting, history
<1>6. /\ n \in Nat /\ Len(code'[Body]) = n + 1 /\ code'[Body][n + 1] = st
      /\ \A i \in 1 .. n : code'[Body][i] = code[Body][i]
      /\ \A p \in Phases \ {Body} : code'[p] = code[p]
  BY <1>1, <1>2, <1>3
<1> HIDE DEF n
<1>7. ASSUME NEW p \in Phases, NEW j \in 1 .. Len(code[p])
      PROVE  /\ code'[p][j] = code[p][j]
             /\ \A i \in 1 .. j - 1 : code'[p][i] = code[p][i] /\ i \in 1 .. Len(code[p])
  <2>1. Len(code[p]) \in Nat
    BY <1>2
  <2> QED
    BY <1>6, <2>1 DEF n
<1>8. ASSUME NEW p \in Phases, NEW j \in 1 .. Len(code'[p]) PROVE j \in 1 .. Len(code[p]) \/ (p = Body /\ j = n + 1)
  BY <1>6 DEF n
<1>9. ASSUME NEW p \in Phases, NEW j \in 1 .. Len(code[p])
      PROVE  /\ code'[p][j].kind = "leave" => code'[p][j].as = <<Null, Null>>
             /\ code'[p][j].kind # "leave" => code'[p][j].as[1] \in Names /\ table'[code'[p][j].as[1]] # Null
             /\ Reads(p, j)' /\ Writes(p, j)'
  <2>1. ASSUME NEW i \in 1 .. Len(code[p]), code[p][i].as[1] \in Names
        PROVE  table'[code[p][i].as[1]] = table[code[p][i].as[1]] /\ table[code[p][i].as[1]] # Null
    <3>1. code[p][i].kind # "leave"
      BY <2>1, NamesOfNode DEF Visited
    <3> QED
      BY <2>1, <3>1 DEF Visited, Grows
  <2>2. /\ code[p][j].kind = "leave" => code[p][j].as = <<Null, Null>>
        /\ code[p][j].kind # "leave" => code[p][j].as[1] \in Names /\ table[code[p][j].as[1]] # Null
        /\ Reads(p, j) /\ Writes(p, j)
    BY DEF Visited
  <2>3. Reads(p, j)'
    BY <1>7, <2>2 DEF Reads, Grows
  <2>4. Writes(p, j)'
    <3> DEFINE st1 == code[p][j]
    <3>1. /\ st1.kind = "bind" =>
               /\ st1.as[1] \in Names /\ st1.name \in Names
               /\ st1.name = table[st1.as[1]] \/ st1.source = table[st1.as[1]]
          /\ st1.kind = "new" =>
               /\ st1.as[1] \in UserNames /\ st1.name = st1.as[1] /\ table[st1.name] = st1.name
               /\ \A i \in 1 .. j - 1 :
                    code[p][i].as[1] \in Names /\ table[code[p][i].as[1]] = st1.name => code[p][i].as[1] = st1.name
      BY <2>2 DEF Writes
    <3>2. st1.kind \in {"bind", "new"} => st1.as[1] \in Names /\ table'[st1.as[1]] = table[st1.as[1]]
      BY <2>1, <3>1, NamesOfNode
    <3>3. /\ st1.kind = "bind" =>
               /\ st1.as[1] \in Names /\ st1.name \in Names
               /\ st1.name = table'[st1.as[1]] \/ st1.source = table'[st1.as[1]]
          /\ st1.kind = "new" =>
               /\ st1.as[1] \in UserNames /\ st1.name = st1.as[1] /\ table'[st1.name] = st1.name
               /\ \A i \in 1 .. j - 1 :
                    code[p][i].as[1] \in Names /\ table'[code[p][i].as[1]] = st1.name => code[p][i].as[1] = st1.name
      BY <1>7, <2>1, <3>1, <3>2
    <3> QED
      BY <1>7, <3>3 DEF Writes
  <2> QED
    BY <1>7, <2>2, <2>3, <2>4 DEF Grows
<1>10. /\ st.kind = "leave" => st.as = <<Null, Null>>
       /\ st.kind # "leave" => st.as[1] \in Names /\ table'[st.as[1]] # Null
       /\ \A i \in 1 .. n : code'[Body][i] = code[Body][i]
       /\ st.kind \in {"use", "bind"} =>
            /\ st.as[2] \in Names /\ table'[st.as[2]] # Null /\ st.source = table'[st.as[2]]
            /\ st.kind = "use" => st.as[1] = st.as[2]
            /\ st.as[2] \in UserNames => \E i \in 1 .. n : code'[Body][i].as[1] = st.as[2]
       /\ st.kind = "bind" =>
            /\ st.as[1] \in Names /\ st.name \in Names
            /\ st.name = table'[st.as[1]] \/ st.source = table'[st.as[1]]
       /\ st.kind = "new" =>
            /\ st.as[1] \in UserNames /\ st.name = st.as[1] /\ table'[st.name] = st.name
            /\ \A i \in 1 .. n :
                 code'[Body][i].as[1] \in Names /\ table'[code'[Body][i].as[1]] = st.name
                 => code'[Body][i].as[1] = st.name
  BY <1>6 DEF Fits, n
<1>11. /\ code'[Body][n + 1].kind = "leave" => code'[Body][n + 1].as = <<Null, Null>>
       /\ code'[Body][n + 1].kind # "leave" =>
            code'[Body][n + 1].as[1] \in Names /\ table'[code'[Body][n + 1].as[1]] # Null
  BY <1>6, <1>10
<1> DEFINE q == Body
<1>12. /\ q \in Phases /\ code'[q][n + 1] = st /\ n + 1 - 1 = n
  BY <1>1, <1>6
<1>13. /\ st.kind \in {"use", "bind"} =>
            /\ st.as[2] \in Names /\ table'[st.as[2]] # Null /\ st.source = table'[st.as[2]]
            /\ st.kind = "use" => st.as[1] = st.as[2]
            /\ st.as[2] \in UserNames => \E i \in 1 .. n : code'[q][i].as[1] = st.as[2]
       /\ st.kind = "bind" =>
            /\ st.as[1] \in Names /\ st.name \in Names
            /\ st.name = table'[st.as[1]] \/ st.source = table'[st.as[1]]
       /\ st.kind = "new" =>
            /\ st.as[1] \in UserNames /\ st.name = st.as[1] /\ table'[st.name] = st.name
            /\ \A i \in 1 .. n :
                 code'[q][i].as[1] \in Names /\ table'[code'[q][i].as[1]] = st.name
                 => code'[q][i].as[1] = st.name
  BY <1>10
<1>14. ASSUME NEW p \in Phases, p = Body, NEW j, j = n + 1
       PROVE  /\ code'[p][j].kind = "leave" => code'[p][j].as = <<Null, Null>>
              /\ code'[p][j].kind # "leave" => code'[p][j].as[1] \in Names /\ table'[code'[p][j].as[1]] # Null
              /\ Reads(p, j)' /\ Writes(p, j)'
  <2>1. code'[p][j] = st /\ p = q /\ j - 1 = n
    BY <1>6, <1>12, <1>14
  <2> HIDE DEF q
  <2>2. Reads(p, j)'
    BY <1>13, <2>1 DEF Reads
  <2>3. Writes(p, j)'
    BY <1>13, <2>1 DEF Writes
  <2> QED
    BY <1>11, <1>14, <2>2, <2>3
<1>15. Visited'
  BY <1>8, <1>9, <1>14 DEF Visited
<1> QED
  BY <1>5, <1>15

(* A body reads a name of its own after it assigned it.                    *)
LEMMA DefinedNames ==
  ASSUME LifeInv, Visiting, NEW x \in Names, Defined(x)
  PROVE  /\ table[x] \in Names /\ table[table[x]] = table[x] /\ table[x] # Null
         /\ x \in UserNames => \E i \in 1 .. Len(code[Body]) : code[Body][i].as[1] = x
<1>1. table[x] # Null /\ table \in [Names -> Names \cup {Null}] /\ table[table[x]] = table[x]
  BY DEF LifeInv, Types, Rooted, Defined
<1>2. DOMAIN code[Body] = 1 .. Len(code[Body])
  BY BodyIsPhase DEF LifeInv, Types
<1> QED
  BY <1>1, <1>2 DEF Defined

LEMMA VisitNameStep ==
  ASSUME LifeInv, NEW x \in Names, VisitName(x)
  PROVE  LifeInv'
<1> DEFINE st == Statement("use", table[x], table[x], <<x, x>>)
<1>1. Visiting /\ Defined(x) /\ Emit(st) /\ table' = table
  BY DEF VisitName
<1>2. /\ table[x] \in Names /\ table[x] # Null
      /\ x \in UserNames => \E i \in 1 .. Len(code[Body]) : code[Body][i].as[1] = x
  BY <1>1, DefinedNames
<1>3. Fits(st)
  <2>1. /\ st.kind = "use" /\ st.as[1] = x /\ st.as[2] = x /\ st.source = table[x] /\ st \in Statements
    BY <1>2 DEF Statement, Statements
  <2> HIDE DEF st
  <2> QED
    BY <1>1, <1>2, <2>1 DEF Fits
<1> HIDE DEF st
<1>4. Types' /\ Visited'
  BY <1>1, <1>3, Emitting DEF Grows, LifeInv, Types
<1>5. Rooted'
  BY <1>1 DEF LifeInv, Rooted
<1>6. RunInv'
  BY <1>1, VisitLeavesRun DEF Emit
<1> QED
  BY <1>4, <1>5, <1>6 DEF LifeInv

LEMMA CreateStep ==
  ASSUME LifeInv, NEW target \in Names, NEW x \in Names, create_assignment_variable(target, x)
  PROVE  LifeInv'
<1> DEFINE variable == IF table[target] = Null THEN target ELSE table[target]
           st == Statement("bind", variable, table[x], <<target, x>>)
<1>1. /\ Visiting /\ Defined(x) /\ Emit(st)
      /\ table' = IF table[target] = Null THEN [table EXCEPT ![target] = table[x]] ELSE table
  BY DEF create_assignment_variable
<1>2. /\ table[x] \in Names /\ table[table[x]] = table[x] /\ table[x] # Null
      /\ x \in UserNames => \E i \in 1 .. Len(code[Body]) : code[Body][i].as[1] = x
  BY <1>1, DefinedNames
<1>3. table \in [Names -> Names \cup {Null}] /\ Rooted /\ Null \notin Names
  BY NamesOfNode DEF LifeInv, Types
<1>4. table[target] = Null => target \in UserNames
  BY <1>3 DEF Rooted
<1>5. ASSUME table[target] = Null
      PROVE  table' \in [Names -> Names \cup {Null}] /\ Grows /\ Fits(st) /\ Rooted'
  <2>1. \A y \in Names : table[y] # target
    BY <1>3, <1>5 DEF Rooted
  <2>2. table' = [table EXCEPT ![target] = table[x]] /\ variable = target
    BY <1>1, <1>5
  <2>3. /\ table'[target] = table[x] /\ \A y \in Names \ {target} : table'[y] = table[y]
        /\ table' \in [Names -> Names \cup {Null}]
    BY <1>2, <1>3, <2>2
  <2>4. Grows
    BY <1>5, <2>3 DEF Grows
  <2>5. table'[x] = table[x] /\ \A y \in Names : table'[y] # target
    BY <1>2, <1>5, <2>1, <2>3
  <2>6. Rooted'
    BY <1>2, <1>3, <1>4, <1>5, <2>1, <2>3 DEF Rooted
  <2>7. Fits(st)
    <3>1. /\ st.kind = "bind" /\ st.as[1] = target /\ st.as[2] = x /\ st.source = table[x] /\ st.name = target
          /\ st \in Statements
      BY <1>2, <2>2 DEF Statement, Statements
    <3> HIDE DEF st
    <3> QED
      BY <1>2, <1>4, <2>3, <2>5, <3>1 DEF Fits
  <2> QED
    BY <2>3, <2>4, <2>6, <2>7
<1>6. ASSUME table[target] # Null
      PROVE  table' \in [Names -> Names \cup {Null}] /\ Grows /\ Fits(st) /\ Rooted'
  <2>1. table[target] \in Names /\ variable = table[target] /\ table' = table
    BY <1>1, <1>3, <1>6
  <2>2. Grows /\ Rooted' /\ table' \in [Names -> Names \cup {Null}]
    BY <1>3, <2>1 DEF Grows, Rooted
  <2>3. Fits(st)
    <3>1. /\ st.kind = "bind" /\ st.as[1] = target /\ st.as[2] = x /\ st.source = table[x] /\ st.name = table[target]
          /\ st \in Statements
      BY <1>2, <2>1 DEF Statement, Statements
    <3> HIDE DEF st
    <3> QED
      BY <1>2, <1>6, <2>1, <3>1 DEF Fits
  <2> QED
    BY <2>2, <2>3
<1> HIDE DEF st
<1>7. Types' /\ Visited' /\ Rooted'
  BY <1>1, <1>5, <1>6, Emitting
<1>8. RunInv'
  BY <1>1, VisitLeavesRun DEF Emit
<1> QED
  BY <1>7, <1>8 DEF LifeInv

LEMMA LowerStep ==
  ASSUME LifeInv, NEW target \in UserNames, try_lower_assignment(target)
  PROVE  LifeInv'
<1> DEFINE st == Statement("new", target, target, <<target, target>>)
<1>1. table[target] = Null /\ Emit(st) /\ table' = [table EXCEPT ![target] = target] /\ Visiting
  BY DEF try_lower_assignment, Emit
<1>2. table \in [Names -> Names \cup {Null}] /\ Rooted /\ Null \notin Names /\ target \in Names
  BY NamesOfNode DEF LifeInv, Types
<1>3. \A y \in Names : table[y] # target
  BY <1>1, <1>2 DEF Rooted
<1>4. /\ table'[target] = target /\ \A y \in Names \ {target} : table'[y] = table[y]
      /\ table' \in [Names -> Names \cup {Null}]
  BY <1>1, <1>2
<1>5. Grows /\ Rooted'
  BY <1>1, <1>2, <1>3, <1>4 DEF Grows, Rooted
<1>6. Fits(st)
  <2>1. /\ st.kind = "new" /\ st.as[1] = target /\ st.name = target /\ st \in Statements
    BY <1>2 DEF Statement, Statements
  <2> HIDE DEF st
  <2> QED
    BY <1>2, <1>3, <1>4, <2>1 DEF Fits
<1> HIDE DEF st
<1>7. Types' /\ Visited'
  BY <1>1, <1>4, <1>5, <1>6, Emitting
<1>8. RunInv'
  BY <1>1, VisitLeavesRun DEF Emit
<1> QED
  BY <1>5, <1>7, <1>8 DEF LifeInv

LEMMA ReturnStep ==
  ASSUME LifeInv, visit_Return
  PROVE  LifeInv'
<1> DEFINE st == Statement("leave", Null, Null, <<Null, Null>>)
<1>1. Emit(st) /\ table' = table /\ Visiting
  BY DEF visit_Return, Emit
<1>2. Fits(st)
  <2>1. st.kind = "leave" /\ st.as = <<Null, Null>> /\ st \in Statements
    BY DEF Statement, Statements
  <2> HIDE DEF st
  <2> QED
    BY <2>1 DEF Fits
<1> HIDE DEF st
<1>3. Types' /\ Visited'
  BY <1>1, <1>2, Emitting DEF Grows, LifeInv, Types
<1>4. Rooted'
  BY <1>1 DEF LifeInv, Rooted
<1>5. RunInv'
  BY <1>1, VisitLeavesRun DEF Emit
<1> QED
  BY <1>3, <1>4, <1>5 DEF LifeInv

LEMMA DoneStep ==
  ASSUME LifeInv, VisitDone
  PROVE  LifeInv'
<1>1. /\ Visiting /\ visiting' = visiting + 1 /\ table' = table /\ code' = code
      /\ UNCHANGED <<live, slot, local, phase, pc, history>>
  BY DEF VisitDone
<1>2. visiting \in 1 .. 3 /\ visiting' \in 1 .. 4 /\ phase = "none"
  BY <1>1 DEF LifeInv, Types, Visiting, BodyOrder
<1>3. Types'
  BY <1>1, <1>2 DEF LifeInv, Types, history
<1>4. Rooted' /\ Visited'
  BY <1>1 DEF LifeInv, Rooted, Visited, Reads, Writes
<1>5. RunInv'
  BY <1>1, VisitLeavesRun
<1> QED
  BY <1>3, <1>4, <1>5 DEF LifeInv

-----------------------------------------------------------------------------
(* The run: where it stands.                                               *)

LEMMA AtPc ==
  ASSUME LifeInv, Running
  PROVE  /\ phase \in Phases /\ pc \in 1 .. Len(visit_FunctionDef(phase)) /\ ~Visiting
         /\ Now = visit_FunctionDef(phase)[pc] /\ LaidOut(phase)
         /\ Makes \in Nat /\ Held \in Nat /\ BodyEnd \in Nat /\ Prologue = Makes + Held /\ Prologue <= BodyEnd
         /\ BodyEnd = End(phase)
         /\ Len(visit_FunctionDef(phase)) = BodyEnd + (IF phase = "STOP" THEN Held ELSE 0)
<1>1. phase \in Phases /\ pc \in Nat \ {0} /\ pc <= Len(visit_FunctionDef(phase)) /\ ~Visiting
  BY DEF LifeInv, Types, Running, Phases
<1>2. LaidOut(phase)
  BY <1>1, Layout DEF LifeInv
<1>3. Makes \in Nat /\ Held \in Nat /\ Len(code[phase]) \in Nat
  BY <1>2, NamesOfNode DEF LaidOut
<1>4. Prologue = Makes + Held /\ BodyEnd = Prologue + Len(code[phase]) /\ BodyEnd = End(phase)
  BY DEF Prologue, BodyEnd, End
<1>5. Len(visit_FunctionDef(phase)) = BodyEnd + (IF phase = "STOP" THEN Held ELSE 0)
  BY <1>2, <1>4 DEF LaidOut
<1>6. Prologue \in Nat /\ BodyEnd \in Nat /\ Prologue <= BodyEnd
  <2> DEFINE n == Len(code[phase])
  <2>1. n \in Nat /\ BodyEnd = Prologue + n
    BY <1>3, <1>4
  <2> HIDE DEF n
  <2>2. Prologue \in Nat
    BY <1>3, <1>4
  <2> QED
    BY <2>1, <2>2
<1>7. pc \in 1 .. Len(visit_FunctionDef(phase))
  BY <1>1, <1>3, <1>5, <1>6
<1> QED
  BY <1>1, <1>2, <1>3, <1>4, <1>5, <1>6, <1>7 DEF Now

LEMMA Place ==
  ASSUME LifeInv, Running
  PROVE  /\ \A j \in 1 .. Held : pc = Makes + j => Now = SetUp(phase, StateVars[j])
         /\ phase = "STOP" => \A j \in 1 .. Held : pc = BodyEnd + j => Now = Freed(StateVars[j])
         /\ Now.kind \in {"init", "load"} =>
              \E j \in 1 .. Held : pc = Makes + j /\ Now = SetUp(phase, StateVars[j])
         /\ Now.kind = "free" =>
              phase = "STOP" /\ \E j \in 1 .. Held : pc = BodyEnd + j /\ Now = Freed(StateVars[j])
         /\ Now.kind \in {"use", "bind", "new", "leave"} =>
              /\ Prologue < pc /\ pc <= BodyEnd
              /\ \E i \in 1 .. Len(code[phase]) : Now = code[phase][i]
         /\ Now.kind \in {"make", "new", "use", "bind", "init", "load", "leave"} => pc <= BodyEnd
         /\ Now.kind = "leave" => Now.as = <<Null, Null>>
<1>1. /\ phase \in Phases /\ pc \in 1 .. Len(visit_FunctionDef(phase))
      /\ Now = visit_FunctionDef(phase)[pc] /\ LaidOut(phase) /\ BodyEnd = End(phase)
  BY AtPc
<1>2. /\ \A j \in 1 .. Held : pc = Makes + j => Now = SetUp(phase, StateVars[j])
      /\ phase = "STOP" => \A j \in 1 .. Held : pc = BodyEnd + j => Now = Freed(StateVars[j])
  BY <1>1 DEF LaidOut
<1>3. \/ pc \in 1 .. Makes /\ Now = Made(Constants[pc])
      \/ \E i \in 1 .. Held : pc = Makes + i /\ Now = SetUp(phase, StateVars[i])
      \/ \E i \in 1 .. Len(code[phase]) : pc = Prologue + i /\ Now = code[phase][i]
      \/ phase = "STOP" /\ \E i \in 1 .. Held : pc = BodyEnd + i /\ Now = Freed(StateVars[i])
  BY <1>1, Where DEF LifeInv
<1>4. CASE pc \in 1 .. Makes /\ Now = Made(Constants[pc])
  BY <1>2, <1>4, AtPc DEF Made, Statement
<1>5. CASE \E i \in 1 .. Held : pc = Makes + i /\ Now = SetUp(phase, StateVars[i])
  <2>1. Now.kind \in {"init", "load"}
    BY <1>5 DEF SetUp, Statement
  <2>2. pc <= BodyEnd
    BY <1>5, AtPc
  <2> QED
    BY <1>2, <1>5, <2>1, <2>2
<1>6. CASE \E i \in 1 .. Len(code[phase]) : pc = Prologue + i /\ Now = code[phase][i]
  <2>1. PICK i \in 1 .. Len(code[phase]) : pc = Prologue + i /\ Now = code[phase][i]
    BY <1>6
  <2>2. Now \in Statements /\ (Now.kind = "leave" => Now.as = <<Null, Null>>)
    BY <1>1, <2>1 DEF LifeInv, Types, Visited
  <2>3. Now.kind \in {"use", "bind", "new", "leave"}
    BY <2>2 DEF Statements
  <2>4. Len(code[phase]) \in Nat /\ Prologue \in Nat /\ BodyEnd = Prologue + Len(code[phase])
    BY <1>1, AtPc, NamesOfNode DEF LaidOut, BodyEnd, Prologue
  <2> HIDE DEF BodyEnd, Prologue
  <2>5. Prologue < pc /\ pc <= BodyEnd
    BY <2>1, <2>4
  <2> QED
    BY <1>2, <2>1, <2>2, <2>3, <2>5
<1>7. CASE phase = "STOP" /\ \E i \in 1 .. Held : pc = BodyEnd + i /\ Now = Freed(StateVars[i])
  <2>1. Now.kind = "free"
    BY <1>7 DEF Freed, Statement
  <2> QED
    BY <1>2, <1>7, <2>1
<1> QED
  BY <1>3, <1>4, <1>5, <1>6, <1>7

(* A run leaves what the visit made alone.                                 *)
LEMMA CompilerKept ==
  ASSUME LifeInv, UNCHANGED compiler
  PROVE  /\ Rooted' /\ Visited' /\ table' = table /\ code' = code /\ Visiting' = Visiting
         /\ StopFreesItsOwn' = StopFreesItsOwn /\ StopKeeps' = StopKeeps
         /\ phase' = phase => \A j : Overwrites(phase, j)' <=> Overwrites(phase, j)
         /\ phase' = phase => visit_FunctionDef(phase)' = visit_FunctionDef(phase) /\ BodyEnd' = BodyEnd
<1>1. table' = table /\ code' = code /\ visiting' = visiting
  BY DEF compiler
<1>2. Rooted'
  BY <1>1 DEF LifeInv, Rooted
<1>3. Visited'
  BY <1>1 DEF LifeInv, Visited, Reads, Writes
<1>4. Visiting' = Visiting
  BY <1>1 DEF Visiting
<1>5. ASSUME phase' = phase
      PROVE  visit_FunctionDef(phase)' = visit_FunctionDef(phase) /\ BodyEnd' = BodyEnd
  BY <1>1, <1>5 DEF visit_FunctionDef, BodyEnd
<1>6. ASSUME phase' = phase, NEW j PROVE Overwrites(phase, j)' <=> Overwrites(phase, j)
  BY <1>1, <1>5, <1>6 DEF Overwrites
<1>7. StopFreesItsOwn' = StopFreesItsOwn /\ StopKeeps' = StopKeeps
  BY <1>1 DEF StopFreesItsOwn, StopKeeps
<1> QED
  BY <1>1, <1>2, <1>3, <1>4, <1>5, <1>6, <1>7

(* A name assigned before has a variable, which holds what it may.         *)
LEMMA AssignedNames ==
  ASSUME LifeInv, Running, NEW x \in Names, Assigned(x)
  PROVE  table[x] \in Names
<1> DEFINE f == visit_FunctionDef(phase)
<1>1. phase \in Phases /\ pc \in 1 .. Len(f) /\ Types /\ Rooted /\ Visited
  BY AtPc DEF LifeInv
<1>2. PICK i \in 1 .. pc - 1 : f[i].as[1] = x
  BY DEF Assigned
<1>3. i \in 1 .. Len(f) /\ Null \notin Names /\ \A j \in 1 .. Held : StateVars[j] \in Names \ UserNames
  BY <1>1, <1>2, NamesOfNode
<1>4. CASE \E j \in 1 .. Len(code[phase]) : f[i] = code[phase][j]
  <2>1. PICK j \in 1 .. Len(code[phase]) : f[i] = code[phase][j]
    BY <1>4
  <2>2. table[x] # Null
    BY <1>1, <1>2, <1>3, <2>1 DEF Visited
  <2> QED
    BY <1>1, <2>2 DEF Types
<1>5. CASE f[i] \in {Made(Constants[i])} /\ i \in 1 .. Makes
  BY <1>1, <1>2, <1>5, NamesOfNode DEF Made, Statement, Rooted
<1>6. CASE \E j \in 1 .. Held : f[i] = SetUp(phase, StateVars[j])
  BY <1>1, <1>2, <1>3, <1>6 DEF SetUp, Statement, Rooted
<1>7. CASE \E j \in 1 .. Held : f[i] = Freed(StateVars[j])
  BY <1>1, <1>2, <1>3, <1>7 DEF Freed, Statement, Rooted
<1> QED
  BY <1>1, <1>3, <1>4, <1>5, <1>6, <1>7, Where

LEMMA ReadsAssigned ==
  ASSUME LifeInv, Running, Now.kind \in {"use", "bind", "free"}
  PROVE  /\ Now.as[2] \in Names /\ Now.source = table[Now.as[2]] /\ Now.source \in Names
         /\ Assigned(Now.as[2])
         /\ Now.kind \in {"use", "free"} => Now.as[1] = Now.as[2]
<1>1. /\ phase \in Phases /\ pc \in 1 .. Len(visit_FunctionDef(phase))
      /\ Now = visit_FunctionDef(phase)[pc]
  BY AtPc
<1> QED
  BY <1>1, Sources DEF LifeInv, Assigned

LEMMA SourceHolds ==
  ASSUME LifeInv, Running, Now.kind \in {"use", "bind"}
  PROVE  /\ local[Now.source] \in live /\ local[Now.source] \in Blocks
         /\ ~Overwritten => local[Now.source] = env[Now.as[2]]
<1>1. ~Freeing
  BY AtPc, Place DEF Freeing
<1>2. Now.as[2] \in Names /\ Now.source = table[Now.as[2]] /\ Assigned(Now.as[2])
  BY ReadsAssigned
<1> QED
  BY <1>1, <1>2 DEF LifeInv, RunInv, Alive, Meant, Types

(* One statement later.                                                    *)
LEMMA OneLater ==
  ASSUME LifeInv, Running, UNCHANGED <<compiler, phase>>, pc' = pc + 1
  PROVE  /\ ~Freeing' => ~Freeing
         /\ ~Overwritten' => ~Overwritten /\ ~Overwrites(phase, pc)
         /\ \A x : Assigned(x)' => Assigned(x) \/ Now.as[1] = x
         /\ Before' /\ pc' \in Nat \ {0} /\ visiting' = visiting
<1>1. pc \in Nat \ {0} /\ phase \in Phases /\ BodyEnd \in Nat /\ Now = visit_FunctionDef(phase)[pc]
  BY AtPc DEF LifeInv, Types
<1>2. /\ BodyEnd' = BodyEnd /\ phase' = phase /\ visit_FunctionDef(phase)' = visit_FunctionDef(phase)
      /\ \A j : Overwrites(phase, j)' <=> Overwrites(phase, j)
  BY CompilerKept
<1>3. 1 .. pc' - 1 = 1 .. pc /\ pc \in 1 .. pc /\ 1 .. pc - 1 \subseteq 1 .. pc
      /\ \A i \in 1 .. pc : i \in 1 .. pc - 1 \/ i = pc
  BY <1>1
<1>4. ~Freeing' => ~Freeing
  BY <1>1, <1>2 DEF Freeing
<1>5. ASSUME ~Overwritten' PROVE ~Overwritten /\ ~Overwrites(phase, pc)
  <2>1. \A j \in 1 .. pc : ~Overwrites(phase, j)
    BY <1>2, <1>3, <1>5 DEF Overwritten
  <2> QED
    BY <1>3, <2>1 DEF Overwritten
<1>6. ASSUME NEW x, Assigned(x)' PROVE Assigned(x) \/ Now.as[1] = x
  <2>1. PICK i \in 1 .. pc : visit_FunctionDef(phase)[i].as[1] = x
    BY <1>2, <1>3, <1>6 DEF Assigned
  <2> QED
    BY <1>1, <1>3, <2>1 DEF Assigned
<1>7. Before'
  BY <1>1, <1>2 DEF Before, Phases
<1> QED
  BY <1>1, <1>4, <1>5, <1>6, <1>7 DEF compiler

(* The names after a container was made or loaded.                         *)
LEMMA MadeNames ==
  ASSUME LifeInv, Running, Now.kind \in {"make", "new", "init", "load"},
         UNCHANGED <<compiler, phase>>, pc' = pc + 1, NEW val \in Blocks, val \in live', live \subseteq live',
         local' = [local EXCEPT ![Now.name] = val], env' = [env EXCEPT ![Now.as[1]] = val]
  PROVE  /\ local' \in [Names -> Blocks \cup {Null}] /\ env' \in [Names -> Blocks \cup {Null}]
         /\ Alive' /\ Meant' /\ Now.name \in Names
         /\ \A x \in Names : x # Now.name => local'[x] = local[x]
<1> DEFINE f == visit_FunctionDef(phase)
<1>1. phase \in Phases /\ pc \in 1 .. Len(f) /\ Now = f[pc]
  BY AtPc
<1>2. PICK y \in Names :
        /\ Now.as[1] = y /\ Now.name = y /\ table[y] = y
        /\ \A i \in 1 .. pc - 1 : f[i].as[1] \in Names /\ table[f[i].as[1]] = y => f[i].as[1] = y
  BY <1>1, Targets DEF LifeInv
<1>3. table' = table
  BY CompilerKept
<1>4. local \in [Names -> Blocks \cup {Null}] /\ env \in [Names -> Blocks \cup {Null}]
  BY DEF LifeInv, Types
<1>5. /\ local' \in [Names -> Blocks \cup {Null}] /\ env' \in [Names -> Blocks \cup {Null}]
      /\ local'[y] = val /\ env'[y] = val
      /\ \A x \in Names : x # y => local'[x] = local[x] /\ env'[x] = env[x]
  BY <1>2, <1>4
<1>6. ASSUME NEW x \in Names, Assigned(x), x # y
      PROVE  local'[table[x]] = local[table[x]] /\ env'[x] = env[x]
  <2>1. table[x] # y
    BY <1>2, <1>6 DEF Assigned
  <2>2. table[x] \in Names
    BY <1>6, AssignedNames
  <2> QED
    BY <1>5, <1>6, <2>1, <2>2
<1>7. Alive'
  <2> SUFFICES ASSUME ~Freeing', NEW x \in Names, Assigned(x)' PROVE local'[table'[x]] \in live'
    BY DEF Alive
  <2>1. ~Freeing /\ (Assigned(x) \/ x = y)
    BY <1>2, OneLater
  <2>2. CASE x = y
    BY <1>2, <1>3, <1>5, <2>2
  <2>3. CASE x # y
    <3>1. local[table[x]] \in live
      BY <2>1, <2>3 DEF LifeInv, RunInv, Alive
    <3> QED
      BY <1>3, <1>6, <2>1, <2>3, <3>1
  <2> QED
    BY <2>2, <2>3
<1>8. Meant'
  <2> SUFFICES ASSUME ~Overwritten', NEW x \in Names, Assigned(x)' PROVE local'[table'[x]] = env'[x]
    BY DEF Meant
  <2>1. ~Overwritten /\ (Assigned(x) \/ x = y)
    BY <1>2, OneLater
  <2>2. CASE x = y
    BY <1>2, <1>3, <1>5, <2>2
  <2>3. CASE x # y
    <3>1. local[table[x]] = env[x]
      BY <2>1, <2>3 DEF LifeInv, RunInv, Meant
    <3> QED
      BY <1>3, <1>6, <2>1, <2>3, <3>1
  <2> QED
    BY <2>2, <2>3
<1> QED
  BY <1>2, <1>5, <1>7, <1>8

(* The names after an assignment: every variable still holds an allocated  *)
(* container, and the right one if the statement overwrites none.          *)
LEMMA BoundNames ==
  ASSUME LifeInv, Bind
  PROVE  /\ local' \in [Names -> Blocks \cup {Null}] /\ env' \in [Names -> Blocks \cup {Null}]
         /\ Alive' /\ Meant'
<1> DEFINE f == visit_FunctionDef(phase)
<1>1. /\ Running /\ Now.kind = "bind" /\ pc' = pc + 1 /\ UNCHANGED <<compiler, phase>>
      /\ local' = [local EXCEPT ![Now.name] = local[Now.source]]
      /\ env' = [env EXCEPT ![Now.as[1]] = env[Now.as[2]]] /\ live' = live
  BY DEF Bind, Step
<1>2. phase \in Phases /\ pc \in 1 .. Len(f) /\ Now = f[pc]
  BY <1>1, AtPc
<1>3. /\ Now.as[1] \in Names /\ Now.name \in Names
      /\ Now.name = table[Now.as[1]] \/ Now.source = table[Now.as[1]]
  BY <1>1, <1>2, BindTargets DEF LifeInv
<1>4. /\ Now.as[2] \in Names /\ Now.source \in Names
      /\ local[Now.source] \in live /\ local[Now.source] \in Blocks
      /\ ~Overwritten => local[Now.source] = env[Now.as[2]]
  BY <1>1, ReadsAssigned, SourceHolds
<1>5. table' = table
  BY <1>1, CompilerKept
<1>6. local \in [Names -> Blocks \cup {Null}] /\ env \in [Names -> Blocks \cup {Null}]
  BY DEF LifeInv, Types
<1> DEFINE a == Now.as[1]
           name == Now.name
           source == Now.source
           val == local[source]
           old == env[Now.as[2]]
<1>7. old \in Blocks \cup {Null}
  BY <1>4, <1>6
<1>8. /\ local' = [local EXCEPT ![name] = val] /\ env' = [env EXCEPT ![a] = old]
      /\ a \in Names /\ name \in Names /\ source \in Names /\ val \in live /\ val \in Blocks
      /\ name = table[a] \/ source = table[a]
  BY <1>1, <1>3, <1>4
<1>9. ~Overwritten => val = old
  BY <1>4
<1> HIDE DEF a, old
<1>10. /\ local' \in [Names -> Blocks \cup {Null}] /\ env' \in [Names -> Blocks \cup {Null}]
       /\ local'[name] = val /\ env'[a] = old
       /\ \A x \in Names : x # name => local'[x] = local[x]
       /\ \A x \in Names : x # a => env'[x] = env[x]
  BY <1>6, <1>7, <1>8
<1>11. local'[table[a]] = val
  <2>1. CASE name = table[a]
    BY <1>10, <2>1
  <2>2. CASE source = table[a] /\ name # source
    BY <1>8, <1>10, <2>2
  <2> QED
    BY <1>8, <2>1, <2>2
<1>12. Alive'
  <2> SUFFICES ASSUME ~Freeing', NEW x \in Names, Assigned(x)' PROVE local'[table'[x]] \in live'
    BY DEF Alive
  <2>1. ~Freeing /\ (Assigned(x) \/ x = a)
    BY <1>1, OneLater DEF a
  <2>2. CASE x = a
    BY <1>1, <1>5, <1>8, <1>11, <2>2
  <2>3. CASE Assigned(x)
    <3>1. local[table[x]] \in live /\ table[x] \in Names
      BY <1>1, <2>1, <2>3, AssignedNames DEF LifeInv, RunInv, Alive
    <3>2. local'[table[x]] = local[table[x]] \/ local'[table[x]] = val
      BY <1>10, <3>1
    <3> QED
      BY <1>1, <1>5, <1>8, <3>1, <3>2
  <2> QED
    BY <2>1, <2>2, <2>3
<1>13. Meant'
  <2> SUFFICES ASSUME ~Overwritten', NEW x \in Names, Assigned(x)' PROVE local'[table'[x]] = env'[x]
    BY DEF Meant
  <2>1. ~Overwritten /\ ~Overwrites(phase, pc) /\ (Assigned(x) \/ x = a)
    BY <1>1, OneLater DEF a
  <2>2. CASE x = a
    BY <1>5, <1>9, <1>10, <1>11, <2>1, <2>2
  <2>3. CASE x # a
    <3>1. local[table[x]] = env[x] /\ table[x] \in Names /\ Assigned(x)
      BY <1>1, <2>1, <2>3, AssignedNames DEF LifeInv, RunInv, Meant
    <3>2. table[x] # name \/ source = name
      <4>1. ASSUME source # name PROVE table[x] # name
        <5>1. ~\E i \in 1 .. pc - 1, z \in Names \ {a} : f[i].as[1] = z /\ table[z] = name
          BY <1>1, <1>2, <2>1, <4>1 DEF Overwrites, a
        <5>2. PICK i \in 1 .. pc - 1 : f[i].as[1] = x
          BY <3>1 DEF Assigned
        <5> QED
          BY <2>3, <5>1, <5>2
      <4> QED
        BY <4>1
    <3>3. local'[table[x]] = local[table[x]]
      BY <1>8, <1>10, <3>1, <3>2
    <3> QED
      BY <1>5, <1>10, <2>3, <3>1, <3>3
  <2> QED
    BY <2>2, <2>3
<1> QED
  BY <1>10, <1>12, <1>13

LEMMA KeepsNames ==
  ASSUME LifeInv, Running, Now.kind \in {"use", "free", "leave"},
         UNCHANGED <<compiler, phase, local, env>>, pc' = pc + 1, live' = live \/ Freeing
  PROVE  Alive' /\ Meant'
<1>1. table' = table
  BY CompilerKept
<1>2. ASSUME NEW x \in Names, Assigned(x)' PROVE Assigned(x)
  <2>1. CASE Now.kind = "leave"
    <3>1. Now.as[1] = Null /\ Null \notin Names
      BY <2>1, Place, NamesOfNode
    <3> QED
      BY <1>2, <3>1, OneLater
  <2>2. CASE Now.kind # "leave"
    <3>1. Assigned(Now.as[2]) /\ Now.as[1] = Now.as[2]
      BY <2>2, ReadsAssigned
    <3>2. Now.as[1] = x => Assigned(x)
      BY <3>1 DEF Assigned
    <3> QED
      BY <1>2, <3>2, OneLater
  <2> QED
    BY <2>1, <2>2
<1>3. Alive'
  <2> SUFFICES ASSUME ~Freeing', NEW x \in Names, Assigned(x)' PROVE local'[table'[x]] \in live'
    BY DEF Alive
  <2>1. ~Freeing
    BY OneLater
  <2>2. local[table[x]] \in live
    BY <1>2, <2>1 DEF LifeInv, RunInv, Alive
  <2> QED
    BY <1>1, <2>1, <2>2
<1>4. Meant'
  <2> SUFFICES ASSUME ~Overwritten', NEW x \in Names, Assigned(x)' PROVE local'[table'[x]] = env'[x]
    BY DEF Meant
  <2>1. ~Overwritten
    BY OneLater
  <2>2. local[table[x]] = env[x]
    BY <1>2, <2>1 DEF LifeInv, RunInv, Meant
  <2> QED
    BY <1>1, <2>2
<1> QED
  BY <1>3, <1>4

(* A step that leaves the slots alone, and the containers in them.         *)
LEMMA SlotsStay ==
  ASSUME LifeInv, Running, Now.kind \notin {"init", "free"},
         UNCHANGED <<compiler, phase, slot, born>>, pc' = pc + 1,
         (live' = live /\ stateful' = stateful) \/ ~Freeing,
         live \subseteq live', live \cap stateful \subseteq stateful', live' \cap stateful' \subseteq live \cap stateful
  PROVE  SlotsHold' /\ Owned' /\ \A j \in 1 .. Held : Holds(j)' <=> Holds(j)
<1>1. /\ phase \in Phases /\ pc \in Nat /\ BodyEnd \in Nat /\ Makes \in Nat /\ Held \in Nat
      /\ phase' = phase /\ slot' = slot /\ born' = born
  BY AtPc
<1>2. /\ BodyEnd' = BodyEnd /\ StopFreesItsOwn' = StopFreesItsOwn /\ StopKeeps' = StopKeeps
      /\ ~Freeing' => ~Freeing
  BY CompilerKept, OneLater
<1>3. ASSUME NEW j \in 1 .. Held PROVE Holds(j)' <=> Holds(j)
  <2>1. phase = "START" => pc # Makes + j
    BY Place DEF SetUp, Statement
  <2>2. phase = "STOP" => pc # BodyEnd + j
    BY Place DEF Freed, Statement
  <2>3. /\ phase = "START" => (pc + 1 > Makes + j <=> pc > Makes + j)
        /\ phase = "STOP" => (pc + 1 <= BodyEnd + j <=> pc <= BodyEnd + j)
    BY <1>1, <2>1, <2>2
  <2> QED
    BY <1>1, <1>2, <2>3 DEF Holds
<1>4. SlotsHold'
  <2> SUFFICES ASSUME NEW j \in 1 .. Held, Holds(j)'
               PROVE  /\ slot'[StateVars[j]] = born'[StateVars[j]] /\ slot'[StateVars[j]] \in stateful'
                      /\ (Freeing' => StopFreesItsOwn') => slot'[StateVars[j]] \in live'
                      /\ \A k \in 1 .. Held :
                           Holds(k)' /\ slot'[StateVars[k]] = slot'[StateVars[j]] => k = j
    BY DEF SlotsHold
  <2>1. /\ slot[StateVars[j]] = born[StateVars[j]] /\ slot[StateVars[j]] \in stateful
        /\ (Freeing => StopFreesItsOwn) => slot[StateVars[j]] \in live
        /\ \A k \in 1 .. Held : Holds(k) /\ slot[StateVars[k]] = slot[StateVars[j]] => k = j
    BY <1>3 DEF LifeInv, RunInv, SlotsHold
  <2>2. slot[StateVars[j]] \in stateful'
    BY <2>1
  <2>3. ASSUME Freeing' => StopFreesItsOwn' PROVE slot[StateVars[j]] \in live'
    BY <1>2, <2>1, <2>3
  <2> QED
    BY <1>1, <1>3, <2>1, <2>2, <2>3
<1>5. Owned'
  BY <1>1, <1>2, <1>3 DEF LifeInv, RunInv, Owned
<1> QED
  BY <1>3, <1>4, <1>5

(* And the variables STOP will free.                                       *)
LEMMA FreesStay ==
  ASSUME LifeInv, Running, Now.kind \notin {"init", "load", "free"},
         UNCHANGED <<compiler, phase, slot>>, pc' = pc + 1,
         \A j \in 1 .. Held : Holds(j)' <=> Holds(j),
         phase = "STOP" /\ StopFreesItsOwn => \A v \in States : local'[v] = local[v]
  PROVE  FreesSlots'
<1>1. phase' = phase /\ slot' = slot /\ StopFreesItsOwn' = StopFreesItsOwn
  BY CompilerKept
<1>2. ASSUME phase = "STOP", StopFreesItsOwn, NEW j \in 1 .. Held, pc' > Makes + j, Holds(j)'
      PROVE  local'[StateVars[j]] = slot[StateVars[j]]
  <2>1. pc # Makes + j
    BY Place DEF SetUp, Statement
  <2>2. pc > Makes + j
    BY <1>2, <2>1, AtPc
  <2>3. local[StateVars[j]] = slot[StateVars[j]]
    BY <1>2, <2>2 DEF LifeInv, RunInv, FreesSlots
  <2> QED
    BY <1>2, <2>3, NamesOfNode
<1> QED
  BY <1>1, <1>2 DEF FreesSlots

LEMMA MakeStep ==
  ASSUME LifeInv, NEW b \in Blocks, Make(b)
  PROVE  LifeInv'
<1>1. /\ Running /\ Now.kind \in {"make", "new"} /\ pc' = pc + 1 /\ UNCHANGED <<compiler, phase>>
      /\ b \in Blocks \ live /\ live' = live \cup {b}
      /\ local' = [local EXCEPT ![Now.name] = b] /\ env' = [env EXCEPT ![Now.as[1]] = b]
      /\ stateful' = stateful \ {b} /\ slot' = slot /\ born' = born
  BY DEF Make, Step, malloc
<1>2. Now.name \notin States
  BY <1>1, AtPc, Targets DEF LifeInv
<1>3. /\ local' \in [Names -> Blocks \cup {Null}] /\ env' \in [Names -> Blocks \cup {Null}]
      /\ Alive' /\ Meant' /\ \A x \in Names : x # Now.name => local'[x] = local[x]
  BY <1>1, MadeNames
<1>4. Rooted' /\ Visited' /\ table' = table /\ code' = code /\ Visiting' = Visiting
  BY <1>1, CompilerKept
<1>5. Before' /\ pc' \in Nat \ {0} /\ visiting' = visiting
  BY <1>1, OneLater
<1>6. Types'
  BY <1>1, <1>3, <1>4, <1>5 DEF LifeInv, Types
<1>7. ~Freeing
  BY <1>1, AtPc, Place DEF Freeing
<1>8. SlotsHold' /\ Owned' /\ \A j \in 1 .. Held : Holds(j)' <=> Holds(j)
  <2>1. /\ live \subseteq live' /\ live \cap stateful \subseteq stateful'
        /\ live' \cap stateful' \subseteq live \cap stateful
    BY <1>1
  <2> QED
    BY <1>1, <1>7, <2>1, SlotsStay
<1>9. FreesSlots'
  BY <1>1, <1>2, <1>3, <1>8, FreesStay, NamesOfNode
<1> QED
  BY <1>3, <1>4, <1>5, <1>6, <1>8, <1>9 DEF LifeInv, RunInv

LEMMA BindStep ==
  ASSUME LifeInv, Bind
  PROVE  LifeInv'
<1>1. /\ Running /\ Now.kind = "bind" /\ pc' = pc + 1 /\ UNCHANGED <<compiler, phase>>
      /\ local' = [local EXCEPT ![Now.name] = local[Now.source]]
      /\ UNCHANGED <<live, slot, born, stateful>>
  BY DEF Bind, Step
<1>2. /\ local' \in [Names -> Blocks \cup {Null}] /\ env' \in [Names -> Blocks \cup {Null}]
      /\ Alive' /\ Meant'
  BY BoundNames
<1>3. Rooted' /\ Visited' /\ table' = table /\ code' = code /\ Visiting' = Visiting
  BY <1>1, CompilerKept
<1>4. Before' /\ pc' \in Nat \ {0} /\ visiting' = visiting
  BY <1>1, OneLater
<1>5. Types'
  BY <1>1, <1>2, <1>3, <1>4 DEF LifeInv, Types
<1>6. SlotsHold' /\ Owned' /\ \A j \in 1 .. Held : Holds(j)' <=> Holds(j)
  BY <1>1, SlotsStay
<1>7. ASSUME phase = "STOP", StopFreesItsOwn, NEW v \in States PROVE local'[v] = local[v]
  <2>1. PICK i \in 1 .. Len(code["STOP"]) : Now = code["STOP"][i]
    BY <1>1, <1>7, Place
  <2>2. i \in DOMAIN code["STOP"]
    BY DEF LifeInv, Types, Phases
  <2>3. Now.name \in States => Now.source = Now.name
    BY <1>1, <1>7, <2>1, <2>2 DEF StopFreesItsOwn
  <2>4. local \in [Names -> Blocks \cup {Null}] /\ v \in Names
    BY NamesOfNode DEF LifeInv, Types
  <2>5. CASE Now.name = v
    BY <1>1, <2>3, <2>4, <2>5
  <2>6. CASE Now.name # v
    BY <1>1, <2>4, <2>6
  <2> QED
    BY <2>5, <2>6
<1>8. FreesSlots'
  BY <1>1, <1>6, <1>7, FreesStay
<1> QED
  BY <1>2, <1>3, <1>4, <1>5, <1>6, <1>8 DEF LifeInv, RunInv

(* START makes the container of a state variable, which no slot holds.     *)
LEMMA InitContainerStep ==
  ASSUME LifeInv, NEW b \in Blocks, InitContainer(b)
  PROVE  LifeInv'
<1>1. /\ Running /\ Now.kind = "init" /\ pc' = pc + 1 /\ UNCHANGED <<compiler, phase>>
      /\ b \in Blocks \ live /\ live' = live \cup {b}
      /\ local' = [local EXCEPT ![Now.name] = b] /\ env' = [env EXCEPT ![Now.as[1]] = b]
      /\ stateful' = stateful \cup {b} /\ slot' = [slot EXCEPT ![Now.name] = b]
      /\ born' = [born EXCEPT ![Now.name] = b]
  BY DEF InitContainer, Step, malloc, init_statements
<1>2. PICK j \in 1 .. Held : pc = Makes + j /\ Now = SetUp(phase, StateVars[j])
  BY <1>1, Place
<1>3. PICK v \in States : v = StateVars[j] /\ Now.name = v
  BY <1>2, NamesOfNode DEF SetUp, Statement
<1>4. phase = "START" /\ phase' = "START"
  BY <1>1, <1>2 DEF SetUp, Statement
<1>5. /\ slot \in [States -> Blocks \cup {Null}] /\ born \in [States -> Blocks \cup {Null}]
      /\ live \subseteq Blocks /\ stateful \subseteq Blocks /\ pc \in Nat \ {0} /\ Null \notin Blocks
      /\ Makes \in Nat /\ Held \in Nat
  BY NamesOfNode DEF LifeInv, Types
<1>6. /\ slot'[v] = b /\ born'[v] = b
      /\ \A w \in States : w # v => slot'[w] = slot[w] /\ born'[w] = born[w]
      /\ slot' \in [States -> Blocks \cup {Null}] /\ born' \in [States -> Blocks \cup {Null}]
  BY <1>1, <1>3, <1>5
<1>7. /\ local' \in [Names -> Blocks \cup {Null}] /\ env' \in [Names -> Blocks \cup {Null}]
      /\ Alive' /\ Meant'
  BY <1>1, MadeNames
<1>8. Rooted' /\ Visited' /\ table' = table /\ code' = code /\ Visiting' = Visiting /\ StopKeeps' = StopKeeps
  BY <1>1, CompilerKept
<1>9. Before' /\ pc' \in Nat \ {0} /\ visiting' = visiting
  BY <1>1, OneLater
<1>10. Types'
  <2>1. live' \subseteq Blocks /\ stateful' \subseteq Blocks
    BY <1>1, <1>5
  <2> QED
    BY <1>1, <1>6, <1>7, <1>8, <1>9, <2>1 DEF LifeInv, Types
<1>11. /\ ~Freeing /\ ~Freeing' /\ ~Holds(j) /\ Holds(j)'
       /\ \A k \in 1 .. Held : k # j => (Holds(k)' <=> Holds(k))
  BY <1>1, <1>2, <1>4, <1>5 DEF Freeing, Holds
<1>12. \A k \in 1 .. Held : StateVars[k] \in States /\ (k # j => StateVars[k] # v)
  BY <1>3, NamesOfNode
<1>13. \A k \in 1 .. Held : k # j => slot'[StateVars[k]] = slot[StateVars[k]] /\ born'[StateVars[k]] = born[StateVars[k]]
  BY <1>6, <1>12
<1>14. \A k \in 1 .. Held : Holds(k) =>
         /\ slot[StateVars[k]] = born[StateVars[k]] /\ slot[StateVars[k]] \in stateful /\ slot[StateVars[k]] \in live
         /\ \A i \in 1 .. Held : Holds(i) /\ slot[StateVars[i]] = slot[StateVars[k]] => i = k
  BY <1>11 DEF LifeInv, RunInv, SlotsHold
<1>15. SlotsHold'
  <2>1. ASSUME NEW k \in 1 .. Held, Holds(k)'
        PROVE  /\ slot'[StateVars[k]] = born'[StateVars[k]]
               /\ slot'[StateVars[k]] \in stateful' /\ slot'[StateVars[k]] \in live'
    <3>1. CASE k = j
      BY <1>1, <1>3, <1>6, <3>1
    <3>2. CASE k # j
      BY <1>1, <1>11, <1>13, <1>14, <2>1, <3>2
    <3> QED
      BY <3>1, <3>2
  <2>2. ASSUME NEW k \in 1 .. Held, Holds(k)', NEW i \in 1 .. Held, Holds(i)',
               slot'[StateVars[i]] = slot'[StateVars[k]]
        PROVE  i = k
    <3>1. CASE i # j /\ k # j
      BY <1>11, <1>13, <1>14, <2>2, <3>1
    <3>2. CASE i = j /\ k # j
      BY <1>1, <1>3, <1>6, <1>11, <1>13, <1>14, <2>2, <3>2
    <3>3. CASE i # j /\ k = j
      BY <1>1, <1>3, <1>6, <1>11, <1>13, <1>14, <2>2, <3>3
    <3> QED
      BY <3>1, <3>2, <3>3
  <2> QED
    BY <2>1, <2>2 DEF SlotsHold
<1>16. Owned'
  <2> SUFFICES ASSUME StopKeeps
               PROVE  /\ \A k \in 1 .. Held : slot'[StateVars[k]] # Null => Holds(k)'
                      /\ \A c \in live' \cap stateful' : \E k \in 1 .. Held : slot'[StateVars[k]] = c
    BY <1>8 DEF Owned
  <2>1. /\ \A k \in 1 .. Held : slot[StateVars[k]] # Null => Holds(k)
        /\ \A c \in live \cap stateful : \E k \in 1 .. Held : slot[StateVars[k]] = c
    BY DEF LifeInv, RunInv, Owned
  <2>2. ASSUME NEW k \in 1 .. Held, slot'[StateVars[k]] # Null PROVE Holds(k)'
    BY <1>11, <1>13, <2>1, <2>2
  <2>3. ASSUME NEW c \in live' \cap stateful' PROVE \E k \in 1 .. Held : slot'[StateVars[k]] = c
    <3>1. CASE c = b
      BY <1>3, <1>6, <3>1
    <3>2. CASE c # b
      <4>1. PICK k \in 1 .. Held : slot[StateVars[k]] = c
        BY <1>1, <2>1, <2>3, <3>2
      <4>2. c # Null
        BY <1>1, <1>5, <2>3, <3>2
      <4>3. k # j
        BY <1>11, <2>1, <4>1, <4>2
      <4> QED
        BY <1>13, <4>1, <4>3
    <3> QED
      BY <3>1, <3>2
  <2> QED
    BY <2>2, <2>3
<1>17. FreesSlots'
  BY <1>4 DEF FreesSlots
<1> QED
  BY <1>7, <1>8, <1>9, <1>10, <1>15, <1>16, <1>17 DEF LifeInv, RunInv

(* EXECUTE and STOP find every slot set when they read it.                 *)
LEMMA LoadContainerStep ==
  ASSUME LifeInv, LoadContainer
  PROVE  LifeInv'
<1>1. /\ Running /\ Now.kind = "load" /\ pc' = pc + 1 /\ UNCHANGED <<compiler, phase>>
      /\ local' = [local EXCEPT ![Now.name] = slot[Now.name]]
      /\ env' = [env EXCEPT ![Now.name] = born[Now.name]]
      /\ UNCHANGED <<live, slot, born, stateful>>
  BY DEF LoadContainer, Step, loaded
<1>2. PICK j \in 1 .. Held : pc = Makes + j /\ Now = SetUp(phase, StateVars[j])
  BY <1>1, Place
<1>3. PICK v \in States : v = StateVars[j] /\ Now.name = v /\ Now.as[1] = v
  BY <1>2, NamesOfNode DEF SetUp, Statement
<1>4. phase \in {"EXECUTE", "STOP"} /\ pc <= BodyEnd /\ pc \in Nat /\ BodyEnd \in Nat
  BY <1>1, <1>2, AtPc, Place DEF SetUp, Statement, Phases
<1>5. Holds(j) /\ ~Freeing
  BY <1>4 DEF Holds, Freeing
<1>6. slot[v] = born[v] /\ slot[v] \in live /\ slot[v] \in Blocks
  BY <1>3, <1>5 DEF LifeInv, RunInv, SlotsHold, Types
<1>7. PICK val \in Blocks : val = slot[v]
  BY <1>6
<1>8. /\ local' \in [Names -> Blocks \cup {Null}] /\ env' \in [Names -> Blocks \cup {Null}]
      /\ Alive' /\ Meant' /\ \A x \in Names : x # v => local'[x] = local[x]
  BY <1>1, <1>3, <1>6, <1>7, MadeNames
<1>9. Rooted' /\ Visited' /\ table' = table /\ code' = code /\ Visiting' = Visiting
      /\ StopFreesItsOwn' = StopFreesItsOwn
  BY <1>1, CompilerKept
<1>10. Before' /\ pc' \in Nat \ {0} /\ visiting' = visiting
  BY <1>1, OneLater
<1>11. Types'
  BY <1>1, <1>8, <1>9, <1>10 DEF LifeInv, Types
<1>12. SlotsHold' /\ Owned' /\ \A k \in 1 .. Held : Holds(k)' <=> Holds(k)
  BY <1>1, SlotsStay
<1>13. ASSUME phase = "STOP", StopFreesItsOwn, NEW k \in 1 .. Held, pc' > Makes + k, Holds(k)'
       PROVE  local'[StateVars[k]] = slot'[StateVars[k]]
  <2>1. CASE k = j
    <3>1. local'[v] = slot[v]
      BY <1>1, <1>3, NamesOfNode DEF LifeInv, Types
    <3> QED
      BY <1>1, <1>3, <2>1, <3>1
  <2>2. CASE k # j
    <3>1. pc > Makes + k
      BY <1>1, <1>2, <1>4, <1>13, <2>2, NamesOfNode
    <3>2. local[StateVars[k]] = slot[StateVars[k]]
      BY <1>12, <1>13, <3>1 DEF LifeInv, RunInv, FreesSlots
    <3>3. StateVars[k] # v /\ StateVars[k] \in Names
      BY <1>3, <2>2, NamesOfNode
    <3> QED
      BY <1>1, <1>8, <3>2, <3>3
  <2> QED
    BY <2>1, <2>2
<1>14. FreesSlots'
  BY <1>1, <1>9, <1>13 DEF FreesSlots
<1> QED
  BY <1>8, <1>9, <1>10, <1>11, <1>12, <1>14 DEF LifeInv, RunInv

(* STOP frees the slots in their order.                                    *)
LEMMA FreesWhere ==
  ASSUME LifeInv, Running, Now.kind = "free"
  PROVE  \E j \in 1 .. Held :
           /\ phase = "STOP" /\ pc = BodyEnd + j /\ Now.name = StateVars[j] /\ Now.source = StateVars[j]
           /\ Holds(j) /\ Freeing
           /\ StopFreesItsOwn =>
                local[StateVars[j]] = slot[StateVars[j]] /\ slot[StateVars[j]] \in live
<1>1. PICK j \in 1 .. Held : phase = "STOP" /\ pc = BodyEnd + j /\ Now = Freed(StateVars[j])
  BY Place
<1>2. Now.name = StateVars[j] /\ Now.source = StateVars[j]
  BY <1>1 DEF Freed, Statement
<1>3. /\ pc \in Nat /\ BodyEnd \in Nat /\ Makes \in Nat /\ Held \in Nat /\ Makes + Held <= BodyEnd
  BY AtPc
<1>4. Holds(j) /\ Freeing /\ pc > Makes + j
  BY <1>1, <1>3 DEF Holds, Freeing
<1>5. StopFreesItsOwn => local[StateVars[j]] = slot[StateVars[j]] /\ slot[StateVars[j]] \in live
  BY <1>1, <1>4 DEF LifeInv, RunInv, SlotsHold, FreesSlots
<1> QED
  BY <1>1, <1>2, <1>4, <1>5

LEMMA FreeContainerStep ==
  ASSUME LifeInv, FreeContainer
  PROVE  LifeInv'
<1>1. /\ Running /\ Now.kind = "free" /\ pc' = pc + 1 /\ UNCHANGED <<compiler, phase>>
      /\ live' = live \ {local[Now.name]} /\ slot' = [slot EXCEPT ![Now.name] = Null]
      /\ UNCHANGED <<local, born, env, stateful>>
  BY DEF FreeContainer, Step, cleared_slot, history
<1>2. PICK j \in 1 .. Held :
        /\ phase = "STOP" /\ pc = BodyEnd + j /\ Now.name = StateVars[j] /\ Holds(j) /\ Freeing
        /\ StopFreesItsOwn => local[StateVars[j]] = slot[StateVars[j]] /\ slot[StateVars[j]] \in live
  BY <1>1, FreesWhere
<1>3. PICK v \in States : v = StateVars[j]
  BY NamesOfNode
<1>4. /\ slot \in [States -> Blocks \cup {Null}] /\ live \subseteq Blocks /\ pc \in Nat \ {0}
      /\ Null \notin Blocks /\ BodyEnd \in Nat /\ Held \in Nat
  BY <1>1, NamesOfNode, AtPc DEF LifeInv, Types
<1>5. /\ slot'[v] = Null /\ \A w \in States : w # v => slot'[w] = slot[w]
      /\ slot' \in [States -> Blocks \cup {Null}]
  BY <1>1, <1>2, <1>3, <1>4
<1>6. /\ Rooted' /\ Visited' /\ table' = table /\ code' = code /\ Visiting' = Visiting
      /\ StopFreesItsOwn' = StopFreesItsOwn /\ StopKeeps' = StopKeeps /\ BodyEnd' = BodyEnd
  BY <1>1, CompilerKept
<1>7. Before' /\ pc' \in Nat \ {0} /\ visiting' = visiting
  BY <1>1, OneLater
<1>8. Types'
  <2>1. live' \subseteq Blocks
    BY <1>1, <1>4
  <2> QED
    BY <1>1, <1>5, <1>6, <1>7, <2>1 DEF LifeInv, Types
<1>9. Freeing' /\ ~Holds(j)' /\ \A k \in 1 .. Held : k # j => (Holds(k)' <=> Holds(k))
  BY <1>1, <1>2, <1>4, <1>6 DEF Freeing, Holds
<1>10. \A k \in 1 .. Held : k # j =>
          StateVars[k] \in States /\ StateVars[k] # v /\ slot'[StateVars[k]] = slot[StateVars[k]]
  BY <1>3, <1>5, NamesOfNode
<1>11. \A k \in 1 .. Held : Holds(k) =>
         /\ slot[StateVars[k]] = born[StateVars[k]] /\ slot[StateVars[k]] \in stateful
         /\ StopFreesItsOwn => slot[StateVars[k]] \in live
         /\ \A i \in 1 .. Held : Holds(i) /\ slot[StateVars[i]] = slot[StateVars[k]] => i = k
  BY DEF LifeInv, RunInv, SlotsHold
<1>12. ASSUME StopFreesItsOwn PROVE live' = live \ {slot[StateVars[j]]}
  BY <1>1, <1>2, <1>12
<1>13. SlotsHold'
  <2> SUFFICES ASSUME NEW k \in 1 .. Held, Holds(k)'
               PROVE  /\ slot'[StateVars[k]] = born'[StateVars[k]] /\ slot'[StateVars[k]] \in stateful'
                      /\ StopFreesItsOwn => slot'[StateVars[k]] \in live'
                      /\ \A i \in 1 .. Held : Holds(i)' /\ slot'[StateVars[i]] = slot'[StateVars[k]] => i = k
    BY <1>6, <1>9 DEF SlotsHold
  <2>1. k # j /\ Holds(k) /\ slot'[StateVars[k]] = slot[StateVars[k]]
    BY <1>9, <1>10
  <2>2. StopFreesItsOwn => slot[StateVars[k]] \in live'
    BY <1>2, <1>11, <1>12, <2>1
  <2>3. ASSUME NEW i \in 1 .. Held, Holds(i)', slot'[StateVars[i]] = slot'[StateVars[k]] PROVE i = k
    <3>1. Holds(i) /\ slot'[StateVars[i]] = slot[StateVars[i]]
      BY <1>9, <1>10, <2>3
    <3> QED
      BY <1>11, <2>1, <2>3, <3>1
  <2> QED
    BY <1>1, <1>11, <2>1, <2>2, <2>3
<1>14. FreesSlots'
  <2> SUFFICES ASSUME StopFreesItsOwn, NEW k \in 1 .. Held, Holds(k)'
               PROVE  local'[StateVars[k]] = slot'[StateVars[k]]
    BY <1>6 DEF FreesSlots
  <2>1. k # j /\ Holds(k) /\ slot'[StateVars[k]] = slot[StateVars[k]]
    BY <1>9, <1>10
  <2>2. pc > Makes + k
    BY <1>1, <1>2, AtPc
  <2>3. local[StateVars[k]] = slot[StateVars[k]]
    BY <1>2, <2>1, <2>2 DEF LifeInv, RunInv, FreesSlots
  <2> QED
    BY <1>1, <2>1, <2>3
<1>15. Owned'
  <2> SUFFICES ASSUME StopKeeps
               PROVE  /\ \A k \in 1 .. Held : slot'[StateVars[k]] # Null => Holds(k)'
                      /\ \A c \in live' \cap stateful' : \E k \in 1 .. Held : slot'[StateVars[k]] = c
    BY <1>6 DEF Owned
  <2>1. /\ \A k \in 1 .. Held : slot[StateVars[k]] # Null => Holds(k)
        /\ \A c \in live \cap stateful : \E k \in 1 .. Held : slot[StateVars[k]] = c
    BY DEF LifeInv, RunInv, Owned
  <2>2. live' \cap stateful' = (live \cap stateful) \ {slot[StateVars[j]]}
    BY <1>1, <1>12 DEF StopKeeps
  <2>3. ASSUME NEW k \in 1 .. Held, slot'[StateVars[k]] # Null PROVE Holds(k)'
    <3>1. k # j
      BY <1>3, <1>5, <2>3
    <3> QED
      BY <1>9, <1>10, <2>1, <2>3, <3>1
  <2>4. ASSUME NEW c \in live' \cap stateful' PROVE \E k \in 1 .. Held : slot'[StateVars[k]] = c
    <3>1. PICK k \in 1 .. Held : slot[StateVars[k]] = c
      BY <2>1, <2>2
    <3>2. k # j
      BY <2>2, <2>4, <3>1
    <3> QED
      BY <1>10, <3>1, <3>2
  <2> QED
    BY <2>3, <2>4
<1>16. Alive' /\ Meant'
  BY <1>1, <1>2, KeepsNames
<1> QED
  BY <1>6, <1>7, <1>8, <1>13, <1>14, <1>15, <1>16 DEF LifeInv, RunInv

LEMMA UseStep ==
  ASSUME LifeInv, Use \/ Stay
  PROVE  LifeInv'
<1>1. /\ Running /\ Now.kind \in {"use", "leave"} /\ pc' = pc + 1 /\ UNCHANGED <<compiler, phase>>
      /\ UNCHANGED <<live, slot, local, born, env, stateful>>
  BY DEF Use, Stay, Step, history
<1>2. Rooted' /\ Visited' /\ table' = table /\ code' = code /\ Visiting' = Visiting
  BY <1>1, CompilerKept
<1>3. Before' /\ pc' \in Nat \ {0} /\ visiting' = visiting
  BY <1>1, OneLater
<1>4. Types'
  BY <1>1, <1>2, <1>3 DEF LifeInv, Types
<1>5. SlotsHold' /\ Owned' /\ \A j \in 1 .. Held : Holds(j)' <=> Holds(j)
  BY <1>1, SlotsStay
<1>6. FreesSlots'
  BY <1>1, <1>5, FreesStay
<1>7. Alive' /\ Meant'
  BY <1>1, KeepsNames
<1> QED
  BY <1>2, <1>3, <1>4, <1>5, <1>6, <1>7 DEF LifeInv, RunInv

(* A return leaves before what follows it, in STOP before the frees.       *)
LEMMA LeaveStep ==
  ASSUME LifeInv, Leave
  PROVE  LifeInv'
<1>1. /\ Running /\ Now.kind = "leave" /\ pc' = Len(visit_FunctionDef(phase)) + 1 /\ UNCHANGED <<compiler, phase>>
      /\ UNCHANGED <<live, slot, local, born, env, stateful>>
  BY DEF Leave, history
<1>2. /\ phase \in Phases /\ pc \in Nat /\ BodyEnd \in Nat /\ Makes \in Nat /\ Held \in Nat
      /\ Makes + Held <= BodyEnd /\ Makes + Held < pc /\ pc <= BodyEnd
      /\ pc' = BodyEnd + (IF phase = "STOP" THEN Held ELSE 0) + 1
  <2>1. /\ phase \in Phases /\ pc \in Nat /\ BodyEnd \in Nat /\ Makes \in Nat /\ Held \in Nat
        /\ Prologue <= BodyEnd /\ Prologue = Makes + Held
        /\ Len(visit_FunctionDef(phase)) = BodyEnd + (IF phase = "STOP" THEN Held ELSE 0)
    BY <1>1, AtPc
  <2>2. Prologue < pc /\ pc <= BodyEnd
    BY <1>1, Place
  <2> QED
    BY <1>1, <2>1, <2>2
<1>3. /\ Rooted' /\ Visited' /\ table' = table /\ code' = code /\ Visiting' = Visiting /\ visiting' = visiting
      /\ visit_FunctionDef(phase)' = visit_FunctionDef(phase) /\ BodyEnd' = BodyEnd
      /\ StopFreesItsOwn' = StopFreesItsOwn /\ StopKeeps' = StopKeeps
  BY <1>1, CompilerKept DEF compiler
<1>4. pc' \in Nat \ {0} /\ ~Freeing
  BY <1>2 DEF Freeing
<1>5. Types'
  BY <1>1, <1>3, <1>4 DEF LifeInv, Types
<1>6. \A j \in 1 .. Held : Holds(j)' <=> Holds(j) /\ phase # "STOP"
  BY <1>1, <1>2, <1>3 DEF Holds, Phases
<1>7. SlotsHold'
  BY <1>1, <1>4, <1>6 DEF LifeInv, RunInv, SlotsHold
<1>8. FreesSlots'
  BY <1>1, <1>6 DEF FreesSlots
<1>9. Owned'
  <2>1. CASE phase = "STOP"
    <3>1. PICK i \in 1 .. Len(code["STOP"]) : Now = code["STOP"][i]
      BY <1>1, <2>1, Place
    <3>2. i \in DOMAIN code["STOP"]
      BY DEF LifeInv, Types, Phases
    <3>3. ~StopKeeps
      BY <1>1, <3>1, <3>2 DEF StopKeeps
    <3> QED
      BY <1>3, <3>3 DEF Owned
  <2>2. CASE phase # "STOP"
    BY <1>1, <1>3, <1>6, <2>2 DEF LifeInv, RunInv, Owned
  <2> QED
    BY <2>1, <2>2
<1>10. Alive' /\ Meant' /\ Before'
  <2>1. ~(pc' <= Len(visit_FunctionDef(phase))')
    BY <1>1, <1>2, <1>3, AtPc
  <2>2. ~Running' /\ phase' # "none"
    BY <1>1, <1>2, <2>1 DEF Running, Phases
  <2> QED
    BY <2>2 DEF Alive, Meant, Before
<1> QED
  BY <1>3, <1>5, <1>7, <1>8, <1>9, <1>10 DEF LifeInv, RunInv

(* Which slots hold a container when no call runs.                         *)
LEMMA Between ==
  ASSUME LifeInv, ~Running
  PROVE  /\ \A j \in 1 .. Held : Holds(j) <=> phase \in {"START", "EXECUTE"}
         /\ phase \in {"START", "EXECUTE"} => ~Freeing
<1>1. CASE phase \notin Phases
  BY <1>1 DEF Holds, Phases, Freeing
<1>2. CASE phase \in Phases
  <2> DEFINE n == Len(code[phase])
  <2>1. LaidOut(phase) /\ pc \in Nat /\ Makes \in Nat /\ Held \in Nat /\ n \in Nat
    BY <1>2, Layout, NamesOfNode DEF LifeInv, Types, LaidOut
  <2>2. BodyEnd = Makes + Held + n /\ End(phase) = Makes + Held + n
    BY DEF BodyEnd, End, Prologue
  <2>3. Len(visit_FunctionDef(phase)) = BodyEnd + (IF phase = "STOP" THEN Held ELSE 0)
    BY <2>1, <2>2 DEF LaidOut
  <2>4. ~(pc <= Len(visit_FunctionDef(phase)))
    BY <1>2 DEF Running
  <2> HIDE DEF n
  <2>5. BodyEnd \in Nat /\ Makes + Held <= BodyEnd /\ pc > BodyEnd + (IF phase = "STOP" THEN Held ELSE 0)
    BY <2>1, <2>2, <2>3, <2>4
  <2>6. ASSUME NEW j \in 1 .. Held PROVE pc > Makes + j /\ (phase = "STOP" => ~(pc <= BodyEnd + j))
    BY <2>1, <2>5
  <2> QED
    BY <1>2, <2>6 DEF Holds, Phases, Freeing
<1> QED
  BY <1>1, <1>2

LEMMA CallStep ==
  ASSUME LifeInv, NEW p \in Phases, Call(p)
  PROVE  LifeInv'
<1>1. /\ ~Visiting /\ ~Running /\ phase' = p /\ pc' = 1 /\ UNCHANGED <<compiler, live, slot, born, stateful>>
      /\ IF p = "START" THEN phase \in {"none", "STOP"} ELSE phase \in {"START", "EXECUTE"}
      /\ local' = [v \in Names |-> Null] /\ env' = [n \in Names |-> Null]
  BY DEF Call, Idle
<1>2. Rooted' /\ Visited' /\ table' = table /\ code' = code /\ Visiting' = Visiting /\ visiting' = visiting
      /\ StopKeeps' = StopKeeps
  BY <1>1, CompilerKept DEF compiler
<1>3. Types'
  BY <1>1, <1>2 DEF LifeInv, Types
<1>4. /\ \A j \in 1 .. Held : Holds(j) <=> p # "START"
      /\ p # "START" => ~Freeing
  BY <1>1, Between
<1>5. /\ Makes \in Nat /\ Held \in Nat /\ BodyEnd' \in Nat
      /\ Held <= BodyEnd' /\ \A j \in 1 .. Held : ~(1 > Makes + j)
  <2> DEFINE n == Len(code[p])
  <2>1. Makes \in Nat /\ Held \in Nat /\ n \in Nat
    BY Layout, NamesOfNode DEF LifeInv, LaidOut
  <2>2. BodyEnd' = Makes + Held + n
    BY <1>1, <1>2 DEF BodyEnd, Prologue
  <2> HIDE DEF n
  <2> QED
    BY <2>1, <2>2
<1>6. ASSUME NEW j \in 1 .. Held PROVE (Holds(j)' <=> p # "START") /\ ~Freeing'
  <2> DEFINE e == BodyEnd'
  <2>1. e \in Nat /\ Held \in Nat /\ Held <= e /\ Makes \in Nat
    BY <1>5
  <2>2. /\ ((p = "START" /\ 1 > Makes + j) \/ p = "EXECUTE" \/ (p = "STOP" /\ 1 <= BodyEnd' + j))
             <=> Holds(j)'
        /\ (p = "STOP" /\ 1 > BodyEnd') <=> Freeing'
    BY <1>1 DEF Holds, Freeing
  <2> HIDE DEF e
  <2>3. 1 <= e + j /\ ~(1 > Makes + j) /\ ~(1 > e)
    BY <2>1
  <2> QED
    BY <2>2, <2>3 DEF Phases, e
<1>7. SlotsHold'
  BY <1>1, <1>4, <1>6 DEF LifeInv, RunInv, SlotsHold
<1>8. Owned'
  BY <1>1, <1>2, <1>4, <1>6 DEF LifeInv, RunInv, Owned
<1>9. FreesSlots'
  BY <1>1, <1>5 DEF FreesSlots
<1>10. Before' /\ Alive' /\ Meant'
  <2>1. 1 .. pc' - 1 = {} /\ phase' # "none"
    BY <1>1 DEF Phases
  <2>2. \A x : ~Assigned(x)'
    BY <2>1 DEF Assigned
  <2> QED
    BY <2>1, <2>2 DEF Before, Alive, Meant
<1> QED
  BY <1>2, <1>3, <1>7, <1>8, <1>9, <1>10 DEF LifeInv, RunInv

-----------------------------------------------------------------------------
(* What the runs check.                                                    *)

LEMMA NextHolds == LifeInv /\ [Next]_vars => LifeInv'
<1> SUFFICES ASSUME LifeInv, [Next]_vars PROVE LifeInv'
  OBVIOUS
<1>1. CASE \E x \in Names : VisitName(x)
  BY <1>1, VisitNameStep
<1>2. CASE \E target, x \in Names : create_assignment_variable(target, x)
  BY <1>2, CreateStep
<1>3. CASE \E target \in UserNames : try_lower_assignment(target)
  BY <1>3, LowerStep
<1>4. CASE visit_Return
  BY <1>4, ReturnStep
<1>5. CASE VisitDone
  BY <1>5, DoneStep
<1>6. CASE \E b \in Blocks : Make(b) \/ InitContainer(b)
  BY <1>6, MakeStep, InitContainerStep
<1>7. CASE LoadContainer
  BY <1>7, LoadContainerStep
<1>8. CASE FreeContainer
  BY <1>8, FreeContainerStep
<1>9. CASE Bind
  BY <1>9, BindStep
<1>10. CASE Use \/ Stay
  BY <1>10, UseStep
<1>11. CASE Leave
  BY <1>11, LeaveStep
<1>12. CASE \E p \in Phases : Call(p)
  BY <1>12, CallStep
<1>13. CASE UNCHANGED vars
  <2>1. /\ UNCHANGED compiler /\ phase' = phase /\ pc' = pc /\ slot' = slot /\ live' = live
        /\ UNCHANGED <<table, code, visiting, local, born, env, stateful>>
    BY <1>13 DEF vars, compiler, history
  <2>2. /\ Rooted' /\ Visited' /\ visit_FunctionDef(phase)' = visit_FunctionDef(phase) /\ BodyEnd' = BodyEnd
        /\ StopFreesItsOwn' = StopFreesItsOwn /\ StopKeeps' = StopKeeps
        /\ \A j : Overwrites(phase, j)' <=> Overwrites(phase, j)
    BY <2>1, CompilerKept
  <2>3. Types'
    BY <2>1 DEF LifeInv, Types, Visiting
  <2>4. Freeing' = Freeing /\ \A j : Holds(j)' <=> Holds(j)
    BY <2>1, <2>2 DEF Freeing, Holds
  <2>5. Before' /\ SlotsHold'
    BY <2>1, <2>2, <2>4 DEF LifeInv, RunInv, Before, SlotsHold
  <2>6. FreesSlots' /\ Owned'
    BY <2>1, <2>2, <2>4 DEF LifeInv, RunInv, FreesSlots, Owned
  <2>7. Running' = Running /\ (Overwritten' <=> Overwritten) /\ \A x : Assigned(x)' <=> Assigned(x)
    BY <2>1, <2>2 DEF Running, Overwritten, Assigned
  <2>8. Alive' /\ Meant'
    BY <2>1, <2>4, <2>7 DEF LifeInv, RunInv, Alive, Meant
  <2> QED
    BY <2>2, <2>3, <2>5, <2>6, <2>8 DEF LifeInv, RunInv
<1> QED
  BY <1>1, <1>2, <1>3, <1>4, <1>5, <1>6, <1>7, <1>8, <1>9, <1>10, <1>11, <1>12, <1>13 DEF Next, Visit, Run

(* What a compiled node keeps, whatever bodies the compiler accepted and   *)
(* however often the host starts, executes and stops it.                   *)
THEOREM LifecycleInvariant == Spec => []LifeInv
<1>1. Init => LifeInv
  BY InitHolds
<1>2. LifeInv /\ [Next]_vars => LifeInv'
  BY NextHolds
<1> QED
  BY <1>1, <1>2, PTL DEF Spec

(* No statement of a compiled node reads a container that is not           *)
(* allocated, in any program the compiler accepts; and STOP frees none     *)
(* that is not, unless its body assigned the variable it frees.            *)
THEOREM ContainersAreAllocated == Spec => []NoUseAfterFree
<1>1. LifeInv => NoUseAfterFree
  <2> SUFFICES ASSUME LifeInv, Running
               PROVE  /\ Now.kind = "use" => local[Now.source] \in live
                      /\ Now.kind = "free" /\ StopFreesItsOwn => local[Now.source] \in live
    BY DEF NoUseAfterFree
  <2>1. ASSUME Now.kind = "use" PROVE local[Now.source] \in live
    BY <2>1, SourceHolds
  <2>2. ASSUME Now.kind = "free", StopFreesItsOwn PROVE local[Now.source] \in live
    BY <2>2, FreesWhere
  <2> QED
    BY <2>1, <2>2
<1> QED
  BY <1>1, LifecycleInvariant, PTL

(* A use of a name reaches the container the Python program means, as long *)
(* as the call has not overwritten, through another name, the variable a   *)
(* name stands for, and no body assigns a state variable.                  *)
THEOREM NamesMeanWhatTheySay == Spec => []NamesKeepTheirMeaning
<1>1. LifeInv => NamesKeepTheirMeaning
  <2> SUFFICES ASSUME LifeInv, Running, Now.kind = "use", ~Overwritten
               PROVE  local[Now.source] = env[Now.as[1]]
    BY DEF NamesKeepTheirMeaning
  <2> QED
    BY ReadsAssigned, SourceHolds
<1> QED
  BY <1>1, LifecycleInvariant, PTL

(* Between two calls the slots of the host hold exactly the containers of  *)
(* the node's state, as many as there are state variables while the node   *)
(* is started and none after STOP, whatever START and EXECUTE do: STOP has *)
(* to reach its frees and must not assign the variables it frees.          *)
THEOREM HostOwnsTheState == Spec => []SlotsOwnTheState
<1>1. LifeInv => SlotsOwnTheState
  <2> SUFFICES ASSUME LifeInv, Idle, StopKeeps
               PROVE  /\ ToSet([i \in DOMAIN StateVars |-> slot[StateVars[i]]]) \ {Null} = live \cap stateful
                      /\ Cardinality(live \cap stateful) =
                           IF phase \in {"START", "EXECUTE"} THEN Len(StateVars) ELSE 0
    BY DEF SlotsOwnTheState
  <2> DEFINE held == live \cap stateful
  <2>0. /\ \A j \in 1 .. Held : Holds(j) <=> phase \in {"START", "EXECUTE"}
        /\ phase \in {"START", "EXECUTE"} => ~Freeing
    BY Between DEF Idle
  <2>1. /\ \A j \in 1 .. Held : slot[StateVars[j]] # Null => slot[StateVars[j]] \in held
        /\ \A i, j \in 1 .. Held :
             slot[StateVars[i]] # Null /\ slot[StateVars[i]] = slot[StateVars[j]] => i = j
        /\ \A c \in held : \E j \in 1 .. Held : slot[StateVars[j]] = c
        /\ Null \notin held
    <3>1. ASSUME NEW j \in 1 .. Held, slot[StateVars[j]] # Null
          PROVE  /\ Holds(j) /\ slot[StateVars[j]] \in held
                 /\ \A i \in 1 .. Held : Holds(i) /\ slot[StateVars[i]] = slot[StateVars[j]] => i = j
      <4>1. Holds(j) /\ ~Freeing
        BY <2>0, <3>1 DEF LifeInv, RunInv, Owned
      <4> QED
        BY <4>1 DEF LifeInv, RunInv, SlotsHold
    <3>2. /\ \A c \in held : \E j \in 1 .. Held : slot[StateVars[j]] = c
          /\ \A j \in 1 .. Held : slot[StateVars[j]] # Null => Holds(j)
      BY DEF LifeInv, RunInv, Owned
    <3>3. Null \notin held
      BY NamesOfNode DEF LifeInv, Types
    <3> HIDE DEF held
    <3> QED
      BY <3>1, <3>2, <3>3
  <2>2. DOMAIN StateVars = 1 .. Held /\ Held = Len(StateVars) /\ Held \in Nat
    BY NamesOfNode DEF Held
  <2>3. \A j \in 1 .. Held : StateVars[j] \in States
    BY NamesOfNode
  <2> DEFINE owners == [i \in 1 .. Held |-> slot[StateVars[i]]]
  <2>5. DOMAIN owners = 1 .. Held /\ ToSet(owners) = {owners[i] : i \in 1 .. Held}
    BY DEF ToSet
  <2>6. ToSet(owners) \ {Null} = held
    <3> HIDE DEF held
    <3>1. ASSUME NEW c \in ToSet(owners) \ {Null} PROVE c \in held
      BY <2>1, <2>5, <3>1
    <3>2. ASSUME NEW c \in held PROVE c \in ToSet(owners) \ {Null}
      <4>1. PICK j \in 1 .. Held : slot[StateVars[j]] = c
        BY <2>1
      <4>2. owners[j] = c
        BY <4>1
      <4> QED
        BY <2>1, <2>5, <4>2
    <3> QED
      BY <3>1, <3>2
  <2>7. /\ phase \in {"START", "EXECUTE"} => \A j \in 1 .. Held : slot[StateVars[j]] # Null
        /\ phase \notin {"START", "EXECUTE"} => \A j \in 1 .. Held : slot[StateVars[j]] = Null
    <3>1. ASSUME NEW j \in 1 .. Held, phase \in {"START", "EXECUTE"} PROVE slot[StateVars[j]] # Null
      BY <2>0, <3>1, NamesOfNode DEF LifeInv, RunInv, SlotsHold, Types
    <3>2. ASSUME NEW j \in 1 .. Held, phase \notin {"START", "EXECUTE"} PROVE slot[StateVars[j]] = Null
      BY <2>0, <3>2 DEF LifeInv, RunInv, Owned
    <3> QED
      BY <3>1, <3>2
  <2>8. CASE phase \in {"START", "EXECUTE"}
    <3>1. \A j \in 1 .. Held : owners[j] # Null
      BY <2>7, <2>8
    <3>2. owners \in Bijection(1 .. Held, held)
      <4>1. owners \in [1 .. Held -> held]
        BY <2>1, <3>1
      <4>2. \A i, j \in 1 .. Held : owners[i] = owners[j] => i = j
        BY <2>1, <3>1
      <4>3. \A c \in held : \E j \in 1 .. Held : owners[j] = c
        BY <2>5, <2>6
      <4> HIDE DEF owners, held
      <4> QED
        BY <4>1, <4>2, <4>3, Fun_IsBij
    <3>3. Cardinality(held) = Held
      <4>1. ExistsBijection(1 .. Held, held)
        BY <3>2 DEF ExistsBijection
      <4> QED
        BY <2>2, <4>1, FS_CountingElements
    <3> QED
      BY <2>2, <2>6, <2>8, <3>3
  <2>9. CASE phase \notin {"START", "EXECUTE"}
    <3>1. held = {}
      BY <2>1, <2>7, <2>9
    <3>2. Cardinality(held) = 0
      BY <3>1, FS_EmptySet
    <3> QED
      BY <2>2, <2>6, <2>9, <3>2
  <2> QED
    BY <2>8, <2>9
<1> QED
  BY <1>1, LifecycleInvariant, PTL

=============================================================================
