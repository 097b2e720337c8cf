----------------------------- MODULE Lifecycle -----------------------------
(***************************************************************************)
(* A compiled node and the memory of its containers: the visit that turns  *)
(* the three bodies of a node into one native function                     *)
(* (numba_ast_converter.py, numba_type_inference.py, variable_factory.py,  *)
(* models.ContainerType) and the calls a host makes to that function with  *)
(* the START, EXECUTE and STOP phases.                                     *)
(*                                                                         *)
(* The bodies are visited statement by statement: the name table decides   *)
(* which local variable of the generated function a name stands for.  The  *)
(* generated function is then run statement by statement: `live' is the    *)
(* set of allocated containers, `slot' the state array the host owns,      *)
(* `local' the variables of the call that is running.                      *)
(*                                                                         *)
(* Three history variables, which no action reads, give the Python meaning *)
(* of the program: `born' is the container the last START made for each    *)
(* state variable, `env' what a Python name of the running call is bound   *)
(* to, `stateful' every container START ever made and has not been reused. *)
(***************************************************************************)
EXTENDS Integers, FiniteSets, SequencesExt

CONSTANTS
    StateVars,      \* names of the container state variables, by array_idx
    Constants,      \* names of the list and dict arguments of the node
    UserNames,      \* the other names the bodies use
    Blocks,         \* the containers that can be allocated (a bound)
    Null,           \* the null pointer, or a name that is not bound
    MaxStatements   \* how many statements the bodies have together (a bound)

ASSUME LifecycleAssumption ==
    /\ IsInjective(StateVars \o Constants)
    /\ StateVars \in Seq(ToSet(StateVars)) /\ Constants \in Seq(ToSet(Constants))
    /\ UserNames \cap ToSet(StateVars \o Constants) = {}
    /\ Null \notin Blocks \cup UserNames \cup ToSet(StateVars \o Constants)
    /\ MaxStatements \in Nat

VARIABLES table, code, visiting, live, slot, local, phase, pc,
          born, env, stateful

compiler == <<table, code, visiting>>
history == <<born, env, stateful>>
vars == <<compiler, live, slot, local, phase, pc, history>>

Phases == {"START", "EXECUTE", "STOP"}
States == ToSet(StateVars)
Names == States \cup ToSet(Constants) \cup UserNames

-----------------------------------------------------------------------------
(* The visit.  A name of the table stands for the variable it maps to.     *)

BodyOrder == <<"START", "STOP", "EXECUTE">>

Body == BodyOrder[visiting]

Visiting == visiting <= Len(BodyOrder)

Emit(statement) ==
    /\ Visiting
    /\ Len(code["START"]) + Len(code["STOP"]) + Len(code["EXECUTE"]) < MaxStatements
    /\ code' = [code EXCEPT ![Body] = Append(@, statement)]
    /\ UNCHANGED <<visiting, live, slot, local, phase, pc, history>>

\* The bodies are Python: one reads a name of its own only after assigning it.
Defined(x) ==
    /\ table[x] # Null
    /\ \/ x \notin UserNames
       \/ \E i \in DOMAIN code[Body] : code[Body][i].as[1] = x

\* A statement reads `source', the variable the name `as' stands for.
Statement(kind, name, source, as) ==
    [kind |-> kind, name |-> name, source |-> source, as |-> as]

VisitName(x) ==
    /\ Visiting
    /\ Defined(x)
    /\ Emit(Statement("use", table[x], table[x], <<x, x>>))
    /\ UNCHANGED table

\* target = x.  A name that exists is assigned through its variable; a new
\* name for a container becomes an alias of the variable of x.
create_assignment_variable(target, x) ==
    LET variable == IF table[target] = Null THEN target ELSE table[target]
    IN  /\ Visiting
        /\ Defined(x)
        /\ Emit(Statement("bind", variable, table[x], <<target, x>>))
        /\ table' = IF table[target] = Null
                    THEN [table EXCEPT ![target] = table[x]]
                    ELSE table

\* target = create_new_list(...): add_variable refuses a name that exists.
try_lower_assignment(target) ==
    /\ table[target] = Null
    /\ Emit(Statement("new", target, target, <<target, target>>))
    /\ table' = [table EXCEPT ![target] = target]

\* A return, which a condition may or may not reach.
visit_Return ==
    /\ Emit(Statement("leave", Null, Null, <<Null, Null>>))
    /\ UNCHANGED table

VisitDone ==
    /\ Visiting
    /\ visiting' = visiting + 1
    /\ UNCHANGED <<table, code, live, slot, local, phase, pc, history>>

-----------------------------------------------------------------------------
(* The generated function.                                                 *)

ForEach(kind, names) ==
    [i \in DOMAIN names |-> Statement(kind, names[i], names[i],
                                      <<names[i], names[i]>>)]

emit_container_state_init == ForEach("init", StateVars)
emit_container_state_load == ForEach("load", StateVars)
emit_container_state_free == ForEach("free", StateVars)

\* The opaque constants come first, whatever the phase is.
top_body == ForEach("make", Constants)

\* Mutant: the containers are freed before the body of STOP runs.
visit_FunctionDef_free_first(p) ==
    top_body \o
    CASE p = "START"   -> emit_container_state_init \o code[p]
      [] p = "EXECUTE" -> emit_container_state_load \o code[p]
      [] p = "STOP"    -> emit_container_state_load
                            \o emit_container_state_free \o code[p]

visit_FunctionDef(p) ==
    top_body \o
    CASE p = "START"   -> emit_container_state_init \o code[p]
      [] p = "EXECUTE" -> emit_container_state_load \o code[p]
      [] p = "STOP"    -> emit_container_state_load \o code[p]
                            \o emit_container_state_free

Running == phase \in Phases /\ pc <= Len(visit_FunctionDef(phase))
Idle == ~Visiting /\ ~Running

Now == visit_FunctionDef(phase)[pc]

\* The running statement is of one of these kinds, and the next one follows.
Step(kind) ==
    /\ Running
    /\ Now.kind = kind
    /\ pc' = pc + 1
    /\ UNCHANGED <<compiler, phase>>

malloc(b) ==
    /\ b \in Blocks \ live
    /\ live' = live \cup {b}
    /\ local' = [local EXCEPT ![Now.name] = b]
    /\ env' = [env EXCEPT ![Now.as[1]] = b]

Make(b) ==
    /\ Step("make") \/ Step("new")
    /\ malloc(b)
    /\ stateful' = stateful \ {b}
    /\ UNCHANGED <<slot, born>>

init_statements(b) == [slot EXCEPT ![Now.name] = b]

InitContainer(b) ==
    /\ Step("init")
    /\ malloc(b)
    /\ slot' = init_statements(b)
    /\ stateful' = stateful \cup {b}
    /\ born' = [born EXCEPT ![Now.name] = b]

\* Mutant: every variable is read from the first slot.
loaded_first(v) == slot[StateVars[1]]

loaded(v) == slot[v]

LoadContainer ==
    /\ Step("load")
    /\ local' = [local EXCEPT ![Now.name] = loaded(Now.name)]
    /\ env' = [env EXCEPT ![Now.name] = born[Now.name]]
    /\ UNCHANGED <<live, slot, born, stateful>>

\* Mutant: the slot of a freed container keeps its pointer.
cleared_slot_kept(v) == slot

cleared_slot(v) == [slot EXCEPT ![v] = Null]

FreeContainer ==
    /\ Step("free")
    /\ live' = live \ {local[Now.name]}
    /\ slot' = cleared_slot(Now.name)
    /\ UNCHANGED <<local, history>>

Bind ==
    /\ Step("bind")
    /\ local' = [local EXCEPT ![Now.name] = local[Now.source]]
    /\ env' = [env EXCEPT ![Now.as[1]] = env[Now.as[2]]]
    /\ UNCHANGED <<live, slot, born, stateful>>

Use ==
    /\ Step("use")
    /\ UNCHANGED <<live, slot, local, history>>

Stay ==
    /\ Step("leave")
    /\ UNCHANGED <<live, slot, local, history>>

Leave ==
    /\ Running
    /\ Now.kind = "leave"
    /\ pc' = Len(visit_FunctionDef(phase)) + 1
    /\ UNCHANGED <<compiler, phase, live, slot, local, history>>

\* The host starts a node, executes it any number of times, stops it, and
\* may start it again.  The last conjunct bounds the containers that leak.
Call(p) ==
    /\ Idle
    /\ IF p = "START" THEN phase \in {"none", "STOP"}
                      ELSE phase \in {"START", "EXECUTE"}
    /\ Cardinality(Blocks \ live) >=
         Cardinality({i \in DOMAIN visit_FunctionDef(p) :
                        visit_FunctionDef(p)[i].kind \in {"make", "new", "init"}})
    /\ phase' = p
    /\ pc' = 1
    /\ local' = [v \in Names |-> Null]
    /\ env' = [n \in Names |-> Null]
    /\ UNCHANGED <<compiler, live, slot, born, stateful>>

-----------------------------------------------------------------------------
Init ==
    /\ table = [n \in Names |-> IF n \in UserNames THEN Null ELSE n]
    /\ code = [p \in Phases |-> <<>>]
    /\ visiting = 1
    /\ live = {}
    /\ slot = [v \in States |-> Null]
    /\ local = [v \in Names |-> Null]
    /\ phase = "none"
    /\ pc = 1
    /\ born = [v \in States |-> Null]
    /\ env = [n \in Names |-> Null]
    /\ stateful = {}

Visit ==
    \/ \E x \in Names : VisitName(x)
    \/ \E target, x \in Names : create_assignment_variable(target, x)
    \/ \E target \in UserNames : try_lower_assignment(target)
    \/ visit_Return
    \/ VisitDone

Run ==
    \/ \E b \in Blocks : Make(b) \/ InitContainer(b)
    \/ LoadContainer
    \/ FreeContainer
    \/ Bind
    \/ Use
    \/ Stay
    \/ Leave

Next == Visit \/ Run \/ \E p \in Phases : Call(p)

\* Every program the compiler accepts.
Spec == Init /\ [][Next]_vars

-----------------------------------------------------------------------------
(* What a program may do that the properties except.  The table is one for *)
(* all bodies: a body that gives t the container of s1 makes t stand for   *)
(* s1 in the others too, and an assignment to t there, from any other      *)
(* container, is compiled to one of s1.                                    *)

\* Statement j of phase p writes, from another variable, the variable that
\* another name, assigned before it in the same call, stands for.
Overwrites(p, j) ==
    LET f == visit_FunctionDef(p)
    IN  /\ f[j].kind = "bind"
        /\ f[j].source # f[j].name
        /\ \E i \in 1 .. j - 1, x \in Names \ {f[j].as[1]} :
             f[i].as[1] = x /\ table[x] = f[j].name

\* The running call did so.
Overwritten == \E j \in 1 .. pc - 1 : Overwrites(phase, j)

\* No body assigns a state variable: in Python it would stay assigned after
\* the call, here the next call loads the slot again.
StatesKept ==
    \A p \in Phases : \A i \in DOMAIN code[p] :
        code[p][i].kind = "bind" => code[p][i].as[1] \notin States

\* STOP does not write the variable of a state container it is to free.
StopFreesItsOwn ==
    \A i \in DOMAIN code["STOP"] :
        LET st == code["STOP"][i]
        IN  st.kind = "bind" /\ st.name \in States => st.source = st.name

\* And it reaches its end.
StopKeeps ==
    /\ StopFreesItsOwn
    /\ \A i \in DOMAIN code["STOP"] : code["STOP"][i].kind # "leave"

-----------------------------------------------------------------------------
\* No call reads or frees a container that is not allocated: not after STOP
\* freed it, not twice, not through a null pointer.  A read never does, in any
\* program; a free may, if the body of STOP assigned the freed variable.
NoUseAfterFree ==
    /\ Running /\ Now.kind = "use" => local[Now.source] \in live
    /\ Running /\ Now.kind = "free" /\ StopFreesItsOwn => local[Now.source] \in live

\* Between two calls the slots of the host hold exactly the containers of the
\* node's state, each in one slot; after STOP none is left.  START and EXECUTE
\* may do anything; STOP must reach its frees and leave their variables alone.
SlotsOwnTheState ==
    Idle /\ StopKeeps =>
        /\ ToSet([i \in DOMAIN StateVars |-> slot[StateVars[i]]]) \ {Null}
             = live \cap stateful
        /\ Cardinality(live \cap stateful) =
             IF phase \in {"START", "EXECUTE"} THEN Len(StateVars) ELSE 0

\* The comment on STOP (numba_ast_converter.py): it must release the native
\* allocations before the host drops its slots.
StopReleases == Idle /\ phase = "STOP" => live \cap stateful = {}

\* A use of a name reaches the container that name is bound to in the Python
\* program, where a state variable is bound to what the last START made, unless
\* the call overwrote the variable of one name through another.
NamesKeepTheirMeaning ==
    Running /\ Now.kind = "use" /\ StatesKept /\ ~Overwritten =>
        local[Now.source] = env[Now.as[1]]
=============================================================================
