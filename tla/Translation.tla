---------------------------- MODULE Translation ----------------------------
(***************************************************************************)
(* One node through the compiler and at run time.  The bodies of START,    *)
(* STOP and EXECUTE are visited in that order (numba_ast_converter.py), a  *)
(* statement at a time, with one table of names; the function they become  *)
(* is then called by the host.  Beside it, the same statements run as      *)
(* Python would run them.                                                  *)
(*                                                                         *)
(* A source expression is [e, n, v, l, r] and a statement [s, n, es]: see  *)
(* the constructors.  Generated expressions and statements are of the same *)
(* two shapes.  Bodies without branches and loops; the containers are in   *)
(* Lifecycle.                                                              *)
(***************************************************************************)
EXTENDS Analysis

CONSTANTS
  Nodes,           \* the declarations to translate
  Statements(_),   \* the statements a body of a node may have
  Inputs,          \* the numbers the host sends
  MaxStatements, MaxEdge, MaxCalls    \* bounds: in all, in START and STOP, of EXECUTE

VARIABLES
  node,      \* the declaration
  phase,     \* the body being visited, then "run", or "refused"
  names,     \* variable_name_map
  tmp,       \* temporary_variable_counter
  code,      \* the generated statements of each body
  source,    \* the statements of each body (a history)
  memory,    \* the cells of the host: outputs, state and inputs
  ticked,    \* output_ticked
  python,    \* Python's machine: the cells as it would leave them, what ticked
  faulted,   \* a name was used that nothing had been assigned to
  calls      \* of the function so far

vars == <<node, phase, names, tmp, code, source, memory, ticked, python, faulted, calls>>

Bodies == {"start", "stop", "execute"}
NextBody(body) == CASE body = "start" -> "stop" [] body = "stop" -> "execute" [] body = "execute" -> "run"

\* Expressions
Nil == [e |-> "none"]
Const(v) == [e |-> "const", v |-> v]
Name(n) == [e |-> "name", n |-> n]
Cell(n) == [e |-> "cell", n |-> n]                   \* n[0], in generated code
Field(x) == [e |-> "field", l |-> x]                 \* x.f
Op(op, x, y) == [e |-> op, l |-> x, r |-> y]         \* "plus" or "less"
Datetime(n) == [e |-> "datetime", v |-> Value("int", n)]

\* Statements
Assign(n, x) == [s |-> "assign", n |-> n, es |-> <<x>>]
SetField(n, x) == [s |-> "field", n |-> n, es |-> <<x>>]
SetOutput(n, x) == [s |-> "output", n |-> n, es |-> <<x>>]
Return(xs) == [s |-> "return", n |-> <<>>, es |-> xs]
\* in generated code: assign, field, and
Store(n, x) == [s |-> "store", n |-> n, es |-> <<x>>]     \* n[0] = x
Copy(n, x) == [s |-> "copy", n |-> n, es |-> <<x>>]       \* struct_memcpy(n, x, size)
Tick(i) == [s |-> "tick", n |-> i, es |-> <<>>]
Bad == [s |-> "bad", n |-> <<>>, es |-> <<>>]             \* a literal as a target

\* What a body may be made of
IsOperand(x) ==
  \/ x.e = "name" /\ x = Name(x.n) /\ IsSourceName(x.n)
  \/ x.e = "const" /\ x = Const(x.v) /\ x.v.type \in Primitives /\ IsNumber(x.v)
IsExpression(x) ==
  \/ IsOperand(x) \/ x = Nil
  \/ x.e = "field" /\ x = Field(x.l) /\ x.l = Name(x.l.n) /\ IsSourceName(x.l.n)
  \/ x.e \in {"plus", "less"} /\ x = Op(x.e, x.l, x.r) /\ IsOperand(x.l) /\ IsOperand(x.r)
  \/ x.e = "datetime" /\ x = Datetime(x.v.n) /\ IsNumber(x.v)
IsStatement(st) ==
  /\ st = [s |-> st.s, n |-> st.n, es |-> st.es]
  /\ IsSequence(st.es) /\ \A i \in DOMAIN st.es : IsExpression(st.es[i])
  /\ \/ st.s \in {"assign", "field", "output"} /\ IsSourceName(st.n) /\ Len(st.es) = 1
     \/ st.s = "return"

TranslationAssumption ==
  /\ 0 \in Inputs /\ \A i \in Inputs : i \in Int
  /\ {MaxStatements, MaxEdge, MaxCalls} \subseteq Nat
  /\ \A d \in Nodes : IsDeclaration(d) /\ \A st \in Statements(d) : IsStatement(st)

ASSUME TranslationAssumption

-----------------------------------------------------------------------------
\* Sources as expressions and as targets

local_variable_name(var) == IF var.source = "OutputSource" THEN OutputPointer(var.idx) ELSE var.name

get_by_source(var) ==    \* mutant: is_opaque_pointer() of the source
  CASE var.source \in {"ConstantSource", "LocalConstantSource"} -> Const(var.value)
    [] var.source = "LocalVariableSource" \/ var.opaque -> Name(local_variable_name(var))
    [] OTHER -> Cell(local_variable_name(var))

\* VariableSource.get: a void-pointer source looks at its type alone.
get(var) ==
  CASE var.source \in {"ConstantSource", "LocalConstantSource"} -> Const(var.value)
    [] var.source = "LocalVariableSource" \/ var.type.class = "StructType" -> Name(local_variable_name(var))
    [] OTHER -> Cell(local_variable_name(var))

\* AST.assignment to what get() returned
assignment(target, x) ==
  CASE target.e = "name" -> Assign(target.n, x)
    [] target.e = "cell" -> Store(target.n, x)
    [] OTHER -> Bad

Known(table, n) == n \in DOMAIN table
IsStruct(table, n) == Known(table, n) /\ table[n].type.class = "StructType"
visit_Name(table, n) == IF Known(table, n) THEN get(table[n]) ELSE Name(n)

\* Attribute: struct_attribute_transformer, which clients with structs register,
\* names the base as the source does.
visit_atom(table, x) ==
  CASE x.e = "name"  -> visit_Name(table, x.n)
    [] x.e = "field" -> IF IsStruct(table, x.l.n) THEN x ELSE Field(visit_Name(table, x.l.n))
    [] x.e = "datetime" -> Const(x.v)
    [] OTHER -> x
visit(table, x) ==
  IF x.e \in {"plus", "less"} THEN Op(x.e, visit_atom(table, x.l), visit_atom(table, x.r))
                              ELSE visit_atom(table, x)

get_type_from_ast(x) ==
  CASE x.e = "const" -> get_type(x.v.type, x.v.type)
    [] x.e = "less"  -> [class |-> "PrimitiveType", value |-> "bool"]
    [] OTHER -> Unknown

-----------------------------------------------------------------------------
\* The result of a visit: statements, the table, the counter, and whether it
\* raised.

Visited(stmts, table, count) == [code |-> stmts, names |-> table, tmp |-> count, ok |-> TRUE]
Raises == [code |-> <<>>, names |-> <<>>, tmp |-> 0, ok |-> FALSE]
With(table, n, var) == [m \in DOMAIN table \cup {n} |-> IF m = n THEN var ELSE table[m]]

\* from_ast: a variable for an expression, and what computes it first
from_ast(table, count, x) ==
  LET t == Temporary(count)
      temporary(var, stmts) == [var |-> var, code |-> stmts, names |-> With(table, t, var), tmp |-> count + 1]
  IN  CASE x.e = "name" /\ Known(table, x.n) ->
             [var |-> table[x.n], code |-> <<>>, names |-> table, tmp |-> count]
        [] x.e = "name" /\ ~Known(table, x.n) ->
             LET var == LocalVariableSource(Unknown, x.n)
             IN  [var |-> var, code |-> <<>>, names |-> With(table, x.n, var), tmp |-> count]
        [] x.e = "const" -> temporary(LocalConstantSource(get_type(x.v.type, "unknown"), t, x.v), <<>>)
        [] x.e = "none"  -> temporary(LocalConstantSource(Unknown, t, Value("none", 0)), <<>>)
        [] OTHER ->
             LET value == visit(table, x)
             IN  temporary(LocalVariableSource(get_type_from_ast(value), t), <<Assign(t, value)>>)

write_accepts_anything(out, type) == TRUE    \* mutant: no check of the type

write_accepts_known(out, type) == type = out.type    \* mutant: an unknown type is refused

write_accepts(out, type) ==
  CASE out.type.class = "StructType"    -> type = out.type
    [] out.type.class = "PrimitiveType" -> type.value \in {"unknown", out.type.value}
    [] OTHER -> TRUE

\* OutputSource.write and the tick
write(out, x) ==
  <<IF out.type.class = "StructType" THEN Copy(local_variable_name(out), x)
                                     ELSE Store(local_variable_name(out), x), Tick(out.idx)>>

Outputs(table) == {n \in DOMAIN table : table[n].source = "OutputSource"}

\* AST.set_output; the get() of a None raises
visit_set_output(table, count, st) ==
  LET r == from_ast(table, count, st.es[1])
  IN  IF st.n \notin Outputs(table) \/ st.es[1] = Nil \/ ~write_accepts(table[st.n], r.var.type)
        THEN Raises
        ELSE Visited(r.code \o write(table[st.n], get(r.var)), r.names, r.tmp)

\* visit_Return: the i-th element; get_output_by_idx may raise.
visit_element(acc, i, x) ==
  LET outs == {n \in Outputs(acc.names) : acc.names[n].idx = i}
      out == acc.names[CHOOSE n \in outs : TRUE]
      r == from_ast(acc.names, acc.tmp, x)
  IN  CASE ~acc.ok \/ outs = {} -> Raises
        [] acc.ok /\ outs # {} /\ x = Nil -> Visited(acc.code, r.names, r.tmp)
        [] OTHER -> IF write_accepts(out, r.var.type)
                      THEN Visited(acc.code \o r.code \o write(out, get(r.var)), r.names, r.tmp)
                      ELSE Raises

visit_Return(table, count, st) ==
  LET after[i \in 0 .. Len(st.es)] ==
        IF i = 0 THEN Visited(<<>>, table, count) ELSE visit_element(after[i - 1], i, st.es[i])
      all == after[Len(st.es)]
  IN  IF all.ok THEN Visited(Append(all.code, Return(<<>>)), all.names, all.tmp) ELSE Raises

\* The rest of visit_Assign, once nothing else took the assignment
generic_visit(table, count, st) ==
  LET stmt == assignment(visit_Name(table, st.n), visit(table, st.es[1]))
  IN  IF stmt = Bad THEN Raises ELSE Visited(<<stmt>>, table, count)

\* create_assignment_variable for a source and its value
assign_known(table, count, target, type, value) ==
  IF Known(table, target)
    THEN LET stmt == assignment(get(table[target]), value)
         IN  IF stmt = Bad THEN Raises ELSE Visited(<<stmt>>, table, count)
    ELSE Visited(<<Assign(target, value)>>, With(table, target, LocalVariableSource(type, target)), count)

visit_Assign(table, count, st) ==
  LET x == st.es[1]
  IN  CASE x.e = "field" /\ IsStruct(table, x.l.n) ->       \* handle_call_chain, struct_attr_handler
             assign_known(table, count, st.n, get_type("float", "unknown"), Field(get(table[x.l.n])))
        [] x.e = "name" /\ Known(table, x.n) ->
             LET var == table[x.n]
             IN  IF var.opaque /\ ~Known(table, st.n)
                   THEN Visited(<<Assign(st.n, get(var))>>, With(table, st.n, var), count)    \* add_alias
                   ELSE assign_known(table, count, st.n, var.type, get(var))
        [] x.e = "datetime" ->    \* try_lower_assignment, whose add_variable may raise
             IF Known(table, st.n) THEN Raises
             ELSE generic_visit(With(table, st.n, LocalVariableSource(get_type("datetime", "unknown"), st.n)), count, st)
        [] OTHER -> generic_visit(table, count, st)

\* set_field of a struct variable; of any other, a store that no run gets past
visit_field_store(table, count, st) ==
  Visited(<<SetField(st.n, visit(table, st.es[1]))>>, table, count)

visit_statement(table, count, st) ==
  CASE st.s = "assign" -> visit_Assign(table, count, st)
    [] st.s = "field"  -> visit_field_store(table, count, st)
    [] st.s = "output" -> visit_set_output(table, count, st)
    [] st.s = "return" -> visit_Return(table, count, st)

-----------------------------------------------------------------------------
\* Running statements.  Numba converts what is stored to the type of the cell.

Convert(type, v) ==
  CASE resolve_numba_name(type) = "int64"   -> Value("int", int(v.n))
    [] resolve_numba_name(type) = "float64" -> Value("float", v.n)
    [] resolve_numba_name(type) = "int8"    -> Value("bool", int(v.n))

Nothing == Value("nothing", 0)
Pointer(cell) == Value("pointer", cell)
Number(v) == v.type \in Primitives

Vars(table) == {table[n] : n \in DOMAIN table}
Of(table, kind) == {v \in Vars(table) : v.source = kind}
CellOf(v) == <<v.source, v.idx>>
CellVars == Of(names, "OutputSource") \cup Of(names, "StateSource") \cup Of(names, "InputSource")
CellType(cell) == (CHOOSE v \in CellVars : CellOf(v) = cell).type.value
ToStruct(v) == v.type = "pointer" /\ CellType(v.n) \in Structs
Scalar(v) == v.type.class # "StructType"
Stored(cell, v) == IF CellType(cell) \in Structs THEN v ELSE Convert(CellType(cell), v)

Atom(env, cells, x) ==
  CASE x.e \in {"const", "datetime"} -> x.v
    [] x.e = "name" -> IF Known(env, x.n) THEN env[x.n] ELSE Nothing
    [] x.e = "cell" -> IF Known(env, x.n) /\ env[x.n].type = "pointer" THEN cells[env[x.n].n] ELSE Nothing
    [] OTHER -> Nothing

Eval(env, cells, x) ==
  LET a == Atom(env, cells, x.l)
      b == Atom(env, cells, x.r)
  IN  CASE x.e = "field" -> IF ToStruct(a) THEN cells[a.n] ELSE Nothing
        [] x.e \in {"plus", "less"} ->
             IF ~(Number(a) /\ Number(b)) THEN Nothing
             ELSE IF x.e = "less" THEN Value("bool", IF a.n < b.n THEN 2 ELSE 0)
             ELSE Value(IF "float" \in {a.type, b.type} THEN "float" ELSE "int", a.n + b.n)
        [] OTHER -> Atom(env, cells, x)

init_filter_execute(body) ==    \* mutant: START and STOP read nothing
  IF body = "execute" THEN {v \in Vars(names) : v.source \in {"StateSource", "OutputSource", "InputSource"}} ELSE {}

\* The sources whose read() a phase executes, by their init_filter
init_filter(body) ==
  Of(names, "StateSource")
    \cup (IF body = "execute" THEN Of(names, "OutputSource") \cup Of(names, "InputSource") ELSE {})

Environment(body) ==
  [n \in {local_variable_name(v) : v \in init_filter(body) \cup Of(names, "ConstantSource")} |->
     LET v == CHOOSE v \in init_filter(body) \cup Of(names, "ConstantSource") : local_variable_name(v) = n
     IN  IF v.source = "ConstantSource" THEN v.value ELSE Pointer(CellOf(v))]

\* A generated statement; the machine stops at one that uses an unset name.
Execute(m, st) ==
  LET v == IF st.es = <<>> THEN Nothing ELSE Eval(m.env, m.cells, st.es[1])
      p == IF Known(m.env, st.n) THEN m.env[st.n] ELSE Nothing
      fault == [m EXCEPT !.fault = TRUE]
  IN  IF m.done \/ m.fault THEN m ELSE
      CASE st.s = "return" -> [m EXCEPT !.done = TRUE]
        [] st.s = "tick"   -> [m EXCEPT !.ticks = @ \cup {st.n}]
        [] st.s = "assign" -> IF v.type = "nothing" THEN fault ELSE [m EXCEPT !.env = With(@, st.n, v)]
        [] st.s = "field"  -> IF ~ToStruct(p) \/ ~Number(v) THEN fault
                              ELSE [m EXCEPT !.cells[p.n] = Convert("float", v)]
        [] st.s = "store"  -> IF p.type # "pointer" \/ ~Number(v) THEN fault
                              ELSE [m EXCEPT !.cells[p.n] = Convert(CellType(p.n), v)]
        [] st.s = "copy"   -> IF p.type # "pointer" \/ ~ToStruct(v) THEN fault
                              ELSE [m EXCEPT !.cells[p.n] = m.cells[v.n]]

Machine(env, cells) == [env |-> env, cells |-> cells, ticks |-> {}, fault |-> FALSE, done |-> FALSE, leaks |-> {}]

Execution(m, stmts) ==
  LET after[i \in 0 .. Len(stmts)] == IF i = 0 THEN m ELSE Execute(after[i - 1], stmts[i])
  IN  after[Len(stmts)]

\* The same statements as Python means them.  A name of a scalar is the value
\* itself; every output, and every scalar state at the end, goes to its cell.
\* leaks collects the values of another type than the one declared or
\* inferred; a datetime is the int of its nanoseconds, but not one to emit as
\* such.  The machine stops (fault) where Python raises a TypeError, and where
\* a name is a struct and a number, which Numba has no type for.
Contents(m, v) == IF v.type = "pointer" THEN m.cells[v.n] ELSE v
OutputNamed(i) == CHOOSE v \in Of(names, "OutputSource") : v.idx = i
Retyped(n) == [kind |-> "retyped", n |-> n]
Emitted(i, x) == [kind |-> "emitted", i |-> i, x |-> x]
PythonType(v) == IF v.type.value = "datetime" THEN "int" ELSE v.type.value
TypeOf(v) == IF v.type = "pointer" THEN CellType(v.n) ELSE v.type
Typed(n) == Known(names, n) /\ names[n].type # Unknown
Instant(x) == x.e = "name" /\ Known(names, x.n) /\ names[x.n].type.class = "DateTimeType"

Emit(m, i, x) ==
  LET v == Eval(m.env, m.cells, x)
      out == OutputNamed(i)
      other == TypeOf(v) # PythonType(out) \/ (Instant(x) /\ out.type.class = "PrimitiveType")
  IN  IF x = Nil \/ m.fault THEN m
      ELSE IF v.type = "nothing" THEN [m EXCEPT !.fault = TRUE]
      ELSE [m EXCEPT !.cells[<<"OutputSource", i>>] = Contents(m, v), !.ticks = @ \cup {i},
                     !.leaks = IF other THEN @ \cup {Emitted(i, x)} ELSE @,
                     !.fault = ToStruct(v) # ~Scalar(out)]

PythonReturn(m, xs) ==
  LET after[i \in 0 .. Len(xs)] == IF i = 0 THEN m ELSE Emit(after[i - 1], i, xs[i])
  IN  [after[Len(xs)] EXCEPT !.done = TRUE]

PythonExecute(m, st) ==
  LET v == Eval(m.env, m.cells, st.es[1])
      retyped == Typed(st.n) /\ TypeOf(v) # PythonType(names[st.n])
      mixed == Known(names, st.n) /\ ToStruct(v) # ~Scalar(names[st.n])
      p == m.env[st.n]
  IN  IF m.done \/ m.fault THEN m ELSE
      CASE st.s = "assign" -> IF v.type = "nothing" THEN [m EXCEPT !.fault = TRUE]
                              ELSE [m EXCEPT !.env = With(@, st.n, v), !.fault = mixed,
                                             !.leaks = IF retyped THEN @ \cup {Retyped(st.n)} ELSE @]
        [] st.s = "field"  -> IF ~ToStruct(p) \/ ~Number(v) THEN [m EXCEPT !.fault = TRUE]
                              ELSE [m EXCEPT !.cells[p.n] = Convert("float", v)]
        [] st.s = "output" -> Emit(m, names[st.n].idx, st.es[1])
        [] st.s = "return" -> PythonReturn(m, st.es)

PythonEnvironment(cells) ==
  [n \in {v.name : v \in Of(names, "ConstantSource") \cup Of(names, "StateSource") \cup Of(names, "InputSource")} |->
     LET v == names[n]
     IN  IF v.source = "ConstantSource" THEN Value(PythonType(v), v.value.n)
         ELSE IF Scalar(v) THEN cells[CellOf(v)] ELSE Pointer(CellOf(v))]

\* A call, from what the calls before it left
PythonRun(stmts, was) ==
  LET begun == [was EXCEPT !.env = PythonEnvironment(was.cells), !.ticks = {}, !.done = FALSE]
      after[i \in 0 .. Len(stmts)] == IF i = 0 THEN begun ELSE PythonExecute(after[i - 1], stmts[i])
      m == after[Len(stmts)]
      state(c) == CHOOSE v \in Of(names, "StateSource") : CellOf(v) = c
  IN  [m EXCEPT !.env = <<>>,
                !.cells = [c \in DOMAIN was.cells |->
                             IF c[1] = "StateSource" THEN Contents(m, m.env[state(c).name]) ELSE m.cells[c]]]

-----------------------------------------------------------------------------

\* The node is declared; analysis and create_variables may raise.
Init ==
  /\ node \in Nodes
  /\ LET made == created_variables(node)
         ok == analysed(node) /\ Distinct(made)
     IN  /\ phase = IF ok THEN "start" ELSE "refused"
         /\ names = IF ok THEN [n \in {made[i].name : i \in DOMAIN made} |->
                                  made[CHOOSE i \in DOMAIN made : made[i].name = n]]
                          ELSE <<>>
  /\ tmp = 0
  /\ code = [b \in Bodies |-> <<>>] /\ source = code
  /\ memory = <<>> /\ ticked = {} /\ python = Machine(<<>>, <<>>) /\ faulted = FALSE /\ calls = 0

Written == Len(source.start) + Len(source.stop) + Len(source.execute)

\* visit_FunctionDef visits a statement of the current body.
VisitStatement(st) ==
  /\ phase \in Bodies /\ Written < MaxStatements
  /\ phase # "execute" => Len(source[phase]) < MaxEdge
  /\ source' = [source EXCEPT ![phase] = Append(@, st)]
  /\ LET r == visit_statement(names, tmp, st)
     IN  IF r.ok THEN /\ code' = [code EXCEPT ![phase] = @ \o r.code]
                      /\ names' = r.names /\ tmp' = r.tmp /\ UNCHANGED phase
                 ELSE /\ phase' = "refused" /\ UNCHANGED <<code, names, tmp>>
  /\ UNCHANGED <<node, memory, ticked, python, faulted, calls>>

\* The host allocates the cells, the state from the declared values
\* (primitive_support.py:89); the harness of the tests leaves those at zero.
HostCells ==
  [c \in {CellOf(v) : v \in CellVars} |->
     IF c[1] = "StateSource" THEN state_values(node)[c[2]]
     ELSE Stored(c, Value("float", 0))]

EndBody ==
  /\ phase \in Bodies
  /\ phase' = NextBody(phase)
  /\ IF phase = "execute"
       THEN memory' = HostCells /\ python' = Machine(<<>>, HostCells)
       ELSE UNCHANGED <<memory, python>>
  /\ UNCHANGED <<node, names, tmp, code, source, ticked, faulted, calls>>

Schedule(i) == IF i = 0 THEN "start" ELSE IF i <= MaxCalls THEN "execute" ELSE "stop"

\* The host calls the function: with new inputs, and no output ticked.
Call(input) ==
  /\ phase = "run" /\ calls <= MaxCalls + 1 /\ ~faulted
  /\ LET body == Schedule(calls)
         fed(cells) == [c \in DOMAIN cells |->
                          IF c[1] = "InputSource" THEN Stored(c, Value("float", input)) ELSE cells[c]]
         m == Execution(Machine(Environment(body), fed(memory)), code[body])
     IN  /\ memory' = m.cells /\ ticked' = m.ticks /\ faulted' = m.fault
         /\ python' = PythonRun(source[body], [python EXCEPT !.cells = fed(python.cells)])
  /\ calls' = calls + 1
  /\ UNCHANGED <<node, phase, names, tmp, code, source>>

\* A body a Python programmer may write: the names a statement uses have been
\* given a value in the same body, or are parameters or state.
Used(x) ==
  CASE x.e = "name" -> {x.n}
    [] x.e = "field" -> {x.l.n}
    [] x.e \in {"plus", "less"} -> {y.n : y \in {y \in {x.l, x.r} : y.e = "name"}}
    [] OTHER -> {}
Assigned(stmts) == {stmts[i].n : i \in {i \in DOMAIN stmts : stmts[i].s = "assign"}}
Visible(kind) == {v.name : v \in Of(names, kind)}

InScope(body) ==
  Assigned(source[body]) \cup Visible("ConstantSource") \cup Visible("StateSource")
    \cup (IF body = "execute" THEN Visible("InputSource") ELSE {})

Meaningful(st) ==
  /\ \A i \in DOMAIN st.es : Used(st.es[i]) \subseteq InScope(phase)
  /\ st.s = "field" => st.n \in InScope(phase)
  /\ \A i \in DOMAIN source[phase] : source[phase][i].s # "return"

Next ==
  \/ phase \in Bodies /\ \E st \in Statements(node) : Meaningful(st) /\ VisitStatement(st)
  \/ EndBody
  \/ \E input \in Inputs : (Schedule(calls) # "execute" => input = 0) /\ Call(input)

Spec == Init /\ [][Next]_vars

-----------------------------------------------------------------------------

\* The kinds of value the variables hold.
TypeOK ==
  /\ phase \in Bodies \cup {"run", "refused"}
  /\ tmp \in Nat /\ \A i \in 0 .. tmp - 1 : Known(names, Temporary(i))
  /\ calls \in 0 .. MaxCalls + 2
  /\ \A b \in Bodies : \A i \in DOMAIN code[b] :
       code[b][i].s \in {"assign", "field", "store", "copy", "tick", "return"}
  /\ phase = "run" =>
       /\ DOMAIN memory = {CellOf(v) : v \in CellVars} /\ DOMAIN python.cells = DOMAIN memory
       /\ \A c \in DOMAIN memory : Number(memory[c])
       /\ \A c \in DOMAIN memory : CellType(c) \in Primitives => memory[c].type = CellType(c)

\* primitive_support.py:89: "State storage is allocated by the host from the
\* concrete Python value, while generated code reads it using the declared
\* State type": slot for slot they have one representation, and the larger
\* come first, so that no slot is misaligned behind a smaller one.
SlotsAgree ==
  \A v, w \in Of(names, "StateSource") :
    /\ Scalar(v) => resolve_numba_name(v.type.value) = resolve_numba_name(state_values(node)[v.idx].type)
    /\ v.idx < w.idx => get_type_size(v.type.value) >= get_type_size(w.type.value)

\* What the compiler translates as something else than Python means: an
\* assignment to the name of an output; a second one to a name that stands for
\* an input or a struct of the state, which is written through; outputs set in
\* START or STOP, where their pointers are not loaded.
AssignedOnce(b, i) ==
  \A c \in Bodies : \A j \in DOMAIN source[c] :
    source[c][j].s = "assign" /\ source[c][j].n = source[b][i].n => c = b /\ j = i
WritesThrough(v) == v.source = "InputSource" \/ (v.source = "StateSource" /\ ~Scalar(v))

Plain ==
  \A b \in Bodies : \A i \in DOMAIN source[b] :
    LET st == source[b][i]
        v == names[st.n]
    IN  /\ st.s \in {"output", "return"} => b = "execute"
        /\ st.s = "assign" /\ Known(names, st.n) =>
             /\ v.source # "OutputSource"
             /\ WritesThrough(v) => st.n # v.name /\ AssignedOnce(b, i)

\* Compiled code does what the Python source says, over START, EXECUTE and
\* STOP: every output, every state and every input buffer holds the value, and
\* the same outputs tick, if the types are those declared and Python raises
\* nothing.
PythonMeaning ==
  phase = "run" /\ Plain /\ ~python.fault /\ python.leaks = {} =>
    /\ \A c \in DOMAIN memory : memory[c].n = python.cells[c].n
    /\ ticked = python.ticks

\* No phase reads a name before it is set.
NoFault == Plain /\ ~python.fault => ~faulted

\* variable_factory.py:203: a value of another type than the output's is
\* refused wherever the compiler knows its type; it does not know the type of
\* a sum, of a field, or of a name assigned from one, and takes the first type
\* of a name for every later one.  An output for a datetime takes anything, an
\* output for a struct nothing whose type is not known.
MistypedIsRefused ==
  phase = "run" =>
    \A i \in {v.idx : v \in Of(names, "OutputSource")} :
      \A x \in {leak.x : leak \in {leak \in python.leaks : leak.kind = "emitted" /\ leak.i = i}} :
        OutputNamed(i).type.class # "DateTimeType" =>
          /\ x.e \notin {"const", "less"}
          /\ x.e = "name" /\ Typed(x.n) => Retyped(x.n) \in python.leaks
          /\ ~Scalar(OutputNamed(i)) => x.e = "name" /\ Typed(x.n)

\* The compiler refuses no node whose types are right in Python, but for what
\* it cannot do: assign to a constant, assign a datetime(...) to a name that
\* has a source, emit None, return more values than there are outputs.
LastBody == IF source.execute # <<>> THEN "execute" ELSE IF source.stop # <<>> THEN "stop" ELSE "start"
Excused(st) ==
  \/ st.s = "assign" /\ Known(names, st.n)
     /\ (names[st.n].source = "ConstantSource" \/ st.es[1].e = "datetime")
  \/ st.s = "output" /\ (st.es[1] = Nil \/ st.n \notin Outputs(names))
  \/ st.s = "return" /\ \E i \in DOMAIN st.es : \A v \in Of(names, "OutputSource") : v.idx # i

AcceptsHonest ==
  phase = "refused" /\ Written > 0 =>
    \/ Excused(source[LastBody][Len(source[LastBody])])
    \/ LET r == PythonRun(source[LastBody], Machine(<<>>, HostCells))
       IN  r.leaks # {} \/ r.fault
=============================================================================
