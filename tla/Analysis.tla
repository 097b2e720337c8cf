------------------------------ MODULE Analysis ------------------------------
(***************************************************************************)
(* What the compiler knows of a node before it translates the body: the    *)
(* types (type_factory.py, type_registry.py, defaults/), the parameters,   *)
(* the state and the outputs (function_analyzer.py), and the variable      *)
(* sources the categories make of them (defaults/source_categories.py).    *)
(*                                                                         *)
(* A Python value is [type, n]; numbers are counted in halves, so that a   *)
(* lost fraction shows.  A declaration is [constants, inputs, states,      *)
(* outputs, named]; its parts are sequences of [name, type, value], where  *)
(* the value is what was passed or written, and its type may be "call" for *)
(* a datetime(...) or "name" for anything that is not a literal.           *)
(* A name is a word and a number, so that those the compiler makes differ  *)
(* from those of the source: tmp_3 is <<"tmp", 3>>, x is <<"x", 0>>.       *)
(***************************************************************************)
EXTENDS Integers, Sequences, FiniteSets

CONSTANTS
  Structs,    \* the client's struct classes, which have one float field
  Names       \* names of variables, in alphabetical order

Value(type, n) == [type |-> type, n |-> n]
Temporary(i) == <<"tmp", i>>        \* create_temporary_variable_name
OutputPointer(i) == <<"ptr", i>>    \* output_{i - 1}_ptr
IsSourceName(n) == n[1] \notin {"tmp", "ptr"}
FirstIn(S) == CHOOSE i \in S : \A j \in S : i <= j
Unknown == [class |-> "UnknownType", value |-> "unknown"]

-----------------------------------------------------------------------------
\* Types

Primitives == {"int", "float", "bool"}
isinstance(type, expected) == type = expected \/ (type = "bool" /\ expected = "int")

\* The registered type classes that matter here, in order.
TypeClasses == <<"PrimitiveType", "DateTimeType", "StructType">>

is_type_supported(class, type) ==
  CASE class = "PrimitiveType" -> type \in Primitives
    [] class = "DateTimeType"  -> type = "datetime"
    [] class = "StructType"    -> type \in Structs

\* from_type and get_type: the first class that supports the type, or failing
\* that the type of the value; so a datetime constant, which is an int of
\* nanoseconds by then, is a PrimitiveType.
get_type(type, valueType) ==
  LET matching == {i \in DOMAIN TypeClasses : \/ is_type_supported(TypeClasses[i], type)
                                              \/ is_type_supported(TypeClasses[i], valueType)}
      class == TypeClasses[FirstIn(matching)]
  IN  IF matching = {} THEN Unknown
      ELSE [class |-> class, value |-> IF is_type_supported(class, type) THEN type ELSE valueType]

\* numba_types, and its first entry for a type
numba_types ==
  <<[type |-> "int", numba_name |-> "int64", size |-> 8],
    [type |-> "float", numba_name |-> "float64", size |-> 8],
    [type |-> "bool", numba_name |-> "int8", size |-> 1],
    [type |-> "voidptr", numba_name |-> "voidptr", size |-> 8],
    [type |-> "datetime", numba_name |-> "int64", size |-> 8]>>

resolve_numba_name(type) ==
  LET found == {i \in DOMAIN numba_types : numba_types[i].type = type}
  IN  IF found = {} THEN "voidptr" ELSE numba_types[FirstIn(found)].numba_name

get_size_for_numba_name(name) ==
  numba_types[FirstIn({i \in DOMAIN numba_types : numba_types[i].numba_name = name})].size

get_type_size(type) == get_size_for_numba_name(resolve_numba_name(type))

-----------------------------------------------------------------------------
\* Parameters and state

\* PrimitiveType.validate_input, with the conversion to nanoseconds
input_accepted(c) == c.type \in Primitives \cup {"datetime"} /\ isinstance(c.value.type, c.type)
validate_input(v) == IF v.type = "datetime" THEN Value("int", v.n) ELSE v

state_accepted(s) ==
  CASE s.type = "datetime" -> s.value.type \in Primitives \cup {"call"}
    [] s.type \in Primitives -> s.value.type = s.type \/ (s.type = "float" /\ s.value.type = "int")
    [] OTHER -> s.type \in Structs    \* parsed by the client's class

int(n) == IF n >= 0 THEN n - (n % 2) ELSE n + (n % 2)

try_parse_state_narrow(s) ==    \* mutant: an int stays an int
  CASE s.type = "datetime" -> [s EXCEPT !.value = Value("int", int(s.value.n))]
    [] OTHER -> s

\* try_parse_state of the classes: the value the host allocates the slot from
try_parse_state(s) ==
  CASE s.type = "datetime" -> [s EXCEPT !.value = Value("int", int(s.value.n))]
    [] s.type = "float"    -> [s EXCEPT !.value.type = "float"]
    [] OTHER -> s

Position(name) == CHOOSE i \in DOMAIN Names : Names[i] = name

Alphabetical(a, b) == Position(a.name) < Position(b.name)

sorted_by_name(a, b) == Alphabetical(a, b)    \* mutant: the sizes do not count

\* StateAnalysis.sorted_by_size: the largest first, then by name
sorted_before(a, b) ==
  \/ get_type_size(a.type) > get_type_size(b.type)
  \/ get_type_size(a.type) = get_type_size(b.type) /\ Alphabetical(a, b)

\* The i-th has i - 1 before it.
sorted_by_size(states) ==
  LET before(j) == {k \in DOMAIN states : sorted_before(states[k], states[j])}
  IN  [i \in DOMAIN states |->
         try_parse_state(states[CHOOSE j \in DOMAIN states : Cardinality(before(j)) = i - 1])]

Distinct(s) == \A i, j \in DOMAIN s : i # j => s[i].name # s[j].name

analysed(d) ==
  /\ d.constants \o d.inputs # <<>>
  /\ \A i \in DOMAIN d.constants : input_accepted(d.constants[i])
  /\ \A i \in DOMAIN d.states : state_accepted(d.states[i])
  /\ Distinct(d.states)

-----------------------------------------------------------------------------
\* Variable sources

Source(kind, type, name, idx, opaque, value) ==
  [source |-> kind, type |-> type, name |-> name, idx |-> idx, opaque |-> opaque, value |-> value]

LocalVariableSource(type, name) == Source("LocalVariableSource", type, name, 0, type.class = "StructType", Value("none", 0))
LocalConstantSource(type, name, v) == Source("LocalConstantSource", type, name, 0, FALSE, v)

\* create_variables of each category.  Without names, only the first type of
\* the outputs becomes a variable.
constant_variables(d) ==
  [i \in DOMAIN d.constants |->
     LET v == validate_input(d.constants[i].value)
     IN  Source("ConstantSource", get_type(d.constants[i].type, v.type), d.constants[i].name, 0, FALSE, v)]

output_variables(d) ==
  [i \in 1 .. IF d.named THEN Len(d.outputs) ELSE 1 |->
     LET type == get_type(d.outputs[i].type, "unknown")
     IN  Source("OutputSource", type, IF d.named THEN d.outputs[i].name ELSE <<"output_0", 0>>,
                i, type.class = "StructType", Value("none", 0))]

state_variables(d) ==
  LET states == sorted_by_size(d.states)
  IN  [i \in DOMAIN states |->
         LET type == get_type(states[i].type, "unknown")
         IN  Source("StateSource", type, states[i].name, i, type.class = "StructType", states[i].value)]

\* The signals of the test harness (a client's category) are force_opaque.
input_variables(d) ==
  [i \in DOMAIN d.inputs |->
     Source("InputSource", get_type(d.inputs[i].type, "unknown"), d.inputs[i].name, i, TRUE, Value("none", 0))]

\* _create_variable_factory; add_variable raises if a name is taken.
created_variables(d) ==
  constant_variables(d) \o output_variables(d) \o state_variables(d) \o input_variables(d)

\* result.state_values
state_values(d) == [i \in DOMAIN d.states |-> sorted_by_size(d.states)[i].value]

-----------------------------------------------------------------------------
\* The shape of a declaration as the analyser reads it.
AnalysisAssumption ==
  /\ \A i, j \in DOMAIN Names : Names[i] = Names[j] => i = j
  /\ DOMAIN Names \subseteq Nat
  /\ \A struct \in Structs : struct \notin Primitives \cup {"datetime", "unknown", "voidptr", "none", "nothing", "pointer"}

ASSUME AnalysisAssumption

IsSequence(s) == Len(s) \in Nat /\ s = [i \in 1 .. Len(s) |-> s[i]]

\* Only a float can be half a number.
IsNumber(v) == v = Value(v.type, v.n) /\ v.n \in Int /\ (v.type # "float" => v.n % 2 = 0)

IsVariable(c) ==
  /\ IsSourceName(c.name) /\ \E i \in DOMAIN Names : Names[i] = c.name
  /\ c.type \in Primitives \cup {"datetime"} \cup Structs

IsDeclaration(d) ==
  /\ \A s \in {d.constants, d.inputs, d.states, d.outputs} :
       IsSequence(s) /\ \A i \in DOMAIN s : IsVariable(s[i])
  /\ \A s \in {d.constants, d.states} : \A i \in DOMAIN s : IsNumber(s[i].value)
  /\ \A i \in DOMAIN d.states : d.states[i].type \in Structs => d.states[i].value.type = "float"
  /\ d.named \in BOOLEAN /\ (~d.named => d.outputs # <<>>)
=============================================================================
