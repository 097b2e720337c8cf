------------------------- MODULE CompilationContext -------------------------
(***************************************************************************)
(* The context variable that holds the active CompilationContext           *)
(* (compilation_context.py), the registries inside a context and the       *)
(* threads that use them.  Every operation asks for the process-wide       *)
(* configuration first, so its first steps are those of NumbaConfig's      *)
(* get_numba_config; what the operation then does is one or more steps     *)
(* here.  The nested calls of current() that registering makes find the    *)
(* configuration selected and the context set: they are not steps.         *)
(***************************************************************************)
EXTENDS NumbaConfig, SequencesExt

CONSTANTS
  Contexts,          \* the CompilationContext objects the program creates
  DefaultTypes,      \* the type classes of register_types, in order
  DefaultCategories, \* the categories of register_default_categories, in order
  ExtensionType,     \* a type class a client registers with priority 0
  ExtensionCategory, \* a category a client registers
  Methods,           \* names of FFI methods
  MaxOperations      \* calls all threads make together (a bound)

\* A category is a record with its id, order and cfunc_params.
ASSUME ContextAssumption ==
  /\ Contexts \cap Threads = {} /\ None \notin Contexts
  /\ DefaultTypes \in Seq(ToSet(DefaultTypes))
  /\ DefaultCategories \in Seq(ToSet(DefaultCategories))
  /\ MaxOperations \in Nat

\* The default categories have ids and orders of their own and register in
\* the order of the signature; a client's category comes behind them there.
ASSUME CategoriesAssumption ==
  /\ \A i, j \in DOMAIN DefaultCategories : i < j =>
       /\ DefaultCategories[i].id # DefaultCategories[j].id
       /\ DefaultCategories[i].order < DefaultCategories[j].order
  /\ \A i \in DOMAIN DefaultCategories :
       DefaultCategories[i].order \in Int /\ DefaultCategories[i].order < 0
  /\ ExtensionCategory.order \in Nat
  /\ \A category \in ToSet(DefaultCategories) \cup {ExtensionCategory} :
       category.cfunc_params \in Seq(ToSet(category.cfunc_params))

\* None is neither a token nor a registration under way.
ASSUME NoneAssumption ==
  LET category == [category : ToSet(DefaultCategories) \cup {ExtensionCategory}]
      type == [type : ToSet(DefaultTypes) \cup {ExtensionType}, priority : {0, None}]
  IN  /\ None \notin [thread : Threads, old : Contexts \cup Threads \cup {None}, used : BOOLEAN]
      /\ None \notin [stage : {"register", "append"}, todo : Seq(type \cup category),
                      method : Methods \cup {None}]

\* The context a thread creates in current() bears the name of the thread: a
\* thread creates at most one, for afterwards the variable stays set.
Objects == Contexts \cup Threads

VARIABLES
  _current_context,  \* of each thread; None where get() raises LookupError
  _token,            \* of each context: what __enter__ left there, or None
  blocks,            \* the with statements a thread is in, innermost last
  task,              \* the operation a thread is in, or None
  type_classes, source_categories, ffi_opcode_cache,    \* of each context
  users              \* the threads a context has been current in (a history)

contextVars == <<_current_context, _token, blocks, type_classes,
                 source_categories, ffi_opcode_cache, users>>
allVars == <<vars, contextVars, task>>

ContextInit ==
  /\ Init
  /\ _current_context = [t \in Threads |-> None]
  /\ _token = [o \in Objects |-> None]
  /\ blocks = [t \in Threads |-> <<>>]
  /\ task = [t \in Threads |-> None]
  /\ type_classes = [o \in Objects |-> <<>>]
  /\ source_categories = [o \in Objects |-> <<>>]
  /\ ffi_opcode_cache = [o \in Objects |-> {}]
  /\ users = [o \in Objects |-> {}]

Does(t, stage) == task[t] # None /\ task[t].stage = stage
Continue(t, new) == task' = [task EXCEPT ![t] = new]
Set(t, o) ==
  /\ _current_context' = [_current_context EXCEPT ![t] = o]
  /\ users' = [users EXCEPT ![o] = @ \cup {t}]

-----------------------------------------------------------------------------
\* An operation begins with get_numba_config().

RegisterAll == [i \in DOMAIN DefaultTypes |-> [type |-> DefaultTypes[i], priority |-> None]]
               \o [i \in DOMAIN DefaultCategories |-> [category |-> DefaultCategories[i]]]
Extend == <<[type |-> ExtensionType, priority |-> 0], [category |-> ExtensionCategory]>>

Room == FoldFunction(+, 0, calls) < MaxOperations

Begin(t, new) ==
  /\ task[t] = None /\ Room
  /\ get_numba_config(t)
  /\ Continue(t, new)
  /\ UNCHANGED contextVars

BeginEnter(t, c) == Begin(t, [stage |-> "enter", context |-> c])
BeginRegister(t, todo) == Begin(t, [stage |-> "current", todo |-> todo, method |-> None])
BeginCompile(t, m) == Begin(t, [stage |-> "current", todo |-> <<>>, method |-> m])

Enter_keeps_token(t) ==    \* mutant: the first token is kept
  /\ At(t, "return") /\ Does(t, "enter") /\ Leave(t) /\ Continue(t, None)
  /\ LET c == task[t].context
     IN  /\ _token' = [_token EXCEPT ![c] =
                IF @ = None THEN [thread |-> t, old |-> _current_context[t], used |-> FALSE] ELSE @]
         /\ blocks' = [u \in Threads |->
                [i \in DOMAIN blocks[u] |->
                   [blocks[u][i] EXCEPT !.again = @ \/ blocks[u][i].context = c]]
                \o IF u = t THEN <<[context |-> c, before |-> _current_context[t], again |-> FALSE]>>
                            ELSE <<>>]
         /\ Set(t, c)
  /\ UNCHANGED <<type_classes, source_categories, ffi_opcode_cache>>

\* self._token = _current_context.set(self).  A block remembers what was
\* current before it, and whether its context was entered again since.
__enter__(t) ==
  /\ At(t, "return") /\ Does(t, "enter") /\ Leave(t) /\ Continue(t, None)
  /\ LET c == task[t].context
         block == [context |-> c, before |-> _current_context[t], again |-> FALSE]
         marked(s) == [i \in DOMAIN s |-> [s[i] EXCEPT !.again = @ \/ s[i].context = c]]
     IN  /\ _token' = [_token EXCEPT ![c] =
                [thread |-> t, old |-> _current_context[t], used |-> FALSE]]
         /\ blocks' = [u \in Threads |->
                IF u = t THEN Append(marked(blocks[u]), block) ELSE marked(blocks[u])]
         /\ Set(t, c)
  /\ UNCHANGED <<type_classes, source_categories, ffi_opcode_cache>>

\* reset() raises RuntimeError for a token used before and ValueError for one
\* of another thread, and then changes nothing; the block is left anyway.
Resets(t, c) == ~_token[c].used /\ _token[c].thread = t

__exit__(t) ==
  /\ At(t, "idle") /\ task[t] = None /\ blocks[t] # <<>>
  /\ blocks' = [blocks EXCEPT ![t] = Front(@)]
  /\ LET c == Last(blocks[t]).context
     IN  IF Resets(t, c)
           THEN /\ _current_context' = [_current_context EXCEPT ![t] = _token[c].old]
                /\ _token' = [_token EXCEPT ![c].used = TRUE]
           ELSE UNCHANGED <<_current_context, _token>>
  /\ UNCHANGED <<vars, task, type_classes, source_categories, ffi_opcode_cache, users>>

-----------------------------------------------------------------------------
\* current(), and the registrations it makes in a context of its own

Resolve_bare(t) ==    \* mutant: the new context stays empty
  /\ At(t, "return") /\ Does(t, "current") /\ Leave(t)
  /\ Continue(t, [task[t] EXCEPT !.stage = "register"])
  /\ IF _current_context[t] = None THEN Set(t, t) ELSE UNCHANGED <<_current_context, users>>
  /\ UNCHANGED <<_token, blocks, type_classes, source_categories, ffi_opcode_cache>>

current(t) ==
  /\ At(t, "return") /\ Does(t, "current") /\ Leave(t)
  /\ IF _current_context[t] = None
       THEN /\ Set(t, t)
            /\ Continue(t, [task[t] EXCEPT !.stage = "register", !.todo = RegisterAll \o @])
       ELSE /\ Continue(t, [task[t] EXCEPT !.stage = "register"])
            /\ UNCHANGED <<_current_context, users>>
  /\ UNCHANGED <<_token, blocks, type_classes, source_categories, ffi_opcode_cache>>

Doing(t) == Head(task[t].todo)
Context(t) == _current_context[t]

\* TypeFactory.register: append, or insert at the priority.
RegisterType(t) ==
  /\ Does(t, "register") /\ task[t].todo # <<>> /\ "type" \in DOMAIN Doing(t)
  /\ type_classes' = [type_classes EXCEPT ![Context(t)] =
       IF Doing(t).priority = None THEN Append(@, Doing(t).type)
                                   ELSE InsertAt(@, Doing(t).priority + 1, Doing(t).type)]
  /\ Continue(t, [task[t] EXCEPT !.todo = Tail(@)])
  /\ UNCHANGED <<vars, _current_context, _token, blocks, source_categories, ffi_opcode_cache, users>>

Taken(o, category) ==
  \E i \in DOMAIN source_categories[o] :
    \/ source_categories[o][i].id = category.id
    \/ source_categories[o][i].order = category.order

CheckCategory_skipped(t) ==    \* mutant: nothing is compared
  /\ Does(t, "register") /\ task[t].todo # <<>> /\ "category" \in DOMAIN Doing(t)
  /\ Continue(t, [task[t] EXCEPT !.stage = "append"])
  /\ UNCHANGED <<vars, contextVars>>

\* SourceRegistry.register: the loop over the categories, which raises
\* ValueError out of the whole operation, and then the append.
CheckCategory(t) ==
  /\ Does(t, "register") /\ task[t].todo # <<>> /\ "category" \in DOMAIN Doing(t)
  /\ Continue(t, IF Taken(Context(t), Doing(t).category)
                   THEN None ELSE [task[t] EXCEPT !.stage = "append"])
  /\ UNCHANGED <<vars, contextVars>>

AppendCategory(t) ==
  /\ Does(t, "append")
  /\ source_categories' = [source_categories EXCEPT ![Context(t)] = Append(@, Doing(t).category)]
  /\ Continue(t, [task[t] EXCEPT !.stage = "register", !.todo = Tail(@)])
  /\ UNCHANGED <<vars, _current_context, _token, blocks, type_classes, ffi_opcode_cache, users>>

-----------------------------------------------------------------------------
\* A compilation, or the end of a registration

Registered(t) == Does(t, "register") /\ task[t].todo = <<>>

Finish(t) ==
  /\ Registered(t) /\ task[t].method = None
  /\ Continue(t, None)
  /\ UNCHANGED <<vars, contextVars>>

\* name_to_opcode: the opcode is a hash of the name, so storing it again
\* changes nothing.
name_to_opcode(t) ==
  /\ Registered(t) /\ task[t].method # None
  /\ ffi_opcode_cache' = [ffi_opcode_cache EXCEPT ![Context(t)] = @ \cup {task[t].method}]
  /\ Continue(t, [task[t] EXCEPT !.stage = "lower"])
  /\ UNCHANGED <<vars, _current_context, _token, blocks, type_classes, source_categories, users>>

BeginScan_early(t) ==    \* mutant: the iterator is older than the entry
  /\ Does(t, "lower")
  /\ Continue(t, [stage |-> "scan", method |-> task[t].method,
                 size |-> Cardinality(ffi_opcode_cache[Context(t)] \ {task[t].method})])
  /\ UNCHANGED <<vars, contextVars>>

\* opcode_to_name, when Numba lowers the call: an iterator over the mapping,
\* which notices at its next step that an entry was added to it.
BeginScan(t) ==
  /\ Does(t, "lower")
  /\ Continue(t, [stage |-> "scan", method |-> task[t].method,
                 size |-> Cardinality(ffi_opcode_cache[Context(t)])])
  /\ UNCHANGED <<vars, contextVars>>

EndScan(t) ==
  /\ Does(t, "scan") /\ task[t].method \in ffi_opcode_cache[Context(t)]
  /\ Continue(t, None)
  /\ UNCHANGED <<vars, contextVars>>

ScanRaises(t) ==
  /\ Does(t, "scan")
  /\ Cardinality(ffi_opcode_cache[Context(t)]) # task[t].size
  /\ Continue(t, None)
  /\ UNCHANGED <<vars, contextVars>>
-----------------------------------------------------------------------------

\* The steps of NumbaConfig's get_numba_config and set_numba_config, but that
\* an operation returns from it with a step of its own.
ConfigStep(t) ==
  /\ \/ Proceed(t) /\ (At(t, "return") => task[t] = None)
     \/ /\ task[t] = None /\ Room
        /\ get_numba_config(t) \/ \E arg \in Configs \cup {Invalid} : set_numba_config(t, arg)
  /\ UNCHANGED <<contextVars, task>>

ContextProceed(t) ==
  \/ ~At(t, "idle") /\ ConfigStep(t)
  \/ __enter__(t) \/ current(t)
  \/ RegisterType(t) \/ CheckCategory(t) \/ AppendCategory(t)
  \/ Finish(t) \/ name_to_opcode(t) \/ BeginScan(t) \/ EndScan(t) \/ ScanRaises(t)

ContextNext ==
  \E t \in Threads :
    \/ At(t, "idle") /\ ConfigStep(t)
    \/ \E c \in Contexts : BeginEnter(t, c)
    \/ \E todo \in {RegisterAll, Extend} : BeginRegister(t, todo)
    \/ \E m \in Methods : BeginCompile(t, m)
    \/ __exit__(t)
    \/ ContextProceed(t)

ContextSpec == ContextInit /\ [][ContextNext]_allVars

\* The operating system keeps running every thread that can run.  The calls
\* are bounded: threading.Lock is not fair, and a thread may starve while
\* others call without end.
FairContextSpec == ContextSpec /\ \A t \in Threads : WF_allVars(ContextProceed(t))

-----------------------------------------------------------------------------

Categories == {DefaultCategories[i] : i \in DOMAIN DefaultCategories}
Types == {DefaultTypes[i] : i \in DOMAIN DefaultTypes} \cup {ExtensionType}

\* The kinds of value the variables hold.
ContextTypeOK ==
  /\ TypeOK
  /\ _current_context \in [Threads -> Objects \cup {None}]
  /\ \A t \in Threads :
       \/ task[t] = None
       \/ Does(t, "enter") /\ task[t].context \in Contexts
       \/ /\ task[t].stage \in {"current", "register", "append", "lower", "scan"}
          /\ task[t].method \in Methods \cup {None}
  /\ \A o \in Objects :
       /\ type_classes[o] \in Seq(Types)
       /\ source_categories[o] \in Seq(Categories \cup {ExtensionCategory})
       /\ ffi_opcode_cache[o] \subseteq Methods
       /\ users[o] \subseteq Threads

\* README.md:61: "When the `with` block exits, the previous context is
\* restored": so it is for nested and concurrent blocks, if no other block
\* entered the same context object before the end of this one.
LeavingRestores ==
  [][\A t \in Threads :
       LET left == Last(blocks[t])
       IN  (Len(blocks'[t]) < Len(blocks[t]) /\ ~left.again)
           => _current_context'[t] = left.before]_allVars

\* README.md:61: "current() lazily creates a default with all built-in types":
\* outside of every block, code that uses the registries finds the default
\* types in their order and all default categories, even after a call of
\* register_all() that raised half-way, or a client's registrations.
Uses(t) == task[t] = None \/ task[t].stage \in {"lower", "scan"}

\* The default types, in order, at the front or behind a client's.
HasDefaultTypes(s) ==
  \E n \in 0 .. Len(s) - Len(DefaultTypes) :
    /\ \A k \in 1 .. n : s[k] = ExtensionType
    /\ \A k \in DOMAIN DefaultTypes : s[n + k] = DefaultTypes[k]

LazyDefaults ==
  \A t \in Threads :
    Uses(t) /\ Context(t) = t =>
      HasDefaultTypes(type_classes[t]) /\ Categories \subseteq ToSet(source_categories[t])

\* No two categories share an id or a position of the signature, in a context
\* that one thread registers in (the check and the append are two steps).
CategoriesDistinct ==
  \A o \in Objects :
    LET s == source_categories[o]
    IN  Cardinality(users[o]) <= 1 =>
          \A i, j \in DOMAIN s : i # j => s[i].id # s[j].id /\ s[i].order # s[j].order

get_ordered_unsorted(o) == source_categories[o]    \* mutant: in registration order

\* sorted() is stable: the n-th has n - 1 others before it.
get_ordered(o) ==
  LET s == source_categories[o]
      before(i) == {j \in DOMAIN s : \/ s[j].order < s[i].order
                                     \/ s[j].order = s[i].order /\ j < i}
  IN  [n \in DOMAIN s |-> s[CHOOSE i \in DOMAIN s : Cardinality(before(i)) = n - 1]]

\* The loop over the ordered categories, which extends the list of parameters.
build_cfunc_params(categories) ==
  LET params[n \in 0 .. Len(categories)] ==
        IF n = 0 THEN <<>> ELSE params[n - 1] \o categories[n].cfunc_params
  IN  params[Len(categories)]

\* source_registry.py:62: extensions "append user-defined parameters after the
\* framework-owned prefix": the host passes the same leading arguments to the
\* code of every context that has the defaults, whoever registered first.
FrameworkPrefix ==
  \A o \in Objects :
    Categories \subseteq ToSet(source_categories[o]) /\ Cardinality(users[o]) <= 1
      => IsPrefix(build_cfunc_params(DefaultCategories), build_cfunc_params(get_ordered(o)))

\* README.md:396, "concurrent safety": a lookup of an opcode finds it, and
\* fails only if another thread compiles in the same context object.
LookupsAreSafe ==
  [][\A t \in Threads : ScanRaises(t) => Cardinality(users[Context(t)]) > 1]_allVars

\* Every operation ends, whichever step of it raised.
OperationsEnd == \A t \in Threads : (task[t] # None \/ pc[t] # "idle") ~> (task[t] = None /\ pc[t] = "idle")
=============================================================================
