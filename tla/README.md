# Verification of numba-cfunc-compiler

The compiler turns a Python function (a *node*) into one native function that a
host calls with a lifecycle phase. This project models the parts of it where a
unit test reaches little: the C containers compiled code works on, the
ownership of those containers across separate calls, the translation of a body
that is visited in another order than it runs, and the state of the compiler
that threads and processes share. TLC checks the models on small instances;
TLAPS proves the properties of the containers, of their ownership, of the
translation of bodies and of the shared state for every value of their
parameters.

Line numbers are those of the repository (`src/`).

## Inventory

| Component | State | Operations | What is hard | What makes it correct |
|---|---|---|---|---|
| C dictionary (`numba_rt/cext/dictobject.c`) | index table, entries, `used`, `usable`, `nentries` | insert, lookup, delitem, popitem, clear, resize, iterator | dummies and stale entries after long mixes of calls; rebuild; memory failure | every search ends and finds its key; counters stay within the allocation; an insertion-ordered map |
| NumbaDict (`standalone/dict.py`, `standalone/utils.py`, `defaults/dict_support.py`) | the pointer; the iterator of a loop on the stack | `[]`, `in`, get, pop, clear, len, `for` | status codes are dropped; loop bodies mutate the dict; the key -1; a missing key | reads agree with each other; a loop that keeps the keys sees each once, in order |
| C list (`numba_rt/cext/listobject.c`) | size, allocated, items, is_mutable | append, set, get, delete, delete slice, resize, iterator | signed/unsigned index test; growth and shrink policy; failing realloc | the header's invariants; each call has the effect of Python's list; amortized O(1) |
| NumbaList (`standalone/list.py`, `defaults/list_support.py`) | the pointer | append, `[]`, pop, clear, len, `for` | negative indices; loop bodies that append or pop | Python's meaning where Python has one, no effect elsewhere |
| Container ownership (`numba_ast_converter.py`, `models.py`, `numba_type_inference.py`, `variable_factory.py`) | the name table; at run time the host's state slots | visit of three bodies, START, EXECUTE, STOP | bodies are visited in another order than they run; aliases; separate calls share only slots | no use after free, no leak of state, names keep their Python meaning |
| Function analysis (`function_analyzer.py`, `type_factory.py`, `type_registry.py`, `defaults/*_support.py`, `defaults/source_categories.py`) | the types, parameters, states and outputs of one declaration; the variable sources made of them | analyse, resolve a type, validate and parse a value, order the state | the host allocates a slot from the value, compiled code reads it by the declared type | value and declared type have one representation, slot for slot |
| Translation of bodies (`numba_ast_converter.py`, `numba_type_inference.py`, `variable_factory.py`, `utils/struct.py`, `utils/ast.py`) | the table of names, the counter of temporaries, the generated statements | assignment, field store, output, return | one name may be a pointer, a cell, a constant, an alias or a temporary; each phase loads only some | compiled code computes what Python would; wrong types are refused, right ones never |
| ABI configuration (`config.py`) | `_numba_config`, its lock | set, get | double-checked locking | written once; every call looks atomic |
| Compilation cache (`compilation_cache.py`, `frozen_globals.py`, `numba_core.py`) | dict per process, shared directory | compile_cached, set_cache_config | racing threads and processes, kills, failing writes, stale keys | a hit equals a fresh compile; published entries are whole |
| Compilation context (`compilation_context.py`, `defaults/__init__.py`) | a context variable per thread; in each context object a token and the registries | enter, exit, current, register_all | one token per object; nested, overlapping and concurrent blocks; defaults registered after the context is published | exit restores the previous context; a default context has the defaults |
| Registries (`source_registry.py`, `type_factory.py`, `ast_handlers.py`, `method_factory.py`) | ordered lists and tables of a context | register, dispatch | a check and an append in two steps; clients that register first | categories stay distinct; the framework's parameters come first |
| FFI calls (`utils/ffi.py`, `utils/ast.py`) | the opcode table of a context | name_to_opcode, opcode_to_name | a scan of a table that another compilation fills | a scan fails only where contexts are shared |
| Post-compilation, packaging | none | rewriting of LLVM IR; loading | | stateless |

Interaction: compiled code calls the C containers through the intrinsics of
`standalone/`; the converter emits the code that creates, loads and frees them
through the host's slots. Analysis and translation resolve types and categories
in the context that is current in their thread, and every use of a context asks
for the process-wide configuration first. The cache stands between the
converter and Numba, and its hits depend on that configuration too, since enum
and enumset types read it.

## Modules

| Module | Models | Notes |
|---|---|---|
| `DictObject` | the C dictionary | one action per operation; the search loops are `FirstIn` over the probe sequence `Probe` |
| `OrderedMap` | what the dictionary promises | abstract: a sequence of items |
| `DictOrder` | the refinement between the two | `items` is the sequence of live entries, the n-th of them `NthLive` |
| `StandaloneDict` | NumbaDict in compiled code | extends `DictObject` with the block address, the iterator and the loop |
| `ListObject` | the C list | one action per call, `resize` the set of its outcomes |
| `StandaloneList` | NumbaList in compiled code | extends `ListObject` with the value read and the loop |
| `Lifecycle` | the visit of the bodies, the generated function, the host's calls | `table` and `code` are the compiler, `live`, `slot` and `local` the run |
| `WriteOnce`, `NumbaConfig` | `config.py` and its specification | one step per access to the variable or the lock; `NumbaConfig` refines `WriteOnce` |
| `CompilationContext` | the context variable, the registries of a context, the opcode table | extends `NumbaConfig`: an operation runs the steps of `get_numba_config` and then its own |
| `Analysis` | types, parameters, state and outputs of a declaration, its variable sources | operators only |
| `Translation` | the visit of the bodies and the run of the function they become | extends `Analysis`; runs the same statements beside it as Python means them |
| `CompilationCache` | `compile_cached`, get, put, reconfiguration, kills | one step per access to shared state |
| `NatRecursion`, `DictObjectProofs`, `DictOrderProofs`, `StandaloneListProofs`, `LifecycleProofs`, `TranslationProofs`, `ContextProofs`, `CacheProofs` | proofs | see below |
| `MC*` | values of the constants for TLC | |

Abstractions, by module:

- **DictObject.** Keys and values are opaque; `Hash[k]` is the hash the caller
  passes. `Py_hash_t` is unsigned, so `(Py_hash_t)(-1)` is `HashModulus - 1`.
  Bytes written by `memset` are the values `Zero` and `Fill`. An index cell has
  no width (`ix_size` always chooses one that holds the size). A failing
  `assert` sets `status` to `"abort"` and nothing follows: cext.h:41-44 defines
  an assert of its own that `NDEBUG` does not switch off. The asserts modelled
  are those on values another part hands over or a search finds: the hash (657),
  the position of a deletion (789), what popitem finds (825, 828).
- **StandaloneDict.** `block` is the address of the table, which `malloc` may
  hand out again: the iterator compares addresses. Where an intrinsic ignores a
  status that left its output unset, `status` becomes `"undefined"`. Pop of a
  missing key is its own action, outside `StandaloneSpec`, because it leaves
  the states the rest of the model describes.
- **ListObject.** Cells nobody wrote hold `Trash`. `realloc` may fail whenever
  it is asked for more bytes than the block has; the comments at lines 418 and
  516 rely on the rest. Slices are those `slice.indices()` gives.
- **Lifecycle.** Statements are those that touch containers: use of a name,
  assignment of a name to a name, creation of a container, return. A return may
  or may not be reached (it stands for one under a condition). `born`, `env`
  and `stateful` are history variables. `Spec` is every program the compiler
  accepts; what a property excepts is part of the property (`StatesKept`,
  `Overwritten`, `StopFreesItsOwn`, `StopKeeps`, see "Where a body does not mean
  what Python means"). A host calls EXECUTE and STOP only after START.
- **NumbaConfig.** One step is one access to `_numba_config` or one operation
  on the lock, so two threads may interleave inside both functions.
- **CompilationContext.** The nested calls of `current()` that `register_all`
  makes find the configuration chosen and the context set, so they are no steps.
  The test of `SourceRegistry.register` and its append are two steps, and the
  scan of `opcode_to_name` is two: the iterator is made, then used. A context
  made lazily bears the name of its thread, which makes at most one. `again` in
  a block and `users` are history variables. Another execution context of the
  same thread (asyncio) is another "thread" here.
- **Analysis.** Numbers are counted in halves, so that a lost fraction shows.
  Widths are the sizes of the Numba types; a struct has one float field.
  Names are pairs of a word and a number, so that no name of the source is that
  of a temporary (`tmp_i`) or of an output's pointer. An input is a signal of the
  test harness (tests/harness.py:106-137), which stands there for the category a
  client registers.
- **Translation.** A statement is visited in one step, since one thread visits;
  expressions have one operator. Bodies have no branches and no loops: the
  visitor treats them as it treats the statements in them. The generated
  function stops (`faulted`) where it uses a name nothing was assigned to, which
  Numba would refuse or read as garbage. `source`, `python` are history
  variables. A body uses only names it gave a value before or that are
  parameters or state (`Meaningful`). Python's machine keeps apart two ways in
  which a body may not mean anything to compare with. It stops (`python.fault`)
  where Python raises, as for a field of what is no struct, and where one name
  would be a struct and a number, which Numba has no type for. It goes on but
  remembers (`leaks`) where a name or an output receives a value of another type
  than the one declared for it or inferred. A datetime is the int of its
  nanoseconds. Cells of the host other than the state start as 0;
  the state's start as the declared values, which primitive_support.py:89 says of
  the host. The harness of the tests (tests/harness.py:289) is no such host: it
  leaves them zero and so tests only nodes whose state is containers.
- **CompilationCache.** IR is a record of what it was compiled from. A function
  is a source and the value of one global. `"addresses"` stands for a source
  whose IR holds process addresses, `"array"` for one that reads a global which
  cannot be keyed. The memory lock covers one dict access, so the access is a
  step and the lock is not a variable. The temporary file is private to its
  writer, so its creation and its write are one step. `_config` is left out:
  nothing but `get_cache_config` reads it. Globals do not change between a key
  and its compilation (action `ChangeGlobal`).

## Runs

| Run | Bounds | Shows |
|---|---|---|
| `dict_table` | four keys that meet in one slot of 8, three with one hash and one perturbed; sizes 8 and 16 | type and counter invariants, an unused slot remains, probe paths, lookup, asserts; refinement of `OrderedMap`; when a rebuild may happen and what it leaves |
| `standalone_dict` | keys 1 and 9 (one slot), two values, two blocks | reads agree; loops in order; unset reads only after a mutation in the body |
| `list_table` | blocks up to 8 cells, preallocations 0 and 6, slices with steps -2..3 | header invariants, exact effect of each call, exact slices, what may run out of memory |
| `standalone_list` | blocks up to 5 cells, every index from -6 to 5 | Python's meaning of indices, pop and loops |
| `lifecycle` | two state variables, one argument, two local names, up to three statements in the three bodies together, five containers | no use after free, slots own the state, names keep their meaning |
| `compilation_context` | two threads, one context object and the two lazy ones, up to three calls a thread and four together, two default types and categories, two opcodes | refinement of `WriteOnce`; leaving restores; lazy defaults are complete; categories stay distinct; the framework's parameters lead; scans are safe; every operation ends |
| `translation` | four declarations (scalars, named outputs, two struct classes, datetimes) and three that are refused; fourteen to nineteen statements for each body, some of which mix types, emit None or name no output; four statements in all, one in START and in STOP; START, two EXECUTE, STOP; two inputs | value and declared type agree in every slot; compiled code means what Python means; no unset name; wrong types refused and right ones accepted |
| `compilation_cache` | two threads in one process and one in another, one reconfiguration per process life, two values of a global | entries match keys, hits match a fresh compile, served IR is remembered, published files stay |
| `dict_minus_one` | keys -1 and 1 | violated: `IntKeysInsertable` |
| `dict_pop_missing` | keys 1 and 9 | violated: `UnusedSlotRemains` |
| `stop_return` | one statement | violated: `StopReleases` |
| `cache_abi` | as `compilation_cache`, two enum widths | violated: `HitsMatchFresh` |

Why the bounds are enough. A table of 8 holds 5 entries before it is rebuilt
and the smallest rebuild makes one of 8 or 16, so dummies, stale entries,
rebuilds in place and growth all occur with three or four keys (an entry is
spent by every insert after a delete); the proofs below cover the other sizes.
`MaxProbe` = 20 is checked by `ProbeCoversTable` to reach every slot. A list of
8 cells passes through the growth steps 4, 8 and the shrinks to 7, 6, 5, 4.
Three statements are enough to create an alias, assign through it and use it,
within a body or in two or three of them, or to bind and leave; the proofs have
no such bound. Two threads and one write are the race of `config.py`. One context
object is enough for the hard cases of contexts, because what goes wrong goes
wrong when it is entered twice: nested in one thread, or in two at once; the
lazy contexts are those it nests in. Four operations make a register twice in
one context, two overlapping blocks, or two compilations in a shared context;
`ContextProofs` covers the rest. In `translation` four statements give a name a
value, alias it, change it and emit it, or do so across two phases, and the
second EXECUTE sees the state the first one left. In the cache, a second thread in a process and one outside it are
the two kinds of rival a call has. One reconfiguration puts a cache object where
there was none: TLC never replaces one by another (with two, the run is past
seven million states after five minutes), so that a call stores into an object
that was replaced meanwhile is covered by the theorem `ServedStays` only.

`CHECK_DEADLOCK FALSE` is said where the program may stop: when a call left
undefined behaviour (`standalone_dict` and its violations), when the containers
a leak left no room (`Blocks`, a bound), when `MaxOperations` or `MaxCalls`
is used up (`compilation_context`, `translation`) and when the compiler has
refused a node.

### Fairness

Only `compilation_context` has a liveness property, `OperationsEnd`.
`FairContextSpec` asks weak fairness of each thread's next step inside an
operation: the operating system keeps running a thread that can run, and a
`with` statement always leaves. It does not ask that a thread begin an
operation or leave a block. Nor does it ask that a lock be fair, which
`threading.Lock` is not: `MaxCalls` and `MaxOperations` bound the calls
instead, so that a thread can only wait for finitely many others.

## Proofs

`DictObjectProofs` proves `Spec => []Inductive` for all keys, values, hashes,
table sizes and a hash modulus, from the assumptions `DictConstants` and
`ProbeCoversTable` (the comment at dictobject.c:218-227, that the recurrence
visits every slot). The invariant that is inductive is stronger than what is
wanted: that an unused slot remains (`UnusedSlotRemains`) does not follow from
itself, since an insert into a dummy and an insert into an unused slot look the
same to it. `PaidFor` counts: every slot that is not unused was paid for out of
`usable`, which a deletion never gives back, and `USABLE_FRACTION` is less than
the size. `Bijective`, `OnProbePath` and `Distinct` are the rest: an insert
goes to the first slot of its probe path that is not active, so it cuts no path;
a deletion leaves a dummy, which no search stops at; a rebuild copies the live
entries in order (`NthLive`, whose enumeration is proved onto) and
`build_indices` places each at the first unused slot. `lookup` and the
recursive functions `Probe`, `build_indices` and `cleared` are unfolded one step
by the lemmas of `NatRecursion`. From the invariant follow `SearchTerminates`,
`CountersSound`, `NoPathCut`, `LookupIsCorrect`, `AssertsHold`, and the action
properties `ReclaimedByRebuild` and `RebuildIsPaidFor`.

`DictOrderProofs` proves what the dictionary promises, from that invariant.
`DictIsOrderedMap` says that `dictobject.c` refines `OrderedMap` if no key
hashes to -1 (`NoKeyIsNoHash`, the assert at dictobject.c:657, which the run
`dict_minus_one` shows is needed). The argument is one of counting: a strictly
increasing sequence that enumerates the live positions of the entries is unique
(`OneList`), so the sequence of items after an operation is known as soon as
one such enumeration is at hand. An insert of a new key appends the next
position (`Adds`), a replacement keeps the positions and changes one value
(`Revalues`), a deletion leaves one out, a rebuild renumbers them in order
(`Compacts`); each maps to the operation of `OrderedMap`, a failing or useless
one to a stutter. The same module proves `ReadsAgree`, `DictLoopsInOrder` and
`UndefinedIsEarned` for NumbaDict in compiled code. Their invariant
`StandaloneInv` adds to the table's `Progress`, how many keys a loop has seen
and that they are the first ones, and `Cursor`, that the iterator stands just
behind the last of them, on the dict and the size it was made for. Without
`Cursor` nothing says that the next entry the iterator finds is the next key,
nor that the fixed range of the loop ends no later than the iterator.

`StandaloneListProofs` proves, for any width of `size_t` and any limit on the
allocation, `HeaderHolds`, `ListAssertHolds`, `ItemsWereStored`,
`OnlyAppendsRunOut`, `ReallocsArePaidFor` (amortization: the inductive part is
`allocated = new_allocated(base)`, so a block is left only after an eighth of
`base` was gained or lost), `PopIsPython`, `IndexingIsPython`, `ListTypes` and
`LoopsSeeTheList`, over every program that uses a NumbaList. The inductive
invariant adds the relation of `base` to the block and, for loops, that the
items seen are a prefix of the list as long as the body only appends.

The second half of the module is about callers in C, who also delete slices and
make a list immutable: `ListInvariant`, `CallsKeepHeader`, `CallsArePython`,
`CallsPayForReallocs` and `SlicesAreExact`. `delitem_slice` walks the slice and
moves, at each stop, the cells up to the next one down by the number of stops
before (`Cur`, `Shift`). The loop's invariant (`PackedCells`) says which
cells are packed and which still stand where they stood. That the result
is the list without the slice needs a count: `Removed` counts the positions of the
slice below a position, a kept position moves down by just that
(`PackedIsWithout`), and the kept positions, numbered in order, are the places of
the new list (`RankTaken` of `NatRecursion`, `GoneCardinality`). It holds for
steps of either sign and for every width of `size_t`.

`LifecycleProofs` proves `ContainersAreAllocated`, `HostOwnsTheState` and
`NamesMeanWhatTheySay` for any bodies, names, state variables and number of
calls, over every program the compiler accepts. The invariant `LifeInv`
has a part for the compiler and one for the run. `Rooted` and `Visited` say what
the visit makes: the variable a name stands for stands for itself; a statement
reads a name of its own only if a statement of its body assigned it before, and
it goes through the variable the table gives for the name *now*, at the end of
all visits, although later bodies added names since; an assignment writes the
variable of its name, or made the name one more of what it reads. `Before`: no call, no container. `SlotsHold` says which slots are set, by how far the function has come, and that
they hold what START made: START fills them one by one before its body, STOP
empties them one by one after it; each slot has its own, which stays allocated
until its turn unless STOP assigned a variable it was to free. `FreesSlots`: a
STOP that frees its own frees what the slots hold. `Owned`: if it reaches its
frees too, no container of the state is outside of the slots. `Alive` says that
a variable some name of the call stands for holds an allocated container until
STOP begins to free, which needs no exception: an assignment copies an allocated
container, whoever it belongs to. `Meant` says that such a variable holds what
the name is bound to in Python, as long as nothing was `Overwritten`; here the
two names of one variable, and the bodies that made them one, come together.

`TranslationProofs` proves `TranslationTypeOK`, `SlotsAgreeEverywhere`,
`MistypedRefused`, `RefusesOnlyDishonest`, `NamesAreSet` and `CodeMeansPython`
for any declaration, bodies of any length and any number of calls. The argument
has four layers.

- *The table.* `Created` describes the variables a declaration makes; that
  they are those of the declaration, whatever the order of the state, is the
  fact that sorting by size permutes (`OrderRanks` of `NatRecursion`), and that
  order gives `SlotsAgree`. `TableInv` says what an entry of the table may be at any
  time: a created variable under its own name or an alias, a local, a
  temporary behind the counter.
- *The visits.* An invariant of the state forgets in which order a body was
  translated, and translation depends on it. `TraceInv` brings the order back:
  for each body there is a sequence of visits, each from the table the one before
  left, whose code is the body's; the tables only grow (`Extends`); and an alias
  in one of them comes from an assignment that is not later in this body. `ScopeInv` is the same for the names a statement may use.
- *Python's machine.* `PythonInv` says that names hold values of the types
  given to them, but for what `leaks` lists. `MistypedIsRefused` follows, and
  with it the reasons of every refusal (`AcceptsHonest`): whatever raises in the
  last visit is excused, or that very statement leaks or faults in Python.
- *The simulation.* `Simulates` relates the two machines between two statements
  of a body. For each name in scope, what compiled code reads for it, through a
  pointer, a cell, a constant, an alias or a temporary, is what Python's name
  holds. The cells both sides write mirror each other. A scalar of the state is
  a cell all along in compiled code and a name until the end of the call in
  Python, so its cell is left out (`Shared`) until then. Numbers are equal as long as
  nothing leaked, pointers always: a name that leaked a number must not
  become a reason to fault. One lemma per kind of statement keeps the relation
  (`FromAstSimulates`, `EmitSimulates`, `ReturnSimulates`, ...), `BodySimulates`
  takes it along the trace, `BeginSimulates` and `EndSimulates` connect it with
  what the host holds between calls, and `MeaningInv` carries that over the
  calls. `Plain` is used in one place, `PlainTargets`: no plain assignment
  writes through a pointer that another name of the body reads.

`ContextProofs` first proves `ConfigIsWrittenOnce`: for any number of threads,
values and calls, `config.py` refines `WriteOnce`. The inductive invariant
`ConfigInv` says what a thread has in hand at each place: who is between the
acquire and the release of the lock holds it, and who is about to assign has
seen, under the lock, that nothing was chosen. The first test of
`get_numba_config`, made without the lock, then needs no argument: the variable
never returns to `None`. Each step maps to a step of `WriteOnce` or to a
stutter (`ProceedRefines`, `CallRefines`).

Then it proves, for any threads, contexts, types, categories and methods: `ContextWritesOnce` (a step of `CompilationContext` is a step of
`NumbaConfig` or leaves its variables alone, so the refinement carries over),
`ContextTypes`, `BlocksRestore`, `CategoriesStayDistinct`, `LookupsStaySafe`,
`LazyContextsAreComplete` and `FrameworkComesFirst`. The invariant has five parts. `Shape` is the kinds of value.
`Owned` says that a thread is among the `users` of the context it is in, without
which a history of users says nothing of who may interfere. `Tokened` relates
every open block to the one token of its context object: unless the object was
entered again, the token is the one this block left there, unused and of this
thread, and it names what was current before; of two blocks of one thread with
the same object the outer one is marked. `BlocksRestore` follows from it alone.
`Pending` is what a thread remembers between two of its steps: about to append,
that the category was not taken; scanning, that the table has the size it saw.
It holds as long as the context has one user, and it is what makes the
two-step `register` and the two-step scan safe there. `LazyInv` is about the
context `current()` makes. `Private`: no other thread is in it or holds a token
that leads to it, and its thread, once it has made it, has no unused token left
that leads out of every context, so it makes only one (there is never more than
one such token, and none outside of every context). `Contents`: the context is
untouched before it is made; afterwards it is either complete or `Filled` up to
some registration of `register_all()` that the task still lists the rest of. No
step in between can raise, since the default categories are distinct
(`CategoriesAssumption`), and what comes later only appends or puts a client's type
in front. `FrameworkComesFirst` then is counting: the orders are distinct, so each
category has another number of categories before it (`BeforeFacts`), every place is
taken (`SortedHolds`), and before the n-th default there are just the n - 1 others
(`DefaultsFirst`). That lists which begin alike have parameters which do is an
induction on the loop of `build_cfunc_params` (`ParamsPrefix`).

`CacheProofs` proves `CacheTypes`, `EntriesStayRight`, `HitsAreFresh`,
`ServedStays` and `PublishedFilesStay` for any number of processes, threads,
functions and values, with kills, failing writes and reconfigurations at any
step. The invariant `CacheInv` is that all processes agree on the ABI (`Agreed`:
the assumption that the run `cache_abi` drops), that an entry of the directory or
of a dict holds nothing or the one IR its key stands for (`Entries`), and what a
call has in hand at each of its steps (`InHand`): it looked up the key of its own
function, under the value the global has; what it is about to write is that IR,
and so is the temporary file it is about to rename. Since the IR of a key is one,
it does not matter which of two racing writers wins.

Assumed besides the types of the constants:

- `DictConstants`, `ProbeCoversTable`: see above.
- `BlocksAssumption`: `malloc` has two addresses to give.
- `ConfigAssumption`: the default is a value, `None` is not.
- `ContextAssumption`, `NoneAssumption`: context objects and threads are
  different things, defaults are sequences, `None` is no token and no task.
- `CategoriesAssumption`: the ids and orders of `defaults/source_categories.py`, and
  that a client's order is not negative (source_registry.py:60).
- `AnalysisAssumption`: `Names` lists every word once, and no struct class has the
  name of another type.
- `TranslationAssumption`: declarations and statements have the shape the
  analyser and the visitor read, inputs are integers, 0 among them (it is sent
  in START and STOP), and the bounds are numbers.
- `LifecycleAssumption`: state variables and arguments are sequences without
  repetition, and names, blocks and null are different things.
- `CacheAssumption`: every thread has a process; `"anyone"`, which stands for no
  address in an IR, is none.

Only model-checked is liveness, `OperationsEnd`: fairness and `ENABLED` are
outside the prover. The runs that end in a violation have no theorem, of course.

## Findings

- **The key -1** (`dict_minus_one`). An integer is its own hash
  (standalone/utils.py:63-80), and `numba_dict_insert` asserts `hash != -1`
  (dictobject.c:657). README.md:316 says a NumbaDict has `int` keys.
- **Pop of a missing key** (`dict_pop_missing`). standalone/dict.py:274 hands
  index -1 to `numba_dict_delitem`, which clears the bytes before the first
  entry: the index table. The next search need not end.
- **Return in the STOP body** (`stop_return`). `visit_Return` keeps the
  return, and the frees come after the body
  (numba_ast_converter.py:131-134).
- **Cache and ABI** (`cache_abi`). Neither the semantic key (numba_core.py:89)
  nor the namespace of the directory (compilation_cache.py:28) covers the enum
  widths, which the generated source names only as `make_enum()` and
  `make_enumset()`; README.md:355 says a hit matches a fresh compile.

## Where a body does not mean what Python means

`Translation` compares compiled code with Python for bodies that are `Plain`.
The runs showed a difference for the others, and no text of the repository says
which of them a body may contain; they are hazards in `PROJECT.json`:

- an assignment to the name of an output stores through its pointer and does
  not tick; in START and STOP that pointer is not loaded;
- a second assignment to a name that was first assigned from an input or from a
  struct of the state writes through the pointer, so it changes the host's cell.

`CodeMeansPython` shows that there are no others: a plain body that leaks
nothing and that Python runs means the same compiled.

In `Lifecycle` containers are assigned, and every program the compiler accepts
is in `Spec`. It differs from Python in three ways, and the theorems show that
there are no others. No text of the repository says what a body may assign, so
none of them is a finding:

- One table serves the three bodies. After `t = s1` in START, the name `t` stands
  for `s1` in EXECUTE and STOP too, and `t = s2` there is compiled to `s1 = s2`
  (numba_type_inference.py:246-249): `s1` then names the container of `s2`.
  `NamesKeepTheirMeaning` excepts the calls that wrote, before the use, from
  another variable, the one that two names of the call stand for
  (`Overwritten`), whether the same body or another made the two names one.
- A state variable a body assigns is assigned for that call only: the slot keeps
  what START made, and the next call loads it again (`StatesKept`).
- Where STOP assigns the variable of a state container, by its own name or through a
  name that stands for it since another body, the frees at its end free the
  container of another slot a second time and this slot's never. Without
  `StopFreesItsOwn`, TLC finds START with `t = s1` and STOP with `t = s2`. START and
  EXECUTE may assign what they like: each call loads its variables afresh.

No use of a container ever reaches one that was freed, with no exception.

The type check of an output (variable_factory.py:203) looks at what the compiler
knows. It does not know the type of a sum, of a field, or of a name assigned
from one, and it keeps the first type of a name: `MistypedIsRefused` says that
nothing else escapes it, `AcceptsHonest` what it may refuse although the types
are right (`Excused`): an assignment to a constant, a `datetime(...)` assigned
to a name that has a source, None or an unknown name in `set_output`, more
values than outputs. An output for a datetime takes anything.

In the registries and the opcode table the guarantees stop where two threads
share one context object: two threads may then pass the test of `register`
together, and a scan may meet an insertion and raise. README.md:396 speaks of
concurrent safety through context variables, which a shared object is not.

## Not modelled

- Pre and post handlers (`ast_handlers.py`): two lists of callables around a
  visit. What those of the defaults do is in `Translation` and `Lifecycle`.
- Post-compilation passes and the LLVM signatures of FFI calls: translation
  without state, whose effect is the compiled code. That they are functions of
  source and options is assumed by `CompilationCache`.
- Branches and loops around statements in `Translation`, chains of calls, and
  containers as variables there (they are in `Lifecycle`); keyed outputs of
  dict annotations and keyed containers.
- `timedelta` (as `datetime`, with another conversion), nested structs, enums
  and enum sets, struct constants.
- The byte layout of dict entries, conversions of the values in containers, the
  C list iterator and an intrinsic for `popitem`, which compiled code does not
  reach (the C popitem is modelled).
- Stack cells reserved inside loops, containers made from arguments, an item
  that `d[k] = v` does not store for want of memory (the C insert's status is
  dropped, and no text says what should happen): hazards with the reason no
  property covers them. Hosts that break the order of phases.
- Syntactic errors of a signature, and packaging.

## Plan

Done: the C containers, since all compiled code rests on them; what compiled
code does with them; ownership; the shared state of the compiler with the
contexts and registries on top of it; the front of the compiler from a
declaration to the run of its function. What would come next:

1. Branches in `Translation`: a name that only one branch assigns. `Simulates`
   would hold for the names that both branches set.
2. `Translation` and `Lifecycle` over one name table: containers and values in
   one body.
