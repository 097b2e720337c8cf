-------------------------- MODULE CompilationCache --------------------------
(***************************************************************************)
(* The reuse of compiled IR (compilation_cache.py): a dict per process and *)
(* a directory processes share.  A step of a thread is one access to what  *)
(* other threads or processes see: the process-wide cache, the dict (under *)
(* its lock), a file.  A process may be killed between any two steps.      *)
(***************************************************************************)
EXTENDS Integers

CONSTANTS
  Procs, Threads,
  ProcOf,        \* ProcOf[t]: the process thread t belongs to
  Sources,       \* what a function compiles from, globals left aside
  Unkeyable,     \* sources that read globals which are not plain constants
  Dynamic,       \* sources whose IR holds addresses of the process
  Values,        \* the values of a global constant of the functions
  Widths,        \* the values of the process-wide NumbaConfig
  MaxSettings,   \* calls of set_cache_config in the life of a process (a bound)
  None,
  Torn           \* what a reader gets of a file that is being written

ASSUME CacheAssumption ==
  /\ ProcOf \in [Threads -> Procs]
  /\ Unkeyable \subseteq Sources /\ Dynamic \subseteq Sources
  /\ MaxSettings \in Nat
  /\ "anyone" \notin Procs

VARIABLES
  global,    \* the constant, per process
  width,     \* the NumbaConfig of a process
  cache,     \* _cache: the generation of the cache object, or None if disabled
  shared,    \* whether that object has a directory
  settings,  \* how often set_cache_config was called
  memory,    \* _memory of the cache objects of a process, by generation
  disk,      \* the files <key>.ll, or None
  pc, call,  \* where a thread is, and the variables of its compile_cached;
             \* call.value is history: the global when it began
  ir,        \* the IR a thread has, or None
  tmp        \* its temporary file, or None

process == <<global, width, cache, shared, settings>>
vars == <<process, memory, disk, pc, call, ir, tmp>>

Keys == Sources \X Values

_build_semantic_key_source_only(source, value) ==    \* mutant: forgets frozen_globals
  <<source, CHOOSE v \in Values : TRUE>>
_build_semantic_key(source, value) == <<source, value>>

\* What compile_fn gives in process p.
compile_fresh(p, source) ==
  [source |-> source, value |-> global[p], width |-> width[p],
   addresses |-> IF source \in Dynamic THEN p ELSE "anyone"]

IRs == [source : Sources, value : Values, width : Widths,
        addresses : Procs \cup {"anyone"}]

-----------------------------------------------------------------------------

At(t, label) == pc[t] = label
Go(t, label) == pc' = [pc EXCEPT ![t] = label]
Have(t, x) == ir' = [ir EXCEPT ![t] = x]

\* _memory of the cache object the call began with.
Remembered(t) == memory[ProcOf[t]][call[t].cache][call[t].key]
Store(t, x) == memory' = [memory EXCEPT ![ProcOf[t]][call[t].cache][call[t].key] = x]

create_compiled_func(t, source) ==
  LET p == ProcOf[t]
      own == IF source \in Unkeyable THEN None ELSE cache[p]
  IN
  /\ At(t, "idle")
  /\ call' = [call EXCEPT ![t] =
                [source |-> source, key |-> _build_semantic_key(source, global[p]),
                 value |-> global[p], cache |-> own, shared |-> own # None /\ shared[p], hit |-> FALSE]]
  /\ Have(t, None)
  /\ Go(t, IF own = None THEN "compile" ELSE "get")
  /\ UNCHANGED <<process, memory, disk, tmp>>

Hit(t, label) == call' = [call EXCEPT ![t].hit = TRUE] /\ Go(t, label)

\* cache.get: the dict first.
GetMemory(t) ==
  /\ At(t, "get")
  /\ IF Remembered(t) # None
       THEN Have(t, Remembered(t)) /\ Hit(t, "return")
       ELSE Go(t, IF call[t].shared THEN "read" ELSE "compile") /\ UNCHANGED <<call, ir>>
  /\ UNCHANGED <<process, memory, disk, tmp>>

ReadFile(t) ==
  /\ At(t, "read")
  /\ disk[call[t].key] # None
  /\ Have(t, disk[call[t].key])
  /\ Hit(t, "remember")
  /\ UNCHANGED <<process, memory, disk, tmp>>

\* No such file, or any other OSError.
ReadFails(t) ==
  /\ At(t, "read")
  /\ Go(t, "compile")
  /\ UNCHANGED <<process, memory, disk, call, ir, tmp>>

Remember_skipped(t) ==    \* mutant: what the directory gave is not kept
  /\ At(t, "remember")
  /\ Go(t, "return")
  /\ UNCHANGED <<process, memory, disk, call, ir, tmp>>

Remember(t) ==
  /\ At(t, "remember")
  /\ Store(t, ir[t])
  /\ Go(t, "return")
  /\ UNCHANGED <<process, disk, call, ir, tmp>>

cacheable_always(t) == call[t].cache # None    \* mutant: keeps IR with addresses
cacheable(t) == call[t].cache # None /\ call[t].source \notin Dynamic

Compile(t) ==
  /\ At(t, "compile")
  /\ Have(t, compile_fresh(ProcOf[t], call[t].source))
  /\ Go(t, IF cacheable(t) THEN "put" ELSE "return")
  /\ UNCHANGED <<process, memory, disk, call, tmp>>

PutMemory(t) ==
  /\ At(t, "put")
  /\ Store(t, ir[t])
  /\ Go(t, IF call[t].shared THEN "write" ELSE "return")
  /\ UNCHANGED <<process, disk, call, ir, tmp>>

-----------------------------------------------------------------------------
(* The file, written beside its place and moved there whole.               *)

WriteTemp_in_place(t) ==    \* mutant: writes <key>.ll itself
  /\ At(t, "write")
  /\ disk' = [disk EXCEPT ![call[t].key] = Torn]
  /\ tmp' = [tmp EXCEPT ![t] = ir[t]]
  /\ Go(t, "replace")
  /\ UNCHANGED <<process, memory, call, ir>>

\* mkdir, mkstemp and the write: nobody else sees the temporary file.
WriteTemp(t) ==
  /\ At(t, "write")
  /\ tmp' = [tmp EXCEPT ![t] = ir[t]]
  /\ Go(t, "replace")
  /\ UNCHANGED <<process, memory, disk, call, ir>>

\* os.replace
Replace(t) ==
  /\ At(t, "replace")
  /\ disk' = [disk EXCEPT ![call[t].key] = tmp[t]]
  /\ tmp' = [tmp EXCEPT ![t] = None]
  /\ Go(t, "return")
  /\ UNCHANGED <<process, memory, call, ir>>

WriteFails_unlinks_entry(t) ==    \* mutant: unlinks <key>.ll
  /\ At(t, "write") \/ At(t, "replace")
  /\ disk' = [disk EXCEPT ![call[t].key] = None]
  /\ tmp' = [tmp EXCEPT ![t] = None]
  /\ Go(t, "return")
  /\ UNCHANGED <<process, memory, call, ir>>

\* Any of these fails with an OSError: unlink and log.
WriteFails(t) ==
  /\ At(t, "write") \/ At(t, "replace")
  /\ tmp' = [tmp EXCEPT ![t] = None]
  /\ Go(t, "return")
  /\ UNCHANGED <<process, memory, disk, call, ir>>

Raise(t) ==
  /\ Go(t, "idle")
  /\ Have(t, None)
  /\ call' = [call EXCEPT ![t] = None]
  /\ tmp' = [tmp EXCEPT ![t] = None]
  /\ UNCHANGED <<process, memory, disk>>

CompileRaises(t) == At(t, "compile") /\ Raise(t)

\* Interrupted by anything else, a KeyboardInterrupt: unlink and raise.
WriteInterrupted(t) == (At(t, "write") \/ At(t, "replace")) /\ Raise(t)

Return(t) ==
  /\ At(t, "return")
  /\ Go(t, "idle")
  /\ Have(t, None)
  /\ call' = [call EXCEPT ![t] = None]
  /\ UNCHANGED <<process, memory, disk, tmp>>

-----------------------------------------------------------------------------
(* The process around the calls.                                           *)

\* A new cache object; calls that have begun keep the old one.
set_cache_config(p, enabled, directory) ==
  /\ settings[p] < MaxSettings
  /\ settings' = [settings EXCEPT ![p] = @ + 1]
  /\ cache' = [cache EXCEPT ![p] = IF enabled THEN settings'[p] ELSE None]
  /\ shared' = [shared EXCEPT ![p] = enabled /\ directory]
  /\ UNCHANGED <<global, width, memory, disk, pc, call, ir, tmp>>

\* The program assigns the global, but not while a function that reads it is
\* between its key and its compilation.
ChangeGlobal(p, v) ==
  /\ \A t \in Threads : ProcOf[t] = p => pc[t] \notin {"get", "read", "remember", "compile"}
  /\ global' = [global EXCEPT ![p] = v]
  /\ UNCHANGED <<width, cache, shared, settings, memory, disk, pc, call, ir, tmp>>

Forgotten == [g \in 1 .. MaxSettings |-> [k \in Keys |-> None]]

\* Killed, and started again.  Its temporary files stay; nobody reads them.
Kill(p) ==
  LET dead(f, x) == [t \in Threads |-> IF ProcOf[t] = p THEN x ELSE f[t]] IN
  /\ cache' = [cache EXCEPT ![p] = None]
  /\ shared' = [shared EXCEPT ![p] = FALSE]
  /\ settings' = [settings EXCEPT ![p] = 0]
  /\ memory' = [memory EXCEPT ![p] = Forgotten]
  /\ pc' = dead(pc, "idle") /\ call' = dead(call, None)
  /\ ir' = dead(ir, None) /\ tmp' = dead(tmp, None)
  /\ UNCHANGED <<global, width, disk>>

\* README.md:351: "clear the cache".
ClearDirectory ==
  /\ disk' = [k \in Keys |-> None]
  /\ UNCHANGED <<process, memory, pc, call, ir, tmp>>

-----------------------------------------------------------------------------

Start ==
  /\ global \in [Procs -> Values]
  /\ cache = [p \in Procs |-> None]
  /\ shared = [p \in Procs |-> FALSE]
  /\ settings = [p \in Procs |-> 0]
  /\ memory = [p \in Procs |-> Forgotten]
  /\ disk = [k \in Keys |-> None]
  /\ pc = [t \in Threads |-> "idle"]
  /\ call = [t \in Threads |-> None]
  /\ ir = [t \in Threads |-> None]
  /\ tmp = [t \in Threads |-> None]

Proceed(t) ==
  \/ GetMemory(t) \/ ReadFile(t) \/ ReadFails(t) \/ Remember(t)
  \/ Compile(t) \/ CompileRaises(t) \/ PutMemory(t)
  \/ WriteTemp(t) \/ Replace(t) \/ WriteFails(t) \/ WriteInterrupted(t) \/ Return(t)

Next ==
  \/ \E t \in Threads :
       Proceed(t) \/ (\E s \in Sources : create_compiled_func(t, s))
  \/ \E p \in Procs :
       \/ \E enabled, directory \in BOOLEAN : set_cache_config(p, enabled, directory)
       \/ \E v \in Values : ChangeGlobal(p, v)
       \/ Kill(p)
  \/ ClearDirectory

\* Processes that share the directory and agree on the NumbaConfig.
Init == Start /\ \E w \in Widths : width = [p \in Procs |-> w]

Spec == Init /\ [][Next]_vars

\* Each with its own.
AnyWidthSpec == Start /\ width \in [Procs -> Widths] /\ [][Next]_vars

-----------------------------------------------------------------------------

Labels == {"idle", "get", "read", "remember", "compile", "put", "write",
           "replace", "return"}

\* The kinds of value the variables hold; no published file is ever torn.
TypeOK ==
  /\ global \in [Procs -> Values]
  /\ width \in [Procs -> Widths]
  /\ cache \in [Procs -> 1 .. MaxSettings \cup {None}]
  /\ shared \in [Procs -> BOOLEAN]
  /\ settings \in [Procs -> 0 .. MaxSettings]
  /\ memory \in [Procs -> [1 .. MaxSettings -> [Keys -> IRs \cup {None}]]]
  /\ disk \in [Keys -> IRs \cup {None}]
  /\ pc \in [Threads -> Labels]
  /\ call \in [Threads -> [source : Sources, key : Keys, value : Values, shared : BOOLEAN, hit : BOOLEAN,
                           cache : 1 .. MaxSettings \cup {None}] \cup {None}]
  /\ ir \in [Threads -> IRs \cup {None}]
  /\ tmp \in [Threads -> IRs \cup {None}]

\* README.md:355: "IR with process-specific addresses (Numba dynamic globals) is
\* never cached", nor any IR under the key of another function or value.
EntriesMatchKeys ==
  \A k \in Keys :
    \A x \in {disk[k]} \cup {memory[p][g][k] : p \in Procs, g \in 1 .. MaxSettings} :
      x \notin {None, Torn} =>
        x.addresses = "anyone" /\ _build_semantic_key(x.source, x.value) = k

\* README.md:355: "Cache hits return compiled_func=None; everything else matches
\* a fresh compile": in the process that gets it, with its NumbaConfig.
HitsMatchFresh ==
  \A t \in Threads :
    At(t, "return") /\ call[t].hit =>
      ir[t] = [source |-> call[t].source, value |-> call[t].value,
               width |-> width[ProcOf[t]], addresses |-> "anyone"]

\* A call that returned IR the cache may keep has left it in the dict, also
\* when the IR came from the directory or could not be written there: the next
\* call for the key does not compile, whatever happens to the file.
ServedIsRemembered ==
  \A t \in Threads :
    At(t, "return") /\ cacheable(t) => Remembered(t) = ir[t]

\* A file that was published stays as it is until the directory is cleared: no
\* failing, racing or killed writer takes it away or tears it.
PublishedStays ==
  [][\A k \in Keys : disk[k] # None => (disk'[k] = disk[k] \/ ClearDirectory)]_vars
=============================================================================
