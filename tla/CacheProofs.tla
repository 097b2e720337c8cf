----------------------------- MODULE CacheProofs -----------------------------
(***************************************************************************)
(* What the compilation cache guarantees for any number of processes and   *)
(* threads, any functions, and any reconfigurations and kills, when the    *)
(* processes that share the directory agree on the NumbaConfig.            *)
(***************************************************************************)
EXTENDS CompilationCache, TLAPS

(* The one IR that may be kept under a key: what it compiles to anywhere.  *)
Kept(p, k) == [source |-> k[1], value |-> k[2], width |-> width[p], addresses |-> "anyone"]

Agreed == \A p, q \in Procs : width[p] = width[q]

Entries ==
  \A k \in Keys :
    /\ disk[k] \in {None} \cup {Kept(p, k) : p \in Procs}
    /\ \A p \in Procs, g \in 1 .. MaxSettings : memory[p][g][k] \in {None, Kept(p, k)}

Calls == [source : Sources, key : Keys, value : Values, shared : BOOLEAN, hit : BOOLEAN,
          cache : 1 .. MaxSettings \cup {None}]

HasKept(t) == ir[t] = Kept(ProcOf[t], call[t].key)

(* What a call of compile_cached has at each place: it looks only if there *)
(* is a cache, the global is the one of the key until the function is      *)
(* compiled, and what is stored or was a hit is the IR of the key.         *)
InHand(t) ==
  /\ pc[t] # "idle" => call[t] \in Calls /\ call[t].key = <<call[t].source, call[t].value>>
  /\ pc[t] \in {"get", "read", "remember"} => call[t].cache # None
  /\ pc[t] \in {"get", "read", "remember", "compile"} => call[t].value = global[ProcOf[t]]
  /\ pc[t] \in {"get", "read", "compile", "put", "write", "replace"} => ~call[t].hit
  /\ pc[t] \in {"remember", "put", "write", "replace"} => HasKept(t)
  /\ pc[t] \in {"put", "write", "replace"} => cacheable(t)
  /\ pc[t] \in {"write", "replace"} => Remembered(t) = ir[t]
  /\ pc[t] = "replace" => tmp[t] = ir[t]
  /\ pc[t] = "return" => /\ call[t].hit => HasKept(t)
                         /\ cacheable(t) => HasKept(t) /\ Remembered(t) = ir[t]

CacheInv == TypeOK /\ Agreed /\ Entries /\ \A t \in Threads : InHand(t)

-----------------------------------------------------------------------------

LEMMA CacheInvInit == Init => CacheInv
<1> SUFFICES ASSUME Init PROVE CacheInv
  OBVIOUS
<1>1. TypeOK
  BY CacheAssumption DEF Init, Start, TypeOK, Forgotten, Labels
<1>2. Agreed
  BY DEF Init, Agreed
<1>3. Entries
  BY DEF Init, Start, Entries, Forgotten
<1>4. \A t \in Threads : InHand(t)
  BY DEF Init, Start, InHand
<1> QED
  BY <1>1, <1>2, <1>3, <1>4 DEF CacheInv

(* A step that leaves a thread where it is, and what its process keeps.    *)
Untouched(t) ==
  /\ pc'[t] = pc[t] /\ call'[t] = call[t] /\ ir'[t] = ir[t] /\ tmp'[t] = tmp[t]
  /\ width' = width
  /\ \/ global'[ProcOf[t]] = global[ProcOf[t]]
     \/ pc[t] \notin {"get", "read", "remember", "compile"}
  /\ \A g \in 1 .. MaxSettings, k \in Keys :
       memory[ProcOf[t]][g][k] # None => memory'[ProcOf[t]][g][k] = memory[ProcOf[t]][g][k]

LEMMA UntouchedInHand ==
  ASSUME CacheInv, Entries', NEW t \in Threads, Untouched(t)
  PROVE  InHand(t)'
<1>1. /\ InHand(t) /\ ProcOf[t] \in Procs
  BY CacheAssumption DEF CacheInv
<1>2. HasKept(t)' <=> HasKept(t)
  BY DEF HasKept, Kept, Untouched
<1>3. cacheable(t)' <=> cacheable(t)
  BY DEF cacheable, Untouched
<1>4. ASSUME pc[t] \in {"write", "replace", "return"}, cacheable(t), HasKept(t), Remembered(t) = ir[t]
      PROVE  Remembered(t)' = ir[t]
  <2>1. call[t].key \in Keys /\ call[t].cache \in 1 .. MaxSettings
    BY <1>1, <1>4 DEF InHand, Calls, cacheable
  <2>2. memory[ProcOf[t]][call[t].cache][call[t].key] = Kept(ProcOf[t], call[t].key)
    BY <1>4 DEF Remembered, HasKept
  <2>3. memory'[ProcOf[t]][call[t].cache][call[t].key] \in {None, Kept(ProcOf[t], call[t].key)}
    BY <1>1, <2>1 DEF Entries, Kept, Untouched
  <2> QED
    BY <1>4, <2>1, <2>2, <2>3 DEF Remembered, HasKept, Untouched
<1> QED
  BY <1>1, <1>2, <1>3, <1>4 DEF InHand, Untouched

(* A step of t keeps the invariant, if it keeps the kinds of value, stores *)
(* only what belongs to the key, and leaves t itself right.                *)
LEMMA ThreadStep ==
  ASSUME CacheInv, NEW t \in Threads, TypeOK', Entries', InHand(t)',
         UNCHANGED <<global, width>>,
         \A u \in Threads \ {t} : /\ pc'[u] = pc[u] /\ call'[u] = call[u]
                                  /\ ir'[u] = ir[u] /\ tmp'[u] = tmp[u],
         \A p \in Procs, g \in 1 .. MaxSettings, k \in Keys :
           memory[p][g][k] # None => memory'[p][g][k] = memory[p][g][k]
  PROVE  CacheInv'
<1>1. ASSUME NEW u \in Threads \ {t} PROVE InHand(u)'
  <2>1. ProcOf[u] \in Procs
    BY CacheAssumption
  <2>2. Untouched(u)
    BY <2>1 DEF Untouched
  <2> QED
    BY <2>2, UntouchedInHand
<1>2. Agreed'
  BY DEF CacheInv, Agreed
<1> QED
  BY <1>1, <1>2 DEF CacheInv

-----------------------------------------------------------------------------

(* A thread that is in a call, and the IR it may find.                     *)
LEMMA InCall ==
  ASSUME CacheInv, NEW t \in Threads, pc[t] # "idle"
  PROVE  /\ ProcOf[t] \in Procs /\ call[t] \in Calls
         /\ call[t].key = <<call[t].source, call[t].value>>
         /\ call[t].source \in Sources /\ call[t].value \in Values /\ call[t].key \in Keys
         /\ Kept(ProcOf[t], call[t].key) =
              [source |-> call[t].source, value |-> call[t].value,
               width |-> width[ProcOf[t]], addresses |-> "anyone"]
         /\ Kept(ProcOf[t], call[t].key) \in IRs
<1>1. ProcOf[t] \in Procs /\ width[ProcOf[t]] \in Widths
  BY CacheAssumption DEF CacheInv, TypeOK
<1>2. call[t] \in Calls /\ call[t].key = <<call[t].source, call[t].value>>
  BY DEF CacheInv, InHand
<1>3. call[t].source \in Sources /\ call[t].value \in Values /\ call[t].key \in Keys
  BY <1>2 DEF Calls
<1> QED
  BY <1>1, <1>2, <1>3 DEF Kept, IRs

(* What it finds in the dict of its cache object.                          *)
LEMMA InDict ==
  ASSUME CacheInv, NEW t \in Threads, pc[t] # "idle", call[t].cache # None
  PROVE  /\ call[t].cache \in 1 .. MaxSettings
         /\ Remembered(t) \in {None, Kept(ProcOf[t], call[t].key)}
         /\ Remembered(t) \in IRs \cup {None}
<1>1. ProcOf[t] \in Procs /\ call[t].key \in Keys /\ call[t].cache \in 1 .. MaxSettings
  BY InCall DEF Calls
<1>2. memory[ProcOf[t]][call[t].cache][call[t].key] \in {None, Kept(ProcOf[t], call[t].key)}
  BY <1>1 DEF CacheInv, Entries
<1>3. Kept(ProcOf[t], call[t].key) \in IRs
  BY InCall
<1> QED
  BY <1>1, <1>2, <1>3 DEF Remembered

LEMMA CreateStep ==
  ASSUME CacheInv, NEW t \in Threads, NEW s \in Sources, create_compiled_func(t, s)
  PROVE  CacheInv'
<1>1. ProcOf[t] \in Procs
  BY CacheAssumption
<1> DEFINE own == IF s \in Unkeyable THEN None ELSE cache[ProcOf[t]]
           c == [source |-> s, key |-> <<s, global[ProcOf[t]]>>, value |-> global[ProcOf[t]],
                 cache |-> own, shared |-> own # None /\ shared[ProcOf[t]], hit |-> FALSE]
<1>2. c \in Calls
  BY <1>1 DEF CacheInv, TypeOK, Calls, Keys
<1>3. call' = [call EXCEPT ![t] = c]
  BY DEF create_compiled_func, _build_semantic_key
<1> HIDE DEF c
<1>4. TypeOK'
  BY <1>2, <1>3 DEF create_compiled_func, CacheInv, TypeOK, process, Go, Have, Calls, Labels
<1>5. Entries'
  BY DEF create_compiled_func, CacheInv, Entries, Kept, process
<1>6. call'[t] = c /\ pc'[t] = IF own = None THEN "compile" ELSE "get"
  BY <1>3 DEF create_compiled_func, CacheInv, TypeOK, Go
<1>7. InHand(t)'
  BY <1>2, <1>6 DEF InHand, c, create_compiled_func, process
<1>8. \A u \in Threads \ {t} : pc'[u] = pc[u] /\ call'[u] = call[u] /\ ir'[u] = ir[u] /\ tmp'[u] = tmp[u]
  BY DEF create_compiled_func, CacheInv, TypeOK, Go, Have
<1> QED
  BY <1>4, <1>5, <1>7, <1>8, ThreadStep DEF create_compiled_func, process

LEMMA GetMemoryStep ==
  ASSUME CacheInv, NEW t \in Threads, GetMemory(t)
  PROVE  CacheInv'
<1>1. At(t, "get") /\ pc[t] = "get" /\ pc[t] # "idle" /\ call[t].cache # None
  BY DEF GetMemory, At, CacheInv, InHand
<1>2. ProcOf[t] \in Procs /\ call[t] \in Calls /\ call[t].key \in Keys /\ call[t].cache \in 1 .. MaxSettings
  BY <1>1, InCall DEF Calls
<1>3. Remembered(t) \in {None, Kept(ProcOf[t], call[t].key)} /\ Remembered(t) \in IRs \cup {None}
  BY <1>1, InDict
<1>4. TypeOK'
  <2>1. [call[t] EXCEPT !.hit = TRUE] \in Calls
    BY <1>2 DEF Calls
  <2>2. call \in [Threads -> Calls \cup {None}]
    BY DEF CacheInv, TypeOK, Calls
  <2>3. call' \in [Threads -> Calls \cup {None}]
    BY <2>1, <2>2 DEF GetMemory, Hit
  <2>4. ir' \in [Threads -> IRs \cup {None}]
    BY <1>3 DEF GetMemory, Have, CacheInv, TypeOK
  <2>5. pc' \in [Threads -> Labels]
    BY DEF GetMemory, Hit, Go, CacheInv, TypeOK, Labels
  <2> QED
    BY <2>3, <2>4, <2>5 DEF GetMemory, CacheInv, TypeOK, process, Calls
<1>5. Entries'
  BY DEF GetMemory, CacheInv, Entries, Kept, process
<1>6. InHand(t)'
  <2>1. CASE Remembered(t) # None
    <3>1. /\ pc'[t] = "return" /\ ir'[t] = Kept(ProcOf[t], call[t].key)
          /\ call'[t] = [call[t] EXCEPT !.hit = TRUE] /\ memory' = memory /\ width' = width
      BY <1>1, <1>3, <2>1 DEF GetMemory, CacheInv, TypeOK, Go, Have, Hit, process
    <3>2. call'[t] \in Calls /\ call'[t].key = <<call'[t].source, call'[t].value>>
          /\ call'[t].key = call[t].key /\ call'[t].cache = call[t].cache
      BY <1>1, <1>2, <3>1, InCall DEF Calls
    <3>3. HasKept(t)' /\ Remembered(t)' = ir'[t]
      BY <1>3, <2>1, <3>1, <3>2 DEF HasKept, Kept, Remembered
    <3> QED
      BY <3>1, <3>2, <3>3 DEF InHand
  <2>2. CASE Remembered(t) = None
    <3>1. pc'[t] \in {"read", "compile"} /\ call'[t] = call[t] /\ UNCHANGED process
      BY <1>1, <2>2 DEF GetMemory, CacheInv, TypeOK, Go
    <3> QED
      BY <1>1, <3>1 DEF InHand, CacheInv, process
  <2> QED
    BY <2>1, <2>2
<1>7. \A u \in Threads \ {t} : pc'[u] = pc[u] /\ call'[u] = call[u] /\ ir'[u] = ir[u] /\ tmp'[u] = tmp[u]
  BY DEF GetMemory, CacheInv, TypeOK, Go, Have, Hit
<1> QED
  BY <1>4, <1>5, <1>6, <1>7, ThreadStep DEF GetMemory, process

LEMMA ReadFileStep ==
  ASSUME CacheInv, NEW t \in Threads, ReadFile(t)
  PROVE  CacheInv'
<1>1. pc[t] = "read" /\ pc[t] # "idle" /\ call[t].cache # None
  BY DEF ReadFile, At, CacheInv, InHand
<1>2. ProcOf[t] \in Procs /\ call[t] \in Calls /\ call[t].key \in Keys
  BY <1>1, InCall
<1>3. disk[call[t].key] = Kept(ProcOf[t], call[t].key) /\ Kept(ProcOf[t], call[t].key) \in IRs
  BY <1>1, <1>2, InCall DEF ReadFile, CacheInv, Entries, Agreed, Kept
<1>4. TypeOK'
  <2>1. [call[t] EXCEPT !.hit = TRUE] \in Calls
    BY <1>2 DEF Calls
  <2>2. call \in [Threads -> Calls \cup {None}]
    BY DEF CacheInv, TypeOK, Calls
  <2>3. call' \in [Threads -> Calls \cup {None}]
    BY <2>1, <2>2 DEF ReadFile, Hit
  <2> QED
    BY <1>3, <2>3 DEF ReadFile, Hit, Have, Go, CacheInv, TypeOK, process, Calls, Labels
<1>5. Entries'
  BY DEF ReadFile, CacheInv, Entries, Kept, process
<1>6. /\ pc'[t] = "remember" /\ ir'[t] = Kept(ProcOf[t], call[t].key)
      /\ call'[t] = [call[t] EXCEPT !.hit = TRUE] /\ UNCHANGED process
  BY <1>3 DEF ReadFile, Have, Hit, Go, CacheInv, TypeOK
<1>7. call'[t] \in Calls /\ call'[t].key = <<call'[t].source, call'[t].value>>
      /\ call'[t].key = call[t].key /\ call'[t].cache = call[t].cache /\ call'[t].value = call[t].value
  BY <1>1, <1>2, <1>6, InCall DEF Calls
<1>8. InHand(t)'
  BY <1>1, <1>6, <1>7 DEF InHand, HasKept, Kept, process, CacheInv
<1>9. \A u \in Threads \ {t} : pc'[u] = pc[u] /\ call'[u] = call[u] /\ ir'[u] = ir[u] /\ tmp'[u] = tmp[u]
  BY DEF ReadFile, CacheInv, TypeOK, Go, Have, Hit
<1> QED
  BY <1>4, <1>5, <1>8, <1>9, ThreadStep DEF ReadFile, process

LEMMA ReadFailsStep ==
  ASSUME CacheInv, NEW t \in Threads, ReadFails(t)
  PROVE  CacheInv'
<1>1. TypeOK'
  BY DEF ReadFails, Go, CacheInv, TypeOK, process, Labels
<1>2. Entries'
  BY DEF ReadFails, CacheInv, Entries, Kept, process
<1>3. InHand(t)'
  BY DEF ReadFails, At, Go, CacheInv, TypeOK, InHand, process
<1>4. \A u \in Threads \ {t} : pc'[u] = pc[u] /\ call'[u] = call[u] /\ ir'[u] = ir[u] /\ tmp'[u] = tmp[u]
  BY DEF ReadFails, CacheInv, TypeOK, Go
<1> QED
  BY <1>1, <1>2, <1>3, <1>4, ThreadStep DEF ReadFails, process

LEMMA CompileStep ==
  ASSUME CacheInv, NEW t \in Threads, Compile(t)
  PROVE  CacheInv'
<1> DEFINE x == compile_fresh(ProcOf[t], call[t].source)
<1>1. pc[t] = "compile" /\ pc[t] # "idle" /\ call[t].value = global[ProcOf[t]] /\ ~call[t].hit
  BY DEF Compile, At, CacheInv, InHand
<1>2. ProcOf[t] \in Procs /\ call[t].source \in Sources
  BY <1>1, InCall
<1>3. x \in IRs
  BY <1>2 DEF compile_fresh, IRs, CacheInv, TypeOK
<1>4. cacheable(t) => x = Kept(ProcOf[t], call[t].key)
  BY <1>1, InCall DEF cacheable, compile_fresh
<1> HIDE DEF x
<1>5. ir' = [ir EXCEPT ![t] = x]
  BY DEF x, Compile, Have
<1>6. TypeOK'
  BY <1>3, <1>5 DEF Compile, Go, CacheInv, TypeOK, process, Labels
<1>7. Entries'
  BY DEF Compile, CacheInv, Entries, Kept, process
<1>8. InHand(t)'
  <2>1. pc'[t] = (IF cacheable(t) THEN "put" ELSE "return") /\ ir'[t] = x
    BY <1>5 DEF Compile, Go, CacheInv, TypeOK
  <2>2. cacheable(t)' <=> cacheable(t)
    BY DEF Compile, cacheable
  <2>3. cacheable(t) => HasKept(t)'
    BY <1>4, <2>1 DEF HasKept, Kept, Compile, process
  <2>4. call[t] \in Calls /\ call[t].key = <<call[t].source, call[t].value>> /\ call' = call
    BY <1>1, InCall DEF Compile
  <2> QED
    BY <1>1, <2>1, <2>2, <2>3, <2>4 DEF InHand
<1>9. \A u \in Threads \ {t} : pc'[u] = pc[u] /\ call'[u] = call[u] /\ ir'[u] = ir[u] /\ tmp'[u] = tmp[u]
  BY DEF Compile, CacheInv, TypeOK, Go, Have
<1> QED
  BY <1>6, <1>7, <1>8, <1>9, ThreadStep DEF Compile, process

LEMMA RaiseStep ==
  ASSUME CacheInv, NEW t \in Threads, Raise(t)
  PROVE  CacheInv'
<1>1. TypeOK'
  BY DEF Raise, Go, Have, CacheInv, TypeOK, process, Labels
<1>2. Entries'
  BY DEF Raise, CacheInv, Entries, Kept, process
<1>3. InHand(t)'
  BY DEF Raise, Go, CacheInv, TypeOK, InHand
<1>4. \A u \in Threads \ {t} : pc'[u] = pc[u] /\ call'[u] = call[u] /\ ir'[u] = ir[u] /\ tmp'[u] = tmp[u]
  BY DEF Raise, CacheInv, TypeOK, Go, Have
<1> QED
  BY <1>1, <1>2, <1>3, <1>4, ThreadStep DEF Raise, process

LEMMA ReturnStep ==
  ASSUME CacheInv, NEW t \in Threads, Return(t)
  PROVE  CacheInv'
<1>1. TypeOK'
  BY DEF Return, Go, Have, CacheInv, TypeOK, process, Labels
<1>2. Entries'
  BY DEF Return, CacheInv, Entries, Kept, process
<1>3. InHand(t)'
  BY DEF Return, Go, CacheInv, TypeOK, InHand
<1>4. \A u \in Threads \ {t} : pc'[u] = pc[u] /\ call'[u] = call[u] /\ ir'[u] = ir[u] /\ tmp'[u] = tmp[u]
  BY DEF Return, CacheInv, TypeOK, Go, Have
<1> QED
  BY <1>1, <1>2, <1>3, <1>4, ThreadStep DEF Return, process

(* Storing in the dict the IR that belongs to the key.                     *)
LEMMA StoreKept ==
  ASSUME CacheInv, NEW t \in Threads, pc[t] # "idle", call[t].cache # None, HasKept(t), Store(t, ir[t]),
         UNCHANGED <<process, disk, call, ir>>
  PROVE  /\ memory' \in [Procs -> [1 .. MaxSettings -> [Keys -> IRs \cup {None}]]]
         /\ Entries' /\ Remembered(t)' = ir[t]
         /\ \A p \in Procs, g \in 1 .. MaxSettings, k \in Keys :
              memory[p][g][k] # None => memory'[p][g][k] = memory[p][g][k]
<1> DEFINE p == ProcOf[t]
           g == call[t].cache
           k == call[t].key
           x == ir[t]
<1>1. p \in Procs /\ k \in Keys /\ g \in 1 .. MaxSettings /\ x \in IRs /\ x = Kept(p, k)
  BY InCall, InDict DEF HasKept
<1>2. memory \in [Procs -> [1 .. MaxSettings -> [Keys -> IRs \cup {None}]]]
  BY DEF CacheInv, TypeOK
<1>3. memory' = [memory EXCEPT ![p][g][k] = x]
  BY DEF Store
<1>4. \A q \in Procs : Kept(q, k) = x
  BY <1>1 DEF Kept, CacheInv, Agreed
<1> HIDE DEF p, g, k, x
<1>5. memory' \in [Procs -> [1 .. MaxSettings -> [Keys -> IRs \cup {None}]]]
  BY <1>1, <1>2, <1>3
<1>6. \A q \in Procs, h \in 1 .. MaxSettings, l \in Keys :
        memory'[q][h][l] = IF q = p /\ h = g /\ l = k THEN x ELSE memory[q][h][l]
  BY <1>1, <1>2, <1>3
<1>7. \A q \in Procs, l \in Keys : Kept(q, l)' = Kept(q, l)
  BY DEF Kept, process
<1>8. Entries'
  BY <1>4, <1>6, <1>7 DEF CacheInv, Entries
<1>9. Remembered(t)' = ir[t]
  BY <1>1, <1>6 DEF Remembered, p, g, k, x
<1>10. ASSUME NEW q \in Procs, NEW h \in 1 .. MaxSettings, NEW l \in Keys, memory[q][h][l] # None
       PROVE  memory'[q][h][l] = memory[q][h][l]
  BY <1>1, <1>4, <1>6, <1>10 DEF CacheInv, Entries
<1> QED
  BY <1>5, <1>8, <1>9, <1>10

LEMMA RememberStep ==
  ASSUME CacheInv, NEW t \in Threads, Remember(t)
  PROVE  CacheInv'
<1>1. pc[t] = "remember" /\ pc[t] # "idle" /\ call[t].cache # None /\ HasKept(t)
  BY DEF Remember, At, CacheInv, InHand
<1>2. /\ memory' \in [Procs -> [1 .. MaxSettings -> [Keys -> IRs \cup {None}]]]
      /\ Entries' /\ Remembered(t)' = ir[t]
      /\ \A p \in Procs, g \in 1 .. MaxSettings, k \in Keys :
           memory[p][g][k] # None => memory'[p][g][k] = memory[p][g][k]
  BY <1>1, StoreKept DEF Remember
<1>3. TypeOK'
  BY <1>2 DEF Remember, Go, CacheInv, TypeOK, process, Labels
<1>4. InHand(t)'
  <2>1. pc'[t] = "return" /\ UNCHANGED <<process, call, ir>>
    BY DEF Remember, Go, CacheInv, TypeOK
  <2>2. HasKept(t)'
    BY <1>1, <2>1 DEF HasKept, Kept, process
  <2>3. call[t] \in Calls /\ call[t].key = <<call[t].source, call[t].value>>
    BY <1>1, InCall
  <2> QED
    BY <1>2, <2>1, <2>2, <2>3 DEF InHand
<1>5. \A u \in Threads \ {t} : pc'[u] = pc[u] /\ call'[u] = call[u] /\ ir'[u] = ir[u] /\ tmp'[u] = tmp[u]
  BY DEF Remember, CacheInv, TypeOK, Go
<1> QED
  BY <1>2, <1>3, <1>4, <1>5, ThreadStep DEF Remember, process

LEMMA PutMemoryStep ==
  ASSUME CacheInv, NEW t \in Threads, PutMemory(t)
  PROVE  CacheInv'
<1>1. /\ pc[t] = "put" /\ pc[t] # "idle" /\ HasKept(t) /\ ~call[t].hit
      /\ cacheable(t) /\ call[t].cache # None
  BY DEF PutMemory, At, CacheInv, InHand, cacheable
<1>2. /\ memory' \in [Procs -> [1 .. MaxSettings -> [Keys -> IRs \cup {None}]]]
      /\ Entries' /\ Remembered(t)' = ir[t]
      /\ \A p \in Procs, g \in 1 .. MaxSettings, k \in Keys :
           memory[p][g][k] # None => memory'[p][g][k] = memory[p][g][k]
  BY <1>1, StoreKept DEF PutMemory
<1>3. TypeOK'
  BY <1>2 DEF PutMemory, Go, CacheInv, TypeOK, process, Labels
<1>4. InHand(t)'
  <2>1. pc'[t] \in {"write", "return"} /\ UNCHANGED <<process, call, ir>>
    BY DEF PutMemory, Go, CacheInv, TypeOK
  <2>2. HasKept(t)' /\ cacheable(t)'
    BY <1>1, <2>1 DEF HasKept, Kept, process, cacheable
  <2>3. call[t] \in Calls /\ call[t].key = <<call[t].source, call[t].value>>
    BY <1>1, InCall
  <2> QED
    BY <1>1, <1>2, <2>1, <2>2, <2>3 DEF InHand
<1>5. \A u \in Threads \ {t} : pc'[u] = pc[u] /\ call'[u] = call[u] /\ ir'[u] = ir[u] /\ tmp'[u] = tmp[u]
  BY DEF PutMemory, CacheInv, TypeOK, Go
<1> QED
  BY <1>2, <1>3, <1>4, <1>5, ThreadStep DEF PutMemory, process

(* The steps of a writer: what it has stored stays its own.                *)
LEMMA Writer ==
  ASSUME CacheInv, NEW t \in Threads, pc[t] \in {"write", "replace"},
         UNCHANGED <<process, memory, call, ir>>
  PROVE  /\ call[t] \in Calls /\ call[t].key = <<call[t].source, call[t].value>> /\ ~call[t].hit
         /\ HasKept(t)' /\ cacheable(t)' /\ Remembered(t)' = ir[t]
BY InCall DEF CacheInv, InHand, HasKept, Kept, cacheable, Remembered, process

LEMMA WriteTempStep ==
  ASSUME CacheInv, NEW t \in Threads, WriteTemp(t)
  PROVE  CacheInv'
<1>1. TypeOK'
  BY DEF WriteTemp, Go, CacheInv, TypeOK, process, Labels
<1>2. Entries'
  BY DEF WriteTemp, CacheInv, Entries, Kept, process
<1>3. pc[t] = "write" /\ pc'[t] = "replace" /\ tmp'[t] = ir[t] /\ UNCHANGED <<process, memory, call, ir>>
  BY DEF WriteTemp, At, Go, CacheInv, TypeOK
<1>4. InHand(t)'
  BY <1>3, Writer DEF InHand
<1>5. \A u \in Threads \ {t} : pc'[u] = pc[u] /\ call'[u] = call[u] /\ ir'[u] = ir[u] /\ tmp'[u] = tmp[u]
  BY DEF WriteTemp, CacheInv, TypeOK, Go
<1> QED
  BY <1>1, <1>2, <1>4, <1>5, ThreadStep DEF WriteTemp, process

LEMMA ReplaceStep ==
  ASSUME CacheInv, NEW t \in Threads, Replace(t)
  PROVE  /\ CacheInv'
         /\ \A k \in Keys : disk[k] # None => disk'[k] = disk[k]
<1>1. pc[t] = "replace" /\ pc'[t] = "return" /\ UNCHANGED <<process, memory, call, ir>>
  BY DEF Replace, At, Go, CacheInv, TypeOK
<1>2. /\ ProcOf[t] \in Procs /\ call[t].key \in Keys
      /\ tmp[t] = Kept(ProcOf[t], call[t].key) /\ tmp[t] \in IRs
  BY <1>1, InCall DEF CacheInv, InHand, HasKept
<1>3. \A p \in Procs : tmp[t] = Kept(p, call[t].key)
  BY <1>2 DEF Kept, CacheInv, Agreed
<1>4. \A k \in Keys : disk'[k] = IF k = call[t].key THEN tmp[t] ELSE disk[k]
  BY DEF Replace, CacheInv, TypeOK
<1>5. TypeOK'
  BY <1>2 DEF Replace, Go, CacheInv, TypeOK, process, Labels
<1>6. Entries'
  BY <1>1, <1>2, <1>3, <1>4 DEF CacheInv, Entries, Kept, process
<1>7. InHand(t)'
  BY <1>1, Writer DEF InHand
<1>8. \A u \in Threads \ {t} : pc'[u] = pc[u] /\ call'[u] = call[u] /\ ir'[u] = ir[u] /\ tmp'[u] = tmp[u]
  BY DEF Replace, CacheInv, TypeOK, Go
<1>9. \A k \in Keys : disk[k] # None => disk'[k] = disk[k]
  BY <1>2, <1>3, <1>4 DEF CacheInv, Entries
<1> QED
  BY <1>5, <1>6, <1>7, <1>8, <1>9, ThreadStep DEF Replace, process

LEMMA WriteFailsStep ==
  ASSUME CacheInv, NEW t \in Threads, WriteFails(t)
  PROVE  CacheInv'
<1>1. TypeOK'
  BY DEF WriteFails, Go, CacheInv, TypeOK, process, Labels
<1>2. Entries'
  BY DEF WriteFails, CacheInv, Entries, Kept, process
<1>3. pc[t] \in {"write", "replace"} /\ pc'[t] = "return" /\ UNCHANGED <<process, memory, call, ir>>
  BY DEF WriteFails, At, Go, CacheInv, TypeOK
<1>4. InHand(t)'
  BY <1>3, Writer DEF InHand
<1>5. \A u \in Threads \ {t} : pc'[u] = pc[u] /\ call'[u] = call[u] /\ ir'[u] = ir[u] /\ tmp'[u] = tmp[u]
  BY DEF WriteFails, CacheInv, TypeOK, Go
<1> QED
  BY <1>1, <1>2, <1>4, <1>5, ThreadStep DEF WriteFails, process

-----------------------------------------------------------------------------
(* The process around the calls.                                           *)

LEMMA ConfigureStep ==
  ASSUME CacheInv, NEW p \in Procs, NEW enabled \in BOOLEAN, NEW directory \in BOOLEAN,
         set_cache_config(p, enabled, directory)
  PROVE  CacheInv'
<1>1. settings' \in [Procs -> 0 .. MaxSettings] /\ settings'[p] \in 1 .. MaxSettings
  BY CacheAssumption DEF set_cache_config, CacheInv, TypeOK
<1>2. TypeOK'
  BY <1>1 DEF set_cache_config, CacheInv, TypeOK
<1>3. Entries'
  BY DEF set_cache_config, CacheInv, Entries, Kept
<1>4. \A t \in Threads : Untouched(t)
  BY DEF set_cache_config, Untouched
<1> QED
  BY <1>2, <1>3, <1>4, UntouchedInHand DEF CacheInv, Agreed, set_cache_config

LEMMA ChangeGlobalStep ==
  ASSUME CacheInv, NEW p \in Procs, NEW v \in Values, ChangeGlobal(p, v)
  PROVE  CacheInv'
<1>1. TypeOK'
  BY DEF ChangeGlobal, CacheInv, TypeOK
<1>2. Entries'
  BY DEF ChangeGlobal, CacheInv, Entries, Kept
<1>3. ASSUME NEW t \in Threads PROVE Untouched(t)
  <2>1. ProcOf[t] # p => global'[ProcOf[t]] = global[ProcOf[t]]
    BY CacheAssumption DEF ChangeGlobal, CacheInv, TypeOK
  <2> QED
    BY <2>1 DEF ChangeGlobal, Untouched
<1> QED
  BY <1>1, <1>2, <1>3, UntouchedInHand DEF CacheInv, Agreed, ChangeGlobal

LEMMA KillStep ==
  ASSUME CacheInv, NEW p \in Procs, Kill(p)
  PROVE  CacheInv'
<1>1. memory' \in [Procs -> [1 .. MaxSettings -> [Keys -> IRs \cup {None}]]]
      /\ \A g \in 1 .. MaxSettings, k \in Keys : memory'[p][g][k] = None
      /\ \A q \in Procs \ {p} : memory'[q] = memory[q]
  BY DEF Kill, Forgotten, CacheInv, TypeOK
<1>2. TypeOK'
  BY <1>1, CacheAssumption DEF Kill, CacheInv, TypeOK, Labels
<1>3. Entries'
  BY <1>1 DEF Kill, CacheInv, Entries, Kept
<1>4. ASSUME NEW t \in Threads PROVE InHand(t)'
  <2>1. CASE ProcOf[t] = p
    BY <2>1 DEF Kill, InHand
  <2>2. CASE ProcOf[t] # p
    <3>1. ProcOf[t] \in Procs \ {p}
      BY <2>2, CacheAssumption
    <3>2. Untouched(t)
      BY <1>1, <2>2, <3>1 DEF Kill, Untouched
    <3> QED
      BY <1>3, <3>2, UntouchedInHand
  <2> QED
    BY <2>1, <2>2
<1> QED
  BY <1>2, <1>3, <1>4 DEF CacheInv, Agreed, Kill

LEMMA ClearDirectoryStep ==
  ASSUME CacheInv, ClearDirectory
  PROVE  CacheInv'
<1>1. TypeOK'
  BY DEF ClearDirectory, CacheInv, TypeOK, process
<1>2. Entries'
  BY DEF ClearDirectory, CacheInv, Entries, Kept, process
<1>3. \A t \in Threads : Untouched(t)
  BY DEF ClearDirectory, Untouched, process
<1> QED
  BY <1>1, <1>2, <1>3, UntouchedInHand DEF CacheInv, Agreed, ClearDirectory, process

-----------------------------------------------------------------------------

LEMMA ProceedKeepsCacheInv ==
  ASSUME CacheInv, NEW t \in Threads, Proceed(t)
  PROVE  CacheInv'
BY GetMemoryStep, ReadFileStep, ReadFailsStep, RememberStep, CompileStep, RaiseStep, PutMemoryStep,
   WriteTempStep, ReplaceStep, WriteFailsStep, ReturnStep
DEF Proceed, CompileRaises, WriteInterrupted

LEMMA NextKeepsCacheInv ==
  ASSUME CacheInv, [Next]_vars
  PROVE  CacheInv'
<1>1. CASE Next
  BY <1>1, ProceedKeepsCacheInv, CreateStep, ConfigureStep, ChangeGlobalStep, KillStep, ClearDirectoryStep
  DEF Next
<1>2. CASE UNCHANGED vars
  <2>1. TypeOK'
    BY <1>2 DEF vars, process, CacheInv, TypeOK
  <2>2. Entries'
    BY <1>2 DEF vars, process, CacheInv, Entries, Kept
  <2>3. \A t \in Threads : Untouched(t)
    BY <1>2 DEF vars, process, Untouched
  <2> QED
    BY <1>2, <2>1, <2>2, <2>3, UntouchedInHand DEF CacheInv, Agreed, vars, process
<1> QED
  BY <1>1, <1>2

(* Processes that share the directory and agree on the NumbaConfig keep    *)
(* one IR for a key, in every dict and in the directory, whatever races,   *)
(* failing writes, reconfigurations and kills there are.                   *)
THEOREM CacheInvariant == Spec => []CacheInv
BY CacheInvInit, NextKeepsCacheInv, PTL DEF Spec

(* Type correctness; no file a process reads is ever torn.                 *)
THEOREM CacheTypes == Spec => []TypeOK
<1>1. CacheInv => TypeOK
  BY DEF CacheInv
<1> QED
  BY <1>1, CacheInvariant, PTL

(* No entry holds addresses of a process, and none the IR of another       *)
(* function or of another value of its globals.                            *)
THEOREM EntriesStayRight == Spec => []EntriesMatchKeys
<1>1. ASSUME CacheInv, NEW k \in Keys, NEW x, x \notin {None, Torn},
             \/ x = disk[k]
             \/ \E p \in Procs, g \in 1 .. MaxSettings : x = memory[p][g][k]
      PROVE  x.addresses = "anyone" /\ _build_semantic_key(x.source, x.value) = k
  <2>1. PICK p \in Procs : x = Kept(p, k)
    BY <1>1 DEF CacheInv, Entries
  <2> QED
    BY <2>1 DEF Kept, _build_semantic_key, Keys
<1>2. CacheInv => EntriesMatchKeys
  BY <1>1 DEF EntriesMatchKeys
<1> QED
  BY <1>2, CacheInvariant, PTL

(* A hit is what the function would compile to in the process that gets    *)
(* it, with the value its global had when the call began.                  *)
THEOREM HitsAreFresh == Spec => []HitsMatchFresh
<1>1. CacheInv => HitsMatchFresh
  BY InCall DEF CacheInv, HitsMatchFresh, InHand, HasKept, At
<1> QED
  BY <1>1, CacheInvariant, PTL

(* What a call returned and the cache may keep is in the dict of the cache *)
(* object the call began with, also when the directory failed.             *)
THEOREM ServedStays == Spec => []ServedIsRemembered
<1>1. CacheInv => ServedIsRemembered
  BY DEF CacheInv, ServedIsRemembered, InHand, At
<1> QED
  BY <1>1, CacheInvariant, PTL

(* Only clearing the directory takes a published file away or changes it:  *)
(* rival writers write what is there.                                      *)
THEOREM PublishedFilesStay == Spec => PublishedStays
<1>1. ASSUME CacheInv, [Next]_vars
      PROVE  \A k \in Keys : disk[k] # None => (disk'[k] = disk[k] \/ ClearDirectory)
  <2>1. ASSUME NEW t \in Threads, Replace(t)
        PROVE  \A k \in Keys : disk[k] # None => disk'[k] = disk[k]
    BY <1>1, <2>1, ReplaceStep
  <2>2. \/ UNCHANGED disk \/ ClearDirectory \/ \E t \in Threads : Replace(t)
    BY <1>1 DEF Next, Proceed, GetMemory, ReadFile, ReadFails, Remember, Compile, CompileRaises, PutMemory,
                WriteTemp, WriteFails, WriteInterrupted, Raise, Return, create_compiled_func,
                set_cache_config, ChangeGlobal, Kill, vars
  <2> QED
    BY <2>1, <2>2
<1> QED
  BY <1>1, CacheInvariant, PTL DEF Spec, PublishedStays
=============================================================================
