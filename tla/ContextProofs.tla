---------------------------- MODULE ContextProofs ----------------------------
(***************************************************************************)
(* What NumbaConfig and CompilationContext guarantee for any number of     *)
(* threads, contexts, types, categories and methods.                       *)
(***************************************************************************)
EXTENDS CompilationContext, NatRecursion, FiniteSetTheorems, SequenceTheorems, TLAPS

-----------------------------------------------------------------------------
(* NumbaConfig: the configuration is chosen once, and every call of        *)
(* config.py looks atomic; it implements WriteOnce.                        *)

Getting == {"get_look", "get_lock", "get_check", "get_assign", "get_unlock", "get_read"}
Setting == {"set_lock", "set_check", "set_assign", "set_unlock"}

(* What a thread has in hand at each place of the two functions.           *)
InHand(t) ==
  /\ pc[t] \in Locked => _numba_config_lock = t
  /\ pc[t] = "idle" => args[t] = None
  /\ pc[t] \in Getting => args[t] = None
  /\ pc[t] \in Setting => args[t] \in Configs \cup {Invalid}
  /\ result[t] = None <=> pc[t] \notin {"set_unlock", "return"}
  /\ pc[t] \in {"set_assign", "get_assign"} => _numba_config = None
  /\ pc[t] \in {"get_unlock", "get_read"} => _numba_config # None

ConfigInv == TypeOK /\ \A t \in Threads : InHand(t)

-----------------------------------------------------------------------------

LEMMA ConfigInvInit == Init => ConfigInv
BY ConfigAssumption DEF Init, ConfigInv, TypeOK, InHand, Labels, Locked, Getting, Setting

(* The lock keeps the two tests apart: one step of one thread.             *)
LEMMA ProceedKeepsConfigInv ==
  ASSUME ConfigInv, NEW t \in Threads, Proceed(t)
  PROVE  ConfigInv'
<1> USE DEF ConfigInv, TypeOK, InHand, Labels, Locked, Getting, Setting, At, Go, Return
<1>1. CASE SetLock(t)
  BY <1>1, ConfigAssumption DEF SetLock, Lock
<1>2. CASE SetRefused(t)
  BY <1>2, ConfigAssumption DEF SetRefused
<1>3. CASE SetAllowed(t)
  BY <1>3, ConfigAssumption DEF SetAllowed
<1>4. CASE SetAssign(t)
  BY <1>4, ConfigAssumption DEF SetAssign
<1>5. CASE SetUnlock(t)
  BY <1>5, ConfigAssumption DEF SetUnlock, Unlock
<1>6. CASE GetLook(t)
  BY <1>6, ConfigAssumption DEF GetLook
<1>7. CASE GetLock(t)
  BY <1>7, ConfigAssumption DEF GetLock, Lock
<1>8. CASE GetCheck(t)
  BY <1>8, ConfigAssumption DEF GetCheck
<1>9. CASE GetAssign(t)
  BY <1>9, ConfigAssumption DEF GetAssign
<1>10. CASE GetUnlock(t)
  BY <1>10, ConfigAssumption DEF GetUnlock, Unlock
<1>11. CASE GetRead(t)
  BY <1>11, ConfigAssumption DEF GetRead
<1>12. CASE Leave(t)
  BY <1>12, ConfigAssumption DEF Leave
<1> QED
  BY <1>1, <1>2, <1>3, <1>4, <1>5, <1>6, <1>7, <1>8, <1>9, <1>10, <1>11, <1>12
  DEF Proceed

(* The start of a call.                                                    *)
LEMMA CallKeepsConfigInv ==
  ASSUME ConfigInv, NEW t \in Threads,
         NEW arg \in Configs \cup {Invalid},
         set_numba_config(t, arg) \/ get_numba_config(t)
  PROVE  ConfigInv'
<1> USE DEF ConfigInv, TypeOK, InHand, Labels, Locked, Getting, Setting, At, Go, Call
<1>1. CASE set_numba_config(t, arg)
  BY <1>1, ConfigAssumption DEF set_numba_config
<1>2. CASE get_numba_config(t)
  BY <1>2, ConfigAssumption DEF get_numba_config
<1> QED
  BY <1>1, <1>2

(* What the threads have in hand holds in every reachable state.           *)
THEOREM ConfigInvariant == Spec => []ConfigInv
<1>1. ASSUME ConfigInv, Next PROVE ConfigInv'
  BY <1>1, ProceedKeepsConfigInv, CallKeepsConfigInv DEF Next
<1>2. ASSUME ConfigInv, UNCHANGED vars PROVE ConfigInv'
  BY <1>2 DEF vars, ConfigInv, TypeOK, InHand
<1> QED
  BY ConfigInvInit, <1>1, <1>2, PTL DEF Spec

-----------------------------------------------------------------------------
(* The refinement.  A call is asked when it begins, decided when it takes  *)
(* its value or finds the answer, and answered when it returns.            *)

Requests == [t \in Threads |-> Request(t)]
Outcomes == [t \in Threads |-> Outcome(t)]

LEMMA InitRefines == Init => Once!OnceInit
<1> SUFFICES ASSUME Init PROVE Once!OnceInit
  OBVIOUS
<1>1. \A t \in Threads : Request(t) = None /\ Outcome(t) = None
  BY DEF Init, Request, Outcome, At
<1> QED
  BY <1>1 DEF Init, Once!OnceInit

(* A step of t that leaves what others see of it: only t's request and     *)
(* outcome may change, and the outcomes that quote the configuration, of   *)
(* which there are none while it is not chosen.                            *)
LEMMA OthersKeep ==
  ASSUME ConfigInv, NEW t \in Threads,
         \A u \in Threads \ {t} : pc'[u] = pc[u] /\ args'[u] = args[u] /\ result'[u] = result[u],
         _numba_config = None \/ _numba_config' = _numba_config
  PROVE  \A u \in Threads \ {t} : Request(u)' = Request(u) /\ Outcome(u)' = Outcome(u)
BY DEF ConfigInv, InHand, Request, Outcome, At

(* The three kinds of step, given what t asks for and is told.             *)
LEMMA AskStep ==
  ASSUME NEW t \in Threads, NEW r \in Configs \cup {Invalid, "get"},
         \A u \in Threads \ {t} : Request(u)' = Request(u) /\ Outcome(u)' = Outcome(u),
         Request(t) = None, Request(t)' = r, Outcome(t)' = Outcome(t),
         UNCHANGED _numba_config
  PROVE  Once!OnceNext
<1>1. Requests' = [Requests EXCEPT ![t] = r] /\ Outcomes' = Outcomes
  BY DEF Requests, Outcomes
<1> QED
  BY <1>1 DEF Once!OnceNext, Once!Ask, Requests, Outcomes

LEMMA DecideStep ==
  ASSUME NEW t \in Threads, NEW STATE r, NEW STATE c,
         \A u \in Threads \ {t} : Request(u)' = Request(u) /\ Outcome(u)' = Outcome(u),
         Request(t) # None, Request(t)' = Request(t),
         Outcome(t) = None, Outcome(t)' = r, _numba_config' = c
  PROVE  Once!Decide(t, c, r)
<1>1. Outcomes' = [Outcomes EXCEPT ![t] = r] /\ Requests' = Requests
  BY DEF Requests, Outcomes
<1> QED
  BY <1>1 DEF Once!Decide, Requests, Outcomes

LEMMA AnswerStep ==
  ASSUME NEW t \in Threads,
         \A u \in Threads \ {t} : Request(u)' = Request(u) /\ Outcome(u)' = Outcome(u),
         Outcome(t) # None, Request(t)' = None, Outcome(t)' = None,
         UNCHANGED _numba_config
  PROVE  Once!OnceNext
<1>1. /\ Requests' = [Requests EXCEPT ![t] = None]
      /\ Outcomes' = [Outcomes EXCEPT ![t] = None]
  BY DEF Requests, Outcomes
<1> QED
  BY <1>1 DEF Once!OnceNext, Once!Answer, Requests, Outcomes

LEMMA StutterStep ==
  ASSUME NEW t \in Threads,
         \A u \in Threads : Request(u)' = Request(u) /\ Outcome(u)' = Outcome(u),
         UNCHANGED _numba_config
  PROVE  UNCHANGED Once!onceVars
<1>1. Requests' = Requests /\ Outcomes' = Outcomes
  BY DEF Requests, Outcomes
<1> QED
  BY <1>1 DEF Once!onceVars, Requests, Outcomes

LEMMA ProceedRefines ==
  ASSUME ConfigInv, NEW t \in Threads, Proceed(t)
  PROVE  [Once!OnceNext]_(Once!onceVars)
<1>1. \A u \in Threads \ {t} : pc'[u] = pc[u] /\ args'[u] = args[u] /\ result'[u] = result[u]
  BY DEF Proceed, ConfigInv, TypeOK, Go, Return, SetLock, GetLock, Lock, SetUnlock, GetUnlock,
         Unlock, SetRefused, SetAllowed, SetAssign, GetLook, GetCheck, GetAssign, GetRead, Leave
<1>2. _numba_config = None \/ _numba_config' = _numba_config
  BY DEF Proceed, ConfigInv, InHand, At, SetLock, GetLock, Lock, SetUnlock, GetUnlock,
         Unlock, SetRefused, SetAllowed, SetAssign, GetLook, GetCheck, GetAssign, GetRead, Leave
<1>3. \A u \in Threads \ {t} : Request(u)' = Request(u) /\ Outcome(u)' = Outcome(u)
  BY <1>1, <1>2, OthersKeep
<1> USE DEF ConfigInv, TypeOK, InHand, Getting, Setting, Locked, Request, Outcome, At, Go, Return
<1>4. CASE SetLock(t) \/ SetAllowed(t) \/ SetUnlock(t) \/ GetLock(t) \/ GetUnlock(t) \/ GetRead(t)
  <2>1. Request(t)' = Request(t) /\ Outcome(t)' = Outcome(t) /\ UNCHANGED _numba_config
    BY <1>4, ConfigAssumption DEF SetLock, SetAllowed, SetUnlock, GetLock, GetUnlock, GetRead, Lock, Unlock
  <2> QED
    BY <2>1, <1>3, StutterStep
<1>5. CASE SetRefused(t)
  <2>1. /\ Request(t) = args[t] /\ args[t] # "get" /\ Request(t)' = Request(t) /\ Request(t) # None
        /\ Outcome(t) = None /\ Outcome(t)' = "RuntimeError"
        /\ _numba_config # None /\ _numba_config' = _numba_config
    BY <1>5, ConfigAssumption DEF SetRefused
  <2> HIDE DEF Request, Outcome, ConfigInv, InHand, TypeOK
  <2>2. Once!Decide(t, _numba_config, "RuntimeError")
    BY <2>1, <1>3, DecideStep
  <2> QED
    BY <2>1, <2>2 DEF Once!OnceNext, Once!Set
<1>6. CASE SetAssign(t) /\ args[t] # Invalid
  <2>1. /\ Request(t) = args[t] /\ args[t] # "get" /\ args[t] \in Configs
        /\ Request(t)' = Request(t) /\ Request(t) # None
        /\ Outcome(t) = None /\ Outcome(t)' = args[t]
        /\ _numba_config = None /\ _numba_config' = args[t]
    BY <1>6, ConfigAssumption DEF SetAssign
  <2> HIDE DEF Request, Outcome, ConfigInv, InHand, TypeOK
  <2>2. Once!Decide(t, args[t], args[t])
    BY <2>1, <1>3, DecideStep
  <2> QED
    BY <2>1, <2>2 DEF Once!OnceNext, Once!Set
<1>7. CASE SetAssign(t) /\ args[t] = Invalid
  <2>1. /\ Request(t) = Invalid /\ Invalid # "get" /\ Invalid \notin Configs
        /\ Request(t)' = Request(t) /\ Request(t) # None
        /\ Outcome(t) = None /\ Outcome(t)' = "ValueError"
        /\ _numba_config = None /\ _numba_config' = None
    BY <1>7, ConfigAssumption DEF SetAssign
  <2> HIDE DEF Request, Outcome, ConfigInv, InHand, TypeOK
  <2>2. Once!Decide(t, None, "ValueError")
    BY <2>1, <1>3, DecideStep
  <2> QED
    BY <2>1, <2>2 DEF Once!OnceNext, Once!Set
<1>8. CASE (GetLook(t) \/ GetCheck(t)) /\ _numba_config = None
  <2>1. Request(t)' = Request(t) /\ Outcome(t)' = Outcome(t) /\ UNCHANGED _numba_config
    BY <1>8, ConfigAssumption DEF GetLook, GetCheck
  <2> QED
    BY <2>1, <1>3, StutterStep
<1>9. CASE (GetLook(t) \/ GetCheck(t)) /\ _numba_config # None
  <2>1. /\ Request(t) = "get" /\ Request(t)' = Request(t) /\ Request(t) # None
        /\ Outcome(t) = None /\ Outcome(t)' = _numba_config
        /\ _numba_config' = _numba_config
    BY <1>9, ConfigAssumption DEF GetLook, GetCheck
  <2> HIDE DEF Request, Outcome, ConfigInv, InHand, TypeOK
  <2>2. Once!Decide(t, _numba_config, _numba_config)
    BY <2>1, <1>3, DecideStep
  <2> QED
    BY <1>9, <2>1, <2>2 DEF Once!OnceNext, Once!Get
<1>10. CASE GetAssign(t)
  <2>1. /\ Request(t) = "get" /\ Request(t)' = Request(t) /\ Request(t) # None
        /\ Outcome(t) = None /\ Outcome(t)' = Default
        /\ _numba_config = None /\ _numba_config' = Default
    BY <1>10, ConfigAssumption DEF GetAssign
  <2> HIDE DEF Request, Outcome, ConfigInv, InHand, TypeOK
  <2>2. Once!Decide(t, Default, Default)
    BY <2>1, <1>3, DecideStep
  <2> QED
    BY <2>1, <2>2 DEF Once!OnceNext, Once!Get
<1>11. CASE Leave(t)
  <2>1. /\ Outcome(t) # None /\ Request(t)' = None /\ Outcome(t)' = None
        /\ UNCHANGED _numba_config
    BY <1>11, ConfigAssumption DEF Leave
  <2> QED
    BY <2>1, <1>3, AnswerStep
<1> QED
  BY <1>4, <1>5, <1>6, <1>7, <1>8, <1>9, <1>10, <1>11 DEF Proceed

LEMMA CallRefines ==
  ASSUME ConfigInv, NEW t \in Threads,
         NEW arg \in Configs \cup {Invalid},
         set_numba_config(t, arg) \/ get_numba_config(t)
  PROVE  Once!OnceNext
<1>1. \A u \in Threads \ {t} : pc'[u] = pc[u] /\ args'[u] = args[u] /\ result'[u] = result[u]
  BY DEF set_numba_config, get_numba_config, Call, Go, ConfigInv, TypeOK
<1>2. _numba_config' = _numba_config
  BY DEF set_numba_config, get_numba_config, Call
<1>3. \A u \in Threads \ {t} : Request(u)' = Request(u) /\ Outcome(u)' = Outcome(u)
  BY <1>1, <1>2, OthersKeep
<1> USE DEF ConfigInv, TypeOK, Call, Go, At, Request, Outcome
<1>4. CASE set_numba_config(t, arg)
  <2>1. Request(t) = None /\ Request(t)' = arg /\ Outcome(t)' = Outcome(t)
    BY <1>4, ConfigAssumption DEF set_numba_config
  <2> QED
    BY <2>1, <1>2, <1>3, AskStep
<1>5. CASE get_numba_config(t)
  <2>1. Request(t) = None /\ Request(t)' = "get" /\ Outcome(t)' = Outcome(t)
    BY <1>5, ConfigAssumption DEF get_numba_config
  <2> QED
    BY <2>1, <1>2, <1>3, AskStep
<1> QED
  BY <1>4, <1>5

(* Whatever the interleaving, set_numba_config and get_numba_config choose *)
(* once, and every call looks as if it had happened at one moment.         *)
THEOREM ConfigIsWrittenOnce == Spec => ImplementsWriteOnce
<1>1. ASSUME ConfigInv, [Next]_vars PROVE [Once!OnceNext]_(Once!onceVars)
  <2>1. CASE Next
    BY <1>1, <2>1, ProceedRefines, CallRefines DEF Next
  <2>2. CASE UNCHANGED vars
    BY <2>2 DEF vars, Once!onceVars, Request, Outcome, At
  <2> QED
    BY <1>1, <2>1, <2>2
<1> QED
  BY <1>1, InitRefines, ConfigInvariant, PTL DEF Spec, ImplementsWriteOnce, Once!OnceSpec

-----------------------------------------------------------------------------
(* The steps of NumbaConfig.                                               *)

LEMMA ContextStepsConfig ==
  ASSUME [ContextNext]_allVars
  PROVE  [Next]_vars
<1>1. ASSUME NEW t \in Threads, ConfigStep(t) PROVE Next
  BY <1>1 DEF ConfigStep, Next
<1>2. ASSUME NEW t \in Threads, NEW task2, Begin(t, task2) PROVE Next
  BY <1>2 DEF Begin, Next
<1>3. ASSUME NEW t \in Threads, __enter__(t) \/ current(t) PROVE Next
  BY <1>3 DEF __enter__, current, Next, Proceed
<1>4. ASSUME NEW t \in Threads,
             \/ __exit__(t) \/ RegisterType(t) \/ CheckCategory(t) \/ AppendCategory(t)
             \/ Finish(t) \/ name_to_opcode(t) \/ BeginScan(t) \/ EndScan(t) \/ ScanRaises(t)
      PROVE  UNCHANGED vars
  BY <1>4 DEF __exit__, RegisterType, CheckCategory, AppendCategory, Finish, name_to_opcode,
              BeginScan, EndScan, ScanRaises
<1>5. CASE ContextNext
  BY <1>1, <1>2, <1>3, <1>4, <1>5
  DEF ContextNext, ContextProceed, BeginEnter, BeginRegister, BeginCompile
<1>6. CASE UNCHANGED allVars
  BY <1>6 DEF allVars
<1> QED
  BY <1>5, <1>6

LEMMA ContextIsConfig == ContextSpec => Spec
BY ContextStepsConfig, PTL DEF ContextSpec, ContextInit, Spec

(* Whatever contexts and threads do, the configuration is chosen once and  *)
(* every call of config.py looks atomic.                                   *)
THEOREM ContextWritesOnce == ContextSpec => ImplementsWriteOnce
BY ContextIsConfig, ConfigIsWrittenOnce, PTL

-----------------------------------------------------------------------------
(* The shape of a state.                                                   *)

Items == [type : Types, priority : {None}] \cup [type : {ExtensionType}, priority : {0}]
           \cup [category : Categories \cup {ExtensionCategory}]
Blocks == [context : Contexts, before : Objects \cup {None}, again : BOOLEAN]
Tokens == [thread : Threads, old : Objects \cup {None}, used : BOOLEAN]

EnterTasks == [stage : {"enter"}, context : Contexts]
RegisterTasks == [stage : {"current", "register", "append"}, todo : Seq(Items), method : Methods \cup {None}]
LowerTasks == [stage : {"lower"}, todo : Seq(Items), method : Methods]
ScanTasks == [stage : {"scan"}, method : Methods, size : {Cardinality(s) : s \in SUBSET Methods}]
Tasks == EnterTasks \cup RegisterTasks \cup LowerTasks \cup ScanTasks

Shape ==
  /\ _current_context \in [Threads -> Objects \cup {None}]
  /\ task \in [Threads -> Tasks \cup {None}]
  /\ blocks \in [Threads -> Seq(Blocks)]
  /\ _token \in [Objects -> Tokens \cup {None}]
  /\ type_classes \in [Objects -> Seq(Types)]
  /\ source_categories \in [Objects -> Seq(Categories \cup {ExtensionCategory})]
  /\ ffi_opcode_cache \in [Objects -> SUBSET Methods]
  /\ users \in [Objects -> SUBSET Threads]

(* Whose context it is: a context a thread uses, or will use when it       *)
(* leaves a block, has the thread among its users.                         *)
Inside(t) == task[t] # None /\ task[t].stage \in {"register", "append", "lower", "scan"}

Owned ==
  /\ \A o \in Objects : IsFiniteSet(users[o])
  /\ \A t \in Threads : Context(t) # None => t \in users[Context(t)]
  /\ \A t \in Threads : Inside(t) => Context(t) # None
  /\ \A t \in Threads : Does(t, "append") =>
       task[t].todo # <<>> /\ Doing(t) \in [category : Categories \cup {ExtensionCategory}]

(* A context in whose block a thread is has the token of the last entry;   *)
(* that is the thread's own unless the context was entered again, as it    *)
(* was for the outer one of two blocks of one thread.                      *)
BlockInv(t, i) ==
  LET block == blocks[t][i]
      token == _token[block.context]
  IN  /\ token \in Tokens
      /\ token.old # None => token.thread \in users[token.old]
      /\ ~block.again => token = [thread |-> t, old |-> block.before, used |-> FALSE]
      /\ \A j \in 1 .. i - 1 : blocks[t][j].context = block.context => blocks[t][j].again

Tokened == \A t \in Threads : \A i \in 1 .. Len(blocks[t]) : BlockInv(t, i)

-----------------------------------------------------------------------------

LEMMA RegistrationsAreItems == RegisterAll \in Seq(Items) /\ Extend \in Seq(Items)
<1> DEFINE A == [i \in DOMAIN DefaultTypes |-> [type |-> DefaultTypes[i], priority |-> None]]
           B == [i \in DOMAIN DefaultCategories |-> [category |-> DefaultCategories[i]]]
<1>1. /\ DefaultTypes \in Seq(ToSet(DefaultTypes))
      /\ DefaultCategories \in Seq(ToSet(DefaultCategories))
  BY ContextAssumption
<1>2. /\ Len(DefaultTypes) \in Nat /\ DOMAIN DefaultTypes = 1 .. Len(DefaultTypes)
      /\ Len(DefaultCategories) \in Nat /\ DOMAIN DefaultCategories = 1 .. Len(DefaultCategories)
  BY <1>1
<1>3. A \in Seq(Items)
  <2>1. \A i \in 1 .. Len(DefaultTypes) : [type |-> DefaultTypes[i], priority |-> None] \in Items
    BY <1>2 DEF Items, Types
  <2> HIDE DEF Items
  <2>2. A \in [1 .. Len(DefaultTypes) -> Items]
    BY <1>2, <2>1
  <2> QED
    BY <1>2, <2>2, SeqDef
<1>4. B \in Seq(Items)
  <2>1. \A i \in 1 .. Len(DefaultCategories) : [category |-> DefaultCategories[i]] \in Items
    BY <1>2 DEF Items, Categories
  <2> HIDE DEF Items
  <2>2. B \in [1 .. Len(DefaultCategories) -> Items]
    BY <1>2, <2>1
  <2> QED
    BY <1>2, <2>2, SeqDef
<1>5. Extend \in Seq(Items)
  <2>1. [type |-> ExtensionType, priority |-> 0] \in Items /\ [category |-> ExtensionCategory] \in Items
    BY DEF Items, Types
  <2> QED
    BY <2>1 DEF Extend
<1> QED
  <2> HIDE DEF A, B
  <2>1. A \o B \in Seq(Items)
    BY <1>3, <1>4
  <2> QED
    BY <2>1, <1>5 DEF RegisterAll, A, B

LEMMA InitShape == ContextInit => Shape /\ Owned /\ Tokened
<1> SUFFICES ASSUME ContextInit PROVE Shape /\ Owned /\ Tokened
  OBVIOUS
<1>1. Shape
  BY DEF ContextInit, Shape
<1>2. \A o \in Objects : IsFiniteSet(users[o])
  BY FS_EmptySet DEF ContextInit
<1>3. \A t \in Threads : Context(t) = None /\ task[t] = None /\ blocks[t] = <<>>
  BY DEF ContextInit, Context
<1>4. Owned
  BY <1>2, <1>3 DEF Owned, Inside, Does
<1>5. Tokened
  BY <1>3 DEF Tokened
<1> QED
  BY <1>1, <1>4, <1>5

(* A step of t with a new task for it, in which no thread's context, block *)
(* or use of a context changes.                                            *)
LEMMA TaskStep ==
  ASSUME Shape, Owned, Tokened, UNCHANGED <<_current_context, _token, blocks, users>>,
         type_classes' \in [Objects -> Seq(Types)],
         source_categories' \in [Objects -> Seq(Categories \cup {ExtensionCategory})],
         ffi_opcode_cache' \in [Objects -> SUBSET Methods],
         NEW t \in Threads, NEW STATE x, x \in Tasks \cup {None}, Continue(t, x),
         x # None /\ x.stage \in {"register", "append", "lower", "scan"} => Context(t) # None,
         x # None /\ x.stage = "append" =>
           x.todo # <<>> /\ Head(x.todo) \in [category : Categories \cup {ExtensionCategory}]
  PROVE  Shape' /\ Owned' /\ Tokened'
<1>1. task' \in [Threads -> Tasks \cup {None}] /\ task'[t] = x /\ \A u \in Threads \ {t} : task'[u] = task[u]
  BY DEF Shape, Continue
<1>2. \A u \in Threads : Context(u)' = Context(u)
  BY DEF Context
<1>3. Shape'
  BY <1>1 DEF Shape
<1>4. Tokened'
  BY DEF Tokened, BlockInv
<1>5. \A u \in Threads : Inside(u)' => Context(u)' # None
  BY <1>1, <1>2 DEF Inside, Owned
<1>6. \A u \in Threads : Does(u, "append")' =>
        task'[u].todo # <<>> /\ Doing(u)' \in [category : Categories \cup {ExtensionCategory}]
  BY <1>1 DEF Does, Doing, Owned
<1> QED
  BY <1>2, <1>3, <1>4, <1>5, <1>6 DEF Owned

(* The same when the registries do not change either.                      *)
LEMMA QuietStep ==
  ASSUME Shape, Owned, Tokened, UNCHANGED contextVars,
         NEW t \in Threads, NEW STATE x, x \in Tasks \cup {None}, Continue(t, x),
         x # None /\ x.stage \in {"register", "append", "lower", "scan"} => Context(t) # None,
         x # None /\ x.stage = "append" =>
           x.todo # <<>> /\ Head(x.todo) \in [category : Categories \cup {ExtensionCategory}]
  PROVE  Shape' /\ Owned' /\ Tokened'
<1>1. /\ type_classes' \in [Objects -> Seq(Types)]
      /\ source_categories' \in [Objects -> Seq(Categories \cup {ExtensionCategory})]
      /\ ffi_opcode_cache' \in [Objects -> SUBSET Methods]
  BY DEF Shape, contextVars
<1>2. UNCHANGED <<_current_context, _token, blocks, users>>
  BY DEF contextVars
<1> QED
  BY <1>1, <1>2, TaskStep

LEMMA BeginShape ==
  ASSUME Shape, Owned, Tokened, NEW t \in Threads,
         \/ \E c \in Contexts : BeginEnter(t, c)
         \/ \E todo \in {RegisterAll, Extend} : BeginRegister(t, todo)
         \/ \E m \in Methods : BeginCompile(t, m)
  PROVE  Shape' /\ Owned' /\ Tokened'
<1>1. ASSUME NEW c \in Contexts, BeginEnter(t, c) PROVE Shape' /\ Owned' /\ Tokened'
  <2>1. [stage |-> "enter", context |-> c] \in Tasks
    BY DEF Tasks, EnterTasks
  <2> QED
    BY <1>1, <2>1, QuietStep DEF BeginEnter, Begin
<1>2. ASSUME NEW todo \in Seq(Items), NEW m \in Methods \cup {None},
             Begin(t, [stage |-> "current", todo |-> todo, method |-> m])
      PROVE  Shape' /\ Owned' /\ Tokened'
  <2>1. [stage |-> "current", todo |-> todo, method |-> m] \in Tasks
    BY DEF Tasks, RegisterTasks
  <2> QED
    BY <1>2, <2>1, QuietStep DEF Begin
<1>3. <<>> \in Seq(Items)
  OBVIOUS
<1> QED
  BY <1>1, <1>2, <1>3, RegistrationsAreItems DEF BeginRegister, BeginCompile

(* What a task is, stage by stage.                                         *)
LEMMA TaskByStage ==
  ASSUME Shape, NEW t \in Threads, task[t] # None
  PROVE  /\ Does(t, "enter") => task[t] \in EnterTasks
         /\ task[t].stage \in {"current", "register", "append"} => task[t] \in RegisterTasks
         /\ Does(t, "lower") => task[t] \in LowerTasks
         /\ Does(t, "scan") => task[t] \in ScanTasks
BY DEF Shape, Tasks, EnterTasks, RegisterTasks, LowerTasks, ScanTasks, Does

LEMMA ToRegister ==
  ASSUME NEW STATE r, r \in RegisterTasks, NEW STATE e, e \in Seq(Items)
  PROVE  /\ [r EXCEPT !.stage = "register", !.todo = e] \in RegisterTasks
         /\ [r EXCEPT !.stage = "register", !.todo = e].stage = "register"
BY DEF RegisterTasks

LEMMA RegisterTypeShape ==
  ASSUME Shape, Owned, Tokened, NEW t \in Threads, RegisterType(t)
  PROVE  Shape' /\ Owned' /\ Tokened'
<1> DEFINE o == Context(t)
           x == [task[t] EXCEPT !.todo = Tail(@)]
<1>1. task[t] \in RegisterTasks /\ task[t].stage = "register" /\ task[t].todo # <<>>
  BY TaskByStage DEF RegisterType, Does
<1>2. x \in RegisterTasks /\ x.stage = "register"
  BY <1>1 DEF RegisterTasks
<1>3. o \in Objects /\ o # None
  BY <1>1 DEF Owned, Inside, Shape, Context, RegisterType, Does
<1>4. Doing(t) \in [type : Types, priority : {0, None}]
  <2>1. Doing(t) \in Items
    BY <1>1 DEF Doing, RegisterTasks
  <2>2. "type" \in DOMAIN Doing(t)
    BY DEF RegisterType
  <2>3. 0 \in {0, None} /\ None \in {0, None} /\ ExtensionType \in Types
    BY DEF Types
  <2>4. CASE Doing(t) \in [type : Types, priority : {None}]
    BY <2>4, <2>3
  <2>5. CASE Doing(t) \in [type : {ExtensionType}, priority : {0}]
    BY <2>5, <2>3
  <2>6. Doing(t) \notin [category : Categories \cup {ExtensionCategory}]
    BY <2>2
  <2> QED
    BY <2>1, <2>4, <2>5, <2>6 DEF Items
<1>5. type_classes' \in [Objects -> Seq(Types)]
  <2>1. type_classes[o] \in Seq(Types) /\ Doing(t).type \in Types
    BY <1>3, <1>4 DEF Shape
  <2>2. Append(type_classes[o], Doing(t).type) \in Seq(Types)
    BY <2>1
  <2>3. CASE Doing(t).priority = None
    BY <2>2, <2>3, <1>3 DEF RegisterType, Shape
  <2>4. CASE Doing(t).priority # None
    <3>1. Doing(t).priority + 1 = 1
      BY <2>4, <1>4
    <3>2. InsertAt(type_classes[o], 1, Doing(t).type) \in Seq(Types)
      BY <2>1 DEF InsertAt
    <3> QED
      BY <2>4, <3>1, <3>2, <1>3 DEF RegisterType, Shape
  <2> QED
    BY <2>3, <2>4
<1>6. Continue(t, x) /\ UNCHANGED <<_current_context, _token, blocks, users>>
      /\ source_categories' = source_categories /\ ffi_opcode_cache' = ffi_opcode_cache
  BY DEF RegisterType
<1> HIDE DEF x
<1>7. x \in Tasks \cup {None}
  BY <1>2 DEF Tasks
<1> QED
  BY <1>2, <1>3, <1>5, <1>6, <1>7, TaskStep DEF Shape

LEMMA CheckCategoryShape ==
  ASSUME Shape, Owned, Tokened, NEW t \in Threads, CheckCategory(t)
  PROVE  Shape' /\ Owned' /\ Tokened'
<1> DEFINE y == [task[t] EXCEPT !.stage = "append"]
           x == IF Taken(Context(t), Doing(t).category) THEN None ELSE y
<1>1. task[t] \in RegisterTasks /\ task[t].stage = "register" /\ task[t].todo # <<>>
  BY TaskByStage DEF CheckCategory, Does
<1>2. y \in RegisterTasks /\ y.stage = "append" /\ y.todo = task[t].todo
  BY <1>1 DEF RegisterTasks
<1>3. Context(t) # None
  BY <1>1 DEF Owned, Inside, CheckCategory, Does
<1>4. Doing(t) \in [category : Categories \cup {ExtensionCategory}]
  <2>1. Doing(t) \in Items
    BY <1>1 DEF Doing, RegisterTasks
  <2>2. "category" \in DOMAIN Doing(t)
    BY DEF CheckCategory
  <2> QED
    BY <2>1, <2>2 DEF Items
<1>5. Head(y.todo) = Doing(t)
  BY <1>2 DEF Doing
<1>6. Continue(t, x) /\ UNCHANGED contextVars
  BY DEF CheckCategory
<1> HIDE DEF y
<1>7. x \in Tasks \cup {None}
  BY <1>2 DEF Tasks
<1>8. x = None \/ x = y
  OBVIOUS
<1> HIDE DEF x
<1> QED
  BY <1>1, <1>2, <1>3, <1>4, <1>5, <1>6, <1>7, <1>8, QuietStep

LEMMA AppendCategoryShape ==
  ASSUME Shape, Owned, Tokened, NEW t \in Threads, AppendCategory(t)
  PROVE  Shape' /\ Owned' /\ Tokened'
<1> DEFINE o == Context(t)
           x == [task[t] EXCEPT !.stage = "register", !.todo = Tail(@)]
<1>1. task[t] \in RegisterTasks /\ task[t].stage = "append" /\ task[t].todo # <<>>
  BY TaskByStage DEF AppendCategory, Does, Owned
<1>2. x \in RegisterTasks /\ x.stage = "register"
  <2>1. task[t].todo \in Seq(Items) /\ Tail(task[t].todo) \in Seq(Items)
    BY <1>1 DEF RegisterTasks
  <2> QED
    BY <1>1, <2>1, ToRegister
<1>3. o \in Objects /\ o # None
  BY <1>1 DEF Owned, Inside, Shape, Context, AppendCategory, Does
<1>4. source_categories' \in [Objects -> Seq(Categories \cup {ExtensionCategory})]
  <2>1. /\ Doing(t).category \in Categories \cup {ExtensionCategory}
        /\ source_categories[o] \in Seq(Categories \cup {ExtensionCategory})
    BY <1>3 DEF Owned, AppendCategory, Shape
  <2>2. Append(source_categories[o], Doing(t).category) \in Seq(Categories \cup {ExtensionCategory})
    BY <2>1
  <2> QED
    BY <2>2, <1>3 DEF AppendCategory, Shape
<1>5. Continue(t, x) /\ UNCHANGED <<_current_context, _token, blocks, users>>
      /\ type_classes' = type_classes /\ ffi_opcode_cache' = ffi_opcode_cache
  BY DEF AppendCategory
<1> HIDE DEF x
<1>6. x \in Tasks \cup {None}
  BY <1>2 DEF Tasks
<1> QED
  BY <1>2, <1>3, <1>4, <1>5, <1>6, TaskStep DEF Shape

LEMMA CompileShape ==
  ASSUME Shape, Owned, Tokened, NEW t \in Threads,
         Finish(t) \/ name_to_opcode(t) \/ BeginScan(t) \/ EndScan(t) \/ ScanRaises(t)
  PROVE  Shape' /\ Owned' /\ Tokened'
<1>1. CASE Finish(t) \/ EndScan(t) \/ ScanRaises(t)
  BY <1>1, QuietStep DEF Finish, EndScan, ScanRaises
<1>2. CASE name_to_opcode(t)
  <2> DEFINE o == Context(t)
             x == [task[t] EXCEPT !.stage = "lower"]
  <2>1. task[t] \in RegisterTasks /\ task[t].stage = "register" /\ task[t].method # None
    BY <1>2, TaskByStage DEF name_to_opcode, Registered, Does
  <2>2. x \in LowerTasks /\ x.stage = "lower" /\ task[t].method \in Methods
    BY <2>1 DEF RegisterTasks, LowerTasks
  <2>3. o \in Objects /\ o # None
    BY <1>2, <2>1 DEF Owned, Inside, Shape, Context, name_to_opcode, Registered, Does
  <2>4. ffi_opcode_cache' \in [Objects -> SUBSET Methods]
    BY <1>2, <2>2, <2>3 DEF name_to_opcode, Shape
  <2>5. Continue(t, x) /\ UNCHANGED <<_current_context, _token, blocks, users>>
        /\ type_classes' = type_classes /\ source_categories' = source_categories
    BY <1>2 DEF name_to_opcode
  <2> HIDE DEF x
  <2>6. x \in Tasks \cup {None}
    BY <2>2 DEF Tasks
  <2> QED
    BY <2>2, <2>3, <2>4, <2>5, <2>6, TaskStep DEF Shape
<1>3. CASE BeginScan(t)
  <2> DEFINE x == [stage |-> "scan", method |-> task[t].method,
                   size |-> Cardinality(ffi_opcode_cache[Context(t)])]
  <2>1. task[t] \in LowerTasks /\ task[t].stage = "lower"
    BY <1>3, TaskByStage DEF BeginScan, Does
  <2>2. Context(t) # None
    BY <1>3, <2>1 DEF Owned, Inside, BeginScan, Does
  <2>3. ffi_opcode_cache[Context(t)] \in SUBSET Methods /\ task[t].method \in Methods
    BY <2>1, <2>2 DEF Shape, Context, LowerTasks
  <2>4. x \in ScanTasks /\ x.stage = "scan"
    BY <2>3 DEF ScanTasks
  <2>5. Continue(t, x) /\ UNCHANGED contextVars
    BY <1>3 DEF BeginScan
  <2> HIDE DEF x
  <2> QED
    BY <2>2, <2>4, <2>5, QuietStep DEF Tasks
<1> QED
  BY <1>1, <1>2, <1>3

-----------------------------------------------------------------------------
(* Contexts change hands.                                                  *)

(* A context gets a user.                                                  *)
LEMMA SetUsers ==
  ASSUME Shape, Owned, NEW t \in Threads, NEW STATE o, o \in Objects, Set(t, o)
  PROVE  /\ users' \in [Objects -> SUBSET Threads]
         /\ \A p \in Objects : users[p] \subseteq users'[p] /\ IsFiniteSet(users'[p])
         /\ t \in users'[o]
         /\ _current_context' \in [Threads -> Objects \cup {None}]
         /\ Context(t)' = o
         /\ \A u \in Threads \ {t} : Context(u)' = Context(u)
<1>1. \A p \in Objects : users'[p] = IF p = o THEN users[p] \cup {t} ELSE users[p]
  BY DEF Set, Shape
<1>2. \A p \in Objects : IsFiniteSet(users[p]) /\ IsFiniteSet(users[p] \cup {t})
  BY FS_AddElement DEF Owned
<1>3. users' \in [Objects -> SUBSET Threads]
  BY DEF Set, Shape
<1>4. _current_context' \in [Threads -> Objects \cup {None}] /\ _current_context'[t] = o
      /\ \A u \in Threads \ {t} : _current_context'[u] = _current_context[u]
  BY DEF Set, Shape
<1> QED
  BY <1>1, <1>2, <1>3, <1>4 DEF Context

LEMMA CurrentShape ==
  ASSUME Shape, Owned, Tokened, NEW t \in Threads, current(t)
  PROVE  Shape' /\ Owned' /\ Tokened'
<1>1. task[t] \in RegisterTasks /\ task[t].stage = "current" /\ task[t] # None
  BY TaskByStage DEF current, Does
<1>2. CASE _current_context[t] # None
  <2> DEFINE x == [task[t] EXCEPT !.stage = "register"]
  <2>1. x \in RegisterTasks /\ x.stage = "register"
    BY <1>1 DEF RegisterTasks
  <2>2. Continue(t, x) /\ UNCHANGED contextVars
    BY <1>2 DEF current, contextVars
  <2> HIDE DEF x
  <2> QED
    BY <1>2, <2>1, <2>2, QuietStep DEF Tasks, Context
<1>3. CASE _current_context[t] = None
  <2> DEFINE e == RegisterAll \o task[t].todo
             x == [task[t] EXCEPT !.stage = "register", !.todo = e]
  <2>1. e \in Seq(Items)
    BY <1>1, RegistrationsAreItems DEF RegisterTasks
  <2>2. x \in RegisterTasks /\ x.stage = "register"
    BY <1>1, <2>1, ToRegister
  <2>3. Set(t, t) /\ Continue(t, x)
    BY <1>3 DEF current
  <2> HIDE DEF x
  <2>4. t \in Objects /\ t # None
    BY ConfigAssumption DEF Objects
  <2>5. task' \in [Threads -> Tasks \cup {None}] /\ task'[t] = x /\ \A u \in Threads \ {t} : task'[u] = task[u]
    BY <2>2, <2>3 DEF Shape, Continue, Tasks
  <2>6. /\ users' \in [Objects -> SUBSET Threads]
        /\ \A p \in Objects : users[p] \subseteq users'[p] /\ IsFiniteSet(users'[p])
        /\ t \in users'[t]
        /\ _current_context' \in [Threads -> Objects \cup {None}]
        /\ Context(t)' = t
        /\ \A u \in Threads \ {t} : Context(u)' = Context(u)
    BY <2>3, <2>4, SetUsers
  <2>7. UNCHANGED <<_token, blocks, type_classes, source_categories, ffi_opcode_cache>>
    BY DEF current
  <2>8. Shape'
    BY <2>5, <2>6, <2>7 DEF Shape
  <2>9. Tokened'
    BY <2>6, <2>7 DEF Tokened, BlockInv, Tokens
  <2>10. \A u \in Threads : Context(u)' # None => u \in users'[Context(u)']
    <3>1. \A u \in Threads : Context(u) # None => Context(u) \in Objects /\ u \in users[Context(u)]
      BY DEF Owned, Shape, Context
    <3> QED
      BY <3>1, <2>6
  <2>11. \A u \in Threads : Inside(u)' => Context(u)' # None
    BY <2>4, <2>5, <2>6 DEF Inside, Owned
  <2>12. \A u \in Threads : Does(u, "append")' =>
          task'[u].todo # <<>> /\ Doing(u)' \in [category : Categories \cup {ExtensionCategory}]
    BY <2>2, <2>5 DEF Does, Doing, Owned
  <2> QED
    BY <2>6, <2>8, <2>9, <2>10, <2>11, <2>12 DEF Owned
<1> QED
  BY <1>2, <1>3

(* __enter__ marks the blocks of the context it enters.                    *)
Marked(s, c) == [i \in DOMAIN s |-> [s[i] EXCEPT !.again = @ \/ s[i].context = c]]

LEMMA Marking ==
  ASSUME NEW s \in Seq(Blocks), NEW c
  PROVE  /\ Marked(s, c) \in Seq(Blocks) /\ Len(Marked(s, c)) = Len(s)
         /\ \A i \in 1 .. Len(s) :
              /\ Marked(s, c)[i].context = s[i].context
              /\ Marked(s, c)[i].before = s[i].before
              /\ Marked(s, c)[i].again <=> (s[i].again \/ s[i].context = c)
<1> DEFINE m(b) == [b EXCEPT !.again = @ \/ b.context = c]
<1>1. ASSUME NEW b \in Blocks
      PROVE  /\ m(b) \in Blocks /\ m(b).context = b.context /\ m(b).before = b.before
             /\ m(b).again <=> (b.again \/ b.context = c)
  BY DEF Blocks
<1>2. Len(s) \in Nat /\ DOMAIN s = 1 .. Len(s) /\ \A i \in 1 .. Len(s) : s[i] \in Blocks
  OBVIOUS
<1>3. Marked(s, c) = [i \in 1 .. Len(s) |-> m(s[i])]
  BY <1>2 DEF Marked
<1> HIDE DEF m
<1>4. Marked(s, c) \in [1 .. Len(s) -> Blocks]
  BY <1>1, <1>2, <1>3
<1>5. Marked(s, c) \in Seq(Blocks) /\ Len(Marked(s, c)) = Len(s)
  BY <1>2, <1>4, SeqDef, LenProperties
<1> QED
  BY <1>1, <1>2, <1>3, <1>5

LEMMA EnterShape ==
  ASSUME Shape, Owned, Tokened, NEW t \in Threads, __enter__(t)
  PROVE  Shape' /\ Owned' /\ Tokened'
<1> DEFINE c == task[t].context
           block == [context |-> c, before |-> _current_context[t], again |-> FALSE]
           token == [thread |-> t, old |-> _current_context[t], used |-> FALSE]
           n == Len(blocks[t])
<1>1. c \in Contexts /\ c \in Objects /\ c # None
  BY TaskByStage, ContextAssumption DEF __enter__, Does, EnterTasks, Objects
<1>2. block \in Blocks /\ token \in Tokens
  BY <1>1 DEF Blocks, Tokens, Shape
<1>3. /\ _token' = [_token EXCEPT ![c] = token]
      /\ blocks' = [u \in Threads |-> IF u = t THEN Append(Marked(blocks[u], c), block) ELSE Marked(blocks[u], c)]
      /\ Set(t, c) /\ Continue(t, None)
      /\ UNCHANGED <<type_classes, source_categories, ffi_opcode_cache>>
  BY DEF __enter__, Marked
<1> HIDE DEF block, token, c
<1>4. \A u \in Threads : blocks[u] \in Seq(Blocks) /\ Len(blocks[u]) \in Nat
                         /\ \A i \in 1 .. Len(blocks[u]) : blocks[u][i] \in Blocks
  BY DEF Shape
<1>5. \A u \in Threads : /\ Marked(blocks[u], c) \in Seq(Blocks)
                         /\ Len(Marked(blocks[u], c)) = Len(blocks[u])
                         /\ \A i \in 1 .. Len(blocks[u]) :
                              /\ Marked(blocks[u], c)[i].context = blocks[u][i].context
                              /\ Marked(blocks[u], c)[i].before = blocks[u][i].before
                              /\ Marked(blocks[u], c)[i].again <=> (blocks[u][i].again \/ blocks[u][i].context = c)
  BY <1>4, Marking
<1>6. /\ blocks'[t] \in Seq(Blocks) /\ Len(blocks'[t]) = n + 1 /\ blocks'[t][n + 1] = block
      /\ \A i \in 1 .. n : blocks'[t][i] = Marked(blocks[t], c)[i]
  BY <1>2, <1>3, <1>4, <1>5
<1>7. \A u \in Threads \ {t} : blocks'[u] = Marked(blocks[u], c)
  BY <1>3
<1>8. blocks' \in [Threads -> Seq(Blocks)]
  <2>1. \A u \in Threads : blocks'[u] \in Seq(Blocks)
    BY <1>5, <1>6, <1>7
  <2> QED
    BY <2>1, <1>3
<1>9. _token' \in [Objects -> Tokens \cup {None}] /\ _token'[c] = token
      /\ \A o \in Objects \ {c} : _token'[o] = _token[o]
  BY <1>1, <1>2, <1>3 DEF Shape
<1>10. task' \in [Threads -> Tasks \cup {None}] /\ task'[t] = None /\ \A u \in Threads \ {t} : task'[u] = task[u]
  BY <1>3 DEF Shape, Continue
<1>11. /\ users' \in [Objects -> SUBSET Threads]
       /\ \A p \in Objects : users[p] \subseteq users'[p] /\ IsFiniteSet(users'[p])
       /\ t \in users'[c]
       /\ _current_context' \in [Threads -> Objects \cup {None}]
       /\ Context(t)' = c
       /\ \A u \in Threads \ {t} : Context(u)' = Context(u)
  BY <1>1, <1>3, SetUsers
<1>12. Shape'
  BY <1>3, <1>8, <1>9, <1>10, <1>11 DEF Shape
<1>13. Owned'
  <2>1. \A u \in Threads : Context(u)' # None => u \in users'[Context(u)']
    <3>1. \A u \in Threads : Context(u) # None => Context(u) \in Objects /\ u \in users[Context(u)]
      BY DEF Owned, Shape, Context
    <3> QED
      BY <3>1, <1>11
  <2>2. \A u \in Threads : Inside(u)' => Context(u)' # None
    BY <1>10, <1>11 DEF Inside, Owned
  <2>3. \A u \in Threads : Does(u, "append")' =>
          task'[u].todo # <<>> /\ Doing(u)' \in [category : Categories \cup {ExtensionCategory}]
    BY <1>10 DEF Does, Doing, Owned
  <2> QED
    BY <1>11, <2>1, <2>2, <2>3 DEF Owned
<1>14. token.old # None => token.thread \in users'[token.old]
  BY <1>11 DEF token, Owned, Context, Shape
<1>15. ASSUME NEW u \in Threads, NEW i \in 1 .. Len(blocks[u]),
              \A j \in 1 .. i : blocks'[u][j] = Marked(blocks[u], c)[j]
       PROVE  BlockInv(u, i)'
  <2> DEFINE b == blocks[u][i]
  <2>1. b \in Blocks /\ b.context \in Contexts /\ b.context \in Objects
    BY <1>4 DEF Blocks, Objects
  <2>2. BlockInv(u, i)
    BY DEF Tokened
  <2>3. /\ blocks'[u][i].context = b.context /\ blocks'[u][i].before = b.before
        /\ blocks'[u][i].again <=> (b.again \/ b.context = c)
    BY <1>15, <1>5, <1>4
  <2>4. \A j \in 1 .. i - 1 : blocks'[u][j].context = blocks'[u][i].context => blocks'[u][j].again
    <3> SUFFICES ASSUME NEW j \in 1 .. i - 1, blocks'[u][j].context = blocks'[u][i].context
                 PROVE  blocks'[u][j].again
      OBVIOUS
    <3>1. j \in 1 .. i /\ j \in 1 .. Len(blocks[u])
      BY <1>4
    <3>2. blocks[u][j].context = b.context
      BY <3>1, <1>15, <1>5, <2>3
    <3>3. blocks[u][j].again
      BY <2>2, <3>2 DEF BlockInv
    <3> QED
      BY <3>1, <3>3, <1>15, <1>5
  <2>5. CASE b.context = c
    <3>1. blocks'[u][i].again /\ _token'[blocks'[u][i].context] = token
      BY <2>3, <2>5, <1>9
    <3> QED
      BY <3>1, <2>4, <1>2, <1>14 DEF BlockInv
  <2>6. CASE b.context # c
    <3>1. _token'[blocks'[u][i].context] = _token[b.context] /\ (blocks'[u][i].again <=> b.again)
      BY <2>1, <2>3, <2>6, <1>9
    <3>2. LET k == _token[b.context] IN k \in Tokens /\ (k.old # None => k.thread \in users'[k.old])
      BY <2>2, <1>11 DEF BlockInv, Tokens
    <3>3. ~b.again => _token[b.context] = [thread |-> u, old |-> b.before, used |-> FALSE]
      BY <2>2 DEF BlockInv
    <3> QED
      BY <3>1, <3>2, <3>3, <2>3, <2>4 DEF BlockInv
  <2> QED
    BY <2>5, <2>6
<1>16. ASSUME NEW u \in Threads, NEW i \in Nat, u = t, i = n + 1
       PROVE  BlockInv(u, i)'
  <2>1. blocks'[u][i].context = c /\ blocks'[u][i].before = _current_context[t]
    BY <1>6, <1>16 DEF block
  <2>2. \A j \in 1 .. i - 1 : blocks'[u][j].context = c => blocks'[u][j].again
    <3>1. i - 1 = n
      BY <1>16, <1>4
    <3>2. \A j \in 1 .. n : blocks'[t][j].context = c => blocks'[t][j].again
      <4> TAKE j \in 1 .. n
      <4>1. /\ Marked(blocks[t], c)[j].context = blocks[t][j].context
            /\ Marked(blocks[t], c)[j].again <=> (blocks[t][j].again \/ blocks[t][j].context = c)
        BY <1>5
      <4>2. blocks'[t][j] = Marked(blocks[t], c)[j]
        BY <1>6
      <4> QED
        BY <4>1, <4>2
    <3> QED
      BY <3>1, <3>2, <1>16
  <2>3. _token'[blocks'[u][i].context] = token
    BY <1>9, <2>1
  <2>4. token = [thread |-> u, old |-> blocks'[u][i].before, used |-> FALSE]
    BY <2>1, <1>16 DEF token
  <2> QED
    BY <2>1, <2>2, <2>3, <2>4, <1>2, <1>14 DEF BlockInv
<1>17. Tokened'
  <2> SUFFICES ASSUME NEW u \in Threads, NEW i \in 1 .. Len(blocks'[u]) PROVE BlockInv(u, i)'
    BY DEF Tokened
  <2>1. CASE u = t /\ i = n + 1
    BY <2>1, <1>4, <1>16
  <2>2. CASE u = t /\ i # n + 1
    <3>1. i \in 1 .. n /\ \A j \in 1 .. i : j \in 1 .. n
      BY <2>2, <1>4, <1>6
    <3> QED
      BY <3>1, <2>2, <1>6, <1>15
  <2>3. CASE u # t
    BY <2>3, <1>5, <1>7, <1>15
  <2> QED
    BY <2>1, <2>2, <2>3
<1> QED
  BY <1>12, <1>13, <1>17

LEMMA ExitFacts ==
  ASSUME Shape, Owned, Tokened, NEW t \in Threads, __exit__(t)
  PROVE  LET left == Last(blocks[t])
             c == left.context
         IN  /\ left \in Blocks /\ BlockInv(t, Len(blocks[t])) /\ left = blocks[t][Len(blocks[t])]
             /\ Len(blocks[t]) \in Nat /\ Len(blocks[t]) >= 1
             /\ blocks' \in [Threads -> Seq(Blocks)]
             /\ \A u \in Threads : /\ Len(blocks'[u]) <= Len(blocks[u])
                                   /\ \A i \in 1 .. Len(blocks'[u]) : blocks'[u][i] = blocks[u][i]
             /\ Len(blocks'[t]) = Len(blocks[t]) - 1
             /\ \A u \in Threads \ {t} : blocks'[u] = blocks[u]
<1> DEFINE n == Len(blocks[t])
<1>1. blocks[t] \in Seq(Blocks) /\ n \in Nat /\ n >= 1 /\ \A i \in 1 .. n : blocks[t][i] \in Blocks
  BY DEF Shape, __exit__
<1>2. blocks'[t] = Front(blocks[t]) /\ \A u \in Threads \ {t} : blocks'[u] = blocks[u]
  BY DEF Shape, __exit__
<1>3. \A i \in 1 .. n - 1 : blocks[t][i] \in Blocks
  BY <1>1
<1>4. n - 1 \in Int
  BY <1>1
<1>5. /\ SubSeq(blocks[t], 1, n - 1) \in Seq(Blocks)
      /\ Len(SubSeq(blocks[t], 1, n - 1)) = IF 1 <= n - 1 THEN n - 1 - 1 + 1 ELSE 0
      /\ \A i \in 1 .. n - 1 - 1 + 1 : SubSeq(blocks[t], 1, n - 1)[i] = blocks[t][1 + i - 1]
  BY <1>3, <1>4, SubSeqProperties
<1>6. /\ Front(blocks[t]) \in Seq(Blocks) /\ Len(Front(blocks[t])) = n - 1
      /\ \A i \in 1 .. n - 1 : Front(blocks[t])[i] = blocks[t][i]
  BY <1>1, <1>5 DEF Front
<1>7. \A u \in Threads : blocks'[u] \in Seq(Blocks)
  BY <1>2, <1>6 DEF Shape
<1>8. blocks' \in [Threads -> Seq(Blocks)]
  BY <1>7 DEF __exit__, Shape
<1>9. Last(blocks[t]) = blocks[t][n]
  BY DEF Last
<1>10. BlockInv(t, n)
  BY <1>1 DEF Tokened
<1>11. ASSUME NEW u \in Threads
       PROVE  /\ Len(blocks'[u]) <= Len(blocks[u])
              /\ \A i \in 1 .. Len(blocks'[u]) : blocks'[u][i] = blocks[u][i]
  <2>1. CASE u = t
    BY <2>1, <1>1, <1>2, <1>6
  <2>2. CASE u # t
    BY <2>2, <1>2 DEF Shape
  <2> QED
    BY <2>1, <2>2
<1> QED
  BY <1>1, <1>2, <1>6, <1>8, <1>9, <1>10, <1>11

LEMMA ExitShape ==
  ASSUME Shape, Owned, Tokened, NEW t \in Threads, __exit__(t)
  PROVE  Shape' /\ Owned' /\ Tokened'
<1> DEFINE n == Len(blocks[t])
           left == Last(blocks[t])
           c == left.context
<1>1. /\ left \in Blocks /\ BlockInv(t, n) /\ left = blocks[t][n] /\ n \in Nat /\ n >= 1
      /\ blocks' \in [Threads -> Seq(Blocks)]
      /\ \A u \in Threads : /\ Len(blocks'[u]) <= Len(blocks[u])
                            /\ \A i \in 1 .. Len(blocks'[u]) : blocks'[u][i] = blocks[u][i]
      /\ Len(blocks'[t]) = n - 1
  BY ExitFacts
<1>2. c \in Objects /\ _token[c] \in Tokens
  BY <1>1 DEF BlockInv, Blocks, Objects
<1>3. /\ task[t] = None
      /\ IF Resets(t, c)
           THEN /\ _current_context' = [_current_context EXCEPT ![t] = _token[c].old]
                /\ _token' = [_token EXCEPT ![c].used = TRUE]
           ELSE UNCHANGED <<_current_context, _token>>
      /\ UNCHANGED <<task, type_classes, source_categories, ffi_opcode_cache, users>>
  BY DEF __exit__
<1> HIDE DEF left
<1>4. /\ _token' \in [Objects -> Tokens \cup {None}]
      /\ \A o \in Objects \ {c} : _token'[o] = _token[o]
      /\ _token'[c] \in Tokens /\ _token'[c].old = _token[c].old /\ _token'[c].thread = _token[c].thread
  <2> DEFINE k == [_token[c] EXCEPT !.used = TRUE]
  <2>1. k \in Tokens /\ k.old = _token[c].old /\ k.thread = _token[c].thread
    BY <1>2 DEF Tokens
  <2>2. _token \in [Objects -> Tokens \cup {None}]
    BY DEF Shape
  <2>3. CASE Resets(t, c)
    <3>1. _token' = [_token EXCEPT ![c] = k]
      BY <1>3, <2>3
    <3> HIDE DEF k, c
    <3> QED
      BY <3>1, <2>1, <2>2, <1>2
  <2>4. CASE ~Resets(t, c)
    BY <1>2, <1>3, <2>2, <2>4
  <2> QED
    BY <2>3, <2>4
<1>5. ~Resets(t, c) => _token' = _token
  BY <1>3
<1>6. /\ _current_context' \in [Threads -> Objects \cup {None}]
      /\ \A u \in Threads \ {t} : Context(u)' = Context(u)
  BY <1>2, <1>3 DEF Shape, Tokens, Context
<1>7. Context(t)' # None => Context(t)' \in Objects /\ t \in users[Context(t)']
  <2>1. CASE Resets(t, c)
    <3>1. Context(t)' = _token[c].old /\ _token[c].thread = t
      BY <1>3, <2>1 DEF Context, Shape, Resets
    <3>2. _token[c].old # None => _token[c].old \in Objects /\ _token[c].thread \in users[_token[c].old]
      BY <1>1, <1>2 DEF BlockInv, Tokens
    <3> QED
      BY <3>1, <3>2
  <2>2. CASE ~Resets(t, c)
    BY <1>3, <2>2 DEF Context, Owned, Shape
  <2> QED
    BY <2>1, <2>2
<1>8. Shape'
  BY <1>1, <1>3, <1>4, <1>6 DEF Shape
<1>9. Owned'
  BY <1>3, <1>6, <1>7 DEF Owned, Inside, Does, Doing
<1>10. Tokened'
  <2> SUFFICES ASSUME NEW u \in Threads, NEW i \in 1 .. Len(blocks'[u]) PROVE BlockInv(u, i)'
    BY DEF Tokened
  <2> DEFINE b == blocks[u][i]
  <2>1. /\ Len(blocks'[u]) \in Nat /\ Len(blocks[u]) \in Nat /\ i \in 1 .. Len(blocks[u])
        /\ \A j \in 1 .. i : blocks'[u][j] = blocks[u][j]
    BY <1>1 DEF Shape
  <2>2. BlockInv(u, i) /\ blocks'[u][i] = b /\ b \in Blocks
    BY <2>1 DEF Tokened, Shape
  <2>3. b.context \in Objects
    BY <2>2 DEF Blocks, Objects
  <2>4. \A j \in 1 .. i - 1 : blocks'[u][j].context = blocks'[u][i].context => blocks'[u][j].again
    BY <2>1, <2>2 DEF BlockInv
  <2>5. LET k == _token'[b.context] IN k \in Tokens /\ (k.old # None => k.thread \in users'[k.old])
    <3>1. _token[b.context] \in Tokens /\ (_token[b.context].old # None => _token[b.context].thread \in users[_token[b.context].old])
      BY <2>2 DEF BlockInv
    <3> QED
      BY <3>1, <1>3, <1>4, <2>3
  <2>6. ASSUME ~b.again PROVE _token'[b.context] = [thread |-> u, old |-> b.before, used |-> FALSE]
    <3>1. _token[b.context] = [thread |-> u, old |-> b.before, used |-> FALSE]
      BY <2>2, <2>6 DEF BlockInv
    <3>2. CASE b.context # c \/ ~Resets(t, c)
      BY <3>1, <3>2, <1>4, <1>5, <2>3
    <3>3. CASE b.context = c /\ Resets(t, c)
      <4>1. u = t
        BY <3>1, <3>3 DEF Resets
      <4>2. i \in 1 .. n - 1
        BY <4>1, <1>1
      <4>3. blocks[t][i].again
        BY <4>1, <4>2, <3>3, <1>1 DEF BlockInv
      <4> QED
        BY <4>1, <4>3, <2>6
    <3> QED
      BY <3>2, <3>3
  <2> QED
    BY <2>2, <2>4, <2>5, <2>6 DEF BlockInv
<1> QED
  BY <1>8, <1>9, <1>10

(* Every step.                                                             *)
LEMMA StepShape ==
  ASSUME Shape, Owned, Tokened, [ContextNext]_allVars
  PROVE  Shape' /\ Owned' /\ Tokened'
<1>1. ASSUME UNCHANGED <<contextVars, task>> PROVE Shape' /\ Owned' /\ Tokened'
  <2>1. Shape'
    BY <1>1 DEF contextVars, Shape
  <2>2. Owned'
    BY <1>1 DEF contextVars, Owned, Inside, Does, Doing, Context
  <2>3. Tokened'
    BY <1>1 DEF contextVars, Tokened, BlockInv
  <2> QED
    BY <2>1, <2>2, <2>3
<1>2. ASSUME NEW t \in Threads, ConfigStep(t) PROVE Shape' /\ Owned' /\ Tokened'
  BY <1>1, <1>2 DEF ConfigStep
<1>3. ASSUME NEW t \in Threads, ContextProceed(t) PROVE Shape' /\ Owned' /\ Tokened'
  BY <1>2, <1>3, EnterShape, CurrentShape, RegisterTypeShape, CheckCategoryShape, AppendCategoryShape, CompileShape
  DEF ContextProceed
<1>4. CASE ContextNext
  BY <1>2, <1>3, <1>4, BeginShape, ExitShape DEF ContextNext
<1>5. CASE UNCHANGED allVars
  BY <1>1, <1>5 DEF allVars
<1> QED
  BY <1>4, <1>5

LEMMA ContextInvariant == ContextSpec => [](Shape /\ Owned /\ Tokened)
BY InitShape, StepShape, PTL DEF ContextSpec

-----------------------------------------------------------------------------
(* The kinds of value of every variable, those of config.py included.      *)
THEOREM ContextTypes == ContextSpec => []ContextTypeOK
<1>1. ASSUME Shape, ConfigInv PROVE ContextTypeOK
  <2>1. ASSUME NEW t \in Threads
        PROVE  \/ task[t] = None
               \/ Does(t, "enter") /\ task[t].context \in Contexts
               \/ /\ task[t].stage \in {"current", "register", "append", "lower", "scan"}
                  /\ task[t].method \in Methods \cup {None}
    <3>1. task[t] \in Tasks \cup {None}
      BY <1>1 DEF Shape
    <3> QED
      BY <3>1 DEF Tasks, EnterTasks, RegisterTasks, LowerTasks, ScanTasks, Does
  <2>2. TypeOK /\ _current_context \in [Threads -> Objects \cup {None}]
    BY <1>1 DEF Shape, ConfigInv
  <2>3. \A o \in Objects :
          /\ type_classes[o] \in Seq(Types)
          /\ source_categories[o] \in Seq(Categories \cup {ExtensionCategory})
          /\ ffi_opcode_cache[o] \subseteq Methods
          /\ users[o] \subseteq Threads
    BY <1>1 DEF Shape
  <2> QED
    BY <2>1, <2>2, <2>3 DEF ContextTypeOK
<1> QED
  BY <1>1, ContextInvariant, ContextIsConfig, ConfigInvariant, PTL

(* Leaving a block restores the context that was current before it, for    *)
(* nested, overlapping and concurrent blocks, unless its context object    *)
(* was entered again in between: __enter__ keeps one token in each.        *)
THEOREM BlocksRestore == ContextSpec => LeavingRestores
<1> DEFINE Restores(t) == LET left == Last(blocks[t])
                          IN  (Len(blocks'[t]) < Len(blocks[t]) /\ ~left.again)
                              => _current_context'[t] = left.before
<1>1. ASSUME Shape, Owned, Tokened, ContextNext, NEW t \in Threads
      PROVE  Restores(t)
  <2>1. ASSUME NEW u \in Threads, __exit__(u) PROVE Restores(t)
    <3>1. CASE u = t
      <4> DEFINE left == Last(blocks[t])
                 n == Len(blocks[t])
      <4>1. left = blocks[t][n] /\ left \in Blocks /\ BlockInv(t, n)
        BY <1>1, <2>1, <3>1, ExitFacts
      <4>2. SUFFICES ASSUME ~left.again PROVE _current_context'[t] = left.before
        OBVIOUS
      <4>3. _token[left.context] = [thread |-> t, old |-> left.before, used |-> FALSE]
        BY <4>1, <4>2 DEF BlockInv
      <4>4. Resets(t, left.context)
        BY <4>3 DEF Resets
      <4>5. _current_context' = [_current_context EXCEPT ![t] = _token[left.context].old]
        BY <2>1, <3>1, <4>4 DEF __exit__
      <4> QED
        BY <1>1, <4>3, <4>5 DEF Shape
    <3>2. CASE u # t
      <4>1. blocks'[t] = blocks[t] /\ Len(blocks[t]) \in Nat
        BY <1>1, <2>1, <3>2, ExitFacts DEF Shape
      <4> QED
        BY <4>1
    <3> QED
      BY <3>1, <3>2
  <2>2. ASSUME NEW u \in Threads, __enter__(u) PROVE Restores(t)
    <3> DEFINE c == task[u].context
    <3>1. blocks[t] \in Seq(Blocks) /\ Len(blocks[t]) \in Nat
      BY <1>1 DEF Shape
    <3>2. Marked(blocks[t], c) \in Seq(Blocks) /\ Len(Marked(blocks[t], c)) = Len(blocks[t])
      BY <3>1, Marking
    <3>3. \/ blocks'[t] = Marked(blocks[t], c)
          \/ \E b : blocks'[t] = Append(Marked(blocks[t], c), b)
      BY <2>2 DEF __enter__, Marked
    <3>4. Len(blocks'[t]) >= Len(blocks[t])
      BY <3>1, <3>2, <3>3
    <3> QED
      BY <3>1, <3>4
  <2>3. ASSUME blocks' = blocks PROVE Restores(t)
    BY <1>1, <2>3 DEF Shape
  <2>4. \/ \E u \in Threads : __exit__(u) \/ __enter__(u)
        \/ blocks' = blocks
    BY <1>1 DEF ContextNext, ContextProceed, ConfigStep, BeginEnter, BeginRegister, BeginCompile, Begin,
       current, RegisterType, CheckCategory, AppendCategory, Finish, name_to_opcode, BeginScan,
       EndScan, ScanRaises, contextVars
  <2> QED
    BY <2>1, <2>2, <2>3, <2>4
<1>2. ASSUME Shape, Owned, Tokened, [ContextNext]_allVars
      PROVE  [\A t \in Threads : Restores(t)]_allVars
  BY <1>1, <1>2
<1> QED
  BY <1>2, ContextInvariant, PTL DEF ContextSpec, LeavingRestores

-----------------------------------------------------------------------------
(* Registries: what a thread found in a context that only it uses is still *)
(* so when it acts on it.                                                  *)

Alone(o) == Cardinality(users[o]) <= 1

Remembers(t) ==
  /\ Does(t, "append") /\ Alone(Context(t)) => ~Taken(Context(t), Doing(t).category)
  /\ Does(t, "scan") /\ Alone(Context(t)) => task[t].size = Cardinality(ffi_opcode_cache[Context(t)])

Pending == \A t \in Threads : Remembers(t)

LEMMA OneUser ==
  ASSUME Owned, NEW o \in Objects, Alone(o), NEW t \in users[o], NEW u \in users[o]
  PROVE  t = u
<1> SUFFICES ASSUME t # u PROVE FALSE
  OBVIOUS
<1>1. IsFiniteSet({t, u}) /\ Cardinality({t, u}) = 2
  <2>1. IsFiniteSet({t}) /\ Cardinality({t}) = 1
    BY FS_Singleton
  <2>2. {t, u} = {t} \cup {u} /\ u \notin {t}
    OBVIOUS
  <2>3. IsFiniteSet({t} \cup {u}) /\ Cardinality({t} \cup {u}) = Cardinality({t}) + 1
    BY <2>1, <2>2, FS_AddElement
  <2> QED
    BY <2>1, <2>2, <2>3
<1>2. IsFiniteSet(users[o]) /\ {t, u} \subseteq users[o]
  BY DEF Owned
<1>3. Cardinality({t, u}) <= Cardinality(users[o])
  BY <1>2, FS_Subset
<1> QED
  BY <1>1, <1>2, <1>3, FS_CardinalityType DEF Alone

LEMMA StillAlone ==
  ASSUME Owned, Owned', NEW o \in Objects, users[o] \subseteq users'[o], Alone(o)'
  PROVE  Alone(o)
<1>1. IsFiniteSet(users[o]) /\ IsFiniteSet(users'[o])
  BY DEF Owned
<1>2. Cardinality(users[o]) <= Cardinality(users'[o])
  BY <1>1, FS_Subset
<1>3. Cardinality(users[o]) \in Nat /\ Cardinality(users'[o]) \in Nat
  BY <1>1, FS_CardinalityType
<1> QED
  BY <1>2, <1>3 DEF Alone

LEMMA UsersGrow ==
  ASSUME Shape, Owned, [ContextNext]_allVars, NEW o \in Objects
  PROVE  users[o] \subseteq users'[o]
<1>1. ASSUME NEW t \in Threads, NEW STATE p, p \in Objects, Set(t, p) PROVE users[o] \subseteq users'[o]
  BY <1>1, SetUsers
<1>2. ASSUME NEW t \in Threads, __enter__(t) PROVE users[o] \subseteq users'[o]
  <2>1. task[t].context \in Objects
    BY <1>2, TaskByStage DEF __enter__, Does, EnterTasks, Objects
  <2> QED
    BY <1>1, <1>2, <2>1 DEF __enter__
<1>3. ASSUME NEW t \in Threads, current(t) PROVE users[o] \subseteq users'[o]
  BY <1>1, <1>3 DEF current, Objects
<1>4. \/ \E t \in Threads : current(t) \/ __enter__(t)
      \/ users' = users
  BY DEF ContextNext, ContextProceed, ConfigStep, BeginEnter, BeginRegister, BeginCompile, Begin,
     __exit__, RegisterType, CheckCategory, AppendCategory, Finish, name_to_opcode, BeginScan,
     EndScan, ScanRaises, contextVars, allVars
<1> QED
  BY <1>2, <1>3, <1>4

(* A step of t that adds no category and no opcode, and after which t      *)
(* itself has found nothing.                                               *)
LEMMA ForgetfulStep ==
  ASSUME Shape, Owned, Owned', Pending, CategoriesDistinct, NEW t \in Threads,
         \A o \in Objects : users[o] \subseteq users'[o],
         source_categories' = source_categories, ffi_opcode_cache' = ffi_opcode_cache,
         \A u \in Threads \ {t} : task'[u] = task[u] /\ Context(u)' = Context(u),
         Remembers(t)'
  PROVE  Pending' /\ CategoriesDistinct'
<1>1. ASSUME NEW u \in Threads \ {t} PROVE Remembers(u)'
  <2>1. CASE ~Does(u, "append") /\ ~Does(u, "scan")
    BY <2>1, <1>1 DEF Remembers, Does
  <2>2. CASE Does(u, "append") \/ Does(u, "scan")
    <3>1. Context(u) \in Objects
      BY <2>2 DEF Owned, Inside, Does, Shape, Context
    <3>2. Alone(Context(u))' => Alone(Context(u))
      <4>1. Alone(Context(u))' <=> Cardinality(users'[Context(u)]) <= 1
        BY <1>1 DEF Alone
      <4> QED
        BY <3>1, <4>1, StillAlone DEF Alone
    <3> QED
      BY <1>1, <3>2 DEF Pending, Remembers, Does, Doing, Taken
  <2> QED
    BY <2>1, <2>2
<1>2. CategoriesDistinct'
  BY StillAlone DEF CategoriesDistinct, Alone
<1> QED
  BY <1>1, <1>2 DEF Pending

LEMMA ContinueTask ==
  ASSUME Shape, NEW t \in Threads, NEW STATE x, Continue(t, x)
  PROVE  task'[t] = x /\ \A u \in Threads \ {t} : task'[u] = task[u]
BY DEF Shape, Continue

LEMMA OthersContexts ==
  ASSUME Shape, NEW t \in Threads,
         __enter__(t) \/ __exit__(t) \/ current(t) \/ _current_context' = _current_context
  PROVE  \A u \in Threads \ {t} : Context(u)' = Context(u)
BY DEF Shape, Context, __enter__, __exit__, current, Set

LEMMA ForgetfulSteps ==
  ASSUME Shape, Owned, Owned', Pending, CategoriesDistinct, NEW t \in Threads,
         \A o \in Objects : users[o] \subseteq users'[o],
         \/ \E c \in Contexts : BeginEnter(t, c)
         \/ \E todo \in {RegisterAll, Extend} : BeginRegister(t, todo)
         \/ \E m \in Methods : BeginCompile(t, m)
         \/ __enter__(t) \/ __exit__(t) \/ current(t) \/ RegisterType(t)
         \/ Finish(t) \/ EndScan(t) \/ ScanRaises(t)
  PROVE  Pending' /\ CategoriesDistinct'
<1>1. ASSUME NEW STATE x, Continue(t, x), x = None \/ x.stage \in {"enter", "current", "register"},
             source_categories' = source_categories, ffi_opcode_cache' = ffi_opcode_cache,
             \A u \in Threads \ {t} : Context(u)' = Context(u)
      PROVE  Pending' /\ CategoriesDistinct'
  <2>1. task'[t] = x /\ \A u \in Threads \ {t} : task'[u] = task[u]
    BY <1>1, ContinueTask
  <2>2. Remembers(t)'
    BY <1>1, <2>1 DEF Remembers, Does
  <2> QED
    BY <1>1, <2>1, <2>2, ForgetfulStep
<1>2. ASSUME NEW STATE x, Begin(t, x), x.stage \in {"enter", "current"}
      PROVE  Pending' /\ CategoriesDistinct'
  <2>1. Continue(t, x) /\ UNCHANGED contextVars
    BY <1>2 DEF Begin
  <2> QED
    BY <1>1, <1>2, <2>1, OthersContexts DEF contextVars
<1>3. ASSUME NEW c \in Contexts, BeginEnter(t, c) PROVE Pending' /\ CategoriesDistinct'
  BY <1>2, <1>3 DEF BeginEnter
<1>4. ASSUME NEW todo, BeginRegister(t, todo) PROVE Pending' /\ CategoriesDistinct'
  BY <1>2, <1>4 DEF BeginRegister
<1>5. ASSUME NEW m, BeginCompile(t, m) PROVE Pending' /\ CategoriesDistinct'
  BY <1>2, <1>5 DEF BeginCompile
<1>6. CASE __enter__(t)
  BY <1>1, <1>6, OthersContexts DEF __enter__
<1>7. CASE __exit__(t)
  <2>1. task[t] = None /\ task' = task /\ source_categories' = source_categories
        /\ ffi_opcode_cache' = ffi_opcode_cache
    BY <1>7 DEF __exit__
  <2>2. Remembers(t)'
    BY <2>1 DEF Remembers, Does
  <2> QED
    BY <1>7, <2>1, <2>2, OthersContexts, ForgetfulStep
<1>8. CASE current(t)
  <2>1. task[t] \in RegisterTasks
    BY <1>8, TaskByStage DEF current, Does
  <2>2. RegisterAll \o task[t].todo \in Seq(Items)
    BY <2>1, RegistrationsAreItems DEF RegisterTasks
  <2>3. [task[t] EXCEPT !.stage = "register", !.todo = RegisterAll \o task[t].todo].stage = "register"
    BY <2>1, <2>2, ToRegister
  <2>4. [task[t] EXCEPT !.stage = "register"].stage = "register"
    BY <2>1 DEF RegisterTasks
  <2>5. \/ Continue(t, [task[t] EXCEPT !.stage = "register", !.todo = RegisterAll \o task[t].todo])
        \/ Continue(t, [task[t] EXCEPT !.stage = "register"])
    BY <1>8 DEF current
  <2>6. source_categories' = source_categories /\ ffi_opcode_cache' = ffi_opcode_cache
    BY <1>8 DEF current
  <2> QED
    BY <1>1, <1>8, <2>3, <2>4, <2>5, <2>6, OthersContexts
<1>9. CASE RegisterType(t)
  <2>1. task[t] \in RegisterTasks /\ task[t].stage = "register"
    BY <1>9, TaskByStage DEF RegisterType, Does
  <2>2. [task[t] EXCEPT !.todo = Tail(@)].stage = "register"
    BY <2>1 DEF RegisterTasks
  <2>3. /\ Continue(t, [task[t] EXCEPT !.todo = Tail(@)]) /\ _current_context' = _current_context
        /\ source_categories' = source_categories /\ ffi_opcode_cache' = ffi_opcode_cache
    BY <1>9 DEF RegisterType
  <2> QED
    BY <1>1, <2>2, <2>3, OthersContexts
<1>10. CASE Finish(t) \/ EndScan(t) \/ ScanRaises(t)
  BY <1>1, <1>10, OthersContexts DEF Finish, EndScan, ScanRaises, contextVars
<1> QED
  BY <1>3, <1>4, <1>5, <1>6, <1>7, <1>8, <1>9, <1>10

(* The check of register is the claim; the append may trust it.            *)
LEMMA CheckStep ==
  ASSUME Shape, Owned, Owned', Pending, CategoriesDistinct, NEW t \in Threads, CheckCategory(t)
  PROVE  Pending' /\ CategoriesDistinct'
<1> DEFINE y == [task[t] EXCEPT !.stage = "append"]
           x == IF Taken(Context(t), Doing(t).category) THEN None ELSE y
<1>1. task[t] \in RegisterTasks
  BY TaskByStage DEF CheckCategory, Does
<1>2. y.stage = "append" /\ y.todo = task[t].todo
  BY <1>1 DEF RegisterTasks
<1>3. Continue(t, x) /\ UNCHANGED contextVars
  BY DEF CheckCategory
<1> HIDE DEF y
<1>4. task'[t] = x /\ \A u \in Threads \ {t} : task'[u] = task[u]
  BY <1>3, ContinueTask
<1>5. Context(t)' = Context(t) /\ \A u \in Threads \ {t} : Context(u)' = Context(u)
  BY <1>3 DEF contextVars, Context
<1>6. CASE Taken(Context(t), Doing(t).category)
  <2>1. Remembers(t)'
    BY <1>4, <1>6 DEF Remembers, Does
  <2> QED
    BY <1>3, <1>4, <1>5, <2>1, ForgetfulStep DEF contextVars
<1>7. CASE ~Taken(Context(t), Doing(t).category)
  <2>1. task'[t] = y /\ Doing(t)' = Doing(t)
    BY <1>2, <1>4, <1>7 DEF Doing
  <2>2. ~Taken(Context(t), Doing(t).category)'
    BY <1>3, <1>5, <1>7, <2>1 DEF Taken, contextVars
  <2>3. Remembers(t)'
    BY <1>2, <2>1, <2>2 DEF Remembers, Does
  <2> QED
    BY <1>3, <1>4, <1>5, <2>3, ForgetfulStep DEF contextVars
<1> QED
  BY <1>6, <1>7

LEMMA BeginScanStep ==
  ASSUME Shape, Owned, Owned', Pending, CategoriesDistinct, NEW t \in Threads, BeginScan(t)
  PROVE  Pending' /\ CategoriesDistinct'
<1> DEFINE x == [stage |-> "scan", method |-> task[t].method,
                 size |-> Cardinality(ffi_opcode_cache[Context(t)])]
<1>1. Continue(t, x) /\ UNCHANGED contextVars
  BY DEF BeginScan
<1>2. task'[t] = x /\ \A u \in Threads \ {t} : task'[u] = task[u]
  BY <1>1, ContinueTask
<1>3. Context(t)' = Context(t) /\ \A u \in Threads \ {t} : Context(u)' = Context(u)
  BY <1>1 DEF contextVars, Context
<1>4. task'[t].stage = "scan" /\ task'[t].size = Cardinality(ffi_opcode_cache[Context(t)])
  BY <1>2
<1>5. Remembers(t)'
  BY <1>1, <1>3, <1>4 DEF Remembers, Does, contextVars
<1> QED
  BY <1>1, <1>2, <1>3, <1>5, ForgetfulStep DEF contextVars

(* Another thread that acts on a context is among its users.               *)
LEMMA OthersElsewhere ==
  ASSUME Shape, Owned, NEW t \in Threads, NEW u \in Threads \ {t},
         Inside(t), Inside(u), Context(u) = Context(t)
  PROVE  Context(t) \in Objects /\ ~Alone(Context(t))
<1>1. Context(t) \in Objects /\ t \in users[Context(t)] /\ u \in users[Context(t)]
  BY DEF Owned, Shape, Context
<1> QED
  BY <1>1, OneUser

LEMMA AppendStep ==
  ASSUME Shape, Owned, Owned', Pending, CategoriesDistinct, NEW t \in Threads, AppendCategory(t)
  PROVE  Pending' /\ CategoriesDistinct'
<1> DEFINE o == Context(t)
           cat == Doing(t).category
           s == source_categories[o]
           x == [task[t] EXCEPT !.stage = "register", !.todo = Tail(@)]
<1>1. Inside(t) /\ Does(t, "append") /\ o \in Objects
  BY DEF AppendCategory, Does, Inside, Owned, Shape, Context
<1>2. task[t] \in RegisterTasks /\ task[t].todo # <<>>
  BY <1>1, TaskByStage DEF Does, Owned
<1>3. x.stage = "register"
  <2>1. Tail(task[t].todo) \in Seq(Items)
    BY <1>2 DEF RegisterTasks
  <2> QED
    BY <1>2, <2>1, ToRegister
<1>4. Continue(t, x) /\ UNCHANGED <<_current_context, users, ffi_opcode_cache>>
      /\ source_categories' = [source_categories EXCEPT ![o] = Append(s, cat)]
  BY DEF AppendCategory
<1> HIDE DEF x
<1>5. task'[t] = x /\ \A u \in Threads \ {t} : task'[u] = task[u]
  BY <1>4, ContinueTask
<1>6. /\ source_categories'[o] = Append(s, cat)
      /\ \A p \in Objects \ {o} : source_categories'[p] = source_categories[p]
  BY <1>1, <1>4 DEF Shape
<1>7. \A u \in Threads : Context(u)' = Context(u)
  BY <1>4 DEF Context
<1>8. \A p \in Objects : Alone(p)' <=> Alone(p)
  BY <1>4 DEF Alone
<1>9. ASSUME NEW u \in Threads \ {t} PROVE Remembers(u)'
  <2>1. CASE Does(u, "append")
    <3>1. Inside(u) /\ Context(u) \in Objects
      BY <2>1 DEF Inside, Does, Owned, Shape, Context
    <3>2. CASE Context(u) = o
      <4>1. ~Alone(Context(u))
        BY <1>1, <3>1, <3>2, OthersElsewhere
      <4>2. ~(Alone(Context(u))')
        BY <4>1, <1>4, <1>7 DEF Alone
      <4> QED
        BY <2>1, <4>2, <1>5 DEF Remembers, Does
    <3>3. CASE Context(u) # o
      BY <1>4, <1>5, <1>6, <1>7, <2>1, <3>1, <3>3 DEF Remembers, Pending, Does, Doing, Taken, Alone
    <3> QED
      BY <3>2, <3>3
  <2>2. CASE ~Does(u, "append")
    BY <1>4, <1>5, <1>7, <2>2 DEF Remembers, Pending, Does, Alone
  <2> QED
    BY <2>1, <2>2
<1>10. Remembers(t)'
  BY <1>3, <1>5 DEF Remembers, Does
<1>11. ASSUME NEW p \in Objects, Alone(p), NEW i \in DOMAIN source_categories'[p], NEW j \in DOMAIN source_categories'[p], i # j
       PROVE  /\ source_categories'[p][i].id # source_categories'[p][j].id
              /\ source_categories'[p][i].order # source_categories'[p][j].order
  <2>1. CASE p # o
    BY <1>6, <1>11, <2>1 DEF CategoriesDistinct, Alone
  <2>2. CASE p = o
    <3>1. s \in Seq(Categories \cup {ExtensionCategory}) /\ cat \in Categories \cup {ExtensionCategory}
      BY <1>1 DEF Shape, Owned
    <3>2. /\ DOMAIN Append(s, cat) = 1 .. Len(s) + 1 /\ Len(s) \in Nat /\ DOMAIN s = 1 .. Len(s)
          /\ Append(s, cat)[Len(s) + 1] = cat
          /\ \A k \in 1 .. Len(s) : Append(s, cat)[k] = s[k]
      BY <3>1
    <3>3. \A k \in DOMAIN s : s[k].id # cat.id /\ s[k].order # cat.order
      BY <1>1, <1>11, <2>2 DEF Pending, Remembers, Taken
    <3>4. \A k, l \in DOMAIN s : k # l => s[k].id # s[l].id /\ s[k].order # s[l].order
      BY <1>1, <1>11, <2>2 DEF CategoriesDistinct, Alone
    <3>5. source_categories'[p] = Append(s, cat)
      BY <1>6, <2>2
    <3> HIDE DEF s, cat
    <3> QED
      BY <1>11, <3>2, <3>3, <3>4, <3>5
  <2> QED
    BY <2>1, <2>2
<1>12. CategoriesDistinct'
  BY <1>4, <1>11 DEF CategoriesDistinct, Alone
<1> QED
  BY <1>9, <1>10, <1>12 DEF Pending

LEMMA OpcodeStep ==
  ASSUME Shape, Owned, Owned', Pending, CategoriesDistinct, NEW t \in Threads, name_to_opcode(t)
  PROVE  Pending' /\ CategoriesDistinct'
<1> DEFINE o == Context(t)
           x == [task[t] EXCEPT !.stage = "lower"]
<1>1. Inside(t) /\ o \in Objects /\ task[t] \in RegisterTasks
  BY TaskByStage DEF name_to_opcode, Registered, Does, Inside, Owned, Shape, Context
<1>2. x.stage = "lower"
  BY <1>1 DEF RegisterTasks
<1>3. Continue(t, x) /\ UNCHANGED <<_current_context, users, source_categories>>
      /\ \A p \in Objects \ {o} : ffi_opcode_cache'[p] = ffi_opcode_cache[p]
  BY DEF name_to_opcode, Shape
<1> HIDE DEF x
<1>4. task'[t] = x /\ \A u \in Threads \ {t} : task'[u] = task[u]
  BY <1>3, ContinueTask
<1>5. \A u \in Threads : Context(u)' = Context(u)
  BY <1>3 DEF Context
<1>6. ASSUME NEW u \in Threads \ {t} PROVE Remembers(u)'
  <2>1. CASE Does(u, "scan")
    <3>1. Inside(u) /\ Context(u) \in Objects
      BY <2>1 DEF Inside, Does, Owned, Shape, Context
    <3>2. CASE Context(u) = o
      <4>1. ~Alone(Context(u))
        BY <1>1, <3>1, <3>2, OthersElsewhere
      <4>2. ~(Alone(Context(u))')
        BY <4>1, <1>3, <1>5 DEF Alone
      <4> QED
        BY <2>1, <4>2, <1>4 DEF Remembers, Does
    <3>3. CASE Context(u) # o
      BY <1>3, <1>4, <1>5, <2>1, <3>1, <3>3 DEF Remembers, Pending, Does, Alone
    <3> QED
      BY <3>2, <3>3
  <2>2. CASE ~Does(u, "scan")
    BY <1>3, <1>4, <1>5, <2>2 DEF Remembers, Pending, Does, Doing, Taken, Alone
  <2> QED
    BY <2>1, <2>2
<1>7. Remembers(t)'
  BY <1>2, <1>4 DEF Remembers, Does
<1>8. CategoriesDistinct'
  BY <1>3 DEF CategoriesDistinct
<1> QED
  BY <1>6, <1>7, <1>8 DEF Pending

(* What is found stays so, over every step.                                *)
LEMMA RegistryStep ==
  ASSUME Shape, Owned, Owned', Pending, CategoriesDistinct, [ContextNext]_allVars
  PROVE  Pending' /\ CategoriesDistinct'
<1>1. \A o \in Objects : users[o] \subseteq users'[o]
  BY UsersGrow
<1>2. ASSUME UNCHANGED <<contextVars, task>> PROVE Pending' /\ CategoriesDistinct'
  <2>1. Pending'
    BY <1>2 DEF contextVars, Pending, Remembers, Does, Doing, Taken, Context, Alone
  <2>2. CategoriesDistinct'
    BY <1>2 DEF contextVars, CategoriesDistinct
  <2> QED
    BY <2>1, <2>2
<1>3. ASSUME NEW t \in Threads, ConfigStep(t) PROVE Pending' /\ CategoriesDistinct'
  BY <1>2, <1>3 DEF ConfigStep
<1>4. ASSUME NEW t \in Threads, ContextProceed(t) PROVE Pending' /\ CategoriesDistinct'
  BY <1>1, <1>3, <1>4, ForgetfulSteps, CheckStep, AppendStep, OpcodeStep, BeginScanStep DEF ContextProceed
<1>5. CASE ContextNext
  BY <1>1, <1>3, <1>4, <1>5, ForgetfulSteps DEF ContextNext
<1>6. CASE UNCHANGED allVars
  BY <1>2, <1>6 DEF allVars
<1> QED
  BY <1>5, <1>6

LEMMA RegistryInvariant == ContextSpec => [](Pending /\ CategoriesDistinct)
<1>1. ContextInit => Pending /\ CategoriesDistinct
  BY DEF ContextInit, Pending, Remembers, Does, CategoriesDistinct
<1>2. ASSUME Shape, Owned, Owned', Pending, CategoriesDistinct, [ContextNext]_allVars
      PROVE  Pending' /\ CategoriesDistinct'
  BY <1>2, RegistryStep
<1> QED
  BY <1>1, <1>2, ContextInvariant, PTL DEF ContextSpec

(* In a context one thread registers in, no two categories share an id or  *)
(* a position: what SourceRegistry.register compared still holds when it   *)
(* appends.                                                                *)
THEOREM CategoriesStayDistinct == ContextSpec => []CategoriesDistinct
BY RegistryInvariant, PTL

(* opcode_to_name raises only in a context that another thread uses too.   *)
THEOREM LookupsStaySafe == ContextSpec => LookupsAreSafe
<1> DEFINE Safe == \A t \in Threads : ScanRaises(t) => Cardinality(users[Context(t)]) > 1
<1>1. ASSUME Shape, Owned, Pending PROVE Safe
  <2> SUFFICES ASSUME NEW t \in Threads, ScanRaises(t) PROVE Cardinality(users[Context(t)]) > 1
    OBVIOUS
  <2>1. Does(t, "scan") /\ Cardinality(ffi_opcode_cache[Context(t)]) # task[t].size
    BY DEF ScanRaises
  <2>2. Context(t) \in Objects
    BY <1>1, <2>1 DEF Does, Owned, Inside, Shape, Context
  <2>3. ~Alone(Context(t))
    BY <1>1, <2>1 DEF Pending, Remembers
  <2>4. Cardinality(users[Context(t)]) \in Nat
    BY <1>1, <2>2, FS_CardinalityType DEF Owned
  <2> QED
    BY <2>3, <2>4 DEF Alone
<1> QED
  BY <1>1, ContextInvariant, RegistryInvariant, PTL DEF LookupsAreSafe

-----------------------------------------------------------------------------
(* The context a thread makes lazily: who is in it, and what it holds.     *)

D == Len(DefaultTypes)
C == Len(DefaultCategories)

(* A token by which thread t would again be in no context.                 *)
Back(t, o) ==
  /\ _token[o] # None /\ _token[o].thread = t
  /\ ~_token[o].used /\ _token[o].old = None

(* Nobody else is in the context of t or can come back to it; and t, once  *)
(* it has made its context, is always in some context: it makes only one.  *)
Private(t) ==
  /\ Context(t) \in Threads => Context(t) = t
  /\ \A o \in Objects : _token[o] # None /\ _token[o].thread = t /\ _token[o].old \in Threads
                          => _token[o].old = t
  /\ t \in users[t] => Context(t) # None
  /\ \A o \in Objects : Back(t, o) => Context(t) # None /\ t \notin users[t]
  /\ \A o, p \in Objects : Back(t, o) /\ Back(t, p) => o = p

(* After i registrations of register_all(), and before the others.         *)
FirstTypes(s, i) ==
  /\ Len(s) = IF i <= D THEN i ELSE D
  /\ \A k \in 1 .. Len(s) : s[k] = DefaultTypes[k]

FirstCategories(s, i) ==
  /\ Len(s) = IF i <= D THEN 0 ELSE i - D
  /\ \A k \in 1 .. Len(s) : s[k] = DefaultCategories[k]

Awaits(x, i) ==
  /\ x.stage \in {"register", "append"}
  /\ x.stage = "append" => D <= i
  /\ D + C - i <= Len(x.todo)
  /\ \A k \in 1 .. D + C - i : x.todo[k] = RegisterAll[i + k]

Filled(t, i) ==
  /\ Context(t) = t /\ task[t] # None
  /\ Awaits(task[t], i)
  /\ FirstTypes(type_classes[t], i)
  /\ FirstCategories(source_categories[t], i)

Complete(t) ==
  HasDefaultTypes(type_classes[t]) /\ Categories \subseteq ToSet(source_categories[t])

Untouched(t) == type_classes[t] = <<>> /\ source_categories[t] = <<>>

Contents(t) ==
  /\ t \notin users[t] => Untouched(t)
  /\ t \in users[t] => Complete(t) \/ \E i \in 0 .. D + C - 1 : Filled(t, i)

LazyInv == \A t \in Threads : Private(t) /\ Contents(t)

LEMMA Defaults ==
  /\ D \in Nat /\ DOMAIN DefaultTypes = 1 .. D
  /\ C \in Nat /\ DOMAIN DefaultCategories = 1 .. C
  /\ Len(RegisterAll) = D + C
  /\ \A k \in 1 .. D : RegisterAll[k] = [type |-> DefaultTypes[k], priority |-> None]
  /\ \A k \in 1 .. C : RegisterAll[D + k] = [category |-> DefaultCategories[k]]
<1>1. /\ DefaultTypes \in Seq(ToSet(DefaultTypes))
      /\ DefaultCategories \in Seq(ToSet(DefaultCategories))
  BY ContextAssumption
<1>2. /\ D \in Nat /\ DOMAIN DefaultTypes = 1 .. D
      /\ C \in Nat /\ DOMAIN DefaultCategories = 1 .. C
  BY <1>1 DEF D, C
<1> DEFINE A == [i \in DOMAIN DefaultTypes |-> [type |-> DefaultTypes[i], priority |-> None]]
           B == [i \in DOMAIN DefaultCategories |-> [category |-> DefaultCategories[i]]]
           T == {A[i] : i \in 1 .. D} \cup {B[i] : i \in 1 .. C}
<1>3. A \in Seq(T) /\ Len(A) = D
  <2>1. A \in [1 .. D -> T]
    BY <1>2
  <2> HIDE DEF A, B
  <2> QED
    BY <1>2, <2>1, SeqDef
<1>4. B \in Seq(T) /\ Len(B) = C
  <2>1. B \in [1 .. C -> T]
    BY <1>2
  <2> HIDE DEF A, B
  <2> QED
    BY <1>2, <2>1, SeqDef
<1>5. /\ \A k \in 1 .. D : A[k] = [type |-> DefaultTypes[k], priority |-> None]
      /\ \A k \in 1 .. C : B[k] = [category |-> DefaultCategories[k]]
  BY <1>2
<1>6. RegisterAll = A \o B
  BY DEF RegisterAll
<1> HIDE DEF A, B, T
<1>7. /\ Len(A \o B) = D + C
      /\ \A k \in 1 .. D : (A \o B)[k] = A[k]
      /\ \A k \in 1 .. C : (A \o B)[D + k] = B[k]
  BY <1>2, <1>3, <1>4
<1> QED
  BY <1>2, <1>5, <1>6, <1>7

LEMMA FilledIsComplete ==
  ASSUME NEW s \in Seq(Types), NEW c \in Seq(Categories \cup {ExtensionCategory}),
         FirstTypes(s, D + C), FirstCategories(c, D + C)
  PROVE  HasDefaultTypes(s) /\ Categories \subseteq ToSet(c)
<1>1. D \in Nat /\ C \in Nat
  BY Defaults
<1>2. Len(s) = D /\ \A k \in 1 .. D : s[k] = DefaultTypes[k]
  BY <1>1 DEF FirstTypes
<1>3. Len(c) = C /\ \A k \in 1 .. C : c[k] = DefaultCategories[k]
  BY <1>1 DEF FirstCategories
<1>4. HasDefaultTypes(s)
  <2>1. 0 \in 0 .. Len(s) - Len(DefaultTypes)
    BY <1>1, <1>2 DEF D
  <2>2. \A k \in 1 .. 0 : s[k] = ExtensionType
    OBVIOUS
  <2>3. \A k \in DOMAIN DefaultTypes : s[0 + k] = DefaultTypes[k]
    BY <1>2, Defaults
  <2> QED
    BY <2>1, <2>2, <2>3 DEF HasDefaultTypes
<1>5. Categories \subseteq ToSet(c)
  BY <1>1, <1>3, Defaults DEF Categories, ToSet
<1> QED
  BY <1>4, <1>5

(* What is complete stays so when something is appended or a client's type *)
(* is put in front.                                                        *)
LEMMA TypesAdded ==
  ASSUME NEW s \in Seq(Types), HasDefaultTypes(s), NEW x \in Types
  PROVE  HasDefaultTypes(Append(s, x)) /\ HasDefaultTypes(InsertAt(s, 1, ExtensionType))
<1>1. D \in Nat /\ DOMAIN DefaultTypes = 1 .. D /\ D = Len(DefaultTypes)
  BY Defaults DEF D
<1>2. PICK n \in 0 .. Len(s) - D :
        /\ \A k \in 1 .. n : s[k] = ExtensionType
        /\ \A k \in 1 .. D : s[n + k] = DefaultTypes[k]
  BY <1>1 DEF HasDefaultTypes
<1>3. Len(s) \in Nat /\ n \in Nat /\ n + D <= Len(s)
  BY <1>1, <1>2
<1>4. HasDefaultTypes(Append(s, x))
  <2>1. Len(Append(s, x)) = Len(s) + 1 /\ \A k \in 1 .. Len(s) : Append(s, x)[k] = s[k]
    OBVIOUS
  <2>2. n \in 0 .. Len(Append(s, x)) - D
    BY <1>1, <1>3, <2>1
  <2>3. \A k \in 1 .. n : Append(s, x)[k] = ExtensionType
    BY <1>1, <1>2, <1>3, <2>1
  <2>4. \A k \in 1 .. D : Append(s, x)[n + k] = DefaultTypes[k]
    BY <1>1, <1>2, <1>3, <2>1
  <2> QED
    BY <1>1, <2>2, <2>3, <2>4 DEF HasDefaultTypes
<1>5. HasDefaultTypes(InsertAt(s, 1, ExtensionType))
  <2> DEFINE r == InsertAt(s, 1, ExtensionType)
  <2>1. r = SubSeq(s, 1, 0) \o <<ExtensionType>> \o SubSeq(s, 1, Len(s))
    BY DEF InsertAt
  <2>2. SubSeq(s, 1, 0) = <<>> /\ SubSeq(s, 1, Len(s)) = s
    OBVIOUS
  <2>3. r = <<ExtensionType>> \o s
    BY <2>1, <2>2
  <2>4. Len(r) = Len(s) + 1 /\ r[1] = ExtensionType /\ \A k \in 1 .. Len(s) : r[k + 1] = s[k]
    <3>1. <<ExtensionType>> \in Seq(Types) /\ Len(<<ExtensionType>>) = 1
      BY DEF Types
    <3> QED
      BY <2>3, <3>1
  <2> HIDE DEF r
  <2>5. n + 1 \in 0 .. Len(r) - D
    BY <1>1, <1>3, <2>4
  <2>6. \A k \in 1 .. n + 1 : r[k] = ExtensionType
    <3> TAKE k \in 1 .. n + 1
    <3>1. CASE k = 1
      BY <3>1, <2>4
    <3>2. CASE k # 1
      <4>1. k - 1 \in 1 .. n /\ k - 1 \in 1 .. Len(s) /\ (k - 1) + 1 = k
        BY <3>2, <1>1, <1>3
      <4> QED
        BY <4>1, <1>2, <2>4
    <3> QED
      BY <3>1, <3>2
  <2>7. \A k \in 1 .. D : r[n + 1 + k] = DefaultTypes[k]
    <3> TAKE k \in 1 .. D
    <3>1. n + k \in 1 .. Len(s) /\ (n + k) + 1 = n + 1 + k
      BY <1>1, <1>3
    <3> QED
      BY <3>1, <1>2, <2>4
  <2> QED
    BY <1>1, <2>5, <2>6, <2>7 DEF HasDefaultTypes, r
<1> QED
  BY <1>4, <1>5

LEMMA NoneFacts ==
  /\ None \notin Tokens
  /\ \A x \in RegisterTasks : x.stage \in {"register", "append"} => x # None
  /\ Contexts \cap Threads = {} /\ None \notin Threads
<1> DEFINE category == [category : ToSet(DefaultCategories) \cup {ExtensionCategory}]
           type == [type : ToSet(DefaultTypes) \cup {ExtensionType}, priority : {0, None}]
<1>1. /\ None \notin [thread : Threads, old : Contexts \cup Threads \cup {None}, used : BOOLEAN]
      /\ None \notin [stage : {"register", "append"}, todo : Seq(type \cup category),
                      method : Methods \cup {None}]
  BY NoneAssumption
<1>2. Items \subseteq type \cup category
  <2>1. Types = ToSet(DefaultTypes) \cup {ExtensionType} /\ Categories = ToSet(DefaultCategories)
    BY DEF Types, Categories, ToSet
  <2> QED
    BY <2>1 DEF Items
<1> HIDE DEF type, category
<1>3. \A x \in RegisterTasks : x.stage \in {"register", "append"} => x # None
  <2> SUFFICES ASSUME NEW x \in RegisterTasks, x.stage \in {"register", "append"} PROVE x # None
    OBVIOUS
  <2>1. x.todo \in Seq(Items)
    BY DEF RegisterTasks
  <2>2. x.todo \in Seq(type \cup category)
    BY <2>1, <1>2
  <2>3. x \in [stage : {"register", "append"}, todo : Seq(type \cup category),
               method : Methods \cup {None}]
    BY <2>2 DEF RegisterTasks
  <2> QED
    BY <2>3, <1>1
<1> QED
  BY <1>1, <1>3, ConfigAssumption, ContextAssumption DEF Tokens, Objects

-----------------------------------------------------------------------------
(* A thread keeps its lazy context to itself.                              *)

LEMMA PrivateKept ==
  ASSUME \A u \in Threads : Private(u), UNCHANGED <<_current_context, _token, users>>
  PROVE  \A u \in Threads : Private(u)'
BY DEF Private, Back, Context

LEMMA PrivateEnter ==
  ASSUME Shape, Owned, \A u \in Threads : Private(u), NEW t \in Threads, __enter__(t)
  PROVE  \A u \in Threads : Private(u)'
<1> DEFINE c == task[t].context
           token == [thread |-> t, old |-> Context(t), used |-> FALSE]
<1>1. c \in Contexts /\ c \in Objects /\ c # None /\ c \notin Threads
  BY TaskByStage, ContextAssumption DEF __enter__, Does, EnterTasks, Objects
<1>2. _token' = [_token EXCEPT ![c] = token] /\ Set(t, c)
  BY DEF __enter__, Context
<1>3. token.thread = t /\ token.old = Context(t) /\ ~token.used
  OBVIOUS
<1> HIDE DEF c, token
<1>4. _token'[c] = token /\ \A o \in Objects \ {c} : _token'[o] = _token[o]
  BY <1>1, <1>2 DEF Shape
<1>5. \A u \in Threads : users'[u] = users[u]
  BY <1>1, <1>2 DEF Set, Shape, Objects
<1>6. Context(t)' = c /\ \A u \in Threads \ {t} : Context(u)' = Context(u)
  BY <1>1, <1>2, SetUsers
<1>7. ASSUME NEW u \in Threads, u # t PROVE Private(u)'
  <2>1. \A o \in Objects : Back(u, o)' => Back(u, o)
    BY <1>3, <1>4, <1>7 DEF Back
  <2>2. \A o \in Objects : (_token[o] # None /\ _token[o].thread = u /\ _token[o].old \in Threads)'
                             => _token[o]' = _token[o]
    BY <1>3, <1>4, <1>7
  <2> QED
    BY <2>1, <2>2, <1>5, <1>6, <1>7 DEF Private
<1>8. Private(t)'
  <2>1. \A o \in Objects : Back(t, o)' => o = c \/ Back(t, o)
    BY <1>4 DEF Back
  <2>2. \A o \in Objects : o = c /\ Back(t, o)' => Context(t) = None
    BY <1>3, <1>4 DEF Back
  <2>3. \A o \in Objects : Back(t, o) => Context(t) # None /\ t \notin users[t]
    BY DEF Private
  <2>4. t \in users[t] => Context(t) # None
    BY DEF Private
  <2>5. \A o \in Objects : Back(t, o)' => Context(t)' # None /\ (t \notin users[t])'
    BY <2>1, <2>2, <2>3, <2>4, <1>1, <1>5, <1>6
  <2>6. \A o, p \in Objects : Back(t, o)' /\ Back(t, p)' => o = p
    <3>1. \A o, p \in Objects : Back(t, o) /\ Back(t, p) => o = p
      BY DEF Private
    <3> QED
      BY <2>1, <2>2, <2>3, <3>1
  <2>7. \A o \in Objects : (_token[o] # None /\ _token[o].thread = t /\ _token[o].old \in Threads
                             => _token[o].old = t)'
    BY <1>3, <1>4 DEF Private
  <2> QED
    BY <2>5, <2>6, <2>7, <1>1, <1>6 DEF Private
<1> QED
  BY <1>7, <1>8

LEMMA PrivateExit ==
  ASSUME Shape, Owned, Tokened, \A u \in Threads : Private(u), NEW t \in Threads, __exit__(t)
  PROVE  \A u \in Threads : Private(u)'
<1> DEFINE c == Last(blocks[t]).context
<1>1. c \in Contexts /\ c \in Objects /\ _token[c] \in Tokens /\ _token[c] # None
  <2>1. /\ Last(blocks[t]) \in Blocks /\ BlockInv(t, Len(blocks[t]))
        /\ Last(blocks[t]) = blocks[t][Len(blocks[t])]
    BY ExitFacts
  <2>2. c \in Contexts
    BY <2>1 DEF Blocks
  <2>3. _token[c] \in Tokens
    BY <2>1 DEF BlockInv
  <2> QED
    BY <2>2, <2>3, NoneFacts DEF Objects
<1>2. users' = users
  BY DEF __exit__
<1>3. CASE Resets(t, c)
  <2>1. /\ _current_context' = [_current_context EXCEPT ![t] = _token[c].old]
        /\ _token' = [_token EXCEPT ![c].used = TRUE]
    BY <1>3 DEF __exit__
  <2> HIDE DEF c
  <2>2. Context(t)' = _token[c].old /\ \A u \in Threads \ {t} : Context(u)' = Context(u)
    BY <2>1 DEF Context, Shape
  <2>3. /\ _token'[c] = [_token[c] EXCEPT !.used = TRUE]
        /\ \A o \in Objects \ {c} : _token'[o] = _token[o]
    BY <1>1, <2>1 DEF Shape
  <2>4. _token'[c].thread = t /\ _token[c].thread = t /\ _token'[c].old = _token[c].old
        /\ _token'[c].used /\ ~_token[c].used
    BY <1>1, <1>3, <2>3 DEF Tokens, Resets
  <2>5. \A u \in Threads, o \in Objects : Back(u, o)' => o # c /\ Back(u, o)
    BY <2>3, <2>4 DEF Back
  <2>6. _token[c].old = None => Back(t, c)
    BY <1>1, <2>4 DEF Back
  <2>7. \A u \in Threads : \A o \in Objects :
          (_token[o] # None /\ _token[o].thread = u /\ _token[o].old \in Threads => _token[o].old = u)'
    <3> TAKE u \in Threads
    <3>1. \A o \in Objects : _token[o] # None /\ _token[o].thread = u /\ _token[o].old \in Threads
                               => _token[o].old = u
      BY DEF Private
    <3> QED
      BY <3>1, <1>1, <2>3, <2>4
  <2>8. ASSUME NEW u \in Threads, u # t PROVE Private(u)'
    BY <2>2, <2>5, <2>7, <2>8, <1>2 DEF Private
  <2>9. Private(t)'
    <3>1. Context(t)' \in Threads => Context(t)' = t
      BY <1>1, <2>2, <2>4 DEF Private
    <3>2. t \in users[t] => Context(t)' # None
      BY <1>1, <2>2, <2>6 DEF Private
    <3>3. \A o \in Objects : Back(t, o)' => Context(t)' # None /\ t \notin users[t]
      BY <1>1, <2>2, <2>5, <2>6 DEF Private
    <3>4. \A o, p \in Objects : Back(t, o)' /\ Back(t, p)' => o = p
      BY <2>5 DEF Private
    <3> QED
      BY <3>1, <3>2, <3>3, <3>4, <2>7, <1>2 DEF Private
  <2> QED
    BY <2>8, <2>9
<1>4. CASE ~Resets(t, c)
  BY <1>2, <1>4, PrivateKept DEF __exit__
<1> QED
  BY <1>3, <1>4

LEMMA PrivateCurrent ==
  ASSUME Shape, Owned, \A u \in Threads : Private(u), NEW t \in Threads, current(t)
  PROVE  \A u \in Threads : Private(u)'
<1>1. CASE Context(t) = None
  <2>1. Set(t, t) /\ _token' = _token
    BY <1>1 DEF current, Context
  <2>2. t \in Objects /\ t # None
    BY ConfigAssumption DEF Objects
  <2>3. Context(t)' = t /\ \A u \in Threads \ {t} : Context(u)' = Context(u)
    BY <2>1, <2>2, SetUsers
  <2>4. \A u \in Threads \ {t} : users'[u] = users[u]
    BY <2>1, <2>2 DEF Set, Shape, Objects
  <2>5. ASSUME NEW u \in Threads, u # t PROVE Private(u)'
    BY <2>1, <2>3, <2>4, <2>5 DEF Private, Back
  <2>6. Private(t)'
    <3>1. \A o \in Objects : ~Back(t, o)
      BY <1>1 DEF Private
    <3>2. \A o \in Objects : ~Back(t, o)'
      BY <3>1, <2>1 DEF Back
    <3> QED
      BY <3>2, <2>1, <2>2, <2>3 DEF Private
  <2> QED
    BY <2>5, <2>6
<1>2. CASE Context(t) # None
  BY <1>2, PrivateKept DEF current, Context
<1> QED
  BY <1>1, <1>2

LEMMA PrivateStep ==
  ASSUME Shape, Owned, Tokened, \A u \in Threads : Private(u), [ContextNext]_allVars
  PROVE  \A u \in Threads : Private(u)'
<1>1. \/ \E t \in Threads : __enter__(t) \/ __exit__(t) \/ current(t)
      \/ UNCHANGED <<_current_context, _token, users>>
  BY DEF ContextNext, ContextProceed, ConfigStep, BeginEnter, BeginRegister, BeginCompile, Begin,
     RegisterType, CheckCategory, AppendCategory, Finish, name_to_opcode, BeginScan,
     EndScan, ScanRaises, contextVars, allVars
<1> QED
  BY <1>1, PrivateEnter, PrivateExit, PrivateCurrent, PrivateKept

-----------------------------------------------------------------------------
(* What a lazy context holds.                                              *)

LEMMA OthersContentsKept ==
  ASSUME NEW u \in Threads, Contents(u), u \in users'[u] <=> u \in users[u],
         type_classes'[u] = type_classes[u], source_categories'[u] = source_categories[u],
         task'[u] = task[u], Context(u)' = Context(u)
  PROVE  Contents(u)'
<1>1. Complete(u)' <=> Complete(u)
  BY DEF Complete
<1>2. Untouched(u)' <=> Untouched(u)
  BY DEF Untouched
<1>3. ASSUME NEW i \in 0 .. D + C - 1 PROVE Filled(u, i)' <=> Filled(u, i)
  BY DEF Filled
<1> QED
  BY <1>1, <1>2, <1>3 DEF Contents

LEMMA ContentsKept ==
  ASSUME NEW t \in Threads, Contents(t), \A i \in 0 .. D + C - 1 : ~Filled(t, i),
         t \in users'[t] <=> t \in users[t],
         type_classes'[t] = type_classes[t], source_categories'[t] = source_categories[t]
  PROVE  Contents(t)'
<1>1. Complete(t)' <=> Complete(t)
  BY DEF Complete
<1>2. Untouched(t)' <=> Untouched(t)
  BY DEF Untouched
<1> QED
  BY <1>1, <1>2 DEF Contents

(* A thread that is not between two registrations.                         *)
LEMMA NotRegistering ==
  ASSUME NEW t \in Threads,
         \/ task[t] = None \/ Context(t) # t
         \/ task[t].stage \notin {"register", "append"} \/ task[t].todo = <<>>
  PROVE  \A i \in 0 .. D + C - 1 : ~Filled(t, i)
<1> SUFFICES ASSUME NEW i \in 0 .. D + C - 1, Filled(t, i) PROVE FALSE
  OBVIOUS
<1>1. Context(t) = t /\ task[t] # None /\ task[t].stage \in {"register", "append"}
      /\ D + C - i <= Len(task[t].todo)
  BY DEF Filled, Awaits
<1>2. task[t].todo = <<>>
  BY <1>1
<1>3. Len(task[t].todo) = 0
  BY <1>2
<1> QED
  BY <1>1, <1>3, Defaults

LEMMA ContentsStart ==
  ASSUME Shape, Owned, NEW t \in Threads, Private(t), Contents(t), current(t), Context(t) = None
  PROVE  Contents(t)'
<1> DEFINE e == RegisterAll \o task[t].todo
           x == [task[t] EXCEPT !.stage = "register", !.todo = e]
<1>1. task[t] \in RegisterTasks
  BY TaskByStage DEF current, Does
<1>2. Untouched(t)
  BY DEF Private, Contents
<1>3. task[t].todo \in Seq(Items) /\ RegisterAll \in Seq(Items) /\ e \in Seq(Items)
  BY <1>1, RegistrationsAreItems DEF RegisterTasks
<1>4. x \in RegisterTasks /\ x.stage = "register" /\ x.todo = e
  BY <1>1, <1>3 DEF RegisterTasks
<1>5. x # None
  BY <1>4, NoneFacts
<1>6. Len(e) >= D + C /\ \A k \in 1 .. D + C : e[k] = RegisterAll[k]
  <2>1. Len(e) = Len(RegisterAll) + Len(task[t].todo) /\ \A k \in 1 .. Len(RegisterAll) : e[k] = RegisterAll[k]
    BY <1>3
  <2>2. Len(task[t].todo) \in Nat
    BY <1>3
  <2> QED
    BY <2>1, <2>2, Defaults
<1>7. Set(t, t) /\ Continue(t, x)
  BY DEF current, Context
<1> HIDE DEF x, e
<1>8. task'[t] = x
  BY <1>7, ContinueTask
<1>9. Context(t)' = t /\ t \in users'[t]
  BY <1>7, SetUsers DEF Objects
<1>10. type_classes'[t] = <<>> /\ source_categories'[t] = <<>>
  BY <1>2 DEF current, Untouched
<1>11. Awaits(x, 0)
  BY <1>4, <1>6, Defaults DEF Awaits
<1>12. FirstTypes(<<>>, 0) /\ FirstCategories(<<>>, 0)
  BY Defaults DEF FirstTypes, FirstCategories
<1>13. CASE D + C > 0
  <2>1. Filled(t, 0)'
    BY <1>5, <1>8, <1>9, <1>10, <1>11, <1>12 DEF Filled
  <2>2. 0 \in 0 .. D + C - 1
    BY <1>13, Defaults
  <2> QED
    BY <1>9, <2>1, <2>2 DEF Contents
<1>14. CASE D + C = 0
  <2>1. HasDefaultTypes(<<>>) /\ Categories \subseteq ToSet(<<>>)
    <3>1. FirstTypes(<<>>, D + C) /\ FirstCategories(<<>>, D + C)
      BY <1>12, <1>14
    <3>2. <<>> \in Seq(Types) /\ <<>> \in Seq(Categories \cup {ExtensionCategory})
      OBVIOUS
    <3> QED
      BY <3>1, <3>2, FilledIsComplete
  <2>2. Complete(t)'
    BY <1>10, <2>1 DEF Complete
  <2> QED
    BY <1>9, <2>2 DEF Contents
<1> QED
  BY <1>13, <1>14, Defaults

(* One more registration of register_all().                                *)
LEMMA OneMoreFilled ==
  ASSUME Shape', NEW t \in Threads, NEW i \in 0 .. D + C - 1,
         Context(t)' = t, (task[t] # None)', t \in users'[t],
         Awaits(task[t], i + 1)', FirstTypes(type_classes[t], i + 1)',
         FirstCategories(source_categories[t], i + 1)'
  PROVE  Contents(t)'
<1>1. D \in Nat /\ C \in Nat /\ i \in Nat
  BY Defaults
<1>2. CASE i + 1 = D + C
  <2>1. type_classes'[t] \in Seq(Types) /\ source_categories'[t] \in Seq(Categories \cup {ExtensionCategory})
    BY DEF Shape, Objects
  <2>2. Complete(t)'
    BY <1>2, <2>1, FilledIsComplete DEF Complete
  <2> QED
    BY <2>2 DEF Contents
<1>3. CASE i + 1 # D + C
  <2>1. i + 1 \in 0 .. D + C - 1
    BY <1>1, <1>3
  <2>2. Filled(t, i + 1)'
    BY DEF Filled
  <2> QED
    BY <2>1, <2>2 DEF Contents
<1> QED
  BY <1>2, <1>3

LEMMA AwaitsTail ==
  ASSUME NEW STATE x, x \in RegisterTasks, NEW i \in 0 .. D + C - 1, Awaits(x, i),
         NEW STATE y, y.stage = "register", y.todo = Tail(x.todo)
  PROVE  Awaits(y, i + 1) /\ Head(x.todo) = RegisterAll[i + 1]
<1>1. D \in Nat /\ C \in Nat /\ i \in Nat /\ x.todo \in Seq(Items)
  BY Defaults DEF RegisterTasks
<1>2. D + C - i <= Len(x.todo) /\ D + C - i >= 1
      /\ \A k \in 1 .. D + C - i : x.todo[k] = RegisterAll[i + k]
  BY <1>1 DEF Awaits
<1> DEFINE s == x.todo
<1>3. s \in Seq(Items) /\ Len(s) \in Nat /\ Len(s) >= 1
  BY <1>1, <1>2
<1> HIDE DEF s
<1>4. Len(Tail(s)) = Len(s) - 1 /\ \A k \in 1 .. Len(s) - 1 : Tail(s)[k] = s[k + 1]
  BY <1>3
<1>5. Head(s) = s[1]
  BY <1>3
<1>6. D + C - (i + 1) <= Len(y.todo)
  BY <1>1, <1>2, <1>3, <1>4 DEF s
<1>7. \A k \in 1 .. D + C - (i + 1) : y.todo[k] = RegisterAll[i + 1 + k]
  <2> TAKE k \in 1 .. D + C - (i + 1)
  <2>1. k + 1 \in 1 .. D + C - i /\ k \in 1 .. Len(s) - 1 /\ i + (k + 1) = i + 1 + k
    BY <1>1, <1>2, <1>3 DEF s
  <2>2. y.todo[k] = s[k + 1]
    BY <2>1, <1>4 DEF s
  <2>3. s[k + 1] = RegisterAll[i + (k + 1)]
    BY <2>1, <1>2 DEF s
  <2> QED
    BY <2>1, <2>2, <2>3
<1>8. Head(s) = RegisterAll[i + 1]
  BY <1>1, <1>2, <1>5 DEF s
<1> QED
  BY <1>6, <1>7, <1>8 DEF Awaits, s

LEMMA ContentsRegisterType ==
  ASSUME Shape, Owned, NEW t \in Threads, Contents(t), Context(t) = t, RegisterType(t), Shape'
  PROVE  Contents(t)'
<1> DEFINE x == [task[t] EXCEPT !.todo = Tail(@)]
           s == type_classes[t]
<1>1. task[t] \in RegisterTasks /\ task[t].stage = "register" /\ task[t].todo # <<>>
  BY TaskByStage DEF RegisterType, Does
<1>2. x \in RegisterTasks /\ x.stage = "register" /\ x.todo = Tail(task[t].todo)
  BY <1>1 DEF RegisterTasks
<1>3. Continue(t, x)
  BY DEF RegisterType
<1> HIDE DEF x
<1>4. task'[t] = x /\ x # None
  BY <1>2, <1>3, ContinueTask, NoneFacts
<1>5. /\ users' = users /\ source_categories' = source_categories /\ _current_context' = _current_context
      /\ type_classes' = [type_classes EXCEPT ![t] =
           IF Doing(t).priority = None THEN Append(@, Doing(t).type)
                                       ELSE InsertAt(@, Doing(t).priority + 1, Doing(t).type)]
  BY DEF RegisterType
<1>6. t \in Objects /\ t \in users[t] /\ t # None
  BY ConfigAssumption DEF Owned, Objects
<1>7. s \in Seq(Types)
  BY <1>6 DEF Shape
<1>8. type_classes'[t] = IF Doing(t).priority = None THEN Append(s, Doing(t).type)
                                                     ELSE InsertAt(s, Doing(t).priority + 1, Doing(t).type)
  BY <1>5, <1>6 DEF Shape
<1>9. Context(t)' = t /\ (t \in users[t])'
  BY <1>5, <1>6 DEF Context
<1> HIDE DEF s
<1>10. CASE Complete(t)
  <2>1. \/ Doing(t).type \in Types /\ Doing(t).priority = None
        \/ Doing(t).type = ExtensionType /\ Doing(t).priority = 0
    <3>1. Doing(t) \in Items /\ "type" \in DOMAIN Doing(t)
      BY <1>1 DEF Doing, RegisterTasks, RegisterType
    <3>2. Doing(t) \notin [category : Categories \cup {ExtensionCategory}]
      BY <3>1
    <3>3. CASE Doing(t) \in [type : Types, priority : {None}]
      BY <3>3
    <3>4. CASE Doing(t) \in [type : {ExtensionType}, priority : {0}]
      BY <3>4
    <3> QED
      BY <3>1, <3>2, <3>3, <3>4 DEF Items
  <2>2. HasDefaultTypes(s)
    BY <1>10 DEF Complete, s
  <2>3. HasDefaultTypes(type_classes'[t])
    <3>1. CASE Doing(t).priority = None
      <4>1. Doing(t).type \in Types
        BY <2>1 DEF Types
      <4>2. HasDefaultTypes(Append(s, Doing(t).type))
        BY <4>1, <2>2, <1>7, TypesAdded
      <4> QED
        BY <4>2, <3>1, <1>8
    <3>2. CASE Doing(t).priority # None
      <4>1. Doing(t).type = ExtensionType /\ Doing(t).priority + 1 = 1
        BY <3>2, <2>1
      <4>2. ExtensionType \in Types
        BY DEF Types
      <4>3. HasDefaultTypes(InsertAt(s, 1, ExtensionType))
        BY <4>2, <2>2, <1>7, TypesAdded
      <4> QED
        BY <4>1, <4>3, <3>2, <1>8
    <3> QED
      BY <3>1, <3>2
  <2>4. Complete(t)'
    BY <2>3, <1>5, <1>10 DEF Complete
  <2> QED
    BY <2>4, <1>9 DEF Contents
<1>11. ASSUME NEW i \in 0 .. D + C - 1, Filled(t, i) PROVE Contents(t)'
  <2>1. D \in Nat /\ C \in Nat /\ i \in Nat /\ i < D + C
    BY Defaults
  <2>2. Awaits(task[t], i) /\ FirstTypes(s, i) /\ FirstCategories(source_categories[t], i)
    BY <1>11 DEF Filled, s
  <2>3. Awaits(x, i + 1) /\ Doing(t) = RegisterAll[i + 1]
    BY <1>1, <1>2, <2>2, AwaitsTail DEF Doing
  <2>4. i < D
    <3> SUFFICES ASSUME i >= D PROVE FALSE
      BY <2>1
    <3>1. i + 1 - D \in 1 .. C /\ D + (i + 1 - D) = i + 1
      BY <2>1
    <3>2. Doing(t) = [category |-> DefaultCategories[i + 1 - D]]
      BY <3>1, <2>3, Defaults
    <3>3. "type" \in DOMAIN Doing(t)
      BY DEF RegisterType
    <3> QED
      BY <3>2, <3>3
  <2>5. Doing(t) = [type |-> DefaultTypes[i + 1], priority |-> None]
    BY <2>1, <2>3, <2>4, Defaults
  <2>6. type_classes'[t] = Append(s, DefaultTypes[i + 1])
    BY <2>5, <1>8
  <2>7. FirstTypes(Append(s, DefaultTypes[i + 1]), i + 1)
    <3>1. Len(s) = i /\ \A k \in 1 .. i : s[k] = DefaultTypes[k]
      BY <2>1, <2>2, <2>4 DEF FirstTypes
    <3>2. /\ Len(Append(s, DefaultTypes[i + 1])) = i + 1
          /\ Append(s, DefaultTypes[i + 1])[i + 1] = DefaultTypes[i + 1]
          /\ \A k \in 1 .. i : Append(s, DefaultTypes[i + 1])[k] = s[k]
      BY <1>7, <3>1
    <3> QED
      BY <2>1, <2>4, <3>1, <3>2 DEF FirstTypes
  <2>8. FirstCategories(source_categories[t], i + 1)
    BY <2>1, <2>2, <2>4 DEF FirstCategories
  <2>9. Awaits(task[t], i + 1)' /\ (task[t] # None)'
    BY <2>3, <1>4
  <2>10. FirstTypes(type_classes[t], i + 1)' /\ FirstCategories(source_categories[t], i + 1)'
    BY <2>6, <2>7, <2>8, <1>5
  <2> QED
    BY <2>9, <2>10, <1>9, OneMoreFilled
<1> QED
  BY <1>6, <1>10, <1>11 DEF Contents

LEMMA ContentsCheck ==
  ASSUME Shape, Owned, NEW t \in Threads, Contents(t), Context(t) = t, CheckCategory(t)
  PROVE  Contents(t)'
<1> DEFINE y == [task[t] EXCEPT !.stage = "append"]
           cats == source_categories[t]
<1>1. task[t] \in RegisterTasks /\ task[t].stage = "register" /\ task[t].todo # <<>>
  BY TaskByStage DEF CheckCategory, Does
<1>2. y \in RegisterTasks /\ y.stage = "append" /\ y.todo = task[t].todo
  BY <1>1 DEF RegisterTasks
<1>3. y # None
  BY <1>2, NoneFacts
<1>4. /\ UNCHANGED contextVars /\ "category" \in DOMAIN Doing(t)
      /\ Continue(t, IF Taken(t, Doing(t).category) THEN None ELSE y)
  BY DEF CheckCategory
<1> HIDE DEF y
<1>5. task'[t] = IF Taken(t, Doing(t).category) THEN None ELSE y
  BY <1>4, ContinueTask
<1>6. /\ type_classes' = type_classes /\ source_categories' = source_categories
      /\ users' = users /\ Context(t)' = t
  BY <1>4 DEF contextVars, Context
<1>7. t \in Objects /\ t \in users[t] /\ t # None
  BY ConfigAssumption DEF Owned, Objects
<1>8. CASE Complete(t)
  BY <1>6, <1>7, <1>8 DEF Contents, Complete
<1>9. ASSUME NEW i \in 0 .. D + C - 1, Filled(t, i) PROVE Contents(t)'
  <2>1. D \in Nat /\ C \in Nat /\ i \in Nat /\ i < D + C
    BY Defaults
  <2>2. Awaits(task[t], i) /\ FirstTypes(type_classes[t], i) /\ FirstCategories(cats, i)
    BY <1>9 DEF Filled
  <2>3. Doing(t) = RegisterAll[i + 1]
    <3>1. task[t].todo \in Seq(Items)
      BY <1>1 DEF RegisterTasks
    <3>2. Head(task[t].todo) = task[t].todo[1]
      BY <3>1, <1>1
    <3> QED
      BY <2>1, <2>2, <3>2 DEF Awaits, Doing
  <2>4. i >= D
    <3> SUFFICES ASSUME i < D PROVE FALSE
      BY <2>1
    <3>1. Doing(t) = [type |-> DefaultTypes[i + 1], priority |-> None]
      BY <2>1, <2>3, Defaults
    <3> QED
      BY <3>1, <1>4
  <2>5. i + 1 - D \in 1 .. C /\ D + (i + 1 - D) = i + 1
    BY <2>1, <2>4
  <2>6. Doing(t).category = DefaultCategories[i + 1 - D]
    <3>1. RegisterAll[D + (i + 1 - D)] = [category |-> DefaultCategories[i + 1 - D]]
      BY <2>5, Defaults
    <3>2. Doing(t) = [category |-> DefaultCategories[i + 1 - D]]
      BY <2>3, <2>5, <3>1
    <3> QED
      BY <3>2
  <2>7. cats \in Seq(Categories \cup {ExtensionCategory})
    BY <1>7 DEF Shape
  <2>8. Len(cats) = i - D /\ \A k \in 1 .. i - D : cats[k] = DefaultCategories[k]
    BY <2>1, <2>2, <2>4 DEF FirstCategories
  <2>9. ~Taken(t, Doing(t).category)
    <3> SUFFICES ASSUME NEW k \in DOMAIN cats,
                        cats[k].id = Doing(t).category.id \/ cats[k].order = Doing(t).category.order
                 PROVE  FALSE
      BY DEF Taken
    <3>1. k \in 1 .. i - D
      BY <2>7, <2>8
    <3>2. cats[k] = DefaultCategories[k] /\ k \in 1 .. C /\ k # i + 1 - D
      BY <3>1, <2>1, <2>8
    <3> QED
      BY <3>2, <2>5, <2>6, Defaults, CategoriesAssumption
  <2>10. Awaits(y, i)
    BY <2>2, <2>4, <1>2 DEF Awaits
  <2>11. Filled(t, i)'
    BY <2>2, <2>9, <2>10, <1>3, <1>5, <1>6 DEF Filled
  <2> QED
    BY <2>11, <1>6, <1>7 DEF Contents
<1> QED
  BY <1>7, <1>8, <1>9 DEF Contents

LEMMA ContentsAppend ==
  ASSUME Shape, Owned, NEW t \in Threads, Contents(t), Context(t) = t, AppendCategory(t), Shape'
  PROVE  Contents(t)'
<1> DEFINE x == [task[t] EXCEPT !.stage = "register", !.todo = Tail(@)]
           cats == source_categories[t]
<1>1. task[t] \in RegisterTasks /\ task[t].stage = "append" /\ task[t].todo # <<>>
  BY TaskByStage DEF AppendCategory, Does, Owned
<1>2. x \in RegisterTasks /\ x.stage = "register" /\ x.todo = Tail(task[t].todo)
  <2>1. task[t].todo \in Seq(Items) /\ Tail(task[t].todo) \in Seq(Items)
    BY <1>1 DEF RegisterTasks
  <2> QED
    BY <1>1, <2>1 DEF RegisterTasks
<1>3. Continue(t, x)
  BY DEF AppendCategory
<1> HIDE DEF x
<1>4. task'[t] = x /\ x # None
  BY <1>2, <1>3, ContinueTask, NoneFacts
<1>5. /\ users' = users /\ type_classes' = type_classes /\ _current_context' = _current_context
      /\ source_categories' = [source_categories EXCEPT ![t] = Append(@, Doing(t).category)]
  BY DEF AppendCategory
<1>6. t \in Objects /\ t \in users[t] /\ t # None
  BY ConfigAssumption DEF Owned, Objects
<1>7. cats \in Seq(Categories \cup {ExtensionCategory})
  BY <1>6 DEF Shape
<1>8. source_categories'[t] = Append(cats, Doing(t).category)
  BY <1>5, <1>6 DEF Shape
<1>9. Context(t)' = t /\ (t \in users[t])'
  BY <1>5, <1>6 DEF Context
<1> HIDE DEF cats
<1>10. CASE Complete(t)
  <2>1. ToSet(cats) \subseteq ToSet(Append(cats, Doing(t).category))
    BY <1>7 DEF ToSet
  <2>2. Complete(t)'
    BY <2>1, <1>5, <1>8, <1>10 DEF Complete, cats
  <2> QED
    BY <2>2, <1>9 DEF Contents
<1>11. ASSUME NEW i \in 0 .. D + C - 1, Filled(t, i) PROVE Contents(t)'
  <2>1. D \in Nat /\ C \in Nat /\ i \in Nat /\ i < D + C
    BY Defaults
  <2>2. Awaits(task[t], i) /\ FirstTypes(type_classes[t], i) /\ FirstCategories(cats, i)
    BY <1>11 DEF Filled, cats
  <2>3. Awaits(x, i + 1) /\ Doing(t) = RegisterAll[i + 1]
    BY <1>1, <1>2, <2>2, AwaitsTail DEF Doing
  <2>4. i >= D
    BY <1>1, <2>2 DEF Awaits
  <2>5. i + 1 - D \in 1 .. C /\ D + (i + 1 - D) = i + 1
    BY <2>1, <2>4
  <2>6. Doing(t).category = DefaultCategories[i + 1 - D]
    <3>1. RegisterAll[D + (i + 1 - D)] = [category |-> DefaultCategories[i + 1 - D]]
      BY <2>5, Defaults
    <3>2. Doing(t) = [category |-> DefaultCategories[i + 1 - D]]
      BY <2>3, <2>5, <3>1
    <3> QED
      BY <3>2
  <2> DEFINE c == DefaultCategories[i + 1 - D]
  <2>7. FirstCategories(Append(cats, c), i + 1)
    <3> HIDE DEF c
    <3>1. Len(cats) = i - D /\ \A k \in 1 .. i - D : cats[k] = DefaultCategories[k]
      BY <2>1, <2>2, <2>4 DEF FirstCategories
    <3>2. /\ Len(Append(cats, c)) = i + 1 - D
          /\ Append(cats, c)[i + 1 - D] = c
          /\ \A k \in 1 .. i - D : Append(cats, c)[k] = cats[k]
      BY <1>7, <2>1, <2>4, <3>1
    <3>3. \A k \in 1 .. i + 1 - D : Append(cats, c)[k] = DefaultCategories[k]
      <4> TAKE k \in 1 .. i + 1 - D
      <4>1. CASE k = i + 1 - D
        BY <4>1, <3>2 DEF c
      <4>2. CASE k # i + 1 - D
        <5>1. k \in 1 .. i - D
          BY <4>2, <2>1, <2>4
        <5> QED
          BY <5>1, <3>1, <3>2
      <4> QED
        BY <4>1, <4>2
    <3> QED
      BY <2>1, <2>4, <3>2, <3>3 DEF FirstCategories
  <2>8. FirstTypes(type_classes[t], i + 1)
    BY <2>1, <2>2, <2>4 DEF FirstTypes
  <2>9. Awaits(task[t], i + 1)' /\ (task[t] # None)'
    BY <2>3, <1>4
  <2>10. FirstTypes(type_classes[t], i + 1)' /\ FirstCategories(source_categories[t], i + 1)'
    BY <2>6, <2>7, <2>8, <1>5, <1>8
  <2> QED
    BY <2>9, <2>10, <1>9, OneMoreFilled
<1> QED
  BY <1>6, <1>10, <1>11 DEF Contents

(* A step of t: its own context.                                           *)
LEMMA OwnContents ==
  ASSUME Shape, Owned, Tokened, Shape', NEW t \in Threads, Private(t), Contents(t),
         \/ \E c \in Contexts : BeginEnter(t, c)
         \/ \E todo \in {RegisterAll, Extend} : BeginRegister(t, todo)
         \/ \E m \in Methods : BeginCompile(t, m)
         \/ __enter__(t) \/ __exit__(t) \/ current(t)
         \/ RegisterType(t) \/ CheckCategory(t) \/ AppendCategory(t)
         \/ Finish(t) \/ name_to_opcode(t) \/ BeginScan(t) \/ EndScan(t) \/ ScanRaises(t)
  PROVE  Contents(t)'
<1> DEFINE Still == /\ t \in users'[t] <=> t \in users[t]
                    /\ type_classes'[t] = type_classes[t]
                    /\ source_categories'[t] = source_categories[t]
<1>1. ASSUME \/ task[t] = None \/ Context(t) # t
             \/ task[t].stage \notin {"register", "append"} \/ task[t].todo = <<>>,
             Still
      PROVE  Contents(t)'
  BY <1>1, NotRegistering, ContentsKept
<1>2. CASE \/ \E c \in Contexts : BeginEnter(t, c)
           \/ \E todo \in {RegisterAll, Extend} : BeginRegister(t, todo)
           \/ \E m \in Methods : BeginCompile(t, m)
  BY <1>1, <1>2 DEF BeginEnter, BeginRegister, BeginCompile, Begin, contextVars
<1>3. CASE __enter__(t)
  <2> DEFINE c == task[t].context
  <2>1. c \in Contexts /\ task[t].stage = "enter"
    BY <1>3, TaskByStage DEF __enter__, Does, EnterTasks
  <2>2. users' = [users EXCEPT ![c] = @ \cup {t}] /\ UNCHANGED <<type_classes, source_categories>>
    BY <1>3 DEF __enter__, Set
  <2>3. c # t
    BY <2>1, NoneFacts
  <2>4. users'[t] = users[t]
    BY <2>2, <2>3 DEF Shape, Objects
  <2> QED
    BY <1>1, <2>1, <2>2, <2>4
<1>4. CASE __exit__(t)
  BY <1>1, <1>4 DEF __exit__
<1>5. CASE current(t)
  <2>1. CASE Context(t) = None
    BY <1>5, <2>1, ContentsStart
  <2>2. CASE Context(t) # None
    BY <1>1, <1>5, <2>2 DEF current, Does, Context
  <2> QED
    BY <2>1, <2>2
<1>6. CASE RegisterType(t) \/ CheckCategory(t) \/ AppendCategory(t)
  <2>1. CASE Context(t) = t
    BY <1>6, <2>1, ContentsRegisterType, ContentsCheck, ContentsAppend
  <2>2. CASE Context(t) # t
    <3>1. users' = users
      BY <1>6 DEF RegisterType, CheckCategory, AppendCategory, contextVars
    <3>2. type_classes'[t] = type_classes[t] /\ source_categories'[t] = source_categories[t]
      <4>1. CASE RegisterType(t)
        BY <2>2, <4>1 DEF RegisterType, Shape, Objects
      <4>2. CASE CheckCategory(t)
        BY <4>2 DEF CheckCategory, contextVars
      <4>3. CASE AppendCategory(t)
        BY <2>2, <4>3 DEF AppendCategory, Shape, Objects
      <4> QED
        BY <1>6, <4>1, <4>2, <4>3
    <3> QED
      BY <1>1, <2>2, <3>1, <3>2
  <2> QED
    BY <2>1, <2>2
<1>7. CASE Finish(t) \/ name_to_opcode(t)
  BY <1>1, <1>7 DEF Finish, name_to_opcode, Registered, contextVars
<1>8. CASE BeginScan(t) \/ EndScan(t) \/ ScanRaises(t)
  BY <1>1, <1>8 DEF BeginScan, EndScan, ScanRaises, Does, contextVars
<1> QED
  BY <1>2, <1>3, <1>4, <1>5, <1>6, <1>7, <1>8

(* A step of t: the contexts of the others.                                *)
LEMMA OthersContents ==
  ASSUME Shape, Owned, Tokened, NEW t \in Threads, Private(t),
         NEW u \in Threads, u # t, Contents(u),
         \/ \E c \in Contexts : BeginEnter(t, c)
         \/ \E todo \in {RegisterAll, Extend} : BeginRegister(t, todo)
         \/ \E m \in Methods : BeginCompile(t, m)
         \/ __enter__(t) \/ __exit__(t) \/ current(t)
         \/ RegisterType(t) \/ CheckCategory(t) \/ AppendCategory(t)
         \/ Finish(t) \/ name_to_opcode(t) \/ BeginScan(t) \/ EndScan(t) \/ ScanRaises(t)
  PROVE  Contents(u)'
<1>1. Context(t) # u
  BY DEF Private
<1>2. task'[u] = task[u]
  BY DEF BeginEnter, BeginRegister, BeginCompile, Begin, __enter__, __exit__, current, RegisterType,
     CheckCategory, AppendCategory, Finish, name_to_opcode, BeginScan, EndScan, ScanRaises,
     Continue, Shape
<1>3. Context(u)' = Context(u)
  <2>1. \/ __enter__(t) \/ __exit__(t) \/ current(t)
        \/ _current_context' = _current_context
    BY DEF BeginEnter, BeginRegister, BeginCompile, Begin, RegisterType,
       CheckCategory, AppendCategory, Finish, name_to_opcode, BeginScan, EndScan, ScanRaises,
       contextVars
  <2> QED
    BY <2>1, OthersContexts
<1>4. type_classes'[u] = type_classes[u]
  <2>1. CASE RegisterType(t)
    BY <1>1, <2>1 DEF RegisterType, Shape, Objects
  <2>2. CASE type_classes' = type_classes
    BY <2>2
  <2> QED
    BY <2>1, <2>2 DEF BeginEnter, BeginRegister, BeginCompile, Begin, __enter__, __exit__, current,
       CheckCategory, AppendCategory, Finish, name_to_opcode, BeginScan, EndScan, ScanRaises,
       contextVars
<1>5. source_categories'[u] = source_categories[u]
  <2>1. CASE AppendCategory(t)
    BY <1>1, <2>1 DEF AppendCategory, Shape, Objects
  <2>2. CASE source_categories' = source_categories
    BY <2>2
  <2> QED
    BY <2>1, <2>2 DEF BeginEnter, BeginRegister, BeginCompile, Begin, __enter__, __exit__, current,
       CheckCategory, RegisterType, Finish, name_to_opcode, BeginScan, EndScan, ScanRaises,
       contextVars
<1>6. u \in users'[u] <=> u \in users[u]
  <2>1. CASE \E o \in Objects : Set(t, o)
    BY <2>1 DEF Set, Shape, Objects
  <2>2. CASE users' = users
    BY <2>2
  <2>3. CASE __enter__(t)
    <3>1. task[t].context \in Objects
      BY <2>3, TaskByStage DEF __enter__, Does, EnterTasks, Objects
    <3> QED
      BY <2>1, <2>3, <3>1 DEF __enter__
  <2>4. CASE current(t)
    BY <2>1, <2>2, <2>4 DEF current, Objects
  <2> QED
    BY <2>2, <2>3, <2>4 DEF BeginEnter, BeginRegister, BeginCompile, Begin, __exit__,
       CheckCategory, AppendCategory, RegisterType, Finish, name_to_opcode, BeginScan, EndScan,
       ScanRaises, contextVars
<1> QED
  BY <1>2, <1>3, <1>4, <1>5, <1>6, OthersContentsKept

LEMMA LazyStep ==
  ASSUME Shape, Owned, Tokened, Shape', LazyInv, [ContextNext]_allVars
  PROVE  LazyInv'
<1>1. \A u \in Threads : Private(u)'
  BY PrivateStep DEF LazyInv
<1>2. ASSUME UNCHANGED <<contextVars, task>>, NEW u \in Threads PROVE Contents(u)'
  <2>1. Contents(u)
    BY DEF LazyInv
  <2> QED
    BY <1>2, <2>1, OthersContentsKept DEF contextVars, Context
<1>3. ASSUME NEW t \in Threads, NEW u \in Threads,
             \/ \E c \in Contexts : BeginEnter(t, c)
             \/ \E todo \in {RegisterAll, Extend} : BeginRegister(t, todo)
             \/ \E m \in Methods : BeginCompile(t, m)
             \/ __enter__(t) \/ __exit__(t) \/ current(t)
             \/ RegisterType(t) \/ CheckCategory(t) \/ AppendCategory(t)
             \/ Finish(t) \/ name_to_opcode(t) \/ BeginScan(t) \/ EndScan(t) \/ ScanRaises(t)
      PROVE  Contents(u)'
  <2>1. Private(t) /\ Contents(t) /\ Contents(u)
    BY DEF LazyInv
  <2>2. CASE u = t
    BY <1>3, <2>1, <2>2, OwnContents
  <2>3. CASE u # t
    BY <1>3, <2>1, <2>3, OthersContents
  <2> QED
    BY <2>2, <2>3
<1>4. ASSUME NEW u \in Threads PROVE Contents(u)'
  <2>1. CASE UNCHANGED allVars
    BY <1>2, <1>4, <2>1 DEF allVars
  <2>2. CASE ContextNext
    BY <1>2, <1>3, <1>4, <2>2 DEF ContextNext, ContextProceed, ConfigStep
  <2> QED
    BY <2>1, <2>2
<1> QED
  BY <1>1, <1>4 DEF LazyInv

LEMMA LazyInit == ContextInit => LazyInv
<1> SUFFICES ASSUME ContextInit, NEW t \in Threads PROVE Private(t) /\ Contents(t)
  BY DEF LazyInv
<1>1. /\ Context(t) = None /\ t \in Objects /\ t # None
      /\ \A o \in Objects : _token[o] = None
      /\ users[t] = {} /\ type_classes[t] = <<>> /\ source_categories[t] = <<>>
  BY ConfigAssumption DEF ContextInit, Context, Objects
<1>2. Private(t)
  BY <1>1, NoneFacts DEF Private, Back
<1>3. Contents(t)
  BY <1>1 DEF Contents, Untouched
<1> QED
  BY <1>2, <1>3

(* In the context current() made, code outside of every block finds the    *)
(* default types in their order and every default category, whatever       *)
(* clients registered and whichever registration raised before.            *)
THEOREM LazyContextsAreComplete == ContextSpec => []LazyDefaults
<1>1. ASSUME Shape, Owned, Tokened, Shape', LazyInv, [ContextNext]_allVars PROVE LazyInv'
  BY <1>1, LazyStep
<1>2. ASSUME Owned, LazyInv PROVE LazyDefaults
  <2> SUFFICES ASSUME NEW t \in Threads, Uses(t), Context(t) = t PROVE Complete(t)
    BY DEF LazyDefaults, Complete
  <2>1. t \in users[t]
    BY <1>2, ConfigAssumption DEF Owned
  <2>2. \A i \in 0 .. D + C - 1 : ~Filled(t, i)
    BY NotRegistering DEF Uses
  <2> QED
    BY <1>2, <2>1, <2>2 DEF LazyInv, Contents
<1> QED
  BY <1>1, <1>2, LazyInit, ContextInvariant, PTL DEF ContextSpec

-----------------------------------------------------------------------------
(* The parameters of the signature.                                        *)

AllCategories == Categories \cup {ExtensionCategory}
Parameters == UNION {ToSet(c.cfunc_params) : c \in AllCategories}

LEMMA CategoryFacts ==
  /\ \A c \in AllCategories : c.cfunc_params \in Seq(Parameters) /\ c.order \in Int
  /\ \A k \in 1 .. C : DefaultCategories[k] \in Categories /\ DefaultCategories[k].order < 0
  /\ \A c \in AllCategories : c.order < 0 => \E k \in 1 .. C : c = DefaultCategories[k]
  /\ \A k, l \in 1 .. C : k < l <=> DefaultCategories[k].order < DefaultCategories[l].order
  /\ DefaultCategories \in Seq(AllCategories)
<1>1. C \in Nat /\ DOMAIN DefaultCategories = 1 .. C
  BY Defaults
<1>2. Categories = ToSet(DefaultCategories) /\ Categories = {DefaultCategories[k] : k \in 1 .. C}
  BY <1>1 DEF Categories, ToSet
<1>3. ASSUME NEW c \in AllCategories PROVE c.cfunc_params \in Seq(Parameters)
  <2>1. c.cfunc_params \in Seq(ToSet(c.cfunc_params))
    BY <1>2, CategoriesAssumption DEF AllCategories
  <2>2. ToSet(c.cfunc_params) \subseteq Parameters
    BY DEF Parameters
  <2> QED
    BY <2>1, <2>2
<1>4. \A c \in AllCategories : c.order \in Int
  BY <1>1, <1>2, CategoriesAssumption DEF AllCategories
<1>5. \A k \in 1 .. C : /\ DefaultCategories[k] \in Categories /\ DefaultCategories[k].order \in Int
                        /\ DefaultCategories[k].order < 0
  BY <1>1, <1>2, CategoriesAssumption
<1>6. ASSUME NEW c \in AllCategories, c.order < 0 PROVE \E k \in 1 .. C : c = DefaultCategories[k]
  <2>1. c # ExtensionCategory
    BY <1>6, CategoriesAssumption
  <2> QED
    BY <2>1, <1>2 DEF AllCategories
<1>7. \A k, l \in 1 .. C : k < l <=> DefaultCategories[k].order < DefaultCategories[l].order
  <2> TAKE k, l \in 1 .. C
  <2>1. k < l => DefaultCategories[k].order < DefaultCategories[l].order
    BY <1>1, CategoriesAssumption
  <2>2. l < k => DefaultCategories[l].order < DefaultCategories[k].order
    BY <1>1, CategoriesAssumption
  <2>3. k < l \/ k = l \/ l < k
    BY <1>1
  <2>4. DefaultCategories[k].order \in Int /\ DefaultCategories[l].order \in Int
    BY <1>5
  <2> QED
    BY <1>1, <2>1, <2>2, <2>3, <2>4
<1>8. DefaultCategories \in Seq(AllCategories)
  <2>1. DefaultCategories \in Seq(ToSet(DefaultCategories))
    BY ContextAssumption
  <2> QED
    BY <2>1, <1>2 DEF AllCategories
<1> QED
  BY <1>3, <1>4, <1>5, <1>6, <1>7, <1>8

(* What the loop has collected after n categories.                         *)
Collects(p, categories) ==
  /\ p \in [0 .. Len(categories) -> Seq(Parameters)]
  /\ p[0] = <<>>
  /\ \A n \in 1 .. Len(categories) : p[n] = p[n - 1] \o categories[n].cfunc_params

LEMMA ParamsUnfold ==
  ASSUME NEW s \in Seq(AllCategories)
  PROVE  \E p : Collects(p, s) /\ build_cfunc_params(s) = p[Len(s)]
<1> DEFINE N == Len(s)
           S == Seq(Parameters)
           step == [n \in Nat |-> [x \in S |-> IF n \in 1 .. N THEN x \o s[n].cfunc_params ELSE x]]
           F(p) == [n \in 0 .. N |-> IF n = 0 THEN <<>> ELSE p[n - 1] \o s[n].cfunc_params]
<1>1. N \in Nat /\ \A n \in 1 .. N : s[n].cfunc_params \in S
  BY CategoryFacts
<1>2. step \in [Nat -> [S -> S]] /\ <<>> \in S
  <2>1. ASSUME NEW n \in Nat, NEW x \in S
        PROVE  (IF n \in 1 .. N THEN x \o s[n].cfunc_params ELSE x) \in S
    BY <1>1
  <2> HIDE DEF S, N
  <2>2. \A n \in Nat : step[n] \in [S -> S]
    BY <2>1
  <2> QED
    BY <2>2 DEF S
<1>3. PICK g \in [Nat -> S] : Follows(g, <<>>, step)
  <2> HIDE DEF S, step
  <2> QED
    BY <1>2, PrimitiveRecursion
<1>4. g[0] = <<>> /\ \A n \in Nat : g[n + 1] = step[n + 1][g[n]]
  BY <1>3 DEF Follows
<1>5. \A n \in 1 .. N : g[n] = g[n - 1] \o s[n].cfunc_params
  <2> TAKE n \in 1 .. N
  <2>1. n - 1 \in Nat /\ (n - 1) + 1 = n /\ n \in Nat
    BY <1>1
  <2>2. g[n] = step[n][g[n - 1]] /\ g[n - 1] \in S
    BY <1>4, <2>1
  <2> QED
    BY <2>1, <2>2
<1> HIDE DEF S, step
<1> DEFINE h == [n \in 0 .. N |-> g[n]]
<1>6. h = F(h)
  <2>1. ASSUME NEW n \in 0 .. N PROVE h[n] = F(h)[n]
    <3>1. CASE n = 0
      BY <3>1, <1>4
    <3>2. CASE n # 0
      <4>1. n \in 1 .. N /\ n - 1 \in 0 .. N
        BY <3>2, <1>1
      <4>2. F(h)[n] = h[n - 1] \o s[n].cfunc_params
        BY <3>2
      <4> QED
        BY <4>1, <4>2, <1>5
    <3> QED
      BY <3>1, <3>2
  <2>2. DOMAIN h = 0 .. N /\ DOMAIN F(h) = 0 .. N
    OBVIOUS
  <2>3. h = [n \in 0 .. N |-> h[n]] /\ F(h) = [n \in 0 .. N |-> F(h)[n]]
    OBVIOUS
  <2> HIDE DEF h, F
  <2> QED
    BY <2>1, <2>3
<1> DEFINE p == CHOOSE q : q = F(q)
<1>7. p = F(p)
  <2> HIDE DEF h, F
  <2> QED
    BY <1>6
<1>8. build_cfunc_params(s) = p[N]
  BY DEF build_cfunc_params
<1> HIDE DEF p
<1>9. p[0] = <<>> /\ \A n \in 1 .. N : p[n] = p[n - 1] \o s[n].cfunc_params
  <2>1. \A n \in 0 .. N : p[n] = IF n = 0 THEN <<>> ELSE p[n - 1] \o s[n].cfunc_params
    BY <1>7
  <2> HIDE DEF F
  <2>2. 0 \in 0 .. N /\ \A n \in 1 .. N : n \in 0 .. N /\ n # 0
    BY <1>1
  <2>3. p[0] = <<>>
    BY <2>1, <2>2
  <2>4. ASSUME NEW n \in 1 .. N PROVE p[n] = p[n - 1] \o s[n].cfunc_params
    BY <2>1, <2>2
  <2> QED
    BY <2>3, <2>4
<1>10. \A n \in Nat : n <= N => p[n] \in S
  <2> DEFINE A == {n \in Nat : n <= N => p[n] \in S}
  <2>1. 0 \in A
    BY <1>2, <1>9
  <2>2. \A n \in Nat : n \in A => n + 1 \in A
    <3> SUFFICES ASSUME NEW n \in Nat, n \in A, n + 1 <= N PROVE p[n + 1] \in S
      BY <1>1
    <3>1. n + 1 \in 1 .. N /\ (n + 1) - 1 = n /\ n <= N
      BY <1>1
    <3>2. p[n + 1] = p[n] \o s[n + 1].cfunc_params
      BY <3>1, <1>9
    <3>3. p[n] \in S /\ s[n + 1].cfunc_params \in S
      BY <3>1, <1>1
    <3> QED
      BY <3>2, <3>3 DEF S
  <2> HIDE DEF A
  <2>3. A = Nat
    BY <2>1, <2>2, NatSetInduction, A \in SUBSET Nat DEF A
  <2> QED
    BY <2>3 DEF A
<1>11. p \in [0 .. N -> S]
  <2>1. p = [n \in 0 .. N |-> p[n]]
    BY <1>7
  <2>2. \A n \in 0 .. N : p[n] \in S
    BY <1>1, <1>10
  <2> QED
    BY <2>1, <2>2
<1> QED
  BY <1>8, <1>9, <1>11 DEF Collects, S

(* A list that begins with another gives parameters that begin with those. *)
LEMMA ParamsPrefix ==
  ASSUME NEW a \in Seq(AllCategories), NEW b \in Seq(AllCategories), Len(a) <= Len(b),
         \A k \in 1 .. Len(a) : a[k] = b[k]
  PROVE  IsPrefix(build_cfunc_params(a), build_cfunc_params(b))
<1> DEFINE M == Len(a)
           N == Len(b)
<1>1. PICK p : Collects(p, a) /\ build_cfunc_params(a) = p[M]
  BY ParamsUnfold
<1>2. PICK q : Collects(q, b) /\ build_cfunc_params(b) = q[N]
  BY ParamsUnfold
<1>3. M \in Nat /\ N \in Nat /\ M <= N
  OBVIOUS
<1>4. /\ p[0] = <<>> /\ \A n \in 1 .. M : p[n] = p[n - 1] \o a[n].cfunc_params
      /\ q[0] = <<>> /\ \A n \in 1 .. N : q[n] = q[n - 1] \o b[n].cfunc_params
      /\ \A n \in 0 .. N : q[n] \in Seq(Parameters)
      /\ \A n \in 1 .. N : b[n].cfunc_params \in Seq(Parameters)
  <2>1. p[0] = <<>> /\ \A n \in 1 .. M : p[n] = p[n - 1] \o a[n].cfunc_params
    BY <1>1 DEF Collects
  <2>2. /\ q[0] = <<>> /\ \A n \in 1 .. N : q[n] = q[n - 1] \o b[n].cfunc_params
        /\ q \in [0 .. N -> Seq(Parameters)]
    BY <1>2 DEF Collects
  <2>3. \A n \in 1 .. N : b[n] \in AllCategories
    OBVIOUS
  <2>4. \A n \in 1 .. N : b[n].cfunc_params \in Seq(Parameters)
    BY <2>3, CategoryFacts
  <2> HIDE DEF M, N
  <2> QED
    BY <2>1, <2>2, <2>4
<1>5. \A k \in 1 .. M : a[k] = b[k]
  OBVIOUS
<1> HIDE DEF M, N
<1>6. p[M] = q[M]
  <2> DEFINE A == {n \in Nat : n <= M => p[n] = q[n]}
  <2>1. 0 \in A
    BY <1>4
  <2>2. \A n \in Nat : n \in A => n + 1 \in A
    <3> SUFFICES ASSUME NEW n \in Nat, n \in A, n + 1 <= M PROVE p[n + 1] = q[n + 1]
      BY <1>3
    <3>1. n + 1 \in 1 .. M /\ n + 1 \in 1 .. N /\ (n + 1) - 1 = n /\ n <= M
      BY <1>3
    <3>2. p[n + 1] = p[n] \o a[n + 1].cfunc_params /\ q[n + 1] = q[n] \o b[n + 1].cfunc_params
      BY <3>1, <1>4
    <3> QED
      BY <3>1, <3>2, <1>5
  <2> HIDE DEF A
  <2>3. A = Nat
    BY <2>1, <2>2, NatSetInduction, A \in SUBSET Nat DEF A
  <2> QED
    BY <2>3, <1>3 DEF A
<1>7. IsPrefix(q[M], q[N])
  <2> DEFINE Begins(z) == Len(q[M]) <= Len(z) /\ \A k \in 1 .. Len(q[M]) : z[k] = q[M][k]
             B == {n \in Nat : M + n <= N => Begins(q[M + n])}
  <2>1. 0 \in B
    <3>1. M + 0 = M /\ q[M] \in Seq(Parameters) /\ Len(q[M]) \in Nat
      BY <1>3, <1>4
    <3> QED
      BY <3>1
  <2>2. \A n \in Nat : n \in B => n + 1 \in B
    <3> HIDE DEF Begins
    <3> SUFFICES ASSUME NEW n \in Nat, n \in B, M + (n + 1) <= N PROVE Begins(q[M + (n + 1)])
      OBVIOUS
    <3> DEFINE x == q[M + n]
               y == b[M + n + 1].cfunc_params
    <3>1. M + n \in 0 .. N /\ M + n + 1 \in 1 .. N /\ M + (n + 1) = M + n + 1 /\ (M + n + 1) - 1 = M + n
      BY <1>3
    <3>2. q[M + n + 1] = x \o y /\ x \in Seq(Parameters) /\ y \in Seq(Parameters)
      BY <3>1, <1>4
    <3>3. Len(q[M]) <= Len(x) /\ \A k \in 1 .. Len(q[M]) : x[k] = q[M][k]
      <4>1. M + n <= N
        BY <1>3
      <4>2. Begins(q[M + n])
        BY <4>1
      <4> QED
        BY <4>2 DEF Begins
    <3>4. Len(q[M]) \in Nat
      BY <1>3, <1>4
    <3> HIDE DEF x, y
    <3>5. Len(x \o y) = Len(x) + Len(y) /\ Len(x) \in Nat /\ Len(y) \in Nat
          /\ \A k \in 1 .. Len(x) : (x \o y)[k] = x[k]
      BY <3>2
    <3>6. Begins(x \o y)
      BY <3>3, <3>4, <3>5 DEF Begins
    <3> QED
      BY <3>1, <3>2, <3>6
  <2> HIDE DEF B
  <2>3. B = Nat
    BY <2>1, <2>2, NatSetInduction, B \in SUBSET Nat DEF B
  <2>4. N - M \in Nat /\ M + (N - M) = N
    BY <1>3
  <2>5. Len(q[M]) <= Len(q[N]) /\ \A k \in 1 .. Len(q[M]) : q[N][k] = q[M][k]
    <3>1. N - M \in B
      BY <2>3, <2>4
    <3> HIDE DEF Begins
    <3>2. Begins(q[M + (N - M)])
      BY <3>1, <2>4, <1>3 DEF B
    <3> QED
      BY <3>2, <2>4 DEF Begins
  <2>6. q[M] \in Seq(Parameters) /\ q[N] \in Seq(Parameters)
    BY <1>3, <1>4
  <2> DEFINE x == q[M]
             y == q[N]
  <2> HIDE DEF x, y
  <2>7. SubSeq(x, 1, Len(x)) = SubSeq(y, 1, Len(x))
    BY <2>5, <2>6 DEF x, y
  <2> QED
    BY <2>5, <2>7 DEF IsPrefix, x, y
<1> QED
  BY <1>1, <1>2, <1>6, <1>7 DEF M, N

(* The categories in the order of the signature: the n-th has n - 1 others *)
(* before it, and each has another number of them.                         *)
Before(s, i) ==
  {j \in DOMAIN s : s[j].order < s[i].order \/ (s[j].order = s[i].order /\ j < i)}

LEMMA BeforeFacts ==
  ASSUME NEW s \in Seq(AllCategories),
         \A i, j \in DOMAIN s : i # j => s[i].order # s[j].order
  PROVE  /\ \A i \in 1 .. Len(s) : Before(s, i) = {j \in 1 .. Len(s) : s[j].order < s[i].order}
         /\ \A i \in 1 .. Len(s) : IsFiniteSet(Before(s, i)) /\ Cardinality(Before(s, i)) \in 0 .. Len(s) - 1
         /\ \A i, j \in 1 .. Len(s) : Cardinality(Before(s, i)) = Cardinality(Before(s, j)) => i = j
<1> DEFINE L == Len(s)
           B(i) == {j \in 1 .. L : s[j].order < s[i].order}
<1>1. L \in Nat /\ DOMAIN s = 1 .. L /\ \A i \in 1 .. L : s[i].order \in Int
  BY CategoryFacts
<1>2. ASSUME NEW i \in 1 .. L PROVE Before(s, i) = B(i)
  BY <1>1 DEF Before
<1> HIDE DEF L
<1>3. IsFiniteSet(1 .. L) /\ Cardinality(1 .. L) = L
  BY <1>1, FS_Interval
<1>4. ASSUME NEW i \in 1 .. L
      PROVE  IsFiniteSet(B(i)) /\ Cardinality(B(i)) \in 0 .. L - 1
  <2>1. B(i) \subseteq 1 .. L /\ i \notin B(i)
    BY <1>1
  <2> HIDE DEF B
  <2>2. IsFiniteSet(B(i)) /\ Cardinality(B(i)) <= L
    <3>1. B(i) \in SUBSET (1 .. L)
      BY <2>1
    <3>2. IsFiniteSet(B(i)) /\ Cardinality(B(i)) <= Cardinality(1 .. L)
      BY <3>1, <1>3, FS_Subset
    <3> QED
      BY <3>2, <1>3
  <2>3. B(i) # 1 .. L
    BY <2>1
  <2>4. Cardinality(B(i)) # L
    BY <2>1, <2>3, <1>3, FS_Subset
  <2>5. Cardinality(B(i)) \in Nat
    BY <2>2, FS_CardinalityType
  <2> QED
    BY <2>2, <2>4, <2>5, <1>1
<1>5. ASSUME NEW i \in 1 .. L, NEW j \in 1 .. L, s[i].order < s[j].order
      PROVE  Cardinality(B(i)) # Cardinality(B(j))
  <2>1. B(i) \subseteq B(j) /\ i \in B(j) /\ i \notin B(i)
    BY <1>1, <1>5
  <2>2. IsFiniteSet(B(j))
    BY <1>4
  <2> HIDE DEF B
  <2> QED
    BY <2>1, <2>2, FS_Subset
<1>6. ASSUME NEW i \in 1 .. L, NEW j \in 1 .. L, Cardinality(B(i)) = Cardinality(B(j)) PROVE i = j
  <2>1. ~(s[i].order < s[j].order) /\ ~(s[j].order < s[i].order)
    BY <1>5, <1>6
  <2> QED
    BY <2>1, <1>1
<1> HIDE DEF B
<1> QED
  BY <1>2, <1>4, <1>6 DEF L, B

LEMMA SortedHolds ==
  ASSUME NEW s \in Seq(AllCategories),
         \A i, j \in DOMAIN s : i # j => s[i].order # s[j].order,
         NEW n \in 1 .. Len(s)
  PROVE  \E i \in 1 .. Len(s) : Cardinality(Before(s, i)) = n - 1
<1> DEFINE L == Len(s)
           f == [i \in 1 .. L |-> Cardinality(Before(s, i))]
<1>1. L \in Nat
  OBVIOUS
<1>2. f \in [1 .. L -> 0 .. L - 1]
  BY BeforeFacts
<1>3. \A i, j \in 1 .. L : f[i] = f[j] => i = j
  BY BeforeFacts
<1> HIDE DEF f, L
<1>4. f \in Injection(1 .. L, 0 .. L - 1)
  BY <1>2, <1>3 DEF Injection, IsInjective
<1>5. /\ IsFiniteSet(1 .. L) /\ Cardinality(1 .. L) = L
      /\ IsFiniteSet(0 .. L - 1) /\ Cardinality(0 .. L - 1) = L
  <2>1. IsFiniteSet(1 .. L) /\ Cardinality(1 .. L) = IF 1 > L THEN 0 ELSE L - 1 + 1
    BY <1>1, FS_Interval
  <2>2. IsFiniteSet(0 .. L - 1) /\ Cardinality(0 .. L - 1) = IF 0 > L - 1 THEN 0 ELSE L - 1 - 0 + 1
    <3>1. L - 1 \in Int /\ 0 \in Int
      BY <1>1
    <3> QED
      BY <3>1, FS_Interval
  <2> QED
    BY <2>1, <2>2, <1>1
<1>6. f \in Surjection(1 .. L, 0 .. L - 1)
  BY <1>4, <1>5, FS_Injection
<1>7. n - 1 \in 0 .. L - 1
  BY <1>1 DEF L
<1>8. PICK i \in 1 .. L : f[i] = n - 1
  BY <1>6, <1>7 DEF Surjection
<1> QED
  BY <1>8 DEF f, L

(* The default categories come first.                                      *)
LEMMA DefaultsFirst ==
  ASSUME NEW s \in Seq(AllCategories),
         \A i, j \in DOMAIN s : i # j => s[i].order # s[j].order,
         NEW at \in [1 .. C -> 1 .. Len(s)], \A k \in 1 .. C : s[at[k]] = DefaultCategories[k],
         NEW n \in 1 .. C
  PROVE  Cardinality(Before(s, at[n])) = n - 1
<1>1. C \in Nat /\ n \in Nat /\ n <= C /\ Len(s) \in Nat /\ DOMAIN s = 1 .. Len(s)
      /\ \A j \in 1 .. Len(s) : s[j] \in AllCategories
  BY Defaults
<1>2. \A k, l \in 1 .. C : at[k] = at[l] => k = l
  BY <1>1, CategoryFacts
<1>3. Before(s, at[n]) = {at[k] : k \in 1 .. n - 1}
  <2>1. Before(s, at[n]) = {j \in 1 .. Len(s) : s[j].order < DefaultCategories[n].order}
    BY BeforeFacts
  <2>2. ASSUME NEW j \in 1 .. Len(s), s[j].order < DefaultCategories[n].order
        PROVE  \E k \in 1 .. n - 1 : j = at[k]
    <3>1. s[j] \in AllCategories /\ s[j].order \in Int /\ DefaultCategories[n].order < 0
          /\ DefaultCategories[n].order \in Int
      BY <1>1, CategoryFacts DEF AllCategories
    <3>2. s[j].order < 0
      BY <2>2, <3>1
    <3>3. PICK k \in 1 .. C : s[j] = DefaultCategories[k]
      BY <3>1, <3>2, CategoryFacts
    <3>4. k < n
      BY <2>2, <3>3, CategoryFacts
    <3>5. s[at[k]] = s[j] /\ at[k] \in 1 .. Len(s)
      BY <3>3
    <3>6. j = at[k]
      BY <3>5, <1>1
    <3>7. k \in 1 .. n - 1
      BY <3>4, <1>1
    <3> QED
      BY <3>6, <3>7
  <2>3. ASSUME NEW k \in 1 .. n - 1
        PROVE  at[k] \in 1 .. Len(s) /\ s[at[k]].order < DefaultCategories[n].order
    <3>1. k \in 1 .. C /\ k < n
      BY <1>1
    <3>2. DefaultCategories[k].order < DefaultCategories[n].order
      BY <3>1, CategoryFacts
    <3> QED
      BY <3>1, <3>2
  <2> QED
    BY <2>1, <2>2, <2>3
<1>4. n - 1 \in Nat /\ 1 .. n - 1 \subseteq 1 .. C
  BY <1>1
<1> DEFINE g == [k \in 1 .. n - 1 |-> at[k]]
           T == {at[k] : k \in 1 .. n - 1}
<1>5. g \in Bijection(1 .. n - 1, T)
  <2>1. g \in [1 .. n - 1 -> T]
    OBVIOUS
  <2>2. \A k, l \in 1 .. n - 1 : g[k] = g[l] => k = l
    BY <1>2, <1>4
  <2>3. \A x \in T : \E k \in 1 .. n - 1 : g[k] = x
    OBVIOUS
  <2> HIDE DEF g, T
  <2> QED
    BY <2>1, <2>2, <2>3 DEF Bijection, Injection, Surjection, IsInjective
<1>6. IsFiniteSet(1 .. n - 1) /\ Cardinality(1 .. n - 1) = n - 1
  <2>1. Cardinality(1 .. n - 1) = IF 1 > n - 1 THEN 0 ELSE (n - 1) - 1 + 1
    BY <1>4, FS_Interval
  <2>2. IsFiniteSet(1 .. n - 1)
    BY <1>4, FS_Interval
  <2> QED
    BY <2>1, <2>2, <1>1, <1>4
<1> HIDE DEF g, T
<1>7. Cardinality(T) = n - 1
  BY <1>5, <1>6, FS_Bijection DEF ExistsBijection
<1> QED
  BY <1>3, <1>7 DEF T

LEMMA OrderedBeginsWithDefaults ==
  ASSUME NEW o, source_categories[o] \in Seq(AllCategories),
         \A i, j \in DOMAIN source_categories[o] :
           i # j => source_categories[o][i].order # source_categories[o][j].order,
         Categories \subseteq ToSet(source_categories[o])
  PROVE  /\ get_ordered(o) \in Seq(AllCategories) /\ C <= Len(get_ordered(o))
         /\ \A k \in 1 .. C : DefaultCategories[k] = get_ordered(o)[k]
<1> DEFINE s == source_categories[o]
           L == Len(s)
           place(n) == CHOOSE i \in 1 .. L : Cardinality(Before(s, i)) = n - 1
<1>1. s \in Seq(AllCategories) /\ L \in Nat /\ DOMAIN s = 1 .. L
  OBVIOUS
<1>2. get_ordered(o) = [n \in 1 .. L |-> s[place(n)]]
  BY <1>1 DEF get_ordered, Before
<1>3. ASSUME NEW n \in 1 .. L PROVE place(n) \in 1 .. L /\ Cardinality(Before(s, place(n))) = n - 1
  BY <1>1, SortedHolds
<1>4. ASSUME NEW i \in 1 .. L, NEW j \in 1 .. L, Cardinality(Before(s, i)) = Cardinality(Before(s, j))
      PROVE  i = j
  BY <1>1, <1>4, BeforeFacts
<1> DEFINE at == [k \in 1 .. C |-> CHOOSE i \in 1 .. L : s[i] = DefaultCategories[k]]
<1>5. ASSUME NEW k \in 1 .. C PROVE at[k] \in 1 .. L /\ s[at[k]] = DefaultCategories[k]
  <2>1. DefaultCategories[k] \in ToSet(s)
    BY CategoryFacts
  <2>2. \E i \in 1 .. L : s[i] = DefaultCategories[k]
    BY <2>1, <1>1 DEF ToSet
  <2> QED
    BY <2>2
<1>6. at \in [1 .. C -> 1 .. L]
  <2>1. at = [k \in 1 .. C |-> at[k]]
    OBVIOUS
  <2> HIDE DEF at
  <2> QED
    BY <1>5, <2>1
<1> HIDE DEF at, place
<1>7. ASSUME NEW k \in 1 .. C PROVE k \in 1 .. L /\ place(k) = at[k]
  <2>1. Cardinality(Before(s, at[k])) = k - 1
    BY <1>1, <1>5, <1>6, DefaultsFirst
  <2>2. at[k] \in 1 .. L
    BY <1>5
  <2>3. k - 1 \in 0 .. L - 1
    <3>1. \A i \in 1 .. L : Cardinality(Before(s, i)) \in 0 .. L - 1
      BY <1>1, BeforeFacts
    <3> QED
      BY <2>1, <2>2, <3>1, Zenon
  <2>4. k \in 1 .. L
    <3>1. k \in Int /\ L \in Nat
      BY <1>1, Defaults
    <3> QED
      BY <2>3, <3>1
  <2> QED
    BY <2>1, <2>2, <2>4, <1>3, <1>4
<1>8. C <= L
  BY <1>1, <1>7, Defaults
<1>9. get_ordered(o) \in Seq(AllCategories) /\ Len(get_ordered(o)) = L
  <2>1. \A n \in 1 .. L : s[place(n)] \in AllCategories
    BY <1>1, <1>3
  <2>2. get_ordered(o) \in [1 .. L -> AllCategories]
    BY <1>2, <2>1
  <2> QED
    BY <1>1, <2>2, SeqDef
<1>10. \A k \in 1 .. C : DefaultCategories[k] = get_ordered(o)[k]
  BY <1>2, <1>5, <1>7
<1> QED
  BY <1>8, <1>9, <1>10

(* Whoever registered first, the parameters of the default categories are  *)
(* the first ones of the signature: what the host passes them by.          *)
THEOREM FrameworkComesFirst == ContextSpec => []FrameworkPrefix
<1>1. ASSUME Shape, CategoriesDistinct PROVE FrameworkPrefix
  <2> SUFFICES ASSUME NEW o \in Objects, Categories \subseteq ToSet(source_categories[o]),
                      Cardinality(users[o]) <= 1
               PROVE  IsPrefix(build_cfunc_params(DefaultCategories), build_cfunc_params(get_ordered(o)))
    BY DEF FrameworkPrefix
  <2>1. source_categories[o] \in Seq(AllCategories)
    BY <1>1 DEF Shape, AllCategories
  <2>2. \A i, j \in DOMAIN source_categories[o] :
          i # j => source_categories[o][i].order # source_categories[o][j].order
    BY <1>1 DEF CategoriesDistinct
  <2>3. /\ get_ordered(o) \in Seq(AllCategories) /\ C <= Len(get_ordered(o))
        /\ \A k \in 1 .. C : DefaultCategories[k] = get_ordered(o)[k]
    BY <2>1, <2>2, OrderedBeginsWithDefaults
  <2>4. DefaultCategories \in Seq(AllCategories) /\ Len(DefaultCategories) = C
    BY CategoryFacts DEF C
  <2> QED
    BY <2>3, <2>4, ParamsPrefix
<1> QED
  BY <1>1, ContextInvariant, RegistryInvariant, PTL

=============================================================================
