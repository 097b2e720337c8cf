---------------------------- MODULE NumbaConfig ----------------------------
(***************************************************************************)
(* The process-wide ABI configuration (config.py): set_numba_config, which *)
(* may run once and before the first use, and get_numba_config, which      *)
(* reads without the lock first, selects the defaults under the lock if    *)
(* nothing was selected, and reads again.  A step of a thread is what the  *)
(* interpreter runs without another thread seeing anything in between: one *)
(* access to _numba_config, or one operation on the lock.                  *)
(***************************************************************************)
EXTENDS Integers

CONSTANTS
  Threads,
  Configs,    \* the values NumbaConfig() accepts
  Default,    \* NumbaConfig() without arguments
  Invalid,    \* arguments NumbaConfig() raises ValueError for
  None,
  MaxCalls    \* calls a thread makes (a bound)

ASSUME ConfigAssumption ==
  /\ Default \in Configs
  /\ None \notin Configs \cup {Invalid} \cup Threads
  /\ Invalid \notin Configs
  /\ {"RuntimeError", "ValueError", "get"} \cap (Configs \cup {Invalid, None}) = {}
  /\ MaxCalls \in Nat

VARIABLES
  _numba_config,
  _numba_config_lock,   \* the thread that holds it, or None
  pc,                   \* where a thread is
  args,                 \* the argument of its set_numba_config, or None
  result,               \* what its call returns or raises, None before
  calls                 \* how many calls it has made

vars == <<_numba_config, _numba_config_lock, pc, args, result, calls>>

At(t, label) == pc[t] = label
Go(t, label) == pc' = [pc EXCEPT ![t] = label]
Return(t, r) == result' = [result EXCEPT ![t] = r]

Call(t, label, arg) ==
  /\ At(t, "idle")
  /\ calls[t] < MaxCalls
  /\ calls' = [calls EXCEPT ![t] = @ + 1]
  /\ args' = [args EXCEPT ![t] = arg]
  /\ Go(t, label)
  /\ UNCHANGED <<_numba_config, _numba_config_lock, result>>

set_numba_config(t, arg) == Call(t, "set_lock", arg)
get_numba_config(t) == Call(t, "get_look", None)

\* with _numba_config_lock:
Lock(t, from, to) ==
  /\ At(t, from)
  /\ _numba_config_lock = None
  /\ _numba_config_lock' = t
  /\ Go(t, to)
  /\ UNCHANGED <<_numba_config, args, result, calls>>

\* The end of the with statement, reached normally or by an exception.
Unlock(t, from, to) ==
  /\ At(t, from)
  /\ _numba_config_lock' = None
  /\ Go(t, to)
  /\ UNCHANGED <<_numba_config, args, result, calls>>

-----------------------------------------------------------------------------

SetLock(t) == Lock(t, "set_lock", "set_check")

SetRefused_keeps_lock(t) ==    \* mutant: raises with the lock held
  /\ At(t, "set_check")
  /\ _numba_config # None
  /\ Return(t, "RuntimeError")
  /\ Go(t, "return")
  /\ UNCHANGED <<_numba_config, _numba_config_lock, args, calls>>

\* if _numba_config is not None: raise RuntimeError
SetRefused(t) ==
  /\ At(t, "set_check")
  /\ _numba_config # None
  /\ Return(t, "RuntimeError")
  /\ Go(t, "set_unlock")
  /\ UNCHANGED <<_numba_config, _numba_config_lock, args, calls>>

SetAllowed(t) ==
  /\ At(t, "set_check")
  /\ _numba_config = None
  /\ Go(t, "set_assign")
  /\ UNCHANGED <<_numba_config, _numba_config_lock, args, result, calls>>

SetAssign_unchecked(t) ==    \* mutant: __post_init__ checks nothing
  /\ At(t, "set_assign")
  /\ Return(t, args[t]) /\ _numba_config' = args[t]
  /\ Go(t, "set_unlock")
  /\ UNCHANGED <<_numba_config_lock, args, calls>>

\* _numba_config = NumbaConfig(...), whose __post_init__ may raise
SetAssign(t) ==
  /\ At(t, "set_assign")
  /\ IF args[t] = Invalid
       THEN Return(t, "ValueError") /\ UNCHANGED _numba_config
       ELSE Return(t, args[t]) /\ _numba_config' = args[t]
  /\ Go(t, "set_unlock")
  /\ UNCHANGED <<_numba_config_lock, args, calls>>

SetUnlock(t) == Unlock(t, "set_unlock", "return")

-----------------------------------------------------------------------------

\* if _numba_config is None, without the lock
GetLook(t) ==
  /\ At(t, "get_look")
  /\ Go(t, IF _numba_config = None THEN "get_lock" ELSE "get_read")
  /\ UNCHANGED <<_numba_config, _numba_config_lock, args, result, calls>>

GetLock(t) == Lock(t, "get_lock", "get_check")

GetCheck_trusting(t) ==    \* mutant: the test is not made again
  /\ At(t, "get_check")
  /\ Go(t, "get_assign")
  /\ UNCHANGED <<_numba_config, _numba_config_lock, args, result, calls>>

\* if _numba_config is None, with the lock
GetCheck(t) ==
  /\ At(t, "get_check")
  /\ Go(t, IF _numba_config = None THEN "get_assign" ELSE "get_unlock")
  /\ UNCHANGED <<_numba_config, _numba_config_lock, args, result, calls>>

GetAssign(t) ==
  /\ At(t, "get_assign")
  /\ _numba_config' = Default
  /\ Go(t, "get_unlock")
  /\ UNCHANGED <<_numba_config_lock, args, result, calls>>

GetUnlock(t) == Unlock(t, "get_unlock", "get_read")

\* return _numba_config
GetRead(t) ==
  /\ At(t, "get_read")
  /\ Return(t, _numba_config)
  /\ Go(t, "return")
  /\ UNCHANGED <<_numba_config, _numba_config_lock, args, calls>>

Leave(t) ==
  /\ At(t, "return")
  /\ Go(t, "idle")
  /\ Return(t, None)
  /\ args' = [args EXCEPT ![t] = None]
  /\ UNCHANGED <<_numba_config, _numba_config_lock, calls>>

-----------------------------------------------------------------------------

Init ==
  /\ _numba_config = None
  /\ _numba_config_lock = None
  /\ pc = [t \in Threads |-> "idle"]
  /\ args = [t \in Threads |-> None]
  /\ result = [t \in Threads |-> None]
  /\ calls = [t \in Threads |-> 0]

\* A call that has begun goes on.
Proceed(t) ==
  \/ SetLock(t) \/ SetRefused(t) \/ SetAllowed(t) \/ SetAssign(t) \/ SetUnlock(t)
  \/ GetLook(t) \/ GetLock(t) \/ GetCheck(t) \/ GetAssign(t) \/ GetUnlock(t)
  \/ GetRead(t) \/ Leave(t)

Next ==
  \E t \in Threads :
    \/ \E arg \in Configs \cup {Invalid} : set_numba_config(t, arg)
    \/ get_numba_config(t)
    \/ Proceed(t)

Spec == Init /\ [][Next]_vars

-----------------------------------------------------------------------------

Labels == {"idle", "set_lock", "set_check", "set_assign", "set_unlock",
           "get_look", "get_lock", "get_check", "get_assign", "get_unlock",
           "get_read", "return"}

Locked == {"set_check", "set_assign", "set_unlock",
           "get_check", "get_assign", "get_unlock"}

\* The kinds of value the variables hold.
TypeOK ==
  /\ _numba_config \in Configs \cup {None}
  /\ _numba_config_lock \in Threads \cup {None}
  /\ pc \in [Threads -> Labels]
  /\ args \in [Threads -> Configs \cup {Invalid, None}]
  /\ result \in [Threads -> Configs \cup {None, "RuntimeError", "ValueError"}]
  /\ calls \in [Threads -> 0 .. MaxCalls]

\* README.md:71: "The first use selects the defaults or your override for the
\* life of the process; later setter calls raise RuntimeError."  Whatever the
\* interleaving, each call looks as if it had happened at one moment.
Request(t) ==
  IF At(t, "idle") THEN None ELSE IF args[t] = None THEN "get" ELSE args[t]

Outcome(t) ==
  CASE At(t, "get_read") \/ At(t, "get_unlock") -> _numba_config
    [] At(t, "set_unlock") \/ At(t, "return") -> result[t]
    [] OTHER -> None

Once == INSTANCE WriteOnce WITH
          chosen <- _numba_config,
          request <- [t \in Threads |-> Request(t)],
          outcome <- [t \in Threads |-> Outcome(t)]

ImplementsWriteOnce == Once!OnceSpec
=============================================================================
