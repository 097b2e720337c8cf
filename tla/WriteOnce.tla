----------------------------- MODULE WriteOnce -----------------------------
(***************************************************************************)
(* What the process-wide configuration promises: the first use selects a   *)
(* value for the life of the process.  Each call takes effect at one       *)
(* moment between its start and its return.                                *)
(***************************************************************************)
CONSTANTS Threads, Configs, Default, Invalid, None

VARIABLES
  chosen,    \* the configuration, or None before the first use
  request,   \* what a thread asks for: a value to set, "get", or None
  outcome    \* what its call will return, or None before that is decided

onceVars == <<chosen, request, outcome>>

OnceInit ==
  /\ chosen = None
  /\ request = [t \in Threads |-> None]
  /\ outcome = [t \in Threads |-> None]

Ask(t, r) ==
  /\ request[t] = None
  /\ request' = [request EXCEPT ![t] = r]
  /\ UNCHANGED <<chosen, outcome>>

Decide(t, c, r) ==
  /\ request[t] # None /\ outcome[t] = None
  /\ chosen' = c
  /\ outcome' = [outcome EXCEPT ![t] = r]
  /\ UNCHANGED request

Set(t) ==
  /\ request[t] # "get"
  /\ \/ chosen = None /\ request[t] \in Configs /\ Decide(t, request[t], request[t])
     \/ chosen = None /\ request[t] \notin Configs /\ Decide(t, None, "ValueError")
     \/ chosen # None /\ Decide(t, chosen, "RuntimeError")

Get(t) ==
  /\ request[t] = "get"
  /\ \/ chosen = None /\ Decide(t, Default, Default)
     \/ chosen # None /\ Decide(t, chosen, chosen)

Answer(t) ==
  /\ outcome[t] # None
  /\ request' = [request EXCEPT ![t] = None]
  /\ outcome' = [outcome EXCEPT ![t] = None]
  /\ UNCHANGED chosen

OnceNext ==
  \E t \in Threads :
    \/ \E r \in Configs \cup {Invalid, "get"} : Ask(t, r)
    \/ Set(t)
    \/ Get(t)
    \/ Answer(t)

OnceSpec == OnceInit /\ [][OnceNext]_onceVars
=============================================================================
