------------------------------ MODULE DictObject ------------------------------
(***************************************************************************)
(* The open-addressing dictionary of numba_rt/cext/dictobject.c: an index  *)
(* table probed by hash, an append-mostly array of entries that keeps      *)
(* insertion order, and the counters that decide when the table is         *)
(* rebuilt.  One action per exported operation that changes the dict.      *)
(*                                                                         *)
(* Integers that are only compared keep their sign as in C; Py_hash_t is   *)
(* unsigned, so its arithmetic is taken modulo HashModulus (2^64 in the    *)
(* build, smaller here) and (Py_hash_t)(-1) is HashModulus - 1.            *)
(***************************************************************************)
EXTENDS Integers, FiniteSets

CONSTANTS
  Keys,         \* the keys of the program
  Vals,         \* the values of the program
  Hash,         \* Hash[k]: the hash the caller passes with key k
  HashModulus,  \* 2^64 in the build
  Sizes,        \* table sizes newsize can take before `newsize <<= 1` overflows
  InitSizes,    \* sizes numba_dict_new is called with
  MaxProbe,     \* probes after which every slot has been visited
  Zero,         \* the bytes memset(.., 0, ..) leaves
  Fill,         \* the bytes memset(.., 0xff, ..) leaves
  NoKey         \* the key bytes of an entry that holds no item

DKIX_EMPTY == -1
DKIX_DUMMY == -2
D_MINSIZE  == 8

Hashes == 0 .. HashModulus - 1
NoHash == HashModulus - 1        \* (Py_hash_t)(-1): "entry is empty"

USABLE_FRACTION(n) == (2 * n) \div 3

-----------------------------------------------------------------------------
(* The probe sequence every search loop of the file follows.               *)

Probe(size, hash) ==
  LET p[n \in Nat] ==
        IF n = 0
          THEN [i |-> hash % size, perturb |-> hash]
          ELSE LET prev == p[n - 1]
                   q    == prev.perturb \div 32    \* >>= PERTURB_SHIFT, 5 bits
               IN  [i |-> (5 * prev.i + q + 1) % size, perturb |-> q]
  IN  p

Slots(size) == 0 .. size - 1

(* The slot at which a probe loop that stops on any slot of S stops.       *)
FirstIn(size, hash, S) ==
  LET p == Probe(size, hash)
      n == CHOOSE n \in 0 .. MaxProbe :
             p[n].i \in S /\ \A m \in 0 .. n - 1 : p[m].i \notin S
  IN  p[n].i

(* The search terminates: the probe sequence does meet S.                  *)
Meets(size, hash, S) == \E n \in 0 .. MaxProbe : Probe(size, hash)[n].i \in S

ASSUME DictConstants ==
  /\ HashModulus \in Nat \ {0}
  /\ Hash \in [Keys -> Hashes]
  /\ Sizes \subseteq Nat /\ D_MINSIZE \in Sizes /\ InitSizes \subseteq Sizes
  /\ \A size \in Sizes : size >= D_MINSIZE
  /\ MaxProbe \in Nat
  /\ NoKey \notin Keys
  /\ Zero \notin Vals /\ Fill \notin Vals \cup {Zero}

(* dictobject.c:218-227: when perturb has become 0 the recurrence 5*j + 1  *)
(* generates every slot, so every slot is visited.                         *)
ASSUME ProbeCoversTable ==
  \A size \in Sizes, hash \in Hashes :
    \A s \in Slots(size) : Meets(size, hash, {s})

-----------------------------------------------------------------------------
(* NB_DictKeys, and the pure helpers on it.                                *)

Entry == [hash : Hashes, key : Keys \cup {NoKey}, val : Vals \cup {Zero, Fill}]

FilledEntry == [hash |-> NoHash, key |-> NoKey, val |-> Fill]

numba_dictkeys_new(size) ==
  [size |-> size, usable |-> USABLE_FRACTION(size), nentries |-> 0,
   indices |-> [s \in Slots(size) |-> DKIX_EMPTY],
   entries |-> [i \in 0 .. USABLE_FRACTION(size) - 1 |-> FilledEntry]]

(* Positions of the entries that hold an item, in insertion order.         *)
LivePositions(dk) ==
  {i \in 0 .. dk.nentries - 1 : dk.entries[i].hash # NoHash}

Holds(dk, s, k) ==
  /\ dk.indices[s] >= 0
  /\ dk.entries[dk.indices[s]].hash = Hash[k]
  /\ dk.entries[dk.indices[s]].key = k

UnusedSlots(dk) == {s \in Slots(dk.size) : dk.indices[s] = DKIX_EMPTY}

lookup_stop(dk, k) == UnusedSlots(dk) \cup {s \in Slots(dk.size) : Holds(dk, s, k)}

lookup_to_dummy(dk, k) ==    \* mutant: the search gives up at a dummy slot
  dk.indices[FirstIn(dk.size, Hash[k],
    {s \in Slots(dk.size) : dk.indices[s] < 0 \/ Holds(dk, s, k)})]

(* numba_dict_lookup: the entry index of k, or DKIX_EMPTY.                 *)
lookup(dk, k) == dk.indices[FirstIn(dk.size, Hash[k], lookup_stop(dk, k))]

find_empty_slot(dk, hash) ==
  FirstIn(dk.size, hash, {s \in Slots(dk.size) : dk.indices[s] < 0})

lookdict_index_to_dummy(dk, hash, ix) ==    \* mutant: gives up at a dummy slot
  LET s == FirstIn(dk.size, hash,
             {t \in Slots(dk.size) : dk.indices[t] = ix \/ dk.indices[t] < 0})
  IN  IF dk.indices[s] = ix THEN s ELSE DKIX_EMPTY

lookdict_index(dk, hash, ix) ==
  LET s == FirstIn(dk.size, hash,
             {t \in Slots(dk.size) : dk.indices[t] \in {ix, DKIX_EMPTY}})
  IN  IF dk.indices[s] = ix THEN s ELSE DKIX_EMPTY

(* build_indices: entries 0 .. n-1 take the first unused slot, in order.   *)
build_indices(size, entries, n) ==
  LET b[m \in Nat] ==
        IF m = 0
          THEN [s \in Slots(size) |-> DKIX_EMPTY]
          ELSE LET idx  == b[m - 1]
                   slot == FirstIn(size, entries[m - 1].hash,
                                   {s \in Slots(size) : idx[s] = DKIX_EMPTY})
               IN  [idx EXCEPT ![slot] = m - 1]
  IN  b[n]

(* The n-th live entry: what the compaction loop copies to position n.     *)
NthLive(dk, n) ==
  CHOOSE i \in LivePositions(dk) :
    Cardinality({j \in LivePositions(dk) : j < i}) = n

resized_no_skip(dk, n, newsize) ==    \* mutant: copies the first n entries
  LET entries == [i \in 0 .. USABLE_FRACTION(newsize) - 1 |->
                    IF i >= n THEN FilledEntry ELSE dk.entries[i]]
  IN  [size |-> newsize, usable |-> USABLE_FRACTION(newsize) - n, nentries |-> n,
       indices |-> build_indices(newsize, entries, n), entries |-> entries]

(* The table numba_dict_resize builds once it has memory for newsize.      *)
resized(dk, n, newsize) ==
  LET entries == [i \in 0 .. USABLE_FRACTION(newsize) - 1 |->
                    IF i >= n THEN FilledEntry
                    ELSE dk.entries[IF dk.nentries = n THEN i ELSE NthLive(dk, i)]]
  IN  [size |-> newsize, usable |-> USABLE_FRACTION(newsize) - n, nentries |-> n,
       indices |-> build_indices(newsize, entries, n), entries |-> entries]

D_GROWTH_RATE_slow(n) == (3 * n) \div 2    \* mutant: rebuilds fill up at once
D_GROWTH_RATE(n) == 3 * n

(* newsize doubles from D_MINSIZE until it reaches minsize.                *)
NewSize(newsize, minsize) ==
  /\ newsize >= minsize
  /\ \A size \in Sizes : size >= minsize => newsize <= size

(* The part of numba_dict_insert that fills a new entry.                   *)
new_entry(dk, k, v) ==
  LET hashpos == find_empty_slot(dk, Hash[k])
  IN  [dk EXCEPT !.indices[hashpos] = dk.nentries,
                 !.entries[dk.nentries] = [hash |-> Hash[k], key |-> k, val |-> v],
                 !.usable   = @ - 1,
                 !.nentries = @ + 1]

-----------------------------------------------------------------------------
VARIABLES
  used,    \* NB_Dict.used
  keys,    \* NB_Dict.keys
  status   \* what the last call returned, or "abort"

vars == <<used, keys, status>>

Statuses == {"OK", "OK_REPLACED", "ERR_NO_MEMORY", "ERR_DICT_EMPTY", "abort"}

(* A failed assert calls abort(): the process makes no further call.       *)
Running == status # "abort"
Abort == status' = "abort" /\ UNCHANGED <<used, keys>>

Init ==
  /\ \E size \in InitSizes : keys = numba_dictkeys_new(size)
  /\ used = 0
  /\ status = "OK"

(* numba_dict_insert, the branches in the order of the code.               *)

InsertReplace(k, v) ==
  LET ix == lookup(keys, k) IN
  /\ ix >= 0
  /\ keys' = [keys EXCEPT !.entries[ix].val = v]
  /\ status' = "OK_REPLACED"
  /\ UNCHANGED used

(* Filling the entry asserts hash != -1 (after the slot was written, which *)
(* nobody sees: the process is gone).                                      *)
AddItem(dk, k, v) ==
  IF Hash[k] = NoHash
    THEN Abort
    ELSE /\ keys' = new_entry(dk, k, v)
         /\ used' = used + 1
         /\ status' = "OK"

InsertNew_late(k, v) ==    \* mutant: the table is filled one entry too far
  /\ lookup(keys, k) = DKIX_EMPTY
  /\ keys.usable >= 0
  /\ AddItem(keys, k, v)

InsertNew(k, v) ==
  /\ lookup(keys, k) = DKIX_EMPTY
  /\ keys.usable > 0
  /\ AddItem(keys, k, v)

(* insertion_resize, then the entry.                                       *)
InsertResize(k, v) ==
  /\ lookup(keys, k) = DKIX_EMPTY
  /\ keys.usable <= 0
  /\ \E newsize \in Sizes :
       /\ NewSize(newsize, D_GROWTH_RATE(used))
       /\ AddItem(resized(keys, used, newsize), k, v)

(* newsize overflowed, or malloc failed: d->keys is left as it was.        *)
InsertNoMemory(k) ==
  /\ lookup(keys, k) = DKIX_EMPTY
  /\ keys.usable <= 0
  /\ status' = "ERR_NO_MEMORY"
  /\ UNCHANGED <<used, keys>>

Insert(k, v) ==
  InsertReplace(k, v) \/ InsertNew(k, v) \/ InsertResize(k, v) \/ InsertNoMemory(k)

(* numba_dict_delitem with the index numba_dict_lookup gave for k.         *)
delitem_empty(dk, hashpos, ix) ==    \* mutant: no dummy is left behind
  [dk EXCEPT !.indices[hashpos] = DKIX_EMPTY,
             !.entries[ix] = [hash |-> NoHash, key |-> NoKey, val |-> Zero]]

delitem(dk, hashpos, ix) ==
  [dk EXCEPT !.indices[hashpos] = DKIX_DUMMY,
             !.entries[ix] = [hash |-> NoHash, key |-> NoKey, val |-> Zero]]

DelItem(k) ==
  LET ix      == lookup(keys, k)
      hashpos == lookdict_index(keys, Hash[k], ix)
  IN
  /\ ix >= 0
  /\ IF hashpos < 0
       THEN Abort
       ELSE /\ keys' = delitem(keys, hashpos, ix)
            /\ used' = used - 1
            /\ status' = "OK"

popitem_no_cut(dk, j, i) ==    \* mutant: the popped entry still counts
  [dk EXCEPT !.indices[j] = DKIX_DUMMY, !.entries[i].key = NoKey, !.entries[i].val = Zero]

(* numba_dict_popitem zeroes the bytes of the entry and cuts nentries, but *)
(* leaves its hash and does not give usable back.                          *)
popitem(dk, j, i) ==
  [dk EXCEPT !.indices[j] = DKIX_DUMMY,
             !.entries[i].key = NoKey,
             !.entries[i].val = Zero,
             !.nentries = i]

(* The scan from the end for an entry that holds an item.                  *)
LastLive(dk, i) == i \in LivePositions(dk) /\ \A j \in LivePositions(dk) : j <= i
last_live(dk) == CHOOSE i \in LivePositions(dk) : LastLive(dk, i)

PopItem ==
  LET i == last_live(keys)
      j == lookdict_index(keys, keys.entries[i].hash, i)
  IN
  /\ used # 0
  /\ IF LivePositions(keys) = {} \/ j < 0
       THEN Abort
       ELSE /\ keys' = popitem(keys, j, i)
            /\ used' = used - 1
            /\ status' = "OK"

PopItemEmpty ==
  /\ used = 0
  /\ status' = "ERR_DICT_EMPTY"
  /\ UNCHANGED <<used, keys>>

(* numba_dict_clear: popitem until used is 0.                              *)
cleared(dk, n) ==
  LET c[m \in Nat] ==
        IF m = 0 THEN dk
        ELSE LET prev == c[m - 1]
                 i    == last_live(prev)
             IN  IF LivePositions(prev) = {} THEN prev
                 ELSE popitem(prev, lookdict_index(prev, prev.entries[i].hash, i), i)
  IN  c[n]

Clear ==
  /\ keys' = cleared(keys, used)
  /\ used' = 0
  /\ status' = "OK"

Next ==
  /\ Running
  /\ \/ \E k \in Keys, v \in Vals : Insert(k, v)
     \/ \E k \in Keys : DelItem(k)
     \/ PopItem
     \/ PopItemEmpty
     \/ Clear

Spec == Init /\ [][Next]_vars

-----------------------------------------------------------------------------
(* The invariants of a table, stated for any NB_DictKeys.                  *)

WellTyped(dk) ==
  dk \in [size : Sizes, usable : Nat, nentries : Nat,
          indices : [Slots(dk.size) ->
                       {DKIX_EMPTY, DKIX_DUMMY} \cup 0 .. dk.nentries - 1],
          entries : [0 .. USABLE_FRACTION(dk.size) - 1 -> Entry]]

(* usable and nentries never promise more entries than were allocated.     *)
WithinBudget(dk) == dk.nentries + dk.usable <= USABLE_FRACTION(dk.size)

(* Every slot that is not unused has been paid for out of usable.          *)
PaidFor(dk) ==
  Cardinality(UnusedSlots(dk)) >= dk.size - (USABLE_FRACTION(dk.size) - dk.usable)

Bijective(dk) ==
  /\ \A s \in Slots(dk.size) : dk.indices[s] >= 0 => dk.indices[s] \in LivePositions(dk)
  /\ \A i \in LivePositions(dk) : \E s \in Slots(dk.size) : dk.indices[s] = i
  /\ \A s, t \in Slots(dk.size) :
       dk.indices[s] >= 0 /\ dk.indices[s] = dk.indices[t] => s = t

(* Entry i is on the probe path of its hash, before any unused slot.       *)
OnProbePath(dk, i) ==
  LET p == Probe(dk.size, dk.entries[i].hash) IN
  \E n \in 0 .. MaxProbe :
    /\ dk.indices[p[n].i] = i
    /\ \A m \in 0 .. n - 1 : dk.indices[p[m].i] # DKIX_EMPTY

Distinct(dk) ==
  /\ \A i \in LivePositions(dk) :
       dk.entries[i].key \in Keys /\ dk.entries[i].hash = Hash[dk.entries[i].key]
  /\ \A i, j \in LivePositions(dk) : dk.entries[i].key = dk.entries[j].key => i = j

-----------------------------------------------------------------------------
(* The properties.                                                         *)

(* The kinds of value the variables hold.                                  *)
TypeOK == used \in Nat /\ status \in Statuses /\ WellTyped(keys)

(* The counters agree with what they count: used is the number of entries  *)
(* that hold an item, and deletion and popitem never hand out an entry     *)
(* twice, so nentries cannot run past the entries that were allocated      *)
(* (numba_dict_insert writes entry nentries without checking).             *)
CountersAgree == used = Cardinality(LivePositions(keys)) /\ WithinBudget(keys)

(* dictobject.c:146: "To ensure the lookup algorithm terminates, there     *)
(* must be at least one Unused slot": it survives every mix of insert,     *)
(* delete, popitem and clear, which leave dummies behind.                  *)
UnusedSlotRemains == UnusedSlots(keys) # {}

(* Active slots and live entries are in bijection.                         *)
IndexMatchesEntries == Bijective(keys)

(* Deletions never cut the probe path of another key.                      *)
EntriesReachable == \A i \in LivePositions(keys) : OnProbePath(keys, i)

(* Lookup finds the entry of every key in the dict and of no other.        *)
LookupCorrect ==
  \A k \in Keys :
    LET at == {i \in LivePositions(keys) : keys.entries[i].key = k}
    IN  IF at = {} THEN lookup(keys, k) = DKIX_EMPTY ELSE at = {lookup(keys, k)}

(* What the steps of the program preserve (the properties above follow).   *)
Inductive ==
  /\ TypeOK
  /\ CountersAgree
  /\ PaidFor(keys)
  /\ IndexMatchesEntries
  /\ EntriesReachable
  /\ Distinct(keys)

(* While no key of the program hashes to -1, no operation ends in the       *)
(* assert it can fail: on the hash (657), on the position handed to a       *)
(* deletion (789), on what popitem finds (825, 828).                        *)
NoAbort == (\A k \in Keys : Hash[k] # NoHash) => Running

(* Slot kinds (dictobject.c:75-92): an active or dummy slot never becomes  *)
(* unused again.  Only a rebuild, made when usable has run out, brings     *)
(* back unused slots and usable, and it leaves no dead entry behind.       *)
OnlyRebuildReclaims ==
  [][ keys'.usable > keys.usable \/ ~(UnusedSlots(keys') \subseteq UnusedSlots(keys))
      => keys.usable = 0 /\ keys'.nentries = used' ]_vars

(* GROWTH_RATE (dictobject.c:364-373): a rebuild leaves room for as many   *)
(* insertions as there were items, so rebuilds are paid for by insertions. *)
RebuildLeavesRoom ==
  [][ keys'.usable > keys.usable => keys'.usable >= used - 1 ]_vars
=============================================================================
