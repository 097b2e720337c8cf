---------------------------- MODULE StandaloneDict ----------------------------
(***************************************************************************)
(* What compiled code does with a NumbaDict: the intrinsics of             *)
(* standalone/dict.py over the C dictionary, and the `for` loop that       *)
(* defaults/dict_support.py lowers to                                      *)
(*                                                                         *)
(*     _ds = _standalone_dict_iter_begin(d)                                *)
(*     for _di in range(standalone_dict_length(d)):                        *)
(*         k, v = _standalone_dict_iter_next_item(_ds, d)                  *)
(*         body                                                            *)
(*                                                                         *)
(* The statements of a loop body are the other operations, so they are     *)
(* free to happen between two steps of the loop.  The intrinsics drop the  *)
(* status codes of the C functions: where the C function then leaves an    *)
(* output unset or gets an index it cannot use, status becomes "undefined" *)
(* and the model says nothing of what follows.                             *)
(***************************************************************************)
EXTENDS DictObject, Sequences

CONSTANT Blocks    \* the addresses malloc hands out for NB_DictKeys

ASSUME BlocksAssumption == \E a, b \in Blocks : a # b

VARIABLES
  block,    \* the address d->keys
  it,       \* the NB_DictIter of the loop, or NoIter outside loops
  left,     \* how many times the range of the loop still has to go
  seen,     \* the keys the loop has been given
  mutated   \* history: the keys or their order changed since the loop began

loopVars == <<it, left, seen>>
allVars == <<used, keys, status, block, it, left, seen, mutated>>

NoIter == [parent_keys |-> "none", size |-> 0, pos |-> 0]
Looping == it # NoIter

(* prepare_int_key_for_lookup: an integer is its own hash, sign-extended   *)
(* to 64 bits and read as unsigned.                                        *)
prepare_int_key_for_lookup(key) == key % HashModulus

-----------------------------------------------------------------------------
(* Operations that read.                                                   *)

found_but_first(ix) == ix > 0    \* mutant: misses entry 0
found(ix) == ix >= 0

(* numba_dict_lookup zeroes the value buffer when the key is not there.    *)
standalone_dict_lookup(dk, k) ==
  IF lookup(dk, k) >= 0 THEN dk.entries[lookup(dk, k)].val ELSE Zero

standalone_dict_contains(dk, k) == found(lookup(dk, k))

standalone_dict_get(dk, k, default) ==
  IF found(lookup(dk, k)) THEN standalone_dict_lookup(dk, k) ELSE default

-----------------------------------------------------------------------------
(* Operations that change the dict.                                        *)

(* The keys of a table in entry order.                                     *)
KeyOrder(dk) ==
  [n \in 1 .. Cardinality(LivePositions(dk)) |-> dk.entries[NthLive(dk, n - 1)].key]

Note == mutated' = (Looping /\ (mutated \/ KeyOrder(keys') # KeyOrder(keys)))

(* d[key] = value.  A rebuild allocates the new block before it frees the  *)
(* old one; a block freed earlier may be handed out again.                 *)
SetItem(k, v) ==
  /\ \/ (InsertReplace(k, v) \/ InsertNew(k, v) \/ InsertNoMemory(k)) /\ UNCHANGED block
     \/ InsertResize(k, v) /\ block' \in Blocks \ {block}
  /\ Note
  /\ UNCHANGED loopVars

(* d.pop(key) of a key that is there.                                      *)
PopPresent(k) == DelItem(k) /\ Note /\ UNCHANGED <<block, loopVars>>

(* d.pop(key) of a key that is not: numba_dict_delitem is called with the  *)
(* index -1 that lookup returned.  lookdict_index finds the unused slot    *)
(* the probe ends at; then entry -1, the 24 bytes before the entries, is   *)
(* cleared.  With 8-byte keys and values its hash lies before the indices  *)
(* or on slots size - 24 .., its key and value on the last 16 slots.       *)
PopMissing(k) ==
  LET ix      == lookup(keys, k)
      hashpos == lookdict_index(keys, Hash[k], ix)
      byte(s) == IF s >= keys.size - 16 THEN 0
                 ELSE IF s >= keys.size - 24 THEN DKIX_EMPTY
                 ELSE IF s = hashpos THEN DKIX_DUMMY
                 ELSE keys.indices[s]
  IN
  /\ ix = DKIX_EMPTY
  /\ keys' = [keys EXCEPT !.indices = [s \in Slots(keys.size) |-> byte(s)]]
  /\ used' = used - 1
  /\ status' = "undefined"
  /\ UNCHANGED <<block, loopVars, mutated>>

ClearAll == Clear /\ Note /\ UNCHANGED <<block, loopVars>>

-----------------------------------------------------------------------------
(* The loop.                                                               *)

numba_dict_iter_entries(n) ==    \* mutant: counts the entries, dead ones too
  [parent_keys |-> block, size |-> keys.nentries, pos |-> n]
numba_dict_iter(n) == [parent_keys |-> block, size |-> used, pos |-> n]

LoopBegin ==
  /\ ~Looping
  /\ it' = numba_dict_iter(0)
  /\ left' = used
  /\ seen' = <<>>
  /\ mutated' = FALSE
  /\ UNCHANGED <<used, keys, status, block>>

(* The entry numba_dict_iter_next stops at.                                *)
NextLive(pos) ==
  {i \in LivePositions(keys) :
     i >= pos /\ \A j \in LivePositions(keys) : j >= pos => i <= j}

iter_next_here(i) ==    \* mutant: pos is left on the entry just given
  it' = [it EXCEPT !.pos = i] /\ seen' = Append(seen, keys.entries[i].key)
iter_next(i) ==
  it' = [it EXCEPT !.pos = i + 1] /\ seen' = Append(seen, keys.entries[i].key)

(* numba_dict_iter_next inside the loop: ERR_DICT_MUTATED and              *)
(* ERR_ITER_EXHAUSTED set neither pointer, and the loop reads through both. *)
LoopNext ==
  /\ Looping /\ left > 0
  /\ left' = left - 1
  /\ IF it.parent_keys # block \/ it.size # used \/ NextLive(it.pos) = {}
       THEN status' = "undefined" /\ UNCHANGED <<it, seen>>
       ELSE \E i \in NextLive(it.pos) : iter_next(i) /\ UNCHANGED status
  /\ UNCHANGED <<used, keys, block, mutated>>

LoopEnd ==
  /\ Looping /\ left = 0
  /\ it' = NoIter /\ seen' = <<>> /\ mutated' = FALSE
  /\ UNCHANGED <<used, keys, status, block, left>>

-----------------------------------------------------------------------------

StandaloneInit ==
  /\ Init
  /\ block \in Blocks
  /\ it = NoIter /\ left = 0 /\ seen = <<>> /\ mutated = FALSE

StandaloneNext ==
  /\ status \notin {"abort", "undefined"}
  /\ \/ \E k \in Keys, v \in Vals : SetItem(k, v)
     \/ \E k \in Keys : PopPresent(k)
     \/ ClearAll
     \/ LoopBegin
     \/ LoopNext
     \/ LoopEnd

(* Programs that pop only keys they have.                                  *)
StandaloneSpec == StandaloneInit /\ [][StandaloneNext]_allVars

(* All programs.                                                           *)
AnyProgramSpec ==
  StandaloneInit /\ [][\/ StandaloneNext
                       \/ status \notin {"abort", "undefined"}
                            /\ \E k \in Keys : PopMissing(k)]_allVars

-----------------------------------------------------------------------------

(* `in`, [] and get agree with each other and with the items of the dict:  *)
(* a key that was never set, or was popped, reads as the default and as 0. *)
AnswersMatch ==
  Running =>
    \A k \in Keys :
      LET at == {i \in LivePositions(keys) : keys.entries[i].key = k}
      IN  /\ standalone_dict_contains(keys, k) <=> at # {}
          /\ \A d \in Vals :
               standalone_dict_get(keys, k, d) \in
                 IF at = {} THEN {d} ELSE {keys.entries[i].val : i \in at}
          /\ at = {} => standalone_dict_lookup(keys, k) = Zero

(* A loop whose body keeps the keys gets each of them once, in insertion   *)
(* order: replacing values, and inserts that fail, do not disturb it.      *)
LoopInOrder ==
  Looping /\ ~mutated =>
    /\ seen = SubSeq(KeyOrder(keys), 1, Len(seen))
    /\ left = used - Len(seen)

(* The loop reads through an unset pointer only after its body changed the *)
(* keys: the fixed range never outruns the iterator on its own.            *)
UndefinedOnlyAfterMutation == status = "undefined" => mutated

(* README.md:316: a NumbaDict has `int` keys.                              *)
IntKeysInsertable == status # "abort"
=============================================================================
