------------------------------ MODULE KVStore -------------------------------
(***************************************************************************)
(* KVStore (storage/kv_store.cpp): a doubly linked list of entries, most   *)
(* recently used first, and an unordered_map from key to list iterator.    *)
(* Every operation runs under one lock, so each is one action.  index_ is  *)
(* represented by its key set: the iterator it holds for a key is the      *)
(* position of that key's entry.                                           *)
(***************************************************************************)
EXTENDS Integers, FiniteSets, SequencesExt

CONSTANTS Key,
          Capacity,  \* capacity_, 0 for unbounded
          MaxLL      \* largest long long

ASSUME KVStoreAssumption == Capacity \in Nat /\ MaxLL \in Nat

(* Stored strings, as far as std::stoll tells them apart: "int" is the     *)
(* decimal text of n, "prefix" starts with that text and goes on with      *)
(* something else ("7up"), "text" starts with no number that fits.         *)
LongLong == -MaxLL - 1 .. MaxLL
Value == [kind : {"int", "prefix"}, n : LongLong] \cup [kind : {"text"}, n : {0}]

\* std::stoll reads as far as the digits go; the empty set is its exception.
Stoll(v) == IF v.kind = "text" THEN {} ELSE {v.n}

\* std::to_string
DecimalText(n) == [kind |-> "int", n |-> n]

\* A variant without the width of the register.
AddUnbounded(n, d) == n + d

\* current + delta in a 64-bit register: signed overflow, as built, wraps.
AddLL(n, d) == ((n + d + MaxLL + 1) % (2 * (MaxLL + 1))) - MaxLL - 1

StoredSum(n, d) == DecimalText(AddLL(n, d))

\* INCR and DECR are the only callers of incrementBy.
Delta == {-1, 1}

VARIABLES lru,    \* lru_: sequence of [key, val], front first
          index,  \* the keys of index_
          reply   \* the latest operation and what it returned

vars == <<lru, index, reply>>

Init == lru = <<>> /\ index = {} /\ reply = <<"none">>

\* The list position index_ holds for k.
Position(k) == CHOOSE i \in DOMAIN lru : lru[i].key = k

\* it->second->second
ValueOf(k) == lru[Position(k)].val

\* A variant that overwrites or reads without the splice.
ToFrontInPlace(k, v) == [lru EXCEPT ![Position(k)].val = v]

\* lru_.splice(lru_.begin(), lru_, it) of an entry whose value is now v.
ToFront(k, v) == <<[key |-> k, val |-> v]>> \o RemoveAt(lru, Position(k))

\* A variant whose loop stops one entry early.
EvictedLate(list) ==
    IF Capacity # 0 /\ Len(list) > Capacity + 1 THEN SubSeq(list, 1, Capacity + 1) ELSE list

\* The list after evicting from the back down to Capacity.
Evicted(list) ==
    IF Capacity # 0 /\ Len(list) > Capacity THEN SubSeq(list, 1, Capacity) ELSE list

\* A variant that pops the list and leaves the index alone.
EvictedKeysKept(list) == {}

\* The keys that loop erases from index_.
EvictedKeys(list) == {list[i].key : i \in Len(Evicted(list)) + 1 .. Len(list)}

SetLocked(k, v) ==
    \/ /\ k \in index
       /\ lru' = ToFront(k, v)
       /\ UNCHANGED index
    \/ /\ k \notin index
       /\ LET list == <<[key |-> k, val |-> v]>> \o lru
          IN  /\ lru' = Evicted(list)
              /\ index' = (index \cup {k}) \ EvictedKeys(list)

Set(k, v) == SetLocked(k, v) /\ reply' = <<"set", k>>

Get(k) ==
    /\ UNCHANGED index
    /\ \/ k \notin index /\ reply' = <<"get", k, {}>> /\ UNCHANGED lru
       \/ k \in index /\ reply' = <<"get", k, {ValueOf(k)}>> /\ lru' = ToFront(k, ValueOf(k))

Del(k) ==
    \/ k \notin index /\ reply' = <<"del", k, FALSE>> /\ UNCHANGED <<lru, index>>
    \/ /\ k \in index
       /\ lru' = RemoveAt(lru, Position(k))
       /\ index' = index \ {k}
       /\ reply' = <<"del", k, TRUE>>

IncrementBy(k, d) ==
    LET current == IF k \in index THEN Stoll(ValueOf(k)) ELSE {0}
    IN  \/ /\ current = {}
           /\ reply' = <<"incr", k, d, {}>>
           /\ UNCHANGED <<lru, index>>
        \/ \E n \in current : LET updated == StoredSum(n, d)
                              IN  SetLocked(k, updated) /\ reply' = <<"incr", k, d, {updated}>>

Exists(k) == reply' = <<"exists", k, k \in index>> /\ UNCHANGED <<lru, index>>

Size == reply' = <<"size", Cardinality(index)>> /\ UNCHANGED <<lru, index>>

ForEach == /\ reply' = <<"forEach", {<<e.key, e.val>> : e \in ToSet(lru)}>>
           /\ UNCHANGED <<lru, index>>

Next == \/ \E k \in Key : \/ \E v \in Value : Set(k, v)
                          \/ Get(k) \/ Del(k) \/ Exists(k)
                          \/ \E d \in Delta : IncrementBy(k, d)
        \/ Size
        \/ ForEach

Spec == Init /\ [][Next]_vars

-----------------------------------------------------------------------------
TypeOK == /\ lru \in Seq([key : Key, val : Value])
          /\ index \subseteq Key

(* The two halves of the store agree: index_ has an iterator for exactly   *)
(* the keys in the list, and no key has two entries.  An eviction or an    *)
(* erase that updated only one of them would leave a dangling iterator.    *)
IndexMatchesList ==
    /\ index = {e.key : e \in ToSet(lru)}
    /\ \A i, j \in DOMAIN lru : lru[i].key = lru[j].key => i = j

(* A bounded store never holds more than capacity_ entries, whichever mix  *)
(* of set and incrementBy inserts them.                                    *)
WithinCapacity == Capacity # 0 => Len(lru) <= Capacity

(* The list implements the cache its callers rely on: every reply is the   *)
(* one LRUCache gives, and an insertion evicts the key unused the longest. *)
Cache == INSTANCE LRUCache WITH
            data  <- [k \in index |-> ValueOf(k)],
            older <- {p \in index \X index : Position(p[1]) > Position(p[2])},
            Parse <- Stoll, Add <- StoredSum, Zero <- 0
ImplementsLRUCache == Cache!Spec
=============================================================================
