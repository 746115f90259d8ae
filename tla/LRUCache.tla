------------------------------ MODULE LRUCache ------------------------------
(***************************************************************************)
(* What KVStore promises its callers: a map of at most Capacity keys (0 is *)
(* unbounded), each operation atomic, in which making room for a new key   *)
(* gives up the key that has gone unused the longest.  Recency is a        *)
(* relation between keys, with no list and no index.                       *)
(***************************************************************************)
EXTENDS Integers, FiniteSets, Functions

CONSTANTS Key, Capacity, Value, Delta,
          Parse(_),   \* optional integer a stored value is read as
          Add(_, _),  \* stored sum
          Zero        \* what a missing key counts as

VARIABLES data,   \* function from the present keys to their values
          older,  \* <<a, b>>: a was last used before b
          reply   \* the latest operation and what it returned

vars == <<data, older, reply>>

Present == DOMAIN data

Init == data = <<>> /\ older = {} /\ reply = <<"none">>

\* k becomes the most recently used of the keys in S.
Used(k, S) == {p \in older : k \notin {p[1], p[2]} /\ {p[1], p[2]} \subseteq S}
              \cup ((S \ {k}) \X {k})

\* The keys a new key pushes out: the oldest one, when the map is full.
Victims(k) == {x \in Present : /\ k \notin Present
                               /\ Capacity # 0
                               /\ Cardinality(Present) = Capacity
                               /\ \A y \in Present : <<y, x>> \notin older}

Store(k, v) ==
    LET kept == (Present \ Victims(k)) \cup {k}
    IN  /\ data' = [x \in kept |-> IF x = k THEN v ELSE data[x]]
        /\ older' = Used(k, kept)

Set(k, v) == Store(k, v) /\ reply' = <<"set", k>>

Get(k) == /\ older' = IF k \in Present THEN Used(k, Present) ELSE older
          /\ reply' = <<"get", k, {data[x] : x \in Present \cap {k}}>>
          /\ UNCHANGED data

Del(k) == /\ data' = Restrict(data, Present \ {k})
          /\ older' = {p \in older : k \notin {p[1], p[2]}}
          /\ reply' = <<"del", k, k \in Present>>

IncrementBy(k, d) ==
    LET current == IF k \in Present THEN Parse(data[k]) ELSE {Zero}
    IN  IF current = {}
        THEN reply' = <<"incr", k, d, {}>> /\ UNCHANGED <<data, older>>
        ELSE \E n \in current : /\ Store(k, Add(n, d))
                                /\ reply' = <<"incr", k, d, {Add(n, d)}>>

\* exists, size and forEach look without touching recency.
Exists(k) == reply' = <<"exists", k, k \in Present>> /\ UNCHANGED <<data, older>>

Size == reply' = <<"size", Cardinality(Present)>> /\ UNCHANGED <<data, older>>

ForEach == /\ reply' = <<"forEach", {<<k, data[k]>> : k \in Present}>>
           /\ UNCHANGED <<data, older>>

Next == \/ \E k \in Key : \/ \E v \in Value : Set(k, v)
                          \/ Get(k) \/ Del(k) \/ Exists(k)
                          \/ \E d \in Delta : IncrementBy(k, d)
        \/ Size
        \/ ForEach

Spec == Init /\ [][Next]_vars
=============================================================================
