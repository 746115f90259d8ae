--------------------------- MODULE KVStoreProofs ----------------------------
(***************************************************************************)
(* Agreement of the list and the index of KVStore, and its capacity bound, *)
(* for any keys, capacity and integer width.                               *)
(***************************************************************************)
EXTENDS KVStore, SequenceTheorems, FiniteSetTheorems, TLAPS

ListEntry == [key : Key, val : Value]

\* No key has two entries in the list.
Distinct(list) == \A i, j \in 1 .. Len(list) : list[i].key = list[j].key => i = j

KeysOfList(list) == {list[i].key : i \in 1 .. Len(list)}

\* Erasing one position of a list.
LEMMA RemoveAtLemma ==
  ASSUME NEW S, NEW s \in Seq(S), NEW p \in 1 .. Len(s)
  PROVE  /\ RemoveAt(s, p) \in Seq(S)
         /\ Len(RemoveAt(s, p)) = Len(s) - 1
         /\ \A i \in 1 .. Len(s) - 1 :
               RemoveAt(s, p)[i] = IF i < p THEN s[i] ELSE s[i + 1]
<1> DEFINE a == SubSeq(s, 1, p - 1)
           b == SubSeq(s, p + 1, Len(s))
<1>1. a \in Seq(S) /\ Len(a) = p - 1 /\ \A i \in 1 .. p - 1 : a[i] = s[i]
  BY SubSeqProperties
<1>2. b \in Seq(S) /\ Len(b) = Len(s) - p /\ \A i \in 1 .. Len(s) - p : b[i] = s[p + i]
  BY SubSeqProperties
<1>3. RemoveAt(s, p) = a \o b
  BY DEF RemoveAt
<1> HIDE DEF a, b
<1>4. /\ a \o b \in Seq(S)
      /\ Len(a \o b) = Len(a) + Len(b)
      /\ \A i \in 1 .. Len(a) + Len(b) :
            (a \o b)[i] = IF i <= Len(a) THEN a[i] ELSE b[i - Len(a)]
  BY <1>1, <1>2, ConcatProperties
<1> QED
  BY <1>1, <1>2, <1>3, <1>4

\* Putting an entry at the front of a list.
LEMMA PushFrontLemma ==
  ASSUME NEW S, NEW s \in Seq(S), NEW e \in S
  PROVE  /\ <<e>> \o s \in Seq(S)
         /\ Len(<<e>> \o s) = Len(s) + 1
         /\ \A i \in 1 .. Len(s) + 1 : (<<e>> \o s)[i] = IF i = 1 THEN e ELSE s[i - 1]
<1>1. <<e>> \in Seq(S) /\ Len(<<e>>) = 1 /\ <<e>>[1] = e
  OBVIOUS
<1>2. /\ <<e>> \o s \in Seq(S)
      /\ Len(<<e>> \o s) = Len(<<e>>) + Len(s)
      /\ \A i \in 1 .. Len(<<e>>) + Len(s) :
            (<<e>> \o s)[i] = IF i <= Len(<<e>>) THEN <<e>>[i] ELSE s[i - Len(<<e>>)]
  BY <1>1, ConcatProperties
<1> QED
  BY <1>1, <1>2

\* Erasing a key's entry takes away that key and nothing else.
LEMMA EraseLemma ==
  ASSUME NEW s \in Seq(ListEntry), Distinct(s), NEW p \in 1 .. Len(s)
  PROVE  /\ RemoveAt(s, p) \in Seq(ListEntry)
         /\ Len(RemoveAt(s, p)) = Len(s) - 1
         /\ Distinct(RemoveAt(s, p))
         /\ KeysOfList(RemoveAt(s, p)) = KeysOfList(s) \ {s[p].key}
<1> DEFINE r == RemoveAt(s, p)
<1>1. /\ r \in Seq(ListEntry) /\ Len(r) = Len(s) - 1
      /\ \A i \in 1 .. Len(s) - 1 : r[i] = IF i < p THEN s[i] ELSE s[i + 1]
  BY RemoveAtLemma
<1> HIDE DEF r
<1>2. Distinct(r)
  <2> SUFFICES ASSUME NEW i \in 1 .. Len(s) - 1, NEW j \in 1 .. Len(s) - 1, r[i].key = r[j].key
               PROVE  i = j
    BY <1>1 DEF Distinct
  <2> DEFINE at(n) == IF n < p THEN n ELSE n + 1
  <2>1. /\ at(i) \in 1 .. Len(s) /\ r[i] = s[at(i)]
        /\ at(j) \in 1 .. Len(s) /\ r[j] = s[at(j)]
    BY <1>1
  <2>2. at(i) = at(j)
    <3> HIDE DEF at
    <3> QED
      BY <2>1 DEF Distinct
  <2> QED
    BY <2>2
<1>3. KeysOfList(r) \subseteq KeysOfList(s) \ {s[p].key}
  <2> SUFFICES ASSUME NEW i \in 1 .. Len(r) PROVE r[i].key \in KeysOfList(s) \ {s[p].key}
    BY DEF KeysOfList
  <2>1. PICK j \in 1 .. Len(s) : j # p /\ r[i] = s[j]
    BY <1>1
  <2> QED
    BY <2>1 DEF Distinct, KeysOfList
<1>4. KeysOfList(s) \ {s[p].key} \subseteq KeysOfList(r)
  <2> SUFFICES ASSUME NEW j \in 1 .. Len(s), s[j].key # s[p].key PROVE s[j].key \in KeysOfList(r)
    BY DEF KeysOfList
  <2>1. CASE j < p
    BY <1>1, <2>1 DEF KeysOfList
  <2>2. CASE j > p
    <3>1. j - 1 \in 1 .. Len(r) /\ r[j - 1] = s[j]
      BY <1>1, <2>2
    <3> QED
      BY <3>1 DEF KeysOfList
  <2> QED
    BY <2>1, <2>2
<1> QED
  BY <1>1, <1>2, <1>3, <1>4 DEF r

\* An entry for a new key at the front adds that key.
LEMMA InsertLemma ==
  ASSUME NEW s \in Seq(ListEntry), Distinct(s), NEW e \in ListEntry, e.key \notin KeysOfList(s)
  PROVE  /\ <<e>> \o s \in Seq(ListEntry)
         /\ Len(<<e>> \o s) = Len(s) + 1
         /\ Distinct(<<e>> \o s)
         /\ KeysOfList(<<e>> \o s) = KeysOfList(s) \cup {e.key}
<1> DEFINE r == <<e>> \o s
<1>1. /\ r \in Seq(ListEntry) /\ Len(r) = Len(s) + 1
      /\ \A i \in 1 .. Len(s) + 1 : r[i] = IF i = 1 THEN e ELSE s[i - 1]
  BY PushFrontLemma
<1> HIDE DEF r
<1>2. Distinct(r)
  <2> SUFFICES ASSUME NEW i \in 1 .. Len(s) + 1, NEW j \in 1 .. Len(s) + 1, r[i].key = r[j].key
               PROVE  i = j
    BY <1>1 DEF Distinct
  <2>1. \A n \in 1 .. Len(s) : s[n].key # e.key
    BY DEF KeysOfList
  <2>2. CASE i = 1 \/ j = 1
    <3>1. ASSUME i = 1, j # 1 PROVE FALSE
      <4>1. j - 1 \in 1 .. Len(s) /\ r[i] = e /\ r[j] = s[j - 1]
        BY <1>1, <3>1
      <4> QED
        BY <2>1, <4>1
    <3>2. ASSUME j = 1, i # 1 PROVE FALSE
      <4>1. i - 1 \in 1 .. Len(s) /\ r[j] = e /\ r[i] = s[i - 1]
        BY <1>1, <3>2
      <4> QED
        BY <2>1, <4>1
    <3> QED
      BY <2>2, <3>1, <3>2
  <2>3. CASE i # 1 /\ j # 1
    <3>1. /\ i - 1 \in 1 .. Len(s) /\ r[i] = s[i - 1]
          /\ j - 1 \in 1 .. Len(s) /\ r[j] = s[j - 1]
      BY <1>1, <2>3
    <3>2. i - 1 = j - 1
      BY <3>1 DEF Distinct
    <3> QED
      BY <3>2
  <2> QED
    BY <2>2, <2>3
<1>3. KeysOfList(r) \subseteq KeysOfList(s) \cup {e.key}
  <2> SUFFICES ASSUME NEW i \in 1 .. Len(r) PROVE r[i].key \in KeysOfList(s) \cup {e.key}
    BY DEF KeysOfList
  <2>1. CASE i = 1
    BY <1>1, <2>1
  <2>2. CASE i # 1
    <3>1. i - 1 \in 1 .. Len(s) /\ r[i] = s[i - 1]
      BY <1>1, <2>2
    <3> QED
      BY <3>1 DEF KeysOfList
  <2> QED
    BY <2>1, <2>2
<1>4. KeysOfList(s) \cup {e.key} \subseteq KeysOfList(r)
  <2>1. e.key \in KeysOfList(r)
    <3>1. 1 \in 1 .. Len(r) /\ r[1] = e
      BY <1>1
    <3> QED
      BY <3>1 DEF KeysOfList
  <2>2. ASSUME NEW j \in 1 .. Len(s) PROVE s[j].key \in KeysOfList(r)
    <3>1. j + 1 \in 1 .. Len(r) /\ r[j + 1] = s[j]
      BY <1>1
    <3> QED
      BY <3>1 DEF KeysOfList
  <2> QED
    BY <2>1, <2>2 DEF KeysOfList
<1> QED
  BY <1>1, <1>2, <1>3, <1>4 DEF r

\* Evicting keeps a prefix: what leaves the list is what leaves the index.
LEMMA EvictLemma ==
  ASSUME NEW s \in Seq(ListEntry), Distinct(s)
  PROVE  /\ Evicted(s) \in Seq(ListEntry)
         /\ Capacity # 0 => Len(Evicted(s)) <= Capacity
         /\ Distinct(Evicted(s))
         /\ KeysOfList(Evicted(s)) = KeysOfList(s) \ EvictedKeys(s)
<1>1. CASE Capacity # 0 /\ Len(s) > Capacity
  <2> DEFINE r == SubSeq(s, 1, Capacity)
  <2>1. Evicted(s) = r
    BY <1>1 DEF Evicted
  <2>2. /\ r \in Seq(ListEntry) /\ Len(r) = Capacity
        /\ \A i \in 1 .. Capacity : r[i] = s[i]
    BY <1>1, KVStoreAssumption, SubSeqProperties
  <2> HIDE DEF r
  <2>3. Distinct(r)
    BY <1>1, <2>2, KVStoreAssumption DEF Distinct
  <2>4. EvictedKeys(s) = {s[i].key : i \in Capacity + 1 .. Len(s)}
    BY <2>1, <2>2 DEF EvictedKeys
  <2>5. KeysOfList(r) = KeysOfList(s) \ EvictedKeys(s)
    <3>1. ASSUME NEW i \in 1 .. Len(r) PROVE r[i].key \in KeysOfList(s) \ EvictedKeys(s)
      <4>1. i \in 1 .. Len(s) /\ r[i] = s[i]
        BY <1>1, <2>2, KVStoreAssumption
      <4>2. \A j \in Capacity + 1 .. Len(s) : s[j].key # s[i].key
        BY <1>1, <2>2, <4>1, KVStoreAssumption DEF Distinct
      <4> QED
        BY <2>4, <4>1, <4>2 DEF KeysOfList
    <3>2. ASSUME NEW j \in 1 .. Len(s), s[j].key \notin EvictedKeys(s)
          PROVE  s[j].key \in KeysOfList(r)
      <4>1. j \in 1 .. Len(r) /\ r[j] = s[j]
        BY <1>1, <2>2, <2>4, <3>2, KVStoreAssumption
      <4> QED
        BY <4>1 DEF KeysOfList
    <3> QED
      BY <3>1, <3>2 DEF KeysOfList
  <2> QED
    BY <2>1, <2>2, <2>3, <2>5, KVStoreAssumption
<1>2. CASE ~(Capacity # 0 /\ Len(s) > Capacity)
  <2>1. Evicted(s) = s
    BY <1>2 DEF Evicted
  <2>2. EvictedKeys(s) = {}
    BY <2>1 DEF EvictedKeys
  <2> QED
    BY <1>2, <2>1, <2>2, KVStoreAssumption
<1> QED
  BY <1>1, <1>2

\* The inductive invariant, in terms of list positions.
IInv == /\ TypeOK
        /\ index = KeysOfList(lru)
        /\ Distinct(lru)
        /\ WithinCapacity

\* The iterator index_ holds for a key points at that key's entry.
LEMMA PositionLemma ==
  ASSUME IInv, NEW k \in index
  PROVE  /\ Position(k) \in 1 .. Len(lru)
         /\ lru[Position(k)].key = k
         /\ ValueOf(k) \in Value
<1>1. lru \in Seq(ListEntry)
  BY DEF IInv, TypeOK, ListEntry
<1>2. DOMAIN lru = 1 .. Len(lru)
  BY <1>1
<1>3. \E i \in 1 .. Len(lru) : lru[i].key = k
  BY DEF IInv, KeysOfList
<1>4. Position(k) \in 1 .. Len(lru) /\ lru[Position(k)].key = k
  BY <1>2, <1>3 DEF Position
<1>5. lru[Position(k)] \in ListEntry
  BY <1>1, <1>4
<1> QED
  BY <1>4, <1>5 DEF ValueOf, ListEntry

\* Splicing a present key to the front, with a new value, keeps the invariant.
LEMMA ToFrontLemma ==
  ASSUME IInv, NEW k \in index, NEW v \in Value, lru' = ToFront(k, v), index' = index
  PROVE  IInv'
<1> DEFINE e == [key |-> k, val |-> v]
           rest == RemoveAt(lru, Position(k))
<1>1. lru \in Seq(ListEntry) /\ Distinct(lru) /\ index = KeysOfList(lru) /\ k \in Key
  BY DEF IInv, TypeOK, ListEntry
<1>2. Position(k) \in 1 .. Len(lru) /\ lru[Position(k)].key = k
  BY PositionLemma
<1>3. /\ rest \in Seq(ListEntry) /\ Len(rest) = Len(lru) - 1
      /\ Distinct(rest) /\ KeysOfList(rest) = KeysOfList(lru) \ {k}
  BY <1>1, <1>2, EraseLemma
<1>4. e \in ListEntry /\ e.key = k
  BY <1>1 DEF ListEntry
<1>5. lru' = <<e>> \o rest
  BY DEF ToFront
<1> HIDE DEF rest, e
<1>6. /\ <<e>> \o rest \in Seq(ListEntry) /\ Len(<<e>> \o rest) = Len(rest) + 1
      /\ Distinct(<<e>> \o rest) /\ KeysOfList(<<e>> \o rest) = KeysOfList(rest) \cup {k}
  BY <1>3, <1>4, InsertLemma
<1>7. TypeOK'
  BY <1>1, <1>5, <1>6 DEF TypeOK, ListEntry, IInv
<1>8. index' = KeysOfList(lru')
  BY <1>1, <1>3, <1>5, <1>6
<1>9. Distinct(lru') /\ WithinCapacity'
  BY <1>1, <1>3, <1>5, <1>6 DEF WithinCapacity, IInv
<1> QED
  BY <1>7, <1>8, <1>9 DEF IInv, KeysOfList, Distinct

\* setLocked keeps the invariant, whether it overwrites or inserts and evicts.
LEMMA SetLockedLemma ==
  ASSUME IInv, NEW k \in Key, NEW v \in Value, SetLocked(k, v)
  PROVE  IInv'
<1>1. CASE k \in index
  BY <1>1, ToFrontLemma DEF SetLocked
<1>2. CASE k \notin index
  <2> DEFINE e == [key |-> k, val |-> v]
             list == <<e>> \o lru
  <2>1. lru \in Seq(ListEntry) /\ Distinct(lru) /\ index = KeysOfList(lru)
    BY DEF IInv, TypeOK, ListEntry
  <2>2. e \in ListEntry /\ e.key = k
    BY DEF ListEntry
  <2>3. lru' = Evicted(list) /\ index' = (index \cup {k}) \ EvictedKeys(list)
    BY <1>2 DEF SetLocked
  <2> HIDE DEF e
  <2>4. /\ list \in Seq(ListEntry) /\ Distinct(list)
        /\ KeysOfList(list) = KeysOfList(lru) \cup {k}
    BY <1>2, <2>1, <2>2, InsertLemma
  <2> HIDE DEF list
  <2>5. /\ Evicted(list) \in Seq(ListEntry)
        /\ Capacity # 0 => Len(Evicted(list)) <= Capacity
        /\ Distinct(Evicted(list))
        /\ KeysOfList(Evicted(list)) = KeysOfList(list) \ EvictedKeys(list)
    BY <2>4, EvictLemma
  <2>6. index' = KeysOfList(lru')
    BY <2>1, <2>3, <2>4, <2>5
  <2>7. TypeOK'
    <3>1. index' \subseteq Key
      BY <2>3 DEF IInv, TypeOK
    <3> QED
      BY <2>3, <2>5, <3>1 DEF TypeOK, ListEntry
  <2>8. Distinct(lru') /\ WithinCapacity'
    BY <2>3, <2>5 DEF WithinCapacity
  <2> QED
    BY <2>6, <2>7, <2>8 DEF IInv, KeysOfList, Distinct
<1> QED
  BY <1>1, <1>2

\* What incrementBy stores is the decimal text of a long long.
LEMMA StoredSumType ==
  ASSUME NEW v \in Value, NEW n \in Stoll(v) \cup {0}, NEW d \in Delta
  PROVE  StoredSum(n, d) \in Value
<1>1. n \in Int /\ d \in Int
  BY KVStoreAssumption DEF Stoll, Value, LongLong, Delta
<1> DEFINE m == 2 * (MaxLL + 1)
           x == n + d + MaxLL + 1
<1>2. x \in Int /\ m \in Nat /\ m > 0
  BY <1>1, KVStoreAssumption
<1>3. x % m \in 0 .. m - 1
  <2> HIDE DEF x, m
  <2> QED
    BY <1>2
<1>4. AddLL(n, d) = (x % m) - MaxLL - 1
  BY DEF AddLL
<1>5. AddLL(n, d) \in LongLong
  <2> HIDE DEF x
  <2> QED
    BY <1>2, <1>3, <1>4, KVStoreAssumption DEF LongLong
<1> QED
  BY <1>5 DEF StoredSum, DecimalText, Value

\* An empty store satisfies the invariant.
LEMMA InitInv == Init => IInv
  BY KVStoreAssumption DEF Init, IInv, TypeOK, KeysOfList, Distinct, WithinCapacity

\* Every operation keeps the invariant.
LEMMA NextInv == IInv /\ [Next]_vars => IInv'
<1> SUFFICES ASSUME IInv, [Next]_vars PROVE IInv'
  OBVIOUS
<1>1. lru \in Seq(ListEntry) /\ Distinct(lru) /\ index = KeysOfList(lru)
  BY DEF IInv, TypeOK, ListEntry
<1>2. ASSUME UNCHANGED <<lru, index>> PROVE IInv'
  BY <1>2 DEF IInv, TypeOK, KeysOfList, Distinct, WithinCapacity
<1>3. ASSUME NEW k \in Key, NEW v \in Value, Set(k, v) PROVE IInv'
  BY <1>3, SetLockedLemma DEF Set
<1>4. ASSUME NEW k \in Key, Get(k) PROVE IInv'
  <2>1. CASE k \in index
    BY <1>4, <2>1, PositionLemma, ToFrontLemma DEF Get
  <2>2. CASE k \notin index
    BY <1>2, <1>4, <2>2 DEF Get
  <2> QED
    BY <2>1, <2>2
<1>5. ASSUME NEW k \in Key, Del(k) PROVE IInv'
  <2>1. CASE k \in index
    <3> DEFINE rest == RemoveAt(lru, Position(k))
    <3>1. Position(k) \in 1 .. Len(lru) /\ lru[Position(k)].key = k
      BY <2>1, PositionLemma
    <3>2. lru' = rest /\ index' = index \ {k}
      BY <1>5, <2>1 DEF Del
    <3>3. /\ rest \in Seq(ListEntry) /\ Len(rest) = Len(lru) - 1
          /\ Distinct(rest) /\ KeysOfList(rest) = KeysOfList(lru) \ {k}
      BY <1>1, <3>1, EraseLemma
    <3> HIDE DEF rest
    <3>4. TypeOK'
      BY <3>2, <3>3 DEF IInv, TypeOK, ListEntry
    <3>5. index' = KeysOfList(lru') /\ Distinct(lru')
      BY <1>1, <3>2, <3>3
    <3>6. WithinCapacity'
      BY <1>1, <3>2, <3>3, KVStoreAssumption DEF IInv, WithinCapacity
    <3> QED
      BY <3>4, <3>5, <3>6 DEF IInv, KeysOfList, Distinct
  <2>2. CASE k \notin index
    BY <1>2, <1>5, <2>2 DEF Del
  <2> QED
    BY <2>1, <2>2
<1>6. ASSUME NEW k \in Key, NEW d \in Delta, IncrementBy(k, d) PROVE IInv'
  <2> DEFINE current == IF k \in index THEN Stoll(ValueOf(k)) ELSE {0}
  <2>1. CASE UNCHANGED <<lru, index>>
    BY <1>2, <2>1
  <2>2. CASE \E n \in current : SetLocked(k, StoredSum(n, d))
    <3>1. PICK n \in current : SetLocked(k, StoredSum(n, d))
      BY <2>2
    <3>2. PICK v \in Value : n \in Stoll(v) \cup {0}
      <4>1. k \in index => ValueOf(k) \in Value
        BY PositionLemma
      <4>2. DecimalText(0) \in Value
        BY KVStoreAssumption DEF DecimalText, Value, LongLong
      <4> QED
        BY <3>1, <4>1, <4>2
    <3>3. StoredSum(n, d) \in Value
      BY <3>2, StoredSumType
    <3> QED
      BY <3>1, <3>3, SetLockedLemma
  <2> QED
    BY <1>6, <2>1, <2>2 DEF IncrementBy
<1>7. ASSUME (\E k \in Key : Exists(k)) \/ Size \/ ForEach \/ UNCHANGED vars PROVE IInv'
  BY <1>2, <1>7 DEF Exists, Size, ForEach, vars
<1> QED
  BY <1>3, <1>4, <1>5, <1>6, <1>7 DEF Next

(* What every reader and writer of the store relies on, for any set of     *)
(* keys, any capacity and any integer width.                               *)
THEOREM Invariance == Spec => []IInv
  BY InitInv, NextInv, PTL DEF Spec

(* Only decimal texts of long long values and stored strings are ever in   *)
(* the list: an INCR that wraps around still stores a long long.           *)
THEOREM TypeCorrect == Spec => []TypeOK
<1>1. IInv => TypeOK
  BY DEF IInv
<1> QED
  BY <1>1, Invariance, PTL

(* index_ never holds an iterator to an entry that set, incrementBy or del *)
(* erased from the list, and never misses one.                             *)
THEOREM IndexAlwaysMatchesList == Spec => []IndexMatchesList
<1>1. IInv => IndexMatchesList
  <2> SUFFICES ASSUME IInv PROVE IndexMatchesList
    OBVIOUS
  <2>1. lru \in Seq(ListEntry)
    BY DEF IInv, TypeOK, ListEntry
  <2>2. DOMAIN lru = 1 .. Len(lru)
    BY <2>1
  <2>3. ToSet(lru) = {lru[i] : i \in 1 .. Len(lru)}
    BY <2>2 DEF ToSet
  <2>4. KeysOfList(lru) = {e.key : e \in ToSet(lru)}
    BY <2>3 DEF KeysOfList
  <2> QED
    BY <2>2, <2>4 DEF IInv, Distinct, IndexMatchesList
<1> QED
  BY <1>1, Invariance, PTL

\* setLocked's eviction keeps a bounded store within capacity_.
THEOREM NeverOverCapacity == Spec => []WithinCapacity
<1>1. IInv => WithinCapacity
  BY DEF IInv
<1> QED
  BY <1>1, Invariance, PTL

-----------------------------------------------------------------------------
(* The list implements LRUCache: which position each key's entry has, and  *)
(* what erasing and inserting an entry do to the order of the others.      *)

\* Position, of any list.
At(list, k) == CHOOSE i \in DOMAIN list : list[i].key = k

\* x's entry is behind y's: x has gone unused longer.
Behind(list, x, y) == At(list, x) > At(list, y)

\* A key's position is the one its entry has.
LEMMA AtLemma ==
  ASSUME NEW s \in Seq(ListEntry), Distinct(s)
  PROVE  /\ \A i \in 1 .. Len(s) : At(s, s[i].key) = i
         /\ \A k \in KeysOfList(s) : At(s, k) \in 1 .. Len(s) /\ s[At(s, k)].key = k
<1>1. DOMAIN s = 1 .. Len(s)
  OBVIOUS
<1>2. ASSUME NEW k \in KeysOfList(s) PROVE At(s, k) \in 1 .. Len(s) /\ s[At(s, k)].key = k
  <2>1. \E i \in 1 .. Len(s) : s[i].key = k
    BY DEF KeysOfList
  <2> QED
    BY <1>1, <2>1 DEF At
<1>3. ASSUME NEW i \in 1 .. Len(s) PROVE At(s, s[i].key) = i
  <2>1. s[i].key \in KeysOfList(s)
    BY DEF KeysOfList
  <2>2. At(s, s[i].key) \in 1 .. Len(s) /\ s[At(s, s[i].key)].key = s[i].key
    BY <1>2, <2>1
  <2> QED
    BY <2>2 DEF Distinct
<1> QED
  BY <1>2, <1>3

\* Erasing an entry leaves the values and the order of the others.
LEMMA EraseOrder ==
  ASSUME NEW s \in Seq(ListEntry), Distinct(s), NEW p \in 1 .. Len(s), NEW r,
         r = RemoveAt(s, p)
  PROVE  \A x \in KeysOfList(r) :
            /\ r[At(r, x)].val = s[At(s, x)].val
            /\ \A y \in KeysOfList(r) : Behind(r, x, y) <=> Behind(s, x, y)
<1>1. /\ r \in Seq(ListEntry) /\ Len(r) = Len(s) - 1
      /\ \A i \in 1 .. Len(s) - 1 : r[i] = IF i < p THEN s[i] ELSE s[i + 1]
  BY RemoveAtLemma
<1>2. Distinct(r)
  BY EraseLemma
<1>3. ASSUME NEW x \in KeysOfList(r)
      PROVE  /\ At(r, x) \in 1 .. Len(s) - 1
             /\ At(s, x) = IF At(r, x) < p THEN At(r, x) ELSE At(r, x) + 1
             /\ r[At(r, x)] = s[At(s, x)]
  <2>1. At(r, x) \in 1 .. Len(s) - 1 /\ r[At(r, x)].key = x
    BY <1>1, <1>2, AtLemma
  <2>2. PICK i \in 1 .. Len(s) : i = (IF At(r, x) < p THEN At(r, x) ELSE At(r, x) + 1)
    BY <2>1
  <2>3. r[At(r, x)] = s[i]
    BY <1>1, <2>1, <2>2
  <2>4. At(s, x) = i
    BY <2>1, <2>3, AtLemma
  <2> QED
    BY <2>1, <2>2, <2>3, <2>4
<1>4. ASSUME NEW x \in KeysOfList(r), NEW y \in KeysOfList(r)
      PROVE  Behind(r, x, y) <=> Behind(s, x, y)
  BY <1>3 DEF Behind
<1> QED
  BY <1>3, <1>4

\* An entry inserted at the front is in front of all others, whose values and
\* order stay.
LEMMA InsertOrder ==
  ASSUME NEW s \in Seq(ListEntry), Distinct(s), NEW e \in ListEntry, e.key \notin KeysOfList(s),
         NEW r, r = <<e>> \o s
  PROVE  /\ At(r, e.key) = 1 /\ r[1] = e
         /\ \A x \in KeysOfList(s) :
               /\ r[At(r, x)].val = s[At(s, x)].val
               /\ Behind(r, x, e.key)
               /\ \A y \in KeysOfList(s) : Behind(r, x, y) <=> Behind(s, x, y)
<1>1. /\ r \in Seq(ListEntry) /\ Len(r) = Len(s) + 1
      /\ \A i \in 1 .. Len(s) + 1 : r[i] = IF i = 1 THEN e ELSE s[i - 1]
  BY PushFrontLemma
<1>2. Distinct(r)
  BY InsertLemma
<1>3. At(r, e.key) = 1 /\ r[1] = e
  <2>1. 1 \in 1 .. Len(r) /\ r[1] = e
    BY <1>1
  <2> QED
    BY <1>1, <1>2, <2>1, AtLemma
<1>4. ASSUME NEW x \in KeysOfList(s)
      PROVE  /\ At(s, x) \in 1 .. Len(s) /\ At(r, x) = At(s, x) + 1
             /\ r[At(r, x)] = s[At(s, x)]
  <2>1. At(s, x) \in 1 .. Len(s) /\ s[At(s, x)].key = x
    BY AtLemma
  <2>2. PICK i \in 1 .. Len(r) : i = At(s, x) + 1
    BY <1>1, <2>1
  <2>3. r[i] = s[At(s, x)]
    BY <1>1, <2>1, <2>2
  <2>4. At(r, x) = i
    <3>1. \A j \in 1 .. Len(r) : At(r, r[j].key) = j
      BY <1>1, <1>2, AtLemma
    <3> QED
      BY <2>1, <2>3, <3>1
  <2> QED
    BY <2>1, <2>2, <2>3, <2>4
<1>5. \A x \in KeysOfList(s) : Behind(r, x, e.key)
  BY <1>3, <1>4 DEF Behind
<1>6. ASSUME NEW x \in KeysOfList(s), NEW y \in KeysOfList(s)
      PROVE  Behind(r, x, y) <=> Behind(s, x, y)
  BY <1>4 DEF Behind
<1> QED
  BY <1>3, <1>4, <1>5, <1>6

\* The list has one entry for each key.
LEMMA LengthLemma ==
  ASSUME NEW s \in Seq(ListEntry), Distinct(s)
  PROVE  Cardinality(KeysOfList(s)) = Len(s)
<1> DEFINE f == [i \in 1 .. Len(s) |-> s[i].key]
<1>1. f \in Bijection(1 .. Len(s), KeysOfList(s))
  BY DEF Bijection, Injection, Surjection, IsInjective, Distinct, KeysOfList
<1>2. ExistsBijection(1 .. Len(s), KeysOfList(s))
  BY <1>1 DEF ExistsBijection
<1>3. IsFiniteSet(1 .. Len(s)) /\ Cardinality(1 .. Len(s)) = Len(s)
  <2>1. Len(s) \in Nat /\ Len(s) \in Int /\ 1 \in Int
    OBVIOUS
  <2>2. /\ IsFiniteSet(1 .. Len(s))
        /\ Cardinality(1 .. Len(s)) = IF 1 > Len(s) THEN 0 ELSE Len(s) - 1 + 1
    BY <2>1, FS_Interval
  <2> QED
    BY <2>1, <2>2
<1> QED
  BY <1>2, <1>3, FS_Bijection

\* The map and the recency order a list stands for.
DataOf(list) == [k \in KeysOfList(list) |-> list[At(list, k)].val]
OlderOf(list) ==
    {p \in KeysOfList(list) \X KeysOfList(list) : Behind(list, p[1], p[2])}

\* Erasing an entry, in terms of the map.
LEMMA EraseMap ==
  ASSUME NEW s \in Seq(ListEntry), Distinct(s), NEW p \in 1 .. Len(s)
  PROVE  /\ \A x \in KeysOfList(RemoveAt(s, p)) : DataOf(RemoveAt(s, p))[x] = DataOf(s)[x]
         /\ \A q : q \in OlderOf(RemoveAt(s, p)) <=> q \in OlderOf(s) /\ s[p].key \notin {q[1], q[2]}
<1> DEFINE r == RemoveAt(s, p)
           k == s[p].key
<1>1. KeysOfList(r) = KeysOfList(s) \ {k}
  BY EraseLemma
<1>2. \A x \in KeysOfList(r) :
         /\ r[At(r, x)].val = s[At(s, x)].val
         /\ \A y \in KeysOfList(r) : Behind(r, x, y) <=> Behind(s, x, y)
  BY EraseOrder
<1> HIDE DEF r, k
<1>3. \A x \in KeysOfList(r) : DataOf(r)[x] = DataOf(s)[x]
  BY <1>1, <1>2 DEF DataOf
<1>4. \A q : q \in OlderOf(r) <=> q \in OlderOf(s) /\ k \notin {q[1], q[2]}
  <2>1. ASSUME NEW q \in OlderOf(r) PROVE q \in OlderOf(s) /\ k \notin {q[1], q[2]}
    BY <1>1, <1>2 DEF OlderOf
  <2>2. ASSUME NEW q \in OlderOf(s), k \notin {q[1], q[2]} PROVE q \in OlderOf(r)
    BY <1>1, <1>2, <2>2 DEF OlderOf
  <2> QED
    BY <2>1, <2>2
<1> QED
  BY <1>3, <1>4 DEF r, k

\* Inserting one at the front.
LEMMA InsertMap ==
  ASSUME NEW s \in Seq(ListEntry), Distinct(s), NEW e \in ListEntry, e.key \notin KeysOfList(s)
  PROVE  /\ \A x \in KeysOfList(<<e>> \o s) :
               DataOf(<<e>> \o s)[x] = IF x = e.key THEN e.val ELSE DataOf(s)[x]
         /\ \A q : q \in OlderOf(<<e>> \o s) <=> q \in OlderOf(s) \/ q \in KeysOfList(s) \X {e.key}
<1> DEFINE r == <<e>> \o s
           k == e.key
<1>1. /\ r \in Seq(ListEntry) /\ Distinct(r) /\ KeysOfList(r) = KeysOfList(s) \cup {k}
      /\ k \notin KeysOfList(s)
  BY InsertLemma
<1>2. /\ At(r, k) = 1 /\ r[1] = e
      /\ \A x \in KeysOfList(s) :
            /\ r[At(r, x)].val = s[At(s, x)].val
            /\ Behind(r, x, k)
            /\ \A y \in KeysOfList(s) : Behind(r, x, y) <=> Behind(s, x, y)
  BY InsertOrder
<1> HIDE DEF r, k
<1>3. ASSUME NEW x \in KeysOfList(r)
      PROVE  DataOf(r)[x] = IF x = k THEN e.val ELSE DataOf(s)[x]
  <2>1. DataOf(r)[x] = r[At(r, x)].val
    BY DEF DataOf
  <2>2. CASE x = k
    BY <1>2, <2>1, <2>2
  <2>3. CASE x # k
    BY <1>1, <1>2, <2>1, <2>3 DEF DataOf
  <2> QED
    BY <2>2, <2>3
<1>4. \A x \in KeysOfList(r) : ~Behind(r, k, x)
  <2>1. \A x \in KeysOfList(r) : At(r, x) \in 1 .. Len(r)
    BY <1>1, AtLemma
  <2> QED
    BY <1>1, <1>2, <2>1 DEF Behind
<1>5. \A q : q \in OlderOf(r) <=> q \in OlderOf(s) \/ q \in KeysOfList(s) \X {k}
  <2>1. ASSUME NEW q \in OlderOf(r) PROVE q \in OlderOf(s) \/ q \in KeysOfList(s) \X {k}
    BY <1>1, <1>2, <1>4 DEF OlderOf
  <2>2. ASSUME NEW q \in OlderOf(s) PROVE q \in OlderOf(r)
    BY <1>1, <1>2 DEF OlderOf
  <2>3. ASSUME NEW q \in KeysOfList(s) \X {k} PROVE q \in OlderOf(r)
    BY <1>1, <1>2 DEF OlderOf
  <2> QED
    BY <2>1, <2>2, <2>3
<1> QED
  BY <1>3, <1>5 DEF r, k

\* The mapped variables are those of the list.
LEMMA Mapped ==
    IInv => /\ [k \in index |-> ValueOf(k)] = DataOf(lru)
            /\ {p \in index \X index : Position(p[1]) > Position(p[2])} = OlderOf(lru)
  BY DEF IInv, DataOf, OlderOf, ValueOf, Position, At, Behind

\* The same after a step.
LEMMA MappedNext ==
    IInv' => /\ [k \in index |-> ValueOf(k)]' = DataOf(lru')
             /\ {p \in index \X index : Position(p[1]) > Position(p[2])}' = OlderOf(lru')
  BY DEF IInv, DataOf, OlderOf, ValueOf, Position, At, Behind, KeysOfList

\* The keys LRUCache gives up for k: those no other key is older than.
VictimsFor(k) ==
    {x \in index : /\ k \notin index /\ Capacity # 0 /\ Cardinality(index) = Capacity
                   /\ \A y \in index : <<y, x>> \notin OlderOf(lru)}
Kept(k) == (index \ VictimsFor(k)) \cup {k}

\* The entry at the back of the list is the one key unused the longest.
LEMMA VictimLemma ==
  ASSUME IInv, NEW k \in Key \ index, Capacity # 0, Len(lru) = Capacity
  PROVE  Capacity \in 1 .. Len(lru) /\ VictimsFor(k) = {lru[Capacity].key}
<1>1. lru \in Seq(ListEntry) /\ Distinct(lru) /\ index = KeysOfList(lru)
  BY DEF IInv, TypeOK, ListEntry
<1>2. Capacity \in 1 .. Len(lru)
  BY KVStoreAssumption
<1> DEFINE w == lru[Capacity].key
<1>3. w \in index /\ At(lru, w) = Capacity
  BY <1>1, <1>2, AtLemma DEF KeysOfList
<1>4. \A x \in index : At(lru, x) \in 1 .. Len(lru) /\ lru[At(lru, x)].key = x
  BY <1>1, AtLemma
<1> HIDE DEF w
<1>5. Cardinality(index) = Capacity
  BY <1>1, LengthLemma
<1>6. ASSUME NEW y \in index PROVE <<y, w>> \notin OlderOf(lru)
  BY <1>3, <1>4 DEF OlderOf, Behind
<1>7. ASSUME NEW x \in index, x # w PROVE <<w, x>> \in OlderOf(lru)
  <2>1. At(lru, x) # Capacity
    BY <1>4, <1>7 DEF w
  <2>2. Behind(lru, w, x)
    BY <1>2, <1>3, <1>4, <2>1 DEF Behind
  <2> QED
    BY <1>1, <1>3, <2>2 DEF OlderOf
<1>8. VictimsFor(k) = {w}
  BY <1>3, <1>5, <1>6, <1>7 DEF VictimsFor
<1> QED
  BY <1>2, <1>8 DEF w

\* setLocked, in terms of the map.
LEMMA StoreMap ==
  ASSUME IInv, NEW k \in Key, NEW v \in Value, SetLocked(k, v)
  PROVE  /\ KeysOfList(lru') = Kept(k)
         /\ \A x \in Kept(k) : DataOf(lru')[x] = IF x = k THEN v ELSE DataOf(lru)[x]
         /\ \A q : q \in OlderOf(lru') <=>
                     \/ /\ q \in OlderOf(lru)
                        /\ k \notin {q[1], q[2]} /\ {q[1], q[2]} \subseteq Kept(k)
                     \/ q \in (Kept(k) \ {k}) \X {k}
<1>1. lru \in Seq(ListEntry) /\ Distinct(lru) /\ index = KeysOfList(lru)
  BY DEF IInv, TypeOK, ListEntry
<1>2. \A p \in OlderOf(lru) : p[1] \in index /\ p[2] \in index
  BY <1>1 DEF OlderOf
<1> DEFINE e == [key |-> k, val |-> v]
<1>3. e \in ListEntry /\ e.key = k /\ e.val = v
  BY DEF ListEntry
<1>4. CASE k \in index
  <2> DEFINE rest == RemoveAt(lru, Position(k))
  <2>1. Position(k) \in 1 .. Len(lru) /\ lru[Position(k)].key = k
    BY <1>4, PositionLemma
  <2>2. /\ rest \in Seq(ListEntry) /\ Distinct(rest) /\ KeysOfList(rest) = index \ {k}
    BY <1>1, <2>1, EraseLemma
  <2>3. /\ \A x \in KeysOfList(rest) : DataOf(rest)[x] = DataOf(lru)[x]
        /\ \A q : q \in OlderOf(rest) <=> q \in OlderOf(lru) /\ k \notin {q[1], q[2]}
    BY <1>1, <2>1, EraseMap
  <2>4. lru' = <<e>> \o rest
    BY <1>4 DEF SetLocked, ToFront
  <2> HIDE DEF rest, e
  <2>5. /\ KeysOfList(lru') = KeysOfList(rest) \cup {k}
        /\ \A x \in KeysOfList(lru') : DataOf(lru')[x] = IF x = k THEN v ELSE DataOf(rest)[x]
        /\ \A q : q \in OlderOf(lru') <=> q \in OlderOf(rest) \/ q \in KeysOfList(rest) \X {k}
    BY <1>3, <2>2, <2>4, InsertLemma, InsertMap
  <2>6. Kept(k) = index
    BY <1>4 DEF Kept, VictimsFor
  <2> QED
    BY <1>2, <1>4, <2>2, <2>3, <2>5, <2>6
<1>5. CASE k \notin index
  <2> DEFINE list == <<e>> \o lru
  <2>1. lru' = Evicted(list)
    BY <1>5 DEF SetLocked
  <2> HIDE DEF e
  <2>2. /\ list \in Seq(ListEntry) /\ Distinct(list) /\ Len(list) = Len(lru) + 1
        /\ KeysOfList(list) = index \cup {k}
    BY <1>1, <1>3, <1>5, InsertLemma
  <2>3. \A i \in 1 .. Len(lru) : list[i + 1] = lru[i]
    <3>1. \A i \in 1 .. Len(lru) + 1 : list[i] = IF i = 1 THEN e ELSE lru[i - 1]
      BY <1>1, <1>3, PushFrontLemma
    <3> HIDE DEF list
    <3> QED
      BY <1>1, <3>1
  <2>4. /\ \A x \in KeysOfList(list) : DataOf(list)[x] = IF x = k THEN v ELSE DataOf(lru)[x]
        /\ \A q : q \in OlderOf(list) <=> q \in OlderOf(lru) \/ q \in index \X {k}
    BY <1>1, <1>3, <1>5, InsertMap
  <2> HIDE DEF list
  <2>5. CASE Capacity # 0 /\ Len(list) > Capacity
    <3>1. Len(lru) = Capacity
      BY <1>1, <2>2, <2>5, KVStoreAssumption DEF IInv, WithinCapacity
    <3> DEFINE w == lru[Capacity].key
    <3>2. Capacity \in 1 .. Len(lru) /\ VictimsFor(k) = {w}
      BY <1>5, <2>5, <3>1, VictimLemma
    <3>3. w \in index
      BY <1>1, <3>2 DEF KeysOfList
    <3>4. Capacity + 1 \in 1 .. Len(list) /\ list[Capacity + 1].key = w
      BY <1>1, <2>2, <2>3, <3>1, <3>2
    <3>5. lru' = RemoveAt(list, Capacity + 1)
      <4> DEFINE a == SubSeq(list, 1, Capacity)
                 b == SubSeq(list, Capacity + 2, Len(list))
      <4>1. Evicted(list) = a
        BY <2>5 DEF Evicted
      <4>2. a \in Seq(ListEntry) /\ b = <<>>
        BY <1>1, <2>2, <2>5, <3>1, KVStoreAssumption, SubSeqProperties
      <4>3. RemoveAt(list, Capacity + 1) = a \o b
        <5>1. PICK m \in Nat : m = Capacity + 1
          BY KVStoreAssumption
        <5>2. RemoveAt(list, m) = SubSeq(list, 1, m - 1) \o SubSeq(list, m + 1, Len(list))
          BY DEF RemoveAt
        <5>3. m - 1 = Capacity /\ m + 1 = Capacity + 2
          BY <5>1, KVStoreAssumption
        <5> QED
          BY <5>1, <5>2, <5>3
      <4> HIDE DEF a, b
      <4> QED
        BY <2>1, <4>1, <4>2, <4>3, ConcatEmptySeq
    <3> HIDE DEF w
    <3>6. /\ KeysOfList(lru') = KeysOfList(list) \ {w}
          /\ \A x \in KeysOfList(lru') : DataOf(lru')[x] = DataOf(list)[x]
          /\ \A q : q \in OlderOf(lru') <=> q \in OlderOf(list) /\ w \notin {q[1], q[2]}
      BY <2>2, <3>4, <3>5, EraseLemma, EraseMap
    <3>7. Kept(k) = KeysOfList(list) \ {w} /\ k # w /\ Kept(k) \ {k} = index \ {w}
      BY <1>5, <2>2, <3>2, <3>3 DEF Kept
    <3>8. \A q \in index \X {k} : w \notin {q[1], q[2]} <=> q \in (Kept(k) \ {k}) \X {k}
      BY <3>7
    <3>9. \A q \in OlderOf(lru) :
            w \notin {q[1], q[2]} <=> k \notin {q[1], q[2]} /\ {q[1], q[2]} \subseteq Kept(k)
      BY <1>2, <1>5, <2>2, <3>7
    <3>10. (Kept(k) \ {k}) \X {k} \subseteq index \X {k}
      BY <3>7
    <3> QED
      BY <2>2, <2>4, <3>6, <3>7, <3>8, <3>9, <3>10
  <2>6. CASE ~(Capacity # 0 /\ Len(list) > Capacity)
    <3>1. lru' = list
      BY <2>1, <2>6 DEF Evicted
    <3>2. Cardinality(index) = Len(lru) /\ Len(lru) \in Nat
      BY <1>1, LengthLemma
    <3>3. VictimsFor(k) = {}
      BY <2>2, <2>6, <3>2, KVStoreAssumption DEF VictimsFor
    <3>4. Kept(k) = index \cup {k} /\ Kept(k) \ {k} = index
      BY <1>5, <3>3 DEF Kept
    <3> QED
      BY <1>2, <1>5, <2>2, <2>4, <3>1, <3>4
  <2> QED
    BY <2>5, <2>6
<1> QED
  BY <1>4, <1>5

\* The abstract operators, of the mapped variables.
LEMMA CacheLemma ==
  ASSUME IInv
  PROVE  /\ Cache!Present = index
         /\ \A x \in index : [y \in index |-> ValueOf(y)][x] = DataOf(lru)[x]
         /\ \A k : Cache!Victims(k) = VictimsFor(k)
         /\ \A k, S : Cache!Used(k, S) = {p \in OlderOf(lru) : k \notin {p[1], p[2]} /\ {p[1], p[2]} \subseteq S}
                                         \cup ((S \ {k}) \X {k})
<1>1. Cache!Present = index
  BY DEF Cache!Present
<1>2. /\ [k \in index |-> ValueOf(k)] = DataOf(lru)
      /\ {p \in index \X index : Position(p[1]) > Position(p[2])} = OlderOf(lru)
  BY Mapped
<1>3. ASSUME NEW k PROVE Cache!Victims(k) = VictimsFor(k)
  <2>1. Cache!Cardinality(index) = Cardinality(index)
    BY DEF Cache!Cardinality, Cardinality
  <2> QED
    BY <1>1, <1>2, <2>1 DEF Cache!Victims, VictimsFor
<1>4. ASSUME NEW k, NEW S
      PROVE  Cache!Used(k, S) = {p \in OlderOf(lru) : k \notin {p[1], p[2]} /\ {p[1], p[2]} \subseteq S}
                                \cup ((S \ {k}) \X {k})
  BY <1>2 DEF Cache!Used
<1> QED
  BY <1>1, <1>2, <1>3, <1>4

\* setLocked is the cache's Store.
LEMMA StoreRefines ==
  ASSUME IInv, IInv', NEW k \in Key, NEW v \in Value, SetLocked(k, v)
  PROVE  Cache!Store(k, v)
<1>1. /\ KeysOfList(lru') = Kept(k)
      /\ \A x \in Kept(k) : DataOf(lru')[x] = IF x = k THEN v ELSE DataOf(lru)[x]
      /\ \A q : q \in OlderOf(lru') <=>
                  \/ /\ q \in OlderOf(lru)
                     /\ k \notin {q[1], q[2]} /\ {q[1], q[2]} \subseteq Kept(k)
                  \/ q \in (Kept(k) \ {k}) \X {k}
  BY StoreMap
<1>2. /\ [x \in index |-> ValueOf(x)]' = DataOf(lru')
      /\ {p \in index \X index : Position(p[1]) > Position(p[2])}' = OlderOf(lru')
  BY MappedNext
<1>3. (Cache!Present \ Cache!Victims(k)) \cup {k} = Kept(k)
  BY CacheLemma DEF Kept
<1>4. Cache!Used(k, Kept(k)) = OlderOf(lru')
  <2>1. Cache!Used(k, Kept(k))
          = {p \in OlderOf(lru) : k \notin {p[1], p[2]} /\ {p[1], p[2]} \subseteq Kept(k)}
            \cup ((Kept(k) \ {k}) \X {k})
    BY CacheLemma, Zenon
  <2> HIDE DEF Kept
  <2> QED
    BY <1>1, <2>1
<1>5. [x \in Kept(k) |-> IF x = k THEN v ELSE [y \in index |-> ValueOf(y)][x]] = DataOf(lru')
  <2>1. \A x \in Kept(k) : x = k \/ x \in index
    BY DEF Kept
  <2>2. \A x \in Kept(k) : DataOf(lru')[x] = IF x = k THEN v ELSE [y \in index |-> ValueOf(y)][x]
    BY <1>1, <2>1, CacheLemma
  <2>3. DataOf(lru') = [x \in Kept(k) |-> DataOf(lru')[x]]
    BY <1>1 DEF DataOf
  <2> QED
    BY <2>2, <2>3
<1> QED
  BY <1>2, <1>3, <1>4, <1>5 DEF Cache!Store

\* The operations that leave the store alone.
LEMMA SameCache ==
  ASSUME UNCHANGED <<lru, index>>
  PROVE  /\ [x \in index |-> ValueOf(x)]' = [x \in index |-> ValueOf(x)]
         /\ {p \in index \X index : Position(p[1]) > Position(p[2])}'
              = {p \in index \X index : Position(p[1]) > Position(p[2])}
  BY DEF ValueOf, Position

\* get.
LEMMA GetRefines ==
  ASSUME IInv, IInv', NEW k \in Key, Get(k)
  PROVE  Cache!Get(k)
<1>1. CASE k \in index
  <2>1. ValueOf(k) \in Value
    BY <1>1, PositionLemma
  <2>2. SetLocked(k, ValueOf(k))
    BY <1>1 DEF Get, SetLocked
  <2>3. Cache!Store(k, ValueOf(k))
    BY <2>1, <2>2, StoreRefines
  <2>4. Cache!Present = index /\ Cache!Victims(k) = {}
    BY <1>1, CacheLemma DEF VictimsFor
  <2>5. (Cache!Present \ Cache!Victims(k)) \cup {k} = index
    BY <1>1, <2>4
  <2>6. {p \in index \X index : Position(p[1]) > Position(p[2])}' = Cache!Used(k, index)
    BY <2>3, <2>5 DEF Cache!Store
  <2>7. [x \in index |-> ValueOf(x)]' = [x \in index |-> ValueOf(x)]
    BY <2>3, <2>5 DEF Cache!Store
  <2>8. {[y \in index |-> ValueOf(y)][x] : x \in index \cap {k}} = {ValueOf(k)}
    BY <1>1
  <2>9. reply' = <<"get", k, {ValueOf(k)}>>
    BY <1>1 DEF Get
  <2> QED
    BY <1>1, <2>4, <2>6, <2>7, <2>8, <2>9 DEF Cache!Get
<1>2. CASE k \notin index
  <2>1. Cache!Present = index /\ index \cap {k} = {}
    BY <1>2, CacheLemma
  <2>2. reply' = <<"get", k, {}>> /\ UNCHANGED <<lru, index>>
    BY <1>2 DEF Get
  <2>3. {[y \in index |-> ValueOf(y)][x] : x \in index \cap {k}} = {}
    BY <2>1
  <2> QED
    BY <1>2, <2>1, <2>2, <2>3, SameCache DEF Cache!Get
<1> QED
  BY <1>1, <1>2

\* del.
LEMMA DelRefines ==
  ASSUME IInv, IInv', NEW k \in Key, Del(k)
  PROVE  Cache!Del(k)
<1>1. Cache!Present = index
  BY CacheLemma
<1>2. lru \in Seq(ListEntry) /\ Distinct(lru) /\ index = KeysOfList(lru)
  BY DEF IInv, TypeOK, ListEntry
<1>3. /\ [x \in index |-> ValueOf(x)] = DataOf(lru)
      /\ {p \in index \X index : Position(p[1]) > Position(p[2])} = OlderOf(lru)
  BY Mapped
<1>4. CASE k \in index
  <2>1. Position(k) \in 1 .. Len(lru) /\ lru[Position(k)].key = k
    BY <1>4, PositionLemma
  <2>2. lru' = RemoveAt(lru, Position(k)) /\ index' = index \ {k} /\ reply' = <<"del", k, TRUE>>
    BY <1>4 DEF Del
  <2>3. /\ \A x \in KeysOfList(lru') : DataOf(lru')[x] = DataOf(lru)[x]
        /\ \A q : q \in OlderOf(lru') <=> q \in OlderOf(lru) /\ k \notin {q[1], q[2]}
    BY <1>2, <2>1, <2>2, EraseMap
  <2>4. KeysOfList(lru') = index \ {k}
    BY <1>2, <2>1, <2>2, EraseLemma
  <2>5. DataOf(lru') = [x \in index \ {k} |-> DataOf(lru)[x]]
    BY <2>3, <2>4 DEF DataOf
  <2>6. /\ [x \in index |-> ValueOf(x)]' = DataOf(lru')
        /\ {p \in index \X index : Position(p[1]) > Position(p[2])}' = OlderOf(lru')
    BY MappedNext
  <2>7. OlderOf(lru') = {p \in OlderOf(lru) : k \notin {p[1], p[2]}}
    BY <2>3
  <2>8. reply' = <<"del", k, k \in index>>
    BY <1>4, <2>2
  <2> QED
    BY <1>1, <1>3, <2>5, <2>6, <2>7, <2>8 DEF Cache!Del, Cache!Restrict
<1>5. CASE k \notin index
  <2>1. UNCHANGED <<lru, index>> /\ reply' = <<"del", k, FALSE>>
    BY <1>5 DEF Del
  <2>2. reply' = <<"del", k, k \in index>>
    <3>1. (k \in index) = FALSE
      BY <1>5
    <3> QED
      BY <2>1, <3>1, Zenon
  <2>3. index \ {k} = index
    BY <1>5
  <2>4. DataOf(lru) = [x \in index |-> DataOf(lru)[x]]
    BY <1>2 DEF DataOf
  <2>5. OlderOf(lru) = {p \in OlderOf(lru) : k \notin {p[1], p[2]}}
    BY <1>2, <1>5 DEF OlderOf
  <2>6. /\ [x \in index |-> ValueOf(x)]' = [x \in index |-> ValueOf(x)]
        /\ {p \in index \X index : Position(p[1]) > Position(p[2])}'
             = {p \in index \X index : Position(p[1]) > Position(p[2])}
    BY <2>1, SameCache
  <2> QED
    BY <1>1, <1>3, <2>2, <2>3, <2>4, <2>5, <2>6 DEF Cache!Del, Cache!Restrict
<1> QED
  BY <1>4, <1>5

\* incrementBy.
LEMMA IncrementRefines ==
  ASSUME IInv, IInv', NEW k \in Key, NEW d \in Delta, IncrementBy(k, d)
  PROVE  Cache!IncrementBy(k, d)
<1> DEFINE current == IF k \in index THEN Stoll(ValueOf(k)) ELSE {0}
           cached == IF k \in Cache!Present THEN Stoll([x \in index |-> ValueOf(x)][k]) ELSE {0}
<1>1. cached = current
  BY CacheLemma
<1>2. CASE current = {} /\ reply' = <<"incr", k, d, {}>> /\ UNCHANGED <<lru, index>>
  BY <1>1, <1>2, SameCache DEF Cache!IncrementBy
<1>3. CASE \E n \in current : /\ SetLocked(k, StoredSum(n, d))
                              /\ reply' = <<"incr", k, d, {StoredSum(n, d)}>>
  <2>1. PICK n \in current : /\ SetLocked(k, StoredSum(n, d))
                             /\ reply' = <<"incr", k, d, {StoredSum(n, d)}>>
    BY <1>3
  <2>2. PICK v \in Value : n \in Stoll(v) \cup {0}
    <3>1. k \in index => ValueOf(k) \in Value
      BY PositionLemma
    <3>2. DecimalText(0) \in Value
      BY KVStoreAssumption DEF DecimalText, Value, LongLong
    <3> QED
      BY <2>1, <3>1, <3>2
  <2>3. Cache!Store(k, StoredSum(n, d))
    BY <2>1, <2>2, StoredSumType, StoreRefines
  <2> HIDE DEF current
  <2> QED
    BY <1>1, <2>1, <2>3 DEF Cache!IncrementBy
<1> QED
  BY <1>2, <1>3 DEF IncrementBy

\* size and forEach.
LEMMA SizeRefines ==
  ASSUME IInv, Size
  PROVE  Cache!Size
<1>1. Cache!Present = index
  BY CacheLemma
<1>2. Cache!Cardinality(index) = Cardinality(index)
  BY DEF Cache!Cardinality, Cardinality
<1> QED
  BY <1>1, <1>2, SameCache DEF Size, Cache!Size

\* forEach visits every key of the map once and changes nothing.
LEMMA ForEachRefines ==
  ASSUME IInv, ForEach
  PROVE  Cache!ForEach
<1>1. Cache!Present = index
  BY CacheLemma
<1>2. lru \in Seq(ListEntry) /\ Distinct(lru) /\ index = KeysOfList(lru)
  BY DEF IInv, TypeOK, ListEntry
<1>3. ToSet(lru) = {lru[i] : i \in 1 .. Len(lru)}
  BY <1>2 DEF ToSet
<1>4. [k \in index |-> ValueOf(k)] = DataOf(lru)
  BY Mapped
<1>5. ASSUME NEW i \in 1 .. Len(lru)
      PROVE  lru[i].key \in index /\ DataOf(lru)[lru[i].key] = lru[i].val
  BY <1>2, AtLemma DEF DataOf, KeysOfList
<1>6. {<<e.key, e.val>> : e \in ToSet(lru)} = {<<lru[i].key, lru[i].val>> : i \in 1 .. Len(lru)}
  BY <1>3
<1>7. {<<lru[i].key, lru[i].val>> : i \in 1 .. Len(lru)} = {<<k, DataOf(lru)[k]>> : k \in index}
  <2>1. ASSUME NEW k \in index
        PROVE  \E i \in 1 .. Len(lru) : <<k, DataOf(lru)[k]>> = <<lru[i].key, lru[i].val>>
    <3>1. PICK i \in 1 .. Len(lru) : k = lru[i].key
      BY <1>2 DEF KeysOfList
    <3> QED
      BY <1>5, <3>1
  <2>2. ASSUME NEW i \in 1 .. Len(lru)
        PROVE  \E k \in index : <<lru[i].key, lru[i].val>> = <<k, DataOf(lru)[k]>>
    BY <1>5
  <2> DEFINE listed == {<<lru[i].key, lru[i].val>> : i \in 1 .. Len(lru)}
             cached == {<<k, DataOf(lru)[k]>> : k \in index}
  <2>3. listed \subseteq cached
    BY <2>2, Zenon
  <2>4. cached \subseteq listed
    BY <2>1, Zenon
  <2> HIDE DEF listed, cached
  <2>5. listed = cached
    BY <2>3, <2>4
  <2> QED
    BY <2>5 DEF listed, cached
<1> QED
  BY <1>1, <1>4, <1>6, <1>7, SameCache DEF ForEach, Cache!ForEach

\* Every operation on the list is that operation of the cache.
LEMMA StepRefines == IInv /\ IInv' /\ [Next]_vars => [Cache!Next]_(Cache!vars)
<1> SUFFICES ASSUME IInv, IInv', [Next]_vars PROVE [Cache!Next]_(Cache!vars)
  OBVIOUS
<1>1. ASSUME NEW k \in Key, NEW v \in Value, Set(k, v) PROVE Cache!Set(k, v)
  BY <1>1, StoreRefines DEF Set, Cache!Set
<1>2. ASSUME NEW k \in Key, Exists(k) PROVE Cache!Exists(k)
  <2>1. Cache!Present = index
    BY CacheLemma
  <2> QED
    BY <1>2, <2>1, SameCache DEF Exists, Cache!Exists
<1>3. ASSUME UNCHANGED vars PROVE UNCHANGED Cache!vars
  BY <1>3, SameCache DEF vars, Cache!vars
<1>4. ASSUME Next PROVE Cache!Next
  BY <1>1, <1>2, <1>4, GetRefines, DelRefines, IncrementRefines, SizeRefines, ForEachRefines
     DEF Next, Cache!Next
<1> QED
  BY <1>3, <1>4

\* An empty list is an empty cache.
LEMMA InitRefines == Init => Cache!Init
<1> SUFFICES ASSUME Init PROVE Cache!Init
  OBVIOUS
<1>1. [k \in index |-> ValueOf(k)] = <<>>
  BY DEF Init
<1>2. {p \in index \X index : Position(p[1]) > Position(p[2])} = {}
  BY DEF Init
<1> QED
  BY <1>1, <1>2 DEF Init, Cache!Init

(* The list and index of KVStore implement LRUCache for any capacity: each *)
(* operation answers as the map does, and the entry that eviction takes    *)
(* from the back of the list is the key unused the longest.                *)
THEOREM ListImplementsLRUCache == Spec => ImplementsLRUCache
<1>1. Spec => Cache!Init
  BY InitRefines DEF Spec
<1>2. Spec => [][Cache!Next]_(Cache!vars)
  BY Invariance, StepRefines, PTL DEF Spec
<1> QED
  BY <1>1, <1>2, PTL DEF ImplementsLRUCache, Cache!Spec
=============================================================================
