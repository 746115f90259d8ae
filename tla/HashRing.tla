------------------------------ MODULE HashRing ------------------------------
(***************************************************************************)
(* ConsistentHashRing (sharding/consistent_hash_ring.cpp): ring_ maps      *)
(* positions to nodes and a key belongs to the first node at or after its  *)
(* hash, around the ring.  The 64-bit hash is uninterpreted: the positions *)
(* of a node's virtual nodes and the hash of a key are constants.          *)
(***************************************************************************)
EXTENDS Integers, Sequences

CONSTANTS RingNode, RingKey,
          HashSpace,   \* the hash values, a set of natural numbers
          Spots,       \* the positions of a node's virtual nodes
          KeyHash      \* the hash of a key

ASSUME HashSpaceAssumption == HashSpace \subseteq Nat

ASSUME HashAssumption == /\ Spots \in [RingNode -> SUBSET HashSpace]
                         /\ KeyHash \in [RingKey -> HashSpace]

(* No two nodes' virtual nodes collide in the 64-bit hash space.           *)
ASSUME NoCollision == \A m, n \in RingNode : m # n => Spots[m] \cap Spots[n] = {}

EmptyRing == [ring |-> [p \in {} |-> {}], nodes |-> <<>>]

Inserted(ring, n) ==
    [p \in DOMAIN ring \cup Spots[n] |-> IF p \in Spots[n] THEN n ELSE ring[p]]

Erased(ring, n) == [p \in DOMAIN ring \ Spots[n] |-> ring[p]]

AddNode(r, n) == [ring |-> Inserted(r.ring, n), nodes |-> Append(r.nodes, n)]

RemoveNode(r, n) == [ring |-> Erased(r.ring, n),
                     nodes |-> SelectSeq(r.nodes, LAMBDA m : m # n)]

First(S) == CHOOSE p \in S : \A q \in S : p <= q

\* lower_bound, wrapping around past the highest position.
GetNode(ring, k) ==
    LET after == {p \in DOMAIN ring : p >= KeyHash[k]}
    IN  IF DOMAIN ring = {} THEN ""
        ELSE ring[First(IF after # {} THEN after ELSE DOMAIN ring)]

-----------------------------------------------------------------------------
AnyRing == UNION {[P -> RingNode] : P \in SUBSET HashSpace}

\* The rings addNode and removeNode build: every node at positions of its own.
Owned(ring) == \A p \in DOMAIN ring : p \in Spots[ring[p]]

(* addNode takes keys over for the new node only: no key moves from one    *)
(* old node to another, whatever is on the ring.                           *)
AddMovesKeysToNewNode ==
    \A ring \in AnyRing, n \in RingNode, k \in RingKey :
        GetNode(Inserted(ring, n), k) \in {GetNode(ring, k), n}

(* removeNode moves the keys of the removed node only, as long as nodes    *)
(* hold positions of their own.                                            *)
RemoveMovesItsKeysOnly ==
    \A ring \in AnyRing, n \in RingNode, k \in RingKey :
        Owned(ring) /\ GetNode(ring, k) # n => GetNode(Erased(ring, n), k) = GetNode(ring, k)

(* Where a key goes depends on the nodes on the ring and not on the calls  *)
(* that put them there: two routers that list the shards in different      *)
(* orders agree, and a node that was added and removed leaves no trace.    *)
RingIsHistoryFree ==
    \A ring \in AnyRing, m, n \in RingNode :
        /\ m # n => Inserted(Inserted(ring, m), n) = Inserted(Inserted(ring, n), m)
        /\ m # n => Erased(Inserted(ring, m), n) = Inserted(Erased(ring, n), m)
        /\ DOMAIN ring \cap Spots[n] = {} => Erased(Inserted(ring, n), n) = ring
=============================================================================
