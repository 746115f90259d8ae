---------------------------- MODULE RouterProofs ----------------------------
(***************************************************************************)
(* For any shards, clients, ring and faults: a request is forwarded to a   *)
(* shard of the topology, the reply a thread reads is its own, a request   *)
(* routed to the promoted replica is accepted by it, and forwarding leaves *)
(* the failover as HealthCheckerProofs has it.  Before that, what addNode  *)
(* and removeNode may move on the ring, for every hash, every number of    *)
(* nodes, virtual nodes and keys, and every ring.                          *)
(***************************************************************************)
EXTENDS Router, HealthCheckerProofs, NaturalsInduction, WellFoundedInduction,
        SequenceTheorems

-----------------------------------------------------------------------------
(* The hash ring. *)

(* First is the least element of any set of positions that is not empty.   *)
LEMMA FirstIsLeast ==
    ASSUME NEW S \in SUBSET Nat, S # {}
    PROVE  /\ First(S) \in S
           /\ \A q \in S : First(S) <= q
<1>1. PICK p \in S : \A q \in S : ~(<<q, p>> \in OpToRel(<, Nat))
  BY WFMin, NatLessThanWellFounded
<1>2. \A q \in S : ~(q < p)
  BY <1>1, Zenon DEF OpToRel
<1>3. \A q \in S : p <= q
  BY <1>2
<1>. QED
  BY <1>3 DEF First

(* The same element is first in a smaller set that still has it.           *)
LEMMA FirstOfSubset ==
    ASSUME NEW S \in SUBSET Nat, NEW T \in SUBSET S, First(S) \in T
    PROVE  First(T) = First(S)
<1>1. S # {} /\ T # {} /\ T \in SUBSET Nat
  OBVIOUS
<1>2. /\ First(S) \in S /\ \A q \in S : First(S) <= q
      /\ First(T) \in T /\ \A q \in T : First(T) <= q
  BY <1>1, FirstIsLeast
<1>3. First(S) \in Nat /\ First(T) \in Nat /\ First(T) \in S
  BY <1>2
<1>4. First(S) <= First(T) /\ First(T) <= First(S)
  BY <1>2, <1>3
<1>. QED
  BY <1>3, <1>4

\* The positions lower_bound searches, and those it falls back on.
After(P, k) == {p \in P : p >= KeyHash[k]}
Reach(P, k) == IF After(P, k) # {} THEN After(P, k) ELSE P

(* getNode returns the node at the first position of those it searches.    *)
LEMMA GetNodeIsAtFirst ==
    ASSUME NEW ring \in AnyRing, NEW k \in RingKey, DOMAIN ring # {}
    PROVE  /\ GetNode(ring, k) = ring[First(Reach(DOMAIN ring, k))]
           /\ First(Reach(DOMAIN ring, k)) \in DOMAIN ring
           /\ Reach(DOMAIN ring, k) \in SUBSET DOMAIN ring
           /\ DOMAIN ring \in SUBSET Nat
<1>1. DOMAIN ring \in SUBSET Nat
  BY HashSpaceAssumption DEF AnyRing
<1>2. Reach(DOMAIN ring, k) \in SUBSET DOMAIN ring /\ Reach(DOMAIN ring, k) # {}
  BY DEF Reach, After
<1>3. First(Reach(DOMAIN ring, k)) \in DOMAIN ring
  BY <1>1, <1>2, FirstIsLeast
<1>. QED
  BY <1>1, <1>2, <1>3 DEF GetNode, Reach, After

(* If the first position searched in a larger set is also in a smaller     *)
(* one, it is the first that is searched there.                            *)
LEMMA ReachOfSubset ==
    ASSUME NEW k \in RingKey,
           NEW P \in SUBSET Nat, NEW Q \in SUBSET P, P # {},
           First(Reach(P, k)) \in Q
    PROVE  First(Reach(Q, k)) = First(Reach(P, k))
<1>. DEFINE f == First(Reach(P, k))
<1>1. Reach(P, k) \in SUBSET Nat /\ Reach(P, k) # {}
  BY DEF Reach, After
<1>2. f \in Reach(P, k)
  BY <1>1, FirstIsLeast
<1>3. CASE After(P, k) # {}
  <2>1. f \in After(Q, k)
    BY <1>2, <1>3 DEF Reach, After
  <2>2. Reach(Q, k) = After(Q, k) /\ Reach(P, k) = After(P, k)
    BY <1>3, <2>1 DEF Reach
  <2>3. After(Q, k) \in SUBSET After(P, k)
    BY DEF After
  <2>. QED
    BY <1>1, <2>1, <2>2, <2>3, FirstOfSubset
<1>4. CASE After(P, k) = {}
  <2>1. Reach(Q, k) = Q /\ Reach(P, k) = P
    BY <1>4 DEF Reach, After
  <2>. QED
    BY <2>1, FirstOfSubset
<1>. QED
  BY <1>3, <1>4

(* Inserting and erasing a node's positions make a ring of a ring.         *)
LEMMA RingOperations ==
    ASSUME NEW ring \in AnyRing, NEW n \in RingNode
    PROVE  Inserted(ring, n) \in AnyRing /\ Erased(ring, n) \in AnyRing
<1>1. PICK P \in SUBSET HashSpace : ring \in [P -> RingNode]
  BY DEF AnyRing
<1>2. Inserted(ring, n) \in [P \cup Spots[n] -> RingNode]
  BY <1>1 DEF Inserted
<1>3. Erased(ring, n) \in [P \ Spots[n] -> RingNode]
  BY <1>1 DEF Erased
<1>4. P \cup Spots[n] \in SUBSET HashSpace /\ P \ Spots[n] \in SUBSET HashSpace
  BY HashAssumption
<1>. QED
  BY <1>2, <1>3, <1>4 DEF AnyRing

(* addNode moves keys to the new node only: the key's first position on    *)
(* the larger ring is either new or was the first one before.              *)
THEOREM AddMoves == AddMovesKeysToNewNode
<1>. SUFFICES ASSUME NEW ring \in AnyRing, NEW n \in RingNode, NEW k \in RingKey
              PROVE  GetNode(Inserted(ring, n), k) \in {GetNode(ring, k), n}
  BY DEF AddMovesKeysToNewNode
<1>. DEFINE new == Inserted(ring, n)
            f   == First(Reach(DOMAIN new, k))
<1>1. /\ new \in AnyRing
      /\ DOMAIN new = DOMAIN ring \cup Spots[n]
      /\ \A p \in DOMAIN new : new[p] = IF p \in Spots[n] THEN n ELSE ring[p]
  <2>1. new \in AnyRing
    BY RingOperations
  <2>. QED
    BY <2>1 DEF Inserted
<1>2. CASE DOMAIN new = {}
  BY <1>1, <1>2 DEF GetNode
<1>3. CASE DOMAIN new # {}
  <2>. HIDE DEF new
  <2>1. /\ GetNode(new, k) = new[f]
        /\ f \in DOMAIN new
        /\ DOMAIN new \in SUBSET Nat
    BY <1>1, <1>3, GetNodeIsAtFirst
  <2>2. CASE f \in Spots[n]
    BY <1>1, <2>1, <2>2 DEF new
  <2>3. CASE f \notin Spots[n]
    <3>1. f \in DOMAIN ring /\ new[f] = ring[f]
      BY <1>1, <2>1, <2>3
    <3>2. First(Reach(DOMAIN ring, k)) = f
      BY <1>1, <1>3, <2>1, <3>1, ReachOfSubset
    <3>3. GetNode(ring, k) = ring[f]
      BY <3>1, <3>2, GetNodeIsAtFirst
    <3>. QED
      BY <2>1, <3>1, <3>3 DEF new
  <2>. QED
    BY <2>2, <2>3
<1>. QED
  BY <1>2, <1>3

(* removeNode leaves the keys of the other nodes where they are: a key's   *)
(* first position, held by another node, is none of the erased ones.       *)
THEOREM RemoveMoves == RemoveMovesItsKeysOnly
<1>. SUFFICES ASSUME NEW ring \in AnyRing, NEW n \in RingNode, NEW k \in RingKey,
                     Owned(ring), GetNode(ring, k) # n
              PROVE  GetNode(Erased(ring, n), k) = GetNode(ring, k)
  BY DEF RemoveMovesItsKeysOnly
<1>. DEFINE new == Erased(ring, n)
            f   == First(Reach(DOMAIN ring, k))
<1>1. /\ new \in AnyRing
      /\ DOMAIN new = DOMAIN ring \ Spots[n]
      /\ \A p \in DOMAIN new : new[p] = ring[p]
  <2>1. new \in AnyRing
    BY RingOperations
  <2>. QED
    BY <2>1 DEF Erased
<1>2. CASE DOMAIN ring = {}
  BY <1>1, <1>2 DEF GetNode
<1>3. CASE DOMAIN ring # {}
  <2>. HIDE DEF new
  <2>1. /\ GetNode(ring, k) = ring[f]
        /\ f \in DOMAIN ring
        /\ DOMAIN ring \in SUBSET Nat
    BY <1>3, GetNodeIsAtFirst
  <2>2. ring[f] \in RingNode /\ ring[f] # n /\ f \in Spots[ring[f]]
    BY <2>1 DEF AnyRing, Owned
  <2>3. f \in DOMAIN new
    BY <1>1, <2>1, <2>2, NoCollision
  <2>4. First(Reach(DOMAIN new, k)) = f
    BY <1>1, <1>3, <2>1, <2>3, ReachOfSubset
  <2>5. GetNode(new, k) = new[f]
    BY <1>1, <2>3, <2>4, GetNodeIsAtFirst
  <2>. QED
    BY <1>1, <2>1, <2>3, <2>5 DEF new
<1>. QED
  BY <1>2, <1>3

(* The ring depends on its nodes and not on the calls that built it, since *)
(* the positions of different nodes are different.                         *)
THEOREM HistoryFree == RingIsHistoryFree
<1>. SUFFICES ASSUME NEW ring \in AnyRing, NEW m \in RingNode, NEW n \in RingNode
              PROVE  /\ m # n => Inserted(Inserted(ring, m), n) = Inserted(Inserted(ring, n), m)
                     /\ m # n => Erased(Inserted(ring, m), n) = Inserted(Erased(ring, n), m)
                     /\ DOMAIN ring \cap Spots[n] = {} => Erased(Inserted(ring, n), n) = ring
  BY DEF RingIsHistoryFree
<1>1. ASSUME m # n
      PROVE  Inserted(Inserted(ring, m), n) = Inserted(Inserted(ring, n), m)
  BY <1>1, NoCollision DEF Inserted
<1>2. ASSUME m # n
      PROVE  Erased(Inserted(ring, m), n) = Inserted(Erased(ring, n), m)
  BY <1>2, NoCollision DEF Inserted, Erased
<1>3. ASSUME DOMAIN ring \cap Spots[n] = {}
      PROVE  Erased(Inserted(ring, n), n) = ring
  <2>1. PICK P \in SUBSET HashSpace : ring \in [P -> RingNode]
    BY DEF AnyRing
  <2>. QED
    BY <1>3, <2>1 DEF Inserted, Erased
<1>. QED
  BY <1>1, <1>2, <1>3
-----------------------------------------------------------------------------
(* The router. *)

Roles == {"none", "primary", "replica"}
Backend == [to : Roles, link : {"closed", "live", "dead"}, holder : Client \cup {nobody},
            requests : Seq(Client), replies : Seq(Client),
            leftover : Seq(Client), full : BOOLEAN]
Thread == [pc : {"idle", "lock", "sent"}, shard : Shard, to : Roles, by : Roles,
           reply : {"none", "OK", "READONLY"}]

\* The connection of an exchange: nothing is on the wire unless a thread
\* holds the mutex, and then at most that thread's request or its reply.
Exchanging(b) ==
    /\ b.link = "closed" => b.holder = nobody
    /\ b.holder = nobody => b.requests = <<>> /\ b.replies = <<>>
    /\ b.replies \in {<<>>, <<b.holder>>}
    /\ \/ b.requests = <<>>
       \/ b.requests = <<b.holder>> /\ b.replies = <<>>

\* A backend's mutex is held by the thread that is waiting for its reply.
Held ==
    /\ \A s \in Shard :
          /\ Exchanging(backend[s])
          /\ backend[s].holder # nobody =>
                /\ thread[backend[s].holder].pc = "sent"
                /\ thread[backend[s].holder].shard = s
                /\ thread[backend[s].holder].to = backend[s].to
    /\ \A c \in Client : thread[c].pc = "sent" => backend[thread[c].shard].holder = c

\* A thread routed to a replica was routed after the failover; who answered
\* is who it was routed to.
RoutedTo(t) ==
    /\ t.pc = "idle" => t = Idle
    /\ t.to = "replica" => failedOver[t.shard]
    /\ t.reply # "none" => t.by = t.to /\ (t.to = "replica" => t.reply = "OK")
Routed == \A c \in Client : RoutedTo(thread[c])

RInv == IInv /\ TypeOK /\ Held /\ Routed

-----------------------------------------------------------------------------
(* The rings of the constructor's loop exist and satisfy its equation: by  *)
(* induction on the number of shards added, for which the least number     *)
(* that would have none is considered.                                     *)
LEMMA RingOfDef ==
    RingOf = [i \in 0 .. Len(ShardIds) |->
                 IF i = 0 THEN EmptyRing ELSE AddNode(RingOf[i - 1], ShardIds[i])]
<1> DEFINE Add(r, i) == AddNode(r, ShardIds[i])
           Loop(f, n) == f = [i \in 0 .. n |-> IF i = 0 THEN EmptyRing ELSE Add(f[i - 1], i)]
           Bad == {n \in Nat : ~ \E f : Loop(f, n)}
<1>1. Bad = {}
  <2> HIDE DEF Add
  <2>1. SUFFICES ASSUME Bad # {} PROVE FALSE
    OBVIOUS
  <2>2. PICK m \in Bad : \A n \in Bad : m <= n
    BY <2>1, FirstIsLeast
  <2>3. CASE m = 0
    <3> DEFINE g == [i \in 0 .. 0 |-> EmptyRing]
    <3>1. \A i \in 0 .. 0 : (IF i = 0 THEN EmptyRing ELSE Add(g[i - 1], i)) = EmptyRing
      OBVIOUS
    <3>2. Loop(g, 0)
      BY <3>1
    <3> QED
      BY <2>2, <2>3, <3>2
  <2>4. CASE m # 0
    <3>1. m - 1 \in Nat /\ m - 1 \notin Bad
      <4>1. m \in Nat
        OBVIOUS
      <4> HIDE DEF Bad
      <4> QED
        BY <2>2, <2>4, <4>1
    <3>2. PICK f : Loop(f, m - 1)
      BY <3>1
    <3> DEFINE g == [i \in 0 .. m |-> IF i = m THEN Add(f[m - 1], m) ELSE f[i]]
    <3>3. \A i \in 0 .. m : g[i] = IF i = 0 THEN EmptyRing ELSE Add(g[i - 1], i)
      <4> TAKE i \in 0 .. m
      <4>1. m \in Nat
        OBVIOUS
      <4>2. CASE i = m
        <5>1. m - 1 \in 0 .. m /\ m - 1 # m
          BY <2>4, <4>1
        <5> QED
          BY <2>4, <4>2, <5>1
      <4>3. CASE i # m
        <5>1. i \in 0 .. m - 1 /\ (i # 0 => i - 1 \in 0 .. m /\ i - 1 # m)
          BY <4>1, <4>3
        <5>2. f[i] = IF i = 0 THEN EmptyRing ELSE Add(f[i - 1], i)
          BY <3>2, <5>1
        <5> QED
          BY <4>3, <5>1, <5>2
      <4> QED
        BY <4>2, <4>3
    <3>4. Loop(g, m)
      BY <3>3
    <3> QED
      BY <2>2, <3>4
  <2> QED
    BY <2>3, <2>4
<1>2. Len(ShardIds) \in Nat
  BY HealthCheckerAssumption
<1>3. PICK f : Loop(f, Len(ShardIds))
  BY <1>1, <1>2
<1> QED
  BY <1>3 DEF RingOf

(* Every key has a shard: the ring is made of the shards' positions, and   *)
(* there is at least one.                                                  *)
LEMMA RingLemma ==
    /\ Ring \in AnyRing /\ DOMAIN Ring # {}
    /\ \A k \in RingKey : GetNode(Ring, k) \in Shard
<1> DEFINE Good(r) == r \in AnyRing /\ \A p \in DOMAIN r : r[p] \in Shard
           Bad == {n \in 0 .. Len(ShardIds) : ~ Good(RingOf[n].ring)}
<1>1. Len(ShardIds) \in Nat \ {0} /\ \A i \in 1 .. Len(ShardIds) : ShardIds[i] \in Shard
  BY HealthCheckerAssumption, EmptySeq DEF Shard
<1>2. \A i \in 1 .. Len(ShardIds) :
         /\ i - 1 \in 0 .. Len(ShardIds)
         /\ RingOf[i].ring = Inserted(RingOf[i - 1].ring, ShardIds[i])
  <2> TAKE i \in 1 .. Len(ShardIds)
  <2>1. i \in 0 .. Len(ShardIds) /\ i # 0 /\ i - 1 \in 0 .. Len(ShardIds)
    BY <1>1
  <2>2. RingOf[i] = AddNode(RingOf[i - 1], ShardIds[i])
    BY <2>1, RingOfDef
  <2> QED
    BY <2>1, <2>2 DEF AddNode
<1>3. Bad = {}
  <2>1. SUFFICES ASSUME Bad # {} PROVE FALSE
    OBVIOUS
  <2>2. PICK m \in Bad : \A n \in Bad : m <= n
    <3>1. Bad \in SUBSET Nat
      BY <1>1
    <3> HIDE DEF Bad
    <3> QED
      BY <2>1, <3>1, FirstIsLeast
  <2>3. CASE m = 0
    <3>1. RingOf[0].ring = [p \in {} |-> {}]
      BY <1>1, RingOfDef DEF EmptyRing
    <3>2. [p \in {} |-> {}] \in [{} -> RingNode]
      OBVIOUS
    <3> QED
      BY <2>2, <2>3, <3>1, <3>2 DEF AnyRing
  <2>4. CASE m # 0
    <3>1. m \in 1 .. Len(ShardIds) /\ m - 1 \in 0 .. Len(ShardIds) /\ m - 1 \notin Bad
      BY <1>1, <2>2, <2>4
    <3>2. ShardIds[m] \in RingNode /\ ShardIds[m] \in Shard
      BY <1>1, <3>1, RouterAssumption
    <3>3. Good(RingOf[m - 1].ring)
      BY <3>1
    <3>4. Good(Inserted(RingOf[m - 1].ring, ShardIds[m]))
      BY <3>2, <3>3, RingOperations DEF Inserted
    <3> QED
      BY <1>2, <2>2, <3>1, <3>4
  <2> QED
    BY <2>3, <2>4
<1>4. Good(Ring)
  BY <1>1, <1>3 DEF Ring
<1>5. DOMAIN Ring # {}
  <2>1. Spots[ShardIds[Len(ShardIds)]] # {}
    BY <1>1, RouterAssumption
  <2>2. Ring = Inserted(RingOf[Len(ShardIds) - 1].ring, ShardIds[Len(ShardIds)])
    BY <1>1, <1>2 DEF Ring
  <2> QED
    BY <2>1, <2>2 DEF Inserted
<1>6. \A k \in RingKey : GetNode(Ring, k) \in Shard
  BY <1>4, <1>5, GetNodeIsAtFirst
<1> QED
  BY <1>4, <1>5, <1>6

\* What the proofs use of records: the initial thread, and a connection
\* that is closed.
LEMMA RecordsLemma ==
    /\ Idle \in Thread /\ Idle.pc = "idle" /\ Idle.to = "none" /\ Idle.reply = "none"
    /\ \A b \in Backend :
          /\ Closed(b) \in Backend /\ Closed(b).to = b.to /\ Closed(b).holder = b.holder
          /\ Closed(b).requests = <<>> /\ Closed(b).replies = <<>> /\ Closed(b).link = "closed"
<1>1. ShardIds[1] \in Shard
  BY HealthCheckerAssumption, EmptySeq DEF Shard
<1>2. Idle \in Thread /\ Idle.pc = "idle" /\ Idle.to = "none" /\ Idle.reply = "none"
  BY <1>1 DEF Idle, Thread, Roles
<1>3. <<>> \in Seq(Client)
  OBVIOUS
<1> QED
  BY <1>2, <1>3 DEF Closed, Backend

\* What else of a connection a change of its link leaves alone.
LEMMA LinkLemma ==
    ASSUME NEW b \in Backend, NEW l \in {"closed", "live", "dead"}
    PROVE  LET d == [b EXCEPT !.link = l]
           IN  /\ d \in Backend /\ d.to = b.to /\ d.holder = b.holder /\ d.requests = b.requests
               /\ d.replies = b.replies /\ d.link = l
  BY DEF Backend

\* The connection forward() sends on, from one that nobody uses: it leads to
\* the address the thread has read, and nothing is on the wire.
LEMMA ConnectionLemma ==
    ASSUME NEW b \in Backend, NEW s \in Shard, NEW to \in Roles,
           b.requests = <<>>, b.replies = <<>>
    PROVE  LET c == Connection(b, s, to)
           IN  /\ c \in Backend /\ c.to = to /\ c.holder = b.holder
               /\ c.requests = <<>> /\ c.replies = <<>>
<1> DEFINE kept == IF b.to # to THEN [Closed(b) EXCEPT !.to = to] ELSE b
<1>1. /\ kept \in Backend /\ kept.to = to /\ kept.holder = b.holder
      /\ kept.requests = <<>> /\ kept.replies = <<>>
  <2>1. CASE b.to # to
    <3> DEFINE d == Closed(b)
    <3>1. d \in Backend /\ d.holder = b.holder /\ d.requests = <<>> /\ d.replies = <<>>
      BY RecordsLemma
    <3> HIDE DEF d
    <3>2. LET e == [d EXCEPT !.to = to]
          IN  /\ e \in Backend /\ e.to = to /\ e.holder = b.holder
              /\ e.requests = <<>> /\ e.replies = <<>>
      BY <3>1 DEF Backend
    <3> QED
      BY <2>1, <3>2 DEF d
  <2>2. CASE b.to = to
    BY <2>2
  <2> QED
    BY <2>1, <2>2
<1>2. Connection(b, s, to) = IF kept.link = "closed" /\ up[<<s, to>>]
                             THEN [kept EXCEPT !.link = "live"] ELSE kept
  BY DEF Connection
<1> HIDE DEF kept
<1>3. LET e == [kept EXCEPT !.link = "live"]
      IN  /\ e \in Backend /\ e.to = to /\ e.holder = b.holder
          /\ e.requests = <<>> /\ e.replies = <<>>
  BY <1>1 DEF Backend
<1> QED
  BY <1>1, <1>2, <1>3

\* What a step has to show that changes one backend and one thread.
LEMMA OneExchange ==
    ASSUME TypeOK, Held, Routed, NEW s \in Shard, NEW c \in Client,
           NEW b \in Backend, NEW t \in Thread, UNCHANGED checkerVars,
           backend' = [backend EXCEPT ![s] = b], thread' = [thread EXCEPT ![c] = t],
           backend[s].holder \in {nobody, c}, thread[c].pc = "sent" => thread[c].shard = s,
           Exchanging(b), RoutedTo(t), b.holder \in {nobody, c},
           b.holder = c <=> t.pc = "sent",
           b.holder = c => t.shard = s /\ t.to = b.to
    PROVE  TypeOK' /\ Held' /\ Routed'
<1>1. backend \in [Shard -> Backend] /\ thread \in [Client -> Thread] /\ nobody \notin Client
  BY RouterAssumption DEF TypeOK, Backend, Thread, Roles
<1>2. /\ \A r \in Shard : backend'[r] = IF r = s THEN b ELSE backend[r]
      /\ \A d \in Client : thread'[d] = IF d = c THEN t ELSE thread[d]
      /\ backend' \in [Shard -> Backend] /\ thread' \in [Client -> Thread]
  BY <1>1
<1>3. TypeOK'
  <2>1. CheckerTypeOK'
    BY DEF TypeOK, CheckerTypeOK, checkerVars, topologyVars, serverVars
  <2> QED
    BY <1>2, <2>1 DEF TypeOK, Backend, Thread, Roles
<1>4. ASSUME NEW r \in Shard
      PROVE  /\ Exchanging(backend'[r])
             /\ backend'[r].holder # nobody =>
                   /\ thread'[backend'[r].holder].pc = "sent"
                   /\ thread'[backend'[r].holder].shard = r
                   /\ thread'[backend'[r].holder].to = backend'[r].to
  <2>1. CASE r = s
    BY <1>2, <2>1
  <2>2. CASE r # s
    <3>1. backend'[r] = backend[r] /\ Exchanging(backend[r])
      BY <1>2, <2>2 DEF Held
    <3>2. ASSUME backend[r].holder # nobody
          PROVE  /\ thread'[backend[r].holder].pc = "sent"
                 /\ thread'[backend[r].holder].shard = r
                 /\ thread'[backend[r].holder].to = backend[r].to
      <4>1. /\ backend[r].holder \in Client
            /\ thread[backend[r].holder].pc = "sent" /\ thread[backend[r].holder].shard = r
            /\ thread[backend[r].holder].to = backend[r].to
        BY <1>1, <3>2 DEF Held, Backend
      <4>2. backend[r].holder # c
        BY <2>2, <4>1
      <4> QED
        BY <1>2, <4>1, <4>2
    <3> QED
      BY <3>1, <3>2
  <2> QED
    BY <2>1, <2>2
<1>5. ASSUME NEW d \in Client, thread'[d].pc = "sent"
      PROVE  backend'[thread'[d].shard].holder = d
  <2>1. CASE d = c
    BY <1>1, <1>2, <1>5, <2>1
  <2>2. CASE d # c
    <3>1. thread'[d] = thread[d] /\ thread[d].shard \in Shard
      BY <1>1, <1>2, <2>2 DEF Thread
    <3>2. backend[thread[d].shard].holder = d
      BY <1>5, <3>1 DEF Held
    <3>3. thread[d].shard # s
      BY <1>1, <2>2, <3>2
    <3> QED
      BY <1>2, <3>1, <3>2, <3>3
  <2> QED
    BY <2>1, <2>2
<1>6. Held'
  BY <1>4, <1>5 DEF Held, Exchanging
<1>7. Routed'
  <2>1. failedOver' = failedOver
    BY DEF checkerVars, topologyVars
  <2> QED
    BY <1>2, <2>1 DEF Routed, RoutedTo
<1> QED
  BY <1>3, <1>6, <1>7

-----------------------------------------------------------------------------
\* No thread in forward(), no connection open.
LEMMA RouterInit == Init => RInv
<1> SUFFICES ASSUME Init PROVE RInv
  OBVIOUS
<1>1. IInv
  BY InitInv DEF Init
<1> DEFINE b0 == [to |-> "none", link |-> "closed", holder |-> nobody,
                  requests |-> <<>>, replies |-> <<>>,
                  leftover |-> <<>>, full |-> FALSE]
<1>2. b0 \in Backend /\ Exchanging(b0) /\ b0.holder = nobody
  BY DEF Backend, Roles, Exchanging
<1>3. backend = [s \in Shard |-> b0] /\ thread = [c \in Client |-> Idle]
  BY DEF Init
<1> HIDE DEF b0
<1>4. TypeOK
  BY <1>1, <1>2, <1>3, RecordsLemma DEF IInv, TypeOK, Backend, Thread, Roles
<1>5. Held
  BY <1>2, <1>3, RecordsLemma DEF Held
<1>6. Routed
  BY <1>3, RecordsLemma DEF Routed, RoutedTo
<1> QED
  BY <1>1, <1>4, <1>5, <1>6 DEF RInv

\* A step of the checker, the servers or their operator beside forward(): the
\* latch of a shard is never released.
LEMMA CheckerStepInv ==
    ASSUME RInv, CheckerNext, UNCHANGED forwardVars
    PROVE  RInv'
<1>1. IInv'
  BY NextInv DEF RInv
<1>2. \A s \in Shard : failedOver[s] => failedOver'[s]
  <2>1. CASE Flip
    BY <2>1, CurrentLemma DEF Flip, PromoteReplica, RInv, IInv, CheckerTypeOK
  <2>2. CASE ~Flip
    <3>1. failedOver' = failedOver
      BY <2>2 DEF CheckerNext, CheckerStep, Top, PingPrimary, PingReplica, Ping, RecordPrimary,
                  RecordReplica, Promote, StopChecker, Crash, Restart, Repoint, topologyVars
    <3> QED
      BY <3>1
  <2> QED
    BY <2>1, <2>2
<1>3. UNCHANGED <<backend, thread>>
  BY DEF forwardVars
<1>4. TypeOK'
  BY <1>1, <1>3 DEF RInv, IInv, TypeOK
<1>5. Held'
  BY <1>3 DEF RInv, Held
<1>6. Routed'
  <2> SUFFICES ASSUME NEW c \in Client PROVE RoutedTo(thread[c])'
    BY DEF Routed
  <2>1. RoutedTo(thread[c]) /\ thread[c].shard \in Shard
    BY DEF RInv, Routed, TypeOK
  <2> QED
    BY <1>2, <1>3, <2>1 DEF RoutedTo
<1> QED
  BY <1>1, <1>4, <1>5, <1>6 DEF RInv

\* forward() reads the key's shard and its active address.
LEMMA RequestInv ==
    ASSUME RInv, NEW c \in Client, NEW k \in RingKey, Request(c, k)
    PROVE  RInv'
<1> DEFINE s == GetNode(Ring, k)
           t == [Idle EXCEPT !.pc = "lock", !.shard = s, !.to = active[s]]
<1>1. s \in Shard
  BY RingLemma
<1>2. /\ thread[c].pc = "idle" /\ thread' = [thread EXCEPT ![c] = t]
      /\ UNCHANGED <<checkerVars, backend>>
  BY DEF Request
<1> HIDE DEF s
<1>3. active[s] \in Roles /\ (active[s] = "replica" => failedOver[s])
  BY <1>1 DEF RInv, IInv, CheckerTypeOK, Served, Roles
<1>4. t \in Thread /\ t.pc = "lock" /\ t.shard = s /\ t.to = active[s] /\ t.reply = "none"
  BY <1>1, <1>3, RecordsLemma DEF Thread
<1> HIDE DEF t
<1>5. thread \in [Client -> Thread] /\ backend \in [Shard -> Backend] /\ nobody \notin Client
  BY RouterAssumption DEF RInv, TypeOK, Thread, Backend, Roles
<1>6. /\ \A d \in Client : thread'[d] = IF d = c THEN t ELSE thread[d]
      /\ thread' \in [Client -> Thread] /\ backend' = backend
  BY <1>2, <1>4, <1>5
<1>7. IInv'
  BY <1>2, NextInv DEF RInv
<1>8. TypeOK'
  BY <1>5, <1>6, <1>7 DEF IInv, TypeOK, Thread, Backend, Roles
<1>9. Held'
  <2>1. ASSUME NEW r \in Shard, backend[r].holder # nobody
        PROVE  thread'[backend[r].holder] = thread[backend[r].holder]
    <3>1. backend[r].holder \in Client /\ thread[backend[r].holder].pc = "sent"
      BY <1>5, <2>1 DEF RInv, Held, Backend
    <3> QED
      BY <1>2, <1>6, <3>1
  <2>2. ASSUME NEW d \in Client, thread'[d].pc = "sent"
        PROVE  thread'[d] = thread[d]
    BY <1>4, <1>6, <2>2
  <2>3. ASSUME NEW r \in Shard
        PROVE  /\ Exchanging(backend'[r])
               /\ backend'[r].holder # nobody =>
                     /\ thread'[backend'[r].holder].pc = "sent"
                     /\ thread'[backend'[r].holder].shard = r
                     /\ thread'[backend'[r].holder].to = backend'[r].to
    BY <1>6, <2>1 DEF RInv, Held
  <2>4. ASSUME NEW d \in Client, thread'[d].pc = "sent"
        PROVE  backend'[thread'[d].shard].holder = d
    BY <1>6, <2>2, <2>4 DEF RInv, Held
  <2> QED
    BY <2>3, <2>4 DEF Held
<1>10. Routed'
  <2>1. failedOver' = failedOver
    BY <1>2 DEF checkerVars, topologyVars
  <2>2. RoutedTo(t)
    BY <1>3, <1>4 DEF RoutedTo
  <2> SUFFICES ASSUME NEW d \in Client PROVE RoutedTo(thread[d])'
    BY DEF Routed
  <2>3. CASE d = c
    <3>1. thread'[d] = t
      BY <1>6, <2>3
    <3> QED
      BY <2>1, <2>2, <3>1 DEF RoutedTo
  <2>4. CASE d # c
    <3>1. thread'[d] = thread[d] /\ RoutedTo(thread[d])
      BY <1>6, <2>4 DEF RInv, Routed
    <3> QED
      BY <2>1, <3>1 DEF RoutedTo
  <2> QED
    BY <2>3, <2>4
<1> QED
  BY <1>7, <1>8, <1>9, <1>10 DEF RInv

\* The exchange under the backend's mutex.
LEMMA AcquireInv ==
    ASSUME RInv, NEW c \in Client, Acquire(c)
    PROVE  RInv'
<1> USE DEF RInv
<1> DEFINE s == thread[c].shard
           conn == Connection(backend[s], s, thread[c].to)
<1>1. /\ thread[c].pc = "lock" /\ backend[s].holder = nobody /\ UNCHANGED checkerVars
      /\ IF conn.link = "closed"
         THEN /\ backend' = [backend EXCEPT ![s] = conn]
              /\ thread' = [thread EXCEPT ![c] = Idle]
         ELSE /\ backend' = [backend EXCEPT ![s] = [conn EXCEPT !.holder = c,
                                !.requests = IF conn.link = "live" THEN Append(conn.requests, c)
                                                                   ELSE conn.requests]]
              /\ thread' = [thread EXCEPT ![c].pc = "sent"]
  BY DEF Acquire
<1>2. /\ thread[c] \in Thread /\ s \in Shard /\ backend[s] \in Backend /\ thread[c].to \in Roles
      /\ nobody \notin Client /\ RoutedTo(thread[c])
  BY RouterAssumption DEF TypeOK, Thread, Backend, Roles, Routed
<1>3. Exchanging(backend[s])
  BY <1>2 DEF Held
<1>4. /\ conn \in Backend /\ conn.to = thread[c].to /\ conn.holder = nobody
      /\ conn.requests = <<>> /\ conn.replies = <<>>
  <2>1. backend[s].requests = <<>> /\ backend[s].replies = <<>>
    BY <1>1, <1>3 DEF Exchanging
  <2>2. /\ conn \in Backend /\ conn.to = thread[c].to /\ conn.holder = backend[s].holder
        /\ conn.requests = <<>> /\ conn.replies = <<>>
    <3> HIDE DEF s
    <3> QED
      BY ONLY <1>2, <2>1, ConnectionLemma
  <2> QED
    BY <1>1, <2>2
<1>5. IInv'
  BY <1>1, NextInv
<1> HIDE DEF conn
<1>6. CASE conn.link = "closed"
  <2>1. Exchanging(conn)
    BY <1>4 DEF Exchanging
  <2>2. RoutedTo(Idle) /\ Idle \in Thread /\ Idle.pc # "sent"
    BY RecordsLemma DEF RoutedTo
  <2> QED
    BY <1>1, <1>2, <1>4, <1>5, <1>6, <2>1, <2>2, OneExchange
<1>7. CASE conn.link # "closed"
  <2> DEFINE q == IF conn.link = "live" THEN Append(conn.requests, c) ELSE conn.requests
             b == [conn EXCEPT !.holder = c, !.requests = q]
             t == [thread[c] EXCEPT !.pc = "sent"]
  <2>1. q \in {<<>>, <<c>>} /\ q \in Seq(Client)
    BY <1>4
  <2>2. backend' = [backend EXCEPT ![s] = b] /\ thread' = [thread EXCEPT ![c] = t]
    BY <1>1, <1>7
  <2> HIDE DEF q
  <2>3. /\ b \in Backend /\ b.to = thread[c].to /\ b.holder = c /\ b.replies = <<>>
        /\ b.requests = q /\ b.link = conn.link
    BY <1>4, <2>1 DEF Backend
  <2>4. /\ t \in Thread /\ t.pc = "sent" /\ t.to = thread[c].to /\ t.shard = s
        /\ t.by = thread[c].by /\ t.reply = thread[c].reply
    BY <1>2 DEF Thread
  <2> HIDE DEF b, t
  <2>5. Exchanging(b)
    BY <1>2, <1>7, <2>1, <2>3 DEF Exchanging
  <2>6. RoutedTo(t)
    BY <1>2, <2>4 DEF RoutedTo
  <2> QED
    BY <1>1, <1>2, <1>5, <2>2, <2>3, <2>4, <2>5, <2>6, OneExchange
<1> QED
  BY <1>6, <1>7

\* The server answers the holder's request, and the promoted one accepts it.
LEMMA ServeInv ==
    ASSUME RInv, NEW s \in Shard, Serve(s)
    PROVE  RInv'
<1> USE DEF RInv
<1> DEFINE b == backend[s]
           h == b.holder
<1>1. b \in Backend /\ Exchanging(b) /\ b.link = "live" /\ b.requests # <<>>
  BY DEF TypeOK, Backend, Roles, Held, Serve
<1>2. /\ h \in Client /\ b.requests = <<h>> /\ b.replies = <<>>
      /\ thread[h].pc = "sent" /\ thread[h].shard = s /\ thread[h].to = b.to
  BY <1>1 DEF Exchanging, Backend, Held
<1>3. /\ thread[h] \in Thread /\ RoutedTo(thread[h])
  BY <1>2 DEF TypeOK, Thread, Roles, Routed
<1> DEFINE answer == IF serverRole[<<s, b.to>>] = "PRIMARY" THEN "OK" ELSE "READONLY"
           d == [b EXCEPT !.requests = <<>>, !.replies = <<h>>]
           t == [thread[h] EXCEPT !.by = b.to, !.reply = answer]
<1>4. Head(b.requests) = h /\ Tail(b.requests) = <<>> /\ Append(b.replies, h) = <<h>>
  BY <1>2
<1>5. /\ backend' = [backend EXCEPT ![s] = d] /\ thread' = [thread EXCEPT ![h] = t]
      /\ UNCHANGED checkerVars
  BY <1>4 DEF Serve
<1>6. b.to = "replica" => answer = "OK"
  <2> SUFFICES ASSUME b.to = "replica" PROVE serverRole[<<s, "replica">>] = "PRIMARY"
    OBVIOUS
  <2>1. failedOver[s]
    BY <1>2, <1>3 DEF RoutedTo
  <2> QED
    BY <2>1 DEF IInv, Served, Replica
<1>7. answer \in {"OK", "READONLY"}
  OBVIOUS
<1> HIDE DEF answer
<1>8. /\ d \in Backend /\ d.requests = <<>> /\ d.replies = <<h>> /\ d.holder = h
      /\ d.to = b.to /\ d.link = "live"
  BY <1>1, <1>2 DEF Backend
<1>9. /\ t \in Thread /\ t.pc = "sent" /\ t.shard = s /\ t.to = b.to /\ t.by = b.to
      /\ t.reply = answer
  BY <1>1, <1>2, <1>3, <1>7 DEF Thread, Backend
<1> HIDE DEF d, t
<1>10. Exchanging(d)
  BY <1>2, <1>8, RouterAssumption DEF Exchanging
<1>11. RoutedTo(t)
  BY <1>2, <1>3, <1>6, <1>9 DEF RoutedTo
<1>12. IInv'
  BY <1>5, NextInv
<1> QED
  BY <1>2, <1>5, <1>8, <1>9, <1>10, <1>11, <1>12, OneExchange

\* The two ways forward() returns: with the reply, and without one.
LEMMA ReturnInv ==
    ASSUME RInv, NEW c \in Client, Receive(c) \/ Fail(c)
    PROVE  RInv'
<1> USE DEF RInv
<1> DEFINE s == thread[c].shard
           b == backend[s]
<1>1. /\ s \in Shard /\ b \in Backend /\ thread[c].pc = "sent" /\ b.holder = c
      /\ Exchanging(b) /\ nobody \notin Client
  BY RouterAssumption DEF TypeOK, Backend, Roles, Held, Receive, Fail
<1>2. IInv' /\ UNCHANGED checkerVars /\ thread' = [thread EXCEPT ![c] = Idle]
  BY NextInv DEF Receive, Fail
<1>3. RoutedTo(Idle) /\ Idle \in Thread /\ Idle.pc # "sent"
  BY RecordsLemma DEF RoutedTo
<1>4. ASSUME NEW d \in Backend, backend' = [backend EXCEPT ![s] = d], d.holder = nobody,
             d.requests = <<>>, d.replies = <<>>
      PROVE  RInv'
  <2>1. Exchanging(d)
    BY <1>4 DEF Exchanging
  <2> QED
    BY <1>1, <1>2, <1>3, <1>4, <2>1, OneExchange
<1>5. CASE Receive(c)
  <2> DEFINE d == [b EXCEPT !.replies = <<>>, !.leftover = <<>>, !.holder = nobody]
  <2>1. b.replies = <<c>> /\ b.requests = <<>>
    BY <1>1, <1>5 DEF Receive, Exchanging
  <2>2. Tail(b.replies) = <<>>
    BY <2>1
  <2>3. backend' = [backend EXCEPT ![s] = d]
    BY <1>5, <2>2 DEF Receive
  <2>4. d \in Backend /\ d.holder = nobody /\ d.requests = <<>> /\ d.replies = <<>>
    BY <1>1, <2>1 DEF Backend
  <2> HIDE DEF d
  <2> QED
    BY <1>4, <2>3, <2>4
<1>6. CASE Fail(c)
  <2>1. ASSUME NEW e \in Backend, Drop(s, e)
        PROVE  RInv'
    <3> DEFINE f == Closed(e)
               d == [f EXCEPT !.holder = nobody]
    <3>1. f \in Backend /\ f.requests = <<>> /\ f.replies = <<>>
      BY RecordsLemma
    <3>2. backend' = [backend EXCEPT ![s] = d]
      BY <2>1 DEF Drop
    <3> HIDE DEF f
    <3>3. d \in Backend /\ d.holder = nobody /\ d.requests = <<>> /\ d.replies = <<>>
      BY <3>1 DEF Backend
    <3> HIDE DEF d
    <3> QED
      BY <1>4, <3>2, <3>3
  <2>2. b.replies # <<>> => [b EXCEPT !.leftover = Relayed(b)] \in Backend
    <3> SUFFICES ASSUME b.replies # <<>> PROVE [b EXCEPT !.leftover = Relayed(b)] \in Backend
      OBVIOUS
    <3>1. b.replies = <<c>>
      BY <1>1 DEF Exchanging
    <3>2. b.leftover \in Seq(Client)
      BY <1>1 DEF Backend
    <3>3. Relayed(b) = Append(b.leftover, c)
      <4>1. Head(<<c>>) = c
        OBVIOUS
      <4> QED
        BY <3>1, <4>1, Zenon DEF Relayed
    <3>4. Relayed(b) \in Seq(Client)
      BY <3>2, <3>3
    <3>5. ASSUME NEW e \in Backend, NEW x \in Seq(Client)
          PROVE  [e EXCEPT !.leftover = x] \in Backend
      BY DEF Backend
    <3> QED
      BY <1>1, <3>4, <3>5
  <2>3. [b EXCEPT !.leftover = <<>>, !.full = TRUE] \in Backend
    <3> DEFINE e == [b EXCEPT !.leftover = <<>>]
    <3>1. <<>> \in Seq(Client)
      OBVIOUS
    <3>2. e \in Backend
      BY <1>1, <3>1 DEF Backend
    <3>3. [b EXCEPT !.leftover = <<>>, !.full = TRUE] = [e EXCEPT !.full = TRUE]
      OBVIOUS
    <3> HIDE DEF e
    <3>4. [e EXCEPT !.full = TRUE] \in Backend
      BY <3>2 DEF Backend
    <3> QED
      BY <3>3, <3>4
  <2>4. \/ Drop(s, b)
        \/ b.replies # <<>> /\ Drop(s, [b EXCEPT !.leftover = Relayed(b)])
        \/ Drop(s, [b EXCEPT !.leftover = <<>>, !.full = TRUE])
    BY <1>6 DEF Fail
  <2>5. CASE Drop(s, b)
    BY <1>1, <2>1, <2>5
  <2>6. CASE b.replies # <<>> /\ Drop(s, [b EXCEPT !.leftover = Relayed(b)])
    <3> DEFINE e == [b EXCEPT !.leftover = Relayed(b)]
    <3>1. e \in Backend /\ Drop(s, e)
      BY <2>2, <2>6
    <3> HIDE DEF e
    <3> QED
      BY <2>1, <3>1
  <2>7. CASE Drop(s, [b EXCEPT !.leftover = <<>>, !.full = TRUE])
    <3> DEFINE e == [b EXCEPT !.leftover = <<>>, !.full = TRUE]
    <3>1. e \in Backend /\ Drop(s, e)
      BY <2>3, <2>7
    <3> HIDE DEF e
    <3> QED
      BY <2>1, <3>1
  <2> QED
    BY <2>4, <2>5, <2>6, <2>7
<1> QED
  BY <1>5, <1>6

\* A server dies, and the connection to it with it.
LEMMA CrashServerInv ==
    ASSUME RInv, NEW n \in Node, CrashServer(n)
    PROVE  RInv'
<1> USE DEF RInv
<1>1. IInv' /\ UNCHANGED <<thread, failedOver>>
  BY NextInv DEF CrashServer, CheckerNext, Crash, topologyVars
<1>2. n[1] \in Shard
  BY HealthCheckerAssumption DEF Node, Primary, Replica
<1>3. backend \in [Shard -> Backend]
  BY DEF TypeOK, Backend, Roles
<1> DEFINE b == backend[n[1]]
           l == IF b.link = "live" /\ b.to = n[2] THEN "dead" ELSE b.link
           d == [b EXCEPT !.link = l]
<1>4. backend' = [backend EXCEPT ![n[1]] = d]
  BY DEF CrashServer
<1>5. l \in {"closed", "live", "dead"} /\ (l = "closed" => b.link = "closed")
  BY <1>2, <1>3 DEF Backend
<1> HIDE DEF l
<1>6. /\ d \in Backend /\ d.to = b.to /\ d.holder = b.holder /\ d.requests = b.requests
      /\ d.replies = b.replies /\ d.link = l
  <2>1. b \in Backend
    BY <1>2, <1>3
  <2> HIDE DEF b
  <2> QED
    BY <1>5, <2>1, LinkLemma
<1> HIDE DEF d
<1>7. /\ \A r \in Shard : backend'[r] = IF r = n[1] THEN d ELSE backend[r]
      /\ backend' \in [Shard -> Backend]
  BY <1>2, <1>3, <1>4, <1>6
<1>8. \A r \in Shard : /\ backend'[r].to = backend[r].to
                       /\ backend'[r].holder = backend[r].holder
                       /\ Exchanging(backend[r]) => Exchanging(backend'[r])
  BY <1>5, <1>6, <1>7 DEF Exchanging
<1>9. TypeOK'
  BY <1>1, <1>7 DEF IInv, TypeOK, Backend, Roles
<1>10. Held'
  <2>1. \A c \in Client : thread[c].shard \in Shard
    BY DEF TypeOK
  <2>2. ASSUME NEW r \in Shard
        PROVE  /\ Exchanging(backend'[r])
               /\ backend'[r].holder # nobody =>
                     /\ thread'[backend'[r].holder].pc = "sent"
                     /\ thread'[backend'[r].holder].shard = r
                     /\ thread'[backend'[r].holder].to = backend'[r].to
    BY <1>1, <1>8 DEF Held
  <2>3. ASSUME NEW c \in Client, thread'[c].pc = "sent"
        PROVE  backend'[thread'[c].shard].holder = c
    BY <1>1, <1>8, <2>1, <2>3 DEF Held
  <2> QED
    BY <2>2, <2>3 DEF Held
<1>11. Routed'
  BY <1>1 DEF Routed, RoutedTo
<1> QED
  BY <1>1, <1>9, <1>10, <1>11

\* Every step keeps the invariant.
LEMMA RouterNext == RInv /\ [Next]_vars => RInv'
<1> SUFFICES ASSUME RInv, [Next]_vars PROVE RInv'
  OBVIOUS
<1>1. CASE UNCHANGED vars
  <2>1. UNCHANGED <<checkerVars, backend, thread, failedOver>>
    BY <1>1 DEF vars, checkerVars, topologyVars
  <2>2. IInv'
    BY <2>1, NextInv DEF RInv
  <2> QED
    BY <2>1, <2>2 DEF RInv, IInv, TypeOK, Held, Routed, RoutedTo
<1>2. CASE (\E n \in Node : CrashServer(n)) \/ (\E s \in Shard : Serve(s))
            \/ \E c \in Client : ThreadStep(c) \/ \E k \in RingKey : Request(c, k)
  BY <1>2, CrashServerInv, ServeInv, AcquireInv, ReturnInv, RequestInv DEF ThreadStep
<1>3. CASE CheckerNext /\ UNCHANGED forwardVars
  BY <1>3, CheckerStepInv
<1> QED
  BY <1>1, <1>2, <1>3 DEF Next, CheckerNext

-----------------------------------------------------------------------------
(* The strengthened invariant of the router: the topology, the backends    *)
(* and the connections' threads.                                           *)
THEOREM RouterInvariance == Spec => []RInv
  BY RouterInit, RouterNext, PTL DEF Spec

(* The router's state keeps its types: in particular every key has a shard *)
(* of the topology (getNode never falls through to "").                    *)
THEOREM RouterTypeCorrect == Spec => []TypeOK
<1>1. RInv => TypeOK
  BY DEF RInv
<1> QED
  BY <1>1, RouterInvariance, PTL

(* forward() holds the backend's mutex from sendLine to receiveLine and    *)
(* closes the connection when either fails: replies do not cross, the line *)
(* it reads ends with the reply to its own request.                        *)
THEOREM RepliesAreOwn == Spec => OwnReply
<1>1. RInv /\ [Next]_vars =>
        [\A c \in Client : Receive(c) => Head(backend[thread[c].shard].replies) = c]_vars
  <2> SUFFICES ASSUME RInv, NEW c \in Client, Receive(c)
               PROVE  Head(backend[thread[c].shard].replies) = c
    OBVIOUS
  <2>1. /\ thread[c].shard \in Shard /\ backend[thread[c].shard].holder = c
        /\ backend[thread[c].shard].replies # <<>>
    BY DEF RInv, TypeOK, Held, Receive
  <2>2. backend[thread[c].shard].replies = <<c>>
    BY <2>1 DEF RInv, Held, Exchanging
  <2> QED
    BY <2>2
<1> QED
  BY <1>1, RouterInvariance, PTL DEF Spec, OwnReply

(* A thread that has read the replica's address sends to the replica and   *)
(* to nobody else, and the replica, promoted before, accepts the write.    *)
THEOREM PromotedNodeAlwaysServes == Spec => []PromotedNodeServes
<1>1. RInv => PromotedNodeServes
  BY DEF RInv, Routed, RoutedTo, PromotedNodeServes
<1> QED
  BY <1>1, RouterInvariance, PTL

(* Forwarding, and the deaths of connections with their servers, only add  *)
(* to the health checker: what the composed system does to the topology    *)
(* and the servers is what HealthChecker allows.                           *)
LEMMA RouterKeepsChecker == Spec => CheckerInit /\ [][CheckerNext]_checkerVars
<1>1. Init => CheckerInit
  BY DEF Init
<1>2. [Next]_vars => [CheckerNext]_checkerVars
  BY DEF Next, CheckerNext, vars, CrashServer, Serve, ThreadStep, Acquire, Receive, Fail, Request
<1> QED
  BY <1>1, <1>2, PTL DEF Spec

(* In the composed system, too, the node a shard's traffic goes to accepts *)
(* writes.                                                                 *)
THEOREM RouterActiveWritable == Spec => []ActiveIsWritable
<1>1. RInv => ActiveIsWritable
  BY WritableLemma DEF RInv
<1> QED
  BY <1>1, RouterInvariance, PTL

(* In the composed system, too, a shard changes hands only for a reason.   *)
THEOREM RouterFailoversJustified == Spec => FailoverIsJustified
<1>1. RInv => IInv
  BY DEF RInv
<1> QED
  BY <1>1, JustifiedLemma, RouterInvariance, RouterKeepsChecker, PTL
     DEF FailoverIsJustified, Justified
=============================================================================
