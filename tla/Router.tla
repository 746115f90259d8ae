------------------------------- MODULE Router -------------------------------
(***************************************************************************)
(* The router's forwarding path (sharding/router.cpp) beside the failover  *)
(* of HealthChecker: connection threads share one BackendConnection per    *)
(* shard, under its mutex.  Each reads the shard's active address before   *)
(* it takes that mutex.  A request is a write to a key, whose shard the    *)
(* ring of HashRing names; the commands the router answers by itself only  *)
(* read what is modelled here.  The router forwards whatever has an        *)
(* argument: that nobody sends REPLICAOF, or SYNC with an argument,        *)
(* through it is an assumption of this model.                              *)
(***************************************************************************)
EXTENDS HealthChecker, HashRing

CONSTANTS Client, nobody

(* The shards are the ring's nodes, and each has at least one position on  *)
(* it (virtualNodesPerNode is 150 by default).                             *)
ASSUME RouterAssumption ==
    /\ Shard \subseteq RingNode /\ \A s \in Shard : Spots[s] # {}
    /\ nobody \notin Client

VARIABLES backend,  \* each shard's BackendConnection: its address, the state of
                    \* its socket, the mutex's holder, the requests and replies
                    \* on the wire (by whom asked), whose replies reader_ still
                    \* holds parts of (leftover), or that it holds more than
                    \* kMaxLineLength bytes (full)
          thread    \* each connection's thread in forward(): the shard and the
                    \* address it has read, the node that answered, the answer

\* The ring the constructor fills from the topology, shard by shard.
RingOf[i \in 0 .. Len(ShardIds)] ==
    IF i = 0 THEN EmptyRing ELSE AddNode(RingOf[i - 1], ShardIds[i])
Ring == RingOf[Len(ShardIds)].ring

forwardVars == <<backend, thread>>
vars == <<checkerVars, backend, thread>>

Idle == [pc |-> "idle", shard |-> ShardIds[1], to |-> "none", by |-> "none", reply |-> "none"]

Init ==
    /\ CheckerInit
    /\ backend = [s \in Shard |-> [to |-> "none", link |-> "closed", holder |-> nobody,
                                   requests |-> <<>>, replies |-> <<>>, leftover |-> <<>>,
                                   full |-> FALSE]]
    /\ thread = [c \in Client |-> Idle]

\* TcpClient::close: reader_ keeps what it has buffered.
Closed(b) == [b EXCEPT !.link = "closed", !.requests = <<>>, !.replies = <<>>]

-----------------------------------------------------------------------------
\* The key's shard, and activeAddressFor before the backend's mutex is taken.
Request(c, k) ==
    LET s == GetNode(Ring, k)
    IN  /\ thread[c].pc = "idle"
        /\ thread' = [thread EXCEPT ![c] =
                          [Idle EXCEPT !.pc = "lock", !.shard = s, !.to = active[s]]]
        /\ UNCHANGED <<checkerVars, backend>>

\* A variant that keeps an open connection wherever it leads.
ConnectionKept(b, s, to) ==
    IF b.link = "closed"
    THEN [b EXCEPT !.to = to, !.link = IF up[<<s, to>>] THEN "live" ELSE @]
    ELSE b

\* The connection to send on: dropped if it leads to another address, and
\* opened if there is none; it stays closed when the node refuses it.
Connection(b, s, to) ==
    LET kept == IF b.to # to THEN [Closed(b) EXCEPT !.to = to] ELSE b
    IN  IF kept.link = "closed" /\ up[<<s, to>>] THEN [kept EXCEPT !.link = "live"] ELSE kept

\* A variant that sends without waiting for the mutex.
AcquireUnlocked(c) ==
    LET s == thread[c].shard
        conn == Connection(backend[s], s, thread[c].to)
    IN  /\ thread[c].pc = "lock"
        /\ conn.link = "live"
        /\ backend' = [backend EXCEPT ![s] = [conn EXCEPT !.requests = Append(@, c)]]
        /\ thread' = [thread EXCEPT ![c].pc = "sent"]
        /\ UNCHANGED checkerVars

\* Lock, connect if need be, and sendLine; "unavailable" when no connection
\* can be had.  On a dead socket the request goes nowhere.
Acquire(c) ==
    LET s == thread[c].shard
        conn == Connection(backend[s], s, thread[c].to)
    IN  /\ thread[c].pc = "lock" /\ backend[s].holder = nobody
        /\ IF conn.link = "closed"
           THEN /\ backend' = [backend EXCEPT ![s] = conn]
                /\ thread' = [thread EXCEPT ![c] = Idle]
           ELSE /\ backend' = [backend EXCEPT ![s] = [conn EXCEPT !.holder = c,
                                  !.requests = IF conn.link = "live" THEN Append(@, c) ELSE @]]
                /\ thread' = [thread EXCEPT ![c].pc = "sent"]
        /\ UNCHANGED checkerVars

\* The server at the other end executes the request: a replica refuses writes.
Serve(s) ==
    LET b == backend[s]
        c == Head(b.requests)
        n == <<s, b.to>>
    IN  /\ b.link = "live" /\ b.requests # <<>>
        /\ backend' = [backend EXCEPT ![s].requests = Tail(@), ![s].replies = Append(@, c)]
        /\ thread' = [thread EXCEPT ![c].by = b.to,
                          ![c].reply = IF serverRole[n] = "PRIMARY" THEN "OK" ELSE "READONLY"]
        /\ UNCHANGED checkerVars

\* The line receiveLine returns and the router relays: the first reply on the
\* connection, after whatever reader_ still held.
Relayed(b) == Append(b.leftover, Head(b.replies))

\* A variant that returns without releasing the mutex.
ReceiveHolding(c) ==
    LET s == thread[c].shard
        b == backend[s]
    IN  /\ thread[c].pc = "sent" /\ b.replies # <<>> /\ ~b.full
        /\ thread' = [thread EXCEPT ![c] = Idle]
        /\ backend' = [backend EXCEPT ![s] = [b EXCEPT !.replies = Tail(@), !.leftover = <<>>]]
        /\ UNCHANGED checkerVars

\* receiveLine returns Relayed(b), which goes to the client; a reply may
\* arrive although the server has died since.
Receive(c) ==
    LET s == thread[c].shard
        b == backend[s]
    IN  /\ thread[c].pc = "sent" /\ b.replies # <<>> /\ ~b.full
        /\ thread' = [thread EXCEPT ![c] = Idle]
        /\ backend' = [backend EXCEPT ![s] = [b EXCEPT !.replies = Tail(@), !.leftover = <<>>,
                                                      !.holder = nobody]]
        /\ UNCHANGED checkerVars

\* The failed exchange's connection is closed and its mutex released.
Drop(s, b) == backend' = [backend EXCEPT ![s] = [Closed(b) EXCEPT !.holder = nobody]]

\* receiveLine gives up: "unavailable".  The connection has ended, or reader_
\* is full and nothing is read from any connection any more; a part of the
\* reply has come before the end; or the reply does not end within
\* kMaxLineLength bytes, with what reader_ held before it.
Fail(c) ==
    LET s == thread[c].shard
        b == backend[s]
    IN  /\ thread[c].pc = "sent"
        /\ \/ (b.link = "dead" \/ b.full) /\ Drop(s, b)
           \/ /\ b.link = "dead" /\ b.replies # <<>> /\ ~b.full
              /\ Drop(s, [b EXCEPT !.leftover = Relayed(b)])
           \/ /\ b.replies # <<>> /\ ~b.full
              /\ Drop(s, [b EXCEPT !.leftover = <<>>, !.full = TRUE])
        /\ thread' = [thread EXCEPT ![c] = Idle]
        /\ UNCHANGED checkerVars

\* A server's death is also the end of the connection to it.
CrashServer(n) ==
    /\ Crash(n)
    /\ backend' = [backend EXCEPT ![n[1]].link = IF @ = "live" /\ backend[n[1]].to = n[2]
                                                 THEN "dead" ELSE @]
    /\ UNCHANGED thread

-----------------------------------------------------------------------------
ThreadStep(c) == Acquire(c) \/ Receive(c) \/ Fail(c)

Next == \/ CheckerStep /\ UNCHANGED forwardVars
        \/ StopChecker /\ UNCHANGED forwardVars
        \/ \E n \in Node : CrashServer(n) \/ (Restart(n) /\ UNCHANGED forwardVars)
        \/ \E s \in Shard : (Repoint(s) /\ UNCHANGED forwardVars) \/ Serve(s)
        \/ \E c \in Client : ThreadStep(c) \/ \E k \in RingKey : Request(c, k)

\* Threads run, live servers answer, and the checker's thread runs.
Spec == /\ Init /\ [][Next]_vars
        /\ WF_vars(CheckerStep /\ PromotionAnswers /\ UNCHANGED forwardVars)
        /\ \A c \in Client : WF_vars(ThreadStep(c))
        /\ \A s \in Shard : WF_vars(Serve(s))

-----------------------------------------------------------------------------
TypeOK ==
    /\ CheckerTypeOK
    /\ backend \in [Shard -> [to : {"none", "primary", "replica"},
                              link : {"closed", "live", "dead"},
                              holder : Client \cup {nobody},
                              requests : Seq(Client), replies : Seq(Client),
                              leftover : Seq(Client), full : BOOLEAN]]
    /\ thread \in [Client -> [pc : {"idle", "lock", "sent"}, shard : Shard,
                              to : {"none", "primary", "replica"},
                              by : {"none", "primary", "replica"},
                              reply : {"none", "OK", "READONLY"}]]

(* Replies do not cross: the line a thread reads from the connection it    *)
(* shares ends with the reply to its own request, across failures,         *)
(* reconnections and failovers, since the backend's mutex covers the       *)
(* exchange and a failed one closes the socket.  What may stand before     *)
(* that reply in the line is ReplyUnmodified's subject.                    *)
OwnReply ==
    [][\A c \in Client : Receive(c) => Head(backend[thread[c].shard].replies) = c]_vars

(* docs/PROTOCOL.md: the router forwards "the exact request line", "relaying *)
(* the reply back unmodified".  Does not hold: TcpClient::close keeps the  *)
(* bytes that reader_ has of a reply whose connection broke, and the next  *)
(* reply, which may be another client's, is appended to them.              *)
ReplyUnmodified ==
    [][\A c \in Client : Receive(c) => Relayed(backend[thread[c].shard]) = <<c>>]_vars

(* A request that was routed after the failover is executed by the         *)
(* promoted replica, which accepts it, even when the old primary is back   *)
(* and the shard's connection still leads to it.                           *)
PromotedNodeServes ==
    \A c \in Client : thread[c].to = "replica" /\ thread[c].reply # "none" =>
        thread[c].by = "replica" /\ thread[c].reply = "OK"

(* The mutex of a backend is always released, whatever dies meanwhile.     *)
BackendIsReleased ==
    \A s \in Shard : backend[s].holder # nobody ~> backend[s].holder = nobody
=============================================================================
