---------------------------- MODULE Replication -----------------------------
(***************************************************************************)
(* Replication (replication/, and SYNC in server_main.cpp): writers on a   *)
(* primary propagate their lines to the registered connections, a SYNC     *)
(* connection's thread registers itself and dumps the store into the same  *)
(* socket, and on the replica one link thread connects, applies what it    *)
(* reads and reconnects, until REPLICAOF stops it.                         *)
(*                                                                         *)
(* A line that reaches the replica in pieces, with bytes of other lines    *)
(* between them, is not executed: no model of what the pieces might parse  *)
(* to (an unknown command, or a SET of a key that no client wrote).        *)
(***************************************************************************)
EXTENDS Integers, SequencesExt

CONSTANTS Key, Val, None,
          Op,           \* the write commands clients send
          Conn,         \* the primary's connection threads
          MaxWrites,    \* bound on writes
          MaxSessions,  \* bound on SYNC connections
          MaxLosses,    \* bound on lost connections
          MaxCommands   \* bound on REPLICAOF commands

ASSUME ReplicationAssumption ==
    /\ Key # {} /\ Val \subseteq Int /\ None \notin Int
    /\ Op \subseteq {"SET", "DEL", "INCR", "DECR", "EXPIRE", "PERSIST"}
    /\ {MaxWrites, MaxSessions, MaxLosses, MaxCommands} \subseteq Nat

VARIABLES data,      \* the primary's store
          conn,      \* [pc, line] of each of its connection threads
          primaryUp, \* its process runs
          sessions,  \* the SYNC connections so far (see Session)
          registered,  \* ReplicaRegistry: the sessions in replicaFds_
          replica,   \* the replica's store
          role,      \* the replica's role_
          link,      \* ReplicaLink's thread: [pc, line]
          running,   \* its running_
          command,   \* [pc, next]: the REPLICAOF being executed, and its role
          writes, losses, commands  \* how many so far

primaryVars == <<data, conn, writes, primaryUp>>
replicaVars == <<replica, role, link, running, command, commands>>
vars == <<primaryVars, sessions, registered, replicaVars, losses>>

Value == Int \cup {None}  \* None: the key is not in the store

\* A command line.  n says which write it is; a dump's lines have n = 0.
Line == [n : Nat, op : Op \cup {"SET"}, key : Key, val : Value]
NoLine == [n |-> 0, op |-> "SET", key |-> CHOOSE k \in Key : TRUE, val |-> None]
Empty == [k \in Key |-> None]

\* A SYNC connection: its thread's place, the dump and the number of writes
\* it contains, the dump's lines still to send (left) and those that were not
\* sent in one piece (cut), the writes whose lines were not (mixed), the lines
\* sent whole, those of them the replica has not read, whether the socket is
\* open, and whether something was sent after its peer closed it.
Session == [pc : {"sync", "dump", "send", "watch", "ended"}, dump : [Key -> Value],
            seen : Nat, left : SUBSET Key, cut : SUBSET Key, mixed : SUBSET Nat,
            sent : SUBSET Line, stream : Seq(Line), open : BOOLEAN, reset : BOOLEAN]
NewSession == [pc |-> "sync", dump |-> Empty, seen |-> 0, left |-> {}, cut |-> {},
               mixed |-> {}, sent |-> {}, stream |-> <<>>, open |-> TRUE, reset |-> FALSE]

\* The socket is closed, or lost: what has not been read goes with it.
Closed(s) == [s EXCEPT !.open = FALSE, !.sent = {}, !.stream = <<>>]
NoCommand == [pc |-> "none", next |-> "PRIMARY"]

\* The effect of executing, or replaying, one line on the values: EXPIRE and
\* PERSIST have none.
Apply(d, l) ==
    LET number == IF d[l.key] = None THEN 0 ELSE d[l.key]
    IN  [d EXCEPT ![l.key] = CASE l.op = "SET"  -> l.val
                               [] l.op = "DEL"  -> None
                               [] l.op = "INCR" -> number + 1
                               [] l.op = "DECR" -> number - 1
                               [] OTHER         -> d[l.key]]

Init == /\ data = Empty /\ replica = Empty /\ primaryUp = TRUE
        /\ conn = [c \in Conn |-> [pc |-> "idle", line |-> NoLine]]
        /\ sessions = <<>> /\ registered = {}
        /\ role = "PRIMARY" /\ running = FALSE /\ command = NoCommand
        /\ link = [pc |-> "ended", line |-> NoLine]
        /\ writes = 0 /\ losses = 0 /\ commands = 0

-----------------------------------------------------------------------------
(* The primary's writers: execute, then ReplicaRegistry::propagate. *)

Execute(c, o, k, v) ==
    LET l == [n |-> writes + 1, op |-> o, key |-> k, val |-> v]
    IN  /\ primaryUp /\ conn[c].pc = "idle" /\ writes < MaxWrites
        /\ data' = Apply(data, l)
        /\ conn' = [conn EXCEPT ![c] = [pc |-> "propagate", line |-> l]]
        /\ writes' = writes + 1
        /\ UNCHANGED <<primaryUp, sessions, registered, replicaVars, losses>>

\* writeRaw of one line: a closed socket takes nothing, and nobody notices.
Sent(s, l) == IF s.open THEN [s EXCEPT !.sent = @ \cup {l}, !.stream = Append(@, l)]
                        ELSE [s EXCEPT !.reset = TRUE]

\* A propagated line that a SYNC thread's unfinished writeRaw gets mixed with:
\* neither the line nor the dump's lines it is mixed with arrive whole.
SentOver(s, l, mix) ==
    IF mix = {} THEN Sent(s, l)
                ELSE [s EXCEPT !.cut = @ \cup mix, !.mixed = @ \cup {l.n}]

\* The dump's lines that a line propagated now may be mixed with.
Unsent(s) == IF s.pc = "send" /\ s.open THEN s.left ELSE {}

\* The registry's mutex keeps propagated lines apart from each other, not from
\* the dump: two threads send on one socket.
Propagate(c) ==
    /\ conn[c].pc = "propagate"
    /\ \E mix \in [registered -> SUBSET Key] :
         /\ \A i \in registered : mix[i] \subseteq Unsent(sessions[i])
         /\ sessions' = [i \in DOMAIN sessions |->
                            IF i \in registered
                            THEN SentOver(sessions[i], conn[c].line, mix[i])
                            ELSE sessions[i]]
    /\ conn' = [conn EXCEPT ![c] = [pc |-> "idle", line |-> NoLine]]
    /\ UNCHANGED <<data, writes, primaryUp, registered, replicaVars, losses>>

-----------------------------------------------------------------------------
(* handleSyncConnection *)

Present == {k \in Key : data[k] # None}

\* A variant that dumps first and registers afterwards.
RegisterLate(i) ==
    /\ \/ /\ sessions[i].pc = "sync"
          /\ sessions' = [sessions EXCEPT ![i].pc = "dump"]
          /\ UNCHANGED registered
       \/ /\ sessions[i].pc = "watch" /\ i \notin registered
          /\ registered' = registered \cup {i}
          /\ UNCHANGED sessions
    /\ UNCHANGED <<primaryVars, replicaVars, losses>>

Register(i) ==
    /\ sessions[i].pc = "sync"
    /\ registered' = registered \cup {i}
    /\ sessions' = [sessions EXCEPT ![i].pc = "dump"]
    /\ UNCHANGED <<primaryVars, replicaVars, losses>>

\* SnapshotManager::save into a string, under the store's lock.
Dump(i) ==
    /\ sessions[i].pc = "dump"
    /\ sessions' = [sessions EXCEPT ![i] = [@ EXCEPT !.pc = "send", !.dump = data,
                                                    !.seen = writes, !.left = Present]]
    /\ UNCHANGED <<registered, primaryVars, replicaVars, losses>>

DumpLine(s, k) == [n |-> 0, op |-> "SET", key |-> k, val |-> s.dump[k]]

\* writeRaw of the dump, line by line: propagated lines may come in between,
\* and inside a line.
SendDump(i) ==
    /\ sessions[i].pc = "send"
    /\ \/ \E k \in sessions[i].left :
            sessions' = [sessions EXCEPT ![i] =
                [IF k \in sessions[i].cut THEN sessions[i]
                                          ELSE Sent(sessions[i], DumpLine(sessions[i], k))
                    EXCEPT !.left = sessions[i].left \ {k}]]
       \/ sessions[i].left = {} /\ sessions' = [sessions EXCEPT ![i].pc = "watch"]
    /\ UNCHANGED <<registered, primaryVars, replicaVars, losses>>

\* A write or the read loop fails: remove, and the thread ends.
Unregister(i) ==
    /\ sessions[i].pc \in {"send", "watch"} /\ ~sessions[i].open
    /\ registered' = registered \ {i}
    /\ sessions' = [sessions EXCEPT ![i] = [Closed(NewSession) EXCEPT !.pc = "ended"]]
    /\ UNCHANGED <<primaryVars, replicaVars, losses>>

(* send() without MSG_NOSIGNAL: the first one after the peer has closed is *)
(* answered with a reset, a later one raises SIGPIPE, which the process    *)
(* does not handle.  Its sockets are closed behind what has been sent; the *)
(* model does not restart it.                                              *)
BrokenPipe ==
    /\ \E i \in registered : /\ sessions[i].reset
                             /\ sessions[i].pc = "send" \/ \E c \in Conn : conn[c].pc = "propagate"
    /\ primaryUp' = FALSE
    /\ conn' = [c \in Conn |-> [pc |-> "idle", line |-> NoLine]]
    /\ sessions' = [i \in DOMAIN sessions |-> [sessions[i] EXCEPT !.pc = "ended", !.open = FALSE]]
    /\ registered' = {}
    /\ UNCHANGED <<data, writes, replicaVars, losses>>

SessionStep(i) == Register(i) \/ Dump(i) \/ SendDump(i) \/ Unregister(i)

-----------------------------------------------------------------------------
(* ReplicaLink's thread.  Its connection is the last session. *)

Current == Len(sessions)
Go(pc) == link' = [link EXCEPT !.pc = pc]

\* A variant that forgets the session with its socket, which stays registered.
CloseForgetting == sessions' = Front(sessions)

Close == sessions' = [sessions EXCEPT ![Current] = Closed(@)]

\* A variant that goes on reconnecting when it has been stopped.
ConnectAlways ==
    /\ link.pc = "connect" /\ primaryUp /\ Len(sessions) < MaxSessions
    /\ sessions' = Append(sessions, NewSession)
    /\ Go("stream")
    /\ UNCHANGED <<registered, primaryVars, replica, role, running, command, commands, losses>>

\* The loop's condition, connect and SYNC; a refused connection is retried.
Connect ==
    /\ link.pc = "connect"
    /\ \/ ~running /\ Go("ended") /\ UNCHANGED sessions
       \/ /\ running /\ primaryUp /\ Len(sessions) < MaxSessions
          /\ sessions' = Append(sessions, NewSession)
          /\ Go("stream")
    /\ UNCHANGED <<registered, primaryVars, replica, role, running, command, commands, losses>>

\* A variant that ends the link's thread with its first connection.
LeaveStreamForGood ==
    /\ link.pc = "receive"
    /\ ~sessions[Current].open /\ sessions[Current].stream = <<>>
    /\ Go("ended")
    /\ UNCHANGED <<primaryVars, sessions, registered, replica, role, running, command,
                   commands, losses>>

\* "while (running_ && receiveLine(line))": the condition, and the two ends
\* of the call.  A reader that is blocked does not look at running_.
Stream ==
    /\ link.pc = "stream"
    /\ IF running THEN Go("receive") /\ UNCHANGED sessions ELSE Go("connect") /\ Close
    /\ UNCHANGED <<primaryVars, registered, replica, role, running, command, commands, losses>>

Receive ==
    LET s == sessions[Current]
    IN  /\ link.pc = "receive" /\ s.stream # <<>>
        /\ link' = [pc |-> "apply", line |-> Head(s.stream)]
        /\ sessions' = [sessions EXCEPT ![Current].stream = Tail(@)]
        /\ UNCHANGED <<primaryVars, registered, replica, role, running, command, commands, losses>>

LeaveStream ==
    /\ link.pc = "receive"
    /\ ~sessions[Current].open /\ sessions[Current].stream = <<>>
    /\ Go("connect") /\ Close
    /\ UNCHANGED <<primaryVars, registered, replica, role, running, command, commands, losses>>

\* The apply callback.
ApplyLine ==
    /\ link.pc = "apply"
    /\ replica' = Apply(replica, link.line)
    /\ link' = [pc |-> "stream", line |-> NoLine]
    /\ UNCHANGED <<primaryVars, sessions, registered, role, running, command, commands, losses>>

LinkStep == Connect \/ Stream \/ Receive \/ LeaveStream \/ ApplyLine

-----------------------------------------------------------------------------
(* REPLICAOF on the replica: stop() the link, join its thread, then change *)
(* the role.  ReplicationManager's mutex lets in one command at a time.    *)

\* A variant that takes the new role before the link's thread has ended.
StopLinkRoleFirst(next) ==
    /\ command = NoCommand /\ commands < MaxCommands
    /\ command' = [pc |-> "close", next |-> next] /\ commands' = commands + 1
    /\ running' = FALSE
    /\ role' = next
    /\ UNCHANGED <<primaryVars, sessions, registered, replica, link, losses>>

StopLink(next) ==
    /\ command = NoCommand /\ commands < MaxCommands
    /\ command' = [pc |-> "close", next |-> next] /\ commands' = commands + 1
    /\ running' = FALSE
    /\ UNCHANGED <<primaryVars, sessions, registered, replica, role, link, losses>>

(* close() of the link's socket, under clientMutex_.  A thread about to    *)
(* read it fails and leaves the stream; one that is already blocked in     *)
(* recv() stays there, and keeps the connection, until a line or the end   *)
(* of the stream arrives.                                                  *)
CloseClient ==
    /\ command.pc = "close"
    /\ command' = [command EXCEPT !.pc = "join"]
    /\ \/ link.pc \in {"ended", "connect", "receive"} /\ UNCHANGED <<sessions, link>>
       \/ link.pc \in {"stream", "apply"} /\ Close /\ UNCHANGED link
       \/ link.pc = "receive" /\ Close /\ Go("connect")
    /\ UNCHANGED <<primaryVars, registered, replica, role, running, commands, losses>>

\* The link's thread has ended: replicaOf starts the next one.
Joined ==
    /\ command.pc = "join" /\ link.pc = "ended"
    /\ command' = NoCommand
    /\ role' = command.next
    /\ IF command.next = "REPLICA" THEN running' = TRUE /\ Go("connect")
                                   ELSE UNCHANGED <<running, link>>
    /\ UNCHANGED <<primaryVars, sessions, registered, replica, commands, losses>>

-----------------------------------------------------------------------------
\* The connection breaks.
Lose ==
    /\ losses < MaxLosses /\ sessions # <<>> /\ sessions[Current].open
    /\ losses' = losses + 1
    /\ Close
    /\ UNCHANGED <<primaryVars, registered, replicaVars>>

Next == \/ \E c \in Conn : \/ Propagate(c)
                          \/ \E o \in Op, k \in Key : \E v \in IF o = "SET" THEN Val ELSE {None} :
                                Execute(c, o, k, v)
        \/ \E i \in DOMAIN sessions : SessionStep(i)
        \/ BrokenPipe \/ LinkStep \/ Lose
        \/ \E next \in {"PRIMARY", "REPLICA"} : StopLink(next)
        \/ CloseClient \/ Joined

\* The link's thread, the SYNC connections' threads, the writers and the
\* thread that executes REPLICAOF run.
Spec == /\ Init /\ [][Next]_vars
        /\ WF_vars(LinkStep)
        /\ \A i \in 1 .. MaxSessions : WF_vars(i \in DOMAIN sessions /\ SessionStep(i))
        /\ \A c \in Conn : WF_vars(Propagate(c))
        /\ WF_vars(CloseClient \/ Joined)

-----------------------------------------------------------------------------
TypeOK ==
    /\ {data, replica} \subseteq [Key -> Value]
    /\ primaryUp \in BOOLEAN
    /\ conn \in [Conn -> [pc : {"idle", "propagate"}, line : Line]]
    /\ sessions \in Seq(Session) /\ registered \subseteq DOMAIN sessions
    /\ role \in {"PRIMARY", "REPLICA"}
    /\ command \in [pc : {"none", "close", "join"}, next : {"PRIMARY", "REPLICA"}]
    /\ link \in [pc : {"ended", "connect", "stream", "receive", "apply"}, line : Line]
    /\ running \in BOOLEAN
    /\ writes \in 0 .. MaxWrites /\ losses \in 0 .. MaxLosses /\ commands \in 0 .. MaxCommands

\* Write n has been sent on session s; it is in a writer's hands.
Carries(s, n) == \E l \in s.sent : l.n = n
InHand(n) == \E c \in Conn : conn[c].pc = "propagate" /\ conn[c].line.n = n

(* handleSyncConnection registers before it dumps.  Once the dump is out,  *)
(* each write that was ever executed is in the dump, has been sent on the  *)
(* session or is about to be, and each key of the dump has been sent: the  *)
(* only lines missing are those that dump and propagation, which send on   *)
(* one socket without a common lock, have mixed with each other.           *)
OnlyMixedLinesMissing ==
    \A i \in DOMAIN sessions :
        LET s == sessions[i]
        IN  s.pc = "watch" /\ s.open =>
            /\ \A n \in 1 .. writes :
                 n <= s.seen \/ Carries(s, n) \/ n \in s.mixed \/ InHand(n)
            /\ \A k \in Key : s.dump[k] # None => DumpLine(s, k) \in s.sent \/ k \in s.cut
            /\ s.cut = {} => s.mixed = {}

(* A replicated line is applied only by a replica: a server that has       *)
(* answered REPLICAOF NO ONE, and takes writes of its own, is never        *)
(* overwritten by its former primary, since the link is joined first.      *)
AppliesOnlyAsReplica == [][ApplyLine => role = "REPLICA"]_vars

\* The link's connection is gone.
Broken == sessions # <<>> /\ ~sessions[Current].open

(* A link whose connection breaks connects again, unless it is stopped or  *)
(* the primary's process is gone (or the model's sessions are used up).    *)
Reconnects ==
    (running /\ Broken) ~> (~running \/ ~Broken \/ ~primaryUp \/ Len(sessions) = MaxSessions)

\* The link's thread sits in recv() on a connection that brings nothing.
Blocked ==
    /\ link.pc = "receive" /\ sessions[Current].open
    /\ sessions[Current].stream = <<>>

(* REPLICAOF, which joins the link's thread under ReplicationManager's     *)
(* mutex, has nothing else to wait for than a thread blocked in recv() on  *)
(* a primary that is silent: it returns when the thread is connecting,     *)
(* applying, waiting to reconnect or about to read.                        *)
OnlyRecvBlocksReplicaOf ==
    command.pc # "none" ~> (command.pc = "none" \/ (command.pc = "join" /\ Blocked))

(* replica_link.hpp: stop() closes the client "to unblock a pending        *)
(* connect()/receiveLine()", and docs/PROTOCOL.md: REPLICAOF NO ONE answers *)
(* +OK.  Does not hold: close() does not wake a thread that is blocked in  *)
(* recv() already, and on a primary that stays silent stop() joins forever. *)
ReplicaOfReturns == command.pc # "none" ~> command.pc = "none"

(* server_main.cpp: "Registering before dumping guarantees no write        *)
(* committed after this point is ever missed by the new replica", and SET  *)
(* and DEL may safely come twice; docs/PROTOCOL.md: replaying dump and     *)
(* stream "reconstructs the same state".  When everything sent has been    *)
(* applied and no writer is busy, replica and primary agree.  Does not     *)
(* hold: a line propagated while the dump is on its way may be mixed with  *)
(* one of the dump's lines, and both are lost, or may go ahead of the      *)
(* dump's line for the same key, whose older value then overwrites it.     *)
Converges ==
    /\ link.pc = "receive" /\ sessions[Current].pc = "watch" /\ sessions[Current].open
    /\ sessions[Current].stream = <<>>
    /\ \A c \in Conn : conn[c].pc = "idle"
    => replica = data
=============================================================================
