------------------------- MODULE ReplicationProofs --------------------------
(***************************************************************************)
(* For any keys, values, commands, writers, sessions and losses: a session *)
(* that has sent its dump has sent every write, but for the lines that     *)
(* were mixed with the dump's, and a line is applied only by a server that *)
(* is a replica.                                                           *)
(***************************************************************************)
EXTENDS Replication, SequenceTheorems, TLAPS

\* Where a SYNC connection's thread is tells whether it is registered and
\* what is left of its dump; a line is mixed with lines of the dump only.
Streams ==
    \A i \in DOMAIN sessions :
        /\ sessions[i].pc \in {"dump", "send", "watch"} => i \in registered
        /\ sessions[i].pc = "watch" => sessions[i].left = {}
        /\ sessions[i].cut = {} => sessions[i].mixed = {}

\* The dump's lines are sent, cut or still to be sent.
DumpSent(s) == \A k \in Key : s.dump[k] # None => DumpLine(s, k) \in s.sent \/ k \in s.cut \/ k \in s.left

\* From its dump on, a session that is open has been or will be sent every
\* write that the dump does not contain, unless it was mixed with the dump.
Covered ==
    \A i \in DOMAIN sessions :
        sessions[i].pc \in {"send", "watch"} /\ sessions[i].open =>
            /\ DumpSent(sessions[i])
            /\ \A n \in 1 .. writes : \/ n <= sessions[i].seen \/ Carries(sessions[i], n)
                                      \/ n \in sessions[i].mixed \/ InHand(n)

\* The link's thread runs on a replica only, and streams from a session.
Linked ==
    /\ link.pc # "ended" => role = "REPLICA"
    /\ link.pc \in {"stream", "receive", "apply"} => sessions # <<>>

IInv == TypeOK /\ Streams /\ Covered /\ Linked

-----------------------------------------------------------------------------
\* Lines, stores, a new session, and what executing a line does to a store.
LEMMA LineLemma ==
    /\ NoLine \in Line
    /\ Empty \in [Key -> Value]
    /\ NewSession \in Session /\ Closed(NewSession) \in Session
    /\ \A d \in [Key -> Value], l \in Line : Apply(d, l) \in [Key -> Value]
<1>1. (CHOOSE k \in Key : TRUE) \in Key
  BY ReplicationAssumption
<1>2. Empty \in [Key -> Value]
  BY DEF Empty, Value
<1>3. NoLine \in Line
  BY <1>1 DEF NoLine, Line, Value
<1>4. NewSession \in Session /\ Closed(NewSession) \in Session
  <2>1. <<>> \in Seq(Line) /\ {} \subseteq Line
    OBVIOUS
  <2>2. NewSession \in Session
    BY <1>2, <2>1 DEF NewSession, Session
  <2>3. \A s \in Session : Closed(s) \in Session
    BY <2>1 DEF Closed, Session
  <2> QED
    BY <2>2, <2>3
<1>5. ASSUME NEW d \in [Key -> Value], NEW l \in Line
      PROVE  Apply(d, l) \in [Key -> Value]
  <2> DEFINE number == IF d[l.key] = None THEN 0 ELSE d[l.key]
             v == CASE l.op = "SET"  -> l.val
                    [] l.op = "DEL"  -> None
                    [] l.op = "INCR" -> number + 1
                    [] l.op = "DECR" -> number - 1
                    [] OTHER         -> d[l.key]
  <2>1. l.key \in Key /\ l.val \in Value
    BY DEF Line
  <2>2. number \in Int
    BY <2>1 DEF Value
  <2>3. v \in Value
    BY <2>1, <2>2 DEF Value
  <2>4. Apply(d, l) = [d EXCEPT ![l.key] = v]
    BY DEF Apply
  <2> HIDE DEF v
  <2> QED
    BY <2>1, <2>3, <2>4
<1> QED
  BY <1>2, <1>3, <1>4, <1>5

\* The sessions as a sequence of records.
LEMMA SessionsLemma ==
    ASSUME TypeOK
    PROVE  /\ sessions \in Seq(Session) /\ Len(sessions) \in Nat
           /\ DOMAIN sessions = 1 .. Len(sessions)
           /\ \A i \in DOMAIN sessions : sessions[i] \in Session
           /\ sessions # <<>> => Current \in DOMAIN sessions
<1>1. sessions \in Seq(Session)
  BY DEF TypeOK
<1>2. Len(sessions) \in Nat /\ DOMAIN sessions = 1 .. Len(sessions)
  BY <1>1
<1>3. \A i \in DOMAIN sessions : sessions[i] \in Session
  BY <1>1, <1>2, ElementOfSeq
<1>4. sessions # <<>> => Len(sessions) # 0
  BY <1>1
<1> QED
  BY <1>1, <1>2, <1>3, <1>4 DEF Current

\* What a step has to show that changes one session and no data.
LEMMA OneSession ==
    ASSUME TypeOK, Streams, Covered, NEW i \in DOMAIN sessions, NEW t \in Session,
           sessions' = [sessions EXCEPT ![i] = t], UNCHANGED <<writes, conn>>,
           registered' \subseteq DOMAIN sessions,
           \A j \in DOMAIN sessions : j # i /\ j \in registered => j \in registered',
           t.pc \in {"dump", "send", "watch"} => i \in registered',
           t.pc = "watch" => t.left = {},
           t.cut = {} => t.mixed = {},
           t.pc \in {"send", "watch"} /\ t.open =>
               /\ DumpSent(t)
               /\ \A n \in 1 .. writes : n <= t.seen \/ Carries(t, n) \/ n \in t.mixed \/ InHand(n)
    PROVE  /\ sessions' \in Seq(Session) /\ registered' \subseteq DOMAIN sessions'
           /\ Streams' /\ Covered' /\ sessions' # <<>>
<1>1. /\ sessions \in Seq(Session) /\ Len(sessions) \in Nat
      /\ DOMAIN sessions = 1 .. Len(sessions)
  BY SessionsLemma
<1>2. /\ sessions' \in Seq(Session) /\ Len(sessions') = Len(sessions)
      /\ \A j \in 1 .. Len(sessions) : sessions'[j] = IF j = i THEN t ELSE sessions[j]
  BY <1>1, ExceptSeq
<1>3. DOMAIN sessions' = DOMAIN sessions
  BY <1>1, <1>2
<1>4. sessions' # <<>>
  BY <1>1, <1>2
<1>5. Streams'
  BY <1>1, <1>2, <1>3 DEF Streams
<1>6. Covered'
  <2> SUFFICES ASSUME NEW j \in DOMAIN sessions,
                      sessions'[j].pc \in {"send", "watch"}, sessions'[j].open
               PROVE  /\ DumpSent(sessions'[j])
                      /\ \A n \in 1 .. writes : \/ n <= sessions'[j].seen \/ Carries(sessions'[j], n)
                                                \/ n \in sessions'[j].mixed \/ InHand(n)
    <3>1. \A n : InHand(n)' <=> InHand(n)
      BY DEF InHand
    <3> QED
      BY <1>3, <3>1 DEF Covered, Carries, DumpSent, DumpLine
  <2>2. CASE j = i
    BY <1>1, <1>2, <2>2
  <2>3. CASE j # i
    BY <1>1, <1>2, <2>3 DEF Covered
  <2> QED
    BY <2>2, <2>3
<1> QED
  BY <1>2, <1>3, <1>4, <1>5, <1>6

\* Nothing connected, nothing written.
LEMMA InitInv == Init => IInv
<1> SUFFICES ASSUME Init PROVE IInv
  OBVIOUS
<1>1. TypeOK
  <2>1. {data, replica} \subseteq [Key -> Value]
    BY LineLemma DEF Init
  <2>2. conn \in [Conn -> [pc : {"idle", "propagate"}, line : Line]]
    BY LineLemma DEF Init
  <2>3. link \in [pc : {"ended", "connect", "stream", "receive", "apply"}, line : Line]
    BY LineLemma DEF Init
  <2>4. command \in [pc : {"none", "close", "join"}, next : {"PRIMARY", "REPLICA"}]
    BY DEF Init, NoCommand
  <2>5. sessions = <<>> /\ registered \subseteq DOMAIN sessions
    BY DEF Init
  <2>6. running \in BOOLEAN /\ role \in {"PRIMARY", "REPLICA"} /\ primaryUp \in BOOLEAN
    BY DEF Init
  <2>7. writes \in 0 .. MaxWrites /\ losses \in 0 .. MaxLosses /\ commands \in 0 .. MaxCommands
    BY ReplicationAssumption DEF Init
  <2> QED
    BY <2>1, <2>2, <2>3, <2>4, <2>5, <2>6, <2>7 DEF TypeOK
<1>2. Streams /\ Covered /\ Linked
  BY DEF Init, Streams, Covered, Linked
<1> QED
  BY <1>1, <1>2 DEF IInv

\* The writers' steps: a write that has been executed is in its writer's hands.
LEMMA ExecuteInv ==
    ASSUME IInv, NEW c \in Conn, NEW o \in Op, NEW k \in Key, NEW v \in Value, Execute(c, o, k, v)
    PROVE  IInv'
<1> USE DEF IInv
<1> DEFINE l == [n |-> writes + 1, op |-> o, key |-> k, val |-> v]
<1>1. writes \in Nat /\ writes' = writes + 1 /\ writes' \in 0 .. MaxWrites
  BY ReplicationAssumption DEF Execute, TypeOK
<1>2. l \in Line /\ l.n = writes + 1
  BY <1>1 DEF Line
<1>3. /\ data' = Apply(data, l) /\ conn[c].pc = "idle"
      /\ conn' = [conn EXCEPT ![c] = [pc |-> "propagate", line |-> l]]
      /\ UNCHANGED <<primaryUp, sessions, registered, replicaVars, losses>>
  BY DEF Execute
<1> HIDE DEF l
<1>4. data' \in [Key -> Value]
  BY <1>2, <1>3, LineLemma DEF TypeOK
<1>5. TypeOK'
  <2>1. conn' \in [Conn -> [pc : {"idle", "propagate"}, line : Line]]
    BY <1>2, <1>3 DEF TypeOK
  <2> QED
    BY <1>1, <1>3, <1>4, <2>1 DEF TypeOK, replicaVars
<1>6. Streams' /\ Linked'
  BY <1>3 DEF Streams, Linked, replicaVars
<1>7. Covered'
  <2> SUFFICES ASSUME NEW i \in DOMAIN sessions,
                      sessions[i].pc \in {"send", "watch"}, sessions[i].open
               PROVE  /\ DumpSent(sessions[i])
                      /\ \A n \in 1 .. writes' : \/ n <= sessions[i].seen \/ Carries(sessions[i], n)
                                                 \/ n \in sessions[i].mixed \/ InHand(n)'
    BY <1>3 DEF Covered, Carries, DumpSent, DumpLine
  <2>1. conn'[c].pc = "propagate" /\ conn'[c].line.n = writes + 1
    BY <1>2, <1>3 DEF TypeOK
  <2>2. ASSUME NEW n, n = writes + 1 PROVE InHand(n)'
    BY <2>1, <2>2 DEF InHand
  <2>3. ASSUME NEW n, InHand(n) PROVE InHand(n)'
    <3>1. PICK d \in Conn : conn[d].pc = "propagate" /\ conn[d].line.n = n
      BY <2>3 DEF InHand
    <3>2. d # c
      BY <1>3, <3>1
    <3>3. conn'[d] = conn[d]
      BY <1>3, <3>2 DEF TypeOK
    <3> QED
      BY <3>1, <3>3 DEF InHand
  <2>4. ASSUME NEW n \in 1 .. writes'
        PROVE  \/ n <= sessions[i].seen \/ Carries(sessions[i], n)
               \/ n \in sessions[i].mixed \/ InHand(n)'
    <3>1. n = writes + 1 \/ n \in 1 .. writes
      BY <1>1
    <3> QED
      BY <2>2, <2>3, <3>1 DEF Covered
  <2> QED
    BY <2>4 DEF Covered
<1> QED
  BY <1>5, <1>6, <1>7

\* What a session that is sent a line becomes.
LEMMA SentLemma ==
    ASSUME NEW s \in Session, NEW l \in Line
    PROVE  /\ Sent(s, l) \in Session
           /\ Sent(s, l).pc = s.pc /\ Sent(s, l).open = s.open /\ Sent(s, l).dump = s.dump
           /\ Sent(s, l).seen = s.seen /\ Sent(s, l).left = s.left
           /\ Sent(s, l).cut = s.cut /\ Sent(s, l).mixed = s.mixed
           /\ s.sent \subseteq Sent(s, l).sent
           /\ s.open => l \in Sent(s, l).sent
<1>1. CASE ~s.open
  <2>1. Sent(s, l) = [s EXCEPT !.reset = TRUE]
    BY <1>1 DEF Sent
  <2> QED
    BY <1>1, <2>1 DEF Session
<1>2. CASE s.open
  <2> DEFINE a == Append(s.stream, l)
             b == s.sent \cup {l}
  <2>1. a \in Seq(Line) /\ b \in SUBSET Line
    BY AppendProperties DEF Session
  <2>2. Sent(s, l) = [s EXCEPT !.sent = b, !.stream = a]
    BY <1>2 DEF Sent
  <2>3. s.sent \subseteq b /\ l \in b
    OBVIOUS
  <2> HIDE DEF a, b
  <2>4. /\ Sent(s, l) \in Session /\ Sent(s, l).sent = b
        /\ Sent(s, l).pc = s.pc /\ Sent(s, l).open = s.open /\ Sent(s, l).dump = s.dump
        /\ Sent(s, l).seen = s.seen /\ Sent(s, l).left = s.left
        /\ Sent(s, l).cut = s.cut /\ Sent(s, l).mixed = s.mixed
    BY <2>1, <2>2 DEF Session
  <2> QED
    BY <2>3, <2>4
<1> QED
  BY <1>1, <1>2 DEF Session

\* What a session becomes that a line is propagated to, whole or mixed with
\* lines of the dump: what was owed to it is owed to it still, but the line.
LEMMA SentOverLemma ==
    ASSUME NEW s \in Session, NEW l \in Line, NEW mix \in SUBSET Key
    PROVE  LET t == SentOver(s, l, mix)
           IN  /\ t \in Session
               /\ t.pc = s.pc /\ t.open = s.open /\ t.seen = s.seen /\ t.left = s.left
               /\ (s.cut = {} => s.mixed = {}) => (t.cut = {} => t.mixed = {})
               /\ DumpSent(s) => DumpSent(t)
               /\ \A n : Carries(s, n) \/ n \in s.mixed => Carries(t, n) \/ n \in t.mixed
               /\ s.open => Carries(t, l.n) \/ l.n \in t.mixed
<1> DEFINE t == SentOver(s, l, mix)
<1>1. CASE mix = {}
  <2>1. t = Sent(s, l)
    BY <1>1 DEF SentOver
  <2> HIDE DEF t
  <2>2. /\ t \in Session /\ t.pc = s.pc /\ t.open = s.open /\ t.seen = s.seen /\ t.left = s.left
        /\ t.dump = s.dump /\ t.cut = s.cut /\ t.mixed = s.mixed
        /\ s.sent \subseteq t.sent
        /\ s.open => l \in t.sent
    BY <2>1, SentLemma
  <2>3. DumpSent(s) => DumpSent(t)
    BY <2>2 DEF DumpSent, DumpLine
  <2>4. /\ \A n : Carries(s, n) => Carries(t, n)
        /\ s.open => Carries(t, l.n)
    BY <2>2 DEF Carries
  <2> QED
    BY <2>2, <2>3, <2>4 DEF t
<1>2. CASE mix # {}
  <2> DEFINE c == s.cut \cup mix
             m == s.mixed \cup {l.n}
  <2>1. t = [s EXCEPT !.cut = c, !.mixed = m]
    BY <1>2 DEF SentOver
  <2>2. c \in SUBSET Key /\ m \in SUBSET Nat /\ c # {} /\ s.cut \subseteq c /\ s.mixed \subseteq m /\ l.n \in m
    BY <1>2 DEF Session, Line
  <2> HIDE DEF c, m, t
  <2>3. /\ t \in Session /\ t.pc = s.pc /\ t.open = s.open /\ t.seen = s.seen /\ t.left = s.left
        /\ t.dump = s.dump /\ t.cut = c /\ t.mixed = m /\ t.sent = s.sent
    BY <2>1, <2>2 DEF Session
  <2>4. DumpSent(s) => DumpSent(t)
    BY <2>2, <2>3 DEF DumpSent, DumpLine
  <2>5. \A n : Carries(s, n) => Carries(t, n)
    BY <2>3 DEF Carries
  <2> QED
    BY <2>2, <2>3, <2>4, <2>5 DEF t
<1> QED
  BY <1>1, <1>2

\* Propagating hands the line to every registered session that is open.
LEMMA PropagateInv ==
    ASSUME IInv, NEW c \in Conn, Propagate(c)
    PROVE  IInv'
<1> USE DEF IInv
<1> DEFINE l == conn[c].line
<1>1. l \in Line
  BY DEF TypeOK
<1>2. /\ sessions \in Seq(Session) /\ Len(sessions) \in Nat
      /\ DOMAIN sessions = 1 .. Len(sessions)
      /\ \A i \in DOMAIN sessions : sessions[i] \in Session
  BY SessionsLemma
<1>3. /\ conn' = [conn EXCEPT ![c] = [pc |-> "idle", line |-> NoLine]]
      /\ UNCHANGED <<data, writes, primaryUp, registered, replicaVars, losses>>
  BY DEF Propagate
<1>4. PICK mix \in [registered -> SUBSET Key] :
         sessions' = [i \in 1 .. Len(sessions) |-> IF i \in registered
                                                   THEN SentOver(sessions[i], l, mix[i])
                                                   ELSE sessions[i]]
  BY <1>2 DEF Propagate
<1> HIDE DEF l
<1>5. ASSUME NEW i \in DOMAIN sessions
      PROVE  /\ sessions'[i] \in Session
             /\ sessions'[i].pc = sessions[i].pc /\ sessions'[i].open = sessions[i].open
             /\ sessions'[i].seen = sessions[i].seen /\ sessions'[i].left = sessions[i].left
             /\ sessions'[i].cut = {} => sessions'[i].mixed = {}
             /\ DumpSent(sessions[i]) => DumpSent(sessions'[i])
             /\ \A n : Carries(sessions[i], n) \/ n \in sessions[i].mixed
                         => Carries(sessions'[i], n) \/ n \in sessions'[i].mixed
             /\ i \in registered /\ sessions[i].open
                  => Carries(sessions'[i], l.n) \/ l.n \in sessions'[i].mixed
  <2>1. sessions[i] \in Session /\ (sessions[i].cut = {} => sessions[i].mixed = {})
    BY <1>2 DEF Streams
  <2>2. CASE i \notin registered
    <3>1. sessions'[i] = sessions[i]
      BY <1>2, <1>4, <2>2
    <3> QED
      BY <2>1, <2>2, <3>1
  <2>3. CASE i \in registered
    <3>1. sessions'[i] = SentOver(sessions[i], l, mix[i]) /\ mix[i] \in SUBSET Key
      BY <1>2, <1>4, <2>3
    <3> QED
      BY <1>1, <2>1, <3>1, SentOverLemma
  <2> QED
    BY <2>2, <2>3
<1>6. sessions' \in Seq(Session) /\ DOMAIN sessions' = DOMAIN sessions
  <2>1. sessions' \in [1 .. Len(sessions) -> Session]
    BY <1>2, <1>4, <1>5
  <2> QED
    BY <1>2, <2>1
<1>7. TypeOK'
  <2>1. conn' \in [Conn -> [pc : {"idle", "propagate"}, line : Line]]
    BY <1>3, LineLemma DEF TypeOK
  <2> QED
    BY <1>3, <1>6, <2>1 DEF TypeOK, replicaVars
<1>8. Streams'
  BY <1>3, <1>5, <1>6 DEF Streams
<1>9. Linked'
  BY <1>2, <1>3, <1>6 DEF Linked, replicaVars
<1>10. Covered'
  <2> SUFFICES ASSUME NEW i \in DOMAIN sessions,
                      sessions'[i].pc \in {"send", "watch"}, sessions'[i].open
               PROVE  /\ DumpSent(sessions'[i])
                      /\ \A n \in 1 .. writes : \/ n <= sessions'[i].seen \/ Carries(sessions'[i], n)
                                                \/ n \in sessions'[i].mixed \/ InHand(n)'
    BY <1>3, <1>6 DEF Covered, Carries, DumpSent, DumpLine
  <2>1. sessions[i].pc \in {"send", "watch"} /\ sessions[i].open /\ i \in registered
    BY <1>5 DEF Streams
  <2>2. ASSUME NEW n \in 1 .. writes
        PROVE  \/ n <= sessions'[i].seen \/ Carries(sessions'[i], n)
               \/ n \in sessions'[i].mixed \/ InHand(n)'
    <3>1. CASE InHand(n)
      <4>1. PICK d \in Conn : conn[d].pc = "propagate" /\ conn[d].line.n = n
        BY <3>1 DEF InHand
      <4>2. CASE d = c
        BY <1>5, <2>1, <4>1, <4>2 DEF l
      <4>3. CASE d # c
        <5>1. conn'[d] = conn[d]
          BY <1>3, <4>3 DEF TypeOK
        <5> QED
          BY <4>1, <5>1 DEF InHand
      <4> QED
        BY <4>2, <4>3
    <3>2. CASE ~InHand(n)
      BY <1>5, <2>1, <3>2 DEF Covered
    <3> QED
      BY <3>1, <3>2
  <2> QED
    BY <1>5, <2>1, <2>2 DEF Covered
<1> QED
  BY <1>7, <1>8, <1>9, <1>10

\* The steps of a SYNC connection's thread.
LEMMA SessionStepInv ==
    ASSUME IInv, NEW i \in DOMAIN sessions, SessionStep(i)
    PROVE  IInv'
<1> USE DEF IInv
<1> DEFINE s == sessions[i]
<1>1. s \in Session /\ data \in [Key -> Value] /\ sessions \in Seq(Session) /\ writes \in Nat
  BY SessionsLemma, ReplicationAssumption DEF TypeOK
<1>2. UNCHANGED <<primaryVars, replicaVars, losses>> /\ UNCHANGED <<writes, conn>>
  BY DEF SessionStep, Register, Dump, SendDump, Unregister, primaryVars
<1>3. /\ s.cut = {} => s.mixed = {}
      /\ s.pc \in {"dump", "send", "watch"} => i \in registered
      /\ registered \subseteq DOMAIN sessions
  BY DEF Streams, TypeOK
<1>4. ASSUME sessions' \in Seq(Session), registered' \subseteq DOMAIN sessions', Streams', Covered',
             sessions' # <<>>
      PROVE  IInv'
  <2>1. TypeOK'
    BY <1>2, <1>4 DEF TypeOK, primaryVars, replicaVars
  <2>2. Linked'
    BY <1>2, <1>4 DEF Linked, replicaVars
  <2> QED
    BY <1>4, <2>1, <2>2
<1>5. CASE Register(i)
  <2> DEFINE t == [s EXCEPT !.pc = "dump"]
  <2>1. sessions' = [sessions EXCEPT ![i] = t] /\ registered' = registered \cup {i}
    BY <1>5 DEF Register
  <2>2. t \in Session /\ t.pc = "dump" /\ t.cut = s.cut /\ t.mixed = s.mixed
    BY <1>1 DEF Session
  <2> HIDE DEF t
  <2> QED
    BY <1>2, <1>3, <1>4, <2>1, <2>2, OneSession
<1>6. CASE Dump(i)
  <2> DEFINE t == [s EXCEPT !.pc = "send", !.dump = data, !.seen = writes, !.left = Present]
  <2>1. sessions' = [sessions EXCEPT ![i] = t] /\ registered' = registered /\ s.pc = "dump"
    BY <1>6 DEF Dump
  <2>2. Present \in SUBSET Key
    BY DEF Present
  <2>3. /\ t \in Session /\ t.pc = "send" /\ t.dump = data /\ t.left = Present
        /\ t.seen = writes /\ t.cut = s.cut /\ t.mixed = s.mixed
    BY <1>1, <2>2 DEF Session
  <2> HIDE DEF t
  <2>4. DumpSent(t) /\ \A n \in 1 .. writes : n <= t.seen
    BY <1>1, <2>3 DEF DumpSent, Present
  <2> QED
    BY <1>2, <1>3, <1>4, <2>1, <2>3, <2>4, OneSession
<1>7. CASE SendDump(i)
  <2>1. registered' = registered /\ s.pc = "send" /\ i \in registered
    BY <1>3, <1>7 DEF SendDump
  <2>2. ASSUME NEW k \in s.left,
               sessions' = [sessions EXCEPT ![i] =
                  [IF k \in s.cut THEN s ELSE Sent(s, DumpLine(s, k))
                     EXCEPT !.left = s.left \ {k}]]
        PROVE  IInv'
    <3> DEFINE u == IF k \in s.cut THEN s ELSE Sent(s, DumpLine(s, k))
               r == s.left \ {k}
               t == [u EXCEPT !.left = r]
    <3>1. DumpLine(s, k) \in Line /\ r \in SUBSET Key
      BY <1>1 DEF Session, Line, DumpLine
    <3>2. sessions' = [sessions EXCEPT ![i] = t]
      BY <2>2
    <3>3. /\ u \in Session /\ u.pc = s.pc /\ u.open = s.open /\ u.dump = s.dump
          /\ u.seen = s.seen /\ u.cut = s.cut /\ u.mixed = s.mixed
          /\ s.sent \subseteq u.sent
          /\ s.open /\ k \notin s.cut => DumpLine(s, k) \in u.sent
      BY <1>1, <3>1, SentLemma
    <3>4. r = s.left \ {k}
      OBVIOUS
    <3> HIDE DEF u, r
    <3>5. /\ t \in Session /\ t.pc = "send" /\ t.open = s.open /\ t.dump = s.dump
          /\ t.seen = s.seen /\ t.cut = s.cut /\ t.mixed = s.mixed
          /\ t.left = r /\ t.sent = u.sent
      BY <2>1, <3>1, <3>3 DEF Session
    <3> HIDE DEF t
    <3>6. ASSUME t.open
          PROVE  /\ DumpSent(t)
                 /\ \A n \in 1 .. writes : n <= t.seen \/ Carries(t, n) \/ n \in t.mixed \/ InHand(n)
      <4>1. /\ DumpSent(s)
            /\ \A n \in 1 .. writes : n <= s.seen \/ Carries(s, n) \/ n \in s.mixed \/ InHand(n)
        BY <2>1, <3>5, <3>6 DEF Covered
      <4>2. \A n : Carries(s, n) => Carries(t, n)
        BY <3>3, <3>5 DEF Carries
      <4>3. \A j : DumpLine(t, j) = DumpLine(s, j)
        BY <3>5 DEF DumpLine
      <4>4. DumpSent(t)
        BY <3>3, <3>4, <3>5, <3>6, <4>1, <4>3 DEF DumpSent
      <4> QED
        BY <3>5, <4>1, <4>2, <4>4
    <3> QED
      BY <1>2, <1>3, <1>4, <2>1, <3>2, <3>5, <3>6, OneSession
  <2>3. CASE s.left = {} /\ sessions' = [sessions EXCEPT ![i].pc = "watch"]
    <3> DEFINE t == [s EXCEPT !.pc = "watch"]
    <3>1. sessions' = [sessions EXCEPT ![i] = t]
      BY <2>3
    <3>2. /\ t \in Session /\ t.pc = "watch" /\ t.sent = s.sent /\ t.dump = s.dump
          /\ t.seen = s.seen /\ t.left = s.left /\ t.cut = s.cut /\ t.mixed = s.mixed
          /\ t.open = s.open
      BY <1>1 DEF Session
    <3> HIDE DEF t
    <3>3. ASSUME t.open
          PROVE  /\ DumpSent(t)
                 /\ \A n \in 1 .. writes : n <= t.seen \/ Carries(t, n) \/ n \in t.mixed \/ InHand(n)
      <4>1. /\ DumpSent(s)
            /\ \A n \in 1 .. writes : n <= s.seen \/ Carries(s, n) \/ n \in s.mixed \/ InHand(n)
        BY <2>1, <3>2, <3>3 DEF Covered
      <4>2. DumpSent(t)
        BY <3>2, <4>1 DEF DumpSent, DumpLine
      <4>3. \A n : Carries(s, n) => Carries(t, n)
        BY <3>2 DEF Carries
      <4> QED
        BY <3>2, <4>1, <4>2, <4>3
    <3>4. t.left = {} /\ (t.cut = {} => t.mixed = {})
      BY <1>3, <2>3, <3>2
    <3>5. /\ sessions' \in Seq(Session) /\ registered' \subseteq DOMAIN sessions'
          /\ Streams' /\ Covered' /\ sessions' # <<>>
      BY <1>2, <1>3, <2>1, <3>1, <3>2, <3>3, <3>4, OneSession
    <3> QED
      BY <1>4, <3>5
  <2> QED
    BY <1>7, <2>2, <2>3 DEF SendDump
<1>8. CASE Unregister(i)
  <2> DEFINE t == [Closed(NewSession) EXCEPT !.pc = "ended"]
  <2>1. sessions' = [sessions EXCEPT ![i] = t] /\ registered' = registered \ {i}
    BY <1>8 DEF Unregister
  <2>2. t \in Session
    BY LineLemma DEF Session
  <2>3. t.pc = "ended" /\ t.mixed = {}
    BY DEF Closed, NewSession
  <2> HIDE DEF t
  <2> QED
    BY <1>2, <1>3, <1>4, <2>1, <2>2, <2>3, OneSession
<1> QED
  BY <1>5, <1>6, <1>7, <1>8 DEF SessionStep

\* The primary's process ends: no session is open, none is registered.
LEMMA BrokenPipeInv ==
    ASSUME IInv, BrokenPipe
    PROVE  IInv'
<1> USE DEF IInv
<1>1. /\ sessions \in Seq(Session) /\ Len(sessions) \in Nat
      /\ DOMAIN sessions = 1 .. Len(sessions)
      /\ \A i \in DOMAIN sessions : sessions[i] \in Session
  BY SessionsLemma
<1>2. /\ primaryUp' = FALSE /\ registered' = {}
      /\ conn' = [c \in Conn |-> [pc |-> "idle", line |-> NoLine]]
      /\ sessions' = [i \in 1 .. Len(sessions) |-> [sessions[i] EXCEPT !.pc = "ended", !.open = FALSE]]
      /\ UNCHANGED <<data, writes, replicaVars, losses>>
  BY <1>1 DEF BrokenPipe
<1>3. ASSUME NEW i \in 1 .. Len(sessions)
      PROVE  /\ sessions'[i] \in Session /\ sessions'[i].pc = "ended" /\ sessions'[i].open = FALSE
             /\ sessions'[i].cut = sessions[i].cut /\ sessions'[i].mixed = sessions[i].mixed
  <2>1. sessions[i] \in Session /\ sessions'[i] = [sessions[i] EXCEPT !.pc = "ended", !.open = FALSE]
    BY <1>1, <1>2
  <2> QED
    BY <2>1 DEF Session
<1>4. sessions' \in Seq(Session) /\ DOMAIN sessions' = DOMAIN sessions
  <2>1. sessions' \in [1 .. Len(sessions) -> Session]
    BY <1>2, <1>3
  <2> QED
    BY <1>1, <2>1
<1>5. TypeOK'
  <2>1. conn' \in [Conn -> [pc : {"idle", "propagate"}, line : Line]]
    BY <1>2, LineLemma
  <2> QED
    BY <1>2, <1>4, <2>1 DEF TypeOK, replicaVars
<1>6. Streams' /\ Covered'
  BY <1>1, <1>3, <1>4 DEF Streams, Covered
<1>7. Linked'
  <2>1. sessions # <<>> => sessions' # <<>>
    <3>1. sessions # <<>> => 1 \in DOMAIN sessions'
      BY <1>1, <1>4
    <3> QED
      BY <3>1
  <2> QED
    BY <1>2, <2>1 DEF Linked, replicaVars
<1> QED
  BY <1>5, <1>6, <1>7

\* Closing, or losing, the link's connection.
LEMMA CloseLemma ==
    ASSUME TypeOK, Streams, Covered, sessions # <<>>, Close, UNCHANGED <<writes, conn, registered>>
    PROVE  /\ sessions' \in Seq(Session) /\ registered' \subseteq DOMAIN sessions'
           /\ Streams' /\ Covered' /\ sessions' # <<>>
<1> DEFINE s == sessions[Current]
           t == Closed(s)
<1>1. Current \in DOMAIN sessions /\ s \in Session
  BY SessionsLemma
<1>2. sessions' = [sessions EXCEPT ![Current] = t]
  BY DEF Close
<1>3. /\ t \in Session /\ t.pc = s.pc /\ t.left = s.left /\ t.cut = s.cut
      /\ t.mixed = s.mixed /\ t.open = FALSE
  <2>1. <<>> \in Seq(Line) /\ {} \subseteq Line
    OBVIOUS
  <2> QED
    BY <1>1, <2>1 DEF Session, Closed
<1> HIDE DEF t
<1>4. /\ t.pc \in {"dump", "send", "watch"} => Current \in registered'
      /\ t.pc = "watch" => t.left = {}
      /\ t.cut = {} => t.mixed = {}
  BY <1>1, <1>3 DEF Streams
<1>5. registered' \subseteq DOMAIN sessions /\ registered' = registered /\ UNCHANGED <<writes, conn>>
  BY DEF TypeOK
<1> QED
  BY <1>1, <1>2, <1>3, <1>4, <1>5, OneSession

\* What is owed to the sessions depends on them and on the primary alone.
LEMMA SameStreams ==
    ASSUME Streams, Covered, UNCHANGED <<primaryVars, sessions, registered>>
    PROVE  Streams' /\ Covered'
<1>1. UNCHANGED <<sessions, registered, conn, writes>>
  BY DEF primaryVars
<1>2. Streams'
  BY <1>1 DEF Streams
<1>3. \A n : InHand(n)' = InHand(n)
  BY <1>1 DEF InHand
<1> QED
  BY <1>1, <1>2, <1>3 DEF Covered, DumpSent, DumpLine, Carries

\* The steps of ReplicaLink's thread.
LEMMA LinkStepInv ==
    ASSUME IInv, LinkStep
    PROVE  IInv'
<1> USE DEF IInv
<1>1. /\ UNCHANGED <<primaryVars, registered, role, running, command, commands, losses>>
      /\ UNCHANGED <<writes, conn>>
  BY DEF LinkStep, Connect, Stream, Receive, LeaveStream, ApplyLine, primaryVars
<1>2. link \in [pc : {"ended", "connect", "stream", "receive", "apply"}, line : Line]
  BY DEF TypeOK
<1>3. ASSUME sessions' \in Seq(Session), registered' \subseteq DOMAIN sessions', Streams', Covered',
             link' \in [pc : {"ended", "connect", "stream", "receive", "apply"}, line : Line],
             replica' \in [Key -> Value], link.pc # "ended",
             link'.pc \in {"stream", "receive", "apply"} => sessions' # <<>>
      PROVE  IInv'
  <2>1. TypeOK'
    BY <1>1, <1>3 DEF TypeOK, primaryVars
  <2>2. Linked'
    BY <1>1, <1>3 DEF Linked
  <2> QED
    BY <1>3, <2>1, <2>2
<1>4. /\ sessions \in Seq(Session) /\ Len(sessions) \in Nat
      /\ DOMAIN sessions = 1 .. Len(sessions) /\ replica \in [Key -> Value]
      /\ sessions # <<>> => Current \in DOMAIN sessions /\ sessions[Current] \in Session
  BY SessionsLemma DEF TypeOK
<1>5. ASSUME UNCHANGED sessions
      PROVE  Streams' /\ Covered' /\ registered' \subseteq DOMAIN sessions'
  BY <1>1, <1>5, SameStreams DEF TypeOK
<1>6. ASSUME NEW p \in {"ended", "connect", "stream", "receive", "apply"}, Go(p)
      PROVE  /\ link' \in [pc : {"ended", "connect", "stream", "receive", "apply"}, line : Line]
             /\ link'.pc = p
  BY <1>2, <1>6 DEF Go
<1>7. CASE Connect
  <2>1. link.pc = "connect" /\ UNCHANGED replica
    BY <1>7 DEF Connect
  <2>2. CASE Go("ended") /\ UNCHANGED sessions
    BY <1>3, <1>4, <1>5, <1>6, <2>1, <2>2
  <2>3. CASE Go("stream") /\ sessions' = Append(sessions, NewSession)
    <3>1. NewSession \in Session /\ NewSession.pc = "sync" /\ NewSession.mixed = {}
      <4>1. NewSession \in Session
        BY LineLemma
      <4> QED
        BY <4>1 DEF NewSession
    <3>2. /\ sessions' \in Seq(Session) /\ Len(sessions') = Len(sessions) + 1
          /\ sessions'[Len(sessions) + 1] = NewSession
          /\ \A i \in DOMAIN sessions : sessions'[i] = sessions[i]
      BY <1>4, <2>3, <3>1, AppendProperties
    <3>3. DOMAIN sessions' = DOMAIN sessions \cup {Len(sessions) + 1}
      BY <1>4, <3>2
    <3>4. registered' \subseteq DOMAIN sessions' /\ sessions' # <<>>
      BY <1>1, <1>4, <3>2, <3>3 DEF TypeOK
    <3>5. Streams'
      <4> SUFFICES ASSUME NEW i \in DOMAIN sessions'
                   PROVE  /\ sessions'[i].pc \in {"dump", "send", "watch"} => i \in registered'
                          /\ sessions'[i].pc = "watch" => sessions'[i].left = {}
                          /\ sessions'[i].cut = {} => sessions'[i].mixed = {}
        BY DEF Streams
      <4>1. CASE i \in DOMAIN sessions
        BY <1>1, <3>2, <4>1 DEF Streams
      <4>2. CASE i = Len(sessions) + 1
        BY <3>1, <3>2, <4>2
      <4> QED
        BY <3>3, <4>1, <4>2
    <3>6. Covered'
      <4> SUFFICES ASSUME NEW i \in DOMAIN sessions',
                          sessions'[i].pc \in {"send", "watch"}, sessions'[i].open
                   PROVE  /\ DumpSent(sessions'[i])
                          /\ \A n \in 1 .. writes : \/ n <= sessions'[i].seen \/ Carries(sessions'[i], n)
                                                    \/ n \in sessions'[i].mixed \/ InHand(n)
        <5>1. \A n : InHand(n)' <=> InHand(n)
          BY <1>1 DEF InHand
        <5> QED
          BY <1>1, <5>1 DEF Covered, Carries, DumpSent, DumpLine
      <4>1. i \in DOMAIN sessions /\ sessions'[i] = sessions[i]
        BY <3>1, <3>2, <3>3
      <4> QED
        BY <4>1 DEF Covered
    <3> QED
      BY <1>3, <1>4, <1>6, <2>1, <2>3, <3>2, <3>4, <3>5, <3>6
  <2> QED
    BY <1>7, <2>2, <2>3 DEF Connect
<1>8. CASE Stream
  <2>1. link.pc = "stream" /\ UNCHANGED replica /\ sessions # <<>>
    BY <1>8 DEF Stream, Linked
  <2>2. CASE Go("receive") /\ UNCHANGED sessions
    BY <1>3, <1>4, <1>5, <1>6, <2>1, <2>2
  <2>3. CASE Go("connect") /\ Close
    <3>1. /\ sessions' \in Seq(Session) /\ registered' \subseteq DOMAIN sessions'
          /\ Streams' /\ Covered' /\ sessions' # <<>>
      BY <1>1, <2>1, <2>3, CloseLemma
    <3> QED
      BY <1>3, <1>4, <1>6, <2>1, <2>3, <3>1
  <2> QED
    BY <1>8, <2>2, <2>3 DEF Stream
<1>9. CASE Receive
  <2> DEFINE s == sessions[Current]
             t == [s EXCEPT !.stream = Tail(s.stream)]
  <2>1. /\ link.pc = "receive" /\ s.stream # <<>> /\ UNCHANGED replica
        /\ link' = [pc |-> "apply", line |-> Head(s.stream)]
        /\ sessions' = [sessions EXCEPT ![Current] = t]
    BY <1>9 DEF Receive
  <2>2. Current \in DOMAIN sessions /\ s \in Session
    BY <1>4, <2>1 DEF Linked
  <2>3. Head(s.stream) \in Line /\ Tail(s.stream) \in Seq(Line)
    BY <2>1, <2>2, HeadTailProperties DEF Session
  <2>4. /\ t \in Session /\ t.pc = s.pc /\ t.sent = s.sent /\ t.seen = s.seen
        /\ t.left = s.left /\ t.open = s.open /\ t.dump = s.dump
        /\ t.cut = s.cut /\ t.mixed = s.mixed
    BY <2>2, <2>3 DEF Session
  <2> HIDE DEF t
  <2>5. /\ t.pc \in {"dump", "send", "watch"} => Current \in registered'
        /\ t.pc = "watch" => t.left = {}
        /\ t.cut = {} => t.mixed = {}
    BY <1>1, <2>2, <2>4 DEF Streams
  <2>6. ASSUME t.pc \in {"send", "watch"}, t.open
        PROVE  /\ DumpSent(t)
               /\ \A n \in 1 .. writes : n <= t.seen \/ Carries(t, n) \/ n \in t.mixed \/ InHand(n)
    <3>1. /\ DumpSent(s)
          /\ \A n \in 1 .. writes : n <= s.seen \/ Carries(s, n) \/ n \in s.mixed \/ InHand(n)
      BY <2>2, <2>4, <2>6 DEF Covered
    <3>2. DumpSent(t)
      BY <2>4, <3>1 DEF DumpSent, DumpLine
    <3>3. \A n : Carries(s, n) => Carries(t, n)
      BY <2>4 DEF Carries
    <3> QED
      BY <2>4, <3>1, <3>2, <3>3
  <2>7. /\ sessions' \in Seq(Session) /\ registered' \subseteq DOMAIN sessions'
        /\ Streams' /\ Covered' /\ sessions' # <<>>
    BY <1>1, <2>1, <2>2, <2>4, <2>5, <2>6, OneSession DEF TypeOK
  <2> QED
    BY <1>3, <1>4, <2>1, <2>3, <2>7
<1>10. CASE LeaveStream
  <2>1. link.pc = "receive" /\ UNCHANGED replica /\ sessions # <<>> /\ Close /\ Go("connect")
    BY <1>10 DEF LeaveStream, Linked
  <2>2. /\ sessions' \in Seq(Session) /\ registered' \subseteq DOMAIN sessions'
        /\ Streams' /\ Covered' /\ sessions' # <<>>
    BY <1>1, <2>1, CloseLemma
  <2> QED
    BY <1>3, <1>4, <1>6, <2>1, <2>2
<1>11. CASE ApplyLine
  <2>1. replica' \in [Key -> Value]
    BY <1>2, <1>4, <1>11, LineLemma DEF ApplyLine
  <2>2. /\ link' \in [pc : {"ended", "connect", "stream", "receive", "apply"}, line : Line]
        /\ link'.pc = "stream"
    BY <1>11, LineLemma DEF ApplyLine
  <2> QED
    BY <1>3, <1>4, <1>5, <1>11, <2>1, <2>2 DEF ApplyLine, Linked
<1> QED
  BY <1>7, <1>8, <1>9, <1>10, <1>11 DEF LinkStep

\* REPLICAOF, the link's socket closed under it, and lost connections.
LEMMA StopLinkInv ==
    ASSUME IInv, NEW next \in {"PRIMARY", "REPLICA"}, StopLink(next)
    PROVE  IInv'
<1>1. TypeOK'
  <2>1. /\ command' \in [pc : {"none", "close", "join"}, next : {"PRIMARY", "REPLICA"}]
        /\ running' \in BOOLEAN
    BY DEF StopLink
  <2>2. commands' \in 0 .. MaxCommands
    <3>1. commands \in 0 .. MaxCommands /\ commands < MaxCommands /\ commands' = commands + 1
      BY DEF IInv, TypeOK, StopLink
    <3> QED
      BY <3>1, ReplicationAssumption
  <2> QED
    BY <2>1, <2>2 DEF IInv, TypeOK, StopLink, primaryVars
<1>2. Streams' /\ Covered'
  BY SameStreams DEF IInv, StopLink
<1>3. Linked'
  BY DEF IInv, StopLink, Linked
<1> QED
  BY <1>1, <1>2, <1>3 DEF IInv

\* ReplicaLink::stop closes the connection and leaves role and stores alone.
LEMMA CloseClientInv ==
    ASSUME IInv, CloseClient
    PROVE  IInv'
<1> USE DEF IInv
<1>1. UNCHANGED <<primaryVars, registered, replica, role, running, commands, losses>>
  BY DEF CloseClient
<1>2. command' \in [pc : {"none", "close", "join"}, next : {"PRIMARY", "REPLICA"}]
  BY DEF CloseClient, TypeOK
<1>3. link' \in [pc : {"ended", "connect", "stream", "receive", "apply"}, line : Line]
      /\ (link' = link \/ (link.pc = "receive" /\ link'.pc = "connect"))
  BY DEF CloseClient, TypeOK, Go
<1>4. /\ sessions' \in Seq(Session) /\ registered' \subseteq DOMAIN sessions'
      /\ Streams' /\ Covered' /\ (sessions # <<>> => sessions' # <<>>)
  <2>1. CASE UNCHANGED sessions
    <3>1. Streams' /\ Covered'
      BY <1>1, <2>1, SameStreams
    <3> QED
      BY <1>1, <2>1, <3>1, SessionsLemma DEF TypeOK
  <2>2. CASE Close /\ link.pc \in {"stream", "apply", "receive"}
    <3>1. sessions # <<>> /\ UNCHANGED <<writes, conn, registered>>
      BY <1>1, <2>2 DEF Linked, primaryVars
    <3> QED
      BY <2>2, <3>1, CloseLemma
  <2> QED
    BY <2>1, <2>2 DEF CloseClient
<1>5. TypeOK'
  BY <1>1, <1>2, <1>3, <1>4 DEF TypeOK, primaryVars
<1>6. Linked'
  BY <1>1, <1>3, <1>4 DEF Linked
<1> QED
  BY <1>4, <1>5, <1>6

\* The role changes when the link has ended: a new link starts on a replica only.
LEMMA JoinedInv ==
    ASSUME IInv, Joined
    PROVE  IInv'
<1> USE DEF IInv
<1>1. UNCHANGED <<primaryVars, sessions, registered, replica, commands, losses>>
  BY DEF Joined
<1>2. Streams' /\ Covered'
  BY <1>1, SameStreams
<1>3. command.next \in {"PRIMARY", "REPLICA"}
  BY DEF TypeOK
<1>4. command' \in [pc : {"none", "close", "join"}, next : {"PRIMARY", "REPLICA"}]
  BY DEF Joined, NoCommand
<1>5. CASE command.next = "REPLICA"
  <2>1. /\ link' \in [pc : {"ended", "connect", "stream", "receive", "apply"}, line : Line]
        /\ link'.pc = "connect" /\ running' = TRUE /\ role' = "REPLICA"
    BY <1>5 DEF Joined, Go, TypeOK
  <2> QED
    BY <1>1, <1>2, <1>4, <2>1 DEF TypeOK, Linked, primaryVars
<1>6. CASE command.next # "REPLICA"
  BY <1>1, <1>2, <1>3, <1>4, <1>6 DEF Joined, TypeOK, Linked, primaryVars
<1> QED
  BY <1>5, <1>6

\* A lost connection is not open any more, and nothing is owed to it.
LEMMA LoseInv ==
    ASSUME IInv, Lose
    PROVE  IInv'
<1> USE DEF IInv
<1>1. UNCHANGED <<primaryVars, registered, replicaVars>> /\ losses' \in 0 .. MaxLosses
  BY ReplicationAssumption DEF Lose, TypeOK
<1>2. /\ sessions' \in Seq(Session) /\ registered' \subseteq DOMAIN sessions'
      /\ Streams' /\ Covered' /\ sessions' # <<>>
  <2>1. Close /\ sessions # <<>> /\ UNCHANGED <<writes, conn, registered>>
    BY <1>1 DEF Lose, primaryVars
  <2> QED
    BY <2>1, CloseLemma
<1>3. TypeOK'
  BY <1>1, <1>2 DEF TypeOK, primaryVars, replicaVars
<1>4. Linked'
  BY <1>1, <1>2 DEF Linked, replicaVars
<1> QED
  BY <1>2, <1>3, <1>4

\* Every step of primary, sessions, link and REPLICAOF keeps the invariant.
LEMMA NextInv == IInv /\ [Next]_vars => IInv'
<1> SUFFICES ASSUME IInv, [Next]_vars PROVE IInv'
  OBVIOUS
<1>1. CASE UNCHANGED vars
  <2>1. TypeOK'
    BY <1>1 DEF IInv, vars, primaryVars, replicaVars, TypeOK
  <2>2. Linked'
    BY <1>1 DEF IInv, vars, replicaVars, Linked
  <2>3. Streams' /\ Covered'
    BY <1>1, SameStreams DEF IInv, vars
  <2> QED
    BY <2>1, <2>2, <2>3 DEF IInv
<1>2. CASE Next
  <2>1. ASSUME NEW c \in Conn, NEW o \in Op, NEW k \in Key,
               NEW v \in IF o = "SET" THEN Val ELSE {None}, Execute(c, o, k, v)
        PROVE  IInv'
    <3>1. v \in Value
      BY ReplicationAssumption DEF Value
    <3> QED
      BY <2>1, <3>1, ExecuteInv
  <2> QED
    BY <1>2, <2>1, PropagateInv, SessionStepInv, BrokenPipeInv, LinkStepInv, LoseInv, StopLinkInv,
       CloseClientInv, JoinedInv DEF Next
<1> QED
  BY <1>1, <1>2

-----------------------------------------------------------------------------
(* The strengthened invariant of the primary, its SYNC connections and the *)
(* replica's link.                                                         *)
THEOREM Invariance == Spec => []IInv
  BY InitInv, NextInv, PTL DEF Spec

(* The types of every variable: no session is registered that does not     *)
(* exist, whatever has been closed, lost or killed.                        *)
THEOREM TypeCorrect == Spec => []TypeOK
<1>1. IInv => TypeOK
  BY DEF IInv
<1> QED
  BY <1>1, Invariance, PTL

(* server_main.cpp, handleSyncConnection: a session whose dump is out has  *)
(* been sent every write of any kind that the dump does not contain, and   *)
(* every key of the dump, whatever came between registration, dump and the *)
(* dump's lines; what was mixed with the dump on the socket is all that is *)
(* missing.                                                                *)
THEOREM OnlyMixedLinesAreMissing == Spec => []OnlyMixedLinesMissing
<1>1. IInv => OnlyMixedLinesMissing
  <2> SUFFICES ASSUME IInv, NEW i \in DOMAIN sessions,
                      sessions[i].pc = "watch", sessions[i].open
               PROVE  /\ \A n \in 1 .. writes : \/ n <= sessions[i].seen \/ Carries(sessions[i], n)
                                                \/ n \in sessions[i].mixed \/ InHand(n)
                      /\ \A k \in Key : sessions[i].dump[k] # None =>
                            DumpLine(sessions[i], k) \in sessions[i].sent \/ k \in sessions[i].cut
                      /\ sessions[i].cut = {} => sessions[i].mixed = {}
    BY DEF OnlyMixedLinesMissing
  <2>1. sessions[i].left = {} /\ (sessions[i].cut = {} => sessions[i].mixed = {})
    BY DEF IInv, Streams
  <2> QED
    BY <2>1 DEF IInv, Covered, DumpSent
<1> QED
  BY <1>1, Invariance, PTL

(* ReplicationManager stops and joins the link before it changes the role: *)
(* no line of a former primary is applied by a server that has become a    *)
(* primary.                                                                *)
THEOREM OnlyReplicasApply == Spec => AppliesOnlyAsReplica
<1>1. IInv /\ [Next]_vars => [ApplyLine => role = "REPLICA"]_vars
  BY DEF IInv, Linked, ApplyLine
<1> QED
  BY <1>1, Invariance, PTL DEF Spec, AppliesOnlyAsReplica
=============================================================================
