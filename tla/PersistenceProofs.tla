------------------------- MODULE PersistenceProofs --------------------------
(***************************************************************************)
(* For any keys, connections, values, number of writes and crashes: when   *)
(* files are not torn in mid-line, recovery rebuilds the store as it was   *)
(* after some write no earlier than the durable ones.                      *)
(***************************************************************************)
EXTENDS Persistence, SequenceTheorems, NaturalsInduction, WellFoundedInduction, TLAPS

Stored == (Nat \ {0}) \cup {None, NotInt, Shortened}
Store == [Key -> Stored]
Torn == [op : {"SET"}, key : Key, val : (Nat \ {0}) \cup {Shortened}]
Logged == Line \cup {Garbage} \cup Torn
Saver == [pc : {"idle", "dump", "close", "failed", "reset", "truncate"},
          by : Conn \cup {"nobody", "timer"}, dump : Store, upTo : Nat]

Connection == [pc : {"idle", "record", "save"}, line : Logged, at : 0 .. MaxWrites]

\* TypeOK, variable by variable.
TypeInv ==
    /\ data \in Store /\ base \in Store /\ snapshot \in Store
    /\ aofBuffer \in Seq(Logged) /\ aofFile \in Seq(Logged) /\ history \in Seq(Logged)
    /\ cutTail \in BOOLEAN /\ appendOnly \in BOOLEAN /\ raced \in BOOLEAN
    /\ saver \in Saver /\ saver.upTo <= Len(history)
    /\ conn \in [Conn -> Connection]
    /\ durable \in 0 .. Len(history) /\ crashes \in 0 .. MaxCrashes

\* The writers that have executed and not recorded, and the writes in the file.
Pending == {c \in Conn : conn[c].pc = "record"}
Filed == Recorded - Len(aofBuffer)

\* A save that has its dump and has not finished.
Saving == saver.pc \in {"close", "reset", "truncate"}

\* The store is what the writes made of it, and a writer in recordWrite has
\* the line it executed.
Executed ==
    /\ \A c \in Pending : conn[c].at \in 1 .. Len(history) /\ conn[c].line = history[conn[c].at]
    /\ data = After(Len(history))
    /\ ~TornTail => ~cutTail
    /\ ~appendOnly => aofBuffer = <<>>

\* Writes that do not race: at most one is not recorded, the last one, and
\* none while a save has its dump.
Unraced ==
    /\ saver.pc # "failed"
    /\ \A c, d \in Pending : c = d
    /\ Saving => Pending = {}
Alone == Unraced /\ \A c \in Pending : conn[c].at = Len(history)

\* With an AOF, whole lines and no race, the file holds the writes up to some
\* point on top of some store, the buffer the ones from there to the last
\* recorded one, and a save in progress has the store as it is.
Log ==
    /\ Alone
    /\ Filed >= 0 /\ aofBuffer = SubSeq(history, Filed + 1, Recorded)
    /\ \E d \in Store : Replay(d, aofFile) = After(Filed)
    /\ saver.pc \in {"idle", "dump"} => durable = Filed
    /\ saver.pc = "idle" => Replay(snapshot, aofFile) = After(Filed)
    /\ Saving => saver.dump = data /\ saver.upTo = Len(history)
    /\ saver.pc \in {"reset", "truncate"} => snapshot = data /\ durable = Len(history)
    /\ saver.pc = "truncate" => aofBuffer = <<>>
LogAgrees == ~TornTail /\ appendOnly /\ ~raced => Log

\* Without an AOF, the snapshot is the store after the durable writes, except
\* while a save is rewriting it.
SnapshotAgrees ==
    ~appendOnly =>
        /\ saver.pc \notin {"dump", "close"} => snapshot = After(durable)
        /\ saver.pc = "close" => /\ saver.upTo \in durable .. Len(history)
                                 /\ saver.dump = After(saver.upTo)

IInv == TypeInv /\ Executed /\ LogAgrees /\ SnapshotAgrees

-----------------------------------------------------------------------------
(* A set of numbers that is not empty has a least element: the induction   *)
(* the lemmas on replaying use.                                            *)
LEMMA LeastNumber ==
    ASSUME NEW T \in SUBSET Nat, T # {}
    PROVE  \E m \in T : \A n \in T : m <= n
<1>1. PICK m \in T : \A n \in T : ~(<<n, m>> \in OpToRel(<, Nat))
  BY WFMin, NatLessThanWellFounded
<1>2. \A n \in T : ~(n < m)
  BY <1>1, Zenon DEF OpToRel
<1> QED
  BY <1>2

\* The stores a replay goes through.
Loop(r, d, lines, n) == r = [i \in 0 .. n |-> IF i = 0 THEN d ELSE Apply(r[i - 1], lines[i])]

\* replayLines' loop can be run over any number of lines.
LEMMA LoopExists ==
    ASSUME NEW d, NEW lines, NEW n \in Nat
    PROVE  \E r : Loop(r, d, lines, n)
<1> DEFINE Bad == {m \in Nat : ~ \E r : Loop(r, d, lines, m)}
<1>1. SUFFICES ASSUME Bad # {} PROVE FALSE
  OBVIOUS
<1>2. PICK m \in Bad : \A k \in Bad : m <= k
  <2>1. Bad \in SUBSET Nat
    OBVIOUS
  <2> HIDE DEF Bad
  <2> QED
    BY <1>1, <2>1, LeastNumber
<1>3. m \in Nat
  OBVIOUS
<1>4. CASE m = 0
  <2> DEFINE g == [i \in 0 .. 0 |-> d]
  <2>1. \A i \in 0 .. 0 : (IF i = 0 THEN d ELSE Apply(g[i - 1], lines[i])) = d
    OBVIOUS
  <2>2. Loop(g, d, lines, 0)
    BY <2>1 DEF Loop
  <2> QED
    BY <1>2, <1>4, <2>2
<1>5. CASE m # 0
  <2>1. m - 1 \in Nat /\ m - 1 \notin Bad
    <3> HIDE DEF Bad
    <3> QED
      BY <1>2, <1>3, <1>5
  <2>2. PICK f : Loop(f, d, lines, m - 1)
    BY <2>1
  <2> DEFINE g == [i \in 0 .. m |-> IF i = m THEN Apply(f[m - 1], lines[m]) ELSE f[i]]
  <2>3. \A i \in 0 .. m : g[i] = IF i = 0 THEN d ELSE Apply(g[i - 1], lines[i])
    <3> TAKE i \in 0 .. m
    <3>1. CASE i = m
      <4>1. m - 1 \in 0 .. m /\ m - 1 # m
        BY <1>3, <1>5
      <4> QED
        BY <1>5, <3>1, <4>1
    <3>2. CASE i # m
      <4>1. i \in 0 .. m - 1 /\ (i # 0 => i - 1 \in 0 .. m /\ i - 1 # m)
        BY <1>3, <3>2
      <4>2. f[i] = IF i = 0 THEN d ELSE Apply(f[i - 1], lines[i])
        BY <2>2, <4>1 DEF Loop
      <4> QED
        BY <3>2, <4>1, <4>2
    <3> QED
      BY <3>1, <3>2
  <2>4. Loop(g, d, lines, m)
    BY <2>3 DEF Loop
  <2> QED
    BY <1>2, <2>4
<1> QED
  BY <1>4, <1>5

\* Replaying ends in the last of them.
LEMMA ReplayLoop ==
    ASSUME NEW d, NEW lines, Len(lines) \in Nat
    PROVE  \E r : Loop(r, d, lines, Len(lines)) /\ Replay(d, lines) = r[Len(lines)]
<1> DEFINE r == CHOOSE r : r = [i \in 0 .. Len(lines) |->
                                   IF i = 0 THEN d ELSE Apply(r[i - 1], lines[i])]
<1>1. Replay(d, lines) = r[Len(lines)]
  BY DEF Replay
<1>2. Loop(r, d, lines, Len(lines))
  BY LoopExists DEF Loop
<1> QED
  BY <1>1, <1>2

\* Replays of the same lines from the same store agree.
LEMMA LoopUnique ==
    ASSUME NEW d, NEW a, NEW b, NEW p, NEW q, NEW n \in Nat, NEW m \in Nat,
           Loop(p, d, a, n), Loop(q, d, b, m), n <= m, \A i \in 1 .. n : a[i] = b[i]
    PROVE  \A i \in 0 .. n : p[i] = q[i]
<1> DEFINE Bad == {i \in 0 .. n : p[i] # q[i]}
<1>1. SUFFICES ASSUME Bad # {} PROVE FALSE
  OBVIOUS
<1>2. PICK i \in Bad : \A j \in Bad : i <= j
  <2>1. Bad \in SUBSET Nat
    OBVIOUS
  <2> HIDE DEF Bad
  <2> QED
    BY <1>1, <2>1, LeastNumber
<1>3. i \in 0 .. n /\ i \in 0 .. m
  OBVIOUS
<1>4. /\ p[i] = IF i = 0 THEN d ELSE Apply(p[i - 1], a[i])
      /\ q[i] = IF i = 0 THEN d ELSE Apply(q[i - 1], b[i])
  BY <1>3 DEF Loop
<1>5. CASE i = 0
  BY <1>2, <1>4, <1>5
<1>6. CASE i # 0
  <2>1. i - 1 \in 0 .. n /\ i \in 1 .. n /\ i - 1 < i
    BY <1>3, <1>6
  <2>2. i - 1 \notin Bad
    <3> HIDE DEF Bad
    <3> QED
      BY <1>2, <1>3, <2>1
  <2> QED
    BY <1>2, <1>4, <1>6, <2>1, <2>2
<1> QED
  BY <1>5, <1>6

\* What is left of a logged line that lost its end is a line recovery may meet.
LEMMA CutType ==
    ASSUME NEW m \in Logged, NEW l \in Cut(m)
    PROVE  l \in Logged
<1>1. CASE l \in {Garbage, m}
  BY <1>1 DEF Logged
<1>2. CASE l \notin {Garbage, m}
  <2>1. m.op = "SET" /\ \E v \in ShortenedTo(m.val) : l = [m EXCEPT !.val = v]
    BY <1>2 DEF Cut
  <2>2. PICK v \in ShortenedTo(m.val) : l = [m EXCEPT !.val = v]
    BY <2>1
  <2>3. v \in (Nat \ {0}) \cup {Shortened}
    BY DEF ShortenedTo
  <2>4. m \in [op : {"SET"}, key : Key, val : Val] \cup Torn
    BY <2>1 DEF Logged, Line, Garbage
  <2>5. l \in Torn
    BY <2>2, <2>3, <2>4 DEF Torn
  <2> QED
    BY <2>5 DEF Logged
<1> QED
  BY <1>1, <1>2

\* Executing a line on a store gives a store.
LEMMA ApplyType ==
    ASSUME NEW d \in Store, NEW l \in Logged
    PROVE  Apply(d, l) \in Store
<1>1. CASE l.op = "SET"
  <2>1. l \in [op : {"SET"}, key : Key, val : Val] \cup Torn
    BY <1>1 DEF Logged, Line, Garbage
  <2>2. Val \subseteq Stored /\ (Nat \ {0}) \cup {Shortened} \subseteq Stored
    BY PersistenceAssumption DEF Stored
  <2>3. l.key \in Key /\ l.val \in Stored
    BY <2>1, <2>2 DEF Torn
  <2> QED
    BY <1>1, <2>3 DEF Apply, Store
<1>2. CASE l.op = "DEL"
  BY <1>2 DEF Apply, Store, Stored
<1>3. CASE l.op = "INCR" /\ ~Fails(d, l)
  <2>1. l.key \in Key
    BY <1>3 DEF Logged, Torn, Line, Garbage
  <2>2. d[l.key] \in Stored /\ d[l.key] # NotInt /\ d[l.key] # Shortened
    BY <1>3, <2>1 DEF Fails, Store
  <2>3. (IF d[l.key] = None THEN 1 ELSE d[l.key] + 1) \in Stored
    BY <2>2 DEF Stored
  <2>4. Apply(d, l) = [d EXCEPT ![l.key] = IF d[l.key] = None THEN 1 ELSE d[l.key] + 1]
    BY <1>3 DEF Apply
  <2> QED
    BY <2>1, <2>3, <2>4 DEF Store
<1>4. CASE ~(l.op = "SET" \/ l.op = "DEL" \/ (l.op = "INCR" /\ ~Fails(d, l)))
  BY <1>4 DEF Apply
<1> QED
  BY <1>1, <1>2, <1>3, <1>4

\* Replaying no line, and one line more.
LEMMA ReplayEmpty ==
    ASSUME NEW d
    PROVE  Replay(d, <<>>) = d
<1>1. Len(<<>>) = 0
  OBVIOUS
<1>2. PICK r : Loop(r, d, <<>>, 0) /\ Replay(d, <<>>) = r[0]
  BY <1>1, ReplayLoop
<1>3. 0 \in 0 .. 0
  OBVIOUS
<1>4. r[0] = IF 0 = 0 THEN d ELSE Apply(r[0 - 1], <<>>[0])
  BY <1>2, <1>3 DEF Loop
<1> QED
  BY <1>2, <1>4

\* Replaying one more line is replaying the others and executing it.
LEMMA ReplayAppend ==
    ASSUME NEW d, NEW S, NEW lines \in Seq(S), NEW l \in S
    PROVE  Replay(d, Append(lines, l)) = Apply(Replay(d, lines), l)
<1> DEFINE n == Len(lines)
           more == Append(lines, l)
<1>1. n \in Nat /\ Len(more) = n + 1 /\ more[n + 1] = l /\ \A i \in 1 .. n : more[i] = lines[i]
  BY AppendProperties
<1> HIDE DEF n, more
<1>2. PICK r : Loop(r, d, lines, n) /\ Replay(d, lines) = r[n]
  BY <1>1, ReplayLoop DEF n
<1>3. PICK q : Loop(q, d, more, n + 1) /\ Replay(d, more) = q[n + 1]
  BY <1>1, ReplayLoop
<1>4. r[n] = q[n]
  BY <1>1, <1>2, <1>3, LoopUnique
<1>5. n + 1 \in 0 .. n + 1 /\ n + 1 # 0 /\ (n + 1) - 1 = n
  BY <1>1
<1>6. q[n + 1] = Apply(q[n], l)
  BY <1>1, <1>3, <1>5 DEF Loop
<1> QED
  BY <1>2, <1>3, <1>4, <1>6 DEF more

\* A sequence that is not empty is one line longer than another.
LEMMA LastLine ==
    ASSUME NEW S, NEW lines \in Seq(S), NEW n \in Nat, Len(lines) = n, n # 0
    PROVE  \E t \in Seq(S), l \in S : lines = Append(t, l) /\ Len(t) = n - 1
<1> DEFINE t == SubSeq(lines, 1, n - 1)
<1>1. t \in Seq(S) /\ Len(t) = n - 1 /\ \A i \in 1 .. n - 1 : t[i] = lines[i]
  BY SubSeqProperties
<1>2. lines[n] \in S
  BY ElementOfSeq
<1> HIDE DEF t
<1>3. /\ Append(t, lines[n]) \in Seq(S) /\ Len(Append(t, lines[n])) = n
      /\ \A i \in 1 .. n : Append(t, lines[n])[i] = lines[i]
  BY <1>1, <1>2, AppendProperties
<1>4. lines = Append(t, lines[n])
  BY <1>3, SeqEqual
<1> QED
  BY <1>1, <1>2, <1>4

\* Whatever lines recovery meets, torn ones included, the result is a store.
LEMMA ReplayType ==
    ASSUME NEW d \in Store, NEW lines \in Seq(Logged)
    PROVE  Replay(d, lines) \in Store
<1> DEFINE Bad == {n \in Nat : \E t \in Seq(Logged) : Len(t) = n /\ Replay(d, t) \notin Store}
<1>1. SUFFICES ASSUME Bad # {} PROVE FALSE
  <2>1. Len(lines) \in Nat
    OBVIOUS
  <2> QED
    BY <2>1
<1>2. PICK n \in Bad : \A m \in Bad : n <= m
  <2>1. Bad \in SUBSET Nat
    OBVIOUS
  <2> HIDE DEF Bad
  <2> QED
    BY <1>1, <2>1, LeastNumber
<1>3. n \in Nat
  OBVIOUS
<1>4. PICK t \in Seq(Logged) : Len(t) = n /\ Replay(d, t) \notin Store
  OBVIOUS
<1>5. n # 0
  <2> SUFFICES ASSUME n = 0 PROVE FALSE
    OBVIOUS
  <2>1. t = <<>>
    BY <1>4, EmptySeq
  <2> QED
    BY <1>4, <2>1, ReplayEmpty
<1>6. PICK u \in Seq(Logged), l \in Logged : t = Append(u, l) /\ Len(u) = n - 1
  <2>1. n \in Nat /\ n # 0 /\ Len(t) = n
    BY <1>3, <1>4, <1>5
  <2> HIDE DEF Bad
  <2> QED
    BY <2>1, LastLine, ZenonT(30)
<1>7. n - 1 \in Nat /\ n - 1 \notin Bad
  <2> HIDE DEF Bad
  <2> QED
    BY <1>2, <1>3, <1>5
<1>8. Replay(d, u) \in Store
  BY <1>6, <1>7
<1> QED
  BY <1>4, <1>6, <1>8, ReplayAppend, ApplyType

\* Replaying two files is replaying the one made of both.
LEMMA ReplayConcat ==
    ASSUME NEW d, NEW S, NEW s \in Seq(S), NEW lines \in Seq(S)
    PROVE  Replay(d, s \o lines) = Replay(Replay(d, s), lines)
<1> DEFINE Bad == {n \in Nat : \E t \in Seq(S) :
                      Len(t) = n /\ Replay(d, s \o t) # Replay(Replay(d, s), t)}
<1>1. SUFFICES ASSUME Bad # {} PROVE FALSE
  <2>1. Len(lines) \in Nat
    OBVIOUS
  <2> QED
    BY <2>1
<1>2. PICK n \in Bad : \A m \in Bad : n <= m
  <2>1. Bad \in SUBSET Nat
    OBVIOUS
  <2> HIDE DEF Bad
  <2> QED
    BY <1>1, <2>1, LeastNumber
<1>3. n \in Nat
  OBVIOUS
<1>4. PICK t \in Seq(S) : Len(t) = n /\ Replay(d, s \o t) # Replay(Replay(d, s), t)
  OBVIOUS
<1>5. n # 0
  <2> SUFFICES ASSUME n = 0 PROVE FALSE
    OBVIOUS
  <2>1. t = <<>>
    BY <1>4, EmptySeq
  <2>2. s \o <<>> = s
    BY ConcatEmptySeq
  <2> QED
    BY <1>4, <2>1, <2>2, ReplayEmpty
<1>6. PICK u \in Seq(S), l \in S : t = Append(u, l) /\ Len(u) = n - 1
  BY <1>3, <1>4, <1>5, LastLine
<1>7. n - 1 \in Nat /\ n - 1 \notin Bad
  <2> HIDE DEF Bad
  <2> QED
    BY <1>2, <1>3, <1>5
<1>8. Replay(d, s \o u) = Replay(Replay(d, s), u)
  BY <1>6, <1>7
<1>9. s \o u \in Seq(S) /\ s \o Append(u, l) = Append(s \o u, l)
  <2>1. s \o u \in Seq(S) /\ Len(s \o u) = Len(s) + Len(u)
    BY ConcatProperties
  <2>2. /\ s \o Append(u, l) \in Seq(S) /\ Append(s \o u, l) \in Seq(S)
        /\ Len(s \o Append(u, l)) = Len(Append(s \o u, l))
    OBVIOUS
  <2> QED
    OBVIOUS
<1>10. Replay(d, s \o t) = Apply(Replay(d, s \o u), l)
  <2>1. PICK w \in Seq(S) : w = s \o u /\ s \o t = Append(w, l)
    BY <1>6, <1>9
  <2>2. Replay(d, Append(w, l)) = Apply(Replay(d, w), l)
    BY ReplayAppend
  <2> QED
    BY <2>1, <2>2
<1>11. Replay(Replay(d, s), t) = Apply(Replay(Replay(d, s), u), l)
  <2> DEFINE e == Replay(d, s)
  <2> HIDE DEF e
  <2>1. Replay(e, t) = Apply(Replay(e, u), l)
    BY <1>6, ReplayAppend
  <2> QED
    BY <2>1 DEF e
<1> QED
  BY <1>4, <1>8, <1>10, <1>11

\* A store is what it was, or what the lines say, key by key, if there is no
\* INCR: two stores that replay the same lines agree on the keys written.
LEMMA ReplayPlain ==
    ASSUME NEW d \in Store, NEW e \in Store, NEW lines \in Seq(Logged),
           \A i \in 1 .. Len(lines) : lines[i].op # "INCR", NEW k \in Key
    PROVE  \/ Replay(d, lines)[k] = Replay(e, lines)[k]
           \/ Replay(d, lines)[k] = d[k] /\ Replay(e, lines)[k] = e[k]
<1> DEFINE Plain(t) == \A i \in 1 .. Len(t) : t[i].op # "INCR"
           Same(t) == \/ Replay(d, t)[k] = Replay(e, t)[k]
                      \/ Replay(d, t)[k] = d[k] /\ Replay(e, t)[k] = e[k]
           Bad == {n \in Nat : \E t \in Seq(Logged) : Len(t) = n /\ Plain(t) /\ ~Same(t)}
<1>1. SUFFICES ASSUME Bad # {} PROVE FALSE
  <2>1. Len(lines) \in Nat /\ Plain(lines)
    OBVIOUS
  <2> HIDE DEF Plain, Same
  <2>2. Same(lines)
    BY <2>1
  <2> QED
    BY <2>2 DEF Same
<1>2. PICK n \in Bad : \A m \in Bad : n <= m
  <2>1. Bad \in SUBSET Nat
    OBVIOUS
  <2> HIDE DEF Bad
  <2> QED
    BY <1>1, <2>1, LeastNumber
<1>3. n \in Nat
  OBVIOUS
<1>4. PICK t \in Seq(Logged) : Len(t) = n /\ Plain(t) /\ ~Same(t)
  <2> HIDE DEF Plain, Same
  <2> QED
    OBVIOUS
<1>5. n # 0
  <2> SUFFICES ASSUME n = 0 PROVE FALSE
    OBVIOUS
  <2>1. t = <<>>
    BY <1>4, EmptySeq
  <2> QED
    BY <1>4, <2>1, ReplayEmpty
<1>6. PICK u \in Seq(Logged), l \in Logged : t = Append(u, l) /\ Len(u) = n - 1
  <2>1. n \in Nat /\ n # 0 /\ Len(t) = n
    BY <1>3, <1>4, <1>5
  <2> HIDE DEF Bad
  <2> QED
    BY <2>1, LastLine, ZenonT(30)
<1>7. n - 1 \in Nat /\ n - 1 \notin Bad
  <2> HIDE DEF Bad
  <2> QED
    BY <1>2, <1>3, <1>5
<1>8. Plain(u) /\ l.op # "INCR"
  <2>1. /\ \A i \in 1 .. n - 1 : t[i] = u[i]
        /\ t[n] = l
    BY <1>3, <1>6, AppendProperties
  <2> QED
    BY <1>3, <1>4, <1>5, <1>6, <2>1
<1>9. Same(u)
  <2> HIDE DEF Plain, Same
  <2> QED
    BY <1>6, <1>7, <1>8
<1> DEFINE x == Replay(d, u)
           y == Replay(e, u)
<1>10. x \in Store /\ y \in Store
  BY ReplayType
<1>11. Replay(d, t) = Apply(x, l) /\ Replay(e, t) = Apply(y, l)
  BY <1>6, ReplayAppend
<1> HIDE DEF x, y
<1>12. \/ Apply(x, l)[k] = Apply(y, l)[k]
       \/ Apply(x, l)[k] = x[k] /\ Apply(y, l)[k] = y[k]
  BY <1>8, <1>10 DEF Apply, Store
<1>13. x[k] = y[k] \/ (x[k] = d[k] /\ y[k] = e[k])
  BY <1>9 DEF x, y
<1> QED
  BY <1>4, <1>11, <1>12, <1>13

(* Replaying the lines of SETs and DELs a second time changes nothing:     *)
(* why a snapshot and the AOF it repeats agree.                            *)
LEMMA ReplayTwice ==
    ASSUME NEW d \in Store, NEW lines \in Seq(Logged),
           \A i \in 1 .. Len(lines) : lines[i].op # "INCR"
    PROVE  Replay(Replay(d, lines), lines) = Replay(d, lines)
<1> DEFINE e == Replay(d, lines)
<1>1. e \in Store
  BY ReplayType
<1> HIDE DEF e
<1>2. Replay(e, lines) \in Store
  BY <1>1, ReplayType
<1>3. ASSUME NEW k \in Key PROVE Replay(e, lines)[k] = e[k]
  BY <1>1, ReplayPlain DEF e
<1>4. Replay(e, lines) = e
  BY <1>1, <1>2, <1>3 DEF Store
<1> QED
  BY <1>4 DEF e

-----------------------------------------------------------------------------
\* The part of a sequence behind its first f elements, up to the m-th.
LEMMA PartLemma ==
    ASSUME NEW S, NEW h \in Seq(S), NEW f \in Nat, NEW m \in Nat, f <= m, m <= Len(h)
    PROVE  /\ SubSeq(h, f + 1, m) \in Seq(S) /\ Len(SubSeq(h, f + 1, m)) = m - f
           /\ \A i \in 1 .. m - f : SubSeq(h, f + 1, m)[i] = h[f + i]
<1> DEFINE g == f + 1
           p == SubSeq(h, g, m)
<1>1. g \in Int /\ m \in Int /\ g <= m + 1 /\ m - g + 1 = m - f
  OBVIOUS
<1>2. \A i \in g .. m : h[i] \in S
  <2>1. \A i \in g .. m : i \in 1 .. Len(h)
    OBVIOUS
  <2> QED
    BY <2>1, ElementOfSeq
<1> HIDE DEF g
<1>3. p \in Seq(S) /\ Len(p) = (IF g <= m THEN m - g + 1 ELSE 0)
      /\ \A i \in 1 .. m - g + 1 : p[i] = h[g + i - 1]
  BY <1>1, <1>2, SubSeqProperties
<1> HIDE DEF p
<1>4. Len(p) = m - f
  BY <1>1, <1>3
<1>5. \A i \in 1 .. m - f : p[i] = h[f + i]
  <2>1. \A i \in 1 .. m - f : g + i - 1 = f + i
    BY DEF g
  <2> QED
    BY <1>1, <1>3, <2>1
<1> QED
  BY <1>3, <1>4, <1>5 DEF p, g

\* The same from the first element on.
LEMMA FrontLemma ==
    ASSUME NEW S, NEW h \in Seq(S), NEW m \in Nat, m <= Len(h)
    PROVE  /\ SubSeq(h, 1, m) \in Seq(S) /\ Len(SubSeq(h, 1, m)) = m
           /\ \A i \in 1 .. m : SubSeq(h, 1, m)[i] = h[i]
<1>1. 0 + 1 = 1 /\ m - 0 = m /\ \A i \in 1 .. m : 0 + i = i
  OBVIOUS
<1> QED
  BY <1>1, PartLemma

\* Two neighbouring parts make one.
LEMMA SubSeqJoin ==
    ASSUME NEW S, NEW h \in Seq(S), NEW f \in Nat, NEW m \in Nat, f <= m, m <= Len(h)
    PROVE  SubSeq(h, 1, f) \o SubSeq(h, f + 1, m) = SubSeq(h, 1, m)
<1> DEFINE a == SubSeq(h, 1, f)
           b == SubSeq(h, f + 1, m)
           c == SubSeq(h, 1, m)
<1>1. a \in Seq(S) /\ Len(a) = f /\ \A i \in 1 .. f : a[i] = h[i]
  BY FrontLemma
<1>2. b \in Seq(S) /\ Len(b) = m - f /\ \A i \in 1 .. m - f : b[i] = h[f + i]
  BY PartLemma
<1>3. c \in Seq(S) /\ Len(c) = m /\ \A i \in 1 .. m : c[i] = h[i]
  BY FrontLemma
<1> HIDE DEF a, b, c
<1>4. a \o b \in Seq(S) /\ Len(a \o b) = m
  <2>1. a \o b \in Seq(S) /\ Len(a \o b) = Len(a) + Len(b)
    BY <1>1, <1>2, ConcatProperties, ZenonT(60)
  <2> QED
    BY <1>1, <1>2, <2>1
<1>5. ASSUME NEW i \in 1 .. m PROVE (a \o b)[i] = c[i]
  <2>1. (a \o b)[i] = IF i <= Len(a) THEN a[i] ELSE b[i - Len(a)]
    <3>1. i \in 1 .. Len(a) + Len(b)
      BY <1>1, <1>2
    <3> QED
      BY <1>1, <1>2, <3>1, ConcatProperties
  <2>2. CASE i <= f
    BY <1>1, <1>3, <2>1, <2>2
  <2>3. CASE i > f
    <3>1. i - f \in 1 .. m - f /\ f + (i - f) = i
      BY <2>3
    <3>2. (a \o b)[i] = b[i - f] /\ b[i - f] = h[f + (i - f)]
      BY <1>1, <1>2, <2>1, <2>3, <3>1
    <3> QED
      BY <1>3, <3>1, <3>2
  <2>4. i <= f \/ i > f
    OBVIOUS
  <2> QED
    BY <2>2, <2>3, <2>4, Zenon
<1>6. a \o b = c
  BY <1>3, <1>4, <1>5, SeqEqual
<1> QED
  BY <1>6 DEF a, b, c

\* A part of the history up to one write more ends in that write.
LEMMA SubSeqGrow ==
    ASSUME NEW S, NEW h \in Seq(S), NEW f \in Nat, NEW m \in Nat, f <= m, m < Len(h)
    PROVE  SubSeq(h, f + 1, m + 1) = Append(SubSeq(h, f + 1, m), h[m + 1])
<1> DEFINE a == SubSeq(h, f + 1, m)
           b == SubSeq(h, f + 1, m + 1)
<1>1. a \in Seq(S) /\ Len(a) = m - f /\ \A i \in 1 .. m - f : a[i] = h[f + i]
  BY PartLemma
<1>2. b \in Seq(S) /\ Len(b) = m + 1 - f /\ \A i \in 1 .. m + 1 - f : b[i] = h[f + i]
  <2>1. m + 1 \in Nat /\ f <= m + 1 /\ m + 1 <= Len(h)
    OBVIOUS
  <2> QED
    BY <2>1, PartLemma
<1>3. h[m + 1] \in S
  BY ElementOfSeq
<1> HIDE DEF a, b
<1>4. /\ Append(a, h[m + 1]) \in Seq(S) /\ Len(Append(a, h[m + 1])) = m + 1 - f
      /\ \A i \in 1 .. m - f : Append(a, h[m + 1])[i] = a[i]
      /\ Append(a, h[m + 1])[m + 1 - f] = h[m + 1]
  BY <1>1, <1>3, AppendProperties
<1>5. ASSUME NEW i \in 1 .. m + 1 - f PROVE Append(a, h[m + 1])[i] = b[i]
  BY <1>1, <1>2, <1>4, <1>5
<1>6. Append(a, h[m + 1]) = b
  BY <1>2, <1>4, <1>5, SeqEqual
<1> QED
  BY <1>6 DEF a, b

\* A new write leaves the earlier parts of the history alone.
LEMMA SubSeqOfAppend ==
    ASSUME NEW S, NEW h \in Seq(S), NEW l \in S, NEW f \in Nat, NEW m \in Nat,
           f <= m, m <= Len(h)
    PROVE  SubSeq(Append(h, l), f + 1, m) = SubSeq(h, f + 1, m)
<1> DEFINE g == Append(h, l)
           a == SubSeq(h, f + 1, m)
           b == SubSeq(g, f + 1, m)
<1>1. g \in Seq(S) /\ Len(g) = Len(h) + 1 /\ \A i \in 1 .. Len(h) : g[i] = h[i]
  BY AppendProperties
<1> HIDE DEF g
<1>2. a \in Seq(S) /\ Len(a) = m - f /\ \A i \in 1 .. m - f : a[i] = h[f + i]
  BY PartLemma
<1>3. b \in Seq(S) /\ Len(b) = m - f /\ \A i \in 1 .. m - f : b[i] = g[f + i]
  <2>1. g \in Seq(S) /\ m <= Len(g)
    BY <1>1
  <2> QED
    BY <2>1, PartLemma
<1> HIDE DEF a, b
<1>4. \A i \in 1 .. m - f : f + i \in 1 .. Len(h)
  OBVIOUS
<1>5. \A i \in 1 .. m - f : a[i] = b[i]
  BY <1>1, <1>2, <1>3, <1>4
<1>6. a = b
  BY <1>2, <1>3, <1>5, SeqEqual
<1> QED
  BY <1>6 DEF a, b, g

\* The first lines of the buffer are a part of the history too: what a crash
\* may have written out of it.
LEMMA PartOfSubSeq ==
    ASSUME NEW S, NEW h \in Seq(S), NEW f \in Nat, NEW m \in Nat, f <= m, m <= Len(h),
           NEW n \in 0 .. m - f
    PROVE  SubSeq(SubSeq(h, f + 1, m), 1, n) = SubSeq(h, f + 1, f + n)
<1> DEFINE a == SubSeq(h, f + 1, m)
           b == SubSeq(a, 1, n)
           c == SubSeq(h, f + 1, f + n)
<1>1. a \in Seq(S) /\ Len(a) = m - f /\ \A i \in 1 .. m - f : a[i] = h[f + i]
  BY PartLemma
<1> HIDE DEF a
<1>2. b \in Seq(S) /\ Len(b) = n /\ \A i \in 1 .. n : b[i] = a[i]
  <2>1. n \in Nat /\ n <= Len(a)
    BY <1>1
  <2> QED
    BY <1>1, <2>1, FrontLemma
<1>3. c \in Seq(S) /\ Len(c) = n /\ \A i \in 1 .. n : c[i] = h[f + i]
  <2> DEFINE k == f + n
  <2>1. k \in Nat /\ f <= k /\ k <= Len(h) /\ k - f = n
    OBVIOUS
  <2> HIDE DEF k
  <2>2. /\ SubSeq(h, f + 1, k) \in Seq(S) /\ Len(SubSeq(h, f + 1, k)) = k - f
        /\ \A i \in 1 .. k - f : SubSeq(h, f + 1, k)[i] = h[f + i]
    BY <2>1, PartLemma
  <2> QED
    BY <2>1, <2>2 DEF k
<1> HIDE DEF b, c
<1>4. b = c
  BY <1>1, <1>2, <1>3, SeqEqual
<1> QED
  BY <1>4 DEF a, b, c

-----------------------------------------------------------------------------
\* Lengths.
LEMMA Types ==
    ASSUME TypeInv
    PROVE  /\ data \in Store /\ base \in Store /\ snapshot \in Store
           /\ aofBuffer \in Seq(Logged) /\ aofFile \in Seq(Logged) /\ history \in Seq(Logged)
           /\ Len(history) \in Nat /\ Len(aofBuffer) \in Nat
           /\ durable \in 0 .. Len(history)
<1>1. history \in Seq(Logged) /\ aofBuffer \in Seq(Logged)
  BY DEF TypeInv
<1>2. Len(history) \in Nat /\ Len(aofBuffer) \in Nat
  BY <1>1
<1> QED
  BY <1>1, <1>2 DEF TypeInv

\* The store after i writes, and after one and after n writes more.
LEMMA AfterType ==
    ASSUME TypeInv, NEW i \in 0 .. Len(history)
    PROVE  SubSeq(history, 1, i) \in Seq(Logged) /\ After(i) \in Store
<1>1. \A j \in 1 .. i : history[j] \in Logged
  BY Types, ElementOfSeq
<1>2. SubSeq(history, 1, i) \in Seq(Logged)
  BY <1>1, SubSeqProperties
<1> QED
  BY <1>2, Types, ReplayType DEF After

\* The store after m writes is the one after f of them with the rest replayed.
LEMMA AfterMore ==
    ASSUME TypeInv, NEW f \in Nat, NEW m \in Nat, f <= m, m <= Len(history)
    PROVE  /\ Replay(After(f), SubSeq(history, f + 1, m)) = After(m)
           /\ SubSeq(history, f + 1, m) \in Seq(Logged)
<1>1. \A j \in f + 1 .. m : history[j] \in Logged
  BY Types, ElementOfSeq
<1>2. SubSeq(history, f + 1, m) \in Seq(Logged)
  BY <1>1, SubSeqProperties
<1>3. SubSeq(history, 1, f) \in Seq(Logged)
  BY Types, AfterType
<1>4. SubSeq(history, 1, f) \o SubSeq(history, f + 1, m) = SubSeq(history, 1, m)
  BY Types, SubSeqJoin
<1> DEFINE a == SubSeq(history, 1, f)
           b == SubSeq(history, f + 1, m)
<1> HIDE DEF a, b
<1>5. a \in Seq(Logged) /\ b \in Seq(Logged)
  BY <1>2, <1>3 DEF a, b
<1>6. Replay(base, a \o b) = Replay(Replay(base, a), b)
  BY <1>5, ReplayConcat
<1> QED
  BY <1>2, <1>4, <1>6 DEF After, a, b

\* A write leaves what came before it.
LEMMA AfterAppend ==
    ASSUME TypeInv, NEW l \in Logged, history' = Append(history, l), base' = base
    PROVE  /\ \A i \in 0 .. Len(history) : After(i)' = After(i)
           /\ After(Len(history))' = Apply(After(Len(history)), l)
<1>1. ASSUME NEW i \in 0 .. Len(history) PROVE After(i)' = After(i)
  <2>1. 0 \in Nat /\ i \in Nat /\ 0 <= i /\ i <= Len(history)
    BY Types
  <2>2. SubSeq(Append(history, l), 0 + 1, i) = SubSeq(history, 0 + 1, i)
    BY <2>1, Types, SubSeqOfAppend
  <2>3. SubSeq(history', 1, i) = SubSeq(history, 1, i)
    BY <2>2
  <2> QED
    BY <2>3 DEF After
<1>2. After(Len(history))' = Apply(After(Len(history)), l)
  <2> DEFINE n == Len(history)
             g == Append(history, l)
  <2>1. n \in Nat /\ history \in Seq(Logged) /\ g \in Seq(Logged) /\ Len(g) = n + 1
    BY Types, AppendProperties
  <2>2. SubSeq(g, 1, n + 1) = g /\ SubSeq(history, 1, n) = history
    BY <2>1, SubSeqFull
  <2>3. Replay(base, g) = Apply(Replay(base, history), l)
    BY <2>1, ReplayAppend
  <2>4. After(Len(history))' = Replay(base, SubSeq(g, 1, n + 1))
    BY <2>1 DEF After
  <2>5. After(Len(history)) = Replay(base, SubSeq(history, 1, n))
    BY DEF After
  <2> QED
    BY <2>2, <2>3, <2>4, <2>5
<1> QED
  BY <1>1, <1>2

\* The writes before the first that is not recorded.
LEMMA RecordedLemma ==
    TypeInv /\ Executed =>
        /\ Recorded \in 0 .. Len(history)
        /\ Pending = {} => Recorded = Len(history)
        /\ \A c \in Pending : Alone => Recorded = Len(history) - 1
<1> SUFFICES ASSUME TypeInv, Executed
             PROVE  /\ Recorded \in 0 .. Len(history)
                    /\ Pending = {} => Recorded = Len(history)
                    /\ \A c \in Pending : Alone => Recorded = Len(history) - 1
  OBVIOUS
<1> DEFINE T == {Len(history)} \cup {conn[c].at - 1 : c \in {d \in Conn : conn[d].pc = "record"}}
<1>1. T \in SUBSET (0 .. Len(history)) /\ T # {}
  BY Types DEF TypeInv, Executed, Pending
<1>2. Recorded = CHOOSE x \in T : \A y \in T : x <= y
  BY DEF Recorded, Min
<1>3. \E x \in T : \A y \in T : x <= y
  <2> HIDE DEF T
  <2>1. T \in SUBSET Nat
    BY <1>1, Types
  <2> QED
    BY <1>1, <2>1, LeastNumber
<1>4. Recorded \in T /\ \A y \in T : Recorded <= y
  <2> HIDE DEF T
  <2> QED
    BY <1>2, <1>3
<1>5. Pending = {} => T = {Len(history)}
  BY DEF Pending
<1>6. ASSUME NEW c \in Pending, Alone PROVE T = {Len(history), Len(history) - 1}
  BY <1>6 DEF Pending, Alone, Unraced
<1>7. ASSUME NEW c \in Pending, Alone PROVE Recorded = Len(history) - 1
  <2> HIDE DEF T
  <2>1. Recorded \in Nat /\ Len(history) \in Nat /\ Recorded <= Len(history) - 1
        /\ Recorded \in {Len(history), Len(history) - 1}
    BY <1>1, <1>4, <1>6, <1>7, Types
  <2> QED
    BY <2>1
<1> QED
  BY <1>1, <1>4, <1>5, <1>7

\* The larger of two numbers.
LEMMA MaxLemma ==
    ASSUME NEW a \in Nat, NEW b \in Nat
    PROVE  Max({a, b}) = IF a <= b THEN b ELSE a
<1>1. Max({a, b}) = CHOOSE x \in {a, b} : \A y \in {a, b} : x >= y
  BY DEF Max
<1>2. CASE a <= b
  BY <1>1, <1>2
<1>3. CASE b < a
  BY <1>1, <1>3
<1> QED
  BY <1>2, <1>3

\* What is behind the file's lines once others have been written.
LEMMA WrittenLemma ==
    ASSUME TypeInv, NEW ls \in Seq(Logged)
    PROVE  /\ Written(ls) \in Seq(Logged)
           /\ ~cutTail => Written(ls) = aofFile \o ls
<1>1. aofFile \in Seq(Logged) /\ Garbage \in Logged
  BY DEF TypeInv, Logged
<1>2. Len(aofFile) \in Nat /\ Len(aofFile) - 1 \in Int
  BY <1>1
<1>3. SubSeq(aofFile, 1, Len(aofFile) - 1) \in Seq(Logged)
  <2>1. \A i \in 1 .. Len(aofFile) - 1 : aofFile[i] \in Logged
    BY <1>1, <1>2, ElementOfSeq
  <2> QED
    BY <1>2, <2>1, SubSeqProperties
<1>4. Front(aofFile) \in Seq(Logged)
  BY <1>3 DEF Front
<1>5. ls # <<>> => Tail(ls) \in Seq(Logged)
  BY HeadTailProperties
<1>6. ls # <<>> => Front(aofFile) \o <<Garbage>> \o Tail(ls) \in Seq(Logged)
  <2>1. <<Garbage>> \in Seq(Logged)
    BY <1>1
  <2> QED
    BY <1>4, <1>5, <2>1, ConcatProperties
<1>7. aofFile \o ls \in Seq(Logged)
  BY <1>1, ConcatProperties
<1> QED
  BY <1>6, <1>7 DEF Written

\* flush and the close of reset.
LEMMA WriteOutLemma ==
    ASSUME TypeInv, Executed, WriteOut
    PROVE  /\ aofFile' \in Seq(Logged) /\ cutTail' \in BOOLEAN /\ aofBuffer' = <<>>
           /\ durable' \in 0 .. Len(history)
           /\ ~TornTail => ~cutTail' /\ aofFile' = aofFile \o aofBuffer
           /\ appendOnly => durable' = IF durable <= Recorded THEN Recorded ELSE durable
           /\ ~appendOnly => durable' = durable
<1>1. aofFile' = Written(aofBuffer) /\ cutTail' = (cutTail /\ aofBuffer = <<>>) /\ aofBuffer' = <<>>
  BY DEF WriteOut
<1>2. aofFile' \in Seq(Logged) /\ (~cutTail => aofFile' = aofFile \o aofBuffer)
  BY <1>1, Types, WrittenLemma
<1>3. cutTail' \in BOOLEAN /\ (~cutTail => ~cutTail')
  BY <1>1
<1>4. Recorded \in 0 .. Len(history) /\ durable \in 0 .. Len(history)
  BY RecordedLemma, Types
<1>5. Max({durable, Recorded}) = IF durable <= Recorded THEN Recorded ELSE durable
  BY <1>4, Types, MaxLemma
<1>6. durable' = IF appendOnly THEN Max({durable, Recorded}) ELSE durable
  BY DEF WriteOut
<1> QED
  BY <1>1, <1>2, <1>3, <1>4, <1>5, <1>6 DEF Executed

\* What Racing rules out.
LEMMA RacedLemma ==
    ASSUME raced' = (raced \/ Racing')
    PROVE  raced' \in BOOLEAN /\ (~raced' => ~raced /\ Unraced')
<1>1. ~Racing' => Unraced'
  BY DEF Racing, Pending, Saving, Unraced
<1> QED
  BY <1>1

\* The same in the next state.
LEMMA RecordedNext ==
    TypeInv' /\ Executed' =>
        /\ Recorded' \in 0 .. Len(history')
        /\ Pending' = {} => Recorded' = Len(history')
        /\ \A c \in Pending' : Alone' => Recorded' = Len(history') - 1
<1>1. (TypeInv /\ Executed =>
        /\ Recorded \in 0 .. Len(history)
        /\ Pending = {} => Recorded = Len(history)
        /\ \A c \in Pending : Alone => Recorded = Len(history) - 1)'
  BY RecordedLemma, PTL
<1> QED
  BY <1>1

\* A server that has just recovered, or starts with no files.
Fresh ==
    /\ base \in Store /\ snapshot \in Store /\ aofFile \in Seq(Logged)
    /\ data = base /\ data = Recover(snapshot, aofFile)
    /\ aofBuffer = <<>> /\ history = <<>> /\ durable = 0
    /\ saver = Nobody /\ conn = [c \in Conn |-> Resting]
    /\ cutTail \in BOOLEAN /\ appendOnly \in BOOLEAN /\ raced = FALSE
    /\ ~TornTail => ~cutTail
    /\ crashes \in 0 .. MaxCrashes

\* A process that has just recovered satisfies the invariant.
LEMMA FreshInv == Fresh => IInv
<1> SUFFICES ASSUME Fresh PROVE IInv
  OBVIOUS
<1> USE DEF Fresh
<1>1. Nobody \in Saver /\ Nobody.pc = "idle" /\ Nobody.upTo = 0
  BY DEF Nobody, Saver, Store, Stored, Empty
<1>2. Resting \in Connection /\ Resting.pc = "idle"
  BY PersistenceAssumption DEF Resting, Connection, Logged
<1>3. <<>> \in Seq(Logged) /\ Len(<<>>) = 0
  OBVIOUS
<1>4. TypeInv
  <2>1. saver \in Saver /\ saver.upTo <= Len(history) /\ durable \in 0 .. Len(history)
    BY <1>1, <1>3
  <2>2. conn \in [Conn -> Connection]
    BY <1>2
  <2>3. raced \in BOOLEAN
    OBVIOUS
  <2>4. data \in Store /\ aofBuffer \in Seq(Logged) /\ history \in Seq(Logged)
    BY <1>3
  <2> QED
    BY <2>1, <2>2, <2>3, <2>4, Zenon DEF TypeInv
<1>5. Pending = {}
  BY <1>2 DEF Pending
<1>6. After(0) = base /\ data = After(Len(history))
  <2>1. SubSeq(<<>>, 1, 0) = <<>>
    BY SubSeqEmpty
  <2> QED
    BY <1>3, <2>1, ReplayEmpty DEF After
<1>7. Executed
  BY <1>5, <1>6 DEF Executed
<1>8. Recorded = 0 /\ Filed = 0
  BY <1>3, <1>4, <1>5, <1>7, RecordedLemma DEF Filed
<1>9. LogAgrees
  <2> SUFFICES ASSUME appendOnly PROVE LogAgrees
    BY DEF LogAgrees
  <2>1. Replay(snapshot, aofFile) = After(Filed)
    BY <1>6, <1>8 DEF Recover
  <2>2. aofBuffer = SubSeq(history, Filed + 1, Recorded)
    <3>1. SubSeq(<<>>, 1, 0) = <<>>
      BY SubSeqEmpty
    <3> QED
      BY <1>8, <3>1
  <2>3. Alone
    BY <1>1, <1>5 DEF Alone, Unraced, Saving
  <2> QED
    BY <1>1, <1>8, <2>1, <2>2, <2>3 DEF LogAgrees, Log, Saving
<1>10. SnapshotAgrees
  BY <1>1, <1>6 DEF SnapshotAgrees, Recover
<1> QED
  BY <1>4, <1>7, <1>9, <1>10 DEF IInv

\* So does the first start, with empty files.
LEMMA InitInv == Init => IInv
<1> SUFFICES ASSUME Init PROVE Fresh
  BY FreshInv
<1>1. Empty \in Store
  BY DEF Empty, Store, Stored
<1>2. Recover(Empty, <<>>) = Empty
  BY ReplayEmpty DEF Recover
<1>3. appendOnly \in BOOLEAN
  BY PersistenceAssumption DEF Init
<1>4. crashes \in 0 .. MaxCrashes
  BY PersistenceAssumption DEF Init
<1>5. <<>> \in Seq(Logged)
  OBVIOUS
<1>6. cutTail \in BOOLEAN /\ ~cutTail /\ raced = FALSE
  BY DEF Init
<1>7. data = Recover(snapshot, aofFile)
  BY <1>2 DEF Init
<1> QED
  BY <1>1, <1>3, <1>4, <1>5, <1>6, <1>7, Zenon DEF Init, Fresh

\* A crash, and recovery from the files it leaves.
LEMMA CrashInv ==
    ASSUME IInv, Crash, raced' = FALSE, UNCHANGED appendOnly
    PROVE  IInv'
<1> USE DEF IInv
<1>1. PICK s \in SurvivingSnapshots, a \in SurvivingAofs :
        /\ snapshot' = s /\ aofFile' = a.lines /\ cutTail' = a.cut /\ data' = Recover(s, a.lines)
  BY DEF Crash
<1>2. s \in Store
  <2>1. CASE saver.pc = "close"
    <3>1. PICK S \in SUBSET Key : s = [k \in Key |-> IF k \in S THEN saver.dump[k] ELSE None]
      BY <2>1 DEF SurvivingSnapshots
    <3>2. saver.dump \in Store
      BY DEF TypeInv, Saver
    <3> QED
      BY <3>1, <3>2 DEF Store, Stored
  <2>2. CASE saver.pc # "close"
    BY <2>2 DEF SurvivingSnapshots, TypeInv
  <2> QED
    BY <2>1, <2>2
<1>3. a.lines \in Seq(Logged) /\ a.cut \in BOOLEAN /\ (~TornTail => ~a.cut)
  <2>1. ASSUME NEW n \in 0 .. Len(aofBuffer)
        PROVE  SubSeq(aofBuffer, 1, n) \in Seq(Logged)
    <3>1. \A i \in 1 .. n : aofBuffer[i] \in Logged
      BY Types, ElementOfSeq
    <3> QED
      BY <3>1, Types, SubSeqProperties
  <2>2. CASE \E n \in 0 .. Len(aofBuffer) :
               a = [lines |-> Written(SubSeq(aofBuffer, 1, n)), cut |-> cutTail /\ n = 0]
    <3>1. PICK n \in 0 .. Len(aofBuffer) :
               a = [lines |-> Written(SubSeq(aofBuffer, 1, n)), cut |-> cutTail /\ n = 0]
      BY <2>2
    <3>2. Written(SubSeq(aofBuffer, 1, n)) \in Seq(Logged)
      BY <2>1, WrittenLemma
    <3>3. (cutTail /\ n = 0) \in BOOLEAN /\ (~TornTail => ~(cutTail /\ n = 0))
      BY DEF Executed
    <3> QED
      BY <3>1, <3>2, <3>3
  <2>3. CASE \E n \in IF TornTail THEN 0 .. Len(aofBuffer) - 1 ELSE {} :
               \E l \in Cut(aofBuffer[n + 1]) :
                  a = [lines |-> Written(SubSeq(aofBuffer, 1, n) \o <<l>>), cut |-> TRUE]
    <3>1. TornTail
      BY <2>3
    <3>2. PICK n \in 0 .. Len(aofBuffer) - 1 :
              \E l \in Cut(aofBuffer[n + 1]) :
                 a = [lines |-> Written(SubSeq(aofBuffer, 1, n) \o <<l>>), cut |-> TRUE]
      BY <2>3, <3>1
    <3> PICK l \in Cut(aofBuffer[n + 1]) :
                 a = [lines |-> Written(SubSeq(aofBuffer, 1, n) \o <<l>>), cut |-> TRUE]
      BY <3>2
    <3>3. n + 1 \in 1 .. Len(aofBuffer) /\ n \in 0 .. Len(aofBuffer)
      BY Types
    <3>4. aofBuffer[n + 1] \in Logged
      BY <3>3, Types, ElementOfSeq
    <3>5. l \in Logged
      BY <3>4, CutType
    <3>6. SubSeq(aofBuffer, 1, n) \o <<l>> \in Seq(Logged)
      <4>1. <<l>> \in Seq(Logged)
        BY <3>5
      <4> QED
        BY <2>1, <3>3, <4>1, ConcatProperties
    <3>7. Written(SubSeq(aofBuffer, 1, n) \o <<l>>) \in Seq(Logged)
      BY <3>6, WrittenLemma
    <3> QED
      BY <3>1, <3>7
  <2> QED
    BY <2>2, <2>3 DEF SurvivingAofs
<1>4. Recover(s, a.lines) \in Store
  BY <1>2, <1>3, ReplayType DEF Recover
<1>5. crashes' \in 0 .. MaxCrashes
  BY PersistenceAssumption DEF Crash, TypeInv
<1>6. Fresh'
  BY <1>1, <1>2, <1>3, <1>4, <1>5 DEF Fresh, Crash, TypeInv, Recover
<1>7. Fresh' => IInv'
  BY FreshInv, PTL
<1> QED
  BY <1>6, <1>7

\* A write: executed under the store's lock, recorded later.
LEMMA ExecuteInv ==
    ASSUME IInv, NEW c \in Conn, NEW l \in Line, Execute(c, l),
           raced' = (raced \/ Racing'), UNCHANGED appendOnly
    PROVE  IInv'
<1> USE DEF IInv
<1> DEFINE n == Len(history)
           t == [pc |-> "record", line |-> l, at |-> n + 1]
<1>1. /\ conn[c].pc = "idle" /\ n < MaxWrites /\ data' = Apply(data, l)
      /\ history' = Append(history, l)
      /\ UNCHANGED <<aofBuffer, aofFile, cutTail, snapshot, saver, base, durable, crashes>>
  BY DEF Execute
<1>2. l \in Logged /\ n \in Nat /\ history \in Seq(Logged) /\ conn \in [Conn -> Connection]
  BY Types DEF Logged, TypeInv
<1>3. /\ history' \in Seq(Logged) /\ Len(history') = n + 1 /\ history'[n + 1] = l
      /\ \A i \in 1 .. n : history'[i] = history[i]
  <2>1. history' = Append(history, l) /\ history \in Seq(Logged) /\ l \in Logged
    BY <1>1, <1>2
  <2> QED
    BY <2>1, AppendProperties
<1>4. conn' = [conn EXCEPT ![c] = t]
  BY <1>3 DEF Execute
<1>5. t \in Connection /\ t.pc = "record" /\ t.line = l /\ t.at = n + 1
  BY <1>1, <1>2, PersistenceAssumption DEF Connection
<1> HIDE DEF t
<1>6. /\ \A d \in Conn : conn'[d] = IF d = c THEN t ELSE conn[d]
      /\ conn' \in [Conn -> Connection]
  BY <1>2, <1>4, <1>5
<1>7. Pending' = Pending \cup {c} /\ c \notin Pending
  BY <1>1, <1>5, <1>6 DEF Pending
<1>8. raced' \in BOOLEAN /\ (~raced' => ~raced /\ Unraced')
  BY RacedLemma
<1>9. data' \in Store
  BY <1>1, <1>2, Types, ApplyType
<1>10. /\ durable' \in 0 .. Len(history') /\ saver' \in Saver /\ saver'.upTo <= Len(history')
  <2>1. durable \in 0 .. n /\ saver \in Saver /\ saver.upTo \in Nat /\ saver.upTo <= n
    BY Types DEF TypeInv, Saver
  <2>2. \A i, m \in Nat : i <= m => i <= m + 1 /\ i \in 0 .. m + 1
    OBVIOUS
  <2>3. durable \in Nat /\ durable <= n
    BY <1>2, <2>1
  <2>4. durable \in 0 .. n + 1 /\ saver.upTo <= n + 1
    BY <1>2, <2>1, <2>2, <2>3
  <2> QED
    BY <1>1, <1>3, <2>1, <2>4
<1>11. TypeInv'
  BY <1>1, <1>3, <1>6, <1>8, <1>9, <1>10 DEF TypeInv
<1>12. /\ \A i \in 0 .. n : After(i)' = After(i)
       /\ After(Len(history))' = Apply(After(n), l)
  BY <1>1, <1>2, AfterAppend
<1>13. Executed'
  <2>1. ASSUME NEW d \in Pending'
        PROVE  conn'[d].at \in 1 .. Len(history') /\ conn'[d].line = history'[conn'[d].at]
    <3>1. CASE d = c
      BY <1>2, <1>3, <1>5, <1>6, <3>1
    <3>2. CASE d # c
      <4>1. d \in Pending /\ conn'[d] = conn[d]
        BY <1>6, <1>7, <3>2 DEF Pending
      <4>2. conn[d].at \in 1 .. n /\ conn[d].line = history[conn[d].at]
        BY <4>1 DEF Executed
      <4> QED
        BY <1>2, <1>3, <4>1, <4>2
    <3> QED
      BY <3>1, <3>2
  <2>2. data' = After(Len(history))'
    BY <1>1, <1>12 DEF Executed
  <2> QED
    BY <1>1, <2>1, <2>2 DEF Executed
<1>14. LogAgrees'
  <2> SUFFICES ASSUME ~TornTail, appendOnly, ~raced' PROVE Log'
    BY DEF LogAgrees
  <2>1. Log /\ Unraced'
    BY <1>8 DEF LogAgrees
  <2>2. Pending = {}
    BY <1>7, <2>1 DEF Unraced
  <2>3. ~Saving' /\ ~Saving /\ saver.pc # "failed"
    BY <1>1, <1>7, <2>1 DEF Unraced, Saving
  <2>4. Alone'
    <3>1. \A d \in Pending' : conn'[d].at = Len(history')
      BY <1>3, <1>5, <1>6, <1>7, <2>2
    <3> QED
      BY <2>1, <3>1 DEF Alone
  <2>5. Recorded = n
    BY <2>2, RecordedLemma
  <2>6. Recorded' = n
    <3>1. c \in Pending' /\ Len(history') - 1 = n
      <4>1. c \in Pending'
        BY <1>7
      <4>2. \A i \in Nat : (i + 1) - 1 = i
        OBVIOUS
      <4>3. Len(history') - 1 = n
        BY <1>2, <1>3, <4>2
      <4> QED
        BY <4>1, <4>3
    <3>2. Recorded' = Len(history') - 1
      BY <1>11, <1>13, <2>4, <3>1, RecordedNext
    <3> QED
      BY <3>1, <3>2
  <2>7. Filed' = Filed /\ Filed \in Nat /\ Filed <= n
    <3>1. aofBuffer' = aofBuffer /\ Len(aofBuffer) \in Nat /\ n \in Nat
      BY <1>1, Types
    <3>2. Filed = n - Len(aofBuffer) /\ Filed' = n - Len(aofBuffer)
      BY <2>5, <2>6, <3>1 DEF Filed
    <3>3. Filed >= 0
      BY <2>1 DEF Log
    <3> QED
      BY <3>1, <3>2, <3>3
  <2>8. aofBuffer' = SubSeq(history', Filed' + 1, Recorded')
    BY <1>1, <1>2, <2>1, <2>5, <2>6, <2>7, SubSeqOfAppend DEF Log
  <2>9. After(Filed)' = After(Filed)
    <3>1. PICK f \in 0 .. n : f = Filed /\ f = Filed'
      BY <1>2, <2>7
    <3>2. After(f)' = After(f)
      BY <1>12
    <3> QED
      BY <3>1, <3>2 DEF After
  <2> QED
    BY <1>1, <2>1, <2>3, <2>4, <2>7, <2>8, <2>9 DEF Log, Saving
<1>15. SnapshotAgrees'
  <2> SUFFICES ASSUME ~appendOnly PROVE SnapshotAgrees'
    BY DEF SnapshotAgrees
  <2>1. ASSUME saver'.pc \notin {"dump", "close"} PROVE snapshot' = After(durable)'
    <3>1. PICK i \in 0 .. n : i = durable /\ i = durable'
      BY <1>1, Types
    <3>2. snapshot = After(i) /\ After(i)' = After(i)
      BY <1>1, <1>12, <2>1, <3>1 DEF SnapshotAgrees
    <3> QED
      BY <1>1, <3>1, <3>2 DEF After
  <2>2. ASSUME saver'.pc = "close"
        PROVE  /\ saver'.upTo \in durable' .. Len(history')
               /\ saver'.dump = After(saver.upTo)'
    <3>1. saver.upTo \in durable .. n /\ saver.dump = After(saver.upTo)
      BY <1>1, <2>2 DEF SnapshotAgrees
    <3>2. PICK i \in 0 .. n : i = saver.upTo /\ i = saver'.upTo
      BY <1>1, <3>1, Types
    <3>3. After(i)' = After(i)
      BY <1>12
    <3>4. saver'.upTo \in durable' .. Len(history')
      <4>1. durable \in Nat /\ durable' = durable /\ saver'.upTo = saver.upTo
        BY <1>1, Types
      <4>2. \A d, m \in Nat : d .. m \subseteq d .. m + 1
        OBVIOUS
      <4>3. saver.upTo \in durable .. n + 1
        BY <1>2, <3>1, <4>1, <4>2
      <4> QED
        BY <1>3, <4>1, <4>3
    <3> QED
      BY <1>1, <3>1, <3>2, <3>3, <3>4 DEF After
  <2> QED
    BY <2>1, <2>2 DEF SnapshotAgrees
<1> QED
  BY <1>11, <1>13, <1>14, <1>15

\* recordWrite: the line goes to the AOF's buffer.
LEMMA RecordWriteInv ==
    ASSUME IInv, NEW c \in Conn, RecordWrite(c),
           raced' = (raced \/ Racing'), UNCHANGED appendOnly
    PROVE  IInv'
<1> USE DEF IInv
<1> DEFINE n == Len(history)
<1>1. /\ conn[c].pc = "record" /\ saver.pc # "truncate"
      /\ aofBuffer' = IF appendOnly THEN Append(aofBuffer, conn[c].line) ELSE aofBuffer
      /\ conn' = [conn EXCEPT ![c] = Resting]
      /\ UNCHANGED <<data, aofFile, cutTail, snapshot, saver, history, base, durable, crashes>>
  BY DEF RecordWrite
<1>2. conn \in [Conn -> Connection] /\ Resting \in Connection /\ Resting.pc = "idle"
  BY PersistenceAssumption DEF TypeInv, Connection, Resting, Logged
<1>3. /\ \A d \in Conn : conn'[d] = IF d = c THEN Resting ELSE conn[d]
      /\ conn' \in [Conn -> Connection]
  BY <1>1, <1>2
<1>4. Pending' = Pending \ {c} /\ c \in Pending
  BY <1>1, <1>2, <1>3 DEF Pending
<1>5. raced' \in BOOLEAN /\ (~raced' => ~raced /\ Unraced')
  BY RacedLemma
<1>6. conn[c].line \in Logged
  BY <1>2 DEF Connection
<1>7. aofBuffer' \in Seq(Logged)
  BY <1>1, <1>6, Types, AppendProperties
<1>8. TypeInv'
  BY <1>1, <1>3, <1>5, <1>7 DEF TypeInv
<1>9. \A i : After(i)' = After(i)
  BY <1>1 DEF After
<1>10. Executed'
  <2>1. ASSUME NEW d \in Pending'
        PROVE  conn'[d].at \in 1 .. Len(history') /\ conn'[d].line = history'[conn'[d].at]
    <3>1. d \in Pending /\ conn'[d] = conn[d]
      BY <1>3, <1>4 DEF Pending
    <3> QED
      BY <1>1, <3>1 DEF Executed
  <2>2. data' = After(Len(history))'
    BY <1>1 DEF Executed, After
  <2>3. ~appendOnly' => aofBuffer' = <<>>
    BY <1>1 DEF Executed
  <2>4. ~TornTail => ~cutTail'
    BY <1>1 DEF Executed
  <2> QED
    BY <2>1, <2>2, <2>3, <2>4 DEF Executed
<1>11. LogAgrees'
  <2> SUFFICES ASSUME ~TornTail, appendOnly, ~raced' PROVE Log'
    BY DEF LogAgrees
  <2>1. Log /\ Unraced'
    BY <1>5 DEF LogAgrees
  <2>2. Alone /\ Unraced
    BY <2>1 DEF Log, Alone
  <2>3. Pending = {c} /\ Pending' = {}
    BY <1>4, <2>2 DEF Unraced
  <2>4. ~Saving /\ ~Saving'
    BY <1>1, <2>2, <2>3 DEF Unraced, Saving
  <2>5. Alone'
    BY <2>1, <2>3 DEF Alone
  <2>6. Recorded = n - 1 /\ conn[c].at = n /\ conn[c].line = history[n] /\ n \in 1 .. n
    BY <1>4, <2>2, RecordedLemma DEF Alone, Executed
  <2>7. Recorded' = n
    BY <1>1, <1>8, <1>10, <2>3, RecordedNext
  <2>8. n \in Nat /\ n - 1 \in Nat
    BY <2>6, Types
  <2>9. aofBuffer' = Append(aofBuffer, history[n]) /\ Len(aofBuffer') = Len(aofBuffer) + 1
    <3>1. aofBuffer' = Append(aofBuffer, history[n])
      BY <1>1, <1>6, <2>6
    <3>2. aofBuffer \in Seq(Logged) /\ history[n] \in Logged
      BY <2>6, Types, ElementOfSeq
    <3> QED
      BY <3>1, <3>2, AppendProperties
  <2>10. Filed' = Filed /\ Filed \in Nat /\ Filed <= n - 1
    BY <2>1, <2>6, <2>7, <2>8, <2>9, Types DEF Filed, Log
  <2>11. aofBuffer' = SubSeq(history', Filed' + 1, Recorded')
    <3>1. PICK m \in Nat : m = n - 1 /\ n = m + 1
      BY <2>8
    <3>2. PICK f \in Nat : f = Filed /\ f <= m
      BY <2>10, <3>1
    <3>3. SubSeq(history, f + 1, m + 1) = Append(SubSeq(history, f + 1, m), history[m + 1])
      <4>1. history \in Seq(Logged) /\ m < Len(history) /\ f <= m
        BY <3>1, <3>2, Types
      <4> HIDE DEF n
      <4> QED
        BY ONLY <4>1, f \in Nat, m \in Nat, SubSeqGrow, Zenon
    <3>4. aofBuffer = SubSeq(history, f + 1, m)
      BY <2>1, <2>6, <3>1, <3>2 DEF Log
    <3>5. Filed' = f /\ Recorded' = m + 1 /\ history' = history
      BY <1>1, <2>7, <2>10, <3>1, <3>2
    <3> QED
      BY <2>9, <3>1, <3>3, <3>4, <3>5
  <2>12. After(Filed)' = After(Filed)
    BY <1>1, <2>10 DEF After
  <2> QED
    BY <1>1, <2>1, <2>4, <2>5, <2>10, <2>11, <2>12 DEF Log, Saving
<1>12. SnapshotAgrees'
  <2>1. SnapshotAgrees
    OBVIOUS
  <2> QED
    BY <1>1, <2>1 DEF SnapshotAgrees, After
<1> QED
  BY <1>8, <1>10, <1>11, <1>12

\* When no write starts or is recorded, the writes there are do not change.
LEMMA SameWrites ==
    ASSUME history' = history, base' = base,
           \A d \in Conn : \/ conn'[d] = conn[d]
                           \/ conn'[d].pc # "record" /\ conn[d].pc # "record"
    PROVE  /\ Pending' = Pending /\ (\A d \in Pending : conn'[d] = conn[d])
           /\ Recorded' = Recorded
           /\ (\A i : After(i)' = After(i)) /\ After(Len(history))' = After(Len(history))
<1>1. Pending' = Pending /\ \A d \in Pending : conn'[d] = conn[d]
  BY DEF Pending
<1>2. {conn'[d].at - 1 : d \in Pending'} = {conn[d].at - 1 : d \in Pending}
  BY <1>1
<1>3. Recorded' = Recorded
  BY <1>2 DEF Recorded, Pending
<1> QED
  BY <1>1, <1>3 DEF After

\* The buffer's lines move to the file: every recorded write is in it.
LEMMA WriteOutLog ==
    ASSUME IInv, Log, ~TornTail, appendOnly, WriteOut, UNCHANGED <<conn, history, base>>
    PROVE  /\ Filed' = Recorded /\ Recorded' = Recorded
           /\ aofBuffer' = SubSeq(history', Filed' + 1, Recorded')
           /\ \A d \in Store : Replay(d, aofFile) = After(Filed) => Replay(d, aofFile') = After(Filed)'
<1> USE DEF IInv
<1>1. aofBuffer' = <<>> /\ aofFile' = aofFile \o aofBuffer
  BY WriteOutLemma
<1>2. Recorded' = Recorded /\ \A i : After(i)' = After(i)
  BY SameWrites
<1>3. Recorded \in 0 .. Len(history)
  BY RecordedLemma
<1>4. Filed' = Recorded
  BY <1>1, <1>2, <1>3, Types DEF Filed
<1>5. PICK f \in Nat : f = Filed
  <2>1. Filed >= 0
    BY DEF Log
  <2> QED
    BY <1>3, <2>1, Types DEF Filed
<1>6. PICK m \in Nat : m = Recorded /\ f <= m /\ m <= Len(history)
  BY <1>3, <1>5, Types DEF Filed
<1>7. aofBuffer = SubSeq(history, f + 1, m)
  BY <1>5, <1>6 DEF Log
<1>8. Replay(After(f), aofBuffer) = After(m)
  BY <1>6, <1>7, AfterMore
<1>9. ASSUME NEW d \in Store, Replay(d, aofFile) = After(Filed)
      PROVE  Replay(d, aofFile') = After(Filed)'
  <2>1. Replay(d, aofFile \o aofBuffer) = Replay(Replay(d, aofFile), aofBuffer)
    BY Types, ReplayConcat
  <2>2. Replay(d, aofFile') = After(m)
    BY <1>1, <1>5, <1>8, <1>9, <2>1
  <2> QED
    BY <1>4, <1>6, <2>2 DEF After
<1>10. aofBuffer' = SubSeq(history', Filed' + 1, Recorded')
  <2>1. SubSeq(history, m + 1, m) = <<>>
    BY <1>6, Types, SubSeqProperties
  <2> QED
    BY <1>1, <1>2, <1>4, <1>6, <2>1
<1> QED
  BY <1>2, <1>4, <1>9, <1>10

\* What the steps that only move or save lines keep.
LEMMA ExecutedKept ==
    ASSUME IInv, UNCHANGED <<data, history, base, appendOnly>>,
           \A d \in Conn : conn'[d] = conn[d] \/ conn'[d].pc # "record",
           ~TornTail => ~cutTail', ~appendOnly => aofBuffer' = <<>>
    PROVE  Executed'
<1> USE DEF IInv
<1>1. \A d \in Pending' : d \in Pending /\ conn'[d] = conn[d]
  BY DEF Pending
<1>2. ASSUME NEW d \in Pending'
      PROVE  conn'[d].at \in 1 .. Len(history') /\ conn'[d].line = history'[conn'[d].at]
  BY <1>1 DEF Executed
<1>3. data' = After(Len(history))'
  BY DEF Executed, After
<1> QED
  BY <1>2, <1>3 DEF Executed

\* Nothing is pending while a save has its dump: every write is recorded.
LEMMA SavingRecorded ==
    ASSUME IInv, Log, Saving
    PROVE  Pending = {} /\ Recorded = Len(history)
  BY RecordedLemma DEF IInv, Log, Alone, Unraced

\* The timer's flush.
LEMMA FlushInv ==
    ASSUME IInv, Flush, raced' = (raced \/ Racing'), UNCHANGED appendOnly
    PROVE  IInv'
<1> USE DEF IInv
<1>1. /\ saver.pc # "truncate" /\ WriteOut
      /\ UNCHANGED <<data, snapshot, saver, conn, history, base, crashes>>
  BY DEF Flush
<1>2. /\ aofFile' \in Seq(Logged) /\ cutTail' \in BOOLEAN /\ aofBuffer' = <<>>
      /\ durable' \in 0 .. Len(history)
      /\ ~TornTail => ~cutTail'
      /\ appendOnly => durable' = IF durable <= Recorded THEN Recorded ELSE durable
      /\ ~appendOnly => durable' = durable
  BY <1>1, WriteOutLemma
<1>3. raced' \in BOOLEAN /\ (~raced' => ~raced /\ Unraced')
  BY RacedLemma
<1>4. aofBuffer' \in Seq(Logged)
  BY <1>2
<1>5. TypeInv'
  BY <1>1, <1>2, <1>3, <1>4 DEF TypeInv
<1>6. Executed'
  BY <1>1, <1>2, ExecutedKept
<1>7. LogAgrees'
  <2> SUFFICES ASSUME ~TornTail, appendOnly, ~raced' PROVE Log'
    BY DEF LogAgrees
  <2>1. Log /\ Unraced'
    BY <1>3 DEF LogAgrees
  <2>2. /\ Filed' = Recorded /\ Recorded' = Recorded
        /\ aofBuffer' = SubSeq(history', Filed' + 1, Recorded')
        /\ \A d \in Store : Replay(d, aofFile) = After(Filed) => Replay(d, aofFile') = After(Filed)'
    BY <1>1, <2>1, WriteOutLog
  <2>3. Alone'
    BY <1>1, <2>1 DEF Log, Alone, Unraced, Pending, Saving
  <2>4. Recorded \in 0 .. Len(history) /\ Filed <= Recorded /\ durable \in 0 .. Len(history)
    BY RecordedLemma, Types DEF Filed
  <2>5. saver'.pc \in {"idle", "dump"} => durable' = Filed'
    BY <1>1, <1>2, <2>1, <2>2, <2>4 DEF Log
  <2>6. saver'.pc \in {"reset", "truncate"} => snapshot' = data' /\ durable' = Len(history')
    BY <1>1, <1>2, <2>1, <2>4, Types DEF Log
  <2>7. snapshot \in Store
    BY Types
  <2>8. Filed' >= 0
    BY <2>2, <2>4
  <2> QED
    BY <1>1, <2>1, <2>2, <2>3, <2>5, <2>6, <2>7, <2>8 DEF Log, Saving
<1>8. SnapshotAgrees'
  BY <1>1, <1>2 DEF SnapshotAgrees, After
<1> QED
  BY <1>5, <1>6, <1>7, <1>8

\* save() takes saveMutex_ and opens the snapshot file, or cannot.
LEMMA OpenInv ==
    ASSUME IInv, saver = Nobody, NEW who \in Conn \cup {"timer"}, NEW pc \in {"dump", "failed"},
           NEW opened, OpenSnapshot(opened), saver' = [Nobody EXCEPT !.pc = pc, !.by = who],
           conn' \in [Conn -> Connection],
           \A d \in Conn : \/ conn'[d] = conn[d]
                           \/ conn'[d].pc # "record" /\ conn[d].pc # "record",
           UNCHANGED <<data, aofBuffer, aofFile, cutTail, history, base, durable, crashes>>,
           raced' = (raced \/ Racing'), UNCHANGED appendOnly
    PROVE  IInv'
<1> USE DEF IInv
<1>1. Empty \in Store
  BY DEF Empty, Store, Stored
<1>2. /\ saver.pc = "idle" /\ saver'.pc = pc /\ saver'.upTo = 0
      /\ saver' \in Saver
  BY <1>1 DEF Nobody, Saver
<1>3. \/ pc = "dump" /\ snapshot' = Empty
      \/ pc = "failed" /\ snapshot' = snapshot
  BY <1>2 DEF OpenSnapshot
<1>4. raced' \in BOOLEAN /\ (~raced' => ~raced /\ Unraced')
  BY RacedLemma
<1>5. TypeInv'
  <2>1. snapshot' \in Store
    BY <1>1, <1>3, Types
  <2>2. saver'.upTo <= Len(history')
    BY <1>2, Types
  <2> QED
    BY <1>2, <1>4, <2>1, <2>2 DEF TypeInv
<1>6. Executed'
  <2>1. (~TornTail => ~cutTail') /\ (~appendOnly => aofBuffer' = <<>>)
    BY DEF Executed
  <2> QED
    BY <2>1, ExecutedKept
<1>7. /\ Pending' = Pending /\ (\A d \in Pending : conn'[d] = conn[d])
      /\ Recorded' = Recorded /\ Filed' = Filed
      /\ \A i : After(i)' = After(i)
  BY SameWrites DEF Filed
<1>8. LogAgrees'
  <2> SUFFICES ASSUME ~TornTail, appendOnly, ~raced' PROVE Log'
    BY DEF LogAgrees
  <2>1. Log /\ Unraced'
    BY <1>4 DEF LogAgrees
  <2>2. saver'.pc = "dump"
    BY <1>2, <2>1 DEF Unraced
  <2>3. Alone'
    BY <1>7, <2>1 DEF Log, Alone
  <2>4. durable' = Filed'
    BY <1>2, <1>7, <2>1 DEF Log
  <2>5. \E d \in Store : Replay(d, aofFile') = After(Filed)'
    BY <1>7, <2>1 DEF Log, After
  <2> QED
    BY <1>7, <2>1, <2>2, <2>3, <2>4, <2>5 DEF Log, Saving
<1>9. SnapshotAgrees'
  BY <1>2, <1>3 DEF SnapshotAgrees, After
<1> QED
  BY <1>5, <1>6, <1>8, <1>9

\* The timer's save takes saveMutex_ and opens the snapshot, or fails to.
LEMMA TimerSaveInv ==
    ASSUME IInv, TimerSave, raced' = (raced \/ Racing'), UNCHANGED appendOnly
    PROVE  IInv'
<1>1. /\ saver = Nobody
      /\ UNCHANGED <<data, aofBuffer, aofFile, cutTail, conn, history, base, durable, crashes>>
  BY DEF TimerSave
<1>2. PICK opened \in OpenOutcomes, pc \in {"dump", "failed"} :
          saver' = [Nobody EXCEPT !.pc = pc, !.by = "timer"] /\ OpenSnapshot(opened)
  BY DEF TimerSave
<1>3. conn' \in [Conn -> Connection] /\ \A d \in Conn : conn'[d] = conn[d]
  BY <1>1 DEF IInv, TypeInv
<1> QED
  BY <1>1, <1>2, <1>3, OpenInv

\* So does a client's SAVE, which makes its connection wait.
LEMMA SaveCommandInv ==
    ASSUME IInv, NEW c \in Conn, SaveCommand(c), raced' = (raced \/ Racing'), UNCHANGED appendOnly
    PROVE  IInv'
<1>1. /\ conn[c].pc = "idle" /\ saver = Nobody
      /\ conn' = [conn EXCEPT ![c].pc = "save"]
      /\ UNCHANGED <<data, aofBuffer, aofFile, cutTail, history, base, durable, crashes>>
  BY DEF SaveCommand
<1>2. PICK opened \in OpenOutcomes, pc \in {"dump", "failed"} :
          saver' = [Nobody EXCEPT !.pc = pc, !.by = c] /\ OpenSnapshot(opened)
  BY DEF SaveCommand
<1>3. conn \in [Conn -> Connection]
  BY DEF IInv, TypeInv
<1>4. /\ conn' \in [Conn -> Connection]
      /\ \A d \in Conn : \/ conn'[d] = conn[d]
                         \/ conn'[d].pc # "record" /\ conn[d].pc # "record"
  <2> DEFINE t == [conn[c] EXCEPT !.pc = "save"]
  <2>1. t \in Connection /\ t.pc = "save"
    <3>1. conn[c] \in Connection
      BY <1>3
    <3> QED
      BY <3>1 DEF Connection
  <2>2. conn' = [conn EXCEPT ![c] = t]
    BY <1>1
  <2> HIDE DEF t
  <2> QED
    BY <1>1, <1>3, <2>1, <2>2
<1> QED
  BY <1>1, <1>2, <1>4, OpenInv

\* forEach dumps the store.
LEMMA DumpInv ==
    ASSUME IInv, Dump, raced' = (raced \/ Racing'), UNCHANGED appendOnly
    PROVE  IInv'
<1> USE DEF IInv
<1>1. /\ saver.pc = "dump"
      /\ saver' = [saver EXCEPT !.pc = "close", !.dump = data, !.upTo = Len(history)]
      /\ UNCHANGED <<data, aofBuffer, aofFile, cutTail, snapshot, conn, history, base, durable,
                     crashes>>
  BY DEF Dump
<1>2. /\ saver'.pc = "close" /\ saver'.dump = data /\ saver'.upTo = Len(history)
      /\ saver' \in Saver
  <2>1. saver \in Saver
    BY DEF TypeInv
  <2> QED
    BY <1>1, <2>1, Types DEF Saver
<1>3. raced' \in BOOLEAN /\ (~raced' => ~raced /\ Unraced')
  BY RacedLemma
<1>4. TypeInv'
  <2>1. saver'.upTo <= Len(history')
    BY <1>1, <1>2, Types
  <2> QED
    BY <1>1, <1>2, <1>3, <2>1 DEF TypeInv
<1>5. Executed'
  <2>1. (~TornTail => ~cutTail') /\ (~appendOnly => aofBuffer' = <<>>)
    BY <1>1 DEF Executed
  <2> QED
    BY <1>1, <2>1, ExecutedKept
<1>6. Pending' = Pending /\ Recorded' = Recorded /\ Filed' = Filed
  BY <1>1, SameWrites DEF Filed
<1>7. LogAgrees'
  <2> SUFFICES ASSUME ~TornTail, appendOnly, ~raced' PROVE Log'
    BY DEF LogAgrees
  <2>1. Log /\ Unraced'
    BY <1>3 DEF LogAgrees
  <2>2. Alone'
    BY <1>1, <1>6, <2>1 DEF Log, Alone
  <2>3. \E d \in Store : Replay(d, aofFile') = After(Filed)'
    BY <1>1, <1>6, <2>1 DEF Log, After
  <2> QED
    BY <1>1, <1>2, <1>6, <2>1, <2>2, <2>3 DEF Log, Saving
<1>8. SnapshotAgrees'
  <2>1. saver'.upTo \in durable' .. Len(history')
    BY <1>1, <1>2, Types
  <2>2. saver'.dump = After(saver.upTo)'
    BY <1>1, <1>2 DEF Executed, After
  <2> QED
    BY <1>2, <2>1, <2>2 DEF SnapshotAgrees
<1> QED
  BY <1>4, <1>5, <1>7, <1>8

\* The new snapshot is complete on disk.
LEMMA CloseSnapshotInv ==
    ASSUME IInv, CloseSnapshot, raced' = (raced \/ Racing'), UNCHANGED appendOnly
    PROVE  IInv'
<1> USE DEF IInv
<1>1. /\ saver.pc = "close" /\ snapshot' = saver.dump
      /\ saver' = [saver EXCEPT !.pc = "reset"] /\ durable' = Max({durable, saver.upTo})
      /\ UNCHANGED <<data, aofBuffer, aofFile, cutTail, conn, history, base, crashes>>
  BY DEF CloseSnapshot
<1>2. saver \in Saver /\ saver.upTo <= Len(history)
  BY DEF TypeInv
<1>3. /\ saver'.pc = "reset" /\ saver'.dump = saver.dump /\ saver'.upTo = saver.upTo
      /\ saver' \in Saver /\ saver.dump \in Store /\ saver.upTo \in 0 .. Len(history)
  BY <1>1, <1>2, Types DEF Saver
<1>4. durable' = IF durable <= saver.upTo THEN saver.upTo ELSE durable
  BY <1>1, <1>3, Types, MaxLemma
<1>5. raced' \in BOOLEAN /\ (~raced' => ~raced /\ Unraced')
  BY RacedLemma
<1>6. TypeInv'
  <2>1. durable' \in 0 .. Len(history')
    BY <1>1, <1>3, <1>4, Types
  <2>2. snapshot' \in Store /\ saver'.upTo <= Len(history')
    BY <1>1, <1>2, <1>3
  <2> QED
    BY <1>1, <1>3, <1>5, <2>1, <2>2 DEF TypeInv
<1>7. Executed'
  <2>1. (~TornTail => ~cutTail') /\ (~appendOnly => aofBuffer' = <<>>)
    BY <1>1 DEF Executed
  <2> QED
    BY <1>1, <2>1, ExecutedKept
<1>8. LogAgrees'
  <2> SUFFICES ASSUME ~TornTail, appendOnly, ~raced' PROVE Log'
    BY DEF LogAgrees
  <2>1. Log /\ Unraced'
    BY <1>5 DEF LogAgrees
  <2>2. Pending' = Pending /\ Recorded' = Recorded /\ Filed' = Filed
    BY <1>1, SameWrites DEF Filed
  <2>3. Alone'
    BY <1>1, <2>1, <2>2 DEF Log, Alone
  <2>4. saver.dump = data /\ saver.upTo = Len(history)
    BY <1>1, <2>1 DEF Log, Saving
  <2>5. durable' = Len(history)
    BY <1>4, <2>4, Types
  <2>6. \E d \in Store : Replay(d, aofFile') = After(Filed)'
    BY <1>1, <2>1, <2>2 DEF Log, After
  <2> QED
    BY <1>1, <1>3, <2>1, <2>2, <2>3, <2>4, <2>5, <2>6 DEF Log
<1>9. SnapshotAgrees'
  <2> SUFFICES ASSUME ~appendOnly PROVE snapshot' = After(durable)'
    BY <1>3 DEF SnapshotAgrees
  <2>1. saver.upTo \in durable .. Len(history) /\ saver.dump = After(saver.upTo)
    BY <1>1 DEF SnapshotAgrees
  <2>2. durable' = saver.upTo
    BY <1>4, <2>1, Types
  <2> QED
    BY <1>1, <2>1, <2>2 DEF After
<1> QED
  BY <1>6, <1>7, <1>8, <1>9

\* reset closes the AOF.
LEMMA ResetCloseInv ==
    ASSUME IInv, ResetClose, raced' = (raced \/ Racing'), UNCHANGED appendOnly
    PROVE  IInv'
<1> USE DEF IInv
<1>1. /\ saver.pc \in {"reset", "failed"} /\ WriteOut
      /\ saver' = [saver EXCEPT !.pc = "truncate"]
      /\ UNCHANGED <<data, snapshot, conn, history, base, crashes>>
  BY DEF ResetClose
<1>2. /\ aofFile' \in Seq(Logged) /\ cutTail' \in BOOLEAN /\ aofBuffer' = <<>>
      /\ durable' \in 0 .. Len(history)
      /\ ~TornTail => ~cutTail'
      /\ appendOnly => durable' = IF durable <= Recorded THEN Recorded ELSE durable
      /\ ~appendOnly => durable' = durable
  BY <1>1, WriteOutLemma
<1>3. saver \in Saver /\ saver.upTo <= Len(history)
  BY DEF TypeInv
<1>4. /\ saver'.pc = "truncate" /\ saver'.dump = saver.dump /\ saver'.upTo = saver.upTo
      /\ saver' \in Saver
  BY <1>1, <1>3 DEF Saver
<1>5. raced' \in BOOLEAN /\ (~raced' => ~raced /\ Unraced')
  BY RacedLemma
<1>6. TypeInv'
  <2>1. aofBuffer' \in Seq(Logged) /\ saver'.upTo <= Len(history')
    BY <1>1, <1>2, <1>3, <1>4
  <2> QED
    BY <1>1, <1>2, <1>4, <1>5, <2>1 DEF TypeInv
<1>7. Executed'
  BY <1>1, <1>2, ExecutedKept
<1>8. LogAgrees'
  <2> SUFFICES ASSUME ~TornTail, appendOnly, ~raced' PROVE Log'
    BY DEF LogAgrees
  <2>1. Log /\ Unraced'
    BY <1>5 DEF LogAgrees
  <2>2. /\ Filed' = Recorded /\ Recorded' = Recorded
        /\ aofBuffer' = SubSeq(history', Filed' + 1, Recorded')
        /\ \A d \in Store : Replay(d, aofFile) = After(Filed) => Replay(d, aofFile') = After(Filed)'
    BY <1>1, <2>1, WriteOutLog
  <2>3. saver.pc = "reset" /\ Saving
    BY <1>1, <2>1 DEF Log, Alone, Unraced, Saving
  <2>4. Pending = {} /\ Recorded = Len(history) /\ durable = Len(history)
    BY <2>1, <2>3, SavingRecorded DEF Log
  <2>5. Pending' = {}
    BY <1>1, <2>4 DEF Pending
  <2>6. Alone'
    BY <2>1, <2>5 DEF Alone
  <2>7. durable' = Len(history) /\ Filed' >= 0
    BY <1>2, <2>2, <2>4, Types
  <2> QED
    BY <1>1, <1>2, <1>4, <2>1, <2>2, <2>3, <2>6, <2>7 DEF Log
<1>9. SnapshotAgrees'
  BY <1>1, <1>2, <1>4 DEF SnapshotAgrees, After
<1> QED
  BY <1>6, <1>7, <1>8, <1>9

\* reset opens the AOF anew; the saver is done.
LEMMA ResetOpenInv ==
    ASSUME IInv, ResetOpen, raced' = (raced \/ Racing'), UNCHANGED appendOnly
    PROVE  IInv'
<1> USE DEF IInv
<1>1. /\ saver.pc = "truncate" /\ aofFile' = <<>> /\ cutTail' = FALSE /\ saver' = Nobody
      /\ conn' = [c \in Conn |-> IF saver.by = c THEN Resting ELSE conn[c]]
      /\ UNCHANGED <<data, aofBuffer, snapshot, history, base, durable, crashes>>
  BY DEF ResetOpen
<1>2. conn \in [Conn -> Connection] /\ Resting \in Connection /\ Resting.pc = "idle"
  BY PersistenceAssumption DEF TypeInv, Connection, Resting, Logged
<1>3. /\ conn' \in [Conn -> Connection]
      /\ \A d \in Conn : conn'[d] = conn[d] \/ conn'[d].pc # "record"
  BY <1>1, <1>2
<1>4. saver' \in Saver /\ saver'.pc = "idle" /\ saver'.upTo = 0
  BY <1>1 DEF Nobody, Saver, Empty, Store, Stored
<1>5. raced' \in BOOLEAN /\ (~raced' => ~raced /\ Unraced')
  BY RacedLemma
<1>6. TypeInv'
  <2>1. aofFile' \in Seq(Logged)
    BY <1>1
  <2>2. saver'.upTo <= Len(history')
    <3>1. history' = history /\ saver'.upTo = 0
      BY <1>1, <1>4
    <3>2. Len(history) \in Nat
      BY Types
    <3> QED
      BY <3>1, <3>2
  <2> QED
    BY <1>1, <1>3, <1>4, <1>5, <2>1, <2>2 DEF TypeInv
<1>7. Executed'
  <2>1. (~TornTail => ~cutTail') /\ (~appendOnly => aofBuffer' = <<>>)
    BY <1>1 DEF Executed
  <2> QED
    BY <1>1, <1>3, <2>1, ExecutedKept
<1>8. LogAgrees'
  <2> SUFFICES ASSUME ~TornTail, appendOnly, ~raced' PROVE Log'
    BY DEF LogAgrees
  <2>1. Log /\ Unraced' /\ Saving
    BY <1>1, <1>5 DEF LogAgrees, Saving
  <2>2. /\ Pending = {} /\ snapshot = data /\ durable = Len(history) /\ aofBuffer = <<>>
    BY <1>1, <2>1, SavingRecorded DEF Log
  <2>3. Pending' = {}
    BY <1>3, <2>2 DEF Pending
  <2>4. Alone'
    BY <2>1, <2>3 DEF Alone
  <2>5. Recorded' = Len(history)
    BY <1>1, <1>6, <1>7, <2>3, RecordedNext
  <2>6. Filed' = Len(history) /\ Filed' >= 0
    <3>1. Filed' = Len(history) - 0
      BY <1>1, <2>2, <2>5 DEF Filed
    <3> QED
      BY <3>1, Types
  <2>7. aofBuffer' = SubSeq(history', Filed' + 1, Recorded')
    <3>1. SubSeq(history, Len(history) + 1, Len(history)) = <<>>
      BY Types, SubSeqProperties
    <3> QED
      BY <1>1, <2>2, <2>5, <2>6, <3>1
  <2>8. Replay(snapshot', aofFile') = After(Filed)'
    BY <1>1, <2>2, <2>6, ReplayEmpty DEF Executed, After
  <2>9. snapshot' \in Store
    BY <1>6 DEF TypeInv
  <2> QED
    BY <1>1, <1>4, <2>2, <2>4, <2>6, <2>7, <2>8, <2>9 DEF Log, Saving
<1>9. SnapshotAgrees'
  BY <1>1, <1>4 DEF SnapshotAgrees, After
<1> QED
  BY <1>6, <1>7, <1>8, <1>9

\* Every step of the server, and every crash with its recovery, keeps the invariant.
LEMMA NextInv == IInv /\ [Next]_vars => IInv'
<1> SUFFICES ASSUME IInv, [Next]_vars PROVE IInv'
  OBVIOUS
<1>1. CASE UNCHANGED vars
  BY <1>1, ZenonT(60) DEF vars, IInv, TypeInv, Executed, LogAgrees, Log, SnapshotAgrees, Alone, Unraced,
              Pending, Filed, Saving, Recorded, After
<1>2. CASE Server /\ raced' = (raced \/ Racing') /\ UNCHANGED appendOnly
  BY <1>2, ExecuteInv, RecordWriteInv, SaveCommandInv, FlushInv, TimerSaveInv, DumpInv,
     CloseSnapshotInv, ResetCloseInv, ResetOpenInv DEF Server
<1>3. CASE Crash /\ raced' = FALSE /\ UNCHANGED appendOnly
  BY <1>3, CrashInv
<1> QED
  BY <1>1, <1>2, <1>3 DEF Next

-----------------------------------------------------------------------------
\* The invariant holds at every step of every behaviour.
THEOREM Invariance == Spec => []IInv
  BY InitInv, NextInv, PTL DEF Spec

\* Every variable keeps its type, with torn files and racing writes too.
THEOREM TypeCorrect == Spec => []TypeOK
<1>1. IInv => TypeOK
  <2> SUFFICES ASSUME IInv PROVE TypeOK
    OBVIOUS
  <2>1. TypeInv
    BY DEF IInv
  <2>2. saver \in Saver /\ saver.upTo <= Len(history) /\ Len(history) \in Nat
    BY <2>1, Types DEF TypeInv
  <2>3. /\ saver.pc \in {"idle", "dump", "close", "failed", "reset", "truncate"}
        /\ saver.by \in Conn \cup {"nobody", "timer"}
        /\ saver.dump \in Store /\ saver.upTo \in 0 .. Len(history)
    BY <2>2 DEF Saver
  <2>4. {appendOnly, raced} \subseteq BOOLEAN /\ cutTail \in BOOLEAN
    BY <2>1 DEF TypeInv
  <2>5. {data, base, snapshot, saver.dump} \subseteq Store
    BY <2>1, <2>3 DEF TypeInv
  <2>6. {aofBuffer, aofFile, history} \subseteq Seq(Logged)
    BY <2>1 DEF TypeInv
  <2>7. {durable, saver.upTo} \subseteq 0 .. Len(history) /\ crashes \in 0 .. MaxCrashes
    BY <2>1, <2>3 DEF TypeInv
  <2>8. conn \in [Conn -> Connection]
    BY <2>1 DEF TypeInv
  <2> QED
    BY <2>3, <2>4, <2>5, <2>6, <2>7, <2>8, Zenon DEF TypeOK, Store, Stored, Torn, Logged,
       Connection
<1> QED
  BY <1>1, Invariance, PTL

\* With whole lines, a crash leaves the file and some of the buffer's lines.
LEMMA WholeLines ==
    ASSUME IInv, ~TornTail, NEW a \in SurvivingAofs
    PROVE  \E n \in 0 .. Len(aofBuffer) :
              /\ a.lines = aofFile \o SubSeq(aofBuffer, 1, n)
              /\ SubSeq(aofBuffer, 1, n) \in Seq(Logged)
<1> USE DEF IInv
<1>1. PICK n \in 0 .. Len(aofBuffer) :
        a = [lines |-> Written(SubSeq(aofBuffer, 1, n)), cut |-> cutTail /\ n = 0]
  BY DEF SurvivingAofs
<1>2. SubSeq(aofBuffer, 1, n) \in Seq(Logged)
  <2>1. \A i \in 1 .. n : aofBuffer[i] \in Logged
    BY Types, ElementOfSeq
  <2> QED
    BY <2>1, Types, SubSeqProperties
<1>3. ~cutTail
  BY DEF Executed
<1>4. Written(SubSeq(aofBuffer, 1, n)) = aofFile \o SubSeq(aofBuffer, 1, n)
  BY <1>2, <1>3, WrittenLemma
<1>5. a.lines = Written(SubSeq(aofBuffer, 1, n))
  BY <1>1
<1> QED
  BY <1>2, <1>4, <1>5

\* Recovery while no save is running: the snapshot, the file and the part of
\* the buffer that reached it are the writes up to some point.
LEMMA RecoveryIdle ==
    ASSUME IInv, ~TornTail, appendOnly, ~raced, saver.pc = "idle", NEW a \in SurvivingAofs
    PROVE  \E i \in durable .. Len(history) : Replay(snapshot, a.lines) = After(i)
<1> USE DEF IInv
<1>1. Log
  BY DEF LogAgrees
<1>2. Recorded \in 0 .. Len(history)
  BY RecordedLemma
<1>3. PICK f \in Nat : f = Filed /\ durable = f /\ Replay(snapshot, aofFile) = After(f)
  BY <1>1, <1>2, Types DEF Filed, Log
<1>4. PICK m \in Nat : m = Recorded /\ f <= m /\ m <= Len(history) /\ Len(aofBuffer) = m - f
  BY <1>2, <1>3, Types DEF Filed
<1>5. aofBuffer = SubSeq(history, f + 1, m)
  BY <1>1, <1>3, <1>4 DEF Log
<1>6. PICK n \in 0 .. Len(aofBuffer) :
         /\ a.lines = aofFile \o SubSeq(aofBuffer, 1, n)
         /\ SubSeq(aofBuffer, 1, n) \in Seq(Logged)
  BY WholeLines
<1>7. n \in 0 .. m - f /\ f + n \in Nat /\ f <= f + n /\ f + n <= Len(history)
  BY <1>4, <1>6, Types
<1>8. SubSeq(aofBuffer, 1, n) = SubSeq(history, f + 1, f + n)
  <2>1. \A j \in 0 .. m - f :
           SubSeq(SubSeq(history, f + 1, m), 1, j) = SubSeq(history, f + 1, f + j)
    BY <1>4, Types, PartOfSubSeq
  <2> QED
    BY <1>5, <1>7, <2>1
<1>9. Replay(snapshot, a.lines) = Replay(After(f), SubSeq(aofBuffer, 1, n))
  <2> DEFINE b == SubSeq(aofBuffer, 1, n)
  <2>1. b \in Seq(Logged) /\ a.lines = aofFile \o b
    BY <1>6
  <2> HIDE DEF b
  <2>2. Replay(snapshot, aofFile \o b) = Replay(Replay(snapshot, aofFile), b)
    BY <2>1, Types, ReplayConcat
  <2> QED
    BY <1>3, <2>1, <2>2 DEF b
<1>10. Replay(After(f), SubSeq(history, f + 1, f + n)) = After(f + n)
  BY <1>7, AfterMore
<1>11. f + n \in durable .. Len(history)
  BY <1>3, <1>7, Types
<1> QED
  BY <1>8, <1>9, <1>10, <1>11

\* Recovery between the new snapshot and the truncation of an AOF without
\* INCR: replaying on the snapshot the lines it holds already is harmless.
LEMMA RecoveryTruncating ==
    ASSUME IInv, ~TornTail, appendOnly, ~raced, saver.pc = "truncate",
           \A i \in DOMAIN aofFile : aofFile[i].op # "INCR", NEW a \in SurvivingAofs
    PROVE  \E i \in durable .. Len(history) : Replay(snapshot, a.lines) = After(i)
<1> USE DEF IInv
<1>1. Log
  BY DEF LogAgrees
<1>2. Recorded = Len(history)
  BY <1>1, SavingRecorded DEF Saving
<1>3. aofBuffer = <<>> /\ durable = Len(history) /\ snapshot = After(Len(history))
  BY <1>1 DEF Log, Executed
<1>4. Filed = Len(history)
  BY <1>2, <1>3, Types DEF Filed
<1>5. PICK e \in Store : Replay(e, aofFile) = After(Filed)
  BY <1>1 DEF Log
<1>6. a.lines = aofFile
  <2>1. PICK n \in 0 .. Len(aofBuffer) :
           a.lines = aofFile \o SubSeq(aofBuffer, 1, n) /\ SubSeq(aofBuffer, 1, n) \in Seq(Logged)
    BY WholeLines
  <2>2. n = 0 /\ SubSeq(<<>>, 1, 0) = <<>>
    BY <1>3
  <2> QED
    BY <1>3, <2>1, <2>2, Types, ConcatEmptySeq
<1>7. \A i \in 1 .. Len(aofFile) : aofFile[i].op # "INCR"
  BY Types
<1>8. Replay(Replay(e, aofFile), aofFile) = Replay(e, aofFile)
  BY <1>7, Types, ReplayTwice
<1>9. Len(history) \in durable .. Len(history)
  BY <1>3, Types
<1> QED
  BY <1>3, <1>4, <1>5, <1>6, <1>8, <1>9

(* When a crash leaves whole lines in the AOF, recover() brings back the   *)
(* store as it was after some write, none of those flushed or saved lost,  *)
(* in every state in which snapshot and AOF can be expected to agree; for  *)
(* any number of writers, saves and earlier crashes.                       *)
THEOREM AlwaysCrashConsistent ==
    ASSUME ~TornTail
    PROVE  Spec => []CrashConsistent
<1>1. IInv => CrashConsistent
  <2> SUFFICES ASSUME IInv, FilesAgree, NEW d \in Recoverable
               PROVE  \E i \in durable .. Len(history) : d = After(i)
    BY DEF CrashConsistent
  <2>1. PICK s \in SurvivingSnapshots, a \in SurvivingAofs : d = Recover(s, a.lines)
    BY DEF Recoverable
  <2>2. s = snapshot
    BY DEF FilesAgree, SurvivingSnapshots
  <2>3. CASE appendOnly
    <3>1. d = Replay(snapshot, a.lines)
      BY <2>1, <2>2, <2>3 DEF Recover
    <3>2. CASE saver.pc = "idle"
      BY <2>3, <3>1, <3>2, RecoveryIdle DEF FilesAgree
    <3>3. CASE saver.pc = "truncate" /\ \A i \in DOMAIN aofFile : aofFile[i].op # "INCR"
      BY <2>3, <3>1, <3>3, RecoveryTruncating DEF FilesAgree
    <3> QED
      BY <2>3, <3>2, <3>3 DEF FilesAgree
  <2>4. CASE ~appendOnly
    <3>1. d = After(durable)
      BY <2>1, <2>2, <2>4 DEF Recover, FilesAgree, SnapshotAgrees, IInv
    <3>2. durable \in durable .. Len(history)
      BY Types DEF IInv
    <3> QED
      BY <3>1, <3>2
  <2> QED
    BY <2>3, <2>4
<1> QED
  BY <1>1, Invariance, PTL
=============================================================================
