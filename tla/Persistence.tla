---------------------------- MODULE Persistence -----------------------------
(***************************************************************************)
(* The durable side of the server: connection threads that execute a write *)
(* and then append its line to the AOF (server_main.cpp), the AOF writer,  *)
(* the snapshot and the save that ties them together (persistence/), and a *)
(* process crash at any point followed by recovery.  The store is its map  *)
(* (KVStore implements it); a snapshot, which holds one SET line per key,  *)
(* is the map it replays to.                                               *)
(***************************************************************************)
EXTENDS Integers, SequencesExt

CONSTANTS Key,
          Conn,          \* connection threads
          KeysOf,        \* the keys each connection writes
          Op,            \* commands clients send: SET, DEL, INCR, SAVE
          Val,           \* values clients SET
          AppendOnlyModes, \* config appendonly may be any of these
          TimerSaves,    \* config save_interval > 0
          OpenOutcomes,  \* may opening the snapshot file fail?
          TornTail,      \* may the AOF's buffer reach the file in mid-line?
          MaxWrites, MaxCrashes  \* bounds

None == -1       \* key not in the store
NotInt == -2     \* a value INCR rejects
Shortened == -3  \* what is left of such a value without its last characters

ASSUME PersistenceAssumption ==
    /\ KeysOf \in [Conn -> SUBSET Key]
    /\ Op \subseteq {"SET", "DEL", "INCR", "SAVE"}
    /\ Val \subseteq (Nat \ {0}) \cup {NotInt}
    /\ OpenOutcomes \subseteq BOOLEAN
    /\ {TimerSaves, TornTail} \cup AppendOnlyModes \subseteq BOOLEAN
    /\ {MaxWrites, MaxCrashes} \subseteq Nat

VARIABLES appendOnly, \* config appendonly
          data,      \* KVStore: [Key -> value or None]
          aofBuffer, \* lines in AofWriter's ofstream buffer
          aofFile,   \* lines in the AOF file
          cutTail,   \* the file's last line has no newline
          snapshot,  \* the snapshot file
          saver,     \* who holds saveMutex_, and where in save() they are
          conn,      \* [pc, line, at] of each thread; at is its place in history
          history,   \* writes executed since the last start, in store order
          base,      \* the store at that start
          durable,   \* how many of them, from the first on, a flush or save covers
          raced,     \* history: did writes overlap since the last start (see Racing)?
          crashes

vars == <<appendOnly, data, aofBuffer, aofFile, cutTail, snapshot, saver, conn, history, base,
          durable, raced, crashes>>

Empty == [k \in Key |-> None]
\* A line of the AOF.  DECR is to lines what INCR is, SET with EX what SET is;
\* EXPIRE and PERSIST lines leave the values alone, and TTLs, which neither
\* file keeps exactly, are not part of this model.
Line == [op : {"SET"}, key : Key, val : Val] \cup [op : {"DEL", "INCR"}, key : Key, val : {0}]
Garbage == [op |-> "garbage"]  \* a line the parser or the executor rejects

\* execute answers with an error: nothing is recorded.
Fails(d, l) == l.op = "INCR" /\ d[l.key] \in {NotInt, Shortened}

\* A variant in which DEL leaves an empty value behind.
ApplyKeepingKey(d, l) ==
    CASE l.op = "SET" -> [d EXCEPT ![l.key] = l.val]
      [] l.op = "DEL" -> [d EXCEPT ![l.key] = 0]
      [] OTHER -> d

\* The effect of executing, or replaying, one line.
Apply(d, l) ==
    CASE l.op = "SET" -> [d EXCEPT ![l.key] = l.val]
      [] l.op = "DEL" -> [d EXCEPT ![l.key] = None]
      [] l.op = "INCR" /\ ~Fails(d, l) -> [d EXCEPT ![l.key] = IF @ = None THEN 1 ELSE @ + 1]
      [] OTHER -> d

\* replayLines, one line after the other.
Replay(d, lines) ==
    LET r[i \in 0 .. Len(lines)] == IF i = 0 THEN d ELSE Apply(r[i - 1], lines[i])
    IN  r[Len(lines)]

Nobody == [pc |-> "idle", by |-> "nobody", dump |-> Empty, upTo |-> 0]
Resting == [pc |-> "idle", line |-> Garbage, at |-> 0]

Init == /\ appendOnly \in AppendOnlyModes
        /\ data = Empty /\ base = Empty /\ snapshot = Empty
        /\ aofBuffer = <<>> /\ aofFile = <<>> /\ history = <<>>
        /\ cutTail = FALSE
        /\ saver = Nobody
        /\ conn = [c \in Conn |-> Resting]
        /\ durable = 0 /\ crashes = 0 /\ raced = FALSE

-----------------------------------------------------------------------------
(* Connection threads: execute, then recordAndPropagateIfWrite, then reply. *)

Execute(c, l) ==
    /\ l.op \in Op /\ l.key \in KeysOf[c]
    /\ conn[c].pc = "idle"
    /\ Len(history) < MaxWrites
    /\ ~Fails(data, l)
    /\ data' = Apply(data, l)
    /\ history' = Append(history, l)
    /\ conn' = [conn EXCEPT ![c] = [pc |-> "record", line |-> l, at |-> Len(history')]]
    /\ UNCHANGED <<aofBuffer, aofFile, cutTail, snapshot, saver, base, durable, crashes>>

\* AofWriter::append; the reply follows.  reset() holds the writer's lock.
RecordWrite(c) ==
    /\ conn[c].pc = "record"
    /\ saver.pc # "truncate"
    /\ aofBuffer' = IF appendOnly THEN Append(aofBuffer, conn[c].line) ELSE aofBuffer
    /\ conn' = [conn EXCEPT ![c] = Resting]
    /\ UNCHANGED <<data, aofFile, cutTail, snapshot, saver, history, base, durable, crashes>>

-----------------------------------------------------------------------------
(* The AOF file. *)

(* The file once lines have been written behind what it holds.  A line     *)
(* without newline runs into the next one; the two make no command (a      *)
(* wrong number of arguments) on any key of the model.                     *)
Written(lines) ==
    IF cutTail /\ lines # <<>> THEN Front(aofFile) \o <<Garbage>> \o Tail(lines)
    ELSE aofFile \o lines

\* The writes before the first one that is not in the AOF yet.
Recorded ==
    Min({Len(history)} \cup {conn[c].at - 1 : c \in {d \in Conn : conn[d].pc = "record"}})

WriteOut ==
    /\ aofFile' = Written(aofBuffer)
    /\ cutTail' = (cutTail /\ aofBuffer = <<>>)
    /\ aofBuffer' = <<>>
    /\ durable' = IF appendOnly THEN Max({durable, Recorded}) ELSE durable

\* The timer's once-a-second task.
Flush ==
    /\ saver.pc # "truncate"
    /\ WriteOut
    /\ UNCHANGED <<data, snapshot, saver, conn, history, base, crashes>>

-----------------------------------------------------------------------------
(* save(): the snapshot file is rewritten in place, then the AOF is reset. *)

OpenSnapshot(opened) ==
    \/ opened /\ snapshot' = Empty /\ saver'.pc = "dump"
    \/ ~opened /\ UNCHANGED snapshot /\ saver'.pc = "failed"

\* The timer's task, on a pool thread, takes saveMutex_.
TimerSave ==
    /\ TimerSaves
    /\ saver = Nobody
    /\ \E opened \in OpenOutcomes, pc \in {"dump", "failed"} :
          saver' = [Nobody EXCEPT !.pc = pc, !.by = "timer"] /\ OpenSnapshot(opened)
    /\ UNCHANGED <<data, aofBuffer, aofFile, cutTail, conn, history, base, durable, crashes>>

\* SAVE, on a connection's thread, takes saveMutex_.
SaveCommand(c) ==
    /\ "SAVE" \in Op
    /\ conn[c].pc = "idle"
    /\ saver = Nobody
    /\ \E opened \in OpenOutcomes, pc \in {"dump", "failed"} :
          saver' = [Nobody EXCEPT !.pc = pc, !.by = c] /\ OpenSnapshot(opened)
    /\ conn' = [conn EXCEPT ![c].pc = "save"]
    /\ UNCHANGED <<data, aofBuffer, aofFile, cutTail, history, base, durable, crashes>>

\* forEach, under the store's lock, into the file's buffer.
Dump ==
    /\ saver.pc = "dump"
    /\ saver' = [saver EXCEPT !.pc = "close", !.dump = data, !.upTo = Len(history)]
    /\ UNCHANGED <<data, aofBuffer, aofFile, cutTail, snapshot, conn, history, base, durable,
                   crashes>>

CloseSnapshot ==
    /\ saver.pc = "close"
    /\ snapshot' = saver.dump
    /\ saver' = [saver EXCEPT !.pc = "reset"]
    /\ durable' = Max({durable, saver.upTo})
    /\ UNCHANGED <<data, aofBuffer, aofFile, cutTail, conn, history, base, crashes>>

\* AofWriter::reset: close() writes the buffer out, open() truncates; also
\* when the snapshot could not be opened.
ResetClose ==
    /\ saver.pc \in {"reset", "failed"}
    /\ WriteOut
    /\ saver' = [saver EXCEPT !.pc = "truncate"]
    /\ UNCHANGED <<data, snapshot, conn, history, base, crashes>>

ResetOpen ==
    /\ saver.pc = "truncate"
    /\ aofFile' = <<>>
    /\ cutTail' = FALSE
    /\ saver' = Nobody
    /\ conn' = [c \in Conn |-> IF saver.by = c THEN Resting ELSE conn[c]]
    /\ UNCHANGED <<data, aofBuffer, snapshot, history, base, durable, crashes>>

-----------------------------------------------------------------------------
(* A crash of the process, and recover() in the next one. *)

\* The snapshot files a crash now may leave: while it is written, any part.
SurvivingSnapshots ==
    IF saver.pc = "close"
    THEN {[k \in Key |-> IF k \in S THEN saver.dump[k] ELSE None] : S \in SUBSET Key}
    ELSE {snapshot}

\* A value without its last characters: an integer loses digits.
ShortenedTo(v) ==
    IF v \in Nat THEN {n \in 1 .. v : \E i \in 1 .. v : n = v \div 10^i} ELSE {Shortened}

(* What may be left of a line whose end is not in the file; at the least   *)
(* its newline.  No key is a prefix of another.                            *)
Cut(l) == {Garbage, l} \cup
          IF l.op = "SET" THEN {[l EXCEPT !.val = v] : v \in ShortenedTo(l.val)} ELSE {}

\* The AOF files a crash now may leave, with their cutTail.
SurvivingAofs ==
    {[lines |-> Written(SubSeq(aofBuffer, 1, n)), cut |-> cutTail /\ n = 0] :
        n \in 0 .. Len(aofBuffer)}
    \cup UNION {{[lines |-> Written(SubSeq(aofBuffer, 1, n) \o <<l>>), cut |-> TRUE] :
                    l \in Cut(aofBuffer[n + 1])} :
                n \in IF TornTail THEN 0 .. Len(aofBuffer) - 1 ELSE {}}

\* A variant that loads the snapshot on top of the replayed AOF.
RecoverBackwards(s, lines) ==
    [k \in Key |-> IF s[k] # None THEN s[k] ELSE Replay(Empty, lines)[k]]

\* loadFromFile, then AofLoader::replay.
Recover(s, lines) == IF appendOnly THEN Replay(s, lines) ELSE s

Crash ==
    /\ crashes < MaxCrashes
    /\ \E s \in SurvivingSnapshots, a \in SurvivingAofs :
          /\ snapshot' = s
          /\ aofFile' = a.lines /\ cutTail' = a.cut
          /\ data' = Recover(s, a.lines)
    /\ base' = data'
    /\ aofBuffer' = <<>> /\ history' = <<>> /\ durable' = 0
    /\ saver' = Nobody
    /\ conn' = [c \in Conn |-> Resting]
    /\ crashes' = crashes + 1

Server ==
        \/ \E c \in Conn : (\E l \in Line : Execute(c, l)) \/ RecordWrite(c) \/ SaveCommand(c)
        \/ Flush \/ TimerSave \/ Dump \/ CloseSnapshot \/ ResetClose \/ ResetOpen

(* A write is executed and not yet in the AOF while another one is too, or *)
(* while a save is between its dump and the end of its reset; or a save    *)
(* without snapshot is about to truncate the AOF.                          *)
Racing ==
    LET Writing == {c \in Conn : conn[c].pc = "record"}
    IN  \/ \E c, d \in Writing : c # d
        \/ Writing # {} /\ saver.pc \in {"close", "reset", "truncate"}
        \/ saver.pc = "failed"

Next == /\ \/ Server /\ raced' = (raced \/ Racing')
           \/ Crash /\ raced' = FALSE
        /\ UNCHANGED appendOnly

Spec == Init /\ [][Next]_vars

-----------------------------------------------------------------------------
TypeOK ==
    LET Stored == (Nat \ {0}) \cup {None, NotInt, Shortened}
        Torn == [op : {"SET"}, key : Key, val : (Nat \ {0}) \cup {Shortened}]
        Logged == Line \cup {Garbage} \cup Torn
    IN  /\ {data, base, snapshot, saver.dump} \subseteq [Key -> Stored]
        /\ {aofBuffer, aofFile, history} \subseteq Seq(Logged)
        /\ cutTail \in BOOLEAN
        /\ saver.pc \in {"idle", "dump", "close", "failed", "reset", "truncate"}
        /\ saver.by \in Conn \cup {"nobody", "timer"}
        /\ conn \in [Conn -> [pc : {"idle", "record", "save"}, line : Logged, at : 0 .. MaxWrites]]
        /\ {durable, saver.upTo} \subseteq 0 .. Len(history)
        /\ crashes \in 0 .. MaxCrashes
        /\ {appendOnly, raced} \subseteq BOOLEAN

\* The store after the first i writes since the last start.
After(i) == Replay(base, SubSeq(history, 1, i))

\* What recovery would rebuild if the process died now.
Recoverable ==
    {Recover(s, a.lines) : s \in SurvivingSnapshots, a \in SurvivingAofs}

(* When snapshot and AOF can be expected to agree.  A save truncates the   *)
(* old snapshot first, and the AOF it is about to reset repeats what the   *)
(* new one holds: harmless for SET and DEL if it is complete.  With an AOF *)
(* it also takes writes that did not race each other or a save.            *)
FilesAgree ==
    IF appendOnly
    THEN /\ ~raced
         /\ \/ saver.pc = "idle"
            \/ saver.pc = "truncate" /\ \A i \in DOMAIN aofFile : aofFile[i].op # "INCR"
    ELSE saver.pc \notin {"dump", "close"}

(* docs/PROTOCOL.md: recovery reconstructs "the dataset exactly as it      *)
(* was".  Whenever the files agree a crash brings back the store as it was *)
(* after some write, no earlier than the writes already flushed or saved.  *)
CrashConsistent ==
    FilesAgree =>
        \A d \in Recoverable : \E i \in durable .. Len(history) : d = After(i)

(* The same for each key by itself, which is all that connections writing  *)
(* different keys can ask for: the AOF may hold their writes in another    *)
(* order than the store executed them.                                     *)
PerKeyConsistent ==
    saver.pc = "idle" =>
        \A d \in Recoverable, k \in Key :
            \E i \in durable .. Len(history) : d[k] = After(i)[k]
=============================================================================
