----------------------- MODULE CommandExecutorProofs ------------------------
(***************************************************************************)
(* The server's commands over its two shared components, for any number of *)
(* connections, keys, values and TTLs: the store and the expiry manager    *)
(* are each driven as their own specifications say, whatever the           *)
(* interleaving of commands, sweeper and clock.  The theorems proved about *)
(* them alone are then instantiated (the instances come late, to keep them *)
(* out of the context of the proofs that do not need them).                *)
(***************************************************************************)
EXTENDS CommandExecutor, TLAPS

Command == [pc : {"idle", "TTL", "PERSIST", "cancel", "deadline", "schedule", "notify"},
            key : Key, secs : Seconds \cup {0}]
Sweeper == [pc : {"starting", "wait", "waitUntil", "onExpire", "done"},
            when : E!Time, key : Key \cup {E!Absent}]

\* A thread that is about to compute its deadline finds it within the clock's
\* bound, and in the future.
DeadlinesFit ==
    \A c \in Conn : conn[c].pc = "deadline" =>
        conn[c].secs > 0 /\ now + conn[c].secs <= MaxTime

\* The sweeper's callback has a key to delete.
CallbackHasKey == sweeper.pc = "onExpire" => sweeper.key \in Key

CInv == /\ conn \in [Conn -> Command] /\ sweeper \in Sweeper /\ now \in E!Time
        /\ DeadlinesFit /\ CallbackHasKey

-----------------------------------------------------------------------------
(* The inductive invariant of the threads, the sweeper and the clock. *)

\* Initially no thread is in a command.
LEMMA InitInv == Init => CInv
<1> SUFFICES ASSUME Init PROVE CInv
  OBVIOUS
<1>1. 0 \in E!Time
  BY CommandAssumption DEF E!Time
<1>2. sweeper \in Sweeper /\ sweeper.pc = "starting" /\ now \in E!Time
  BY <1>1 DEF Init, E!Init, Sweeper
<1>3. (CHOOSE k \in Key : TRUE) \in Key
  BY CommandAssumption
<1>4. \A c \in Conn : conn[c] \in Command /\ conn[c].pc = "idle"
  BY <1>3 DEF Init, Resting, Command
<1>5. conn \in [Conn -> Command]
  BY <1>4 DEF Init
<1> QED
  BY <1>2, <1>4, <1>5 DEF CInv, DeadlinesFit, CallbackHasKey

\* From the loop's top the sweeper goes to a wait or ends.
LEMMA LoopTopSweeper ==
    ASSUME NEW h, sweeper \in Sweeper, E!LoopTop(h)
    PROVE  sweeper' \in Sweeper /\ sweeper'.pc \in {"wait", "waitUntil", "done"}
<1>1. \A e \in E!Top(h) : e[1] \in E!Time
  BY DEF E!Top, E!InHeap, E!Entry
<1> QED
  BY <1>1 DEF E!LoopTop, Sweeper

\* A thread moves on inside its command, or to the end of it.
LEMMA GoLemma ==
    ASSUME CInv, NEW c \in Conn, NEW r \in Command, conn' = [conn EXCEPT ![c] = r],
           UNCHANGED <<sweeper, now>>,
           r.pc = "deadline" => r.secs > 0 /\ now + r.secs <= MaxTime
    PROVE  CInv'
<1>1. conn' \in [Conn -> Command]
  BY DEF CInv
<1>2. \A d \in Conn : conn'[d] = IF d = c THEN r ELSE conn[d]
  BY DEF CInv
<1> QED
  BY <1>1, <1>2 DEF CInv, DeadlinesFit, CallbackHasKey

\* The same for Go, except to a deadline.
LEMMA GoInv ==
    ASSUME CInv, NEW c \in Conn,
           NEW pc \in {"idle", "TTL", "PERSIST", "cancel", "schedule", "notify"},
           NEW k \in Key, Go(c, pc, k, 0), UNCHANGED <<sweeper, now>>
    PROVE  CInv'
<1> DEFINE r == [pc |-> pc, key |-> k, secs |-> 0]
<1>1. r \in Command /\ r.pc # "deadline"
  BY DEF Command
<1>2. conn' = [conn EXCEPT ![c] = r]
  BY DEF Go
<1> HIDE DEF r
<1> QED
  BY <1>1, <1>2, GoLemma

\* A thread goes on to its deadline with one that fits.
LEMMA GoDeadlineInv ==
    ASSUME CInv, NEW c \in Conn, NEW k \in Key, NEW s \in Seconds,
           PositiveSeconds(s), now + s <= MaxTime,
           Go(c, "deadline", k, s), UNCHANGED <<sweeper, now>>
    PROVE  CInv'
<1> DEFINE r == [pc |-> "deadline", key |-> k, secs |-> s]
<1>1. r \in Command /\ r.secs > 0 /\ now + r.secs <= MaxTime
  BY DEF Command, PositiveSeconds
<1>2. conn' = [conn EXCEPT ![c] = r]
  BY DEF Go
<1> HIDE DEF r
<1> QED
  BY <1>1, <1>2, GoLemma

\* The end of a command.
LEMMA DoneInv ==
    ASSUME CInv, NEW c \in Conn, Done(c), UNCHANGED <<sweeper, now>>
    PROVE  CInv'
<1>1. (CHOOSE k \in Key : TRUE) \in Key
  BY CommandAssumption
<1>2. Resting \in Command /\ Resting.pc # "deadline"
  BY <1>1 DEF Resting, Command
<1>3. conn' = [conn EXCEPT ![c] = Resting]
  BY DEF Done
<1> QED
  BY <1>2, <1>3, GoLemma

\* The first critical section of a command keeps the invariant.
LEMMA CommandInv ==
    ASSUME CInv, NEW c \in Conn, NEW k \in Key,
           \/ SetPlain(c, k) \/ Get(c, k) \/ Del(c, k) \/ Incr(c, k)
           \/ \E op \in {"TTL", "PERSIST"} : TtlOrPersist(c, k, op)
           \/ \E s \in Seconds : SetEx(c, k, s) \/ Expire(c, k, s)
    PROVE  CInv'
<1>1. ASSUME UNCHANGED <<expiryVars, conn>> PROVE CInv'
  BY <1>1 DEF expiryVars, CInv, DeadlinesFit, CallbackHasKey
<1>2. ASSUME UNCHANGED expiryVars PROVE UNCHANGED <<sweeper, now>>
  BY <1>2 DEF expiryVars
<1>3. CASE SetPlain(c, k) \/ Del(c, k)
  BY <1>2, <1>3, GoInv DEF SetPlain, Del
<1>4. CASE Get(c, k) \/ Incr(c, k)
  BY <1>1, <1>4 DEF Get, Incr
<1>5. ASSUME NEW op \in {"TTL", "PERSIST"}, TtlOrPersist(c, k, op) PROVE CInv'
  <2>1. UNCHANGED expiryVars /\ (Go(c, op, k, 0) \/ UNCHANGED conn)
    BY <1>5 DEF TtlOrPersist
  <2> QED
    BY <1>1, <1>2, <2>1, GoInv
<1>6. ASSUME NEW s \in Seconds, SetEx(c, k, s) PROVE CInv'
  BY <1>2, <1>6, GoDeadlineInv DEF SetEx, CanExpire
<1>7. ASSUME NEW s \in Seconds, Expire(c, k, s) PROVE CInv'
  <2>1. /\ UNCHANGED expiryVars
        /\ \/ PositiveSeconds(s) /\ now + s <= MaxTime /\ Go(c, "deadline", k, s)
           \/ UNCHANGED conn
    BY <1>7 DEF Expire, CanExpire
  <2> QED
    BY <1>1, <1>2, <2>1, GoDeadlineInv
<1> QED
  BY <1>3, <1>4, <1>5, <1>6, <1>7

\* So do the later ones.
LEMMA LaterInv ==
    ASSUME CInv, NEW c \in Conn, Later(c)
    PROVE  CInv'
<1>1. conn[c].key \in Key
  BY DEF CInv, Command
<1>2. CASE ExpiryOf(c)
  BY <1>1, <1>2, GoInv, DoneInv DEF ExpiryOf, expiryVars
<1>3. CASE Cancel(c)
  BY <1>3, DoneInv DEF Cancel, E!Cancel
<1>4. CASE Deadline(c)
  BY <1>1, <1>4, GoInv DEF Deadline, E!Deadline
<1>5. CASE Schedule(c)
  BY <1>1, <1>5, GoInv DEF Schedule, E!Schedule
<1>6. CASE Notify(c)
  BY <1>6, DoneInv DEF Notify, E!Notify
<1> QED
  BY <1>2, <1>3, <1>4, <1>5, <1>6 DEF Later

\* Every step keeps the invariant.
LEMMA NextInv == CInv /\ [Next]_vars => CInv'
<1> SUFFICES ASSUME CInv, [Next]_vars PROVE CInv'
  OBVIOUS
<1>1. ASSUME sweeper' \in Sweeper, CallbackHasKey', UNCHANGED <<now, conn>> PROVE CInv'
  BY <1>1 DEF CInv, DeadlinesFit
<1>2. ASSUME NEW h, E!LoopTop(h) PROVE sweeper' \in Sweeper /\ CallbackHasKey'
  BY <1>2, LoopTopSweeper DEF CInv, CallbackHasKey
<1>3. CASE Sweep
  <2>1. CASE E!TimedOut /\ E!PopTop
    <3>1. PICK e \in E!Top(heap) :
            \/ sweeper' = [pc |-> "onExpire", when |-> e[1], key |-> e[2]]
            \/ E!LoopTop(heap')
      BY <2>1 DEF E!PopTop
    <3>2. e[1] \in E!Time /\ e[2] \in Key
      BY DEF E!Top, E!InHeap, E!Entry
    <3>3. sweeper' \in Sweeper /\ CallbackHasKey'
      BY <1>2, <3>1, <3>2 DEF Sweeper, CallbackHasKey
    <3> QED
      BY <1>1, <1>3, <3>3 DEF Sweep, E!Wake
  <2>2. CASE E!LoopTop(heap)
    BY <1>1, <1>2, <1>3, <2>2 DEF Sweep, E!Wake
  <2> QED
    BY <1>3, <2>1, <2>2 DEF Sweep, E!Wake
<1>4. CASE OnExpire
  <2>1. sweeper' \in Sweeper /\ sweeper'.pc = "starting"
    BY <1>4 DEF OnExpire, CInv, Sweeper
  <2> QED
    BY <1>1, <1>4, <2>1 DEF OnExpire, CallbackHasKey
<1>5. CASE Relock
  BY <1>1, <1>2, <1>5 DEF Relock, E!Lock
<1>6. CASE Tick
  <2>1. now' = now + 1 /\ now' \in E!Time /\ UNCHANGED <<sweeper, conn>>
    BY <1>6, CommandAssumption DEF Tick, E!Tick, CInv, E!Time
  <2>2. \A c \in Conn : conn[c].secs \in Nat
    <3>1. \A c \in Conn : conn[c].secs \in Seconds \cup {0}
      BY DEF CInv, Command
    <3>2. Seconds \subseteq Nat
      BY CommandAssumption
    <3>3. \A x \in Seconds \cup {0} : x \in Nat
      BY <3>2
    <3> QED
      BY <3>1, <3>3, Zenon
  <2>3. \A c \in Conn : conn[c].pc = "deadline" => now' + conn[c].secs <= MaxTime
    BY <1>6, <2>1, <2>2, CommandAssumption DEF Tick, CInv, E!Time
  <2> QED
    BY <2>1, <2>3 DEF CInv, DeadlinesFit, CallbackHasKey
<1>7. CASE UNCHANGED vars
  BY <1>7 DEF vars, expiryVars, CInv, DeadlinesFit, CallbackHasKey
<1> QED
  BY <1>3, <1>4, <1>5, <1>6, <1>7, CommandInv, LaterInv, Zenon DEF Next

\* The invariant holds in every state.
LEMMA Invariance == Spec => []CInv
  BY InitInv, NextInv, PTL DEF Spec

-----------------------------------------------------------------------------
(* The store. *)

\* A step leaves the store alone or is one operation of it.
Operates ==
    \E k \in Key : \/ \E v \in S!Value : S!Set(k, v)
                   \/ S!Get(k) \/ S!Del(k) \/ S!Exists(k)
                   \/ \E d \in S!Delta : S!IncrementBy(k, d)

\* The command a connection starts is one operation of the store.
LEMMA CommandOperates ==
    ASSUME NEW c \in Conn, NEW k \in Key,
           \/ SetPlain(c, k) \/ Get(c, k) \/ Del(c, k) \/ Incr(c, k)
           \/ \E op \in {"TTL", "PERSIST"} : TtlOrPersist(c, k, op)
           \/ \E s \in Seconds : SetEx(c, k, s) \/ Expire(c, k, s)
    PROVE  Operates
<1>1. CASE SetPlain(c, k)
  BY <1>1, CommandAssumption, Zenon DEF SetPlain, Operates
<1>2. CASE Get(c, k)
  BY <1>2 DEF Get, Operates
<1>3. CASE Del(c, k)
  BY <1>3 DEF Del, Operates
<1>4. CASE Incr(c, k)
  BY <1>4 DEF Incr, Operates
<1>5. CASE \E op \in {"TTL", "PERSIST"} : TtlOrPersist(c, k, op)
  BY <1>5 DEF TtlOrPersist, Operates
<1>6. ASSUME NEW s \in Seconds, SetEx(c, k, s) \/ Expire(c, k, s) PROVE Operates
  <2>1. CASE SetEx(c, k, s)
    BY <2>1, CommandAssumption, Zenon DEF SetEx, Operates
  <2>2. CASE Expire(c, k, s)
    BY <2>2 DEF Expire, Operates
  <2> QED
    BY <1>6, <2>1, <2>2
<1> QED
  BY <1>1, <1>2, <1>3, <1>4, <1>5, <1>6, Zenon

\* So is the sweeper's callback; no other step touches the store.
LEMMA StepOperates ==
    ASSUME CallbackHasKey, [Next]_vars
    PROVE  Operates \/ UNCHANGED storeVars
<1>1. ASSUME NEW c \in Conn, Later(c) PROVE UNCHANGED storeVars
  BY <1>1 DEF Later, ExpiryOf, Cancel, Deadline, Schedule, Notify
<1>2. CASE Sweep \/ Relock \/ Tick
  BY <1>2 DEF Sweep, Relock, Tick
<1>3. CASE OnExpire
  BY <1>3 DEF OnExpire, CallbackHasKey, Operates
<1>4. CASE UNCHANGED vars
  BY <1>4 DEF vars
<1> QED
  BY <1>1, <1>2, <1>3, <1>4, CommandOperates, Zenon DEF Next

-----------------------------------------------------------------------------
(* The expiry manager. *)

\* While the sweeper is in neither of the two places that CallbackEnds tells
\* apart, it is where the manager has it.
LEMMA SweeperMapped ==
    /\ sweeper.pc # "starting" => CallbackEnds = sweeper
    /\ sweeper \in Sweeper => /\ CallbackEnds \in Sweeper
                              /\ CallbackEnds.when = sweeper.when
                              /\ CallbackEnds.key = sweeper.key
    /\ sweeper \in Sweeper /\ sweeper.pc = "starting" =>
         CallbackEnds.pc \in {"starting", "onExpire"}
<1>1. sweeper.pc # "starting" => CallbackEnds = sweeper
  BY DEF CallbackEnds
<1>2. ASSUME sweeper \in Sweeper
      PROVE  CallbackEnds \in Sweeper /\ CallbackEnds.when = sweeper.when
             /\ CallbackEnds.key = sweeper.key
  BY <1>2 DEF CallbackEnds, Sweeper
<1>3. ASSUME sweeper \in Sweeper, sweeper.pc = "starting"
      PROVE  CallbackEnds.pc \in {"starting", "onExpire"}
  BY <1>3 DEF CallbackEnds, Sweeper
<1> QED
  BY <1>1, <1>2, <1>3

\* The loop's top, as the manager sees it.
LEMMA LoopTopMapped ==
    ASSUME sweeper \in Sweeper, NEW h, E!LoopTop(h)
    PROVE  Expiry!LoopTop(h)
<1>1. sweeper' \in Sweeper /\ sweeper'.pc # "starting"
  BY LoopTopSweeper
<1>2. CallbackEnds' = sweeper'
  BY <1>1 DEF CallbackEnds
<1>3. \A p, w : /\ [sweeper EXCEPT !.pc = p] = [CallbackEnds EXCEPT !.pc = p]
                /\ [sweeper EXCEPT !.pc = p, !.when = w] = [CallbackEnds EXCEPT !.pc = p, !.when = w]
  BY DEF CallbackEnds, Sweeper
<1> QED
  BY <1>2, <1>3 DEF E!LoopTop, Expiry!LoopTop, E!InHeap, Expiry!InHeap, E!Top, Expiry!Top,
                    E!Entry, Expiry!Entry, E!Time, Expiry!Time

\* Heaps, deadlines and times are the same on both sides.
LEMMA SameExpiry ==
    /\ Expiry!Time = E!Time /\ Expiry!Absent = E!Absent /\ Expiry!Entry = E!Entry
    /\ \A h : Expiry!Top(h) = E!Top(h) /\ Expiry!InHeap(h) = E!InHeap(h)
    /\ \A e : Expiry!IsLive(e) = E!IsLive(e) /\ Expiry!Popped(e) = E!Popped(e)
<1>1. Expiry!Time = E!Time /\ Expiry!Absent = E!Absent
  BY DEF Expiry!Time, E!Time, Expiry!Absent, E!Absent
<1>2. Expiry!Entry = E!Entry
  BY <1>1 DEF Expiry!Entry, E!Entry
<1>3. \A h : Expiry!InHeap(h) = E!InHeap(h)
  BY <1>2 DEF Expiry!InHeap, E!InHeap
<1>4. \A h : Expiry!Top(h) = E!Top(h)
  BY <1>3 DEF Expiry!Top, E!Top
<1>5. \A e : Expiry!IsLive(e) = E!IsLive(e) /\ Expiry!Popped(e) = E!Popped(e)
  BY DEF Expiry!IsLive, E!IsLive, Expiry!Popped, E!Popped
<1> QED
  BY <1>1, <1>2, <1>3, <1>4, <1>5

\* A critical section of a command in the manager is the manager's own.
LEMMA LaterExpires ==
    ASSUME CInv, NEW c \in Conn, Later(c)
    PROVE  Expiry!Next \/ UNCHANGED Expiry!vars
<1>1. conn[c].key \in Key
  BY DEF CInv, Command
<1>2. ASSUME UNCHANGED sweeper PROVE UNCHANGED CallbackEnds
  BY <1>2 DEF CallbackEnds
<1>3. CASE ExpiryOf(c)
  BY <1>2, <1>3 DEF ExpiryOf, expiryVars, Expiry!vars
<1>4. CASE Cancel(c)
  <2>1. Expiry!Cancel(c, conn[c].key)
    BY <1>2, <1>4, SameExpiry DEF Cancel, E!Cancel, Expiry!Cancel
  <2> QED
    BY <1>1, <2>1 DEF Expiry!Next
<1>5. CASE Deadline(c)
  <2> DEFINE t == now + conn[c].secs
  <2>1. t \in Expiry!Time
    <3>1. conn[c].secs \in Seconds \cup {0} /\ conn[c].secs > 0 /\ t <= MaxTime
      BY <1>5 DEF CInv, Command, DeadlinesFit, Deadline
    <3>2. \A x \in Seconds \cup {0} : x \in Nat
      BY CommandAssumption
    <3>3. conn[c].secs \in Nat
      BY <3>1, <3>2, Zenon
    <3> QED
      BY <3>1, <3>3, SameExpiry, CommandAssumption DEF E!Time, CInv
  <2>2. Expiry!Deadline(c, conn[c].key, t)
    BY <1>2, <1>5 DEF Deadline, E!Deadline, Expiry!Deadline
  <2> HIDE DEF t
  <2> QED
    BY <1>1, <2>1, <2>2 DEF Expiry!Next
<1>6. CASE Schedule(c)
  <2>1. Expiry!Schedule(c)
    BY <1>2, <1>6 DEF Schedule, E!Schedule, Expiry!Schedule, E!ThenNotify, Expiry!ThenNotify,
                      E!Idle, Expiry!Idle, E!Absent, Expiry!Absent
  <2> QED
    BY <2>1 DEF Expiry!Next
<1>7. CASE Notify(c)
  <2>1. Expiry!Waiting = E!Waiting
    <3>1. CASE sweeper.pc = "starting"
      BY <3>1, SweeperMapped DEF CInv, Expiry!Waiting, E!Waiting
    <3>2. CASE sweeper.pc # "starting"
      BY <3>2, SweeperMapped DEF Expiry!Waiting, E!Waiting
    <3> QED
      BY <3>1, <3>2
  <2>2. Expiry!Notify(c)
    BY <1>2, <1>7, <2>1 DEF Notify, E!Notify, Expiry!Notify
  <2> QED
    BY <2>2 DEF Expiry!Next
<1> QED
  BY <1>3, <1>4, <1>5, <1>6, <1>7 DEF Later

\* A wait that returns, and a pop, happen in the manager as they are.
LEMMA SweepExpires ==
    ASSUME CInv, Sweep
    PROVE  Expiry!Wake
<1>1. sweeper \in Sweeper /\ CallbackEnds = sweeper
  BY SweeperMapped DEF CInv, Sweep, E!Wake, E!Waiting
<1>2. Expiry!Waiting /\ (Expiry!TimedOut <=> E!TimedOut)
  BY <1>1 DEF Sweep, E!Wake, E!Waiting, Expiry!Waiting, E!TimedOut, Expiry!TimedOut
<1>3. E!PopTop => Expiry!PopTop
  <2> SUFFICES ASSUME E!PopTop PROVE Expiry!PopTop
    OBVIOUS
  <2>1. PICK e \in E!Top(heap) :
          /\ heap' = E!Popped(e)
          /\ \/ /\ E!IsLive(e)
                /\ currentExpiry' = [currentExpiry EXCEPT ![e[2]] = E!Absent]
                /\ sweeper' = [pc |-> "onExpire", when |-> e[1], key |-> e[2]]
             \/ ~E!IsLive(e) /\ UNCHANGED currentExpiry /\ E!LoopTop(heap')
    BY DEF E!PopTop
  <2>2. e \in Expiry!Top(heap) /\ heap' = Expiry!Popped(e)
    BY <2>1, SameExpiry
  <2>3. CASE /\ E!IsLive(e)
             /\ currentExpiry' = [currentExpiry EXCEPT ![e[2]] = E!Absent]
             /\ sweeper' = [pc |-> "onExpire", when |-> e[1], key |-> e[2]]
    <3>1. CallbackEnds' = sweeper'
      BY <2>3 DEF CallbackEnds
    <3> QED
      BY <2>2, <2>3, <3>1, SameExpiry DEF Expiry!PopTop
  <2>4. CASE ~E!IsLive(e) /\ UNCHANGED currentExpiry /\ E!LoopTop(heap')
    <3>1. Expiry!LoopTop(heap')
      BY <1>1, <2>4, LoopTopMapped
    <3> QED
      BY <2>2, <2>4, <3>1, SameExpiry DEF Expiry!PopTop
  <2> QED
    BY <2>1, <2>3, <2>4
<1>4. E!LoopTop(heap) => Expiry!LoopTop(heap)
  BY <1>1, LoopTopMapped
<1> QED
  BY <1>2, <1>3, <1>4, SameExpiry DEF Sweep, E!Wake, Expiry!Wake

\* The callback is no step of the manager; everything else is.
LEMMA ExpiryStep == CInv /\ [Next]_vars => [Expiry!Next]_(Expiry!vars)
<1> SUFFICES ASSUME CInv, [Next]_vars PROVE Expiry!Next \/ UNCHANGED Expiry!vars
  OBVIOUS
<1>1. ASSUME UNCHANGED sweeper PROVE UNCHANGED CallbackEnds
  BY <1>1 DEF CallbackEnds
<1>2. ASSUME UNCHANGED expiryVars PROVE UNCHANGED Expiry!vars
  BY <1>1, <1>2 DEF expiryVars, Expiry!vars
<1>3. ASSUME NEW c \in Conn, NEW k \in Key,
             \/ SetPlain(c, k) \/ Get(c, k) \/ Del(c, k) \/ Incr(c, k)
             \/ \E op \in {"TTL", "PERSIST"} : TtlOrPersist(c, k, op)
             \/ \E s \in Seconds : SetEx(c, k, s) \/ Expire(c, k, s)
      PROVE  UNCHANGED Expiry!vars
  <2>1. UNCHANGED expiryVars
    BY <1>3 DEF SetPlain, Get, Del, Incr, TtlOrPersist, SetEx, Expire
  <2> QED
    BY <1>2, <2>1
<1>4. CASE Sweep
  BY <1>4, SweepExpires DEF Expiry!Next
<1>5. CASE OnExpire
  <2>1. sweeper \in Sweeper /\ sweeper.key \in Key /\ CallbackEnds = sweeper
    BY <1>5, SweeperMapped DEF OnExpire, CInv, CallbackHasKey
  <2>2. sweeper'.pc = "starting" /\ sweeper'.key \in Key
    BY <1>5, <2>1 DEF OnExpire, Sweeper
  <2>3. CallbackEnds' = [sweeper' EXCEPT !.pc = "onExpire"]
    BY <2>2 DEF CallbackEnds
  <2>4. CallbackEnds' = sweeper
    BY <1>5, <2>1, <2>3 DEF OnExpire, Sweeper
  <2> QED
    BY <1>5, <2>1, <2>4 DEF OnExpire, Expiry!vars
<1>6. CASE Relock
  <2>1. sweeper \in Sweeper /\ CallbackEnds.pc \in {"starting", "onExpire"}
    BY <1>6, SweeperMapped DEF Relock, CInv
  <2>2. Expiry!LoopTop(heap)
    BY <1>6, <2>1, LoopTopMapped DEF Relock, E!Lock
  <2>3. Expiry!Lock
    BY <1>6, <2>1, <2>2 DEF Relock, E!Lock, Expiry!Lock
  <2> QED
    BY <2>3 DEF Expiry!Next
<1>7. CASE Tick
  <2>1. Expiry!Tick
    BY <1>1, <1>7 DEF Tick, E!Tick, Expiry!Tick
  <2> QED
    BY <2>1 DEF Expiry!Next
<1>8. CASE UNCHANGED vars
  BY <1>2, <1>8 DEF vars
<1> QED
  BY <1>3, <1>4, <1>5, <1>6, <1>7, <1>8, LaterExpires, Zenon DEF Next

(* Whatever the connections send, the manager sees schedules, cancels and  *)
(* notifies of its own callers, each deadline computed before the lock is  *)
(* taken, and a sweeper that is in its callback until it locks again.      *)
THEOREM CommandsDriveTheManager == Spec => ImplementsExpiryManager
<1>1. Init => Expiry!Init
  <2> SUFFICES ASSUME Init PROVE Expiry!Init
    OBVIOUS
  <2>1. sweeper = [pc |-> "starting", when |-> 0, key |-> E!Absent]
    BY DEF Init, E!Init
  <2>2. CallbackEnds = sweeper
    BY <2>1, CommandAssumption DEF CallbackEnds
  <2> QED
    BY <2>1, <2>2, SameExpiry DEF Init, E!Init, Expiry!Init, E!Idle, Expiry!Idle
<1> QED
  BY <1>1, Invariance, ExpiryStep, PTL DEF Spec, ImplementsExpiryManager, Expiry!Spec

Sweeps == INSTANCE ExpiryManagerProofs WITH Caller <- Conn, sweeper <- CallbackEnds

\* The manager the theorems of ExpiryManagerProofs are about is this one.
LEMMA SameManager == Expiry!Spec => Sweeps!Spec
<1>1. Expiry!Init => Sweeps!Init
  BY DEF Expiry!Init, Sweeps!Init, Expiry!Entry, Sweeps!Entry, Expiry!Time, Sweeps!Time,
         Expiry!Absent, Sweeps!Absent, Expiry!Idle, Sweeps!Idle
<1>2. \A h : Expiry!LoopTop(h) => Sweeps!LoopTop(h)
  BY DEF Expiry!LoopTop, Sweeps!LoopTop, Expiry!InHeap, Sweeps!InHeap, Expiry!Top, Sweeps!Top,
         Expiry!Entry, Sweeps!Entry, Expiry!Time, Sweeps!Time
<1>3. \A c, k : Expiry!Cancel(c, k) => Sweeps!Cancel(c, k)
  BY DEF Expiry!Cancel, Sweeps!Cancel, Expiry!Absent, Sweeps!Absent
<1>4. \A c, k, t : Expiry!Deadline(c, k, t) => Sweeps!Deadline(c, k, t)
  BY DEF Expiry!Deadline, Sweeps!Deadline
<1>5. \A c : Expiry!Schedule(c) => Sweeps!Schedule(c)
  BY DEF Expiry!Schedule, Sweeps!Schedule, Expiry!ThenNotify, Sweeps!ThenNotify,
         Expiry!Idle, Sweeps!Idle, Expiry!Absent, Sweeps!Absent
<1>6. \A c : Expiry!Stop(c) => Sweeps!Stop(c)
  BY DEF Expiry!Stop, Sweeps!Stop, Expiry!Stopping, Sweeps!Stopping
<1>7. \A c : Expiry!Notify(c) => Sweeps!Notify(c)
  BY DEF Expiry!Notify, Sweeps!Notify, Expiry!Waiting, Sweeps!Waiting
<1>8. \A c : Expiry!Join(c) => Sweeps!Join(c)
  BY DEF Expiry!Join, Sweeps!Join
<1>9. Expiry!PopTop => Sweeps!PopTop
  BY <1>2 DEF Expiry!PopTop, Sweeps!PopTop, Expiry!Popped, Sweeps!Popped,
              Expiry!IsLive, Sweeps!IsLive, Expiry!Absent, Sweeps!Absent,
              Expiry!InHeap, Sweeps!InHeap, Expiry!Top, Sweeps!Top,
              Expiry!Entry, Sweeps!Entry, Expiry!Time, Sweeps!Time
<1>10. Expiry!Wake => Sweeps!Wake
  BY <1>2, <1>9 DEF Expiry!Wake, Sweeps!Wake, Expiry!Waiting, Sweeps!Waiting,
                    Expiry!TimedOut, Sweeps!TimedOut, Expiry!InHeap, Sweeps!InHeap,
                    Expiry!Entry, Sweeps!Entry, Expiry!Time, Sweeps!Time
<1>11. Expiry!Lock => Sweeps!Lock
  BY <1>2 DEF Expiry!Lock, Sweeps!Lock
<1>12. Expiry!Tick => Sweeps!Tick
  BY DEF Expiry!Tick, Sweeps!Tick
<1>13. Expiry!Next => Sweeps!Next
  <2>1. Expiry!Time = Sweeps!Time
    BY DEF Expiry!Time, Sweeps!Time
  <2> QED
    BY <1>3, <1>4, <1>5, <1>6, <1>7, <1>8, <1>10, <1>11, <1>12, <2>1, Zenon
    DEF Expiry!Next, Sweeps!Next
<1>14. [Expiry!Next]_(Expiry!vars) => [Sweeps!Next]_(Sweeps!vars)
  BY <1>13 DEF Expiry!vars, Sweeps!vars
<1> QED
  BY <1>1, <1>14, PTL DEF Expiry!Spec, Sweeps!Spec

\* So its invariant holds of the server.
LEMMA ManagerInvariance == Spec => []Sweeps!IInv
<1>1. MaxTime \in Nat /\ MaxCopies \in Nat \ {0}
  BY CommandAssumption
<1>2. Sweeps!Spec => []Sweeps!IInv
  BY <1>1, Sweeps!Invariance
<1> QED
  BY <1>2, CommandsDriveTheManager, SameManager, PTL DEF ImplementsExpiryManager

\* What it says in terms of the server's own sweeper.
LEMMA ManagerState ==
    ASSUME CInv, Sweeps!IInv
    PROVE  E!TypeOK /\ E!LiveDeadlineInHeap /\ E!NeverOversleeps
<1>1. E!Time = Sweeps!Time /\ E!Absent = Sweeps!Absent
  BY DEF E!Time, Sweeps!Time, E!Absent, Sweeps!Absent
<1>2. E!Entry = Sweeps!Entry
  BY <1>1 DEF E!Entry, Sweeps!Entry
<1>3. E!InHeap(heap) = Sweeps!InHeap(heap)
  BY <1>2 DEF E!InHeap, Sweeps!InHeap
<1>4. E!TypeOK
  BY <1>1, <1>2 DEF CInv, Sweeper, E!TypeOK, Sweeps!IInv, Sweeps!TypeOK
<1>5. E!LiveDeadlineInHeap
  BY <1>1 DEF E!LiveDeadlineInHeap, Sweeps!IInv, Sweeps!LiveDeadlineInHeap
<1>6. E!NeverOversleeps
  <2>1. CASE E!Waiting
    <3>1. CallbackEnds = sweeper /\ Sweeps!Waiting
      BY <2>1, SweeperMapped DEF E!Waiting, Sweeps!Waiting
    <3> QED
      BY <1>3, <3>1 DEF E!NeverOversleeps, Sweeps!IInv, Sweeps!NeverOversleeps
  <2>2. CASE ~E!Waiting
    BY <2>2 DEF E!NeverOversleeps
  <2> QED
    BY <2>1, <2>2
<1> QED
  BY <1>4, <1>5, <1>6

(* No interleaving of SET, DEL, EXPIRE, PERSIST and the sweeper leaves a   *)
(* TTL that expiryOf shows without its heap entry, or lets the sweeper     *)
(* sleep past a deadline nobody is about to tell it of.                    *)
THEOREM TtlsStayArmed == Spec => [](E!LiveDeadlineInHeap /\ E!NeverOversleeps)
  BY Invariance, ManagerInvariance, ManagerState, PTL

\* The step that starts a callback is a pop, in the manager as well.
LEMMA CallbackStarts ==
    ASSUME CInv, [Next]_vars, sweeper' # sweeper, sweeper'.pc = "onExpire"
    PROVE  CallbackEnds' = sweeper' /\ CallbackEnds' # CallbackEnds
<1>1. ASSUME NEW h, E!LoopTop(h) PROVE FALSE
  BY <1>1, LoopTopSweeper DEF CInv
<1>2. ASSUME UNCHANGED expiryVars PROVE FALSE
  BY <1>2 DEF expiryVars
<1>3. ASSUME NEW c \in Conn, NEW k \in Key,
             \/ SetPlain(c, k) \/ Get(c, k) \/ Del(c, k) \/ Incr(c, k)
             \/ \E op \in {"TTL", "PERSIST"} : TtlOrPersist(c, k, op)
             \/ \E s \in Seconds : SetEx(c, k, s) \/ Expire(c, k, s)
      PROVE  FALSE
  BY <1>2, <1>3 DEF SetPlain, Get, Del, Incr, TtlOrPersist, SetEx, Expire
<1>4. ASSUME NEW c \in Conn, Later(c) PROVE FALSE
  <2>1. UNCHANGED sweeper
    BY <1>4 DEF Later, ExpiryOf, Cancel, Deadline, Schedule, Notify, expiryVars,
                E!Cancel, E!Deadline, E!Schedule, E!Notify
  <2> QED
    BY <2>1
<1>5. CASE OnExpire
  BY <1>5 DEF OnExpire, CInv, Sweeper
<1>6. CASE Relock
  BY <1>1, <1>6 DEF Relock, E!Lock
<1>7. CASE Tick \/ UNCHANGED vars
  BY <1>2, <1>7 DEF Tick, E!Tick, vars
<1>8. CASE Sweep
  <2>1. sweeper.pc # "starting"
    BY <1>8 DEF Sweep, E!Wake, E!Waiting
  <2> QED
    BY <2>1 DEF CallbackEnds
<1> QED
  BY <1>3, <1>4, <1>5, <1>6, <1>7, <1>8, Zenon DEF Next

(* The sweeper starts a callback, and so a store.del, only for a key whose *)
(* TTL in force at that moment has run out, whatever EXPIREs, PERSISTs and *)
(* SETs are under way.                                                     *)
THEOREM OnlyDueKeysAreDeleted == Spec => E!ExpiresOnlyDueKeys
<1>1. MaxTime \in Nat /\ MaxCopies \in Nat \ {0}
  BY CommandAssumption
<1>2. Sweeps!Spec => Sweeps!ExpiresOnlyDueKeys
  BY <1>1, Sweeps!OnlyDueKeysExpire
<1>3. Spec => [][CallbackEnds'.pc = "onExpire" =>
                   /\ currentExpiry[CallbackEnds'.key] = CallbackEnds'.when
                   /\ CallbackEnds'.when <= now]_CallbackEnds
  BY <1>2, CommandsDriveTheManager, SameManager, PTL
  DEF ImplementsExpiryManager, Sweeps!ExpiresOnlyDueKeys
<1>4. /\ CInv /\ [Next]_vars
      /\ [CallbackEnds'.pc = "onExpire" =>
            /\ currentExpiry[CallbackEnds'.key] = CallbackEnds'.when
            /\ CallbackEnds'.when <= now]_CallbackEnds
      => [sweeper'.pc = "onExpire" =>
            currentExpiry[sweeper'.key] = sweeper'.when /\ sweeper'.when <= now]_sweeper
  BY CallbackStarts
<1> QED
  BY <1>3, <1>4, Invariance, PTL DEF Spec, E!ExpiresOnlyDueKeys

-----------------------------------------------------------------------------
(* What holds of the store alone holds of the server's. *)

Store == INSTANCE KVStoreProofs

(* The store's operations are the same ones in the instance the theorems   *)
(* are about as in the one the commands use.                               *)
LEMMA SameStore ==
    /\ S!Init => Store!Init
    /\ S!vars = Store!vars
    /\ S!Value = Store!Value /\ S!Delta = Store!Delta
    /\ \A k, v : S!Set(k, v) => Store!Set(k, v)
    /\ \A k : S!Get(k) => Store!Get(k)
    /\ \A k : S!Del(k) => Store!Del(k)
    /\ \A k : S!Exists(k) => Store!Exists(k)
    /\ \A k, d : S!IncrementBy(k, d) => Store!IncrementBy(k, d)
<1>1. S!Init => Store!Init
  BY DEF S!Init, Store!Init
<1>2. S!vars = Store!vars
  BY DEF S!vars, Store!vars
<1>3. S!Value = Store!Value /\ S!Delta = Store!Delta
  BY DEF S!Value, Store!Value, S!LongLong, Store!LongLong, S!Delta, Store!Delta
<1>4. \A k, v : S!ToFront(k, v) = Store!ToFront(k, v)
  BY DEF S!ToFront, Store!ToFront, S!Position, Store!Position, S!RemoveAt, Store!RemoveAt
<1>5. \A k : S!ValueOf(k) = Store!ValueOf(k)
  BY DEF S!Position, Store!Position, S!ValueOf, Store!ValueOf
<1>6. \A k, v : S!SetLocked(k, v) => Store!SetLocked(k, v)
  <2>1. \A list : S!Evicted(list) = Store!Evicted(list)
    BY DEF S!Evicted, Store!Evicted
  <2>2. \A list : S!EvictedKeys(list) = Store!EvictedKeys(list)
    BY <2>1 DEF S!EvictedKeys, Store!EvictedKeys
  <2> QED
    BY <1>4, <2>1, <2>2 DEF S!SetLocked, Store!SetLocked
<1>7. \A k, v : S!Set(k, v) => Store!Set(k, v)
  BY <1>6 DEF S!Set, Store!Set
<1>8. \A k : S!Get(k) => Store!Get(k)
  BY <1>4, <1>5 DEF S!Get, Store!Get
<1>9. \A k : S!Del(k) => Store!Del(k)
  BY DEF S!Del, Store!Del, S!Position, Store!Position, S!RemoveAt, Store!RemoveAt
<1>10. \A k : S!Exists(k) => Store!Exists(k)
  BY DEF S!Exists, Store!Exists
<1>11. /\ \A v : S!Stoll(v) = Store!Stoll(v)
       /\ \A n, d : S!StoredSum(n, d) = Store!StoredSum(n, d)
  BY DEF S!Stoll, Store!Stoll, S!StoredSum, Store!StoredSum, S!DecimalText, Store!DecimalText,
         S!AddLL, Store!AddLL
<1>12. \A k, d : S!IncrementBy(k, d) => Store!IncrementBy(k, d)
  BY <1>5, <1>6, <1>11 DEF S!IncrementBy, Store!IncrementBy
<1> QED
  BY <1>1, <1>2, <1>3, <1>7, <1>8, <1>9, <1>10, <1>12

\* A step of the server is one of that store's steps, or leaves it alone.
LEMMA ServerStoreStep == CInv /\ [Next]_vars => [Store!Next]_(Store!vars)
<1> SUFFICES ASSUME CInv, [Next]_vars PROVE [Store!Next]_(Store!vars)
  OBVIOUS
<1>1. CASE Operates
  BY <1>1, SameStore, Zenon DEF Operates, Store!Next
<1>2. CASE UNCHANGED storeVars
  BY <1>2 DEF storeVars, Store!vars
<1> QED
  BY <1>1, <1>2, StepOperates DEF CInv

\* The server implements it.
LEMMA ServerStore == Spec => Store!Spec
<1>1. Init => Store!Init
  BY SameStore DEF Init
<1> QED
  BY <1>1, Invariance, ServerStoreStep, PTL DEF Spec, Store!Spec

(* With connections and sweeper on the store at once, index_ and the list  *)
(* agree, the capacity is kept, every reply is that of an LRU cache and    *)
(* each eviction takes the key unused the longest.                         *)
THEOREM StoreStaysAnLRUCache ==
    Spec => [](Store!IndexMatchesList /\ Store!WithinCapacity) /\ Store!ImplementsLRUCache
<1>1. Capacity \in Nat /\ MaxLL \in Nat
  BY CommandAssumption
<1>2. Store!Spec => []Store!IndexMatchesList
  BY <1>1, Store!IndexAlwaysMatchesList
<1>3. Store!Spec => []Store!WithinCapacity
  BY <1>1, Store!NeverOverCapacity
<1>4. Store!Spec => Store!ImplementsLRUCache
  BY <1>1, Store!ListImplementsLRUCache
<1> QED
  BY <1>2, <1>3, <1>4, ServerStore, PTL

(* The threads' commands, the store and the manager keep their types: the  *)
(* callback always has a key, and every deadline fits the clock.           *)
THEOREM TypeCorrect == Spec => []TypeOK
<1>1. Capacity \in Nat /\ MaxLL \in Nat
  BY CommandAssumption
<1>2. Store!Spec => []Store!TypeOK
  BY <1>1, Store!TypeCorrect
<1>3. CInv /\ Sweeps!IInv /\ Store!TypeOK => TypeOK
  <2> SUFFICES ASSUME CInv, Sweeps!IInv, Store!TypeOK PROVE TypeOK
    OBVIOUS
  <2>1. S!TypeOK
    BY SameStore DEF S!TypeOK, Store!TypeOK
  <2>2. E!TypeOK
    BY ManagerState
  <2> QED
    BY <2>1, <2>2 DEF TypeOK, CInv, Command
<1> QED
  BY <1>2, <1>3, Invariance, ManagerInvariance, ServerStore, PTL
=============================================================================
