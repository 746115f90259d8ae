--------------------------- MODULE ShutdownProofs ---------------------------
(***************************************************************************)
(* For any number of connections, workers and ticks: no background thread  *)
(* outlives an object it uses, and a shutdown that has waited for its      *)
(* connections destroys nothing under one of them.                         *)
(***************************************************************************)
EXTENDS Shutdown, FiniteSetTheorems, TLAPS

Serving == {c \in Conn : conn[c] = "serving"}
Busy == {w \in Worker : worker[w].pc = "run"}
Pushing == IF timer.pc = "push" THEN 1 ELSE 0

\* Where main may be while the objects of each stage are alive.
Whole == {"start", "accept", "spawn", "linger", "~server"}
WithLink == Whole \cup {"~replication", "joinLink"}
WithManager == WithLink \cup {"~persistence", "joinTimer", "checkTasks", "waitTasks"}
WithPool == WithManager \cup {"~pool", "notifyPool", "joinPool"}

WorkerState == [pc : {"ready", "waiting", "run", "done", "ended"}, task : {"flush", "save"}]
TimerState == [pc : {"none", "wait", "push", "notify", "ended"}, task : {"flush", "save"},
               since : Int]

Typed ==
    /\ conn \in [Conn -> {"none", "accepted", "serving", "gone"}] /\ active \in Int
    /\ gaveUp \in BOOLEAN /\ running \in BOOLEAN
    /\ worker \in [Worker -> WorkerState] /\ timer \in TimerState
    /\ queue \in Seq({"flush", "save"}) /\ inFlight \in Int

\* What is alive follows from where main is.
Alive ==
    /\ main \in Whole => alive = Object
    /\ "replication" \in alive <=> main \in WithLink
    /\ main \in WithManager => "persistence" \in alive
    /\ main \in WithPool => "pool" \in alive /\ "executor" \in alive
    /\ main \in WithPool \cup {"joinSweeper"} => "expiry" \in alive
    /\ main # "exited" => "store" \in alive

\* activeConnections_ is the number of threads in a handler.
Connections ==
    /\ active = Cardinality(Serving)
    /\ main = "start" => Serving = {}
    /\ main \notin {"start", "accept", "spawn", "linger"} /\ ~gaveUp => Serving = {}

\* inFlightTasks_ is the number of tasks counted and not yet run, and there
\* are none once the manager is gone.
Tasks ==
    /\ inFlight = Len(queue) + Cardinality(Busy) + Pushing
    /\ main \in WithLink \cup {"~persistence"} =>
          (running <=> timer.pc # "none") /\ timer.pc # "ended"
    /\ main = "start" => timer.pc = "none"
    /\ timer.pc = "none" => inFlight = 0
    /\ main \in {"checkTasks", "waitTasks"} => timer.pc = "ended"
    /\ main \notin WithManager => timer.pc \in {"none", "ended"} /\ inFlight = 0

\* The threads that are joined have ended.
Joined ==
    /\ link \in {"recv", "apply", "retry"} => main \in WithLink
    /\ main \notin WithPool => \A w \in Worker : worker[w].pc = "ended"
    /\ sweeper = "on" => main \in WithPool \cup {"joinSweeper"}

IInv == Typed /\ Alive /\ Connections /\ Tasks /\ Joined

-----------------------------------------------------------------------------
(* The sets the two counters count are finite.                             *)
LEMMA CountedAreFinite ==
    /\ IsFiniteSet(Serving) /\ Cardinality(Serving) \in Nat
    /\ IsFiniteSet(Busy) /\ Cardinality(Busy) \in Nat
    /\ Cardinality(Busy) = 0 <=> Busy = {}
    /\ Cardinality(Serving) = 0 <=> Serving = {}
<1>1. Serving \in SUBSET Conn /\ Busy \in SUBSET Worker
  BY DEF Serving, Busy
<1>2. IsFiniteSet(Serving) /\ IsFiniteSet(Busy)
  BY <1>1, ShutdownAssumption, FS_Subset
<1>. QED
  BY <1>2, FS_CardinalityType, FS_EmptySet

(* The invariant holds when main has constructed its objects.              *)
LEMMA InitIInv == Init => IInv
<1>. SUFFICES ASSUME Init PROVE IInv
  OBVIOUS
<1>1. Serving = {} /\ Busy = {}
  BY DEF Init, Serving, Busy
<1>2. Cardinality(Serving) = 0 /\ Cardinality(Busy) = 0
  BY <1>1, FS_EmptySet
<1>3. Typed
  <2>1. worker \in [Worker -> WorkerState]
    BY DEF Init, WorkerState
  <2>2. timer \in TimerState
    BY DEF Init, TimerState
  <2>3. conn \in [Conn -> {"none", "accepted", "serving", "gone"}] /\ queue \in Seq({"flush", "save"})
    BY DEF Init
  <2>4. active \in Int /\ inFlight \in Int
    BY DEF Init
  <2>5. gaveUp \in BOOLEAN /\ running \in BOOLEAN
    BY Zenon DEF Init
  <2>. QED
    BY <2>1, <2>2, <2>3, <2>4, <2>5 DEF Typed
<1>6. Alive
  BY DEF Init, Alive, Object, Whole, WithLink, WithManager, WithPool
<1>7. Joined
  BY DEF Init, Joined, Whole, WithLink, WithManager, WithPool
<1>4. Connections
  BY <1>1, <1>2 DEF Init, Connections
<1>5. Tasks
  BY <1>2 DEF Init, Tasks, Pushing, Whole, WithLink, WithManager
<1>. QED
  BY <1>3, <1>4, <1>5, <1>6, <1>7 DEF IInv

(* What one worker's move does to the set of the busy ones.                *)
LEMMA WorkerMoves ==
    ASSUME worker \in [Worker -> WorkerState], NEW w \in Worker, NEW v \in WorkerState,
           worker' = [worker EXCEPT ![w] = v]
    PROVE  /\ worker' \in [Worker -> WorkerState]
           /\ v.pc = "run" /\ w \notin Busy =>
                 Busy' = Busy \cup {w} /\ Cardinality(Busy') = Cardinality(Busy) + 1
           /\ v.pc # "run" /\ w \in Busy =>
                 Busy' = Busy \ {w} /\ Cardinality(Busy') = Cardinality(Busy) - 1
           /\ v.pc # "run" /\ w \notin Busy => Busy' = Busy
<1>1. worker' \in [Worker -> WorkerState]
  OBVIOUS
<1>2. v.pc = "run" => Busy' = Busy \cup {w}
  BY DEF Busy
<1>3. v.pc # "run" => Busy' = Busy \ {w}
  BY DEF Busy
<1>4. w \notin Busy => Cardinality(Busy \cup {w}) = Cardinality(Busy) + 1
  BY CountedAreFinite, FS_AddElement
<1>5. w \in Busy => Cardinality(Busy \ {w}) = Cardinality(Busy) - 1
  BY CountedAreFinite, FS_RemoveElement
<1>6. w \notin Busy => Busy \ {w} = Busy
  OBVIOUS
<1>. QED
  BY <1>1, <1>2, <1>3, <1>4, <1>5, <1>6

(* The same for a connection and the set of those being served.            *)
LEMMA ConnectionMoves ==
    ASSUME conn \in [Conn -> {"none", "accepted", "serving", "gone"}], NEW c \in Conn,
           NEW v \in {"none", "accepted", "serving", "gone"}, conn' = [conn EXCEPT ![c] = v]
    PROVE  /\ conn' \in [Conn -> {"none", "accepted", "serving", "gone"}]
           /\ v = "serving" /\ c \notin Serving =>
                 Serving' = Serving \cup {c} /\ Cardinality(Serving') = Cardinality(Serving) + 1
           /\ v # "serving" /\ c \in Serving =>
                 Serving' = Serving \ {c} /\ Cardinality(Serving') = Cardinality(Serving) - 1
           /\ v # "serving" /\ c \notin Serving => Serving' = Serving
<1>1. v = "serving" => Serving' = Serving \cup {c}
  BY DEF Serving
<1>2. v # "serving" => Serving' = Serving \ {c}
  BY DEF Serving
<1>3. c \notin Serving => Cardinality(Serving \cup {c}) = Cardinality(Serving) + 1
  BY CountedAreFinite, FS_AddElement
<1>4. c \in Serving => Cardinality(Serving \ {c}) = Cardinality(Serving) - 1
  BY CountedAreFinite, FS_RemoveElement
<1>5. c \notin Serving => Serving \ {c} = Serving
  OBVIOUS
<1>. QED
  BY <1>1, <1>2, <1>3, <1>4, <1>5

(* The timer's record after a step.                                        *)
LEMMA TimerMoves ==
    ASSUME timer \in TimerState, NEW p \in {"none", "wait", "push", "notify", "ended"},
           timer' = [timer EXCEPT !.pc = p]
    PROVE  timer' \in TimerState /\ timer'.pc = p
BY DEF TimerState

\* What no step of the replication link or of the sweeper can disturb.
LEMMA LinkFrame ==
    ASSUME IInv, UNCHANGED <<main, alive, netVars, taskVars>>
    PROVE  Typed' /\ Alive' /\ Connections' /\ Tasks'
<1>1. UNCHANGED <<Serving, Busy, Pushing>>
  BY DEF Serving, Busy, Pushing, netVars, taskVars
<1>2. Typed'
  BY DEF IInv, Typed, netVars, taskVars
<1>3. Alive'
  BY DEF IInv, Alive
<1>4. Connections'
  BY <1>1 DEF IInv, Connections, netVars
<1>5. Tasks'
  BY <1>1 DEF IInv, Tasks, taskVars
<1>. QED
  BY <1>2, <1>3, <1>4, <1>5

(* Every step keeps it.                                                    *)
LEMMA StepIInv == IInv /\ [Next]_vars => IInv'
<1>. SUFFICES ASSUME IInv, [Next]_vars PROVE IInv'
  OBVIOUS
<1>1. UNCHANGED conn => UNCHANGED Serving
  BY DEF Serving
<1>2. UNCHANGED worker => UNCHANGED Busy
  BY DEF Busy
<1>. USE DEF Whole, WithLink, WithManager, WithPool
<1>3. CASE Start
  <2>1. timer.pc = "none" /\ Pushing = 0
    BY <1>3 DEF Start, IInv, Tasks, Pushing
  <2>2. timer' \in TimerState /\ (timer' = timer \/ timer'.pc = "wait") /\ Pushing' = 0
    BY <1>3, <2>1, TimerMoves DEF Start, IInv, Typed, Pushing
  <2>3. Typed'
    BY <1>3, <2>2 DEF Start, IInv, Typed, linkVars
  <2>4. Tasks'
    <3>1. /\ inFlight' = Len(queue') + Cardinality(Busy') + Pushing' /\ inFlight' = 0
          /\ main' \in {"~server", "accept"}
      BY <1>3, <1>2, <2>1, <2>2 DEF Start, IInv, Tasks
    <3>2. (running' <=> timer'.pc # "none") /\ timer'.pc # "ended"
      <4>1. CASE UNCHANGED <<running, timer>>
        BY <1>3, <2>1, <4>1 DEF Start, IInv, Tasks
      <4>2. CASE running' = TRUE /\ timer' = [timer EXCEPT !.pc = "wait"]
        BY <4>2, TimerMoves DEF IInv, Typed
      <4>. QED
        BY <1>3, <4>1, <4>2 DEF Start
    <3>. QED
      BY <3>1, <3>2 DEF Tasks
  <2>. QED
    BY <1>3, <1>1, <2>3, <2>4 DEF Start, IInv, Alive, Connections, Joined, linkVars
<1>4. CASE Signal
  BY <1>1, <1>2, <1>4
  DEF Signal, IInv, Typed, Alive, Connections, Tasks, Joined, Pushing, Object,
      netVars, taskVars, linkVars
<1>5. ASSUME NEW c \in Conn, Accept(c) PROVE IInv'
  <2>1. conn' \in [Conn -> {"none", "accepted", "serving", "gone"}] /\ UNCHANGED Serving
    <3>. DEFINE v == "accepted"
    <3>1. c \notin Serving /\ conn' = [conn EXCEPT ![c] = v]
      BY <1>5 DEF Accept, Serving
    <3>. QED
      BY <3>1, ConnectionMoves DEF IInv, Typed
  <2>. QED
    BY <1>5, <1>2, <2>1
    DEF Accept, IInv, Typed, Alive, Connections, Tasks, Joined, Pushing, taskVars,
        linkVars
<1>6. ASSUME NEW c \in Conn, Spawn(c) PROVE IInv'
  <2>1. /\ conn' \in [Conn -> {"none", "accepted", "serving", "gone"}]
        /\ Cardinality(Serving') = Cardinality(Serving) + 1
    <3>. DEFINE v == "serving"
    <3>1. c \notin Serving /\ conn' = [conn EXCEPT ![c] = v]
      BY <1>6 DEF Spawn, Serving
    <3>. QED
      BY <3>1, ConnectionMoves DEF IInv, Typed
  <2>. QED
    BY <1>6, <1>2, <2>1
    DEF Spawn, IInv, Typed, Alive, Connections, Tasks, Joined, Pushing, taskVars,
        linkVars
<1>7. CASE LeaveLoop
  BY <1>1, <1>2, <1>7
  DEF LeaveLoop, IInv, Typed, Alive, Connections, Tasks, Joined, Pushing, Object,
      netVars, taskVars, linkVars
<1>8. CASE Linger
  <2>1. ~gaveUp' => Serving' = {}
    <3>1. ~gaveUp' => ~(active > 0)
      BY <1>8, Zenon DEF Linger
    <3>2. ~(active > 0) => Serving = {}
      BY CountedAreFinite DEF IInv, Connections
    <3>. QED
      BY <1>8, <1>1, <3>1, <3>2 DEF Linger
  <2>. QED
    BY <1>8, <1>1, <1>2, <2>1
    DEF Linger, IInv, Typed, Alive, Connections, Tasks, Joined, Pushing, taskVars,
        linkVars
<1>9. ASSUME NEW c \in Conn, ConnEnds(c) PROVE IInv'
  <2>1. /\ conn' \in [Conn -> {"none", "accepted", "serving", "gone"}]
        /\ Cardinality(Serving') = Cardinality(Serving) - 1
        /\ c \in Serving /\ Serving' = Serving \ {c}
    <3>. DEFINE v == "gone"
    <3>1. c \in Serving /\ conn' = [conn EXCEPT ![c] = v]
      BY <1>9 DEF ConnEnds, Serving
    <3>. QED
      BY <3>1, ConnectionMoves DEF IInv, Typed
  <2>. QED
    BY <1>9, <1>2, <2>1
    DEF ConnEnds, IInv, Typed, Alive, Connections, Tasks, Joined, Pushing, taskVars,
        linkVars
<1>10. ASSUME NEW c \in Conn, StartLink(c) PROVE IInv'
  BY <1>1, <1>2, <1>10
  DEF StartLink, IInv, Typed, Alive, Connections, Tasks, Joined, Pushing, Object,
      netVars, taskVars, linkVars
<1>11. CASE DestroyServer
  BY <1>1, <1>2, <1>11
  DEF DestroyServer, Destroy, IInv, Typed, Alive, Connections, Tasks, Joined, Pushing, Object,
      netVars, taskVars, linkVars
<1>12. CASE StopLink
  BY <1>1, <1>2, <1>12
  DEF StopLink, IInv, Typed, Alive, Connections, Tasks, Joined, Pushing, Object,
      netVars, taskVars, linkVars
<1>13. CASE JoinLink
  BY <1>1, <1>2, <1>13
  DEF JoinLink, Destroy, IInv, Typed, Alive, Connections, Tasks, Joined, Pushing, Object,
      netVars, taskVars, linkVars
<1>14. CASE StopTimer
  BY <1>1, <1>2, <1>14
  DEF StopTimer, Destroy, IInv, Typed, Alive, Connections, Tasks, Joined, Pushing, Object,
      netVars, taskVars, linkVars
<1>15. CASE JoinTimer
  BY <1>1, <1>2, <1>15
  DEF JoinTimer, IInv, Typed, Alive, Connections, Tasks, Joined, Pushing, Object,
      netVars, taskVars, linkVars
<1>16. CASE CheckTasks
  BY <1>1, <1>2, <1>16
  DEF CheckTasks, Destroy, IInv, Typed, Alive, Connections, Tasks, Joined, Pushing, Object,
      netVars, taskVars, linkVars
<1>17. CASE StopPool
  BY <1>1, <1>2, <1>17
  DEF StopPool, IInv, Typed, Alive, Connections, Tasks, Joined, Pushing, Object,
      netVars, taskVars, linkVars
<1>18. CASE NotifyPool
  <2>1. worker' \in [Worker -> WorkerState]
    BY <1>18 DEF NotifyPool, Woken, IInv, Typed, WorkerState
  <2>2. UNCHANGED Busy
    BY <1>18 DEF NotifyPool, Woken, IInv, Typed, WorkerState, Busy
  <2>. QED
    BY <1>18, <1>1, <2>1, <2>2
    DEF NotifyPool, IInv, Typed, Alive, Connections, Tasks, Joined, Pushing, netVars,
        linkVars
<1>19. CASE JoinPool
  BY <1>1, <1>2, <1>19
  DEF JoinPool, IInv, Typed, Alive, Connections, Tasks, Joined, Pushing, Object,
      netVars, taskVars, linkVars
<1>20. CASE JoinSweeper
  BY <1>1, <1>2, <1>20
  DEF JoinSweeper, Destroy, IInv, Typed, Alive, Connections, Tasks, Joined, Pushing, Object,
      netVars, taskVars, linkVars
<1>21. CASE Exit
  BY <1>1, <1>2, <1>21
  DEF Exit, Destroy, IInv, Typed, Alive, Connections, Tasks, Joined, Pushing, Object,
      netVars, taskVars, linkVars
<1>22. CASE TimerTick
  <2>1. timer' \in TimerState /\ timer.pc = "wait" /\ timer'.pc = "push"
    BY <1>22 DEF TimerTick, Submitting, IInv, Typed, TimerState
  <2>2. Pushing = 0 /\ Pushing' = 1
    BY <2>1 DEF Pushing
  <2>3. Typed'
    BY <1>22, <2>1 DEF TimerTick, Submitting, IInv, Typed, netVars
  <2>4. Tasks'
    BY <1>22, <1>2, <2>1, <2>2, CountedAreFinite DEF TimerTick, Submitting, IInv, Typed, Tasks
  <2>. QED
    BY <1>22, <1>1, <2>3, <2>4 DEF TimerTick, IInv, Alive, Connections, Joined, netVars, linkVars
<1>23. CASE Push
  <2>1. timer' \in TimerState /\ timer.pc = "push" /\ timer'.pc = "notify"
    BY <1>23, TimerMoves DEF Push, IInv, Typed
  <2>2. queue' \in Seq({"flush", "save"}) /\ Len(queue') = Len(queue) + 1
    BY <1>23 DEF Push, IInv, Typed, TimerState
  <2>3. Pushing = 1 /\ Pushing' = 0
    BY <2>1 DEF Pushing
  <2>4. Typed'
    BY <1>23, <2>1, <2>2 DEF Push, IInv, Typed, netVars
  <2>5. Tasks'
    BY <1>23, <1>2, <2>1, <2>2, <2>3, CountedAreFinite DEF Push, IInv, Typed, Tasks
  <2>. QED
    BY <1>23, <1>1, <2>4, <2>5 DEF Push, IInv, Alive, Connections, Joined, netVars, linkVars
<1>24. CASE NotifyOne
  <2>1. worker' \in [Worker -> WorkerState] /\ UNCHANGED Busy
    <3>1. CASE UNCHANGED worker
      BY <3>1, <1>2 DEF IInv, Typed
    <3>2. ASSUME NEW w \in Worker, worker[w].pc = "waiting",
                 worker' = [worker EXCEPT ![w] = Woken(w)]
          PROVE  worker' \in [Worker -> WorkerState] /\ UNCHANGED Busy
      <4>1. Woken(w) \in WorkerState /\ Woken(w).pc = "ready" /\ w \notin Busy
        BY <3>2 DEF Woken, IInv, Typed, WorkerState, Busy
      <4>. QED
        BY <3>2, <4>1, WorkerMoves DEF IInv, Typed
    <3>. QED
      BY <1>24, <3>1, <3>2 DEF NotifyOne
  <2>2. /\ timer' \in TimerState /\ timer.pc = "notify" /\ timer'.pc \in {"wait", "push"}
        /\ inFlight' = inFlight + Pushing' /\ inFlight' \in Int /\ Pushing = 0
    BY <1>24 DEF NotifyOne, AfterSubmit, Submitting, IInv, Typed, TimerState, Pushing
  <2>3. Typed'
    BY <1>24, <2>1, <2>2 DEF NotifyOne, IInv, Typed, netVars
  <2>4. Tasks'
    BY <1>24, <2>1, <2>2, CountedAreFinite DEF NotifyOne, IInv, Typed, Tasks
  <2>5. Joined'
    BY <1>24, <2>2 DEF NotifyOne, IInv, Tasks, Joined, linkVars
  <2>. QED
    BY <1>24, <1>1, <2>3, <2>4, <2>5 DEF NotifyOne, IInv, Alive, Connections, netVars
<1>25. CASE TimerExit
  <2>1. timer' \in TimerState /\ timer.pc = "wait" /\ timer'.pc = "ended"
    BY <1>25, TimerMoves DEF TimerExit, IInv, Typed
  <2>2. Pushing = 0 /\ Pushing' = 0
    BY <2>1 DEF Pushing
  <2>. QED
    BY <1>25, <1>1, <1>2, <2>1, <2>2
    DEF TimerExit, IInv, Typed, Alive, Connections, Tasks, Joined, netVars, linkVars
<1>26. ASSUME NEW w \in Worker, Take(w) PROVE IInv'
  <2>1. w \notin Busy /\ worker[w] \in WorkerState /\ worker[w].pc = "ready"
    BY <1>26 DEF Take, Busy, IInv, Typed
  <2>2. main \in WithPool
    BY <2>1 DEF IInv, Joined
  <2>3. /\ worker' \in [Worker -> WorkerState] /\ queue' \in Seq({"flush", "save"})
        /\ Len(queue') + Cardinality(Busy') = Len(queue) + Cardinality(Busy)
        /\ Cardinality(Busy') \in Nat
    <3>1. CASE queue # <<>>
      <4>. DEFINE v == [pc |-> "run", task |-> Head(queue)]
      <4>1. v \in WorkerState /\ v.pc = "run"
        BY <3>1 DEF IInv, Typed, WorkerState
      <4>2. queue' \in Seq({"flush", "save"}) /\ Len(queue') = Len(queue) - 1
        <5>1. queue' = Tail(queue)
          BY <1>26, <3>1 DEF Take
        <5>. QED
          BY <3>1, <5>1 DEF IInv, Typed
      <4>3. worker' = [worker EXCEPT ![w] = v]
        BY <1>26, <3>1 DEF Take
      <4>. HIDE DEF v
      <4>4. worker' \in [Worker -> WorkerState] /\ Cardinality(Busy') = Cardinality(Busy) + 1
        BY <2>1, <4>1, <4>3, WorkerMoves DEF IInv, Typed
      <4>5. Len(queue) \in Nat /\ Cardinality(Busy) \in Nat
        BY CountedAreFinite DEF IInv, Typed
      <4>6. Len(queue') + Cardinality(Busy') = Len(queue) + Cardinality(Busy)
        BY <4>2, <4>4, <4>5
      <4>7. Cardinality(Busy') \in Nat
        BY <4>4, <4>5
      <4>. QED
        BY <4>2, <4>4, <4>6, <4>7
    <3>2. CASE queue = <<>>
      <4>1. PICK p \in {"ended", "waiting"} : Go(w, p) /\ UNCHANGED queue
        BY <1>26, <3>2 DEF Take
      <4>. DEFINE v == [worker[w] EXCEPT !.pc = p]
      <4>2. v \in WorkerState /\ v.pc # "run" /\ worker' = [worker EXCEPT ![w] = v]
        BY <2>1, <4>1 DEF Go, WorkerState
      <4>. HIDE DEF v
      <4>. QED
        BY <2>1, <4>1, <4>2, WorkerMoves, CountedAreFinite DEF IInv, Typed
    <3>. QED
      BY <3>1, <3>2
  <2>4. Typed'
    BY <1>26, <2>3 DEF Take, IInv, Typed, netVars
  <2>5. Tasks'
    BY <1>26, <2>3, CountedAreFinite DEF Take, IInv, Typed, Tasks, Pushing
  <2>. QED
    BY <1>26, <1>1, <2>2, <2>4, <2>5 DEF Take, IInv, Alive, Connections, Joined, netVars, linkVars
<1>27. ASSUME NEW w \in Worker, RunTask(w) PROVE IInv'
  <2>1. w \in Busy /\ worker[w] \in WorkerState
    BY <1>27 DEF RunTask, Busy, IInv, Typed
  <2>2. main \in WithPool
    BY <1>27 DEF RunTask, IInv, Joined
  <2>3. worker' \in [Worker -> WorkerState] /\ Cardinality(Busy') = Cardinality(Busy) - 1
    <3>1. PICK p \in {"done", "ready"} : Go(w, p)
      BY <1>27 DEF RunTask
    <3>. DEFINE v == [worker[w] EXCEPT !.pc = p]
    <3>2. v \in WorkerState /\ v.pc # "run" /\ worker' = [worker EXCEPT ![w] = v]
      BY <2>1, <3>1 DEF Go, WorkerState
    <3>. HIDE DEF v
    <3>. QED
      BY <2>1, <3>2, WorkerMoves DEF IInv, Typed
  <2>4. inFlight > 0
    <3>1. Cardinality(Busy) > 0 /\ Pushing \in Nat
      BY <2>1, CountedAreFinite DEF Pushing
    <3>. QED
      BY <3>1, CountedAreFinite DEF IInv, Typed, Tasks
  <2>5. Typed'
    BY <1>27, <2>3 DEF RunTask, IInv, Typed, netVars
  <2>6. Tasks'
    BY <1>27, <2>3, <2>4, CountedAreFinite DEF RunTask, IInv, Typed, Tasks, Pushing
  <2>. QED
    BY <1>27, <1>1, <2>2, <2>5, <2>6
    DEF RunTask, IInv, Alive, Connections, Joined, netVars, linkVars
<1>28. ASSUME NEW w \in Worker, NotifyDone(w) PROVE IInv'
  <2>1. w \notin Busy /\ worker[w] \in WorkerState /\ main \in WithPool
    BY <1>28 DEF NotifyDone, Busy, IInv, Typed, Joined
  <2>2. worker' \in [Worker -> WorkerState] /\ UNCHANGED Busy
    <3>. DEFINE v == [worker[w] EXCEPT !.pc = "ready"]
    <3>1. v \in WorkerState /\ v.pc # "run" /\ worker' = [worker EXCEPT ![w] = v]
      BY <1>28, <2>1 DEF NotifyDone, Go, WorkerState
    <3>. HIDE DEF v
    <3>. QED
      BY <2>1, <3>1, WorkerMoves DEF IInv, Typed
  <2>. QED
    BY <1>28, <1>1, <2>1, <2>2
    DEF NotifyDone, IInv, Typed, Alive, Connections, Tasks, Joined, Pushing, netVars,
        linkVars
<1>29. CASE Spurious
  <2>1. CASE /\ main = "waitTasks" /\ main' = "checkTasks"
             /\ UNCHANGED <<alive, netVars, taskVars, linkVars, sweeper>>
    BY <2>1, <1>1, <1>2
    DEF IInv, Typed, Alive, Connections, Tasks, Joined, Pushing, netVars, taskVars,
        linkVars
  <2>2. ASSUME NEW w \in Worker, worker[w].pc = "waiting",
               worker' = [worker EXCEPT ![w] = Woken(w)],
               UNCHANGED <<main, alive, netVars, running, timer, ticks, inFlight, queue, stopPool,
                           linkVars, sweeper>>
        PROVE  IInv'
    <3>1. Woken(w) \in WorkerState /\ Woken(w).pc = "ready" /\ w \notin Busy
      BY <2>2 DEF Woken, IInv, Typed, WorkerState, Busy
    <3>2. worker' \in [Worker -> WorkerState] /\ UNCHANGED Busy
      BY <2>2, <3>1, WorkerMoves DEF IInv, Typed
    <3>. QED
      BY <2>2, <1>1, <3>2
      DEF IInv, Typed, Alive, Connections, Tasks, Joined, Pushing, netVars, linkVars
  <2>. QED
    BY <1>29, <2>1, <2>2 DEF Spurious
<1>30. CASE LinkReceives
  <2>1. UNCHANGED <<main, alive, netVars, taskVars>>
    BY <1>30 DEF LinkReceives, SetLink
  <2>2. Joined'
    BY <1>30 DEF LinkReceives, SetLink, IInv, Joined, taskVars, linkVars
  <2>. QED
    BY <2>1, <2>2, LinkFrame DEF IInv
<1>31. CASE LinkProceeds
  <2>1. UNCHANGED <<main, alive, netVars, taskVars>>
    BY <1>31 DEF LinkProceeds, SetLink
  <2>2. Joined'
    BY <1>31 DEF LinkProceeds, SetLink, IInv, Joined, taskVars, linkVars
  <2>. QED
    BY <2>1, <2>2, LinkFrame DEF IInv
<1>32. CASE SweeperEnds
  <2>1. UNCHANGED <<main, alive, netVars, taskVars>>
    BY <1>32 DEF SweeperEnds
  <2>2. Joined'
    BY <1>32 DEF SweeperEnds, IInv, Joined, taskVars, linkVars
  <2>. QED
    BY <2>1, <2>2, LinkFrame DEF IInv
<1>33. CASE UNCHANGED vars
  <2>1. UNCHANGED <<main, alive, netVars, taskVars>>
    BY <1>33 DEF vars
  <2>2. Joined'
    BY <1>33 DEF vars, IInv, Joined, taskVars, linkVars
  <2>. QED
    BY <2>1, <2>2, LinkFrame DEF IInv
<1>. QED
  BY <1>3, <1>4, <1>5, <1>6, <1>7, <1>8, <1>9, <1>10, <1>11, <1>12, <1>13, <1>14, <1>15,
     <1>16, <1>17, <1>18, <1>19, <1>20, <1>21, <1>22, <1>23, <1>24, <1>25, <1>26, <1>27,
     <1>28, <1>29, <1>30, <1>31, <1>32, <1>33
  DEF Next, MainStep, TimerStep, WorkerStep

(* The server's threads and its objects: a background thread that is still *)
(* running finds every object it uses.                                     *)
THEOREM ThreadsOutlived == Spec => []BackgroundThreadsOutlived
<1>1. IInv => BackgroundThreadsOutlived
  <2>. SUFFICES ASSUME IInv PROVE BackgroundThreadsOutlived
    OBVIOUS
  <2>. USE DEF Whole, WithLink, WithManager, WithPool
  <2>1. timer.pc \in {"wait", "push", "notify"} => {"persistence", "pool"} \subseteq alive
    BY DEF IInv, Alive, Tasks
  <2>2. ASSUME NEW w \in Worker
        PROVE  /\ worker[w].pc # "ended" => "pool" \in alive
               /\ worker[w].pc = "run" => {"persistence", "store"} \subseteq alive
    <3>1. worker[w].pc # "ended" => main \in WithPool
      BY DEF IInv, Joined
    <3>2. worker[w].pc = "run" => inFlight > 0
      <4>1. worker[w].pc = "run" => Cardinality(Busy) > 0
        BY CountedAreFinite DEF Busy
      <4>2. Pushing \in Nat /\ Len(queue) \in Nat
        BY DEF Pushing, IInv, Typed
      <4>. QED
        BY <4>1, <4>2, CountedAreFinite DEF IInv, Tasks
    <3>. QED
      BY <3>1, <3>2 DEF IInv, Alive, Tasks
  <2>3. link \in {"recv", "apply", "retry"} =>
           {"replication", "persistence", "executor", "store"} \subseteq alive
    BY DEF IInv, Alive, Joined
  <2>4. sweeper = "on" => {"expiry", "store"} \subseteq alive
    BY DEF IInv, Alive, Joined
  <2>. QED
    BY <2>1, <2>2, <2>3, <2>4 DEF BackgroundThreadsOutlived
<1>. QED
  BY <1>1, InitIInv, StepIInv, PTL DEF Spec

(* Unless run() gave up waiting, main destroys nothing while a connection  *)
(* thread is in its handler.                                               *)
THEOREM HandlersOutlived == Spec => []ConnectionsOutlived
<1>1. IInv => ConnectionsOutlived
  BY DEF IInv, Alive, Connections, Serving, Whole, ConnectionsOutlived
<1>. QED
  BY <1>1, InitIInv, StepIInv, PTL DEF Spec

-----------------------------------------------------------------------------
\* The timer still has a snapshot to submit after the flush in hand.
SaveToCome == IF timer.pc \in {"push", "notify"} /\ timer.task = "flush" THEN 1 ELSE 0

\* A tick submits two tasks at most, and secondsSinceSnapshot counts ticks.
Bounds ==
    /\ ticks \in 0 .. MaxTicks /\ timer.since \in 0 .. ticks
    /\ inFlight + SaveToCome <= 2 * ticks

\* The variables that Typed leaves out.
TypedToo ==
    /\ main \in WithPool \cup {"joinSweeper", "~store", "exited"} /\ alive \subseteq Object
    /\ listening \in BOOLEAN /\ stopPool \in BOOLEAN /\ linkRunning \in BOOLEAN
    /\ link \in {"none", "recv", "apply", "retry", "ended"} /\ sweeper \in {"on", "ended"}

(* The process starts with no tick, no task and no snapshot due.           *)
LEMMA InitBounds == Init => Bounds
  BY ShutdownAssumption DEF Init, Bounds, SaveToCome

(* timerLoop submits a flush and at most one snapshot per tick, and only a *)
(* worker takes a task off inFlightTasks_.                                 *)
LEMMA StepBounds == IInv /\ Bounds /\ [Next]_vars => Bounds'
<1>. SUFFICES ASSUME IInv, Bounds, [Next]_vars PROVE Bounds'
  OBVIOUS
<1>1. timer \in TimerState /\ inFlight \in Int /\ ticks \in 0 .. MaxTicks /\ MaxTicks \in Nat
  BY ShutdownAssumption DEF IInv, Typed, Bounds
<1>2. ASSUME UNCHANGED <<timer, ticks>>, inFlight' \in Int, inFlight' <= inFlight PROVE Bounds'
  <2>1. timer' = timer /\ ticks' = ticks
    BY <1>2
  <2>2. SaveToCome' = SaveToCome
    BY <2>1 DEF SaveToCome
  <2>3. SaveToCome \in Int
    BY DEF SaveToCome
  <2>4. inFlight + SaveToCome <= 2 * ticks
    BY DEF Bounds
  <2>5. inFlight' + SaveToCome' <= 2 * ticks'
    <3>1. \A a, b, c, d \in Int : b <= a /\ a + c <= d => b + c <= d
      OBVIOUS
    <3>2. 2 * ticks \in Int
      BY <1>1
    <3>3. inFlight' + SaveToCome <= 2 * ticks
      BY <1>1, <1>2, <2>3, <2>4, <3>1, <3>2
    <3>. QED
      BY <2>1, <2>2, <3>3
  <2>6. ticks' \in 0 .. MaxTicks /\ timer'.since \in 0 .. ticks'
    BY <2>1 DEF Bounds
  <2>. QED
    BY <2>5, <2>6 DEF Bounds
<1>3. CASE UNCHANGED <<timer, ticks, inFlight>>
  BY <1>1, <1>2, <1>3
<1>4. ASSUME NEW p \in {"wait", "notify", "ended"}, timer' = [timer EXCEPT !.pc = p],
             UNCHANGED <<ticks, inFlight>>, p = "notify" => timer.pc = "push"
      PROVE  Bounds'
  <2>1. timer'.pc = p /\ timer'.task = timer.task /\ timer'.since = timer.since
    BY <1>1, <1>4 DEF TimerState
  <2>2. SaveToCome' <= SaveToCome /\ SaveToCome' \in Int /\ SaveToCome \in Int
    BY <1>4, <2>1 DEF SaveToCome
  <2>. QED
    BY <1>1, <1>4, <2>1, <2>2 DEF Bounds
<1>5. CASE Start
  BY <1>3, <1>4, <1>5 DEF Start
<1>6. CASE TimerTick
  <2>1. /\ timer.pc = "wait" /\ ticks < MaxTicks /\ ticks' = ticks + 1 /\ inFlight' = inFlight + 1
        /\ timer' = [pc |-> "push", task |-> "flush", since |-> timer.since + 1]
    BY <1>6 DEF TimerTick, Submitting
  <2>2. SaveToCome = 0 /\ SaveToCome' = 1 /\ timer'.since = timer.since + 1
    BY <2>1 DEF SaveToCome
  <2>. QED
    BY <1>1, <2>1, <2>2 DEF Bounds
<1>7. CASE Push
  BY <1>4, <1>7 DEF Push
<1>8. CASE NotifyOne
  <2>1. CASE /\ timer.task = "flush" /\ timer.pc = "notify" /\ inFlight' = inFlight + 1
             /\ timer' = [pc |-> "push", task |-> "save", since |-> 0] /\ UNCHANGED ticks
    <3>1. SaveToCome = 1 /\ SaveToCome' = 0 /\ timer'.since = 0
      BY <2>1 DEF SaveToCome
    <3>. QED
      BY <1>1, <2>1, <3>1 DEF Bounds
  <2>2. CASE timer' = [timer EXCEPT !.pc = "wait"] /\ UNCHANGED <<inFlight, ticks>>
    BY <1>4, <2>2
  <2>. QED
    BY <1>8, <2>1, <2>2 DEF NotifyOne, AfterSubmit, Submitting
<1>9. CASE TimerExit
  BY <1>4, <1>9 DEF TimerExit
<1>10. ASSUME NEW w \in Worker, RunTask(w) PROVE Bounds'
  BY <1>1, <1>2, <1>10 DEF RunTask
<1>11. ASSUME NEW w \in Worker, Take(w) \/ NotifyDone(w) PROVE Bounds'
  BY <1>3, <1>11 DEF Take, NotifyDone
<1>12. CASE Spurious \/ Signal \/ LinkReceives \/ LinkProceeds \/ SweeperEnds
  BY <1>3, <1>12 DEF Spurious, Signal, LinkReceives, LinkProceeds, SetLink, SweeperEnds, taskVars
<1>13. ASSUME NEW c \in Conn, Spawn(c) \/ Accept(c) \/ ConnEnds(c) \/ StartLink(c) PROVE Bounds'
  BY <1>3, <1>13 DEF Spawn, Accept, ConnEnds, StartLink, taskVars
<1>14. CASE \/ LeaveLoop \/ Linger \/ DestroyServer \/ StopLink \/ JoinLink \/ StopTimer
            \/ JoinTimer \/ CheckTasks \/ StopPool \/ NotifyPool \/ JoinPool \/ JoinSweeper \/ Exit
  BY <1>3, <1>14 DEF LeaveLoop, Linger, DestroyServer, StopLink, JoinLink, StopTimer, JoinTimer,
     CheckTasks, StopPool, NotifyPool, JoinPool, JoinSweeper, Exit, taskVars
<1>15. CASE UNCHANGED vars
  BY <1>3, <1>15 DEF vars, taskVars
<1>. QED
  BY <1>5, <1>6, <1>7, <1>8, <1>9, <1>10, <1>11, <1>12, <1>13, <1>14, <1>15
  DEF Next, MainStep, TimerStep, WorkerStep

(* Every thread moves between the places the code has, and main destroys   *)
(* only objects it declared.                                               *)
LEMMA StepTypedToo == TypedToo /\ [Next]_vars => TypedToo'
<1>. SUFFICES ASSUME TypedToo, [Next]_vars PROVE TypedToo'
  OBVIOUS
<1>. USE DEF WithPool, WithManager, WithLink, Whole
<1>1. CASE Start \/ Signal
  BY <1>1 DEF Start, Listen, Signal, TypedToo, linkVars, taskVars
<1>2. ASSUME NEW c \in Conn, Spawn(c) \/ Accept(c) \/ ConnEnds(c) \/ StartLink(c)
      PROVE  TypedToo'
  BY <1>2 DEF Spawn, Accept, ConnEnds, StartLink, TypedToo, netVars, linkVars, taskVars
<1>3. CASE LeaveLoop \/ Linger \/ DestroyServer \/ StopLink \/ JoinLink
  BY <1>3 DEF LeaveLoop, Linger, DestroyServer, StopLink, JoinLink, Destroy, TypedToo,
     netVars, linkVars, taskVars
<1>4. CASE StopTimer \/ JoinTimer \/ CheckTasks \/ StopPool \/ NotifyPool
  BY <1>4 DEF StopTimer, JoinTimer, CheckTasks, StopPool, NotifyPool, Destroy, TypedToo,
     netVars, linkVars, taskVars
<1>5. CASE JoinPool \/ JoinSweeper \/ Exit
  BY <1>5 DEF JoinPool, JoinSweeper, Exit, Destroy, TypedToo, netVars, linkVars, taskVars
<1>6. CASE TimerTick \/ Push \/ NotifyOne \/ TimerExit
  BY <1>6 DEF TimerTick, Push, NotifyOne, TimerExit, TypedToo, netVars, linkVars
<1>7. ASSUME NEW w \in Worker, Take(w) \/ RunTask(w) \/ NotifyDone(w)
      PROVE  TypedToo'
  BY <1>7 DEF Take, RunTask, NotifyDone, TypedToo, netVars, linkVars
<1>8. CASE Spurious \/ LinkReceives \/ LinkProceeds \/ SweeperEnds
  BY <1>8 DEF Spurious, LinkReceives, LinkProceeds, SetLink, SweeperEnds, TypedToo,
     netVars, linkVars, taskVars
<1>9. CASE UNCHANGED vars
  BY <1>9 DEF vars, TypedToo, netVars, linkVars, taskVars
<1>. QED
  BY <1>1, <1>2, <1>3, <1>4, <1>5, <1>6, <1>7, <1>8, <1>9
  DEF Next, MainStep, TimerStep, WorkerStep

(* The bounds hold together with the count of tasks: it gives the lower    *)
(* bound on inFlightTasks_.                                                *)
LEMMA TypeLemma == IInv /\ Bounds /\ TypedToo => TypeOK
<1>. SUFFICES ASSUME IInv, Bounds, TypedToo PROVE TypeOK
  OBVIOUS
<1>1. inFlight \in 0 .. 2 * MaxTicks
  <2>1. Len(queue) \in Nat /\ Cardinality(Busy) \in Nat /\ Pushing \in Nat
    BY CountedAreFinite, FS_CardinalityType DEF IInv, Typed, Pushing
  <2>2. inFlight \in Int /\ inFlight >= 0
    BY <2>1 DEF IInv, Tasks, Typed
  <2>3. SaveToCome \in {0, 1}
    BY DEF SaveToCome
  <2>. QED
    BY <2>2, <2>3, ShutdownAssumption DEF Bounds
<1>2. timer \in [pc : {"none", "wait", "push", "notify", "ended"}, task : {"flush", "save"},
                 since : 0 .. MaxTicks]
  <2>1. timer.since \in 0 .. MaxTicks
    BY ShutdownAssumption DEF Bounds
  <2>2. timer \in TimerState
    BY DEF IInv, Typed
  <2>. QED
    BY <2>1, <2>2 DEF TimerState
<1>3. ticks \in 0 .. MaxTicks
  BY DEF Bounds
<1>. QED
  BY <1>1, <1>2, <1>3 DEF TypeOK, IInv, Typed, TypedToo, WorkerState, WithPool, WithManager,
     WithLink, Whole

(* Every variable keeps its type; in particular inFlightTasks_ is never    *)
(* negative, and never more than two tasks for each tick of the timer.     *)
THEOREM TypeCorrect == Spec => []TypeOK
<1>1. Init => IInv /\ Bounds /\ TypedToo
  <2>1. Init => TypedToo
    BY DEF Init, TypedToo, WithPool, WithManager, WithLink, Whole
  <2>. QED
    BY <2>1, InitIInv, InitBounds
<1>2. (IInv /\ Bounds /\ TypedToo) /\ [Next]_vars => (IInv /\ Bounds /\ TypedToo)'
  BY StepIInv, StepBounds, StepTypedToo
<1>. QED
  BY <1>1, <1>2, TypeLemma, PTL DEF Spec
=============================================================================
