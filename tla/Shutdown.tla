------------------------------ MODULE Shutdown ------------------------------
(***************************************************************************)
(* The life of a tinykv-server process (server_main.cpp): main constructs  *)
(* the objects, accepts connections (net/tcp_server.cpp) until a signal,   *)
(* and destroys the objects in reverse order while other threads still use *)
(* them: detached connection threads, PersistenceManager's timer, the      *)
(* workers of the ThreadPool (concurrency/thread_pool.cpp), the replica    *)
(* link's thread and the expiry sweeper.  What the threads do to the data  *)
(* is in the other modules; here it only matters which objects they need.  *)
(***************************************************************************)
EXTENDS Integers, Sequences, FiniteSets

CONSTANTS Conn, Worker,
          SaveEvery,   \* save_interval in ticks of the timer; 0: no snapshots
          MaxTicks     \* bound on the timer's ticks

ASSUME ShutdownAssumption == /\ IsFiniteSet(Conn) /\ IsFiniteSet(Worker)
                             /\ SaveEvery \in Nat /\ MaxTicks \in Nat

VARIABLES main,       \* where main is; "~x": about to destroy x
          alive,      \* the objects of main that are not destroyed yet
          listening,  \* TcpServer::running_
          active,     \* TcpServer::activeConnections_
          conn,       \* the connection threads
          gaveUp,     \* history: the wait for connections hit its deadline
          running,    \* PersistenceManager::running_
          timer,      \* timerLoop: its place, the task in hand, secondsSinceSnapshot
          ticks,      \* ticks so far
          inFlight,   \* PersistenceManager::inFlightTasks_
          queue,      \* ThreadPool::tasks_
          stopPool,   \* ThreadPool::stop_
          worker,     \* each worker's place and task
          link,       \* the thread of the replica link
          linkRunning,\* ReplicaLink::running_
          sweeper     \* the thread of ExpiryManager

netVars == <<listening, active, conn, gaveUp>>
taskVars == <<running, timer, ticks, inFlight, queue, stopPool, worker>>
linkVars == <<link, linkRunning>>
vars == <<main, alive, netVars, taskVars, linkVars, sweeper>>

Object == {"store", "expiry", "executor", "pool", "persistence", "replication", "server"}

Init ==
    /\ main = "start" /\ alive = Object
    /\ listening = FALSE /\ active = 0 /\ gaveUp = FALSE
    /\ conn = [c \in Conn |-> "none"]
    /\ running = FALSE /\ ticks = 0 /\ inFlight = 0
    /\ timer = [pc |-> "none", task |-> "flush", since |-> 0]
    /\ queue = <<>> /\ stopPool = FALSE
    /\ worker = [w \in Worker |-> [pc |-> "ready", task |-> "flush"]]
    /\ link = "none" /\ linkRunning = FALSE
    /\ sweeper = "on"

-----------------------------------------------------------------------------
(* main, up to the end of run().                                           *)

\* TcpServer::start: socket, bind or listen may fail.
Listen(ok) == listening' = ok

\* main returns if the port cannot be had; otherwise the timer starts too.
Start ==
    /\ main = "start"
    /\ \/ Listen(FALSE) /\ main' = "~server" /\ UNCHANGED <<running, timer>>
       \/ /\ Listen(TRUE) /\ main' = "accept"
          /\ running' = TRUE /\ timer' = [timer EXCEPT !.pc = "wait"]
    /\ UNCHANGED <<alive, active, conn, gaveUp, ticks, inFlight, queue, stopPool, worker,
                   linkVars, sweeper>>

\* SIGINT or SIGTERM: g_server->stop() closes the socket accept() waits on.
Signal ==
    /\ main \in {"accept", "spawn"} /\ listening
    /\ listening' = FALSE
    /\ UNCHANGED <<main, alive, active, conn, gaveUp, taskVars, linkVars, sweeper>>

Accept(c) ==
    /\ main = "accept" /\ listening /\ conn[c] = "none"
    /\ conn' = [conn EXCEPT ![c] = "accepted"]
    /\ main' = "spawn"
    /\ UNCHANGED <<alive, listening, active, gaveUp, taskVars, linkVars, sweeper>>

\* A variant that does not count the connection.
SpawnUncounted(c) ==
    /\ main = "spawn" /\ conn[c] = "accepted"
    /\ conn' = [conn EXCEPT ![c] = "serving"]
    /\ main' = "accept"
    /\ UNCHANGED <<alive, listening, active, gaveUp, taskVars, linkVars, sweeper>>

\* activeConnections_ counts the connection before its thread exists.
Spawn(c) ==
    /\ main = "spawn" /\ conn[c] = "accepted"
    /\ active' = active + 1
    /\ conn' = [conn EXCEPT ![c] = "serving"]
    /\ main' = "accept"
    /\ UNCHANGED <<alive, listening, gaveUp, taskVars, linkVars, sweeper>>

LeaveLoop ==
    /\ main = "accept" /\ ~listening
    /\ main' = "linger"
    /\ UNCHANGED <<alive, netVars, taskVars, linkVars, sweeper>>

\* run() returns when no connection is left, or after two seconds.
Linger ==
    /\ main = "linger"
    /\ gaveUp' = (active > 0)
    /\ main' = "~server"
    /\ UNCHANGED <<alive, listening, active, conn, taskVars, linkVars, sweeper>>

\* The handler returns when its client is gone.
ConnEnds(c) ==
    /\ conn[c] = "serving" /\ main # "exited"
    /\ conn' = [conn EXCEPT ![c] = "gone"]
    /\ active' = active - 1
    /\ UNCHANGED <<main, alive, listening, gaveUp, taskVars, linkVars, sweeper>>

\* A client's REPLICAOF starts the link.  One per run of the process: a later
\* REPLICAOF, which stops the link under ReplicationManager's mutex, is
\* Replication's subject.
StartLink(c) ==
    /\ conn[c] = "serving" /\ link = "none"
    /\ main # "joinLink" /\ "replication" \in alive
    /\ link' = "recv" /\ linkRunning' = TRUE
    /\ UNCHANGED <<main, alive, netVars, taskVars, sweeper>>

-----------------------------------------------------------------------------
(* The end of main: destructors in reverse order of declaration.           *)

Destroy(object, next) == alive' = alive \ {object} /\ main' = next

DestroyServer ==
    /\ main = "~server" /\ Destroy("server", "~replication")
    /\ listening' = FALSE
    /\ UNCHANGED <<active, conn, gaveUp, taskVars, linkVars, sweeper>>

\* ~ReplicationManager: ReplicaLink::stop() does not wake a thread in recv.
StopLink ==
    /\ main = "~replication" /\ main' = "joinLink"
    /\ linkRunning' = FALSE
    /\ UNCHANGED <<alive, netVars, taskVars, link, sweeper>>

JoinLink ==
    /\ main = "joinLink" /\ link \in {"none", "ended"}
    /\ Destroy("replication", "~persistence")
    /\ UNCHANGED <<netVars, taskVars, linkVars, sweeper>>

\* PersistenceManager::stop(), once the timer lets go of cvMutex_.
StopTimer ==
    /\ main = "~persistence" /\ timer.pc \in {"none", "wait"}
    /\ IF running THEN main' = "joinTimer" /\ UNCHANGED alive
                  ELSE Destroy("persistence", "~pool")
    /\ running' = FALSE
    /\ UNCHANGED <<netVars, timer, ticks, inFlight, queue, stopPool, worker, linkVars, sweeper>>

\* A variant that does not wait for the tasks already submitted.
JoinTimerOnly ==
    /\ main = "joinTimer" /\ timer.pc = "ended"
    /\ Destroy("persistence", "~pool")
    /\ UNCHANGED <<netVars, taskVars, linkVars, sweeper>>

JoinTimer ==
    /\ main = "joinTimer" /\ timer.pc = "ended"
    /\ main' = "checkTasks"
    /\ UNCHANGED <<alive, netVars, taskVars, linkVars, sweeper>>

\* The predicate of the wait on tasksDoneCv_, under tasksDoneMutex_.
CheckTasks ==
    /\ main = "checkTasks"
    /\ IF inFlight = 0 THEN Destroy("persistence", "~pool")
                       ELSE main' = "waitTasks" /\ UNCHANGED alive
    /\ UNCHANGED <<netVars, taskVars, linkVars, sweeper>>

\* ~ThreadPool: stop_ under the queue's mutex, then notify_all.
StopPool ==
    /\ main = "~pool" /\ main' = "notifyPool"
    /\ stopPool' = TRUE
    /\ UNCHANGED <<alive, netVars, running, timer, ticks, inFlight, queue, worker,
                   linkVars, sweeper>>

Woken(w) == IF worker[w].pc = "waiting" THEN [worker[w] EXCEPT !.pc = "ready"] ELSE worker[w]

\* A variant that wakes one worker only.
NotifyOneOfPool ==
    /\ main = "notifyPool" /\ main' = "joinPool"
    /\ \E w \in Worker : worker' = [worker EXCEPT ![w] = Woken(w)]
    /\ UNCHANGED <<alive, netVars, running, timer, ticks, inFlight, queue, stopPool,
                   linkVars, sweeper>>

NotifyPool ==
    /\ main = "notifyPool" /\ main' = "joinPool"
    /\ worker' = [w \in Worker |-> Woken(w)]
    /\ UNCHANGED <<alive, netVars, running, timer, ticks, inFlight, queue, stopPool,
                   linkVars, sweeper>>

\* The executor has no thread of its own.
JoinPool ==
    /\ main = "joinPool" /\ \A w \in Worker : worker[w].pc = "ended"
    /\ alive' = alive \ {"pool", "executor"} /\ main' = "joinSweeper"
    /\ UNCHANGED <<netVars, taskVars, linkVars, sweeper>>

JoinSweeper ==
    /\ main = "joinSweeper" /\ sweeper = "ended"
    /\ Destroy("expiry", "~store")
    /\ UNCHANGED <<netVars, taskVars, linkVars, sweeper>>

\* The process exits, and with it every thread that is left.
Exit ==
    /\ main = "~store" /\ Destroy("store", "exited")
    /\ UNCHANGED <<netVars, taskVars, linkVars, sweeper>>

-----------------------------------------------------------------------------
(* The timer, which holds cvMutex_ except while it waits.                  *)

\* A variant that does not count the task.
SubmittingUncounted(task, since) ==
    /\ UNCHANGED inFlight
    /\ timer' = [pc |-> "push", task |-> task, since |-> since]

\* submitBackgroundTask counts the task, and submits it in the next two steps.
Submitting(task, since) ==
    /\ inFlight' = inFlight + 1
    /\ timer' = [pc |-> "push", task |-> task, since |-> since]

\* A second has passed.
TimerTick ==
    /\ timer.pc = "wait" /\ running /\ ticks < MaxTicks
    /\ ticks' = ticks + 1
    /\ Submitting("flush", timer.since + 1)
    /\ UNCHANGED <<main, alive, netVars, running, queue, stopPool, worker, linkVars, sweeper>>

Push ==
    /\ timer.pc = "push"
    /\ queue' = Append(queue, timer.task)
    /\ timer' = [timer EXCEPT !.pc = "notify"]
    /\ UNCHANGED <<main, alive, netVars, running, ticks, inFlight, stopPool, worker,
                   linkVars, sweeper>>

\* After the flush, a snapshot if one is due.
AfterSubmit ==
    IF timer.task = "flush" /\ SaveEvery > 0 /\ timer.since >= SaveEvery
    THEN Submitting("save", 0)
    ELSE timer' = [timer EXCEPT !.pc = "wait"] /\ UNCHANGED inFlight

\* A variant of submit() that wakes nobody.
NotifyNobody ==
    /\ timer.pc = "notify"
    /\ AfterSubmit
    /\ UNCHANGED <<main, alive, netVars, running, ticks, queue, stopPool, worker,
                   linkVars, sweeper>>

\* notify_one, after the queue's mutex is released.
NotifyOne ==
    /\ timer.pc = "notify"
    /\ LET waiting == {w \in Worker : worker[w].pc = "waiting"}
       IN  IF waiting = {} THEN UNCHANGED worker
           ELSE \E w \in waiting : worker' = [worker EXCEPT ![w] = Woken(w)]
    /\ AfterSubmit
    /\ UNCHANGED <<main, alive, netVars, running, ticks, queue, stopPool, linkVars, sweeper>>

TimerExit ==
    /\ timer.pc = "wait" /\ ~running
    /\ timer' = [timer EXCEPT !.pc = "ended"]
    /\ UNCHANGED <<main, alive, netVars, running, ticks, inFlight, queue, stopPool, worker,
                   linkVars, sweeper>>

-----------------------------------------------------------------------------
(* The workers of the pool.                                                *)

Go(w, pc) == worker' = [worker EXCEPT ![w].pc = pc]

\* Under the queue's mutex: take a task, wait for one, or leave.
Take(w) ==
    /\ worker[w].pc = "ready"
    /\ CASE queue # <<>> ->
              /\ worker' = [worker EXCEPT ![w] = [pc |-> "run", task |-> Head(queue)]]
              /\ queue' = Tail(queue)
         [] queue = <<>> /\ stopPool -> Go(w, "ended") /\ UNCHANGED queue
         [] queue = <<>> /\ ~stopPool -> Go(w, "waiting") /\ UNCHANGED queue
    /\ UNCHANGED <<main, alive, netVars, running, timer, ticks, inFlight, stopPool,
                   linkVars, sweeper>>

\* task(), then --inFlightTasks_; the last task goes on to tell stop().
RunTask(w) ==
    /\ worker[w].pc = "run"
    /\ inFlight' = inFlight - 1
    /\ Go(w, IF inFlight = 1 THEN "done" ELSE "ready")
    /\ UNCHANGED <<main, alive, netVars, running, timer, ticks, queue, stopPool,
                   linkVars, sweeper>>

\* notify_all on tasksDoneCv_, under tasksDoneMutex_.
NotifyDone(w) ==
    /\ worker[w].pc = "done"
    /\ Go(w, "ready")
    /\ main' = IF main = "waitTasks" THEN "checkTasks" ELSE main
    /\ UNCHANGED <<alive, netVars, running, timer, ticks, inFlight, queue, stopPool,
                   linkVars, sweeper>>

\* A condition variable may wake up for no reason.
Spurious ==
    \/ /\ \E w \in Worker : worker[w].pc = "waiting" /\ worker' = [worker EXCEPT ![w] = Woken(w)]
       /\ UNCHANGED <<main, alive, netVars, running, timer, ticks, inFlight, queue, stopPool,
                      linkVars, sweeper>>
    \/ /\ main = "waitTasks" /\ main' = "checkTasks"
       /\ UNCHANGED <<alive, netVars, taskVars, linkVars, sweeper>>

-----------------------------------------------------------------------------
(* The replica link's thread, and the sweeper.                             *)

SetLink(from, to) ==
    /\ link = from /\ link' = to /\ main # "exited"
    /\ UNCHANGED <<main, alive, netVars, taskVars, linkRunning, sweeper>>

\* A line arrives and is applied, or the connection ends.
LinkReceives == SetLink("recv", "apply") \/ SetLink("recv", "retry")

\* The loop goes on, and reconnects, while running_ is set.
LinkProceeds ==
    \/ linkRunning /\ (SetLink("apply", "recv") \/ SetLink("retry", "recv"))
    \/ ~linkRunning /\ (SetLink("apply", "ended") \/ SetLink("retry", "ended"))

\* ExpiryManager::stop() wakes the sweeper, whose loop ends.
SweeperEnds ==
    /\ main = "joinSweeper" /\ sweeper = "on"
    /\ sweeper' = "ended"
    /\ UNCHANGED <<main, alive, netVars, taskVars, linkVars>>

-----------------------------------------------------------------------------
MainStep == \/ Start \/ LeaveLoop \/ Linger \/ DestroyServer \/ StopLink \/ JoinLink
            \/ StopTimer \/ JoinTimer \/ CheckTasks \/ StopPool \/ NotifyPool \/ JoinPool
            \/ JoinSweeper \/ Exit \/ \E c \in Conn : Spawn(c)

TimerStep == TimerTick \/ Push \/ NotifyOne \/ TimerExit

WorkerStep(w) == Take(w) \/ RunTask(w) \/ NotifyDone(w)

Next == \/ MainStep \/ Signal \/ TimerStep \/ Spurious
        \/ LinkReceives \/ LinkProceeds \/ SweeperEnds
        \/ \E c \in Conn : Accept(c) \/ ConnEnds(c) \/ StartLink(c)
        \/ \E w \in Worker : WorkerStep(w)

\* Threads run.  Nothing makes clients leave, a primary send or close, a
\* signal come, or a condition variable wake up for no reason.
Spec == /\ Init /\ [][Next]_vars
        /\ WF_vars(MainStep) /\ WF_vars(TimerStep) /\ WF_vars(LinkProceeds) /\ WF_vars(SweeperEnds)
        /\ \A w \in Worker : WF_vars(WorkerStep(w))

-----------------------------------------------------------------------------
TypeOK ==
    /\ main \in {"start", "accept", "spawn", "linger", "~server", "~replication", "joinLink",
                 "~persistence", "joinTimer", "checkTasks", "waitTasks", "~pool", "notifyPool",
                 "joinPool", "joinSweeper", "~store", "exited"}
    /\ alive \subseteq Object
    /\ listening \in BOOLEAN /\ active \in Int /\ gaveUp \in BOOLEAN
    /\ conn \in [Conn -> {"none", "accepted", "serving", "gone"}]
    /\ running \in BOOLEAN /\ ticks \in 0..MaxTicks /\ inFlight \in 0..(2 * MaxTicks)
    /\ timer \in [pc : {"none", "wait", "push", "notify", "ended"}, task : {"flush", "save"},
                  since : 0..MaxTicks]
    /\ queue \in Seq({"flush", "save"}) /\ stopPool \in BOOLEAN
    /\ worker \in [Worker -> [pc : {"ready", "waiting", "run", "done", "ended"},
                              task : {"flush", "save"}]]
    /\ link \in {"none", "recv", "apply", "retry", "ended"} /\ linkRunning \in BOOLEAN
    /\ sweeper \in {"on", "ended"}

(* The order in which main declares its objects, and what each destructor  *)
(* waits for, keep every object alive for the background threads that use  *)
(* it: a task finds the manager and the store, the timer the pool, the     *)
(* link's callback the executor, and the sweeper the store.  Excepted is   *)
(* the last step of a task (a worker that is "done"): it counts itself     *)
(* down before it locks tasksDoneMutex_ to notify, and stop() may see the  *)
(* count and return in between, so that the notification finds mutex and   *)
(* condition variable destroyed.                                           *)
BackgroundThreadsOutlived ==
    /\ timer.pc \in {"wait", "push", "notify"} => {"persistence", "pool"} \subseteq alive
    /\ \A w \in Worker :
          /\ worker[w].pc # "ended" => "pool" \in alive
          /\ worker[w].pc = "run" => {"persistence", "store"} \subseteq alive
    /\ link \in {"recv", "apply", "retry"} =>
          {"replication", "persistence", "executor", "store"} \subseteq alive
    /\ sweeper = "on" => {"expiry", "store"} \subseteq alive

(* Unless the wait for them hits its deadline, no connection thread is     *)
(* left when main begins to destroy what they use.                         *)
ConnectionsOutlived ==
    ~gaveUp => \A c \in Conn : conn[c] = "serving" => alive = Object

(* Every task that is submitted gets run: notify_one after each push is    *)
(* enough, although the workers go back to waiting by themselves.          *)
TasksGetRun == queue # <<>> ~> queue = <<>>

(* After a signal, or when the port cannot be had, the process exits,      *)
(* unless the replica link's thread is stuck in recv, which stop() cannot  *)
(* interrupt.                                                              *)
ShutdownCompletes ==
    (main # "start" /\ ~listening) ~> (main = "exited" \/ (main = "joinLink" /\ link = "recv"))
=============================================================================
