--------------------------- MODULE ExpiryManager ----------------------------
(***************************************************************************)
(* ExpiryManager (storage/expiry_manager.cpp): callers schedule and cancel *)
(* per-key deadlines; one sweeper thread sleeps until the earliest one and *)
(* calls onExpire.  mutex_ is held from one wait (or callback) of the      *)
(* sweeper to the next and during each caller's critical section, so every *)
(* critical section is one action; a notify comes after the unlock and is  *)
(* an action of its own.                                                   *)
(***************************************************************************)
EXTENDS Integers, FiniteSets

CONSTANTS Key,
          Caller,    \* threads that call schedule, cancel or stop
          MaxTime,   \* bound on the clock
          MaxCopies  \* a deadline this often in the heap is not asked for again

ASSUME ExpiryAssumption == MaxTime \in Nat /\ MaxCopies \in Nat \ {0}

Time == 0 .. MaxTime
Absent == -1           \* a key currentExpiry_ has no entry for
Entry == Time \X Key   \* HeapEntry: <<when, key>>

VARIABLES heap,           \* heap_, a multiset: how often each entry is in it
          currentExpiry,  \* currentExpiry_
          stop,           \* stop_
          now,            \* steady_clock::now()
          sweeper,        \* [pc, when, key]: where sweepLoop is, its deadline or key
          woken,          \* a notify has reached the waiting sweeper
          caller          \* [pc, when, key]: what each caller is about to do

vars == <<heap, currentExpiry, stop, now, sweeper, woken, caller>>

InHeap(h) == {e \in Entry : h[e] > 0}

\* A variant that reads the top of a heap that may be empty.
TopUnchecked(h) == {e \in Entry : \A f \in InHeap(h) : e[1] <= f[1]}

Top(h) == {e \in InHeap(h) : \A f \in InHeap(h) : e[1] <= f[1]}

Idle == [pc |-> "idle", when |-> 0, key |-> Absent]

\* The sweeper has released mutex_ inside cv_.wait or cv_.wait_until.
Waiting == sweeper.pc \in {"wait", "waitUntil"}

Init == /\ heap = [e \in Entry |-> 0]
        /\ currentExpiry = [k \in Key |-> Absent]
        /\ stop = FALSE /\ now = 0 /\ woken = FALSE
        /\ sweeper = [pc |-> "starting", when |-> 0, key |-> Absent]
        /\ caller = [c \in Caller |-> Idle]

-----------------------------------------------------------------------------
(* schedule and cancel *)

\* Callers compute now() + seconds, seconds >= 1, before they take mutex_.
Deadline(c, k, t) ==
    /\ caller[c].pc = "idle"
    /\ t > now /\ heap[<<t, k>>] < MaxCopies
    /\ caller' = [caller EXCEPT ![c] = [pc |-> "schedule", when |-> t, key |-> k]]
    /\ UNCHANGED <<heap, currentExpiry, stop, now, sweeper, woken>>

\* A variant that pushes without waking the sweeper.
ThenNothing(c) == caller' = [caller EXCEPT ![c] = Idle]

\* cv_.notify_one() follows the unlock.
ThenNotify(c) == caller' = [caller EXCEPT ![c] = [Idle EXCEPT !.pc = "notifyOne"]]

Schedule(c) ==
    LET t == caller[c].when
        k == caller[c].key
    IN  /\ caller[c].pc = "schedule"
        /\ currentExpiry' = [currentExpiry EXCEPT ![k] = t]
        /\ heap' = [heap EXCEPT ![<<t, k>>] = @ + 1]
        /\ ThenNotify(c)
        /\ UNCHANGED <<stop, now, sweeper, woken>>

Cancel(c, k) ==
    /\ caller[c].pc = "idle"
    /\ currentExpiry' = [currentExpiry EXCEPT ![k] = Absent]
    /\ UNCHANGED <<heap, stop, now, sweeper, woken, caller>>

\* main, or the destructor after it, is the one thread inside stop().
Stopping == \E c \in Caller : caller[c].pc \in {"notifyAll", "join"}

\* A variant that joins without a notify_all.
StopSilently(c) ==
    /\ caller[c].pc = "idle" /\ ~Stopping
    /\ stop' = TRUE
    /\ caller' = [caller EXCEPT ![c].pc = "join"]
    /\ UNCHANGED <<heap, currentExpiry, now, sweeper, woken>>

Stop(c) ==
    /\ caller[c].pc = "idle" /\ ~Stopping
    /\ stop' = TRUE
    /\ caller' = [caller EXCEPT ![c].pc = "notifyAll"]
    /\ UNCHANGED <<heap, currentExpiry, now, sweeper, woken>>

\* notify_one and notify_all: the sweeper is the only thread that waits.
Notify(c) ==
    /\ caller[c].pc \in {"notifyOne", "notifyAll"}
    /\ woken' = (woken \/ Waiting)
    /\ caller' = [caller EXCEPT ![c].pc = IF @ = "notifyOne" THEN "idle" ELSE "join"]
    /\ UNCHANGED <<heap, currentExpiry, stop, now, sweeper>>

\* stop() returns once the sweeper's thread has ended.
Join(c) ==
    /\ caller[c].pc = "join" /\ sweeper.pc = "done"
    /\ caller' = [caller EXCEPT ![c].pc = "idle"]
    /\ UNCHANGED <<heap, currentExpiry, stop, now, sweeper, woken>>

-----------------------------------------------------------------------------
(* sweepLoop *)

\* From the loop condition to the next wait, with h in the heap.
LoopTop(h) ==
    \/ stop /\ sweeper' = [sweeper EXCEPT !.pc = "done"]
    \/ ~stop /\ InHeap(h) = {} /\ sweeper' = [sweeper EXCEPT !.pc = "wait"]
    \/ /\ ~stop
       /\ \E top \in Top(h) :
            sweeper' = [sweeper EXCEPT !.pc = "waitUntil", !.when = top[1]]

\* A variant that pops on every wakeup, whatever wait_until returned.
AnyWakeup == sweeper.pc = "waitUntil"

\* wait_until reports a timeout exactly when the deadline has passed.
TimedOut == sweeper.pc = "waitUntil" /\ now >= sweeper.when

Popped(e) == [heap EXCEPT ![e] = @ - 1]

\* A variant that takes an entry for stale at the instant it is due.
IsLivePast(e) == currentExpiry[e[2]] = e[1] /\ e[1] < now

IsLive(e) == currentExpiry[e[2]] = e[1]

(* The timeout branch.  A live entry leaves the lock to call onExpire; a   *)
(* superseded one is dropped.                                              *)
PopTop ==
    \E e \in Top(heap) :
        /\ heap' = Popped(e)
        /\ \/ /\ IsLive(e)
              /\ currentExpiry' = [currentExpiry EXCEPT ![e[2]] = Absent]
              /\ sweeper' = [pc |-> "onExpire", when |-> e[1], key |-> e[2]]
           \/ ~IsLive(e) /\ UNCHANGED currentExpiry /\ LoopTop(heap')

\* A wait returns: notified, timed out or spuriously.
Wake ==
    /\ Waiting
    /\ woken' = FALSE
    /\ \/ TimedOut /\ PopTop
       \/ /\ ~TimedOut \/ InHeap(heap) = {}
          /\ LoopTop(heap)
          /\ UNCHANGED <<heap, currentExpiry>>
    /\ UNCHANGED <<stop, now, caller>>

\* The thread starts, or comes back from onExpire, and takes mutex_.
Lock ==
    /\ sweeper.pc \in {"starting", "onExpire"}
    /\ LoopTop(heap)
    /\ UNCHANGED <<heap, currentExpiry, stop, now, woken, caller>>

Tick == /\ now < MaxTime
        /\ now' = now + 1
        /\ UNCHANGED <<heap, currentExpiry, stop, sweeper, woken, caller>>

Next == \/ \E c \in Caller : \/ \E k \in Key : Cancel(c, k) \/ \E t \in Time : Deadline(c, k, t)
                             \/ Schedule(c) \/ Stop(c) \/ Notify(c) \/ Join(c)
        \/ Wake \/ Lock \/ Tick

Spec == Init /\ [][Next]_vars

(* Threads are scheduled, time passes, and a wait that was notified or     *)
(* whose deadline has passed returns.  Nobody has to call anything.        *)
Fairness == /\ WF_vars((woken \/ TimedOut) /\ Wake)
            /\ WF_vars(Lock) /\ WF_vars(Tick)
            /\ \A c \in Caller : WF_vars(Schedule(c) \/ Notify(c) \/ Join(c))

FairSpec == Spec /\ Fairness

-----------------------------------------------------------------------------
TypeOK ==
    /\ heap \in [Entry -> Nat]
    /\ currentExpiry \in [Key -> Time \cup {Absent}]
    /\ stop \in BOOLEAN /\ woken \in BOOLEAN
    /\ now \in Time
    /\ sweeper \in [pc : {"starting", "wait", "waitUntil", "onExpire", "done"},
                    when : Time, key : Key \cup {Absent}]
    /\ caller \in [Caller -> [pc : {"idle", "schedule", "notifyOne", "notifyAll", "join"},
                            when : Time, key : Key \cup {Absent}]]

(* A key's live deadline always has its entry in the heap.  The map alone  *)
(* never fires: a pop that took the entry but left the map would leave a   *)
(* TTL that shows in expiryOf and never ends.                              *)
LiveDeadlineInHeap ==
    \A k \in Key : currentExpiry[k] # Absent => heap[<<currentExpiry[k], k>>] > 0

(* No lost wakeup: a sweeper nobody has notified, or is about to notify,   *)
(* sleeps no longer than the earliest entry, and waits without a deadline  *)
(* only on an empty heap of a manager that is not stopping.                *)
NeverOversleeps ==
    (Waiting /\ ~woken /\ \A c \in Caller : caller[c].pc \notin {"notifyOne", "notifyAll"}) =>
        /\ ~stop
        /\ \A e \in InHeap(heap) : sweeper.pc = "waitUntil" /\ sweeper.when <= e[1]

(* onExpire is called only for a key whose current deadline has passed:    *)
(* never early (an entry pushed while the sweeper slept may be popped in   *)
(* the place of the one it slept for), never after a cancel and never for  *)
(* a deadline a later schedule replaced.                                   *)
ExpiresOnlyDueKeys ==
    [][sweeper'.pc = "onExpire" =>
         currentExpiry[sweeper'.key] = sweeper'.when /\ sweeper'.when <= now]_sweeper

(* Every deadline in force is reached: it fires, is cancelled or replaced, *)
(* unless the manager is stopped.                                          *)
DeadlinesFire ==
    \A k \in Key, t \in Time : currentExpiry[k] = t ~> currentExpiry[k] # t \/ stop

(* stop() returns: the sweeper leaves its wait or its callback and ends.   *)
StopReturns ==
    \A c \in Caller : caller[c].pc \in {"notifyAll", "join"} ~> caller[c].pc = "idle"
=============================================================================
