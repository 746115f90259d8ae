------------------------ MODULE ExpiryManagerProofs -------------------------
(***************************************************************************)
(* Safety of ExpiryManager for any keys, callers, clock bound and heap     *)
(* bound.                                                                  *)
(***************************************************************************)
EXTENDS ExpiryManager, TLAPS

\* A sweeper that sleeps until a deadline sleeps for some entry of the heap:
\* only the sweeper pops, so the top stays at or before its deadline.
SleepsForAnEntry ==
    sweeper.pc = "waitUntil" => \E e \in InHeap(heap) : e[1] <= sweeper.when

\* A caller about to schedule has computed a deadline for a key.
CallersHaveKeys == \A c \in Caller : caller[c].pc = "schedule" => caller[c].key \in Key

IInv == TypeOK /\ CallersHaveKeys /\ LiveDeadlineInHeap /\ NeverOversleeps /\ SleepsForAnEntry

\* What LoopTop(h) establishes about the state it leaves.
LEMMA LoopTopLemma ==
  ASSUME NEW h \in [Entry -> Nat], TypeOK, LoopTop(h)
  PROVE  /\ sweeper' \in [pc : {"wait", "waitUntil", "done"}, when : Time, key : Key \cup {Absent}]
         /\ sweeper'.pc \in {"wait", "waitUntil"} =>
                /\ ~stop
                /\ \A e \in InHeap(h) : sweeper'.pc = "waitUntil" /\ sweeper'.when <= e[1]
         /\ sweeper'.pc = "waitUntil" => \E e \in InHeap(h) : e[1] <= sweeper'.when
<1>1. CASE stop /\ sweeper' = [sweeper EXCEPT !.pc = "done"]
  BY <1>1 DEF TypeOK
<1>2. CASE ~stop /\ InHeap(h) = {} /\ sweeper' = [sweeper EXCEPT !.pc = "wait"]
  BY <1>2 DEF TypeOK
<1>3. ASSUME ~stop, NEW top \in Top(h),
             sweeper' = [sweeper EXCEPT !.pc = "waitUntil", !.when = top[1]]
      PROVE  /\ sweeper' \in [pc : {"wait", "waitUntil", "done"}, when : Time,
                              key : Key \cup {Absent}]
             /\ \A e \in InHeap(h) : sweeper'.pc = "waitUntil" /\ sweeper'.when <= e[1]
             /\ \E e \in InHeap(h) : e[1] <= sweeper'.when
  <2>1. top \in InHeap(h) /\ top \in Entry /\ \A f \in InHeap(h) : top[1] <= f[1]
    BY DEF Top, InHeap
  <2>2. top[1] \in Time
    BY <2>1 DEF Entry
  <2>3. sweeper' = [pc |-> "waitUntil", when |-> top[1], key |-> sweeper.key]
    BY <1>3 DEF TypeOK
  <2>4. \E e \in InHeap(h) : e[1] <= sweeper'.when
    BY <2>1, <2>2, <2>3 DEF Time
  <2> QED
    BY <2>1, <2>2, <2>3, <2>4 DEF TypeOK
<1> QED
  BY <1>1, <1>2, <1>3 DEF LoopTop

-----------------------------------------------------------------------------
\* A manager without deadlines satisfies the invariant.
LEMMA InitInv == Init => IInv
<1> SUFFICES ASSUME Init PROVE IInv
  OBVIOUS
<1> USE DEF Init
<1>1. 0 \in Time
  BY ExpiryAssumption DEF Time
<1>2. TypeOK
  BY <1>1 DEF TypeOK, Idle
<1>3. CallersHaveKeys /\ LiveDeadlineInHeap /\ SleepsForAnEntry
  BY DEF CallersHaveKeys, LiveDeadlineInHeap, SleepsForAnEntry, Idle
<1>4. NeverOversleeps
  BY DEF NeverOversleeps, Waiting
<1> QED
  BY <1>2, <1>3, <1>4 DEF IInv

\* The sweeper's timeout branch: the entry it pops was due, and what it
\* leaves behind satisfies the invariant.
LEMMA PopTopLemma ==
  ASSUME IInv, TimedOut, PopTop, UNCHANGED <<stop, now, caller>>, woken' = FALSE
  PROVE  /\ IInv'
         /\ sweeper'.pc = "onExpire" =>
                currentExpiry[sweeper'.key] = sweeper'.when /\ sweeper'.when <= now
<1> USE DEF IInv
<1>1. PICK e \in Top(heap) :
        /\ heap' = Popped(e)
        /\ \/ /\ IsLive(e)
              /\ currentExpiry' = [currentExpiry EXCEPT ![e[2]] = Absent]
              /\ sweeper' = [pc |-> "onExpire", when |-> e[1], key |-> e[2]]
           \/ ~IsLive(e) /\ UNCHANGED currentExpiry /\ LoopTop(heap')
  BY DEF PopTop
<1>2. /\ e \in Entry /\ heap[e] > 0
      /\ \A f \in InHeap(heap) : e[1] <= f[1]
  BY <1>1 DEF Top, InHeap
<1>3. e[1] \in Time /\ e[2] \in Key /\ e = <<e[1], e[2]>>
  BY <1>2 DEF Entry
<1>4. e[1] <= now
  <2>1. PICK f \in InHeap(heap) : f[1] <= sweeper.when
    BY DEF TimedOut, SleepsForAnEntry
  <2>2. f[1] \in Time
    BY DEF InHeap, Entry
  <2>3. sweeper.when \in Time /\ now \in Time /\ now >= sweeper.when
    BY DEF TypeOK, TimedOut
  <2> QED
    BY <1>2, <1>3, <2>1, <2>2, <2>3 DEF Time
<1>5. heap' \in [Entry -> Nat]
  BY <1>1, <1>2 DEF TypeOK, Popped
<1>6. \A f \in Entry : f # e => heap'[f] = heap[f]
  BY <1>1, <1>2 DEF TypeOK, Popped
<1>7. CASE /\ IsLive(e)
           /\ currentExpiry' = [currentExpiry EXCEPT ![e[2]] = Absent]
           /\ sweeper' = [pc |-> "onExpire", when |-> e[1], key |-> e[2]]
  <2>1. TypeOK'
    BY <1>3, <1>5, <1>7 DEF TypeOK
  <2>2. LiveDeadlineInHeap'
    <3> SUFFICES ASSUME NEW k \in Key, currentExpiry'[k] # Absent
                 PROVE  heap'[<<currentExpiry'[k], k>>] > 0
      BY DEF LiveDeadlineInHeap
    <3>1. k # e[2] /\ currentExpiry'[k] = currentExpiry[k]
      BY <1>3, <1>7 DEF TypeOK
    <3>2. currentExpiry[k] \in Time
      BY <3>1 DEF TypeOK
    <3>3. <<currentExpiry[k], k>> \in Entry /\ <<currentExpiry[k], k>> # e
      BY <1>3, <3>1, <3>2 DEF Entry
    <3> QED
      BY <1>6, <3>1, <3>3 DEF LiveDeadlineInHeap
  <2>3. CallersHaveKeys' /\ NeverOversleeps' /\ SleepsForAnEntry'
    BY <1>7 DEF CallersHaveKeys, NeverOversleeps, SleepsForAnEntry, Waiting
  <2> QED
    BY <1>4, <1>7, <2>1, <2>2, <2>3 DEF IsLive
<1>8. CASE ~IsLive(e) /\ UNCHANGED currentExpiry /\ LoopTop(heap')
  <2>1. /\ sweeper' \in [pc : {"wait", "waitUntil", "done"}, when : Time, key : Key \cup {Absent}]
        /\ sweeper'.pc \in {"wait", "waitUntil"} =>
               /\ ~stop
               /\ \A f \in InHeap(heap') : sweeper'.pc = "waitUntil" /\ sweeper'.when <= f[1]
        /\ sweeper'.pc = "waitUntil" => \E f \in InHeap(heap') : f[1] <= sweeper'.when
    BY <1>5, <1>8, LoopTopLemma
  <2>2. TypeOK'
    BY <1>5, <1>8, <2>1 DEF TypeOK
  <2>3. LiveDeadlineInHeap'
    <3> SUFFICES ASSUME NEW k \in Key, currentExpiry[k] # Absent
                 PROVE  heap'[<<currentExpiry[k], k>>] > 0
      BY <1>8 DEF LiveDeadlineInHeap
    <3>1. currentExpiry[k] \in Time
      BY DEF TypeOK
    <3>2. <<currentExpiry[k], k>> \in Entry
      BY <3>1 DEF Entry
    <3>3. <<currentExpiry[k], k>> # e
      BY <1>3, <1>8 DEF IsLive
    <3> QED
      BY <1>6, <3>2, <3>3 DEF LiveDeadlineInHeap
  <2>4. CallersHaveKeys' /\ NeverOversleeps' /\ SleepsForAnEntry'
    BY <2>1 DEF CallersHaveKeys, NeverOversleeps, SleepsForAnEntry, Waiting
  <2> QED
    BY <2>1, <2>2, <2>3, <2>4
<1> QED
  BY <1>1, <1>7, <1>8

-----------------------------------------------------------------------------
\* Every critical section, notify and tick keeps the invariant, one case each.
LEMMA NextInv == IInv /\ [Next]_vars => IInv'
<1> SUFFICES ASSUME IInv, [Next]_vars PROVE IInv'
  OBVIOUS
<1> USE DEF IInv
<1>1. ASSUME NEW c \in Caller, NEW k \in Key, NEW t \in Time, Deadline(c, k, t) PROVE IInv'
  <2>1. TypeOK' /\ CallersHaveKeys'
    BY <1>1 DEF Deadline, TypeOK, CallersHaveKeys
  <2>2. LiveDeadlineInHeap' /\ SleepsForAnEntry'
    BY <1>1 DEF Deadline, LiveDeadlineInHeap, SleepsForAnEntry
  <2>3. NeverOversleeps'
    BY <1>1, <2>1 DEF Deadline, NeverOversleeps, Waiting, TypeOK
  <2> QED
    BY <2>1, <2>2, <2>3
<1>2. ASSUME NEW c \in Caller, Schedule(c) PROVE IInv'
  <2>1. PICK t \in Time, k \in Key : t = caller[c].when /\ k = caller[c].key
    BY <1>2 DEF Schedule, TypeOK, CallersHaveKeys
  <2>2. /\ currentExpiry' = [currentExpiry EXCEPT ![k] = t]
        /\ heap' = [heap EXCEPT ![<<t, k>>] = heap[<<t, k>>] + 1]
        /\ caller' = [caller EXCEPT ![c] = [pc |-> "notifyOne", when |-> 0, key |-> Absent]]
        /\ UNCHANGED <<stop, now, sweeper, woken>>
    <3>1. [Idle EXCEPT !.pc = "notifyOne"] = [pc |-> "notifyOne", when |-> 0, key |-> Absent]
      BY DEF Idle
    <3> QED
      BY <1>2, <2>1, <3>1 DEF Schedule, ThenNotify
  <2> <<t, k>> \in Entry
    BY DEF Entry
  <2>3. heap' \in [Entry -> Nat] /\ heap'[<<t, k>>] > 0 /\ \A e \in Entry : heap'[e] >= heap[e]
    BY <2>1, <2>2 DEF TypeOK
  <2>4. 0 \in Time
    BY ExpiryAssumption DEF Time
  <2>5. TypeOK'
    BY <2>1, <2>2, <2>3, <2>4 DEF TypeOK
  <2>6. CallersHaveKeys'
    BY <2>2 DEF CallersHaveKeys, TypeOK
  <2>7. LiveDeadlineInHeap'
    <3> SUFFICES ASSUME NEW j \in Key, currentExpiry'[j] # Absent
                 PROVE  heap'[<<currentExpiry'[j], j>>] > 0
      BY DEF LiveDeadlineInHeap
    <3>1. CASE j = k
      BY <2>1, <2>2, <2>3, <3>1 DEF TypeOK
    <3>2. CASE j # k
      <4>1. currentExpiry'[j] = currentExpiry[j] /\ currentExpiry[j] \in Time
        BY <2>1, <2>2, <3>2 DEF TypeOK
      <4>2. <<currentExpiry[j], j>> \in Entry /\ heap[<<currentExpiry[j], j>>] > 0
        BY <4>1 DEF Entry, LiveDeadlineInHeap
      <4> QED
        BY <2>3, <4>1, <4>2 DEF TypeOK
    <3> QED
      BY <3>1, <3>2
  <2>8. NeverOversleeps'
    BY <2>2 DEF NeverOversleeps, TypeOK
  <2>9. SleepsForAnEntry'
    <3>1. InHeap(heap) \subseteq InHeap(heap')
      BY <2>3 DEF InHeap, TypeOK
    <3> QED
      BY <2>2, <3>1 DEF SleepsForAnEntry
  <2> QED
    BY <2>5, <2>6, <2>7, <2>8, <2>9
<1>3. ASSUME NEW c \in Caller, NEW k \in Key, Cancel(c, k) PROVE IInv'
  <2>1. TypeOK' /\ CallersHaveKeys'
    BY <1>3 DEF Cancel, TypeOK, CallersHaveKeys
  <2>2. LiveDeadlineInHeap'
    BY <1>3 DEF Cancel, LiveDeadlineInHeap, TypeOK
  <2>3. NeverOversleeps' /\ SleepsForAnEntry'
    BY <1>3 DEF Cancel, NeverOversleeps, SleepsForAnEntry, Waiting
  <2> QED
    BY <2>1, <2>2, <2>3
<1>4. ASSUME NEW c \in Caller, Stop(c) PROVE IInv'
  <2>1. TypeOK' /\ CallersHaveKeys'
    BY <1>4 DEF Stop, TypeOK, CallersHaveKeys
  <2>2. LiveDeadlineInHeap' /\ SleepsForAnEntry'
    BY <1>4 DEF Stop, LiveDeadlineInHeap, SleepsForAnEntry
  <2>3. NeverOversleeps'
    BY <1>4 DEF Stop, NeverOversleeps, TypeOK
  <2> QED
    BY <2>1, <2>2, <2>3
<1>5. ASSUME NEW c \in Caller, Notify(c) PROVE IInv'
  <2>1. TypeOK' /\ CallersHaveKeys'
    BY <1>5 DEF Notify, TypeOK, CallersHaveKeys, Waiting
  <2>2. LiveDeadlineInHeap' /\ SleepsForAnEntry'
    BY <1>5 DEF Notify, LiveDeadlineInHeap, SleepsForAnEntry
  <2>3. NeverOversleeps'
    BY <1>5 DEF Notify, NeverOversleeps, Waiting
  <2> QED
    BY <2>1, <2>2, <2>3
<1>6. ASSUME NEW c \in Caller, Join(c) PROVE IInv'
  <2>1. TypeOK' /\ CallersHaveKeys'
    BY <1>6 DEF Join, TypeOK, CallersHaveKeys
  <2>2. LiveDeadlineInHeap' /\ SleepsForAnEntry' /\ NeverOversleeps'
    BY <1>6 DEF Join, LiveDeadlineInHeap, SleepsForAnEntry, NeverOversleeps, Waiting
  <2> QED
    BY <2>1, <2>2
<1>7. ASSUME LoopTop(heap), UNCHANGED <<heap, currentExpiry, stop, now, caller>>,
             woken' \in BOOLEAN
      PROVE  IInv'
  <2>1. /\ sweeper' \in [pc : {"wait", "waitUntil", "done"}, when : Time, key : Key \cup {Absent}]
        /\ sweeper'.pc \in {"wait", "waitUntil"} =>
               /\ ~stop
               /\ \A f \in InHeap(heap) : sweeper'.pc = "waitUntil" /\ sweeper'.when <= f[1]
        /\ sweeper'.pc = "waitUntil" => \E f \in InHeap(heap) : f[1] <= sweeper'.when
    BY <1>7, LoopTopLemma DEF TypeOK
  <2>2. TypeOK' /\ CallersHaveKeys'
    BY <1>7, <2>1 DEF TypeOK, CallersHaveKeys
  <2>3. LiveDeadlineInHeap' /\ SleepsForAnEntry' /\ NeverOversleeps'
    BY <1>7, <2>1 DEF LiveDeadlineInHeap, SleepsForAnEntry, NeverOversleeps, Waiting
  <2> QED
    BY <2>2, <2>3
<1>8. CASE Wake
  <2>1. CASE TimedOut /\ PopTop
    BY <1>8, <2>1, PopTopLemma DEF Wake
  <2>2. CASE LoopTop(heap) /\ UNCHANGED <<heap, currentExpiry>>
    BY <1>7, <1>8, <2>2 DEF Wake
  <2> QED
    BY <1>8, <2>1, <2>2 DEF Wake
<1>9. CASE Lock
  BY <1>7, <1>9 DEF Lock, TypeOK
<1>10. CASE Tick
  <2>1. TypeOK' /\ CallersHaveKeys'
    BY <1>10, ExpiryAssumption DEF Tick, TypeOK, CallersHaveKeys, Time
  <2>2. LiveDeadlineInHeap' /\ SleepsForAnEntry' /\ NeverOversleeps'
    BY <1>10 DEF Tick, LiveDeadlineInHeap, SleepsForAnEntry, NeverOversleeps, Waiting
  <2> QED
    BY <2>1, <2>2
<1>11. CASE UNCHANGED vars
  <2>1. TypeOK' /\ CallersHaveKeys'
    BY <1>11 DEF vars, TypeOK, CallersHaveKeys
  <2>2. LiveDeadlineInHeap' /\ SleepsForAnEntry' /\ NeverOversleeps'
    BY <1>11 DEF vars, LiveDeadlineInHeap, SleepsForAnEntry, NeverOversleeps, Waiting
  <2> QED
    BY <2>1, <2>2
<1> QED
  BY <1>1, <1>2, <1>3, <1>4, <1>5, <1>6, <1>8, <1>9, <1>10, <1>11 DEF Next

\* For every instance, in every reachable state the inductive invariant holds.
THEOREM Invariance == Spec => []IInv
BY InitInv, NextInv, PTL DEF Spec

(* Deadlines, heap entries and the threads' places keep their types.       *)
THEOREM TypeCorrect == Spec => []TypeOK
BY Invariance, PTL DEF IInv

(* A live deadline always has its heap entry, so a TTL that expiryOf shows *)
(* is one the sweeper will come to.                                        *)
THEOREM DeadlinesAreInHeap == Spec => []LiveDeadlineInHeap
BY Invariance, PTL DEF IInv

(* No wakeup is lost between schedule or stop and the sweeper's two waits. *)
THEOREM NoLostWakeup == Spec => []NeverOversleeps
BY Invariance, PTL DEF IInv

(* onExpire is only ever called for a key whose current deadline has come. *)
THEOREM OnlyDueKeysExpire == Spec => ExpiresOnlyDueKeys
<1>1. IInv /\ [Next]_vars =>
        [sweeper'.pc = "onExpire" =>
            currentExpiry[sweeper'.key] = sweeper'.when /\ sweeper'.when <= now]_sweeper
  <2> SUFFICES ASSUME IInv, [Next]_vars, sweeper' # sweeper, sweeper'.pc = "onExpire"
               PROVE  currentExpiry[sweeper'.key] = sweeper'.when /\ sweeper'.when <= now
    OBVIOUS
  <2>1. CASE Wake
    <3>1. ~LoopTop(heap)
      BY LoopTopLemma DEF IInv, TypeOK
    <3> QED
      BY <2>1, <3>1, PopTopLemma DEF Wake
  <2>2. CASE Lock
    BY <2>2, LoopTopLemma DEF Lock, IInv, TypeOK
  <2>3. CASE ~Wake /\ ~Lock
    BY <2>3 DEF Next, vars, Deadline, Schedule, Cancel, Stop, Notify, Join, Tick
  <2> QED
    BY <2>1, <2>2, <2>3
<1> QED
  BY <1>1, Invariance, PTL DEF Spec, ExpiresOnlyDueKeys
=============================================================================
