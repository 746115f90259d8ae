-------------------------- MODULE CommandExecutor ---------------------------
(***************************************************************************)
(* CommandExecutor::execute (command_executor.cpp) run by one thread per   *)
(* connection over the shared KVStore and ExpiryManager, with the sweeper  *)
(* deleting expired keys beside them.  A command that touches both         *)
(* components takes their locks one after the other: each critical section *)
(* is an action, taken from the component's own module.                    *)
(***************************************************************************)
EXTENDS Integers, FiniteSets

CONSTANTS Key, Capacity, MaxLL,   \* see KVStore
          MaxTime, MaxCopies,     \* see ExpiryManager
          Conn,                   \* connection threads
          Op,                     \* the commands clients send about each key
          PlainValue, TtlValue,   \* values plain SETs and SETs with EX carry
          Seconds                 \* TTLs clients ask for, in ticks; 0: not a positive number

VARIABLES lru, index, reply,                                       \* KVStore
          heap, currentExpiry, stop, now, sweeper, woken, caller,  \* ExpiryManager
          conn                \* [pc, key, secs]: the command each thread is in

S == INSTANCE KVStore
E == INSTANCE ExpiryManager WITH Caller <- Conn

ASSUME CommandAssumption ==
    /\ Capacity \in Nat /\ MaxLL \in Nat /\ MaxTime \in Nat /\ MaxCopies \in Nat \ {0}
    /\ Key # {} /\ E!Absent \notin Key
    /\ PlainValue \cup TtlValue \subseteq S!Value /\ Seconds \subseteq Nat

storeVars == <<lru, index, reply>>
expiryVars == <<heap, currentExpiry, stop, now, sweeper, woken, caller>>
vars == <<storeVars, expiryVars, conn>>

Resting == [pc |-> "idle", key |-> CHOOSE k \in Key : TRUE, secs |-> 0]

Init == /\ S!Init /\ E!Init
        /\ conn = [c \in Conn |-> Resting]

\* Thread c is between commands, or moves on inside one.
Idle(c) == conn[c].pc = "idle"
Go(c, pc, k, s) == conn' = [conn EXCEPT ![c] = [pc |-> pc, key |-> k, secs |-> s]]
Done(c) == conn' = [conn EXCEPT ![c] = Resting]

\* What parsePositiveSeconds accepts.
PositiveSeconds(s) == s > 0

\* Threads on their way to schedule(k).
Scheduling(k) == {c \in Conn : conn[c].key = k /\ conn[c].pc \in {"deadline", "schedule"}}

\* Room below MaxTime and MaxCopies for a deadline of k in s seconds (bound).
CanExpire(k, s) ==
    /\ now + s <= MaxTime
    /\ \A t \in E!Time : t >= now + s => heap[<<t, k>>] + Cardinality(Scheduling(k)) < MaxCopies

-----------------------------------------------------------------------------
(* The first critical section of each command. *)

SetPlain(c, k) ==
    /\ "SET" \in Op[k] /\ Idle(c)
    /\ \E v \in PlainValue : S!Set(k, v)
    /\ Go(c, "cancel", k, 0)
    /\ UNCHANGED expiryVars

SetEx(c, k, s) ==
    /\ "SETEX" \in Op[k] /\ Idle(c) /\ PositiveSeconds(s) /\ CanExpire(k, s)
    /\ \E v \in TtlValue : S!Set(k, v)
    /\ Go(c, "deadline", k, s)
    /\ UNCHANGED expiryVars

Get(c, k) ==
    /\ "GET" \in Op[k] /\ Idle(c)
    /\ S!Get(k)
    /\ UNCHANGED <<expiryVars, conn>>

Del(c, k) ==
    /\ "DEL" \in Op[k] /\ Idle(c)
    /\ S!Del(k)
    /\ Go(c, "cancel", k, 0)
    /\ UNCHANGED expiryVars

Incr(c, k) ==
    /\ "INCR" \in Op[k] /\ Idle(c)
    /\ \E d \in S!Delta : S!IncrementBy(k, d)
    /\ UNCHANGED <<expiryVars, conn>>

\* TTL and PERSIST look the key up and read expiryOf only if it exists.
TtlOrPersist(c, k, op) ==
    /\ op \in Op[k] /\ Idle(c)
    /\ S!Exists(k)
    /\ IF k \in index THEN Go(c, op, k, 0) ELSE UNCHANGED conn
    /\ UNCHANGED expiryVars

\* EXPIRE checks the key before it parses the seconds.
Expire(c, k, s) ==
    /\ "EXPIRE" \in Op[k] /\ Idle(c)
    /\ S!Exists(k)
    /\ IF k \in index /\ PositiveSeconds(s)
       THEN CanExpire(k, s) /\ Go(c, "deadline", k, s)
       ELSE UNCHANGED conn
    /\ UNCHANGED expiryVars

-----------------------------------------------------------------------------
(* The later ones. *)

\* expiryOf: TTL answers with it, PERSIST goes on to cancel.
ExpiryOf(c) ==
    /\ \/ conn[c].pc = "TTL" /\ Done(c)
       \/ conn[c].pc = "PERSIST" /\ Go(c, "cancel", conn[c].key, 0)
    /\ UNCHANGED <<storeVars, expiryVars>>

Cancel(c) ==
    /\ conn[c].pc = "cancel"
    /\ E!Cancel(c, conn[c].key)
    /\ Done(c)
    /\ UNCHANGED storeVars

Deadline(c) ==
    /\ conn[c].pc = "deadline"
    /\ E!Deadline(c, conn[c].key, now + conn[c].secs)
    /\ Go(c, "schedule", conn[c].key, 0)
    /\ UNCHANGED storeVars

Schedule(c) ==
    /\ conn[c].pc = "schedule"
    /\ E!Schedule(c)
    /\ Go(c, "notify", conn[c].key, 0)
    /\ UNCHANGED storeVars

Notify(c) ==
    /\ conn[c].pc = "notify"
    /\ E!Notify(c)
    /\ Done(c)
    /\ UNCHANGED storeVars

-----------------------------------------------------------------------------
(* The sweeper and the clock. *)

Sweep == E!Wake /\ UNCHANGED <<storeVars, conn>>

\* A variant whose callback deletes nothing.
OnExpireLogOnly ==
    /\ sweeper.pc = "onExpire"
    /\ sweeper' = [sweeper EXCEPT !.pc = "starting"]
    /\ UNCHANGED <<storeVars, heap, currentExpiry, stop, now, woken, caller, conn>>

\* A variant that clears the key's TTL once more after the callback.
OnExpireClearsTtl ==
    /\ sweeper.pc = "onExpire"
    /\ S!Del(sweeper.key)
    /\ currentExpiry' = [currentExpiry EXCEPT ![sweeper.key] = E!Absent]
    /\ sweeper' = [sweeper EXCEPT !.pc = "starting"]
    /\ UNCHANGED <<heap, stop, now, woken, caller, conn>>

\* onExpire is store.del; the sweeper then takes its own lock again.
OnExpire ==
    /\ sweeper.pc = "onExpire"
    /\ S!Del(sweeper.key)
    /\ sweeper' = [sweeper EXCEPT !.pc = "starting"]
    /\ UNCHANGED <<heap, currentExpiry, stop, now, woken, caller, conn>>

Relock == sweeper.pc = "starting" /\ E!Lock /\ UNCHANGED <<storeVars, conn>>

\* The last ticks wait for the deadlines still to be computed (bound).
Tick == /\ \A c \in Conn : conn[c].pc = "deadline" => now + 1 + conn[c].secs <= MaxTime
        /\ E!Tick
        /\ UNCHANGED <<storeVars, conn>>

Later(c) == ExpiryOf(c) \/ Cancel(c) \/ Deadline(c) \/ Schedule(c) \/ Notify(c)

Next == \/ \E c \in Conn, k \in Key :
              \/ SetPlain(c, k) \/ Get(c, k) \/ Del(c, k) \/ Incr(c, k)
              \/ \E op \in {"TTL", "PERSIST"} : TtlOrPersist(c, k, op)
              \/ \E s \in Seconds : SetEx(c, k, s) \/ Expire(c, k, s)
        \/ \E c \in Conn : Later(c)
        \/ Sweep \/ OnExpire \/ Relock \/ Tick

Spec == Init /\ [][Next]_vars

(* A thread inside a command goes on, the sweeper runs and time passes;    *)
(* clients may send nothing.                                               *)
FairSpec == /\ Spec
            /\ \A c \in Conn : WF_vars(Later(c))
            /\ WF_vars((woken \/ E!TimedOut) /\ Sweep)
            /\ WF_vars(OnExpire) /\ WF_vars(Relock) /\ WF_vars(Tick)

-----------------------------------------------------------------------------
TypeOK == /\ S!TypeOK /\ E!TypeOK
          /\ conn \in [Conn -> [pc : {"idle", "TTL", "PERSIST", "cancel", "deadline",
                                      "schedule", "notify"},
                                key : Key, secs : Seconds \cup {0}]]

(* Connections and the callback use the expiry manager as its callers may, *)
(* with a sweeper that is in its callback until it takes its lock again:   *)
(* no command and no store.del of the callback steps into the manager      *)
(* between two of its critical sections.                                   *)
CallbackEnds ==
    IF sweeper.pc = "starting" /\ sweeper.key \in Key
    THEN [sweeper EXCEPT !.pc = "onExpire"] ELSE sweeper
Expiry == INSTANCE ExpiryManager WITH Caller <- Conn, sweeper <- CallbackEnds
ImplementsExpiryManager == Expiry!Spec

Quiet == \A c \in Conn : Idle(c)
Holds(k, vals) == k \in index /\ S!ValueOf(k) \in vals

(* A TTL in force ends the key: the key leaves the store, unless a client  *)
(* is cancelling or replacing the TTL.  Holds whatever commands, evictions *)
(* and INCRs (which keep the TTL) come in between.                         *)
TtlEndsKey ==
    \A k \in Key : currentExpiry[k] # E!Absent ~>
        \/ k \notin index
        \/ \E c \in Conn : conn[c].key = k /\ conn[c].pc \in {"cancel", "schedule"}

(* docs/PROTOCOL.md: a plain SET clears any existing TTL.  Once every      *)
(* command has replied, the sweeper does not delete a value that a plain   *)
(* SET wrote, be it with a TTL it had popped before or with one that       *)
(* another connection scheduled behind the SET's cancel.                   *)
SweeperSparesPlainValues ==
    [][(OnExpire /\ Quiet) => ~Holds(sweeper.key, PlainValue)]_vars
=============================================================================
