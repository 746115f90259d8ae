--------------------------- MODULE HealthChecker ----------------------------
(***************************************************************************)
(* The router's failover (sharding/shard_topology.cpp and                  *)
(* sharding/health_checker.cpp): one thread pings every shard's primary    *)
(* and replica in turn, counts the misses in the shared topology and       *)
(* promotes the replica of a primary it has declared DOWN.  The servers    *)
(* crash, restart and lose messages beside it.                             *)
(***************************************************************************)
EXTENDS Integers, Sequences

CONSTANTS ShardIds,    \* the shards of topology.conf, in order
          HasReplica,  \* those with a replica
          MaxMissed,   \* max_missed_pings
          MaxFaults    \* bound on crashes and lost messages

Shard == {ShardIds[i] : i \in DOMAIN ShardIds}

ASSUME HealthCheckerAssumption ==
    /\ ShardIds \in Seq(Shard) /\ ShardIds # <<>>
    /\ HasReplica \subseteq Shard
    /\ MaxMissed \in Nat \ {0} /\ MaxFaults \in Nat

Primary(s) == <<s, "primary">>
Replica(s) == <<s, "replica">>
Node == {Primary(s) : s \in Shard} \cup {Replica(s) : s \in HasReplica}

VARIABLES health, misses,      \* ShardNode of each node; misses stops at MaxMissed
          active, failedOver,  \* Shard: the role that serves it, and its latch
          up, serverRole,      \* each server process, and its role_
          running, checker,    \* [pc, at, ok]: where runLoop is, shard, last ping
          faults               \* crashes and lost messages so far

topologyVars == <<health, misses, active, failedOver>>
serverVars == <<up, serverRole>>
checkerVars == <<topologyVars, serverVars, running, checker, faults>>

CheckerInit ==
    /\ health = [n \in Node |-> "UP"] /\ misses = [n \in Node |-> 0]
    /\ active = [s \in Shard |-> "primary"] /\ failedOver = [s \in Shard |-> FALSE]
    /\ up = [n \in Node |-> TRUE]
    /\ serverRole = [n \in Node |-> IF n[2] = "primary" THEN "PRIMARY" ELSE "REPLICA"]
    /\ running = TRUE /\ faults = 0
    /\ checker = [pc |-> "top", at |-> 1, ok |-> FALSE]

-----------------------------------------------------------------------------
(* ShardTopology *)

\* A variant that declares a node DOWN one miss early.
RecordEarly(n, success) ==
    LET missed == IF misses[n] < MaxMissed THEN misses[n] + 1 ELSE MaxMissed
    IN  /\ misses' = [misses EXCEPT ![n] = IF success THEN 0 ELSE missed]
        /\ health' = [health EXCEPT ![n] = IF success THEN "UP"
                                           ELSE IF missed >= MaxMissed - 1 THEN "DOWN" ELSE @]

\* A variant that forgets the misses when it would reach the limit.
RecordNever(n, success) ==
    /\ misses' = [misses EXCEPT ![n] = IF success \/ @ + 1 >= MaxMissed THEN 0 ELSE @ + 1]
    /\ UNCHANGED health

RecordPingResult(n, success) ==
    LET missed == IF misses[n] < MaxMissed THEN misses[n] + 1 ELSE MaxMissed
    IN  /\ misses' = [misses EXCEPT ![n] = IF success THEN 0 ELSE missed]
        /\ health' = [health EXCEPT ![n] = IF success THEN "UP"
                                           ELSE IF missed >= MaxMissed THEN "DOWN" ELSE @]

PromoteReplica(s) ==
    /\ failedOver' = [failedOver EXCEPT ![s] = TRUE]
    /\ active' = [active EXCEPT ![s] = IF failedOver[s] THEN @ ELSE "replica"]

-----------------------------------------------------------------------------
(* HealthChecker: runLoop and checkShard *)

Current == ShardIds[checker.at]
Go(pc) == checker' = [checker EXCEPT !.pc = pc]

\* A variant that does not start over after the last shard.
NextShardUnwrapped == checker' = [pc |-> "top", ok |-> FALSE, at |-> checker.at + 1]

NextShard == checker' = [pc |-> "top", ok |-> FALSE,
                         at |-> IF checker.at = Len(ShardIds) THEN 1 ELSE checker.at + 1]

Top == /\ checker.pc = "top"
       /\ Go(IF running THEN "pingPrimary" ELSE "done")
       /\ UNCHANGED <<topologyVars, serverVars, running, faults>>

\* pingNode: a fresh connection, PING, and the reply, any of which may fail.
Ping(n, pc) ==
    /\ \E lost \in {0, 1} :
          /\ faults + lost <= MaxFaults
          /\ faults' = faults + lost
          /\ checker' = [checker EXCEPT !.pc = pc, !.ok = up[n] /\ lost = 0]
    /\ UNCHANGED <<topologyVars, serverVars, running>>

PingPrimary == checker.pc = "pingPrimary" /\ Ping(Primary(Current), "recordPrimary")

RecordPrimary ==
    /\ checker.pc = "recordPrimary"
    /\ RecordPingResult(Primary(Current), checker.ok)
    /\ IF Current \in HasReplica THEN Go("pingReplica") ELSE NextShard
    /\ UNCHANGED <<active, failedOver, serverVars, running, faults>>

PingReplica == checker.pc = "pingReplica" /\ Ping(Replica(Current), "recordReplica")

RecordReplica ==
    /\ checker.pc = "recordReplica"
    /\ RecordPingResult(Replica(Current), checker.ok)
    /\ IF /\ health[Primary(Current)] = "DOWN"
          /\ health'[Replica(Current)] = "UP"
          /\ ~failedOver[Current]
       THEN Go("promote") ELSE NextShard
    /\ UNCHANGED <<active, failedOver, serverVars, running, faults>>

\* A variant that takes the connection for the answer.
PromoteUnconfirmed ==
    /\ checker.pc = "promote" /\ up[Replica(Current)]
    /\ Go("flip")
    /\ UNCHANGED <<topologyVars, serverVars, running, faults>>

(* REPLICAOF NO ONE to the replica: it is not there, it executes the       *)
(* command and its +OK arrives, or the request or the reply is lost.  It   *)
(* may also never answer (see PromotionAnswers).                           *)
Promote ==
    LET r == Replica(Current)
        executed == [serverRole EXCEPT ![r] = "PRIMARY"]
    IN  /\ checker.pc = "promote"
        /\ \/ ~up[r] /\ NextShard /\ UNCHANGED <<serverRole, faults>>
           \/ up[r] /\ Go("flip") /\ serverRole' = executed /\ UNCHANGED faults
           \/ /\ up[r] /\ faults < MaxFaults
              /\ NextShard
              /\ serverRole' \in {serverRole, executed}
              /\ faults' = faults + 1
        /\ UNCHANGED <<topologyVars, up, running>>

Flip ==
    /\ checker.pc = "flip"
    /\ PromoteReplica(Current)
    /\ NextShard
    /\ UNCHANGED <<health, misses, serverVars, running, faults>>

StopChecker == /\ running /\ running' = FALSE
               /\ UNCHANGED <<topologyVars, serverVars, checker, faults>>

CheckerStep == \/ Top \/ PingPrimary \/ RecordPrimary \/ PingReplica \/ RecordReplica
               \/ Promote \/ Flip

-----------------------------------------------------------------------------
(* The servers and their operator. *)

Crash(n) == /\ up[n] /\ faults < MaxFaults
            /\ up' = [up EXCEPT ![n] = FALSE]
            /\ faults' = faults + 1
            /\ UNCHANGED <<topologyVars, serverRole, running, checker>>

\* A server starts as a primary; REPLICAOF does not survive the process.
Restart(n) == /\ ~up[n]
              /\ up' = [up EXCEPT ![n] = TRUE]
              /\ serverRole' = [serverRole EXCEPT ![n] = "PRIMARY"]
              /\ UNCHANGED <<topologyVars, running, checker, faults>>

\* REPLICAOF by hand, to the standby of a shard no promotion is under way for.
Repoint(s) ==
    LET standby == IF failedOver[s] THEN Primary(s) ELSE Replica(s)
    IN  /\ s \in HasReplica /\ up[standby]
        /\ ~(Current = s /\ checker.pc \in {"promote", "flip"})
        /\ serverRole' = [serverRole EXCEPT ![standby] = "REPLICA"]
        /\ UNCHANGED <<topologyVars, up, running, checker, faults>>

CheckerNext == \/ CheckerStep \/ StopChecker
               \/ \E n \in Node : Crash(n) \/ Restart(n)
               \/ \E s \in Shard : Repoint(s)

(* REPLICAOF NO ONE is sure to be answered only when the shard's primary   *)
(* is gone: as long as it is there and silent, the replica's link may be   *)
(* blocked in recv(), where REPLICAOF waits for it (ReplicaOfReturns of    *)
(* Replication), and the checker's thread waits for the answer.            *)
PromotionAnswers == checker.pc = "promote" => ~up[Primary(Current)]

\* The checker's thread runs; its pings end, since a dead server refuses them.
CheckerSpec == /\ CheckerInit /\ [][CheckerNext]_checkerVars
               /\ WF_checkerVars(CheckerStep /\ PromotionAnswers)

-----------------------------------------------------------------------------
CheckerTypeOK ==
    /\ health \in [Node -> {"UP", "DOWN"}] /\ misses \in [Node -> 0 .. MaxMissed]
    /\ active \in [Shard -> {"primary", "replica"}] /\ failedOver \in [Shard -> BOOLEAN]
    /\ up \in [Node -> BOOLEAN] /\ serverRole \in [Node -> {"PRIMARY", "REPLICA"}]
    /\ running \in BOOLEAN /\ faults \in 0 .. MaxFaults
    /\ checker \in [pc : {"top", "pingPrimary", "recordPrimary", "pingReplica",
                          "recordReplica", "promote", "flip", "done"},
                    at : DOMAIN ShardIds, ok : BOOLEAN]

(* The node a shard's traffic goes to accepts writes: the topology is      *)
(* flipped only after the replica has executed REPLICAOF NO ONE, whatever  *)
(* crashes, restarts and lost replies come in between.                     *)
ActiveIsWritable == \A s \in Shard : serverRole[<<s, active[s]>>] = "PRIMARY"

(* A shard changes hands at most once, from primary to replica, and only   *)
(* when the primary has missed max_missed_pings pings in a row and the     *)
(* replica counts as UP (checkShard's conditions, still true at the flip). *)
FailoverIsJustified ==
    [][\A s \in Shard : active'[s] # active[s] =>
          /\ active[s] = "primary" /\ active'[s] = "replica"
          /\ misses[Primary(s)] = MaxMissed
          /\ health[Replica(s)] = "UP"]_checkerVars

(* A shard whose primary stays dead and whose replica stays up is failed   *)
(* over, even if earlier promotions of it failed half-way, unless another  *)
(* shard's replica never answers and stops the one thread for all.         *)
FailoverHappens ==
    \A s \in HasReplica :
        <>[](~up[Primary(s)] /\ up[Replica(s)]) =>
            \/ <>(active[s] = "replica" \/ ~running)
            \/ <>[](checker.pc = "promote" /\ Current # s)
=============================================================================
