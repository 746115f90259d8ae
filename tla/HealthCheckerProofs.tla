------------------------ MODULE HealthCheckerProofs -------------------------
(***************************************************************************)
(* For every topology, miss limit and number of faults: the node a shard's *)
(* traffic goes to is in the primary role, and a shard is failed over only *)
(* for a reason.                                                           *)
(***************************************************************************)
EXTENDS HealthChecker, TLAPS

\* The role of the node each shard is served by, and its latch, in step.
Served ==
    \A s \in Shard :
        /\ active[s] = IF failedOver[s] THEN "replica" ELSE "primary"
        /\ failedOver[s] => s \in HasReplica /\ serverRole[Replica(s)] = "PRIMARY"
        /\ ~failedOver[s] => serverRole[Primary(s)] = "PRIMARY"

\* Where checkShard is, what it has found out so far still holds.
Found ==
    /\ \A n \in Node : health[n] = "DOWN" => misses[n] = MaxMissed
    /\ checker.pc \in {"pingReplica", "recordReplica", "promote", "flip"} =>
          Current \in HasReplica
    /\ checker.pc \in {"promote", "flip"} =>
          /\ health[Primary(Current)] = "DOWN" /\ health[Replica(Current)] = "UP"
          /\ ~failedOver[Current]
    /\ checker.pc = "flip" => serverRole[Replica(Current)] = "PRIMARY"

IInv == CheckerTypeOK /\ Served /\ Found

-----------------------------------------------------------------------------
\* What the proofs use of nodes: primaries and replicas are all of them, and
\* no two are the same.
LEMMA NodeLemma ==
    /\ \A s \in Shard : Primary(s) \in Node
    /\ \A s \in HasReplica : s \in Shard /\ Replica(s) \in Node
    /\ \A s, t \in Shard : Primary(s) # Replica(t)
    /\ \A s, t \in Shard : Primary(s) = Primary(t) => s = t
    /\ \A s, t \in Shard : Replica(s) = Replica(t) => s = t
<1>1. HasReplica \subseteq Shard
  BY HealthCheckerAssumption
<1> QED
  BY <1>1 DEF Node, Primary, Replica

\* The shard the checker is at is one of the topology, and so is the next.
LEMMA CurrentLemma ==
    ASSUME CheckerTypeOK
    PROVE  /\ Current \in Shard
           /\ NextShard => /\ checker' \in [pc : {"top"}, at : DOMAIN ShardIds, ok : BOOLEAN]
                           /\ checker'.pc = "top"
<1>1. checker.at \in DOMAIN ShardIds /\ DOMAIN ShardIds = 1 .. Len(ShardIds) /\ Len(ShardIds) \in Nat
  BY HealthCheckerAssumption DEF CheckerTypeOK
<1>2. Current \in Shard
  BY <1>1 DEF Current, Shard
<1>3. PICK i \in DOMAIN ShardIds : i = IF checker.at = Len(ShardIds) THEN 1 ELSE checker.at + 1
  BY <1>1
<1>4. ASSUME NextShard
      PROVE  /\ checker' \in [pc : {"top"}, at : DOMAIN ShardIds, ok : BOOLEAN]
             /\ checker'.pc = "top"
  <2>1. checker' = [pc |-> "top", ok |-> FALSE, at |-> i]
    BY <1>3, <1>4, Zenon DEF NextShard
  <2> QED
    BY <2>1
<1> QED
  BY <1>2, <1>4, Zenon

\* recordPingResult keeps the counters in range, and a node is DOWN only
\* with the limit of misses; the other nodes are left alone.
LEMMA RecordLemma ==
    ASSUME CheckerTypeOK, NEW n \in Node, NEW ok \in BOOLEAN,
           \A m \in Node : health[m] = "DOWN" => misses[m] = MaxMissed,
           RecordPingResult(n, ok)
    PROVE  /\ health' \in [Node -> {"UP", "DOWN"}] /\ misses' \in [Node -> 0 .. MaxMissed]
           /\ \A m \in Node : health'[m] = "DOWN" => misses'[m] = MaxMissed
           /\ \A m \in Node \ {n} : health'[m] = health[m]
<1>1. /\ MaxMissed \in Nat \ {0} /\ misses \in [Node -> 0 .. MaxMissed]
      /\ health \in [Node -> {"UP", "DOWN"}]
  BY HealthCheckerAssumption DEF CheckerTypeOK
<1>2. PICK missed \in 0 .. MaxMissed :
         /\ misses' = [misses EXCEPT ![n] = IF ok THEN 0 ELSE missed]
         /\ health' = [health EXCEPT ![n] = IF ok THEN "UP"
                                            ELSE IF missed >= MaxMissed THEN "DOWN" ELSE @]
         /\ misses[n] = MaxMissed => missed = MaxMissed
  <2>1. PICK missed \in 0 .. MaxMissed :
            missed = IF misses[n] < MaxMissed THEN misses[n] + 1 ELSE MaxMissed
    BY <1>1
  <2>2. misses[n] = MaxMissed => missed = MaxMissed
    BY <1>1, <2>1
  <2> QED
    BY <2>1, <2>2, Zenon DEF RecordPingResult
<1> QED
  BY <1>1, <1>2

-----------------------------------------------------------------------------
\* The initial state satisfies the invariant.
LEMMA InitInv == CheckerInit => IInv
<1> SUFFICES ASSUME CheckerInit PROVE IInv
  OBVIOUS
<1>1. /\ MaxMissed \in Nat /\ MaxFaults \in Nat /\ 1 \in DOMAIN ShardIds
  BY HealthCheckerAssumption
<1>2. CheckerTypeOK
  BY <1>1 DEF CheckerInit, CheckerTypeOK
<1>3. \A s \in Shard : serverRole[Primary(s)] = "PRIMARY"
  BY NodeLemma DEF CheckerInit, Primary
<1>4. Served
  BY <1>3 DEF CheckerInit, Served
<1>5. Found
  BY DEF CheckerInit, Found
<1> QED
  BY <1>2, <1>4, <1>5 DEF IInv

\* A step of the checker's own that only moves it on, the rest untouched.
LEMMA MoveLemma ==
    ASSUME IInv, checker' \in [pc : {"top", "pingPrimary", "done"}, at : DOMAIN ShardIds,
                               ok : BOOLEAN],
           UNCHANGED <<topologyVars, up, serverRole, running, faults>>
    PROVE  IInv'
<1>1. checker'.pc \in {"top", "pingPrimary", "done"}
  OBVIOUS
<1>2. CheckerTypeOK'
  BY DEF IInv, CheckerTypeOK, topologyVars
<1>3. Served'
  BY DEF IInv, Served, topologyVars
<1>4. Found'
  BY <1>1 DEF IInv, Found, topologyVars
<1> QED
  BY <1>2, <1>3, <1>4 DEF IInv

\* Every step keeps the invariant, one case per action.
LEMMA NextInv == IInv /\ [CheckerNext]_checkerVars => IInv'
<1> SUFFICES ASSUME IInv, [CheckerNext]_checkerVars PROVE IInv'
  OBVIOUS
<1> USE DEF IInv
<1>0. /\ Current \in Shard /\ checker.at \in DOMAIN ShardIds
      /\ MaxFaults \in Nat /\ faults \in 0 .. MaxFaults
  BY CurrentLemma, HealthCheckerAssumption DEF CheckerTypeOK
<1>1. CASE Top
  <2>1. checker' \in [pc : {"top", "pingPrimary", "done"}, at : DOMAIN ShardIds, ok : BOOLEAN]
    BY <1>1 DEF Top, Go, CheckerTypeOK
  <2> QED
    BY <1>1, <2>1, MoveLemma DEF Top, serverVars
<1>2. ASSUME NEW n \in Node, NEW pc \in {"recordPrimary", "recordReplica"}, Ping(n, pc),
             pc = "recordReplica" => Current \in HasReplica
      PROVE  IInv'
  <2>1. /\ checker' \in [pc : {pc}, at : DOMAIN ShardIds, ok : BOOLEAN]
        /\ checker'.pc = pc /\ checker'.at = checker.at
    BY <1>2 DEF Ping, CheckerTypeOK
  <2>2. faults' \in 0 .. MaxFaults
    BY <1>2, <1>0 DEF Ping
  <2>3. CheckerTypeOK'
    BY <1>2, <2>1, <2>2 DEF Ping, CheckerTypeOK, topologyVars, serverVars
  <2>4. Served'
    BY <1>2 DEF Ping, Served, topologyVars, serverVars
  <2>5. Found'
    BY <1>2, <2>1 DEF Ping, Found, topologyVars, serverVars, Current
  <2> QED
    BY <2>3, <2>4, <2>5
<1>3. CASE PingPrimary
  BY <1>0, <1>2, <1>3, NodeLemma DEF PingPrimary
<1>4. CASE PingReplica
  BY <1>0, <1>2, <1>4, NodeLemma DEF PingReplica, Found
<1>5. CASE RecordPrimary
  <2>1. /\ health' \in [Node -> {"UP", "DOWN"}] /\ misses' \in [Node -> 0 .. MaxMissed]
        /\ \A m \in Node : health'[m] = "DOWN" => misses'[m] = MaxMissed
    BY <1>0, <1>5, NodeLemma, RecordLemma DEF RecordPrimary, CheckerTypeOK, Found
  <2>2. /\ checker' \in [pc : {"pingReplica", "top"}, at : DOMAIN ShardIds, ok : BOOLEAN]
        /\ checker'.pc = "pingReplica" => checker'.at = checker.at /\ Current \in HasReplica
    BY <1>5, CurrentLemma DEF RecordPrimary, Go, CheckerTypeOK
  <2>3. CheckerTypeOK'
    BY <1>5, <2>1, <2>2 DEF RecordPrimary, CheckerTypeOK, serverVars
  <2>4. Served'
    BY <1>5 DEF RecordPrimary, Served, serverVars
  <2>5. Found'
    BY <2>1, <2>2 DEF Found, Current
  <2> QED
    BY <2>3, <2>4, <2>5
<1>6. CASE RecordReplica
  <2> DEFINE promoting == /\ health[Primary(Current)] = "DOWN"
                          /\ health'[Replica(Current)] = "UP"
                          /\ ~failedOver[Current]
  <2>0. Current \in HasReplica
    BY <1>6 DEF RecordReplica, Found
  <2>1. /\ health' \in [Node -> {"UP", "DOWN"}] /\ misses' \in [Node -> 0 .. MaxMissed]
        /\ \A m \in Node : health'[m] = "DOWN" => misses'[m] = MaxMissed
        /\ health'[Primary(Current)] = health[Primary(Current)]
    BY <1>0, <1>6, <2>0, NodeLemma, RecordLemma DEF RecordReplica, CheckerTypeOK, Found
  <2>2. /\ checker' \in [pc : {"promote", "top"}, at : DOMAIN ShardIds, ok : BOOLEAN]
        /\ checker'.pc = "promote" => checker'.at = checker.at /\ promoting
    BY <1>6, CurrentLemma DEF RecordReplica, Go, CheckerTypeOK
  <2>3. CheckerTypeOK'
    BY <1>6, <2>1, <2>2 DEF RecordReplica, CheckerTypeOK, serverVars
  <2>4. Served'
    BY <1>6 DEF RecordReplica, Served, serverVars
  <2>5. failedOver' = failedOver
    BY <1>6 DEF RecordReplica
  <2>6. Found'
    BY <2>0, <2>1, <2>2, <2>5 DEF Found, Current
  <2> QED
    BY <2>3, <2>4, <2>6
<1>7. CASE Promote
  <2>0. /\ Current \in HasReplica /\ Replica(Current) \in Node
        /\ health[Primary(Current)] = "DOWN" /\ health[Replica(Current)] = "UP"
        /\ ~failedOver[Current]
    BY <1>0, <1>7, NodeLemma DEF Promote, Found
  <2>1. /\ checker' \in [pc : {"flip", "top"}, at : DOMAIN ShardIds, ok : BOOLEAN]
        /\ checker'.pc = "flip" => checker'.at = checker.at
    BY <1>7, CurrentLemma DEF Promote, Go, CheckerTypeOK
  <2>2. /\ serverRole' \in {serverRole, [serverRole EXCEPT ![Replica(Current)] = "PRIMARY"]}
        /\ checker'.pc = "flip" =>
              serverRole' = [serverRole EXCEPT ![Replica(Current)] = "PRIMARY"]
        /\ UNCHANGED <<topologyVars, up, running>> /\ faults' \in 0 .. MaxFaults
    BY <1>0, <1>7, CurrentLemma DEF Promote, Go, CheckerTypeOK
  <2>3. /\ serverRole' \in [Node -> {"PRIMARY", "REPLICA"}]
        /\ \A n \in Node : serverRole[n] = "PRIMARY" => serverRole'[n] = "PRIMARY"
        /\ checker'.pc = "flip" => serverRole'[Replica(Current)] = "PRIMARY"
    BY <2>0, <2>2 DEF CheckerTypeOK
  <2>4. CheckerTypeOK'
    BY <2>1, <2>2, <2>3 DEF CheckerTypeOK, topologyVars
  <2>5. Served'
    BY <2>2, <2>3, NodeLemma DEF Served, topologyVars
  <2>6. Found'
    BY <2>0, <2>1, <2>2, <2>3 DEF Found, Current, topologyVars
  <2> QED
    BY <2>4, <2>5, <2>6
<1>8. CASE Flip
  <2>0. /\ Current \in HasReplica /\ serverRole[Replica(Current)] = "PRIMARY"
        /\ ~failedOver[Current]
    BY <1>8 DEF Flip, Found
  <2>1. /\ checker' \in [pc : {"top"}, at : DOMAIN ShardIds, ok : BOOLEAN] /\ checker'.pc = "top"
    BY <1>8, CurrentLemma DEF Flip
  <2>2. /\ failedOver' = [failedOver EXCEPT ![Current] = TRUE]
        /\ active' = [active EXCEPT ![Current] = "replica"]
    BY <1>8, <2>0 DEF Flip, PromoteReplica
  <2>3. CheckerTypeOK'
    BY <1>0, <1>8, <2>1, <2>2 DEF Flip, CheckerTypeOK, serverVars
  <2>4. Served'
    BY <1>0, <1>8, <2>0, <2>2 DEF Flip, Served, CheckerTypeOK, serverVars
  <2>5. Found'
    BY <1>8, <2>1 DEF Flip, Found
  <2> QED
    BY <2>3, <2>4, <2>5
<1>9. CASE StopChecker
  <2>1. CheckerTypeOK'
    BY <1>9 DEF StopChecker, CheckerTypeOK, topologyVars, serverVars
  <2>2. Served' /\ Found'
    BY <1>9 DEF StopChecker, Served, Found, Current, topologyVars, serverVars
  <2> QED
    BY <2>1, <2>2
<1>10. ASSUME NEW n \in Node, Crash(n) PROVE IInv'
  <2>1. CheckerTypeOK'
    BY <1>0, <1>10 DEF Crash, CheckerTypeOK, topologyVars
  <2>2. Served' /\ Found'
    BY <1>10 DEF Crash, Served, Found, Current, topologyVars
  <2> QED
    BY <2>1, <2>2
<1>11. ASSUME NEW n \in Node, Restart(n) PROVE IInv'
  <2>1. CheckerTypeOK'
    BY <1>11 DEF Restart, CheckerTypeOK, topologyVars
  <2>2. \A m \in Node : serverRole[m] = "PRIMARY" => serverRole'[m] = "PRIMARY"
    BY <1>11 DEF Restart, CheckerTypeOK
  <2>3. Served'
    BY <1>11, <2>2, NodeLemma DEF Restart, Served, topologyVars
  <2>4. Found'
    BY <1>0, <1>11, <2>2, NodeLemma DEF Restart, Found, Current, topologyVars
  <2> QED
    BY <2>1, <2>3, <2>4
<1>12. ASSUME NEW s \in Shard, Repoint(s) PROVE IInv'
  <2>1. PICK standby \in Node :
          /\ standby = IF failedOver[s] THEN Primary(s) ELSE Replica(s)
          /\ serverRole' = [serverRole EXCEPT ![standby] = "REPLICA"]
    BY <1>12, NodeLemma DEF Repoint
  <2>2. CheckerTypeOK'
    BY <1>12, <2>1 DEF Repoint, CheckerTypeOK, topologyVars
  <2>3. \A m \in Node \ {standby} : serverRole'[m] = serverRole[m]
    BY <2>1 DEF CheckerTypeOK
  <2>4. ASSUME NEW t \in Shard
        PROVE  /\ failedOver[t] /\ t \in HasReplica => Replica(t) \in Node \ {standby}
               /\ ~failedOver[t] => Primary(t) \in Node \ {standby}
    BY <2>1, NodeLemma DEF CheckerTypeOK
  <2>5. Served'
    BY <1>12, <2>3, <2>4 DEF Repoint, Served, topologyVars
  <2>6. ASSUME checker.pc = "flip" PROVE serverRole'[Replica(Current)] = "PRIMARY"
    <3>1. /\ Current \in HasReplica /\ Current # s /\ serverRole[Replica(Current)] = "PRIMARY"
      BY <1>12, <2>6 DEF Repoint, Found
    <3>2. Replica(Current) \in Node \ {standby}
      BY <1>0, <2>1, <3>1, NodeLemma
    <3> QED
      BY <2>3, <3>1, <3>2
  <2>7. Found'
    BY <1>12, <2>6 DEF Repoint, Found, Current, topologyVars
  <2> QED
    BY <2>2, <2>5, <2>7
<1>13. CASE UNCHANGED checkerVars
  <2>1. CheckerTypeOK'
    BY <1>13 DEF checkerVars, CheckerTypeOK, topologyVars, serverVars
  <2>2. Served' /\ Found'
    BY <1>13 DEF checkerVars, Served, Found, Current, topologyVars, serverVars
  <2> QED
    BY <2>1, <2>2
<1> QED
  BY <1>1, <1>3, <1>4, <1>5, <1>6, <1>7, <1>8, <1>9, <1>10, <1>11, <1>12, <1>13
     DEF CheckerNext, CheckerStep

-----------------------------------------------------------------------------
\* The inductive invariant holds throughout.
THEOREM Invariance == CheckerSpec => []IInv
BY InitInv, NextInv, PTL DEF CheckerSpec

\* The checker's and the topology's state keep their types; the index of
\* runLoop stays within the shards.
THEOREM CheckerTypeCorrect == CheckerSpec => []CheckerTypeOK
BY Invariance, PTL DEF IInv

\* Served names the node in the primary role.
LEMMA WritableLemma == IInv => ActiveIsWritable
<1> SUFFICES ASSUME IInv, NEW s \in Shard PROVE serverRole[<<s, active[s]>>] = "PRIMARY"
  BY DEF ActiveIsWritable
<1>1. CASE failedOver[s]
  <2>1. active[s] = "replica" /\ serverRole[Replica(s)] = "PRIMARY"
    BY <1>1 DEF IInv, Served
  <2> QED
    BY <2>1 DEF Replica
<1>2. CASE ~failedOver[s]
  <2>1. active[s] = "primary" /\ serverRole[Primary(s)] = "PRIMARY"
    BY <1>2 DEF IInv, Served
  <2> QED
    BY <2>1 DEF Primary
<1> QED
  BY <1>1, <1>2

\* The node a shard's traffic goes to accepts writes: checkShard flips the
\* active address only after the replica has confirmed REPLICAOF NO ONE.
THEOREM ActiveAlwaysWritable == CheckerSpec => []ActiveIsWritable
BY WritableLemma, Invariance, PTL

\* What FailoverIsJustified asks of a step.
Justified ==
    \A s \in Shard : active'[s] # active[s] =>
        /\ active[s] = "primary" /\ active'[s] = "replica"
        /\ misses[Primary(s)] = MaxMissed
        /\ health[Replica(s)] = "UP"

\* Only Flip changes who serves a shard, and Found says what it has checked.
LEMMA JustifiedLemma == IInv /\ [CheckerNext]_checkerVars => [Justified]_checkerVars
<1> SUFFICES ASSUME IInv, CheckerNext PROVE Justified
  OBVIOUS
<1>1. CASE Flip
  <2>1. /\ Current \in Shard /\ active' = [active EXCEPT ![Current] = "replica"]
        /\ active[Current] = "primary" /\ misses[Primary(Current)] = MaxMissed
        /\ health[Replica(Current)] = "UP"
    BY <1>1, CurrentLemma, NodeLemma DEF Flip, PromoteReplica, IInv, Found, Served
  <2> QED
    BY <2>1 DEF IInv, CheckerTypeOK, Justified
<1>2. CASE ~Flip
  <2>1. active' = active
    BY <1>2 DEF CheckerNext, CheckerStep, Top, PingPrimary, PingReplica, Ping, RecordPrimary,
                RecordReplica, Promote, StopChecker, Crash, Restart, Repoint, topologyVars
  <2> QED
    BY <2>1 DEF Justified
<1> QED
  BY <1>1, <1>2

\* checkShard changes a shard's active node only once, from a primary with
\* max_missed_pings misses to a replica that counts as UP.
THEOREM FailoversAreJustified == CheckerSpec => FailoverIsJustified
BY JustifiedLemma, Invariance, PTL DEF CheckerSpec, FailoverIsJustified, Justified
=============================================================================
