# TinyKV in TLA+

A verification development for TinyKV: TLA+ modules translated from the C++ under
`src/`, TLC configurations that check them on small instances, and TLAPS proofs of
the properties that matter most for every instance.

## The system and its parts

`tinykv-server` runs one detached thread per connection. A thread parses a line,
executes it (`CommandExecutor`) on a shared `KVStore` (a list in recency order and
an index into it, one mutex) and a shared `ExpiryManager` (a heap of deadlines, a map
of the current ones, a sweeper thread, its own mutex), appends a successful write to
the AOF and sends it to the replicas, and then replies. A timer thread flushes the AOF
every second and saves a snapshot now and then; `SAVE` does the same on the
connection's thread. A server may be a replica of another (`REPLICAOF`, `SYNC`).
`tinykv-router` hashes keys to shards, forwards each request over one shared
connection per shard, and runs a health checker that promotes the replica of a dead
primary.

| Part | Source (`src/src/`) | Module | Status |
|---|---|---|---|
| KVStore | `storage/kv_store.cpp` | `KVStore`, `LRUCache`, `KVStoreProofs` | modelled |
| ExpiryManager | `storage/expiry_manager.cpp` | `ExpiryManager`, `ExpiryManagerProofs` | modelled |
| CommandExecutor | `command_executor.cpp` | `CommandExecutor`, `CommandExecutorProofs` | all but SAVE (in `Persistence`) and REPLICAOF (in `Replication`) |
| AOF, snapshot, recovery | `persistence/*.cpp`, `server_main.cpp` | `Persistence`, `PersistenceProofs`; start and stop in `Shutdown` | all but TTLs, recency and an AOF that cannot be opened |
| Topology, failover | `sharding/shard_topology.cpp`, `health_checker.cpp` | `HealthChecker`, `HealthCheckerProofs` | modelled |
| Hash ring | `sharding/consistent_hash_ring.cpp` | `HashRing`, `RouterProofs` | partly: operators, not actions (the router only fills its ring once); the hash uninterpreted |
| Router | `sharding/router.cpp`, `net/tcp_client.cpp` | `Router`, `RouterProofs` | routing and forwarding |
| Replication | `replication/*.cpp`, SYNC in `server_main.cpp` | `Replication`, `ReplicationProofs` | propagation, SYNC, link, REPLICAOF |
| Thread pool | `concurrency/thread_pool.cpp` | `Shutdown`, `ShutdownProofs` | modelled |
| Process life, accept loop | `server_main.cpp`, `net/tcp_server.cpp` | `Shutdown`, `ShutdownProofs` | modelled |
| Parser, replies | `protocol/*.cpp` | (`Persistence`: a line is a command or rejected) | pure functions of a string |
| CLI, configuration, logger, benchmark | | | no shared state |

`PROJECT.json` maps every definition to the lines it stands for, and lists the
hazards of the code with the properties that watch them.

## The modules

**KVStore** has the two structures the code has: `lru` (list_, a sequence of entries)
and `index` (the keys of index_). `Set`, `Get`, `Del`, `IncrementBy`, `Exists`, `Size`
and `ForEach` are the methods, each one critical section and so one action; `Set` and
`IncrementBy` share `SetLocked` with its trailing eviction. Values are records that
say how `std::stoll` reads them: an integer, a number with something behind it, or
text. Sums wrap at `MaxLL` the way the 64-bit build does. `reply` records what the
latest call returned, so that refinement is about results as well.
**LRUCache** is the promise: a map, a relation "used before", and no list or index.
`KVStore!ImplementsLRUCache` is its specification under the mapping from entries to
map and positions to recency.

**ExpiryManager** has `heap` (a multiset), `currentExpiry`, `stop`, the clock, the
sweeper's place in `sweepLoop` and each caller's place. mutex_ is held between the
sweeper's waits, so `Wake` is everything from a wait's return to the next wait;
`notify_one` comes after the unlock and is a step of its own. Waits may return
spuriously. `Deadline` is the caller's `now() + seconds`, computed before the lock.

**CommandExecutor** instantiates both. Each command is the sequence of critical
sections `execute` enters, so two connections and the sweeper interleave between
`set` and `cancel`, `exists` and `schedule`, or the sweeper's erase and its
`store.del`. `ImplementsExpiryManager` says that the manager is driven as its own module
specifies. It maps the sweeper: between its `store.del` and its next lock it is still in
the callback, as far as the manager is concerned (`CallbackEnds`).

**Persistence** has the store as a map, the AOF's ofstream buffer and file, the
snapshot file, `saver` (who holds saveMutex_ and where in `save()`), and the
connection threads between `execute` and `recordWrite`. `Crash` is the death of the
process: what survives of the snapshot and the AOF is any outcome the buffered
streams allow, and `recover()` runs in the same step since the server accepts nobody
before it ends. `history`, `base` and `durable` are not in the code: they say what
the store was after each write, and which writes a flush or save has covered.
`raced` remembers whether writes overlapped each other or a save. `appendOnly` is chosen
at the start. The lines are SET, DEL and INCR: to a log DECR is what INCR is and SET with EX
what SET is, and EXPIRE and PERSIST change no value. The deletions of the sweeper, which
leave no line, are not in this module.

**HashRing** has the ring as a function from positions to nodes. `AddNode`, `RemoveNode`
and `GetNode` are the methods (`Inserted` and `Erased` their loops); the positions of a node (`Spots`) and the
hash of a key are constants, so FNV and its mixing are left out and any outcome of them
is covered, except that two nodes' positions are assumed not to collide (`NoCollision`:
with 150 positions per node in a space of 2^64). With a collision the later node takes the
position and a removal of either deletes it.

**HealthChecker** has the topology (`health`, `misses`, `active`, `failedOver`), the
server processes (`up`, `serverRole`), and the checker's place in `checkShard`; each
call of the topology, each ping and the `REPLICAOF NO ONE` exchange is a step.
A ping, the promotion's request or its reply may be lost; a promotion may also not come
back at all, since the replica's `REPLICAOF NO ONE` joins a thread that a primary declared
DOWN and alive after all may leave in `recv()` (`PromotionAnswers`); servers crash and come back
as primaries, since `role_` is not saved. An operator may run `REPLICAOF` on a
shard's standby (`Repoint`), which the documentation asks for after a failover; the
model assumes nobody does so while the router is promoting that very shard.

**Router** extends it and `HashRing`: a request goes to the shard that the ring of the
configured shards names for its key, and then through `forward()`: the active address is read first, then the
backend's mutex is taken, the connection dropped, opened or reused, and one request
and reply exchanged. A crash ends the connection to the server. `leftover` is what
`LineReader` keeps of earlier replies across `TcpClient::close`, and what the next reply is
appended to (`Relayed`); `full` says that it keeps more than `kMaxLineLength` bytes without a
newline, after which no receive on that backend succeeds. Clients are assumed not to send
SYNC or REPLICAOF with an argument, which the router forwards like any command with a key.

**Replication** has the primary's store and its writers between `execute` and
`propagate`, the registry, and one record per SYNC connection: the place of its thread,
the part of the dump still to send, what was sent and what of it is still to be read. The dump
leaves line by line, so a propagated line may come between two of its lines. It may also come
into the middle of one: the registry's mutex keeps propagated lines apart from each other
only, and a `send()` that is taken in parts lets the other thread's bytes in. `Propagate`
chooses which of the dump's remaining lines its line is mixed with; neither it nor they are
then executed by the replica (`mixed`, `cut`). A first send to a connection that its peer has
closed is answered by a reset, and the next one raises SIGPIPE, which nothing ignores: `BrokenPipe`
is the end of the primary's process. On the replica are the store, `role_`, `running_`, the link's
place in `runLoop`, and the REPLICAOF being executed. `CloseClient` is the `close()` in
`ReplicaLink::stop`: on Linux it does not wake a thread already blocked in `recv()`, so both
outcomes are there.

**Shutdown** is the life of a server process: `main` starts the accept loop, is signalled
at any moment, waits a while for its connections and then runs the destructors in reverse
order of declaration, one step per lock, join or notification. `alive` is the set of
objects not yet destroyed. Beside it run the detached connection threads, the timer of
`PersistenceManager` with its count of tasks in flight, the workers of the `ThreadPool`
(a task is counted, pushed and notified in three steps; taken, run, counted down and
reported in as many), the replica link's thread and the sweeper. What they do to the data is in the other
modules; here it matters which objects they need. A link is started once: no client's second
REPLICAOF holds the manager's mutex while `main` destroys it. SIGINT and SIGTERM reach the main
thread (no thread blocks them), whose `accept()` then fails on the closed socket.

The `MC` modules give values to constants.

## The runs

| Run | Configuration | Result |
|---|---|---|
| `lru_bounded` | `KVStore.cfg` | list and index agree, the bound holds, LRUCache is implemented |
| `expiry` | `ExpiryManager.cfg` | no lost wakeup, no early, cancelled or replaced expiry, no TTL without heap entry; deadlines fire and `stop()` returns |
| `ttl_commands` | `TtlCommands.cfg` | a TTL in force ends with the key gone or the TTL cancelled or replaced, whatever commands of two connections and evictions intervene; commands and sweeper together implement `ExpiryManager` |
| `crash_consistent` | `Crash.cfg` | two connections, the timer, with and without AOF: whenever the files agree (see below) a crash brings back the store after some write no older than the last flush or save |
| `router` | `Router.cfg` | failovers are justified, happen, and lead to a writable node; replies do not cross; the backend's mutex is always released |
| `replication` | `Replication.cfg` | a write after the registration reaches the session unless its line is mixed with the dump's; nothing is applied by a server that has become a primary; a broken link connects again; REPLICAOF returns unless the link's thread sits in `recv()` on a silent primary |
| `shutdown` | `Shutdown.cfg` | no background thread outlives an object it uses; without timeout no connection thread does; every submitted task is run; the process exits, with the same exception for `recv()` |

Five runs show where the code does not do what its documentation says. Each is a
short counterexample:

| Run | Configuration | What happens |
|---|---|---|
| `ttl_sweeper_race` | `TtlSweeperRace.cfg` | the sweeper has popped a TTL and not yet deleted the key; a plain SET replies in between and its value is deleted |
| `save_race` | `SaveRace.cfg` | a write recorded after the dump and before the AOF's reset is in neither |
| `dump_overtaken` | `DumpOvertaken.cfg` | a write propagated while the dump is on its way is mixed with it and lost (the trace TLC prints), or arrives before the dump's older value, which then stays on the replica |
| `replicaof_blocks` | `ReplicaOfBlocks.cfg` | the link's thread is blocked in `recv()` on a silent primary; `stop()` closes the socket and joins, and REPLICAOF does not return |
| `reply_modified` | `ReplyModified.cfg` | the server dies in the middle of a reply; the router reconnects and relays what it had of it in front of the next reply |

### What the passing runs leave out

`FilesAgree` says when `CrashConsistent` may be expected, and so where the code loses
data without a run of its own:

- While the snapshot is rewritten (`dump`, `close`) a crash loses what only the old
  snapshot held: `saveToFile` truncates the one file in place.
- With an AOF, at `reset` the new snapshot is in place and the AOF may lack the buffered
  lines, so the older ones replayed over the snapshot set keys back; at `truncate` the AOF
  is complete, which is harmless for SET and DEL and counts an INCR twice.
- With an AOF, writes that overlap (`raced`) may be appended in the opposite order of their
  execution, a write that overlaps a save may be lost (`save_race`), and a save whose
  snapshot could not be opened resets the AOF all the same.

`TornTail = TRUE` makes the AOF end in mid-line: the last line is replayed with a shortened
value (an integer with fewer digits, which INCR accepts) or runs into the next append. No run
turns it on: only the type theorem is about it. `SweeperSparesPlainValues` also fails with
two connections and no sweeper in between: SET EX's `schedule` comes after a plain SET's
`cancel`, though the plain value was stored last. `Converges` also fails after a reconnect,
since the dump only sets keys: one deleted while the connection was down stays on the
replica. In `Router`, a thread that read the address before
a failover still sends its write to the old primary after it; `PromotedNodeServes` is
about requests routed after the failover only. In `Shutdown`, a connection thread that is
still there after the two seconds goes on with destroyed objects; the comment above
the wait calls it best effort and no guarantee. A task, too, may find the manager destroyed when it
reports its end: it counts itself down before it locks `tasksDoneMutex_`, and `stop()`
may see the count in between, though the comment there calls the wait safe;
`BackgroundThreadsOutlived` excepts this last step. INCR wraps
at the ends of its range and accepts a number followed by text; both are in `KVStore`, and no
run is about them. In `Router` a reply that does not fit into `kMaxLineLength` makes its shard
unavailable for good, which no property denies. A primary may die of SIGPIPE, which
`Reconnects` excepts. `OnlyRecvBlocksReplicaOf` and `ShutdownCompletes` hold of every wait
but the one `replicaof_blocks` shows, and `FailoverHappens` excepts a checker that such a wait
holds up in another shard's promotion.

### Bounds

- `KVStore`: three keys and room for two make every eviction a choice; `MaxLL = 1`
  makes wrapping happen after two increments.
- `ExpiryManager`: two callers race each other and the sweeper; a clock of four
  instants lets a nearer deadline arrive while the sweeper sleeps for a later one, and
  a rescheduled one outlive its entry. One key: the proofs cover more. `MaxCopies`
  keeps the heap finite.
- `CommandExecutor`: two connections, so that each one's command falls between the critical
  sections of the other's, and a clock of three instants with TTLs of one and two, so that a TTL
  is replaced by an earlier, an equal and a later one. Every command is sent about one key; a
  second key, which is only SET, evicts it from a store for one. `MaxCopies` bounds how often a
  deadline of a key is in the heap or on its way there: a client does not send SET with EX
  or EXPIRE beyond it, while the error replies of EXPIRE are not bounded. A `Seconds` of 0
  stands for text that is no positive number.
- `Persistence`: two keys, two connections, two writes per process life and one crash, so
  the recovered state is written to and examined again; a crash could also come at any
  later state, since `CrashConsistent` looks at what recovery *would* give in every state.
  Two writes are enough for each pair of commands to meet each other and a save; keys and
  connections are symmetric, as no definition chooses among them.
- `Shutdown`: two connections, the two workers `main` asks for, and three ticks of the timer
  with a snapshot every second one: four tasks, so that a queue of several meets both
  workers, waiting and busy. A signal may come at any moment, so also with every number of
  tasks queued. A process that has exited does nothing more: deadlock is not checked.
- `Router`: one shard with a replica, two threads, two missed pings to DOWN, and two
  faults (crashes or lost messages), which is enough for a primary that dies while the
  promotion's reply is lost, for both nodes dying, and for a live primary declared
  DOWN. `misses` stops at `MaxMissed`, as the code only compares it with that.
  Shards share nothing but the checker's thread and the topology's mutex; the proofs
  are about any number of them.
- `HashRing`: what it promises is about one call on any ring and is proved; `MCRouter` only
  has TLC evaluate it once, as an assumption, with three nodes with one or two positions each, seven hash
  values, keys below, above and exactly at positions, and every ring over those positions.
- `Replication`: one key, two writers and two writes, so that two lines for the key
  can be propagated in either order; two SYNC connections and one loss give a
  reconnect, and two REPLICAOF commands make the server a replica and a primary again.
  `Reconnects` says nothing once the bounded connections are used up. Writes are
  bounded, so the model comes to rest and deadlock is not checked. Every write is an INCR:
  no property of the run tells the commands apart, and the proofs are about every set of them.
  `DumpOvertaken.cfg` has SET and DEL and a single writer, `ReplicaOfBlocks.cfg` a single write.

### Fairness

Threads that can run do run (weak fairness of each thread's next step). A wait that
was notified or has timed out returns, and time passes: `std::condition_variable` and
the clock guarantee it. No client, operator or restart is ever obliged to act.
`FailoverHappens` needs the checker's thread only: pings end because a dead server
refuses them (a hung one that accepts and never answers is outside the model, as it is
outside the code, which says so above `pingNode`), and faults are finite. A promotion is only
obliged to end if the replica's old primary is gone (`PromotionAnswers`).
`BackendIsReleased` needs the holder's thread and a live server that answers; nothing
is claimed about which waiting thread gets the mutex next. `Reconnects` needs the link's
thread, the SYNC threads and the writers; `OnlyRecvBlocksReplicaOf` and `ReplicaOfReturns` the
thread that executes the command as well. `TasksGetRun` and
`ShutdownCompletes` need `main`, the timer, each worker, the link's thread (except in
`recv()`) and the sweeper to run; not a signal, a client that leaves, or a wakeup without
notification.

## What is proved

But for the theorems about the hash ring, the proof modules follow one plan: an inductive invariant, a lemma that
the initial states satisfy it, lemmas with one case per action that every step keeps
it, and theorems that read the properties off it.

- `KVStoreProofs`: `TypeCorrect`, `IndexAlwaysMatchesList` and `NeverOverCapacity`, for
  any set of keys, capacity (0 included) and integer width. The invariant adds to the
  type that the list's keys are distinct and are exactly the index; without
  distinctness an eviction or a delete could leave a second entry of the key behind.
  The lemmas say what erasing, pushing to the front and evicting do to a list.
  `ListImplementsLRUCache` is the refinement of `LRUCache`, one lemma per method: a position
  nearer the end of the list is an earlier use (`Behind`), so erasing an entry removes its
  key from map and order, pushing to the front makes it the latest, and the entry
  that `evictIfNeeded` drops from the end is the one key that no other was used before.
- `ExpiryManagerProofs`: `TypeCorrect`, `DeadlinesAreInHeap`, `NoLostWakeup` and
  `OnlyDueKeysExpire`,
  for any keys, callers and clock. A pending `notify` is part of the invariant: between
  a push and its notify the sweeper may oversleep. That a popped entry is due needs
  that a sleeping sweeper's deadline is never before the heap's top: only the sweeper
  pops, so the entry it sleeps for, or an earlier one, is still there when it wakes.
- `CommandExecutorProofs`: the server's threads over both components, for any connections,
  keys, values, TTLs and commands. `CommandsDriveTheManager` shows that the composition
  implements `ExpiryManager` (and a lemma that it implements `KVStore`). It needs an
  invariant of its own: the sweeper's callback has a key, and a deadline about to be
  computed lies in the future and within the clock's bound. The two proof modules are then
  instantiated, so what they prove holds of the running server as well:
  `StoreStaysAnLRUCache` (index and list, capacity, LRU order), `TtlsStayArmed` (heap
  entries and wakeups) and `OnlyDueKeysAreDeleted`. The last one does not follow from the
  refinement alone, since the mapping hides the end of a callback; it needs that only a pop
  starts one. `TypeCorrect` puts the types together.
- `PersistenceProofs`: `TypeCorrect`, and `AlwaysCrashConsistent` under the hypothesis
  `~TornTail` (the AOF survives in whole lines), for any keys, values, connections, writes
  and crashes. The invariant says that the store is the replay of the writes since the start
  (`Executed`); that without an AOF the snapshot is the store after the durable writes
  (`SnapshotAgrees`); and that with one, as long as nothing raced, the file holds the writes
  up to some point, the buffer the rest up to the last recorded one, and a save in progress
  the store as it is (`Log`). That a complete old AOF replayed over the new snapshot is
  harmless (`truncate`) rests on a lemma about SET and DEL (`ReplayTwice`): replaying
  the same lines a second time changes nothing.
- `ReplicationProofs`: `TypeCorrect`, `OnlyMixedLinesAreMissing` and `OnlyReplicasApply`, for any
  keys, values, commands, writers, sessions, losses and REPLICAOF commands. The invariant
  (`Covered`) says that from the moment of its dump an open session has every write in one of
  four places: in the dump, in what it was sent, among the lines mixed with the dump's, or in the
  hands of a writer that has yet to propagate it; and every key of the dump among those sent,
  those cut or those still to send. `Streams` says that a session past its registration is
  registered until it ends, and `Linked` that the link's thread runs on a replica only.
- `HealthCheckerProofs`: `ActiveAlwaysWritable` and `FailoversAreJustified`, for any
  topology, miss limit and number of faults. The invariant ties the active node to the
  latch and says that what `checkShard` has found out (the primary DOWN, the replica
  UP, not failed over, later the replica in the primary role) stays true until the flip,
  whatever crashes, restarts and re-pointing happen in between.
- `RouterProofs`: `RouterActiveWritable` and `RouterFailoversJustified` carry the health
  checker's two theorems over to the composed system.
  `RepliesAreOwn`, `PromotedNodeAlwaysServes` and `RouterTypeCorrect` are about forwarding,
  for any shards, clients, hash and faults. The invariant (`Held`) says that a backend's mutex is held by
  the one thread that waits for a reply, and that nothing is on the connection but that
  thread's request or its reply: `forward()` closes the connection on every failure, so
  no late reply is left for the next holder. What a reader keeps of a reply that was cut off is not on
  the connection, and `RepliesAreOwn` does not deny it. The type includes that every key has a shard
  (`getNode` finds one), for which the constructor's ring is shown not to be empty.
- `RouterProofs`, on the hash ring: `AddMoves`, `RemoveMoves` and `HistoryFree`, about every
  ring, for any nodes, keys and hash. The argument is about the least position at or after a key's hash:
  taking positions away leaves it alone unless it is one of them, and adding positions can
  only replace it by one of the new node's. `RemoveMoves` is about rings whose nodes hold
  positions of their own, as every ring the two methods build does, and needs `NoCollision`:
  a removal deletes no other node's position.
- `ShutdownProofs`: `ThreadsOutlived`, `HandlersOutlived` and `TypeCorrect`, for any number of
  connections, workers and ticks. The invariant says which objects are alive at each place of `main`,
  that `activeConnections_` is the number of threads in a handler, and that
  `inFlightTasks_` is the number of tasks about to be pushed, queued or running, so that
  0 means that none is left; and that once the timer has ended none is added. The type
  bounds that count by two per tick, which takes a second invariant (`Bounds`) that counts
  a snapshot the timer may still submit.

Facts about replaying a log and filling the ring need induction. They are proved for every
length from the least counterexample: a set of numbers that is not empty has a least
element, and what holds for one line or node less contradicts it.

The assumptions are the named `ASSUME`s of the component modules: bounds are natural
numbers, `max_missed_pings` is positive, a topology has at least one shard, every shard has
a position on the ring, connections and workers are finitely many, the nodes of a ring do not
collide, there is a key, what clients SET are stored strings, and the markers for "absent"
and "nobody" are no key, value or client.

Only model-checked: all liveness, since the prover does not do fairness and `ENABLED`
(`CommandExecutor`'s `TtlEndsKey` among it); and the five counterexamples. Every safety property of a passing run has a theorem. `AlwaysCrashConsistent` says nothing of files torn in mid-line, nor
of the moments `FilesAgree` leaves out.

## What is not modelled

- Of replication: the clients of a replica (whose role check comes before `execute` and may
  be stale by then), its own AOF and snapshot, replicas of replicas, and what the pieces of
  lines that were mixed on the socket may parse to.
- The router's local replies (ROUTE, NODES, PING), which change no state, and the shutdown
  of the router process.
- The hash function itself, the parser's tokens, the text of lines and replies, logging,
  configuration, the command line and the benchmark: functions of one input, or output,
  without state that steps of two actors could disturb.
- TTLs after a recovery; the documentation says they are not kept. An AOF file that cannot be
  opened, which the server runs without.
- The recency of keys across a restart. A bounded store does not recover the keys it had: the
  snapshot lists the most recent key first, so loading it reverses the order, and reads leave
  no line in the AOF, so that the replay evicts other keys.
- A client that sends SYNC or REPLICAOF through the router: the shared connection would become a
  replica's stream, or the shard's role change under the topology.
- The width of `steady_clock`: the overflow of huge `EX` seconds is only listed as a hazard.
- A server that accepts a ping and never answers.

About a third of the lines under `src/src/` and `src/include/` is mapped; the rest is the
parts listed here, startup code, declarations, comments and wording.
