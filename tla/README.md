# TLA+ models of HyperCache

HyperCache (module `github.com/hyp3rd/hypercache`) is a Go cache with
pluggable backends. Its hardest part is `DistMemory`
(`pkg/backend/dist_memory.go`), an in-memory backend that replicates every key
over several nodes with consistent hashing, tunable consistency, hinted
handoff, read repair, Merkle anti-entropy, SWIM-style membership and
rebalancing. Around it are the local cache with its eviction and expiration
loops, a server binary with a client and a management API, and a client SDK. This
directory holds models of that code, the TLC runs that check them on small
instances, and TLAPS proofs of the properties that matter most.

## 1. Inventory

| Part | State | Operations | Talks to |
|---|---|---|---|
| Request paths (`dist_memory.go`) | calls in flight | `Set`, `Get`, `Remove`, `Drain`; handlers of forwarded requests | ring, store, transport, hint queue |
| Per-node store (`distShard`, `cache/v2`) | items, tombstones, `versionCounter`, `tombVersionCounter` | `applySet`, `applyForwardedSet`, `applyRemove` | written by every path that carries a copy |
| Hint queue | `hints`, `hintTotal`, `hintBytes`, metrics | `queueHint`, `replayHints`, `processHint` | filled by failed fan-out and failed migration |
| Membership, heartbeat, gossip (`internal/cluster`) | node states, incarnations, version | `Upsert`, `Mark`, `Refute`, `Remove`; heartbeat and gossip ticks | rebuilds the ring, triggers rebalancing |
| Ring | virtual nodes | `Build`, `Lookup` | read by every path |
| Anti-entropy, auto-sync, sweeper | Merkle trees, backoff, tombstones | `SyncWith`, `fetchAndAdopt`, `compactTombstones` | store, transport |
| Rebalancing | `originalPrimary`, `originalOwners`, `removedAt` | `migrateIfNeeded`, `replicateNewReplicas`, `shedRemovedKeys` | store, ring, hint queue |
| Batched read repair | pending repairs per peer | `enqueue`, `flush`, `stop` | transport |
| Transports, HTTP server, chaos wrapper | none of their own | one RPC each | all nodes |
| HyperCache core | capacity, memory total, trigger channels | `Set`, `Get`, `GetOrSet`, `Remove`, `Clear`, eviction and expiration loops | backend, eviction algorithm, worker pool |
| Key listing (`dist_keys.go`) | the merge of one call | `ListKeys` | members, transport |
| Worker pool | job, quit and error channels | `Enqueue`, `Resize`, `Shutdown` | core's loops |
| Eviction algorithms | lists, counters, ghosts | `Set`, `Get`, `Evict`, `Delete` | core |
| Event bus | subscribers and their queues | `Publish`, `Subscribe`, `unsub` | membership observers, SSE streams |
| Client SDK | endpoints, refresh loop | calls with failover, `RefreshTopology`, `Close` | servers |
| Authentication (`httpauth`) | a policy | `Verify`, `resolve` | every route |
| Server binary, management API | listeners, open streams, drain flag | handlers, `awaitShutdown`, `handleClusterEvents` | cache, bus, SDK |
| Stats, middleware, Redis backends, serializers | counters, an external store | I/O | |

What makes it hard, and where a property is aimed:

* calls of several nodes interleave with arriving copies, hint replay and read
  repair, all of which write the same store;
* an RPC can fail before or after it took effect: an HTTP handler runs on the
  server's context and goes on after its caller timed out;
* a replica promotes itself on any forward error, so two nodes can stamp the
  same key at once;
* the hint queue has three caps, running totals that are kept beside it, and
  metrics that are published outside its lock;
* membership is rumour: observers bump other nodes' incarnations, and what they
  read from `List` is out of date by the time they write;
* deletes leave tombstones that only some paths consult;
* the ring is rebuilt outside the membership lock and differs from node to node
  while copies are being moved along it;
* a job of the worker pool, a caller and the two loops of a cache work on the
  same items in small steps, and the eviction algorithm keeps its own idea of
  what the backend holds;
* a client retries what a server may already have done, and a value changes its
  representation from node to node;
* a shutdown waits for streams that end only when they are told, and for a worker
  pool whose workers may wait for a reader that does not exist.

`PROJECT.json` lists the hazards one by one, each at its line, with the
properties that watch it. For each part, the properties that make it correct:

* request paths: stamps are unique; a success is backed by the copies its level
  asks for; no owner is forgotten; copies stay with owners; sequential calls take
  effect in order; calls return; hints arrive;
* hint queue: totals match the queue, caps hold, counters add up, nothing stays
  for ever;
* membership and ring: a live node's refutation wins; views converge; the ring
  is the one of the current members;
* anti-entropy and rebalancing: a puller catches up with its peer; no copy is let
  go before it has been handed over or hinted, and the grace period is kept; every
  key ends up where the ring puts it;
* read repair, key listing: what is queued is sent; a list is complete or says
  that it is not;
* core, pool, eviction: capacity and memory limits hold, eviction takes the key its
  policy names, only what has expired is expired and in the end all of it, the pool
  is a job pool, Stop returns;
* service: answers are true, a healthy endpoint is found, streams end up current,
  a shutdown ends.

## 2. Plan

Done, in this order: the request paths, the hint queue and SWIM with their first
proofs; the local cache (`Eviction`, `WorkerPool`, `HyperCache`, and `JobPool` as
the abstract specification the pool implements); the loops that move copies
(`ClusterStore` and the four modules on it, composed in `ClusterSync`); the
service (`ApiAuth`, `ServerNode`, `ClientApi`, `ClusterEvents`, composed in
`Service`); and two modules that put a sentence of the documentation beside a
composed specification, `UseOrder` on `HyperCache` and `RemovalGrace` on
`ClusterSync`.

Proofs followed the same order: hint queue and request paths, the local cache
with its pool, SWIM, the service, the loops. Every type invariant and
every safety invariant of a passing run is a theorem now, and so are the action
properties (`HigherIncarnationWins`, `ExpiryDeletesOnlyStale`, `EvictsOldestTracked`,
`InsertKeepsCapacity`) and the refinement of `JobPool`; liveness is left to TLC. None of the modules uses a RECURSIVE operator.

## 3. Modules

### DistStore

The state of one node's shards and the rules all paths share. Nodes are positive
integers, because the code breaks ties by the lexicographic order of node
identifiers; the empty origin of an unstamped item is 0. A value is the number of
the `Set` that produced it, which makes "the same data" an equality.

| Model | Code |
|---|---|
| `items`, `tombs` | `distShard.items`, `distShard.tombs` |
| `versionCounter`, `tombVersionCounter` | the atomic counters of `DistMemory` |
| `applySet`, `applyForwardedSet`, `applyRemove` | the functions of that name |
| `chooseNewer`, `requiredAcks`, `ownsKeyInternal` | likewise |
| `IsNext` | the order of a loop over the owners |

### DistMemory

One process is one client call on one node. A call is cut at its RPCs: everything
the code does between two RPCs is one action, every iteration of a loop over
owners is an action, and other calls, handlers, replay passes and partitions run
in between.

| Action | Code |
|---|---|
| `BeginSet`, `SetDraining` | `setImpl` up to the forward |
| `Forward`, `ForwardReturn`, `ForwardUnreachable`, `ForwardTimeout` | `handleForwardPrimary`, `forwardOrPromoteRemove` |
| `Stamp`, `Apply` | the primary path of `setImpl` |
| `FanoutAck`, `FanoutError`, `SetReturn` | `replicateTo`, `queueHint`, the quorum check |
| `HandlerStep`, `HandlerStepLate` | `applySet` / `applyRemove` with `replicate = true` on the receiving node |
| `BeginRemove` | `removeImpl` |
| `BeginGet`, `ReadOne`, `ReadQuorum`, `ReadMiss` | `getImpl`, `getOne`, `collectQuorum`, `getWithConsistencyParallel` |
| `RepairLocal`, `RepairRemote`, `GetReturn` | `repairStaleOwners`, `repairReplicas` |
| `StartReplay`, `ReplayHint` | `replayHints`, `processHint` |
| `Drain` | `Drain` |
| `Isolate`, `Heal` | the network (external) |

Abstractions: all nodes agree on a fixed ring with at least one owner per key and
have a transport, so `ErrNotOwner` cannot occur; hints are on (`hintTTL > 0`) and
uncapped here (`HintQueue` has the caps); a `Remove` of several keys is that many
calls; repairs are sent at once (`repairQueue` is nil); `applyRemove` is one step;
metrics, tracing and the rebalancing baseline are left out. Get and Touch's
access times do not matter to any property.

`wr`, `stored`, `expired` and `last` are history variables; no guard reads them.

### HintQueue

The bookkeeping of one node's queue without the items: `Enqueue` is the critical
section of `queueHint`, `PublishQueued` and `PublishRefused` what it does after
the unlock. `BeginPass`, `ExpireHint`, `DeliverHint`, `KeepHint` and `EndPass` are
`replayHints` and `processHint` with the lock held throughout. `GrowOld` is the
passing of an entry's TTL. `dropped` counts what the per-target cap pushes out,
for which the code has no counter.

### ClusterNode and Swim

`ClusterNode` is an entry of `Membership.nodes` and what `Mark`, `Refute` and
`Upsert` make of it. `Swim` puts the views of several nodes side by side. Three
kinds of goroutine write a view, and each is cut where it gives up the membership
lock:

| Action | Code |
|---|---|
| `HeartbeatTick` | `runHeartbeatTick`: the sample, and the copies it works on |
| `PrunePeer`, `SuspectPeer` | the two timeouts of `evaluateLiveness` |
| `ProbeSucceeds`, `ProbeRelayed`, `ProbeFails` | the probe, `handleProbeFailure`, `indirectProbeReachable` |
| `GossipTick` | `runGossipTick`, the wire form of the snapshot |
| `Look`, `Adopt`, `SelfRefute` | one member of `acceptGossip`: the comparison with `List`, then `Upsert` or `Refute` |
| `AddPeer`, `AddPeerUpsert`, `RemovePeer` | the operator's calls, on another node's address |
| `GrowOld`, `Crash`, `Start` | time, process crash, `initStandaloneMembership` |

Abstractions: `LastSeen` is an age with three values, one per timeout; both
timeouts are set; a node's identifier is derived from its address; the sender of
a push waits for the handler; a lost push is a tick that does not happen; a
draining node's failing `/health` is a lost probe; probes of one relay are one
step with the direct one. The ring and the observers have modules of their own
(`ClusterStore`, `ClusterEvents`); the membership version is left out, and so is
`RemovePeer` with a node's own address.

### Eviction, WorkerPool, JobPool and HyperCache

`Eviction` is the state of each algorithm and its `Set`, `Evict` and `Delete` as
operators: LRU and CAWOLFU as a list, LFU as counts with insertion numbers, Clock
as slots, reference bits and a hand, and the sharded wrapper around any of them.
`HyperCache` never calls an algorithm's `Get`, and ARC is not in the default
registry, so both are left out.

`WorkerPool` is `pool.go` cut at its channels and its lock: `Enqueue` takes the
read lock and, when the channel is full, waits in `EnqueueSend` with the lock
held; `WorkerTakes`, `JobReturns`, `ReportError` and `WorkerLeaves` are a worker;
`ShutdownLock`, `ShutdownClose` and `ShutdownReturns` are `Shutdown`. `JobPool`
says what that is for: a job that is accepted is run once, and a shutdown returns
when every job accepted has ended. `ImplementsJobPool` is that specification over
`WorkerPool`'s variables.

`HyperCache` composes the two with the in-memory backend, whose operations are
single critical sections. A call is cut where the code takes another lock or
reads another atomic: `Set` is the reservation, `CheckSize`, `StoreItem`, `Track`,
`CountCheck`, and, over capacity, `EvictKey`, `Unlink` and `Delete`. The same three
are the eviction job, `ExpirationList` and `ExpirationNext` the expiration job.
`TriggerSwap` and `TriggerSend` against `ExpirationClears` and `ExpirationDrains`
are the two ends of the trigger channel and its pending flag. A Remove or a Clear
whose context ends leaves its deleting goroutine behind (`DeleteLate`). A `Config`
chosen at the start fixes algorithm, shards, limits, ticker and which calls are
made. `written`, `disturbed` and the `before` and `fresh` fields are history.

`UseOrder` extends the cache with one history variable, `uses`: the Sets and the
reads of the keys the algorithm tracks, in order. What the documentation says of
LRU and CAWOLFU is stated over it.

### ClusterStore, Rebalance, AntiEntropy, RepairQueue, KeyListing, ClusterSync

`ClusterStore` is what the loops share. Each node has its members, the node lists
on their way to `Build`, and its ring; the hash is a constant, and `Lookup` is the
walk from the key's hash. A call between nodes is one step, which arrives or is
dropped (the chaos wrapper, a timeout, a cut). Writes are the primary's branch of
`setImpl` and `removeImpl`; `DistMemory` has the rest of the request paths.

| Module | Actions | Code |
|---|---|---|
| `ClusterStore` | `MembershipChange`, `RingBuild` | `Upsert`, `Remove`; `Build` after the unlock |
| | `PrimarySet`, `PrimaryRemove` | the primary's branches, `queueHint` |
| | `ReplayHint` | `replayHints`, `processHint` |
| `Rebalance` | `collectRebalanceCandidates`, `migrateForward`, `migrateRelease`, `replicateNewReplicas`, `replDiffKey`, `shedRemovedKeys` | the parts of `runRebalanceTick` |
| `AntiEntropy` | `runAutoSyncTick`, `FetchMerkle`, `syncWithStatus`, `ForwardGet`, `fetchAndAdopt`, `updateAutoSyncBackoff` | an auto-sync tick, peer by peer and key by key |
| | `compactTombstones` | the sweeper |
| `RepairQueue` | `ReadRepair`, `run`, `flushPeer`, `flushDone`, `SendRepair`, `stop` | `dist_read_repair.go` |
| `KeyListing` | `ListKeys`, `collectPeerKeys`, `result` | `dist_keys.go` |
| `ClusterSync` | `Restart` | a crash and `NewDistMemory` |

Which loops run, and what happens, is a scenario chosen at the start: nodes,
replication, membership changes, options, and the bounds on writes, removes,
reads, restarts and dropped calls. All loops are off by default in the code, so a
scenario that runs one of them is a deployment of its own.

Abstractions: a hash stands for what it hashes, so a Merkle tree is its leaves;
tombstones and removal dates are young or past their time; a peer's key list is
one read of its shards (pages and cursors are left out), so keys that move during
a listing may be missed, and the property says so; the grace period is longer
than a rebalance tick.

A hint can be given up, as in the code: it expires at any replay (`HintExpires`;
how old it is is left open), and where the scenario has caps (`caps`) a new hint may
be refused or push out another one of its target. How full a queue is is left open
as well: `HintQueue` has the arithmetic of the caps, and here every outcome it can
have is a choice. `dropped` has the keys of the hints given up. It is history; the
properties read it, no guard does.

`RemovalGrace` extends `ClusterSync` with one history variable, `returned`: the
dates in `removedAt` since which the node has owned the key again.

### ApiAuth, ServerNode, ClientApi, ClusterEvents, Service

`ApiAuth` is `Policy.Verify` over an abstract credential: static tokens, basic
users, certificates, the OIDC verifier, anonymous access, in the code's order.

`ServerNode` is a process: serving, draining, closing the client API, stopping the
cache (waiting for its worker pool), stopped, canceling the management server's
context, exited, or dead. Of the pool it has what the shutdown waits for: jobs
pending, errors in `errorChan`, and workers stuck on it. A job fails if its `Remove`
does, which a draining node refuses (`ErrDraining`); `WorkerPool` has the channels.

`ClientApi` is the SDK against the client API. A call walks the view it started
with (`do`, `tryOnce`, `receive`, `Exhausted`); a server works on a request key by
key (`Serve`) and does not notice that the client has timed out. Behind the
handlers the distributed cache is one value per key, as `DistMemory` has its
consistency; a failed write may or may not have been applied, and a failed read is
a key not found. A value is found as
the bytes put, as base64 text, or as that text in raw JSON, whichever way it came
to the node that answers, and `itemValueAsBytes` and the envelopes are what the
code does with each.

`ClusterEvents` is the observer of the membership, the bus and the streams of one
server: `Mutate`, `membersSnapshot`, `Publish` step by step to each subscriber,
`handleClusterEvents` (subscription, then snapshot), `writeInitialFrames`,
`streamEventsLoop`, `unsub`. Only how recent a snapshot is matters, so the
membership is the number of its changes.

`Service` puts them together. `sound`, `applied`, `overlapped` and `dropped` are
history variables. The 30 s deadline of a shutdown is left out: the question is
whether it ends without it. Writes to a stream's connection are assumed to return
(the default management write timeout is none, so a reader that never reads would
hold a shutdown until the deadline). Malformed requests, which the SDK does not
send, are left out.

The proofs are in modules of their own, one per composed specification
(`HintQueueProofs`, `DistMemoryProofs`, `HyperCacheProofs`, `SwimProofs`,
`ServiceProofs`, `ClusterSyncProofs`), with the algorithms of `Eviction` in
`EvictionProofs` and sums over finite sets in `SumLemmas`.

Every operator whose name has a suffix after an underscore and whose comment
begins with "Mutant" is a plausible defect of the operator that follows it; no
specification uses it. `PROJECT.json` pairs each with the property it breaks.

## 4. Runs

| Run | Instance | Checks |
|---|---|---|
| `dist_writes` | 3 owners, 2 callers, 2 Sets, QUORUM, 1 cut, 1 timeout, 1 expiry | `StampUnique`, `AckedMeansStored`, `NoOwnerForgotten` |
| `dist_client` | 2 owners and a node that owns nothing, 2 callers, 1 Set, 1 Remove, 1 Get, ALL/ONE, 1 cut, 1 expiry, fair | `OnlyOwnersStore`, `RefusedLeavesNoCopy`, `CallsReturn`, `HintsReachOwners` |
| `dist_sequential` | 3 owners, 1 caller, 3 Sets, 2 Removes, 2 Gets, parallel reads, 1 drain, no faults | `SequentialCallsTakeEffect` |
| `hint_queue` | 3 targets, 1 writer, 3 hints, per-target cap 1, total cap 2, fair | `Accounting`, `CapsHold`, `CountersAddUp`, `EveryHintLeaves`, `GaugeCatchesUp` |
| `swim_views` | 3 nodes, 1 probing, 2 gossiping, 1 fault, crash or operator call, restarts, fair | `SelfAlive`, `HigherIncarnationWins`, `SuspicionClears` |
| `hypercache` | 2 keys, a client, a worker, both loops, each algorithm, sharded and not, up to 3 calls, fair | `MemoryLimit`, `NoSendOnClosed`, `ImplementsJobPool`, `InsertKeepsCapacity`, `EvictsOldestTracked`, `ExpiryDeletesOnlyStale`, `ExpiredLeaves`, `StopReturns` |
| `cluster_sync` | 17 scenarios on 2 or 3 nodes and 1 or 2 keys, fair | `RingFollowsMembership`, `NothingVanishes`, `ListKeysComplete`, `Rebalanced`, `PullCatchesUp`, `RepairsDispatched` |
| `service` | 14 scenarios on 2 servers with a worker each, 2 keys, 2 calls or 1 to 2 streams or 3 jobs, fair | `AnswersTrue`, `HealthyEndpointAnswers`, `StreamCatchesUp`, `ShutdownCompletes` |
| `dist_version_regress` | violation | `ReceiverKeepsNewer` |
| `dist_forward_quorum` | violation | `SuccessMeansAcknowledged` |
| `hint_bytes` | violation | `BytesBounded` |
| `swim_dead_peer` | 2 nodes probing and gossiping, a third one down, no faults, fair; violation | `DeadPeerLeaves` |

Why the bounds are enough to be interesting: two Sets are what a stamp can be
shared by, or an older copy can overwrite; one cut is what makes a forward fail
after a fan-out has begun, one timeout what leaves a handler running behind its
caller's back; three owners make QUORUM differ from ONE and ALL and let a
promoted replica have both a dead primary and a live peer. With a per-target cap
of 1 and a total of 2, three hints to three targets meet each cap alone and both
together. In `swim_views` one event is a suspicion, a prune, a restart behind
the peers' backs or a call; sampling one peer per tick lets the views of the
other grow old, and the third node, configured with the first one only, learns
of the second from gossip or from `AddPeer`. In `hypercache` a capacity of one
and two keys make every second Set evict, two items of size two meet a limit of
three, the client overlaps with the jobs, the loops and the deletes that outlive
their call, and the loops compete with it for a job channel with one place. In
`cluster_sync` a third node joins, so that one key gets a new replica and the
other a new primary; is dropped and comes back, with and without a grace period;
two keys meet a limit of one replica send; a migration whose forward is lost leaves
a hint that is delivered, refused, pushed out or expires; a puller meets a lost write, a lost
delete and a restart of either side over each transport; two keys fill a repair
batch of two; a listing meets its maximum and two failing peers. In `service`
two endpoints are what failover needs, one signal or crash with one fault is
what makes a call meet both a sick and a healthy one, two keys make a batch go
on after its first key failed, three events overflow a buffer of two, and three
jobs that fail get a worker stuck on an error channel with one place. The
values put are plain bytes or base64 text. Symmetry is used between callers in
the safety-only run `dist_writes`.

Fairness. A goroutine that can run is run: calls, handlers, replay passes and
writers take their steps (weak fairness). The replay ticker keeps firing. A
partition heals, which is the condition under which the code promises anything
about a hint; nothing is assumed about clients, timeouts or expiries. In
`HintQueue` time passes (an entry gets older than its TTL) and no target need ever
answer. A call that waits for `hintsMu` waits for a pass, each step of which
returns. In `Swim` a push that has begun ends, the heartbeat ticker keeps firing,
and every peer is in the random sample again and again (strong fairness: ticks
with other samples come between); time passes for a peer that does not answer.
Nothing is assumed of the gossip ticker, faults, crashes, restarts and operators,
so `SuspicionClears` holds with and without gossip. It is stated for nodes that
probe: one that only listens can keep a suspicion for ever, because a refutation
is the refuter's incarnation plus one and after a restart that need not exceed
the claim.

In `HyperCache` the workers, the loops and Shutdown go on and the ticker fires;
clients need not finish, call Stop or let anything expire. In `ClusterSync` the
tickers of the loops fire, news of the membership and snapshots on their way to
`Build` arrive, hints are replayed and time passes; clients, stop and restarts owe
nothing, and dropped calls are bounded, so what is retried arrives. In `Service`
handlers, shutdowns, jobs, publishers and streams go on; signals, crashes, callers,
timeouts, tickers and membership changes owe nothing.

What the properties leave out, and why:

* `MemoryLimit` and `InsertKeepsCapacity` are about calls that follow one another.
  Two overlapping Removes of one key both take its size off. One turn of Clock's
  hand may evict nothing.
* `EvictsOldestTracked` says what LRU and CAWOLFU do, evict the key set longest ago;
  it is not what the documentation says of them (see below). It
  speaks of what the algorithm still tracks. At its own
  capacity LRU drops its victim silently, and that item stays in the backend, out
  of reach of eviction; a cache created with capacity 0 never tracks anything.
* `ExpiredLeaves` needs the ticker: a trigger that comes between the clearing of
  the pending flag and the draining of the channel is swallowed.
* `StopReturns` excepts a worker that waits on a full error channel, which nobody
  in the cache reads.
* `RingFollowsMembership` excepts node lists whose builds overlap.
* `NothingVanishes` excepts a refused copy, which is answered with success; a lost
  forward where hints are off; a key whose hint was given up, refused or pushed
  out at a cap or expired, since migration releases the local copy as soon as the
  hint is handed to `queueHint` and the key may then be nowhere (TLC reaches that);
  and, with a grace period, a ring that moves away,
  back and away again: `removedAt` is not cleared in between, so the copy is shed
  on the first date, before a tick has forwarded it (see below). Of a key
  whose hint was given up, as after a partition longer than the hint TTL, `Rebalanced`
  says only that no node keeps it without owning it.
* `PullCatchesUp` is about one puller. Two that pull from each other can swap
  presence and absence for ever, and with fewer copies than nodes a pull from a
  node that does not own a key deletes it. Equal versions of different origin are
  not told apart by the tree.
* `RepairsDispatched` excepts what a read queues while the node stops. The server
  binary never stops its `DistMemory`, so there the last flush does not happen.
* `ListKeysComplete` is about keys that stay where they are during the call.
* `HealthyEndpointAnswers` takes a batch as answered once any endpoint has
  answered it: a key reported as draining in it is not tried elsewhere. After a
  refresh the view is never empty, so the seeds are not used again, and against
  the client port of the server binary a refresh gets a 404. One context covers all
  attempts of a call; a slow endpoint that uses it up is a timeout at every
  endpoint still to be tried.
* `AnswersTrue` says nothing of a call that failed: a 500 may hide a write that
  was applied, and a retry after a timeout may apply an older value over a newer.
* `StreamCatchesUp` excepts a subscriber that was full and changes that overlap.
* `ShutdownCompletes` excepts a worker stuck on the full error channel (`Hung`): Stop
  waits for the worker pool before it stops the management server, without a
  deadline, and jobs that meet a draining node fail.

What the violations show:

* `dist_version_regress`: comments at `dist_memory.go:3615`, `2801` and `3658` say
  the receiver's `applySet` compares versions. It does not: a hint for version 1
  that is replayed after version 2 has arrived takes the replica back.
* `dist_forward_quorum`: the README's promise for QUORUM and ALL holds for a `Set`
  on the primary only. Forwarded, the primary answers without counting.
* `hint_bytes`: with a per-target cap and a byte cap, a refused hint leaves the
  pushed-out entry queued and uncounted, so `WithDistHintMaxBytes` does not bound
  the queue.
* `swim_dead_peer`: `docs/operations.md:112-113` says a dead peer is pruned after
  `deadAfter` and ring lookups stop including it. Two healthy nodes can hand it
  back to each other: gossip adds a node that is not listed, with a fresh
  `LastSeen`, and nothing remembers that it was pruned.

Four more sentences of the documentation are refuted by configurations that are
kept beside the runs; TLC ends each within seconds with a counterexample.

* `UseOrderLru.cfg` (`UseOrder`, `EvictsLeastRecentlyUsed`; 2 keys, 3 calls, the
  eviction loop): the repository's README calls the default algorithm "Least Recently
  Used" (line 131), and `hypercache.go:84-86` says that the touch of a Get updates LRU
  state. It does not: the touch goes to the backend's item, no Get reaches the
  algorithm, and the key set first is evicted although it was read last.
* `UseOrderCawolfu.cfg` (`UseOrder`, `EvictsLeastFrequentlySet`): "Cache-Aware
  Write-Optimized LFU" (README, line 134), whose list has "the most frequently used
  items at the front" (`cawolfu.go:18`). Every Set moves its key to the front, so a
  key set twice goes before one that was set once, later. These two are the other
  side of `EvictsOldestTracked`, and a finding of the `hypercache` run.
* `HyperCacheStop.cfg` (`MCHyperCache`, `StopIsBounded`; fair): "The shutdown is
  bounded by shutdownTimeout" (`hypercache.go:188`) and, of the server, "A 30s timeout
  caps the whole sequence" (`main.go:1640`). The wait for the worker pool knows
  neither; with more failed jobs than `errorChan` holds it has no end. This is what
  `StopReturns` and `ShutdownCompletes` except.
* `RemovalGrace.cfg` (`RemovalGrace`, `GraceBeforeShedding`; a node joins, is dropped
  and comes back): `docs/distributed.md:61` promises a grace period before a key that
  is no longer owned is deleted. `removedAt` keeps its first date when the key comes
  back, so the next time it is lost the period is already over. This is what
  `NothingVanishes` excepts.

## 5. Proofs

TLC shows a property on the instance of its run; a theorem shows it for every
value of the constants that the named ASSUMEs admit. Each inductive invariant was
model-checked before it was proved. The proofs have one lemma per action, frame
lemmas for the parts an action leaves alone, and a last step that combines them.

| Module | Theorem | States |
|---|---|---|
| `HintQueueProofs` | `TypeCorrect`, `CapsCorrect`, `AccountingCorrect`, `CountersCorrect` | `TypeOK`, `CapsHold`, `Accounting`, `CountersAddUp` |
| `DistMemoryProofs` | `TypeCorrect`, `StampsUnique` | `TypeOK`, `StampUnique` |
| | `OwnersOnly`, `SuccessIsStored`, `OwnersAccountedFor` | `OnlyOwnersStore`, `AckedMeansStored`, `NoOwnerForgotten` |
| | `RefusedIsNowhere`, `SequentialEffect` | `RefusedLeavesNoCopy`, `SequentialCallsTakeEffect` |
| `HyperCacheProofs` | `TypeCorrect`, `SendsBeforeClose`, `PoolRefines` | `TypeOK`, `NoSendOnClosed`, `ImplementsJobPool` |
| | `ExpiryRemovesStale`, `MemoryBounded` | `ExpiryDeletesOnlyStale`, `MemoryLimit` |
| | `EvictionTakesOldest`, `InsertionKeepsCapacity` | `EvictsOldestTracked`, `InsertKeepsCapacity` |
| `SwimProofs` | `TypeCorrect`, `SelfStaysAlive`, `IncarnationsGrow` | `TypeOK`, `SelfAlive`, `HigherIncarnationWins` |
| `ServiceProofs` | `AnswersAreTrue`, `FailoverComplete` | `AnswersTrue`, `HealthyEndpointAnswers` |
| `ClusterSyncProofs` | `TypeCorrect`, `RingMatches`, `ListingComplete` | `TypeOK`, `RingFollowsMembership`, `ListKeysComplete` |
| | `RebalanceKeepsKeys` | `NothingVanishes` |

### Hint queue

Any targets, writers, sizes and caps. `CapsHold` is not inductive: the total cap is
applied to `hintTotal`, so `CapInv` carries `CountExact` as well, and the ids of the
entries, which keep a new entry from merging with an old one. `Accounting` adds
`BytesExact`, that `hintBytes` is the sum of the sizes queued. Both are proved under
`MaxBytes = 0 \/ MaxPerNode = 0`, and `hint_bytes` shows that this is needed:
with both caps a refused hint leaves the totals short.

`CountersCorrect` needs no such hypothesis. `AddUpInv` says that the hints reported as queued
are those replayed, expired, pushed out or still queued, less the ones whose writer
has yet to publish.

### Request paths

Any cluster, ring, consistency levels, callers and bounds. `TypeCorrect` needs that
a replay pass is always at an entry that exists. Four invariants, each resting on
the ones before:

* `IInv`, for `StampUnique`: every copy anywhere (stores, calls, handlers, hints) is
  `Good`, that is, its value is that of a `Set` that has begun and its stamp, if any,
  is the one that `Set` was given; a call still to be stamped has a value of its own
  without a stamp; stamps given out are distinct and covered by their coordinator's
  counter.
* `PathInv` follows a write along its path. A call that fans out has a list made of
  owners; its node is an owner, and the primary or promoted, so that the list and
  itself are all the owners; each owner no longer on the list is `Reached` (it has
  held the value, or a hint is kept for it, or that hint expired); the
  acknowledgements are at most the nodes that have held the value and are off the
  list. Hints are kept for owners only, which is why a replay makes its target
  a node that has held the value. `OwnersOnly`, `SuccessIsStored` and
  `OwnersAccountedFor` are read off from it. It shows what the two properties
  depend on: were a hint replayed to a node that is no owner, or an acknowledgement
  counted twice, they would fail.
* `RefuseInv`, for `RefusedLeavesNoCopy`: the value of a call that is still to be
  forwarded is nowhere else (`Spread` says where a value can be), and a value that is
  somewhere belongs to no call that was refused, unless a request timed out.
  The lemmas on `CopiesOnly` show that a step copies one value at most, and
  only from where it already is.
* `SeqInv`, for `SequentialCallsTakeEffect`. `SequentialEffect` has two hypotheses:
  one caller, and a cluster that is `Healthy` (no cut and no timeout so far). Both are
  needed: overlapping calls, and requests that are lost or go on after their timeout,
  leave the owners of a key with different items. Under them there are no hints and no
  handlers but the one the call waits for (`QuietNet`); a key that the call under way
  does not write is `Settled`, all its owners having the same item, with the last value
  (`UnwrittenSettled`). `CallOK` has a part for each point of a call and of its handler:
  the owners no longer on the list of a write have its item (`WriteOK`, `HandlerOK`), and
  the candidate of a read is nothing or the item of the primary, so that read repair
  changes nothing (`ReadOK`).

### Local cache

Any clients, workers, keys, sizes and configurations. `EvictionProofs` shows that
each algorithm keeps its state well typed, and that `Evict` returns a key of the
cache or nothing. `CacheInv` is the pool's part (`PoolInv`: channels within
their capacities, no pending send on a closed channel, and `wg` equal to the number
of jobs accepted and not ended), the types of the calls, and that a worker in the
middle of a call is running a job. From it follow `TypeOK` and `NoSendOnClosed`, and
`PoolRefines` maps the initial states and each step of the whole cache to `JobPool`:
the equation for `wg` is what makes Shutdown's return a step that `JobPool` allows.

`ExpiryRemovesStale` needs `StaleInv`: of the keys that an expiration job has listed
or is about to delete, those that are live are the ones marked as written since.

`MemoryLimit` is a statement about calls that follow one another. `MemInv` says,
while no two have overlapped, that at most one process is inside a call and
no late delete is waiting, that `alloc` covers what is stored together with what the
call under way has reserved, less the items it is deleting and has already taken
off, and that an item about to be stored has been admitted with its size counted. The sums are those of `SumLemmas`,
which are proved by taking a least counterexample, as the induction theorems of the
library are out of the provers' reach.

`EvictionTakesOldest` is about LRU and CAWOLFU. `OrderInv` says that the list of
every shard has, newest first, the order in which its keys were last set
(`written`), without repetition, and that its keys hash to that shard; with a capacity
of zero it is empty, since `Set` would not reorder it. The lemmas of
`EvictionProofs` show that Set, Delete and Evict keep this. A call has keys only while
it removes them, so those it has right after "evict" are what `Evict` returned: the last
of a list, and every other key of that shard comes after it in `written`.

`InsertionKeepsCapacity` is about every algorithm but Clock, one turn of whose hand may
find no victim. `RoomInv` has two parts. `AllTrack` holds in any interleaving: the list
kept by a shard of LRU, CAWOLFU or LFU has no key twice and only keys of that shard, so
a Delete leaves no second entry behind. The other holds while no two calls have
overlapped. `CapOK` says, for each point of a call, that every key tracked is stored
(Remove has taken its keys out of the algorithm before it deletes them; a Clear that has
emptied the map still has the tracked keys to forget), and of an insertion (`InsertOK`)
that it has found `before` items, has added one at most, and comes to evict with a key
tracked. Then Evict has a victim (`TurnVisits`: the search over the shards visits each
of them), the victim is stored, and deleting it brings the count back to `before`.

### SWIM

Any nodes, seeds, samples and events. `SwimInv` says of a running node that it is
alive in its own view, and never has itself as the peer of a probe, in
the rest of a tick, or in an operator's call; and of a push being applied
that the claim about to be written is at least as recent as the entry `List`
returned. An incarnation can therefore only drop when the entry was changed between
the look and the write, which is what `Overtaken` names; `NoRegress` states
it of one step.

### Service

Any servers, keys, calls, policies and faults. `ServiceInv` says that every value
in the store is one that an applied call put there; that only calls that are allowed
to write have been applied; for each request, that a key is done,
with a code that is true, or still to do; and for each call, that an endpoint still to be tried
has never heard of it, and one that has served all along is still to
be tried, or has the request, or has given the final answer. `AnswersAreTrue`
also needs `ReadBack`: whatever representation a value has come to have, the handler gives
back the bytes that were put.

### Loops

Any nodes, keys, tokens and scenarios. `DistanceInjective`, `EveryRank`, `WalkAt`
and `BuildAt` show what the walk along the ring computes: every rank up to the size
of the ring is one node's, so `Lookup` lists that many different nodes.
`TypeInv` has the types of the shared store and of each loop. `RingInv` says that a
node whose changes have not overlapped has the ring of its members, or that ring is
on its way. `ListInv` says that each key that stayed at a node since a listing began has been
collected, or the node is still to be asked or named as failed, or the result
is truncated; and that the set never exceeds the maximum.

`RebalanceKeepsKeys` is proved where the rebalancer is the only thing that deletes copies: for
scenarios such that `"rebalance" \in s.loops` implies `"sync" \notin s.loops` and
`s.removes = 0`, as in all those of `cluster_sync`. A client's Remove is meant to
make a key vanish, and a pull adopts the absence of a key. The argument is
`VanishInv`. A node is in its own ring, as the heartbeat passes over its own entry
and operators remove other nodes. A copy that is let go was handed to
the key's primary in the releasing node's ring, which is nearer to the key than
the node itself; so the copy of the node nearest to the key among those that have
one, in whichever ring, is never let go (`NearerCovers`), or a hint holds it (`Covers`), or
a hint for the key was given up (`dropped`). With a grace period (`GraceOK`) the same needs
that the ring changes once, for the reason given in section 4. Without `dropped` the
theorem would be false: a hint may be the only copy, and it has a TTL.

### Assumptions

All are named ASSUMEs, evaluated by TLC on the runs: nodes are finitely
many positive integers; owner lists are non-empty and without repetition; virtual nodes have
different hashes, at least one per node; consistency levels are among the three;
bounds and caps are naturals; writers, clients, workers and keys are finite;
clients and workers are different processes; batch sizes, buffers and maxima are
positive; scenarios are well formed (a call that takes no keys has none, changes name
nodes of the scenario).

### Only model-checked

* The liveness properties (`CallsReturn`, `HintsReachOwners`, `EveryHintLeaves`,
  `GaugeCatchesUp`, `SuspicionClears`, `ExpiredLeaves`, `StopReturns`, `Rebalanced`,
  `PullCatchesUp`, `RepairsDispatched`, `StreamCatchesUp`, `ShutdownCompletes`):
  fairness is out of the prover's reach.
* What a violation run refutes is of course not proved. `CapsHold` and `Accounting` are
  proved under the hypothesis that `hint_bytes` shows to be needed.

## 6. Not modelled

* Redis backends and serializers: I/O against an external store.
* Statistics and middleware: no effect on cache state.
* `Clear` and `Touch` of `DistMemory`, which act on the local node only.
* `WorkerPool.Resize`, which only tests call; ARC, which is not registered; the
  algorithms' `Get`, which the cache does not call.
* In the server and the management API: configuration from the environment, the
  owners and paged key routes, the routes that read a counter or call one setter;
  the deadline of the shutdown.
* In the transports: routing, encoding, compression, limits and TLS.
* The split of `applyRemove` into its three steps, and of a paged key list into
  its pages.
