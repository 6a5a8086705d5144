----------------------------- MODULE HyperCache -----------------------------
(***************************************************************************)
(* HyperCache over the in-memory backend: the client calls of              *)
(* hypercache_io.go, the two background loops and the jobs they hand to    *)
(* the worker pool (hypercache_expiration.go, hypercache_eviction.go),     *)
(* SetCapacity, the manual triggers and Stop.                              *)
(*                                                                         *)
(* One step of a call is one operation on shared state: an atomic add, a   *)
(* critical section of the backend map, one call of the eviction           *)
(* algorithm.  Clients and workers run the same Remove, so both keep the   *)
(* local variables of the function they are in in call[p].                 *)
(***************************************************************************)
EXTENDS Eviction, WorkerPool

CONSTANTS Clients,        \* goroutines that use the cache
          Sizes,          \* item sizes
          KeySets,        \* arguments of Remove and GetMultiple
          Expiring,       \* the keys clients give an expiration
          Capacities,     \* arguments of SetCapacity
          InitCapacity,   \* the backend's capacity at the start
          TriggerBuffer,  \* capacity of expirationTriggerCh
          Configs         \* the configurations to choose from

\* maxEvict: WithMaxEvictionCount; maxSize: WithMaxCacheSize; interval: the
\* eviction loop runs; ticker: the expiration loop has one; debounce:
\* WithExpirationTriggerDebounce.  Two bounds go with a configuration:
\* calls, the number of client calls, and stops, whether Stop is ever called.
Config == [alg : Algorithms, shards : {1, 2, 4}, maxEvict : Nat, maxSize : Nat,
           interval : BOOLEAN, ticker : BOOLEAN, debounce : BOOLEAN,
           calls : Nat, stops : BOOLEAN]

ASSUME CacheAssumption ==
    /\ Sizes \subseteq Nat \ {0}
    /\ KeySets \subseteq SUBSET Keys /\ Expiring \subseteq Keys
    /\ InitCapacity \in Nat /\ Capacities \subseteq Nat
    /\ TriggerBuffer \in Nat \ {0}
    /\ Configs \subseteq Config
    /\ Senders = Clients \cup {"expiration", "eviction"}
    /\ IsFiniteSet(Clients) /\ Clients \cap Workers = {}
    /\ IsFiniteSet(Keys) /\ Keys # {}
    /\ NoJob \notin {"expire", "evict"}

VARIABLES store,        \* the backend map
          capacity,     \* the backend's capacity
          alloc,        \* memoryAllocation
          ev,           \* the eviction algorithm
          config,       \* the configuration chosen
          call,         \* call[p]: where client or worker p is, and its locals
          pending,      \* expirationSignalPending
          triggerCh,    \* signals in expirationTriggerCh
          evictCh,      \* a signal in evictCh
          recent,       \* the debounce interval of the last trigger still runs
          loop,         \* loop[l]: where the background loop l is
          canceled,     \* the background context is canceled
          orphans,      \* keys a goroutine of a timed-out Remove still deletes
          calls,        \* client calls so far
          written,      \* keys in the order the algorithm last saw them, oldest first
          disturbed     \* two operations have overlapped, or one was cut short

settings == <<config, capacity>>
signals == <<pending, triggerCh, evictCh, recent>>
background == <<loop, canceled>>
history == <<calls, written, disturbed>>
vars == <<store, alloc, ev, settings, call, signals, background, orphans, history,
          poolVars>>

Procs == Clients \cup Workers
Loops == {"expiration", "eviction"}

Item == [size : Sizes, expired : BOOLEAN]
NoItem == [size |-> 0, expired |-> FALSE]
Has(k) == store[k] # NoItem
Count == Cardinality({k \in Keys : Has(k)})
Total == SumFunction([k \in Keys |-> store[k].size])
Expired == {k \in Keys : store[k].expired}

\* todo: keys Remove has yet to look at; keys: those it will delete; listed:
\* the keys a job has yet to remove, or GetMultiple to read; fresh: those
\* written or touched since the job's List; n: evictions of this job;
\* before: Count at the call.
Idle == [op |-> "none", pc |-> "idle", key |-> NoKey, size |-> 0, todo |-> {},
         keys |-> {}, listed |-> {}, fresh |-> {}, n |-> 0, before |-> 0]

\* Evict in the caller, when there is no eviction interval.
shouldEvict == ~config.interval /\ capacity > 0
maxEvictionCount == IF config.maxEvict = 0 THEN InitCapacity ELSE config.maxEvict

(***************************************************************************)
(* The type of the state.                                                  *)
(***************************************************************************)
TypeOK ==
    /\ PoolTypeOK
    /\ store \in [Keys -> Item \cup {NoItem}]
    /\ capacity \in Nat /\ alloc \in Int
    /\ Tracked(ev) \subseteq Keys
    /\ \A p \in Procs : call[p].todo \subseteq Keys /\ call[p].keys \subseteq Keys
    /\ triggerCh \in 0..TriggerBuffer /\ {evictCh, pending, recent} \subseteq BOOLEAN
    /\ loop \in [Loops -> {"select", "clear", "drain", "stopped"}]
    /\ canceled \in BOOLEAN /\ orphans \subseteq Keys

newHyperCacheBase ==
    /\ NewWorkerPool
    /\ store = [k \in Keys |-> NoItem]
    /\ capacity = InitCapacity
    /\ alloc = 0
    /\ evictCh = FALSE

initEvictionAlgorithm == ev = NewSharded(config.alg, maxEvictionCount, config.shards)

initExpirationTrigger == pending = FALSE /\ triggerCh = 0 /\ recent = FALSE

\* The eviction loop is started only when it has an interval.
startBackgroundJobs ==
    /\ loop = [l \in Loops |-> IF l = "eviction" /\ ~config.interval
                               THEN "stopped" ELSE "select"]
    /\ canceled = FALSE

New ==
    /\ newHyperCacheBase
    /\ config \in Configs
    /\ initEvictionAlgorithm
    /\ initExpirationTrigger
    /\ startBackgroundJobs
    /\ call = [p \in Procs |-> Idle]
    /\ orphans = {} /\ calls = 0 /\ written = <<>> /\ disturbed = FALSE

-----------------------------------------------------------------------------
(***************************************************************************)
(* Bookkeeping of a step of p.                                             *)
(***************************************************************************)
at(p, pc) == call[p].pc = pc
go(p, pc) == call' = [call EXCEPT ![p].pc = pc]
return(p) == call' = [call EXCEPT ![p] = Idle]

\* p starts an operation: it overlaps with every one under way.
Overlap(p) ==
    disturbed' = (disturbed \/ orphans # {}
                    \/ \E q \in Procs \ {p} : call[q].op # "none")

Begin(c, locals) ==
    /\ at(c, "idle") /\ sender[c] = NoJob
    /\ calls < config.calls
    /\ calls' = calls + 1
    /\ Overlap(c)
    /\ call' = [call EXCEPT ![c] = locals]
    /\ UNCHANGED written

\* k is written or touched: an expiration job that listed it has an old copy.
Refreshed(f, k) ==
    [p \in Procs |-> IF f[p].op = "expire"
                     THEN [f[p] EXCEPT !.fresh = @ \cup {k}] ELSE f[p]]

-----------------------------------------------------------------------------
(***************************************************************************)
(* Set and GetOrSet.                                                       *)
(***************************************************************************)
\* The size is reserved before it is checked.
Set(c, k, sz) ==
    /\ Begin(c, [Idle EXCEPT !.op = "set", !.pc = "check", !.key = k, !.size = sz,
                             !.before = Count])
    /\ alloc' = alloc + sz
    /\ UNCHANGED <<store, ev, settings, signals, background, orphans, poolVars>>

GetOrSet(c, k, sz) ==
    /\ Begin(c, [Idle EXCEPT !.op = "getorset", !.key = k, !.size = sz, !.before = Count,
                             !.pc = IF ~Has(k) THEN "reserve"
                                    ELSE IF store[k].expired THEN "trigger" ELSE "touch"])
    /\ UNCHANGED <<store, alloc, ev, settings, signals, background, orphans, poolVars>>

Reserve(c) ==
    /\ at(c, "reserve")
    /\ alloc' = alloc + call[c].size
    /\ go(c, "check")
    /\ UNCHANGED <<store, ev, settings, signals, background, orphans, history, poolVars>>

\* Mutant: a refused reservation is taken back twice.
CheckSize_Twice(c) ==
    /\ at(c, "check")
    /\ IF config.maxSize > 0 /\ alloc > config.maxSize
       THEN alloc' = alloc - 2 * call[c].size /\ return(c)
       ELSE go(c, "store") /\ UNCHANGED alloc
    /\ UNCHANGED <<store, ev, settings, signals, background, orphans, history, poolVars>>

CheckSize(c) ==
    /\ at(c, "check")
    /\ IF config.maxSize > 0 /\ alloc > config.maxSize
       THEN alloc' = alloc - call[c].size /\ return(c)
       ELSE go(c, "store") /\ UNCHANGED alloc
    /\ UNCHANGED <<store, ev, settings, signals, background, orphans, history, poolVars>>

\* An overwrite adds the new size and takes nothing off for the old one.
StoreItem(c) ==
    /\ at(c, "store")
    /\ store' = [store EXCEPT ![call[c].key] = [size |-> call[c].size, expired |-> FALSE]]
    /\ call' = Refreshed([call EXCEPT ![c].pc = "track"], call[c].key)
    /\ UNCHANGED <<alloc, ev, settings, signals, background, orphans, history, poolVars>>

\* item.Valid fails: the backend's pool zeroes the item before the caller
\* takes its Size back, so the reservation stays.
StoreInvalid(c) ==
    /\ at(c, "store")
    /\ return(c)
    /\ UNCHANGED <<store, alloc, ev, settings, signals, background, orphans, history,
                   poolVars>>

Track(c) ==
    /\ at(c, "track")
    /\ ev' = shardedSet(ev, call[c].key)
    /\ written' = Append(Without(written, call[c].key), call[c].key)
    /\ go(c, "count")
    /\ UNCHANGED <<store, alloc, settings, signals, background, orphans, calls, disturbed,
                   poolVars>>

\* Mutant: the comparison that keeps one item more than the capacity.
CountCheck_OffByOne(c) ==
    /\ c \in Clients /\ at(c, "count")
    /\ IF shouldEvict /\ Count > capacity + 1 THEN go(c, "evict") ELSE return(c)
    /\ UNCHANGED <<store, alloc, ev, settings, signals, background, orphans, history,
                   poolVars>>

CountCheck(c) ==
    /\ c \in Clients /\ at(c, "count")
    /\ IF shouldEvict /\ Count > capacity THEN go(c, "evict") ELSE return(c)
    /\ UNCHANGED <<store, alloc, ev, settings, signals, background, orphans, history,
                   poolVars>>

-----------------------------------------------------------------------------
(***************************************************************************)
(* Get, GetWithInfo and GetMultiple: the item is read, and then touched or *)
(* reported to the expiration loop.  None of them tells the algorithm.     *)
(***************************************************************************)
GetMultiple(c, ks) ==
    /\ Begin(c, [Idle EXCEPT !.op = "get", !.pc = "get", !.listed = ks])
    /\ UNCHANGED <<store, alloc, ev, settings, signals, background, orphans, poolVars>>

ReadItem(c) ==
    /\ at(c, "get")
    /\ IF call[c].listed = {} THEN return(c)
       ELSE \E k \in call[c].listed :
              call' = [call EXCEPT ![c].listed = @ \ {k}, ![c].key = k,
                         ![c].pc = IF ~Has(k) THEN "get"
                                   ELSE IF store[k].expired THEN "trigger" ELSE "touch"]
    /\ UNCHANGED <<store, alloc, ev, settings, signals, background, orphans, history,
                   poolVars>>

\* After its last key a reader returns.
NextKey(f, c) == IF f[c].listed = {} THEN [f EXCEPT ![c] = Idle]
                 ELSE [f EXCEPT ![c].pc = "get"]

\* The touch restarts the item's clock, whatever has become of the item.
TouchItem(c) ==
    /\ at(c, "touch")
    /\ store' = [store EXCEPT ![call[c].key].expired = FALSE]
    /\ call' = NextKey(Refreshed(call, call[c].key), c)
    /\ UNCHANGED <<alloc, ev, settings, signals, background, orphans, history, poolVars>>

\* A trigger is dropped when one is pending.
TriggerSwap(c) ==
    /\ at(c, "trigger") /\ ~recent
    /\ pending' = TRUE
    /\ call' = IF pending THEN NextKey(call, c) ELSE [call EXCEPT ![c].pc = "signal"]
    /\ UNCHANGED <<store, alloc, ev, settings, triggerCh, evictCh, recent, background,
                   orphans, history, poolVars>>

\* Within the debounce interval it is dropped before it is looked at.
TriggerDebounced(c) ==
    /\ at(c, "trigger") /\ recent
    /\ call' = NextKey(call, c)
    /\ UNCHANGED <<store, alloc, ev, settings, signals, background, orphans, history,
                   poolVars>>

DebounceEnds ==
    /\ recent
    /\ recent' = FALSE
    /\ UNCHANGED <<store, alloc, ev, settings, call, pending, triggerCh, evictCh,
                   background, orphans, history, poolVars>>

TriggerSend(c) ==
    /\ at(c, "signal")
    /\ IF triggerCh < TriggerBuffer
       THEN triggerCh' = triggerCh + 1 /\ recent' = config.debounce
       ELSE UNCHANGED <<triggerCh, recent>>
    /\ call' = NextKey(call, c)
    /\ UNCHANGED <<store, alloc, ev, settings, pending, evictCh, background, orphans,
                   history, poolVars>>

TriggerExpiration(c) ==
    /\ Begin(c, [Idle EXCEPT !.op = "trigger", !.pc = "trigger"])
    /\ UNCHANGED <<store, alloc, ev, settings, signals, background, orphans, poolVars>>

TriggerEviction(c) ==
    /\ Begin(c, Idle)
    /\ evictCh' = TRUE
    /\ UNCHANGED <<store, alloc, ev, settings, pending, triggerCh, recent, background,
                   orphans, poolVars>>

-----------------------------------------------------------------------------
(***************************************************************************)
(* Remove, run by a client and by the jobs: every key is looked up, taken  *)
(* off the allocation and out of the algorithm; then all are deleted.      *)
(***************************************************************************)
RemoveKeys(c, ks) ==
    /\ Begin(c, [Idle EXCEPT !.op = "remove", !.pc = "unlink", !.todo = ks, !.keys = ks])
    /\ UNCHANGED <<store, alloc, ev, settings, signals, background, orphans, poolVars>>

Unlink(p) ==
    /\ at(p, "unlink")
    /\ \E k \in call[p].todo :
         /\ alloc' = alloc - store[k].size
         /\ ev' = IF Has(k) THEN shardedDelete(ev, k) ELSE ev
         /\ call' = [call EXCEPT ![p].todo = @ \ {k},
                                 ![p].pc = IF call[p].todo = {k} THEN "delete" ELSE @]
    /\ UNCHANGED <<store, settings, signals, background, orphans, history, poolVars>>

Dropping(S) == [k \in Keys |-> IF k \in S THEN NoItem ELSE store[k]]

\* What p does after a Remove that succeeded.
Continue(p) ==
    CASE call[p].op = "evict" ->
           call' = [call EXCEPT ![p].pc = "count", ![p].n = @ + 1, ![p].keys = {}]
      [] call[p].op = "expire" ->
           call' = [call EXCEPT ![p].pc = "next", ![p].keys = {}]
      [] OTHER -> return(p)

Delete(p) ==
    /\ at(p, "delete")
    /\ store' = Dropping(call[p].keys)
    /\ Continue(p)
    /\ UNCHANGED <<alloc, ev, settings, signals, background, orphans, history, poolVars>>

\* The context of the call ends first.  The deleting goroutine goes on: its
\* keys are orphans until it has run.  A job fails; a client gets an error.
DeleteCanceled(p) ==
    /\ at(p, "delete")
    /\ p \in Workers => canceled
    /\ orphans \cap call[p].keys = {}
    /\ orphans' = orphans \cup call[p].keys
    /\ disturbed' = TRUE
    /\ return(p)
    /\ IF p \in Workers THEN JobReturns(p, TRUE) ELSE UNCHANGED poolVars
    /\ UNCHANGED <<store, alloc, ev, settings, signals, background, calls, written>>

DeleteLate(k) ==
    /\ k \in orphans
    /\ orphans' = orphans \ {k}
    /\ store' = Dropping({k})
    /\ UNCHANGED <<alloc, ev, settings, call, signals, background, history, poolVars>>

-----------------------------------------------------------------------------
(***************************************************************************)
(* Clear: what is listed is forgotten by the algorithm after the map has   *)
(* been emptied; the allocation is stored, not adjusted.                   *)
(***************************************************************************)
Clear(c) ==
    /\ Begin(c, [Idle EXCEPT !.op = "clear", !.pc = "clear",
                             !.listed = {k \in Keys : Has(k)}])
    /\ UNCHANGED <<store, alloc, ev, settings, signals, background, orphans, poolVars>>

ClearBackend(c) ==
    /\ at(c, "clear")
    /\ \/ /\ store' = Dropping(Keys)
          /\ go(c, "forget")
          /\ UNCHANGED <<orphans, disturbed>>
       \/ /\ orphans' = Keys             \* ErrTimeoutOrCanceled, as for Remove
          /\ disturbed' = TRUE
          /\ return(c)
          /\ UNCHANGED store
    /\ UNCHANGED <<alloc, ev, settings, signals, background, calls, written, poolVars>>

ClearForget(c) ==
    /\ at(c, "forget")
    /\ \/ \E k \in call[c].listed :
            /\ ev' = shardedDelete(ev, k)
            /\ call' = [call EXCEPT ![c].listed = @ \ {k}]
            /\ UNCHANGED alloc
       \/ call[c].listed = {} /\ alloc' = 0 /\ return(c) /\ UNCHANGED ev
    /\ UNCHANGED <<store, settings, signals, background, orphans, history, poolVars>>

-----------------------------------------------------------------------------
(***************************************************************************)
(* SetCapacity, and the eviction of a key the algorithm chooses.           *)
(***************************************************************************)
SetCapacity(c, n) ==
    /\ Begin(c, [Idle EXCEPT !.op = "setcap", !.pc = "shrink"])
    /\ capacity' = n
    /\ UNCHANGED <<store, alloc, ev, config, signals, background, orphans, poolVars>>

SetCapacityEvicts(c) ==
    /\ at(c, "shrink")
    /\ IF Count > capacity THEN Enqueue(c, "evict") ELSE UNCHANGED poolVars
    /\ return(c)
    /\ UNCHANGED <<store, alloc, ev, settings, signals, background, orphans, history>>

\* Evict, by a client that is over capacity or by an eviction job.
EvictKey(p) ==
    /\ at(p, "evict")
    /\ \E r \in {shardedEvict(ev)} :
         /\ ev' = r.st
         /\ IF r.ok
            THEN /\ call' = [call EXCEPT ![p].pc = "unlink", ![p].todo = {r.key},
                                         ![p].keys = {r.key}]
                 /\ UNCHANGED poolVars
            ELSE /\ return(p)
                 /\ IF p \in Workers THEN JobReturns(p, FALSE) ELSE UNCHANGED poolVars
    /\ UNCHANGED <<store, alloc, settings, signals, background, orphans, history>>

-----------------------------------------------------------------------------
(***************************************************************************)
(* The jobs of the worker pool.                                            *)
(***************************************************************************)
StartJob(w) ==
    /\ WorkerTakes(w)
    /\ Overlap(w)
    /\ call' = [call EXCEPT ![w] = [Idle EXCEPT !.op = Head(jobs),
                    !.pc = IF Head(jobs) = "evict" THEN "count" ELSE "list"]]
    /\ UNCHANGED <<store, alloc, ev, settings, signals, background, orphans, calls, written>>

\* The head of the eviction loop.
EvictionLoopTest(w) ==
    /\ w \in Workers /\ at(w, "count")
    /\ IF Count > capacity /\ call[w].n # maxEvictionCount
       THEN go(w, "evict") /\ UNCHANGED poolVars
       ELSE return(w) /\ JobReturns(w, FALSE)
    /\ UNCHANGED <<store, alloc, ev, settings, signals, background, orphans, history>>

\* Mutant: the filter of the List call is left out.
ExpirationList_All(w) ==
    /\ at(w, "list")
    /\ call' = [call EXCEPT ![w].listed = {k \in Keys : Has(k)}, ![w].pc = "next"]
    /\ UNCHANGED <<store, alloc, ev, settings, signals, background, orphans, history,
                   poolVars>>

ExpirationList(w) ==
    /\ at(w, "list")
    /\ call' = [call EXCEPT ![w].listed = Expired, ![w].pc = "next"]
    /\ UNCHANGED <<store, alloc, ev, settings, signals, background, orphans, history,
                   poolVars>>

ExpirationNext(w) ==
    /\ at(w, "next")
    /\ \/ \E k \in call[w].listed :
            /\ call' = [call EXCEPT ![w].pc = "unlink", ![w].todo = {k}, ![w].keys = {k},
                                    ![w].listed = @ \ {k}]
            /\ UNCHANGED poolVars
       \/ call[w].listed = {} /\ return(w) /\ JobReturns(w, FALSE)
    /\ UNCHANGED <<store, alloc, ev, settings, signals, background, orphans, history>>

-----------------------------------------------------------------------------
(***************************************************************************)
(* The two background loops.  A loop that hands over a job is blocked in   *)
(* Enqueue until the channel has room.                                     *)
(***************************************************************************)
selects(l) == loop[l] = "select" /\ sender[l] = NoJob

\* Mutant: the expiration routine ignores its ticker.
ExpirationTick_Ignored ==
    /\ selects("expiration") /\ FALSE
    /\ UNCHANGED vars

ExpirationTick ==
    /\ selects("expiration") /\ config.ticker
    /\ Enqueue("expiration", "expire")
    /\ UNCHANGED <<store, alloc, ev, settings, call, signals, background, orphans, history>>

ExpirationTriggered ==
    /\ selects("expiration") /\ triggerCh > 0
    /\ Enqueue("expiration", "expire")
    /\ triggerCh' = triggerCh - 1
    /\ loop' = [loop EXCEPT !["expiration"] = "clear"]
    /\ UNCHANGED <<store, alloc, ev, settings, call, pending, evictCh, recent, canceled,
                   orphans, history>>

\* The flag is cleared first and the channel drained second, so a trigger
\* that comes between the two is swallowed with the flag left set.
ExpirationClears ==
    /\ loop["expiration"] = "clear" /\ sender["expiration"] = NoJob
    /\ pending' = FALSE
    /\ loop' = [loop EXCEPT !["expiration"] = "drain"]
    /\ UNCHANGED <<store, alloc, ev, settings, call, triggerCh, evictCh, recent, canceled,
                   orphans, history, poolVars>>

ExpirationDrains ==
    /\ loop["expiration"] = "drain"
    /\ triggerCh' = 0
    /\ loop' = [loop EXCEPT !["expiration"] = "select"]
    /\ UNCHANGED <<store, alloc, ev, settings, call, pending, evictCh, recent, canceled,
                   orphans, history, poolVars>>

EvictionTriggered ==
    /\ selects("expiration") /\ evictCh
    /\ Enqueue("expiration", "evict")
    /\ evictCh' = FALSE
    /\ UNCHANGED <<store, alloc, ev, settings, call, pending, triggerCh, recent, background,
                   orphans, history>>

EvictionTick ==
    /\ selects("eviction")
    /\ Enqueue("eviction", "evict")
    /\ UNCHANGED <<store, alloc, ev, settings, call, signals, background, orphans, history>>

LoopStops(l) ==
    /\ selects(l) /\ canceled
    /\ loop' = [loop EXCEPT ![l] = "stopped"]
    /\ UNCHANGED <<store, alloc, ev, settings, call, signals, canceled, orphans, history,
                   poolVars>>

-----------------------------------------------------------------------------
(***************************************************************************)
(* Stop cancels the background context and shuts the pool down.  The stop  *)
(* channel it signals first, and the goroutine that turns that signal into *)
(* a cancellation, only announce the cancellation that follows.            *)
(***************************************************************************)
Stop ==
    /\ config.stops
    /\ ShutdownLock
    /\ canceled' = TRUE
    /\ UNCHANGED <<store, alloc, ev, settings, call, signals, loop, orphans, history>>

\* A step of the pool that touches nothing else.
PoolOnly(A) ==
    /\ A
    /\ UNCHANGED <<store, alloc, ev, settings, call, signals, background, orphans, history>>

\* Time passes: an item with an expiration outlives it.
Expires(k) ==
    /\ Has(k) /\ ~store[k].expired
    /\ store' = [store EXCEPT ![k].expired = TRUE]
    /\ UNCHANGED <<alloc, ev, settings, call, signals, background, orphans, history,
                   poolVars>>

-----------------------------------------------------------------------------
ClientCall(c) ==
    \/ \E k \in Keys, sz \in Sizes : Set(c, k, sz) \/ GetOrSet(c, k, sz)
    \/ \E ks \in KeySets : GetMultiple(c, ks) \/ RemoveKeys(c, ks)
    \/ Clear(c) \/ TriggerExpiration(c) \/ TriggerEviction(c)
    \/ \E n \in Capacities : SetCapacity(c, n)

ClientStep(c) ==
    \/ Reserve(c) \/ CheckSize(c) \/ StoreItem(c) \/ StoreInvalid(c) \/ Track(c)
    \/ CountCheck(c) \/ ReadItem(c) \/ TouchItem(c) \/ TriggerSwap(c) \/ TriggerSend(c)
    \/ TriggerDebounced(c)
    \/ ClearBackend(c) \/ ClearForget(c) \/ SetCapacityEvicts(c)

\* The steps clients and workers have in common.
SharedStep(p) == EvictKey(p) \/ Unlink(p) \/ Delete(p) \/ DeleteCanceled(p)

WorkerStep(w) ==
    \/ StartJob(w) \/ EvictionLoopTest(w) \/ ExpirationList(w) \/ ExpirationNext(w)
    \/ SharedStep(w)
    \/ PoolOnly(WorkerLeaves(w)) \/ PoolOnly(ReportError(w))

LoopStep ==
    \/ ExpirationTriggered \/ ExpirationClears \/ ExpirationDrains \/ EvictionTriggered
    \/ EvictionTick
    \/ DebounceEnds
    \/ \E l \in Loops : LoopStops(l)

Next ==
    \/ \E c \in Clients : ClientCall(c) \/ ClientStep(c) \/ SharedStep(c)
    \/ \E w \in Workers : WorkerStep(w)
    \/ \E p \in Senders : PoolOnly(EnqueueSend(p))
    \/ ExpirationTick \/ LoopStep
    \/ \E k \in Keys : DeleteLate(k)
    \/ \E k \in Expiring : Expires(k)
    \/ Stop \/ PoolOnly(ShutdownClose) \/ PoolOnly(ShutdownReturns)

Spec == New /\ [][Next]_vars

(***************************************************************************)
(* The background goroutines keep running: the Go scheduler starves none   *)
(* of them and the ticker keeps firing.  A client need not finish a call   *)
(* it is in, Stop need not be called and no item need expire.              *)
(***************************************************************************)
Fairness ==
    /\ \A w \in Workers : WF_vars(WorkerStep(w))
    /\ WF_vars(\E p \in Senders : PoolOnly(EnqueueSend(p)))
    /\ WF_vars(ExpirationTick \/ ExpirationClears \/ ExpirationDrains)
    /\ WF_vars(PoolOnly(ShutdownClose) \/ PoolOnly(ShutdownReturns))

FairSpec == Spec /\ Fairness

-----------------------------------------------------------------------------
(***************************************************************************)
(* With WithMaxCacheSize the stored items never exceed the limit, as long  *)
(* as calls follow one another: overwrites and invalid items only make the *)
(* allocation too large, never too small.  (Two Removes of one key that    *)
(* overlap both take its size off, and the limit is lost.)                 *)
(***************************************************************************)
MemoryLimit == ~disturbed /\ config.maxSize > 0 => Total <= config.maxSize

(***************************************************************************)
(* An insertion that evicts in the caller leaves no more items than the    *)
(* capacity, or than it found, unless another operation overlaps with it.  *)
(* The clock is left out: one turn of its hand may evict nothing.          *)
(***************************************************************************)
InsertKeepsCapacity ==
    [][\A c \in Clients :
          /\ call[c].op \in {"set", "getorset"} /\ call'[c].op = "none"
          /\ ~disturbed' /\ shouldEvict /\ ev.cap > 0 /\ config.alg # "clock"
          => Count' <= Max({capacity, call[c].before})]_vars

\* a comes before b in the order the algorithm last saw them.
Before(a, b) == \E i, j \in DOMAIN written : i < j /\ written[i] = a /\ written[j] = b

(***************************************************************************)
(* LRU and CAWOLFU evict, of the keys a shard still tracks, the one whose  *)
(* last Set is the oldest, over overwrites, removals, Clear, shard cursors *)
(* and lists cut at their capacity.  Reads do not count, because Get and   *)
(* its kin never call the algorithm: what the documentation says instead   *)
(* is stated, and refuted, in UseOrder.                                    *)
(***************************************************************************)
EvictsOldestTracked ==
    [][\A p \in Procs : \A k \in call'[p].keys :
          /\ at(p, "evict") /\ config.alg \in {"lru", "cawolfu"}
          => \A o \in Tracked(ev) \ {k} :
               shardFor(ev, o) = shardFor(ev, k) => Before(k, o)]_vars

(***************************************************************************)
(* The expiration job deletes a live item only when a client wrote or      *)
(* touched it after the job had listed it as expired.                      *)
(***************************************************************************)
ExpiryDeletesOnlyStale ==
    [][\A w \in Workers : \A k \in call[w].keys :
          /\ call[w].op = "expire" /\ at(w, "delete") /\ ~at(w, "delete")'
          /\ Has(k) /\ ~store[k].expired
          => k \in call[w].fresh]_vars

(***************************************************************************)
(* An expired item does not stay: the ticker's job, whatever became of the *)
(* triggers, removes it, or a client renews it, or the cache is stopped.   *)
(***************************************************************************)
ExpiredLeaves ==
    \A k \in Expiring : config.ticker /\ k \in Expired ~> (k \notin Expired \/ canceled)

(***************************************************************************)
(* Stop comes back, except when more jobs fail after the cancellation than *)
(* errorChan holds: then a worker waits for a reader that does not exist.  *)
(***************************************************************************)
StopReturns == shutdown = "locking" ~> (shutdown = "returned" \/ StuckOnErrors)

(***************************************************************************)
(* Stop always comes back ("The shutdown is bounded by shutdownTimeout",   *)
(* hypercache.go).  It does not: workerPool.Shutdown has no deadline, and  *)
(* the timeout is set after it.                                            *)
(***************************************************************************)
StopIsBounded == shutdown = "locking" ~> shutdown = "returned"
=============================================================================
