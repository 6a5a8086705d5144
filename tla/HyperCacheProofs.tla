-------------------------- MODULE HyperCacheProofs --------------------------
(***************************************************************************)
(* Proofs about HyperCache and its worker pool, for any number of clients, *)
(* workers and keys, any sizes, capacities and configurations.             *)
(***************************************************************************)
EXTENDS HyperCache, EvictionProofs, SumLemmas

Jobs == {"expire", "evict"}

Ops == {"none", "set", "getorset", "get", "trigger", "remove", "clear", "setcap"} \cup Jobs
Pcs == {"idle", "reserve", "check", "store", "track", "count", "evict", "unlink", "delete",
        "get", "touch", "trigger", "signal", "clear", "forget", "shrink", "list", "next"}
Locals == [op : Ops, pc : Pcs, key : Keys \cup {NoKey}, size : Nat,
           todo : SUBSET Keys, keys : SUBSET Keys, listed : SUBSET Keys,
           fresh : SUBSET Keys, n : Nat, before : Nat]

\* The locals of a call at the point it has reached: one that is about to
\* store or touch an item has its key and its size, one that removes keys
\* looks up none but those, and no other call has keys to remove.
Keyed(l) == /\ l.pc \in {"reserve", "check", "store", "track", "touch"} => l.key \in Keys
            /\ l.pc \in {"reserve", "check", "store"} => l.size \in Sizes
            /\ l.pc = "unlink" => l.todo \subseteq l.keys
            /\ l.pc \notin {"unlink", "delete"} => l.keys = {}
            /\ l.op = "none" <=> l.pc = "idle"

(***************************************************************************)
(* The parts of the type invariant.  A worker is inside a call only while  *)
(* it runs a job, so the job ends when the call does.                      *)
(***************************************************************************)
PoolTyped ==
    /\ jobs \in Seq(Jobs) /\ Len(jobs) <= Buffer
    /\ sender \in [Senders -> Jobs \cup {NoJob}]
    /\ wg \in Nat
    /\ errs \in 0..Buffer
    /\ worker \in [Workers -> {"idle", "run", "err", "gone"}]
    /\ shutdown \in {"open", "locking", "closed", "returned"}

Good(f) == f \in [Procs -> Locals] /\ \A p \in Procs : Keyed(f[p])
CallsTyped == Good(call)
RunsJob == \A w \in Workers : call[w].pc # "idle" => worker[w] = "run"

(***************************************************************************)
(* What a step does to the pool: it is a step of the pool or leaves it     *)
(* alone.                                                                  *)
(***************************************************************************)
JobEnds(w) == worker[w] = "run" /\ \E failed \in BOOLEAN : JobReturns(w, failed)

PoolNext ==
    \/ UNCHANGED poolVars
    \/ \E p \in Senders, job \in Jobs : Enqueue(p, job)
    \/ \E p \in Senders : EnqueueSend(p)
    \/ \E w \in Workers : \/ WorkerTakes(w) \/ WorkerLeaves(w) \/ ReportError(w)
                          \/ JobEnds(w)
    \/ ShutdownLock \/ ShutdownClose \/ ShutdownReturns

LEMMA PoolFrame ==
    ASSUME RunsJob, Next
    PROVE  PoolNext
<1> USE CacheAssumption DEF PoolNext, Jobs
<1>1. ASSUME NEW c \in Clients, ClientCall(c) PROVE PoolNext
  BY <1>1 DEF ClientCall, Set, GetOrSet, GetMultiple, RemoveKeys, Clear, TriggerExpiration,
              TriggerEviction, SetCapacity
<1>2. ASSUME NEW c \in Clients, ClientStep(c) PROVE PoolNext
  <2>1. CASE SetCapacityEvicts(c)
    BY <2>1 DEF SetCapacityEvicts
  <2> QED
    BY <1>2, <2>1
    DEF ClientStep, Reserve, CheckSize, StoreItem, StoreInvalid, Track, CountCheck,
        ReadItem, TouchItem, TriggerSwap, TriggerSend, TriggerDebounced, ClearBackend,
        ClearForget
<1>3. ASSUME NEW p \in Procs, SharedStep(p) PROVE PoolNext
  <2>1. ASSUME p \in Workers, NEW f \in BOOLEAN, JobReturns(p, f), ~at(p, "idle")
        PROVE  PoolNext
    BY <2>1 DEF RunsJob, JobEnds, at
  <2>2. CASE EvictKey(p)
    BY <2>1, <2>2 DEF EvictKey, at
  <2>3. CASE DeleteCanceled(p)
    BY <2>1, <2>3 DEF DeleteCanceled, at
  <2> QED
    BY <1>3, <2>2, <2>3 DEF SharedStep, Unlink, Delete
<1>4. ASSUME NEW w \in Workers, WorkerStep(w) PROVE PoolNext
  <2>1. ASSUME NEW f \in BOOLEAN, JobReturns(w, f), ~at(w, "idle")
        PROVE  PoolNext
    BY <2>1 DEF RunsJob, JobEnds, at
  <2>2. CASE EvictionLoopTest(w)
    BY <2>1, <2>2 DEF EvictionLoopTest, at
  <2>3. CASE ExpirationNext(w)
    BY <2>1, <2>3 DEF ExpirationNext, at
  <2>4. CASE SharedStep(w)
    BY <1>3, <2>4 DEF Procs
  <2>5. CASE StartJob(w) \/ ExpirationList(w)
    BY <2>5 DEF StartJob, ExpirationList
  <2>6. CASE PoolOnly(WorkerLeaves(w)) \/ PoolOnly(ReportError(w))
    BY <2>6 DEF PoolOnly
  <2> QED
    BY <1>4, <2>2, <2>3, <2>4, <2>5, <2>6 DEF WorkerStep
<1>5. CASE ExpirationTick \/ LoopStep
  BY <1>5 DEF ExpirationTick, LoopStep, ExpirationTriggered, ExpirationClears,
              ExpirationDrains, EvictionTriggered, EvictionTick, DebounceEnds, LoopStops
<1>6. CASE \/ \E k \in Keys : DeleteLate(k)
           \/ \E k \in Expiring : Expires(k)
  BY <1>6 DEF DeleteLate, Expires
<1>7. CASE \/ \E p \in Senders : PoolOnly(EnqueueSend(p))
           \/ Stop \/ PoolOnly(ShutdownClose) \/ PoolOnly(ShutdownReturns)
  BY <1>7 DEF PoolOnly, Stop
<1> QED
  BY <1>1, <1>2, <1>3, <1>4, <1>5, <1>6, <1>7 DEF Next, Procs

-----------------------------------------------------------------------------
(***************************************************************************)
(* The pool's own invariant: the wait group counts the accepted jobs that  *)
(* have not finished, wherever they are.                                   *)
(***************************************************************************)
Sending == {p \in Senders : sender[p] # NoJob}
Busy == {w \in Workers : worker[w] \in {"run", "err"}}
InPool == Len(jobs) + Cardinality(Sending) + Cardinality(Busy)

PoolInv == PoolTyped /\ NoSendOnClosed /\ wg = InPool

LEMMA InPoolIs == Unfinished = InPool /\ Unfinished' = InPool'
  BY DEF Unfinished, InPool, Sending, Busy

LEMMA SendersFinite == IsFiniteSet(Senders)
<1>1. IsFiniteSet(Clients \cup {"expiration"})
  BY CacheAssumption, FS_AddElement
<1>2. IsFiniteSet((Clients \cup {"expiration"}) \cup {"eviction"})
  BY <1>1, FS_AddElement
<1>3. Senders = (Clients \cup {"expiration"}) \cup {"eviction"}
  BY CacheAssumption
<1> QED
  BY <1>2, <1>3

LEMMA PoolCounts ==
    ASSUME PoolTyped
    PROVE  /\ IsFiniteSet(Sending) /\ Cardinality(Sending) \in Nat
           /\ IsFiniteSet(Busy) /\ Cardinality(Busy) \in Nat
           /\ Len(jobs) \in Nat /\ Buffer \in Nat
<1>1. IsFiniteSet(Sending) /\ Cardinality(Sending) \in Nat
  BY SendersFinite, FS_Subset, FS_CardinalityType DEF Sending
<1>2. IsFiniteSet(Busy) /\ Cardinality(Busy) \in Nat
  BY PoolAssumption, FS_Subset, FS_CardinalityType DEF Busy
<1>3. Len(jobs) \in Nat
  BY DEF PoolTyped
<1>4. Buffer \in Nat
  BY PoolAssumption, FS_CardinalityType DEF Buffer
<1> QED
  BY <1>1, <1>2, <1>3, <1>4

\* How the two sets change when one sender, or one worker, changes.
LEMMA SendingStep ==
    ASSUME PoolTyped, NEW p \in Senders, NEW j, sender' = [sender EXCEPT ![p] = j]
    PROVE  /\ sender[p] = NoJob /\ j # NoJob => Cardinality(Sending') = Cardinality(Sending) + 1
           /\ sender[p] # NoJob /\ j = NoJob => Cardinality(Sending') = Cardinality(Sending) - 1
<1>1. IsFiniteSet(Sending)
  BY PoolCounts
<1>2. \A q \in Senders : sender'[q] = IF q = p THEN j ELSE sender[q]
  BY DEF PoolTyped
<1>3. CASE sender[p] = NoJob /\ j # NoJob
  <2>1. Sending' = Sending \cup {p} /\ p \notin Sending
    BY <1>2, <1>3 DEF Sending
  <2> QED
    BY <1>1, <1>3, <2>1, FS_AddElement
<1>4. CASE sender[p] # NoJob /\ j = NoJob
  <2>1. Sending' = Sending \ {p} /\ p \in Sending
    BY <1>2, <1>4 DEF Sending
  <2> QED
    BY <1>1, <1>4, <2>1, FS_RemoveElement
<1> QED
  BY <1>3, <1>4

LEMMA BusyStep ==
    ASSUME PoolTyped, NEW w \in Workers, NEW s, worker' = [worker EXCEPT ![w] = s]
    PROVE  /\ worker[w] \notin {"run", "err"} /\ s \in {"run", "err"}
                => Cardinality(Busy') = Cardinality(Busy) + 1
           /\ worker[w] \in {"run", "err"} /\ s \notin {"run", "err"}
                => Cardinality(Busy') = Cardinality(Busy) - 1
           /\ (worker[w] \in {"run", "err"} <=> s \in {"run", "err"})
                => Busy' = Busy
<1>1. IsFiniteSet(Busy)
  BY PoolCounts
<1>2. \A v \in Workers : worker'[v] = IF v = w THEN s ELSE worker[v]
  BY DEF PoolTyped
<1>3. CASE worker[w] \notin {"run", "err"} /\ s \in {"run", "err"}
  <2>1. Busy' = Busy \cup {w} /\ w \notin Busy
    BY <1>2, <1>3 DEF Busy
  <2> QED
    BY <1>1, <1>3, <2>1, FS_AddElement
<1>4. CASE worker[w] \in {"run", "err"} /\ s \notin {"run", "err"}
  <2>1. Busy' = Busy \ {w} /\ w \in Busy
    BY <1>2, <1>4 DEF Busy
  <2> QED
    BY <1>1, <1>4, <2>1, FS_RemoveElement
<1>5. CASE worker[w] \in {"run", "err"} <=> s \in {"run", "err"}
  <2>1. Busy' = Busy
    BY <1>2, <1>5 DEF Busy
  <2> QED
    BY <1>5, <2>1
<1> QED
  BY <1>3, <1>4, <1>5

(***************************************************************************)
(* Every step of the pool is a step of JobPool or leaves its three         *)
(* variables alone, and keeps the invariant.                               *)
(***************************************************************************)
Accepts == /\ ~closed /\ InPool' = InPool + 1
           /\ UNCHANGED shutdown
Finishes == InPool > 0 /\ InPool' = InPool - 1 /\ UNCHANGED shutdown
Keeps == InPool' = InPool /\ UNCHANGED shutdown
Shuts == /\ InPool' = InPool
         /\ \/ shutdown = "open" /\ shutdown' = "locking"
            \/ shutdown = "locking" /\ shutdown' = "closed"
            \/ shutdown = "closed" /\ InPool = 0 /\ shutdown' = "returned"

LEMMA PoolStep ==
    ASSUME PoolInv, PoolNext
    PROVE  /\ PoolInv'
           /\ Accepts \/ Finishes \/ Keeps \/ Shuts
<1>0. /\ PoolTyped /\ NoSendOnClosed /\ wg = InPool
      /\ Cardinality(Sending) \in Nat /\ Cardinality(Busy) \in Nat
      /\ Len(jobs) \in Nat /\ Buffer \in Nat /\ NoJob \notin Jobs
  BY PoolCounts, CacheAssumption DEF PoolInv, Jobs
<1>1. CASE UNCHANGED poolVars
  <2>1. Sending' = Sending /\ Busy' = Busy
    BY <1>1 DEF Sending, Busy, poolVars
  <2> QED
    BY <1>0, <1>1, <2>1 DEF poolVars, PoolInv, PoolTyped, NoSendOnClosed, InPool, closed, Keeps
<1>2. ASSUME NEW p \in Senders, NEW job \in Jobs, Enqueue(p, job)
      PROVE  PoolInv' /\ (Accepts \/ Keeps)
  <2>1. CASE closed
    <3>1. UNCHANGED poolVars
      BY <1>2, <2>1 DEF Enqueue, poolVars
    <3>2. Sending' = Sending /\ Busy' = Busy
      BY <3>1 DEF Sending, Busy, poolVars
    <3> QED
      BY <1>0, <3>1, <3>2
      DEF poolVars, PoolInv, PoolTyped, NoSendOnClosed, InPool, closed, Keeps
  <2>2. CASE ~closed
    <3>1. /\ sender[p] = NoJob /\ sender' = [sender EXCEPT ![p] = job] /\ wg' = wg + 1
          /\ UNCHANGED <<jobs, errs, worker, shutdown>>
      BY <1>2, <2>2 DEF Enqueue
    <3>2. Busy' = Busy
      BY <3>1 DEF Busy
    <3>3. job # NoJob
      BY <1>0
    <3>4. Cardinality(Sending') = Cardinality(Sending) + 1
      BY <1>0, <3>1, <3>3, SendingStep
    <3>5. InPool' = InPool + 1
      BY <1>0, <3>1, <3>2, <3>4 DEF InPool
    <3>6. PoolTyped' /\ ~closed'
      BY <1>0, <2>2, <3>1 DEF PoolTyped, closed, Buffer
    <3> QED
      BY <1>0, <2>2, <3>1, <3>5, <3>6 DEF PoolInv, NoSendOnClosed, Accepts
  <2> QED
    BY <2>1, <2>2
<1>3. ASSUME NEW p \in Senders, EnqueueSend(p)
      PROVE  PoolInv' /\ Keeps
  <2>1. /\ sender[p] # NoJob /\ sender' = [sender EXCEPT ![p] = NoJob]
        /\ jobs' = Append(jobs, sender[p]) /\ Len(jobs) < Buffer
        /\ UNCHANGED <<wg, errs, worker, shutdown>>
    BY <1>3 DEF EnqueueSend
  <2>2. Busy' = Busy
    BY <2>1 DEF Busy
  <2>3. Cardinality(Sending') = Cardinality(Sending) - 1
    BY <1>0, <2>1, SendingStep
  <2>4. sender[p] \in Jobs
    BY <1>0, <2>1 DEF PoolTyped
  <2>5. Len(jobs') = Len(jobs) + 1 /\ jobs' \in Seq(Jobs)
    BY <1>0, <2>1, <2>4 DEF PoolTyped
  <2>6. InPool' = InPool
    BY <1>0, <2>2, <2>3, <2>5 DEF InPool
  <2>7. PoolTyped'
    BY <1>0, <2>1, <2>5 DEF PoolTyped, Buffer
  <2>8. NoSendOnClosed'
    BY <1>0, <2>1 DEF NoSendOnClosed, closed, PoolTyped
  <2> QED
    BY <1>0, <2>1, <2>6, <2>7, <2>8 DEF PoolInv, Keeps
<1>4. ASSUME NEW w \in Workers, WorkerTakes(w)
      PROVE  PoolInv' /\ Keeps
  <2>1. /\ worker[w] = "idle" /\ jobs # <<>> /\ jobs' = Tail(jobs)
        /\ worker' = [worker EXCEPT ![w] = "run"]
        /\ UNCHANGED <<sender, wg, errs, shutdown>>
    BY <1>4 DEF WorkerTakes
  <2>2. Sending' = Sending
    BY <2>1 DEF Sending
  <2>3. Cardinality(Busy') = Cardinality(Busy) + 1
    BY <1>0, <2>1, BusyStep
  <2>4. Len(jobs') = Len(jobs) - 1 /\ jobs' \in Seq(Jobs)
    BY <1>0, <2>1 DEF PoolTyped
  <2>5. InPool' = InPool
    BY <1>0, <2>2, <2>3, <2>4 DEF InPool
  <2>6. PoolTyped'
    BY <1>0, <2>1, <2>4 DEF PoolTyped, Buffer
  <2>7. NoSendOnClosed'
    BY <1>0, <2>1 DEF NoSendOnClosed, closed
  <2> QED
    BY <1>0, <2>1, <2>5, <2>6, <2>7 DEF PoolInv, Keeps
<1>5. ASSUME NEW w \in Workers, WorkerLeaves(w)
      PROVE  PoolInv' /\ Keeps
  <2>1. /\ worker[w] = "idle" /\ worker' = [worker EXCEPT ![w] = "gone"]
        /\ UNCHANGED <<jobs, sender, wg, errs, shutdown>>
    BY <1>5 DEF WorkerLeaves
  <2>2. Sending' = Sending
    BY <2>1 DEF Sending
  <2>3. Busy' = Busy
    <3>1. worker[w] \notin {"run", "err"} /\ "gone" \notin {"run", "err"}
      BY <2>1
    <3> QED
      BY <1>0, <2>1, <3>1, BusyStep
  <2>4. InPool' = InPool
    BY <2>1, <2>2, <2>3 DEF InPool
  <2>5. PoolTyped'
    BY <1>0, <2>1 DEF PoolTyped, Buffer
  <2>6. NoSendOnClosed'
    BY <1>0, <2>1 DEF NoSendOnClosed, closed
  <2> QED
    BY <1>0, <2>1, <2>4, <2>5, <2>6 DEF PoolInv, Keeps
<1>6. ASSUME NEW w \in Workers, NEW err \in 0..Buffer, worker[w] \in {"run", "err"},
             worker' = [worker EXCEPT ![w] = "idle"], wg' = wg - 1, errs' = err,
             UNCHANGED <<jobs, sender, shutdown>>
      PROVE  PoolInv' /\ Finishes
  <2>1. Sending' = Sending
    BY <1>6 DEF Sending
  <2>2. Cardinality(Busy') = Cardinality(Busy) - 1
    <3>1. "idle" \notin {"run", "err"}
      OBVIOUS
    <3> QED
      BY <1>0, <1>6, <3>1, BusyStep
  <2>3. Cardinality(Busy) # 0
    <3>1. w \in Busy /\ IsFiniteSet(Busy)
      BY <1>0, <1>6, PoolCounts DEF Busy
    <3> QED
      BY <3>1, FS_EmptySet
  <2>4. InPool' = InPool - 1 /\ InPool > 0
    BY <1>0, <1>6, <2>1, <2>2, <2>3 DEF InPool
  <2>5. PoolTyped'
    BY <1>0, <1>6, <2>4 DEF PoolTyped, Buffer, InPool
  <2>6. NoSendOnClosed'
    BY <1>0, <1>6 DEF NoSendOnClosed, closed
  <2> QED
    BY <1>0, <1>6, <2>4, <2>5, <2>6 DEF PoolInv, Finishes
<1>7. ASSUME NEW w \in Workers, ReportError(w)
      PROVE  PoolInv' /\ Finishes
  <2>1. errs' \in 0..Buffer
    BY <1>0, <1>7 DEF ReportError, PoolTyped
  <2> QED
    BY <1>6, <1>7, <2>1 DEF ReportError
<1>8. ASSUME NEW w \in Workers, JobEnds(w)
      PROVE  PoolInv' /\ (Finishes \/ Keeps)
  <2>1. CASE JobReturns(w, FALSE)
    <3>1. errs' \in 0..Buffer
      BY <1>0, <2>1 DEF JobReturns, PoolTyped
    <3> QED
      BY <1>6, <1>8, <2>1, <3>1 DEF JobReturns, JobEnds
  <2>2. CASE JobReturns(w, TRUE)
    <3>1. /\ worker[w] = "run" /\ worker' = [worker EXCEPT ![w] = "err"]
          /\ UNCHANGED <<jobs, sender, wg, errs, shutdown>>
      BY <1>8, <2>2 DEF JobReturns, JobEnds
    <3>2. Sending' = Sending
      BY <3>1 DEF Sending
    <3>3. Busy' = Busy
      BY <1>0, <3>1, BusyStep
    <3>4. InPool' = InPool
      BY <3>1, <3>2, <3>3 DEF InPool
    <3>5. PoolTyped'
      BY <1>0, <3>1 DEF PoolTyped, Buffer
    <3>6. NoSendOnClosed'
      BY <1>0, <3>1 DEF NoSendOnClosed, closed
    <3> QED
      BY <1>0, <3>1, <3>4, <3>5, <3>6 DEF PoolInv, Keeps
  <2> QED
    BY <1>8, <2>1, <2>2 DEF JobEnds
<1>9. CASE ShutdownLock \/ ShutdownClose \/ ShutdownReturns
  <2>1. UNCHANGED <<jobs, sender, wg, errs, worker>>
    BY <1>9 DEF ShutdownLock, ShutdownClose, ShutdownReturns
  <2>2. Sending' = Sending /\ Busy' = Busy
    BY <2>1 DEF Sending, Busy
  <2>3. InPool' = InPool
    BY <2>1, <2>2 DEF InPool
  <2>4. PoolTyped'
    BY <1>0, <1>9, <2>1 DEF PoolTyped, Buffer, ShutdownLock, ShutdownClose, ShutdownReturns
  <2>5. NoSendOnClosed'
    BY <1>0, <1>9, <2>1
    DEF NoSendOnClosed, closed, ShutdownLock, ShutdownClose, ShutdownReturns
  <2>6. Shuts
    BY <1>0, <1>9, <2>3 DEF Shuts, ShutdownLock, ShutdownClose, ShutdownReturns
  <2> QED
    BY <1>0, <2>1, <2>3, <2>4, <2>5, <2>6 DEF PoolInv
<1> QED
  BY <1>1, <1>2, <1>3, <1>4, <1>5, <1>7, <1>8, <1>9 DEF PoolNext, Keeps, PoolInv


-----------------------------------------------------------------------------
(***************************************************************************)
(* The calls.                                                              *)
(***************************************************************************)
LEMMA Put ==
    ASSUME NEW f, Good(f), NEW p \in Procs, NEW r \in Locals, Keyed(r)
    PROVE  Good([f EXCEPT ![p] = r])
  BY DEF Good

\* p goes to pc with its locals as they are.
LEMMA GoodGo ==
    ASSUME NEW f, Good(f), NEW p \in Procs, NEW pc \in Pcs, pc # "idle",
           f[p].pc # "idle",
           pc \in {"reserve", "check", "store", "track", "touch"} => f[p].key \in Keys,
           pc \in {"reserve", "check", "store"} => f[p].size \in Sizes,
           pc # "unlink", f[p].pc \notin {"unlink", "delete"}
    PROVE  Good([f EXCEPT ![p].pc = pc])
<1>1. f[p] \in Locals /\ Keyed(f[p])
  BY DEF Good
<1> DEFINE r == [f[p] EXCEPT !.pc = pc]
<1>2. r \in Locals /\ Keyed(r)
  BY <1>1 DEF Locals, Keyed
<1>3. [f EXCEPT ![p].pc = pc] = [f EXCEPT ![p] = r]
  OBVIOUS
<1> HIDE DEF r
<1> QED
  BY <1>2, <1>3, Put

LEMMA IdleTyped == Idle \in Locals /\ Keyed(Idle)
<1>1. Idle \in Locals
  BY DEF Idle, Locals, Ops, Pcs
<1>2. Idle.pc = "idle" /\ Idle.op = "none" /\ Idle.keys = {}
  BY DEF Idle
<1>3. Keyed(Idle)
  BY <1>2 DEF Keyed
<1> QED
  BY <1>1, <1>3

LEMMA GoodIdle ==
    ASSUME NEW f, Good(f), NEW p \in Procs
    PROVE  Good([f EXCEPT ![p] = Idle])
  BY IdleTyped, Put

LEMMA RefreshedGood ==
    ASSUME NEW f, Good(f), NEW k \in Keys
    PROVE  Good(Refreshed(f, k))
<1> DEFINE r(p) == IF f[p].op = "expire"
                   THEN [f[p] EXCEPT !.fresh = @ \cup {k}] ELSE f[p]
<1>1. ASSUME NEW p \in Procs
      PROVE  r(p) \in Locals /\ Keyed(r(p))
  <2>1. f[p] \in Locals /\ Keyed(f[p])
    BY DEF Good
  <2> QED
    BY <2>1 DEF Locals, Keyed
<1>2. Refreshed(f, k) = [p \in Procs |-> r(p)]
  BY DEF Refreshed
<1> HIDE DEF r
<1> QED
  BY <1>1, <1>2 DEF Good

LEMMA NextKeyGood ==
    ASSUME NEW f, Good(f), NEW c \in Procs,
           f[c].pc \notin {"idle", "unlink", "delete"}
    PROVE  Good(NextKey(f, c))
<1>1. /\ "get" \notin {"reserve", "check", "store", "track", "touch"} /\ "get" \in Pcs
      /\ "get" \notin {"reserve", "check", "store"} /\ "get" # "unlink" /\ "get" # "idle"
  BY DEF Pcs
<1>2. Good([f EXCEPT ![c].pc = "get"])
  BY <1>1, GoodGo
<1> QED
  BY <1>2, GoodIdle DEF NextKey

(***************************************************************************)
(* The rest of the state.                                                  *)
(***************************************************************************)
StateTyped ==
    /\ store \in [Keys -> Item \cup {NoItem}]
    /\ capacity \in Nat /\ alloc \in Int
    /\ config \in Config
    /\ Sharded(ev)
    /\ triggerCh \in 0..TriggerBuffer
    /\ evictCh \in BOOLEAN /\ pending \in BOOLEAN /\ recent \in BOOLEAN
    /\ loop \in [Loops -> {"select", "clear", "drain", "stopped"}]
    /\ canceled \in BOOLEAN /\ disturbed \in BOOLEAN
    /\ orphans \subseteq Keys

LEMMA CountNat == Count \in Nat
<1>1. IsFiniteSet({k \in Keys : Has(k)})
  BY CacheAssumption, FS_Subset
<1> QED
  BY <1>1, FS_CardinalityType DEF Count

LEMMA ItemTyped ==
    ASSUME NEW i \in Item \cup {NoItem}
    PROVE  i.size \in Nat /\ i.expired \in BOOLEAN
<1>1. CASE i \in Item
  BY <1>1, CacheAssumption DEF Item
<1>2. CASE i = NoItem
  BY <1>2 DEF NoItem
<1> QED
  BY <1>1, <1>2

\* Every call a client can begin is well formed.
LEMMA CallBegins ==
    ASSUME StateTyped, CallsTyped, NEW c \in Clients, ClientCall(c)
    PROVE  CallsTyped'
<1>0. c \in Procs
  BY DEF Procs
<1>1. ASSUME NEW r \in Locals, Keyed(r), Begin(c, r)
      PROVE  CallsTyped'
  BY <1>0, <1>1, Put DEF Begin, CallsTyped
<1>2. ASSUME NEW k \in Keys, NEW sz \in Sizes, Set(c, k, sz)
      PROVE  CallsTyped'
  <2> DEFINE r == [Idle EXCEPT !.op = "set", !.pc = "check", !.key = k, !.size = sz,
                               !.before = Count]
  <2>1. Begin(c, r)
    BY <1>2 DEF Set
  <2>2. r \in Locals
    BY CountNat, CacheAssumption DEF Idle, Locals, Ops, Pcs
  <2>3. r.op = "set" /\ r.pc = "check" /\ r.key = k /\ r.size = sz /\ r.keys = {}
    BY DEF Idle
  <2> HIDE DEF r
  <2>4. Keyed(r)
    BY <2>3 DEF Keyed
  <2> QED
    BY <1>1, <2>1, <2>2, <2>4
<1>3. ASSUME NEW k \in Keys, NEW sz \in Sizes, GetOrSet(c, k, sz)
      PROVE  CallsTyped'
  <2> DEFINE pc == IF ~Has(k) THEN "reserve"
                   ELSE IF store[k].expired THEN "trigger" ELSE "touch"
  <2> DEFINE r == [Idle EXCEPT !.op = "getorset", !.key = k, !.size = sz, !.before = Count,
                               !.pc = pc]
  <2>1. Begin(c, r)
    BY <1>3 DEF GetOrSet
  <2>2. pc \in {"reserve", "trigger", "touch"}
    OBVIOUS
  <2> HIDE DEF pc
  <2>3. r \in Locals
    BY <2>2, CountNat, CacheAssumption DEF Idle, Locals, Ops, Pcs
  <2>4. r.op = "getorset" /\ r.pc = pc /\ r.key = k /\ r.size = sz /\ r.keys = {}
    BY DEF Idle
  <2> HIDE DEF r
  <2>5. Keyed(r)
    BY <2>2, <2>4 DEF Keyed
  <2> QED
    BY <1>1, <2>1, <2>3, <2>5
<1>4. ASSUME NEW ks \in KeySets, GetMultiple(c, ks)
      PROVE  CallsTyped'
  <2> DEFINE r == [Idle EXCEPT !.op = "get", !.pc = "get", !.listed = ks]
  <2>1. Begin(c, r)
    BY <1>4 DEF GetMultiple
  <2>2. r \in Locals
    BY CacheAssumption DEF Idle, Locals, Ops, Pcs
  <2>3. r.op = "get" /\ r.pc = "get" /\ r.keys = {}
    BY DEF Idle
  <2> HIDE DEF r
  <2>4. Keyed(r)
    BY <2>3 DEF Keyed
  <2> QED
    BY <1>1, <2>1, <2>2, <2>4
<1>5. ASSUME NEW ks \in KeySets, RemoveKeys(c, ks)
      PROVE  CallsTyped'
  <2> DEFINE r == [Idle EXCEPT !.op = "remove", !.pc = "unlink", !.todo = ks, !.keys = ks]
  <2>1. Begin(c, r)
    BY <1>5 DEF RemoveKeys
  <2>2. r \in Locals
    BY CacheAssumption DEF Idle, Locals, Ops, Pcs
  <2>3. r.op = "remove" /\ r.pc = "unlink" /\ r.todo = r.keys
    BY DEF Idle
  <2> HIDE DEF r
  <2>4. Keyed(r)
    BY <2>3 DEF Keyed
  <2> QED
    BY <1>1, <2>1, <2>2, <2>4
<1>6. CASE Clear(c)
  <2> DEFINE ks == {k \in Keys : Has(k)}
  <2>0. ks \subseteq Keys
    OBVIOUS
  <2> DEFINE r == [Idle EXCEPT !.op = "clear", !.pc = "clear", !.listed = ks]
  <2>1. Begin(c, r)
    BY <1>6 DEF Clear
  <2> HIDE DEF ks
  <2>2. r \in Locals
    BY <2>0, CacheAssumption DEF Idle, Locals, Ops, Pcs
  <2>3. r.op = "clear" /\ r.pc = "clear" /\ r.keys = {}
    BY DEF Idle
  <2> HIDE DEF r
  <2>4. Keyed(r)
    BY <2>3 DEF Keyed
  <2> QED
    BY <1>1, <2>1, <2>2, <2>4
<1>7. CASE TriggerExpiration(c)
  <2> DEFINE r == [Idle EXCEPT !.op = "trigger", !.pc = "trigger"]
  <2>1. Begin(c, r)
    BY <1>7 DEF TriggerExpiration
  <2>2. r \in Locals
    BY CacheAssumption DEF Idle, Locals, Ops, Pcs
  <2>3. r.op = "trigger" /\ r.pc = "trigger" /\ r.keys = {}
    BY DEF Idle
  <2> HIDE DEF r
  <2>4. Keyed(r)
    BY <2>3 DEF Keyed
  <2> QED
    BY <1>1, <2>1, <2>2, <2>4
<1>8. CASE TriggerEviction(c)
  BY <1>1, <1>8, IdleTyped DEF TriggerEviction
<1>9. ASSUME NEW n \in Capacities, SetCapacity(c, n)
      PROVE  CallsTyped'
  <2> DEFINE r == [Idle EXCEPT !.op = "setcap", !.pc = "shrink"]
  <2>1. Begin(c, r)
    BY <1>9 DEF SetCapacity
  <2>2. r \in Locals
    BY CacheAssumption DEF Idle, Locals, Ops, Pcs
  <2>3. r.op = "setcap" /\ r.pc = "shrink" /\ r.keys = {}
    BY DEF Idle
  <2> HIDE DEF r
  <2>4. Keyed(r)
    BY <2>3 DEF Keyed
  <2> QED
    BY <1>1, <2>1, <2>2, <2>4
<1> QED
  BY <1>2, <1>3, <1>4, <1>5, <1>6, <1>7, <1>8, <1>9 DEF ClientCall

LEMMA CallFields ==
    ASSUME CallsTyped, NEW p \in Procs
    PROVE  /\ call[p] \in Locals /\ Keyed(call[p])
           /\ call[p].n \in Nat
           /\ call[p].todo \in SUBSET Keys /\ call[p].keys \in SUBSET Keys
           /\ call[p].listed \in SUBSET Keys /\ call[p].fresh \in SUBSET Keys
           /\ call[p].op \in Ops /\ call[p].pc \in Pcs
  BY DEF CallsTyped, Good, Locals

\* A step that ends a call, or only moves it on.
LEMMA CallMoves ==
    ASSUME CallsTyped, NEW p \in Procs, ~at(p, "idle")
    PROVE  /\ return(p) => CallsTyped'
           /\ call' = NextKey(call, p) /\ call[p].pc \notin {"unlink", "delete"} => CallsTyped'
           /\ \A pc \in Pcs \ {"idle", "reserve", "check", "store", "track", "touch", "unlink"} :
                go(p, pc) /\ call[p].pc \notin {"unlink", "delete"} => CallsTyped'
<1>1. Good(call) /\ call[p].pc # "idle"
  BY DEF CallsTyped, at
<1>2. return(p) => CallsTyped'
  BY <1>1, GoodIdle DEF return, CallsTyped
<1>3. call' = NextKey(call, p) /\ call[p].pc \notin {"unlink", "delete"} => CallsTyped'
  BY <1>1, NextKeyGood DEF CallsTyped
<1>4. ASSUME NEW pc \in Pcs \ {"idle", "reserve", "check", "store", "track", "touch", "unlink"},
             go(p, pc), call[p].pc \notin {"unlink", "delete"}
      PROVE  CallsTyped'
  <2>1. Good([call EXCEPT ![p].pc = pc])
    BY <1>1, <1>4, GoodGo
  <2> QED
    BY <1>4, <2>1 DEF go, CallsTyped
<1> QED
  BY <1>2, <1>3, <1>4

\* The steps of a client inside a call keep it well formed.
LEMMA ClientStepCalls ==
    ASSUME StateTyped, CallsTyped, NEW c \in Clients, ClientStep(c)
    PROVE  CallsTyped'
<1>0. c \in Procs /\ Good(call)
  BY DEF Procs, CallsTyped
<1>1. call[c] \in Locals /\ Keyed(call[c])
  BY <1>0, CallFields
<1>2. CASE Reserve(c)
  <2>1. call[c].pc = "reserve" /\ call' = [call EXCEPT ![c].pc = "check"]
    BY <1>2 DEF Reserve, at, go
  <2>2. call[c].key \in Keys /\ call[c].size \in Sizes
    BY <1>1, <2>1 DEF Keyed
  <2>3. "check" \in Pcs
    BY DEF Pcs
  <2>4. Good([call EXCEPT ![c].pc = "check"])
    BY <1>0, <2>1, <2>2, <2>3, GoodGo
  <2> QED
    BY <2>1, <2>4 DEF CallsTyped
<1>3. CASE CheckSize(c)
  <2>1. call[c].pc = "check" /\ (return(c) \/ call' = [call EXCEPT ![c].pc = "store"])
    BY <1>3 DEF CheckSize, at, go
  <2>2. call[c].key \in Keys /\ call[c].size \in Sizes
    BY <1>1, <2>1 DEF Keyed
  <2>3. "store" \in Pcs
    BY DEF Pcs
  <2>4. Good([call EXCEPT ![c].pc = "store"])
    BY <1>0, <2>1, <2>2, <2>3, GoodGo
  <2> QED
    BY <1>0, <2>1, <2>4, CallMoves DEF CallsTyped, at
<1>4. CASE StoreItem(c)
  <2>1. /\ call[c].pc = "store"
        /\ call' = Refreshed([call EXCEPT ![c].pc = "track"], call[c].key)
    BY <1>4 DEF StoreItem, at
  <2>2. call[c].key \in Keys /\ call[c].size \in Sizes
    BY <1>1, <2>1 DEF Keyed
  <2>3. "track" \in Pcs
    BY DEF Pcs
  <2>4. Good([call EXCEPT ![c].pc = "track"])
    BY <1>0, <2>1, <2>2, <2>3, GoodGo
  <2>5. Good(Refreshed([call EXCEPT ![c].pc = "track"], call[c].key))
    BY <2>2, <2>4, RefreshedGood
  <2> QED
    BY <2>1, <2>5 DEF CallsTyped
<1>5. CASE ReadItem(c)
  <2>1. call[c].pc = "get"
    BY <1>5 DEF ReadItem, at
  <2>2. CASE return(c)
    BY <1>0, <2>1, <2>2, CallMoves DEF at
  <2>3. CASE ~return(c)
    <3>1. PICK k \in call[c].listed :
            call' = [call EXCEPT ![c].listed = @ \ {k}, ![c].key = k,
                         ![c].pc = IF ~Has(k) THEN "get"
                                   ELSE IF store[k].expired THEN "trigger" ELSE "touch"]
      BY <1>5, <2>3 DEF ReadItem
    <3> DEFINE pc == IF ~Has(k) THEN "get"
                     ELSE IF store[k].expired THEN "trigger" ELSE "touch"
               L == call[c].listed \ {k}
               r == [call[c] EXCEPT !.listed = L, !.key = k, !.pc = pc]
    <3>2. call' = [call EXCEPT ![c] = r]
      BY <3>1
    <3>3. pc \in {"get", "trigger", "touch"} /\ L \in SUBSET Keys /\ k \in Keys
      BY <1>0, CallFields
    <3> HIDE DEF pc, L
    <3>4. /\ r \in Locals /\ r.pc = pc /\ r.key = k /\ r.op = call[c].op
          /\ r.keys = call[c].keys
      BY <1>1, <3>3 DEF Locals, Pcs
    <3>5. r.op # "none" /\ r.keys = {}
      BY <1>1, <2>1, <3>4 DEF Keyed
    <3> HIDE DEF r
    <3>6. Keyed(r)
      BY <3>3, <3>4, <3>5 DEF Keyed
    <3> QED
      BY <1>0, <3>2, <3>4, <3>6, Put DEF CallsTyped
  <2> QED
    BY <2>2, <2>3
<1>6. CASE TouchItem(c)
  <2>1. call[c].pc = "touch" /\ call' = NextKey(Refreshed(call, call[c].key), c)
    BY <1>6 DEF TouchItem, at
  <2>2. call[c].key \in Keys
    BY <1>1, <2>1 DEF Keyed
  <2>3. Good(Refreshed(call, call[c].key))
    BY <1>0, <2>2, RefreshedGood
  <2>4. Refreshed(call, call[c].key)[c].pc = call[c].pc
    BY <1>0, <1>1 DEF Refreshed, Locals
  <2>5. Good(NextKey(Refreshed(call, call[c].key), c))
    BY <1>0, <2>1, <2>3, <2>4, NextKeyGood
  <2> QED
    BY <2>1, <2>5 DEF CallsTyped
<1>7. CASE ClearForget(c)
  <2>1. call[c].pc = "forget"
    BY <1>7 DEF ClearForget, at
  <2>2. CASE return(c)
    BY <1>0, <2>1, <2>2, CallMoves DEF at
  <2>3. CASE ~return(c)
    <3>1. PICK k \in call[c].listed : call' = [call EXCEPT ![c].listed = @ \ {k}]
      BY <1>7, <2>3 DEF ClearForget
    <3> DEFINE L == call[c].listed \ {k}
               r == [call[c] EXCEPT !.listed = L]
    <3>2. call' = [call EXCEPT ![c] = r] /\ L \in SUBSET Keys
      BY <1>0, <3>1, CallFields
    <3> HIDE DEF L
    <3>3. /\ r \in Locals /\ r.pc = "forget" /\ r.op = call[c].op
          /\ r.keys = call[c].keys
      BY <1>1, <2>1, <3>2 DEF Locals
    <3>4. r.op # "none" /\ r.keys = {}
      BY <1>1, <2>1, <3>3 DEF Keyed
    <3> HIDE DEF r
    <3>5. Keyed(r)
      BY <3>3, <3>4 DEF Keyed
    <3> QED
      BY <1>0, <3>2, <3>3, <3>5, Put DEF CallsTyped
  <2> QED
    BY <2>2, <2>3
<1>8. CASE \/ StoreInvalid(c) \/ Track(c) \/ CountCheck(c) \/ TriggerSwap(c) \/ TriggerSend(c)
           \/ TriggerDebounced(c) \/ ClearBackend(c) \/ SetCapacityEvicts(c)
  <2>1. ~at(c, "idle") /\ call[c].pc \notin {"unlink", "delete"}
    BY <1>8 DEF StoreInvalid, Track, CountCheck, TriggerSwap, TriggerSend, TriggerDebounced,
                ClearBackend, SetCapacityEvicts, at
  <2>2. \/ return(c) \/ call' = NextKey(call, c)
        \/ \E pc \in {"count", "evict", "signal", "forget"} : go(c, pc)
    BY <1>8 DEF StoreInvalid, Track, CountCheck, TriggerSwap, TriggerSend, TriggerDebounced,
                ClearBackend, SetCapacityEvicts, go
  <2>3. {"count", "evict", "signal", "forget"}
          \subseteq Pcs \ {"idle", "reserve", "check", "store", "track", "touch", "unlink"}
    BY DEF Pcs
  <2> QED
    BY <1>0, <2>1, <2>2, <2>3, CallMoves
<1> QED
  BY <1>2, <1>3, <1>4, <1>5, <1>6, <1>7, <1>8 DEF ClientStep

\* So do the steps clients and workers share.
LEMMA SharedStepCalls ==
    ASSUME StateTyped, CallsTyped, NEW p \in Procs, SharedStep(p)
    PROVE  CallsTyped'
<1>0. Good(call) /\ call[p] \in Locals /\ Keyed(call[p])
  BY CallFields DEF CallsTyped
<1>1. CASE EvictKey(p)
  <2>1. call[p].pc = "evict"
    BY <1>1 DEF EvictKey, at
  <2>2. CASE return(p)
    BY <2>1, <2>2, CallMoves DEF at
  <2>3. CASE ~return(p)
    <3> DEFINE k == shardedEvict(ev).key
               ks == {k}
               r == [call[p] EXCEPT !.pc = "unlink", !.todo = ks, !.keys = ks]
    <3>1. shardedEvict(ev).ok /\ call' = [call EXCEPT ![p] = r]
      BY <1>1, <2>3 DEF EvictKey
    <3>2. k \in Keys
      BY <3>1, ShardedEvictTyped, CacheAssumption DEF StateTyped
    <3>3. ks \in SUBSET Keys
      BY <3>2
    <3> HIDE DEF ks
    <3>4. r \in Locals /\ r.pc = "unlink" /\ r.todo = r.keys /\ r.op = call[p].op
      BY <1>0, <3>3 DEF Locals, Pcs
    <3>5. r.op # "none"
      BY <1>0, <2>1, <3>4 DEF Keyed
    <3> HIDE DEF r
    <3>6. Keyed(r)
      BY <3>4, <3>5 DEF Keyed
    <3> QED
      BY <1>0, <3>1, <3>4, <3>6, Put DEF CallsTyped
  <2> QED
    BY <2>2, <2>3
<1>2. CASE Unlink(p)
  <2>1. call[p].pc = "unlink"
    BY <1>2 DEF Unlink, at
  <2>2. PICK k \in call[p].todo :
          call' = [call EXCEPT ![p].todo = @ \ {k},
                               ![p].pc = IF call[p].todo = {k} THEN "delete" ELSE @]
    BY <1>2 DEF Unlink
  <2> DEFINE pc == IF call[p].todo = {k} THEN "delete" ELSE call[p].pc
             T == call[p].todo \ {k}
             r == [call[p] EXCEPT !.todo = T, !.pc = pc]
  <2>3. call' = [call EXCEPT ![p] = r]
    BY <2>2
  <2>4. /\ pc \in {"delete", "unlink"} /\ T \in SUBSET Keys /\ T \subseteq call[p].todo
        /\ call[p].todo \subseteq call[p].keys
    BY <1>0, <2>1, CallFields DEF Keyed
  <2> HIDE DEF pc, T
  <2>5. r \in Locals /\ r.pc = pc /\ r.todo = T /\ r.keys = call[p].keys /\ r.op = call[p].op
    BY <1>0, <2>4 DEF Locals, Pcs
  <2>6. r.op # "none"
    BY <1>0, <2>1, <2>5 DEF Keyed
  <2> HIDE DEF r
  <2>7. Keyed(r)
    BY <2>4, <2>5, <2>6 DEF Keyed
  <2> QED
    BY <1>0, <2>3, <2>5, <2>7, Put DEF CallsTyped
<1>3. CASE Delete(p)
  <2>1. call[p].pc = "delete" /\ Continue(p)
    BY <1>3 DEF Delete, at
  <2>2. CASE call[p].op = "evict"
    <3> DEFINE n == call[p].n + 1
               r == [call[p] EXCEPT !.pc = "count", !.n = n, !.keys = {}]
    <3>0. call' = [call EXCEPT ![p].pc = "count", ![p].n = @ + 1, ![p].keys = {}]
      BY <2>1, <2>2 DEF Continue
    <3>1. call' = [call EXCEPT ![p] = r] /\ n \in Nat
      <4>1. call' = [call EXCEPT ![p] = r]
        BY <3>0
      <4>2. n \in Nat
        BY CallFields
      <4> QED
        BY <4>1, <4>2
    <3> HIDE DEF n
    <3>2. r \in Locals /\ r.pc = "count" /\ r.op = "evict" /\ r.keys = {}
      BY <1>0, <2>2, <3>1 DEF Locals, Pcs
    <3> HIDE DEF r
    <3>3. Keyed(r)
      BY <3>2 DEF Keyed
    <3> QED
      BY <1>0, <3>1, <3>2, <3>3, Put DEF CallsTyped
  <2>3. CASE call[p].op = "expire"
    <3> DEFINE r == [call[p] EXCEPT !.pc = "next", !.keys = {}]
    <3>1. call' = [call EXCEPT ![p] = r]
      BY <2>1, <2>3 DEF Continue
    <3>2. r \in Locals /\ r.pc = "next" /\ r.op = "expire" /\ r.keys = {}
      BY <1>0, <2>3 DEF Locals, Pcs
    <3> HIDE DEF r
    <3>3. Keyed(r)
      BY <3>2 DEF Keyed
    <3> QED
      BY <1>0, <3>1, <3>2, <3>3, Put DEF CallsTyped
  <2>4. CASE call[p].op \notin {"evict", "expire"}
    BY <2>1, <2>4, CallMoves DEF Continue, at
  <2> QED
    BY <2>2, <2>3, <2>4
<1>4. CASE DeleteCanceled(p)
  <2>1. call[p].pc = "delete" /\ return(p)
    BY <1>4 DEF DeleteCanceled, at
  <2> QED
    BY <2>1, CallMoves DEF at
<1> QED
  BY <1>1, <1>2, <1>3, <1>4 DEF SharedStep

\* And the steps of the jobs.
LEMMA WorkerStepCalls ==
    ASSUME StateTyped, PoolTyped, CallsTyped, NEW w \in Workers, WorkerStep(w)
    PROVE  CallsTyped'
<1>0. w \in Procs /\ Good(call) /\ call[w] \in Locals /\ Keyed(call[w])
  BY CallFields DEF CallsTyped, Procs
<1>1. CASE StartJob(w)
  <2> DEFINE j == Head(jobs)
             pc == IF Head(jobs) = "evict" THEN "count" ELSE "list"
             r == [Idle EXCEPT !.op = j, !.pc = pc]
  <2>1. call' = [call EXCEPT ![w] = r]
    BY <1>1 DEF StartJob
  <2>2. pc \in {"count", "list"} /\ j \in Jobs
    BY <1>1 DEF StartJob, WorkerTakes, PoolTyped
  <2> HIDE DEF pc, j
  <2>3. r \in Locals /\ r.pc = pc /\ r.op = j /\ r.keys = {}
    BY <2>2, CacheAssumption DEF Idle, Locals, Pcs, Ops
  <2>4. r.op # "none"
    BY <2>2, <2>3 DEF Jobs
  <2> HIDE DEF r
  <2>5. Keyed(r)
    BY <2>2, <2>3, <2>4 DEF Keyed
  <2> QED
    BY <1>0, <2>1, <2>3, <2>5, Put DEF CallsTyped
<1>2. CASE ExpirationList(w)
  <2> DEFINE L == Expired
             r == [call[w] EXCEPT !.listed = L, !.pc = "next"]
  <2>1. call[w].pc = "list" /\ call' = [call EXCEPT ![w] = r] /\ L \in SUBSET Keys
    BY <1>2 DEF ExpirationList, at, Expired
  <2> HIDE DEF L
  <2>2. r \in Locals /\ r.pc = "next" /\ r.op = call[w].op /\ r.keys = call[w].keys
    BY <1>0, <2>1 DEF Locals, Pcs
  <2>3. r.op # "none" /\ r.keys = {}
    BY <1>0, <2>1, <2>2 DEF Keyed
  <2> HIDE DEF r
  <2>4. Keyed(r)
    BY <2>2, <2>3 DEF Keyed
  <2> QED
    BY <1>0, <2>1, <2>2, <2>4, Put DEF CallsTyped
<1>3. CASE ExpirationNext(w)
  <2>1. call[w].pc = "next"
    BY <1>3 DEF ExpirationNext, at
  <2>2. CASE return(w)
    BY <1>0, <2>1, <2>2, CallMoves DEF at
  <2>3. CASE ~return(w)
    <3>1. PICK k \in call[w].listed :
            call' = [call EXCEPT ![w].pc = "unlink", ![w].todo = {k}, ![w].keys = {k},
                                 ![w].listed = @ \ {k}]
      BY <1>3, <2>3 DEF ExpirationNext
    <3> DEFINE L == call[w].listed \ {k}
               ks == {k}
               r == [call[w] EXCEPT !.pc = "unlink", !.todo = ks, !.keys = ks, !.listed = L]
    <3>2. call' = [call EXCEPT ![w] = r] /\ L \in SUBSET Keys /\ ks \in SUBSET Keys
      BY <1>0, <3>1, CallFields
    <3> HIDE DEF L, ks
    <3>3. r \in Locals /\ r.pc = "unlink" /\ r.op = call[w].op /\ r.todo = r.keys
      BY <1>0, <3>2 DEF Locals, Pcs
    <3>4. r.op # "none"
      BY <1>0, <2>1, <3>3 DEF Keyed
    <3> HIDE DEF r
    <3>5. Keyed(r)
      BY <3>3, <3>4 DEF Keyed
    <3> QED
      BY <1>0, <3>2, <3>3, <3>5, Put DEF CallsTyped
  <2> QED
    BY <2>2, <2>3
<1>4. CASE EvictionLoopTest(w)
  <2>1. /\ ~at(w, "idle") /\ call[w].pc \notin {"unlink", "delete"}
        /\ return(w) \/ go(w, "evict")
    BY <1>4 DEF EvictionLoopTest, at
  <2>2. "evict" \in Pcs \ {"idle", "reserve", "check", "store", "track", "touch", "unlink"}
    BY DEF Pcs
  <2> QED
    BY <1>0, <2>1, <2>2, CallMoves
<1>5. CASE PoolOnly(WorkerLeaves(w)) \/ PoolOnly(ReportError(w))
  BY <1>5 DEF PoolOnly, CallsTyped
<1> QED
  BY <1>0, <1>1, <1>2, <1>3, <1>4, <1>5, SharedStepCalls DEF WorkerStep

LEMMA CallsStep ==
    ASSUME StateTyped, PoolTyped, CallsTyped, Next
    PROVE  CallsTyped'
<1>1. CASE \/ \E p \in Senders : PoolOnly(EnqueueSend(p))
           \/ ExpirationTick \/ LoopStep
           \/ \E k \in Keys : DeleteLate(k)
           \/ \E k \in Expiring : Expires(k)
           \/ Stop \/ PoolOnly(ShutdownClose) \/ PoolOnly(ShutdownReturns)
  <2>1. UNCHANGED call
    BY <1>1 DEF PoolOnly, ExpirationTick, LoopStep, ExpirationTriggered, ExpirationClears,
                ExpirationDrains, EvictionTriggered, EvictionTick, DebounceEnds, LoopStops,
                DeleteLate, Expires, Stop
  <2> QED
    BY <2>1 DEF CallsTyped
<1> QED
  BY <1>1, CallBegins, ClientStepCalls, SharedStepCalls, WorkerStepCalls DEF Next, Procs

-----------------------------------------------------------------------------
(***************************************************************************)
(* A worker's call begins when it takes a job and ends when the job does.  *)
(***************************************************************************)
\* A step of another may add to fresh, and does no more.
SameCall(l, m) ==
    /\ m.pc = l.pc /\ m.op = l.op
    /\ m.todo = l.todo /\ m.keys = l.keys /\ m.listed = l.listed
    /\ l.fresh \subseteq m.fresh

\* The key c writes or touches is marked in every expiration job under way.
Marks(k) == \A q \in Workers : call[q].op = "expire" => k \in call'[q].fresh

LEMMA RefreshedSame ==
    ASSUME NEW f, Good(f), NEW k, NEW q \in Procs
    PROVE  /\ SameCall(f[q], Refreshed(f, k)[q])
           /\ f[q].op = "expire" => k \in Refreshed(f, k)[q].fresh
<1>1. f[q] \in Locals
  BY DEF Good
<1>2. Refreshed(f, k)[q] = IF f[q].op = "expire"
                           THEN [f[q] EXCEPT !.fresh = @ \cup {k}] ELSE f[q]
  BY DEF Refreshed
<1>3. CASE f[q].op = "expire"
  BY <1>1, <1>2, <1>3 DEF SameCall, Locals
<1>4. CASE f[q].op # "expire"
  BY <1>2, <1>4 DEF SameCall
<1> QED
  BY <1>3, <1>4

LEMMA StoreItemCalls ==
    ASSUME CallsTyped, NEW p \in Clients, StoreItem(p)
    PROVE  /\ \A q \in Procs \ {p} : SameCall(call[q], call'[q])
           /\ call'[p].pc = "track" /\ call'[p].op = call[p].op
           /\ Marks(call[p].key)
<1>0. p \in Procs /\ Good(call)
  BY DEF Procs, CallsTyped
<1> DEFINE f == [call EXCEPT ![p].pc = "track"]
           k == call[p].key
<1>1. call[p].pc = "store" /\ call' = Refreshed(f, k)
  BY DEF StoreItem, at
<1>2. k \in Keys /\ "track" \in Pcs /\ call[p] \in Locals
  BY <1>0, <1>1, CallFields DEF Keyed, Pcs
<1>3. Good(f)
  BY <1>0, <1>1, <1>2, GoodGo
<1>4. /\ \A q \in Procs \ {p} : f[q] = call[q]
      /\ f[p].pc = "track" /\ f[p].op = call[p].op
  BY <1>0, <1>2 DEF Good, Locals
<1> HIDE DEF f, k
<1>5. \A q \in Procs : /\ SameCall(f[q], call'[q])
                       /\ f[q].op = "expire" => k \in call'[q].fresh
  BY <1>1, <1>3, RefreshedSame
<1>6. Marks(k)
  BY <1>4, <1>5 DEF Marks, Procs
<1>7. \A q \in Procs \ {p} : SameCall(call[q], call'[q])
  BY <1>4, <1>5
<1>8. call'[p].pc = "track" /\ call'[p].op = call[p].op
  BY <1>0, <1>4, <1>5 DEF SameCall
<1> QED
  BY <1>6, <1>7, <1>8 DEF k

LEMMA TouchItemCalls ==
    ASSUME CallsTyped, NEW p \in Clients, TouchItem(p)
    PROVE  /\ \A q \in Procs \ {p} : SameCall(call[q], call'[q])
           /\ call'[p].pc \in {"idle", "get"}
           /\ Marks(call[p].key)
<1>0. p \in Procs /\ Good(call)
  BY DEF Procs, CallsTyped
<1> DEFINE k == call[p].key
           f == Refreshed(call, k)
<1>1. call[p].pc = "touch" /\ call' = NextKey(f, p)
  BY DEF TouchItem, at
<1>2. k \in Keys
  BY <1>0, <1>1, CallFields DEF Keyed
<1>3. Good(f)
  BY <1>0, <1>2, RefreshedGood
<1>4. \A q \in Procs : SameCall(call[q], f[q]) /\ (call[q].op = "expire" => k \in f[q].fresh)
  BY <1>0, RefreshedSame
<1> HIDE DEF f
<1>5. \A q \in Procs \ {p} : call'[q] = f[q]
  BY <1>0, <1>1, <1>3 DEF NextKey, Good
<1>6. call'[p].pc \in {"idle", "get"}
  <2>1. f[p] \in Locals
    BY <1>0, <1>3 DEF Good
  <2> QED
    BY <1>0, <1>1, <1>3, <2>1 DEF NextKey, Good, Locals, Idle
<1>7. Workers \subseteq Procs \ {p}
  BY CacheAssumption DEF Procs
<1> QED
  BY <1>4, <1>5, <1>6, <1>7 DEF Marks

\* What a step of p does not do to the others.
LEMMA OthersStay ==
    ASSUME CallsTyped, NEW p \in Procs,
           \/ p \in Clients /\ (ClientCall(p) \/ ClientStep(p))
           \/ SharedStep(p)
           \/ p \in Workers /\ WorkerStep(p)
    PROVE  \A q \in Procs \ {p} : SameCall(call[q], call'[q])
<1>1. ASSUME NEW r, call' = [call EXCEPT ![p] = r]
      PROVE  \A q \in Procs \ {p} : SameCall(call[q], call'[q])
  <2>1. \A q \in Procs \ {p} : call'[q] = call[q]
    BY <1>1 DEF CallsTyped, Good
  <2> QED
    BY <2>1 DEF SameCall
<1>2. CASE UNCHANGED call
  BY <1>2 DEF SameCall
<1>3. ASSUME p \in Clients, ClientCall(p)
      PROVE  \E r : call' = [call EXCEPT ![p] = r]
  BY <1>3 DEF ClientCall, Set, GetOrSet, GetMultiple, RemoveKeys, Clear, TriggerExpiration,
              TriggerEviction, SetCapacity, Begin
<1>4. ASSUME p \in Clients, ClientStep(p), ~StoreItem(p), ~TouchItem(p)
      PROVE  \E r : call' = [call EXCEPT ![p] = r]
  BY <1>4 DEF ClientStep, Reserve, CheckSize, StoreInvalid, Track, CountCheck, ReadItem,
       TriggerSwap, TriggerSend, TriggerDebounced, ClearBackend, ClearForget,
       SetCapacityEvicts, NextKey, go, return
<1>5. ASSUME SharedStep(p)
      PROVE  \E r : call' = [call EXCEPT ![p] = r]
  BY <1>5 DEF SharedStep, EvictKey, Unlink, Delete, Continue, DeleteCanceled, return
<1>6. ASSUME p \in Workers, WorkerStep(p), ~SharedStep(p)
      PROVE  UNCHANGED call \/ \E r : call' = [call EXCEPT ![p] = r]
  BY <1>6 DEF WorkerStep, StartJob, EvictionLoopTest, ExpirationList, ExpirationNext, go,
              return, PoolOnly
<1> QED
  BY <1>1, <1>2, <1>3, <1>4, <1>5, <1>6, StoreItemCalls, TouchItemCalls DEF ClientStep

LEMMA RunsJobStep ==
    ASSUME PoolTyped, CallsTyped, RunsJob, Next
    PROVE  RunsJob'
<1>0. \A c \in Clients : c \in Procs /\ c \notin Workers
  BY CacheAssumption DEF Procs
<1>1. \A w \in Workers : w \in Procs
  BY DEF Procs
<1>2. ASSUME NEW c \in Clients, ClientCall(c) \/ ClientStep(c) \/ SharedStep(c)
      PROVE  RunsJob'
  <2>1. UNCHANGED worker
    <3>1. CASE ClientCall(c)
      BY <3>1 DEF ClientCall, Set, GetOrSet, GetMultiple, RemoveKeys, Clear,
                  TriggerExpiration, TriggerEviction, SetCapacity, poolVars
    <3>2. CASE ClientStep(c)
      BY <3>2 DEF ClientStep, Reserve, CheckSize, StoreItem, StoreInvalid, Track, CountCheck,
                  ReadItem, TouchItem, TriggerSwap, TriggerSend, TriggerDebounced,
                  ClearBackend, ClearForget, SetCapacityEvicts, Enqueue, poolVars
    <3>3. CASE SharedStep(c)
      BY <1>0, <3>3 DEF SharedStep, EvictKey, Unlink, Delete, DeleteCanceled, poolVars
    <3> QED
      BY <1>2, <3>1, <3>2, <3>3
  <2>2. \A w \in Workers : call'[w].pc = call[w].pc
    BY <1>0, <1>1, <1>2, OthersStay DEF SameCall
  <2> QED
    BY <2>1, <2>2 DEF RunsJob
<1>3. ASSUME NEW w \in Workers, WorkerStep(w)
      PROVE  RunsJob'
  <2>1. \A v \in Workers \ {w} : call'[v].pc = call[v].pc
    BY <1>1, <1>3, OthersStay DEF SameCall
  <2>2. /\ \A v \in Workers \ {w} : worker'[v] = worker[v]
        /\ call'[w].pc # "idle" => worker'[w] = "run"
    <3>1. CASE StartJob(w)
      BY <3>1 DEF StartJob, WorkerTakes, PoolTyped
    <3>2. CASE PoolOnly(WorkerLeaves(w)) \/ PoolOnly(ReportError(w))
      <4>1. UNCHANGED call /\ worker[w] # "run"
        BY <3>2 DEF PoolOnly, WorkerLeaves, ReportError
      <4>2. \A v \in Workers \ {w} : worker'[v] = worker[v]
        BY <3>2 DEF PoolOnly, WorkerLeaves, ReportError, PoolTyped
      <4> QED
        BY <4>1, <4>2 DEF RunsJob
    <3>3. ASSUME ~at(w, "idle"), UNCHANGED poolVars \/ (return(w) /\ \E f \in BOOLEAN : JobReturns(w, f))
          PROVE  /\ \A v \in Workers \ {w} : worker'[v] = worker[v]
                 /\ call'[w].pc # "idle" => worker'[w] = "run"
      <4>1. CASE UNCHANGED poolVars
        BY <3>3, <4>1 DEF RunsJob, at, poolVars
      <4>2. CASE return(w) /\ \E f \in BOOLEAN : JobReturns(w, f)
        <5>1. call'[w] = Idle
          BY <1>1, <4>2 DEF return, CallsTyped, Good
        <5>2. call'[w].pc = "idle"
          BY <5>1 DEF Idle
        <5> QED
          BY <4>2, <5>2 DEF JobReturns, PoolTyped
      <4> QED
        BY <3>3, <4>1, <4>2
    <3>4. CASE EvictionLoopTest(w)
      BY <3>3, <3>4 DEF EvictionLoopTest, at
    <3>5. CASE ExpirationList(w)
      BY <3>3, <3>5 DEF ExpirationList, at
    <3>6. CASE ExpirationNext(w)
      BY <3>3, <3>6 DEF ExpirationNext, at
    <3>7. CASE EvictKey(w)
      BY <3>3, <3>7 DEF EvictKey, at
    <3>8. CASE Unlink(w) \/ Delete(w)
      BY <3>3, <3>8 DEF Unlink, Delete, at
    <3>9. CASE DeleteCanceled(w)
      BY <3>3, <3>9 DEF DeleteCanceled, at
    <3> QED
      BY <1>3, <3>1, <3>2, <3>4, <3>5, <3>6, <3>7, <3>8, <3>9 DEF WorkerStep, SharedStep
  <2> QED
    BY <2>1, <2>2 DEF RunsJob
<1>4. CASE \/ \E p \in Senders : PoolOnly(EnqueueSend(p))
           \/ ExpirationTick \/ LoopStep
           \/ \E k \in Keys : DeleteLate(k)
           \/ \E k \in Expiring : Expires(k)
           \/ Stop \/ PoolOnly(ShutdownClose) \/ PoolOnly(ShutdownReturns)
  <2>1. UNCHANGED <<call, worker>>
    BY <1>4 DEF PoolOnly, ExpirationTick, LoopStep, ExpirationTriggered, ExpirationClears,
                ExpirationDrains, EvictionTriggered, EvictionTick, DebounceEnds, LoopStops,
                DeleteLate, Expires, Stop, Enqueue, EnqueueSend, ShutdownLock, ShutdownClose,
                ShutdownReturns, poolVars
  <2> QED
    BY <2>1 DEF RunsJob
<1> QED
  BY <1>2, <1>3, <1>4 DEF Next

-----------------------------------------------------------------------------
(***************************************************************************)
(* The store, the algorithm, the signals and the loops.                    *)
(***************************************************************************)
rest == <<capacity, config, triggerCh, evictCh, pending, recent, loop, canceled>>

LEMMA DroppingTyped ==
    ASSUME StateTyped, NEW S
    PROVE  Dropping(S) \in [Keys -> Item \cup {NoItem}]
  BY DEF StateTyped, Dropping

LEMMA ClientCallState ==
    ASSUME StateTyped, NEW c \in Clients, ClientCall(c)
    PROVE  StateTyped'
<1>1. disturbed' \in BOOLEAN
  BY DEF ClientCall, Set, GetOrSet, GetMultiple, RemoveKeys, Clear, TriggerExpiration,
         TriggerEviction, SetCapacity, Begin, Overlap
<1>2. alloc' \in Int
  <2>1. alloc' = alloc \/ \E sz \in Sizes : alloc' = alloc + sz
    BY DEF ClientCall, Set, GetOrSet, GetMultiple, RemoveKeys, Clear, TriggerExpiration,
           TriggerEviction, SetCapacity
  <2> QED
    BY <2>1, CacheAssumption DEF StateTyped
<1>3. UNCHANGED <<store, ev, config, triggerCh, pending, recent, loop, canceled, orphans>>
  BY DEF ClientCall, Set, GetOrSet, GetMultiple, RemoveKeys, Clear, TriggerExpiration,
         TriggerEviction, SetCapacity, settings, signals, background
<1>4. capacity' \in Nat /\ evictCh' \in BOOLEAN
  BY CacheAssumption DEF ClientCall, Set, GetOrSet, GetMultiple, RemoveKeys, Clear,
         TriggerExpiration, TriggerEviction, SetCapacity, settings, signals, StateTyped
<1> QED
  BY <1>1, <1>2, <1>3, <1>4 DEF StateTyped

LEMMA NothingTouched == [NoItem EXCEPT !.expired = FALSE] = NoItem
<1>1. NoItem.expired = FALSE
  BY DEF NoItem
<1>2. NoItem = [f \in {"size", "expired"} |-> NoItem[f]]
  BY DEF NoItem
<1> QED
  BY <1>1, <1>2

LEMMA ClientStepState ==
    ASSUME StateTyped, CallsTyped, NEW c \in Clients, ClientStep(c)
    PROVE  StateTyped'
<1>0. c \in Procs
  BY DEF Procs
<1>1. call[c] \in Locals /\ Keyed(call[c])
  BY <1>0, CallFields
<1>2. CASE Reserve(c) \/ CheckSize(c)
  <2>1. call[c].size \in Nat
    BY <1>1 DEF Locals
  <2>2. alloc' \in Int
    BY <1>2, <2>1 DEF Reserve, CheckSize, StateTyped
  <2>3. UNCHANGED <<store, ev, disturbed, orphans, rest>>
    BY <1>2 DEF Reserve, CheckSize, rest, settings, signals, background, history
  <2> QED
    BY <2>2, <2>3 DEF StateTyped, rest
<1>3. CASE StoreItem(c)
  <2>1. call[c].key \in Keys /\ call[c].size \in Sizes
    BY <1>1, <1>3 DEF StoreItem, at, Keyed
  <2> DEFINE i == [size |-> call[c].size, expired |-> FALSE]
  <2>2. i \in Item
    BY <2>1 DEF Item
  <2>3. store' = [store EXCEPT ![call[c].key] = i]
    BY <1>3 DEF StoreItem
  <2> HIDE DEF i
  <2>4. store' \in [Keys -> Item \cup {NoItem}]
    BY <2>1, <2>2, <2>3 DEF StateTyped
  <2>5. UNCHANGED <<alloc, ev, disturbed, orphans, rest>>
    BY <1>3 DEF StoreItem, rest, settings, signals, background, history
  <2> QED
    BY <2>4, <2>5 DEF StateTyped, rest
<1>4. CASE Track(c)
  <2>1. call[c].key \in Keys
    BY <1>1, <1>4 DEF Track, at, Keyed
  <2>2. Sharded(ev')
    BY <1>4, <2>1, ShardedTyped DEF Track, StateTyped
  <2>3. UNCHANGED <<store, alloc, disturbed, orphans, rest>>
    BY <1>4 DEF Track, rest, settings, signals, background
  <2> QED
    BY <2>2, <2>3 DEF StateTyped, rest
<1>5. CASE TouchItem(c)
  <2> DEFINE k == call[c].key
             i == [store[k] EXCEPT !.expired = FALSE]
  <2>1. k \in Keys
    BY <1>1, <1>5 DEF TouchItem, at, Keyed
  <2>2. store[k] \in Item \cup {NoItem}
    BY <2>1 DEF StateTyped
  <2>3. i \in Item \cup {NoItem}
    <3>1. CASE store[k] \in Item
      BY <3>1 DEF Item
    <3>2. CASE store[k] = NoItem
      <4>1. i = [NoItem EXCEPT !.expired = FALSE]
        BY <3>2
      <4> HIDE DEF i
      <4> QED
        BY <4>1, NothingTouched
    <3> QED
      BY <2>2, <3>1, <3>2
  <2>4. store' = [store EXCEPT ![k] = i]
    BY <1>5 DEF TouchItem
  <2> HIDE DEF i
  <2>5. store' \in [Keys -> Item \cup {NoItem}]
    BY <2>1, <2>3, <2>4 DEF StateTyped
  <2>6. UNCHANGED <<alloc, ev, disturbed, orphans, rest>>
    BY <1>5 DEF TouchItem, rest, settings, signals, background, history
  <2> QED
    BY <2>5, <2>6 DEF StateTyped, rest
<1>6. CASE ClearBackend(c)
  <2>1. store' \in [Keys -> Item \cup {NoItem}]
    BY <1>6, DroppingTyped DEF ClearBackend, StateTyped
  <2>2. orphans' \subseteq Keys /\ disturbed' \in BOOLEAN
    BY <1>6 DEF ClearBackend, StateTyped
  <2>3. UNCHANGED <<alloc, ev, rest>>
    BY <1>6 DEF ClearBackend, rest, settings, signals, background
  <2> QED
    BY <2>1, <2>2, <2>3 DEF StateTyped, rest
<1>7. CASE ClearForget(c)
  <2>1. call[c].listed \subseteq Keys
    BY <1>0, CallFields
  <2>2. Sharded(ev')
    BY <1>7, <2>1, ShardedTyped DEF ClearForget, StateTyped
  <2>3. alloc' \in Int
    BY <1>7 DEF ClearForget, StateTyped
  <2>4. UNCHANGED <<store, disturbed, orphans, rest>>
    BY <1>7 DEF ClearForget, rest, settings, signals, background, history
  <2> QED
    BY <2>2, <2>3, <2>4 DEF StateTyped, rest
<1>8. CASE TriggerSwap(c) \/ TriggerSend(c)
  <2>1. triggerCh' \in 0..TriggerBuffer
    BY <1>8, CacheAssumption DEF TriggerSwap, TriggerSend, StateTyped
  <2>2. pending' \in BOOLEAN
    BY <1>8 DEF TriggerSwap, TriggerSend, StateTyped
  <2>3. recent' \in BOOLEAN
    BY <1>8 DEF TriggerSwap, TriggerSend, StateTyped, Config
  <2>4. UNCHANGED <<store, alloc, ev, disturbed, orphans, capacity, config, evictCh, loop,
                    canceled>>
    BY <1>8 DEF TriggerSwap, TriggerSend, settings, background, history
  <2> QED
    BY <2>1, <2>2, <2>3, <2>4 DEF StateTyped
<1>9. CASE \/ StoreInvalid(c) \/ CountCheck(c) \/ ReadItem(c) \/ TriggerDebounced(c)
           \/ SetCapacityEvicts(c)
  <2>1. UNCHANGED <<store, alloc, ev, disturbed, orphans, rest>>
    BY <1>9 DEF StoreInvalid, CountCheck, ReadItem, TriggerDebounced, SetCapacityEvicts,
                rest, settings, signals, background, history
  <2> QED
    BY <2>1 DEF StateTyped, rest
<1> QED
  BY <1>2, <1>3, <1>4, <1>5, <1>6, <1>7, <1>8, <1>9 DEF ClientStep

LEMMA SharedStepState ==
    ASSUME StateTyped, CallsTyped, NEW p \in Procs, SharedStep(p)
    PROVE  StateTyped'
<1>0. call[p].todo \subseteq Keys /\ call[p].keys \subseteq Keys
  BY CallFields
<1>1. CASE EvictKey(p)
  <2>1. Sharded(ev')
    BY <1>1, ShardedEvictTyped, CacheAssumption DEF EvictKey, StateTyped
  <2>2. UNCHANGED <<store, alloc, disturbed, orphans, rest>>
    BY <1>1 DEF EvictKey, rest, settings, signals, background, history
  <2> QED
    BY <2>1, <2>2 DEF StateTyped, rest
<1>2. CASE Unlink(p)
  <2>1. PICK k \in call[p].todo : /\ alloc' = alloc - store[k].size
                                  /\ ev' = IF Has(k) THEN shardedDelete(ev, k) ELSE ev
    BY <1>2 DEF Unlink
  <2>2. store[k].size \in Nat
    BY <1>0, ItemTyped DEF StateTyped
  <2>3. alloc' \in Int
    BY <2>1, <2>2 DEF StateTyped
  <2>4. Sharded(ev')
    BY <1>0, <2>1, ShardedTyped DEF StateTyped
  <2>5. UNCHANGED <<store, disturbed, orphans, rest>>
    BY <1>2 DEF Unlink, rest, settings, signals, background, history
  <2> QED
    BY <2>3, <2>4, <2>5 DEF StateTyped, rest
<1>3. CASE Delete(p)
  <2>1. store' \in [Keys -> Item \cup {NoItem}]
    BY <1>3, DroppingTyped DEF Delete
  <2>2. UNCHANGED <<alloc, ev, disturbed, orphans, rest>>
    BY <1>3 DEF Delete, rest, settings, signals, background, history
  <2> QED
    BY <2>1, <2>2 DEF StateTyped, rest
<1>4. CASE DeleteCanceled(p)
  <2>1. orphans' \subseteq Keys /\ disturbed' \in BOOLEAN
    BY <1>0, <1>4 DEF DeleteCanceled, StateTyped
  <2>2. UNCHANGED <<store, alloc, ev, rest>>
    BY <1>4 DEF DeleteCanceled, rest, settings, signals, background
  <2> QED
    BY <2>1, <2>2 DEF StateTyped, rest
<1> QED
  BY <1>1, <1>2, <1>3, <1>4 DEF SharedStep

LEMMA BackgroundState ==
    ASSUME StateTyped,
           \/ ExpirationTick \/ LoopStep
           \/ \E k \in Keys : DeleteLate(k)
           \/ \E k \in Expiring : Expires(k)
           \/ Stop
    PROVE  StateTyped'
<1>1. CASE \E k \in Keys : DeleteLate(k)
  <2>1. store' \in [Keys -> Item \cup {NoItem}]
    BY <1>1, DroppingTyped DEF DeleteLate
  <2>2. orphans' \subseteq Keys
    BY <1>1 DEF DeleteLate, StateTyped
  <2>3. UNCHANGED <<alloc, ev, disturbed, rest>>
    BY <1>1 DEF DeleteLate, rest, settings, signals, background, history
  <2> QED
    BY <2>1, <2>2, <2>3 DEF StateTyped, rest
<1>2. ASSUME NEW k \in Expiring, Expires(k)
      PROVE  StateTyped'
  <2> DEFINE i == [store[k] EXCEPT !.expired = TRUE]
  <2>1. k \in Keys /\ store[k] \in Item
    BY <1>2, CacheAssumption DEF Expires, Has, StateTyped
  <2>2. i \in Item
    BY <2>1 DEF Item
  <2>3. store' = [store EXCEPT ![k] = i]
    BY <1>2 DEF Expires
  <2> HIDE DEF i
  <2>4. store' \in [Keys -> Item \cup {NoItem}]
    BY <2>1, <2>2, <2>3 DEF StateTyped
  <2>5. UNCHANGED <<alloc, ev, orphans, disturbed, rest>>
    BY <1>2 DEF Expires, rest, settings, signals, background, history
  <2> QED
    BY <2>4, <2>5 DEF StateTyped, rest
<1>3. CASE ExpirationTick \/ Stop \/ EvictionTick
  <2>1. canceled' \in BOOLEAN
    BY <1>3 DEF ExpirationTick, Stop, EvictionTick, background, StateTyped
  <2>2. UNCHANGED <<store, alloc, ev, orphans, disturbed, capacity, config, triggerCh,
                    evictCh, pending, recent, loop>>
    BY <1>3 DEF ExpirationTick, Stop, EvictionTick, settings, signals, background, history
  <2> QED
    BY <2>1, <2>2 DEF StateTyped
<1>4. CASE LoopStep /\ ~EvictionTick
  <2>1. loop' \in [Loops -> {"select", "clear", "drain", "stopped"}]
    BY <1>4 DEF LoopStep, ExpirationTriggered, ExpirationClears, ExpirationDrains,
                EvictionTriggered, DebounceEnds, LoopStops, background, StateTyped
  <2>2. triggerCh' \in 0..TriggerBuffer
    BY <1>4, CacheAssumption
    DEF LoopStep, ExpirationTriggered, ExpirationClears, ExpirationDrains,
        EvictionTriggered, DebounceEnds, LoopStops, signals, StateTyped
  <2>3. evictCh' \in BOOLEAN /\ pending' \in BOOLEAN /\ recent' \in BOOLEAN
    BY <1>4 DEF LoopStep, ExpirationTriggered, ExpirationClears, ExpirationDrains,
                EvictionTriggered, DebounceEnds, LoopStops, signals, StateTyped
  <2>4. UNCHANGED <<store, alloc, ev, orphans, disturbed, capacity, config, canceled>>
    BY <1>4 DEF LoopStep, ExpirationTriggered, ExpirationClears, ExpirationDrains,
                EvictionTriggered, DebounceEnds, LoopStops, settings, background, history
  <2> QED
    BY <2>1, <2>2, <2>3, <2>4 DEF StateTyped
<1> QED
  BY <1>1, <1>2, <1>3, <1>4 DEF LoopStep

LEMMA StateStep ==
    ASSUME StateTyped, CallsTyped, Next
    PROVE  StateTyped'
<1>1. ASSUME NEW w \in Workers, WorkerStep(w)
      PROVE  StateTyped'
  <2>1. CASE SharedStep(w)
    BY <2>1, SharedStepState DEF Procs
  <2>2. CASE ~SharedStep(w)
    <3>1. disturbed' \in BOOLEAN
      BY <1>1, <2>2 DEF WorkerStep, StartJob, Overlap, EvictionLoopTest, ExpirationList,
                        ExpirationNext, PoolOnly, history, StateTyped
    <3>2. UNCHANGED <<store, alloc, ev, orphans, rest>>
      BY <1>1, <2>2 DEF WorkerStep, StartJob, EvictionLoopTest, ExpirationList,
                        ExpirationNext, PoolOnly, rest, settings, signals, background
    <3> QED
      BY <3>1, <3>2 DEF StateTyped, rest
  <2> QED
    BY <2>1, <2>2
<1>2. CASE \/ \E p \in Senders : PoolOnly(EnqueueSend(p))
           \/ PoolOnly(ShutdownClose) \/ PoolOnly(ShutdownReturns)
  <2>1. UNCHANGED <<store, alloc, ev, disturbed, orphans, rest>>
    BY <1>2 DEF PoolOnly, rest, settings, signals, background, history
  <2> QED
    BY <2>1 DEF StateTyped, rest
<1> QED
  BY <1>1, <1>2, ClientCallState, ClientStepState, SharedStepState, BackgroundState
  DEF Next, Procs

-----------------------------------------------------------------------------
(***************************************************************************)
(* The inductive invariant, and what follows from it.                      *)
(***************************************************************************)
CacheInv == PoolInv /\ CallsTyped /\ RunsJob /\ StateTyped

LEMMA CacheInit == New => CacheInv
<1> SUFFICES ASSUME New PROVE CacheInv
  OBVIOUS
<1>1. PoolTyped
  <2>1. Buffer \in Nat
    BY PoolAssumption, FS_CardinalityType DEF Buffer
  <2> HIDE DEF Buffer
  <2> QED
    BY <2>1 DEF New, newHyperCacheBase, NewWorkerPool, PoolTyped
<1>2. NoSendOnClosed
  BY DEF New, newHyperCacheBase, NewWorkerPool, NoSendOnClosed, closed
<1>3. wg = InPool
  <2>1. Sending = {} /\ Busy = {} /\ Len(jobs) = 0 /\ wg = 0
    BY DEF New, newHyperCacheBase, NewWorkerPool, Sending, Busy
  <2> QED
    BY <2>1, FS_EmptySet DEF InPool
<1>4. CallsTyped
  <2>1. call = [p \in Procs |-> Idle]
    BY DEF New
  <2> QED
    BY <2>1, IdleTyped DEF CallsTyped, Good
<1>5. RunsJob
  <2>1. Idle.pc = "idle"
    BY DEF Idle
  <2> QED
    BY <2>1 DEF New, RunsJob, Procs
<1>6. StateTyped
  <2>1. config \in Config /\ config.alg \in Algorithms /\ config.shards \in Nat \ {0}
    BY CacheAssumption DEF New, Config
  <2>2. maxEvictionCount \in Nat
    BY <2>1, CacheAssumption DEF maxEvictionCount, Config
  <2>3. Sharded(ev)
    BY <2>1, <2>2, NewShardedTyped DEF New, initEvictionAlgorithm
  <2>4. loop \in [Loops -> {"select", "clear", "drain", "stopped"}]
    BY DEF New, startBackgroundJobs
  <2>5. /\ store \in [Keys -> Item \cup {NoItem}]
        /\ capacity \in Nat /\ alloc \in Int
    BY CacheAssumption DEF New, newHyperCacheBase
  <2>6. triggerCh \in 0..TriggerBuffer /\ orphans \subseteq Keys
    BY CacheAssumption DEF New, initExpirationTrigger
  <2>7. {evictCh, pending, recent, canceled, disturbed} = {FALSE}
    BY DEF New, newHyperCacheBase, initExpirationTrigger, startBackgroundJobs
  <2>8. /\ evictCh \in BOOLEAN /\ pending \in BOOLEAN /\ recent \in BOOLEAN
        /\ canceled \in BOOLEAN /\ disturbed \in BOOLEAN
    BY <2>7, Zenon
  <2> QED
    BY <2>1, <2>3, <2>4, <2>5, <2>6, <2>8 DEF StateTyped
<1> QED
  BY <1>1, <1>2, <1>3, <1>4, <1>5, <1>6 DEF CacheInv, PoolInv

LEMMA CacheStep == CacheInv /\ [Next]_vars => CacheInv'
<1> SUFFICES ASSUME CacheInv, [Next]_vars PROVE CacheInv'
  OBVIOUS
<1>1. CASE Next
  BY <1>1, PoolFrame, PoolStep, CallsStep, RunsJobStep, StateStep DEF CacheInv, PoolInv
<1>2. CASE UNCHANGED vars
  <2>1. UNCHANGED poolVars /\ PoolNext
    BY <1>2 DEF vars, PoolNext
  <2>2. PoolInv'
    BY <2>1, PoolStep DEF CacheInv
  <2>3. CallsTyped' /\ RunsJob'
    BY <1>2 DEF CacheInv, CallsTyped, RunsJob, vars, poolVars
  <2>4. UNCHANGED <<store, alloc, ev, orphans, disturbed, rest>>
    BY <1>2 DEF vars, rest, settings, signals, background, history
  <2>5. StateTyped'
    BY <2>4 DEF CacheInv, StateTyped, rest
  <2> QED
    BY <2>2, <2>3, <2>5 DEF CacheInv
<1> QED
  BY <1>1, <1>2

LEMMA CacheInvariant == Spec => []CacheInv
  BY CacheInit, CacheStep, PTL DEF Spec

(***************************************************************************)
(* The type of the state is kept by every step of any number of clients,   *)
(* workers and loops: among the rest, the error and the job channel never  *)
(* hold more than they can, and Remove never loses track of its keys.      *)
(***************************************************************************)
THEOREM TypeCorrect == Spec => []TypeOK
<1>1. CacheInv => TypeOK
  <2> SUFFICES ASSUME CacheInv PROVE TypeOK
    OBVIOUS
  <2>1. PoolTypeOK
    BY DEF CacheInv, PoolInv, PoolTyped, PoolTypeOK
  <2>2. Tracked(ev) \subseteq Keys
    BY TrackedKeys DEF CacheInv, StateTyped
  <2>3. \A p \in Procs : call[p].todo \subseteq Keys /\ call[p].keys \subseteq Keys
    BY CallFields DEF CacheInv
  <2> QED
    BY <2>1, <2>2, <2>3 DEF CacheInv, StateTyped, TypeOK
<1> QED
  BY <1>1, CacheInvariant, PTL

(***************************************************************************)
(* However Enqueue and Shutdown interleave, nobody is left about to send   *)
(* on the job channel after Shutdown has closed it.                        *)
(***************************************************************************)
THEOREM SendsBeforeClose == Spec => []NoSendOnClosed
<1>1. CacheInv => NoSendOnClosed
  BY DEF CacheInv, PoolInv
<1> QED
  BY <1>1, CacheInvariant, PTL

(***************************************************************************)
(* The pool, with the whole cache around it, implements JobPool: it takes  *)
(* no job once it is closed, and Shutdown returns only when every accepted *)
(* job has finished.  The wait group is exact (wg = InPool) and says so.   *)
(***************************************************************************)
THEOREM PoolRefines == Spec => ImplementsJobPool
<1>1. New => Promise!Init
  <2> SUFFICES ASSUME New PROVE Promise!Init
    OBVIOUS
  <2>1. CacheInv /\ wg = 0 /\ shutdown = "open"
    BY CacheInit DEF New, newHyperCacheBase, NewWorkerPool
  <2>2. Unfinished = 0
    BY <2>1, InPoolIs DEF CacheInv, PoolInv
  <2> QED
    BY <2>1, <2>2 DEF Promise!Init, closed
<1>2. CacheInv /\ [Next]_vars => [Promise!Next]_(Promise!poolVars)
  <2> SUFFICES ASSUME CacheInv, [Next]_vars
               PROVE  [Promise!Next]_(Promise!poolVars)
    OBVIOUS
  <2>1. PoolNext
    <3>1. CASE Next
      BY <3>1, PoolFrame DEF CacheInv
    <3>2. CASE UNCHANGED vars
      BY <3>2 DEF vars, PoolNext
    <3> QED
      BY <3>1, <3>2
  <2>2. Accepts \/ Finishes \/ Keeps \/ Shuts
    BY <2>1, PoolStep DEF CacheInv
  <2>3. Unfinished = InPool /\ Unfinished' = InPool'
    BY InPoolIs
  <2>4. CASE Accepts
    BY <2>3, <2>4 DEF Accepts, Promise!Next, Promise!Accept, closed
  <2>5. CASE Finishes
    BY <2>3, <2>5 DEF Finishes, Promise!Next, Promise!Finish, closed
  <2>6. CASE Keeps
    BY <2>3, <2>6 DEF Keeps, Promise!poolVars, closed
  <2>7. CASE Shuts
    BY <2>3, <2>7
    DEF Shuts, Promise!poolVars, Promise!Next, Promise!Close, Promise!Return, closed
  <2> QED
    BY <2>2, <2>4, <2>5, <2>6, <2>7
<1> QED
  BY <1>1, <1>2, CacheInvariant, PTL DEF Spec, ImplementsJobPool, Promise!Spec

-----------------------------------------------------------------------------
(***************************************************************************)
(* The expiration jobs.  What a job still has to remove was expired when   *)
(* it was listed: a live item among it has been written or touched since,  *)
(* and is in fresh.                                                        *)
(***************************************************************************)
Live(k) == Has(k) /\ ~store[k].expired

StaleOnly(w) ==
    call[w].op = "expire" =>
      /\ call[w].pc \in {"list", "next", "unlink", "delete"}
      /\ call[w].pc = "list" => call[w].keys = {}
      /\ \A k \in call[w].keys \cup call[w].listed : Live(k) => k \in call[w].fresh

StaleInv == \A w \in Workers : StaleOnly(w)

\* Only a write or a touch makes an item live, and both mark its key.
LEMMA LiveStep ==
    ASSUME StateTyped, CallsTyped, Next, NEW k \in Keys, Live(k)', ~Live(k)
    PROVE  \E c \in Clients : (StoreItem(c) \/ TouchItem(c)) /\ k = call[c].key
<1>1. store[k] \in Item \cup {NoItem}
  BY DEF StateTyped
<1>2. ASSUME UNCHANGED store PROVE FALSE
  BY <1>2 DEF Live, Has
<1>3. ASSUME NEW S, store' = Dropping(S) PROVE FALSE
  BY <1>3 DEF Live, Has, Dropping
<1>4. ASSUME NEW c \in Clients, ClientCall(c) PROVE FALSE
  BY <1>2, <1>4 DEF ClientCall, Set, GetOrSet, GetMultiple, RemoveKeys, Clear,
                    TriggerExpiration, TriggerEviction, SetCapacity
<1>5. ASSUME NEW c \in Clients, ClientStep(c)
      PROVE  (StoreItem(c) \/ TouchItem(c)) /\ k = call[c].key
  <2>1. CASE StoreItem(c) \/ TouchItem(c)
    <3>1. CASE k # call[c].key
      <4>1. store'[k] = store[k]
        BY <2>1, <3>1 DEF StoreItem, TouchItem, StateTyped
      <4> QED
        BY <4>1 DEF Live, Has
    <3> QED
      BY <2>1, <3>1
  <2>2. CASE ~(StoreItem(c) \/ TouchItem(c))
    <3>1. UNCHANGED store \/ store' = Dropping(Keys)
      BY <1>5, <2>2
      DEF ClientStep, Reserve, CheckSize, StoreInvalid, Track, CountCheck, ReadItem,
          TriggerSwap, TriggerSend, TriggerDebounced, ClearBackend, ClearForget,
          SetCapacityEvicts
    <3> QED
      BY <1>2, <1>3, <3>1
  <2> QED
    BY <2>1, <2>2
<1>6. ASSUME NEW p \in Procs, SharedStep(p) PROVE FALSE
  <2>1. UNCHANGED store \/ store' = Dropping(call[p].keys)
    BY <1>6 DEF SharedStep, EvictKey, Unlink, Delete, DeleteCanceled
  <2> QED
    BY <1>2, <1>3, <2>1
<1>7. ASSUME NEW w \in Workers, WorkerStep(w), ~SharedStep(w) PROVE FALSE
  BY <1>2, <1>7 DEF WorkerStep, StartJob, EvictionLoopTest, ExpirationList, ExpirationNext,
                    PoolOnly
<1>8. CASE \/ ExpirationTick \/ LoopStep \/ Stop
           \/ \E p \in Senders : PoolOnly(EnqueueSend(p))
           \/ PoolOnly(ShutdownClose) \/ PoolOnly(ShutdownReturns)
  BY <1>2, <1>8
  DEF PoolOnly, ExpirationTick, LoopStep, ExpirationTriggered, ExpirationClears,
      ExpirationDrains, EvictionTriggered, EvictionTick, DebounceEnds, LoopStops, Stop
<1>9. ASSUME NEW j \in Keys, DeleteLate(j) PROVE FALSE
  BY <1>3, <1>9 DEF DeleteLate
<1>10. ASSUME NEW j \in Expiring, Expires(j) PROVE FALSE
  <2>1. j \in Keys /\ store[j] \in Item
    BY <1>10, CacheAssumption DEF Expires, Has, StateTyped
  <2>2. CASE k = j
    <3>1. store'[k].expired = TRUE
      BY <1>10, <2>1, <2>2 DEF Expires, StateTyped, Item
    <3> QED
      BY <3>1 DEF Live
  <2>3. CASE k # j
    <3>1. store'[k] = store[k]
      BY <1>10, <2>3 DEF Expires, StateTyped
    <3> QED
      BY <3>1 DEF Live, Has
  <2> QED
    BY <2>2, <2>3
<1> QED
  BY <1>4, <1>5, <1>6, <1>7, <1>8, <1>9, <1>10 DEF Next, Procs

LEMMA FreshStep ==
    ASSUME StateTyped, CallsTyped, Next, NEW w \in Workers, call[w].op = "expire",
           NEW k \in Keys, Live(k) => k \in call[w].fresh,
           call[w].fresh \subseteq call'[w].fresh, Live(k)'
    PROVE  k \in call'[w].fresh
<1>1. CASE Live(k)
  BY <1>1
<1>2. CASE ~Live(k)
  <2>1. PICK c \in Clients : (StoreItem(c) \/ TouchItem(c)) /\ k = call[c].key
    BY <1>2, LiveStep
  <2>2. Marks(k)
    BY <2>1, StoreItemCalls, TouchItemCalls
  <2> QED
    BY <2>2 DEF Marks
<1> QED
  BY <1>1, <1>2

\* The job's own steps.
LEMMA StaleOwnStep ==
    ASSUME StateTyped, CallsTyped, PoolTyped, StaleInv, Next,
           NEW w \in Workers, WorkerStep(w)
    PROVE  StaleOnly(w)'
<1>0. w \in Procs /\ call[w] \in Locals /\ StaleOnly(w)
  BY CallFields DEF Procs, StaleInv
<1>1. \A r : call' = [call EXCEPT ![w] = r] => call'[w] = r
  BY <1>0 DEF CallsTyped, Good
<1>2. ASSUME call'[w].op # "expire" PROVE StaleOnly(w)'
  BY <1>2 DEF StaleOnly
<1>3. ASSUME return(w) PROVE StaleOnly(w)'
  <2>1. call'[w].op = "none"
    BY <1>1, <1>3 DEF return, Idle
  <2> QED
    BY <1>2, <2>1
<1>4. ASSUME call[w].op = "expire", call'[w].op = "expire",
             call'[w].pc \in {"next", "unlink", "delete"},
             call'[w].keys \cup call'[w].listed \subseteq call[w].keys \cup call[w].listed,
             call'[w].fresh = call[w].fresh
      PROVE  StaleOnly(w)'
  <2>1. call[w].keys \cup call[w].listed \subseteq Keys
    BY <1>0, CallFields
  <2>2. ASSUME NEW k \in call'[w].keys \cup call'[w].listed, Live(k)'
        PROVE  k \in call'[w].fresh
    <3>1. k \in Keys /\ (Live(k) => k \in call[w].fresh)
      BY <1>0, <1>4, <2>1 DEF StaleOnly
    <3> QED
      BY <1>4, <2>2, <3>1, FreshStep
  <2> QED
    BY <1>4, <2>2 DEF StaleOnly
<1>5. CASE StartJob(w)
  <2> DEFINE j == Head(jobs)
             pc == IF Head(jobs) = "evict" THEN "count" ELSE "list"
             r == [Idle EXCEPT !.op = j, !.pc = pc]
  <2>1. call'[w] = r
    BY <1>1, <1>5 DEF StartJob
  <2>2. j = "expire" => pc = "list"
    OBVIOUS
  <2> HIDE DEF j, pc
  <2>3. r.op = j /\ r.pc = pc /\ r.keys = {} /\ r.listed = {}
    BY DEF Idle
  <2> HIDE DEF r
  <2> QED
    BY <2>1, <2>2, <2>3 DEF StaleOnly
<1>6. CASE EvictionLoopTest(w)
  <2>1. call[w].op # "expire"
    BY <1>0, <1>6 DEF EvictionLoopTest, at, StaleOnly
  <2>2. CASE go(w, "evict")
    <3>1. call'[w].op = call[w].op
      BY <1>0, <2>2 DEF go, CallsTyped, Good, Locals
    <3> QED
      BY <1>2, <2>1, <3>1
  <2> QED
    BY <1>3, <1>6, <2>2 DEF EvictionLoopTest
<1>7. CASE ExpirationList(w)
  <2> DEFINE r == [call[w] EXCEPT !.listed = Expired, !.pc = "next"]
  <2>1. call[w].pc = "list" /\ call'[w] = r
    <3>1. call[w].pc = "list" /\ call' = [call EXCEPT ![w] = r]
      BY <1>7 DEF ExpirationList, at
    <3> HIDE DEF r
    <3> QED
      BY <1>1, <3>1
  <2>2. /\ r.op = call[w].op /\ r.listed = Expired /\ r.pc = "next"
        /\ r.keys = call[w].keys
    BY <1>0 DEF Locals
  <2> HIDE DEF r
  <2>3. \A k \in Expired : ~Live(k)'
    BY <1>7 DEF ExpirationList, Live, Expired
  <2> QED
    BY <1>0, <2>1, <2>2, <2>3 DEF StaleOnly
<1>8. CASE ExpirationNext(w)
  <2>1. CASE return(w)
    BY <1>3, <2>1
  <2>2. CASE ~return(w)
    <3>1. PICK k \in call[w].listed :
            call' = [call EXCEPT ![w].pc = "unlink", ![w].todo = {k}, ![w].keys = {k},
                                 ![w].listed = @ \ {k}]
      BY <1>8, <2>2 DEF ExpirationNext
    <3> DEFINE L == call[w].listed \ {k}
               ks == {k}
               r == [call[w] EXCEPT !.pc = "unlink", !.todo = ks, !.keys = ks, !.listed = L]
    <3>2. call'[w] = r /\ ks \cup L \subseteq call[w].listed
      <4>1. call' = [call EXCEPT ![w] = r]
        BY <3>1
      <4>2. ks \cup L \subseteq call[w].listed
        OBVIOUS
      <4> HIDE DEF r, ks, L
      <4> QED
        BY <1>1, <4>1, <4>2
    <3> HIDE DEF L, ks
    <3>3. /\ r.op = call[w].op /\ r.pc = "unlink" /\ r.keys = ks /\ r.listed = L
          /\ r.fresh = call[w].fresh
      BY <1>0 DEF Locals
    <3> HIDE DEF r
    <3>4. call'[w].op = "expire" => StaleOnly(w)'
      BY <1>4, <3>2, <3>3
    <3> QED
      BY <1>2, <3>4
  <2> QED
    BY <2>1, <2>2
<1>9. CASE EvictKey(w)
  <2>1. call[w].op # "expire"
    BY <1>0, <1>9 DEF EvictKey, at, StaleOnly
  <2>2. CASE ~return(w)
    <3>1. PICK key : call' = [call EXCEPT ![w].pc = "unlink", ![w].todo = {key},
                                          ![w].keys = {key}]
      BY <1>9, <2>2 DEF EvictKey
    <3>2. call'[w].op = call[w].op
      BY <1>0, <3>1 DEF CallsTyped, Good, Locals
    <3> QED
      BY <1>2, <2>1, <3>2
  <2> QED
    BY <1>3, <2>2
<1>10. CASE Unlink(w)
  <2>1. PICK k \in call[w].todo :
          call' = [call EXCEPT ![w].todo = @ \ {k},
                               ![w].pc = IF call[w].todo = {k} THEN "delete" ELSE @]
    BY <1>10 DEF Unlink
  <2> DEFINE pc == IF call[w].todo = {k} THEN "delete" ELSE call[w].pc
             T == call[w].todo \ {k}
             r == [call[w] EXCEPT !.todo = T, !.pc = pc]
  <2>2. call'[w] = r /\ pc \in {"unlink", "delete"}
    <3>1. call' = [call EXCEPT ![w] = r]
      BY <2>1
    <3>2. pc \in {"unlink", "delete"}
      BY <1>10 DEF Unlink, at
    <3> HIDE DEF r, pc
    <3> QED
      BY <1>1, <3>1, <3>2
  <2> HIDE DEF pc, T
  <2>3. /\ r.op = call[w].op /\ r.pc = pc /\ r.keys = call[w].keys
        /\ r.listed = call[w].listed /\ r.fresh = call[w].fresh
    BY <1>0 DEF Locals
  <2> HIDE DEF r
  <2>4. call'[w].op = "expire" => StaleOnly(w)'
    BY <1>4, <2>2, <2>3
  <2> QED
    BY <1>2, <2>4
<1>11. CASE Delete(w)
  <2>1. Continue(w)
    BY <1>11 DEF Delete
  <2>2. CASE call[w].op = "evict"
    <3>1. call'[w].op = "evict"
      BY <1>0, <2>1, <2>2 DEF Continue, CallsTyped, Good, Locals
    <3> QED
      BY <1>2, <3>1
  <2>3. CASE call[w].op = "expire"
    <3> DEFINE r == [call[w] EXCEPT !.pc = "next", !.keys = {}]
    <3>1. call'[w] = r
      BY <1>1, <2>1, <2>3 DEF Continue
    <3>2. /\ r.op = call[w].op /\ r.pc = "next" /\ r.keys = {}
          /\ r.listed = call[w].listed /\ r.fresh = call[w].fresh
      BY <1>0 DEF Locals
    <3> HIDE DEF r
    <3> QED
      BY <1>4, <2>3, <3>1, <3>2
  <2>4. CASE call[w].op \notin {"evict", "expire"}
    BY <1>3, <2>1, <2>4 DEF Continue
  <2> QED
    BY <2>2, <2>3, <2>4
<1>12. CASE DeleteCanceled(w)
  BY <1>3, <1>12 DEF DeleteCanceled
<1>13. CASE PoolOnly(WorkerLeaves(w)) \/ PoolOnly(ReportError(w))
  <2>1. UNCHANGED <<call, store>>
    BY <1>13 DEF PoolOnly
  <2> QED
    BY <1>0, <2>1 DEF StaleOnly, Live, Has
<1> QED
  BY <1>5, <1>6, <1>7, <1>8, <1>9, <1>10, <1>11, <1>12, <1>13 DEF WorkerStep, SharedStep

LEMMA StaleStep ==
    ASSUME StateTyped, CallsTyped, PoolTyped, StaleInv, Next
    PROVE  StaleInv'
<1>1. ASSUME NEW w \in Workers, SameCall(call[w], call'[w])
      PROVE  StaleOnly(w)'
  <2>0. w \in Procs /\ StaleOnly(w)
    BY DEF Procs, StaleInv
  <2>1. call[w].keys \cup call[w].listed \subseteq Keys
    BY <2>0, CallFields
  <2>2. ASSUME call[w].op = "expire", NEW k \in call[w].keys \cup call[w].listed, Live(k)'
        PROVE  k \in call'[w].fresh
    <3>1. k \in Keys /\ (Live(k) => k \in call[w].fresh)
      BY <2>0, <2>1, <2>2 DEF StaleOnly
    <3>2. call[w].fresh \subseteq call'[w].fresh
      BY <1>1 DEF SameCall
    <3> QED
      BY <2>2, <3>1, <3>2, FreshStep
  <2> QED
    BY <1>1, <2>0, <2>2 DEF StaleOnly, SameCall
<1>2. \A w \in Workers : w \in Procs /\ w \notin Clients
  BY CacheAssumption DEF Procs
<1>3. ASSUME NEW c \in Clients, ClientCall(c) \/ ClientStep(c) \/ SharedStep(c)
      PROVE  StaleInv'
  <2>1. c \in Procs
    BY DEF Procs
  <2>2. \A w \in Workers : SameCall(call[w], call'[w])
    BY <1>2, <1>3, <2>1, OthersStay
  <2> QED
    BY <1>1, <2>2 DEF StaleInv
<1>4. ASSUME NEW v \in Workers, WorkerStep(v)
      PROVE  StaleInv'
  <2>1. \A w \in Workers \ {v} : SameCall(call[w], call'[w])
    BY <1>2, <1>4, OthersStay
  <2>2. StaleOnly(v)'
    BY <1>4, StaleOwnStep
  <2> QED
    BY <1>1, <2>1, <2>2 DEF StaleInv
<1>5. CASE \/ \E p \in Senders : PoolOnly(EnqueueSend(p))
           \/ ExpirationTick \/ LoopStep
           \/ \E k \in Keys : DeleteLate(k)
           \/ \E k \in Expiring : Expires(k)
           \/ Stop \/ PoolOnly(ShutdownClose) \/ PoolOnly(ShutdownReturns)
  <2>1. UNCHANGED call
    BY <1>5 DEF PoolOnly, ExpirationTick, LoopStep, ExpirationTriggered, ExpirationClears,
                ExpirationDrains, EvictionTriggered, EvictionTick, DebounceEnds, LoopStops,
                DeleteLate, Expires, Stop
  <2>2. \A w \in Workers : SameCall(call[w], call'[w])
    BY <2>1 DEF SameCall
  <2> QED
    BY <1>1, <2>2 DEF StaleInv
<1> QED
  BY <1>3, <1>4, <1>5 DEF Next

(***************************************************************************)
(* The expiration job, whatever the clients do between its List and its    *)
(* Remove, deletes a live item only if a client wrote or touched it in     *)
(* between.                                                                *)
(***************************************************************************)
THEOREM ExpiryRemovesStale == Spec => ExpiryDeletesOnlyStale
<1>1. New => StaleInv
  <2>1. Idle.op = "none"
    BY DEF Idle
  <2> QED
    BY <2>1 DEF New, StaleInv, StaleOnly, Procs
<1>2. CacheInv /\ StaleInv /\ [Next]_vars => StaleInv'
  <2>1. ASSUME StaleInv, UNCHANGED vars PROVE StaleInv'
    BY <2>1 DEF StaleInv, StaleOnly, Live, Has, vars
  <2> QED
    BY <2>1, StaleStep DEF CacheInv, PoolInv
<1>3. StaleInv => \A w \in Workers : \A k \in call[w].keys :
                     /\ call[w].op = "expire" /\ at(w, "delete") /\ ~at(w, "delete")'
                     /\ Has(k) /\ ~store[k].expired
                     => k \in call[w].fresh
  BY DEF StaleInv, StaleOnly, Live
<1> QED
  BY <1>1, <1>2, <1>3, CacheInvariant, PTL DEF Spec, ExpiryDeletesOnlyStale

-----------------------------------------------------------------------------
(***************************************************************************)
(* The memory limit.  While operations follow one another at most one call *)
(* is under way, and the allocation covers the stored items: all of them   *)
(* and what the call has reserved, less what its Remove has already taken  *)
(* off.  An item is stored only when that fits.                            *)
(***************************************************************************)
sizes == [k \in Keys |-> store[k].size]
SumOf(sz) == SumFunctionOnSet(sz, Keys)

gone(l) == IF l.pc \in {"unlink", "delete"} THEN l.keys \ l.todo ELSE {}
kept(sz, l) == [k \in Keys |-> IF k \in gone(l) THEN 0 ELSE sz[k]]
owed(l) == IF l.pc \in {"check", "store"} THEN l.size ELSE 0
Cover(sz, l) == SumOf(kept(sz, l)) + owed(l)

Alone(p) == \A q \in Procs \ {p} : call[q].op = "none"

Sequential ==
    /\ orphans = {}
    /\ \A p, q \in Procs : call[p].op # "none" /\ call[q].op # "none" => p = q

Covered ==
    /\ \A p \in Procs : Alone(p) => Cover(sizes, call[p]) <= alloc
    /\ \A p \in Procs : call[p].pc = "forget" => SumOf(sizes) = 0

Limited ==
    /\ SumOf(sizes) <= config.maxSize
    /\ \A p \in Procs : call[p].pc = "store" => alloc <= config.maxSize

MemInv == ~disturbed => /\ Sequential /\ Covered
                        /\ config.maxSize > 0 => Limited

LEMMA TotalIs == Total = SumOf(sizes)
  BY Zenon DEF Total, SumFunction, SumFunctionOnSet, FoldFunction, SumOf, sizes

LEMMA SizesNat ==
    ASSUME StateTyped
    PROVE  sizes \in [Keys -> Nat]
  BY ItemTyped DEF StateTyped, sizes

LEMMA SumNat ==
    ASSUME NEW sz \in [Keys -> Nat]
    PROVE  SumOf(sz) \in Nat
  BY SumType, CacheAssumption DEF SumOf

LEMMA CoverNat ==
    ASSUME NEW sz \in [Keys -> Nat], NEW l \in Locals
    PROVE  /\ kept(sz, l) \in [Keys -> Nat] /\ SumOf(kept(sz, l)) \in Nat
           /\ owed(l) \in Nat /\ Cover(sz, l) \in Nat
<1>1. kept(sz, l) \in [Keys -> Nat]
  BY DEF kept
<1>2. owed(l) \in Nat
  BY DEF owed, Locals
<1>3. SumOf(kept(sz, l)) \in Nat
  BY <1>1, SumNat
<1> QED
  BY <1>1, <1>2, <1>3 DEF Cover

\* A call that has taken nothing off is covered when all items are.
LEMMA CoverPlain ==
    ASSUME NEW sz \in [Keys -> Nat], NEW l, gone(l) = {}
    PROVE  Cover(sz, l) = SumOf(sz) + owed(l)
<1>1. kept(sz, l) = sz
  BY DEF kept
<1> QED
  BY <1>1 DEF Cover

LEMMA IdleCovers ==
    ASSUME NEW l, Keyed(l), l.op = "none"
    PROVE  gone(l) = {} /\ owed(l) = 0 /\ l.pc = "idle"
  BY DEF Keyed, gone, owed

\* The one call under way is the one that moves.
LEMMA AloneMoves ==
    ASSUME MemInv, ~disturbed, NEW p \in Procs, call[p].op # "none"
    PROVE  Alone(p)
  BY DEF MemInv, Sequential, Alone

\* What the step of the one call under way has to ensure.
LEMMA MemStep ==
    ASSUME CacheInv, CacheInv', MemInv, ~disturbed, UNCHANGED <<config, orphans>>,
           NEW p \in Procs, Alone(p), \A q \in Procs \ {p} : SameCall(call[q], call'[q]),
           Cover(sizes', call'[p]) <= alloc',
           call'[p].pc = "forget" => SumOf(sizes') = 0,
           config.maxSize > 0 => /\ SumOf(sizes') <= config.maxSize
                                 /\ call'[p].pc = "store" => alloc' <= config.maxSize
    PROVE  MemInv'
<1>1. \A q \in Procs \ {p} : call'[q].op = "none"
  BY DEF Alone, SameCall
<1>2. \A q \in Procs : call'[q] \in Locals /\ Keyed(call'[q])
  BY DEF CacheInv, CallsTyped, Good
<1>3. \A q \in Procs \ {p} : /\ gone(call'[q]) = {} /\ owed(call'[q]) = 0
                             /\ call'[q].pc = "idle"
  BY <1>1, <1>2, IdleCovers
<1>4. sizes' \in [Keys -> Nat]
  <2>1. \A k \in Keys : store'[k] \in Item \cup {NoItem}
    BY DEF CacheInv, StateTyped
  <2> QED
    BY <2>1, ItemTyped DEF sizes
<1>5. Sequential'
  BY <1>1 DEF MemInv, Sequential
<1>6. ASSUME NEW q \in Procs, Alone(q)'
      PROVE  Cover(sizes', call'[q]) <= alloc'
  <2>1. CASE q = p
    BY <2>1
  <2>2. CASE q # p
    <3>1. call'[p].op = "none"
      BY <1>6, <2>2 DEF Alone
    <3>2. gone(call'[p]) = {} /\ owed(call'[p]) = 0
      BY <1>2, <3>1, IdleCovers
    <3>3. /\ Cover(sizes', call'[p]) = SumOf(sizes') + 0
          /\ Cover(sizes', call'[q]) = SumOf(sizes') + 0
      BY <1>3, <1>4, <2>2, <3>2, CoverPlain
    <3> QED
      BY <3>3
  <2> QED
    BY <2>1, <2>2
<1>7. Covered'
  BY <1>3, <1>6 DEF Covered
<1>8. config.maxSize > 0 => Limited'
  BY <1>3 DEF Limited
<1> QED
  BY <1>5, <1>7, <1>8 DEF MemInv

\* A step that neither stores nor reserves nor takes anything off.
LEMMA MemQuiet ==
    ASSUME CacheInv, CacheInv', MemInv, ~disturbed, UNCHANGED <<alloc, config, orphans>>,
           sizes' = sizes,
           NEW p \in Procs, Alone(p), \A q \in Procs \ {p} : SameCall(call[q], call'[q]),
           gone(call[p]) = {}, gone(call'[p]) = {},
           call'[p].pc \notin {"check", "store"},
           call'[p].pc = "forget" => call[p].pc = "forget"
    PROVE  MemInv'
<1>1. sizes \in [Keys -> Nat] /\ call[p] \in Locals
  BY SizesNat, CallFields DEF CacheInv
<1>2. Cover(sizes, call[p]) <= alloc
  BY DEF MemInv, Covered
<1>3. /\ Cover(sizes, call[p]) = SumOf(sizes) + owed(call[p])
      /\ owed(call[p]) \in Nat /\ SumOf(sizes) \in Nat /\ alloc \in Int
  BY <1>1, CoverPlain, CoverNat, SumNat DEF CacheInv, StateTyped
<1>4. Cover(sizes', call'[p]) = SumOf(sizes) + owed(call'[p]) /\ owed(call'[p]) = 0
  BY <1>1, CoverPlain DEF owed
<1>5. Cover(sizes', call'[p]) <= alloc'
  BY <1>2, <1>3, <1>4
<1>6. call'[p].pc = "forget" => SumOf(sizes') = 0
  BY DEF MemInv, Covered
<1>7. config.maxSize > 0 => SumOf(sizes') <= config.maxSize
  BY DEF MemInv, Limited
<1> QED
  BY <1>5, <1>6, <1>7, MemStep

\* Where the usual moves leave a call.
LEMMA MovePcs ==
    ASSUME CallsTyped, NEW p \in Procs
    PROVE  /\ \A pc : go(p, pc) => call'[p] = [call[p] EXCEPT !.pc = pc] /\ call'[p].pc = pc
           /\ return(p) => call'[p].pc = "idle" /\ gone(call'[p]) = {} /\ owed(call'[p]) = 0
           /\ call' = NextKey(call, p) => call'[p].pc \in {"idle", "get"}
<1>1. call \in [Procs -> Locals] /\ call[p] \in Locals
  BY DEF CallsTyped, Good
<1>2. \A pc : go(p, pc) => call'[p] = [call[p] EXCEPT !.pc = pc] /\ call'[p].pc = pc
  BY <1>1 DEF go, Locals
<1>3. Idle.pc = "idle"
  BY DEF Idle
<1>4. return(p) => call'[p].pc = "idle"
  BY <1>1, <1>3 DEF return
<1>5. call' = NextKey(call, p) => call'[p].pc \in {"idle", "get"}
  BY <1>1, <1>3 DEF NextKey, Locals
<1> QED
  BY <1>2, <1>4, <1>5 DEF gone, owed

\* A call begins: nothing else is under way, or the overlap is recorded.
LEMMA BeginAlone ==
    ASSUME NEW p \in Procs, Overlap(p), ~disturbed'
    PROVE  Alone(p) /\ ~disturbed
  BY DEF Overlap, Alone

LEMMA MemClientCall ==
    ASSUME CacheInv, CacheInv', MemInv, ~disturbed', NEW c \in Clients, ClientCall(c)
    PROVE  MemInv'
<1>0. c \in Procs /\ call \in [Procs -> Locals]
  BY DEF Procs, CacheInv, CallsTyped, Good
<1>1. Overlap(c) /\ call[c].pc = "idle" /\ UNCHANGED <<store, config, orphans>>
  BY DEF ClientCall, Set, GetOrSet, GetMultiple, RemoveKeys, Clear, TriggerExpiration,
         TriggerEviction, SetCapacity, Begin, at, settings
<1>2. Alone(c) /\ ~disturbed
  BY <1>0, <1>1, BeginAlone
<1>3. \A q \in Procs \ {c} : SameCall(call[q], call'[q])
  BY <1>0, OthersStay DEF CacheInv
<1>4. sizes' = sizes
  BY <1>1 DEF sizes
<1>5. gone(call[c]) = {}
  BY <1>1 DEF gone
<1>6. ASSUME alloc' = alloc, gone(call'[c]) = {},
             call'[c].pc \notin {"check", "store", "forget"}
      PROVE  MemInv'
  BY <1>0, <1>1, <1>2, <1>3, <1>4, <1>5, <1>6, MemQuiet
<1>7. ASSUME NEW k \in Keys, NEW sz \in Sizes, Set(c, k, sz)
      PROVE  MemInv'
  <2> DEFINE n == Count
             r == [Idle EXCEPT !.op = "set", !.pc = "check", !.key = k, !.size = sz,
                               !.before = n]
  <2>1. alloc' = alloc + sz /\ call'[c] = r
    BY <1>0, <1>7 DEF Set, Begin
  <2> HIDE DEF n
  <2>2. r.pc = "check" /\ r.size = sz
    BY DEF Idle
  <2> HIDE DEF r
  <2>3. sizes \in [Keys -> Nat]
    BY SizesNat DEF CacheInv
  <2>4. gone(r) = {} /\ owed(r) = sz
    BY <2>2 DEF gone, owed
  <2>5. Cover(sizes', call'[c]) = SumOf(sizes) + sz
    BY <1>4, <2>1, <2>3, <2>4, CoverPlain
  <2>6. Cover(sizes, call[c]) <= alloc /\ Cover(sizes, call[c]) = SumOf(sizes) + owed(call[c])
    BY <1>0, <1>2, <1>5, <2>3, CoverPlain DEF MemInv, Covered
  <2>7. owed(call[c]) = 0 /\ SumOf(sizes) \in Nat /\ alloc \in Int /\ sz \in Nat
    BY <1>1, <2>3, SumNat, CacheAssumption DEF owed, CacheInv, StateTyped
  <2>8. Cover(sizes', call'[c]) <= alloc'
    BY <2>1, <2>5, <2>6, <2>7
  <2>9. config.maxSize > 0 => SumOf(sizes') <= config.maxSize
    BY <1>2, <1>4 DEF MemInv, Limited
  <2> QED
    BY <1>0, <1>1, <1>2, <1>3, <2>1, <2>2, <2>8, <2>9, MemStep
<1>8. ASSUME NEW k \in Keys, NEW sz \in Sizes, GetOrSet(c, k, sz)
      PROVE  MemInv'
  <2> DEFINE n == Count
             pc == IF ~Has(k) THEN "reserve"
                   ELSE IF store[k].expired THEN "trigger" ELSE "touch"
             r == [Idle EXCEPT !.op = "getorset", !.key = k, !.size = sz, !.before = n,
                               !.pc = pc]
  <2>1. alloc' = alloc /\ call'[c] = r
    BY <1>0, <1>8 DEF GetOrSet, Begin
  <2>2. pc \in {"reserve", "trigger", "touch"}
    OBVIOUS
  <2> HIDE DEF n, pc
  <2>3. r.pc = pc
    BY DEF Idle
  <2> HIDE DEF r
  <2> QED
    BY <1>6, <2>1, <2>2, <2>3 DEF gone
<1>9. ASSUME NEW ks \in KeySets, GetMultiple(c, ks)
      PROVE  MemInv'
  <2>1. alloc' = alloc /\ call'[c] = [Idle EXCEPT !.op = "get", !.pc = "get", !.listed = ks]
    BY <1>0, <1>9 DEF GetMultiple, Begin
  <2>2. call'[c].pc = "get"
    BY <2>1 DEF Idle
  <2> QED
    BY <1>6, <2>1, <2>2 DEF gone
<1>10. ASSUME NEW ks \in KeySets, RemoveKeys(c, ks)
       PROVE  MemInv'
  <2>1. /\ alloc' = alloc
        /\ call'[c] = [Idle EXCEPT !.op = "remove", !.pc = "unlink", !.todo = ks, !.keys = ks]
    BY <1>0, <1>10 DEF RemoveKeys, Begin
  <2>2. call'[c].pc = "unlink" /\ call'[c].todo = ks /\ call'[c].keys = ks
    BY <2>1 DEF Idle
  <2> QED
    BY <1>6, <2>1, <2>2 DEF gone
<1>11. CASE Clear(c)
  <2> DEFINE ks == {k \in Keys : Has(k)}
  <2>1. /\ alloc' = alloc
        /\ call'[c] = [Idle EXCEPT !.op = "clear", !.pc = "clear", !.listed = ks]
    BY <1>0, <1>11 DEF Clear, Begin
  <2> HIDE DEF ks
  <2>2. call'[c].pc = "clear"
    BY <2>1 DEF Idle
  <2> QED
    BY <1>6, <2>1, <2>2 DEF gone
<1>12. CASE TriggerExpiration(c)
  <2>1. alloc' = alloc /\ call'[c] = [Idle EXCEPT !.op = "trigger", !.pc = "trigger"]
    BY <1>0, <1>12 DEF TriggerExpiration, Begin
  <2>2. call'[c].pc = "trigger"
    BY <2>1 DEF Idle
  <2> QED
    BY <1>6, <2>1, <2>2 DEF gone
<1>13. CASE TriggerEviction(c)
  <2>1. alloc' = alloc /\ call'[c] = Idle
    BY <1>0, <1>13 DEF TriggerEviction, Begin
  <2>2. call'[c].pc = "idle"
    BY <2>1 DEF Idle
  <2> QED
    BY <1>6, <2>1, <2>2 DEF gone
<1>14. ASSUME NEW n \in Capacities, SetCapacity(c, n)
       PROVE  MemInv'
  <2>1. alloc' = alloc /\ call'[c] = [Idle EXCEPT !.op = "setcap", !.pc = "shrink"]
    BY <1>0, <1>14 DEF SetCapacity, Begin
  <2>2. call'[c].pc = "shrink"
    BY <2>1 DEF Idle
  <2> QED
    BY <1>6, <2>1, <2>2 DEF gone
<1> QED
  BY <1>7, <1>8, <1>9, <1>10, <1>11, <1>12, <1>13, <1>14 DEF ClientCall

\* What a call under way can rely on.
LEMMA MemFacts ==
    ASSUME CacheInv, MemInv, ~disturbed, NEW p \in Procs, Alone(p)
    PROVE  /\ call[p] \in Locals /\ Keyed(call[p])
           /\ sizes \in [Keys -> Nat] /\ SumOf(sizes) \in Nat /\ alloc \in Int
           /\ owed(call[p]) \in Nat /\ config.maxSize \in Nat
           /\ SumOf(kept(sizes, call[p])) \in Nat
           /\ SumOf(kept(sizes, call[p])) + owed(call[p]) <= alloc
           /\ gone(call[p]) = {} => SumOf(sizes) + owed(call[p]) <= alloc
           /\ config.maxSize > 0 => SumOf(sizes) <= config.maxSize
<1>1. /\ call[p] \in Locals /\ Keyed(call[p])
      /\ sizes \in [Keys -> Nat] /\ SumOf(sizes) \in Nat /\ alloc \in Int
  BY CallFields, SizesNat, SumNat DEF CacheInv, StateTyped
<1>2. owed(call[p]) \in Nat /\ SumOf(kept(sizes, call[p])) \in Nat
  BY <1>1, CoverNat
<1>3. config.maxSize \in Nat
  BY DEF CacheInv, StateTyped, Config
<1>4. Cover(sizes, call[p]) <= alloc
  BY DEF MemInv, Covered
<1>5. gone(call[p]) = {} => Cover(sizes, call[p]) = SumOf(sizes) + owed(call[p])
  BY <1>1, CoverPlain
<1>6. config.maxSize > 0 => SumOf(sizes) <= config.maxSize
  BY DEF MemInv, Limited
<1> QED
  BY <1>1, <1>2, <1>3, <1>4, <1>5, <1>6 DEF Cover

LEMMA MemClientStep ==
    ASSUME CacheInv, CacheInv', MemInv, ~disturbed, ~disturbed',
           NEW c \in Clients, ClientStep(c), ~at(c, "idle")
    PROVE  MemInv'
<1>0. c \in Procs /\ CallsTyped /\ call \in [Procs -> Locals]
  BY DEF Procs, CacheInv, CallsTyped, Good
<1>1. Alone(c)
  <2>1. call[c].op # "none"
    BY <1>0, CallFields DEF at, Keyed
  <2> QED
    BY <1>0, <2>1, AloneMoves
<1>2. \A q \in Procs \ {c} : SameCall(call[q], call'[q])
  BY <1>0, OthersStay
<1>3. /\ call[c] \in Locals /\ Keyed(call[c])
      /\ sizes \in [Keys -> Nat] /\ SumOf(sizes) \in Nat /\ alloc \in Int
      /\ owed(call[c]) \in Nat /\ config.maxSize \in Nat
      /\ gone(call[c]) = {} => SumOf(sizes) + owed(call[c]) <= alloc
      /\ config.maxSize > 0 => SumOf(sizes) <= config.maxSize
  BY <1>0, <1>1, MemFacts
<1>4. ASSUME UNCHANGED <<alloc, config, orphans>>, sizes' = sizes,
             call[c].pc \notin {"unlink", "delete"},
             call'[c].pc \notin {"unlink", "delete", "check", "store"},
             call'[c].pc = "forget" => call[c].pc = "forget"
      PROVE  MemInv'
  <2>1. gone(call[c]) = {} /\ gone(call'[c]) = {}
    BY <1>4 DEF gone
  <2> QED
    BY <1>0, <1>1, <1>2, <1>4, <2>1, MemQuiet
<1>5. CASE Reserve(c)
  <2>1. call[c].pc = "reserve" /\ alloc' = alloc + call[c].size /\ UNCHANGED <<config, orphans>>
    BY <1>5 DEF Reserve, at, settings
  <2>2. call'[c].pc = "check" /\ call'[c].size = call[c].size
    BY <1>0, <1>3, <1>5, MovePcs DEF Reserve, Locals
  <2>3. sizes' = sizes
    BY <1>5 DEF Reserve, sizes
  <2>4. gone(call[c]) = {} /\ owed(call[c]) = 0 /\ gone(call'[c]) = {}
        /\ owed(call'[c]) = call[c].size
    BY <2>1, <2>2 DEF gone, owed
  <2>5. Cover(sizes', call'[c]) = SumOf(sizes) + call[c].size
    BY <1>3, <2>3, <2>4, CoverPlain
  <2>6. call[c].size \in Nat
    BY <1>3 DEF Locals
  <2>7. Cover(sizes', call'[c]) <= alloc'
    BY <1>3, <2>1, <2>4, <2>5, <2>6
  <2> QED
    BY <1>0, <1>1, <1>2, <1>3, <2>1, <2>2, <2>3, <2>7, MemStep
<1>6. CASE CheckSize(c)
  <2>1. call[c].pc = "check" /\ UNCHANGED <<config, orphans>>
    BY <1>6 DEF CheckSize, at, settings
  <2>2. sizes' = sizes
    BY <1>6 DEF CheckSize, sizes
  <2>3. gone(call[c]) = {} /\ owed(call[c]) = call[c].size /\ call[c].size \in Nat
    BY <1>3, <2>1 DEF gone, owed, Locals
  <2>4. CASE config.maxSize > 0 /\ alloc > config.maxSize
    <3>1. alloc' = alloc - call[c].size /\ return(c)
      BY <1>6, <2>4 DEF CheckSize
    <3>2. call'[c].pc = "idle" /\ gone(call'[c]) = {} /\ owed(call'[c]) = 0
      BY <1>0, <3>1, MovePcs
    <3>3. Cover(sizes', call'[c]) = SumOf(sizes) + 0
      BY <1>3, <2>2, <3>2, CoverPlain
    <3>4. Cover(sizes', call'[c]) <= alloc'
      BY <1>3, <2>3, <3>1, <3>3
    <3> QED
      BY <1>0, <1>1, <1>2, <1>3, <2>1, <2>2, <3>2, <3>4, MemStep
  <2>5. CASE ~(config.maxSize > 0 /\ alloc > config.maxSize)
    <3>1. alloc' = alloc /\ go(c, "store")
      BY <1>6, <2>5 DEF CheckSize
    <3>2. call'[c].pc = "store" /\ call'[c].size = call[c].size
      BY <1>0, <1>3, <3>1, MovePcs DEF Locals
    <3>3. gone(call'[c]) = {} /\ owed(call'[c]) = call[c].size
      BY <3>2 DEF gone, owed
    <3>4. Cover(sizes', call'[c]) = SumOf(sizes) + call[c].size
      BY <1>3, <2>2, <3>3, CoverPlain
    <3>5. Cover(sizes', call'[c]) <= alloc'
      BY <1>3, <2>3, <3>1, <3>4
    <3>6. config.maxSize > 0 => alloc' <= config.maxSize
      BY <1>3, <2>5, <3>1
    <3> QED
      BY <1>0, <1>1, <1>2, <1>3, <2>1, <2>2, <3>2, <3>5, <3>6, MemStep
  <2> QED
    BY <2>4, <2>5
<1>7. CASE StoreItem(c)
  <2> DEFINE k == call[c].key
             sz == call[c].size
  <2>1. call[c].pc = "store" /\ UNCHANGED <<alloc, config, orphans>>
    BY <1>7 DEF StoreItem, at, settings
  <2>2. k \in Keys /\ sz \in Nat
    BY <1>3, <2>1 DEF Keyed, Locals
  <2>3. sizes' = [sizes EXCEPT ![k] = sz]
    <3>1. \A j \in Keys : store'[j].size = IF j = k THEN sz ELSE store[j].size
      BY <1>7, <2>2 DEF StoreItem, CacheInv, StateTyped
    <3> QED
      BY <2>2, <3>1 DEF sizes
  <2>4. gone(call[c]) = {} /\ owed(call[c]) = sz
    BY <2>1 DEF gone, owed
  <2> HIDE DEF k, sz
  <2>5. sizes' \in [Keys -> Nat] /\ sizes'[k] = sz /\ sizes[k] \in Nat
        /\ \A j \in Keys \ {k} : sizes[j] = sizes'[j]
    BY <1>3, <2>2, <2>3
  <2>6. SumOf(sizes') = SumOf(sizes) - sizes[k] + sizes'[k]
    <3>1. \A j \in Keys : sizes[j] \in Int /\ sizes'[j] \in Int
      BY <1>3, <2>5
    <3> QED
      BY <2>2, <2>5, <3>1, SumUpdate, CacheAssumption DEF SumOf
  <2>7. SumOf(sizes') \in Nat
    BY <2>5, SumNat
  <2>8. SumOf(sizes') <= alloc
    BY <1>3, <2>2, <2>4, <2>5, <2>6, <2>7
  <2>9. call'[c].pc = "track"
    BY <1>0, <1>7, StoreItemCalls
  <2>10. gone(call'[c]) = {} /\ owed(call'[c]) = 0
    BY <2>9 DEF gone, owed
  <2>11. Cover(sizes', call'[c]) = SumOf(sizes') + 0
    BY <2>5, <2>10, CoverPlain
  <2>12. Cover(sizes', call'[c]) <= alloc'
    BY <2>1, <2>7, <2>8, <2>11
  <2>13. config.maxSize > 0 => SumOf(sizes') <= config.maxSize
    <3>1. config.maxSize > 0 => alloc <= config.maxSize
      BY <1>0, <2>1 DEF MemInv, Limited
    <3> QED
      BY <1>3, <2>7, <2>8, <3>1
  <2> QED
    BY <1>0, <1>1, <1>2, <2>1, <2>9, <2>12, <2>13, MemStep
<1>8. CASE TouchItem(c)
  <2>1. call[c].pc = "touch" /\ UNCHANGED <<alloc, config, orphans>>
    BY <1>8 DEF TouchItem, at, settings
  <2>2. call[c].key \in Keys
    BY <1>3, <2>1 DEF Keyed
  <2>3. \A j \in Keys : store'[j].size = store[j].size
    <3>1. \A j \in Keys \ {call[c].key} : store'[j] = store[j]
      BY <1>8, <2>2 DEF TouchItem, CacheInv, StateTyped
    <3>2. \A i \in Item \cup {NoItem} : [i EXCEPT !.expired = FALSE].size = i.size
      BY NothingTouched DEF Item
    <3>3. store'[call[c].key] = [store[call[c].key] EXCEPT !.expired = FALSE]
      BY <1>8, <2>2 DEF TouchItem, CacheInv, StateTyped
    <3>4. store[call[c].key] \in Item \cup {NoItem}
      BY <2>2 DEF CacheInv, StateTyped
    <3> QED
      BY <3>1, <3>2, <3>3, <3>4
  <2>4. sizes' = sizes
    BY <2>3 DEF sizes
  <2>5. call'[c].pc \in {"idle", "get"}
    BY <1>0, <1>8, TouchItemCalls
  <2> QED
    BY <1>4, <2>1, <2>4, <2>5
<1>9. CASE ClearBackend(c)
  <2>1. /\ store' = Dropping(Keys) /\ go(c, "forget") /\ UNCHANGED <<alloc, config, orphans>>
        /\ call[c].pc = "clear"
    BY <1>9 DEF ClearBackend, at, settings
  <2>2. call'[c].pc = "forget"
    BY <1>0, <2>1, MovePcs
  <2>3. sizes' \in [Keys -> Nat] /\ \A k \in Keys : sizes'[k] = 0
    BY <2>1 DEF Dropping, sizes, NoItem
  <2>4. SumOf(sizes') = 0
    BY <2>3, SumType, CacheAssumption DEF SumOf
  <2>5. gone(call'[c]) = {} /\ owed(call'[c]) = 0 /\ gone(call[c]) = {}
    BY <2>1, <2>2 DEF gone, owed
  <2>6. Cover(sizes', call'[c]) = 0 + 0
    BY <2>3, <2>4, <2>5, CoverPlain
  <2>7. Cover(sizes', call'[c]) <= alloc'
    BY <1>3, <2>1, <2>5, <2>6
  <2>8. config.maxSize > 0 => SumOf(sizes') <= config.maxSize
    BY <1>3, <2>4
  <2> QED
    BY <1>0, <1>1, <1>2, <2>1, <2>2, <2>4, <2>7, <2>8, MemStep
<1>10. CASE ClearForget(c)
  <2>1. call[c].pc = "forget" /\ UNCHANGED <<config, orphans>>
    BY <1>10 DEF ClearForget, at, settings
  <2>2. sizes' = sizes
    BY <1>10 DEF ClearForget, sizes
  <2>3. CASE return(c)
    <3>1. call'[c].pc = "idle" /\ gone(call'[c]) = {} /\ owed(call'[c]) = 0
      BY <1>0, <2>3, MovePcs
    <3>2. SumOf(sizes) = 0
      BY <1>0, <2>1 DEF MemInv, Covered
    <3>3. alloc' = 0 \/ alloc' = alloc
      BY <1>10 DEF ClearForget
    <3>4. Cover(sizes', call'[c]) = 0 + 0
      BY <1>3, <2>2, <3>1, <3>2, CoverPlain
    <3>5. gone(call[c]) = {}
      BY <2>1 DEF gone
    <3>6. Cover(sizes', call'[c]) <= alloc'
      BY <1>3, <3>2, <3>3, <3>4, <3>5
    <3> QED
      BY <1>0, <1>1, <1>2, <1>3, <2>1, <2>2, <3>1, <3>6, MemStep
  <2>4. CASE ~return(c)
    <3>1. alloc' = alloc /\ call'[c].pc = call[c].pc
      BY <1>0, <1>3, <1>10, <2>4 DEF ClearForget, Locals
    <3> QED
      BY <1>4, <2>1, <2>2, <3>1
  <2> QED
    BY <2>3, <2>4
<1>11. CASE \/ StoreInvalid(c) \/ Track(c) \/ CountCheck(c) \/ TriggerSwap(c) \/ TriggerSend(c)
            \/ TriggerDebounced(c) \/ SetCapacityEvicts(c)
  <2>1. UNCHANGED <<store, alloc, config, orphans>>
    BY <1>11 DEF StoreInvalid, Track, CountCheck, TriggerSwap, TriggerSend, TriggerDebounced,
                 SetCapacityEvicts, settings
  <2>2. call[c].pc \in {"store", "track", "count", "trigger", "signal", "shrink"}
    BY <1>11 DEF StoreInvalid, Track, CountCheck, TriggerSwap, TriggerSend, TriggerDebounced,
                 SetCapacityEvicts, at
  <2>3. \/ return(c) \/ call' = NextKey(call, c)
        \/ \E pc \in {"count", "evict", "signal"} : go(c, pc)
    BY <1>11 DEF StoreInvalid, Track, CountCheck, TriggerSwap, TriggerSend, TriggerDebounced,
                 SetCapacityEvicts, go
  <2>4. call'[c].pc \in {"idle", "get", "count", "evict", "signal"}
    BY <1>0, <2>3, MovePcs
  <2>5. sizes' = sizes
    BY <2>1 DEF sizes
  <2> QED
    BY <1>4, <2>1, <2>2, <2>4, <2>5
<1>12. CASE ReadItem(c)
  <2>1. call[c].pc = "get" /\ UNCHANGED <<store, alloc, config, orphans>>
    BY <1>12 DEF ReadItem, at, settings
  <2>2. call'[c].pc \in {"idle", "get", "trigger", "touch"}
    <3>1. CASE return(c)
      BY <1>0, <3>1, MovePcs
    <3>2. CASE ~return(c)
      <4>1. PICK k \in call[c].listed :
              call' = [call EXCEPT ![c].listed = @ \ {k}, ![c].key = k,
                         ![c].pc = IF ~Has(k) THEN "get"
                                   ELSE IF store[k].expired THEN "trigger" ELSE "touch"]
        BY <1>12, <3>2 DEF ReadItem
      <4> DEFINE pc == IF ~Has(k) THEN "get"
                       ELSE IF store[k].expired THEN "trigger" ELSE "touch"
      <4>2. call'[c].pc = pc
        BY <1>0, <1>3, <4>1 DEF Locals
      <4> QED
        BY <4>2
    <3> QED
      BY <3>1, <3>2
  <2>3. sizes' = sizes
    BY <2>1 DEF sizes
  <2> QED
    BY <1>4, <2>1, <2>2, <2>3
<1> QED
  BY <1>5, <1>6, <1>7, <1>8, <1>9, <1>10, <1>11, <1>12 DEF ClientStep

LEMMA MemSharedStep ==
    ASSUME CacheInv, CacheInv', MemInv, ~disturbed, ~disturbed',
           NEW p \in Procs, SharedStep(p)
    PROVE  MemInv'
<1>0. CallsTyped /\ call \in [Procs -> Locals]
  BY DEF CacheInv, CallsTyped, Good
<1>1. Alone(p)
  <2>1. call[p].pc # "idle"
    BY DEF SharedStep, EvictKey, Unlink, Delete, DeleteCanceled, at
  <2>2. call[p].op # "none"
    BY <1>0, <2>1, CallFields DEF Keyed
  <2> QED
    BY <2>2, AloneMoves
<1>2. \A q \in Procs \ {p} : SameCall(call[q], call'[q])
  BY <1>0, OthersStay
<1>3. /\ call[p] \in Locals /\ Keyed(call[p])
      /\ sizes \in [Keys -> Nat] /\ SumOf(sizes) \in Nat /\ alloc \in Int
      /\ owed(call[p]) \in Nat /\ config.maxSize \in Nat
      /\ SumOf(kept(sizes, call[p])) \in Nat
      /\ SumOf(kept(sizes, call[p])) + owed(call[p]) <= alloc
      /\ config.maxSize > 0 => SumOf(sizes) <= config.maxSize
  BY <1>1, MemFacts
<1>4. CASE EvictKey(p)
  <2>1. call[p].pc = "evict" /\ UNCHANGED <<store, alloc, config, orphans>>
    BY <1>4 DEF EvictKey, at, settings
  <2>2. sizes' = sizes /\ gone(call[p]) = {}
    BY <2>1 DEF sizes, gone
  <2>3. gone(call'[p]) = {} /\ call'[p].pc \in {"idle", "unlink"}
    <3>1. CASE return(p)
      BY <1>0, <3>1, MovePcs
    <3>2. CASE ~return(p)
      <4> DEFINE ks == {shardedEvict(ev).key}
      <4>1. call' = [call EXCEPT ![p].pc = "unlink", ![p].todo = ks, ![p].keys = ks]
        BY <1>4, <3>2 DEF EvictKey
      <4> HIDE DEF ks
      <4>2. call'[p].pc = "unlink" /\ call'[p].todo = ks /\ call'[p].keys = ks
        BY <1>0, <1>3, <4>1 DEF Locals
      <4> QED
        BY <4>2 DEF gone
    <3> QED
      BY <3>1, <3>2
  <2> QED
    BY <1>1, <1>2, <2>1, <2>2, <2>3, MemQuiet
<1>5. CASE Unlink(p)
  <2>1. call[p].pc = "unlink" /\ UNCHANGED <<store, config, orphans>>
    BY <1>5 DEF Unlink, at, settings
  <2>2. PICK k \in call[p].todo :
          /\ alloc' = alloc - store[k].size
          /\ call' = [call EXCEPT ![p].todo = @ \ {k},
                                  ![p].pc = IF call[p].todo = {k} THEN "delete" ELSE @]
    BY <1>5 DEF Unlink
  <2> DEFINE pc == IF call[p].todo = {k} THEN "delete" ELSE call[p].pc
             T == call[p].todo \ {k}
             r == [call[p] EXCEPT !.todo = T, !.pc = pc]
  <2>3. call' = [call EXCEPT ![p] = r]
    BY <2>2
  <2>4. pc \in {"unlink", "delete"}
    BY <2>1
  <2> HIDE DEF pc, T
  <2>5. r.pc = pc /\ r.todo = T /\ r.keys = call[p].keys
    BY <1>3 DEF Locals
  <2> HIDE DEF r
  <2>6. call'[p] = r
    BY <1>0, <2>3
  <2>7. k \in Keys /\ k \in call[p].keys /\ call[p].todo \subseteq call[p].keys
    BY <1>0, <1>3, <2>1, CallFields DEF Keyed
  <2>8. gone(call[p]) = call[p].keys \ call[p].todo
    BY <2>1 DEF gone
  <2>9. gone(r) = gone(call[p]) \cup {k} /\ k \notin gone(call[p])
    BY <2>2, <2>4, <2>5, <2>7, <2>8 DEF gone, T
  <2>10. owed(r) = 0 /\ owed(call[p]) = 0
    BY <2>1, <2>4, <2>5 DEF owed
  <2> DEFINE f == kept(sizes, call[p])
             g == kept(sizes, r)
  <2>11. /\ f \in [Keys -> Nat] /\ g \in [Keys -> Nat]
         /\ f[k] = store[k].size /\ g[k] = 0
         /\ \A j \in Keys \ {k} : f[j] = g[j]
    BY <1>3, <2>7, <2>9 DEF kept, sizes
  <2> HIDE DEF f, g
  <2>12. SumOf(g) = SumOf(f) - f[k] + g[k]
    <3>1. \A j \in Keys : f[j] \in Int /\ g[j] \in Int
      BY <2>11
    <3> QED
      BY <2>7, <2>11, <3>1, SumUpdate, CacheAssumption DEF SumOf
  <2>13. sizes' = sizes
    BY <2>1 DEF sizes
  <2>14. Cover(sizes', call'[p]) = SumOf(g) + 0
    BY <2>6, <2>10, <2>13 DEF Cover, g
  <2>15. SumOf(f) \in Nat /\ SumOf(f) <= alloc /\ SumOf(g) \in Nat
    <3>1. SumOf(f) \in Nat /\ SumOf(f) + owed(call[p]) <= alloc
      BY <1>3 DEF f
    <3> QED
      BY <1>3, <2>10, <2>11, <3>1, SumNat
  <2>16. Cover(sizes', call'[p]) <= alloc'
    BY <1>3, <2>2, <2>11, <2>12, <2>14, <2>15
  <2>17. call'[p].pc \in {"unlink", "delete"}
    BY <2>4, <2>5, <2>6
  <2> QED
    BY <1>1, <1>2, <1>3, <2>1, <2>13, <2>16, <2>17, MemStep
<1>6. CASE Delete(p)
  <2>1. /\ call[p].pc = "delete" /\ store' = Dropping(call[p].keys) /\ Continue(p)
        /\ UNCHANGED <<alloc, config, orphans>>
    BY <1>6 DEF Delete, at, settings
  <2>2. call'[p].pc \in {"idle", "count", "next"}
    <3>1. CASE call[p].op = "evict"
      BY <1>0, <1>3, <2>1, <3>1 DEF Continue, Locals
    <3>2. CASE call[p].op = "expire"
      BY <1>0, <1>3, <2>1, <3>2 DEF Continue, Locals
    <3>3. CASE call[p].op \notin {"evict", "expire"}
      BY <1>0, <2>1, <3>3, MovePcs DEF Continue
    <3> QED
      BY <3>1, <3>2, <3>3
  <2>3. gone(call'[p]) = {} /\ owed(call'[p]) = 0
    BY <2>2 DEF gone, owed
  <2> DEFINE f == kept(sizes, call[p])
             g == sizes'
  <2>4. /\ f \in [Keys -> Nat] /\ g \in [Keys -> Nat]
        /\ \A k \in Keys : g[k] <= f[k] /\ g[k] <= sizes[k]
    <3>1. \A k \in Keys : g[k] = IF k \in call[p].keys THEN 0 ELSE sizes[k]
      BY <2>1 DEF Dropping, sizes, NoItem
    <3>2. gone(call[p]) \subseteq call[p].keys
      BY <2>1 DEF gone
    <3>3. \A k \in Keys : f[k] = IF k \in gone(call[p]) THEN 0 ELSE sizes[k]
      BY DEF kept
    <3>4. \A k \in Keys : sizes[k] \in Nat
      BY <1>3
    <3>5. f = [k \in Keys |-> f[k]] /\ g = [k \in Keys |-> g[k]]
      BY DEF kept, sizes
    <3> HIDE DEF f, g
    <3>6. \A k \in Keys : f[k] \in Nat /\ g[k] \in Nat /\ g[k] <= f[k] /\ g[k] <= sizes[k]
      BY <3>1, <3>2, <3>3, <3>4
    <3> QED
      BY <3>5, <3>6
  <2> HIDE DEF f, g
  <2>5. SumOf(g) <= SumOf(f) /\ SumOf(g) <= SumOf(sizes)
    <3>1. \A k \in Keys : f[k] \in Int /\ g[k] \in Int /\ sizes[k] \in Int
      BY <1>3, <2>4
    <3> QED
      BY <2>4, <3>1, SumMonotone, CacheAssumption DEF SumOf
  <2>6. SumOf(g) \in Nat
    BY <2>4, SumNat
  <2>7. Cover(sizes', call'[p]) = SumOf(g) + 0
    BY <2>3, <2>4, CoverPlain DEF g
  <2>8. SumOf(f) + owed(call[p]) <= alloc /\ SumOf(f) \in Nat
    BY <1>3 DEF f
  <2>9. Cover(sizes', call'[p]) <= alloc'
    BY <1>3, <2>1, <2>5, <2>6, <2>7, <2>8
  <2>10. config.maxSize > 0 => SumOf(g) <= config.maxSize
    BY <1>3, <2>5, <2>6
  <2> QED
    BY <1>1, <1>2, <2>1, <2>2, <2>9, <2>10, MemStep DEF g
<1>7. CASE DeleteCanceled(p)
  BY <1>7 DEF DeleteCanceled
<1> QED
  BY <1>4, <1>5, <1>6, <1>7 DEF SharedStep

LEMMA MemWorkerStep ==
    ASSUME CacheInv, CacheInv', MemInv, ~disturbed', NEW w \in Workers, WorkerStep(w)
    PROVE  MemInv'
<1>0. w \in Procs /\ CallsTyped /\ call \in [Procs -> Locals] /\ call[w] \in Locals
  BY DEF Procs, CacheInv, CallsTyped, Good
<1>1. \A q \in Procs \ {w} : SameCall(call[q], call'[q])
  BY <1>0, OthersStay
<1>2. ASSUME Alone(w), ~disturbed, UNCHANGED <<store, alloc, config, orphans>>,
             call[w].pc \notin {"unlink", "delete"},
             call'[w].pc \in {"idle", "count", "list", "evict", "next"}
      PROVE  MemInv'
  <2>1. gone(call[w]) = {} /\ gone(call'[w]) = {} /\ sizes' = sizes
    BY <1>2 DEF gone, sizes
  <2> QED
    BY <1>0, <1>1, <1>2, <2>1, MemQuiet
<1>3. ASSUME ~disturbed, call[w].pc # "idle"
      PROVE  Alone(w)
  <2>1. call[w].op # "none"
    BY <1>0, <1>3, CallFields DEF Keyed
  <2> QED
    BY <1>0, <1>3, <2>1, AloneMoves
<1>4. CASE StartJob(w)
  <2>1. Overlap(w) /\ UNCHANGED <<store, alloc, config, orphans>>
    BY <1>4 DEF StartJob, settings
  <2>2. Alone(w) /\ ~disturbed
    BY <1>0, <2>1, BeginAlone
  <2>3. call'[w].pc \in {"count", "list"}
    <3> DEFINE j == Head(jobs)
               pc == IF Head(jobs) = "evict" THEN "count" ELSE "list"
    <3>1. call'[w] = [Idle EXCEPT !.op = j, !.pc = pc]
      BY <1>0, <1>4 DEF StartJob
    <3>2. pc \in {"count", "list"}
      OBVIOUS
    <3> HIDE DEF j, pc
    <3> QED
      BY <3>1, <3>2 DEF Idle
  <2>4. worker[w] = "idle"
    BY <1>4 DEF StartJob, WorkerTakes
  <2>5. call[w].pc = "idle"
    BY <2>4 DEF CacheInv, RunsJob
  <2> QED
    BY <1>2, <2>1, <2>2, <2>3, <2>5
<1>5. CASE EvictionLoopTest(w) \/ ExpirationList(w)
  <2>1. /\ UNCHANGED <<store, alloc, config, orphans, disturbed>>
        /\ call[w].pc \in {"count", "list"}
    BY <1>5 DEF EvictionLoopTest, ExpirationList, at, settings, history
  <2>2. CASE return(w) \/ go(w, "evict")
    BY <1>0, <1>2, <1>3, <2>1, <2>2, MovePcs
  <2>3. CASE ExpirationList(w)
    <3> DEFINE L == Expired
    <3>1. call' = [call EXCEPT ![w].listed = L, ![w].pc = "next"]
      BY <2>3 DEF ExpirationList
    <3> HIDE DEF L
    <3>2. call'[w].pc = "next"
      BY <1>0, <3>1 DEF Locals
    <3> QED
      BY <1>2, <1>3, <2>1, <3>2
  <2> QED
    BY <1>5, <2>2, <2>3 DEF EvictionLoopTest
<1>6. CASE ExpirationNext(w)
  <2>1. UNCHANGED <<store, alloc, config, orphans, disturbed>> /\ call[w].pc = "next"
    BY <1>6 DEF ExpirationNext, at, settings, history
  <2>2. CASE return(w)
    BY <1>0, <1>2, <1>3, <2>1, <2>2, MovePcs
  <2>3. CASE ~return(w)
    <3>1. PICK k \in call[w].listed :
            call' = [call EXCEPT ![w].pc = "unlink", ![w].todo = {k}, ![w].keys = {k},
                                 ![w].listed = @ \ {k}]
      BY <1>6, <2>3 DEF ExpirationNext
    <3> DEFINE ks == {k}
               L == call[w].listed \ {k}
    <3>2. call' = [call EXCEPT ![w].pc = "unlink", ![w].todo = ks, ![w].keys = ks,
                               ![w].listed = L]
      BY <3>1
    <3> HIDE DEF ks, L
    <3>3. call'[w].pc = "unlink" /\ call'[w].todo = ks /\ call'[w].keys = ks
      BY <1>0, <3>2 DEF Locals
    <3>4. gone(call'[w]) = {} /\ gone(call[w]) = {} /\ sizes' = sizes
      BY <2>1, <3>3 DEF gone, sizes
    <3> QED
      BY <1>0, <1>1, <1>3, <2>1, <3>3, <3>4, MemQuiet
  <2> QED
    BY <2>2, <2>3
<1>7. CASE PoolOnly(WorkerLeaves(w)) \/ PoolOnly(ReportError(w))
  <2>1. UNCHANGED <<store, alloc, config, orphans, disturbed, call>>
    BY <1>7 DEF PoolOnly, settings, history
  <2> QED
    BY <2>1 DEF MemInv, Sequential, Covered, Limited, Alone, sizes
<1>8. CASE SharedStep(w)
  <2>1. ~disturbed
    BY <1>8 DEF SharedStep, EvictKey, Unlink, Delete, DeleteCanceled, history
  <2> QED
    BY <1>0, <1>8, <2>1, MemSharedStep
<1> QED
  BY <1>4, <1>5, <1>6, <1>7, <1>8 DEF WorkerStep

LEMMA MemNext ==
    ASSUME CacheInv, CacheInv', MemInv, [Next]_vars
    PROVE  MemInv'
<1> SUFFICES ASSUME ~disturbed' PROVE MemInv'
  BY DEF MemInv
<1>1. ASSUME UNCHANGED <<alloc, config, orphans, disturbed, call>>, sizes' = sizes
      PROVE  MemInv'
  BY <1>1 DEF MemInv, Sequential, Covered, Limited, Alone
<1>2. CASE UNCHANGED vars
  BY <1>1, <1>2 DEF vars, sizes, settings, history
<1>3. ASSUME NEW c \in Clients, ClientStep(c) \/ SharedStep(c)
      PROVE  MemInv'
  <2>1. ~disturbed
    <3>1. CASE ClientStep(c)
      BY <3>1 DEF ClientStep, Reserve, CheckSize, StoreItem, StoreInvalid, Track, CountCheck,
                  ReadItem, TouchItem, TriggerSwap, TriggerSend, TriggerDebounced,
                  ClearBackend, ClearForget, SetCapacityEvicts, history
    <3>2. CASE SharedStep(c)
      BY <3>2 DEF SharedStep, EvictKey, Unlink, Delete, DeleteCanceled, history
    <3> QED
      BY <1>3, <3>1, <3>2
  <2>2. ClientStep(c) => ~at(c, "idle")
    BY DEF ClientStep, Reserve, CheckSize, StoreItem, StoreInvalid, Track, CountCheck,
           ReadItem, TouchItem, TriggerSwap, TriggerSend, TriggerDebounced,
           ClearBackend, ClearForget, SetCapacityEvicts, at
  <2> QED
    BY <1>3, <2>1, <2>2, MemClientStep, MemSharedStep DEF Procs
<1>4. CASE \/ \E p \in Senders : PoolOnly(EnqueueSend(p))
           \/ ExpirationTick \/ LoopStep
           \/ Stop \/ PoolOnly(ShutdownClose) \/ PoolOnly(ShutdownReturns)
  <2>1. UNCHANGED <<store, alloc, config, orphans, disturbed, call>>
    BY <1>4 DEF PoolOnly, ExpirationTick, LoopStep, ExpirationTriggered, ExpirationClears,
                ExpirationDrains, EvictionTriggered, EvictionTick, DebounceEnds, LoopStops,
                Stop, settings, history
  <2>2. sizes' = sizes
    BY <2>1 DEF sizes
  <2> QED
    BY <1>1, <2>1, <2>2
<1>5. ASSUME NEW k \in Keys, DeleteLate(k) PROVE MemInv'
  <2>1. orphans # {} /\ ~disturbed
    BY <1>5 DEF DeleteLate, history
  <2> QED
    BY <2>1 DEF MemInv, Sequential
<1>6. ASSUME NEW k \in Expiring, Expires(k) PROVE MemInv'
  <2>1. UNCHANGED <<alloc, config, orphans, disturbed, call>> /\ store[k] \in Item /\ k \in Keys
    BY <1>6, CacheAssumption DEF Expires, Has, settings, history, CacheInv, StateTyped
  <2>2. \A j \in Keys : store'[j].size = store[j].size
    BY <1>6, <2>1 DEF Expires, CacheInv, StateTyped, Item
  <2>3. sizes' = sizes
    BY <2>2 DEF sizes
  <2> QED
    BY <1>1, <2>1, <2>3
<1> QED
  BY <1>2, <1>3, <1>4, <1>5, <1>6, MemClientCall, MemWorkerStep DEF Next

LEMMA MemInit == New => MemInv
<1> SUFFICES ASSUME New PROVE MemInv
  OBVIOUS
<1>1. CacheInv
  BY CacheInit
<1>2. \A p \in Procs : call[p].pc = "idle" /\ call[p].op = "none"
  <2>1. Idle.pc = "idle" /\ Idle.op = "none"
    BY DEF Idle
  <2> QED
    BY <2>1 DEF New
<1>3. sizes \in [Keys -> Nat] /\ \A k \in Keys : sizes[k] = 0
  BY DEF New, newHyperCacheBase, sizes, NoItem
<1>4. SumOf(sizes) = 0
  BY <1>3, SumType, CacheAssumption DEF SumOf
<1>5. \A p \in Procs : gone(call[p]) = {} /\ owed(call[p]) = 0
  BY <1>2 DEF gone, owed
<1>6. \A p \in Procs : Cover(sizes, call[p]) = 0 + 0
  BY <1>3, <1>4, <1>5, CoverPlain
<1>7. alloc = 0 /\ orphans = {}
  BY DEF New, newHyperCacheBase
<1>8. Covered
  BY <1>4, <1>6, <1>7 DEF Covered
<1>9. config.maxSize > 0 => Limited
  BY <1>2, <1>4, <1>1 DEF Limited, CacheInv, StateTyped, Config
<1> QED
  BY <1>2, <1>7, <1>8, <1>9 DEF MemInv, Sequential

LEMMA MemInvariant == Spec => []MemInv
<1>1. CacheInv /\ CacheInv' /\ MemInv /\ [Next]_vars => MemInv'
  BY MemNext
<1> QED
  BY <1>1, MemInit, CacheInvariant, PTL DEF Spec

(***************************************************************************)
(* As long as calls and jobs follow one another, the items in the backend  *)
(* never exceed WithMaxCacheSize, for any number of keys and any sizes.    *)
(***************************************************************************)
THEOREM MemoryBounded == Spec => []MemoryLimit
<1>1. MemInv => MemoryLimit
  BY TotalIs DEF MemInv, Limited, MemoryLimit
<1> QED
  BY <1>1, MemInvariant, PTL

-----------------------------------------------------------------------------
(***************************************************************************)
(* What LRU and CAWOLFU evict.  The algorithm is the one configured, and   *)
(* the list of every shard has the keys in the order they were last set.   *)
(***************************************************************************)
OrderInv ==
    /\ written \in Seq(Keys)
    /\ ev.name = config.alg
    /\ AgeOrder(written, ev)

\* The steps that reach the algorithm: a Set, a Delete, an Evict.
Sets == \E k \in Keys : ev' = shardedSet(ev, k) /\ written' = Newest(written, k)
Deletes == \E k \in Keys : ev' = shardedDelete(ev, k) /\ UNCHANGED written
Evicts == ev' = shardedEvict(ev).st /\ UNCHANGED written

\* No other step changes the algorithm, or the order of the keys.
LEMMA AlgorithmSteps ==
    ASSUME StateTyped, CallsTyped, Next
    PROVE  /\ UNCHANGED config
           /\ UNCHANGED <<ev, written>> \/ Sets \/ Deletes \/ Evicts
<1>1. ASSUME NEW c \in Clients, ClientCall(c)
      PROVE  UNCHANGED <<config, ev, written>>
  BY <1>1 DEF ClientCall, Set, GetOrSet, GetMultiple, RemoveKeys, Clear, TriggerExpiration,
              TriggerEviction, SetCapacity, Begin, settings
<1>2. ASSUME NEW c \in Clients, ClientStep(c)
      PROVE  UNCHANGED config /\ (UNCHANGED <<ev, written>> \/ Sets \/ Deletes)
  <2>0. c \in Procs
    BY DEF Procs
  <2>1. CASE Track(c)
    <3>1. call[c].key \in Keys
      BY <2>0, <2>1, CallFields DEF Track, at, Keyed
    <3> QED
      BY <2>1, <3>1 DEF Track, Sets, Newest, settings
  <2>2. CASE ClearForget(c)
    <3>1. call[c].listed \in SUBSET Keys
      BY <2>0, CallFields
    <3> QED
      BY <2>2, <3>1 DEF ClearForget, Deletes, settings, history
  <2>3. CASE ~Track(c) /\ ~ClearForget(c)
    BY <1>2, <2>3 DEF ClientStep, Reserve, CheckSize, StoreItem, StoreInvalid, CountCheck,
                ReadItem, TouchItem, TriggerSwap, TriggerSend, TriggerDebounced,
                ClearBackend, SetCapacityEvicts, settings, history
  <2> QED
    BY <2>1, <2>2, <2>3
<1>3. ASSUME NEW p \in Procs, SharedStep(p)
      PROVE  UNCHANGED config /\ (UNCHANGED <<ev, written>> \/ Deletes \/ Evicts)
  <2>1. CASE EvictKey(p)
    BY <2>1 DEF EvictKey, Evicts, settings, history
  <2>2. CASE Unlink(p)
    <3>1. call[p].todo \in SUBSET Keys
      BY CallFields
    <3> QED
      BY <2>2, <3>1 DEF Unlink, Deletes, settings, history
  <2>3. CASE Delete(p) \/ DeleteCanceled(p)
    BY <2>3 DEF Delete, DeleteCanceled, settings, history
  <2> QED
    BY <1>3, <2>1, <2>2, <2>3 DEF SharedStep
<1>4. ASSUME NEW w \in Workers, WorkerStep(w), ~SharedStep(w)
      PROVE  UNCHANGED <<config, ev, written>>
  BY <1>4 DEF WorkerStep, StartJob, EvictionLoopTest, ExpirationList, ExpirationNext,
              PoolOnly, settings, history
<1>5. CASE \/ \E p \in Senders : PoolOnly(EnqueueSend(p))
           \/ ExpirationTick \/ LoopStep
           \/ \E k \in Keys : DeleteLate(k)
           \/ \E k \in Expiring : Expires(k)
           \/ Stop \/ PoolOnly(ShutdownClose) \/ PoolOnly(ShutdownReturns)
  BY <1>5 DEF PoolOnly, ExpirationTick, LoopStep, ExpirationTriggered, ExpirationClears,
              ExpirationDrains, EvictionTriggered, EvictionTick, DebounceEnds, LoopStops,
              DeleteLate, Expires, Stop, settings, history
<1> HIDE DEF Sets, Deletes, Evicts
<1> QED
  BY <1>1, <1>2, <1>3, <1>4, <1>5 DEF Next, Procs

\* Set, Delete and Evict keep the order of every list.
LEMMA OrderStep ==
    ASSUME StateTyped, CallsTyped, OrderInv, Next
    PROVE  OrderInv'
<1>1. UNCHANGED config /\ Sharded(ev) /\ Keys # {}
  BY AlgorithmSteps, CacheAssumption DEF StateTyped
<1>2. CASE UNCHANGED <<ev, written>>
  BY <1>1, <1>2 DEF OrderInv
<1>3. CASE Sets
  <2>1. PICK k \in Keys : ev' = shardedSet(ev, k) /\ written' = Newest(written, k)
    BY <1>3 DEF Sets
  <2>2. Newest(written, k) \in Seq(Keys)
    BY NewestOrder DEF OrderInv
  <2> QED
    BY <1>1, <2>1, <2>2, ShardedOrder DEF OrderInv
<1>4. CASE Deletes
  BY <1>1, <1>4, ShardedOrder DEF OrderInv, Deletes
<1>5. CASE Evicts
  BY <1>1, <1>5, ShardedEvictOrder DEF OrderInv, Evicts
<1> QED
  BY <1>2, <1>3, <1>4, <1>5, AlgorithmSteps

\* A call at the point where it evicts gets its key from Evict.
LEMMA EvictedKeys ==
    ASSUME StateTyped, CallsTyped, PoolTyped, RunsJob, Next,
           NEW p \in Procs, at(p, "evict"), NEW k \in call'[p].keys
    PROVE  shardedEvict(ev).ok /\ k = shardedEvict(ev).key
<1>0. call[p].pc = "evict" /\ call[p].keys = {} /\ call[p] \in Locals
  BY CallFields DEF at, Keyed
<1>1. call'[p].keys # call[p].keys
  BY <1>0
<1>2. ASSUME EvictKey(p)
      PROVE  shardedEvict(ev).ok /\ k = shardedEvict(ev).key
  <2>0. call \in [Procs -> Locals]
    BY DEF CallsTyped, Good
  <2>1. CASE shardedEvict(ev).ok
    <3> DEFINE K == {shardedEvict(ev).key}
    <3>1. call' = [call EXCEPT ![p].pc = "unlink", ![p].todo = K, ![p].keys = K]
      BY <1>2, <2>1 DEF EvictKey
    <3> HIDE DEF K
    <3>2. call'[p].keys = K
      BY <2>0, <3>1 DEF Locals
    <3> QED
      BY <2>1, <3>2 DEF K
  <2>2. CASE ~shardedEvict(ev).ok
    <3>1. call'[p] = Idle
      BY <1>2, <2>0, <2>2 DEF EvictKey, return
    <3> QED
      BY <1>0, <1>1, <3>1 DEF Idle
  <2> QED
    BY <2>1, <2>2
<1>3. ASSUME NEW q \in Procs,
             (q \in Clients /\ (ClientCall(q) \/ ClientStep(q))) \/ SharedStep(q)
               \/ (q \in Workers /\ WorkerStep(q))
      PROVE  EvictKey(p)
  <2>1. q = p
    BY <1>1, <1>3, OthersStay DEF SameCall
  <2>2. ~(p \in Clients /\ ClientCall(p))
    BY <1>0 DEF ClientCall, Set, GetOrSet, GetMultiple, RemoveKeys, Clear,
                TriggerExpiration, TriggerEviction, SetCapacity, Begin, at
  <2>3. ~(p \in Clients /\ ClientStep(p))
    BY <1>0 DEF ClientStep, Reserve, CheckSize, StoreItem, StoreInvalid, Track, CountCheck,
                ReadItem, TouchItem, TriggerSwap, TriggerSend, TriggerDebounced,
                ClearBackend, ClearForget, SetCapacityEvicts, at
  <2>4. SharedStep(p) => EvictKey(p)
    BY <1>0 DEF SharedStep, Unlink, Delete, DeleteCanceled, at
  <2>5. p \in Workers /\ WorkerStep(p) => SharedStep(p)
    BY <1>0, <1>1 DEF WorkerStep, StartJob, WorkerTakes, EvictionLoopTest, ExpirationList,
                ExpirationNext, PoolOnly, RunsJob, at
  <2> QED
    BY <1>3, <2>1, <2>2, <2>3, <2>4, <2>5
<1>4. ~UNCHANGED call
  BY <1>1
<1>5. CASE \/ \E s \in Senders : PoolOnly(EnqueueSend(s))
           \/ ExpirationTick \/ LoopStep
           \/ \E o \in Keys : DeleteLate(o)
           \/ \E o \in Expiring : Expires(o)
           \/ Stop \/ PoolOnly(ShutdownClose) \/ PoolOnly(ShutdownReturns)
  BY <1>4, <1>5 DEF PoolOnly, ExpirationTick, LoopStep, ExpirationTriggered, ExpirationClears,
              ExpirationDrains, EvictionTriggered, EvictionTick, DebounceEnds, LoopStops,
              DeleteLate, Expires, Stop
<1> QED
  BY <1>2, <1>3, <1>5 DEF Next, Procs

LEMMA OrderInvariant == Spec => []OrderInv
<1>1. New => OrderInv
  <2> SUFFICES ASSUME New PROVE OrderInv
    OBVIOUS
  <2>1. ev = NewSharded(config.alg, maxEvictionCount, config.shards) /\ written = <<>>
    BY DEF New, initEvictionAlgorithm
  <2> QED
    BY <2>1, NewShardedOrder DEF OrderInv
<1>2. CacheInv /\ OrderInv /\ [Next]_vars => OrderInv'
  <2>1. ASSUME OrderInv, UNCHANGED vars PROVE OrderInv'
    BY <2>1 DEF OrderInv, vars, settings, history
  <2> QED
    BY <2>1, OrderStep DEF CacheInv
<1> QED
  BY <1>1, <1>2, CacheInvariant, PTL DEF Spec

(***************************************************************************)
(* LRU and CAWOLFU, with any number of shards and whatever clients and     *)
(* jobs do at the same time, evict the key that was set longest ago of     *)
(* those its shard still tracks.                                           *)
(***************************************************************************)
THEOREM EvictionTakesOldest == Spec => EvictsOldestTracked
<1> DEFINE Oldest ==
      \A p \in Procs : \A k \in call'[p].keys :
        /\ at(p, "evict") /\ config.alg \in {"lru", "cawolfu"}
        => \A o \in Tracked(ev) \ {k} : shardFor(ev, o) = shardFor(ev, k) => Before(k, o)
<1>1. CacheInv /\ OrderInv /\ [Next]_vars => [Oldest]_vars
  <2> SUFFICES ASSUME CacheInv, OrderInv, Next,
                      NEW p \in Procs, NEW k \in call'[p].keys, at(p, "evict"),
                      config.alg \in {"lru", "cawolfu"},
                      NEW o \in Tracked(ev), o # k, shardFor(ev, o) = shardFor(ev, k)
               PROVE  Before(k, o)
    OBVIOUS
  <2>1. shardedEvict(ev).ok /\ k = shardedEvict(ev).key
    BY EvictedKeys DEF CacheInv, PoolInv
  <2>2. Sharded(ev) /\ AgeOrder(written, ev) /\ ev.name \in ByAge /\ Keys # {}
    BY CacheAssumption DEF CacheInv, StateTyped, OrderInv, ByAge
  <2>3. Precedes(written, k, o)
    BY <2>1, <2>2, EvictsOldest
  <2> QED
    BY <2>3 DEF Precedes, Before
<1> HIDE DEF Oldest
<1>2. [][Oldest]_vars => EvictsOldestTracked
  BY DEF Oldest, EvictsOldestTracked
<1> QED
  BY <1>1, <1>2, CacheInvariant, OrderInvariant, PTL DEF Spec

-----------------------------------------------------------------------------
(***************************************************************************)
(* The capacity.  While operations follow one another the algorithm tracks *)
(* only keys that are stored, so that what it evicts makes room.  This is  *)
(* true between any two steps of the one call under way: a Remove has      *)
(* taken its keys out of the algorithm before it deletes them, and a Clear *)
(* that has emptied the map still has the tracked keys to forget.  An      *)
(* insertion finds before items, adds at most one, and when it comes to    *)
(* evict has a key that is tracked, hence a victim.  The clock is left     *)
(* out, as in the property: it may find no victim.                         *)
(***************************************************************************)
Stored == {k \in Keys : Has(k)}

Inserting(l) == l.op \in {"set", "getorset"}
BeforeStore == {"reserve", "check", "store", "trigger", "signal", "touch"}
AfterStore == {"track", "count", "evict", "unlink", "delete"}

\* An insertion with S stored, T tracked and shards of capacity cap.
InsertOK(l, S, T, cap) ==
    /\ l.listed = {} /\ l.pc \in BeforeStore \cup AfterStore
    /\ l.pc \in BeforeStore => Cardinality(S) = l.before
    /\ l.pc \in AfterStore => Cardinality(S) <= l.before + 1
    /\ l.pc \in {"count", "evict"} /\ cap > 0 => T # {}
    /\ l.pc \in {"unlink", "delete"} => \E k \in S : l.keys = {k}

CapOK(l, S, T, cap) ==
    /\ l.pc = "forget" => T \subseteq l.listed
    /\ l.pc # "forget" => T \subseteq S
    /\ l.pc = "clear" => S \subseteq l.listed
    /\ l.pc = "track" => l.key \in S
    /\ l.pc = "delete" => l.todo = {}
    /\ gone(l) \cap T = {}
    /\ Inserting(l) => InsertOK(l, S, T, cap)

Sound == \A p \in Procs : Alone(p) => CapOK(call[p], Stored, Tracked(ev), ev.cap)

RoomInv ==
    /\ AllTrack(ev)
    /\ ~disturbed /\ config.alg # "clock" => Sound

-----------------------------------------------------------------------------
\* m is the call l, gone on to pc.
MovedTo(l, m, pc) ==
    /\ m.pc = pc /\ m.op = l.op /\ m.key = l.key /\ m.before = l.before
    /\ m.listed = l.listed /\ m.todo = l.todo /\ m.keys = l.keys

LEMMA GoMoves ==
    ASSUME CallsTyped, NEW p \in Procs, NEW pc, go(p, pc)
    PROVE  MovedTo(call[p], call'[p], pc)
<1>1. call \in [Procs -> Locals] /\ call[p] \in Locals
  BY DEF CallsTyped, Good
<1>2. call'[p] = [call[p] EXCEPT !.pc = pc]
  BY <1>1 DEF go
<1> QED
  BY <1>1, <1>2 DEF MovedTo, Locals

LEMMA StoreMoves ==
    ASSUME CallsTyped, NEW p \in Procs, StoreItem(p)
    PROVE  MovedTo(call[p], call'[p], "track")
<1>1. call \in [Procs -> Locals] /\ call[p] \in Locals
  BY DEF CallsTyped, Good
<1> DEFINE f == [call EXCEPT ![p].pc = "track"]
<1>2. f[p] = [call[p] EXCEPT !.pc = "track"]
  BY <1>1
<1>3. \/ call'[p] = f[p]
      \/ \E F : call'[p] = [f[p] EXCEPT !.fresh = F]
  BY DEF StoreItem, Refreshed
<1> HIDE DEF f
<1>4. MovedTo(call[p], f[p], "track") /\ DOMAIN f[p] = DOMAIN call[p]
  BY <1>1, <1>2 DEF MovedTo, Locals
<1>5. DOMAIN call[p] = {"op", "pc", "key", "size", "todo", "keys", "listed", "fresh",
                        "n", "before"}
  BY <1>1 DEF Locals
<1>6. ASSUME NEW F, call'[p] = [f[p] EXCEPT !.fresh = F]
      PROVE  MovedTo(call[p], call'[p], "track")
  BY <1>4, <1>5, <1>6 DEF MovedTo
<1> QED
  BY <1>3, <1>4, <1>6

\* After its last key a call returns; a reader goes on, and is no insertion.
LEMMA NextKeyMoves ==
    ASSUME CallsTyped, NEW p \in Procs, call' = NextKey(call, p)
    PROVE  \/ call'[p] = Idle
           \/ call[p].listed # {} /\ call'[p].pc = "get" /\ call'[p].op = call[p].op
<1>1. call \in [Procs -> Locals] /\ call[p] \in Locals
  BY DEF CallsTyped, Good
<1> QED
  BY <1>1 DEF NextKey, Locals

LEMMA TouchMoves ==
    ASSUME CallsTyped, NEW p \in Procs, TouchItem(p)
    PROVE  \/ call'[p] = Idle
           \/ call[p].listed # {} /\ call'[p].pc = "get" /\ call'[p].op = call[p].op
<1>1. call \in [Procs -> Locals] /\ call[p] \in Locals
  BY DEF CallsTyped, Good
<1> DEFINE f == Refreshed(call, call[p].key)
<1>2. /\ call' = NextKey(f, p) /\ f = [q \in Procs |-> f[q]]
      /\ \/ f[p] = call[p]
         \/ \E F : f[p] = [call[p] EXCEPT !.fresh = F]
  BY DEF TouchItem, Refreshed
<1> HIDE DEF f
<1>3. f[p].listed = call[p].listed /\ f[p].op = call[p].op /\ f[p].pc = call[p].pc
      /\ f[p] = [x \in DOMAIN call[p] |-> f[p][x]]
  BY <1>1, <1>2 DEF Locals
<1>4. [f[p] EXCEPT !.pc = "get"].pc = "get" /\ [f[p] EXCEPT !.pc = "get"].op = f[p].op
  BY <1>1, <1>2 DEF Locals
<1>5. call'[p] = IF f[p].listed = {} THEN Idle ELSE [f[p] EXCEPT !.pc = "get"]
  BY <1>2 DEF NextKey
<1> QED
  BY <1>3, <1>4, <1>5

LEMMA ReturnIdle ==
    ASSUME CallsTyped, NEW p \in Procs, return(p)
    PROVE  call'[p] = Idle
BY DEF CallsTyped, Good, return

\* A call that neither inserts nor removes asks that tracked keys be stored.
LEMMA CapPlain ==
    ASSUME NEW l, NEW S, NEW T, NEW cap, T \subseteq S, ~Inserting(l),
           l.pc \notin {"forget", "clear", "track", "unlink", "delete"}
    PROVE  CapOK(l, S, T, cap)
BY DEF CapOK, gone

LEMMA IdlePlain == ~Inserting(Idle) /\ Idle.pc = "idle" /\ Idle.op = "none"
BY DEF Inserting, Idle

LEMMA CapIdle ==
    ASSUME NEW S, NEW T, NEW cap, T \subseteq S
    PROVE  CapOK(Idle, S, T, cap)
BY IdlePlain, CapPlain

\* A call goes on to its next step, and nothing is stored or tracked.
LEMMA CapMoves ==
    ASSUME NEW l, NEW m, NEW S, NEW T, NEW cap, NEW pc, CapOK(l, S, T, cap), MovedTo(l, m, pc),
           \/ l.pc \in BeforeStore /\ pc \in BeforeStore
           \/ l.pc = "count" /\ pc = "evict"
    PROVE  CapOK(m, S, T, cap)
<1>1. /\ l.pc \notin {"forget", "clear", "track", "unlink", "delete"}
      /\ m.pc \notin {"forget", "clear", "track", "unlink", "delete"}
  BY DEF MovedTo, BeforeStore
<1>2. T \subseteq S
  BY <1>1 DEF CapOK
<1>3. CASE ~Inserting(m)
  BY <1>1, <1>2, <1>3, CapPlain
<1>4. CASE Inserting(m)
  <2>1. InsertOK(l, S, T, cap)
    BY <1>4 DEF CapOK, Inserting, MovedTo
  <2>2. InsertOK(m, S, T, cap)
    BY <2>1 DEF InsertOK, MovedTo, BeforeStore, AfterStore
  <2> QED
    BY <1>1, <1>2, <2>2 DEF CapOK, gone
<1> QED
  BY <1>3, <1>4

-----------------------------------------------------------------------------
\* What the step of the one call under way has to ensure.
LEMMA CapStep ==
    ASSUME CacheInv', MemInv, NEW p \in Procs, Alone(p),
           \A q \in Procs \ {p} : SameCall(call[q], call'[q]),
           CapOK(call'[p], Stored', Tracked(ev'), ev'.cap)
    PROVE  Sound'
<1>1. \A q \in Procs \ {p} : call'[q].op = "none"
  BY DEF Alone, SameCall
<1>2. \A q \in Procs : call'[q] \in Locals /\ Keyed(call'[q])
  BY DEF CacheInv, CallsTyped, Good
<1>3. ASSUME NEW q \in Procs, Alone(q)'
      PROVE  CapOK(call'[q], Stored', Tracked(ev'), ev'.cap)
  <2>1. CASE q = p
    BY <2>1
  <2>2. CASE q # p
    <3>1. call'[p].op = "none" /\ call'[q].op = "none"
      BY <1>1, <1>3, <2>2 DEF Alone
    <3>2. call'[p].pc = "idle" /\ call'[q].pc = "idle"
      BY <1>2, <3>1 DEF Keyed
    <3>3. Tracked(ev') \subseteq Stored'
      BY <3>2 DEF CapOK
    <3> QED
      BY <3>1, <3>2, <3>3, CapPlain DEF Inserting
  <2> QED
    BY <2>1, <2>2
<1> QED
  BY <1>3 DEF Sound

\* The algorithms that keep a list are all but the clock.
LEMMA ListsNotClock ==
    ASSUME StateTyped, OrderInv, config.alg # "clock"
    PROVE  ev.name \in ByList /\ Sharded(ev) /\ Keys # {}
BY CacheAssumption DEF StateTyped, OrderInv, Config, Algorithms, ByList

\* Every step keeps the lists free of duplicates, each of its own shard.
LEMMA TrackStep ==
    ASSUME StateTyped, CallsTyped, OrderInv, AllTrack(ev), Next
    PROVE  AllTrack(ev')
<1>1. UNCHANGED config /\ OrderInv'
  BY AlgorithmSteps, OrderStep
<1>2. CASE config.alg = "clock"
  BY <1>1, <1>2 DEF OrderInv, AllTrack, ByList
<1>3. CASE config.alg # "clock"
  <2>1. ev.name \in ByList /\ Sharded(ev) /\ Keys # {}
    BY <1>3, ListsNotClock
  <2>2. CASE UNCHANGED <<ev, written>>
    BY <2>2
  <2>3. CASE Sets
    BY <2>1, <2>3, ShardedSetTracks DEF Sets
  <2>4. CASE Deletes
    BY <2>1, <2>4, ShardedDeleteTracks DEF Deletes
  <2>5. CASE Evicts
    BY <2>1, <2>5, ShardedEvictTracks DEF Evicts
  <2> QED
    BY <2>2, <2>3, <2>4, <2>5, AlgorithmSteps
<1> QED
  BY <1>2, <1>3

\* An item stays an item when its expiry changes.
LEMMA ItemTouched ==
    ASSUME NEW i \in Item, NEW b
    PROVE  i # NoItem /\ [i EXCEPT !.expired = b] # NoItem
<1>1. i.size # 0 /\ [i EXCEPT !.expired = b].size = i.size
  BY CacheAssumption DEF Item
<1>2. NoItem.size = 0
  BY DEF NoItem
<1> QED
  BY <1>1, <1>2

\* A touch neither adds an item nor takes one away.
LEMMA TouchStored ==
    ASSUME StateTyped, CallsTyped, NEW p \in Procs, TouchItem(p)
    PROVE  Stored' = Stored
<1> DEFINE k == call[p].key
<1>1. k \in Keys
  BY CallFields DEF TouchItem, at, Keyed
<1>2. /\ \A j \in Keys \ {k} : store'[j] = store[j]
      /\ store'[k] = [store[k] EXCEPT !.expired = FALSE] /\ store[k] \in Item \cup {NoItem}
  BY <1>1 DEF TouchItem, StateTyped
<1> HIDE DEF k
<1>3. \A i \in Item : i # NoItem /\ [i EXCEPT !.expired = FALSE] # NoItem
  BY ItemTouched
<1>4. store'[k] = NoItem <=> store[k] = NoItem
  BY <1>2, <1>3, NothingTouched
<1> QED
  BY <1>2, <1>4 DEF Stored, Has

\* The stored items are what Count counts.
LEMMA StoredTyped ==
    ASSUME StateTyped
    PROVE  Stored \subseteq Keys /\ IsFiniteSet(Stored) /\ Cardinality(Stored) \in Nat
           /\ Count = Cardinality(Stored)
<1>1. Stored \subseteq Keys
  BY DEF Stored
<1>2. IsFiniteSet(Stored)
  BY <1>1, FS_Subset, CacheAssumption
<1> QED
  BY <1>1, <1>2, FS_CardinalityType DEF Count, Stored

LEMMA CapClientCall ==
    ASSUME CacheInv, CacheInv', MemInv, Sound, ~disturbed', NEW c \in Clients, ClientCall(c)
    PROVE  Sound'
<1>0. c \in Procs /\ call \in [Procs -> Locals]
  BY DEF Procs, CacheInv, CallsTyped, Good
<1>1. Overlap(c) /\ call[c].pc = "idle" /\ UNCHANGED <<store, ev>>
  BY DEF ClientCall, Set, GetOrSet, GetMultiple, RemoveKeys, Clear, TriggerExpiration,
         TriggerEviction, SetCapacity, Begin, at
<1>2. Alone(c) /\ ~disturbed
  BY <1>0, <1>1, BeginAlone
<1>3. \A q \in Procs \ {c} : SameCall(call[q], call'[q])
  BY <1>0, OthersStay DEF CacheInv
<1>4. Stored' = Stored /\ ev' = ev
  BY <1>1 DEF Stored, Has
<1>5. Tracked(ev) \subseteq Stored
  BY <1>0, <1>1, <1>2 DEF Sound, CapOK
<1>6. ASSUME CapOK(call'[c], Stored, Tracked(ev), ev.cap) PROVE Sound'
  BY <1>0, <1>2, <1>3, <1>4, <1>6, CapStep
<1>7. ASSUME ~Inserting(call'[c]),
             call'[c].pc \notin {"forget", "clear", "track", "unlink", "delete"}
      PROVE  Sound'
  BY <1>5, <1>6, <1>7, CapPlain
<1>8. Count = Cardinality(Stored)
  BY StoredTyped DEF CacheInv
<1>9. ASSUME Inserting(call'[c]), call'[c].pc \in BeforeStore, call'[c].listed = {},
             call'[c].before = Cardinality(Stored)
      PROVE  Sound'
  <2>1. InsertOK(call'[c], Stored, Tracked(ev), ev.cap)
    BY <1>9 DEF InsertOK, BeforeStore, AfterStore
  <2>2. CapOK(call'[c], Stored, Tracked(ev), ev.cap)
    BY <1>5, <1>9, <2>1 DEF CapOK, BeforeStore, gone
  <2> QED
    BY <1>6, <2>2
<1>10. ASSUME NEW k \in Keys, NEW sz \in Sizes, Set(c, k, sz)
       PROVE  Sound'
  <2> DEFINE n == Count
             r == [Idle EXCEPT !.op = "set", !.pc = "check", !.key = k, !.size = sz,
                               !.before = n]
  <2>1. call'[c] = r
    BY <1>0, <1>10 DEF Set, Begin
  <2> HIDE DEF n
  <2>2. r.op = "set" /\ r.pc = "check" /\ r.listed = {} /\ r.before = n
    BY DEF Idle
  <2> HIDE DEF r
  <2> QED
    BY <1>8, <1>9, <2>1, <2>2 DEF n, Inserting, BeforeStore
<1>11. ASSUME NEW k \in Keys, NEW sz \in Sizes, GetOrSet(c, k, sz)
       PROVE  Sound'
  <2> DEFINE n == Count
             pc == IF ~Has(k) THEN "reserve"
                   ELSE IF store[k].expired THEN "trigger" ELSE "touch"
             r == [Idle EXCEPT !.op = "getorset", !.key = k, !.size = sz, !.before = n,
                               !.pc = pc]
  <2>1. call'[c] = r
    BY <1>0, <1>11 DEF GetOrSet, Begin
  <2>2. pc \in BeforeStore
    BY DEF BeforeStore
  <2> HIDE DEF n, pc
  <2>3. r.op = "getorset" /\ r.pc = pc /\ r.listed = {} /\ r.before = n
    BY DEF Idle
  <2> HIDE DEF r
  <2> QED
    BY <1>8, <1>9, <2>1, <2>2, <2>3 DEF n, Inserting
<1>12. ASSUME NEW ks \in KeySets, GetMultiple(c, ks)
       PROVE  Sound'
  <2>1. call'[c] = [Idle EXCEPT !.op = "get", !.pc = "get", !.listed = ks]
    BY <1>0, <1>12 DEF GetMultiple, Begin
  <2>2. call'[c].pc = "get" /\ call'[c].op = "get"
    BY <2>1 DEF Idle
  <2> QED
    BY <1>7, <2>2 DEF Inserting
<1>13. ASSUME NEW ks \in KeySets, RemoveKeys(c, ks)
       PROVE  Sound'
  <2>1. call'[c] = [Idle EXCEPT !.op = "remove", !.pc = "unlink", !.todo = ks, !.keys = ks]
    BY <1>0, <1>13 DEF RemoveKeys, Begin
  <2>2. call'[c].op = "remove" /\ call'[c].pc = "unlink" /\ call'[c].todo = ks /\ call'[c].keys = ks
    BY <2>1 DEF Idle
  <2>3. CapOK(call'[c], Stored, Tracked(ev), ev.cap)
    BY <1>5, <2>2 DEF CapOK, gone, Inserting
  <2> QED
    BY <1>6, <2>3
<1>14. CASE Clear(c)
  <2>1. call'[c] = [Idle EXCEPT !.op = "clear", !.pc = "clear", !.listed = Stored]
    BY <1>0, <1>14 DEF Clear, Begin, Stored
  <2>2. call'[c].op = "clear" /\ call'[c].pc = "clear" /\ call'[c].listed = Stored
    BY <2>1 DEF Idle
  <2>3. CapOK(call'[c], Stored, Tracked(ev), ev.cap)
    BY <1>5, <2>2 DEF CapOK, gone, Inserting
  <2> QED
    BY <1>6, <2>3
<1>15. CASE TriggerExpiration(c)
  <2>1. call'[c] = [Idle EXCEPT !.op = "trigger", !.pc = "trigger"]
    BY <1>0, <1>15 DEF TriggerExpiration, Begin
  <2>2. call'[c].pc = "trigger" /\ call'[c].op = "trigger"
    BY <2>1 DEF Idle
  <2> QED
    BY <1>7, <2>2 DEF Inserting
<1>16. CASE TriggerEviction(c)
  <2>1. call'[c] = Idle
    BY <1>0, <1>16 DEF TriggerEviction, Begin
  <2> QED
    BY <1>7, <2>1, IdlePlain
<1>17. ASSUME NEW n \in Capacities, SetCapacity(c, n)
       PROVE  Sound'
  <2>1. call'[c] = [Idle EXCEPT !.op = "setcap", !.pc = "shrink"]
    BY <1>0, <1>17 DEF SetCapacity, Begin
  <2>2. call'[c].pc = "shrink" /\ call'[c].op = "setcap"
    BY <2>1 DEF Idle
  <2> QED
    BY <1>7, <2>2 DEF Inserting
<1> QED
  BY <1>10, <1>11, <1>12, <1>13, <1>14, <1>15, <1>16, <1>17 DEF ClientCall

-----------------------------------------------------------------------------
\* An item is stored: one more than before, at most.
LEMMA CapStores ==
    ASSUME NEW l, NEW m, NEW S, IsFiniteSet(S), NEW T, NEW cap, CapOK(l, S, T, cap),
           l.pc = "store", MovedTo(l, m, "track"), l.before \in Nat
    PROVE  CapOK(m, S \cup {l.key}, T, cap)
<1>1. T \subseteq S
  BY DEF CapOK
<1>2. Cardinality(S) \in Nat /\ Cardinality(S \cup {l.key}) \in Nat
      /\ Cardinality(S \cup {l.key}) <= Cardinality(S) + 1
  <2>1. PICK k : k = l.key
    OBVIOUS
  <2>2. Cardinality(S) \in Nat
    BY FS_CardinalityType
  <2>3. Cardinality(S \cup {k}) = IF k \in S THEN Cardinality(S) ELSE Cardinality(S) + 1
    BY FS_AddElement
  <2> QED
    BY <2>1, <2>2, <2>3
<1>3. ASSUME Inserting(m) PROVE InsertOK(m, S \cup {l.key}, T, cap)
  <2>1. InsertOK(l, S, T, cap)
    BY <1>3 DEF CapOK, Inserting, MovedTo
  <2>2. l.listed = {} /\ Cardinality(S) = l.before
    BY <2>1 DEF InsertOK, BeforeStore
  <2>3. m.listed = {} /\ m.pc = "track" /\ m.before = l.before
    BY <2>2 DEF MovedTo
  <2>4. Cardinality(S \cup {l.key}) <= m.before + 1
    BY <1>2, <2>2, <2>3
  <2> QED
    BY <2>3, <2>4 DEF InsertOK, BeforeStore, AfterStore
<1>4. m.pc = "track" /\ m.key = l.key
  BY DEF MovedTo
<1> QED
  BY <1>1, <1>3, <1>4 DEF CapOK, gone

\* The key that was stored is tracked.
LEMMA CapTracks ==
    ASSUME NEW l, NEW m, NEW S, NEW T, NEW U, NEW cap, CapOK(l, S, T, cap),
           l.pc = "track", MovedTo(l, m, "count"), U \subseteq T \cup {l.key},
           cap > 0 => l.key \in U
    PROVE  CapOK(m, S, U, cap)
<1>1. T \subseteq S /\ l.key \in S
  BY DEF CapOK
<1>2. U \subseteq S
  BY <1>1
<1>3. ASSUME Inserting(m) PROVE InsertOK(m, S, U, cap)
  <2>1. InsertOK(l, S, T, cap)
    BY <1>3 DEF CapOK, Inserting, MovedTo
  <2>2. l.listed = {} /\ Cardinality(S) <= l.before + 1
    BY <2>1 DEF InsertOK, AfterStore
  <2>3. m.listed = {} /\ m.pc = "count" /\ m.before = l.before
    BY <2>2 DEF MovedTo
  <2>4. cap > 0 => U # {}
    OBVIOUS
  <2> QED
    BY <2>2, <2>3, <2>4 DEF InsertOK, BeforeStore, AfterStore
<1>4. m.pc = "count"
  BY DEF MovedTo
<1> QED
  BY <1>2, <1>3, <1>4 DEF CapOK, gone

LEMMA CapClientStep ==
    ASSUME CacheInv, CacheInv', MemInv, OrderInv, AllTrack(ev), config.alg # "clock",
           Sound, ~disturbed, ~disturbed', NEW c \in Clients, ClientStep(c), ~at(c, "idle")
    PROVE  Sound'
<1>0. c \in Procs /\ CallsTyped /\ StateTyped /\ call \in [Procs -> Locals]
  BY DEF Procs, CacheInv, CallsTyped, Good
<1>1. Alone(c)
  <2>1. call[c].op # "none"
    BY <1>0, CallFields DEF at, Keyed
  <2> QED
    BY <1>0, <2>1, AloneMoves
<1>2. \A q \in Procs \ {c} : SameCall(call[q], call'[q])
  BY <1>0, OthersStay
<1>3. call[c] \in Locals /\ Keyed(call[c]) /\ CapOK(call[c], Stored, Tracked(ev), ev.cap)
  BY <1>0, <1>1, CallFields DEF Sound
<1>4. ev.name \in ByList /\ Sharded(ev) /\ Keys # {}
  BY <1>0, ListsNotClock
<1>5. call[c].pc # "forget" => Tracked(ev) \subseteq Stored
  BY <1>3 DEF CapOK
<1>6. ASSUME CapOK(call'[c], Stored', Tracked(ev'), ev'.cap) PROVE Sound'
  BY <1>0, <1>1, <1>2, <1>6, CapStep
<1>7. ASSUME Stored' = Stored, UNCHANGED ev, CapOK(call'[c], Stored, Tracked(ev), ev.cap)
      PROVE  Sound'
  BY <1>6, <1>7
<1>8. ASSUME Stored' = Stored, UNCHANGED ev, call[c].pc # "forget",
             call'[c] = Idle
      PROVE  Sound'
  BY <1>5, <1>7, <1>8, CapIdle
<1>9. ASSUME Stored' = Stored, UNCHANGED ev, call[c].pc \in BeforeStore,
             NEW pc \in BeforeStore, MovedTo(call[c], call'[c], pc)
      PROVE  Sound'
  BY <1>3, <1>7, <1>9, CapMoves
<1>10. ASSUME UNCHANGED store PROVE Stored' = Stored
  BY <1>10 DEF Stored, Has
<1>11. ASSUME Stored' = Stored, UNCHANGED ev, call[c].pc \in BeforeStore,
              call[c].listed # {}, call'[c].pc = "get", call'[c].op = call[c].op
       PROVE  Sound'
  <2>1. ~Inserting(call[c])
    BY <1>3, <1>11 DEF CapOK, InsertOK
  <2>2. Tracked(ev) \subseteq Stored
    BY <1>5, <1>11 DEF BeforeStore
  <2> QED
    BY <1>7, <1>11, <2>1, <2>2, CapPlain DEF Inserting
<1>12. CASE Reserve(c)
  <2>1. call[c].pc = "reserve" /\ MovedTo(call[c], call'[c], "check") /\ UNCHANGED <<store, ev>>
    BY <1>0, <1>12, GoMoves DEF Reserve, at
  <2> QED
    BY <1>9, <1>10, <2>1 DEF BeforeStore
<1>13. CASE CheckSize(c)
  <2>1. /\ call[c].pc = "check" /\ UNCHANGED <<store, ev>>
        /\ call'[c] = Idle \/ MovedTo(call[c], call'[c], "store")
    BY <1>0, <1>13, GoMoves, ReturnIdle DEF CheckSize, at
  <2> QED
    BY <1>8, <1>9, <1>10, <2>1 DEF BeforeStore
<1>14. CASE StoreItem(c)
  <2>1. call[c].pc = "store" /\ MovedTo(call[c], call'[c], "track") /\ UNCHANGED ev
    BY <1>0, <1>14, StoreMoves DEF StoreItem, at
  <2>2. call[c].key \in Keys /\ call[c].size # 0 /\ call[c].before \in Nat
    BY <1>3, <2>1, CacheAssumption DEF Keyed, Locals
  <2>3. Stored' = Stored \cup {call[c].key}
    <3> DEFINE i == [size |-> call[c].size, expired |-> FALSE]
    <3>1. i # NoItem
      <4>1. i.size # NoItem.size
        BY <2>2 DEF NoItem
      <4> QED
        BY <4>1
    <3>2. store' = [store EXCEPT ![call[c].key] = i] /\ store \in [Keys -> Item \cup {NoItem}]
      BY <1>0, <1>14 DEF StoreItem, StateTyped
    <3> HIDE DEF i
    <3> QED
      BY <2>2, <3>1, <3>2 DEF Stored, Has
  <2>4. IsFiniteSet(Stored)
    BY <1>0, StoredTyped
  <2>5. CapOK(call'[c], Stored \cup {call[c].key}, Tracked(ev), ev.cap)
    BY <1>3, <2>1, <2>2, <2>4, CapStores
  <2> QED
    BY <1>6, <2>1, <2>3, <2>5
<1>15. CASE StoreInvalid(c)
  <2>1. call[c].pc = "store" /\ call'[c] = Idle /\ UNCHANGED <<store, ev>>
    BY <1>0, <1>15, ReturnIdle DEF StoreInvalid, at
  <2> QED
    BY <1>8, <1>10, <2>1
<1>16. CASE Track(c)
  <2>1. /\ call[c].pc = "track" /\ MovedTo(call[c], call'[c], "count")
        /\ ev' = shardedSet(ev, call[c].key) /\ UNCHANGED store
    BY <1>0, <1>16, GoMoves DEF Track, at
  <2>2. call[c].key \in Keys
    BY <1>3, <2>1 DEF Keyed
  <2>3. /\ ev'.cap = ev.cap /\ Tracked(ev') \subseteq Tracked(ev) \cup {call[c].key}
        /\ ev.cap > 0 => call[c].key \in Tracked(ev')
    BY <1>4, <2>1, <2>2, ShardedSetTracks
  <2>4. CapOK(call'[c], Stored, Tracked(ev'), ev.cap)
    BY <1>3, <2>1, <2>3, CapTracks
  <2> QED
    BY <1>6, <1>10, <2>1, <2>3, <2>4
<1>17. CASE CountCheck(c)
  <2>1. /\ call[c].pc = "count" /\ UNCHANGED <<store, ev>>
        /\ call'[c] = Idle \/ MovedTo(call[c], call'[c], "evict")
    BY <1>0, <1>17, GoMoves, ReturnIdle DEF CountCheck, at
  <2>2. CASE call'[c] = Idle
    BY <1>8, <1>10, <2>1, <2>2
  <2>3. CASE MovedTo(call[c], call'[c], "evict")
    <3>1. CapOK(call'[c], Stored, Tracked(ev), ev.cap)
      BY <1>3, <2>1, <2>3, CapMoves
    <3> QED
      BY <1>7, <1>10, <2>1, <3>1
  <2> QED
    BY <2>1, <2>2, <2>3
<1>18. CASE ReadItem(c)
  <2>1. call[c].pc = "get" /\ UNCHANGED <<store, ev>>
    BY <1>18 DEF ReadItem, at
  <2>2. ~Inserting(call[c])
    BY <1>3, <2>1 DEF CapOK, InsertOK, BeforeStore, AfterStore
  <2>3. CASE return(c)
    BY <1>0, <1>8, <1>10, <2>1, <2>3, ReturnIdle
  <2>4. CASE ~return(c)
    <3>1. PICK k \in call[c].listed :
            call' = [call EXCEPT ![c].listed = @ \ {k}, ![c].key = k,
                       ![c].pc = IF ~Has(k) THEN "get"
                                 ELSE IF store[k].expired THEN "trigger" ELSE "touch"]
      BY <1>18, <2>4 DEF ReadItem
    <3> DEFINE pc == IF ~Has(k) THEN "get"
                     ELSE IF store[k].expired THEN "trigger" ELSE "touch"
               L == call[c].listed \ {k}
    <3>2. call' = [call EXCEPT ![c].listed = L, ![c].key = k, ![c].pc = pc]
      BY <3>1
    <3>3. pc \in {"get", "trigger", "touch"}
      OBVIOUS
    <3> HIDE DEF pc, L
    <3>4. call'[c].pc = pc /\ call'[c].op = call[c].op
      BY <1>0, <1>3, <3>2 DEF Locals
    <3>5. CapOK(call'[c], Stored, Tracked(ev), ev.cap)
      BY <1>5, <2>1, <2>2, <3>3, <3>4, CapPlain DEF Inserting
    <3> QED
      BY <1>7, <1>10, <2>1, <3>5
  <2> QED
    BY <2>3, <2>4
<1>19. CASE TouchItem(c)
  <2>1. call[c].pc = "touch" /\ UNCHANGED ev
    BY <1>19 DEF TouchItem, at
  <2>3. Stored' = Stored
    BY <1>0, <1>19, TouchStored
  <2> QED
    BY <1>0, <1>8, <1>11, <1>19, <2>1, <2>3, TouchMoves DEF BeforeStore
<1>20. CASE TriggerSwap(c) \/ TriggerDebounced(c) \/ TriggerSend(c)
  <2>1. /\ call[c].pc \in {"trigger", "signal"} /\ UNCHANGED <<store, ev>>
        /\ call' = NextKey(call, c) \/ go(c, "signal")
    BY <1>20 DEF TriggerSwap, TriggerDebounced, TriggerSend, at, go
  <2>2. CASE call' = NextKey(call, c)
    BY <1>0, <1>8, <1>10, <1>11, <2>1, <2>2, NextKeyMoves DEF BeforeStore
  <2>3. CASE go(c, "signal")
    BY <1>0, <1>9, <1>10, <2>1, <2>3, GoMoves DEF BeforeStore
  <2> QED
    BY <2>1, <2>2, <2>3
<1>21. CASE ClearBackend(c)
  <2>1. /\ store' = Dropping(Keys) /\ MovedTo(call[c], call'[c], "forget") /\ UNCHANGED ev
        /\ call[c].pc = "clear"
    BY <1>0, <1>21, GoMoves DEF ClearBackend, at
  <2>2. Tracked(ev) \subseteq call[c].listed /\ ~Inserting(call[c])
    BY <1>3, <2>1 DEF CapOK, InsertOK, BeforeStore, AfterStore
  <2>3. CapOK(call'[c], Stored', Tracked(ev), ev.cap)
    BY <2>1, <2>2 DEF CapOK, MovedTo, Inserting, gone
  <2> QED
    BY <1>6, <2>1, <2>3
<1>22. CASE ClearForget(c)
  <2>1. call[c].pc = "forget" /\ UNCHANGED store
    BY <1>22 DEF ClearForget, at
  <2>2. Tracked(ev) \subseteq call[c].listed /\ ~Inserting(call[c])
    BY <1>3, <2>1 DEF CapOK, InsertOK, BeforeStore, AfterStore
  <2>3. ASSUME NEW k \in call[c].listed, ev' = shardedDelete(ev, k),
               call' = [call EXCEPT ![c].listed = @ \ {k}]
        PROVE  Sound'
    <3>1. k \in Keys
      BY <1>0, CallFields
    <3>2. Tracked(ev') \subseteq Tracked(ev) \ {k}
      BY <1>4, <2>3, <3>1, ShardedDeleteTracks
    <3> DEFINE L == call[c].listed \ {k}
    <3>3. call' = [call EXCEPT ![c].listed = L] /\ Tracked(ev') \subseteq L
      BY <2>2, <2>3, <3>2
    <3> HIDE DEF L
    <3>4. call'[c].listed = L /\ call'[c].pc = "forget" /\ call'[c].op = call[c].op
      BY <1>0, <1>3, <2>1, <3>3 DEF Locals
    <3>5. CapOK(call'[c], Stored', Tracked(ev'), ev'.cap)
      BY <2>2, <3>3, <3>4 DEF CapOK, Inserting, gone
    <3> QED
      BY <1>6, <3>5
  <2>4. ASSUME call[c].listed = {}, return(c), UNCHANGED ev PROVE Sound'
    <3>1. Tracked(ev') \subseteq Stored' /\ call'[c] = Idle
      BY <1>0, <2>2, <2>4, ReturnIdle
    <3> QED
      BY <1>6, <3>1, CapIdle
  <2> QED
    BY <1>22, <2>3, <2>4 DEF ClearForget
<1>23. CASE SetCapacityEvicts(c)
  <2>1. call[c].pc = "shrink" /\ call'[c] = Idle /\ UNCHANGED <<store, ev>>
    BY <1>0, <1>23, ReturnIdle DEF SetCapacityEvicts, at
  <2> QED
    BY <1>8, <1>10, <2>1
<1> QED
  BY <1>12, <1>13, <1>14, <1>15, <1>16, <1>17, <1>18, <1>19, <1>20, <1>21, <1>22, <1>23
     DEF ClientStep

-----------------------------------------------------------------------------
\* A key is taken out of the algorithm, if the item is still there.
LEMMA CapUnlinks ==
    ASSUME NEW l, NEW m, NEW S, NEW T, NEW U, NEW cap, CapOK(l, S, T, cap),
           l.pc = "unlink", l.todo \subseteq l.keys, NEW k \in l.todo, U \subseteq T \ {k},
           m.pc \in {"unlink", "delete"}, m.pc = "delete" => l.todo = {k},
           m.op = l.op /\ m.before = l.before /\ m.listed = l.listed,
           m.keys = l.keys /\ m.todo = l.todo \ {k}
    PROVE  CapOK(m, S, U, cap)
<1>1. T \subseteq S /\ gone(l) \cap T = {}
  BY DEF CapOK
<1>2. gone(m) = gone(l) \cup {k}
  BY DEF gone
<1>3. U \subseteq S /\ gone(m) \cap U = {}
  BY <1>1, <1>2
<1>4. ASSUME Inserting(m) PROVE InsertOK(m, S, U, cap)
  <2>1. InsertOK(l, S, T, cap)
    BY <1>4 DEF CapOK, Inserting
  <2> QED
    BY <2>1 DEF InsertOK, BeforeStore, AfterStore
<1>5. m.pc = "delete" => m.todo = {}
  OBVIOUS
<1> QED
  BY <1>3, <1>4, <1>5 DEF CapOK

LEMMA CapSharedStep ==
    ASSUME CacheInv, CacheInv', MemInv, OrderInv, AllTrack(ev), config.alg # "clock",
           Sound, ~disturbed, ~disturbed', NEW p \in Procs, SharedStep(p)
    PROVE  Sound'
<1>0. CallsTyped /\ StateTyped /\ call \in [Procs -> Locals]
  BY DEF CacheInv, CallsTyped, Good
<1>1. Alone(p)
  <2>1. call[p].pc # "idle"
    BY DEF SharedStep, EvictKey, Unlink, Delete, DeleteCanceled, at
  <2>2. call[p].op # "none"
    BY <1>0, <2>1, CallFields DEF Keyed
  <2> QED
    BY <2>2, AloneMoves
<1>2. \A q \in Procs \ {p} : SameCall(call[q], call'[q])
  BY <1>0, OthersStay
<1>3. call[p] \in Locals /\ Keyed(call[p]) /\ CapOK(call[p], Stored, Tracked(ev), ev.cap)
  BY <1>0, <1>1, CallFields DEF Sound
<1>4. ev.name \in ByList /\ Sharded(ev) /\ Keys # {}
  BY <1>0, ListsNotClock
<1>5. call[p].pc # "forget" => Tracked(ev) \subseteq Stored
  BY <1>3 DEF CapOK
<1>6. ASSUME CapOK(call'[p], Stored', Tracked(ev'), ev'.cap) PROVE Sound'
  BY <1>0, <1>1, <1>2, <1>6, CapStep
<1>7. CASE EvictKey(p)
  <2>1. call[p].pc = "evict" /\ Stored' = Stored /\ ev' = shardedEvict(ev).st
    BY <1>7 DEF EvictKey, at, Stored, Has
  <2>2. /\ ev'.cap = ev.cap /\ Tracked(ev') \subseteq Tracked(ev)
        /\ shardedEvict(ev).ok => shardedEvict(ev).key \in Tracked(ev)
    BY <1>4, <2>1, ShardedEvictTracks
  <2>3. Tracked(ev') \subseteq Stored
    BY <1>5, <2>1, <2>2
  <2>4. CASE shardedEvict(ev).ok
    <3>1. PICK k \in Stored : k = shardedEvict(ev).key
      BY <1>5, <2>1, <2>2, <2>4
    <3> DEFINE K == {k}
    <3>2. call' = [call EXCEPT ![p].pc = "unlink", ![p].todo = K, ![p].keys = K]
      BY <1>7, <2>4, <3>1 DEF EvictKey
    <3> HIDE DEF K
    <3>3. /\ call'[p].pc = "unlink" /\ call'[p].todo = K /\ call'[p].keys = K
          /\ call'[p].op = call[p].op /\ call'[p].before = call[p].before
          /\ call'[p].listed = call[p].listed
      BY <1>0, <1>3, <3>2 DEF Locals
    <3>4. ASSUME Inserting(call'[p]) PROVE InsertOK(call'[p], Stored, Tracked(ev'), ev.cap)
      <4>1. InsertOK(call[p], Stored, Tracked(ev), ev.cap)
        BY <1>3, <3>3, <3>4 DEF CapOK, Inserting
      <4>2. \E j \in Stored : call'[p].keys = {j}
        BY <3>1, <3>3 DEF K
      <4> QED
        BY <2>1, <3>3, <4>1, <4>2 DEF InsertOK, BeforeStore, AfterStore
    <3>5. gone(call'[p]) = {}
      BY <3>3 DEF gone
    <3>6. CapOK(call'[p], Stored', Tracked(ev'), ev'.cap)
      BY <2>1, <2>2, <2>3, <3>3, <3>4, <3>5 DEF CapOK
    <3> QED
      BY <1>6, <3>6
  <2>5. CASE ~shardedEvict(ev).ok
    <3>1. call'[p] = Idle
      BY <1>0, <1>7, <2>5, ReturnIdle DEF EvictKey
    <3> QED
      BY <1>6, <2>1, <2>3, <3>1, CapIdle
  <2> QED
    BY <2>4, <2>5
<1>8. CASE Unlink(p)
  <2>1. call[p].pc = "unlink" /\ Stored' = Stored
    BY <1>8 DEF Unlink, at, Stored, Has
  <2>2. PICK k \in call[p].todo :
          /\ ev' = IF Has(k) THEN shardedDelete(ev, k) ELSE ev
          /\ call' = [call EXCEPT ![p].todo = @ \ {k},
                                  ![p].pc = IF call[p].todo = {k} THEN "delete" ELSE @]
    BY <1>8 DEF Unlink
  <2>3. k \in Keys /\ call[p].todo \subseteq call[p].keys
    BY <1>0, <1>3, <2>1, CallFields DEF Keyed
  <2>4. Tracked(ev') \subseteq Tracked(ev) \ {k} /\ ev'.cap = ev.cap
    <3>1. CASE Has(k)
      BY <1>4, <2>2, <2>3, <3>1, ShardedDeleteTracks
    <3>2. CASE ~Has(k)
      BY <1>5, <2>1, <2>2, <3>2 DEF Stored
    <3> QED
      BY <3>1, <3>2
  <2> DEFINE pc == IF call[p].todo = {k} THEN "delete" ELSE call[p].pc
             T == call[p].todo \ {k}
             r == [call[p] EXCEPT !.todo = T, !.pc = pc]
  <2>5. call' = [call EXCEPT ![p] = r]
    BY <2>2
  <2>6. pc \in {"unlink", "delete"} /\ (pc = "delete" => call[p].todo = {k})
    BY <2>1
  <2> HIDE DEF pc, T
  <2>7. /\ r.pc = pc /\ r.todo = T /\ r.keys = call[p].keys /\ r.op = call[p].op
        /\ r.before = call[p].before /\ r.listed = call[p].listed
    BY <1>3 DEF Locals
  <2> HIDE DEF r
  <2>8. call'[p] = r
    BY <1>0, <2>5
  <2>9. CapOK(r, Stored, Tracked(ev'), ev.cap)
    BY <1>3, <2>1, <2>3, <2>4, <2>6, <2>7, CapUnlinks DEF T
  <2> QED
    BY <1>6, <2>1, <2>4, <2>8, <2>9
<1>9. CASE Delete(p)
  <2>1. /\ call[p].pc = "delete" /\ store' = Dropping(call[p].keys) /\ Continue(p)
        /\ UNCHANGED ev
    BY <1>9 DEF Delete, at
  <2>2. call[p].keys \cap Tracked(ev) = {}
    BY <1>3, <2>1 DEF CapOK, gone
  <2>3. Stored' = Stored \ call[p].keys
    BY <2>1 DEF Stored, Has, Dropping
  <2>4. Tracked(ev') \subseteq Stored'
    BY <1>5, <2>1, <2>2, <2>3
  <2>5. CASE call[p].op \in {"evict", "expire"}
    <3>1. call'[p].pc \in {"count", "next"} /\ call'[p].op = call[p].op
      BY <1>0, <1>3, <2>1, <2>5 DEF Continue, Locals
    <3> QED
      BY <1>6, <2>4, <2>5, <3>1, CapPlain DEF Inserting
  <2>6. CASE call[p].op \notin {"evict", "expire"}
    <3>1. call'[p] = Idle
      BY <1>0, <2>1, <2>6, ReturnIdle DEF Continue
    <3> QED
      BY <1>6, <2>4, <3>1, CapIdle
  <2> QED
    BY <2>5, <2>6
<1>10. CASE DeleteCanceled(p)
  BY <1>10 DEF DeleteCanceled
<1> QED
  BY <1>7, <1>8, <1>9, <1>10 DEF SharedStep

LEMMA CapWorkerStep ==
    ASSUME CacheInv, CacheInv', MemInv, OrderInv, AllTrack(ev), config.alg # "clock",
           ~disturbed => Sound, ~disturbed', NEW w \in Workers, WorkerStep(w)
    PROVE  Sound'
<1>0. w \in Procs /\ CallsTyped /\ call \in [Procs -> Locals] /\ call[w] \in Locals
  BY DEF Procs, CacheInv, CallsTyped, Good
<1>1. \A q \in Procs \ {w} : SameCall(call[q], call'[q])
  BY <1>0, OthersStay
<1>2. ASSUME Alone(w), CapOK(call'[w], Stored', Tracked(ev'), ev'.cap) PROVE Sound'
  BY <1>0, <1>1, <1>2, CapStep
<1>3. ASSUME ~disturbed, call[w].pc # "idle"
      PROVE  Alone(w) /\ CapOK(call[w], Stored, Tracked(ev), ev.cap)
  <2>1. call[w].op # "none"
    BY <1>0, <1>3, CallFields DEF Keyed
  <2>2. Alone(w)
    BY <1>0, <1>3, <2>1, AloneMoves
  <2> QED
    BY <1>0, <1>3, <2>2 DEF Sound
<1>4. CASE StartJob(w)
  <2>1. Overlap(w) /\ Stored' = Stored /\ UNCHANGED ev
    BY <1>4 DEF StartJob, Stored, Has
  <2>2. Alone(w) /\ ~disturbed
    BY <1>0, <2>1, BeginAlone
  <2>3. worker[w] = "idle" /\ jobs # <<>>
    BY <1>4 DEF StartJob, WorkerTakes
  <2>4. call[w].pc = "idle"
    BY <2>3 DEF CacheInv, RunsJob
  <2>5. Tracked(ev) \subseteq Stored
    BY <1>0, <2>2, <2>4 DEF Sound, CapOK
  <2>6. Head(jobs) \in Jobs
    BY <2>3 DEF CacheInv, PoolInv, PoolTyped
  <2>7. call'[w].pc \in {"count", "list"} /\ ~Inserting(call'[w])
    <3> DEFINE j == Head(jobs)
               pc == IF Head(jobs) = "evict" THEN "count" ELSE "list"
    <3>1. call'[w] = [Idle EXCEPT !.op = j, !.pc = pc]
      BY <1>0, <1>4 DEF StartJob
    <3>2. pc \in {"count", "list"} /\ j \notin {"set", "getorset"}
      BY <2>6 DEF Jobs
    <3> HIDE DEF j, pc
    <3> QED
      BY <3>1, <3>2 DEF Idle, Inserting
  <2> QED
    BY <1>2, <2>1, <2>2, <2>5, <2>7, CapPlain
<1>5. CASE EvictionLoopTest(w)
  <2>1. call[w].pc = "count" /\ Stored' = Stored /\ UNCHANGED <<ev, disturbed>>
    BY <1>5 DEF EvictionLoopTest, at, Stored, Has, history
  <2>2. Alone(w) /\ CapOK(call[w], Stored, Tracked(ev), ev.cap)
    BY <1>3, <2>1
  <2>3. call'[w] = Idle \/ MovedTo(call[w], call'[w], "evict")
    BY <1>0, <1>5, GoMoves, ReturnIdle DEF EvictionLoopTest
  <2>4. CapOK(call'[w], Stored, Tracked(ev), ev.cap)
    <3>1. CASE call'[w] = Idle
      <4>1. Tracked(ev) \subseteq Stored
        BY <2>1, <2>2 DEF CapOK
      <4> QED
        BY <3>1, <4>1, CapIdle
    <3>2. CASE MovedTo(call[w], call'[w], "evict")
      BY <2>1, <2>2, <3>2, CapMoves
    <3> QED
      BY <2>3, <3>1, <3>2
  <2> QED
    BY <1>2, <2>1, <2>2, <2>4
<1>6. CASE ExpirationList(w) \/ ExpirationNext(w)
  <2>1. call[w].pc \in {"list", "next"} /\ Stored' = Stored /\ UNCHANGED <<ev, disturbed>>
    BY <1>6 DEF ExpirationList, ExpirationNext, at, Stored, Has, history
  <2>2. Alone(w) /\ CapOK(call[w], Stored, Tracked(ev), ev.cap)
    BY <1>3, <2>1
  <2>3. Tracked(ev) \subseteq Stored /\ ~Inserting(call[w])
    BY <2>1, <2>2 DEF CapOK, InsertOK, BeforeStore, AfterStore
  <2>4. CASE ExpirationList(w)
    <3> DEFINE L == Expired
    <3>1. call' = [call EXCEPT ![w].listed = L, ![w].pc = "next"]
      BY <2>4 DEF ExpirationList
    <3> HIDE DEF L
    <3>2. call'[w].pc = "next" /\ call'[w].op = call[w].op
      BY <1>0, <3>1 DEF Locals
    <3> QED
      BY <1>2, <2>1, <2>2, <2>3, <3>2, CapPlain DEF Inserting
  <2>5. CASE ExpirationNext(w) /\ return(w)
    BY <1>0, <1>2, <2>1, <2>2, <2>3, <2>5, ReturnIdle, CapIdle
  <2>6. CASE ExpirationNext(w) /\ ~return(w)
    <3>1. PICK k \in call[w].listed :
            call' = [call EXCEPT ![w].pc = "unlink", ![w].todo = {k}, ![w].keys = {k},
                                 ![w].listed = @ \ {k}]
      BY <2>6 DEF ExpirationNext
    <3> DEFINE ks == {k}
               L == call[w].listed \ {k}
    <3>2. call' = [call EXCEPT ![w].pc = "unlink", ![w].todo = ks, ![w].keys = ks,
                               ![w].listed = L]
      BY <3>1
    <3> HIDE DEF ks, L
    <3>3. /\ call'[w].pc = "unlink" /\ call'[w].todo = ks /\ call'[w].keys = ks
          /\ call'[w].op = call[w].op
      BY <1>0, <3>2 DEF Locals
    <3>4. CapOK(call'[w], Stored, Tracked(ev), ev.cap)
      BY <2>3, <3>3 DEF CapOK, gone, Inserting
    <3> QED
      BY <1>2, <2>1, <2>2, <3>4
  <2> QED
    BY <1>6, <2>4, <2>5, <2>6
<1>7. CASE PoolOnly(WorkerLeaves(w)) \/ PoolOnly(ReportError(w))
  <2>1. UNCHANGED <<store, ev, disturbed, call>>
    BY <1>7 DEF PoolOnly, history
  <2> QED
    BY <2>1 DEF Sound, Alone, Stored, Has
<1>8. CASE SharedStep(w)
  <2>1. ~disturbed
    BY <1>8 DEF SharedStep, EvictKey, Unlink, Delete, DeleteCanceled, history
  <2> QED
    BY <1>0, <1>8, <2>1, CapSharedStep
<1> QED
  BY <1>4, <1>5, <1>6, <1>7, <1>8 DEF WorkerStep

LEMMA RoomStep ==
    ASSUME CacheInv, CacheInv', MemInv, OrderInv, RoomInv, [Next]_vars
    PROVE  RoomInv'
<1>0. UNCHANGED config /\ AllTrack(ev')
  <2>1. CASE Next
    BY <2>1, AlgorithmSteps, TrackStep DEF CacheInv, RoomInv
  <2>2. CASE UNCHANGED vars
    BY <2>2 DEF RoomInv, vars, settings
  <2> QED
    BY <2>1, <2>2
<1> SUFFICES ASSUME ~disturbed', config.alg # "clock" PROVE Sound'
  BY <1>0 DEF RoomInv
<1>1. AllTrack(ev) /\ (~disturbed => Sound)
  BY DEF RoomInv
<1>2. ASSUME UNCHANGED <<ev, disturbed, call>>, Stored' = Stored
      PROVE  Sound'
  BY <1>1, <1>2 DEF Sound, Alone
<1>3. CASE UNCHANGED vars
  BY <1>2, <1>3 DEF vars, Stored, Has, history
<1>4. ASSUME NEW c \in Clients, ClientCall(c)
      PROVE  Sound'
  <2>1. ~disturbed
    BY <1>4, BeginAlone DEF ClientCall, Set, GetOrSet, GetMultiple, RemoveKeys, Clear,
           TriggerExpiration, TriggerEviction, SetCapacity, Begin, Procs
  <2> QED
    BY <1>1, <1>4, <2>1, CapClientCall
<1>5. ASSUME NEW c \in Clients, ClientStep(c) \/ SharedStep(c)
      PROVE  Sound'
  <2>1. ~disturbed
    <3>1. CASE ClientStep(c)
      BY <3>1 DEF ClientStep, Reserve, CheckSize, StoreItem, StoreInvalid, Track, CountCheck,
                  ReadItem, TouchItem, TriggerSwap, TriggerSend, TriggerDebounced,
                  ClearBackend, ClearForget, SetCapacityEvicts, history
    <3>2. CASE SharedStep(c)
      BY <3>2 DEF SharedStep, EvictKey, Unlink, Delete, DeleteCanceled, history
    <3> QED
      BY <1>5, <3>1, <3>2
  <2>2. ClientStep(c) => ~at(c, "idle")
    BY DEF ClientStep, Reserve, CheckSize, StoreItem, StoreInvalid, Track, CountCheck,
           ReadItem, TouchItem, TriggerSwap, TriggerSend, TriggerDebounced,
           ClearBackend, ClearForget, SetCapacityEvicts, at
  <2> QED
    BY <1>1, <1>5, <2>1, <2>2, CapClientStep, CapSharedStep DEF Procs
<1>6. CASE \/ \E p \in Senders : PoolOnly(EnqueueSend(p))
           \/ ExpirationTick \/ LoopStep
           \/ Stop \/ PoolOnly(ShutdownClose) \/ PoolOnly(ShutdownReturns)
  <2>1. UNCHANGED <<store, ev, disturbed, call>>
    BY <1>6 DEF PoolOnly, ExpirationTick, LoopStep, ExpirationTriggered, ExpirationClears,
                ExpirationDrains, EvictionTriggered, EvictionTick, DebounceEnds, LoopStops,
                Stop, history
  <2>2. Stored' = Stored
    BY <2>1 DEF Stored, Has
  <2> QED
    BY <1>2, <2>1, <2>2
<1>7. ASSUME NEW k \in Keys, DeleteLate(k) PROVE Sound'
  <2>1. orphans # {} /\ ~disturbed
    BY <1>7 DEF DeleteLate, history
  <2> QED
    BY <2>1 DEF MemInv, Sequential
<1>8. ASSUME NEW k \in Expiring, Expires(k) PROVE Sound'
  <2>1. UNCHANGED <<ev, disturbed, call>> /\ store[k] \in Item /\ k \in Keys
    BY <1>8, CacheAssumption DEF Expires, Has, history, CacheInv, StateTyped
  <2>2. store'[k] = [store[k] EXCEPT !.expired = TRUE] /\ \A j \in Keys \ {k} : store'[j] = store[j]
    BY <1>8, <2>1 DEF Expires, CacheInv, StateTyped
  <2>3. store[k] # NoItem /\ store'[k] # NoItem
    BY <2>1, <2>2, ItemTouched
  <2>4. Stored' = Stored
    BY <2>2, <2>3 DEF Stored, Has
  <2> QED
    BY <1>2, <2>1, <2>4
<1> QED
  BY <1>1, <1>3, <1>4, <1>5, <1>6, <1>7, <1>8, CapWorkerStep DEF Next

-----------------------------------------------------------------------------
LEMMA WithinMax ==
    ASSUME NEW a \in Nat, NEW b \in Nat, NEW x \in Nat, x <= a \/ x <= b
    PROVE  x <= Max({a, b})
<1>1. \E y \in {a, b} : \A z \in {a, b} : y >= z
  <2>1. a >= b \/ b >= a
    OBVIOUS
  <2> QED
    BY <2>1
<1>2. PICK y : y = Max({a, b})
  OBVIOUS
<1>3. y \in {a, b} /\ \A z \in {a, b} : y >= z
  BY <1>1, <1>2, Zenon DEF Max
<1> QED
  BY <1>2, <1>3

\* The step with which an insertion returns is one of its own.
LEMMA InsertOwnStep ==
    ASSUME CacheInv, Next, NEW c \in Clients, Inserting(call[c]), call'[c].op = "none"
    PROVE  ClientStep(c) \/ SharedStep(c)
<1>0. /\ c \in Procs /\ CallsTyped /\ call[c].op # "none" /\ call'[c].op # call[c].op
      /\ call[c].pc # "idle" /\ \A w \in Workers : w # c
  BY CallFields, CacheAssumption DEF CacheInv, Procs, Inserting, Keyed
<1>1. ASSUME NEW q \in Procs,
             (q \in Clients /\ (ClientCall(q) \/ ClientStep(q))) \/ SharedStep(q)
               \/ (q \in Workers /\ WorkerStep(q))
      PROVE  ClientStep(c) \/ SharedStep(c)
  <2>1. q = c
    BY <1>0, <1>1, OthersStay DEF SameCall
  <2>2. ~ClientCall(c)
    BY <1>0 DEF ClientCall, Set, GetOrSet, GetMultiple, RemoveKeys, Clear,
                TriggerExpiration, TriggerEviction, SetCapacity, Begin, at
  <2> QED
    BY <1>0, <1>1, <2>1, <2>2
<1>2. ~UNCHANGED call
  BY <1>0
<1>3. CASE \/ \E s \in Senders : PoolOnly(EnqueueSend(s))
           \/ ExpirationTick \/ LoopStep
           \/ \E o \in Keys : DeleteLate(o)
           \/ \E o \in Expiring : Expires(o)
           \/ Stop \/ PoolOnly(ShutdownClose) \/ PoolOnly(ShutdownReturns)
  BY <1>2, <1>3 DEF PoolOnly, ExpirationTick, LoopStep, ExpirationTriggered, ExpirationClears,
              ExpirationDrains, EvictionTriggered, EvictionTick, DebounceEnds, LoopStops,
              DeleteLate, Expires, Stop
<1> QED
  BY <1>1, <1>3 DEF Next, Procs

\* An insertion that returns has stored nothing, found the count within the
\* capacity, or removed the item it evicted.
LEMMA InsertReturns ==
    ASSUME CacheInv, CacheInv', MemInv, OrderInv, RoomInv, Next, ~disturbed', NEW c \in Clients,
           Inserting(call[c]), call'[c].op = "none", shouldEvict, ev.cap > 0,
           config.alg # "clock"
    PROVE  Count' <= Max({capacity, call[c].before})
<1>0. /\ c \in Procs /\ CallsTyped /\ StateTyped /\ call \in [Procs -> Locals]
      /\ call[c] \in Locals /\ call[c].op # "none"
  BY DEF CacheInv, Procs, CallsTyped, Good, Inserting
<1>1. ClientStep(c) \/ SharedStep(c)
  BY InsertOwnStep
<1>2. ~disturbed
  <2>1. CASE ClientStep(c)
    BY <2>1 DEF ClientStep, Reserve, CheckSize, StoreItem, StoreInvalid, Track, CountCheck,
                ReadItem, TouchItem, TriggerSwap, TriggerSend, TriggerDebounced,
                ClearBackend, ClearForget, SetCapacityEvicts, history
  <2>2. CASE SharedStep(c)
    BY <2>2 DEF SharedStep, EvictKey, Unlink, Delete, DeleteCanceled, history
  <2> QED
    BY <1>1, <2>1, <2>2
<1>3. Alone(c)
  BY <1>0, <1>2, AloneMoves
<1>4. InsertOK(call[c], Stored, Tracked(ev), ev.cap)
  BY <1>0, <1>2, <1>3 DEF RoomInv, Sound, CapOK
<1>5. /\ Count = Cardinality(Stored) /\ Count \in Nat /\ IsFiniteSet(Stored)
      /\ capacity \in Nat /\ call[c].before \in Nat
  BY <1>0, StoredTyped DEF StateTyped, Locals
<1>6. Count' = Cardinality(Stored') /\ Count' \in Nat
  <2>1. Stored' \subseteq Keys
    BY DEF Stored
  <2>2. IsFiniteSet(Stored')
    BY <2>1, FS_Subset, CacheAssumption
  <2> QED
    BY <2>2, FS_CardinalityType DEF Count, Stored
<1>7. ASSUME Count' <= capacity \/ Count' <= call[c].before
      PROVE  Count' <= Max({capacity, call[c].before})
  BY <1>5, <1>6, <1>7, WithinMax
<1>8. ASSUME call[c].pc \in BeforeStore, Stored' = Stored
      PROVE  Count' <= Max({capacity, call[c].before})
  <2>1. Count' = call[c].before
    BY <1>4, <1>6, <1>8 DEF InsertOK
  <2> QED
    BY <1>5, <1>7, <2>1
<1>9. CASE ClientStep(c)
  <2>1. call[c].pc \notin {"get", "clear", "forget", "shrink"}
    BY <1>4 DEF InsertOK, BeforeStore, AfterStore
  <2>2. CASE \/ Reserve(c) \/ CheckSize(c) \/ StoreInvalid(c)
             \/ TriggerSwap(c) \/ TriggerSend(c) \/ TriggerDebounced(c)
    <3>1. call[c].pc \in BeforeStore /\ UNCHANGED store
      BY <2>2 DEF Reserve, CheckSize, StoreInvalid, TriggerSwap, TriggerSend, TriggerDebounced,
                  at, BeforeStore
    <3> QED
      BY <1>8, <3>1 DEF Stored, Has
  <2>3. CASE TouchItem(c)
    <3>1. call[c].pc = "touch"
      BY <2>3 DEF TouchItem, at
    <3>2. Stored' = Stored
      BY <1>0, <2>3, TouchStored
    <3> QED
      BY <1>8, <3>1, <3>2 DEF BeforeStore
  <2>4. CASE StoreItem(c)
    <3>1. call'[c].op = call[c].op
      BY <1>0, <2>4, StoreMoves DEF MovedTo
    <3> QED
      BY <1>0, <3>1
  <2>5. CASE Track(c)
    <3>1. call'[c].op = call[c].op
      BY <1>0, <2>5, GoMoves DEF Track, MovedTo
    <3> QED
      BY <1>0, <3>1
  <2>6. CASE CountCheck(c)
    <3>1. CASE Count > capacity
      <4>1. call'[c].op = call[c].op
        BY <1>0, <2>6, <3>1, GoMoves DEF CountCheck, MovedTo
      <4> QED
        BY <1>0, <4>1
    <3>2. CASE ~(Count > capacity)
      <4>1. Stored' = Stored
        BY <2>6 DEF CountCheck, Stored, Has
      <4>2. Count' <= capacity
        BY <1>5, <1>6, <3>2, <4>1
      <4> QED
        BY <1>7, <4>2
    <3> QED
      BY <3>1, <3>2
  <2>7. ~(ReadItem(c) \/ ClearBackend(c) \/ ClearForget(c) \/ SetCapacityEvicts(c))
    BY <2>1 DEF ReadItem, ClearBackend, ClearForget, SetCapacityEvicts, at
  <2> QED
    BY <1>9, <2>2, <2>3, <2>4, <2>5, <2>6, <2>7 DEF ClientStep
<1>10. CASE EvictKey(c)
  <2>1. call[c].pc = "evict"
    BY <1>10 DEF EvictKey, at
  <2>2. Tracked(ev) # {}
    BY <1>4, <2>1 DEF InsertOK
  <2>3. shardedEvict(ev).ok
    BY <1>0, <2>2, ListsNotClock, ShardedEvictTracks DEF RoomInv
  <2> DEFINE K == {shardedEvict(ev).key}
  <2>4. call' = [call EXCEPT ![c].pc = "unlink", ![c].todo = K, ![c].keys = K]
    BY <1>10, <2>3 DEF EvictKey
  <2> HIDE DEF K
  <2>5. call'[c].op = call[c].op
    BY <1>0, <2>4 DEF Locals
  <2> QED
    BY <1>0, <2>5
<1>11. CASE Unlink(c)
  <2>1. PICK k \in call[c].todo :
          call' = [call EXCEPT ![c].todo = @ \ {k},
                               ![c].pc = IF call[c].todo = {k} THEN "delete" ELSE @]
    BY <1>11 DEF Unlink
  <2> DEFINE pc == IF call[c].todo = {k} THEN "delete" ELSE call[c].pc
             T == call[c].todo \ {k}
  <2>2. call' = [call EXCEPT ![c].todo = T, ![c].pc = pc]
    BY <2>1
  <2> HIDE DEF pc, T
  <2>3. call'[c].op = call[c].op
    BY <1>0, <2>2 DEF Locals
  <2> QED
    BY <1>0, <2>3
<1>12. CASE Delete(c)
  <2>1. call[c].pc = "delete" /\ store' = Dropping(call[c].keys)
    BY <1>12 DEF Delete, at
  <2>2. PICK k \in Stored : call[c].keys = {k}
    BY <1>4, <2>1 DEF InsertOK
  <2>3. Stored' = Stored \ {k}
    BY <2>1, <2>2 DEF Stored, Has, Dropping
  <2>4. Cardinality(Stored \ {k}) = Cardinality(Stored) - 1
    BY <1>5, <2>2, FS_RemoveElement
  <2>5. Cardinality(Stored) <= call[c].before + 1
    BY <1>4, <2>1 DEF InsertOK, AfterStore
  <2>6. Count' <= call[c].before
    BY <1>5, <1>6, <2>3, <2>4, <2>5
  <2> QED
    BY <1>7, <2>6
<1>13. CASE DeleteCanceled(c)
  BY <1>13 DEF DeleteCanceled
<1> QED
  BY <1>1, <1>9, <1>10, <1>11, <1>12, <1>13 DEF SharedStep

LEMMA RoomInvariant == Spec => []RoomInv
<1>1. New => RoomInv
  <2> SUFFICES ASSUME New PROVE RoomInv
    OBVIOUS
  <2>1. ev = NewSharded(config.alg, maxEvictionCount, config.shards) /\ CacheInv
    BY CacheInit DEF New, initEvictionAlgorithm
  <2>2. AllTrack(ev)
    BY <2>1, NewTracks
  <2>3. config.alg # "clock" => config.alg \in ByList
    BY <2>1 DEF CacheInv, StateTyped, Config, Algorithms, ByList
  <2>4. config.alg # "clock" => Tracked(ev) = {}
    BY <2>1, <2>3, NewTracks
  <2>5. \A p \in Procs : call[p] = Idle
    BY DEF New
  <2> QED
    BY <2>2, <2>4, <2>5, CapIdle DEF RoomInv, Sound
<1>2. CacheInv /\ CacheInv' /\ MemInv /\ OrderInv /\ RoomInv /\ [Next]_vars => RoomInv'
  BY RoomStep
<1> QED
  BY <1>1, <1>2, CacheInvariant, MemInvariant, OrderInvariant, PTL DEF Spec

(***************************************************************************)
(* The action property InsertKeepsCapacity: with LRU, LFU or CAWOLFU in    *)
(* any number of shards, a Set or GetOrSet that evicts in the caller and   *)
(* overlaps with nothing leaves no more items than the capacity, or than   *)
(* it found.                                                               *)
(***************************************************************************)
THEOREM InsertionKeepsCapacity == Spec => InsertKeepsCapacity
<1> DEFINE KeepsCapacity ==
      \A c \in Clients :
        /\ call[c].op \in {"set", "getorset"} /\ call'[c].op = "none"
        /\ ~disturbed' /\ shouldEvict /\ ev.cap > 0 /\ config.alg # "clock"
        => Count' <= Max({capacity, call[c].before})
<1>1. CacheInv /\ CacheInv' /\ MemInv /\ OrderInv /\ RoomInv /\ [Next]_vars => [KeepsCapacity]_vars
  BY InsertReturns DEF Inserting
<1> HIDE DEF KeepsCapacity
<1>2. [][KeepsCapacity]_vars => InsertKeepsCapacity
  BY DEF KeepsCapacity, InsertKeepsCapacity
<1> QED
  BY <1>1, <1>2, CacheInvariant, MemInvariant, OrderInvariant, RoomInvariant, PTL DEF Spec
=============================================================================
