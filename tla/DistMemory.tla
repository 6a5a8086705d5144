----------------------------- MODULE DistMemory -----------------------------
(***************************************************************************)
(* The request paths of the distributed backend, DistMemory in             *)
(* pkg/backend/dist_memory.go: Set (forward to the primary, promote a      *)
(* replica when that fails, stamp, apply, fan out, count acknowledgements),*)
(* Remove, Get at every read consistency with its read repair, hinted      *)
(* handoff (queueHint, replayHints) and Drain, on a cluster whose ring all *)
(* nodes agree on.                                                         *)
(*                                                                         *)
(* A process is one client call on one node.  An RPC is one step, and the  *)
(* calls of a loop are one step each, so that calls, arriving copies, hint *)
(* replay and partitions interleave between any two of them.  A node is    *)
(* cut off and healed as a whole; an RPC between two nodes fails while     *)
(* either is cut off.  An HTTP call can also time out although its request *)
(* arrived: the caller sees an error and the handler, which runs on the    *)
(* server's own context, carries on.                                       *)
(***************************************************************************)
EXTENDS DistStore

CONSTANTS Procs,              \* concurrent client calls
          WriteConsistency,   \* "ONE", "QUORUM" or "ALL"
          ReadConsistency,
          ParallelReads,      \* WithDistParallelReads
          \* bounds on what a behaviour may contain
          MaxSets, MaxRemoves, MaxGets, MaxCuts, MaxTimeouts, MaxExpiries,
          MaxDrains

Bounds == [removes |-> MaxRemoves, gets |-> MaxGets, cuts |-> MaxCuts,
           timeouts |-> MaxTimeouts, expiries |-> MaxExpiries,
           drains |-> MaxDrains]

ASSUME ParametersAssumption ==
    /\ {WriteConsistency, ReadConsistency} \subseteq {"ONE", "QUORUM", "ALL"}
    /\ ParallelReads \in BOOLEAN
    /\ MaxSets \in Nat
    /\ Bounds \in [DOMAIN Bounds -> Nat]
    /\ Procs \cap (1..MaxTimeouts) = {}

Writes == 1..MaxSets
LateCalls == 1..MaxTimeouts
Slots == Procs \cup LateCalls

VARIABLES op,         \* op[p]: where the call of process p is, or Idle
          tasks,      \* tasks[s]: a handler still running, or NoTask
          hints,      \* hints[n][t]: copies n keeps for t, oldest first
          replay,     \* replay[n]: the replay pass of n that holds hintsMu
          draining,   \* the nodes that were told to drain
          isolated,   \* the nodes cut off from the others
          writes,     \* number of Set calls so far; also the last value used
          used,       \* how much of each bound has been used
          \* history, for the properties only
          wr,         \* wr[w]: key, coordinator, version and result of Set w
          stored,     \* stored[w]: the nodes that have ever held value w
          expired,    \* the pairs <<w, t>> whose hint ran out of time
          last        \* last[k]: what the latest Set or Remove of k to be
                      \* accepted leaves there: its value, 0 after a Remove

callVars == <<op, tasks>>
hintVars == <<hints, replay, expired>>
netVars == <<draining, isolated>>
vars == <<storeVars, callVars, hintVars, netVars, writes, used, wr, stored, last>>

-----------------------------------------------------------------------------
(* The shape of the state. *)

SomeKey == CHOOSE k \in Keys : TRUE

PCs == {"idle", "forward", "wait", "local", "stamp", "apply", "fanout",
        "read", "repair"}

Op == [pc : PCs, kind : {"set", "remove", "get"}, node : Nodes \cup {0},
       key : Keys, item : Item, promoted : BOOLEAN, acks : Nat,
       todo : SUBSET Nodes, stale : SUBSET Nodes]

Idle == [pc |-> "idle", kind |-> "get", node |-> 0, key |-> SomeKey,
         item |-> NoItem, promoted |-> FALSE, acks |-> 0,
         todo |-> {}, stale |-> {}]

Task == [kind : {"set", "remove"}, at : Nodes \cup {0}, key : Keys,
         item : Item, todo : SUBSET Nodes]

NoTask == [kind |-> "set", at |-> 0, key |-> SomeKey, item |-> NoItem,
           todo |-> {}]

Hint == [key : Keys, item : Item]

\* left entries of cur's queue, then the queues in todo, are still to be
\* tried by the pass.
Pass == [cur : Nodes \cup {0}, left : Nat, todo : SUBSET Nodes]
NoPass == [cur |-> 0, left |-> 0, todo |-> {}]

Results == {"none", "pending", "ok", "quorumFailed", "forwarded", "error",
            "draining"}
WriteRecord == [key : Keys, coord : Nodes \cup {0}, version : Nat,
                result : Results]

(***************************************************************************)
(* The type of the state: one record per call in flight and per running    *)
(* handler, one queue of hints per node and target.                        *)
(***************************************************************************)
TypeOK ==
    /\ StoreTypeOK
    /\ op \in [Procs -> Op]
    /\ tasks \in [Slots -> Task]
    /\ hints \in [Nodes -> [Nodes -> Seq(Hint)]]
    /\ replay \in [Nodes -> Pass]
    /\ draining \in SUBSET Nodes
    /\ isolated \in SUBSET Nodes
    /\ writes \in 0..MaxSets
    /\ used \in [DOMAIN Bounds -> Nat]
    /\ wr \in [Writes -> WriteRecord]
    /\ stored \in [Writes -> SUBSET Nodes]
    /\ expired \in SUBSET (Writes \X Nodes)
    /\ last \in [Keys -> 0..MaxSets]

Init ==
    /\ StoreInit
    /\ op = [p \in Procs |-> Idle]
    /\ tasks = [s \in Slots |-> NoTask]
    /\ hints = [n \in Nodes |-> [t \in Nodes |-> <<>>]]
    /\ replay = [n \in Nodes |-> NoPass]
    /\ draining = {}
    /\ isolated = {}
    /\ writes = 0
    /\ used = [b \in DOMAIN Bounds |-> 0]
    /\ wr = [w \in Writes |-> [key |-> SomeKey, coord |-> 0, version |-> 0,
                               result |-> "none"]]
    /\ stored = [w \in Writes |-> {}]
    /\ expired = {}
    /\ last = [k \in Keys |-> 0]

-----------------------------------------------------------------------------
(* Calls between nodes. *)

CanReach(a, b) == a = b \/ {a, b} \cap isolated = {}

Use(b) ==
    /\ used[b] < Bounds[b]
    /\ used' = [used EXCEPT ![b] = @ + 1]

\* The slot of the call that times out next.
NextLate == used.timeouts + 1

\* Node n's copy of k becomes it.
Put(n, k, it) ==
    /\ applySet(n, k, it)
    /\ stored' = [stored EXCEPT ![it.val] = @ \cup {n}]
    /\ UNCHANGED <<versionCounter, last>>

\* A request of the given kind is handled by node n.
Arrive(kind, n, k, it) ==
    /\ \/ /\ kind = "set"
          /\ applyForwardedSet(n, k, it)
          /\ stored' = IF ownsKeyInternal(n, k)
                       THEN [stored EXCEPT ![it.val] = @ \cup {n}]
                       ELSE stored
       \/ /\ kind = "remove"
          /\ applyRemove(n, k)
          /\ UNCHANGED stored
    /\ UNCHANGED <<versionCounter, last>>

\* The request stays on the way to n after its caller has given up on it.
ArriveLate(kind, n, k, it) ==
    /\ Use("timeouts")
    /\ tasks' = [tasks EXCEPT ![NextLate] =
                   [kind |-> kind, at |-> n, key |-> k, item |-> it,
                    todo |-> {n}]]

StoreUnchanged == UNCHANGED <<storeVars, stored, last>>

\* The call of p ends; a Set call leaves its result.
Finish(p, result) ==
    /\ op' = [op EXCEPT ![p] = Idle]
    /\ wr' = IF op[p].kind = "set"
             THEN [wr EXCEPT ![op[p].item.val].result = result]
             ELSE wr

-----------------------------------------------------------------------------
(***************************************************************************)
(* A handler that applies a request and passes it on: applySet or          *)
(* applyRemove with replicate = true, on the node `at'.  It goes through   *)
(* its own node first, then through the other replicas in ring order, and  *)
(* ignores every error.                                                    *)
(***************************************************************************)
RestOf(t, d) == IF t.todo = {d} THEN NoTask ELSE [t EXCEPT !.todo = @ \ {d}]

NextHop(t, d) ==
    /\ d \in t.todo
    /\ d = t.at \/ (t.at \notin t.todo /\ IsNext(d, t.key, t.todo))

HandlerStep(s) ==
    LET t == tasks[s] IN
    \E d \in Nodes :
      /\ NextHop(t, d)
      /\ \/ CanReach(t.at, d) /\ Arrive(t.kind, d, t.key, t.item)
         \/ ~CanReach(t.at, d) /\ StoreUnchanged
      /\ tasks' = [tasks EXCEPT ![s] = RestOf(t, d)]
      /\ UNCHANGED <<op, hintVars, netVars, writes, used, wr>>

HandlerStepLate(s) ==
    LET t == tasks[s] IN
    \E d \in Nodes :
      /\ NextHop(t, d) /\ d # t.at
      /\ CanReach(t.at, d)
      /\ Use("timeouts")
      /\ tasks' = [tasks EXCEPT ![s] = RestOf(t, d),
                                ![NextLate] = [t EXCEPT !.at = d, !.todo = {d}]]
      /\ StoreUnchanged
      /\ UNCHANGED <<op, hintVars, netVars, writes, wr>>

-----------------------------------------------------------------------------
(* Set and Remove: routing to the primary. *)

NewCall(kind, n, k, pc, it) ==
    [Idle EXCEPT !.pc = pc, !.kind = kind, !.node = n, !.key = k, !.item = it]

NewWrite(n, k, result) ==
    /\ writes < MaxSets
    /\ writes' = writes + 1
    /\ wr' = [wr EXCEPT ![writes + 1] = [key |-> k, coord |-> n, version |-> 0,
                                         result |-> result]]

BeginSet(p, n, k) ==
    /\ op[p] = Idle
    /\ n \notin draining
    /\ NewWrite(n, k, "pending")
    /\ op' = [op EXCEPT ![p] =
                NewCall("set", n, k,
                        IF n = primary(k) THEN "stamp" ELSE "forward",
                        [NoItem EXCEPT !.val = writes + 1])]
    /\ last' = [last EXCEPT ![k] = writes + 1]
    /\ UNCHANGED <<storeVars, stored, tasks, hintVars, netVars, used>>

\* ErrDraining, before anything else is looked at.
SetDraining(p, n, k) ==
    /\ op[p] = Idle
    /\ n \in draining
    /\ NewWrite(n, k, "draining")
    /\ StoreUnchanged
    /\ UNCHANGED <<callVars, hintVars, netVars, used>>

\* applyRemove(key, replicate = true) run by the caller on its own node.
LocalRemove(n, k) ==
    [kind |-> "remove", at |-> n, key |-> k, item |-> NoItem,
     todo |-> {n} \cup replicas(k)]

\* Mutant: any owner, not only the primary, removes locally.
BeginRemove_AnyOwner(p, n, k) ==
    /\ op[p] = Idle
    /\ n \notin draining
    /\ Use("removes")
    /\ IF ownsKeyInternal(n, k)
       THEN /\ op' = [op EXCEPT ![p] = NewCall("remove", n, k, "local", NoItem)]
            /\ tasks' = [tasks EXCEPT ![p] = LocalRemove(n, k)]
       ELSE /\ op' = [op EXCEPT ![p] = NewCall("remove", n, k, "forward", NoItem)]
            /\ UNCHANGED tasks
    /\ last' = [last EXCEPT ![k] = 0]
    /\ UNCHANGED <<storeVars, stored, hintVars, netVars, writes, wr>>

BeginRemove(p, n, k) ==
    /\ op[p] = Idle
    /\ n \notin draining
    /\ Use("removes")
    /\ IF n = primary(k)
       THEN /\ op' = [op EXCEPT ![p] = NewCall("remove", n, k, "local", NoItem)]
            /\ tasks' = [tasks EXCEPT ![p] = LocalRemove(n, k)]
       ELSE /\ op' = [op EXCEPT ![p] = NewCall("remove", n, k, "forward", NoItem)]
            /\ UNCHANGED tasks
    /\ last' = [last EXCEPT ![k] = 0]
    /\ UNCHANGED <<storeVars, stored, hintVars, netVars, writes, wr>>

\* The primary receives the request and starts its handler.
Forward(p) ==
    LET o == op[p]
        d == primary(o.key) IN
    /\ o.pc = "forward"
    /\ CanReach(o.node, d)
    /\ op' = [op EXCEPT ![p].pc = "wait"]
    /\ tasks' = [tasks EXCEPT ![p] =
                   [kind |-> o.kind, at |-> d, key |-> o.key, item |-> o.item,
                    todo |-> {d} \cup replicas(o.key)]]
    /\ StoreUnchanged
    /\ UNCHANGED <<hintVars, netVars, writes, used, wr>>

\* Mutant: a replica the primary could not reach turns into an error.
ForwardReturn_ReplicaError(p) ==
    /\ op[p].pc \in {"wait", "local"}
    /\ tasks[p] = NoTask
    /\ Finish(p, IF isolated = {} THEN "forwarded" ELSE "error")
    /\ StoreUnchanged
    /\ UNCHANGED <<tasks, hintVars, netVars, writes, used>>

ForwardReturn(p) ==
    /\ op[p].pc \in {"wait", "local"}
    /\ tasks[p] = NoTask
    /\ Finish(p, "forwarded")
    /\ StoreUnchanged
    /\ UNCHANGED <<tasks, hintVars, netVars, writes, used>>

\* Any forward error: a replica of the key goes on as if it were primary,
\* every other node gives the error to its caller.  ts is what the error
\* leaves of the running handlers.
PromoteOrFail(p, ts) ==
    LET o == op[p] IN
    \/ /\ o.node \in replicas(o.key)
       /\ o.kind = "set"
       /\ op' = [op EXCEPT ![p].pc = "stamp", ![p].promoted = TRUE]
       /\ tasks' = ts
       /\ UNCHANGED wr
    \/ /\ o.node \in replicas(o.key)
       /\ o.kind = "remove"
       /\ op' = [op EXCEPT ![p].pc = "local"]
       /\ tasks' = [ts EXCEPT ![p] = LocalRemove(o.node, o.key)]
       /\ UNCHANGED wr
    \/ /\ o.node \notin replicas(o.key)
       /\ Finish(p, "error")
       /\ tasks' = ts

ForwardUnreachable(p) ==
    /\ op[p].pc = "forward"
    /\ ~CanReach(op[p].node, primary(op[p].key))
    /\ PromoteOrFail(p, tasks)
    /\ StoreUnchanged
    /\ UNCHANGED <<hintVars, netVars, writes, used>>

\* The primary has the request, its answer does not come back in time.
ForwardTimeout(p) ==
    /\ op[p].pc = "wait"
    /\ Use("timeouts")
    /\ PromoteOrFail(p, [tasks EXCEPT ![p] = NoTask, ![NextLate] = tasks[p]])
    /\ StoreUnchanged
    /\ UNCHANGED <<hintVars, netVars, writes>>

-----------------------------------------------------------------------------
(* Set: the primary path, run by the primary or by a promoted replica. *)

\* Mutant: the next version is read, the counter is not advanced.
Stamp_Load(p) ==
    LET o == op[p]
        v == versionCounter[o.node] + 1 IN
    /\ o.pc = "stamp"
    /\ op' = [op EXCEPT ![p].pc = "apply",
                        ![p].item = [val |-> o.item.val, version |-> v,
                                     origin |-> o.node]]
    /\ wr' = [wr EXCEPT ![o.item.val].version = v]
    /\ UNCHANGED <<storeVars, stored, last, tasks, hintVars, netVars, writes,
                   used>>

\* versionCounter.Add(1): reads and advances the counter in one step.
Stamp(p) ==
    LET o == op[p]
        v == versionCounter[o.node] + 1 IN
    /\ o.pc = "stamp"
    /\ versionCounter' = [versionCounter EXCEPT ![o.node] = v]
    /\ op' = [op EXCEPT ![p].pc = "apply",
                        ![p].item = [val |-> o.item.val, version |-> v,
                                     origin |-> o.node]]
    /\ wr' = [wr EXCEPT ![o.item.val].version = v]
    /\ UNCHANGED <<items, tombs, tombVersionCounter, stored, last, tasks, hintVars,
                   netVars, writes, used>>

\* Mutant: a promoted replica sends to the replicas only.
FanoutTargets_NoPrimary(n, k, promoted) == replicas(k) \ {n}

\* A promoted replica also sends to the primary it could not reach, so that
\* the failed call leaves a hint for it.
FanoutTargets(n, k, promoted) ==
    (IF promoted THEN Range(Owners[k]) ELSE replicas(k)) \ {n}

Apply(p) ==
    LET o == op[p] IN
    /\ o.pc = "apply"
    /\ Put(o.node, o.key, o.item)
    /\ op' = [op EXCEPT ![p].pc = "fanout", ![p].acks = 1,
                        ![p].todo = FanoutTargets(o.node, o.key, o.promoted)]
    /\ UNCHANGED <<tasks, hintVars, netVars, writes, used, wr>>

\* A replay pass holds hintsMu from its first hint to its last.
HintsLocked(n) == replay[n].left > 0 \/ replay[n].todo # {}

queueHint(n, t, k, it) ==
    /\ ~HintsLocked(n)
    /\ hints' = [hints EXCEPT ![n][t] = Append(@, [key |-> k, item |-> it])]
    /\ UNCHANGED <<replay, expired>>

FanoutAck(p) ==
    LET o == op[p] IN
    \E t \in Nodes :
      /\ o.pc = "fanout"
      /\ IsNext(t, o.key, o.todo)
      /\ CanReach(o.node, t)
      /\ Arrive("set", t, o.key, o.item)
      /\ op' = [op EXCEPT ![p].todo = @ \ {t}, ![p].acks = @ + 1]
      /\ UNCHANGED <<tasks, hintVars, netVars, writes, used, wr>>

\* Mutant: the hint counts as an acknowledgement.
FanoutError_Acks(p) ==
    LET o == op[p] IN
    \E t \in Nodes :
      /\ o.pc = "fanout"
      /\ IsNext(t, o.key, o.todo)
      /\ ~CanReach(o.node, t)
      /\ queueHint(o.node, t, o.key, o.item)
      /\ op' = [op EXCEPT ![p].todo = @ \ {t}, ![p].acks = @ + 1]
      /\ StoreUnchanged
      /\ UNCHANGED <<tasks, used, netVars, writes, wr>>

\* Every error leaves a hint, whether or not the copy arrives after all.
FanoutError(p) ==
    LET o == op[p] IN
    \E t \in Nodes :
      /\ o.pc = "fanout"
      /\ IsNext(t, o.key, o.todo)
      /\ \/ ~CanReach(o.node, t) /\ UNCHANGED <<tasks, used>>
         \/ CanReach(o.node, t) /\ ArriveLate("set", t, o.key, o.item)
      /\ queueHint(o.node, t, o.key, o.item)
      /\ op' = [op EXCEPT ![p].todo = @ \ {t}]
      /\ StoreUnchanged
      /\ UNCHANGED <<netVars, writes, wr>>

neededWrites(k) == requiredAcks(Len(Owners[k]), WriteConsistency)

SetReturn(p) ==
    /\ op[p].pc = "fanout"
    /\ op[p].todo = {}
    /\ Finish(p, IF op[p].acks >= neededWrites(op[p].key) THEN "ok"
                                                          ELSE "quorumFailed")
    /\ StoreUnchanged
    /\ UNCHANGED <<tasks, hintVars, netVars, writes, used>>

-----------------------------------------------------------------------------
(* Get and read repair. *)

\* At consistency ONE a local copy is returned without asking anyone.
BeginGet(p, n, k) ==
    /\ op[p] = Idle
    /\ Use("gets")
    /\ op' = IF ReadConsistency = "ONE" /\ Present(items[n][k])
             THEN op
             ELSE [op EXCEPT ![p] =
                     [NewCall("get", n, k, "read", NoItem)
                        EXCEPT !.todo = Range(Owners[k])]]
    /\ StoreUnchanged
    /\ UNCHANGED <<tasks, hintVars, netVars, writes, wr>>

\* What owner t answers to a read of k by node n; NoItem is a miss or an error.
Fetch(n, t, k) == IF CanReach(n, t) THEN items[t][k] ELSE NoItem

\* Mutant: the reader keeps the copy without owning the key.
ReadOne_AnyNode(p) ==
    LET o == op[p] IN
    \E t \in Nodes :
      LET it == Fetch(o.node, t, o.key) IN
      /\ o.pc = "read" /\ ReadConsistency = "ONE"
      /\ IsNext(t, o.key, o.todo)
      /\ \/ /\ ~Present(it)
            /\ op' = [op EXCEPT ![p].todo = @ \ {t}]
            /\ StoreUnchanged
         \/ /\ Present(it)
            /\ op' = [op EXCEPT ![p] = Idle]
            /\ IF ~Present(items[o.node][o.key])
               THEN Put(o.node, o.key, it)
               ELSE StoreUnchanged
      /\ UNCHANGED <<tasks, hintVars, netVars, writes, used, wr>>

\* getOne: the first owner with a copy answers; a reader that owns the key
\* and has lost it keeps what it got.
ReadOne(p) ==
    LET o == op[p] IN
    \E t \in Nodes :
      LET it == Fetch(o.node, t, o.key) IN
      /\ o.pc = "read" /\ ReadConsistency = "ONE"
      /\ IsNext(t, o.key, o.todo)
      /\ \/ /\ ~Present(it)
            /\ op' = [op EXCEPT ![p].todo = @ \ {t}]
            /\ StoreUnchanged
         \/ /\ Present(it)
            /\ op' = [op EXCEPT ![p] = Idle]
            /\ IF ownsKeyInternal(o.node, o.key)
                  /\ ~Present(items[o.node][o.key])
               THEN Put(o.node, o.key, it)
               ELSE StoreUnchanged
      /\ UNCHANGED <<tasks, hintVars, netVars, writes, used, wr>>

\* collectQuorum and its parallel twin: only owners that have a copy count;
\* an owner whose copy displaced the one chosen so far is noted as stale.
ReadQuorum(p) ==
    LET o == op[p] IN
    \E t \in o.todo :
      LET it     == Fetch(o.node, t, o.key)
          chosen == chooseNewer(o.item, it)
          acks   == o.acks + 1
          stale  == IF Present(o.item) /\ chosen # o.item
                    THEN o.stale \cup {t} ELSE o.stale IN
      /\ o.pc = "read" /\ ReadConsistency # "ONE"
      /\ ParallelReads \/ IsNext(t, o.key, o.todo)
      /\ \/ /\ ~Present(it)
            /\ op' = [op EXCEPT ![p].todo = @ \ {t}]
         \/ /\ Present(it)
            /\ acks < requiredAcks(Len(Owners[o.key]), ReadConsistency)
            /\ op' = [op EXCEPT ![p].todo = @ \ {t}, ![p].acks = acks,
                                ![p].item = chosen, ![p].stale = stale]
         \/ /\ Present(it)
            /\ acks >= requiredAcks(Len(Owners[o.key]), ReadConsistency)
            /\ op' = [op EXCEPT ![p].pc = "repair",
                                ![p].todo = Range(Owners[o.key]),
                                ![p].acks = 0, ![p].item = chosen,
                                ![p].stale = stale \ {o.node}]
      /\ StoreUnchanged
      /\ UNCHANGED <<tasks, hintVars, netVars, writes, used, wr>>

\* Mutant: the read waits for its quorum after the last owner has answered.
ReadMiss_WaitsForAcks(p) ==
    /\ op[p].pc = "read"
    /\ op[p].todo = {}
    /\ op[p].acks > 0
    /\ op' = [op EXCEPT ![p] = Idle]
    /\ StoreUnchanged
    /\ UNCHANGED <<tasks, hintVars, netVars, writes, used, wr>>

ReadMiss(p) ==
    /\ op[p].pc = "read"
    /\ op[p].todo = {}
    /\ op' = [op EXCEPT ![p] = Idle]
    /\ StoreUnchanged
    /\ UNCHANGED <<tasks, hintVars, netVars, writes, used, wr>>

\* The targets of repairStaleOwners, then those of repairReplicas.
NextRepair(o, t) ==
    IF o.stale # {} THEN t \in o.stale /\ (ParallelReads \/ IsNext(t, o.key, o.stale))
                    ELSE IsNext(t, o.key, o.todo)

Repaired(o, t) ==
    IF o.stale # {} THEN [o EXCEPT !.stale = @ \ {t}]
                    ELSE [o EXCEPT !.todo = @ \ {t}]

\* repairLocalReplica: only over an older copy, or none.
RepairLocal(p) ==
    LET o == op[p]
        cur == items[o.node][o.key] IN
    /\ o.pc = "repair"
    /\ NextRepair(o, o.node)
    /\ IF ~Present(cur) \/ Newer(o.item, cur)
       THEN Put(o.node, o.key, o.item)
       ELSE StoreUnchanged
    /\ op' = [op EXCEPT ![p] = Repaired(o, o.node)]
    /\ UNCHANGED <<tasks, hintVars, netVars, writes, used, wr>>

\* repairRemoteReplica: the copy is sent whatever the owner holds, and the
\* error, if any, is dropped.
RepairRemote(p) ==
    LET o == op[p] IN
    \E t \in Nodes \ {o.node} :
      /\ o.pc = "repair"
      /\ NextRepair(o, t)
      /\ \/ /\ CanReach(o.node, t)
            /\ Arrive("set", t, o.key, o.item)
            /\ UNCHANGED <<tasks, used>>
         \/ /\ ~CanReach(o.node, t)
            /\ StoreUnchanged
            /\ UNCHANGED <<tasks, used>>
         \/ /\ CanReach(o.node, t)
            /\ ArriveLate("set", t, o.key, o.item)
            /\ StoreUnchanged
      /\ op' = [op EXCEPT ![p] = Repaired(o, t)]
      /\ UNCHANGED <<hintVars, netVars, writes, wr>>

GetReturn(p) ==
    /\ op[p].pc = "repair"
    /\ op[p].todo = {} /\ op[p].stale = {}
    /\ op' = [op EXCEPT ![p] = Idle]
    /\ StoreUnchanged
    /\ UNCHANGED <<tasks, hintVars, netVars, writes, used, wr>>

-----------------------------------------------------------------------------
(***************************************************************************)
(* Hint replay.  A pass takes hintsMu, goes through every queue in any     *)
(* order and through a queue from its oldest hint, and drops a hint that   *)
(* was delivered or is too old; every error keeps it.                      *)
(***************************************************************************)
StartReplay(n) ==
    /\ ~HintsLocked(n)
    /\ \E t \in Nodes : hints[n][t] # <<>>
    /\ replay' = [replay EXCEPT ![n].todo = {t \in Nodes : hints[n][t] # <<>>}]
    /\ StoreUnchanged
    /\ UNCHANGED <<callVars, hints, expired, netVars, writes, used, wr>>

\* t's queue is the one the pass is in, or the one it takes up next.
LeftOf(n, t) == IF replay[n].left > 0 THEN replay[n].left ELSE Len(hints[n][t])

InPass(n, t) ==
    IF replay[n].left > 0 THEN t = replay[n].cur ELSE t \in replay[n].todo

\* Mutant: the cursor also skips the hint that moves into a dropped one's place.
Advance_Skips(n, t) ==
    replay' = [replay EXCEPT ![n] =
                 IF LeftOf(n, t) = 2 /\ replay[n].todo \subseteq {t}
                 THEN NoPass
                 ELSE [cur |-> t, left |-> LeftOf(n, t) - 2,
                       todo |-> replay[n].todo \ {t}]]

Advance(n, t) ==
    replay' = [replay EXCEPT ![n] =
                 IF LeftOf(n, t) = 1 /\ replay[n].todo \subseteq {t}
                 THEN NoPass
                 ELSE [cur |-> t, left |-> LeftOf(n, t) - 1,
                       todo |-> replay[n].todo \ {t}]]

CurrentHint(n, t) == Len(hints[n][t]) - LeftOf(n, t) + 1

\* Mutant: a delivery error drops the hint.
ReplayHint_DropsOnError(n, t) ==
    LET i == CurrentHint(n, t)
        h == hints[n][t][i] IN
    /\ InPass(n, t)
    /\ Advance(n, t)
    /\ \/ /\ CanReach(n, t)
          /\ Arrive("set", t, h.key, h.item)
       \/ /\ ~CanReach(n, t)
          /\ StoreUnchanged
    /\ hints' = [hints EXCEPT ![n][t] = RemoveAt(@, i)]
    /\ UNCHANGED <<tasks, used, expired, op, netVars, writes, wr>>

ReplayHint(n, t) ==
    LET i == CurrentHint(n, t)
        h == hints[n][t][i]
        dropped == [hints EXCEPT ![n][t] = RemoveAt(@, i)] IN
    /\ InPass(n, t)
    /\ Advance(n, t)
    /\ \/ /\ CanReach(n, t)                              \* delivered
          /\ Arrive("set", t, h.key, h.item)
          /\ hints' = dropped
          /\ UNCHANGED <<tasks, used, expired>>
       \/ /\ Use("expiries")                             \* past its TTL
          /\ hints' = dropped
          /\ expired' = expired \cup {<<h.item.val, t>>}
          /\ StoreUnchanged
          /\ UNCHANGED tasks
       \/ /\ ~CanReach(n, t)                             \* kept
          /\ StoreUnchanged
          /\ UNCHANGED <<tasks, used, hints, expired>>
       \/ /\ CanReach(n, t)                              \* kept, arrives later
          /\ ArriveLate("set", t, h.key, h.item)
          /\ StoreUnchanged
          /\ UNCHANGED <<hints, expired>>
    /\ UNCHANGED <<op, netVars, writes, wr>>

-----------------------------------------------------------------------------
(* The operator and the network. *)

Drain(n) ==
    /\ n \notin draining
    /\ Use("drains")
    /\ draining' = draining \cup {n}
    /\ StoreUnchanged
    /\ UNCHANGED <<callVars, hintVars, isolated, writes, wr>>

Isolate(n) ==
    /\ n \notin isolated
    /\ Use("cuts")
    /\ isolated' = isolated \cup {n}
    /\ StoreUnchanged
    /\ UNCHANGED <<callVars, hintVars, draining, writes, wr>>

Heal(n) ==
    /\ n \in isolated
    /\ isolated' = isolated \ {n}
    /\ StoreUnchanged
    /\ UNCHANGED <<callVars, hintVars, draining, writes, used, wr>>

-----------------------------------------------------------------------------
\* What a call does once it has begun, timeouts aside.
CallStep(p) ==
    \/ Forward(p) \/ ForwardReturn(p) \/ ForwardUnreachable(p)
    \/ Stamp(p) \/ Apply(p) \/ FanoutAck(p) \/ FanoutError(p) \/ SetReturn(p)
    \/ ReadOne(p) \/ ReadQuorum(p) \/ ReadMiss(p)
    \/ RepairLocal(p) \/ RepairRemote(p) \/ GetReturn(p)

Next ==
    \/ \E p \in Procs, n \in Nodes, k \in Keys :
         BeginSet(p, n, k) \/ SetDraining(p, n, k)
         \/ BeginRemove(p, n, k) \/ BeginGet(p, n, k)
    \/ \E p \in Procs : CallStep(p) \/ ForwardTimeout(p)
    \/ \E s \in Slots : HandlerStep(s) \/ HandlerStepLate(s)
    \/ \E n \in Nodes : StartReplay(n) \/ \E t \in Nodes : ReplayHint(n, t)
    \/ \E n \in Nodes : Drain(n) \/ Isolate(n) \/ Heal(n)

Spec == Init /\ [][Next]_vars

(***************************************************************************)
(* Fairness.  A goroutine that can run is run: a call, a handler and a     *)
(* replay pass each get their turn; the replay ticker keeps firing; a      *)
(* partition heals (the promise a hint's retry is made for).  Nothing      *)
(* makes clients call, the network fail, a call time out or a hint expire. *)
(***************************************************************************)
Fairness ==
    /\ \A p \in Procs : WF_vars(CallStep(p))
    /\ \A s \in Slots : WF_vars(HandlerStep(s))
    /\ \A n \in Nodes : /\ WF_vars(StartReplay(n))
                        /\ WF_vars(\E t \in Nodes : ReplayHint(n, t))
                        /\ WF_vars(Heal(n))

FairSpec == Spec /\ Fairness

-----------------------------------------------------------------------------
(* Properties. *)

\* Every copy of key k anywhere: in a store, in a queue of hints, carried by
\* a call or by a handler.
Copies(k) ==
    {items[n][k] : n \in Nodes}
    \cup {h.item : h \in {hh \in UNION {Range(hints[n][t]) : n, t \in Nodes} :
                            hh.key = k}}
    \cup {op[p].item : p \in {q \in Procs : op[q].key = k}}
    \cup {tasks[s].item : s \in {r \in Slots : tasks[r].key = k}}

(***************************************************************************)
(* A stamp names one value: two copies of a key with the same non-zero     *)
(* (version, origin) hold the same value, however calls on one node,       *)
(* promotions of a replica, late requests, hint replays and repairs        *)
(* interleave.  chooseNewer and the Merkle comparison treat copies with    *)
(* equal stamps as equal, so a reused stamp would never be reconciled.     *)
(***************************************************************************)
StampUnique ==
    \A k \in Keys : \A a, b \in Copies(k) :
      a.version # 0 /\ a.version = b.version /\ a.origin = b.origin
        => a.val = b.val

(***************************************************************************)
(* A Set that the primary path answered with success had its value in the  *)
(* store of as many nodes as the write consistency asks for: no            *)
(* acknowledgement is counted for a call that failed, and none is counted  *)
(* twice for the coordinator of a promoted write.                          *)
(***************************************************************************)
AckedMeansStored ==
    \A w \in Writes :
      wr[w].result = "ok" => Cardinality(stored[w]) >= neededWrites(wr[w].key)

Hinted(n, w, t) == \E i \in DOMAIN hints[n][t] : hints[n][t][i].item.val = w

(***************************************************************************)
(* No owner is silently left out: when a primary-path Set has returned, by *)
(* success or ErrQuorumFailed, every owner has held the value, or its      *)
(* coordinator keeps a hint for it, or that hint outlived its TTL.  This   *)
(* is what the full owner list of a promoted write is for (setImpl).       *)
(***************************************************************************)
NoOwnerForgotten ==
    \A w \in Writes :
      wr[w].result \in {"ok", "quorumFailed"} =>
        \A t \in Range(Owners[wr[w].key]) :
          \/ t \in stored[w]
          \/ Hinted(wr[w].coord, w, t)
          \/ <<w, t>> \in expired

(***************************************************************************)
(* A node that does not own a key never holds it: neither a coordinator    *)
(* that reads through (tryRemoteGet) nor any path that carries a copy      *)
(* plants one outside the owners, where no later write would update it.    *)
(***************************************************************************)
OnlyOwnersStore ==
    \A n \in Nodes, k \in Keys :
      Present(items[n][k]) => ownsKeyInternal(n, k)

(***************************************************************************)
(* A Set that was refused leaves no copy behind: none after ErrDraining,   *)
(* and none after a forward error unless a call timed out, in which case   *)
(* the request may have arrived after all.                                 *)
(***************************************************************************)
RefusedLeavesNoCopy ==
    \A k \in Keys : \A c \in Copies(k) :
      Present(c) =>
        /\ wr[c.val].result # "draining"
        /\ wr[c.val].result = "error" => used.timeouts > 0

(***************************************************************************)
(* Calls made one after the other on a healthy cluster, through any nodes, *)
(* take effect in that order: whenever no call is running every owner      *)
(* holds exactly what the last Set or Remove left, whatever stamps the     *)
(* copies carry and whatever reads repaired in between.                    *)
(***************************************************************************)
SequentialCallsTakeEffect ==
    (\A p \in Procs : op[p] = Idle) =>
      \A k \in Keys : \A t \in Range(Owners[k]) : items[t][k].val = last[k]

(***************************************************************************)
(* Liveness of a call: every Set, Remove and Get returns, even while its   *)
(* peers are cut off and a replay pass holds the hints' mutex.             *)
(***************************************************************************)
CallsReturn == \A p \in Procs : op[p] # Idle ~> op[p] = Idle

(***************************************************************************)
(* Hinted handoff keeps its promise: after a primary-path Set every owner  *)
(* eventually has held the value, unless the hint for it expired.          *)
(***************************************************************************)
HintsReachOwners ==
    \A w \in Writes :
      wr[w].result \in {"ok", "quorumFailed"} ~>
        \A t \in Range(Owners[wr[w].key]) :
          t \in stored[w] \/ <<w, t>> \in expired

(***************************************************************************)
(* What the comment on repairRemoteReplica says of the receiver: it does   *)
(* nothing for a copy older than the one it holds.  Both copies are        *)
(* stamped, and the new one does not come from a Set the node coordinates. *)
(***************************************************************************)
AppliesOwnSet(n) ==
    \E p \in Procs : op[p].node = n /\ op[p].pc = "apply" /\ op'[p].pc = "fanout"

ReceiverKeepsNewer ==
    [][\A n \in Nodes, k \in Keys :
         /\ items[n][k].version > 0
         /\ items'[n][k].version > 0
         /\ ~AppliesOwnSet(n)
         => items'[n][k].version >= items[n][k].version]_vars

(***************************************************************************)
(* What the README says of the write consistency levels: a Set that        *)
(* succeeds, on any node, was acknowledged by the number of owners its     *)
(* level asks for.                                                         *)
(***************************************************************************)
SuccessMeansAcknowledged ==
    \A w \in Writes :
      wr[w].result \in {"ok", "forwarded"}
        => Cardinality(stored[w]) >= neededWrites(wr[w].key)
=============================================================================
