-------------------------- MODULE DistMemoryProofs --------------------------
(***************************************************************************)
(* Proofs about the request paths, for any cluster, ring, consistency      *)
(* level, number of concurrent calls and bounds.                           *)
(***************************************************************************)
EXTENDS DistMemory, SequenceTheorems, FiniteSetTheorems, TLAPS

(***************************************************************************)
(* The inductive invariant.  A copy is good when its value is that of a    *)
(* Set that has begun and its stamp, if it has one, is the one that Set    *)
(* was given.  Every copy in the system is good, the calls that are still  *)
(* to be stamped carry an unstamped value of their own, and the stamps     *)
(* given so far are distinct and covered by the coordinators' counters.    *)
(***************************************************************************)
Good(c) ==
    /\ c.val \in 0..writes
    /\ c.version # 0 => /\ c.val # 0
                        /\ c.version = wr[c.val].version
                        /\ c.origin = wr[c.val].coord

StorePart ==
    /\ StoreTypeOK
    /\ stored \in [Writes -> SUBSET Nodes]
    /\ last \in [Keys -> 0..MaxSets]
    /\ \A n \in Nodes, k \in Keys : Good(items[n][k])

OpOK(o) ==
    /\ Good(o.item)
    /\ o.pc \in {"stamp", "apply", "fanout"} => o.kind = "set"
    /\ o.pc \in {"read", "repair"} => o.kind = "get"
    /\ o.pc \in {"forward", "wait", "local"} => o.kind # "get"
    /\ o.pc # "idle" => o.node \in Nodes
    /\ o.kind = "set" =>
         /\ o.item.val \in 1..writes
         /\ wr[o.item.val].coord = o.node
         /\ o.pc \in {"forward", "wait", "stamp"} =>
              o.item.version = 0 /\ wr[o.item.val].version = 0

OpPart ==
    /\ op \in [Procs -> Op]
    /\ \A p \in Procs : OpOK(op[p])
    /\ \A p, q \in Procs :
         /\ op[p].kind = "set" /\ op[q].kind = "set"
         /\ op[p].item.val = op[q].item.val
         => p = q

TaskPart ==
    /\ tasks \in [Slots -> Task]
    /\ \A s \in Slots : Good(tasks[s].item)

HintPart ==
    /\ hints \in [Nodes -> [Nodes -> Seq(Hint)]]
    /\ replay \in [Nodes -> Pass]
    /\ expired \in SUBSET (Writes \X Nodes)
    /\ \A n, t \in Nodes : \A i \in 1..Len(hints[n][t]) :
         Good(hints[n][t][i].item) /\ hints[n][t][i].item.val # 0
    /\ \A n \in Nodes :
         /\ replay[n].left > 0 => /\ replay[n].cur \in Nodes
                                 /\ replay[n].left <= Len(hints[n][replay[n].cur])
         /\ \A t \in replay[n].todo : hints[n][t] # <<>>

NetPart ==
    /\ draining \in SUBSET Nodes
    /\ isolated \in SUBSET Nodes
    /\ used \in [DOMAIN Bounds -> Nat]

RecordPart ==
    /\ writes \in 0..MaxSets
    /\ wr \in [Writes -> WriteRecord]
    /\ \A w \in 1..writes :
         /\ wr[w].coord \in Nodes
         /\ wr[w].version <= versionCounter[wr[w].coord]
    /\ \A w, x \in 1..writes :
         /\ wr[w].version # 0
         /\ wr[w].version = wr[x].version
         /\ wr[w].coord = wr[x].coord
         => w = x

IInv == StorePart /\ OpPart /\ TaskPart /\ HintPart /\ NetPart /\ RecordPart

-----------------------------------------------------------------------------
LEMMA SomeKeyType == SomeKey \in Keys
  BY OwnersAssumption DEF SomeKey

LEMMA IdleType == Idle \in Op /\ Idle.kind = "get" /\ Idle.pc = "idle"
  BY SomeKeyType DEF Idle, Op, PCs, NoItem, Item

LEMMA NoTaskType == NoTask \in Task
  BY SomeKeyType DEF NoTask, Task, NoItem, Item

LEMMA NoItemGood == RecordPart => NoItem \in Item /\ Good(NoItem)
  BY ParametersAssumption DEF NoItem, Item, Good, RecordPart

LEMMA OwnersType ==
  ASSUME NEW k \in Keys
  PROVE  /\ primary(k) \in Nodes
         /\ replicas(k) \subseteq Nodes
         /\ Range(Owners[k]) \subseteq Nodes
<1>1. Owners[k] \in Seq(Nodes) /\ Owners[k] # <<>>
  BY OwnersAssumption
<1>2. Tail(Owners[k]) \in Seq(Nodes) /\ Head(Owners[k]) \in Nodes
  BY <1>1
<1> QED
  BY <1>1, <1>2 DEF primary, replicas, Range

LEMMA InitIInv == Init => IInv
<1> SUFFICES ASSUME Init PROVE IInv
  OBVIOUS
<1> USE ParametersAssumption, SomeKeyType DEF Init
<1>1. RecordPart
  BY DEF RecordPart, WriteRecord, Results, Writes
<1>2. NoItem \in Item /\ Good(NoItem)
  BY <1>1, NoItemGood
<1>3. StorePart
  BY <1>2 DEF StorePart, StoreInit, StoreTypeOK, Tomb, NoTomb
<1>4. OpPart
  BY <1>2, IdleType DEF OpPart, OpOK, Idle
<1>5. TaskPart
  BY <1>2, NoTaskType DEF TaskPart, NoTask
<1>6. HintPart
  BY DEF HintPart, Pass, NoPass
<1>7. NetPart
  BY DEF NetPart
<1> QED
  BY <1>1, <1>3, <1>4, <1>5, <1>6, <1>7 DEF IInv
-----------------------------------------------------------------------------
(***************************************************************************)
(* Frames: a step that keeps the records of the Set calls keeps every part *)
(* whose variables it leaves alone.                                        *)
(***************************************************************************)
LEMMA GoodStable ==
  ASSUME UNCHANGED <<writes, wr>>, NEW c
  PROVE  Good(c)' <=> Good(c)
  BY DEF Good

LEMMA Frame ==
  ASSUME IInv, UNCHANGED <<writes, wr>>
  PROVE  /\ StoreUnchanged => StorePart'
         /\ UNCHANGED op => OpPart'
         /\ UNCHANGED tasks => TaskPart'
         /\ UNCHANGED hintVars => HintPart'
         /\ UNCHANGED <<netVars, used>> => NetPart'
         /\ UNCHANGED versionCounter => RecordPart'
<1>1. StoreUnchanged => StorePart'
  BY DEF IInv, StorePart, StoreUnchanged, storeVars, StoreTypeOK, Good
<1>2. UNCHANGED op => OpPart'
  BY DEF IInv, OpPart, OpOK, Good
<1>3. UNCHANGED tasks => TaskPart'
  BY DEF IInv, TaskPart, Good
<1>4. UNCHANGED hintVars => HintPart'
  <2>1. \A c : Good(c)' <=> Good(c)
    BY DEF Good
  <2> QED
    BY <2>1 DEF IInv, HintPart, hintVars
<1>5. UNCHANGED <<netVars, used>> => NetPart'
  BY DEF IInv, NetPart, netVars
<1>6. UNCHANGED versionCounter => RecordPart'
  BY DEF IInv, RecordPart
<1> QED
  BY <1>1, <1>2, <1>3, <1>4, <1>5, <1>6

(* A good copy that is put into a store, by whatever path, is good there. *)
LEMMA PutStore ==
  ASSUME IInv, UNCHANGED <<writes, wr>>, NEW n \in Nodes, NEW k \in Keys,
         NEW it \in Item, Good(it), Put(n, k, it)
  PROVE  StorePart' /\ RecordPart'
<1>1. items' = [items EXCEPT ![n][k] = it] /\ UNCHANGED <<tombs, tombVersionCounter,
                                               versionCounter, last>>
  BY DEF Put, applySet
<1>2. items' \in [Nodes -> [Keys -> Item]]
  BY <1>1 DEF IInv, StorePart, StoreTypeOK
<1>3. \A m \in Nodes, j \in Keys : Good(items'[m][j])
  BY <1>1 DEF IInv, StorePart, StoreTypeOK
<1>4. stored' \in [Writes -> SUBSET Nodes]
  BY DEF IInv, StorePart, Put
<1>5. (\A m \in Nodes, j \in Keys : Good(items[m][j]))'
  BY <1>3, GoodStable
<1> QED
  BY <1>1, <1>2, <1>4, <1>5, Frame DEF IInv, StorePart, StoreTypeOK

LEMMA ArriveStore ==
  ASSUME IInv, UNCHANGED <<writes, wr>>, NEW n \in Nodes, NEW k \in Keys,
         NEW it \in Item, Good(it), NEW kind, Arrive(kind, n, k, it)
  PROVE  StorePart' /\ RecordPart'
<1>1. UNCHANGED <<versionCounter, last>>
  BY DEF Arrive
<1>2. RecordPart'
  BY <1>1, Frame
<1>3. CASE /\ items' = [items EXCEPT ![n][k] = it]
           /\ stored' = [stored EXCEPT ![it.val] = @ \cup {n}]
           /\ UNCHANGED <<tombs, tombVersionCounter>>
  BY <1>1, <1>3, PutStore DEF Put, applySet
<1>4. CASE UNCHANGED <<items, tombs, tombVersionCounter, stored>>
  BY <1>1, <1>2, <1>4, Frame DEF StoreUnchanged, storeVars
<1>5. CASE applyRemove(n, k) /\ UNCHANGED stored
  <2>1. NoItem \in Item /\ Good(NoItem)
    BY NoItemGood DEF IInv
  <2>2. items' = [items EXCEPT ![n][k] = NoItem]
    BY <1>5 DEF applyRemove
  <2>3. items' \in [Nodes -> [Keys -> Item]]
    BY <2>1, <2>2 DEF IInv, StorePart, StoreTypeOK
  <2>4. \A m \in Nodes, j \in Keys : Good(items'[m][j])
    BY <2>1, <2>2 DEF IInv, StorePart, StoreTypeOK
  <2>5. (\A m \in Nodes, j \in Keys : Good(items[m][j]))'
    BY <2>4, GoodStable
  <2>6. items[n][k].version + 1 \in Nat /\ tombVersionCounter[n] + 1 \in Nat
    BY DEF IInv, StorePart, StoreTypeOK, Item
  <2>7. tombs' \in [Nodes -> [Keys -> Tomb]]
    <3>1. \A v \in Nat : [version |-> v, origin |-> n] \in Tomb
      BY NodesAssumption DEF Tomb
    <3> QED
      BY <1>5, <2>6, <3>1 DEF IInv, StorePart, StoreTypeOK, applyRemove
  <2>8. tombVersionCounter' \in [Nodes -> Nat]
    BY <1>5 DEF IInv, StorePart, StoreTypeOK, applyRemove
  <2> QED
    BY <1>1, <1>2, <1>5, <2>3, <2>5, <2>7, <2>8
    DEF IInv, StorePart, StoreTypeOK, applyRemove
<1> QED
  BY <1>3, <1>4, <1>5 DEF Arrive, applyForwardedSet, applySet

LEMMA UseType ==
  ASSUME NetPart, NEW b \in DOMAIN Bounds, Use(b)
  PROVE  used' \in [DOMAIN Bounds -> Nat]
  BY DEF NetPart, Use

LEMMA LateSlot ==
  ASSUME NetPart, Use("timeouts")
  PROVE  NextLate \in Slots /\ used' \in [DOMAIN Bounds -> Nat]
  BY UseType, ParametersAssumption DEF NetPart, Use, NextLate, Slots, LateCalls, Bounds
LEMMA LateTask ==
  ASSUME IInv, UNCHANGED <<writes, wr>>, NEW n \in Nodes, NEW k \in Keys,
         NEW it \in Item, Good(it), NEW kind \in {"set", "remove"},
         ArriveLate(kind, n, k, it)
  PROVE  TaskPart' /\ used' \in [DOMAIN Bounds -> Nat]
<1> DEFINE t == [kind |-> kind, at |-> n, key |-> k, item |-> it, todo |-> {n}]
<1>1. NextLate \in Slots /\ used' \in [DOMAIN Bounds -> Nat]
  BY LateSlot DEF ArriveLate, IInv
<1>2. t \in Task /\ t.item = it
  BY DEF Task
<1> HIDE DEF t
<1>3. tasks' = [tasks EXCEPT ![NextLate] = t]
  BY DEF ArriveLate, t
<1>4. tasks' \in [Slots -> Task] /\ \A s \in Slots : Good(tasks'[s].item)
  BY <1>1, <1>2, <1>3 DEF IInv, TaskPart
<1> QED
  BY <1>1, <1>4, GoodStable DEF TaskPart

-----------------------------------------------------------------------------
(* The handlers. *)

LEMMA RestOfType ==
  ASSUME IInv, NEW s \in Slots, NEW d
  PROVE  RestOf(tasks[s], d) \in Task /\ Good(RestOf(tasks[s], d).item)
<1>1. NoTask \in Task /\ Good(NoTask.item)
  BY NoTaskType, NoItemGood DEF IInv, NoTask
<1>2. tasks[s] \in Task /\ Good(tasks[s].item)
  BY DEF IInv, TaskPart
<1>3. /\ [tasks[s] EXCEPT !.todo = @ \ {d}] \in Task
      /\ [tasks[s] EXCEPT !.todo = @ \ {d}].item = tasks[s].item
  BY <1>2 DEF Task
<1> QED
  BY <1>1, <1>2, <1>3 DEF RestOf

LEMMA HandlerStepInv ==
  ASSUME IInv, NEW s \in Slots, HandlerStep(s)
  PROVE  IInv'
<1>1. PICK d \in Nodes :
         /\ \/ CanReach(tasks[s].at, d)
               /\ Arrive(tasks[s].kind, d, tasks[s].key, tasks[s].item)
            \/ StoreUnchanged
         /\ tasks' = [tasks EXCEPT ![s] = RestOf(tasks[s], d)]
         /\ UNCHANGED <<op, hintVars, netVars, writes, used, wr>>
  BY DEF HandlerStep
<1>2. tasks[s] \in Task /\ Good(tasks[s].item)
  BY DEF IInv, TaskPart
<1>3. tasks[s].key \in Keys /\ tasks[s].item \in Item
  BY <1>2 DEF Task
<1>4. StorePart' /\ RecordPart'
  BY <1>1, <1>2, <1>3, ArriveStore, Frame DEF StoreUnchanged, storeVars
<1>5. TaskPart'
  BY <1>1, RestOfType, GoodStable DEF IInv, TaskPart
<1> QED
  BY <1>1, <1>4, <1>5, Frame DEF IInv

LEMMA HandlerStepLateInv ==
  ASSUME IInv, NEW s \in Slots, HandlerStepLate(s)
  PROVE  IInv'
<1>1. PICK d \in Nodes :
         /\ Use("timeouts")
         /\ tasks' = [tasks EXCEPT ![s] = RestOf(tasks[s], d),
                         ![NextLate] = [tasks[s] EXCEPT !.at = d, !.todo = {d}]]
         /\ StoreUnchanged
         /\ UNCHANGED <<op, hintVars, netVars, writes, wr>>
  BY DEF HandlerStepLate
<1>2. NextLate \in Slots /\ used' \in [DOMAIN Bounds -> Nat]
  BY <1>1, LateSlot DEF IInv
<1>3. /\ [tasks[s] EXCEPT !.at = d, !.todo = {d}] \in Task
      /\ Good([tasks[s] EXCEPT !.at = d, !.todo = {d}].item)
  BY DEF IInv, TaskPart, Task
<1>4. TaskPart'
  BY <1>1, <1>2, <1>3, RestOfType, GoodStable DEF IInv, TaskPart
<1>5. NetPart'
  BY <1>1, <1>2 DEF IInv, NetPart, netVars
<1> QED
  BY <1>1, <1>4, <1>5, Frame DEF IInv, StoreUnchanged, storeVars

-----------------------------------------------------------------------------
(* Calls: a new operation record of p that is sound keeps all of them sound. *)

LEMMA OpChange ==
  ASSUME IInv, UNCHANGED <<writes, wr>>, NEW p \in Procs, NEW o \in Op,
         op' = [op EXCEPT ![p] = o], OpOK(o),
         o.kind = "set" => op[p].kind = "set" /\ o.item.val = op[p].item.val
  PROVE  OpPart'
<1>1. op' \in [Procs -> Op]
  BY DEF IInv, OpPart
<1>2. \A q \in Procs : OpOK(op'[q])
  BY DEF IInv, OpPart
<1>3. (\A q \in Procs : OpOK(op[q]))'
  BY <1>2 DEF OpOK, Good
<1>4. \A q, r \in Procs :
        /\ op'[q].kind = "set" /\ op'[r].kind = "set"
        /\ op'[q].item.val = op'[r].item.val
        => q = r
  BY DEF IInv, OpPart
<1> QED
  BY <1>1, <1>3, <1>4 DEF OpPart

LEMMA IdleOK == RecordPart => OpOK(Idle)
  BY NoItemGood DEF OpOK, Idle

(* Ending a call, whatever its result, keeps every part but the stores. *)
LEMMA FinishInv ==
  ASSUME IInv, NEW p \in Procs, NEW r \in Results, op[p].pc # "idle", Finish(p, r),
         UNCHANGED <<writes, versionCounter>>
  PROVE  /\ OpPart' /\ RecordPart'
         /\ \A c \in Item : Good(c) => Good(c)'
<1>1. CASE op[p].kind # "set"
  <2>1. UNCHANGED wr /\ op' = [op EXCEPT ![p] = Idle]
    BY <1>1 DEF Finish
  <2>2. OpPart'
    BY <2>1, IdleType, IdleOK, OpChange DEF IInv
  <2> QED
    BY <2>1, <2>2, Frame, GoodStable DEF IInv
<1>2. CASE op[p].kind = "set"
  <2> DEFINE w == op[p].item.val
  <2>1. w \in 1..writes /\ w \in Writes /\ writes \in 0..MaxSets /\ MaxSets \in Nat
    BY <1>2, ParametersAssumption DEF IInv, OpPart, OpOK, RecordPart, Writes
  <2>2. wr' = [wr EXCEPT ![w].result = r] /\ op' = [op EXCEPT ![p] = Idle]
    BY <1>2 DEF Finish
  <2> HIDE DEF w
  <2>3. /\ wr' \in [Writes -> WriteRecord]
        /\ \A x \in Writes : wr'[x].version = wr[x].version
                             /\ wr'[x].coord = wr[x].coord
    BY <2>1, <2>2 DEF IInv, RecordPart, WriteRecord
  <2>4. \A x \in 1..writes : x \in Writes
    BY <2>1 DEF Writes
  <2>5. RecordPart'
    BY <2>3, <2>4 DEF IInv, RecordPart
  <2>6. ASSUME NEW c \in Item, Good(c) PROVE Good(c)'
    BY <2>3, <2>4, <2>6 DEF Good, Item
  <2>7. OpPart'
    <3>1. op' \in [Procs -> Op]
      BY <2>2, IdleType DEF IInv, OpPart
    <3>2. OpOK(Idle)
      BY IdleOK DEF IInv
    <3>3. \A q \in Procs : OpOK(op'[q])
      BY <2>2, <3>2 DEF IInv, OpPart
    <3>4. \A q \in Procs : op'[q].item \in Item
      BY <3>1 DEF Op
    <3>5. ASSUME NEW q \in Procs PROVE OpOK(op[q])'
      <4>1. Good(op[q].item)'
        BY <2>3, <2>4, <3>3, <3>4 DEF OpOK, Good, Item
      <4> QED
        BY <2>3, <2>4, <3>3, <4>1 DEF OpOK
    <3>6. \A q, s \in Procs :
            /\ op'[q].kind = "set" /\ op'[s].kind = "set"
            /\ op'[q].item.val = op'[s].item.val
            => q = s
      BY <2>2, IdleType DEF IInv, OpPart
    <3> QED
      BY <3>1, <3>5, <3>6 DEF OpPart
  <2> QED
    BY <2>5, <2>6, <2>7
<1> QED
  BY <1>1, <1>2

LEMMA HintType ==
  ASSUME HintPart, NEW n \in Nodes, NEW t \in Nodes, NEW i \in 1..Len(hints[n][t])
  PROVE  /\ hints[n][t][i] \in Hint
         /\ hints[n][t][i].item \in Item
         /\ hints[n][t][i].key \in Keys
<1>1. hints[n][t] \in Seq(Hint)
  BY DEF HintPart
<1>2. hints[n][t][i] \in Hint
  BY <1>1
<1> QED
  BY <1>2 DEF Hint

(* Parts a step leaves alone while it adds to the records. *)
LEMMA FrameGood ==
  ASSUME IInv, \A c \in Item : Good(c) => Good(c)'
  PROVE  /\ UNCHANGED <<storeVars, stored>> /\ last' \in [Keys -> 0..MaxSets]
              => StorePart'
         /\ UNCHANGED tasks => TaskPart'
         /\ UNCHANGED hintVars => HintPart'
<1>1. ASSUME UNCHANGED <<storeVars, stored>>, last' \in [Keys -> 0..MaxSets]
      PROVE  StorePart'
  <2>1. \A n \in Nodes, k \in Keys : items[n][k] \in Item /\ items'[n][k] = items[n][k]
    BY <1>1 DEF IInv, StorePart, StoreTypeOK, storeVars
  <2>2. ASSUME NEW n \in Nodes, NEW k \in Keys PROVE Good(items[n][k])'
    <3>1. Good(items[n][k])
      BY DEF IInv, StorePart
    <3> QED
      BY <2>1, <3>1 DEF Good
  <2> QED
    BY <1>1, <2>2 DEF IInv, StorePart, StoreTypeOK, storeVars
<1>2. ASSUME UNCHANGED tasks PROVE TaskPart'
  <2>1. \A s \in Slots : tasks[s].item \in Item
    BY DEF IInv, TaskPart, Task
  <2> QED
    BY <1>2, <2>1 DEF IInv, TaskPart, Good
<1>3. ASSUME UNCHANGED hintVars PROVE HintPart'
  <2>1. ASSUME NEW n \in Nodes, NEW t \in Nodes, NEW i \in 1..Len(hints[n][t])
        PROVE  /\ Good(hints[n][t][i].item)'
               /\ hints'[n][t][i].item.val # 0
    <3>1. /\ Good(hints[n][t][i].item) /\ hints[n][t][i].item.val # 0
          /\ hints[n][t][i].item \in Item
      BY HintType DEF IInv, HintPart
    <3> QED
      BY <1>3, <3>1 DEF hintVars, Good
  <2> QED
    BY <1>3, <2>1 DEF IInv, HintPart, hintVars
<1> QED
  BY <1>1, <1>2, <1>3

-----------------------------------------------------------------------------
(* The steps of a call that begins. *)

LEMMA NewWriteInv ==
  ASSUME IInv, NEW n \in Nodes, NEW k \in Keys, NEW r \in Results,
         NewWrite(n, k, r), UNCHANGED versionCounter
  PROVE  /\ RecordPart'
         /\ writes + 1 \in 1..MaxSets
         /\ wr'[writes + 1].coord = n /\ wr'[writes + 1].version = 0
         /\ \A c \in Item : Good(c) => Good(c)'
         /\ \A q \in Procs : OpOK(op[q]) /\ op[q] \in Op
              /\ (op[q].kind = "set" => op[q].item.val \in 1..writes)
         /\ \A o \in Op : OpOK(o) =>
              /\ Good(o.item)'
              /\ o.kind = "set" =>
                    /\ o.item.val \in 1..writes'
                    /\ wr'[o.item.val] = wr[o.item.val]
<1> DEFINE rec == [key |-> k, coord |-> n, version |-> 0, result |-> r]
<1>1. writes \in Nat /\ MaxSets \in Nat /\ writes < MaxSets /\ writes' = writes + 1
      /\ writes + 1 \in Writes /\ writes' \in 0..MaxSets
  BY ParametersAssumption DEF IInv, RecordPart, NewWrite, Writes
<1>2. rec \in WriteRecord /\ rec.coord = n /\ rec.version = 0
  BY DEF WriteRecord
<1>3. wr' = [wr EXCEPT ![writes + 1] = rec]
  BY DEF NewWrite
<1> HIDE DEF rec
<1>4. /\ wr' \in [Writes -> WriteRecord]
      /\ wr'[writes + 1] = rec
      /\ \A w \in 1..writes : wr'[w] = wr[w] /\ w \in Writes
  BY <1>1, <1>2, <1>3 DEF IInv, RecordPart, Writes
<1>5. \A w \in 1..(writes + 1) : w \in 1..writes \/ w = writes + 1
  BY <1>1
<1>6. versionCounter[n] >= 0
  BY DEF IInv, StorePart, StoreTypeOK
<1>7. RecordPart'
  <2>1. \A w \in 1..(writes + 1) :
          wr'[w].coord \in Nodes /\ wr'[w].version <= versionCounter[wr'[w].coord]
    BY <1>2, <1>4, <1>5, <1>6 DEF IInv, RecordPart
  <2>2. \A w, x \in 1..(writes + 1) :
         /\ wr'[w].version # 0
         /\ wr'[w].version = wr'[x].version
         /\ wr'[w].coord = wr'[x].coord
         => w = x
    BY <1>2, <1>4, <1>5 DEF IInv, RecordPart
  <2> QED
    BY <1>1, <1>4, <2>1, <2>2 DEF RecordPart
<1>8. ASSUME NEW c \in Item, Good(c) PROVE Good(c)'
  BY <1>1, <1>4, <1>8 DEF Good, Item
<1>9. ASSUME NEW o \in Op, OpOK(o)
      PROVE  /\ Good(o.item)'
             /\ o.kind = "set" => /\ o.item.val \in 1..writes'
                                  /\ wr'[o.item.val] = wr[o.item.val]
  <2>1. o.item \in Item
    BY DEF Op
  <2> QED
    BY <1>1, <1>4, <1>8, <1>9, <2>1 DEF OpOK
<1> QED
  BY <1>1, <1>2, <1>4, <1>7, <1>8, <1>9 DEF IInv, OpPart, OpOK

LEMMA BeginSetInv ==
  ASSUME IInv, NEW p \in Procs, NEW n \in Nodes, NEW k \in Keys, BeginSet(p, n, k)
  PROVE  IInv'
<1> DEFINE it == [NoItem EXCEPT !.val = writes + 1]
           pc == IF n = primary(k) THEN "stamp" ELSE "forward"
           o  == NewCall("set", n, k, pc, it)
<1>1. /\ NewWrite(n, k, "pending")
      /\ op' = [op EXCEPT ![p] = o]
      /\ last' = [last EXCEPT ![k] = writes + 1]
      /\ UNCHANGED <<storeVars, stored, tasks, hintVars, netVars, used>>
  BY DEF BeginSet
<1>2. UNCHANGED versionCounter /\ writes' = writes + 1 /\ "pending" \in Results
  BY <1>1 DEF storeVars, NewWrite, Results
<1>3. /\ RecordPart'
      /\ writes + 1 \in 1..MaxSets
      /\ wr'[writes + 1].coord = n /\ wr'[writes + 1].version = 0
      /\ \A c \in Item : Good(c) => Good(c)'
      /\ \A q \in Procs : OpOK(op[q]) /\ op[q] \in Op
           /\ (op[q].kind = "set" => op[q].item.val \in 1..writes)
      /\ \A x \in Op : OpOK(x) =>
           /\ Good(x.item)'
           /\ x.kind = "set" =>
                 /\ x.item.val \in 1..writes'
                 /\ wr'[x.item.val] = wr[x.item.val]
  BY <1>1, <1>2, NewWriteInv
<1>4. writes \in Nat /\ MaxSets \in Nat
  BY ParametersAssumption DEF IInv, RecordPart
<1>5. it \in Item /\ it.val = writes + 1 /\ it.version = 0
  BY <1>4 DEF NoItem, Item
<1>6. pc \in {"stamp", "forward"}
  OBVIOUS
<1> HIDE DEF it, pc
<1>7. /\ o \in Op /\ o.kind = "set" /\ o.item = it /\ o.node = n /\ o.pc = pc
  BY <1>5, <1>6, IdleType DEF NewCall, Idle, Op, PCs
<1> HIDE DEF o
<1>9. OpPart'
  <2>1. op' \in [Procs -> Op]
    BY <1>1, <1>7 DEF IInv, OpPart
  <2>2. ASSUME NEW q \in Procs PROVE OpOK(op[q])'
    <3>1. CASE q = p
      <4>1. op'[q] = o
        BY <1>1, <3>1 DEF IInv, OpPart
      <4> QED
        BY <1>2, <1>3, <1>4, <1>5, <1>6, <1>7, <4>1 DEF OpOK, Good
    <3>2. CASE q # p
      <4>1. op'[q] = op[q]
        BY <1>1, <3>2 DEF IInv, OpPart
      <4>2. OpOK(op[q]) /\ op[q] \in Op
        BY <1>3
      <4>3. Good(op[q].item)'
        BY <1>3, <4>1, <4>2 DEF Good
      <4> QED
        BY <1>3, <4>1, <4>2, <4>3 DEF OpOK
    <3> QED
      BY <3>1, <3>2
  <2>3. \A q \in Procs : q # p => op'[q] = op[q]
    BY <1>1 DEF IInv, OpPart
  <2>4. op'[p] = o
    BY <1>1 DEF IInv, OpPart
  <2>5. \A q \in Procs : q # p /\ op[q].kind = "set" => op[q].item.val # writes + 1
    BY <1>3, <1>4
  <2>6. ASSUME NEW q \in Procs, NEW r \in Procs,
               op'[q].kind = "set", op'[r].kind = "set",
               op'[q].item.val = op'[r].item.val
        PROVE  q = r
    BY <1>5, <1>7, <2>3, <2>4, <2>5, <2>6 DEF IInv, OpPart
  <2> QED
    BY <2>1, <2>2, <2>6 DEF OpPart
<1>10. last' \in [Keys -> 0..MaxSets]
  BY <1>1, <1>3, <1>4 DEF IInv, StorePart
<1>11. StorePart' /\ TaskPart' /\ HintPart'
  BY <1>1, <1>3, <1>10, FrameGood
<1>12. NetPart'
  BY <1>1 DEF IInv, NetPart, netVars
<1> QED
  BY <1>3, <1>9, <1>11, <1>12 DEF IInv

LEMMA SetDrainingInv ==
  ASSUME IInv, NEW p \in Procs, NEW n \in Nodes, NEW k \in Keys,
         SetDraining(p, n, k)
  PROVE  IInv'
<1>1. /\ NewWrite(n, k, "draining")
      /\ UNCHANGED <<storeVars, stored, last, op, tasks, hintVars, netVars, used>>
  BY DEF SetDraining, StoreUnchanged, callVars
<1>2. UNCHANGED versionCounter /\ writes' = writes + 1 /\ "draining" \in Results
  BY <1>1 DEF storeVars, NewWrite, Results
<1>3. /\ RecordPart'
      /\ \A c \in Item : Good(c) => Good(c)'
      /\ \A q \in Procs : OpOK(op[q]) /\ op[q] \in Op
      /\ \A x \in Op : OpOK(x) =>
           /\ Good(x.item)'
           /\ x.kind = "set" =>
                 /\ x.item.val \in 1..writes'
                 /\ wr'[x.item.val] = wr[x.item.val]
  BY <1>1, <1>2, NewWriteInv
<1>4. OpPart'
  <2>1. ASSUME NEW q \in Procs PROVE OpOK(op[q])'
    <3>1. OpOK(op[q]) /\ op[q] \in Op /\ op'[q] = op[q]
      BY <1>1, <1>3
    <3>2. Good(op[q].item)'
      BY <1>3, <3>1 DEF Good
    <3> QED
      BY <1>3, <3>1, <3>2 DEF OpOK
  <2> QED
    BY <1>1, <2>1 DEF IInv, OpPart
<1>5. StorePart' /\ TaskPart' /\ HintPart'
  <2>1. last' \in [Keys -> 0..MaxSets]
    BY <1>1 DEF IInv, StorePart
  <2> QED
    BY <1>1, <1>3, <2>1, FrameGood
<1>6. NetPart'
  BY <1>1 DEF IInv, NetPart, netVars
<1> QED
  BY <1>3, <1>4, <1>5, <1>6 DEF IInv

LEMMA TaskChange ==
  ASSUME IInv, UNCHANGED <<writes, wr>>, NEW s \in Slots, NEW t \in Task,
         Good(t.item), tasks' = [tasks EXCEPT ![s] = t]
  PROVE  TaskPart'
<1>1. tasks' \in [Slots -> Task] /\ \A r \in Slots : Good(tasks'[r].item)
  BY DEF IInv, TaskPart
<1> QED
  BY <1>1, GoodStable DEF TaskPart

LEMMA LocalRemoveType ==
  ASSUME RecordPart, NEW n \in Nodes, NEW k \in Keys
  PROVE  LocalRemove(n, k) \in Task /\ Good(LocalRemove(n, k).item)
<1>1. replicas(k) \subseteq Nodes /\ NoItem \in Item /\ Good(NoItem)
  BY OwnersType, NoItemGood
<1> QED
  BY <1>1 DEF LocalRemove, Task

LEMMA NewCallOK ==
  ASSUME RecordPart, NEW n \in Nodes, NEW k \in Keys, NEW todo \in SUBSET Nodes,
         NEW kind \in {"remove", "get"}, NEW pc \in {"forward", "local", "read"},
         pc = "read" <=> kind = "get",
         NEW o, o \in {NewCall(kind, n, k, pc, NoItem),
                       [NewCall(kind, n, k, pc, NoItem) EXCEPT !.todo = todo]}
  PROVE  o \in Op /\ OpOK(o) /\ o.kind # "set"
<1>1. NoItem \in Item /\ Good(NoItem)
  BY NoItemGood
<1>2. /\ o \in Op /\ o.kind = kind /\ o.item = NoItem /\ o.node = n /\ o.pc = pc
  <2>1. CASE o = NewCall(kind, n, k, pc, NoItem)
    BY <1>1, <2>1, IdleType DEF NewCall, Idle, Op, PCs
  <2>2. CASE o = [NewCall(kind, n, k, pc, NoItem) EXCEPT !.todo = todo]
    BY <1>1, <2>2, IdleType DEF NewCall, Idle, Op, PCs
  <2> QED
    BY <2>1, <2>2
<1>3. OpOK(o)
  BY <1>1, <1>2 DEF OpOK
<1> QED
  BY <1>2, <1>3

LEMMA BeginRemoveInv ==
  ASSUME IInv, NEW p \in Procs, NEW n \in Nodes, NEW k \in Keys,
         BeginRemove(p, n, k)
  PROVE  IInv'
<1>1. /\ Use("removes")
      /\ last' = [last EXCEPT ![k] = 0]
      /\ UNCHANGED <<storeVars, stored, hintVars, netVars, writes, wr>>
  BY DEF BeginRemove
<1>2. p \in Slots /\ MaxSets \in Nat
  BY ParametersAssumption DEF Slots
<1>3. NetPart'
  BY <1>1, UseType DEF IInv, NetPart, netVars, Bounds
<1>4. StorePart'
  <2>1. last' \in [Keys -> 0..MaxSets]
    BY <1>1, <1>2 DEF IInv, StorePart
  <2> QED
    BY <1>1, <2>1, GoodStable, FrameGood
<1>5. PICK pc \in {"local", "forward"} :
         op' = [op EXCEPT ![p] = NewCall("remove", n, k, pc, NoItem)]
  BY DEF BeginRemove
<1>6. OpPart'
  <2> DEFINE o == NewCall("remove", n, k, pc, NoItem)
  <2>2. o \in Op /\ OpOK(o) /\ o.kind # "set"
    <3>1. RecordPart /\ {} \in SUBSET Nodes
      BY DEF IInv
    <3> HIDE DEF o
    <3>2. o \in {NewCall("remove", n, k, pc, NoItem),
                [NewCall("remove", n, k, pc, NoItem) EXCEPT !.todo = {}]}
      BY DEF o
    <3> QED
      BY <3>1, <3>2, NewCallOK
  <2> HIDE DEF o
  <2>3. op' = [op EXCEPT ![p] = o]
    BY <1>5 DEF o
  <2> QED
    BY <1>1, <2>2, <2>3, OpChange
<1>7. TaskPart'
  <2>1. UNCHANGED tasks \/ tasks' = [tasks EXCEPT ![p] = LocalRemove(n, k)]
    BY DEF BeginRemove
  <2>2. LocalRemove(n, k) \in Task /\ Good(LocalRemove(n, k).item)
    BY LocalRemoveType DEF IInv
  <2> QED
    BY <1>1, <1>2, <2>1, <2>2, TaskChange, Frame
<1> QED
  BY <1>1, <1>3, <1>4, <1>6, <1>7, Frame DEF IInv, storeVars

LEMMA BeginGetInv ==
  ASSUME IInv, NEW p \in Procs, NEW n \in Nodes, NEW k \in Keys, BeginGet(p, n, k)
  PROVE  IInv'
<1> DEFINE o == [NewCall("get", n, k, "read", NoItem) EXCEPT !.todo = Range(Owners[k])]
<1>1. /\ Use("gets")
      /\ UNCHANGED op \/ op' = [op EXCEPT ![p] = o]
      /\ StoreUnchanged
      /\ UNCHANGED <<tasks, hintVars, netVars, writes, wr>>
  BY DEF BeginGet
<1>2. NetPart'
  BY <1>1, UseType DEF IInv, NetPart, netVars, Bounds
<1>3. RecordPart /\ Range(Owners[k]) \in SUBSET Nodes
  BY OwnersType DEF IInv
<1> HIDE DEF o
<1>5. o \in Op /\ OpOK(o) /\ o.kind # "set"
  <2>1. o \in {NewCall("get", n, k, "read", NoItem),
               [NewCall("get", n, k, "read", NoItem) EXCEPT !.todo = Range(Owners[k])]}
    BY DEF o
  <2> QED
    BY <1>3, <2>1, NewCallOK
<1>4. OpPart'
  BY <1>1, <1>5, OpChange, Frame
<1> QED
  BY <1>1, <1>2, <1>4, Frame DEF IInv, StoreUnchanged, storeVars

-----------------------------------------------------------------------------
(* Forwarding, promotion and the answers to the caller. *)

(* What a step of a running call of p knows of it. *)
LEMMA Running ==
  ASSUME IInv, NEW p \in Procs, op[p].pc # "idle"
  PROVE  /\ op[p] \in Op /\ OpOK(op[p])
         /\ op[p].node \in Nodes /\ op[p].key \in Keys
         /\ op[p].item \in Item /\ Good(op[p].item)
         /\ op[p].kind \in {"set", "remove", "get"}
  BY DEF IInv, OpPart, OpOK, Op

LEMMA ForwardInv ==
  ASSUME IInv, NEW p \in Procs, Forward(p)
  PROVE  IInv'
<1> DEFINE o == [op[p] EXCEPT !.pc = "wait"]
           d == primary(op[p].key)
           t == [kind |-> op[p].kind, at |-> d, key |-> op[p].key,
                 item |-> op[p].item, todo |-> {d} \cup replicas(op[p].key)]
<1>1. /\ op[p].pc = "forward"
      /\ op' = [op EXCEPT ![p] = o]
      /\ tasks' = [tasks EXCEPT ![p] = t]
      /\ StoreUnchanged
      /\ UNCHANGED <<hintVars, netVars, writes, used, wr>>
  BY DEF Forward
<1>2. /\ op[p] \in Op /\ OpOK(op[p]) /\ op[p].key \in Keys
      /\ op[p].item \in Item /\ Good(op[p].item)
      /\ op[p].kind \in {"set", "remove"}
  BY <1>1, Running DEF OpOK
<1>3. o \in Op /\ OpOK(o) /\ (o.kind = op[p].kind) /\ o.item = op[p].item
  <2>1. /\ o \in Op /\ o.kind = op[p].kind /\ o.item = op[p].item
        /\ o.node = op[p].node /\ o.pc = "wait"
    BY <1>2 DEF Op, PCs
  <2> QED
    BY <1>1, <1>2, <2>1 DEF OpOK
<1>4. t \in Task /\ Good(t.item)
  BY <1>2, OwnersType DEF Task
<1> HIDE DEF o, t
<1>5. OpPart'
  BY <1>1, <1>3, OpChange
<1>6. TaskPart'
  BY <1>1, <1>4, TaskChange DEF Slots
<1> QED
  BY <1>1, <1>5, <1>6, Frame DEF IInv, StoreUnchanged, storeVars

LEMMA ForwardReturnInv ==
  ASSUME IInv, NEW p \in Procs, ForwardReturn(p)
  PROVE  IInv'
<1>1. /\ op[p].pc # "idle" /\ Finish(p, "forwarded") /\ "forwarded" \in Results
      /\ StoreUnchanged
      /\ UNCHANGED <<tasks, hintVars, netVars, writes, used>>
  BY DEF ForwardReturn, Results
<1>2. UNCHANGED versionCounter /\ last' \in [Keys -> 0..MaxSets]
  BY <1>1 DEF StoreUnchanged, storeVars, IInv, StorePart
<1>3. OpPart' /\ RecordPart' /\ \A c \in Item : Good(c) => Good(c)'
  BY <1>1, <1>2, FinishInv
<1>4. StorePart' /\ TaskPart' /\ HintPart'
  BY <1>1, <1>2, <1>3, FrameGood DEF StoreUnchanged
<1>5. NetPart'
  BY <1>1 DEF IInv, NetPart, netVars
<1> QED
  BY <1>3, <1>4, <1>5 DEF IInv

LEMMA SetReturnInv ==
  ASSUME IInv, NEW p \in Procs, SetReturn(p)
  PROVE  IInv'
<1>1. PICK r \in {"ok", "quorumFailed"} : Finish(p, r)
  BY DEF SetReturn
<1>2. /\ op[p].pc # "idle" /\ r \in Results
      /\ StoreUnchanged
      /\ UNCHANGED <<tasks, hintVars, netVars, writes, used>>
  BY DEF SetReturn, Results
<1>3. UNCHANGED versionCounter /\ last' \in [Keys -> 0..MaxSets]
  BY <1>2 DEF StoreUnchanged, storeVars, IInv, StorePart
<1>4. OpPart' /\ RecordPart' /\ \A c \in Item : Good(c) => Good(c)'
  BY <1>1, <1>2, <1>3, FinishInv
<1>5. StorePart' /\ TaskPart' /\ HintPart'
  BY <1>2, <1>3, <1>4, FrameGood DEF StoreUnchanged
<1>6. NetPart'
  BY <1>2 DEF IInv, NetPart, netVars
<1> QED
  BY <1>4, <1>5, <1>6 DEF IInv

LEMMA PromoteOrFailInv ==
  ASSUME IInv, NEW p \in Procs, op[p].pc \in {"forward", "wait"},
         NEW ts \in [Slots -> Task], \A s \in Slots : Good(ts[s].item),
         PromoteOrFail(p, ts), UNCHANGED <<writes, versionCounter>>
  PROVE  /\ OpPart' /\ TaskPart' /\ RecordPart'
         /\ \A c \in Item : Good(c) => Good(c)'
<1>1. /\ op[p] \in Op /\ OpOK(op[p]) /\ op[p].key \in Keys /\ op[p].node \in Nodes
      /\ op[p].item \in Item /\ Good(op[p].item)
  BY Running
<1>2. CASE /\ op[p].kind = "set"
           /\ op' = [op EXCEPT ![p].pc = "stamp", ![p].promoted = TRUE]
           /\ tasks' = ts
           /\ UNCHANGED wr
  <2> DEFINE o == [op[p] EXCEPT !.pc = "stamp", !.promoted = TRUE]
  <2>1. /\ o \in Op /\ o.kind = "set" /\ o.item = op[p].item
        /\ o.node = op[p].node /\ o.pc = "stamp"
    BY <1>1, <1>2 DEF Op, PCs
  <2>2. op' = [op EXCEPT ![p] = o]
    BY <1>2
  <2> HIDE DEF o
  <2>3. OpOK(o)
    BY <1>1, <1>2, <2>1 DEF OpOK
  <2>4. OpPart'
    BY <1>2, <2>1, <2>2, <2>3, OpChange
  <2>5. TaskPart'
    BY <1>2, GoodStable DEF TaskPart
  <2> QED
    BY <1>2, <2>4, <2>5, Frame, GoodStable
<1>3. CASE /\ op[p].kind = "remove"
           /\ op' = [op EXCEPT ![p].pc = "local"]
           /\ tasks' = [ts EXCEPT ![p] = LocalRemove(op[p].node, op[p].key)]
           /\ UNCHANGED wr
  <2> DEFINE o == [op[p] EXCEPT !.pc = "local"]
             t == LocalRemove(op[p].node, op[p].key)
  <2>1. /\ o \in Op /\ o.kind = "remove" /\ o.item = op[p].item
        /\ o.node = op[p].node /\ o.pc = "local"
    BY <1>1, <1>3 DEF Op, PCs
  <2>2. op' = [op EXCEPT ![p] = o]
    BY <1>3
  <2> HIDE DEF o
  <2>3. OpOK(o)
    BY <1>1, <1>3, <2>1 DEF OpOK
  <2>4. OpPart'
    BY <1>3, <2>1, <2>2, <2>3, OpChange
  <2>5. t \in Task /\ Good(t.item)
    BY <1>1, LocalRemoveType DEF IInv
  <2> HIDE DEF t
  <2>6. tasks' \in [Slots -> Task] /\ \A s \in Slots : Good(tasks'[s].item)
    BY <1>3, <2>5 DEF t, Slots
  <2>7. TaskPart'
    BY <1>3, <2>6, GoodStable DEF TaskPart
  <2> QED
    BY <1>3, <2>4, <2>7, Frame, GoodStable
<1>4. CASE Finish(p, "error") /\ tasks' = ts
  <2>1. OpPart' /\ RecordPart' /\ \A c \in Item : Good(c) => Good(c)'
    BY <1>4, FinishInv DEF Results
  <2>2. \A s \in Slots : ts[s].item \in Item
    BY DEF Task
  <2>3. TaskPart'
    BY <1>4, <2>1, <2>2 DEF TaskPart, Good
  <2> QED
    BY <2>1, <2>3
<1> QED
  BY <1>2, <1>3, <1>4 DEF PromoteOrFail

LEMMA ForwardUnreachableInv ==
  ASSUME IInv, NEW p \in Procs, ForwardUnreachable(p)
  PROVE  IInv'
<1>1. /\ op[p].pc = "forward" /\ PromoteOrFail(p, tasks)
      /\ StoreUnchanged
      /\ UNCHANGED <<hintVars, netVars, writes, used>>
  BY DEF ForwardUnreachable
<1>2. UNCHANGED versionCounter /\ last' \in [Keys -> 0..MaxSets]
  BY <1>1 DEF StoreUnchanged, storeVars, IInv, StorePart
<1>3. OpPart' /\ TaskPart' /\ RecordPart' /\ \A c \in Item : Good(c) => Good(c)'
  BY <1>1, <1>2, PromoteOrFailInv DEF IInv, TaskPart
<1>4. StorePart' /\ HintPart'
  BY <1>1, <1>2, <1>3, FrameGood DEF StoreUnchanged
<1>5. NetPart'
  BY <1>1 DEF IInv, NetPart, netVars
<1> QED
  BY <1>3, <1>4, <1>5 DEF IInv

LEMMA ForwardTimeoutInv ==
  ASSUME IInv, NEW p \in Procs, ForwardTimeout(p)
  PROVE  IInv'
<1> DEFINE ts == [tasks EXCEPT ![p] = NoTask, ![NextLate] = tasks[p]]
<1>1. /\ op[p].pc = "wait" /\ Use("timeouts") /\ PromoteOrFail(p, ts)
      /\ StoreUnchanged
      /\ UNCHANGED <<hintVars, netVars, writes>>
  BY DEF ForwardTimeout
<1>2. UNCHANGED versionCounter /\ last' \in [Keys -> 0..MaxSets]
  BY <1>1 DEF StoreUnchanged, storeVars, IInv, StorePart
<1>3. NextLate \in Slots /\ p \in Slots /\ used' \in [DOMAIN Bounds -> Nat]
  BY <1>1, LateSlot DEF IInv, Slots
<1>4. NoTask \in Task /\ Good(NoTask.item)
  BY NoTaskType, NoItemGood DEF IInv, NoTask
<1>5. ts \in [Slots -> Task] /\ \A s \in Slots : Good(ts[s].item)
  BY <1>3, <1>4 DEF IInv, TaskPart
<1> HIDE DEF ts
<1>6. OpPart' /\ TaskPart' /\ RecordPart' /\ \A c \in Item : Good(c) => Good(c)'
  BY <1>1, <1>2, <1>5, PromoteOrFailInv
<1>7. StorePart' /\ HintPart'
  BY <1>1, <1>2, <1>6, FrameGood DEF StoreUnchanged
<1>8. NetPart'
  BY <1>1, <1>3 DEF IInv, NetPart, netVars
<1> QED
  BY <1>6, <1>7, <1>8 DEF IInv

-----------------------------------------------------------------------------
(***************************************************************************)
(* The primary path.  Stamp is where uniqueness is won: the counter is     *)
(* above every version the node has given, and the value that is stamped   *)
(* belongs to this call alone and has no stamp yet.                        *)
(***************************************************************************)
LEMMA StampInv ==
  ASSUME IInv, NEW p \in Procs, Stamp(p)
  PROVE  IInv'
<1> DEFINE n  == op[p].node
           w  == op[p].item.val
           v  == versionCounter[n] + 1
           it == [val |-> w, version |-> v, origin |-> n]
           o  == [op[p] EXCEPT !.pc = "apply", !.item = it]
<1>1. /\ op[p].pc = "stamp"
      /\ versionCounter' = [versionCounter EXCEPT ![n] = v]
      /\ op' = [op EXCEPT ![p] = o]
      /\ wr' = [wr EXCEPT ![w].version = v]
      /\ UNCHANGED <<items, tombs, tombVersionCounter, stored, last, tasks,
                     hintVars, netVars, writes, used>>
  BY DEF Stamp
<1>2. /\ op[p] \in Op /\ OpOK(op[p]) /\ n \in Nodes /\ op[p].kind = "set"
      /\ w \in 1..writes /\ wr[w].coord = n /\ wr[w].version = 0
  BY <1>1, Running DEF OpOK
<1>3. writes \in Nat /\ \A x \in 1..writes : x \in Writes
  BY ParametersAssumption DEF IInv, RecordPart, Writes
<1>4. versionCounter[n] \in Nat /\ v \in Nat /\ v > versionCounter[n] /\ n \in Nat
  <2>1. n \in Nat
    BY <1>2, NodesAssumption
  <2>2. versionCounter[n] \in Nat
    BY <1>2 DEF IInv, StorePart, StoreTypeOK
  <2> QED
    BY <2>1, <2>2
<1>5. it \in Item /\ it.val = w /\ it.version = v /\ it.origin = n
  BY <1>2, <1>3, <1>4 DEF Item
<1> HIDE DEF it
<1>6. /\ o \in Op /\ o.pc = "apply" /\ o.kind = "set" /\ o.item = it /\ o.node = n
  BY <1>2, <1>5 DEF Op, PCs
<1> HIDE DEF o, v, n, w
<1>7. /\ wr' \in [Writes -> WriteRecord]
      /\ wr'[w].version = v /\ wr'[w].coord = n
      /\ \A x \in 1..writes : x # w => wr'[x] = wr[x]
  <2>1. w \in Writes /\ wr \in [Writes -> WriteRecord]
    BY <1>2, <1>3 DEF IInv, RecordPart
  <2>2. wr[w] \in WriteRecord /\ [wr[w] EXCEPT !.version = v] \in WriteRecord
    BY <1>4, <2>1 DEF WriteRecord
  <2>3. [wr[w] EXCEPT !.version = v].version = v
        /\ [wr[w] EXCEPT !.version = v].coord = wr[w].coord
    BY <2>2 DEF WriteRecord
  <2>4. wr' = [wr EXCEPT ![w] = [wr[w] EXCEPT !.version = v]]
    BY <1>1
  <2> QED
    BY <1>2, <1>3, <2>1, <2>2, <2>3, <2>4
<1>8. /\ versionCounter' \in [Nodes -> Nat]
      /\ versionCounter'[n] = v
      /\ \A m \in Nodes : versionCounter'[m] >= versionCounter[m]
  BY <1>1, <1>2, <1>4 DEF IInv, StorePart, StoreTypeOK
<1>9. RecordPart'
  <2>1. ASSUME NEW x \in 1..writes
        PROVE  /\ wr'[x].coord \in Nodes
               /\ wr'[x].version <= versionCounter'[wr'[x].coord]
    <3>1. CASE x = w
      BY <1>2, <1>4, <1>7, <1>8, <3>1
    <3>2. CASE x # w
      <4>1. /\ wr'[x] = wr[x] /\ wr[x].coord \in Nodes
            /\ wr[x].version <= versionCounter[wr[x].coord]
            /\ wr[x].version \in Nat
        BY <1>3, <1>7, <3>2 DEF IInv, RecordPart, WriteRecord
      <4>2. versionCounter[wr[x].coord] \in Nat /\ versionCounter'[wr[x].coord] \in Nat
        BY <1>8, <4>1 DEF IInv, StorePart, StoreTypeOK
      <4> QED
        BY <1>8, <4>1, <4>2
    <3> QED
      BY <3>1, <3>2
  <2>2. \A x \in 1..writes : x # w /\ wr[x].coord = n => wr[x].version # v
    <3>1. \A x \in 1..writes : /\ wr[x].version \in Nat
                               /\ wr[x].version <= versionCounter[wr[x].coord]
      BY <1>3 DEF IInv, RecordPart, WriteRecord
    <3> QED
      BY <1>4, <3>1
  <2>3. ASSUME NEW x \in 1..writes, NEW y \in 1..writes,
               wr'[x].version # 0, wr'[x].version = wr'[y].version,
               wr'[x].coord = wr'[y].coord
        PROVE  x = y
    BY <1>7, <2>2, <2>3 DEF IInv, RecordPart
  <2>4. writes' \in 0..MaxSets /\ writes' = writes
    BY <1>1 DEF IInv, RecordPart
  <2> QED
    BY <1>7, <2>1, <2>3, <2>4 DEF RecordPart
<1>10. ASSUME NEW c \in Item, Good(c) PROVE Good(c)'
  <2>1. c.val \in 0..writes'
    BY <1>1, <1>10 DEF Good
  <2>2. ASSUME c.version # 0
        PROVE  c.val # 0 /\ c.version = wr'[c.val].version /\ c.origin = wr'[c.val].coord
    <3>1. /\ c.val # 0 /\ c.version = wr[c.val].version /\ c.origin = wr[c.val].coord
          /\ c.val \in 0..writes
      BY <1>10, <2>2 DEF Good
    <3>2. c.val \in 1..writes /\ c.val # w
      BY <1>2, <1>3, <2>2, <3>1
    <3> QED
      BY <1>7, <3>1, <3>2
  <2> QED
    BY <2>1, <2>2 DEF Good
<1>11. OpPart'
  <2>1. /\ op' \in [Procs -> Op] /\ op'[p] = o
        /\ \A q \in Procs : q # p => op'[q] = op[q]
    BY <1>1, <1>6 DEF IInv, OpPart
  <2>2. ASSUME NEW q \in Procs PROVE OpOK(op[q])'
    <3>1. CASE q = p
      BY <1>1, <1>2, <1>3, <1>4, <1>5, <1>6, <1>7, <2>1, <3>1 DEF OpOK, Good
    <3>2. CASE q # p
      <4>1. /\ op'[q] = op[q] /\ OpOK(op[q]) /\ op[q].item \in Item
            /\ op[q].kind = "set" => op[q].item.val # w
        BY <1>2, <2>1, <3>2 DEF IInv, OpPart, Op, w
      <4>2. Good(op[q].item)'
        BY <1>10, <4>1 DEF OpOK, Good
      <4> QED
        BY <1>1, <1>7, <4>1, <4>2 DEF OpOK
    <3> QED
      BY <3>1, <3>2
  <2>3. op'[p].kind = op[p].kind /\ op'[p].item.val = op[p].item.val
    BY <1>2, <1>5, <1>6, <2>1 DEF w
  <2>4. \A q, r \in Procs :
          /\ op'[q].kind = "set" /\ op'[r].kind = "set"
          /\ op'[q].item.val = op'[r].item.val
          => q = r
    BY <2>1, <2>3 DEF IInv, OpPart
  <2> QED
    BY <2>1, <2>2, <2>4 DEF OpPart
<1>12. StorePart'
  <2>1. ASSUME NEW m \in Nodes, NEW k \in Keys PROVE Good(items[m][k])'
    <3>1. items[m][k] \in Item /\ Good(items[m][k]) /\ items'[m][k] = items[m][k]
      BY <1>1 DEF IInv, StorePart, StoreTypeOK
    <3> QED
      BY <1>10, <3>1 DEF Good
  <2> QED
    BY <1>1, <1>8, <2>1 DEF IInv, StorePart, StoreTypeOK
<1>13. TaskPart' /\ HintPart'
  BY <1>1, <1>10, FrameGood
<1>14. NetPart'
  BY <1>1 DEF IInv, NetPart, netVars
<1> QED
  BY <1>9, <1>11, <1>12, <1>13, <1>14 DEF IInv

LEMMA ApplyInv ==
  ASSUME IInv, NEW p \in Procs, Apply(p)
  PROVE  IInv'
<1> DEFINE S == FanoutTargets(op[p].node, op[p].key, op[p].promoted)
           o == [op[p] EXCEPT !.pc = "fanout", !.acks = 1, !.todo = S]
<1>1. /\ op[p].pc = "apply"
      /\ Put(op[p].node, op[p].key, op[p].item)
      /\ op' = [op EXCEPT ![p] = o]
      /\ UNCHANGED <<tasks, hintVars, netVars, writes, used, wr>>
  BY DEF Apply
<1>2. /\ op[p] \in Op /\ OpOK(op[p]) /\ op[p].node \in Nodes /\ op[p].key \in Keys
      /\ op[p].item \in Item /\ Good(op[p].item)
  BY <1>1, Running
<1>3. StorePart' /\ RecordPart'
  BY <1>1, <1>2, PutStore
<1>4. S \subseteq Nodes
  BY <1>2, OwnersType DEF FanoutTargets
<1> HIDE DEF S
<1>5. /\ o \in Op /\ o.kind = op[p].kind /\ o.item = op[p].item
      /\ o.node = op[p].node /\ o.pc = "fanout"
  BY <1>2, <1>4 DEF Op, PCs
<1> HIDE DEF o
<1>6. OpOK(o)
  BY <1>1, <1>2, <1>5 DEF OpOK
<1>7. OpPart'
  BY <1>1, <1>5, <1>6, OpChange
<1> QED
  BY <1>1, <1>3, <1>7, Frame DEF IInv

(* A call that only crosses an owner off its list stays sound. *)
LEMMA CrossOff ==
  ASSUME IInv, UNCHANGED <<writes, wr>>, NEW p \in Procs, NEW o,
         op[p].pc # "idle",
         \E t : \/ o = [op[p] EXCEPT !.todo = @ \ {t}]
                \/ o = [op[p] EXCEPT !.stale = @ \ {t}]
                \/ o = [op[p] EXCEPT !.todo = @ \ {t}, !.acks = @ + 1],
         op' = [op EXCEPT ![p] = o]
  PROVE  OpPart'
<1>1. op[p] \in Op /\ OpOK(op[p])
  BY Running
<1>2. /\ o \in Op /\ o.kind = op[p].kind /\ o.item = op[p].item
      /\ o.node = op[p].node /\ o.pc = op[p].pc
  <2>1. PICK t : \/ o = [op[p] EXCEPT !.todo = @ \ {t}]
                 \/ o = [op[p] EXCEPT !.stale = @ \ {t}]
                 \/ o = [op[p] EXCEPT !.todo = @ \ {t}, !.acks = @ + 1]
    OBVIOUS
  <2>2. CASE o = [op[p] EXCEPT !.todo = @ \ {t}]
    BY <1>1, <2>2 DEF Op
  <2>3. CASE o = [op[p] EXCEPT !.stale = @ \ {t}]
    BY <1>1, <2>3 DEF Op
  <2>4. CASE o = [op[p] EXCEPT !.todo = @ \ {t}, !.acks = @ + 1]
    <3> DEFINE a == op[p].acks + 1
               S == op[p].todo \ {t}
    <3>1. a \in Nat /\ S \in SUBSET Nodes
      BY <1>1 DEF Op
    <3>2. o = [op[p] EXCEPT !.todo = S, !.acks = a]
      BY <2>4
    <3> HIDE DEF a, S
    <3> QED
      BY <1>1, <3>1, <3>2 DEF Op
  <2> QED
    BY <2>1, <2>2, <2>3, <2>4
<1>3. OpOK(o)
  BY <1>1, <1>2 DEF OpOK
<1> QED
  BY <1>2, <1>3, OpChange

LEMMA FanoutAckInv ==
  ASSUME IInv, NEW p \in Procs, FanoutAck(p)
  PROVE  IInv'
<1>1. PICK t \in Nodes :
        /\ op[p].pc = "fanout"
        /\ Arrive("set", t, op[p].key, op[p].item)
        /\ op' = [op EXCEPT ![p].todo = @ \ {t}, ![p].acks = @ + 1]
        /\ UNCHANGED <<tasks, hintVars, netVars, writes, used, wr>>
  BY DEF FanoutAck
<1>2. op[p].key \in Keys /\ op[p].item \in Item /\ Good(op[p].item)
  BY <1>1, Running
<1>3. StorePart' /\ RecordPart'
  BY <1>1, <1>2, ArriveStore
<1>4. OpPart'
  <2>1. op' = [op EXCEPT ![p] = [op[p] EXCEPT !.todo = @ \ {t}, !.acks = @ + 1]]
    BY <1>1
  <2> QED
    BY <1>1, <2>1, CrossOff
<1> QED
  BY <1>1, <1>3, <1>4, Frame DEF IInv

LEMMA QueueHintPart ==
  ASSUME IInv, UNCHANGED <<writes, wr>>, NEW n \in Nodes, NEW t \in Nodes,
         NEW k \in Keys, NEW it \in Item, Good(it), it.val # 0,
         queueHint(n, t, k, it)
  PROVE  HintPart'
<1> DEFINE h == [key |-> k, item |-> it]
           q == Append(hints[n][t], h)
<1>1. h \in Hint /\ h.item = it
  BY DEF Hint
<1>2. /\ hints' = [hints EXCEPT ![n][t] = q] /\ UNCHANGED <<replay, expired>>
      /\ ~HintsLocked(n)
  BY DEF queueHint
<1> HIDE DEF h
<1>3. hints[n][t] \in Seq(Hint)
  BY DEF IInv, HintPart
<1>4. /\ q \in Seq(Hint)
      /\ \A i \in 1..Len(q) : q[i] = h \/ (i \in 1..Len(hints[n][t]) /\ q[i] = hints[n][t][i])
  BY <1>1, <1>3
<1> HIDE DEF q
<1>5. /\ hints' \in [Nodes -> [Nodes -> Seq(Hint)]]
      /\ \A m, s \in Nodes : hints'[m][s] = IF m = n /\ s = t THEN q ELSE hints[m][s]
  BY <1>2, <1>4 DEF IInv, HintPart
<1>6. ASSUME NEW m \in Nodes, NEW s \in Nodes, NEW i \in 1..Len(hints'[m][s])
      PROVE  Good(hints'[m][s][i].item) /\ hints'[m][s][i].item.val # 0
  <2>1. CASE m = n /\ s = t /\ q[i] = h
    BY <1>1, <1>5, <2>1
  <2>2. CASE i \in 1..Len(hints[m][s]) /\ hints'[m][s][i] = hints[m][s][i]
    BY <2>2 DEF IInv, HintPart
  <2> QED
    BY <1>4, <1>5, <2>1, <2>2
<1>7. (\A m, s \in Nodes : \A i \in 1..Len(hints[m][s]) :
         Good(hints[m][s][i].item) /\ hints[m][s][i].item.val # 0)'
  BY <1>6, GoodStable
<1>8. ASSUME NEW m \in Nodes
      PROVE  /\ replay'[m].left > 0 =>
                  /\ replay'[m].cur \in Nodes
                  /\ replay'[m].left <= Len(hints'[m][replay'[m].cur])
             /\ \A s \in replay'[m].todo : hints'[m][s] # <<>>
  <2>1. CASE m = n
    BY <1>2, <2>1 DEF HintsLocked
  <2>2. CASE m # n
    <3>1. replay[m].todo \subseteq Nodes /\ replay'[m] = replay[m]
      BY <1>2 DEF IInv, HintPart, Pass
    <3>2. \A s \in Nodes : hints'[m][s] = hints[m][s]
      BY <1>5, <2>2
    <3> QED
      BY <3>1, <3>2 DEF IInv, HintPart
  <2> QED
    BY <2>1, <2>2
<1> QED
  BY <1>2, <1>5, <1>7, <1>8 DEF IInv, HintPart

LEMMA FanoutErrorInv ==
  ASSUME IInv, NEW p \in Procs, FanoutError(p)
  PROVE  IInv'
<1>1. PICK t \in Nodes :
        /\ op[p].pc = "fanout"
        /\ UNCHANGED <<tasks, used>> \/ ArriveLate("set", t, op[p].key, op[p].item)
        /\ queueHint(op[p].node, t, op[p].key, op[p].item)
        /\ op' = [op EXCEPT ![p].todo = @ \ {t}]
        /\ StoreUnchanged
        /\ UNCHANGED <<netVars, writes, wr>>
  BY DEF FanoutError
<1>2. /\ op[p].key \in Keys /\ op[p].item \in Item /\ Good(op[p].item)
      /\ op[p].node \in Nodes /\ op[p].item.val # 0
  BY <1>1, Running DEF OpOK
<1>3. TaskPart' /\ NetPart'
  <2>1. CASE UNCHANGED <<tasks, used>>
    BY <1>1, <2>1, Frame
  <2>2. CASE ArriveLate("set", t, op[p].key, op[p].item)
    BY <1>1, <1>2, <2>2, LateTask DEF IInv, NetPart, netVars
  <2> QED
    BY <1>1, <2>1, <2>2
<1>4. HintPart'
  BY <1>1, <1>2, QueueHintPart
<1>5. OpPart'
  <2>1. op' = [op EXCEPT ![p] = [op[p] EXCEPT !.todo = @ \ {t}]]
    BY <1>1
  <2> QED
    BY <1>1, <2>1, CrossOff
<1> QED
  BY <1>1, <1>3, <1>4, <1>5, Frame DEF IInv, StoreUnchanged, storeVars

-----------------------------------------------------------------------------
(* Reads and repairs. *)

(* A read call that ends changes nothing but its own record. *)
LEMMA ReadEnds ==
  ASSUME IInv, NEW p \in Procs, op' = [op EXCEPT ![p] = Idle],
         UNCHANGED <<writes, wr>>
  PROVE  OpPart'
  BY IdleType, IdleOK, OpChange DEF IInv

LEMMA FetchGood ==
  ASSUME IInv, NEW n, NEW t \in Nodes, NEW k \in Keys
  PROVE  Fetch(n, t, k) \in Item /\ Good(Fetch(n, t, k))
<1>1. NoItem \in Item /\ Good(NoItem)
  BY NoItemGood DEF IInv
<1>2. items[t][k] \in Item /\ Good(items[t][k])
  BY DEF IInv, StorePart, StoreTypeOK
<1> QED
  BY <1>1, <1>2 DEF Fetch

LEMMA ReadOneInv ==
  ASSUME IInv, NEW p \in Procs, ReadOne(p)
  PROVE  IInv'
<1>1. PICK t \in Nodes :
        /\ op[p].pc = "read"
        /\ \/ /\ op' = [op EXCEPT ![p].todo = @ \ {t}]
              /\ StoreUnchanged
           \/ /\ op' = [op EXCEPT ![p] = Idle]
              /\ \/ Put(op[p].node, op[p].key, Fetch(op[p].node, t, op[p].key))
                 \/ StoreUnchanged
        /\ UNCHANGED <<tasks, hintVars, netVars, writes, used, wr>>
  BY DEF ReadOne
<1>2. op[p].node \in Nodes /\ op[p].key \in Keys
  BY <1>1, Running
<1>3. Fetch(op[p].node, t, op[p].key) \in Item /\ Good(Fetch(op[p].node, t, op[p].key))
  BY <1>2, FetchGood
<1>4. OpPart'
  <2>1. CASE op' = [op EXCEPT ![p].todo = @ \ {t}]
    <3>1. op' = [op EXCEPT ![p] = [op[p] EXCEPT !.todo = @ \ {t}]]
      BY <2>1
    <3> QED
      BY <1>1, <3>1, CrossOff
  <2> QED
    BY <1>1, <2>1, ReadEnds
<1>5. StorePart' /\ RecordPart'
  BY <1>1, <1>2, <1>3, PutStore, Frame DEF StoreUnchanged, storeVars
<1> QED
  BY <1>1, <1>4, <1>5, Frame DEF IInv

LEMMA ReadQuorumInv ==
  ASSUME IInv, NEW p \in Procs, ReadQuorum(p)
  PROVE  IInv'
<1>1. op[p].pc = "read" /\ StoreUnchanged
      /\ UNCHANGED <<tasks, hintVars, netVars, writes, used, wr>>
  BY DEF ReadQuorum
<1>2. /\ op[p] \in Op /\ OpOK(op[p]) /\ op[p].node \in Nodes /\ op[p].key \in Keys
      /\ op[p].item \in Item /\ Good(op[p].item) /\ op[p].todo \subseteq Nodes
      /\ op[p].kind = "get" /\ op[p].acks + 1 \in Nat /\ op[p].stale \subseteq Nodes
  BY <1>1, Running DEF OpOK, Op
<1>3. PICK t \in op[p].todo :
        LET o      == op[p]
            it     == Fetch(o.node, t, o.key)
            chosen == chooseNewer(o.item, it)
            stale  == IF Present(o.item) /\ chosen # o.item
                      THEN o.stale \cup {t} ELSE o.stale
        IN  \/ op' = [op EXCEPT ![p].todo = @ \ {t}]
            \/ op' = [op EXCEPT ![p].todo = @ \ {t}, ![p].acks = o.acks + 1,
                               ![p].item = chosen, ![p].stale = stale]
            \/ op' = [op EXCEPT ![p].pc = "repair",
                               ![p].todo = Range(Owners[o.key]),
                               ![p].acks = 0, ![p].item = chosen,
                               ![p].stale = stale \ {o.node}]
  BY DEF ReadQuorum
<1> DEFINE it     == Fetch(op[p].node, t, op[p].key)
           chosen == chooseNewer(op[p].item, it)
           stale  == IF Present(op[p].item) /\ chosen # op[p].item
                     THEN op[p].stale \cup {t} ELSE op[p].stale
<1>4. it \in Item /\ Good(it)
  BY <1>2, FetchGood
<1> HIDE DEF it
<1>5. chosen \in Item /\ Good(chosen)
  BY <1>2, <1>4 DEF chooseNewer
<1> HIDE DEF chosen
<1>6. stale \subseteq Nodes
  BY <1>2
<1> HIDE DEF stale
<1>7. OpPart'
  <2>1. CASE op' = [op EXCEPT ![p].todo = @ \ {t}]
    <3>1. op' = [op EXCEPT ![p] = [op[p] EXCEPT !.todo = @ \ {t}]]
      BY <2>1
    <3> QED
      BY <1>1, <3>1, CrossOff
  <2>2. CASE op' = [op EXCEPT ![p].todo = @ \ {t}, ![p].acks = op[p].acks + 1,
                              ![p].item = chosen, ![p].stale = stale]
    <3> DEFINE a == op[p].acks + 1
               S == op[p].todo \ {t}
               o == [op[p] EXCEPT !.todo = S, !.acks = a, !.item = chosen, !.stale = stale]
    <3>1. a \in Nat /\ S \subseteq Nodes
      BY <1>2
    <3>2. op' = [op EXCEPT ![p] = o]
      BY <2>2
    <3> HIDE DEF a, S
    <3>3. /\ o \in Op /\ o.kind = "get" /\ o.item = chosen
          /\ o.node = op[p].node /\ o.pc = "read"
      BY <1>1, <1>2, <1>5, <1>6, <3>1 DEF Op
    <3> HIDE DEF o
    <3>4. OpOK(o)
      BY <1>2, <1>5, <3>3 DEF OpOK
    <3> QED
      BY <1>1, <3>2, <3>3, <3>4, OpChange
  <2>3. CASE op' = [op EXCEPT ![p].pc = "repair", ![p].todo = Range(Owners[op[p].key]),
                              ![p].acks = 0, ![p].item = chosen,
                              ![p].stale = stale \ {op[p].node}]
    <3> DEFINE R == Range(Owners[op[p].key])
               S == stale \ {op[p].node}
               o == [op[p] EXCEPT !.pc = "repair", !.todo = R, !.acks = 0,
                                  !.item = chosen, !.stale = S]
    <3>1. R \subseteq Nodes /\ S \subseteq Nodes
      BY <1>2, <1>6, OwnersType
    <3>2. op' = [op EXCEPT ![p] = o]
      BY <2>3
    <3> HIDE DEF R, S
    <3>3. /\ o \in Op /\ o.kind = "get" /\ o.item = chosen
          /\ o.node = op[p].node /\ o.pc = "repair"
      BY <1>2, <1>5, <3>1 DEF Op, PCs
    <3> HIDE DEF o
    <3>4. OpOK(o)
      BY <1>2, <1>5, <3>3 DEF OpOK
    <3> QED
      BY <1>1, <3>2, <3>3, <3>4, OpChange
  <2> QED
    BY <1>3, <2>1, <2>2, <2>3 DEF it, chosen, stale
<1> QED
  BY <1>1, <1>7, Frame DEF IInv, StoreUnchanged, storeVars

LEMMA ReadEndInv ==
  ASSUME IInv, NEW p \in Procs, ReadMiss(p) \/ GetReturn(p)
  PROVE  IInv'
<1>1. /\ op' = [op EXCEPT ![p] = Idle]
      /\ StoreUnchanged
      /\ UNCHANGED <<tasks, hintVars, netVars, writes, used, wr>>
  BY DEF ReadMiss, GetReturn
<1> QED
  BY <1>1, ReadEnds, Frame DEF IInv, StoreUnchanged, storeVars

LEMMA RepairedOp ==
  ASSUME IInv, UNCHANGED <<writes, wr>>, NEW p \in Procs, NEW t,
         op[p].pc = "repair", op' = [op EXCEPT ![p] = Repaired(op[p], t)]
  PROVE  OpPart'
<1> DEFINE o == Repaired(op[p], t)
<1>1. \/ o = [op[p] EXCEPT !.todo = @ \ {t}]
      \/ o = [op[p] EXCEPT !.stale = @ \ {t}]
  BY DEF Repaired
<1> HIDE DEF o
<1> QED
  BY <1>1, CrossOff DEF o

LEMMA RepairLocalInv ==
  ASSUME IInv, NEW p \in Procs, RepairLocal(p)
  PROVE  IInv'
<1>1. /\ op[p].pc = "repair"
      /\ Put(op[p].node, op[p].key, op[p].item) \/ StoreUnchanged
      /\ op' = [op EXCEPT ![p] = Repaired(op[p], op[p].node)]
      /\ UNCHANGED <<tasks, hintVars, netVars, writes, used, wr>>
  BY DEF RepairLocal
<1>2. /\ op[p].node \in Nodes /\ op[p].key \in Keys
      /\ op[p].item \in Item /\ Good(op[p].item)
  BY <1>1, Running
<1>3. StorePart' /\ RecordPart'
  BY <1>1, <1>2, PutStore, Frame DEF StoreUnchanged, storeVars
<1> QED
  BY <1>1, <1>3, RepairedOp, Frame DEF IInv

LEMMA RepairRemoteInv ==
  ASSUME IInv, NEW p \in Procs, RepairRemote(p)
  PROVE  IInv'
<1>1. PICK t \in Nodes :
        /\ op[p].pc = "repair"
        /\ \/ Arrive("set", t, op[p].key, op[p].item) /\ UNCHANGED <<tasks, used>>
           \/ StoreUnchanged /\ UNCHANGED <<tasks, used>>
           \/ StoreUnchanged /\ ArriveLate("set", t, op[p].key, op[p].item)
        /\ op' = [op EXCEPT ![p] = Repaired(op[p], t)]
        /\ UNCHANGED <<hintVars, netVars, writes, wr>>
  BY DEF RepairRemote
<1>2. op[p].key \in Keys /\ op[p].item \in Item /\ Good(op[p].item)
  BY <1>1, Running
<1>3. StorePart' /\ RecordPart'
  BY <1>1, <1>2, ArriveStore, Frame DEF StoreUnchanged, storeVars
<1>4. TaskPart' /\ NetPart'
  <2>1. CASE UNCHANGED <<tasks, used>>
    BY <1>1, <2>1, Frame
  <2>2. CASE ArriveLate("set", t, op[p].key, op[p].item)
    BY <1>1, <1>2, <2>2, LateTask DEF IInv, NetPart, netVars
  <2> QED
    BY <1>1, <2>1, <2>2
<1> QED
  BY <1>1, <1>3, <1>4, RepairedOp, Frame DEF IInv

-----------------------------------------------------------------------------
(* Hint replay. *)

LEMMA RemoveAtType ==
  ASSUME NEW S, NEW s \in Seq(S), NEW i \in 1..Len(s)
  PROVE  /\ RemoveAt(s, i) \in Seq(S)
         /\ Len(RemoveAt(s, i)) = Len(s) - 1
         /\ \A j \in 1..Len(RemoveAt(s, i)) :
              \E m \in 1..Len(s) : RemoveAt(s, i)[j] = s[m]
<1> DEFINE a == SubSeq(s, 1, i - 1)
           b == SubSeq(s, i + 1, Len(s))
<1>1. /\ a \in Seq(S) /\ Len(a) = i - 1
      /\ \A j \in 1..(i - 1) : a[j] = s[j]
  OBVIOUS
<1>2. /\ b \in Seq(S) /\ Len(b) = Len(s) - i
      /\ \A j \in 1..(Len(s) - i) : b[j] = s[i + j]
  OBVIOUS
<1>3. RemoveAt(s, i) = a \o b
  BY DEF RemoveAt
<1> HIDE DEF a, b
<1>4. /\ a \o b \in Seq(S) /\ Len(a \o b) = Len(s) - 1
      /\ \A j \in 1..(Len(s) - 1) :
           (a \o b)[j] = IF j <= i - 1 THEN a[j] ELSE b[j - (i - 1)]
  <2>1. i \in Nat /\ Len(s) \in Nat /\ 1 <= i /\ i <= Len(s)
    OBVIOUS
  <2>2. a \o b \in Seq(S) /\ Len(a \o b) = Len(a) + Len(b)
    BY <1>1, <1>2, ConcatProperties
  <2>3. \A j \in 1..(Len(a) + Len(b)) :
          (a \o b)[j] = IF j <= Len(a) THEN a[j] ELSE b[j - Len(a)]
    BY <1>1, <1>2, ConcatProperties
  <2>4. Len(a) + Len(b) = Len(s) - 1
    BY <1>1, <1>2, <2>1
  <2> QED
    BY <1>1, <2>2, <2>3, <2>4
<1>5. ASSUME NEW j \in 1..(Len(s) - 1)
      PROVE  \E m \in 1..Len(s) : (a \o b)[j] = s[m]
  <2>1. CASE j <= i - 1
    <3>1. j \in 1..Len(s) /\ (a \o b)[j] = s[j]
      BY <1>1, <1>4, <2>1
    <3> QED
      BY <3>1
  <2>2. CASE ~(j <= i - 1)
    <3>1. j + 1 \in 1..Len(s) /\ (a \o b)[j] = s[j + 1]
      BY <1>2, <1>4, <2>2
    <3> QED
      BY <3>1
  <2> QED
    BY <2>1, <2>2
<1> QED
  BY <1>3, <1>4, <1>5

(* The pass is always at an entry of the queue it is in. *)
LEMMA InPassType ==
  ASSUME HintPart, NEW n \in Nodes, NEW t \in Nodes, InPass(n, t)
  PROVE  /\ LeftOf(n, t) \in 1..Len(hints[n][t])
         /\ CurrentHint(n, t) \in 1..Len(hints[n][t])
         /\ Len(hints[n][t]) \in Nat
<1>1. hints[n][t] \in Seq(Hint) /\ replay[n] \in Pass
  BY DEF HintPart
<1>2. Len(hints[n][t]) \in Nat /\ replay[n].left \in Nat
  BY <1>1 DEF Pass
<1>3. LeftOf(n, t) \in 1..Len(hints[n][t])
  <2>1. CASE replay[n].left > 0
    BY <1>2, <2>1 DEF HintPart, InPass, LeftOf
  <2>2. CASE ~(replay[n].left > 0)
    <3>1. hints[n][t] # <<>> /\ LeftOf(n, t) = Len(hints[n][t])
      BY <2>2 DEF HintPart, InPass, LeftOf
    <3>2. Len(hints[n][t]) # 0
      BY <1>1, <3>1
    <3> QED
      BY <1>2, <3>1, <3>2
  <2> QED
    BY <2>1, <2>2
<1> QED
  BY <1>2, <1>3 DEF CurrentHint

LEMMA AdvanceType ==
  ASSUME HintPart, NEW n \in Nodes, NEW t \in Nodes, InPass(n, t), Advance(n, t)
  PROVE  /\ replay' \in [Nodes -> Pass]
         /\ \A m \in Nodes : m # n => replay'[m] = replay[m]
         /\ replay'[n].todo \subseteq replay[n].todo \ {t}
         /\ replay'[n].left > 0 =>
              replay'[n].cur = t /\ replay'[n].left = LeftOf(n, t) - 1
<1> DEFINE r == IF LeftOf(n, t) = 1 /\ replay[n].todo \subseteq {t} THEN NoPass
                ELSE [cur |-> t, left |-> LeftOf(n, t) - 1, todo |-> replay[n].todo \ {t}]
<1>1. replay' = [replay EXCEPT ![n] = r]
  BY DEF Advance
<1>2. LeftOf(n, t) - 1 \in Nat
  BY InPassType
<1>3. replay[n].todo \subseteq Nodes /\ replay \in [Nodes -> Pass]
  BY DEF HintPart, Pass
<1>4. /\ r \in Pass /\ r.todo \subseteq replay[n].todo \ {t}
      /\ r.left > 0 => r.cur = t /\ r.left = LeftOf(n, t) - 1
  BY <1>2, <1>3 DEF Pass, NoPass
<1> HIDE DEF r
<1> QED
  BY <1>1, <1>3, <1>4

LEMMA ReplayHintInv ==
  ASSUME IInv, NEW n \in Nodes, NEW t \in Nodes, ReplayHint(n, t)
  PROVE  IInv'
<1> DEFINE i == CurrentHint(n, t)
           h == hints[n][t][i]
           q == RemoveAt(hints[n][t], i)
<1>1. /\ InPass(n, t) /\ Advance(n, t) /\ UNCHANGED <<op, netVars, writes, wr>>
      /\ \/ UNCHANGED hints
         \/ hints' = [hints EXCEPT ![n][t] = q]
      /\ expired' \in {expired, expired \cup {<<h.item.val, t>>}}
      /\ StoreUnchanged \/ Arrive("set", t, h.key, h.item)
      /\ \/ UNCHANGED tasks /\ (UNCHANGED used \/ Use("expiries"))
         \/ ArriveLate("set", t, h.key, h.item)
  BY DEF ReplayHint
<1>2. HintPart
  BY DEF IInv
<1>3. i \in 1..Len(hints[n][t]) /\ LeftOf(n, t) \in 1..Len(hints[n][t])
      /\ Len(hints[n][t]) \in Nat
  BY <1>1, <1>2, InPassType
<1> HIDE DEF i
<1>4. h.item \in Item /\ h.key \in Keys /\ Good(h.item) /\ h.item.val # 0
  BY <1>2, <1>3, HintType DEF HintPart
<1>5. StorePart' /\ RecordPart'
  BY <1>1, <1>4, ArriveStore, Frame DEF StoreUnchanged, storeVars
<1>6. TaskPart' /\ NetPart'
  <2>1. CASE UNCHANGED tasks /\ (UNCHANGED used \/ Use("expiries"))
    BY <1>1, <2>1, UseType, Frame DEF IInv, NetPart, netVars, Bounds
  <2>2. CASE ArriveLate("set", t, h.key, h.item)
    BY <1>1, <1>4, <2>2, LateTask DEF IInv, NetPart, netVars
  <2> QED
    BY <1>1, <2>1, <2>2
<1>7. <<h.item.val, t>> \in Writes \X Nodes
  BY <1>4, ParametersAssumption DEF IInv, RecordPart, Good, Writes
<1>8. expired' \in SUBSET (Writes \X Nodes)
  BY <1>1, <1>7 DEF IInv, HintPart
<1> HIDE DEF h
<1>9. /\ replay' \in [Nodes -> Pass]
      /\ \A m \in Nodes : m # n => replay'[m] = replay[m]
      /\ replay'[n].todo \subseteq replay[n].todo \ {t}
      /\ replay'[n].left > 0 =>
           replay'[n].cur = t /\ replay'[n].left = LeftOf(n, t) - 1
  BY <1>1, <1>2, AdvanceType
<1>10. hints[n][t] \in Seq(Hint)
  BY <1>2 DEF HintPart
<1>11. /\ q \in Seq(Hint) /\ Len(q) = Len(hints[n][t]) - 1
       /\ \A j \in 1..Len(q) : \E m \in 1..Len(hints[n][t]) : q[j] = hints[n][t][m]
  BY <1>3, <1>10, RemoveAtType
<1> HIDE DEF q
<1>12. /\ hints' \in [Nodes -> [Nodes -> Seq(Hint)]]
       /\ hints'[n][t] \in {hints[n][t], q}
       /\ \A m, s \in Nodes : ~(m = n /\ s = t) => hints'[m][s] = hints[m][s]
  <2>1. CASE UNCHANGED hints
    BY <1>2, <2>1 DEF HintPart
  <2>2. CASE hints' = [hints EXCEPT ![n][t] = q]
    BY <1>2, <1>11, <2>2 DEF HintPart
  <2> QED
    BY <1>1, <2>1, <2>2
<1>13. ASSUME NEW m \in Nodes, NEW s \in Nodes, NEW j \in 1..Len(hints'[m][s])
       PROVE  Good(hints'[m][s][j].item) /\ hints'[m][s][j].item.val # 0
  <2>1. \E x \in 1..Len(hints[m][s]) : hints'[m][s][j] = hints[m][s][x]
    <3>1. CASE hints'[m][s] = hints[m][s]
      BY <3>1
    <3>2. CASE m = n /\ s = t /\ hints'[m][s] = q
      BY <1>11, <3>2
    <3> QED
      BY <1>12, <3>1, <3>2
  <2> QED
    BY <1>2, <2>1 DEF HintPart
<1>14. (\A m, s \in Nodes : \A j \in 1..Len(hints[m][s]) :
          Good(hints[m][s][j].item) /\ hints[m][s][j].item.val # 0)'
  BY <1>1, <1>13, GoodStable
<1>15. ASSUME NEW m \in Nodes
       PROVE  /\ replay'[m].left > 0 =>
                   /\ replay'[m].cur \in Nodes
                   /\ replay'[m].left <= Len(hints'[m][replay'[m].cur])
              /\ \A s \in replay'[m].todo : hints'[m][s] # <<>>
  <2>1. replay[m].todo \subseteq Nodes
    BY <1>2 DEF HintPart, Pass
  <2>2. CASE m = n
    <3>1. Len(hints'[n][t]) >= Len(hints[n][t]) - 1 /\ Len(hints'[n][t]) \in Nat
      BY <1>3, <1>11, <1>12
    <3>2. replay'[n].left > 0 => /\ replay'[n].cur \in Nodes
                                 /\ replay'[n].left <= Len(hints'[n][replay'[n].cur])
      <4> SUFFICES ASSUME replay'[n].left > 0
                   PROVE  /\ replay'[n].cur \in Nodes
                          /\ replay'[n].left <= Len(hints'[n][replay'[n].cur])
        OBVIOUS
      <4>1. replay'[n].cur = t /\ replay'[n].left = LeftOf(n, t) - 1
        BY <1>9
      <4>2. LeftOf(n, t) - 1 <= Len(hints'[n][t])
        BY <1>3, <3>1
      <4> QED
        BY <4>1, <4>2
    <3>3. \A s \in replay'[n].todo : hints'[n][s] # <<>>
      <4> SUFFICES ASSUME NEW s \in replay'[n].todo PROVE hints'[n][s] # <<>>
        OBVIOUS
      <4>1. s \in replay[n].todo /\ s # t /\ s \in Nodes
        BY <1>9, <2>1, <2>2
      <4>2. hints'[n][s] = hints[n][s]
        BY <1>12, <4>1
      <4> QED
        BY <1>2, <4>1, <4>2 DEF HintPart
    <3> QED
      BY <2>2, <3>2, <3>3
  <2>3. CASE m # n
    <3>1. \A s \in Nodes : hints'[m][s] = hints[m][s]
      BY <1>12, <2>3
    <3>2. replay'[m] = replay[m]
      BY <1>9, <2>3
    <3> QED
      BY <1>2, <2>1, <3>1, <3>2 DEF HintPart
  <2> QED
    BY <2>2, <2>3
<1>16. HintPart'
  BY <1>8, <1>9, <1>12, <1>14, <1>15 DEF HintPart
<1> QED
  BY <1>1, <1>5, <1>6, <1>16, Frame DEF IInv

LEMMA StartReplayInv ==
  ASSUME IInv, NEW n \in Nodes, StartReplay(n)
  PROVE  IInv'
<1> DEFINE S == {t \in Nodes : hints[n][t] # <<>>}
           r == [replay[n] EXCEPT !.todo = S]
<1>1. /\ ~HintsLocked(n)
      /\ replay' = [replay EXCEPT ![n] = r]
      /\ StoreUnchanged
      /\ UNCHANGED <<op, tasks, hints, expired, netVars, writes, used, wr>>
  BY DEF StartReplay, callVars
<1>2. S \subseteq Nodes /\ \A t \in S : hints[n][t] # <<>>
  OBVIOUS
<1> HIDE DEF S
<1>3. r \in Pass /\ r.todo = S /\ r.left = replay[n].left
  <2>1. replay[n] \in Pass
    BY DEF IInv, HintPart
  <2> QED
    BY <1>2, <2>1 DEF Pass
<1> HIDE DEF r
<1>4. ~(replay[n].left > 0)
  BY <1>1 DEF HintsLocked
<1>5. /\ replay' \in [Nodes -> Pass] /\ replay'[n] = r
      /\ \A m \in Nodes : m # n => replay'[m] = replay[m]
  BY <1>1, <1>3 DEF IInv, HintPart
<1>6. ASSUME NEW m \in Nodes
      PROVE  /\ replay'[m].left > 0 =>
                  /\ replay'[m].cur \in Nodes
                  /\ replay'[m].left <= Len(hints'[m][replay'[m].cur])
             /\ \A t \in replay'[m].todo : hints'[m][t] # <<>>
  <2>1. CASE m = n
    BY <1>1, <1>2, <1>3, <1>4, <1>5, <2>1
  <2>2. CASE m # n
    BY <1>1, <1>5, <2>2 DEF IInv, HintPart
  <2> QED
    BY <2>1, <2>2
<1>7. (\A m, t \in Nodes : \A i \in 1..Len(hints[m][t]) :
          Good(hints[m][t][i].item) /\ hints[m][t][i].item.val # 0)'
  <2>1. \A m, t \in Nodes : \A i \in 1..Len(hints[m][t]) :
          Good(hints[m][t][i].item) /\ hints[m][t][i].item.val # 0
    BY DEF IInv, HintPart
  <2> QED
    BY <1>1, <2>1 DEF Good
<1>8. hints' \in [Nodes -> [Nodes -> Seq(Hint)]] /\ expired' \in SUBSET (Writes \X Nodes)
  BY <1>1 DEF IInv, HintPart
<1>9. HintPart'
  BY <1>5, <1>6, <1>7, <1>8, Zenon DEF HintPart
<1> QED
  BY <1>1, <1>9, Frame DEF IInv, StoreUnchanged, storeVars

-----------------------------------------------------------------------------
LEMMA NetStepInv ==
  ASSUME IInv, NEW n \in Nodes, Drain(n) \/ Isolate(n) \/ Heal(n)
  PROVE  IInv'
<1>1. StoreUnchanged /\ UNCHANGED <<op, tasks, hintVars, writes, wr>>
  BY DEF Drain, Isolate, Heal, callVars
<1>2. NetPart'
  <2>1. CASE Drain(n)
    BY <2>1, UseType DEF Drain, IInv, NetPart, Bounds
  <2>2. CASE Isolate(n)
    BY <2>2, UseType DEF Isolate, IInv, NetPart, Bounds
  <2>3. CASE Heal(n)
    BY <2>3 DEF Heal, IInv, NetPart
  <2> QED
    BY <2>1, <2>2, <2>3
<1> QED
  BY <1>1, <1>2, Frame DEF IInv, StoreUnchanged, storeVars

LEMMA NextIInv ==
  ASSUME IInv, [Next]_vars
  PROVE  IInv'
<1>1. CASE UNCHANGED vars
  BY <1>1, Frame DEF vars, callVars, IInv, StoreUnchanged, storeVars
<1>2. CASE \E p \in Procs, n \in Nodes, k \in Keys :
             BeginSet(p, n, k) \/ SetDraining(p, n, k)
             \/ BeginRemove(p, n, k) \/ BeginGet(p, n, k)
  BY <1>2, BeginSetInv, SetDrainingInv, BeginRemoveInv, BeginGetInv
<1>3. CASE \E p \in Procs : CallStep(p)
  BY <1>3, ForwardInv, ForwardReturnInv, ForwardUnreachableInv, StampInv, ApplyInv,
     FanoutAckInv, FanoutErrorInv, SetReturnInv, ReadOneInv, ReadQuorumInv,
     ReadEndInv, RepairLocalInv, RepairRemoteInv DEF CallStep
<1>4. CASE \E p \in Procs : ForwardTimeout(p)
  BY <1>4, ForwardTimeoutInv
<1>5. CASE \E s \in Slots : HandlerStep(s) \/ HandlerStepLate(s)
  BY <1>5, HandlerStepInv, HandlerStepLateInv
<1>6. CASE \E n \in Nodes : StartReplay(n) \/ \E t \in Nodes : ReplayHint(n, t)
  BY <1>6, StartReplayInv, ReplayHintInv
<1>7. CASE \E n \in Nodes : Drain(n) \/ Isolate(n) \/ Heal(n)
  BY <1>7, NetStepInv
<1> QED
  BY <1>1, <1>2, <1>3, <1>4, <1>5, <1>6, <1>7 DEF Next

(* The invariant holds in every reachable state. *)
LEMMA Inductive == Spec => []IInv
  BY InitIInv, NextIInv, PTL DEF Spec

(***************************************************************************)
(* Every step of setImpl, removeImpl, getImpl, their handlers and the hint *)
(* replay keeps the shape of the state, for every cluster and every bound; *)
(* in particular replayHints never reads past the end of a queue.          *)
(***************************************************************************)
THEOREM TypeCorrect == Spec => []TypeOK
<1>1. IInv => TypeOK
  BY DEF IInv, StorePart, OpPart, TaskPart, HintPart, NetPart, RecordPart, TypeOK
<1> QED
  BY <1>1, Inductive, PTL

LEMMA CopiesGood ==
  ASSUME IInv, NEW k \in Keys, NEW c \in Copies(k)
  PROVE  c \in Item /\ Good(c)
<1>1. CASE c \in {items[n][k] : n \in Nodes}
  BY <1>1 DEF IInv, StorePart, StoreTypeOK
<1>2. CASE c \in {h.item : h \in {hh \in UNION {Range(hints[n][t]) : n, t \in Nodes} :
                                    hh.key = k}}
  <2>1. PICK n \in Nodes, t \in Nodes : \E h \in Range(hints[n][t]) : c = h.item
    BY <1>2
  <2>2. hints[n][t] \in Seq(Hint)
    BY DEF IInv, HintPart
  <2>3. PICK i \in 1..Len(hints[n][t]) : c = hints[n][t][i].item
    BY <2>1, <2>2 DEF Range
  <2> QED
    BY <2>3, HintType DEF IInv, HintPart
<1>3. CASE c \in {op[p].item : p \in {q \in Procs : op[q].key = k}}
  <2>1. PICK p \in Procs : c = op[p].item
    BY <1>3
  <2> QED
    BY <2>1 DEF IInv, OpPart, OpOK, Op
<1>4. CASE c \in {tasks[s].item : s \in {r \in Slots : tasks[r].key = k}}
  <2>1. PICK s \in Slots : c = tasks[s].item
    BY <1>4
  <2> QED
    BY <2>1 DEF IInv, TaskPart, Task
<1> QED
  BY <1>1, <1>2, <1>3, <1>4 DEF Copies

(***************************************************************************)
(* A (version, origin) stamp names one value among all copies of a key, in *)
(* stores, hints, calls and late handlers: versionCounter.Add(1) in        *)
(* setImpl hands a version out once per node, promotion included, and no   *)
(* path that carries a copy changes its stamp.                             *)
(***************************************************************************)
THEOREM StampsUnique == Spec => []StampUnique
<1>1. ASSUME IInv PROVE StampUnique
  <2>1. ASSUME NEW k \in Keys, NEW a \in Copies(k), NEW b \in Copies(k),
               a.version # 0, a.version = b.version, a.origin = b.origin
        PROVE  a.val = b.val
    <3>1. a \in Item /\ Good(a) /\ b \in Item /\ Good(b)
      BY <1>1, CopiesGood
    <3>2. /\ a.val \in 1..writes /\ b.val \in 1..writes
          /\ wr[a.val].version = a.version /\ wr[b.val].version = a.version
          /\ wr[a.val].coord = wr[b.val].coord
      BY <1>1, <2>1, <3>1 DEF Good, Item, IInv, RecordPart
    <3> QED
      BY <1>1, <2>1, <3>2 DEF IInv, RecordPart
  <2> QED
    BY <2>1 DEF StampUnique
<1> QED
  BY <1>1, Inductive, PTL

-----------------------------------------------------------------------------
(***************************************************************************)
(* What a Set leaves behind.  The second invariant follows a write along   *)
(* its path.  Reached says that owner t is accounted for: it has held the  *)
(* value, the coordinator keeps a hint for it, or that hint expired.  A    *)
(* call that fans out has accounted for every owner it no longer has to    *)
(* try, and its acknowledgements are nodes that have held the value and    *)
(* that it will not try again; its node owns the key, and is the primary   *)
(* or was promoted, so that its list together with itself is every owner.  *)
(* Hints are kept for owners only: that is why delivering one makes its    *)
(* target a node that has held the value.                                  *)
(***************************************************************************)
Reached(w, t) ==
    t \in stored[w] \/ Hinted(wr[w].coord, w, t) \/ <<w, t>> \in expired

PathOK(o) ==
    /\ o.todo \cup o.stale \subseteq Range(Owners[o.key])
    /\ o.kind = "set" => /\ wr[o.item.val].key = o.key
                         /\ wr[o.item.val].result = "pending"
    /\ o.pc \in {"stamp", "apply", "fanout"} =>
         /\ o.node \in Range(Owners[o.key])
         /\ o.promoted \/ o.node = primary(o.key)
    /\ o.pc = "fanout" =>
         /\ \A t \in Range(Owners[o.key]) \ o.todo : Reached(o.item.val, t)
         /\ o.acks <= Cardinality(stored[o.item.val] \ o.todo)

PathOps == \A p \in Procs : \A o \in Op : op[p] = o => PathOK(o)

HintsOwned ==
    \A n, t \in Nodes : \A i \in 1..Len(hints[n][t]) :
      t \in Range(Owners[hints[n][t][i].key])

Answered ==
    /\ \A w \in Writes : w > writes => wr[w].result = "none"
    /\ \A w \in 1..writes : wr[w].result \in {"ok", "quorumFailed"} =>
         \A t \in Range(Owners[wr[w].key]) : Reached(w, t)
    /\ \A w \in 1..writes : wr[w].result = "ok" =>
         Cardinality(stored[w]) >= neededWrites(wr[w].key)

PathInv == OnlyOwnersStore /\ PathOps /\ HintsOwned /\ Answered

(* What no step takes away from a Set that has begun. *)
Grows ==
    /\ writes' \in Nat /\ writes <= writes'
    /\ \A w \in 1..writes :
         /\ wr'[w].key = wr[w].key
         /\ stored[w] \subseteq stored'[w]
         /\ \A t \in Nodes : Reached(w, t) => Reached(w, t)'

(* The step gives no Set an answer and begins none. *)
KeepsRecords ==
    /\ writes' = writes
    /\ \A w \in Writes : /\ wr'[w].key = wr[w].key
                          /\ wr'[w].coord = wr[w].coord
                          /\ wr'[w].result = wr[w].result

LEMMA WriteType ==
  ASSUME IInv
  PROVE  /\ writes \in Nat /\ MaxSets \in Nat
         /\ \A w \in 1..writes : w \in Writes
         /\ \A w \in Writes : wr[w] \in WriteRecord /\ stored[w] \subseteq Nodes
         /\ \A w \in Writes : wr[w].key \in Keys
  BY ParametersAssumption DEF IInv, RecordPart, StorePart, Writes, WriteRecord

LEMMA NeededType ==
  ASSUME NEW k \in Keys
  PROVE  neededWrites(k) \in Nat
<1>1. Len(Owners[k]) \in Nat
  BY OwnersAssumption
<1> DEFINE n == Len(Owners[k])
<1> HIDE DEF n
<1>2. n \in Nat
  BY <1>1 DEF n
<1>3. n \div 2 \in Nat
  BY <1>2
<1>4. requiredAcks(n, WriteConsistency) \in Nat
  BY <1>2, <1>3 DEF requiredAcks
<1> QED
  BY <1>4 DEF neededWrites, n

LEMMA SmallerCard ==
  ASSUME NEW S, NEW T, S \subseteq T, T \subseteq Nodes
  PROVE  /\ IsFiniteSet(S) /\ IsFiniteSet(T)
         /\ Cardinality(S) \in Nat /\ Cardinality(T) \in Nat
         /\ Cardinality(S) <= Cardinality(T)
<1>1. IsFiniteSet(T)
  BY NodesAssumption, FS_Subset
<1>2. IsFiniteSet(S) /\ Cardinality(S) <= Cardinality(T)
  BY <1>1, FS_Subset
<1> QED
  BY <1>1, <1>2, FS_CardinalityType

(* A step that keeps the hints and the records can only add to the stores. *)
LEMMA GrowsQuietly ==
  ASSUME IInv, KeepsRecords, UNCHANGED <<hints, expired>>,
         \A w \in Writes : stored[w] \subseteq stored'[w]
  PROVE  Grows
<1>1. \A w \in 1..writes, t \in Nodes : Reached(w, t) => Reached(w, t)'
  BY WriteType DEF Reached, Hinted, KeepsRecords
<1> QED
  BY <1>1, WriteType DEF Grows, KeepsRecords

LEMMA StoredGrows ==
  ASSUME IInv, NEW kind, NEW n, NEW k, NEW it,
         StoreUnchanged \/ Put(n, k, it) \/ Arrive(kind, n, k, it)
  PROVE  \A w \in Writes : stored[w] \subseteq stored'[w]
<1>1. CASE UNCHANGED stored
  BY <1>1
<1>2. CASE stored' = [stored EXCEPT ![it.val] = @ \cup {n}]
  BY <1>2 DEF IInv, StorePart
<1> QED
  BY <1>1, <1>2 DEF StoreUnchanged, Put, Arrive

LEMMA OwnersKeepStore ==
  ASSUME IInv, OnlyOwnersStore, NEW kind, NEW n \in Nodes, NEW k \in Keys, NEW it \in Item,
         \/ StoreUnchanged
         \/ Put(n, k, it) /\ n \in Range(Owners[k])
         \/ Arrive(kind, n, k, it)
  PROVE  OnlyOwnersStore'
<1> USE DEF OnlyOwnersStore, ownsKeyInternal
<1>1. CASE UNCHANGED items
  BY <1>1
<1>2. CASE items' = [items EXCEPT ![n][k] = it] /\ n \in Range(Owners[k])
  BY <1>2 DEF IInv, StorePart, StoreTypeOK
<1>3. CASE items' = [items EXCEPT ![n][k] = NoItem]
  <2>1. ~Present(NoItem)
    BY DEF Present, NoItem
  <2> QED
    BY <1>3, <2>1 DEF IInv, StorePart, StoreTypeOK
<1> QED
  BY <1>1, <1>2, <1>3
  DEF StoreUnchanged, storeVars, Put, Arrive, applySet, applyForwardedSet, applyRemove

(* A call nobody touches stays on its path. *)
LEMMA PathKept ==
  ASSUME IInv, IInv', Grows, NEW o \in Op, OpOK(o), PathOK(o),
         o.kind = "set" => wr'[o.item.val].result = wr[o.item.val].result
  PROVE  PathOK(o)'
<1>1. /\ o.todo \cup o.stale \subseteq Range(Owners[o.key])
      /\ o.pc \in {"stamp", "apply", "fanout"} =>
           /\ o.node \in Range(Owners[o.key])
           /\ o.promoted \/ o.node = primary(o.key)
  BY DEF PathOK
<1>2. o.kind = "set" => /\ wr'[o.item.val].key = o.key
                        /\ wr'[o.item.val].result = "pending"
  BY DEF PathOK, OpOK, Grows
<1>3. ASSUME o.pc = "fanout"
      PROVE  /\ \A t \in Range(Owners[o.key]) \ o.todo : Reached(o.item.val, t)'
             /\ o.acks <= Cardinality(stored'[o.item.val] \ o.todo)
  <2>1. o.item.val \in 1..writes /\ o.key \in Keys /\ o.acks \in Nat
    BY <1>3 DEF OpOK, Op
  <2>2. Range(Owners[o.key]) \subseteq Nodes
    BY <2>1, OwnersType
  <2>3. stored[o.item.val] \ o.todo \subseteq stored'[o.item.val] \ o.todo
    BY <2>1 DEF Grows
  <2>4. stored'[o.item.val] \subseteq Nodes
    BY <2>1, WriteType DEF IInv, StorePart
  <2>5. /\ Cardinality(stored[o.item.val] \ o.todo) \in Nat
        /\ Cardinality(stored'[o.item.val] \ o.todo) \in Nat
        /\ Cardinality(stored[o.item.val] \ o.todo)
             <= Cardinality(stored'[o.item.val] \ o.todo)
    BY <2>3, <2>4, SmallerCard
  <2>6. o.acks <= Cardinality(stored[o.item.val] \ o.todo)
    BY <1>3 DEF PathOK
  <2>7. \A t \in Range(Owners[o.key]) \ o.todo : Reached(o.item.val, t)
    BY <1>3 DEF PathOK
  <2>8. \A t \in Range(Owners[o.key]) \ o.todo : Reached(o.item.val, t)'
    BY <2>1, <2>2, <2>7 DEF Grows
  <2> QED
    BY <2>1, <2>5, <2>6, <2>8
<1> QED
  BY <1>1, <1>2, <1>3 DEF PathOK

LEMMA OpsKept ==
  ASSUME IInv, IInv', Grows, PathOps, NEW p \in Procs,
         \A o \in Op : op'[p] = o => PathOK(o)',
         \A q \in Procs : q # p => op'[q] = op[q],
         \A q \in Procs : q # p /\ op[q].kind = "set" =>
            wr'[op[q].item.val].result = wr[op[q].item.val].result
  PROVE  PathOps'
<1> SUFFICES ASSUME NEW q \in Procs, NEW o \in Op, op'[q] = o
             PROVE  PathOK(o)'
  BY DEF PathOps
<1>1. CASE q = p
  BY <1>1
<1>2. CASE q # p
  <2>1. op[q] = o /\ PathOK(o) /\ OpOK(o)
    BY <1>2 DEF PathOps, IInv, OpPart
  <2>2. o.kind = "set" => wr'[o.item.val].result = wr[o.item.val].result
    BY <1>2, <2>1
  <2> QED
    BY <2>1, <2>2, PathKept
<1> QED
  BY <1>1, <1>2

LEMMA OpsFrame ==
  ASSUME IInv, IInv', Grows, PathOps, UNCHANGED op,
         \A w \in 1..writes : wr'[w].result = wr[w].result
  PROVE  PathOps'
<1> SUFFICES ASSUME NEW q \in Procs, NEW o \in Op, op'[q] = o
             PROVE  PathOK(o)'
  BY DEF PathOps
<1>1. op[q] = o /\ PathOK(o) /\ OpOK(o)
  BY DEF PathOps, IInv, OpPart
<1>2. o.kind = "set" => wr'[o.item.val].result = wr[o.item.val].result
  BY <1>1 DEF OpOK
<1> QED
  BY <1>1, <1>2, PathKept

LEMMA AnsweredKept ==
  ASSUME IInv, IInv', Grows, Answered,
         \A w \in Writes : w > writes' => wr'[w].result = wr[w].result,
         \A w \in 1..writes' :
            \/ w \in 1..writes /\ wr'[w].result = wr[w].result
            \/ wr'[w].result \notin {"ok", "quorumFailed"}
  PROVE  Answered'
<1>1. ASSUME NEW w \in Writes, w > writes' PROVE wr'[w].result = "none"
  <2>1. w \in Nat /\ w > writes
    BY <1>1, WriteType DEF Grows, Writes
  <2> QED
    BY <1>1, <2>1 DEF Answered
<1>2. ASSUME NEW w \in 1..writes', wr'[w].result \in {"ok", "quorumFailed"}
      PROVE  /\ \A t \in Range(Owners[wr'[w].key]) : Reached(w, t)'
             /\ wr'[w].result = "ok" => Cardinality(stored'[w]) >= neededWrites(wr'[w].key)
  <2>1. w \in 1..writes /\ wr'[w].result = wr[w].result /\ wr'[w].key = wr[w].key
    BY <1>2 DEF Grows
  <2>2. w \in Writes /\ wr[w].key \in Keys
    BY <2>1, WriteType
  <2>3. \A t \in Range(Owners[wr[w].key]) : Reached(w, t) /\ t \in Nodes
    BY <1>2, <2>1, <2>2, OwnersType DEF Answered
  <2>4. \A t \in Range(Owners[wr[w].key]) : Reached(w, t)'
    BY <2>1, <2>3 DEF Grows
  <2>5. stored[w] \subseteq stored'[w] /\ stored'[w] \subseteq Nodes
    BY <2>1, <2>2 DEF Grows, IInv, StorePart
  <2>6. /\ Cardinality(stored[w]) \in Nat /\ Cardinality(stored'[w]) \in Nat
        /\ Cardinality(stored[w]) <= Cardinality(stored'[w])
    BY <2>5, SmallerCard
  <2>7. wr'[w].result = "ok" => Cardinality(stored[w]) >= neededWrites(wr[w].key)
    BY <2>1 DEF Answered
  <2>8. neededWrites(wr[w].key) \in Nat
    BY <2>2, NeededType
  <2> QED
    BY <2>1, <2>4, <2>6, <2>7, <2>8
<1> QED
  BY <1>1, <1>2 DEF Answered

(* The steps that leave the hints and the records of the Sets alone. *)
LEMMA QuietPath ==
  ASSUME IInv, IInv', PathInv, KeepsRecords, UNCHANGED <<hints, expired>>,
         \A w \in Writes : stored[w] \subseteq stored'[w], OnlyOwnersStore',
         \/ UNCHANGED op
         \/ \E p \in Procs : \E o \in Op : op' = [op EXCEPT ![p] = o] /\ PathOK(o)'
  PROVE  PathInv'
<1>1. Grows
  BY GrowsQuietly
<1>2. Answered'
  <2>1. \A w \in 1..writes : w \in Writes
    BY WriteType
  <2>2. \A w \in Writes : w > writes' => wr'[w].result = wr[w].result
    BY DEF KeepsRecords
  <2>3. \A w \in 1..writes' : w \in 1..writes /\ wr'[w].result = wr[w].result
    BY <2>1 DEF KeepsRecords
  <2> QED
    BY <1>1, <2>2, <2>3, AnsweredKept DEF PathInv
<1>3. HintsOwned'
  BY DEF PathInv, HintsOwned
<1>5. /\ \A w \in 1..writes : wr'[w].result = wr[w].result
      /\ \A q \in Procs : op[q].kind = "set" =>
            wr'[op[q].item.val].result = wr[op[q].item.val].result
  <2>1. \A w \in 1..writes : wr'[w].result = wr[w].result
    BY WriteType DEF KeepsRecords
  <2>2. \A q \in Procs : op[q].kind = "set" => op[q].item.val \in 1..writes
    BY DEF IInv, OpPart, OpOK
  <2> QED
    BY <2>1, <2>2
<1>4. PathOps'
  <2>1. CASE UNCHANGED op
    BY <1>1, <1>5, <2>1, OpsFrame DEF PathInv
  <2>2. CASE \E p \in Procs : \E o \in Op : op' = [op EXCEPT ![p] = o] /\ PathOK(o)'
    <3>1. PICK p \in Procs : \E o \in Op : op' = [op EXCEPT ![p] = o] /\ PathOK(o)'
      BY <2>2
    <3>2. PICK o \in Op : op' = [op EXCEPT ![p] = o] /\ PathOK(o)'
      BY <3>1
    <3>3. op'[p] = o /\ \A q \in Procs : q # p => op'[q] = op[q]
      BY <3>2 DEF IInv, OpPart
    <3> QED
      BY <1>1, <1>5, <3>2, <3>3, OpsKept DEF PathInv
  <2> QED
    BY <2>1, <2>2
<1> QED
  BY <1>2, <1>3, <1>4 DEF PathInv

LEMMA RecordsKept ==
  ASSUME UNCHANGED <<writes, wr>>
  PROVE  KeepsRecords
  BY DEF KeepsRecords

(* What a step of a running call of p knows of its path. *)
LEMMA OnPath ==
  ASSUME IInv, PathInv, NEW p \in Procs
  PROVE  op[p] \in Op /\ OpOK(op[p]) /\ PathOK(op[p])
  BY DEF IInv, OpPart, PathInv, PathOps

(* A call outside the primary path only has to keep its lists. *)
LEMMA OffPrimaryPath ==
  ASSUME NEW o \in Op, o.pc \notin {"stamp", "apply", "fanout"},
         o.todo \cup o.stale \subseteq Range(Owners[o.key]),
         o.kind = "set" => /\ wr'[o.item.val].key = o.key
                           /\ wr'[o.item.val].result = "pending"
  PROVE  PathOK(o)'
  BY DEF PathOK

LEMMA IdlePath == PathOK(Idle)'
<1>1. /\ Idle \in Op /\ Idle.kind = "get" /\ Idle.pc = "idle"
      /\ Idle.todo = {} /\ Idle.stale = {}
  BY IdleType DEF Idle
<1> QED
  BY <1>1 DEF PathOK

LEMMA HandlerPath ==
  ASSUME IInv, IInv', PathInv, NEW s \in Slots, HandlerStep(s) \/ HandlerStepLate(s)
  PROVE  PathInv'
<1>1. PICK d \in Nodes :
         /\ \/ Arrive(tasks[s].kind, d, tasks[s].key, tasks[s].item)
            \/ StoreUnchanged
         /\ UNCHANGED <<op, hintVars, writes, wr>>
  BY DEF HandlerStep, HandlerStepLate
<1>2. tasks[s] \in Task
  BY DEF IInv, TaskPart
<1>3. tasks[s].key \in Keys /\ tasks[s].item \in Item
  BY <1>2 DEF Task
<1>4. (\A w \in Writes : stored[w] \subseteq stored'[w]) /\ OnlyOwnersStore'
  BY <1>1, <1>3, StoredGrows, OwnersKeepStore DEF PathInv
<1> QED
  BY <1>1, <1>4, RecordsKept, QuietPath DEF hintVars

LEMMA NetPath ==
  ASSUME IInv, IInv', PathInv, NEW n \in Nodes,
         Drain(n) \/ Isolate(n) \/ Heal(n) \/ StartReplay(n)
  PROVE  PathInv'
<1>1. StoreUnchanged /\ UNCHANGED <<op, hints, expired, writes, wr>>
  BY DEF Drain, Isolate, Heal, StartReplay, callVars, hintVars
<1>2. (\A w \in Writes : stored[w] \subseteq stored'[w]) /\ OnlyOwnersStore'
  BY <1>1 DEF StoreUnchanged, storeVars, PathInv, OnlyOwnersStore
<1> QED
  BY <1>1, <1>2, RecordsKept, QuietPath

(* A quiet step of one call. *)
LEMMA CallPath ==
  ASSUME IInv, IInv', PathInv, KeepsRecords, UNCHANGED <<hints, expired>>,
         NEW p \in Procs, NEW o \in Op, op' = [op EXCEPT ![p] = o], PathOK(o)',
         NEW n \in Nodes, NEW k \in Keys, NEW it \in Item, NEW kind,
         \/ StoreUnchanged
         \/ Put(n, k, it) /\ n \in Range(Owners[k])
         \/ Arrive(kind, n, k, it)
  PROVE  PathInv'
<1>1. (\A w \in Writes : stored[w] \subseteq stored'[w]) /\ OnlyOwnersStore'
  BY StoredGrows, OwnersKeepStore DEF PathInv
<1> QED
  BY <1>1, QuietPath

LEMMA StoreKeptPath ==
  ASSUME IInv, IInv', PathInv, KeepsRecords, UNCHANGED <<hints, expired>>,
         NEW p \in Procs, NEW o \in Op, op' = [op EXCEPT ![p] = o], PathOK(o)',
         UNCHANGED <<items, stored>>
  PROVE  PathInv'
<1>1. (\A w \in Writes : stored[w] \subseteq stored'[w]) /\ OnlyOwnersStore'
  BY DEF PathInv, OnlyOwnersStore
<1> QED
  BY <1>1, QuietPath

LEMMA BeginRemovePath ==
  ASSUME IInv, IInv', PathInv, NEW p \in Procs, NEW n \in Nodes, NEW k \in Keys,
         BeginRemove(p, n, k)
  PROVE  PathInv'
<1>1. PICK pc \in {"local", "forward"} :
         op' = [op EXCEPT ![p] = NewCall("remove", n, k, pc, NoItem)]
  BY DEF BeginRemove
<1> DEFINE o == NewCall("remove", n, k, pc, NoItem)
<1>2. /\ o \in Op /\ o.pc = pc /\ o.kind = "remove" /\ o.todo = {} /\ o.stale = {}
  BY IdleType DEF NewCall, Idle, Op, PCs
<1>3. op' = [op EXCEPT ![p] = o]
  BY <1>1
<1> HIDE DEF o
<1>4. PathOK(o)'
  BY <1>2, OffPrimaryPath
<1>5. UNCHANGED <<items, stored, hints, expired, writes, wr>>
  BY DEF BeginRemove, storeVars, hintVars
<1> QED
  BY <1>2, <1>3, <1>4, <1>5, RecordsKept, StoreKeptPath

LEMMA BeginGetPath ==
  ASSUME IInv, IInv', PathInv, NEW p \in Procs, NEW n \in Nodes, NEW k \in Keys,
         BeginGet(p, n, k)
  PROVE  PathInv'
<1> DEFINE R == Range(Owners[k])
           o == [NewCall("get", n, k, "read", NoItem) EXCEPT !.todo = R]
<1>1. UNCHANGED op \/ op' = [op EXCEPT ![p] = o]
  BY DEF BeginGet
<1>2. R \subseteq Nodes
  BY OwnersType
<1> HIDE DEF R
<1>3. /\ o \in Op /\ o.pc = "read" /\ o.kind = "get" /\ o.key = k
      /\ o.todo = R /\ o.stale = {}
  BY <1>2, IdleType DEF NewCall, Idle, Op, PCs
<1> HIDE DEF o
<1>4. PathOK(o)'
  BY <1>3, OffPrimaryPath DEF R
<1>5. UNCHANGED <<items, stored, hints, expired, writes, wr>>
  BY DEF BeginGet, StoreUnchanged, storeVars, hintVars
<1>6. (\A w \in Writes : stored[w] \subseteq stored'[w]) /\ OnlyOwnersStore'
  BY <1>5 DEF PathInv, OnlyOwnersStore
<1> QED
  BY <1>1, <1>3, <1>4, <1>5, <1>6, RecordsKept, QuietPath

LEMMA ForwardPath ==
  ASSUME IInv, IInv', PathInv, NEW p \in Procs, Forward(p)
  PROVE  PathInv'
<1> DEFINE o == [op[p] EXCEPT !.pc = "wait"]
<1>1. op' = [op EXCEPT ![p] = o]
  BY DEF Forward
<1>2. op[p] \in Op /\ PathOK(op[p])
  BY OnPath
<1>3. /\ o \in Op /\ o.pc = "wait" /\ o.kind = op[p].kind /\ o.key = op[p].key
      /\ o.todo = op[p].todo /\ o.stale = op[p].stale /\ o.item = op[p].item
  BY <1>2 DEF Op, PCs
<1> HIDE DEF o
<1>4. UNCHANGED <<items, stored, hints, expired, writes, wr>>
  BY DEF Forward, StoreUnchanged, storeVars, hintVars
<1>5. PICK c \in Op : c = o
  BY <1>3
<1>6. PathOK(c)'
  <2>1. c.todo \cup c.stale \subseteq Range(Owners[c.key])
    BY <1>2, <1>3, <1>5 DEF PathOK
  <2>2. c.kind = "set" => wr'[c.item.val].key = c.key /\ wr'[c.item.val].result = "pending"
    BY <1>2, <1>3, <1>4, <1>5 DEF PathOK
  <2>3. c.pc \notin {"stamp", "apply", "fanout"}
    BY <1>3, <1>5
  <2> QED
    BY <2>1, <2>2, <2>3, OffPrimaryPath
<1> QED
  BY <1>1, <1>4, <1>5, <1>6, RecordsKept, StoreKeptPath

(* A Set that is answered: its record is where the caller left it. *)
LEMMA FinishPath ==
  ASSUME IInv, IInv', PathInv, NEW p \in Procs, NEW r \in Results,
         op[p].pc # "idle", Finish(p, r),
         UNCHANGED <<items, stored, hints, expired, writes>>,
         op[p].kind = "set" /\ r \in {"ok", "quorumFailed"} =>
            \A t \in Range(Owners[op[p].key]) : Reached(op[p].item.val, t),
         op[p].kind = "set" /\ r = "ok" =>
            Cardinality(stored[op[p].item.val]) >= neededWrites(op[p].key)
  PROVE  PathInv'
<1>1. op' = [op EXCEPT ![p] = Idle] /\ Idle \in Op /\ PathOK(Idle)'
  BY IdlePath, IdleType DEF Finish
<1>2. CASE op[p].kind # "set"
  <2>1. UNCHANGED wr
    BY <1>2 DEF Finish
  <2> QED
    BY <1>1, <2>1, RecordsKept, StoreKeptPath
<1>3. CASE op[p].kind = "set"
  <2>1. PICK w \in 1..writes : w = op[p].item.val
    BY <1>3 DEF IInv, OpPart, OpOK
  <2>2. w \in Writes /\ (\A x \in 1..writes : x \in Writes) /\ writes \in Nat
    BY <2>1, WriteType
  <2>3. wr' = [wr EXCEPT ![w].result = r] /\ wr[w].key = op[p].key
    BY <1>3, <2>1, OnPath DEF Finish, PathOK
  <2>4. /\ \A x \in Writes : wr'[x].key = wr[x].key /\ wr'[x].coord = wr[x].coord
        /\ \A x \in Writes : x # w => wr'[x].result = wr[x].result
        /\ wr'[w].result = r
    BY <2>2, <2>3 DEF IInv, RecordPart, WriteRecord
  <2>5. \A x \in 1..writes, t \in Nodes : Reached(x, t) => Reached(x, t)'
    BY <2>2, <2>4 DEF Reached, Hinted
  <2>6. Grows
    BY <2>2, <2>4, <2>5 DEF Grows
  <2>7. PathOps'
    <3>1. \A q \in Procs : q # p => op'[q] = op[q]
      BY <1>1 DEF IInv, OpPart
    <3>2. op'[p] = Idle
      BY <1>1 DEF IInv, OpPart
    <3>3. \A q \in Procs : q # p /\ op[q].kind = "set" =>
             wr'[op[q].item.val].result = wr[op[q].item.val].result
      BY <1>3, <2>1, <2>2, <2>4 DEF IInv, OpPart, OpOK
    <3>4. \A o \in Op : op'[p] = o => PathOK(o)'
      BY <1>1, <3>2
    <3> QED
      BY <2>6, <3>1, <3>3, <3>4, OpsKept DEF PathInv
  <2>8. Answered'
    <3>1. \A x \in Writes : x > writes => wr'[x].result = "none"
      BY <2>1, <2>2, <2>4 DEF PathInv, Answered
    <3>2. ASSUME NEW x \in 1..writes, wr'[x].result \in {"ok", "quorumFailed"}
          PROVE  \A t \in Range(Owners[wr'[x].key]) : Reached(x, t)'
      <4>1. x \in Writes /\ wr'[x].key = wr[x].key /\ wr[x].key \in Keys
        BY <2>2, <2>4, WriteType
      <4>2. Range(Owners[wr[x].key]) \subseteq Nodes
        BY <4>1, OwnersType
      <4>3. \A t \in Range(Owners[wr[x].key]) : Reached(x, t)
        <5>1. CASE x = w
          BY <1>3, <2>1, <2>3, <2>4, <3>2, <5>1
        <5>2. CASE x # w
          BY <2>4, <3>2, <4>1, <5>2 DEF PathInv, Answered
        <5> QED
          BY <5>1, <5>2
      <4> QED
        BY <2>5, <4>1, <4>2, <4>3
    <3>3. ASSUME NEW x \in 1..writes, wr'[x].result = "ok"
          PROVE  Cardinality(stored[x]) >= neededWrites(wr'[x].key)
      <4>1. x \in Writes /\ wr'[x].key = wr[x].key
        BY <2>2, <2>4
      <4>2. CASE x = w
        BY <1>3, <2>1, <2>3, <2>4, <3>3, <4>1, <4>2
      <4>3. CASE x # w
        BY <2>4, <3>3, <4>1, <4>3 DEF PathInv, Answered
      <4> QED
        BY <4>2, <4>3
    <3> QED
      BY <3>1, <3>2, <3>3 DEF Answered
  <2> QED
    BY <2>7, <2>8 DEF PathInv, OnlyOwnersStore, HintsOwned
<1> QED
  BY <1>2, <1>3

LEMMA ForwardReturnPath ==
  ASSUME IInv, IInv', PathInv, NEW p \in Procs, ForwardReturn(p)
  PROVE  PathInv'
<1>1. /\ op[p].pc # "idle" /\ Finish(p, "forwarded") /\ "forwarded" \in Results
      /\ UNCHANGED <<items, stored, hints, expired, writes>>
  BY DEF ForwardReturn, Results, StoreUnchanged, storeVars, hintVars
<1> QED
  BY <1>1, FinishPath

(* The list is empty: every owner is accounted for, and the count is of    *)
(* nodes that have held the value.                                         *)
LEMMA SetReturnPath ==
  ASSUME IInv, IInv', PathInv, NEW p \in Procs, SetReturn(p)
  PROVE  PathInv'
<1> DEFINE r == IF op[p].acks >= neededWrites(op[p].key) THEN "ok" ELSE "quorumFailed"
<1>1. /\ op[p].pc = "fanout" /\ op[p].todo = {} /\ Finish(p, r)
      /\ UNCHANGED <<items, stored, hints, expired, writes>>
  BY DEF SetReturn, StoreUnchanged, storeVars, hintVars
<1>2. r \in Results /\ (r = "ok" => op[p].acks >= neededWrites(op[p].key))
  BY DEF Results
<1> HIDE DEF r
<1>3. /\ op[p] \in Op /\ OpOK(op[p]) /\ PathOK(op[p]) /\ op[p].key \in Keys
      /\ op[p].acks \in Nat
  BY OnPath DEF Op
<1>4. op[p].item.val \in 1..writes
  BY <1>1, <1>3 DEF OpOK
<1>5. /\ \A t \in Range(Owners[op[p].key]) : Reached(op[p].item.val, t)
      /\ op[p].acks <= Cardinality(stored[op[p].item.val])
  <2>1. op[p].acks <= Cardinality(stored[op[p].item.val] \ {})
    BY <1>1, <1>3 DEF PathOK
  <2>2. stored[op[p].item.val] \ {} = stored[op[p].item.val]
    OBVIOUS
  <2>3. \A t \in Range(Owners[op[p].key]) \ {} : Reached(op[p].item.val, t)
    BY <1>1, <1>3 DEF PathOK
  <2> QED
    BY <2>1, <2>2, <2>3
<1>6. /\ Cardinality(stored[op[p].item.val]) \in Nat
      /\ neededWrites(op[p].key) \in Nat
  BY <1>3, <1>4, SmallerCard, NeededType, WriteType
<1>7. r = "ok" => Cardinality(stored[op[p].item.val]) >= neededWrites(op[p].key)
  BY <1>2, <1>3, <1>5, <1>6
<1> QED
  BY <1>1, <1>2, <1>5, <1>7, FinishPath

LEMMA ReadEndPath ==
  ASSUME IInv, IInv', PathInv, NEW p \in Procs, ReadMiss(p) \/ GetReturn(p)
  PROVE  PathInv'
<1>1. /\ op' = [op EXCEPT ![p] = Idle]
      /\ UNCHANGED <<items, stored, hints, expired, writes, wr>>
  BY DEF ReadMiss, GetReturn, StoreUnchanged, storeVars, hintVars
<1>2. Idle \in Op /\ PathOK(Idle)'
  BY IdleType, IdlePath
<1> QED
  BY <1>1, <1>2, RecordsKept, StoreKeptPath

LEMMA PromotePath ==
  ASSUME IInv, IInv', PathInv, NEW p \in Procs, op[p].pc \in {"forward", "wait"},
         NEW ts, PromoteOrFail(p, ts),
         UNCHANGED <<items, stored, hints, expired, writes>>
  PROVE  PathInv'
<1>1. /\ op[p] \in Op /\ OpOK(op[p]) /\ PathOK(op[p]) /\ op[p].key \in Keys
  BY OnPath DEF Op
<1>2. CASE Finish(p, "error")
  BY <1>2, FinishPath DEF Results
<1>3. CASE /\ op[p].node \in replicas(op[p].key) /\ op[p].kind = "set"
           /\ op' = [op EXCEPT ![p].pc = "stamp", ![p].promoted = TRUE]
           /\ UNCHANGED wr
  <2>1. PICK o \in Op : o = [op[p] EXCEPT !.pc = "stamp", !.promoted = TRUE]
    BY <1>1 DEF Op, PCs
  <2>2. /\ o.pc = "stamp" /\ o.promoted /\ o.kind = op[p].kind /\ o.key = op[p].key
        /\ o.todo = op[p].todo /\ o.stale = op[p].stale /\ o.item = op[p].item
        /\ o.node = op[p].node
    BY <1>1, <2>1 DEF Op
  <2>3. op' = [op EXCEPT ![p] = o]
    BY <1>3, <2>1
  <2>4. op[p].node \in Range(Owners[op[p].key])
    <3>1. Owners[op[p].key] \in Seq(Nodes) /\ Owners[op[p].key] # <<>>
      BY <1>1, OwnersAssumption
    <3>2. \A s \in Seq(Nodes) : s # <<>> =>
            \A x \in Range(Tail(s)) : x \in Range(s)
      BY DEF Range
    <3> QED
      BY <1>3, <3>1, <3>2 DEF replicas
  <2>5. PathOK(o)'
    BY <1>1, <1>3, <2>2, <2>4 DEF PathOK
  <2> QED
    BY <1>3, <2>3, <2>5, RecordsKept, StoreKeptPath
<1>4. CASE /\ op[p].kind = "remove"
           /\ op' = [op EXCEPT ![p].pc = "local"]
           /\ UNCHANGED wr
  <2>1. PICK o \in Op : o = [op[p] EXCEPT !.pc = "local"]
    BY <1>1 DEF Op, PCs
  <2>2. /\ o.pc = "local" /\ o.kind = "remove" /\ o.key = op[p].key
        /\ o.todo = op[p].todo /\ o.stale = op[p].stale
    BY <1>1, <1>4, <2>1 DEF Op
  <2>3. op' = [op EXCEPT ![p] = o]
    BY <1>4, <2>1
  <2>4. PathOK(o)'
    BY <1>1, <2>2 DEF PathOK
  <2> QED
    BY <1>4, <2>3, <2>4, RecordsKept, StoreKeptPath
<1> QED
  BY <1>2, <1>3, <1>4 DEF PromoteOrFail

LEMMA ForwardErrorPath ==
  ASSUME IInv, IInv', PathInv, NEW p \in Procs,
         ForwardUnreachable(p) \/ ForwardTimeout(p)
  PROVE  PathInv'
<1>1. UNCHANGED <<items, stored, hints, expired, writes>>
  BY DEF ForwardUnreachable, ForwardTimeout, StoreUnchanged, storeVars, hintVars
<1>2. CASE ForwardUnreachable(p)
  BY <1>1, <1>2, PromotePath DEF ForwardUnreachable
<1>3. CASE ForwardTimeout(p)
  BY <1>1, <1>3, PromotePath DEF ForwardTimeout
<1> QED
  BY <1>2, <1>3

LEMMA StampPath ==
  ASSUME IInv, IInv', PathInv, NEW p \in Procs, Stamp(p)
  PROVE  PathInv'
<1>1. /\ op[p] \in Op /\ OpOK(op[p]) /\ PathOK(op[p]) /\ op[p].pc = "stamp"
      /\ op[p].node \in Nodes
  BY OnPath DEF Stamp, OpOK
<1>2. op[p].kind = "set" /\ op[p].item \in Item /\ op[p].item.val \in 1..writes
  BY <1>1 DEF OpOK, Op
<1>3. PICK w \in 1..writes : w = op[p].item.val
  BY <1>2
<1>4. w \in Writes
  BY <1>3, WriteType
<1>5. PICK v \in Nat : v = versionCounter[op[p].node] + 1
  BY <1>1 DEF IInv, StorePart, StoreTypeOK
<1>6. PICK it \in Item : it = [val |-> w, version |-> v, origin |-> op[p].node]
  BY <1>1, <1>2, <1>3, <1>5, NodesAssumption DEF Item
<1>7. PICK o \in Op : o = [op[p] EXCEPT !.pc = "apply", !.item = it]
  BY <1>1 DEF Op, PCs
<1>8. /\ op' = [op EXCEPT ![p] = o]
      /\ wr' = [wr EXCEPT ![w].version = v]
      /\ UNCHANGED <<items, stored, hints, expired, writes>>
  BY <1>3, <1>5, <1>6, <1>7 DEF Stamp, hintVars
<1>9. /\ o.pc = "apply" /\ o.promoted = op[p].promoted /\ o.kind = op[p].kind
      /\ o.key = op[p].key /\ o.todo = op[p].todo /\ o.stale = op[p].stale
      /\ o.item = it /\ o.node = op[p].node
  BY <1>1, <1>7 DEF Op
<1>10. KeepsRecords
  BY <1>4, <1>8 DEF IInv, RecordPart, WriteRecord, KeepsRecords
<1>11. it.val = w
  BY <1>6
<1>12. PathOK(o)'
  <2>1. wr'[o.item.val].key = o.key /\ wr'[o.item.val].result = "pending"
    BY <1>1, <1>2, <1>3, <1>4, <1>9, <1>10, <1>11 DEF PathOK, KeepsRecords
  <2> QED
    BY <1>1, <1>9, <2>1 DEF PathOK
<1> QED
  BY <1>8, <1>10, <1>12, StoreKeptPath

(* The list of an owner that is the primary or was promoted. *)
LEMMA FanoutCovers ==
  ASSUME NEW k \in Keys, NEW n \in Range(Owners[k]), NEW promoted \in BOOLEAN,
         promoted \/ n = primary(k)
  PROVE  /\ FanoutTargets(n, k, promoted) \subseteq Range(Owners[k])
         /\ n \notin FanoutTargets(n, k, promoted)
         /\ Range(Owners[k]) \ FanoutTargets(n, k, promoted) \subseteq {n}
<1>1. Owners[k] \in Seq(Nodes) /\ Owners[k] # <<>>
  BY OwnersAssumption
<1>2. \A s \in Seq(Nodes) : s # <<>> => Range(s) = {Head(s)} \cup Range(Tail(s))
  <2> SUFFICES ASSUME NEW s \in Seq(Nodes), s # <<>>
               PROVE  Range(s) = {Head(s)} \cup Range(Tail(s))
    OBVIOUS
  <2>1. Len(s) \in Nat \ {0} /\ Head(s) = s[1] /\ DOMAIN s = 1..Len(s)
    OBVIOUS
  <2>2. /\ Tail(s) \in Seq(Nodes) /\ Len(Tail(s)) = Len(s) - 1
        /\ \A i \in 1..(Len(s) - 1) : Tail(s)[i] = s[i + 1]
    OBVIOUS
  <2>3. DOMAIN Tail(s) = 1..(Len(s) - 1)
    BY <2>2
  <2>4. ASSUME NEW x \in Range(s) PROVE x = Head(s) \/ x \in Range(Tail(s))
    <3>1. PICK i \in 1..Len(s) : s[i] = x
      BY <2>1 DEF Range
    <3>2. CASE i = 1
      BY <2>1, <3>1, <3>2
    <3>3. CASE i # 1
      <4>1. i - 1 \in 1..(Len(s) - 1) /\ Tail(s)[i - 1] = x
        BY <2>1, <2>2, <3>1, <3>3
      <4> QED
        BY <2>3, <4>1 DEF Range
    <3> QED
      BY <3>2, <3>3
  <2>5. ASSUME NEW x \in Range(Tail(s)) PROVE x \in Range(s)
    <3>1. PICK i \in 1..(Len(s) - 1) : Tail(s)[i] = x
      BY <2>3 DEF Range
    <3>2. i + 1 \in 1..Len(s) /\ s[i + 1] = x
      BY <2>1, <2>2, <3>1
    <3> QED
      BY <2>1, <3>2 DEF Range
  <2>6. Head(s) \in Range(s)
    <3>1. 1 \in DOMAIN s
      BY <2>1
    <3> QED
      BY <2>1, <3>1 DEF Range
  <2> QED
    BY <2>4, <2>5, <2>6
<1>3. Range(Owners[k]) = {primary(k)} \cup replicas(k)
  BY <1>1, <1>2 DEF primary, replicas
<1> QED
  BY <1>3 DEF FanoutTargets

LEMMA ApplyPath ==
  ASSUME IInv, IInv', PathInv, NEW p \in Procs, Apply(p)
  PROVE  PathInv'
<1>1. /\ op[p] \in Op /\ OpOK(op[p]) /\ PathOK(op[p]) /\ op[p].pc = "apply"
      /\ op[p].node \in Nodes /\ op[p].key \in Keys /\ op[p].promoted \in BOOLEAN
      /\ op[p].item \in Item
  BY OnPath DEF Apply, OpOK, Op
<1>2. PICK n \in Nodes : n = op[p].node
  BY <1>1
<1>3. PICK k \in Keys : k = op[p].key
  BY <1>1
<1>4. PICK it \in Item : it = op[p].item
  BY <1>1
<1>5. op[p].kind = "set" /\ it.val \in 1..writes
  BY <1>1, <1>4 DEF OpOK
<1>6. n \in Range(Owners[k]) /\ (op[p].promoted \/ n = primary(k))
  BY <1>1, <1>2, <1>3 DEF PathOK
<1>7. PICK S \in SUBSET Nodes : S = FanoutTargets(n, k, op[p].promoted)
  BY <1>1, <1>6, FanoutCovers, OwnersType
<1>8. S \subseteq Range(Owners[k]) /\ n \notin S /\ Range(Owners[k]) \ S \subseteq {n}
  BY <1>1, <1>6, <1>7, FanoutCovers
<1>9. PICK o \in Op : o = [op[p] EXCEPT !.pc = "fanout", !.acks = 1, !.todo = S]
  BY <1>1 DEF Op, PCs
<1>10. /\ op' = [op EXCEPT ![p] = o] /\ Put(n, k, it)
       /\ UNCHANGED <<hints, expired, writes, wr>>
  BY <1>2, <1>3, <1>4, <1>7, <1>9 DEF Apply, hintVars
<1>11. /\ o.pc = "fanout" /\ o.promoted = op[p].promoted /\ o.kind = op[p].kind
       /\ o.key = k /\ o.todo = S /\ o.stale = op[p].stale
       /\ o.item = it /\ o.node = n /\ o.acks = 1
  BY <1>1, <1>2, <1>3, <1>4, <1>9 DEF Op
<1>12. it.val \in Writes
  BY <1>5, WriteType
<1>13. n \in stored'[it.val]
  BY <1>10, <1>12 DEF Put, IInv, StorePart
<1>14. stored'[it.val] \subseteq Nodes
  BY <1>12 DEF IInv, StorePart
<1>15. Cardinality(stored'[it.val] \ S) >= 1
  <2>1. {n} \subseteq stored'[it.val] \ S /\ stored'[it.val] \ S \subseteq Nodes
    BY <1>8, <1>13, <1>14
  <2>2. /\ Cardinality({n}) <= Cardinality(stored'[it.val] \ S)
        /\ Cardinality(stored'[it.val] \ S) \in Nat
    BY <2>1, SmallerCard
  <2>3. Cardinality({n}) = 1
    BY FS_Singleton
  <2> QED
    BY <2>2, <2>3
<1>16. \A t \in Range(Owners[k]) \ S : Reached(it.val, t)'
  BY <1>8, <1>13 DEF Reached
<1>17. /\ wr'[it.val].key = k /\ wr'[it.val].result = "pending"
       /\ o.stale \subseteq Range(Owners[k])
  BY <1>1, <1>3, <1>4, <1>5, <1>10, <1>11 DEF PathOK
<1>18. PathOK(o)'
  BY <1>6, <1>8, <1>11, <1>15, <1>16, <1>17 DEF PathOK
<1> QED
  BY <1>6, <1>10, <1>18, RecordsKept, CallPath

(* An owner that answers has held the value, and is one more that counts. *)
LEMMA FanoutAckPath ==
  ASSUME IInv, IInv', PathInv, NEW p \in Procs, FanoutAck(p)
  PROVE  PathInv'
<1>1. PICK t \in Nodes :
        /\ op[p].pc = "fanout" /\ t \in op[p].todo
        /\ Arrive("set", t, op[p].key, op[p].item)
        /\ op' = [op EXCEPT ![p].todo = @ \ {t}, ![p].acks = @ + 1]
        /\ UNCHANGED <<hints, expired, writes, wr>>
  BY DEF FanoutAck, IsNext, hintVars
<1>2. /\ op[p] \in Op /\ OpOK(op[p]) /\ PathOK(op[p])
      /\ op[p].key \in Keys /\ op[p].item \in Item
      /\ op[p].acks \in Nat /\ op[p].todo \in SUBSET Nodes
  BY OnPath DEF Op
<1>3. PICK k \in Keys : k = op[p].key
  BY <1>2
<1>4. PICK it \in Item : it = op[p].item
  BY <1>2
<1>5. PICK a \in Nat : a = op[p].acks
  BY <1>2
<1>6. PICK S \in SUBSET Nodes : S = op[p].todo
  BY <1>2
<1>7. PICK b \in Nat : b = a + 1
  OBVIOUS
<1>8. PICK T \in SUBSET Nodes : T = S \ {t}
  OBVIOUS
<1>9. PICK o \in Op : o = [op[p] EXCEPT !.todo = T, !.acks = b]
  BY <1>2 DEF Op
<1>10. op' = [op EXCEPT ![p] = o]
  BY <1>1, <1>5, <1>6, <1>7, <1>8, <1>9
<1>11. /\ o.pc = "fanout" /\ o.promoted = op[p].promoted /\ o.kind = op[p].kind
       /\ o.key = k /\ o.todo = T /\ o.stale = op[p].stale
       /\ o.item = it /\ o.node = op[p].node /\ o.acks = b
  BY <1>1, <1>2, <1>3, <1>4, <1>9 DEF Op
<1>12. /\ it.val \in 1..writes /\ S \subseteq Range(Owners[k])
       /\ op[p].stale \subseteq Range(Owners[k])
       /\ op[p].node \in Range(Owners[k]) /\ (op[p].promoted \/ op[p].node = primary(k))
       /\ \A x \in Range(Owners[k]) \ S : Reached(it.val, x)
       /\ a <= Cardinality(stored[it.val] \ S)
       /\ wr[it.val].key = k /\ wr[it.val].result = "pending" /\ op[p].kind = "set"
  BY <1>1, <1>2, <1>3, <1>4, <1>5, <1>6 DEF PathOK, OpOK
<1>13. it.val \in Writes
  BY <1>12, WriteType
<1>14. stored' = [stored EXCEPT ![it.val] = @ \cup {t}]
  BY <1>1, <1>3, <1>4, <1>6, <1>12 DEF Arrive, ownsKeyInternal
<1>15. stored'[it.val] = stored[it.val] \cup {t} /\ stored[it.val] \subseteq Nodes
  BY <1>13, <1>14 DEF IInv, StorePart
<1>16. \A w \in Writes : stored[w] \subseteq stored'[w]
  BY <1>1, StoredGrows
<1>17. Grows
  BY <1>1, <1>16, GrowsQuietly, RecordsKept
<1>18. \A x \in Range(Owners[k]) \ T : Reached(it.val, x)'
  <2> SUFFICES ASSUME NEW x \in Range(Owners[k]) \ T PROVE Reached(it.val, x)'
    OBVIOUS
  <2>1. CASE x = t
    BY <1>15, <2>1 DEF Reached
  <2>2. CASE x # t
    BY <1>8, <1>12, <1>17, <2>2, OwnersType DEF Grows
  <2> QED
    BY <2>1, <2>2
<1>19. b <= Cardinality(stored'[it.val] \ T)
  <2>1. /\ stored'[it.val] \ T = (stored[it.val] \ S) \cup {t}
        /\ t \notin stored[it.val] \ S
    BY <1>1, <1>6, <1>8, <1>15
  <2>2. IsFiniteSet(stored[it.val] \ S) /\ Cardinality(stored[it.val] \ S) \in Nat
    BY <1>15, SmallerCard
  <2>3. Cardinality(stored'[it.val] \ T) = Cardinality(stored[it.val] \ S) + 1
    BY <2>1, <2>2, FS_AddElement
  <2> QED
    BY <1>7, <1>12, <2>2, <2>3
<1>20. PathOK(o)'
  <2>1. o.todo \cup o.stale \subseteq Range(Owners[k])
    BY <1>8, <1>11, <1>12
  <2> QED
    BY <1>1, <1>11, <1>12, <1>18, <1>19, <2>1 DEF PathOK
<1> QED
  BY <1>1, <1>2, <1>10, <1>20, RecordsKept, CallPath

LEMMA QueuePath ==
  ASSUME IInv, NEW n \in Nodes, NEW t \in Nodes, NEW k \in Keys, NEW it \in Item,
         queueHint(n, t, k, it)
  PROVE  /\ \A m, s \in Nodes : \A w : Hinted(m, w, s) => Hinted(m, w, s)'
         /\ Hinted(n, it.val, t)'
         /\ HintsOwned /\ t \in Range(Owners[k]) => HintsOwned'
<1> DEFINE h == [key |-> k, item |-> it]
           q == Append(hints[n][t], h)
<1>1. h.item = it /\ h.key = k
  OBVIOUS
<1>2. hints' = [hints EXCEPT ![n][t] = q]
  BY DEF queueHint
<1> HIDE DEF h
<1>3. /\ hints[n][t] \in Seq(Hint) /\ Len(hints[n][t]) \in Nat
      /\ hints \in [Nodes -> [Nodes -> Seq(Hint)]]
  BY DEF IInv, HintPart
<1>4. /\ DOMAIN q = 1..(Len(hints[n][t]) + 1) /\ Len(q) = Len(hints[n][t]) + 1
      /\ q[Len(hints[n][t]) + 1] = h
      /\ \A i \in 1..Len(hints[n][t]) : q[i] = hints[n][t][i]
      /\ DOMAIN hints[n][t] = 1..Len(hints[n][t])
  BY <1>3
<1> HIDE DEF q
<1>5. \A m, s \in Nodes : hints'[m][s] = IF m = n /\ s = t THEN q ELSE hints[m][s]
  BY <1>2, <1>3
<1>6. ASSUME NEW m \in Nodes, NEW s \in Nodes, NEW w, Hinted(m, w, s)
      PROVE  Hinted(m, w, s)'
  <2>1. CASE m = n /\ s = t
    <3>1. PICK i \in 1..Len(hints[n][t]) : hints[n][t][i].item.val = w
      BY <1>4, <1>6, <2>1 DEF Hinted
    <3>2. i \in DOMAIN hints'[m][s] /\ hints'[m][s][i] = hints[n][t][i]
      BY <1>3, <1>4, <1>5, <2>1
    <3> QED
      BY <3>1, <3>2 DEF Hinted
  <2>2. CASE ~(m = n /\ s = t)
    BY <1>5, <1>6, <2>2 DEF Hinted
  <2> QED
    BY <2>1, <2>2
<1>7. Hinted(n, it.val, t)'
  <2>1. Len(hints[n][t]) + 1 \in DOMAIN hints'[n][t]
    BY <1>3, <1>4, <1>5
  <2> QED
    BY <1>1, <1>4, <1>5, <2>1 DEF Hinted
<1>8. ASSUME HintsOwned, t \in Range(Owners[k]) PROVE HintsOwned'
  <2> SUFFICES ASSUME NEW m \in Nodes, NEW s \in Nodes, NEW i \in 1..Len(hints'[m][s])
               PROVE  s \in Range(Owners[hints'[m][s][i].key])
    BY DEF HintsOwned
  <2>1. CASE m = n /\ s = t
    <3>1. i \in 1..Len(hints[n][t]) \/ i = Len(hints[n][t]) + 1
      BY <1>3, <1>4, <1>5, <2>1
    <3> QED
      BY <1>1, <1>4, <1>5, <1>8, <2>1, <3>1 DEF HintsOwned
  <2>2. CASE ~(m = n /\ s = t)
    BY <1>5, <1>8, <2>2 DEF HintsOwned
  <2> QED
    BY <2>1, <2>2
<1> QED
  BY <1>6, <1>7, <1>8

LEMMA FanoutErrorPath ==
  ASSUME IInv, IInv', PathInv, NEW p \in Procs, FanoutError(p)
  PROVE  PathInv'
<1>1. PICK t \in Nodes :
        /\ op[p].pc = "fanout" /\ t \in op[p].todo
        /\ queueHint(op[p].node, t, op[p].key, op[p].item)
        /\ op' = [op EXCEPT ![p].todo = @ \ {t}]
        /\ UNCHANGED <<items, stored, writes, wr>>
  BY DEF FanoutError, IsNext, StoreUnchanged, storeVars
<1>2. /\ op[p] \in Op /\ OpOK(op[p]) /\ PathOK(op[p])
      /\ op[p].key \in Keys /\ op[p].item \in Item /\ op[p].node \in Nodes
      /\ op[p].acks \in Nat /\ op[p].todo \in SUBSET Nodes
  BY <1>1, OnPath DEF Op, OpOK
<1>3. PICK k \in Keys : k = op[p].key
  BY <1>2
<1>4. PICK it \in Item : it = op[p].item
  BY <1>2
<1>5. PICK n \in Nodes : n = op[p].node
  BY <1>2
<1>6. PICK S \in SUBSET Nodes : S = op[p].todo
  BY <1>2
<1>7. PICK a \in Nat : a = op[p].acks
  BY <1>2
<1>8. PICK T \in SUBSET Nodes : T = S \ {t}
  OBVIOUS
<1>9. PICK o \in Op : o = [op[p] EXCEPT !.todo = T]
  BY <1>2 DEF Op
<1>10. op' = [op EXCEPT ![p] = o]
  BY <1>1, <1>6, <1>8, <1>9
<1>11. /\ o.pc = "fanout" /\ o.promoted = op[p].promoted /\ o.kind = op[p].kind
       /\ o.key = k /\ o.todo = T /\ o.stale = op[p].stale
       /\ o.item = it /\ o.node = n /\ o.acks = a
  BY <1>1, <1>2, <1>3, <1>4, <1>5, <1>7, <1>9 DEF Op
<1>12. /\ it.val \in 1..writes /\ S \subseteq Range(Owners[k])
       /\ op[p].stale \subseteq Range(Owners[k])
       /\ n \in Range(Owners[k]) /\ (op[p].promoted \/ n = primary(k))
       /\ \A x \in Range(Owners[k]) \ S : Reached(it.val, x)
       /\ a <= Cardinality(stored[it.val] \ S)
       /\ wr[it.val].key = k /\ wr[it.val].result = "pending" /\ op[p].kind = "set"
       /\ wr[it.val].coord = n
  BY <1>1, <1>2, <1>3, <1>4, <1>5, <1>6, <1>7 DEF PathOK, OpOK
<1>13. it.val \in Writes
  BY <1>12, WriteType
<1>14. /\ \A m, s \in Nodes : \A w : Hinted(m, w, s) => Hinted(m, w, s)'
       /\ Hinted(n, it.val, t)'
       /\ HintsOwned'
       /\ UNCHANGED expired
  BY <1>1, <1>3, <1>4, <1>5, <1>6, <1>12, QueuePath DEF PathInv, queueHint
<1>15. \A w \in 1..writes, x \in Nodes : Reached(w, x) => Reached(w, x)'
  <2> SUFFICES ASSUME NEW w \in 1..writes, NEW x \in Nodes, Reached(w, x)
               PROVE  Reached(w, x)'
    OBVIOUS
  <2>1. PICK m \in Nodes : m = wr[w].coord
    BY DEF IInv, RecordPart
  <2>2. wr'[w].coord = m /\ stored'[w] = stored[w] /\ UNCHANGED expired
    BY <1>1, <1>14, <2>1
  <2>3. CASE Hinted(m, w, x)
    <3>1. Hinted(m, w, x)'
      BY <1>14, <2>3
    <3> QED
      BY <2>2, <3>1 DEF Reached, Hinted
  <2>4. CASE ~Hinted(m, w, x)
    BY <2>1, <2>2, <2>4 DEF Reached
  <2> QED
    BY <2>3, <2>4
<1>16. Grows
  BY <1>1, <1>15, WriteType DEF Grows
<1>17. Reached(it.val, t)'
  <2>1. wr'[it.val].coord = n
    BY <1>1, <1>12
  <2> QED
    BY <1>14, <2>1 DEF Reached, Hinted
<1>18. \A x \in Range(Owners[k]) \ T : Reached(it.val, x)'
  <2> SUFFICES ASSUME NEW x \in Range(Owners[k]) \ T PROVE Reached(it.val, x)'
    OBVIOUS
  <2>2. CASE x # t
    BY <1>8, <1>12, <1>16, <2>2, OwnersType DEF Grows
  <2> QED
    BY <1>17, <2>2
<1>19. a <= Cardinality(stored'[it.val] \ T)
  <2>1. stored[it.val] \ S \subseteq stored'[it.val] \ T /\ stored'[it.val] \ T \subseteq Nodes
    BY <1>1, <1>8, <1>13, WriteType
  <2>2. /\ Cardinality(stored[it.val] \ S) \in Nat
        /\ Cardinality(stored'[it.val] \ T) \in Nat
        /\ Cardinality(stored[it.val] \ S) <= Cardinality(stored'[it.val] \ T)
    BY <2>1, SmallerCard
  <2> QED
    BY <1>12, <2>2
<1>20. PathOK(o)'
  <2>1. o.todo \cup o.stale \subseteq Range(Owners[k])
    BY <1>8, <1>11, <1>12
  <2> QED
    BY <1>1, <1>11, <1>12, <1>18, <1>19, <2>1 DEF PathOK
<1>21. PathOps'
  <2>1. op'[p] = o /\ \A q \in Procs : q # p => op'[q] = op[q]
    BY <1>10 DEF IInv, OpPart
  <2> QED
    BY <1>1, <1>16, <1>20, <2>1, OpsKept DEF PathInv
<1>22. Answered'
  BY <1>1, <1>16, AnsweredKept DEF PathInv
<1> QED
  BY <1>1, <1>14, <1>21, <1>22 DEF PathInv, OnlyOwnersStore

LEMMA ReadOnePath ==
  ASSUME IInv, IInv', PathInv, NEW p \in Procs, ReadOne(p)
  PROVE  PathInv'
<1>1. PICK t \in Nodes :
        /\ op[p].pc = "read"
        /\ \/ /\ op' = [op EXCEPT ![p].todo = @ \ {t}]
              /\ StoreUnchanged
           \/ /\ op' = [op EXCEPT ![p] = Idle]
              /\ \/ /\ op[p].node \in Range(Owners[op[p].key])
                    /\ Put(op[p].node, op[p].key, Fetch(op[p].node, t, op[p].key))
                 \/ StoreUnchanged
        /\ UNCHANGED <<hints, expired, writes, wr>>
  BY DEF ReadOne, ownsKeyInternal, hintVars
<1>2. /\ op[p] \in Op /\ OpOK(op[p]) /\ PathOK(op[p]) /\ op[p].kind = "get"
      /\ op[p].key \in Keys /\ op[p].node \in Nodes
  BY <1>1, OnPath DEF Op, OpOK
<1>3. Fetch(op[p].node, t, op[p].key) \in Item
  BY <1>2, FetchGood
<1>4. Idle \in Op /\ PathOK(Idle)'
  BY IdleType, IdlePath
<1>5. CASE op' = [op EXCEPT ![p] = Idle]
  <2>1. \/ StoreUnchanged
        \/ /\ Put(op[p].node, op[p].key, Fetch(op[p].node, t, op[p].key))
           /\ op[p].node \in Range(Owners[op[p].key])
    <3>1. CASE op' = [op EXCEPT ![p].todo = @ \ {t}] /\ StoreUnchanged
      BY <3>1
    <3> QED
      BY <1>1, <3>1
  <2> QED
    BY <1>1, <1>2, <1>3, <1>4, <1>5, <2>1, RecordsKept, CallPath
<1>6. CASE op' = [op EXCEPT ![p].todo = @ \ {t}] /\ StoreUnchanged
  <2>1. PICK o \in Op : o = [op[p] EXCEPT !.todo = @ \ {t}]
    BY <1>2 DEF Op
  <2>2. op' = [op EXCEPT ![p] = o]
    BY <1>6, <2>1
  <2>3. /\ o.pc = "read" /\ o.kind = "get" /\ o.key = op[p].key
        /\ o.todo \subseteq op[p].todo /\ o.stale = op[p].stale
    BY <1>1, <1>2, <2>1 DEF Op
  <2>4. PathOK(o)'
    BY <1>2, <2>3 DEF PathOK
  <2> QED
    BY <1>1, <1>6, <2>2, <2>4, RecordsKept, StoreKeptPath DEF StoreUnchanged, storeVars
<1> QED
  BY <1>1, <1>5, <1>6

LEMMA ReadQuorumPath ==
  ASSUME IInv, IInv', PathInv, NEW p \in Procs, ReadQuorum(p)
  PROVE  PathInv'
<1>1. op[p].pc = "read" /\ UNCHANGED <<items, stored, hints, expired, writes, wr>>
  BY DEF ReadQuorum, StoreUnchanged, storeVars, hintVars
<1>2. /\ op[p] \in Op /\ OpOK(op[p]) /\ PathOK(op[p])
      /\ op[p].kind = "get" /\ op[p].node \in Nodes /\ op[p].key \in Keys
      /\ op[p].todo \subseteq Nodes /\ op[p].stale \subseteq Nodes
      /\ op[p].acks + 1 \in Nat /\ op[p].item \in Item
      /\ op[p].todo \subseteq Range(Owners[op[p].key])
      /\ op[p].stale \subseteq Range(Owners[op[p].key])
  <2>1. op[p] \in Op /\ OpOK(op[p]) /\ PathOK(op[p])
    BY OnPath
  <2>2. op[p].kind = "get" /\ op[p].node \in Nodes
    BY <1>1, <2>1 DEF OpOK
  <2>3. op[p].key \in Keys /\ op[p].acks + 1 \in Nat /\ op[p].item \in Item
    BY <2>1 DEF Op
  <2>4. op[p].todo \subseteq Nodes /\ op[p].stale \subseteq Nodes
    BY <2>1 DEF Op
  <2>5. op[p].todo \cup op[p].stale \subseteq Range(Owners[op[p].key])
    BY <2>1 DEF PathOK
  <2> QED
    BY <2>1, <2>2, <2>3, <2>4, <2>5
<1>3. PICK t \in op[p].todo :
        LET o      == op[p]
            it     == Fetch(o.node, t, o.key)
            chosen == chooseNewer(o.item, it)
            stale  == IF Present(o.item) /\ chosen # o.item
                      THEN o.stale \cup {t} ELSE o.stale
        IN  \/ op' = [op EXCEPT ![p].todo = @ \ {t}]
            \/ op' = [op EXCEPT ![p].todo = @ \ {t}, ![p].acks = o.acks + 1,
                               ![p].item = chosen, ![p].stale = stale]
            \/ op' = [op EXCEPT ![p].pc = "repair",
                               ![p].todo = Range(Owners[o.key]),
                               ![p].acks = 0, ![p].item = chosen,
                               ![p].stale = stale \ {o.node}]
  BY DEF ReadQuorum
<1> DEFINE it     == Fetch(op[p].node, t, op[p].key)
           chosen == chooseNewer(op[p].item, it)
           stale  == IF Present(op[p].item) /\ chosen # op[p].item
                     THEN op[p].stale \cup {t} ELSE op[p].stale
           R      == Range(Owners[op[p].key])
<1>4. it \in Item
  BY <1>2, FetchGood
<1> HIDE DEF it
<1>5. chosen \in Item
  BY <1>2, <1>4 DEF chooseNewer
<1> HIDE DEF chosen
<1>6. stale \subseteq Nodes /\ stale \subseteq R
  BY <1>2
<1>7. R \subseteq Nodes
  BY <1>2, OwnersType
<1> HIDE DEF stale
<1>8. PICK o \in Op : /\ op' = [op EXCEPT ![p] = o] /\ o.pc \in {"read", "repair"}
                      /\ o.kind = "get" /\ o.key = op[p].key
                      /\ o.todo \subseteq R /\ o.stale \subseteq R
  <2>1. CASE op' = [op EXCEPT ![p].todo = @ \ {t}]
    <3>1. PICK o \in Op : o = [op[p] EXCEPT !.todo = @ \ {t}]
      BY <1>2 DEF Op
    <3>2. /\ op' = [op EXCEPT ![p] = o] /\ o.pc = "read" /\ o.kind = "get"
          /\ o.key = op[p].key /\ o.todo \subseteq op[p].todo /\ o.stale = op[p].stale
      BY <1>1, <1>2, <2>1, <3>1 DEF Op
    <3> QED
      BY <1>2, <3>2
  <2>2. CASE op' = [op EXCEPT ![p].todo = @ \ {t}, ![p].acks = op[p].acks + 1,
                              ![p].item = chosen, ![p].stale = stale]
    <3> DEFINE a == op[p].acks + 1
               S == op[p].todo \ {t}
               o == [op[p] EXCEPT !.todo = S, !.acks = a, !.item = chosen, !.stale = stale]
    <3>1. a \in Nat /\ S \subseteq Nodes /\ S \subseteq R
      BY <1>2
    <3>2. op' = [op EXCEPT ![p] = o]
      BY <2>2
    <3> HIDE DEF a, S
    <3>3. /\ o \in Op /\ o.pc = "read" /\ o.kind = "get" /\ o.key = op[p].key
          /\ o.todo = S /\ o.stale = stale
      BY <1>1, <1>2, <1>5, <1>6, <3>1 DEF Op
    <3> HIDE DEF o
    <3> QED
      BY <1>6, <3>1, <3>2, <3>3
  <2>3. CASE op' = [op EXCEPT ![p].pc = "repair", ![p].todo = Range(Owners[op[p].key]),
                              ![p].acks = 0, ![p].item = chosen,
                              ![p].stale = stale \ {op[p].node}]
    <3> DEFINE S == stale \ {op[p].node}
               o == [op[p] EXCEPT !.pc = "repair", !.todo = R, !.acks = 0,
                                  !.item = chosen, !.stale = S]
    <3>1. S \subseteq Nodes /\ S \subseteq R
      BY <1>6
    <3>2. op' = [op EXCEPT ![p] = o]
      BY <2>3
    <3> HIDE DEF R, S
    <3>3. /\ o \in Op /\ o.pc = "repair" /\ o.kind = "get" /\ o.key = op[p].key
          /\ o.todo = R /\ o.stale = S
      BY <1>2, <1>5, <1>7, <3>1 DEF Op, PCs
    <3> HIDE DEF o
    <3> QED
      BY <3>1, <3>2, <3>3
  <2> QED
    BY <1>3, <2>1, <2>2, <2>3 DEF it, chosen, stale
<1>9. PathOK(o)'
  BY <1>8 DEF PathOK
<1> QED
  BY <1>1, <1>8, <1>9, RecordsKept, StoreKeptPath

(* A repair goes through the lists of the read, which hold owners only. *)
LEMMA RepairPath ==
  ASSUME IInv, IInv', PathInv, NEW p \in Procs, RepairLocal(p) \/ RepairRemote(p)
  PROVE  PathInv'
<1>1. PICK t \in Nodes :
        /\ op[p].pc = "repair" /\ NextRepair(op[p], t)
        /\ \/ Put(t, op[p].key, op[p].item)
           \/ Arrive("set", t, op[p].key, op[p].item)
           \/ StoreUnchanged
        /\ op' = [op EXCEPT ![p] = Repaired(op[p], t)]
        /\ UNCHANGED <<hints, expired, writes, wr>>
  <2>1. CASE RepairLocal(p)
    <3>1. op[p].node \in Nodes
      BY <2>1, Running DEF RepairLocal
    <3> QED
      BY <2>1, <3>1 DEF RepairLocal, hintVars
  <2>2. CASE RepairRemote(p)
    BY <2>2 DEF RepairRemote, hintVars
  <2> QED
    BY <2>1, <2>2
<1>2. /\ op[p] \in Op /\ OpOK(op[p]) /\ PathOK(op[p])
      /\ op[p].kind = "get" /\ op[p].key \in Keys /\ op[p].item \in Item
      /\ op[p].todo \subseteq Range(Owners[op[p].key])
      /\ op[p].stale \subseteq Range(Owners[op[p].key])
  BY <1>1, OnPath DEF OpOK, Op, PathOK
<1>3. t \in Range(Owners[op[p].key])
  BY <1>1, <1>2 DEF NextRepair, IsNext
<1>4. PICK o \in Op : /\ o = Repaired(op[p], t)
                      /\ o.pc = "repair" /\ o.kind = "get" /\ o.key = op[p].key
                      /\ o.todo \subseteq op[p].todo /\ o.stale \subseteq op[p].stale
  <2>1. CASE Repaired(op[p], t) = [op[p] EXCEPT !.stale = @ \ {t}]
    <3>1. PICK o \in Op : o = [op[p] EXCEPT !.stale = @ \ {t}]
      BY <1>2 DEF Op
    <3>2. /\ o.pc = "repair" /\ o.kind = "get" /\ o.key = op[p].key
          /\ o.todo = op[p].todo /\ o.stale = op[p].stale \ {t}
      BY <1>1, <1>2, <3>1 DEF Op
    <3> QED
      BY <2>1, <3>1, <3>2
  <2>2. CASE Repaired(op[p], t) = [op[p] EXCEPT !.todo = @ \ {t}]
    <3>1. PICK o \in Op : o = [op[p] EXCEPT !.todo = @ \ {t}]
      BY <1>2 DEF Op
    <3>2. /\ o.pc = "repair" /\ o.kind = "get" /\ o.key = op[p].key
          /\ o.todo = op[p].todo \ {t} /\ o.stale = op[p].stale
      BY <1>1, <1>2, <3>1 DEF Op
    <3> QED
      BY <2>2, <3>1, <3>2
  <2> QED
    BY <2>1, <2>2 DEF Repaired
<1>5. PathOK(o)'
  BY <1>2, <1>4 DEF PathOK
<1> QED
  BY <1>1, <1>2, <1>3, <1>4, <1>5, RecordsKept, CallPath

-----------------------------------------------------------------------------
(* Hint replay: the hint that goes is the one delivered or expired. *)

LEMMA RemoveAtKeeps ==
  ASSUME NEW S, NEW s \in Seq(S), NEW i \in 1..Len(s), NEW m \in 1..Len(s), m # i
  PROVE  \E j \in 1..Len(RemoveAt(s, i)) : RemoveAt(s, i)[j] = s[m]
<1> DEFINE a == SubSeq(s, 1, i - 1)
           b == SubSeq(s, i + 1, Len(s))
<1>1. /\ a \in Seq(S) /\ Len(a) = i - 1
      /\ \A j \in 1..(i - 1) : a[j] = s[j]
  OBVIOUS
<1>2. /\ b \in Seq(S) /\ Len(b) = Len(s) - i
      /\ \A j \in 1..(Len(s) - i) : b[j] = s[i + j]
  OBVIOUS
<1>3. RemoveAt(s, i) = a \o b
  BY DEF RemoveAt
<1> HIDE DEF a, b
<1>4. i \in Nat /\ Len(s) \in Nat /\ 1 <= i /\ i <= Len(s) /\ m \in Nat /\ 1 <= m /\ m <= Len(s)
  OBVIOUS
<1>5. /\ Len(a \o b) = Len(s) - 1
      /\ \A j \in 1..(Len(a) + Len(b)) :
           (a \o b)[j] = IF j <= Len(a) THEN a[j] ELSE b[j - Len(a)]
  <2>1. Len(a \o b) = Len(a) + Len(b)
    BY <1>1, <1>2, ConcatProperties
  <2>2. \A j \in 1..(Len(a) + Len(b)) :
          (a \o b)[j] = IF j <= Len(a) THEN a[j] ELSE b[j - Len(a)]
    BY <1>1, <1>2, ConcatProperties
  <2>3. Len(a) + Len(b) = Len(s) - 1
    BY <1>1, <1>2, <1>4
  <2> QED
    BY <2>1, <2>2, <2>3
<1>6. CASE m < i
  <2>1. m \in 1..Len(a \o b) /\ (a \o b)[m] = s[m]
    BY <1>1, <1>2, <1>4, <1>5, <1>6
  <2> QED
    BY <1>3, <2>1
<1>7. CASE m > i
  <2>1. m - 1 \in 1..Len(a \o b) /\ (a \o b)[m - 1] = b[m - i]
    BY <1>1, <1>2, <1>4, <1>5, <1>7
  <2>2. m - i \in 1..(Len(s) - i) /\ i + (m - i) = m
    BY <1>4, <1>7
  <2>3. b[m - i] = s[m]
    BY <1>2, <2>2
  <2> QED
    BY <1>3, <2>1, <2>3
<1> QED
  BY <1>4, <1>6, <1>7

LEMMA ReplayPath ==
  ASSUME IInv, IInv', PathInv, NEW n \in Nodes, NEW t \in Nodes, ReplayHint(n, t)
  PROVE  PathInv'
<1>1. HintPart /\ InPass(n, t)
  BY DEF IInv, ReplayHint
<1>2. PICK i \in 1..Len(hints[n][t]) : i = CurrentHint(n, t)
  BY <1>1, InPassType
<1>3. PICK h \in Hint : h = hints[n][t][i]
  BY <1>1, HintType
<1>4. PICK q \in Seq(Hint) : q = RemoveAt(hints[n][t], i)
  BY <1>1, RemoveAtType DEF HintPart
<1>5. /\ \/ Arrive("set", t, h.key, h.item) /\ hints' = [hints EXCEPT ![n][t] = q]
            /\ UNCHANGED expired
         \/ /\ StoreUnchanged /\ hints' = [hints EXCEPT ![n][t] = q]
            /\ expired' = expired \cup {<<h.item.val, t>>}
         \/ StoreUnchanged /\ UNCHANGED <<hints, expired>>
      /\ UNCHANGED <<op, writes, wr>>
  BY <1>2, <1>3, <1>4 DEF ReplayHint
<1>6. h.key \in Keys /\ h.item \in Item /\ t \in Range(Owners[h.key])
  BY <1>3 DEF Hint, PathInv, HintsOwned
<1>7. (\A w \in Writes : stored[w] \subseteq stored'[w]) /\ OnlyOwnersStore'
  BY <1>5, <1>6, StoredGrows, OwnersKeepStore DEF PathInv
<1>8. h.item.val \in Writes
  <2>1. Good(h.item) /\ h.item.val # 0
    BY <1>1, <1>2, <1>3 DEF HintPart
  <2>2. writes \in Nat /\ \A w \in 1..writes : w \in Writes
    BY WriteType
  <2> QED
    BY <2>1, <2>2 DEF Good
<1>9. hints \in [Nodes -> [Nodes -> Seq(Hint)]]
  BY <1>1 DEF HintPart
<1>10. CASE UNCHANGED <<hints, expired>>
  BY <1>5, <1>7, <1>10, RecordsKept, QuietPath
<1>11. CASE /\ hints' = [hints EXCEPT ![n][t] = q]
            /\ expired \subseteq expired'
            /\ t \in stored'[h.item.val] \/ <<h.item.val, t>> \in expired'
  <2>1. \A m, s \in Nodes : hints'[m][s] = IF m = n /\ s = t THEN q ELSE hints[m][s]
    BY <1>9, <1>11
  <2>2. /\ \A j \in 1..Len(hints[n][t]) : j # i =>
             \E x \in 1..Len(q) : q[x] = hints[n][t][j]
        /\ \A x \in 1..Len(q) : \E j \in 1..Len(hints[n][t]) : q[x] = hints[n][t][j]
    <3>1. hints[n][t] \in Seq(Hint)
      BY <1>9
    <3>2. \A j \in 1..Len(hints[n][t]) : j # i =>
            \E x \in 1..Len(q) : q[x] = hints[n][t][j]
      BY <1>4, <3>1, RemoveAtKeeps
    <3>3. \A x \in 1..Len(q) : \E j \in 1..Len(hints[n][t]) : q[x] = hints[n][t][j]
      <4>1. \A x \in 1..Len(RemoveAt(hints[n][t], i)) :
              \E j \in 1..Len(hints[n][t]) : RemoveAt(hints[n][t], i)[x] = hints[n][t][j]
        BY <3>1, RemoveAtType
      <4> QED
        BY <1>4, <4>1
    <3> QED
      BY <3>2, <3>3
  <2>3. /\ \A m, s \in Nodes : DOMAIN hints[m][s] = 1..Len(hints[m][s])
        /\ DOMAIN q = 1..Len(q)
    BY <1>9
  <2>4. ASSUME NEW m \in Nodes, NEW s \in Nodes, NEW w, Hinted(m, w, s)
        PROVE  Hinted(m, w, s)' \/ (m = n /\ s = t /\ w = h.item.val)
    <3>1. CASE ~(m = n /\ s = t)
      BY <2>1, <2>4, <3>1 DEF Hinted
    <3>2. CASE m = n /\ s = t
      <4>1. PICK j \in 1..Len(hints[n][t]) : hints[n][t][j].item.val = w
        BY <2>3, <2>4, <3>2 DEF Hinted
      <4>2. CASE j = i
        BY <1>3, <3>2, <4>1, <4>2
      <4>3. CASE j # i
        <5>1. PICK x \in 1..Len(q) : q[x] = hints[n][t][j]
          BY <2>2, <4>3
        <5>2. x \in DOMAIN hints'[m][s] /\ hints'[m][s][x].item.val = w
          BY <2>1, <2>3, <3>2, <4>1, <5>1
        <5> QED
          BY <5>2 DEF Hinted
      <4> QED
        BY <4>2, <4>3
    <3> QED
      BY <3>1, <3>2
  <2>5. \A w \in 1..writes, x \in Nodes : Reached(w, x) => Reached(w, x)'
    <3> SUFFICES ASSUME NEW w \in 1..writes, NEW x \in Nodes, Reached(w, x)
                 PROVE  Reached(w, x)'
      OBVIOUS
    <3>1. PICK m \in Nodes : m = wr[w].coord
      BY DEF IInv, RecordPart
    <3>2. wr'[w].coord = m /\ stored[w] \subseteq stored'[w]
      BY <1>5, <1>7, <3>1, WriteType
    <3>3. CASE Hinted(m, w, x)
      <4>1. CASE Hinted(m, w, x)'
        BY <3>2, <4>1 DEF Reached, Hinted
      <4>2. CASE x = t /\ w = h.item.val
        BY <1>11, <4>2 DEF Reached
      <4> QED
        BY <2>4, <3>3, <4>1, <4>2
    <3>4. CASE ~Hinted(m, w, x)
      BY <1>11, <3>1, <3>2, <3>4 DEF Reached
    <3> QED
      BY <3>3, <3>4
  <2>6. Grows
    BY <1>5, <1>7, <2>5, WriteType DEF Grows
  <2>7. PathOps'
    BY <1>5, <2>6, OpsFrame DEF PathInv
  <2>8. Answered'
    BY <1>5, <2>6, AnsweredKept DEF PathInv
  <2>9. HintsOwned'
    <3> SUFFICES ASSUME NEW m \in Nodes, NEW s \in Nodes, NEW j \in 1..Len(hints'[m][s])
                 PROVE  s \in Range(Owners[hints'[m][s][j].key])
      BY DEF HintsOwned
    <3>1. \E x \in 1..Len(hints[m][s]) : hints'[m][s][j] = hints[m][s][x]
      <4>1. CASE m = n /\ s = t
        <5>1. hints'[m][s] = q
          BY <2>1, <4>1
        <5>2. j \in 1..Len(q)
          BY <5>1
        <5> QED
          BY <2>2, <4>1, <5>1, <5>2
      <4>2. CASE ~(m = n /\ s = t)
        BY <2>1, <4>2
      <4> QED
        BY <4>1, <4>2
    <3> QED
      BY <3>1 DEF PathInv, HintsOwned
  <2> QED
    BY <1>7, <2>7, <2>8, <2>9 DEF PathInv
<1>12. Arrive("set", t, h.key, h.item) => t \in stored'[h.item.val]
  BY <1>6, <1>8 DEF Arrive, ownsKeyInternal, IInv, StorePart
<1> QED
  BY <1>5, <1>10, <1>11, <1>12

-----------------------------------------------------------------------------
(* A new Set has left nothing anywhere. *)
LEMMA NewWritePath ==
  ASSUME IInv, IInv', PathInv, NEW n \in Nodes, NEW k \in Keys,
         NEW r \in {"pending", "draining"}, NewWrite(n, k, r),
         UNCHANGED <<items, stored, hints, expired>>
  PROVE  /\ Grows /\ Answered' /\ OnlyOwnersStore' /\ HintsOwned'
         /\ \A w \in 1..writes : wr'[w] = wr[w]
         /\ wr'[writes + 1].key = k /\ wr'[writes + 1].result = r
<1>1. /\ writes \in Nat /\ MaxSets \in Nat /\ writes' = writes + 1
      /\ writes + 1 \in Writes /\ \A w \in 1..writes : w \in Writes
  BY WriteType, ParametersAssumption DEF NewWrite, Writes
<1>2. wr' = [wr EXCEPT ![writes + 1] = [key |-> k, coord |-> n, version |-> 0,
                                        result |-> r]]
  BY DEF NewWrite
<1>3. /\ \A w \in Writes : w # writes + 1 => wr'[w] = wr[w]
      /\ wr'[writes + 1].key = k /\ wr'[writes + 1].result = r
  BY <1>1, <1>2 DEF IInv, RecordPart
<1>4. \A w \in 1..writes : wr'[w] = wr[w]
  BY <1>1, <1>3
<1>5. \A w \in 1..writes, t \in Nodes : Reached(w, t) => Reached(w, t)'
  BY <1>4 DEF Reached, Hinted
<1>6. Grows
  BY <1>1, <1>4, <1>5 DEF Grows
<1>7. Answered'
  <2>1. \A w \in Writes : w > writes' => wr'[w].result = wr[w].result
    BY <1>1, <1>3
  <2>2. \A w \in 1..writes' : \/ w \in 1..writes /\ wr'[w].result = wr[w].result
                              \/ wr'[w].result \notin {"ok", "quorumFailed"}
    <3>1. \A w \in 1..writes' : w \in 1..writes \/ w = writes + 1
      BY <1>1
    <3> QED
      BY <1>3, <1>4, <3>1
  <2> QED
    BY <1>6, <2>1, <2>2, AnsweredKept DEF PathInv
<1> QED
  BY <1>3, <1>4, <1>6, <1>7 DEF PathInv, OnlyOwnersStore, HintsOwned

LEMMA BeginSetPath ==
  ASSUME IInv, IInv', PathInv, NEW p \in Procs, NEW n \in Nodes, NEW k \in Keys,
         BeginSet(p, n, k)
  PROVE  PathInv'
<1>1. /\ NewWrite(n, k, "pending")
      /\ UNCHANGED <<items, stored, hints, expired>>
  BY DEF BeginSet, storeVars, hintVars
<1>2. /\ Grows /\ Answered' /\ OnlyOwnersStore' /\ HintsOwned'
      /\ \A w \in 1..writes : wr'[w] = wr[w]
      /\ wr'[writes + 1].key = k /\ wr'[writes + 1].result = "pending"
  BY <1>1, NewWritePath
<1>3. PICK w \in Nat : w = writes + 1
  BY WriteType
<1>4. PICK it \in Item : it = [NoItem EXCEPT !.val = w]
  BY DEF Item, NoItem
<1>5. PICK pc \in {"stamp", "forward"} : pc = IF n = primary(k) THEN "stamp" ELSE "forward"
  OBVIOUS
<1>6. PICK o \in Op : o = NewCall("set", n, k, pc, it)
  BY IdleType DEF NewCall, Idle, Op, PCs
<1>7. op' = [op EXCEPT ![p] = o]
  BY <1>3, <1>4, <1>5, <1>6 DEF BeginSet
<1>8. /\ o.pc = pc /\ o.kind = "set" /\ o.key = k /\ o.node = n /\ o.item = it
      /\ o.todo = {} /\ o.stale = {}
  BY <1>6, IdleType DEF NewCall, Idle, Op
<1>9. it.val = w
  BY <1>4 DEF NoItem
<1>10. primary(k) \in Range(Owners[k])
  <2>1. Owners[k] \in Seq(Nodes) /\ Owners[k] # <<>>
    BY OwnersAssumption
  <2>2. 1 \in DOMAIN Owners[k] /\ primary(k) = Owners[k][1]
    BY <2>1 DEF primary
  <2> QED
    BY <2>2 DEF Range
<1>11. PathOK(o)'
  BY <1>2, <1>3, <1>5, <1>8, <1>9, <1>10 DEF PathOK
<1>12. PathOps'
  <2>1. op'[p] = o /\ \A q \in Procs : q # p => op'[q] = op[q]
    BY <1>7 DEF IInv, OpPart
  <2>2. \A q \in Procs : q # p /\ op[q].kind = "set" =>
           wr'[op[q].item.val].result = wr[op[q].item.val].result
    BY <1>2 DEF IInv, OpPart, OpOK
  <2> QED
    BY <1>2, <1>11, <2>1, <2>2, OpsKept DEF PathInv
<1> QED
  BY <1>2, <1>12 DEF PathInv

LEMMA SetDrainingPath ==
  ASSUME IInv, IInv', PathInv, NEW p \in Procs, NEW n \in Nodes, NEW k \in Keys,
         SetDraining(p, n, k)
  PROVE  PathInv'
<1>1. /\ NewWrite(n, k, "draining")
      /\ UNCHANGED <<op, items, stored, hints, expired>>
  BY DEF SetDraining, StoreUnchanged, storeVars, hintVars, callVars
<1>2. /\ Grows /\ Answered' /\ OnlyOwnersStore' /\ HintsOwned'
      /\ \A w \in 1..writes : wr'[w] = wr[w]
  BY <1>1, NewWritePath
<1>3. PathOps'
  BY <1>1, <1>2, OpsFrame DEF PathInv
<1> QED
  BY <1>2, <1>3 DEF PathInv

LEMMA InitPath == Init => PathInv
<1> SUFFICES ASSUME Init PROVE PathInv
  OBVIOUS
<1>1. OnlyOwnersStore
  BY DEF Init, StoreInit, OnlyOwnersStore, Present, NoItem
<1>2. PathOps
  <2>1. /\ Idle.kind = "get" /\ Idle.pc = "idle" /\ Idle.todo = {} /\ Idle.stale = {}
    BY DEF Idle
  <2>2. PathOK(Idle)
    BY <2>1 DEF PathOK
  <2> QED
    BY <2>2 DEF PathOps, Init
<1>3. HintsOwned
  BY DEF HintsOwned, Init
<1>4. Answered
  BY DEF Answered, Init, Writes
<1> QED
  BY <1>1, <1>2, <1>3, <1>4 DEF PathInv

LEMMA NextPath ==
  ASSUME IInv, IInv', PathInv, [Next]_vars
  PROVE  PathInv'
<1>1. CASE UNCHANGED vars
  <2>1. UNCHANGED <<items, stored, op, hints, expired, writes, wr>>
    BY <1>1 DEF vars, callVars, storeVars, hintVars
  <2>2. (\A w \in Writes : stored[w] \subseteq stored'[w]) /\ OnlyOwnersStore'
    BY <2>1 DEF PathInv, OnlyOwnersStore
  <2> QED
    BY <2>1, <2>2, RecordsKept, QuietPath
<1>2. CASE \E p \in Procs, n \in Nodes, k \in Keys :
             BeginSet(p, n, k) \/ SetDraining(p, n, k)
             \/ BeginRemove(p, n, k) \/ BeginGet(p, n, k)
  BY <1>2, BeginSetPath, SetDrainingPath, BeginRemovePath, BeginGetPath
<1>3. CASE \E p \in Procs : CallStep(p) \/ ForwardTimeout(p)
  BY <1>3, ForwardPath, ForwardReturnPath, ForwardErrorPath, StampPath, ApplyPath,
     FanoutAckPath, FanoutErrorPath, SetReturnPath, ReadOnePath, ReadQuorumPath,
     ReadEndPath, RepairPath DEF CallStep
<1>4. CASE \E s \in Slots : HandlerStep(s) \/ HandlerStepLate(s)
  BY <1>4, HandlerPath
<1>5. CASE \E n \in Nodes : StartReplay(n) \/ \E t \in Nodes : ReplayHint(n, t)
  BY <1>5, NetPath, ReplayPath
<1>6. CASE \E n \in Nodes : Drain(n) \/ Isolate(n) \/ Heal(n)
  BY <1>6, NetPath
<1> QED
  BY <1>1, <1>2, <1>3, <1>4, <1>5, <1>6 DEF Next

LEMMA PathInductive == Spec => [](IInv /\ PathInv)
<1>1. Init => IInv /\ PathInv
  BY InitIInv, InitPath
<1>2. IInv /\ PathInv /\ [Next]_vars => (IInv /\ PathInv)'
  BY NextIInv, NextPath
<1> QED
  BY <1>1, <1>2, PTL DEF Spec

(***************************************************************************)
(* No path plants a copy on a node that does not own its key, for every    *)
(* ring: applyForwardedSet and tryRemoteGet check it, a promoted replica   *)
(* is an owner, and read repair goes through the owner list only.          *)
(***************************************************************************)
THEOREM OwnersOnly == Spec => []OnlyOwnersStore
<1>1. IInv /\ PathInv => OnlyOwnersStore
  BY DEF PathInv
<1> QED
  BY <1>1, PathInductive, PTL

(***************************************************************************)
(* A Set that the primary path answered with success has been in the store *)
(* of as many nodes as its consistency level asks for, whatever fails,     *)
(* times out, is promoted or replayed in between: every acknowledgement    *)
(* setImpl counts is a different node that took the value.                 *)
(***************************************************************************)
THEOREM SuccessIsStored == Spec => []AckedMeansStored
<1>1. ASSUME IInv, PathInv PROVE AckedMeansStored
  <2> SUFFICES ASSUME NEW w \in Writes, wr[w].result = "ok"
               PROVE  Cardinality(stored[w]) >= neededWrites(wr[w].key)
    BY DEF AckedMeansStored
  <2>1. w \in 1..writes
    BY <1>1, WriteType DEF PathInv, Answered, Writes
  <2> QED
    BY <1>1, <2>1 DEF PathInv, Answered
<1> QED
  BY <1>1, PathInductive, PTL

(***************************************************************************)
(* No owner is left out of a Set that returned: each has held the value,   *)
(* or its coordinator still keeps a hint for it, or that hint expired.     *)
(* setImpl's list is complete for a primary and for a promoted replica,    *)
(* every error queues a hint, and replayHints drops one only when it was   *)
(* delivered to an owner or is past its TTL.                               *)
(***************************************************************************)
THEOREM OwnersAccountedFor == Spec => []NoOwnerForgotten
<1>1. ASSUME IInv, PathInv PROVE NoOwnerForgotten
  <2> SUFFICES ASSUME NEW w \in Writes, wr[w].result \in {"ok", "quorumFailed"},
                      NEW t \in Range(Owners[wr[w].key])
               PROVE  t \in stored[w] \/ Hinted(wr[w].coord, w, t) \/ <<w, t>> \in expired
    BY DEF NoOwnerForgotten
  <2>1. w \in 1..writes
    BY <1>1, WriteType DEF PathInv, Answered, Writes
  <2> QED
    BY <1>1, <2>1 DEF PathInv, Answered, Reached
<1> QED
  BY <1>1, PathInductive, PTL

-----------------------------------------------------------------------------
(***************************************************************************)
(* A refused Set leaves nothing.  Spread(w) says that a copy of w is       *)
(* somewhere else than in a Set call that has not been forwarded yet.      *)
(* While the call waits to be forwarded its value has not spread, so a     *)
(* forward that cannot be made takes the only copy away with it.           *)
(***************************************************************************)
Unsent(o) == o.kind = "set" /\ o.pc = "forward"

Spread(w) ==
    \/ \E n \in Nodes, k \in Keys : items[n][k].val = w
    \/ \E s \in Slots : tasks[s].item.val = w
    \/ \E n, t \in Nodes : \E i \in 1..Len(hints[n][t]) : hints[n][t][i].item.val = w
    \/ \E p \in Procs : op[p].item.val = w /\ ~Unsent(op[p])

RefuseInv ==
    /\ \A p \in Procs : \A w \in 1..writes :
         Unsent(op[p]) /\ op[p].item.val = w => ~Spread(w)
    /\ \A w \in 1..writes : Spread(w) =>
         /\ wr[w].result # "draining"
         /\ wr[w].result = "error" => used.timeouts > 0

(* The step makes copies of u only. *)
StoresCopy(u) ==
    \A n \in Nodes, k \in Keys : items'[n][k].val \in {0, u, items[n][k].val}

TasksCopy(u) ==
    \A s \in Slots : \/ tasks'[s].item.val \in {0, u}
                     \/ \E r \in Slots : tasks'[s].item.val = tasks[r].item.val

HintsCopy(u) ==
    \A n, t \in Nodes : \A i \in 1..Len(hints'[n][t]) :
      \/ hints'[n][t][i].item.val = u
      \/ \E j \in 1..Len(hints[n][t]) : hints'[n][t][i].item.val = hints[n][t][j].item.val

OpsCopy(u) == \A q \in Procs : op'[q] = op[q] \/ op'[q].item.val \in {0, u}

CopiesOnly(u) == StoresCopy(u) /\ TasksCopy(u) /\ HintsCopy(u) /\ OpsCopy(u)

LEMMA SpreadOnly ==
  ASSUME NEW u, CopiesOnly(u), NEW w, w # 0, Spread(w)'
  PROVE  Spread(w) \/ w = u
<1>1. CASE \E n \in Nodes, k \in Keys : items'[n][k].val = w
  BY <1>1 DEF CopiesOnly, StoresCopy, Spread
<1>2. CASE \E s \in Slots : tasks'[s].item.val = w
  BY <1>2 DEF CopiesOnly, TasksCopy, Spread
<1>3. CASE \E n, t \in Nodes : \E i \in 1..Len(hints'[n][t]) : hints'[n][t][i].item.val = w
  <2>1. PICK n \in Nodes, t \in Nodes :
          \E i \in 1..Len(hints'[n][t]) : hints'[n][t][i].item.val = w
    BY <1>3
  <2>2. PICK i \in 1..Len(hints'[n][t]) : hints'[n][t][i].item.val = w
    BY <2>1
  <2>3. w = u \/ \E j \in 1..Len(hints[n][t]) : w = hints[n][t][j].item.val
    BY <2>2 DEF CopiesOnly, HintsCopy
  <2> QED
    BY <2>3 DEF Spread
<1>4. CASE \E p \in Procs : op'[p].item.val = w /\ ~(op'[p].kind = "set" /\ op'[p].pc = "forward")
  BY <1>4 DEF CopiesOnly, OpsCopy, Spread, Unsent
<1> QED
  BY <1>1, <1>2, <1>3, <1>4 DEF Spread, Unsent

LEMMA SameCopies ==
  ASSUME NEW u
  PROVE  /\ UNCHANGED items => StoresCopy(u)
         /\ UNCHANGED tasks => TasksCopy(u)
         /\ UNCHANGED hints => HintsCopy(u)
         /\ UNCHANGED op => OpsCopy(u)
<1>1. UNCHANGED items => StoresCopy(u)
  BY DEF StoresCopy
<1>2. UNCHANGED tasks => TasksCopy(u)
  BY DEF TasksCopy
<1>3. UNCHANGED hints => HintsCopy(u)
  BY DEF HintsCopy
<1>4. UNCHANGED op => OpsCopy(u)
  BY DEF OpsCopy
<1> QED
  BY <1>1, <1>2, <1>3, <1>4

LEMMA OneTask ==
  ASSUME IInv, NEW u, NEW x \in Slots, NEW t, tasks' = [tasks EXCEPT ![x] = t],
         t.item.val \in {0, u} \/ \E r \in Slots : t.item.val = tasks[r].item.val
  PROVE  TasksCopy(u)
<1>1. tasks \in [Slots -> Task]
  BY DEF IInv, TaskPart
<1> QED
  BY <1>1 DEF TasksCopy

LEMMA OneOp ==
  ASSUME IInv, NEW u, NEW p \in Procs, NEW o, op' = [op EXCEPT ![p] = o],
         o.item.val \in {0, u}
  PROVE  OpsCopy(u) /\ op'[p] = o /\ \A q \in Procs : q # p => op'[q] = op[q]
<1>1. op \in [Procs -> Op]
  BY DEF IInv, OpPart
<1> QED
  BY <1>1 DEF OpsCopy

LEMMA LateCopy ==
  ASSUME IInv, NEW kind, NEW n, NEW k, NEW it, ArriveLate(kind, n, k, it)
  PROVE  TasksCopy(it.val)
<1> DEFINE t == [kind |-> kind, at |-> n, key |-> k, item |-> it, todo |-> {n}]
<1>1. NextLate \in Slots
  BY LateSlot DEF ArriveLate, IInv
<1>2. tasks' = [tasks EXCEPT ![NextLate] = t] /\ t.item.val = it.val
  BY DEF ArriveLate
<1> HIDE DEF t
<1> QED
  BY <1>1, <1>2, OneTask

(* A step that copies what had spread already, and refuses nothing. *)
LEMMA RefuseKept ==
  ASSUME IInv, RefuseInv, NEW u, CopiesOnly(u), u = 0 \/ Spread(u),
         writes' = writes, used'.timeouts >= used.timeouts,
         used \in [DOMAIN Bounds -> Nat], used' \in [DOMAIN Bounds -> Nat],
         \A w \in 1..writes : \/ wr'[w].result = wr[w].result
                              \/ /\ wr'[w].result # "draining"
                                 /\ wr'[w].result = "error" => used'.timeouts > 0,
         \A q \in Procs : Unsent(op'[q]) => op'[q] = op[q]
  PROVE  RefuseInv'
<1>1. ASSUME NEW w \in 1..writes, Spread(w)' PROVE Spread(w)
  <2>1. w # 0
    BY WriteType
  <2> QED
    BY <1>1, <2>1, SpreadOnly
<1>2. used.timeouts \in Nat /\ used'.timeouts \in Nat
  BY DEF Bounds
<1>3. ASSUME NEW w \in 1..writes, Spread(w)'
      PROVE  wr'[w].result # "draining" /\ (wr'[w].result = "error" => used'.timeouts > 0)
  <2>1. /\ wr[w].result # "draining"
        /\ wr[w].result = "error" => used.timeouts > 0
    BY <1>1, <1>3 DEF RefuseInv
  <2> QED
    BY <1>2, <2>1
<1>4. ASSUME NEW q \in Procs, NEW w \in 1..writes, Unsent(op'[q]), op'[q].item.val = w
      PROVE  ~Spread(w)'
  BY <1>1, <1>4 DEF RefuseInv
<1> QED
  BY <1>3, <1>4 DEF RefuseInv, Unsent

LEMMA StoreCopies ==
  ASSUME IInv, NEW kind, NEW n, NEW k, NEW it,
         StoreUnchanged \/ Put(n, k, it) \/ Arrive(kind, n, k, it)
  PROVE  StoresCopy(it.val)
<1> USE DEF StoresCopy
<1>1. CASE UNCHANGED items
  BY <1>1
<1>2. CASE items' = [items EXCEPT ![n][k] = it]
  BY <1>2 DEF IInv, StorePart, StoreTypeOK
<1>3. CASE items' = [items EXCEPT ![n][k] = NoItem]
  <2>1. NoItem.val = 0
    BY DEF NoItem
  <2> QED
    BY <1>3, <2>1 DEF IInv, StorePart, StoreTypeOK
<1> QED
  BY <1>1, <1>2, <1>3
  DEF StoreUnchanged, storeVars, Put, Arrive, applySet, applyForwardedSet, applyRemove

LEMMA UseGrows ==
  ASSUME IInv, NEW b \in DOMAIN Bounds, Use(b)
  PROVE  /\ used'.timeouts >= used.timeouts
         /\ b = "timeouts" => used'.timeouts > 0
<1>1. used \in [DOMAIN Bounds -> Nat] /\ "timeouts" \in DOMAIN Bounds
  BY DEF IInv, NetPart, Bounds
<1>2. used' = [used EXCEPT ![b] = @ + 1]
  BY DEF Use
<1>3. used["timeouts"] \in Nat /\ used[b] \in Nat
  BY <1>1
<1>4. used'["timeouts"] = IF b = "timeouts" THEN used["timeouts"] + 1 ELSE used["timeouts"]
  BY <1>1, <1>2
<1> QED
  BY <1>3, <1>4

LEMMA TimeoutsType ==
  ASSUME IInv
  PROVE  used \in [DOMAIN Bounds -> Nat] /\ used.timeouts >= 0
  BY DEF IInv, NetPart, Bounds

(* The steps that leave the records alone. *)
LEMMA RefuseQuiet ==
  ASSUME IInv, IInv', RefuseInv, NEW u, CopiesOnly(u), u = 0 \/ Spread(u),
         UNCHANGED <<writes, wr>>,
         UNCHANGED used \/ \E b \in DOMAIN Bounds : Use(b),
         \A q \in Procs : Unsent(op'[q]) => op'[q] = op[q]
  PROVE  RefuseInv'
<1>1. used \in [DOMAIN Bounds -> Nat] /\ used' \in [DOMAIN Bounds -> Nat]
  BY DEF IInv, NetPart
<1>2. used'.timeouts >= used.timeouts
  <2>1. CASE UNCHANGED used
    <3>1. used.timeouts \in Nat
      BY <1>1 DEF Bounds
    <3> QED
      BY <2>1, <3>1
  <2> QED
    BY <2>1, UseGrows
<1>3. writes' = writes /\ \A w \in 1..writes : wr'[w].result = wr[w].result
  OBVIOUS
<1> QED
  BY <1>1, <1>2, <1>3, RefuseKept

LEMMA NoItemVal ==
  NoItem.val = 0 /\ Idle.item.val = 0 /\ NoTask.item.val = 0 /\ ~Unsent(Idle)
  BY DEF NoItem, Idle, NoTask, Unsent

LEMMA HandlerRefuse ==
  ASSUME IInv, IInv', RefuseInv, NEW s \in Slots, HandlerStep(s) \/ HandlerStepLate(s)
  PROVE  RefuseInv'
<1>1. PICK d \in Nodes :
         /\ \/ Arrive(tasks[s].kind, d, tasks[s].key, tasks[s].item)
            \/ StoreUnchanged
         /\ \/ tasks' = [tasks EXCEPT ![s] = RestOf(tasks[s], d)] /\ UNCHANGED used
            \/ /\ tasks' = [tasks EXCEPT ![s] = RestOf(tasks[s], d),
                      ![NextLate] = [tasks[s] EXCEPT !.at = d, !.todo = {d}]]
               /\ Use("timeouts")
         /\ UNCHANGED <<op, hints, writes, wr>>
  <2>1. CASE HandlerStep(s)
    BY <2>1 DEF HandlerStep, hintVars
  <2>2. CASE HandlerStepLate(s)
    BY <2>2 DEF HandlerStepLate, hintVars
  <2> QED
    BY <2>1, <2>2
<1> DEFINE u == tasks[s].item.val
<1>2. tasks[s] \in Task /\ tasks \in [Slots -> Task]
  BY DEF IInv, TaskPart
<1>3. RestOf(tasks[s], d).item.val \in {0, u}
  <2>1. [tasks[s] EXCEPT !.todo = @ \ {d}].item = tasks[s].item
    BY <1>2 DEF Task
  <2> QED
    BY <2>1, NoItemVal DEF RestOf
<1>4. [tasks[s] EXCEPT !.at = d, !.todo = {d}].item.val = u
  BY <1>2 DEF Task
<1> HIDE DEF u
<1>5. TasksCopy(u)
  <2>1. CASE tasks' = [tasks EXCEPT ![s] = RestOf(tasks[s], d)]
    BY <1>3, <2>1, OneTask
  <2>2. CASE /\ tasks' = [tasks EXCEPT ![s] = RestOf(tasks[s], d),
                      ![NextLate] = [tasks[s] EXCEPT !.at = d, !.todo = {d}]]
             /\ Use("timeouts")
    <3>1. NextLate \in Slots
      BY <2>2, LateSlot DEF IInv
    <3> QED
      BY <1>2, <1>3, <1>4, <2>2, <3>1 DEF TasksCopy
  <2> QED
    BY <1>1, <2>1, <2>2
<1>6. StoresCopy(u)
  BY <1>1, StoreCopies DEF u
<1>7. CopiesOnly(u)
  BY <1>1, <1>5, <1>6, SameCopies DEF CopiesOnly
<1>8. Spread(u)
  BY DEF Spread, u
<1>9. UNCHANGED used \/ \E b \in DOMAIN Bounds : Use(b)
  BY <1>1 DEF Bounds
<1> QED
  BY <1>1, <1>7, <1>8, <1>9, RefuseQuiet

LEMMA NetRefuse ==
  ASSUME IInv, IInv', RefuseInv, NEW n \in Nodes,
         Drain(n) \/ Isolate(n) \/ Heal(n) \/ StartReplay(n)
  PROVE  RefuseInv'
<1>1. UNCHANGED <<items, op, tasks, hints, writes, wr>>
  BY DEF Drain, Isolate, Heal, StartReplay, callVars, hintVars, StoreUnchanged, storeVars
<1>2. UNCHANGED used \/ \E b \in DOMAIN Bounds : Use(b)
  BY DEF Drain, Isolate, Heal, StartReplay, Bounds
<1>3. CopiesOnly(0)
  BY <1>1, SameCopies DEF CopiesOnly
<1> QED
  BY <1>1, <1>2, <1>3, RefuseQuiet

(* A step of the call of p that makes copies of what it or others carry. *)
LEMMA CallRefuse ==
  ASSUME IInv, IInv', RefuseInv, NEW p \in Procs, NEW u,
         StoresCopy(u), TasksCopy(u), HintsCopy(u), OpsCopy(u), u = 0 \/ Spread(u),
         ~Unsent(op'[p]), \A q \in Procs : q # p => op'[q] = op[q],
         UNCHANGED <<writes, wr>>,
         UNCHANGED used \/ \E b \in DOMAIN Bounds : Use(b)
  PROVE  RefuseInv'
<1>1. CopiesOnly(u)
  BY DEF CopiesOnly
<1>2. \A q \in Procs : Unsent(op'[q]) => op'[q] = op[q]
  OBVIOUS
<1> QED
  BY <1>1, <1>2, RefuseQuiet

LEMMA BeginRemoveRefuse ==
  ASSUME IInv, IInv', RefuseInv, NEW p \in Procs, NEW n \in Nodes, NEW k \in Keys,
         BeginRemove(p, n, k)
  PROVE  RefuseInv'
<1>1. PICK pc \in {"local", "forward"} :
         op' = [op EXCEPT ![p] = NewCall("remove", n, k, pc, NoItem)]
  BY DEF BeginRemove
<1> DEFINE o == NewCall("remove", n, k, pc, NoItem)
<1>2. o.item.val = 0 /\ ~Unsent(o)
  BY DEF NewCall, Idle, NoItem, Unsent
<1>3. op' = [op EXCEPT ![p] = o]
  BY <1>1
<1> HIDE DEF o
<1>4. TasksCopy(0)
  <2>1. UNCHANGED tasks \/ tasks' = [tasks EXCEPT ![p] = LocalRemove(n, k)]
    BY DEF BeginRemove
  <2>2. LocalRemove(n, k).item.val = 0 /\ p \in Slots
    BY NoItemVal DEF LocalRemove, Slots
  <2> QED
    BY <2>1, <2>2, OneTask, SameCopies
<1>5. UNCHANGED <<items, hints, writes, wr>> /\ Use("removes") /\ "removes" \in DOMAIN Bounds
  BY DEF BeginRemove, storeVars, hintVars, Bounds
<1>6. OpsCopy(0) /\ op'[p] = o /\ \A q \in Procs : q # p => op'[q] = op[q]
  BY <1>2, <1>3, OneOp
<1>7. StoresCopy(0) /\ HintsCopy(0)
  BY <1>5, SameCopies
<1> QED
  BY <1>2, <1>4, <1>5, <1>6, <1>7, CallRefuse

LEMMA BeginGetRefuse ==
  ASSUME IInv, IInv', RefuseInv, NEW p \in Procs, NEW n \in Nodes, NEW k \in Keys,
         BeginGet(p, n, k)
  PROVE  RefuseInv'
<1> DEFINE R == Range(Owners[k])
           o == [NewCall("get", n, k, "read", NoItem) EXCEPT !.todo = R]
<1>1. UNCHANGED op \/ op' = [op EXCEPT ![p] = o]
  BY DEF BeginGet
<1> HIDE DEF R
<1>2. o.item.val = 0 /\ ~Unsent(o)
  BY DEF NewCall, Idle, NoItem, Unsent
<1> HIDE DEF o
<1>3. /\ UNCHANGED <<items, tasks, hints, writes, wr>>
      /\ Use("gets") /\ "gets" \in DOMAIN Bounds
  BY DEF BeginGet, StoreUnchanged, storeVars, hintVars, Bounds
<1>4. CASE UNCHANGED op
  <2>1. CopiesOnly(0)
    BY <1>3, <1>4, SameCopies DEF CopiesOnly
  <2> QED
    BY <1>3, <1>4, <2>1, RefuseQuiet
<1>5. CASE op' = [op EXCEPT ![p] = o]
  <2>1. OpsCopy(0) /\ op'[p] = o /\ \A q \in Procs : q # p => op'[q] = op[q]
    BY <1>2, <1>5, OneOp
  <2>2. StoresCopy(0) /\ HintsCopy(0) /\ TasksCopy(0)
    BY <1>3, SameCopies
  <2> QED
    BY <1>2, <1>3, <2>1, <2>2, CallRefuse
<1> QED
  BY <1>1, <1>4, <1>5

LEMMA ReadEndRefuse ==
  ASSUME IInv, IInv', RefuseInv, NEW p \in Procs, ReadMiss(p) \/ GetReturn(p)
  PROVE  RefuseInv'
<1>1. /\ op' = [op EXCEPT ![p] = Idle]
      /\ UNCHANGED <<items, tasks, hints, writes, wr, used>>
  BY DEF ReadMiss, GetReturn, StoreUnchanged, storeVars, hintVars
<1>2. OpsCopy(0) /\ op'[p] = Idle /\ \A q \in Procs : q # p => op'[q] = op[q]
  BY <1>1, NoItemVal, OneOp
<1>3. StoresCopy(0) /\ HintsCopy(0) /\ TasksCopy(0)
  BY <1>1, SameCopies
<1> QED
  BY <1>1, <1>2, <1>3, NoItemVal, CallRefuse

(* What a call carries once it has been forwarded, stamped or has read. *)
LEMMA CarriedSpread ==
  ASSUME NEW p \in Procs, ~Unsent(op[p])
  PROVE  Spread(op[p].item.val)
  BY DEF Spread

LEMMA StampRefuse ==
  ASSUME IInv, IInv', RefuseInv, NEW p \in Procs, Stamp(p)
  PROVE  RefuseInv'
<1>1. op[p] \in Op /\ op[p].pc = "stamp" /\ op[p].kind = "set" /\ op[p].item.val \in 1..writes
  BY DEF Stamp, IInv, OpPart, OpOK
<1> DEFINE it == [val |-> op[p].item.val, version |-> versionCounter[op[p].node] + 1,
                  origin |-> op[p].node]
           o  == [op[p] EXCEPT !.pc = "apply", !.item = it]
<1>2. it.val = op[p].item.val
  OBVIOUS
<1> HIDE DEF it
<1>3. o.item = it /\ o.pc = "apply"
  BY <1>1 DEF Op
<1>4. op' = [op EXCEPT ![p] = o] /\ UNCHANGED <<items, tasks, hints, writes, used>>
  BY DEF Stamp, hintVars, it
<1> HIDE DEF o
<1>5. \A w \in 1..writes : wr'[w].result = wr[w].result
  <2>1. wr' = [wr EXCEPT ![op[p].item.val].version = versionCounter[op[p].node] + 1]
    BY DEF Stamp
  <2> QED
    BY <1>1, <2>1, WriteType DEF IInv, RecordPart, WriteRecord
<1> DEFINE u == op[p].item.val
<1>6. Spread(u) /\ o.item.val \in {0, u}
  BY <1>1, <1>2, <1>3, CarriedSpread DEF Unsent
<1> HIDE DEF u
<1>7. OpsCopy(u) /\ op'[p] = o /\ \A q \in Procs : q # p => op'[q] = op[q]
  BY <1>4, <1>6, OneOp
<1>8. CopiesOnly(u)
  BY <1>4, <1>7, SameCopies DEF CopiesOnly
<1>9. \A q \in Procs : Unsent(op'[q]) => op'[q] = op[q]
  BY <1>3, <1>7 DEF Unsent
<1>10. used \in [DOMAIN Bounds -> Nat] /\ used' \in [DOMAIN Bounds -> Nat]
       /\ used'.timeouts >= used.timeouts
  BY <1>4 DEF IInv, NetPart, Bounds
<1> QED
  BY <1>4, <1>5, <1>6, <1>8, <1>9, <1>10, RefuseKept

LEMMA ApplyRefuse ==
  ASSUME IInv, IInv', RefuseInv, NEW p \in Procs, Apply(p)
  PROVE  RefuseInv'
<1> DEFINE S == FanoutTargets(op[p].node, op[p].key, op[p].promoted)
           o == [op[p] EXCEPT !.pc = "fanout", !.acks = 1, !.todo = S]
           u == op[p].item.val
<1>1. op[p] \in Op /\ op[p].pc = "apply"
  BY DEF Apply, IInv, OpPart
<1>2. /\ op' = [op EXCEPT ![p] = o] /\ Put(op[p].node, op[p].key, op[p].item)
      /\ UNCHANGED <<tasks, hints, writes, used, wr>>
  BY DEF Apply, hintVars
<1> HIDE DEF S
<1>3. o.item = op[p].item /\ o.pc = "fanout"
  BY <1>1 DEF Op
<1> HIDE DEF o
<1>4. Spread(u) /\ o.item.val \in {0, u} /\ ~Unsent(o)
  BY <1>1, <1>3, CarriedSpread DEF Unsent
<1>5. StoresCopy(u)
  BY <1>2, StoreCopies
<1> HIDE DEF u
<1> QED
  <2>1. TasksCopy(u) /\ HintsCopy(u) /\ UNCHANGED <<writes, wr>> /\ UNCHANGED used
    BY <1>2, SameCopies
  <2> QED
    <3>1. OpsCopy(u) /\ op'[p] = o /\ \A q \in Procs : q # p => op'[q] = op[q]
      BY <1>2, <1>4, OneOp
    <3> QED
      BY <1>4, <1>5, <2>1, <3>1, CallRefuse

LEMMA FanoutAckRefuse ==
  ASSUME IInv, IInv', RefuseInv, NEW p \in Procs, FanoutAck(p)
  PROVE  RefuseInv'
<1>1. PICK t \in Nodes :
        /\ op[p].pc = "fanout"
        /\ Arrive("set", t, op[p].key, op[p].item)
        /\ op' = [op EXCEPT ![p].todo = @ \ {t}, ![p].acks = @ + 1]
        /\ UNCHANGED <<tasks, hints, writes, used, wr>>
  BY DEF FanoutAck, hintVars
<1> DEFINE a == op[p].acks + 1
           S == op[p].todo \ {t}
           o == [op[p] EXCEPT !.todo = S, !.acks = a]
           u == op[p].item.val
<1>2. op[p] \in Op
  BY DEF IInv, OpPart
<1>3. op' = [op EXCEPT ![p] = o]
  BY <1>1
<1> HIDE DEF a, S
<1>4. o.item = op[p].item /\ o.pc = "fanout"
  BY <1>1, <1>2 DEF Op
<1> HIDE DEF o
<1>5. Spread(u) /\ o.item.val \in {0, u} /\ ~Unsent(o)
  BY <1>1, <1>4, CarriedSpread DEF Unsent
<1>6. StoresCopy(u)
  BY <1>1, StoreCopies
<1> HIDE DEF u
<1>7. TasksCopy(u) /\ HintsCopy(u) /\ UNCHANGED <<writes, wr>> /\ UNCHANGED used
  BY <1>1, SameCopies
<1>8. OpsCopy(u) /\ op'[p] = o /\ \A q \in Procs : q # p => op'[q] = op[q]
  BY <1>3, <1>5, OneOp
<1> QED
  BY <1>5, <1>6, <1>7, <1>8, CallRefuse

LEMMA QueueCopies ==
  ASSUME IInv, NEW n \in Nodes, NEW t \in Nodes, NEW k \in Keys, NEW it \in Item,
         queueHint(n, t, k, it)
  PROVE  HintsCopy(it.val)
<1> DEFINE h == [key |-> k, item |-> it]
           q == Append(hints[n][t], h)
<1>1. h \in Hint /\ h.item = it
  BY DEF Hint
<1>2. hints' = [hints EXCEPT ![n][t] = q]
  BY DEF queueHint
<1> HIDE DEF h
<1>3. /\ hints[n][t] \in Seq(Hint) /\ Len(hints[n][t]) \in Nat
      /\ hints \in [Nodes -> [Nodes -> Seq(Hint)]]
  BY DEF IInv, HintPart
<1>4. \A i \in 1..Len(q) : q[i] = h \/ (i \in 1..Len(hints[n][t]) /\ q[i] = hints[n][t][i])
  BY <1>1, <1>3
<1> HIDE DEF q
<1>5. \A m, s \in Nodes : hints'[m][s] = IF m = n /\ s = t THEN q ELSE hints[m][s]
  BY <1>2, <1>3
<1> SUFFICES ASSUME NEW m \in Nodes, NEW s \in Nodes, NEW i \in 1..Len(hints'[m][s])
             PROVE  \/ hints'[m][s][i].item.val = it.val
                    \/ \E j \in 1..Len(hints[m][s]) :
                         hints'[m][s][i].item.val = hints[m][s][j].item.val
  BY DEF HintsCopy
<1>6. CASE m = n /\ s = t
  BY <1>1, <1>4, <1>5, <1>6
<1>7. CASE ~(m = n /\ s = t)
  BY <1>5, <1>7
<1> QED
  BY <1>6, <1>7

LEMMA FanoutErrorRefuse ==
  ASSUME IInv, IInv', RefuseInv, NEW p \in Procs, FanoutError(p)
  PROVE  RefuseInv'
<1>1. PICK t \in Nodes :
        /\ op[p].pc = "fanout"
        /\ UNCHANGED <<tasks, used>> \/ ArriveLate("set", t, op[p].key, op[p].item)
        /\ queueHint(op[p].node, t, op[p].key, op[p].item)
        /\ op' = [op EXCEPT ![p].todo = @ \ {t}]
        /\ UNCHANGED <<items, writes, wr>>
  BY DEF FanoutError, StoreUnchanged, storeVars
<1> DEFINE S == op[p].todo \ {t}
           o == [op[p] EXCEPT !.todo = S]
           u == op[p].item.val
<1>2. /\ op[p] \in Op /\ op[p].node \in Nodes /\ op[p].key \in Keys
      /\ op[p].item \in Item
  BY <1>1, Running
<1>3. op' = [op EXCEPT ![p] = o]
  BY <1>1
<1> HIDE DEF S
<1>4. o.item = op[p].item /\ o.pc = "fanout"
  BY <1>1, <1>2 DEF Op
<1> HIDE DEF o
<1>5. Spread(u) /\ o.item.val \in {0, u} /\ ~Unsent(o)
  BY <1>1, <1>4, CarriedSpread DEF Unsent
<1>6. HintsCopy(u)
  BY <1>1, <1>2, QueueCopies
<1>7. TasksCopy(u) /\ (UNCHANGED used \/ \E b \in DOMAIN Bounds : Use(b))
  <2>1. CASE UNCHANGED <<tasks, used>>
    BY <2>1, SameCopies
  <2>2. CASE ArriveLate("set", t, op[p].key, op[p].item)
    <3>1. Use("timeouts") /\ "timeouts" \in DOMAIN Bounds
      BY <2>2 DEF ArriveLate, Bounds
    <3> QED
      BY <2>2, <3>1, LateCopy
  <2> QED
    BY <1>1, <2>1, <2>2
<1> HIDE DEF u
<1>8. StoresCopy(u) /\ UNCHANGED <<writes, wr>>
  BY <1>1, SameCopies
<1>9. OpsCopy(u) /\ op'[p] = o /\ \A q \in Procs : q # p => op'[q] = op[q]
  BY <1>3, <1>5, OneOp
<1> QED
  BY <1>5, <1>6, <1>7, <1>8, <1>9, CallRefuse

LEMMA FetchSpread ==
  ASSUME NEW n, NEW t \in Nodes, NEW k \in Keys
  PROVE  Fetch(n, t, k).val = 0 \/ Spread(Fetch(n, t, k).val)
<1>1. CASE Fetch(n, t, k) = items[t][k]
  BY <1>1 DEF Spread
<1>2. CASE Fetch(n, t, k) = NoItem
  BY <1>2, NoItemVal
<1> QED
  BY <1>1, <1>2 DEF Fetch

LEMMA ReadOneRefuse ==
  ASSUME IInv, IInv', RefuseInv, NEW p \in Procs, ReadOne(p)
  PROVE  RefuseInv'
<1>1. PICK t \in Nodes :
        /\ op[p].pc = "read"
        /\ \/ /\ op' = [op EXCEPT ![p].todo = @ \ {t}]
              /\ StoreUnchanged
           \/ /\ op' = [op EXCEPT ![p] = Idle]
              /\ \/ Put(op[p].node, op[p].key, Fetch(op[p].node, t, op[p].key))
                 \/ StoreUnchanged
        /\ UNCHANGED <<tasks, hints, writes, used, wr>>
  BY DEF ReadOne, hintVars
<1>2. op[p] \in Op /\ op[p].key \in Keys
  BY <1>1, Running
<1>3. CASE op' = [op EXCEPT ![p].todo = @ \ {t}] /\ StoreUnchanged
  <2> DEFINE S == op[p].todo \ {t}
             o == [op[p] EXCEPT !.todo = S]
             u == op[p].item.val
  <2>1. op' = [op EXCEPT ![p] = o]
    BY <1>3
  <2> HIDE DEF S
  <2>2. o.item = op[p].item /\ o.pc = "read"
    BY <1>1, <1>2 DEF Op
  <2> HIDE DEF o
  <2>3. Spread(u) /\ o.item.val \in {0, u} /\ ~Unsent(o)
    BY <1>1, <2>2, CarriedSpread DEF Unsent
  <2>4. UNCHANGED items
    BY <1>3 DEF StoreUnchanged, storeVars
  <2> HIDE DEF u
  <2>5. /\ StoresCopy(u) /\ TasksCopy(u) /\ HintsCopy(u)
        /\ UNCHANGED <<writes, wr>> /\ UNCHANGED used
    BY <1>1, <2>4, SameCopies
  <2>6. OpsCopy(u) /\ op'[p] = o /\ \A q \in Procs : q # p => op'[q] = op[q]
    BY <2>1, <2>3, OneOp
  <2> QED
    BY <2>3, <2>5, <2>6, CallRefuse
<1>4. CASE /\ op' = [op EXCEPT ![p] = Idle]
           /\ \/ Put(op[p].node, op[p].key, Fetch(op[p].node, t, op[p].key))
              \/ StoreUnchanged
  <2> DEFINE u == Fetch(op[p].node, t, op[p].key).val
  <2>1. u = 0 \/ Spread(u)
    BY <1>2, FetchSpread
  <2>2. StoresCopy(u)
    BY <1>4, StoreCopies
  <2> HIDE DEF u
  <2>3. TasksCopy(u) /\ HintsCopy(u) /\ UNCHANGED <<writes, wr>> /\ UNCHANGED used
    BY <1>1, SameCopies
  <2>4. Idle.item.val \in {0, u} /\ ~Unsent(Idle)
    BY NoItemVal
  <2>5. OpsCopy(u) /\ op'[p] = Idle /\ \A q \in Procs : q # p => op'[q] = op[q]
    BY <1>4, <2>4, OneOp
  <2> QED
    BY <2>1, <2>2, <2>3, <2>4, <2>5, CallRefuse
<1> QED
  BY <1>1, <1>3, <1>4

LEMMA ReadQuorumRefuse ==
  ASSUME IInv, IInv', RefuseInv, NEW p \in Procs, ReadQuorum(p)
  PROVE  RefuseInv'
<1>1. op[p].pc = "read" /\ UNCHANGED <<items, tasks, hints, writes, wr, used>>
  BY DEF ReadQuorum, StoreUnchanged, storeVars, hintVars
<1>2. op[p] \in Op /\ op[p].key \in Keys /\ op[p].todo \subseteq Nodes
  BY <1>1, Running DEF Op
<1>3. PICK t \in op[p].todo :
        LET o      == op[p]
            it     == Fetch(o.node, t, o.key)
            chosen == chooseNewer(o.item, it)
            stale  == IF Present(o.item) /\ chosen # o.item
                      THEN o.stale \cup {t} ELSE o.stale
        IN  \/ op' = [op EXCEPT ![p].todo = @ \ {t}]
            \/ op' = [op EXCEPT ![p].todo = @ \ {t}, ![p].acks = o.acks + 1,
                               ![p].item = chosen, ![p].stale = stale]
            \/ op' = [op EXCEPT ![p].pc = "repair",
                               ![p].todo = Range(Owners[o.key]),
                               ![p].acks = 0, ![p].item = chosen,
                               ![p].stale = stale \ {o.node}]
  BY DEF ReadQuorum
<1> DEFINE it     == Fetch(op[p].node, t, op[p].key)
           chosen == chooseNewer(op[p].item, it)
           stale  == IF Present(op[p].item) /\ chosen # op[p].item
                     THEN op[p].stale \cup {t} ELSE op[p].stale
           a      == op[p].acks + 1
           S      == op[p].todo \ {t}
           R      == Range(Owners[op[p].key])
           G      == stale \ {op[p].node}
<1>4. it.val = 0 \/ Spread(it.val)
  BY <1>2, FetchSpread
<1>5. Spread(op[p].item.val)
  BY <1>1, CarriedSpread DEF Unsent
<1> HIDE DEF it
<1>6. chosen \in {op[p].item, it}
  BY DEF chooseNewer
<1> HIDE DEF chosen
<1>7. \/ op' = [op EXCEPT ![p] = [op[p] EXCEPT !.todo = S]]
      \/ op' = [op EXCEPT ![p] = [op[p] EXCEPT !.todo = S, !.acks = a, !.item = chosen,
                                               !.stale = stale]]
      \/ op' = [op EXCEPT ![p] = [op[p] EXCEPT !.pc = "repair", !.todo = R, !.acks = 0,
                                               !.item = chosen, !.stale = G]]
  BY <1>3 DEF it, chosen
<1> HIDE DEF stale, a, S, R, G
<1>8. PICK o : /\ op' = [op EXCEPT ![p] = o] /\ o.item \in {op[p].item, chosen}
               /\ o.pc \in {"read", "repair"}
  <2>1. CASE op' = [op EXCEPT ![p] = [op[p] EXCEPT !.todo = S]]
    <3> DEFINE o == [op[p] EXCEPT !.todo = S]
    <3>1. o.item = op[p].item /\ o.pc = "read"
      BY <1>1, <1>2 DEF Op
    <3> HIDE DEF o
    <3> QED
      BY <2>1, <3>1 DEF o
  <2>2. CASE op' = [op EXCEPT ![p] = [op[p] EXCEPT !.todo = S, !.acks = a, !.item = chosen,
                                               !.stale = stale]]
    <3> DEFINE o == [op[p] EXCEPT !.todo = S, !.acks = a, !.item = chosen, !.stale = stale]
    <3>1. o.item = chosen /\ o.pc = "read"
      BY <1>1, <1>2 DEF Op
    <3> HIDE DEF o
    <3> QED
      BY <2>2, <3>1 DEF o
  <2>3. CASE op' = [op EXCEPT ![p] = [op[p] EXCEPT !.pc = "repair", !.todo = R, !.acks = 0,
                                               !.item = chosen, !.stale = G]]
    <3> DEFINE o == [op[p] EXCEPT !.pc = "repair", !.todo = R, !.acks = 0,
                                  !.item = chosen, !.stale = G]
    <3>1. o.item = chosen /\ o.pc = "repair"
      BY <1>2 DEF Op
    <3> HIDE DEF o
    <3> QED
      BY <2>3, <3>1 DEF o
  <2> QED
    BY <1>7, <2>1, <2>2, <2>3
<1>9. PICK u : u = o.item.val
  OBVIOUS
<1>10. (u = 0 \/ Spread(u)) /\ o.item.val \in {0, u} /\ ~Unsent(o)
  BY <1>4, <1>5, <1>6, <1>8, <1>9 DEF Unsent
<1>11. /\ StoresCopy(u) /\ TasksCopy(u) /\ HintsCopy(u)
       /\ UNCHANGED <<writes, wr>> /\ UNCHANGED used
  BY <1>1, SameCopies
<1>12. op' = [op EXCEPT ![p] = o]
  BY <1>8
<1>13. OpsCopy(u) /\ op'[p] = o /\ \A q \in Procs : q # p => op'[q] = op[q]
  BY <1>10, <1>12, OneOp
<1> QED
  BY <1>10, <1>11, <1>13, CallRefuse

LEMMA RepairRefuse ==
  ASSUME IInv, IInv', RefuseInv, NEW p \in Procs, RepairLocal(p) \/ RepairRemote(p)
  PROVE  RefuseInv'
<1>1. PICK t :
        /\ op[p].pc = "repair"
        /\ \/ Put(t, op[p].key, op[p].item)
           \/ Arrive("set", t, op[p].key, op[p].item)
           \/ StoreUnchanged
        /\ UNCHANGED <<tasks, used>> \/ ArriveLate("set", t, op[p].key, op[p].item)
        /\ op' = [op EXCEPT ![p] = Repaired(op[p], t)]
        /\ UNCHANGED <<hints, writes, wr>>
  <2>1. CASE RepairLocal(p)
    BY <2>1 DEF RepairLocal, hintVars
  <2>2. CASE RepairRemote(p)
    BY <2>2 DEF RepairRemote, hintVars
  <2> QED
    BY <2>1, <2>2
<1>2. op[p] \in Op
  BY DEF IInv, OpPart
<1> DEFINE o == Repaired(op[p], t)
           u == op[p].item.val
<1>3. o.item = op[p].item /\ o.pc = "repair"
  <2>1. /\ [op[p] EXCEPT !.stale = @ \ {t}].item = op[p].item
        /\ [op[p] EXCEPT !.stale = @ \ {t}].pc = op[p].pc
    BY <1>2 DEF Op
  <2>2. /\ [op[p] EXCEPT !.todo = @ \ {t}].item = op[p].item
        /\ [op[p] EXCEPT !.todo = @ \ {t}].pc = op[p].pc
    BY <1>2 DEF Op
  <2> QED
    BY <1>1, <2>1, <2>2 DEF Repaired
<1>4. op' = [op EXCEPT ![p] = o]
  BY <1>1
<1> HIDE DEF o
<1>5. Spread(u) /\ o.item.val \in {0, u} /\ ~Unsent(o)
  BY <1>1, <1>3, CarriedSpread DEF Unsent
<1>6. StoresCopy(u)
  BY <1>1, StoreCopies
<1>7. TasksCopy(u) /\ (UNCHANGED used \/ \E b \in DOMAIN Bounds : Use(b))
  <2>1. CASE UNCHANGED <<tasks, used>>
    BY <2>1, SameCopies
  <2>2. CASE ArriveLate("set", t, op[p].key, op[p].item)
    <3>1. Use("timeouts") /\ "timeouts" \in DOMAIN Bounds
      BY <2>2 DEF ArriveLate, Bounds
    <3> QED
      BY <2>2, <3>1, LateCopy
  <2> QED
    BY <1>1, <2>1, <2>2
<1> HIDE DEF u
<1>8. HintsCopy(u) /\ UNCHANGED <<writes, wr>>
  BY <1>1, SameCopies
<1>9. OpsCopy(u) /\ op'[p] = o /\ \A q \in Procs : q # p => op'[q] = op[q]
  BY <1>4, <1>5, OneOp
<1> QED
  BY <1>5, <1>6, <1>7, <1>8, <1>9, CallRefuse

LEMMA ReplayRefuse ==
  ASSUME IInv, IInv', RefuseInv, NEW n \in Nodes, NEW t \in Nodes, ReplayHint(n, t)
  PROVE  RefuseInv'
<1>1. HintPart /\ InPass(n, t) /\ hints \in [Nodes -> [Nodes -> Seq(Hint)]]
  BY DEF IInv, ReplayHint, HintPart
<1>2. PICK i \in 1..Len(hints[n][t]) : i = CurrentHint(n, t)
  BY <1>1, InPassType
<1>3. PICK h : h = hints[n][t][i]
  OBVIOUS
<1>4. PICK q : q = RemoveAt(hints[n][t], i)
  OBVIOUS
<1>5. /\ \/ UNCHANGED hints
         \/ hints' = [hints EXCEPT ![n][t] = q]
      /\ StoreUnchanged \/ Arrive("set", t, h.key, h.item)
      /\ \/ UNCHANGED tasks /\ (UNCHANGED used \/ Use("expiries"))
         \/ ArriveLate("set", t, h.key, h.item)
      /\ UNCHANGED <<op, writes, wr>>
  BY <1>2, <1>3, <1>4 DEF ReplayHint
<1> DEFINE u == h.item.val
<1>6. Spread(u)
  BY <1>2, <1>3 DEF Spread
<1>7. StoresCopy(u)
  BY <1>5, StoreCopies
<1>8. TasksCopy(u) /\ (UNCHANGED used \/ \E b \in DOMAIN Bounds : Use(b))
  <2>1. CASE UNCHANGED tasks /\ (UNCHANGED used \/ Use("expiries"))
    BY <2>1, SameCopies DEF Bounds
  <2>2. CASE ArriveLate("set", t, h.key, h.item)
    <3>1. Use("timeouts") /\ "timeouts" \in DOMAIN Bounds
      BY <2>2 DEF ArriveLate, Bounds
    <3> QED
      BY <2>2, <3>1, LateCopy
  <2> QED
    BY <1>5, <2>1, <2>2
<1>9. HintsCopy(u)
  <2>1. CASE UNCHANGED hints
    BY <2>1, SameCopies
  <2>2. CASE hints' = [hints EXCEPT ![n][t] = q]
    <3>1. \A m, s \in Nodes : hints'[m][s] = IF m = n /\ s = t THEN q ELSE hints[m][s]
      BY <1>1, <2>2
    <3>2. hints[n][t] \in Seq(Hint)
      BY <1>1
    <3>3. \A x \in 1..Len(RemoveAt(hints[n][t], i)) :
            \E j \in 1..Len(hints[n][t]) : RemoveAt(hints[n][t], i)[x] = hints[n][t][j]
      BY <3>2, RemoveAtType
    <3>4. \A x \in 1..Len(q) : \E j \in 1..Len(hints[n][t]) : q[x] = hints[n][t][j]
      BY <1>4, <3>3
    <3> SUFFICES ASSUME NEW m \in Nodes, NEW s \in Nodes, NEW x \in 1..Len(hints'[m][s])
                 PROVE  \E j \in 1..Len(hints[m][s]) :
                          hints'[m][s][x].item.val = hints[m][s][j].item.val
      BY DEF HintsCopy
    <3>5. CASE m = n /\ s = t
      <4>1. hints'[m][s] = q
        BY <3>1, <3>5
      <4>2. PICK j \in 1..Len(hints[n][t]) : q[x] = hints[n][t][j]
        BY <3>4, <4>1
      <4> QED
        BY <3>5, <4>1, <4>2
    <3>6. CASE ~(m = n /\ s = t)
      BY <3>1, <3>6
    <3> QED
      BY <3>5, <3>6
  <2> QED
    BY <1>5, <2>1, <2>2
<1> HIDE DEF u
<1>10. CopiesOnly(u)
  BY <1>5, <1>7, <1>8, <1>9, SameCopies DEF CopiesOnly
<1> QED
  BY <1>5, <1>6, <1>8, <1>10, RefuseQuiet

(* The value spreads when the call is forwarded, or its node promoted. *)
LEMMA SentRefuse ==
  ASSUME IInv, PathInv, RefuseInv, NEW p \in Procs, Unsent(op[p]),
         NEW u, u = op[p].item.val, CopiesOnly(u), ~Unsent(op'[p]),
         \A q \in Procs : q # p => op'[q] = op[q], UNCHANGED <<writes, wr, used>>
  PROVE  RefuseInv'
<1>1. ASSUME NEW w \in 1..writes, Spread(w)' PROVE Spread(w) \/ w = u
  <2>1. w # 0
    BY WriteType
  <2> QED
    BY <1>1, <2>1, SpreadOnly
<1>2. wr[u].result = "pending" /\ op[p].kind = "set"
  <2>1. PathOK(op[p])
    BY OnPath
  <2> QED
    BY <2>1 DEF PathOK, Unsent
<1>3. ASSUME NEW w \in 1..writes, Spread(w)'
      PROVE  wr'[w].result # "draining" /\ (wr'[w].result = "error" => used'.timeouts > 0)
  BY <1>1, <1>2, <1>3 DEF RefuseInv
<1>4. ASSUME NEW q \in Procs, NEW w \in 1..writes, Unsent(op'[q]), op'[q].item.val = w,
             Spread(w)'
      PROVE  FALSE
  <2>1. q # p /\ op'[q] = op[q] /\ op[q].kind = "set"
    BY <1>4 DEF Unsent
  <2>2. w # u
    BY <1>2, <1>4, <2>1 DEF IInv, OpPart
  <2> QED
    BY <1>1, <1>4, <2>1, <2>2 DEF RefuseInv
<1> QED
  BY <1>3, <1>4 DEF RefuseInv, Unsent

LEMMA ForwardRefuse ==
  ASSUME IInv, IInv', PathInv, RefuseInv, NEW p \in Procs, Forward(p)
  PROVE  RefuseInv'
<1> DEFINE o == [op[p] EXCEPT !.pc = "wait"]
           d == primary(op[p].key)
           t == [kind |-> op[p].kind, at |-> d, key |-> op[p].key,
                 item |-> op[p].item, todo |-> {d} \cup replicas(op[p].key)]
           u == op[p].item.val
<1>1. /\ op[p].pc = "forward"
      /\ op' = [op EXCEPT ![p] = o]
      /\ tasks' = [tasks EXCEPT ![p] = t]
      /\ UNCHANGED <<items, hints, writes, used, wr>>
  BY DEF Forward, StoreUnchanged, storeVars, hintVars
<1>2. op[p] \in Op /\ p \in Slots
  BY DEF IInv, OpPart, Slots
<1>3. o.item.val \in {0, u} /\ ~Unsent(o)
  BY <1>2 DEF Op, Unsent
<1>4. t.item.val \in {0, u}
  OBVIOUS
<1> HIDE DEF o, t
<1>5. OpsCopy(u) /\ op'[p] = o /\ \A q \in Procs : q # p => op'[q] = op[q]
  BY <1>1, <1>3, OneOp
<1>6. TasksCopy(u)
  BY <1>1, <1>2, <1>4, OneTask
<1>7. StoresCopy(u) /\ HintsCopy(u)
  BY <1>1, SameCopies
<1>8. CASE Unsent(op[p])
  <2>1. CopiesOnly(u)
    BY <1>5, <1>6, <1>7 DEF CopiesOnly
  <2> QED
    BY <1>1, <1>3, <1>5, <1>8, <2>1, SentRefuse
<1>9. CASE ~Unsent(op[p])
  <2>1. Spread(u)
    BY <1>9, CarriedSpread
  <2> HIDE DEF u
  <2> QED
    BY <1>1, <1>3, <1>5, <1>6, <1>7, <2>1, CallRefuse
<1> QED
  BY <1>8, <1>9

(* A call that ends: an error is given after a timeout, or takes the only  *)
(* copy with it.                                                           *)
LEMMA FinishRefuse ==
  ASSUME IInv, IInv', PathInv, RefuseInv, NEW p \in Procs, NEW r \in Results,
         op[p].pc # "idle", Finish(p, r), r # "draining", TasksCopy(0),
         UNCHANGED <<items, hints, writes>>, used'.timeouts >= used.timeouts,
         op[p].kind = "set" /\ r = "error" => Unsent(op[p]) \/ used'.timeouts > 0
  PROVE  RefuseInv'
<1>1. OpsCopy(0) /\ op'[p] = Idle /\ \A q \in Procs : q # p => op'[q] = op[q]
  <2>1. op' = [op EXCEPT ![p] = Idle]
    BY DEF Finish
  <2> QED
    BY <2>1, NoItemVal, OneOp
<1>2. CopiesOnly(0)
  BY <1>1, SameCopies DEF CopiesOnly
<1>3. ASSUME NEW w \in 1..writes, Spread(w)' PROVE Spread(w)
  <2>1. w # 0
    BY WriteType
  <2> QED
    BY <1>2, <1>3, <2>1, SpreadOnly
<1>4. used.timeouts \in Nat /\ used'.timeouts \in Nat
  BY DEF IInv, NetPart, Bounds
<1>5. ASSUME NEW w \in 1..writes
      PROVE  \/ wr'[w].result = wr[w].result
             \/ op[p].kind = "set" /\ w = op[p].item.val /\ wr'[w].result = r
  <2>1. w \in Writes /\ wr \in [Writes -> WriteRecord]
    BY WriteType DEF IInv, RecordPart
  <2>2. CASE op[p].kind = "set" /\ w = op[p].item.val
    <3>1. wr' = [wr EXCEPT ![w].result = r]
      BY <2>2 DEF Finish
    <3> QED
      BY <2>1, <2>2, <3>1 DEF WriteRecord
  <2>3. CASE ~(op[p].kind = "set" /\ w = op[p].item.val)
    BY <2>1, <2>3 DEF Finish
  <2> QED
    BY <2>2, <2>3
<1>6. ASSUME NEW w \in 1..writes, Spread(w)'
      PROVE  wr'[w].result # "draining" /\ (wr'[w].result = "error" => used'.timeouts > 0)
  <2>1. Spread(w)
    BY <1>3, <1>6
  <2>2. wr[w].result # "draining" /\ (wr[w].result = "error" => used.timeouts > 0)
    BY <2>1 DEF RefuseInv
  <2>3. CASE wr'[w].result = wr[w].result
    BY <1>4, <2>2, <2>3
  <2>4. CASE op[p].kind = "set" /\ w = op[p].item.val /\ wr'[w].result = r
    BY <2>1, <2>4 DEF RefuseInv
  <2> QED
    BY <1>5, <2>3, <2>4
<1>7. ASSUME NEW q \in Procs, NEW w \in 1..writes, Unsent(op'[q]), op'[q].item.val = w
      PROVE  ~Spread(w)'
  BY <1>1, <1>3, <1>7, NoItemVal DEF RefuseInv
<1> QED
  BY <1>6, <1>7 DEF RefuseInv, Unsent

LEMMA ReturnRefuse ==
  ASSUME IInv, IInv', PathInv, RefuseInv, NEW p \in Procs,
         ForwardReturn(p) \/ SetReturn(p)
  PROVE  RefuseInv'
<1>1. PICK r \in {"forwarded", "ok", "quorumFailed"} : Finish(p, r)
  BY DEF ForwardReturn, SetReturn
<1>2. /\ op[p].pc # "idle" /\ r \in Results
      /\ UNCHANGED <<items, tasks, hints, writes, used>>
  BY DEF ForwardReturn, SetReturn, StoreUnchanged, storeVars, hintVars, Results
<1>3. used'.timeouts >= used.timeouts
  BY <1>2 DEF IInv, NetPart, Bounds
<1>4. TasksCopy(0)
  BY <1>2, SameCopies
<1> QED
  BY <1>1, <1>2, <1>3, <1>4, FinishRefuse

LEMMA PromoteRefuse ==
  ASSUME IInv, IInv', PathInv, RefuseInv, NEW p \in Procs, NEW ts \in [Slots -> Task],
         \A s \in Slots : \/ ts[s].item.val = 0
                          \/ \E r \in Slots : ts[s].item.val = tasks[r].item.val,
         PromoteOrFail(p, ts), UNCHANGED <<items, hints, writes>>,
         \/ op[p].pc = "forward" /\ UNCHANGED used
         \/ op[p].pc = "wait" /\ Use("timeouts")
  PROVE  RefuseInv'
<1>1. op[p] \in Op /\ p \in Slots
  BY DEF IInv, OpPart, Slots
<1>2. "timeouts" \in DOMAIN Bounds /\ used \in [DOMAIN Bounds -> Nat] /\ used.timeouts \in Nat
  BY DEF IInv, NetPart, Bounds
<1>3. used'.timeouts >= used.timeouts /\ (op[p].pc = "wait" => used'.timeouts > 0)
  <2>1. CASE op[p].pc = "forward" /\ UNCHANGED used
    BY <1>2, <2>1
  <2>2. CASE op[p].pc = "wait" /\ Use("timeouts")
    BY <1>2, <2>2, UseGrows
  <2> QED
    BY <2>1, <2>2
<1>4. ASSUME NEW u, tasks' = ts PROVE TasksCopy(u)
  BY <1>4 DEF TasksCopy
<1>5. CASE Finish(p, "error") /\ tasks' = ts
  <2>1. TasksCopy(0) /\ "error" \in Results /\ "error" # "draining" /\ op[p].pc # "idle"
    BY <1>4, <1>5 DEF Results
  <2>2. op[p].kind = "set" => Unsent(op[p]) \/ used'.timeouts > 0
    BY <1>3 DEF Unsent
  <2> QED
    BY <1>3, <1>5, <2>1, <2>2, FinishRefuse
<1>6. CASE /\ op[p].kind = "set"
           /\ op' = [op EXCEPT ![p].pc = "stamp", ![p].promoted = TRUE]
           /\ tasks' = ts
           /\ UNCHANGED wr
  <2> DEFINE o == [op[p] EXCEPT !.pc = "stamp", !.promoted = TRUE]
             u == op[p].item.val
  <2>1. op' = [op EXCEPT ![p] = o]
    BY <1>6
  <2>2. o.item.val \in {0, u} /\ ~Unsent(o)
    BY <1>1 DEF Op, Unsent
  <2> HIDE DEF o
  <2>3. OpsCopy(u) /\ op'[p] = o /\ \A q \in Procs : q # p => op'[q] = op[q]
    <3>1. o.item.val \in {0, u}
      BY <2>2
    <3>2. op \in [Procs -> Op]
      BY DEF IInv, OpPart
    <3> HIDE DEF u
    <3> QED
      BY <2>1, <3>1, <3>2 DEF OpsCopy
  <2>4. StoresCopy(u) /\ HintsCopy(u) /\ TasksCopy(u)
    BY <1>4, <1>6, SameCopies
  <2>5. CASE op[p].pc = "forward" /\ UNCHANGED used
    <3>1. Unsent(op[p]) /\ CopiesOnly(u)
      BY <1>6, <2>3, <2>4, <2>5 DEF Unsent, CopiesOnly
    <3> QED
      BY <1>6, <2>2, <2>3, <2>5, <3>1, SentRefuse
  <2>6. CASE op[p].pc = "wait" /\ Use("timeouts")
    <3>1. Spread(u)
      BY <2>6, CarriedSpread DEF Unsent
    <3> HIDE DEF u
    <3> QED
      BY <1>2, <1>6, <2>2, <2>3, <2>4, <2>6, <3>1, CallRefuse
  <2> QED
    BY <2>5, <2>6
<1>7. CASE /\ op[p].kind = "remove"
           /\ op' = [op EXCEPT ![p].pc = "local"]
           /\ tasks' = [ts EXCEPT ![p] = LocalRemove(op[p].node, op[p].key)]
           /\ UNCHANGED wr
  <2> DEFINE o == [op[p] EXCEPT !.pc = "local"]
             u == op[p].item.val
             t == LocalRemove(op[p].node, op[p].key)
  <2>1. op' = [op EXCEPT ![p] = o]
    BY <1>7
  <2>2. o.item.val \in {0, u} /\ ~Unsent(o)
    BY <1>1 DEF Op, Unsent
  <2>3. t.item.val = 0
    BY NoItemVal DEF LocalRemove
  <2> HIDE DEF o, t
  <2>4. TasksCopy(u)
    BY <1>1, <1>7, <2>3 DEF TasksCopy, t
  <2>5. Spread(u)
    BY <1>7, CarriedSpread DEF Unsent
  <2> HIDE DEF u
  <2>6. OpsCopy(u) /\ op'[p] = o /\ \A q \in Procs : q # p => op'[q] = op[q]
    <3>1. o.item.val \in {0, u}
      BY <2>2
    <3>2. op \in [Procs -> Op]
      BY DEF IInv, OpPart
    <3> QED
      BY <2>1, <3>1, <3>2 DEF OpsCopy
  <2>7. StoresCopy(u) /\ HintsCopy(u) /\ (UNCHANGED used \/ \E b \in DOMAIN Bounds : Use(b))
    BY <1>2, SameCopies
  <2> QED
    BY <1>7, <2>2, <2>4, <2>5, <2>6, <2>7, CallRefuse
<1> QED
  BY <1>5, <1>6, <1>7 DEF PromoteOrFail

LEMMA ForwardErrorRefuse ==
  ASSUME IInv, IInv', PathInv, RefuseInv, NEW p \in Procs,
         ForwardUnreachable(p) \/ ForwardTimeout(p)
  PROVE  RefuseInv'
<1>1. tasks \in [Slots -> Task] /\ UNCHANGED <<items, hints, writes>>
  BY DEF IInv, TaskPart, ForwardUnreachable, ForwardTimeout, StoreUnchanged, storeVars,
         hintVars
<1>2. CASE ForwardUnreachable(p)
  <2>1. op[p].pc = "forward" /\ UNCHANGED used /\ PromoteOrFail(p, tasks)
    BY <1>2 DEF ForwardUnreachable
  <2>2. \A s \in Slots : \E r \in Slots : tasks[s].item.val = tasks[r].item.val
    OBVIOUS
  <2> QED
    BY <1>1, <2>1, <2>2, PromoteRefuse
<1>3. CASE ForwardTimeout(p)
  <2> DEFINE ts == [tasks EXCEPT ![p] = NoTask, ![NextLate] = tasks[p]]
  <2>1. op[p].pc = "wait" /\ Use("timeouts") /\ PromoteOrFail(p, ts)
    BY <1>3 DEF ForwardTimeout
  <2>2. NextLate \in Slots /\ p \in Slots
    BY <2>1, LateSlot DEF IInv, Slots
  <2>3. ts \in [Slots -> Task]
    BY <1>1, <2>2, NoTaskType
  <2>4. \A s \in Slots : \/ ts[s].item.val = 0
                         \/ \E r \in Slots : ts[s].item.val = tasks[r].item.val
    BY <1>1, <2>2, NoItemVal
  <2> HIDE DEF ts
  <2> QED
    BY <1>1, <2>1, <2>3, <2>4, PromoteRefuse
<1> QED
  BY <1>2, <1>3

(* A number that no Set had yet is in no copy. *)
LEMMA UnusedValue ==
  ASSUME IInv, Spread(writes + 1)
  PROVE  FALSE
<1>1. writes \in Nat
  BY WriteType
<1>2. \A c \in Item : Good(c) => c.val # writes + 1
  BY <1>1 DEF Good
<1>3. \A n \in Nodes, k \in Keys : items[n][k].val # writes + 1
  BY <1>2 DEF IInv, StorePart, StoreTypeOK
<1>4. \A s \in Slots : tasks[s].item.val # writes + 1
  <2>1. \A s \in Slots : tasks[s].item \in Item /\ Good(tasks[s].item)
    BY DEF IInv, TaskPart, Task
  <2> QED
    BY <1>2, <2>1
<1>5. \A n, t \in Nodes : \A i \in 1..Len(hints[n][t]) :
        hints[n][t][i].item.val # writes + 1
  <2>1. \A n, t \in Nodes : \A i \in 1..Len(hints[n][t]) :
          hints[n][t][i].item \in Item /\ Good(hints[n][t][i].item)
    BY HintType DEF IInv, HintPart
  <2> QED
    BY <1>2, <2>1
<1>6. \A p \in Procs : op[p].item.val # writes + 1
  <2>1. \A p \in Procs : op[p].item \in Item /\ Good(op[p].item)
    BY DEF IInv, OpPart, OpOK, Op
  <2> QED
    BY <1>2, <2>1
<1> QED
  BY <1>3, <1>4, <1>5, <1>6 DEF Spread

LEMMA BeginRefuse ==
  ASSUME IInv, IInv', PathInv, PathInv', RefuseInv, NEW p \in Procs, NEW n \in Nodes,
         NEW k \in Keys, BeginSet(p, n, k) \/ SetDraining(p, n, k)
  PROVE  RefuseInv'
<1>1. PICK v \in Nat : v = writes + 1
  BY WriteType
<1>2. /\ writes' = v /\ writes \in Nat
      /\ UNCHANGED <<items, tasks, hints, used>>
  BY <1>1, WriteType DEF BeginSet, SetDraining, NewWrite, StoreUnchanged, storeVars, hintVars,
                         callVars
<1>3. \A w \in 1..writes : wr'[w] = wr[w]
  <2>1. PICK r \in Results : NewWrite(n, k, r)
    BY DEF BeginSet, SetDraining, Results
  <2>2. wr' = [wr EXCEPT ![writes + 1] = [key |-> k, coord |-> n, version |-> 0,
                                        result |-> r]]
    BY <2>1 DEF NewWrite
  <2> QED
    BY <1>2, <2>2, WriteType DEF IInv, RecordPart
<1>4. ~Spread(v)
  BY <1>1, UnusedValue
<1>5. \A w \in 1..writes' : w \in 1..writes \/ w = v
  BY <1>1, <1>2
<1>6. CASE SetDraining(p, n, k)
  <2>1. UNCHANGED op
    BY <1>6 DEF SetDraining, callVars
  <2>2. \A w : Spread(w)' => Spread(w)
    BY <1>2, <2>1 DEF Spread, Unsent
  <2>3. ASSUME NEW w \in 1..writes', Spread(w)'
        PROVE  wr'[w].result # "draining" /\ (wr'[w].result = "error" => used'.timeouts > 0)
    BY <1>2, <1>3, <1>4, <1>5, <2>2, <2>3 DEF RefuseInv
  <2>4. ASSUME NEW q \in Procs, NEW w \in 1..writes', Unsent(op'[q]), op'[q].item.val = w
        PROVE  ~Spread(w)'
    BY <1>4, <1>5, <2>1, <2>2, <2>4 DEF RefuseInv
  <2> QED
    BY <2>3, <2>4 DEF RefuseInv, Unsent
<1>7. CASE BeginSet(p, n, k)
  <2> DEFINE it == [NoItem EXCEPT !.val = v]
             pc == IF n = primary(k) THEN "stamp" ELSE "forward"
             o  == NewCall("set", n, k, pc, it)
  <2>1. op' = [op EXCEPT ![p] = o]
    BY <1>1, <1>7 DEF BeginSet
  <2>2. it.val = v
    BY DEF NoItem
  <2> HIDE DEF it, pc
  <2>3. o.item = it /\ o.kind = "set"
    BY DEF NewCall, Idle
  <2> HIDE DEF o
  <2>4. OpsCopy(v) /\ op'[p] = o /\ \A q \in Procs : q # p => op'[q] = op[q]
    <3>1. o.item.val \in {0, v}
      BY <2>2, <2>3
    <3>2. op \in [Procs -> Op]
      BY DEF IInv, OpPart
    <3> QED
      BY <2>1, <3>1, <3>2 DEF OpsCopy
  <2>5. CopiesOnly(v)
    BY <1>2, <2>4, SameCopies DEF CopiesOnly
  <2>6. wr'[v].result = "pending"
    <3>1. PathOK(o)' /\ o \in Op
      BY <2>4 DEF PathInv, PathOps, IInv, OpPart
    <3> QED
      BY <2>2, <2>3, <3>1 DEF PathOK
  <2>7. ASSUME NEW w \in 1..writes, Spread(w)' PROVE Spread(w) /\ w # v
    <3>1. w # 0 /\ w # v
      BY <1>1, <1>2
    <3> QED
      BY <2>5, <2>7, <3>1, SpreadOnly
  <2>8. ASSUME NEW w \in 1..writes', Spread(w)'
        PROVE  wr'[w].result # "draining" /\ (wr'[w].result = "error" => used'.timeouts > 0)
    BY <1>2, <1>3, <1>5, <2>6, <2>7, <2>8 DEF RefuseInv
  <2>9. ASSUME NEW q \in Procs, NEW w \in 1..writes', Unsent(op'[q]), op'[q].item.val = w,
               Spread(w)'
        PROVE  FALSE
    <3>1. CASE q = p
      <4>1. w = v /\ w # 0
        BY <1>1, <2>2, <2>3, <2>4, <2>9, <3>1
      <4>2. \E r \in Procs : op'[r].item.val = v /\ ~Unsent(op'[r])
        <5>1. \A m \in Nodes, j \in Keys : items'[m][j].val # v
          BY <1>2, <1>4 DEF Spread
        <5>2. \A s \in Slots : tasks'[s].item.val # v
          BY <1>2, <1>4 DEF Spread
        <5>3. \A m, t \in Nodes : \A i \in 1..Len(hints'[m][t]) : hints'[m][t][i].item.val # v
          BY <1>2, <1>4 DEF Spread
        <5> QED
          BY <2>9, <4>1, <5>1, <5>2, <5>3 DEF Spread, Unsent
      <4>3. PICK r \in Procs : op'[r].item.val = v /\ ~Unsent(op'[r])
        BY <4>2
      <4>4. r # p
        BY <2>9, <3>1, <4>3
      <4> QED
        BY <1>4, <2>4, <4>3, <4>4 DEF Spread
    <3>2. CASE q # p
      <4>1. op[q] = op'[q] /\ op[q].kind = "set"
        BY <2>4, <2>9, <3>2 DEF Unsent
      <4>2. w \in 1..writes
        BY <2>9, <4>1 DEF IInv, OpPart, OpOK
      <4> QED
        BY <2>7, <2>9, <4>1, <4>2 DEF RefuseInv
    <3> QED
      BY <3>1, <3>2
  <2> QED
    BY <2>8, <2>9 DEF RefuseInv, Unsent
<1> QED
  BY <1>6, <1>7

LEMMA InitRefuse == Init => RefuseInv
<1> SUFFICES ASSUME Init PROVE RefuseInv
  OBVIOUS
<1>1. writes = 0
  BY DEF Init
<1> QED
  BY <1>1 DEF RefuseInv

LEMMA NextRefuse ==
  ASSUME IInv, IInv', PathInv, PathInv', RefuseInv, [Next]_vars
  PROVE  RefuseInv'
<1>1. CASE UNCHANGED vars
  <2>1. UNCHANGED <<items, op, tasks, hints, writes, wr, used>>
    BY <1>1 DEF vars, callVars, storeVars, hintVars
  <2>2. CopiesOnly(0)
    BY <2>1, SameCopies DEF CopiesOnly
  <2> QED
    BY <2>1, <2>2, RefuseQuiet
<1>2. CASE \E p \in Procs, n \in Nodes, k \in Keys :
             BeginSet(p, n, k) \/ SetDraining(p, n, k)
             \/ BeginRemove(p, n, k) \/ BeginGet(p, n, k)
  BY <1>2, BeginRefuse, BeginRemoveRefuse, BeginGetRefuse
<1>3. CASE \E p \in Procs : CallStep(p) \/ ForwardTimeout(p)
  BY <1>3, ForwardRefuse, ReturnRefuse, ForwardErrorRefuse, StampRefuse, ApplyRefuse,
     FanoutAckRefuse, FanoutErrorRefuse, ReadOneRefuse, ReadQuorumRefuse,
     ReadEndRefuse, RepairRefuse DEF CallStep
<1>4. CASE \E s \in Slots : HandlerStep(s) \/ HandlerStepLate(s)
  BY <1>4, HandlerRefuse
<1>5. CASE \E n \in Nodes : StartReplay(n) \/ \E t \in Nodes : ReplayHint(n, t)
  BY <1>5, NetRefuse, ReplayRefuse
<1>6. CASE \E n \in Nodes : Drain(n) \/ Isolate(n) \/ Heal(n)
  BY <1>6, NetRefuse
<1> QED
  BY <1>1, <1>2, <1>3, <1>4, <1>5, <1>6 DEF Next

(***************************************************************************)
(* A Set that was refused is nowhere: not in a store, a queue of hints, a  *)
(* call or a handler, for every cluster and every interleaving.            *)
(* ErrDraining is returned before the value is passed on, and a forward    *)
(* error that is not a timeout means that the request never left the node. *)
(***************************************************************************)
THEOREM RefusedIsNowhere == Spec => []RefusedLeavesNoCopy
<1>1. Init => IInv /\ PathInv /\ RefuseInv
  BY InitIInv, InitPath, InitRefuse
<1>2. IInv /\ PathInv /\ RefuseInv /\ [Next]_vars => (IInv /\ PathInv /\ RefuseInv)'
  BY NextIInv, NextPath, NextRefuse
<1>3. ASSUME IInv, PathInv, RefuseInv PROVE RefusedLeavesNoCopy
  <2> SUFFICES ASSUME NEW k \in Keys, NEW c \in Copies(k), Present(c)
               PROVE  /\ wr[c.val].result # "draining"
                      /\ wr[c.val].result = "error" => used.timeouts > 0
    BY DEF RefusedLeavesNoCopy
  <2>1. c \in Item /\ Good(c)
    BY <1>3, CopiesGood
  <2>2. c.val \in 1..writes
    BY <1>3, <2>1, WriteType DEF Good, Present
  <2>3. CASE Spread(c.val)
    BY <1>3, <2>2, <2>3 DEF RefuseInv
  <2>4. CASE \E p \in Procs : Unsent(op[p]) /\ c = op[p].item
    <3>1. PICK p \in Procs : Unsent(op[p]) /\ c = op[p].item
      BY <2>4
    <3>2. wr[c.val].result = "pending"
      BY <1>3, <3>1, OnPath DEF PathOK, Unsent
    <3> QED
      BY <3>2
  <2>5. Spread(c.val) \/ \E p \in Procs : Unsent(op[p]) /\ c = op[p].item
    <3>1. CASE c \in {items[n][k] : n \in Nodes}
      BY <3>1 DEF Spread
    <3>2. CASE c \in {h.item : h \in {hh \in UNION {Range(hints[n][t]) : n, t \in Nodes} :
                                        hh.key = k}}
      <4>1. PICK n \in Nodes, t \in Nodes : \E h \in Range(hints[n][t]) : c = h.item
        BY <3>2
      <4>2. hints[n][t] \in Seq(Hint)
        BY <1>3 DEF IInv, HintPart
      <4>3. PICK i \in 1..Len(hints[n][t]) : c = hints[n][t][i].item
        BY <4>1, <4>2 DEF Range
      <4> QED
        BY <4>3 DEF Spread
    <3>3. CASE c \in {op[p].item : p \in {q \in Procs : op[q].key = k}}
      BY <3>3 DEF Spread
    <3>4. CASE c \in {tasks[s].item : s \in {r \in Slots : tasks[r].key = k}}
      BY <3>4 DEF Spread
    <3> QED
      BY <3>1, <3>2, <3>3, <3>4 DEF Copies
  <2> QED
    BY <2>3, <2>4, <2>5
<1> QED
  BY <1>1, <1>2, <1>3, PTL DEF Spec


-----------------------------------------------------------------------------
(***************************************************************************)
(* Calls one after the other.  While no node has been cut off and no call  *)
(* has timed out there is no hint, no late request and every node is       *)
(* reachable, and with a single caller at most one call is under way.      *)
(* Every key that is not being written is settled: its owners hold the     *)
(* same copy, the one the last Set or Remove left.  A write has brought    *)
(* its copy to the owners it no longer has to visit, and a read carries    *)
(* nothing but the settled copy, so that its repairs change nothing: this  *)
(* is why the order of the stamps, which follows the coordinators'         *)
(* counters and not the calls, never undoes a later write.                 *)
(***************************************************************************)
Healthy == used.cuts = 0 /\ used.timeouts = 0

Settled(k) ==
    \A t \in Range(Owners[k]) : /\ items[t][k] = items[primary(k)][k]
                                /\ items[t][k].val = last[k]

Writing(o) == o.pc # "idle" /\ o.kind # "get"

QuietNet ==
    /\ isolated = {}
    /\ \A s \in LateCalls : tasks[s] = NoTask
    /\ \A n, t \in Nodes : hints[n][t] = <<>>

WriteOK(p) ==
    LET o == op[p]
        owners == Range(Owners[o.key]) IN
    /\ Writing(o) => o.item.val = last[o.key]
    /\ Writing(o) /\ o.kind = "remove" => o.item = NoItem
    /\ o.pc \in {"stamp", "apply", "fanout"} => o.node = primary(o.key)
    /\ o.pc = "fanout" => \A t \in owners \ o.todo : items[t][o.key] = o.item

HandlerOK(p) ==
    LET o == op[p]
        s == tasks[p] IN
    /\ o.pc \notin {"wait", "local"} => s = NoTask
    /\ o.pc \in {"wait", "local"} =>
         /\ s = NoTask \/ (s.kind = o.kind /\ s.key = o.key /\ s.item = o.item)
         /\ \A t \in Range(Owners[o.key]) \ s.todo : items[t][o.key] = o.item

ReadOK(p) ==
    LET o == op[p] IN
    /\ o.pc \in {"read", "repair"} =>
         o.item = NoItem \/ o.item = items[primary(o.key)][o.key]
    /\ o.pc = "repair" => Present(o.item)

CallOK(p) == WriteOK(p) /\ HandlerOK(p) /\ ReadOK(p)

UnwrittenSettled ==
    \A k \in Keys :
      Settled(k) \/ \E p \in Procs : Writing(op[p]) /\ op[p].key = k

SeqInv ==
    Healthy => QuietNet /\ UnwrittenSettled /\ \A p \in Procs : CallOK(p)

-----------------------------------------------------------------------------
(* The owners of a key are its primary and its replicas. *)
LEMMA OwnersSplit ==
  ASSUME NEW k \in Keys
  PROVE  /\ Range(Owners[k]) = {primary(k)} \cup replicas(k)
         /\ primary(k) \in Range(Owners[k])
<1> DEFINE s == Owners[k]
<1>1. s \in Seq(Nodes) /\ s # <<>>
  BY OwnersAssumption
<1> HIDE DEF s
<1>2. /\ Len(s) \in Nat \ {0} /\ DOMAIN s = 1..Len(s) /\ Head(s) = s[1]
      /\ Tail(s) \in Seq(Nodes) /\ Len(Tail(s)) = Len(s) - 1
      /\ DOMAIN Tail(s) = 1..(Len(s) - 1)
      /\ \A i \in 1..(Len(s) - 1) : Tail(s)[i] = s[i + 1]
  BY <1>1
<1>3. ASSUME NEW x \in Range(s) PROVE x = Head(s) \/ x \in Range(Tail(s))
  <2>1. PICK i \in 1..Len(s) : x = s[i]
    BY <1>2 DEF Range
  <2>2. CASE i = 1
    BY <1>2, <2>1, <2>2
  <2>3. CASE i # 1
    <3>1. i - 1 \in 1..(Len(s) - 1) /\ (i - 1) + 1 = i
      BY <1>2, <2>3
    <3>2. Tail(s)[i - 1] = x
      BY <1>2, <2>1, <3>1
    <3> QED
      BY <1>2, <3>1, <3>2 DEF Range
  <2> QED
    BY <2>2, <2>3
<1>4. ASSUME NEW x \in Range(Tail(s)) PROVE x \in Range(s)
  <2>1. PICK i \in 1..(Len(s) - 1) : x = Tail(s)[i]
    BY <1>2 DEF Range
  <2>2. i + 1 \in 1..Len(s) /\ s[i + 1] = x
    BY <1>2, <2>1
  <2> QED
    BY <1>2, <2>2 DEF Range
<1>5. Head(s) \in Range(s)
  BY <1>2 DEF Range
<1> QED
  BY <1>3, <1>4, <1>5 DEF primary, replicas, s

(* What the bounds count only grows. *)
LEMMA StaysHealthy ==
  ASSUME IInv, UNCHANGED used \/ \E b \in DOMAIN Bounds : Use(b), Healthy'
  PROVE  Healthy
<1>1. used \in [DOMAIN Bounds -> Nat]
  BY DEF IInv, NetPart
<1>2. CASE UNCHANGED used
  BY <1>2 DEF Healthy
<1>3. ASSUME NEW b \in DOMAIN Bounds, Use(b) PROVE Healthy
  <2>1. used' = [used EXCEPT ![b] = @ + 1]
    BY <1>3 DEF Use
  <2>2. used["cuts"] \in Nat /\ used["timeouts"] \in Nat
    BY <1>1 DEF Bounds
  <2>3. used'["cuts"] \in {used["cuts"], used["cuts"] + 1}
    BY <1>1, <2>1 DEF Bounds
  <2>4. used'["timeouts"] \in {used["timeouts"], used["timeouts"] + 1}
    BY <1>1, <2>1 DEF Bounds
  <2> QED
    BY <2>2, <2>3, <2>4 DEF Healthy
<1> QED
  BY <1>2, <1>3

LEMMA FaultsShow ==
  ASSUME IInv, NEW b \in {"cuts", "timeouts"}, Use(b)
  PROVE  ~Healthy'
<1>1. used \in [DOMAIN Bounds -> Nat] /\ b \in DOMAIN Bounds
  BY DEF IInv, NetPart, Bounds
<1>2. used' = [used EXCEPT ![b] = @ + 1]
  BY DEF Use
<1>3. used[b] \in Nat /\ used'[b] = used[b] + 1
  BY <1>1, <1>2
<1> QED
  BY <1>3 DEF Healthy

(* With one caller the step of p is the step of every call. *)
LEMMA SoleCall ==
  ASSUME NEW p \in Procs, \A q \in Procs : q = p,
         QuietNet', CallOK(p)',
         \A k \in Keys : Settled(k)' \/ (Writing(op[p])' /\ op'[p].key = k)
  PROVE  SeqInv'
<1>1. UnwrittenSettled'
  BY DEF UnwrittenSettled
<1> QED
  BY <1>1 DEF SeqInv

(* A step of one call on a healthy network leaves the network as it is. *)
LEMMA QuietKept ==
  ASSUME QuietNet, UNCHANGED <<isolated, hints>>,
         \A s \in LateCalls : tasks'[s] = tasks[s]
  PROVE  QuietNet'
  BY DEF QuietNet

LEMMA AllReachable ==
  ASSUME QuietNet
  PROVE  \A a, b : CanReach(a, b)
  BY DEF QuietNet, CanReach

LEMMA SettledKept ==
  ASSUME NEW k \in Keys, Settled(k), UNCHANGED last,
         \A t \in Nodes : items'[t][k] = items[t][k]
  PROVE  Settled(k)'
  BY OwnersType DEF Settled


(* What the invariant says of the only call before a step that leaves the  *)
(* network healthy.                                                        *)
LEMMA SeqState ==
  ASSUME IInv, SeqInv, NEW p \in Procs, \A q \in Procs : q = p,
         UNCHANGED used \/ \E b \in DOMAIN Bounds : Use(b), Healthy'
  PROVE  /\ QuietNet /\ CallOK(p)
         /\ \A k \in Keys : Settled(k) \/ (Writing(op[p]) /\ op[p].key = k)
<1>1. Healthy
  BY StaysHealthy
<1> QED
  BY <1>1 DEF SeqInv, UnwrittenSettled

(* Steps outside the calls. *)
LEMMA SeqFrame ==
  ASSUME IInv, SeqInv, UNCHANGED <<items, last, op, tasks, hints, isolated>>,
         UNCHANGED used \/ \E b \in DOMAIN Bounds : Use(b)
  PROVE  SeqInv'
<1> SUFFICES ASSUME Healthy' PROVE SeqInv'
  BY DEF SeqInv
<1>1. Healthy
  BY StaysHealthy
<1>2. QuietNet /\ UnwrittenSettled /\ \A p \in Procs : CallOK(p)
  BY <1>1 DEF SeqInv
<1>3. QuietNet'
  BY <1>2, QuietKept
<1>4. UnwrittenSettled'
  BY <1>2 DEF UnwrittenSettled, Settled, Writing
<1>5. ASSUME NEW p \in Procs PROVE CallOK(p)'
  BY <1>2 DEF CallOK, WriteOK, HandlerOK, ReadOK, Writing
<1> QED
  BY <1>3, <1>4, <1>5 DEF SeqInv

LEMMA NetSeq ==
  ASSUME IInv, SeqInv, NEW n \in Nodes,
         \/ Drain(n) \/ Isolate(n) \/ Heal(n) \/ StartReplay(n)
         \/ \E t \in Nodes : ReplayHint(n, t)
  PROVE  SeqInv'
<1> SUFFICES ASSUME Healthy' PROVE SeqInv'
  BY DEF SeqInv
<1>1. CASE Drain(n)
  <2>1. UNCHANGED <<items, last, op, tasks, hints, isolated>>
    BY <1>1 DEF Drain, callVars, hintVars, StoreUnchanged, storeVars
  <2>2. "drains" \in DOMAIN Bounds /\ Use("drains")
    BY <1>1 DEF Drain, Bounds
  <2> QED
    BY <2>1, <2>2, SeqFrame
<1>2. CASE Isolate(n)
  BY <1>2, FaultsShow DEF Isolate
<1>3. CASE Heal(n) \/ StartReplay(n)
  <2>1. UNCHANGED used
    BY <1>3 DEF Heal, StartReplay
  <2>2. QuietNet
    BY <2>1, StaysHealthy DEF SeqInv
  <2> QED
    BY <1>3, <2>2 DEF Heal, StartReplay, QuietNet
<1>4. ASSUME NEW t \in Nodes, ReplayHint(n, t) PROVE SeqInv'
  <2>1. UNCHANGED used \/ \E b \in DOMAIN Bounds : Use(b)
    BY <1>4 DEF ReplayHint, ArriveLate, Bounds
  <2>2. QuietNet
    BY <2>1, StaysHealthy DEF SeqInv
  <2>3. Len(hints[n][t]) = 0
    BY <2>2 DEF QuietNet
  <2>4. CurrentHint(n, t) \in 1..Len(hints[n][t])
    BY <1>4, InPassType DEF IInv, ReplayHint
  <2> QED
    BY <2>3, <2>4
<1> QED
  BY <1>1, <1>2, <1>3, <1>4

(* A read and its repairs move between idle, read and repair and change no *)
(* store.                                                                  *)
LEMMA ReadStep ==
  ASSUME IInv, SeqInv, NEW p \in Procs, \A q \in Procs : q = p,
         UNCHANGED <<items, last, tasks, hints, isolated>>,
         UNCHANGED used \/ \E b \in DOMAIN Bounds : Use(b),
         ~Writing(op[p]), ~Writing(op'[p]),
         op'[p].pc \in {"idle", "read", "repair"},
         op'[p].pc \in {"read", "repair"} =>
           op'[p].item = NoItem \/ op'[p].item = items[primary(op'[p].key)][op'[p].key],
         op'[p].pc = "repair" => Present(op'[p].item),
         op[p].pc \notin {"wait", "local"}
  PROVE  SeqInv'
<1> SUFFICES ASSUME Healthy' PROVE SeqInv'
  BY DEF SeqInv
<1>1. /\ QuietNet /\ CallOK(p)
      /\ \A k \in Keys : Settled(k)
  BY SeqState
<1>2. QuietNet'
  BY <1>1, QuietKept
<1>3. \A k \in Keys : Settled(k)'
  BY <1>1 DEF Settled
<1>4. tasks'[p] = NoTask
  BY <1>1 DEF CallOK, HandlerOK
<1>5. ~Writing(op[p])'
  BY DEF Writing
<1>6. WriteOK(p)' /\ HandlerOK(p)' /\ ReadOK(p)'
  BY <1>4, <1>5 DEF WriteOK, HandlerOK, ReadOK
<1> QED
  BY <1>2, <1>3, <1>6, SoleCall DEF CallOK

(* A write that goes on touches the copies of its own key only. *)
LEMMA WriteGoesOn ==
  ASSUME IInv, SeqInv, NEW p \in Procs, \A q \in Procs : q = p,
         UNCHANGED <<last, used, hints, isolated>>,
         Writing(op[p]), Writing(op'[p]), op'[p].key = op[p].key,
         \A k \in Keys : k # op[p].key => \A t \in Nodes : items'[t][k] = items[t][k],
         \A s \in LateCalls : tasks'[s] = tasks[s],
         CallOK(p)'
  PROVE  SeqInv'
<1> SUFFICES ASSUME Healthy' PROVE SeqInv'
  BY DEF SeqInv
<1>1. /\ QuietNet
      /\ \A k \in Keys : Settled(k) \/ op[p].key = k
  BY SeqState
<1>2. QuietNet'
  BY <1>1, QuietKept
<1>3. \A k \in Keys : Settled(k)' \/ (Writing(op[p])' /\ op'[p].key = k)
  BY <1>1, SettledKept DEF Writing
<1> QED
  BY <1>2, <1>3, SoleCall

(* A write that has reached every owner leaves its key settled. *)
LEMMA WriteEnds ==
  ASSUME IInv, SeqInv, NEW p \in Procs, \A q \in Procs : q = p,
         UNCHANGED <<items, last, used, tasks, hints, isolated>>,
         Writing(op[p]), tasks[p] = NoTask, op'[p] = Idle,
         Healthy => \A t \in Range(Owners[op[p].key]) : items[t][op[p].key] = op[p].item
  PROVE  SeqInv'
<1> SUFFICES ASSUME Healthy' PROVE SeqInv'
  BY DEF SeqInv
<1>1. /\ QuietNet /\ CallOK(p)
      /\ \A k \in Keys : Settled(k) \/ op[p].key = k
  BY SeqState
<1>2. QuietNet'
  BY <1>1, QuietKept
<1>3. Idle.pc = "idle"
  BY IdleType
<1>4. WriteOK(p)' /\ HandlerOK(p)' /\ ReadOK(p)'
  BY <1>3 DEF WriteOK, HandlerOK, ReadOK, Writing
<1>5. op[p].key \in Keys
  BY Running DEF Writing
<1>6. Settled(op[p].key)
  <2>1. Healthy
    BY StaysHealthy
  <2>2. op[p].item.val = last[op[p].key]
    BY <1>1 DEF CallOK, WriteOK
  <2> QED
    BY <1>5, <2>1, <2>2, OwnersSplit DEF Settled
<1>7. \A k \in Keys : Settled(k)'
  BY <1>1, <1>6 DEF Settled
<1> QED
  BY <1>2, <1>4, <1>7, SoleCall DEF CallOK


-----------------------------------------------------------------------------
(* Reads. *)
LEMMA BeginGetSeq ==
  ASSUME IInv, SeqInv, NEW p \in Procs, \A q \in Procs : q = p,
         NEW n \in Nodes, NEW k \in Keys, BeginGet(p, n, k)
  PROVE  SeqInv'
<1>1. op[p] = Idle /\ op \in [Procs -> Op]
  BY DEF BeginGet, IInv, OpPart
<1>2. ~Writing(op[p]) /\ op[p].pc = "idle"
  BY <1>1, IdleType DEF Writing
<1>3. UNCHANGED <<items, last, tasks, hints, isolated>>
  BY DEF BeginGet, StoreUnchanged, storeVars, hintVars, netVars
<1>4. "gets" \in DOMAIN Bounds /\ Use("gets")
  BY DEF BeginGet, Bounds
<1>5. CASE op' = op
  BY <1>2, <1>3, <1>4, <1>5, ReadStep
<1>6. CASE op' # op
  <2> DEFINE c == [NewCall("get", n, k, "read", NoItem) EXCEPT !.todo = Range(Owners[k])]
  <2>1. c.pc = "read" /\ c.kind = "get" /\ c.item = NoItem
    BY DEF NewCall, Idle
  <2> HIDE DEF c
  <2>2. op' = [op EXCEPT ![p] = c]
    BY <1>6 DEF BeginGet, c
  <2>3. op'[p] = c
    BY <1>1, <2>2
  <2> QED
    BY <1>2, <1>3, <1>4, <2>1, <2>3, ReadStep DEF Writing
<1> QED
  BY <1>5, <1>6

LEMMA ReadEndSeq ==
  ASSUME IInv, SeqInv, NEW p \in Procs, \A q \in Procs : q = p,
         ReadMiss(p) \/ GetReturn(p)
  PROVE  SeqInv'
<1>1. op[p].pc \in {"read", "repair"} /\ op' = [op EXCEPT ![p] = Idle]
  BY DEF ReadMiss, GetReturn
<1>2. op[p].kind = "get" /\ op'[p] = Idle
  BY <1>1, Running DEF OpOK, IInv, OpPart
<1>3. UNCHANGED <<items, last, tasks, hints, isolated, used>>
  BY DEF ReadMiss, GetReturn, StoreUnchanged, storeVars, hintVars, netVars
<1> QED
  BY <1>1, <1>2, <1>3, IdleType, ReadStep DEF Writing

(* The answer of an owner is the settled copy. *)
LEMMA ReadState ==
  ASSUME IInv, PathInv, SeqInv, NEW p \in Procs, \A q \in Procs : q = p, Healthy',
         UNCHANGED used \/ \E b \in DOMAIN Bounds : Use(b),
         op[p].pc \in {"read", "repair"}
  PROVE  /\ op[p].kind = "get" /\ op[p].key \in Keys /\ op[p].node \in Nodes
         /\ op[p] \in Op
         /\ op[p].todo \cup op[p].stale \subseteq Range(Owners[op[p].key])
         /\ QuietNet /\ CallOK(p) /\ Settled(op[p].key)
         /\ \A a : \A t \in Range(Owners[op[p].key]) :
              /\ Fetch(a, t, op[p].key) = items[primary(op[p].key)][op[p].key]
              /\ items[t][op[p].key] = items[primary(op[p].key)][op[p].key]
<1>1. op[p].kind = "get" /\ op[p].key \in Keys /\ op[p].node \in Nodes /\ op[p] \in Op
  BY Running DEF OpOK
<1>2. op[p].todo \cup op[p].stale \subseteq Range(Owners[op[p].key])
  BY OnPath DEF PathOK
<1>3. QuietNet /\ CallOK(p) /\ Settled(op[p].key)
  BY <1>1, SeqState DEF Writing
<1> QED
  BY <1>1, <1>2, <1>3, AllReachable DEF Settled, Fetch

(* A settled store does not change when an owner is given its own copy. *)
LEMMA SameCopy ==
  ASSUME IInv, NEW n \in Nodes, NEW k \in Keys, NEW it,
         Put(n, k, it) \/ Arrive("set", n, k, it), ownsKeyInternal(n, k), items[n][k] = it
  PROVE  UNCHANGED <<items, last>>
<1>1. items \in [Nodes -> [Keys -> Item]]
  BY DEF IInv, StorePart, StoreTypeOK
<1>2. items' = [items EXCEPT ![n][k] = it] /\ UNCHANGED last
  BY DEF Put, Arrive, applySet, applyForwardedSet
<1> QED
  BY <1>1, <1>2

LEMMA ReadOneSeq ==
  ASSUME IInv, PathInv, SeqInv, NEW p \in Procs, \A q \in Procs : q = p, ReadOne(p)
  PROVE  SeqInv'
<1> SUFFICES ASSUME Healthy' PROVE SeqInv'
  BY DEF SeqInv
<1> DEFINE o == op[p]
           c == items[primary(o.key)][o.key]
<1>1. o.pc = "read" /\ UNCHANGED <<tasks, hints, isolated, used>>
  BY DEF ReadOne, hintVars, netVars
<1>2. /\ o.kind = "get" /\ o.key \in Keys /\ o.node \in Nodes /\ o \in Op
      /\ o.todo \cup o.stale \subseteq Range(Owners[o.key])
      /\ QuietNet /\ CallOK(p) /\ Settled(o.key)
  BY <1>1, ReadState
<1>3. \A a : \A t \in Range(Owners[o.key]) : Fetch(a, t, o.key) = c /\ items[t][o.key] = c
  BY <1>1, ReadState
<1>4. o.item = NoItem \/ o.item = c
  BY <1>1, <1>2 DEF CallOK, ReadOK
<1>5. op \in [Procs -> Op]
  BY DEF IInv, OpPart
<1> HIDE DEF o, c
<1>6. PICK t \in Nodes :
        /\ IsNext(t, o.key, o.todo)
        /\ \/ /\ op' = [op EXCEPT ![p].todo = @ \ {t}]
              /\ StoreUnchanged
           \/ /\ Present(Fetch(o.node, t, o.key))
              /\ op' = [op EXCEPT ![p] = Idle]
              /\ IF ownsKeyInternal(o.node, o.key) /\ ~Present(items[o.node][o.key])
                 THEN Put(o.node, o.key, Fetch(o.node, t, o.key))
                 ELSE StoreUnchanged
  BY DEF ReadOne, o
<1>7. Fetch(o.node, t, o.key) = c
  BY <1>2, <1>3, <1>6 DEF IsNext
<1>8. UNCHANGED <<items, last>>
  <2>1. CASE StoreUnchanged
    BY <2>1 DEF StoreUnchanged, storeVars
  <2>2. CASE ~StoreUnchanged
    <3>1. Present(c) /\ ownsKeyInternal(o.node, o.key) /\ ~Present(items[o.node][o.key])
      BY <1>6, <1>7, <2>2
    <3>2. items[o.node][o.key] = c
      BY <1>3, <3>1 DEF ownsKeyInternal
    <3> QED
      BY <3>1, <3>2
  <2> QED
    BY <2>1, <2>2
<1>9. op[p] = o /\ o.pc = "read" /\ o.kind = "get"
  BY <1>1, <1>2 DEF o
<1>10. CASE op' = [op EXCEPT ![p].todo = @ \ {t}]
  <2>1. op'[p].pc = "read" /\ op'[p].kind = "get" /\ op'[p].key = o.key /\ op'[p].item = o.item
    BY <1>2, <1>5, <1>9, <1>10
  <2> QED
    BY <1>1, <1>4, <1>8, <1>9, <2>1, ReadStep DEF Writing, c
<1>11. CASE op' = [op EXCEPT ![p] = Idle]
  <2>1. op'[p] = Idle
    BY <1>5, <1>11
  <2> QED
    BY <1>1, <1>8, <1>9, <2>1, IdleType, ReadStep DEF Writing
<1> QED
  BY <1>6, <1>10, <1>11

LEMMA ReadQuorumSeq ==
  ASSUME IInv, PathInv, SeqInv, NEW p \in Procs, \A q \in Procs : q = p, ReadQuorum(p)
  PROVE  SeqInv'
<1> SUFFICES ASSUME Healthy' PROVE SeqInv'
  BY DEF SeqInv
<1> DEFINE o == op[p]
           c == items[primary(o.key)][o.key]
<1>1. o.pc = "read" /\ UNCHANGED <<tasks, hints, isolated, used, items, last>>
  BY DEF ReadQuorum, hintVars, netVars, StoreUnchanged, storeVars
<1>2. /\ o.kind = "get" /\ o.key \in Keys /\ o.node \in Nodes /\ o \in Op
      /\ o.todo \cup o.stale \subseteq Range(Owners[o.key])
      /\ QuietNet /\ CallOK(p) /\ Settled(o.key)
  BY <1>1, ReadState
<1>3. \A a : \A t \in Range(Owners[o.key]) : Fetch(a, t, o.key) = c /\ items[t][o.key] = c
  BY <1>1, ReadState
<1>4. o.item = NoItem \/ o.item = c
  BY <1>1, <1>2 DEF CallOK, ReadOK
<1>5. op \in [Procs -> Op] /\ c \in Item
  BY <1>2, OwnersType DEF IInv, OpPart, StorePart, StoreTypeOK
<1>6. ~Newer(c, c)
  BY <1>5 DEF Newer, Item
<1>7. chooseNewer(o.item, c) = c
  BY <1>4, <1>6, NoItemVal DEF chooseNewer, Present
<1> HIDE DEF c, o
<1>8. PICK t \in o.todo :
        LET it     == Fetch(o.node, t, o.key)
            chosen == chooseNewer(o.item, it)
            acks   == o.acks + 1
            stale  == IF Present(o.item) /\ chosen # o.item
                      THEN o.stale \cup {t} ELSE o.stale IN
        \/ /\ ~Present(it)
           /\ op' = [op EXCEPT ![p].todo = @ \ {t}]
        \/ /\ Present(it)
           /\ op' = [op EXCEPT ![p].todo = @ \ {t}, ![p].acks = acks,
                               ![p].item = chosen, ![p].stale = stale]
        \/ /\ Present(it)
           /\ op' = [op EXCEPT ![p].pc = "repair",
                               ![p].todo = Range(Owners[o.key]),
                               ![p].acks = 0, ![p].item = chosen,
                               ![p].stale = stale \ {o.node}]
  BY DEF ReadQuorum, o
<1>9. Fetch(o.node, t, o.key) = c
  BY <1>2, <1>3
<1>10. op[p] = o
  BY DEF o
<1>11. /\ op'[p].kind = "get" /\ op'[p].key = o.key
       /\ \/ op'[p].pc = "read" /\ op'[p].item = o.item
          \/ op'[p].pc \in {"read", "repair"} /\ op'[p].item = c /\ Present(c)
  <2>1. CASE op' = [op EXCEPT ![p].todo = @ \ {t}]
    BY <1>1, <1>2, <1>5, <1>10, <2>1
  <2>2. ASSUME NEW a, NEW st, Present(c),
               op' = [op EXCEPT ![p].todo = @ \ {t}, ![p].acks = a,
                                ![p].item = c, ![p].stale = st]
        PROVE  /\ op'[p].kind = "get" /\ op'[p].key = o.key
               /\ op'[p].pc = "read" /\ op'[p].item = c
    BY <1>1, <1>2, <1>5, <1>10, <2>2
  <2>3. ASSUME NEW st, Present(c),
               op' = [op EXCEPT ![p].pc = "repair", ![p].todo = Range(Owners[o.key]),
                                ![p].acks = 0, ![p].item = c, ![p].stale = st]
        PROVE  /\ op'[p].kind = "get" /\ op'[p].key = o.key
               /\ op'[p].pc = "repair" /\ op'[p].item = c
    BY <1>1, <1>2, <1>5, <1>10, <2>3
  <2> QED
    BY <1>7, <1>8, <1>9, <2>1, <2>2, <2>3
<1> QED
  BY <1>1, <1>2, <1>4, <1>10, <1>11, ReadStep DEF Writing, c


LEMMA RepairSeq ==
  ASSUME IInv, PathInv, SeqInv, NEW p \in Procs, \A q \in Procs : q = p,
         RepairLocal(p) \/ RepairRemote(p)
  PROVE  SeqInv'
<1> SUFFICES ASSUME Healthy' PROVE SeqInv'
  BY DEF SeqInv
<1> DEFINE o == op[p]
           c == items[primary(o.key)][o.key]
<1>1. o.pc = "repair" /\ UNCHANGED <<hints, isolated>>
  BY DEF RepairLocal, RepairRemote, hintVars, netVars
<1>2. UNCHANGED <<used, tasks>>
  <2>1. CASE Use("timeouts")
    BY <2>1, FaultsShow
  <2> QED
    BY <2>1 DEF RepairLocal, RepairRemote, ArriveLate
<1>3. /\ o.kind = "get" /\ o.key \in Keys /\ o.node \in Nodes /\ o \in Op
      /\ o.todo \cup o.stale \subseteq Range(Owners[o.key])
      /\ QuietNet /\ CallOK(p) /\ Settled(o.key)
  BY <1>1, <1>2, ReadState
<1>4. \A t \in Range(Owners[o.key]) : items[t][o.key] = c
  BY <1>1, <1>2, ReadState
<1>5. Present(o.item) /\ o.item = c
  BY <1>1, <1>3, NoItemVal DEF CallOK, ReadOK, Present
<1>6. op \in [Procs -> Op] /\ op[p] = o
  BY DEF IInv, OpPart
<1> HIDE DEF o, c
<1>7. PICK t \in Nodes :
        /\ NextRepair(o, t)
        /\ op' = [op EXCEPT ![p] = Repaired(o, t)]
        /\ StoreUnchanged \/ Put(t, o.key, o.item) \/ Arrive("set", t, o.key, o.item)
  BY <1>3, <1>6 DEF RepairLocal, RepairRemote
<1>8. t \in Range(Owners[o.key])
  BY <1>3, <1>7 DEF NextRepair, IsNext
<1>9. UNCHANGED <<items, last>>
  <2>1. CASE StoreUnchanged
    BY <2>1 DEF StoreUnchanged, storeVars
  <2> QED
    BY <1>3, <1>4, <1>5, <1>7, <1>8, <2>1, SameCopy DEF ownsKeyInternal
<1>10. /\ op'[p].pc = "repair" /\ op'[p].kind = "get"
       /\ op'[p].key = o.key /\ op'[p].item = o.item
  <2>1. op'[p] = Repaired(o, t)
    BY <1>6, <1>7
  <2>2. o.pc = "repair"
    BY <1>1, <1>6
  <2> QED
    BY <1>3, <2>1, <2>2 DEF Repaired, Op
<1> QED
  BY <1>1, <1>2, <1>3, <1>5, <1>6, <1>9, <1>10, ReadStep DEF Writing, c

-----------------------------------------------------------------------------
(* Writes. *)
LEMMA BeginSetSeq ==
  ASSUME IInv, SeqInv, NEW p \in Procs, \A q \in Procs : q = p,
         NEW n \in Nodes, NEW k \in Keys, BeginSet(p, n, k)
  PROVE  SeqInv'
<1> SUFFICES ASSUME Healthy' PROVE SeqInv'
  BY DEF SeqInv
<1> DEFINE c == NewCall("set", n, k, IF n = primary(k) THEN "stamp" ELSE "forward",
                        [NoItem EXCEPT !.val = writes + 1])
<1>1. /\ UNCHANGED <<items, tasks, hints, isolated, used>>
      /\ last' = [last EXCEPT ![k] = writes + 1]
      /\ op[p] = Idle /\ op' = [op EXCEPT ![p] = c]
  BY DEF BeginSet, storeVars, hintVars, netVars
<1>2. /\ c.kind = "set" /\ c.node = n /\ c.key = k /\ c.item.val = writes + 1
      /\ c.pc \in {"stamp", "forward"} /\ (c.pc = "stamp" => n = primary(k))
  BY DEF NewCall, Idle, NoItem
<1> HIDE DEF c
<1>3. op \in [Procs -> Op] /\ last \in [Keys -> 0..MaxSets]
  BY DEF IInv, OpPart, StorePart
<1>4. op'[p] = c /\ last'[k] = writes + 1 /\ \A j \in Keys : j # k => last'[j] = last[j]
  BY <1>1, <1>3
<1>5. QuietNet /\ CallOK(p) /\ \A j \in Keys : Settled(j)
  BY <1>1, IdleType, SeqState DEF Writing
<1>6. QuietNet'
  BY <1>1, <1>5, QuietKept
<1>7. Writing(op[p])' /\ op'[p].key = k
  BY <1>2, <1>4 DEF Writing
<1>8. \A j \in Keys : j # k => Settled(j)'
  BY <1>1, <1>4, <1>5 DEF Settled
<1>9. tasks'[p] = NoTask
  BY <1>1, <1>5, IdleType DEF CallOK, HandlerOK
<1>10. WriteOK(p)' /\ HandlerOK(p)' /\ ReadOK(p)'
  BY <1>2, <1>4, <1>9 DEF WriteOK, HandlerOK, ReadOK
<1> QED
  BY <1>6, <1>7, <1>8, <1>10, SoleCall DEF CallOK

LEMMA BeginRemoveSeq ==
  ASSUME IInv, SeqInv, NEW p \in Procs, \A q \in Procs : q = p,
         NEW n \in Nodes, NEW k \in Keys, BeginRemove(p, n, k)
  PROVE  SeqInv'
<1> SUFFICES ASSUME Healthy' PROVE SeqInv'
  BY DEF SeqInv
<1> DEFINE local == n = primary(k)
           c == NewCall("remove", n, k, IF local THEN "local" ELSE "forward", NoItem)
           h == LocalRemove(n, k)
<1>1. /\ UNCHANGED <<items, hints, isolated>>
      /\ last' = [last EXCEPT ![k] = 0]
      /\ op[p] = Idle /\ op' = [op EXCEPT ![p] = c]
      /\ tasks' = IF local THEN [tasks EXCEPT ![p] = h] ELSE tasks
      /\ Use("removes") /\ "removes" \in DOMAIN Bounds
  BY DEF BeginRemove, storeVars, hintVars, netVars, Bounds
<1>2. /\ c.kind = "remove" /\ c.node = n /\ c.key = k /\ c.item = NoItem
      /\ c.pc = IF local THEN "local" ELSE "forward"
  BY DEF NewCall, Idle
<1>3. /\ h.kind = "remove" /\ h.key = k /\ h.item = NoItem
      /\ local => h.todo = Range(Owners[k])
  BY OwnersSplit DEF LocalRemove
<1> HIDE DEF c, h
<1>4. /\ op \in [Procs -> Op] /\ last \in [Keys -> 0..MaxSets]
      /\ tasks \in [Slots -> Task] /\ p \in Slots /\ p \notin LateCalls
  BY ParametersAssumption DEF IInv, OpPart, StorePart, TaskPart, Slots, LateCalls
<1>5. /\ op'[p] = c /\ last'[k] = 0 /\ \A j \in Keys : j # k => last'[j] = last[j]
      /\ tasks'[p] = IF local THEN h ELSE tasks[p]
      /\ \A s \in LateCalls : tasks'[s] = tasks[s]
  BY <1>1, <1>4 DEF Slots
<1>6. QuietNet /\ CallOK(p) /\ \A j \in Keys : Settled(j)
  BY <1>1, IdleType, SeqState DEF Writing
<1>7. QuietNet'
  BY <1>1, <1>5, <1>6, QuietKept
<1>8. Writing(op[p])' /\ op'[p].key = k
  BY <1>2, <1>5 DEF Writing
<1>9. \A j \in Keys : j # k => Settled(j)'
  BY <1>1, <1>5, <1>6 DEF Settled
<1>10. tasks[p] = NoTask
  BY <1>1, <1>6, IdleType DEF CallOK, HandlerOK
<1>11. WriteOK(p)' /\ ReadOK(p)'
  BY <1>2, <1>5, NoItemVal DEF WriteOK, ReadOK
<1>12. HandlerOK(p)'
  BY <1>2, <1>3, <1>5, <1>10 DEF HandlerOK
<1> QED
  BY <1>7, <1>8, <1>9, <1>11, <1>12, SoleCall DEF CallOK

LEMMA SetDrainingSeq ==
  ASSUME IInv, SeqInv, NEW p \in Procs, NEW n \in Nodes, NEW k \in Keys,
         SetDraining(p, n, k)
  PROVE  SeqInv'
<1>1. UNCHANGED <<items, last, op, tasks, hints, isolated, used>>
  BY DEF SetDraining, StoreUnchanged, storeVars, callVars, hintVars, netVars
<1> QED
  BY <1>1, SeqFrame


(* The state of a write, before a step on a healthy network. *)
LEMMA WriteState ==
  ASSUME IInv, SeqInv, NEW p \in Procs, \A q \in Procs : q = p, Healthy',
         UNCHANGED used,
         op[p].pc \in {"forward", "wait", "local", "stamp", "apply", "fanout"}
  PROVE  /\ op[p] \in Op /\ op \in [Procs -> Op]
         /\ op[p].kind \in {"set", "remove"}
         /\ op[p].key \in Keys /\ op[p].node \in Nodes /\ op[p].item \in Item
         /\ Writing(op[p]) /\ QuietNet
         /\ WriteOK(p) /\ HandlerOK(p)
         /\ p \in Slots /\ p \notin LateCalls /\ tasks \in [Slots -> Task]
<1>1. /\ op[p] \in Op /\ op[p].kind \in {"set", "remove"}
      /\ op[p].key \in Keys /\ op[p].node \in Nodes /\ op[p].item \in Item
  BY Running DEF OpOK
<1>2. op \in [Procs -> Op] /\ tasks \in [Slots -> Task] /\ p \in Slots /\ p \notin LateCalls
  BY ParametersAssumption DEF IInv, OpPart, TaskPart, Slots, LateCalls
<1>3. QuietNet /\ CallOK(p)
  BY SeqState
<1> QED
  BY <1>1, <1>2, <1>3 DEF CallOK, Writing

LEMMA ForwardSeq ==
  ASSUME IInv, SeqInv, NEW p \in Procs, \A q \in Procs : q = p, Forward(p)
  PROVE  SeqInv'
<1> SUFFICES ASSUME Healthy' PROVE SeqInv'
  BY DEF SeqInv
<1> DEFINE o == op[p]
           d == primary(o.key)
           h == [kind |-> o.kind, at |-> d, key |-> o.key, item |-> o.item,
                 todo |-> {d} \cup replicas(o.key)]
<1>1. /\ o.pc = "forward" /\ op' = [op EXCEPT ![p].pc = "wait"]
      /\ tasks' = [tasks EXCEPT ![p] = h]
      /\ UNCHANGED <<items, last, hints, isolated, used>>
  BY DEF Forward, StoreUnchanged, storeVars, hintVars, netVars
<1>2. /\ o \in Op /\ op \in [Procs -> Op]
      /\ o.kind \in {"set", "remove"}
      /\ o.key \in Keys /\ o.node \in Nodes /\ o.item \in Item
      /\ Writing(o) /\ QuietNet
      /\ WriteOK(p) /\ HandlerOK(p)
      /\ p \in Slots /\ p \notin LateCalls /\ tasks \in [Slots -> Task]
  BY <1>1, WriteState
<1>3. h.kind = o.kind /\ h.key = o.key /\ h.item = o.item /\ h.todo = Range(Owners[o.key])
  BY <1>2, OwnersSplit
<1> HIDE DEF h
<1>4. tasks'[p] = h /\ \A s \in LateCalls : tasks'[s] = tasks[s]
  BY <1>1, <1>2 DEF Slots
<1>5. /\ op'[p].pc = "wait" /\ op'[p].kind = o.kind /\ op'[p].key = o.key
      /\ op'[p].item = o.item
  BY <1>1, <1>2 DEF Op
<1>6. WriteOK(p)' /\ ReadOK(p)'
  BY <1>1, <1>2, <1>5 DEF WriteOK, ReadOK, Writing
<1>7. HandlerOK(p)'
  BY <1>3, <1>4, <1>5 DEF HandlerOK
<1>8. Writing(op'[p])
  BY <1>2, <1>5 DEF Writing
<1> QED
  BY <1>1, <1>2, <1>4, <1>5, <1>6, <1>7, <1>8, WriteGoesOn DEF CallOK

LEMMA ReturnSeq ==
  ASSUME IInv, SeqInv, NEW p \in Procs, \A q \in Procs : q = p,
         ForwardReturn(p) \/ SetReturn(p)
  PROVE  SeqInv'
<1> SUFFICES ASSUME Healthy' PROVE SeqInv'
  BY DEF SeqInv
<1>1. /\ op' = [op EXCEPT ![p] = Idle]
      /\ op[p].pc \in {"wait", "local", "fanout"}
      /\ op[p].pc \in {"wait", "local"} => tasks[p] = NoTask
      /\ op[p].pc = "fanout" => op[p].todo = {}
      /\ UNCHANGED <<items, last, tasks, hints, isolated, used>>
  BY DEF ForwardReturn, SetReturn, Finish, StoreUnchanged, storeVars, hintVars, netVars
<1>2. /\ op \in [Procs -> Op] /\ Writing(op[p])
      /\ WriteOK(p) /\ HandlerOK(p)
  BY <1>1, WriteState
<1>3. tasks[p] = NoTask
  BY <1>1, <1>2 DEF HandlerOK
<1>4. NoTask.todo = {}
  BY DEF NoTask
<1>5. \A t \in Range(Owners[op[p].key]) : items[t][op[p].key] = op[p].item
  <2>1. CASE op[p].pc = "fanout"
    BY <1>1, <1>2, <2>1 DEF WriteOK
  <2>2. CASE op[p].pc \in {"wait", "local"}
    BY <1>2, <1>3, <1>4, <2>2 DEF HandlerOK
  <2> QED
    BY <1>1, <2>1, <2>2
<1>6. op'[p] = Idle
  BY <1>1, <1>2
<1> QED
  BY <1>1, <1>2, <1>3, <1>5, <1>6, WriteEnds

(* No forward fails on a healthy network. *)
LEMMA ForwardErrorSeq ==
  ASSUME IInv, SeqInv, NEW p \in Procs, \A q \in Procs : q = p,
         ForwardUnreachable(p) \/ ForwardTimeout(p)
  PROVE  SeqInv'
<1> SUFFICES ASSUME Healthy' PROVE SeqInv'
  BY DEF SeqInv
<1>1. CASE ForwardTimeout(p)
  BY <1>1, FaultsShow DEF ForwardTimeout
<1>2. CASE ForwardUnreachable(p)
  <2>1. op[p].pc = "forward" /\ UNCHANGED used
    BY <1>2 DEF ForwardUnreachable
  <2>2. QuietNet
    BY <2>1, WriteState
  <2> QED
    BY <1>2, <2>2, AllReachable DEF ForwardUnreachable
<1> QED
  BY <1>1, <1>2

LEMMA StampSeq ==
  ASSUME IInv, SeqInv, NEW p \in Procs, \A q \in Procs : q = p, Stamp(p)
  PROVE  SeqInv'
<1> SUFFICES ASSUME Healthy' PROVE SeqInv'
  BY DEF SeqInv
<1> DEFINE o == op[p]
           it == [val |-> o.item.val, version |-> versionCounter[o.node] + 1,
                  origin |-> o.node]
<1>1. /\ o.pc = "stamp" /\ op' = [op EXCEPT ![p].pc = "apply", ![p].item = it]
      /\ UNCHANGED <<items, last, tasks, hints, isolated, used>>
  BY DEF Stamp, hintVars, netVars
<1>2. /\ o \in Op /\ op \in [Procs -> Op]
      /\ o.kind \in {"set", "remove"} /\ Writing(o) /\ QuietNet
      /\ WriteOK(p) /\ HandlerOK(p)
  BY <1>1, WriteState
<1>3. o.kind = "set"
  BY <1>1, Running DEF OpOK
<1>4. it.val = o.item.val
  OBVIOUS
<1> HIDE DEF it
<1>5. /\ op'[p].pc = "apply" /\ op'[p].kind = "set" /\ op'[p].key = o.key
      /\ op'[p].item = it /\ op'[p].node = o.node
  BY <1>1, <1>2, <1>3 DEF Op
<1>6. WriteOK(p)' /\ ReadOK(p)'
  BY <1>1, <1>2, <1>4, <1>5 DEF WriteOK, ReadOK, Writing
<1>7. HandlerOK(p)'
  BY <1>1, <1>2, <1>5 DEF HandlerOK
<1>8. Writing(op'[p])
  BY <1>5 DEF Writing
<1> QED
  BY <1>1, <1>2, <1>5, <1>6, <1>7, <1>8, WriteGoesOn DEF CallOK

(* A copy that arrives at an owner of its key is the one it then holds, and *)
(* no other copy changes.                                                   *)
LEMMA Arrived ==
  ASSUME IInv, NEW kind \in {"set", "remove"}, NEW n \in Nodes, NEW k \in Keys,
         NEW it \in Item, n \in Range(Owners[k]), kind = "remove" => it = NoItem,
         Put(n, k, it) \/ Arrive(kind, n, k, it)
  PROVE  /\ UNCHANGED last
         /\ items'[n][k] = it
         /\ \A t \in Nodes : t # n => items'[t] = items[t]
         /\ \A j \in Keys : j # k => \A t \in Nodes : items'[t][j] = items[t][j]
<1>1. items \in [Nodes -> [Keys -> Item]]
  BY DEF IInv, StorePart, StoreTypeOK
<1>2. items' = [items EXCEPT ![n][k] = it] /\ UNCHANGED last
  BY DEF Put, Arrive, applySet, applyForwardedSet, applyRemove, ownsKeyInternal
<1> QED
  BY <1>1, <1>2

LEMMA ApplySeq ==
  ASSUME IInv, PathInv, SeqInv, NEW p \in Procs, \A q \in Procs : q = p, Apply(p)
  PROVE  SeqInv'
<1> SUFFICES ASSUME Healthy' PROVE SeqInv'
  BY DEF SeqInv
<1> DEFINE o == op[p]
           td == FanoutTargets(o.node, o.key, o.promoted)
<1>1. /\ o.pc = "apply" /\ Put(o.node, o.key, o.item)
      /\ op' = [op EXCEPT ![p].pc = "fanout", ![p].acks = 1, ![p].todo = td]
      /\ UNCHANGED <<tasks, hints, isolated, used>>
  BY DEF Apply, hintVars, netVars
<1>2. /\ o \in Op /\ op \in [Procs -> Op]
      /\ o.key \in Keys /\ o.node \in Nodes /\ o.item \in Item
      /\ o.kind \in {"set", "remove"} /\ Writing(o) /\ QuietNet
      /\ WriteOK(p) /\ HandlerOK(p)
  BY <1>1, WriteState
<1>3. o.kind = "set" /\ o.node = primary(o.key) /\ o.node \in Range(Owners[o.key])
  BY <1>1, <1>2, Running, OwnersSplit DEF OpOK, WriteOK
<1>4. Range(Owners[o.key]) \ td \subseteq {o.node}
  BY <1>2, <1>3, OwnersSplit DEF FanoutTargets
<1> HIDE DEF td
<1>5. /\ op'[p].pc = "fanout" /\ op'[p].kind = "set" /\ op'[p].key = o.key
      /\ op'[p].item = o.item /\ op'[p].node = o.node /\ op'[p].todo = td
  BY <1>1, <1>2, <1>3 DEF Op
<1>6. /\ UNCHANGED last /\ items'[o.node][o.key] = o.item
      /\ \A j \in Keys : j # o.key => \A t \in Nodes : items'[t][j] = items[t][j]
  BY <1>1, <1>2, <1>3, Arrived
<1>7. WriteOK(p)' /\ ReadOK(p)'
  BY <1>1, <1>2, <1>3, <1>4, <1>5, <1>6 DEF WriteOK, ReadOK, Writing
<1>8. HandlerOK(p)'
  BY <1>1, <1>2, <1>5 DEF HandlerOK
<1>9. Writing(op'[p])
  BY <1>5 DEF Writing
<1> QED
  BY <1>1, <1>2, <1>5, <1>6, <1>7, <1>8, <1>9, WriteGoesOn DEF CallOK


LEMMA FanoutSeq ==
  ASSUME IInv, PathInv, SeqInv, NEW p \in Procs, \A q \in Procs : q = p,
         FanoutAck(p) \/ FanoutError(p)
  PROVE  SeqInv'
<1> SUFFICES ASSUME Healthy' PROVE SeqInv'
  BY DEF SeqInv
<1> DEFINE o == op[p]
<1>1. o.pc = "fanout" /\ UNCHANGED <<isolated>>
  BY DEF FanoutAck, FanoutError, netVars
<1>2. UNCHANGED used
  <2>1. CASE Use("timeouts")
    BY <2>1, FaultsShow
  <2> QED
    BY <2>1 DEF FanoutAck, FanoutError, ArriveLate
<1>3. /\ o \in Op /\ op \in [Procs -> Op]
      /\ o.key \in Keys /\ o.node \in Nodes /\ o.item \in Item
      /\ o.kind \in {"set", "remove"} /\ Writing(o) /\ QuietNet
      /\ WriteOK(p) /\ HandlerOK(p)
  BY <1>1, <1>2, WriteState
<1>4. FanoutAck(p)
  <2>1. CASE FanoutError(p)
    <3>1. Use("timeouts")
      BY <1>3, <2>1, AllReachable DEF FanoutError, ArriveLate
    <3> QED
      BY <3>1, FaultsShow
  <2> QED
    BY <2>1
<1>5. PICK t \in Nodes :
        /\ IsNext(t, o.key, o.todo)
        /\ Arrive("set", t, o.key, o.item)
        /\ op' = [op EXCEPT ![p].todo = @ \ {t}, ![p].acks = @ + 1]
  BY <1>4 DEF FanoutAck
<1>6. UNCHANGED <<tasks, hints>>
  BY <1>4 DEF FanoutAck, hintVars
<1>7. t \in Range(Owners[o.key]) /\ o.kind = "set"
  BY <1>1, <1>5, OnPath DEF PathOK, OpOK, IsNext
<1>8. /\ op'[p].pc = "fanout" /\ op'[p].kind = "set" /\ op'[p].key = o.key
      /\ op'[p].item = o.item /\ op'[p].node = o.node /\ op'[p].todo = o.todo \ {t}
  BY <1>1, <1>3, <1>5, <1>7 DEF Op
<1>9. /\ UNCHANGED last /\ items'[t][o.key] = o.item
      /\ \A u \in Nodes : u # t => items'[u] = items[u]
      /\ \A j \in Keys : j # o.key => \A u \in Nodes : items'[u][j] = items[u][j]
  BY <1>3, <1>5, <1>7, Arrived
<1>10. \A u \in Range(Owners[o.key]) \ (o.todo \ {t}) : items'[u][o.key] = o.item
  BY <1>1, <1>3, <1>9, OwnersType DEF WriteOK
<1>11. WriteOK(p)' /\ ReadOK(p)'
  BY <1>1, <1>3, <1>8, <1>9, <1>10 DEF WriteOK, ReadOK, Writing
<1>12. HandlerOK(p)'
  BY <1>1, <1>3, <1>6, <1>8 DEF HandlerOK
<1>13. Writing(op'[p])
  BY <1>8 DEF Writing
<1> QED
  BY <1>1, <1>2, <1>3, <1>6, <1>8, <1>9, <1>11, <1>12, <1>13, WriteGoesOn DEF CallOK

(* The handler of the call visits the owners one by one. *)
LEMMA HandlerSeq ==
  ASSUME IInv, PathInv, SeqInv, \A q, r \in Procs : q = r, NEW s \in Slots,
         HandlerStep(s) \/ HandlerStepLate(s)
  PROVE  SeqInv'
<1> SUFFICES ASSUME Healthy' PROVE SeqInv'
  BY DEF SeqInv
<1>1. HandlerStep(s)
  BY FaultsShow DEF HandlerStepLate
<1>2. UNCHANGED <<op, hints, isolated, used>>
  BY <1>1 DEF HandlerStep, hintVars, netVars
<1>3. QuietNet /\ \A q \in Procs : CallOK(q)
  BY <1>2, StaysHealthy DEF SeqInv
<1>4. PICK d \in Nodes :
        /\ NextHop(tasks[s], d)
        /\ \/ CanReach(tasks[s].at, d) /\ Arrive(tasks[s].kind, d, tasks[s].key, tasks[s].item)
           \/ ~CanReach(tasks[s].at, d) /\ StoreUnchanged
        /\ tasks' = [tasks EXCEPT ![s] = RestOf(tasks[s], d)]
  BY <1>1 DEF HandlerStep
<1>5. d \in tasks[s].todo
  BY <1>4 DEF NextHop
<1>6. tasks[s] # NoTask
  BY <1>5 DEF NoTask
<1>7. s \in Procs /\ op[s].pc \in {"wait", "local"}
  BY <1>3, <1>6 DEF Slots, QuietNet, CallOK, HandlerOK
<1> DEFINE o == op[s]
           h == tasks[s]
<1>8. /\ o \in Op /\ op \in [Procs -> Op]
      /\ o.kind \in {"set", "remove"}
      /\ o.key \in Keys /\ o.node \in Nodes /\ o.item \in Item
      /\ Writing(o)
      /\ WriteOK(s) /\ HandlerOK(s)
      /\ s \notin LateCalls /\ tasks \in [Slots -> Task]
  BY <1>2, <1>7, WriteState
<1>9. h.kind = o.kind /\ h.key = o.key /\ h.item = o.item /\ h \in Task
  BY <1>6, <1>7, <1>8 DEF HandlerOK
<1>10. Arrive(o.kind, d, o.key, o.item)
  BY <1>3, <1>4, <1>9, AllReachable
<1>11. /\ tasks'[s] = RestOf(h, d)
       /\ \A r \in LateCalls : tasks'[r] = tasks[r]
  BY <1>4, <1>8 DEF Slots
<1>12. /\ RestOf(h, d).todo = h.todo \ {d}
       /\ \/ RestOf(h, d) = NoTask
          \/ /\ RestOf(h, d).kind = o.kind /\ RestOf(h, d).key = o.key
             /\ RestOf(h, d).item = o.item
  <2>1. CASE h.todo = {d}
    <3>1. RestOf(h, d) = NoTask /\ NoTask.todo = {}
      BY <2>1 DEF RestOf, NoTask
    <3> QED
      BY <2>1, <3>1
  <2>2. CASE h.todo # {d}
    BY <1>9, <2>2 DEF RestOf, Task
  <2> QED
    BY <2>1, <2>2
<1>13. \A u \in Range(Owners[o.key]) \ h.todo : items[u][o.key] = o.item
  BY <1>7, <1>8 DEF HandlerOK
<1>14. o.kind = "remove" => o.item = NoItem
  BY <1>8 DEF WriteOK
<1>15. /\ UNCHANGED last
       /\ \A j \in Keys : j # o.key => \A u \in Nodes : items'[u][j] = items[u][j]
       /\ \A u \in Range(Owners[o.key]) \ (h.todo \ {d}) : items'[u][o.key] = o.item
  <2>1. CASE d \in Range(Owners[o.key])
    <3>1. /\ UNCHANGED last
          /\ items'[d][o.key] = o.item
          /\ \A u \in Nodes : u # d => items'[u] = items[u]
          /\ \A j \in Keys : j # o.key => \A u \in Nodes : items'[u][j] = items[u][j]
      BY <1>8, <1>10, <1>14, <2>1, Arrived
    <3> QED
      BY <1>8, <1>13, <3>1, OwnersType
  <2>2. CASE d \notin Range(Owners[o.key])
    <3>1. items \in [Nodes -> [Keys -> Item]]
      BY DEF IInv, StorePart, StoreTypeOK
    <3>2. /\ UNCHANGED last
          /\ UNCHANGED items \/ items' = [items EXCEPT ![d][o.key] = NoItem]
      BY <1>10, <2>2 DEF Arrive, applyForwardedSet, applyRemove, ownsKeyInternal
    <3>3. \A u \in Nodes : \A j \in Keys : u # d \/ j # o.key => items'[u][j] = items[u][j]
      BY <3>1, <3>2
    <3> QED
      BY <1>8, <1>13, <2>2, <3>2, <3>3, OwnersType
  <2> QED
    BY <2>1, <2>2
<1>16. op'[s] = o
  BY <1>2
<1> HIDE DEF o, h
<1>17. WriteOK(s)' /\ ReadOK(s)'
  BY <1>2, <1>7, <1>8, <1>15, <1>16 DEF WriteOK, ReadOK, Writing, o
<1>18. HandlerOK(s)'
  BY <1>2, <1>7, <1>11, <1>12, <1>15, <1>16 DEF HandlerOK, o
<1>19. /\ Writing(op[s]) /\ Writing(op'[s]) /\ op'[s].key = op[s].key
       /\ \A j \in Keys : j # op[s].key => \A u \in Nodes : items'[u][j] = items[u][j]
  BY <1>2, <1>8, <1>15 DEF o
<1> QED
  BY <1>2, <1>7, <1>11, <1>15, <1>17, <1>18, <1>19, WriteGoesOn DEF CallOK

-----------------------------------------------------------------------------
LEMMA InitSeq == Init => SeqInv
<1> SUFFICES ASSUME Init PROVE SeqInv
  OBVIOUS
<1>1. QuietNet
  BY DEF Init, QuietNet, Slots
<1>2. UnwrittenSettled
  BY OwnersType, NoItemVal DEF Init, StoreInit, UnwrittenSettled, Settled
<1>3. \A p \in Procs : op[p] = Idle /\ tasks[p] = NoTask
  BY DEF Init, Slots
<1>4. \A p \in Procs : CallOK(p)
  BY <1>3, IdleType DEF CallOK, WriteOK, HandlerOK, ReadOK, Writing
<1> QED
  BY <1>1, <1>2, <1>4 DEF SeqInv

LEMMA NextSeq ==
  ASSUME IInv, PathInv, SeqInv, \A p, q \in Procs : p = q, [Next]_vars
  PROVE  SeqInv'
<1>1. CASE UNCHANGED vars
  <2>1. UNCHANGED <<items, last, op, tasks, hints, isolated, used>>
    BY <1>1 DEF vars, callVars, storeVars, hintVars, netVars
  <2> QED
    BY <2>1, SeqFrame
<1>2. CASE \E p \in Procs, n \in Nodes, k \in Keys :
             BeginSet(p, n, k) \/ SetDraining(p, n, k)
             \/ BeginRemove(p, n, k) \/ BeginGet(p, n, k)
  BY <1>2, BeginSetSeq, SetDrainingSeq, BeginRemoveSeq, BeginGetSeq
<1>3. CASE \E p \in Procs : CallStep(p) \/ ForwardTimeout(p)
  BY <1>3, ForwardSeq, ReturnSeq, ForwardErrorSeq, StampSeq, ApplySeq, FanoutSeq,
     ReadOneSeq, ReadQuorumSeq, ReadEndSeq, RepairSeq DEF CallStep
<1>4. CASE \E s \in Slots : HandlerStep(s) \/ HandlerStepLate(s)
  BY <1>4, HandlerSeq
<1>5. CASE \E n \in Nodes : StartReplay(n) \/ \E t \in Nodes : ReplayHint(n, t)
  BY <1>5, NetSeq
<1>6. CASE \E n \in Nodes : Drain(n) \/ Isolate(n) \/ Heal(n)
  BY <1>6, NetSeq
<1> QED
  BY <1>1, <1>2, <1>3, <1>4, <1>5, <1>6 DEF Next

(***************************************************************************)
(* Calls made one after the other take effect in that order, for every     *)
(* cluster, ring, consistency level and number of calls: with one caller,  *)
(* and as long as no node has been cut off and no call has timed out,      *)
(* every owner holds what the last Set or Remove left whenever no call is  *)
(* running, whichever node the calls were made on and whatever getOne and  *)
(* the quorum reads repaired in between.                                   *)
(***************************************************************************)
THEOREM SequentialEffect ==
  (\A p, q \in Procs : p = q) =>
    (Spec => [](Healthy => SequentialCallsTakeEffect))
<1> SUFFICES ASSUME \A p, q \in Procs : p = q
             PROVE  Spec => [](Healthy => SequentialCallsTakeEffect)
  OBVIOUS
<1>1. Init => IInv /\ PathInv /\ SeqInv
  BY InitIInv, InitPath, InitSeq
<1>2. IInv /\ PathInv /\ SeqInv /\ [Next]_vars => (IInv /\ PathInv /\ SeqInv)'
  BY NextIInv, NextPath, NextSeq
<1>3. SeqInv => (Healthy => SequentialCallsTakeEffect)
  <2> SUFFICES ASSUME SeqInv, Healthy, \A p \in Procs : op[p] = Idle,
                      NEW k \in Keys, NEW t \in Range(Owners[k])
               PROVE  items[t][k].val = last[k]
    BY DEF SequentialCallsTakeEffect
  <2>1. Settled(k)
    BY IdleType DEF SeqInv, UnwrittenSettled, Writing
  <2> QED
    BY <2>1 DEF Settled
<1> QED
  BY <1>1, <1>2, <1>3, PTL DEF Spec
=============================================================================
