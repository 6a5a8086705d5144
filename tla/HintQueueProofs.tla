-------------------------- MODULE HintQueueProofs --------------------------
(***************************************************************************)
(* Proofs about the hint queue, for any number of targets and writers, any *)
(* sizes and any caps: the state is well typed, and as long as the byte    *)
(* cap and the per-node cap are not used together, the running count is    *)
(* exact and the two count caps bound the queue.                           *)
(***************************************************************************)
EXTENDS HintQueue, SumLemmas, FiniteSetTheorems, TLAPS

(***************************************************************************)
(* The inductive invariant.  An entry's id is never ahead of the number of *)
(* queueHint calls and names one entry, so a new entry is not one of those *)
(* already there; the queue is finite.                                     *)
(***************************************************************************)
FreshIds == /\ \A h \in hints : h.id <= calls
            /\ \A g, h \in hints : g.id = h.id => g = h
FiniteQueue == IsFiniteSet(hints)

CapInv == TypeOK /\ FiniteQueue /\ FreshIds /\ CountExact /\ CapsHold

LEMMA ClampedNat == \A x \in Int : Clamped(x) \in Nat /\ (x >= 0 => Clamped(x) = x)
  BY DEF Clamped

LEMMA TypeInit == Init => TypeOK
  BY CapsAssumption
  DEF Init, TypeOK, Pass, NoPass, Quiet, Writer, Counters, Sources

LEMMA TypeNext == TypeOK /\ [Next]_vars => TypeOK'
<1> SUFFICES ASSUME TypeOK, [Next]_vars PROVE TypeOK'
  OBVIOUS
<1> USE CapsAssumption DEF TypeOK
<1>0. CASE UNCHANGED vars
  BY <1>0 DEF vars
<1>1. ASSUME NEW w \in Writers, NEW t \in Targets, NEW size \in Sizes,
             NEW source \in Sources, QueueHint(w, t, size, source)
      PROVE  TypeOK'
  <2>1. ASSUME NEW out \in SUBSET hints, NEW n \in Nat, Cardinality(out) \in Nat,
               Enqueue(w, t, size, source, out, n)
        PROVE  /\ hints' \in SUBSET Entry
               /\ hintTotal' \in Nat
               /\ hintBytes' \in Nat
               /\ writer' \in [Writers -> Writer]
               /\ dropped' \in Nat
    <3>1. size \in Nat
      OBVIOUS
    <3>2. calls + 1 \in 1..MaxHints
      BY <1>1 DEF QueueHint
    <3>3. [id |-> calls + 1, node |-> t, size |-> size, source |-> source,
           old |-> FALSE] \in Entry
      BY <3>2 DEF Entry
    <3> DEFINE total == Clamped(hintTotal - Cardinality(out))
               bytes == Clamped(hintBytes - n)
    <3>4. total \in Nat /\ bytes \in Nat
      BY <2>1, ClampedNat
    <3>5. [pc |-> "refused", bytes |-> 0, source |-> source] \in Writer
      BY DEF Writer
    <3>6. [pc |-> "queued", bytes |-> bytes + size, source |-> source] \in Writer
      BY <3>1, <3>4 DEF Writer
    <3> HIDE DEF total, bytes
    <3>7. CASE /\ hintTotal' = total
               /\ hintBytes' = bytes
               /\ writer' = [writer EXCEPT ![w] =
                       [pc |-> "refused", bytes |-> 0, source |-> source]]
               /\ UNCHANGED <<hints, dropped>>
      BY <3>4, <3>5, <3>7
    <3>8. CASE /\ hints' = (hints \ out)
                     \cup {[id |-> calls + 1, node |-> t, size |-> size,
                            source |-> source, old |-> FALSE]}
               /\ hintTotal' = total + 1
               /\ hintBytes' = bytes + size
               /\ writer' = [writer EXCEPT ![w] =
                       [pc |-> "queued", bytes |-> bytes + size,
                        source |-> source]]
               /\ dropped' = dropped + Cardinality(out)
      <4>1. hints' \in SUBSET Entry
        BY <3>3, <3>8
      <4>2. hintTotal' \in Nat /\ hintBytes' \in Nat /\ dropped' \in Nat
        BY <2>1, <3>1, <3>4, <3>8
      <4>3. writer' \in [Writers -> Writer]
        BY <3>6, <3>8
      <4> QED
        BY <4>1, <4>2, <4>3
    <3> QED
      BY <2>1, <3>7, <3>8 DEF Enqueue, total, bytes
  <2>2. Cardinality({}) = 0 /\ \A h : Cardinality({h}) = 1
    BY FS_EmptySet, FS_Singleton
  <2>3. CASE ~Full(t) /\ Enqueue(w, t, size, source, {}, 0)
    BY <2>1, <2>2, <2>3, <1>1 DEF QueueHint
  <2>4. CASE \E h \in Queue(t) : Enqueue(w, t, size, source, {h}, h.size)
    <3>1. PICK h \in Queue(t) : Enqueue(w, t, size, source, {h}, h.size)
      BY <2>4
    <3>2. h \in hints /\ h.size \in Nat
      BY <3>1 DEF Queue, Entry
    <3>a. {h} \in SUBSET hints
      BY <3>2
    <3>b. Cardinality({h}) = 1
      BY <2>2
    <3>3. {h} \in SUBSET hints /\ Cardinality({h}) \in Nat
      BY <3>a, <3>b
    <3>4. /\ hints' \in SUBSET Entry
          /\ hintTotal' \in Nat
          /\ hintBytes' \in Nat
          /\ writer' \in [Writers -> Writer]
          /\ dropped' \in Nat
      BY <2>1, <3>1, <3>2, <3>3
    <3> QED
      BY <3>4, <1>1 DEF QueueHint
  <2> QED
    BY <1>1, <2>3, <2>4 DEF QueueHint
<1>2. ASSUME NEW w \in Writers, PublishQueued(w) PROVE TypeOK'
  BY <1>2 DEF PublishQueued, Writer, Quiet, Counters, Sources
<1>3. ASSUME NEW w \in Writers, PublishRefused(w) PROVE TypeOK'
  BY <1>3 DEF PublishRefused, Count, Writer, Quiet, Counters, Sources
<1>4. CASE BeginPass
  <2>1. Ids(hints) \subseteq 1..MaxHints
    BY DEF Ids, Entry
  <2>2. Ids({h \in hints : h.old}) \subseteq 1..MaxHints
    BY DEF Ids, Entry
  <2> QED
    BY <1>4, <2>1, <2>2 DEF BeginPass, Pass
<1>5. CASE EndPass
  BY <1>5 DEF EndPass, NoPass, Pass, Counters
<1>6. ASSUME NEW h \in hints, ExpireHint(h) PROVE TypeOK'
  <2>1. h \in Entry
    OBVIOUS
  <2>2. Tried(h) \in Pass
    BY <2>1 DEF Tried, Pass, Entry
  <2> QED
    BY <1>6, <2>1, <2>2 DEF ExpireHint, Leaves, Clamped, Count, Counters, Entry
<1>7. ASSUME NEW h \in hints, DeliverHint(h) PROVE TypeOK'
  <2>1. h \in Entry
    OBVIOUS
  <2>2. Tried(h) \in Pass
    BY <2>1 DEF Tried, Pass, Entry
  <2> QED
    BY <1>7, <2>1, <2>2 DEF DeliverHint, Leaves, Clamped, Count, Counters, Entry
<1>8. ASSUME NEW h \in hints, KeepHint(h) PROVE TypeOK'
  <2>1. h \in Entry
    OBVIOUS
  <2>2. Tried(h) \in Pass
    BY <2>1 DEF Tried, Pass, Entry
  <2> QED
    BY <1>8, <2>2 DEF KeepHint
<1>9. ASSUME NEW h \in hints, GrowOld(h) PROVE TypeOK'
  BY <1>9 DEF GrowOld, Entry
<1> QED
  BY <1>0, <1>1, <1>2, <1>3, <1>4, <1>5, <1>6, <1>7, <1>8, <1>9 DEF Next

(***************************************************************************)
(* The queue and its bookkeeping are well typed in every reachable state:  *)
(* in particular queueHint and the replay pass never take the totals below *)
(* zero.                                                                   *)
(***************************************************************************)
THEOREM TypeCorrect == Spec => []TypeOK
  BY TypeInit, TypeNext, PTL DEF Spec

-----------------------------------------------------------------------------
(* Counting: a set that loses x and gains y has as many elements as before. *)
LEMMA CountSwap ==
  ASSUME NEW S, IsFiniteSet(S), NEW x \in S, NEW y, y \notin S \ {x}
  PROVE  /\ IsFiniteSet((S \ {x}) \cup {y})
         /\ Cardinality((S \ {x}) \cup {y}) = Cardinality(S)
<1>1. IsFiniteSet(S \ {x}) /\ Cardinality(S \ {x}) = Cardinality(S) - 1
  BY FS_RemoveElement
<1>2. /\ IsFiniteSet((S \ {x}) \cup {y})
      /\ Cardinality((S \ {x}) \cup {y}) = Cardinality(S \ {x}) + 1
  BY <1>1, FS_AddElement
<1>3. Cardinality(S) \in Nat
  BY FS_CardinalityType
<1> QED
  BY <1>1, <1>2, <1>3

(* A target's queue is finite, and no shorter than what is left of it. *)
LEMMA QueueFinite ==
  ASSUME FiniteQueue, NEW t
  PROVE  IsFiniteSet(Queue(t)) /\ Cardinality(Queue(t)) \in Nat
<1>1. Queue(t) \subseteq hints
  BY DEF Queue
<1> QED
  BY <1>1, FS_Subset, FS_CardinalityType DEF FiniteQueue

LEMMA QueueShrinks ==
  ASSUME FiniteQueue, NEW t, Queue(t)' \subseteq Queue(t), MaxPerNode \in Nat,
         Cardinality(Queue(t)) <= MaxPerNode
  PROVE  Cardinality(Queue(t)') <= MaxPerNode
<1>1. IsFiniteSet(Queue(t)) /\ Cardinality(Queue(t)) \in Nat
  BY QueueFinite
<1>2. IsFiniteSet(Queue(t)') /\ Cardinality(Queue(t)') <= Cardinality(Queue(t))
  BY <1>1, FS_Subset
<1>3. Cardinality(Queue(t)') \in Nat
  BY <1>2, FS_CardinalityType
<1> QED
  BY <1>1, <1>2, <1>3

(* What an entry's departure does to the invariant. *)
LEMMA LeavesKeepsCaps ==
  ASSUME CapInv, NEW h \in hints, Leaves(h), UNCHANGED calls
  PROVE  (FiniteQueue /\ FreshIds /\ CountExact /\ CapsHold)'
<1> USE CapsAssumption DEF CapInv
<1>1. hints' = hints \ {h}
  BY DEF Leaves
<1>2. IsFiniteSet(hints') /\ Cardinality(hints') = Cardinality(hints) - 1
  BY <1>1, FS_RemoveElement DEF FiniteQueue
<1>3. Cardinality(hints) \in Nat /\ Cardinality(hints') \in Nat
  BY <1>2, FS_CardinalityType DEF FiniteQueue
<1>4. FreshIds'
  BY <1>1 DEF FreshIds
<1>5. CountExact'
  <2>1. hintTotal - 1 \in Int /\ hintTotal - 1 >= 0
    BY <1>2, <1>3 DEF CountExact
  <2>2. hintTotal' = hintTotal - 1
    BY <2>1, ClampedNat DEF Leaves
  <2> QED
    BY <2>2, <1>2 DEF CountExact
<1>6. ASSUME MaxPerNode > 0, NEW t \in Targets
      PROVE  Cardinality(Queue(t)') <= MaxPerNode
  <2>1. Queue(t)' \subseteq Queue(t)
    BY <1>1 DEF Queue
  <2>2. Cardinality(Queue(t)) <= MaxPerNode
    BY <1>6 DEF CapsHold
  <2> QED
    BY <2>1, <2>2, QueueShrinks
<1>7. MaxTotal > 0 => Cardinality(hints') <= MaxTotal
  BY <1>2, <1>3 DEF CapsHold
<1> QED
  BY <1>2, <1>4, <1>5, <1>6, <1>7 DEF FiniteQueue, CapsHold

(* What a queueHint does to it, when the two caps are not used together. *)
LEMMA EnqueueKeepsCaps ==
  ASSUME CapInv, MaxBytes = 0 \/ MaxPerNode = 0,
         NEW w \in Writers, NEW t \in Targets, NEW size \in Sizes,
         NEW source \in Sources, QueueHint(w, t, size, source)
  PROVE  (FiniteQueue /\ FreshIds /\ CountExact /\ CapsHold)'
<1> USE CapsAssumption DEF CapInv
<1> DEFINE new == [id |-> calls + 1, node |-> t, size |-> size,
                   source |-> source, old |-> FALSE]
<1>1. new \notin hints /\ calls' = calls + 1 /\ calls \in Nat
  BY DEF FreshIds, QueueHint, TypeOK
<1>2. Cardinality(hints) \in Nat /\ hintTotal = Cardinality(hints)
  BY FS_CardinalityType DEF FiniteQueue, CountExact
<1>3. IsFiniteSet(Queue(t)) /\ Cardinality(Queue(t)) \in Nat /\ new \notin Queue(t)
  BY <1>1, QueueFinite DEF Queue
<1>4. ASSUME NEW S, S \subseteq hints, hints' = S \cup {new} PROVE FreshIds'
  <2>1. new.id = calls + 1
    OBVIOUS
  <2>2. \A h \in hints : h.id \in Nat
    BY DEF TypeOK, Entry
  <2> HIDE DEF new
  <2> QED
    BY <1>1, <1>4, <2>1, <2>2 DEF FreshIds
<1>5. ASSUME NEW S, S \subseteq hints, hints' = S \cup {new}, NEW u \in Targets,
             u # t, MaxPerNode > 0
      PROVE  Cardinality(Queue(u)') <= MaxPerNode
  <2>1. Queue(u)' \subseteq Queue(u)
    BY <1>5 DEF Queue
  <2> QED
    BY <2>1, <1>5, QueueShrinks DEF CapsHold
<1>6. CASE ~Full(t) /\ Enqueue(w, t, size, source, {}, 0)
  <2>1. Clamped(hintTotal - Cardinality({})) = hintTotal
    BY <1>2, ClampedNat, FS_EmptySet
  <2>2. CASE /\ hintTotal' = Clamped(hintTotal - Cardinality({}))
             /\ UNCHANGED hints
    <3>1. hintTotal' = hintTotal /\ hints' = hints
      BY <2>1, <2>2
    <3>2. FreshIds'
      BY <1>1, <3>1 DEF FreshIds, TypeOK, Entry
    <3> QED
      BY <3>1, <3>2 DEF FiniteQueue, CountExact, CapsHold, Queue
  <2>3. CASE /\ ~Refused(Clamped(hintTotal - Cardinality({})),
                         Clamped(hintBytes - 0), size)
             /\ hints' = (hints \ {}) \cup {new}
             /\ hintTotal' = Clamped(hintTotal - Cardinality({})) + 1
    <3>1. hints' = hints \cup {new} /\ hintTotal' = hintTotal + 1
      BY <2>1, <2>3
    <3>2. IsFiniteSet(hints') /\ Cardinality(hints') = Cardinality(hints) + 1
      BY <1>1, <3>1, FS_AddElement DEF FiniteQueue
    <3>3. MaxTotal > 0 => Cardinality(hints') <= MaxTotal
      BY <1>2, <2>1, <2>3, <3>2 DEF Refused
    <3>4. ASSUME MaxPerNode > 0 PROVE Cardinality(Queue(t)') <= MaxPerNode
      <4>1. Queue(t)' = Queue(t) \cup {new}
        BY <3>1 DEF Queue
      <4>2. Cardinality(Queue(t)') = Cardinality(Queue(t)) + 1
        BY <1>3, <4>1, FS_AddElement
      <4> QED
        BY <1>3, <1>6, <3>4, <4>2 DEF Full
    <3>5. FreshIds'
      BY <1>4, <3>1
    <3>6. \A u \in Targets : MaxPerNode > 0 => Cardinality(Queue(u)') <= MaxPerNode
      BY <1>5, <3>1, <3>4
    <3> QED
      BY <1>2, <3>1, <3>2, <3>3, <3>5, <3>6 DEF FiniteQueue, CountExact, CapsHold
  <2> QED
    BY <1>6, <2>2, <2>3 DEF Enqueue
<1>7. ASSUME Full(t), NEW h \in Queue(t),
             Enqueue(w, t, size, source, {h}, h.size)
      PROVE  (FiniteQueue /\ FreshIds /\ CountExact /\ CapsHold)'
  <2>1. h \in hints /\ MaxPerNode > 0 /\ MaxBytes = 0
    BY <1>7 DEF Queue, Full
  <2>2. hints # {} /\ Cardinality(hints) # 0
    BY <2>1, FS_EmptySet DEF FiniteQueue
  <2>3. Cardinality({h}) = 1
    BY FS_Singleton
  <2>4. Clamped(hintTotal - Cardinality({h})) = Cardinality(hints) - 1
    BY <1>2, <2>2, <2>3, ClampedNat
  <2>5. CASE Refused(Clamped(hintTotal - Cardinality({h})),
                     Clamped(hintBytes - h.size), size)
    BY <1>2, <2>1, <2>4, <2>5 DEF Refused, CapsHold
  <2>6. CASE /\ ~Refused(Clamped(hintTotal - Cardinality({h})),
                         Clamped(hintBytes - h.size), size)
             /\ hints' = (hints \ {h}) \cup {new}
             /\ hintTotal' = Clamped(hintTotal - Cardinality({h})) + 1
    <3>1. hintTotal' = Cardinality(hints)
      BY <1>2, <2>4, <2>6
    <3>2. IsFiniteSet(hints') /\ Cardinality(hints') = Cardinality(hints)
      BY <1>1, <2>1, <2>6, CountSwap DEF FiniteQueue
    <3>3. MaxTotal > 0 => Cardinality(hints') <= MaxTotal
      BY <3>2 DEF CapsHold
    <3>4. Cardinality(Queue(t)') <= MaxPerNode
      <4>1. Queue(t)' = (Queue(t) \ {h}) \cup {new}
        BY <2>6 DEF Queue
      <4> HIDE DEF new
      <4>2. Cardinality((Queue(t) \ {h}) \cup {new}) = Cardinality(Queue(t))
        BY <1>3, CountSwap
      <4> QED
        BY <2>1, <4>1, <4>2 DEF CapsHold
    <3>5. FreshIds'
      BY <1>4, <2>6
    <3>6. \A u \in Targets : MaxPerNode > 0 => Cardinality(Queue(u)') <= MaxPerNode
      BY <1>5, <2>6, <3>4
    <3> QED
      BY <3>1, <3>2, <3>3, <3>5, <3>6 DEF FiniteQueue, CountExact, CapsHold
  <2> QED
    BY <1>7, <2>5, <2>6 DEF Enqueue
<1> QED
  BY <1>6, <1>7 DEF QueueHint

(* Growing old changes an entry, not the number of entries. *)
LEMMA GrowOldKeepsCaps ==
  ASSUME CapInv, NEW h \in hints, GrowOld(h)
  PROVE  (FiniteQueue /\ FreshIds /\ CountExact /\ CapsHold)'
<1> USE CapsAssumption DEF CapInv
<1> DEFINE older == [h EXCEPT !.old = TRUE]
<1>1. hints' = (hints \ {h}) \cup {older} /\ UNCHANGED <<hintTotal, calls>>
  BY DEF GrowOld
<1>2. h \in Entry /\ older.id = h.id /\ older.node = h.node
  BY DEF TypeOK, Entry
<1> HIDE DEF older
<1>3. older \notin hints \ {h}
  BY <1>2 DEF FreshIds
<1>4. IsFiniteSet(hints') /\ Cardinality(hints') = Cardinality(hints)
  BY <1>1, <1>3, CountSwap DEF FiniteQueue
<1>5. FreshIds'
  BY <1>1, <1>2 DEF FreshIds
<1>6. ASSUME MaxPerNode > 0, NEW t \in Targets
      PROVE  Cardinality(Queue(t)') <= MaxPerNode
  <2>1. CASE h.node = t
    <3>1. Queue(t)' = (Queue(t) \ {h}) \cup {older} /\ h \in Queue(t)
      BY <1>1, <1>2, <2>1 DEF Queue
    <3>2. older \notin Queue(t) \ {h}
      BY <1>3 DEF Queue
    <3>3. Cardinality(Queue(t)') = Cardinality(Queue(t))
      BY <3>1, <3>2, QueueFinite, CountSwap
    <3> QED
      BY <1>6, <3>3 DEF CapsHold
  <2>2. CASE h.node # t
    <3>1. Queue(t)' \subseteq Queue(t)
      BY <1>1, <1>2, <2>2 DEF Queue
    <3> QED
      BY <1>6, <3>1, QueueShrinks DEF CapsHold
  <2> QED
    BY <2>1, <2>2
<1> QED
  BY <1>1, <1>4, <1>5, <1>6 DEF FiniteQueue, CountExact, CapsHold

LEMMA CapInvInit == Init => CapInv
<1> SUFFICES ASSUME Init PROVE CapInv
  OBVIOUS
<1>1. hints = {} /\ hintTotal = 0 /\ \A t : Queue(t) = {}
  BY DEF Init, Queue
<1>2. IsFiniteSet({}) /\ Cardinality({}) = 0
  BY FS_EmptySet
<1> QED
  BY <1>1, <1>2, TypeInit, CapsAssumption
  DEF CapInv, FiniteQueue, FreshIds, CountExact, CapsHold

LEMMA CapInvNext ==
  ASSUME MaxBytes = 0 \/ MaxPerNode = 0, CapInv, [Next]_vars
  PROVE  CapInv'
<1>1. TypeOK'
  BY TypeNext DEF CapInv
<1>2. ASSUME UNCHANGED <<hints, hintTotal, calls>>
      PROVE  (FiniteQueue /\ FreshIds /\ CountExact /\ CapsHold)'
  BY <1>2 DEF CapInv, FiniteQueue, FreshIds, CountExact, CapsHold, Queue
<1>3. ASSUME NEW w \in Writers, NEW t \in Targets, NEW size \in Sizes,
             NEW source \in Sources, QueueHint(w, t, size, source)
      PROVE  (FiniteQueue /\ FreshIds /\ CountExact /\ CapsHold)'
  BY <1>3, EnqueueKeepsCaps
<1>4. ASSUME NEW h \in hints, ExpireHint(h) \/ DeliverHint(h)
      PROVE  (FiniteQueue /\ FreshIds /\ CountExact /\ CapsHold)'
  BY <1>4, LeavesKeepsCaps DEF ExpireHint, DeliverHint
<1>5. ASSUME NEW h \in hints, GrowOld(h)
      PROVE  (FiniteQueue /\ FreshIds /\ CountExact /\ CapsHold)'
  BY <1>5, GrowOldKeepsCaps
<1>6. CASE \/ UNCHANGED vars
           \/ \E w \in Writers : PublishQueued(w) \/ PublishRefused(w)
           \/ BeginPass \/ EndPass
           \/ \E h \in hints : KeepHint(h)
  <2>1. UNCHANGED <<hints, hintTotal, calls>>
    BY <1>6 DEF vars, PublishQueued, PublishRefused, BeginPass, EndPass, KeepHint
  <2> QED
    BY <1>1, <1>2, <2>1 DEF CapInv
<1> QED
  BY <1>1, <1>3, <1>4, <1>5, <1>6 DEF Next, CapInv

(***************************************************************************)
(* For any targets, writers, sizes and caps: as long as a byte cap and a   *)
(* per-node cap are not configured together, hintTotal is the number of    *)
(* queued hints and the count caps of queueHint bound the queue.  With     *)
(* both, the refusal that follows a push-out breaks it (BytesBounded).     *)
(***************************************************************************)
THEOREM CapsCorrect ==
  ASSUME MaxBytes = 0 \/ MaxPerNode = 0
  PROVE  Spec => [](CountExact /\ CapsHold)
<1>1. CapInv /\ [Next]_vars => CapInv'
  BY CapInvNext
<1>2. CapInv => CountExact /\ CapsHold
  BY DEF CapInv
<1> QED
  BY <1>1, <1>2, CapInvInit, PTL DEF Spec

-----------------------------------------------------------------------------
(***************************************************************************)
(* Bytes.                                                                  *)
(***************************************************************************)

(* The bytes of a finite set of entries are a natural; they lose what an    *)
(* entry that leaves has and gain what a new one has.                       *)
LEMMA BytesNat ==
  ASSUME NEW S \in SUBSET Entry, IsFiniteSet(S)
  PROVE  Bytes(S) \in Nat
<1> DEFINE f == [h \in S |-> h.size]
<1>1. \A x \in S : f[x] \in Nat
  BY CapsAssumption DEF Entry
<1>2. Bytes(S) = SumFunctionOnSet(f, S)
  BY DEF Bytes, SumFunction
<1> HIDE DEF f
<1> QED
  BY <1>1, <1>2, SumType

LEMMA BytesRemove ==
  ASSUME NEW S \in SUBSET Entry, IsFiniteSet(S), NEW h \in S
  PROVE  Bytes(S) = h.size + Bytes(S \ {h})
<1>0. \A x \in S : x.size \in Nat
  BY CapsAssumption DEF Entry
<1> DEFINE f == [e \in S |-> e.size]
           g == [e \in S \ {h} |-> e.size]
<1>1. \A x \in S : f[x] \in Int
  BY <1>0
<1>2. \A x \in S \ {h} : g[x] \in Int /\ g[x] = f[x]
  BY <1>0
<1>3. Bytes(S) = SumFunctionOnSet(f, S) /\ f[h] = h.size
  BY DEF Bytes, SumFunction
<1>4. Bytes(S \ {h}) = SumFunctionOnSet(g, S \ {h})
  BY DEF Bytes, SumFunction
<1> HIDE DEF f, g
<1>5. IsFiniteSet(S \ {h})
  BY FS_RemoveElement
<1>6. SumFunctionOnSet(g, S \ {h}) = SumFunctionOnSet(f, S \ {h})
  BY <1>2, <1>5, SumEqual
<1>7. SumFunctionOnSet(f, S) = f[h] + SumFunctionOnSet(f, S \ {h})
  BY <1>1, SumRemove
<1> QED
  BY <1>3, <1>4, <1>6, <1>7

LEMMA BytesAdd ==
  ASSUME NEW S \in SUBSET Entry, IsFiniteSet(S), NEW h \in Entry, h \notin S
  PROVE  Bytes(S \cup {h}) = Bytes(S) + h.size
<1>1. IsFiniteSet(S \cup {h}) /\ S \cup {h} \in SUBSET Entry
  BY FS_AddElement
<1>2. (S \cup {h}) \ {h} = S
  OBVIOUS
<1>3. Bytes(S \cup {h}) = h.size + Bytes(S)
  BY <1>1, <1>2, BytesRemove
<1>4. Bytes(S) \in Nat /\ h.size \in Nat
  BY BytesNat, CapsAssumption DEF Entry
<1> QED
  BY <1>3, <1>4

BytesInv == CapInv /\ BytesExact

(* An entry that leaves takes its bytes with it; the clamp is not reached. *)
LEMMA LeavesKeepsBytes ==
  ASSUME BytesInv, NEW h \in hints, Leaves(h)
  PROVE  BytesExact'
<1>1. hints \in SUBSET Entry /\ IsFiniteSet(hints) /\ hintBytes = Bytes(hints)
  BY DEF BytesInv, CapInv, TypeOK, FiniteQueue, BytesExact
<1>2. IsFiniteSet(hints \ {h}) /\ hints \ {h} \in SUBSET Entry
  BY <1>1, FS_RemoveElement
<1>3. Bytes(hints) = h.size + Bytes(hints \ {h})
  BY <1>1, BytesRemove
<1>4. Bytes(hints \ {h}) \in Nat /\ h.size \in Nat
  BY <1>1, <1>2, BytesNat, CapsAssumption DEF Entry
<1>5. hintBytes - h.size \in Int /\ hintBytes - h.size >= 0
      /\ hintBytes - h.size = Bytes(hints \ {h})
  BY <1>1, <1>3, <1>4
<1>6. hints' = hints \ {h} /\ hintBytes' = hintBytes - h.size
  BY <1>5, ClampedNat DEF Leaves
<1> QED
  BY <1>5, <1>6 DEF BytesExact

(* A queueHint accounts for what it pushes out and what it lets in. *)
LEMMA EnqueueKeepsBytes ==
  ASSUME BytesInv, MaxBytes = 0 \/ MaxPerNode = 0,
         NEW w \in Writers, NEW t \in Targets, NEW size \in Sizes,
         NEW source \in Sources, QueueHint(w, t, size, source)
  PROVE  BytesExact'
<1> DEFINE new == [id |-> calls + 1, node |-> t, size |-> size,
                   source |-> source, old |-> FALSE]
<1>1. hints \in SUBSET Entry /\ IsFiniteSet(hints) /\ hintBytes = Bytes(hints)
  BY DEF BytesInv, CapInv, TypeOK, FiniteQueue, BytesExact
<1>2. new \in Entry /\ new \notin hints /\ new.size = size /\ size \in Nat
  BY CapsAssumption DEF BytesInv, CapInv, TypeOK, FreshIds, QueueHint, Entry
<1>3. Bytes(hints) \in Nat
  BY <1>1, BytesNat
<1>4. CASE ~Full(t) /\ Enqueue(w, t, size, source, {}, 0)
  <2>1. Clamped(hintBytes - 0) = hintBytes
    BY <1>1, <1>3, ClampedNat
  <2>2. CASE hintBytes' = Clamped(hintBytes - 0) /\ UNCHANGED hints
    BY <1>1, <2>1, <2>2 DEF BytesExact
  <2>3. CASE /\ hints' = (hints \ {}) \cup {new}
             /\ hintBytes' = Clamped(hintBytes - 0) + size
    <3>1. hints' = hints \cup {new}
      BY <2>3
    <3> HIDE DEF new
    <3> QED
      BY <1>1, <1>2, <2>1, <2>3, <3>1, BytesAdd DEF BytesExact
  <2> QED
    BY <1>4, <2>2, <2>3 DEF Enqueue
<1>5. ASSUME Full(t), NEW h \in Queue(t), Enqueue(w, t, size, source, {h}, h.size)
      PROVE  BytesExact'
  <2>1. h \in hints /\ MaxPerNode > 0 /\ MaxBytes = 0
    BY <1>5, CapsAssumption DEF Queue, Full
  <2>2. IsFiniteSet(hints \ {h}) /\ hints \ {h} \in SUBSET Entry
    BY <1>1, FS_RemoveElement
  <2>3. Bytes(hints) = h.size + Bytes(hints \ {h})
    BY <1>1, <2>1, BytesRemove
  <2>4. Bytes(hints \ {h}) \in Nat /\ h.size \in Nat
    BY <1>1, <2>1, <2>2, BytesNat, CapsAssumption DEF Entry
  <2>5. hintBytes - h.size \in Int /\ hintBytes - h.size >= 0
        /\ hintBytes - h.size = Bytes(hints \ {h})
    BY <1>1, <2>3, <2>4
  <2>6. Clamped(hintBytes - h.size) = Bytes(hints \ {h})
    BY <2>5, ClampedNat
  <2>7. ~Refused(Clamped(hintTotal - Cardinality({h})), Clamped(hintBytes - h.size), size)
    <3>1. hintTotal = Cardinality(hints) /\ Cardinality(hints) \in Nat
      BY <1>1, FS_CardinalityType DEF BytesInv, CapInv, CountExact
    <3>2. Cardinality({h}) = 1 /\ Cardinality(hints) # 0
      BY <1>1, <2>1, FS_Singleton, FS_EmptySet
    <3>3. Clamped(hintTotal - Cardinality({h})) = Cardinality(hints) - 1
      BY <3>1, <3>2, ClampedNat
    <3>4. MaxTotal > 0 => Cardinality(hints) <= MaxTotal
      BY DEF BytesInv, CapInv, CapsHold
    <3> QED
      BY <2>1, <3>1, <3>3, <3>4, CapsAssumption DEF Refused
  <2>8. hints' = (hints \ {h}) \cup {new} /\ hintBytes' = Bytes(hints \ {h}) + size
    BY <1>5, <2>6, <2>7 DEF Enqueue
  <2> HIDE DEF new
  <2> QED
    BY <1>2, <2>2, <2>8, BytesAdd DEF BytesExact
<1> QED
  BY <1>4, <1>5 DEF QueueHint

(* Growing old changes an entry, not its bytes. *)
LEMMA GrowOldKeepsBytes ==
  ASSUME BytesInv, NEW h \in hints, GrowOld(h)
  PROVE  BytesExact'
<1> DEFINE older == [h EXCEPT !.old = TRUE]
<1>1. hints \in SUBSET Entry /\ IsFiniteSet(hints) /\ hintBytes = Bytes(hints)
  BY DEF BytesInv, CapInv, TypeOK, FiniteQueue, BytesExact
<1>2. hints' = (hints \ {h}) \cup {older} /\ hintBytes' = hintBytes
  BY DEF GrowOld
<1>3. older \in Entry /\ older.id = h.id /\ older.size = h.size /\ h.size \in Nat
  BY <1>1, CapsAssumption DEF Entry
<1> HIDE DEF older
<1>4. older \notin hints \ {h}
  BY <1>3 DEF BytesInv, CapInv, FreshIds
<1>5. IsFiniteSet(hints \ {h}) /\ hints \ {h} \in SUBSET Entry
  BY <1>1, FS_RemoveElement
<1>6. Bytes(hints') = Bytes(hints \ {h}) + h.size
  BY <1>2, <1>3, <1>4, <1>5, BytesAdd
<1>7. Bytes(hints) = h.size + Bytes(hints \ {h}) /\ Bytes(hints \ {h}) \in Nat
  BY <1>1, <1>5, BytesRemove, BytesNat
<1> QED
  BY <1>1, <1>2, <1>3, <1>6, <1>7 DEF BytesExact

LEMMA BytesInvNext ==
  ASSUME MaxBytes = 0 \/ MaxPerNode = 0, BytesInv, [Next]_vars
  PROVE  BytesInv'
<1>1. CapInv'
  BY CapInvNext DEF BytesInv
<1>2. ASSUME NEW w \in Writers, NEW t \in Targets, NEW size \in Sizes,
             NEW source \in Sources, QueueHint(w, t, size, source)
      PROVE  BytesExact'
  BY <1>2, EnqueueKeepsBytes
<1>3. ASSUME NEW h \in hints, ExpireHint(h) \/ DeliverHint(h)
      PROVE  BytesExact'
  BY <1>3, LeavesKeepsBytes DEF ExpireHint, DeliverHint
<1>4. ASSUME NEW h \in hints, GrowOld(h)
      PROVE  BytesExact'
  BY <1>4, GrowOldKeepsBytes
<1>5. CASE \/ UNCHANGED vars
           \/ \E w \in Writers : PublishQueued(w) \/ PublishRefused(w)
           \/ BeginPass \/ EndPass
           \/ \E h \in hints : KeepHint(h)
  <2>1. UNCHANGED <<hints, hintBytes>>
    BY <1>5 DEF vars, PublishQueued, PublishRefused, BeginPass, EndPass, KeepHint
  <2> QED
    BY <1>1, <2>1 DEF BytesInv, BytesExact
<1> QED
  BY <1>1, <1>2, <1>3, <1>4, <1>5 DEF Next, BytesInv

(***************************************************************************)
(* For any targets, writers, sizes and caps, as long as a byte cap and a   *)
(* per-node cap are not configured together: hintTotal counts the queued   *)
(* hints and hintBytes sums their sizes, so adjustHintAccounting never has *)
(* to clamp a total at zero.                                               *)
(***************************************************************************)
THEOREM AccountingCorrect ==
  ASSUME MaxBytes = 0 \/ MaxPerNode = 0
  PROVE  Spec => []Accounting
<1>1. Init => BytesInv
  <2> SUFFICES ASSUME Init PROVE BytesExact
    BY CapInvInit DEF BytesInv
  <2>1. hints = {} /\ hintBytes = 0
    BY DEF Init
  <2>2. Bytes({}) = 0
    <3> DEFINE f == [h \in {} |-> h.size]
    <3>1. Bytes({}) = SumFunctionOnSet(f, {})
      BY DEF Bytes, SumFunction
    <3> QED
      BY <3>1, SumEmpty
  <2> QED
    BY <2>1, <2>2 DEF BytesExact
<1>2. BytesInv /\ [Next]_vars => BytesInv'
  BY BytesInvNext
<1>3. BytesInv => Accounting
  BY DEF BytesInv, CapInv, Accounting
<1> QED
  BY <1>1, <1>2, <1>3, PTL DEF Spec

-----------------------------------------------------------------------------
(***************************************************************************)
(* The counters, whatever the caps.                                        *)
(***************************************************************************)
Reporting == {w \in Writers : writer[w].pc = "queued"}

QueueInv == TypeOK /\ FiniteQueue /\ FreshIds

AddUpInv == QueueInv /\ CountersAddUp

(* The property in terms of the set of writers about to report. *)
AddUp == metrics["queued"] + Cardinality(Reporting)
           = metrics["replayed"] + metrics["expired"] + dropped + Cardinality(hints)

LEMMA AddUpCounts == (CountersAddUp <=> AddUp) /\ (CountersAddUp' <=> AddUp')
  BY DEF CountersAddUp, AddUp, Reporting

(* An entry's id and size are naturals. *)
LEMMA EntryNats == \A h \in Entry : h.id \in Nat /\ h.size \in Nat
<1>1. \A h \in Entry : h.id \in Nat
  BY CapsAssumption DEF Entry
<1>2. \A h \in Entry : h.size \in Nat
  BY CapsAssumption DEF Entry
<1> QED
  BY <1>1, <1>2

(* How many writers are about to report a hint, before and after a step of  *)
(* one of them.                                                             *)
LEMMA ReportingStep ==
  ASSUME TypeOK, NEW w \in Writers, NEW r \in Writer,
         writer' = [writer EXCEPT ![w] = r]
  PROVE  /\ Cardinality(Reporting) \in Nat /\ Cardinality(Reporting') \in Nat
         /\ writer[w].pc = "queued" /\ r.pc # "queued"
              => Cardinality(Reporting) = Cardinality(Reporting') + 1
         /\ writer[w].pc # "queued" /\ r.pc # "queued"
              => Cardinality(Reporting) = Cardinality(Reporting')
         /\ writer[w].pc # "queued" /\ r.pc = "queued"
              => Cardinality(Reporting') = Cardinality(Reporting) + 1
<1>1. IsFiniteSet(Reporting) /\ Cardinality(Reporting) \in Nat
  BY CapsAssumption, FS_Subset, FS_CardinalityType DEF Reporting
<1>2. \A v \in Writers : writer'[v] = IF v = w THEN r ELSE writer[v]
  BY DEF TypeOK
<1>3. CASE r.pc = "queued"
  <2>1. Reporting' = Reporting \cup {w}
    BY <1>2, <1>3 DEF Reporting
  <2>2. w \in Reporting <=> writer[w].pc = "queued"
    BY DEF Reporting
  <2>3. /\ IsFiniteSet(Reporting')
        /\ Cardinality(Reporting') = IF w \in Reporting THEN Cardinality(Reporting)
                                     ELSE Cardinality(Reporting) + 1
    BY <1>1, <2>1, FS_AddElement
  <2> QED
    BY <1>1, <1>3, <2>2, <2>3
<1>4. CASE r.pc # "queued"
  <2>1. Reporting' = Reporting \ {w}
    BY <1>2, <1>4 DEF Reporting
  <2>2. w \in Reporting <=> writer[w].pc = "queued"
    BY DEF Reporting
  <2>3. /\ IsFiniteSet(Reporting')
        /\ Cardinality(Reporting') = IF w \in Reporting THEN Cardinality(Reporting) - 1
                                     ELSE Cardinality(Reporting)
    BY <1>1, <2>1, FS_RemoveElement
  <2>4. Cardinality(Reporting') \in Nat
    BY <2>3, FS_CardinalityType
  <2> QED
    BY <1>1, <1>4, <2>2, <2>3, <2>4
<1> QED
  BY <1>3, <1>4

(* A queueHint that is let in puts one entry in, and what it pushes out is  *)
(* counted; one that is refused leaves the entries alone.                   *)
LEMMA EnqueueAddsUp ==
  ASSUME AddUpInv, NEW w \in Writers, NEW t \in Targets, NEW size \in Sizes,
         NEW source \in Sources, QueueHint(w, t, size, source)
  PROVE  (FiniteQueue /\ FreshIds /\ CountersAddUp)'
<1> USE CapsAssumption
<1> DEFINE new == [id |-> calls + 1, node |-> t, size |-> size,
                   source |-> source, old |-> FALSE]
<1>1. /\ TypeOK /\ IsFiniteSet(hints) /\ FreshIds /\ CountersAddUp
      /\ calls \in Nat /\ calls' = calls + 1 /\ metrics' = metrics
      /\ writer[w].pc # "queued" /\ new \notin hints /\ new.id = calls + 1
      /\ dropped \in Nat /\ hintBytes \in Nat /\ hintTotal \in Nat
      /\ \A h \in hints : h.id \in Nat /\ h.size \in Nat
  <2>1. TypeOK /\ IsFiniteSet(hints) /\ FreshIds /\ CountersAddUp
    BY DEF AddUpInv, QueueInv, FiniteQueue
  <2>2. \A h \in hints : h.id \in Nat /\ h.size \in Nat
    BY <2>1, EntryNats DEF TypeOK
  <2>3. calls' = calls + 1 /\ metrics' = metrics /\ writer[w].pc # "queued"
    BY DEF QueueHint
  <2>4. calls \in Nat /\ dropped \in Nat /\ hintBytes \in Nat /\ hintTotal \in Nat
    BY <2>1 DEF TypeOK
  <2>5. new.id = calls + 1
    OBVIOUS
  <2>6. new \notin hints
    <3> HIDE DEF new
    <3> QED
      BY <2>1, <2>2, <2>4, <2>5 DEF FreshIds
  <2> QED
    BY <2>1, <2>2, <2>3, <2>4, <2>5, <2>6
<1>2. PICK out \in SUBSET hints, n \in Nat :
        /\ IsFiniteSet(out)
        /\ Enqueue(w, t, size, source, out, n)
        /\ out = {} \/ \E h \in hints : out = {h}
  <2>1. CASE ~Full(t) /\ Enqueue(w, t, size, source, {}, 0)
    BY <2>1, FS_EmptySet
  <2>2. ASSUME NEW h \in Queue(t), Enqueue(w, t, size, source, {h}, h.size)
        PROVE  \E out \in SUBSET hints, n \in Nat :
                  /\ IsFiniteSet(out)
                  /\ Enqueue(w, t, size, source, out, n)
                  /\ out = {} \/ \E g \in hints : out = {g}
    <3>1. h \in hints /\ h.size \in Nat /\ {h} \in SUBSET hints
      BY <1>1 DEF Queue
    <3>2. IsFiniteSet({h})
      BY FS_Singleton
    <3> QED
      BY <2>2, <3>1, <3>2
  <2> QED
    BY <2>1, <2>2 DEF QueueHint
<1>3. Cardinality(hints) \in Nat /\ metrics["queued"] \in Nat
      /\ metrics["replayed"] \in Nat /\ metrics["expired"] \in Nat
  BY <1>1, FS_CardinalityType DEF TypeOK, Counters
<1>sum. metrics["queued"] + Cardinality(Reporting)
          = metrics["replayed"] + metrics["expired"] + dropped + Cardinality(hints)
  BY <1>1, AddUpCounts DEF AddUp
<1>bytes. Clamped(hintBytes - n) \in Nat
  BY <1>1, ClampedNat
<1> DEFINE r == [pc |-> "refused", bytes |-> 0, source |-> source]
           q == [pc |-> "queued", bytes |-> Clamped(hintBytes - n) + size,
                 source |-> source]
<1>4. r \in Writer /\ q \in Writer /\ r.pc # "queued" /\ q.pc = "queued"
  BY <1>bytes DEF Writer
<1>5. CASE /\ writer' = [writer EXCEPT ![w] = r]
           /\ UNCHANGED <<hints, dropped>>
  <2>1. Cardinality(Reporting') = Cardinality(Reporting)
    <3> HIDE DEF r
    <3> QED
      BY <1>1, <1>4, <1>5, ReportingStep
  <2>2. FreshIds'
    BY <1>1, <1>5 DEF FreshIds
  <2> QED
    BY <1>1, <1>sum, <1>5, <2>1, <2>2, AddUpCounts DEF FiniteQueue, AddUp
<1>6. CASE /\ hints' = (hints \ out) \cup {new}
           /\ writer' = [writer EXCEPT ![w] = q]
           /\ dropped' = dropped + Cardinality(out)
  <2>1. Cardinality(Reporting') = Cardinality(Reporting) + 1
        /\ Cardinality(Reporting) \in Nat
    <3> HIDE DEF q
    <3> QED
      BY <1>1, <1>4, <1>6, ReportingStep
  <2>2. /\ IsFiniteSet(hints \ out) /\ Cardinality(out) \in Nat
        /\ Cardinality(hints \ out) = Cardinality(hints) - Cardinality(out)
    <3>1. CASE out = {}
      <4>1. hints \ {} = hints
        OBVIOUS
      <4> QED
        BY <1>1, <1>3, <3>1, <4>1, FS_EmptySet
    <3>2. ASSUME NEW h \in hints, out = {h}
          PROVE  /\ IsFiniteSet(hints \ out) /\ Cardinality(out) \in Nat
                 /\ Cardinality(hints \ out) = Cardinality(hints) - Cardinality(out)
      <4>1. Cardinality(out) = 1
        BY <3>2, FS_Singleton
      <4>2. IsFiniteSet(hints \ {h}) /\ Cardinality(hints \ {h}) = Cardinality(hints) - 1
        BY <1>1, FS_RemoveElement
      <4> QED
        BY <3>2, <4>1, <4>2
    <3> QED
      BY <1>2, <3>1, <3>2
  <2>3. new \notin hints \ out
    BY <1>1
  <2>4. /\ IsFiniteSet(hints')
        /\ Cardinality(hints') = Cardinality(hints) - Cardinality(out) + 1
    <3> HIDE DEF new
    <3> QED
      BY <1>6, <2>2, <2>3, FS_AddElement
  <2>5. FreshIds'
    <3> HIDE DEF new
    <3> QED
      BY <1>1, <1>6 DEF FreshIds
  <2>6. metrics["queued"] + Cardinality(Reporting')
          = metrics["replayed"] + metrics["expired"] + dropped' + Cardinality(hints')
    BY <1>1, <1>3, <1>sum, <1>6, <2>1, <2>2, <2>4
  <2> QED
    BY <1>1, <2>4, <2>5, <2>6, AddUpCounts DEF FiniteQueue, AddUp
<1> QED
  BY <1>2, <1>5, <1>6 DEF Enqueue

(* An entry a pass takes out is counted as replayed or as expired. *)
LEMMA LeavesAddsUp ==
  ASSUME AddUpInv, NEW h \in hints, ExpireHint(h) \/ DeliverHint(h)
  PROVE  (FiniteQueue /\ FreshIds /\ CountersAddUp)'
<1>1. /\ metrics \in [Counters -> Nat] /\ IsFiniteSet(hints) /\ dropped \in Nat
      /\ Cardinality(hints) \in Nat
  BY FS_CardinalityType DEF AddUpInv, QueueInv, TypeOK, FiniteQueue
<1>2. /\ hints' = hints \ {h} /\ UNCHANGED <<writer, calls, dropped>>
      /\ metrics'["queued"] = metrics["queued"]
      /\ metrics'["replayed"] + metrics'["expired"]
           = metrics["replayed"] + metrics["expired"] + 1
  BY <1>1 DEF ExpireHint, DeliverHint, Leaves, Count, Counters
<1>3. IsFiniteSet(hints') /\ Cardinality(hints') = Cardinality(hints) - 1
  BY <1>1, <1>2, FS_RemoveElement
<1>4. FreshIds'
  BY <1>2 DEF FreshIds, AddUpInv, QueueInv
<1>5. Reporting' = Reporting /\ Cardinality(Reporting) \in Nat
  BY <1>2, CapsAssumption, FS_Subset, FS_CardinalityType DEF Reporting
<1>6. metrics["queued"] + Cardinality(Reporting)
        = metrics["replayed"] + metrics["expired"] + dropped + Cardinality(hints)
  BY AddUpCounts DEF AddUpInv, AddUp
<1>7. /\ metrics["queued"] \in Nat /\ metrics["replayed"] \in Nat
      /\ metrics["expired"] \in Nat
  BY <1>1 DEF Counters
<1>8. metrics'["queued"] + Cardinality(Reporting')
        = metrics'["replayed"] + metrics'["expired"] + dropped' + Cardinality(hints')
  BY <1>1, <1>2, <1>3, <1>5, <1>6, <1>7
<1> QED
  BY <1>3, <1>4, <1>8, AddUpCounts DEF FiniteQueue, AddUp

(* Publishing moves a hint from the writer to the counter. *)
LEMMA PublishAddsUp ==
  ASSUME AddUpInv, NEW w \in Writers, PublishQueued(w) \/ PublishRefused(w)
  PROVE  (FiniteQueue /\ FreshIds /\ CountersAddUp)'
<1>1. /\ TypeOK /\ metrics \in [Counters -> Nat] /\ IsFiniteSet(hints)
      /\ dropped \in Nat /\ Cardinality(hints) \in Nat
  BY FS_CardinalityType DEF AddUpInv, QueueInv, TypeOK, FiniteQueue
<1>2. Quiet \in Writer /\ Quiet.pc # "queued"
  BY DEF Quiet, Writer, Sources
<1>3. /\ writer' = [writer EXCEPT ![w] = Quiet] /\ UNCHANGED <<hints, calls, dropped>>
      /\ metrics'["replayed"] = metrics["replayed"]
      /\ metrics'["expired"] = metrics["expired"]
      /\ metrics'["queued"] = IF writer[w].pc = "queued" THEN metrics["queued"] + 1
                              ELSE metrics["queued"]
  BY <1>1 DEF PublishQueued, PublishRefused, Count, Counters
<1>4. /\ Cardinality(Reporting) \in Nat /\ Cardinality(Reporting') \in Nat
      /\ Cardinality(Reporting) = IF writer[w].pc = "queued" THEN Cardinality(Reporting') + 1
                                  ELSE Cardinality(Reporting')
  <2> HIDE DEF Quiet
  <2> QED
    BY <1>1, <1>2, <1>3, ReportingStep
<1>5. metrics["queued"] + Cardinality(Reporting)
        = metrics["replayed"] + metrics["expired"] + dropped + Cardinality(hints)
  BY AddUpCounts DEF AddUpInv, AddUp
<1>6. /\ metrics["queued"] \in Nat /\ metrics["replayed"] \in Nat
      /\ metrics["expired"] \in Nat
  BY <1>1 DEF Counters
<1>7. metrics'["queued"] + Cardinality(Reporting')
        = metrics'["replayed"] + metrics'["expired"] + dropped' + Cardinality(hints')
  BY <1>1, <1>3, <1>4, <1>5, <1>6
<1>8. FreshIds'
  BY <1>3 DEF FreshIds, AddUpInv, QueueInv
<1> QED
  BY <1>1, <1>3, <1>7, <1>8, AddUpCounts DEF FiniteQueue, AddUp

(* Growing old changes an entry, not how many there are. *)
LEMMA GrowOldAddsUp ==
  ASSUME AddUpInv, NEW h \in hints, GrowOld(h)
  PROVE  (FiniteQueue /\ FreshIds /\ CountersAddUp)'
<1> DEFINE older == [h EXCEPT !.old = TRUE]
<1>1. /\ hints' = (hints \ {h}) \cup {older}
      /\ UNCHANGED <<writer, metrics, calls, dropped>>
  BY DEF GrowOld
<1>2. /\ IsFiniteSet(hints) /\ FreshIds
      /\ h \in Entry /\ older.id = h.id
  BY DEF AddUpInv, QueueInv, TypeOK, FiniteQueue, Entry
<1> HIDE DEF older
<1>3. older \notin hints \ {h}
  BY <1>2 DEF FreshIds
<1>4. IsFiniteSet(hints') /\ Cardinality(hints') = Cardinality(hints)
  BY <1>1, <1>2, <1>3, CountSwap
<1>5. FreshIds'
  BY <1>1, <1>2 DEF FreshIds
<1> QED
  BY <1>1, <1>4, <1>5 DEF FiniteQueue, CountersAddUp, AddUpInv

LEMMA AddUpNext == AddUpInv /\ [Next]_vars => AddUpInv'
<1> SUFFICES ASSUME AddUpInv, [Next]_vars PROVE AddUpInv'
  OBVIOUS
<1>1. TypeOK'
  BY TypeNext DEF AddUpInv, QueueInv
<1>2. ASSUME NEW w \in Writers, NEW t \in Targets, NEW size \in Sizes,
             NEW source \in Sources, QueueHint(w, t, size, source)
      PROVE  (FiniteQueue /\ FreshIds /\ CountersAddUp)'
  BY <1>2, EnqueueAddsUp
<1>3. ASSUME NEW w \in Writers, PublishQueued(w) \/ PublishRefused(w)
      PROVE  (FiniteQueue /\ FreshIds /\ CountersAddUp)'
  BY <1>3, PublishAddsUp
<1>4. ASSUME NEW h \in hints, ExpireHint(h) \/ DeliverHint(h)
      PROVE  (FiniteQueue /\ FreshIds /\ CountersAddUp)'
  BY <1>4, LeavesAddsUp
<1>5. ASSUME NEW h \in hints, GrowOld(h)
      PROVE  (FiniteQueue /\ FreshIds /\ CountersAddUp)'
  BY <1>5, GrowOldAddsUp
<1>6. CASE UNCHANGED vars \/ BeginPass \/ EndPass \/ \E h \in hints : KeepHint(h)
  <2>1. /\ UNCHANGED <<hints, writer, calls, dropped>>
        /\ \A c \in {"queued", "replayed", "expired"} : metrics'[c] = metrics[c]
    BY <1>6 DEF vars, BeginPass, EndPass, KeepHint, AddUpInv, QueueInv, TypeOK, Counters
  <2>2. Reporting' = Reporting
    BY <2>1 DEF Reporting
  <2>3. CountersAddUp'
    BY <2>1, <2>2, AddUpCounts DEF AddUpInv, AddUp
  <2> QED
    BY <1>1, <2>1, <2>3 DEF AddUpInv, QueueInv, FiniteQueue, FreshIds
<1> QED
  BY <1>1, <1>2, <1>3, <1>4, <1>5, <1>6 DEF Next, AddUpInv, QueueInv

(***************************************************************************)
(* For any targets, writers, sizes and caps, the caps used together        *)
(* included: every hint queueHint reported as queued, or is about to, was  *)
(* replayed, expired, pushed out or is still queued, although the counters *)
(* are published outside hintsMu and after other steps.                    *)
(***************************************************************************)
THEOREM CountersCorrect == Spec => []CountersAddUp
<1>1. Init => AddUpInv
  <2> SUFFICES ASSUME Init PROVE FiniteQueue /\ FreshIds /\ CountersAddUp
    BY TypeInit DEF AddUpInv, QueueInv
  <2>1. /\ hints = {} /\ Reporting = {} /\ dropped = 0
        /\ metrics["queued"] = 0 /\ metrics["replayed"] = 0 /\ metrics["expired"] = 0
    BY DEF Init, Quiet, Reporting, Counters
  <2>2. IsFiniteSet({}) /\ Cardinality({}) = 0
    BY FS_EmptySet
  <2>3. CountersAddUp
    BY <2>1, <2>2, AddUpCounts DEF AddUp
  <2> QED
    BY <2>1, <2>2, <2>3 DEF FiniteQueue, FreshIds
<1>2. AddUpInv => CountersAddUp
  BY DEF AddUpInv
<1> QED
  BY <1>1, <1>2, AddUpNext, PTL DEF Spec
=============================================================================
