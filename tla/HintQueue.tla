----------------------------- MODULE HintQueue -----------------------------
(***************************************************************************)
(* The hint queue of one node (pkg/backend/dist_memory.go): queueHint with *)
(* its three caps and its running totals, the replay pass that holds       *)
(* hintsMu while it calls the targets, and the counters both publish.      *)
(*                                                                         *)
(* DistMemory models what hints do to the stores; here the items are left  *)
(* out and the bookkeeping is kept.  dm.hints is a set of entries with     *)
(* increasing ids: the queue of a target is its entries in id order.       *)
(***************************************************************************)
EXTENDS Integers, FiniteSets, Functions

CONSTANTS Targets,      \* nodes hints are kept for
          Writers,      \* goroutines that queue hints
          Sizes,        \* approxHintSize of the items in play
          MaxPerNode,   \* WithDistHintMaxPerNode, 0 for no cap
          MaxTotal,     \* WithDistHintMaxTotal, 0 for no cap
          MaxBytes,     \* WithDistHintMaxBytes, 0 for no cap
          MaxHints      \* bound on the number of queueHint calls

ASSUME CapsAssumption ==
    /\ Sizes \subseteq Nat
    /\ MaxPerNode \in Nat /\ MaxTotal \in Nat /\ MaxBytes \in Nat
    /\ MaxHints \in Nat
    /\ IsFiniteSet(Writers)

Sources == {"replication", "migration"}

VARIABLES hints,      \* the queued entries
          hintTotal,  \* the running totals kept under hintsMu
          hintBytes,
          pass,       \* the replay pass that holds hintsMu, or NoPass
          writer,     \* writer[w]: what w still has to publish, or Quiet
          metrics,    \* the published counters and the hintedBytes gauge
          calls,      \* queueHint calls so far, also the last id used
          dropped     \* entries pushed out by MaxPerNode (no counter in the code)

vars == <<hints, hintTotal, hintBytes, pass, writer, metrics, calls, dropped>>

Entry == [id : 1..MaxHints, node : Targets, size : Sizes, source : Sources,
          old : BOOLEAN]

\* todo: entries the pass has not tried yet; now: those past their TTL when
\* it read the clock; cur: the targets whose queue it has opened.
Pass == [active : BOOLEAN, todo : SUBSET (1..MaxHints),
         now : SUBSET (1..MaxHints), cur : SUBSET Targets]
NoPass == [active |-> FALSE, todo |-> {}, now |-> {}, cur |-> {}]

Quiet == [pc |-> "idle", bytes |-> 0, source |-> "replication"]
Writer == [pc : {"idle", "queued", "refused"}, bytes : Nat, source : Sources]

Counters == {"queued", "replayed", "expired", "globalDropped",
             "migrationQueued", "migrationReplayed", "migrationExpired",
             "migrationDropped", "bytes"}

(***************************************************************************)
(* The type of the state; the running totals never go below zero.          *)
(***************************************************************************)
TypeOK ==
    /\ hints \in SUBSET Entry
    /\ hintTotal \in Nat
    /\ hintBytes \in Nat
    /\ pass \in Pass
    /\ writer \in [Writers -> Writer]
    /\ metrics \in [Counters -> Nat]
    /\ calls \in 0..MaxHints
    /\ dropped \in Nat

Init ==
    /\ hints = {}
    /\ hintTotal = 0
    /\ hintBytes = 0
    /\ pass = NoPass
    /\ writer = [w \in Writers |-> Quiet]
    /\ metrics = [c \in Counters |-> 0]
    /\ calls = 0
    /\ dropped = 0

-----------------------------------------------------------------------------
Queue(t) == {h \in hints : h.node = t}
IsOldest(h, S) == h \in S /\ \A g \in S : h.id <= g.id
Ids(S) == {h.id : h \in S}

\* adjustHintAccounting: the totals are kept from going below zero.
Clamped(x) == IF x < 0 THEN 0 ELSE x

\* One more of source's events in counter c and in its migration share.
Count(c, migration, source) ==
    metrics' = [metrics EXCEPT ![c] = @ + 1,
                  ![migration] = IF source = "migration" THEN @ + 1 ELSE @]

-----------------------------------------------------------------------------
(***************************************************************************)
(* queueHint.  The oldest entry of a full queue is taken off the totals    *)
(* first; then the global caps are looked at.  When they refuse the new    *)
(* entry, the shortened queue is not written back.                         *)
(***************************************************************************)
\* Mutant: the per-node cap lets one entry too many in.
Full_OffByOne(t) == MaxPerNode > 0 /\ Cardinality(Queue(t)) > MaxPerNode

Full(t) == MaxPerNode > 0 /\ Cardinality(Queue(t)) >= MaxPerNode

Refused(total, bytes, size) ==
    \/ MaxTotal > 0 /\ total >= MaxTotal
    \/ MaxBytes > 0 /\ bytes + size > MaxBytes

\* Mutant: the entry pushed out stays in the totals.
Enqueue_KeepsTotals(w, t, size, source, out, outSize) ==
    /\ ~Refused(hintTotal, hintBytes, size)
    /\ hints' = (hints \ out)
                  \cup {[id |-> calls + 1, node |-> t, size |-> size,
                         source |-> source, old |-> FALSE]}
    /\ hintTotal' = hintTotal + 1
    /\ hintBytes' = hintBytes + size
    /\ writer' = [writer EXCEPT ![w] =
                    [pc |-> "queued", bytes |-> hintBytes', source |-> source]]
    /\ dropped' = dropped + Cardinality(out)

\* The critical section once the entries `out', of outSize bytes, have been
\* pushed out.
Enqueue(w, t, size, source, out, outSize) ==
    LET total == Clamped(hintTotal - Cardinality(out))
        bytes == Clamped(hintBytes - outSize) IN
    \/ /\ Refused(total, bytes, size)
       /\ hintTotal' = total
       /\ hintBytes' = bytes
       /\ writer' = [writer EXCEPT ![w] =
                       [pc |-> "refused", bytes |-> 0, source |-> source]]
       /\ UNCHANGED <<hints, dropped>>
    \/ /\ ~Refused(total, bytes, size)
       /\ hints' = (hints \ out)
                     \cup {[id |-> calls + 1, node |-> t, size |-> size,
                            source |-> source, old |-> FALSE]}
       /\ hintTotal' = total + 1
       /\ hintBytes' = bytes + size
       /\ writer' = [writer EXCEPT ![w] =
                       [pc |-> "queued", bytes |-> bytes + size,
                        source |-> source]]
       /\ dropped' = dropped + Cardinality(out)

QueueHint(w, t, size, source) ==
    /\ writer[w].pc = "idle"
    /\ ~pass.active
    /\ calls < MaxHints
    /\ calls' = calls + 1
    /\ \/ ~Full(t) /\ Enqueue(w, t, size, source, {}, 0)
       \/ Full(t) /\ \E h \in Queue(t) : /\ IsOldest(h, Queue(t))
                                        /\ Enqueue(w, t, size, source, {h}, h.size)
    /\ UNCHANGED <<pass, metrics>>

\* After the unlock: the counters, and the byte total read inside the lock.
PublishQueued(w) ==
    /\ writer[w].pc = "queued"
    /\ metrics' = [metrics EXCEPT
                     !["queued"] = @ + 1,
                     !["bytes"] = writer[w].bytes,
                     !["migrationQueued"] =
                        IF writer[w].source = "migration" THEN @ + 1 ELSE @]
    /\ writer' = [writer EXCEPT ![w] = Quiet]
    /\ UNCHANGED <<hints, hintTotal, hintBytes, pass, calls, dropped>>

PublishRefused(w) ==
    /\ writer[w].pc = "refused"
    /\ Count("globalDropped", "migrationDropped", writer[w].source)
    /\ writer' = [writer EXCEPT ![w] = Quiet]
    /\ UNCHANGED <<hints, hintTotal, hintBytes, pass, calls, dropped>>

-----------------------------------------------------------------------------
(***************************************************************************)
(* replayHints.  The clock is read once, before the first entry; the lock  *)
(* is held until the last.  Targets come in any order, the entries of one  *)
(* target in queue order and without another target's in between.          *)
(***************************************************************************)
BeginPass ==
    /\ ~pass.active
    /\ pass' = [active |-> TRUE, todo |-> Ids(hints),
                now |-> Ids({h \in hints : h.old}), cur |-> {}]
    /\ UNCHANGED <<hints, hintTotal, hintBytes, writer, metrics, calls, dropped>>

NextInPass(h) ==
    LET left(t) == {g \in Queue(t) : g.id \in pass.todo} IN
    /\ pass.active
    /\ IsOldest(h, left(h.node))
    /\ \A t \in pass.cur \ {h.node} : left(t) = {}

Tried(h) == [pass EXCEPT !.todo = @ \ {h.id}, !.cur = @ \cup {h.node}]

\* Mutant: the entry is taken off the totals twice, below zero if need be.
Leaves_Twice(h) ==
    /\ hints' = hints \ {h}
    /\ hintTotal' = hintTotal - 2
    /\ hintBytes' = hintBytes - 2 * h.size

\* The entry leaves the queue and the totals.
Leaves(h) ==
    /\ hints' = hints \ {h}
    /\ hintTotal' = Clamped(hintTotal - 1)
    /\ hintBytes' = Clamped(hintBytes - h.size)

ExpireHint(h) ==
    /\ NextInPass(h)
    /\ h.id \in pass.now
    /\ Leaves(h)
    /\ Count("expired", "migrationExpired", h.source)
    /\ pass' = Tried(h)
    /\ UNCHANGED <<writer, calls, dropped>>

\* Mutant: an entry that was replayed is not counted when it migrated.
DeliverHint_MigrationOnly(h) ==
    /\ NextInPass(h)
    /\ h.id \notin pass.now
    /\ Leaves(h)
    /\ metrics' = IF h.source = "migration"
                  THEN [metrics EXCEPT !["migrationReplayed"] = @ + 1]
                  ELSE [metrics EXCEPT !["replayed"] = @ + 1]
    /\ pass' = Tried(h)
    /\ UNCHANGED <<writer, calls, dropped>>

DeliverHint(h) ==
    /\ NextInPass(h)
    /\ h.id \notin pass.now
    /\ Leaves(h)
    /\ Count("replayed", "migrationReplayed", h.source)
    /\ pass' = Tried(h)
    /\ UNCHANGED <<writer, calls, dropped>>

\* Mutant: an error keeps the entry whatever its age.
KeepHint_IgnoresTTL(h) ==
    /\ NextInPass(h)
    /\ pass' = Tried(h)
    /\ UNCHANGED <<hints, hintTotal, hintBytes, writer, metrics, calls, dropped>>

\* Any error of the call keeps the entry for the next pass.
KeepHint(h) ==
    /\ NextInPass(h)
    /\ h.id \notin pass.now
    /\ pass' = Tried(h)
    /\ UNCHANGED <<hints, hintTotal, hintBytes, writer, metrics, calls, dropped>>

\* Mutant: the pass leaves the gauge to the writers.
EndPass_NoGauge ==
    /\ pass.active
    /\ pass.todo = {}
    /\ pass' = NoPass
    /\ UNCHANGED <<hints, hintTotal, hintBytes, writer, metrics, calls, dropped>>

EndPass ==
    /\ pass.active
    /\ pass.todo = {}
    /\ metrics' = [metrics EXCEPT !["bytes"] = hintBytes]
    /\ pass' = NoPass
    /\ UNCHANGED <<hints, hintTotal, hintBytes, writer, calls, dropped>>

\* Time passes: h is past its TTL.
GrowOld(h) ==
    /\ h \in hints /\ ~h.old
    /\ hints' = (hints \ {h}) \cup {[h EXCEPT !.old = TRUE]}
    /\ UNCHANGED <<hintTotal, hintBytes, pass, writer, metrics, calls, dropped>>

-----------------------------------------------------------------------------
PassStep == \E h \in hints : ExpireHint(h) \/ DeliverHint(h) \/ KeepHint(h)

Next ==
    \/ \E w \in Writers, t \in Targets, size \in Sizes, source \in Sources :
         QueueHint(w, t, size, source)
    \/ \E w \in Writers : PublishQueued(w) \/ PublishRefused(w)
    \/ BeginPass \/ EndPass
    \/ \E h \in hints : ExpireHint(h) \/ DeliverHint(h) \/ KeepHint(h)
    \/ \E h \in hints : GrowOld(h)

Spec == Init /\ [][Next]_vars

(***************************************************************************)
(* The ticker starts a pass again and again, a pass runs to its end, a     *)
(* writer publishes what it queued, and time passes.  Nothing makes a      *)
(* target answer.                                                          *)
(***************************************************************************)
Fairness ==
    /\ WF_vars(BeginPass) /\ WF_vars(PassStep) /\ WF_vars(EndPass)
    /\ \A w \in Writers : WF_vars(PublishQueued(w) \/ PublishRefused(w))
    /\ \A i \in 1..MaxHints :
         WF_vars(\E h \in hints : h.id = i /\ GrowOld(h))

FairSpec == Spec /\ Fairness

-----------------------------------------------------------------------------
(* Properties. *)

Bytes(S) == SumFunction([h \in S |-> h.size])

(***************************************************************************)
(* The running totals are the queue: hintTotal counts the entries and      *)
(* hintBytes sums their sizes, after any mix of pushes out of a full       *)
(* queue, refusals, deliveries and expiries.  The global caps are applied  *)
(* to these totals and not to the queue, so they hold only while this does.*)
(***************************************************************************)
CountExact == hintTotal = Cardinality(hints)
BytesExact == hintBytes = Bytes(hints)
Accounting == CountExact /\ BytesExact

(***************************************************************************)
(* The caps bound what is really queued, per target and in total.          *)
(***************************************************************************)
CapsHold ==
    /\ MaxPerNode > 0 => \A t \in Targets : Cardinality(Queue(t)) <= MaxPerNode
    /\ MaxTotal > 0 => Cardinality(hints) <= MaxTotal

(***************************************************************************)
(* The counters add up: every entry a writer reported as queued, or is     *)
(* about to, was replayed, expired, pushed out by the per-node cap, or is  *)
(* still there.                                                            *)
(***************************************************************************)
CountersAddUp ==
    metrics["queued"] + Cardinality({w \in Writers : writer[w].pc = "queued"})
      = metrics["replayed"] + metrics["expired"] + dropped + Cardinality(hints)

(***************************************************************************)
(* No entry stays for ever, even when its target never answers: the TTL    *)
(* takes it out.                                                           *)
(***************************************************************************)
EveryHintLeaves ==
    \A i \in 1..MaxHints : i \in Ids(hints) ~> i \notin Ids(hints)

(***************************************************************************)
(* The hintedBytes gauge, which a writer stores after it has released the  *)
(* lock and so over a newer value of a pass, comes to agree with the queue.*)
(***************************************************************************)
GaugeCatchesUp == <>[](metrics["bytes"] = hintBytes)

(***************************************************************************)
(* What the operations guide says of WithDistHintMaxBytes: it bounds the   *)
(* bytes of the queued hints.                                              *)
(***************************************************************************)
BytesBounded == MaxBytes > 0 => Bytes(hints) <= MaxBytes
=============================================================================
