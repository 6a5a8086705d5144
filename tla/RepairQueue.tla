---------------------------- MODULE RepairQueue -----------------------------
(***************************************************************************)
(* Batched read repair (pkg/backend/dist_read_repair.go): a read queues    *)
(* the newest copy it saw for every other owner; a queue keeps one copy    *)
(* per peer and key.  A flusher sends what is queued every interval and    *)
(* once more when the node stops; a peer whose batch is full is flushed at *)
(* once by a goroutine nobody waits for.                                   *)
(***************************************************************************)
EXTENDS ClusterStore

CONSTANT MaxBatchSize

ASSUME RepairAssumption == MaxBatchSize \in Nat \ {0}

VARIABLES entries,   \* entries[n][p]: what n has queued for p
          flusher,   \* flusher[n]: the flusher goroutine
          sending,   \* repairs taken from a queue and not yet sent
          late       \* <<n, p, k>>: queued while n was stopping

repairVars == <<entries, flusher, sending, late>>

Empty == [k \in Keys |-> NoItem]

\* pc: wait, flush, or gone; peers: still to flush; last: it is the flush of
\* stop; asked: stop has been called.
RepairInit ==
    /\ entries = [n \in Nodes |-> [p \in Nodes |-> Empty]]
    /\ flusher = [n \in Nodes |->
           [pc |-> "wait", peers |-> {}, last |-> FALSE, asked |-> FALSE]]
    /\ sending = {}
    /\ late = {}

Queued(n, p) == {k \in Keys : Present(entries[n][p][k])}

\* What flushPeer detaches; waited: the flusher waits for it.
Batch(n, p, q, waited) ==
    {[from |-> n, to |-> p, key |-> k, item |-> q[k], waited |-> waited] :
        k \in {j \in Keys : Present(q[j])}}

\* enqueue for every peer of P: a copy at least as new stays, and a full batch
\* is detached at once.
enqueue(n, P, k, it) ==
    LET q == [p \in Nodes |->
            IF p \in P /\ Newer(it, entries[n][p][k]) THEN [entries[n][p] EXCEPT ![k] = it]
            ELSE entries[n][p]]
        full == {p \in P : /\ q[p] # entries[n][p]
                           /\ Cardinality({j \in Keys : Present(q[p][j])}) >= MaxBatchSize}
    IN  /\ entries' = [entries EXCEPT ![n] =
               [p \in Nodes |-> IF p \in full THEN Empty ELSE q[p]]]
        /\ sending' = sending \cup UNION {Batch(n, p, q[p], FALSE) : p \in full}
        /\ late' = IF flusher[n].asked THEN late \cup {<<n, p, k>> : p \in P} ELSE late

\* A read at level ALL: the newest copy of the owners, repaired here at once
\* (repairLocalReplica) and queued for every other owner (repairReplicas).
ReadRepair(n, k) ==
    LET owners == Range(Lookup(n, k))
        held == {items[o][k] : o \in owners} \ {NoItem}
    IN  /\ Running("repair") /\ n \in scenario.active /\ Spend("reads")
        /\ k \in scenario.keys /\ n \in owners /\ held # {}
        /\ flusher[n].pc # "gone"
        /\ LET chosen == CHOOSE a \in held : \A b \in held : ~Newer(b, a)
           IN  /\ applySet(IF items[n][k] = NoItem \/ Newer(chosen, items[n][k])
                           THEN {n} ELSE {}, k, chosen)
               /\ enqueue(n, owners \ {n}, k, chosen)
        /\ UNCHANGED <<flusher, scenario, membershipVars, deleteVars,
                       versionCounter, hintVars, refused>>

\* The ticker, or the stop channel: flushAll lists the peers with entries.
\* Mutant: the flusher leaves without the last flush.
run_NoLastFlush(n) ==
    /\ Running("repair") /\ n \in scenario.active /\ flusher[n].pc = "wait"
    /\ \E stopping \in {FALSE, flusher[n].asked} :
         flusher' = [flusher EXCEPT ![n].pc = IF stopping THEN "gone" ELSE "flush",
             ![n].last = stopping,
             ![n].peers = {p \in Nodes : Queued(n, p) # {} /\ ~stopping}]
    /\ UNCHANGED <<entries, sending, late, clusterVars>>
run(n) ==
    /\ Running("repair") /\ n \in scenario.active /\ flusher[n].pc = "wait"
    /\ \E stopping \in {FALSE, flusher[n].asked} :
         flusher' = [flusher EXCEPT ![n].pc = "flush", ![n].last = stopping,
             ![n].peers = {p \in Nodes : Queued(n, p) # {}}]
    /\ UNCHANGED <<entries, sending, late, clusterVars>>

\* flushPeer, one peer after the other: the entries are detached under the
\* lock, and the next peer waits until all of them have been sent.
flushPeer(n) ==
    /\ flusher[n].pc = "flush"
    /\ ~\E r \in sending : r.from = n /\ r.waited
    /\ \E p \in flusher[n].peers :
         /\ flusher' = [flusher EXCEPT ![n].peers = @ \ {p}]
         /\ entries' = [entries EXCEPT ![n][p] = Empty]
         /\ sending' = sending \cup Batch(n, p, entries[n][p], TRUE)
    /\ UNCHANGED <<late, clusterVars>>

flushDone(n) ==
    /\ flusher[n].pc = "flush" /\ flusher[n].peers = {}
    /\ ~\E r \in sending : r.from = n /\ r.waited
    /\ flusher' = [flusher EXCEPT ![n].pc = IF flusher[n].last THEN "gone" ELSE "wait"]
    /\ UNCHANGED <<entries, sending, late, clusterVars>>

\* The ForwardSet of one repair; a failure is absorbed.
SendRepair(n) ==
    \E r \in sending : \E D \in ForwardDrops(r.to, r.key, FALSE) :
        /\ r.from = n
        /\ ForwardSet(r.to, r.key, r.item, FALSE, D)
        /\ sending' = sending \ {r}
        /\ UNCHANGED <<entries, flusher, late, scenario, membershipVars, deleteVars,
                       versionCounter, hintVars>>

stop(n) ==
    /\ Running("repair") /\ n \in scenario.active /\ ~flusher[n].asked
    /\ flusher' = [flusher EXCEPT ![n].asked = TRUE]
    /\ UNCHANGED <<entries, sending, late, clusterVars>>

RepairStep(n) == run(n) \/ flushPeer(n) \/ flushDone(n)

RepairTypeOK ==
    /\ entries \in [Nodes -> [Nodes -> [Keys -> Item]]]
    /\ flusher \in [Nodes -> [pc : {"wait", "flush", "gone"}, peers : SUBSET Nodes,
                              last : BOOLEAN, asked : BOOLEAN]]
    /\ sending \subseteq [from : Nodes, to : Nodes, key : Keys, item : Item,
                          waited : BOOLEAN]
    /\ late \subseteq Nodes \X Nodes \X Keys
=============================================================================
