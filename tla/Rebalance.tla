----------------------------- MODULE Rebalance ------------------------------
(***************************************************************************)
(* The rebalance loop of a node (pkg/backend/dist_memory.go): a tick       *)
(* collects the items whose ownership has moved, forwards each to its new  *)
(* primary, sends the items it is still primary for to new replicas, and   *)
(* sheds what it no longer owns.  The items are copied when the scan       *)
(* starts: what is sent may be older than what the node holds by then.     *)
(***************************************************************************)
EXTENDS ClusterStore

VARIABLES tick,      \* tick[n]: where n's rebalance loop is
          removedAt  \* removedAt[n][k]: none, new, recorded, or elapsed (past the grace)

rebalanceVars == <<tick, removedAt>>

Nothing == [k \in Keys |-> NoItem]

\* batch: the copies still to be handled; sent: the primary a copy has been
\* forwarded to; processed: replica sends of this tick.
NoTick == [pc |-> "idle", batch |-> Nothing, sent |-> [k \in Keys |-> 0],
           processed |-> 0]

RebalanceInit ==
    /\ tick = [n \in Nodes |-> NoTick]
    /\ removedAt = [n \in Nodes |-> [k \in Keys |-> "none"]]

\* Mutant: only the primaries that changed are moved.
shouldRebalance_PrimaryOnly(n, k) ==
    /\ originalPrimary[n][k] = n
    /\ Lookup(n, k) # <<>> /\ Head(Lookup(n, k)) # n
shouldRebalance(n, k) ==
    \/ ~ownsKeyInternal(n, k)
    \/ /\ originalPrimary[n][k] = n
       /\ Lookup(n, k) # <<>> /\ Head(Lookup(n, k)) # n

\* maybeRecordRemoval, and the same lines of shouldRebalance.
maybeRecordRemoval(n, K) ==
    [k \in Keys |-> IF /\ k \in K /\ scenario.grace /\ ~ownsKeyInternal(n, k)
                       /\ removedAt[n][k] = "none"
                    THEN "new" ELSE removedAt[n][k]]

collectRebalanceCandidates(n) ==
    /\ Running("rebalance") /\ tick[n].pc = "idle"
    /\ LET held == {k \in Keys : Present(items[n][k])}
       IN  /\ tick' = [tick EXCEPT ![n].pc = "migrate", ![n].batch =
                  [k \in Keys |-> IF k \in held /\ shouldRebalance(n, k)
                                  THEN items[n][k] ELSE NoItem]]
           /\ removedAt' = [removedAt EXCEPT ![n] = maybeRecordRemoval(n, held)]
    /\ UNCHANGED clusterVars

\* migrateIfNeeded up to the call: a copy whose primary has come back to n is
\* left alone; a forward that fails becomes a hint.
\* Mutant: the error of the forward is dropped.
migrateForward_NoHint(n, k) ==
    /\ tick[n].pc = "migrate" /\ Present(tick[n].batch[k]) /\ tick[n].sent[k] = 0
    /\ IF Lookup(n, k) = <<>> \/ IsPrimary(n, k)
       THEN /\ tick' = [tick EXCEPT ![n].batch[k] = NoItem]
            /\ UNCHANGED clusterVars
       ELSE LET to == Head(Lookup(n, k))
                it == tick[n].batch[k]
            IN  \E D \in ForwardDrops(to, k, TRUE) :
                  /\ ForwardSet(to, k, it, TRUE, D)
                  /\ tick' = [tick EXCEPT ![n].sent[k] = to]
                  /\ UNCHANGED <<scenario, membershipVars, deleteVars,
                                 versionCounter, hintVars>>
    /\ UNCHANGED removedAt
migrateForward(n, k) ==
    /\ tick[n].pc = "migrate" /\ Present(tick[n].batch[k]) /\ tick[n].sent[k] = 0
    /\ IF Lookup(n, k) = <<>> \/ IsPrimary(n, k)
       THEN /\ tick' = [tick EXCEPT ![n].batch[k] = NoItem]
            /\ UNCHANGED clusterVars
       ELSE LET to == Head(Lookup(n, k))
                it == tick[n].batch[k]
            IN  \E D \in ForwardDrops(to, k, TRUE) :
                  /\ ForwardSet(to, k, it, TRUE, D)
                  /\ IF to \in D
                     THEN queueHint({[from |-> n, to |-> to, key |-> k, item |-> it]})
                     ELSE UNCHANGED hintVars
                  /\ tick' = [tick EXCEPT ![n].sent[k] = to]
                  /\ UNCHANGED <<scenario, membershipVars, deleteVars, versionCounter>>
    /\ UNCHANGED removedAt

\* The rest of migrateIfNeeded: with a grace period the copy stays until it
\* is over, without one it is released now, whatever its version.
migrateRelease(n, k) ==
    /\ tick[n].sent[k] # 0
    /\ originalPrimary' = [originalPrimary EXCEPT ![n][k] = tick[n].sent[k]]
    /\ items' = IF ~scenario.grace /\ ~ownsKeyInternal(n, k)
                THEN [items EXCEPT ![n][k] = NoItem] ELSE items
    /\ removedAt' = [removedAt EXCEPT ![n] = maybeRecordRemoval(n, {k})]
    /\ tick' = [tick EXCEPT ![n].batch[k] = NoItem, ![n].sent[k] = 0]
    /\ UNCHANGED <<scenario, left, membershipVars, originalOwners, deleteVars,
                   versionCounter, hintVars, refused>>

\* replicateNewReplicas copies the shard before it looks at the owners.
replicateNewReplicas(n) ==
    /\ tick[n].pc = "migrate" /\ tick[n].batch = Nothing
    /\ tick' = [tick EXCEPT ![n].pc = "diff", ![n].batch = items[n]]
    /\ UNCHANGED <<removedAt, clusterVars>>

\* computeNewReplicas: the places of the owners n has not compared k with.
computeNewReplicas(n, k) ==
    {i \in 2..Len(Lookup(n, k)) : Lookup(n, k)[i] \notin Range(originalOwners[n][k])}

\* The replicas at the first places of P, at most count of them.
FirstReplicas(n, k, P, count) ==
    {Lookup(n, k)[i] : i \in {j \in P : Cardinality({l \in P : l < j}) < count}}

\* sendReplicaDiff and setOwnerBaseline.
sendReplicaDiff(n, k, it, to) ==
    \E D \in Drops(to) :
        /\ Dropped(D)
        /\ Refusing(to \ D, k)
        /\ LET R == Accepting(to \ D, k)
           IN  /\ items' = Planted(R, k, it)
               /\ originalPrimary' = recordOriginalPrimary(R, k)
               /\ originalOwners' =
                      [recordOriginalOwners(R, k) EXCEPT ![n][k] = Lookup(n, k)]

Full(n) == scenario.limit > 0 /\ tick[n].processed >= scenario.limit
Handled(n, K, count) ==
    [tick EXCEPT ![n].batch = [k \in Keys |-> IF k \in K THEN NoItem ELSE @[k]],
                 ![n].processed = @ + count]

\* One key of replDiffShard.  applySet has recorded a baseline for every copy,
\* so ensureOwnerBaseline finds one; it moves on whether or not the copies
\* arrived and whether or not the limit let all of them go.
replDiffKey(n, k) ==
    /\ tick[n].pc = "diff" /\ Present(tick[n].batch[k])
    /\ \/ /\ Full(n)
          /\ tick' = Handled(n, Keys, 0)
          /\ UNCHANGED <<removedAt, clusterVars>>
       \/ /\ ~Full(n) /\ ~IsPrimary(n, k)
          /\ removedAt' = [removedAt EXCEPT ![n] = maybeRecordRemoval(n, {k})]
          /\ tick' = Handled(n, {k}, 0)
          /\ UNCHANGED clusterVars
       \/ /\ ~Full(n) /\ IsPrimary(n, k)
          /\ LET new == computeNewReplicas(n, k)
                 count == IF scenario.limit = 0 THEN Cardinality(new)
                          ELSE Min({Cardinality(new), scenario.limit - tick[n].processed})
             IN  /\ tick' = Handled(n, {k}, count)
                 /\ \/ new = {} /\ UNCHANGED <<left, shardVars, refused>>
                    \/ /\ new # {}
                       /\ sendReplicaDiff(n, k, tick[n].batch[k],
                                          FirstReplicas(n, k, new, count))
          /\ UNCHANGED <<removedAt, scenario, membershipVars, deleteVars,
                         versionCounter, hintVars>>

\* After the grace, unless n owns the key again.
shedRemovedKeys(n) ==
    /\ tick[n].pc = "diff" /\ tick[n].batch = Nothing
    /\ items' = [items EXCEPT ![n] = [k \in Keys |->
           IF removedAt[n][k] = "elapsed" /\ ~ownsKeyInternal(n, k) THEN NoItem ELSE @[k]]]
    /\ removedAt' = [removedAt EXCEPT ![n] = [k \in Keys |->
           CASE @[k] = "elapsed" -> "none" [] @[k] = "new" -> "recorded" [] OTHER -> @[k]]]
    /\ tick' = [tick EXCEPT ![n] = NoTick]
    /\ UNCHANGED <<scenario, left, membershipVars, originalPrimary, originalOwners,
                   deleteVars, versionCounter, hintVars, refused>>

\* The grace period is assumed to be longer than a tick, so what a tick records
\* ("new") it does not shed.  (Otherwise a key n stops owning in the middle of a
\* tick is shed by that tick, before any tick has forwarded it.)
GraceElapses(n, k) ==
    /\ removedAt[n][k] = "recorded"
    /\ removedAt' = [removedAt EXCEPT ![n][k] = "elapsed"]
    /\ UNCHANGED <<tick, clusterVars>>

RebalanceStep(n) ==
    \/ collectRebalanceCandidates(n)
    \/ \E k \in Keys : migrateForward(n, k) \/ migrateRelease(n, k) \/ replDiffKey(n, k)
    \/ replicateNewReplicas(n)
    \/ shedRemovedKeys(n)

RebalanceTypeOK ==
    /\ tick \in [Nodes -> [pc : {"idle", "migrate", "diff"}, batch : [Keys -> Item],
                           sent : [Keys -> Nodes \cup {0}], processed : Nat]]
    /\ removedAt \in [Nodes -> [Keys -> {"none", "new", "recorded", "elapsed"}]]
=============================================================================
