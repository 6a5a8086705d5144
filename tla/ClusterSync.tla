---------------------------- MODULE ClusterSync -----------------------------
(***************************************************************************)
(* A cluster whose membership changes, with the loops that move copies     *)
(* about: rebalancing, hint replay, anti-entropy and the tombstone         *)
(* sweeper, batched read repair, and the key listing that looks on.  Which *)
(* of them a deployment runs is its own choice (all are off by default),   *)
(* so the behaviours start from one of several scenarios.                  *)
(***************************************************************************)
EXTENDS Rebalance, AntiEntropy, RepairQueue, KeyListing

vars == <<clusterVars, rebalanceVars, syncVars, repairVars, listVars>>

Init ==
    /\ NewDistMemory
    /\ RebalanceInit /\ SyncInit /\ RepairInit /\ ListInit

\* A node of an auto-sync cluster dies and comes back empty, its counters at zero.
Restart(n) ==
    /\ Running("sync") /\ Spend("crashes")
    /\ items' = [items EXCEPT ![n] = Nothing]
    /\ tombs' = [tombs EXCEPT ![n] = [k \in Keys |-> NoTomb]]
    /\ versionCounter' = [versionCounter EXCEPT ![n] = 0]
    /\ tombVersionCounter' = [tombVersionCounter EXCEPT ![n] = 0]
    /\ originalPrimary' = [originalPrimary EXCEPT ![n] = [k \in Keys |-> 0]]
    /\ originalOwners' = [originalOwners EXCEPT ![n] = [k \in Keys |-> <<>>]]
    /\ hints' = {h \in hints : h.from # n}
    /\ sync' = [sync EXCEPT ![n] = NoSync]
    /\ backoff' = [backoff EXCEPT ![n] = 1]
    /\ UNCHANGED <<scenario, membershipVars, dropped, refused, rebalanceVars>>

\* Every step is watched by the listing; a loop's step leaves the others' alone.
Cluster(A) == A /\ UNCHANGED <<rebalanceVars, syncVars, repairVars, listing>> /\ Watch
Rebalancing(A) == A /\ UNCHANGED <<syncVars, repairVars, listing>> /\ Watch
Syncing(A) == A /\ UNCHANGED <<rebalanceVars, repairVars, listing>> /\ Watch
Repairing(A) == A /\ UNCHANGED <<rebalanceVars, syncVars, listing>> /\ Watch
Listing(A) == A /\ UNCHANGED <<rebalanceVars, syncVars, repairVars>> /\ Watch

\* What the node's goroutines do of themselves: the loop the scenario is
\* about, and everything that supports it.
Loop(n) ==
    \/ Rebalancing(RebalanceStep(n)) \/ Syncing(SyncStep(n)) \/ Repairing(RepairStep(n))
Support(n) ==
    \/ Cluster(MembershipChange(n)) \/ Cluster(RingBuild(n)) \/ Cluster(ReplayHint(n))
    \/ Rebalancing(\E k \in Keys : GraceElapses(n, k))
    \/ Syncing(\E k \in Keys : TombExpires(n, k)) \/ Syncing(compactTombstones(n))
    \/ Repairing(SendRepair(n))

\* What happens to it.
Environment(n) ==
    \/ Cluster(\E k \in Keys : PrimarySet(n, k) \/ PrimaryRemove(n, k))
    \/ Repairing(\E k \in Keys : ReadRepair(n, k))
    \/ Repairing(stop(n))
    \/ Restart(n) /\ UNCHANGED <<repairVars, listing>> /\ Watch
    \/ n = Lister /\ Listing(ListStep)

Next == \E n \in scenario.nodes : Loop(n) \/ Support(n) \/ Environment(n)

Spec == Init /\ [][Next]_vars

(***************************************************************************)
(* The loops are goroutines with a ticker: what they can do they do in the *)
(* end.  News of the membership reaches every node (gossip, Swim), a       *)
(* snapshot on its way to Build gets there, time passes.  Clients, stop    *)
(* and crashes owe nothing.                                                *)
(***************************************************************************)
FairSpec ==
    /\ Spec
    /\ \A n \in Nodes : /\ WF_vars(n \in scenario.nodes /\ Loop(n))
                        /\ WF_vars(n \in scenario.nodes /\ Support(n))

-----------------------------------------------------------------------------
TypeOK ==
    /\ ClusterTypeOK /\ RebalanceTypeOK /\ SyncTypeOK /\ RepairTypeOK /\ ListTypeOK

(***************************************************************************)
(* Upsert and Remove build the ring after they have released the lock.     *)
(* However their builds interleave with the rest of the cluster, a node    *)
(* whose changes have not overlapped ends up with the ring of its          *)
(* membership.  (When they do overlap, the older node list may be the one  *)
(* that is built last.)                                                    *)
(***************************************************************************)
RingFollowsMembership ==
    \A n \in Nodes : building[n] = {} /\ ~overlapped[n] => ring[n] = members[n]

(***************************************************************************)
(* Rebalancing hands a copy over before it lets go of its own, however     *)
(* ticks, ring changes, lost forwards and hint replays interleave: a key   *)
(* that has been written is always held by some node or by a hint, until a *)
(* hint for it is given up.  Four things stand outside: a refused copy,    *)
(* which is answered with success (applyForwardedSet); a lost forward      *)
(* where hints are off; a hint that expires, is refused at a cap or is     *)
(* pushed out (migrateIfNeeded has released the copy by then, so the key   *)
(* may be nowhere); and, with a grace period, a ring that moves away and   *)
(* back, because removedAt is not cleared when the key returns and sheds   *)
(* it on the old date when it leaves again.                                *)
(***************************************************************************)
HandsOver(k) ==
    /\ Running("rebalance") /\ k \notin refused \cup dropped
    /\ scenario.hints \/ left.faults = scenario.faults
    /\ ~scenario.grace \/ Len(scenario.changes) <= 1
NothingVanishes ==
    \A k \in scenario.keys :
        HandsOver(k) /\ (\E n \in Nodes : originalPrimary[n][k] # 0) =>
            \/ \E n \in Nodes : Present(items[n][k])
            \/ \E h \in hints : h.key = k

(***************************************************************************)
(* Rebalancing comes to an end: once every ring is built from the same     *)
(* nodes and stays so, no key stays with a node that does not own it, and  *)
(* a key some node holds is held by its primary.  A copy whose forward     *)
(* failed reaches the primary by its hint alone: once that is given up (it *)
(* expires, or a cap takes it) only the first half is left.                *)
(***************************************************************************)
ViewsAgree == \A m, n \in scenario.nodes : ring[m] = ring[n]
Placed(k) ==
    /\ \A n \in Nodes : Present(items[n][k]) => ownsKeyInternal(n, k)
    /\ \A n \in scenario.nodes : (IsPrimary(n, k) /\ \E m \in Nodes : Present(items[m][k]))
                        => Present(items[n][k]) \/ k \in dropped
Rebalanced ==
    Running("rebalance") /\ <>[]ViewsAgree =>
        <>[](\A k \in Keys : k \in refused \/ Placed(k))

(***************************************************************************)
(* A node that pulls from one peer catches up with it, whatever copies and *)
(* deletes were lost, whichever of the two came back empty with its        *)
(* counters at zero, and although tombstones stand in the way until they   *)
(* are swept: in the end it has the peer's version of every key or a newer *)
(* one, and no key the peer lacks.  Behind the chaos wrapper, or with a    *)
(* capped key list, that is so only for the keys it has a copy of.  (If    *)
(* both pull at the same time they may swap presence and absence for       *)
(* ever.)                                                                  *)
(***************************************************************************)
Blind == scenario.transport = "chaos" \/ scenario.listCap > 0
CaughtUp(n, p, k) ==
    IF Present(items[p][k])
    THEN \/ items[n][k].version >= items[p][k].version
         \/ Blind /\ ~Present(items[n][k])
    ELSE ~Present(items[n][k])
PullCatchesUp ==
    <>[](Running("sync") =>
            \A n \in scenario.active : \A p \in scenario.nodes \ {n} :
                \A k \in Keys : CaughtUp(n, p, k))

(***************************************************************************)
(* A repair that is queued before stop is called leaves the queue: by a    *)
(* tick, by the flush of a full batch, or by the last flush of stop.  Only *)
(* what a read queues while the node stops can stay behind.                *)
(***************************************************************************)
RepairsDispatched ==
    <>[](\A n, p \in Nodes : \A k \in Keys :
            Present(entries[n][p][k]) => <<n, p, k>> \in late)

(***************************************************************************)
(* A listing that is neither truncated nor partial has every key that      *)
(* stayed where it was during the call.  (A key that moves between two     *)
(* peers while they are asked may be missed.)                              *)
(***************************************************************************)
ListKeysComplete ==
    listing.pc = "done" =>
        /\ Cardinality(listing.dedup) <= MaxResults
        /\ ~listing.truncated /\ listing.partial = {} =>
             {nk[2] : nk \in steady} \subseteq listing.dedup
=============================================================================
