---------------------------- MODULE AntiEntropy -----------------------------
(***************************************************************************)
(* Merkle anti-entropy and the tombstone sweeper (pkg/backend/             *)
(* dist_memory.go).  An auto-sync tick visits every other member: it       *)
(* fetches the peer's tree, builds its own, and pulls one by one the keys  *)
(* of the leaves that differ and the keys only the peer has.  A sync only  *)
(* pulls, and takes a peer's lack of a key for a delete.                   *)
(*                                                                         *)
(* A hash stands for what it is the hash of, so a tree is the sequence of  *)
(* its leaves, each the entries of its chunk in key order.                 *)
(***************************************************************************)
EXTENDS ClusterStore

CONSTANTS ChunkSize,   \* merkleChunkSize
          MaxBackoff   \* autoSyncMaxBackoffFactor, 0 or 1 when off

ASSUME SyncAssumption == ChunkSize \in Nat \ {0} /\ MaxBackoff \in Nat

VARIABLES sync,     \* sync[n]: where n's auto-sync loop is
          backoff   \* backoff[n]: autoSyncBackoffFactor

syncVars == <<sync, backoff>>

\* peers: members still to visit; peer, tree: the one being visited and its
\* tree; fetch: keys to pull; key, got: the one pulled and the peer's copy.
NoSync == [pc |-> "idle", peers |-> {}, peer |-> 0, tree |-> <<>>, fetch |-> {},
           key |-> 0, got |-> NoItem, synced |-> FALSE, dirty |-> FALSE]

SyncInit ==
    /\ sync = [n \in Nodes |-> NoSync]
    /\ backoff = [n \in Nodes |-> 1]

-----------------------------------------------------------------------------
Entry(k, x) == IF x.version > 0 THEN <<[key |-> k, version |-> x.version]>> ELSE <<>>

\* Items and tombstones alike, sorted by key; a key with both has two entries.
SortedKeys == SetToSortSeq(Keys, <)
merkleEntries(n) ==
    FoldLeft(LAMBDA e, k : e \o Entry(k, items[n][k]) \o Entry(k, tombs[n][k]),
             <<>>, SortedKeys)

Chunks(e) == (Len(e) + ChunkSize - 1) \div ChunkSize
Chunk(e, i) == SubSeq(e, (i - 1) * ChunkSize + 1, Min({i * ChunkSize, Len(e)}))

Leaves(e) == [i \in 1..Chunks(e) |-> Chunk(e, i)]
BuildMerkleTree(n) == Leaves(merkleEntries(n))

\* Trees of different length: every leaf of the local one.
DiffLeafRanges(local, remote) ==
    IF Len(local) # Len(remote) THEN DOMAIN local
    ELSE {i \in DOMAIN local : local[i] # remote[i]}

ChunkKeys(e, diffs) ==
    {k \in Keys : \E i \in diffs : \E c \in Range(Chunk(e, i)) : c.key = k}

\* The key lists resolveMissingKeys may get: the in-process transport reads the
\* peer's shards, the HTTP one asks for them and is capped, and behind the
\* chaos wrapper neither is recognised.
collectShardKeys(p) == {k \in Keys : Present(items[p][k])}
HttpListKeys(held) ==
    LET most == IF scenario.listCap = 0 THEN Cardinality(held)
                ELSE Min({scenario.listCap, Cardinality(held)})
    IN  {S \in SUBSET held : Cardinality(S) = most}
KeyLists(p) ==
    CASE scenario.transport = "inprocess" -> {collectShardKeys(p)}
      [] scenario.transport = "http" -> HttpListKeys(collectShardKeys(p))
      [] OTHER -> {{}}

-----------------------------------------------------------------------------
Quiet == UNCHANGED clusterVars

runAutoSyncTick(n) ==
    /\ Running("sync") /\ n \in scenario.active /\ sync[n].pc = "idle"
    /\ sync' = [sync EXCEPT ![n] =
           [NoSync EXCEPT !.pc = "peer", !.peers = members[n] \ {n}]]
    /\ UNCHANGED backoff /\ Quiet

\* A tree that cannot be fetched makes the tick dirty and the next peer is tried.
FetchMerkle(n) ==
    /\ sync[n].pc = "peer"
    /\ \E p \in sync[n].peers : \E D \in Drops({p}) :
         /\ sync' = [sync EXCEPT ![n] = [sync[n] EXCEPT !.peers = @ \ {p}, !.synced = TRUE,
                !.dirty = @ \/ D # {},
                !.pc = IF D = {} THEN "diff" ELSE "peer",
                !.peer = IF D = {} THEN p ELSE 0,
                !.tree = IF D = {} THEN BuildMerkleTree(p) ELSE <<>>]]
         /\ Dropped(D)
    /\ UNCHANGED <<backoff, scenario, membershipVars, shardVars, deleteVars,
                   versionCounter, hintVars, refused>>

\* The local tree and entries, the diff, and the keys only the peer has.
syncWithStatus(n) ==
    /\ sync[n].pc = "diff"
    /\ \E listed \in KeyLists(sync[n].peer), e \in {merkleEntries(n)} :
         \E fetch \in {ChunkKeys(e, DiffLeafRanges(Leaves(e), sync[n].tree))
                          \cup (listed \ {c.key : c \in Range(e)})} :
             sync' = [sync EXCEPT ![n].fetch = fetch, ![n].tree = <<>>,
                ![n].dirty = @ \/ fetch # {},
                ![n].pc = IF fetch = {} THEN "peer" ELSE "pull",
                ![n].peer = IF fetch = {} THEN 0 ELSE @]
    /\ UNCHANGED backoff /\ Quiet

NextKey(n, k) ==
    [sync[n] EXCEPT !.fetch = @ \ {k}, !.key = 0, !.got = NoItem,
                    !.pc = IF sync[n].fetch = {k} THEN "peer" ELSE "pull",
                    !.peer = IF sync[n].fetch = {k} THEN 0 ELSE @]

\* fetchAndAdopt asks the peer; an error leaves the key as it is.
ForwardGet(n) ==
    /\ sync[n].pc = "pull"
    /\ \E k \in sync[n].fetch : \E D \in Drops({sync[n].peer}) :
         /\ sync' = [sync EXCEPT ![n] =
                IF D # {} THEN NextKey(n, k)
                ELSE [@ EXCEPT !.pc = "adopt", !.key = k, !.got = items[sync[n].peer][k]]]
         /\ Dropped(D)
    /\ UNCHANGED <<backoff, scenario, membershipVars, shardVars, deleteVars,
                   versionCounter, hintVars, refused>>

\* The peer has no copy: taken for a delete, unless n has a tombstone already.
adoptAbsence(n, k) ==
    LET deletes == tombs[n][k] = NoTomb /\ Present(items[n][k])
    IN  /\ items' = IF deletes THEN [items EXCEPT ![n][k] = NoItem] ELSE items
        /\ tombs' = IF deletes
                    THEN [tombs EXCEPT ![n][k] =
                             [version |-> items[n][k].version + 1, old |-> FALSE]]
                    ELSE tombs
        /\ UNCHANGED <<originalPrimary, originalOwners>>

\* The peer has one: an older tombstone goes, and the copy is taken if it is
\* newer than what n holds, whether or not n owns the key.
\* Mutant: a copy of a key n has none of is left to the next write.
adoptCopy_OnlyNewer(n, k, it) ==
    LET blocked == tombs[n][k].version >= it.version
    IN  /\ tombs' = IF blocked THEN tombs ELSE [tombs EXCEPT ![n][k] = NoTomb]
        /\ applySet(IF ~blocked /\ Present(items[n][k])
                       /\ it.version > items[n][k].version THEN {n} ELSE {}, k, it)
adoptCopy(n, k, it) ==
    LET blocked == tombs[n][k].version >= it.version
    IN  /\ tombs' = IF blocked THEN tombs ELSE [tombs EXCEPT ![n][k] = NoTomb]
        /\ applySet(IF ~blocked /\ it.version > items[n][k].version THEN {n} ELSE {},
                    k, it)

fetchAndAdopt(n) ==
    /\ sync[n].pc = "adopt"
    /\ LET k == sync[n].key
       IN  /\ IF Present(sync[n].got) THEN adoptCopy(n, k, sync[n].got)
                                      ELSE adoptAbsence(n, k)
           /\ sync' = [sync EXCEPT ![n] = NextKey(n, k)]
    /\ UNCHANGED <<backoff, scenario, left, membershipVars, tombVersionCounter,
                   versionCounter, hintVars, refused>>

\* A tick in which every peer agreed doubles the delay, any other resets it.
\* Mutant: the factor is not capped.
updateAutoSyncBackoff_Uncapped(n) ==
    /\ sync[n].pc = "peer" /\ sync[n].peers = {}
    /\ backoff' = [backoff EXCEPT ![n] =
                      IF sync[n].synced /\ ~sync[n].dirty THEN 2 * @ ELSE 1]
    /\ sync' = [sync EXCEPT ![n] = NoSync]
    /\ Quiet
updateAutoSyncBackoff(n) ==
    /\ sync[n].pc = "peer" /\ sync[n].peers = {}
    /\ backoff' = IF MaxBackoff <= 1 THEN backoff
                  ELSE [backoff EXCEPT ![n] =
                           IF sync[n].synced /\ ~sync[n].dirty
                           THEN Min({2 * @, MaxBackoff}) ELSE 1]
    /\ sync' = [sync EXCEPT ![n] = NoSync]
    /\ Quiet

SyncStep(n) ==
    \/ runAutoSyncTick(n) \/ FetchMerkle(n) \/ syncWithStatus(n)
    \/ ForwardGet(n) \/ fetchAndAdopt(n) \/ updateAutoSyncBackoff(n)

-----------------------------------------------------------------------------
TombExpires(n, k) ==
    /\ tombs[n][k] # NoTomb /\ ~tombs[n][k].old
    /\ tombs' = [tombs EXCEPT ![n][k].old = TRUE]
    /\ UNCHANGED <<syncVars, scenario, left, membershipVars, shardVars,
                   tombVersionCounter, versionCounter, hintVars, refused>>

compactTombstones(n) ==
    /\ Running("sync") /\ \E k \in Keys : tombs[n][k].old
    /\ tombs' = [tombs EXCEPT ![n] =
           [k \in Keys |-> IF @[k].old THEN NoTomb ELSE @[k]]]
    /\ UNCHANGED <<syncVars, scenario, left, membershipVars, shardVars,
                   tombVersionCounter, versionCounter, hintVars, refused>>

SyncTypeOK ==
    /\ \A n \in Nodes :
         /\ sync[n].pc \in {"idle", "peer", "diff", "pull", "adopt"}
         /\ sync[n].peers \subseteq Nodes /\ sync[n].peer \in Nodes \cup {0}
         /\ sync[n].fetch \subseteq Keys /\ sync[n].key \in Keys \cup {0}
         /\ sync[n].got \in Item
    /\ backoff \in [Nodes -> 1..Max({1, MaxBackoff})]
=============================================================================
