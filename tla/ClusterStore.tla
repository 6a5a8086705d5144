---------------------------- MODULE ClusterStore ----------------------------
(***************************************************************************)
(* What the background loops of the distributed backend work on: every     *)
(* node's membership and consistent-hash ring (internal/cluster), its      *)
(* shards with the bookkeeping the rebalancer keeps beside the items       *)
(* (pkg/backend/dist_memory.go), the calls between nodes and their faults. *)
(*                                                                         *)
(* DistMemory models the request paths over a fixed ring.  Here the ring   *)
(* moves and each node has its own view of it, a write is the primary's    *)
(* branch of setImpl, and a call between nodes is one step: it arrives or  *)
(* it is dropped.                                                          *)
(***************************************************************************)
EXTENDS Integers, FiniteSets, SequencesExt

CONSTANTS Nodes,        \* the nodes, positive integers
          Keys,         \* the keys, positive integers in their sort order
          Tokens,       \* Tokens[n]: the hashes of n's virtual nodes
          KeyHash,      \* KeyHash[k]: where k falls on the ring
          Space,        \* the size of the hash space
          Scenarios     \* the deployments to choose from

\* nodes: those that run; replication: the ring's factor; start: who is a
\* member at the start; changes: what every node's membership is told, in
\* order; keys: the keys written; loops: the loops that run; active: who runs
\* auto-sync or the repair queue; grace: removalGracePeriod > 0; limit:
\* replicaDiffMaxPerTick; hints: hintTTL > 0; caps: hintMaxPerNode, hintMaxTotal
\* or hintMaxBytes > 0; transport: what loadTransport returns; listCap:
\* listKeysMax.  The rest are bounds: writes, removes, reads, crashes, and
\* faults (calls dropped).
Loops == {"rebalance", "sync", "repair", "list"}
Change == [op : {"upsert", "remove"}, node : Nodes]
Scenario ==
    [nodes : SUBSET Nodes, replication : 1..Cardinality(Nodes),
     start : SUBSET Nodes, changes : Seq(Change),
     keys : SUBSET Keys, loops : SUBSET Loops, active : SUBSET Nodes,
     grace : BOOLEAN, limit : Nat, hints : BOOLEAN, caps : BOOLEAN,
     transport : {"inprocess", "http", "chaos"}, listCap : Nat,
     writes : Nat, removes : Nat, reads : Nat, crashes : Nat, faults : Nat]

ASSUME RingAssumption ==
    /\ Nodes \subseteq Nat \ {0} /\ IsFiniteSet(Nodes)
    /\ Keys \subseteq Nat \ {0} /\ IsFiniteSet(Keys)
    /\ Space \in Nat \ {0}
    /\ KeyHash \in [Keys -> 0..(Space - 1)]
    /\ Tokens \in [Nodes -> (SUBSET (0..(Space - 1))) \ {{}}]
    /\ \A m, n \in Nodes : m # n => Tokens[m] \cap Tokens[n] = {}

\* Every member runs.
ASSUME ScenarioAssumption ==
    \A s \in Scenarios :
        /\ s \in Scenario
        /\ s.start \cup {c.node : c \in Range(s.changes)} \subseteq s.nodes

VARIABLES scenario,           \* the deployment chosen
          left,               \* what is left of its bounds
          members,            \* members[n]: Membership.nodes at n
          building,           \* building[n]: node lists on their way to Build
          ring,               \* ring[n]: the nodes n's ring was built from
          todo,               \* todo[n]: changes n has yet to be told of
          overlapped,         \* ring builds of n have overlapped since it was in step
          items, tombs,       \* the shards of every node
          versionCounter, tombVersionCounter,
          originalPrimary,    \* first primary n saw for k, 0 if none
          originalOwners,     \* owner list n last compared k with
          hints,              \* hinted copies waiting for their node
          dropped,            \* keys a hint was given up for, undelivered
          refused             \* keys some node has refused a copy of

membershipVars == <<members, building, ring, todo, overlapped>>
shardVars == <<items, originalPrimary, originalOwners>>
hintVars == <<hints, dropped>>
deleteVars == <<tombs, tombVersionCounter>>
clusterVars == <<scenario, left, membershipVars, shardVars, deleteVars,
                 versionCounter, hintVars, refused>>

Bounds == {"writes", "removes", "reads", "crashes", "faults"}
Spend(b) == left[b] > 0 /\ left' = [left EXCEPT ![b] = @ - 1]

-----------------------------------------------------------------------------
(***************************************************************************)
(* The ring.  Lookup walks the virtual nodes clockwise from the key's hash *)
(* and keeps the first distinct nodes it meets, so a node comes before     *)
(* another exactly when its nearest token does.                            *)
(***************************************************************************)
Distance(n, k) == Min({(t - KeyHash[k]) % Space : t \in Tokens[n]})

Walk(r, S, k) ==
    [i \in 1..Min({r, Cardinality(S)}) |->
        CHOOSE n \in S :
            Cardinality({m \in S : Distance(m, k) < Distance(n, k)}) = i - 1]

\* The rings Build can make, as one table.
Build ==
    LET table == [r \in 1..Cardinality(Nodes) |->
                     [S \in SUBSET Nodes |-> [k \in Keys |-> Walk(r, S, k)]]]
    IN  CHOOSE t \in {table} : t = table

Lookup(n, k) == Build[scenario.replication][ring[n]][k]

ownsKeyInternal(n, k) == Lookup(n, k) = <<>> \/ n \in Range(Lookup(n, k))
IsPrimary(n, k) == Lookup(n, k) # <<>> /\ Head(Lookup(n, k)) = n
OtherReplicas(n, k) ==
    IF Lookup(n, k) = <<>> THEN {} ELSE Range(Tail(Lookup(n, k))) \ {n}

-----------------------------------------------------------------------------
(***************************************************************************)
(* Upsert and Remove change the node map and copy it under the lock, and   *)
(* build the ring after they have released it.                             *)
(***************************************************************************)
\* Mutant: Remove forgets the ring.
Changed_NoRebuild(n, S) ==
    /\ members' = [members EXCEPT ![n] = S]
    /\ overlapped' = [overlapped EXCEPT ![n] = building[n] # {}]
    /\ building' = [building EXCEPT ![n] =
          IF S \subseteq members[n] THEN @ ELSE @ \cup {S}]
Changed(n, S) ==
    /\ members' = [members EXCEPT ![n] = S]
    /\ overlapped' = [overlapped EXCEPT ![n] = building[n] # {}]
    /\ building' = [building EXCEPT ![n] = @ \cup {S}]

Upsert(n, m) == Changed(n, members[n] \cup {m})
RemoveMember(n, m) ==
    IF m \in members[n] THEN Changed(n, members[n] \ {m})
    ELSE UNCHANGED <<members, building, overlapped>>

\* No node removes itself: the heartbeat passes over its own entry.
SkipsSelf(n, c) == c.op = "remove" /\ c.node = n

\* n is told of the next change, by gossip or through AddPeer and RemovePeer.
MembershipChange(n) ==
    /\ todo[n] # <<>>
    /\ LET c == Head(todo[n])
       IN  \/ c.op = "upsert" /\ Upsert(n, c.node)
           \/ c.op = "remove" /\ ~SkipsSelf(n, c) /\ RemoveMember(n, c.node)
           \/ SkipsSelf(n, c) /\ UNCHANGED <<members, building, overlapped>>
    /\ todo' = [todo EXCEPT ![n] = Tail(@)]
    /\ UNCHANGED <<scenario, left, ring, shardVars, deleteVars, versionCounter,
                   hintVars, refused>>

RingBuild(n) ==
    \E S \in building[n] :
        /\ ring' = [ring EXCEPT ![n] = S]
        /\ building' = [building EXCEPT ![n] = @ \ {S}]
        /\ UNCHANGED <<scenario, left, members, todo, overlapped, shardVars,
                       deleteVars, versionCounter, hintVars, refused>>

-----------------------------------------------------------------------------
(***************************************************************************)
(* The shards.                                                             *)
(***************************************************************************)
Item == [version : Nat, origin : Nat]
NoItem == [version |-> 0, origin |-> 0]
Present(it) == it.version > 0

\* old: the tombstone has outlived tombstoneTTL.
Tomb == [version : Nat, old : BOOLEAN]
NoTomb == [version |-> 0, old |-> FALSE]

\* isHigherVersion and chooseNewer: higher version, then smaller origin.
Newer(b, a) == b.version > a.version \/ (b.version = a.version /\ b.origin < a.origin)

\* recordOriginalPrimary at the nodes of R: the first owners seen are kept.
First(R, n, k) == n \in R /\ originalPrimary[n][k] = 0 /\ Lookup(n, k) # <<>>
recordOriginalPrimary(R, k) == [n \in Nodes |->
    IF First(R, n, k) THEN [originalPrimary[n] EXCEPT ![k] = Head(Lookup(n, k))]
    ELSE originalPrimary[n]]
recordOriginalOwners(R, k) == [n \in Nodes |->
    IF First(R, n, k) /\ originalOwners[n][k] = <<>>
    THEN [originalOwners[n] EXCEPT ![k] = Lookup(n, k)] ELSE originalOwners[n]]

\* applySet at every node of R: nothing is compared, no tombstone looked at.
Planted(R, k, it) == [n \in Nodes |->
    IF n \in R THEN [items[n] EXCEPT ![k] = it] ELSE items[n]]
applySet(R, k, it) ==
    /\ items' = Planted(R, k, it)
    /\ originalPrimary' = recordOriginalPrimary(R, k)
    /\ originalOwners' = recordOriginalOwners(R, k)

\* Any of the calls to S may be dropped, as far as the faults last.
Drops(S) == {D \in SUBSET S : Cardinality(D) <= left.faults}
Dropped(D) == left' = [left EXCEPT !.faults = @ - Cardinality(D)]

\* applyForwardedSet at the nodes a copy reaches: one that does not own the
\* key drops the copy and still answers with success.
Accepting(reached, k) == {n \in reached : ownsKeyInternal(n, k)}
Refusing(reached, k) ==
    refused' = IF Accepting(reached, k) # reached THEN refused \cup {k} ELSE refused
applyForwardedSet(reached, local, k, it) ==
    /\ applySet(Accepting(reached, k) \cup local, k, it)
    /\ Refusing(reached, k)

\* The nodes a ForwardSet to m involves: with replicate, m's applySet fans
\* the copy out to the other owners of its own view.
Targets(m, k, replicate) ==
    {m} \cup (IF replicate /\ ownsKeyInternal(m, k) THEN OtherReplicas(m, k) ELSE {})

\* ForwardSet whose calls to D are dropped.  What m never gets it cannot fan out.
ForwardSet(m, k, it, replicate, D) ==
    /\ applyForwardedSet(IF m \in D THEN {} ELSE Targets(m, k, replicate) \ D, {}, k, it)
    /\ Dropped(D)

ForwardDrops(m, k, replicate) ==
    ({{m}} \cap Drops({m})) \cup Drops(Targets(m, k, replicate) \ {m})

(***************************************************************************)
(* queueHint for every hint of H.  At a target's cap the oldest hint for   *)
(* that target is pushed out; at the total or the byte cap the new hint is *)
(* refused, and what it would have pushed out stays.  How full the queues  *)
(* are is HintQueue's matter: with caps, any new hint may be refused (R)   *)
(* and each one accepted may push out one other of its sender and target   *)
(* (P).                                                                    *)
(***************************************************************************)
SameQueue(g, h) == g.from = h.from /\ g.to = h.to
queueHint(H) ==
    IF ~scenario.hints THEN UNCHANGED hintVars
    ELSE \E R \in SUBSET H : \E P \in SUBSET {g \in hints : \E h \in H \ R : SameQueue(g, h)} :
           /\ scenario.caps \/ R \cup P = {}
           /\ \A g, h \in P : SameQueue(g, h) => g = h
           /\ hints' = (hints \ P) \cup (H \ R)
           /\ dropped' = dropped \cup {h.key : h \in R \cup P}

\* The primary's branch of setImpl: a fresh stamp, the local copy, the fan-out;
\* the copies that did not arrive are hinted.
PrimarySet(n, k) ==
    /\ k \in scenario.keys /\ left.writes > 0
    /\ IsPrimary(n, k)
    /\ LET it == [version |-> versionCounter[n] + 1, origin |-> n]
       IN  \E D \in Drops(OtherReplicas(n, k)) :
             /\ applyForwardedSet(OtherReplicas(n, k) \ D, {n}, k, it)
             /\ queueHint({[from |-> n, to |-> m, key |-> k, item |-> it] : m \in D})
             /\ left' = [left EXCEPT !.writes = @ - 1, !.faults = @ - Cardinality(D)]
    /\ versionCounter' = [versionCounter EXCEPT ![n] = @ + 1]
    /\ UNCHANGED <<scenario, membershipVars, deleteVars>>

\* replayHints, one hint: given up once its hintTTL is over, which may be at
\* any replay; before that gone once delivered, kept on any error.
HintExpires(h) ==
    /\ hints' = hints \ {h}
    /\ dropped' = dropped \cup {h.key}
    /\ UNCHANGED <<left, shardVars, refused>>
processHint(h) ==
    \/ HintExpires(h)
    \/ \E D \in ForwardDrops(h.to, h.key, FALSE) :
         /\ ForwardSet(h.to, h.key, h.item, FALSE, D)
         /\ hints' = IF D = {} THEN hints \ {h} ELSE hints
         /\ UNCHANGED dropped
ReplayHint(n) ==
    /\ \E h \in hints : h.from = n /\ processHint(h)
    /\ UNCHANGED <<scenario, membershipVars, deleteVars, versionCounter>>

\* applyRemove at every node of R: one above the copy deleted, or the next of
\* the node's own counter.
applyRemove(R, k) ==
    LET ver(n) == IF Present(items[n][k]) THEN items[n][k].version + 1
                  ELSE tombVersionCounter[n] + 1
    IN  /\ items' = [n \in Nodes |->
               IF n \in R THEN [items[n] EXCEPT ![k] = NoItem] ELSE items[n]]
        /\ tombs' = [n \in Nodes |->
               IF n \in R THEN [tombs[n] EXCEPT ![k] = [version |-> ver(n), old |-> FALSE]]
               ELSE tombs[n]]
        /\ tombVersionCounter' = [n \in Nodes |->
               IF n \in R /\ ~Present(items[n][k]) THEN tombVersionCounter[n] + 1
               ELSE tombVersionCounter[n]]

\* The primary's branch of removeImpl; a delete that does not arrive is lost.
PrimaryRemove(n, k) ==
    /\ k \in scenario.keys /\ left.removes > 0
    /\ IsPrimary(n, k)
    /\ \E D \in Drops(OtherReplicas(n, k)) :
         /\ applyRemove(({n} \cup OtherReplicas(n, k)) \ D, k)
         /\ left' = [left EXCEPT !.removes = @ - 1, !.faults = @ - Cardinality(D)]
    /\ UNCHANGED <<scenario, membershipVars, originalPrimary, originalOwners,
                   versionCounter, hintVars, refused>>

-----------------------------------------------------------------------------
NewDistMemory ==
    /\ scenario \in Scenarios
    /\ left = [b \in Bounds |-> scenario[b]]
    /\ members = [n \in Nodes |-> scenario.start \cup {n}]
    /\ ring = members
    /\ building = [n \in Nodes |-> {}]
    /\ todo = [n \in Nodes |-> scenario.changes]
    /\ overlapped = [n \in Nodes |-> FALSE]
    /\ items = [n \in Nodes |-> [k \in Keys |-> NoItem]]
    /\ tombs = [n \in Nodes |-> [k \in Keys |-> NoTomb]]
    /\ versionCounter = [n \in Nodes |-> 0]
    /\ tombVersionCounter = [n \in Nodes |-> 0]
    /\ originalPrimary = [n \in Nodes |-> [k \in Keys |-> 0]]
    /\ originalOwners = [n \in Nodes |-> [k \in Keys |-> <<>>]]
    /\ hints = {} /\ dropped = {}
    /\ refused = {}

Running(l) == l \in scenario.loops

ClusterTypeOK ==
    /\ scenario \in Scenarios
    /\ left \in [Bounds -> Nat]
    /\ members \in [Nodes -> SUBSET Nodes] /\ ring \in [Nodes -> SUBSET Nodes]
    /\ building \in [Nodes -> SUBSET SUBSET Nodes]
    /\ todo \in [Nodes -> Seq(Change)]
    /\ overlapped \in [Nodes -> BOOLEAN]
    /\ items \in [Nodes -> [Keys -> Item]] /\ tombs \in [Nodes -> [Keys -> Tomb]]
    /\ versionCounter \in [Nodes -> Nat] /\ tombVersionCounter \in [Nodes -> Nat]
    /\ originalPrimary \in [Nodes -> [Keys -> Nodes \cup {0}]]
    /\ \A n \in Nodes, k \in Keys :
         originalOwners[n][k] \in {<<>>} \cup {Build[scenario.replication][S][k] : S \in SUBSET Nodes}
    /\ hints \subseteq [from : Nodes, to : Nodes, key : Keys, item : Item]
    /\ dropped \subseteq Keys /\ refused \subseteq Keys
=============================================================================
