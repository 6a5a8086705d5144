------------------------- MODULE ClusterSyncProofs --------------------------
(***************************************************************************)
(* Theorems about ClusterSync, for every set of nodes and keys, every      *)
(* placement of their hashes and every deployment.                         *)
(***************************************************************************)
EXTENDS ClusterSync, SumLemmas, FunctionTheorems

\* The two variables of the hints always go together.
USE DEF hintVars

-----------------------------------------------------------------------------
(***************************************************************************)
(* The ring.  Lookup lists the nodes a ring was built from by the distance *)
(* of their nearest token, so it is a list of some of them, its head is    *)
(* the nearest of all.                                                     *)
(***************************************************************************)

\* Two hashes at the same distance from a third are the same.
LEMMA SameDistance ==
    ASSUME NEW M \in Nat \ {0}, NEW s \in 0..(M - 1), NEW t \in 0..(M - 1),
           NEW h \in 0..(M - 1), (s - h) % M = (t - h) % M
    PROVE  s = t
<1>1. ASSUME NEW x \in 0..(M - 1)
      PROVE  (x - h) % M = IF x >= h THEN x - h ELSE x - h + M
  OBVIOUS
<1> QED
  BY <1>1

LEMMA LeastIn ==
    ASSUME NEW T \in SUBSET Nat, T # {}
    PROVE  Min(T) \in T /\ \A y \in T : Min(T) <= y
BY NatMin DEF Min

\* The distance of a node is that of one of its tokens.
LEMMA DistanceOf ==
    ASSUME NEW n \in Nodes, NEW k \in Keys
    PROVE  \E t \in Tokens[n] : /\ t \in 0..(Space - 1)
                                /\ Distance(n, k) = (t - KeyHash[k]) % Space
<1> DEFINE T == {(t - KeyHash[k]) % Space : t \in Tokens[n]}
<1>1. Tokens[n] # {} /\ Tokens[n] \subseteq 0..(Space - 1)
  BY RingAssumption
<1>2. KeyHash[k] \in 0..(Space - 1) /\ Space \in Nat \ {0}
  BY RingAssumption
<1>3. ASSUME NEW t \in 0..(Space - 1) PROVE (t - KeyHash[k]) % Space \in Nat
  BY <1>2
<1>4. T \in SUBSET Nat /\ T # {}
  BY <1>1, <1>3
<1>5. Min(T) \in T
  BY <1>4, LeastIn
<1> QED
  BY <1>1, <1>5 DEF Distance

LEMMA DistanceNat ==
    ASSUME NEW n \in Nodes, NEW k \in Keys
    PROVE  Distance(n, k) \in Nat
<1>1. KeyHash[k] \in 0..(Space - 1) /\ Space \in Nat \ {0}
  BY RingAssumption
<1>2. PICK t \in 0..(Space - 1) : Distance(n, k) = (t - KeyHash[k]) % Space
  BY DistanceOf
<1> QED
  BY <1>1, <1>2

\* No two nodes are at the same distance from a key.
LEMMA DistanceInjective ==
    ASSUME NEW m \in Nodes, NEW n \in Nodes, NEW k \in Keys,
           Distance(m, k) = Distance(n, k)
    PROVE  m = n
<1>1. KeyHash[k] \in 0..(Space - 1) /\ Space \in Nat \ {0}
  BY RingAssumption
<1>2. PICK s \in Tokens[m] : /\ s \in 0..(Space - 1)
                             /\ Distance(m, k) = (s - KeyHash[k]) % Space
  BY DistanceOf
<1>3. PICK t \in Tokens[n] : /\ t \in 0..(Space - 1)
                             /\ Distance(n, k) = (t - KeyHash[k]) % Space
  BY DistanceOf
<1>4. (s - KeyHash[k]) % Space = (t - KeyHash[k]) % Space
  BY <1>2, <1>3
<1>5. s = t
  BY <1>1, <1>2, <1>3, <1>4, SameDistance
<1> QED
  BY <1>5, RingAssumption

-----------------------------------------------------------------------------
Nearer(S, n, k) == {m \in S : Distance(m, k) < Distance(n, k)}

\* The ranks of the nodes of S are 0 to its size less one, each taken once.
LEMMA EveryRank ==
    ASSUME NEW S \in SUBSET Nodes, NEW k \in Keys, NEW i \in 0..(Cardinality(S) - 1)
    PROVE  \E n \in S : Cardinality(Nearer(S, n, k)) = i
<1> DEFINE T == 0..(Cardinality(S) - 1)
           f == [n \in S |-> Cardinality(Nearer(S, n, k))]
<1>1. IsFiniteSet(S) /\ Cardinality(S) \in Nat
  BY RingAssumption, FS_Subset, FS_CardinalityType
<1>2. ASSUME NEW n \in S
      PROVE  IsFiniteSet(Nearer(S, n, k)) /\ Cardinality(Nearer(S, n, k)) \in T
  <2>1. Nearer(S, n, k) \in SUBSET (S \ {n})
    BY DistanceNat DEF Nearer
  <2>2. IsFiniteSet(S \ {n}) /\ Cardinality(S \ {n}) = Cardinality(S) - 1
    BY <1>1, FS_RemoveElement
  <2>3. IsFiniteSet(Nearer(S, n, k)) /\ Cardinality(Nearer(S, n, k)) <= Cardinality(S) - 1
    BY <2>1, <2>2, FS_Subset
  <2> QED
    BY <1>1, <2>3, FS_CardinalityType
<1>3. f \in [S -> T]
  BY <1>2
<1>4. ASSUME NEW m \in S, NEW n \in S, Distance(m, k) < Distance(n, k)
      PROVE  f[m] # f[n]
  <2>1. Nearer(S, m, k) \subseteq Nearer(S, n, k)
    BY <1>4, DistanceNat DEF Nearer
  <2>2. m \in Nearer(S, n, k) /\ m \notin Nearer(S, m, k)
    BY <1>4, DistanceNat DEF Nearer
  <2>3. Cardinality(Nearer(S, n, k)) # Cardinality(Nearer(S, m, k))
    BY <2>1, <2>2, <1>2, FS_Subset
  <2> QED
    BY <2>3
<1>5. ASSUME NEW m \in S, NEW n \in S, f[m] = f[n]
      PROVE  m = n
  <2>1. Distance(m, k) \in Nat /\ Distance(n, k) \in Nat
    BY DistanceNat
  <2>2. Distance(m, k) = Distance(n, k)
    BY <1>4, <1>5, <2>1
  <2> QED
    BY <2>2, DistanceInjective
<1>6. f \in Injection(S, T)
  BY <1>3, <1>5, Fun_IsInj
<1>7. IsFiniteSet(T) /\ Cardinality(T) = Cardinality(S)
  BY <1>1, FS_Interval
<1>8. f \in Surjection(S, T)
  BY <1>6, <1>7, FS_Injection
<1> HIDE DEF f
<1>9. PICK n \in S : f[n] = i
  BY <1>8 DEF Surjection
<1> USE DEF f
<1> QED
  BY <1>9

\* How many nodes a lookup returns.
Depth(r, S) == Min({r, Cardinality(S)})

LEMMA DepthIs ==
    ASSUME NEW r \in Nat, NEW S \in SUBSET Nodes
    PROVE  /\ Cardinality(S) \in Nat
           /\ Depth(r, S) = IF r <= Cardinality(S) THEN r ELSE Cardinality(S)
<1>1. Cardinality(S) \in Nat
  BY RingAssumption, FS_Subset, FS_CardinalityType
<1>2. {r, Cardinality(S)} \in SUBSET Nat /\ {r, Cardinality(S)} # {}
  BY <1>1
<1>3. /\ Depth(r, S) \in {r, Cardinality(S)}
      /\ \A y \in {r, Cardinality(S)} : Depth(r, S) <= y
  BY <1>2, LeastIn DEF Depth
<1> QED
  BY <1>1, <1>3

\* The owner at place i is a node of the ring with i - 1 nodes before it.
LEMMA WalkAt ==
    ASSUME NEW r \in Nat, NEW S \in SUBSET Nodes, NEW k \in Keys,
           NEW i \in 1..Depth(r, S)
    PROVE  /\ Walk(r, S, k)[i] \in S
           /\ Cardinality(Nearer(S, Walk(r, S, k)[i], k)) = i - 1
<1>1. i - 1 \in 0..(Cardinality(S) - 1)
  BY DepthIs
<1>2. \E n \in S : Cardinality(Nearer(S, n, k)) = i - 1
  BY <1>1, EveryRank
<1>3. Walk(r, S, k)[i] = CHOOSE n \in S : Cardinality(Nearer(S, n, k)) = i - 1
  BY Zenon DEF Walk, Depth, Nearer
<1> QED
  BY <1>2, <1>3

LEMMA WalkSeq ==
    ASSUME NEW r \in Nat, NEW S \in SUBSET Nodes, NEW k \in Keys
    PROVE  /\ Walk(r, S, k) \in Seq(S)
           /\ Len(Walk(r, S, k)) = Depth(r, S)
<1>1. Depth(r, S) \in Nat
  BY DepthIs
<1> DEFINE w == [i \in 1..Depth(r, S) |->
                    CHOOSE n \in S : Cardinality(Nearer(S, n, k)) = i - 1]
<1>2. Walk(r, S, k) = w
  BY Zenon DEF Walk, Depth, Nearer
<1>3. \A i \in 1..Depth(r, S) : w[i] \in S
  BY <1>2, WalkAt, Zenon
<1>4. w \in [1..Depth(r, S) -> S]
  BY <1>3
<1> HIDE DEF w
<1> QED
  BY <1>1, <1>2, <1>4

\* The table holds the walks.
LEMMA BuildAt ==
    ASSUME NEW r \in 1..Cardinality(Nodes), NEW S \in SUBSET Nodes, NEW k \in Keys
    PROVE  Build[r][S][k] = Walk(r, S, k)
<1> DEFINE table == [q \in 1..Cardinality(Nodes) |->
                        [R \in SUBSET Nodes |-> [j \in Keys |-> Walk(q, R, j)]]]
<1>1. Build = table
  BY DEF Build
<1>2. table[r][S][k] = Walk(r, S, k)
  BY Zenon
<1> QED
  BY <1>1, <1>2

-----------------------------------------------------------------------------
(***************************************************************************)
(* The ring and the membership.  A node whose changes have not overlapped  *)
(* either has built the ring of its membership or has exactly that one     *)
(* node list on its way to Build.                                          *)
(***************************************************************************)
InStep(n) ==
    ~overlapped[n] =>
        \/ building[n] = {} /\ ring[n] = members[n]
        \/ building[n] = {members[n]}

RingInv ==
    /\ scenario \in Scenarios
    /\ DOMAIN members = Nodes /\ DOMAIN building = Nodes
    /\ DOMAIN ring = Nodes /\ DOMAIN overlapped = Nodes
    /\ \A n \in Nodes : InStep(n)

\* The loops and the environment leave the membership and the ring alone:
\* only news of a change and a build touch them.
LEMMA LoopFrame ==
    ASSUME NEW n, Loop(n)
    PROVE  UNCHANGED <<scenario, membershipVars>>
BY DEF Loop, Rebalancing, Syncing, Repairing, RebalanceStep, SyncStep, RepairStep,
     collectRebalanceCandidates, migrateForward, migrateRelease, replDiffKey,
     replicateNewReplicas, shedRemovedKeys, runAutoSyncTick, FetchMerkle, syncWithStatus,
     ForwardGet, fetchAndAdopt, updateAutoSyncBackoff, run, flushPeer, flushDone, Quiet,
     clusterVars, membershipVars

LEMMA EnvironmentFrame ==
    ASSUME NEW n, Environment(n)
    PROVE  UNCHANGED <<scenario, membershipVars>>
BY DEF Environment, Cluster, Repairing, Listing, PrimarySet, PrimaryRemove, ReadRepair,
     stop, Restart, ListStep, ListKeys, collectPeerKeys, result, clusterVars, membershipVars

LEMMA SupportFrame ==
    ASSUME NEW n, Support(n)
    PROVE  \/ MembershipChange(n) \/ RingBuild(n)
           \/ UNCHANGED <<scenario, membershipVars>>
BY DEF Support, Cluster, Rebalancing, Syncing, Repairing, ReplayHint, GraceElapses,
     TombExpires, compactTombstones, SendRepair, clusterVars, membershipVars

\* A node that runs is a node.
LEMMA RunningNodes ==
    ASSUME scenario \in Scenarios
    PROVE  scenario.nodes \subseteq Nodes
BY ScenarioAssumption DEF Scenario

LEMMA ChangedKeepsRingInv ==
    ASSUME RingInv, NEW n \in Nodes, NEW S, Changed(n, S), UNCHANGED <<scenario, ring>>
    PROVE  RingInv'
BY DEF RingInv, Changed, InStep

LEMMA MembershipChangeKeepsRingInv ==
    ASSUME RingInv, NEW n \in Nodes, MembershipChange(n)
    PROVE  RingInv'
<1>1. UNCHANGED <<scenario, ring>>
  BY DEF MembershipChange
<1>2. (\E S : Changed(n, S)) \/ UNCHANGED <<members, building, overlapped>>
  BY DEF MembershipChange, Upsert, RemoveMember
<1>3. CASE UNCHANGED <<members, building, overlapped>>
  BY <1>1, <1>3 DEF RingInv, InStep
<1> QED
  BY <1>1, <1>2, <1>3, ChangedKeepsRingInv

LEMMA RingBuildKeepsRingInv ==
    ASSUME RingInv, NEW n \in Nodes, RingBuild(n)
    PROVE  RingInv'
BY DEF RingInv, RingBuild, InStep

(***************************************************************************)
(* Upsert and Remove release the membership lock before they build the     *)
(* ring.  In every deployment a node whose changes have not overlapped and *)
(* that has no build under way has the ring of its membership.             *)
(***************************************************************************)
THEOREM RingMatches == Spec => []RingFollowsMembership
<1>1. Init => RingInv
  BY DEF Init, NewDistMemory, RingInv, InStep
<1>2. RingInv /\ [Next]_vars => RingInv'
  <2> SUFFICES ASSUME RingInv, [Next]_vars PROVE RingInv'
    OBVIOUS
  <2>1. CASE UNCHANGED <<scenario, membershipVars>>
    BY <2>1 DEF RingInv, InStep, membershipVars
  <2>2. CASE UNCHANGED vars
    BY <2>2, <2>1 DEF vars, clusterVars
  <2>3. ASSUME NEW n \in scenario.nodes, Loop(n) \/ Support(n) \/ Environment(n)
        PROVE  RingInv'
    <3>1. n \in Nodes
      BY RunningNodes DEF RingInv
    <3> QED
      BY <3>1, <2>1, <2>3, LoopFrame, SupportFrame, EnvironmentFrame,
         MembershipChangeKeepsRingInv, RingBuildKeepsRingInv
  <2> QED
    BY <2>2, <2>3 DEF Next
<1>3. RingInv => RingFollowsMembership
  BY DEF RingInv, InStep, RingFollowsMembership
<1> QED
  BY <1>1, <1>2, <1>3, PTL DEF Spec

-----------------------------------------------------------------------------
(***************************************************************************)
(* Type correctness.  What the actions need beyond the type invariant: the *)
(* shape of the tables whose values it does not bound.                     *)
(***************************************************************************)
OwnersShape ==
    /\ DOMAIN originalOwners = Nodes
    /\ \A n \in Nodes : DOMAIN originalOwners[n] = Keys

\* What Lookup rests on.
RingOK == scenario \in Scenarios /\ ring \in [Nodes -> SUBSET Nodes]

LEMMA LookupIs ==
    ASSUME RingOK, NEW n \in Nodes, NEW k \in Keys
    PROVE  /\ scenario.replication \in Nat
           /\ ring[n] \in SUBSET Nodes
           /\ Lookup(n, k) = Walk(scenario.replication, ring[n], k)
<1>1. scenario.replication \in 1..Cardinality(Nodes)
  BY ScenarioAssumption DEF RingOK, Scenario
<1>2. ring[n] \in SUBSET Nodes
  BY DEF RingOK
<1>3. Cardinality(Nodes) \in Nat
  BY RingAssumption, FS_CardinalityType
<1> QED
  BY <1>1, <1>2, <1>3, BuildAt DEF Lookup

\* The owners of a key are nodes of the ring.
LEMMA LookupSeq ==
    ASSUME RingOK, NEW n \in Nodes, NEW k \in Keys
    PROVE  Lookup(n, k) \in Seq(ring[n]) /\ ring[n] \in SUBSET Nodes
BY LookupIs, WalkSeq

LEMMA OwnersAreNodes ==
    ASSUME RingOK, NEW n \in Nodes, NEW k \in Keys
    PROVE  Range(Lookup(n, k)) \subseteq Nodes
<1>1. Lookup(n, k) \in Seq(Nodes)
  BY LookupSeq
<1> QED
  BY <1>1 DEF Range

LEMMA HeadIsNode ==
    ASSUME RingOK, NEW n \in Nodes, NEW k \in Keys, Lookup(n, k) # <<>>
    PROVE  Head(Lookup(n, k)) \in ring[n] /\ Head(Lookup(n, k)) \in Nodes
BY LookupSeq

LEMMA ReplicasAreNodes ==
    ASSUME RingOK, NEW n \in Nodes, NEW k \in Keys
    PROVE  OtherReplicas(n, k) \in SUBSET Nodes
<1>1. CASE Lookup(n, k) = <<>>
  BY <1>1 DEF OtherReplicas
<1>2. CASE Lookup(n, k) # <<>>
  <2>1. Lookup(n, k) \in Seq(Nodes)
    BY LookupSeq
  <2>2. Tail(Lookup(n, k)) \in Seq(Nodes)
    BY <2>1, <1>2
  <2>3. Range(Tail(Lookup(n, k))) \subseteq Nodes
    BY <2>2 DEF Range
  <2> QED
    BY <2>3, <1>2 DEF OtherReplicas
<1> QED
  BY <1>1, <1>2

LEMMA TargetsAreNodes ==
    ASSUME RingOK, NEW m \in Nodes, NEW k \in Keys, NEW replicate
    PROVE  Targets(m, k, replicate) \in SUBSET Nodes
BY ReplicasAreNodes DEF Targets

\* A call that is dropped is one of those made, and the faults pay for it.
LEMMA DropsTyped ==
    ASSUME left \in [Bounds -> Nat], NEW S \in SUBSET Nodes, NEW D \in Drops(S)
    PROVE  /\ D \in SUBSET S /\ IsFiniteSet(D)
           /\ Cardinality(D) \in Nat /\ Cardinality(D) <= left.faults
BY RingAssumption, FS_Subset, FS_CardinalityType DEF Drops

LEMMA ForwardDropsTyped ==
    ASSUME RingOK, left \in [Bounds -> Nat], NEW m \in Nodes, NEW k \in Keys,
           NEW replicate, NEW D \in ForwardDrops(m, k, replicate)
    PROVE  /\ D \in SUBSET Nodes /\ IsFiniteSet(D)
           /\ Cardinality(D) \in Nat /\ Cardinality(D) <= left.faults
<1>1. CASE D \in Drops({m})
  BY <1>1, DropsTyped
<1>2. CASE D \in Drops(Targets(m, k, replicate) \ {m})
  <2>1. Targets(m, k, replicate) \ {m} \in SUBSET Nodes
    BY TargetsAreNodes
  <2> QED
    BY <2>1, <1>2, DropsTyped
<1> QED
  BY <1>1, <1>2 DEF ForwardDrops

LEMMA DroppedTyped ==
    ASSUME left \in [Bounds -> Nat], NEW D, Dropped(D),
           Cardinality(D) \in Nat, Cardinality(D) <= left.faults
    PROVE  left' \in [Bounds -> Nat]
BY DEF Dropped, Bounds

-----------------------------------------------------------------------------
\* The three tables applySet writes.
OwnerLists(k) ==
    {<<>>} \cup {Build[scenario.replication][S][k] : S \in SUBSET Nodes}

ShardsOK ==
    /\ items \in [Nodes -> [Keys -> Item]]
    /\ originalPrimary \in [Nodes -> [Keys -> Nodes \cup {0}]]
    /\ OwnersShape
    /\ \A n \in Nodes, k \in Keys : originalOwners[n][k] \in OwnerLists(k)

\* The rest of the store.
RestOK ==
    /\ scenario \in Scenarios
    /\ members \in [Nodes -> SUBSET Nodes] /\ ring \in [Nodes -> SUBSET Nodes]
    /\ building \in [Nodes -> SUBSET SUBSET Nodes]
    /\ todo \in [Nodes -> Seq(Change)]
    /\ overlapped \in [Nodes -> BOOLEAN]

LogOK ==
    /\ left \in [Bounds -> Nat]
    /\ tombs \in [Nodes -> [Keys -> Tomb]]
    /\ versionCounter \in [Nodes -> Nat] /\ tombVersionCounter \in [Nodes -> Nat]
    /\ hints \subseteq [from : Nodes, to : Nodes, key : Keys, item : Item]
    /\ dropped \subseteq Keys /\ refused \subseteq Keys

ClusterOK == RestOK /\ ShardsOK /\ LogOK

LEMMA RingOKOf == ASSUME ClusterOK PROVE RingOK
BY DEF ClusterOK, RestOK, RingOK

LEMMA LookupListed ==
    ASSUME RingOK, NEW n \in Nodes, NEW k \in Keys
    PROVE  Lookup(n, k) \in OwnerLists(k)
BY DEF RingOK, Lookup, OwnerLists

LEMMA NoItemTyped == NoItem \in Item /\ ~Present(NoItem)
BY DEF NoItem, Item, Present

LEMMA PlantedTyped ==
    ASSUME items \in [Nodes -> [Keys -> Item]], NEW R, NEW k \in Keys, NEW it \in Item
    PROVE  Planted(R, k, it) \in [Nodes -> [Keys -> Item]]
BY DEF Planted

LEMMA PrimaryTyped ==
    ASSUME RingOK, ShardsOK, NEW R, NEW k \in Keys
    PROVE  recordOriginalPrimary(R, k) \in [Nodes -> [Keys -> Nodes \cup {0}]]
<1>1. ASSUME NEW n \in Nodes, First(R, n, k)
      PROVE  [originalPrimary[n] EXCEPT ![k] = Head(Lookup(n, k))]
                \in [Keys -> Nodes \cup {0}]
  <2>1. Head(Lookup(n, k)) \in Nodes
    BY <1>1, HeadIsNode DEF First
  <2> QED
    BY <2>1 DEF ShardsOK
<1> QED
  BY <1>1 DEF recordOriginalPrimary, ShardsOK

LEMMA OwnersTyped ==
    ASSUME RingOK, ShardsOK, NEW R, NEW k \in Keys
    PROVE  /\ DOMAIN recordOriginalOwners(R, k) = Nodes
           /\ \A n \in Nodes :
                /\ DOMAIN recordOriginalOwners(R, k)[n] = Keys
                /\ \A j \in Keys : recordOriginalOwners(R, k)[n][j] \in OwnerLists(j)
BY LookupListed DEF recordOriginalOwners, ShardsOK, OwnersShape

LEMMA ShardsOf ==
    ASSUME RingOK, ShardsOK, UNCHANGED scenario, NEW R, NEW k \in Keys, NEW it \in Item,
           items' = Planted(R, k, it), originalPrimary' = recordOriginalPrimary(R, k),
           originalOwners' = recordOriginalOwners(R, k)
    PROVE  ShardsOK'
<1>1. \A j \in Keys : OwnerLists(j)' = OwnerLists(j)
  BY DEF OwnerLists
<1>2. items' \in [Nodes -> [Keys -> Item]]
  BY PlantedTyped DEF ShardsOK
<1>3. originalPrimary' \in [Nodes -> [Keys -> Nodes \cup {0}]]
  BY PrimaryTyped
<1>4. OwnersShape' /\ \A n \in Nodes, j \in Keys : originalOwners'[n][j] \in OwnerLists(j)
  BY OwnersTyped DEF OwnersShape
<1> QED
  BY <1>1, <1>2, <1>3, <1>4 DEF ShardsOK

LEMMA ApplySetTyped ==
    ASSUME RingOK, ShardsOK, UNCHANGED scenario, NEW R, NEW k \in Keys, NEW it \in Item,
           applySet(R, k, it)
    PROVE  ShardsOK'
BY ShardsOf DEF applySet

LEMMA RefusingTyped ==
    ASSUME refused \subseteq Keys, NEW k \in Keys, NEW S, Refusing(S, k)
    PROVE  refused' \subseteq Keys
BY DEF Refusing

LEMMA ForwardSetTyped ==
    ASSUME RingOK, ShardsOK, LogOK, UNCHANGED scenario,
           NEW m \in Nodes, NEW k \in Keys, NEW it \in Item, NEW replicate,
           NEW D \in ForwardDrops(m, k, replicate), ForwardSet(m, k, it, replicate, D)
    PROVE  ShardsOK' /\ refused' \subseteq Keys /\ left' \in [Bounds -> Nat]
<1>1. left' \in [Bounds -> Nat]
  BY ForwardDropsTyped, DroppedTyped DEF ForwardSet, LogOK
<1>2. PICK R, S : applySet(R, k, it) /\ Refusing(S, k)
  BY DEF ForwardSet, applyForwardedSet
<1> QED
  BY <1>1, <1>2, ApplySetTyped, RefusingTyped DEF LogOK

-----------------------------------------------------------------------------
\* The parts of the store that keep their values keep their types.
LEMMA ShardsFrame ==
    ASSUME ShardsOK, UNCHANGED <<scenario, shardVars>>
    PROVE  ShardsOK'
BY DEF ShardsOK, shardVars, OwnersShape, OwnerLists

LEMMA ShardsItems ==
    ASSUME ShardsOK, items' \in [Nodes -> [Keys -> Item]],
           originalPrimary' \in [Nodes -> [Keys -> Nodes \cup {0}]],
           UNCHANGED <<scenario, originalOwners>>
    PROVE  ShardsOK'
<1>1. \A k : OwnerLists(k)' = OwnerLists(k)
  BY DEF OwnerLists
<1>2. OwnersShape'
  BY DEF ShardsOK, OwnersShape
<1> QED
  BY <1>1, <1>2 DEF ShardsOK

LEMMA RestFrame ==
    ASSUME RestOK, UNCHANGED <<scenario, membershipVars>>
    PROVE  RestOK'
BY DEF RestOK, membershipVars

LEMMA ClusterFrame ==
    ASSUME ClusterOK, UNCHANGED clusterVars
    PROVE  ClusterOK'
<1>1. LogOK'
  BY DEF ClusterOK, LogOK, clusterVars, deleteVars
<1> QED
  BY <1>1, ShardsFrame, RestFrame DEF ClusterOK, clusterVars

LEMMA MembershipChangeTyped ==
    ASSUME ClusterOK, NEW n \in Nodes, MembershipChange(n)
    PROVE  ClusterOK'
<1> DEFINE c == Head(todo[n])
<1>1. RestOK /\ ShardsOK /\ LogOK
  BY DEF ClusterOK
<1>2. todo[n] \in Seq(Change) /\ todo[n] # <<>>
  BY <1>1 DEF RestOK, MembershipChange
<1>3. c \in Change /\ Tail(todo[n]) \in Seq(Change)
  BY <1>2
<1>4. todo' \in [Nodes -> Seq(Change)]
  BY <1>1, <1>3 DEF RestOK, MembershipChange
<1>5. \/ \E S \in SUBSET Nodes : Changed(n, S)
      \/ UNCHANGED <<members, building, overlapped>>
  <2>1. members[n] \in SUBSET Nodes
    BY <1>1 DEF RestOK
  <2>2. members[n] \cup {c.node} \in SUBSET Nodes
    BY <2>1, <1>3 DEF Change
  <2> QED
    BY <2>1, <2>2 DEF MembershipChange, Upsert, RemoveMember
<1>6. members' \in [Nodes -> SUBSET Nodes] /\ building' \in [Nodes -> SUBSET SUBSET Nodes]
  <2>1. ASSUME NEW S \in SUBSET Nodes, Changed(n, S)
        PROVE  members' \in [Nodes -> SUBSET Nodes]
    BY <1>1, <2>1 DEF RestOK, Changed
  <2>2. ASSUME NEW S \in SUBSET Nodes, Changed(n, S)
        PROVE  building' \in [Nodes -> SUBSET SUBSET Nodes]
    <3>1. building[n] \cup {S} \in SUBSET SUBSET Nodes
      BY <1>1 DEF RestOK
    <3> QED
      BY <1>1, <2>2, <3>1 DEF RestOK, Changed
  <2> QED
    BY <1>1, <1>5, <2>1, <2>2 DEF RestOK
<1>10. overlapped' \in [Nodes -> BOOLEAN]
  BY <1>1, <1>5, Zenon DEF RestOK, Changed
<1>7. RestOK'
  BY <1>1, <1>4, <1>6, <1>10 DEF RestOK, MembershipChange
<1>8. LogOK'
  BY <1>1 DEF LogOK, MembershipChange, deleteVars
<1>9. ShardsOK'
  BY <1>1, ShardsFrame DEF MembershipChange
<1> QED
  BY <1>7, <1>8, <1>9 DEF ClusterOK

LEMMA RingBuildTyped ==
    ASSUME ClusterOK, NEW n \in Nodes, RingBuild(n)
    PROVE  ClusterOK'
<1>1. RestOK /\ ShardsOK /\ LogOK
  BY DEF ClusterOK
<1>2. RestOK'
  BY <1>1 DEF RestOK, RingBuild
<1>3. LogOK'
  BY <1>1 DEF LogOK, RingBuild, deleteVars
<1>4. ShardsOK'
  BY <1>1, ShardsFrame DEF RingBuild
<1> QED
  BY <1>2, <1>3, <1>4 DEF ClusterOK

\* queueHint keeps what it is given or what it had, or tells of it.
Hint == [from : Nodes, to : Nodes, key : Keys, item : Item]

LEMMA QueueHintKeeps ==
    ASSUME NEW H, queueHint(H)
    PROVE  /\ hints' \subseteq hints \cup H /\ dropped \subseteq dropped'
           /\ dropped' \subseteq dropped \cup {h.key : h \in hints \cup H}
           /\ \A h \in hints : h \in hints' \/ h.key \in dropped'
           /\ scenario.hints => \A h \in H : h \in hints' \/ h.key \in dropped'
BY DEF queueHint

LEMMA QueueHintTyped ==
    ASSUME LogOK, NEW H \in SUBSET Hint, queueHint(H)
    PROVE  hints' \subseteq Hint /\ dropped' \subseteq Keys
<1>1. hints \subseteq Hint /\ dropped \subseteq Keys
  BY DEF LogOK, Hint
<1>2. \A h \in hints \cup H : h.key \in Keys
  BY <1>1 DEF Hint
<1> QED
  BY <1>1, <1>2, QueueHintKeeps

LEMMA PrimarySetTyped ==
    ASSUME ClusterOK, NEW n \in Nodes, NEW k \in Keys, PrimarySet(n, k)
    PROVE  ClusterOK'
<1> DEFINE it == [version |-> versionCounter[n] + 1, origin |-> n]
           H(D) == {[from |-> n, to |-> m, key |-> k, item |-> it] : m \in D}
<1>1. RestOK /\ ShardsOK /\ LogOK /\ RingOK
  BY RingOKOf DEF ClusterOK
<1>2. it \in Item
  BY <1>1, RingAssumption DEF LogOK, Item
<1>3. OtherReplicas(n, k) \in SUBSET Nodes
  BY <1>1, ReplicasAreNodes
<1>4. UNCHANGED <<scenario, membershipVars, deleteVars>>
  BY DEF PrimarySet
<1>5. PICK D \in Drops(OtherReplicas(n, k)) :
        /\ applyForwardedSet(OtherReplicas(n, k) \ D, {n}, k, it)
        /\ queueHint(H(D))
        /\ left' = [left EXCEPT !.writes = @ - 1, !.faults = @ - Cardinality(D)]
  BY DEF PrimarySet
<1>6. /\ D \in SUBSET Nodes /\ Cardinality(D) \in Nat /\ Cardinality(D) <= left.faults
  BY <1>1, <1>3, DropsTyped DEF LogOK
<1>7. left' \in [Bounds -> Nat]
  <2>1. left.writes \in Nat /\ left.faults \in Nat /\ left.writes > 0
    BY <1>1 DEF LogOK, PrimarySet, Bounds
  <2>2. left.writes - 1 \in Nat /\ left.faults - Cardinality(D) \in Nat
    BY <2>1, <1>6
  <2> QED
    BY <1>1, <1>5, <2>2 DEF LogOK, Bounds
<1>8. ShardsOK'
  BY <1>1, <1>2, <1>4, <1>5, ApplySetTyped DEF applyForwardedSet
<1>9. refused' \subseteq Keys
  BY <1>1, <1>5, RefusingTyped DEF applyForwardedSet, LogOK
<1>10. H(D) \subseteq Hint
  BY <1>2, <1>6 DEF Hint
<1>11. hints' \subseteq Hint /\ dropped' \subseteq Keys
  <2> HIDE DEF H
  <2> QED
    BY <1>1, <1>5, <1>10, QueueHintTyped
<1>12. versionCounter' \in [Nodes -> Nat]
  BY <1>1 DEF LogOK, PrimarySet
<1>13. LogOK'
  BY <1>1, <1>4, <1>7, <1>9, <1>11, <1>12 DEF LogOK, Hint, deleteVars
<1> QED
  BY <1>1, <1>4, <1>8, <1>13, RestFrame DEF ClusterOK

LEMMA ReplayHintTyped ==
    ASSUME ClusterOK, NEW n \in Nodes, ReplayHint(n)
    PROVE  ClusterOK'
<1>1. RestOK /\ ShardsOK /\ LogOK /\ RingOK
  BY RingOKOf DEF ClusterOK
<1>2. PICK h \in hints : processHint(h)
  BY DEF ReplayHint
<1>3. h.to \in Nodes /\ h.key \in Keys /\ h.item \in Item
  BY <1>1 DEF LogOK
<1>4. ShardsOK' /\ refused' \subseteq Keys /\ left' \in [Bounds -> Nat]
  <2>1. CASE HintExpires(h)
    BY <1>1, <2>1, ShardsFrame DEF HintExpires, ReplayHint, LogOK, membershipVars
  <2>2. ASSUME NEW D \in ForwardDrops(h.to, h.key, FALSE),
               ForwardSet(h.to, h.key, h.item, FALSE, D)
        PROVE  ShardsOK' /\ refused' \subseteq Keys /\ left' \in [Bounds -> Nat]
    BY <1>1, <1>3, <2>2, ForwardSetTyped DEF ReplayHint
  <2> QED
    BY <1>2, <2>1, <2>2 DEF processHint
<1>5. hints' \subseteq hints /\ dropped' \subseteq dropped \cup {h.key}
  BY <1>2 DEF processHint, HintExpires
<1>6. LogOK'
  BY <1>1, <1>3, <1>4, <1>5 DEF LogOK, ReplayHint, deleteVars
<1> QED
  BY <1>1, <1>4, <1>6, RestFrame DEF ClusterOK, ReplayHint

LEMMA ApplyRemoveTyped ==
    ASSUME items \in [Nodes -> [Keys -> Item]], tombs \in [Nodes -> [Keys -> Tomb]],
           tombVersionCounter \in [Nodes -> Nat], NEW R, NEW k \in Keys, applyRemove(R, k)
    PROVE  /\ items' \in [Nodes -> [Keys -> Item]] /\ tombs' \in [Nodes -> [Keys -> Tomb]]
           /\ tombVersionCounter' \in [Nodes -> Nat]
<1>1. items' \in [Nodes -> [Keys -> Item]]
  BY NoItemTyped DEF applyRemove
<1>2. tombVersionCounter' \in [Nodes -> Nat]
  BY DEF applyRemove
<1> DEFINE ver(n) == IF Present(items[n][k]) THEN items[n][k].version + 1
                     ELSE tombVersionCounter[n] + 1
           tomb(n) == [version |-> ver(n), old |-> FALSE]
<1>3. ASSUME NEW n \in Nodes PROVE tomb(n) \in Tomb
  BY DEF Tomb, Item
<1>4. tombs' = [n \in Nodes |-> IF n \in R THEN [tombs[n] EXCEPT ![k] = tomb(n)]
                                ELSE tombs[n]]
  BY DEF applyRemove
<1>5. tombs' \in [Nodes -> [Keys -> Tomb]]
  <2> HIDE DEF tomb
  <2> QED
    BY <1>3, <1>4
<1> QED
  BY <1>1, <1>2, <1>5

LEMMA PrimaryRemoveTyped ==
    ASSUME ClusterOK, NEW n \in Nodes, NEW k \in Keys, PrimaryRemove(n, k)
    PROVE  ClusterOK'
<1>1. RestOK /\ ShardsOK /\ LogOK /\ RingOK
  BY RingOKOf DEF ClusterOK
<1>2. OtherReplicas(n, k) \in SUBSET Nodes
  BY <1>1, ReplicasAreNodes
<1>3. PICK D \in Drops(OtherReplicas(n, k)) :
        /\ applyRemove(({n} \cup OtherReplicas(n, k)) \ D, k)
        /\ left' = [left EXCEPT !.removes = @ - 1, !.faults = @ - Cardinality(D)]
  BY DEF PrimaryRemove
<1>4. D \in SUBSET Nodes /\ Cardinality(D) \in Nat /\ Cardinality(D) <= left.faults
  BY <1>1, <1>2, DropsTyped DEF LogOK
<1>5. left' \in [Bounds -> Nat]
  <2>1. left.removes \in Nat /\ left.faults \in Nat /\ left.removes > 0
    BY <1>1 DEF LogOK, PrimaryRemove, Bounds
  <2>2. left.removes - 1 \in Nat /\ left.faults - Cardinality(D) \in Nat
    BY <2>1, <1>4
  <2> QED
    BY <1>1, <1>3, <2>2 DEF LogOK, Bounds
<1>6. /\ items' \in [Nodes -> [Keys -> Item]] /\ tombs' \in [Nodes -> [Keys -> Tomb]]
      /\ tombVersionCounter' \in [Nodes -> Nat]
  BY <1>1, <1>3, ApplyRemoveTyped DEF ShardsOK, LogOK
<1>9. UNCHANGED <<scenario, originalPrimary, originalOwners>>
  BY DEF PrimaryRemove
<1>7. ShardsOK'
  BY <1>1, <1>6, <1>9, ShardsItems DEF ShardsOK
<1>8. LogOK'
  BY <1>1, <1>5, <1>6 DEF LogOK, PrimaryRemove
<1> QED
  BY <1>1, <1>7, <1>8, RestFrame DEF ClusterOK, PrimaryRemove

-----------------------------------------------------------------------------
(***************************************************************************)
(* The rebalance loop.                                                     *)
(***************************************************************************)
RemovalMarks == {"none", "new", "recorded", "elapsed"}

LEMMA NothingTyped == Nothing \in [Keys -> Item]
BY NoItemTyped DEF Nothing

LEMMA NoTickTyped ==
    NoTick \in [pc : {"idle", "migrate", "diff"}, batch : [Keys -> Item],
                sent : [Keys -> Nodes \cup {0}], processed : Nat]
BY NothingTyped DEF NoTick

LEMMA RecordTyped ==
    ASSUME removedAt \in [Nodes -> [Keys -> RemovalMarks]], NEW n \in Nodes, NEW K
    PROVE  [removedAt EXCEPT ![n] = maybeRecordRemoval(n, K)]
              \in [Nodes -> [Keys -> RemovalMarks]]
<1>1. maybeRecordRemoval(n, K) \in [Keys -> RemovalMarks]
  BY DEF maybeRecordRemoval, RemovalMarks
<1> QED
  BY <1>1

LEMMA CollectTyped ==
    ASSUME ClusterOK, RebalanceTypeOK, NEW n \in Nodes, collectRebalanceCandidates(n)
    PROVE  ClusterOK' /\ RebalanceTypeOK'
<1>1. ClusterOK'
  BY ClusterFrame DEF collectRebalanceCandidates
<1> DEFINE held == {k \in Keys : Present(items[n][k])}
           b == [k \in Keys |-> IF k \in held /\ shouldRebalance(n, k)
                                THEN items[n][k] ELSE NoItem]
<1>2. b \in [Keys -> Item]
  BY NoItemTyped DEF ClusterOK, ShardsOK
<1>3. tick' = [tick EXCEPT ![n].pc = "migrate", ![n].batch = b]
  BY DEF collectRebalanceCandidates
<1>4. removedAt' = [removedAt EXCEPT ![n] = maybeRecordRemoval(n, held)]
  BY DEF collectRebalanceCandidates
<1>5. removedAt' \in [Nodes -> [Keys -> RemovalMarks]]
  BY <1>4, RecordTyped DEF RebalanceTypeOK, RemovalMarks
<1> HIDE DEF b
<1> QED
  BY <1>1, <1>2, <1>3, <1>5 DEF RebalanceTypeOK, RemovalMarks

LEMMA MigrateForwardTyped ==
    ASSUME ClusterOK, RebalanceTypeOK, NEW n \in Nodes, NEW k \in Keys, migrateForward(n, k)
    PROVE  ClusterOK' /\ RebalanceTypeOK'
<1>1. RestOK /\ ShardsOK /\ LogOK /\ RingOK
  BY RingOKOf DEF ClusterOK
<1>2. CASE Lookup(n, k) = <<>> \/ IsPrimary(n, k)
  <2>1. tick' = [tick EXCEPT ![n].batch[k] = NoItem] /\ UNCHANGED <<clusterVars, removedAt>>
    BY <1>2 DEF migrateForward
  <2> QED
    BY <2>1, ClusterFrame, NoItemTyped DEF RebalanceTypeOK
<1>3. CASE ~(Lookup(n, k) = <<>> \/ IsPrimary(n, k))
  <2> DEFINE to == Head(Lookup(n, k))
             it == tick[n].batch[k]
  <2>1. PICK D \in ForwardDrops(to, k, TRUE) :
          /\ ForwardSet(to, k, it, TRUE, D)
          /\ IF to \in D
             THEN queueHint({[from |-> n, to |-> to, key |-> k, item |-> it]})
             ELSE UNCHANGED hintVars
          /\ tick' = [tick EXCEPT ![n].sent[k] = to]
          /\ UNCHANGED <<scenario, membershipVars, deleteVars, versionCounter>>
    BY <1>3 DEF migrateForward
  <2>2. to \in Nodes /\ it \in Item
    BY <1>1, <1>3, HeadIsNode DEF RebalanceTypeOK
  <2> HIDE DEF to, it
  <2>3. ShardsOK' /\ refused' \subseteq Keys /\ left' \in [Bounds -> Nat]
    BY <1>1, <2>1, <2>2, ForwardSetTyped
  <2>4. hints' \subseteq Hint /\ dropped' \subseteq Keys
    <3>1. [from |-> n, to |-> to, key |-> k, item |-> it] \in Hint
      BY <2>2 DEF Hint
    <3>2. CASE to \in D
      BY <1>1, <2>1, <3>1, <3>2, QueueHintTyped
    <3>3. CASE to \notin D
      BY <1>1, <2>1, <3>3 DEF LogOK, Hint
    <3> QED
      BY <3>2, <3>3
  <2>5. LogOK'
    BY <1>1, <2>1, <2>3, <2>4 DEF LogOK, Hint, deleteVars
  <2>6. ClusterOK'
    BY <1>1, <2>1, <2>3, <2>5, RestFrame DEF ClusterOK
  <2>7. removedAt' = removedAt
    BY DEF migrateForward
  <2> QED
    BY <2>1, <2>2, <2>6, <2>7 DEF RebalanceTypeOK
<1> QED
  BY <1>2, <1>3

TickRecord == [pc : {"idle", "migrate", "diff"}, batch : [Keys -> Item],
               sent : [Keys -> Nodes \cup {0}], processed : Nat]

LEMMA TickTyped ==
    ASSUME RebalanceTypeOK
    PROVE  tick \in [Nodes -> TickRecord]
BY DEF RebalanceTypeOK, TickRecord

LEMMA TickSet ==
    ASSUME RebalanceTypeOK, NEW n \in Nodes, NEW r \in TickRecord,
           tick' = [tick EXCEPT ![n] = r]
    PROVE  tick' \in [Nodes -> [pc : {"idle", "migrate", "diff"}, batch : [Keys -> Item],
                                sent : [Keys -> Nodes \cup {0}], processed : Nat]]
<1>1. tick' \in [Nodes -> TickRecord]
  BY TickTyped
<1> QED
  BY <1>1 DEF TickRecord

LEMMA MigrateReleaseTyped ==
    ASSUME ClusterOK, RebalanceTypeOK, NEW n \in Nodes, NEW k \in Keys, migrateRelease(n, k)
    PROVE  ClusterOK' /\ RebalanceTypeOK'
<1>1. RestOK /\ ShardsOK /\ LogOK
  BY DEF ClusterOK
<1>2. items' \in [Nodes -> [Keys -> Item]]
  BY <1>1, NoItemTyped DEF ShardsOK, migrateRelease
<1>3. originalPrimary' \in [Nodes -> [Keys -> Nodes \cup {0}]]
  BY <1>1 DEF ShardsOK, migrateRelease, RebalanceTypeOK
<1>4. UNCHANGED <<scenario, membershipVars, originalOwners, left, deleteVars,
                  versionCounter, hintVars, refused>>
  BY DEF migrateRelease
<1>5. ShardsOK'
  BY <1>1, <1>2, <1>3, <1>4, ShardsItems
<1>6. LogOK'
  BY <1>1, <1>4 DEF LogOK, deleteVars
<1>7. removedAt' \in [Nodes -> [Keys -> RemovalMarks]]
  BY RecordTyped DEF RebalanceTypeOK, RemovalMarks, migrateRelease
<1>8. tick' = [tick EXCEPT ![n].batch[k] = NoItem, ![n].sent[k] = 0]
  BY DEF migrateRelease
<1>9. RestOK'
  BY <1>1, <1>4, RestFrame
<1>10. ClusterOK'
  BY <1>5, <1>6, <1>9 DEF ClusterOK
<1> DEFINE r == [tick[n] EXCEPT !.batch[k] = NoItem, !.sent[k] = 0]
<1>11. r \in TickRecord
  BY TickTyped, NoItemTyped DEF TickRecord
<1>12. tick' = [tick EXCEPT ![n] = r]
  BY <1>8
<1> HIDE DEF r
<1> QED
  BY <1>7, <1>10, <1>11, <1>12, TickSet DEF RebalanceTypeOK, RemovalMarks

LEMMA ReplicateTyped ==
    ASSUME ClusterOK, RebalanceTypeOK, NEW n \in Nodes, replicateNewReplicas(n)
    PROVE  ClusterOK' /\ RebalanceTypeOK'
<1>1. ClusterOK' /\ UNCHANGED removedAt
  BY ClusterFrame DEF replicateNewReplicas
<1>2. tick' = [tick EXCEPT ![n].pc = "diff", ![n].batch = items[n]]
  BY DEF replicateNewReplicas
<1>3. items[n] \in [Keys -> Item]
  BY DEF ClusterOK, ShardsOK
<1> DEFINE r == [tick[n] EXCEPT !.pc = "diff", !.batch = items[n]]
<1>4. r \in TickRecord
  BY <1>3, TickTyped DEF TickRecord
<1>5. tick' = [tick EXCEPT ![n] = r]
  BY <1>2
<1> HIDE DEF r
<1> QED
  BY <1>1, <1>4, <1>5, TickSet DEF RebalanceTypeOK

\* The state after a key of the batch has been handled.
LEMMA HandledTyped ==
    ASSUME RebalanceTypeOK, NEW n \in Nodes, NEW K, NEW count \in Nat,
           tick' = Handled(n, K, count)
    PROVE  tick' \in [Nodes -> [pc : {"idle", "migrate", "diff"}, batch : [Keys -> Item],
                                sent : [Keys -> Nodes \cup {0}], processed : Nat]]
<1> DEFINE b == [k \in Keys |-> IF k \in K THEN NoItem ELSE tick[n].batch[k]]
<1>1. b \in [Keys -> Item]
  BY NoItemTyped DEF RebalanceTypeOK
<1> DEFINE c == tick[n].processed + count
<1>2. tick' = [tick EXCEPT ![n].batch = b, ![n].processed = c]
  BY DEF Handled
<1>3. c \in Nat
  BY DEF RebalanceTypeOK
<1> HIDE DEF b, c
<1> DEFINE r == [tick[n] EXCEPT !.batch = b, !.processed = c]
<1>4. r \in TickRecord
  BY <1>1, <1>3, TickTyped DEF TickRecord
<1>5. tick' = [tick EXCEPT ![n] = r]
  BY <1>2
<1> HIDE DEF r
<1> QED
  BY <1>4, <1>5, TickSet

LEMMA ReplicaDiffTyped ==
    ASSUME RestOK, ShardsOK, LogOK, NEW n \in Nodes, NEW k \in Keys, NEW it \in Item,
           NEW to \in SUBSET Nodes, UNCHANGED scenario, sendReplicaDiff(n, k, it, to)
    PROVE  ShardsOK' /\ left' \in [Bounds -> Nat] /\ refused' \subseteq Keys
<1>1. RingOK
  BY DEF RestOK, RingOK
<1>2. PICK D \in Drops(to) :
        /\ Dropped(D)
        /\ Refusing(to \ D, k)
        /\ items' = Planted(Accepting(to \ D, k), k, it)
        /\ originalPrimary' = recordOriginalPrimary(Accepting(to \ D, k), k)
        /\ originalOwners' = [recordOriginalOwners(Accepting(to \ D, k), k)
                                EXCEPT ![n][k] = Lookup(n, k)]
  BY DEF sendReplicaDiff
<1>3. left' \in [Bounds -> Nat]
  BY <1>2, DropsTyped, DroppedTyped DEF LogOK
<1>4. refused' \subseteq Keys
  BY <1>2, RefusingTyped DEF LogOK
<1>5. items' \in [Nodes -> [Keys -> Item]]
  BY <1>2, PlantedTyped DEF ShardsOK
<1>6. originalPrimary' \in [Nodes -> [Keys -> Nodes \cup {0}]]
  BY <1>1, <1>2, PrimaryTyped
<1> DEFINE o == recordOriginalOwners(Accepting(to \ D, k), k)
<1>7. /\ DOMAIN o = Nodes
      /\ \A m \in Nodes : DOMAIN o[m] = Keys /\ \A j \in Keys : o[m][j] \in OwnerLists(j)
  BY <1>1, OwnersTyped
<1>8. Lookup(n, k) \in OwnerLists(k)
  BY <1>1, LookupListed
<1>9. originalOwners' = [o EXCEPT ![n][k] = Lookup(n, k)]
  BY <1>2
<1> HIDE DEF o
<1>10. /\ DOMAIN originalOwners' = Nodes
       /\ \A m \in Nodes : /\ DOMAIN originalOwners'[m] = Keys
                           /\ \A j \in Keys : originalOwners'[m][j] \in OwnerLists(j)
  BY <1>7, <1>8, <1>9
<1>11. \A j \in Keys : OwnerLists(j)' = OwnerLists(j)
  BY DEF OwnerLists
<1> QED
  BY <1>3, <1>4, <1>5, <1>6, <1>10, <1>11 DEF ShardsOK, OwnersShape

LEMMA FirstReplicasAreNodes ==
    ASSUME RingOK, NEW n \in Nodes, NEW k \in Keys, NEW count,
           NEW P \in SUBSET (2..Len(Lookup(n, k)))
    PROVE  FirstReplicas(n, k, P, count) \in SUBSET Nodes
<1>1. Lookup(n, k) \in Seq(Nodes)
  BY LookupSeq
<1>2. ASSUME NEW i \in P PROVE Lookup(n, k)[i] \in Nodes
  BY <1>1
<1> QED
  BY <1>2 DEF FirstReplicas

LEMMA ReplDiffKeyTyped ==
    ASSUME ClusterOK, RebalanceTypeOK, NEW n \in Nodes, NEW k \in Keys, replDiffKey(n, k)
    PROVE  ClusterOK' /\ RebalanceTypeOK'
<1>1. RestOK /\ ShardsOK /\ LogOK /\ RingOK
  BY RingOKOf DEF ClusterOK
<1>2. tick[n].batch[k] \in Item /\ tick[n].processed \in Nat
  BY DEF RebalanceTypeOK
<1>3. scenario.limit \in Nat
  BY <1>1, ScenarioAssumption DEF RestOK, Scenario
<1>4. CASE Full(n) /\ tick' = Handled(n, Keys, 0) /\ UNCHANGED <<removedAt, clusterVars>>
  BY <1>4, HandledTyped, ClusterFrame DEF RebalanceTypeOK
<1>5. CASE /\ removedAt' = [removedAt EXCEPT ![n] = maybeRecordRemoval(n, {k})]
           /\ tick' = Handled(n, {k}, 0) /\ UNCHANGED clusterVars
  <2>1. removedAt' \in [Nodes -> [Keys -> RemovalMarks]]
    BY <1>5, RecordTyped DEF RebalanceTypeOK, RemovalMarks
  <2> QED
    BY <1>5, <2>1, HandledTyped, ClusterFrame DEF RebalanceTypeOK, RemovalMarks
<1> DEFINE new == computeNewReplicas(n, k)
           count == IF scenario.limit = 0 THEN Cardinality(new)
                    ELSE Min({Cardinality(new), scenario.limit - tick[n].processed})
<1>6. CASE /\ ~Full(n) /\ tick' = Handled(n, {k}, count)
           /\ \/ UNCHANGED <<left, shardVars, refused>>
              \/ sendReplicaDiff(n, k, tick[n].batch[k], FirstReplicas(n, k, new, count))
           /\ UNCHANGED <<removedAt, scenario, membershipVars, deleteVars, versionCounter, hintVars>>
  <2>1. new \in SUBSET (2..Len(Lookup(n, k))) /\ Len(Lookup(n, k)) \in Nat
    BY <1>1, LookupSeq DEF computeNewReplicas
  <2>2. Cardinality(new) \in Nat
    <3>1. IsFiniteSet(2..Len(Lookup(n, k)))
      BY <2>1, FS_Interval
    <3>2. IsFiniteSet(new)
      BY <2>1, <3>1, FS_Subset
    <3> QED
      BY <3>2, FS_CardinalityType
  <2>3. count \in Nat
    <3>1. CASE scenario.limit = 0
      BY <2>2, <3>1
    <3>2. CASE scenario.limit # 0
      <4>1. scenario.limit - tick[n].processed \in Nat
        BY <1>2, <1>3, <3>2, <1>6 DEF Full
      <4>2. Min({Cardinality(new), scenario.limit - tick[n].processed}) \in Nat
        BY <2>2, <4>1, LeastIn
      <4> QED
        BY <3>2, <4>2
    <3> QED
      BY <3>1, <3>2
  <2>4. FirstReplicas(n, k, new, count) \in SUBSET Nodes
    BY <1>1, <2>1, FirstReplicasAreNodes
  <2> HIDE DEF new, count
  <2>5. ShardsOK' /\ left' \in [Bounds -> Nat] /\ refused' \subseteq Keys
    <3>1. CASE UNCHANGED <<left, shardVars, refused>>
      BY <1>1, <1>6, <3>1, ShardsFrame DEF LogOK
    <3> QED
      BY <1>1, <1>2, <1>6, <2>4, <3>1, ReplicaDiffTyped
  <2>6. LogOK'
    BY <1>1, <1>6, <2>5 DEF LogOK, deleteVars
  <2>7. ClusterOK'
    BY <1>1, <1>6, <2>5, <2>6, RestFrame DEF ClusterOK
  <2> QED
    BY <1>6, <2>3, <2>7, HandledTyped DEF RebalanceTypeOK
<1> QED
  BY <1>4, <1>5, <1>6 DEF replDiffKey

LEMMA ShedTyped ==
    ASSUME ClusterOK, RebalanceTypeOK, NEW n \in Nodes, shedRemovedKeys(n)
    PROVE  ClusterOK' /\ RebalanceTypeOK'
<1>1. RestOK /\ ShardsOK /\ LogOK
  BY DEF ClusterOK
<1>2. items' \in [Nodes -> [Keys -> Item]]
  BY <1>1, NoItemTyped DEF ShardsOK, shedRemovedKeys
<1>3. removedAt' \in [Nodes -> [Keys -> RemovalMarks]]
  BY DEF shedRemovedKeys, RebalanceTypeOK, RemovalMarks
<1>4. UNCHANGED <<scenario, left, membershipVars, originalPrimary, originalOwners,
                  deleteVars, versionCounter, hintVars, refused>>
  BY DEF shedRemovedKeys
<1>5. ShardsOK'
  BY <1>1, <1>2, <1>4, ShardsItems DEF ShardsOK
<1>6. LogOK'
  BY <1>1, <1>4 DEF LogOK, deleteVars
<1>7. tick' = [tick EXCEPT ![n] = NoTick]
  BY DEF shedRemovedKeys
<1> QED
  BY <1>1, <1>3, <1>4, <1>5, <1>6, <1>7, RestFrame, NoTickTyped
     DEF ClusterOK, RebalanceTypeOK, RemovalMarks

LEMMA RebalanceStepTyped ==
    ASSUME ClusterOK, RebalanceTypeOK, NEW n \in Nodes, RebalanceStep(n)
    PROVE  ClusterOK' /\ RebalanceTypeOK'
BY CollectTyped, MigrateForwardTyped, MigrateReleaseTyped, ReplDiffKeyTyped,
   ReplicateTyped, ShedTyped DEF RebalanceStep

LEMMA GraceElapsesTyped ==
    ASSUME ClusterOK, RebalanceTypeOK, NEW n \in Nodes, NEW k \in Keys, GraceElapses(n, k)
    PROVE  ClusterOK' /\ RebalanceTypeOK'
BY ClusterFrame DEF GraceElapses, RebalanceTypeOK

-----------------------------------------------------------------------------
(***************************************************************************)
(* Anti-entropy.  A tree is not typed, so the record of a loop is bounded  *)
(* in its other fields only.                                               *)
(***************************************************************************)
SyncRecord(trees, flags) ==
    [pc : {"idle", "peer", "diff", "pull", "adopt"}, peers : SUBSET Nodes,
     peer : Nodes \cup {0}, tree : trees, fetch : SUBSET Keys, key : Keys \cup {0},
     got : Item, synced : flags, dirty : flags]

LoopOf(s) ==
    /\ s \in SyncRecord({s.tree}, {s.synced, s.dirty})
    /\ s.pc \in {"diff", "pull", "adopt"} => s.peer \in Nodes
    /\ s.pc = "adopt" => s.key \in Keys

SyncShape == DOMAIN sync = Nodes /\ \A n \in Nodes : LoopOf(sync[n])

Factors == 1..Max({1, MaxBackoff})

SyncOK == SyncShape /\ backoff \in [Nodes -> Factors]

LEMMA GreatestOfTwo ==
    ASSUME NEW a \in Nat, NEW b \in Nat
    PROVE  Max({a, b}) = IF a >= b THEN a ELSE b
<1>1. \E x \in {a, b} : \A y \in {a, b} : x >= y
  OBVIOUS
<1>2. Max({a, b}) \in {a, b} /\ \A y \in {a, b} : Max({a, b}) >= y
  BY <1>1 DEF Max
<1> QED
  BY <1>2

LEMMA LeastOfTwo ==
    ASSUME NEW a \in Nat, NEW b \in Nat
    PROVE  Min({a, b}) = IF a <= b THEN a ELSE b
<1>1. Min({a, b}) \in {a, b} /\ \A y \in {a, b} : Min({a, b}) <= y
  BY LeastIn
<1> QED
  BY <1>1

LEMMA OneIsAFactor == 1 \in Factors
BY GreatestOfTwo, SyncAssumption DEF Factors

LEMMA NoSyncTyped == LoopOf(NoSync)
BY NoItemTyped DEF LoopOf, NoSync, SyncRecord

\* What a record update does to each field.
LEMMA SyncAt ==
    ASSUME SyncShape, NEW n \in Nodes, NEW r, LoopOf(r), sync' = [sync EXCEPT ![n] = r]
    PROVE  SyncShape'
BY DEF SyncShape

LEMMA RunTickTyped ==
    ASSUME ClusterOK, SyncOK, NEW n \in Nodes, runAutoSyncTick(n)
    PROVE  ClusterOK' /\ SyncOK'
<1> DEFINE r == [NoSync EXCEPT !.pc = "peer", !.peers = members[n] \ {n}]
<1>1. members[n] \ {n} \in SUBSET Nodes
  BY DEF ClusterOK, RestOK
<1>2. LoopOf(r)
  BY <1>1, NoItemTyped DEF LoopOf, NoSync, SyncRecord
<1>3. sync' = [sync EXCEPT ![n] = r] /\ UNCHANGED <<backoff, clusterVars>>
  BY DEF runAutoSyncTick, Quiet
<1> HIDE DEF r
<1> QED
  BY <1>2, <1>3, SyncAt, ClusterFrame DEF SyncOK

\* A step that only spends faults.
LEMMA FaultsOnly ==
    ASSUME ClusterOK, left' \in [Bounds -> Nat],
           UNCHANGED <<scenario, membershipVars, shardVars, deleteVars,
                       versionCounter, hintVars, refused>>
    PROVE  ClusterOK'
<1>1. LogOK'
  BY DEF ClusterOK, LogOK, deleteVars
<1> QED
  BY <1>1, RestFrame, ShardsFrame DEF ClusterOK

LEMMA FetchedLoop ==
    ASSUME NEW x, LoopOf(x), NEW p, NEW dirty, NEW pc \in {"diff", "peer"},
           NEW peer \in Nodes \cup {0}, pc = "diff" => peer \in Nodes, NEW tree
    PROVE  LoopOf([x EXCEPT !.peers = @ \ {p}, !.synced = TRUE, !.dirty = dirty,
                            !.pc = pc, !.peer = peer, !.tree = tree])
<1> DEFINE y == [x EXCEPT !.peers = @ \ {p}, !.synced = TRUE, !.dirty = dirty,
                          !.pc = pc, !.peer = peer, !.tree = tree]
<1>1. x \in SyncRecord({x.tree}, {x.synced, x.dirty})
  BY DEF LoopOf
<1>2. y.tree = tree /\ y.synced = TRUE /\ y.dirty = dirty /\ y.pc = pc /\ y.peer = peer
  BY <1>1 DEF SyncRecord
<1>3. y \in SyncRecord({tree}, {TRUE, dirty})
  BY <1>1 DEF SyncRecord
<1> HIDE DEF y
<1>4. LoopOf(y)
  BY <1>2, <1>3 DEF LoopOf
<1> QED
  BY <1>4 DEF y

LEMMA FetchMerkleTyped ==
    ASSUME ClusterOK, SyncOK, NEW n \in Nodes, FetchMerkle(n)
    PROVE  ClusterOK' /\ SyncOK'
<1> DEFINE r(p, D) == [sync[n] EXCEPT !.peers = @ \ {p}, !.synced = TRUE,
                !.dirty = @ \/ D # {},
                !.pc = IF D = {} THEN "diff" ELSE "peer",
                !.peer = IF D = {} THEN p ELSE 0,
                !.tree = IF D = {} THEN BuildMerkleTree(p) ELSE <<>>]
<1>1. PICK p \in sync[n].peers : \E D \in Drops({p}) :
        sync' = [sync EXCEPT ![n] = r(p, D)] /\ Dropped(D)
  BY DEF FetchMerkle
<1>2. PICK D \in Drops({p}) : sync' = [sync EXCEPT ![n] = r(p, D)] /\ Dropped(D)
  BY <1>1
<1>3. LoopOf(sync[n])
  BY DEF SyncOK, SyncShape
<1>4. p \in Nodes
  BY <1>3 DEF LoopOf, SyncRecord
<1>5. LoopOf(r(p, D))
  <2> DEFINE dirty == sync[n].dirty \/ D # {}
             pc == IF D = {} THEN "diff" ELSE "peer"
             peer == IF D = {} THEN p ELSE 0
             tree == IF D = {} THEN BuildMerkleTree(p) ELSE <<>>
  <2>1. r(p, D) = [sync[n] EXCEPT !.peers = @ \ {p}, !.synced = TRUE, !.dirty = dirty,
                                  !.pc = pc, !.peer = peer, !.tree = tree]
    OBVIOUS
  <2>2. /\ pc \in {"diff", "peer"} /\ peer \in Nodes \cup {0}
        /\ pc = "diff" => peer \in Nodes
    BY <1>4
  <2> HIDE DEF dirty, pc, peer, tree, r
  <2>3. LoopOf([sync[n] EXCEPT !.peers = @ \ {p}, !.synced = TRUE, !.dirty = dirty,
                               !.pc = pc, !.peer = peer, !.tree = tree])
    BY <1>3, <2>2, FetchedLoop
  <2> QED
    BY <2>1, <2>3
<1>6. left' \in [Bounds -> Nat]
  BY <1>2, <1>4, DropsTyped, DroppedTyped DEF ClusterOK, LogOK
<1>7. ClusterOK'
  BY <1>6, FaultsOnly DEF FetchMerkle
<1>8. UNCHANGED backoff
  BY DEF FetchMerkle
<1> HIDE DEF r
<1> QED
  BY <1>2, <1>5, <1>7, <1>8, SyncAt DEF SyncOK

LEMMA KeyListsTyped ==
    ASSUME NEW p, NEW S \in KeyLists(p)
    PROVE  S \subseteq Keys
<1>1. CASE scenario.transport = "inprocess"
  BY <1>1 DEF KeyLists, collectShardKeys
<1>2. CASE scenario.transport = "http"
  BY <1>2 DEF KeyLists, HttpListKeys, collectShardKeys
<1>3. CASE scenario.transport # "inprocess" /\ scenario.transport # "http"
  BY <1>3 DEF KeyLists
<1> QED
  BY <1>1, <1>2, <1>3

LEMMA SyncWithStatusTyped ==
    ASSUME ClusterOK, SyncOK, NEW n \in Nodes, syncWithStatus(n)
    PROVE  ClusterOK' /\ SyncOK'
<1> DEFINE r(fetch) == [sync[n] EXCEPT !.fetch = fetch, !.tree = <<>>,
                !.dirty = @ \/ fetch # {},
                !.pc = IF fetch = {} THEN "peer" ELSE "pull",
                !.peer = IF fetch = {} THEN 0 ELSE @]
<1>1. PICK listed \in KeyLists(sync[n].peer), e \in {merkleEntries(n)} :
        \E fetch \in {ChunkKeys(e, DiffLeafRanges(Leaves(e), sync[n].tree))
                          \cup (listed \ {c.key : c \in Range(e)})} :
             sync' = [sync EXCEPT ![n].fetch = fetch, ![n].tree = <<>>,
                ![n].dirty = @ \/ fetch # {},
                ![n].pc = IF fetch = {} THEN "peer" ELSE "pull",
                ![n].peer = IF fetch = {} THEN 0 ELSE @]
  BY DEF syncWithStatus
<1>2. PICK fetch \in {ChunkKeys(e, DiffLeafRanges(Leaves(e), sync[n].tree))
                          \cup (listed \ {c.key : c \in Range(e)})} :
             sync' = [sync EXCEPT ![n].fetch = fetch, ![n].tree = <<>>,
                ![n].dirty = @ \/ fetch # {},
                ![n].pc = IF fetch = {} THEN "peer" ELSE "pull",
                ![n].peer = IF fetch = {} THEN 0 ELSE @]
  BY <1>1
<1>3. listed \subseteq Keys
  BY KeyListsTyped
<1>4. fetch \subseteq Keys
  BY <1>3 DEF ChunkKeys
<1>5. LoopOf(sync[n]) /\ DOMAIN sync = Nodes
  BY DEF SyncOK, SyncShape
<1>6. sync' = [sync EXCEPT ![n] = r(fetch)]
  BY <1>2, <1>5 DEF LoopOf, SyncRecord
<1>7. LoopOf(r(fetch))
  BY <1>4, <1>5 DEF LoopOf, SyncRecord, syncWithStatus
<1>8. UNCHANGED <<backoff, clusterVars>>
  BY DEF syncWithStatus, Quiet
<1> HIDE DEF r
<1> QED
  BY <1>6, <1>7, <1>8, SyncAt, ClusterFrame DEF SyncOK

LEMMA NextKeyTyped ==
    ASSUME SyncOK, NEW n \in Nodes, NEW k, sync[n].pc \in {"pull", "adopt"}
    PROVE  LoopOf(NextKey(n, k))
<1>1. LoopOf(sync[n])
  BY DEF SyncOK, SyncShape
<1> QED
  BY <1>1, NoItemTyped DEF LoopOf, SyncRecord, NextKey

LEMMA ForwardGetTyped ==
    ASSUME ClusterOK, SyncOK, NEW n \in Nodes, ForwardGet(n)
    PROVE  ClusterOK' /\ SyncOK'
<1> DEFINE r(k) == [sync[n] EXCEPT !.pc = "adopt", !.key = k, !.got = items[sync[n].peer][k]]
<1>1. LoopOf(sync[n]) /\ sync[n].pc = "pull"
  BY DEF SyncOK, SyncShape, ForwardGet
<1>2. PICK k \in sync[n].fetch : \E D \in Drops({sync[n].peer}) :
        /\ sync' = [sync EXCEPT ![n] = IF D # {} THEN NextKey(n, k) ELSE r(k)]
        /\ Dropped(D)
  BY DEF ForwardGet
<1>3. k \in Keys /\ sync[n].peer \in Nodes
  BY <1>1, <1>2 DEF LoopOf, SyncRecord
<1>4. items[sync[n].peer][k] \in Item
  BY <1>3 DEF ClusterOK, ShardsOK
<1>10. LoopOf(r(k))
  BY <1>1, <1>3, <1>4 DEF LoopOf, SyncRecord
<1>11. LoopOf(NextKey(n, k))
  BY <1>1, NextKeyTyped
<1>5. LoopOf(r(k)) /\ LoopOf(NextKey(n, k))
  BY <1>10, <1>11
<1>6. left' \in [Bounds -> Nat]
  BY <1>2, <1>3, DropsTyped, DroppedTyped DEF ClusterOK, LogOK
<1>7. ClusterOK'
  BY <1>6, FaultsOnly DEF ForwardGet
<1>8. UNCHANGED backoff
  BY DEF ForwardGet
<1> HIDE DEF r
<1>9. SyncShape'
  BY <1>2, <1>5, SyncAt DEF SyncOK
<1> QED
  BY <1>7, <1>8, <1>9 DEF SyncOK

LEMMA PutTomb ==
    ASSUME tombs \in [Nodes -> [Keys -> Tomb]], NEW n \in Nodes, NEW k \in Keys, NEW t \in Tomb
    PROVE  [tombs EXCEPT ![n][k] = t] \in [Nodes -> [Keys -> Tomb]]
OBVIOUS

LEMMA AdoptTyped ==
    ASSUME ClusterOK, SyncOK, NEW n \in Nodes, fetchAndAdopt(n)
    PROVE  ClusterOK' /\ SyncOK'
<1> DEFINE k == sync[n].key
           it == sync[n].got
<1>1. RestOK /\ ShardsOK /\ LogOK /\ RingOK
  BY RingOKOf DEF ClusterOK
<1>2. LoopOf(sync[n]) /\ sync[n].pc = "adopt"
  BY DEF SyncOK, SyncShape, fetchAndAdopt
<1>3. k \in Keys /\ it \in Item
  BY <1>2 DEF LoopOf, SyncRecord
<1>4. UNCHANGED <<backoff, scenario, left, membershipVars, tombVersionCounter,
                  versionCounter, hintVars, refused>>
  BY DEF fetchAndAdopt
<1>5. adoptCopy(n, k, it) \/ adoptAbsence(n, k)
  BY DEF fetchAndAdopt
<1>6. sync' = [sync EXCEPT ![n] = NextKey(n, k)]
  BY DEF fetchAndAdopt
<1> HIDE DEF k, it
<1>7. ASSUME adoptCopy(n, k, it)
      PROVE  ShardsOK' /\ tombs' \in [Nodes -> [Keys -> Tomb]]
  <2>1. PICK R : applySet(R, k, it)
    BY <1>7 DEF adoptCopy
  <2>2. ShardsOK'
    BY <1>1, <1>3, <1>4, <2>1, ApplySetTyped
  <2>3. NoTomb \in Tomb
    BY DEF NoTomb, Tomb
  <2>4. tombs' \in [Nodes -> [Keys -> Tomb]]
    BY <1>1, <1>3, <1>7, <2>3 DEF adoptCopy, LogOK
  <2> QED
    BY <2>2, <2>4
<1>8. ASSUME adoptAbsence(n, k)
      PROVE  ShardsOK' /\ tombs' \in [Nodes -> [Keys -> Tomb]]
  <2> DEFINE t == [version |-> items[n][k].version + 1, old |-> FALSE]
  <2>1. t \in Tomb
    BY <1>1, <1>3 DEF Tomb, ShardsOK, Item
  <2> HIDE DEF t
  <2>2. tombs' = tombs \/ tombs' = [tombs EXCEPT ![n][k] = t]
    BY <1>8 DEF adoptAbsence, t
  <2>6. tombs \in [Nodes -> [Keys -> Tomb]]
    BY <1>1 DEF LogOK
  <2>7. [tombs EXCEPT ![n][k] = t] \in [Nodes -> [Keys -> Tomb]]
    BY <1>3, <2>1, <2>6, PutTomb
  <2>3. tombs' \in [Nodes -> [Keys -> Tomb]]
    BY <2>2, <2>6, <2>7
  <2>4. items' \in [Nodes -> [Keys -> Item]]
    BY <1>1, <1>3, <1>8, NoItemTyped DEF adoptAbsence, ShardsOK
  <2>5. ShardsOK'
    BY <1>1, <1>4, <1>8, <2>4, ShardsItems DEF adoptAbsence, ShardsOK
  <2> QED
    BY <2>3, <2>5
<1>9. ShardsOK' /\ tombs' \in [Nodes -> [Keys -> Tomb]]
  BY <1>5, <1>7, <1>8
<1>10. ClusterOK'
  BY <1>1, <1>4, <1>9, RestFrame DEF ClusterOK, LogOK
<1>12. LoopOf(NextKey(n, k))
  BY <1>2, NextKeyTyped
<1>11. SyncShape'
  BY <1>6, <1>12, SyncAt DEF SyncOK
<1> QED
  BY <1>4, <1>10, <1>11 DEF SyncOK

LEMMA BackoffTyped ==
    ASSUME ClusterOK, SyncOK, NEW n \in Nodes, updateAutoSyncBackoff(n)
    PROVE  ClusterOK' /\ SyncOK'
<1>1. backoff' \in [Nodes -> Factors]
  <2>1. CASE MaxBackoff <= 1
    BY <2>1 DEF updateAutoSyncBackoff, SyncOK
  <2>2. CASE ~(MaxBackoff <= 1)
    <3>1. MaxBackoff \in Nat /\ Max({1, MaxBackoff}) = MaxBackoff
      BY <2>2, GreatestOfTwo, SyncAssumption
    <3>2. backoff[n] \in Nat /\ backoff[n] >= 1
      BY <3>1 DEF SyncOK, Factors
    <3>3. Min({2 * backoff[n], MaxBackoff}) \in Factors
      BY <2>2, <3>1, <3>2, LeastOfTwo DEF Factors
    <3>4. \E f \in Factors : backoff' = [backoff EXCEPT ![n] = f]
      BY <2>2, <3>3, OneIsAFactor DEF updateAutoSyncBackoff
    <3> QED
      BY <3>4 DEF SyncOK
  <2> QED
    BY <2>1, <2>2
<1>2. sync' = [sync EXCEPT ![n] = NoSync] /\ UNCHANGED clusterVars
  BY DEF updateAutoSyncBackoff, Quiet
<1> QED
  BY <1>1, <1>2, NoSyncTyped, SyncAt, ClusterFrame DEF SyncOK

LEMMA SyncStepTyped ==
    ASSUME ClusterOK, SyncOK, NEW n \in Nodes, SyncStep(n)
    PROVE  ClusterOK' /\ SyncOK'
BY RunTickTyped, FetchMerkleTyped, SyncWithStatusTyped, ForwardGetTyped, AdoptTyped,
   BackoffTyped DEF SyncStep

\* A step of the sweeper changes the tombstones alone.
LEMMA TombsOnly ==
    ASSUME ClusterOK, tombs' \in [Nodes -> [Keys -> Tomb]],
           UNCHANGED <<scenario, left, membershipVars, shardVars, tombVersionCounter,
                       versionCounter, hintVars, refused>>
    PROVE  ClusterOK'
<1>1. LogOK'
  BY DEF ClusterOK, LogOK
<1> QED
  BY <1>1, RestFrame, ShardsFrame DEF ClusterOK

LEMMA AgedTomb ==
    ASSUME NEW x \in Tomb
    PROVE  [x EXCEPT !.old = TRUE] \in Tomb
BY DEF Tomb

LEMMA SweeperTyped ==
    ASSUME ClusterOK, SyncOK, NEW n \in Nodes,
           (\E k \in Keys : TombExpires(n, k)) \/ compactTombstones(n)
    PROVE  ClusterOK' /\ SyncOK'
<1>1. tombs \in [Nodes -> [Keys -> Tomb]]
  BY DEF ClusterOK, LogOK
<1>2. NoTomb \in Tomb
  BY DEF NoTomb, Tomb
<1>3. ASSUME NEW k \in Keys, TombExpires(n, k)
      PROVE  tombs' \in [Nodes -> [Keys -> Tomb]]
  <2> DEFINE t == [tombs[n][k] EXCEPT !.old = TRUE]
  <2>3. tombs[n][k] \in Tomb
    BY <1>1
  <2>1. t \in Tomb
    BY <2>3, AgedTomb
  <2>2. tombs' = [tombs EXCEPT ![n][k] = t]
    BY <1>1, <1>3 DEF TombExpires
  <2> HIDE DEF t
  <2> QED
    BY <1>1, <2>1, <2>2, PutTomb
<1>4. ASSUME compactTombstones(n)
      PROVE  tombs' \in [Nodes -> [Keys -> Tomb]]
  BY <1>1, <1>2, <1>4 DEF compactTombstones
<1>5. UNCHANGED <<syncVars, scenario, left, membershipVars, shardVars, tombVersionCounter,
                  versionCounter, hintVars, refused>>
  BY DEF TombExpires, compactTombstones
<1>6. ClusterOK'
  BY <1>3, <1>4, <1>5, TombsOnly
<1> QED
  BY <1>5, <1>6 DEF SyncOK, SyncShape, syncVars

-----------------------------------------------------------------------------
(***************************************************************************)
(* Batched read repair.                                                    *)
(***************************************************************************)
Repair == [from : Nodes, to : Nodes, key : Keys, item : Item, waited : BOOLEAN]

\* Of finitely many copies one is such that none is newer: the one with the
\* fewest newer ones.
LEMMA NewestExists ==
    ASSUME NEW H \in SUBSET Item, IsFiniteSet(H), H # {}
    PROVE  \E a \in H : \A b \in H : ~Newer(b, a)
<1> DEFINE above(a) == {c \in H : Newer(c, a)}
           ranks == {Cardinality(above(a)) : a \in H}
<1>1. ASSUME NEW a \in H
      PROVE  IsFiniteSet(above(a)) /\ Cardinality(above(a)) \in Nat
  BY FS_Subset, FS_CardinalityType
<1>2. ranks \in SUBSET Nat /\ ranks # {}
  BY <1>1
<1>3. PICK x \in ranks : \A y \in ranks : x <= y
  <2> HIDE DEF ranks
  <2> QED
    BY <1>2, NatMin
<1>4. PICK a \in H : x = Cardinality(above(a))
  OBVIOUS
<1>5. ASSUME NEW b \in H, Newer(b, a) PROVE FALSE
  <2>1. above(b) \subseteq above(a)
    BY <1>5 DEF Newer, Item
  <2>2. b \in above(a) /\ b \notin above(b)
    BY <1>5 DEF Newer, Item
  <2>3. Cardinality(above(b)) <= Cardinality(above(a)) /\ Cardinality(above(b)) # Cardinality(above(a))
    <3> HIDE DEF above
    <3> QED
      BY <1>1, <2>1, <2>2, FS_Subset
  <2>4. Cardinality(above(a)) <= Cardinality(above(b))
    BY <1>3, <1>4
  <2> QED
    BY <1>1, <2>3, <2>4
<1> QED
  BY <1>5

LEMMA BatchTyped ==
    ASSUME NEW n \in Nodes, NEW p \in Nodes, NEW q \in [Keys -> Item], NEW w \in BOOLEAN
    PROVE  Batch(n, p, q, w) \subseteq Repair
BY DEF Batch, Repair

LEMMA EmptyTyped == Empty \in [Keys -> Item]
BY NoItemTyped DEF Empty

LEMMA EnqueueTyped ==
    ASSUME RepairTypeOK, NEW n \in Nodes, NEW P \in SUBSET Nodes, NEW k \in Keys,
           NEW it \in Item, enqueue(n, P, k, it), UNCHANGED flusher
    PROVE  RepairTypeOK'
<1> DEFINE q == [p \in Nodes |->
            IF p \in P /\ Newer(it, entries[n][p][k]) THEN [entries[n][p] EXCEPT ![k] = it]
            ELSE entries[n][p]]
           full == {p \in P : /\ q[p] # entries[n][p]
                              /\ Cardinality({j \in Keys : Present(q[p][j])}) >= MaxBatchSize}
           e == [p \in Nodes |-> IF p \in full THEN Empty ELSE q[p]]
<1>1. q \in [Nodes -> [Keys -> Item]]
  BY DEF RepairTypeOK
<1>2. full \subseteq Nodes
  OBVIOUS
<1>3. /\ entries' = [entries EXCEPT ![n] = e]
      /\ sending' = sending \cup UNION {Batch(n, p, q[p], FALSE) : p \in full}
      /\ late' = IF flusher[n].asked THEN late \cup {<<n, p, k>> : p \in P} ELSE late
  BY DEF enqueue
<1> HIDE DEF q, full
<1>4. e \in [Nodes -> [Keys -> Item]]
  BY <1>1, EmptyTyped
<1> HIDE DEF e
<1>5. entries' \in [Nodes -> [Nodes -> [Keys -> Item]]]
  BY <1>3, <1>4 DEF RepairTypeOK
<1>6. ASSUME NEW p \in full PROVE Batch(n, p, q[p], FALSE) \subseteq Repair
  BY <1>1, <1>2, BatchTyped
<1>7. sending' \subseteq Repair
  <2>1. UNION {Batch(n, p, q[p], FALSE) : p \in full} \subseteq Repair
    BY <1>6
  <2>2. sending \subseteq Repair
    BY DEF RepairTypeOK, Repair
  <2> QED
    BY <1>3, <2>1, <2>2
<1>8. late' \subseteq Nodes \X Nodes \X Keys
  BY <1>3 DEF RepairTypeOK
<1> QED
  BY <1>5, <1>7, <1>8 DEF RepairTypeOK, Repair

\* The copies a read sees, and the one it chooses.
Held(n, k) == {items[o][k] : o \in Range(Lookup(n, k))} \ {NoItem}
Chosen(n, k) == CHOOSE a \in Held(n, k) : \A b \in Held(n, k) : ~Newer(b, a)

LEMMA ChosenHeld ==
    ASSUME ClusterOK, NEW n \in Nodes, NEW k \in Keys, Held(n, k) # {}
    PROVE  Held(n, k) \in SUBSET Item /\ Chosen(n, k) \in Held(n, k)
<1> DEFINE owners == Range(Lookup(n, k))
           copies == {items[o][k] : o \in owners}
           f == [o \in owners |-> items[o][k]]
<1>1. ShardsOK /\ RingOK
  BY RingOKOf DEF ClusterOK
<1>2. owners \subseteq Nodes
  BY <1>1, OwnersAreNodes
<1>3. Held(n, k) \in SUBSET Item
  BY <1>1, <1>2 DEF ShardsOK, Held
<1>4. f \in Surjection(owners, copies)
  BY DEF Surjection
<1>5. IsFiniteSet(owners)
  BY <1>2, RingAssumption, FS_Subset
<1>6. IsFiniteSet(copies)
  <2> HIDE DEF f, copies, owners
  <2> QED
    BY <1>4, <1>5, FS_Surjection
<1>7. IsFiniteSet(Held(n, k))
  BY <1>6, FS_Subset DEF Held
<1>8. \E a \in Held(n, k) : \A b \in Held(n, k) : ~Newer(b, a)
  BY <1>3, <1>7, NewestExists
<1> QED
  BY <1>3, <1>8 DEF Chosen

LEMMA ReadRepairTyped ==
    ASSUME ClusterOK, RepairTypeOK, NEW n \in Nodes, NEW k \in Keys, ReadRepair(n, k)
    PROVE  ClusterOK' /\ RepairTypeOK'
<1> DEFINE owners == Range(Lookup(n, k))
           chosen == Chosen(n, k)
<1>1. RestOK /\ ShardsOK /\ LogOK /\ RingOK
  BY RingOKOf DEF ClusterOK
<1>2. owners \subseteq Nodes
  BY <1>1, OwnersAreNodes
<1>5. Held(n, k) # {}
  BY DEF ReadRepair, Held
<1>6. chosen \in Item
  BY <1>5, ChosenHeld
<1>7. /\ applySet(IF items[n][k] = NoItem \/ Newer(chosen, items[n][k]) THEN {n} ELSE {},
                  k, chosen)
      /\ enqueue(n, owners \ {n}, k, chosen)
  BY DEF ReadRepair, Chosen, Held
<1>8. Spend("reads") /\ UNCHANGED <<flusher, scenario, membershipVars, deleteVars,
                                    versionCounter, hintVars, refused>>
  BY DEF ReadRepair
<1> HIDE DEF owners, chosen
<1>9. RepairTypeOK'
  BY <1>2, <1>6, <1>7, <1>8, EnqueueTyped
<1>10. ShardsOK'
  BY <1>1, <1>6, <1>7, <1>8, ApplySetTyped
<1>11. left' \in [Bounds -> Nat]
  BY <1>1, <1>8 DEF Spend, LogOK, Bounds
<1>12. LogOK'
  BY <1>1, <1>8, <1>11 DEF LogOK, deleteVars
<1> QED
  BY <1>1, <1>8, <1>9, <1>10, <1>12, RestFrame DEF ClusterOK

LEMMA FlusherRuns ==
    ASSUME NEW n \in Nodes, NEW B, NEW P \in SUBSET Nodes, NEW b \in B,
           NEW f \in [Nodes -> [pc : {"wait", "flush", "gone"}, peers : SUBSET Nodes,
                                last : B, asked : B]]
    PROVE  [f EXCEPT ![n].pc = "flush", ![n].last = b, ![n].peers = P]
              \in [Nodes -> [pc : {"wait", "flush", "gone"}, peers : SUBSET Nodes,
                             last : B, asked : B]]
<1> DEFINE r == [f[n] EXCEPT !.pc = "flush", !.last = b, !.peers = P]
<1>3. f[n] \in [pc : {"wait", "flush", "gone"}, peers : SUBSET Nodes, last : B, asked : B]
  OBVIOUS
<1>4. /\ DOMAIN r = {"pc", "peers", "last", "asked"}
      /\ r = [x \in DOMAIN r |-> r[x]]
      /\ r.pc = "flush" /\ r.peers = P /\ r.last = b /\ r.asked = f[n].asked
  BY <1>3
<1>1. r \in [pc : {"wait", "flush", "gone"}, peers : SUBSET Nodes, last : B, asked : B]
  BY <1>3, <1>4
<1>2. [f EXCEPT ![n].pc = "flush", ![n].last = b, ![n].peers = P] = [f EXCEPT ![n] = r]
  OBVIOUS
<1> HIDE DEF r
<1> QED
  BY <1>1, <1>2

LEMMA RepairStepTyped ==
    ASSUME ClusterOK, RepairTypeOK, NEW n \in Nodes, RepairStep(n) \/ stop(n)
    PROVE  ClusterOK' /\ RepairTypeOK'
<1>1. ClusterOK'
  BY ClusterFrame DEF RepairStep, run, flushPeer, flushDone, stop
<1>2. ASSUME run(n) PROVE RepairTypeOK'
  <2> DEFINE peers == {p \in Nodes : Queued(n, p) # {}}
  <2>1. PICK stopping \in {FALSE, flusher[n].asked} :
          flusher' = [flusher EXCEPT ![n].pc = "flush", ![n].last = stopping,
                                     ![n].peers = peers]
    BY <1>2 DEF run
  <2>2. stopping \in BOOLEAN /\ peers \in SUBSET Nodes
    BY DEF RepairTypeOK
  <2> HIDE DEF peers
  <2>3. UNCHANGED <<entries, sending, late>>
    BY <1>2 DEF run
  <2>4. flusher' \in [Nodes -> [pc : {"wait", "flush", "gone"}, peers : SUBSET Nodes,
                                last : BOOLEAN, asked : BOOLEAN]]
    BY <2>1, <2>2, FlusherRuns DEF RepairTypeOK
  <2> QED
    BY <2>3, <2>4 DEF RepairTypeOK
<1>3. ASSUME flushPeer(n) PROVE RepairTypeOK'
  <2>1. PICK p \in flusher[n].peers :
          /\ flusher' = [flusher EXCEPT ![n].peers = @ \ {p}]
          /\ entries' = [entries EXCEPT ![n][p] = Empty]
          /\ sending' = sending \cup Batch(n, p, entries[n][p], TRUE)
    BY <1>3 DEF flushPeer
  <2>2. p \in Nodes /\ entries[n][p] \in [Keys -> Item]
    BY DEF RepairTypeOK
  <2>3. Batch(n, p, entries[n][p], TRUE) \subseteq Repair
    BY <2>2, BatchTyped
  <2>4. UNCHANGED late
    BY <1>3 DEF flushPeer
  <2>5. entries' \in [Nodes -> [Nodes -> [Keys -> Item]]]
    BY <2>1, <2>2, EmptyTyped DEF RepairTypeOK
  <2>6. sending' \subseteq Repair
    BY <2>1, <2>3 DEF RepairTypeOK, Repair
  <2>7. flusher' \in [Nodes -> [pc : {"wait", "flush", "gone"}, peers : SUBSET Nodes,
                                last : BOOLEAN, asked : BOOLEAN]]
    BY <2>1 DEF RepairTypeOK
  <2> QED
    BY <2>4, <2>5, <2>6, <2>7 DEF RepairTypeOK, Repair
<1>4. ASSUME flushDone(n) PROVE RepairTypeOK'
  BY <1>4 DEF flushDone, RepairTypeOK
<1>5. ASSUME stop(n) PROVE RepairTypeOK'
  BY <1>5 DEF stop, RepairTypeOK
<1> QED
  BY <1>1, <1>2, <1>3, <1>4, <1>5 DEF RepairStep

LEMMA SendRepairTyped ==
    ASSUME ClusterOK, RepairTypeOK, NEW n \in Nodes, SendRepair(n)
    PROVE  ClusterOK' /\ RepairTypeOK'
<1>1. RestOK /\ ShardsOK /\ LogOK /\ RingOK
  BY RingOKOf DEF ClusterOK
<1>2. PICK r \in sending : \E D \in ForwardDrops(r.to, r.key, FALSE) :
        /\ ForwardSet(r.to, r.key, r.item, FALSE, D)
        /\ sending' = sending \ {r}
        /\ UNCHANGED <<entries, flusher, late, scenario, membershipVars, deleteVars,
                       versionCounter, hintVars>>
  BY DEF SendRepair
<1>3. r.to \in Nodes /\ r.key \in Keys /\ r.item \in Item
  BY DEF RepairTypeOK
<1>4. ShardsOK' /\ refused' \subseteq Keys /\ left' \in [Bounds -> Nat]
  BY <1>1, <1>2, <1>3, ForwardSetTyped
<1>5. LogOK'
  BY <1>1, <1>2, <1>4 DEF LogOK, deleteVars
<1>6. RepairTypeOK'
  BY <1>2 DEF RepairTypeOK
<1> QED
  BY <1>1, <1>2, <1>4, <1>5, <1>6, RestFrame DEF ClusterOK

-----------------------------------------------------------------------------
(***************************************************************************)
(* The key listing, the restart, and the whole.                            *)
(***************************************************************************)
LEMMA WatchTyped ==
    ASSUME ListTypeOK, listing' \in [pc : {"idle", "collect", "done"}, peers : SUBSET Nodes,
                    dedup : SUBSET Keys, partial : SUBSET Nodes, truncated : BOOLEAN],
           Watch
    PROVE  ListTypeOK'
<1>1. CASE listing.pc = "idle" /\ listing'.pc = "collect"
  BY <1>1 DEF ListTypeOK, Watch
<1>2. CASE listing.pc = "collect"
  BY <1>2 DEF ListTypeOK, Watch
<1>3. CASE ~(listing.pc = "idle" /\ listing'.pc = "collect") /\ listing.pc # "collect"
  BY <1>3 DEF ListTypeOK, Watch
<1> QED
  BY <1>1, <1>2, <1>3

LEMMA ListFrame ==
    ASSUME ListTypeOK, UNCHANGED listing, Watch
    PROVE  ListTypeOK'
BY WatchTyped DEF ListTypeOK

ListRecord == [pc : {"idle", "collect", "done"}, peers : SUBSET Nodes,
               dedup : SUBSET Keys, partial : SUBSET Nodes, truncated : BOOLEAN]

LEMMA TryAddTyped ==
    ASSUME NEW l \in ListRecord, NEW K \in SUBSET Keys, NEW acc \in tryAdd(l, K)
    PROVE  acc \in ListRecord
<1>1. PICK A \in SUBSET K :
          acc = [l EXCEPT !.dedup = l.dedup \cup A, !.truncated = l.truncated \/ A # K]
  BY DEF tryAdd
<1>2. l.dedup \cup A \in SUBSET Keys /\ (l.truncated \/ A # K) \in BOOLEAN
  BY DEF ListRecord
<1> QED
  BY <1>1, <1>2 DEF ListRecord

LEMMA CollectPeerTyped ==
    ASSUME ClusterOK, listing \in ListRecord, NEW p \in Nodes, collectPeerKeys(p)
    PROVE  ClusterOK' /\ listing' \in ListRecord
<1>1. PICK D \in Drops({p} \ {Lister}), acc \in tryAdd(listing, localMatchingKeys(p)) :
         /\ listing' = [(IF D = {} THEN acc
                         ELSE [listing EXCEPT !.partial = @ \cup {p}]) EXCEPT
                           !.peers = @ \ {p}]
         /\ Dropped(D)
  BY DEF collectPeerKeys
<1>2. left' \in [Bounds -> Nat]
  BY <1>1, DropsTyped, DroppedTyped DEF ClusterOK, LogOK
<1>3. ClusterOK'
  BY <1>2, FaultsOnly DEF collectPeerKeys
<1>4. localMatchingKeys(p) \in SUBSET Keys
  BY DEF localMatchingKeys
<1>5. acc \in ListRecord
  BY <1>4, TryAddTyped
<1>6. [listing EXCEPT !.partial = @ \cup {p}] \in ListRecord
  BY DEF ListRecord
<1>7. \E l \in ListRecord : listing' = [l EXCEPT !.peers = @ \ {p}]
  BY <1>1, <1>5, <1>6
<1> QED
  BY <1>3, <1>7 DEF ListRecord

LEMMA ListStepTyped ==
    ASSUME ClusterOK, ListTypeOK, ListStep, Watch
    PROVE  ClusterOK' /\ ListTypeOK'
<1>1. listing \in ListRecord
  BY DEF ListTypeOK, ListRecord
<1>2. CASE ListKeys
  <2>1. ClusterOK'
    BY <1>2, ClusterFrame DEF ListKeys
  <2>2. members[Lister] \in SUBSET Nodes
    BY ListAssumption DEF ClusterOK, RestOK
  <2>3. listing' \in ListRecord
    BY <1>1, <1>2, <2>2 DEF ListKeys, ListRecord
  <2> QED
    BY <2>1, <2>3, WatchTyped DEF ListRecord
<1>3. CASE result
  <2>1. ClusterOK'
    BY <1>3, ClusterFrame DEF result
  <2>2. listing' \in ListRecord
    BY <1>1, <1>3 DEF result, ListRecord
  <2> QED
    BY <2>1, <2>2, WatchTyped DEF ListRecord
<1>4. ASSUME NEW p \in Nodes, collectPeerKeys(p)
      PROVE  ClusterOK' /\ ListTypeOK'
  BY <1>1, <1>4, CollectPeerTyped, WatchTyped DEF ListRecord
<1> QED
  BY <1>2, <1>3, <1>4 DEF ListStep

LEMMA RestartTyped ==
    ASSUME ClusterOK, SyncOK, NEW n \in Nodes, Restart(n)
    PROVE  ClusterOK' /\ SyncOK'
<1>1. RestOK /\ ShardsOK /\ LogOK
  BY DEF ClusterOK
<1>2. items' \in [Nodes -> [Keys -> Item]]
  BY <1>1, NothingTyped DEF Restart, ShardsOK
<1>3. [k \in Keys |-> 0] \in [Keys -> Nodes \cup {0}]
  OBVIOUS
<1>4. originalPrimary' \in [Nodes -> [Keys -> Nodes \cup {0}]]
  BY <1>1, <1>3 DEF Restart, ShardsOK
<1>5. originalOwners' = [originalOwners EXCEPT ![n] = [k \in Keys |-> <<>>]]
  BY DEF Restart
<1>6. scenario' = scenario
  BY DEF Restart
<1>7. \A j \in Keys : OwnerLists(j)' = OwnerLists(j) /\ <<>> \in OwnerLists(j)
  BY <1>6 DEF OwnerLists
<1>8. OwnersShape' /\ \A m \in Nodes, j \in Keys : originalOwners'[m][j] \in OwnerLists(j)
  BY <1>1, <1>5, <1>7 DEF ShardsOK, OwnersShape
<1>9. ShardsOK'
  BY <1>2, <1>4, <1>7, <1>8 DEF ShardsOK
<1>10. [k \in Keys |-> NoTomb] \in [Keys -> Tomb]
  BY DEF NoTomb, Tomb
<1>11. tombs' \in [Nodes -> [Keys -> Tomb]]
  BY <1>1, <1>10 DEF Restart, LogOK
<1>12. versionCounter' \in [Nodes -> Nat] /\ tombVersionCounter' \in [Nodes -> Nat]
  BY <1>1 DEF Restart, LogOK
<1>13. hints' \subseteq hints /\ dropped' = dropped /\ refused' = refused
  BY DEF Restart
<1>14. left' \in [Bounds -> Nat]
  BY <1>1 DEF Restart, Spend, LogOK, Bounds
<1>15. LogOK'
  BY <1>1, <1>11, <1>12, <1>13, <1>14 DEF LogOK
<1>16. ClusterOK'
  BY <1>1, <1>9, <1>15, RestFrame DEF Restart, ClusterOK
<1>17. SyncShape'
  BY NoSyncTyped, SyncAt DEF Restart, SyncOK
<1>18. backoff' \in [Nodes -> Factors]
  BY OneIsAFactor DEF Restart, SyncOK
<1> QED
  BY <1>16, <1>17, <1>18 DEF SyncOK

TypeInv == ClusterOK /\ RebalanceTypeOK /\ SyncOK /\ RepairTypeOK /\ ListTypeOK

LEMMA TypeInvIsTyped == ASSUME TypeInv PROVE TypeOK
<1>1. ClusterTypeOK
  BY DEF TypeInv, ClusterOK, ClusterTypeOK, RestOK, ShardsOK, LogOK, OwnerLists
<1>2. SyncTypeOK
  BY DEF TypeInv, SyncOK, SyncShape, LoopOf, SyncRecord, SyncTypeOK, Factors
<1> QED
  BY <1>1, <1>2 DEF TypeInv, TypeOK

LEMMA InitTyped == ASSUME Init PROVE TypeInv
<1> USE DEF Init
<1>1. RestOK
  <2>1. scenario \in Scenarios /\ scenario \in Scenario
    BY ScenarioAssumption DEF NewDistMemory
  <2>2. scenario.start \in SUBSET Nodes /\ scenario.changes \in Seq(Change)
    BY <2>1 DEF Scenario
  <2> QED
    BY <2>1, <2>2 DEF RestOK, NewDistMemory
<1>2. ShardsOK
  BY NoItemTyped DEF ShardsOK, NewDistMemory, OwnersShape, OwnerLists
<1>3. LogOK
  <2>1. scenario \in Scenario
    BY ScenarioAssumption DEF NewDistMemory
  <2>2. left \in [Bounds -> Nat]
    BY <2>1 DEF NewDistMemory, Bounds, Scenario
  <2>3. NoTomb \in Tomb
    BY DEF NoTomb, Tomb
  <2> QED
    BY <2>2, <2>3 DEF LogOK, NewDistMemory
<1>4. RebalanceTypeOK
  BY NoTickTyped DEF RebalanceInit, RebalanceTypeOK
<1>5. SyncOK
  BY NoSyncTyped, OneIsAFactor DEF SyncInit, SyncOK, SyncShape
<1>6. RepairTypeOK
  BY EmptyTyped DEF RepairInit, RepairTypeOK
<1>7. ListTypeOK
  BY DEF ListInit, ListTypeOK
<1> QED
  BY <1>1, <1>2, <1>3, <1>4, <1>5, <1>6, <1>7 DEF TypeInv, ClusterOK

\* Each loop's variables are left alone by the others.
LEMMA RebalanceFrame ==
    ASSUME RebalanceTypeOK, UNCHANGED rebalanceVars PROVE RebalanceTypeOK'
BY DEF RebalanceTypeOK, rebalanceVars

LEMMA SyncFrame == ASSUME SyncOK, UNCHANGED syncVars PROVE SyncOK'
BY DEF SyncOK, SyncShape, syncVars

LEMMA RepairFrame == ASSUME RepairTypeOK, UNCHANGED repairVars PROVE RepairTypeOK'
BY DEF RepairTypeOK, repairVars

LEMMA StepTyped ==
    ASSUME TypeInv, NEW n \in Nodes, Loop(n) \/ Support(n) \/ Environment(n)
    PROVE  TypeInv'
<1> USE DEF TypeInv
<1>1. ASSUME UNCHANGED <<rebalanceVars, syncVars, repairVars, listing>>, Watch, ClusterOK'
      PROVE  TypeInv'
  BY <1>1, RebalanceFrame, SyncFrame, RepairFrame, ListFrame
<1>2. ASSUME UNCHANGED <<syncVars, repairVars, listing>>, Watch, ClusterOK' /\ RebalanceTypeOK'
      PROVE  TypeInv'
  BY <1>2, SyncFrame, RepairFrame, ListFrame
<1>3. ASSUME UNCHANGED <<rebalanceVars, repairVars, listing>>, Watch, ClusterOK' /\ SyncOK'
      PROVE  TypeInv'
  BY <1>3, RebalanceFrame, RepairFrame, ListFrame
<1>4. ASSUME UNCHANGED <<rebalanceVars, syncVars, listing>>, Watch, ClusterOK' /\ RepairTypeOK'
      PROVE  TypeInv'
  BY <1>4, RebalanceFrame, SyncFrame, ListFrame
<1>5. CASE Loop(n)
  <2>1. CASE Rebalancing(RebalanceStep(n))
    BY <2>1, <1>2, RebalanceStepTyped DEF Rebalancing
  <2>2. CASE Syncing(SyncStep(n))
    BY <2>2, <1>3, SyncStepTyped DEF Syncing
  <2>3. CASE Repairing(RepairStep(n))
    BY <2>3, <1>4, RepairStepTyped DEF Repairing
  <2> QED
    BY <1>5, <2>1, <2>2, <2>3 DEF Loop
<1>6. CASE Support(n)
  <2>1. CASE Cluster(MembershipChange(n)) \/ Cluster(RingBuild(n)) \/ Cluster(ReplayHint(n))
    BY <2>1, <1>1, MembershipChangeTyped, RingBuildTyped, ReplayHintTyped DEF Cluster
  <2>2. CASE Rebalancing(\E k \in Keys : GraceElapses(n, k))
    BY <2>2, <1>2, GraceElapsesTyped DEF Rebalancing
  <2>3. CASE Syncing(\E k \in Keys : TombExpires(n, k)) \/ Syncing(compactTombstones(n))
    BY <2>3, <1>3, SweeperTyped DEF Syncing
  <2>4. CASE Repairing(SendRepair(n))
    BY <2>4, <1>4, SendRepairTyped DEF Repairing
  <2> QED
    BY <1>6, <2>1, <2>2, <2>3, <2>4 DEF Support
<1>7. CASE Environment(n)
  <2>1. CASE Cluster(\E k \in Keys : PrimarySet(n, k) \/ PrimaryRemove(n, k))
    BY <2>1, <1>1, PrimarySetTyped, PrimaryRemoveTyped DEF Cluster
  <2>2. CASE Repairing(\E k \in Keys : ReadRepair(n, k)) \/ Repairing(stop(n))
    BY <2>2, <1>4, ReadRepairTyped, RepairStepTyped DEF Repairing
  <2>3. CASE Restart(n) /\ UNCHANGED <<repairVars, listing>> /\ Watch
    <3>1. UNCHANGED rebalanceVars
      BY <2>3 DEF Restart
    <3> QED
      BY <2>3, <3>1, <1>3, RestartTyped
  <2>4. CASE Listing(ListStep)
    BY <2>4, ListStepTyped, RebalanceFrame, SyncFrame, RepairFrame DEF Listing
  <2> QED
    BY <1>7, <2>1, <2>2, <2>3, <2>4 DEF Environment
<1> QED
  BY <1>5, <1>6, <1>7

LEMMA TypeInvHolds == Spec => []TypeInv
<1>1. Init => TypeInv
  BY InitTyped
<1>2. TypeInv /\ [Next]_vars => TypeInv'
  <2> SUFFICES ASSUME TypeInv, [Next]_vars PROVE TypeInv'
    OBVIOUS
  <2>1. CASE UNCHANGED vars
    <3>1. Watch \/ UNCHANGED listVars
      BY <2>1 DEF vars
    <3>2. ListTypeOK'
      BY <2>1 DEF vars, listVars, TypeInv, ListTypeOK
    <3> QED
      BY <2>1, <3>2, ClusterFrame, RebalanceFrame, SyncFrame, RepairFrame DEF vars, TypeInv
  <2>2. CASE Next
    <3>1. scenario.nodes \subseteq Nodes
      BY RunningNodes DEF TypeInv, ClusterOK, RestOK
    <3> QED
      BY <2>2, <3>1, StepTyped DEF Next
  <2> QED
    BY <2>1, <2>2
<1> QED
  BY <1>1, <1>2, PTL DEF Spec

(***************************************************************************)
(* Type correctness of the cluster, all loops running: what is in the      *)
(* shards, queues and hints are copies with a stamp, addressed to nodes    *)
(* and keys that exist, owner lists are lists a ring has produced, and no  *)
(* budget or counter goes below zero.                                      *)
(***************************************************************************)
THEOREM TypeCorrect == Spec => []TypeOK
BY TypeInvHolds, TypeInvIsTyped, PTL

-----------------------------------------------------------------------------
(***************************************************************************)
(* The key listing.  While it collects, and as long as nothing has been    *)
(* cut off, a key that has stayed with a node is in the accumulator, or    *)
(* that node has yet to answer, or it failed and is counted as such.       *)
(***************************************************************************)
Accounted(l, s) ==
    ~l.truncated => \A nk \in s : nk[1] \in l.peers \cup l.partial \/ nk[2] \in l.dedup

ListOK(l, s) ==
    /\ Cardinality(l.dedup) <= MaxResults
    /\ l.pc = "idle" => l.dedup = {} /\ s = {}
    /\ l.pc = "done" => l.peers = {}
    /\ Accounted(l, s)

ListInv == ListOK(listing, steady)

\* The merge never goes past the maximum.
LEMMA TryAddBounded ==
    ASSUME NEW l \in ListRecord, Cardinality(l.dedup) <= MaxResults,
           NEW K \in SUBSET Keys, NEW acc \in tryAdd(l, K)
    PROVE  /\ Cardinality(acc.dedup) <= MaxResults
           /\ acc.pc = l.pc /\ acc.peers = l.peers /\ acc.partial = l.partial
           /\ ~acc.truncated => ~l.truncated /\ acc.dedup = l.dedup \cup K
           /\ l.dedup \subseteq acc.dedup
<1>1. PICK A \in SUBSET K :
        /\ acc = [l EXCEPT !.dedup = @ \cup A, !.truncated = @ \/ A # K]
        /\ \/ A # K /\ Cardinality(l.dedup \cup A) = MaxResults
           \/ A = K /\ (K = {} \/ \E k \in K :
                              Cardinality(l.dedup \cup (K \ {k})) < MaxResults)
  BY DEF tryAdd
<1>2. /\ acc.pc = l.pc /\ acc.peers = l.peers /\ acc.partial = l.partial
      /\ acc.dedup = l.dedup \cup A
  BY <1>1 DEF ListRecord
<1>3. acc.truncated <=> l.truncated \/ A # K
  BY <1>1 DEF ListRecord
<1>4. l.dedup \subseteq Keys /\ MaxResults \in Nat
  BY ListAssumption DEF ListRecord
<1>5. Cardinality(l.dedup \cup A) <= MaxResults
  <2>1. CASE A # K
    BY <1>1, <1>4, <2>1
  <2>2. CASE A = K /\ K = {}
    <3>1. l.dedup \cup A = l.dedup
      BY <2>2
    <3> QED
      BY <3>1
  <2>3. ASSUME A = K, NEW k \in K, Cardinality(l.dedup \cup (K \ {k})) < MaxResults
        PROVE  Cardinality(l.dedup \cup A) <= MaxResults
    <3> DEFINE R == l.dedup \cup (K \ {k})
    <3>1. IsFiniteSet(R)
      BY <1>4, RingAssumption, FS_Subset
    <3>2. R \cup {k} = l.dedup \cup A
      BY <2>3
    <3>3. Cardinality(R) \in Nat
      BY <3>1, FS_CardinalityType
    <3>4. Cardinality(R) < MaxResults
      BY <2>3
    <3> HIDE DEF R
    <3>5. Cardinality(R \cup {k}) = IF k \in R THEN Cardinality(R) ELSE Cardinality(R) + 1
      BY <3>1, FS_AddElement
    <3>6. Cardinality(R \cup {k}) <= MaxResults
      BY <1>4, <3>3, <3>4, <3>5
    <3> QED
      BY <3>2, <3>6
  <2> QED
    BY <1>1, <2>1, <2>2, <2>3
<1> QED
  BY <1>2, <1>3, <1>5

LEMMA ListKeysKeeps ==
    ASSUME TypeInv, ListInv, ListKeys, Watch
    PROVE  ListInv'
<1>1. listing \in ListRecord
  BY DEF TypeInv, ListTypeOK, ListRecord
<1>2. /\ listing.pc = "idle" /\ listing'.pc = "collect"
      /\ listing'.peers = members[Lister] /\ listing'.dedup = listing.dedup
      /\ listing'.partial = listing.partial /\ listing'.truncated = listing.truncated
  BY <1>1 DEF ListKeys, ListRecord
<1>3. \A nk \in steady' : nk[1] \in listing'.peers
  BY <1>2 DEF Watch
<1> QED
  BY <1>2, <1>3 DEF ListInv, ListOK, Accounted

LEMMA CollectKeeps ==
    ASSUME TypeInv, ListInv, NEW p \in Nodes, collectPeerKeys(p), Watch
    PROVE  ListInv'
<1> DEFINE K == localMatchingKeys(p)
<1>1. listing \in ListRecord /\ listing.pc = "collect"
  BY DEF TypeInv, ListTypeOK, ListRecord, collectPeerKeys
<1>2. PICK D \in Drops({p} \ {Lister}), acc \in tryAdd(listing, K) :
         /\ listing' = [(IF D = {} THEN acc
                         ELSE [listing EXCEPT !.partial = @ \cup {p}]) EXCEPT
                           !.peers = @ \ {p}]
         /\ Dropped(D)
  BY DEF collectPeerKeys
<1>3. K \in SUBSET Keys
  BY DEF localMatchingKeys
<1>4. items' = items
  BY DEF collectPeerKeys, shardVars
<1>5. steady' = {nk \in steady : Present(items[nk[1]][nk[2]])}
  BY <1>1, <1>4 DEF Watch
<1>6. \A nk \in steady : nk[2] \in Keys
  BY DEF TypeInv, ListTypeOK
<1>7. Cardinality(listing.dedup) <= MaxResults /\ Accounted(listing, steady)
  BY DEF ListInv, ListOK
<1>8. CASE D = {}
  <2>1. /\ Cardinality(acc.dedup) <= MaxResults
        /\ acc.pc = listing.pc /\ acc.peers = listing.peers /\ acc.partial = listing.partial
        /\ ~acc.truncated => ~listing.truncated /\ acc.dedup = listing.dedup \cup K
        /\ listing.dedup \subseteq acc.dedup
    BY <1>1, <1>3, <1>7, TryAddBounded
  <2>2. acc \in ListRecord
    BY <1>1, <1>3, TryAddTyped
  <2>3. /\ listing'.pc = "collect" /\ listing'.dedup = acc.dedup
        /\ listing'.peers = acc.peers \ {p} /\ listing'.partial = acc.partial
        /\ listing'.truncated = acc.truncated
    BY <1>1, <1>2, <1>8, <2>1, <2>2 DEF ListRecord
  <2>4. ASSUME NEW nk \in steady', ~listing'.truncated
        PROVE  nk[1] \in listing'.peers \cup listing'.partial \/ nk[2] \in listing'.dedup
    <3>1. CASE nk[1] = p
      <4>1. nk[2] \in K
        BY <1>5, <1>6, <3>1 DEF localMatchingKeys
      <4> QED
        BY <2>1, <2>3, <2>4, <4>1
    <3>2. CASE nk[1] # p
      BY <1>5, <1>7, <2>1, <2>3, <2>4, <3>2 DEF Accounted
    <3> QED
      BY <3>1, <3>2
  <2> QED
    BY <2>1, <2>3, <2>4 DEF ListInv, ListOK, Accounted
<1>9. CASE D # {}
  <2>1. /\ listing'.pc = "collect" /\ listing'.dedup = listing.dedup
        /\ listing'.peers = listing.peers \ {p}
        /\ listing'.partial = listing.partial \cup {p}
        /\ listing'.truncated = listing.truncated
    BY <1>1, <1>2, <1>9 DEF ListRecord
  <2>2. steady' \subseteq steady
    BY <1>5
  <2> QED
    BY <1>7, <2>1, <2>2 DEF ListInv, ListOK, Accounted
<1> QED
  BY <1>8, <1>9

LEMMA ResultKeeps ==
    ASSUME TypeInv, ListInv, result, Watch
    PROVE  ListInv'
<1>1. listing \in ListRecord
  BY DEF TypeInv, ListTypeOK, ListRecord
<1>2. /\ listing.pc = "collect" /\ listing'.pc = "done" /\ listing.peers = {}
      /\ listing'.peers = {} /\ listing'.dedup = listing.dedup
      /\ listing'.partial = listing.partial /\ listing'.truncated = listing.truncated
  BY <1>1 DEF result, ListRecord
<1>3. steady' \subseteq steady
  BY <1>2 DEF Watch
<1> QED
  BY <1>2, <1>3 DEF ListInv, ListOK, Accounted

\* While others act, keys may leave the watched set but none joins it.
LEMMA OthersKeepListing ==
    ASSUME ListInv, UNCHANGED listing, Watch
    PROVE  ListInv'
<1>1. steady' \subseteq steady
  <2>1. CASE listing.pc = "collect"
    BY <2>1 DEF Watch
  <2>2. CASE listing.pc # "collect"
    BY <2>2 DEF Watch
  <2> QED
    BY <2>1, <2>2
<1> QED
  BY <1>1 DEF ListInv, ListOK, Accounted

LEMMA OnlyListing ==
    ASSUME NEW n, Loop(n) \/ Support(n) \/ Environment(n)
    PROVE  Watch /\ (UNCHANGED listing \/ ListStep)
BY DEF Loop, Support, Environment, Cluster, Rebalancing, Syncing, Repairing, Listing

(***************************************************************************)
(* ListKeys asks every member at once and merges what comes back while     *)
(* keys move.  For every number of nodes and keys and every maximum: a     *)
(* listing never exceeds the maximum, and one that says it is neither      *)
(* truncated nor partial has every key that stayed where it was.           *)
(***************************************************************************)
THEOREM ListingComplete == Spec => []ListKeysComplete
<1>1. Init => ListInv
  <2> SUFFICES ASSUME Init PROVE ListInv
    OBVIOUS
  <2>1. Cardinality({}) = 0 /\ MaxResults \in Nat
    BY FS_EmptySet, ListAssumption
  <2> QED
    BY <2>1 DEF Init, ListInit, ListInv, ListOK, Accounted
<1>2. TypeInv /\ ListInv /\ [Next]_vars => ListInv'
  <2> SUFFICES ASSUME TypeInv, ListInv, [Next]_vars PROVE ListInv'
    OBVIOUS
  <2>1. CASE UNCHANGED vars
    BY <2>1 DEF vars, listVars, ListInv, ListOK, Accounted
  <2>2. CASE Next
    <3>1. Watch /\ (UNCHANGED listing \/ ListStep)
      BY <2>2, OnlyListing DEF Next
    <3> QED
      BY <3>1, ListKeysKeeps, CollectKeeps, ResultKeeps, OthersKeepListing DEF ListStep
  <2> QED
    BY <2>1, <2>2
<1>3. ListInv => ListKeysComplete
  BY DEF ListInv, ListOK, Accounted, ListKeysComplete
<1> QED
  BY <1>1, <1>2, <1>3, TypeInvHolds, PTL DEF Spec

-----------------------------------------------------------------------------
(***************************************************************************)
(* Nothing vanishes.  The argument is that copies move towards the key on  *)
(* the ring: a node forwards a copy only to a primary that is nearer than  *)
(* itself, because it is always on its own ring.  So whenever a node is    *)
(* about to let go of a key, some nearer node has it, or a hint for one;   *)
(* and of all that have it the nearest lets nothing go.                    *)
(***************************************************************************)
Covers(p, k) == Present(items[p][k]) \/ \E h \in hints : h.key = k /\ h.to = p

NearerCovers(n, k) ==
    \E p \in Nodes : Distance(p, k) < Distance(n, k) /\ Covers(p, k)

\* n will shed k at the end of the tick under way and has nothing left to forward.
Shedding(n, k) ==
    /\ removedAt[n][k] \in {"recorded", "elapsed"} /\ tick[n].pc # "idle"
    /\ Present(items[n][k])
    /\ ~(tick[n].pc = "migrate" /\ Present(tick[n].batch[k]))

Moving(k) ==
    /\ (\E n \in Nodes : originalPrimary[n][k] # 0) => \E p \in Nodes : Covers(p, k)
    /\ \A n \in Nodes : tick[n].sent[k] # 0 => NearerCovers(n, k)
    /\ \A n \in Nodes : Shedding(n, k) => NearerCovers(n, k)

\* A node is always on its own ring.
OnOwnRing ==
    \A n \in Nodes : n \in members[n] /\ n \in ring[n] /\ \A S \in building[n] : n \in S

\* Every copy on its way is one.
CopiesPresent ==
    /\ \A n \in Nodes, k \in Keys : items[n][k] = NoItem \/ Present(items[n][k])
    /\ \A h \in hints : Present(h.item)
    /\ \A r \in sending : Present(r.item)

\* With at most one change of the membership, a node that has had a key and
\* does not own it has seen the change: it will not own it again.
Settled(n) == todo[n] = <<>> /\ building[n] = {}

OneChange(n) ==
    /\ Len(todo[n]) <= 1 /\ (todo[n] # <<>> => building[n] = {})
    /\ \A S, T \in building[n] : S = T

Had(n, k) ==
    Present(items[n][k]) \/ Present(tick[n].batch[k]) \/ tick[n].sent[k] # 0

GraceOK ==
    /\ ~scenario.grace => \A n \in Nodes, k \in Keys : removedAt[n][k] = "none"
    /\ Len(scenario.changes) <= 1 =>
         \A n \in Nodes :
            /\ OneChange(n)
            /\ \A k \in Keys :
                 /\ Had(n, k) => ownsKeyInternal(n, k) \/ Settled(n)
                 /\ removedAt[n][k] # "none" => Settled(n) /\ ~ownsKeyInternal(n, k)

\* Nothing else deletes a copy.
OnlyMoves ==
    /\ left.removes = 0 /\ left.faults <= scenario.faults
    /\ \A n \in Nodes : sync[n].pc = "idle"

VanishBody ==
    /\ OnlyMoves /\ OnOwnRing /\ CopiesPresent /\ GraceOK
    /\ \A k \in Keys : HandsOver(k) => Moving(k)

VanishInv == Running("rebalance") => VanishBody

\* What a step that plants copies does to the shards.
Grows ==
    \A p \in Nodes, j \in Keys :
        /\ Present(items[p][j]) => Present(items'[p][j])
        /\ Present(items'[p][j]) => Present(items[p][j]) \/ ownsKeyInternal(p, j)
        /\ originalPrimary'[p][j] # 0 => originalPrimary[p][j] # 0 \/ Present(items'[p][j])
        /\ items'[p][j] = NoItem \/ Present(items'[p][j])

\* What every step does to the budgets and to the keys refused or given up.
Spends ==
    /\ left'.removes = left.removes /\ left'.faults <= left.faults
    /\ refused \subseteq refused' /\ dropped \subseteq dropped'

\* Whoever loses a key leaves it with someone nearer.
NoLoss(k) ==
    \A p \in Nodes : Covers(p, k) => Covers(p, k)' \/ NearerCovers(p, k)

\* The first owner is the nearest node of the ring.
LEMMA HeadNearest ==
    ASSUME RingOK, NEW n \in Nodes, NEW k \in Keys, Lookup(n, k) # <<>>, NEW m \in ring[n],
           m # Head(Lookup(n, k))
    PROVE  Distance(Head(Lookup(n, k)), k) < Distance(m, k)
<1> DEFINE r == scenario.replication
           S == ring[n]
           w == Walk(r, S, k)
<1>1. r \in Nat /\ S \in SUBSET Nodes /\ Lookup(n, k) = w
  BY LookupIs
<1>2. w \in Seq(S) /\ Len(w) = Depth(r, S)
  BY <1>1, WalkSeq
<1>3. Len(w) \in Nat /\ Len(w) >= 1 /\ Head(w) = w[1]
  BY <1>1, <1>2
<1>4. 1 \in 1..Depth(r, S)
  BY <1>2, <1>3
<1>5. w[1] \in S /\ Cardinality(Nearer(S, w[1], k)) = 0
  BY <1>1, <1>4, WalkAt
<1>6. IsFiniteSet(Nearer(S, w[1], k))
  BY <1>1, RingAssumption, FS_Subset DEF Nearer
<1>7. Nearer(S, w[1], k) = {}
  BY <1>5, <1>6, FS_EmptySet
<1>8. ~(Distance(m, k) < Distance(w[1], k))
  BY <1>7 DEF Nearer
<1>9. w[1] \in Nodes /\ m \in Nodes /\ m # w[1]
  BY <1>1, <1>3, <1>5
<1>10. Distance(m, k) \in Nat /\ Distance(w[1], k) \in Nat /\ Distance(m, k) # Distance(w[1], k)
  BY <1>9, DistanceNat, DistanceInjective
<1> QED
  BY <1>1, <1>3, <1>8, <1>10

\* Of those who have a key, one at least as near as any given keeps it.
LEMMA NearestKeeps ==
    ASSUME NEW k \in Keys, NoLoss(k), NEW p \in Nodes, Covers(p, k)
    PROVE  \E q \in Nodes : Distance(q, k) <= Distance(p, k) /\ Covers(q, k)'
<1> DEFINE C == {q \in Nodes : Covers(q, k)}
           T == {Distance(q, k) : q \in C}
<1>1. T \in SUBSET Nat /\ Distance(p, k) \in T
  BY DistanceNat
<1>2. PICK x \in T : \A y \in T : x <= y
  <2> HIDE DEF T
  <2> QED
    BY <1>1, NatMin
<1>3. PICK q \in C : x = Distance(q, k)
  OBVIOUS
<1>4. ASSUME NearerCovers(q, k) PROVE FALSE
  <2>1. PICK s \in Nodes : Distance(s, k) < Distance(q, k) /\ Covers(s, k)
    BY <1>4 DEF NearerCovers
  <2>2. Distance(s, k) \in T /\ Distance(s, k) \in Nat /\ Distance(q, k) \in Nat
    BY <2>1, DistanceNat
  <2> QED
    BY <1>2, <1>3, <2>1, <2>2
<1>5. Covers(q, k)'
  BY <1>4 DEF NoLoss
<1>6. Distance(q, k) <= Distance(p, k)
  BY <1>1, <1>2, <1>3
<1> QED
  BY <1>5, <1>6

LEMMA NearerKept ==
    ASSUME NEW k \in Keys, NoLoss(k), NEW n \in Nodes, NearerCovers(n, k)
    PROVE  NearerCovers(n, k)'
<1>1. PICK p \in Nodes : Distance(p, k) < Distance(n, k) /\ Covers(p, k)
  BY DEF NearerCovers
<1>2. PICK q \in Nodes : Distance(q, k) <= Distance(p, k) /\ Covers(q, k)'
  BY <1>1, NearestKeeps
<1>3. Distance(p, k) \in Nat /\ Distance(q, k) \in Nat /\ Distance(n, k) \in Nat
  BY DistanceNat
<1>4. Distance(q, k) < Distance(n, k)
  BY <1>1, <1>2, <1>3
<1> QED
  BY <1>2, <1>4 DEF NearerCovers

\* The three parts of Moving, from what a step does.
LEMMA MovingStep ==
    ASSUME NEW k \in Keys, Moving(k), NoLoss(k),
           \A n \in Nodes : originalPrimary'[n][k] # 0 =>
              originalPrimary[n][k] # 0 \/ \E p \in Nodes : Covers(p, k) \/ Covers(p, k)',
           \A n \in Nodes : tick'[n].sent[k] # 0 =>
              tick[n].sent[k] # 0 \/ NearerCovers(n, k)',
           \A n \in Nodes : Shedding(n, k)' => Shedding(n, k) \/ NearerCovers(n, k)
    PROVE  Moving(k)'
<1>1. \A n \in Nodes : NearerCovers(n, k) => NearerCovers(n, k)'
  BY NearerKept
<1>2. \A p \in Nodes : Covers(p, k) => \E q \in Nodes : Covers(q, k)'
  BY NearestKeeps
<1>3. (\E n \in Nodes : originalPrimary'[n][k] # 0) => \E p \in Nodes : Covers(p, k)'
  BY <1>2 DEF Moving
<1>4. \A n \in Nodes : tick'[n].sent[k] # 0 => NearerCovers(n, k)'
  BY <1>1 DEF Moving
<1>5. \A n \in Nodes : Shedding(n, k)' => NearerCovers(n, k)'
  BY <1>1 DEF Moving
<1> QED
  BY <1>3, <1>4, <1>5 DEF Moving

\* A budget spent and a key refused or given up stay so.
LEMMA HandsOverBefore ==
    ASSUME ClusterOK, ClusterOK', OnlyMoves, Spends, UNCHANGED scenario,
           NEW k, HandsOver(k)'
    PROVE  HandsOver(k) /\ k \notin refused' \cup dropped' /\ (scenario.hints \/ left'.faults = left.faults)
<1>1. scenario \in Scenario
  BY ScenarioAssumption DEF ClusterOK, RestOK
<1>2. left.faults \in Nat /\ left'.faults \in Nat /\ scenario.faults \in Nat
  BY <1>1 DEF ClusterOK, LogOK, Bounds, Scenario
<1> QED
  BY <1>2 DEF HandsOver, Running, Spends, OnlyMoves

LEMMA OwnsFrame ==
    ASSUME UNCHANGED <<scenario, ring>>, NEW n, NEW k
    PROVE  ownsKeyInternal(n, k)' <=> ownsKeyInternal(n, k)
BY DEF ownsKeyInternal, Lookup

\* The bookkeeping of removals, from what a step of the loops does.
LEMMA GraceStep ==
    ASSUME GraceOK, UNCHANGED <<scenario, membershipVars>>,
           \A n \in Nodes, k \in Keys : Had(n, k)' => Had(n, k) \/ ownsKeyInternal(n, k),
           \A n \in Nodes, k \in Keys : removedAt'[n][k] # "none" =>
              removedAt[n][k] # "none"
              \/ (scenario.grace /\ Had(n, k) /\ ~ownsKeyInternal(n, k))
    PROVE  GraceOK'
<1>1. UNCHANGED <<scenario, ring, todo, building>>
  BY DEF membershipVars
<1>2. \A n, k : ownsKeyInternal(n, k)' <=> ownsKeyInternal(n, k)
  BY <1>1, OwnsFrame
<1>3. \A n : (Settled(n)' <=> Settled(n)) /\ (OneChange(n)' <=> OneChange(n))
  BY <1>1 DEF Settled, OneChange
<1>4. ~scenario.grace => \A n \in Nodes, k \in Keys : removedAt'[n][k] = "none"
  BY DEF GraceOK
<1>5. ASSUME Len(scenario.changes) <= 1, NEW n \in Nodes, NEW k \in Keys
      PROVE  /\ OneChange(n)'
             /\ Had(n, k)' => ownsKeyInternal(n, k)' \/ Settled(n)'
             /\ removedAt'[n][k] # "none" => Settled(n)' /\ ~ownsKeyInternal(n, k)'
  BY <1>2, <1>3, <1>5 DEF GraceOK
<1>6. ASSUME Len(scenario.changes) <= 1, NEW n \in Nodes
      PROVE  OneChange(n)'
  BY <1>3, <1>6 DEF GraceOK
<1> QED
  BY <1>1, <1>4, <1>5, <1>6 DEF GraceOK

LEMMA OnOwnRingFrame ==
    ASSUME OnOwnRing, UNCHANGED membershipVars
    PROVE  OnOwnRing'
BY DEF OnOwnRing, membershipVars

\* A key n is to shed it does not own.
LEMMA MarkedNotOwned ==
    ASSUME GraceOK, NEW k \in Keys, HandsOver(k), NEW n \in Nodes, removedAt[n][k] # "none"
    PROVE  ~ownsKeyInternal(n, k)
BY DEF GraceOK, HandsOver

LEMMA PlantsGrow ==
    ASSUME ShardsOK, NEW R, NEW k \in Keys, NEW it \in Item, Present(it),
           \A p \in Nodes : p \in R => ownsKeyInternal(p, k),
           \A p \in Nodes, j \in Keys : items[p][j] = NoItem \/ Present(items[p][j]),
           items' = Planted(R, k, it), originalPrimary' = recordOriginalPrimary(R, k)
    PROVE  Grows /\ \A p \in Nodes : p \in R => Present(items'[p][k])
<1>1. ASSUME NEW p \in Nodes, NEW j \in Keys
      PROVE  items'[p][j] = IF p \in R /\ j = k THEN it ELSE items[p][j]
  BY DEF Planted, ShardsOK
<1>2. ASSUME NEW p \in Nodes, NEW j \in Keys, originalPrimary'[p][j] # originalPrimary[p][j]
      PROVE  p \in R /\ j = k
  BY <1>2 DEF recordOriginalPrimary, First, ShardsOK
<1>3. \A p \in Nodes : p \in R => Present(items'[p][k])
  BY <1>1
<1>4. ASSUME NEW p \in Nodes, NEW j \in Keys
      PROVE  /\ Present(items[p][j]) => Present(items'[p][j])
             /\ Present(items'[p][j]) => Present(items[p][j]) \/ ownsKeyInternal(p, j)
             /\ originalPrimary'[p][j] # 0 => originalPrimary[p][j] # 0 \/ Present(items'[p][j])
             /\ items'[p][j] = NoItem \/ Present(items'[p][j])
  BY <1>1, <1>2, <1>3
<1> QED
  BY <1>3, <1>4 DEF Grows

LEMMA UnchangedGrow ==
    ASSUME CopiesPresent, UNCHANGED <<items, originalPrimary>>
    PROVE  Grows
BY DEF CopiesPresent, Grows

\* The hints a step takes away have been delivered.  (It gives none up.)
HintsKept(k) ==
    \A h \in hints : h.key = k => h \in hints' \/ Present(items'[h.to][k])

\* What a step has to show while the membership stays.
Hands(k) ==
    /\ NoLoss(k)
    /\ \A n \in Nodes : originalPrimary'[n][k] # 0 =>
          originalPrimary[n][k] # 0 \/ \E p \in Nodes : Covers(p, k) \/ Covers(p, k)'
    /\ \A n \in Nodes : tick'[n].sent[k] # 0 => tick[n].sent[k] # 0 \/ NearerCovers(n, k)'
    /\ \A n \in Nodes : Shedding(n, k)' => Shedding(n, k) \/ NearerCovers(n, k)

LEMMA HandsStep ==
    ASSUME TypeInv, TypeInv', VanishBody, Spends, CopiesPresent',
           UNCHANGED <<scenario, membershipVars>>,
           \A n \in Nodes : sync'[n].pc = "idle",
           \A n \in Nodes, k \in Keys : Had(n, k)' => Had(n, k) \/ ownsKeyInternal(n, k),
           \A n \in Nodes, k \in Keys : removedAt'[n][k] # "none" =>
              removedAt[n][k] # "none"
              \/ (scenario.grace /\ Had(n, k) /\ ~ownsKeyInternal(n, k)),
           \A k \in Keys : HandsOver(k)' /\ HandsOver(k) => Hands(k)
    PROVE  VanishBody'
<1>1. ClusterOK /\ ClusterOK'
  BY DEF TypeInv
<1>2. OnlyMoves'
  <2>1. left.faults \in Nat /\ left'.faults \in Nat /\ scenario.faults \in Nat
    BY <1>1, ScenarioAssumption DEF ClusterOK, LogOK, RestOK, Bounds, Scenario
  <2> QED
    BY <2>1 DEF VanishBody, OnlyMoves, Spends
<1>3. OnOwnRing'
  BY OnOwnRingFrame DEF VanishBody
<1>4. GraceOK
  BY DEF VanishBody
<1>5. GraceOK'
  BY <1>4, GraceStep
<1>6. ASSUME NEW k \in Keys, HandsOver(k)'
      PROVE  Moving(k)'
  <2>1. HandsOver(k)
    BY <1>1, <1>6, HandsOverBefore DEF VanishBody
  <2>2. Moving(k) /\ Hands(k)
    BY <1>6, <2>1 DEF VanishBody
  <2> QED
    BY <2>2, MovingStep DEF Hands
<1> QED
  BY <1>2, <1>3, <1>5, <1>6 DEF VanishBody

\* Steps that plant copies and leave the rebalance loop alone.
LEMMA GrowStep ==
    ASSUME TypeInv, TypeInv', VanishBody, Spends, Grows,
           UNCHANGED <<scenario, membershipVars, tick, removedAt>>,
           \A n \in Nodes : sync'[n].pc = "idle",
           \A h \in hints' : Present(h.item), \A r \in sending' : Present(r.item),
           \A k \in Keys : HandsOver(k)' => HintsKept(k)
    PROVE  VanishBody'
<1>1. CopiesPresent'
  BY DEF CopiesPresent, Grows
<1>2. \A n \in Nodes, k \in Keys : Had(n, k)' => Had(n, k) \/ ownsKeyInternal(n, k)
  BY DEF Grows, Had
<1>3. \A n \in Nodes, k \in Keys : removedAt'[n][k] # "none" =>
         removedAt[n][k] # "none"
         \/ (scenario.grace /\ Had(n, k) /\ ~ownsKeyInternal(n, k))
  OBVIOUS
<1>4. ASSUME NEW k \in Keys, HandsOver(k)', HandsOver(k)
      PROVE  Hands(k)
  <2>1. NoLoss(k)
    <3>1. HintsKept(k)
      BY <1>4
    <3> QED
      BY <3>1 DEF NoLoss, Covers, HintsKept, Grows
  <2>2. ASSUME NEW n \in Nodes, originalPrimary'[n][k] # 0
        PROVE  originalPrimary[n][k] # 0 \/ \E p \in Nodes : Covers(p, k)'
    BY <2>2 DEF Grows, Covers
  <2>3. ASSUME NEW n \in Nodes, Shedding(n, k)'
        PROVE  Shedding(n, k)
    <3>1. ~ownsKeyInternal(n, k)
      BY <1>4, <2>3, MarkedNotOwned DEF Shedding, VanishBody
    <3> QED
      BY <2>3, <3>1 DEF Shedding, Grows
  <2> QED
    BY <2>1, <2>2, <2>3 DEF Hands
<1>5. UNCHANGED <<scenario, membershipVars>>
  OBVIOUS
<1> QED
  BY <1>1, <1>2, <1>3, <1>4, <1>5, HandsStep

\* What a dropped call costs.
LEMMA DroppedSpends ==
    ASSUME left \in [Bounds -> Nat], NEW D, Dropped(D), Cardinality(D) \in Nat
    PROVE  /\ left'.removes = left.removes /\ left'.faults = left.faults - Cardinality(D)
           /\ left'.faults <= left.faults
BY DEF Dropped, Bounds

LEMMA RefusingGrows ==
    ASSUME NEW S, NEW k, Refusing(S, k)
    PROVE  refused \subseteq refused' /\ (k \notin refused' => Accepting(S, k) = S)
BY DEF Refusing

\* ForwardSet plants its copy, or loses it to a fault, or is refused.
LEMMA ForwardSetGrows ==
    ASSUME TypeInv, CopiesPresent, NEW m \in Nodes, NEW k \in Keys, NEW it \in Item,
           Present(it), NEW replicate, NEW D \in ForwardDrops(m, k, replicate),
           ForwardSet(m, k, it, replicate, D)
    PROVE  /\ Grows /\ (dropped \subseteq dropped' => Spends)
           /\ m \notin D /\ k \notin refused' => Present(items'[m][k])
           /\ D # {} /\ ~(m \in D) => left'.faults # left.faults
           /\ m \in D => left'.faults # left.faults
<1> DEFINE S == IF m \in D THEN {} ELSE Targets(m, k, replicate) \ D
           R == Accepting(S, k) \cup {}
<1>1. ClusterOK /\ RingOK /\ ShardsOK /\ LogOK
  BY RingOKOf DEF TypeInv, ClusterOK
<1>2. applySet(R, k, it) /\ Refusing(S, k) /\ Dropped(D)
  BY DEF ForwardSet, applyForwardedSet
<1>3. \A p \in Nodes : p \in R => ownsKeyInternal(p, k)
  BY DEF Accepting
<1>4. \A p \in Nodes, j \in Keys : items[p][j] = NoItem \/ Present(items[p][j])
  BY DEF CopiesPresent
<1>5. m \notin D => m \in S
  BY DEF Targets
<1> HIDE DEF S
<1>6. items' = Planted(R, k, it) /\ originalPrimary' = recordOriginalPrimary(R, k)
  BY <1>2 DEF applySet
<1>7. Grows /\ \A p \in Nodes : p \in R => Present(items'[p][k])
  <2> HIDE DEF R
  <2> QED
    BY <1>1, <1>3, <1>4, <1>6, PlantsGrow
<1>8. refused \subseteq refused' /\ (k \notin refused' => Accepting(S, k) = S)
  BY <1>2, RefusingGrows
<1>9. IsFiniteSet(D) /\ Cardinality(D) \in Nat /\ left \in [Bounds -> Nat]
  BY <1>1, ForwardDropsTyped DEF LogOK
<1>10. /\ left'.removes = left.removes /\ left'.faults = left.faults - Cardinality(D)
       /\ left'.faults <= left.faults
  BY <1>2, <1>9, DroppedSpends
<1>11. D # {} => left'.faults # left.faults
  <2>1. D # {} => Cardinality(D) # 0
    BY <1>9, FS_EmptySet
  <2>2. left.faults \in Nat
    BY <1>9 DEF Bounds
  <2> QED
    BY <1>9, <1>10, <2>1, <2>2
<1>12. m \notin D /\ k \notin refused' => Present(items'[m][k])
  BY <1>5, <1>7, <1>8
<1> QED
  BY <1>7, <1>8, <1>10, <1>11, <1>12 DEF Spends

\* replayHints: the hint goes when its copy has been taken, or is given up.
LEMMA ReplayHintMoves ==
    ASSUME TypeInv, TypeInv', VanishBody, NEW n \in Nodes, ReplayHint(n),
           UNCHANGED <<rebalanceVars, syncVars, repairVars>>
    PROVE  VanishBody'
<1>1. PICK h \in hints : processHint(h)
  BY DEF ReplayHint
<1>2. h.to \in Nodes /\ h.key \in Keys /\ h.item \in Item
  BY DEF TypeInv, ClusterOK, LogOK
<1>3. CopiesPresent /\ Present(h.item)
  BY DEF VanishBody, CopiesPresent
<1>4. hints' \in {hints, hints \ {h}} /\ dropped \subseteq dropped'
  BY <1>1 DEF processHint, HintExpires
<1>5. /\ Grows /\ Spends
      /\ \A k \in Keys : k \notin refused' \cup dropped' => HintsKept(k)
  <2>1. CASE HintExpires(h)
    <3>1. Grows
      BY <1>3, <2>1, UnchangedGrow DEF HintExpires, shardVars
    <3>2. left.faults \in Nat
      BY DEF TypeInv, ClusterOK, LogOK, Bounds
    <3>3. Spends
      BY <2>1, <3>2 DEF HintExpires, Spends
    <3> QED
      BY <2>1, <3>1, <3>3 DEF HintExpires, HintsKept
  <2>2. ASSUME NEW D \in ForwardDrops(h.to, h.key, FALSE),
               ForwardSet(h.to, h.key, h.item, FALSE, D),
               hints' = IF D = {} THEN hints \ {h} ELSE hints
        PROVE  /\ Grows /\ Spends
               /\ \A k \in Keys : k \notin refused' \cup dropped' => HintsKept(k)
    <3>1. /\ Grows /\ Spends
          /\ h.to \notin D /\ h.key \notin refused' => Present(items'[h.to][h.key])
      BY <1>2, <1>3, <1>4, <2>2, ForwardSetGrows
    <3> QED
      BY <2>2, <3>1 DEF HintsKept
  <2> QED
    BY <1>1, <2>1, <2>2 DEF processHint
<1>6. \A k \in Keys : HandsOver(k)' => HintsKept(k)
  BY <1>5 DEF HandsOver
<1>7. (\A g \in hints' : Present(g.item)) /\ (\A r \in sending' : Present(r.item))
  BY <1>3, <1>4 DEF CopiesPresent, repairVars
<1>8. \A m \in Nodes : sync'[m].pc = "idle"
  BY DEF VanishBody, OnlyMoves, syncVars
<1>9. UNCHANGED <<scenario, membershipVars, tick, removedAt>>
  BY DEF rebalanceVars, ReplayHint
<1> QED
  BY <1>5, <1>6, <1>7, <1>8, <1>9, GrowStep

LEMMA PrimaryOwns ==
    ASSUME RingOK, NEW n \in Nodes, NEW k \in Keys, IsPrimary(n, k)
    PROVE  ownsKeyInternal(n, k)
<1>1. Lookup(n, k) \in Seq(Nodes) /\ Lookup(n, k) # <<>> /\ n = Head(Lookup(n, k))
  BY LookupSeq DEF IsPrimary
<1>2. 1 \in DOMAIN Lookup(n, k) /\ Lookup(n, k)[1] = n
  BY <1>1
<1> QED
  BY <1>2 DEF ownsKeyInternal, Range

\* The primary's write, on a node that owns the key.
LEMMA PrimarySetMoves ==
    ASSUME TypeInv, TypeInv', VanishBody, NEW n \in Nodes, NEW k \in Keys, PrimarySet(n, k),
           UNCHANGED <<rebalanceVars, syncVars, repairVars>>
    PROVE  VanishBody'
<1> DEFINE it == [version |-> versionCounter[n] + 1, origin |-> n]
           H(D) == {[from |-> n, to |-> m, key |-> k, item |-> it] : m \in D}
<1>1. ClusterOK /\ RingOK /\ ShardsOK /\ LogOK
  BY RingOKOf DEF TypeInv, ClusterOK
<1>2. it \in Item /\ Present(it)
  BY <1>1, RingAssumption DEF LogOK, Item, Present
<1>3. PICK D \in Drops(OtherReplicas(n, k)) :
        /\ applyForwardedSet(OtherReplicas(n, k) \ D, {n}, k, it)
        /\ queueHint(H(D))
        /\ left' = [left EXCEPT !.writes = @ - 1, !.faults = @ - Cardinality(D)]
  BY DEF PrimarySet
<1>4. OtherReplicas(n, k) \in SUBSET Nodes
  BY <1>1, ReplicasAreNodes
<1>5. Cardinality(D) \in Nat /\ left \in [Bounds -> Nat]
  BY <1>1, <1>4, DropsTyped DEF LogOK
<1>6. left'.removes = left.removes /\ left'.faults <= left.faults
  BY <1>3, <1>5 DEF Bounds
<1>7. \A h \in H(D) : Present(h.item)
  BY <1>2
<1>8. /\ hints' \subseteq hints \cup H(D) /\ dropped \subseteq dropped'
      /\ \A h \in hints : h \in hints' \/ h.key \in dropped'
  <2> HIDE DEF H
  <2> QED
    BY <1>3, QueueHintKeeps
<1> HIDE DEF it, H
<1> DEFINE R == Accepting(OtherReplicas(n, k) \ D, k) \cup {n}
<1>9. /\ items' = Planted(R, k, it) /\ originalPrimary' = recordOriginalPrimary(R, k)
      /\ refused \subseteq refused'
  BY <1>3, RefusingGrows DEF applyForwardedSet, applySet
<1>10. ownsKeyInternal(n, k)
  BY <1>1, PrimaryOwns DEF PrimarySet
<1>11. \A p \in Nodes : p \in R => ownsKeyInternal(p, k)
  BY <1>10 DEF Accepting
<1>12. CopiesPresent
  BY DEF VanishBody
<1>13. Grows
  <2> HIDE DEF R
  <2> QED
    BY <1>1, <1>2, <1>9, <1>11, <1>12, PlantsGrow DEF CopiesPresent
<1>14. (\A g \in hints' : Present(g.item)) /\ (\A r \in sending' : Present(r.item))
  BY <1>7, <1>8, <1>12 DEF CopiesPresent, repairVars
<1>15. \A m \in Nodes : sync'[m].pc = "idle"
  BY DEF VanishBody, OnlyMoves, syncVars
<1>16. \A j \in Keys : HandsOver(j)' => HintsKept(j)
  BY <1>8 DEF HintsKept, HandsOver
<1>17. UNCHANGED <<scenario, membershipVars, tick, removedAt>>
  BY DEF PrimarySet, rebalanceVars
<1> QED
  BY <1>6, <1>8, <1>9, <1>13, <1>14, <1>15, <1>16, <1>17, GrowStep DEF Spends


\* Steps that leave the copies where they are.
LEMMA StillMoves ==
    ASSUME TypeInv, TypeInv', VanishBody,
           UNCHANGED <<scenario, membershipVars, items, originalPrimary, hintVars, refused,
                       rebalanceVars, syncVars>>,
           left'.removes = left.removes, left'.faults <= left.faults,
           \A r \in sending' : Present(r.item)
    PROVE  VanishBody'
<1>1. CopiesPresent
  BY DEF VanishBody
<1>2. Grows
  BY <1>1, UnchangedGrow
<1>3. \A g \in hints' : Present(g.item)
  BY <1>1 DEF CopiesPresent
<1>4. \A m \in Nodes : sync'[m].pc = "idle"
  BY DEF VanishBody, OnlyMoves, syncVars
<1>5. \A j \in Keys : HintsKept(j)
  BY DEF HintsKept
<1>6. UNCHANGED <<scenario, membershipVars, tick, removedAt>>
  BY DEF rebalanceVars
<1> QED
  BY <1>2, <1>3, <1>4, <1>5, <1>6, GrowStep DEF Spends

\* A batch is made of copies.
LEMMA BatchPresent ==
    ASSUME NEW n, NEW p, NEW q, NEW w, NEW r \in Batch(n, p, q, w)
    PROVE  Present(r.item)
BY DEF Batch

LEMMA EnqueuePresent ==
    ASSUME CopiesPresent, NEW n, NEW P, NEW k, NEW it, enqueue(n, P, k, it)
    PROVE  \A r \in sending' : Present(r.item)
<1> DEFINE q == [p \in Nodes |->
            IF p \in P /\ Newer(it, entries[n][p][k]) THEN [entries[n][p] EXCEPT ![k] = it]
            ELSE entries[n][p]]
           full == {p \in P : /\ q[p] # entries[n][p]
                              /\ Cardinality({j \in Keys : Present(q[p][j])}) >= MaxBatchSize}
<1>1. sending' = sending \cup UNION {Batch(n, p, q[p], FALSE) : p \in full}
  BY DEF enqueue
<1> HIDE DEF q, full
<1>2. ASSUME NEW r \in sending', r \notin sending PROVE Present(r.item)
  <2>1. PICK p \in full : r \in Batch(n, p, q[p], FALSE)
    BY <1>1, <1>2
  <2> QED
    BY <2>1, BatchPresent
<1> QED
  BY <1>2 DEF CopiesPresent

\* The read plants a copy it has seen, at a node that owns the key.
LEMMA ReadRepairMoves ==
    ASSUME TypeInv, TypeInv', VanishBody, NEW n \in Nodes, NEW k \in Keys, ReadRepair(n, k),
           UNCHANGED <<rebalanceVars, syncVars>>
    PROVE  VanishBody'
<1> DEFINE owners == Range(Lookup(n, k))
           chosen == Chosen(n, k)
           R == IF items[n][k] = NoItem \/ Newer(chosen, items[n][k]) THEN {n} ELSE {}
<1>1. ClusterOK /\ RingOK /\ ShardsOK /\ LogOK /\ CopiesPresent
  BY RingOKOf DEF TypeInv, ClusterOK, VanishBody
<1>2. owners \subseteq Nodes
  BY <1>1, OwnersAreNodes
<1>3. Held(n, k) # {} /\ n \in owners
  BY DEF ReadRepair, Held
<1>4. chosen \in Held(n, k) /\ chosen \in Item
  BY <1>1, <1>3, ChosenHeld
<1>5. Present(chosen)
  BY <1>1, <1>2, <1>4 DEF Held, CopiesPresent
<1>6. applySet(R, k, chosen) /\ enqueue(n, owners \ {n}, k, chosen)
  BY DEF ReadRepair, Chosen, Held
<1>7. Spend("reads") /\ UNCHANGED <<scenario, membershipVars, hintVars, refused>>
  BY DEF ReadRepair
<1>8. \A p \in Nodes : p \in R => ownsKeyInternal(p, k)
  BY <1>3 DEF ownsKeyInternal
<1> HIDE DEF owners, chosen, R
<1>9. Grows
  BY <1>1, <1>4, <1>5, <1>6, <1>8, PlantsGrow DEF applySet, CopiesPresent
<1>10. left'.removes = left.removes /\ left'.faults <= left.faults
  BY <1>1, <1>7 DEF Spend, LogOK, Bounds
<1>11. \A r \in sending' : Present(r.item)
  BY <1>1, <1>6, EnqueuePresent
<1>12. \A g \in hints' : Present(g.item)
  BY <1>1, <1>7 DEF CopiesPresent
<1>13. \A m \in Nodes : sync'[m].pc = "idle"
  BY DEF VanishBody, OnlyMoves, syncVars
<1>14. \A j \in Keys : HintsKept(j)
  BY <1>7 DEF HintsKept
<1>15. UNCHANGED <<scenario, membershipVars, tick, removedAt>>
  BY <1>7 DEF rebalanceVars
<1>16. Spends
  BY <1>7, <1>10 DEF Spends
<1> QED
  BY <1>9, <1>11, <1>12, <1>13, <1>14, <1>15, <1>16, GrowStep

LEMMA SendRepairMoves ==
    ASSUME TypeInv, TypeInv', VanishBody, NEW n \in Nodes, SendRepair(n),
           UNCHANGED <<rebalanceVars, syncVars>>
    PROVE  VanishBody'
<1>0. PICK r \in sending : \E D \in ForwardDrops(r.to, r.key, FALSE) :
        /\ ForwardSet(r.to, r.key, r.item, FALSE, D)
        /\ sending' = sending \ {r}
        /\ UNCHANGED <<scenario, membershipVars, hintVars>>
  BY DEF SendRepair
<1>1. PICK D \in ForwardDrops(r.to, r.key, FALSE) :
        /\ ForwardSet(r.to, r.key, r.item, FALSE, D)
        /\ sending' = sending \ {r}
        /\ UNCHANGED <<scenario, membershipVars, hintVars>>
  BY <1>0
<1>2. r.to \in Nodes /\ r.key \in Keys /\ r.item \in Item
  BY DEF TypeInv, RepairTypeOK
<1>3. CopiesPresent /\ Present(r.item)
  BY DEF VanishBody, CopiesPresent
<1>4. Grows /\ Spends
  BY <1>1, <1>2, <1>3, ForwardSetGrows
<1>5. \A j \in Keys : HintsKept(j)
  BY <1>1 DEF HintsKept
<1>6. (\A g \in hints' : Present(g.item)) /\ (\A s \in sending' : Present(s.item))
  BY <1>1, <1>3 DEF CopiesPresent
<1>7. \A m \in Nodes : sync'[m].pc = "idle"
  BY DEF VanishBody, OnlyMoves, syncVars
<1>8. UNCHANGED <<scenario, membershipVars, tick, removedAt>>
  BY <1>1 DEF rebalanceVars
<1> QED
  BY <1>4, <1>5, <1>6, <1>7, <1>8, GrowStep

LEMMA RepairStepMoves ==
    ASSUME TypeInv, TypeInv', VanishBody, NEW n \in Nodes, RepairStep(n) \/ stop(n),
           UNCHANGED <<rebalanceVars, syncVars>>
    PROVE  VanishBody'
<1>1. UNCHANGED clusterVars
  BY DEF RepairStep, run, flushPeer, flushDone, stop
<1>2. CopiesPresent
  BY DEF VanishBody
<1>3. \A r \in sending' : Present(r.item)
  <2>1. CASE flushPeer(n)
    BY <1>2, <2>1, BatchPresent DEF flushPeer, CopiesPresent
  <2>2. CASE UNCHANGED sending
    BY <1>2, <2>2 DEF CopiesPresent
  <2> QED
    BY <2>1, <2>2 DEF RepairStep, run, flushDone, stop
<1>4. left.faults \in Nat
  BY DEF TypeInv, ClusterOK, LogOK, Bounds
<1>5. /\ UNCHANGED <<scenario, membershipVars, items, originalPrimary, hintVars, refused>>
      /\ left'.removes = left.removes /\ left'.faults <= left.faults
  BY <1>1, <1>4 DEF clusterVars, shardVars
<1> QED
  BY <1>3, <1>5, StillMoves

\* The sweeper and the listing touch no copy; a peer that does not answer costs
\* a fault.
LEMMA OnlookersMove ==
    ASSUME TypeInv, TypeInv', VanishBody, NEW n \in Nodes,
           \/ \E k \in Keys : TombExpires(n, k)
           \/ compactTombstones(n)
           \/ ListStep,
           UNCHANGED <<rebalanceVars, syncVars, repairVars>>
    PROVE  VanishBody'
<1>1. \A r \in sending' : Present(r.item)
  BY DEF VanishBody, CopiesPresent, repairVars
<1>2. left \in [Bounds -> Nat]
  BY DEF TypeInv, ClusterOK, LogOK
<1>3. CASE UNCHANGED <<scenario, left, membershipVars, shardVars, hintVars, refused>>
  BY <1>1, <1>2, <1>3, StillMoves DEF shardVars, Bounds
<1>4. ASSUME NEW p \in Nodes, collectPeerKeys(p)
      PROVE  VanishBody'
  <2>1. PICK D \in Drops({p} \ {Lister}) : Dropped(D)
    BY <1>4 DEF collectPeerKeys
  <2>2. Cardinality(D) \in Nat
    BY <1>2, <2>1, DropsTyped
  <2>3. left'.removes = left.removes /\ left'.faults <= left.faults
    BY <1>2, <2>1, <2>2, DroppedSpends
  <2>4. UNCHANGED <<scenario, membershipVars, items, originalPrimary, hintVars, refused>>
    BY <1>4 DEF collectPeerKeys, shardVars
  <2> QED
    BY <1>1, <2>3, <2>4, StillMoves
<1> QED
  BY <1>3, <1>4 DEF TombExpires, compactTombstones, ListStep, ListKeys, result, clusterVars


\* Upsert, Remove and Build move no copy.
LEMMA MovingFrame ==
    ASSUME UNCHANGED <<scenario, left, items, originalPrimary, hintVars, refused, rebalanceVars>>,
           \A k \in Keys : HandsOver(k) => Moving(k)
    PROVE  \A k \in Keys : HandsOver(k)' => Moving(k)'
BY DEF HandsOver, Running, Moving, Covers, NearerCovers, Shedding, rebalanceVars

LEMMA TailOfOne ==
    ASSUME NEW T, NEW s \in Seq(T), s # <<>>, Len(s) <= 1
    PROVE  Tail(s) = <<>>
<1>1. Len(s) \in Nat /\ Len(s) # 0
  OBVIOUS
<1>2. Len(s) = 1
  BY <1>1
<1>3. Len(Tail(s)) = 0 /\ Tail(s) \in Seq(T)
  BY <1>2
<1> QED
  BY <1>3

\* No node ever leaves its own membership.
LEMMA MembershipChangeMoves ==
    ASSUME TypeInv, TypeInv', VanishBody, NEW n \in Nodes, MembershipChange(n),
           UNCHANGED <<rebalanceVars, syncVars, repairVars>>
    PROVE  VanishBody'
<1> DEFINE c == Head(todo[n])
<1>1. UNCHANGED <<scenario, left, ring, items, originalPrimary, hintVars, refused>>
  BY DEF MembershipChange, shardVars
<1>2. RestOK /\ RestOK' /\ OnOwnRing /\ GraceOK
  BY DEF TypeInv, ClusterOK, VanishBody
<1>3. todo[n] \in Seq(Change) /\ todo[n] # <<>> /\ todo' = [todo EXCEPT ![n] = Tail(todo[n])]
  BY <1>2 DEF RestOK, MembershipChange
<1>4. \/ \E S \in SUBSET Nodes : n \in S /\ Changed(n, S)
      \/ UNCHANGED <<members, building>>
  <2>1. members[n] \in SUBSET Nodes /\ n \in members[n] /\ c \in Change
    BY <1>2, <1>3 DEF RestOK, OnOwnRing
  <2>2. c.node \in Nodes
    BY <2>1 DEF Change
  <2> HIDE DEF c
  <2>3. CASE c.op = "upsert" /\ Upsert(n, c.node)
    BY <2>1, <2>2, <2>3 DEF Upsert
  <2>4. CASE c.op = "remove" /\ ~SkipsSelf(n, c) /\ RemoveMember(n, c.node)
    BY <2>1, <2>2, <2>4 DEF RemoveMember, SkipsSelf
  <2> QED
    BY <2>3, <2>4 DEF MembershipChange, c
<1>5. OnOwnRing'
  <2>1. ASSUME NEW S \in SUBSET Nodes, n \in S, Changed(n, S) PROVE OnOwnRing'
    <3>1. /\ members' = [members EXCEPT ![n] = S]
          /\ building' = [building EXCEPT ![n] = building[n] \cup {S}]
      BY <2>1 DEF Changed
    <3> QED
      BY <1>1, <1>2, <2>1, <3>1 DEF OnOwnRing, RestOK
  <2> QED
    BY <1>1, <1>2, <1>4, <2>1 DEF OnOwnRing
<1>6. CopiesPresent' /\ OnlyMoves'
  BY <1>1 DEF VanishBody, CopiesPresent, OnlyMoves, repairVars, syncVars
<1>7. GraceOK'
  <2>1. \A m, k : ownsKeyInternal(m, k)' <=> ownsKeyInternal(m, k)
    BY <1>1, OwnsFrame
  <2>2. \A m, k : Had(m, k)' <=> Had(m, k)
    BY <1>1 DEF Had, rebalanceVars
  <2>3. ASSUME NEW m \in Nodes, m # n
        PROVE  (OneChange(m)' <=> OneChange(m)) /\ (Settled(m)' <=> Settled(m))
    BY <1>2, <1>3, <1>4, <2>3 DEF OneChange, Settled, Changed, RestOK
  <2>4. ASSUME Len(scenario.changes) <= 1
        PROVE  OneChange(n)' /\ ~Settled(n)
    <3>1. Len(todo[n]) <= 1 /\ building[n] = {}
      BY <1>3, <2>4, <1>2 DEF GraceOK, OneChange
    <3>2. Len(todo'[n]) <= 1 /\ todo'[n] = <<>>
      <4>1. todo'[n] = Tail(todo[n])
        BY <1>2, <1>3 DEF RestOK
      <4>2. Tail(todo[n]) = <<>>
        BY <1>3, <3>1, TailOfOne
      <4>3. todo'[n] = <<>>
        BY <4>1, <4>2
      <4>4. Len(<<>>) <= 1
        OBVIOUS
      <4> QED
        BY <4>3, <4>4
    <3>3. \A S, T \in building'[n] : S = T
      BY <1>2, <1>4, <3>1 DEF Changed, RestOK
    <3> QED
      BY <1>3, <3>2, <3>3 DEF OneChange, Settled
  <2>5. UNCHANGED <<scenario, removedAt>>
    BY <1>1 DEF rebalanceVars
  <2>6. ASSUME Len(scenario.changes) <= 1, NEW m \in Nodes
        PROVE  /\ OneChange(m)'
               /\ \A k \in Keys :
                    /\ Had(m, k)' => ownsKeyInternal(m, k)' \/ Settled(m)'
                    /\ removedAt'[m][k] # "none" => Settled(m)' /\ ~ownsKeyInternal(m, k)'
    <3>1. CASE m = n
      BY <1>2, <2>1, <2>2, <2>4, <2>5, <2>6, <3>1 DEF GraceOK
    <3>2. CASE m # n
      BY <1>2, <2>1, <2>2, <2>3, <2>5, <2>6, <3>2 DEF GraceOK
    <3> QED
      BY <3>1, <3>2
  <2> QED
    BY <1>2, <2>5, <2>6 DEF GraceOK
<1>8. \A k \in Keys : HandsOver(k)' => Moving(k)'
  BY <1>1, MovingFrame DEF VanishBody
<1> QED
  BY <1>5, <1>6, <1>7, <1>8 DEF VanishBody

LEMMA RingBuildMoves ==
    ASSUME TypeInv, TypeInv', VanishBody, NEW n \in Nodes, RingBuild(n),
           UNCHANGED <<rebalanceVars, syncVars, repairVars>>
    PROVE  VanishBody'
<1>1. UNCHANGED <<scenario, left, members, todo, items, originalPrimary, hintVars, refused>>
  BY DEF RingBuild, shardVars
<1>2. RestOK /\ RestOK' /\ OnOwnRing /\ GraceOK
  BY DEF TypeInv, ClusterOK, VanishBody
<1>3. PICK S \in building[n] : /\ ring' = [ring EXCEPT ![n] = S]
                               /\ building' = [building EXCEPT ![n] = building[n] \ {S}]
  BY DEF RingBuild
<1>4. OnOwnRing'
  BY <1>1, <1>2, <1>3 DEF OnOwnRing, RestOK
<1>5. CopiesPresent' /\ OnlyMoves'
  BY <1>1 DEF VanishBody, CopiesPresent, OnlyMoves, repairVars, syncVars
<1>6. GraceOK'
  <2>1. \A m, k : Had(m, k)' <=> Had(m, k)
    BY <1>1 DEF Had, rebalanceVars
  <2>2. ASSUME NEW m \in Nodes, m # n
        PROVE  /\ (OneChange(m)' <=> OneChange(m)) /\ (Settled(m)' <=> Settled(m))
               /\ \A k : ownsKeyInternal(m, k)' <=> ownsKeyInternal(m, k)
    BY <1>1, <1>2, <1>3, <2>2 DEF OneChange, Settled, RestOK, ownsKeyInternal, Lookup
  <2>3. ASSUME Len(scenario.changes) <= 1
        PROVE  OneChange(n)' /\ Settled(n)' /\ ~Settled(n)
    <3>1. todo[n] = <<>> /\ \A T \in building[n] : T = S
      BY <1>2, <1>3, <2>3 DEF GraceOK, OneChange
    <3>2. building'[n] = {} /\ todo'[n] = <<>> /\ Len(todo'[n]) <= 1
      BY <1>1, <1>2, <1>3, <3>1 DEF RestOK
    <3> QED
      BY <1>3, <3>2 DEF OneChange, Settled
  <2>4. UNCHANGED <<scenario, removedAt>>
    BY <1>1 DEF rebalanceVars
  <2>5. ASSUME Len(scenario.changes) <= 1, NEW m \in Nodes
        PROVE  /\ OneChange(m)'
               /\ \A k \in Keys :
                    /\ Had(m, k)' => ownsKeyInternal(m, k)' \/ Settled(m)'
                    /\ removedAt'[m][k] # "none" => Settled(m)' /\ ~ownsKeyInternal(m, k)'
    <3>1. CASE m = n
      BY <1>2, <2>3, <2>4, <2>5, <3>1 DEF GraceOK
    <3>2. CASE m # n
      BY <1>2, <2>1, <2>2, <2>4, <2>5, <3>2 DEF GraceOK
    <3> QED
      BY <3>1, <3>2
  <2> QED
    BY <1>2, <2>4, <2>5 DEF GraceOK
<1>7. \A k \in Keys : HandsOver(k)' => Moving(k)'
  BY <1>1, MovingFrame DEF VanishBody
<1> QED
  BY <1>4, <1>5, <1>6, <1>7 DEF VanishBody


-----------------------------------------------------------------------------
(***************************************************************************)
(* The rebalance loop.                                                     *)
(***************************************************************************)
LEMMA GrowHands ==
    ASSUME VanishBody, NEW k \in Keys, HandsOver(k), Grows, HintsKept(k),
           \A m \in Nodes : tick'[m].sent[k] # 0 =>
              tick[m].sent[k] # 0 \/ NearerCovers(m, k)',
           \A m \in Nodes : Shedding(m, k)' => removedAt[m][k] # "none",
           \A m \in Nodes :
              Shedding(m, k)' /\ Present(items[m][k]) /\ ~ownsKeyInternal(m, k)
                 => Shedding(m, k)
    PROVE  Hands(k)
<1>1. NoLoss(k)
  BY DEF NoLoss, Covers, HintsKept, Grows
<1>2. ASSUME NEW n \in Nodes, originalPrimary'[n][k] # 0
      PROVE  originalPrimary[n][k] # 0 \/ \E p \in Nodes : Covers(p, k)'
  BY <1>2 DEF Grows, Covers
<1>3. ASSUME NEW n \in Nodes, Shedding(n, k)'
      PROVE  Shedding(n, k)
  <2>1. ~ownsKeyInternal(n, k)
    BY <1>3, MarkedNotOwned DEF VanishBody
  <2>2. Present(items'[n][k])
    BY <1>3 DEF Shedding
  <2>3. Present(items[n][k])
    BY <2>1, <2>2 DEF Grows
  <2> QED
    BY <1>3, <2>1, <2>3
<1> QED
  BY <1>1, <1>2, <1>3 DEF Hands

\* maybeRecordRemoval marks only keys the node does not own, and marks them new.
LEMMA RecordMarks ==
    ASSUME RebalanceTypeOK, NEW n \in Nodes, NEW K,
           removedAt' = [removedAt EXCEPT ![n] = maybeRecordRemoval(n, K)]
    PROVE  \A m \in Nodes, k \in Keys :
             /\ removedAt'[m][k] # "none" =>
                  \/ removedAt[m][k] # "none"
                  \/ scenario.grace /\ m = n /\ k \in K /\ ~ownsKeyInternal(m, k)
             /\ removedAt'[m][k] \in {"recorded", "elapsed"} =>
                  removedAt[m][k] = removedAt'[m][k]
BY DEF RebalanceTypeOK, maybeRecordRemoval

LEMMA CollectMoves ==
    ASSUME TypeInv, TypeInv', VanishBody, NEW n \in Nodes, collectRebalanceCandidates(n),
           UNCHANGED <<syncVars, repairVars>>
    PROVE  VanishBody'
<1> DEFINE held == {k \in Keys : Present(items[n][k])}
           b == [k \in Keys |-> IF k \in held /\ shouldRebalance(n, k)
                                THEN items[n][k] ELSE NoItem]
<1>1. /\ tick' = [tick EXCEPT ![n].pc = "migrate", ![n].batch = b]
      /\ removedAt' = [removedAt EXCEPT ![n] = maybeRecordRemoval(n, held)]
      /\ UNCHANGED clusterVars
  BY DEF collectRebalanceCandidates
<1>2. UNCHANGED <<scenario, left, membershipVars, items, originalPrimary, hintVars, refused>>
  BY <1>1 DEF clusterVars, shardVars
<1>3. RebalanceTypeOK /\ CopiesPresent /\ left.faults \in Nat
  BY DEF TypeInv, VanishBody, ClusterOK, LogOK, Bounds
<1>4. \A k \in Keys : Present(b[k]) => Present(items[n][k])
  BY NoItemTyped
<1>5. \A k \in Keys : Present(items[n][k]) /\ ~ownsKeyInternal(n, k) => Present(b[k])
  BY DEF shouldRebalance
<1>6. \A m \in Nodes, k \in Keys :
        /\ removedAt'[m][k] # "none" =>
             \/ removedAt[m][k] # "none"
             \/ scenario.grace /\ m = n /\ k \in held /\ ~ownsKeyInternal(m, k)
        /\ removedAt'[m][k] \in {"recorded", "elapsed"} =>
             removedAt[m][k] = removedAt'[m][k]
  <2>1. removedAt' = [removedAt EXCEPT ![n] = maybeRecordRemoval(n, held)]
    BY <1>1
  <2> HIDE DEF held, b
  <2> QED
    BY <1>3, <2>1 DEF RebalanceTypeOK, maybeRecordRemoval
<1> HIDE DEF b
<1>7. \A m \in Nodes :
        /\ tick'[m].sent = tick[m].sent
        /\ m # n => tick'[m] = tick[m]
        /\ m = n => tick'[m].pc = "migrate" /\ tick'[m].batch = b
  BY <1>1, <1>3 DEF RebalanceTypeOK
<1>8. Grows
  BY <1>2, <1>3, UnchangedGrow
<1>9. \A m \in Nodes, k \in Keys : Had(m, k)' => Had(m, k) \/ ownsKeyInternal(m, k)
  BY <1>2, <1>4, <1>7 DEF Had
<1>10. \A m \in Nodes, k \in Keys : removedAt'[m][k] # "none" =>
          removedAt[m][k] # "none"
          \/ (scenario.grace /\ Had(m, k) /\ ~ownsKeyInternal(m, k))
  BY <1>6 DEF Had
<1>11. ASSUME NEW k \in Keys, HandsOver(k)
       PROVE  Hands(k)
  <2>1. HintsKept(k)
    BY <1>2 DEF HintsKept
  <2>2. \A m \in Nodes : Shedding(m, k)' => removedAt[m][k] # "none"
    BY <1>6 DEF Shedding
  <2>3. ASSUME NEW m \in Nodes, Shedding(m, k)', Present(items[m][k]), ~ownsKeyInternal(m, k)
        PROVE  Shedding(m, k)
    BY <1>2, <1>5, <1>6, <1>7, <2>3 DEF Shedding
  <2> QED
    BY <1>7, <1>8, <1>11, <2>1, <2>2, <2>3, GrowHands
<1>12. CopiesPresent'
  BY <1>2, <1>3 DEF CopiesPresent, repairVars
<1>13. Spends
  BY <1>2, <1>3 DEF Spends
<1>14. \A m \in Nodes : sync'[m].pc = "idle"
  BY DEF VanishBody, OnlyMoves, syncVars
<1> QED
  BY <1>2, <1>9, <1>10, <1>11, <1>12, <1>13, <1>14, HandsStep


\* The branches of migrateForward.
LEMMA SkipMoves ==
    ASSUME TypeInv, TypeInv', VanishBody, NEW n \in Nodes, NEW k \in Keys,
           Lookup(n, k) = <<>> \/ IsPrimary(n, k),
           tick' = [tick EXCEPT ![n].batch[k] = NoItem], UNCHANGED <<clusterVars, removedAt>>,
           UNCHANGED <<syncVars, repairVars>>
    PROVE  VanishBody'
<1>1. UNCHANGED <<scenario, left, membershipVars, items, originalPrimary, hintVars, refused>>
  BY DEF clusterVars, shardVars
<1>2. RebalanceTypeOK /\ CopiesPresent /\ left.faults \in Nat /\ RingOK
  BY RingOKOf DEF TypeInv, VanishBody, ClusterOK, LogOK, Bounds
<1>3. \A m \in Nodes, j \in Keys :
        /\ tick'[m].sent[j] = tick[m].sent[j] /\ tick'[m].pc = tick[m].pc
        /\ Present(tick'[m].batch[j]) => Present(tick[m].batch[j])
        /\ ~(m = n /\ j = k) => tick'[m].batch[j] = tick[m].batch[j]
  BY <1>2, NoItemTyped DEF RebalanceTypeOK
<1>4. ownsKeyInternal(n, k)
  BY <1>2, PrimaryOwns DEF ownsKeyInternal
<1>5. Grows
  BY <1>1, <1>2, UnchangedGrow
<1>6. \A m \in Nodes, j \in Keys : Had(m, j)' => Had(m, j) \/ ownsKeyInternal(m, j)
  BY <1>1, <1>3 DEF Had
<1>7. \A m \in Nodes, j \in Keys : removedAt'[m][j] # "none" =>
         removedAt[m][j] # "none"
         \/ (scenario.grace /\ Had(m, j) /\ ~ownsKeyInternal(m, j))
  OBVIOUS
<1>8. ASSUME NEW j \in Keys, HandsOver(j)
      PROVE  Hands(j)
  <2>1. HintsKept(j)
    BY <1>1 DEF HintsKept
  <2>2. \A m \in Nodes : Shedding(m, j)' => removedAt[m][j] # "none"
    BY DEF Shedding
  <2>3. ASSUME NEW m \in Nodes, Shedding(m, j)', Present(items[m][j]), ~ownsKeyInternal(m, j)
        PROVE  Shedding(m, j)
    BY <1>1, <1>3, <1>4, <2>3 DEF Shedding
  <2> QED
    BY <1>3, <1>5, <1>8, <2>1, <2>2, <2>3, GrowHands
<1>9. CopiesPresent'
  BY <1>1, <1>2 DEF CopiesPresent, repairVars
<1>10. Spends
  BY <1>1, <1>2 DEF Spends
<1>11. \A m \in Nodes : sync'[m].pc = "idle"
  BY DEF VanishBody, OnlyMoves, syncVars
<1> QED
  BY <1>1, <1>6, <1>7, <1>8, <1>9, <1>10, <1>11, HandsStep

\* The copy goes to a nearer node, or leaves a hint for it, or costs a fault.
LEMMA ForwardMoves ==
    ASSUME TypeInv, TypeInv', VanishBody, NEW n \in Nodes, NEW k \in Keys,
           migrateForward(n, k), ~(Lookup(n, k) = <<>> \/ IsPrimary(n, k)),
           UNCHANGED <<syncVars, repairVars>>
    PROVE  VanishBody'
<1>0. PICK to \in Nodes : to = Head(Lookup(n, k))
  <2>1. RingOK /\ Lookup(n, k) # <<>>
    BY RingOKOf DEF TypeInv
  <2> QED
    BY <2>1, HeadIsNode
<1> DEFINE it == tick[n].batch[k]
           h == [from |-> n, to |-> to, key |-> k, item |-> it]
<1>1. PICK D \in ForwardDrops(to, k, TRUE) :
        /\ ForwardSet(to, k, it, TRUE, D)
        /\ IF to \in D THEN queueHint({h}) ELSE UNCHANGED hintVars
        /\ tick' = [tick EXCEPT ![n].sent[k] = to]
        /\ UNCHANGED <<scenario, membershipVars>>
  BY <1>0 DEF migrateForward
<1>2. ClusterOK /\ ClusterOK' /\ RebalanceTypeOK /\ CopiesPresent /\ OnlyMoves /\ RingOK
  BY RingOKOf DEF TypeInv, VanishBody
<1>3. it \in Item /\ Present(it) /\ UNCHANGED removedAt
  BY <1>2 DEF RebalanceTypeOK, migrateForward
<1>4. Distance(to, k) < Distance(n, k)
  <2>1. n \in ring[n] /\ n # to /\ Lookup(n, k) # <<>>
    BY <1>0 DEF VanishBody, OnOwnRing, IsPrimary
  <2> QED
    BY <1>0, <1>2, <2>1, HeadNearest
<1>5. h.key = k /\ h.to = to /\ h.item = it
  OBVIOUS
<1> HIDE DEF h, it
<1>6. /\ hints' \subseteq hints \cup {h} /\ dropped \subseteq dropped'
      /\ \A g \in hints : g \in hints' \/ g.key \in dropped'
      /\ to \in D /\ scenario.hints => h \in hints' \/ h.key \in dropped'
  BY <1>1, QueueHintKeeps
<1>7. /\ Grows /\ Spends
      /\ to \notin D /\ k \notin refused' => Present(items'[to][k])
      /\ to \in D => left'.faults # left.faults
  BY <1>1, <1>2, <1>3, <1>6, ForwardSetGrows
<1>8. \A m \in Nodes, j \in Keys :
        /\ ~(m = n /\ j = k) => tick'[m].sent[j] = tick[m].sent[j]
        /\ tick'[m].pc = tick[m].pc /\ tick'[m].batch = tick[m].batch
  BY <1>1, <1>2 DEF RebalanceTypeOK
<1>9. Had(n, k)
  BY <1>3 DEF Had, it
<1>10. \A m \in Nodes, j \in Keys : Had(m, j)' => Had(m, j) \/ ownsKeyInternal(m, j)
  BY <1>7, <1>8, <1>9 DEF Had, Grows
<1>11. \A m \in Nodes, j \in Keys : removedAt'[m][j] # "none" =>
          removedAt[m][j] # "none"
          \/ (scenario.grace /\ Had(m, j) /\ ~ownsKeyInternal(m, j))
  BY <1>3
<1>12. ASSUME NEW j \in Keys, HandsOver(j), HandsOver(j)'
       PROVE  Hands(j)
  <2>1. HintsKept(j)
    BY <1>6, <1>12 DEF HintsKept, HandsOver
  <2>2. \A m \in Nodes : Shedding(m, j)' => removedAt[m][j] # "none"
    BY <1>3 DEF Shedding
  <2>3. ASSUME NEW m \in Nodes, Shedding(m, j)', Present(items[m][j]), ~ownsKeyInternal(m, j)
        PROVE  Shedding(m, j)
    BY <1>3, <1>8, <2>3 DEF Shedding
  <2>4. ASSUME j = k PROVE NearerCovers(n, k)'
    <3>1. k \notin refused' \cup dropped' /\ (scenario.hints \/ left'.faults = left.faults)
      BY <1>1, <1>2, <1>7, <1>12, <2>4, HandsOverBefore
    <3>2. Covers(to, k)'
      BY <1>5, <1>6, <1>7, <3>1 DEF Covers
    <3> QED
      BY <1>3, <1>4, <3>2 DEF NearerCovers
  <2>5. \A m \in Nodes : tick'[m].sent[j] # 0 => tick[m].sent[j] # 0 \/ NearerCovers(m, j)'
    BY <1>8, <2>4
  <2> QED
    BY <1>7, <1>12, <2>1, <2>2, <2>3, <2>5, GrowHands
<1>13. CopiesPresent'
  BY <1>2, <1>3, <1>5, <1>6, <1>7 DEF CopiesPresent, repairVars, Grows
<1>14. \A m \in Nodes : sync'[m].pc = "idle"
  BY DEF VanishBody, OnlyMoves, syncVars
<1> QED
  BY <1>1, <1>7, <1>10, <1>11, <1>12, <1>13, <1>14, HandsStep

LEMMA MigrateForwardMoves ==
    ASSUME TypeInv, TypeInv', VanishBody, NEW n \in Nodes, NEW k \in Keys,
           migrateForward(n, k), UNCHANGED <<syncVars, repairVars>>
    PROVE  VanishBody'
<1>1. CASE Lookup(n, k) = <<>> \/ IsPrimary(n, k)
  <2>1. tick' = [tick EXCEPT ![n].batch[k] = NoItem] /\ UNCHANGED <<clusterVars, removedAt>>
    BY <1>1 DEF migrateForward
  <2> QED
    BY <1>1, <2>1, SkipMoves
<1> QED
  BY <1>1, ForwardMoves


\* With no grace the copy goes at once: a nearer node has been sent it.
LEMMA ReleaseMoves ==
    ASSUME TypeInv, TypeInv', VanishBody, NEW n \in Nodes, NEW k \in Keys,
           migrateRelease(n, k), UNCHANGED <<syncVars, repairVars>>
    PROVE  VanishBody'
<1>1. UNCHANGED <<scenario, left, membershipVars, hintVars, refused>>
  BY DEF migrateRelease
<1>2. RebalanceTypeOK /\ ShardsOK /\ CopiesPresent /\ left.faults \in Nat
  BY DEF TypeInv, VanishBody, ClusterOK, LogOK, Bounds
<1>3. \A m \in Nodes, j \in Keys :
        /\ tick'[m].pc = tick[m].pc
        /\ Present(tick'[m].batch[j]) => Present(tick[m].batch[j])
        /\ tick'[m].sent[j] # 0 => tick[m].sent[j] # 0
        /\ ~(m = n /\ j = k) => tick'[m].batch[j] = tick[m].batch[j]
  BY <1>2, NoItemTyped DEF migrateRelease, RebalanceTypeOK
<1>4. \A m \in Nodes, j \in Keys :
        /\ items'[m][j] = items[m][j] \/ (m = n /\ j = k /\ items'[m][j] = NoItem)
        /\ originalPrimary'[m][j] = originalPrimary[m][j] \/ (m = n /\ j = k)
  BY <1>2 DEF migrateRelease, ShardsOK
<1>5. \A m \in Nodes, j \in Keys :
        /\ removedAt'[m][j] # "none" =>
             \/ removedAt[m][j] # "none"
             \/ scenario.grace /\ m = n /\ j = k /\ ~ownsKeyInternal(m, j)
        /\ removedAt'[m][j] \in {"recorded", "elapsed"} =>
             removedAt[m][j] = removedAt'[m][j]
  BY <1>2 DEF RebalanceTypeOK, maybeRecordRemoval, migrateRelease
<1>6. Had(n, k) /\ tick[n].sent[k] # 0
  BY DEF Had, migrateRelease
<1>7. \A m \in Nodes, j \in Keys : Had(m, j)' => Had(m, j) \/ ownsKeyInternal(m, j)
  BY <1>3, <1>4, NoItemTyped DEF Had
<1>8. \A m \in Nodes, j \in Keys : removedAt'[m][j] # "none" =>
         removedAt[m][j] # "none"
         \/ (scenario.grace /\ Had(m, j) /\ ~ownsKeyInternal(m, j))
  BY <1>5, <1>6
<1>9. ASSUME NEW j \in Keys, HandsOver(j)
      PROVE  Hands(j)
  <2>1. Moving(j)
    BY <1>9 DEF VanishBody
  <2>2. j = k => NearerCovers(n, k)
    BY <1>6, <2>1 DEF Moving
  <2>3. NoLoss(j)
    BY <1>1, <1>4, <2>2 DEF NoLoss, Covers
  <2>4. ASSUME NEW m \in Nodes, originalPrimary'[m][j] # 0
        PROVE  originalPrimary[m][j] # 0 \/ \E p \in Nodes : Covers(p, j)
    BY <1>4, <2>2, <2>4 DEF NearerCovers
  <2>5. ASSUME NEW m \in Nodes, Shedding(m, j)'
        PROVE  Shedding(m, j) \/ NearerCovers(m, j)
    BY <1>3, <1>4, <1>5, <2>2, <2>5, NoItemTyped DEF Shedding
  <2> QED
    BY <1>3, <2>3, <2>4, <2>5 DEF Hands
<1>10. CopiesPresent'
  BY <1>1, <1>2, <1>4 DEF CopiesPresent, repairVars
<1>11. Spends
  BY <1>1, <1>2 DEF Spends
<1>12. \A m \in Nodes : sync'[m].pc = "idle"
  BY DEF VanishBody, OnlyMoves, syncVars
<1> QED
  BY <1>1, <1>7, <1>8, <1>9, <1>10, <1>11, <1>12, HandsStep

\* Steps of the loop that plant copies and may mark a key or be done with one.
LEMMA LoopGrows ==
    ASSUME TypeInv, TypeInv', VanishBody, NEW n \in Nodes, Grows, Spends,
           UNCHANGED <<scenario, membershipVars, hintVars, syncVars, repairVars>>,
           \A m \in Nodes, j \in Keys :
              /\ tick'[m].sent[j] = tick[m].sent[j]
              /\ Present(tick'[m].batch[j]) => Had(m, j)
              /\ tick'[m] = tick[m] \/ (tick[m].pc = "diff" /\ tick'[m].pc = "diff")
                 \/ (tick[m].pc = "migrate" /\ ~Present(tick[m].batch[j])),
           \A m \in Nodes, j \in Keys :
              /\ removedAt'[m][j] # "none" =>
                   removedAt[m][j] # "none"
                   \/ (scenario.grace /\ Had(m, j) /\ ~ownsKeyInternal(m, j))
              /\ removedAt'[m][j] \in {"recorded", "elapsed"} =>
                   removedAt[m][j] \in {"recorded", "elapsed"}
    PROVE  VanishBody'
<1>1. \A m \in Nodes, j \in Keys : Had(m, j)' => Had(m, j) \/ ownsKeyInternal(m, j)
  BY DEF Had, Grows
<1>2. \A m \in Nodes, j \in Keys : removedAt'[m][j] # "none" =>
         removedAt[m][j] # "none"
         \/ (scenario.grace /\ Had(m, j) /\ ~ownsKeyInternal(m, j))
  OBVIOUS
<1>3. ASSUME NEW j \in Keys, HandsOver(j)
      PROVE  Hands(j)
  <2>1. HintsKept(j)
    BY DEF HintsKept
  <2>2. \A m \in Nodes : Shedding(m, j)' => removedAt[m][j] # "none"
    BY DEF Shedding
  <2>3. ASSUME NEW m \in Nodes, Shedding(m, j)', Present(items[m][j]), ~ownsKeyInternal(m, j)
        PROVE  Shedding(m, j)
    BY <2>3 DEF Shedding
  <2>4. \A m \in Nodes : tick'[m].sent[j] # 0 => tick[m].sent[j] # 0 \/ NearerCovers(m, j)'
    OBVIOUS
  <2> QED
    BY <1>3, <2>1, <2>2, <2>3, <2>4, GrowHands
<1>4. CopiesPresent'
  BY DEF CopiesPresent, repairVars, Grows, VanishBody
<1>5. \A m \in Nodes : sync'[m].pc = "idle"
  BY DEF VanishBody, OnlyMoves, syncVars
<1>6. UNCHANGED <<scenario, membershipVars>>
  OBVIOUS
<1> QED
  BY <1>1, <1>2, <1>3, <1>4, <1>5, <1>6, HandsStep

LEMMA ReplicateMoves ==
    ASSUME TypeInv, TypeInv', VanishBody, NEW n \in Nodes, replicateNewReplicas(n),
           UNCHANGED <<syncVars, repairVars>>
    PROVE  VanishBody'
<1>1. UNCHANGED <<scenario, left, membershipVars, items, originalPrimary, hintVars, refused,
                  removedAt>>
  BY DEF replicateNewReplicas, clusterVars, shardVars
<1>2. RebalanceTypeOK /\ CopiesPresent /\ left.faults \in Nat
  BY DEF TypeInv, VanishBody, ClusterOK, LogOK, Bounds
<1>3. Grows /\ Spends
  BY <1>1, <1>2, UnchangedGrow DEF Spends
<1>4. tick[n].pc = "migrate" /\ \A j \in Keys : ~Present(tick[n].batch[j])
  BY NoItemTyped DEF replicateNewReplicas, Nothing
<1>5. tick' = [tick EXCEPT ![n].pc = "diff", ![n].batch = items[n]]
  BY DEF replicateNewReplicas
<1>6. ASSUME NEW m \in Nodes, NEW j \in Keys
      PROVE  /\ tick'[m].sent[j] = tick[m].sent[j]
             /\ Present(tick'[m].batch[j]) => Had(m, j)
             /\ tick'[m] = tick[m] \/ (tick[m].pc = "diff" /\ tick'[m].pc = "diff")
                \/ (tick[m].pc = "migrate" /\ ~Present(tick[m].batch[j]))
  BY <1>2, <1>4, <1>5 DEF RebalanceTypeOK, Had
<1> QED
  BY <1>1, <1>3, <1>6, LoopGrows


LEMMA HandledKeeps ==
    ASSUME RebalanceTypeOK, NEW n \in Nodes, NEW K, NEW count, tick[n].pc = "diff",
           tick' = Handled(n, K, count), NEW m \in Nodes, NEW j \in Keys
    PROVE  /\ tick'[m].sent[j] = tick[m].sent[j]
           /\ Present(tick'[m].batch[j]) => Had(m, j)
           /\ tick'[m] = tick[m] \/ (tick[m].pc = "diff" /\ tick'[m].pc = "diff")
              \/ (tick[m].pc = "migrate" /\ ~Present(tick[m].batch[j]))
<1> DEFINE b == [k \in Keys |-> IF k \in K THEN NoItem ELSE tick[n].batch[k]]
           c == tick[n].processed + count
<1>1. tick' = [tick EXCEPT ![n].batch = b, ![n].processed = c]
  BY DEF Handled
<1>2. Present(b[j]) => Present(tick[n].batch[j])
  BY NoItemTyped
<1> HIDE DEF b, c
<1>3. m # n => tick'[m] = tick[m]
  BY <1>1 DEF RebalanceTypeOK
<1>4. tick'[n].sent = tick[n].sent /\ tick'[n].pc = tick[n].pc /\ tick'[n].batch = b
  BY <1>1 DEF RebalanceTypeOK
<1> QED
  BY <1>2, <1>3, <1>4 DEF Had

\* New replicas get a copy; what the limit or a fault keeps from them is only lost
\* to them.
LEMMA ReplDiffKeyMoves ==
    ASSUME TypeInv, TypeInv', VanishBody, NEW n \in Nodes, NEW k \in Keys,
           replDiffKey(n, k), UNCHANGED <<syncVars, repairVars>>
    PROVE  VanishBody'
<1>1. ClusterOK /\ RingOK /\ ShardsOK /\ LogOK /\ RebalanceTypeOK /\ CopiesPresent
  BY RingOKOf DEF TypeInv, ClusterOK, VanishBody
<1>2. /\ tick[n].pc = "diff" /\ Present(tick[n].batch[k]) /\ tick[n].batch[k] \in Item
      /\ left \in [Bounds -> Nat] /\ Had(n, k)
  BY <1>1 DEF replDiffKey, RebalanceTypeOK, LogOK, Had
<1>3. PICK K, count : tick' = Handled(n, K, count)
  BY DEF replDiffKey
<1>4. \A m \in Nodes, j \in Keys :
        /\ tick'[m].sent[j] = tick[m].sent[j]
        /\ Present(tick'[m].batch[j]) => Had(m, j)
        /\ tick'[m] = tick[m] \/ (tick[m].pc = "diff" /\ tick'[m].pc = "diff")
           \/ (tick[m].pc = "migrate" /\ ~Present(tick[m].batch[j]))
  BY <1>1, <1>2, <1>3, HandledKeeps
<1>5. UNCHANGED <<scenario, membershipVars, hintVars>>
  BY DEF replDiffKey, clusterVars
<1>6. \A m \in Nodes, j \in Keys :
        /\ removedAt'[m][j] # "none" =>
             removedAt[m][j] # "none"
             \/ (scenario.grace /\ Had(m, j) /\ ~ownsKeyInternal(m, j))
        /\ removedAt'[m][j] \in {"recorded", "elapsed"} =>
             removedAt[m][j] \in {"recorded", "elapsed"}
  <2>1. CASE removedAt' = [removedAt EXCEPT ![n] = maybeRecordRemoval(n, {k})]
    BY <1>1, <1>2, <2>1 DEF maybeRecordRemoval, RebalanceTypeOK
  <2>2. CASE UNCHANGED removedAt
    BY <2>2
  <2> QED
    BY <2>1, <2>2 DEF replDiffKey
<1>7. Grows /\ Spends
  <2>1. CASE UNCHANGED <<left, shardVars, refused>>
    BY <1>1, <1>2, <1>5, <2>1, UnchangedGrow DEF shardVars, Spends, Bounds
  <2>2. ASSUME NEW to \in SUBSET Nodes, sendReplicaDiff(n, k, tick[n].batch[k], to)
        PROVE  Grows /\ Spends
    <3>1. PICK D \in Drops(to) :
            /\ Dropped(D)
            /\ Refusing(to \ D, k)
            /\ items' = Planted(Accepting(to \ D, k), k, tick[n].batch[k])
            /\ originalPrimary' = recordOriginalPrimary(Accepting(to \ D, k), k)
      BY <2>2 DEF sendReplicaDiff
    <3> DEFINE R == Accepting(to \ D, k)
    <3>2. \A p \in Nodes : p \in R => ownsKeyInternal(p, k)
      BY DEF Accepting
    <3>3. Cardinality(D) \in Nat
      BY <1>2, <3>1, DropsTyped
    <3>4. Spends
      BY <1>2, <1>5, <3>1, <3>3, DroppedSpends, RefusingGrows DEF Spends
    <3>5. Grows
      <4> HIDE DEF R
      <4>1. /\ items' = Planted(R, k, tick[n].batch[k])
            /\ originalPrimary' = recordOriginalPrimary(R, k)
        BY <3>1 DEF R
      <4> QED
        BY <1>1, <1>2, <3>2, <4>1, PlantsGrow DEF CopiesPresent
    <3> QED
      BY <3>4, <3>5
  <2>3. \/ UNCHANGED <<left, shardVars, refused>>
        \/ \E to \in SUBSET Nodes : sendReplicaDiff(n, k, tick[n].batch[k], to)
    <3> DEFINE new == computeNewReplicas(n, k)
               cnt == IF scenario.limit = 0 THEN Cardinality(new)
                      ELSE Min({Cardinality(new), scenario.limit - tick[n].processed})
    <3>1. CASE UNCHANGED clusterVars
      BY <3>1 DEF clusterVars
    <3>2. CASE sendReplicaDiff(n, k, tick[n].batch[k], FirstReplicas(n, k, new, cnt))
      <4>1. new \in SUBSET (2..Len(Lookup(n, k)))
        BY DEF computeNewReplicas
      <4>2. FirstReplicas(n, k, new, cnt) \in SUBSET Nodes
        BY <1>1, <4>1, FirstReplicasAreNodes
      <4> QED
        BY <3>2, <4>2
    <3> QED
      BY <3>1, <3>2 DEF replDiffKey
  <2> QED
    BY <2>1, <2>2, <2>3
<1> QED
  BY <1>4, <1>5, <1>6, <1>7, LoopGrows

\* What is shed at the end of a tick was forwarded before.
LEMMA ShedMoves ==
    ASSUME TypeInv, TypeInv', VanishBody, NEW n \in Nodes, shedRemovedKeys(n),
           UNCHANGED <<syncVars, repairVars>>
    PROVE  VanishBody'
<1>1. UNCHANGED <<scenario, left, membershipVars, originalPrimary, hintVars, refused>>
  BY DEF shedRemovedKeys
<1>2. RebalanceTypeOK /\ ShardsOK /\ CopiesPresent /\ left.faults \in Nat
  BY DEF TypeInv, VanishBody, ClusterOK, LogOK, Bounds
<1>3. \A m \in Nodes : /\ m # n => tick'[m] = tick[m]
                       /\ m = n => tick'[m] = NoTick
  BY <1>2 DEF shedRemovedKeys, RebalanceTypeOK
<1>4. NoTick.pc = "idle" /\ \A j \in Keys : NoTick.sent[j] = 0 /\ ~Present(NoTick.batch[j])
  BY NoItemTyped DEF NoTick, Nothing
<1>5. \A m \in Nodes, j \in Keys :
        \/ items'[m][j] = items[m][j]
        \/ m = n /\ removedAt[m][j] = "elapsed" /\ items'[m][j] = NoItem
  BY <1>2 DEF shedRemovedKeys, ShardsOK
<1>6. \A m \in Nodes, j \in Keys :
        /\ m # n => removedAt'[m][j] = removedAt[m][j]
        /\ removedAt'[m][j] # "none" => removedAt[m][j] # "none"
  BY <1>2 DEF shedRemovedKeys, RebalanceTypeOK
<1>7. \A m \in Nodes, j \in Keys : Had(m, j)' => Had(m, j) \/ ownsKeyInternal(m, j)
  BY <1>3, <1>4, <1>5, NoItemTyped DEF Had
<1>8. \A m \in Nodes, j \in Keys : removedAt'[m][j] # "none" =>
         removedAt[m][j] # "none"
         \/ (scenario.grace /\ Had(m, j) /\ ~ownsKeyInternal(m, j))
  BY <1>6
<1>9. ASSUME NEW j \in Keys, HandsOver(j)
      PROVE  Hands(j)
  <2>1. Moving(j)
    BY <1>9 DEF VanishBody
  <2>2. tick[n].pc = "diff"
    BY DEF shedRemovedKeys
  <2>3. removedAt[n][j] = "elapsed" /\ Present(items[n][j]) => NearerCovers(n, j)
    BY <2>1, <2>2 DEF Moving, Shedding
  <2>4. NoLoss(j)
    BY <1>1, <1>5, <2>3 DEF NoLoss, Covers
  <2>5. ASSUME NEW m \in Nodes, Shedding(m, j)'
        PROVE  Shedding(m, j)
    BY <1>3, <1>4, <1>5, <1>6, <2>5 DEF Shedding
  <2> QED
    BY <1>1, <1>3, <1>4, <2>4, <2>5 DEF Hands
<1>10. CopiesPresent'
  BY <1>1, <1>2, <1>5 DEF CopiesPresent, repairVars
<1>11. Spends
  BY <1>1, <1>2 DEF Spends
<1>12. \A m \in Nodes : sync'[m].pc = "idle"
  BY DEF VanishBody, OnlyMoves, syncVars
<1> QED
  BY <1>1, <1>7, <1>8, <1>9, <1>10, <1>11, <1>12, HandsStep

LEMMA GraceElapsesMoves ==
    ASSUME TypeInv, TypeInv', VanishBody, NEW n \in Nodes, NEW k \in Keys,
           GraceElapses(n, k), UNCHANGED <<syncVars, repairVars>>
    PROVE  VanishBody'
<1>1. UNCHANGED <<scenario, left, membershipVars, items, originalPrimary, hintVars, refused,
                  tick>>
  BY DEF GraceElapses, clusterVars, shardVars
<1>2. RebalanceTypeOK /\ CopiesPresent /\ left.faults \in Nat
  BY DEF TypeInv, VanishBody, ClusterOK, LogOK, Bounds
<1>3. Grows /\ Spends
  BY <1>1, <1>2, UnchangedGrow DEF Spends
<1>4. \A m \in Nodes, j \in Keys :
        /\ tick'[m].sent[j] = tick[m].sent[j]
        /\ Present(tick'[m].batch[j]) => Had(m, j)
        /\ tick'[m] = tick[m] \/ (tick[m].pc = "diff" /\ tick'[m].pc = "diff")
           \/ (tick[m].pc = "migrate" /\ ~Present(tick[m].batch[j]))
  BY <1>1 DEF Had
<1>5. \A m \in Nodes, j \in Keys :
        /\ removedAt'[m][j] # "none" =>
             removedAt[m][j] # "none"
             \/ (scenario.grace /\ Had(m, j) /\ ~ownsKeyInternal(m, j))
        /\ removedAt'[m][j] \in {"recorded", "elapsed"} =>
             removedAt[m][j] \in {"recorded", "elapsed"}
  BY <1>2 DEF GraceElapses, RebalanceTypeOK
<1> QED
  BY <1>1, <1>3, <1>4, <1>5, LoopGrows

LEMMA RebalanceMoves ==
    ASSUME TypeInv, TypeInv', VanishBody, NEW n \in Nodes, RebalanceStep(n),
           UNCHANGED <<syncVars, repairVars>>
    PROVE  VanishBody'
BY CollectMoves, MigrateForwardMoves, ReleaseMoves, ReplDiffKeyMoves, ReplicateMoves,
   ShedMoves DEF RebalanceStep


-----------------------------------------------------------------------------
\* What does not run beside the rebalance loop: auto-sync, and removals.
LEMMA NothingElseDeletes ==
    ASSUME VanishBody, ~Running("sync"), NEW n \in Nodes
    PROVE  /\ ~SyncStep(n) /\ ~Restart(n)
           /\ \A k \in Keys : ~PrimaryRemove(n, k)
<1>1. ~SyncStep(n)
  BY DEF SyncStep, runAutoSyncTick, FetchMerkle, syncWithStatus, ForwardGet, fetchAndAdopt,
         updateAutoSyncBackoff, VanishBody, OnlyMoves
<1>2. ~Restart(n)
  BY DEF Restart
<1>3. \A k \in Keys : ~PrimaryRemove(n, k)
  BY DEF PrimaryRemove, VanishBody, OnlyMoves
<1> QED
  BY <1>1, <1>2, <1>3

LEMMA VanishStep ==
    ASSUME TypeInv, TypeInv', VanishBody, ~Running("sync"), NEW n \in Nodes,
           Loop(n) \/ Support(n) \/ Environment(n)
    PROVE  VanishBody'
<1>1. CASE Loop(n)
  <2>1. CASE Rebalancing(RebalanceStep(n))
    BY <2>1, RebalanceMoves DEF Rebalancing
  <2>2. CASE Repairing(RepairStep(n))
    BY <2>2, RepairStepMoves DEF Repairing
  <2> QED
    BY <1>1, <2>1, <2>2, NothingElseDeletes DEF Loop, Syncing
<1>2. CASE Support(n)
  <2>1. CASE Cluster(MembershipChange(n)) \/ Cluster(RingBuild(n)) \/ Cluster(ReplayHint(n))
    BY <2>1, MembershipChangeMoves, RingBuildMoves, ReplayHintMoves DEF Cluster
  <2>2. CASE Rebalancing(\E k \in Keys : GraceElapses(n, k))
    BY <2>2, GraceElapsesMoves DEF Rebalancing
  <2>3. CASE Syncing(\E k \in Keys : TombExpires(n, k)) \/ Syncing(compactTombstones(n))
    <3>1. /\ (\E k \in Keys : TombExpires(n, k)) \/ compactTombstones(n)
          /\ UNCHANGED <<rebalanceVars, syncVars, repairVars>>
      BY <2>3 DEF Syncing, TombExpires, compactTombstones
    <3> QED
      BY <3>1, OnlookersMove
  <2>4. CASE Repairing(SendRepair(n))
    BY <2>4, SendRepairMoves DEF Repairing
  <2> QED
    BY <1>2, <2>1, <2>2, <2>3, <2>4 DEF Support
<1>3. CASE Environment(n)
  <2>1. CASE Cluster(\E k \in Keys : PrimarySet(n, k) \/ PrimaryRemove(n, k))
    BY <2>1, PrimarySetMoves, NothingElseDeletes DEF Cluster
  <2>2. CASE Repairing(\E k \in Keys : ReadRepair(n, k)) \/ Repairing(stop(n))
    BY <2>2, ReadRepairMoves, RepairStepMoves DEF Repairing
  <2>3. CASE Listing(ListStep)
    BY <2>3, OnlookersMove DEF Listing
  <2> QED
    BY <1>3, <2>1, <2>2, <2>3, NothingElseDeletes DEF Environment
<1> QED
  BY <1>1, <1>2, <1>3

LEMMA VanishInit == ASSUME Init, scenario.removes = 0 PROVE VanishBody
<1>1. scenario \in Scenario /\ left = [b \in Bounds |-> scenario[b]]
  BY ScenarioAssumption DEF Init, NewDistMemory
<1>2. OnlyMoves
  <2>1. left.removes = 0 /\ left.faults = scenario.faults /\ scenario.faults \in Nat
    BY <1>1 DEF Bounds, Scenario
  <2> QED
    BY <2>1 DEF OnlyMoves, Init, SyncInit, NoSync
<1>3. OnOwnRing
  BY DEF Init, NewDistMemory, OnOwnRing
<1>4. CopiesPresent
  BY DEF Init, NewDistMemory, CopiesPresent, RepairInit
<1>5. \A n \in Nodes, k \in Keys : /\ ~Had(n, k) /\ removedAt[n][k] = "none"
                                   /\ tick[n].sent[k] = 0 /\ originalPrimary[n][k] = 0
  BY NoItemTyped DEF Init, NewDistMemory, RebalanceInit, NoTick, Nothing, Had
<1>6. GraceOK
  BY <1>5 DEF GraceOK, OneChange, Init, NewDistMemory
<1>7. \A k \in Keys : Moving(k)
  BY <1>5 DEF Moving, Shedding
<1> QED
  BY <1>2, <1>3, <1>4, <1>6, <1>7 DEF VanishBody

(***************************************************************************)
(* Rebalancing hands a copy over before it lets go of its own.  In every   *)
(* deployment where nothing else deletes copies (the auto-sync loop does   *)
(* not run beside the rebalancer and no client removes a key), for every   *)
(* number of nodes, replicas, keys and writes, and however ticks, ring     *)
(* changes, lost forwards, grace periods, repairs and hint replays         *)
(* interleave, a key that has been written is held by some node or hint,   *)
(* until a copy of it is refused or a hint for it given up: past its TTL,  *)
(* refused at a cap or pushed out of a full queue (HandsOver).             *)
(***************************************************************************)
THEOREM RebalanceKeepsKeys ==
    ASSUME \A s \in Scenarios :
              "rebalance" \in s.loops => "sync" \notin s.loops /\ s.removes = 0
    PROVE  Spec => []NothingVanishes
<1>1. Init => VanishInv
  <2> SUFFICES ASSUME Init, Running("rebalance") PROVE VanishBody
    BY DEF VanishInv
  <2>1. scenario.removes = 0
    BY DEF Init, NewDistMemory, Running
  <2> QED
    BY <2>1, VanishInit
<1>2. TypeInv /\ TypeInv' /\ VanishInv /\ [Next]_vars => VanishInv'
  <2> SUFFICES ASSUME TypeInv, TypeInv', VanishInv, [Next]_vars, Running("rebalance")'
               PROVE  VanishBody'
    BY DEF VanishInv
  <2>1. scenario \in Scenarios /\ scenario.nodes \subseteq Nodes
    BY RunningNodes DEF TypeInv, ClusterOK, RestOK
  <2>2. UNCHANGED scenario
    <3>1. CASE UNCHANGED vars
      BY <3>1 DEF vars, clusterVars
    <3>2. CASE Next
      BY <3>2, LoopFrame, SupportFrame, EnvironmentFrame
         DEF Next, MembershipChange, RingBuild
    <3> QED
      BY <3>1, <3>2
  <2>3. Running("rebalance") /\ ~Running("sync") /\ VanishBody
    BY <2>1, <2>2 DEF Running, VanishInv
  <2>4. CASE UNCHANGED vars
    <3>1. /\ UNCHANGED <<scenario, left, membershipVars, items, originalPrimary, hintVars,
                         refused, rebalanceVars, syncVars, repairVars>>
      BY <2>4 DEF vars, clusterVars, shardVars
    <3>2. left.faults \in Nat
      BY DEF TypeInv, ClusterOK, LogOK, Bounds
    <3>3. \A r \in sending' : Present(r.item)
      BY <2>3, <3>1 DEF VanishBody, CopiesPresent, repairVars
    <3> QED
      BY <2>3, <3>1, <3>2, <3>3, StillMoves
  <2>5. CASE Next
    BY <2>1, <2>3, <2>5, VanishStep DEF Next
  <2> QED
    BY <2>4, <2>5
<1>3. TypeInv /\ VanishInv => NothingVanishes
  <2> SUFFICES ASSUME TypeInv, VanishInv, NEW k \in scenario.keys, HandsOver(k),
                      \E n \in Nodes : originalPrimary[n][k] # 0
               PROVE  \/ \E n \in Nodes : Present(items[n][k])
                      \/ \E h \in hints : h.key = k
    BY DEF NothingVanishes
  <2>1. k \in Keys
    BY ScenarioAssumption DEF TypeInv, ClusterOK, RestOK, Scenario
  <2>2. Moving(k)
    BY <2>1 DEF VanishInv, VanishBody, HandsOver
  <2> QED
    BY <2>2 DEF Moving, Covers
<1> QED
  BY <1>1, <1>2, <1>3, TypeInvHolds, PTL DEF Spec
=============================================================================
