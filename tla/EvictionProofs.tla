--------------------------- MODULE EvictionProofs ---------------------------
(***************************************************************************)
(* The eviction algorithms are well typed, whatever the capacity and the   *)
(* number of shards: every operation of LRU, CAWOLFU, LFU, Clock and of    *)
(* the Sharded wrapper leaves a well-formed algorithm, tracks keys of the  *)
(* cache only, and evicts one of those or nothing.  LRU and CAWOLFU keep   *)
(* every shard in the order its keys were last set, and evict the oldest.  *)
(* Every algorithm but Clock tracks the key just set, and Evict has a      *)
(* victim whenever a key is tracked.                                       *)
(***************************************************************************)
EXTENDS Eviction, SumLemmas, FiniteSetTheorems, SequenceTheorems, TLAPS

Lists == Seq(Keys)
LfuStates == [count : [Keys -> Nat], last : Seq(Keys)]
ClockStates(cap) == [slot : [0..(cap - 1) -> Keys \cup {NoKey}],
                     count : [0..(cap - 1) -> Int], hand : Int]

AlgStates(name, cap) == IF name \in {"lru", "cawolfu"} THEN Lists
                        ELSE IF name = "lfu" THEN LfuStates ELSE ClockStates(cap)

\* What an Evict that found, or did not find, a victim gives back.
Results(S) == [ok : BOOLEAN, key : Keys \cup {NoKey}, st : S]
GoodResult(r, S) == r \in Results(S) /\ (r.ok => r.key \in Keys)

\* The results built by the two constructors are good.
LEMMA EvictedGood ==
    ASSUME NEW S, NEW k \in Keys, NEW s \in S
    PROVE  GoodResult(Evicted(k, s), S)
BY DEF GoodResult, Results, Evicted

LEMMA NothingGood ==
    ASSUME NEW S, NEW s \in S
    PROVE  GoodResult(NothingEvicted(s), S)
BY DEF GoodResult, Results, NothingEvicted

-----------------------------------------------------------------------------
\* Taking a key out of a list leaves a list of keys.
LEMMA WithoutList ==
    ASSUME NEW s \in Seq(Keys), NEW k
    PROVE  Without(s, k) \in Seq(Keys)
<1>1. CASE \E i \in 1..Len(s) : s[i] = k
  <2> DEFINE I == {i \in 1..Len(s) : s[i] = k}
  <2>1. I \in SUBSET Nat /\ I # {}
    BY <1>1
  <2>2. Min(I) \in I
    BY <2>1, NatMin DEF Min
  <2>3. Without(s, k) = RemoveAt(s, Min(I))
    BY <1>1, <2>1 DEF Without, RemoveFirst, SelectInSeq
  <2>4. PICK i \in 1..Len(s) : i = Min(I)
    BY <2>2
  <2> HIDE DEF I
  <2> QED
    BY <2>3, <2>4 DEF RemoveAt
<1>2. CASE ~ \E i \in 1..Len(s) : s[i] = k
  BY <1>2 DEF Without, RemoveFirst
<1> QED
  BY <1>1, <1>2

\* So does cutting a list that is not empty at its end.
LEMMA FrontLast ==
    ASSUME NEW s \in Seq(Keys), s # <<>>
    PROVE  Front(s) \in Seq(Keys) /\ Last(s) \in Keys
BY DEF Front, Last

\* LRU keeps a list of keys.
LEMMA LruTyped ==
    ASSUME NEW cap \in Nat, NEW s \in Lists, NEW k \in Keys
    PROVE  /\ lruSet(cap, s, k) \in Lists
           /\ lruDelete(s, k) \in Lists
           /\ GoodResult(lruEvict(cap, s), Lists)
<1> USE DEF Lists
<1>1. <<k>> \in Seq(Keys)
  OBVIOUS
<1>2. lruMoveToFront(s, k) \in Seq(Keys)
  BY <1>1, WithoutList DEF lruMoveToFront
<1>3. CASE s = <<>>
  <2>1. lruSet(cap, s, k) \in Lists
    BY <1>1, <1>2, <1>3 DEF lruSet
  <2> QED
    BY <1>3, <2>1, WithoutList, NothingGood DEF lruDelete, lruEvict
<1>4. CASE s # <<>>
  <2>1. lruSet(cap, s, k) \in Lists
    BY <1>1, <1>2, <1>4, FrontLast DEF lruSet
  <2>2. GoodResult(lruEvict(cap, s), Lists)
    BY <1>4, FrontLast, EvictedGood, NothingGood DEF lruEvict
  <2> QED
    BY <2>1, <2>2, WithoutList DEF lruDelete
<1> QED
  BY <1>3, <1>4

\* CAWOLFU keeps a list of keys.
LEMMA CawolfuTyped ==
    ASSUME NEW cap \in Nat, NEW s \in Lists, NEW k \in Keys
    PROVE  /\ cawolfuSet(cap, s, k) \in Lists
           /\ cawolfuDelete(s, k) \in Lists
           /\ GoodResult(cawolfuEvict(cap, s), Lists)
<1> USE DEF Lists
<1>1. <<k>> \in Seq(Keys)
  OBVIOUS
<1>2. cawolfuMoveToFront(s, k) \in Seq(Keys)
  BY <1>1, WithoutList DEF cawolfuMoveToFront
<1>3. CASE s = <<>>
  <2>1. cawolfuSet(cap, s, k) \in Lists
    BY <1>1, <1>2, <1>3 DEF cawolfuSet
  <2> QED
    BY <1>3, <2>1, WithoutList, NothingGood DEF cawolfuDelete, cawolfuEvict
<1>4. CASE s # <<>>
  <2>1. cawolfuSet(cap, s, k) \in Lists
    BY <1>1, <1>2, <1>4, FrontLast DEF cawolfuSet
  <2>2. GoodResult(cawolfuEvict(cap, s), Lists)
    BY <1>4, FrontLast, EvictedGood, NothingGood DEF cawolfuEvict
  <2> QED
    BY <2>1, <2>2, WithoutList DEF cawolfuDelete
<1> QED
  BY <1>3, <1>4

-----------------------------------------------------------------------------
\* LFU's heap has a least node: of the keys with the fewest uses, the one
\* that was used first.
LEMMA LfuLeast ==
    ASSUME NEW s \in LfuStates, s.last # <<>>
    PROVE  \E k \in Range(s.last) : \A o \in Range(s.last) \ {k} : lfuLess(s, k, o)
<1>1. s.count \in [Keys -> Nat] /\ s.last \in Seq(Keys)
  BY DEF LfuStates
<1> DEFINE N == {s.count[s.last[i]] : i \in 1..Len(s.last)}
<1>2. N \in SUBSET Nat /\ N # {}
  <2>1. 1 \in 1..Len(s.last)
    BY <1>1
  <2>2. \A i \in 1..Len(s.last) : s.last[i] \in Keys
    BY <1>1
  <2> QED
    BY <1>1, <2>1, <2>2
<1>3. PICK least \in N : \A y \in N : least <= y
  BY <1>2, NatMin
<1> DEFINE I == {i \in 1..Len(s.last) : s.count[s.last[i]] = least}
<1>4. I \in SUBSET Nat /\ I # {}
  OBVIOUS
<1>5. PICK i \in I : \A y \in I : i <= y
  BY <1>4, NatMin
<1>6. i \in 1..Len(s.last) /\ s.count[s.last[i]] = least
  OBVIOUS
<1>7. s.last[i] \in Range(s.last)
  BY <1>1, <1>6 DEF Range
<1>8. ASSUME NEW o \in Range(s.last) \ {s.last[i]}
      PROVE  lfuLess(s, s.last[i], o)
  <2>1. PICK j \in 1..Len(s.last) : o = s.last[j]
    <3>1. o \in Range(s.last) /\ DOMAIN s.last = 1..Len(s.last)
      BY <1>1
    <3> QED
      BY <3>1, Zenon DEF Range
  <2>2. least <= s.count[o] /\ s.count[o] \in Nat /\ least \in Nat
    BY <1>1, <1>2, <1>3, <2>1
  <2>3. CASE s.count[o] = least
    <3>1. j \in I /\ i \in Nat /\ j \in Nat /\ i # j
      BY <2>1, <2>3, <1>8
    <3>2. i < j
      BY <3>1, <1>5
    <3> QED
      BY <1>1, <1>6, <2>1, <2>3, <3>2 DEF lfuLess
  <2>4. CASE s.count[o] # least
    BY <1>6, <2>2, <2>4 DEF lfuLess
  <2> QED
    BY <2>3, <2>4
<1> QED
  BY <1>7, <1>8

LEMMA LfuDeleteTyped ==
    ASSUME NEW s \in LfuStates, NEW k
    PROVE  lfuDelete(s, k) \in LfuStates
BY WithoutList DEF LfuStates, lfuDelete

LEMMA LfuInternalEvictTyped ==
    ASSUME NEW s \in LfuStates
    PROVE  GoodResult(lfuInternalEvict(s), LfuStates)
<1>1. CASE s.last = <<>>
  BY <1>1, NothingGood DEF lfuInternalEvict
<1>2. CASE s.last # <<>>
  <2> DEFINE least == CHOOSE k \in Range(s.last) :
                        \A o \in Range(s.last) \ {k} : lfuLess(s, k, o)
  <2>1. least \in Range(s.last)
    BY <1>2, LfuLeast
  <2>2. least \in Keys
    <3> HIDE DEF least
    <3> QED
      BY <2>1 DEF Range, LfuStates
  <2>3. lfuInternalEvict(s) = Evicted(least, lfuDelete(s, least))
    BY <1>2 DEF lfuInternalEvict
  <2> HIDE DEF least
  <2> QED
    BY <2>2, <2>3, LfuDeleteTyped, EvictedGood
<1> QED
  BY <1>1, <1>2

\* LFU keeps use counts and a list of keys.
LEMMA LfuTyped ==
    ASSUME NEW cap \in Nat, NEW s \in LfuStates, NEW k \in Keys
    PROVE  /\ lfuSet(cap, s, k) \in LfuStates
           /\ lfuDelete(s, k) \in LfuStates
           /\ GoodResult(lfuEvict(cap, s), LfuStates)
<1>1. lfuSet(cap, s, k) \in LfuStates
  <2> DEFINE room == IF k \notin Range(s.last) /\ Len(s.last) = cap
                     THEN lfuInternalEvict(s).st ELSE s
  <2>1. room \in LfuStates
    BY LfuInternalEvictTyped DEF GoodResult, Results
  <2>2. lfuSet(cap, s, k) = IF cap = 0 THEN s
                            ELSE [count |-> [room.count EXCEPT ![k] = @ + 1],
                                  last |-> Append(Without(room.last, k), k)]
    BY DEF lfuSet
  <2> HIDE DEF room
  <2>3. room.count \in [Keys -> Nat] /\ room.last \in Seq(Keys)
    BY <2>1 DEF LfuStates
  <2>4. Append(Without(room.last, k), k) \in Seq(Keys)
    BY <2>3, WithoutList
  <2>5. [room.count EXCEPT ![k] = @ + 1] \in [Keys -> Nat]
    BY <2>3
  <2> QED
    BY <2>2, <2>4, <2>5 DEF LfuStates
<1> QED
  BY <1>1, LfuDeleteTyped, LfuInternalEvictTyped, NothingGood DEF lfuEvict

-----------------------------------------------------------------------------
\* The fields of a clock.
LEMMA ClockFields ==
    ASSUME NEW cap \in Nat, NEW s \in ClockStates(cap)
    PROVE  /\ s.slot \in [0..(cap - 1) -> Keys \cup {NoKey}]
           /\ s.count \in [0..(cap - 1) -> Int]
           /\ s.hand \in Int
BY DEF ClockStates

\* The slot the hand reaches first is one of those asked for.
LEMMA FirstOfIn ==
    ASSUME NEW cap \in Nat \ {0}, NEW s \in ClockStates(cap), NEW S \in SUBSET (0..(cap - 1)),
           S # {}
    PROVE  FirstOf(s, S) \in S
<1>1. DOMAIN s.slot = 0..(cap - 1) /\ s.hand \in Int
  BY DEF ClockStates
<1>2. Cardinality(DOMAIN s.slot) = cap
  <2>1. Cardinality(0..(cap - 1)) = cap
    BY FS_Interval
  <2> QED
    BY <1>1, <2>1
<1>3. ASSUME NEW i \in S PROVE Ahead(s, i) \in Nat
  <2>1. i - s.hand \in Int
    BY <1>1
  <2>2. Ahead(s, i) = (i - s.hand) % cap
    BY <1>2 DEF Ahead
  <2> QED
    BY <2>1, <2>2
<1> DEFINE A == {Ahead(s, i) : i \in S}
<1>4. A \in SUBSET Nat /\ A # {}
  BY <1>3
<1>5. PICK a \in A : \A b \in A : a <= b
  BY <1>4, NatMin
<1>6. \E i \in S : \A j \in S : Ahead(s, i) <= Ahead(s, j)
  BY <1>5
<1> QED
  BY <1>6 DEF FirstOf

\* Second chances change counts only.
LEMMA ChancesTyped ==
    ASSUME NEW cap \in Nat, NEW s \in ClockStates(cap)
    PROVE  SecondChances(s) \in [0..(cap - 1) -> Int]
BY DEF SecondChances, ClockStates

LEMMA PutAtTyped ==
    ASSUME NEW cap \in Nat \ {0}, NEW s \in ClockStates(cap), NEW i \in 0..(cap - 1),
           NEW k \in Keys
    PROVE  PutAt(s, i, k) \in ClockStates(cap)
<1>1. DOMAIN s.slot = 0..(cap - 1)
  BY DEF ClockStates
<1>2. Cardinality(DOMAIN s.slot) = cap
  BY <1>1, FS_Interval
<1>3. (i + 1) % Cardinality(DOMAIN s.slot) \in Int
  BY <1>2
<1> DEFINE a == [s.slot EXCEPT ![i] = k]
           b == [s.count EXCEPT ![i] = 1]
           h == (i + 1) % Cardinality(DOMAIN s.slot)
<1>4. a \in [0..(cap - 1) -> Keys \cup {NoKey}] /\ b \in [0..(cap - 1) -> Int]
  BY ClockFields
<1>5. PutAt(s, i, k) = [s EXCEPT !.slot = a, !.count = b, !.hand = h]
  BY DEF PutAt
<1> HIDE DEF a, b
<1> QED
  BY <1>3, <1>4, <1>5 DEF ClockStates

\* A use, and a deletion.
LEMMA ClockUseTyped ==
    ASSUME NEW cap \in Nat, NEW s \in ClockStates(cap), NEW k \in Keys
    PROVE  updateIfExists(s, k) \in ClockStates(cap)
<1> DEFINE b == [i \in DOMAIN s.count |-> IF s.slot[i] = k THEN s.count[i] + 1
                                          ELSE s.count[i]]
<1>1. b \in [0..(cap - 1) -> Int]
  BY ClockFields
<1>2. updateIfExists(s, k) = [s EXCEPT !.count = b]
  BY DEF updateIfExists
<1> HIDE DEF b
<1> QED
  BY <1>1, <1>2 DEF ClockStates

LEMMA ClockDeleteTyped ==
    ASSUME NEW cap \in Nat, NEW s \in ClockStates(cap), NEW k \in Keys
    PROVE  clockDelete(s, k) \in ClockStates(cap)
<1> DEFINE a == [i \in DOMAIN s.slot |-> IF s.slot[i] = k THEN NoKey ELSE s.slot[i]]
           b == [i \in DOMAIN s.count |-> IF s.slot[i] = k THEN 0 ELSE s.count[i]]
<1>1. a \in [0..(cap - 1) -> Keys \cup {NoKey}]
  BY ClockFields
<1>2. b \in [0..(cap - 1) -> Int]
  BY ClockFields
<1>3. clockDelete(s, k) = [s EXCEPT !.slot = a, !.count = b]
  BY DEF clockDelete
<1> HIDE DEF a, b
<1> QED
  BY <1>1, <1>2, <1>3 DEF ClockStates

\* Clock keeps its slots, their counts and the hand.
LEMMA ClockTyped ==
    ASSUME NEW cap \in Nat, NEW s \in ClockStates(cap), NEW k \in Keys
    PROVE  /\ clockSet(cap, s, k) \in ClockStates(cap)
           /\ clockDelete(s, k) \in ClockStates(cap)
           /\ GoodResult(clockEvict(cap, s), ClockStates(cap))
<1>1. CASE cap = 0
  <2>1. clockDelete(s, k) \in ClockStates(cap)
    BY ClockDeleteTyped
  <2> QED
    BY <1>1, <2>1, NothingGood DEF clockSet, clockEvict
<1>2. CASE cap # 0
  <2>1. cap \in Nat \ {0}
    BY <1>2
  <2>2. /\ Victims(s) \in SUBSET (0..(cap - 1))
        /\ Free(s) \in SUBSET (0..(cap - 1))
    BY DEF Victims, Free, ClockStates
  <2> DEFINE passed == [s EXCEPT !.count = SecondChances(s)]
  <2>3. passed \in ClockStates(cap)
    BY ChancesTyped DEF ClockStates
  <2>4. clockDelete(s, k) \in ClockStates(cap)
    BY ClockDeleteTyped
  <2>5. clockSet(cap, s, k) \in ClockStates(cap)
    <3>1. updateIfExists(s, k) \in ClockStates(cap)
      BY ClockUseTyped
    <3>2. Free(s) # {} => tryInsertInFreeSlot(s, k) \in ClockStates(cap)
      BY <2>1, <2>2, FirstOfIn, PutAtTyped DEF tryInsertInFreeSlot
    <3>3. evictAndInsert(s, k) \in ClockStates(cap)
      <4>1. CASE Victims(s) = {}
        BY <2>3, <4>1 DEF evictAndInsert
      <4>2. CASE Victims(s) # {}
        <5>1. FirstOf(s, Victims(s)) \in 0..(cap - 1)
          BY <2>1, <2>2, <4>2, FirstOfIn
        <5>2. evictAndInsert(s, k) = PutAt(passed, FirstOf(s, Victims(s)), k)
          BY <4>2 DEF evictAndInsert
        <5> HIDE DEF passed
        <5> QED
          BY <2>1, <2>3, <5>1, <5>2, PutAtTyped
      <4> QED
        BY <4>1, <4>2
    <3> QED
      BY <3>1, <3>2, <3>3 DEF clockSet
  <2>6. GoodResult(clockEvict(cap, s), ClockStates(cap))
    <3>1. CASE Victims(s) = {}
      BY <1>2, <2>3, <3>1, NothingGood DEF clockEvict
    <3>2. CASE Victims(s) # {}
      <4> DEFINE v == FirstOf(s, Victims(s))
                 after == [slot |-> [s.slot EXCEPT ![v] = NoKey],
                           count |-> SecondChances(s), hand |-> v]
      <4>1. v \in Victims(s) /\ v \in 0..(cap - 1)
        BY <2>1, <2>2, <3>2, FirstOfIn
      <4>2. s.slot[v] \in Keys
        <5> HIDE DEF v
        <5> QED
          BY <4>1 DEF Victims, ClockStates
      <4>3. after \in ClockStates(cap)
        <5> HIDE DEF v
        <5>1. [s.slot EXCEPT ![v] = NoKey] \in [0..(cap - 1) -> Keys \cup {NoKey}]
          BY <4>1 DEF ClockStates
        <5> QED
          BY <4>1, <5>1, ChancesTyped DEF ClockStates
      <4>4. clockEvict(cap, s) = Evicted(s.slot[v], after)
        BY <1>2, <3>2 DEF clockEvict
      <4> HIDE DEF v, after
      <4> QED
        BY <4>2, <4>3, <4>4, EvictedGood
    <3> QED
      BY <3>1, <3>2
  <2> QED
    BY <2>4, <2>5, <2>6
<1> QED
  BY <1>1, <1>2

-----------------------------------------------------------------------------
(***************************************************************************)
(* The algorithm interface.                                                *)
(***************************************************************************)

\* Whatever the algorithm: it starts well formed and stays so, and what it
\* evicts and tracks are keys.
LEMMA AlgTyped ==
    ASSUME NEW name \in Algorithms, NEW cap \in Nat, NEW s \in AlgStates(name, cap),
           NEW k \in Keys
    PROVE  /\ algSet(name, cap, s, k) \in AlgStates(name, cap)
           /\ algDelete(name, s, k) \in AlgStates(name, cap)
<1> USE DEF AlgStates, algSet, algDelete
<1>1. CASE name = "lru"
  BY <1>1, LruTyped
<1>2. CASE name = "cawolfu"
  BY <1>2, CawolfuTyped
<1>3. CASE name = "lfu"
  BY <1>3, LfuTyped
<1>4. CASE name = "clock"
  BY <1>4, ClockTyped
<1> QED
  BY <1>1, <1>2, <1>3, <1>4 DEF Algorithms

LEMMA AlgEvictTyped ==
    ASSUME NEW name \in Algorithms, NEW cap \in Nat, NEW s \in AlgStates(name, cap),
           Keys # {}
    PROVE  GoodResult(algEvict(name, cap, s), AlgStates(name, cap))
<1> USE DEF AlgStates, algEvict
<1>0. PICK k \in Keys : TRUE
  OBVIOUS
<1>1. CASE name = "lru"
  BY <1>1, LruTyped
<1>2. CASE name = "cawolfu"
  BY <1>2, CawolfuTyped
<1>3. CASE name = "lfu"
  BY <1>3, LfuTyped
<1>4. CASE name = "clock"
  BY <1>4, ClockTyped
<1> QED
  BY <1>1, <1>2, <1>3, <1>4 DEF Algorithms

LEMMA AlgTrackedTyped ==
    ASSUME NEW name \in Algorithms, NEW cap \in Nat, NEW s \in AlgStates(name, cap)
    PROVE  algTracked(name, s) \subseteq Keys
<1> USE DEF AlgStates, algTracked, Range
<1>1. CASE name \in {"lru", "cawolfu"}
  BY <1>1 DEF Lists
<1>2. CASE name = "lfu"
  BY <1>2 DEF LfuStates
<1>3. CASE name = "clock"
  BY <1>3, ClockFields
<1> QED
  BY <1>1, <1>2, <1>3 DEF Algorithms

LEMMA NewAlgorithmTyped ==
    ASSUME NEW name \in Algorithms, NEW cap \in Nat
    PROVE  NewAlgorithm(name, cap) \in AlgStates(name, cap)
<1> USE DEF AlgStates, NewAlgorithm
<1>1. CASE name \in {"lru", "cawolfu"}
  BY <1>1 DEF Lists, NewLRUAlgorithm, NewCAWOLFU
<1>2. CASE name = "lfu"
  BY <1>2 DEF LfuStates, NewLFUAlgorithm
<1>3. CASE name = "clock"
  BY <1>3 DEF ClockStates, NewClockAlgorithm
<1> QED
  BY <1>1, <1>2, <1>3 DEF Algorithms

-----------------------------------------------------------------------------
(***************************************************************************)
(* The Sharded wrapper.                                                    *)
(***************************************************************************)
ShardedStates(name, cap, n) ==
    [name : {name}, cap : {cap}, cursor : Nat, shards : [0..(n - 1) -> AlgStates(name, cap)]]

Sharded(e) == \E name \in Algorithms, cap \in Nat, n \in Nat \ {0} :
                e \in ShardedStates(name, cap, n)

\* The shard of a key is one of the shards.
LEMMA ShardForIn ==
    ASSUME NEW name, NEW cap, NEW n \in Nat \ {0},
           NEW e \in ShardedStates(name, cap, n), NEW k \in Keys
    PROVE  /\ e.name = name /\ e.cap = cap /\ e.cursor \in Nat
           /\ e.shards \in [0..(n - 1) -> AlgStates(name, cap)]
           /\ DOMAIN e.shards = 0..(n - 1)
           /\ Cardinality(DOMAIN e.shards) = n
           /\ shardFor(e, k) \in 0..(n - 1)
<1>1. /\ e.name = name /\ e.cap = cap /\ e.cursor \in Nat
      /\ e.shards \in [0..(n - 1) -> AlgStates(name, cap)]
      /\ DOMAIN e.shards = 0..(n - 1)
  BY DEF ShardedStates
<1>2. Cardinality(0..(n - 1)) = n
  BY FS_Interval
<1>3. ShardOf[k] \in Nat
  BY EvictionAssumption
<1>4. shardFor(e, k) = ShardOf[k] % n
  BY <1>1, <1>2 DEF shardFor
<1> QED
  BY <1>1, <1>2, <1>3, <1>4

\* Set and Delete act on one shard.
LEMMA ShardedTyped ==
    ASSUME NEW e, Sharded(e), NEW k \in Keys
    PROVE  Sharded(shardedSet(e, k)) /\ Sharded(shardedDelete(e, k))
<1>1. PICK name \in Algorithms, cap \in Nat, n \in Nat \ {0} :
        e \in ShardedStates(name, cap, n)
  BY DEF Sharded
<1> DEFINE i == shardFor(e, k)
<1>2. /\ e.name = name /\ e.cap = cap /\ i \in 0..(n - 1)
      /\ e.shards \in [0..(n - 1) -> AlgStates(name, cap)]
  BY <1>1, ShardForIn
<1>3. ASSUME NEW a \in AlgStates(name, cap)
      PROVE  [e EXCEPT !.shards[i] = a] \in ShardedStates(name, cap, n)
  <2> HIDE DEF i
  <2>1. [e.shards EXCEPT ![i] = a] \in [0..(n - 1) -> AlgStates(name, cap)]
    BY <1>2, <1>3
  <2> QED
    BY <1>1, <2>1 DEF ShardedStates
<1>4. e.shards[i] \in AlgStates(name, cap)
  <2> HIDE DEF i
  <2> QED
    BY <1>2
<1>5. /\ algSet(e.name, e.cap, e.shards[i], k) \in AlgStates(name, cap)
      /\ algDelete(e.name, e.shards[i], k) \in AlgStates(name, cap)
  BY <1>2, <1>4, AlgTyped
<1>6. shardedSet(e, k) \in ShardedStates(name, cap, n)
  BY <1>3, <1>5 DEF shardedSet
<1>7. shardedDelete(e, k) \in ShardedStates(name, cap, n)
  BY <1>3, <1>5 DEF shardedDelete
<1> QED
  BY <1>6, <1>7 DEF Sharded

\* Evict may act on several shards; the key it takes is a key of the cache.
LEMMA ShardedEvictTyped ==
    ASSUME NEW e, Sharded(e), Keys # {}
    PROVE  /\ Sharded(shardedEvict(e).st)
           /\ shardedEvict(e).ok \in BOOLEAN
           /\ shardedEvict(e).ok => shardedEvict(e).key \in Keys
<1>1. PICK name \in Algorithms, cap \in Nat, n \in Nat \ {0} :
        e \in ShardedStates(name, cap, n)
  BY DEF Sharded
<1>2. /\ e.name = name /\ e.cap = cap /\ e.cursor \in Nat
      /\ e.shards \in [0..(n - 1) -> AlgStates(name, cap)]
      /\ Cardinality(DOMAIN e.shards) = n /\ DOMAIN e.shards = 0..(n - 1)
  BY <1>1, ShardForIn
<1> DEFINE m == Cardinality(DOMAIN e.shards)
           idx(i) == (e.cursor + i) % m
           try(i) == algEvict(e.name, e.cap, e.shards[idx(i)])
           hits == {i \in 0..(m - 1) : try(i).ok}
           stop == IF hits = {} THEN m - 1 ELSE Min(hits)
           shards == [x \in DOMAIN e.shards |->
                        IF \E i \in 0..stop : idx(i) = x
                        THEN algEvict(e.name, e.cap, e.shards[x]).st ELSE e.shards[x]]
           after == [e EXCEPT !.cursor = (@ + 1) % m, !.shards = shards]
<1>3. shardedEvict(e) = IF hits = {} THEN NothingEvicted(after)
                        ELSE Evicted(try(stop).key, after)
  BY DEF shardedEvict
<1>4. ASSUME NEW x \in 0..(n - 1)
      PROVE  GoodResult(algEvict(e.name, e.cap, e.shards[x]), AlgStates(name, cap))
  <2>1. e.shards[x] \in AlgStates(name, cap)
    BY <1>2
  <2> QED
    BY <1>2, <2>1, AlgEvictTyped
<1>5. shards \in [0..(n - 1) -> AlgStates(name, cap)]
  <2> DEFINE visited(x) == \E i \in 0..stop : idx(i) = x
  <2>1. \A x \in 0..(n - 1) : e.shards[x] \in AlgStates(name, cap)
    BY <1>2
  <2>2. \A x \in 0..(n - 1) :
          algEvict(e.name, e.cap, e.shards[x]).st \in AlgStates(name, cap)
    BY <1>4 DEF GoodResult, Results
  <2>3. shards = [x \in 0..(n - 1) |->
                    IF visited(x) THEN algEvict(e.name, e.cap, e.shards[x]).st
                    ELSE e.shards[x]]
    BY <1>2
  <2> HIDE DEF visited, shards
  <2> QED
    BY <2>1, <2>2, <2>3
<1>6. after \in ShardedStates(name, cap, n)
  <2>1. (e.cursor + 1) % m \in Nat
    BY <1>2
  <2> HIDE DEF shards
  <2> QED
    BY <1>1, <1>5, <2>1 DEF ShardedStates
<1>7. Sharded(after)
  BY <1>6 DEF Sharded
<1>8. ASSUME hits # {} PROVE try(stop).key \in Keys
  <2>1. hits \in SUBSET Nat
    BY <1>2
  <2>2. Min(hits) \in hits
    <3> HIDE DEF hits
    <3> QED
      BY <1>8, <2>1, NatMin DEF Min
  <2>3. stop \in hits
    BY <1>8, <2>2
  <2> HIDE DEF stop
  <2>4. stop \in 0..(n - 1) /\ try(stop).ok
    BY <1>2, <2>3
  <2>5. idx(stop) \in 0..(n - 1)
    BY <1>2, <2>4
  <2> HIDE DEF idx
  <2> QED
    BY <1>4, <2>4, <2>5 DEF GoodResult
<1> HIDE DEF after, hits, try, stop
<1> QED
  BY <1>3, <1>7, <1>8 DEF Evicted, NothingEvicted

LEMMA NewShardedTyped ==
    ASSUME NEW name \in Algorithms, NEW total \in Nat, NEW n \in Nat \ {0}
    PROVE  Sharded(NewSharded(name, total, n))
<1> DEFINE cap == perShard(total, n)
<1>1. cap \in Nat
  BY DEF perShard
<1>2. NewAlgorithm(name, cap) \in AlgStates(name, cap)
  BY <1>1, NewAlgorithmTyped
<1>3. NewSharded(name, total, n)
        = [name |-> name, cap |-> cap, cursor |-> 0,
           shards |-> [i \in 0..(n - 1) |-> NewAlgorithm(name, cap)]]
  BY DEF NewSharded
<1> HIDE DEF cap
<1>4. NewSharded(name, total, n) \in ShardedStates(name, cap, n)
  BY <1>2, <1>3 DEF ShardedStates
<1> QED
  BY <1>1, <1>4 DEF Sharded

\* What is tracked are keys of the cache.
LEMMA TrackedKeys ==
    ASSUME NEW e, Sharded(e)
    PROVE  Tracked(e) \subseteq Keys
<1>1. PICK name \in Algorithms, cap \in Nat, n \in Nat \ {0} :
        e \in ShardedStates(name, cap, n)
  BY DEF Sharded
<1>2. \A i \in DOMAIN e.shards : e.shards[i] \in AlgStates(name, cap) /\ e.name = name
  BY <1>1 DEF ShardedStates
<1>3. \A i \in DOMAIN e.shards : algTracked(e.name, e.shards[i]) \subseteq Keys
  BY <1>2, AlgTrackedTyped
<1> QED
  BY <1>3 DEF Tracked

-----------------------------------------------------------------------------
(***************************************************************************)
(* The order of the lists that LRU and CAWOLFU keep.  W is the order in    *)
(* which keys were last set, oldest first; a list has the newest in front. *)
(***************************************************************************)
Precedes(W, a, b) == \E i, j \in DOMAIN W : i < j /\ W[i] = a /\ W[j] = b

InOrder(W, s) ==
    /\ \A i \in 1..Len(s) : s[i] \in Range(W)
    /\ \A i, j \in 1..Len(s) : i < j => s[i] # s[j] /\ Precedes(W, s[j], s[i])

ByAge == {"lru", "cawolfu"}

\* The keys that belong to shard i of n.
OfShard(n, i) == {k \in Keys : ShardOf[k] % n = i}

\* The list of shard i of n: in order, and of keys that belong to the shard.
ListOK(W, cap, n, i, s) ==
    /\ s \in Seq(Keys) /\ InOrder(W, s)
    /\ cap = 0 => s = <<>>
    /\ \A j \in 1..Len(s) : s[j] \in OfShard(n, i)

\* r is s without the key at i, which is k.
CutAt(s, k, r, i) ==
    /\ s[i] = k /\ Len(r) = Len(s) - 1
    /\ \A j \in 1..Len(r) : r[j] = IF j < i THEN s[j] ELSE s[j + 1]

\* What is left of a list without one of its keys.
LEMMA WithoutShape ==
    ASSUME NEW s \in Seq(Keys), NEW k, NEW r, r = Without(s, k)
    PROVE  \/ r = s /\ \A j \in 1..Len(s) : s[j] # k
           \/ \E i \in 1..Len(s) : CutAt(s, k, r, i)
<1>1. CASE \E i \in 1..Len(s) : s[i] = k
  <2> DEFINE I == {i \in 1..Len(s) : s[i] = k}
  <2>1. I \in SUBSET Nat /\ I # {}
    BY <1>1
  <2>2. Min(I) \in I
    BY <2>1, NatMin DEF Min
  <2>3. Without(s, k) = RemoveAt(s, Min(I))
    BY <1>1, <2>1 DEF Without, RemoveFirst, SelectInSeq
  <2>4. PICK i \in 1..Len(s) : i = Min(I) /\ s[i] = k
    BY <2>2
  <2> HIDE DEF I
  <2>5. r = SubSeq(s, 1, i - 1) \o SubSeq(s, i + 1, Len(s))
    BY <2>3, <2>4 DEF RemoveAt
  <2>6. Len(r) = Len(s) - 1 /\ \A j \in 1..Len(r) : r[j] = IF j < i THEN s[j] ELSE s[j + 1]
    <3> DEFINE p == SubSeq(s, 1, i - 1)
               q == SubSeq(s, i + 1, Len(s))
    <3>1. p \in Seq(Keys) /\ Len(p) = i - 1 /\ \A j \in 1..(i - 1) : p[j] = s[j]
      OBVIOUS
    <3>2. q \in Seq(Keys) /\ Len(q) = Len(s) - i /\ \A j \in 1..(Len(s) - i) : q[j] = s[j + i]
      OBVIOUS
    <3>3. r = p \o q
      BY <2>5
    <3> HIDE DEF p, q
    <3>4. Len(r) = Len(s) - 1
      <4>1. Len(p \o q) = Len(p) + Len(q)
        BY <3>1, <3>2, ConcatProperties
      <4> QED
        BY <3>1, <3>2, <3>3, <4>1
    <3>5. ASSUME NEW j \in 1..Len(r) PROVE r[j] = IF j < i THEN s[j] ELSE s[j + 1]
      <4>1. r[j] = IF j <= Len(p) THEN p[j] ELSE q[j - Len(p)]
        BY <3>1, <3>2, <3>3
      <4>2. CASE j < i
        BY <3>1, <4>1, <4>2
      <4>3. CASE ~(j < i)
        <5>1. j - Len(p) \in 1..(Len(s) - i) /\ (j - Len(p)) + i = j + 1 /\ ~(j <= Len(p))
          BY <3>1, <3>4, <4>3
        <5> QED
          BY <3>2, <4>1, <4>3, <5>1
      <4> QED
        BY <4>2, <4>3
    <3> QED
      BY <3>4, <3>5
  <2> QED
    BY <2>4, <2>6 DEF CutAt
<1>2. CASE ~ \E i \in 1..Len(s) : s[i] = k
  BY <1>2 DEF Without, RemoveFirst
<1> QED
  BY <1>1, <1>2

\* A list in order stays so without one of its keys.
LEMMA WithoutInOrder ==
    ASSUME NEW W, NEW s \in Seq(Keys), InOrder(W, s), NEW k
    PROVE  InOrder(W, Without(s, k)) /\ \A j \in 1..Len(Without(s, k)) : Without(s, k)[j] # k
<1>1. PICK r \in Seq(Keys) : r = Without(s, k)
  BY WithoutList
<1>2. CASE r = s /\ \A j \in 1..Len(s) : s[j] # k
  BY <1>1, <1>2
<1>3. ASSUME NEW i \in 1..Len(s), s[i] = k, Len(r) = Len(s) - 1,
             \A j \in 1..Len(r) : r[j] = IF j < i THEN s[j] ELSE s[j + 1]
      PROVE  InOrder(W, r) /\ \A j \in 1..Len(r) : r[j] # k
  <2>1. ASSUME NEW j \in 1..Len(r) PROVE r[j] \in Range(W) /\ r[j] # k
    <3>1. CASE j < i
      BY <1>3, <2>1, <3>1 DEF InOrder
    <3>2. CASE ~(j < i)
      <4>1. j + 1 \in 1..Len(s) /\ i < j + 1 /\ r[j] = s[j + 1]
        BY <1>3, <3>2
      <4> QED
        BY <1>3, <4>1 DEF InOrder
    <3> QED
      BY <3>1, <3>2
  <2>2. ASSUME NEW a \in 1..Len(r), NEW b \in 1..Len(r), a < b
        PROVE  r[a] # r[b] /\ Precedes(W, r[b], r[a])
    <3>1. PICK x \in 1..Len(s), y \in 1..Len(s) : x < y /\ r[a] = s[x] /\ r[b] = s[y]
      <4>1. CASE b < i
        <5>1. a \in 1..Len(s) /\ b \in 1..Len(s) /\ a < i
          BY <1>3, <2>2, <4>1
        <5> QED
          BY <1>3, <2>2, <4>1, <5>1
      <4>2. CASE a < i /\ ~(b < i)
        <5>1. b + 1 \in 1..Len(s) /\ a \in 1..Len(s) /\ a < b + 1
          BY <1>3, <2>2
        <5> QED
          BY <1>3, <4>2, <5>1
      <4>3. CASE ~(a < i)
        <5>1. b + 1 \in 1..Len(s) /\ a + 1 \in 1..Len(s) /\ a + 1 < b + 1 /\ ~(b < i)
          BY <1>3, <2>2, <4>3
        <5> QED
          BY <1>3, <4>3, <5>1
      <4> QED
        BY <4>1, <4>2, <4>3
    <3> QED
      BY <3>1 DEF InOrder
  <2> QED
    BY <2>1, <2>2 DEF InOrder
<1>4. ASSUME NEW i \in 1..Len(s), CutAt(s, k, r, i)
      PROVE  InOrder(W, r) /\ \A j \in 1..Len(r) : r[j] # k
  BY <1>3, <1>4 DEF CutAt
<1> QED
  BY <1>1, <1>2, <1>4, WithoutShape

\* And without its last one.
LEMMA FrontShape ==
    ASSUME NEW s \in Seq(Keys), s # <<>>
    PROVE  /\ Front(s) \in Seq(Keys) /\ Len(Front(s)) = Len(s) - 1
           /\ \A j \in 1..Len(Front(s)) : j \in 1..Len(s) /\ Front(s)[j] = s[j]
<1>1. PICK m \in Nat : m = Len(s) - 1
  OBVIOUS
<1>2. \A j \in 1..m : j \in 1..Len(s) /\ s[j] \in Keys
  BY <1>1
<1>3. /\ SubSeq(s, 1, m) \in Seq(Keys) /\ Len(SubSeq(s, 1, m)) = m
      /\ \A j \in 1..m : SubSeq(s, 1, m)[j] = s[j]
  BY <1>1
<1>4. Front(s) = SubSeq(s, 1, m)
  BY <1>1 DEF Front
<1> QED
  BY <1>1, <1>2, <1>3, <1>4

\* The list Evict leaves is in order as well.
LEMMA FrontInOrder ==
    ASSUME NEW W, NEW s \in Seq(Keys), s # <<>>, InOrder(W, s)
    PROVE  InOrder(W, Front(s))
<1>1. PICK r \in Seq(Keys) : r = Front(s)
  BY FrontShape
<1>2. Len(r) = Len(s) - 1 /\ \A j \in 1..Len(r) : j \in 1..Len(s) /\ r[j] = s[j]
  BY <1>1, FrontShape
<1>3. InOrder(W, r)
  BY <1>2 DEF InOrder
<1> QED
  BY <1>1, <1>3

\* k is set: it becomes the newest, and the others keep their order.
Newest(W, k) == Append(Without(W, k), k)

\* The keys set before k come before it now, and keep their own order.
LEMMA NewestOrder ==
    ASSUME NEW W \in Seq(Keys), NEW k \in Keys
    PROVE  /\ Newest(W, k) \in Seq(Keys)
           /\ k \in Range(Newest(W, k))
           /\ \A a \in Range(W) \ {k} :
                a \in Range(Newest(W, k)) /\ Precedes(Newest(W, k), a, k)
           /\ \A a, b : a # k /\ b # k /\ Precedes(W, a, b) => Precedes(Newest(W, k), a, b)
<1>1. PICK r \in Seq(Keys) : r = Without(W, k)
  BY WithoutList
<1>2. PICK V \in Seq(Keys) : V = Append(r, k)
  <2>1. Append(r, k) \in Seq(Keys)
    OBVIOUS
  <2> QED
    BY <2>1, Zenon
<1>3. /\ Len(V) = Len(r) + 1 /\ V[Len(V)] = k /\ DOMAIN V = 1..Len(V) /\ DOMAIN W = 1..Len(W)
      /\ \A j \in 1..Len(r) : j \in 1..Len(V) /\ V[j] = r[j] /\ j < Len(V)
      /\ Len(V) \in 1..Len(V)
  BY <1>2
<1>4. PICK at \in 1..(Len(W) + 1) :
        /\ \A x \in 1..Len(W) : W[x] # k => x # at
        /\ Len(r) = IF at = Len(W) + 1 THEN Len(W) ELSE Len(W) - 1
        /\ \A j \in 1..Len(r) : r[j] = IF j < at THEN W[j] ELSE W[j + 1]
  <2>1. CASE r = W
    <3>1. Len(W) + 1 \in 1..(Len(W) + 1) /\ \A x \in 1..Len(W) : x # Len(W) + 1 /\ x < Len(W) + 1
      OBVIOUS
    <3> QED
      BY <2>1, <3>1
  <2>2. CASE r # W
    <3>1. PICK i \in 1..Len(W) : CutAt(W, k, r, i)
      BY <1>1, <2>2, WithoutShape
    <3>2. i \in 1..(Len(W) + 1) /\ i # Len(W) + 1
      OBVIOUS
    <3> QED
      BY <3>1, <3>2 DEF CutAt
  <2> QED
    BY <2>1, <2>2
<1>5. ASSUME NEW x \in 1..Len(W), W[x] # k
      PROVE  LET y == IF x < at THEN x ELSE x - 1 IN y \in 1..Len(r) /\ V[y] = W[x]
  <2>1. x # at
    BY <1>4, <1>5
  <2>2. CASE x < at
    <3>1. x \in 1..Len(r)
      BY <1>4, <2>2
    <3> QED
      BY <1>3, <1>4, <2>2, <3>1
  <2>3. CASE ~(x < at)
    <3>1. x - 1 \in 1..Len(r) /\ ~(x - 1 < at) /\ (x - 1) + 1 = x
      BY <1>4, <2>1, <2>3
    <3> QED
      BY <1>3, <1>4, <2>3, <3>1
  <2> QED
    BY <2>2, <2>3
<1>6. ASSUME NEW x \in 1..Len(W), NEW y \in 1..Len(W), W[x] # k, W[y] # k, x < y
      PROVE  (IF x < at THEN x ELSE x - 1) < (IF y < at THEN y ELSE y - 1)
  BY <1>4, <1>6
<1>7. ASSUME NEW a \in Range(W) \ {k}
      PROVE  a \in Range(V) /\ Precedes(V, a, k)
  <2>1. PICK x \in 1..Len(W) : W[x] = a
    BY <1>3 DEF Range
  <2>2. PICK y \in 1..Len(r) : V[y] = a
    BY <1>5, <2>1
  <2> QED
    BY <1>3, <2>2 DEF Range, Precedes
<1>8. ASSUME NEW a, NEW b, a # k, b # k, Precedes(W, a, b)
      PROVE  Precedes(V, a, b)
  <2>1. PICK x \in 1..Len(W), y \in 1..Len(W) : x < y /\ W[x] = a /\ W[y] = b
    BY <1>3, <1>8 DEF Precedes
  <2> DEFINE f == IF x < at THEN x ELSE x - 1
             g == IF y < at THEN y ELSE y - 1
  <2>2. f \in 1..Len(r) /\ V[f] = a
    BY <1>5, <1>8, <2>1
  <2>3. g \in 1..Len(r) /\ V[g] = b
    BY <1>5, <1>8, <2>1
  <2>4. f < g
    BY <1>6, <1>8, <2>1
  <2> HIDE DEF f, g
  <2> QED
    BY <1>3, <2>2, <2>3, <2>4 DEF Precedes
<1>9. k \in Range(V)
  BY <1>3 DEF Range
<1>10. V = Newest(W, k)
  BY <1>1, <1>2 DEF Newest
<1> QED
  BY <1>7, <1>8, <1>9, <1>10

\* k in front of a list that does not have it.
LEMMA InFront ==
    ASSUME NEW W, NEW t \in Seq(Keys), InOrder(W, t), NEW k \in Range(W), k \in Keys,
           \A j \in 1..Len(t) : t[j] # k /\ Precedes(W, t[j], k)
    PROVE  InOrder(W, <<k>> \o t)
<1>1. PICK r \in Seq(Keys) : r = <<k>> \o t
  <2>1. <<k>> \in Seq(Keys)
    OBVIOUS
  <2>2. <<k>> \o t \in Seq(Keys)
    BY <2>1
  <2> QED
    BY <2>2, Zenon
<1>2. /\ Len(r) = Len(t) + 1 /\ r[1] = k
      /\ \A j \in 2..Len(r) : j - 1 \in 1..Len(t) /\ r[j] = t[j - 1]
  BY <1>1
<1>3. ASSUME NEW j \in 1..Len(r) PROVE r[j] \in Range(W)
  <2>1. CASE j = 1
    BY <1>2, <2>1
  <2>2. CASE j # 1
    BY <1>2, <2>2 DEF InOrder
  <2> QED
    BY <2>1, <2>2
<1>4. ASSUME NEW a \in 1..Len(r), NEW b \in 1..Len(r), a < b
      PROVE  r[a] # r[b] /\ Precedes(W, r[b], r[a])
  <2>1. b \in 2..Len(r) /\ b - 1 \in 1..Len(t) /\ r[b] = t[b - 1]
    BY <1>2, <1>4
  <2>2. CASE a = 1
    BY <1>2, <2>1, <2>2
  <2>3. CASE a # 1
    <3>1. a - 1 \in 1..Len(t) /\ r[a] = t[a - 1] /\ a - 1 < b - 1
      BY <1>2, <1>4, <2>3
    <3> QED
      BY <2>1, <3>1 DEF InOrder
  <2> QED
    BY <2>2, <2>3
<1>5. InOrder(W, r)
  BY <1>3, <1>4 DEF InOrder
<1> QED
  BY <1>1, <1>5

\* A list without k keeps its order when k is set.
LEMMA OtherInOrder ==
    ASSUME NEW W \in Seq(Keys), NEW s \in Seq(Keys), InOrder(W, s), NEW k \in Keys,
           \A j \in 1..Len(s) : s[j] # k
    PROVE  /\ InOrder(Newest(W, k), s)
           /\ \A j \in 1..Len(s) : s[j] # k /\ Precedes(Newest(W, k), s[j], k)
<1>1. \A j \in 1..Len(s) : s[j] \in Range(W) \ {k}
  BY DEF InOrder
<1> QED
  BY <1>1, NewestOrder DEF InOrder

\* A list that k is put in front of is in order once k is the newest.
LEMMA SetInOrder ==
    ASSUME NEW W \in Seq(Keys), NEW s \in Seq(Keys), InOrder(W, s), NEW k \in Keys,
           \A j \in 1..Len(s) : s[j] # k
    PROVE  InOrder(Newest(W, k), <<k>> \o s)
BY OtherInOrder, InFront, NewestOrder

\* s without its keys but those of t.
Part(t, s) == \A j \in 1..Len(t) : \E x \in 1..Len(s) : t[j] = s[x]

\* Delete keeps nothing but keys of the list.
LEMMA WithoutPart ==
    ASSUME NEW s \in Seq(Keys), NEW k
    PROVE  Part(Without(s, k), s)
<1>1. PICK r \in Seq(Keys) : r = Without(s, k)
  BY WithoutList
<1>2. CASE r = s
  BY <1>1, <1>2 DEF Part
<1>3. CASE r # s
  <2>1. PICK i \in 1..Len(s) : CutAt(s, k, r, i)
    BY <1>1, <1>3, WithoutShape
  <2>2. ASSUME NEW j \in 1..Len(r) PROVE \E x \in 1..Len(s) : r[j] = s[x]
    <3>1. j \in 1..Len(s) /\ j + 1 \in 1..Len(s)
      BY <2>1 DEF CutAt
    <3> QED
      BY <2>1, <3>1 DEF CutAt
  <2> QED
    BY <1>1, <2>2 DEF Part
<1> QED
  BY <1>2, <1>3

\* r is k, followed by some of the other keys of s in their order.
LedBy(W, s, k, r) == \E t \in Seq(Keys) :
                       /\ r = <<k>> \o t
                       /\ InOrder(W, t) /\ Part(t, s) /\ \A j \in 1..Len(t) : t[j] # k

\* Set, for both algorithms that keep such a list.
LEMMA AlgSetShape ==
    ASSUME NEW W, NEW s \in Seq(Keys), InOrder(W, s), NEW k \in Keys,
           NEW cap \in Nat \ {0}, NEW name \in ByAge
    PROVE  LedBy(W, s, k, algSet(name, cap, s, k))
<1>1. CASE k \notin Range(s)
  <2> DEFINE rest == IF Len(s) = cap THEN Front(s) ELSE s
  <2>1. \A j \in 1..Len(s) : s[j] # k
    BY <1>1 DEF Range
  <2>2. /\ rest \in Seq(Keys) /\ InOrder(W, rest) /\ Part(rest, s)
        /\ \A j \in 1..Len(rest) : rest[j] # k
    <3>1. CASE Len(s) = cap
      <4>1. s # <<>> /\ rest = Front(s)
        BY <3>1
      <4> HIDE DEF rest
      <4> QED
        BY <2>1, <4>1, FrontShape, FrontInOrder DEF Part
    <3>2. CASE Len(s) # cap
      BY <2>1, <3>2 DEF Part
    <3> QED
      BY <3>1, <3>2
  <2>3. algSet(name, cap, s, k) = <<k>> \o rest
    BY <1>1 DEF algSet, lruSet, cawolfuSet, ByAge
  <2> HIDE DEF rest
  <2> QED
    BY <2>2, <2>3 DEF LedBy
<1>2. CASE k \in Range(s) /\ algSet(name, cap, s, k) = <<k>> \o Without(s, k)
  BY <1>2, WithoutList, WithoutInOrder, WithoutPart DEF LedBy
<1>3. CASE k \in Range(s) /\ Head(s) = k /\ algSet(name, cap, s, k) = s
  <2>1. s # <<>>
    BY <1>3 DEF Range
  <2>2. PICK t \in Seq(Keys) : t = Tail(s)
    <3>1. Tail(s) \in Seq(Keys)
      BY <2>1
    <3> QED
      BY <3>1, Zenon
  <2>3. /\ s = <<k>> \o t /\ Len(t) = Len(s) - 1 /\ s[1] = k
        /\ \A j \in 1..Len(t) : j + 1 \in 1..Len(s) /\ t[j] = s[j + 1]
    BY <1>3, <2>1, <2>2
  <2>4. InOrder(W, t)
    <3>1. ASSUME NEW a \in 1..Len(t), NEW b \in 1..Len(t), a < b
          PROVE  t[a] # t[b] /\ Precedes(W, t[b], t[a])
      <4>1. PICK x \in 1..Len(s), y \in 1..Len(s) : x < y /\ t[a] = s[x] /\ t[b] = s[y]
        <5>1. a + 1 < b + 1
          BY <3>1
        <5> QED
          BY <2>3, <5>1
      <4> QED
        BY <4>1 DEF InOrder
    <3> QED
      BY <2>3, <3>1 DEF InOrder
  <2>5. \A j \in 1..Len(t) : t[j] # k
    <3>1. \A j \in 1..Len(t) : 1 < j + 1 /\ 1 \in 1..Len(s)
      BY <2>1
    <3> QED
      BY <2>3, <3>1 DEF InOrder
  <2>6. Part(t, s)
    BY <2>3 DEF Part
  <2>7. algSet(name, cap, s, k) = <<k>> \o t
    BY <1>3, <2>3
  <2> QED
    BY <2>4, <2>5, <2>6, <2>7 DEF LedBy
<1>4. ASSUME k \in Range(s)
      PROVE  (algSet(name, cap, s, k) = <<k>> \o Without(s, k))
               \/ (Head(s) = k /\ algSet(name, cap, s, k) = s)
  <2>1. CASE name = "lru"
    BY <1>4, <2>1 DEF algSet, lruSet, lruMoveToFront
  <2>2. CASE name = "cawolfu"
    BY <1>4, <2>2 DEF algSet, cawolfuSet, cawolfuMoveToFront
  <2> QED
    BY <2>1, <2>2 DEF ByAge
<1> QED
  BY <1>1, <1>2, <1>3, <1>4

\* What a list keeps of its keys belongs to the same shard.
LEMMA PartOfShard ==
    ASSUME NEW n, NEW i, NEW s, NEW t, Part(t, s), \A j \in 1..Len(s) : s[j] \in OfShard(n, i)
    PROVE  \A j \in 1..Len(t) : t[j] \in OfShard(n, i)
BY DEF Part

\* The list of the shard that k belongs to, and that of another, after k is set.
LEMMA SetListOK ==
    ASSUME NEW W \in Seq(Keys), NEW cap \in Nat, NEW n, NEW i, NEW s,
           ListOK(W, cap, n, i, s), NEW k \in Keys, NEW name \in ByAge
    PROVE  /\ k \in OfShard(n, i) => ListOK(Newest(W, k), cap, n, i, algSet(name, cap, s, k))
           /\ k \notin OfShard(n, i) => ListOK(Newest(W, k), cap, n, i, s)
<1>0. s \in Seq(Keys) /\ InOrder(W, s) /\ \A j \in 1..Len(s) : s[j] \in OfShard(n, i)
  BY DEF ListOK
<1>1. CASE k \in OfShard(n, i) /\ cap = 0
  <2>1. s = <<>> /\ algSet(name, cap, s, k) = s
    BY <1>1 DEF ListOK, algSet, lruSet, cawolfuSet, ByAge
  <2>2. InOrder(Newest(W, k), s)
    BY <2>1 DEF InOrder
  <2> QED
    BY <1>1, <2>1, <2>2 DEF ListOK
<1>2. CASE k \in OfShard(n, i) /\ cap # 0
  <2>1. PICK t \in Seq(Keys) :
          /\ algSet(name, cap, s, k) = <<k>> \o t
          /\ InOrder(W, t) /\ Part(t, s) /\ \A j \in 1..Len(t) : t[j] # k
    <3>1. cap \in Nat \ {0}
      BY <1>2
    <3>2. LedBy(W, s, k, algSet(name, cap, s, k))
      BY <1>0, <3>1, AlgSetShape
    <3> QED
      BY <3>2 DEF LedBy
  <2>2. PICK r \in Seq(Keys) : r = <<k>> \o t
    <3>1. <<k>> \in Seq(Keys)
      OBVIOUS
    <3>2. <<k>> \o t \in Seq(Keys)
      BY <3>1
    <3> QED
      BY <3>2, Zenon
  <2>3. /\ Len(r) = Len(t) + 1 /\ r[1] = k
        /\ \A j \in 2..Len(r) : j - 1 \in 1..Len(t) /\ r[j] = t[j - 1]
    BY <2>2
  <2>4. InOrder(Newest(W, k), r)
    BY <2>1, <2>2, SetInOrder
  <2>5. \A j \in 1..Len(t) : t[j] \in OfShard(n, i)
    BY <1>0, <2>1, PartOfShard
  <2>6. ASSUME NEW j \in 1..Len(r) PROVE r[j] \in OfShard(n, i)
    <3>1. CASE j = 1
      BY <1>2, <2>3, <3>1
    <3>2. CASE j # 1
      BY <2>3, <2>5, <3>2
    <3> QED
      BY <3>1, <3>2
  <2>7. ListOK(Newest(W, k), cap, n, i, r)
    BY <1>2, <2>4, <2>6 DEF ListOK
  <2> QED
    BY <1>2, <2>1, <2>2, <2>7
<1>3. CASE k \notin OfShard(n, i)
  <2>1. \A j \in 1..Len(s) : s[j] # k
    BY <1>0, <1>3
  <2>2. InOrder(Newest(W, k), s)
    BY <1>0, <2>1, OtherInOrder
  <2> QED
    BY <1>3, <2>2 DEF ListOK
<1> QED
  BY <1>1, <1>2, <1>3

\* Delete takes a key out of a shard's list and leaves the order.
LEMMA DeleteListOK ==
    ASSUME NEW W, NEW cap, NEW n, NEW i, NEW s,
           ListOK(W, cap, n, i, s), NEW k \in Keys, NEW name \in ByAge
    PROVE  ListOK(W, cap, n, i, algDelete(name, s, k))
<1>0. s \in Seq(Keys) /\ InOrder(W, s) /\ \A j \in 1..Len(s) : s[j] \in OfShard(n, i)
  BY DEF ListOK
<1>1. algDelete(name, s, k) = Without(s, k) \/ algDelete(name, s, k) = s
  BY DEF algDelete, lruDelete, cawolfuDelete, ByAge
<1>2. ListOK(W, cap, n, i, Without(s, k))
  <2>1. Without(s, k) \in Seq(Keys) /\ InOrder(W, Without(s, k)) /\ Part(Without(s, k), s)
    BY <1>0, WithoutList, WithoutInOrder, WithoutPart
  <2>2. \A j \in 1..Len(Without(s, k)) : Without(s, k)[j] \in OfShard(n, i)
    BY <1>0, <2>1, PartOfShard
  <2>3. s = <<>> => Without(s, k) = s
    BY DEF Without, RemoveFirst
  <2> QED
    BY <2>1, <2>2, <2>3 DEF ListOK
<1> QED
  BY <1>1, <1>2

\* Evict takes the last key of a list that has one.
LEMMA EvictListOK ==
    ASSUME NEW W, NEW cap, NEW n, NEW i, NEW s,
           ListOK(W, cap, n, i, s), NEW name \in ByAge
    PROVE  /\ ListOK(W, cap, n, i, algEvict(name, cap, s).st)
           /\ algEvict(name, cap, s).ok => s # <<>> /\ algEvict(name, cap, s).key = Last(s)
<1>0. s \in Seq(Keys) /\ InOrder(W, s) /\ \A j \in 1..Len(s) : s[j] \in OfShard(n, i)
  BY DEF ListOK
<1>1. algEvict(name, cap, s) = IF cap = 0 \/ s = <<>> THEN NothingEvicted(s)
                               ELSE Evicted(Last(s), Front(s))
  BY DEF algEvict, lruEvict, cawolfuEvict, ByAge
<1>2. CASE cap = 0 \/ s = <<>>
  BY <1>1, <1>2 DEF NothingEvicted
<1>3. CASE ~(cap = 0 \/ s = <<>>)
  <2>1. InOrder(W, Front(s)) /\ Part(Front(s), s) /\ Front(s) \in Seq(Keys)
    BY <1>0, <1>3, FrontInOrder, FrontShape DEF Part
  <2>2. \A j \in 1..Len(Front(s)) : Front(s)[j] \in OfShard(n, i)
    BY <1>0, <2>1, PartOfShard
  <2>3. ListOK(W, cap, n, i, Front(s))
    BY <1>3, <2>1, <2>2 DEF ListOK
  <2>4. /\ algEvict(name, cap, s).st = Front(s) /\ algEvict(name, cap, s).key = Last(s)
    BY <1>1, <1>3 DEF Evicted
  <2> QED
    BY <1>3, <2>3, <2>4
<1> QED
  BY <1>2, <1>3


-----------------------------------------------------------------------------
\* Every shard of an algorithm that goes by age has its keys in order.
AgeOrder(W, e) ==
    e.name \in ByAge =>
      \A i \in DOMAIN e.shards :
        ListOK(W, e.cap, Cardinality(DOMAIN e.shards), i, e.shards[i])

\* A new algorithm has empty lists.
LEMMA NewShardedOrder ==
    ASSUME NEW name, NEW total, NEW n
    PROVE  AgeOrder(<<>>, NewSharded(name, total, n)) /\ NewSharded(name, total, n).name = name
<1> DEFINE e == NewSharded(name, total, n)
<1>1. /\ e.name = name
      /\ \A i \in DOMAIN e.shards : e.shards[i] = NewAlgorithm(name, perShard(total, n))
  BY DEF NewSharded
<1>2. name \in ByAge => NewAlgorithm(name, perShard(total, n)) = <<>>
  BY DEF ByAge, NewAlgorithm, NewLRUAlgorithm, NewCAWOLFU
<1>3. \A cap, m, i : ListOK(<<>>, cap, m, i, <<>>)
  BY DEF ListOK, InOrder
<1> HIDE DEF e
<1>4. AgeOrder(<<>>, e)
  BY <1>1, <1>2, <1>3 DEF AgeOrder
<1> QED
  BY <1>1, <1>4 DEF e

\* A key belongs to the shard that shardFor names.
LEMMA ShardForKey ==
    ASSUME NEW e, NEW k \in Keys, NEW i
    PROVE  k \in OfShard(Cardinality(DOMAIN e.shards), i) <=> shardFor(e, k) = i
BY DEF OfShard, shardFor

\* Set makes its key the newest of its shard, Delete only takes keys out.
LEMMA ShardedOrder ==
    ASSUME NEW W \in Seq(Keys), NEW e, Sharded(e), AgeOrder(W, e), NEW k \in Keys
    PROVE  /\ AgeOrder(Newest(W, k), shardedSet(e, k)) /\ shardedSet(e, k).name = e.name
           /\ AgeOrder(W, shardedDelete(e, k)) /\ shardedDelete(e, k).name = e.name
<1>1. PICK name \in Algorithms, cap \in Nat, n \in Nat \ {0} :
        e \in ShardedStates(name, cap, n)
  BY DEF Sharded
<1>2. PICK at \in 0..(n - 1) : at = shardFor(e, k)
  BY <1>1, ShardForIn
<1>3. /\ e.name = name /\ e.cap = cap
      /\ e.shards \in [0..(n - 1) -> AlgStates(name, cap)]
      /\ Cardinality(DOMAIN e.shards) = n /\ DOMAIN e.shards = 0..(n - 1)
  BY <1>1, ShardForIn
<1> DEFINE Puts(f, a) ==
             /\ f.name = name /\ f.cap = cap /\ DOMAIN f.shards = 0..(n - 1)
             /\ Cardinality(DOMAIN f.shards) = n
             /\ \A i \in 0..(n - 1) : f.shards[i] = IF i = at THEN a ELSE e.shards[i]
<1>4. ASSUME NEW a, NEW f, f = [e EXCEPT !.shards[at] = a]
      PROVE  Puts(f, a)
  <2>1. f.name = e.name /\ f.cap = e.cap /\ f.shards = [e.shards EXCEPT ![at] = a]
    BY <1>1, <1>4 DEF ShardedStates
  <2>2. DOMAIN f.shards = 0..(n - 1)
    BY <1>3, <2>1
  <2>3. \A i \in 0..(n - 1) : f.shards[i] = IF i = at THEN a ELSE e.shards[i]
    BY <1>3, <2>1
  <2> QED
    BY <1>3, <2>1, <2>2, <2>3
<1>5. \A i \in 0..(n - 1) : k \in OfShard(n, i) <=> i = at
  BY <1>2, <1>3, ShardForKey
<1>6. PICK f : f = shardedSet(e, k)
  OBVIOUS
<1>7. PICK g : g = shardedDelete(e, k)
  OBVIOUS
<1>8. f = [e EXCEPT !.shards[at] = algSet(name, cap, e.shards[at], k)]
  BY <1>2, <1>3, <1>6 DEF shardedSet
<1>9. g = [e EXCEPT !.shards[at] = algDelete(name, e.shards[at], k)]
  BY <1>2, <1>3, <1>7 DEF shardedDelete
<1>10. name \in ByAge => \A i \in 0..(n - 1) : ListOK(W, cap, n, i, e.shards[i])
  BY <1>3 DEF AgeOrder
<1>11. AgeOrder(Newest(W, k), f) /\ f.name = name
  <2>0. Puts(f, algSet(name, cap, e.shards[at], k))
    <3> HIDE DEF Puts
    <3> QED
      BY <1>4, <1>8
  <2>1. /\ f.name = name /\ f.cap = cap /\ DOMAIN f.shards = 0..(n - 1)
        /\ Cardinality(DOMAIN f.shards) = n
        /\ \A i \in 0..(n - 1) :
             f.shards[i] = IF i = at THEN algSet(name, cap, e.shards[at], k) ELSE e.shards[i]
    BY <2>0
  <2>2. ASSUME name \in ByAge, NEW i \in 0..(n - 1)
        PROVE  ListOK(Newest(W, k), cap, n, i, f.shards[i])
    <3>1. ListOK(W, cap, n, i, e.shards[i])
      BY <1>10, <2>2
    <3>2. CASE i = at
      BY <1>5, <2>1, <2>2, <3>1, <3>2, SetListOK
    <3>3. CASE i # at
      BY <1>5, <2>1, <2>2, <3>1, <3>3, SetListOK
    <3> QED
      BY <3>2, <3>3
  <2> QED
    BY <2>1, <2>2 DEF AgeOrder
<1>12. AgeOrder(W, g) /\ g.name = name
  <2>0. Puts(g, algDelete(name, e.shards[at], k))
    <3> HIDE DEF Puts
    <3> QED
      BY <1>4, <1>9
  <2>1. /\ g.name = name /\ g.cap = cap /\ DOMAIN g.shards = 0..(n - 1)
        /\ Cardinality(DOMAIN g.shards) = n
        /\ \A i \in 0..(n - 1) :
             g.shards[i] = IF i = at THEN algDelete(name, e.shards[at], k) ELSE e.shards[i]
    BY <2>0
  <2>2. ASSUME name \in ByAge, NEW i \in 0..(n - 1)
        PROVE  ListOK(W, cap, n, i, g.shards[i])
    <3>1. ListOK(W, cap, n, i, e.shards[i])
      BY <1>10, <2>2
    <3>2. CASE i = at
      BY <2>1, <2>2, <3>1, <3>2, DeleteListOK
    <3>3. CASE i # at
      BY <2>1, <3>1, <3>3
    <3> QED
      BY <3>2, <3>3
  <2> QED
    BY <2>1, <2>2 DEF AgeOrder
<1> QED
  BY <1>3, <1>6, <1>7, <1>11, <1>12

\* Evict takes the last key of one shard, and of no shard more than that.
LEMMA ShardedEvictOrder ==
    ASSUME NEW W, NEW e, Sharded(e), AgeOrder(W, e), Keys # {}
    PROVE  /\ AgeOrder(W, shardedEvict(e).st) /\ shardedEvict(e).st.name = e.name
           /\ e.name \in ByAge /\ shardedEvict(e).ok =>
                \E x \in DOMAIN e.shards : /\ e.shards[x] # <<>>
                                           /\ shardedEvict(e).key = Last(e.shards[x])
<1>1. PICK name \in Algorithms, cap \in Nat, n \in Nat \ {0} :
        e \in ShardedStates(name, cap, n)
  BY DEF Sharded
<1>2. /\ e.name = name /\ e.cap = cap /\ e.cursor \in Nat
      /\ e.shards \in [0..(n - 1) -> AlgStates(name, cap)]
      /\ Cardinality(DOMAIN e.shards) = n /\ DOMAIN e.shards = 0..(n - 1)
  BY <1>1, ShardForIn
<1> DEFINE m == Cardinality(DOMAIN e.shards)
           idx(i) == (e.cursor + i) % m
           try(i) == algEvict(e.name, e.cap, e.shards[idx(i)])
           hits == {i \in 0..(m - 1) : try(i).ok}
           stop == IF hits = {} THEN m - 1 ELSE Min(hits)
           shards == [x \in DOMAIN e.shards |->
                        IF \E i \in 0..stop : idx(i) = x
                        THEN algEvict(e.name, e.cap, e.shards[x]).st ELSE e.shards[x]]
           after == [e EXCEPT !.cursor = (@ + 1) % m, !.shards = shards]
<1>3. shardedEvict(e) = IF hits = {} THEN NothingEvicted(after)
                        ELSE Evicted(try(stop).key, after)
  BY DEF shardedEvict
<1>4. /\ after.name = name /\ after.cap = cap /\ after.shards = shards
      /\ DOMAIN shards = 0..(n - 1)
      /\ \A x \in 0..(n - 1) : \/ shards[x] = algEvict(name, cap, e.shards[x]).st
                                \/ shards[x] = e.shards[x]
  <2> HIDE DEF stop, idx, m
  <2>1. /\ DOMAIN shards = 0..(n - 1)
        /\ \A x \in 0..(n - 1) : \/ shards[x] = algEvict(name, cap, e.shards[x]).st
                                  \/ shards[x] = e.shards[x]
    BY <1>2
  <2> HIDE DEF shards
  <2> QED
    BY <1>1, <1>2, <2>1 DEF ShardedStates
<1>5. name \in ByAge => \A i \in 0..(n - 1) : ListOK(W, cap, n, i, e.shards[i])
  BY <1>2 DEF AgeOrder
<1>6. AgeOrder(W, after)
  <2> HIDE DEF after, shards
  <2>1. ASSUME name \in ByAge, NEW i \in 0..(n - 1) PROVE ListOK(W, cap, n, i, shards[i])
    BY <1>4, <1>5, <2>1, EvictListOK
  <2>2. Cardinality(DOMAIN after.shards) = n
    BY <1>2, <1>4
  <2> QED
    BY <1>4, <2>1, <2>2 DEF AgeOrder
<1>7. ASSUME hits # {}, name \in ByAge
      PROVE  \E x \in DOMAIN e.shards : e.shards[x] # <<>> /\ try(stop).key = Last(e.shards[x])
  <2>1. hits \in SUBSET Nat
    BY <1>2
  <2>2. Min(hits) \in hits
    <3> HIDE DEF hits
    <3> QED
      BY <1>7, <2>1, NatMin DEF Min
  <2>3. stop \in hits
    BY <1>7, <2>2
  <2> HIDE DEF stop
  <2>4. stop \in 0..(n - 1) /\ try(stop).ok
    BY <1>2, <2>3
  <2>5. PICK x \in 0..(n - 1) : x = idx(stop)
    BY <1>2, <2>4
  <2> HIDE DEF idx
  <2>6. algEvict(name, cap, e.shards[x]).ok /\ try(stop).key = algEvict(name, cap, e.shards[x]).key
    BY <1>2, <2>4, <2>5
  <2> HIDE DEF try
  <2>7. ListOK(W, cap, n, x, e.shards[x])
    BY <1>5, <1>7
  <2>8. e.shards[x] # <<>> /\ algEvict(name, cap, e.shards[x]).key = Last(e.shards[x])
    BY <1>7, <2>6, <2>7, EvictListOK
  <2> QED
    BY <1>2, <2>6, <2>8
<1> HIDE DEF after, hits, try, stop
<1>8. shardedEvict(e).st = after
  BY <1>3 DEF Evicted, NothingEvicted
<1>9. shardedEvict(e).ok => hits # {} /\ shardedEvict(e).key = try(stop).key
  BY <1>3 DEF Evicted, NothingEvicted
<1> QED
  BY <1>2, <1>4, <1>6, <1>7, <1>8, <1>9

\* The key Evict takes was set before every other one its shard tracks.
LEMMA EvictsOldest ==
    ASSUME NEW W, NEW e, Sharded(e), AgeOrder(W, e), e.name \in ByAge, shardedEvict(e).ok,
           Keys # {}, NEW o \in Tracked(e), o # shardedEvict(e).key,
           shardFor(e, o) = shardFor(e, shardedEvict(e).key)
    PROVE  Precedes(W, shardedEvict(e).key, o)
<1> DEFINE n == Cardinality(DOMAIN e.shards)
           k == shardedEvict(e).key
<1>1. PICK x \in DOMAIN e.shards : e.shards[x] # <<>> /\ k = Last(e.shards[x])
  BY ShardedEvictOrder
<1>2. PICK y \in DOMAIN e.shards : o \in Range(e.shards[y])
  BY DEF Tracked, algTracked, ByAge
<1>3. ListOK(W, e.cap, n, x, e.shards[x]) /\ ListOK(W, e.cap, n, y, e.shards[y])
  BY DEF AgeOrder
<1>4. PICK s \in Seq(Keys) : s = e.shards[x]
  BY <1>3 DEF ListOK
<1>5. PICK t \in Seq(Keys) : t = e.shards[y]
  BY <1>3 DEF ListOK
<1>6. Len(s) \in 1..Len(s) /\ k = s[Len(s)]
  BY <1>1, <1>4 DEF Last
<1>7. PICK j \in 1..Len(t) : o = t[j]
  BY <1>2, <1>5 DEF Range
<1>8. k \in OfShard(n, x) /\ o \in OfShard(n, y)
  BY <1>3, <1>4, <1>5, <1>6, <1>7 DEF ListOK
<1>9. shardFor(e, k) = x /\ shardFor(e, o) = y
  <2>1. k \in Keys /\ o \in Keys
    BY <1>6, <1>7
  <2> QED
    BY <1>8, <2>1, ShardForKey
<1>10. x = y
  BY <1>9
<1>11. j < Len(s) /\ j \in 1..Len(s) /\ o = s[j]
  <2>1. s = t
    BY <1>4, <1>5, <1>10
  <2>2. s[j] # s[Len(s)]
    BY <1>6, <1>7, <2>1
  <2> QED
    BY <1>7, <2>1, <2>2
<1>12. Precedes(W, s[Len(s)], s[j])
  BY <1>3, <1>4, <1>6, <1>11 DEF ListOK, InOrder
<1> QED
  BY <1>6, <1>11, <1>12

-----------------------------------------------------------------------------
(***************************************************************************)
(* What LRU, CAWOLFU and LFU track: a list of keys without duplicates, all *)
(* of the list's shard, so that Delete leaves no second entry of its key   *)
(* behind, and Evict has a victim whenever a key is tracked.               *)
(***************************************************************************)
ByList == {"lru", "cawolfu", "lfu"}

keyList(name, s) == IF name = "lfu" THEN s.last ELSE s

Distinct(s) == \A i, j \in 1..Len(s) : s[i] = s[j] => i = j

\* The list of shard i of n.
Tracks(name, n, i, s) ==
    Distinct(keyList(name, s)) /\ Range(keyList(name, s)) \subseteq OfShard(n, i)

LEMMA RangeIs ==
    ASSUME NEW s \in Seq(Keys)
    PROVE  Range(s) = {s[i] : i \in 1..Len(s)}
BY DEF Range

LEMMA WithoutDistinct ==
    ASSUME NEW s \in Seq(Keys), Distinct(s), NEW k
    PROVE  /\ Without(s, k) \in Seq(Keys) /\ Distinct(Without(s, k))
           /\ Range(Without(s, k)) \subseteq Range(s) \ {k}
<1>1. PICK r \in Seq(Keys) : r = Without(s, k)
  BY WithoutList
<1>2. Distinct(r) /\ \A j \in 1..Len(r) : r[j] # k /\ \E x \in 1..Len(s) : r[j] = s[x]
  <2>1. CASE r = s /\ \A j \in 1..Len(s) : s[j] # k
    BY <2>1
  <2>2. ASSUME NEW i \in 1..Len(s), CutAt(s, k, r, i)
        PROVE  Distinct(r) /\ \A j \in 1..Len(r) : r[j] # k /\ \E x \in 1..Len(s) : r[j] = s[x]
    <3>1. /\ s[i] = k /\ Len(r) = Len(s) - 1
          /\ \A j \in 1..Len(r) : r[j] = IF j < i THEN s[j] ELSE s[j + 1]
      BY <2>2 DEF CutAt
    <3>2. \A j \in 1..Len(r) : j \in 1..Len(s) /\ j + 1 \in 1..Len(s)
      BY <3>1
    <3> DEFINE at(j) == IF j < i THEN j ELSE j + 1
    <3>3. \A j \in 1..Len(r) : at(j) \in 1..Len(s) /\ at(j) # i /\ r[j] = s[at(j)]
      BY <3>1, <3>2
    <3>4. \A a, b \in 1..Len(r) : at(a) = at(b) => a = b
      BY <3>2
    <3> HIDE DEF at
    <3> QED
      BY <3>1, <3>3, <3>4 DEF Distinct
  <2> QED
    BY <1>1, <2>1, <2>2, WithoutShape
<1> QED
  BY <1>1, <1>2, RangeIs

LEMMA FrontDistinct ==
    ASSUME NEW s \in Seq(Keys), s # <<>>, Distinct(s)
    PROVE  /\ Front(s) \in Seq(Keys) /\ Distinct(Front(s))
           /\ Range(Front(s)) \subseteq Range(s)
<1>1. PICK r \in Seq(Keys) : r = Front(s)
  BY FrontShape
<1>2. Len(r) = Len(s) - 1 /\ \A j \in 1..Len(r) : j \in 1..Len(s) /\ r[j] = s[j]
  BY <1>1, FrontShape
<1>3. Distinct(r)
  BY <1>2 DEF Distinct
<1> QED
  BY <1>1, <1>2, <1>3, RangeIs

\* A key that is not in a list is put in front of it, or at its end.
LEMMA PutDistinct ==
    ASSUME NEW s \in Seq(Keys), Distinct(s), NEW k \in Keys, k \notin Range(s)
    PROVE  /\ <<k>> \o s \in Seq(Keys) /\ Distinct(<<k>> \o s)
           /\ Range(<<k>> \o s) = Range(s) \cup {k}
           /\ Append(s, k) \in Seq(Keys) /\ Distinct(Append(s, k))
           /\ Range(Append(s, k)) = Range(s) \cup {k}
<1>0. \A j \in 1..Len(s) : s[j] # k
  BY RangeIs
<1>1. PICK r \in Seq(Keys) : r = <<k>> \o s
  <2>1. <<k>> \o s \in Seq(Keys)
    OBVIOUS
  <2> QED
    BY <2>1, Zenon
<1>2. /\ Len(r) = Len(s) + 1 /\ r[1] = k
      /\ \A j \in 1..Len(s) : r[j + 1] = s[j]
      /\ \A j \in 1..Len(r) : j # 1 => j - 1 \in 1..Len(s) /\ r[j] = s[j - 1]
  BY <1>1
<1>3. Distinct(r) /\ Range(r) = Range(s) \cup {k}
  <2>1. ASSUME NEW a \in 1..Len(r), NEW b \in 1..Len(r), r[a] = r[b] PROVE a = b
    <3>0. \A j \in 1..Len(r) : j # 1 => r[j] # r[1]
      BY <1>0, <1>2
    <3>1. CASE a = 1 \/ b = 1
      BY <2>1, <3>0, <3>1
    <3>2. CASE a # 1 /\ b # 1
      <4>1. a - 1 \in 1..Len(s) /\ b - 1 \in 1..Len(s) /\ s[a - 1] = s[b - 1]
        BY <1>2, <2>1, <3>2
      <4>2. a - 1 = b - 1
        BY <4>1 DEF Distinct
      <4> QED
        BY <4>2
    <3> QED
      BY <3>1, <3>2
  <2>2. Range(r) \subseteq Range(s) \cup {k}
    BY <1>2, RangeIs
  <2>3. Range(s) \cup {k} \subseteq Range(r)
    <3>1. 1 \in 1..Len(r) /\ \A j \in 1..Len(s) : j + 1 \in 1..Len(r)
      BY <1>2
    <3>2. k \in Range(r)
      BY <1>2, <3>1, RangeIs
    <3>3. ASSUME NEW x \in Range(s) PROVE x \in Range(r)
      <4>1. PICK j \in 1..Len(s) : x = s[j]
        BY RangeIs
      <4>2. j + 1 \in 1..Len(r) /\ r[j + 1] = x
        BY <1>2, <3>1, <4>1
      <4>3. PICK i \in 1..Len(r) : i = j + 1
        BY <4>2, Zenon
      <4> QED
        BY <4>2, <4>3, RangeIs
    <3> QED
      BY <3>2, <3>3
  <2> QED
    BY <2>1, <2>2, <2>3 DEF Distinct
<1>4. PICK t \in Seq(Keys) : t = Append(s, k)
  <2>1. Append(s, k) \in Seq(Keys)
    OBVIOUS
  <2> QED
    BY <2>1, Zenon
<1>5. /\ Len(t) = Len(s) + 1 /\ t[Len(t)] = k
      /\ \A j \in 1..Len(s) : t[j] = s[j]
      /\ \A j \in 1..Len(t) : j # Len(t) => j \in 1..Len(s)
  BY <1>4
<1>6. Distinct(t) /\ Range(t) = Range(s) \cup {k}
  <2>1. Distinct(t)
    BY <1>0, <1>5 DEF Distinct
  <2>2. Range(t) \subseteq Range(s) \cup {k}
    BY <1>5, RangeIs
  <2>3. Range(s) \cup {k} \subseteq Range(t)
    <3>1. Len(t) \in 1..Len(t) /\ \A j \in 1..Len(s) : j \in 1..Len(t)
      BY <1>5
    <3> QED
      BY <1>5, <3>1, RangeIs
  <2> QED
    BY <2>1, <2>2, <2>3
<1> QED
  BY <1>1, <1>3, <1>4, <1>6

\* What a list algorithm tracks is what is on its list.
LEMMA ListTracked ==
    ASSUME NEW name \in ByList, NEW s
    PROVE  algTracked(name, s) = Range(keyList(name, s))
BY DEF ByList, algTracked, keyList

LEMMA ListTyped ==
    ASSUME NEW name \in ByList, NEW cap \in Nat, NEW s \in AlgStates(name, cap)
    PROVE  keyList(name, s) \in Seq(Keys)
BY DEF ByList, keyList, AlgStates, Lists, LfuStates

\* t is a list of some of the keys of s, and perhaps k.
OnlyAdds(s, k, t) == Distinct(t) /\ Range(t) \subseteq Range(s) \cup {k} /\ k \in Range(t)

LEMMA FrontAdds ==
    ASSUME NEW s \in Seq(Keys), Distinct(s), NEW k \in Keys, NEW r \in Seq(Keys), Distinct(r),
           Range(r) \subseteq Range(s), k \notin Range(r)
    PROVE  OnlyAdds(s, k, <<k>> \o r) /\ OnlyAdds(s, k, Append(r, k))
BY PutDistinct DEF OnlyAdds

\* Set puts its key on the list, and no other key.
LEMMA AgeListSet ==
    ASSUME NEW name \in ByAge, NEW cap \in Nat \ {0}, NEW s \in Seq(Keys), Distinct(s),
           NEW k \in Keys
    PROVE  OnlyAdds(s, k, algSet(name, cap, s, k))
<1>1. /\ Without(s, k) \in Seq(Keys) /\ Distinct(Without(s, k))
      /\ Range(Without(s, k)) \subseteq Range(s) \ {k}
  BY WithoutDistinct
<1>2. OnlyAdds(s, k, <<k>> \o Without(s, k))
  BY <1>1, FrontAdds
<1>3. k \in Range(s) => OnlyAdds(s, k, s)
  BY DEF OnlyAdds
<1>4. k \notin Range(s) => OnlyAdds(s, k, <<k>> \o s)
  BY FrontAdds
<1>5. k \notin Range(s) /\ s # <<>> => OnlyAdds(s, k, <<k>> \o Front(s))
  BY FrontDistinct, FrontAdds
<1>6. Len(s) = cap => s # <<>>
  OBVIOUS
<1>7. CASE name = "lru"
  <2>1. algSet(name, cap, s, k) = lruSet(cap, s, k)
    BY <1>7 DEF algSet
  <2> QED
    BY <1>2, <1>4, <1>5, <1>6, <2>1 DEF lruSet, lruMoveToFront
<1>8. CASE name = "cawolfu"
  <2>1. algSet(name, cap, s, k) = cawolfuSet(cap, s, k)
    BY <1>8 DEF algSet
  <2> QED
    BY <1>2, <1>3, <1>4, <1>5, <1>6, <2>1 DEF cawolfuSet, cawolfuMoveToFront
<1> QED
  BY <1>7, <1>8 DEF ByAge

LEMMA AgeListEvict ==
    ASSUME NEW name \in ByAge, NEW cap \in Nat, NEW s \in Seq(Keys), Distinct(s)
    PROVE  /\ Distinct(algEvict(name, cap, s).st)
           /\ Range(algEvict(name, cap, s).st) \subseteq Range(s)
           /\ algEvict(name, cap, s).ok => algEvict(name, cap, s).key \in Range(s)
           /\ cap > 0 /\ s # <<>> => algEvict(name, cap, s).ok
<1>1. algEvict(name, cap, s) = IF cap = 0 \/ s = <<>> THEN NothingEvicted(s)
                               ELSE Evicted(Last(s), Front(s))
  BY DEF ByAge, algEvict, lruEvict, cawolfuEvict
<1>2. CASE cap = 0 \/ s = <<>>
  BY <1>1, <1>2 DEF NothingEvicted
<1>3. CASE ~(cap = 0 \/ s = <<>>)
  <2>1. Last(s) \in Range(s)
    <3>1. Len(s) \in 1..Len(s)
      BY <1>3
    <3> QED
      BY <3>1, RangeIs DEF Last
  <2>2. algEvict(name, cap, s) = Evicted(Last(s), Front(s))
    BY <1>1, <1>3
  <2> QED
    BY <1>3, <2>1, <2>2, FrontDistinct DEF Evicted
<1> QED
  BY <1>2, <1>3

LEMMA LfuEvictsLeast ==
    ASSUME NEW s \in LfuStates, Distinct(s.last)
    PROVE  /\ lfuInternalEvict(s).st \in LfuStates
           /\ Distinct(lfuInternalEvict(s).st.last)
           /\ Range(lfuInternalEvict(s).st.last) \subseteq Range(s.last)
           /\ lfuInternalEvict(s).ok => lfuInternalEvict(s).key \in Range(s.last)
           /\ s.last # <<>> => lfuInternalEvict(s).ok
<1>0. s.last \in Seq(Keys)
  BY DEF LfuStates
<1>1. lfuInternalEvict(s).st \in LfuStates
  BY LfuInternalEvictTyped DEF GoodResult, Results
<1>2. CASE s.last = <<>>
  BY <1>1, <1>2 DEF lfuInternalEvict, NothingEvicted
<1>3. CASE s.last # <<>>
  <2> DEFINE least == CHOOSE k \in Range(s.last) :
                        \A o \in Range(s.last) \ {k} : lfuLess(s, k, o)
  <2>1. least \in Range(s.last)
    BY <1>3, LfuLeast
  <2>2. lfuInternalEvict(s) = Evicted(least, lfuDelete(s, least))
    BY <1>3 DEF lfuInternalEvict
  <2> HIDE DEF least
  <2>3. lfuDelete(s, least).last = Without(s.last, least)
    BY DEF lfuDelete
  <2>4. /\ Distinct(Without(s.last, least))
        /\ Range(Without(s.last, least)) \subseteq Range(s.last)
    BY <1>0, WithoutDistinct
  <2> QED
    BY <1>1, <2>1, <2>2, <2>3, <2>4 DEF Evicted
<1> QED
  BY <1>2, <1>3

LEMMA LfuListSet ==
    ASSUME NEW cap \in Nat \ {0}, NEW s \in LfuStates, Distinct(s.last), NEW k \in Keys
    PROVE  OnlyAdds(s.last, k, lfuSet(cap, s, k).last)
<1> DEFINE room == IF k \notin Range(s.last) /\ Len(s.last) = cap
                   THEN lfuInternalEvict(s).st ELSE s
<1>1. room \in LfuStates /\ Distinct(room.last) /\ Range(room.last) \subseteq Range(s.last)
  BY LfuEvictsLeast
<1>2. lfuSet(cap, s, k).last = Append(Without(room.last, k), k)
  BY DEF lfuSet
<1> HIDE DEF room
<1>3. room.last \in Seq(Keys) /\ s.last \in Seq(Keys)
  BY <1>1 DEF LfuStates
<1>4. /\ Without(room.last, k) \in Seq(Keys) /\ Distinct(Without(room.last, k))
      /\ Range(Without(room.last, k)) \subseteq Range(s.last) \ {k}
  BY <1>1, <1>3, WithoutDistinct
<1> QED
  BY <1>2, <1>3, <1>4, FrontAdds

-----------------------------------------------------------------------------
\* The three operations, whatever the list algorithm.
LEMMA ListSet ==
    ASSUME NEW name \in ByList, NEW cap \in Nat, NEW n, NEW i, NEW s \in AlgStates(name, cap),
           Tracks(name, n, i, s), NEW k \in OfShard(n, i)
    PROVE  /\ Tracks(name, n, i, algSet(name, cap, s, k))
           /\ algTracked(name, algSet(name, cap, s, k)) \subseteq algTracked(name, s) \cup {k}
           /\ cap > 0 => k \in algTracked(name, algSet(name, cap, s, k))
<1>0. k \in Keys
  BY DEF OfShard
<1> DEFINE t == algSet(name, cap, s, k)
<1>1. /\ Distinct(keyList(name, s)) /\ keyList(name, s) \in Seq(Keys)
      /\ Range(keyList(name, s)) \subseteq OfShard(n, i)
  BY ListTyped DEF Tracks
<1>2. CASE cap = 0
  <2>1. t = s
    BY <1>2 DEF algSet, ByList, lruSet, cawolfuSet, lfuSet
  <2> QED
    BY <1>2, <2>1
<1>3. CASE cap # 0
  <2>0. cap \in Nat \ {0}
    BY <1>3
  <2>1. OnlyAdds(keyList(name, s), k, keyList(name, t))
    <3>1. CASE name = "lfu"
      <4>1. t = lfuSet(cap, s, k) /\ keyList(name, s) = s.last /\ keyList(name, t) = t.last
        BY <3>1 DEF algSet, keyList
      <4>2. s \in LfuStates
        BY <3>1 DEF AlgStates
      <4> HIDE DEF t
      <4> QED
        BY <1>0, <1>1, <2>0, <4>1, <4>2, LfuListSet
    <3>2. CASE name # "lfu"
      <4>1. name \in ByAge /\ keyList(name, s) = s /\ keyList(name, t) = t
        BY <3>2 DEF ByList, ByAge, keyList
      <4> QED
        BY <1>0, <1>1, <2>0, <4>1, AgeListSet
    <3> QED
      BY <3>1, <3>2
  <2> HIDE DEF t
  <2>2. /\ Distinct(keyList(name, t)) /\ Range(keyList(name, t)) \subseteq Range(keyList(name, s)) \cup {k}
        /\ k \in Range(keyList(name, t))
    BY <2>1 DEF OnlyAdds
  <2>3. Tracks(name, n, i, t)
    BY <1>1, <2>2 DEF Tracks
  <2>4. algTracked(name, t) = Range(keyList(name, t)) /\ algTracked(name, s) = Range(keyList(name, s))
    BY ListTracked
  <2> QED
    BY <2>2, <2>3, <2>4 DEF t
<1> QED
  BY <1>2, <1>3

LEMMA ListDelete ==
    ASSUME NEW name \in ByList, NEW cap \in Nat, NEW n, NEW i, NEW s \in AlgStates(name, cap),
           Tracks(name, n, i, s), NEW k
    PROVE  /\ Tracks(name, n, i, algDelete(name, s, k))
           /\ algTracked(name, algDelete(name, s, k)) \subseteq algTracked(name, s) \ {k}
<1> DEFINE t == algDelete(name, s, k)
<1>1. /\ Distinct(keyList(name, s)) /\ keyList(name, s) \in Seq(Keys)
      /\ Range(keyList(name, s)) \subseteq OfShard(n, i)
  BY ListTyped DEF Tracks
<1>2. \/ keyList(name, t) = Without(keyList(name, s), k)
      \/ keyList(name, t) = keyList(name, s) /\ k \notin Range(keyList(name, s))
  BY DEF ByList, keyList, algDelete, lruDelete, cawolfuDelete, lfuDelete
<1>3. Distinct(keyList(name, t)) /\ Range(keyList(name, t)) \subseteq Range(keyList(name, s)) \ {k}
  <2> HIDE DEF t
  <2> QED
    BY <1>1, <1>2, WithoutDistinct
<1>4. algTracked(name, t) = Range(keyList(name, t)) /\ algTracked(name, s) = Range(keyList(name, s))
  BY ListTracked
<1> HIDE DEF t
<1>5. Tracks(name, n, i, t)
  BY <1>1, <1>3 DEF Tracks
<1> QED
  BY <1>3, <1>4, <1>5 DEF t

LEMMA ListEvict ==
    ASSUME NEW name \in ByList, NEW cap \in Nat, NEW n, NEW i, NEW s \in AlgStates(name, cap),
           Tracks(name, n, i, s), NEW r, r = algEvict(name, cap, s)
    PROVE  /\ Tracks(name, n, i, r.st)
           /\ algTracked(name, r.st) \subseteq algTracked(name, s)
           /\ r.ok => r.key \in algTracked(name, s)
           /\ cap > 0 /\ algTracked(name, s) # {} => r.ok
<1>1. /\ Distinct(keyList(name, s)) /\ keyList(name, s) \in Seq(Keys)
      /\ Range(keyList(name, s)) \subseteq OfShard(n, i)
  BY ListTyped DEF Tracks
<1>2. /\ Distinct(keyList(name, r.st)) /\ Range(keyList(name, r.st)) \subseteq Range(keyList(name, s))
      /\ r.ok => r.key \in Range(keyList(name, s))
      /\ cap > 0 /\ keyList(name, s) # <<>> => r.ok
  <2>1. CASE name = "lfu"
    <3>1. r = lfuEvict(cap, s) /\ keyList(name, s) = s.last /\ keyList(name, r.st) = r.st.last
      BY <2>1 DEF algEvict, keyList
    <3>2. s \in LfuStates
      BY <2>1 DEF AlgStates
    <3>3. CASE cap = 0
      <4>1. r = NothingEvicted(s)
        BY <3>1, <3>3 DEF lfuEvict
      <4> QED
        BY <1>1, <3>1, <3>3, <4>1 DEF NothingEvicted
    <3>4. CASE cap # 0
      <4>1. r = lfuInternalEvict(s)
        BY <3>1, <3>4 DEF lfuEvict
      <4> QED
        BY <1>1, <3>1, <3>2, <4>1, LfuEvictsLeast
    <3> QED
      BY <3>3, <3>4
  <2>2. CASE name # "lfu"
    <3>1. name \in ByAge /\ keyList(name, s) = s /\ keyList(name, r.st) = r.st
      BY <2>2 DEF ByList, ByAge, keyList
    <3> QED
      BY <1>1, <3>1, AgeListEvict
  <2> QED
    BY <2>1, <2>2
<1>3. algTracked(name, r.st) = Range(keyList(name, r.st)) /\ algTracked(name, s) = Range(keyList(name, s))
  BY ListTracked
<1>4. Range(keyList(name, s)) # {} => keyList(name, s) # <<>>
  BY <1>1, RangeIs
<1>5. Tracks(name, n, i, r.st)
  BY <1>1, <1>2 DEF Tracks
<1> QED
  BY <1>2, <1>3, <1>4, <1>5

-----------------------------------------------------------------------------
(***************************************************************************)
(* What a sharded algorithm tracks.                                        *)
(***************************************************************************)
AllTrack(e) ==
    e.name \in ByList =>
        \A i \in DOMAIN e.shards : Tracks(e.name, Cardinality(DOMAIN e.shards), i, e.shards[i])

\* Starting at any cursor, a turn over the shards visits every one.
LEMMA TurnVisits ==
    ASSUME NEW n \in Nat \ {0}, NEW c \in Nat, NEW x \in 0..(n - 1)
    PROVE  \E i \in 0..(n - 1) : (c + i) % n = x
<1>1. PICK q \in Int, r \in 0..(n - 1) : c = n * q + r
  <2>1. c = n * (c \div n) + (c % n) /\ c % n \in 0..(n - 1) /\ c \div n \in Int
    OBVIOUS
  <2> QED
    BY <2>1, Zenon
<1>2. \A y \in 0..(n - 1) : \A d \in Int : (n * d + y) % n = y
  OBVIOUS
<1>3. CASE r <= x
  <2>1. x - r \in 0..(n - 1) /\ c + (x - r) = n * q + x
    BY <1>1, <1>3
  <2>2. (c + (x - r)) % n = x
    BY <1>2, <2>1
  <2> QED
    BY <2>1, <2>2
<1>4. CASE ~(r <= x)
  <2>1. (x - r) + n \in 0..(n - 1)
    BY <1>4
  <2>2. c + ((x - r) + n) = n * (q + 1) + x
    BY <1>1
  <2>3. q + 1 \in Int
    OBVIOUS
  <2>4. (c + ((x - r) + n)) % n = x
    BY <1>2, <2>2, <2>3
  <2> QED
    BY <2>1, <2>4
<1> QED
  BY <1>3, <1>4

\* A new one tracks nothing.
LEMMA NewTracks ==
    ASSUME NEW name, NEW total, NEW n
    PROVE  /\ AllTrack(NewSharded(name, total, n))
           /\ name \in ByList => Tracked(NewSharded(name, total, n)) = {}
<1> DEFINE e == NewSharded(name, total, n)
<1>1. e.name = name /\ \A i \in DOMAIN e.shards : e.shards[i] = NewAlgorithm(name, perShard(total, n))
  BY DEF NewSharded
<1>2. name \in ByList => keyList(name, NewAlgorithm(name, perShard(total, n))) = <<>>
  BY DEF ByList, keyList, NewAlgorithm, NewLRUAlgorithm, NewCAWOLFU, NewLFUAlgorithm
<1>3. Distinct(<<>>) /\ Range(<<>>) = {}
  BY DEF Distinct, Range
<1> HIDE DEF e
<1>4. name \in ByList => \A i \in DOMAIN e.shards : keyList(name, e.shards[i]) = <<>>
  BY <1>1, <1>2
<1>5. AllTrack(e)
  BY <1>1, <1>3, <1>4 DEF AllTrack, Tracks
<1>6. ASSUME name \in ByList PROVE Tracked(e) = {}
  <2>1. ASSUME NEW i \in DOMAIN e.shards PROVE algTracked(e.name, e.shards[i]) = {}
    <3>1. algTracked(name, e.shards[i]) = Range(keyList(name, e.shards[i]))
      BY <1>6, ListTracked
    <3> QED
      BY <1>1, <1>3, <1>4, <1>6, <3>1
  <2> QED
    BY <2>1 DEF Tracked
<1> QED
  BY <1>5, <1>6 DEF e

\* One shard is replaced.
LEMMA ReplaceShard ==
    ASSUME NEW name, NEW cap, NEW n \in Nat \ {0},
           NEW e \in ShardedStates(name, cap, n), NEW k \in Keys,
           NEW a, NEW f, f = [e EXCEPT !.shards[shardFor(e, k)] = a]
    PROVE  /\ f.name = e.name /\ f.cap = e.cap /\ DOMAIN f.shards = DOMAIN e.shards
           /\ f.shards[shardFor(e, k)] = a
           /\ \A i \in DOMAIN e.shards : i # shardFor(e, k) => f.shards[i] = e.shards[i]
<1>1. /\ e.name = name /\ e.cap = cap /\ shardFor(e, k) \in 0..(n - 1)
      /\ DOMAIN e.shards = 0..(n - 1)
  BY ShardForIn
<1>2. PICK i \in 0..(n - 1) : i = shardFor(e, k)
  BY <1>1, Zenon
<1>3. f = [e EXCEPT !.shards = [@ EXCEPT ![i] = a]]
  BY <1>2
<1> QED
  BY <1>1, <1>2, <1>3 DEF ShardedStates

\* Set tracks its key, if it tracks any, and no other that was not tracked.
LEMMA ShardedSetTracks ==
    ASSUME NEW e, Sharded(e), AllTrack(e), e.name \in ByList, NEW k \in Keys,
           NEW f, f = shardedSet(e, k)
    PROVE  /\ AllTrack(f) /\ f.name = e.name /\ f.cap = e.cap
           /\ Tracked(f) \subseteq Tracked(e) \cup {k}
           /\ e.cap > 0 => k \in Tracked(f)
<1>1. PICK name \in Algorithms, cap \in Nat, n \in Nat \ {0} :
        e \in ShardedStates(name, cap, n)
  BY DEF Sharded
<1>2. /\ e.name = name /\ e.cap = cap /\ shardFor(e, k) \in 0..(n - 1)
      /\ e.shards \in [0..(n - 1) -> AlgStates(name, cap)]
      /\ Cardinality(DOMAIN e.shards) = n /\ DOMAIN e.shards = 0..(n - 1)
  BY <1>1, ShardForIn
<1>3. PICK x \in 0..(n - 1) : x = shardFor(e, k)
  BY <1>2, Zenon
<1> DEFINE a == algSet(name, cap, e.shards[x], k)
<1>4. f = [e EXCEPT !.shards[shardFor(e, k)] = a]
  BY <1>2, <1>3 DEF shardedSet
<1>5. /\ Tracks(name, n, x, a)
      /\ algTracked(name, a) \subseteq algTracked(name, e.shards[x]) \cup {k}
      /\ cap > 0 => k \in algTracked(name, a)
  <2>1. Tracks(name, n, x, e.shards[x]) /\ e.shards[x] \in AlgStates(name, cap)
    BY <1>2 DEF AllTrack
  <2>2. k \in OfShard(n, x)
    BY <1>2, <1>3, ShardForKey
  <2> QED
    BY <1>2, <2>1, <2>2, ListSet
<1> HIDE DEF a
<1>6. /\ f.name = name /\ f.cap = cap /\ DOMAIN f.shards = 0..(n - 1)
      /\ f.shards[x] = a /\ \A i \in 0..(n - 1) : i # x => f.shards[i] = e.shards[i]
  BY <1>1, <1>2, <1>3, <1>4, ReplaceShard
<1>7. \A i \in 0..(n - 1) : /\ Tracks(name, n, i, f.shards[i])
                            /\ algTracked(name, f.shards[i]) \subseteq Tracked(e) \cup {k}
  BY <1>2, <1>5, <1>6 DEF AllTrack, Tracked
<1>8. AllTrack(f)
  BY <1>2, <1>6, <1>7 DEF AllTrack
<1>9. Tracked(f) \subseteq Tracked(e) \cup {k}
  BY <1>6, <1>7 DEF Tracked
<1>10. cap > 0 => k \in Tracked(f)
  BY <1>5, <1>6 DEF Tracked
<1> QED
  BY <1>2, <1>6, <1>8, <1>9, <1>10

\* Delete forgets its key, wherever it is tracked.
LEMMA ShardedDeleteTracks ==
    ASSUME NEW e, Sharded(e), AllTrack(e), e.name \in ByList, NEW k \in Keys,
           NEW f, f = shardedDelete(e, k)
    PROVE  /\ AllTrack(f) /\ f.name = e.name /\ f.cap = e.cap
           /\ Tracked(f) \subseteq Tracked(e) \ {k}
<1>1. PICK name \in Algorithms, cap \in Nat, n \in Nat \ {0} :
        e \in ShardedStates(name, cap, n)
  BY DEF Sharded
<1>2. /\ e.name = name /\ e.cap = cap /\ shardFor(e, k) \in 0..(n - 1)
      /\ e.shards \in [0..(n - 1) -> AlgStates(name, cap)]
      /\ Cardinality(DOMAIN e.shards) = n /\ DOMAIN e.shards = 0..(n - 1)
  BY <1>1, ShardForIn
<1>3. PICK x \in 0..(n - 1) : x = shardFor(e, k)
  BY <1>2, Zenon
<1> DEFINE a == algDelete(name, e.shards[x], k)
<1>4. f = [e EXCEPT !.shards[shardFor(e, k)] = a]
  BY <1>2, <1>3 DEF shardedDelete
<1>5. /\ Tracks(name, n, x, a)
      /\ algTracked(name, a) \subseteq algTracked(name, e.shards[x]) \ {k}
  <2>1. Tracks(name, n, x, e.shards[x]) /\ e.shards[x] \in AlgStates(name, cap)
    BY <1>2 DEF AllTrack
  <2> QED
    BY <1>2, <2>1, ListDelete
<1> HIDE DEF a
<1>6. /\ f.name = name /\ f.cap = cap /\ DOMAIN f.shards = 0..(n - 1)
      /\ f.shards[x] = a /\ \A i \in 0..(n - 1) : i # x => f.shards[i] = e.shards[i]
  BY <1>1, <1>2, <1>3, <1>4, ReplaceShard
<1>7. ASSUME NEW i \in 0..(n - 1)
      PROVE  /\ Tracks(name, n, i, f.shards[i])
             /\ algTracked(name, f.shards[i]) \subseteq Tracked(e) \ {k}
  <2>1. CASE i = x
    BY <1>2, <1>5, <1>6, <2>1 DEF Tracked
  <2>2. CASE i # x
    <3>1. f.shards[i] = e.shards[i] /\ Tracks(name, n, i, e.shards[i])
      BY <1>2, <1>6, <2>2 DEF AllTrack
    <3>2. algTracked(name, e.shards[i]) \subseteq OfShard(n, i)
      BY <1>2, <3>1, ListTracked DEF Tracks
    <3>3. k \notin OfShard(n, i)
      BY <1>2, <1>3, <2>2, ShardForKey
    <3>4. algTracked(name, e.shards[i]) \subseteq Tracked(e)
      BY <1>2 DEF Tracked
    <3> QED
      BY <3>1, <3>2, <3>3, <3>4
  <2> QED
    BY <2>1, <2>2
<1>8. AllTrack(f)
  BY <1>2, <1>6, <1>7 DEF AllTrack
<1>9. Tracked(f) \subseteq Tracked(e) \ {k}
  BY <1>6, <1>7 DEF Tracked
<1> QED
  BY <1>2, <1>6, <1>8, <1>9

\* Evict gives back a key that was tracked, and finds one if there is any.
LEMMA ShardedEvictTracks ==
    ASSUME NEW e, Sharded(e), AllTrack(e), e.name \in ByList, Keys # {}
    PROVE  /\ AllTrack(shardedEvict(e).st) /\ shardedEvict(e).st.name = e.name
           /\ shardedEvict(e).st.cap = e.cap
           /\ Tracked(shardedEvict(e).st) \subseteq Tracked(e)
           /\ shardedEvict(e).ok => shardedEvict(e).key \in Tracked(e)
           /\ e.cap > 0 /\ Tracked(e) # {} => shardedEvict(e).ok
<1>1. PICK name \in Algorithms, cap \in Nat, n \in Nat \ {0} :
        e \in ShardedStates(name, cap, n)
  BY DEF Sharded
<1>0. PICK key \in Keys : TRUE
  OBVIOUS
<1>2. /\ e.name = name /\ e.cap = cap /\ e.cursor \in Nat
      /\ e.shards \in [0..(n - 1) -> AlgStates(name, cap)]
      /\ Cardinality(DOMAIN e.shards) = n /\ DOMAIN e.shards = 0..(n - 1)
  BY <1>0, <1>1, ShardForIn
<1> DEFINE m == Cardinality(DOMAIN e.shards)
           idx(i) == (e.cursor + i) % m
           try(i) == algEvict(e.name, e.cap, e.shards[idx(i)])
           hits == {i \in 0..(m - 1) : try(i).ok}
           stop == IF hits = {} THEN m - 1 ELSE Min(hits)
           shards == [x \in DOMAIN e.shards |->
                        IF \E i \in 0..stop : idx(i) = x
                        THEN algEvict(e.name, e.cap, e.shards[x]).st ELSE e.shards[x]]
           after == [e EXCEPT !.cursor = (@ + 1) % m, !.shards = shards]
<1>3. shardedEvict(e) = IF hits = {} THEN NothingEvicted(after)
                        ELSE Evicted(try(stop).key, after)
  BY DEF shardedEvict
<1>4. /\ after.name = name /\ after.cap = cap /\ after.shards = shards
      /\ DOMAIN shards = 0..(n - 1)
      /\ \A x \in 0..(n - 1) : \/ shards[x] = algEvict(name, cap, e.shards[x]).st
                                \/ shards[x] = e.shards[x]
  <2> HIDE DEF stop, idx, m
  <2>1. /\ DOMAIN shards = 0..(n - 1)
        /\ \A x \in 0..(n - 1) : \/ shards[x] = algEvict(name, cap, e.shards[x]).st
                                  \/ shards[x] = e.shards[x]
    BY <1>2
  <2> HIDE DEF shards
  <2> QED
    BY <1>1, <1>2, <2>1 DEF ShardedStates
<1>5. ASSUME NEW x \in 0..(n - 1), NEW r, r = algEvict(name, cap, e.shards[x])
      PROVE  /\ Tracks(name, n, x, e.shards[x]) /\ Tracks(name, n, x, r.st)
             /\ algTracked(name, r.st) \subseteq algTracked(name, e.shards[x])
             /\ algTracked(name, e.shards[x]) \subseteq Tracked(e)
             /\ r.ok => r.key \in algTracked(name, e.shards[x])
             /\ cap > 0 /\ algTracked(name, e.shards[x]) # {} => r.ok
  <2>1. Tracks(name, n, x, e.shards[x]) /\ e.shards[x] \in AlgStates(name, cap)
    BY <1>2 DEF AllTrack
  <2>2. algTracked(name, e.shards[x]) \subseteq Tracked(e)
    BY <1>2 DEF Tracked
  <2> QED
    BY <1>2, <1>5, <2>1, <2>2, ListEvict
<1>6. AllTrack(after) /\ Tracked(after) \subseteq Tracked(e)
  <2> HIDE DEF after, shards
  <2>1. ASSUME NEW x \in 0..(n - 1)
        PROVE  Tracks(name, n, x, shards[x]) /\ algTracked(name, shards[x]) \subseteq Tracked(e)
    BY <1>4, <1>5
  <2> QED
    BY <1>2, <1>4, <2>1 DEF AllTrack, Tracked
<1>7. ASSUME hits # {} PROVE try(stop).key \in Tracked(e)
  <2>1. hits \in SUBSET Nat
    BY <1>2
  <2>2. Min(hits) \in hits
    <3> HIDE DEF hits
    <3> QED
      BY <1>7, <2>1, NatMin DEF Min
  <2>3. stop \in hits
    BY <1>7, <2>2
  <2> HIDE DEF stop
  <2>4. stop \in 0..(n - 1) /\ try(stop).ok
    BY <1>2, <2>3
  <2>5. PICK x \in 0..(n - 1) : x = idx(stop)
    BY <1>2, <2>4
  <2> HIDE DEF idx
  <2>6. algEvict(name, cap, e.shards[x]).ok /\ try(stop).key = algEvict(name, cap, e.shards[x]).key
    BY <1>2, <2>4, <2>5
  <2> HIDE DEF try
  <2> QED
    BY <1>5, <2>6
<1>8. ASSUME cap > 0, Tracked(e) # {} PROVE hits # {}
  <2>0. PICK o \in Tracked(e) : TRUE
    BY <1>8
  <2>1. PICK x \in 0..(n - 1) : algTracked(name, e.shards[x]) # {}
    <3>1. PICK x \in DOMAIN e.shards : o \in algTracked(e.name, e.shards[x])
      BY <2>0, Zenon DEF Tracked
    <3> QED
      BY <1>2, <3>1
  <2>2. algEvict(name, cap, e.shards[x]).ok
    BY <1>5, <1>8, <2>1
  <2>3. PICK i \in 0..(n - 1) : (e.cursor + i) % n = x
    BY <1>2, TurnVisits
  <2>4. i \in 0..(m - 1) /\ try(i).ok
    BY <1>2, <2>2, <2>3
  <2> QED
    BY <2>4
<1> HIDE DEF after, hits, try, stop
<1>9. shardedEvict(e).st = after /\ (shardedEvict(e).ok <=> hits # {})
      /\ (hits # {} => shardedEvict(e).key = try(stop).key)
  BY <1>3 DEF Evicted, NothingEvicted
<1> QED
  BY <1>2, <1>4, <1>6, <1>7, <1>8, <1>9
=============================================================================
