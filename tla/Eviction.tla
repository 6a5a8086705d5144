------------------------------ MODULE Eviction ------------------------------
(***************************************************************************)
(* The eviction algorithms HyperCache can be built with (pkg/eviction):    *)
(* LRU, LFU, Clock and CAWOLFU, and the Sharded wrapper around them.       *)
(* Every algorithm is a value and its operations are operators on it: each *)
(* holds the algorithm's own mutex from its first line to its last, so one *)
(* application is one step of the caller.  Values of keys are left out;    *)
(* what an algorithm decides is which key goes next.                       *)
(*                                                                         *)
(*   lru, cawolfu   the doubly linked list, most recent first              *)
(*   lfu            the use counts, and the keys in the order of their     *)
(*                  last use, oldest first (the heap's tie break)          *)
(*   clock          the slots, their use counts and the hand               *)
(***************************************************************************)
EXTENDS Integers, FiniteSets, SequencesExt, FiniteSetsExt

CONSTANTS Keys,     \* the keys of the cache
          NoKey,    \* an empty slot of the clock, and "nothing evicted"
          ShardOf   \* ShardOf[k]: the hash of k, masked to a shard index later

ASSUME EvictionAssumption == NoKey \notin Keys /\ ShardOf \in [Keys -> Nat]

Algorithms == {"lru", "lfu", "clock", "cawolfu"}

Evicted(k, s) == [ok |-> TRUE, key |-> k, st |-> s]
NothingEvicted(s) == [ok |-> FALSE, key |-> NoKey, st |-> s]

Without(s, k) == RemoveFirst(s, k)

-----------------------------------------------------------------------------
(***************************************************************************)
(* LRU: the list is moved to the front on every use and cut at its tail.   *)
(***************************************************************************)
NewLRUAlgorithm == <<>>

lruMoveToFront(s, k) == <<k>> \o Without(s, k)

lruSet(cap, s, k) ==
    IF cap = 0 THEN s
    ELSE IF k \in Range(s) THEN lruMoveToFront(s, k)
    ELSE <<k>> \o (IF Len(s) = cap THEN Front(s) ELSE s)

\* Mutant: the victim is taken from the wrong end of the list.
lruEvict_Head(cap, s) ==
    IF cap = 0 \/ s = <<>> THEN NothingEvicted(s)
    ELSE Evicted(Head(s), Tail(s))

lruEvict(cap, s) ==
    IF cap = 0 \/ s = <<>> THEN NothingEvicted(s)
    ELSE Evicted(Last(s), Front(s))

lruDelete(s, k) == Without(s, k)

-----------------------------------------------------------------------------
(***************************************************************************)
(* CAWOLFU keeps a count per node and never reads it: what it evicts is    *)
(* the tail of the list, as LRU does.                                      *)
(***************************************************************************)
NewCAWOLFU == <<>>

cawolfuMoveToFront(s, k) == IF Head(s) = k THEN s ELSE <<k>> \o Without(s, k)

cawolfuSet(cap, s, k) ==
    IF cap = 0 THEN s
    ELSE IF k \in Range(s) THEN cawolfuMoveToFront(s, k)
    ELSE LET kept == IF Len(s) = cap THEN Front(s) ELSE s IN <<k>> \o kept

cawolfuEvict(cap, s) ==
    IF cap = 0 \/ s = <<>> THEN NothingEvicted(s)
    ELSE Evicted(Last(s), Front(s))

cawolfuDelete(s, k) == IF k \in Range(s) THEN Without(s, k) ELSE s

-----------------------------------------------------------------------------
(***************************************************************************)
(* LFU: the heap's least node is the one with the fewest uses, the one     *)
(* used longest ago among equals.                                          *)
(***************************************************************************)
NewLFUAlgorithm == [count |-> [k \in Keys |-> 0], last |-> <<>>]

lfuLess(s, a, b) ==
    \/ s.count[a] < s.count[b]
    \/ s.count[a] = s.count[b]
       /\ \E i, j \in DOMAIN s.last : i < j /\ s.last[i] = a /\ s.last[j] = b

lfuDelete(s, k) == [count |-> [s.count EXCEPT ![k] = 0],
                    last |-> Without(s.last, k)]

lfuInternalEvict(s) ==
    IF s.last = <<>> THEN NothingEvicted(s)
    ELSE LET least == CHOOSE k \in Range(s.last) :
                        \A o \in Range(s.last) \ {k} : lfuLess(s, k, o)
         IN  Evicted(least, lfuDelete(s, least))

lfuSet(cap, s, k) ==
    IF cap = 0 THEN s
    ELSE LET room == IF k \notin Range(s.last) /\ Len(s.last) = cap
                     THEN lfuInternalEvict(s).st ELSE s
         IN  [count |-> [room.count EXCEPT ![k] = @ + 1],
              last |-> Append(Without(room.last, k), k)]

lfuEvict(cap, s) == IF cap = 0 THEN NothingEvicted(s) ELSE lfuInternalEvict(s)

-----------------------------------------------------------------------------
(***************************************************************************)
(* Clock: one turn of the hand over the slots.  A used slot loses one use  *)
(* and is passed over; the first one without uses is the victim; when a    *)
(* whole turn finds none, the hand is back where it was and nothing is     *)
(* evicted (or, from Set, the new key is not inserted at all).             *)
(***************************************************************************)
NewClockAlgorithm(cap) == [slot |-> [i \in 0..(cap - 1) |-> NoKey],
                           count |-> [i \in 0..(cap - 1) |-> 0], hand |-> 0]

\* How far slot i is from the hand, in the direction the hand moves.
Ahead(s, i) == (i - s.hand) % Cardinality(DOMAIN s.slot)

\* The slot of S the hand reaches first.
FirstOf(s, S) == CHOOSE i \in S : \A j \in S : Ahead(s, i) <= Ahead(s, j)

Victims(s) == {i \in DOMAIN s.slot : s.slot[i] # NoKey /\ s.count[i] = 0}
Free(s) == {i \in DOMAIN s.slot : s.slot[i] = NoKey}

\* The used slots the hand passes before it reaches a victim lose one use.
SecondChances(s) ==
    [i \in DOMAIN s.slot |->
        IF /\ s.slot[i] # NoKey
           /\ \A v \in Victims(s) : Ahead(s, i) < Ahead(s, v)
        THEN s.count[i] - 1 ELSE s.count[i]]

clockEvict(cap, s) ==
    IF cap = 0 THEN NothingEvicted(s)
    ELSE IF Victims(s) = {} THEN NothingEvicted([s EXCEPT !.count = SecondChances(s)])
    ELSE LET v == FirstOf(s, Victims(s))
         IN  Evicted(s.slot[v], [slot |-> [s.slot EXCEPT ![v] = NoKey],
                                 count |-> SecondChances(s), hand |-> v])

updateIfExists(s, k) ==
    [s EXCEPT !.count = [i \in DOMAIN @ |-> IF s.slot[i] = k THEN @[i] + 1 ELSE @[i]]]

\* Puts k in slot i with one use and moves the hand past it.
PutAt(s, i, k) ==
    [s EXCEPT !.slot[i] = k, !.count[i] = 1,
              !.hand = (i + 1) % Cardinality(DOMAIN s.slot)]

tryInsertInFreeSlot(s, k) == PutAt(s, FirstOf(s, Free(s)), k)

evictAndInsert(s, k) ==
    LET passed == [s EXCEPT !.count = SecondChances(s)]
    IN  IF Victims(s) = {} THEN passed
        ELSE PutAt(passed, FirstOf(s, Victims(s)), k)

clockSet(cap, s, k) ==
    IF cap = 0 THEN s
    ELSE IF k \in Range(s.slot) THEN updateIfExists(s, k)
    ELSE IF Free(s) # {} THEN tryInsertInFreeSlot(s, k)
    ELSE evictAndInsert(s, k)

clockDelete(s, k) ==
    [s EXCEPT !.slot = [i \in DOMAIN @ |-> IF @[i] = k THEN NoKey ELSE @[i]],
              !.count = [i \in DOMAIN @ |-> IF s.slot[i] = k THEN 0 ELSE @[i]]]

-----------------------------------------------------------------------------
(***************************************************************************)
(* The algorithm interface, by name, as NewAlgorithm selects it.           *)
(***************************************************************************)
NewAlgorithm(name, cap) ==
    CASE name = "lru" -> NewLRUAlgorithm
      [] name = "cawolfu" -> NewCAWOLFU
      [] name = "lfu" -> NewLFUAlgorithm
      [] name = "clock" -> NewClockAlgorithm(cap)

algSet(name, cap, s, k) ==
    CASE name = "lru" -> lruSet(cap, s, k)
      [] name = "cawolfu" -> cawolfuSet(cap, s, k)
      [] name = "lfu" -> lfuSet(cap, s, k)
      [] name = "clock" -> clockSet(cap, s, k)

algEvict(name, cap, s) ==
    CASE name = "lru" -> lruEvict(cap, s)
      [] name = "cawolfu" -> cawolfuEvict(cap, s)
      [] name = "lfu" -> lfuEvict(cap, s)
      [] name = "clock" -> clockEvict(cap, s)

algDelete(name, s, k) ==
    CASE name = "lru" -> lruDelete(s, k)
      [] name = "cawolfu" -> cawolfuDelete(s, k)
      [] name = "lfu" -> lfuDelete(s, k)
      [] name = "clock" -> clockDelete(s, k)

algTracked(name, s) ==
    CASE name \in {"lru", "cawolfu"} -> Range(s)
      [] name = "lfu" -> Range(s.last)
      [] name = "clock" -> Range(s.slot) \ {NoKey}

-----------------------------------------------------------------------------
(***************************************************************************)
(* Sharded: a key always goes to the shard of its hash; Evict starts at    *)
(* the shard after the one it started at last and takes the first victim.  *)
(* The cursor is an atomic uint32 and the shard count a power of two, so   *)
(* it is kept modulo the count.  An unsharded cache has one shard.         *)
(***************************************************************************)
\* ceil(total / shards), the capacity of each shard
perShard(total, n) == (total + n - 1) \div n

NewSharded(name, total, n) ==
    [name |-> name, cap |-> perShard(total, n), cursor |-> 0,
     shards |-> [i \in 0..(n - 1) |-> NewAlgorithm(name, perShard(total, n))]]

shardFor(e, k) == ShardOf[k] % Cardinality(DOMAIN e.shards)

shardedSet(e, k) ==
    [e EXCEPT !.shards[shardFor(e, k)] = algSet(e.name, e.cap, @, k)]

shardedDelete(e, k) ==
    [e EXCEPT !.shards[shardFor(e, k)] = algDelete(e.name, @, k)]

\* Every shard the search visits runs its own Evict, so a clock that has
\* nothing to give still loses one use per slot on the way.
shardedEvict(e) ==
    LET n == Cardinality(DOMAIN e.shards)
        idx(i) == (e.cursor + i) % n
        try(i) == algEvict(e.name, e.cap, e.shards[idx(i)])
        hits == {i \in 0..(n - 1) : try(i).ok}
        stop == IF hits = {} THEN n - 1 ELSE Min(hits)
        after == [e EXCEPT
                    !.cursor = (@ + 1) % n,
                    !.shards = [x \in DOMAIN @ |->
                        IF \E i \in 0..stop : idx(i) = x
                        THEN algEvict(e.name, e.cap, @[x]).st ELSE @[x]]]
    IN  IF hits = {} THEN NothingEvicted(after)
        ELSE Evicted(try(stop).key, after)

Tracked(e) == UNION {algTracked(e.name, e.shards[i]) : i \in DOMAIN e.shards}
=============================================================================
