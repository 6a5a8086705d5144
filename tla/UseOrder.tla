------------------------------ MODULE UseOrder ------------------------------
(***************************************************************************)
(* What the documentation says of the order of eviction, against what      *)
(* HyperCache does: the uses of the keys are written down beside its       *)
(* steps, a Set where the algorithm is told of it (Track) and a read where *)
(* the item is touched (TouchItem), which the algorithm never hears of.    *)
(***************************************************************************)
EXTENDS MCHyperCache

VARIABLE uses    \* the uses of the keys the algorithm tracks, oldest first

\* The step is c's use of a key.
UsesKey(c) == call[c].pc \in {"track", "touch"} /\ call'[c].pc # call[c].pc

Record ==
    LET new == {[key |-> call[c].key, by |-> call[c].pc] : c \in {d \in Clients : UsesKey(d)}}
        tracked(u) == u.key \in Tracked(ev')
    IN  uses' = SelectSeq(uses \o SetToSeq(new), tracked)

UseSpec == New /\ uses = <<>> /\ [][Next /\ Record]_<<vars, uses>>

\* The last use of k, and how often k was set.
LastUse(k) == Max({0} \cup {i \in DOMAIN uses : uses[i].key = k})
Sets(k) == Cardinality({i \in DOMAIN uses : uses[i] = [key |-> k, by |-> "track"]})

\* p takes k out, and no two operations have ever overlapped.
Evicts(p, k) == at(p, "evict") /\ k \in call'[p].keys /\ ~disturbed'
Others(k) == {o \in Tracked(ev) \ {k} : shardFor(ev, o) = shardFor(ev, k)}

(***************************************************************************)
(* LRU evicts the least recently used key (README.md, the comment on       *)
(* lru.Evict), and a read is a use (hypercache.go, on touchBackend).  It   *)
(* does not: no Get of HyperCache calls the algorithm's Get, so the key    *)
(* that was set first goes, however recently it was read.                  *)
(***************************************************************************)
EvictsLeastRecentlyUsed ==
    [][\A p \in Procs, k \in Keys :
          config.alg = "lru" /\ Evicts(p, k) =>
              \A o \in Others(k) : LastUse(k) < LastUse(o)]_<<vars, uses>>

(***************************************************************************)
(* CAWOLFU is an LFU (README.md) that keeps the most frequently used keys  *)
(* at the front of its list (cawolfu.go).  It does not: Set counts, but    *)
(* moves a key to the front whatever its count, and Evict takes the tail,  *)
(* so a key set often goes before one that was set once, later.            *)
(***************************************************************************)
EvictsLeastFrequentlySet ==
    [][\A p \in Procs, k \in Keys :
          config.alg = "cawolfu" /\ Evicts(p, k) =>
              \A o \in Others(k) : Sets(k) <= Sets(o)]_<<vars, uses>>

\* The eviction loop runs, so that a read fits between two Sets and an eviction.
LruConfigs ==
    [alg : {"lru"}, shards : {1}, maxEvict : {2}, maxSize : {0},
     interval : {TRUE}, ticker : {FALSE}, debounce : {FALSE}, calls : {3}, stops : {FALSE}]
CawolfuConfigs ==
    [alg : {"cawolfu"}, shards : {1}, maxEvict : {2}, maxSize : {0},
     interval : {FALSE}, ticker : {FALSE}, debounce : {FALSE}, calls : {3}, stops : {FALSE}]
=============================================================================
