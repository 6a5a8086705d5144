---------------------------- MODULE MCHyperCache ----------------------------
(***************************************************************************)
(* One client, one worker and two keys for TLC.  Every algorithm evicts in *)
(* the caller; the two loops run with LRU, sharded and not.                *)
(***************************************************************************)
EXTENDS HyperCache, TLC

CONSTANTS c1, w1, k1, k2

MCKeys == {k1, k2}
MCShardOf == (k1 :> 2) @@ (k2 :> 3)
MCKeySets == {{k1}, {k1, k2}}
MCExpiring == {k1}
MCClients == {c1}
MCWorkers == {w1}
MCSenders == {c1, "expiration", "eviction"}
MCConfigs ==
    [alg : Algorithms, shards : {1}, maxEvict : {2}, maxSize : {0},
     interval : {FALSE}, ticker : {FALSE}, debounce : {FALSE},
          calls : {3}, stops : {FALSE}]
    \cup [alg : {"lru", "clock"}, shards : {2}, maxEvict : {0}, maxSize : {0},
          interval : {TRUE}, ticker : {FALSE}, debounce : {FALSE},
          calls : {2}, stops : {FALSE}]
    \cup [alg : {"lru"}, shards : {1}, maxEvict : {0}, maxSize : {3},
          interval : {FALSE}, ticker : {FALSE}, debounce : {FALSE},
          calls : {3}, stops : {FALSE}]
    \cup [alg : {"lru"}, shards : {1}, maxEvict : {0}, maxSize : {3},
          interval : {FALSE}, ticker : {TRUE}, debounce : {TRUE},
          calls : {2}, stops : {FALSE}]
    \cup [alg : {"lru"}, shards : {1}, maxEvict : {0}, maxSize : {3},
          interval : {FALSE}, ticker : {FALSE}, debounce : {FALSE},
          calls : {2}, stops : {TRUE}]

\* Both keys are over capacity when Stop is called.
MCStopConfigs ==
    [alg : {"lru"}, shards : {1}, maxEvict : {2}, maxSize : {0},
     interval : {TRUE}, ticker : {FALSE}, debounce : {FALSE},
     calls : {2}, stops : {TRUE}]
=============================================================================
