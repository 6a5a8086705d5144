---------------------------- MODULE RemovalGrace ----------------------------
(***************************************************************************)
(* What the documentation says of the removal grace period, against what   *)
(* the rebalance loop does: beside its steps it is written down which of   *)
(* the dates in removedAt are out of date, because the node has owned the  *)
(* key since.                                                              *)
(***************************************************************************)
EXTENDS MCClusterSync

VARIABLE returned    \* <<n, k>>: n has owned k again since removedAt[n][k]

Marked(n, k) == removedAt[n][k] # "none"

Record ==
    returned' = {nk \in Nodes \X Keys :
        Marked(nk[1], nk[2])' /\ (nk \in returned \/ ownsKeyInternal(nk[1], nk[2])')}

GraceSpec == Init /\ returned = {} /\ [][Next /\ Record]_<<vars, returned>>

(***************************************************************************)
(* With WithDistRemovalGrace a node keeps a key it no longer owns for the  *)
(* grace period before it deletes it (docs/distributed.md).  It does not:  *)
(* nothing takes the date out of removedAt when the node owns the key      *)
(* again, so the next time it loses the key the old date counts, and the   *)
(* copy goes before its grace is over.                                     *)
(***************************************************************************)
GraceBeforeShedding ==
    [][\A n \in Nodes, k \in Keys :
          /\ Marked(n, k) /\ ~Marked(n, k)'
          /\ Present(items[n][k]) /\ ~Present(items'[n][k])
          => <<n, k>> \notin returned]_<<vars, returned>>

\* The new owner joins, is dropped and comes back.
GraceScenarios == {[Flap EXCEPT !.grace = TRUE]}
=============================================================================
