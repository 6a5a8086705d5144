----------------------------- MODULE KeyListing -----------------------------
(***************************************************************************)
(* ListKeys (pkg/backend/dist_keys.go): one node asks every alive member   *)
(* at once for its keys and merges the answers up to a maximum, while the  *)
(* keys may be moving.                                                     *)
(***************************************************************************)
EXTENDS ClusterStore

CONSTANTS Lister,      \* the node that lists
          MaxResults   \* the caller's maximum

ASSUME ListAssumption == Lister \in Nodes /\ MaxResults \in Nat \ {0}

VARIABLES listing,   \* the call in progress, or its result
          steady     \* <<node, key>>: held by that node since the call began

listVars == <<listing, steady>>

\* peers: still to answer; dedup, partial, truncated: the accumulator.
ListInit ==
    /\ listing = [pc |-> "idle", peers |-> {}, dedup |-> {}, partial |-> {},
                  truncated |-> FALSE]
    /\ steady = {}

localMatchingKeys(n) == {k \in Keys : Present(items[n][k])}

ListKeys ==
    /\ Running("list") /\ listing.pc = "idle"
    /\ listing' = [listing EXCEPT !.pc = "collect", !.peers = members[Lister]]
    /\ UNCHANGED clusterVars

\* Keys arrive in any order; the first that finds the set full ends the merge,
\* one that is in it already included.
tryAdd(acc, K) ==
    {[acc EXCEPT !.dedup = @ \cup A, !.truncated = @ \/ A # K] :
        A \in {B \in SUBSET K :
            \/ B # K /\ Cardinality(acc.dedup \cup B) = MaxResults
            \/ B = K /\ (K = {} \/ \E k \in K :
                              Cardinality(acc.dedup \cup (K \ {k})) < MaxResults)}}

\* Mutant: a peer that fails is passed over in silence.
collectPeerKeys_Silent(p) ==
    /\ listing.pc = "collect" /\ p \in listing.peers
    /\ \E D \in Drops({p} \ {Lister}) : \E acc \in tryAdd(listing, localMatchingKeys(p)) :
         /\ listing' = [(IF D = {} THEN acc ELSE listing) EXCEPT !.peers = @ \ {p}]
         /\ Dropped(D)
    /\ UNCHANGED <<scenario, membershipVars, shardVars, deleteVars, versionCounter,
                   hintVars, refused>>
collectPeerKeys(p) ==
    /\ listing.pc = "collect" /\ p \in listing.peers
    /\ \E D \in Drops({p} \ {Lister}) : \E acc \in tryAdd(listing, localMatchingKeys(p)) :
         /\ listing' = [(IF D = {} THEN acc
                         ELSE [listing EXCEPT !.partial = @ \cup {p}]) EXCEPT
                           !.peers = @ \ {p}]
         /\ Dropped(D)
    /\ UNCHANGED <<scenario, membershipVars, shardVars, deleteVars, versionCounter,
                   hintVars, refused>>

result ==
    /\ listing.pc = "collect" /\ listing.peers = {}
    /\ listing' = [listing EXCEPT !.pc = "done"]
    /\ UNCHANGED clusterVars

\* What is still where it was when the call began; fixed once it has ended.
Watch ==
    steady' = CASE listing.pc = "idle" /\ listing'.pc = "collect" ->
                     {nk \in listing'.peers \X Keys : Present(items[nk[1]][nk[2]])}
                [] listing.pc = "collect" ->
                     {nk \in steady : Present(items'[nk[1]][nk[2]])}
                [] OTHER -> steady

ListStep == ListKeys \/ (\E p \in Nodes : collectPeerKeys(p)) \/ result

ListTypeOK ==
    /\ listing \in [pc : {"idle", "collect", "done"}, peers : SUBSET Nodes,
                    dedup : SUBSET Keys, partial : SUBSET Nodes, truncated : BOOLEAN]
    /\ steady \subseteq Nodes \X Keys
=============================================================================
