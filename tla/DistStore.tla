----------------------------- MODULE DistStore -----------------------------
(***************************************************************************)
(* The per-node store of the distributed backend (pkg/backend/             *)
(* dist_memory.go): the items and tombstones every node keeps, the two     *)
(* counters it stamps them from, and the rules the write, read, repair and *)
(* anti-entropy paths share (which copy is newer, how many                 *)
(* acknowledgements a consistency level asks for, who owns a key).         *)
(*                                                                         *)
(* A node is a positive integer, so that the lexicographic order the code  *)
(* uses on node identifiers is <; the empty origin "" of an item nobody    *)
(* has stamped is 0, smaller than every node.                              *)
(***************************************************************************)
EXTENDS Integers, FiniteSets, SequencesExt

CONSTANTS Nodes,     \* the cluster's nodes
          Keys,      \* the keys clients use
          Owners     \* Owners[k]: the ring's answer for k, primary first

ASSUME NodesAssumption == Nodes \subseteq Nat \ {0} /\ IsFiniteSet(Nodes)

ASSUME OwnersAssumption ==
    /\ Keys # {}
    /\ Owners \in [Keys -> Seq(Nodes)]
    /\ \A k \in Keys : /\ Owners[k] # <<>>
                       /\ \A i, j \in DOMAIN Owners[k] :
                            Owners[k][i] = Owners[k][j] => i = j

VARIABLES items,               \* items[n][k]: n's copy of k, or NoItem
          tombs,               \* tombs[n][k]: n's tombstone of k, or NoTomb
          versionCounter,      \* versionCounter[n]: last version n assigned
          tombVersionCounter   \* the same for deletes of absent keys

storeVars == <<items, tombs, versionCounter, tombVersionCounter>>

-----------------------------------------------------------------------------
(***************************************************************************)
(* A value is the number of the write that produced it, so two copies hold *)
(* the same data exactly when their val is equal; 0 is no data.            *)
(***************************************************************************)
Item == [val : Nat, version : Nat, origin : Nat]
NoItem == [val |-> 0, version |-> 0, origin |-> 0]
Present(it) == it.val # 0

Tomb == [version : Nat, origin : Nat]
NoTomb == [version |-> 0, origin |-> 0]

StoreTypeOK ==
    /\ items \in [Nodes -> [Keys -> Item]]
    /\ tombs \in [Nodes -> [Keys -> Tomb]]
    /\ versionCounter \in [Nodes -> Nat]
    /\ tombVersionCounter \in [Nodes -> Nat]

StoreInit ==
    /\ items = [n \in Nodes |-> [k \in Keys |-> NoItem]]
    /\ tombs = [n \in Nodes |-> [k \in Keys |-> NoTomb]]
    /\ versionCounter = [n \in Nodes |-> 0]
    /\ tombVersionCounter = [n \in Nodes |-> 0]

primary(k) == Head(Owners[k])

\* ownsKeyInternal on a ring that is never empty.
ownsKeyInternal(n, k) == n \in Range(Owners[k])

replicas(k) == Range(Tail(Owners[k]))

\* o comes before every other member of S in k's owner list: the next one a
\* loop over the owners reaches when S is what is left of it.
IsNext(o, k, S) ==
    /\ o \in S
    /\ \A i, j \in DOMAIN Owners[k] :
         Owners[k][i] = o /\ Owners[k][j] \in S => i <= j

requiredAcks(total, lvl) ==
    CASE lvl = "ALL"    -> total
      [] lvl = "QUORUM" -> (total \div 2) + 1
      [] OTHER          -> 1

\* The order of last-write-wins: higher version, then smaller origin.
Newer(b, a) ==
    \/ b.version > a.version
    \/ b.version = a.version /\ b.origin < a.origin

chooseNewer(a, b) ==
    IF ~Present(a) THEN b
    ELSE IF Present(b) /\ Newer(b, a) THEN b ELSE a

-----------------------------------------------------------------------------
(***************************************************************************)
(* The two ways a store changes.  applySet compares nothing: the copy it   *)
(* is given replaces the one it holds, and no tombstone is consulted or    *)
(* cleared.  applyRemove stamps its tombstone one above the copy it        *)
(* deletes, or from tombVersionCounter when there is none.                 *)
(***************************************************************************)
applySet(n, k, it) ==
    /\ items' = [items EXCEPT ![n][k] = it]
    /\ UNCHANGED <<tombs, tombVersionCounter>>

\* The arrival of a forwarded copy: dropped, and still answered with
\* success, by a node that does not own the key.
applyForwardedSet(n, k, it) ==
    IF ownsKeyInternal(n, k)
    THEN applySet(n, k, it)
    ELSE UNCHANGED <<items, tombs, tombVersionCounter>>

applyRemove(n, k) ==
    LET absent == ~Present(items[n][k])
        nextVer == IF absent THEN tombVersionCounter[n] + 1
                             ELSE items[n][k].version + 1
    IN  /\ items' = [items EXCEPT ![n][k] = NoItem]
        /\ tombs' = [tombs EXCEPT ![n][k] = [version |-> nextVer, origin |-> n]]
        /\ tombVersionCounter' =
             [tombVersionCounter EXCEPT ![n] = IF absent THEN @ + 1 ELSE @]
=============================================================================
