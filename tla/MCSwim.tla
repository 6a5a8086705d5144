------------------------------- MODULE MCSwim -------------------------------
(***************************************************************************)
(* Three nodes for TLC; which of them probe, gossip and run varies.        *)
(***************************************************************************)
EXTENDS Swim, TLC

CONSTANTS n1, n2, n3

MCNodes == {n1, n2, n3}
MCTwo == {n1, n2}
MCOne == {n1}

\* Every node is configured with all others.
MCFull == [n \in MCNodes |-> MCNodes \ {n}]

\* The last node is configured with the first one only.
MCJoin == [MCFull EXCEPT ![n3] = {n1}]
=============================================================================
