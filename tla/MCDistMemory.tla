---------------------------- MODULE MCDistMemory ----------------------------
(***************************************************************************)
(* Small clusters for TLC.  Three nodes; the ring gives key k the owners   *)
(* 1, 2, 3 (every node replicates it) or 1, 2 (node 3 is a pure client).   *)
(***************************************************************************)
EXTENDS DistMemory, TLC

CONSTANTS k, p1, p2

MCNodes == 1..3
MCKeys == {k}
MCProcs == {p1, p2}
MCOneProc == {p1}
MCOwners3 == (k :> <<1, 2, 3>>)
MCOwners2 == (k :> <<1, 2>>)

MCSymmetry == Permutations(MCProcs)
=============================================================================
