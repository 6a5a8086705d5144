---------------------------- MODULE MCHintQueue ----------------------------
(***************************************************************************)
(* Two or three targets and one or two writers for TLC.                    *)
(***************************************************************************)
EXTENDS HintQueue, TLC

CONSTANTS t1, t2, t3, w1, w2

MCTwoTargets == {t1, t2}
MCThreeTargets == {t1, t2, t3}
MCTwoWriters == {w1, w2}
MCOneWriter == {w1}
=============================================================================
