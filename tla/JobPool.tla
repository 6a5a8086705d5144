------------------------------ MODULE JobPool ------------------------------
(***************************************************************************)
(* What the worker pool promises its users (the comments of pool.go):      *)
(* a job is accepted until Shutdown, an accepted job is finished once, and *)
(* Shutdown returns after every accepted job has finished, never before.   *)
(* WorkerPool is the implementation.                                       *)
(***************************************************************************)
EXTENDS Integers

VARIABLES pending,    \* accepted and unfinished jobs
          closed,     \* Shutdown has been called
          returned    \* Shutdown has returned

poolVars == <<pending, closed, returned>>

Init == pending = 0 /\ closed = FALSE /\ returned = FALSE

Accept == ~closed /\ pending' = pending + 1 /\ UNCHANGED <<closed, returned>>

Finish == pending > 0 /\ pending' = pending - 1 /\ UNCHANGED <<closed, returned>>

Close == ~closed /\ closed' = TRUE /\ UNCHANGED <<pending, returned>>

Return ==
    /\ closed /\ pending = 0 /\ ~returned
    /\ returned' = TRUE
    /\ UNCHANGED <<pending, closed>>

Next == Accept \/ Finish \/ Close \/ Return

Spec == Init /\ [][Next]_poolVars
=============================================================================
