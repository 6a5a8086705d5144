----------------------------- MODULE WorkerPool -----------------------------
(***************************************************************************)
(* The worker pool of HyperCache (pool.go): the bounded job channel, the   *)
(* read-write lock that orders Enqueue against Shutdown, the wait group,   *)
(* the error channel nobody in HyperCache reads, and the workers.          *)
(*                                                                         *)
(* Enqueue holds the read lock while it blocks on a full channel, so a     *)
(* goroutine between its wg.Add and the end of its send is a `sender`.     *)
(* Which jobs there are and what they do belongs to the module that        *)
(* extends this one.                                                       *)
(***************************************************************************)
EXTENDS Integers, Sequences, FiniteSets

CONSTANTS Workers,    \* the worker goroutines; both channels hold as many
          Senders,    \* the goroutines that call Enqueue
          NoJob       \* "no job"

ASSUME PoolAssumption == IsFiniteSet(Workers) /\ Workers # {}

VARIABLES jobs,       \* the job channel
          sender,     \* sender[p]: the job p holds the read lock for, or NoJob
          wg,         \* the wait group's counter
          errs,       \* errors in errorChan
          worker,     \* worker[w]: "idle", "run", "err" or "gone"
          shutdown    \* "open", "locking", "closed" or "returned"

poolVars == <<jobs, sender, wg, errs, worker, shutdown>>

Buffer == Cardinality(Workers)
closed == shutdown \in {"closed", "returned"}

PoolTypeOK ==
    /\ Len(jobs) <= Buffer
    /\ wg \in Nat
    /\ errs \in 0..Buffer
    /\ worker \in [Workers -> {"idle", "run", "err", "gone"}]
    /\ shutdown \in {"open", "locking", "closed", "returned"}
    /\ DOMAIN sender = Senders

NewWorkerPool ==
    /\ jobs = <<>>
    /\ sender = [p \in Senders |-> NoJob]
    /\ wg = 0
    /\ errs = 0
    /\ worker = [w \in Workers |-> "idle"]
    /\ shutdown = "open"

-----------------------------------------------------------------------------
\* Mutant: closed is tested, but the lock is not held for the send.
Enqueue_NoLock(p, job) ==
    /\ sender[p] = NoJob
    /\ sender' = [sender EXCEPT ![p] = job]
    /\ wg' = wg + 1
    /\ UNCHANGED <<jobs, errs, worker, shutdown>>

\* The read lock is granted while no writer holds or waits for it.
Enqueue(p, job) ==
    /\ sender[p] = NoJob
    /\ shutdown # "locking"
    /\ IF closed THEN UNCHANGED <<sender, wg>>
       ELSE /\ sender' = [sender EXCEPT ![p] = job]
            /\ wg' = wg + 1
    /\ UNCHANGED <<jobs, errs, worker, shutdown>>

\* Mutant: the channel is not bounded.
EnqueueSend_Unbounded(p) ==
    /\ sender[p] # NoJob
    /\ jobs' = Append(jobs, sender[p])
    /\ sender' = [sender EXCEPT ![p] = NoJob]
    /\ UNCHANGED <<wg, errs, worker, shutdown>>

EnqueueSend(p) ==
    /\ sender[p] # NoJob
    /\ Len(jobs) < Buffer
    /\ jobs' = Append(jobs, sender[p])
    /\ sender' = [sender EXCEPT ![p] = NoJob]
    /\ UNCHANGED <<wg, errs, worker, shutdown>>

-----------------------------------------------------------------------------
\* A worker takes the next job; it leaves when the channel is closed and
\* drained, or when quit is closed.
WorkerTakes(w) ==
    /\ worker[w] = "idle" /\ jobs # <<>>
    /\ jobs' = Tail(jobs)
    /\ worker' = [worker EXCEPT ![w] = "run"]
    /\ UNCHANGED <<sender, wg, errs, shutdown>>

WorkerLeaves(w) ==
    /\ worker[w] = "idle"
    /\ \/ closed /\ jobs = <<>>
       \/ shutdown = "returned"
    /\ worker' = [worker EXCEPT ![w] = "gone"]
    /\ UNCHANGED <<jobs, sender, wg, errs, shutdown>>

\* The job function has returned: nil, or an error to report first.
JobReturns(w, failed) ==
    /\ worker' = [worker EXCEPT ![w] = IF failed THEN "err" ELSE "idle"]
    /\ wg' = IF failed THEN wg ELSE wg - 1
    /\ UNCHANGED <<jobs, sender, errs, shutdown>>

\* Mutant: the error path goes back to the loop without wg.Done.
ReportError_NoDone(w) ==
    /\ worker[w] = "err"
    /\ errs < Buffer
    /\ errs' = errs + 1
    /\ worker' = [worker EXCEPT ![w] = "idle"]
    /\ UNCHANGED <<jobs, sender, wg, shutdown>>

ReportError(w) ==
    /\ worker[w] = "err"
    /\ errs < Buffer
    /\ errs' = errs + 1
    /\ wg' = wg - 1
    /\ worker' = [worker EXCEPT ![w] = "idle"]
    /\ UNCHANGED <<jobs, sender, shutdown>>

-----------------------------------------------------------------------------
ShutdownLock ==
    /\ shutdown = "open"
    /\ shutdown' = "locking"
    /\ UNCHANGED <<jobs, sender, wg, errs, worker>>

\* The write lock is granted when no reader holds the lock.
ShutdownClose ==
    /\ shutdown = "locking"
    /\ \A p \in Senders : sender[p] = NoJob
    /\ shutdown' = "closed"
    /\ UNCHANGED <<jobs, sender, wg, errs, worker>>

\* Mutant: Shutdown waits for the channel to drain, not for the jobs.
ShutdownReturns_Drained ==
    /\ shutdown = "closed"
    /\ jobs = <<>>
    /\ shutdown' = "returned"
    /\ UNCHANGED <<jobs, sender, wg, errs, worker>>

ShutdownReturns ==
    /\ shutdown = "closed"
    /\ wg = 0
    /\ shutdown' = "returned"
    /\ UNCHANGED <<jobs, sender, wg, errs, worker>>

-----------------------------------------------------------------------------
\* Jobs between wg.Add and wg.Done, counted where they are.
Unfinished ==
    Len(jobs) + Cardinality({p \in Senders : sender[p] # NoJob})
              + Cardinality({w \in Workers : worker[w] \in {"run", "err"}})

Promise == INSTANCE JobPool WITH
    pending <- Unfinished,
    closed <- closed,
    returned <- (shutdown = "returned")

(***************************************************************************)
(* Enqueue, Shutdown and the workers implement JobPool: no job is accepted *)
(* after Shutdown has closed the pool, and Shutdown returns only when none *)
(* of the accepted jobs is queued, being sent or running.                  *)
(***************************************************************************)
ImplementsJobPool == Promise!Spec

(***************************************************************************)
(* Nobody is about to send on the job channel once it is closed, which     *)
(* would panic: the lock makes Shutdown wait for every Enqueue under way.  *)
(***************************************************************************)
NoSendOnClosed == closed => \A p \in Senders : sender[p] = NoJob

\* A worker waits for room in errorChan, and nothing will ever make room.
StuckOnErrors == \E w \in Workers : worker[w] = "err" /\ errs = Buffer
=============================================================================
