----------------------------- MODULE ServerNode -----------------------------
(***************************************************************************)
(* The life of a hypercache-server process (cmd/hypercache-server/main.go: *)
(* run, awaitShutdown; hypercache.go: Stop; management_http.go: Shutdown). *)
(* A signal drains the distributed backend, closes the client API, stops   *)
(* the cache, which waits for its worker pool, and last the management     *)
(* server, whose streams are told before they are waited for.  The         *)
(* deadline of the sequence (30 s) is left out: the question is whether it *)
(* comes to an end without it, and the wait for the pool does not know of  *)
(* it.                                                                     *)
(*                                                                         *)
(* WorkerPool has the pool's channels and locks and HyperCache its jobs;   *)
(* here a job is one that may fail, because its Remove does.               *)
(***************************************************************************)
EXTENDS Integers, FiniteSets, Sequences

CONSTANTS Nodes,      \* the servers
          Scenarios,  \* the deployments to choose from
          PoolSize    \* workers of a server's pool, and the room in errorChan

ASSUME PoolAssumption == PoolSize \in Nat \ {0}

VARIABLES scenario, left,   \* the scenario, and what is left of its bounds
          phase,            \* phase[n]: how far n's shutdown has come
          arrived,          \* arrived[n]: requests being served by n's client API
          open,             \* open[n]: streams n's management server is serving
          pool              \* pool[n]: n's worker pool

nodeVars == <<scenario, left, phase, arrived, open, pool>>

Phase == {"serving", "draining", "closing", "stopping", "stopped", "canceled", "exited",
          "down"}

\* pending: jobs queued or running; errs: errors in errorChan; stuck: workers
\* that wait to put one there.
EmptyPool == [pending |-> 0, errs |-> 0, stuck |-> 0]

Bounds == {"signals", "crashes", "faults", "changes", "beats", "jobs"}
Spend(b) == left[b] > 0 /\ left' = [left EXCEPT ![b] = @ - 1]

Listening(n) == phase[n] \in {"serving", "draining"}
Managing(n) == phase[n] \in {"serving", "draining", "closing", "stopping", "stopped"}
Running(n) == phase[n] \notin {"exited", "down"}

run ==
    /\ scenario \in Scenarios
    /\ left = [b \in Bounds |-> scenario[b]]
    /\ phase = [n \in Nodes |-> "serving"]
    /\ arrived = [n \in Nodes |-> {}]
    /\ open = [n \in Nodes |-> {}]
    /\ pool = [n \in Nodes |-> EmptyPool]

Reach(n, from, to) == phase[n] = from /\ phase' = [phase EXCEPT ![n] = to]

\* SIGTERM, and DistDrain.
DistDrain(n) ==
    /\ Spend("signals")
    /\ Reach(n, "serving", "draining")
    /\ UNCHANGED <<scenario, arrived, open, pool>>

\* apiApp.ShutdownWithContext: the listener first, then what is being served.
CloseApi(n) ==
    /\ Reach(n, "draining", "closing")
    /\ UNCHANGED <<scenario, left, arrived, open, pool>>
ApiClosed(n) ==
    /\ Reach(n, "closing", "stopping") /\ arrived[n] = {}
    /\ UNCHANGED <<scenario, left, arrived, open, pool>>

\* The background loops hand over a job, until Stop has told them to end.
HandOver(n) ==
    /\ phase[n] \in {"serving", "draining", "closing", "stopping"} /\ Spend("jobs")
    /\ pool' = [pool EXCEPT ![n].pending = @ + 1]
    /\ UNCHANGED <<scenario, phase, arrived, open>>

\* A worker's job returns.  Its Remove is refused once the node drains, and may
\* fail before; the error waits for room in errorChan, which nobody reads.
JobReturns(n) ==
    /\ Running(n) /\ pool[n].pending > 0 /\ pool[n].stuck < PoolSize
    /\ \/ pool' = [pool EXCEPT ![n].pending = @ - 1] /\ UNCHANGED left
       \/ /\ \/ phase[n] # "serving" /\ UNCHANGED left
             \/ phase[n] = "serving" /\ Spend("faults")
          /\ pool' = [pool EXCEPT ![n].pending = @ - 1,
                ![n].errs = IF @ < PoolSize THEN @ + 1 ELSE @,
                ![n].stuck = IF pool[n].errs < PoolSize THEN @ ELSE @ + 1]
    /\ UNCHANGED <<scenario, phase, arrived, open>>

\* hc.Stop: workerPool.Shutdown waits for every job, without a deadline; then
\* mgmtHTTP.Shutdown cancels the server's context ...
Stop(n) ==
    /\ Reach(n, "stopping", "stopped") /\ pool[n].pending = 0 /\ pool[n].stuck = 0
    /\ UNCHANGED <<scenario, left, arrived, open, pool>>
\* Mutant: the context is canceled once everything has been served.
CancelStreams_Last(n) ==
    /\ Reach(n, "stopped", "canceled") /\ open[n] = {}
    /\ UNCHANGED <<scenario, left, arrived, open, pool>>
CancelStreams(n) ==
    /\ Reach(n, "stopped", "canceled")
    /\ UNCHANGED <<scenario, left, arrived, open, pool>>
\* ... and waits for what it is serving.
MgmtClosed(n) ==
    /\ Reach(n, "canceled", "exited") /\ open[n] = {}
    /\ UNCHANGED <<scenario, left, arrived, open, pool>>

awaitShutdown(n) ==
    CloseApi(n) \/ ApiClosed(n) \/ Stop(n) \/ CancelStreams(n) \/ MgmtClosed(n)

\* The process dies, with what it was serving.
Crash(n) ==
    /\ Spend("crashes") /\ Running(n)
    /\ phase' = [phase EXCEPT ![n] = "down"]
    /\ arrived' = [arrived EXCEPT ![n] = {}]
    /\ open' = [open EXCEPT ![n] = {}]
    /\ pool' = [pool EXCEPT ![n] = EmptyPool]
    /\ UNCHANGED scenario
=============================================================================
