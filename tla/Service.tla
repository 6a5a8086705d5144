------------------------------ MODULE Service -------------------------------
(***************************************************************************)
(* A deployment of hypercache-server processes, a client that fails over   *)
(* between them, and the event streams of one of them, while processes are *)
(* told to stop, die, time out and fail writes.                            *)
(***************************************************************************)
EXTENDS ClientApi, ClusterEvents, Functions

vars == <<nodeVars, apiVars, eventVars>>

ASSUME ScenarioAssumption ==
    \A s \in Scenarios :
        /\ s.seeds \subseteq Nodes /\ s.seeds # {}
        /\ s.calls \in Seq([op : Ops, cred : Credential, keys : Seq(Keys), depth : Nat])
        /\ \A c \in DOMAIN s.calls :
               s.calls[c].op \in {"me", "can", "refresh"} => s.calls[c].keys = <<>>
        /\ s.streams \subseteq Streams
        /\ s.membersRoute \in BOOLEAN /\ s.leaving \in BOOLEAN
        /\ \A b \in Bounds : s[b] \in Nat

Init == run /\ NewClient /\ EventsInit

Process(A) ==
    /\ A
    /\ UNCHANGED <<endpoints, refreshing, call, work, reply, store, applied, eventVars>>
    /\ Soundness
Api(A) == A /\ Soundness /\ UNCHANGED eventVars
Events(A) == A /\ UNCHANGED apiVars

\* What the processes and the client do of themselves.
System ==
    \/ \E n \in Nodes : Process(awaitShutdown(n)) \/ Process(JobReturns(n))
    \/ \E c \in Calls : Api(ClientStep(c)) \/ \E n \in Nodes : Api(Serve(c, n))
    \/ Api(CloseReturns)
    \/ Events(EventStep)

\* What is asked of them, and what befalls them.
Environment ==
    \/ \E n \in Nodes : Process(DistDrain(n)) \/ Process(Crash(n)) \/ Process(HandOver(n))
    \/ \E c \in Calls : Api(do(c)) \/ Api(Timeout(c))
    \/ Api(Close)
    \/ Events(Mutate) \/ Events(heartbeatTick)
    \/ \E s \in scenario.streams : Events(Connect(s)) \/ Events(Leave(s))

Next == System \/ Environment

Spec == Init /\ [][Next]_vars

(***************************************************************************)
(* Every goroutine that can go on does: handlers end, writes to a stream   *)
(* return, the client waits no longer than its timeout, and no step can be *)
(* repeated for ever.  Signals, crashes, callers and membership changes    *)
(* owe nothing.                                                            *)
(***************************************************************************)
Accepted == \E s \in Streams : stream[s].pc # "off" /\ Events(Connect(s))
FairSpec == Spec /\ WF_vars(System \/ Accepted)

-----------------------------------------------------------------------------
(***************************************************************************)
(* What the SDK reports is what happened, over every retry, timeout, crash *)
(* and drain on the way: a key written with success was written, a call    *)
(* turned away has changed nothing at any endpoint it tried, a value read  *)
(* is, byte for byte, one that was put for that key, by whichever node and *)
(* in whichever representation it was found, and Can says what the server  *)
(* would do.                                                               *)
(***************************************************************************)
AnswersTrue ==
    \A c \in Calls : call[c].pc = "done" =>
        LET r == call[c].out
        IN  /\ Op(c) \in Writes /\ r.status = 200 =>
                 \A k \in Range(Wanted(c)) : r.codes[k] = "" => <<c, k>> \in applied
            /\ r.status \in 400..499 => \A k \in Keys : <<c, k>> \notin applied
            /\ \A k \in Keys : r.got[k] # NoBody =>
                 r.got[k].of \in Calls /\ r.got[k] = BodyOf(r.got[k].of)
                 /\ <<r.got[k].of, k>> \in applied
            /\ Op(c) = "can" /\ r.status = 200 => r.yes = (Verify(Cred(c), "write") = 200)

(***************************************************************************)
(* A call fails for want of a server only if there was none: as long as    *)
(* one endpoint of the view it started with served all along, without a    *)
(* timeout and without failing the write, the call does not end with a     *)
(* server's or a transport error.  (A batch is final once any endpoint has *)
(* answered it: a key it says is DRAINING is not tried elsewhere.  And one *)
(* context covers all the attempts of a call, so a slow endpoint may use   *)
(* up its time: here that is a timeout at each endpoint still to be        *)
(* tried, which is no longer one that served.)                             *)
(***************************************************************************)
HealthyEndpointAnswers ==
    \A c \in Calls : call[c].pc = "done" /\ call[c].out.status >= 500 => sound[c] = {}

(***************************************************************************)
(* A stream that stays connected ends up showing the members as they are:  *)
(* the change that comes between its first snapshot and its subscription   *)
(* is not lost.  Outside are a subscriber that was full when an event came *)
(* (it is dropped and nothing follows it), and changes that overlap, since *)
(* each takes its snapshot outside the lock and the older one may be       *)
(* published last.                                                         *)
(***************************************************************************)
StreamCatchesUp ==
    <>[](Running(Host) /\ ~overlapped =>
            \A s \in Streams :
                stream[s].pc = "streaming" /\ ~stream[s].dropped /\ ~stream[s].gone =>
                    stream[s].shown = version)

(***************************************************************************)
(* A process that was told to stop comes to the end of its shutdown        *)
(* without the help of the deadline, although event streams never end by   *)
(* themselves, requests and jobs are in flight and clients leave or stay.  *)
(* Outside is a worker that waits on a full errorChan: jobs that drain     *)
(* fail with ErrDraining, nobody reads the channel, and Stop waits for the *)
(* worker for ever, deadline or not (HyperCache, StopIsBounded).           *)
(***************************************************************************)
Hung(n) == phase[n] = "stopping" /\ pool[n].stuck > 0
ShutdownCompletes ==
    <>[](\A n \in Nodes : phase[n] \in {"serving", "exited", "down"} \/ Hung(n))
=============================================================================
