----------------------------- MODULE ClientApi ------------------------------
(***************************************************************************)
(* The client SDK (pkg/client) against the client API of several servers   *)
(* (cmd/hypercache-server/main.go).  A call walks the endpoints of the     *)
(* view it started with, in random order, until one gives an answer that   *)
(* is final.  A server works on a request key by key and does not know     *)
(* that the client has given up on it.                                     *)
(*                                                                         *)
(* Behind the handlers is the distributed cache of DistMemory, here one    *)
(* value per key; a value is found as the bytes put, as the base64 text    *)
(* they become on the way to another node, or as that text's raw JSON.     *)
(***************************************************************************)
EXTENDS ServerNode, ApiAuth

CONSTANT Keys

Ops == {"set", "get", "item", "delete", "me", "can", "batchSet", "batchGet",
        "batchDelete", "refresh"}
Writes == {"set", "delete", "batchSet", "batchDelete"}
Batches == {"batchSet", "batchGet", "batchDelete"}

\* A text is some bytes base64-encoded depth times over; of is the call that
\* made it, 0 if nobody.
NoBody == [of |-> 0, depth |-> 0]
Encode(t) == [t EXCEPT !.depth = @ + 1]
Decode(t) == [t EXCEPT !.depth = @ - 1]

VARIABLES endpoints,   \* the client's view
          refreshing,  \* the topology refresh loop: open, closing, closed
          call,        \* call[c]: the calls, numbered as in scenario.calls
          work,        \* work[c][n]: what n has done of c's request
          reply,       \* reply[c]: the answer on its way to the client
          store,       \* store[k]: what the cluster holds
          applied,     \* <<c, k>>: writes the cluster has taken
          sound        \* sound[c]: endpoints that nothing has ailed since c began

apiVars == <<endpoints, refreshing, call, work, reply, store, applied, sound>>

Calls == DOMAIN scenario.calls
Op(c) == scenario.calls[c].op
Cred(c) == scenario.calls[c].cred
Wanted(c) == scenario.calls[c].keys
BodyOf(c) == [of |-> c, depth |-> scenario.calls[c].depth]

\* codes: per key, "" for success; got: per key, the value on the wire; nodes:
\* the members listed; yes: the answer of can.
NoReply == [status |-> 0, codes |-> [k \in Keys |-> ""], got |-> [k \in Keys |-> NoBody],
            nodes |-> {}, yes |-> FALSE]
NoWork == [todo |-> <<>>, done |-> NoReply]

NewClient ==
    /\ endpoints = scenario.seeds
    /\ refreshing = IF \E c \in Calls : Op(c) = "refresh" THEN "open" ELSE "closed"
    /\ call = [c \in Calls |-> [pc |-> "idle", untried |-> {}, at |-> 0,
                                timedOut |-> {}, out |-> NoReply]]
    /\ work = [c \in Calls |-> [n \in Nodes |-> NoWork]]
    /\ reply = [c \in Calls |-> NoReply]
    /\ store = [k \in Keys |-> NoBody]
    /\ applied = {}
    /\ sound = [c \in Calls |-> {}]

currentEndpoints == IF endpoints = {} THEN scenario.seeds ELSE endpoints

-----------------------------------------------------------------------------
(***************************************************************************)
(* The server.                                                             *)
(***************************************************************************)
Required(op) == IF op \in Writes THEN "write" ELSE "read"

\* The value as a node finds it, and what the handlers make of it.
Carried(body) ==
    {[rep |-> "bytes", text |-> body], [rep |-> "string", text |-> Encode(body)],
     [rep |-> "raw", text |-> Encode(body)]}
\* Mutant: text is sent as it is.
itemValueAsBytes_Literal(v) == v.text
itemValueAsBytes(v) ==
    IF v.rep # "bytes" /\ v.text.depth > 0 THEN Decode(v.text) ELSE v.text

\* Everything but a plain get answers with an envelope.
buildEnvelope(v) == Encode(itemValueAsBytes(v))
writeValue(v) == itemValueAsBytes(v)
handleGet(c, v) == IF Op(c) = "get" THEN writeValue(v) ELSE buildEnvelope(v)

Did(c, n, k, code, got) ==
    LET w == work[c][n]
    IN  work' = [work EXCEPT ![c][n] =
            [todo |-> Tail(w.todo),
             done |-> [w.done EXCEPT !.codes[k] = code, !.got[k] = got]]]

handlePut(c, k) == [store EXCEPT ![k] = BodyOf(c)]
handleDelete(k) == [store EXCEPT ![k] = NoBody]

\* hc.Set and hc.Remove: refused while draining; one that fails short of its
\* quorum may have been applied.
handleWrite(c, n, k) ==
    \/ /\ phase[n] # "serving"
       /\ Did(c, n, k, "DRAINING", NoBody)
       /\ UNCHANGED <<left, store, applied>>
    \/ /\ phase[n] = "serving"
       /\ \/ Did(c, n, k, "", NoBody) /\ UNCHANGED left
          \/ Did(c, n, k, "INTERNAL", NoBody) /\ Spend("faults")
       /\ applied' = applied \cup {<<c, k>>}
       /\ store' = IF Op(c) \in {"set", "batchSet"} THEN handlePut(c, k) ELSE handleDelete(k)
    \/ /\ phase[n] = "serving"
       /\ Did(c, n, k, "INTERNAL", NoBody) /\ Spend("faults")
       /\ UNCHANGED <<store, applied>>

\* hc.GetWithInfo: a read that fails looks like a key that is not there.
handleRead(c, n, k) ==
    /\ \/ store[k] = NoBody /\ Did(c, n, k, "NOT_FOUND", NoBody) /\ UNCHANGED left
       \/ store[k] # NoBody /\ Did(c, n, k, "NOT_FOUND", NoBody) /\ Spend("faults")
       \/ /\ store[k] # NoBody
          /\ \E v \in Carried(store[k]) : Did(c, n, k, "", handleGet(c, v))
          /\ UNCHANGED left
    /\ UNCHANGED <<store, applied>>

\* classifyAndRespond for a single key; a batch answers 200 and says the rest
\* key by key.
classify(code) ==
    CASE code = "" -> 200 [] code = "DRAINING" -> 503
      [] code = "NOT_FOUND" -> 404 [] OTHER -> 500
Status(c, codes) ==
    IF Op(c) \in Batches \/ Wanted(c) = <<>> THEN 200 ELSE classify(codes[Head(Wanted(c))])

\* An answer reaches the client only if it still waits for it.
Respond(c, n, r) ==
    /\ reply' = IF call[c].pc = "wait" /\ call[c].at = n THEN [reply EXCEPT ![c] = r]
                ELSE reply
    /\ arrived' = [arrived EXCEPT ![n] = @ \ {c}]
    /\ work' = [work EXCEPT ![c][n] = NoWork]

\* The members n knows: those that run, and some that it has not yet pruned.
\* hypercache-server has /cluster/members on its management port only.
handleMembers(c, n) ==
    \/ ~scenario.membersRoute /\ Respond(c, n, [NoReply EXCEPT !.status = 404])
    \/ /\ scenario.membersRoute
       /\ \E S \in SUBSET Nodes :
            /\ {m \in Nodes : Running(m)} \subseteq S
            /\ Respond(c, n, [NoReply EXCEPT !.status = 200, !.nodes = S])

Serve(c, n) ==
    /\ c \in arrived[n]
    /\ LET verdict == IF Op(c) = "refresh" /\ ~scenario.membersRoute THEN 200
                      ELSE Verify(Cred(c), Required(Op(c)))
           w == work[c][n]
       IN  \/ /\ verdict # 200
              /\ Respond(c, n, [NoReply EXCEPT !.status = verdict])
              /\ UNCHANGED <<left, store, applied>>
           \/ /\ verdict = 200 /\ w.todo # <<>>
              /\ IF Op(c) \in Writes THEN handleWrite(c, n, Head(w.todo))
                 ELSE handleRead(c, n, Head(w.todo))
              /\ UNCHANGED <<reply, arrived>>
           \/ /\ verdict = 200 /\ w.todo = <<>> /\ Op(c) = "refresh"
              /\ handleMembers(c, n)
              /\ UNCHANGED <<left, store, applied>>
           \/ /\ verdict = 200 /\ w.todo = <<>> /\ Op(c) # "refresh"
              /\ Respond(c, n, [w.done EXCEPT !.status = Status(c, w.done.codes),
                                              !.yes = HasCapability(Cred(c), "write")])
              /\ UNCHANGED <<left, store, applied>>
    /\ UNCHANGED <<scenario, phase, open, pool, endpoints, refreshing, call>>

-----------------------------------------------------------------------------
(***************************************************************************)
(* The client.                                                             *)
(***************************************************************************)
ClientOnly == UNCHANGED <<nodeVars, work, reply, store, applied>>

\* A call, or a tick of the refresh loop.
do(c) ==
    /\ call[c].pc = "idle" /\ (Op(c) = "refresh" => refreshing = "open")
    /\ call' = [call EXCEPT ![c].pc = "walk", ![c].untried = currentEndpoints]
    /\ UNCHANGED <<endpoints, refreshing>> /\ ClientOnly

\* An endpoint that does not listen is a transport error.
tryOnce(c) ==
    /\ call[c].pc = "walk"
    /\ \E n \in call[c].untried :
         /\ call' = [call EXCEPT ![c].untried = @ \ {n},
                ![c].pc = IF Listening(n) THEN "wait" ELSE "walk",
                ![c].at = IF Listening(n) THEN n ELSE 0]
         /\ arrived' = IF Listening(n) THEN [arrived EXCEPT ![n] = @ \cup {c}] ELSE arrived
         /\ work' = IF Listening(n) THEN [work EXCEPT ![c][n].todo = Wanted(c)] ELSE work
    /\ UNCHANGED <<scenario, left, phase, open, pool, endpoints, refreshing, reply, store,
                   applied>>

\* ErrAllEndpointsFailed.
Exhausted(c) ==
    /\ call[c].pc = "walk" /\ call[c].untried = {}
    /\ call' = [call EXCEPT ![c].pc = "done",
                            ![c].out = [NoReply EXCEPT !.status = 500]]
    /\ UNCHANGED <<endpoints, refreshing>> /\ ClientOnly

\* The client's timeout; the request stays with the server.
Timeout(c) ==
    /\ call[c].pc = "wait" /\ Spend("faults")
    /\ call' = [call EXCEPT ![c].pc = "walk", ![c].timedOut = @ \cup {call[c].at},
                            ![c].at = 0]
    /\ reply' = [reply EXCEPT ![c] = NoReply]
    /\ UNCHANGED <<scenario, phase, arrived, open, pool, endpoints, refreshing, work, store,
                   applied>>

\* The server died with the request.
Broken(c) ==
    /\ call[c].pc = "wait" /\ reply[c].status = 0
    /\ c \notin arrived[call[c].at]
    /\ call' = [call EXCEPT ![c].pc = "walk", ![c].at = 0]
    /\ UNCHANGED <<endpoints, refreshing>> /\ ClientOnly

\* Mutant: a server that answers is not tried around.
isRetryable_TransportOnly(status) == FALSE
isRetryable(status) == status >= 500

\* What the method of the SDK makes of the answer.
decodeEnvelopeValue(t) == IF t = NoBody THEN NoBody ELSE Decode(t)
Result(c, r) ==
    IF Op(c) \in {"item", "batchGet"}
    THEN [r EXCEPT !.got = [k \in Keys |-> decodeEnvelopeValue(@[k])]]
    ELSE r

receive(c) ==
    /\ call[c].pc = "wait" /\ reply[c].status # 0
    /\ LET r == reply[c]
       IN  /\ call' = [call EXCEPT ![c] =
                  IF isRetryable(r.status) THEN [@ EXCEPT !.pc = "walk", !.at = 0]
                  ELSE [@ EXCEPT !.pc = "done", !.out = Result(c, r)]]
           /\ reply' = [reply EXCEPT ![c] = NoReply]
           /\ endpoints' = IF Op(c) = "refresh" /\ r.status = 200 /\ r.nodes # {}
                           THEN r.nodes ELSE endpoints
    /\ UNCHANGED <<nodeVars, refreshing, work, store, applied>>

\* Close waits for the refresh loop to leave.
Close ==
    /\ refreshing = "open" /\ refreshing' = "closing"
    /\ UNCHANGED <<endpoints, call>> /\ ClientOnly
CloseReturns ==
    /\ refreshing = "closing" /\ refreshing' = "closed"
    /\ \A c \in Calls : Op(c) = "refresh" => call[c].pc \in {"idle", "done"}
    /\ UNCHANGED <<endpoints, call>> /\ ClientOnly

ClientStep(c) == tryOnce(c) \/ Exhausted(c) \/ Broken(c) \/ receive(c)

\* Sound: serving, no timeout, no failed write, ever since the call began.
Soundness ==
    sound' = [c \in Calls |->
        LET from == IF call[c].pc = "idle" THEN call'[c].untried ELSE sound[c]
        IN  {n \in from : /\ phase'[n] = "serving" /\ n \notin call'[c].timedOut
                          /\ (call[c].at = n => reply'[c].status # 500)}]
=============================================================================
