--------------------------- MODULE ServiceProofs ----------------------------
(***************************************************************************)
(* Proofs about Service for any servers, any calls of any callers, any     *)
(* policy, and any number of signals, crashes, faults and streams.         *)
(***************************************************************************)
EXTENDS Service, SequenceTheorems, TLAPS

Code == {"", "DRAINING", "INTERNAL", "NOT_FOUND"}
Body == [of : Nat, depth : Int]
StatusCode == {0, 200, 401, 403, 404, 500, 503}
Reply == [status : StatusCode, codes : [Keys -> Code], got : [Keys -> Body],
          nodes : SUBSET Nodes, yes : BOOLEAN]
Work == [todo : Seq(Keys), done : Reply]
Call == [pc : {"idle", "walk", "wait", "done"}, untried : SUBSET Nodes,
         at : Nodes \cup {0}, timedOut : SUBSET Nodes, out : Reply]

(***************************************************************************)
(* The inductive invariant.  Its parts take what they speak of as          *)
(* arguments: cs is the sequence of calls, ap the writes applied so far.   *)
(***************************************************************************)
\* b is the very value some call has put for k.
Puts(cs, ap, b, k) ==
    b.of \in DOMAIN cs /\ b = [of |-> b.of, depth |-> cs[b.of].depth] /\ <<b.of, k>> \in ap

\* g is what a handler sends for k: a get answers with the value, everything
\* else with an envelope around it.
GotOK(cs, ap, c, g, k) ==
    \/ g = NoBody
    \/ cs[c].op = "get" /\ Puts(cs, ap, g, k)
    \/ cs[c].op \in {"item", "batchGet"} /\ Puts(cs, ap, Decode(g), k)

\* c has no way to write anything: it does not try to, or may not.
Harmless(cs, c) == cs[c].op \notin Writes \/ Verify(cs[c].cred, "write") # 200

\* An answer of one of the statuses a server can give is true.
Truthful(cs, ap, c, r) ==
    /\ cs[c].op \in Writes /\ r.status = 200 =>
           \A k \in Range(cs[c].keys) : r.codes[k] = "" => <<c, k>> \in ap
    /\ r.status \in {401, 403, 404} => Harmless(cs, c)
    /\ cs[c].op = "can" /\ r.status = 200 =>
           (r.yes <=> Verify(cs[c].cred, "write") = 200)
ReplyOK(cs, ap, c, r) ==
    r \in Reply /\ Truthful(cs, ap, c, r) /\ \A k \in Keys : GotOK(cs, ap, c, r.got[k], k)
OutOK(cs, ap, c, r) ==
    /\ r \in Reply /\ Truthful(cs, ap, c, r)
    /\ \A k \in Keys : r.got[k] = NoBody \/ Puts(cs, ap, r.got[k], k)

\* A request and what the server has done of it: a key is done, with the truth
\* about it in codes, or to do.
WorkOK(cs, ap, c, w, ph, ar) ==
    /\ w \in Work
    /\ cs[c].op \in {"me", "can", "refresh"} => w.todo = <<>>
    /\ cs[c].op \in Writes =>
           /\ c \in ar => \A k \in Range(cs[c].keys) :
                            w.done.codes[k] = "" => <<c, k>> \in ap \/ k \in Range(w.todo)
           /\ \A k \in Keys : w.done.codes[k] # "NOT_FOUND"
    /\ \A k \in Keys : w.done.codes[k] = "DRAINING" => ph # "serving"
    /\ \A k \in Keys : GotOK(cs, ap, c, w.done.got[k], k)

CallOK(cs, ap, c, x, r) ==
    /\ x \in Call /\ ReplyOK(cs, ap, c, r)
    /\ x.pc # "wait" => r = NoReply
    /\ r.status = 0 => r = NoReply
    /\ x.pc # "done" => x.out = NoReply
    /\ x.pc = "wait" => x.at \in Nodes /\ x.at \notin x.untried
    /\ x.pc = "done" => OutOK(cs, ap, c, x.out)

\* An endpoint that is still to be tried has never heard of the call.
Untried(c, x, w, n, ar) ==
    x.pc = "idle" \/ n \in x.untried => w = NoWork /\ c \notin ar

\* An endpoint that nothing has ailed is still to be tried, or is the one the
\* call is at: it has the request, or has given an answer that is final.
Hopeful(c, x, r, sd, ph, ar) ==
    /\ sd \in SUBSET Nodes
    /\ \A n \in sd : ph[n] = "serving"
    /\ x.pc = "walk" => sd \subseteq x.untried
    /\ x.pc = "wait" =>
           /\ sd \subseteq x.untried \cup {x.at}
           /\ x.at \in sd => r.status < 500 /\ (r.status = 0 => c \in ar[x.at])
    /\ x.pc = "done" /\ x.out.status >= 500 => sd = {}

StoreOK(cs, ap, st) ==
    st \in [Keys -> Body] /\ \A k \in Keys : st[k] = NoBody \/ Puts(cs, ap, st[k], k)
AppliedOK(cs, ap) == \A c \in DOMAIN cs, k \in Keys : <<c, k>> \in ap => ~Harmless(cs, c)

CallInv(cs, ap, c, x, r, w, sd, ph, ar) ==
    /\ CallOK(cs, ap, c, x, r)
    /\ \A n \in Nodes : /\ WorkOK(cs, ap, c, w[n], ph[n], ar[n])
                        /\ Untried(c, x, w[n], n, ar[n])
    /\ Hopeful(c, x, r, sd, ph, ar)

StateTyped ==
    /\ scenario \in Scenarios
    /\ phase \in [Nodes -> Phase] /\ arrived \in [Nodes -> SUBSET Calls]
    /\ endpoints \in SUBSET Nodes
    /\ call \in [Calls -> Call] /\ reply \in [Calls -> Reply]
    /\ work \in [Calls -> [Nodes -> Work]]

ServiceInv ==
    /\ StateTyped
    /\ StoreOK(scenario.calls, applied, store) /\ AppliedOK(scenario.calls, applied)
    /\ \A c \in Calls : CallInv(scenario.calls, applied, c, call[c], reply[c], work[c],
                                sound[c], phase, arrived)

-----------------------------------------------------------------------------
(***************************************************************************)
(* Values and replies                                                      *)
(***************************************************************************)
LEMMA Plain ==
    ASSUME NEW s \in Scenarios, NEW c \in DOMAIN s.calls
    PROVE  /\ s.calls \in Seq([op : Ops, cred : Credential, keys : Seq(Keys), depth : Nat])
           /\ c \in Nat \ {0} /\ s.calls[c].keys \in Seq(Keys) /\ s.calls[c].depth \in Nat
           /\ s.calls[c].op \in Ops
           /\ s.calls[c].op \in {"me", "can", "refresh"} => s.calls[c].keys = <<>>
<1>1. /\ s.calls \in Seq([op : Ops, cred : Credential, keys : Seq(Keys), depth : Nat])
      /\ s.calls[c].op \in {"me", "can", "refresh"} => s.calls[c].keys = <<>>
  BY ScenarioAssumption
<1> DEFINE R == [op : Ops, cred : Credential, keys : Seq(Keys), depth : Nat]
           t == s.calls
<1>2. t \in Seq(R) /\ c \in DOMAIN t
  BY <1>1
<1> HIDE DEF R, t
<1>3. c \in Nat \ {0} /\ t[c] \in R
  BY <1>2, ElementOfSeq, LenProperties
<1> QED
  BY <1>1, <1>3 DEF R, t

\* The elements of a sequence.
LEMMA SeqRange ==
    ASSUME NEW S, NEW t \in Seq(S)
    PROVE  \A j \in Range(t) : j \in S /\ \E i \in 1 .. Len(t) : j = t[i]
  BY LenProperties DEF Range

LEMMA FirstAndRest ==
    ASSUME NEW S, NEW t \in Seq(S), t # <<>>
    PROVE  /\ Head(t) \in S /\ Tail(t) \in Seq(S)
           /\ \A j \in Range(t) : j = Head(t) \/ j \in Range(Tail(t))
<1> DEFINE T == Tail(t)
           L == Len(t)
<1>1. T \in Seq(S) /\ Head(t) \in S /\ Head(t) = t[1]
  BY HeadTailProperties
<1>2. L \in Nat /\ Len(T) = L - 1 /\ \A i \in 1 .. Len(T) : T[i] = t[i + 1]
  BY HeadTailProperties, LenProperties
<1>3. DOMAIN T = 1 .. Len(T)
  BY <1>1, LenProperties
<1> HIDE DEF T, L
<1>4. ASSUME NEW i \in 1 .. L, i # 1
      PROVE  t[i] \in Range(T)
  <2>1. i - 1 \in 1 .. Len(T) /\ (i - 1) + 1 = i
    BY <1>2, <1>4
  <2>2. T[i - 1] = t[i]
    BY <1>2, <2>1
  <2> QED
    BY <1>3, <2>1, <2>2 DEF Range
<1>5. \A j \in Range(t) : j = Head(t) \/ j \in Range(T)
  BY <1>1, <1>4, SeqRange DEF L
<1> QED
  BY <1>1, <1>5 DEF T

LEMMA NoReplyOK == NoBody \in Body /\ NoReply \in Reply /\ NoWork \in Work /\ NoWork.todo = <<>>
<1>1. NoBody \in Body
  BY DEF Body, NoBody
<1>2. NoReply \in Reply
  BY <1>1 DEF Reply, NoReply, StatusCode, Code
<1>3. NoWork = [todo |-> <<>>, done |-> NoReply]
  BY DEF NoWork
<1> HIDE DEF NoReply, NoWork
<1> QED
  BY <1>1, <1>2, <1>3 DEF Work

\* An envelope is opened to what was put in.
LEMMA Envelope ==
    ASSUME NEW b \in Body
    PROVE  Encode(b) \in Body /\ Decode(Encode(b)) = b /\ Encode(b).of = b.of
           /\ Encode(b).depth = b.depth + 1
<1>1. /\ Encode(b) \in Body /\ Encode(b).of = b.of /\ Encode(b).depth = b.depth + 1
  BY DEF Encode, Body
<1>2. Decode(Encode(b)) \in Body /\ Decode(Encode(b)).of = b.of
      /\ Decode(Encode(b)).depth = b.depth
  BY <1>1 DEF Decode, Body
<1> QED
  BY <1>1, <1>2 DEF Body

\* A put value comes back from any representation.
LEMMA ReadBack ==
    ASSUME NEW b \in Body, b.depth >= 0, NEW v \in Carried(b)
    PROVE  itemValueAsBytes(v) = b
<1>1. \/ v = [rep |-> "bytes", text |-> b]
      \/ v = [rep |-> "string", text |-> Encode(b)]
      \/ v = [rep |-> "raw", text |-> Encode(b)]
  BY DEF Carried
<1>2. Encode(b).depth > 0 /\ Decode(Encode(b)) = b
  BY Envelope DEF Body
<1> QED
  BY <1>1, <1>2 DEF itemValueAsBytes


-----------------------------------------------------------------------------
(***************************************************************************)
(* What stays true of a call while more writes are applied                 *)
(***************************************************************************)
LEMMA GrowGot ==
    ASSUME NEW cs, NEW ap, NEW more, ap \subseteq more, NEW c
    PROVE  /\ \A b, k : Puts(cs, ap, b, k) => Puts(cs, more, b, k)
           /\ \A g, k : GotOK(cs, ap, c, g, k) => GotOK(cs, more, c, g, k)
<1>1. \A b, k : Puts(cs, ap, b, k) => Puts(cs, more, b, k)
  BY DEF Puts
<1> QED
  BY <1>1 DEF GotOK

LEMMA GrowReply ==
    ASSUME NEW cs, NEW ap, NEW more, ap \subseteq more, NEW c, NEW r
    PROVE  /\ ReplyOK(cs, ap, c, r) => ReplyOK(cs, more, c, r)
           /\ OutOK(cs, ap, c, r) => OutOK(cs, more, c, r)
<1>1. Truthful(cs, ap, c, r) => Truthful(cs, more, c, r)
  BY DEF Truthful
<1> QED
  BY <1>1, GrowGot DEF ReplyOK, OutOK

LEMMA GrowCall ==
    ASSUME NEW cs, NEW ap, NEW more, ap \subseteq more, NEW c, NEW x, NEW r,
           CallOK(cs, ap, c, x, r)
    PROVE  CallOK(cs, more, c, x, r)
  BY GrowReply DEF CallOK

\* The server may stop serving, and the request may be gone.
LEMMA GrowWork ==
    ASSUME NEW cs, NEW ap, NEW more, ap \subseteq more, NEW c, NEW w, NEW ph, NEW after,
           NEW ar, NEW rest, c \in rest => c \in ar,
           after = "serving" => ph = "serving", WorkOK(cs, ap, c, w, ph, ar)
    PROVE  WorkOK(cs, more, c, w, after, rest)
<1>1. \A k \in Keys : GotOK(cs, more, c, w.done.got[k], k)
  BY GrowGot DEF WorkOK
<1> QED
  BY <1>1 DEF WorkOK

\* Endpoints only fall out of sound, unless the call begins.
LEMMA SoundStep ==
    ASSUME Soundness, NEW c \in Calls
    PROVE  /\ sound'[c] \subseteq IF call[c].pc = "idle" THEN call'[c].untried ELSE sound[c]
           /\ \A n \in sound'[c] : /\ phase'[n] = "serving" /\ n \notin call'[c].timedOut
                                   /\ call[c].at = n => reply'[c].status # 500
<1> DEFINE from == IF call[c].pc = "idle" THEN call'[c].untried ELSE sound[c]
<1>1. sound'[c] = {n \in from : /\ phase'[n] = "serving" /\ n \notin call'[c].timedOut
                                /\ (call[c].at = n => reply'[c].status # 500)}
  BY DEF Soundness
<1> HIDE DEF from
<1>2. sound'[c] \subseteq from /\ \A n \in sound'[c] :
         /\ phase'[n] = "serving" /\ n \notin call'[c].timedOut
         /\ call[c].at = n => reply'[c].status # 500
  BY <1>1
<1> QED
  BY <1>2 DEF from

\* A call that a step does not touch.
Untouched(d) ==
    /\ call'[d] = call[d] /\ reply'[d] = reply[d] /\ work'[d] = work[d]
    /\ \A n \in Nodes : /\ d \in arrived'[n] => d \in arrived[n]
                        /\ d \in arrived[n] /\ phase'[n] = "serving" => d \in arrived'[n]

\* The endpoints of a call that does not move: those that still serve keep its
\* request.
LEMMA StillHopeful ==
    ASSUME ServiceInv, Soundness, NEW d \in Calls, call'[d] = call[d], reply'[d] = reply[d],
           \A n \in Nodes : d \in arrived[n] /\ phase'[n] = "serving" /\ call[d].at = n
                              => d \in arrived'[n]
    PROVE  Hopeful(d, call'[d], reply'[d], sound'[d], phase', arrived')
<1> DEFINE x == call[d]
           r == reply[d]
<1>1. CallOK(scenario.calls, applied, d, x, r) /\ Hopeful(d, x, r, sound[d], phase, arrived)
  BY DEF ServiceInv, CallInv
<1>2. call'[d] = x /\ reply'[d] = r
  OBVIOUS
<1>3. \A n \in Nodes : d \in arrived[n] /\ phase'[n] = "serving" /\ x.at = n
                         => d \in arrived'[n]
  OBVIOUS
<1> HIDE DEF x, r
<1>4. /\ sound'[d] \subseteq IF x.pc = "idle" THEN x.untried ELSE sound[d]
      /\ \A n \in sound'[d] : phase'[n] = "serving"
  BY <1>2, SoundStep DEF x
<1>5. x.untried \in SUBSET Nodes /\ sound[d] \in SUBSET Nodes
  BY <1>1 DEF Call, CallOK, Hopeful
<1>6. x.pc = "wait" => x.at \in Nodes
  BY <1>1 DEF CallOK
<1>7. CASE x.pc = "idle"
  BY <1>2, <1>4, <1>5, <1>7 DEF Hopeful
<1>8. CASE x.pc # "idle"
  BY <1>1, <1>2, <1>3, <1>4, <1>5, <1>6, <1>8 DEF Hopeful
<1> QED
  BY <1>7, <1>8

LEMMA Elsewhere ==
    ASSUME ServiceInv, Soundness, NEW d \in Calls, Untouched(d), applied \subseteq applied',
           \A n \in Nodes : phase'[n] = "serving" => phase[n] = "serving"
    PROVE  CallInv(scenario.calls, applied', d, call'[d], reply'[d], work'[d], sound'[d],
                   phase', arrived')
<1> DEFINE cs == scenario.calls
           x == call[d]
           r == reply[d]
           w == work[d]
<1>1. CallInv(cs, applied, d, x, r, w, sound[d], phase, arrived)
  BY DEF ServiceInv
<1>2. call'[d] = x /\ reply'[d] = r /\ work'[d] = w
  BY DEF Untouched
<1> HIDE DEF cs, x, r, w
<1>3. CallOK(cs, applied', d, x, r)
  BY <1>1, GrowCall DEF CallInv
<1>4. ASSUME NEW n \in Nodes
      PROVE  /\ WorkOK(cs, applied', d, w[n], phase'[n], arrived'[n])
             /\ Untried(d, x, w[n], n, arrived'[n])
  <2>1. /\ WorkOK(cs, applied, d, w[n], phase[n], arrived[n])
        /\ Untried(d, x, w[n], n, arrived[n])
    BY <1>1 DEF CallInv
  <2>2. d \in arrived'[n] => d \in arrived[n]
    BY DEF Untouched
  <2>3. WorkOK(cs, applied', d, w[n], phase'[n], arrived'[n])
    BY <2>1, <2>2, GrowWork
  <2> QED
    BY <2>1, <2>2, <2>3 DEF Untried
<1>5. Hopeful(d, x, r, sound'[d], phase', arrived')
  BY <1>2, StillHopeful DEF Untouched
<1> QED
  BY <1>2, <1>3, <1>4, <1>5 DEF CallInv, cs


\* A step about one call: the others are untouched.
LEMMA CallStep ==
    ASSUME ServiceInv, Soundness, NEW c \in Calls, UNCHANGED <<scenario, phase>>,
           \A d \in Calls \ {c} : Untouched(d), applied \subseteq applied', StateTyped',
           StoreOK(scenario.calls, applied', store'), AppliedOK(scenario.calls, applied'),
           CallInv(scenario.calls, applied', c, call'[c], reply'[c], work'[c], sound'[c],
                   phase', arrived')
    PROVE  ServiceInv'
<1>1. \A d \in Calls : CallInv(scenario.calls, applied', d, call'[d], reply'[d], work'[d],
                               sound'[d], phase', arrived')
  BY Elsewhere
<1> HIDE DEF CallInv
<1> QED
  BY <1>1 DEF ServiceInv, Calls

-----------------------------------------------------------------------------
(***************************************************************************)
(* The client                                                              *)
(***************************************************************************)
\* The client moves on with call c; what the servers know of it stays.
LEMMA ClientMove ==
    ASSUME ServiceInv, Soundness, NEW c \in Calls, NEW y, NEW r,
           call' = [call EXCEPT ![c] = y], reply' = [reply EXCEPT ![c] = r],
           UNCHANGED <<scenario, phase, arrived, work, store, applied>>,
           endpoints' \in SUBSET Nodes,
           CallOK(scenario.calls, applied, c, y, r),
           y.pc # "idle", call[c].pc = "idle" \/ y.untried \subseteq call[c].untried,
           Hopeful(c, y, r, sound'[c], phase, arrived)
    PROVE  ServiceInv'
<1> DEFINE cs == scenario.calls
<1>1. StateTyped /\ StoreOK(cs, applied, store) /\ AppliedOK(cs, applied)
  BY DEF ServiceInv
<1>2. y \in Call /\ r \in Reply
  BY DEF CallOK, ReplyOK
<1>3. StateTyped' /\ call'[c] = y /\ reply'[c] = r
  BY <1>1, <1>2 DEF StateTyped, Calls
<1>4. \A d \in Calls \ {c} : Untouched(d)
  BY <1>1 DEF StateTyped, Untouched
<1>5. CallInv(cs, applied, c, y, r, work[c], sound'[c], phase, arrived)
  <2>1. CallInv(cs, applied, c, call[c], reply[c], work[c], sound[c], phase, arrived)
    BY DEF ServiceInv
  <2> QED
    BY <2>1 DEF CallInv, Untried
<1> HIDE DEF cs
<1>6. CallInv(cs, applied', c, call'[c], reply'[c], work'[c], sound'[c], phase', arrived')
  BY <1>3, <1>5
<1> QED
  BY <1>1, <1>3, <1>4, <1>6, CallStep DEF cs

\* What is known of call c.
LEMMA Known ==
    ASSUME ServiceInv, NEW c \in Calls
    PROVE  /\ CallOK(scenario.calls, applied, c, call[c], reply[c])
           /\ Hopeful(c, call[c], reply[c], sound[c], phase, arrived)
           /\ call[c] \in Call /\ reply[c] \in Reply
           /\ scenario \in Scenarios /\ phase \in [Nodes -> Phase]
           /\ call \in [Calls -> Call] /\ reply \in [Calls -> Reply]
  BY DEF ServiceInv, StateTyped, CallInv, CallOK, ReplyOK

LEMMA NoReplyTrue ==
    ASSUME NEW cs, NEW ap, NEW c
    PROVE  ReplyOK(cs, ap, c, NoReply) /\ NoReply.status = 0 /\ \A k \in Keys : NoReply.got[k] = NoBody
<1>1. NoReply.status = 0 /\ \A k \in Keys : NoReply.got[k] = NoBody
  BY DEF NoReply
<1> QED
  BY <1>1, NoReplyOK DEF ReplyOK, Truthful, GotOK

LEMMA doOK ==
    ASSUME ServiceInv, Soundness, NEW c \in Calls, do(c)
    PROVE  ServiceInv'
<1> DEFINE x == call[c]
           E == currentEndpoints
           y == [x EXCEPT !.pc = "walk", !.untried = E]
<1>1. /\ x.pc = "idle" /\ UNCHANGED <<scenario, phase, arrived, work, reply, store, applied>>
      /\ UNCHANGED endpoints
  BY DEF do, ClientOnly, nodeVars
<1>2. call' = [call EXCEPT ![c] = y]
  BY Known DEF do
<1>3. E \in SUBSET Nodes
  <2>1. scenario.seeds \subseteq Nodes /\ endpoints \in SUBSET Nodes
    BY ScenarioAssumption DEF ServiceInv, StateTyped
  <2> QED
    BY <2>1 DEF currentEndpoints
<1> HIDE DEF E
<1>4. /\ y \in Call /\ y.pc = "walk" /\ y.untried = E /\ y.out = x.out
      /\ y.timedOut = x.timedOut
  BY <1>3, Known DEF Call
<1> HIDE DEF y
<1>5. call'[c] = y
  BY <1>2, Known
<1>6. CallOK(scenario.calls, applied, c, y, reply[c])
  BY <1>1, <1>4, Known DEF CallOK
<1>7. Hopeful(c, y, reply[c], sound'[c], phase, arrived)
  <2>1. sound'[c] \subseteq y.untried /\ \A n \in sound'[c] : phase[n] = "serving"
    BY <1>1, <1>5, SoundStep
  <2> QED
    BY <1>3, <1>4, <2>1 DEF Hopeful
<1>8. reply' = [reply EXCEPT ![c] = reply[c]]
  BY <1>1, Known
<1>9. endpoints' \in SUBSET Nodes
  BY <1>1 DEF ServiceInv, StateTyped
<1> QED
  BY <1>1, <1>2, <1>4, <1>6, <1>7, <1>8, <1>9, ClientMove

\* ErrAllEndpointsFailed: no endpoint is left that nothing has ailed.
LEMMA ExhaustedOK ==
    ASSUME ServiceInv, Soundness, NEW c \in Calls, Exhausted(c)
    PROVE  ServiceInv'
<1> DEFINE x == call[c]
           o == [NoReply EXCEPT !.status = 500]
           y == [x EXCEPT !.pc = "done", !.out = o]
<1>1. /\ x.pc = "walk" /\ UNCHANGED <<scenario, phase, arrived, work, reply, store, applied>>
      /\ UNCHANGED endpoints /\ x.untried = {}
  BY DEF Exhausted, ClientOnly, nodeVars
<1>2. call' = [call EXCEPT ![c] = y]
  <2>1. call \in [Calls -> Call]
    BY Known
  <2>2. call' = [call EXCEPT ![c].pc = "done", ![c].out = o]
    BY DEF Exhausted
  <2> HIDE DEF o
  <2> QED
    BY <2>1, <2>2
<1>3. o \in Reply
  BY NoReplyOK DEF Reply, StatusCode
<1>4. o.status = 500 /\ o.got = NoReply.got
  BY NoReplyOK DEF Reply
<1> HIDE DEF o
<1>5. OutOK(scenario.calls, applied, c, o)
  <2>1. \A k \in Keys : o.got[k] = NoBody
    BY <1>4, NoReplyTrue
  <2> QED
    BY <1>3, <1>4, <2>1 DEF OutOK, Truthful
<1>6. y \in Call /\ y.pc = "done" /\ y.untried = x.untried /\ y.out = o
  BY <1>3, Known DEF Call
<1> HIDE DEF y
<1>7. CallOK(scenario.calls, applied, c, y, reply[c])
  BY <1>1, <1>5, <1>6, Known DEF CallOK
<1>8. Hopeful(c, y, reply[c], sound'[c], phase, arrived)
  <2>1. sound'[c] = {}
    BY <1>1, SoundStep, Known DEF Hopeful
  <2> QED
    BY <1>6, <2>1 DEF Hopeful
<1>9. reply' = [reply EXCEPT ![c] = reply[c]] /\ endpoints' \in SUBSET Nodes
  BY <1>1, Known DEF ServiceInv, StateTyped
<1> QED
  BY <1>1, <1>2, <1>6, <1>7, <1>8, <1>9, ClientMove

LEMMA TimeoutOK ==
    ASSUME ServiceInv, Soundness, NEW c \in Calls, Timeout(c)
    PROVE  ServiceInv'
<1> DEFINE x == call[c]
           T == x.timedOut \cup {x.at}
           y == [x EXCEPT !.pc = "walk", !.timedOut = T, !.at = 0]
<1>1. /\ x.pc = "wait" /\ UNCHANGED <<scenario, phase, arrived, work, store, applied>>
      /\ UNCHANGED endpoints /\ reply' = [reply EXCEPT ![c] = NoReply]
  BY DEF Timeout
<1>2. call' = [call EXCEPT ![c] = y]
  BY Known DEF Timeout
<1>3. T \in SUBSET Nodes /\ x.at \in T
  BY <1>1, Known DEF CallOK, Call
<1> HIDE DEF T
<1>4. y \in Call /\ y.pc = "walk" /\ y.untried = x.untried /\ y.out = x.out /\ y.timedOut = T
  BY <1>3, Known DEF Call
<1> HIDE DEF y
<1>5. call'[c] = y
  BY <1>2, Known
<1>6. CallOK(scenario.calls, applied, c, y, NoReply)
  BY <1>1, <1>4, Known, NoReplyTrue DEF CallOK
<1>7. Hopeful(c, y, NoReply, sound'[c], phase, arrived)
  <2>1. sound'[c] \subseteq sound[c] /\ x.at \notin sound'[c]
        /\ \A n \in sound'[c] : phase[n] = "serving"
    BY <1>1, <1>3, <1>4, <1>5, SoundStep
  <2> QED
    BY <1>1, <1>4, <2>1, Known DEF Hopeful
<1>8. endpoints' \in SUBSET Nodes
  BY <1>1 DEF ServiceInv, StateTyped
<1> QED
  BY <1>1, <1>2, <1>4, <1>6, <1>7, <1>8, ClientMove

LEMMA BrokenOK ==
    ASSUME ServiceInv, Soundness, NEW c \in Calls, Broken(c)
    PROVE  ServiceInv'
<1> DEFINE x == call[c]
           y == [x EXCEPT !.pc = "walk", !.at = 0]
<1>1. /\ x.pc = "wait" /\ UNCHANGED <<scenario, phase, arrived, work, reply, store, applied>>
      /\ UNCHANGED endpoints /\ reply[c].status = 0 /\ c \notin arrived[x.at]
  BY DEF Broken, ClientOnly, nodeVars
<1>2. call' = [call EXCEPT ![c] = y]
  BY Known DEF Broken
<1>3. y \in Call /\ y.pc = "walk" /\ y.untried = x.untried /\ y.out = x.out
  BY Known DEF Call
<1> HIDE DEF y
<1>4. CallOK(scenario.calls, applied, c, y, reply[c])
  BY <1>1, <1>3, Known DEF CallOK
<1>5. Hopeful(c, y, reply[c], sound'[c], phase, arrived)
  <2>1. sound'[c] \subseteq sound[c] /\ \A n \in sound'[c] : phase[n] = "serving"
    BY <1>1, SoundStep
  <2>2. sound[c] \subseteq x.untried
    BY <1>1, Known DEF Hopeful
  <2> QED
    BY <1>3, <2>1, <2>2, Known DEF Hopeful
<1>6. reply' = [reply EXCEPT ![c] = reply[c]] /\ endpoints' \in SUBSET Nodes
  BY <1>1, Known DEF ServiceInv, StateTyped
<1> QED
  BY <1>1, <1>2, <1>3, <1>4, <1>5, <1>6, ClientMove


\* What the SDK makes of an answer is true when the answer is.
LEMMA ResultOK ==
    ASSUME ServiceInv, NEW c \in Calls, NEW r, ReplyOK(scenario.calls, applied, c, r)
    PROVE  OutOK(scenario.calls, applied, c, Result(c, r)) /\ Result(c, r).status = r.status
<1> DEFINE cs == scenario.calls
           G == [k \in Keys |-> decodeEnvelopeValue(r.got[k])]
           e == [r EXCEPT !.got = G]
<1>1. r \in Reply /\ Truthful(cs, applied, c, r)
      /\ \A k \in Keys : GotOK(cs, applied, c, r.got[k], k)
  BY DEF ReplyOK
<1>2. Op(c) = cs[c].op
  BY DEF Op
<1>3. CASE Op(c) \in {"item", "batchGet"}
  <2>1. Result(c, r) = e
    BY <1>3 DEF Result
  <2>2. ASSUME NEW k \in Keys
        PROVE  G[k] = NoBody \/ Puts(cs, applied, G[k], k)
    BY <1>1, <1>2, <1>3 DEF GotOK, decodeEnvelopeValue
  <2>3. \A k \in Keys : G[k] \in Body
    <3>1. \A k \in Keys : r.got[k] \in Body
      BY <1>1 DEF Reply
    <3> QED
      BY <3>1, NoReplyOK DEF decodeEnvelopeValue, Decode, Body
  <2>4. G \in [Keys -> Body]
    BY <2>3
  <2> HIDE DEF G
  <2>5. e \in Reply /\ e.status = r.status /\ e.codes = r.codes /\ e.yes = r.yes /\ e.got = G
    BY <1>1, <2>4 DEF Reply
  <2> HIDE DEF e
  <2>6. Truthful(cs, applied, c, e)
    <3>1. Truthful(cs, applied, c, r)
      BY <1>1
    <3>2. r.status \in {401, 403, 404} => Harmless(cs, c)
      BY <3>1 DEF Truthful
    <3>3. cs[c].op \in Writes /\ e.status = 200 =>
             \A k \in Range(cs[c].keys) : e.codes[k] = "" => <<c, k>> \in applied
      BY <2>5, <3>1 DEF Truthful
    <3>4. cs[c].op = "can" /\ e.status = 200 =>
             (e.yes <=> Verify(cs[c].cred, "write") = 200)
      BY <2>5, <3>1 DEF Truthful
    <3>5. e.status \in {401, 403, 404} => Harmless(cs, c)
      BY <2>5, <3>2
    <3> QED
      BY <3>3, <3>4, <3>5 DEF Truthful
  <2> QED
    BY <2>1, <2>2, <2>5, <2>6 DEF OutOK
<1>4. CASE Op(c) \notin {"item", "batchGet"}
  <2>1. Result(c, r) = r
    BY <1>4 DEF Result
  <2>2. \A k \in Keys : r.got[k] = NoBody \/ Puts(cs, applied, r.got[k], k)
    BY <1>1, <1>2, <1>4 DEF GotOK
  <2> QED
    BY <1>1, <2>1, <2>2 DEF OutOK
<1> QED
  BY <1>3, <1>4

LEMMA receiveOK ==
    ASSUME ServiceInv, Soundness, NEW c \in Calls, receive(c)
    PROVE  ServiceInv'
<1> DEFINE x == call[c]
           r == reply[c]
           o == Result(c, r)
           a == [x EXCEPT !.pc = "walk", !.at = 0]
           b == [x EXCEPT !.pc = "done", !.out = o]
           y == IF isRetryable(r.status) THEN a ELSE b
<1>1. /\ x.pc = "wait" /\ UNCHANGED <<scenario, phase, arrived, work, store, applied>>
      /\ reply' = [reply EXCEPT ![c] = NoReply]
  BY DEF receive, nodeVars
<1>2. call' = [call EXCEPT ![c] = y]
  BY Known DEF receive
<1>3. endpoints' \in SUBSET Nodes
  BY Known DEF receive, ServiceInv, StateTyped, Reply
<1>4. OutOK(scenario.calls, applied, c, o) /\ o.status = r.status
  BY ResultOK, Known DEF CallOK
<1>5. o \in Reply
  BY <1>4 DEF OutOK
<1>6. r.status \in Nat
  <2>1. r.status \in StatusCode
    BY Known DEF Reply
  <2> QED
    BY <2>1 DEF StatusCode
<1>7. sound'[c] \subseteq sound[c] /\ \A n \in sound'[c] : phase[n] = "serving"
  BY <1>1, SoundStep
<1> HIDE DEF o
<1>8. CASE isRetryable(r.status)
  <2>1. y = a
    BY <1>8
  <2>2. a \in Call /\ a.pc = "walk" /\ a.untried = x.untried /\ a.out = x.out
    BY Known DEF Call
  <2> HIDE DEF a, y
  <2>3. CallOK(scenario.calls, applied, c, a, NoReply)
    BY <1>1, <2>2, Known, NoReplyTrue DEF CallOK
  <2>4. r.status >= 500
    BY <1>8 DEF isRetryable
  <2>5. sound[c] \subseteq x.untried
    BY <1>1, <1>6, <2>4, Known DEF Hopeful
  <2>6. Hopeful(c, a, NoReply, sound'[c], phase, arrived)
    BY <1>7, <2>2, <2>5, Known DEF Hopeful
  <2> QED
    BY <1>1, <1>2, <1>3, <2>1, <2>2, <2>3, <2>6, ClientMove
<1>9. CASE ~isRetryable(r.status)
  <2>1. y = b
    BY <1>9
  <2>2. b \in Call /\ b.pc = "done" /\ b.untried = x.untried /\ b.out = o
    BY <1>5, Known DEF Call
  <2> HIDE DEF b, y
  <2>3. CallOK(scenario.calls, applied, c, b, NoReply)
    BY <1>1, <1>4, <2>2, Known, NoReplyTrue DEF CallOK
  <2>4. r.status < 500
    BY <1>6, <1>9 DEF isRetryable
  <2>5. Hopeful(c, b, NoReply, sound'[c], phase, arrived)
    <3>1. ~(b.out.status >= 500)
      BY <1>4, <1>6, <2>2, <2>4
    <3> QED
      BY <1>7, <2>2, <3>1, Known DEF Hopeful
  <2> QED
    BY <1>1, <1>2, <1>3, <2>1, <2>2, <2>3, <2>5, ClientMove
<1> QED
  BY <1>8, <1>9

\* The request is handed to an endpoint that listens, or the endpoint is
\* skipped, and then it is not serving.
LEMMA tryOnceOK ==
    ASSUME ServiceInv, Soundness, NEW c \in Calls, tryOnce(c)
    PROVE  ServiceInv'
<1> DEFINE x == call[c]
<1>1. PICK n \in x.untried :
         /\ call' = [call EXCEPT ![c].untried = @ \ {n},
                ![c].pc = IF Listening(n) THEN "wait" ELSE "walk",
                ![c].at = IF Listening(n) THEN n ELSE 0]
         /\ arrived' = IF Listening(n) THEN [arrived EXCEPT ![n] = @ \cup {c}] ELSE arrived
         /\ work' = IF Listening(n) THEN [work EXCEPT ![c][n].todo = Wanted(c)] ELSE work
  BY DEF tryOnce
<1>2. /\ x.pc = "walk" /\ UNCHANGED <<scenario, phase, endpoints, reply, store, applied>>
  BY DEF tryOnce
<1>3. n \in Nodes
  BY Known DEF Call
<1> DEFINE U == x.untried \ {n}
<1>4. U \in SUBSET Nodes /\ n \notin U /\ U \subseteq x.untried /\ x.untried \subseteq U \cup {n}
  BY Known DEF Call
<1> HIDE DEF U
<1>5. sound'[c] \subseteq x.untried /\ \A m \in sound'[c] : phase[m] = "serving"
  BY <1>2, SoundStep, Known DEF Hopeful
<1>6. reply[c] = NoReply
  BY <1>2, Known DEF CallOK
<1>7. CASE ~Listening(n)
  <2> DEFINE y == [x EXCEPT !.pc = "walk", !.untried = U, !.at = 0]
  <2>1. call' = [call EXCEPT ![c] = y] /\ UNCHANGED <<arrived, work>>
    BY <1>1, <1>7, Known DEF U
  <2>2. y \in Call /\ y.pc = "walk" /\ y.untried = U /\ y.out = x.out
    BY <1>4, Known DEF Call
  <2> HIDE DEF y
  <2>3. CallOK(scenario.calls, applied, c, y, reply[c])
    BY <1>2, <2>2, Known DEF CallOK
  <2>4. n \notin sound'[c]
    BY <1>5, <1>7 DEF Listening
  <2>5. Hopeful(c, y, reply[c], sound'[c], phase, arrived)
    BY <1>4, <1>5, <2>2, <2>4 DEF Hopeful
  <2>6. reply' = [reply EXCEPT ![c] = reply[c]] /\ endpoints' \in SUBSET Nodes
    BY <1>2, Known DEF ServiceInv, StateTyped
  <2> QED
    BY <1>2, <1>4, <2>1, <2>2, <2>3, <2>5, <2>6, ClientMove
<1>8. CASE Listening(n)
  <2> DEFINE y == [x EXCEPT !.pc = "wait", !.untried = U, !.at = n]
             v == [NoWork EXCEPT !.todo = Wanted(c)]
             w == [work[c] EXCEPT ![n] = v]
             A == arrived[n] \cup {c}
             cs == scenario.calls
  <2>1. call' = [call EXCEPT ![c] = y]
    BY <1>1, <1>8, Known DEF U
  <2>2. y \in Call /\ y.pc = "wait" /\ y.untried = U /\ y.out = x.out /\ y.at = n
    BY <1>3, <1>4, Known DEF Call
  <2> HIDE DEF y
  <2>3. CallInv(cs, applied, c, x, reply[c], work[c], sound[c], phase, arrived)
    BY DEF ServiceInv
  <2>4. work[c][n] = NoWork /\ c \notin arrived[n]
    BY <1>3, <2>3 DEF CallInv, Untried
  <2>5. work \in [Calls -> [Nodes -> Work]] /\ arrived \in [Nodes -> SUBSET Calls]
    BY DEF ServiceInv, StateTyped
  <2>6. work' = [work EXCEPT ![c] = w] /\ arrived' = [arrived EXCEPT ![n] = A]
    BY <1>1, <1>8, <2>4, <2>5
  <2>7. Wanted(c) \in Seq(Keys) /\ Wanted(c) = cs[c].keys
        /\ (cs[c].op \in {"me", "can", "refresh"} => Wanted(c) = <<>>)
    BY Known, Plain DEF Wanted, Calls
  <2>8. v \in Work /\ v.todo = Wanted(c) /\ v.done = NoReply
    BY <2>7, NoReplyOK DEF Work, NoWork
  <2> HIDE DEF v
  <2>9. \A m \in Nodes : w[m] = IF m = n THEN v ELSE work[c][m]
    BY <2>5
  <2>10. w \in [Nodes -> Work]
    BY <1>3, <2>5, <2>8
  <2>11. A \in SUBSET Calls /\ \A d \in Calls \ {c} : d \in A <=> d \in arrived[n]
    BY <1>3, <2>5
  <2> HIDE DEF w, A
  <2>12. StateTyped'
    BY <1>2, <1>3, <2>1, <2>2, <2>5, <2>6, <2>10, <2>11 DEF ServiceInv, StateTyped, Calls
  <2>13. \A d \in Calls \ {c} : Untouched(d)
    BY <1>2, <2>1, <2>5, <2>6, <2>11, Known DEF Untouched
  <2>14. CallOK(cs, applied, c, y, reply[c])
    BY <1>2, <1>3, <1>4, <2>2, Known DEF CallOK
  <2>15. c \in A
    BY DEF A
  <2>16. Hopeful(c, y, reply[c], sound'[c], phase, arrived')
    <3>1. c \in arrived'[n] /\ reply[c].status = 0
      BY <1>3, <1>6, <2>5, <2>6, <2>15, NoReplyTrue
    <3>2. sound'[c] \in SUBSET Nodes /\ sound'[c] \subseteq U \cup {n}
      BY <1>3, <1>4, <1>5
    <3> QED
      BY <1>5, <2>2, <3>1, <3>2 DEF Hopeful
  <2>17. WorkOK(cs, applied, c, v, phase[n], A)
    <3>1. \A k \in Keys : NoReply.codes[k] = "" /\ NoReply.got[k] = NoBody
      BY DEF NoReply
    <3> QED
      BY <2>7, <2>8, <3>1 DEF WorkOK, GotOK
  <2>18. ASSUME NEW m \in Nodes
         PROVE  WorkOK(cs, applied, c, w[m], phase[m], arrived'[m])
                /\ Untried(c, y, w[m], m, arrived'[m])
    <3>1. CASE m = n
      BY <1>3, <1>4, <2>2, <2>5, <2>6, <2>9, <2>17, <3>1 DEF Untried
    <3>2. CASE m # n
      BY <1>2, <1>4, <2>2, <2>3, <2>5, <2>6, <2>9, <3>2 DEF Untried, CallInv
    <3> QED
      BY <3>1, <3>2
  <2>19. CallInv(cs, applied, c, y, reply[c], w, sound'[c], phase, arrived')
    BY <2>14, <2>16, <2>18 DEF CallInv
  <2>20. call'[c] = y /\ reply'[c] = reply[c] /\ work'[c] = w
    BY <1>2, <2>1, <2>5, <2>6, Known
  <2>21. /\ StoreOK(cs, applied', store') /\ AppliedOK(cs, applied')
         /\ CallInv(cs, applied', c, call'[c], reply'[c], work'[c], sound'[c], phase', arrived')
         /\ applied \subseteq applied'
    BY <1>2, <2>19, <2>20 DEF ServiceInv
  <2> QED
    BY <1>2, <2>12, <2>13, <2>21, CallStep
<1> QED
  BY <1>7, <1>8


-----------------------------------------------------------------------------
(***************************************************************************)
(* The server                                                              *)
(***************************************************************************)
\* The server has dealt with one key of the request of call c.
LEMMA KeyDone ==
    ASSUME ServiceInv, Soundness, NEW c \in Calls, NEW n \in Nodes, c \in arrived[n],
           NEW k, work[c][n].todo # <<>>, k = Head(work[c][n].todo),
           NEW code \in Code, NEW got \in Body, Did(c, n, k, code, got),
           UNCHANGED <<scenario, phase, arrived, endpoints, call, reply>>,
           applied \subseteq applied',
           StoreOK(scenario.calls, applied', store'), AppliedOK(scenario.calls, applied'),
           Op(c) \in Writes => code # "NOT_FOUND" /\ (code = "" => <<c, k>> \in applied'),
           code = "DRAINING" => phase[n] # "serving",
           GotOK(scenario.calls, applied', c, got, k)
    PROVE  ServiceInv'
<1> DEFINE cs == scenario.calls
           w == work[c][n]
           q == w.done
           C == [q.codes EXCEPT ![k] = code]
           G == [q.got EXCEPT ![k] = got]
           e == [q EXCEPT !.codes = C, !.got = G]
           T == Tail(w.todo)
           v == [todo |-> T, done |-> e]
           u == [work[c] EXCEPT ![n] = v]
<1>1. work \in [Calls -> [Nodes -> Work]] /\ arrived \in [Nodes -> SUBSET Calls]
      /\ CallInv(cs, applied, c, call[c], reply[c], work[c], sound[c], phase, arrived)
  BY DEF ServiceInv, StateTyped
<1>2. work' = [work EXCEPT ![c] = u]
  <2>1. work' = [work EXCEPT ![c][n] = [todo |-> T, done |-> [q EXCEPT !.codes[k] = code,
                                                                      !.got[k] = got]]]
    BY DEF Did
  <2>2. w \in Work
    BY <1>1
  <2>3. q \in Reply
    BY <2>2 DEF Work
  <2>4. [q EXCEPT !.codes[k] = code, !.got[k] = got] = e
    BY <2>3 DEF Reply
  <2> HIDE DEF e, T, q
  <2> QED
    BY <2>1, <2>4
<1>3. /\ w \in Work /\ WorkOK(cs, applied, c, w, phase[n], arrived[n])
      /\ Untried(c, call[c], w, n, arrived[n])
  BY <1>1 DEF CallInv
<1>4. w.todo \in Seq(Keys) /\ q \in Reply
  BY <1>3 DEF Work
<1>5. /\ k \in Keys /\ T \in Seq(Keys)
      /\ \A j \in Range(w.todo) : j = k \/ j \in Range(T)
  BY <1>4, FirstAndRest
<1>6. C \in [Keys -> Code] /\ G \in [Keys -> Body]
      /\ \A j \in Keys : /\ C[j] = IF j = k THEN code ELSE q.codes[j]
                         /\ G[j] = IF j = k THEN got ELSE q.got[j]
  BY <1>4, <1>5 DEF Reply
<1> HIDE DEF C, G, T
<1>7. e \in Reply /\ e.codes = C /\ e.got = G
  <2> HIDE DEF q
  <2> QED
    BY <1>4, <1>6 DEF Reply
<1> HIDE DEF e
<1>8. v \in Work /\ v.todo = T /\ v.done = e
  BY <1>5, <1>7 DEF Work
<1> HIDE DEF v
<1>9. WorkOK(cs, applied', c, v, phase[n], arrived[n])
  <2>1. cs[c].op \notin {"me", "can", "refresh"}
    BY <1>3 DEF WorkOK
  <2>2. Op(c) = cs[c].op
    BY DEF Op
  <2>3. ASSUME cs[c].op \in Writes, NEW j \in Range(cs[c].keys), v.done.codes[j] = ""
        PROVE  <<c, j>> \in applied' \/ j \in Range(v.todo)
    <3>1. j \in Keys
      <4>1. cs[c].keys \in Seq(Keys)
        BY Known, Plain DEF Calls
      <4> QED
        BY <4>1, SeqRange
    <3>2. CASE j = k
      BY <1>6, <1>7, <1>8, <2>2, <2>3, <3>1, <3>2
    <3>3. CASE j # k
      <4>1. q.codes[j] = ""
        BY <1>6, <1>7, <1>8, <2>3, <3>1, <3>3
      <4>2. <<c, j>> \in applied \/ j \in Range(w.todo)
        BY <1>3, <2>3, <4>1 DEF WorkOK
      <4> QED
        BY <1>5, <1>8, <3>3, <4>2
    <3> QED
      BY <3>2, <3>3
  <2>4. cs[c].op \in Writes => \A j \in Keys : v.done.codes[j] # "NOT_FOUND"
    BY <1>3, <1>6, <1>7, <1>8, <2>2 DEF WorkOK
  <2>5. \A j \in Keys : v.done.codes[j] = "DRAINING" => phase[n] # "serving"
    BY <1>3, <1>6, <1>7, <1>8 DEF WorkOK
  <2>6. ASSUME NEW j \in Keys PROVE GotOK(cs, applied', c, v.done.got[j], j)
    <3>1. GotOK(cs, applied, c, q.got[j], j)
      BY <1>3 DEF WorkOK
    <3>2. GotOK(cs, applied', c, q.got[j], j)
      BY <3>1, GrowGot
    <3> QED
      BY <1>6, <1>7, <1>8, <3>2
  <2> QED
    BY <1>8, <2>1, <2>3, <2>4, <2>5, <2>6 DEF WorkOK
<1>10. /\ \A m \in Nodes : u[m] = IF m = n THEN v ELSE work[c][m]
       /\ u \in [Nodes -> Work]
  BY <1>1, <1>8
<1> HIDE DEF u
<1>11. CallOK(cs, applied', c, call[c], reply[c])
  BY <1>1, GrowCall DEF CallInv
<1>12. ASSUME NEW m \in Nodes
       PROVE  WorkOK(cs, applied', c, u[m], phase[m], arrived[m])
              /\ Untried(c, call[c], u[m], m, arrived[m])
  <2>1. CASE m = n
    BY <1>3, <1>9, <1>10, <2>1 DEF Untried
  <2>2. CASE m # n
    <3>1. /\ WorkOK(cs, applied, c, work[c][m], phase[m], arrived[m])
          /\ Untried(c, call[c], work[c][m], m, arrived[m])
      BY <1>1 DEF CallInv
    <3>2. u[m] = work[c][m] /\ applied \subseteq applied'
      BY <1>1, <1>10, <2>2
    <3>3. WorkOK(cs, applied', c, work[c][m], phase[m], arrived[m])
      BY <3>1, <3>2, GrowWork
    <3> QED
      BY <3>1, <3>2, <3>3
  <2> QED
    BY <2>1, <2>2
<1>13. Hopeful(c, call'[c], reply'[c], sound'[c], phase', arrived')
  BY StillHopeful
<1>14. CallInv(cs, applied', c, call'[c], reply'[c], work'[c], sound'[c], phase', arrived')
  BY <1>1, <1>2, <1>11, <1>12, <1>13 DEF CallInv
<1>15. StateTyped'
  BY <1>1, <1>2, <1>10 DEF ServiceInv, StateTyped, Calls
<1>16. \A d \in Calls \ {c} : Untouched(d)
  BY <1>1, <1>2 DEF Untouched
<1> QED
  BY <1>14, <1>15, <1>16, CallStep


\* The server answers the request of call c: the client takes the answer if it
\* still waits for this server.
LEMMA RespondOK ==
    ASSUME ServiceInv, Soundness, NEW c \in Calls, NEW n \in Nodes, c \in arrived[n],
           NEW r, Respond(c, n, r), ReplyOK(scenario.calls, applied, c, r),
           r.status # 0, r.status = 503 => phase[n] # "serving",
           UNCHANGED <<scenario, phase, endpoints, call, store, applied>>
    PROVE  ServiceInv'
<1> DEFINE cs == scenario.calls
           x == call[c]
           taken == x.pc = "wait" /\ x.at = n
           A == arrived[n] \ {c}
           u == [work[c] EXCEPT ![n] = NoWork]
<1>1. work \in [Calls -> [Nodes -> Work]] /\ arrived \in [Nodes -> SUBSET Calls]
      /\ CallInv(cs, applied, c, x, reply[c], work[c], sound[c], phase, arrived)
  BY DEF ServiceInv, StateTyped
<1>2. /\ work' = [work EXCEPT ![c] = u] /\ arrived' = [arrived EXCEPT ![n] = A]
      /\ reply' = IF taken THEN [reply EXCEPT ![c] = r] ELSE reply
  BY <1>1 DEF Respond
<1>3. r \in Reply
  BY DEF ReplyOK
<1>4. /\ \A m \in Nodes : u[m] = IF m = n THEN NoWork ELSE work[c][m]
      /\ u \in [Nodes -> Work]
  BY <1>1, NoReplyOK
<1>5. A \in SUBSET Calls /\ c \notin A /\ \A d \in Calls \ {c} : d \in A <=> d \in arrived[n]
  BY <1>1
<1> HIDE DEF u, A
<1>6. StateTyped'
  BY <1>1, <1>2, <1>3, <1>4, <1>5 DEF ServiceInv, StateTyped, Calls
<1>7. \A d \in Calls \ {c} : Untouched(d)
  BY <1>1, <1>2, <1>5, Known DEF Untouched
<1>8. WorkOK(cs, applied, c, NoWork, phase[n], A)
  <2>1. NoWork.done = NoReply /\ \A k \in Keys : NoReply.codes[k] = ""
    BY DEF NoReply, NoWork
  <2> QED
    BY <1>5, <2>1, NoReplyOK, NoReplyTrue DEF WorkOK, GotOK
<1>9. ASSUME NEW m \in Nodes
      PROVE  WorkOK(cs, applied, c, u[m], phase[m], arrived'[m])
             /\ Untried(c, x, u[m], m, arrived'[m])
  <2>1. CASE m = n
    BY <1>1, <1>2, <1>4, <1>5, <1>8, <2>1 DEF Untried
  <2>2. CASE m # n
    BY <1>1, <1>2, <1>4, <2>2 DEF Untried, CallInv
  <2> QED
    BY <2>1, <2>2
<1>10. CallOK(cs, applied, c, x, reply'[c]) /\ Hopeful(c, x, reply'[c], sound'[c], phase, arrived')
  <2>1. CASE taken
    <3>1. reply'[c] = r
      BY <1>2, <2>1, Known
    <3>2. CallOK(cs, applied, c, x, r)
      BY <2>1, Known DEF CallOK
    <3>3. /\ sound'[c] \subseteq sound[c] /\ \A m \in sound'[c] : phase[m] = "serving"
          /\ n \in sound'[c] => r.status # 500
      BY <2>1, <3>1, SoundStep
    <3>4. n \in sound'[c] => r.status < 500
      <4>1. r.status \in StatusCode
        BY <1>3 DEF Reply
      <4>2. n \in sound'[c] => r.status \notin {500, 503}
        BY <3>3
      <4> QED
        BY <4>1, <4>2 DEF StatusCode
    <3>5. Hopeful(c, x, r, sound'[c], phase, arrived')
      BY <2>1, <3>3, <3>4, Known DEF Hopeful
    <3> QED
      BY <3>1, <3>2, <3>5
  <2>2. CASE ~taken
    <3>1. reply' = reply
      BY <1>2, <2>2
    <3>2. x.pc = "wait" => x.at # n
      BY <2>2
    <3>3. CallOK(cs, applied, c, x, reply'[c])
      BY <3>1, Known
    <3>4. Hopeful(c, x, reply[c], sound'[c], phase, arrived')
      <4>1. Hopeful(c, x, reply[c], sound[c], phase, arrived) /\ x.pc # "idle"
        BY <1>1 DEF CallInv, Untried
      <4>2. sound'[c] \subseteq sound[c] /\ \A m \in sound'[c] : phase[m] = "serving"
        BY <4>1, SoundStep
      <4>3. x.pc = "wait" => x.at \in Nodes /\ arrived'[x.at] = arrived[x.at]
        BY <1>1, <1>2, <3>2, Known DEF CallOK
      <4> QED
        BY <4>1, <4>2, <4>3 DEF Hopeful
    <3> QED
      BY <3>1, <3>3, <3>4
  <2> QED
    BY <2>1, <2>2
<1>11. call' = call /\ work'[c] = u /\ phase' = phase
  BY <1>1, <1>2
<1>12. CallInv(cs, applied', c, call'[c], reply'[c], work'[c], sound'[c], phase', arrived')
  BY <1>9, <1>10, <1>11 DEF CallInv
<1>13. StoreOK(cs, applied', store') /\ AppliedOK(cs, applied') /\ applied \subseteq applied'
  BY DEF ServiceInv
<1> QED
  BY <1>6, <1>7, <1>12, <1>13, CallStep

\* The store, and the writes applied.
LEMMA PutStore ==
    ASSUME NEW cs, NEW ap, NEW more, ap \subseteq more, NEW st, StoreOK(cs, ap, st),
           NEW k \in Keys, NEW b \in Body, b = NoBody \/ Puts(cs, more, b, k)
    PROVE  StoreOK(cs, more, [st EXCEPT ![k] = b]) /\ StoreOK(cs, more, st)
<1>1. StoreOK(cs, more, st)
  BY GrowGot DEF StoreOK
<1>2. [st EXCEPT ![k] = b] \in [Keys -> Body]
      /\ \A j \in Keys : [st EXCEPT ![k] = b][j] = IF j = k THEN b ELSE st[j]
  BY DEF StoreOK
<1> QED
  BY <1>1, <1>2 DEF StoreOK

LEMMA MayWrite ==
    ASSUME NEW cs, NEW ap, NEW more, AppliedOK(cs, ap), NEW c, NEW k, ~Harmless(cs, c),
           more \subseteq ap \cup {<<c, k>>}
    PROVE  AppliedOK(cs, more)
<1> SUFFICES ASSUME NEW d \in DOMAIN cs, NEW j \in Keys, <<d, j>> \in more
             PROVE  ~Harmless(cs, d)
  BY DEF AppliedOK
<1>1. <<d, j>> \in ap \/ d = c
  OBVIOUS
<1> QED
  BY <1>1 DEF AppliedOK

LEMMA BodyPut ==
    ASSUME scenario \in Scenarios, NEW c \in Calls, NEW ap, NEW k, <<c, k>> \in ap
    PROVE  BodyOf(c) \in Body /\ Puts(scenario.calls, ap, BodyOf(c), k)
<1> DEFINE cs == scenario.calls
           d == cs[c].depth
           b == [of |-> c, depth |-> d]
<1>1. c \in Nat /\ d \in Nat /\ c \in DOMAIN cs
  BY Plain DEF Calls
<1>2. BodyOf(c) = b
  BY DEF BodyOf
<1> HIDE DEF cs, d
<1>3. b \in Body /\ b.of = c
  BY <1>1 DEF Body
<1>4. b = [of |-> b.of, depth |-> cs[b.of].depth]
  BY <1>3 DEF d
<1> QED
  BY <1>1, <1>2, <1>3, <1>4 DEF Puts, cs

LEMMA WriteApplied ==
    ASSUME ServiceInv, NEW c \in Calls, NEW k \in Keys, ~Harmless(scenario.calls, c),
           applied' = applied \cup {<<c, k>>},
           store' = handlePut(c, k) \/ store' = handleDelete(k)
    PROVE  StoreOK(scenario.calls, applied', store') /\ AppliedOK(scenario.calls, applied')
<1> DEFINE cs == scenario.calls
           more == applied \cup {<<c, k>>}
<1>1. StoreOK(cs, applied, store) /\ AppliedOK(cs, applied) /\ scenario \in Scenarios
  BY DEF ServiceInv, StateTyped
<1>2. applied \subseteq more /\ more \subseteq applied \cup {<<c, k>>} /\ <<c, k>> \in more
      /\ applied' = more /\ NoBody \in Body
  BY NoReplyOK
<1>3. BodyOf(c) \in Body /\ Puts(cs, more, BodyOf(c), k)
  BY <1>1, <1>2, BodyPut
<1>4. store' = [store EXCEPT ![k] = BodyOf(c)] \/ store' = [store EXCEPT ![k] = NoBody]
  BY DEF handlePut, handleDelete
<1>5. ~Harmless(cs, c)
  OBVIOUS
<1> HIDE DEF cs, more
<1>6. AppliedOK(cs, more)
  BY <1>1, <1>2, <1>5, MayWrite
<1>7. StoreOK(cs, more, [store EXCEPT ![k] = NoBody])
  BY <1>1, <1>2, PutStore
<1>8. StoreOK(cs, more, [store EXCEPT ![k] = BodyOf(c)])
  BY <1>1, <1>2, <1>3, PutStore
<1>9. StoreOK(cs, applied', store')
  BY <1>2, <1>4, <1>7, <1>8
<1> QED
  BY <1>2, <1>6, <1>9 DEF cs

\* hc.Set and hc.Remove on one key.
LEMMA handleWriteOK ==
    ASSUME ServiceInv, Soundness, NEW c \in Calls, NEW n \in Nodes, c \in arrived[n],
           NEW k, work[c][n].todo # <<>>, k = Head(work[c][n].todo),
           ~Harmless(scenario.calls, c), handleWrite(c, n, k),
           UNCHANGED <<scenario, phase, arrived, endpoints, call, reply>>
    PROVE  ServiceInv'
<1>1. StoreOK(scenario.calls, applied, store) /\ AppliedOK(scenario.calls, applied)
  BY DEF ServiceInv
<1>2. k \in Keys
  <2>1. work[c][n].todo \in Seq(Keys)
    BY DEF ServiceInv, StateTyped, Work
  <2> QED
    BY <2>1, FirstAndRest
<1>3. NoBody \in Body /\ GotOK(scenario.calls, applied', c, NoBody, k)
  BY NoReplyOK DEF GotOK
<1>4. PICK code \in {"", "DRAINING", "INTERNAL"} :
         /\ Did(c, n, k, code, NoBody) /\ (code = "DRAINING" => phase[n] # "serving")
         /\ \/ code # "" /\ UNCHANGED <<store, applied>>
            \/ /\ applied' = applied \cup {<<c, k>>}
               /\ store' = handlePut(c, k) \/ store' = handleDelete(k)
  BY DEF handleWrite
<1>5. code \in Code /\ code # "NOT_FOUND"
  BY DEF Code
<1>6. /\ Did(c, n, k, code, NoBody) /\ (code = "DRAINING" => phase[n] # "serving")
      /\ applied \subseteq applied' /\ (code = "" => <<c, k>> \in applied')
  BY <1>4
<1>7. StoreOK(scenario.calls, applied', store') /\ AppliedOK(scenario.calls, applied')
  <2>1. CASE UNCHANGED <<store, applied>>
    BY <1>1, <2>1
  <2>2. CASE /\ applied' = applied \cup {<<c, k>>}
             /\ store' = handlePut(c, k) \/ store' = handleDelete(k)
    BY <1>2, <2>2, WriteApplied
  <2> QED
    BY <1>4, <2>1, <2>2
<1> QED
  BY <1>3, <1>5, <1>6, <1>7, KeyDone

\* hc.Get on one key: what is sent is a value that was put, in an envelope
\* unless the route is the plain get.
LEMMA handleReadOK ==
    ASSUME ServiceInv, Soundness, NEW c \in Calls, NEW n \in Nodes, c \in arrived[n],
           NEW k, work[c][n].todo # <<>>, k = Head(work[c][n].todo),
           Op(c) \notin Writes, handleRead(c, n, k),
           UNCHANGED <<scenario, phase, arrived, endpoints, call, reply>>
    PROVE  ServiceInv'
<1> DEFINE cs == scenario.calls
<1>1. StoreOK(cs, applied, store) /\ AppliedOK(cs, applied) /\ scenario \in Scenarios
      /\ UNCHANGED <<store, applied>>
  BY DEF ServiceInv, StateTyped, handleRead
<1>2. k \in Keys /\ WorkOK(cs, applied, c, work[c][n], phase[n], arrived[n])
  <2>1. work[c][n].todo \in Seq(Keys)
    BY DEF ServiceInv, StateTyped, Work
  <2> QED
    BY <2>1, FirstAndRest DEF ServiceInv, CallInv
<1>3. cs[c].op = Op(c) /\ cs[c].op \in {"get", "item", "batchGet"}
  BY <1>1, <1>2, Plain DEF WorkOK, Op, Ops, Writes, Calls
<1>4. CASE Did(c, n, k, "NOT_FOUND", NoBody)
  <2>1. NoBody \in Body /\ GotOK(cs, applied', c, NoBody, k) /\ "NOT_FOUND" \in Code
    BY NoReplyOK DEF GotOK, Code
  <2> QED
    BY <1>1, <1>4, <2>1, KeyDone
<1>5. ASSUME store[k] # NoBody, NEW v \in Carried(store[k]),
             Did(c, n, k, "", handleGet(c, v))
      PROVE  ServiceInv'
  <2> DEFINE b == store[k]
             g == handleGet(c, v)
  <2>1. b \in Body /\ Puts(cs, applied, b, k)
    BY <1>1, <1>2, <1>5 DEF StoreOK
  <2>2. b.depth >= 0
    <3>1. b.of \in DOMAIN cs /\ b = [of |-> b.of, depth |-> cs[b.of].depth]
      BY <2>1 DEF Puts
    <3>2. cs[b.of].depth \in Nat
      BY <1>1, <3>1, Plain
    <3>3. b.depth = cs[b.of].depth
      <4> HIDE DEF b, cs
      <4> QED
        BY <3>1
    <3>4. b.depth \in Nat
      <4> HIDE DEF b, cs
      <4> QED
        BY <3>2, <3>3
    <3> HIDE DEF b
    <3> QED
      BY <3>4
  <2>3. itemValueAsBytes(v) = b
    BY <1>5, <2>1, <2>2, ReadBack
  <2>4. g \in Body /\ GotOK(cs, applied, c, g, k)
    <3>1. CASE Op(c) = "get"
      <4>1. g = b
        BY <2>3, <3>1 DEF handleGet, writeValue
      <4> QED
        BY <1>3, <2>1, <3>1, <4>1 DEF GotOK
    <3>2. CASE Op(c) # "get"
      <4>1. g = Encode(b)
        BY <2>3, <3>2 DEF handleGet, buildEnvelope
      <4>2. g \in Body /\ Decode(g) = b
        BY <2>1, <4>1, Envelope
      <4> QED
        BY <1>3, <2>1, <3>2, <4>2 DEF GotOK
    <3> QED
      BY <3>1, <3>2
  <2> HIDE DEF g, b
  <2>5. "" \in Code
    BY DEF Code
  <2>6. Did(c, n, k, "", g)
    BY <1>5 DEF g
  <2> QED
    BY <1>1, <2>4, <2>5, <2>6, KeyDone
<1> QED
  BY <1>4, <1>5 DEF handleRead


\* An answer that has nothing but a status and members.
LEMMA BareReply ==
    ASSUME NEW cs, NEW ap, NEW c, NEW r \in Reply, r.got = NoReply.got,
           r.status \in {200, 401, 403, 404},
           r.status = 200 => cs[c].op \notin Writes /\ cs[c].op # "can",
           r.status # 200 => Harmless(cs, c)
    PROVE  ReplyOK(cs, ap, c, r)
<1>1. \A k \in Keys : GotOK(cs, ap, c, r.got[k], k)
  BY NoReplyTrue DEF GotOK
<1>2. r.status \in {401, 403, 404} => r.status # 200
  OBVIOUS
<1>3. r.status = 200 => cs[c].op \notin Writes /\ ~(cs[c].op = "can")
  OBVIOUS
<1>4. r.status \in {401, 403, 404} => Harmless(cs, c)
  BY <1>2
<1>5. Truthful(cs, ap, c, r)
  BY <1>3, <1>4, Zenon DEF Truthful
<1> QED
  BY <1>1, <1>5 DEF ReplyOK

\* A capability is a scope, so can says what the middleware would do.
LEMMA CanTrue ==
    ASSUME NEW cred
    PROVE  /\ HasCapability(cred, "write") \in BOOLEAN
           /\ HasCapability(cred, "write") <=> Verify(cred, "write") = 200
           /\ \A scope : Verify(cred, scope) \in {200, 401, 403}
<1>1. HasCapability(cred, "write") <=> "write" \in resolve(cred).scopes
  BY DEF HasCapability
<1>2. resolve(cred) = Nobody => "write" \notin resolve(cred).scopes
  <2>1. Nobody.scopes = {}
    BY Zenon DEF Nobody
  <2> QED
    BY <2>1
<1>3. HasCapability(cred, "write") \in BOOLEAN
  BY DEF HasCapability
<1>4. \A scope : Verify(cred, scope) = IF resolve(cred) = Nobody THEN 401
                                      ELSE IF scope \notin resolve(cred).scopes THEN 403
                                      ELSE 200
  BY DEF Verify
<1>5. "write" \in resolve(cred).scopes <=> Verify(cred, "write") = 200
  BY <1>2, <1>4
<1>6. \A scope : Verify(cred, scope) \in {200, 401, 403}
  BY <1>4
<1> QED
  BY <1>1, <1>3, <1>5, <1>6, Zenon

LEMMA Classified ==
    ASSUME NEW code \in Code
    PROVE  /\ classify(code) \in {200, 404, 500, 503}
           /\ classify(code) = 503 => code = "DRAINING"
           /\ classify(code) = 404 => code = "NOT_FOUND"
<1>1. CASE code = ""
  <2>1. classify(code) = 200
    BY <1>1 DEF classify
  <2> QED
    BY <2>1
<1>2. CASE code = "DRAINING"
  BY <1>2 DEF classify
<1>3. CASE code = "NOT_FOUND"
  BY <1>3 DEF classify
<1>4. CASE code = "INTERNAL"
  BY <1>4 DEF classify
<1> QED
  BY <1>1, <1>2, <1>3, <1>4 DEF Code

LEMMA StatusGiven ==
    ASSUME scenario \in Scenarios, NEW c \in Calls, NEW codes \in [Keys -> Code]
    PROVE  /\ Status(c, codes) \in {200, 404, 500, 503}
           /\ Status(c, codes) = 503 => \E k \in Keys : codes[k] = "DRAINING"
           /\ Status(c, codes) = 404 => \E k \in Keys : codes[k] = "NOT_FOUND"
<1>1. CASE Op(c) \in Batches \/ Wanted(c) = <<>>
  BY <1>1 DEF Status
<1>2. CASE ~(Op(c) \in Batches \/ Wanted(c) = <<>>)
  <2> DEFINE k == Head(Wanted(c))
  <2>1. Status(c, codes) = classify(codes[k])
    BY <1>2 DEF Status
  <2>2. Wanted(c) \in Seq(Keys)
    BY Plain DEF Wanted, Calls
  <2>3. k \in Keys
    BY <1>2, <2>2, FirstAndRest
  <2> HIDE DEF k
  <2> QED
    BY <2>1, <2>3, Classified
<1> QED
  BY <1>1, <1>2

\* The answer to a request that has been worked through.
LEMMA WorkedReply ==
    ASSUME ServiceInv, NEW c \in Calls, NEW n \in Nodes, c \in arrived[n],
           work[c][n].todo = <<>>, NEW r \in Reply,
           r.status = Status(c, work[c][n].done.codes), r.codes = work[c][n].done.codes,
           r.got = work[c][n].done.got, r.yes <=> Verify(scenario.calls[c].cred, "write") = 200
    PROVE  /\ ReplyOK(scenario.calls, applied, c, r) /\ r.status # 0
           /\ r.status = 503 => phase[n] # "serving"
<1> DEFINE cs == scenario.calls
           q == work[c][n].done
<1>1. WorkOK(cs, applied, c, work[c][n], phase[n], arrived[n]) /\ scenario \in Scenarios
  BY DEF ServiceInv, StateTyped, CallInv
<1>2. q.codes \in [Keys -> Code]
  BY <1>1 DEF WorkOK, Work, Reply
<1>3. /\ r.status \in {200, 404, 500, 503}
      /\ r.status = 503 => \E k \in Keys : q.codes[k] = "DRAINING"
      /\ r.status = 404 => \E k \in Keys : q.codes[k] = "NOT_FOUND"
  BY <1>1, <1>2, StatusGiven
<1>4. ASSUME cs[c].op \in Writes, NEW k \in Range(cs[c].keys), r.codes[k] = ""
      PROVE  <<c, k>> \in applied
  <2>1. \A j : j \notin Range(work[c][n].todo)
    BY DEF Range
  <2>2. \A j \in Range(cs[c].keys) :
          q.codes[j] = "" => <<c, j>> \in applied \/ j \in Range(work[c][n].todo)
    BY <1>1, <1>4 DEF WorkOK
  <2> QED
    BY <1>4, <2>1, <2>2
<1>5. r.status = 404 => Harmless(cs, c)
  BY <1>1, <1>3 DEF WorkOK, Harmless
<1>6. r.status \notin {401, 403} /\ r.status # 0
  BY <1>3
<1>7. Truthful(cs, applied, c, r)
  BY <1>4, <1>5, <1>6, Zenon DEF Truthful
<1>8. \A k \in Keys : GotOK(cs, applied, c, r.got[k], k)
  BY <1>1 DEF WorkOK
<1>9. r.status = 503 => phase[n] # "serving"
  BY <1>1, <1>3 DEF WorkOK
<1> QED
  BY <1>6, <1>7, <1>8, <1>9 DEF ReplyOK

LEMMA ServeOK ==
    ASSUME ServiceInv, Soundness, NEW c \in Calls, NEW n \in Nodes, Serve(c, n)
    PROVE  ServiceInv'
<1> DEFINE cs == scenario.calls
           w == work[c][n]
           verdict == IF Op(c) = "refresh" /\ ~scenario.membersRoute THEN 200
                      ELSE Verify(Cred(c), Required(Op(c)))
<1>1. /\ c \in arrived[n] /\ UNCHANGED <<scenario, phase, endpoints, call>>
      /\ Op(c) = cs[c].op /\ Cred(c) = cs[c].cred
  BY DEF Serve, Op, Cred
<1>2. CASE /\ verdict # 200 /\ Respond(c, n, [NoReply EXCEPT !.status = verdict])
           /\ UNCHANGED <<store, applied>>
  <2>1. verdict \in {401, 403}
    BY <1>2, CanTrue
  <2>2. Harmless(cs, c)
    BY <1>1, <1>2 DEF Harmless, Required, Writes
  <2> DEFINE r == [NoReply EXCEPT !.status = verdict]
  <2> HIDE DEF verdict
  <2>3. ReplyOK(cs, applied, c, r) /\ r.status = verdict
    <3>1. verdict \in StatusCode /\ NoReply \in Reply
      BY <2>1, NoReplyOK DEF StatusCode
    <3>2. r \in Reply /\ r.status = verdict /\ r.got = NoReply.got
      BY <3>1 DEF Reply
    <3> HIDE DEF r
    <3> QED
      BY <2>1, <2>2, <3>2, BareReply
  <2>4. Respond(c, n, r)
    BY <1>2
  <2> HIDE DEF r
  <2>5. r.status # 0 /\ r.status # 503
    BY <2>1, <2>3
  <2> QED
    BY <1>1, <1>2, <2>3, <2>4, <2>5, RespondOK
<1>3. CASE /\ verdict = 200 /\ w.todo # <<>>
           /\ IF Op(c) \in Writes THEN handleWrite(c, n, Head(w.todo))
              ELSE handleRead(c, n, Head(w.todo))
           /\ UNCHANGED <<reply, arrived>>
  <2>1. CASE Op(c) \in Writes
    <3>1. ~Harmless(cs, c)
      BY <1>1, <1>3, <2>1 DEF Harmless, Required, Writes
    <3> QED
      BY <1>1, <1>3, <2>1, <3>1, handleWriteOK
  <2>2. CASE Op(c) \notin Writes
    BY <1>1, <1>3, <2>2, handleReadOK
  <2> QED
    BY <2>1, <2>2
<1>4. CASE /\ Op(c) = "refresh" /\ handleMembers(c, n) /\ UNCHANGED <<store, applied>>
  <2>1. Harmless(cs, c) /\ cs[c].op \notin Writes /\ cs[c].op # "can"
    BY <1>1, <1>4 DEF Harmless, Writes
  <2>2. CASE Respond(c, n, [NoReply EXCEPT !.status = 404])
    <3> DEFINE r == [NoReply EXCEPT !.status = 404]
    <3>1. ReplyOK(cs, applied, c, r) /\ r.status = 404
      <4>1. r \in Reply /\ r.status = 404 /\ r.got = NoReply.got
        BY NoReplyOK DEF Reply, StatusCode
      <4> HIDE DEF r
      <4> QED
        BY <2>1, <4>1, BareReply
    <3>2. Respond(c, n, r)
      BY <2>2
    <3> HIDE DEF r
    <3> QED
      BY <1>1, <1>4, <3>1, <3>2, RespondOK
  <2>3. ASSUME NEW S \in SUBSET Nodes,
               Respond(c, n, [NoReply EXCEPT !.status = 200, !.nodes = S])
        PROVE  ServiceInv'
    <3> DEFINE r == [NoReply EXCEPT !.status = 200, !.nodes = S]
    <3>1. ReplyOK(cs, applied, c, r) /\ r.status = 200
      <4>1. r \in Reply /\ r.status = 200 /\ r.got = NoReply.got
        <5>1. NoReply \in Reply /\ 200 \in StatusCode
          BY NoReplyOK DEF StatusCode
        <5> QED
          BY <5>1 DEF Reply
      <4> HIDE DEF r
      <4> QED
        BY <2>1, <4>1, BareReply
    <3>2. Respond(c, n, r)
      BY <2>3
    <3> HIDE DEF r
    <3> QED
      BY <1>1, <1>4, <3>1, <3>2, RespondOK
  <2> QED
    BY <1>4, <2>2, <2>3 DEF handleMembers
<1>5. CASE /\ verdict = 200 /\ w.todo = <<>> /\ Op(c) # "refresh"
           /\ Respond(c, n, [w.done EXCEPT !.status = Status(c, w.done.codes),
                                           !.yes = HasCapability(Cred(c), "write")])
           /\ UNCHANGED <<store, applied>>
  <2> DEFINE st == Status(c, w.done.codes)
             y == HasCapability(Cred(c), "write")
             r == [w.done EXCEPT !.status = st, !.yes = y]
  <2>1. w.done \in Reply /\ st \in StatusCode
    <3>1. w.done \in Reply /\ scenario \in Scenarios
      BY DEF ServiceInv, StateTyped, Work
    <3>2. w.done.codes \in [Keys -> Code]
      BY <3>1 DEF Reply
    <3> QED
      BY <3>1, <3>2, StatusGiven DEF StatusCode
  <2>2. y \in BOOLEAN /\ (y <=> Verify(cs[c].cred, "write") = 200)
    BY <1>1, CanTrue
  <2>3. Respond(c, n, r)
    BY <1>5
  <2> HIDE DEF st, y
  <2>4. /\ r \in Reply /\ r.status = st /\ r.codes = w.done.codes /\ r.got = w.done.got
        /\ r.yes = y
    <3> DEFINE q == w.done
    <3> HIDE DEF q
    <3> QED
      BY <2>1, <2>2 DEF Reply, q
  <2> HIDE DEF r
  <2>5. r.yes <=> Verify(cs[c].cred, "write") = 200
    BY <2>2, <2>4
  <2>6. /\ ReplyOK(cs, applied, c, r) /\ r.status # 0
        /\ r.status = 503 => phase[n] # "serving"
    BY <1>1, <1>5, <2>4, <2>5, WorkedReply DEF st
  <2> QED
    BY <1>1, <1>5, <2>3, <2>6, RespondOK
<1> QED
  BY <1>2, <1>3, <1>4, <1>5 DEF Serve


-----------------------------------------------------------------------------
(***************************************************************************)
(* Processes and streams                                                   *)
(***************************************************************************)
\* A step that moves no call: servers stop or die, and take requests with them.
LEMMA NoCallMoves ==
    ASSUME ServiceInv, Soundness,
           UNCHANGED <<scenario, endpoints, call, work, reply, store, applied>>,
           phase' \in [Nodes -> Phase], arrived' \in [Nodes -> SUBSET Calls],
           \A n \in Nodes : /\ phase'[n] = "serving" => phase[n] = "serving"
                            /\ arrived'[n] \subseteq arrived[n]
                            /\ phase'[n] = "serving" => arrived'[n] = arrived[n]
    PROVE  ServiceInv'
<1>1. StateTyped'
  BY DEF ServiceInv, StateTyped, Calls
<1>2. \A d \in Calls : Untouched(d)
  BY DEF Untouched
<1>3. applied \subseteq applied' /\ \A n \in Nodes : phase'[n] = "serving" => phase[n] = "serving"
  OBVIOUS
<1>4. \A d \in Calls : CallInv(scenario.calls, applied', d, call'[d], reply'[d], work'[d],
                               sound'[d], phase', arrived')
  BY <1>2, <1>3, Elsewhere
<1> QED
  BY <1>1, <1>4 DEF ServiceInv, Calls

LEMMA ProcessOK ==
    ASSUME ServiceInv, NEW n \in Nodes,
           \/ Process(awaitShutdown(n)) \/ Process(DistDrain(n)) \/ Process(Crash(n))
    PROVE  ServiceInv'
<1>1. Soundness /\ UNCHANGED <<scenario, endpoints, call, work, reply, store, applied>>
  BY DEF Process, awaitShutdown, CloseApi, ApiClosed, Stop, CancelStreams, MgmtClosed,
         DistDrain, Crash
<1>2. PICK to \in Phase \ {"serving"} : phase' = [phase EXCEPT ![n] = to]
  BY DEF Process, awaitShutdown, CloseApi, ApiClosed, Stop, CancelStreams, MgmtClosed,
         DistDrain, Crash, Reach, Phase
<1>3. arrived' = arrived \/ arrived' = [arrived EXCEPT ![n] = {}]
  BY DEF Process, awaitShutdown, CloseApi, ApiClosed, Stop, CancelStreams, MgmtClosed,
         DistDrain, Crash
<1>4. phase \in [Nodes -> Phase] /\ arrived \in [Nodes -> SUBSET Calls]
  BY DEF ServiceInv, StateTyped
<1>5. /\ phase' \in [Nodes -> Phase] /\ arrived' \in [Nodes -> SUBSET Calls]
      /\ \A m \in Nodes : /\ phase'[m] = "serving" => phase[m] = "serving"
                          /\ arrived'[m] \subseteq arrived[m]
                          /\ phase'[m] = "serving" => arrived'[m] = arrived[m]
  BY <1>2, <1>3, <1>4
<1> QED
  BY <1>1, <1>5, NoCallMoves

\* The worker pool runs beside the requests.
LEMMA PoolOK ==
    ASSUME ServiceInv, NEW n \in Nodes, Process(HandOver(n)) \/ Process(JobReturns(n))
    PROVE  ServiceInv'
<1>1. /\ Soundness
      /\ UNCHANGED <<scenario, phase, arrived, endpoints, call, work, reply, store, applied>>
  BY DEF Process, HandOver, JobReturns
<1>2. phase \in [Nodes -> Phase] /\ arrived \in [Nodes -> SUBSET Calls]
  BY DEF ServiceInv, StateTyped
<1> QED
  BY <1>1, <1>2, NoCallMoves

LEMMA CloseOK ==
    ASSUME ServiceInv, Soundness, Close \/ CloseReturns
    PROVE  ServiceInv'
<1>1. UNCHANGED <<scenario, phase, arrived, endpoints, call, work, reply, store, applied>>
  BY DEF Close, CloseReturns, ClientOnly, nodeVars
<1>2. phase \in [Nodes -> Phase] /\ arrived \in [Nodes -> SUBSET Calls]
  BY DEF ServiceInv, StateTyped
<1> QED
  BY <1>1, <1>2, NoCallMoves

LEMMA EventsOK ==
    ASSUME ServiceInv,
           \/ Events(EventStep) \/ Events(Mutate) \/ Events(heartbeatTick)
           \/ \E s \in scenario.streams : Events(Connect(s)) \/ Events(Leave(s))
           \/ UNCHANGED vars
    PROVE  ServiceInv'
<1>1. UNCHANGED apiVars
  BY DEF Events, vars
<1>2. UNCHANGED <<scenario, phase, arrived>>
  BY DEF Events, vars, nodeVars, EventStep, Mutate, heartbeatTick, Connect, Leave,
         membersSnapshot, PublishStep, writeInitialFrames, streamEventsLoop, unsub, StreamEnds
<1>3. UNCHANGED <<endpoints, call, work, reply, store, applied, sound>>
  BY <1>1 DEF apiVars
<1> QED
  BY <1>2, <1>3 DEF ServiceInv, StateTyped, Calls

-----------------------------------------------------------------------------
LEMMA ServiceInit == ASSUME Init PROVE ServiceInv
<1> DEFINE x == [pc |-> "idle", untried |-> {}, at |-> 0, timedOut |-> {}, out |-> NoReply]
           w == [n \in Nodes |-> NoWork]
<1>1. /\ scenario \in Scenarios /\ endpoints = scenario.seeds /\ applied = {}
      /\ phase = [n \in Nodes |-> "serving"] /\ arrived = [n \in Nodes |-> {}]
      /\ call = [c \in Calls |-> x] /\ reply = [c \in Calls |-> NoReply]
      /\ work = [c \in Calls |-> w] /\ store = [k \in Keys |-> NoBody]
      /\ sound = [c \in Calls |-> {}]
  BY DEF Init, run, NewClient
<1>2. x \in Call /\ x.pc = "idle" /\ x.out = NoReply
  BY NoReplyOK DEF Call
<1>3. w \in [Nodes -> Work] /\ \A n \in Nodes : w[n] = NoWork
  BY NoReplyOK
<1> HIDE DEF x, w
<1>4. "serving" \in Phase
  BY DEF Phase
<1>5. endpoints \in SUBSET Nodes
  BY <1>1, ScenarioAssumption
<1>6. StateTyped
  BY <1>1, <1>2, <1>3, <1>4, <1>5, NoReplyOK DEF StateTyped
<1>7. StoreOK(scenario.calls, applied, store) /\ AppliedOK(scenario.calls, applied)
  BY <1>1, NoReplyOK DEF StoreOK, AppliedOK
<1>8. ASSUME NEW c \in Calls
      PROVE  CallInv(scenario.calls, applied, c, x, NoReply, w, {}, phase, arrived)
  <2>1. CallOK(scenario.calls, applied, c, x, NoReply)
    BY <1>2, NoReplyTrue DEF CallOK
  <2>2. Hopeful(c, x, NoReply, {}, phase, arrived)
    BY <1>2 DEF Hopeful
  <2>3. ASSUME NEW n \in Nodes
        PROVE  WorkOK(scenario.calls, applied, c, NoWork, phase[n], arrived[n])
    <3>1. NoWork.done = NoReply /\ \A k \in Keys : NoReply.codes[k] = ""
      BY DEF NoReply, NoWork
    <3>2. c \notin arrived[n]
      BY <1>1
    <3> QED
      BY <3>1, <3>2, NoReplyOK, NoReplyTrue DEF WorkOK, GotOK
  <2>4. \A n \in Nodes : Untried(c, x, NoWork, n, arrived[n])
    BY <1>1 DEF Untried
  <2> QED
    BY <1>3, <2>1, <2>2, <2>3, <2>4 DEF CallInv
<1>9. \A c \in Calls : CallInv(scenario.calls, applied, c, call[c], reply[c], work[c], sound[c],
                               phase, arrived)
  BY <1>1, <1>8
<1> QED
  BY <1>6, <1>7, <1>9 DEF ServiceInv

LEMMA ServiceNext == ASSUME ServiceInv, [Next]_vars PROVE ServiceInv'
<1>1. CASE \E n \in Nodes : \/ Process(awaitShutdown(n)) \/ Process(DistDrain(n))
                            \/ Process(Crash(n))
  BY <1>1, ProcessOK
<1>2. CASE \E c \in Calls : Api(ClientStep(c)) \/ Api(do(c)) \/ Api(Timeout(c))
  BY <1>2, doOK, tryOnceOK, ExhaustedOK, BrokenOK, receiveOK, TimeoutOK DEF Api, ClientStep
<1>3. CASE \E c \in Calls, n \in Nodes : Api(Serve(c, n))
  BY <1>3, ServeOK DEF Api
<1>4. CASE Api(Close) \/ Api(CloseReturns)
  BY <1>4, CloseOK DEF Api
<1>5. CASE \/ Events(EventStep) \/ Events(Mutate) \/ Events(heartbeatTick)
           \/ \E s \in scenario.streams : Events(Connect(s)) \/ Events(Leave(s))
           \/ UNCHANGED vars
  BY <1>5, EventsOK
<1>6. CASE \E n \in Nodes : Process(HandOver(n)) \/ Process(JobReturns(n))
  BY <1>6, PoolOK
<1> QED
  BY <1>1, <1>2, <1>3, <1>4, <1>5, <1>6 DEF Next, System, Environment

LEMMA ServiceStays == Spec => []ServiceInv
<1>1. ServiceInv /\ [Next]_vars => ServiceInv'
  BY ServiceNext
<1> QED
  BY <1>1, ServiceInit, PTL DEF Spec

-----------------------------------------------------------------------------
(***************************************************************************)
(* What a method of the SDK returns is what happened at the servers, for   *)
(* every retry, timeout, crash and drain on the way (client.go: do and     *)
(* tryOnce; main.go: the handlers of the client API).                      *)
(***************************************************************************)
THEOREM AnswersAreTrue == Spec => []AnswersTrue
<1>1. ASSUME ServiceInv PROVE AnswersTrue
  <2> SUFFICES ASSUME NEW c \in Calls, call[c].pc = "done"
               PROVE
        LET r == call[c].out
        IN  /\ Op(c) \in Writes /\ r.status = 200 =>
                 \A k \in Range(Wanted(c)) : r.codes[k] = "" => <<c, k>> \in applied
            /\ r.status \in 400..499 => \A k \in Keys : <<c, k>> \notin applied
            /\ \A k \in Keys : r.got[k] # NoBody =>
                 r.got[k].of \in Calls /\ r.got[k] = BodyOf(r.got[k].of)
                 /\ <<r.got[k].of, k>> \in applied
            /\ Op(c) = "can" /\ r.status = 200 => r.yes = (Verify(Cred(c), "write") = 200)
    BY DEF AnswersTrue
  <2> DEFINE r == call[c].out
             cs == scenario.calls
  <2>1. OutOK(cs, applied, c, r) /\ AppliedOK(cs, applied)
    BY <1>1, Known DEF CallOK, ServiceInv
  <2>2. Op(c) = cs[c].op /\ Cred(c) = cs[c].cred /\ Wanted(c) = cs[c].keys /\ Calls = DOMAIN cs
    BY DEF Op, Cred, Wanted, Calls
  <2>3. r \in Reply /\ Truthful(cs, applied, c, r)
    BY <2>1 DEF OutOK
  <2>4. Op(c) \in Writes /\ r.status = 200 =>
          \A k \in Range(Wanted(c)) : r.codes[k] = "" => <<c, k>> \in applied
    BY <2>2, <2>3 DEF Truthful
  <2>5. r.status \in 400..499 => \A k \in Keys : <<c, k>> \notin applied
    <3>1. r.status \in StatusCode
      BY <2>3 DEF Reply
    <3>2. r.status \in 400..499 => r.status \in {401, 403, 404}
      BY <3>1 DEF StatusCode
    <3> QED
      BY <2>1, <2>2, <2>3, <3>2 DEF Truthful, AppliedOK
  <2>6. ASSUME NEW k \in Keys, r.got[k] # NoBody
        PROVE  r.got[k].of \in Calls /\ r.got[k] = BodyOf(r.got[k].of)
               /\ <<r.got[k].of, k>> \in applied
    BY <2>1, <2>2, <2>6 DEF OutOK, Puts, BodyOf
  <2>7. Op(c) = "can" /\ r.status = 200 => r.yes = (Verify(Cred(c), "write") = 200)
    <3>1. r.yes \in BOOLEAN
      BY <2>3 DEF Reply
    <3>2. Op(c) = "can" /\ r.status = 200 => (r.yes <=> Verify(Cred(c), "write") = 200)
      BY <2>2, <2>3 DEF Truthful
    <3> QED
      BY <3>1, <3>2
  <2> QED
    BY <2>4, <2>5, <2>6, <2>7
<1> QED
  BY <1>1, ServiceStays, PTL

(***************************************************************************)
(* The failover of do never gives up while one endpoint of its view served *)
(* all along: retries end in an error only when every endpoint has failed. *)
(***************************************************************************)
THEOREM FailoverComplete == Spec => []HealthyEndpointAnswers
<1>1. ServiceInv => HealthyEndpointAnswers
  BY Known DEF HealthyEndpointAnswers, Hopeful
<1> QED
  BY <1>1, ServiceStays, PTL
=============================================================================
