----------------------------- MODULE SwimProofs -----------------------------
(***************************************************************************)
(* Proofs about Swim for any set of nodes, any seeds, any choice of nodes  *)
(* that probe and gossip, and any number of faults, crashes and operator   *)
(* calls.                                                                  *)
(***************************************************************************)
EXTENDS Swim, TLAPS

Loop == [pc : {"idle", "evaluate", "probe"}, todo : SUBSET Nodes, peer : SUBSET Nodes,
         snap : [Nodes -> Copy]]
Push == [pc : {"idle", "look", "apply"}, to : SUBSET Nodes, todo : SUBSET Claim,
         claim : SUBSET Claim, seen : Nat]

(***************************************************************************)
(* The inductive invariant, one part per variable.  The views: an entry    *)
(* that is not listed has incarnation zero, and a running node is alive to *)
(* itself.  The goroutines: neither the heartbeat loop nor an operator     *)
(* call of a node is about the node itself; a push has one receiver, and   *)
(* the claim it is about to apply was not older than what it has seen.     *)
(***************************************************************************)
Good(e) == e \in Entry /\ (e.state = "none" => e.inc = 0)

ViewsOK(v, running) ==
    /\ v \in [Nodes -> [Nodes -> Entry]]
    /\ \A n, m \in Nodes : Good(v[n][m])
    /\ \A n \in running : v[n][n].state = "alive"

LoopOK(n, h) == h \in Loop /\ n \notin h.todo /\ n \notin h.peer

PushOK(g) ==
    /\ g \in Push
    /\ g.pc # "idle" => \E t \in Nodes : g.to = {t}
    /\ g.pc = "apply" => \A t \in g.to, c \in g.claim : c.id # t => c.inc >= g.seen

SwimInv ==
    /\ up \in SUBSET Nodes
    /\ ViewsOK(members, up)
    /\ hb \in [Nodes -> Loop] /\ \A n \in Nodes : LoopOK(n, hb[n])
    /\ gossip \in [Nodes -> Push] /\ \A s \in Nodes : PushOK(gossip[s])
    /\ admin \in [Nodes -> SUBSET Nodes] /\ \A n \in Nodes : n \notin admin[n]
    /\ events \in 0..MaxEvents

-----------------------------------------------------------------------------
(***************************************************************************)
(* Entries                                                                 *)
(***************************************************************************)
LEMMA EntryFields ==
    ASSUME NEW e, Good(e)
    PROVE  /\ e.state \in States \cup {"none"} /\ e.inc \in Nat /\ e.age \in 0..2
           /\ e.state = "none" => e.inc = 0
  BY DEF Good, Entry

LEMMA NewEntries ==
    /\ Good(NoEntry) /\ Good(NewNode) /\ NewNode.state = "alive" /\ NewNode.inc = 1
    /\ NewNode.inc \in Nat /\ NoEntry.state = "none"
<1>1. Good(NoEntry)
  BY DEF Good, Entry, NoEntry
<1>2. Good(NewNode)
  BY DEF Good, Entry, NewNode, States
<1> QED
  BY <1>1, <1>2 DEF NewNode, NoEntry

LEMMA UpsertGood ==
    ASSUME NEW st \in States, NEW inc \in Nat
    PROVE  Good(UpsertEntry(st, inc)) /\ UpsertEntry(st, inc).inc = inc
  BY DEF Good, Entry, UpsertEntry, States

\* Mark and Refute keep an entry good and never lower its incarnation.
LEMMA MarkGood ==
    ASSUME NEW e, Good(e), NEW st \in States
    PROVE  Good(MarkEntry(e, st)) /\ MarkEntry(e, st).inc >= e.inc
<1>1. CASE e.state = "none"
  <2>1. MarkEntry(e, st) = e
    BY <1>1 DEF MarkEntry, States
  <2> QED
    BY <2>1, EntryFields
<1>2. CASE e.state # "none" /\ e.state = st
  <2>1. MarkEntry(e, st) = [e EXCEPT !.age = 0]
    BY <1>2 DEF MarkEntry
  <2>2. [e EXCEPT !.age = 0] \in Entry /\ [e EXCEPT !.age = 0].inc = e.inc
        /\ [e EXCEPT !.age = 0].state = e.state
    BY DEF Good, Entry
  <2> QED
    BY <2>1, <2>2, EntryFields DEF Good
<1>3. CASE e.state # "none" /\ e.state # st
  <2>1. MarkEntry(e, st) = [state |-> st, inc |-> e.inc + 1, age |-> 0]
    BY <1>3 DEF MarkEntry
  <2>2. e.inc \in Nat /\ st # "none"
    BY EntryFields DEF States
  <2> QED
    BY <2>1, <2>2 DEF Good, Entry
<1> QED
  BY <1>1, <1>2, <1>3

LEMMA RefuteGood ==
    ASSUME NEW e, Good(e)
    PROVE  /\ Good(RefuteEntry(e)) /\ RefuteEntry(e).inc >= e.inc
           /\ e.state = "alive" => RefuteEntry(e).state = "alive"
<1>1. CASE e.state = "none"
  BY <1>1, EntryFields DEF RefuteEntry
<1>2. CASE e.state # "none"
  <2>1. RefuteEntry(e) = [state |-> "alive", inc |-> e.inc + 1, age |-> 0]
    BY <1>2 DEF RefuteEntry
  <2>2. e.inc \in Nat /\ "alive" \in States
    BY EntryFields DEF States
  <2> QED
    BY <2>1, <2>2 DEF Good, Entry
<1> QED
  BY <1>1, <1>2

\* One entry of one view is replaced: w is v with entry e for m at n.
Replaces(w, v, n, m, e) ==
    /\ w \in [Nodes -> [Nodes -> Entry]]
    /\ \A i, j \in Nodes : w[i][j] = IF i = n /\ j = m THEN e ELSE v[i][j]

LEMMA ExceptReplaces ==
    ASSUME NEW v \in [Nodes -> [Nodes -> Entry]], NEW n \in Nodes, NEW m \in Nodes,
           NEW e \in Entry
    PROVE  Replaces([v EXCEPT ![n][m] = e], v, n, m, e)
  BY DEF Replaces

LEMMA PutEntry ==
    ASSUME NEW v, NEW w, NEW running \in SUBSET Nodes, ViewsOK(v, running),
           NEW n \in Nodes, NEW m \in Nodes, NEW e, Good(e),
           n = m => e.state = "alive", Replaces(w, v, n, m, e)
    PROVE  ViewsOK(w, running)
  BY DEF ViewsOK, Replaces

\* A whole view is replaced.
LEMMA PutView ==
    ASSUME NEW v, NEW running \in SUBSET Nodes, ViewsOK(v, running), NEW x \in Nodes,
           NEW w \in [Nodes -> Entry], \A m \in Nodes : Good(w[m]),
           NEW after \in SUBSET Nodes, after \subseteq running \cup {x},
           x \in after => w[x].state = "alive"
    PROVE  ViewsOK([v EXCEPT ![x] = w], after)
<1>1. \A i \in Nodes : [v EXCEPT ![x] = w][i] = IF i = x THEN w ELSE v[i]
  BY DEF ViewsOK
<1>2. [v EXCEPT ![x] = w] \in [Nodes -> [Nodes -> Entry]]
  BY DEF ViewsOK
<1> QED
  BY <1>1, <1>2 DEF ViewsOK

LEMMA SeededGood ==
    ASSUME NEW n \in Nodes
    PROVE  /\ SeededView(n) \in [Nodes -> Entry] /\ \A m \in Nodes : Good(SeededView(n)[m])
           /\ SeededView(n)[n].state = "alive"
           /\ NoView \in [Nodes -> Entry] /\ \A m \in Nodes : Good(NoView[m])
<1>1. NoEntry \in Entry /\ NewNode \in Entry
  BY NewEntries DEF Good
<1> QED
  BY <1>1, NewEntries DEF SeededView, NoView


-----------------------------------------------------------------------------
(***************************************************************************)
(* The goroutines                                                          *)
(***************************************************************************)
LEMMA LoopIdle ==
    ASSUME NEW n \in Nodes
    PROVE  LoopOK(n, HbIdle)
<1>1. NoCopy \in [Nodes -> Copy]
  BY DEF NoCopy, Copy
<1> HIDE DEF NoCopy
<1> QED
  BY <1>1 DEF LoopOK, Loop, HbIdle

\* What the loop does next keeps it a loop about other nodes.
LEMMA HbGoOK ==
    ASSUME SwimInv, NEW n \in Nodes, NEW m \in Nodes, m # n,
           NEW pc \in {"next", "probe"}, HbGo(n, m, pc)
    PROVE  hb' \in [Nodes -> Loop] /\ \A i \in Nodes : LoopOK(i, hb'[i])
<1> DEFINE h == hb[n]
           todo == h.todo \ {m}
           ms == {m}
           snap == [h.snap EXCEPT ![m] = NoCopy[m]]
           r == IF pc # "next" THEN [h EXCEPT !.pc = pc, !.todo = todo, !.peer = ms]
                ELSE IF todo = {} THEN HbIdle
                ELSE [pc |-> "evaluate", todo |-> todo, peer |-> {}, snap |-> snap]
<1>1. hb' = [hb EXCEPT ![n] = r]
  BY DEF HbGo
<1>2. LoopOK(n, h)
  BY DEF SwimInv
<1>3. /\ todo \in SUBSET Nodes /\ n \notin todo /\ ms \in SUBSET Nodes /\ n \notin ms
      /\ snap \in [Nodes -> Copy]
  <2>1. NoCopy[m] \in Copy
    BY DEF NoCopy, Copy
  <2>2. h.snap \in [Nodes -> Copy] /\ h.todo \in SUBSET Nodes /\ n \notin h.todo
    BY <1>2 DEF LoopOK, Loop
  <2> QED
    BY <2>1, <2>2
<1> HIDE DEF h, todo, ms, snap
<1>4. CASE pc = "probe"
  <2>1. r = [h EXCEPT !.pc = "probe", !.todo = todo, !.peer = ms]
    BY <1>4
  <2> HIDE DEF r
  <2>2. LoopOK(n, r)
    BY <1>2, <1>3, <2>1 DEF LoopOK, Loop
  <2> QED
    BY <1>1, <2>2 DEF SwimInv, LoopOK
<1>5. CASE pc = "next" /\ todo = {}
  <2>1. LoopOK(n, r)
    BY <1>5, LoopIdle
  <2> HIDE DEF r
  <2> QED
    BY <1>1, <2>1 DEF SwimInv, LoopOK
<1>6. CASE pc = "next" /\ todo # {}
  <2>1. r = [pc |-> "evaluate", todo |-> todo, peer |-> {}, snap |-> snap]
    BY <1>6
  <2> HIDE DEF r
  <2>2. LoopOK(n, r)
    BY <1>3, <2>1 DEF LoopOK, Loop
  <2> QED
    BY <1>1, <2>2 DEF SwimInv, LoopOK
<1> QED
  BY <1>4, <1>5, <1>6

LEMMA PushIdle == PushOK(GossipIdle)
<1>1. GossipIdle \in Push /\ GossipIdle.pc = "idle"
  BY DEF Push, GossipIdle
<1> QED
  BY <1>1 DEF PushOK

LEMMA PutPush ==
    ASSUME SwimInv, NEW s \in Nodes, NEW g, PushOK(g), gossip' = [gossip EXCEPT ![s] = g]
    PROVE  gossip' \in [Nodes -> Push] /\ \A i \in Nodes : PushOK(gossip'[i])
  BY DEF SwimInv, PushOK

LEMMA DropOK ==
    ASSUME SwimInv, NEW s \in Nodes, NEW c, gossip[s].pc # "idle", GossipDrop(s, c)
    PROVE  gossip' \in [Nodes -> Push] /\ \A i \in Nodes : PushOK(gossip'[i])
<1> DEFINE g == gossip[s]
           T == g.todo \ {c}
           r == [g EXCEPT !.pc = "look", !.todo = T, !.claim = {}, !.seen = 0]
<1>1. CASE gossip' = [gossip EXCEPT ![s] = GossipIdle]
  BY <1>1, PushIdle, PutPush
<1>2. CASE gossip' = [gossip EXCEPT ![s] = r]
  <2>1. g \in Push /\ T \in SUBSET Claim /\ \E t \in Nodes : g.to = {t}
    <3>1. PushOK(g)
      BY DEF SwimInv
    <3> QED
      BY <3>1 DEF PushOK, Push
  <2> HIDE DEF g, T
  <2>2. r \in Push /\ r.pc = "look" /\ r.to = g.to
    BY <2>1 DEF Push
  <2> HIDE DEF r
  <2>3. PushOK(r)
    BY <2>1, <2>2 DEF PushOK
  <2> QED
    BY <1>2, <2>3, PutPush
<1> DEFINE q == IF T = {} THEN GossipIdle ELSE r
<1>3. gossip' = [gossip EXCEPT ![s] = q]
  BY DEF GossipDrop
<1>4. q = GossipIdle \/ q = r
  OBVIOUS
<1> HIDE DEF q, r
<1> QED
  BY <1>1, <1>2, <1>3, <1>4

LEMMA SnapshotClaims ==
    ASSUME SwimInv, NEW s \in Nodes, NEW t \in Nodes
    PROVE  Snapshot(s, t) \in SUBSET Claim
<1>1. \A m \in Listed(members[s]) :
        /\ m \in Nodes /\ members[s][m].state \in States /\ members[s][m].inc \in Nat
  <2> SUFFICES ASSUME NEW m \in Listed(members[s])
               PROVE  /\ m \in Nodes /\ members[s][m].state \in States
                      /\ members[s][m].inc \in Nat
    OBVIOUS
  <2>1. m \in Nodes /\ members[s][m].state # "none"
    BY DEF SwimInv, ViewsOK, Listed
  <2>2. Good(members[s][m])
    BY <2>1 DEF SwimInv, ViewsOK
  <2> QED
    BY <2>1, <2>2, EntryFields
<1> QED
  BY <1>1 DEF Snapshot, Claim


-----------------------------------------------------------------------------
(***************************************************************************)
(* One lemma per goroutine: its steps keep the invariant.                  *)
(***************************************************************************)
LEMMA TickStep ==
    ASSUME SwimInv, NEW n \in Nodes, NEW sample \in Samples(n), HeartbeatTick(n, sample)
    PROVE  SwimInv'
<1> DEFINE todo == sample \ {n}
           snap == [m \in Nodes |->
                      IF m \in todo
                      THEN [state |-> members[n][m].state, age |-> members[n][m].age]
                      ELSE NoCopy[m]]
           r == [pc |-> "evaluate", todo |-> todo, peer |-> {}, snap |-> snap]
<1>1. hb' = [hb EXCEPT ![n] = r] /\ UNCHANGED <<up, members, gossip, admin, events>>
  BY DEF HeartbeatTick
<1>2. sample \subseteq Nodes
  <2>1. sample \subseteq Listed(members[n])
    BY DEF Samples, kSubset
  <2>2. Listed(members[n]) \subseteq Nodes
    BY DEF Listed, SwimInv, ViewsOK
  <2> QED
    BY <2>1, <2>2
<1>3. snap \in [Nodes -> Copy]
  <2>1. ASSUME NEW m \in Nodes
        PROVE  [state |-> members[n][m].state, age |-> members[n][m].age] \in Copy
    <3>1. Good(members[n][m])
      BY DEF SwimInv, ViewsOK
    <3> QED
      BY <3>1, EntryFields DEF Copy
  <2>2. \A m \in Nodes : NoCopy[m] \in Copy
    BY DEF NoCopy, Copy
  <2> QED
    BY <2>1, <2>2
<1>4. todo \in SUBSET Nodes /\ n \notin todo
  BY <1>2
<1> HIDE DEF todo, snap
<1>5. LoopOK(n, r)
  BY <1>3, <1>4 DEF LoopOK, Loop
<1> HIDE DEF r
<1>6. hb' \in [Nodes -> Loop] /\ \A i \in Nodes : LoopOK(i, hb'[i])
  BY <1>1, <1>5 DEF SwimInv, LoopOK
<1> QED
  BY <1>1, <1>6 DEF SwimInv

\* An entry is written: what that does to the views.
LEMMA WriteOK ==
    ASSUME SwimInv, NEW n \in Nodes, NEW m \in Nodes, NEW e, Good(e),
           n = m => e.state = "alive", Replaces(members', members, n, m, e)
    PROVE  /\ ViewsOK(members', up)
           /\ \A i, j \in Nodes : members'[i][j]
                                    = IF i = n /\ j = m THEN e ELSE members[i][j]
<1>1. up \in SUBSET Nodes /\ ViewsOK(members, up)
  BY DEF SwimInv
<1>2. ViewsOK(members', up)
  BY <1>1, PutEntry
<1> QED
  BY <1>2 DEF Replaces

\* Mark, and what it does to incarnations.
LEMMA MarkOK ==
    ASSUME SwimInv, NEW n \in Nodes, NEW m \in Nodes, m # n, NEW st \in States, Mark(n, m, st)
    PROVE  /\ ViewsOK(members', up)
           /\ \A i, j \in Nodes : members'[i][j].inc >= members[i][j].inc
<1> DEFINE e == MarkEntry(members[n][m], st)
<1>1. members' = [members EXCEPT ![n][m] = e]
  BY DEF Mark
<1>2. \A i, j \in Nodes : Good(members[i][j]) /\ members[i][j].inc \in Nat
  BY EntryFields DEF SwimInv, ViewsOK
<1>3. Good(e) /\ e.inc >= members[n][m].inc
  BY <1>2, MarkGood
<1> HIDE DEF e
<1>4. /\ ViewsOK(members', up)
      /\ \A i, j \in Nodes : members'[i][j] = IF i = n /\ j = m THEN e ELSE members[i][j]
  <2>1. Replaces(members', members, n, m, e)
    BY <1>1, <1>3, ExceptReplaces DEF SwimInv, ViewsOK, Good
  <2> QED
    BY <2>1, <1>3, WriteOK
<1> QED
  BY <1>2, <1>3, <1>4

LEMMA RemoveOK ==
    ASSUME SwimInv, NEW n \in Nodes, NEW m \in Nodes, m # n, Remove(n, m)
    PROVE  /\ ViewsOK(members', up)
           /\ \A i, j \in Nodes : \/ members'[i][j].state = "none"
                                  \/ members'[i][j].inc >= members[i][j].inc
<1>1. members' = [members EXCEPT ![n][m] = NoEntry]
  BY DEF Remove
<1>2. \A i, j \in Nodes : members[i][j].inc \in Nat
  BY EntryFields DEF SwimInv, ViewsOK
<1>3. /\ ViewsOK(members', up)
      /\ \A i, j \in Nodes : members'[i][j] = IF i = n /\ j = m THEN NoEntry
                                              ELSE members[i][j]
  <2>1. Replaces(members', members, n, m, NoEntry)
    BY <1>1, NewEntries, ExceptReplaces DEF SwimInv, ViewsOK, Good
  <2> QED
    BY <2>1, NewEntries, WriteOK
<1> QED
  BY <1>2, <1>3, NewEntries

\* A node that is looked at by the loop of n is another node.
LEMMA LoopPeers ==
    ASSUME SwimInv, NEW n \in Nodes, NEW m \in Nodes,
           m \in hb[n].todo \/ m \in hb[n].peer
    PROVE  m # n
  BY DEF SwimInv, LoopOK

LEMMA HeartbeatOK ==
    ASSUME SwimInv, NEW n \in Nodes, HeartbeatStep(n)
    PROVE  /\ SwimInv'
           /\ \A i, j \in Nodes : \/ members'[i][j].state = "none"
                                  \/ members'[i][j].inc >= members[i][j].inc
<1>1. PICK m \in Nodes : \/ PrunePeer(n, m) \/ SuspectPeer(n, m) \/ ProbeSucceeds(n, m)
                         \/ ProbeRelayed(n, m) \/ ProbeFails(n, m)
  BY DEF HeartbeatStep
<1>2. m # n
  BY <1>1, LoopPeers
  DEF PrunePeer, SuspectPeer, ProbeSucceeds, ProbeRelayed, ProbeFails, Probing
<1>3. /\ UNCHANGED <<up, gossip, admin>>
      /\ \E pc \in {"next", "probe"} : HbGo(n, m, pc)
      /\ Event \/ UNCHANGED events
      /\ Remove(n, m) \/ (\E st \in {"alive", "suspect"} : Mark(n, m, st)) \/ UNCHANGED members
  BY <1>1 DEF PrunePeer, SuspectPeer, ProbeSucceeds, ProbeRelayed, ProbeFails
<1>4. hb' \in [Nodes -> Loop] /\ \A i \in Nodes : LoopOK(i, hb'[i])
  BY <1>2, <1>3, HbGoOK
<1>5. events' \in 0..MaxEvents
  BY <1>3, SwimAssumption DEF Event, SwimInv
<1>6. /\ ViewsOK(members', up)
      /\ \A i, j \in Nodes : \/ members'[i][j].state = "none"
                             \/ members'[i][j].inc >= members[i][j].inc
  <2>1. CASE Remove(n, m)
    BY <1>2, <2>1, RemoveOK
  <2>2. CASE \E st \in {"alive", "suspect"} : Mark(n, m, st)
    BY <1>2, <2>2, MarkOK DEF States
  <2>3. CASE UNCHANGED members
    <3>1. \A i, j \in Nodes : members[i][j].inc \in Nat
      BY EntryFields DEF SwimInv, ViewsOK
    <3> QED
      BY <2>3, <3>1 DEF SwimInv
  <2> QED
    BY <1>3, <2>1, <2>2, <2>3
<1> QED
  BY <1>3, <1>4, <1>5, <1>6 DEF SwimInv


\* A write keeps or raises an incarnation, empties the entry, or is a late one.
NoRegress ==
    \A i \in up \cap up', j \in Nodes :
        \/ members'[i][j].state = "none"
        \/ members'[i][j].inc >= members[i][j].inc
        \/ Overtaken(i, j)

LEMMA IncNat ==
    ASSUME SwimInv
    PROVE  \A i, j \in Nodes : Good(members[i][j]) /\ members[i][j].inc \in Nat
  BY EntryFields DEF SwimInv, ViewsOK

\* Views that do not change, or only in their ages.
LEMMA SameViews ==
    ASSUME SwimInv, UNCHANGED members
    PROVE  NoRegress /\ ViewsOK(members', up)
<1>1. up \in SUBSET Nodes
  BY DEF SwimInv
<1> QED
  BY <1>1, IncNat DEF NoRegress, SwimInv

LEMMA GossipTickOK ==
    ASSUME SwimInv, NEW s \in Nodes, NEW t \in Nodes, GossipTick(s, t)
    PROVE  SwimInv' /\ NoRegress
<1> DEFINE S == Snapshot(s, t)
           T == {t}
           r == [GossipIdle EXCEPT !.pc = "look", !.to = T, !.todo = S]
<1>1. gossip' = [gossip EXCEPT ![s] = r] /\ UNCHANGED <<up, members, hb, admin, events>>
  BY DEF GossipTick
<1>2. S \in SUBSET Claim
  BY SnapshotClaims
<1>3. T \in SUBSET Nodes /\ \E x \in Nodes : T = {x}
  OBVIOUS
<1> HIDE DEF S, T
<1>4. r \in Push /\ r.pc = "look" /\ r.to = T
  BY <1>2, <1>3, PushIdle DEF Push, PushOK
<1> HIDE DEF r
<1>5. PushOK(r)
  BY <1>3, <1>4 DEF PushOK
<1>6. gossip' \in [Nodes -> Push] /\ \A i \in Nodes : PushOK(gossip'[i])
  BY <1>1, <1>5, PutPush
<1>7. NoRegress
  BY <1>1, SameViews
<1> QED
  BY <1>1, <1>6, <1>7 DEF SwimInv

\* A claim that is kept is not older than the entry it was compared with.
LEMMA LookOK ==
    ASSUME SwimInv, NEW s \in Nodes, NEW t \in gossip[s].to, NEW c \in gossip[s].todo,
           Look(s, t, c)
    PROVE  SwimInv' /\ NoRegress
<1> DEFINE g == gossip[s]
           cur == members[t][c.id]
           T == g.todo \ {c}
           C == {c}
           seen == cur.inc
           r == [g EXCEPT !.pc = "apply", !.todo = T, !.claim = C, !.seen = seen]
<1>1. UNCHANGED <<up, members, hb, admin, events>>
  BY DEF Look
<1>2. g.pc = "look"
  BY DEF Look
<1>3. g \in Push /\ PushOK(g)
  BY DEF SwimInv, PushOK
<1>4. t \in Nodes /\ c \in Claim
  BY <1>3 DEF Push
<1>5. c.id \in Nodes /\ c.inc \in Nat
  BY <1>4 DEF Claim
<1>6. Good(cur) /\ seen \in Nat /\ (cur.state = "none" => seen = 0)
  BY <1>4, <1>5, IncNat, EntryFields
<1>7. gossip' \in [Nodes -> Push] /\ \A i \in Nodes : PushOK(gossip'[i])
  <2>1. CASE GossipDrop(s, c)
    BY <1>2, <2>1, DropOK
  <2>2. CASE /\ GossipKeep(s, c, cur)
             /\ c.id # t => ToAdopt(c, cur)
    <3>1. gossip' = [gossip EXCEPT ![s] = r]
      BY <2>2 DEF GossipKeep, SwimInv
    <3>2. c.id # t => c.inc >= seen
      BY <1>5, <1>6, <2>2 DEF ToAdopt
    <3>3. \A x \in g.to : x = t
      BY <1>2, <1>3 DEF PushOK
    <3>4. T \in SUBSET Claim /\ C \in SUBSET Claim /\ \A x \in C : x = c
      BY <1>3, <1>4 DEF Push
    <3>5. \E x \in Nodes : g.to = {x}
      BY <1>2, <1>3 DEF PushOK
    <3> HIDE DEF g, T, C, seen
    <3>6. r \in Push /\ r.to = g.to /\ r.claim = C /\ r.seen = seen /\ r.pc = "apply"
      BY <1>3, <1>6, <3>4 DEF Push
    <3> HIDE DEF r
    <3>7. PushOK(r)
      BY <3>2, <3>3, <3>4, <3>5, <3>6 DEF PushOK
    <3> QED
      BY <3>1, <3>7, PutPush
  <2> QED
    BY <2>1, <2>2 DEF Look
<1>8. NoRegress
  BY <1>1, SameViews
<1> QED
  BY <1>1, <1>7, <1>8 DEF SwimInv

\* A claim about another node is written over whatever is there by now.
LEMMA AdoptOK ==
    ASSUME SwimInv, NEW s \in Nodes, NEW t \in gossip[s].to, NEW c \in gossip[s].claim,
           Adopt(s, t, c)
    PROVE  SwimInv' /\ NoRegress
<1> DEFINE g == gossip[s]
           e == UpsertEntry(c.state, c.inc)
<1>1. /\ UNCHANGED <<up, hb, admin, events>> /\ g.pc = "apply" /\ c.id # t
      /\ members' = [members EXCEPT ![t][c.id] = e]
      /\ GossipDrop(s, c)
  BY DEF Adopt, Upsert
<1>2. g \in Push /\ PushOK(g)
  BY DEF SwimInv, PushOK
<1>3. t \in Nodes /\ c \in Claim /\ c.inc >= g.seen
  BY <1>1, <1>2 DEF Push, PushOK
<1>4. c.id \in Nodes /\ c.inc \in Nat /\ c.state \in States
  BY <1>3 DEF Claim
<1>5. Good(e) /\ e \in Entry /\ e.inc = c.inc
  BY <1>4, UpsertGood DEF Good
<1> HIDE DEF e
<1>6. Replaces(members', members, t, c.id, e)
  BY <1>1, <1>3, <1>4, <1>5, ExceptReplaces DEF SwimInv, ViewsOK
<1>7. /\ ViewsOK(members', up)
      /\ \A i, j \in Nodes : members'[i][j] = IF i = t /\ j = c.id THEN e ELSE members[i][j]
  BY <1>1, <1>3, <1>4, <1>5, <1>6 DEF ViewsOK, Replaces, SwimInv
<1>8. gossip' \in [Nodes -> Push] /\ \A i \in Nodes : PushOK(gossip'[i])
  BY <1>1, DropOK
<1>9. NoRegress
  <2> SUFFICES ASSUME NEW i \in up \cap up', NEW j \in Nodes,
                      ~(members'[i][j].inc >= members[i][j].inc)
               PROVE  Overtaken(i, j)
    BY DEF NoRegress
  <2>1. i \in Nodes /\ members[i][j].inc \in Nat
    BY IncNat DEF SwimInv
  <2>2. i = t /\ j = c.id
    BY <1>7, <2>1
  <2>3. c.inc # members[i][j].inc /\ ~(c.inc >= members[i][j].inc)
    BY <1>4, <1>5, <1>7, <2>1, <2>2
  <2>4. g.seen # members[i][j].inc
    BY <1>3, <2>3
  <2> QED
    BY <1>1, <2>2, <2>4 DEF Overtaken
<1> QED
  BY <1>1, <1>7, <1>8, <1>9 DEF SwimInv

LEMMA SelfRefuteOK ==
    ASSUME SwimInv, NEW s \in Nodes, NEW t \in gossip[s].to, NEW c \in gossip[s].claim,
           SelfRefute(s, t, c)
    PROVE  SwimInv' /\ NoRegress
<1> DEFINE g == gossip[s]
           e == RefuteEntry(members[t][t])
<1>1. /\ UNCHANGED <<up, hb, admin, events>> /\ g.pc = "apply"
      /\ members' = [members EXCEPT ![t][t] = e]
      /\ GossipDrop(s, c)
  BY DEF SelfRefute, Refute
<1>2. t \in Nodes
  BY DEF SwimInv, Push
<1>3. Good(e) /\ e \in Entry /\ e.inc >= members[t][t].inc
  BY <1>2, IncNat, RefuteGood DEF Good
<1>4. t \in up => e.state = "alive"
  BY <1>2, IncNat, RefuteGood DEF SwimInv, ViewsOK
<1> HIDE DEF e
<1>5. Replaces(members', members, t, t, e)
  BY <1>1, <1>2, <1>3, ExceptReplaces DEF SwimInv, ViewsOK
<1>6. ViewsOK(members', up)
  <2>1. ViewsOK(members, up) /\ up \in SUBSET Nodes
    BY DEF SwimInv
  <2>2. \A i, j \in Nodes : Good(members'[i][j])
    BY <1>3, <1>5, <2>1 DEF ViewsOK, Replaces
  <2>3. \A i \in up : members'[i][i].state = "alive"
    BY <1>4, <1>5, <2>1 DEF ViewsOK, Replaces
  <2> QED
    BY <1>5, <2>2, <2>3 DEF ViewsOK, Replaces
<1>7. gossip' \in [Nodes -> Push] /\ \A i \in Nodes : PushOK(gossip'[i])
  BY <1>1, DropOK
<1>8. NoRegress
  <2> SUFFICES ASSUME NEW i \in up \cap up', NEW j \in Nodes
               PROVE  members'[i][j].inc >= members[i][j].inc
    BY DEF NoRegress
  <2>1. i \in Nodes /\ members[i][j].inc \in Nat
    BY IncNat DEF SwimInv
  <2>2. members'[i][j] = IF i = t /\ j = t THEN e ELSE members[i][j]
    BY <1>5, <2>1 DEF Replaces
  <2> QED
    BY <1>3, <2>1, <2>2
<1> QED
  BY <1>1, <1>6, <1>7, <1>8 DEF SwimInv


\* What the operator puts in is another node; it may overwrite a newer entry.
LEMMA AddPeerUpsertOK ==
    ASSUME SwimInv, NEW n \in Nodes, NEW m \in admin[n], AddPeerUpsert(n, m)
    PROVE  SwimInv' /\ NoRegress
<1> DEFINE e == UpsertEntry(NewNode.state, NewNode.inc)
<1>1. m \in Nodes /\ m # n
  BY DEF SwimInv
<1>2. Good(e) /\ e \in Entry
  <2>1. NewNode.state \in States /\ NewNode.inc \in Nat
    BY NewEntries DEF States
  <2> QED
    BY <2>1, UpsertGood DEF Good
<1>3. /\ UNCHANGED <<up, hb, gossip, events>> /\ admin' = [admin EXCEPT ![n] = {}]
      /\ members' = [members EXCEPT ![n][m] = e]
  BY DEF AddPeerUpsert, Upsert
<1> HIDE DEF e
<1>4. Replaces(members', members, n, m, e)
  BY <1>1, <1>2, <1>3, ExceptReplaces DEF SwimInv, ViewsOK
<1>5. /\ ViewsOK(members', up)
      /\ \A i, j \in Nodes : members'[i][j] = IF i = n /\ j = m THEN e ELSE members[i][j]
  BY <1>1, <1>2, <1>4, WriteOK
<1>6. admin' \in [Nodes -> SUBSET Nodes] /\ \A i \in Nodes : i \notin admin'[i]
  BY <1>3 DEF SwimInv
<1>7. NoRegress
  <2> SUFFICES ASSUME NEW i \in up \cap up', NEW j \in Nodes,
                      ~(members'[i][j].inc >= members[i][j].inc)
               PROVE  Overtaken(i, j)
    BY DEF NoRegress
  <2>1. i \in Nodes /\ members[i][j].inc \in Nat
    BY IncNat DEF SwimInv
  <2>2. i = n /\ j = m
    BY <1>5, <2>1
  <2> QED
    BY <2>2 DEF Overtaken
<1> QED
  BY <1>3, <1>5, <1>6, <1>7 DEF SwimInv

LEMMA AddPeerOK ==
    ASSUME SwimInv, NEW n \in Nodes, NEW m \in Nodes, AddPeer(n, m)
    PROVE  SwimInv' /\ NoRegress
<1>1. /\ UNCHANGED <<up, members, hb, gossip>> /\ m # n
      /\ admin' = [admin EXCEPT ![n] = {m}] /\ Event
  BY DEF AddPeer
<1>2. admin' \in [Nodes -> SUBSET Nodes] /\ \A i \in Nodes : i \notin admin'[i]
  BY <1>1 DEF SwimInv
<1>3. events' \in 0..MaxEvents
  BY <1>1, SwimAssumption DEF Event, SwimInv
<1>4. NoRegress
  BY <1>1, SameViews
<1> QED
  BY <1>1, <1>2, <1>3, <1>4 DEF SwimInv

LEMMA RemovePeerOK ==
    ASSUME SwimInv, NEW n \in Nodes, NEW m \in Nodes, RemovePeer(n, m)
    PROVE  SwimInv' /\ NoRegress
<1>1. UNCHANGED <<up, hb, gossip, admin>> /\ m # n /\ Remove(n, m) /\ Event
  BY DEF RemovePeer
<1>2. /\ ViewsOK(members', up)
      /\ \A i, j \in Nodes : \/ members'[i][j].state = "none"
                             \/ members'[i][j].inc >= members[i][j].inc
  BY <1>1, RemoveOK
<1>3. events' \in 0..MaxEvents
  BY <1>1, SwimAssumption DEF Event, SwimInv
<1>4. NoRegress
  BY <1>2 DEF NoRegress, SwimInv
<1> QED
  BY <1>1, <1>2, <1>3, <1>4 DEF SwimInv

LEMMA GrowOldOK ==
    ASSUME SwimInv, NEW n \in Nodes, NEW m \in Nodes, GrowOld(n, m)
    PROVE  SwimInv' /\ NoRegress
<1> DEFINE a == members[n][m].age + 1
           e == [members[n][m] EXCEPT !.age = a]
<1>1. /\ UNCHANGED <<up, hb, gossip, admin>> /\ m # n /\ (Event \/ UNCHANGED events)
      /\ members[n][m].age < 2
      /\ members' = [members EXCEPT ![n][m].age = @ + 1]
  BY DEF GrowOld
<1>2. Good(members[n][m]) /\ members[n][m].inc \in Nat
  BY IncNat
<1>3. a \in 0..2
  BY <1>1, <1>2, EntryFields
<1>4. members' = [members EXCEPT ![n][m] = e]
  BY <1>1
<1> HIDE DEF a
<1>5. Good(e) /\ e \in Entry /\ e.inc = members[n][m].inc
  BY <1>2, <1>3 DEF Good, Entry
<1> HIDE DEF e
<1>6. Replaces(members', members, n, m, e)
  BY <1>4, <1>5, ExceptReplaces DEF SwimInv, ViewsOK
<1>7. /\ ViewsOK(members', up)
      /\ \A i, j \in Nodes : members'[i][j] = IF i = n /\ j = m THEN e ELSE members[i][j]
  BY <1>1, <1>5, <1>6 DEF ViewsOK, Replaces, SwimInv
<1>8. events' \in 0..MaxEvents
  BY <1>1, SwimAssumption DEF Event, SwimInv
<1>9. NoRegress
  <2> SUFFICES ASSUME NEW i \in up \cap up', NEW j \in Nodes
               PROVE  members'[i][j].inc >= members[i][j].inc
    BY DEF NoRegress
  <2>1. i \in Nodes /\ members[i][j].inc \in Nat
    BY IncNat DEF SwimInv
  <2> QED
    BY <1>5, <1>7, <2>1
<1> QED
  BY <1>1, <1>7, <1>8, <1>9 DEF SwimInv

LEMMA CrashOK ==
    ASSUME SwimInv, NEW x \in Nodes, Crash(x)
    PROVE  SwimInv' /\ NoRegress
<1> DEFINE w == [members EXCEPT ![x] = NoView]
<1>1. /\ Event /\ up' = up \ {x} /\ members' = w
      /\ hb' = [hb EXCEPT ![x] = HbIdle] /\ admin' = [admin EXCEPT ![x] = {}]
      /\ gossip' = [s \in Nodes |-> IF x \in gossip[s].to THEN GossipIdle ELSE gossip[s]]
  BY DEF Crash
<1>2. up' \in SUBSET Nodes /\ up' \subseteq up \cup {x} /\ x \notin up' /\ up \in SUBSET Nodes
  BY <1>1 DEF SwimInv
<1>3. ViewsOK(w, up')
  <2>1. ViewsOK(members, up)
    BY DEF SwimInv
  <2> QED
    BY <1>2, <2>1, SeededGood, PutView
<1>4. \A i \in Nodes : i # x => w[i] = members[i]
  BY DEF SwimInv, ViewsOK
<1> HIDE DEF w
<1>5. ViewsOK(members', up')
  BY <1>1, <1>3
<1>6. hb' \in [Nodes -> Loop] /\ \A i \in Nodes : LoopOK(i, hb'[i])
  BY <1>1, LoopIdle DEF SwimInv, LoopOK
<1>7. gossip' \in [Nodes -> Push] /\ \A i \in Nodes : PushOK(gossip'[i])
  BY <1>1, PushIdle DEF SwimInv, PushOK
<1>8. admin' \in [Nodes -> SUBSET Nodes] /\ \A i \in Nodes : i \notin admin'[i]
  BY <1>1 DEF SwimInv
<1>9. events' \in 0..MaxEvents
  BY <1>1, SwimAssumption DEF Event, SwimInv
<1>10. NoRegress
  <2> SUFFICES ASSUME NEW i \in up \cap up', NEW j \in Nodes
               PROVE  members'[i][j].inc >= members[i][j].inc
    BY DEF NoRegress
  <2>1. i \in Nodes /\ i # x /\ members[i][j].inc \in Nat
    BY <1>2, IncNat
  <2> QED
    BY <1>1, <1>4, <2>1
<1> QED
  BY <1>2, <1>5, <1>6, <1>7, <1>8, <1>9, <1>10 DEF SwimInv

LEMMA StartOK ==
    ASSUME SwimInv, NEW x \in Nodes, Start(x)
    PROVE  SwimInv' /\ NoRegress
<1> DEFINE w == [members EXCEPT ![x] = SeededView(x)]
<1>1. /\ up' = up \cup {x} /\ members' = w /\ UNCHANGED <<hb, gossip, admin, events>>
      /\ x \notin up
  BY DEF Start
<1>2. up' \in SUBSET Nodes /\ up' \subseteq up \cup {x} /\ up \in SUBSET Nodes
  BY <1>1 DEF SwimInv
<1>3. ViewsOK(w, up')
  <2>1. ViewsOK(members, up)
    BY DEF SwimInv
  <2> QED
    BY <1>2, <2>1, SeededGood, PutView
<1>4. \A i \in Nodes : i # x => w[i] = members[i]
  BY DEF SwimInv, ViewsOK
<1> HIDE DEF w
<1>5. ViewsOK(members', up')
  BY <1>1, <1>3
<1>6. NoRegress
  <2> SUFFICES ASSUME NEW i \in up \cap up', NEW j \in Nodes
               PROVE  members'[i][j].inc >= members[i][j].inc
    BY DEF NoRegress
  <2>1. i \in Nodes /\ i # x /\ members[i][j].inc \in Nat
    BY <1>1, <1>2, IncNat
  <2> QED
    BY <1>1, <1>4, <2>1
<1> QED
  BY <1>1, <1>2, <1>5, <1>6 DEF SwimInv

-----------------------------------------------------------------------------
LEMMA SwimInit == ASSUME Init PROVE SwimInv
<1>1. up \in SUBSET Nodes /\ events \in 0..MaxEvents
  BY SwimAssumption DEF Init
<1>2. ViewsOK(members, up)
  <2>1. \A n \in Nodes : members[n] = IF n \in up THEN SeededView(n) ELSE NoView
    BY DEF Init
  <2>2. \A n \in Nodes : members[n] \in [Nodes -> Entry]
    BY <2>1, SeededGood
  <2>3. members \in [Nodes -> [Nodes -> Entry]]
    BY <2>2 DEF Init
  <2> QED
    BY <1>1, <2>1, <2>3, SeededGood DEF ViewsOK
<1>3. hb \in [Nodes -> Loop] /\ \A n \in Nodes : LoopOK(n, hb[n])
  BY LoopIdle DEF Init, LoopOK
<1>4. gossip \in [Nodes -> Push] /\ \A s \in Nodes : PushOK(gossip[s])
  BY PushIdle DEF Init, PushOK
<1>5. admin \in [Nodes -> SUBSET Nodes] /\ \A n \in Nodes : n \notin admin[n]
  BY DEF Init
<1> QED
  BY <1>1, <1>2, <1>3, <1>4, <1>5 DEF SwimInv

LEMMA SwimNext == ASSUME SwimInv, [Next]_vars PROVE SwimInv' /\ NoRegress
<1>1. CASE \E n \in Nodes : \E sample \in Samples(n) : HeartbeatTick(n, sample)
  <2>1. SwimInv'
    BY <1>1, TickStep
  <2>2. UNCHANGED members
    BY <1>1 DEF HeartbeatTick
  <2> QED
    BY <2>1, <2>2, SameViews
<1>2. CASE \E n \in Nodes : HeartbeatStep(n)
  <2>1. /\ SwimInv'
        /\ \A i, j \in Nodes : \/ members'[i][j].state = "none"
                               \/ members'[i][j].inc >= members[i][j].inc
    BY <1>2, HeartbeatOK
  <2> QED
    BY <2>1 DEF NoRegress, SwimInv
<1>3. CASE \E n \in Nodes : GossipStep(n)
  BY <1>3, LookOK, AdoptOK, SelfRefuteOK DEF GossipStep
<1>4. CASE \E n \in Nodes : AdminStep(n)
  BY <1>4, AddPeerUpsertOK DEF AdminStep
<1>5. CASE \E n, m \in Nodes : GossipTick(n, m) \/ GrowOld(n, m)
  BY <1>5, GossipTickOK, GrowOldOK
<1>6. CASE \E n, m \in Nodes : AddPeer(n, m) \/ RemovePeer(n, m)
  BY <1>6, AddPeerOK, RemovePeerOK
<1>7. CASE \E x \in Nodes : Crash(x) \/ Start(x)
  BY <1>7, CrashOK, StartOK
<1>8. CASE UNCHANGED vars
  BY <1>8, SameViews DEF vars, SwimInv
<1> QED
  BY <1>1, <1>2, <1>3, <1>4, <1>5, <1>6, <1>7, <1>8 DEF Next

LEMMA SwimStays == Spec => []SwimInv
<1>1. SwimInv /\ [Next]_vars => SwimInv'
  BY SwimNext
<1> QED
  BY <1>1, SwimInit, PTL DEF Spec

-----------------------------------------------------------------------------
(***************************************************************************)
(* Every membership entry, gossip claim, heartbeat loop and push keeps the *)
(* shape Membership, acceptGossip and evaluateLiveness rely on.            *)
(***************************************************************************)
THEOREM TypeCorrect == Spec => []TypeOK
<1>1. SwimInv => TypeOK
  BY DEF SwimInv, ViewsOK, TypeOK, Loop, Push
<1> QED
  BY <1>1, SwimStays, PTL

(***************************************************************************)
(* No gossip, probe, pruning or operator call makes a running node         *)
(* anything but alive in its own view: refuteIfSuspected and the skips of  *)
(* localNode suffice, however late the handlers run.                       *)
(***************************************************************************)
THEOREM SelfStaysAlive == Spec => []SelfAlive
<1>1. SwimInv => SelfAlive
  BY DEF SwimInv, ViewsOK, SelfAlive
<1> QED
  BY <1>1, SwimStays, PTL

(***************************************************************************)
(* acceptGossip takes over only what is newer than List said, so an        *)
(* incarnation is lowered only by a write that was overtaken by another    *)
(* one, or by AddPeer.                                                     *)
(***************************************************************************)
THEOREM IncarnationsGrow == Spec => HigherIncarnationWins
<1>1. ASSUME SwimInv, [Next]_vars
      PROVE  [\A n \in up \cap up', m \in Nodes :
                 members'[n][m].state # "none" /\ members'[n][m].inc < members[n][m].inc
                     => Overtaken(n, m)]_vars
  <2> SUFFICES ASSUME NEW n \in up \cap up', NEW m \in Nodes,
                      members'[n][m].state # "none", members'[n][m].inc < members[n][m].inc
               PROVE  Overtaken(n, m)
    OBVIOUS
  <2>1. n \in Nodes /\ SwimInv' /\ NoRegress
    BY <1>1, SwimNext DEF SwimInv
  <2>2. members[n][m].inc \in Nat /\ members'[n][m].inc \in Nat
    <3>1. Good(members[n][m]) /\ Good(members'[n][m])
      BY <1>1, <2>1 DEF SwimInv, ViewsOK
    <3> QED
      BY <3>1, EntryFields
  <2> QED
    BY <2>1, <2>2 DEF NoRegress
<1> QED
  BY <1>1, SwimStays, PTL DEF Spec, HigherIncarnationWins
=============================================================================
