-------------------------------- MODULE Swim --------------------------------
(***************************************************************************)
(* Failure detection and gossip of pkg/backend/dist_memory.go on several   *)
(* nodes: heartbeats with indirect probes, pruning, gossip, self-          *)
(* refutation, AddPeer and RemovePeer.                                     *)
(*                                                                         *)
(* Three kinds of goroutine change the view of a node: its heartbeat loop, *)
(* the handlers of the gossip other nodes push to it, and operator calls.  *)
(* Each is cut where it gives up the membership lock, so that what it read *)
(* from List may be out of date when it writes.                            *)
(*                                                                         *)
(* Both timeouts are set, and a node is known by its address.  The ring    *)
(* that Upsert and Remove rebuild, the version and the observers are left  *)
(* out.                                                                    *)
(***************************************************************************)
EXTENDS Integers, FiniteSets, FiniteSetsExt, ClusterNode

CONSTANTS Nodes,
          StartUp,        \* nodes that run at first; the others are down for good
          Seeds,          \* Seeds[n]: the peers n is configured with
          Heartbeating,   \* nodes with hbInterval > 0
          Gossiping,      \* nodes with gossipInterval > 0
          SampleSize,     \* WithDistHeartbeatSample, 0 to probe all peers
          IndirectK,      \* WithDistIndirectProbes
          MaxEvents       \* bound on lost probes, late heartbeats, crashes,
                          \* AddPeer and RemovePeer, taken together

ASSUME SwimAssumption ==
    /\ Seeds \in [Nodes -> SUBSET Nodes]
    /\ StartUp \subseteq Nodes
    /\ Heartbeating \subseteq Nodes /\ Gossiping \subseteq Nodes
    /\ SampleSize \in Nat /\ IndirectK \in Nat
    /\ MaxEvents \in Nat

VARIABLES up,       \* the nodes whose process runs
          members,  \* members[n][m]: the entry of m in Membership.nodes of n
          hb,       \* hb[n]: the heartbeat loop of n
          gossip,   \* gossip[s]: the push of s and the handler it runs
          admin,    \* admin[n]: the peer an AddPeer call on n will put in
          events    \* faults, crashes and operator calls so far

vars == <<up, members, hb, gossip, admin, events>>

(***************************************************************************)
(* State                                                                   *)
(***************************************************************************)
\* GossipMember: what travels of an entry.
Claim == [id : Nodes, state : States, inc : Nat]

NoView == [m \in Nodes |-> NoEntry]

\* The copy of List an evaluation works on: State and LastSeen are used.
Copy == [state : States \cup {"none"}, age : 0..2]
NoCopy == [m \in Nodes |-> [state |-> "none", age |-> 0]]

HbIdle == [pc |-> "idle", todo |-> {}, peer |-> {}, snap |-> NoCopy]
GossipIdle == [pc |-> "idle", to |-> {}, todo |-> {}, claim |-> {}, seen |-> 0]

\* localNode and the seeds.
SeededView(n) ==
    [m \in Nodes |-> IF m \in Seeds[n] \cup {n} THEN NewNode ELSE NoEntry]

(***************************************************************************)
(* Every entry, claim and goroutine keeps its shape.                       *)
(***************************************************************************)
TypeOK ==
    /\ up \in SUBSET Nodes
    /\ members \in [Nodes -> [Nodes -> Entry]]
    /\ hb \in [Nodes -> [pc : {"idle", "evaluate", "probe"},
                         todo : SUBSET Nodes, peer : SUBSET Nodes,
                         snap : [Nodes -> Copy]]]
    /\ gossip \in [Nodes -> [pc : {"idle", "look", "apply"},
                             to : SUBSET Nodes, todo : SUBSET Claim,
                             claim : SUBSET Claim, seen : Nat]]
    /\ admin \in [Nodes -> SUBSET Nodes]
    /\ events \in 0..MaxEvents

Init ==
    /\ up = StartUp
    /\ members = [n \in Nodes |-> IF n \in StartUp THEN SeededView(n) ELSE NoView]
    /\ hb = [n \in Nodes |-> HbIdle]
    /\ gossip = [n \in Nodes |-> GossipIdle]
    /\ admin = [n \in Nodes |-> {}]
    /\ events = 0

Mark(n, m, state) ==
    members' = [members EXCEPT ![n][m] = MarkEntry(@, state)]
Refute(n) == members' = [members EXCEPT ![n][n] = RefuteEntry(@)]
Upsert(n, m, state, inc) ==
    members' = [members EXCEPT ![n][m] = UpsertEntry(state, inc)]
Remove(n, m) == members' = [members EXCEPT ![n][m] = NoEntry]

Event == events < MaxEvents /\ events' = events + 1

(***************************************************************************)
(* Heartbeat: runHeartbeatTick and evaluateLiveness                        *)
(***************************************************************************)
Samples(n) ==
    LET peers == Listed(members[n])
    IN  IF SampleSize > 0 /\ SampleSize < Cardinality(peers)
        THEN kSubset(SampleSize, peers)
        ELSE {peers}

\* The tick works on the copies List returned, however long it takes.
HeartbeatTick(n, sample) ==
    /\ n \in up \cap Heartbeating
    /\ hb[n].pc = "idle"
    /\ sample \in Samples(n)
    /\ sample \ {n} # {}
    /\ hb' = [hb EXCEPT ![n] =
           [pc |-> "evaluate", todo |-> sample \ {n}, peer |-> {},
            snap |-> [m \in Nodes |->
                IF m \in sample \ {n}
                THEN [state |-> members[n][m].state, age |-> members[n][m].age]
                ELSE NoCopy[m]]]]
    /\ UNCHANGED <<up, members, gossip, admin, events>>

\* The loop of n goes to pc with peer m, or past m when pc is "next".
HbGo(n, m, pc) ==
    LET todo == hb[n].todo \ {m}
    IN  hb' = [hb EXCEPT ![n] =
            IF pc # "next" THEN [@ EXCEPT !.pc = pc, !.todo = todo, !.peer = {m}]
            ELSE IF todo = {} THEN HbIdle
            ELSE [pc |-> "evaluate", todo |-> todo, peer |-> {},
                  snap |-> [@.snap EXCEPT ![m] = NoCopy[m]]]]

\* hbDeadAfter has passed in the copy: prune the peer, whatever it is now.
PrunePeer(n, m) ==
    /\ hb[n].pc = "evaluate" /\ m \in hb[n].todo
    /\ hb[n].snap[m].age = 2
    /\ Remove(n, m)
    /\ HbGo(n, m, "next")
    /\ UNCHANGED <<up, gossip, admin, events>>

\* hbSuspectAfter has passed and the copy says alive: suspect, then probe.
TimedOut(n, m) == hb[n].snap[m].age = 1 /\ hb[n].snap[m].state = "alive"

SuspectPeer(n, m) ==
    /\ hb[n].pc = "evaluate" /\ m \in hb[n].todo
    /\ TimedOut(n, m)
    /\ Mark(n, m, "suspect")
    /\ HbGo(n, m, "probe")
    /\ UNCHANGED <<up, gossip, admin, events>>

\* The Health call of n to m is under way.
Probing(n, m) ==
    \/ hb[n].pc = "probe" /\ m \in hb[n].peer
    \/ /\ hb[n].pc = "evaluate" /\ m \in hb[n].todo
       /\ hb[n].snap[m].age < 2 /\ ~TimedOut(n, m)

\* Mutant: a success only refreshes LastSeen.
ProbeSucceeds_RefreshOnly(n, m) ==
    /\ Probing(n, m)
    /\ m \in up
    /\ Mark(n, m, members[n][m].state)
    /\ HbGo(n, m, "next")
    /\ UNCHANGED <<up, gossip, admin, events>>

\* Health answers: the peer is alive and its LastSeen is now.
ProbeSucceeds(n, m) ==
    /\ Probing(n, m)
    /\ m \in up
    /\ Mark(n, m, "alive")
    /\ HbGo(n, m, "next")
    /\ UNCHANGED <<up, gossip, admin, events>>

\* The peers pickIndirectRelays may choose from.
Relays(n, m) == {r \in Nodes \ {n, m} : members[n][r].state = "alive"}

\* Health fails on the way, a relay reaches the peer.
ProbeRelayed(n, m) ==
    /\ Probing(n, m)
    /\ m \in up /\ Event
    /\ IndirectK > 0 /\ Relays(n, m) \cap up # {}
    /\ Mark(n, m, "alive")
    /\ HbGo(n, m, "next")
    /\ UNCHANGED <<up, gossip, admin>>

\* Health fails and no relay can help: suspect the peer if the copy, not the
\* entry, says alive.
ProbeFails(n, m) ==
    /\ Probing(n, m)
    /\ IF m \in up THEN Event ELSE UNCHANGED events
    /\ IF hb[n].snap[m].state = "alive" THEN Mark(n, m, "suspect")
                                        ELSE UNCHANGED members
    /\ HbGo(n, m, "next")
    /\ UNCHANGED <<up, gossip, admin>>

(***************************************************************************)
(* Gossip: runGossipTick on the sender, acceptGossip on the receiver       *)
(***************************************************************************)
\* Mutant: removed nodes are sent too.
Snapshot_AllNodes(s, t) ==
    {[id |-> m, state |-> members[s][m].state, inc |-> members[s][m].inc] :
        m \in Nodes \ {t}}

\* What s tells t, without the claim that t is alive, to which t says nothing.
Snapshot(s, t) ==
    {[id |-> m, state |-> members[s][m].state, inc |-> members[s][m].inc] :
        m \in {m \in Listed(members[s]) :
                  m = t => members[s][m].state # "alive"}}

\* The sender waits for the handler, which runs beside those of others.
GossipTick(s, t) ==
    /\ s \in up \cap Gossiping
    /\ gossip[s].pc = "idle"
    /\ t \in Listed(members[s]) \ {s}
    /\ t \in up
    /\ gossip' = [gossip EXCEPT ![s] =
           [GossipIdle EXCEPT !.pc = "look", !.to = {t}, !.todo = Snapshot(s, t)]]
    /\ UNCHANGED <<up, members, hb, admin, events>>

\* The handler drops claim c, or keeps it to apply with what it has seen.
GossipDrop(s, c) ==
    LET left == gossip[s].todo \ {c}
    IN  gossip' = [gossip EXCEPT ![s] =
            IF left = {} THEN GossipIdle
            ELSE [@ EXCEPT !.pc = "look", !.todo = left, !.claim = {}, !.seen = 0]]
GossipKeep(s, c, cur) ==
    gossip' = [gossip EXCEPT ![s].pc = "apply", ![s].todo = @ \ {c},
                             ![s].claim = {c}, ![s].seen = cur.inc]

\* refuteIfSuspected: claims below the local incarnation are stale.
ToRefute(c, own) == c.inc >= own.inc

\* Mutant: any other incarnation is taken over, lower ones included.
ToAdopt_AnyOther(c, cur) == cur.state = "none" \/ c.inc # cur.inc

ToAdopt(c, cur) == cur.state = "none" \/ c.inc > cur.inc

\* List (or localNode) is read, and the claim judged by it.
Look(s, t, c) ==
    /\ gossip[s].pc = "look" /\ t \in gossip[s].to /\ c \in gossip[s].todo
    /\ LET cur == members[t][c.id]
       IN  IF IF c.id = t THEN ToRefute(c, cur) ELSE ToAdopt(c, cur)
           THEN GossipKeep(s, c, cur)
           ELSE GossipDrop(s, c)
    /\ UNCHANGED <<up, members, hb, admin, events>>

\* A claim about another node, found newer when it was looked at.
Adopt(s, t, c) ==
    /\ gossip[s].pc = "apply" /\ t \in gossip[s].to /\ c \in gossip[s].claim
    /\ c.id # t
    /\ Upsert(t, c.id, c.state, c.inc)
    /\ GossipDrop(s, c)
    /\ UNCHANGED <<up, hb, admin, events>>

\* Mutant: the local node is merged like any other.
SelfRefute_Adopts(s, t, c) ==
    /\ gossip[s].pc = "apply" /\ t \in gossip[s].to /\ c \in gossip[s].claim
    /\ c.id = t
    /\ Upsert(t, c.id, c.state, c.inc)
    /\ GossipDrop(s, c)
    /\ UNCHANGED <<up, hb, admin, events>>

\* A claim about the receiver itself: its own incarnation plus one.
SelfRefute(s, t, c) ==
    /\ gossip[s].pc = "apply" /\ t \in gossip[s].to /\ c \in gossip[s].claim
    /\ c.id = t
    /\ Refute(t)
    /\ GossipDrop(s, c)
    /\ UNCHANGED <<up, hb, admin, events>>

(***************************************************************************)
(* The operator: AddPeer and RemovePeer, with another node's address       *)
(***************************************************************************)
\* The peer is not in List; it may be by the time of the Upsert.
AddPeer(n, m) ==
    /\ n \in up /\ m # n /\ admin[n] = {}
    /\ members[n][m].state = "none"
    /\ Event
    /\ admin' = [admin EXCEPT ![n] = {m}]
    /\ UNCHANGED <<up, members, hb, gossip>>

AddPeerUpsert(n, m) ==
    /\ m \in admin[n]
    /\ Upsert(n, m, NewNode.state, NewNode.inc)
    /\ admin' = [admin EXCEPT ![n] = {}]
    /\ UNCHANGED <<up, hb, gossip, events>>

RemovePeer(n, m) ==
    /\ n \in up /\ m # n
    /\ members[n][m].state # "none"
    /\ Event
    /\ Remove(n, m)
    /\ UNCHANGED <<up, hb, gossip, admin>>

(***************************************************************************)
(* The environment: time, crashes and restarts                             *)
(***************************************************************************)
\* No probe of n has refreshed the entry of m for another while.  With a live
\* peer that is a heartbeat that runs late, and counts as a fault.
GrowOld(n, m) ==
    /\ n \in up \cap Heartbeating /\ m # n
    /\ members[n][m].state # "none" /\ members[n][m].age < 2
    /\ IF m \in up THEN Event ELSE UNCHANGED events
    /\ members' = [members EXCEPT ![n][m].age = @ + 1]
    /\ UNCHANGED <<up, hb, gossip, admin>>

\* All of it is in memory; handlers of what x has sent go on elsewhere.
Crash(x) ==
    /\ x \in up /\ Event
    /\ up' = up \ {x}
    /\ members' = [members EXCEPT ![x] = NoView]
    /\ hb' = [hb EXCEPT ![x] = HbIdle]
    /\ admin' = [admin EXCEPT ![x] = {}]
    /\ gossip' = [s \in Nodes |->
           IF x \in gossip[s].to THEN GossipIdle ELSE gossip[s]]

\* NewDistMemory once more: a view of the seeds, with every incarnation at one
\* whatever the others have made of it.
Start(x) ==
    /\ x \in StartUp \ up
    /\ up' = up \cup {x}
    /\ members' = [members EXCEPT ![x] = SeededView(x)]
    /\ UNCHANGED <<hb, gossip, admin, events>>

HeartbeatStep(n) ==
    \E m \in Nodes : \/ PrunePeer(n, m)
                     \/ SuspectPeer(n, m)
                     \/ ProbeSucceeds(n, m)
                     \/ ProbeRelayed(n, m)
                     \/ ProbeFails(n, m)

GossipStep(s) ==
    \E t \in gossip[s].to :
        \/ \E c \in gossip[s].todo : Look(s, t, c)
        \/ \E c \in gossip[s].claim : Adopt(s, t, c) \/ SelfRefute(s, t, c)

AdminStep(n) == \E m \in admin[n] : AddPeerUpsert(n, m)

Next ==
    \/ \E n \in Nodes : \E sample \in Samples(n) : HeartbeatTick(n, sample)
    \/ \E n \in Nodes : HeartbeatStep(n) \/ GossipStep(n) \/ AdminStep(n)
    \/ \E n, m \in Nodes : GossipTick(n, m) \/ GrowOld(n, m)
    \/ \E n, m \in Nodes : AddPeer(n, m) \/ RemovePeer(n, m)
    \/ \E x \in Nodes : Crash(x) \/ Start(x)

Spec == Init /\ [][Next]_vars

(***************************************************************************)
(* Goroutines run: a push that has begun comes to its end, and the         *)
(* heartbeat ticker keeps firing.  The probed sample is drawn at random,   *)
(* so every listed peer comes up again and again.  Time passes for a peer  *)
(* that no longer answers.  Nothing is assumed of the gossip ticker,       *)
(* faults, crashes, restarts and operators.                                *)
(***************************************************************************)
Fairness ==
    /\ \A n \in Gossiping : WF_vars(GossipStep(n))
    /\ \A n \in Heartbeating :
           /\ WF_vars(HeartbeatStep(n))
           /\ WF_vars(\E m \in Nodes \ up : GrowOld(n, m))
           /\ \A m \in Nodes \ {n} :
                  SF_vars(\E sample \in Samples(n) :
                              m \in sample /\ HeartbeatTick(n, sample))

FairSpec == Spec /\ Fairness

(***************************************************************************)
(* Properties                                                              *)
(***************************************************************************)
\* A running node is always a live member of its own view, whatever peers claim
\* about it and however late (the continue in acceptGossip, the skip of
\* localNode in runHeartbeatTick).
SelfAlive ==
    \A n \in up : members[n][n].state = "alive"

\* Higher incarnation wins: what a node knows of a peer goes back to a lower
\* incarnation only when the write was overtaken, that is when the entry is no
\* longer the one List had returned to acceptGossip or AddPeer.
Overtaken(n, m) ==
    \/ \E s \in Nodes : /\ gossip[s].pc = "apply" /\ n \in gossip[s].to
                        /\ \E c \in gossip[s].claim : c.id = m
                        /\ gossip[s].seen # members[n][m].inc
    \/ m \in admin[n]
HigherIncarnationWins ==
    [][\A n \in up \cap up', m \in Nodes :
           members'[n][m].state # "none" /\ members'[n][m].inc < members[n][m].inc
               => Overtaken(n, m)]_vars

\* False suspicion dies out: from some time on, a node that probes holds no
\* running peer for suspect or dead, although peers go on telling it what they
\* once believed, also about a node that has started again since.  A node that
\* does not probe may keep its suspicion.
SuspicionClears ==
    \A n \in Heartbeating, m \in Nodes :
        <>[](n \in up /\ m \in up => members[n][m].state \in {"none", "alive"})

\* A node that stays down is gone for good in the end: "After
\* WithDistHeartbeat's deadAfter window, the peer is pruned and ring lookups
\* stop including it" (docs/operations.md).
DeadPeerLeaves ==
    \A n \in Heartbeating : \A x \in Nodes \ {n} :
        <>[](n \in up /\ x \notin up) => <>[](members[n][x].state = "none")
=============================================================================
