---------------------------- MODULE ClusterNode ----------------------------
(***************************************************************************)
(* An entry of Membership.nodes (internal/cluster/node.go) and what the    *)
(* critical sections of internal/cluster/membership.go make of it.         *)
(*                                                                         *)
(* LastSeen is kept as an age: 0, above hbSuspectAfter (1), or above       *)
(* hbDeadAfter (2).  A node that is not listed has the entry NoEntry.      *)
(***************************************************************************)
EXTENDS Naturals

States == {"alive", "suspect", "dead"}
Entry == [state : States \cup {"none"}, inc : Nat, age : 0..2]
NoEntry == [state |-> "none", inc |-> 0, age |-> 0]
NewNode == [state |-> "alive", inc |-> 1, age |-> 0]

Listed(view) == {m \in DOMAIN view : view[m].state # "none"}

\* A same-state Mark only refreshes LastSeen; an unknown id is left alone.
MarkEntry(e, state) ==
    CASE e.state = "none" -> e
      [] e.state = state  -> [e EXCEPT !.age = 0]
      [] OTHER            -> [state |-> state, inc |-> e.inc + 1, age |-> 0]

\* Refute bumps the incarnation whatever the state.
RefuteEntry(e) ==
    IF e.state = "none" THEN e
    ELSE [state |-> "alive", inc |-> e.inc + 1, age |-> 0]

\* Upsert puts a node in, seen now.
UpsertEntry(state, inc) == [state |-> state, inc |-> inc, age |-> 0]
=============================================================================
