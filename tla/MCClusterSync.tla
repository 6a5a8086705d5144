--------------------------- MODULE MCClusterSync ----------------------------
(***************************************************************************)
(* Scenarios for TLC on three nodes and two keys.                          *)
(***************************************************************************)
EXTENDS ClusterSync

MCTokens == <<{1, 6}, {4, 9}, {3, 11}>>
MCKeyHash == <<0, 2>>

Base == [nodes |-> {1, 2}, replication |-> 2, start |-> {1, 2}, changes |-> <<>>,
         keys |-> {1}, loops |-> {}, active |-> {},
         grace |-> FALSE, limit |-> 0, hints |-> FALSE, caps |-> FALSE,
         transport |-> "http", listCap |-> 0,
         writes |-> 0, removes |-> 0, reads |-> 0, crashes |-> 0, faults |-> 0]
Add3 == [op |-> "upsert", node |-> 3]
Drop3 == [op |-> "remove", node |-> 3]

\* A third node joins: key 1 gets a new replica, key 2 a new primary.
Join == [Base EXCEPT !.nodes = {1, 2, 3}, !.changes = <<Add3>>,
                     !.loops = {"rebalance"}, !.writes = 1]
\* One copy of each key, and a second node that joins.
Single == [Base EXCEPT !.nodes = {1, 3}, !.replication = 1, !.start = {1},
                       !.keys = {2}, !.changes = <<Add3>>, !.loops = {"rebalance"},
                       !.writes = 2]
\* The second node is dropped and comes back.
Flap == [Single EXCEPT !.changes = <<Add3, Drop3, Add3>>, !.writes = 1]
Pull == [Base EXCEPT !.loops = {"sync"}, !.active = {1}, !.writes = 2, !.faults = 1]

MCScenarios ==
    {Join,
     [Join EXCEPT !.keys = {2}, !.hints = TRUE, !.faults = 1],
     [Single EXCEPT !.hints = TRUE, !.faults = 1],
     [Single EXCEPT !.replication = 2, !.hints = TRUE, !.caps = TRUE, !.faults = 2],
     [Flap EXCEPT !.hints = TRUE, !.faults = 1],
     [Single EXCEPT !.grace = TRUE, !.hints = TRUE, !.faults = 1],
     [Flap EXCEPT !.grace = TRUE],
     [Single EXCEPT !.replication = 2, !.keys = {1, 2}, !.limit = 1,
                    !.changes = <<Drop3, Add3>>],
     [Pull EXCEPT !.removes = 1],
     [Pull EXCEPT !.keys = {2}, !.removes = 1],
     [Pull EXCEPT !.removes = 1, !.writes = 1, !.crashes = 1],
     [Pull EXCEPT !.keys = {1, 2}, !.crashes = 1],
     [Pull EXCEPT !.keys = {1, 2}, !.transport = "inprocess"],
     [Pull EXCEPT !.keys = {1, 2}, !.transport = "chaos"],
     [Pull EXCEPT !.keys = {1, 2}, !.listCap = 1],
     [Base EXCEPT !.loops = {"repair"}, !.active = {2}, !.keys = {1, 2}, !.writes = 3,
                  !.reads = 2, !.faults = 1],
     [Base EXCEPT !.nodes = {1, 2, 3}, !.start = {1, 2, 3}, !.loops = {"list"},
                  !.keys = {1, 2}, !.writes = 2, !.removes = 1, !.faults = 2]}
=============================================================================
