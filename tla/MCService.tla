----------------------------- MODULE MCService ------------------------------
(***************************************************************************)
(* Scenarios for TLC on two servers, two keys and two streams.             *)
(***************************************************************************)
EXTENDS Service

MCPolicy ==
    [tokens |-> <<[name |-> "tok", scopes |-> {"read"}],
                  [name |-> "tok", scopes |-> {"read", "write"}]>>,
     users |-> <<[name |-> "usr", scopes |-> {"read"}]>>,
     certs |-> <<[name |-> "crt", scopes |-> {"read", "write", "admin"}]>>,
     claims |-> {[name |-> "idp", scopes |-> {"read", "write"}]},
     anonymous |-> FALSE, plain |-> FALSE, tls |-> TRUE]

Tok == [kind |-> "bearer", name |-> "tok", good |-> TRUE]
Idp == [kind |-> "bearer", name |-> "idp", good |-> TRUE]
Late == [Idp EXCEPT !.good = FALSE]
Usr == [kind |-> "basic", name |-> "usr", good |-> TRUE]
Crt == [kind |-> "cert", name |-> "crt", good |-> TRUE]
None == [kind |-> "none", name |-> "", good |-> FALSE]

Ask(op, cred, keys, depth) == [op |-> op, cred |-> cred, keys |-> keys, depth |-> depth]

Base == [calls |-> <<>>, seeds |-> {1, 2}, membersRoute |-> FALSE, streams |-> {},
         leaving |-> FALSE, signals |-> 0, crashes |-> 0, faults |-> 0, changes |-> 0,
         beats |-> 0, jobs |-> 0]
Stops == [Base EXCEPT !.signals = 1, !.faults = 1]
Dies == [Base EXCEPT !.crashes = 1, !.faults = 1]

MCScenarios ==
    {[Stops EXCEPT !.calls = <<Ask("set", Tok, <<1>>, 0), Ask("get", Usr, <<1>>, 0)>>],
     [Dies EXCEPT !.calls = <<Ask("set", Idp, <<1>>, 1), Ask("item", Crt, <<1>>, 0)>>],
     [Stops EXCEPT !.calls = <<Ask("batchSet", Crt, <<1, 2>>, 1),
                               Ask("batchGet", Tok, <<2, 1>>, 0)>>],
     [Stops EXCEPT !.calls = <<Ask("set", Tok, <<1>>, 0), Ask("delete", Tok, <<1>>, 0)>>],
     [Dies EXCEPT !.calls = <<Ask("set", Tok, <<2>>, 0),
                              Ask("batchDelete", Idp, <<1, 2>>, 0)>>],
     [Stops EXCEPT !.calls = <<Ask("can", Usr, <<>>, 0), Ask("set", Usr, <<1>>, 0)>>],
     [Stops EXCEPT !.calls = <<Ask("me", Late, <<>>, 0), Ask("can", Idp, <<>>, 0)>>],
     [Dies EXCEPT !.calls = <<Ask("refresh", Tok, <<>>, 0), Ask("set", Tok, <<1>>, 0)>>,
                  !.seeds = {1}, !.membersRoute = TRUE],
     [Stops EXCEPT !.calls = <<Ask("refresh", Tok, <<>>, 0), Ask("get", None, <<1>>, 0)>>],
     [Base EXCEPT !.streams = {1}, !.changes = 2, !.beats = 1],
     [Base EXCEPT !.streams = {1}, !.changes = 1, !.signals = 1, !.leaving = TRUE],
     [Base EXCEPT !.streams = {1, 2}, !.changes = 1, !.signals = 1],
     [Stops EXCEPT !.calls = <<Ask("set", Tok, <<1>>, 0)>>, !.streams = {1}, !.jobs = 3],
     [Base EXCEPT !.streams = {1}, !.changes = 3, !.crashes = 1]}
=============================================================================
