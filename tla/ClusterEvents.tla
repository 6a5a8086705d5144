--------------------------- MODULE ClusterEvents ----------------------------
(***************************************************************************)
(* The event streams of the management API: the membership's observer      *)
(* publishes a snapshot of the members after every change                  *)
(* (pkg/backend/dist_memory_events.go), the bus hands it to every          *)
(* subscriber that has room (internal/eventbus/bus.go), and a stream sends *)
(* a first snapshot and then what its subscription gets                    *)
(* (management_http.go).                                                   *)
(*                                                                         *)
(* Only how recent a snapshot is matters: the membership is the number of  *)
(* changes it has seen.                                                    *)
(***************************************************************************)
EXTENDS ServerNode

CONSTANTS Host,      \* the server that is watched
          Streams,   \* the connections to /cluster/events
          Buffer     \* subscriberBufferSize

ASSUME EventsAssumption == Host \in Nodes /\ Buffer \in Nat \ {0}

VARIABLES version,      \* the changes the membership has seen
          notices,      \* notices[i]: the event the i-th change or tick becomes
          overlapped,   \* a change came before an earlier one was published
          subscribers,  \* the bus's map
          stream        \* stream[s]: the handler of a connection

eventVars == <<version, notices, overlapped, subscribers, stream>>

\* snap: the snapshot taken when it connected; shown: the last snapshot sent;
\* queue: its channel; dropped: an event found no room; gone: its client left.
NoStream == [pc |-> "off", snap |-> 0, shown |-> 0, queue |-> <<>>, closed |-> FALSE,
             dropped |-> FALSE, gone |-> FALSE]

EventsInit ==
    /\ version = 0
    /\ notices = <<>>
    /\ overlapped = FALSE
    /\ subscribers = {}
    /\ stream = [s \in Streams |-> NoStream]

Serving == Managing(Host)

\* The bus's lock: publishers share it, Subscribe and unsub need it alone.
Unlocked == \A i \in DOMAIN notices : notices[i].pc # "sending"

\* A mutation of the membership; its observers run after the lock is released.
Mutate ==
    /\ Running(Host) /\ Spend("changes")
    /\ version' = version + 1
    /\ notices' = Append(notices, [type |-> "members", pc |-> "changed", payload |-> 0,
                                   to |-> {}])
    /\ overlapped' = (overlapped \/ \E i \in DOMAIN notices :
                          notices[i].type = "members" /\ notices[i].pc # "sent")
    /\ UNCHANGED <<scenario, phase, arrived, open, pool, subscribers, stream>>

\* The observer takes the snapshot, outside every lock.
membersSnapshot(i) ==
    /\ notices[i].pc = "changed"
    /\ notices' = [notices EXCEPT ![i].pc = "ready", ![i].payload = version]
    /\ UNCHANGED <<nodeVars, version, overlapped, subscribers, stream>>

heartbeatTick ==
    /\ Running(Host) /\ Spend("beats")
    /\ notices' = Append(notices, [type |-> "heartbeat", pc |-> "ready", payload |-> 0,
                                   to |-> {}])
    /\ UNCHANGED <<scenario, phase, arrived, open, pool, version, overlapped, subscribers,
                   stream>>

\* Publish, to one subscriber after another and never waiting for one.
Publish(i) ==
    \/ /\ notices[i].pc = "ready"
       /\ notices' = [notices EXCEPT ![i].pc = "sending", ![i].to = subscribers]
       /\ UNCHANGED stream
    \/ /\ notices[i].pc = "sending" /\ notices[i].to = {}
       /\ notices' = [notices EXCEPT ![i].pc = "sent"]
       /\ UNCHANGED stream
    \/ /\ notices[i].pc = "sending"
       /\ \E s \in notices[i].to :
            /\ notices' = [notices EXCEPT ![i].to = @ \ {s}]
            /\ stream' = [stream EXCEPT ![s] =
                   IF Len(@.queue) < Buffer
                   THEN [@ EXCEPT !.queue = Append(@, [type |-> notices[i].type,
                                                       payload |-> notices[i].payload])]
                   ELSE [@ EXCEPT !.dropped = TRUE]]

PublishStep(i) == Publish(i) /\ UNCHANGED <<nodeVars, version, overlapped, subscribers>>

\* Subscribe first, then the snapshot.
\* Mutant: the snapshot first.
handleClusterEvents_SnapshotFirst(s) ==
    \/ /\ stream[s].pc = "off" /\ Serving
       /\ stream' = [stream EXCEPT ![s].pc = "subscribed", ![s].snap = version]
       /\ open' = [open EXCEPT ![Host] = @ \cup {s}]
       /\ UNCHANGED subscribers
    \/ /\ stream[s].pc = "subscribed" /\ Unlocked
       /\ stream' = [stream EXCEPT ![s].pc = "initial"]
       /\ subscribers' = subscribers \cup {s}
       /\ UNCHANGED open
handleClusterEvents(s) ==
    \/ /\ stream[s].pc = "off" /\ Serving /\ Unlocked
       /\ stream' = [stream EXCEPT ![s].pc = "subscribed"]
       /\ open' = [open EXCEPT ![Host] = @ \cup {s}]
       /\ subscribers' = subscribers \cup {s}
    \/ /\ stream[s].pc = "subscribed"
       /\ stream' = [stream EXCEPT ![s].pc = "initial", ![s].snap = version]
       /\ UNCHANGED <<open, subscribers>>

Connect(s) ==
    /\ Running(Host) /\ handleClusterEvents(s)
    /\ UNCHANGED <<scenario, left, phase, arrived, pool, version, notices, overlapped>>

\* A write to a client that has left ends the stream.
Sent(s, payload) ==
    IF stream[s].gone THEN [stream[s] EXCEPT !.pc = "ending"]
    ELSE [stream[s] EXCEPT !.pc = "streaming", !.shown = payload]

writeInitialFrames(s) ==
    /\ stream[s].pc = "initial"
    /\ stream' = [stream EXCEPT ![s] = Sent(s, stream[s].snap)]
    /\ UNCHANGED <<nodeVars, version, notices, overlapped, subscribers>>

Canceled == phase[Host] = "canceled"

\* Whatever is ready: the context, an event, or the end of the channel.
streamEventsLoop(s) ==
    /\ stream[s].pc = "streaming"
    /\ \/ /\ Canceled \/ (stream[s].closed /\ stream[s].queue = <<>>)
          /\ stream' = [stream EXCEPT ![s].pc = "ending"]
       \/ /\ stream[s].queue # <<>>
          /\ LET e == Head(stream[s].queue)
             IN  stream' = [stream EXCEPT ![s] =
                     [Sent(s, IF e.type = "members" THEN e.payload ELSE stream[s].shown)
                         EXCEPT !.queue = Tail(@)]]
    /\ UNCHANGED <<nodeVars, version, notices, overlapped, subscribers>>

\* By the handler when it returns or by the bus when the context is canceled.
unsub(s) ==
    /\ s \in subscribers /\ Unlocked /\ (Canceled \/ stream[s].pc = "ending")
    /\ subscribers' = subscribers \ {s}
    /\ stream' = [stream EXCEPT ![s].closed = TRUE]
    /\ UNCHANGED <<nodeVars, version, notices, overlapped>>

StreamEnds(s) ==
    /\ stream[s].pc = "ending" /\ s \notin subscribers
    /\ stream' = [stream EXCEPT ![s].pc = "ended"]
    /\ open' = [open EXCEPT ![Host] = @ \ {s}]
    /\ UNCHANGED <<scenario, left, phase, arrived, pool, version, notices, overlapped,
                   subscribers>>

Leave(s) ==
    /\ stream[s].pc # "off" /\ ~stream[s].gone /\ scenario.leaving
    /\ stream' = [stream EXCEPT ![s].gone = TRUE]
    /\ UNCHANGED <<nodeVars, version, notices, overlapped, subscribers>>

EventStep ==
    /\ Running(Host)
    /\ \/ \E i \in DOMAIN notices : membersSnapshot(i) \/ PublishStep(i)
       \/ \E s \in Streams : \/ writeInitialFrames(s) \/ streamEventsLoop(s)
                             \/ unsub(s) \/ StreamEnds(s)
=============================================================================
