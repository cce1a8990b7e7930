------------------------------ MODULE Broadcast ------------------------------
(***************************************************************************)
(* The way of events and readings to the clients: the two bounded queues   *)
(* of DeviceStore (src/service/models/device.py), the two broadcasters,    *)
(* the hub, and each client's two queues and sender task                   *)
(* (src/service/api/websocket.py).                                         *)
(*                                                                         *)
(* An event is the number of its publication, and so is a reading.  A      *)
(* broadcaster may take any time before its next message, so that the push *)
(* service it awaits after one (PushService) needs no state here.          *)
(***************************************************************************)
EXTENDS Naturals, Sequences

CONSTANTS Client,       \* connections; one that has ended may be used again
          Slow,         \* the clients whose sends need not come to an end
          MaxEvent,     \* bound on the events published
          MaxReading,   \* bound on the readings published
          StoreCap,     \* maxsize of the queues of DeviceStore: 1000
          ClientCap     \* maxsize of a client's event queue: 64

ASSUME BroadcastAssumption ==
    /\ Slow \subseteq Client
    /\ MaxEvent \in Nat
    /\ MaxReading \in Nat
    /\ StoreCap \in Nat \ {0}
    /\ ClientCap \in Nat \ {0}

Event == 1..MaxEvent
Reading == 1..MaxReading

VARIABLES
    published,      \* number of events published
    eventQueue,     \* DeviceStore._event_queue
    measured,       \* number of readings published
    readingQueue,   \* DeviceStore._reading_queue
    hub,            \* WebSocketHub.clients
    conn,           \* the WebSocket: "away", "open" or "closed"
    sender,         \* its sender task: "ready", sending an "event" or a "reading", or "done"
    hand,           \* the message being sent
    events,         \* WebSocketClient._event_queue
    readings,       \* WebSocketClient._reading_queue
    since,          \* history: events published when the client connected
    got,            \* history: the events the client got on this connection
    shown           \* history: the last reading it got on this connection, or 0

store == <<published, eventQueue, measured, readingQueue>>
client == <<hub, conn, sender, hand, events, readings>>
history == <<since, got, shown>>
vars == <<store, client, history>>

TypeOK ==
    /\ published \in 0..MaxEvent
    /\ eventQueue \in Seq(Event)
    /\ Len(eventQueue) <= StoreCap
    /\ measured \in 0..MaxReading
    /\ readingQueue \in Seq(Reading)
    /\ Len(readingQueue) <= StoreCap
    /\ hub \subseteq Client
    /\ conn \in [Client -> {"away", "open", "closed"}]
    /\ sender \in [Client -> {"ready", "event", "reading", "done"}]
    /\ hand \in [Client -> Nat]
    /\ events \in [Client -> Seq(Event)]
    /\ \A c \in Client : Len(events[c]) <= ClientCap
    /\ readings \in [Client -> Seq(Reading)]
    /\ \A c \in Client : Len(readings[c]) <= 1
    /\ since \in [Client -> 0..MaxEvent]
    /\ got \in [Client -> SUBSET Event]
    /\ shown \in [Client -> 0..MaxReading]

-----------------------------------------------------------------------------
\* Seeded fault of Put: a full queue takes nothing.
PutUnlessFull(q, m, cap) == IF Len(q) < cap THEN Append(q, m) ELSE q

\* A full queue drops its oldest entry.
Put(q, m, cap) == Append(IF Len(q) < cap THEN q ELSE Tail(q), m)

\* DeviceStore.publish_event
PublishEvent ==
    /\ published < MaxEvent
    /\ published' = published + 1
    /\ eventQueue' = Put(eventQueue, published + 1, StoreCap)
    /\ UNCHANGED <<measured, readingQueue, client, history>>

\* DeviceStore.publish_reading
PublishReading ==
    /\ measured < MaxReading
    /\ measured' = measured + 1
    /\ readingQueue' = Put(readingQueue, measured + 1, StoreCap)
    /\ UNCHANGED <<published, eventQueue, client, history>>

-----------------------------------------------------------------------------
(* The broadcasters.                                                       *)

\* WebSocketHub.broadcast enqueues for the clients whose connection is open
\* and drops the others from the registry.
Listening == {c \in hub : conn[c] = "open"}

\* Seeded fault of BroadcastEvent: a full queue is waited for.
BroadcastEventBlocking ==
    /\ eventQueue # <<>>
    /\ \A c \in Listening : Len(events[c]) < ClientCap
    /\ hub' = Listening
    /\ events' = [c \in Client |-> IF c \in Listening
                                   THEN Put(events[c], Head(eventQueue), ClientCap)
                                   ELSE events[c]]
    /\ eventQueue' = Tail(eventQueue)
    /\ UNCHANGED <<published, measured, readingQueue, conn, sender, hand, readings,
                   history>>

\* Seeded fault of BroadcastEvent: a client that is busy is passed over.
BroadcastEventToIdle ==
    /\ eventQueue # <<>>
    /\ hub' = Listening
    /\ events' = [c \in Client |-> IF c \in Listening /\ sender[c] = "ready"
                                   THEN Put(events[c], Head(eventQueue), ClientCap)
                                   ELSE events[c]]
    /\ eventQueue' = Tail(eventQueue)
    /\ UNCHANGED <<published, measured, readingQueue, conn, sender, hand, readings,
                   history>>

\* Alerts and the ends of sessions then go to the push service.
BroadcastEvent ==
    /\ eventQueue # <<>>
    /\ hub' = Listening
    /\ events' = [c \in Client |-> IF c \in Listening
                                   THEN Put(events[c], Head(eventQueue), ClientCap)
                                   ELSE events[c]]
    /\ eventQueue' = Tail(eventQueue)
    /\ UNCHANGED <<published, measured, readingQueue, conn, sender, hand, readings,
                   history>>

\* Seeded fault of BroadcastReading: the older reading is kept.
BroadcastReadingIfNone ==
    /\ readingQueue # <<>>
    /\ hub' = Listening
    /\ readings' = [c \in Client |-> IF c \in Listening /\ readings[c] = <<>>
                                     THEN <<Head(readingQueue)>>
                                     ELSE readings[c]]
    /\ readingQueue' = Tail(readingQueue)
    /\ UNCHANGED <<published, eventQueue, measured, conn, sender, hand, events, history>>

BroadcastReading ==
    /\ readingQueue # <<>>
    /\ hub' = Listening
    /\ readings' = [c \in Client |-> IF c \in Listening
                                     THEN Put(readings[c], Head(readingQueue), 1)
                                     ELSE readings[c]]
    /\ readingQueue' = Tail(readingQueue)
    /\ UNCHANGED <<published, eventQueue, measured, conn, sender, hand, events, history>>

-----------------------------------------------------------------------------
(* A connection and its sender.                                            *)

\* websocket_handler up to its loop: a sender task and two empty queues.
Connect(c) ==
    /\ conn[c] = "away"
    /\ sender[c] = "done"
    /\ conn' = [conn EXCEPT ![c] = "open"]
    /\ hub' = hub \cup {c}
    /\ sender' = [sender EXCEPT ![c] = "ready"]
    /\ since' = [since EXCEPT ![c] = published]
    /\ UNCHANGED <<store, hand, events, readings, got, shown>>

\* The client closes the connection, or its heartbeat fails.
Close(c) ==
    /\ conn[c] = "open"
    /\ conn' = [conn EXCEPT ![c] = "closed"]
    /\ UNCHANGED <<store, hub, sender, hand, events, readings, history>>

\* With the WebSocketClient its queues and what they hold are gone.
Discard(c) ==
    /\ hand' = [hand EXCEPT ![c] = 0]
    /\ events' = [events EXCEPT ![c] = <<>>]
    /\ readings' = [readings EXCEPT ![c] = <<>>]
    /\ since' = [since EXCEPT ![c] = 0]
    /\ got' = [got EXCEPT ![c] = {}]
    /\ shown' = [shown EXCEPT ![c] = 0]

\* Seeded fault of Remove: the sender task is left to itself.
RemoveEntry(c) ==
    /\ conn[c] = "closed"
    /\ conn' = [conn EXCEPT ![c] = "away"]
    /\ hub' = hub \ {c}
    /\ Discard(c)
    /\ UNCHANGED <<store, sender>>

\* The handler's last act, once the request it was in is finished.
Remove(c) ==
    /\ conn[c] = "closed"
    /\ conn' = [conn EXCEPT ![c] = "away"]
    /\ hub' = hub \ {c}
    /\ sender' = [sender EXCEPT ![c] = "done"]
    /\ Discard(c)
    /\ UNCHANGED <<store>>

\* The task that a broadcast starts for a client it finds closed.
CloseSender(c) ==
    /\ conn[c] = "closed"
    /\ c \notin hub
    /\ sender[c] # "done"
    /\ sender' = [sender EXCEPT ![c] = "done"]
    /\ hand' = [hand EXCEPT ![c] = 0]
    /\ UNCHANGED <<store, hub, conn, events, readings, history>>

\* The sender has a message and looks at the connection.
Begin(c, kind, m) ==
    IF conn[c] = "open"
    THEN /\ sender' = [sender EXCEPT ![c] = kind]
         /\ hand' = [hand EXCEPT ![c] = m]
    ELSE /\ sender' = [sender EXCEPT ![c] = "done"]
         /\ UNCHANGED hand

\* Events have priority over readings.
TakeEvent(c) ==
    /\ sender[c] = "ready"
    /\ events[c] # <<>>
    /\ events' = [events EXCEPT ![c] = Tail(@)]
    /\ Begin(c, "event", Head(events[c]))
    /\ UNCHANGED <<store, hub, conn, readings, history>>

\* Seeded fault of TakeReading: the reading stays in the queue.
TakeReadingAgain(c) ==
    /\ sender[c] = "ready"
    /\ events[c] = <<>>
    /\ readings[c] # <<>>
    /\ Begin(c, "reading", Head(readings[c]))
    /\ UNCHANGED <<store, hub, conn, events, readings, history>>

TakeReading(c) ==
    /\ sender[c] = "ready"
    /\ events[c] = <<>>
    /\ readings[c] # <<>>
    /\ readings' = [readings EXCEPT ![c] = Tail(@)]
    /\ Begin(c, "reading", Head(readings[c]))
    /\ UNCHANGED <<store, hub, conn, events, history>>

SendEvent(c) ==
    /\ sender[c] = "event"
    /\ conn[c] = "open"
    /\ sender' = [sender EXCEPT ![c] = "ready"]
    /\ hand' = [hand EXCEPT ![c] = 0]
    /\ got' = [got EXCEPT ![c] = @ \cup {hand[c]}]
    /\ UNCHANGED <<store, hub, conn, events, readings, since, shown>>

SendReading(c) ==
    /\ sender[c] = "reading"
    /\ conn[c] = "open"
    /\ sender' = [sender EXCEPT ![c] = "ready"]
    /\ hand' = [hand EXCEPT ![c] = 0]
    /\ shown' = [shown EXCEPT ![c] = hand[c]]
    /\ UNCHANGED <<store, hub, conn, events, readings, since, got>>

\* ConnectionError or OSError ends the sender, not the connection.
SendFails(c) ==
    /\ sender[c] \in {"event", "reading"}
    /\ sender' = [sender EXCEPT ![c] = "done"]
    /\ hand' = [hand EXCEPT ![c] = 0]
    /\ UNCHANGED <<store, hub, conn, events, readings, history>>

-----------------------------------------------------------------------------
Init ==
    /\ published = 0
    /\ eventQueue = <<>>
    /\ measured = 0
    /\ readingQueue = <<>>
    /\ hub = {}
    /\ conn = [c \in Client |-> "away"]
    /\ sender = [c \in Client |-> "done"]
    /\ hand = [c \in Client |-> 0]
    /\ events = [c \in Client |-> <<>>]
    /\ readings = [c \in Client |-> <<>>]
    /\ since = [c \in Client |-> 0]
    /\ got = [c \in Client |-> {}]
    /\ shown = [c \in Client |-> 0]

Take(c) == TakeEvent(c) \/ TakeReading(c)
Send(c) == SendEvent(c) \/ SendReading(c) \/ SendFails(c)

Next ==
    \/ PublishEvent
    \/ PublishReading
    \/ BroadcastEvent
    \/ BroadcastReading
    \/ \E c \in Client :
          \/ Connect(c)
          \/ Close(c)
          \/ Remove(c)
          \/ CloseSender(c)
          \/ Take(c)
          \/ Send(c)

\* The heartbeat notices a connection on which sending has failed; the
\* request a handler is in ends, and then the handler.
Ends(c) == (sender[c] = "done" /\ Close(c)) \/ Remove(c)

\* The broadcasters and the senders are loops that the event loop resumes,
\* and a push returns or raises and is caught.  A send need not end for a
\* client that is slow.
Fairness ==
    /\ WF_vars(BroadcastEvent)
    /\ WF_vars(BroadcastReading)
    /\ \A c \in Client : WF_vars(Ends(c))
    /\ \A c \in Client \ Slow : WF_vars(Take(c) \/ Send(c))

Spec == Init /\ [][Next]_vars /\ Fairness

-----------------------------------------------------------------------------
(* Properties. *)

\* The newest events, as many as both queues on the way can hold.
Window == IF StoreCap < ClientCap THEN StoreCap ELSE ClientCap

InHand(c) == IF sender[c] = "event" THEN {hand[c]} ELSE {}
Elements(q) == {q[i] : i \in 1..Len(q)}
Increasing(q) == \A i, j \in 1..Len(q) : i < j => q[i] < q[j]

\* Whatever is still on its way to a client will arrive in the order of
\* publication, after what it has got, and nothing a second time.
InOrder ==
    /\ Increasing(eventQueue)
    /\ \A c \in Client :
          /\ Increasing(events[c])
          /\ \A x \in got[c], y \in InHand(c) \cup Elements(events[c]) \cup Elements(eventQueue) : x < y
          /\ \A x \in InHand(c), y \in Elements(events[c]) \cup Elements(eventQueue) : x < y
          /\ \A x \in Elements(events[c]), y \in Elements(eventQueue) : x < y

\* A client whose sender lives has got or will get every one of the newest
\* events published since it connected, however slow it or another is.
RecentKept ==
    \A c \in Client : conn[c] = "open" /\ sender[c] # "done" =>
        \A e \in (since[c] + 1)..published : e + Window > published =>
            e \in got[c] \cup InHand(c) \cup Elements(events[c]) \cup Elements(eventQueue)

\* Broadcast implements EventFeed.
Feed == INSTANCE EventFeed
FeedSpec == Feed!Spec

\* What replaces a reading on a client's screen is newer.
ReadingsForward == [][\A c \in Client : SendReading(c) => hand[c] > shown[c]]_vars

\* The last event reaches every client whose own connection works, even if
\* another client never finishes a send.
NewestArrives ==
    \A c \in Client \ Slow :
        (published = MaxEvent /\ conn[c] = "open" /\ since[c] < MaxEvent)
            ~> (MaxEvent \in got[c] \/ conn[c] # "open")

\* ... and so does the last reading, whatever else is sent.
LatestShown ==
    \A c \in Client \ Slow :
        (MaxReading \in Elements(readingQueue) /\ conn[c] = "open")
            ~> (shown[c] = MaxReading \/ conn[c] # "open")

\* Of a connection that has closed neither the entry in the hub nor the
\* sender task remains, whoever was broadcasting or sending.
Forgotten ==
    \A c \in Client : conn[c] = "closed" ~> (c \notin hub /\ sender[c] = "done")

=============================================================================
