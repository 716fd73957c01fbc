----------------------------- MODULE MqttEvents -----------------------------
(***************************************************************************)
(* GET /events against the MQTT broker: every subscriber id owns a         *)
(* persistent session (clean_session=False, QoS 1) on the broker.  A       *)
(* response connects an aiomqtt client under its id, which takes the       *)
(* session over from an older connection; the client acknowledges what it  *)
(* receives at once and keeps it in an inbox until _sse_events sends it.   *)
(* A browser that goes away and the server that notices are two steps, and *)
(* so are the end of a response and the DISCONNECT of its detached task.   *)
(*                                                                         *)
(* An event is its number in the order of publication.  The broker and     *)
(* the client library are modelled from how MQTTEventSource uses them.     *)
(***************************************************************************)
EXTENDS Naturals, Sequences, SequencesExt

CONSTANTS
    Streams,        \* HTTP connections to GET /events, each used once
    Clients,        \* subscribers; the id issued to one stands for itself
    HeaderClients,  \* those that reconnect with the Last-Event-ID header only
    Nobody,
    MaxEvents,      \* bound on the events published
    MaxQueued,      \* max_queued_messages
    MayExpire       \* whether a client may stay away for more than an hour

ASSUME MqttAssumption ==
    /\ Nobody \notin Streams \cup Clients \cup (0..MaxEvents)
    /\ HeaderClients \subseteq Clients
    /\ MaxEvents \in Nat /\ MaxQueued \in Nat \ {0}
    /\ MayExpire \in BOOLEAN

VARIABLES
    published,  \* events the broker has acknowledged to MQTTEventSink.publish
    session,    \* the broker's session of each subscriber id
    stream,     \* the server's side of each response
    client      \* what each subscriber has seen

vars == <<published, session, stream, client>>

Event == 1..MaxEvents

\* subscriber_id or the Last-Event-ID header: a frame's own number, from 0.
Frame == 0..MaxEvents
SubscriberIds == Clients \cup Frame

\* queue: what was not acknowledged, the first `flying` of it delivered.
\* owed: events after this number belong to whoever connects next.
Session == [known   : BOOLEAN,
            link    : Streams \cup {Nobody},
            queue   : Seq(Event),
            flying  : 0..MaxQueued,
            dropped : SUBSET Event,
            owed    : 0..MaxEvents]

NoSession == [known |-> FALSE, link |-> Nobody, queue |-> <<>>, flying |-> 0,
              dropped |-> {}, owed |-> 0]

\* opened: subscribe() has returned; greeted: frame 0 is out, _events is not
\* started; waiting, alive, fed: in the loop of _sse_events; closing: _events
\* ended and its DISCONNECT task runs; deaf: the response was cancelled and
\* there is no _events to end; closed.
Loop == {"waiting", "alive", "fed"}
Serving == {"opened", "greeted"} \cup Loop
Phases == {"new", "closing", "deaf", "closed"} \cup Serving

Stream == [phase  : Phases,
           client : Clients \cup {Nobody},
           id     : SubscriberIds \cup {Nobody},
           joined : 0..MaxEvents,       \* session.owed when it connected
           inbox  : Seq(Event),
           sent   : Seq(Event)]

\* at: the response it reads; greeted: it knows its id; frame: the last `id:`
\* line; left: events published when its last response had been cleaned up,
\* and back: when it came back.
Client == [at      : Streams \cup {Nobody},
           greeted : BOOLEAN,
           frame   : Frame,
           got     : SUBSET Event,
           left    : 0..MaxEvents,
           back    : 0..MaxEvents]

TypeOK ==
    /\ published \in 0..MaxEvents
    /\ session \in [SubscriberIds -> Session]
    /\ stream \in [Streams -> Stream]
    /\ client \in [Clients -> Client]

Init ==
    /\ published = 0
    /\ session = [id \in SubscriberIds |-> NoSession]
    /\ stream = [s \in Streams |-> [phase |-> "new", client |-> Nobody, id |-> Nobody,
                                    joined |-> 0, inbox |-> <<>>, sent |-> <<>>]]
    /\ client = [c \in Clients |-> [at |-> Nobody, greeted |-> FALSE, frame |-> 0,
                                    got |-> {}, left |-> MaxEvents, back |-> 0]]

Linked(s) == stream[s].id # Nobody /\ session[stream[s].id].link = s

\* The client of response s is still there.
Here(s) == stream[s].client # Nobody /\ client[stream[s].client].at = s

-----------------------------------------------------------------------------
(***************************************************************************)
(* The broker.                                                             *)
(***************************************************************************)

\* MQTTEventSink.publish.  A full queue drops the message.
Publish ==
    /\ published < MaxEvents
    /\ published' = published + 1
    /\ session' = [id \in SubscriberIds |->
            IF ~session[id].known THEN session[id]
            ELSE IF Len(session[id].queue) < MaxQueued
            THEN [session[id] EXCEPT !.queue = Append(@, published + 1)]
            ELSE [session[id] EXCEPT !.dropped = @ \cup {published + 1}]]
    /\ UNCHANGED <<stream, client>>

Deliver(id) ==
    /\ session[id].link # Nobody
    /\ session[id].flying < Len(session[id].queue)
    /\ session' = [session EXCEPT ![id].flying = @ + 1]
    /\ stream' = [stream EXCEPT ![session[id].link].inbox =
            Append(@, session[id].queue[session[id].flying + 1])]
    /\ UNCHANGED <<published, client>>

\* The PUBACK, which the client library sends on reception.
Acknowledge(id) ==
    /\ session[id].flying > 0
    /\ session' = [session EXCEPT ![id].queue = Tail(@), ![id].flying = @ - 1]
    /\ UNCHANGED <<published, stream, client>>

\* persistent_client_expiration.
Expire(id) ==
    /\ MayExpire
    /\ session[id].known /\ session[id].link = Nobody
    /\ session' = [session EXCEPT ![id] = NoSession]
    /\ UNCHANGED <<published, stream, client>>

\* A session without its connection: what was not acknowledged stays queued.
Unlinked(sess) == [sess EXCEPT !.link = Nobody, !.flying = 0, !.owed = published]

-----------------------------------------------------------------------------
(***************************************************************************)
(* The subscribers.                                                        *)
(***************************************************************************)

\* The subscriber_id a client passes back.
PassedBack(c) == IF c \in HeaderClients /\ client[c].greeted THEN client[c].frame ELSE c

\* Slip: clean_session=True.
SubscribeClean(s, c, id) ==
    /\ session' = [session EXCEPT ![id] = [NoSession EXCEPT !.known = TRUE, !.link = s,
                                                            !.owed = published]]
    /\ stream' = [stream EXCEPT ![s] = [@ EXCEPT
            !.phase = "opened", !.client = c, !.id = id,
            !.joined = IF session[id].known /\ session[id].link = Nobody
                       THEN session[id].owed ELSE published]]

\* MQTTEventSource.subscribe: CONNECT with clean_session=False and SUBSCRIBE.
\* A connection that still has the session is dropped by the broker.
Subscribe(s, c, id) ==
    LET old == session[id] IN
    /\ session' = [session EXCEPT ![id] =
            IF old.known THEN [old EXCEPT !.link = s, !.flying = 0]
                         ELSE [NoSession EXCEPT !.known = TRUE, !.link = s]]
    /\ stream' = [stream EXCEPT ![s] = [@ EXCEPT
            !.phase = "opened", !.client = c, !.id = id,
            !.joined = IF old.known /\ old.link = Nobody THEN old.owed ELSE published]]

\* stream_events.  A client that never saw frame 0 knows no id to return with.
Connect(s, c) ==
    /\ stream[s].phase = "new"
    /\ client[c].at = Nobody
    /\ client[c].greeted \/ \A t \in Streams : stream[t].client # c
    /\ Subscribe(s, c, PassedBack(c))
    /\ client' = [client EXCEPT ![c].at = s, ![c].back = published]
    /\ UNCHANGED published

\* The client goes away: nobody has told the server yet.
Leave(c) ==
    /\ client[c].at # Nobody
    /\ client' = [client EXCEPT ![c].at = Nobody, ![c].left = MaxEvents]
    /\ UNCHANGED <<published, session, stream>>

-----------------------------------------------------------------------------
(***************************************************************************)
(* The server: _sse_events over MQTTEventSource._events.                   *)
(***************************************************************************)

\* A frame reaches the client if it is still there.
Shows(s, frame, events) ==
    client' = IF Here(s)
              THEN [client EXCEPT ![stream[s].client].greeted = TRUE,
                                  ![stream[s].client].frame = frame,
                                  ![stream[s].client].got = @ \cup events]
              ELSE client

Greet(s) ==
    /\ stream[s].phase = "opened"
    /\ stream' = [stream EXCEPT ![s].phase = "greeted"]
    /\ Shows(s, 0, {})
    /\ UNCHANGED <<published, session>>

\* Slip: no new __anext__ after a keep-alive.
AwaitOnce(s) ==
    /\ stream[s].phase \in {"greeted", "fed"}
    /\ stream' = [stream EXCEPT ![s].phase = "waiting"]
    /\ UNCHANGED <<published, session, client>>

Await(s) ==
    /\ stream[s].phase \in {"greeted", "alive", "fed"}
    /\ stream' = [stream EXCEPT ![s].phase = "waiting"]
    /\ UNCHANGED <<published, session, client>>

\* Slip: the message is looked at and not taken.
FeedPeeks(s) ==
    /\ stream[s].phase = "waiting"
    /\ stream[s].inbox # <<>>
    /\ Len(stream[s].sent) < MaxEvents
    /\ stream' = [stream EXCEPT ![s].phase = "fed",
                                ![s].sent = Append(@, Head(stream[s].inbox))]
    /\ Shows(s, Len(stream[s].sent) + 1, {Head(stream[s].inbox)})
    /\ UNCHANGED <<published, session>>

\* The next message of client.messages becomes a frame.
Feed(s) ==
    /\ stream[s].phase = "waiting"
    /\ stream[s].inbox # <<>>
    /\ stream' = [stream EXCEPT ![s].phase = "fed", ![s].inbox = Tail(@),
                                ![s].sent = Append(@, Head(stream[s].inbox))]
    /\ Shows(s, Len(stream[s].sent) + 1, {Head(stream[s].inbox)})
    /\ UNCHANGED <<published, session>>

KeepAlive(s) ==
    /\ stream[s].phase = "waiting"
    /\ stream' = [stream EXCEPT ![s].phase = "alive"]
    /\ UNCHANGED <<published, session, client>>

\* The server has done all it does about the client of s: what is published
\* next is published in the interim.
Noticed(s) ==
    LET c == stream[s].client IN
    client' = IF /\ client[c].at = Nobody
                 /\ \A t \in Streams \ {s} :
                       stream[t].client = c => stream[t].phase \in {"deaf", "closed"}
              THEN [client EXCEPT ![c].left = published]
              ELSE client

\* uvicorn cancels the response.  Only a started _events has a `finally`.
Cancel(s) ==
    /\ stream[s].phase \in Serving
    /\ ~Here(s)
    /\ stream' = [stream EXCEPT ![s].phase = IF @ \in Loop THEN "closing" ELSE "deaf"]
    /\ IF stream[s].phase \in Loop THEN UNCHANGED client ELSE Noticed(s)
    /\ UNCHANGED <<published, session>>

\* The connection was taken over: `client.messages` raises once its queue is
\* empty, and the response ends.
BreakOff(s) ==
    /\ stream[s].phase = "waiting" /\ stream[s].inbox = <<>> /\ ~Linked(s)
    /\ stream' = [stream EXCEPT ![s].phase = "closing"]
    /\ client' = IF Here(s) THEN [client EXCEPT ![stream[s].client].at = Nobody,
                                                ![stream[s].client].left = MaxEvents]
                            ELSE client
    /\ UNCHANGED <<published, session>>

\* The detached _disconnect task.
Disconnect(s) ==
    /\ stream[s].phase = "closing"
    /\ stream' = [stream EXCEPT ![s].phase = "closed"]
    /\ session' = IF Linked(s) THEN [session EXCEPT ![stream[s].id] = Unlinked(@)] ELSE session
    /\ Noticed(s)
    /\ UNCHANGED published

\* The server process dies, and its connections with it.
ServerDies ==
    /\ \E s \in Streams : stream[s].phase \notin {"new", "closed"}
    /\ stream' = [s \in Streams |->
            IF stream[s].phase = "new" THEN stream[s] ELSE [stream[s] EXCEPT !.phase = "closed"]]
    /\ session' = [id \in SubscriberIds |->
            IF session[id].link = Nobody THEN session[id] ELSE Unlinked(session[id])]
    /\ client' = [c \in Clients |->
            IF client[c].at = Nobody /\ client[c].left # MaxEvents THEN client[c]
            ELSE [client[c] EXCEPT !.at = Nobody, !.left = published]]
    /\ UNCHANGED published

Next ==
    \/ Publish
    \/ \E id \in SubscriberIds : Deliver(id) \/ Acknowledge(id) \/ Expire(id)
    \/ \E s \in Streams, c \in Clients : Connect(s, c)
    \/ \E c \in Clients : Leave(c)
    \/ \E s \in Streams :
          \/ Greet(s) \/ Await(s) \/ Feed(s) \/ KeepAlive(s)
          \/ Cancel(s) \/ BreakOff(s) \/ Disconnect(s)
    \/ ServerDies

Spec == Init /\ [][Next]_vars

\* The network delivers, the event loop runs what can run, and uvicorn
\* notices a closed connection.  A keep-alive fires only when nothing has
\* come, so it cannot starve Feed for ever.
Fairness ==
    /\ \A id \in SubscriberIds : WF_vars(Deliver(id)) /\ WF_vars(Acknowledge(id))
    /\ \A s \in Streams :
          /\ WF_vars(Greet(s)) /\ WF_vars(Await(s)) /\ SF_vars(Feed(s))
          /\ WF_vars(Cancel(s)) /\ SF_vars(BreakOff(s)) /\ WF_vars(Disconnect(s))

FairSpec == Spec /\ Fairness

-----------------------------------------------------------------------------
\* From the moment the broker has lost a subscriber's connection, every event
\* is its due: it is queued, in the inbox, sent, or was dropped by a full
\* queue, through takeovers and restarts of the server (MQTTEventSource).
OwedEventsAreKept ==
    \A s \in Streams : Linked(s) =>
        LET sess == session[stream[s].id] IN
        (stream[s].joined + 1)..published
            \subseteq ToSet(stream[s].sent) \cup ToSet(stream[s].inbox)
                      \cup ToSet(sess.queue) \cup sess.dropped

\* One response shows no event twice and none out of order, although QoS 1
\* may deliver again what an older response was given (_sse_events).
FramesAreInOrder ==
    \A s \in Streams :
        LET shown == stream[s].sent \o stream[s].inbox IN
        \A j, k \in 1..Len(shown) : j < k => shown[j] < shown[k]

\* What is queued for a client that stays is sent to it, unless a newer
\* connection takes over.
QueuedEventsArrive ==
    \A s \in Streams :
        Linked(s) /\ Here(s) /\ session[stream[s].id].queue # <<>>
            ~> \/ ~Here(s) \/ ~Linked(s)
               \/ session[stream[s].id].queue = <<>> /\ stream[s].inbox = <<>>

-----------------------------------------------------------------------------
(***************************************************************************)
(* What the repository says of itself and the code does not keep.          *)
(***************************************************************************)

\* A subscriber that reconnects with its subscriber_id "shall receive every
\* event published in the interim" (FR-0024): not counting what is published
\* before the server has noticed that it left.
NothingIsMissed ==
    \A c \in Clients :
        LET s == client[c].at IN
        /\ s # Nobody /\ Linked(s)
        /\ stream[s].phase = "waiting" /\ stream[s].inbox = <<>>
        /\ session[stream[s].id].queue = <<>> /\ session[stream[s].id].dropped = {}
        => (client[c].left + 1)..client[c].back \subseteq client[c].got

\* _events disconnects "once the caller stops consuming (return, exception,
\* or cancellation)" (MQTTEventSource._events): no connection is left behind.
GoneAreDisconnected ==
    \A s \in Streams : stream[s].phase \in Serving /\ ~Here(s) ~> ~Linked(s)

\* Each subscriber is issued an id of its own, to be passed back in "the
\* standard Last-Event-ID header" (ADR 0015, FR-0024): a session serves one
\* client.
SessionsHaveOneClient ==
    [][\A s, t \in Streams :
          Linked(s) /\ Linked(t)' /\ stream[s].id = stream'[t].id =>
              stream[s].client = stream'[t].client]_vars

=============================================================================
