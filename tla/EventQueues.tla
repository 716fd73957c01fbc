---------------------------- MODULE EventQueues ----------------------------
(***************************************************************************)
(* GET /events under MODE=mock: InMemoryEventSink fans every event out to  *)
(* one asyncio.Queue per subscriber id, and _sse_events turns one queue    *)
(* into one Server-Sent Events response.  A response is a generator: it    *)
(* can only be cancelled where it is suspended, and the `finally` of the   *)
(* _events generator under it runs in a later turn of the event loop, or   *)
(* not at all if that generator was never started.                         *)
(*                                                                         *)
(* An event is its number in the order of publication.                     *)
(***************************************************************************)
EXTENDS Naturals, Sequences, FiniteSets

CONSTANTS
    Streams,        \* HTTP connections to GET /events, each used once
    SubscriberIds,
    Nobody,         \* no stream
    MaxEvents       \* bound on the events published

ASSUME QueueAssumption == Nobody \notin Streams \cup SubscriberIds /\ MaxEvents \in Nat

VARIABLES
    published,      \* how many events EventSink.publish was called with
    queues,         \* _queues: whose queue is registered under each id
    stream

vars == <<published, queues, stream>>

\* new: not connected; opened: subscribe() has returned; greeted: the frame
\* with the subscriber id is out and _events has not been started; waiting:
\* the `pending` __anext__ task is under way; alive: a keep-alive comment is
\* out while it still is; fed: an event's frame is out; closing: cancelled,
\* the `finally` of _events is still to run; closed.
Phases == {"new", "opened", "greeted", "waiting", "alive", "fed", "closing", "closed"}

Connected == {"opened", "greeted", "waiting", "alive", "fed"}

Stream == [phase  : Phases,
           id     : SubscriberIds \cup {Nobody},
           joined : 0..MaxEvents,           \* events published before subscribe()
           queue  : Seq(1..MaxEvents),
           sent   : Seq(1..MaxEvents)]

TypeOK ==
    /\ published \in 0..MaxEvents
    /\ queues \in [SubscriberIds -> Streams \cup {Nobody}]
    /\ stream \in [Streams -> Stream]

Init ==
    /\ published = 0
    /\ queues = [id \in SubscriberIds |-> Nobody]
    /\ stream = [s \in Streams |-> [phase |-> "new", id |-> Nobody, joined |-> 0,
                                    queue |-> <<>>, sent |-> <<>>]]

Registered(s) == stream[s].id # Nobody /\ queues[stream[s].id] = s

\* InMemoryEventSink.subscribe: a new queue under the id, whatever was there.
Subscribe(s, id) ==
    /\ stream[s].phase = "new"
    /\ queues' = [queues EXCEPT ![id] = s]
    /\ stream' = [stream EXCEPT ![s] = [@ EXCEPT !.phase = "opened", !.id = id,
                                                 !.joined = published]]
    /\ UNCHANGED published

\* Slip: an event goes to the first registered queue only.
PublishToOne ==
    /\ published < MaxEvents
    /\ published' = published + 1
    /\ \E s \in Streams :
          /\ Registered(s)
          /\ stream' = [stream EXCEPT ![s].queue = Append(@, published + 1)]
    /\ UNCHANGED queues

\* InMemoryEventSink.publish: put_nowait on every registered queue.
Publish ==
    /\ published < MaxEvents
    /\ published' = published + 1
    /\ stream' = [s \in Streams |->
            IF Registered(s) THEN [stream[s] EXCEPT !.queue = Append(@, published + 1)]
                             ELSE stream[s]]
    /\ UNCHANGED queues

\* The first frame: "id: 0" and the subscriber id.
Greet(s) ==
    /\ stream[s].phase = "opened"
    /\ stream' = [stream EXCEPT ![s].phase = "greeted"]
    /\ UNCHANGED <<published, queues>>

\* Slip: no new __anext__ after a keep-alive.
AwaitOnce(s) ==
    /\ stream[s].phase \in {"greeted", "fed"}
    /\ stream' = [stream EXCEPT ![s].phase = "waiting"]
    /\ UNCHANGED <<published, queues>>

\* pending = ensure_future(iterator.__anext__()), unless one is under way.
Await(s) ==
    /\ stream[s].phase \in {"greeted", "alive", "fed"}
    /\ stream' = [stream EXCEPT ![s].phase = "waiting"]
    /\ UNCHANGED <<published, queues>>

\* The task is done before the timeout: its event becomes the next frame.
Feed(s) ==
    /\ stream[s].phase = "waiting"
    /\ stream[s].queue # <<>>
    /\ stream' = [stream EXCEPT ![s] =
            [stream[s] EXCEPT !.phase = "fed", !.queue = Tail(@),
                              !.sent = Append(@, Head(stream[s].queue))]]
    /\ UNCHANGED <<published, queues>>

\* Slip: wait_for cancels the task at the timeout, and its event is gone.
KeepAliveCancels(s) ==
    /\ stream[s].phase = "waiting"
    /\ stream' = [stream EXCEPT ![s] = [@ EXCEPT !.phase = "alive",
                                                 !.queue = IF @ = <<>> THEN @ ELSE Tail(@)]]
    /\ UNCHANGED <<published, queues>>

\* asyncio.wait has timed out: a keep-alive comment, and the task lives on.
\* An event may be put right after the timeout was seen.
KeepAlive(s) ==
    /\ stream[s].phase = "waiting"
    /\ stream' = [stream EXCEPT ![s].phase = "alive"]
    /\ UNCHANGED <<published, queues>>

\* The client goes away and the server cancels the response.  Before the
\* first __anext__ there is no started generator whose `finally` could run.
Disconnect(s) ==
    /\ stream[s].phase \in Connected
    /\ stream' = [stream EXCEPT ![s].phase =
            IF @ \in {"opened", "greeted"} THEN "closed" ELSE "closing"]
    /\ UNCHANGED <<published, queues>>

\* The `finally` of _events: pop(subscriber_id), whoever's queue it is now.
Cleanup(s) ==
    /\ stream[s].phase = "closing"
    /\ queues' = [queues EXCEPT ![stream[s].id] = Nobody]
    /\ stream' = [stream EXCEPT ![s].phase = "closed"]
    /\ UNCHANGED published

Next ==
    \/ Publish
    \/ \E s \in Streams :
          \/ \E id \in SubscriberIds : Subscribe(s, id)
          \/ Greet(s)
          \/ Await(s)
          \/ Feed(s)
          \/ KeepAlive(s)
          \/ Disconnect(s)
          \/ Cleanup(s)

Spec == Init /\ [][Next]_vars

\* The event loop runs every task that can go on.  A keep-alive fires only
\* when asyncio.wait saw no event, so it cannot starve Feed for ever.
Fairness == \A s \in Streams :
    WF_vars(Greet(s)) /\ WF_vars(Await(s)) /\ SF_vars(Feed(s)) /\ WF_vars(Cleanup(s))

FairSpec == Spec /\ Fairness

-----------------------------------------------------------------------------
\* What a client has been sent and what waits for it are consecutive events,
\* beginning with the first one published after it subscribed: nothing is
\* skipped, repeated or reordered, across keep-alives too (_sse_events).
StreamsAreGapless ==
    \A s \in Streams :
        LET got == stream[s].sent \o stream[s].queue IN
        \A k \in 1..Len(got) : got[k] = stream[s].joined + k

\* As long as nobody else uses its id, a connected stream is registered and
\* has everything published since it subscribed.
OwnIdMissesNothing ==
    \A s \in Streams :
        /\ stream[s].phase \in Connected
        /\ \A t \in Streams \ {s} : stream[t].id # stream[s].id
        => /\ Registered(s)
           /\ stream[s].joined + Len(stream[s].sent) + Len(stream[s].queue) = published

\* An event that waits for a client is sent, unless the client goes away.
QueuedEventsAreSent ==
    \A s \in Streams :
        stream[s].queue # <<>> ~> stream[s].queue = <<>> \/ stream[s].phase \notin Connected

-----------------------------------------------------------------------------
(***************************************************************************)
(* What the repository says of itself and the code does not keep.          *)
(***************************************************************************)

\* The `finally` "drops this subscriber's queue" (InMemoryEventSink._events):
\* a connected stream loses its registration to a newer subscription only.
OnlyOwnQueueIsDropped ==
    [][\A s \in Streams :
          Registered(s) /\ stream'[s].phase \in Connected =>
              Registered(s)' \/ \E t \in Streams : stream[t].phase = "new" /\ Registered(t)']_vars

\* Without the `finally`, "every SSE connect/disconnect cycle [...] leaves a
\* queue behind for the rest of the process's lifetime" (_events): with it,
\* none is left behind.
NoQueueIsLeftBehind ==
    (\A s \in Streams : stream[s].phase \in {"new", "closed"}) =>
        \A id \in SubscriberIds : queues[id] = Nobody

=============================================================================
