----------------------------- MODULE ReadsProofs -----------------------------
(***************************************************************************)
(* The theorems about the three components that only read: GET /events of  *)
(* MODE=mock (EventQueues), GET /stats and GET /predict (Stats), and the   *)
(* list of heroes (Queries).  Stats and Queries have the table in common,  *)
(* and their proofs the induction over finite sets.                        *)
(*                                                                         *)
(* The event streams of MODE=mock are gapless, and complete for an id used *)
(* once, for any number of connections, ids and events.  Publish appends   *)
(* the next event to the queues that are registered, so that what a stream *)
(* was given is gapless only if a registered stream has everything up to   *)
(* now: that is the strengthening.  A stream that lost its registration    *)
(* stays gapless because it is given nothing any more.                     *)
(*                                                                         *)
(* The statements of a stats request answer, each for a table committed    *)
(* during the request and in the order of the tables, what the loops of    *)
(* the mock would: a loop over the records and an aggregate of SQL come to *)
(* the same for every table, by induction on the records it has gone       *)
(* through.  A forecast of values on a line is the line, for a history of  *)
(* any length.  The sums of a forecast are folds over sets.  That the      *)
(* recursion behind such a fold or a loop has a solution, and that the     *)
(* value of a sum is linear in the terms, is proved by induction too; the  *)
(* induction hypothesis is the set of what it holds of, so that no         *)
(* operator has to be passed to a theorem.                                 *)
(*                                                                         *)
(* The two repositories give the same page for any table and any query     *)
(* that reads numbers and names no row leaves empty.  What a list is       *)
(* sorted by is a weak order, the lexicographic one of the rows' keys, so  *)
(* that an order as sorted() leaves it exists, by the same induction, and  *)
(* is one of those ORDER BY allows.                                        *)
(***************************************************************************)
EXTENDS EventQueues, Stats, Queries, SequenceTheorems, FiniteSetTheorems, WellFoundedInduction, TLAPS

\* The events from j + 1 on, without a gap.
Numbered(log, j) == \A k \in 1..Len(log) : log[k] = j + k

\* What waits for a stream continues what it was sent.
Ordered(x) == Numbered(x.sent, x.joined) /\ Numbered(x.queue, x.joined + Len(x.sent))

Given(x) == x.joined + Len(x.sent) + Len(x.queue)

Unused(x) == x.id = Nobody /\ x.sent = <<>> /\ x.queue = <<>>

\* Nobody else has ever used the id of s.
Alone(s) == \A t \in Streams \ {s} : stream[t].id # stream[s].id

Inv(s) ==
    /\ Ordered(stream[s])
    /\ stream[s].phase = "new" => Unused(stream[s])
    /\ stream[s].phase # "new" => stream[s].id \in SubscriberIds
    /\ Registered(s) => Given(stream[s]) = published
    /\ stream[s].phase \in Connected /\ Alone(s) => Registered(s)

IInv == TypeOK /\ \A s \in Streams : Inv(s)

-----------------------------------------------------------------------------
\* Moving the first of q behind the last of s.
LEMMA MoveHead ==
    ASSUME NEW T, NEW q \in Seq(T), NEW s \in Seq(T), q # <<>>, NEW j \in Nat,
           Numbered(s, j), Numbered(q, j + Len(s))
    PROVE  /\ Head(q) \in T /\ Tail(q) \in Seq(T) /\ Append(s, Head(q)) \in Seq(T)
           /\ Len(Append(s, Head(q))) = Len(s) + 1 /\ Len(Tail(q)) = Len(q) - 1
           /\ Len(s) \in Nat /\ Len(q) \in Nat
           /\ Numbered(Append(s, Head(q)), j)
           /\ Numbered(Tail(q), j + Len(Append(s, Head(q))))
<1>1. /\ Head(q) \in T /\ Tail(q) \in Seq(T) /\ Len(Tail(q)) = Len(q) - 1
      /\ \A k \in 1..Len(Tail(q)) : Tail(q)[k] = q[k + 1]
    BY HeadTailProperties
<1>2. Len(q) \in Nat \ {0} /\ Len(s) \in Nat /\ Head(q) = q[1]
    BY EmptySeq, LenProperties
<1>3. /\ Append(s, Head(q)) \in Seq(T) /\ Len(Append(s, Head(q))) = Len(s) + 1
      /\ \A k \in 1..(Len(s) + 1) :
            Append(s, Head(q))[k] = IF k <= Len(s) THEN s[k] ELSE Head(q)
    BY <1>1, <1>2, AppendProperties
<1>4. Head(q) = j + Len(s) + 1
    BY <1>2 DEF Numbered
<1>5. Numbered(Append(s, Head(q)), j)
    BY <1>2, <1>3, <1>4 DEF Numbered
<1>6. Numbered(Tail(q), j + Len(Append(s, Head(q))))
    BY <1>1, <1>2, <1>3 DEF Numbered
<1> QED
    BY <1>1, <1>2, <1>3, <1>5, <1>6

\* Putting the next number behind the last of q.
LEMMA AppendNext ==
    ASSUME NEW T, NEW q \in Seq(T), NEW j \in Nat, Numbered(q, j), j + Len(q) + 1 \in T
    PROVE  /\ Append(q, j + Len(q) + 1) \in Seq(T)
           /\ Len(Append(q, j + Len(q) + 1)) = Len(q) + 1
           /\ Len(q) \in Nat
           /\ Numbered(Append(q, j + Len(q) + 1), j)
<1> DEFINE n == j + Len(q) + 1
<1>1. /\ Append(q, n) \in Seq(T) /\ Len(Append(q, n)) = Len(q) + 1
      /\ \A k \in 1..(Len(q) + 1) : Append(q, n)[k] = IF k <= Len(q) THEN q[k] ELSE n
    <2> HIDE DEF n
    <2>1. Len(q) \in Nat
        BY LenProperties
    <2> QED
        BY <2>1, AppendProperties DEF n
<1>2. Len(q) \in Nat
    BY LenProperties
<1>3. Numbered(Append(q, n), j)
    BY <1>1, <1>2 DEF Numbered
<1> QED
    BY <1>1, <1>2, <1>3

\* Taking the next event from the queue to the client.
LEMMA FeedOne ==
    ASSUME NEW x \in Stream, Ordered(x), x.queue # <<>>,
           NEW y, y = [x EXCEPT !.phase = "fed", !.queue = Tail(@),
                                !.sent = Append(@, Head(x.queue))]
    PROVE  y \in Stream /\ Ordered(y) /\ Given(y) = Given(x)
<1>1. /\ x.queue \in Seq(1..MaxEvents) /\ x.sent \in Seq(1..MaxEvents) /\ x.joined \in Nat
    BY DEF Stream
<1>2. /\ y.queue = Tail(x.queue) /\ y.sent = Append(x.sent, Head(x.queue))
      /\ y.joined = x.joined /\ y.id = x.id /\ y.phase = "fed"
    BY DEF Stream
<1>3. /\ Head(x.queue) \in 1..MaxEvents
      /\ Tail(x.queue) \in Seq(1..MaxEvents)
      /\ Append(x.sent, Head(x.queue)) \in Seq(1..MaxEvents)
      /\ Len(Append(x.sent, Head(x.queue))) = Len(x.sent) + 1
      /\ Len(Tail(x.queue)) = Len(x.queue) - 1
      /\ Len(x.sent) \in Nat /\ Len(x.queue) \in Nat
      /\ Numbered(Append(x.sent, Head(x.queue)), x.joined)
      /\ Numbered(Tail(x.queue), x.joined + Len(Append(x.sent, Head(x.queue))))
    <2>1. Numbered(x.sent, x.joined) /\ Numbered(x.queue, x.joined + Len(x.sent))
        BY DEF Ordered
    <2>2. x.queue # <<>>
        OBVIOUS
    <2> QED
        BY ONLY <1>1, <2>1, <2>2, MoveHead, Zenon
<1>4. /\ y.queue \in Seq(1..MaxEvents) /\ y.sent \in Seq(1..MaxEvents)
      /\ Len(y.sent) = Len(x.sent) + 1 /\ Len(y.queue) = Len(x.queue) - 1
    BY ONLY <1>2, <1>3, Zenon
<1>5. Ordered(y)
    BY ONLY <1>2, <1>3, Zenon DEF Ordered
<1>6. y \in Stream
    BY <1>2, <1>4 DEF Stream, Phases
<1>7. Given(y) = Given(x)
    <2>1. y.joined = x.joined /\ x.joined \in Nat /\ Len(x.sent) \in Nat /\ Len(x.queue) \in Nat
        BY ONLY <1>1, <1>2, <1>3, Zenon
    <2>2. x.joined + (Len(x.sent) + 1) + (Len(x.queue) - 1)
              = x.joined + Len(x.sent) + Len(x.queue)
        <3>1. \A j, m, n \in Nat : j + (m + 1) + (n - 1) = j + m + n
            OBVIOUS
        <3> QED
            BY ONLY <2>1, <3>1, Zenon
    <2> QED
        BY ONLY <1>4, <2>1, <2>2, Zenon DEF Given
<1> QED
    BY <1>5, <1>6, <1>7

\* Putting the next event into the queue.
LEMMA PutOne ==
    ASSUME NEW x \in Stream, Ordered(x), NEW n \in Nat, Given(x) = n, n < MaxEvents,
           NEW y, y = [x EXCEPT !.queue = Append(@, n + 1)]
    PROVE  y \in Stream /\ Ordered(y) /\ Given(y) = n + 1
<1>1. /\ x.queue \in Seq(1..MaxEvents) /\ x.joined + Len(x.sent) \in Nat
      /\ Len(x.sent) \in Nat /\ x.joined \in Nat
    BY LenProperties DEF Stream
<1>2. /\ y.queue = Append(x.queue, n + 1) /\ y.sent = x.sent /\ y.joined = x.joined
    BY DEF Stream
<1>3. n + 1 = x.joined + Len(x.sent) + Len(x.queue) + 1 /\ n + 1 \in 1..MaxEvents
    BY QueueAssumption DEF Given
<1>4. /\ y.queue \in Seq(1..MaxEvents) /\ Len(y.queue) = Len(x.queue) + 1
      /\ Len(x.queue) \in Nat
      /\ Numbered(y.queue, x.joined + Len(x.sent))
    <2> DEFINE j == x.joined + Len(x.sent)
    <2>1. j \in Nat /\ Numbered(x.queue, j) /\ n + 1 = j + Len(x.queue) + 1
        BY <1>1, <1>3 DEF Ordered
    <2> HIDE DEF j
    <2>2. /\ Append(x.queue, j + Len(x.queue) + 1) \in Seq(1..MaxEvents)
          /\ Len(Append(x.queue, j + Len(x.queue) + 1)) = Len(x.queue) + 1
          /\ Len(x.queue) \in Nat
          /\ Numbered(Append(x.queue, j + Len(x.queue) + 1), j)
        BY <1>1, <1>3, <2>1, AppendNext
    <2> QED
        BY <1>2, <2>1, <2>2 DEF j
<1>5. y \in Stream
    BY <1>4 DEF Stream
<1>6. Given(y) = n + 1
    BY <1>1, <1>2, <1>3, <1>4 DEF Given
<1> QED
    BY <1>2, <1>4, <1>5, <1>6 DEF Ordered

-----------------------------------------------------------------------------
\* Every connection starts unused.
LEMMA InitInv == Init => IInv
<1> SUFFICES ASSUME Init PROVE IInv
    OBVIOUS
<1>1. TypeOK
    BY QueueAssumption DEF Init, TypeOK, Stream, Phases
<1>2. ASSUME NEW s \in Streams PROVE Inv(s)
    <2>1. /\ stream[s].phase = "new" /\ stream[s].id = Nobody /\ stream[s].joined = 0
          /\ stream[s].queue = <<>> /\ stream[s].sent = <<>>
        BY DEF Init
    <2>2. Len(<<>>) = 0
        BY EmptySeq
    <2>3. Ordered(stream[s])
        BY <2>1, <2>2 DEF Ordered, Numbered
    <2> QED
        BY <2>1, <2>3 DEF Inv, Unused, Registered, Connected
<1> QED
    BY <1>1, <1>2 DEF IInv

\* A step of one stream that leaves the registrations alone.
LEMMA StreamStep ==
    ASSUME IInv, NEW s \in Streams, NEW y \in Stream, stream[s].phase # "new",
           stream' = [stream EXCEPT ![s] = y], UNCHANGED <<published, queues>>,
           Ordered(y), Given(y) = Given(stream[s]), y.id = stream[s].id, y.phase # "new",
           y.phase \in Connected => stream[s].phase \in Connected
    PROVE  IInv'
<1>1. TypeOK'
    BY DEF IInv, TypeOK
<1>2. /\ stream'[s] = y
      /\ \A t \in Streams \ {s} : stream'[t] = stream[t]
      /\ \A t \in Streams : stream'[t].id = stream[t].id
    BY DEF IInv, TypeOK
<1>3. \A t \in Streams : (Registered(t)' <=> Registered(t)) /\ (Alone(t)' <=> Alone(t))
    BY <1>2 DEF Registered, Alone
<1>4. ASSUME NEW t \in Streams PROVE Inv(t)'
    BY <1>2, <1>3 DEF IInv, Inv
<1> QED
    BY <1>1, <1>4 DEF IInv

\* A new connection has everything from now on.
LEMMA SubscribeStep ==
    ASSUME IInv, NEW s \in Streams, NEW id \in SubscriberIds, Subscribe(s, id)
    PROVE  IInv'
<1> DEFINE y == [stream[s] EXCEPT !.phase = "opened", !.id = id, !.joined = published]
<1>1. y \in Stream /\ stream[s] \in Stream
    BY DEF Subscribe, IInv, TypeOK, Stream, Phases
<1>2. /\ y.phase = "opened" /\ y.id = id /\ y.joined = published
      /\ y.sent = <<>> /\ y.queue = <<>>
    BY <1>1 DEF Subscribe, IInv, Inv, Unused, Stream
<1>3. TypeOK'
    BY <1>1 DEF Subscribe, IInv, TypeOK
<1>4. /\ stream'[s] = y
      /\ \A t \in Streams \ {s} : stream'[t] = stream[t]
      /\ queues'[id] = s /\ \A i \in SubscriberIds \ {id} : queues'[i] = queues[i]
      /\ published' = published
    BY DEF Subscribe, IInv, TypeOK
<1>5. Ordered(y) /\ Given(y) = published
    <2> HIDE DEF y
    <2>1. Len(<<>>) = 0
        BY EmptySeq
    <2> QED
        BY <1>2, <2>1 DEF Ordered, Numbered, Given, IInv, TypeOK
<1>6. Inv(s)'
    BY <1>2, <1>4, <1>5, QueueAssumption DEF Inv, Registered
<1>7. ASSUME NEW t \in Streams \ {s} PROVE Inv(t)'
    <2>1. stream[t].id = id => ~Registered(t)' /\ ~Alone(t)'
        <3> SUFFICES ASSUME stream[t].id = id PROVE ~Registered(t)' /\ ~Alone(t)'
            OBVIOUS
        <3>1. stream'[t].id = id /\ stream'[s].id = id /\ queues'[id] = s /\ t # s
            BY <1>2, <1>4
        <3>2. ~Registered(t)'
            BY <3>1 DEF Registered
        <3>3. ~Alone(t)'
            BY <3>1 DEF Alone
        <3> QED
            BY <3>2, <3>3
    <2>2. stream[t].id # id => (Registered(t)' <=> Registered(t))
        BY <1>4 DEF Registered, IInv, Inv, TypeOK, Stream
    <2>3. Alone(t)' => Alone(t) \/ stream[t].id = Nobody
        BY <1>2, <1>4 DEF Alone, IInv, Inv, Subscribe, Unused
    <2>4. stream[t].phase \in Connected => stream[t].id \in SubscriberIds
        BY DEF IInv, Inv, Connected
    <2> QED
        BY <1>4, <2>1, <2>2, <2>3, <2>4, QueueAssumption DEF IInv, Inv
<1> QED
    BY <1>3, <1>6, <1>7 DEF IInv

\* A publication reaches the registered streams, which are up to date.
LEMMA PublishStep == ASSUME IInv, Publish PROVE IInv'
<1>1. published \in Nat /\ published < MaxEvents /\ published' = published + 1
    BY DEF Publish, IInv, TypeOK
<1>2. /\ \A s \in Streams : stream'[s] = IF Registered(s)
            THEN [stream[s] EXCEPT !.queue = Append(@, published + 1)] ELSE stream[s]
      /\ UNCHANGED queues
    BY DEF Publish
<1>3. ASSUME NEW s \in Streams
      PROVE  /\ stream'[s] \in Stream /\ Ordered(stream'[s])
             /\ stream'[s].phase = stream[s].phase /\ stream'[s].id = stream[s].id
             /\ Registered(s) => Given(stream'[s]) = published + 1
             /\ stream[s].phase = "new" => stream'[s] = stream[s]
    <2>1. stream[s] \in Stream /\ Inv(s)
        BY DEF IInv, TypeOK
    <2>2. CASE Registered(s)
        <3>1. Given(stream[s]) = published /\ Ordered(stream[s])
            BY <2>1, <2>2 DEF Inv
        <3>2. stream'[s] = [stream[s] EXCEPT !.queue = Append(@, published + 1)]
            BY <1>2, <2>2
        <3>3. stream[s].phase # "new"
            BY <2>1, <2>2 DEF Inv, Unused, Registered
        <3>4. stream'[s] \in Stream /\ Ordered(stream'[s]) /\ Given(stream'[s]) = published + 1
            BY <1>1, <2>1, <3>1, <3>2, PutOne
        <3> QED
            BY <2>1, <3>2, <3>3, <3>4 DEF Stream
    <2>3. CASE ~Registered(s)
        BY <1>2, <2>1, <2>3 DEF Inv
    <2> QED
        BY <2>2, <2>3
<1>4. TypeOK'
    <2>1. stream' \in [Streams -> Stream]
        BY <1>3 DEF Publish
    <2>2. published' \in 0..MaxEvents
        BY <1>1, QueueAssumption
    <2> QED
        BY <1>2, <2>1, <2>2 DEF IInv, TypeOK
<1>5. \A s \in Streams : (Registered(s)' <=> Registered(s)) /\ (Alone(s)' <=> Alone(s))
    BY <1>2, <1>3 DEF Registered, Alone
<1>6. ASSUME NEW s \in Streams PROVE Inv(s)'
    BY <1>1, <1>3, <1>5 DEF IInv, Inv
<1> QED
    BY <1>4, <1>6 DEF IInv

\* The pop takes no registration from a stream that is alone under its id.
LEMMA CleanupStep == ASSUME IInv, NEW s \in Streams, Cleanup(s) PROVE IInv'
<1> DEFINE y == [stream[s] EXCEPT !.phase = "closed"]
           id == stream[s].id
<1>1. stream[s] \in Stream /\ id \in SubscriberIds
    BY DEF Cleanup, IInv, TypeOK, Inv
<1>2. /\ y \in Stream /\ y.phase = "closed" /\ y.id = id /\ y.joined = stream[s].joined
      /\ y.sent = stream[s].sent /\ y.queue = stream[s].queue
    BY <1>1 DEF Stream, Phases
<1>3. /\ stream'[s] = y
      /\ \A t \in Streams \ {s} : stream'[t] = stream[t]
      /\ \A t \in Streams : stream'[t].id = stream[t].id
      /\ queues'[id] = Nobody /\ \A i \in SubscriberIds \ {id} : queues'[i] = queues[i]
      /\ published' = published
    BY <1>1, <1>2 DEF Cleanup, IInv, TypeOK
<1>4. TypeOK'
    BY <1>2 DEF Cleanup, IInv, TypeOK
<1>5. \A t \in Streams : stream[t].id = id => ~Registered(t)'
    BY <1>3, QueueAssumption DEF Registered
<1>6. \A t \in Streams : stream[t].id # id => (Registered(t)' <=> Registered(t))
    BY <1>3 DEF Registered, IInv, TypeOK, Stream
<1>7. Inv(s)'
    BY <1>1, <1>2, <1>3, <1>5 DEF IInv, Inv, Ordered, Connected
<1>8. ASSUME NEW t \in Streams \ {s} PROVE Inv(t)'
    <2>1. Alone(t)' => Alone(t) /\ stream[t].id # id
        BY <1>3 DEF Alone
    <2> QED
        BY <1>3, <1>5, <1>6, <2>1 DEF IInv, Inv
<1> QED
    BY <1>4, <1>7, <1>8 DEF IInv

\* The steps of one response.
LEMMA ResponseStep ==
    ASSUME IInv, NEW s \in Streams,
           Greet(s) \/ Await(s) \/ Feed(s) \/ KeepAlive(s) \/ Disconnect(s)
    PROVE  IInv'
<1>1. stream[s] \in Stream /\ Ordered(stream[s])
    BY DEF IInv, TypeOK, Inv
<1>2. CASE Feed(s)
    <2> DEFINE y == [stream[s] EXCEPT !.phase = "fed", !.queue = Tail(@),
                                      !.sent = Append(@, Head(stream[s].queue))]
    <2>1. y \in Stream /\ Ordered(y) /\ Given(y) = Given(stream[s])
        BY <1>1, <1>2, FeedOne DEF Feed
    <2>2. y.id = stream[s].id /\ y.phase = "fed"
        BY <1>1 DEF Stream
    <2>3. stream' = [stream EXCEPT ![s] = y]
        BY <1>2 DEF Feed
    <2>4. stream[s].phase # "new" /\ stream[s].phase \in Connected /\ y.phase # "new"
        BY <1>2, <2>2 DEF Feed, Connected
    <2> HIDE DEF y
    <2> QED
        BY <1>2, <2>1, <2>2, <2>3, <2>4, StreamStep DEF Feed
<1>3. ASSUME NEW p \in Phases \ {"new"}, stream[s].phase # "new",
             stream' = [stream EXCEPT ![s].phase = p], UNCHANGED <<published, queues>>,
             p \in Connected => stream[s].phase \in Connected
      PROVE  IInv'
    <2> DEFINE y == [stream[s] EXCEPT !.phase = p]
    <2>1. /\ y \in Stream /\ y.id = stream[s].id /\ y.phase = p /\ y.joined = stream[s].joined
          /\ y.sent = stream[s].sent /\ y.queue = stream[s].queue
        BY <1>1 DEF Stream
    <2>2. Ordered(y) /\ Given(y) = Given(stream[s])
        BY <1>1, <2>1 DEF Ordered, Given
    <2>3. stream' = [stream EXCEPT ![s] = y]
        BY <1>3
    <2> QED
        BY <1>3, <2>1, <2>2, <2>3, StreamStep
<1>4. CASE Greet(s)
    BY <1>3, <1>4 DEF Greet, Phases, Connected
<1>5. CASE Await(s)
    BY <1>3, <1>5 DEF Await, Phases, Connected
<1>6. CASE KeepAlive(s)
    BY <1>3, <1>6 DEF KeepAlive, Phases, Connected
<1>7. CASE Disconnect(s)
    <2> DEFINE p == IF stream[s].phase \in {"opened", "greeted"} THEN "closed" ELSE "closing"
    <2>1. p \in Phases \ {"new"} /\ p \notin Connected /\ stream[s].phase # "new"
        BY <1>7 DEF Disconnect, Phases, Connected
    <2>2. stream' = [stream EXCEPT ![s].phase = p]
        BY <1>7 DEF Disconnect
    <2> QED
        BY <1>3, <1>7, <2>1, <2>2 DEF Disconnect
<1> QED
    BY <1>2, <1>4, <1>5, <1>6, <1>7

\* Every step keeps the invariant.
LEMMA NextInv == IInv /\ [Next]_vars => IInv'
<1> SUFFICES ASSUME IInv, [Next]_vars PROVE IInv'
    OBVIOUS
<1>1. CASE Publish
    BY <1>1, PublishStep
<1>2. CASE \E s \in Streams, id \in SubscriberIds : Subscribe(s, id)
    BY <1>2, SubscribeStep
<1>3. CASE \E s \in Streams :
              Greet(s) \/ Await(s) \/ Feed(s) \/ KeepAlive(s) \/ Disconnect(s)
    BY <1>3, ResponseStep
<1>4. CASE \E s \in Streams : Cleanup(s)
    BY <1>4, CleanupStep
<1>5. CASE UNCHANGED vars
    BY <1>5 DEF vars, IInv, TypeOK, Inv, Registered, Alone
<1> QED
    BY <1>1, <1>2, <1>3, <1>4, <1>5 DEF Next

-----------------------------------------------------------------------------
\* What was sent, followed by what waits, is numbered without a gap.
LEMMA OrderedIsGapless ==
    ASSUME NEW T, NEW s \in Seq(T), NEW q \in Seq(T), NEW j \in Nat,
           Numbered(s, j), Numbered(q, j + Len(s))
    PROVE  Numbered(s \o q, j)
<1>1. /\ Len(s \o q) = Len(s) + Len(q)
      /\ \A k \in 1..(Len(s) + Len(q)) :
            (s \o q)[k] = IF k <= Len(s) THEN s[k] ELSE q[k - Len(s)]
    BY ConcatProperties
<1>2. Len(s) \in Nat /\ Len(q) \in Nat
    BY LenProperties
<1> SUFFICES ASSUME NEW k \in 1..(Len(s) + Len(q)) PROVE (s \o q)[k] = j + k
    BY <1>1 DEF Numbered
<1>3. CASE k <= Len(s)
    BY <1>1, <1>2, <1>3 DEF Numbered
<1>4. CASE ~(k <= Len(s))
    <2>1. k - Len(s) \in 1..Len(q) /\ (s \o q)[k] = q[k - Len(s)]
        BY <1>1, <1>2, <1>4
    <2>2. q[k - Len(s)] = j + Len(s) + (k - Len(s))
        BY <2>1 DEF Numbered
    <2> QED
        BY <1>2, <2>1, <2>2
<1> QED
    BY <1>3, <1>4

\* Every stream of the mock shows consecutive events, whatever keep-alives,
\* disconnections and reconnections do (crud_router.py _sse_events).
THEOREM QueuesAreGapless == Spec => []StreamsAreGapless
<1>1. ASSUME IInv, NEW s \in Streams
      PROVE  Numbered(stream[s].sent \o stream[s].queue, stream[s].joined)
    <2>1. /\ stream[s].sent \in Seq(1..MaxEvents) /\ stream[s].queue \in Seq(1..MaxEvents)
          /\ stream[s].joined \in Nat
        BY <1>1 DEF IInv, TypeOK, Stream
    <2>2. Ordered(stream[s])
        BY <1>1 DEF IInv, Inv
    <2> QED
        BY <2>1, <2>2, OrderedIsGapless, Zenon DEF Ordered
<1>2. IInv => StreamsAreGapless
    BY <1>1 DEF StreamsAreGapless, Numbered
<1> QED
    BY InitInv, NextInv, <1>2, PTL DEF Spec

\* A subscriber id that one connection has to itself misses nothing
\* (interfaces/base.py InMemoryEventSink.publish).
THEOREM QueuesMissNothing == Spec => []OwnIdMissesNothing
<1>1. IInv => OwnIdMissesNothing
    BY DEF IInv, Inv, Alone, Given, OwnIdMissesNothing
<1> QED
    BY InitInv, NextInv, <1>1, PTL DEF Spec


-----------------------------------------------------------------------------
(***************************************************************************)
(* Induction, without operators for the induction hypothesis: it is the    *)
(* set of what it holds of.                                                *)
(***************************************************************************)
LEMMA LeastNatural ==
    ASSUME NEW S \in SUBSET Nat, S # {}
    PROVE  \E n \in S : \A m \in S : ~(m < n)
<1> DEFINE R == OpToRel(<, Nat)
<1>1. IsWellFoundedOn(R, Nat)
    BY NatLessThanWellFounded
<1>2. \A m, n \in Nat : <<m, n>> \in R <=> m < n
    BY DEF OpToRel
<1> HIDE DEF R
<1>3. \E n \in S : \A m \in S : <<m, n>> \notin R
    BY <1>1, WFMin
<1> QED
    BY <1>2, <1>3

LEMMA Induction ==
    ASSUME NEW T, 0 \in T, \A n \in Nat : n \in T => n + 1 \in T
    PROVE  \A n \in Nat : n \in T
<1> SUFFICES ASSUME NEW n \in Nat, n \notin T PROVE FALSE
    OBVIOUS
<1> DEFINE U == {m \in Nat : m \notin T}
<1>1. U \in SUBSET Nat /\ U # {}
    OBVIOUS
<1>2. PICK m \in U : \A k \in U : ~(k < m)
    BY <1>1, LeastNatural
<1>3. m \in Nat /\ m # 0 /\ m \notin T
    BY <1>2
<1>4. m - 1 \in Nat /\ m - 1 < m /\ (m - 1) + 1 = m
    BY <1>3
<1>5. m - 1 \in T
    BY <1>2, <1>4
<1> QED
    BY <1>3, <1>4, <1>5

\* The element a fold over a set takes next.
Pick(s) == CHOOSE x \in s : TRUE

LEMMA PickIsElement == ASSUME NEW s, s # {} PROVE Pick(s) \in s
<1>1. \E x : x \in s
    OBVIOUS
<1> QED
    BY <1>1, Zenon DEF Pick

LEMMA SubsetInduction ==
    ASSUME NEW S, IsFiniteSet(S), NEW G, {} \in G,
           \A s \in SUBSET S : s # {} /\ s \ {Pick(s)} \in G => s \in G
    PROVE  \A s \in SUBSET S : s \in G
<1> DEFINE T == {n \in Nat : \A s \in SUBSET S : Cardinality(s) = n => s \in G}
<1>1. \A s \in SUBSET S : IsFiniteSet(s) /\ Cardinality(s) \in Nat
    BY FS_Subset, FS_CardinalityType
<1>2. 0 \in T
    BY <1>1, FS_EmptySet
<1>3. ASSUME NEW n \in Nat, n \in T PROVE n + 1 \in T
    <2> SUFFICES ASSUME NEW s \in SUBSET S, Cardinality(s) = n + 1 PROVE s \in G
        OBVIOUS
    <2>1. s # {} /\ IsFiniteSet(s)
        BY <1>1, FS_EmptySet
    <2>2. Pick(s) \in s
        BY <2>1, PickIsElement
    <2>3. Cardinality(s \ {Pick(s)}) = n
        <3>1. Cardinality(s \ {Pick(s)}) = Cardinality(s) - 1
            BY <2>1, <2>2, FS_RemoveElement
        <3> QED
            BY <3>1
    <2> QED
        BY <1>3, <2>1, <2>3
<1> HIDE DEF T
<1>4. \A n \in Nat : n \in T
    BY <1>2, <1>3, Induction
<1> QED
    BY <1>1, <1>4 DEF T

-----------------------------------------------------------------------------
(***************************************************************************)
(* Sums over sets.                                                         *)
(***************************************************************************)
\* g is the recursive function behind the sum of f over S.
IsSum(g, f, S) ==
    g = [s \in SUBSET S |-> IF s = {} THEN 0 ELSE f[Pick(s)] + g[s \ {Pick(s)}]]

\* It exists: from the subsets with k elements on to those with k + 1.
LEMMA SumExists == ASSUME NEW S, IsFiniteSet(S), NEW f PROVE \E g : IsSum(g, f, S)
<1> DEFINE D(k) == {s \in SUBSET S : Cardinality(s) <= k}
           IsPart(g, k) == g = [s \in D(k) |-> IF s = {} THEN 0
                                               ELSE f[Pick(s)] + g[s \ {Pick(s)}]]
           T == {k \in Nat : \E g : IsPart(g, k)}
<1>1. \A s \in SUBSET S : IsFiniteSet(s) /\ Cardinality(s) \in Nat
    BY FS_Subset, FS_CardinalityType
<1>2. \A s \in SUBSET S : s # {} =>
          /\ s \ {Pick(s)} \in SUBSET S
          /\ Cardinality(s \ {Pick(s)}) = Cardinality(s) - 1
    BY <1>1, PickIsElement, FS_RemoveElement
<1>3. 0 \in T
    <2>1. \A s \in D(0) : s = {}
        BY <1>1, FS_EmptySet
    <2>2. IsPart([s \in D(0) |-> 0], 0)
        BY <2>1
    <2> QED
        BY <2>2
<1>4. ASSUME NEW k \in Nat, k \in T PROVE k + 1 \in T
    <2>1. PICK g : IsPart(g, k)
        BY <1>4
    <2> DEFINE h == [s \in D(k + 1) |-> IF s = {} THEN 0 ELSE f[Pick(s)] + g[s \ {Pick(s)}]]
    <2>2. \A s \in D(k) : s \in D(k + 1)
        BY <1>1
    <2>3. \A s \in D(k) : h[s] = g[s]
        BY <2>1, <2>2
    <2>4. \A s \in D(k + 1) : s # {} => s \ {Pick(s)} \in D(k)
        BY <1>1, <1>2
    <2>5. \A s \in D(k + 1) : h[s] = IF s = {} THEN 0 ELSE f[Pick(s)] + h[s \ {Pick(s)}]
        BY <2>3, <2>4
    <2>6. h = [s \in D(k + 1) |-> h[s]]
        OBVIOUS
    <2> HIDE DEF h
    <2>7. h = [s \in D(k + 1) |-> IF s = {} THEN 0 ELSE f[Pick(s)] + h[s \ {Pick(s)}]]
        <3> HIDE DEF D
        <3> QED
            BY <2>5, <2>6
    <2>8. k + 1 \in Nat
        OBVIOUS
    <2>9. IsPart(h, k + 1)
        BY <2>7, Zenon
    <2> HIDE DEF IsPart
    <2> QED
        BY <2>8, <2>9
<1> HIDE DEF T
<1>5. Cardinality(S) \in T
    BY <1>1, <1>3, <1>4, Induction
<1>6. PICK g : IsPart(g, Cardinality(S))
    BY <1>5 DEF T
<1>7. D(Cardinality(S)) = SUBSET S
    <2>1. \A s \in SUBSET S : Cardinality(s) <= Cardinality(S)
        BY FS_Subset
    <2> QED
        BY <2>1
<1> QED
    BY <1>6, <1>7 DEF IsSum

\* It gives numbers, and the sum of a linear combination is that of the sums.
LEMMA SumsAreIntegers ==
    ASSUME NEW S, IsFiniteSet(S), NEW f, \A x \in S : f[x] \in Int, NEW g, IsSum(g, f, S)
    PROVE  \A u \in SUBSET S : g[u] \in Int
<1> DEFINE G == {u \in SUBSET S : g[u] \in Int}
<1>1. {} \in G
    BY DEF IsSum
<1>2. ASSUME NEW u \in SUBSET S, u # {}, u \ {Pick(u)} \in G PROVE u \in G
    <2>1. Pick(u) \in S
        BY <1>2, PickIsElement
    <2>2. g[u] = f[Pick(u)] + g[u \ {Pick(u)}]
        BY <1>2 DEF IsSum
    <2> QED
        BY <1>2, <2>1, <2>2
<1> HIDE DEF G
<1>3. \A u \in SUBSET S : u \in G
    BY <1>1, <1>2, SubsetInduction
<1> QED
    BY <1>3 DEF G

LEMMA Distributes ==
    ASSUME NEW a \in Int, NEW c \in Int, NEW u \in Int, NEW v \in Int, NEW p \in Int, NEW q \in Int
    PROVE  (a * u + c * v) + (a * p + c * q) = a * (u + p) + c * (v + q)
OBVIOUS

Combines(w, a, u, c, v, S) ==
    \A x \in S : u[x] \in Int /\ v[x] \in Int /\ w[x] = a * u[x] + c * v[x]

LEMMA SumIsLinear ==
    ASSUME NEW S, IsFiniteSet(S), NEW a \in Int, NEW c \in Int,
           NEW u, NEW v, NEW w, Combines(w, a, u, c, v, S),
           NEW U, IsSum(U, u, S), NEW V, IsSum(V, v, S), NEW W, IsSum(W, w, S)
    PROVE  U[S] \in Int /\ V[S] \in Int /\ W[S] = a * U[S] + c * V[S]
<1> DEFINE G == {s \in SUBSET S : U[s] \in Int /\ V[s] \in Int /\ W[s] = a * U[s] + c * V[s]}
<1>1. {} \in G
    BY DEF IsSum
<1>2. ASSUME NEW s \in SUBSET S, s # {}, s \ {Pick(s)} \in G PROVE s \in G
    <2> DEFINE x == Pick(s)
               t == s \ {x}
    <2>1. x \in S
        BY <1>2, PickIsElement
    <2>2. U[s] = u[x] + U[t] /\ V[s] = v[x] + V[t] /\ W[s] = w[x] + W[t]
        BY <1>2 DEF IsSum
    <2>3. /\ u[x] \in Int /\ v[x] \in Int /\ w[x] = a * u[x] + c * v[x]
          /\ U[t] \in Int /\ V[t] \in Int /\ W[t] = a * U[t] + c * V[t]
        BY <1>2, <2>1 DEF Combines
    <2> HIDE DEF x, t
    <2>4. W[s] = a * U[s] + c * V[s]
        BY <2>2, <2>3, Distributes
    <2>5. U[s] \in Int /\ V[s] \in Int
        BY <2>2, <2>3
    <2> QED
        BY <2>4, <2>5
<1> HIDE DEF G
<1>3. S \in G
    BY <1>1, <1>2, SubsetInduction
<1> QED
    BY <1>3 DEF G

\* A sum of ones counts.
LEMMA SumCounts ==
    ASSUME NEW S, IsFiniteSet(S), NEW f, \A x \in S : f[x] = 1, NEW g, IsSum(g, f, S)
    PROVE  g[S] = Cardinality(S)
<1> DEFINE G == {s \in SUBSET S : g[s] = Cardinality(s)}
<1>1. {} \in G
    BY FS_EmptySet DEF IsSum
<1>2. ASSUME NEW s \in SUBSET S, s # {}, s \ {Pick(s)} \in G PROVE s \in G
    <2>1. Pick(s) \in s /\ IsFiniteSet(s)
        BY <1>2, PickIsElement, FS_Subset
    <2>2. g[s] = 1 + g[s \ {Pick(s)}]
        BY <1>2, <2>1 DEF IsSum
    <2>3. Cardinality(s) \in Nat /\ Cardinality(s \ {Pick(s)}) = Cardinality(s) - 1
        BY <2>1, FS_CardinalityType, FS_RemoveElement
    <2> QED
        BY <1>2, <2>2, <2>3
<1> HIDE DEF G
<1>3. S \in G
    BY <1>1, <1>2, SubsetInduction
<1> QED
    BY <1>3 DEF G

\* The sums forecast takes.
SquareTotal(S) == MapThenSumSet(LAMBDA x : x * x, S)
ValueTotal(history, S) == MapThenSumSet(LAMBDA x : history[x + 1].value, S)
ProductTotal(history, S) == MapThenSumSet(LAMBDA x : x * history[x + 1].value, S)

LEMMA PlainSum ==
    ASSUME NEW S, IsFiniteSet(S)
    PROVE  \E g : /\ IsSum(g, [x \in S |-> x], S)
                  /\ SumSet(S) = g[S]
<1> DEFINE f == [x \in S |-> x]
           P(g) == g = [s \in SUBSET S |-> IF s = {} THEN 0 ELSE Pick(s) + g[s \ {Pick(s)}]]
           total == CHOOSE g : P(g)
<1>1. \A s \in SUBSET S : s # {} => f[Pick(s)] = Pick(s)
    BY PickIsElement
<1>2. \A g : IsSum(g, f, S) <=> P(g)
    <2> HIDE DEF f
    <2> QED
        BY <1>1 DEF IsSum
<1>3. \E g : P(g)
    BY <1>2, SumExists
<1>4. P(total)
    <2> HIDE DEF P
    <2> QED
        BY <1>3, Zenon
<1>5. SumSet(S) = total[S]
    BY Zenon DEF SumSet, FoldSet, MapThenFoldSet, Pick
<1> QED
    BY <1>2, <1>4, <1>5

LEMMA SquareSum ==
    ASSUME NEW S, IsFiniteSet(S)
    PROVE  \E g : /\ IsSum(g, [x \in S |-> x * x], S)
                  /\ SquareTotal(S) = g[S]
<1> DEFINE f == [x \in S |-> x * x]
           P(g) == g = [s \in SUBSET S |-> IF s = {} THEN 0 ELSE (Pick(s) * Pick(s)) + g[s \ {Pick(s)}]]
           total == CHOOSE g : P(g)
<1>1. \A s \in SUBSET S : s # {} => f[Pick(s)] = (Pick(s) * Pick(s))
    BY PickIsElement
<1>2. \A g : IsSum(g, f, S) <=> P(g)
    <2> HIDE DEF f
    <2> QED
        BY <1>1 DEF IsSum
<1>3. \E g : P(g)
    BY <1>2, SumExists
<1>4. P(total)
    <2> HIDE DEF P
    <2> QED
        BY <1>3, Zenon
<1>5. SquareTotal(S) = total[S]
    BY Zenon DEF SquareTotal, MapThenSumSet, MapThenFoldSet, Pick
<1> QED
    BY <1>2, <1>4, <1>5

LEMMA ValueSum ==
    ASSUME NEW S, IsFiniteSet(S), NEW history
    PROVE  \E g : /\ IsSum(g, [x \in S |-> history[x + 1].value], S)
                  /\ ValueTotal(history, S) = g[S]
<1> DEFINE f == [x \in S |-> history[x + 1].value]
           P(g) == g = [s \in SUBSET S |-> IF s = {} THEN 0 ELSE history[Pick(s) + 1].value + g[s \ {Pick(s)}]]
           total == CHOOSE g : P(g)
<1>1. \A s \in SUBSET S : s # {} => f[Pick(s)] = history[Pick(s) + 1].value
    BY PickIsElement
<1>2. \A g : IsSum(g, f, S) <=> P(g)
    <2> HIDE DEF f
    <2> QED
        BY <1>1 DEF IsSum
<1>3. \E g : P(g)
    BY <1>2, SumExists
<1>4. P(total)
    <2> HIDE DEF P
    <2> QED
        BY <1>3, Zenon
<1>5. ValueTotal(history, S) = total[S]
    BY Zenon DEF ValueTotal, MapThenSumSet, MapThenFoldSet, Pick
<1> QED
    BY <1>2, <1>4, <1>5

LEMMA ProductSum ==
    ASSUME NEW S, IsFiniteSet(S), NEW history
    PROVE  \E g : /\ IsSum(g, [x \in S |-> x * history[x + 1].value], S)
                  /\ ProductTotal(history, S) = g[S]
<1> DEFINE f == [x \in S |-> x * history[x + 1].value]
           P(g) == g = [s \in SUBSET S |-> IF s = {} THEN 0 ELSE (Pick(s) * history[Pick(s) + 1].value) + g[s \ {Pick(s)}]]
           total == CHOOSE g : P(g)
<1>1. \A s \in SUBSET S : s # {} => f[Pick(s)] = (Pick(s) * history[Pick(s) + 1].value)
    BY PickIsElement
<1>2. \A g : IsSum(g, f, S) <=> P(g)
    <2> HIDE DEF f
    <2> QED
        BY <1>1 DEF IsSum
<1>3. \E g : P(g)
    BY <1>2, SumExists
<1>4. P(total)
    <2> HIDE DEF P
    <2> QED
        BY <1>3, Zenon
<1>5. ProductTotal(history, S) = total[S]
    BY Zenon DEF ProductTotal, MapThenSumSet, MapThenFoldSet, Pick
<1> QED
    BY <1>2, <1>4, <1>5


\* No term of a sum of natural numbers is larger than the sum.
LEMMA SumBounds ==
    ASSUME NEW S, IsFiniteSet(S), NEW f, \A x \in S : f[x] \in Nat, NEW g, IsSum(g, f, S)
    PROVE  g[S] \in Nat /\ \A x \in S : f[x] <= g[S]
<1> DEFINE G == {s \in SUBSET S : g[s] \in Nat /\ \A x \in s : f[x] <= g[s]}
<1>1. {} \in G
    BY DEF IsSum
<1>2. ASSUME NEW s \in SUBSET S, s # {}, s \ {Pick(s)} \in G PROVE s \in G
    <2> DEFINE t == s \ {Pick(s)}
    <2>1. Pick(s) \in S /\ Pick(s) \in s
        BY <1>2, PickIsElement
    <2>2. g[s] = f[Pick(s)] + g[t]
        BY <1>2 DEF IsSum
    <2>3. f[Pick(s)] \in Nat /\ g[t] \in Nat
        BY <1>2, <2>1
    <2>4. g[s] \in Nat /\ f[Pick(s)] <= g[s] /\ g[t] <= g[s]
        BY <2>2, <2>3
    <2>5. ASSUME NEW x \in t PROVE f[x] <= g[s]
        <3>1. f[x] \in Nat /\ f[x] <= g[t]
            BY <1>2, <2>5
        <3> QED
            BY <2>3, <2>4, <3>1
    <2>6. \A x \in s : x = Pick(s) \/ x \in t
        OBVIOUS
    <2> QED
        BY <2>4, <2>5, <2>6
<1> HIDE DEF G
<1>3. S \in G
    BY <1>1, <1>2, SubsetInduction
<1> QED
    BY <1>3 DEF G

LEMMA Positions ==
    ASSUME NEW n \in Nat, n >= 2
    PROVE  IsFiniteSet(0..(n - 1)) /\ Cardinality(0..(n - 1)) = n
<1>1. 0 \in Int /\ n - 1 \in Int
    OBVIOUS
<1>2. IsFiniteSet(0..(n - 1)) /\ Cardinality(0..(n - 1)) = IF 0 > n - 1 THEN 0 ELSE n - 1 - 0 + 1
    BY <1>1, FS_Interval
<1> QED
    BY <1>2

LEMMA SquareOfDifference ==
    ASSUME NEW n \in Int, NEW x \in Int, NEW sx \in Int
    PROVE  /\ (n * x - sx) * (n * x - sx)
                 = 1 * ((n * n) * (x * x) + (-(2 * n * sx)) * x) + (sx * sx) * 1
           /\ (n * x - sx) * (n * x - sx) \in Nat
<1>1. (n * x - sx) * (n * x - sx) = 1 * ((n * n) * (x * x) + (-(2 * n * sx)) * x) + (sx * sx) * 1
    OBVIOUS
<1>2. \A d \in Int : d * d \in Nat
    OBVIOUS
<1>3. n * x - sx \in Int
    OBVIOUS
<1>4. (n * x - sx) * (n * x - sx) \in Nat
    <2> DEFINE d == n * x - sx
    <2> HIDE DEF d
    <2>1. d * d \in Nat
        BY <1>2, <1>3 DEF d
    <2> QED
        BY <2>1 DEF d
<1> QED
    BY <1>1, <1>4

LEMMA SumOfSquares ==
    ASSUME NEW n \in Int, NEW sx \in Int, NEW sxx \in Int
    PROVE  1 * ((n * n) * sxx + (-(2 * n * sx)) * sx) + (sx * sx) * n = n * (n * sxx - sx * sx)
OBVIOUS

LEMMA PositiveFactor ==
    ASSUME NEW n \in Nat, n >= 2, NEW d \in Int, n * d > 0
    PROVE  d > 0
OBVIOUS

\* n * d is the sum of the squares (n*x - sx)^2, and two of them are not 0
\* both.
LEMMA SpreadIsPositive ==
    ASSUME NEW n \in Nat, n >= 2
    PROVE  LET X == 0..(n - 1) IN
           n * SquareTotal(X) - SumSet(X) * SumSet(X) \in Nat \ {0}
<1> DEFINE X   == 0..(n - 1)
           sx  == SumSet(X)
           sxx == SquareTotal(X)
           one == [x \in X |-> 1]
           id  == [x \in X |-> x]
           sq  == [x \in X |-> x * x]
<1>1. IsFiniteSet(X) /\ Cardinality(X) = n
    BY Positions
<1>2. PICK g1 : IsSum(g1, one, X)
    BY <1>1, SumExists
<1>3. PICK gx : IsSum(gx, id, X) /\ sx = gx[X]
    BY <1>1, PlainSum
<1>4. PICK gxx : IsSum(gxx, sq, X) /\ sxx = gxx[X]
    BY <1>1, SquareSum
<1>5. g1[X] = n
    BY <1>1, <1>2, SumCounts
<1>6. sx \in Int /\ sxx \in Int
    <2>1. (\A x \in X : id[x] \in Int) /\ (\A x \in X : sq[x] \in Int)
        OBVIOUS
    <2> HIDE DEF X, id, sq, sx, sxx
    <2> QED
        BY <1>1, <1>3, <1>4, <2>1, SumsAreIntegers
<1> DEFINE a == n * n
           c == -(2 * n * sx)
           e == sx * sx
<1>7. a \in Int /\ c \in Int /\ e \in Int /\ 1 \in Int
    BY <1>6
<1> DEFINE mid == [x \in X |-> a * (x * x) + c * x]
           dev == [x \in X |-> (n * x - sx) * (n * x - sx)]
<1>8. PICK gm : IsSum(gm, mid, X)
    BY <1>1, SumExists
<1>9. PICK gd : IsSum(gd, dev, X)
    BY <1>1, SumExists
<1>10. gm[X] \in Int /\ gm[X] = a * sxx + c * sx
    <2>1. Combines(mid, a, sq, c, id, X)
        <3> HIDE DEF a, c
        <3> QED
            BY <1>7 DEF Combines
    <2> HIDE DEF X, sx, sxx, id, sq, mid, a, c
    <2>2. gm[X] = a * gxx[X] + c * gx[X]
        BY <1>1, <1>3, <1>4, <1>7, <1>8, <2>1, SumIsLinear
    <2> QED
        BY <1>3, <1>4, <1>6, <1>7, <2>2
<1>11. \A x \in X : dev[x] \in Nat /\ dev[x] = 1 * (a * (x * x) + c * x) + e * 1
    <2> SUFFICES ASSUME NEW x \in X
                 PROVE  dev[x] \in Nat /\ dev[x] = 1 * (a * (x * x) + c * x) + e * 1
        OBVIOUS
    <2>1. x \in Int /\ n \in Int
        OBVIOUS
    <2>2. dev[x] = (n * x - sx) * (n * x - sx)
        OBVIOUS
    <2> HIDE DEF X, sx, sxx, dev, mid, one, id, sq
    <2>3. /\ (n * x - sx) * (n * x - sx)
                 = 1 * ((n * n) * (x * x) + (-(2 * n * sx)) * x) + (sx * sx) * 1
          /\ (n * x - sx) * (n * x - sx) \in Nat
        BY <1>6, <2>1, SquareOfDifference, Zenon
    <2> QED
        BY <2>2, <2>3, Zenon
<1>12. gd[X] = 1 * gm[X] + e * n
    <2>1. \A x \in X : mid[x] = a * (x * x) + c * x /\ mid[x] \in Int /\ one[x] = 1
        <3> HIDE DEF a, c
        <3> QED
            BY <1>7
    <2>2. Combines(dev, 1, mid, e, one, X)
        <3> HIDE DEF X, dev, mid, one, a, c, e
        <3> QED
            BY <1>11, <2>1 DEF Combines
    <2> HIDE DEF X, sx, sxx, one, mid, dev, a, c, e
    <2>3. gd[X] = 1 * gm[X] + e * g1[X]
        BY <1>1, <1>2, <1>7, <1>8, <1>9, <2>2, SumIsLinear
    <2> QED
        BY <1>5, <2>3
<1> DEFINE d == n * sxx - sx * sx
<1>13. gd[X] = n * d
    <2>1. n \in Int
        OBVIOUS
    <2>2. gd[X] = 1 * (a * sxx + c * sx) + e * n
        BY <1>10, <1>12
    <2> HIDE DEF X, sx, sxx
    <2> QED
        BY <1>6, <2>1, <2>2, SumOfSquares
<1>14. gd[X] \in Nat /\ dev[0] <= gd[X] /\ dev[1] <= gd[X]
    <2>1. 0 \in X /\ 1 \in X
        OBVIOUS
    <2> HIDE DEF X, dev
    <2> QED
        BY <1>1, <1>9, <1>11, <2>1, SumBounds
<1>15. dev[0] = sx * sx /\ dev[1] = (n - sx) * (n - sx)
    <2>1. dev[0] = (n * 0 - sx) * (n * 0 - sx) /\ dev[1] = (n * 1 - sx) * (n * 1 - sx)
        OBVIOUS
    <2> HIDE DEF sx, dev
    <2>2. n * 0 - sx = -sx /\ n * 1 - sx = n - sx /\ (-sx) * (-sx) = sx * sx
        BY <1>6
    <2> QED
        BY <2>1, <2>2
<1>16. gd[X] > 0
    <2> HIDE DEF X, sx, sxx, dev, d
    <2> SUFFICES ASSUME gd[X] = 0 PROVE FALSE
        BY <1>14
    <2>1. sx * sx <= 0
        BY <1>14, <1>15
    <2>2. sx = 0
        BY <1>6, <2>1
    <2>3. n * n <= 0
        BY <1>14, <1>15, <2>2
    <2> QED
        BY <2>3
<1>17. d \in Int
    BY <1>6
<1> HIDE DEF X, sx, sxx
<1>18. d > 0
    <2> HIDE DEF d
    <2> QED
        BY <1>13, <1>16, <1>17, PositiveFactor
<1>19. d \in Nat \ {0}
    <2> HIDE DEF d
    <2> QED
        BY <1>17, <1>18
<1> QED
    BY <1>19 DEF X, sx, sxx

\* What forecast makes of the sums.
IsProjection(p, start, n, step, sx, sy, sxx, sxy) ==
    LET den   == n * sxx - sx * sx
        slope == n * sxy - sx * sy
    IN  /\ p.start = start + step * Width
        /\ p.num = n * slope * (n - 1 + step) + sy * den - slope * sx
        /\ p.den = n * den

LEMMA ForecastTerms ==
    ASSUME NEW history, NEW n, n = Len(history), NEW step \in 1..Periods
    PROVE  IsProjection(Forecast(history)[step], history[n].start, n, step,
                        SumSet(0..(n - 1)), ValueTotal(history, 0..(n - 1)),
                        SquareTotal(0..(n - 1)), ProductTotal(history, 0..(n - 1)))
BY DEF Forecast, Advance, SquareTotal, ValueTotal, ProductTotal, IsProjection

\* With y = a + c * x in every point, the fitted line is that line.
LEMMA FittedLine ==
    ASSUME NEW n \in Int, NEW a \in Int, NEW c \in Int, NEW sx \in Int, NEW sxx \in Int,
           NEW step \in Int
    PROVE  LET sy    == a * n + c * sx
               sxy   == a * sx + c * sxx
               den   == n * sxx - sx * sx
               slope == n * sxy - sx * sy
           IN  n * slope * (n - 1 + step) + sy * den - slope * sx
                   = (n * den) * (a + c * (n - 1 + step))
<1> DEFINE sy    == a * n + c * sx
           sxy   == a * sx + c * sxx
           den   == n * sxx - sx * sx
           slope == n * sxy - sx * sy
<1>1. slope = c * den
    OBVIOUS
<1>2. sy * den = n * (den * a) + c * den * sx
    OBVIOUS
<1>3. den \in Int
    OBVIOUS
<1> HIDE DEF den, slope, sy
<1>4. n * (c * den) * (n - 1 + step) = n * den * (c * (n - 1 + step))
    BY <1>3
<1>5. n * (c * den) * (n - 1 + step) + (n * (den * a) + c * den * sx) - (c * den) * sx
          = (n * den) * (a + c * (n - 1 + step))
    BY <1>3
<1> QED
    BY <1>1, <1>2, <1>5 DEF den, slope, sy

LEMMA TimesALine ==
    ASSUME NEW a \in Int, NEW c \in Int, NEW x \in Int
    PROVE  x * (a + c * x) = a * x + c * (x * x) /\ x * x \in Int
OBVIOUS

OnLine(history, n, a, c) == \A k \in 1..n : history[k].value = a + c * (k - 1)

GoesOn(p, history, n, c, step) ==
    /\ p.num = p.den * (history[n].value + step * c)
    /\ p.start = history[n].start + step * Width

\* The forecast goes on with a history on a line.
LEMMA LineGoesOn ==
    ASSUME NEW history, NEW n \in Nat, n = Len(history), n >= 2,
           NEW a \in Int, NEW c \in Int, OnLine(history, n, a, c),
           NEW step \in 1..Periods
    PROVE  GoesOn(Forecast(history)[step], history, n, c, step)
<1> DEFINE X     == 0..(n - 1)
           sx    == SumSet(X)
           sy    == ValueTotal(history, X)
           sxx   == SquareTotal(X)
           sxy   == ProductTotal(history, X)
           p     == Forecast(history)[step]
           one   == [x \in X |-> 1]
           id    == [x \in X |-> x]
           sq    == [x \in X |-> x * x]
           y     == [x \in X |-> history[x + 1].value]
           xy    == [x \in X |-> x * history[x + 1].value]
<1>0. \A x \in X : x + 1 \in 1..n /\ history[x + 1].value = a + c * x
    BY DEF OnLine
<1>1. IsFiniteSet(X) /\ Cardinality(X) = n
    BY Positions
<1>2. PICK g1 : IsSum(g1, one, X)
    BY <1>1, SumExists
<1>3. PICK gx : IsSum(gx, id, X) /\ sx = gx[X]
    BY <1>1, PlainSum
<1>4. PICK gxx : IsSum(gxx, sq, X) /\ sxx = gxx[X]
    BY <1>1, SquareSum
<1>5. PICK gy : IsSum(gy, y, X) /\ sy = gy[X]
    BY <1>1, ValueSum
<1>6. PICK gxy : IsSum(gxy, xy, X) /\ sxy = gxy[X]
    BY <1>1, ProductSum
<1>7. g1[X] = n
    BY <1>1, <1>2, SumCounts
<1>8. gx[X] \in Int /\ gy[X] = a * g1[X] + c * gx[X]
    <2>1. Combines(y, a, one, c, id, X)
        BY <1>0 DEF Combines
    <2> HIDE DEF X, one, id, y
    <2> QED
        BY <1>1, <1>2, <1>3, <1>5, <2>1, SumIsLinear
<1>9. gxx[X] \in Int /\ gxy[X] = a * gx[X] + c * gxx[X]
    <2>1. \A x \in X : x \in Int /\ history[x + 1].value = a + c * x
        BY <1>0
    <2>2. Combines(xy, a, id, c, sq, X)
        <3> SUFFICES ASSUME NEW x \in X
                     PROVE  id[x] \in Int /\ sq[x] \in Int /\ xy[x] = a * id[x] + c * sq[x]
            BY DEF Combines
        <3>1. id[x] = x /\ sq[x] = x * x /\ xy[x] = x * (a + c * x) /\ x \in Int
            BY <2>1
        <3> HIDE DEF X, id, sq, xy
        <3>2. x * (a + c * x) = a * x + c * (x * x) /\ x * x \in Int
            BY <3>1, TimesALine
        <3> QED
            BY <3>1, <3>2, Zenon
    <2> HIDE DEF X, sq, id, xy
    <2> QED
        BY <1>1, <1>3, <1>4, <1>6, <2>2, SumIsLinear
<1> DEFINE den   == n * sxx - sx * sx
           slope == n * sxy - sx * sy
<1>10. /\ p.start = history[n].start + step * Width
       /\ p.num = n * slope * (n - 1 + step) + sy * den - slope * sx
       /\ p.den = n * den
    <2>1. IsProjection(p, history[n].start, n, step, sx, sy, sxx, sxy)
        BY ForecastTerms
    <2> HIDE DEF p, X, sx, sy, sxx, sxy
    <2> QED
        BY <2>1 DEF IsProjection
<1>11. sx \in Int /\ sxx \in Int /\ sy = a * n + c * sx /\ sxy = a * sx + c * sxx
    BY <1>3, <1>4, <1>5, <1>6, <1>7, <1>8, <1>9
<1> HIDE DEF X, sx, sy, sxx, sxy, p
<1>12. n * slope * (n - 1 + step) + sy * den - slope * sx
          = (n * den) * (a + c * (n - 1 + step))
    BY <1>11, FittedLine
<1>13. history[n].value + step * c = a + c * (n - 1 + step)
    <2>1. history[n].value = a + c * (n - 1)
        <3>1. n \in 1..n
            OBVIOUS
        <3> QED
            BY <3>1, Zenon DEF OnLine
    <2>2. c * (n - 1 + step) = c * (n - 1) + step * c
        OBVIOUS
    <2> QED
        BY <2>1, <2>2
<1>14. p.num = p.den * (history[n].value + step * c)
    BY <1>10, <1>12, <1>13
<1> QED
    BY <1>10, <1>14 DEF p, GoesOn

-----------------------------------------------------------------------------
(***************************************************************************)
(* The loops of the mock and of bucket_field_sums.                         *)
(***************************************************************************)
\* The ids a loop has gone through.
Upto(ids, n) == {i \in ids : i <= n}

LEMMA UptoGrows ==
    ASSUME NEW ids \in SUBSET (1..MaxRows)
    PROVE  /\ IsFiniteSet(ids)
           /\ Upto(ids, 0) = {} /\ Upto(ids, MaxRows) = ids
           /\ \A n \in Nat :
                /\ Upto(ids, n) \in SUBSET ids /\ IsFiniteSet(Upto(ids, n))
                /\ n + 1 \notin Upto(ids, n)
                /\ n + 1 \in ids => Upto(ids, n + 1) = Upto(ids, n) \cup {n + 1}
                /\ n + 1 \notin ids => Upto(ids, n + 1) = Upto(ids, n)
<1>1. MaxRows \in Nat
    BY StatsAssumption
<1>2. IsFiniteSet(ids)
    <2>1. IsFiniteSet(1..MaxRows)
        BY <1>1, FS_Interval
    <2> QED
        BY <2>1, FS_Subset
<1>3. \A n \in Nat : Upto(ids, n) \in SUBSET ids /\ IsFiniteSet(Upto(ids, n))
    <2>1. \A n \in Nat : Upto(ids, n) \in SUBSET ids
        BY DEF Upto
    <2> QED
        BY <1>2, <2>1, FS_Subset
<1>4. Upto(ids, 0) = {} /\ Upto(ids, MaxRows) = ids
    <2>1. \A i \in ids : ~(i <= 0) /\ i <= MaxRows
        BY <1>1
    <2> QED
        BY <2>1 DEF Upto
<1>5. ASSUME NEW n \in Nat
      PROVE  /\ n + 1 \notin Upto(ids, n)
             /\ n + 1 \in ids => Upto(ids, n + 1) = Upto(ids, n) \cup {n + 1}
             /\ n + 1 \notin ids => Upto(ids, n + 1) = Upto(ids, n)
    <2>1. \A i \in ids : i <= n + 1 <=> i <= n \/ i = n + 1
        BY <1>1
    <2>2. n + 1 \notin Upto(ids, n)
        BY DEF Upto
    <2> QED
        BY <2>1, <2>2 DEF Upto
<1> QED
    BY <1>2, <1>3, <1>4, <1>5

\* f is the recursive function behind a sum().
IsPySum(f, ids, weight, m) ==
    f = [n \in 0..m |-> IF n = 0 THEN 0
                        ELSE IF n \in ids THEN f[n - 1] + weight[n] ELSE f[n - 1]]

\* f is the recursive function behind a dict.
IsTally(f, ids, key, weight, m) ==
    f = [n \in 0..m |-> IF n = 0 THEN <<>>
                        ELSE IF n \in ids THEN Credit(f[n - 1], key[n], weight[n]) ELSE f[n - 1]]

LEMMA PySumExists ==
    ASSUME NEW ids, NEW weight
    PROVE  \A m \in Nat : \E f : IsPySum(f, ids, weight, m)
<1> DEFINE T == {m \in Nat : \E f : IsPySum(f, ids, weight, m)}
<1>1. 0 \in T
    <2>1. IsPySum([n \in 0..0 |-> 0], ids, weight, 0)
        BY DEF IsPySum
    <2> QED
        BY <2>1
<1>2. ASSUME NEW m \in Nat, m \in T PROVE m + 1 \in T
    <2>1. PICK f : IsPySum(f, ids, weight, m)
        BY <1>2
    <2> DEFINE h == [n \in 0..(m + 1) |->
                        IF n = 0 THEN 0
                        ELSE IF n \in ids THEN f[n - 1] + weight[n] ELSE f[n - 1]]
    <2>2. \A n \in 0..m : h[n] = f[n]
        BY <2>1 DEF IsPySum
    <2>3. \A n \in 0..(m + 1) : h[n] = IF n = 0 THEN 0
                                       ELSE IF n \in ids THEN h[n - 1] + weight[n] ELSE h[n - 1]
        BY <2>2
    <2>4. h = [n \in 0..(m + 1) |-> h[n]]
        OBVIOUS
    <2> HIDE DEF h
    <2>5. IsPySum(h, ids, weight, m + 1)
        BY <2>3, <2>4 DEF IsPySum
    <2> QED
        BY <2>5
<1> HIDE DEF T
<1>3. \A m \in Nat : m \in T
    BY <1>1, <1>2, Induction
<1> QED
    BY <1>3 DEF T

LEMMA TallyExists ==
    ASSUME NEW ids, NEW key, NEW weight
    PROVE  \A m \in Nat : \E f : IsTally(f, ids, key, weight, m)
<1> DEFINE T == {m \in Nat : \E f : IsTally(f, ids, key, weight, m)}
<1>1. 0 \in T
    <2>1. IsTally([n \in 0..0 |-> <<>>], ids, key, weight, 0)
        BY DEF IsTally
    <2> QED
        BY <2>1
<1>2. ASSUME NEW m \in Nat, m \in T PROVE m + 1 \in T
    <2>1. PICK f : IsTally(f, ids, key, weight, m)
        BY <1>2
    <2> DEFINE h == [n \in 0..(m + 1) |->
                        IF n = 0 THEN <<>>
                        ELSE IF n \in ids THEN Credit(f[n - 1], key[n], weight[n]) ELSE f[n - 1]]
    <2>2. \A n \in 0..m : h[n] = f[n]
        BY <2>1 DEF IsTally
    <2>3. \A n \in 0..(m + 1) :
            h[n] = IF n = 0 THEN <<>>
                   ELSE IF n \in ids THEN Credit(h[n - 1], key[n], weight[n]) ELSE h[n - 1]
        <3>1. \A n \in 0..(m + 1) : n # 0 => h[n - 1] = f[n - 1]
            <4>1. \A n \in 0..(m + 1) : n # 0 => n - 1 \in 0..m
                OBVIOUS
            <4> HIDE DEF h
            <4> QED
                BY <2>2, <4>1
        <3>2. \A n \in 0..(m + 1) :
                h[n] = IF n = 0 THEN <<>>
                       ELSE IF n \in ids THEN Credit(f[n - 1], key[n], weight[n]) ELSE f[n - 1]
            OBVIOUS
        <3> HIDE DEF h
        <3> QED
            BY <3>1, <3>2
    <2>4. h = [n \in 0..(m + 1) |-> h[n]]
        OBVIOUS
    <2> HIDE DEF h
    <2>5. IsTally(h, ids, key, weight, m + 1)
        BY <2>3, <2>4 DEF IsTally
    <2> QED
        BY <2>5
<1> HIDE DEF T
<1>3. \A m \in Nat : m \in T
    BY <1>1, <1>2, Induction
<1> QED
    BY <1>3 DEF T

LEMMA PySumLoop ==
    ASSUME NEW ids, NEW weight
    PROVE  \E f : /\ IsPySum(f, ids, weight, MaxRows)
                  /\ PySum(ids, weight) = f[MaxRows]
<1> DEFINE P(f) == f = [n \in 0..MaxRows |->
                            IF n = 0 THEN 0
                            ELSE IF n \in ids THEN f[n - 1] + weight[n] ELSE f[n - 1]]
           loop == CHOOSE f : P(f)
<1>1. \A f : IsPySum(f, ids, weight, MaxRows) <=> P(f)
    BY DEF IsPySum
<1>2. \E f : P(f)
    BY <1>1, PySumExists, StatsAssumption
<1>3. P(loop)
    <2> HIDE DEF P
    <2> QED
        BY <1>2, Zenon
<1>4. PySum(ids, weight) = loop[MaxRows]
    BY Zenon DEF PySum
<1> QED
    BY <1>1, <1>3, <1>4

LEMMA TallyLoop ==
    ASSUME NEW ids, NEW key, NEW weight
    PROVE  \E f : /\ IsTally(f, ids, key, weight, MaxRows)
                  /\ Tally(ids, key, weight) = f[MaxRows]
<1> DEFINE P(f) == f = [n \in 0..MaxRows |->
                            IF n = 0 THEN <<>>
                            ELSE IF n \in ids THEN Credit(f[n - 1], key[n], weight[n])
                            ELSE f[n - 1]]
           loop == CHOOSE f : P(f)
<1>1. \A f : IsTally(f, ids, key, weight, MaxRows) <=> P(f)
    BY DEF IsTally
<1>2. \E f : P(f)
    BY <1>1, TallyExists, StatsAssumption
<1>3. P(loop)
    <2> HIDE DEF P
    <2> QED
        BY <1>2, Zenon
<1>4. Tally(ids, key, weight) = loop[MaxRows]
    BY Zenon DEF Tally
<1> QED
    BY <1>1, <1>3, <1>4

LEMMA OtherWay ==
    ASSUME NEW a \in Int, NEW c \in Int, NEW r \in Int, NEW all, NEW first, NEW second,
           all = a + first, first = c + r, second = a + r
    PROVE  all = c + second
OBVIOUS

\* Whichever term of a sum is taken out.
Splits(g, f, S) == \A s \in SUBSET S : \A x \in s : g[s] = f[x] + g[s \ {x}]

LEMMA SumRemoves ==
    ASSUME NEW S, IsFiniteSet(S), NEW f, \A x \in S : f[x] \in Int, NEW g, IsSum(g, f, S)
    PROVE  Splits(g, f, S)
<1> DEFINE T == {n \in Nat : \A u \in SUBSET S : Cardinality(u) = n =>
                                \A y \in u : g[u] = f[y] + g[u \ {y}]}
<1>1. \A u \in SUBSET S : IsFiniteSet(u) /\ Cardinality(u) \in Nat
    BY FS_Subset, FS_CardinalityType
<1>2. \A u \in SUBSET S : g[u] \in Int
    BY SumsAreIntegers
<1>3. 0 \in T
    BY <1>1, FS_EmptySet
<1>4. ASSUME NEW n \in Nat, n \in T PROVE n + 1 \in T
    <2> SUFFICES ASSUME NEW u \in SUBSET S, Cardinality(u) = n + 1, NEW y \in u
                 PROVE  g[u] = f[y] + g[u \ {y}]
        OBVIOUS
    <2> DEFINE p == Pick(u)
    <2>1. p \in u /\ g[u] = f[p] + g[u \ {p}]
        BY PickIsElement DEF IsSum
    <2> HIDE DEF p
    <2>2. CASE y = p
        BY <2>1, <2>2
    <2>3. CASE y # p
        <3>1. Cardinality(u \ {p}) = n /\ Cardinality(u \ {y}) = n
            <4>1. /\ Cardinality(u \ {p}) = Cardinality(u) - 1
                  /\ Cardinality(u \ {y}) = Cardinality(u) - 1
                BY <1>1, <2>1, FS_RemoveElement
            <4> QED
                BY <4>1
        <3>2. g[u \ {p}] = f[y] + g[(u \ {p}) \ {y}]
            BY <1>4, <2>3, <3>1
        <3>3. g[u \ {y}] = f[p] + g[(u \ {y}) \ {p}]
            BY <1>4, <2>1, <2>3, <3>1
        <3>4. (u \ {p}) \ {y} = (u \ {y}) \ {p}
            OBVIOUS
        <3>5. f[p] \in Int /\ f[y] \in Int /\ g[(u \ {y}) \ {p}] \in Int
            BY <1>2, <2>1
        <3> DEFINE a == f[p]
                   c == f[y]
                   r == g[(u \ {y}) \ {p}]
                   all    == g[u]
                   first  == g[u \ {p}]
                   second == g[u \ {y}]
        <3>6. a \in Int /\ c \in Int /\ r \in Int /\ all = a + first /\ first = c + r /\ second = a + r
            BY <2>1, <3>2, <3>3, <3>4, <3>5
        <3> HIDE DEF a, c, r, all, first, second
        <3>7. all = c + second
            BY <3>6, OtherWay
        <3> QED
            BY <3>7 DEF all, c, second
    <2> QED
        BY <2>2, <2>3
<1> HIDE DEF T
<1>5. \A n \in Nat : n \in T
    BY <1>3, <1>4, Induction
<1> QED
    BY <1>1, <1>5 DEF T, Splits

LEMMA PySumIsSum ==
    ASSUME NEW ids \in SUBSET (1..MaxRows), NEW weight, \A i \in ids : weight[i] \in Int,
           NEW g, IsSum(g, weight, ids)
    PROVE  PySum(ids, weight) = g[ids]
<1>1. PICK f : IsPySum(f, ids, weight, MaxRows) /\ PySum(ids, weight) = f[MaxRows]
    BY PySumLoop
<1>2. MaxRows \in Nat
    BY StatsAssumption
<1>6. Splits(g, weight, ids)
    <2>1. IsFiniteSet(ids)
        BY UptoGrows
    <2> QED
        BY <2>1, SumRemoves
<1> DEFINE T == {m \in Nat : m <= MaxRows => f[m] = g[Upto(ids, m)]}
<1>3. 0 \in T
    BY <1>1, <1>2, UptoGrows DEF IsPySum, IsSum
<1>4. ASSUME NEW m \in Nat, m \in T PROVE m + 1 \in T
    <2> SUFFICES ASSUME m + 1 <= MaxRows PROVE f[m + 1] = g[Upto(ids, m + 1)]
        OBVIOUS
    <2>1. f[m] = g[Upto(ids, m)]
        BY <1>2, <1>4
    <2>2. f[m + 1] = IF m + 1 \in ids THEN f[m] + weight[m + 1] ELSE f[m]
        <3>1. m + 1 \in 0..MaxRows /\ m + 1 # 0 /\ (m + 1) - 1 = m
            BY <1>2
        <3> QED
            BY <1>1, <3>1 DEF IsPySum
    <2>3. CASE m + 1 \in ids
        <3> DEFINE u == Upto(ids, m + 1)
        <3>1. u \in SUBSET ids /\ m + 1 \in u /\ u \ {m + 1} = Upto(ids, m) /\ IsFiniteSet(ids)
            <4>1. /\ Upto(ids, m + 1) \in SUBSET ids /\ IsFiniteSet(ids)
                  /\ Upto(ids, m + 1) = Upto(ids, m) \cup {m + 1} /\ m + 1 \notin Upto(ids, m)
                BY <2>3, UptoGrows
            <4> QED
                BY <4>1
        <3> HIDE DEF u
        <3>2. g[u] = weight[m + 1] + g[u \ {m + 1}]
            BY <1>6, <3>1 DEF Splits
        <3>3. g[Upto(ids, m)] \in Int
            <4>1. Upto(ids, m) \in SUBSET ids
                BY UptoGrows
            <4> QED
                BY <3>1, <4>1, SumsAreIntegers
        <3> QED
            BY <2>1, <2>2, <2>3, <3>1, <3>2, <3>3 DEF u
    <2>4. CASE m + 1 \notin ids
        BY <2>1, <2>2, <2>4, UptoGrows
    <2> QED
        BY <2>3, <2>4
<1> HIDE DEF T
<1>5. MaxRows \in T
    BY <1>2, <1>3, <1>4, Induction
<1> QED
    BY <1>1, <1>2, <1>5, UptoGrows DEF T

LEMMA PySumCounts ==
    ASSUME NEW ids \in SUBSET (1..MaxRows)
    PROVE  PySum(ids, Ones(ids)) = Cardinality(ids)
<1>1. IsFiniteSet(ids)
    BY UptoGrows
<1>2. \A i \in ids : Ones(ids)[i] = 1
    BY DEF Ones
<1>3. PICK g : IsSum(g, Ones(ids), ids)
    BY <1>1, SumExists
<1>4. PySum(ids, Ones(ids)) = g[ids]
    BY <1>2, <1>3, PySumIsSum
<1> QED
    BY <1>1, <1>2, <1>3, <1>4, SumCounts

\* A record more in the dict.
LEMMA OneMoreInGroup ==
    ASSUME NEW ids, IsFiniteSet(ids), NEW i, i \notin ids, NEW key
    PROVE  Credit(Grouped(ids, key), key[i], 1) = Grouped(ids \cup {i}, key)
<1> DEFINE d == Grouped(ids, key)
           e == Grouped(ids \cup {i}, key)
           c == Credit(d, key[i], 1)
           K == {key[j] : j \in ids}
           group(k) == {j \in ids : key[j] = k}
<1>1. DOMAIN d = K /\ \A k \in K : d[k] = Cardinality(group(k))
    BY DEF Grouped
<1>2. {key[j] : j \in ids \cup {i}} = K \cup {key[i]}
    OBVIOUS
<1>3. e = [k \in K \cup {key[i]} |-> Cardinality({j \in ids \cup {i} : key[j] = k})]
    BY <1>2 DEF Grouped
<1>4. c = [k \in K \cup {key[i]} |->
              IF k # key[i] THEN d[k] ELSE IF key[i] \in K THEN d[key[i]] + 1 ELSE 1]
    BY <1>1 DEF Credit
<1>5. ASSUME NEW k \in K \cup {key[i]}
      PROVE  Cardinality({j \in ids \cup {i} : key[j] = k})
                = IF k # key[i] THEN d[k] ELSE IF key[i] \in K THEN d[key[i]] + 1 ELSE 1
    <2>1. CASE k # key[i]
        <3>1. {j \in ids \cup {i} : key[j] = k} = group(k) /\ k \in K
            BY <2>1
        <3> QED
            BY <1>1, <2>1, <3>1
    <2>2. CASE k = key[i]
        <3>1. {j \in ids \cup {i} : key[j] = k} = group(k) \cup {i} /\ i \notin group(k)
            BY <2>2
        <3>2. IsFiniteSet(group(k))
            BY FS_Subset
        <3>3. Cardinality(group(k) \cup {i}) = Cardinality(group(k)) + 1
            BY <3>1, <3>2, FS_AddElement
        <3>4. CASE k \in K
            BY <1>1, <2>2, <3>1, <3>3, <3>4
        <3>5. CASE k \notin K
            <4>1. group(k) = {}
                BY <3>5
            <4> QED
                BY <2>2, <3>1, <3>3, <3>5, <4>1, FS_EmptySet
        <3> QED
            BY <3>4, <3>5
    <2> QED
        BY <2>1, <2>2
<1> HIDE DEF d, e, c, K
<1>6. e = c
    BY <1>3, <1>4, <1>5
<1> QED
    BY <1>6 DEF c, d, e

\* A dict of ones is what GROUP BY counts.
LEMMA TallyCounts ==
    ASSUME NEW ids \in SUBSET (1..MaxRows), NEW key
    PROVE  Tally(ids, key, Ones(ids)) = Grouped(ids, key)
<1>1. PICK f : IsTally(f, ids, key, Ones(ids), MaxRows) /\ Tally(ids, key, Ones(ids)) = f[MaxRows]
    BY TallyLoop
<1>2. MaxRows \in Nat
    BY StatsAssumption
<1> DEFINE T == {m \in Nat : m <= MaxRows => f[m] = Grouped(Upto(ids, m), key)}
<1>3. 0 \in T
    <2>1. f[0] = <<>> /\ Upto(ids, 0) = {}
        BY <1>1, <1>2, UptoGrows DEF IsTally
    <2>2. Grouped({}, key) = <<>>
        BY DEF Grouped
    <2> QED
        BY <2>1, <2>2
<1>4. ASSUME NEW m \in Nat, m \in T PROVE m + 1 \in T
    <2> SUFFICES ASSUME m + 1 <= MaxRows PROVE f[m + 1] = Grouped(Upto(ids, m + 1), key)
        OBVIOUS
    <2>1. f[m] = Grouped(Upto(ids, m), key)
        BY <1>2, <1>4
    <2>2. f[m + 1] = IF m + 1 \in ids THEN Credit(f[m], key[m + 1], Ones(ids)[m + 1]) ELSE f[m]
        <3>1. m + 1 \in 0..MaxRows /\ m + 1 # 0 /\ (m + 1) - 1 = m
            BY <1>2
        <3> QED
            BY <1>1, <3>1 DEF IsTally
    <2>3. CASE m + 1 \in ids
        <3>1. /\ Upto(ids, m + 1) = Upto(ids, m) \cup {m + 1} /\ m + 1 \notin Upto(ids, m)
              /\ IsFiniteSet(Upto(ids, m))
            BY <2>3, UptoGrows
        <3>2. Ones(ids)[m + 1] = 1
            BY <2>3 DEF Ones
        <3> QED
            BY <2>1, <2>2, <2>3, <3>1, <3>2, OneMoreInGroup
    <2>4. CASE m + 1 \notin ids
        BY <2>1, <2>2, <2>4, UptoGrows
    <2> QED
        BY <2>3, <2>4
<1> HIDE DEF T
<1>5. MaxRows \in T
    BY <1>2, <1>3, <1>4, Induction
<1> QED
    BY <1>1, <1>2, <1>5, UptoGrows DEF T

\* A dict of integers.
LEMMA TallyIsInteger ==
    ASSUME NEW ids \in SUBSET (1..MaxRows), NEW key, NEW weight, \A i \in ids : weight[i] \in Int
    PROVE  Tally(ids, key, weight) \in [{key[i] : i \in ids} -> Int]
<1>1. PICK f : IsTally(f, ids, key, weight, MaxRows) /\ Tally(ids, key, weight) = f[MaxRows]
    BY TallyLoop
<1>2. MaxRows \in Nat
    BY StatsAssumption
<1> DEFINE K(m) == {key[i] : i \in Upto(ids, m)}
           T == {m \in Nat : m <= MaxRows => f[m] \in [K(m) -> Int]}
<1>3. 0 \in T
    <2>1. f[0] = <<>> /\ Upto(ids, 0) = {}
        BY <1>1, <1>2, UptoGrows DEF IsTally
    <2>2. <<>> \in [{} -> Int]
        OBVIOUS
    <2>3. K(0) = {}
        BY <2>1
    <2> QED
        BY <2>1, <2>2, <2>3
<1>4. ASSUME NEW m \in Nat, m \in T PROVE m + 1 \in T
    <2> SUFFICES ASSUME m + 1 <= MaxRows PROVE f[m + 1] \in [K(m + 1) -> Int]
        OBVIOUS
    <2>1. f[m] \in [K(m) -> Int]
        BY <1>2, <1>4
    <2>2. f[m + 1] = IF m + 1 \in ids THEN Credit(f[m], key[m + 1], weight[m + 1]) ELSE f[m]
        <3>1. m + 1 \in 0..MaxRows /\ m + 1 # 0 /\ (m + 1) - 1 = m
            BY <1>2
        <3> QED
            BY <1>1, <3>1 DEF IsTally
    <2>3. CASE m + 1 \in ids
        <3>1. K(m + 1) = K(m) \cup {key[m + 1]}
            <4>1. Upto(ids, m + 1) = Upto(ids, m) \cup {m + 1}
                BY <2>3, UptoGrows
            <4> QED
                BY <4>1
        <3>2. weight[m + 1] \in Int
            BY <2>3
        <3> HIDE DEF K
        <3> QED
            BY <2>1, <2>2, <2>3, <3>1, <3>2 DEF Credit
    <2>4. CASE m + 1 \notin ids
        <3>1. K(m + 1) = K(m)
            BY <2>4, UptoGrows
        <3> HIDE DEF K
        <3> QED
            BY <2>1, <2>2, <2>4, <3>1
    <2> QED
        BY <2>3, <2>4
<1> HIDE DEF T
<1>5. MaxRows \in T
    BY <1>2, <1>3, <1>4, Induction
<1>6. f[MaxRows] \in [K(MaxRows) -> Int]
    BY <1>2, <1>5 DEF T
<1>7. Upto(ids, MaxRows) = ids
    BY UptoGrows
<1> QED
    BY <1>1, <1>6, <1>7

-----------------------------------------------------------------------------
(***************************************************************************)
(* SQL's aggregates and the mock's.                                        *)
(***************************************************************************)
LEMMA BucketsAgree == \A day \in Nat : DateTrunc(day) = BucketStart(day) /\ BucketStart(day) \in Int
BY StatsAssumption DEF DateTrunc, BucketStart

LEMMA VisibleIds ==
    ASSUME NEW r \in Tables, NEW all
    PROVE  /\ Visible(r, all) \in SUBSET (1..MaxRows)
           /\ \A i \in Visible(r, all) :
                /\ r[i].level # Null => r[i].level \in Int
                /\ r[i].created \in Nat
<1>1. /\ r \in Seq(Row) /\ Len(r) <= MaxRows /\ Len(r) \in Nat /\ DOMAIN r = 1..Len(r)
      /\ MaxRows \in Nat /\ MaxDay \in Nat
    BY StatsAssumption DEF Tables
<1>2. Visible(r, all) \in SUBSET (1..Len(r))
    BY <1>1 DEF Visible
<1>3. \A i \in 1..Len(r) : r[i] \in Row
    BY <1>1
<1>4. \A i \in 1..Len(r) : r[i].level \in Levels \cup {Null} /\ r[i].created \in 0..MaxDay
    BY <1>3 DEF Row
<1>5. Visible(r, all) \in SUBSET (1..MaxRows)
    BY <1>1, <1>2
<1>6. \A i \in 1..Len(r) : r[i].level # Null => r[i].level \in Int
    <2> SUFFICES ASSUME NEW i \in 1..Len(r), r[i].level # Null PROVE r[i].level \in Int
        OBVIOUS
    <2>1. r[i].level \in Levels
        BY <1>4
    <2>2. r[i].level \in Nat
        BY <2>1, StatsAssumption
    <2> QED
        BY <2>2
<1>7. \A i \in 1..Len(r) : r[i].created \in Nat
    BY <1>1, <1>4
<1> QED
    BY <1>2, <1>5, <1>6, <1>7

LevelTotal(r, S) == MapThenSumSet(LAMBDA i : r[i].level, S)

LEMMA LevelSum ==
    ASSUME NEW S, IsFiniteSet(S), NEW r
    PROVE  \E g : /\ IsSum(g, [i \in S |-> r[i].level], S)
                  /\ LevelTotal(r, S) = g[S]
<1> DEFINE f == [i \in S |-> r[i].level]
           P(g) == g = [s \in SUBSET S |-> IF s = {} THEN 0
                                           ELSE r[Pick(s)].level + g[s \ {Pick(s)}]]
           total == CHOOSE g : P(g)
<1>1. \A s \in SUBSET S : s # {} => f[Pick(s)] = r[Pick(s)].level
    BY PickIsElement
<1>2. \A g : IsSum(g, f, S) <=> P(g)
    <2> HIDE DEF f
    <2> QED
        BY <1>1 DEF IsSum
<1>3. \E g : P(g)
    BY <1>2, SumExists
<1>4. P(total)
    <2> HIDE DEF P
    <2> QED
        BY <1>3, Zenon
<1>5. LevelTotal(r, S) = total[S]
    BY Zenon DEF LevelTotal, MapThenSumSet, MapThenFoldSet, Pick
<1> QED
    BY <1>2, <1>4, <1>5

\* The loops over the values that are not None skip what SQL skips as NULL.
LEMMA NumericAgrees ==
    ASSUME NEW r \in Tables, NEW all
    PROVE  MemoryNumeric(r, Visible(r, all)) = Numeric(r, Visible(r, all))
<1> DEFINE with   == WithLevel(r, Visible(r, all))
           weight == [i \in with |-> r[i].level]
           levels == {r[i].level : i \in with}
<1>1. with \in SUBSET (1..MaxRows) /\ \A i \in with : weight[i] \in Int
    BY VisibleIds DEF WithLevel
<1>2. PySum(with, Ones(with)) = Cardinality(with)
    BY <1>1, PySumCounts
<1>3. PySum(with, weight) = LevelTotal(r, with)
    <2>1. IsFiniteSet(with)
        BY <1>1, UptoGrows
    <2>2. PICK g : IsSum(g, weight, with) /\ LevelTotal(r, with) = g[with]
        BY <2>1, LevelSum
    <2> HIDE DEF with, weight
    <2> QED
        BY <1>1, <2>2, PySumIsSum
<1>4. MemoryNumeric(r, Visible(r, all)) =
         [count   |-> PySum(with, Ones(with)),
          minimum |-> IF with # {} THEN Min(levels) ELSE Null,
          maximum |-> IF with # {} THEN Max(levels) ELSE Null,
          total   |-> IF with # {} THEN PySum(with, weight) ELSE Null]
    BY Zenon DEF MemoryNumeric
<1>5. Numeric(r, Visible(r, all)) =
         [count   |-> Cardinality(with),
          minimum |-> IF with = {} THEN Null ELSE Min(levels),
          maximum |-> IF with = {} THEN Null ELSE Max(levels),
          total   |-> IF with = {} THEN Null ELSE LevelTotal(r, with)]
    BY Zenon DEF Numeric, LevelTotal
<1> HIDE DEF with, weight, levels
<1> QED
    BY <1>2, <1>3, <1>4, <1>5

\* The answer of the five statements run at once.
SqlStats(r, all) ==
    [total       |-> Cardinality(Visible(r, all)),
     numeric     |-> Numeric(r, Visible(r, all)),
     categorical |-> Categorical(r, Visible(r, all)),
     series      |-> CreatedSeries(r, Visible(r, all)),
     lifecycle   |-> Lifecycle(r, Visible(r, all))]

LEMMA AggregatesAgree == ASSUME NEW r \in Tables, NEW all PROVE MemoryStats(r, all) = SqlStats(r, all)
<1> DEFINE where    == Visible(r, all)
           start    == [i \in where |-> BucketStart(r[i].created)]
           trunc    == [i \in where |-> DateTrunc(r[i].created)]
           locked   == [i \in where |-> r[i].locked]
           withFlag == {i \in where : r[i].locked}
           gone     == {i \in where : r[i].archived}
<1>1. /\ where \in SUBSET (1..MaxRows)
      /\ withFlag \in SUBSET (1..MaxRows) /\ gone \in SUBSET (1..MaxRows)
    BY VisibleIds
<1>2. start = trunc
    BY VisibleIds, BucketsAgree
<1>3. MemoryNumeric(r, where) = Numeric(r, where)
    BY NumericAgrees
<1>4. MemoryStats(r, all) =
        [total       |-> PySum(where, Ones(where)),
         numeric     |-> MemoryNumeric(r, where),
         categorical |-> Tally(where, locked, Ones(where)),
         series      |-> OldestFirst(Tally(where, start, Ones(where))),
         lifecycle   |-> [archived |-> PySum(gone, Ones(gone)),
                          locked   |-> PySum(withFlag, Ones(withFlag))]]
    BY Zenon DEF MemoryStats
<1>5. SqlStats(r, all) =
        [total       |-> Cardinality(where),
         numeric     |-> Numeric(r, where),
         categorical |-> Grouped(where, locked),
         series      |-> OldestFirst(Grouped(where, trunc)),
         lifecycle   |-> [archived |-> Cardinality(gone), locked |-> Cardinality(withFlag)]]
    BY Zenon DEF SqlStats, Categorical, CreatedSeries, Lifecycle
<1> HIDE DEF where, start, trunc, locked, withFlag, gone
<1>6. /\ PySum(where, Ones(where)) = Cardinality(where)
      /\ PySum(gone, Ones(gone)) = Cardinality(gone)
      /\ PySum(withFlag, Ones(withFlag)) = Cardinality(withFlag)
    BY <1>1, PySumCounts
<1>7. /\ Tally(where, locked, Ones(where)) = Grouped(where, locked)
      /\ Tally(where, start, Ones(where)) = Grouped(where, trunc)
    BY <1>1, <1>2, TallyCounts
<1> QED
    BY <1>3, <1>4, <1>5, <1>6, <1>7, Zenon

LEMMA SqlParts ==
    ASSUME NEW r, NEW all
    PROVE  /\ SqlStats(r, all)["total"] = Cardinality(Visible(r, all))
           /\ SqlStats(r, all)["numeric"] = Numeric(r, Visible(r, all))
           /\ SqlStats(r, all)["categorical"] = Categorical(r, Visible(r, all))
           /\ SqlStats(r, all)["series"] = CreatedSeries(r, Visible(r, all))
           /\ SqlStats(r, all)["lifecycle"] = Lifecycle(r, Visible(r, all))
BY DEF SqlStats

-----------------------------------------------------------------------------
(***************************************************************************)
(* The statements of a stats request between the commits of others.        *)
(***************************************************************************)
Typed == rows \in Tables /\ today \in 0..MaxDay

Fields == {"total", "numeric", "categorical", "series", "lifecycle"}

LEMMA PartsInOrder ==
    /\ DOMAIN Parts = 1..5 /\ \A k \in 1..5 : Parts[k] \in Fields
    /\ Parts[1] = "total" /\ Parts[2] = "numeric" /\ Parts[3] = "categorical"
    /\ Parts[4] = "series" /\ Parts[5] = "lifecycle"
    /\ \A j, k \in 1..5 : j # k => Parts[j] # Parts[k]
<1>1. /\ Len(Parts) = 5 /\ DOMAIN Parts = 1..5
      /\ Parts[1] = "total" /\ Parts[2] = "numeric" /\ Parts[3] = "categorical"
      /\ Parts[4] = "series" /\ Parts[5] = "lifecycle"
    BY DEF Parts
<1>2. \A k \in 1..5 : k = 1 \/ k = 2 \/ k = 3 \/ k = 4 \/ k = 5
    OBVIOUS
<1>3. \A k \in 1..5 : Parts[k] \in Fields
    BY <1>1, <1>2 DEF Fields
<1>4. \A j, k \in 1..5 : j # k => Parts[j] # Parts[k]
    BY <1>1, <1>2
<1> QED
    BY <1>1, <1>3, <1>4

\* The number of statements of the request that have run.
Done ==
    CASE request = "numeric"     -> 1
      [] request = "categorical" -> 2
      [] request = "series"      -> 3
      [] request = "lifecycle"   -> 4
      [] request = "answered"    -> 5
      [] OTHER                   -> 0

\* The first n parts of the answer are those of the tables at these moments.
TakenAt(moment, answer, tables, all, n) ==
    /\ moment \in [1..5 -> DOMAIN tables]
    /\ \A j, k \in 1..5 : j <= k => moment[j] <= moment[k]
    /\ \A k \in 1..n : answer[Parts[k]] = MemoryStats(tables[moment[k]], all)[Parts[k]]

SeenInv ==
    /\ stats = [field \in Fields |-> stats[field]]
    /\ request # "idle" =>
        /\ seen \in Seq(Tables) /\ Len(seen) \in Nat /\ Len(seen) >= 1
        /\ DOMAIN seen = 1..Len(seen)
        /\ seen[Len(seen)] = rows
        /\ \E moment : TakenAt(moment, stats, seen, whole, Done)

LEMMA CommitKeeps ==
    ASSUME SeenInv, NEW table \in Tables, Commit(table)
    PROVE  SeenInv'
<1>1. request' = request /\ whole' = whole /\ stats' = stats /\ rows' = table
    BY DEF Commit
<1>2. Done' = Done
    BY <1>1 DEF Done
<1>3. CASE request = "idle"
    BY <1>1, <1>3 DEF SeenInv
<1>4. CASE request # "idle"
    <2>1. seen' = Append(seen, table)
        BY <1>4 DEF Commit
    <2>2. seen \in Seq(Tables) /\ Len(seen) \in Nat /\ Len(seen) >= 1 /\ DOMAIN seen = 1..Len(seen)
        BY <1>4 DEF SeenInv
    <2>3. /\ seen' \in Seq(Tables) /\ Len(seen') = Len(seen) + 1 /\ Len(seen') \in Nat
          /\ DOMAIN seen' = 1..Len(seen') /\ seen'[Len(seen')] = table
          /\ \A m \in 1..Len(seen) : seen'[m] = seen[m]
        <3> HIDE DEF Tables
        <3> QED
            BY <2>1, <2>2
    <2>4. PICK moment : TakenAt(moment, stats, seen, whole, Done)
        BY <1>4 DEF SeenInv
    <2>5. Done \in 0..5
        BY DEF Done
    <2>6. moment \in [1..5 -> 1..Len(seen')] /\ \A k \in 1..5 : seen'[moment[k]] = seen[moment[k]]
        <3>1. moment \in [1..5 -> 1..Len(seen)]
            BY <2>2, <2>4 DEF TakenAt
        <3>2. \A m \in 1..Len(seen) : m \in 1..Len(seen')
            BY <2>2, <2>3
        <3> QED
            BY <2>3, <3>1, <3>2
    <2>7. TakenAt(moment, stats, seen', whole, Done)
        <3>1. \A j, k \in 1..5 : j <= k => moment[j] <= moment[k]
            BY <2>4 DEF TakenAt
        <3>2. \A k \in 1..Done : stats[Parts[k]] = MemoryStats(seen'[moment[k]], whole)[Parts[k]]
            <4> SUFFICES ASSUME NEW k \in 1..Done
                         PROVE  stats[Parts[k]] = MemoryStats(seen'[moment[k]], whole)[Parts[k]]
                OBVIOUS
            <4>1. k \in 1..5
                BY <2>5
            <4>2. stats[Parts[k]] = MemoryStats(seen[moment[k]], whole)[Parts[k]]
                BY <2>4 DEF TakenAt
            <4>3. seen'[moment[k]] = seen[moment[k]]
                BY <2>6, <4>1
            <4> QED
                BY <4>2, <4>3
        <3> QED
            BY <2>3, <2>6, <3>1, <3>2 DEF TakenAt
    <2>8. \E m : TakenAt(m, stats', seen', whole', Done')
        BY <1>1, <1>2, <2>7
    <2>9. stats' = [field \in Fields |-> stats'[field]]
        BY <1>1 DEF SeenInv
    <2>10. Len(seen') >= 1
        BY <2>2, <2>3
    <2> HIDE DEF Tables
    <2> QED
        BY <1>1, <2>3, <2>8, <2>9, <2>10 DEF SeenInv
<1> QED
    BY <1>3, <1>4

LEMMA BeginKeeps == ASSUME SeenInv, Typed, NEW all \in BOOLEAN, Begin(all) PROVE SeenInv'
<1>1. request' = "total" /\ seen' = <<rows>> /\ stats' = stats /\ rows' = rows
    BY DEF Begin
<1>2. Done' = 0
    BY <1>1 DEF Done
<1> DEFINE moment == [k \in 1..5 |-> 1]
<1>3. /\ seen' \in Seq(Tables) /\ Len(seen') = 1 /\ DOMAIN seen' = 1..1 /\ seen'[1] = rows
    <2> HIDE DEF Tables
    <2> QED
        BY <1>1 DEF Typed
<1>4. TakenAt(moment, stats', seen', whole', 0)
    BY <1>3 DEF TakenAt
<1>5. \E m : TakenAt(m, stats', seen', whole', Done')
    <2> HIDE DEF moment
    <2> QED
        BY <1>2, <1>4
<1> QED
    BY <1>1, <1>3, <1>5 DEF SeenInv

\* A statement answers of the latest table.
LEMMA StatementKeeps ==
    ASSUME SeenInv, Typed, NEW n \in 1..5, NEW value, NEW next, Statement(Parts[n], value, next),
           value = SqlStats(rows, whole)[Parts[n]], Done = n - 1, Done' = n, request # "idle"
    PROVE  SeenInv'
<1>1. /\ stats' = [stats EXCEPT ![Parts[n]] = value]
      /\ rows' = rows /\ whole' = whole /\ seen' = seen
    BY DEF Statement
<1>2. stats = [f \in Fields |-> stats[f]]
    BY DEF SeenInv
<1>3. stats'[Parts[n]] = value /\ \A f \in Fields \ {Parts[n]} : stats'[f] = stats[f]
    BY <1>1, <1>2, PartsInOrder
<1>4. stats' = [f \in Fields |-> stats'[f]]
    BY <1>1, <1>2
<1>5. /\ seen \in Seq(Tables) /\ Len(seen) \in Nat /\ Len(seen) >= 1
      /\ DOMAIN seen = 1..Len(seen) /\ seen[Len(seen)] = rows
    BY DEF SeenInv
<1>6. PICK moment : TakenAt(moment, stats, seen, whole, n - 1)
    BY DEF SeenInv
<1> DEFINE later == [k \in 1..5 |-> IF k < n THEN moment[k] ELSE Len(seen)]
<1>7. later \in [1..5 -> DOMAIN seen] /\ \A j, k \in 1..5 : j <= k => later[j] <= later[k]
    <2>1. moment \in [1..5 -> 1..Len(seen)] /\ \A j, k \in 1..5 : j <= k => moment[j] <= moment[k]
        BY <1>5, <1>6 DEF TakenAt
    <2> QED
        BY <1>5, <2>1
<1>8. ASSUME NEW k \in 1..n
      PROVE  stats'[Parts[k]] = MemoryStats(seen[later[k]], whole)[Parts[k]]
    <2>1. k \in 1..5
        OBVIOUS
    <2>2. CASE k = n
        <3>1. later[k] = Len(seen)
            BY <2>1, <2>2
        <3>2. MemoryStats(rows, whole) = SqlStats(rows, whole)
            BY AggregatesAgree DEF Typed
        <3> HIDE DEF later
        <3> QED
            BY <1>3, <1>5, <2>2, <3>1, <3>2
    <2>3. CASE k # n
        <3>1. later[k] = moment[k] /\ k \in 1..(n - 1)
            BY <2>1, <2>3
        <3>2. stats[Parts[k]] = MemoryStats(seen[moment[k]], whole)[Parts[k]]
            BY <1>6, <3>1 DEF TakenAt
        <3>3. Parts[k] \in Fields \ {Parts[n]}
            BY <2>1, <2>3, PartsInOrder
        <3> HIDE DEF later
        <3> QED
            BY <1>3, <3>1, <3>2, <3>3
    <2> QED
        BY <2>2, <2>3
<1> HIDE DEF later
<1>9. TakenAt(later, stats', seen', whole', Done')
    BY <1>1, <1>7, <1>8 DEF TakenAt
<1> QED
    BY <1>1, <1>4, <1>5, <1>9 DEF SeenInv

\* What the other requests commit.
LEMMA InsertedTable ==
    ASSUME Typed, Len(rows) < MaxRows, NEW level \in Levels \cup {Null}, NEW locked \in Locks
    PROVE  Append(rows, [level |-> level, locked |-> locked,
                         archived |-> FALSE, created |-> today]) \in Tables
<1> DEFINE row == [level |-> level, locked |-> locked, archived |-> FALSE, created |-> today]
<1>1. row \in Row
    BY DEF Row, Typed
<1>2. rows \in Seq(Row) /\ Len(rows) \in Nat /\ MaxRows \in Nat
    BY StatsAssumption DEF Typed, Tables
<1> HIDE DEF row
<1>3. Append(rows, row) \in Seq(Row) /\ Len(Append(rows, row)) = Len(rows) + 1
    BY <1>1, <1>2
<1> QED
    BY <1>2, <1>3 DEF Tables, row

LEMMA ArchivedTable ==
    ASSUME Typed, NEW i \in DOMAIN rows, NEW archived \in BOOLEAN
    PROVE  [rows EXCEPT ![i].archived = archived] \in Tables
<1> DEFINE table == [rows EXCEPT ![i].archived = archived]
<1>1. rows \in Seq(Row) /\ Len(rows) <= MaxRows
    BY DEF Typed, Tables
<1>2. [rows[i] EXCEPT !.archived = archived] \in Row
    <2>1. rows[i] \in Row
        BY <1>1
    <2> QED
        BY <2>1 DEF Row
<1>3. table \in Seq(Row) /\ Len(table) = Len(rows)
    BY <1>1, <1>2
<1> QED
    BY <1>1, <1>3 DEF Tables

LEMMA TypedNext == ASSUME Typed, [StatsNext]_statsVars PROVE Typed'
<1>1. ASSUME NEW table \in Tables, Commit(table) PROVE Typed'
    BY <1>1 DEF Commit, Typed
<1>2. ASSUME NEW level \in Levels \cup {Null}, NEW locked \in Locks, Insert(level, locked)
      PROVE  Typed'
    BY <1>1, <1>2, InsertedTable DEF Insert
<1>3. ASSUME NEW i \in DOMAIN rows, NEW archived \in BOOLEAN, SetArchived(i, archived) PROVE Typed'
    BY <1>1, <1>3, ArchivedTable DEF SetArchived
<1>4. CASE Tick
    <2>1. MaxDay \in Nat
        BY StatsAssumption
    <2> QED
        BY <1>4, <2>1 DEF Tick, Typed
<1>5. ASSUME UNCHANGED <<today, rows>> PROVE Typed'
    BY <1>5 DEF Typed
<1> QED
    BY <1>2, <1>3, <1>4, <1>5
    DEF StatsNext, Begin, Count, NumericStats, CategoricalStats, TimeSeries, LifecycleStatistics,
        Statement, Answered, Predict, statsVars

LEMMA SeenInvNext == ASSUME SeenInv, Typed, [StatsNext]_statsVars PROVE SeenInv'
<1>1. ASSUME NEW level \in Levels \cup {Null}, NEW locked \in Locks, Insert(level, locked)
      PROVE  SeenInv'
    BY <1>1, InsertedTable, CommitKeeps DEF Insert
<1>2. ASSUME NEW i \in DOMAIN rows, NEW archived \in BOOLEAN, SetArchived(i, archived)
      PROVE  SeenInv'
    BY <1>2, ArchivedTable, CommitKeeps DEF SetArchived
<1>3. ASSUME UNCHANGED <<rows, request, whole, stats, seen>> PROVE SeenInv'
    <2>1. Done' = Done
        BY <1>3 DEF Done
    <2> QED
        BY <1>3, <2>1 DEF SeenInv
<1>4. CASE Tick
    BY <1>3, <1>4 DEF Tick
<1>5. ASSUME NEW all \in BOOLEAN, Begin(all) PROVE SeenInv'
    BY <1>5, BeginKeeps
<1>6. CASE Count
    <2>1. Statement(Parts[1], SqlStats(rows, whole)[Parts[1]], "numeric")
        BY <1>6, PartsInOrder, SqlParts DEF Count, Where
    <2>2. Done = 1 - 1 /\ Done' = 1 /\ request # "idle"
        BY <1>6 DEF Count, Statement, Done
    <2> QED
        BY <2>1, <2>2, StatementKeeps
<1>7. CASE NumericStats
    <2>1. Statement(Parts[2], SqlStats(rows, whole)[Parts[2]], "categorical")
        BY <1>7, PartsInOrder, SqlParts DEF NumericStats, Where
    <2>2. Done = 2 - 1 /\ Done' = 2 /\ request # "idle"
        BY <1>7 DEF NumericStats, Statement, Done
    <2> QED
        BY <2>1, <2>2, StatementKeeps
<1>8. CASE CategoricalStats
    <2>1. Statement(Parts[3], SqlStats(rows, whole)[Parts[3]], "series")
        BY <1>8, PartsInOrder, SqlParts DEF CategoricalStats, Where
    <2>2. Done = 3 - 1 /\ Done' = 3 /\ request # "idle"
        BY <1>8 DEF CategoricalStats, Statement, Done
    <2> QED
        BY <2>1, <2>2, StatementKeeps
<1>9. CASE TimeSeries
    <2>1. Statement(Parts[4], SqlStats(rows, whole)[Parts[4]], "lifecycle")
        BY <1>9, PartsInOrder, SqlParts DEF TimeSeries, Where
    <2>2. Done = 4 - 1 /\ Done' = 4 /\ request # "idle"
        BY <1>9 DEF TimeSeries, Statement, Done
    <2> QED
        BY <2>1, <2>2, StatementKeeps
<1>10. CASE LifecycleStatistics
    <2>1. Statement(Parts[5], SqlStats(rows, whole)[Parts[5]], "answered")
        BY <1>10, PartsInOrder, SqlParts DEF LifecycleStatistics, Where
    <2>2. Done = 5 - 1 /\ Done' = 5 /\ request # "idle"
        BY <1>10 DEF LifecycleStatistics, Statement, Done
    <2> QED
        BY <2>1, <2>2, StatementKeeps
<1>11. CASE Answered
    <2>1. request' = "idle" /\ stats' = Blank
        BY <1>11 DEF Answered
    <2>2. stats' = [field \in Fields |-> stats'[field]]
        BY <2>1 DEF Blank, Fields
    <2> QED
        BY <2>1, <2>2 DEF SeenInv
<1>12. CASE Predict(CountHistory) \/ Predict(FieldHistory)
    BY <1>3, <1>12 DEF Predict
<1>13. CASE UNCHANGED statsVars
    BY <1>3, <1>13 DEF statsVars
<1> QED
    BY <1>1, <1>2, <1>4, <1>5, <1>6, <1>7, <1>8, <1>9, <1>10, <1>11, <1>12, <1>13 DEF StatsNext

\* Whatever is committed between the five statements of a stats request, each
\* part of the answer is what the mock's loops make of the table as it was at
\* some moment of the request, and the parts are of moments in their order,
\* for any number of rows, levels, days and commits
\* (SQLAlchemyRepository.stats, InMemoryRepository.stats).
THEOREM StatsAgree == StatsSpec => []StatsAreOfTheirTime
<1>1. StatsInit => SeenInv /\ Typed
    <2> SUFFICES ASSUME StatsInit PROVE SeenInv /\ Typed
        OBVIOUS
    <2>1. stats = [field \in Fields |-> stats[field]] /\ request = "idle"
        BY DEF StatsInit, Blank, Fields
    <2>2. rows \in Tables /\ today \in 0..MaxDay
        BY StatsAssumption DEF StatsInit, Tables
    <2> QED
        BY <2>1, <2>2 DEF SeenInv, Typed
<1>2. SeenInv /\ Typed /\ [StatsNext]_statsVars => SeenInv' /\ Typed'
    BY SeenInvNext, TypedNext
<1>3. SeenInv => StatsAreOfTheirTime
    <2> SUFFICES ASSUME SeenInv, request = "answered"
                 PROVE  LET mock == [m \in DOMAIN seen |-> MemoryStats(seen[m], whole)] IN
                        \E moment \in [DOMAIN Parts -> DOMAIN seen] :
                            /\ \A j, k \in DOMAIN Parts : j <= k => moment[j] <= moment[k]
                            /\ \A k \in DOMAIN Parts : stats[Parts[k]] = mock[moment[k]][Parts[k]]
        BY DEF StatsAreOfTheirTime
    <2>1. Done = 5 /\ request # "idle"
        BY DEF Done
    <2>2. PICK moment : TakenAt(moment, stats, seen, whole, 5)
        BY <2>1 DEF SeenInv
    <2>3. DOMAIN Parts = 1..5
        BY PartsInOrder
    <2> QED
        BY <2>2, <2>3 DEF TakenAt
<1> QED
    BY <1>1, <1>2, <1>3, PTL DEF StatsSpec

-----------------------------------------------------------------------------
(***************************************************************************)
(* What a predict request fits a line to.                                  *)
(***************************************************************************)
\* A series a line can be fitted to.
Points(history) == Len(history) \in Nat /\ \A k \in 1..Len(history) : history[k].value \in Int

LEMMA NthExists ==
    ASSUME NEW K \in SUBSET Int, IsFiniteSet(K)
    PROVE  \A k \in 1..Cardinality(K) : \E s \in K : Cardinality({t \in K : t < s}) = k - 1
<1> DEFINE below(s) == {t \in K : t < s}
           n        == Cardinality(K)
           rank     == [s \in K |-> Cardinality(below(s)) + 1]
<1>1. n \in Nat /\ \A s \in K : IsFiniteSet(below(s)) /\ Cardinality(below(s)) \in Nat
    BY FS_Subset, FS_CardinalityType
<1>2. ASSUME NEW s \in K PROVE Cardinality(below(s)) <= n - 1
    <2>1. IsFiniteSet(K \ {s}) /\ Cardinality(K \ {s}) = n - 1
        BY FS_RemoveElement
    <2>2. below(s) \in SUBSET (K \ {s})
        OBVIOUS
    <2> HIDE DEF below
    <2> QED
        BY <2>1, <2>2, FS_Subset
<1>3. ASSUME NEW s \in K, NEW t \in K, s < t PROVE Cardinality(below(s)) < Cardinality(below(t))
    <2>1. s \in below(t) /\ below(s) \in SUBSET (below(t) \ {s})
        <3>1. \A u \in K : u < s => u < t /\ u # s
            BY <1>3
        <3> QED
            BY <1>3, <3>1
    <2>2. IsFiniteSet(below(t) \ {s}) /\ Cardinality(below(t) \ {s}) = Cardinality(below(t)) - 1
        BY <1>1, <2>1, FS_RemoveElement
    <2>3. Cardinality(below(s)) <= Cardinality(below(t)) - 1
        <3> HIDE DEF below
        <3> QED
            BY <2>1, <2>2, FS_Subset
    <2> HIDE DEF below
    <2> QED
        BY <1>1, <2>3
<1> HIDE DEF below
<1>4. rank \in Injection(K, 1..n)
    <2>1. rank \in [K -> 1..n]
        BY <1>1, <1>2
    <2>2. \A s, t \in K : rank[s] = rank[t] => s = t
        <3> SUFFICES ASSUME NEW s \in K, NEW t \in K, s # t PROVE rank[s] # rank[t]
            OBVIOUS
        <3>1. s < t \/ t < s
            OBVIOUS
        <3> QED
            BY <1>1, <1>3, <3>1
    <2> HIDE DEF rank
    <2> QED
        BY <2>1, <2>2 DEF Injection, IsInjective
<1>5. IsFiniteSet(1..n) /\ Cardinality(1..n) = n
    BY <1>1, FS_Interval
<1>6. rank \in Surjection(K, 1..n)
    <2> HIDE DEF rank
    <2> QED
        BY <1>4, <1>5, FS_Injection
<1>7. \A k \in 1..n : \E s \in K : rank[s] = k
    <2> HIDE DEF rank
    <2> QED
        BY <1>6 DEF Surjection
<1>8. \A k \in 1..n : \E s \in K : Cardinality(below(s)) = k - 1
    BY <1>1, <1>7
<1> QED
    BY <1>8 DEF below

LEMMA OldestFirstHasPoints ==
    ASSUME NEW K \in SUBSET Int, IsFiniteSet(K), NEW d \in [K -> Int]
    PROVE  Points(OldestFirst(d))
<1> DEFINE At(k, s) == s \in K /\ Cardinality({t \in K : t < s}) = k - 1
           nth(k)   == CHOOSE s \in K : Cardinality({t \in K : t < s}) = k - 1
<1>1. Cardinality(K) \in Nat
    BY FS_CardinalityType
<1>2. ASSUME NEW k \in 1..Cardinality(K) PROVE d[nth(k)] \in Int
    <2>1. \E s : At(k, s)
        BY NthExists
    <2>2. At(k, CHOOSE s : At(k, s))
        <3> HIDE DEF At
        <3> QED
            BY <2>1, Zenon
    <2>3. nth(k) = CHOOSE s : At(k, s)
        BY Zenon
    <2>4. nth(k) \in K
        <3>1. At(k, nth(k))
            <4> HIDE DEF At, nth
            <4> QED
                BY <2>2, <2>3
        <3> HIDE DEF nth
        <3> QED
            BY <3>1
    <2> HIDE DEF nth
    <2> QED
        BY <2>4
<1>3. DOMAIN d = K
    OBVIOUS
<1>4. OldestFirst(d) = [k \in 1..Cardinality(K) |-> [start |-> nth(k), value |-> d[nth(k)]]]
    BY <1>3, Zenon DEF OldestFirst
<1> HIDE DEF nth
<1>5. /\ Len(OldestFirst(d)) = Cardinality(K)
      /\ \A k \in 1..Cardinality(K) : OldestFirst(d)[k].value = d[nth(k)]
    BY <1>1, <1>4
<1> QED
    BY <1>1, <1>2, <1>5 DEF Points

LEMMA TallyHasPoints ==
    ASSUME NEW ids \in SUBSET (1..MaxRows), NEW key, \A i \in ids : key[i] \in Int,
           NEW weight, \A i \in ids : weight[i] \in Int
    PROVE  Points(OldestFirst(Tally(ids, key, weight)))
<1> DEFINE K  == {key[i] : i \in ids}
           of == [i \in ids |-> key[i]]
<1>1. K \in SUBSET Int
    OBVIOUS
<1>2. IsFiniteSet(K)
    <2>1. of \in Surjection(ids, K)
        BY DEF Surjection
    <2>2. IsFiniteSet(ids)
        BY UptoGrows
    <2> HIDE DEF of, K
    <2> QED
        BY <2>1, <2>2, FS_Surjection
<1>3. Tally(ids, key, weight) \in [K -> Int]
    BY TallyIsInteger
<1> HIDE DEF K
<1> QED
    BY <1>1, <1>2, <1>3, OldestFirstHasPoints

LEMMA HistoriesHavePoints ==
    ASSUME Typed
    PROVE  Points(CountHistory) /\ Points(FieldHistory)
<1> DEFINE visible == Visible(rows, FALSE)
           trunc   == [i \in visible |-> DateTrunc(rows[i].created)]
           records == WithLevel(rows, Oldest)
           start   == [i \in records |-> BucketStart(rows[i].created)]
           level   == [i \in records |-> rows[i].level]
<1>1. /\ visible \in SUBSET (1..MaxRows)
      /\ \A i \in visible : /\ rows[i].level # Null => rows[i].level \in Int
                            /\ rows[i].created \in Nat
    BY VisibleIds DEF Typed
<1>2. records \in SUBSET visible /\ \A i \in records : rows[i].level # Null
    BY DEF WithLevel, Oldest
<1> HIDE DEF visible, records
<1>3. /\ \A i \in visible : trunc[i] \in Int /\ Ones(visible)[i] \in Int
      /\ \A i \in records : start[i] \in Int /\ level[i] \in Int
    <2>1. \A i \in visible : DateTrunc(rows[i].created) \in Int
        BY <1>1, BucketsAgree
    <2>2. \A i \in records : BucketStart(rows[i].created) \in Int /\ rows[i].level \in Int
        BY <1>1, <1>2, BucketsAgree
    <2> QED
        BY <2>1, <2>2 DEF Ones
<1> HIDE DEF trunc, start, level
<1>4. Points(CountHistory)
    <2>1. Points(OldestFirst(Tally(visible, trunc, Ones(visible))))
        BY <1>1, <1>3, TallyHasPoints
    <2>2. Tally(visible, trunc, Ones(visible)) = Grouped(visible, trunc)
        BY <1>1, TallyCounts
    <2>3. CountHistory = OldestFirst(Grouped(visible, trunc))
        BY Zenon DEF CountHistory, CreatedSeries, visible, trunc
    <2> QED
        BY <2>1, <2>2, <2>3
<1>5. Points(FieldHistory)
    <2>1. records \in SUBSET (1..MaxRows)
        BY <1>1, <1>2
    <2>2. Points(OldestFirst(Tally(records, start, level)))
        BY <1>3, <2>1, TallyHasPoints
    <2>3. FieldHistory = OldestFirst(Tally(records, start, level))
        BY Zenon DEF FieldHistory, records, start, level
    <2> QED
        BY <2>2, <2>3
<1> QED
    BY <1>4, <1>5

-----------------------------------------------------------------------------
(***************************************************************************)
(* The forecast of a line.                                                 *)
(***************************************************************************)
IsForecast(p) ==
    \E history : /\ Points(history) /\ Len(history) >= 2
                 /\ p = [history |-> history, predictions |-> Forecast(history)]

LineInv == prediction = NoPrediction \/ IsForecast(prediction)

LEMMA LineInvNext == ASSUME Typed, LineInv, [StatsNext]_statsVars PROVE LineInv'
<1>1. ASSUME NEW history, Points(history), Predict(history) PROVE LineInv'
    BY <1>1 DEF Predict, LineInv, IsForecast
<1>2. CASE Predict(CountHistory) \/ Predict(FieldHistory)
    BY <1>1, <1>2, HistoriesHavePoints
<1>3. CASE Answered
    BY <1>3 DEF Answered, LineInv, NoPrediction
<1>4. CASE UNCHANGED prediction
    BY <1>4 DEF LineInv, NoPrediction, IsForecast
<1> QED
    BY <1>2, <1>3, <1>4
    DEF StatsNext, Insert, SetArchived, Commit, Tick, Begin, Count, NumericStats, CategoricalStats, TimeSeries,
        LifecycleStatistics, Statement, statsVars

LEMMA OneMore ==
    ASSUME NEW c \in Int, NEW m \in Int
    PROVE  c * m \in Int /\ c * (m + 1) = c * m + c
OBVIOUS

LEMMA OneStepUp ==
    ASSUME NEW r \in Int, NEW q \in Int, NEW a \in Int, NEW risen \in Int, NEW change \in Int,
           NEW further, q = a + risen, r - q = change, further = risen + change
    PROVE  r = a + further
OBVIOUS

\* Values that change by the same amount each time are on a line.
LEMMA StepsMakeALine ==
    ASSUME NEW history, Points(history), NEW n, n = Len(history), n >= 2,
           NEW change, change = history[2].value - history[1].value,
           \A k \in 2..n : history[k].value - history[k - 1].value = change
    PROVE  OnLine(history, n, history[1].value, change)
<1> DEFINE a == history[1].value
           y(k) == history[k].value
           T == {m \in Nat : m + 1 \in 1..n => y(m + 1) = a + change * m}
<1>1. n \in Nat /\ a \in Int /\ change \in Int /\ \A k \in 1..n : y(k) \in Int
    BY DEF Points
<1>2. \A k \in 2..n : y(k) - y(k - 1) = change
    OBVIOUS
<1>3. 0 \in T
    BY <1>1
<1>4. ASSUME NEW m \in Nat, m \in T PROVE m + 1 \in T
    <2> SUFFICES ASSUME (m + 1) + 1 \in 1..n
                 PROVE  y((m + 1) + 1) = a + change * (m + 1)
        OBVIOUS
    <2>1. (m + 1) + 1 \in 2..n /\ m + 1 \in 1..n /\ ((m + 1) + 1) - 1 = m + 1
        BY <1>1
    <2>2. y((m + 1) + 1) - y(m + 1) = change /\ y(m + 1) = a + change * m
        BY <1>2, <1>4, <2>1
    <2>3. y((m + 1) + 1) \in Int /\ y(m + 1) \in Int
        BY <1>1, <2>1
    <2>4. m \in Int
        OBVIOUS
    <2> DEFINE q == y(m + 1)
               r == y((m + 1) + 1)
               risen == change * m
               further == change * (m + 1)
    <2>5. q \in Int /\ r \in Int /\ q = a + risen /\ r - q = change
        BY <2>2, <2>3
    <2>6. risen \in Int /\ further = risen + change
        <3> HIDE DEF y, a
        <3> QED
            BY <1>1, <2>4, OneMore, Zenon
    <2> HIDE DEF y, a, q, r, risen, further
    <2>7. r = a + further
        <3>1. q \in Int /\ r \in Int /\ a \in Int /\ change \in Int
            BY <1>1, <2>5
        <3>2. risen \in Int /\ q = a + risen /\ r - q = change /\ further = risen + change
            BY <2>5, <2>6
        <3> QED
            BY <3>1, <3>2, OneStepUp
    <2> QED
        BY <2>7 DEF q, r, further
<1> HIDE DEF T
<1>5. \A m \in Nat : m \in T
    BY <1>3, <1>4, Induction
<1> SUFFICES ASSUME NEW k \in 1..n PROVE y(k) = a + change * (k - 1)
    BY DEF OnLine
<1>6. k - 1 \in Nat /\ (k - 1) + 1 = k
    BY <1>1
<1>7. k - 1 \in T
    BY <1>5, <1>6
<1> QED
    BY <1>6, <1>7 DEF T

LEMMA LineInvImplies == ASSUME LineInv PROVE LinesAreContinued
<1> DEFINE history == prediction.history
           n == Len(history)
           change == history[2].value - history[1].value
           isLine == \A k \in 2..n : history[k].value - history[k - 1].value = change
<1> SUFFICES ASSUME NEW step \in DOMAIN prediction.predictions
             PROVE  LET p == prediction.predictions[step] IN
                    /\ p.den > 0
                    /\ isLine => /\ p.num = p.den * (history[n].value + step * change)
                                 /\ p.start = history[n].start + step * Width
    BY DEF LinesAreContinued
<1>1. prediction # NoPrediction
    BY DEF NoPrediction
<1>2. Points(history) /\ n >= 2 /\ prediction.predictions = Forecast(history)
    BY <1>1 DEF LineInv, IsForecast
<1>3. step \in 1..Periods
    BY <1>2 DEF Forecast
<1>4. n \in Nat /\ history[1].value \in Int /\ change \in Int
    <2>1. n \in Nat /\ \A k \in 1..n : history[k].value \in Int
        BY <1>2 DEF Points
    <2> QED
        BY <1>2, <2>1
<1>5. Forecast(history)[step].den > 0
    <2> DEFINE X == 0..(n - 1)
               den == n * SquareTotal(X) - SumSet(X) * SumSet(X)
    <2>1. Forecast(history)[step].den = n * den
        BY <1>3, ForecastTerms DEF IsProjection
    <2>2. den \in Nat \ {0}
        BY <1>2, <1>4, SpreadIsPositive
    <2> HIDE DEF n, den
    <2> QED
        BY <1>2, <1>4, <2>1, <2>2
<1> DEFINE a == history[1].value
<1>6. ASSUME isLine PROVE GoesOn(Forecast(history)[step], history, n, change, step)
    <2>1. a \in Int
        BY <1>4
    <2>2. OnLine(history, n, a, change)
        <3> HIDE DEF history
        <3> QED
            BY <1>2, <1>6, StepsMakeALine
    <2> HIDE DEF history, change, a
    <2> QED
        BY <1>2, <1>3, <1>4, <2>1, <2>2, LineGoesOn
<1> QED
    BY <1>2, <1>5, <1>6 DEF GoesOn

\* A forecast is a line, for a history of any length, any values and any
\* number of periods: two buckets are enough for the fit to have a slope, and
\* when the value changes by the same amount from each bucket to the next,
\* the projection counts on from where the fit ended (forecast, _advance).
THEOREM LinesGoOn == StatsSpec => []LinesAreContinued
<1>1. StatsInit => Typed /\ LineInv
    BY StatsAssumption DEF StatsInit, Typed, Tables, LineInv
<1>2. Typed /\ LineInv /\ [StatsNext]_statsVars => Typed' /\ LineInv'
    BY TypedNext, LineInvNext
<1>3. LineInv => LinesAreContinued
    BY LineInvImplies
<1> QED
    BY <1>1, <1>2, <1>3, PTL DEF StatsSpec

-----------------------------------------------------------------------------
(***************************************************************************)
(* Sorting a finite set.                                                   *)
(***************************************************************************)
Total(R, S) == \A i, j \in S : i # j => <<i, j>> \in R \/ <<j, i>> \in R

Transitive(R, S) == \A i, j, m \in S : <<i, j>> \in R /\ <<j, m>> \in R => <<i, m>> \in R

InOrder(order, R) == \A j, k \in DOMAIN order : j < k => <<order[j], order[k]>> \in R

Greatest(m, s, R) == m \in s /\ \A x \in s \ {m} : <<x, m>> \in R

LEMMA GreatestExists ==
    ASSUME NEW S, IsFiniteSet(S), NEW R, Total(R, S), Transitive(R, S), NEW s \in SUBSET S, s # {}
    PROVE  \E m : Greatest(m, s, R)
<1> DEFINE G == {u \in SUBSET S : u = {} \/ \E m : Greatest(m, u, R)}
<1>1. {} \in G
    OBVIOUS
<1>2. ASSUME NEW u \in SUBSET S, u # {}, u \ {Pick(u)} \in G PROVE u \in G
    <2> DEFINE p == Pick(u)
               t == u \ {p}
    <2>1. p \in u /\ u \in SUBSET S
        BY <1>2, PickIsElement
    <2> SUFFICES \E m : Greatest(m, u, R)
        OBVIOUS
    <2>2. CASE t = {}
        <3>1. Greatest(p, u, R)
            BY <2>1, <2>2 DEF Greatest
        <3> QED
            BY <3>1
    <2>3. CASE t # {}
        <3>1. PICK m : Greatest(m, t, R)
            BY <1>2, <2>3
        <3> HIDE DEF p
        <3>2. m \in S /\ p \in S /\ m # p /\ m \in u
            BY <2>1, <3>1 DEF Greatest
        <3>3. CASE <<m, p>> \in R
            <4>1. ASSUME NEW x \in u \ {p} PROVE <<x, p>> \in R
                <5>1. x = m \/ <<x, m>> \in R
                    BY <3>1 DEF Greatest
                <5>2. x \in S
                    BY <2>1
                <5> QED
                    BY <3>2, <3>3, <5>1, <5>2 DEF Transitive
            <4>2. Greatest(p, u, R)
                BY <2>1, <4>1 DEF Greatest
            <4> QED
                BY <4>2
        <3>4. CASE <<m, p>> \notin R
            <4>1. <<p, m>> \in R
                BY <3>2, <3>4 DEF Total
            <4>2. Greatest(m, u, R)
                BY <3>1, <3>2, <4>1 DEF Greatest
            <4> QED
                BY <4>2
        <3> QED
            BY <3>3, <3>4
    <2> QED
        BY <2>2, <2>3
<1> HIDE DEF G
<1>3. s \in G
    BY <1>1, <1>2, SubsetInduction
<1> QED
    BY <1>3 DEF G

LEMMA SortExists ==
    ASSUME NEW S, IsFiniteSet(S), NEW R, Total(R, S), Transitive(R, S)
    PROVE  \E order \in SetToSeqs(S) : InOrder(order, R)
<1> DEFINE IsSort(order, s) == order \in SetToSeqs(s) /\ InOrder(order, R)
           T == {n \in Nat : \A s \in SUBSET S : Cardinality(s) = n => \E order : IsSort(order, s)}
<1>1. \A s \in SUBSET S : IsFiniteSet(s) /\ Cardinality(s) \in Nat
    BY FS_Subset, FS_CardinalityType
<1>2. 0 \in T
    <2> SUFFICES ASSUME NEW s \in SUBSET S, Cardinality(s) = 0 PROVE \E order : IsSort(order, s)
        OBVIOUS
    <2> DEFINE empty == [k \in 1..0 |-> k]
    <2>1. DOMAIN empty = {}
        OBVIOUS
    <2>2. empty \in SetToSeqs(s)
        BY DEF SetToSeqs
    <2>3. InOrder(empty, R)
        BY <2>1 DEF InOrder
    <2> QED
        BY <2>2, <2>3
<1>3. ASSUME NEW n \in Nat, n \in T PROVE n + 1 \in T
    <2> SUFFICES ASSUME NEW s \in SUBSET S, Cardinality(s) = n + 1
                 PROVE  \E order : IsSort(order, s)
        OBVIOUS
    <2>1. s # {} /\ IsFiniteSet(s)
        BY <1>1, FS_EmptySet
    <2>2. PICK m : Greatest(m, s, R)
        BY <2>1, GreatestExists
    <2> DEFINE t == s \ {m}
    <2>3. Cardinality(t) = n
        <3>1. Cardinality(s \ {m}) = Cardinality(s) - 1
            BY <2>1, <2>2, FS_RemoveElement DEF Greatest
        <3> QED
            BY <3>1
    <2>4. PICK order : IsSort(order, t)
        BY <1>3, <2>3
    <2>5. /\ order \in [1..n -> t]
          /\ \A i, j \in 1..n : i # j => order[i] # order[j]
          /\ \A i, j \in 1..n : i < j => <<order[i], order[j]>> \in R
        BY <2>3, <2>4 DEF SetToSeqs, InOrder
    <2>6. m \in s /\ \A x \in t : <<x, m>> \in R
        BY <2>2 DEF Greatest
    <2> DEFINE longer == [k \in 1..(n + 1) |-> IF k = n + 1 THEN m ELSE order[k]]
    <2>7. \A k \in 1..(n + 1) : k # n + 1 => k \in 1..n
        OBVIOUS
    <2>8. \A k \in 1..n : order[k] \in t /\ order[k] # m /\ order[k] \in s
        BY <2>5
    <2>9. /\ longer[n + 1] = m /\ n + 1 \in 1..(n + 1)
          /\ \A k \in 1..n : longer[k] = order[k]
          /\ DOMAIN longer = 1..(n + 1)
        OBVIOUS
    <2>10. longer \in [1..(n + 1) -> s]
        BY <2>6, <2>7, <2>8
    <2> HIDE DEF longer, t
    <2>11. ASSUME NEW i \in 1..(n + 1), NEW j \in 1..(n + 1), i # j
           PROVE  longer[i] # longer[j]
        <3>1. CASE i \in 1..n /\ j \in 1..n
            BY <2>5, <2>9, <2>11, <3>1
        <3>2. CASE i = n + 1
            BY <2>7, <2>8, <2>9, <2>11, <3>2
        <3>3. CASE j = n + 1
            BY <2>7, <2>8, <2>9, <2>11, <3>3
        <3> QED
            BY <2>7, <3>1, <3>2, <3>3
    <2>12. ASSUME NEW i \in 1..(n + 1), NEW j \in 1..(n + 1), i < j
           PROVE  <<longer[i], longer[j]>> \in R
        <3>1. i \in 1..n
            BY <2>12
        <3>2. CASE j \in 1..n
            BY <2>5, <2>9, <2>12, <3>1, <3>2
        <3>3. CASE j = n + 1
            BY <2>6, <2>8, <2>9, <3>1, <3>3
        <3> QED
            BY <2>7, <3>2, <3>3
    <2>13. longer \in SetToSeqs(s)
        BY <2>10, <2>11 DEF SetToSeqs
    <2>14. InOrder(longer, R)
        BY <2>9, <2>12 DEF InOrder
    <2> QED
        BY <2>13, <2>14
<1> HIDE DEF T
<1>4. Cardinality(S) \in T
    BY <1>1, <1>2, <1>3, Induction
<1> QED
    BY <1>4 DEF T

-----------------------------------------------------------------------------
(***************************************************************************)
(* The order of a list.                                                    *)
(***************************************************************************)
\* The first difference between the keys x and y is in favour of x.
Lex(x, y, n) == \E k \in 1..n : x[k] < y[k] /\ \A l \in 1..(k - 1) : x[l] = y[l]

Keys(n) == [1..n -> Int]

LEMMA LexIsAsymmetric ==
    ASSUME NEW n \in Nat, NEW x \in Keys(n), NEW y \in Keys(n), Lex(x, y, n)
    PROVE  ~Lex(y, x, n)
<1> SUFFICES ASSUME Lex(y, x, n) PROVE FALSE
    OBVIOUS
<1>1. PICK k \in 1..n : x[k] < y[k] /\ \A l \in 1..(k - 1) : x[l] = y[l]
    BY DEF Lex
<1>2. PICK m \in 1..n : y[m] < x[m] /\ \A l \in 1..(m - 1) : y[l] = x[l]
    BY DEF Lex
<1>3. x[k] \in Int /\ y[k] \in Int /\ x[m] \in Int /\ y[m] \in Int
    BY DEF Keys
<1>4. k < m => k \in 1..(m - 1)
    OBVIOUS
<1>5. m < k => m \in 1..(k - 1)
    OBVIOUS
<1> QED
    BY <1>1, <1>2, <1>3, <1>4, <1>5

LEMMA LexComparesAll ==
    ASSUME NEW n \in Nat, NEW x \in Keys(n), NEW y \in Keys(n), NEW z \in Keys(n), Lex(x, z, n)
    PROVE  Lex(x, y, n) \/ Lex(y, z, n)
<1>1. PICK k \in 1..n : x[k] < z[k] /\ \A l \in 1..(k - 1) : x[l] = z[l]
    BY DEF Lex
<1>2. \A l \in 1..n : x[l] \in Int /\ y[l] \in Int /\ z[l] \in Int
    BY DEF Keys
<1> DEFINE D == {l \in 1..k : x[l] # y[l] \/ y[l] # z[l]}
<1>3. D \in SUBSET Nat /\ k \in D
    BY <1>1, <1>2
<1>4. PICK l \in D : \A m \in D : ~(m < l)
    BY <1>3, LeastNatural
<1>5. l \in 1..n /\ l <= k
    BY <1>4
<1>6. \A m \in 1..(l - 1) : x[m] = y[m] /\ y[m] = z[m]
    <2> SUFFICES ASSUME NEW m \in 1..(l - 1), m \in D PROVE FALSE
        BY <1>5
    <2> QED
        BY <1>4, <1>5
<1>7. x[l] < y[l] \/ y[l] < z[l]
    <2>1. CASE l < k
        <3>1. x[l] = z[l]
            BY <1>1, <1>5, <2>1
        <3>2. x[l] # y[l] \/ y[l] # z[l]
            BY <1>4
        <3> QED
            BY <1>2, <1>5, <3>1, <3>2
    <2>2. CASE l = k
        BY <1>1, <1>2, <1>5, <2>2
    <2> QED
        BY <1>5, <2>1, <2>2
<1> QED
    BY <1>5, <1>6, <1>7 DEF Lex

\* What a sort compares of row i.
Key(i, sort) ==
    [k \in 1..Len(sort) |-> IF sort[k].descending THEN -Value(i, sort[k].field)
                                                  ELSE Value(i, sort[k].field)]

\* Every term of the sort reads numbers of the rows.
Sortable(ids, sort) ==
    /\ Len(sort) \in Nat /\ DOMAIN sort = 1..Len(sort)
    /\ \A k \in DOMAIN sort, i \in ids :
          Value(i, sort[k].field) \in Int /\ Value(i, sort[k].field) # Null

LEMMA PrecedesIsLex ==
    ASSUME NEW ids, NEW sort, Sortable(ids, sort), NEW i \in ids, NEW j \in ids
    PROVE  /\ Key(i, sort) \in Keys(Len(sort))
           /\ Precedes(i, j, sort) <=> Lex(Key(i, sort), Key(j, sort), Len(sort))
<1> DEFINE n == Len(sort)
           v(k) == Value(i, sort[k].field)
           w(k) == Value(j, sort[k].field)
<1>1. n \in Nat /\ DOMAIN sort = 1..n
    BY DEF Sortable
<1>2. \A k \in 1..n : v(k) \in Int /\ v(k) # Null /\ w(k) \in Int /\ w(k) # Null
    BY <1>1 DEF Sortable
<1>3. Key(i, sort) \in Keys(n)
    BY <1>2 DEF Key, Keys
<1>4. ASSUME NEW k \in 1..n
      PROVE  /\ Key(i, sort)[k] = Key(j, sort)[k] <=> v(k) = w(k)
             /\ Key(i, sort)[k] < Key(j, sort)[k] <=>
                   IF sort[k].descending THEN KeyLess(w(k), v(k)) ELSE KeyLess(v(k), w(k))
    <2>1. /\ Key(i, sort)[k] = IF sort[k].descending THEN -v(k) ELSE v(k)
          /\ Key(j, sort)[k] = IF sort[k].descending THEN -w(k) ELSE w(k)
        BY DEF Key
    <2>2. KeyLess(w(k), v(k)) <=> w(k) < v(k)
        BY <1>2 DEF KeyLess
    <2>3. KeyLess(v(k), w(k)) <=> v(k) < w(k)
        BY <1>2 DEF KeyLess
    <2>4. v(k) \in Int /\ w(k) \in Int
        BY <1>2
    <2> HIDE DEF v, w
    <2> QED
        BY <2>1, <2>2, <2>3, <2>4
<1>5. Precedes(i, j, sort) <=>
        \E k \in 1..n :
            /\ IF sort[k].descending THEN KeyLess(w(k), v(k)) ELSE KeyLess(v(k), w(k))
            /\ \A l \in 1..(k - 1) : v(l) = w(l)
    BY <1>1 DEF Precedes
<1>6. \A k \in 1..n : \A l \in 1..(k - 1) : l \in 1..n
    BY <1>1
<1> HIDE DEF v, w, n
<1>7. Precedes(i, j, sort) <=> Lex(Key(i, sort), Key(j, sort), n)
    BY <1>4, <1>5, <1>6 DEF Lex
<1> QED
    BY <1>3, <1>7 DEF n

\* The order of sorted().
Before(i, j, sort) == Precedes(i, j, sort) \/ (~Precedes(j, i, sort) /\ i < j)

LEMMA PrecedesIsAWeakOrder ==
    ASSUME NEW ids, NEW sort, Sortable(ids, sort), NEW i \in ids, NEW j \in ids, NEW m \in ids
    PROVE  /\ Precedes(i, j, sort) => ~Precedes(j, i, sort)
           /\ Precedes(i, m, sort) => Precedes(i, j, sort) \/ Precedes(j, m, sort)
<1>1. Len(sort) \in Nat
    BY DEF Sortable
<1>2. /\ Key(i, sort) \in Keys(Len(sort)) /\ Key(j, sort) \in Keys(Len(sort))
      /\ Key(m, sort) \in Keys(Len(sort))
    BY PrecedesIsLex
<1>3. Precedes(i, j, sort) => ~Precedes(j, i, sort)
    BY <1>1, <1>2, PrecedesIsLex, LexIsAsymmetric
<1>4. Precedes(i, m, sort) => Precedes(i, j, sort) \/ Precedes(j, m, sort)
    BY <1>1, <1>2, PrecedesIsLex, LexComparesAll
<1> QED
    BY <1>3, <1>4

\* sorted() comes to an end with a list in its order.
LEMMA SortedIsSorted ==
    ASSUME NEW ids, IsFiniteSet(ids), ids \in SUBSET Int, NEW sort, Sortable(ids, sort)
    PROVE  /\ Sorted(ids, sort) \in SetToSeqs(ids)
           /\ \A j, k \in DOMAIN Sorted(ids, sort) : j < k =>
                 Before(Sorted(ids, sort)[j], Sorted(ids, sort)[k], sort)
<1> DEFINE R == {pair \in ids \X ids : Before(pair[1], pair[2], sort)}
           P(order) == /\ order \in SetToSeqs(ids)
                       /\ \A j, k \in DOMAIN order : j < k => Before(order[j], order[k], sort)
           Q(order) == order \in SetToSeqs(ids) /\ InOrder(order, R)
<1>1. \A i, j \in ids : <<i, j>> \in R <=> Before(i, j, sort)
    OBVIOUS
<1> HIDE DEF R
<1>2. Total(R, ids)
    <2> SUFFICES ASSUME NEW i \in ids, NEW j \in ids, i # j
                 PROVE  Before(i, j, sort) \/ Before(j, i, sort)
        BY <1>1 DEF Total
    <2>1. i \in Int /\ j \in Int
        OBVIOUS
    <2>2. i < j \/ j < i
        BY <2>1
    <2> QED
        BY <2>2 DEF Before
<1>3. Transitive(R, ids)
    <2> SUFFICES ASSUME NEW i \in ids, NEW j \in ids, NEW m \in ids,
                        Before(i, j, sort), Before(j, m, sort)
                 PROVE  Before(i, m, sort)
        BY <1>1 DEF Transitive
    <2>1. /\ Precedes(j, m, sort) => ~Precedes(m, j, sort)
          /\ Precedes(i, j, sort) => Precedes(i, m, sort) \/ Precedes(m, j, sort)
          /\ Precedes(j, m, sort) => Precedes(j, i, sort) \/ Precedes(i, m, sort)
          /\ Precedes(m, i, sort) => Precedes(m, j, sort) \/ Precedes(j, i, sort)
        BY PrecedesIsAWeakOrder
    <2>2. i < j /\ j < m => i < m
        <3>1. i \in Int /\ j \in Int /\ m \in Int
            OBVIOUS
        <3> QED
            BY <3>1
    <2> QED
        BY <2>1, <2>2 DEF Before
<1>4. PICK order : Q(order)
    BY <1>2, <1>3, SortExists
<1>5. P(order)
    <2>1. order \in [1..Cardinality(ids) -> ids]
        BY <1>4 DEF SetToSeqs
    <2>2. \A k \in DOMAIN order : order[k] \in ids
        BY <2>1
    <2> QED
        BY <1>1, <1>4, <2>2 DEF InOrder
<1>6. Sorted(ids, sort) = CHOOSE o : P(o)
    BY Zenon DEF Sorted, Before
<1>7. P(CHOOSE o : P(o))
    <2> HIDE DEF P
    <2> QED
        BY <1>5, Zenon
<1> QED
    BY <1>6, <1>7

-----------------------------------------------------------------------------
(***************************************************************************)
(* One answer of both repositories.                                        *)
(***************************************************************************)
FromMemory == memory = MemoryAnswer(asked)

QueriesInv ==
    /\ rows \in Seq(Entry) /\ Len(rows) <= MaxRows
    /\ asked # Null => asked \in Queries /\ FromMemory

Found(filters) == {i \in DOMAIN rows : \A clause \in ToSet(filters) : SqlHolds(i, clause)}

LEMMA IdsAreNumbers ==
    ASSUME QueriesInv
    PROVE  /\ IsFiniteSet(DOMAIN rows) /\ DOMAIN rows \in SUBSET Int
           /\ \A i \in DOMAIN rows : i \in 1..MaxRows /\ rows[i] \in Entry
<1>1. DOMAIN rows = 1..Len(rows) /\ Len(rows) \in Nat /\ Len(rows) <= MaxRows
    BY DEF QueriesInv
<1>2. IsFiniteSet(1..Len(rows))
    <2>1. 1 \in Int /\ Len(rows) \in Int
        BY <1>1
    <2> QED
        BY <2>1, FS_Interval
<1>3. MaxRows \in Nat
    BY QueriesAssumption
<1> QED
    BY <1>1, <1>2, <1>3 DEF QueriesInv

\* A clause of an ordinary query holds of the same rows in both.
LEMMA ClausesAgree ==
    ASSUME NEW q, ~Refused(q), Ordinary(q), NEW clause \in ToSet(q.filters), NEW i \in DOMAIN rows
    PROVE  Evaluates(i, clause) /\ (MemoryHolds(i, clause) <=> SqlHolds(i, clause))
<1>1. clause.field \in Columns
    BY DEF Ordinary, Unanswerable
<1>2. Value(i, clause.field) # Null
    BY DEF Ordinary
<1>3. clause.op \in {"eq", "min", "max", "in", "contains", "icontains"}
    BY DEF Refused, Parses, Ops
<1>4. clause.op \in {"contains", "icontains"} => \A raw \in clause.raws : raw.char # Wildcard
    BY DEF Ordinary
<1>5. Evaluates(i, clause)
    BY <1>1, <1>2 DEF Evaluates
<1>6. MemoryHolds(i, clause) <=> SqlHolds(i, clause)
    BY <1>2, <1>3, <1>4 DEF MemoryHolds, SqlHolds
<1> QED
    BY <1>5, <1>6

\* An ordinary query sorts by numbers.
LEMMA OrdinarySorts ==
    ASSUME QueriesInv, NEW q \in Queries, Ordinary(q), NEW ids \in SUBSET DOMAIN rows
    PROVE  Sortable(ids, q.sort)
<1> DEFINE Terms == [field : STRING \ {"name"}, descending : BOOLEAN]
<1>1. q.sort \in Seq(Terms)
    BY QueriesAssumption DEF Queries
<1>2. Len(q.sort) \in Nat /\ DOMAIN q.sort = 1..Len(q.sort)
    <2> HIDE DEF Terms
    <2> QED
        BY <1>1, LenProperties
<1> SUFFICES ASSUME NEW k \in DOMAIN q.sort, NEW i \in ids
             PROVE  Value(i, q.sort[k].field) \in Int /\ Value(i, q.sort[k].field) # Null
    BY <1>2 DEF Sortable
<1> DEFINE term == q.sort[k]
<1>3. term \in ToSet(q.sort)
    BY DEF ToSet
<1>4. term.field # "name" /\ term.field \in Columns
    <2>1. term \in Terms
        <3> HIDE DEF Terms
        <3> QED
            BY <1>1, <1>2, ElementOfSeq
    <2>2. term.field \in Columns
        BY <1>3 DEF Ordinary, Unanswerable
    <2> QED
        BY <2>1, <2>2
<1>5. Value(i, term.field) # Null
    BY <1>3 DEF Ordinary
<1>6. i \in Int /\ rows[i] \in Entry
    BY IdsAreNumbers
<1> HIDE DEF term
<1>7. CASE term.field = "id"
    BY <1>5, <1>6, <1>7 DEF Value, term
<1>8. CASE term.field = "power_level"
    <2>1. Value(i, term.field) = rows[i].power_level
        BY <1>8 DEF Value
    <2>2. rows[i].power_level \in Levels \cup {Null}
        BY <1>6 DEF Entry
    <2>3. Levels \subseteq Int
        BY QueriesAssumption
    <2> QED
        BY <1>5, <2>1, <2>2, <2>3 DEF term
<1> QED
    BY <1>4, <1>7, <1>8 DEF Columns

\* The order of sorted() is one ORDER BY allows.
LEMMA SortedIsAllowed ==
    ASSUME QueriesInv, NEW q \in Queries, Ordinary(q), NEW ids \in SUBSET DOMAIN rows
    PROVE  Sorted(ids, q.sort) \in SqlOrders(ids, q.sort)
<1> DEFINE sort  == q.sort
           order == Sorted(ids, sort)
           byId  == <<[field |-> "id", descending |-> FALSE]>>
           terms == IF sort = <<>> THEN byId ELSE sort
<1>1. Sortable(ids, sort)
    BY OrdinarySorts
<1>2. IsFiniteSet(ids) /\ ids \in SUBSET Int /\ \A i \in ids : i # Null
    BY IdsAreNumbers, FS_Subset, QueriesAssumption
<1>3. /\ order \in SetToSeqs(ids)
      /\ \A j, k \in DOMAIN order : j < k => Before(order[j], order[k], sort)
    BY <1>1, <1>2, SortedIsSorted
<1>4. \A k \in DOMAIN order : order[k] \in ids
    BY <1>3 DEF SetToSeqs
<1> HIDE DEF order, sort
<1>5. ASSUME NEW i \in ids, NEW j \in ids, Before(i, j, sort) PROVE ~Precedes(j, i, terms)
    <2>1. CASE sort # <<>>
        BY <1>1, <1>5, <2>1, PrecedesIsAWeakOrder DEF Before
    <2>2. CASE sort = <<>>
        <3>1. ~Precedes(i, j, <<>>)
            BY DEF Precedes
        <3>2. i < j /\ i \in Int /\ j \in Int
            BY <1>2, <1>5, <2>2, <3>1 DEF Before
        <3>3. Precedes(j, i, byId) => KeyLess(j, i)
            BY DEF Precedes, Value
        <3>4. ~KeyLess(j, i)
            BY <1>2, <3>2 DEF KeyLess
        <3> QED
            BY <2>2, <3>3, <3>4
    <2> QED
        BY <2>1, <2>2
<1>6. \A j, k \in DOMAIN order : j < k => ~Precedes(order[k], order[j], terms)
    BY <1>3, <1>4, <1>5
<1>7. order \in SqlOrders(ids, sort)
    BY <1>3, <1>6 DEF SqlOrders
<1> QED
    BY <1>7 DEF order, sort

LEMMA AnswersAgree ==
    ASSUME QueriesInv, NEW q \in Queries, Refused(q) \/ Ordinary(q)
    PROVE  MemoryAnswer(q) \in SqlAnswers(q)
<1>1. CASE Refused(q)
    BY <1>1 DEF MemoryAnswer, SqlAnswers
<1>2. CASE ~Refused(q) /\ Ordinary(q)
    <2> DEFINE ids == Found(q.filters)
               matching == {i \in DOMAIN rows : \A clause \in ToSet(q.filters) :
                               Evaluates(i, clause) /\ MemoryHolds(i, clause)}
    <2>1. ~Unanswerable(q)
        BY <1>2 DEF Ordinary
    <2>2. matching = ids
        BY <1>2, ClausesAgree DEF Found
    <2>3. ~\E i \in DOMAIN rows : Breaks(i, q.filters)
        <3>1. \A k \in DOMAIN q.filters : q.filters[k] \in ToSet(q.filters)
            BY DEF ToSet
        <3> QED
            BY <1>2, <3>1, ClausesAgree DEF Breaks
    <2>4. ids \in SUBSET DOMAIN rows
        BY DEF Found
    <2>5. ~SortBreaks(ids, q.sort)
        <3>1. \A term \in ToSet(q.sort) : term.field \in Columns
            BY <2>1 DEF Unanswerable
        <3>2. \A term \in ToSet(q.sort), i \in ids : Value(i, term.field) # Null
            BY <1>2, <2>4 DEF Ordinary
        <3> HIDE DEF ids
        <3> QED
            BY <3>1, <3>2 DEF SortBreaks
    <2>6. Sorted(ids, q.sort) \in SqlOrders(ids, q.sort)
        BY <1>2, <2>4, SortedIsAllowed
    <2>7. MemoryAnswer(q) = Page(Slice(Sorted(ids, q.sort), q.skip, q.skip + q.limit))
        <3> HIDE DEF ids
        <3> QED
            BY <1>2, <2>2, <2>3, <2>5 DEF MemoryAnswer
    <2>8. SqlAnswers(q) = {Page(Slice(order, q.skip, q.skip + q.limit)) :
                              order \in SqlOrders(ids, q.sort)}
        BY <1>2, <2>1 DEF SqlAnswers, Found
    <2> HIDE DEF ids
    <2> QED
        BY <2>6, <2>7, <2>8
<1> QED
    BY <1>1, <1>2

\* Sorted as a function of the rows r.
SortedOf(r, ids, sort) ==
    LET value(i, field)   == IF field = "id" THEN i ELSE r[i][field]
        less(x, y)        == IF x = Null THEN FALSE ELSE IF y = Null THEN TRUE ELSE x < y
        precedes(i, j)    ==
            \E k \in DOMAIN sort :
                /\ LET x == value(i, sort[k].field)
                       y == value(j, sort[k].field)
                   IN  IF sort[k].descending THEN less(y, x) ELSE less(x, y)
                /\ \A l \in 1..(k - 1) : value(i, sort[l].field) = value(j, sort[l].field)
        before(i, j)      == precedes(i, j) \/ (~precedes(j, i) /\ i < j)
    IN  CHOOSE order \in SetToSeqs(ids) :
            \A j, k \in DOMAIN order : j < k => before(order[j], order[k])

LEMMA SortedOfRows == \A ids, sort : Sorted(ids, sort) = SortedOf(rows, ids, sort)
BY Zenon DEF Sorted, Precedes, KeyLess, Value, SortedOf

\* MemoryHolds as a function of the value it reads.
Matches(value, clause) ==
    LET text == IF value = Null THEN NoneText ELSE value
    IN  CASE clause.op \in {"eq", "in"} -> value \in Targets(clause)
          [] clause.op = "min" -> \E target \in Targets(clause) : value >= target
          [] clause.op = "max" -> \E target \in Targets(clause) : value <= target
          [] clause.op = "contains" -> \E raw \in clause.raws : raw.char \in text
          [] clause.op = "icontains" ->
                \E raw \in clause.raws : Lower[raw.char] \in {Lower[c] : c \in text}

LEMMA HoldsOfValue ==
    \A i, clause : MemoryHolds(i, clause) <=> Matches(Value(i, clause.field), clause)
BY Zenon DEF MemoryHolds, Matches

\* A step that leaves the rows alone leaves the answer to a query alone.
LEMMA SameRowsSameAnswer ==
    ASSUME NEW q, rows' = rows
    PROVE  MemoryAnswer(q)' = MemoryAnswer(q)
<1>1. (\A ids, sort : Sorted(ids, sort) = SortedOf(rows, ids, sort))'
    BY SortedOfRows, PTL
<1>2. \A ids, sort : Sorted(ids, sort)' = Sorted(ids, sort)
    BY <1>1, SortedOfRows
<1>3. \A i, field : Value(i, field)' = Value(i, field)
    BY DEF Value
<1>4. \A i, clause : Evaluates(i, clause)' = Evaluates(i, clause)
    BY <1>3 DEF Evaluates
<1>5. \A i, clause : MemoryHolds(i, clause)' <=> MemoryHolds(i, clause)
    <2>1. (\A i, clause : MemoryHolds(i, clause) <=> Matches(Value(i, clause.field), clause))'
        BY HoldsOfValue, PTL
    <2> QED
        BY <1>3, <2>1, HoldsOfValue, Zenon
<1>6. \A i, filters : Breaks(i, filters)' = Breaks(i, filters)
    BY <1>4, <1>5 DEF Breaks
<1>7. \A ids, sort : SortBreaks(ids, sort)' = SortBreaks(ids, sort)
    BY <1>3 DEF SortBreaks
<1> QED
    BY <1>2, <1>4, <1>5, <1>6, <1>7 DEF MemoryAnswer

\* Whatever is in the table: the mock answers a query that reads columns no
\* row leaves empty, looks for no wildcard and stays within an INTEGER as the
\* database may answer it (the two list methods of the Repository protocol).
THEOREM RepositoriesAgree == QueriesSpec => []BackendsAgree
<1>1. QueriesInit => QueriesInv
    BY QueriesAssumption DEF QueriesInit, QueriesInv
<1>2. ASSUME QueriesInv, [QueriesNext]_queriesVars PROVE QueriesInv'
    <2> DEFINE Bounded == rows \in Seq(Entry) /\ Len(rows) <= MaxRows
               Kept  == asked # Null => asked \in Queries /\ FromMemory
    <2>1. Bounded /\ Kept
        BY <1>2 DEF QueriesInv
    <2>2. CASE \E row \in Entry : Create(row)
        <3>1. PICK row \in Entry : Create(row)
            BY <2>2
        <3>2. rows' = Append(rows, row) /\ asked' = Null /\ Len(rows) < MaxRows
            BY <3>1 DEF Create
        <3>3. rows' \in Seq(Entry) /\ Len(rows') = Len(rows) + 1 /\ Len(rows) \in Nat
            BY <2>1, <3>2, AppendProperties, LenProperties
        <3>4. Bounded'
            BY <3>2, <3>3, QueriesAssumption DEF Entry
        <3>5. Kept'
            BY <3>2
        <3> QED
            BY <3>4, <3>5 DEF QueriesInv
    <2>3. ASSUME rows' = rows PROVE Bounded'
        BY <2>1, <2>3 DEF Entry
    <2>4. CASE \E q \in Queries : Ask(q)
        <3>1. PICK q \in Queries : Ask(q)
            BY <2>4
        <3>2. rows' = rows /\ asked' = q /\ memory' = MemoryAnswer(q)
            BY <3>1 DEF Ask
        <3>3. FromMemory'
            BY <3>2, SameRowsSameAnswer DEF FromMemory
        <3>4. Kept'
            BY <3>2, <3>3 DEF Queries, Views
        <3> QED
            BY <2>3, <3>2, <3>4 DEF QueriesInv
    <2>5. CASE Forget
        <3>1. rows' = rows /\ asked' = Null
            BY <2>5 DEF Forget
        <3>2. Kept'
            BY <3>1
        <3> QED
            BY <2>3, <3>1, <3>2 DEF QueriesInv
    <2>6. CASE UNCHANGED queriesVars
        <3>1. rows' = rows /\ asked' = asked /\ memory' = memory
            BY <2>6 DEF queriesVars
        <3>2. ASSUME FromMemory PROVE FromMemory'
            BY <3>1, <3>2, SameRowsSameAnswer DEF FromMemory
        <3>3. Kept'
            BY <2>1, <3>1, <3>2 DEF Queries, Views
        <3> QED
            BY <2>3, <3>1, <3>3 DEF QueriesInv
    <2> QED
        BY <1>2, <2>2, <2>4, <2>5, <2>6 DEF QueriesNext
<1>3. QueriesInv => BackendsAgree
    BY AnswersAgree DEF QueriesInv, FromMemory, BackendsAgree
<1> QED
    BY <1>1, <1>2, <1>3, PTL DEF QueriesSpec

=============================================================================
