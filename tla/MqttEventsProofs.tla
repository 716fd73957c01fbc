-------------------------- MODULE MqttEventsProofs --------------------------
(***************************************************************************)
(* The event streams over the broker show events in order and lose none    *)
(* that is owed, for any number of connections, subscribers and events,    *)
(* and any queue limit.                                                    *)
(*                                                                         *)
(* What a response was given is what it sent and what waits in its inbox.  *)
(* The messages in flight are among it and the rest of the queue is newer: *)
(* that is what makes the next delivery come in order, and what lets an    *)
(* acknowledgement forget a message without losing it (LinkInv).           *)
(***************************************************************************)
EXTENDS MqttEvents, SequenceTheorems, TLAPS

\* What a response has received, in order.
Given(x) == x.sent \o x.inbox

In(e, log) == \E k \in 1..Len(log) : log[k] = e

\* Event numbers up to n in increasing order, so that there are no more of
\* them than n.
Rising(log, n) ==
    /\ \A j, k \in 1..Len(log) : j < k => log[j] < log[k]
    /\ \A k \in 1..Len(log) : k <= log[k] /\ log[k] <= n

\* A session without a connection keeps what is owed to the next one.
SessionInv(x, n) ==
    /\ Rising(x.queue, n)
    /\ Len(x.queue) <= MaxQueued
    /\ x.flying <= Len(x.queue)
    /\ x.link = Nobody => x.flying = 0
    /\ x.link # Nobody => x.known
    /\ x.known /\ x.link = Nobody =>
          \A e \in (x.owed + 1)..n : In(e, x.queue) \/ e \in x.dropped

StreamInv(x, n) ==
    /\ x.phase = "new" => x.id = Nobody /\ x.sent = <<>> /\ x.inbox = <<>>
    /\ Rising(Given(x), n)

\* A response x that has the session y.
LinkInv(x, y, n) ==
    /\ \A k \in 1..y.flying : In(y.queue[k], Given(x))
    /\ \A k \in (y.flying + 1)..Len(y.queue), j \in 1..Len(Given(x)) : Given(x)[j] < y.queue[k]
    /\ \A e \in (x.joined + 1)..n : In(e, Given(x)) \/ In(e, y.queue) \/ e \in y.dropped

IInv ==
    /\ TypeOK
    /\ \A id \in SubscriberIds : SessionInv(session[id], published)
    /\ \A s \in Streams : StreamInv(stream[s], published)
    /\ \A id \in SubscriberIds : session[id].link # Nobody =>
          /\ stream[session[id].link].id = id
          /\ LinkInv(stream[session[id].link], session[id], published)

-----------------------------------------------------------------------------
(***************************************************************************)
(* Sequences of events.                                                    *)
(***************************************************************************)

\* A new event behind the last.
LEMMA AppendRises ==
    ASSUME NEW log \in Seq(Event), NEW n \in Nat, Rising(log, n),
           NEW e \in Event, \A k \in 1..Len(log) : log[k] < e,
           NEW m \in Nat, n <= m, e <= m
    PROVE  /\ Append(log, e) \in Seq(Event) /\ Len(Append(log, e)) = Len(log) + 1
           /\ Len(log) \in Nat
           /\ \A k \in 1..Len(log) : Append(log, e)[k] = log[k]
           /\ Append(log, e)[Len(log) + 1] = e
           /\ Rising(Append(log, e), m)
           /\ In(e, Append(log, e))
           /\ \A x \in Event : In(x, log) => In(x, Append(log, e))
<1>1. /\ Append(log, e) \in Seq(Event) /\ Len(Append(log, e)) = Len(log) + 1
      /\ Len(log) \in Nat
      /\ \A k \in 1..Len(log) : Append(log, e)[k] = log[k]
      /\ Append(log, e)[Len(log) + 1] = e
    BY AppendProperties, LenProperties
<1> DEFINE new == Append(log, e)
<1> HIDE DEF new
<1>2. \A k \in 1..Len(log) : log[k] \in Nat /\ log[k] <= n /\ k <= log[k]
    BY MqttAssumption, ElementOfSeq DEF Rising, Event
<1>3. e \in Nat /\ e >= Len(log) + 1
    <2>1. e \in Nat /\ e >= 1
        BY MqttAssumption DEF Event
    <2>2. CASE Len(log) = 0
        BY <2>1, <2>2
    <2>3. CASE Len(log) # 0
        <3>1. Len(log) \in 1..Len(log)
            BY <1>1, <2>3
        <3>2. log[Len(log)] < e /\ Len(log) <= log[Len(log)] /\ log[Len(log)] \in Nat
            BY <1>2, <3>1
        <3> QED
            BY <1>1, <2>1, <3>2
    <2> QED
        BY <2>2, <2>3
<1>4. /\ Len(new) = Len(log) + 1 /\ new[Len(log) + 1] = e
      /\ \A k \in 1..Len(log) : new[k] = log[k]
    BY <1>1 DEF new
<1>5. Rising(new, m)
    <2>1. ASSUME NEW j \in 1..Len(new), NEW k \in 1..Len(new), j < k
          PROVE  new[j] < new[k]
        <3>1. j \in 1..Len(log) /\ (k \in 1..Len(log) \/ k = Len(log) + 1)
            BY <1>1, <1>4, <2>1
        <3> QED
            BY <1>4, <2>1, <3>1 DEF Rising
    <2>2. ASSUME NEW k \in 1..Len(new)
          PROVE  k <= new[k] /\ new[k] <= m
        <3>1. k \in 1..Len(log) \/ k = Len(log) + 1
            BY <1>1, <1>4, <2>2
        <3> QED
            BY <1>2, <1>3, <1>4, <3>1
    <2> QED
        BY <2>1, <2>2 DEF Rising
<1>6. In(e, new) /\ \A x \in Event : In(x, log) => In(x, new)
    BY <1>1, <1>4 DEF In
<1> QED
    BY <1>1, <1>5, <1>6 DEF new

\* Without its first event.
LEMMA TailRises ==
    ASSUME NEW log \in Seq(Event), log # <<>>, NEW n \in Nat, Rising(log, n)
    PROVE  /\ Tail(log) \in Seq(Event) /\ Len(Tail(log)) = Len(log) - 1
           /\ Head(log) = log[1] /\ Head(log) \in Event
           /\ Len(log) \in Nat \ {0}
           /\ \A k \in 1..(Len(log) - 1) : Tail(log)[k] = log[k + 1]
           /\ Rising(Tail(log), n)
           /\ \A x \in Event : In(x, log) => x = log[1] \/ In(x, Tail(log))
<1>1. /\ Head(log) \in Event /\ Tail(log) \in Seq(Event) /\ Len(Tail(log)) = Len(log) - 1
      /\ \A k \in 1..Len(Tail(log)) : Tail(log)[k] = log[k + 1]
    BY HeadTailProperties
<1>2. Len(log) \in Nat \ {0} /\ Head(log) = log[1]
    BY EmptySeq, LenProperties
<1> DEFINE new == Tail(log)
<1>3. /\ Len(new) = Len(log) - 1 /\ new \in Seq(Event)
      /\ \A k \in 1..(Len(log) - 1) : new[k] = log[k + 1]
    BY <1>1
<1> HIDE DEF new
<1>4. \A k \in 1..Len(log) : log[k] \in Nat
    BY MqttAssumption, ElementOfSeq DEF Event
<1>5. Rising(new, n)
    <2>1. \A k \in 1..Len(new) : k + 1 \in 1..Len(log) /\ k \in 1..(Len(log) - 1) /\ k \in Nat
        BY <1>2, <1>3
    <2>2. ASSUME NEW j \in 1..Len(new), NEW k \in 1..Len(new), j < k
          PROVE  new[j] < new[k]
        BY <1>3, <2>1, <2>2, SMTT(30) DEF Rising
    <2>3. ASSUME NEW k \in 1..Len(new)
          PROVE  k <= new[k] /\ new[k] <= n
        <3>1. k + 1 <= log[k + 1] /\ log[k + 1] <= n /\ log[k + 1] \in Nat /\ new[k] = log[k + 1]
            BY <1>3, <1>4, <2>1 DEF Rising
        <3> QED
            BY <2>1, <3>1
    <2> QED
        BY <2>2, <2>3 DEF Rising
<1>6. ASSUME NEW x \in Event, In(x, log)
      PROVE  x = log[1] \/ In(x, new)
    <2>1. PICK k \in 1..Len(log) : log[k] = x
        BY <1>6 DEF In
    <2>2. CASE k = 1
        BY <2>1, <2>2
    <2>3. CASE k # 1
        <3>1. k - 1 \in 1..Len(new) /\ new[k - 1] = x
            BY <1>2, <1>3, <2>1, <2>3
        <3> QED
            BY <3>1 DEF In
    <2> QED
        BY <2>2, <2>3
<1> QED
    BY <1>1, <1>2, <1>3, <1>5, <1>6 DEF new

LEMMA RisesOn ==
    ASSUME NEW log \in Seq(Event), NEW n \in Nat, NEW m \in Nat, Rising(log, n), n <= m
    PROVE  Rising(log, m)
<1>1. \A k \in 1..Len(log) : log[k] \in Nat
    BY MqttAssumption, ElementOfSeq DEF Event
<1> QED
    BY <1>1 DEF Rising

\* Nothing is given twice by moving it from the inbox to what was sent.
LEMMA GivenMoves ==
    ASSUME NEW sent \in Seq(Event), NEW inbox \in Seq(Event), inbox # <<>>
    PROVE  /\ Append(sent, Head(inbox)) \in Seq(Event) /\ Tail(inbox) \in Seq(Event)
           /\ Head(inbox) \in Event
           /\ Append(sent, Head(inbox)) \o Tail(inbox) = sent \o inbox
<1> DEFINE e == Head(inbox)
           a == Append(sent, e)
           b == Tail(inbox)
<1>1. /\ e \in Event /\ b \in Seq(Event) /\ Len(b) = Len(inbox) - 1
      /\ \A k \in 1..Len(b) : b[k] = inbox[k + 1]
      /\ e = inbox[1] /\ Len(inbox) \in Nat \ {0} /\ Len(sent) \in Nat
    BY HeadTailProperties, EmptySeq, LenProperties
<1>2. /\ a \in Seq(Event) /\ Len(a) = Len(sent) + 1
      /\ \A k \in 1..Len(sent) : a[k] = sent[k]
      /\ a[Len(sent) + 1] = e
    BY <1>1, AppendProperties
<1> HIDE DEF e, a, b
<1>3. /\ a \o b \in Seq(Event) /\ Len(a \o b) = Len(a) + Len(b)
      /\ \A k \in 1..(Len(a) + Len(b)) : (a \o b)[k] = IF k <= Len(a) THEN a[k] ELSE b[k - Len(a)]
    BY <1>1, <1>2, ConcatProperties
<1>4. /\ sent \o inbox \in Seq(Event) /\ Len(sent \o inbox) = Len(sent) + Len(inbox)
      /\ \A k \in 1..(Len(sent) + Len(inbox)) :
            (sent \o inbox)[k] = IF k <= Len(sent) THEN sent[k] ELSE inbox[k - Len(sent)]
    BY ConcatProperties
<1>5. Len(a \o b) = Len(sent \o inbox)
    BY <1>1, <1>2, <1>3, <1>4
<1>6. ASSUME NEW k \in 1..Len(a \o b)
      PROVE  (a \o b)[k] = (sent \o inbox)[k]
    <2>1. k \in 1..(Len(sent) + Len(inbox)) /\ k \in 1..(Len(a) + Len(b))
        BY <1>3, <1>4, <1>5, <1>6
    <2>2. CASE k <= Len(sent)
        BY <1>1, <1>2, <1>3, <1>4, <2>1, <2>2
    <2>3. CASE k = Len(sent) + 1
        <3>1. (a \o b)[k] = e
            BY <1>1, <1>2, <1>3, <2>1, <2>3
        <3>2. (sent \o inbox)[k] = inbox[1]
            BY <1>1, <1>4, <2>1, <2>3
        <3> QED
            BY <1>1, <3>1, <3>2
    <2>4. CASE k > Len(sent) + 1
        <3>1. (a \o b)[k] = b[k - Len(sent) - 1] /\ k - Len(sent) - 1 \in 1..Len(b)
            BY <1>1, <1>2, <1>3, <2>1, <2>4
        <3>2. (sent \o inbox)[k] = inbox[k - Len(sent)]
            BY <1>1, <1>4, <2>1, <2>4
        <3>3. (k - Len(sent) - 1) + 1 = k - Len(sent)
            BY <1>1, <2>1
        <3> QED
            BY <1>1, <3>1, <3>2, <3>3
    <2> QED
        BY <1>1, <2>1, <2>2, <2>3, <2>4, SMTT(30)
<1>7. a \o b = sent \o inbox
    BY <1>3, <1>4, <1>5, <1>6, SeqEqual
<1> QED
    BY <1>1, <1>2, <1>7 DEF a, b, e

\* A delivery comes last of what is given.
LEMMA GivenAppends ==
    ASSUME NEW sent \in Seq(Event), NEW inbox \in Seq(Event), NEW e \in Event
    PROVE  sent \o Append(inbox, e) = Append(sent \o inbox, e)
<1>1. /\ inbox \o <<e>> = Append(inbox, e) /\ <<e>> \in Seq(Event)
      /\ sent \o inbox \in Seq(Event)
    BY AppendIsConcat, ConcatProperties
<1>2. Append(sent \o inbox, e) = (sent \o inbox) \o <<e>>
    BY <1>1, AppendIsConcat
<1> QED
    BY <1>1, <1>2, ConcatAssociative

LEMMA GivenIsSeq ==
    ASSUME NEW x \in Stream
    PROVE  Given(x) \in Seq(Event) /\ x.sent \in Seq(Event) /\ x.inbox \in Seq(Event)
<1>1. x.sent \in Seq(Event) /\ x.inbox \in Seq(Event)
    BY DEF Stream
<1> QED
    BY <1>1, ConcatProperties DEF Given

-----------------------------------------------------------------------------
(***************************************************************************)
(* The types of the parts of the state.                                    *)
(***************************************************************************)

LEMMA Parts ==
    ASSUME TypeOK
    PROVE  /\ published \in Nat /\ published <= MaxEvents /\ MaxEvents \in Nat
           /\ MaxQueued \in Nat \ {0}
           /\ DOMAIN session = SubscriberIds /\ DOMAIN stream = Streams
           /\ \A id \in SubscriberIds :
                 /\ session[id] \in Session
                 /\ session[id].known \in BOOLEAN
                 /\ session[id].link \in Streams \cup {Nobody}
                 /\ session[id].queue \in Seq(Event)
                 /\ session[id].flying \in 0..MaxQueued /\ session[id].flying \in Nat
                 /\ session[id].dropped \in SUBSET Event
                 /\ session[id].owed \in 0..MaxEvents
           /\ \A s \in Streams :
                 /\ stream[s] \in Stream
                 /\ stream[s].phase \in Phases
                 /\ stream[s].client \in Clients \cup {Nobody}
                 /\ stream[s].id \in SubscriberIds \cup {Nobody}
                 /\ stream[s].joined \in 0..MaxEvents
                 /\ stream[s].inbox \in Seq(Event)
                 /\ stream[s].sent \in Seq(Event)
                 /\ Given(stream[s]) \in Seq(Event)
           /\ Nobody \notin Streams /\ Nobody \notin Clients /\ Nobody \notin SubscriberIds
<1>1. /\ published \in Nat /\ published <= MaxEvents /\ MaxEvents \in Nat
      /\ MaxQueued \in Nat \ {0}
    BY MqttAssumption DEF TypeOK
<1>2. ASSUME NEW id \in SubscriberIds
      PROVE  /\ session[id] \in Session
             /\ session[id].known \in BOOLEAN
             /\ session[id].link \in Streams \cup {Nobody}
             /\ session[id].queue \in Seq(Event)
             /\ session[id].flying \in 0..MaxQueued
             /\ session[id].dropped \in SUBSET Event
             /\ session[id].owed \in 0..MaxEvents
    <2>1. session[id] \in Session
        BY <1>2 DEF TypeOK
    <2> QED
        BY <2>1 DEF Session
<1>3. ASSUME NEW s \in Streams
      PROVE  /\ stream[s] \in Stream
             /\ stream[s].phase \in Phases
             /\ stream[s].client \in Clients \cup {Nobody}
             /\ stream[s].id \in SubscriberIds \cup {Nobody}
             /\ stream[s].joined \in 0..MaxEvents
             /\ stream[s].inbox \in Seq(Event)
             /\ stream[s].sent \in Seq(Event)
             /\ Given(stream[s]) \in Seq(Event)
    <2>1. stream[s] \in Stream
        BY <1>3 DEF TypeOK
    <2>2. Given(stream[s]) \in Seq(Event)
        BY <2>1, GivenIsSeq
    <2> QED
        BY <2>1, <2>2 DEF Stream
<1>4. Nobody \notin Streams /\ Nobody \notin Clients /\ Nobody \notin SubscriberIds
    BY MqttAssumption DEF SubscriberIds, Frame
<1>5. DOMAIN session = SubscriberIds /\ DOMAIN stream = Streams
    BY DEF TypeOK
<1>6. \A id \in SubscriberIds : session[id].flying \in Nat
    BY <1>1, <1>2
<1> QED
    BY <1>1, <1>2, <1>3, <1>4, <1>5, <1>6

-----------------------------------------------------------------------------
(***************************************************************************)
(* The broker's steps.                                                     *)
(***************************************************************************)

\* A message is queued behind all others, or dropped.
LEMMA PublishKeeps ==
    ASSUME IInv, Publish
    PROVE  IInv'
<1>1. /\ TypeOK /\ published < MaxEvents /\ published' = published + 1
      /\ stream' = stream /\ client' = client
    BY DEF IInv, Publish
<1> DEFINE n == published
<1>2. n \in Nat /\ n + 1 \in Event /\ n + 1 \in 0..MaxEvents
    BY <1>1, Parts DEF Event
<1>3. ASSUME NEW id \in SubscriberIds
      PROVE  /\ session'[id] \in Session
             /\ SessionInv(session'[id], n + 1)
             /\ session'[id].link = session[id].link
             /\ session'[id].flying = session[id].flying
             /\ Len(session[id].queue) \in Nat
             /\ \A k \in 1..Len(session[id].queue) : session'[id].queue[k] = session[id].queue[k]
             /\ session[id].known =>
                    /\ In(n + 1, session'[id].queue) \/ n + 1 \in session'[id].dropped
                    /\ \A e \in Event : In(e, session[id].queue) \/ e \in session[id].dropped
                          => In(e, session'[id].queue) \/ e \in session'[id].dropped
                    /\ \A k \in 1..Len(session'[id].queue) :
                          k \notin 1..Len(session[id].queue) => session'[id].queue[k] = n + 1
             /\ ~session[id].known => session'[id] = session[id]
    <2> DEFINE x == session[id]
               y == session'[id]
    <2>1. /\ x \in Session /\ x.known \in BOOLEAN /\ x.link \in Streams \cup {Nobody}
          /\ x.queue \in Seq(Event) /\ x.flying \in 0..MaxQueued /\ x.flying \in Nat
          /\ x.dropped \in SUBSET Event /\ x.owed \in 0..MaxEvents
          /\ MaxQueued \in Nat /\ Len(x.queue) \in Nat
        BY <1>1, Parts, LenProperties
    <2>2. SessionInv(x, n)
        BY DEF IInv
    <2>3. y = IF ~x.known THEN x
              ELSE IF Len(x.queue) < MaxQueued
              THEN [x EXCEPT !.queue = Append(@, n + 1)]
              ELSE [x EXCEPT !.dropped = @ \cup {n + 1}]
        BY DEF Publish
    <2>4. \A k \in 1..Len(x.queue) : x.queue[k] < n + 1
        <3>1. \A k \in 1..Len(x.queue) : x.queue[k] \in Nat /\ x.queue[k] <= n
            BY <1>1, <2>1, <2>2, Parts, ElementOfSeq, SMTT(30) DEF SessionInv, Rising, Event
        <3> QED
            BY <1>2, <3>1
    <2> HIDE DEF x, y, n
    <2>5. CASE ~x.known
        <3>1. y = x
            BY <2>3, <2>5
        <3>2. Rising(x.queue, n + 1)
            BY <1>2, <2>1, <2>2, RisesOn DEF SessionInv
        <3>3. SessionInv(x, n + 1)
            BY <2>2, <2>5, <3>2 DEF SessionInv
        <3> QED
            BY <2>1, <2>5, <3>1, <3>3 DEF x, y, n
    <2>6. CASE x.known /\ Len(x.queue) < MaxQueued
        <3>1. y = [x EXCEPT !.queue = Append(x.queue, n + 1)]
            BY <2>3, <2>6
        <3>2. /\ y.known = x.known /\ y.link = x.link /\ y.flying = x.flying
              /\ y.dropped = x.dropped /\ y.owed = x.owed
              /\ y.queue = Append(x.queue, n + 1)
            BY <2>1, <3>1 DEF Session
        <3>3. /\ y.queue \in Seq(Event) /\ Len(y.queue) = Len(x.queue) + 1
              /\ \A k \in 1..Len(x.queue) : y.queue[k] = x.queue[k]
              /\ y.queue[Len(x.queue) + 1] = n + 1
              /\ Rising(y.queue, n + 1)
              /\ In(n + 1, y.queue)
              /\ \A e \in Event : In(e, x.queue) => In(e, y.queue)
            BY <1>2, <2>1, <2>2, <2>4, <3>2, AppendRises, SMTT(30) DEF SessionInv
        <3>4. y \in Session
            BY <2>1, <3>1, <3>2, <3>3 DEF Session
        <3>5. \A e \in Event : In(e, x.queue) \/ e \in x.dropped
                                   => In(e, y.queue) \/ e \in y.dropped
            BY <3>2, <3>3
        <3>6. ASSUME y.link = Nobody, NEW e \in (y.owed + 1)..(n + 1)
              PROVE  In(e, y.queue) \/ e \in y.dropped
            <4>1. e = n + 1 \/ (e \in (x.owed + 1)..n /\ e \in Event)
                BY <1>1, <1>2, <2>1, <3>2, <3>6, Parts DEF Event, n
            <4>2. x.known /\ x.link = Nobody
                BY <2>6, <3>2, <3>6
            <4> QED
                BY <2>2, <3>3, <3>5, <4>1, <4>2 DEF SessionInv
        <3>7. SessionInv(y, n + 1)
            BY <2>1, <2>2, <2>6, <3>2, <3>3, <3>6 DEF SessionInv
        <3>8. \A k \in 1..Len(y.queue) : k \notin 1..Len(x.queue) => y.queue[k] = n + 1
            BY <2>1, <3>3
        <3> QED
            BY <2>1, <2>6, <3>2, <3>3, <3>4, <3>5, <3>7, <3>8 DEF x, y, n
    <2>7. CASE x.known /\ ~(Len(x.queue) < MaxQueued)
        <3>1. y = [x EXCEPT !.dropped = x.dropped \cup {n + 1}]
            BY <2>3, <2>7
        <3>2. /\ y.known = x.known /\ y.link = x.link /\ y.flying = x.flying
              /\ y.dropped = x.dropped \cup {n + 1} /\ y.owed = x.owed
              /\ y.queue = x.queue
            BY <2>1, <3>1 DEF Session
        <3>3. y \in Session
            BY <1>2, <2>1, <3>1 DEF Session, n
        <3>4. Rising(y.queue, n + 1)
            BY <1>2, <2>1, <2>2, <3>2, RisesOn DEF SessionInv
        <3>5. ASSUME y.link = Nobody, NEW e \in (y.owed + 1)..(n + 1)
              PROVE  In(e, y.queue) \/ e \in y.dropped
            <4>1. e = n + 1 \/ e \in (x.owed + 1)..n
                BY <1>2, <2>1, <3>2, <3>5 DEF n
            <4>2. x.known /\ x.link = Nobody
                BY <2>7, <3>2, <3>5
            <4> QED
                BY <2>2, <3>2, <4>1, <4>2 DEF SessionInv
        <3>6. SessionInv(y, n + 1)
            BY <2>2, <2>7, <3>2, <3>4, <3>5 DEF SessionInv
        <3> QED
            BY <2>1, <2>7, <3>2, <3>3, <3>6 DEF x, y, n
    <2> QED
        BY <2>5, <2>6, <2>7
<1>4. TypeOK'
    <2>1. session' \in [SubscriberIds -> Session]
        BY <1>3 DEF Publish
    <2> QED
        BY <1>1, <1>2, <2>1 DEF TypeOK
<1>5. ASSUME NEW s \in Streams
      PROVE  StreamInv(stream[s], n + 1)
    <2>1. StreamInv(stream[s], n) /\ Given(stream[s]) \in Seq(Event)
        BY <1>1, Parts DEF IInv
    <2> HIDE DEF n
    <2>2. Rising(Given(stream[s]), n + 1)
        BY <1>2, <2>1, RisesOn DEF StreamInv
    <2> QED
        BY <2>1, <2>2 DEF StreamInv
<1>6. ASSUME NEW id \in SubscriberIds, session'[id].link # Nobody
      PROVE  /\ stream[session'[id].link].id = id
             /\ LinkInv(stream[session'[id].link], session'[id], n + 1)
    <2> DEFINE x == session[id]
               y == session'[id]
               r == stream[x.link]
    <2>1. /\ x.link # Nobody /\ y.link = x.link /\ r.id = id /\ LinkInv(r, x, n)
          /\ SessionInv(x, n) /\ x.known
        BY <1>3, <1>6 DEF IInv, SessionInv
    <2>2. /\ Given(r) \in Seq(Event) /\ r.joined \in 0..MaxEvents
          /\ StreamInv(r, n) /\ x.queue \in Seq(Event) /\ x.flying \in Nat
        BY <1>1, <2>1, Parts DEF IInv
    <2>3. /\ y.flying = x.flying /\ Len(x.queue) \in Nat
          /\ \A k \in 1..Len(x.queue) : y.queue[k] = x.queue[k]
          /\ In(n + 1, y.queue) \/ n + 1 \in y.dropped
          /\ \A e \in Event : In(e, x.queue) \/ e \in x.dropped => In(e, y.queue) \/ e \in y.dropped
          /\ \A k \in 1..Len(y.queue) : k \notin 1..Len(x.queue) => y.queue[k] = n + 1
        BY <1>3, <2>1
    <2> HIDE DEF x, y, r
    <2>4. ASSUME NEW k \in 1..y.flying
          PROVE  In(y.queue[k], Given(r))
        BY <2>1, <2>2, <2>3 DEF LinkInv, SessionInv
    <2>5. ASSUME NEW k \in (y.flying + 1)..Len(y.queue), NEW j \in 1..Len(Given(r))
          PROVE  Given(r)[j] < y.queue[k]
        <3>1. Given(r)[j] \in Nat /\ Given(r)[j] <= n
            <4>1. MaxEvents \in Nat /\ Given(r)[j] \in Event
                BY <1>1, <2>2, Parts, ElementOfSeq
            <4>2. Given(r)[j] <= n
                BY <2>2 DEF StreamInv, Rising
            <4> QED
                BY <4>1, <4>2 DEF Event
        <3>2. CASE k \in 1..Len(x.queue)
            <4>1. k \in (x.flying + 1)..Len(x.queue)
                BY <2>2, <2>3, <3>2
            <4> QED
                BY <2>1, <2>3, <3>2, <4>1 DEF LinkInv
        <3>3. CASE k \notin 1..Len(x.queue)
            <4>1. k \in 1..Len(y.queue)
                BY <2>2, <2>3
            <4> QED
                BY <1>2, <2>3, <3>1, <3>3, <4>1
        <3> QED
            BY <3>2, <3>3
    <2>6. ASSUME NEW e \in (r.joined + 1)..(n + 1)
          PROVE  In(e, Given(r)) \/ In(e, y.queue) \/ e \in y.dropped
        <3>1. e = n + 1 \/ (e \in (r.joined + 1)..n /\ e \in Event)
            BY <1>1, <1>2, <2>2, Parts DEF Event
        <3> QED
            BY <2>1, <2>3, <3>1 DEF LinkInv
    <2>7. LinkInv(r, y, n + 1)
        BY <2>4, <2>5, <2>6 DEF LinkInv
    <2> QED
        BY <2>1, <2>7 DEF r, x, y
<1> QED
    BY <1>1, <1>3, <1>4, <1>5, <1>6 DEF IInv


\* The first message that was not delivered is newer than all that was given.
LEMMA DeliverKeeps ==
    ASSUME IInv, NEW id \in SubscriberIds, Deliver(id)
    PROVE  IInv'
<1> DEFINE n == published
           x == session[id]
           s == x.link
           r == stream[s]
           e == x.queue[x.flying + 1]
           y == [x EXCEPT !.flying = x.flying + 1]
           t == [r EXCEPT !.inbox = Append(r.inbox, e)]
<1>1. /\ TypeOK /\ x.link # Nobody /\ x.flying < Len(x.queue)
      /\ session' = [session EXCEPT ![id] = y]
      /\ stream' = [stream EXCEPT ![s] = t]
      /\ published' = n /\ client' = client
    BY DEF IInv, Deliver
<1>2. /\ s \in Streams /\ n \in Nat /\ n <= MaxEvents /\ MaxEvents \in Nat /\ MaxQueued \in Nat
      /\ x \in Session /\ r \in Stream /\ x.queue \in Seq(Event) /\ x.flying \in Nat
      /\ x.flying \in 0..MaxQueued
      /\ r.sent \in Seq(Event) /\ r.inbox \in Seq(Event) /\ Given(r) \in Seq(Event)
      /\ Len(x.queue) \in Nat
    BY <1>1, Parts, LenProperties
<1>3. /\ SessionInv(x, n) /\ StreamInv(r, n) /\ r.id = id /\ LinkInv(r, x, n)
    BY <1>1, <1>2 DEF IInv
<1>4. e \in Event /\ e \in Nat /\ e <= n /\ x.flying + 1 \in (x.flying + 1)..Len(x.queue)
    <2>1. x.flying + 1 \in (x.flying + 1)..Len(x.queue) /\ x.flying + 1 \in 1..Len(x.queue)
        BY <1>1, <1>2, SMTT(30)
    <2>2. e \in Event /\ e <= n
        BY <1>2, <1>3, <2>1, ElementOfSeq DEF SessionInv, Rising
    <2> QED
        <3>1. MaxEvents \in Nat
            BY <1>2
        <3>2. e \in Nat
            BY <2>2, <3>1 DEF Event
        <3> QED
            BY <2>1, <2>2, <3>2
<1>5. \A k \in 1..Len(Given(r)) : Given(r)[k] < e
    BY <1>3, <1>4 DEF LinkInv
<1> HIDE DEF n, x, s, r, e
<1>6. /\ y.known = x.known /\ y.link = x.link /\ y.flying = x.flying + 1
      /\ y.dropped = x.dropped /\ y.owed = x.owed /\ y.queue = x.queue
    BY <1>2 DEF Session
<1>7. /\ t.phase = r.phase /\ t.client = r.client /\ t.id = r.id /\ t.joined = r.joined
      /\ t.sent = r.sent /\ t.inbox = Append(r.inbox, e)
      /\ Append(r.inbox, e) \in Seq(Event)
    BY <1>2, <1>4, AppendProperties DEF Stream
<1>8. /\ Given(t) = Append(Given(r), e)
      /\ Given(t) \in Seq(Event) /\ Len(Given(t)) = Len(Given(r)) + 1
      /\ Len(Given(r)) \in Nat
      /\ \A k \in 1..Len(Given(r)) : Given(t)[k] = Given(r)[k]
      /\ Given(t)[Len(Given(r)) + 1] = e
      /\ Rising(Given(t), n)
      /\ In(e, Given(t))
      /\ \A z \in Event : In(z, Given(r)) => In(z, Given(t))
    <2> HIDE DEF t
    <2>1. Given(t) = Append(Given(r), e)
        <3>1. r.sent \o Append(r.inbox, e) = Append(r.sent \o r.inbox, e)
            BY <1>2, <1>4, GivenAppends
        <3> QED
            BY <1>7, <3>1 DEF Given
    <2>2. Rising(Given(r), n)
        BY <1>3 DEF StreamInv
    <2> QED
        BY <1>2, <1>4, <1>5, <2>1, <2>2, AppendRises, SMTT(30)
<1>9. y \in Session
    <2>1. x.flying + 1 \in 0..MaxQueued
        BY <1>1, <1>2, <1>3 DEF SessionInv
    <2> QED
        BY <1>2, <2>1 DEF Session
<1>10. t \in Stream
    BY <1>2, <1>7 DEF Stream
<1> HIDE DEF y, t
<1>11. SessionInv(y, n)
    BY <1>1, <1>2, <1>3, <1>6 DEF SessionInv
<1>12. StreamInv(t, n)
    <2>1. r.phase # "new"
        BY <1>3, Parts, <1>1 DEF StreamInv
    <2> QED
        BY <1>7, <1>8, <2>1 DEF StreamInv
<1>13. LinkInv(t, y, n)
    <2>1. ASSUME NEW k \in 1..y.flying
          PROVE  In(y.queue[k], Given(t))
        <3>1. CASE k = x.flying + 1
            BY <1>6, <1>8, <3>1 DEF e
        <3>2. CASE k # x.flying + 1
            <4>1. k \in 1..x.flying /\ k \in 1..Len(x.queue)
                BY <1>1, <1>2, <1>6, <3>2
            <4>2. x.queue[k] \in Event
                BY <1>2, <4>1, ElementOfSeq
            <4> QED
                BY <1>3, <1>6, <1>8, <4>1, <4>2 DEF LinkInv
        <3> QED
            BY <3>1, <3>2
    <2>2. ASSUME NEW k \in (y.flying + 1)..Len(y.queue), NEW j \in 1..Len(Given(t))
          PROVE  Given(t)[j] < y.queue[k]
        <3>1. CASE j = Len(Given(r)) + 1
            <4>1. x.flying + 1 \in 1..Len(x.queue) /\ k \in 1..Len(x.queue) /\ x.flying + 1 < k
                BY <1>1, <1>2, <1>6, SMTT(30)
            <4> QED
                BY <1>3, <1>6, <1>8, <3>1, <4>1 DEF SessionInv, Rising, e
        <3>2. CASE j # Len(Given(r)) + 1
            <4>1. j \in 1..Len(Given(r)) /\ k \in (x.flying + 1)..Len(x.queue)
                BY <1>2, <1>6, <1>8, <3>2
            <4> QED
                BY <1>3, <1>6, <1>8, <4>1 DEF LinkInv
        <3> QED
            BY <3>1, <3>2
    <2>3. ASSUME NEW k \in (t.joined + 1)..n
          PROVE  In(k, Given(t)) \/ In(k, y.queue) \/ k \in y.dropped
        <3>1. k \in Event
            <4>1. t.joined \in Nat
                BY <1>2, <1>7 DEF Stream
            <4> QED
                BY <1>2, <4>1 DEF Event
        <3> QED
            BY <1>3, <1>6, <1>7, <1>8, <3>1 DEF LinkInv
    <2> QED
        BY <2>1, <2>2, <2>3 DEF LinkInv
<1>14. TypeOK'
    BY <1>1, <1>2, <1>9, <1>10 DEF TypeOK, n
<1>15. ASSUME NEW i \in SubscriberIds
      PROVE  /\ SessionInv(session'[i], published')
             /\ session'[i].link # Nobody =>
                    /\ stream'[session'[i].link].id = i
                    /\ LinkInv(stream'[session'[i].link], session'[i], published')
    <2>1. CASE i = id
        <3>1. session'[i] = y /\ y.link = s /\ stream'[s] = t
            BY <1>1, <1>2, <1>6, <2>1, Parts DEF s
        <3> QED
            BY <1>1, <1>3, <1>7, <1>11, <1>13, <2>1, <3>1
    <2>2. CASE i # id
        <3>1. session'[i] = session[i]
            BY <1>1, <2>2, Parts
        <3>2. session[i].link # Nobody => session[i].link # s /\ session[i].link \in Streams
            BY <1>1, <1>3, <2>2, Parts DEF IInv, r
        <3>3. session[i].link # Nobody => stream'[session[i].link] = stream[session[i].link]
            BY <1>1, <3>2, Parts
        <3> QED
            BY <1>1, <3>1, <3>2, <3>3 DEF IInv, n
    <2> QED
        BY <2>1, <2>2
<1>16. ASSUME NEW i \in Streams
      PROVE  StreamInv(stream'[i], published')
    <2>1. CASE i = s
        BY <1>1, <1>2, <1>12, <2>1, Parts
    <2>2. CASE i # s
        BY <1>1, <2>2, Parts DEF IInv, n
    <2> QED
        BY <2>1, <2>2
<1> QED
    BY <1>14, <1>15, <1>16 DEF IInv

\* Only what was delivered is acknowledged.
LEMMA AcknowledgeKeeps ==
    ASSUME IInv, NEW id \in SubscriberIds, Acknowledge(id)
    PROVE  IInv'
<1> DEFINE n == published
           x == session[id]
           r == stream[x.link]
           y == [x EXCEPT !.queue = Tail(x.queue), !.flying = x.flying - 1]
<1>1. /\ TypeOK /\ x.flying > 0
      /\ session' = [session EXCEPT ![id] = y]
      /\ stream' = stream /\ published' = n /\ client' = client
    BY DEF IInv, Acknowledge
<1>2. /\ n \in Nat /\ n <= MaxEvents /\ MaxEvents \in Nat /\ MaxQueued \in Nat
      /\ x \in Session /\ x.queue \in Seq(Event) /\ x.flying \in Nat
      /\ x.flying \in 0..MaxQueued /\ Len(x.queue) \in Nat
    BY <1>1, Parts, LenProperties
<1>3. SessionInv(x, n) /\ x.link # Nobody
    BY <1>1 DEF IInv, SessionInv
<1>4. /\ r.id = id /\ LinkInv(r, x, n) /\ Given(r) \in Seq(Event) /\ r.joined \in 0..MaxEvents
    BY <1>1, <1>3, Parts DEF IInv
<1>5. x.queue # <<>>
    BY <1>1, <1>2, <1>3, EmptySeq DEF SessionInv
<1> HIDE DEF n, x, r
<1>6. /\ y.known = x.known /\ y.link = x.link /\ y.flying = x.flying - 1
      /\ y.dropped = x.dropped /\ y.owed = x.owed /\ y.queue = Tail(x.queue)
    BY <1>2 DEF Session
<1>7. /\ y.queue \in Seq(Event) /\ Len(y.queue) = Len(x.queue) - 1
      /\ \A k \in 1..(Len(x.queue) - 1) : y.queue[k] = x.queue[k + 1]
      /\ Rising(y.queue, n)
      /\ \A z \in Event : In(z, x.queue) => z = x.queue[1] \/ In(z, y.queue)
    <2> HIDE DEF y
    <2> QED
        BY <1>2, <1>3, <1>5, <1>6, TailRises DEF SessionInv
<1>8. y \in Session
    <2>1. x.flying - 1 \in 0..MaxQueued /\ Tail(x.queue) \in Seq(Event)
        BY <1>1, <1>2, <1>6, <1>7
    <2> QED
        BY <1>2, <2>1 DEF Session
<1> HIDE DEF y
<1>9. SessionInv(y, n)
    BY <1>1, <1>2, <1>3, <1>6, <1>7 DEF SessionInv
<1>10. LinkInv(r, y, n)
    <2>1. ASSUME NEW k \in 1..y.flying
          PROVE  In(y.queue[k], Given(r))
        <3>1. k + 1 \in 1..x.flying /\ k \in 1..(Len(x.queue) - 1)
            BY <1>1, <1>2, <1>3, <1>6 DEF SessionInv
        <3> QED
            BY <1>4, <1>7, <3>1 DEF LinkInv
    <2>2. ASSUME NEW k \in (y.flying + 1)..Len(y.queue), NEW j \in 1..Len(Given(r))
          PROVE  Given(r)[j] < y.queue[k]
        <3>1. k + 1 \in (x.flying + 1)..Len(x.queue) /\ k \in 1..(Len(x.queue) - 1)
            BY <1>1, <1>2, <1>6, <1>7, SMTT(30)
        <3> QED
            BY <1>4, <1>7, <3>1 DEF LinkInv
    <2>3. ASSUME NEW k \in (r.joined + 1)..n
          PROVE  In(k, Given(r)) \/ In(k, y.queue) \/ k \in y.dropped
        <3>1. k \in Event
            BY <1>2, <1>4 DEF Event
        <3>2. In(x.queue[1], Given(r))
            BY <1>1, <1>2, <1>4 DEF LinkInv
        <3> QED
            BY <1>4, <1>6, <1>7, <3>1, <3>2 DEF LinkInv
    <2> QED
        BY <2>1, <2>2, <2>3 DEF LinkInv
<1>11. TypeOK'
    BY <1>1, <1>8 DEF TypeOK, n
<1>12. ASSUME NEW i \in SubscriberIds
      PROVE  /\ SessionInv(session'[i], n)
             /\ session'[i].link # Nobody =>
                    /\ stream[session'[i].link].id = i
                    /\ LinkInv(stream[session'[i].link], session'[i], n)
    <2>1. CASE i = id
        BY <1>1, <1>4, <1>6, <1>9, <1>10, <2>1, Parts DEF r
    <2>2. CASE i # id
        <3>1. session'[i] = session[i]
            BY <1>1, <2>2, Parts
        <3> QED
            BY <3>1 DEF IInv, n
    <2> QED
        BY <2>1, <2>2
<1>13. \A i \in Streams : StreamInv(stream[i], n)
    BY DEF IInv, n
<1> QED
    BY <1>1, <1>11, <1>12, <1>13 DEF IInv

\* An expired session is as good as new.
LEMMA ExpireKeeps ==
    ASSUME IInv, NEW id \in SubscriberIds, Expire(id)
    PROVE  IInv'
<1>1. /\ TypeOK /\ session' = [session EXCEPT ![id] = NoSession]
      /\ stream' = stream /\ published' = published /\ client' = client
    BY DEF IInv, Expire
<1>2. NoSession \in Session /\ SessionInv(NoSession, published) /\ NoSession.link = Nobody
    <2>1. <<>> \in Seq(Event) /\ Len(<<>>) = 0
        BY EmptySeq
    <2> QED
        BY <1>1, <2>1, Parts DEF NoSession, Session, SessionInv, Rising
<1>3. TypeOK'
    BY <1>1, <1>2 DEF TypeOK
<1>4. ASSUME NEW i \in SubscriberIds
      PROVE  /\ SessionInv(session'[i], published)
             /\ session'[i].link # Nobody =>
                    /\ stream[session'[i].link].id = i
                    /\ LinkInv(stream[session'[i].link], session'[i], published)
    <2>1. session'[i] = IF i = id THEN NoSession ELSE session[i]
        BY <1>1, Parts
    <2> QED
        BY <1>2, <2>1 DEF IInv
<1>5. \A i \in Streams : StreamInv(stream[i], published)
    BY DEF IInv
<1> QED
    BY <1>1, <1>3, <1>4, <1>5 DEF IInv


-----------------------------------------------------------------------------
(***************************************************************************)
(* The steps of the subscribers and of the server.                         *)
(***************************************************************************)

\* A step that leaves the sessions alone and changes at most one response,
\* without giving it anything or giving it back to "new".
LEMMA OnlyPhases ==
    ASSUME IInv, NEW s \in Streams, NEW t \in Stream,
           session' = session, published' = published,
           stream' = [stream EXCEPT ![s] = t], client' \in [Clients -> Client],
           t.phase = "new" => t = stream[s],
           t.id = stream[s].id, t.joined = stream[s].joined, Given(t) = Given(stream[s])
    PROVE  IInv'
<1>1. TypeOK /\ stream[s] \in Stream
    BY Parts DEF IInv
<1>2. TypeOK'
    BY <1>1 DEF TypeOK
<1>3. ASSUME NEW i \in Streams
      PROVE  StreamInv(stream'[i], published)
    <2>1. stream'[i] = IF i = s THEN t ELSE stream[i]
        BY <1>1, Parts
    <2>2. StreamInv(stream[i], published) /\ StreamInv(stream[s], published)
        BY DEF IInv
    <2> QED
        BY <2>1, <2>2 DEF StreamInv
<1>4. ASSUME NEW id \in SubscriberIds, session[id].link # Nobody
      PROVE  /\ stream'[session[id].link].id = id
             /\ LinkInv(stream'[session[id].link], session[id], published)
    <2> DEFINE i == session[id].link
    <2>1. i \in Streams
        BY <1>1, <1>4, Parts
    <2>2. stream'[i] = IF i = s THEN t ELSE stream[i]
        BY <1>1, <2>1, Parts
    <2>3. stream[i].id = id /\ LinkInv(stream[i], session[id], published)
        BY <1>4 DEF IInv
    <2> QED
        BY <2>2, <2>3 DEF LinkInv
<1> QED
    BY <1>2, <1>3, <1>4 DEF IInv

\* What a client may be told.
LEMMA ShowsIsTyped ==
    ASSUME TypeOK, NEW s \in Streams, NEW frame \in Frame, NEW events \in SUBSET Event,
           Shows(s, frame, events)
    PROVE  client' \in [Clients -> Client]
<1>1. client \in [Clients -> Client]
    BY DEF TypeOK
<1>2. CASE ~Here(s)
    BY <1>1, <1>2 DEF Shows
<1>3. CASE Here(s)
    <2> DEFINE c == stream[s].client
    <2>1. c \in Clients
        BY <1>3, Parts DEF Here
    <2>2. client[c] \in Client
        BY <1>1, <2>1
    <2>3. [client[c] EXCEPT !.greeted = TRUE, !.frame = frame, !.got = client[c].got \cup events]
              \in Client
        BY <2>2 DEF Client
    <2>4. client' = [client EXCEPT ![c] =
              [client[c] EXCEPT !.greeted = TRUE, !.frame = frame, !.got = client[c].got \cup events]]
        BY <1>3 DEF Shows
    <2> QED
        BY <1>1, <2>1, <2>3, <2>4
<1> QED
    BY <1>2, <1>3

LEMMA NoticedIsTyped ==
    ASSUME TypeOK, NEW s \in Streams, Noticed(s)
    PROVE  client' \in [Clients -> Client]
<1> DEFINE c == stream[s].client
<1>1. client \in [Clients -> Client] /\ published \in 0..MaxEvents
    BY DEF TypeOK
<1>2. client' = client \/ client' = [client EXCEPT ![c].left = published]
    BY DEF Noticed
<1>3. CASE c \in Clients
    <2>1. client[c] \in Client
        BY <1>1, <1>3
    <2>2. [client[c] EXCEPT !.left = published] \in Client
        BY <1>1, <2>1 DEF Client
    <2> HIDE DEF c
    <2> QED
        BY <1>1, <1>2, <1>3, <2>2
<1>4. CASE c \notin Clients
    <2> HIDE DEF c
    <2>1. \A d \in Clients : d # c
        BY <1>4
    <2> QED
        BY <1>1, <1>2, <2>1
<1> QED
    BY <1>3, <1>4

LEMMA LeaveKeeps ==
    ASSUME IInv, NEW c \in Clients, Leave(c)
    PROVE  IInv'
<1>1. /\ TypeOK /\ published' = published /\ session' = session /\ stream' = stream
      /\ client' = [client EXCEPT ![c].at = Nobody, ![c].left = MaxEvents]
    BY DEF IInv, Leave
<1>2. client' \in [Clients -> Client]
    <2>1. client \in [Clients -> Client] /\ MaxEvents \in 0..MaxEvents
        BY <1>1, Parts DEF TypeOK
    <2>2. client[c] \in Client
        BY <2>1
    <2>3. [client[c] EXCEPT !.at = Nobody, !.left = MaxEvents] \in Client
        BY <2>1, <2>2 DEF Client
    <2>4. client' = [client EXCEPT ![c] = [client[c] EXCEPT !.at = Nobody, !.left = MaxEvents]]
        BY <1>1, <2>1
    <2> QED
        BY <2>1, <2>3, <2>4
<1>3. TypeOK'
    BY <1>1, <1>2 DEF TypeOK
<1> QED
    BY <1>1, <1>3 DEF IInv

\* Greet, Await and KeepAlive: only the phase of a response changes.
LEMMA WaitingKeeps ==
    ASSUME IInv, NEW s \in Streams, Greet(s) \/ Await(s) \/ KeepAlive(s)
    PROVE  IInv'
<1>1. TypeOK /\ stream[s] \in Stream /\ client \in [Clients -> Client]
    BY Parts DEF IInv, TypeOK
<1>2. PICK p \in {"greeted", "waiting", "alive"} :
          stream' = [stream EXCEPT ![s] = [stream[s] EXCEPT !.phase = p]]
    BY DEF Greet, Await, KeepAlive
<1> DEFINE t == [stream[s] EXCEPT !.phase = p]
<1>3. t \in Stream
    BY <1>1 DEF Stream, Phases, Serving, Loop
<1>4. t.phase # "new" /\ t.id = stream[s].id /\ t.joined = stream[s].joined
      /\ t.sent = stream[s].sent /\ t.inbox = stream[s].inbox
    BY <1>1, <1>2 DEF Stream
<1>5. session' = session /\ published' = published
    BY DEF Greet, Await, KeepAlive
<1>6. client' \in [Clients -> Client]
    <2>1. 0 \in Frame /\ {} \in SUBSET Event
        BY <1>1, Parts DEF Frame
    <2> QED
        BY <1>1, <2>1, ShowsIsTyped DEF Greet, Await, KeepAlive
<1> QED
    BY <1>2, <1>3, <1>4, <1>5, <1>6, OnlyPhases DEF Given

\* A frame takes from the inbox what it shows.
LEMMA FeedKeeps ==
    ASSUME IInv, NEW s \in Streams, Feed(s)
    PROVE  IInv'
<1> DEFINE r == stream[s]
           t == [r EXCEPT !.phase = "fed", !.inbox = Tail(r.inbox),
                          !.sent = Append(r.sent, Head(r.inbox))]
<1>1. /\ TypeOK /\ r \in Stream /\ r.sent \in Seq(Event) /\ r.inbox \in Seq(Event)
      /\ Given(r) \in Seq(Event) /\ StreamInv(r, published)
      /\ published \in Nat /\ published <= MaxEvents /\ MaxEvents \in Nat
    BY Parts DEF IInv
<1>2. /\ r.inbox # <<>> /\ session' = session /\ published' = published
      /\ stream' = [stream EXCEPT ![s] = t]
      /\ Shows(s, Len(r.sent) + 1, {Head(r.inbox)})
    BY DEF Feed
<1> HIDE DEF r
<1>3. /\ Append(r.sent, Head(r.inbox)) \in Seq(Event) /\ Tail(r.inbox) \in Seq(Event)
      /\ Head(r.inbox) \in Event
      /\ Append(r.sent, Head(r.inbox)) \o Tail(r.inbox) = r.sent \o r.inbox
    BY <1>1, <1>2, GivenMoves
<1>4. t \in Stream
    BY <1>1, <1>3 DEF Stream, Phases, Serving, Loop
<1>5. t.phase # "new" /\ t.id = r.id /\ t.joined = r.joined
      /\ t.sent = Append(r.sent, Head(r.inbox)) /\ t.inbox = Tail(r.inbox)
    BY <1>1 DEF Stream
<1> HIDE DEF t
<1>6. Given(t) = Given(r)
    BY <1>3, <1>5 DEF Given
<1>7. Len(r.sent) + 1 \in Frame
    <2>1. Len(r.sent) \in Nat /\ Len(r.inbox) \in Nat \ {0}
          /\ Len(Given(r)) = Len(r.sent) + Len(r.inbox)
        BY <1>1, <1>2, EmptySeq, LenProperties, ConcatProperties DEF Given
    <2> DEFINE i == Len(r.sent)
               j == Len(r.inbox)
    <2>2. Len(r.sent) + 1 \in 1..Len(Given(r))
        <3>1. i \in Nat /\ j \in Nat \ {0} /\ Len(Given(r)) = i + j
            BY <2>1
        <3> HIDE DEF i, j
        <3>2. i + 1 \in 1..(i + j)
            BY <3>1
        <3> QED
            BY <3>1, <3>2 DEF i
    <2>3. Given(r)[Len(r.sent) + 1] \in Nat
        BY <1>1, <2>2, ElementOfSeq DEF Event
    <2>4. i + 1 <= published
        <3>1. i + 1 <= Given(r)[i + 1] /\ Given(r)[i + 1] <= published
            BY <1>1, <2>2 DEF StreamInv, Rising
        <3> DEFINE e == Given(r)[i + 1]
        <3>2. e \in Nat /\ i + 1 <= e /\ e <= published /\ i \in Nat
            BY <2>1, <2>3, <3>1
        <3> HIDE DEF e, i
        <3> QED
            BY <1>1, <3>2
    <2> QED
        BY <1>1, <2>1, <2>4 DEF Frame
<1>8. client' \in [Clients -> Client]
    BY <1>1, <1>2, <1>3, <1>7, ShowsIsTyped
<1> QED
    BY <1>2, <1>4, <1>5, <1>6, <1>8, OnlyPhases DEF r

\* A response that ends keeps its session until its DISCONNECT.
LEMMA EndingKeeps ==
    ASSUME IInv, NEW s \in Streams, Cancel(s) \/ BreakOff(s)
    PROVE  IInv'
<1>1. TypeOK /\ stream[s] \in Stream /\ client \in [Clients -> Client]
    BY Parts DEF IInv, TypeOK
<1>2. PICK p \in {"closing", "deaf"} :
          stream' = [stream EXCEPT ![s] = [stream[s] EXCEPT !.phase = p]]
    BY DEF Cancel, BreakOff
<1> DEFINE t == [stream[s] EXCEPT !.phase = p]
<1>3. t \in Stream
    BY <1>1 DEF Stream, Phases, Serving, Loop
<1>4. t.phase # "new" /\ t.id = stream[s].id /\ t.joined = stream[s].joined
      /\ t.sent = stream[s].sent /\ t.inbox = stream[s].inbox
    BY <1>1, <1>2 DEF Stream
<1>5. session' = session /\ published' = published
    BY DEF Cancel, BreakOff
<1>6. client' \in [Clients -> Client]
    <2>1. CASE Cancel(s)
        BY <1>1, <2>1, NoticedIsTyped DEF Cancel
    <2>2. CASE BreakOff(s) /\ Here(s)
        <3> DEFINE c == stream[s].client
                   d == [client[c] EXCEPT !.at = Nobody, !.left = MaxEvents]
        <3>1. c \in Clients /\ client[c] \in Client /\ MaxEvents \in 0..MaxEvents
            BY <1>1, <2>2, Parts DEF Here
        <3>2. client' = [client EXCEPT ![c] = d]
            BY <1>1, <2>2, <3>1 DEF BreakOff
        <3>3. d \in Client
            BY <3>1 DEF Client
        <3> HIDE DEF c, d
        <3> QED
            BY <1>1, <3>1, <3>2, <3>3
    <2>3. CASE BreakOff(s) /\ ~Here(s)
        BY <1>1, <2>3 DEF BreakOff
    <2> QED
        BY <2>1, <2>2, <2>3
<1> QED
    BY <1>2, <1>3, <1>4, <1>5, <1>6, OnlyPhases DEF Given


\* A session that loses its connection still has what it owes: its queue.
LEMMA UnlinkedKeeps ==
    ASSUME TypeOK, NEW id \in SubscriberIds, SessionInv(session[id], published)
    PROVE  /\ Unlinked(session[id]) \in Session
           /\ Unlinked(session[id]).link = Nobody
           /\ SessionInv(Unlinked(session[id]), published)
<1> DEFINE x == session[id]
           y == Unlinked(x)
<1>1. x \in Session /\ 0 \in 0..MaxQueued /\ published \in 0..MaxEvents /\ published \in Nat
    BY Parts DEF TypeOK
<1>2. Len(x.queue) \in Nat
    BY Parts, LenProperties
<1>3. /\ y.known = x.known /\ y.link = Nobody /\ y.flying = 0
      /\ y.dropped = x.dropped /\ y.owed = published /\ y.queue = x.queue
    BY <1>1 DEF Session, Unlinked
<1>4. y \in Session
    BY <1>1 DEF Session, Unlinked
<1> HIDE DEF x, y
<1>5. SessionInv(y, published)
    <2>1. SessionInv(x, published)
        BY DEF x
    <2> QED
        BY <1>1, <1>2, <1>3, <2>1 DEF SessionInv
<1> QED
    BY <1>3, <1>4, <1>5 DEF x, y

LEMMA DisconnectKeeps ==
    ASSUME IInv, NEW s \in Streams, Disconnect(s)
    PROVE  IInv'
<1> DEFINE t == [stream[s] EXCEPT !.phase = "closed"]
           id == stream[s].id
<1>1. /\ TypeOK /\ stream[s] \in Stream /\ id \in SubscriberIds \cup {Nobody}
    BY Parts DEF IInv
<1>2. /\ stream' = [stream EXCEPT ![s] = t] /\ published' = published
      /\ session' = IF Linked(s) THEN [session EXCEPT ![id] = Unlinked(session[id])] ELSE session
    BY DEF Disconnect
<1>3. t \in Stream
    BY <1>1 DEF Stream, Phases, Serving
<1>4. t.phase # "new" /\ t.id = stream[s].id /\ t.joined = stream[s].joined
      /\ Given(t) = Given(stream[s])
    BY <1>1 DEF Stream, Given
<1>5. client' \in [Clients -> Client]
    BY <1>1, NoticedIsTyped DEF Disconnect
<1>6. CASE ~Linked(s)
    <2>1. session' = session
        BY <1>2, <1>6
    <2> HIDE DEF t
    <2> QED
        BY <1>2, <1>3, <1>4, <1>5, <2>1, OnlyPhases
<1>7. CASE Linked(s)
    <2> DEFINE y == Unlinked(session[id])
    <2>1. id \in SubscriberIds /\ session[id].link = s
        BY <1>1, <1>7 DEF Linked
    <2>2. y \in Session /\ y.link = Nobody /\ SessionInv(y, published)
        <3>1. SessionInv(session[id], published)
            BY <2>1 DEF IInv
        <3> HIDE DEF id
        <3> QED
            BY <1>1, <2>1, <3>1, UnlinkedKeeps
    <2>3. session' = [session EXCEPT ![id] = y]
        BY <1>2, <1>7
    <2> HIDE DEF t, y, id
    <2>4. TypeOK'
        BY <1>1, <1>2, <1>3, <1>5, <2>1, <2>2, <2>3 DEF TypeOK
    <2>5. ASSUME NEW i \in Streams
          PROVE  StreamInv(stream'[i], published)
        <3>1. stream'[i] = IF i = s THEN t ELSE stream[i]
            BY <1>1, <1>2, Parts
        <3>2. StreamInv(stream[i], published) /\ StreamInv(stream[s], published)
            BY DEF IInv
        <3> QED
            BY <1>4, <3>1, <3>2 DEF StreamInv
    <2>6. ASSUME NEW i \in SubscriberIds
          PROVE  /\ SessionInv(session'[i], published)
                 /\ session'[i].link # Nobody =>
                        /\ stream'[session'[i].link].id = i
                        /\ LinkInv(stream'[session'[i].link], session'[i], published)
        <3>1. CASE i = id
            BY <1>1, <2>1, <2>2, <2>3, <3>1, Parts
        <3>2. CASE i # id
            <4>1. session'[i] = session[i] /\ SessionInv(session[i], published)
                BY <1>1, <2>3, <3>2, Parts DEF IInv
            <4>2. ASSUME session[i].link # Nobody
                  PROVE  stream'[session[i].link] = stream[session[i].link]
                <5>1. stream[session[i].link].id = i /\ session[i].link \in Streams
                    BY <1>1, <4>2, Parts DEF IInv
                <5> QED
                    BY <1>1, <1>2, <3>2, <5>1, Parts DEF id
            <4> QED
                BY <4>1, <4>2 DEF IInv
        <3> QED
            BY <3>1, <3>2
    <2> QED
        BY <1>2, <2>4, <2>5, <2>6 DEF IInv
<1> QED
    BY <1>6, <1>7

LEMMA ServerDiesKeeps ==
    ASSUME IInv, ServerDies
    PROVE  IInv'
<1>1. /\ TypeOK /\ published' = published /\ Nobody \notin Streams
      /\ published \in 0..MaxEvents
    BY Parts DEF IInv, ServerDies, TypeOK
<1>2. ASSUME NEW s \in Streams
      PROVE  stream'[s] \in Stream /\ StreamInv(stream'[s], published)
    <2> DEFINE r == stream[s]
               t == [r EXCEPT !.phase = "closed"]
    <2>1. r \in Stream /\ StreamInv(r, published)
        BY <1>1, Parts DEF IInv
    <2>2. stream'[s] = IF r.phase = "new" THEN r ELSE t
        BY DEF ServerDies
    <2>3. t \in Stream
        BY <2>1 DEF Stream, Phases
    <2>4. t.phase # "new" /\ Given(t) = Given(r)
        BY <2>1 DEF Stream, Given
    <2>5. StreamInv(t, published)
        BY <2>1, <2>4 DEF StreamInv
    <2> HIDE DEF t, r
    <2> QED
        BY <2>1, <2>2, <2>3, <2>5
<1>3. ASSUME NEW id \in SubscriberIds
      PROVE  /\ session'[id] \in Session /\ SessionInv(session'[id], published)
             /\ session'[id].link = Nobody
    <2>1. session[id] \in Session /\ SessionInv(session[id], published)
        BY <1>1, Parts DEF IInv
    <2>2. /\ Unlinked(session[id]) \in Session /\ Unlinked(session[id]).link = Nobody
          /\ SessionInv(Unlinked(session[id]), published)
        BY <1>1, <2>1, UnlinkedKeeps
    <2>3. session'[id] = IF session[id].link = Nobody THEN session[id] ELSE Unlinked(session[id])
        BY DEF ServerDies
    <2> QED
        BY <2>1, <2>2, <2>3
<1>4. ASSUME NEW c \in Clients
      PROVE  client'[c] \in Client
    <2>1. client[c] \in Client
        BY <1>1 DEF TypeOK
    <2>2. [client[c] EXCEPT !.at = Nobody, !.left = published] \in Client
        BY <1>1, <2>1 DEF Client
    <2>3. \/ client'[c] = client[c]
          \/ client'[c] = [client[c] EXCEPT !.at = Nobody, !.left = published]
        BY DEF ServerDies
    <2> QED
        BY <2>1, <2>2, <2>3
<1>5. TypeOK'
    <2>1. session' \in [SubscriberIds -> Session]
        BY <1>3 DEF ServerDies
    <2>2. stream' \in [Streams -> Stream]
        BY <1>2 DEF ServerDies
    <2>3. client' \in [Clients -> Client]
        BY <1>4 DEF ServerDies
    <2> QED
        BY <1>1, <2>1, <2>2, <2>3 DEF TypeOK
<1> QED
    BY <1>1, <1>2, <1>3, <1>5 DEF IInv


\* A new response has been given nothing, and joins where the session's debt
\* begins.
LEMMA ConnectKeeps ==
    ASSUME IInv, NEW s \in Streams, NEW c \in Clients, Connect(s, c)
    PROVE  IInv'
<1> DEFINE n == published
           id == PassedBack(c)
           r == stream[s]
           x == session[id]
           y == IF x.known THEN [x EXCEPT !.link = s, !.flying = 0]
                ELSE [NoSession EXCEPT !.known = TRUE, !.link = s]
           j == IF x.known /\ x.link = Nobody THEN x.owed ELSE n
           t == [r EXCEPT !.phase = "opened", !.client = c, !.id = id, !.joined = j]
<1>1. /\ TypeOK /\ r.phase = "new" /\ published' = n
      /\ session' = [session EXCEPT ![id] = y]
      /\ stream' = [stream EXCEPT ![s] = t]
      /\ client' = [client EXCEPT ![c].at = s, ![c].back = n]
    BY DEF IInv, Connect, Subscribe
<1>2. /\ n \in Nat /\ n \in 0..MaxEvents /\ 0 \in 0..MaxQueued /\ r \in Stream
      /\ DOMAIN session = SubscriberIds /\ DOMAIN stream = Streams
      /\ Nobody \notin Streams /\ Nobody \notin SubscriberIds
    BY <1>1, Parts DEF TypeOK
<1>3. client[c] \in Client /\ client \in [Clients -> Client]
    BY <1>1 DEF TypeOK
<1>4. id \in SubscriberIds
    BY <1>3 DEF PassedBack, SubscriberIds, Client
<1>5. /\ r.id = Nobody /\ r.sent = <<>> /\ r.inbox = <<>> /\ StreamInv(r, n)
    BY <1>1 DEF IInv, StreamInv
<1> HIDE DEF n, id, r
<1>6. x \in Session /\ SessionInv(x, n) /\ x.owed \in 0..MaxEvents /\ Len(x.queue) \in Nat
    BY <1>1, <1>4, Parts, LenProperties DEF IInv, n
<1>7. /\ y \in Session /\ y.link = s /\ y.known /\ y.flying = 0
      /\ Rising(y.queue, n) /\ Len(y.queue) <= MaxQueued
      /\ y.flying <= Len(y.queue)
      /\ x.known => y.queue = x.queue /\ y.dropped = x.dropped
    <2> HIDE DEF x
    <2>1. CASE x.known
        <3>1. /\ y = [x EXCEPT !.link = s, !.flying = 0]
            BY <2>1
        <3>2. /\ y.known = x.known /\ y.link = s /\ y.flying = 0
              /\ y.queue = x.queue /\ y.dropped = x.dropped
            BY <1>6, <3>1 DEF Session
        <3>3. y \in Session
            BY <1>2, <1>6, <3>1 DEF Session
        <3> HIDE DEF y
        <3> QED
            BY <1>6, <2>1, <3>2, <3>3 DEF SessionInv
    <2>2. CASE ~x.known
        <3>1. y = [NoSession EXCEPT !.known = TRUE, !.link = s]
            BY <2>2
        <3>2. /\ y.known /\ y.link = s /\ y.flying = 0 /\ y.queue = <<>>
            BY <3>1 DEF NoSession
        <3>3. <<>> \in Seq(Event) /\ Len(<<>>) = 0 /\ MaxQueued \in Nat
            BY <1>1, EmptySeq, Parts
        <3>4. y \in Session
            <4>1. 0 \in 0..MaxEvents
                BY <1>1, Parts
            <4> QED
                BY <1>2, <3>1, <3>3, <4>1 DEF Session, NoSession
        <3> HIDE DEF y
        <3> QED
            BY <2>2, <3>2, <3>3, <3>4 DEF Rising
    <2> QED
        BY <2>1, <2>2
<1>8. j \in 0..MaxEvents
    BY <1>2, <1>6
<1>9. t \in Stream
    BY <1>2, <1>4, <1>8 DEF Stream, Phases, Serving
<1>10. /\ t.phase = "opened" /\ t.id = id /\ t.joined = j
       /\ t.sent = <<>> /\ t.inbox = <<>>
    BY <1>2, <1>5 DEF Stream
<1> HIDE DEF y, t
<1>11. Given(t) = Given(r) /\ Given(t) = <<>> /\ Len(<<>>) = 0
    <2>1. <<>> \o <<>> = <<>>
        BY EmptySeq, ConcatEmptySeq
    <2> QED
        BY <1>5, <1>10, <2>1, EmptySeq DEF Given
<1>12. SessionInv(y, n)
    BY <1>1, <1>2, <1>7, Parts DEF SessionInv
<1>13. StreamInv(t, n)
    BY <1>5, <1>10, <1>11 DEF StreamInv
<1>14. LinkInv(t, y, n)
    <2>1. ASSUME NEW e \in (t.joined + 1)..n
          PROVE  In(e, y.queue) \/ e \in y.dropped
        <3>1. x.known /\ x.link = Nobody /\ j = x.owed
            BY <1>2, <1>8, <1>10, <2>1
        <3> QED
            BY <1>6, <1>7, <1>10, <2>1, <3>1 DEF SessionInv
    <2> QED
        BY <1>7, <1>11, <2>1 DEF LinkInv
<1>15. TypeOK'
    <2>1. client' \in [Clients -> Client]
        <3>1. [client[c] EXCEPT !.at = s, !.back = n] \in Client
            BY <1>2, <1>3 DEF Client
        <3>2. client' = [client EXCEPT ![c] = [client[c] EXCEPT !.at = s, !.back = n]]
            BY <1>1, <1>3
        <3> QED
            BY <1>3, <3>1, <3>2
    <2> QED
        BY <1>1, <1>2, <1>7, <1>9, <2>1 DEF TypeOK
<1>16. ASSUME NEW i \in Streams
       PROVE  StreamInv(stream'[i], n)
    <2>1. stream'[i] = IF i = s THEN t ELSE stream[i]
        BY <1>1, <1>2
    <2> QED
        BY <1>13, <2>1 DEF IInv, n
<1>17. ASSUME NEW i \in SubscriberIds
       PROVE  /\ SessionInv(session'[i], n)
              /\ session'[i].link # Nobody =>
                     /\ stream'[session'[i].link].id = i
                     /\ LinkInv(stream'[session'[i].link], session'[i], n)
    <2>1. CASE i = id
        <3>1. session'[i] = y /\ stream'[y.link] = t
            BY <1>1, <1>2, <1>4, <1>7, <2>1
        <3> QED
            BY <1>10, <1>12, <1>14, <2>1, <3>1
    <2>2. CASE i # id
        <3>1. session'[i] = session[i] /\ SessionInv(session[i], n)
            BY <1>1, <1>2, <2>2 DEF IInv, n
        <3>2. ASSUME session[i].link # Nobody
              PROVE  stream'[session[i].link] = stream[session[i].link]
            <4>1. stream[session[i].link].id = i /\ session[i].link \in Streams
                BY <1>1, <3>2, Parts DEF IInv
            <4> QED
                BY <1>1, <1>2, <1>5, <4>1 DEF r
        <3> QED
            BY <3>1, <3>2 DEF IInv, n
    <2> QED
        BY <2>1, <2>2
<1> QED
    BY <1>1, <1>15, <1>16, <1>17 DEF IInv

-----------------------------------------------------------------------------
(***************************************************************************)
(* The invariant, and what it says.                                        *)
(***************************************************************************)

LEMMA InitHolds ==
    ASSUME Init
    PROVE  IInv
<1>1. /\ <<>> \in Seq(Event) /\ Len(<<>>) = 0 /\ <<>> \o <<>> = <<>>
      /\ MaxEvents \in Nat /\ MaxQueued \in Nat
    BY MqttAssumption, EmptySeq, ConcatEmptySeq
<1> DEFINE r == [phase |-> "new", client |-> Nobody, id |-> Nobody,
                 joined |-> 0, inbox |-> <<>>, sent |-> <<>>]
           d == [at |-> Nobody, greeted |-> FALSE, frame |-> 0,
                 got |-> {}, left |-> MaxEvents, back |-> 0]
<1>2. NoSession \in Session /\ SessionInv(NoSession, 0) /\ NoSession.link = Nobody
    BY <1>1 DEF NoSession, Session, SessionInv, Rising
<1>3. r \in Stream /\ StreamInv(r, 0)
    BY <1>1 DEF Stream, StreamInv, Phases, Rising, Given
<1>4. d \in Client
    BY <1>1 DEF Client, Frame
<1>5. /\ session = [id \in SubscriberIds |-> NoSession]
      /\ stream = [s \in Streams |-> r] /\ client = [c \in Clients |-> d]
      /\ published = 0
    BY DEF Init
<1> HIDE DEF r, d
<1>6. TypeOK
    BY <1>1, <1>2, <1>3, <1>4, <1>5 DEF TypeOK
<1> QED
    BY <1>2, <1>3, <1>5, <1>6 DEF IInv

LEMMA NextHolds ==
    ASSUME IInv, [Next]_vars
    PROVE  IInv'
<1>1. CASE UNCHANGED vars
    BY <1>1 DEF vars, IInv, TypeOK
<1>2. CASE Publish
    BY <1>2, PublishKeeps
<1>3. ASSUME NEW id \in SubscriberIds, Deliver(id) \/ Acknowledge(id) \/ Expire(id)
      PROVE  IInv'
    BY <1>3, DeliverKeeps, AcknowledgeKeeps, ExpireKeeps
<1>4. ASSUME NEW s \in Streams, NEW c \in Clients, Connect(s, c)
      PROVE  IInv'
    BY <1>4, ConnectKeeps
<1>5. ASSUME NEW c \in Clients, Leave(c)
      PROVE  IInv'
    BY <1>5, LeaveKeeps
<1>6. ASSUME NEW s \in Streams,
             \/ Greet(s) \/ Await(s) \/ Feed(s) \/ KeepAlive(s)
             \/ Cancel(s) \/ BreakOff(s) \/ Disconnect(s)
      PROVE  IInv'
    BY <1>6, WaitingKeeps, FeedKeeps, EndingKeeps, DisconnectKeeps
<1>7. CASE ServerDies
    BY <1>7, ServerDiesKeeps
<1> QED
    BY <1>1, <1>2, <1>3, <1>4, <1>5, <1>6, <1>7 DEF Next

LEMMA MqttInvariant == Spec => []IInv
<1> QED
    BY InitHolds, NextHolds, PTL DEF Spec

\* What is given is a frame already sent or still in the inbox.
LEMMA GivenIsSentOrWaiting ==
    ASSUME NEW x \in Stream, NEW e \in Event, In(e, Given(x))
    PROVE  e \in ToSet(x.sent) \cup ToSet(x.inbox)
<1> DEFINE a == x.sent
           b == x.inbox
<1>1. a \in Seq(Event) /\ b \in Seq(Event) /\ Len(a) \in Nat /\ Len(b) \in Nat
    BY LenProperties DEF Stream
<1>2. PICK k \in 1..Len(a \o b) : (a \o b)[k] = e
    BY DEF In, Given
<1> HIDE DEF a, b
<1>3. /\ Len(a \o b) = Len(a) + Len(b) /\ k \in 1..(Len(a) + Len(b))
      /\ (a \o b)[k] = IF k <= Len(a) THEN a[k] ELSE b[k - Len(a)]
    BY <1>1, <1>2, ConcatProperties
<1>4. CASE k <= Len(a)
    <2>1. k \in DOMAIN a /\ a[k] = e
        BY <1>1, <1>2, <1>3, <1>4, LenProperties
    <2> QED
        BY <2>1 DEF ToSet, a, b
<1>5. CASE ~(k <= Len(a))
    <2>1. k - Len(a) \in DOMAIN b /\ b[k - Len(a)] = e
        BY <1>1, <1>2, <1>3, <1>5, LenProperties
    <2> QED
        BY <2>1 DEF ToSet, a, b
<1> QED
    BY <1>4, <1>5

\* An event that is owed to the client of a response is on its way to it, was
\* shown, or was dropped by a full queue (MQTTEventSource).
THEOREM OwedKept == Spec => []OwedEventsAreKept
<1>1. ASSUME IInv, NEW s \in Streams, Linked(s),
             NEW e \in (stream[s].joined + 1)..published
      PROVE  e \in ToSet(stream[s].sent) \cup ToSet(stream[s].inbox)
                   \cup ToSet(session[stream[s].id].queue) \cup session[stream[s].id].dropped
    <2> DEFINE r == stream[s]
               y == session[r.id]
    <2>1. r.id \in SubscriberIds /\ y.link = s /\ Nobody \notin Streams /\ TypeOK
        BY <1>1, Parts DEF IInv, Linked
    <2>2. LinkInv(r, y, published) /\ r \in Stream /\ y.queue \in Seq(Event)
          /\ r.joined \in 0..MaxEvents /\ published \in 0..MaxEvents /\ MaxEvents \in Nat
        BY <1>1, <2>1, Parts DEF IInv, TypeOK
    <2>3. e \in Event
        BY <1>1, <2>2 DEF Event
    <2> HIDE DEF r, y
    <2>4. In(e, Given(r)) \/ In(e, y.queue) \/ e \in y.dropped
        BY <1>1, <2>2 DEF LinkInv, r
    <2>5. In(e, y.queue) => e \in ToSet(y.queue)
        BY <2>2, LenProperties DEF In, ToSet
    <2> QED
        BY <2>2, <2>3, <2>4, <2>5, GivenIsSentOrWaiting DEF r, y
<1>2. IInv => OwedEventsAreKept
    BY <1>1 DEF OwedEventsAreKept
<1> QED
    BY <1>2, MqttInvariant, PTL

\* A response shows each event at most once, in the order of publication,
\* whatever the broker delivers again (_sse_events).
THEOREM FramesOrdered == Spec => []FramesAreInOrder
<1>1. IInv => FramesAreInOrder
    BY DEF IInv, StreamInv, Rising, Given, FramesAreInOrder
<1> QED
    BY <1>1, MqttInvariant, PTL


=============================================================================
