--------------------------- MODULE SqlCrudProofs ---------------------------
(***************************************************************************)
(* What concurrent requests and the purge may do to the rows of Postgres,  *)
(* for any number of workers, rows, users and requests.                    *)
(*                                                                         *)
(* The argument is about row locks.  A transaction changes only rows it    *)
(* holds, nobody else changes them until it ends, and so what it wrote     *)
(* stands to the committed row as it did when it wrote it (OnTable).  An   *)
(* INSERT takes an id that nobody can have loaded (Unseen).                *)
(***************************************************************************)
EXTENDS SqlCrud, WellFoundedInduction, TLAPS

Inserting == {"create", "clone"}

\* The rows a transaction has written, and thereby locked.
Holds(t) == RowsOf(t.wrote)

\* How far a handler has come says what it has loaded, written and shown.
InOrder(t) ==
    /\ t.pc \in {"idle", "select", "insert", "respond"} => Holds(t) = {}
    /\ t.pc \in {"select", "flush", "refresh"} => t.req.op \notin Inserting
    /\ t.pc = "insert" => /\ t.req.op = "clone" /\ t.shown = NoRows
                          /\ \A i \in t.req.ids : t.loaded[i] # NoHero
    /\ t.pc = "flush" => /\ t.todo \subseteq RowsOf(t.loaded)
                         /\ \A i \in Holds(t), j \in t.todo : i < j
    /\ t.pc \in {"flush", "refresh"} => Holds(t) \subseteq RowsOf(t.loaded)
    /\ t.pc = "report" => t.todo \subseteq RowsOf(t.shown)
    /\ t.pc \in {"report", "commit"} /\ t.req.op \notin {"delete", "restore"}
          => \A i \in Holds(t) : t.shown[i] = t.wrote[i]

\* Only fields the body names differ from the committed row.
Keeps(t, old, new) ==
    \A f \in Fields : new[f] # old[f] =>
        t.req.op \in {"update", "publish"} /\ new[f] = t.req.body[f]

\* What a transaction wrote, against the committed rows.
OnTable(t, table) ==
    /\ t.pc = "flush" =>
          \A i \in RowsOf(t.loaded) \cap RowsOf(table) : table[i].owner_id = t.req.caller
    /\ \A i \in Holds(t) :
          /\ t.wrote[i].owner_id = t.req.caller
          /\ t.req.op \in Inserting => i \notin RowsOf(table)
          /\ t.req.op \notin Inserting =>
                /\ i \in RowsOf(table)
                /\ table[i].owner_id = t.req.caller
                /\ Keeps(t, table[i], t.wrote[i])

\* An event for every row the transaction is done with, and a revision for
\* every row it has answered with.
Logged(t, revs, evs) ==
    /\ \A i \in RowsOf(t.shown) :
          t.pc = "commit" \/ (t.pc = "report" /\ i \notin t.todo)
              => \E k \in 1..Len(evs[i]) : evs[i][k].snapshot = t.shown[i]
    /\ t.pc = "respond" /\ t.answer = "done" /\ t.req.op # "restore"
          => \A i \in RowsOf(t.shown) :
                \E k \in 1..Len(revs[i]) : revs[i][k].snapshot = t.shown[i]

\* Whatever anybody knows of has been handed out by the sequence.
Numbered(t, n) == \A i \in RowsOf(t.loaded) \cup Holds(t) : i < n

\* A row has one writer at a time.
Exclusive ==
    \A v, w \in Workers : v # w => \A i \in Ids : txn[v].wrote[i] = NoHero \/ txn[w].wrote[i] = NoHero

\* Nobody has loaded a row that is not committed yet.
Unseen ==
    \A v, w \in Workers : \A i \in Holds(txn[w]) : i \notin Rows => txn[v].loaded[i] = NoHero

\* The purge deletes archived rows that no request has written.
PurgeInv ==
    /\ purge.todo \subseteq Rows
    /\ \A i \in purge.deleted : /\ i \in Rows
                                /\ Archived(heroes[i])
                                /\ \A w \in Workers : txn[w].wrote[i] = NoHero

Good(t) == InOrder(t) /\ OnTable(t, heroes) /\ Logged(t, revisions, events) /\ Numbered(t, next_id)

IInv ==
    /\ TypeOK
    /\ \A i \in Rows : i < next_id
    /\ \A w \in Workers : Good(txn[w])
    /\ Exclusive
    /\ Unseen
    /\ PurgeInv

-----------------------------------------------------------------------------
(***************************************************************************)
(* Records, rows and logs.                                                 *)
(***************************************************************************)

\* An error answer ends a transaction that has written nothing.
LEMMA RolledBackIsTxn ==
    ASSUME NEW t, t.req \in Requests, NEW a \in Answers
    PROVE  /\ RolledBack(t, a) \in Txn
           /\ RolledBack(t, a).pc = "respond" /\ RolledBack(t, a).answer = a
           /\ RolledBack(t, a).req = t.req
           /\ RolledBack(t, a).loaded = NoRows /\ RolledBack(t, a).wrote = NoRows
           /\ RolledBack(t, a).shown = NoRows
<1>1. 0 \in Instant /\ NoRows \in Table
    BY BoundsAssumption DEF NoRows, Table, Instant
<1> QED
    BY <1>1 DEF RolledBack, Idle, Txn, Answers

\* A worker with nothing to do knows nothing.
LEMMA IdleIsTxn ==
    ASSUME NEW r \in Requests, NEW now \in Instant
    PROVE  /\ [Idle(r) EXCEPT !.start = now] \in Txn
           /\ Idle(r) \in Txn /\ Idle(r).pc = "idle" /\ Idle(r).wrote = NoRows
           /\ Idle(r).loaded = NoRows /\ Idle(r).shown = NoRows
<1>1. 0 \in Instant /\ NoRows \in Table
    BY BoundsAssumption DEF NoRows, Table, Instant
<1> QED
    BY <1>1 DEF Idle, Txn, Answers

LEMMA NoTxnIsTxn == NoTxn \in Txn /\ NoTxn.pc = "idle" /\ NoTxn.wrote = NoRows
                    /\ NoTxn.loaded = NoRows /\ NoTxn.shown = NoRows
<1>1. (CHOOSE r \in Requests : TRUE) \in Requests
    BY WorkAssumption
<1>2. 0 \in Instant
    BY BoundsAssumption DEF Instant
<1> QED
    BY <1>1, <1>2, IdleIsTxn DEF NoTxn

LEMMA NoRowsIsEmpty == RowsOf(NoRows) = {} /\ NoRows \in Table
BY DEF RowsOf, NoRows, Table

LEMMA RequestIsTyped ==
    ASSUME NEW t \in Txn
    PROVE  /\ t.req \in Requests /\ t.req.op \in Ops /\ t.req.caller \in Users
           /\ t.req.ids \subseteq Ids /\ t.req.body \in Changes /\ t.req.bulk \in BOOLEAN
BY RequestsAssumption DEF Txn, Request

\* Leaving out the fields that already have their value leaves a body.
LEMMA NetChangeIsChanges ==
    ASSUME NEW h \in Hero, NEW c \in Changes
    PROVE  /\ NetChange(h, c) \in Changes
           /\ \A f \in Fields : NetChange(h, c)[f] \in {c[f], UNSET}
<1>1. DOMAIN c = Fields
    BY DEF Changes, Fields
<1>2. c = [f \in Fields |-> c[f]] /\ \A f \in Fields : NetChange(h, c)[f] \in {c[f], UNSET}
    BY <1>1 DEF NetChange, Changes
<1>3. NetChange(h, c) = [name |-> NetChange(h, c).name, is_draft |-> NetChange(h, c).is_draft,
                         is_locked |-> NetChange(h, c).is_locked,
                         publish_at |-> NetChange(h, c).publish_at,
                         unpublish_at |-> NetChange(h, c).unpublish_at]
    BY <1>1 DEF NetChange, Fields
<1> HIDE DEF NetChange
<1> QED
    BY <1>2, <1>3 DEF Changes, Fields

\* A body changes no more than its fields (setattr over data.items()).
LEMMA UpdatedIsHero ==
    ASSUME NEW h \in Hero, NEW c \in Changes, NEW now \in Instant
    PROVE  Updated(h, c, now) \in Hero /\ Updated(h, c, now).owner_id = h.owner_id
<1>1. OrElse(c.name, h.name) \in Names \cup {NULL}
    BY DEF OrElse, Hero, Changes
<1>2. OrElse(c.is_draft, h.is_draft) \in BOOLEAN
    BY DEF OrElse, Hero, Changes
<1>3. OrElse(c.is_locked, h.is_locked) \in BOOLEAN \cup {NULL}
    BY DEF OrElse, Hero, Changes
<1>4. OrElse(c.publish_at, h.publish_at) \in Instant \cup {NULL}
    BY DEF OrElse, Hero, Changes
<1>5. OrElse(c.unpublish_at, h.unpublish_at) \in Instant \cup {NULL}
    BY DEF OrElse, Hero, Changes
<1> DEFINE g == Apply(h, c)
<1>6. /\ g.owner_id = h.owner_id /\ g.archived_at = h.archived_at
      /\ g.name = OrElse(c.name, h.name) /\ g.updated_at = h.updated_at
      /\ g.publish_at = OrElse(c.publish_at, h.publish_at)
      /\ g.unpublish_at = OrElse(c.unpublish_at, h.unpublish_at)
    BY DEF Apply, Hero
<1>7. g.is_draft = OrElse(c.is_draft, h.is_draft) /\ g.is_locked = OrElse(c.is_locked, h.is_locked)
    BY DEF Apply, Hero
<1>8. g = [f \in DOMAIN h |-> g[f]]
    BY DEF Apply, Hero
<1>9. DOMAIN h = {"owner_id", "name", "is_draft", "is_locked", "archived_at", "publish_at",
                  "unpublish_at", "updated_at"}
    BY DEF Hero
<1> HIDE DEF g
<1>10. g \in Hero
    BY <1>1, <1>2, <1>3, <1>4, <1>5, <1>6, <1>7, <1>8, <1>9 DEF Hero
<1> QED
    BY <1>6, <1>10 DEF Updated, Hero, g

\* An UPDATE leaves a row of the same owner, and no field changes but to what
\* the body says.
LEMMA RewrittenKeeps ==
    ASSUME NEW t \in Txn, NEW i \in Ids, heroes[i] \in Hero, t.loaded[i] \in Hero,
           t.req.op \notin Inserting
    PROVE  /\ Rewritten(t, i) \in Hero
           /\ Rewritten(t, i).owner_id = heroes[i].owner_id
           /\ Keeps(t, heroes[i], Rewritten(t, i))
<1> DEFINE h == heroes[i]
           c == NetChange(t.loaded[i], t.req.body)
<1>1. t.start \in Instant /\ t.now \in Instant
    BY DEF Txn
<1>2. c \in Changes /\ \A f \in Fields : c[f] \in {t.req.body[f], UNSET}
    BY RequestIsTyped, NetChangeIsChanges
<1>3. CASE t.req.op = "restore"
    <2>1. Rewritten(t, i) = [h EXCEPT !.archived_at = NULL, !.updated_at = t.start]
        BY <1>3 DEF Rewritten
    <2> QED
        BY <1>1, <2>1 DEF Hero, Keeps, Fields
<1>4. CASE t.req.op = "delete"
    <2>1. Rewritten(t, i) = [h EXCEPT !.archived_at = t.now, !.updated_at = t.start]
        BY <1>4 DEF Rewritten
    <2> QED
        BY <1>1, <2>1 DEF Hero, Keeps, Fields
<1>5. CASE t.req.op \in {"update", "publish"}
    <2> HIDE DEF c
    <2>1. Rewritten(t, i) = Updated(h, c, t.start)
        BY <1>5 DEF Rewritten, c
    <2>2. Updated(h, c, t.start) \in Hero /\ Updated(h, c, t.start).owner_id = h.owner_id
        BY <1>1, <1>2, UpdatedIsHero
    <2>3. \A f \in Fields : Updated(h, c, t.start)[f] = OrElse(c[f], h[f])
        BY DEF Updated, Apply, Hero, Fields
    <2> QED
        BY <1>2, <1>5, <2>1, <2>2, <2>3 DEF Keeps, OrElse
<1> QED
    BY <1>3, <1>4, <1>5, RequestIsTyped DEF Ops, Inserting

\* Nothing is taken out of a log, and nothing in it changes.
LogsGrow(old, new) ==
    \A i \in Ids : /\ Len(old[i]) <= Len(new[i])
                   /\ \A k \in 1..Len(old[i]) : new[i][k] = old[i][k]

LEMMA LoggedStays ==
    ASSUME NEW t, NEW revs \in [Ids -> Seq(Revision)], NEW revs2 \in [Ids -> Seq(Revision)],
           NEW evs \in [Ids -> Seq(Event)], NEW evs2 \in [Ids -> Seq(Event)],
           Logged(t, revs, evs), LogsGrow(revs, revs2), LogsGrow(evs, evs2)
    PROVE  Logged(t, revs2, evs2)
<1>1. \A i \in Ids : Len(revs[i]) \in Nat /\ Len(revs2[i]) \in Nat
    OBVIOUS
<1>2. \A i \in Ids : Len(evs[i]) \in Nat /\ Len(evs2[i]) \in Nat
    OBVIOUS
<1>3. \A i \in Ids : \A x : (\E k \in 1..Len(revs[i]) : revs[i][k].snapshot = x)
                            => \E k \in 1..Len(revs2[i]) : revs2[i][k].snapshot = x
    BY <1>1 DEF LogsGrow
<1>4. \A i \in Ids : \A x : (\E k \in 1..Len(evs[i]) : evs[i][k].snapshot = x)
                            => \E k \in 1..Len(evs2[i]) : evs2[i][k].snapshot = x
    BY <1>2 DEF LogsGrow
<1>5. RowsOf(t.shown) \subseteq Ids
    BY DEF RowsOf
<1>6. \A i \in RowsOf(t.shown) :
          t.pc = "commit" \/ (t.pc = "report" /\ i \notin t.todo)
              => \E k \in 1..Len(evs2[i]) : evs2[i][k].snapshot = t.shown[i]
    <2> SUFFICES ASSUME NEW i \in RowsOf(t.shown),
                        t.pc = "commit" \/ (t.pc = "report" /\ i \notin t.todo)
                 PROVE  \E k \in 1..Len(evs2[i]) : evs2[i][k].snapshot = t.shown[i]
        OBVIOUS
    <2>1. \E k \in 1..Len(evs[i]) : evs[i][k].snapshot = t.shown[i]
        BY Zenon DEF Logged
    <2>2. i \in Ids
        BY <1>5
    <2> QED
        BY <1>4, <2>1, <2>2
<1>7. t.pc = "respond" /\ t.answer = "done" /\ t.req.op # "restore"
          => \A i \in RowsOf(t.shown) :
                \E k \in 1..Len(revs2[i]) : revs2[i][k].snapshot = t.shown[i]
    <2> SUFFICES ASSUME t.pc = "respond", t.answer = "done", t.req.op # "restore",
                        NEW i \in RowsOf(t.shown)
                 PROVE  \E k \in 1..Len(revs2[i]) : revs2[i][k].snapshot = t.shown[i]
        OBVIOUS
    <2>1. \E k \in 1..Len(revs[i]) : revs[i][k].snapshot = t.shown[i]
        BY DEF Logged
    <2>2. i \in Ids
        BY <1>5
    <2> HIDE DEF Logged
    <2> QED
        BY <1>3, <2>1, <2>2
<1> QED
    BY <1>6, <1>7, Zenon DEF Logged

-----------------------------------------------------------------------------
\* What is below a number is below a greater one.
LEMMA StillBelow ==
    ASSUME NEW S \in SUBSET Nat, NEW m \in Nat, NEW n \in Nat, n >= m, \A i \in S : i < m
    PROVE  \A i \in S : i < n
OBVIOUS

(***************************************************************************)
(* A step of one transaction that commits nothing.                         *)
(***************************************************************************)
LEMMA OwnStep ==
    ASSUME IInv, NEW w \in Workers, NEW t \in Txn,
           txn' = [txn EXCEPT ![w] = t],
           heroes' = heroes, purge' = purge, TypeOK',
           next_id' >= next_id,
           LogsGrow(revisions, revisions'), LogsGrow(events, events'),
           InOrder(t), OnTable(t, heroes), Logged(t, revisions', events'), Numbered(t, next_id'),
           \A i \in Holds(t) : \/ txn[w].wrote[i] # NoHero
                               \/ ~HeldFrom(w, i) /\ (i \in Rows \/ i >= next_id),
           \A i \in RowsOf(t.loaded) : i \in Rows \/ txn[w].loaded[i] # NoHero,
           \A i \in Holds(t) : i \notin Rows => t.loaded[i] = NoHero
    PROVE  IInv'
<1>1. txn'[w] = t /\ \A v \in Workers \ {w} : txn'[v] = txn[v]
    BY DEF IInv, TypeOK
<1>2. next_id \in Nat /\ next_id' \in Nat
    BY BoundsAssumption DEF IInv, TypeOK
<1>3. \A i \in Rows' : i < next_id'
    <2>1. Rows' = Rows /\ Rows \subseteq Nat /\ \A i \in Rows : i < next_id
        BY BoundsAssumption DEF IInv, Rows, RowsOf, Ids
    <2>2. next_id' >= next_id
        OBVIOUS
    <2> QED
        BY <1>2, <2>1, <2>2, StillBelow, Zenon
<1>4. \A v \in Workers : Good(txn[v])'
    <2> SUFFICES ASSUME NEW v \in Workers
                 PROVE  Good(txn[v])'
        OBVIOUS
    <2>1. CASE v = w
        BY <1>1, <2>1 DEF Good
    <2>2. CASE v # w
        <3>1. txn'[v] = txn[v] /\ Good(txn[v])
            BY <1>1, <2>2 DEF IInv
        <3>2. Logged(txn[v], revisions', events')
            BY <3>1, LoggedStays DEF IInv, TypeOK, Good
        <3>3. Numbered(txn[v], next_id')
            BY <1>2, <3>1, BoundsAssumption DEF Good, Numbered, Holds, RowsOf, Ids
        <3> QED
            BY <3>1, <3>2, <3>3 DEF Good
    <2> QED
        BY <2>1, <2>2
<1>5. \A i \in Holds(t), v \in Workers \ {w} : txn[v].wrote[i] = NoHero /\ i \notin purge.deleted
    <2> SUFFICES ASSUME NEW i \in Holds(t), NEW v \in Workers \ {w}
                 PROVE  txn[v].wrote[i] = NoHero /\ i \notin purge.deleted
        OBVIOUS
    <2>1. i \in Ids
        BY DEF Holds, RowsOf
    <2>2. CASE txn[w].wrote[i] # NoHero
        BY <2>1, <2>2 DEF IInv, Exclusive, PurgeInv
    <2>3. CASE ~HeldFrom(w, i)
        BY <2>3 DEF HeldFrom
    <2> QED
        BY <2>2, <2>3
<1>6. Exclusive'
    BY <1>1, <1>5 DEF IInv, Exclusive, Holds, RowsOf
<1>7. Unseen'
    <2> SUFFICES ASSUME NEW v \in Workers, NEW u \in Workers,
                        NEW i \in Holds(txn'[u]), i \notin Rows
                 PROVE  txn'[v].loaded[i] = NoHero
        BY DEF Unseen, Rows, Holds
    <2>1. i \in Ids
        BY DEF Holds, RowsOf
    <2>2. CASE u # w /\ v # w
        BY <1>1, <2>2 DEF IInv, Unseen
    <2>3. CASE u # w /\ v = w
        BY <1>1, <2>1, <2>3 DEF IInv, Unseen, Holds, RowsOf
    <2>4. CASE u = w /\ v = w
        BY <1>1, <2>4
    <2>5. CASE u = w /\ v # w
        <3>1. CASE txn[w].wrote[i] # NoHero
            BY <1>1, <2>1, <2>5, <3>1 DEF IInv, Unseen, Holds, RowsOf
        <3>2. CASE i >= next_id
            BY <1>1, <1>2, <2>1, <2>5, <3>2, BoundsAssumption
               DEF IInv, Good, Numbered, RowsOf, Ids
        <3> QED
            BY <1>1, <2>5, <3>1, <3>2
    <2> QED
        BY <2>2, <2>3, <2>4, <2>5
<1>8. PurgeInv'
    <2>1. purge.deleted \subseteq Ids
        BY DEF IInv, TypeOK
    <2>2. \A i \in purge.deleted : t.wrote[i] = NoHero
        <3> SUFFICES ASSUME NEW i \in purge.deleted, t.wrote[i] # NoHero
                     PROVE  FALSE
            OBVIOUS
        <3>1. i \in Holds(t)
            BY <2>1 DEF Holds, RowsOf
        <3>2. CASE txn[w].wrote[i] # NoHero
            BY <3>2 DEF IInv, PurgeInv
        <3>3. CASE ~HeldFrom(w, i)
            BY <3>3 DEF HeldFrom
        <3> QED
            BY <3>1, <3>2, <3>3
    <2> QED
        BY <1>1, <2>2 DEF IInv, PurgeInv, Rows
<1> QED
    BY <1>3, <1>4, <1>6, <1>7, <1>8 DEF IInv

\* A log grows into itself.
LEMMA LogsStay ==
    ASSUME NEW T, NEW logs \in [Ids -> Seq(T)]
    PROVE  LogsGrow(logs, logs)
<1>1. \A i \in Ids : Len(logs[i]) \in Nat
    OBVIOUS
<1> QED
    BY <1>1 DEF LogsGrow

\* A step that leaves a transaction with nothing loaded, written or shown.
LEMMA EndStep ==
    ASSUME IInv, NEW w \in Workers, NEW t \in Txn,
           txn' = [txn EXCEPT ![w] = t],
           heroes' = heroes, purge' = purge, TypeOK',
           next_id' >= next_id,
           LogsGrow(revisions, revisions'), LogsGrow(events, events'),
           t.pc \in {"idle", "respond"},
           t.wrote = NoRows, t.loaded = NoRows, t.shown = NoRows
    PROVE  IInv'
<1>1. Holds(t) = {} /\ RowsOf(t.loaded) = {} /\ RowsOf(t.shown) = {}
    BY NoRowsIsEmpty DEF Holds
<1>2. /\ InOrder(t) /\ OnTable(t, heroes) /\ Logged(t, revisions', events')
      /\ Numbered(t, next_id')
    BY <1>1 DEF InOrder, OnTable, Logged, Numbered
<1> QED
    BY <1>1, <1>2, OwnStep

\* The SELECT finds rows of the caller, and nothing is written yet.
LEMMA SelectedIsGood ==
    ASSUME IInv, NEW t \in Txn, t.req.op \notin Inserting, t.wrote = NoRows
    PROVE  /\ Selected(t) \in Txn
           /\ InOrder(Selected(t)) /\ OnTable(Selected(t), heroes)
           /\ \A revs, evs : Logged(Selected(t), revs, evs)
           /\ Numbered(Selected(t), next_id)
           /\ Holds(Selected(t)) = {}
           /\ RowsOf(Selected(t).loaded) \subseteq Rows
<1> DEFINE r    == t.req
           hit  == IF r.op = "restore" THEN Mine(heroes, r.caller, r.ids)
                                       ELSE Writable(heroes, r.caller, r.ids)
           rows == [i \in Ids |-> IF i \in hit THEN heroes[i] ELSE NoHero]
           data == IF r.op = "delete" THEN NoChanges ELSE r.body
           end  == RolledBack(t, "refused")
           go   == [t EXCEPT !.pc = IF Dirty(r, rows) = {} THEN "refresh" ELSE "flush",
                             !.now = clock, !.loaded = rows, !.todo = Dirty(r, rows)]
<1>1. Selected(t) = end \/ Selected(t) = go
    BY DEF Selected
<1>2. heroes \in Table /\ clock \in Instant /\ r \in Requests
    BY RequestIsTyped DEF IInv, TypeOK
<1>3. hit \subseteq Rows /\ \A i \in hit : heroes[i] \in Hero /\ heroes[i].owner_id = r.caller
    BY <1>2 DEF Table, Rows, RowsOf, Mine, Writable
<1>4. rows \in Table /\ RowsOf(rows) = hit
    <2> HIDE DEF hit
    <2>1. \A i \in hit : i \in Ids /\ heroes[i] # NoHero
        BY <1>3 DEF Rows, RowsOf
    <2> QED
        BY <1>2, <1>3, <2>1 DEF Table, RowsOf
<1>5. Dirty(r, rows) \subseteq RowsOf(rows) /\ RowsOf(rows) \subseteq Ids
    BY DEF Dirty, RowsOf
<1> HIDE DEF hit, rows, r
<1>6. CASE Selected(t) = end
    <2>1. /\ end \in Txn /\ end.pc = "respond" /\ end.answer = "refused"
          /\ end.loaded = NoRows /\ end.wrote = NoRows
        BY <1>2, RolledBackIsTxn DEF r, Answers
    <2>2. Holds(end) = {} /\ RowsOf(end.loaded) = {}
        BY <2>1, NoRowsIsEmpty DEF Holds
    <2> HIDE DEF end
    <2>3. InOrder(end) /\ OnTable(end, heroes) /\ Numbered(end, next_id)
        BY <2>1, <2>2 DEF InOrder, OnTable, Numbered
    <2>4. \A revs, evs : Logged(end, revs, evs)
        BY <2>1 DEF Logged
    <2> QED
        BY <1>6, <2>1, <2>2, <2>3, <2>4
<1>7. CASE Selected(t) = go
    <2>1. /\ go \in Txn /\ go.pc \in {"refresh", "flush"} /\ go.req = r
          /\ go.loaded = rows /\ go.wrote = NoRows /\ go.todo = Dirty(r, rows)
        BY <1>2, <1>4, <1>5 DEF Txn, r
    <2>2. Holds(go) = {} /\ RowsOf(go.loaded) = hit
        BY <1>4, <2>1, NoRowsIsEmpty DEF Holds
    <2> HIDE DEF go
    <2>3. InOrder(go)
        BY <1>4, <1>5, <2>1, <2>2 DEF InOrder, r
    <2>4. OnTable(go, heroes)
        BY <1>3, <2>1, <2>2 DEF OnTable
    <2>5. Numbered(go, next_id)
        BY <1>3, <2>2 DEF Numbered, IInv
    <2>6. \A revs, evs : Logged(go, revs, evs)
        BY <2>1 DEF Logged
    <2> QED
        BY <1>3, <1>7, <2>1, <2>2, <2>3, <2>4, <2>5, <2>6
<1> QED
    BY <1>1, <1>6, <1>7

-----------------------------------------------------------------------------
(***************************************************************************)
(* The statements of a request before its first write.                     *)
(***************************************************************************)

\* A transaction that has begun: its first statement read the clock.
LEMMA BegunIsTxn ==
    ASSUME IInv, NEW r \in Requests
    PROVE  /\ Begun(r) \in Txn /\ Begun(r).req = r /\ Begun(r).pc = "idle"
           /\ Begun(r).loaded = NoRows /\ Begun(r).wrote = NoRows /\ Begun(r).shown = NoRows
           /\ Begun(r).start = clock
BY IdleIsTxn DEF Begun, IInv, TypeOK, Idle

\* A step that takes a request and changes nothing but its transaction.
LEMMA TakeStep ==
    ASSUME IInv, NEW w \in Workers, NEW r \in Requests, Takes(w, r),
           NEW t \in Txn, Enter(w, t), UNCHANGED <<heroes, next_id>>,
           InOrder(t), OnTable(t, heroes), \A revs, evs : Logged(t, revs, evs),
           Numbered(t, next_id), Holds(t) = {}, RowsOf(t.loaded) \subseteq Rows
    PROVE  IInv'
<1>1. /\ txn' = [txn EXCEPT ![w] = t] /\ heroes' = heroes /\ purge' = purge
      /\ next_id' = next_id /\ revisions' = revisions /\ events' = events
      /\ clock' = clock /\ purges' = purges /\ taken' = taken + 1 /\ taken < MaxRequests
    BY DEF Takes, Enter
<1>2. TypeOK'
    BY <1>1, SqlBoundsAssumption DEF IInv, TypeOK, Rows
<1>3. next_id' >= next_id
    BY <1>1, BoundsAssumption DEF IInv, TypeOK
<1>4. LogsGrow(revisions, revisions') /\ LogsGrow(events, events')
    BY <1>1, LogsStay DEF IInv, TypeOK
<1>5. Logged(t, revisions', events')
    OBVIOUS
<1> QED
    BY <1>1, <1>2, <1>3, <1>4, <1>5, OwnStep

\* A refused request has loaded, written and shown nothing.
LEMMA RefusedIsGood ==
    ASSUME NEW t \in Txn, NEW a \in Answers, NEW table, NEW n
    PROVE  /\ RolledBack(t, a) \in Txn
           /\ InOrder(RolledBack(t, a)) /\ OnTable(RolledBack(t, a), table)
           /\ \A revs, evs : Logged(RolledBack(t, a), revs, evs)
           /\ Numbered(RolledBack(t, a), n)
           /\ Holds(RolledBack(t, a)) = {} /\ RowsOf(RolledBack(t, a).loaded) = {}
<1> DEFINE end == RolledBack(t, a)
<1>1. /\ end \in Txn /\ end.pc = "respond"
      /\ end.loaded = NoRows /\ end.wrote = NoRows /\ end.shown = NoRows
    BY RequestIsTyped, RolledBackIsTxn
<1> HIDE DEF end
<1>2. Holds(end) = {} /\ RowsOf(end.loaded) = {} /\ RowsOf(end.shown) = {}
    BY <1>1, NoRowsIsEmpty DEF Holds
<1>3. InOrder(end) /\ OnTable(end, table) /\ Numbered(end, n) /\ \A revs, evs : Logged(end, revs, evs)
    BY <1>1, <1>2 DEF InOrder, OnTable, Numbered, Logged
<1> QED
    BY <1>1, <1>2, <1>3 DEF end

LEMMA TakeSingleKeeps ==
    ASSUME IInv, NEW w \in Workers, NEW r \in Requests, TakeSingle(w, r)
    PROVE  IInv'
<1>1. Begun(r) \in Txn /\ Begun(r).req.op \notin Inserting /\ Begun(r).wrote = NoRows
    BY BegunIsTxn DEF TakeSingle, Inserting
<1> QED
    BY <1>1, SelectedIsGood, TakeStep DEF TakeSingle

LEMMA TakeBulkKeeps ==
    ASSUME IInv, NEW w \in Workers, NEW r \in Requests, TakeBulk(w, r)
    PROVE  IInv'
<1> DEFINE go == [Begun(r) EXCEPT !.pc = "select"]
<1>1. Takes(w, r) /\ UNCHANGED <<heroes, next_id>> /\ r.op \notin Inserting
    BY RequestsAssumption DEF TakeBulk, Inserting
<1>2. CASE Enter(w, RolledBack(Begun(r), "refused"))
    BY <1>1, <1>2, BegunIsTxn, RefusedIsGood, TakeStep DEF Answers
<1>3. CASE Enter(w, go)
    <2>1. /\ go \in Txn /\ go.req = r /\ go.pc = "select"
          /\ go.loaded = NoRows /\ go.wrote = NoRows
        BY BegunIsTxn DEF Txn
    <2> HIDE DEF go
    <2>2. Holds(go) = {} /\ RowsOf(go.loaded) = {}
        BY <2>1, NoRowsIsEmpty DEF Holds
    <2>3. InOrder(go) /\ OnTable(go, heroes) /\ Numbered(go, next_id) /\ \A revs, evs : Logged(go, revs, evs)
        BY <1>1, <2>1, <2>2 DEF InOrder, OnTable, Numbered, Logged
    <2> QED
        BY <1>1, <1>3, <2>1, <2>2, <2>3, TakeStep
<1> QED
    BY <1>2, <1>3 DEF TakeBulk

LEMMA TakeDeleteKeeps ==
    ASSUME IInv, NEW w \in Workers, NEW r \in Requests, TakeDelete(w, r)
    PROVE  IInv'
<1> DEFINE seen == [i \in Ids |-> IF i \in r.ids THEN heroes[i] ELSE NoHero]
           go   == [Begun(r) EXCEPT !.pc = "select", !.shown = seen]
<1>1. Takes(w, r) /\ UNCHANGED <<heroes, next_id>> /\ r.op \notin Inserting /\ Enter(w, go)
    BY DEF TakeDelete, Inserting
<1>2. seen \in Table
    BY DEF IInv, TypeOK, Table
<1> HIDE DEF seen
<1>3. /\ go \in Txn /\ go.req = r /\ go.pc = "select"
      /\ go.loaded = NoRows /\ go.wrote = NoRows
    <2> DEFINE t == Begun(r)
    <2>1. t \in Txn /\ t.req = r /\ t.loaded = NoRows /\ t.wrote = NoRows
        BY BegunIsTxn
    <2> HIDE DEF t
    <2>2. /\ [t EXCEPT !.pc = "select", !.shown = seen] \in Txn
          /\ [t EXCEPT !.pc = "select", !.shown = seen].pc = "select"
        BY <1>2, <2>1 DEF Txn
    <2> QED
        BY <2>1, <2>2 DEF Txn, t
<1> HIDE DEF go
<1>4. Holds(go) = {} /\ RowsOf(go.loaded) = {}
    BY <1>3, NoRowsIsEmpty DEF Holds
<1>5. InOrder(go) /\ OnTable(go, heroes) /\ Numbered(go, next_id) /\ \A revs, evs : Logged(go, revs, evs)
    BY <1>1, <1>3, <1>4 DEF InOrder, OnTable, Numbered, Logged
<1> QED
    BY <1>1, <1>3, <1>4, <1>5, TakeStep

LEMMA TakeValidatedKeeps ==
    ASSUME IInv, NEW w \in Workers, NEW r \in Requests, TakeValidated(w, r)
    PROVE  IInv'
<1>1. Takes(w, r) /\ UNCHANGED <<heroes, next_id>> /\ r.op \in {"publish", "clone"}
    BY DEF TakeValidated
<1>2. PICK i \in r.ids :
          \/ Enter(w, RolledBack(Begun(r), "refused"))
          \/ Enter(w, RolledBack(Begun(r), "crashed"))
          \/ /\ i \in Rows
             /\ Enter(w, [Begun(r) EXCEPT !.pc = IF r.op = "clone" THEN "insert" ELSE "select",
                                          !.loaded[i] = heroes[i]])
    BY DEF TakeValidated
<1>3. CASE Enter(w, RolledBack(Begun(r), "refused")) \/ Enter(w, RolledBack(Begun(r), "crashed"))
    BY <1>1, <1>3, BegunIsTxn, RefusedIsGood, TakeStep DEF Answers
<1> DEFINE go == [Begun(r) EXCEPT !.pc = IF r.op = "clone" THEN "insert" ELSE "select",
                                  !.loaded[i] = heroes[i]]
<1>4. CASE i \in Rows /\ Enter(w, go)
    <2>1. r.ids = {i} /\ i \in Ids /\ heroes[i] \in Hero /\ heroes[i] # NoHero /\ i < next_id
        BY <1>1, <1>4, RequestsAssumption DEF IInv, TypeOK, Table, Rows, RowsOf
    <2>2. /\ go \in Txn /\ go.req = r /\ go.wrote = NoRows /\ go.shown = NoRows
          /\ go.pc = IF r.op = "clone" THEN "insert" ELSE "select"
          /\ go.loaded = [NoRows EXCEPT ![i] = heroes[i]]
        <3> DEFINE t  == Begun(r)
                   pc == IF r.op = "clone" THEN "insert" ELSE "select"
        <3>1. /\ t \in Txn /\ t.req = r
              /\ t.loaded = NoRows /\ t.wrote = NoRows /\ t.shown = NoRows
            BY BegunIsTxn
        <3> HIDE DEF t
        <3>2. go = [t EXCEPT !.pc = pc, !.loaded = [NoRows EXCEPT ![i] = heroes[i]]]
            BY <3>1 DEF t, Txn
        <3>3. [NoRows EXCEPT ![i] = heroes[i]] \in Table /\ pc \in {"insert", "select"}
            BY <2>1 DEF Table, NoRows
        <3> QED
            BY <3>1, <3>2, <3>3 DEF Txn
    <2> HIDE DEF go
    <2>3. Holds(go) = {}
        BY <2>2, NoRowsIsEmpty DEF Holds
    <2>4. RowsOf(go.loaded) = {i} /\ go.loaded[i] # NoHero
        BY <2>1, <2>2 DEF RowsOf, NoRows
    <2>5. InOrder(go) /\ OnTable(go, heroes) /\ Numbered(go, next_id) /\ \A revs, evs : Logged(go, revs, evs)
        BY <1>1, <2>1, <2>2, <2>3, <2>4 DEF InOrder, OnTable, Numbered, Logged, Inserting
    <2> QED
        BY <1>1, <1>4, <2>2, <2>3, <2>4, <2>5, TakeStep
<1> QED
    BY <1>2, <1>3, <1>4

-----------------------------------------------------------------------------
(***************************************************************************)
(* The INSERT.                                                             *)
(***************************************************************************)

\* The new row has an id that nobody has loaded, written or deleted.
LEMMA InsertsKeeps ==
    ASSUME IInv, NEW w \in Workers, NEW t \in Txn, NEW c \in Changes, Inserts(w, t, c),
           t.req.op \in Inserting, t.loaded = NoRows, t.wrote = NoRows, t.shown = NoRows,
           UNCHANGED <<revisions, events, purge, clock, purges>>, taken' \in 0..MaxRequests
    PROVE  IInv'
<1> DEFINE new == NewHero(t.req.caller, c, t.start)
           go  == [t EXCEPT !.pc = "report", !.todo = {next_id},
                            !.wrote[next_id] = new, !.shown[next_id] = new]
           row == [NoRows EXCEPT ![next_id] = new]
<1>1. /\ next_id \in Ids /\ next_id' = next_id + 1 /\ heroes' = heroes
      /\ Enter(w, RolledBack(t, "crashed")) \/ Enter(w, go)
    BY DEF Inserts
<1>2. /\ next_id' \in 1..(MaxHeroes + 1) /\ next_id' >= next_id /\ next_id' > next_id
    BY <1>1, BoundsAssumption DEF Ids
<1>3. new \in Hero /\ new.owner_id = t.req.caller
    <2>1. /\ t.start \in Instant /\ t.req.caller \in Users /\ t.req.body \in Changes
        BY RequestIsTyped DEF Txn
    <2> QED
        BY <2>1, MarksAssumption DEF NewHero, OrElse, Hero, Changes
<1>4. LogsGrow(revisions, revisions') /\ LogsGrow(events, events')
    BY LogsStay DEF IInv, TypeOK
<1> HIDE DEF new
<1>5. CASE Enter(w, RolledBack(t, "crashed"))
    <2>1. RolledBack(t, "crashed") \in Txn
        BY RefusedIsGood DEF Answers
    <2>2. TypeOK'
        BY <1>1, <1>2, <1>5, <2>1 DEF Enter, IInv, TypeOK
    <2> QED
        BY <1>1, <1>2, <1>4, <1>5, <2>1, <2>2, RolledBackIsTxn, RequestIsTyped, EndStep
           DEF Enter, Answers
<1>6. CASE Enter(w, go)
    <2>1. row \in Table /\ RowsOf(row) = {next_id} /\ row[next_id] = new
        BY <1>1, <1>3, NoHeroAssumption DEF NoRows, Table, RowsOf
    <2> HIDE DEF row
    <2>2. go = [t EXCEPT !.pc = "report", !.todo = {next_id}, !.wrote = row, !.shown = row]
        BY DEF Txn, row
    <2>3. /\ go \in Txn /\ go.pc = "report" /\ go.req = t.req /\ go.todo = {next_id}
          /\ go.loaded = NoRows /\ go.wrote = row /\ go.shown = row
        BY <1>1, <2>1, <2>2 DEF Txn
    <2> HIDE DEF go
    <2>4. Holds(go) = {next_id} /\ RowsOf(go.loaded) = {}
        BY <2>1, <2>3, NoRowsIsEmpty DEF Holds
    <2>5. TypeOK'
        BY <1>1, <1>2, <1>6, <2>3 DEF Enter, IInv, TypeOK
    <2>6. next_id \notin Rows /\ next_id >= next_id /\ ~HeldFrom(w, next_id)
        <3>1. next_id \in Nat
            BY <1>1, BoundsAssumption DEF Ids
        <3>2. \A v \in Workers : txn[v].wrote[next_id] = NoHero
            BY <1>1, <3>1 DEF IInv, Good, Numbered, Holds, RowsOf
        <3> QED
            BY <3>1, <3>2 DEF IInv, PurgeInv, HeldFrom
    <2>7. InOrder(go)
        BY <2>1, <2>3, <2>4 DEF InOrder
    <2>8. OnTable(go, heroes)
        BY <1>3, <2>1, <2>3, <2>4, <2>6 DEF OnTable, Rows
    <2>9. Logged(go, revisions', events')
        BY <2>1, <2>3 DEF Logged
    <2>10. Numbered(go, next_id')
        BY <1>2, <2>4 DEF Numbered
    <2>11. go.loaded[next_id] = NoHero
        BY <1>1, <2>3 DEF NoRows
    <2> QED
        BY <1>1, <1>2, <1>4, <1>6, <2>3, <2>4, <2>5, <2>6, <2>7, <2>8, <2>9, <2>10, <2>11, OwnStep
           DEF Enter
<1> QED
    BY <1>1, <1>5, <1>6

LEMMA TakeCreateKeeps ==
    ASSUME IInv, NEW w \in Workers, NEW r \in Requests, TakeCreate(w, r)
    PROVE  IInv'
<1>1. Takes(w, r) /\ Inserts(w, Begun(r), r.body) /\ r.op \in Inserting
    BY DEF TakeCreate, Inserting
<1>2. r.body \in Changes
    BY RequestsAssumption DEF Request
<1>3. taken' \in 0..MaxRequests /\ UNCHANGED <<revisions, events, purge, clock, purges>>
    BY <1>1, SqlBoundsAssumption DEF Takes, IInv, TypeOK
<1> QED
    BY <1>1, <1>2, <1>3, BegunIsTxn, InsertsKeeps

\* A clone has the fields of the row it loaded.
LEMMA InsertCloneKeeps ==
    ASSUME IInv, NEW w \in Workers, InsertClone(w)
    PROVE  IInv'
<1> DEFINE t == [txn[w] EXCEPT !.loaded = NoRows]
<1>1. PICK i \in txn[w].req.ids : Inserts(w, t, CreateBody(txn[w].loaded[i].name))
    BY DEF InsertClone
<1>2. txn[w] \in Txn /\ txn[w].pc = "insert" /\ InOrder(txn[w])
    BY DEF InsertClone, IInv, Good, TypeOK
<1>3. /\ txn[w].req.op \in Inserting /\ txn[w].shown = NoRows /\ Holds(txn[w]) = {}
      /\ i \in Ids /\ txn[w].loaded[i] \in Hero
    BY <1>2, RequestIsTyped DEF InOrder, Inserting, Txn, Table
<1>4. txn[w].wrote = NoRows
    BY <1>2, <1>3 DEF Holds, RowsOf, Txn, Table, NoRows
<1>5. /\ t \in Txn /\ t.req.op \in Inserting
      /\ t.loaded = NoRows /\ t.wrote = NoRows /\ t.shown = NoRows
    BY <1>2, <1>3, <1>4, NoRowsIsEmpty DEF Txn
<1>6. CreateBody(txn[w].loaded[i].name) \in Changes
    BY <1>3 DEF CreateBody, NoChanges, Changes, Hero
<1>7. taken' \in 0..MaxRequests /\ UNCHANGED <<revisions, events, purge, clock, purges>>
    BY DEF InsertClone, bounds, IInv, TypeOK
<1> QED
    BY <1>1, <1>5, <1>6, <1>7, InsertsKeeps

-----------------------------------------------------------------------------
(***************************************************************************)
(* From the SELECT to the answer, without the commit.                      *)
(***************************************************************************)

\* A step of a request under way that writes nothing but its transaction.
LEMMA QuietStep ==
    ASSUME IInv, NEW w \in Workers, NEW t \in Txn, Enter(w, t),
           UNCHANGED <<heroes, next_id, revisions, purge, bounds>>,
           events' \in [Ids -> Seq(Event)], LogsGrow(events, events'),
           InOrder(t), OnTable(t, heroes), Logged(t, revisions, events'), Numbered(t, next_id),
           \A i \in Holds(t) : txn[w].wrote[i] # NoHero \/ (~HeldFrom(w, i) /\ i \in Rows),
           \A i \in RowsOf(t.loaded) : i \in Rows \/ txn[w].loaded[i] # NoHero,
           \A i \in Holds(t) : i \notin Rows => t.loaded[i] = NoHero
    PROVE  IInv'
<1>1. TypeOK'
    BY DEF Enter, IInv, TypeOK, bounds
<1>2. next_id' >= next_id
    BY BoundsAssumption DEF IInv, TypeOK
<1>3. LogsGrow(revisions, revisions')
    BY LogsStay DEF IInv, TypeOK
<1> QED
    BY <1>1, <1>2, <1>3, OwnStep DEF Enter

LEMMA SelectKeeps ==
    ASSUME IInv, NEW w \in Workers, Select(w)
    PROVE  IInv'
<1>1. txn[w] \in Txn /\ txn[w].pc = "select" /\ InOrder(txn[w])
    BY DEF Select, IInv, Good, TypeOK
<1>2. txn[w].req.op \notin Inserting /\ txn[w].wrote = NoRows
    BY <1>1 DEF InOrder, Holds, RowsOf, Txn, Table, NoRows
<1>3. LogsGrow(events, events') /\ events' \in [Ids -> Seq(Event)]
    BY LogsStay DEF Select, IInv, TypeOK
<1> QED
    BY <1>1, <1>2, <1>3, SelectedIsGood, QuietStep DEF Select

LEMMA RefreshKeeps ==
    ASSUME IInv, NEW w \in Workers, Refresh(w)
    PROVE  IInv'
<1> DEFINE t     == txn[w]
           hit   == RowsOf(t.loaded)
           seen  == [i \in Ids |-> IF i \in hit THEN Reads(t, i) ELSE NoHero]
           shown == IF t.req.op = "delete" /\ ~t.req.bulk THEN t.shown ELSE seen
           go    == [t EXCEPT !.shown = shown, !.todo = RowsOf(shown),
                              !.pc = IF RowsOf(shown) = {} THEN "commit" ELSE "report"]
<1>1. t \in Txn /\ t.pc = "refresh" /\ Good(t) /\ heroes \in Table
    BY DEF Refresh, IInv, Good, TypeOK
<1>2. LogsGrow(events, events') /\ events' \in [Ids -> Seq(Event)] /\ events' = events
    BY LogsStay DEF Refresh, IInv, TypeOK
<1>3. UNCHANGED <<heroes, next_id, revisions, purge, bounds>>
    BY DEF Refresh
<1>4. Enter(w, RolledBack(t, "crashed")) \/ Enter(w, go)
    BY DEF Refresh
<1>5. CASE Enter(w, RolledBack(t, "crashed"))
    BY <1>1, <1>2, <1>3, <1>5, RefusedIsGood, QuietStep DEF Answers
<1>6. CASE Enter(w, go)
    <2>1. seen \in Table /\ shown \in Table
        BY <1>1 DEF Reads, Txn, Table
    <2>2. \A i \in Holds(t) : seen[i] = t.wrote[i] /\ i \in Ids
        BY <1>1 DEF Reads, Good, InOrder, Holds, RowsOf
    <2>3. RowsOf(shown) \subseteq Ids
        BY DEF RowsOf
    <2>4. t.req.op # "delete" => shown = seen
        OBVIOUS
    <2> HIDE DEF seen, shown, t
    <2>5. /\ go \in Txn /\ go.pc \in {"commit", "report"} /\ go.req = t.req
          /\ go.wrote = t.wrote /\ go.loaded = t.loaded /\ go.shown = shown
          /\ go.pc = IF RowsOf(shown) = {} THEN "commit" ELSE "report"
          /\ go.todo = RowsOf(shown)
        BY <1>1, <2>1, <2>3 DEF Txn
    <2> HIDE DEF go
    <2>6. Holds(go) = Holds(t)
        BY <2>5 DEF Holds
    <2>7. InOrder(go)
        BY <2>2, <2>4, <2>5, <2>6 DEF InOrder
    <2>8. OnTable(go, heroes)
        BY <1>1, <2>5, <2>6 DEF Good, OnTable, Keeps
    <2>9. Logged(go, revisions, events')
        BY <2>5 DEF Logged
    <2>10. Numbered(go, next_id)
        BY <1>1, <2>5, <2>6 DEF Good, Numbered
    <2>11. \A i \in Holds(go) : t.wrote[i] # NoHero /\ (i \notin Rows => go.loaded[i] = NoHero)
        BY <2>5, <2>6 DEF IInv, Unseen, Holds, RowsOf, t
    <2>12. \A i \in RowsOf(go.loaded) : t.loaded[i] # NoHero
        BY <2>5 DEF RowsOf
    <2> QED
        BY <1>2, <1>3, <1>6, <2>5, <2>7, <2>8, <2>9, <2>10, <2>11, <2>12, QuietStep DEF t
<1> QED
    BY <1>4, <1>5, <1>6

\* Nobody else holds the row, and it is of the caller if it is still there.
LEMMA FlushKeeps ==
    ASSUME IInv, NEW w \in Workers, Flush(w)
    PROVE  IInv'
<1> DEFINE t == txn[w]
<1>1. t \in Txn /\ t.pc = "flush" /\ Good(t) /\ heroes \in Table
    BY DEF Flush, IInv, TypeOK
<1>2. LogsGrow(events, events') /\ events' \in [Ids -> Seq(Event)] /\ events' = events
    BY LogsStay DEF Flush, IInv, TypeOK
<1>3. UNCHANGED <<heroes, next_id, revisions, purge, bounds>>
    BY DEF Flush
<1>4. PICK i \in Ids :
          LET rest == t.todo \ {i}
              next == [t EXCEPT !.todo = rest, !.pc = IF rest = {} THEN "refresh" ELSE "flush"] IN
          /\ IsNext(i, t.todo) /\ ~HeldFrom(w, i)
          /\ Enter(w, IF heroes[i] = NoHero
                      THEN next
                      ELSE IF Rewritten(t, i).is_locked = NULL
                      THEN RolledBack(t, "crashed")
                      ELSE [next EXCEPT !.wrote[i] = Rewritten(t, i)])
    BY DEF Flush
<1> DEFINE rest == t.todo \ {i}
           next == [t EXCEPT !.todo = rest, !.pc = IF rest = {} THEN "refresh" ELSE "flush"]
           new  == Rewritten(t, i)
           go   == [next EXCEPT !.wrote[i] = new]
<1>5. /\ i \in RowsOf(t.loaded) /\ t.loaded[i] \in Hero /\ t.req.op \notin Inserting
      /\ \A j \in rest : i < j
    <2>1. i \in t.todo /\ \A j \in t.todo : i <= j
        BY <1>4 DEF IsNext
    <2>2. i \in Nat /\ t.todo \subseteq Nat
        BY <1>1, BoundsAssumption DEF Txn, Ids
    <2> QED
        BY <1>1, <2>1, <2>2 DEF Good, InOrder, RowsOf, Txn, Table
<1>6. /\ next \in Txn /\ next.pc \in {"refresh", "flush"} /\ next.req = t.req
      /\ next.todo = rest /\ next.loaded = t.loaded /\ next.wrote = t.wrote
      /\ next.shown = t.shown
    BY <1>1 DEF Txn
<1>7. rest \subseteq t.todo
    OBVIOUS
<1> HIDE DEF t, rest, next, new
<1>8. CASE Enter(w, RolledBack(t, "crashed"))
    BY <1>1, <1>2, <1>3, <1>8, RefusedIsGood, QuietStep DEF Answers
<1>9. CASE Enter(w, next)
    <2>1. Holds(next) = Holds(t)
        BY <1>6 DEF Holds
    <2>2. InOrder(next)
        BY <1>1, <1>5, <1>6, <1>7, <2>1 DEF Good, InOrder
    <2>3. OnTable(next, heroes)
        BY <1>1, <1>6, <2>1 DEF Good, OnTable, Keeps
    <2>4. Logged(next, revisions, events')
        BY <1>6 DEF Logged
    <2>5. Numbered(next, next_id)
        BY <1>1, <1>6, <2>1 DEF Good, Numbered
    <2>6. \A j \in Holds(next) : t.wrote[j] # NoHero /\ (j \notin Rows => next.loaded[j] = NoHero)
        BY <1>6, <2>1 DEF IInv, Unseen, Holds, RowsOf, t
    <2>7. \A j \in RowsOf(next.loaded) : t.loaded[j] # NoHero
        BY <1>6 DEF RowsOf
    <2> QED
        BY <1>2, <1>3, <1>6, <1>9, <2>2, <2>3, <2>4, <2>5, <2>6, <2>7, QuietStep DEF t
<1>10. CASE heroes[i] # NoHero /\ Enter(w, go)
    <2>1. heroes[i] \in Hero /\ i \in Rows
        BY <1>1, <1>10 DEF Table, Rows, RowsOf
    <2>2. new \in Hero /\ new.owner_id = heroes[i].owner_id /\ Keeps(t, heroes[i], new)
        BY <1>1, <1>5, <2>1, RewrittenKeeps DEF new
    <2>3. heroes[i].owner_id = t.req.caller
        BY <1>1, <1>5, <2>1 DEF Good, OnTable, Rows
    <2>4. /\ go \in Txn /\ go.pc = next.pc /\ go.req = t.req
          /\ go.todo = rest /\ go.loaded = t.loaded /\ go.shown = t.shown
          /\ go.wrote = [t.wrote EXCEPT ![i] = new]
        BY <1>6, <2>2 DEF Txn, Table
    <2> HIDE DEF go
    <2>5. t.wrote \in Table
        BY <1>1 DEF Txn
    <2>6. /\ go.wrote[i] = new /\ new # NoHero
          /\ \A j \in Ids \ {i} : go.wrote[j] = t.wrote[j]
        BY <2>2, <2>4, <2>5, NoHeroAssumption DEF Table
    <2>7. Holds(go) = Holds(t) \cup {i}
        BY <2>6 DEF Holds, RowsOf
    <2>8. InOrder(go)
        BY <1>1, <1>5, <1>6, <1>7, <2>4, <2>7 DEF Good, InOrder
    <2>9. OnTable(go, heroes)
        <3>1. \A j \in Holds(go) :
                 /\ go.wrote[j].owner_id = t.req.caller /\ j \in Rows
                 /\ heroes[j].owner_id = t.req.caller
                 /\ Keeps(t, heroes[j], go.wrote[j])
            <4> SUFFICES ASSUME NEW j \in Holds(go), j # i
                         PROVE  /\ go.wrote[j].owner_id = t.req.caller /\ j \in Rows
                                /\ heroes[j].owner_id = t.req.caller
                                /\ Keeps(t, heroes[j], go.wrote[j])
                BY <2>1, <2>2, <2>3, <2>6
            <4>1. j \in Holds(t) /\ go.wrote[j] = t.wrote[j]
                BY <2>6, <2>7 DEF Holds, RowsOf
            <4> QED
                BY <1>1, <1>5, <4>1 DEF Good, OnTable, Rows
        <3> QED
            BY <1>1, <1>5, <2>4, <3>1 DEF Good, OnTable, Keeps, Rows
    <2>10. Logged(go, revisions, events')
        BY <1>6, <2>4 DEF Logged
    <2>11. Numbered(go, next_id)
        BY <1>1, <1>5, <2>4, <2>7 DEF Good, Numbered
    <2>12. \A j \in Holds(go) : j = i \/ t.wrote[j] # NoHero
        BY <2>7 DEF Holds, RowsOf
    <2>13. \A j \in Holds(go) : j \notin Rows => go.loaded[j] = NoHero
        BY <2>1, <2>4, <2>7 DEF IInv, Unseen, t
    <2>14. \A j \in RowsOf(go.loaded) : t.loaded[j] # NoHero
        BY <2>4 DEF RowsOf
    <2> QED
        BY <1>2, <1>3, <1>4, <1>10, <2>1, <2>4, <2>8, <2>9, <2>10, <2>11, <2>12, <2>13, <2>14,
           QuietStep DEF t
<1> QED
    BY <1>4, <1>8, <1>9, <1>10 DEF t, next, rest, new

\* An event that is sent stands in the log of its row.
LEMMA SentGrows ==
    ASSUME IInv, NEW t \in Txn, NEW i \in Ids, t.shown[i] \in Hero
    PROVE  /\ Sent(i, t) \in [Ids -> Seq(Event)]
           /\ LogsGrow(events, Sent(i, t))
           /\ \E k \in 1..Len(Sent(i, t)[i]) : Sent(i, t)[i][k].snapshot = t.shown[i]
<1> DEFINE e == [action |-> ActionOf(t.req.op), snapshot |-> t.shown[i]]
<1>1. e \in Event /\ e.snapshot = t.shown[i]
    BY RequestIsTyped DEF Event, ActionOf, Ops
<1>2. events \in [Ids -> Seq(Event)]
    BY DEF IInv, TypeOK
<1> HIDE DEF e
<1>3. Sent(i, t) = [events EXCEPT ![i] = Append(@, e)]
    BY DEF Sent, e
<1>4. /\ Append(events[i], e) \in Seq(Event) /\ Len(events[i]) \in Nat
      /\ Len(Append(events[i], e)) = Len(events[i]) + 1
      /\ Append(events[i], e)[Len(events[i]) + 1] = e
      /\ \A k \in 1..Len(events[i]) : Append(events[i], e)[k] = events[i][k]
    BY <1>1, <1>2
<1>5. /\ Sent(i, t) \in [Ids -> Seq(Event)] /\ Sent(i, t)[i] = Append(events[i], e)
      /\ \A j \in Ids \ {i} : Sent(i, t)[j] = events[j]
    BY <1>2, <1>3, <1>4
<1>6. LogsGrow(events, Sent(i, t))
    <2>1. \A j \in Ids : Len(events[j]) \in Nat
        BY <1>2
    <2> QED
        <3> SUFFICES ASSUME NEW j \in Ids
                     PROVE  /\ Len(events[j]) <= Len(Sent(i, t)[j])
                            /\ \A k \in 1..Len(events[j]) : Sent(i, t)[j][k] = events[j][k]
            BY DEF LogsGrow
        <3>1. CASE j = i
            BY <1>4, <1>5, <3>1
        <3>2. CASE j # i
            BY <1>5, <2>1, <3>2
        <3> QED
            BY <3>1, <3>2
<1>7. \E k \in 1..Len(Sent(i, t)[i]) : Sent(i, t)[i][k].snapshot = t.shown[i]
    BY <1>1, <1>4, <1>5
<1> QED
    BY <1>5, <1>6, <1>7

LEMMA ReportKeeps ==
    ASSUME IInv, NEW w \in Workers, Report(w)
    PROVE  IInv'
<1> DEFINE t == txn[w]
<1>1. t \in Txn /\ t.pc = "report" /\ Good(t)
    BY DEF Report, IInv, TypeOK
<1>2. PICK i \in Ids :
          LET rest == t.todo \ {i} IN
          /\ IsNext(i, t.todo) /\ events' = Sent(i, t)
          /\ Enter(w, [t EXCEPT !.todo = rest, !.pc = IF rest = {} THEN "commit" ELSE "report"])
    BY DEF Report
<1>3. UNCHANGED <<heroes, next_id, revisions, purge, bounds>>
    BY DEF Report
<1> DEFINE rest == t.todo \ {i}
           go   == [t EXCEPT !.todo = rest, !.pc = IF rest = {} THEN "commit" ELSE "report"]
<1>4. i \in t.todo /\ i \in RowsOf(t.shown) /\ t.shown[i] \in Hero
    BY <1>1, <1>2 DEF IsNext, Good, InOrder, RowsOf, Txn, Table
<1>5. /\ events' \in [Ids -> Seq(Event)] /\ LogsGrow(events, events')
      /\ \E k \in 1..Len(events'[i]) : events'[i][k].snapshot = t.shown[i]
    BY <1>1, <1>2, <1>4, SentGrows
<1>6. /\ go \in Txn /\ go.pc = (IF rest = {} THEN "commit" ELSE "report") /\ go.req = t.req
      /\ go.todo = rest /\ go.loaded = t.loaded /\ go.wrote = t.wrote /\ go.shown = t.shown
    BY <1>1 DEF Txn
<1>7. rest \subseteq t.todo /\ \A j \in t.todo : j = i \/ j \in rest
    OBVIOUS
<1>8. Enter(w, go)
    BY <1>2
<1> HIDE DEF t, rest, go
<1>9. Holds(go) = Holds(t)
    BY <1>6 DEF Holds
<1>10. InOrder(go)
    BY <1>1, <1>6, <1>7, <1>9 DEF Good, InOrder
<1>11. OnTable(go, heroes)
    BY <1>1, <1>6, <1>9 DEF Good, OnTable, Keeps
<1>12. Logged(go, revisions, events')
    <2>1. Logged(t, revisions, events')
        BY <1>1, <1>5, LoggedStays, LogsStay DEF Good, IInv, TypeOK
    <2> SUFFICES ASSUME NEW j \in RowsOf(go.shown), go.pc = "commit" \/ j \notin go.todo
                 PROVE  \E k \in 1..Len(events'[j]) : events'[j][k].snapshot = go.shown[j]
        BY <1>6 DEF Logged
    <2>2. CASE j = i
        BY <1>5, <1>6, <2>2
    <2>3. CASE j # i
        <3>1. j \notin t.todo
            BY <1>6, <1>7, <2>3
        <3> QED
            BY <1>1, <1>6, <2>1, <3>1, Zenon DEF Logged
    <2> QED
        BY <2>2, <2>3
<1>13. Numbered(go, next_id)
    BY <1>1, <1>6, <1>9 DEF Good, Numbered
<1>14. \A j \in Holds(go) : t.wrote[j] # NoHero /\ (j \notin Rows => go.loaded[j] = NoHero)
    BY <1>6, <1>9 DEF IInv, Unseen, Holds, RowsOf, t
<1>15. \A j \in RowsOf(go.loaded) : t.loaded[j] # NoHero
    BY <1>6 DEF RowsOf
<1> QED
    BY <1>3, <1>5, <1>6, <1>8, <1>10, <1>11, <1>12, <1>13, <1>14, <1>15, QuietStep DEF t

\* The ways out: nothing stays of what was not committed.
LEMMA FailureKeeps ==
    ASSUME IInv, NEW w \in Workers,
           PublishFails(w) \/ Crash(w) \/ Respond(w) \/ DeadlockVictim(w)
    PROVE  IInv'
<1>1. txn[w] \in Txn /\ Good(txn[w])
    BY DEF IInv, TypeOK
<1>2. LogsGrow(events, events) /\ events \in [Ids -> Seq(Event)]
    BY LogsStay DEF IInv, TypeOK
<1>3. CASE PublishFails(w)
    <2>1. PICK i \in Ids : IsNext(i, txn[w].todo) /\ events' \in {events, Sent(i, txn[w])}
        BY <1>3 DEF PublishFails
    <2>2. txn[w].shown[i] \in Hero
        BY <1>1, <1>3, <2>1 DEF PublishFails, IsNext, Good, InOrder, RowsOf, Txn, Table
    <2>3. events' \in [Ids -> Seq(Event)] /\ LogsGrow(events, events')
        BY <1>1, <1>2, <2>1, <2>2, SentGrows
    <2> QED
        BY <1>1, <1>3, <2>3, RefusedIsGood, QuietStep DEF PublishFails, Answers
<1>4. CASE DeadlockVictim(w)
    BY <1>1, <1>2, <1>4, RefusedIsGood, QuietStep DEF DeadlockVictim, Answers
<1>5. CASE Crash(w) \/ Respond(w)
    <2>1. /\ Enter(w, NoTxn) /\ UNCHANGED <<heroes, next_id, revisions, events, purge, bounds>>
        BY <1>5 DEF Crash, Respond
    <2>2. TypeOK' /\ next_id' >= next_id
        BY <2>1, NoTxnIsTxn, BoundsAssumption DEF Enter, IInv, TypeOK, bounds
    <2>3. LogsGrow(revisions, revisions') /\ LogsGrow(events, events')
        BY <1>2, <2>1, LogsStay DEF IInv, TypeOK
    <2> QED
        BY <2>1, <2>2, <2>3, NoTxnIsTxn, EndStep DEF Enter
<1> QED
    BY <1>3, <1>4, <1>5

-----------------------------------------------------------------------------
(***************************************************************************)
(* The commit.                                                             *)
(***************************************************************************)
Answered(t) == [Idle(t.req) EXCEPT !.pc = "respond", !.shown = t.shown, !.answer = "done"]

\* A commit changes the rows its transaction holds, and adds one revision for
\* every row it has shown.
LEMMA CommitWrites ==
    ASSUME IInv, NEW w \in Workers, Commit(w)
    PROVE  /\ txn[w] \in Txn /\ txn[w].pc = "commit"
           /\ heroes' = [i \in Ids |-> Reads(txn[w], i)] /\ heroes' \in Table
           /\ \A i \in Ids : txn[w].wrote[i] # NoHero => heroes'[i] = txn[w].wrote[i]
           /\ \A i \in Ids : txn[w].wrote[i] = NoHero => heroes'[i] = heroes[i]
           /\ revisions' \in [Ids -> Seq(Revision)] /\ LogsGrow(revisions, revisions')
           /\ txn[w].req.op # "restore" =>
                 \A i \in RowsOf(txn[w].shown) :
                     /\ Len(revisions'[i]) = Len(revisions[i]) + 1
                     /\ Last(revisions'[i]).snapshot = txn[w].shown[i]
                     /\ Len(revisions'[i]) \in 1..Len(revisions'[i])
           /\ UNCHANGED <<next_id, events, purge, bounds>>
           /\ txn' = [txn EXCEPT ![w] = Answered(txn[w])]
<1> DEFINE t        == txn[w]
           entry(i) == [action |-> ActionOf(t.req.op), snapshot |-> t.shown[i],
                        actor |-> t.req.caller, created_at |-> t.start]
           logs(i)  == t.req.op # "restore" /\ t.shown[i] # NoHero
<1>1. /\ t \in Txn /\ t.pc = "commit" /\ UNCHANGED <<next_id, events, purge, bounds>>
      /\ heroes' = [i \in Ids |-> Reads(t, i)]
      /\ revisions' = [i \in Ids |-> IF logs(i) THEN Append(revisions[i], entry(i)) ELSE revisions[i]]
      /\ txn' = [txn EXCEPT ![w] = Answered(t)]
    BY DEF Commit, Enter, Answered, IInv, TypeOK
<1>2. heroes \in Table /\ revisions \in [Ids -> Seq(Revision)]
    BY DEF IInv, TypeOK
<1>3. /\ heroes' \in Table
      /\ \A i \in Ids : t.wrote[i] # NoHero => heroes'[i] = t.wrote[i]
      /\ \A i \in Ids : t.wrote[i] = NoHero => heroes'[i] = heroes[i]
    BY <1>1, <1>2 DEF Reads, Txn, Table
<1>4. \A i \in Ids : logs(i) => entry(i) \in Revision
    BY <1>1, RequestIsTyped DEF Revision, ActionOf, Ops, Txn, Table
<1> HIDE DEF t, entry, logs
<1>5. \A i \in Ids : logs(i) =>
         /\ Append(revisions[i], entry(i)) \in Seq(Revision)
         /\ Len(Append(revisions[i], entry(i))) = Len(revisions[i]) + 1
         /\ Append(revisions[i], entry(i))[Len(revisions[i]) + 1] = entry(i)
         /\ \A k \in 1..Len(revisions[i]) : Append(revisions[i], entry(i))[k] = revisions[i][k]
    BY <1>2, <1>4
<1>6. \A i \in Ids : Len(revisions[i]) \in Nat
    BY <1>2
<1>7. \A i \in Ids : revisions'[i] = IF logs(i) THEN Append(revisions[i], entry(i)) ELSE revisions[i]
    BY <1>1
<1>8. revisions' \in [Ids -> Seq(Revision)]
    BY <1>1, <1>2, <1>5
<1>9. LogsGrow(revisions, revisions')
    <2> SUFFICES ASSUME NEW i \in Ids
                 PROVE  /\ Len(revisions[i]) <= Len(revisions'[i])
                        /\ \A k \in 1..Len(revisions[i]) : revisions'[i][k] = revisions[i][k]
        BY DEF LogsGrow
    <2>1. CASE logs(i)
        <3>1. revisions'[i] = Append(revisions[i], entry(i))
            BY <1>7, <2>1
        <3> QED
            BY <1>5, <1>6, <2>1, <3>1
    <2>2. CASE ~logs(i)
        <3>1. revisions'[i] = revisions[i]
            BY <1>7, <2>2
        <3> QED
            BY <1>6, <3>1
    <2> QED
        BY <2>1, <2>2
<1>10. \A i \in Ids : logs(i) =>
          /\ Len(revisions'[i]) = Len(revisions[i]) + 1
          /\ Last(revisions'[i]) = entry(i)
          /\ Len(revisions'[i]) \in 1..Len(revisions'[i])
    <2> SUFFICES ASSUME NEW i \in Ids, logs(i)
                 PROVE  /\ Len(revisions'[i]) = Len(revisions[i]) + 1
                        /\ Last(revisions'[i]) = entry(i)
                        /\ Len(revisions'[i]) \in 1..Len(revisions'[i])
        OBVIOUS
    <2>1. revisions'[i] = Append(revisions[i], entry(i))
        BY <1>7
    <2> QED
        BY <1>5, <1>6, <2>1 DEF Last
<1>11. t.req.op # "restore" =>
          \A i \in RowsOf(t.shown) : /\ Len(revisions'[i]) = Len(revisions[i]) + 1
                                     /\ Last(revisions'[i]).snapshot = t.shown[i]
                                     /\ Len(revisions'[i]) \in 1..Len(revisions'[i])
    <2> SUFFICES ASSUME t.req.op # "restore", NEW i \in RowsOf(t.shown)
                 PROVE  /\ Len(revisions'[i]) = Len(revisions[i]) + 1
                        /\ Last(revisions'[i]).snapshot = t.shown[i]
                        /\ Len(revisions'[i]) \in 1..Len(revisions'[i])
        OBVIOUS
    <2>1. i \in Ids /\ logs(i)
        BY DEF RowsOf, logs
    <2>2. entry(i).snapshot = t.shown[i]
        BY DEF entry
    <2> QED
        BY <1>10, <2>1, <2>2
<1> QED
    BY <1>1, <1>3, <1>8, <1>9, <1>11 DEF t

LEMMA AnsweredIsTxn ==
    ASSUME NEW t \in Txn
    PROVE  /\ Answered(t) \in Txn /\ Answered(t).pc = "respond" /\ Answered(t).answer = "done"
           /\ Answered(t).req = t.req /\ Answered(t).shown = t.shown
           /\ Answered(t).loaded = NoRows /\ Answered(t).wrote = NoRows
<1>1. t.req \in Requests /\ t.shown \in Table
    BY DEF Txn
<1>2. /\ Idle(t.req) \in Txn /\ Idle(t.req).wrote = NoRows /\ Idle(t.req).loaded = NoRows
      /\ Idle(t.req).req = t.req
    BY <1>1, IdleIsTxn, BoundsAssumption DEF Instant, Idle
<1> HIDE DEF Idle
<1> QED
    BY <1>1, <1>2 DEF Answered, Txn, Answers

\* The others keep what they have loaded and written: the rows they hold are
\* not the ones that change.
LEMMA CommitKeeps ==
    ASSUME IInv, NEW w \in Workers, Commit(w)
    PROVE  IInv'
<1> DEFINE t  == txn[w]
           go == Answered(t)
<1>1. /\ t \in Txn /\ t.pc = "commit" /\ Good(t) /\ heroes \in Table /\ heroes' \in Table
      /\ \A i \in Ids : t.wrote[i] # NoHero => heroes'[i] = t.wrote[i]
      /\ \A i \in Ids : t.wrote[i] = NoHero => heroes'[i] = heroes[i]
      /\ revisions' \in [Ids -> Seq(Revision)] /\ LogsGrow(revisions, revisions')
      /\ UNCHANGED <<next_id, events, purge, bounds>>
      /\ txn' = [txn EXCEPT ![w] = go]
    BY CommitWrites DEF IInv, TypeOK
<1>2. txn'[w] = go /\ \A v \in Workers \ {w} : txn'[v] = txn[v]
    BY <1>1 DEF IInv, TypeOK
<1>3. /\ go \in Txn /\ go.pc = "respond" /\ go.req = t.req
      /\ go.loaded = NoRows /\ go.wrote = NoRows /\ go.shown = t.shown
    BY <1>1, AnsweredIsTxn
<1>4. Holds(go) = {} /\ RowsOf(go.loaded) = {}
    BY <1>3, NoRowsIsEmpty DEF Holds
<1>5. Logged(go, revisions', events')
    <2> SUFFICES ASSUME t.req.op # "restore", NEW i \in RowsOf(t.shown)
                 PROVE  \E k \in 1..Len(revisions'[i]) : revisions'[i][k].snapshot = t.shown[i]
        BY <1>3 DEF Logged
    <2> QED
        BY CommitWrites DEF Last
<1> HIDE DEF t, go
<1>6. TypeOK'
    BY <1>1, <1>3 DEF IInv, TypeOK, bounds
<1>7. Rows \subseteq Rows' /\ Rows' = Rows \cup Holds(t)
    BY <1>1 DEF Rows, RowsOf, Holds
<1>8. \A i \in Rows' : i < next_id'
    BY <1>1, <1>7 DEF IInv, Good, Numbered
<1>9. \A v \in Workers \ {w} : \A i \in Holds(txn[v]) : heroes'[i] = heroes[i]
    BY <1>1 DEF IInv, Exclusive, Holds, RowsOf, t
<1>10. ASSUME NEW v \in Workers \ {w} PROVE OnTable(txn[v], heroes')
    <2>1. OnTable(txn[v], heroes)
        BY DEF IInv, Good
    <2>2. \A i \in Holds(txn[v]) : i \in Rows' <=> i \in Rows
        BY <1>9 DEF Rows, RowsOf, Holds
    <2>3. ASSUME NEW i \in RowsOf(txn[v].loaded) \cap Rows', txn[v].pc = "flush"
          PROVE  heroes'[i].owner_id = txn[v].req.caller
        <3>1. i \in Ids
            BY DEF RowsOf
        <3>2. CASE i \notin Holds(t)
            <4>1. heroes'[i] = heroes[i] /\ i \in Rows
                BY <1>1, <1>7, <3>1, <3>2 DEF Holds, RowsOf
            <4> QED
                BY <2>1, <2>3, <4>1 DEF OnTable, Rows
        <3>3. CASE i \in Holds(t)
            <4>1. heroes'[i] = t.wrote[i] /\ t.wrote[i].owner_id = t.req.caller
                BY <1>1, <3>1, <3>3 DEF Holds, RowsOf, Good, OnTable
            <4>2. i \in Rows
                BY <2>3, <3>3 DEF IInv, Unseen, RowsOf, t
            <4>3. heroes[i].owner_id = t.req.caller
                BY <1>1, <3>3, <4>2 DEF Good, OnTable, Rows
            <4>4. heroes[i].owner_id = txn[v].req.caller
                BY <2>1, <2>3, <4>2 DEF OnTable, Rows
            <4> QED
                BY <4>1, <4>3, <4>4
        <3> QED
            BY <3>2, <3>3
    <2> QED
        BY <1>9, <2>1, <2>2, <2>3 DEF OnTable, Rows
<1>11. \A v \in Workers : Good(txn[v])'
    <2> SUFFICES ASSUME NEW v \in Workers
                 PROVE  Good(txn[v])'
        OBVIOUS
    <2>1. CASE v = w
        <3>1. InOrder(go) /\ OnTable(go, heroes') /\ Numbered(go, next_id')
            BY <1>3, <1>4 DEF InOrder, OnTable, Numbered
        <3> QED
            BY <1>2, <1>5, <2>1, <3>1 DEF Good
    <2>2. CASE v # w
        <3>1. txn'[v] = txn[v] /\ Good(txn[v])
            BY <1>2, <2>2 DEF IInv
        <3>2. Logged(txn[v], revisions', events')
            BY <1>1, <3>1, LoggedStays, LogsStay DEF IInv, TypeOK, Good
        <3>3. Numbered(txn[v], next_id')
            BY <1>1, <3>1 DEF Good, Numbered
        <3>4. OnTable(txn[v], heroes')
            BY <1>10, <2>2
        <3> QED
            BY <3>1, <3>2, <3>3, <3>4 DEF Good
    <2> QED
        BY <2>1, <2>2
<1>12. \A i \in Ids : go.wrote[i] = NoHero /\ go.loaded[i] = NoHero
    BY <1>3 DEF NoRows
<1>13. Exclusive'
    BY <1>2, <1>12 DEF IInv, Exclusive
<1>14. Unseen'
    <2> SUFFICES ASSUME NEW v \in Workers, NEW u \in Workers,
                        NEW i \in Holds(txn'[u]), i \notin Rows'
                 PROVE  txn'[v].loaded[i] = NoHero
        BY DEF Unseen, Holds
    <2>1. i \in Ids /\ u # w /\ txn'[u] = txn[u] /\ i \notin Rows
        BY <1>2, <1>4, <1>7 DEF Holds, RowsOf
    <2>2. CASE v = w
        BY <1>2, <1>12, <2>1, <2>2
    <2>3. CASE v # w
        BY <1>2, <2>1, <2>3 DEF IInv, Unseen
    <2> QED
        BY <2>2, <2>3
<1>15. PurgeInv'
    <2>1. \A i \in purge.deleted : i \in Rows' /\ heroes'[i] = heroes[i]
        BY <1>1, <1>7 DEF IInv, PurgeInv, Rows, RowsOf, t
    <2>2. \A i \in purge.deleted : \A v \in Workers : txn'[v].wrote[i] = NoHero
        BY <1>2, <1>12 DEF IInv, PurgeInv, TypeOK
    <2> QED
        BY <1>1, <1>7, <2>1, <2>2 DEF IInv, PurgeInv
<1> QED
    BY <1>6, <1>8, <1>11, <1>13, <1>14, <1>15 DEF IInv

-----------------------------------------------------------------------------
(***************************************************************************)
(* The purge, and the clock.                                               *)
(***************************************************************************)

\* The transactions hold what they held while no row changes.
LEMMA PurgeStep ==
    ASSUME IInv, UNCHANGED <<heroes, next_id, revisions, events, txn>>, TypeOK', PurgeInv'
    PROVE  IInv'
BY DEF IInv, Good, Exclusive, Unseen, Rows, Holds

\* What the purge takes was archived, and no request holds it.
LEMMA PurgeKeeps ==
    ASSUME IInv, PurgeBegins \/ PurgeRow \/ PurgeAborts \/ Tick
    PROVE  IInv'
<1>1. UNCHANGED <<heroes, next_id, revisions, events, txn>>
    BY DEF PurgeBegins, PurgeRow, PurgeAborts, Tick
<1>2. CASE PurgeBegins
    <2>1. PICK cutoff \in 0..clock :
              purge' = [older_than |-> cutoff, deleted |-> {}, running |-> TRUE,
                        todo |-> {i \in Rows : Purgeable(heroes[i], cutoff)}]
        BY <1>2 DEF PurgeBegins
    <2>2. cutoff \in Instant /\ Rows \subseteq Ids
        BY BoundsAssumption DEF IInv, TypeOK, Instant, Rows, RowsOf
    <2>3. TypeOK'
        BY <1>1, <1>2, <2>1, <2>2, SqlBoundsAssumption DEF PurgeBegins, IInv, TypeOK
    <2>4. PurgeInv'
        BY <1>1, <2>1 DEF PurgeInv, Rows
    <2> QED
        BY <1>1, <2>3, <2>4, PurgeStep
<1>3. CASE PurgeRow
    <2>1. PICK i \in purge.todo :
              /\ ~HeldFrom(PurgeId, i)
              /\ purge' = [purge EXCEPT
                    !.todo = @ \ {i},
                    !.deleted = IF Purgeable(heroes[i], purge.older_than) THEN @ \cup {i} ELSE @]
        BY <1>3 DEF PurgeRow
    <2>2. purge \in [older_than : Instant, todo : SUBSET Ids, deleted : SUBSET Ids, running : BOOLEAN]
        BY DEF IInv, TypeOK
    <2>3. i \in Rows /\ i \in Ids /\ \A w \in Workers : txn[w].wrote[i] = NoHero
        BY <2>1, WorkAssumption DEF HeldFrom, PurgeId, IInv, PurgeInv, Rows, RowsOf
    <2>4. TypeOK'
        BY <1>1, <1>3, <2>1, <2>2, <2>3 DEF PurgeRow, IInv, TypeOK, bounds
    <2>5. /\ purge'.todo \subseteq purge.todo
          /\ \A j \in purge'.deleted : j \in purge.deleted \/ (j = i /\ Archived(heroes[i]))
        BY <2>1, <2>2 DEF Purgeable
    <2>6. PurgeInv'
        BY <1>1, <2>3, <2>5 DEF IInv, PurgeInv, Rows
    <2> QED
        BY <1>1, <2>4, <2>6, PurgeStep
<1>4. CASE PurgeAborts
    <2>1. TypeOK'
        BY <1>1, <1>4, BoundsAssumption DEF PurgeAborts, NoPurge, IInv, TypeOK, bounds, Instant
    <2>2. PurgeInv'
        BY <1>4 DEF PurgeAborts, NoPurge, PurgeInv
    <2> QED
        BY <1>1, <2>1, <2>2, PurgeStep
<1>5. CASE Tick
    <2>1. TypeOK'
        BY <1>1, <1>5, BoundsAssumption DEF Tick, IInv, TypeOK, Instant
    <2>2. PurgeInv'
        BY <1>1, <1>5 DEF Tick, IInv, PurgeInv, Rows
    <2> QED
        BY <1>1, <2>1, <2>2, PurgeStep
<1> QED
    BY <1>2, <1>3, <1>4, <1>5

\* The rows that go are held by nobody.
LEMMA PurgeCommitKeeps ==
    ASSUME IInv, PurgeCommits
    PROVE  IInv'
<1>1. /\ heroes' = [i \in Ids |-> IF i \in purge.deleted THEN NoHero ELSE heroes[i]]
      /\ purge' = NoPurge /\ UNCHANGED <<next_id, revisions, events, txn, bounds>>
    BY DEF PurgeCommits
<1>2. TypeOK'
    BY <1>1, BoundsAssumption DEF NoPurge, IInv, TypeOK, Table, Instant, bounds
<1>3. Rows' \subseteq Rows /\ \A i \in Rows' : heroes'[i] = heroes[i]
    BY <1>1 DEF Rows, RowsOf
<1>4. \A v \in Workers : \A i \in Holds(txn[v]) :
          heroes'[i] = heroes[i] /\ (i \in Rows' <=> i \in Rows)
    BY <1>1 DEF IInv, PurgeInv, Rows, RowsOf, Holds
<1>5. \A v \in Workers : OnTable(txn[v], heroes')
    <2> SUFFICES ASSUME NEW v \in Workers
                 PROVE  OnTable(txn[v], heroes')
        OBVIOUS
    <2>1. OnTable(txn[v], heroes)
        BY DEF IInv, Good
    <2> QED
        BY <1>3, <1>4, <2>1 DEF OnTable, Rows
<1>6. \A v \in Workers : Good(txn[v])'
    BY <1>1, <1>5 DEF IInv, Good
<1>7. Unseen'
    BY <1>1, <1>4 DEF IInv, Unseen, Holds
<1>8. Exclusive' /\ PurgeInv'
    BY <1>1 DEF IInv, Exclusive, PurgeInv, NoPurge
<1> QED
    BY <1>1, <1>2, <1>3, <1>6, <1>7, <1>8 DEF IInv

-----------------------------------------------------------------------------
(***************************************************************************)
(* The invariant.                                                          *)
(***************************************************************************)
LEMMA InitKeeps == Init => IInv
<1> SUFFICES ASSUME Init
             PROVE  IInv
    OBVIOUS
<1>1. /\ heroes \in Tables /\ next_id \in Ids \cup {MaxHeroes + 1}
      /\ \A i \in Ids : i < next_id <=> i \in Rows
      /\ revisions = [i \in Ids |-> <<>>] /\ events = [i \in Ids |-> <<>>]
      /\ txn = [w \in Workers |-> NoTxn] /\ purge = NoPurge
      /\ clock = 0 /\ taken = 0 /\ purges = 0
    BY DEF Init
<1>2. heroes \in Table /\ 0 \in Instant
    BY <1>1, TablesAssumption, BoundsAssumption DEF Table, Instant
<1>3. TypeOK
    BY <1>1, <1>2, NoTxnIsTxn, BoundsAssumption, SqlBoundsAssumption DEF TypeOK, NoPurge, Ids
<1>4. \A i \in Rows : i < next_id
    BY <1>1 DEF Rows, RowsOf
<1>5. \A w \in Workers : txn[w] = NoTxn
    BY <1>1
<1>6. Holds(NoTxn) = {} /\ RowsOf(NoTxn.loaded) = {} /\ RowsOf(NoTxn.shown) = {}
    BY NoTxnIsTxn, NoRowsIsEmpty DEF Holds
<1>7. Good(NoTxn)
    BY <1>6, NoTxnIsTxn DEF Good, InOrder, OnTable, Logged, Numbered
<1>8. \A i \in Ids : NoTxn.wrote[i] = NoHero
    BY NoTxnIsTxn DEF NoRows
<1> QED
    BY <1>1, <1>3, <1>4, <1>5, <1>6, <1>7, <1>8 DEF IInv, Exclusive, Unseen, PurgeInv, NoPurge

LEMMA NextKeeps == IInv /\ [Next]_vars => IInv'
<1> SUFFICES ASSUME IInv, [Next]_vars
             PROVE  IInv'
    OBVIOUS
<1>1. ASSUME NEW w \in Workers, Take(w) PROVE IInv'
    BY <1>1, TakeCreateKeeps, TakeSingleKeeps, TakeBulkKeeps, TakeDeleteKeeps, TakeValidatedKeeps
       DEF Take
<1>2. ASSUME NEW w \in Workers, Proceed(w) PROVE IInv'
    BY <1>2, SelectKeeps, InsertCloneKeeps, FlushKeeps, RefreshKeeps, ReportKeeps, CommitKeeps,
       FailureKeeps DEF Proceed
<1>3. ASSUME NEW w \in Workers, Fails(w) \/ DeadlockVictim(w) PROVE IInv'
    BY <1>3, FailureKeeps DEF Fails
<1>4. CASE PurgeBegins \/ PurgeRow \/ PurgeCommits \/ PurgeAborts \/ Tick
    BY <1>4, PurgeKeeps, PurgeCommitKeeps
<1>5. CASE UNCHANGED vars
    <2>1. UNCHANGED <<heroes, next_id, revisions, events, txn, purge, clock, taken, purges>>
        BY <1>5 DEF vars
    <2>2. TypeOK' /\ PurgeInv'
        BY <2>1 DEF IInv, TypeOK, PurgeInv, Rows
    <2> QED
        BY <2>1, <2>2, PurgeStep
<1> QED
    BY <1>1, <1>2, <1>3, <1>4, <1>5 DEF Next

LEMMA SqlInvariant == Spec => []IInv
<1> QED
    BY InitKeeps, NextKeeps, PTL DEF Spec

-----------------------------------------------------------------------------
(***************************************************************************)
(* What follows for every state.                                           *)
(***************************************************************************)

\* Every set of naturals has a least element, and every set of naturals up to
\* n a largest one.
LEMMA LeastNatural ==
    ASSUME NEW S \in SUBSET Nat, S # {}
    PROVE  \E n \in S : \A m \in S : ~(m < n)
<1> DEFINE R == OpToRel(<, Nat)
<1>1. IsWellFoundedOn(R, Nat)
    BY NatLessThanWellFounded
<1>2. \A m, n \in Nat : <<m, n>> \in R <=> m < n
    BY DEF OpToRel
<1> HIDE DEF R
<1>3. \E n \in S : \A m \in S : <<m, n>> \notin R
    BY <1>1, WFMin
<1> QED
    BY <1>2, <1>3

LEMMA LargestNatural ==
    ASSUME NEW n \in Nat, NEW S \in SUBSET 0..n, S # {}
    PROVE  \E i \in S : \A j \in S : j <= i
<1> DEFINE U == {n - i : i \in S}
<1>1. (\A i \in S : n - i \in U) /\ \A u \in U : \E i \in S : u = n - i
    BY Zenon
<1> HIDE DEF U
<1>2. \A u \in U : u \in Nat
    BY <1>1
<1>3. U # {}
    BY <1>1
<1>4. PICK u \in U : \A v \in U : ~(v < u)
    BY <1>2, <1>3, LeastNatural
<1>5. PICK i \in S : u = n - i
    BY <1>1
<1> QED
    BY <1>1, <1>4, <1>5

\* Who waits in a circle waits for a row beyond the one it is waited for; but
\* there is a last row.
LEMMA NoCircle ==
    ASSUME IInv, NEW D \in SUBSET Workers
    PROVE  ~Circle(D)
<1> SUFFICES ASSUME Circle(D)
             PROVE  FALSE
    OBVIOUS
<1> DEFINE S == {i \in Ids : \E p \in D : txn[p].pc = "flush" /\ IsNext(i, txn[p].todo)}
<1>1. \A p \in D : p # PurgeId
    BY WorkAssumption DEF PurgeId
<1>2. \A p \in D : /\ txn[p].pc = "flush" /\ txn[p] \in Txn /\ InOrder(txn[p])
                   /\ \E q \in D : WaitsFor(p, q)
    BY <1>1 DEF Circle, WaitsFor, IInv, Good, TypeOK
<1>3. \A p \in D : \E i \in Ids, q \in D : IsNext(i, txn[p].todo) /\ txn[q].wrote[i] # NoHero
    BY <1>1, <1>2 DEF WaitsFor, Txn
<1>4. S # {} /\ S \in SUBSET 0..MaxHeroes
    <2>1. PICK p \in D : TRUE
        BY DEF Circle
    <2>2. S # {}
        BY <1>2, <1>3, <2>1
    <2> QED
        BY <2>2, BoundsAssumption DEF Ids
<1>5. \A i \in S : \E j \in S : i < j
    <2> SUFFICES ASSUME NEW i \in S
                 PROVE  \E j \in S : i < j
        OBVIOUS
    <2>1. PICK p \in D : IsNext(i, txn[p].todo)
        OBVIOUS
    <2>2. PICK k \in Ids, q \in D : IsNext(k, txn[p].todo) /\ txn[q].wrote[k] # NoHero
        BY <1>3
    <2>3. k = i
        BY <2>1, <2>2, BoundsAssumption DEF IsNext, Ids
    <2>4. PICK j \in Ids : IsNext(j, txn[q].todo)
        BY <1>3
    <2>5. i < j
        BY <1>2, <2>2, <2>3, <2>4 DEF InOrder, IsNext, Holds, RowsOf
    <2>6. j \in S
        BY <1>2, <2>4
    <2> QED
        BY <2>5, <2>6
<1> HIDE DEF S
<1>6. PICK i \in S : \A j \in S : j <= i
    BY <1>4, LargestNatural, BoundsAssumption
<1>7. S \subseteq Nat
    BY <1>4, BoundsAssumption
<1> QED
    BY <1>5, <1>6, <1>7

\* Requests never wait for each other in a circle: each takes its rows in
\* primary-key order (the flush of sqlalchemy.py's unit of work).
THEOREM DeadlockFree == Spec => []RequestsDoNotDeadlock
<1>1. IInv => RequestsDoNotDeadlock
    BY NoCircle DEF RequestsDoNotDeadlock
<1> QED
    BY <1>1, SqlInvariant, PTL

\* What an answer shows has a committed revision that shows it: get_db commits
\* before the response leaves (models/base.py DBSession).
THEOREM AnswersDurable == Spec => []AnswersAreDurable
<1>1. IInv => AnswersAreDurable
    BY DEF AnswersAreDurable, IInv, Good, Logged
<1> QED
    BY <1>1, SqlInvariant, PTL

-----------------------------------------------------------------------------
(***************************************************************************)
(* What follows for every step.                                            *)
(***************************************************************************)

\* Rows change by a commit only, of a request or of the purge.
LEMMA RowsChange ==
    ASSUME IInv, [Next]_vars
    PROVE  heroes' = heroes \/ (\E w \in Workers : Commit(w)) \/ PurgeCommits
<1>1. ASSUME NEW w \in Workers, Take(w) PROVE heroes' = heroes
    BY <1>1 DEF Take, TakeCreate, Inserts, TakeSingle, TakeBulk, TakeDelete, TakeValidated
<1>2. ASSUME NEW w \in Workers, Proceed(w) PROVE heroes' = heroes \/ Commit(w)
    BY <1>2 DEF Proceed, Select, InsertClone, Inserts, Flush, Refresh, Report, Respond
<1>3. ASSUME NEW w \in Workers, Fails(w) \/ DeadlockVictim(w) PROVE heroes' = heroes
    BY <1>3 DEF Fails, PublishFails, Crash, DeadlockVictim
<1>4. CASE PurgeBegins \/ PurgeRow \/ PurgeAborts \/ Tick \/ UNCHANGED vars
    BY <1>4 DEF PurgeBegins, PurgeRow, PurgeAborts, Tick, vars
<1> QED
    BY <1>1, <1>2, <1>3, <1>4 DEF Next

\* A transaction that goes from its commit to its response has committed.
LEMMA CommitsByCommit ==
    ASSUME IInv, [Next]_vars, NEW w \in Workers, Commits(w)
    PROVE  Commit(w)
<1>1. txn[w].pc = "commit" /\ txn'[w].pc = "respond" /\ txn \in [Workers -> Txn]
    BY DEF Commits, IInv, TypeOK
<1>2. ASSUME NEW v \in Workers, NEW t, Enter(v, t)
      PROVE  v = w
    BY <1>1, <1>2 DEF Enter
<1>3. ASSUME NEW v \in Workers, Take(v) PROVE FALSE
    <2>1. txn[v].pc = "idle" /\ \E t : Enter(v, t)
        BY <1>3 DEF Take, TakeCreate, Inserts, TakeSingle, TakeBulk, TakeDelete, TakeValidated, Takes
    <2> QED
        BY <1>1, <1>2, <2>1
<1>4. ASSUME NEW v \in Workers, Proceed(v) PROVE Commit(w)
    <2>1. CASE Commit(v)
        <3>1. \E t : Enter(v, t)
            BY <2>1 DEF Commit
        <3> QED
            BY <1>2, <2>1, <3>1
    <2>2. CASE Select(v) \/ InsertClone(v) \/ Flush(v) \/ Refresh(v) \/ Report(v) \/ Respond(v)
        <3>1. txn[v].pc # "commit" /\ \E t : Enter(v, t)
            BY <2>2 DEF Select, InsertClone, Inserts, Flush, Refresh, Report, Respond
        <3> QED
            BY <1>1, <1>2, <3>1
    <2> QED
        BY <1>4, <2>1, <2>2 DEF Proceed
<1>5. ASSUME NEW v \in Workers, PublishFails(v) PROVE FALSE
    BY <1>1, <1>2, <1>5 DEF PublishFails
<1>6. ASSUME NEW v \in Workers, Crash(v) PROVE FALSE
    <2>1. v = w
        BY <1>2, <1>6 DEF Crash
    <2>2. txn'[w].pc = "idle"
        BY <1>1, <1>6, <2>1, NoTxnIsTxn DEF Crash, Enter
    <2> QED
        BY <1>1, <2>2
<1>7. ASSUME NEW v \in Workers, DeadlockVictim(v) PROVE FALSE
    <2>1. v = w
        BY <1>2, <1>7 DEF DeadlockVictim
    <2>2. txn[v].pc = "flush"
        BY <1>7, WorkAssumption DEF DeadlockVictim, Circle, WaitsFor, PurgeId
    <2> QED
        BY <1>1, <2>1, <2>2
<1>8. CASE PurgeBegins \/ PurgeRow \/ PurgeCommits \/ PurgeAborts \/ Tick \/ UNCHANGED vars
    BY <1>1, <1>8 DEF PurgeBegins, PurgeRow, PurgeCommits, PurgeAborts, Tick, vars
<1> QED
    BY <1>3, <1>4, <1>5, <1>6, <1>7, <1>8 DEF Next, Fails

\* No update is lost: a commit changes the fields its body names, to what it
\* says, and no others (sqlalchemy.py update_many sets what has changed).
THEOREM NoFieldLost == Spec => NoFieldIsLost
<1>1. ASSUME IInv, [Next]_vars
      PROVE  \A w \in Workers : Commits(w) =>
                \A i \in Rows, f \in Fields : heroes'[i][f] # heroes[i][f] =>
                    /\ txn[w].req.op \in {"update", "publish"}
                    /\ heroes'[i][f] = txn[w].req.body[f]
    <2> SUFFICES ASSUME NEW w \in Workers, Commits(w), NEW i \in Rows, NEW f \in Fields,
                        heroes'[i][f] # heroes[i][f]
                 PROVE  /\ txn[w].req.op \in {"update", "publish"}
                        /\ heroes'[i][f] = txn[w].req.body[f]
        OBVIOUS
    <2>1. Commit(w)
        BY <1>1, CommitsByCommit
    <2>2. i \in Ids /\ heroes'[i] = txn[w].wrote[i] /\ i \in Holds(txn[w])
        BY <1>1, <2>1, CommitWrites DEF Rows, RowsOf, Holds
    <2>3. OnTable(txn[w], heroes)
        BY <1>1 DEF IInv, Good
    <2>4. Keeps(txn[w], heroes[i], heroes'[i])
        BY <2>2, <2>3 DEF OnTable, Rows
    <2> QED
        BY <2>4 DEF Keeps
<1> QED
    BY <1>1, SqlInvariant, PTL DEF Spec, NoFieldIsLost

\* A commit changes rows of its caller only (interfaces/base.py _scoped).
THEOREM OwnRowsChange == Spec => OnlyOwnRowsChange
<1>1. ASSUME IInv, [Next]_vars
      PROVE  \A w \in Workers : Commits(w) =>
                \A i \in Ids : heroes'[i] # heroes[i] =>
                    \A h \in {heroes[i], heroes'[i]} \ {NoHero} : h.owner_id = txn[w].req.caller
    <2> SUFFICES ASSUME NEW w \in Workers, Commits(w), NEW i \in Ids, heroes'[i] # heroes[i],
                        NEW h \in {heroes[i], heroes'[i]} \ {NoHero}
                 PROVE  h.owner_id = txn[w].req.caller
        OBVIOUS
    <2>1. Commit(w)
        BY <1>1, CommitsByCommit
    <2>2. heroes'[i] = txn[w].wrote[i] /\ i \in Holds(txn[w])
        BY <1>1, <2>1, CommitWrites DEF Holds, RowsOf
    <2>3. OnTable(txn[w], heroes)
        BY <1>1 DEF IInv, Good
    <2>4. heroes[i] # NoHero => i \in Rows
        BY DEF Rows, RowsOf
    <2> QED
        BY <2>2, <2>3, <2>4 DEF OnTable, Rows
<1> QED
    BY <1>1, SqlInvariant, PTL DEF Spec, OnlyOwnRowsChange

\* A row leaves the table out of the archive only, and enters it by an INSERT
\* only: nobody brings back what was purged (app/maintenance.py).
THEOREM ArchivedRowsPurged == Spec => OnlyArchivedRowsArePurged
<1>1. ASSUME IInv, [Next]_vars
      PROVE  /\ \A i \in Rows : heroes'[i] = NoHero => Archived(heroes[i])
             /\ \A i \in Ids \ Rows : heroes'[i] # NoHero =>
                   \E w \in Workers : txn[w].req.op \in {"create", "clone"} /\ Commits(w)
    <2>1. CASE heroes' = heroes
        BY <2>1 DEF Rows, RowsOf
    <2>2. ASSUME NEW w \in Workers, Commit(w)
          PROVE  /\ \A i \in Rows : heroes'[i] # NoHero
                 /\ \A i \in Ids \ Rows : heroes'[i] # NoHero =>
                       txn[w].req.op \in {"create", "clone"} /\ Commits(w)
        <3>1. /\ \A i \in Ids : txn[w].wrote[i] # NoHero => heroes'[i] = txn[w].wrote[i]
              /\ \A i \in Ids : txn[w].wrote[i] = NoHero => heroes'[i] = heroes[i]
              /\ txn[w].pc = "commit" /\ txn[w] \in Txn
              /\ txn' = [txn EXCEPT ![w] = Answered(txn[w])]
            BY <1>1, <2>2, CommitWrites
        <3>2. OnTable(txn[w], heroes)
            BY <1>1 DEF IInv, Good
        <3>3. Commits(w)
            BY <1>1, <3>1, AnsweredIsTxn DEF Commits, IInv, TypeOK
        <3> QED
            BY <3>1, <3>2, <3>3 DEF OnTable, Holds, Rows, RowsOf, Inserting
    <2>3. CASE PurgeCommits
        BY <1>1, <2>3 DEF PurgeCommits, IInv, PurgeInv, Rows, RowsOf
    <2> QED
        BY <1>1, <2>1, <2>2, <2>3, RowsChange
<1> QED
    BY <1>1, SqlInvariant, PTL DEF Spec, OnlyArchivedRowsArePurged

\* A change becomes visible together with a revision that shows the row as it
\* is then, and after an event that does (interfaces/base.py _record_revision
\* and _publish_event, with the refresh between flush and view).
THEOREM ChangesLogged == Spec => ChangesAreLogged
<1>1. ASSUME IInv, [Next]_vars
      PROVE  \A i \in Ids :
                /\ heroes'[i] # NoHero
                /\ heroes[i] # NoHero => ~SameFields(heroes'[i], heroes[i])
                => CommitsWithItsRevision(i) /\ IsAnnounced(i)
    <2> SUFFICES ASSUME NEW i \in Ids, heroes'[i] # NoHero,
                        heroes[i] # NoHero => ~SameFields(heroes'[i], heroes[i])
                 PROVE  CommitsWithItsRevision(i) /\ IsAnnounced(i)
        OBVIOUS
    <2>1. heroes'[i] # heroes[i]
        BY DEF SameFields
    <2>2. PICK w \in Workers : Commit(w)
        BY <1>1, <2>1, RowsChange DEF PurgeCommits
    <2>3. /\ heroes'[i] = txn[w].wrote[i] /\ i \in Holds(txn[w])
          /\ txn[w].pc = "commit"
        BY <1>1, <2>1, <2>2, CommitWrites DEF Holds, RowsOf
    <2>4. Good(txn[w])
        BY <1>1 DEF IInv
    <2>5. txn[w].req.op \notin {"delete", "restore"}
        <3> SUFFICES ASSUME txn[w].req.op \in {"delete", "restore"}
                     PROVE  FALSE
            OBVIOUS
        <3>1. i \in Rows /\ Keeps(txn[w], heroes[i], heroes'[i])
            BY <2>3, <2>4 DEF Good, OnTable, Inserting, Rows
        <3>2. heroes[i] # NoHero
            BY <3>1 DEF Rows, RowsOf
        <3> QED
            BY <3>1, <3>2 DEF Keeps, SameFields
    <2>6. txn[w].shown[i] = heroes'[i] /\ i \in RowsOf(txn[w].shown)
        BY <2>3, <2>4, <2>5 DEF Good, InOrder, RowsOf
    <2>7. CommitsWithItsRevision(i)
        BY <1>1, <2>2, <2>5, <2>6, CommitWrites DEF CommitsWithItsRevision
    <2>8. \E k \in 1..Len(events[i]) : events[i][k].snapshot = txn[w].shown[i]
        BY <2>3, <2>4, <2>6, Zenon DEF Good, Logged
    <2> QED
        BY <2>6, <2>7, <2>8 DEF IsAnnounced
<1> QED
    BY <1>1, SqlInvariant, PTL DEF Spec, ChangesAreLogged

=============================================================================
