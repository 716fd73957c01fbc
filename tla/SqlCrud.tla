------------------------------ MODULE SqlCrud ------------------------------
(***************************************************************************)
(* The heroes resource over Postgres (MODE other than mock): request       *)
(* handlers interleave at every await, each in a transaction of its own    *)
(* (get_db), at READ COMMITTED and without SELECT ... FOR UPDATE.  A row   *)
(* an UPDATE has touched stays locked until the transaction ends; an       *)
(* UPDATE that waited for a lock applies its SET list to the newest        *)
(* committed version.  The handler publishes its events before get_db      *)
(* commits.  `python -m app.maintenance` purges archived rows meanwhile.   *)
(*                                                                         *)
(* One step is one statement, with the Python code up to the next one.     *)
(* The replies of the routes and the role checks are MockCrud's business:  *)
(* what is here is what interleaving changes.  Postgres and SQLAlchemy's   *)
(* unit of work are modelled from how the repository uses them.            *)
(***************************************************************************)
EXTENDS HeroRecords, Sequences

CONSTANTS
    Workers,      \* concurrent request handlers
    Requests,     \* the write requests clients may send
    Tables,       \* what may be in the database when the service starts
    MaxRequests,  \* bound on the requests taken
    MaxPurges,    \* bound on the runs of the purge
    MaxBulk       \* settings.bulk_action_max_matched

Ops == {"create", "clone", "publish", "update", "delete", "restore"}

Request == [op : Ops, caller : Users, ids : SUBSET Ids, bulk : BOOLEAN, body : Changes]

\* Clients send something, and the purge is no request handler.
ASSUME WorkAssumption == Requests # {} /\ "purge" \notin Workers

ASSUME RequestsAssumption ==
    \A r \in Requests :
        /\ r \in Request
        /\ ~r.bulk /\ r.op # "create" => \E i \in Ids : r.ids = {i}
        /\ r.bulk => r.op \in {"update", "delete", "restore"}
        /\ r.op = "publish" <=> r.body = PublishFlip
        /\ r.op # "publish" => r.body.is_draft = UNSET

\* The column is NOT NULL, and an archived row is not locked at the start.
ASSUME TablesAssumption ==
    \A table \in Tables :
        /\ table \in [Ids -> Hero \cup {NoHero}]
        /\ \A i \in RowsOf(table) : /\ table[i].is_locked \in BOOLEAN
                                    /\ Locked(table[i]) => ~Archived(table[i])

ASSUME SqlBoundsAssumption ==
    MaxRequests \in Nat /\ MaxPurges \in Nat /\ MaxBulk \in Nat

VARIABLES
    heroes,     \* the committed rows
    next_id,    \* the id sequence, which no rollback takes back
    revisions,  \* the committed Revision rows of each record, in commit order
    events,     \* what the broker has received about each record, in order
    txn,        \* the transaction of each worker
    purge,      \* the transaction of the purge
    clock,
    taken,      \* requests taken so far (bound)
    purges      \* purge runs so far (bound)

vars == <<heroes, next_id, revisions, events, txn, purge, clock, taken, purges>>
bounds == <<clock, taken, purges>>

NoRows == [i \in Ids |-> NoHero]
Table == [Ids -> Hero \cup {NoHero}]

Answers == {"none", "done", "refused", "crashed"}

\* What a worker knows: the rows as its SELECT loaded them, the rows it has
\* written, the rows as it shows them in revisions, events and the response.
Txn == [pc     : {"idle", "select", "insert", "flush", "refresh", "report", "commit", "respond"},
        req    : Requests,
        start  : Instant,          \* func.now() of this transaction
        now    : Instant,          \* the archived_at it will set
        loaded : Table,
        todo   : SUBSET Ids,       \* rows still to flush, or to report
        wrote  : Table,            \* its uncommitted rows
        shown  : Table,
        answer : Answers]

Event == [action : {"create", "update", "delete", "restore"}, snapshot : Hero]
Revision == [action : {"create", "update", "delete"}, snapshot : Hero, actor : Users,
             created_at : Instant]

Rows == RowsOf(heroes)

TypeOK ==
    /\ heroes \in Table
    /\ next_id \in 1..(MaxHeroes + 1)
    /\ revisions \in [Ids -> Seq(Revision)]
    /\ events \in [Ids -> Seq(Event)]
    /\ txn \in [Workers -> Txn]
    /\ purge \in [older_than : Instant, todo : SUBSET Ids, deleted : SUBSET Ids,
                  running : BOOLEAN]
    /\ clock \in Instant
    /\ taken \in 0..MaxRequests
    /\ purges \in 0..MaxPurges

Idle(r) == [pc |-> "idle", req |-> r, start |-> 0, now |-> 0, loaded |-> NoRows, todo |-> {},
            wrote |-> NoRows, shown |-> NoRows, answer |-> "none"]

\* A worker with nothing to do: its req means nothing.
NoTxn == Idle(CHOOSE r \in Requests : TRUE)

NoPurge == [older_than |-> 0, todo |-> {}, deleted |-> {}, running |-> FALSE]

Init ==
    /\ heroes \in Tables
    /\ next_id \in Ids \cup {MaxHeroes + 1}
    /\ \A i \in Ids : i < next_id <=> i \in Rows
    /\ revisions = [i \in Ids |-> <<>>]
    /\ events = [i \in Ids |-> <<>>]
    /\ txn = [w \in Workers |-> NoTxn]
    /\ purge = NoPurge
    /\ clock = 0
    /\ taken = 0
    /\ purges = 0

-----------------------------------------------------------------------------
(***************************************************************************)
(* Row locks.                                                              *)
(***************************************************************************)

\* Another transaction has written row i and has not ended.
HeldFrom(w, i) ==
    \/ i \in purge.deleted
    \/ \E v \in Workers \ {w} : txn[v].wrote[i] # NoHero

\* Slip: rows are flushed in any order.
IsNextAnyOrder(i, S) == i \in S

\* The unit of work flushes in primary-key order.
IsNext(i, S) == i \in S /\ \A j \in S : i <= j

PurgeId == "purge"      \* the purge among the transactions that wait

\* Transaction p waits for a row that q has written.
WaitsFor(p, q) ==
    IF p = PurgeId
    THEN /\ purge.todo # {}
         /\ \A i \in purge.todo : HeldFrom(PurgeId, i)
         /\ q # PurgeId /\ \E i \in purge.todo : txn[q].wrote[i] # NoHero
    ELSE /\ txn[p].pc = "flush"
         /\ \E i \in txn[p].todo :
               /\ IsNext(i, txn[p].todo)
               /\ IF q = PurgeId THEN i \in purge.deleted ELSE q # p /\ txn[q].wrote[i] # NoHero

\* The transactions of D wait for each other in a circle.
Circle(D) ==
    /\ D # {}
    /\ \A p \in D : (\E q \in D : WaitsFor(p, q)) /\ (\E q \in D : WaitsFor(q, p))

-----------------------------------------------------------------------------
(***************************************************************************)
(* The statements of one request.                                          *)
(***************************************************************************)

Enter(w, t) == txn' = [txn EXCEPT ![w] = t]

\* The session is closed without a commit: its rows and revisions are gone.
RolledBack(t, answer) == [Idle(t.req) EXCEPT !.pc = "respond", !.answer = answer]

\* The fields a body really changes: SQLAlchemy's UPDATE sets no others.
NetChange(h, c) ==
    [f \in DOMAIN c |-> IF c[f] = h[f] THEN UNSET ELSE c[f]]

\* The rows among the loaded ones that will get an UPDATE at all.
Dirty(r, loaded) ==
    {i \in RowsOf(loaded) :
        CASE r.op = "restore" -> Archived(loaded[i])
          [] r.op = "delete"  -> TRUE
          [] OTHER            -> NetChange(loaded[i], r.body) # NoChanges}

\* Slip: the UPDATE writes the whole loaded row back.
RewrittenFromLoaded(t, i) ==
    LET h == t.loaded[i] IN
    CASE t.req.op = "restore" -> [h EXCEPT !.archived_at = NULL, !.updated_at = t.start]
      [] t.req.op = "delete"  -> [h EXCEPT !.archived_at = t.now, !.updated_at = t.start]
      [] OTHER                -> Updated(h, t.req.body, t.start)

\* The newest committed version of a row with the UPDATE's SET list applied;
\* updated_at has onupdate=func.now().
Rewritten(t, i) ==
    LET h == heroes[i] IN
    CASE t.req.op = "restore" -> [h EXCEPT !.archived_at = NULL, !.updated_at = t.start]
      [] t.req.op = "delete"  -> [h EXCEPT !.archived_at = t.now, !.updated_at = t.start]
      [] OTHER                -> Updated(h, NetChange(t.loaded[i], t.req.body), t.start)

\* What the transaction reads of row i: its own version, or the committed one.
Reads(t, i) == IF t.wrote[i] # NoHero THEN t.wrote[i] ELSE heroes[i]

\* repository.update_many / delete_many / restore_many up to their flush: the
\* SELECT, the lock check on what it returned, the assignments.
Selected(t) ==
    LET r    == t.req
        hit  == IF r.op = "restore" THEN Mine(heroes, r.caller, r.ids)
                                    ELSE Writable(heroes, r.caller, r.ids)
        rows == [i \in Ids |-> IF i \in hit THEN heroes[i] ELSE NoHero]
        data == IF r.op = "delete" THEN NoChanges ELSE r.body
    IN  IF \/ ~r.bulk /\ hit = {}
           \/ r.op # "restore" /\ \E i \in hit : RefusedByLock(heroes[i], data)
        THEN RolledBack(t, "refused")
        ELSE [t EXCEPT !.pc = IF Dirty(r, rows) = {} THEN "refresh" ELSE "flush",
                       !.now = clock, !.loaded = rows, !.todo = Dirty(r, rows)]

\* repository.create: the INSERT, with the RETURNING that refreshes the row.
Inserts(w, t, c) ==
    LET new == NewHero(t.req.caller, c, t.start) IN
    /\ next_id \in Ids
    /\ next_id' = next_id + 1
    /\ IF new.is_locked = NULL      \* the column is NOT NULL
       THEN Enter(w, RolledBack(t, "crashed"))
       ELSE Enter(w, [t EXCEPT !.pc = "report", !.todo = {next_id},
                               !.wrote[next_id] = new, !.shown[next_id] = new])
    /\ UNCHANGED heroes

\* An idle worker takes request r; its first statement begins the transaction.
Takes(w, r) ==
    /\ txn[w].pc = "idle"
    /\ taken < MaxRequests
    /\ taken' = taken + 1
    /\ UNCHANGED <<revisions, events, purge, clock, purges>>

Begun(r) == [Idle(r) EXCEPT !.start = clock]

\* POST, POST /draft.
TakeCreate(w, r) ==
    /\ r.op = "create"
    /\ Takes(w, r)
    /\ Inserts(w, Begun(r), r.body)

\* PATCH ?id= and POST /restore?id= : the SELECT comes first.
TakeSingle(w, r) ==
    /\ r.op \in {"update", "restore"} /\ ~r.bulk
    /\ Takes(w, r)
    /\ Enter(w, Selected(Begun(r)))
    /\ UNCHANGED <<heroes, next_id>>

\* A bulk request: _check_bulk_action_size comes first.
TakeBulk(w, r) ==
    /\ r.bulk
    /\ Takes(w, r)
    /\ IF Cardinality(Countable(heroes, r.ids, clock, r.op = "restore")) > MaxBulk
       THEN Enter(w, RolledBack(Begun(r), "refused"))
       ELSE Enter(w, [Begun(r) EXCEPT !.pc = "select"])
    /\ UNCHANGED <<heroes, next_id>>

\* DELETE ?id= : _pre_delete_snapshot comes first.
TakeDelete(w, r) ==
    /\ r.op = "delete" /\ ~r.bulk
    /\ Takes(w, r)
    /\ Enter(w, [Begun(r) EXCEPT !.pc = "select",
                    !.shown = [i \in Ids |-> IF i \in r.ids THEN heroes[i] ELSE NoHero]])
    /\ UNCHANGED <<heroes, next_id>>

\* POST /publish and POST /clone: crud.get and the validation come first.
TakeValidated(w, r) ==
    /\ r.op \in {"publish", "clone"}
    /\ Takes(w, r)
    /\ \E i \in r.ids :
          IF \/ i \notin Rows \/ ~IsVisible(heroes[i], clock, FALSE, FALSE)
             \/ r.op = "publish" /\ ~Complete(heroes[i])
          THEN Enter(w, RolledBack(Begun(r), "refused"))
          ELSE IF ~Complete(heroes[i])
          THEN Enter(w, RolledBack(Begun(r), "crashed"))
          ELSE Enter(w, [Begun(r) EXCEPT !.pc = IF r.op = "clone" THEN "insert" ELSE "select",
                                         !.loaded[i] = heroes[i]])
    /\ UNCHANGED <<heroes, next_id>>

\* The SELECT of a request that has counted, validated or taken a snapshot.
Select(w) ==
    /\ txn[w].pc = "select"
    /\ Enter(w, Selected(txn[w]))
    /\ UNCHANGED <<heroes, next_id, revisions, events, purge, bounds>>

\* The INSERT of a clone, from the fields its get returned.
InsertClone(w) ==
    /\ txn[w].pc = "insert"
    /\ \E i \in txn[w].req.ids :
          Inserts(w, [txn[w] EXCEPT !.loaded = NoRows], CreateBody(txn[w].loaded[i].name))
    /\ UNCHANGED <<revisions, events, purge, bounds>>

\* UPDATE ... WHERE id = i, once nobody else holds the row.  A row that has
\* been purged is not updated: SQLAlchemy raises here or at the refresh.
Flush(w) ==
    /\ txn[w].pc = "flush"
    /\ \E i \in Ids :
          /\ IsNext(i, txn[w].todo)
          /\ ~HeldFrom(w, i)
          /\ LET rest == txn[w].todo \ {i}
                 next == [txn[w] EXCEPT !.todo = rest,
                                        !.pc = IF rest = {} THEN "refresh" ELSE "flush"] IN
             Enter(w, IF heroes[i] = NoHero
                      THEN next
                      ELSE IF Rewritten(txn[w], i).is_locked = NULL   \* NOT NULL
                      THEN RolledBack(txn[w], "crashed")
                      ELSE [next EXCEPT !.wrote[i] = Rewritten(txn[w], i)])
    /\ UNCHANGED <<heroes, next_id, revisions, events, purge, bounds>>

\* Slip: the rows are not refreshed after the flush.
RefreshSkipped(w) ==
    LET t == txn[w] IN
    /\ t.pc = "refresh"
    /\ Enter(w, [t EXCEPT !.todo = RowsOf(t.loaded),
                          !.shown = [i \in Ids |-> IF t.loaded[i] = NoHero THEN NoHero
                                        ELSE Updated(t.loaded[i], t.req.body, t.start)],
                          !.pc = IF RowsOf(t.loaded) = {} THEN "commit" ELSE "report"])
    /\ UNCHANGED <<heroes, next_id, revisions, events, purge, bounds>>

\* session.refresh of every loaded row, and the views made of them.  A single
\* delete shows the snapshot it took first, or nothing if it found no row.
Refresh(w) ==
    LET t       == txn[w]
        hit     == RowsOf(t.loaded)
        seen    == [i \in Ids |-> IF i \in hit THEN Reads(t, i) ELSE NoHero]
        shown   == IF t.req.op = "delete" /\ ~t.req.bulk THEN t.shown ELSE seen
    IN
    /\ t.pc = "refresh"
    /\ IF \E i \in hit : seen[i] = NoHero
       THEN Enter(w, RolledBack(t, "crashed"))
       ELSE Enter(w, [t EXCEPT !.shown = shown, !.todo = RowsOf(shown),
                               !.pc = IF RowsOf(shown) = {} THEN "commit" ELSE "report"])
    /\ UNCHANGED <<heroes, next_id, revisions, events, purge, bounds>>

ActionOf(op) == CASE op \in {"create", "clone"}   -> "create"
                  [] op \in {"update", "publish"} -> "update"
                  [] OTHER                        -> op

Sent(i, t) == [events EXCEPT ![i] = Append(@, [action   |-> ActionOf(t.req.op),
                                               snapshot |-> t.shown[i]])]

\* Slip: the response leaves before get_db commits (scope="request").
ReportAnswersFirst(w) ==
    /\ txn[w].pc = "report"
    /\ \E i \in Ids :
          /\ IsNext(i, txn[w].todo)
          /\ events' = Sent(i, txn[w])
          /\ Enter(w, [txn[w] EXCEPT !.todo = @ \ {i}, !.pc = "respond", !.answer = "done"])
    /\ UNCHANGED <<heroes, next_id, revisions, purge, bounds>>

\* _record_revision, whose INSERT is private to the transaction until the
\* commit, and _publish_event for the next row.
Report(w) ==
    /\ txn[w].pc = "report"
    /\ \E i \in Ids :
          /\ IsNext(i, txn[w].todo)
          /\ events' = Sent(i, txn[w])
          /\ LET rest == txn[w].todo \ {i} IN
             Enter(w, [txn[w] EXCEPT !.todo = rest,
                                     !.pc = IF rest = {} THEN "commit" ELSE "report"])
    /\ UNCHANGED <<heroes, next_id, revisions, purge, bounds>>

\* The broker cannot be reached, or its acknowledgement is lost: MqttError
\* leaves the handler, and the transaction is rolled back.
PublishFails(w) ==
    /\ txn[w].pc = "report"
    /\ \E i \in Ids :
          /\ IsNext(i, txn[w].todo)
          /\ events' \in {events, Sent(i, txn[w])}
    /\ Enter(w, RolledBack(txn[w], "crashed"))
    /\ UNCHANGED <<heroes, next_id, revisions, purge, bounds>>

\* get_db's session.commit().
Commit(w) ==
    LET t == txn[w]
        entry(i) == [action |-> ActionOf(t.req.op), snapshot |-> t.shown[i],
                     actor |-> t.req.caller, created_at |-> t.start]
    IN
    /\ t.pc = "commit"
    /\ heroes' = [i \in Ids |-> Reads(t, i)]
    /\ revisions' = [i \in Ids |->
            IF t.req.op # "restore" /\ t.shown[i] # NoHero
            THEN Append(revisions[i], entry(i)) ELSE revisions[i]]
    /\ Enter(w, [Idle(t.req) EXCEPT !.pc = "respond", !.shown = t.shown, !.answer = "done"])
    /\ UNCHANGED <<next_id, events, purge, bounds>>

\* The response leaves after get_db has ended (DBSession has scope="function").
Respond(w) ==
    /\ txn[w].pc = "respond"
    /\ Enter(w, NoTxn)
    /\ UNCHANGED <<heroes, next_id, revisions, events, purge, bounds>>

\* The worker or its connection dies: Postgres rolls the transaction back.
Crash(w) ==
    /\ txn[w].pc # "idle"
    /\ Enter(w, NoTxn)
    /\ UNCHANGED <<heroes, next_id, revisions, events, purge, bounds>>

\* Postgres ends one transaction of a circle: an exception no route catches.
DeadlockVictim(w) ==
    /\ \E D \in SUBSET (Workers \cup {PurgeId}) : w \in D /\ Circle(D)
    /\ Enter(w, RolledBack(txn[w], "crashed"))
    /\ UNCHANGED <<heroes, next_id, revisions, events, purge, bounds>>

-----------------------------------------------------------------------------
(***************************************************************************)
(* python -m app.maintenance: one DELETE over the rows archived up to some *)
(* instant.  It visits them in no particular order and, having waited for  *)
(* a row, looks at its condition again.                                    *)
(***************************************************************************)
Purgeable(h, older_than) == Archived(h) /\ h.archived_at <= older_than

PurgeBegins ==
    /\ ~purge.running
    /\ purges < MaxPurges
    /\ purges' = purges + 1
    /\ \E cutoff \in 0..clock :
          purge' = [older_than |-> cutoff, deleted |-> {}, running |-> TRUE,
                    todo |-> {i \in Rows : Purgeable(heroes[i], cutoff)}]
    /\ UNCHANGED <<heroes, next_id, revisions, events, txn, clock, taken>>

\* Slip: the condition is not looked at again after the wait.
PurgeRowUnchecked ==
    /\ \E i \in purge.todo :
          /\ ~HeldFrom(PurgeId, i)
          /\ purge' = [purge EXCEPT !.todo = @ \ {i}, !.deleted = @ \cup {i}]
    /\ UNCHANGED <<heroes, next_id, revisions, events, txn, bounds>>

PurgeRow ==
    /\ \E i \in purge.todo :
          /\ ~HeldFrom(PurgeId, i)
          /\ purge' = [purge EXCEPT
                !.todo = @ \ {i},
                !.deleted = IF Purgeable(heroes[i], purge.older_than) THEN @ \cup {i} ELSE @]
    /\ UNCHANGED <<heroes, next_id, revisions, events, txn, bounds>>

\* Slip: purge_archived does not commit, and its caller forgets to.
PurgeNeverCommits == FALSE

PurgeCommits ==
    /\ purge.running /\ purge.todo = {}
    /\ heroes' = [i \in Ids |-> IF i \in purge.deleted THEN NoHero ELSE heroes[i]]
    /\ purge' = NoPurge
    /\ UNCHANGED <<next_id, revisions, events, txn, bounds>>

\* The purge is killed, or is the victim of a deadlock.
PurgeAborts ==
    /\ purge.running
    /\ purge' = NoPurge
    /\ UNCHANGED <<heroes, next_id, revisions, events, txn, bounds>>

Tick ==
    /\ clock < MaxTime
    /\ clock' = clock + 1
    /\ UNCHANGED <<heroes, next_id, revisions, events, txn, purge, taken, purges>>

-----------------------------------------------------------------------------
Take(w) ==
    \E r \in Requests :
        \/ TakeCreate(w, r)
        \/ TakeSingle(w, r)
        \/ TakeBulk(w, r)
        \/ TakeDelete(w, r)
        \/ TakeValidated(w, r)

\* What a handler does once it is scheduled and its row is free.
Proceed(w) ==
    \/ Select(w)
    \/ InsertClone(w)
    \/ Flush(w)
    \/ Refresh(w)
    \/ Report(w)
    \/ Commit(w)
    \/ Respond(w)

Fails(w) == PublishFails(w) \/ Crash(w)

Next ==
    \/ \E w \in Workers : Take(w) \/ Proceed(w) \/ Fails(w) \/ DeadlockVictim(w)
    \/ PurgeBegins \/ PurgeRow \/ PurgeCommits \/ PurgeAborts
    \/ Tick

Spec == Init /\ [][Next]_vars

\* The event loop schedules every handler that can go on, Postgres grants a
\* free row and breaks a circle of waits, and the purge runs to its end.  As
\* the requests are bounded, a row is not taken away for ever.
Fairness ==
    /\ \A w \in Workers : WF_vars(Proceed(w)) /\ WF_vars(DeadlockVictim(w))
    /\ WF_vars(PurgeRow \/ PurgeCommits)

FairSpec == Spec /\ Fairness

-----------------------------------------------------------------------------
(***************************************************************************)
(* Properties.                                                             *)
(***************************************************************************)
Fields == {"name", "is_draft", "is_locked", "publish_at", "unpublish_at"}

SameFields(g, h) == \A f \in Fields : g[f] = h[f]

Last(log) == log[Len(log)]

Commits(w) == txn[w].pc = "commit" /\ txn'[w].pc = "respond"

\* A committed UPDATE changes only the fields its body names, whatever other
\* requests have committed since it loaded the row: no update is lost to the
\* unit of work writing back a stale field (sqlalchemy.py update_many).
NoFieldIsLost ==
    [][\A w \in Workers : Commits(w) =>
          \A i \in Rows, f \in Fields : heroes'[i][f] # heroes[i][f] =>
              /\ txn[w].req.op \in {"update", "publish"}
              /\ heroes'[i][f] = txn[w].req.body[f]]_vars

\* The commit that makes a change visible also makes visible a revision that
\* shows the row exactly as it is then, other requests' changes included
\* (interfaces/base.py _record_revision, in the request's own session).
CommitsWithItsRevision(i) ==
    /\ Len(revisions'[i]) = Len(revisions[i]) + 1
    /\ Last(revisions'[i]).snapshot = heroes'[i]

\* By then the broker has an event that shows the row (_publish_event).
IsAnnounced(i) == \E k \in 1..Len(events[i]) : events[i][k].snapshot = heroes'[i]

\* No change of a row becomes visible without its revision or unannounced.
ChangesAreLogged ==
    [][\A i \in Ids :
          /\ heroes'[i] # NoHero
          /\ heroes[i] # NoHero => ~SameFields(heroes'[i], heroes[i])
          => CommitsWithItsRevision(i) /\ IsAnnounced(i)]_vars

\* A commit changes rows of its caller only (interfaces/base.py _scoped).
OnlyOwnRowsChange ==
    [][\A w \in Workers : Commits(w) =>
          \A i \in Ids : heroes'[i] # heroes[i] =>
              \A h \in {heroes[i], heroes'[i]} \ {NoHero} : h.owner_id = txn[w].req.caller]_vars

\* A client that has its answer reads its own write: what the answer shows is
\* committed (models/base.py DBSession).
AnswersAreDurable ==
    \A w \in Workers : txn[w].pc = "respond" /\ txn[w].answer = "done" =>
        \A i \in RowsOf(txn[w].shown) : txn[w].req.op # "restore" =>
            \E k \in 1..Len(revisions[i]) : revisions[i][k].snapshot = txn[w].shown[i]

\* A row leaves the table only out of the archive, even if it is restored
\* while the purge is under way (app/maintenance.py purge_archived), and no
\* request that had loaded it brings it back: a row appears only by an INSERT.
OnlyArchivedRowsArePurged ==
    [][/\ \A i \in Rows : heroes'[i] = NoHero => Archived(heroes[i])
       /\ \A i \in Ids \ Rows : heroes'[i] # NoHero =>
             \E w \in Workers : txn[w].req.op \in {"create", "clone"} /\ Commits(w)]_vars

\* Requests never deadlock among themselves, because each one takes its rows
\* in primary-key order; a circle of waits has the purge in it.
RequestsDoNotDeadlock == \A D \in SUBSET Workers : ~Circle(D)

\* Every request a worker has taken comes to an end.
EveryRequestEnds == \A w \in Workers : txn[w].pc # "idle" ~> txn[w].pc = "idle"

-----------------------------------------------------------------------------
(***************************************************************************)
(* What the repository says of itself and the code does not keep.          *)
(***************************************************************************)

\* The lock check is "atomic with the mutation itself" (models/mixins.py
\* Lockable): a locked row changes only by the unlock.
LockCheckIsAtomic ==
    [][\A i \in Rows : Locked(heroes[i]) /\ heroes'[i] # heroes[i] =>
          heroes'[i] = [heroes[i] EXCEPT !.is_locked = FALSE, !.updated_at = heroes'[i].updated_at]]_vars

\* "an archived record needs restore() before it can be touched again"
\* (repositories/sqlalchemy.py update_many).
ArchivedIsUntouched ==
    [][\A i \in Rows : Archived(heroes[i]) /\ heroes'[i] # NoHero =>
          SameFields(heroes'[i], heroes[i])]_vars

\* An event is "fired after every successful create/update/..." (EventSink,
\* interfaces/base.py): once nothing is under way, every event has its change.
EventsAreOfSuccesses ==
    (\A w \in Workers : txn[w].pc = "idle") =>
        \A i \in Ids : \A k \in 1..Len(events[i]) :
            \/ events[i][k].action = "restore"
            \/ \E m \in 1..Len(revisions[i]) :
                  /\ revisions[i][m].action = events[i][k].action
                  /\ revisions[i][m].snapshot = events[i][k].snapshot

\* `revisions` is "called once per successful create/update/update_many/
\* delete/delete_many" (CRUDInterface, interfaces/base.py): no row is archived
\* without a revision.
DeletesAreLogged ==
    [][\A i \in Rows : ~Archived(heroes[i]) /\ heroes'[i] # NoHero /\ Archived(heroes'[i]) =>
          Len(revisions'[i]) > Len(revisions[i])]_vars

\* GET /revisions is a record's "history, newest first" (crud_router.py), by
\* created_at: the revision on top shows the row.
NewestRevisionShowsTheRow ==
    \A i \in Rows : \A k \in 1..Len(revisions[i]) :
        (\A m \in 1..Len(revisions[i]) \ {k} : revisions[i][m].created_at < revisions[i][k].created_at)
            => SameFields(revisions[i][k].snapshot, heroes[i])

=============================================================================
