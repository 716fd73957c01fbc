------------------------------ MODULE MockCrud ------------------------------
(***************************************************************************)
(* The heroes resource under MODE=mock: the JSON routes of crud_router.py, *)
(* the decisions of crud_actions.py, CRUDInterface and the shared          *)
(* InMemoryRepository.  Nothing in this path suspends, so the event loop   *)
(* runs a handler from its first statement to its reply without another    *)
(* handler in between: one request is one step.  Nothing is rolled back    *)
(* either: what a handler did before an exception stays.                   *)
(*                                                                         *)
(* Each action is one route with the caller and the request; its disjuncts *)
(* are the replies, in the order the code decides them.  A filter that     *)
(* selects rows is the set S of the ids it matches.                        *)
(***************************************************************************)
EXTENDS HeroRecords, Sequences

LOCAL INSTANCE FiniteSetsExt

CONSTANTS
    Writers,    \* callers with an editor or maintainer role (WriteRoles)
    Deleters,   \* callers with the maintainer role (DeleteRoles)
    MaxBulk,    \* settings.bulk_action_max_matched
    MaxLog      \* bound on the events of all records

ASSUME RolesAssumption == Deleters \subseteq Writers /\ Writers \subseteq Users

ASSUME LimitsAssumption == MaxBulk \in Nat /\ MaxLog \in Nat

VARIABLES
    heroes,     \* InMemoryRepository._records of Hero
    next_id,    \* InMemoryRepository._next_id
    revisions,  \* the Revision rows of each record, in insertion order
    events,     \* what EventSink.publish was given for each record, in order
    clock,      \* _now()
    reply       \* the HTTP status of the last request

vars == <<heroes, next_id, revisions, events, clock, reply>>

Actions == {"create", "update", "delete", "restore"}

Revision == [action : Actions \ {"restore"}, snapshot : Hero, actor : Users]

Event == [action : Actions, snapshot : Hero]

Created == 201
OK == 200
Refusals == {400, 404, 422, 423}
Crashed == 500          \* an exception no route catches

Statuses == {OK, Created, Crashed} \cup Refusals

Rows == RowsOf(heroes)

TypeOK ==
    /\ heroes \in [Ids -> Hero \cup {NoHero}]
    /\ next_id \in 1..(MaxHeroes + 1)
    /\ revisions \in [Ids -> Seq(Revision)]
    /\ events \in [Ids -> Seq(Event)]
    /\ clock \in Instant
    /\ reply \in Statuses

Init ==
    /\ heroes = [i \in Ids |-> NoHero]
    /\ next_id = 1
    /\ revisions = [i \in Ids |-> <<>>]
    /\ events = [i \in Ids |-> <<>>]
    /\ clock = 0
    /\ reply = OK

-----------------------------------------------------------------------------
(***************************************************************************)
(* The steps the handlers share.                                           *)
(***************************************************************************)

\* An early return or a caught error: nothing was written.
Refuse(status) ==
    /\ reply' = status
    /\ UNCHANGED <<heroes, next_id, revisions, events>>

\* Bound: no more than MaxLog events are ever published.
HasRoom(S) == MapThenSumSet(LAMBDA i : Len(events[i]), Ids) + Cardinality(S) <= MaxLog

Logged(log, S, entry) == [i \in Ids |-> IF i \in S THEN Append(log[i], entry[i]) ELSE log[i]]

\* Render the results as HeroV2 views, then record_revision and publish_event
\* for each.  One row the view rejects raises before anything is recorded.
Journal(u, action, S, snapshot, status) ==
    IF \A i \in S : Renderable(snapshot[i])
    THEN /\ revisions' = Logged(revisions, S,
                [i \in S |-> [action |-> action, snapshot |-> snapshot[i], actor |-> u]])
         /\ events' = Logged(events, S,
                [i \in S |-> [action |-> action, snapshot |-> snapshot[i]]])
         /\ reply' = status
    ELSE /\ reply' = Crashed
         /\ UNCHANGED <<revisions, events>>

\* CRUDInterface.create over InMemoryRepository.create.
Create(u, c) ==
    /\ next_id \in Ids
    /\ HasRoom({next_id})
    /\ heroes' = [heroes EXCEPT ![next_id] = NewHero(u, c, clock)]
    /\ next_id' = next_id + 1
    /\ Journal(u, "create", {next_id}, [i \in {next_id} |-> NewHero(u, c, clock)], Created)

\* Slip: the view is made before the assignments.
UpdateManyOldView(u, S, c, on_lock) ==
    \/ (\E i \in S : RefusedByLock(heroes[i], c)) /\ Refuse(on_lock)
    \/ /\ \A i \in S : ~RefusedByLock(heroes[i], c)
       /\ HasRoom(S)
       /\ heroes' = Put(heroes, S, [i \in S |-> Updated(heroes[i], c, clock)])
       /\ Journal(u, "update", S, [i \in S |-> heroes[i]], OK)
       /\ UNCHANGED next_id

\* Slip: each row is written as soon as its own lock has been checked.
UpdateManyOneLoop(u, S, c, on_lock) ==
    LET new == [i \in S |-> Updated(heroes[i], c, clock)]
        before == {i \in S : \A j \in S : j <= i => ~RefusedByLock(heroes[j], c)} IN
    /\ HasRoom(S)
    /\ heroes' = Put(heroes, before, new)
    /\ UNCHANGED next_id
    /\ IF before = S THEN Journal(u, "update", S, new, OK)
                     ELSE reply' = on_lock /\ UNCHANGED <<revisions, events>>

\* CRUDInterface.update / update_many over update_many: locks are checked for
\* every selected row before the first one is written.
UpdateMany(u, S, c, on_lock) ==
    LET new == [i \in S |-> Updated(heroes[i], c, clock)] IN
    \/ /\ \E i \in S : RefusedByLock(heroes[i], c)
       /\ Refuse(on_lock)
    \/ /\ \A i \in S : ~RefusedByLock(heroes[i], c)
       /\ HasRoom(S)
       /\ heroes' = Put(heroes, S, new)
       /\ Journal(u, "update", S, new, OK)
       /\ UNCHANGED next_id

ArchivedRows(S) == [i \in S |-> [heroes[i] EXCEPT !.archived_at = clock]]

\* Slip: a delete does not look at the lock.
ArchiveManyUnchecked(u, S, snapshot) ==
    /\ HasRoom(S)
    /\ heroes' = Put(heroes, S, ArchivedRows(S))
    /\ Journal(u, "delete", S, snapshot, OK)
    /\ UNCHANGED next_id

\* CRUDInterface.delete / delete_many over delete_many.
ArchiveMany(u, S, snapshot) ==
    \/ /\ \E i \in S : RefusedByLock(heroes[i], NoChanges)
       /\ Refuse(423)
    \/ /\ \A i \in S : ~RefusedByLock(heroes[i], NoChanges)
       /\ HasRoom(S)
       /\ heroes' = Put(heroes, S, ArchivedRows(S))
       /\ Journal(u, "delete", S, snapshot, OK)
       /\ UNCHANGED next_id

\* CRUDInterface.restore / restore_many: an event, and no revision.
RestoreMany(S) ==
    LET new == [i \in S |-> [heroes[i] EXCEPT !.archived_at = NULL]] IN
    /\ HasRoom(S)
    /\ heroes' = Put(heroes, S, new)
    /\ UNCHANGED <<next_id, revisions>>
    /\ IF \A i \in S : Renderable(new[i])
       THEN /\ events' = Logged(events, S,
                   [i \in S |-> [action |-> "restore", snapshot |-> new[i]]])
            /\ reply' = OK
       ELSE /\ reply' = Crashed
            /\ UNCHANGED events

\* _check_bulk_action_size.
OverCap(S, include_archived) ==
    Cardinality(Countable(heroes, S, clock, include_archived)) > MaxBulk

\* crud.get(id) as clone and publish call it: no include_* override.
Visible(i) == i \in Rows /\ IsVisible(heroes[i], clock, FALSE, FALSE)

-----------------------------------------------------------------------------
(***************************************************************************)
(* The routes.                                                             *)
(***************************************************************************)

\* POST <prefix>
CreateRecord(u, n) ==
    /\ u \in Writers
    /\ Create(u, CreateBody(n))
    /\ UNCHANGED clock

\* POST <prefix>/draft
CreateDraft(u, c) ==
    /\ u \in Writers
    /\ Create(u, c)
    /\ UNCHANGED clock

\* POST <prefix>/clone?id=
CloneRecord(u, i) ==
    /\ u \in Writers
    /\ \/ ~Visible(i) /\ Refuse(404)
       \/ Visible(i) /\ ~(Renderable(heroes[i]) /\ Complete(heroes[i])) /\ Refuse(Crashed)
       \/ /\ Visible(i) /\ Renderable(heroes[i]) /\ Complete(heroes[i])
          /\ Create(u, CreateBody(heroes[i].name))
    /\ UNCHANGED clock

\* PATCH <prefix>?id=
UpdateRecord(u, i, c) ==
    /\ u \in Writers
    /\ \/ Writable(heroes, u, {i}) = {} /\ Refuse(404)
       \/ Writable(heroes, u, {i}) # {} /\ UpdateMany(u, {i}, c, 423)
    /\ UNCHANGED clock

\* PATCH <prefix>?<filters>
UpdateRecords(u, S, c) ==
    /\ u \in Writers
    /\ \/ OverCap(S, FALSE) /\ Refuse(400)
       \/ ~OverCap(S, FALSE) /\ UpdateMany(u, Writable(heroes, u, S), c, 423)
    /\ UNCHANGED clock

\* DELETE <prefix>?id= : the snapshot is taken first, of anyone's row.
DeleteRecord(u, i) ==
    /\ u \in Deleters
    /\ \/ i \in Rows /\ ~Renderable(heroes[i]) /\ Refuse(Crashed)
       \/ /\ i \in Rows => Renderable(heroes[i])
          /\ \/ Writable(heroes, u, {i}) = {} /\ Refuse(404)
             \/ Writable(heroes, u, {i}) # {} /\ ArchiveMany(u, {i}, [j \in {i} |-> heroes[j]])
    /\ UNCHANGED clock

\* DELETE <prefix>?<filters>
DeleteRecords(u, S) ==
    /\ u \in Deleters
    /\ \/ OverCap(S, FALSE) /\ Refuse(400)
       \/ /\ ~OverCap(S, FALSE)
          /\ LET hit == Writable(heroes, u, S) IN ArchiveMany(u, hit, ArchivedRows(hit))
    /\ UNCHANGED clock

\* POST <prefix>/publish?id= : a lock is not translated into a 423 here.
PublishRecord(u, i) ==
    /\ u \in Writers
    /\ \/ ~Visible(i) /\ Refuse(404)
       \/ Visible(i) /\ ~Renderable(heroes[i]) /\ Refuse(Crashed)
       \/ Visible(i) /\ Renderable(heroes[i]) /\ ~Complete(heroes[i]) /\ Refuse(422)
       \/ /\ Visible(i) /\ Renderable(heroes[i]) /\ Complete(heroes[i])
          /\ \/ Writable(heroes, u, {i}) = {} /\ Refuse(404)
             \/ Writable(heroes, u, {i}) # {} /\ UpdateMany(u, {i}, PublishFlip, Crashed)
    /\ UNCHANGED clock

\* POST <prefix>/restore?id=
RestoreRecord(u, i) ==
    /\ u \in Writers
    /\ \/ Mine(heroes, u, {i}) = {} /\ Refuse(404)
       \/ Mine(heroes, u, {i}) # {} /\ RestoreMany({i})
    /\ UNCHANGED clock

\* POST <prefix>/restore?<filters>
RestoreRecords(u, S) ==
    /\ u \in Writers
    /\ \/ OverCap(S, TRUE) /\ Refuse(400)
       \/ ~OverCap(S, TRUE) /\ RestoreMany(Mine(heroes, u, S))
    /\ UNCHANGED clock

\* The routes of version 1 (heroes_v1.py): CompatCRUD converts the body and
\* hands it to the same CRUDInterface.  Its deletes and reads are those above.
LegacyCreate(u, n) == CreateRecord(u, n)

\* What version 1 reads as the name of record i: a text that stands for a
\* missing name, which the model takes from Names.
LegacyNames(i) == IF heroes[i].name = NULL THEN Names ELSE {heroes[i].name}

\* POST <v1 prefix>/clone?id= : the body is filled from that view, so a draft
\* is cloned under the placeholder instead of being refused.
LegacyClone(u, i) ==
    /\ u \in Writers
    /\ \/ ~Visible(i) /\ Refuse(404)
       \/ Visible(i) /\ ~Renderable(heroes[i]) /\ Refuse(Crashed)
       \/ /\ Visible(i) /\ Renderable(heroes[i])
          /\ \E n \in LegacyNames(i) : Create(u, CreateBody(n))
    /\ UNCHANGED clock

LegacyUpdateRecord(u, i, c) == UpdateRecord(u, i, c)

LegacyUpdateRecords(u, S, c) == UpdateRecords(u, S, c)

\* superpower: null becomes powers: [None], which HeroV2Update refuses inside
\* the handler: after the cap of a bulk request, before the record is looked up.
LegacyNullPower(u) ==
    /\ u \in Writers
    /\ Refuse(Crashed)
    /\ UNCHANGED clock

LegacyNullPowers(u, S) ==
    /\ u \in Writers
    /\ Refuse(IF OverCap(S, FALSE) THEN 400 ELSE Crashed)
    /\ UNCHANGED clock

\* POST <web prefix>/form: blank required fields are left out of the body.
SubmitForm(u, n) ==
    /\ u \in Writers
    /\ \/ n = NULL /\ Refuse(422)
       \/ n # NULL /\ Create(u, CreateBody(n))
    /\ UNCHANGED clock

\* A bulk PATCH, DELETE or restore with neither id nor filter.
UntargetedBulk(u) ==
    /\ u \in Writers
    /\ Refuse(422)
    /\ UNCHANGED clock

\* GET <prefix>?id= and GET <prefix>?<filters>
ReadRecord(i, include_archived, include_unpublished) ==
    /\ LET shown == i \in Rows /\ IsVisible(heroes[i], clock, include_archived, include_unpublished) IN
       \/ ~shown /\ Refuse(404)
       \/ shown /\ Refuse(IF Renderable(heroes[i]) THEN OK ELSE Crashed)
    /\ UNCHANGED clock

ListRecords(S, include_archived, include_unpublished) ==
    /\ LET shown == {i \in S \cap Rows :
                        IsVisible(heroes[i], clock, include_archived, include_unpublished)} IN
       Refuse(IF \A i \in shown : Renderable(heroes[i]) THEN OK ELSE Crashed)
    /\ UNCHANGED clock

Tick ==
    /\ clock < MaxTime
    /\ clock' = clock + 1
    /\ UNCHANGED <<heroes, next_id, revisions, events, reply>>

Request(u) ==
    \/ \E n \in Names : CreateRecord(u, n)
    \/ \E c \in Bodies : CreateDraft(u, c)
    \/ \E i \in Ids : CloneRecord(u, i)
    \/ \E i \in Ids, c \in Bodies : UpdateRecord(u, i, c)
    \/ \E S \in SUBSET Ids, c \in Bodies : UpdateRecords(u, S, c)
    \/ \E i \in Ids : DeleteRecord(u, i)
    \/ \E S \in SUBSET Ids : DeleteRecords(u, S)
    \/ \E i \in Ids : PublishRecord(u, i)
    \/ \E i \in Ids : RestoreRecord(u, i)
    \/ \E S \in SUBSET Ids : RestoreRecords(u, S)
    \/ \E n \in Names : LegacyCreate(u, n)
    \/ \E i \in Ids : LegacyClone(u, i)
    \/ \E i \in Ids, c \in LegacyBodies : LegacyUpdateRecord(u, i, c)
    \/ \E S \in SUBSET Ids, c \in LegacyBodies : LegacyUpdateRecords(u, S, c)
    \/ LegacyNullPower(u)
    \/ \E S \in SUBSET Ids : LegacyNullPowers(u, S)
    \/ \E n \in Names \cup {NULL} : SubmitForm(u, n)
    \/ UntargetedBulk(u)

Read ==
    \E include_archived, include_unpublished \in BOOLEAN :
        \/ \E i \in Ids : ReadRecord(i, include_archived, include_unpublished)
        \/ \E S \in SUBSET Ids : ListRecords(S, include_archived, include_unpublished)

Next == (\E u \in Users : Request(u)) \/ Read \/ Tick

Spec == Init /\ [][Next]_vars

-----------------------------------------------------------------------------
(***************************************************************************)
(* Properties.                                                             *)
(***************************************************************************)

Last(log) == log[Len(log)]

\* Everything but the archive marker, which restore clears without a revision
\* and single delete sets after its snapshot.
Content(h) == [h EXCEPT !.archived_at = NULL]

\* The newest revision of a record shows its current content: no request
\* changes a row without logging the row it leaves behind (RevisionSink,
\* interfaces/base.py), as long as the row can be rendered.
RevisionsShowTheRow ==
    \A i \in Rows : /\ revisions[i] # <<>>
                    /\ Content(Last(revisions[i]).snapshot) = Content(heroes[i])

\* A subscriber that keeps the last event of each record knows every row and
\* whether it is archived, restores included (EventSink, interfaces/base.py).
EventsShowTheRow ==
    \A i \in Rows : /\ events[i] # <<>>
                    /\ Content(Last(events[i]).snapshot) = Content(heroes[i])
                    /\ (Last(events[i]).action = "delete") <=> Archived(heroes[i])

\* Both logs tell a reader what the table holds.
LogsShowTheRow == RevisionsShowTheRow /\ EventsShowTheRow

\* Writes are owner-scoped, so everything ever done to a record was done by
\* the caller who created it.
OnlyTheOwnerActs ==
    \A i \in Rows : \A k \in 1..Len(revisions[i]) :
        /\ revisions[i][k].actor = heroes[i].owner_id
        /\ revisions[i][k].snapshot.owner_id = heroes[i].owner_id

\* restore never looks at the lock; it cannot meet a locked archived row.
LockedNotArchived == \A i \in Rows : Locked(heroes[i]) => ~Archived(heroes[i])

\* A request that is answered with an error has changed nothing (the handlers
\* check before they write; in this mode nothing would roll them back).  The
\* exception is a body with is_locked: null, see RowsCanBeRead.
ErrorsLeaveNoTrace ==
    [][reply' \in Refusals \cup {Crashed} => UNCHANGED <<heroes, revisions, events>>]_vars

\* The mock implements the abstract store: every request is one of its steps or
\* changes no row, so locked and archived rows stay as they are, and bulk
\* requests are done for all the selected rows or for none.
Store == INSTANCE HeroStore WITH heroes <- heroes
StoreSpec == Store!Spec

-----------------------------------------------------------------------------
(***************************************************************************)
(* What the repository says of itself and the code does not keep: each of  *)
(* these has a configuration that ends in a counterexample.                *)
(***************************************************************************)

\* "Refuse a bulk update/delete whose filters match more than the configured
\* cap" (crud_actions.py _check_bulk_action_size).
BulkCapHolds == [][Cardinality({i \in Ids : heroes'[i] # heroes[i]}) <= MaxBulk]_vars

\* "a bulk restore (which only ever targets archived rows)" (crud_actions.py).
RestoreOnlyArchived ==
    [][\A u \in Users, S \in SUBSET Ids : RestoreRecords(u, S) =>
          \A i \in Rows : events'[i] # events[i] => Archived(heroes[i])]_vars

\* A write to a locked record is "surfaced as 423 Locked" (app/README.md), the
\* publish route's included.
LockedSurfacesAs423 ==
    [][\A u \in Users, i \in Ids :
          PublishRecord(u, i) /\ Visible(i) /\ Locked(heroes[i]) => reply' # Crashed]_vars

\* A PATCH "whose own body sets is_locked=false [...] is always allowed through
\* (so unlocking never needs a dedicated route, but can also edit other fields
\* in the same request)" (app/README.md).
UnlockMayEdit ==
    [][\A u \in Users, i \in Ids, c \in Bodies :
          UpdateRecord(u, i, c) /\ c.is_locked = FALSE => reply' # 423]_vars

\* "none of this app's routes raise an unhandled exception on any real input"
\* (app/problem_details.py): not the clone route, and, as every stored row can
\* be rendered as a HeroV2, not the read routes.
CloneNeverCrashes ==
    [][(\E u \in Users, i \in Ids : CloneRecord(u, i)) => reply' # Crashed]_vars

RowsCanBeRead == \A i \in Rows : Renderable(heroes[i])

=============================================================================
