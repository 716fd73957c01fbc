--------------------------- MODULE MockCrudProofs ---------------------------
(***************************************************************************)
(* The mock service implements HeroStore, for every set of users, bodies   *)
(* and ids and every bound.  The inductive invariant adds Fresh to TypeOK  *)
(* and LockedNotArchived: ids are handed out in order, so the id the next  *)
(* create takes is free.  Each shared step of the handlers has a lemma     *)
(* that it keeps the invariant and is a step of the store; each route is   *)
(* then one of those steps or a refusal.                                   *)
(***************************************************************************)
EXTENDS MockCrud, TLAPS

\* No row has an id that has not been handed out.
Fresh == \A i \in Ids : i >= next_id => heroes[i] = NoHero

IInv == TypeOK /\ Fresh /\ LockedNotArchived

-----------------------------------------------------------------------------
(***************************************************************************)
(* The rows, the changes and the tables of HeroRecords.                    *)
(***************************************************************************)
\* A body changes no more than its fields: the row keeps its type, its owner
\* and its archive marker (setattr over data.items()).
LEMMA UpdatedIsHero ==
    ASSUME NEW h \in Hero, NEW c \in Changes, NEW now \in Instant
    PROVE  /\ Updated(h, c, now) \in Hero
           /\ Updated(h, c, now).owner_id = h.owner_id
           /\ Updated(h, c, now).archived_at = h.archived_at
<1>1. OrElse(c.name, h.name) \in Names \cup {NULL}
    BY DEF OrElse, Hero, Changes
<1>2. OrElse(c.is_draft, h.is_draft) \in BOOLEAN
    BY DEF OrElse, Hero, Changes
<1>3. OrElse(c.is_locked, h.is_locked) \in BOOLEAN \cup {NULL}
    BY DEF OrElse, Hero, Changes
<1>4. OrElse(c.publish_at, h.publish_at) \in Instant \cup {NULL}
    BY DEF OrElse, Hero, Changes
<1>5. OrElse(c.unpublish_at, h.unpublish_at) \in Instant \cup {NULL}
    BY DEF OrElse, Hero, Changes
<1> DEFINE g == Apply(h, c)
<1>6. /\ g.owner_id = h.owner_id /\ g.archived_at = h.archived_at
      /\ g.name = OrElse(c.name, h.name) /\ g.updated_at = h.updated_at
      /\ g.publish_at = OrElse(c.publish_at, h.publish_at)
      /\ g.unpublish_at = OrElse(c.unpublish_at, h.unpublish_at)
    BY DEF Apply, Hero
<1>7. g.is_draft = OrElse(c.is_draft, h.is_draft) /\ g.is_locked = OrElse(c.is_locked, h.is_locked)
    BY DEF Apply, Hero
<1>8. g = [f \in DOMAIN h |-> g[f]]
    BY DEF Apply, Hero
<1>9. DOMAIN h = {"owner_id", "name", "is_draft", "is_locked", "archived_at", "publish_at",
                  "unpublish_at", "updated_at"}
    BY DEF Hero
<1> HIDE DEF g
<1>10. g \in Hero
    BY <1>1, <1>2, <1>3, <1>4, <1>5, <1>6, <1>7, <1>8, <1>9 DEF Hero
<1> QED
    BY <1>6, <1>10 DEF Updated, Hero, g

\* A created row has the caller as owner, and is neither archived nor published.
LEMMA NewHeroIsHero ==
    ASSUME NEW u \in Users, NEW c \in Changes, NEW now \in Instant
    PROVE  /\ NewHero(u, c, now) \in Hero
           /\ NewHero(u, c, now).owner_id = u
           /\ NewHero(u, c, now).archived_at = NULL
BY MarksAssumption DEF NewHero, OrElse, Hero, Changes

\* Archiving and restoring touch the marker alone.
LEMMA MarkedIsHero ==
    ASSUME NEW h \in Hero, NEW mark \in Instant \cup {NULL}
    PROVE  /\ [h EXCEPT !.archived_at = mark] \in Hero
           /\ [h EXCEPT !.archived_at = mark].archived_at = mark
           /\ [h EXCEPT !.archived_at = mark].owner_id = h.owner_id
           /\ [h EXCEPT !.archived_at = mark].is_locked = h.is_locked
BY DEF Hero

\* Every body a client or a route sends is a value of Changes.
LEMMA BodiesAreChanges ==
    /\ Bodies \subseteq Changes
    /\ CreateBodies \subseteq Changes
    /\ LegacyBodies \subseteq Changes
    /\ PublishFlip \in Changes
    /\ Unlock \in Changes
    /\ NoChanges # Unlock
BY BodiesAssumption, MarksAssumption
   DEF Changes, CreateBodies, CreateBody, LegacyBodies, PublishFlip, Unlock, NoChanges

\* The rows a write scope selects are existing rows of the caller.
LEMMA ScopedRows ==
    ASSUME NEW table \in [Ids -> Hero \cup {NoHero}], NEW u, NEW S
    PROVE  /\ Mine(table, u, S) \subseteq RowsOf(table)
           /\ Writable(table, u, S) \subseteq Mine(table, u, S)
           /\ \A i \in Mine(table, u, S) : table[i] \in Hero /\ table[i].owner_id = u
           /\ \A i \in Writable(table, u, S) : table[i].archived_at = NULL
BY DEF Mine, Writable, RowsOf, Archived

\* Writing rows into a table leaves a table.
LEMMA PutIsTable ==
    ASSUME NEW table \in [Ids -> Hero \cup {NoHero}], NEW S \in SUBSET Ids,
           NEW new \in [S -> Hero]
    PROVE  /\ Put(table, S, new) \in [Ids -> Hero \cup {NoHero}]
           /\ \A i \in S : Put(table, S, new)[i] = new[i]
           /\ \A i \in Ids \ S : Put(table, S, new)[i] = table[i]
BY DEF Put

-----------------------------------------------------------------------------
\* The store is instantiated over the same records: its operators are those of
\* HeroRecords.
LEMMA SameVocabulary ==
    /\ Store!Ids = Ids /\ Store!Instant = Instant
    /\ Store!NoChanges = NoChanges /\ Store!PublishFlip = PublishFlip
    /\ Store!CreateBodies = CreateBodies /\ Store!LegacyBodies = LegacyBodies
    /\ \A u, c, now : Store!NewHero(u, c, now) = NewHero(u, c, now)
    /\ \A h, c, now : Store!Updated(h, c, now) = Updated(h, c, now)
    /\ \A h, c : Store!RefusedByLock(h, c) <=> RefusedByLock(h, c)
    /\ \A table, u, S : Store!Mine(table, u, S) = Mine(table, u, S)
    /\ \A table, u, S : Store!Writable(table, u, S) = Writable(table, u, S)
    /\ \A table, S, new : Store!Put(table, S, new) = Put(table, S, new)
    /\ Store!Hero = Hero
<1>1. /\ Store!Ids = Ids /\ Store!Instant = Instant
      /\ Store!NoChanges = NoChanges /\ Store!PublishFlip = PublishFlip
      /\ Store!CreateBodies = CreateBodies /\ Store!LegacyBodies = LegacyBodies
      /\ Store!Hero = Hero
    BY DEF Store!Ids, Ids, Store!Instant, Instant, Store!NoChanges, NoChanges,
           Store!PublishFlip, PublishFlip, Store!CreateBodies, CreateBodies,
           Store!CreateBody, CreateBody,
           Store!LegacyBodies, LegacyBodies, Store!Hero, Hero
<1>2. \A u, c, now : Store!NewHero(u, c, now) = NewHero(u, c, now)
    BY DEF Store!NewHero, NewHero, Store!OrElse, OrElse
<1>3. \A h, c, now : Store!Updated(h, c, now) = Updated(h, c, now)
    BY DEF Store!Updated, Updated, Store!Apply, Apply, Store!OrElse, OrElse
<1>4. \A h, c : Store!RefusedByLock(h, c) <=> RefusedByLock(h, c)
    BY DEF Store!RefusedByLock, RefusedByLock, Store!Locked, Locked,
           Store!Unlock, Unlock, Store!NoChanges, NoChanges
<1>5. \A table, u, S : Store!Mine(table, u, S) = Mine(table, u, S)
    BY <1>1 DEF Store!Mine, Mine, Store!RowsOf, RowsOf
<1>6. \A table, u, S : Store!Writable(table, u, S) = Writable(table, u, S)
    BY <1>5 DEF Store!Writable, Writable, Store!Archived, Archived
<1>7. \A table, S, new : Store!Put(table, S, new) = Put(table, S, new)
    BY <1>1 DEF Store!Put, Put
<1> QED
    BY <1>1, <1>2, <1>3, <1>4, <1>5, <1>6, <1>7

\* Appending an entry per record keeps a log per record.
LEMMA LoggedIsLog ==
    ASSUME NEW T, NEW log \in [Ids -> Seq(T)], NEW S \in SUBSET Ids, NEW entry,
           \A i \in S : entry[i] \in T
    PROVE  Logged(log, S, entry) \in [Ids -> Seq(T)]
<1>1. \A i \in S : Append(log[i], entry[i]) \in Seq(T)
    OBVIOUS
<1> QED
    BY <1>1 DEF Logged

\* Recording a revision and publishing an event keep the logs well-typed.
LEMMA JournalTypes ==
    ASSUME TypeOK, NEW u \in Users, NEW action \in Actions \ {"restore"},
           NEW S \in SUBSET Ids, NEW snapshot \in [S -> Hero], NEW status \in Statuses,
           Journal(u, action, S, snapshot, status)
    PROVE  /\ revisions' \in [Ids -> Seq(Revision)]
           /\ events' \in [Ids -> Seq(Event)]
           /\ reply' \in Statuses
<1> DEFINE rev == [i \in S |-> [action |-> action, snapshot |-> snapshot[i], actor |-> u]]
           evt == [i \in S |-> [action |-> action, snapshot |-> snapshot[i]]]
<1>1. \A i \in S : rev[i] \in Revision /\ evt[i] \in Event
    BY DEF Revision, Event
<1>2. Crashed \in Statuses
    BY DEF Statuses
<1>3. CASE \A i \in S : Renderable(snapshot[i])
    <2>1. revisions' = Logged(revisions, S, rev) /\ events' = Logged(events, S, evt)
        BY <1>3 DEF Journal
    <2>2. Logged(revisions, S, rev) \in [Ids -> Seq(Revision)]
        BY <1>1, LoggedIsLog DEF TypeOK
    <2>3. Logged(events, S, evt) \in [Ids -> Seq(Event)]
        BY <1>1, LoggedIsLog DEF TypeOK
    <2> QED
        BY <2>1, <2>2, <2>3, <1>3 DEF Journal
<1>4. CASE ~(\A i \in S : Renderable(snapshot[i]))
    BY <1>2, <1>4 DEF Journal, TypeOK
<1> QED
    BY <1>3, <1>4

\* A reply that writes nothing.
LEMMA RefuseStep ==
    ASSUME IInv, NEW status \in Statuses, Refuse(status), UNCHANGED clock
    PROVE  IInv' /\ UNCHANGED heroes
BY DEF IInv, TypeOK, Fresh, Refuse, LockedNotArchived, Rows, RowsOf

\* A create takes a free id, as the store's Create does.
LEMMA CreateStep ==
    ASSUME IInv, NEW u \in Users, NEW c \in Changes, Create(u, c), UNCHANGED clock
    PROVE  IInv' /\ next_id \in Ids /\ Store!Create(u, next_id, c, clock)
<1>1. NewHero(u, c, clock) \in Hero
    BY NewHeroIsHero DEF IInv, TypeOK
<1>2. next_id \in Ids /\ next_id' = next_id + 1 /\ next_id' \in 1..(MaxHeroes + 1)
    BY BoundsAssumption DEF Create, Ids
<1>3. /\ heroes' = [heroes EXCEPT ![next_id] = NewHero(u, c, clock)]
      /\ heroes' \in [Ids -> Hero \cup {NoHero}]
    BY <1>1 DEF Create, IInv, TypeOK
<1>4. Fresh'
    <2> SUFFICES ASSUME NEW i \in Ids, i >= next_id'
                 PROVE  heroes'[i] = NoHero
        BY DEF Fresh
    <2>1. i # next_id /\ i >= next_id
        BY <1>2, BoundsAssumption DEF Ids
    <2> QED
        BY <2>1, <1>3 DEF IInv, Fresh, TypeOK
<1>5. /\ revisions' \in [Ids -> Seq(Revision)]
      /\ events' \in [Ids -> Seq(Event)]
      /\ reply' \in Statuses
    <2>1. [i \in {next_id} |-> NewHero(u, c, clock)] \in [{next_id} -> Hero]
        BY <1>1
    <2>2. "create" \in Actions \ {"restore"} /\ Created \in Statuses /\ {next_id} \in SUBSET Ids
        BY <1>2 DEF Actions, Statuses
    <2> QED
        BY <2>1, <2>2, JournalTypes DEF Create, IInv
<1>6. heroes[next_id] = NoHero
    BY <1>2 DEF IInv, Fresh, Ids
<1>7. LockedNotArchived'
    <2>1. NewHero(u, c, clock).archived_at = NULL
        BY NewHeroIsHero DEF IInv, TypeOK
    <2> QED
        BY <2>1, <1>3 DEF IInv, TypeOK, LockedNotArchived, Rows, RowsOf, Archived
<1> QED
    BY <1>2, <1>3, <1>4, <1>5, <1>6, <1>7, SameVocabulary DEF IInv, TypeOK, Store!Create

\* Writing existing rows keeps the invariant.
LEMMA PutStep ==
    ASSUME IInv, NEW S \in SUBSET Rows, NEW new \in [S -> Hero],
           \A i \in S : Locked(new[i]) => ~Archived(new[i]),
           heroes' = Put(heroes, S, new), UNCHANGED <<next_id, clock>>
    PROVE  heroes' \in [Ids -> Hero \cup {NoHero}] /\ Fresh' /\ LockedNotArchived'
<1>1. S \in SUBSET Ids
    BY DEF Rows, RowsOf
<1>2. /\ heroes' \in [Ids -> Hero \cup {NoHero}]
      /\ \A i \in S : heroes'[i] = new[i]
      /\ \A i \in Ids \ S : heroes'[i] = heroes[i]
    <2>1. heroes \in [Ids -> Hero \cup {NoHero}] /\ heroes' = Put(heroes, S, new)
        BY DEF IInv, TypeOK
    <2> QED
        BY <1>1, <2>1, PutIsTable
<1>3. \A i \in S : ~(i >= next_id)
    BY <1>1 DEF IInv, Fresh, Rows, RowsOf
<1>4. Fresh'
    BY <1>2, <1>3 DEF IInv, Fresh
<1>5. LockedNotArchived'
    BY <1>2 DEF IInv, LockedNotArchived, Rows, RowsOf
<1> QED
    BY <1>2, <1>4, <1>5

\* update_many writes the rows the store's Update writes.
LEMMA UpdateManyStep ==
    ASSUME IInv, NEW u \in Users, NEW S \in SUBSET Ids, S = Writable(heroes, u, S),
           NEW c \in Changes, NEW status \in Statuses,
           UpdateMany(u, S, c, status), UNCHANGED clock
    PROVE  IInv' /\ (UNCHANGED heroes \/ Store!Update(u, S, c, clock))
<1> DEFINE new == [i \in S |-> Updated(heroes[i], c, clock)]
<1>1. CASE Refuse(status)
    BY <1>1, RefuseStep
<1>2. CASE /\ \A i \in S : ~RefusedByLock(heroes[i], c)
           /\ heroes' = Put(heroes, S, new)
           /\ Journal(u, "update", S, new, OK)
           /\ UNCHANGED next_id
    <2>1. S \in SUBSET Rows /\ \A i \in S : heroes[i] \in Hero
        BY ScopedRows DEF IInv, TypeOK, Rows
    <2>2. new \in [S -> Hero]
        BY <2>1, UpdatedIsHero DEF IInv, TypeOK
    <2>3. "update" \in Actions \ {"restore"} /\ OK \in Statuses
        BY DEF Actions, Statuses
    <2>4. \A i \in S : ~Archived(new[i])
        <3>1. \A i \in S : heroes[i].archived_at = NULL
            BY DEF Writable, Archived
        <3>2. clock \in Instant
            BY DEF IInv, TypeOK
        <3>3. \A i \in S : new[i].archived_at = heroes[i].archived_at
            BY <2>1, <3>2, UpdatedIsHero
        <3> QED
            BY <3>1, <3>3 DEF Archived
    <2>5. IInv'
        BY <1>2, <2>1, <2>2, <2>3, <2>4, PutStep, JournalTypes DEF IInv, TypeOK
    <2> QED
        BY <1>2, <2>5, SameVocabulary DEF Store!Update
<1> QED
    BY <1>1, <1>2 DEF UpdateMany

\* delete_many archives the rows the store's Archive archives.
LEMMA ArchiveManyStep ==
    ASSUME IInv, NEW u \in Users, NEW S \in SUBSET Ids, S = Writable(heroes, u, S),
           NEW snapshot \in [S -> Hero], ArchiveMany(u, S, snapshot), UNCHANGED clock
    PROVE  IInv' /\ (UNCHANGED heroes \/ Store!Archive(u, S, clock))
<1> DEFINE new == ArchivedRows(S)
<1>1. CASE Refuse(423)
    BY <1>1, RefuseStep DEF Statuses, Refusals
<1>2. CASE /\ \A i \in S : ~RefusedByLock(heroes[i], NoChanges)
           /\ heroes' = Put(heroes, S, new)
           /\ Journal(u, "delete", S, snapshot, OK)
           /\ UNCHANGED next_id
    <2>1. S \in SUBSET Rows /\ \A i \in S : heroes[i] \in Hero
        BY ScopedRows DEF IInv, TypeOK, Rows
    <2>2. new \in [S -> Hero]
        BY <2>1, MarkedIsHero DEF IInv, TypeOK, ArchivedRows
    <2>3. "delete" \in Actions \ {"restore"} /\ OK \in Statuses
        BY DEF Actions, Statuses
    <2>4. \A i \in S : ~Locked(new[i])
        BY <1>2, <2>1, BodiesAreChanges, MarkedIsHero
           DEF IInv, TypeOK, ArchivedRows, RefusedByLock, Locked
    <2>5. IInv'
        BY <1>2, <2>1, <2>2, <2>3, <2>4, PutStep, JournalTypes DEF IInv, TypeOK
    <2> QED
        BY <1>2, <2>5, SameVocabulary DEF Store!Archive, ArchivedRows
<1> QED
    BY <1>1, <1>2 DEF ArchiveMany

\* restore_many restores the rows the store's Restore restores.
LEMMA RestoreManyStep ==
    ASSUME IInv, NEW u \in Users, NEW S \in SUBSET Ids, S = Mine(heroes, u, S),
           RestoreMany(S), UNCHANGED clock
    PROVE  IInv' /\ Store!Restore(u, S)
<1> DEFINE new == [i \in S |-> [heroes[i] EXCEPT !.archived_at = NULL]]
<1>1. S \in SUBSET Rows /\ \A i \in S : heroes[i] \in Hero
    BY ScopedRows DEF IInv, TypeOK, Rows
<1>2. new \in [S -> Hero]
    BY <1>1, MarkedIsHero
<1>3. heroes' = Put(heroes, S, new) /\ UNCHANGED <<next_id, revisions>>
    BY DEF RestoreMany
<1>4. events' \in [Ids -> Seq(Event)] /\ reply' \in Statuses
    <2> DEFINE evt == [i \in S |-> [action |-> "restore", snapshot |-> new[i]]]
    <2>1. \A i \in S : evt[i] \in Event
        BY <1>2 DEF Event, Actions
    <2>2. Logged(events, S, evt) \in [Ids -> Seq(Event)]
        BY <2>1, LoggedIsLog DEF IInv, TypeOK
    <2>3. OK \in Statuses /\ Crashed \in Statuses
        BY DEF Statuses
    <2> QED
        BY <2>2, <2>3 DEF RestoreMany, IInv, TypeOK
<1>5. \A i \in S : new[i].archived_at = NULL
    BY <1>1, MarkedIsHero
<1>6. IInv'
    BY <1>1, <1>2, <1>3, <1>4, <1>5, PutStep DEF IInv, TypeOK, Archived
<1> QED
    BY <1>3, <1>6, SameVocabulary DEF Store!Restore

\* Selecting twice selects the same rows.
LEMMA ScopesAreIdempotent ==
    ASSUME NEW u, NEW S \in SUBSET Ids
    PROVE  /\ Mine(heroes, u, S) \in SUBSET Ids
           /\ Writable(heroes, u, S) \in SUBSET Ids
           /\ Mine(heroes, u, S) = Mine(heroes, u, Mine(heroes, u, S))
           /\ Writable(heroes, u, S) = Writable(heroes, u, Writable(heroes, u, S))
BY DEF Mine, Writable, RowsOf

-----------------------------------------------------------------------------
Kept == IInv' /\ [Store!Next]_heroes

\* The steps of the store, at the caller and the instant of the request.
LEMMA StoreSteps ==
    ASSUME NEW u \in Users, NEW now \in Instant
    PROVE  /\ \A i \in Ids, c \in Bodies \cup CreateBodies :
                 Store!Create(u, i, c, now) => Store!Next
           /\ \A S \in SUBSET Ids, c \in Bodies \cup LegacyBodies \cup {PublishFlip} :
                 Store!Update(u, S, c, now) => Store!Next
           /\ \A S \in SUBSET Ids : Store!Archive(u, S, now) => Store!Next
           /\ \A S \in SUBSET Ids : Store!Restore(u, S) => Store!Next
BY SameVocabulary DEF Store!Next

\* A refusal keeps everything.
LEMMA RefusalKeeps ==
    ASSUME IInv, NEW status \in Statuses, Refuse(status), UNCHANGED clock
    PROVE  Kept
BY RefuseStep DEF Kept

\* The statuses the routes answer with.
LEMMA RouteStatuses ==
    /\ OK \in Statuses /\ Crashed \in Statuses
    /\ 400 \in Statuses /\ 404 \in Statuses /\ 422 \in Statuses /\ 423 \in Statuses
BY DEF Statuses, Refusals

\* The routes that create a record.
LEMMA CreateKeeps ==
    ASSUME IInv, NEW u \in Users, NEW c \in Bodies \cup CreateBodies,
           Create(u, c), UNCHANGED clock
    PROVE  Kept
<1>1. c \in Changes
    BY BodiesAreChanges
<1>2. IInv' /\ next_id \in Ids /\ Store!Create(u, next_id, c, clock)
    BY <1>1, CreateStep
<1> QED
    BY <1>2, StoreSteps DEF Kept, IInv, TypeOK

\* The routes that update records.
LEMMA UpdateKeeps ==
    ASSUME IInv, NEW u \in Users, NEW S \in SUBSET Ids, NEW c \in Bodies \cup LegacyBodies \cup {PublishFlip},
           NEW status \in Statuses,
           UpdateMany(u, Writable(heroes, u, S), c, status), UNCHANGED clock
    PROVE  Kept
<1>1. c \in Changes
    BY BodiesAreChanges
<1> DEFINE hit == Writable(heroes, u, S)
<1>2. hit \in SUBSET Ids /\ hit = Writable(heroes, u, hit)
    BY ScopesAreIdempotent
<1>3. IInv' /\ (UNCHANGED heroes \/ Store!Update(u, hit, c, clock))
    BY <1>1, <1>2, UpdateManyStep
<1> QED
    BY <1>2, <1>3, StoreSteps DEF Kept, IInv, TypeOK

\* The routes that archive records.
LEMMA ArchiveKeeps ==
    ASSUME IInv, NEW u \in Users, NEW S \in SUBSET Ids,
           NEW snapshot \in [Writable(heroes, u, S) -> Hero],
           ArchiveMany(u, Writable(heroes, u, S), snapshot), UNCHANGED clock
    PROVE  Kept
<1> DEFINE hit == Writable(heroes, u, S)
<1>1. hit \in SUBSET Ids /\ hit = Writable(heroes, u, hit)
    BY ScopesAreIdempotent
<1>2. IInv' /\ (UNCHANGED heroes \/ Store!Archive(u, hit, clock))
    BY <1>1, ArchiveManyStep
<1> QED
    BY <1>1, <1>2, StoreSteps DEF Kept, IInv, TypeOK

\* The routes that restore records.
LEMMA RestoreKeeps ==
    ASSUME IInv, NEW u \in Users, NEW S \in SUBSET Ids,
           RestoreMany(Mine(heroes, u, S)), UNCHANGED clock
    PROVE  Kept
<1> DEFINE hit == Mine(heroes, u, S)
<1>1. hit \in SUBSET Ids /\ hit = Mine(heroes, u, hit)
    BY ScopesAreIdempotent
<1>2. IInv' /\ Store!Restore(u, hit)
    BY <1>1, RestoreManyStep
<1> QED
    BY <1>1, <1>2, StoreSteps DEF Kept, IInv, TypeOK

\* A selection of one id is that id or nothing.
LEMMA SingleScope ==
    ASSUME NEW u, NEW i \in Ids
    PROVE  /\ Writable(heroes, u, {i}) # {} => Writable(heroes, u, {i}) = {i}
           /\ Mine(heroes, u, {i}) # {} => Mine(heroes, u, {i}) = {i}
BY DEF Writable, Mine

-----------------------------------------------------------------------------
\* What a request comes to: a refusal, or one of the four shared steps over
\* rows of the caller.
Handled(u) ==
    \/ \E status \in Statuses : Refuse(status)
    \/ \E c \in Bodies \cup CreateBodies : Create(u, c)
    \/ \E S \in SUBSET Ids, c \in Bodies \cup LegacyBodies \cup {PublishFlip},
          status \in Refusals \cup {Crashed} :
          UpdateMany(u, Writable(heroes, u, S), c, status)
    \/ \E S \in SUBSET Ids :
          LET hit == Writable(heroes, u, S) IN
          \/ ArchiveMany(u, hit, ArchivedRows(hit))
          \/ ArchiveMany(u, hit, [i \in hit |-> heroes[i]])
    \/ \E S \in SUBSET Ids : RestoreMany(Mine(heroes, u, S))

\* Each route is one of these.
LEMMA RequestIsHandled == ASSUME IInv, NEW u \in Users, Request(u) PROVE Handled(u) /\ UNCHANGED clock
<1>0. /\ 423 \in Refusals \cup {Crashed} /\ Crashed \in Refusals \cup {Crashed}
    BY DEF Refusals
<1>1. ASSUME NEW n \in Names, CreateRecord(u, n) PROVE Handled(u) /\ UNCHANGED clock
    BY <1>1 DEF CreateRecord, CreateBodies, Handled
<1>2. CASE \E c \in Bodies : CreateDraft(u, c)
    BY <1>2 DEF CreateDraft, Handled
<1>3. CASE \E i \in Ids : CloneRecord(u, i)
    <2> PICK i \in Ids : CloneRecord(u, i)
        BY <1>3
    <2>1. CASE Refuse(404) \/ Refuse(Crashed)
        BY <2>1, RouteStatuses DEF CloneRecord, Handled
    <2>2. CASE /\ Visible(i) /\ Complete(heroes[i])
               /\ Create(u, CreateBody(heroes[i].name))
        <3>1. heroes[i] \in Hero
            BY <2>2 DEF IInv, TypeOK, Visible, Rows, RowsOf
        <3>2. CreateBody(heroes[i].name) \in CreateBodies
            BY <2>2, <3>1 DEF Hero, Complete, CreateBodies
        <3> QED
            BY <2>2, <3>2 DEF CloneRecord, Handled
    <2> QED
        BY <2>1, <2>2 DEF CloneRecord
<1>4. ASSUME NEW i \in Ids, NEW c \in Bodies \cup LegacyBodies, UpdateRecord(u, i, c)
      PROVE  Handled(u) /\ UNCHANGED clock
    <2>1. CASE Refuse(404)
        BY <1>4, <2>1, RouteStatuses DEF UpdateRecord, Handled
    <2>2. CASE Writable(heroes, u, {i}) # {} /\ UpdateMany(u, {i}, c, 423)
        <3>1. UpdateMany(u, Writable(heroes, u, {i}), c, 423)
            BY <2>2, SingleScope
        <3> QED
            BY <1>0, <1>4, <3>1 DEF UpdateRecord, Handled
    <2> QED
        BY <1>4, <2>1, <2>2 DEF UpdateRecord
<1>5. ASSUME NEW S \in SUBSET Ids, NEW c \in Bodies \cup LegacyBodies, UpdateRecords(u, S, c)
      PROVE  Handled(u) /\ UNCHANGED clock
    <2>1. CASE OverCap(S, FALSE) /\ Refuse(400)
        BY <1>5, <2>1, RouteStatuses DEF UpdateRecords, Handled
    <2>2. CASE UpdateMany(u, Writable(heroes, u, S), c, 423)
        BY <1>0, <1>5, <2>2 DEF UpdateRecords, Handled
    <2> QED
        BY <1>5, <2>1, <2>2 DEF UpdateRecords
<1>6. CASE \E i \in Ids : DeleteRecord(u, i)
    <2> PICK i \in Ids : DeleteRecord(u, i)
        BY <1>6
    <2>1. CASE Refuse(404) \/ Refuse(Crashed)
        BY <2>1, RouteStatuses DEF DeleteRecord, Handled
    <2>2. CASE /\ Writable(heroes, u, {i}) # {}
               /\ ArchiveMany(u, {i}, [j \in {i} |-> heroes[j]])
        <3>1. Writable(heroes, u, {i}) = {i}
            BY <2>2, SingleScope
        <3> QED
            BY <2>2, <3>1 DEF DeleteRecord, Handled
    <2> QED
        BY <2>1, <2>2 DEF DeleteRecord
<1>7. CASE \E S \in SUBSET Ids : DeleteRecords(u, S)
    BY <1>7, RouteStatuses DEF DeleteRecords, Handled
<1>8. CASE \E i \in Ids : PublishRecord(u, i)
    <2> PICK i \in Ids : PublishRecord(u, i)
        BY <1>8
    <2>1. CASE Refuse(404) \/ Refuse(Crashed) \/ Refuse(422)
        BY <2>1, RouteStatuses DEF PublishRecord, Handled
    <2>2. CASE Writable(heroes, u, {i}) # {} /\ UpdateMany(u, {i}, PublishFlip, Crashed)
        <3>1. UpdateMany(u, Writable(heroes, u, {i}), PublishFlip, Crashed)
            BY <2>2, SingleScope
        <3> QED
            BY <1>0, <3>1 DEF PublishRecord, Handled
    <2> QED
        BY <2>1, <2>2 DEF PublishRecord
<1>9. CASE \E i \in Ids : RestoreRecord(u, i)
    <2> PICK i \in Ids : RestoreRecord(u, i)
        BY <1>9
    <2>1. CASE Refuse(404)
        BY <2>1, RouteStatuses DEF RestoreRecord, Handled
    <2>2. CASE Mine(heroes, u, {i}) # {} /\ RestoreMany({i})
        <3>1. RestoreMany(Mine(heroes, u, {i}))
            BY <2>2, SingleScope
        <3> QED
            BY <3>1 DEF RestoreRecord, Handled
    <2> QED
        BY <2>1, <2>2 DEF RestoreRecord
<1>10. CASE \E S \in SUBSET Ids : RestoreRecords(u, S)
    BY <1>10, RouteStatuses DEF RestoreRecords, Handled
<1>11. CASE UntargetedBulk(u) \/ LegacyNullPower(u) \/ \E S \in SUBSET Ids : LegacyNullPowers(u, S)
    <2>1. UNCHANGED clock /\ \E status \in {400, 422, Crashed} : Refuse(status)
        <3>1. CASE UntargetedBulk(u)
            BY <3>1 DEF UntargetedBulk
        <3>2. CASE LegacyNullPower(u)
            BY <3>2 DEF LegacyNullPower
        <3>3. CASE \E S \in SUBSET Ids : LegacyNullPowers(u, S)
            <4> PICK S \in SUBSET Ids : LegacyNullPowers(u, S)
                BY <3>3
            <4>1. UNCHANGED clock /\ Refuse(IF OverCap(S, FALSE) THEN 400 ELSE Crashed)
                BY DEF LegacyNullPowers
            <4>2. CASE Refuse(400)
                BY <4>1, <4>2
            <4>3. CASE Refuse(Crashed)
                BY <4>1, <4>3
            <4> QED
                BY <4>1, <4>2, <4>3
        <3> QED
            BY <1>11, <3>1, <3>2, <3>3
    <2> QED
        BY <2>1, RouteStatuses DEF Handled
<1>12. CASE \E n \in Names : CreateRecord(u, n) \/ LegacyCreate(u, n)
    BY <1>1, <1>12 DEF LegacyCreate
<1>13. CASE \/ \E i \in Ids, c \in LegacyBodies : LegacyUpdateRecord(u, i, c)
            \/ \E i \in Ids, c \in Bodies : UpdateRecord(u, i, c)
    BY <1>4, <1>13 DEF LegacyUpdateRecord
<1>14. CASE \/ \E S \in SUBSET Ids, c \in LegacyBodies : LegacyUpdateRecords(u, S, c)
            \/ \E S \in SUBSET Ids, c \in Bodies : UpdateRecords(u, S, c)
    BY <1>5, <1>14 DEF LegacyUpdateRecords
<1>15. CASE \E n \in Names \cup {NULL} : SubmitForm(u, n)
    BY <1>15, RouteStatuses DEF SubmitForm, CreateBodies, Handled
<1>16. CASE \E i \in Ids : LegacyClone(u, i)
    <2> PICK i \in Ids : LegacyClone(u, i)
        BY <1>16
    <2>1. CASE Refuse(404) \/ Refuse(Crashed)
        BY <2>1, RouteStatuses DEF LegacyClone, Handled
    <2>2. CASE Visible(i) /\ \E n \in LegacyNames(i) : Create(u, CreateBody(n))
        <3>1. heroes[i] \in Hero
            BY <2>2 DEF IInv, TypeOK, Visible, Rows, RowsOf
        <3>2. LegacyNames(i) \subseteq Names
            BY <3>1 DEF Hero, LegacyNames
        <3> QED
            BY <2>2, <3>2 DEF LegacyClone, CreateBodies, Handled
    <2> QED
        BY <2>1, <2>2 DEF LegacyClone
<1> QED
    BY <1>2, <1>3, <1>6, <1>7, <1>8, <1>9, <1>10, <1>11, <1>12, <1>13, <1>14, <1>15, <1>16 DEF Request

\* Every request keeps the invariant and is a step of the store.
LEMMA RequestKeeps == ASSUME IInv, NEW u \in Users, Request(u) PROVE Kept
<1>1. Handled(u) /\ UNCHANGED clock
    BY RequestIsHandled
<1>2. CASE \E status \in Statuses : Refuse(status)
    BY <1>1, <1>2, RefusalKeeps
<1>3. CASE \E c \in Bodies \cup CreateBodies : Create(u, c)
    BY <1>1, <1>3, CreateKeeps
<1>4. CASE \E S \in SUBSET Ids, c \in Bodies \cup LegacyBodies \cup {PublishFlip},
              status \in Refusals \cup {Crashed} :
              UpdateMany(u, Writable(heroes, u, S), c, status)
    BY <1>1, <1>4, UpdateKeeps DEF Statuses
<1>5. ASSUME NEW S \in SUBSET Ids,
             \/ ArchiveMany(u, Writable(heroes, u, S), ArchivedRows(Writable(heroes, u, S)))
             \/ ArchiveMany(u, Writable(heroes, u, S), [i \in Writable(heroes, u, S) |-> heroes[i]])
      PROVE  Kept
    <2> DEFINE hit == Writable(heroes, u, S)
    <2>1. \A j \in hit : heroes[j] \in Hero
        BY ScopedRows DEF IInv, TypeOK
    <2>2. ArchivedRows(hit) \in [hit -> Hero] /\ [i \in hit |-> heroes[i]] \in [hit -> Hero]
        BY <2>1, MarkedIsHero DEF ArchivedRows, IInv, TypeOK
    <2> QED
        BY <1>1, <1>5, <2>2, ArchiveKeeps
<1>6. CASE \E S \in SUBSET Ids : RestoreMany(Mine(heroes, u, S))
    BY <1>1, <1>6, RestoreKeeps
<1> QED
    BY <1>1, <1>2, <1>3, <1>4, <1>5, <1>6 DEF Handled

\* Reads and the clock leave the table alone.
LEMMA NextKeeps == IInv /\ [Next]_vars => Kept
<1> SUFFICES ASSUME IInv, [Next]_vars PROVE Kept
    OBVIOUS
<1>1. CASE \E u \in Users : Request(u)
    BY <1>1, RequestKeeps
<1>2. CASE Read
    <2>1. (Refuse(404) \/ Refuse(OK) \/ Refuse(Crashed)) /\ UNCHANGED clock
        BY <1>2 DEF Read, ReadRecord, ListRecords
    <2> QED
        BY <2>1, RefusalKeeps, RouteStatuses
<1>3. CASE Tick
    <2>1. clock' \in Instant
        BY <1>3, BoundsAssumption DEF Tick, IInv, TypeOK, Instant
    <2> QED
        BY <1>3, <2>1
           DEF Tick, Kept, IInv, TypeOK, Fresh, LockedNotArchived, Rows, RowsOf
<1>4. CASE UNCHANGED vars
    BY <1>4 DEF vars, Kept, IInv, TypeOK, Fresh, LockedNotArchived, Rows, RowsOf
<1> QED
    BY <1>1, <1>2, <1>3, <1>4 DEF Next

\* The service starts empty, as the store does.
LEMMA InitKeeps == Init => IInv /\ Store!Init
<1> SUFFICES ASSUME Init PROVE IInv /\ Store!Init
    OBVIOUS
<1>1. next_id \in 1..(MaxHeroes + 1) /\ clock \in Instant
    BY BoundsAssumption DEF Init, Instant
<1>2. TypeOK
    BY <1>1, RouteStatuses DEF Init, TypeOK
<1>3. Fresh /\ LockedNotArchived
    BY DEF Init, Fresh, LockedNotArchived, Rows, RowsOf
<1> QED
    BY <1>2, <1>3, SameVocabulary DEF Init, IInv, Store!Init

-----------------------------------------------------------------------------
\* In every reachable state of the mock service IInv holds: in particular no
\* row is both locked and archived, which restore relies on, since it never
\* looks at the lock (repositories/memory.py restore_many).
THEOREM MockInvariant == Spec => [](TypeOK /\ LockedNotArchived)
<1>1. IInv /\ [Next]_vars => IInv'
    BY NextKeeps DEF Kept
<1>2. IInv => TypeOK /\ LockedNotArchived
    BY DEF IInv
<1> QED
    BY InitKeeps, <1>1, <1>2, PTL DEF Spec

\* The routes over the in-memory repository implement the record store: each
\* request is one atomic, owner-scoped step of it (interfaces/base.py).
THEOREM MockImplementsStore == Spec => StoreSpec
<1>1. Init => IInv /\ Store!Init
    BY InitKeeps
<1>2. IInv /\ [Next]_vars => IInv' /\ [Store!Next]_heroes
    BY NextKeeps DEF Kept
<1> QED
    BY <1>1, <1>2, PTL DEF Spec, StoreSpec, Store!Spec

-----------------------------------------------------------------------------
(***************************************************************************)
(* What the store promises, for every implementation: typed rows, none of  *)
(* which is both locked and archived, are inductive.  That a locked row    *)
(* stays as it is needs it, because Restore never looks at the lock.       *)
(***************************************************************************)
Typed == heroes \in [Ids -> Hero \cup {NoHero}]

StoreInv == Typed /\ LockedNotArchived

Frozen == Store!LockedFrozen /\ Store!ArchivedFrozen /\ Store!OwnerKept

LEMMA SameRows ==
    /\ Store!Rows = Rows
    /\ \A h : Store!Locked(h) <=> Locked(h)
    /\ \A h : Store!Archived(h) <=> Archived(h)
BY SameVocabulary DEF Store!Rows, Rows, Store!RowsOf, RowsOf, Store!Locked, Locked,
   Store!Archived, Archived

\* A created row is neither archived nor anyone else's.
LEMMA StoreCreate ==
    ASSUME StoreInv, NEW u \in Users, NEW i \in Ids, NEW c \in Changes, NEW now \in Instant,
           Store!Create(u, i, c, now)
    PROVE  StoreInv' /\ Frozen
<1>1. NewHero(u, c, now) \in Hero /\ NewHero(u, c, now).archived_at = NULL
    BY NewHeroIsHero
<1>2. Typed'
    BY SameVocabulary, <1>1 DEF Store!Create, StoreInv, Typed
<1>3. \A j \in Ids : j # i => heroes'[j] = heroes[j]
    BY SameVocabulary DEF Store!Create, StoreInv, Typed
<1>4. heroes'[i] = NewHero(u, c, now) /\ i \notin Rows
    BY SameVocabulary DEF Store!Create, StoreInv, Typed, Rows, RowsOf
<1>5. LockedNotArchived'
    BY <1>1, <1>3, <1>4 DEF StoreInv, LockedNotArchived, Rows, RowsOf, Archived, Locked
<1>6. \A j \in Rows : heroes'[j] = heroes[j]
    BY <1>3, <1>4 DEF Rows, RowsOf
<1> QED
    BY SameRows, <1>2, <1>5, <1>6
       DEF StoreInv, Frozen, Store!LockedFrozen, Store!ArchivedFrozen, Store!OwnerKept, Rows, RowsOf

\* An update writes unarchived rows whose lock lets it through.
LEMMA StoreUpdate ==
    ASSUME StoreInv, NEW u \in Users, NEW S \in SUBSET Ids, NEW c \in Changes,
           NEW now \in Instant, Store!Update(u, S, c, now)
    PROVE  StoreInv' /\ Frozen
<1> DEFINE new == [i \in S |-> Updated(heroes[i], c, now)]
<1>1. /\ S \subseteq Rows
      /\ \A i \in S : heroes[i] \in Hero /\ heroes[i].archived_at = NULL
    BY SameVocabulary, ScopedRows DEF Store!Update, StoreInv, Typed, Rows
<1>2. \A i \in S : /\ new[i] \in Hero
                   /\ new[i].owner_id = heroes[i].owner_id
                   /\ new[i].archived_at = NULL
    BY <1>1, UpdatedIsHero
<1>3. new \in [S -> Hero]
    BY <1>2
<1>4. heroes' = Put(heroes, S, new)
    BY SameVocabulary DEF Store!Update
<1>5. /\ heroes' \in [Ids -> Hero \cup {NoHero}]
      /\ \A i \in S : heroes'[i] = new[i]
      /\ \A i \in Ids \ S : heroes'[i] = heroes[i]
    BY <1>3, <1>4, PutIsTable DEF StoreInv, Typed
<1>6. LockedNotArchived'
    BY <1>2, <1>5 DEF StoreInv, LockedNotArchived, Rows, RowsOf, Archived, Locked
<1>7. ASSUME NEW i \in S, Locked(heroes[i])
      PROVE  new[i] = [heroes[i] EXCEPT !.is_locked = FALSE, !.updated_at = now]
    <2>1. c = Unlock
        BY SameVocabulary, <1>7 DEF Store!Update, RefusedByLock
    <2> QED
        BY <2>1, <1>1, MarksAssumption
           DEF Unlock, NoChanges, Updated, Apply, OrElse, Hero
<1>8. Store!LockedFrozen
    BY SameRows, SameVocabulary, <1>1, <1>5, <1>7 DEF Store!LockedFrozen, Rows, RowsOf
<1>9. Store!ArchivedFrozen
    BY SameRows, SameVocabulary, <1>1, <1>5 DEF Store!ArchivedFrozen, Archived, Rows, RowsOf
<1>10. Store!OwnerKept
    BY SameRows, SameVocabulary, <1>2, <1>5, NoHeroAssumption DEF Store!OwnerKept, Rows, RowsOf
<1> QED
    BY <1>5, <1>6, <1>8, <1>9, <1>10 DEF StoreInv, Typed, Frozen

\* Archiving and restoring set the marker of rows that are not locked, or,
\* for a restore, whose marker was already NULL if they are.
LEMMA StoreMark ==
    ASSUME StoreInv, NEW S \in SUBSET Rows, NEW mark \in Instant \cup {NULL},
           mark # NULL => \A i \in S : ~Locked(heroes[i]) /\ ~Archived(heroes[i]),
           heroes' = Put(heroes, S, [i \in S |-> [heroes[i] EXCEPT !.archived_at = mark]])
    PROVE  StoreInv' /\ Frozen
<1> DEFINE new == [i \in S |-> [heroes[i] EXCEPT !.archived_at = mark]]
<1>1. \A i \in S : heroes[i] \in Hero
    BY DEF StoreInv, Typed, Rows, RowsOf
<1>2. \A i \in S : /\ new[i] \in Hero
                   /\ new[i].owner_id = heroes[i].owner_id
                   /\ new[i].is_locked = heroes[i].is_locked
                   /\ new[i].archived_at = mark
    BY <1>1, MarkedIsHero
<1>3. /\ heroes' \in [Ids -> Hero \cup {NoHero}]
      /\ \A i \in S : heroes'[i] = new[i]
      /\ \A i \in Ids \ S : heroes'[i] = heroes[i]
    <2>1. new \in [S -> Hero] /\ S \in SUBSET Ids
        BY <1>2 DEF Rows, RowsOf
    <2>2. heroes' = Put(heroes, S, new)
        OBVIOUS
    <2> QED
        <3>1. heroes \in [Ids -> Hero \cup {NoHero}]
            BY DEF StoreInv, Typed
        <3> HIDE DEF new
        <3>2. /\ Put(heroes, S, new) \in [Ids -> Hero \cup {NoHero}]
              /\ \A i \in S : Put(heroes, S, new)[i] = new[i]
              /\ \A i \in Ids \ S : Put(heroes, S, new)[i] = heroes[i]
            BY <2>1, <3>1, PutIsTable
        <3> QED
            BY <2>2, <3>2, Zenon
<1>4. LockedNotArchived'
    BY <1>2, <1>3 DEF StoreInv, LockedNotArchived, Rows, RowsOf, Archived, Locked
<1>5. ASSUME NEW i \in S, Locked(heroes[i])
      PROVE  new[i] = heroes[i]
    <2>1. heroes[i].archived_at = NULL /\ mark = NULL
        BY <1>5 DEF StoreInv, LockedNotArchived, Archived
    <2> QED
        BY <2>1, <1>1 DEF Hero
<1>6. Store!LockedFrozen
    BY SameRows, SameVocabulary, <1>3, <1>5 DEF Store!LockedFrozen, Rows, RowsOf
<1>7. Store!ArchivedFrozen
    BY SameRows, SameVocabulary, <1>3 DEF Store!ArchivedFrozen, Archived, Rows, RowsOf
<1>8. Store!OwnerKept
    BY SameRows, SameVocabulary, <1>2, <1>3, NoHeroAssumption DEF Store!OwnerKept, Rows, RowsOf
<1> QED
    BY <1>3, <1>4, <1>6, <1>7, <1>8 DEF StoreInv, Typed, Frozen

\* Every step of the store keeps the invariant and the promises.
LEMMA StoreNext == StoreInv /\ Store!Next => StoreInv' /\ Frozen
<1> SUFFICES ASSUME StoreInv, NEW u \in Users,
                    \/ \E i \in Ids, c \in Bodies \cup CreateBodies, now \in Instant :
                          Store!Create(u, i, c, now)
                    \/ \E S \in SUBSET Ids, c \in Bodies \cup LegacyBodies \cup {PublishFlip}, now \in Instant :
                          Store!Update(u, S, c, now)
                    \/ \E S \in SUBSET Ids, now \in Instant : Store!Archive(u, S, now)
                    \/ \E S \in SUBSET Ids : Store!Restore(u, S)
             PROVE  StoreInv' /\ Frozen
    BY SameVocabulary DEF Store!Next
<1>1. CASE \E i \in Ids, c \in Bodies \cup CreateBodies, now \in Instant : Store!Create(u, i, c, now)
    BY <1>1, StoreCreate, BodiesAreChanges
<1>2. CASE \E S \in SUBSET Ids, c \in Bodies \cup LegacyBodies \cup {PublishFlip}, now \in Instant :
              Store!Update(u, S, c, now)
    BY <1>2, StoreUpdate, BodiesAreChanges
<1>3. CASE \E S \in SUBSET Ids, now \in Instant : Store!Archive(u, S, now)
    <2>1. PICK S \in SUBSET Ids, now \in Instant : Store!Archive(u, S, now)
        BY <1>3
    <2>2. S \in SUBSET Rows /\ \A i \in S : ~Archived(heroes[i])
        BY SameVocabulary, <2>1, ScopedRows DEF Store!Archive, StoreInv, Typed, Rows, Archived
    <2>3. \A i \in S : ~Locked(heroes[i])
        BY SameVocabulary, <2>1, BodiesAreChanges DEF Store!Archive, RefusedByLock
    <2> QED
        BY SameVocabulary, <2>1, <2>2, <2>3, StoreMark DEF Store!Archive
<1>4. CASE \E S \in SUBSET Ids : Store!Restore(u, S)
    <2>1. PICK S \in SUBSET Ids : Store!Restore(u, S)
        BY <1>4
    <2>2. S \in SUBSET Rows
        BY SameVocabulary, <2>1, ScopedRows DEF Store!Restore, StoreInv, Typed, Rows
    <2> QED
        BY SameVocabulary, <2>1, <2>2, StoreMark DEF Store!Restore
<1> QED
    BY <1>1, <1>2, <1>3, <1>4

\* A locked row of the store is never archived, so restore cannot meet one.
THEOREM StoreInvariant == Store!Spec => [](Store!TypeOK /\ Store!LockedNotArchived)
<1>1. Store!Init => StoreInv
    BY SameVocabulary DEF Store!Init, StoreInv, Typed, LockedNotArchived, Rows, RowsOf
<1>2. StoreInv /\ UNCHANGED heroes => StoreInv'
    BY DEF StoreInv, Typed, LockedNotArchived, Rows, RowsOf
<1>3. StoreInv => Store!TypeOK /\ Store!LockedNotArchived
    BY SameVocabulary, SameRows DEF StoreInv, Typed, LockedNotArchived, Store!TypeOK, Store!LockedNotArchived
<1> QED
    BY <1>1, <1>2, <1>3, StoreNext, PTL DEF Store!Spec

\* Locked rows are frozen but for the unlock, archived rows but for the
\* restore, and no row changes hands or disappears.
THEOREM StorePromises ==
    Store!Spec => Store!LockedFrozenProp /\ Store!ArchivedFrozenProp /\ Store!OwnerKeptProp
<1>1. Store!Init => StoreInv
    BY SameVocabulary DEF Store!Init, StoreInv, Typed, LockedNotArchived, Rows, RowsOf
<1>2. StoreInv /\ UNCHANGED heroes => StoreInv'
    BY DEF StoreInv, Typed, LockedNotArchived, Rows, RowsOf
<1>3. StoreInv /\ [Store!Next]_heroes =>
          [Store!LockedFrozen]_heroes /\ [Store!ArchivedFrozen]_heroes /\ [Store!OwnerKept]_heroes
    BY StoreNext DEF Frozen
<1> QED
    BY <1>1, <1>2, <1>3, StoreNext, PTL
       DEF Store!Spec, Store!LockedFrozenProp, Store!ArchivedFrozenProp, Store!OwnerKeptProp

\* The routes of the mock keep what the store promises (models/mixins.py
\* Lockable, Archivable and interfaces/base.py _scoped).
THEOREM MockKeepsPromises ==
    Spec => Store!LockedFrozenProp /\ Store!ArchivedFrozenProp /\ Store!OwnerKeptProp
BY MockImplementsStore, StorePromises, PTL DEF StoreSpec

-----------------------------------------------------------------------------
(***************************************************************************)
(* The logs of the mock service: whoever acted on a record owns it; and,   *)
(* if no body carries is_locked: null, every record is shown by its newest *)
(* revision and its newest event, and an error leaves no trace.            *)
(*                                                                         *)
(* The owner's part needs to know that a record that does not exist yet    *)
(* has no revisions (Blank).  The rest needs every row to be renderable    *)
(* (Renders): a row that is not would be written and then raise before     *)
(* anything is recorded, and nothing rolls it back.                        *)
(***************************************************************************)

Blank == \A i \in Ids : heroes[i] = NoHero => revisions[i] = <<>>

Renders == \A i \in Rows : Renderable(heroes[i])

NoNullLocks == \A c \in Bodies : c.is_locked # NULL

OwnerInv == IInv /\ Blank /\ OnlyTheOwnerActs

LogInv == IInv /\ Renders /\ RevisionsShowTheRow /\ EventsShowTheRow

-----------------------------------------------------------------------------
\* Rows of u are written, or made, and u is what the journal says, if it says
\* anything.
LEMMA OwnStep ==
    ASSUME OwnerInv, NEW u \in Users, NEW action \in Actions \ {"restore"},
           NEW S \in SUBSET Ids, NEW new \in [S -> Hero], NEW snapshot \in [S -> Hero],
           NEW status, Journal(u, action, S, snapshot, status),
           heroes' = Put(heroes, S, new),
           \A i \in S : /\ new[i].owner_id = u /\ snapshot[i].owner_id = u
                        /\ heroes[i] = NoHero \/ heroes[i].owner_id = u
    PROVE  Blank' /\ OnlyTheOwnerActs'
<1> DEFINE rev == [i \in S |-> [action |-> action, snapshot |-> snapshot[i], actor |-> u]]
<1>1. /\ \A i \in S : heroes'[i] = new[i] /\ new[i] # NoHero
      /\ \A i \in Ids \ S : heroes'[i] = heroes[i]
    BY NoHeroAssumption DEF Put
<1>2. CASE UNCHANGED revisions
    BY <1>1, <1>2 DEF OwnerInv, Blank, OnlyTheOwnerActs, Rows, RowsOf
<1>3. CASE revisions' = Logged(revisions, S, rev)
    <2>1. \A i \in S : rev[i] \in Revision
        BY DEF Revision
    <2>2. revisions \in [Ids -> Seq(Revision)]
        BY DEF OwnerInv, IInv, TypeOK
    <2>3. /\ \A i \in Ids \ S : revisions'[i] = revisions[i]
          /\ \A i \in S : /\ Len(revisions[i]) \in Nat
                          /\ Len(revisions'[i]) = Len(revisions[i]) + 1
                          /\ revisions'[i][Len(revisions[i]) + 1] = rev[i]
                          /\ \A k \in 1..Len(revisions[i]) : revisions'[i][k] = revisions[i][k]
        <3>1. \A i \in Ids : revisions'[i] = IF i \in S THEN Append(revisions[i], rev[i])
                                                        ELSE revisions[i]
            BY <1>3 DEF Logged
        <3> HIDE DEF rev
        <3>2. \A i \in S : revisions[i] \in Seq(Revision)
            BY <2>2
        <3>3. \A i \in S : /\ revisions'[i] = Append(revisions[i], rev[i])
                           /\ rev[i] \in Revision /\ revisions[i] \in Seq(Revision)
            BY <2>1, <3>1, <3>2
        <3>4. ASSUME NEW i \in S
              PROVE  /\ Len(revisions[i]) \in Nat
                     /\ Len(revisions'[i]) = Len(revisions[i]) + 1
                     /\ revisions'[i][Len(revisions[i]) + 1] = rev[i]
                     /\ \A k \in 1..Len(revisions[i]) : revisions'[i][k] = revisions[i][k]
            BY <3>3, <3>4
        <3> QED
            BY <3>1, <3>4
    <2>4. Blank'
        BY <1>1, <2>3 DEF OwnerInv, Blank
    <2>5. ASSUME NEW i \in Rows', NEW k \in 1..Len(revisions'[i])
          PROVE  revisions'[i][k].actor = heroes'[i].owner_id
                 /\ revisions'[i][k].snapshot.owner_id = heroes'[i].owner_id
        <3>1. i \in Ids
            BY DEF Rows, RowsOf
        <3>2. CASE i \notin S
            <4>1. heroes'[i] = heroes[i] /\ revisions'[i] = revisions[i]
                BY <1>1, <2>3, <3>1, <3>2
            <4>2. i \in Rows /\ k \in 1..Len(revisions[i])
                BY <2>5, <4>1 DEF Rows, RowsOf
            <4> QED
                BY <4>1, <4>2 DEF OwnerInv, OnlyTheOwnerActs
        <3>3. CASE i \in S /\ k = Len(revisions[i]) + 1
            <4>1. rev[i].actor = u /\ rev[i].snapshot = snapshot[i]
                BY <3>3
            <4>2. revisions'[i][k] = rev[i] /\ heroes'[i] = new[i]
                BY <1>1, <2>3, <3>3
            <4> QED
                BY <3>3, <4>1, <4>2
        <3>4. CASE i \in S /\ k # Len(revisions[i]) + 1
            <4>1. k \in 1..Len(revisions[i])
                <5>1. Len(revisions[i]) \in Nat /\ Len(revisions'[i]) = Len(revisions[i]) + 1
                    BY <2>3, <3>4
                <5> QED
                    BY <2>5, <3>4, <5>1
            <4>2. heroes[i] # NoHero
                BY <3>1, <4>1 DEF OwnerInv, Blank
            <4>3. revisions[i][k].actor = u /\ revisions[i][k].snapshot.owner_id = u
                BY <3>1, <3>4, <4>1, <4>2 DEF OwnerInv, OnlyTheOwnerActs, Rows, RowsOf
            <4> QED
                <5>1. revisions'[i][k] = revisions[i][k]
                    BY <2>3, <3>4, <4>1
                <5>2. heroes'[i] = new[i] /\ new[i].owner_id = u
                    BY <1>1, <3>4
                <5> QED
                    BY <4>3, <5>1, <5>2
        <3> QED
            BY <3>2, <3>3, <3>4
    <2> QED
        BY <2>4, <2>5 DEF OnlyTheOwnerActs
<1> QED
    BY <1>2, <1>3 DEF Journal

\* Rows that are written and shown as they are written.
LEMMA ShownStep ==
    ASSUME LogInv, NEW u \in Users, NEW action \in Actions \ {"restore"},
           NEW S \in SUBSET Ids, NEW new \in [S -> Hero], NEW snapshot \in [S -> Hero],
           NEW status \in {OK, Created}, Journal(u, action, S, snapshot, status),
           heroes' = Put(heroes, S, new),
           \A i \in S : /\ Renderable(new[i]) /\ Renderable(snapshot[i])
                        /\ Content(snapshot[i]) = Content(new[i])
                        /\ (action = "delete") <=> Archived(new[i])
    PROVE  /\ Renders' /\ RevisionsShowTheRow' /\ EventsShowTheRow'
           /\ reply' \notin Refusals \cup {Crashed}
<1> DEFINE rev == [i \in S |-> [action |-> action, snapshot |-> snapshot[i], actor |-> u]]
           evt == [i \in S |-> [action |-> action, snapshot |-> snapshot[i]]]
<1>1. /\ \A i \in S : heroes'[i] = new[i]
      /\ \A i \in Ids \ S : heroes'[i] = heroes[i]
    BY DEF Put
<1>2. /\ revisions' = Logged(revisions, S, rev) /\ events' = Logged(events, S, evt)
      /\ reply' = status
    BY DEF Journal
<1>3. \A i \in S : /\ rev[i] \in Revision /\ rev[i].snapshot = snapshot[i]
                   /\ evt[i] \in Event /\ evt[i].snapshot = snapshot[i] /\ evt[i].action = action
    BY DEF Revision, Event
<1>4. revisions \in [Ids -> Seq(Revision)] /\ events \in [Ids -> Seq(Event)]
    BY DEF LogInv, IInv, TypeOK
<1> HIDE DEF rev, evt
<1>5. /\ \A i \in Ids \ S : revisions'[i] = revisions[i]
      /\ \A i \in S : revisions'[i] # <<>> /\ Last(revisions'[i]) = rev[i]
    <2>1. \A i \in Ids : revisions'[i] = IF i \in S THEN Append(revisions[i], rev[i]) ELSE revisions[i]
        BY <1>2 DEF Logged
    <2>2. \A i \in S : /\ revisions'[i] = Append(revisions[i], rev[i])
                       /\ revisions[i] \in Seq(Revision) /\ rev[i] \in Revision
        BY <1>3, <1>4, <2>1
    <2>3. ASSUME NEW i \in S
          PROVE  revisions'[i] # <<>> /\ Last(revisions'[i]) = rev[i]
        BY <2>2, <2>3 DEF Last
    <2> QED
        BY <2>1, <2>3
<1>6. /\ \A i \in Ids \ S : events'[i] = events[i]
      /\ \A i \in S : events'[i] # <<>> /\ Last(events'[i]) = evt[i]
    <2>1. \A i \in Ids : events'[i] = IF i \in S THEN Append(events[i], evt[i]) ELSE events[i]
        BY <1>2 DEF Logged
    <2>2. \A i \in S : /\ events'[i] = Append(events[i], evt[i])
                       /\ events[i] \in Seq(Event) /\ evt[i] \in Event
        BY <1>3, <1>4, <2>1
    <2>3. ASSUME NEW i \in S
          PROVE  events'[i] # <<>> /\ Last(events'[i]) = evt[i]
        BY <2>2, <2>3 DEF Last
    <2> QED
        BY <2>1, <2>3
<1>7. \A i \in Rows' : i \in Ids /\ (i \in S \/ i \in Rows)
    BY <1>1 DEF Rows, RowsOf
<1>8. Renders'
    BY <1>1, <1>7 DEF LogInv, Renders
<1>9. RevisionsShowTheRow'
    <2> SUFFICES ASSUME NEW i \in Rows'
                 PROVE  /\ revisions'[i] # <<>>
                        /\ Content(Last(revisions'[i]).snapshot) = Content(heroes'[i])
        BY DEF RevisionsShowTheRow, Content, Last
    <2>1. CASE i \in S
        BY <1>1, <1>3, <1>5, <2>1
    <2>2. CASE i \notin S
        BY <1>1, <1>5, <1>7, <2>2 DEF LogInv, RevisionsShowTheRow
    <2> QED
        BY <2>1, <2>2
<1>10. EventsShowTheRow'
    <2> SUFFICES ASSUME NEW i \in Rows'
                 PROVE  /\ events'[i] # <<>>
                        /\ Content(Last(events'[i]).snapshot) = Content(heroes'[i])
                        /\ (Last(events'[i]).action = "delete") <=> Archived(heroes'[i])
        BY DEF EventsShowTheRow, Content, Last, Archived
    <2>1. CASE i \in S
        BY <1>1, <1>3, <1>6, <2>1
    <2>2. CASE i \notin S
        BY <1>1, <1>6, <1>7, <2>2 DEF LogInv, EventsShowTheRow
    <2> QED
        BY <2>1, <2>2
<1>11. reply' \notin Refusals \cup {Crashed}
    BY <1>2 DEF OK, Created, Refusals, Crashed
<1> QED
    BY <1>8, <1>9, <1>10, <1>11

\* A refusal, and whatever leaves the table and the logs alone.
LEMMA NothingWritten ==
    ASSUME UNCHANGED <<heroes, revisions, events>>
    PROVE  /\ Blank /\ OnlyTheOwnerActs => Blank' /\ OnlyTheOwnerActs'
           /\ Renders /\ RevisionsShowTheRow /\ EventsShowTheRow =>
                  Renders' /\ RevisionsShowTheRow' /\ EventsShowTheRow'
BY DEF Blank, OnlyTheOwnerActs, Renders, RevisionsShowTheRow, EventsShowTheRow, Rows, RowsOf

-----------------------------------------------------------------------------
(***************************************************************************)
(* What each of the shared steps writes, if it writes.                     *)
(***************************************************************************)
\* A create writes one row, unknown so far, owned by the caller.
LEMMA CreateWrites ==
    ASSUME IInv, NEW u \in Users, NEW c \in Changes, Create(u, c)
    PROVE  \E S \in SUBSET Ids : \E new \in [S -> Hero] :
              /\ heroes' = Put(heroes, S, new) /\ Journal(u, "create", S, new, Created)
              /\ \A i \in S : /\ heroes[i] = NoHero
                             /\ new[i].owner_id = u /\ new[i].archived_at = NULL
                             /\ new[i].is_locked = OrElse(c.is_locked, FALSE)
<1> DEFINE S == {next_id}
<1> DEFINE new == [i \in S |-> NewHero(u, c, clock)]
<1>1. next_id \in Ids /\ heroes[next_id] = NoHero /\ heroes \in [Ids -> Hero \cup {NoHero}]
    BY DEF Create, IInv, Fresh, TypeOK, Ids
<1>2. /\ NewHero(u, c, clock) \in Hero /\ NewHero(u, c, clock).owner_id = u
      /\ NewHero(u, c, clock).archived_at = NULL
    BY NewHeroIsHero DEF IInv, TypeOK
<1>3. NewHero(u, c, clock).is_locked = OrElse(c.is_locked, FALSE)
    BY DEF NewHero
<1>4. /\ heroes' = [heroes EXCEPT ![next_id] = NewHero(u, c, clock)]
      /\ Journal(u, "create", S, new, Created)
    BY DEF Create
<1>5. heroes' = Put(heroes, S, new)
    BY <1>1, <1>4 DEF Put
<1>6. S \in SUBSET Ids /\ new \in [S -> Hero]
    BY <1>1, <1>2
<1>7. \A i \in S : /\ heroes[i] = NoHero
                   /\ new[i].owner_id = u /\ new[i].archived_at = NULL
                   /\ new[i].is_locked = OrElse(c.is_locked, FALSE)
    BY <1>1, <1>2, <1>3
<1> HIDE DEF S, new
<1> USE <1>6
<1> WITNESS S \in SUBSET Ids
<1> WITNESS new \in [S -> Hero]
<1> QED
    BY <1>4, <1>5, <1>7

\* An update that is not refused writes rows of the caller outside the archive.
LEMMA UpdateWrites ==
    ASSUME IInv, NEW u \in Users, NEW S \in SUBSET Ids, NEW c \in Changes, NEW status,
           UpdateMany(u, Writable(heroes, u, S), c, status), ~Refuse(status)
    PROVE  \E hit \in SUBSET Ids : \E new \in [hit -> Hero] :
              /\ heroes' = Put(heroes, hit, new) /\ Journal(u, "update", hit, new, OK)
              /\ \A i \in hit : /\ heroes[i] \in Hero /\ heroes[i].owner_id = u
                               /\ new[i].owner_id = u /\ new[i].archived_at = NULL
                               /\ new[i].is_locked = OrElse(c.is_locked, heroes[i].is_locked)
<1> DEFINE hit == Writable(heroes, u, S)
<1> DEFINE new == [i \in hit |-> Updated(heroes[i], c, clock)]
<1>1. heroes' = Put(heroes, hit, new) /\ Journal(u, "update", hit, new, OK)
    BY DEF UpdateMany
<1>2. hit \in SUBSET Ids
    BY ScopesAreIdempotent
<1>3. \A i \in hit : heroes[i] \in Hero /\ heroes[i].owner_id = u /\ heroes[i].archived_at = NULL
    <2>1. heroes \in [Ids -> Hero \cup {NoHero}]
        BY DEF IInv, TypeOK
    <2>2. /\ hit \subseteq Mine(heroes, u, S)
          /\ \A i \in Mine(heroes, u, S) : heroes[i] \in Hero /\ heroes[i].owner_id = u
          /\ \A i \in hit : heroes[i].archived_at = NULL
        BY <2>1, ScopedRows
    <2> QED
        BY <2>2
<1>4. ASSUME NEW i \in hit
      PROVE  /\ Updated(heroes[i], c, clock) \in Hero
             /\ Updated(heroes[i], c, clock).owner_id = u
             /\ Updated(heroes[i], c, clock).archived_at = NULL
    <2>1. clock \in Instant
        BY DEF IInv, TypeOK
    <2> QED
        BY <1>3, <2>1, UpdatedIsHero
<1>5. \A i \in hit : Updated(heroes[i], c, clock).is_locked = OrElse(c.is_locked, heroes[i].is_locked)
    BY <1>3 DEF Updated, Apply, Hero
<1>6. new \in [hit -> Hero]
    BY <1>4
<1>7. \A i \in hit : /\ heroes[i] \in Hero /\ heroes[i].owner_id = u
                     /\ new[i].owner_id = u /\ new[i].archived_at = NULL
                     /\ new[i].is_locked = OrElse(c.is_locked, heroes[i].is_locked)
    BY <1>3, <1>4, <1>5
<1> HIDE DEF hit, new
<1> USE <1>2, <1>6
<1> WITNESS hit \in SUBSET Ids
<1> WITNESS new \in [hit -> Hero]
<1> QED
    BY <1>1, <1>7

\* A delete that is not refused archives rows of the caller.
LEMMA ArchiveWrites ==
    ASSUME IInv, NEW u \in Users, NEW S \in SUBSET Ids, NEW snapshot,
           ArchiveMany(u, Writable(heroes, u, S), snapshot), ~Refuse(423)
    PROVE  LET hit == Writable(heroes, u, S)
               new == ArchivedRows(hit) IN
           /\ hit \in SUBSET Ids /\ new \in [hit -> Hero]
           /\ heroes' = Put(heroes, hit, new) /\ Journal(u, "delete", hit, snapshot, OK)
           /\ \A i \in hit : /\ heroes[i] \in Hero /\ heroes[i].owner_id = u
                            /\ new[i] = [heroes[i] EXCEPT !.archived_at = clock]
                            /\ new[i].owner_id = u /\ new[i].archived_at = clock
                            /\ new[i].is_locked = heroes[i].is_locked
<1> DEFINE hit == Writable(heroes, u, S)
<1> DEFINE new == ArchivedRows(hit)
<1>1. heroes' = Put(heroes, hit, new) /\ Journal(u, "delete", hit, snapshot, OK)
    BY DEF ArchiveMany
<1>2. hit \in SUBSET Ids
    BY ScopesAreIdempotent
<1>3. \A i \in hit : heroes[i] \in Hero /\ heroes[i].owner_id = u
    <2>1. heroes \in [Ids -> Hero \cup {NoHero}]
        BY DEF IInv, TypeOK
    <2> QED
        BY <2>1, ScopedRows
<1>4. \A i \in hit : /\ [heroes[i] EXCEPT !.archived_at = clock] \in Hero
                     /\ [heroes[i] EXCEPT !.archived_at = clock].owner_id = u
                     /\ [heroes[i] EXCEPT !.archived_at = clock].archived_at = clock
                     /\ [heroes[i] EXCEPT !.archived_at = clock].is_locked = heroes[i].is_locked
    BY <1>3, MarkedIsHero DEF IInv, TypeOK
<1>5. new = [i \in hit |-> [heroes[i] EXCEPT !.archived_at = clock]]
    BY DEF ArchivedRows
<1>6. new \in [hit -> Hero]
    BY <1>4, <1>5
<1>7. \A i \in hit : new[i] = [heroes[i] EXCEPT !.archived_at = clock]
    BY <1>5
<1>8. \A i \in hit : /\ heroes[i] \in Hero /\ heroes[i].owner_id = u
                     /\ new[i] = [heroes[i] EXCEPT !.archived_at = clock]
                     /\ new[i].owner_id = u /\ new[i].archived_at = clock
                     /\ new[i].is_locked = heroes[i].is_locked
    BY <1>3, <1>4, <1>7
<1> QED
    BY <1>1, <1>2, <1>6, <1>8

\* A restore clears the archive marker and writes no revision.
LEMMA RestoreWrites ==
    ASSUME IInv, NEW u \in Users, NEW S \in SUBSET Ids, RestoreMany(Mine(heroes, u, S))
    PROVE  /\ UNCHANGED revisions
           /\ \A i \in Ids : \/ heroes'[i] = heroes[i]
                            \/ /\ heroes[i] \in Hero /\ heroes'[i] \in Hero
                               /\ heroes'[i].owner_id = heroes[i].owner_id
                               /\ heroes'[i].is_locked = heroes[i].is_locked
                               /\ heroes'[i] = [heroes[i] EXCEPT !.archived_at = NULL]
<1> DEFINE hit == Mine(heroes, u, S)
<1> DEFINE new == [i \in hit |-> [heroes[i] EXCEPT !.archived_at = NULL]]
<1>1. heroes' = Put(heroes, hit, new) /\ UNCHANGED revisions
    BY DEF RestoreMany
<1>2. \A i \in hit : heroes[i] \in Hero
    BY ScopedRows DEF IInv, TypeOK
<1>3. \A i \in hit : /\ [heroes[i] EXCEPT !.archived_at = NULL] \in Hero
                     /\ [heroes[i] EXCEPT !.archived_at = NULL].owner_id = heroes[i].owner_id
                     /\ [heroes[i] EXCEPT !.archived_at = NULL].is_locked = heroes[i].is_locked
    BY <1>2, MarkedIsHero
<1>4. \A i \in Ids : heroes'[i] = IF i \in hit THEN [heroes[i] EXCEPT !.archived_at = NULL]
                                              ELSE heroes[i]
    BY <1>1 DEF Put
<1> HIDE DEF hit, new
<1> QED
    BY <1>1, <1>2, <1>3, <1>4

-----------------------------------------------------------------------------
\* A request writes rows of its caller, in the caller's name.
LEMMA OwnerRequest ==
    ASSUME OwnerInv, NEW u \in Users, Handled(u)
    PROVE  Blank' /\ OnlyTheOwnerActs'
<1>1. CASE \E status \in Statuses : Refuse(status)
    BY <1>1, NothingWritten DEF OwnerInv, Refuse
<1>2. CASE \E c \in Bodies \cup CreateBodies : Create(u, c)
    <2>1. PICK c \in Changes : Create(u, c)
        BY <1>2, BodiesAreChanges
    <2>2. PICK S \in SUBSET Ids : \E new \in [S -> Hero] :
              /\ heroes' = Put(heroes, S, new) /\ Journal(u, "create", S, new, Created)
              /\ \A i \in S : heroes[i] = NoHero /\ new[i].owner_id = u
        <3>1. IInv
            BY DEF OwnerInv
        <3>2. \E S \in SUBSET Ids : \E new \in [S -> Hero] :
                 /\ heroes' = Put(heroes, S, new) /\ Journal(u, "create", S, new, Created)
                 /\ \A i \in S : /\ heroes[i] = NoHero
                                /\ new[i].owner_id = u /\ new[i].archived_at = NULL
                                /\ new[i].is_locked = OrElse(c.is_locked, FALSE)
            BY <2>1, <3>1, CreateWrites, Zenon
        <3> QED
            BY <3>2, Zenon
    <2>3. "create" \in Actions \ {"restore"}
        BY DEF Actions
    <2> QED
        BY <2>2, <2>3, OwnStep
<1>3. ASSUME NEW S \in SUBSET Ids, NEW c \in Bodies \cup LegacyBodies \cup {PublishFlip},
             NEW status \in Refusals \cup {Crashed},
             UpdateMany(u, Writable(heroes, u, S), c, status)
      PROVE  Blank' /\ OnlyTheOwnerActs'
    <2>1. CASE Refuse(status)
        BY <2>1, NothingWritten DEF OwnerInv, Refuse
    <2>2. CASE ~Refuse(status)
        <3>1. c \in Changes
            BY BodiesAreChanges
        <3>2. PICK hit \in SUBSET Ids : \E new \in [hit -> Hero] :
                  /\ heroes' = Put(heroes, hit, new) /\ Journal(u, "update", hit, new, OK)
                  /\ \A i \in hit : heroes[i].owner_id = u /\ new[i].owner_id = u
            BY <1>3, <2>2, <3>1, UpdateWrites DEF OwnerInv
        <3>3. "update" \in Actions \ {"restore"}
            BY DEF Actions
        <3> QED
            BY <3>2, <3>3, OwnStep
    <2> QED
        BY <2>1, <2>2
<1>4. ASSUME NEW S \in SUBSET Ids, NEW snapshot,
             snapshot \in {ArchivedRows(Writable(heroes, u, S)),
                          [i \in Writable(heroes, u, S) |-> heroes[i]]},
             ArchiveMany(u, Writable(heroes, u, S), snapshot)
      PROVE  Blank' /\ OnlyTheOwnerActs'
    <2>1. CASE Refuse(423)
        BY <2>1, NothingWritten DEF OwnerInv, Refuse
    <2>2. CASE ~Refuse(423)
        <3> DEFINE hit == Writable(heroes, u, S)
        <3> DEFINE new == ArchivedRows(hit)
        <3>1. /\ hit \in SUBSET Ids /\ new \in [hit -> Hero]
              /\ heroes' = Put(heroes, hit, new) /\ Journal(u, "delete", hit, snapshot, OK)
              /\ \A i \in hit : heroes[i] \in Hero /\ heroes[i].owner_id = u /\ new[i].owner_id = u
            <4>1. IInv
                BY DEF OwnerInv
            <4>2. /\ hit \in SUBSET Ids /\ new \in [hit -> Hero]
                  /\ heroes' = Put(heroes, hit, new) /\ Journal(u, "delete", hit, snapshot, OK)
                  /\ \A i \in hit : /\ heroes[i] \in Hero /\ heroes[i].owner_id = u
                                   /\ new[i] = [heroes[i] EXCEPT !.archived_at = clock]
                                   /\ new[i].owner_id = u /\ new[i].archived_at = clock
                                   /\ new[i].is_locked = heroes[i].is_locked
                BY <1>4, <2>2, <4>1, ArchiveWrites
            <4> QED
                BY <4>2, Zenon
        <3>2. snapshot \in [hit -> Hero] /\ \A i \in hit : snapshot[i].owner_id = u
            BY <1>4, <3>1
        <3>3. "delete" \in Actions \ {"restore"}
            BY DEF Actions
        <3> HIDE DEF hit, new
        <3> QED
            BY <3>1, <3>2, <3>3, OwnStep
    <2> QED
        BY <2>1, <2>2
<1>5. ASSUME NEW S \in SUBSET Ids, RestoreMany(Mine(heroes, u, S))
      PROVE  Blank' /\ OnlyTheOwnerActs'
    <2>1. /\ UNCHANGED revisions
          /\ \A i \in Ids : \/ heroes'[i] = heroes[i]
                           \/ /\ heroes[i] \in Hero /\ heroes'[i] \in Hero
                              /\ heroes'[i].owner_id = heroes[i].owner_id
        BY <1>5, RestoreWrites DEF OwnerInv
    <2> QED
        BY <2>1, NoHeroAssumption DEF OwnerInv, Blank, OnlyTheOwnerActs, Rows, RowsOf
<1> QED
    BY <1>1, <1>2, <1>3, <1>4, <1>5 DEF Handled

\* Whatever was done to a record was done by its owner: every mutation passes
\* the caller's owner filter, and none writes owner_id (interfaces/base.py
\* _scoped).
THEOREM OwnersAct == Spec => []OnlyTheOwnerActs
<1>1. Init => OwnerInv
    <2>1. Init => IInv
        BY InitKeeps
    <2>2. Init => Blank /\ OnlyTheOwnerActs
        BY DEF Init, Blank, OnlyTheOwnerActs, Rows, RowsOf
    <2> QED
        BY <2>1, <2>2 DEF OwnerInv
<1>2. OwnerInv /\ [Next]_vars => OwnerInv'
    <2> SUFFICES ASSUME OwnerInv, [Next]_vars PROVE OwnerInv'
        OBVIOUS
    <2>1. IInv'
        BY NextKeeps DEF Kept, OwnerInv
    <2>2. CASE \E u \in Users : Request(u)
        <3>1. PICK u \in Users : Handled(u)
            BY <2>2, RequestIsHandled DEF OwnerInv
        <3> QED
            BY <2>1, <3>1, OwnerRequest DEF OwnerInv
    <2>3. CASE UNCHANGED <<heroes, revisions, events>>
        BY <2>1, <2>3, NothingWritten DEF OwnerInv
    <2>4. CASE Read \/ Tick \/ UNCHANGED vars
        BY <2>3, <2>4 DEF Read, ReadRecord, ListRecords, Refuse, Tick, vars
    <2> QED
        BY <2>2, <2>4 DEF Next
<1>3. OwnerInv => OnlyTheOwnerActs
    BY DEF OwnerInv
<1> QED
    BY <1>1, <1>2, <1>3, PTL DEF Spec

-----------------------------------------------------------------------------
\* No body that a route passes on clears the lock's flag to null.
LEMMA BodiesKeepLocks ==
    ASSUME NoNullLocks
    PROVE  \A c \in Bodies \cup CreateBodies \cup LegacyBodies \cup {PublishFlip} :
              c \in Changes /\ c.is_locked # NULL
<1>1. UNSET # NULL
    BY MarksAssumption
<1> QED
    BY <1>1, BodiesAreChanges
       DEF NoNullLocks, CreateBodies, CreateBody, LegacyBodies, PublishFlip, NoChanges

\* What ShownRequest establishes.
Shown ==
    /\ Renders' /\ RevisionsShowTheRow' /\ EventsShowTheRow'
    /\ reply' \in Refusals \cup {Crashed} => UNCHANGED <<heroes, revisions, events>>

\* A refusal leaves what the logs show.
LEMMA RefusalShows ==
    ASSUME LogInv, NEW status, Refuse(status)
    PROVE  Shown
BY NothingWritten DEF LogInv, Shown, Refuse

\* A created row is logged as it is written.
LEMMA CreateShows ==
    ASSUME LogInv, NEW u \in Users, NEW c \in Changes, c.is_locked # NULL, Create(u, c)
    PROVE  Shown
<1>1. PICK S \in SUBSET Ids : \E new \in [S -> Hero] :
          /\ heroes' = Put(heroes, S, new) /\ Journal(u, "create", S, new, Created)
          /\ \A i \in S : /\ heroes[i] = NoHero
                         /\ new[i].owner_id = u /\ new[i].archived_at = NULL
                         /\ new[i].is_locked = OrElse(c.is_locked, FALSE)
    BY CreateWrites DEF LogInv
<1>2. PICK new \in [S -> Hero] :
          /\ heroes' = Put(heroes, S, new) /\ Journal(u, "create", S, new, Created)
          /\ \A i \in S : /\ new[i].archived_at = NULL
                         /\ new[i].is_locked = OrElse(c.is_locked, FALSE)
    BY <1>1
<1>3. \A i \in S : Renderable(new[i]) /\ ("create" = "delete" <=> Archived(new[i]))
    BY <1>2, MarksAssumption DEF Renderable, OrElse, Archived
<1>4. "create" \in Actions \ {"restore"}
    BY DEF Actions
<1>5. /\ Renders' /\ RevisionsShowTheRow' /\ EventsShowTheRow'
      /\ reply' \notin Refusals \cup {Crashed}
    BY <1>2, <1>3, <1>4, ShownStep
<1> QED
    BY <1>5 DEF Shown

\* Updated rows are logged as they are written.
LEMMA UpdateShows ==
    ASSUME LogInv, NEW u \in Users, NEW S \in SUBSET Ids, NEW c \in Changes, c.is_locked # NULL,
           NEW status, UpdateMany(u, Writable(heroes, u, S), c, status)
    PROVE  Shown
<1>1. CASE Refuse(status)
    BY <1>1, RefusalShows
<1>2. CASE ~Refuse(status)
    <2>1. PICK hit \in SUBSET Ids : \E new \in [hit -> Hero] :
              /\ heroes' = Put(heroes, hit, new) /\ Journal(u, "update", hit, new, OK)
              /\ \A i \in hit : /\ heroes[i] \in Hero /\ new[i].archived_at = NULL
                               /\ new[i].is_locked = OrElse(c.is_locked, heroes[i].is_locked)
        BY <1>2, UpdateWrites DEF LogInv
    <2>2. PICK new \in [hit -> Hero] :
              /\ heroes' = Put(heroes, hit, new) /\ Journal(u, "update", hit, new, OK)
              /\ \A i \in hit : /\ heroes[i] \in Hero /\ new[i].archived_at = NULL
                               /\ new[i].is_locked = OrElse(c.is_locked, heroes[i].is_locked)
        BY <2>1
    <2>3. \A i \in hit : heroes[i].is_locked # NULL
        BY <2>2, NoHeroAssumption DEF LogInv, Renders, Renderable, Rows, RowsOf
    <2>4. \A i \in hit : Renderable(new[i]) /\ ("update" = "delete" <=> Archived(new[i]))
        BY <2>2, <2>3 DEF Renderable, OrElse, Archived
    <2>5. "update" \in Actions \ {"restore"}
        BY DEF Actions
    <2>6. /\ Renders' /\ RevisionsShowTheRow' /\ EventsShowTheRow'
          /\ reply' \notin Refusals \cup {Crashed}
        BY <2>2, <2>4, <2>5, ShownStep
    <2> QED
        BY <2>6 DEF Shown
<1> QED
    BY <1>1, <1>2

\* Archived rows are logged with their content, and as deleted.
LEMMA ArchiveShows ==
    ASSUME LogInv, NEW u \in Users, NEW S \in SUBSET Ids, NEW snapshot,
           snapshot \in {ArchivedRows(Writable(heroes, u, S)),
                        [i \in Writable(heroes, u, S) |-> heroes[i]]},
           ArchiveMany(u, Writable(heroes, u, S), snapshot)
    PROVE  Shown
<1>1. CASE Refuse(423)
    BY <1>1, RefusalShows
<1>2. CASE ~Refuse(423)
    <2> DEFINE hit == Writable(heroes, u, S)
    <2> DEFINE new == ArchivedRows(hit)
    <2>1. /\ hit \in SUBSET Ids /\ new \in [hit -> Hero]
          /\ heroes' = Put(heroes, hit, new) /\ Journal(u, "delete", hit, snapshot, OK)
          /\ \A i \in hit : /\ heroes[i] \in Hero
                           /\ new[i] = [heroes[i] EXCEPT !.archived_at = clock]
                           /\ new[i].archived_at = clock
                           /\ new[i].is_locked = heroes[i].is_locked
        BY <1>2, ArchiveWrites DEF LogInv
    <2>2. snapshot = new \/ snapshot = [i \in hit |-> heroes[i]]
        OBVIOUS
    <2> HIDE DEF hit, new
    <2>3. snapshot \in [hit -> Hero] /\ \A i \in hit : snapshot[i] \in {new[i], heroes[i]}
        BY <2>1, <2>2
    <2>4. \A i \in hit : heroes[i].is_locked # NULL
        BY <2>1, NoHeroAssumption DEF LogInv, Renders, Renderable, Rows, RowsOf
    <2>5. clock # NULL
        BY MarksAssumption DEF LogInv, IInv, TypeOK, Instant
    <2>6. \A i \in hit : Renderable(new[i]) /\ Renderable(snapshot[i]) /\ Archived(new[i])
        BY <2>1, <2>3, <2>4, <2>5 DEF Renderable, Archived
    <2>7. \A i \in hit : Content(new[i]) = Content(heroes[i])
        BY <2>1 DEF Content, Hero
    <2>8. \A i \in hit : Content(snapshot[i]) = Content(new[i])
        BY <2>3, <2>7
    <2>9. "delete" \in Actions \ {"restore"}
        BY DEF Actions
    <2>10. /\ Renders' /\ RevisionsShowTheRow' /\ EventsShowTheRow'
           /\ reply' \notin Refusals \cup {Crashed}
        BY <2>1, <2>3, <2>6, <2>8, <2>9, ShownStep
    <2> QED
        BY <2>10 DEF Shown
<1> QED
    BY <1>1, <1>2

\* Restored rows are announced as such, and their revisions still show them.
LEMMA RestoreShows ==
    ASSUME LogInv, NEW u \in Users, NEW S \in SUBSET Ids, RestoreMany(Mine(heroes, u, S))
    PROVE  Shown
<1> DEFINE hit == Mine(heroes, u, S)
<1> DEFINE new == [i \in hit |-> [heroes[i] EXCEPT !.archived_at = NULL]]
<1> DEFINE evt == [i \in hit |-> [action |-> "restore", snapshot |-> new[i]]]
<1>1. hit \in SUBSET Ids /\ \A i \in hit : heroes[i] \in Hero
    BY ScopesAreIdempotent, ScopedRows DEF LogInv, IInv, TypeOK
<1>2. \A i \in hit : i \in Rows /\ Renderable(heroes[i])
    BY <1>1, NoHeroAssumption DEF LogInv, Renders, Rows, RowsOf
<1>3. \A i \in hit : /\ new[i] \in Hero /\ new[i].archived_at = NULL
                     /\ new[i].is_locked = heroes[i].is_locked
                     /\ Content(new[i]) = Content(heroes[i])
    BY <1>1, MarkedIsHero DEF Content, Hero
<1>4. \A i \in hit : Renderable(new[i]) /\ ~Archived(new[i])
    BY <1>2, <1>3 DEF Renderable, Archived
<1>5. /\ heroes' = Put(heroes, hit, new) /\ UNCHANGED revisions
      /\ events' = Logged(events, hit, evt) /\ reply' = OK
    BY <1>4 DEF RestoreMany
<1>6. \A i \in hit : evt[i] \in Event /\ evt[i].snapshot = new[i] /\ evt[i].action = "restore"
    BY <1>3 DEF Event, Actions
<1> HIDE DEF hit, new, evt
<1>7. /\ \A i \in hit : heroes'[i] = new[i]
      /\ \A i \in Ids \ hit : heroes'[i] = heroes[i]
    BY <1>1, <1>5 DEF Put
<1>8. \A i \in Ids : events'[i] = IF i \in hit THEN Append(events[i], evt[i]) ELSE events[i]
    BY <1>5 DEF Logged
<1>9. ASSUME NEW i \in hit
      PROVE  events'[i] # <<>> /\ Last(events'[i]) = evt[i]
    <2>1. events[i] \in Seq(Event)
        BY <1>1 DEF LogInv, IInv, TypeOK
    <2>2. events'[i] = Append(events[i], evt[i]) /\ evt[i] \in Event
        BY <1>1, <1>6, <1>8
    <2> QED
        BY <2>1, <2>2 DEF Last
<1>10. \A i \in Rows' : i \in Ids /\ i \in Rows
    BY <1>2, <1>7 DEF Rows, RowsOf
<1>11. Renders'
    BY <1>4, <1>7, <1>10 DEF LogInv, Renders
<1>12. \A i \in Rows : Content(heroes'[i]) = Content(heroes[i])
    BY <1>3, <1>7 DEF Rows, RowsOf
<1>13. RevisionsShowTheRow'
    <2> SUFFICES ASSUME NEW i \in Rows'
                 PROVE  /\ revisions'[i] # <<>>
                        /\ Content(Last(revisions'[i]).snapshot) = Content(heroes'[i])
        BY DEF RevisionsShowTheRow, Content, Last
    <2> QED
        BY <1>5, <1>10, <1>12 DEF LogInv, RevisionsShowTheRow
<1>14. EventsShowTheRow'
    <2> SUFFICES ASSUME NEW i \in Rows'
                 PROVE  /\ events'[i] # <<>>
                        /\ Content(Last(events'[i]).snapshot) = Content(heroes'[i])
                        /\ (Last(events'[i]).action = "delete") <=> Archived(heroes'[i])
        BY DEF EventsShowTheRow, Content, Last, Archived
    <2>1. CASE i \in hit
        BY <1>4, <1>6, <1>7, <1>9, <2>1
    <2>2. CASE i \notin hit
        BY <1>7, <1>8, <1>10, <2>2 DEF LogInv, EventsShowTheRow
    <2> QED
        BY <2>1, <2>2
<1>15. reply' \notin Refusals \cup {Crashed}
    BY <1>5 DEF OK, Refusals, Crashed
<1> QED
    BY <1>11, <1>13, <1>14, <1>15 DEF Shown

\* Each shared step keeps the logs true.
LEMMA RequestShows ==
    ASSUME NoNullLocks, LogInv, NEW u \in Users, Handled(u)
    PROVE  Shown
<1>1. CASE \E status \in Statuses : Refuse(status)
    BY <1>1, RefusalShows
<1>2. CASE \E c \in Bodies \cup CreateBodies : Create(u, c)
    BY <1>2, BodiesKeepLocks, CreateShows
<1>3. CASE \E S \in SUBSET Ids, c \in Bodies \cup LegacyBodies \cup {PublishFlip},
              status \in Refusals \cup {Crashed} :
              UpdateMany(u, Writable(heroes, u, S), c, status)
    BY <1>3, BodiesKeepLocks, UpdateShows
<1>4. CASE \E S \in SUBSET Ids :
              LET hit == Writable(heroes, u, S) IN
              \/ ArchiveMany(u, hit, ArchivedRows(hit))
              \/ ArchiveMany(u, hit, [i \in hit |-> heroes[i]])
    BY <1>4, ArchiveShows
<1>5. CASE \E S \in SUBSET Ids : RestoreMany(Mine(heroes, u, S))
    BY <1>5, RestoreShows
<1> QED
    BY <1>1, <1>2, <1>3, <1>4, <1>5 DEF Handled

\* Whatever the service does.
LEMMA NextShows ==
    ASSUME NoNullLocks, LogInv, [Next]_vars
    PROVE  /\ LogInv'
           /\ reply' \in Refusals \cup {Crashed} =>
                  UNCHANGED <<heroes, revisions, events>>
<1>1. IInv'
    BY NextKeeps DEF Kept, LogInv
<1>2. CASE \E u \in Users : Request(u)
    <2>1. PICK u \in Users : Handled(u)
        BY <1>2, RequestIsHandled DEF LogInv
    <2>2. Shown
        BY <2>1, RequestShows
    <2> QED
        BY <1>1, <2>2 DEF Shown, LogInv
<1>3. CASE UNCHANGED <<heroes, revisions, events>>
    BY <1>1, <1>3, NothingWritten DEF LogInv
<1>4. CASE Read \/ Tick \/ UNCHANGED vars
    BY <1>3, <1>4 DEF Read, ReadRecord, ListRecords, Refuse, Tick, vars
<1> QED
    BY <1>2, <1>4 DEF Next

\* Nothing is stored and nothing logged at first.
LEMMA InitShows == Init => LogInv
<1>1. Init => IInv
    BY InitKeeps
<1>2. Init => Renders /\ RevisionsShowTheRow /\ EventsShowTheRow
    BY DEF Init, Renders, RevisionsShowTheRow, EventsShowTheRow, Rows, RowsOf
<1> QED
    BY <1>1, <1>2 DEF LogInv

\* The newest revision and the newest event of a record show it, and the event
\* says whether it is archived, as long as no body carries is_locked: null
\* (interfaces/base.py _record_revision and _publish_event).
THEOREM LogsShow == ASSUME NoNullLocks PROVE Spec => []LogsShowTheRow
<1>1. LogInv /\ [Next]_vars => LogInv'
    BY NextShows
<1>2. LogInv => LogsShowTheRow
    BY DEF LogInv, LogsShowTheRow
<1> QED
    BY <1>1, <1>2, InitShows, PTL DEF Spec

\* A request answered with an error has changed nothing, though nothing is ever
\* rolled back, as long as no body carries is_locked: null (repositories/
\* memory.py checks every lock before its first write).
THEOREM ErrorsAreClean == ASSUME NoNullLocks PROVE Spec => ErrorsLeaveNoTrace
<1>1. LogInv /\ [Next]_vars => LogInv'
    BY NextShows
<1>2. LogInv /\ [Next]_vars =>
          [reply' \in Refusals \cup {Crashed} => UNCHANGED <<heroes, revisions, events>>]_vars
    BY NextShows
<1> QED
    BY <1>1, <1>2, InitShows, PTL DEF Spec, ErrorsLeaveNoTrace

=============================================================================
