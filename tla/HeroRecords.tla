---------------------------- MODULE HeroRecords ----------------------------
(***************************************************************************)
(* The data every component of the service shares: one row of the `heroes` *)
(* table, the field values a request body carries, and the visibility,     *)
(* lock and draft rules that both repositories and the routes apply to     *)
(* them.  The required fields `name` and `powers` behave alike everywhere  *)
(* (both nullable, both demanded by HeroV2Create), so one field, name,     *)
(* stands for both; power_level is copied along and carries no rule.       *)
(***************************************************************************)
EXTENDS Naturals, FiniteSets

CONSTANTS
    Users,      \* the `sub` claims of the callers
    Names,      \* values of the required field
    MaxHeroes,  \* bound on ids: the table holds at most this many heroes
    MaxTime,    \* bound on the clock
    Bodies,     \* the HeroV2Update bodies clients send
    NULL,       \* SQL NULL / JSON null / Python None
    UNSET,      \* a field the client omitted (model_dump(exclude_unset=True))
    NoHero      \* an id with no row

ASSUME BoundsAssumption == MaxHeroes \in Nat /\ MaxTime \in Nat

\* The three marks are not values of any field, and are told apart.
ASSUME MarksAssumption ==
    /\ NULL # UNSET
    /\ \A mark \in {NULL, UNSET} : mark \notin Names /\ mark \notin BOOLEAN /\ mark \notin Nat

Ids == 1..MaxHeroes

Instant == 0..MaxTime                \* _now() and func.now(), in model ticks

Hero == [owner_id     : Users,
         name         : Names \cup {NULL},
         is_draft     : BOOLEAN,
         is_locked    : BOOLEAN \cup {NULL},
         archived_at  : Instant \cup {NULL},
         publish_at   : Instant \cup {NULL},
         unpublish_at : Instant \cup {NULL},
         updated_at   : Instant]

\* NoHero is not a row.
ASSUME NoHeroAssumption == NoHero \notin Hero

\* The `data` dict of a repository call: what a HeroV2Update body or
\* _PublishFlip sets, every other field UNSET.
Changes == [name         : Names \cup {NULL, UNSET},
            is_draft     : {FALSE, UNSET},
            is_locked    : BOOLEAN \cup {NULL, UNSET},
            publish_at   : Instant \cup {NULL, UNSET},
            unpublish_at : Instant \cup {NULL, UNSET}]

\* No client body carries is_draft: only the publish route sets it.
ASSUME BodiesAssumption == \A c \in Bodies : c \in Changes /\ c.is_draft = UNSET

NoChanges == [name |-> UNSET, is_draft |-> UNSET, is_locked |-> UNSET,
              publish_at |-> UNSET, unpublish_at |-> UNSET]

PublishFlip == [NoChanges EXCEPT !.is_draft = FALSE]

Unlock == [NoChanges EXCEPT !.is_locked = FALSE]

OrElse(new, old) == IF new = UNSET THEN old ELSE new

\* for field, value in data.items(): setattr(instance, field, value)
Apply(h, c) == [h EXCEPT !.name         = OrElse(c.name, @),
                         !.is_draft     = OrElse(c.is_draft, @),
                         !.is_locked    = OrElse(c.is_locked, @),
                         !.publish_at   = OrElse(c.publish_at, @),
                         !.unpublish_at = OrElse(c.unpublish_at, @)]

\* A new row: the owner stamped from the scope, omitted fields at the column
\* defaults (is_draft=True, is_locked=False, the rest NULL).
NewHero(owner, c, now) ==
    [owner_id     |-> owner,
     name         |-> OrElse(c.name, NULL),
     is_draft     |-> TRUE,
     is_locked    |-> OrElse(c.is_locked, FALSE),
     archived_at  |-> NULL,
     publish_at   |-> OrElse(c.publish_at, NULL),
     unpublish_at |-> OrElse(c.unpublish_at, NULL),
     updated_at   |-> now]

\* The values HeroV2Create validates and clone copies.
CreateBody(n) == [NoChanges EXCEPT !.name = n]

CreateBodies == {CreateBody(n) : n \in Names}

\* What hero_v1_update_to_v2 makes of a v1 body: the required fields are all
\* that v1 knows.
LegacyBodies == {[NoChanges EXCEPT !.name = n] : n \in Names \cup {NULL}}

Archived(h) == h.archived_at # NULL

\* _is_visible's Schedulable half: inside the publication window.
Published(h, now) ==
    /\ h.publish_at # NULL => h.publish_at <= now
    /\ h.unpublish_at # NULL => h.unpublish_at > now

IsVisible(h, now, include_archived, include_unpublished) ==
    /\ include_archived \/ ~Archived(h)
    /\ include_unpublished \/ Published(h, now)

\* Python truthiness: a NULL is_locked counts as unlocked.
Locked(h) == h.is_locked = TRUE

\* _raise_if_locked(instance, data); deletes pass data=None, which is never
\* the unlock-only body: NoChanges stands for it.
RefusedByLock(h, c) == Locked(h) /\ c # Unlock

\* create_schema.model_validate: every required field is there.
Complete(h) == h.name # NULL

\* HeroV2.model_validate(instance): is_locked: bool is the one field of the
\* response view that a row a request wrote may fail.
Renderable(h) == h.is_locked # NULL

-----------------------------------------------------------------------------
(***************************************************************************)
(* Tables: a function from every id to its row, or to NoHero.              *)
(***************************************************************************)
RowsOf(table) == {i \in Ids : table[i] # NoHero}

\* Slip: the owner filter is forgotten.
MineUnscoped(table, u, S) == S \cap RowsOf(table)

\* _scoped(filters): the owner filter keeps the caller's own rows.
Mine(table, u, S) == {i \in S \cap RowsOf(table) : table[i].owner_id = u}

\* Slip: archived rows are selected too.
WritableWithArchived(table, u, S) == Mine(table, u, S)

\* The rows update_many and delete_many select: not archived, whatever the
\* publication window says.
Writable(table, u, S) == {i \in Mine(table, u, S) : ~Archived(table[i])}

\* The rows count() counts: reads are not owner-scoped, and leave out what is
\* outside its publication window.
Countable(table, S, now, include_archived) ==
    {i \in S \cap RowsOf(table) : IsVisible(table[i], now, include_archived, FALSE)}

\* The table after the rows of S have been given new values.
Put(table, S, new) == [i \in Ids |-> IF i \in S THEN new[i] ELSE table[i]]

Updated(h, c, now) == [Apply(h, c) EXCEPT !.updated_at = now]

=============================================================================
