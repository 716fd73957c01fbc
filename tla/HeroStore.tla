----------------------------- MODULE HeroStore -----------------------------
(***************************************************************************)
(* What the record store promises its callers, whichever repository is     *)
(* behind it: every request that changes heroes changes them in one step,  *)
(* touches only rows of the caller, refuses a locked row unless the        *)
(* request is the unlock itself, and leaves archived rows to restore().    *)
(* CRUDInterface's docstrings (interfaces/base.py) and the lifecycle       *)
(* mixins' (models/mixins.py) state these promises.  The table is all the  *)
(* state there is; how a request is carried out is the business of the     *)
(* modules that implement this one.                                        *)
(***************************************************************************)
EXTENDS HeroRecords

VARIABLE heroes     \* id -> its row, or NoHero

Rows == RowsOf(heroes)

-----------------------------------------------------------------------------
Init == heroes = [i \in Ids |-> NoHero]

\* create, draft and clone: a new row at a free id.
Create(u, i, c, now) ==
    /\ heroes[i] = NoHero
    /\ heroes' = [heroes EXCEPT ![i] = NewHero(u, c, now)]

\* update and update_many, all the selected rows or none.
Update(u, S, c, now) ==
    /\ S = Writable(heroes, u, S)
    /\ \A i \in S : ~RefusedByLock(heroes[i], c)
    /\ heroes' = Put(heroes, S, [i \in S |-> Updated(heroes[i], c, now)])

\* delete and delete_many of an Archivable model.
Archive(u, S, now) ==
    /\ S = Writable(heroes, u, S)
    /\ \A i \in S : ~RefusedByLock(heroes[i], NoChanges)
    /\ heroes' = Put(heroes, S, [i \in S |-> [heroes[i] EXCEPT !.archived_at = now]])

\* restore and restore_many: no lock check, no archived filter.
Restore(u, S) ==
    /\ S = Mine(heroes, u, S)
    /\ heroes' = Put(heroes, S, [i \in S |-> [heroes[i] EXCEPT !.archived_at = NULL]])

Next ==
    \E u \in Users :
        \/ \E i \in Ids, c \in Bodies \cup CreateBodies, now \in Instant :
              Create(u, i, c, now)
        \/ \E S \in SUBSET Ids, c \in Bodies \cup LegacyBodies \cup {PublishFlip}, now \in Instant :
              Update(u, S, c, now)
        \/ \E S \in SUBSET Ids, now \in Instant : Archive(u, S, now)
        \/ \E S \in SUBSET Ids : Restore(u, S)

Spec == Init /\ [][Next]_heroes

-----------------------------------------------------------------------------
TypeOK == heroes \in [Ids -> Hero \cup {NoHero}]

\* No row is both locked and archived: archiving refuses a locked row, and an
\* archived row cannot be locked (update_many does not select it).  restore
\* relies on it, since it never looks at the lock (repositories/*.py
\* restore_many).
LockedNotArchived == \A i \in Rows : Locked(heroes[i]) => ~Archived(heroes[i])

\* A locked row survives every request unchanged, except for the unlock
\* itself, which clears the flag and stamps updated_at (models/mixins.py
\* Lockable).
LockedFrozen ==
    \A i \in Rows : Locked(heroes[i]) =>
        \/ heroes'[i] = heroes[i]
        \/ \E now \in Instant :
              heroes'[i] = [heroes[i] EXCEPT !.is_locked = FALSE, !.updated_at = now]

\* An archived row only leaves the archive untouched: nothing edits it until
\* restore has brought it back, and restore changes nothing but archived_at.
ArchivedFrozen ==
    \A i \in Rows : Archived(heroes[i]) =>
        heroes'[i] \in {heroes[i], [heroes[i] EXCEPT !.archived_at = NULL]}

\* A row never changes hands and never disappears (update/delete reach only
\* the caller's rows, and no request writes owner_id or deletes physically).
OwnerKept == \A i \in Rows : heroes'[i] # NoHero /\ heroes'[i].owner_id = heroes[i].owner_id

LockedFrozenProp    == [][LockedFrozen]_heroes
ArchivedFrozenProp  == [][ArchivedFrozen]_heroes
OwnerKeptProp       == [][OwnerKept]_heroes

=============================================================================
