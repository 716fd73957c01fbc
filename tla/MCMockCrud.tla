----------------------------- MODULE MCMockCrud -----------------------------
(***************************************************************************)
(* Small instances of MockCrud.                                            *)
(***************************************************************************)
EXTENDS MockCrud, TLC

ClearName  == [NoChanges EXCEPT !.name = NULL]
Lock       == [NoChanges EXCEPT !.is_locked = TRUE]
ClearLock  == [NoChanges EXCEPT !.is_locked = NULL]
Schedule   == [NoChanges EXCEPT !.publish_at = 1]
Expire     == [NoChanges EXCEPT !.unpublish_at = 1]
UnlockEdit == [Unlock EXCEPT !.name = NULL]

\* Locks, the unlock alone and with an edit, and both edges of the window;
\* LegacyBodies adds the edits of the name.
EditBodies == {Lock, Unlock, UnlockEdit, Schedule, Expire}

\* The bodies with is_locked: null, which HeroV2Update accepts.
NullBodies == {ClearName, Lock, ClearLock}

UserSymmetry == Permutations(Users)

\* No step depends on the last reply: states that differ in it alone are one.
WithoutReply == <<heroes, next_id, revisions, events, clock>>
=============================================================================
