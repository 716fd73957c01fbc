----------------------------- MODULE MCSqlCrud -----------------------------
(***************************************************************************)
(* Small instances of SqlCrud.                                             *)
(***************************************************************************)
EXTENDS SqlCrud

CONSTANTS u1, u2

Rename    == [NoChanges EXCEPT !.name = "b"]
ClearName == [NoChanges EXCEPT !.name = NULL]
Lock      == [NoChanges EXCEPT !.is_locked = TRUE]
ClearLock == [NoChanges EXCEPT !.is_locked = NULL]

Clients == {Rename, ClearName, Lock, ClearLock, Unlock}

Live     == [NewHero(u1, CreateBody("a"), 0) EXCEPT !.is_draft = FALSE]
Draft    == NewHero(u1, CreateBody("a"), 0)
Gone     == [Live EXCEPT !.archived_at = 0]
Strange  == [Live EXCEPT !.owner_id = u2]

Ask(op, ids, bulk, body) ==
    [op |-> op, caller |-> u1, ids |-> ids, bulk |-> bulk, body |-> body]

\* Two writers of the same two rows.
PairRequests == {
    Ask("update", {1}, FALSE, Rename),
    Ask("update", {1}, FALSE, Lock),
    Ask("update", {2}, FALSE, Unlock),
    Ask("update", {1, 2}, TRUE, ClearName),
    Ask("delete", {1}, FALSE, NoChanges),
    Ask("delete", {1, 2}, TRUE, NoChanges),
    Ask("restore", {1, 2}, TRUE, NoChanges)}

PairTables == {<<Live, Live>>, <<Live, Gone>>}

\* Those of somebody who owns none of the rows.
StrangeRequests == {
    [r EXCEPT !.caller = u2] : r \in {
        Ask("update", {1}, FALSE, Rename),
        Ask("publish", {1}, FALSE, PublishFlip),
        Ask("delete", {1}, FALSE, NoChanges),
        Ask("restore", {1}, TRUE, NoChanges)}}

\* Every route over one row and the next ids.
RouteRequests == StrangeRequests \cup {
    Ask("create", {}, FALSE, CreateBody("a")),
    Ask("create", {}, FALSE, ClearLock),
    Ask("clone", {1}, FALSE, NoChanges),
    Ask("publish", {1}, FALSE, PublishFlip),
    Ask("update", {1}, FALSE, Rename),
    Ask("update", {1}, FALSE, ClearName),
    Ask("update", {1}, FALSE, ClearLock),
    Ask("delete", {2}, FALSE, NoChanges),
    Ask("delete", {1}, FALSE, NoChanges),
    Ask("restore", {1}, FALSE, NoChanges),
    Ask("update", {1, 2}, TRUE, Lock)}

RouteTables == {<<Draft, NoHero, NoHero>>, <<Gone, NoHero, NoHero>>}

=============================================================================
