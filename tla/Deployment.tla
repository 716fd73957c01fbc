----------------------------- MODULE Deployment -----------------------------
(***************************************************************************)
(* Processes of several versions of the application against one database:  *)
(* the lifespan of main.py migrates the schema before it serves, by the    *)
(* revisions of alembic/versions, all pending ones in one transaction (the *)
(* default of alembic, which env.py keeps).  Several processes may start   *)
(* at once, die in the middle, and serve while another one migrates.       *)
(*                                                                         *)
(* The database is PostgreSQL: DDL is transactional and takes the table    *)
(* exclusively, DELETE and INSERT share it and lock rows, requests for the *)
(* table are queued, a statement sees what is committed when it runs, and  *)
(* of transactions that wait for each other one is ended.  revisions and   *)
(* alembic_version are created together with columns of heroes: the lock   *)
(* of heroes stands for theirs.                                            *)
(***************************************************************************)
EXTENDS Health, SequencesExt

CONSTANTS
    Images,         \* versions of it that are deployed: the last revision each has
    MaxRows,        \* bound on the heroes ever inserted
    MaxDeploys,     \* bound on redeployments
    MaxCrashes      \* bound on crashes

Revisions == 1..6

Newest == 6

ASSUME DeploymentAssumption ==
    /\ Images \subseteq Revisions /\ Images # {}
    /\ MaxRows \in Nat /\ MaxDeploys \in Nat /\ MaxCrashes \in Nat

Statement(rev, op, columns) == [revision |-> rev, op |-> op, columns |-> columns]

\* The upgrade() of the six revisions; neighbouring statements of one kind are
\* one.
CreateHeroes == Statement(1, "create", {"name", "superpower"})
AddTimestamps == Statement(2, "add", {"created_at", "updated_at"})
AddPowers == Statement(3, "add", {"powers"})
FillPowers == Statement(3, "fill", {"powers"})
RequirePowers == Statement(3, "require", {"powers"})
DropSuperpower == Statement(3, "drop", {"superpower"})
DeleteHeroes == Statement(4, "delete", {})
AddOwner == Statement(4, "add", {"owner_id"})
AddLifecycle ==
    Statement(5, "add", {"archived_at", "is_draft", "publish_at", "unpublish_at", "is_locked"})
RelaxContent == Statement(5, "relax", {"name", "powers"})
AddPowerLevel == Statement(6, "add", {"power_level"})

\* Slip: revision 3 as alembic generates it, without the statements that fill
\* the new column.
ScriptAsGenerated ==
    <<CreateHeroes, AddTimestamps, AddPowers, DropSuperpower, DeleteHeroes, AddOwner,
      AddLifecycle, RelaxContent, AddPowerLevel>>

\* In the order of their down_revisions.
Script ==
    <<CreateHeroes, AddTimestamps, AddPowers, FillPowers, RequirePowers, DropSuperpower,
      DeleteHeroes, AddOwner, AddLifecycle, RelaxContent, AddPowerLevel>>

\* Added with nullable=False: either a default fills it, or it needs an empty table.
NotNull == {"name", "superpower", "created_at", "updated_at", "owner_id", "is_draft", "is_locked"}

Defaulted == {"created_at", "updated_at", "is_draft", "is_locked"}

\* A hero as the revisions treat it: where its power is kept, and its owner.
Row == [id : 1..MaxRows, superpower : BOOLEAN, powers : BOOLEAN, owner : BOOLEAN]

Columns == UNION {Script[k].columns : k \in 1..Len(Script)}

Schema == [version : {0} \cup Revisions, columns : SUBSET Columns,
           required : SUBSET Columns, rows : SUBSET Row]

Empty == [version |-> 0, columns |-> {}, required |-> {}, rows |-> {}]

VARIABLES
    db,         \* what is committed: alembic_version, the columns, the rows
    image,      \* the version each process runs
    state,      \* "down", "migrating" or "serving"
    work,       \* what the transaction of a migrating process has made of db
    next,       \* the statement it executes next
    gone,       \* the rows its DELETE has removed
    held,       \* its lock of the table: "none", "row" or "table"
    queue,      \* the processes that wait for a lock of the table
    inserted,   \* heroes ever inserted
    deploys, crashes

vars == <<db, image, state, work, next, gone, held, queue, inserted, deploys, crashes, health>>

Init ==
    /\ db = Empty
    /\ image \in [Procs -> Images]
    /\ state = [p \in Procs |-> "down"]
    /\ work = [p \in Procs |-> Empty]
    /\ next = [p \in Procs |-> 0]
    /\ gone = [p \in Procs |-> {}]
    /\ held = [p \in Procs |-> "none"]
    /\ queue = <<>>
    /\ inserted = 0 /\ deploys = 0 /\ crashes = 0
    /\ HealthInit

TypeOK ==
    /\ db \in Schema
    /\ image \in [Procs -> Images]
    /\ state \in [Procs -> {"down", "migrating", "serving"}]
    /\ work \in [Procs -> Schema]
    /\ next \in [Procs -> 0..(Len(Script) + 1)]
    /\ gone \in [Procs -> SUBSET (1..MaxRows)]
    /\ held \in [Procs -> {"none", "row", "table"}]
    /\ queue \in BoundedSeq(Procs, Cardinality(Procs))
    /\ \A p \in Procs : state[p] # "migrating" =>
           work[p] = Empty /\ next[p] = 0 /\ gone[p] = {} /\ held[p] = "none"
    /\ HealthTypeOK
    /\ inserted \in 0..MaxRows /\ deploys \in 0..MaxDeploys /\ crashes \in 0..MaxCrashes

-----------------------------------------------------------------------------
(***************************************************************************)
(* The statements of the scripts.                                          *)
(***************************************************************************)

\* The statement is refused: what it makes exists, what it drops does not, or
\* a row has no value for a column that must have one.
Refused(t, s) ==
    \/ s.op \in {"create", "add"} /\ s.columns \cap t.columns # {}
    \/ s.op = "add" /\ t.rows # {} /\ s.columns \cap (NotNull \ Defaulted) # {}
    \/ s.op \in {"fill", "require", "drop", "relax"} /\ ~(s.columns \subseteq t.columns)
    \/ s.op = "require" /\ \E r \in t.rows : ~r.powers

\* The table after the statement.
Executed(t, s) ==
    CASE s.op \in {"create", "add"} ->
            [t EXCEPT !.columns = @ \cup s.columns, !.required = @ \cup (s.columns \cap NotNull)]
      [] s.op = "fill" ->
            [t EXCEPT !.rows = {[r EXCEPT !.powers = r.superpower] : r \in @}]
      [] s.op = "require" -> [t EXCEPT !.required = @ \cup s.columns]
      [] s.op = "drop" ->
            [t EXCEPT !.columns = @ \ s.columns, !.required = @ \ s.columns,
                      !.rows = {[r EXCEPT !.superpower = FALSE] : r \in @}]
      [] s.op = "delete" -> [t EXCEPT !.rows = {}]
      [] s.op = "relax" -> [t EXCEPT !.required = @ \ s.columns]

\* Revision 4 alone deletes rows; every other statement takes the table.
Lock(s) == IF s.op = "delete" THEN "row" ELSE "table"

Others(p) == Procs \ {p}

\* The version that alembic believes it has come to: it read the database's
\* once, at the start, and counts from there.
IsLast(s, k) == k = Len(Script) \/ Script[k + 1].revision # s.revision

-----------------------------------------------------------------------------
(***************************************************************************)
(* A process.                                                              *)
(***************************************************************************)
Leave(p, to) ==
    /\ state' = [state EXCEPT ![p] = to]
    /\ work' = [work EXCEPT ![p] = Empty]
    /\ next' = [next EXCEPT ![p] = 0]
    /\ gone' = [gone EXCEPT ![p] = {}]
    /\ held' = [held EXCEPT ![p] = "none"]
    /\ queue' = SelectSeq(queue, LAMBDA q : q # p)

\* Slip: a failed upgrade leaves its connection open.
FailWithoutClosing(p) ==
    /\ state' = [state EXCEPT ![p] = "down"]
    /\ work' = [work EXCEPT ![p] = Empty]
    /\ next' = [next EXCEPT ![p] = 0]
    /\ queue' = SelectSeq(queue, LAMBDA q : q # p)
    /\ UNCHANGED <<gone, held>>

\* An exception leaves begin_transaction and connect: rolled back, closed, and
\* the process ends.
Fail(p) == Leave(p, "down")

Pending(p) == {k \in 1..Len(Script) : Script[k].revision \in (db.version + 1)..image[p]}

\* Slip: the upgrade runs in the background of a server that has started.
StartServing(p) ==
    /\ state[p] = "down" /\ "database" \in up /\ db.version <= image[p]
    /\ Leave(p, "serving")
    /\ UNCHANGED <<db, image, inserted, deploys, crashes, health>>

\* lifespan calls _run_migrations, which reads the version.  A version that
\* the image does not know is an error, and the process does not start.
Start(p) ==
    /\ state[p] = "down" /\ "database" \in up /\ db.version <= image[p]
    /\ IF Pending(p) = {}
       THEN Leave(p, "serving")
       ELSE /\ state' = [state EXCEPT ![p] = "migrating"]
            /\ \E first \in Pending(p) : /\ \A k \in Pending(p) : first <= k
                                        /\ next' = [next EXCEPT ![p] = first]
            /\ UNCHANGED <<work, gone, held, queue>>
    /\ UNCHANGED <<db, image, inserted, deploys, crashes, health>>

HasStatement(p) == /\ state[p] = "migrating" /\ next[p] <= Len(Script)
                   /\ Script[next[p]].revision <= image[p]

NeedsLock(p) == HasStatement(p) /\ held[p] \notin {"table", Lock(Script[next[p]])}

\* A statement asks for the table, ahead of the others if it is an upgrade.
Ask(p) ==
    /\ NeedsLock(p) /\ ~Contains(queue, p)
    /\ queue' = IF held[p] = "row" THEN <<p>> \o queue ELSE Append(queue, p)
    /\ UNCHANGED <<db, image, state, work, next, gone, held, inserted, deploys, crashes, health>>

CanTake(p, mode) ==
    \A q \in Others(p) : held[q] = "none" \/ (mode = "row" /\ held[q] = "row")

\* A DELETE waits for the rows another transaction has deleted.
RowsAreFree(p) == \A q \in Others(p) : gone[q] = {}

DeleteRows(p) ==
    /\ gone' = [gone EXCEPT ![p] = {r.id : r \in db.rows}]
    /\ next' = [next EXCEPT ![p] = @ + 1]

\* A DELETE shares the table and removes the rows, or goes on to wait for them.
\* With the table to itself, a transaction works on what is committed by then
\* and what it has deleted before.
Acquire(p) ==
    LET mode == Lock(Script[next[p]]) IN
    /\ NeedsLock(p) /\ queue # <<>> /\ Head(queue) = p
    /\ CanTake(p, mode)
    /\ held' = [held EXCEPT ![p] = mode]
    /\ queue' = Tail(queue)
    /\ \/ /\ mode = "row" /\ UNCHANGED work
          /\ IF RowsAreFree(p) THEN DeleteRows(p) ELSE UNCHANGED <<gone, next>>
       \/ /\ mode = "table" /\ UNCHANGED <<gone, next>>
          /\ work' = [work EXCEPT ![p] = [db EXCEPT !.rows = {r \in @ : r.id \notin gone[p]}]]
    /\ UNCHANGED <<db, image, state, inserted, deploys, crashes, health>>

\* Slip: each statement is committed at once.
ExecuteAutocommit(p) ==
    LET s == Script[next[p]]
        t == IF IsLast(s, next[p]) THEN [Executed(db, s) EXCEPT !.version = s.revision]
                                   ELSE Executed(db, s) IN
    /\ HasStatement(p) /\ ~NeedsLock(p)
    /\ IF Refused(db, s) \/ (IsLast(s, next[p]) /\ db.version # s.revision - 1)
       THEN Fail(p) /\ UNCHANGED db
       ELSE /\ db' = t
            /\ work' = [work EXCEPT ![p] = t]
            /\ next' = [next EXCEPT ![p] = @ + 1]
            /\ UNCHANGED <<state, gone, held, queue>>
    /\ UNCHANGED <<image, inserted, deploys, crashes, health>>

\* Slip: the scripts pass over what exists already, and the version is set
\* whatever it was.
ExecuteAgain(p) ==
    LET s == Script[next[p]]
        t == Executed(work[p], s) IN
    /\ HasStatement(p) /\ ~NeedsLock(p)
    /\ \/ held[p] = "row" /\ RowsAreFree(p) /\ DeleteRows(p) /\ UNCHANGED work
       \/ /\ held[p] = "table"
          /\ work' = [work EXCEPT ![p] =
                 IF IsLast(s, next[p]) THEN [t EXCEPT !.version = s.revision] ELSE t]
          /\ next' = [next EXCEPT ![p] = @ + 1]
          /\ UNCHANGED gone
    /\ UNCHANGED <<db, image, state, held, queue, inserted, deploys, crashes, health>>

\* One statement; the last one of a revision is followed by the UPDATE of
\* alembic_version, which must match the version that was read at the start
\* and counted on from there.
Execute(p) ==
    LET s == Script[next[p]]
        t == Executed(work[p], s) IN
    /\ HasStatement(p) /\ ~NeedsLock(p)
    /\ \/ /\ held[p] = "row" /\ RowsAreFree(p)
          /\ DeleteRows(p)
          /\ UNCHANGED <<state, work, held, queue>>
       \/ /\ held[p] = "table"
          /\ IF Refused(work[p], s) \/ (IsLast(s, next[p]) /\ t.version # s.revision - 1)
             THEN Fail(p)
             ELSE /\ work' = [work EXCEPT ![p] =
                         IF IsLast(s, next[p]) THEN [t EXCEPT !.version = s.revision] ELSE t]
                  /\ next' = [next EXCEPT ![p] = @ + 1]
                  /\ UNCHANGED <<state, gone, held, queue>>
    /\ UNCHANGED <<db, image, inserted, deploys, crashes, health>>

\* begin_transaction commits; lifespan yields and the server takes requests.
Commit(p) ==
    /\ state[p] = "migrating" /\ ~HasStatement(p)
    /\ db' = work[p]
    /\ Leave(p, "serving")
    /\ UNCHANGED <<image, inserted, deploys, crashes, health>>

Waiting(p) == HasStatement(p) /\ ~NeedsLock(p) /\ held[p] = "row"     \* for rows

\* Two transactions share the table, and one of them wants it alone while the
\* other does too, or waits for its rows.  PostgreSQL ends the one that has
\* waited longer, as its deadlock_timeout passes first: the one that waits for
\* rows, or that was in the queue when the other went ahead of it.
Deadlock(p) ==
    /\ held[p] = "row"
    /\ \E q \in Others(p) :
          /\ held[q] = "row" /\ Contains(queue, q)
          /\ \/ Waiting(p) /\ gone[q] # {}
             \/ Contains(SubSeq(queue, 2, Len(queue)), p)
    /\ Fail(p)
    /\ UNCHANGED <<db, image, inserted, deploys, crashes, health>>

\* A request creates a hero with the columns the process's own model has; the
\* database may refuse it, and the table must not be locked.
Create(p) ==
    LET row == [id |-> inserted + 1, superpower |-> image[p] < 3, powers |-> image[p] >= 3,
                owner |-> image[p] >= 4]
        given == {"name", IF image[p] < 3 THEN "superpower" ELSE "powers"}
                   \cup (IF image[p] >= 4 THEN {"owner_id"} ELSE {}) IN
    /\ state[p] = "serving" /\ "database" \in up /\ inserted < MaxRows
    /\ queue = <<>> /\ \A q \in Procs : held[q] # "table"
    /\ given \subseteq db.columns /\ db.required \subseteq given \cup Defaulted
    /\ db' = [db EXCEPT !.rows = @ \cup {row}]
    /\ inserted' = inserted + 1
    /\ UNCHANGED <<image, state, work, next, gone, held, queue, deploys, crashes, health>>

\* The process dies; its connection closes and its transaction is rolled back.
Crash(p) ==
    /\ state[p] # "down" /\ crashes < MaxCrashes
    /\ crashes' = crashes + 1
    /\ Fail(p) /\ Unanswered(p)
    /\ UNCHANGED <<db, image, inserted, deploys>>

\* An operator replaces the process by another version, whatever it is doing.
Deploy(p) ==
    /\ deploys < MaxDeploys
    /\ \E h \in Images \ {image[p]} : image' = [image EXCEPT ![p] = h]
    /\ deploys' = deploys + 1
    /\ Fail(p) /\ Unanswered(p)
    /\ UNCHANGED <<db, inserted, crashes>>

\* The services of the probe; an outage of the database ends the transactions.
Outage(s) ==
    /\ GoesDown(s)
    /\ IF s = "database"
       THEN LET ended == {p \in Procs : state[p] = "migrating"} IN
            /\ state' = [p \in Procs |-> IF p \in ended THEN "down" ELSE state[p]]
            /\ work' = [p \in Procs |-> Empty] /\ next' = [p \in Procs |-> 0]
            /\ gone' = [p \in Procs |-> {}] /\ held' = [p \in Procs |-> "none"]
            /\ queue' = <<>>
       ELSE UNCHANGED <<state, work, next, gone, held, queue>>
    /\ UNCHANGED <<db, image, inserted, deploys, crashes>>

Recovery(s) ==
    /\ ComesBack(s)
    /\ UNCHANGED <<db, image, state, work, next, gone, held, queue, inserted, deploys, crashes>>

\* A process is probed once it serves: before, nobody accepts a connection.
ProbeStep ==
    /\ \/ \E p \in Procs : state[p] = "serving" /\ Probe(p)
       \/ \E s \in Services : Check(s)
       \/ Raise
    /\ UNCHANGED <<db, image, state, work, next, gone, held, queue, inserted, deploys, crashes>>

Next ==
    \/ \E p \in Procs : \/ Start(p) \/ Ask(p) \/ Acquire(p) \/ Execute(p) \/ Commit(p) \/ Deadlock(p)
                        \/ Create(p) \/ Crash(p) \/ Deploy(p)
    \/ \E s \in Services : Outage(s) \/ Recovery(s)
    \/ ProbeStep

\* The database goes on and comes back, and a process that ended is started
\* again: the platform's part, which the probes are for.
Fairness ==
    /\ WF_vars(Recovery("database"))
    /\ \A p \in Procs : /\ WF_vars(Start(p))
                       /\ WF_vars(Ask(p) \/ Acquire(p) \/ Execute(p) \/ Commit(p))
                       /\ WF_vars(Deadlock(p))

Spec == Init /\ [][Next]_vars /\ Fairness

-----------------------------------------------------------------------------
(***************************************************************************)
(* Properties.                                                             *)
(***************************************************************************)

\* "Starting the app against a database with pending migrations leaves the
\* schema fully migrated before the first request is served" (FR-0020),
\* whoever else starts, dies or migrates (main.py lifespan).
ServesItsSchema == \A p \in Procs : state[p] = "serving" => db.version >= image[p]

\* The columns of the mapped Hero and what it lets be null (models/hero.py,
\* models/mixins.py, models/base.py).
HeroColumns == {"name", "powers", "power_level", "owner_id", "archived_at", "is_draft",
                "publish_at", "unpublish_at", "is_locked", "created_at", "updated_at"}

HeroRequired == {"owner_id", "is_draft", "is_locked", "created_at", "updated_at"}

\* The version says what the schema is: nothing of a revision is ever
\* committed without the rest of it, and at the head the table is the one the
\* models are mapped to.
SchemaIsWhole ==
    /\ \A k \in 1..Len(Script) :
           Script[k].op \in {"create", "add"} =>
               \/ db.version >= Script[k].revision <=> Script[k].columns \subseteq db.columns
               \/ \E j \in 1..Len(Script) :     \* dropped since
                      /\ Script[j].op = "drop" /\ Script[j].revision <= db.version
                      /\ Script[k].columns \cap Script[j].columns # {}
    /\ db.version = Newest => db.columns = HeroColumns /\ db.required = HeroRequired

\* Revision 4 deletes the heroes that have no owner.  A process that comes too
\* late and runs the same DELETE against heroes that have one does not commit
\* it (4733a4dd6da9, env.py _do_run_migrations).
OwnedHeroesStay == [][\A r \in db.rows : r.owner => r \in db'.rows]_vars

\* A hero that is kept keeps its power through revision 3 (91807f3de5be).
PowersAreKept == \A r \in db.rows : IF db.version >= 3 THEN r.powers ELSE r.superpower

\* Starts that fail because of one another, of a crash or of a row inserted
\* between two statements are repeated, and in the end every process of the
\* last version serves.
AllEndUpServing == <>[](\A p \in Procs : image[p] = Newest => state[p] = "serving")

\* A probe that is answered 200 found every service within reach at some time
\* since it began, at a process whose schema is there: nothing older than the
\* probe counts (health/router.py ready).
ReadyIsEarned ==
    [][probe # NoProbe /\ probe' = NoProbe /\ answer' = 200 =>
          /\ probe.seen = Services
          /\ state[probe.process] = "serving" /\ db.version >= image[probe.process]]_vars

-----------------------------------------------------------------------------
(***************************************************************************)
(* What the repository says and the code does not keep.                    *)
(***************************************************************************)

\* "The system shall apply any pending Alembic migrations automatically ...
\* before serving traffic" (FR-0020): a start ends in serving, unless the
\* process dies or is replaced.
StartsSucceed ==
    [][\A p \in Procs : state[p] = "migrating" /\ state'[p] = "down" =>
           crashes' # crashes \/ deploys' # deploys \/ outages' # outages]_vars

\* "With any one dependency unhealthy, it returns 503" (FR-0011).
UnhealthyIs503 == [][probe # NoProbe /\ probe' = NoProbe => answer' # 500]_vars

=============================================================================
