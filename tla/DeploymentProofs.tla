-------------------------- MODULE DeploymentProofs --------------------------
(***************************************************************************)
(* For any set of processes, images and services and any bounds: a process *)
(* that serves finds its schema, a probe that is answered 200 has found    *)
(* every service within reach, and what is committed is always the schema  *)
(* its version says, with every hero's power and every owned hero in it.   *)
(*                                                                         *)
(* ServesItsSchema is not inductive: it rests on what a transaction has    *)
(* made of the version by the time it commits.  Exclusive says that nobody *)
(* else has a lock of the table while one holds it alone, so that what it  *)
(* commits is not older than what is committed (Onward); and Reaches says  *)
(* that a migrating process has a statement to execute or has come to the  *)
(* version of its image, because alembic_version is counted on from each   *)
(* revision to the next.  ProbeInv follows the probe under way, and DInv,  *)
(* further down, the table through the statements.                         *)
(***************************************************************************)
EXTENDS Deployment, TLAPS

Types ==
    /\ db \in Schema
    /\ image \in [Procs -> Images]
    /\ state \in [Procs -> {"down", "migrating", "serving"}]
    /\ work \in [Procs -> Schema]
    /\ next \in [Procs -> 0..12]
    /\ held \in [Procs -> {"none", "row", "table"}]
    /\ inserted \in 0..MaxRows

Exclusive ==
    \A p \in Procs : held[p] = "table" => \A q \in Procs \ {p} : held[q] = "none"

OnlyMigratingHold == \A p \in Procs : held[p] # "none" => state[p] = "migrating"

Onward == \A p \in Procs : held[p] = "table" => work[p].version >= db.version

Goes(p) == next[p] \in 1..11 /\ Script[next[p]].revision <= image[p]

Arrived(p) == held[p] = "table" /\ work[p].version >= image[p]

Reaches ==
    \A p \in Procs : state[p] = "migrating" => next[p] \in 1..12 /\ (Goes(p) \/ Arrived(p))

IInv == Types /\ Exclusive /\ OnlyMigratingHold /\ Onward /\ Reaches /\ ServesItsSchema

-----------------------------------------------------------------------------
\* The eleven statements.
LEMMA ScriptRows ==
    /\ Len(Script) = 11
    /\ Script[1].revision = 1 /\ Script[2].revision = 2 /\ Script[3].revision = 3
    /\ Script[4].revision = 3 /\ Script[5].revision = 3 /\ Script[6].revision = 3
    /\ Script[7].revision = 4 /\ Script[8].revision = 4 /\ Script[9].revision = 5
    /\ Script[10].revision = 5 /\ Script[11].revision = 6
    /\ Script[1].op = "create" /\ Script[2].op = "add" /\ Script[3].op = "add"
    /\ Script[4].op = "fill" /\ Script[5].op = "require" /\ Script[6].op = "drop"
    /\ Script[7].op = "delete" /\ Script[8].op = "add" /\ Script[9].op = "add"
    /\ Script[10].op = "relax" /\ Script[11].op = "add"
BY DEF Script, Statement, CreateHeroes, AddTimestamps, AddPowers, FillPowers,
       RequirePowers, DropSuperpower, DeleteHeroes, AddOwner, AddLifecycle, RelaxContent, AddPowerLevel

LEMMA ScriptColumns ==
    /\ Script[1].columns = {"name", "superpower"}
    /\ Script[2].columns = {"created_at", "updated_at"}
    /\ Script[3].columns = {"powers"}
    /\ Script[4].columns = {"powers"}
    /\ Script[5].columns = {"powers"}
    /\ Script[6].columns = {"superpower"}
    /\ Script[7].columns = {}
    /\ Script[8].columns = {"owner_id"}
    /\ Script[9].columns = {"archived_at", "is_draft", "publish_at", "unpublish_at", "is_locked"}
    /\ Script[10].columns = {"name", "powers"}
    /\ Script[11].columns = {"power_level"}
BY DEF Script, Statement, CreateHeroes, AddTimestamps, AddPowers, FillPowers,
       RequirePowers, DropSuperpower, DeleteHeroes, AddOwner, AddLifecycle, RelaxContent, AddPowerLevel

\* What the six revisions are like: eleven statements, in the order of their
\* revisions, none of which is left out, and the DELETE is followed by another
\* statement of its revision.
LEMMA ScriptFacts ==
    /\ Len(Script) = 11
    /\ \A k \in 1..11 : /\ Script[k].revision \in 1..6
                        /\ Script[k].op \in {"create", "add", "fill", "require", "drop", "delete", "relax"}
                        /\ Script[k].columns \in SUBSET Columns
                        /\ Script[k].op = "delete" => k + 1 \in 1..11 /\ Script[k + 1].revision = Script[k].revision
    /\ \A k \in 1..10 : Script[k + 1].revision \in {Script[k].revision, Script[k].revision + 1}
    /\ Script[11].revision = 6
    /\ \A r \in 1..6 : \E k \in 1..11 : Script[k].revision = r
<1> DEFINE Ops == {"create", "add", "fill", "require", "drop", "delete", "relax"}
<1>1. Len(Script) = 11
    BY ScriptRows
<1>2. \A k \in 1..11 : Script[k].columns \in SUBSET Columns
    BY <1>1 DEF Columns
<1>3. \A k \in 1..11 : k = 1 \/ k = 2 \/ k = 3 \/ k = 4 \/ k = 5 \/ k = 6 \/ k = 7 \/ k = 8
                         \/ k = 9 \/ k = 10 \/ k = 11
    OBVIOUS
<1>4. \A k \in 1..11 : Script[k].revision \in 1..6
    BY ScriptRows, <1>3
<1>5. \A k \in 1..11 : Script[k].op \in Ops
    BY ScriptRows, <1>3
<1>6. \A k \in 1..11 :
          Script[k].op = "delete" => k + 1 \in 1..11 /\ Script[k + 1].revision = Script[k].revision
    BY ScriptRows, <1>3
<1>7. \A k \in 1..10 : Script[k + 1].revision \in {Script[k].revision, Script[k].revision + 1}
    <2> SUFFICES ASSUME NEW k \in 1..10
                 PROVE  Script[k + 1].revision \in {Script[k].revision, Script[k].revision + 1}
        OBVIOUS
    <2>1. k = 1 \/ k = 2 \/ k = 3 \/ k = 4 \/ k = 5 \/ k = 6 \/ k = 7 \/ k = 8 \/ k = 9 \/ k = 10
        OBVIOUS
    <2> QED
        BY ScriptRows, <2>1
<1>8. \A r \in 1..6 : \E k \in 1..11 : Script[k].revision = r
    <2> SUFFICES ASSUME NEW r \in 1..6
                 PROVE  \E k \in 1..11 : Script[k].revision = r
        OBVIOUS
    <2>1. r = 1 \/ r = 2 \/ r = 3 \/ r = 4 \/ r = 5 \/ r = 6
        OBVIOUS
    <2>2. 1 \in 1..11 /\ 2 \in 1..11 /\ 3 \in 1..11 /\ 7 \in 1..11 /\ 9 \in 1..11 /\ 11 \in 1..11
        OBVIOUS
    <2> QED
        BY ScriptRows, <2>1, <2>2
<1> QED
    BY ScriptRows, <1>2, <1>4, <1>5, <1>6, <1>7, <1>8

\* A statement keeps a table a table, and its version.
LEMMA ExecutedIsTable ==
    ASSUME NEW t \in Schema, NEW k \in 1..11
    PROVE  Executed(t, Script[k]) \in Schema /\ Executed(t, Script[k]).version = t.version
<1> DEFINE s == Script[k]
<1>1. s.op \in {"create", "add", "fill", "require", "drop", "delete", "relax"}
      /\ s.columns \in SUBSET Columns
    BY ScriptFacts
<1> HIDE DEF s
<1>2. \A r \in Row : /\ [r EXCEPT !.powers = r.superpower] \in Row
                     /\ [r EXCEPT !.superpower = FALSE] \in Row
    BY DEF Row
<1>3. CASE s.op \in {"create", "add"}
    <2>1. Executed(t, s) = [t EXCEPT !.columns = @ \cup s.columns,
                                     !.required = @ \cup (s.columns \cap NotNull)]
        BY <1>3 DEF Executed
    <2> QED
        <3>1. t.columns \cup s.columns \in SUBSET Columns
            BY <1>1 DEF Schema
        <3>2. t.required \cup (s.columns \cap NotNull) \in SUBSET Columns
            BY <1>1 DEF Schema
        <3>3. Executed(t, s) \in Schema /\ Executed(t, s).version = t.version
            BY <2>1, <3>1, <3>2 DEF Schema
        <3> QED
            BY <3>3 DEF s
<1>4. CASE s.op = "fill"
    <2>1. Executed(t, s) = [t EXCEPT !.rows = {[r EXCEPT !.powers = r.superpower] : r \in @}]
        BY <1>4 DEF Executed
    <2>2. {[r EXCEPT !.powers = r.superpower] : r \in t.rows} \in SUBSET Row
        BY <1>2 DEF Schema
    <2> QED
        BY <2>1, <2>2 DEF Schema, s
<1>5. CASE s.op = "require"
    <2>1. Executed(t, s) = [t EXCEPT !.required = @ \cup s.columns]
        BY <1>5 DEF Executed
    <2> QED
        BY <2>1, <1>1 DEF Schema, s
<1>6. CASE s.op = "drop"
    <2>1. Executed(t, s) = [t EXCEPT !.columns = @ \ s.columns, !.required = @ \ s.columns,
                                     !.rows = {[r EXCEPT !.superpower = FALSE] : r \in @}]
        BY <1>6 DEF Executed
    <2>2. {[r EXCEPT !.superpower = FALSE] : r \in t.rows} \in SUBSET Row
        BY <1>2 DEF Schema
    <2> QED
        BY <2>1, <2>2 DEF Schema, s
<1>7. CASE s.op = "delete"
    <2>1. Executed(t, s) = [t EXCEPT !.rows = {}]
        BY <1>7 DEF Executed
    <2> QED
        BY <2>1 DEF Schema, s
<1>8. CASE s.op = "relax"
    <2>1. Executed(t, s) = [t EXCEPT !.required = @ \ s.columns]
        BY <1>8 DEF Executed
    <2> QED
        BY <2>1 DEF Schema, s
<1> QED
    BY <1>1, <1>3, <1>4, <1>5, <1>6, <1>7, <1>8

-----------------------------------------------------------------------------
\* A process that gives up its locks and ends, or starts to serve where the
\* schema allows it, disturbs nobody.
LEMMA LeaveKeeps ==
    ASSUME IInv, NEW p \in Procs, NEW to \in {"down", "serving"}, Leave(p, to),
           to = "serving" => db.version >= image[p], UNCHANGED <<db, image, inserted>>
    PROVE  IInv'
<1>1. Types'
    BY DEF IInv, Types, Leave, Schema, Empty
<1>2. Exclusive' /\ OnlyMigratingHold' /\ Onward'
    BY DEF IInv, Types, Leave, Exclusive, OnlyMigratingHold, Onward
<1>3. Reaches' /\ ServesItsSchema'
    BY DEF IInv, Types, Leave, Reaches, Goes, Arrived, ServesItsSchema
<1> QED
    BY <1>1, <1>2, <1>3 DEF IInv

\* Another version for a process that ends.
LEMMA ReplacedKeeps ==
    ASSUME IInv, NEW p \in Procs, Leave(p, "down"), NEW h \in Images,
           image' = [image EXCEPT ![p] = h], UNCHANGED <<db, inserted>>
    PROVE  IInv'
<1>1. Types'
    BY DEF IInv, Types, Leave, Schema, Empty
<1>2. Exclusive' /\ OnlyMigratingHold' /\ Onward'
    BY DEF IInv, Types, Leave, Exclusive, OnlyMigratingHold, Onward
<1>3. Reaches' /\ ServesItsSchema'
    BY DEF IInv, Types, Leave, Reaches, Goes, Arrived, ServesItsSchema
<1> QED
    BY <1>1, <1>2, <1>3 DEF IInv

LEMMA StartKeeps == ASSUME IInv, NEW p \in Procs, Start(p) PROVE IInv'
<1> USE DeploymentAssumption
<1>1. image[p] \in 1..6 /\ db.version \in 0..6 /\ db.version <= image[p]
    <2>1. image[p] \in 1..6
        BY DEF IInv, Types, Revisions
    <2>2. db.version \in 0..6
        BY DEF IInv, Types, Schema, Revisions
    <2>3. db.version <= image[p]
        BY DEF Start
    <2> QED
        BY <2>1, <2>2, <2>3
<1>2. CASE Pending(p) = {}
    <2>1. db.version >= image[p]
        <3>1. \A k \in 1..11 : Script[k].revision \notin (db.version + 1)..image[p]
            BY <1>2, ScriptFacts DEF Pending
        <3>2. PICK k \in 1..11 : Script[k].revision = image[p]
            BY <1>1, ScriptFacts
        <3> QED
            BY <1>1, <3>1, <3>2
    <2>2. Leave(p, "serving") /\ UNCHANGED <<db, image, inserted>>
        BY <1>2 DEF Start
    <2> QED
        BY <2>1, <2>2, LeaveKeeps
<1>3. CASE Pending(p) # {}
    <2>1. PICK first \in Pending(p) :
              /\ next' = [next EXCEPT ![p] = first]
              /\ state' = [state EXCEPT ![p] = "migrating"]
              /\ UNCHANGED <<work, held, db, image, inserted>>
        BY <1>3 DEF Start
    <2>2. first \in 1..11 /\ Script[first].revision <= image[p]
        BY <1>1, ScriptFacts DEF Pending
    <2>3. Types'
        BY <2>1, <2>2 DEF IInv, Types
    <2>4. Exclusive' /\ OnlyMigratingHold' /\ Onward' /\ ServesItsSchema'
        BY <2>1 DEF IInv, Types, Exclusive, OnlyMigratingHold, Onward, ServesItsSchema
    <2>5. Reaches'
        BY <2>1, <2>2 DEF IInv, Types, Reaches, Goes, Arrived
    <2> QED
        BY <2>3, <2>4, <2>5 DEF IInv
<1> QED
    BY <1>2, <1>3

\* A process that has a statement to run is migrating, to that statement.
LEMMA UnderWay ==
    ASSUME IInv, NEW p \in Procs, HasStatement(p)
    PROVE  /\ state[p] = "migrating" /\ next[p] \in 1..11
           /\ Script[next[p]].revision <= image[p]
<1>1. state[p] = "migrating" /\ next[p] <= 11 /\ Script[next[p]].revision <= image[p]
    BY ScriptFacts DEF HasStatement
<1>2. next[p] \in 1..12
    BY <1>1 DEF IInv, Reaches
<1> QED
    BY <1>1, <1>2

\* A lock is taken when nobody holds one it excludes, and what its holder works
\* on is what is committed.
LEMMA AcquireKeeps == ASSUME IInv, NEW p \in Procs, Acquire(p) PROVE IInv'
<1> DEFINE s == Script[next[p]]
<1>1. /\ state[p] = "migrating" /\ next[p] \in 1..11 /\ s.revision <= image[p]
      /\ CanTake(p, Lock(s)) /\ held' = [held EXCEPT ![p] = Lock(s)]
      /\ UNCHANGED <<db, image, state, inserted>>
    <2>1. HasStatement(p)
        BY DEF Acquire, NeedsLock
    <2>2. state[p] = "migrating" /\ next[p] \in 1..11 /\ Script[next[p]].revision <= image[p]
        BY <2>1, UnderWay
    <2> QED
        BY <2>1, <2>2 DEF Acquire, NeedsLock
<1>2. CASE Lock(s) = "table"
    <2>1. /\ work' = [work EXCEPT ![p] = [db EXCEPT !.rows = {r \in @ : r.id \notin gone[p]}]]
          /\ UNCHANGED next
        BY <1>2 DEF Acquire
    <2>2. /\ [db EXCEPT !.rows = {r \in @ : r.id \notin gone[p]}] \in Schema
          /\ [db EXCEPT !.rows = {r \in @ : r.id \notin gone[p]}].version = db.version
        BY DEF IInv, Types, Schema
    <2>3. \A q \in Procs \ {p} : held[q] = "none"
        BY <1>1, <1>2 DEF CanTake, Others
    <2>4. Types'
        BY <1>1, <1>2, <2>1, <2>2 DEF IInv, Types
    <2>5. Exclusive' /\ OnlyMigratingHold'
        BY <1>1, <1>2, <2>3 DEF IInv, Types, Exclusive, OnlyMigratingHold
    <2>6. Onward'
        BY <1>1, <2>1, <2>2, <2>3 DEF IInv, Types, Schema, Revisions, Onward
    <2>7. Reaches' /\ ServesItsSchema'
        BY <1>1, <2>1, <2>3 DEF IInv, Types, Reaches, Goes, Arrived, ServesItsSchema
    <2> QED
        BY <2>4, <2>5, <2>6, <2>7 DEF IInv
<1>3. CASE Lock(s) = "row"
    <2>1. s.op = "delete"
        BY <1>3 DEF Lock
    <2>2. next[p] + 1 \in 1..11 /\ Script[next[p] + 1].revision = s.revision
        BY <1>1, <2>1, ScriptFacts
    <2>3. UNCHANGED work /\ (UNCHANGED next \/ next' = [next EXCEPT ![p] = @ + 1])
        BY <1>3 DEF Acquire, DeleteRows
    <2>4. \A q \in Procs \ {p} : held[q] # "table"
        BY <1>1, <1>3 DEF CanTake, Others
    <2>5. Types'
        BY <1>1, <1>3, <2>2, <2>3 DEF IInv, Types
    <2>6. Exclusive' /\ OnlyMigratingHold' /\ Onward' /\ ServesItsSchema'
        BY <1>1, <1>3, <2>3, <2>4 DEF IInv, Types, Exclusive, OnlyMigratingHold, Onward, ServesItsSchema
    <2>7. Reaches'
        BY <1>1, <1>3, <2>2, <2>3, <2>4 DEF IInv, Types, Reaches, Goes, Arrived
    <2> QED
        BY <2>5, <2>6, <2>7 DEF IInv
<1> QED
    BY <1>2, <1>3 DEF Lock

\* A statement that is not refused moves on within its revision, or ends it with
\* the version counted on from the last.
LEMMA ExecuteKeeps == ASSUME IInv, NEW p \in Procs, Execute(p) PROVE IInv'
<1> DEFINE k == next[p]
           s == Script[k]
           t == Executed(work[p], s)
<1> USE DeploymentAssumption
<1>1. /\ state[p] = "migrating" /\ k \in 1..11 /\ s.revision <= image[p]
      /\ held[p] \in {"table", Lock(s)} /\ UNCHANGED <<db, image, inserted>>
    <2>1. HasStatement(p)
        BY DEF Execute, NeedsLock
    <2>2. state[p] = "migrating" /\ next[p] \in 1..11 /\ Script[next[p]].revision <= image[p]
        BY <2>1, UnderWay
    <2> QED
        BY <2>1, <2>2 DEF Execute, NeedsLock
<1>2. image[p] \in 1..6 /\ s.revision \in 1..6 /\ work[p] \in Schema
    BY <1>1, ScriptFacts DEF IInv, Types, Revisions
<1>3. CASE held[p] = "row"
    <2>1. s.op = "delete"
        BY <1>1, <1>3 DEF Lock
    <2>2. k + 1 \in 1..11 /\ Script[k + 1].revision = s.revision
        BY <1>1, <2>1, ScriptFacts
    <2>3. next' = [next EXCEPT ![p] = k + 1] /\ UNCHANGED <<state, work, held>>
        BY <1>3 DEF Execute, DeleteRows
    <2>4. Types'
        BY <1>1, <2>2, <2>3 DEF IInv, Types
    <2>5. Exclusive' /\ OnlyMigratingHold' /\ Onward' /\ ServesItsSchema'
        BY <1>1, <2>3 DEF IInv, Types, Exclusive, OnlyMigratingHold, Onward, ServesItsSchema
    <2>6. Reaches'
        BY <1>1, <2>2, <2>3 DEF IInv, Types, Reaches, Goes, Arrived
    <2> QED
        BY <2>4, <2>5, <2>6 DEF IInv
<1>4. CASE held[p] = "table" /\ Fail(p)
    BY <1>1, <1>4, LeaveKeeps DEF Fail
<1>5. CASE held[p] = "table" /\ ~Fail(p)
    <2> DEFINE new == IF IsLast(s, k) THEN [t EXCEPT !.version = s.revision] ELSE t
    <2>1. /\ IsLast(s, k) => t.version = s.revision - 1
          /\ work' = [work EXCEPT ![p] = new]
          /\ next' = [next EXCEPT ![p] = k + 1]
          /\ UNCHANGED <<state, held>>
        BY <1>5 DEF Execute
    <2>2. t \in Schema /\ t.version = work[p].version
        BY <1>1, <1>2, ExecutedIsTable
    <2>3. new \in Schema /\ new.version = IF IsLast(s, k) THEN s.revision ELSE t.version
        BY <1>2, <2>2 DEF Schema, Revisions
    <2> HIDE DEF new, t
    <2>4. new.version >= work[p].version
        BY <1>2, <2>1, <2>2, <2>3 DEF Schema, Revisions
    <2>5. \/ k + 1 \in 1..11 /\ Script[k + 1].revision <= image[p]
          \/ new.version >= image[p]
        <3>1. CASE k = 11
            BY <1>2, <2>3, <3>1, ScriptFacts DEF IsLast
        <3>2. CASE k # 11 /\ Script[k + 1].revision > image[p]
            <4>1. Script[k + 1].revision \in {s.revision, s.revision + 1}
                BY <1>1, <3>2, ScriptFacts
            <4>2. IsLast(s, k)
                BY <1>1, <1>2, <3>2, <4>1 DEF IsLast
            <4> QED
                BY <1>1, <1>2, <2>3, <3>2, <4>1, <4>2
        <3>3. CASE k # 11 /\ ~(Script[k + 1].revision > image[p])
            <4>1. k + 1 \in 1..11 /\ Script[k + 1].revision \in 1..6
                BY <1>1, <3>3, ScriptFacts
            <4> QED
                BY <1>2, <3>3, <4>1
        <3> QED
            BY <3>1, <3>2, <3>3
    <2>6. Types'
        BY <1>1, <2>1, <2>3 DEF IInv, Types
    <2>7. Exclusive' /\ OnlyMigratingHold' /\ ServesItsSchema'
        BY <1>1, <2>1 DEF IInv, Types, Exclusive, OnlyMigratingHold, ServesItsSchema
    <2>8. Onward'
        BY <1>1, <2>1, <2>3, <2>4, SMTT(30) DEF IInv, Types, Schema, Revisions, Onward
    <2>9. Reaches'
        BY <1>1, <1>5, <2>1, <2>3, <2>5 DEF IInv, Types, Reaches, Goes, Arrived
    <2> QED
        BY <2>6, <2>7, <2>8, <2>9 DEF IInv
<1>6. held[p] = "row" \/ held[p] = "table"
    BY <1>1 DEF Lock
<1> QED
    BY <1>3, <1>4, <1>5, <1>6

\* Who has come to the end of its revisions holds the table, so that what it
\* commits is the newest version there is, and its own image's.
LEMMA CommitKeeps == ASSUME IInv, NEW p \in Procs, Commit(p) PROVE IInv'
<1> USE DeploymentAssumption
<1>1. state[p] = "migrating" /\ ~HasStatement(p) /\ db' = work[p] /\ UNCHANGED <<image, inserted>>
    BY DEF Commit
<1>2. Leave(p, "serving")
    BY DEF Commit
<1>3. held[p] = "table" /\ work[p].version >= image[p]
    BY <1>1, ScriptFacts DEF HasStatement, IInv, Reaches, Goes, Arrived
<1>4. work[p] \in Schema /\ work[p].version \in 0..6 /\ db.version \in 0..6
    BY DEF IInv, Types, Schema, Revisions
<1>5. work[p].version >= db.version
    BY <1>3 DEF IInv, Onward
<1>6. Types'
    BY <1>1, <1>2, <1>4 DEF IInv, Types, Leave, Schema, Empty
<1>7. \A q \in Procs : held'[q] = "none"
    BY <1>2, <1>3 DEF IInv, Types, Exclusive, Leave
<1>8. Exclusive' /\ OnlyMigratingHold' /\ Onward'
    BY <1>7 DEF Exclusive, OnlyMigratingHold, Onward
<1>9. Reaches'
    BY <1>1, <1>2, <1>3 DEF IInv, Types, Exclusive, Reaches, Goes, Arrived, Leave
<1>10. ServesItsSchema'
    <2> SUFFICES ASSUME NEW q \in Procs, state'[q] = "serving" PROVE db'.version >= image'[q]
        BY DEF ServesItsSchema
    <2>1. image[q] \in 1..6
        BY DEF IInv, Types, Revisions
    <2>2. CASE q = p
        BY <1>1, <1>3, <2>2
    <2>3. CASE q # p
        <3>1. db.version >= image[q]
            BY <1>2, <2>3 DEF IInv, Types, ServesItsSchema, Leave
        <3> QED
            BY <1>1, <1>4, <1>5, <2>1, <3>1
    <2> QED
        BY <2>2, <2>3
<1> QED
    BY <1>6, <1>8, <1>9, <1>10 DEF IInv

LEMMA CreateKeeps == ASSUME IInv, NEW p \in Procs, Create(p) PROVE IInv'
<1> USE DeploymentAssumption
<1> DEFINE row == [id |-> inserted + 1, superpower |-> image[p] < 3, powers |-> image[p] >= 3,
                   owner |-> image[p] >= 4]
<1>1. /\ inserted' = inserted + 1 /\ inserted < MaxRows
      /\ UNCHANGED <<image, state, work, next, held>>
      /\ \A q \in Procs : held[q] # "table"
      /\ db' = [db EXCEPT !.rows = @ \cup {row}]
    BY DEF Create
<1>2. row \in Row /\ inserted' \in 0..MaxRows
    <2>1. inserted \in 0..MaxRows
        BY DEF IInv, Types
    <2>2. inserted + 1 \in 1..MaxRows
        BY <1>1, <2>1
    <2> QED
        BY <1>1, <2>2 DEF Row
<1>3. db' \in Schema /\ db'.version = db.version
    BY <1>1, <1>2 DEF IInv, Types, Schema
<1>4. Types'
    BY <1>1, <1>2, <1>3 DEF IInv, Types
<1>5. Exclusive' /\ OnlyMigratingHold' /\ Onward' /\ Reaches' /\ ServesItsSchema'
    BY <1>1, <1>3 DEF IInv, Exclusive, OnlyMigratingHold, Onward, Reaches, Goes, Arrived, ServesItsSchema
<1> QED
    BY <1>4, <1>5 DEF IInv

LEMMA OutageKeeps == ASSUME IInv, NEW s \in Services, Outage(s) PROVE IInv'
<1>1. CASE s = "database"
    <2>1. /\ state' = [p \in Procs |-> IF state[p] = "migrating" THEN "down" ELSE state[p]]
          /\ work' = [p \in Procs |-> Empty] /\ next' = [p \in Procs |-> 0]
          /\ held' = [p \in Procs |-> "none"] /\ UNCHANGED <<db, image, inserted>>
        BY <1>1 DEF Outage
    <2>2. Empty \in Schema
        BY DEF Empty, Schema
    <2>3. Types'
        BY <2>1, <2>2 DEF IInv, Types
    <2>4. Exclusive' /\ OnlyMigratingHold' /\ Onward' /\ Reaches' /\ ServesItsSchema'
        BY <2>1 DEF IInv, Types, Exclusive, OnlyMigratingHold, Onward, Reaches, ServesItsSchema
    <2> QED
        BY <2>3, <2>4 DEF IInv
<1>2. CASE s # "database"
    <2>1. UNCHANGED <<db, image, state, work, next, held, inserted>>
        BY <1>2 DEF Outage
    <2> QED
        BY <2>1 DEF IInv, Types, Exclusive, OnlyMigratingHold, Onward, Reaches, Goes, Arrived, ServesItsSchema
<1> QED
    BY <1>1, <1>2

LEMMA UntouchedKeeps ==
    ASSUME IInv, UNCHANGED <<db, image, state, work, next, held, inserted>>
    PROVE  IInv'
BY DEF IInv, Types, Exclusive, OnlyMigratingHold, Onward, Reaches, Goes, Arrived, ServesItsSchema


LEMMA InitHolds == Init => IInv
<1> SUFFICES ASSUME Init PROVE IInv
    OBVIOUS
<1>1. Empty \in Schema
    BY DEF Empty, Schema
<1>2. Types
    BY <1>1, DeploymentAssumption DEF Init, Types
<1>3. Exclusive /\ OnlyMigratingHold /\ Onward /\ Reaches /\ ServesItsSchema
    BY DEF Init, Exclusive, OnlyMigratingHold, Onward, Reaches, ServesItsSchema
<1> QED
    BY <1>2, <1>3 DEF IInv

LEMMA NextKeeps == IInv /\ [Next]_vars => IInv'
<1> SUFFICES ASSUME IInv, [Next]_vars PROVE IInv'
    OBVIOUS
<1>1. ASSUME NEW p \in Procs, Start(p) PROVE IInv'
    BY <1>1, StartKeeps
<1>2. ASSUME NEW p \in Procs, Ask(p) PROVE IInv'
    BY <1>2, UntouchedKeeps DEF Ask
<1>3. ASSUME NEW p \in Procs, Acquire(p) PROVE IInv'
    BY <1>3, AcquireKeeps
<1>4. ASSUME NEW p \in Procs, Execute(p) PROVE IInv'
    BY <1>4, ExecuteKeeps
<1>5. ASSUME NEW p \in Procs, Commit(p) PROVE IInv'
    BY <1>5, CommitKeeps
<1>6. ASSUME NEW p \in Procs, Deadlock(p) PROVE IInv'
    BY <1>6, LeaveKeeps DEF Deadlock, Fail
<1>7. ASSUME NEW p \in Procs, Create(p) PROVE IInv'
    BY <1>7, CreateKeeps
<1>8. ASSUME NEW p \in Procs, Crash(p) PROVE IInv'
    BY <1>8, LeaveKeeps DEF Crash, Fail
<1>9. ASSUME NEW p \in Procs, Deploy(p) PROVE IInv'
    <2>1. PICK h \in Images : image' = [image EXCEPT ![p] = h]
        BY <1>9 DEF Deploy
    <2> QED
        BY <1>9, <2>1, ReplacedKeeps DEF Deploy, Fail
<1>10. ASSUME NEW s \in Services, Outage(s) PROVE IInv'
    BY <1>10, OutageKeeps
<1>11. ASSUME NEW s \in Services, Recovery(s) PROVE IInv'
    BY <1>11, UntouchedKeeps DEF Recovery
<1>12. CASE ProbeStep
    BY <1>12, UntouchedKeeps DEF ProbeStep
<1>13. CASE UNCHANGED vars
    BY <1>13, UntouchedKeeps DEF vars
<1> QED
    BY <1>1, <1>2, <1>3, <1>4, <1>5, <1>6, <1>7, <1>8, <1>9, <1>10, <1>11, <1>12, <1>13 DEF Next

\* Whoever starts, dies, is replaced or migrates at the same time, a process
\* serves only when the schema its image needs is committed (main.py lifespan).
THEOREM ServesSchema == Spec => []ServesItsSchema
<1>1. IInv => ServesItsSchema
    BY DEF IInv
<1> QED
    BY InitHolds, NextKeeps, <1>1, PTL DEF Spec

-----------------------------------------------------------------------------
\* A probe under way is at a process that serves, and has not missed a service
\* that could be reached.
ProbeInv ==
    /\ up \in SUBSET Services
    /\ probe # NoProbe =>
           /\ probe \in [process : Procs, pending : SUBSET Services,
                         unhealthy : SUBSET Services, seen : SUBSET Services]
           /\ state[probe.process] = "serving"
           /\ up \in SUBSET probe.seen
           /\ probe.unhealthy = {} => \A s \in Services \ probe.pending : s \in probe.seen

\* What the migrations do leaves a process that serves alone.
LEMMA MigrationKeepsProbe ==
    ASSUME ProbeInv, UNCHANGED health,
           \A p \in Procs : state[p] = "serving" => state'[p] = "serving"
    PROVE  ProbeInv'
BY DEF ProbeInv, health, NoProbe

\* A process that ends takes the probe at it with it.
LEMMA EndKeepsProbe ==
    ASSUME IInv, ProbeInv, NEW p \in Procs, Leave(p, "down"), Unanswered(p)
    PROVE  ProbeInv'
<1>1. CASE probe.process = p
    BY <1>1 DEF ProbeInv, Unanswered
<1>2. CASE probe.process # p
    BY <1>2 DEF IInv, Types, ProbeInv, Unanswered, Leave, NoProbe
<1> QED
    BY <1>1, <1>2

LEMMA CheckKeepsProbe ==
    ASSUME ProbeInv, NEW s \in Services, Check(s), UNCHANGED state
    PROVE  ProbeInv'
<1>1. CASE probe.pending = {s}
    BY <1>1 DEF ProbeInv, Check
<1>2. CASE probe.pending # {s}
    <2> DEFINE bad == IF s \in up THEN probe.unhealthy ELSE probe.unhealthy \cup {s}
    <2>1. /\ probe' = [probe EXCEPT !.pending = @ \ {s}, !.unhealthy = bad]
          /\ s \in probe.pending /\ UNCHANGED up
        BY <1>2 DEF Check
    <2>2. probe # NoProbe
        BY <2>1 DEF NoProbe
    <2>3. bad = {} => probe.unhealthy = {} /\ s \in up
        OBVIOUS
    <2> QED
        BY <2>1, <2>2, <2>3 DEF ProbeInv
<1> QED
    BY <1>1, <1>2

LEMMA ProbeInit == Init => ProbeInv
BY DEF Init, HealthInit, ProbeInv

LEMMA ProbeNext == IInv /\ ProbeInv /\ [Next]_vars => ProbeInv'
<1> SUFFICES ASSUME IInv, ProbeInv, [Next]_vars PROVE ProbeInv'
    OBVIOUS
<1>1. ASSUME NEW p \in Procs, Start(p) PROVE ProbeInv'
    <2>1. UNCHANGED health
        BY <1>1 DEF Start
    <2>2. \A q \in Procs : state[q] = "serving" => state'[q] = "serving"
        BY <1>1 DEF Start, Leave, IInv, Types
    <2> QED
        BY <2>1, <2>2, MigrationKeepsProbe
<1>2. ASSUME NEW p \in Procs, Ask(p) PROVE ProbeInv'
    BY <1>2, MigrationKeepsProbe DEF Ask
<1>3. ASSUME NEW p \in Procs, Acquire(p) PROVE ProbeInv'
    BY <1>3, MigrationKeepsProbe DEF Acquire
<1>4. ASSUME NEW p \in Procs, Execute(p) PROVE ProbeInv'
    <2>1. UNCHANGED health /\ state[p] = "migrating"
        BY <1>4 DEF Execute, HasStatement
    <2>2. UNCHANGED state \/ state' = [state EXCEPT ![p] = "down"]
        BY <1>4 DEF Execute, Fail, Leave
    <2>3. \A q \in Procs : state[q] = "serving" => state'[q] = "serving"
        BY <2>1, <2>2 DEF IInv, Types
    <2> QED
        BY <2>1, <2>3, MigrationKeepsProbe
<1>5. ASSUME NEW p \in Procs, Commit(p) PROVE ProbeInv'
    <2>1. \A q \in Procs : state[q] = "serving" => state'[q] = "serving"
        BY <1>5 DEF Commit, Leave, IInv, Types
    <2> QED
        BY <1>5, <2>1, MigrationKeepsProbe DEF Commit
<1>6. ASSUME NEW p \in Procs, Deadlock(p) PROVE ProbeInv'
    <2>1. state[p] = "migrating"
        BY <1>6 DEF Deadlock, IInv, OnlyMigratingHold
    <2>2. \A q \in Procs : state[q] = "serving" => state'[q] = "serving"
        BY <1>6, <2>1 DEF Deadlock, Fail, Leave, IInv, Types
    <2> QED
        BY <1>6, <2>2, MigrationKeepsProbe DEF Deadlock
<1>7. ASSUME NEW p \in Procs, Create(p) PROVE ProbeInv'
    BY <1>7, MigrationKeepsProbe DEF Create
<1>8. ASSUME NEW p \in Procs, Crash(p) PROVE ProbeInv'
    BY <1>8, EndKeepsProbe DEF Crash, Fail
<1>9. ASSUME NEW p \in Procs, Deploy(p) PROVE ProbeInv'
    BY <1>9, EndKeepsProbe DEF Deploy, Fail
<1>10. ASSUME NEW s \in Services, Outage(s) PROVE ProbeInv'
    <2>1. up' = up \ {s} /\ UNCHANGED <<probe, answer>>
        BY <1>10 DEF Outage, GoesDown
    <2>2. \A q \in Procs : state[q] = "serving" => state'[q] = "serving"
        BY <1>10 DEF Outage
    <2> QED
        BY <2>1, <2>2 DEF ProbeInv
<1>11. ASSUME NEW s \in Services, Recovery(s) PROVE ProbeInv'
    <2>1. UNCHANGED state /\ up' = up \cup {s}
        BY <1>11 DEF Recovery, ComesBack
    <2>2. CASE probe = NoProbe
        BY <1>11, <2>1, <2>2 DEF Recovery, ComesBack, ProbeInv
    <2>3. CASE probe # NoProbe
        <3>1. probe' = [probe EXCEPT !.seen = @ \cup {s}]
            BY <1>11, <2>3 DEF Recovery, ComesBack
        <3> QED
            BY <2>1, <2>3, <3>1 DEF ProbeInv
    <2> QED
        BY <2>2, <2>3
<1>12. CASE ProbeStep
    <2>1. UNCHANGED state
        BY <1>12 DEF ProbeStep
    <2>2. ASSUME NEW p \in Procs, state[p] = "serving", Probe(p) PROVE ProbeInv'
        BY <2>1, <2>2 DEF Probe, ProbeInv
    <2>3. ASSUME NEW s \in Services, Check(s) PROVE ProbeInv'
        BY <2>1, <2>3, CheckKeepsProbe
    <2>4. CASE Raise
        BY <2>1, <2>4 DEF Raise, ProbeInv
    <2> QED
        BY <1>12, <2>2, <2>3, <2>4 DEF ProbeStep
<1>13. CASE UNCHANGED vars
    BY <1>13, MigrationKeepsProbe DEF vars
<1> QED
    BY <1>1, <1>2, <1>3, <1>4, <1>5, <1>6, <1>7, <1>8, <1>9, <1>10, <1>11, <1>12, <1>13 DEF Next

\* A check ends a probe with 200 only when every service was seen, at a process
\* whose schema is there.
LEMMA CheckIsEarned ==
    ASSUME IInv, ProbeInv, NEW s \in Services, Check(s), probe # NoProbe, probe' = NoProbe,
           answer' = 200
    PROVE  /\ probe.seen = Services
           /\ state[probe.process] = "serving" /\ db.version >= image[probe.process]
<1> USE HealthAssumption
<1>1. probe.pending = {s}
    <2> SUFFICES ASSUME probe.pending # {s} PROVE FALSE
        OBVIOUS
    <2>1. probe'.process \in Procs
        BY DEF Check, ProbeInv
    <2> QED
        BY <2>1 DEF NoProbe
<1>2. s \in up /\ probe.unhealthy = {}
    BY <1>1 DEF Check
<1>3. probe.seen = Services
    BY <1>1, <1>2 DEF ProbeInv
<1>4. state[probe.process] = "serving" /\ probe.process \in Procs
    BY DEF ProbeInv
<1> QED
    BY <1>3, <1>4 DEF IInv, ServesItsSchema

\* What ends a probe in another way does not answer it with 200.
LEMMA StepIsEarned ==
    ASSUME IInv, ProbeInv, [Next]_vars, probe # NoProbe, probe' = NoProbe, answer' = 200
    PROVE  /\ probe.seen = Services
           /\ state[probe.process] = "serving" /\ db.version >= image[probe.process]
<1>1. ASSUME NEW p \in Procs, Start(p) \/ Ask(p) \/ Acquire(p) \/ Execute(p) \/ Commit(p)
                              \/ Deadlock(p) \/ Create(p)
      PROVE  FALSE
    <2>1. UNCHANGED health
        BY <1>1 DEF Start, Ask, Acquire, Execute, Commit, Deadlock, Create
    <2> QED
        BY <2>1 DEF health
<1>2. ASSUME NEW p \in Procs, Crash(p) \/ Deploy(p) PROVE FALSE
    <2>1. Unanswered(p)
        BY <1>2 DEF Crash, Deploy
    <2> QED
        BY <2>1 DEF Unanswered
<1>3. ASSUME NEW s \in Services, Outage(s) PROVE FALSE
    BY <1>3 DEF Outage, GoesDown
<1>4. ASSUME NEW s \in Services, Recovery(s) PROVE FALSE
    <2>1. probe' = [probe EXCEPT !.seen = @ \cup {s}]
        BY <1>4 DEF Recovery, ComesBack
    <2>2. probe'.process = probe.process /\ probe.process \in Procs
        BY <2>1 DEF ProbeInv
    <2> QED
        BY <2>2, HealthAssumption DEF NoProbe
<1>5. ASSUME NEW p \in Procs, Probe(p) PROVE FALSE
    BY <1>5 DEF Probe
<1>6. CASE Raise
    BY <1>6 DEF Raise
<1>7. ASSUME NEW s \in Services, Check(s) PROVE probe.seen = Services
          /\ state[probe.process] = "serving" /\ db.version >= image[probe.process]
    BY <1>7, CheckIsEarned
<1>8. CASE UNCHANGED vars
    BY <1>8 DEF vars, health
<1> QED
    BY <1>1, <1>2, <1>3, <1>4, <1>5, <1>6, <1>7, <1>8 DEF Next, ProbeStep

\* Whatever comes and goes while the checks run, ready answers 200 only when
\* each service was within reach since the probe began and the process that
\* answers has its schema (health/router.py ready).
THEOREM ReadyEarned == Spec => ReadyIsEarned
<1>1. IInv /\ ProbeInv /\ [Next]_vars =>
          [probe # NoProbe /\ probe' = NoProbe /\ answer' = 200 =>
              /\ probe.seen = Services
              /\ state[probe.process] = "serving" /\ db.version >= image[probe.process]]_vars
    BY StepIsEarned
<1>2. Init => IInv /\ ProbeInv
    BY InitHolds, ProbeInit
<1>3. IInv /\ ProbeInv /\ [Next]_vars => IInv' /\ ProbeInv'
    BY NextKeeps, ProbeNext
<1> QED
    BY <1>1, <1>2, <1>3, PTL DEF Spec, ReadyIsEarned


-----------------------------------------------------------------------------
(***************************************************************************)
(* The schema.  Made(t, j) says that t is what the first j statements      *)
(* make of an empty database; DInv that what is committed is such a table, *)
(* at the end of a revision, and that what a transaction works on with the *)
(* table to itself is one too, up to its next statement -- or that the     *)
(* next statement is refused, because somebody else has executed it.       *)
(***************************************************************************)
Adding == {1, 2, 3, 8, 9, 11}

Lasts == {0, 1, 2, 6, 8, 10, 11}

Added(j) == {c \in Columns : \E i \in Adding : i <= j /\ c \in Script[i].columns}

ColumnsAfter(j) == Added(j) \ (IF j >= 6 THEN {"superpower"} ELSE {})

RequiredAfter(j) ==
    ((Added(j) \cap NotNull) \cup (IF j >= 5 THEN {"powers"} ELSE {}))
        \ ((IF j >= 6 THEN {"superpower"} ELSE {}) \cup (IF j >= 10 THEN {"name", "powers"} ELSE {}))

VersionAfter(j) ==
    IF j = 0 THEN 0 ELSE IF j \in Lasts THEN Script[j].revision ELSE Script[j].revision - 1

RowsAfter(rows, j) ==
    \A r \in rows : /\ j < 6 => r.superpower
                    /\ j >= 4 => r.powers
                    /\ r.owner => j >= 8

Made(t, j) ==
    /\ t.columns = ColumnsAfter(j)
    /\ t.required = RequiredAfter(j)
    /\ t.version = VersionAfter(j)
    /\ RowsAfter(t.rows, j)

Stale(p) ==
    /\ next[p] \in Adding /\ Script[next[p]].revision <= image[p]
    /\ Script[next[p]].columns \cap work[p].columns # {}

OwnedKept(p) == \A r \in db.rows : r.owner => r \in work[p].rows

Committed == \E j \in Lasts : Made(db, j)

\* Before a process has the table to itself it is at the first statement of a
\* revision, or has deleted the heroes without owners.
Begun ==
    \A p \in Procs : state[p] = "migrating" /\ held[p] # "table" =>
        /\ next[p] \in {1, 2, 3, 7, 8, 9, 11}
        /\ Script[next[p]].revision <= db.version + 1
        /\ next[p] # 8 => gone[p] = {}

Working ==
    \A p \in Procs : held[p] = "table" =>
        \/ Stale(p)
        \/ /\ next[p] \in 1..12 /\ Made(work[p], next[p] - 1)
           /\ next[p] = 1 \/ Script[next[p] - 1].revision <= image[p]
           /\ OwnedKept(p)

NothingGone ==
    /\ DOMAIN gone = Procs
    /\ \A p \in Procs : state[p] # "migrating" => gone[p] = {}

DInv == Committed /\ Begun /\ Working /\ NothingGone

\* Each column is added once; each statement that adds has a column that stays.
LEMMA Telltale ==
    \A k \in Adding : \E c \in Script[k].columns :
        \A j \in 0..11 : c \in ColumnsAfter(j) <=> k <= j
<1> DEFINE Tells(k, c) ==
        /\ c \in Script[k].columns /\ c \in Columns /\ c # "superpower"
        /\ \A i \in Adding : c \in Script[i].columns => i = k
<1>1. Tells(1, "name") /\ Tells(2, "created_at") /\ Tells(3, "powers")
      /\ Tells(8, "owner_id") /\ Tells(9, "is_draft") /\ Tells(11, "power_level")
    <2>1. /\ "name" \in Script[1].columns /\ "created_at" \in Script[2].columns
          /\ "powers" \in Script[3].columns /\ "owner_id" \in Script[8].columns
          /\ "is_draft" \in Script[9].columns /\ "power_level" \in Script[11].columns
        BY ScriptColumns
    <2>2. 1 \in 1..11 /\ 2 \in 1..11 /\ 3 \in 1..11 /\ 8 \in 1..11 /\ 9 \in 1..11 /\ 11 \in 1..11
        OBVIOUS
    <2>3. /\ "name" \in Columns /\ "created_at" \in Columns /\ "powers" \in Columns
          /\ "owner_id" \in Columns /\ "is_draft" \in Columns /\ "power_level" \in Columns
        BY <2>1, <2>2, ScriptFacts
    <2> QED
        BY <2>1, <2>3, ScriptColumns DEF Adding
<1>2. \A k \in Adding : \E c \in Script[k].columns : Tells(k, c)
    <2> SUFFICES ASSUME NEW k \in Adding
                 PROVE  \E c \in Script[k].columns : Tells(k, c)
        OBVIOUS
    <2>1. k = 1 \/ k = 2 \/ k = 3 \/ k = 8 \/ k = 9 \/ k = 11
        BY DEF Adding
    <2>2. \E c : Tells(k, c)
        BY <1>1, <2>1
    <2> QED
        BY <2>2
<1>3. ASSUME NEW k \in Adding, NEW c, Tells(k, c), NEW j \in 0..11
      PROVE  c \in ColumnsAfter(j) <=> k <= j
    BY <1>3 DEF ColumnsAfter, Added
<1> HIDE DEF Tells
<1> QED
    BY <1>2, <1>3

\* What is there after a statement, from what was there before it.
LEMMA AddedStep ==
    /\ \A k \in Adding : Added(k) = Added(k - 1) \cup Script[k].columns
    /\ \A k \in {4, 5, 6, 7, 10} : Added(k) = Added(k - 1)
<1>1. ASSUME NEW k \in Adding PROVE Added(k) = Added(k - 1) \cup Script[k].columns
    <2>1. k \in 1..11 /\ k <= k /\ Script[k].columns \in SUBSET Columns
        BY ScriptFacts DEF Adding
    <2>2. \A i \in Adding : i <= k <=> i <= k - 1 \/ i = k
        BY <2>1 DEF Adding
    <2> QED
        BY <2>1, <2>2 DEF Added
<1>2. \A k \in {4, 5, 6, 7, 10} : Added(k) = Added(k - 1)
    <2>1. \A k \in {4, 5, 6, 7, 10}, i \in Adding : i <= k <=> i <= k - 1
        BY DEF Adding
    <2> QED
        BY <2>1 DEF Added
<1> QED
    BY <1>1, <1>2

LEMMA ColumnsStep ==
    /\ \A k \in Adding : ColumnsAfter(k) = ColumnsAfter(k - 1) \cup Script[k].columns
    /\ ColumnsAfter(6) = ColumnsAfter(5) \ {"superpower"}
    /\ \A k \in {4, 5, 7, 10} : ColumnsAfter(k) = ColumnsAfter(k - 1)
<1>1. ASSUME NEW k \in Adding PROVE ColumnsAfter(k) = ColumnsAfter(k - 1) \cup Script[k].columns
    <2>1. k >= 6 => k - 1 >= 6 /\ "superpower" \notin Script[k].columns
        BY ScriptColumns DEF Adding
    <2>2. k < 6 => ~(k >= 6) /\ ~(k - 1 >= 6)
        BY DEF Adding
    <2>3. k < 6 \/ k >= 6
        BY DEF Adding
    <2> QED
        BY AddedStep, <2>1, <2>2, <2>3 DEF ColumnsAfter
<1>2. ColumnsAfter(6) = ColumnsAfter(5) \ {"superpower"}
    BY AddedStep DEF ColumnsAfter
<1>3. \A k \in {4, 5, 7, 10} : ColumnsAfter(k) = ColumnsAfter(k - 1)
    BY AddedStep DEF ColumnsAfter
<1> QED
    BY <1>1, <1>2, <1>3


LEMMA RequiredStep ==
    /\ \A k \in Adding : RequiredAfter(k) = RequiredAfter(k - 1) \cup (Script[k].columns \cap NotNull)
    /\ RequiredAfter(5) = RequiredAfter(4) \cup {"powers"}
    /\ RequiredAfter(6) = RequiredAfter(5) \ {"superpower"}
    /\ RequiredAfter(10) = RequiredAfter(9) \ {"name", "powers"}
    /\ \A k \in {4, 7} : RequiredAfter(k) = RequiredAfter(k - 1)
<1> DEFINE Given(j) == IF j >= 5 THEN {"powers"} ELSE {}
           Lost(j) == (IF j >= 6 THEN {"superpower"} ELSE {}) \cup (IF j >= 10 THEN {"name", "powers"} ELSE {})
<1>1. \A j : RequiredAfter(j) = ((Added(j) \cap NotNull) \cup Given(j)) \ Lost(j)
    BY DEF RequiredAfter
<1>2. ASSUME NEW k \in Adding
      PROVE  RequiredAfter(k) = RequiredAfter(k - 1) \cup (Script[k].columns \cap NotNull)
    <2>1. Given(k) = Given(k - 1) /\ Lost(k) = Lost(k - 1)
        <3>1. k = 1 \/ k = 2 \/ k = 3 \/ k = 8 \/ k = 9 \/ k = 11
            BY DEF Adding
        <3>2. /\ k >= 5 <=> k - 1 >= 5
              /\ k >= 6 <=> k - 1 >= 6
              /\ k >= 10 <=> k - 1 >= 10
            BY <3>1
        <3> QED
            BY <3>2
    <2>2. (Script[k].columns \cap NotNull) \cap Lost(k) = {}
        <3>1. CASE k \in {1, 2, 3}
            <4>1. Lost(k) = {}
                BY <3>1
            <4> QED
                BY <4>1
        <3>2. CASE k \in {8, 9}
            <4>1. Lost(k) = {"superpower"}
                BY <3>2
            <4>2. "superpower" \notin Script[k].columns
                BY <3>2, ScriptColumns
            <4> QED
                BY <4>1, <4>2
        <3>3. CASE k = 11
            <4>1. Script[k].columns \cap NotNull = {}
                BY <3>3, ScriptColumns DEF NotNull
            <4> QED
                BY <4>1
        <3> QED
            BY <3>1, <3>2, <3>3 DEF Adding
    <2> HIDE DEF Given, Lost
    <2> QED
        BY AddedStep, <1>1, <2>1, <2>2
<1>3. RequiredAfter(5) = RequiredAfter(4) \cup {"powers"}
    <2>1. Lost(5) = {} /\ Lost(4) = {} /\ Given(5) = {"powers"} /\ Given(4) = {}
        OBVIOUS
    <2>2. Added(5) = Added(4)
        BY AddedStep
    <2> HIDE DEF Given, Lost
    <2> QED
        BY <1>1, <2>1, <2>2
<1>4. RequiredAfter(6) = RequiredAfter(5) \ {"superpower"}
    <2>1. Lost(6) = {"superpower"} /\ Lost(5) = {} /\ Given(6) = Given(5)
        OBVIOUS
    <2>2. Added(6) = Added(5)
        BY AddedStep
    <2> HIDE DEF Given, Lost
    <2> QED
        BY <1>1, <2>1, <2>2
<1>5. RequiredAfter(10) = RequiredAfter(9) \ {"name", "powers"}
    <2>1. Lost(10) = Lost(9) \cup {"name", "powers"} /\ Given(10) = Given(9)
        OBVIOUS
    <2>2. Added(10) = Added(9)
        BY AddedStep
    <2> HIDE DEF Given, Lost
    <2> QED
        BY <1>1, <2>1, <2>2
<1>6. \A k \in {4, 7} : RequiredAfter(k) = RequiredAfter(k - 1)
    <2>1. \A k \in {4, 7} : Lost(k) = Lost(k - 1) /\ Given(k) = Given(k - 1) /\ Added(k) = Added(k - 1)
        BY AddedStep
    <2> HIDE DEF Given, Lost
    <2> QED
        BY <1>1, <2>1
<1> QED
    BY <1>2, <1>3, <1>4, <1>5, <1>6

LEMMA VersionStep ==
    \A k \in 1..11 : VersionAfter(k) = IF IsLast(Script[k], k) THEN Script[k].revision ELSE VersionAfter(k - 1)
<1>1. \A k \in 1..11 : IsLast(Script[k], k) <=> k \in Lasts
    <2> SUFFICES ASSUME NEW k \in 1..11 PROVE IsLast(Script[k], k) <=> k \in Lasts
        OBVIOUS
    <2>1. k = 1 \/ k = 2 \/ k = 3 \/ k = 4 \/ k = 5 \/ k = 6 \/ k = 7 \/ k = 8 \/ k = 9 \/ k = 10 \/ k = 11
        OBVIOUS
    <2> QED
        BY <2>1, ScriptRows DEF IsLast, Lasts
<1>2. ASSUME NEW k \in 1..11
      PROVE  VersionAfter(k) = IF IsLast(Script[k], k) THEN Script[k].revision ELSE VersionAfter(k - 1)
    <2>1. k = 1 \/ k = 2 \/ k = 3 \/ k = 4 \/ k = 5 \/ k = 6 \/ k = 7 \/ k = 8 \/ k = 9 \/ k = 10 \/ k = 11
        OBVIOUS
    <2>2. VersionAfter(k) = IF k \in Lasts THEN Script[k].revision ELSE VersionAfter(k - 1)
        BY <2>1, ScriptRows DEF VersionAfter, Lasts
    <2> QED
        BY <1>1, <2>2
<1> QED
    BY <1>2

\* The versions of the tables that are committed.
LEMMA Versions ==
    /\ \A j \in Lasts : VersionAfter(j) \in 0..6
    /\ \A j \in Lasts, k \in 1..11 : Script[k].revision <= VersionAfter(j) <=> k <= j
    /\ \A j \in Lasts : VersionAfter(j) = 6 <=> j = 11
<1>1. \A j \in Lasts : j = 0 \/ j = 1 \/ j = 2 \/ j = 6 \/ j = 8 \/ j = 10 \/ j = 11
    BY DEF Lasts
<1>2. /\ VersionAfter(0) = 0 /\ VersionAfter(1) = 1 /\ VersionAfter(2) = 2 /\ VersionAfter(6) = 3
      /\ VersionAfter(8) = 4 /\ VersionAfter(10) = 5 /\ VersionAfter(11) = 6
    BY ScriptRows DEF VersionAfter, Lasts
<1>3. ASSUME NEW j \in Lasts, NEW k \in 1..11
      PROVE  Script[k].revision <= VersionAfter(j) <=> k <= j
    <2>1. k = 1 \/ k = 2 \/ k = 3 \/ k = 4 \/ k = 5 \/ k = 6 \/ k = 7 \/ k = 8 \/ k = 9 \/ k = 10 \/ k = 11
        OBVIOUS
    <2> QED
        BY <1>1, <1>2, <2>1, ScriptRows
<1> QED
    BY <1>1, <1>2, <1>3


\* A statement that is not refused makes the next table of the script.
LEMMA ExecutedIsMade ==
    ASSUME NEW t \in Schema, NEW k \in 1..11, Made(t, k - 1), ~Refused(t, Script[k])
    PROVE  LET e == Executed(t, Script[k]) IN
           /\ e.columns = ColumnsAfter(k) /\ e.required = RequiredAfter(k)
           /\ e.version = VersionAfter(k - 1) /\ RowsAfter(e.rows, k)
           /\ (\E r \in t.rows : r.owner) => e.rows = t.rows
<1> DEFINE s == Script[k]
           e == Executed(t, s)
<1>1. /\ t.columns = ColumnsAfter(k - 1) /\ t.required = RequiredAfter(k - 1)
      /\ t.version = VersionAfter(k - 1) /\ RowsAfter(t.rows, k - 1)
    BY DEF Made
<1>2. e.version = t.version
    BY ExecutedIsTable
<1>3. k = 1 \/ k = 2 \/ k = 3 \/ k = 4 \/ k = 5 \/ k = 6 \/ k = 7 \/ k = 8 \/ k = 9 \/ k = 10 \/ k = 11
    OBVIOUS
<1> SUFFICES /\ e.columns = ColumnsAfter(k) /\ e.required = RequiredAfter(k) /\ RowsAfter(e.rows, k)
             /\ (\E r \in t.rows : r.owner) => e.rows = t.rows
    BY <1>1, <1>2
<1>4. CASE k \in Adding
    <2>1. s.op \in {"create", "add"}
        BY <1>4, ScriptRows DEF Adding
    <2>2. e = [t EXCEPT !.columns = @ \cup s.columns, !.required = @ \cup (s.columns \cap NotNull)]
        BY <2>1 DEF Executed
    <2> HIDE DEF e, s
    <2>3. /\ e.columns = t.columns \cup s.columns /\ e.required = t.required \cup (s.columns \cap NotNull)
          /\ e.rows = t.rows
        BY <2>2 DEF Schema
    <2>4. e.columns = ColumnsAfter(k) /\ e.required = RequiredAfter(k)
        BY <1>1, <1>4, <2>3, ColumnsStep, RequiredStep DEF s
    <2>5. RowsAfter(t.rows, k)
        <3>1. k # 8 => RowsAfter(t.rows, k)
            BY <1>1, <1>4 DEF RowsAfter, Adding
        <3>2. k = 8 => t.rows = {}
            <4> SUFFICES ASSUME k = 8 PROVE t.rows = {}
                OBVIOUS
            <4>1. s.op = "add" /\ "owner_id" \in s.columns
                BY ScriptRows, ScriptColumns DEF s
            <4> QED
                BY <4>1 DEF Refused, NotNull, Defaulted, s
        <3>3. k = 8 => RowsAfter(t.rows, k)
            BY <3>2 DEF RowsAfter
        <3> QED
            BY <3>1, <3>3
    <2> QED
        BY <2>3, <2>4, <2>5
<1>5. CASE k = 4
    <2>1. s.op = "fill"
        BY <1>5, ScriptRows
    <2>2. e = [t EXCEPT !.rows = {[r EXCEPT !.powers = r.superpower] : r \in @}]
        BY <2>1 DEF Executed
    <2> HIDE DEF e, s
    <2>3. /\ e.columns = t.columns /\ e.required = t.required
          /\ e.rows = {[r EXCEPT !.powers = r.superpower] : r \in t.rows}
        BY <2>2 DEF Schema
    <2>4. e.columns = ColumnsAfter(k) /\ e.required = RequiredAfter(k)
        BY <1>1, <1>5, <2>3, ColumnsStep, RequiredStep
    <2>5. \A r \in t.rows : r \in Row /\ r.superpower /\ ~r.owner
        BY <1>1, <1>5 DEF RowsAfter, Schema, Row
    <2>6. RowsAfter(e.rows, k)
        BY <1>5, <2>3, <2>5 DEF RowsAfter, Row
    <2> QED
        BY <2>4, <2>5, <2>6
<1>6. CASE k = 5
    <2>1. s.op = "require" /\ s.columns = {"powers"}
        BY <1>6, ScriptRows, ScriptColumns
    <2>2. e = [t EXCEPT !.required = @ \cup s.columns]
        BY <2>1 DEF Executed
    <2> HIDE DEF e, s
    <2>3. e.columns = t.columns /\ e.required = t.required \cup {"powers"} /\ e.rows = t.rows
        BY <2>1, <2>2 DEF Schema
    <2>4. e.columns = ColumnsAfter(k) /\ e.required = RequiredAfter(k)
        BY <1>1, <1>6, <2>3, ColumnsStep, RequiredStep
    <2>5. RowsAfter(t.rows, k)
        BY <1>1, <1>6 DEF RowsAfter
    <2> QED
        BY <2>3, <2>4, <2>5
<1>7. CASE k = 6
    <2>1. s.op = "drop" /\ s.columns = {"superpower"}
        BY <1>7, ScriptRows, ScriptColumns
    <2>2. e = [t EXCEPT !.columns = @ \ s.columns, !.required = @ \ s.columns,
                        !.rows = {[r EXCEPT !.superpower = FALSE] : r \in @}]
        BY <2>1 DEF Executed
    <2> HIDE DEF e, s
    <2>3. /\ e.columns = t.columns \ {"superpower"} /\ e.required = t.required \ {"superpower"}
          /\ e.rows = {[r EXCEPT !.superpower = FALSE] : r \in t.rows}
        BY <2>1, <2>2 DEF Schema
    <2>4. e.columns = ColumnsAfter(k) /\ e.required = RequiredAfter(k)
        BY <1>1, <1>7, <2>3, ColumnsStep, RequiredStep
    <2>5. \A r \in t.rows : r \in Row /\ r.powers /\ ~r.owner
        BY <1>1, <1>7 DEF RowsAfter, Schema, Row
    <2>6. RowsAfter(e.rows, k)
        BY <1>7, <2>3, <2>5 DEF RowsAfter, Row
    <2> QED
        BY <2>4, <2>5, <2>6
<1>8. CASE k = 7
    <2>1. s.op = "delete"
        BY <1>8, ScriptRows
    <2>2. e = [t EXCEPT !.rows = {}]
        BY <2>1 DEF Executed
    <2> HIDE DEF e, s
    <2>3. e.columns = t.columns /\ e.required = t.required /\ e.rows = {}
        BY <2>2 DEF Schema
    <2>4. e.columns = ColumnsAfter(k) /\ e.required = RequiredAfter(k)
        BY <1>1, <1>8, <2>3, ColumnsStep, RequiredStep
    <2>5. \A r \in t.rows : ~r.owner
        BY <1>1, <1>8 DEF RowsAfter
    <2> QED
        BY <2>3, <2>4, <2>5 DEF RowsAfter
<1>9. CASE k = 10
    <2>1. s.op = "relax" /\ s.columns = {"name", "powers"}
        BY <1>9, ScriptRows, ScriptColumns
    <2>2. e = [t EXCEPT !.required = @ \ s.columns]
        BY <2>1 DEF Executed
    <2> HIDE DEF e, s
    <2>3. e.columns = t.columns /\ e.required = t.required \ {"name", "powers"} /\ e.rows = t.rows
        BY <2>1, <2>2 DEF Schema
    <2>4. e.columns = ColumnsAfter(k) /\ e.required = RequiredAfter(k)
        BY <1>1, <1>9, <2>3, ColumnsStep, RequiredStep
    <2>5. RowsAfter(t.rows, k)
        BY <1>1, <1>9 DEF RowsAfter
    <2> QED
        BY <2>3, <2>4, <2>5
<1> HIDE DEF e, s
<1> QED
    BY <1>3, <1>4, <1>5, <1>6, <1>7, <1>8, <1>9 DEF Adding


-----------------------------------------------------------------------------
\* A process that ends or starts to serve leaves the others where they are.
LEMMA LeaveKeepsMore ==
    ASSUME IInv, DInv, NEW p \in Procs, NEW to \in {"down", "serving"}, Leave(p, to),
           \A q \in Procs \ {p} : image'[q] = image[q], UNCHANGED db
    PROVE  DInv'
<1>1. Committed'
    BY DEF DInv, Committed, Made
<1>2. /\ \A q \in Procs \ {p} : /\ state'[q] = state[q] /\ work'[q] = work[q] /\ next'[q] = next[q]
                                /\ gone'[q] = gone[q] /\ held'[q] = held[q]
      /\ state'[p] # "migrating" /\ gone'[p] = {} /\ held'[p] = "none" /\ DOMAIN gone' = Procs
    BY DEF Leave, IInv, Types, DInv, NothingGone
<1>3. Begun' /\ NothingGone'
    BY <1>2 DEF DInv, Begun, NothingGone
<1>4. Working'
    BY <1>2 DEF DInv, Working, Stale, OwnedKept, Made
<1> QED
    BY <1>1, <1>3, <1>4 DEF DInv

LEMMA UntouchedKeepsMore ==
    ASSUME DInv, UNCHANGED <<db, image, state, work, next, gone, held>>
    PROVE  DInv'
BY DEF DInv, Committed, Made, Begun, Working, Stale, OwnedKept, NothingGone

LEMMA StartKeepsMore == ASSUME IInv, DInv, NEW p \in Procs, Start(p) PROVE DInv'
<1> USE DeploymentAssumption
<1>1. image[p] \in 1..6 /\ db.version \in 0..6 /\ state[p] = "down" /\ UNCHANGED <<db, image>>
    <2>1. image[p] \in 1..6
        BY DEF IInv, Types, Revisions
    <2>2. db.version \in 0..6
        BY DEF IInv, Types, Schema, Revisions
    <2> QED
        BY <2>1, <2>2 DEF Start
<1>2. CASE Pending(p) = {}
    <2>1. Leave(p, "serving")
        BY <1>2 DEF Start
    <2> QED
        BY <1>1, <2>1, LeaveKeepsMore
<1>3. CASE Pending(p) # {}
    <2>1. PICK first \in Pending(p) :
              /\ \A k \in Pending(p) : first <= k
              /\ next' = [next EXCEPT ![p] = first]
              /\ state' = [state EXCEPT ![p] = "migrating"]
              /\ UNCHANGED <<work, gone, held>>
        BY <1>3 DEF Start
    <2>2. first \in 1..11 /\ Script[first].revision \in (db.version + 1)..image[p]
        BY ScriptFacts DEF Pending
    <2>3. PICK j \in Lasts : Made(db, j)
        BY DEF DInv, Committed
    <2>4. db.version = VersionAfter(j)
        BY <2>3 DEF Made
    <2>5. first > j
        BY <1>1, <2>2, <2>4, Versions DEF Lasts
    <2>6. first = j + 1
        <3> SUFFICES ASSUME first > j + 1 PROVE FALSE
            BY <2>2, <2>5 DEF Lasts
        <3>1. j + 1 \in 1..11 /\ first \in 2..11
            BY <2>2 DEF Lasts
        <3>2. Script[j + 1].revision > VersionAfter(j)
            BY <3>1, Versions, ScriptFacts DEF Lasts
        <3>3. Script[j + 1].revision <= Script[first].revision
            <4>1. j \in {0, 1, 2, 6, 8, 10, 11}
                BY DEF Lasts
            <4>2. first = 1 \/ first = 2 \/ first = 3 \/ first = 4 \/ first = 5 \/ first = 6 \/ first = 7
                  \/ first = 8 \/ first = 9 \/ first = 10 \/ first = 11
                BY <2>2
            <4> QED
                BY <3>1, <4>1, <4>2, ScriptRows
        <3>4. j + 1 \in Pending(p)
            BY <1>1, <2>2, <2>4, <3>1, <3>2, <3>3, ScriptFacts DEF Pending
        <3>5. first <= j + 1
            BY <2>1, <3>4
        <3> QED
            BY <3>1, <3>5 DEF Lasts
    <2>7. first \in {1, 2, 3, 7, 9, 11} /\ Script[first].revision <= db.version + 1
        BY <2>2, <2>4, <2>6, ScriptRows DEF Lasts, VersionAfter
    <2>8. held[p] = "none" /\ gone[p] = {}
        BY <1>1 DEF IInv, Types, OnlyMigratingHold, DInv, NothingGone
    <2>9. /\ \A q \in Procs \ {p} : state'[q] = state[q] /\ next'[q] = next[q]
          /\ state'[p] = "migrating" /\ next'[p] = first
        BY <2>1 DEF IInv, Types
    <2>10. Committed' /\ NothingGone'
        BY <1>1, <2>1, <2>8, <2>9 DEF DInv, Committed, Made, NothingGone
    <2>11. Begun'
        BY <1>1, <2>1, <2>7, <2>8, <2>9 DEF DInv, Begun
    <2>12. Working'
        BY <1>1, <2>1, <2>8, <2>9 DEF DInv, Working, Stale, OwnedKept, Made
    <2> QED
        BY <2>10, <2>11, <2>12 DEF DInv
<1> QED
    BY <1>2, <1>3

\* With the table to itself a process finds what its next statement expects, or
\* what the statement has made already.
LEMMA TableIsFound ==
    ASSUME IInv, DInv, NEW p \in Procs, state[p] = "migrating", held[p] # "table", next[p] # 7,
           Script[next[p]].revision <= image[p],
           NEW found, found = [db EXCEPT !.rows = {r \in @ : r.id \notin gone[p]}]
    PROVE  \/ next[p] \in Adding /\ Script[next[p]].columns \cap found.columns # {}
           \/ /\ Made(found, next[p] - 1)
              /\ next[p] = 1 \/ Script[next[p] - 1].revision <= image[p]
              /\ \A r \in db.rows : r.owner => r \in found.rows
<1> DEFINE k == next[p]
<1> USE DeploymentAssumption
<1>1. /\ k \in Adding /\ Script[k].revision <= db.version + 1
      /\ k # 8 => gone[p] = {}
    BY DEF DInv, Begun, Adding
<1>2. PICK j \in Lasts : Made(db, j)
    BY DEF DInv, Committed
<1>3. /\ found.columns = db.columns /\ found.required = db.required /\ found.version = db.version
      /\ found.rows = {r \in db.rows : r.id \notin gone[p]}
    BY DEF IInv, Types, Schema
<1>4. db.version = VersionAfter(j) /\ db.columns = ColumnsAfter(j) /\ db.required = RequiredAfter(j)
      /\ RowsAfter(db.rows, j)
    BY <1>2 DEF Made
<1>5. image[p] \in 1..6
    BY DEF IInv, Types, Revisions
<1>6. k <= j \/ k = j + 1 \/ (k = 8 /\ j = 6)
    <2>1. Script[k].revision <= VersionAfter(j) + 1
        BY <1>1, <1>4
    <2>2. /\ VersionAfter(0) = 0 /\ VersionAfter(1) = 1 /\ VersionAfter(2) = 2 /\ VersionAfter(6) = 3
          /\ VersionAfter(8) = 4 /\ VersionAfter(10) = 5 /\ VersionAfter(11) = 6
        BY ScriptRows DEF VersionAfter, Lasts
    <2>3. k = 1 \/ k = 2 \/ k = 3 \/ k = 8 \/ k = 9 \/ k = 11
        BY <1>1 DEF Adding
    <2>4. j = 0 \/ j = 1 \/ j = 2 \/ j = 6 \/ j = 8 \/ j = 10 \/ j = 11
        BY DEF Lasts
    <2> QED
        BY <2>1, <2>2, <2>3, <2>4, ScriptRows
<1>7. CASE k <= j
    BY <1>1, <1>3, <1>4, <1>7, Telltale DEF Lasts
<1>8. k = 1 \/ Script[k - 1].revision <= image[p]
    <2>1. k # 1 => k - 1 \in 1..10
        BY <1>1 DEF Adding
    <2>2. k # 1 => Script[k].revision \in {Script[k - 1].revision, Script[k - 1].revision + 1}
        <3> SUFFICES ASSUME k # 1
                     PROVE Script[k].revision \in {Script[k - 1].revision, Script[k - 1].revision + 1}
            OBVIOUS
        <3>1. (k - 1) + 1 = k
            BY <1>1 DEF Adding
        <3> QED
            BY <2>1, <3>1, ScriptFacts
    <2>3. k # 1 => Script[k - 1].revision \in 1..6
        BY <2>1, ScriptFacts
    <2> QED
        BY <1>5, <2>2, <2>3
<1>9. CASE k = j + 1
    <2>1. gone[p] = {} /\ k - 1 = j
        BY <1>1, <1>9 DEF Lasts
    <2>2. found.rows = db.rows
        BY <1>3, <2>1
    <2> QED
        BY <1>3, <1>4, <1>8, <2>1, <2>2 DEF Made
<1>10. CASE k = 8 /\ j = 6
    <2>1. ColumnsAfter(7) = ColumnsAfter(6) /\ RequiredAfter(7) = RequiredAfter(6)
        BY ColumnsStep, RequiredStep
    <2>2. VersionAfter(7) = VersionAfter(6)
        BY ScriptRows DEF VersionAfter, Lasts
    <2>3. RowsAfter(found.rows, 7) /\ \A r \in db.rows : ~r.owner
        BY <1>3, <1>4, <1>10 DEF RowsAfter
    <2> QED
        BY <1>3, <1>4, <1>8, <1>10, <2>1, <2>2, <2>3 DEF Made
<1> QED
    BY <1>6, <1>7, <1>9, <1>10


LEMMA AcquireKeepsMore == ASSUME IInv, DInv, NEW p \in Procs, Acquire(p) PROVE DInv'
<1> DEFINE s == Script[next[p]]
<1>1. /\ state[p] = "migrating" /\ next[p] \in 1..11 /\ s.revision <= image[p]
      /\ held[p] \notin {"table", Lock(s)} /\ CanTake(p, Lock(s))
      /\ held' = [held EXCEPT ![p] = Lock(s)]
      /\ UNCHANGED <<db, image, state>>
    <2>1. HasStatement(p)
        BY DEF Acquire, NeedsLock
    <2>2. state[p] = "migrating" /\ next[p] \in 1..11 /\ Script[next[p]].revision <= image[p]
        BY <2>1, UnderWay
    <2> QED
        BY <2>1, <2>2 DEF Acquire, NeedsLock
<1>2. Committed'
    BY <1>1 DEF DInv, Committed, Made
<1>3. CASE Lock(s) = "table"
    <2> DEFINE found == [db EXCEPT !.rows = {r \in @ : r.id \notin gone[p]}]
    <2>1. work' = [work EXCEPT ![p] = found] /\ UNCHANGED <<next, gone>>
        BY <1>3 DEF Acquire
    <2>2. next[p] # 7
        BY <1>3, ScriptRows DEF Lock
    <2>3. \A q \in Procs \ {p} : held[q] = "none"
        BY <1>1, <1>3 DEF CanTake, Others
    <2>4. /\ held'[p] = "table" /\ work'[p] = found
          /\ \A q \in Procs \ {p} : held'[q] = "none"
        BY <1>1, <1>3, <2>1, <2>3 DEF IInv, Types
    <2>5. \/ next[p] \in Adding /\ s.columns \cap found.columns # {}
          \/ /\ Made(found, next[p] - 1)
             /\ next[p] = 1 \/ Script[next[p] - 1].revision <= image[p]
             /\ \A r \in db.rows : r.owner => r \in found.rows
        BY <1>1, <2>2, TableIsFound
    <2> HIDE DEF found
    <2>6. Working'
        <3> SUFFICES \/ Stale(p)'
                     \/ /\ next'[p] \in 1..12 /\ Made(work'[p], next'[p] - 1)
                        /\ next'[p] = 1 \/ Script[next'[p] - 1].revision <= image'[p]
                        /\ OwnedKept(p)'
            BY <2>4 DEF Working
        <3>1. CASE next[p] \in Adding /\ s.columns \cap found.columns # {}
            BY <1>1, <2>1, <2>4, <3>1 DEF Stale
        <3>2. CASE /\ Made(found, next[p] - 1)
                   /\ next[p] = 1 \/ Script[next[p] - 1].revision <= image[p]
                   /\ \A r \in db.rows : r.owner => r \in found.rows
            BY <1>1, <2>1, <2>4, <3>2 DEF OwnedKept
        <3> QED
            BY <2>5, <3>1, <3>2
    <2>7. Begun'
        BY <1>1, <2>1, <2>3, <2>4 DEF DInv, Begun
    <2>8. NothingGone'
        BY <1>1, <2>1 DEF DInv, NothingGone
    <2> QED
        BY <1>2, <2>6, <2>7, <2>8 DEF DInv
<1>4. CASE Lock(s) = "row"
    <2>1. next[p] = 7
        <3>1. s.op = "delete"
            BY <1>4 DEF Lock
        <3>2. next[p] = 1 \/ next[p] = 2 \/ next[p] = 3 \/ next[p] = 4 \/ next[p] = 5 \/ next[p] = 6
              \/ next[p] = 7 \/ next[p] = 8 \/ next[p] = 9 \/ next[p] = 10 \/ next[p] = 11
            BY <1>1
        <3> QED
            BY <3>1, <3>2, ScriptRows
    <2>2. /\ UNCHANGED work
          /\ \/ UNCHANGED <<next, gone>>
             \/ /\ next' = [next EXCEPT ![p] = 8]
                /\ gone' = [gone EXCEPT ![p] = {r.id : r \in db.rows}]
        BY <1>4, <2>1 DEF Acquire, DeleteRows
    <2>3. /\ held'[p] = "row"
          /\ \A q \in Procs \ {p} : held'[q] = held[q] /\ next'[q] = next[q] /\ gone'[q] = gone[q]
          /\ (next'[p] = 7 /\ gone'[p] = gone[p]) \/ next'[p] = 8
          /\ DOMAIN gone' = Procs
        BY <1>1, <1>4, <2>1, <2>2 DEF IInv, Types, DInv, NothingGone
    <2>4. Script[7].revision <= db.version + 1 /\ gone[p] = {}
        BY <1>1, <2>1 DEF DInv, Begun
    <2>5. Script[8].revision = Script[7].revision
        BY ScriptRows
    <2>6. Begun'
        BY <1>1, <2>3, <2>4, <2>5 DEF DInv, Begun
    <2>7. Working'
        BY <1>1, <2>2, <2>3 DEF DInv, Working, Stale, OwnedKept, Made
    <2>8. NothingGone'
        BY <1>1, <2>3 DEF DInv, NothingGone
    <2> QED
        BY <1>2, <2>6, <2>7, <2>8 DEF DInv
<1> QED
    BY <1>3, <1>4 DEF Lock

LEMMA ExecuteKeepsMore == ASSUME IInv, DInv, NEW p \in Procs, Execute(p) PROVE DInv'
<1> DEFINE k == next[p]
           s == Script[k]
           t == Executed(work[p], s)
<1>1. /\ state[p] = "migrating" /\ k \in 1..11 /\ s.revision <= image[p]
      /\ held[p] \in {"table", Lock(s)} /\ UNCHANGED <<db, image>>
    <2>1. HasStatement(p)
        BY DEF Execute, NeedsLock
    <2>2. state[p] = "migrating" /\ next[p] \in 1..11 /\ Script[next[p]].revision <= image[p]
        BY <2>1, UnderWay
    <2> QED
        BY <2>1, <2>2 DEF Execute, NeedsLock
<1>2. work[p] \in Schema
    BY DEF IInv, Types
<1>3. Committed'
    BY <1>1 DEF DInv, Committed, Made
<1>4. CASE held[p] = "row"
    <2>1. k = 7
        <3>1. s.op = "delete"
            BY <1>1, <1>4 DEF Lock
        <3>2. k = 1 \/ k = 2 \/ k = 3 \/ k = 4 \/ k = 5 \/ k = 6 \/ k = 7 \/ k = 8 \/ k = 9 \/ k = 10 \/ k = 11
            BY <1>1
        <3> QED
            BY <3>1, <3>2, ScriptRows
    <2>2. /\ next' = [next EXCEPT ![p] = 8] /\ UNCHANGED <<state, work, held>>
          /\ gone' = [gone EXCEPT ![p] = {r.id : r \in db.rows}]
        BY <1>4, <2>1 DEF Execute, DeleteRows
    <2>3. /\ \A q \in Procs \ {p} : next'[q] = next[q] /\ gone'[q] = gone[q]
          /\ next'[p] = 8 /\ DOMAIN gone' = Procs
        BY <2>2 DEF IInv, Types, DInv, NothingGone
    <2>4. Script[7].revision <= db.version + 1 /\ Script[8].revision = Script[7].revision
        BY <1>1, <1>4, <2>1, ScriptRows DEF DInv, Begun
    <2>5. Begun'
        BY <1>1, <2>2, <2>3, <2>4 DEF DInv, Begun
    <2>6. Working'
        BY <1>1, <1>4, <2>2, <2>3 DEF DInv, Working, Stale, OwnedKept, Made
    <2>7. NothingGone'
        BY <1>1, <2>2, <2>3 DEF DInv, NothingGone
    <2> QED
        BY <1>3, <2>5, <2>6, <2>7 DEF DInv
<1>5. CASE held[p] = "table" /\ Fail(p)
    BY <1>1, <1>5, LeaveKeepsMore DEF Fail
<1>6. CASE held[p] = "table" /\ ~Fail(p)
    <2> DEFINE new == IF IsLast(s, k) THEN [t EXCEPT !.version = s.revision] ELSE t
    <2>1. /\ ~Refused(work[p], s)
          /\ work' = [work EXCEPT ![p] = new]
          /\ next' = [next EXCEPT ![p] = k + 1]
          /\ UNCHANGED <<state, gone, held>>
        BY <1>6 DEF Execute
    <2>2. ~Stale(p)
        <3>1. k \in Adding => s.op \in {"create", "add"}
            BY ScriptRows DEF Adding
        <3> QED
            BY <2>1, <3>1 DEF Stale, Refused
    <2>3. Made(work[p], k - 1) /\ OwnedKept(p)
        BY <1>6, <2>2 DEF DInv, Working
    <2>4. /\ t.columns = ColumnsAfter(k) /\ t.required = RequiredAfter(k)
          /\ t.version = VersionAfter(k - 1) /\ RowsAfter(t.rows, k)
          /\ (\E r \in work[p].rows : r.owner) => t.rows = work[p].rows
        BY <1>1, <1>2, <2>1, <2>3, ExecutedIsMade
    <2>5. t \in Schema
        BY <1>1, <1>2, ExecutedIsTable
    <2> HIDE DEF t
    <2>6. /\ new.columns = t.columns /\ new.required = t.required /\ new.rows = t.rows
          /\ new.version = IF IsLast(s, k) THEN s.revision ELSE t.version
        BY <2>5 DEF Schema
    <2> HIDE DEF new
    <2>7. Made(new, k)
        BY <1>1, <2>4, <2>6, VersionStep DEF Made
    <2>8. \A r \in db.rows : r.owner => r \in new.rows
        BY <2>3, <2>4, <2>6 DEF OwnedKept
    <2>9. /\ work'[p] = new /\ next'[p] = k + 1 /\ next'[p] - 1 = k /\ next'[p] \in 1..12
          /\ \A q \in Procs \ {p} : next'[q] = next[q] /\ held[q] = "none"
        BY <1>1, <1>6, <2>1 DEF IInv, Types, Exclusive
    <2>10. Working'
        BY <1>1, <2>1, <2>7, <2>8, <2>9 DEF Working, OwnedKept
    <2>11. Begun'
        BY <1>1, <1>6, <2>1, <2>9 DEF DInv, Begun
    <2>12. NothingGone'
        BY <2>1 DEF DInv, NothingGone
    <2> QED
        BY <1>3, <2>10, <2>11, <2>12 DEF DInv
<1> QED
    BY <1>1, <1>4, <1>5, <1>6 DEF Lock

\* What is committed is the table at the end of a revision, with every hero
\* that had an owner.
LEMMA CommitIsMade ==
    ASSUME IInv, DInv, NEW p \in Procs, Commit(p)
    PROVE  Committed' /\ OwnedKept(p)
<1> USE DeploymentAssumption
<1>1. /\ state[p] = "migrating" /\ ~HasStatement(p) /\ db' = work[p] /\ image[p] \in 1..6
      /\ next[p] \in 1..12
    BY DEF Commit, IInv, Types, Revisions, Reaches
<1>2. next[p] \in 1..11 => Script[next[p]].revision > image[p]
    BY <1>1, ScriptFacts DEF HasStatement
<1>3. held[p] = "table"
    BY <1>1, <1>2, ScriptFacts DEF IInv, Reaches, Goes, Arrived
<1>4. ~Stale(p)
    <2>1. next[p] \in Adding => next[p] \in 1..11
        BY DEF Adding
    <2> QED
        BY <1>1, <1>2, <2>1, ScriptFacts DEF Stale
<1>5. /\ Made(work[p], next[p] - 1) /\ OwnedKept(p)
      /\ next[p] = 1 \/ Script[next[p] - 1].revision <= image[p]
    BY <1>3, <1>4 DEF DInv, Working
<1>6. next[p] - 1 \in Lasts
    <2>1. CASE next[p] = 12
        BY <2>1 DEF Lasts
    <2>2. CASE next[p] \in 2..11
        <3>1. Script[next[p]].revision > Script[next[p] - 1].revision
            <4>1. next[p] - 1 \in 1..11
                BY <2>2
            <4>2. Script[next[p] - 1].revision \in 1..6 /\ Script[next[p]].revision \in 1..6
                BY <2>2, <4>1, ScriptFacts
            <4> QED
                BY <1>1, <1>2, <1>5, <2>2, <4>2
        <3>2. next[p] = 2 \/ next[p] = 3 \/ next[p] = 4 \/ next[p] = 5 \/ next[p] = 6 \/ next[p] = 7
              \/ next[p] = 8 \/ next[p] = 9 \/ next[p] = 10 \/ next[p] = 11
            BY <2>2
        <3> QED
            BY <3>1, <3>2, ScriptRows DEF Lasts
    <2>3. CASE next[p] = 1
        BY <2>3 DEF Lasts
    <2> QED
        BY <1>1, <2>1, <2>2, <2>3
<1> QED
    BY <1>1, <1>5, <1>6 DEF Committed


LEMMA CommitKeepsMore == ASSUME IInv, DInv, NEW p \in Procs, Commit(p) PROVE DInv'
<1> USE DeploymentAssumption
<1>1. state[p] = "migrating" /\ db' = work[p] /\ UNCHANGED image /\ Leave(p, "serving")
    BY DEF Commit
<1>2. held[p] = "table"
    <2>1. next[p] \in 1..11 => Script[next[p]].revision > image[p]
        <3>1. image[p] \in 1..6 /\ ~HasStatement(p)
            BY DEF Commit, IInv, Types, Revisions
        <3> QED
            BY <1>1, <3>1, ScriptFacts DEF HasStatement
    <2>2. image[p] \in 1..6
        BY DEF IInv, Types, Revisions
    <2> QED
        BY <1>1, <2>1, <2>2, ScriptFacts DEF IInv, Reaches, Goes, Arrived
<1>3. /\ \A q \in Procs \ {p} : /\ state'[q] = state[q] /\ next'[q] = next[q] /\ gone'[q] = gone[q]
                                /\ held'[q] = "none"
      /\ state'[p] # "migrating" /\ gone'[p] = {} /\ held'[p] = "none" /\ DOMAIN gone' = Procs
    BY <1>1, <1>2 DEF Leave, IInv, Types, Exclusive, DInv, NothingGone
<1>4. db'.version >= db.version /\ db'.version \in 0..6 /\ db.version \in 0..6
    BY <1>1, <1>2 DEF IInv, Types, Schema, Revisions, Onward
<1>5. Begun'
    <2> SUFFICES ASSUME NEW q \in Procs, state'[q] = "migrating"
                 PROVE  /\ next'[q] \in {1, 2, 3, 7, 8, 9, 11}
                        /\ Script[next'[q]].revision <= db'.version + 1
                        /\ next'[q] # 8 => gone'[q] = {}
        BY DEF Begun
    <2>1. q # p /\ held[q] = "none" /\ state[q] = "migrating" /\ next'[q] = next[q] /\ gone'[q] = gone[q]
        BY <1>2, <1>3 DEF IInv, Exclusive
    <2>2. /\ next[q] \in {1, 2, 3, 7, 8, 9, 11} /\ Script[next[q]].revision <= db.version + 1
          /\ next[q] # 8 => gone[q] = {}
        BY <2>1 DEF DInv, Begun
    <2>3. Script[next[q]].revision \in 1..6
        BY <2>2, ScriptFacts
    <2> QED
        BY <1>4, <2>1, <2>2, <2>3
<1>6. Working' /\ NothingGone'
    BY <1>3 DEF DInv, Working, NothingGone
<1> QED
    BY <1>5, <1>6, CommitIsMade DEF DInv

\* A hero is inserted only where the table has the columns it is given, which
\* tells between which statements the table is.
LEMMA CreateKeepsMore ==
    ASSUME IInv, DInv, NEW p \in Procs, Create(p)
    PROVE  DInv' /\ \A r \in db.rows : r \in db'.rows
<1> USE DeploymentAssumption
<1> DEFINE row == [id |-> inserted + 1, superpower |-> image[p] < 3, powers |-> image[p] >= 3,
                   owner |-> image[p] >= 4]
<1>1. /\ UNCHANGED <<image, state, work, next, gone, held>>
      /\ \A q \in Procs : held[q] # "table"
      /\ db' = [db EXCEPT !.rows = @ \cup {row}]
      /\ image[p] < 3 => "superpower" \in db.columns
      /\ image[p] >= 3 => "powers" \in db.columns
      /\ image[p] >= 4 => "owner_id" \in db.columns
    <2>1. image[p] \in 1..6
        BY DEF IInv, Types, Revisions
    <2> HIDE DEF row
    <2> QED
        BY <2>1 DEF Create, row
<1> HIDE DEF row
<1>2. /\ db'.columns = db.columns /\ db'.required = db.required /\ db'.version = db.version
      /\ db'.rows = db.rows \cup {row}
    BY <1>1 DEF IInv, Types, Schema
<1>3. PICK j \in Lasts : Made(db, j)
    BY DEF DInv, Committed
<1>4. image[p] < 3 => j < 6
    <2>1. "superpower" \in ColumnsAfter(j) => j < 6
        BY DEF ColumnsAfter, Lasts
    <2> QED
        BY <1>1, <1>3, <2>1 DEF Made
<1>5. image[p] >= 3 => j >= 6
    <2>1. "powers" \in ColumnsAfter(j) => j >= 3
        BY ScriptColumns DEF ColumnsAfter, Added, Adding, Lasts
    <2> QED
        BY <1>1, <1>3, <2>1 DEF Made, Lasts
<1>6. image[p] >= 4 => j >= 8
    <2>1. "owner_id" \in ColumnsAfter(j) => j >= 8
        BY ScriptColumns DEF ColumnsAfter, Added, Adding, Lasts
    <2> QED
        BY <1>1, <1>3, <2>1 DEF Made
<1>7. image[p] \in 1..6
    BY DEF IInv, Types, Revisions
<1>8. /\ j < 6 => row.superpower
      /\ j >= 4 => row.powers
      /\ row.owner => j >= 8
    <2>1. row.superpower <=> image[p] < 3
        BY DEF row
    <2>2. row.powers <=> image[p] >= 3
        BY DEF row
    <2>3. row.owner <=> image[p] >= 4
        BY DEF row
    <2>4. /\ j < 6 => image[p] < 3
          /\ j >= 4 => image[p] >= 3
        BY <1>4, <1>5, <1>7 DEF Lasts
    <2> QED
        BY <1>6, <2>1, <2>2, <2>3, <2>4
<1>9. RowsAfter(db.rows \cup {row}, j)
    BY <1>3, <1>8 DEF Made, RowsAfter
<1>10. Committed'
    BY <1>2, <1>3, <1>9 DEF Committed, Made
<1>11. Begun' /\ Working' /\ NothingGone'
    BY <1>1, <1>2 DEF DInv, Begun, Working, NothingGone
<1> QED
    BY <1>2, <1>10, <1>11 DEF DInv

LEMMA OutageKeepsMore == ASSUME IInv, DInv, NEW s \in Services, Outage(s) PROVE DInv'
<1>1. CASE s = "database"
    <2>1. /\ state' = [p \in Procs |-> IF state[p] = "migrating" THEN "down" ELSE state[p]]
          /\ gone' = [p \in Procs |-> {}] /\ held' = [p \in Procs |-> "none"] /\ UNCHANGED db
        BY <1>1 DEF Outage
    <2>2. Committed'
        BY <2>1 DEF DInv, Committed, Made
    <2>3. Begun' /\ Working' /\ NothingGone'
        BY <2>1 DEF Begun, Working, NothingGone
    <2> QED
        BY <2>2, <2>3 DEF DInv
<1>2. CASE s # "database"
    BY <1>2, UntouchedKeepsMore DEF Outage
<1> QED
    BY <1>1, <1>2

LEMMA InitHoldsMore == Init => DInv
<1> SUFFICES ASSUME Init PROVE DInv
    OBVIOUS
<1>1. Made(Empty, 0)
    <2>1. Added(0) = {}
        BY DEF Added, Adding
    <2> QED
        BY <2>1 DEF Made, Empty, ColumnsAfter, RequiredAfter, VersionAfter, RowsAfter
<1>2. Committed
    BY <1>1 DEF Init, Committed, Lasts
<1>3. Begun /\ Working /\ NothingGone
    BY DEF Init, Begun, Working, NothingGone
<1> QED
    BY <1>2, <1>3 DEF DInv

LEMMA NextKeepsMore == IInv /\ DInv /\ [Next]_vars => DInv'
<1> SUFFICES ASSUME IInv, DInv, [Next]_vars PROVE DInv'
    OBVIOUS
<1>1. ASSUME NEW p \in Procs, Start(p) PROVE DInv'
    BY <1>1, StartKeepsMore
<1>2. ASSUME NEW p \in Procs, Ask(p) PROVE DInv'
    BY <1>2, UntouchedKeepsMore DEF Ask
<1>3. ASSUME NEW p \in Procs, Acquire(p) PROVE DInv'
    BY <1>3, AcquireKeepsMore
<1>4. ASSUME NEW p \in Procs, Execute(p) PROVE DInv'
    BY <1>4, ExecuteKeepsMore
<1>5. ASSUME NEW p \in Procs, Commit(p) PROVE DInv'
    BY <1>5, CommitKeepsMore
<1>6. ASSUME NEW p \in Procs, Deadlock(p) PROVE DInv'
    BY <1>6, LeaveKeepsMore DEF Deadlock, Fail
<1>7. ASSUME NEW p \in Procs, Create(p) PROVE DInv'
    BY <1>7, CreateKeepsMore
<1>8. ASSUME NEW p \in Procs, Crash(p) PROVE DInv'
    BY <1>8, LeaveKeepsMore DEF Crash, Fail
<1>9. ASSUME NEW p \in Procs, Deploy(p) PROVE DInv'
    <2>1. \A q \in Procs \ {p} : image'[q] = image[q]
        BY <1>9 DEF Deploy, IInv, Types
    <2> QED
        BY <1>9, <2>1, LeaveKeepsMore DEF Deploy, Fail
<1>10. ASSUME NEW s \in Services, Outage(s) PROVE DInv'
    BY <1>10, OutageKeepsMore
<1>11. ASSUME NEW s \in Services, Recovery(s) PROVE DInv'
    BY <1>11, UntouchedKeepsMore DEF Recovery
<1>12. CASE ProbeStep
    BY <1>12, UntouchedKeepsMore DEF ProbeStep
<1>13. CASE UNCHANGED vars
    BY <1>13, UntouchedKeepsMore DEF vars
<1> QED
    BY <1>1, <1>2, <1>3, <1>4, <1>5, <1>6, <1>7, <1>8, <1>9, <1>10, <1>11, <1>12, <1>13 DEF Next

LEMMA SchemaInvariant == Spec => [](IInv /\ DInv)
<1>1. Init => IInv /\ DInv
    BY InitHolds, InitHoldsMore
<1>2. IInv /\ DInv /\ [Next]_vars => IInv' /\ DInv'
    BY NextKeeps, NextKeepsMore
<1> QED
    BY <1>1, <1>2, PTL DEF Spec

\* However many processes migrate at once and wherever one of them is stopped,
\* the version that is committed says which columns are (main.py lifespan,
\* alembic/env.py _do_run_migrations).
THEOREM SchemaWhole == Spec => []SchemaIsWhole
<1>1. ASSUME IInv, DInv PROVE SchemaIsWhole
    <2>1. PICK j \in Lasts : Made(db, j)
        BY <1>1 DEF DInv, Committed
    <2>2. /\ db.version = VersionAfter(j) /\ db.columns = ColumnsAfter(j) /\ db.required = RequiredAfter(j)
          /\ j \in 0..11 /\ Len(Script) = 11
        BY <2>1, ScriptRows DEF Made, Lasts
    <2>3. ASSUME NEW k \in 1..11, Script[k].op \in {"create", "add"}
          PROVE  \/ db.version >= Script[k].revision <=> Script[k].columns \subseteq db.columns
                 \/ /\ Script[6].op = "drop" /\ Script[6].revision <= db.version
                    /\ Script[k].columns \cap Script[6].columns # {}
        <3>1. k \in Adding
            <4>1. k = 1 \/ k = 2 \/ k = 3 \/ k = 4 \/ k = 5 \/ k = 6 \/ k = 7 \/ k = 8 \/ k = 9 \/ k = 10 \/ k = 11
                OBVIOUS
            <4> QED
                BY <2>3, <4>1, ScriptRows DEF Adding
        <3>2. db.version >= Script[k].revision <=> k <= j
            <4>1. VersionAfter(j) \in 0..6 /\ Script[k].revision \in 1..6
                BY Versions, ScriptFacts
            <4>2. Script[k].revision <= VersionAfter(j) <=> k <= j
                BY Versions
            <4> QED
                BY <2>2, <4>1, <4>2
        <3>3. CASE k > j
            BY <2>2, <3>1, <3>2, <3>3, Telltale
        <3>4. CASE k <= j /\ (k # 1 \/ j < 6)
            <4>1. Script[k].columns \in SUBSET Columns
                BY ScriptFacts
            <4>2. j >= 6 => "superpower" \notin Script[k].columns
                <5>1. j >= 6 => k = 2 \/ k = 3 \/ k = 8 \/ k = 9 \/ k = 11
                    BY <2>2, <3>1, <3>4 DEF Adding
                <5> QED
                    BY <5>1, ScriptColumns
            <4>3. Script[k].columns \subseteq ColumnsAfter(j)
                BY <2>2, <3>1, <3>4, <4>1, <4>2 DEF ColumnsAfter, Added
            <4> QED
                BY <2>2, <3>2, <3>4, <4>3
        <3>5. CASE k = 1 /\ j >= 6
            <4>1. Script[6].revision <= db.version
                BY <2>2, <3>5, Versions
            <4>2. "superpower" \in Script[k].columns \cap Script[6].columns
                BY <3>5, ScriptColumns
            <4> QED
                BY <4>1, <4>2, ScriptRows
        <3> QED
            BY <2>2, <3>3, <3>4, <3>5
    <2>4. db.version = Newest => db.columns = HeroColumns /\ db.required = HeroRequired
        <3> SUFFICES ASSUME db.version = Newest
                     PROVE  db.columns = HeroColumns /\ db.required = HeroRequired
            OBVIOUS
        <3>1. j = 11
            BY <2>2, Versions DEF Newest
        <3> DEFINE All == {"name", "superpower", "created_at", "updated_at", "powers", "owner_id",
                           "archived_at", "is_draft", "publish_at", "unpublish_at", "is_locked", "power_level"}
        <3>2. Added(11) = All
            <4>1. \A c : (\E i \in Adding : i <= 11 /\ c \in Script[i].columns) <=> c \in All
                BY ScriptColumns DEF Adding
            <4>2. \A i \in Adding : Script[i].columns \in SUBSET Columns
                BY ScriptFacts DEF Adding
            <4> QED
                BY <4>1, <4>2 DEF Added
        <3>3. ColumnsAfter(11) = HeroColumns
            <4>1. ColumnsAfter(11) = All \ {"superpower"}
                BY <3>2 DEF ColumnsAfter
            <4> QED
                BY <4>1 DEF HeroColumns
        <3>4. RequiredAfter(11) = HeroRequired
            <4>1. RequiredAfter(11) = ((All \cap NotNull) \cup {"powers"}) \ {"superpower", "name", "powers"}
                BY <3>2 DEF RequiredAfter
            <4> QED
                BY <4>1 DEF HeroRequired, NotNull
        <3> QED
            BY <2>2, <3>1, <3>3, <3>4
    <2>5. 6 \in 1..11
        OBVIOUS
    <2> QED
        BY <2>2, <2>3, <2>4, <2>5 DEF SchemaIsWhole
<1> QED
    BY <1>1, SchemaInvariant, PTL

\* No hero loses its power to a revision, whenever it was created
\* (91807f3de5be).
THEOREM PowersKept == Spec => []PowersAreKept
<1>1. ASSUME IInv, DInv PROVE PowersAreKept
    <2>1. PICK j \in Lasts : Made(db, j)
        BY <1>1 DEF DInv, Committed
    <2>2. db.version = VersionAfter(j) /\ RowsAfter(db.rows, j)
        BY <2>1 DEF Made
    <2>3. db.version >= 3 <=> j >= 6
        BY <2>2, ScriptRows DEF VersionAfter, Lasts
    <2>4. j < 6 \/ j >= 6
        BY DEF Lasts
    <2>5. CASE j < 6
        <3>1. ~(db.version >= 3) /\ \A r \in db.rows : r.superpower
            BY <2>2, <2>3, <2>5 DEF RowsAfter, Lasts
        <3> QED
            BY <3>1 DEF PowersAreKept
    <2>6. CASE j >= 6
        <3>1. db.version >= 3 /\ j >= 4
            BY <2>3, <2>6 DEF Lasts
        <3>2. \A r \in db.rows : r.powers
            BY <2>2, <3>1 DEF RowsAfter
        <3> QED
            BY <3>1, <3>2 DEF PowersAreKept
    <2> QED
        BY <2>4, <2>5, <2>6
<1> QED
    BY <1>1, SchemaInvariant, PTL

\* A step leaves every hero that has an owner in the table: a transaction that
\* commits works on a table that has them all, and has not deleted one of them.
LEMMA StepKeepsOwned ==
    ASSUME IInv, DInv, [Next]_vars
    PROVE  \A r \in db.rows : r.owner => r \in db'.rows
<1>1. ASSUME NEW p \in Procs, Commit(p) PROVE \A r \in db.rows : r.owner => r \in db'.rows
    BY <1>1, CommitIsMade DEF Commit, OwnedKept
<1>2. ASSUME NEW p \in Procs, Create(p) PROVE \A r \in db.rows : r.owner => r \in db'.rows
    BY <1>2, CreateKeepsMore
<1>3. ASSUME UNCHANGED db PROVE \A r \in db.rows : r.owner => r \in db'.rows
    BY <1>3
<1>4. ASSUME NEW p \in Procs, \/ Start(p) \/ Ask(p) \/ Acquire(p) \/ Execute(p)
                              \/ Deadlock(p) \/ Crash(p) \/ Deploy(p)
      PROVE  UNCHANGED db
    BY <1>4 DEF Start, Ask, Acquire, Execute, Deadlock, Crash, Deploy
<1>5. ASSUME NEW s \in Services, Outage(s) \/ Recovery(s) PROVE UNCHANGED db
    BY <1>5 DEF Outage, Recovery
<1>6. ProbeStep \/ UNCHANGED vars => UNCHANGED db
    BY DEF ProbeStep, vars
<1> QED
    BY <1>1, <1>2, <1>3, <1>4, <1>5, <1>6 DEF Next

\* Two processes that come to the DELETE of revision 4 one after the other do
\* not delete the heroes created in between (4733a4dd6da9).
THEOREM OwnedStay == Spec => OwnedHeroesStay
<1>1. IInv /\ DInv /\ [Next]_vars => [\A r \in db.rows : r.owner => r \in db'.rows]_vars
    BY StepKeepsOwned
<1> QED
    BY <1>1, SchemaInvariant, PTL DEF Spec, OwnedHeroesStay

=============================================================================
