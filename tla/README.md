# A TLA+ model of the hero service

This directory models the application of this repository: a FastAPI service
that offers one versioned resource, `heroes`, through a generic CRUD library
(`src/crud`), the page that shows it, its start-up against a database that has
to be migrated, and the scripts that release the repository, sync its
instances and moderate its issues.  The modules are translated from the code;
paths below are relative to `src/` of the repository, that is, `crud/...` is
`src/crud/...`, `app/...` is `src/app/...`, `alembic/...` and `.github/...`
are beside it.

A module can be checked with
`tlc -workers 2 -config Mock.cfg MCMockCrud.tla`, a proof with
`tlapm MockCrudProofs.tla`.

## 1. The system

### Components

| Component | State | Operations |
|---|---|---|
| Hero records (`app/models/hero.py`, `crud/models/mixins.py`) | one row: owner, required fields, draft flag, lock, archive marker, publication window | predicates and assignments the repositories apply |
| Repositories (`crud/repositories/*.py`) | the rows of a table | `create`, `get`, `list`, `count`, `update_many`, `delete_many`, `restore_many`, `stats` |
| `CRUDInterface` (`crud/interfaces/base.py`) | none of its own; calls a repository, a `RevisionSink`, an `EventSink` | scopes every write to the caller's rows, logs a revision, publishes an event |
| Version 1 of the API (`interfaces/compat.py`) | none | converts bodies and views of one version into those of the other |
| Controllers (`crud/controllers/*.py`) | none | parse a query, check the bulk cap, translate errors to statuses; JSON, XML and HTML routes |
| Unit of work (`crud/models/base.py`) | a session and its transaction per request | `get_db` commits at the end, or rolls back on an exception |
| Purge (`app/maintenance.py`) | a transaction | deletes rows archived before a cutoff |
| Event stream, `MODE=mock` (`InMemoryEventSink`) | a queue per subscriber id | `subscribe`, `publish`, `_events` and its clean-up |
| Event stream, MQTT (`MQTTEventSource`, `MQTTEventSink`) | a broker session per subscriber id | `subscribe`, `_events`, the detached DISCONNECT |
| SSE responses (`_sse_events` in `crud_router.py`) | the pending `__anext__`, the frame number | frames, keep-alives, cancellation |
| The page (`app/web_components.py`, `build_web_router`) | in the browser: the rows of the list, the boxes that are on, the fetches in flight, the stream | `refresh`, row and bulk actions, `onmessage`, the two forms |
| Statistics and forecast (`crud_stats.py`, `repositories/stats.py`) | none | aggregates, a least-squares line |
| Start-up (`app/main.py` lifespan, `alembic/`) | the schema and its version; the process's transaction | the `upgrade()` of six revisions |
| Health checks (`health/`, `app/health_checks.py`) | the checks of a probe that have not come back | `ready` |
| Release (`release.yml`, `compute_next_version.py`) | the tags | the next version |
| Template sync (`template-sync.yml`, `template_sync.py`) | the instance's file and `synced_tag`, sync branches and their PRs | the tiers, the three-way merge |
| Issue moderation (`moderate-*.yml`, `moderate_*.sh`, `reset_issue_state.sh`) | an issue's labels, its branch and its PR | triage, worker, apply, clean-up |
| Authentication, configuration, rendering, telemetry | see section 8 | |

### How they interact

A route calls an action of `crud_actions.py`, which calls the interface, which
calls the repository and then, for each changed row, the revision sink and the
event sink.  Under `MODE=mock` all of it runs in one turn of the event loop,
over dictionaries.  Otherwise every call is a database statement with an
`await` around it, inside the transaction `get_db` opened; the events go out
to the broker before that transaction is committed, and `GET /events` brings
them back through the broker to any number of clients.  The purge is another
process over the same table.  The page fetches from the same routes and calls
`refresh()` after its own actions and for every event.  A process migrates the
database before it serves, while others serve or migrate, and a probe asks it
whether its services are there.  The workflows meet in GitHub: labels, tags,
branches and pull requests are all the state they share.

### What is hard about it

* Between two statements of a request every other request, and the purge, may
  commit (READ COMMITTED, no `SELECT ... FOR UPDATE`): checks on loaded rows
  are stale by the time of the UPDATE.
* Row locks are held from the flush to the commit, so requests wait for each
  other and for the purge, and may deadlock.
* The mock has no rollback: a handler that fails half-way has changed what it
  has changed.
* A revision, an event and a row are three writes, of which the event is not
  part of the transaction.
* An SSE response is a generator over a generator: cancellation reaches it
  only where it is suspended, a `finally` runs only in a generator that was
  started, and keep-alives interrupt a pending `__anext__`.
* A broker session outlives its connections: takeover, redelivery, expiry, a
  full queue, and a server that dies or notices late that a client has left.
* Two repositories evaluate the same query, one in Python and one in SQL.
* In the page, answers come in any order and each replaces the list.
* Several processes migrate one database at once, each from the version it has
  read; requests of the old version go on meanwhile.
* Two workflow runs are concurrent unless a group forbids it, a group drops
  runs that wait, and everything a run has read may have changed when it acts.

### What makes it correct

1. A caller changes only its own rows; a locked row changes only by its
   unlock; an archived row only by its restore; no row is both.
2. Every change is logged with a revision that shows it and announced by an
   event that shows it.
3. A request that is answered with an error has changed nothing, one answered
   with success is durable, and every request is answered.
4. No concurrent request loses another's field, and the purge takes nothing
   that was restored.
5. A stream shows consecutive events, each once, and in the end all that was
   queued for it; a session keeps what it owes across connections.
6. Both repositories answer alike.
7. Statistics count one set of rows; a forecast continues a line.
8. The page acts on what it shows, and shows what it has done.
9. A process serves only with its schema; a revision is there whole or not at
   all, and takes nobody's heroes; a 200 of the probe was earned.
10. Versions go up, an instance never goes back, and nobody's edits are lost.
11. An issue's report is built upon once, as confirmed; a closed issue leaves
    nothing behind and a reopened one starts afresh.

`PROJECT.json` lists the places in the code where each of these could go wrong.

## 2. The modules

| Module | Models | Built on |
|---|---|---|
| `HeroRecords` | a row, a request body and the rules both repositories share | |
| `HeroStore` | the abstract store: one step per mutation | `HeroRecords` |
| `MockCrud` | the JSON routes of both versions and the form's, under `MODE=mock` | `HeroRecords`; implements `HeroStore` |
| `SqlCrud` | concurrent requests over Postgres, and the purge | `HeroRecords` |
| `EventQueues` | `GET /events` under `MODE=mock` | |
| `MqttEvents` | `GET /events` over the broker | |
| `Table` | the rows that the next two read | |
| `Queries` | list queries, parsed and evaluated twice | `Table` |
| `Stats` | `GET /stats` and `GET /predict` | `Table` |
| `Page` | the list and the forms in a browser | |
| `Health` | the readiness probe | |
| `Deployment` | processes that start, migrate, serve, die and are replaced | `Health` |
| `Versions` | tags, their order and the next one | |
| `TemplateSync` | releases of the template, syncs of an instance | `Versions` |
| `Moderation` | the moderation workflows over one issue | |
| `MockCrudProofs`, `SqlCrudProofs`, `ReadsProofs`, `MqttEventsProofs`, `PageProofs`, `DeploymentProofs`, `TemplateSyncProofs`, `ModerationProofs` | proofs; `ReadsProofs` those of `EventQueues`, `Stats` and `Queries` | |
| `MCMockCrud`, `MCSqlCrud`, `MCQueries`, `MCTemplateSync` | values of the constants for TLC | |

Operators whose comment begins with `Slip:` belong to no specification.  Each
is a definition as it would read after a plausible mistake in the code; putting
it in the place of the definition below it makes the property it is paired
with in `PROJECT.json` fail.

### HeroRecords

A hero is a record of the fields that carry a rule.  `name` and `powers` are
both nullable and both demanded by the create schema, so `name` stands for
both; `power_level` and `origin_date` carry none here (see `Queries` and
`Stats`).  A request body (`Changes`) distinguishes a field that was omitted
(`UNSET`, `exclude_unset=True`) from one that is null.  `Writable` is what
`update_many` and `delete_many` select, `Countable` what `count` does,
`RefusedByLock` is `_raise_if_locked`, `Renderable` whether `HeroV2` accepts
the row.

### MockCrud and HeroStore

No handler suspends in this mode, so a request is one step.  Each route is an
action whose disjuncts are its replies, in the order the code decides them;
`reply` is the status.  `revisions` and `events` are what the sinks were
given.  `UpdateMany`, `ArchiveMany`, `RestoreMany` and `Journal` are the
repository methods with the interface around them.  The routes of version 1
convert and call the same interface; what a conversion can refuse
(`superpower: null`) it refuses inside the handler, and its clone copies what
the old view shows, placeholders included.  `HeroStore` says what all
that amounts to: one atomic, owner-scoped step on the table, guarded by the
lock and the archive.  `Store == INSTANCE HeroStore` maps the table to itself.

### SqlCrud

`txn[w]` is what worker w holds: the program counter, the rows its SELECT
loaded, the rows it has written and not committed, the rows it shows.  One step
is one statement and the Python code up to the next.  `Flush` writes one row in
primary-key order once nobody else holds it and applies the SET list to the
newest committed version, as Postgres does after a wait; `NetChange` is
SQLAlchemy's habit of setting only what differs from the loaded value.  A row
that was purged meanwhile is found missing at the flush or at the refresh, and
either raises.  `PublishFails` is an `MqttError`, with the event sent or not.
`Crash` is the death of a worker, `DeadlockVictim` Postgres breaking a circle,
`PurgeBegins` to `PurgeAborts` the maintenance job.  The identity map refers to
its rows weakly, so a SELECT after a `get` loads them anew.

### EventQueues and MqttEvents

An event is its number.  A response goes through `new`, `opened` (subscribed),
`greeted` (first frame sent, generator not started), `waiting`, `alive` or
`fed`, and ends; from `opened` and `greeted` there is no started generator
whose `finally` could run.  In `MqttEvents` the browser's departure (`Leave`),
the server's noticing (`Cancel`) and the detached DISCONNECT (`Disconnect`) are
three steps; `session` is the broker's side, with the messages in flight and
the queue's limit, and `client` what the person behind the id has seen.  The
broker and aiomqtt are external: `Publish`, `Deliver`, `Acknowledge`,
`Expire` model them as the code relies on them.

### Queries and Stats

`Queries` parses a list query against the schema of its version and answers it
as each repository does, up to the exceptions.  A name is the set of its
characters and a string filter looks for one character: enough for case,
wildcards and `str(None)`.  `Stats` has both aggregations: the statements of
`SQLAlchemyRepository.stats`, one step each with commits between them, in terms
of COUNT, MIN, SUM, GROUP BY and `date_trunc` over sets of rows; and
`InMemoryRepository.stats` and `bucket_field_sums`, which go through the
records by their ids, adding to a sum (`PySum`) or to a dict (`Tally`), with the
`_bucket_start` of their own.  `seen` are the tables committed since a request
began, to compare its answer with.  The forecast is fitted in exact fractions.
A bucket is a number of days.  `Init`, `Next` and their like carry the module's name here, because
one module proves theorems about both and about `EventQueues`.

### Page

The browser runs one handler at a time and gives way at each `await`, so a
step is what happens between two of them: a `refresh()` is sent, read by the
server (`Read`) and answered (`Arrive`), each in any order with the others or
never; a click sends a request, which writes and publishes (`Serve`), commits
(`Commit`) and is answered (`Answer`).  `shown` and `checked` are the rows of
the list and the boxes that are on.  The server is external here and does what
`MockCrud` says of the owner's requests.  Every connection of the stream, the
first and each after a drop, begins with a frame of the subscriber id, an
unnamed message like any other, so that the page reads the list again (`Open`):
what was committed while the stream was down is made good.  `excuses` remembers
what nothing makes good: a read that is lost, fails to render or comes out of
order, a commit with no message left to be handled after it, and a stream that
is refused (`Refused`), which an `EventSource` does not try again.

### Deployment and Health

`state[p]`, `image[p]` and what p's transaction has done so far are a process;
`db` is what is committed: version, columns, what may not be null, the heroes.
`Script` is the six upgrades as statements; a process reads the version, and
`Ask`, `Acquire` and `Execute` take a statement through PostgreSQL's lock queue
to its effect, which for the statements that read rows is on what is
committed then.  `Fail` is a statement that is refused (a column that is there
already, a version that another process has moved), `Deadlock` PostgreSQL
ending one of two that wait for each other.  `Health` is the probe: each check
finds its service up or not (`Check`), the database's passes on errors that
are not SQLAlchemy's.

### Versions, TemplateSync and Moderation

`Versions` computes the next version from the set of tags, as
`compute_next_version.py` does, and the tag of an instance's channel.
`TemplateSync` has the template's releases, made by runs that computed their
version at an earlier moment, and one file of an instance, line by line, under
the tier the manifest of the release gives it.  `Sync` is a run of
`template_sync.py` with the push of its branch and its PR, which people then
resolve, update, merge or close in any order.  git is external.

`Moderation` follows one bug report.  A run of the group is a record of its job
and step; `applies` are the runs of the apply workflow, which no group keeps
apart, and each command of `moderate_apply_result.sh` is a step.  What Claude
does is a choice among what the prompts ask for and the failures of the step.
Any command of an apply run may fail, or its job time out (`CommandFails`), and
so may the steps of a reset or clean-up (`CleanupFails`; a label whose removal
fails is passed over, `|| true`); `failed` remembers which of the two has
happened where somebody else would have had to act.
GitHub is external: one running and one waiting run per group, a branch whose
push is refused unless it is a fast-forward, labels that are read when asked.

## 3. What the runs check

Every run has its bounds in its `.cfg`.

| Run | Question | Bounds |
|---|---|---|
| `Mock` | does the mock implement the store, and do its logs, locks and archive survive every order of requests? | 2 records, 2 users, 5 bodies and version 1's, all selections, cap 1, 2 instants, 4 changes in all |
| `SqlPairs` | what do two writers of the same rows and the purge do to each other? | 2 rows, 2 workers, 7 requests, 3 taken, 1 purge |
| `SqlRoutes` | does every route change its caller's rows only, and end? | every route, 2 workers, 2 taken, 1 purge, 2 instants, an id for every create |
| `EventQueues` | is a mock stream gapless, complete and live? | 3 connections, 2 ids, 2 events |
| `MqttSessions` | does a session keep and deliver what it owes? | 1 subscriber, 2 connections, 3 events, a queue of 2 |
| `QueryAnswers` | do both repositories answer alike? | up to 3 rows, 4 kinds of values with gaps, filters of one or two clauses, 5 sorts, 3 offsets |
| `Stats` | do the aggregates of five statements agree with the mock's loops, whatever is committed between them, and does a forecast have a slope and continue a line? | 3 rows, 3 days in buckets of 2, 2 levels and no level, 1 commit during a request, a history of 2 buckets (of 3 in `Forecast.cfg`) |
| `Page` | does the list act on what it shows, show what it did, and catch up? | 2 heroes, 2 acts of the user, another client or a failure, 2 reads in flight |
| `Deployment` | does who serves have its schema, are revisions whole, do heroes survive, do all get there? | 2 processes, the images of revisions 2, 3 and 6, 2 heroes, 2 redeployments, 1 crash, 1 outage of 2 services |
| `TemplateSync` | do versions go up, is nothing stale, taken away or taken back, does an instance catch up? | 3 releases, 2 channels, 2 lines, 2 edits, 1 local commit, 2 sync branches, 3 moves between tiers |
| `Moderation` | one build per report, as confirmed; nothing left of a closed one; nobody stuck? | 2 comments, 1 closing, 4 commits |
| `SqlLockRace` | (section 5) | 2 rows, 2 workers |

Why these bounds are enough to meet the interesting cases:

* Two records of two owners show what bulk requests do row by row and caller by
  caller.  Four changes reach create - lock - unlock - delete and create -
  delete - restore - update.  Users are interchangeable (`SYMMETRY`), and no
  step depends on the last reply, so `VIEW` leaves it out.
* Two workers make every race between two requests; a third request (`SqlPairs`)
  follows on what the first two left behind.  A circle of waits needs two rows.
  `SqlRoutes` has as many ids as requests may create, so that no request is
  stuck for want of one.
* Two connections under one id make a takeover; a third id or connection in
  `EventQueues` is the bystander.  A queue of two and three events fill it.
* Three rows with two values and a gap are the least in which a sort, a page
  and a tie all matter, and in which two of a group and one of another are
  counted.  One commit during a statistics request parts its statements into
  those before and those after it; a second (`MaxOvertaking = 2`) is covered by
  the proof.
* Two reads in flight are answered out of order; two heroes make a selection of
  which one row goes.
* Revisions 2, 3 and 6 are the versions before and after the copied column and
  the head; a process may have to run one revision, three or all six, beside
  one that does the same.
* Three releases make a base, a step and a step beyond it; two sync branches
  are open at once and merged in either order.
* Two comments are two confirmations; a closing and a reopening are two lives of
  the issue.  With a second closing (`MaxCloses = 2`, `MaxCommits = 5`) the run
  passes too, over 3.4 million states; it is left out for the time it takes.

Deadlock checking is off where the bound on requests, connections or acts is
the reason the system stops; the circles of waits among the transactions are
checked by `RequestsDoNotDeadlock`, `EveryRequestEnds` and `AllEndUpServing`
instead.

Each module also states its types (`TypeOK`), which are part of the invariants
proved for `HeroStore`, `MockCrud`, `EventQueues`, `Deployment` and
`Moderation` (`StatsTypeOK` and `QueriesTypeOK` where the module's name is part
of it); it may be added as an `INVARIANT` to any of the configurations.

Properties worth knowing:

* `LogsShowTheRow`: whoever reads only the revisions, or only the events, knows
  every row and whether it is archived.
* `ErrorsLeaveNoTrace`: with no rollback, every check must come before the
  first write.  It holds for bodies without `is_locked: null` (section 5).
* `NoFieldIsLost`: that two requests load a row and both write it loses
  nothing rests on SQLAlchemy's UPDATE naming changed fields only.
* `ChangesAreLogged`: the revision shows the row as committed, the other
  request's change included, because of the refresh between flush and view;
  and the event that shows it is out before the commit.
* `RequestsDoNotDeadlock`: the unit of work flushes in primary-key order.  The
  purge follows no order, and its circles are broken by Postgres.
* `OnlyArchivedRowsArePurged`: a DELETE that waited looks at its condition
  again, and an UPDATE of a row that is gone does not bring it back.
* `OwnIdMissesNothing` and `OwedEventsAreKept`: what a subscriber may rely on,
  with the assumption each needs in its formula (an id nobody else uses; from
  the moment the broker has lost the connection).
* `BackendsAgree`: the mock's answer is one the database may give, for queries
  that meet no missing value, wildcard or number beyond an INTEGER.
* `StatsAreOfTheirTime`: five statements under READ COMMITTED see up to five
  tables; each part of the answer must be what the mock's loops make of one of
  those committed during the request, and no part older than the one before it.
  It fails if an aggregate counts, groups or truncates otherwise than the loop,
  or if a part is taken from outside the request.
* `LinesAreContinued`: `forecast` divides by the spread of the buckets' places
  and counts on from the last one; the projection's start and the fit's must be
  the same.
* `EndsUpToDate`: without a click, also what others commit while the stream is
  down, unless one of `excuses` happened.
* `SchemaIsWhole`, `OwnedHeroesStay`: all pending revisions are one
  transaction, so that a process that comes too late loses all it did,
  the DELETE of revision 4 included.
* `FreshUnlessTakenBack`: `synced_tag` must name a base the file really has, or
  the next three-way merge takes an old text of the template for a local edit
  (`NoStaleTemplate`).  It does unless a release takes back a file that an older
  release of the channel left to the instances (`NeverTakenBack`).
* `OneBuildPerRepro`, `BuiltWasConfirmed`, `ConfirmedMovesOn` hold while the
  events of the issue leave each other time (`orderly`) or nobody closes it;
  `ClosedIsClean` and `RestartIsFromScratch` while they leave each other time
  and no step of a clean-up fails.  `ConfirmedMovesOn` also gives up once a
  command has failed after the relabelling: what it says is that no order of
  runs, labels and pushes leaves an issue on `confirmed` by itself.  Section 5
  says what happens otherwise.

## 4. Fairness

Safety needs none.  Liveness assumes what the runtime gives:

* `SqlCrud!Fairness`: weak fairness of each worker's next step (the event loop
  runs what can run, Postgres grants a free row), of the resolution of a
  deadlock, and of the purge's steps.  Weak fairness suffices because requests
  are bounded: a row cannot be taken away for ever.  Nothing is assumed of
  clients, crashes, failures of the broker, or the clock.
* `EventQueues!Fairness`, `MqttEvents!Fairness`: weak fairness of greeting,
  awaiting, clean-up, delivery and acknowledgement, and of uvicorn noticing a
  closed connection.  `Feed` and `BreakOff` are strongly fair: a keep-alive
  takes the response out of `waiting` again and again, but it fires only when
  `asyncio.wait` saw nothing come for its whole timeout, so it cannot do so for
  ever once something has.  Nothing is assumed of `Publish`, `Leave`,
  `Expire`, `ServerDies`.
* `Page!Fairness`: a fetch is read and answered, the browser runs the handler
  of what has come, the server serves, commits and answers; a stream that was
  broken off is opened again, as `EventSource` does.  Nothing is assumed of
  the user, of others, or of failures.
* `Deployment!Fairness`: the database comes back, an ended process is started
  again (by whoever runs it: a container's restart policy), a process goes on with its
  migration when PostgreSQL lets it, and of those that wait for each other one
  is ended.
* `TemplateSync!Fairness`: the scheduled workflow runs, and people deal with
  the pull requests they get, one way or another.
* `Moderation!Fairness`: a runner picks up a queued run and jobs have a
  timeout, so that a run ends, but a failure or the timeout ends it too: no
  command is assumed to succeed.  Nobody needs to comment, close or reopen.

## 5. Where the code and what it says of itself part

`SqlLockRace` is a run that ends in a counterexample: the lock check reads rows
loaded before the UPDATE, which goes by primary key; a lock committed in
between is ignored, against "atomic with the mutation itself"
(`crud/models/mixins.py:80-81`).

The others have a property and a configuration to reproduce them.  Where the
configuration is that of another property, its `INVARIANTS` and `PROPERTIES`
give way to `PROPERTY` and the name below (`INVARIANT` where marked *).

| Configuration (module) | Property | What the trace shows |
|---|---|---|
| `Mock` (`MCMockCrud`) | `BulkCapHolds` | the cap counts with `include_unpublished=False`, the update selects unpublished rows too (`crud_actions.py:69`) |
| `MockRestore` (`MCMockCrud`) | `RestoreOnlyArchived` | a bulk restore selects live rows and publishes a restore of each |
| `MockRestore` | `LockedSurfacesAs423` | publishing a locked record is a 500 (`crud_router.py:427`) |
| `MockRestore` | `CloneNeverCrashes` | cloning an incomplete draft is a 500 (`crud_router.py:405`) |
| `MockUnlockEdit` | `UnlockMayEdit` | a PATCH that unlocks and edits gets the 423 that `app/README.md:417-421` says it does not |
| `MockNullLock` | `RowsCanBeRead`* | `HeroV2Update` takes `is_locked: null`; the mock stores it, answers 500, and from then on every read and list with that row is a 500, against "none of this app's routes raise an unhandled exception on any real input" (`app/problem_details.py:79-80`).  Postgres refuses the value |
| `SqlLockRace` (`MCSqlCrud`) | `ArchivedIsUntouched` | a row archived after the SELECT is edited in the archive |
| `SqlPhantomEvent` | `EventsAreOfSuccesses`* | an event is out, its transaction is rolled back |
| `SqlSilentDelete` | `DeletesAreLogged` | a row inserted between the snapshot and the SELECT of a delete is archived without revision and event |
| `SqlRevisionOrder` | `NewestRevisionShowsTheRow`* | `created_at` is the start of a transaction, so the newest revision need not be the last one |
| `EventLeak` (`EventQueues`) | `NoQueueIsLeftBehind`* | a client that leaves before the generator was started leaves its queue |
| `EventLeak` | `OnlyOwnQueueIsDropped` | the late `finally` of an old stream pops the queue of the new one that has reconnected under the same id (`crud/interfaces/base.py:381`, against the comment at 371-372) |
| `MqttMissed` (`MqttEvents`) | `NothingIsMissed`* | a response cancelled before `_events` was started leaves a connection that acknowledges events for nobody, against FR-0024's "every event published in the interim"; only what is published after the server has noticed the departure is counted, the integration tests concede the time before |
| `MqttLeftBehind` | `GoneAreDisconnected` | as above: no DISCONNECT, ever |
| `MqttHeader` | `SessionsHaveOneClient` | the `Last-Event-ID` a browser returns is a frame number; two clients share session "0" |
| `QueryAnswers` (`MCQueries`) | `QueriesAreAnswered`* | a negative skip, a wide number, an order over `None`: 500 |
| `QueryAnswers` | `OnlyColumnsArrive`* | a v1 query for `superpower` passes `parse_filters` and no repository knows it |
| `QueryAnswers` | `ContainsIsSubstring`* | `%`, `_` and `str(None)` match what they are not in |
| `Stats` | `CountsWithinTotal`* | a create between two statements: count above total |
| `PageStale` (`Page`) | `AlwaysEndsUpToDate` | the stream is refused, as by an error while the broker is away, and the list stays as it was read first; likewise when an event is published before its commit and the refresh it causes reads the old list |
| `PageForm` | `FilledFormIsStored` | `<hero-form>` sends a blank `power_level` as `""`, which is refused, and resets itself all the same |
| `Deployment` | `StartsSucceed` | two processes start at once and one fails on what the other has created; or a hero is inserted without an owner between the DELETE and the ADD COLUMN of revision 4 (against FR-0020); started again, they get there |
| `Deployment` | `UnhealthyIs503` | the database's check catches SQLAlchemy's errors only: a connection refused is a 500, against FR-0011 "With any one dependency unhealthy, it returns 503" |
| `ModerationClose` (`Moderation`) | `AppliesRaceNothing`* | a closed issue's branch is pushed after its clean-up, by the apply workflow that is in no group; "there's nothing left for apply to race" (`.github/workflows/README.md`) |
| `ModerationFailed` | `NeverStuck` | the push, `gh pr create` or the job's timeout ends the apply run under `set -euo pipefail` with the label on `confirmed`, against "rather than leaving the issue silently stuck" (`.github/workflows/README.md`) |
| `ModerationReopen` | `ReopenedIsStripped`* | `\|\| true` lets a label stay, and triage goes on, against "reopening it strips every ... stage label" (`.github/workflows/README.md`) |
| `ModerationReopen` | `ReopenedIsTriaged` | the feature workflow's run takes the one waiting place of the group from the triage |
| `ModerationFailed` | `ConfirmedIsHeard` | the worker packages a "failed" result (`moderate-bug-fix.yml:101-103`), which the apply workflow, that only follows a success (`moderate-bug-fix-apply.yml:24`), never reads |
| `SyncTakenBack` (`MCTemplateSync`) | `NoStaleTemplate`* | a file that went from merge to ignore and back: `synced_tag` moved on without it, and its old text passes for a local edit |
| `SyncOverlap` (`MCTemplateSync`) | `NoStaleTemplate`* | the same without any move back: of two release runs that overlap, the higher version has the older commit, from before the file was left to the instances (`release.yml` has no concurrency group) |
| `SyncLeftBranch` | `AlwaysCatchesUp` | a run that pushes its branch and cannot open the PR leaves a branch that refuses every later push |

## 6. What is proved

For every set of users, names and bodies, every number of ids and instants and
every cap; any number of workers and requests; any number of connections,
subscribers and events and any queue limit; any number of clicks and reads; any
number of processes, images, heroes, redeployments, crashes and outages; any
file, any number of releases, commits and syncs; any number of comments,
closings and commits; any table, bucket width, history and number of periods.
The assumptions on the constants are the named `ASSUME`s of the
modules that declare them; TLC evaluates them in the runs.  They say that
bounds are naturals, that marks such as `NULL`, `Nobody` or the purge's name
are not among what they are told apart from, that there is a request to work
on and a text to write, that the parts and channels are those the release
form offers, and that a list is sorted by numbers.

* `MockCrudProofs!StoreInvariant`: the store is well-typed and nothing in it
  is locked and archived at once.
* `MockCrudProofs!StorePromises`: locked rows change only by the unlock,
  archived rows only by the restore, no row changes hands or disappears.
  `TypeOK /\ LockedNotArchived` is inductive, and the second conjunct is what
  the proof turns on: `restore_many` never looks at the lock, and a locked row
  is safe from it only because it cannot be in the archive, neither by
  archiving (refused) nor by locking (an archived row is not selected).
* `MockCrudProofs!MockInvariant`: the same for the mock.  The inductive
  invariant is `TypeOK /\ Fresh /\ LockedNotArchived`; `Fresh` (ids not yet
  handed out have no row) is what makes a create take a free id.
* `MockCrudProofs!MockImplementsStore`: `Spec => StoreSpec`.  Each route is a
  refusal or one of four shared steps over rows of the caller
  (`RequestIsHandled`), and each shared step has a lemma that it keeps the
  invariant and is a step of the store.  With `StorePromises` the refinement
  carries the promises over to the mock (`MockKeepsPromises`).
* `MockCrudProofs!OwnersAct`: everything ever done to a record was done by its
  owner.  The invariant adds `Blank`: a record that does not exist yet has no
  revisions, so that a create does not inherit any.
* `MockCrudProofs!LogsShow` and `ErrorsAreClean`: the newest revision and the
  newest event show the row, and an error leaves no trace, both under the
  hypothesis `NoNullLocks` that no body carries `is_locked: null`; without it
  both are false (`MockNullLock`).  The invariant adds `Renders`: every row can
  be rendered, so that no handler raises between its writes and its logs.
* `SqlCrudProofs`: six properties from one invariant about row locks.
  A transaction changes only rows it has locked (`Exclusive`: a row has one
  writer), so that what it wrote stands to the committed row as it did when it
  was written (`OnTable`: same owner, and only the fields the body names
  differ).  An INSERT takes an id nobody can have loaded (`Unseen`,
  `Numbered`), and the purge locks what it deletes (`PurgeInv`).
  - `NoFieldLost`, `OwnRowsChange`, `ArchivedRowsPurged`: what a commit or the
    purge may do to the table follows from `OnTable` and `PurgeInv` at the
    commit.
  - `ChangesLogged`, `AnswersDurable`: `Logged` follows a handler through its
    report, row by row, from the event to the revision; what is answered was
    committed, and revisions are never taken back.
  - `DeadlockFree`: the flush goes by primary key (`InOrder`: what a
    transaction holds is below what it still waits for).  If some requests all
    waited for each other, the one that waits for the largest row would wait
    for somebody who holds it and waits for a larger one.
* `ReadsProofs!QueuesAreGapless`: what a connection to the mock was sent,
  followed by what waits for it, are consecutive events.  A publication puts
  its number into every registered queue, so that this is inductive only with:
  a registered stream was given everything up to the last publication
  (`Inv(s)`, `Given`).  A stream that lost its registration to a reconnection
  or to another stream's clean-up gets nothing any more, and stays gapless.
* `ReadsProofs!QueuesMissNothing`: a connected stream whose id nobody
  else ever used has everything published since it subscribed.  The invariant
  adds that such a stream is registered: only a clean-up or a subscription
  under its own id could take that away.
* `ReadsProofs!StatsAgree`: `StatsAreOfTheirTime`.  Two halves.  For any table
  the aggregates of SQL and the mock's loops come to the same
  (`AggregatesAgree`): a sum record by record is the sum over the set
  (`PySumIsSum`), a dict filled record by record has under each key the number
  of records with it (`TallyCounts`), both by induction on the records, and
  `date_trunc` is the day less the days since its bucket began
  (`BucketsAgree`).  And whatever is committed, what a statement reads is the
  newest of the tables seen since the request began, which only grow in number
  (`SeenInv`), so that the moments are in the order of the statements.
* `ReadsProofs!LinesGoOn`: `LinesAreContinued`.  The denominator of the slope,
  times the number of buckets, is a sum of squares that are not all 0
  (`SpreadIsPositive`), so it is not 0; and the numerator is what the algebra
  of sums makes of values on a line (`FittedLine`, `LineGoesOn`).  The sums are
  folds over sets of any size.  That the recursive function behind a fold
  exists (`SumExists`) and that it is linear in its terms (`SumIsLinear`) is
  proved by induction on the size of the set, from `LeastNatural`; the
  hypothesis is a set, those it holds of, instead of an operator.
* `ReadsProofs!RepositoriesAgree`: `BackendsAgree`.  A clause of an ordinary
  query holds of the same rows in both (`ClausesAgree`).  What they are sorted
  by is the lexicographic order of their keys (`PrecedesIsLex`), which is a weak
  order (`PrecedesIsAWeakOrder`); with ids to tell ties apart it is total, so
  that a finite set of rows has an order as `sorted()` leaves it (`SortExists`,
  by induction again), and no `ORDER BY` forbids it (`SortedIsAllowed`).
* `MqttEventsProofs!FramesOrdered` and `OwedKept`: a response shows events in
  order and each once, and what is owed is kept.  `LinkInv` ties a response to
  the session it has: the messages in flight are among what it was given, the
  rest of the queue is newer than all of it, and everything since it joined is
  with it, in the queue, or dropped.  The first makes it sound that an
  acknowledgement forgets a message, the second that the next one comes in
  order.  A session nobody is connected to keeps all that is owed to the next
  connection (`SessionInv`), also when it is taken over.
* `DeploymentProofs!ServesSchema`: who serves has the schema of its image.  The
  invariant adds that while one transaction holds the table alone nobody else
  has a lock of it (`Exclusive`, `OnlyMigratingHold`), so that what it commits
  is not older than what is committed (`Onward`), and that a migrating process
  has a statement left to execute or has come to the version of its image
  (`Reaches`).
* `DeploymentProofs!ReadyEarned`: the action property `ReadyIsEarned`, from the
  above and `ProbeInv`, which follows the probe under way.
* `DeploymentProofs!SchemaWhole`, `PowersKept` and `OwnedStay`: the committed
  table is always what a prefix of the script makes of an empty one, at the end
  of a revision (`Committed`, `Made`).  While a process works on the table, its
  copy is such a prefix too, up to its next statement -- or it is stale, and
  then the next statement adds a column that is there and is refused
  (`Working`, `Stale`).  Stale is what a process that waited for the table
  usually is; `TableIsFound` shows that it cannot be in between, because each
  statement that adds has a column nobody drops (`Telltale`).  That a late
  DELETE takes nobody's hero falls out of it: the process that ran it is stale,
  and `ADD COLUMN owner_id` ends it.
* `ModerationProofs!BuiltOnce`: `OneBuildPerRepro`.  Two builds have different
  parents because each is pushed on the newest commit there is (`InvTip`).
  That needs the branch to exist when the push is tried, since a push creates
  a branch that is gone, whatever it is based on: `InvPinned` and `InvHeld`
  follow the base from the worker's gate to the push, and `InvQuiet` says that
  nobody deletes a branch in the meantime.

* `ModerationProofs!ConfirmedIsBuilt`, `ClosedRestsClean`, `RestartsBare`: the
  proof follows the label `repro-ready`.  While it is there and a branch with
  it, the tip is the reproduction that every confirmation means and that every
  worker and every apply run has pinned (`InvReady`); the first apply run takes
  it away before it pushes, so that a second one finds no label or a push that
  is refused (`InvBase`).  Triage runs with nobody else under way
  (`InvTriage`), and a closed issue is clean or has its clean-up running
  (`InvClosed`).

* `PageProofs!SelectionShown` and `OwnChangesShown`: the second is about a list
  at rest, and the proof follows what carries it there.  The `refresh()` sent
  last is sent after the commit of every answered click (`SettledIsCommitted`),
  so whatever it reads agrees on the rows the page changed last (`Coming`); its
  rendering (`Here`) makes every one still in flight late, and a late one that
  is rendered is an excuse.  A click is answered once and has a number of its
  own (`Clicks`), so that a row somebody else writes next is no longer the
  page's.
* `TemplateSyncProofs!VersionsAreNew`: `Below` and `Precedes` are the
  lexicographic order, which is total (`PrecedesIsAnOrder`).  That any set of
  tags has a highest one, and any series a highest number, is part of the
  invariant (`Maximal`) and kept by each release: induction over the steps takes the place of one over
  the sets.
* `TemplateSyncProofs!SyncsMoveOn`: a branch goes from where the instance is or
  was to a higher tag (`Onward`), and is merged only from where it is.
* `TemplateSyncProofs!LocalEditsStay` and `FilesStayFresh`: what a branch holds
  of the instance's lines (`Retained`) and of its tag's texts (`Fresh`), line by
  line through `Merge`, the resolution of conflicts and updates from a main
  that has moved on.  Only the instance has moved main since (`Followed`): a
  merge changes `synced_tag`, and by `Onward` no other branch starts there.
  Looking for this proof showed that the property needs `NeverTakenBack`, and
  that a manifest which takes nothing back does not ensure it (`SyncOverlap`).

The proof modules of the components that write rows begin with lemmas on
records and tables: what `NewHero`, `Updated` and `Put` return, which rows a
scope selects.  Every inductive invariant was checked by TLC on the run's
instance, or a smaller one, before it was proved.

Only model-checked: the liveness property of each run that has one, because
fairness and ENABLED are beyond the prover.  Every safety property of the runs
that pass is proved.

## 7. Plan

Done: all the modules and proofs above.

Left: `SqlCrud` and `MqttEvents` together, the events of a transaction through
the broker to the page, so that `Page` stands on their composition instead of
its own summary of a server.

## 8. What is not modelled, and why

* The XML router: it calls the same actions; parsing and rendering have no
  state.  The panels of the page that only show what they fetch (history,
  statistics), and the markup.
* The paths of the repositories without an owner scope, and the hard delete:
  no resource of the application reaches them.
* Regex filters, dates and enums in queries: compared as numbers and texts are.
  The limit of 100 rows of a list is beyond the tables checked; rows a sort
  leaves tied may come in any order.
* Averages (the quotient of two numbers that are compared), calendar weeks and
  months, the publication window in statistics.
* Authentication and roles: a library validates tokens and caches its keys; a
  role is one membership test, kept as `Writers` and `Deleters`, and a request
  carries its caller.  Rate limiting is slowapi's.
* Rendering of errors, headers, telemetry, configuration and its validators,
  the XML codec, the wiring of `app/main.py` beyond its lifespan: formatting
  and start-up.  An exception nobody catches is the reply 500 (`Crashed`), or
  the answer `crashed`.
* The downgrades and the offline mode of the migrations: run by hand, if ever.
* The cadence of the sync and the parsing of its manifest, the text of a pull
  request, the push to a registry.  A file whose pattern leaves the replace
  tier is not followed, nor the conflicts of old pull requests on `synced_tag`
  itself.  `Dispatch` fixes the commit and reads the tags in one step; the code
  fixes the commit a little earlier, when the run is dispatched.  Two runs that
  compute one version are told apart by GitHub, which refuses the second
  release.
* The moderation of feature requests: the same code with other labels.  Pushes
  of people to the branch of a reproduction, which only the workflows use
  (the gate of `moderate-bug-fix.yml` pins its tip all the same), and the search
  of `moderate_cleanup.sh` for a PR by its text, when the branch has none.
