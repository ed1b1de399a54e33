# A verification project for convertor

convertor is an OpenStack-style service: an HTTP API keeps *tasks* ("convert
glance image X to format Y") in a database and casts each task that has to be
run to a worker, which downloads the image and runs `qemu-img convert` on it.
This directory holds TLA+ modules that model the service, TLC configurations
that check them on small instances, and proofs, checked by TLAPS, of what holds
for every instance. All source paths below are relative to `src/convertor/`.

The commit does not run as it stands: many names the code uses are defined
nowhere (`Connection._get_goal`, `base.WatcherObjectSerializer`,
`CONF.convertor_worker`, the module `convertor.worker.task`, the driver namespace
that `db/migration.py` asks for and `setup.cfg` declares under another name, ...). `Names.tla`
lists them, grouped by the step that evaluates them, and the constant `Resolved`
says which of them to take as defined as their evident counterpart. A step one
of whose names is missing can only raise. The runs set `Resolved` to all names
(the program its authors meant), except the run `launch_dropped`, which leaves
one of them as it is; the theorems hold for *every* value of `Resolved`.

## Inventory

| Part | State it keeps | Operations | Interacts with |
|---|---|---|---|
| Task API, writing (`api/controllers/v1/task.py`, `objects/task.py`) | one local state per request in flight | POST, PATCH, DELETE | database (several transactions per request), topic (one cast) |
| Task API, listing (`task.py`, `v1/utils.py`, `v1/collection.py`) | none; a client holds a marker | GET one, GET a page | database |
| Task table (`db/sqlalchemy/`) | rows, soft-deleted ones included | insert, get, update, soft delete, list | unique constraint on uuid, NOT NULL columns |
| Launch topic (`worker/rpcapi.py`, `common/service.py`) | messages in flight | cast, take | API processes to worker |
| Worker endpoint (`worker/messaging/trigger.py`) | the executor's backlog and its green threads | submit, run, catch-all | topic, jobs |
| Conversion job (`worker/default.py`) | where it is in its download | look up, open, write chunks, convert | database, glance, files |
| Processes (`common/service.py`, `common/config.py`, `cmd/`, `api/app.py`) | how far each has come: prepared, built, serving, reloading | start, build, listen, reload on SIGHUP, fork, die | RPC, oslo.service's launcher |
| RPC set-up (`common/rpc.py`) | three module globals | init, cleanup, getters | oslo.messaging |
| Engine facade (`db/sqlalchemy/api.py`) | one module global | lazy creation | every green thread |
| Migration (`db/sqlalchemy/migration.py`, `alembic/env.py`, `db/migration.py`, `cmd/dbmanage.py`) | tables, alembic version | version, upgrade, create_schema, downgrade, stamp, revision | alembic; other dbmanage processes |
| Keystone helper (`common/keystone_helper.py`) | users and role grants, in keystone | create and delete users, look things up | keystone; other callers |
| API root, links, versions, hooks, policy, conf, utilities | none | parsing, formatting, declarations | - |

What is hard in this code, and where (the full list, line by line, is under
`hazards` in `PROJECT.json`):

* **Interleaving.** The API runs in several processes and each on green threads
  (`cmd/__init__.py` monkey-patches), which yield at every database, broker or
  disk operation. PATCH is a read transaction and a write transaction; DELETE is
  a read and two writes; POST is a write and a cast. Handlers of different
  requests, and jobs of the worker, interleave at all of these points.
* **Partial failure.** Every one of these steps can raise and leave the earlier
  ones committed; nothing rolls back or retries.
* **Loss.** A cast is acknowledged before the worker's executor holds it, so a
  worker that dies loses its backlog and its jobs.
* **Children that outlive their parent.** A job's `qemu-img` is a child process; a worker
  that is killed leaves it reading a file that the next worker may truncate.
* **Shared files.** A download goes to a path made from the image's *name*, which
  glance does not keep unique.
* **No transactional DDL.** On SQLite, the default, and MySQL a migration is killed
  between any two statements.
* **Check, then act, across a call.** The engine facade tests a global, connects and
  sets it; create_schema looks at the version, makes tables and stamps; delete_user
  looks a user up by name and deletes by id. Green threads, other dbmanage processes
  and other callers run in between, and a kill may come there.
* **Stale reads.** PATCH decides from a snapshot; the worker reads the task long
  after the request that launched it; a page's marker is read before the page.

What makes each part correct:

* *Task API*: a uuid is created once, soft-deleted or not; no write resurrects a
  task; no request overwrites a column it did not name; a launch is never cast
  before the row it names is committed; an answer is true from then on; every
  request is answered.
* *Topic and worker*: a launch is in one place and is never run twice, even
  across a crash; a job finds its row; a launch that is cast reaches a job.
* *Job*: what qemu-img reads is the whole image of its task and nothing else.
* *Listing*: following `next` visits each undeleted task once.
* *Processes, RPC set-up, facade*: what a service asserts is set before it is built; a
  process makes few engines and settles on one, and shares none with its parent.
* *Migration*: a recorded version is that of the tables or, while a script is under way or
  after a kill, one script away from it, and no command makes that worse.
* *Keystone helper*: a user that is returned is complete; the one that is deleted is
  the one that was found, and stays deleted.

## Modules

| Module | Models | State |
|---|---|---|
| `Names` | the undefined names, per step | constant `Resolved` |
| `TaskStore` | the `tasks` table and the transactions of `db/sqlalchemy/api.py` | `table`: uuid to row or `NoRow` |
| `LaunchTopic` | `WorkerAPI.launch_task` and the topic | `sent`, `taken`: messages ever cast, and ever taken |
| `TasksApi` | the handlers of `TasksController` down to their transactions | `req`: per request its method, program point, changes and flags |
| `Worker` | `TriggerTask`, the executor, `DefaultWorker` | `backlog`, `job` (per green thread), `orphans` (qemu-img processes that outlived the worker), `file`, `crashes` |
| `Convertor` | API and worker over one table and one topic | all of the above |
| `TaskContract` | the abstract specification: life of tasks, stages of launches | `life`, `work` |
| `Listing` | GET /tasks: a client's walk along the `next` links while rows change | `rows`, `walk`; `seen`, `repeated`, `stable`, `lost` record what the walk did |
| `ServiceProcess` | processes from `main` on: `rpc.init`, services, reload, fork; the engine facade | per process `kind`, `pc`, `globals`, `client`, `facade`, `making`, `made` |
| `Deployment` | the schema, releases and dbmanage commands over these processes | `release`, `code`, `tables`, `version`, `cmd`, `cut`, `void` |
| `SchemaContract` | the abstract specification: life of the tables and their version | `of`, `recorded`, `newest`, `spoiled` |
| `KeystoneHelper` | `create_user`, `delete_user`, call by call | `users`, `used`, `call` |
| `UserContract` | the abstract specification: users, and what callers are told of them | `users`, `gone`, `told` |
| `MCTasksApi`, `MCConvertor`, `MCListing`, `MCDeployment`, `MCKeystoneHelper` | instances for TLC | |
| `TasksApiProofs`, `AnswerProofs`, `ConvertorProofs`, `ContractProofs`, `ProgressProofs`, `ListingProofs`, `DeploymentProofs`, `KeystoneProofs` | the proofs | |

`TaskStore` and `LaunchTopic` are extended by both `TasksApi` and `Worker`, and
`Convertor` extends the two: the variables are shared, as the database and the
broker are. `Convertor` instantiates `TaskContract` with a refinement mapping, as `Deployment` does
`SchemaContract` and `KeystoneHelper` `UserContract`.
`Listing` stands alone: it needs of a row only what a page depends on (its id,
the column it is sorted by, deleted or not), and of the writers only what they
do to these. `Deployment` extends `ServiceProcess`: a dbmanage process is a
process like the others, whose engine its command uses. `KeystoneHelper` stands alone,
as nothing else in the repository calls it; its state is keystone's.

### State and actions against the code

*Rows.* A row keeps the columns that some code branches on: image, format,
status and deleted_at (NULL or not). bucket_id, created_at and updated_at are
only copied. `status` is free text in the code; the model uses the five values
of `objects.task.Status`.

*A handler is a sequence of steps.* `req[r].pc` names the transaction or the
cast that request r does next, and each action is one transaction (a
`session.begin()` block) or one cast with everything the handler does up to the
next one:

| pc | actions | code |
|---|---|---|
| (arrival) | `Post`, `Patch`, `Delete` | `task.py:178, 196, 206`; `JsonPatchType.validate` |
| create | `Create`, `CreateDuplicate`, `CreateInvalid` | `Task.create`, `Connection.create_task` |
| get | `GetForPatch`, `GetForDelete`, `NotFound`, `PatchInvalid`, `PatchRefused` | `Task.get_by_uuid`, then `patch()`'s loop or `soft_delete()`'s assignment |
| save | `Save`, `SaveInvalid` | `Task.save`, `Connection._update` |
| soft_delete | `SoftDelete` | `Connection._soft_delete` |
| launch | `Launch` | `WorkerAPI.launch_task` |
| any | `ServerError` | an exception at this point: 500, nothing undone |

A PATCH document is modelled by the columns it ends up setting
(`Unset` for the others); `Changes` and `Launches` are `patch()`'s loop over
`objects.Task.fields`. Two of its subtleties are in the model: the comparison is
with the row *as read*, and the launch depends on the status the document ends
up with, changed or not.

*The topic* is a set, because casts of different processes have no order, kept
as what was ever sent and ever taken, which lets properties speak of the past.
The worker takes a message (`Receive`) into the executor's backlog; a green
thread starts the oldest submission (`Start`) and runs `DefaultWorker.execute`:
`Lookup`, `Open`, one `Write` per chunk, `Convert`; `Fail` is the catch-all of
`do_launch_task` at any of these points, and `Crash` the death of the process.
An orderly stop is a `Crash` too: `Service.wait` does nothing and nobody shuts the
executor down, so the process exits with its backlog and its jobs. What does not die
with it is a `qemu-img` that is running: `Crash` leaves any part of the conversions
behind in `orphans` (a signal to the whole process group ends them, one to the worker
does not), and `OrphanEnds` is the end of one, which reads its file up to then. Nobody
waits for it: its launch is over for the service.

*Files* hold, per chunk position, which image's bytes are there. `Open`
truncates; each `Write` writes at the job's own position, as two Python file
objects on one path do.

*A page* is one request. `Ask` and `Follow` are its validation and, when the link
has a marker, the transaction that reads the marker's row (`Task.get_by_uuid`;
`MarkerGone` when that raises TaskNotFound); `ListTasks` is the query and the
answer. Between the two other requests may do anything. The page is a set: the
rows after the marker's values *as read*, in the order of (column, id), as many
as the limit allows. `ValidLimit`, `HasNext` and `IsLast` are `validate_limit`,
`has_next` and the marker of `get_next`. `stable` holds the tasks there since the
walk began that no step has moved or hidden; `lost` says that a PATCH moved the
marker's own row between two pages, after which nothing can be promised.

*A process* is at one of six points: `down`, `parsing` (in `parse_args`, whose last
call is `rpc.init`), `ready`, `built`, `serving`, `reloading`.

| from | action | code |
|---|---|---|
| down | `Start` | `prepare_service`, `parse_args`; only if the names of its modules resolve |
| parsing | `SetTransport`, `SetNotificationTransport`, `SetNotifier` | `rpc.init`, a global at a time |
| ready | `BuildApi`, `BuildWorker` | `VersionSelectorApplication`; `Service.__init__`, whose topic handler asserts the transport |
| built, reloading | `Listen` | `Service.start` |
| serving | `Reload` | `stop` and `reset`: the green threads that run go on |
| serving, reloading | `DiesForked` | a child of the API's launcher dies and another is forked from the parent: globals set, no engine |
| any but down | `Dies` | the end, a signal, an exception out of `main`; what was in memory is gone |
| serving, reloading | `MakeClient` | the first cast: `conductor_client` |
| serving, reloading; ready for dbmanage | `AskEngine`, `EngineMade`, `EngineFails` | `_create_facade_lazily`: test, `from_config`, assignment, in any green thread |

`from_config` connects to the database to look at its dialect, and a monkey-patched
connect yields, so `AskEngine` and `EngineMade` are steps apart. `made` counts the
engines each thread has made since the process began.

*The schema* is what tables there are and what version is recorded. A release is
named by its newest revision; release 0 has models and no script, as this commit
has. `Begin` takes a command and a revision. `env.py` asks for a transaction, but alembic's
back ends for SQLite (the default of `conf/db.py`) and MySQL give none to DDL. So a
migration is a loop: `Upgrade` and `Downgrade` read the version and list the scripts;
then, per script, `BeginScript` is its first statement, which fails on tables it was not
written for, `EndScript` its last, and `RecordVersion` writes the version. In between the
tables are `Torn`. On a database with transactional DDL fewer of these behaviours occur.
`create_schema` is three transactions: `CheckVersion`, `CreateAll`, `StampHead`. A command
may be killed before each of these steps (`Exit`; `cut` says that a migration was, between the
beginning of a script and its version), and any number run at once. A process keeps the
models and scripts of the release it was started from (`code`), while `Release` installs
the next one.

*A keystone call* is a step that keystone carries out, with or without its answer
arriving: `CreateUser`, `Grant` and `DeleteUser` end either in the next step or in
`raised`, and `Raise` is an error without effect. Roles, projects and domains are
looked up by id and then by name (`Found`), which may be nobody or several.

### The contracts

`TaskContract` is what a user of the service may rely on: a task goes from
absent to live to deleted; a launch goes none, owed (its write is committed),
queued, running, over, and may be given up at any point but never goes back.
`Convertor` maps its state to this (`lifeBar`, `workBar`) and `KeepsContract`
says that each of its steps is one of the contract's or invisible.

`SchemaContract` is what dbmanage promises to operators who keep its rules: tables are
made in one piece, those of the newest release; then a script takes those of the recorded
version to a neighbour's, and nobody else touches them meanwhile; a version is recorded
only for tables that are whole and its own. Processes, engines, the list of scripts of a
migration, the three transactions of `create_schema` and kills are invisible: of commands
that race, each step is one that a single command could have taken, and after a kill the
schema is at one of the contract's points, torn at worst, never mislabelled. A breach of
the rules (`void`) ends the promise.

`UserContract` is what the keystone helper promises its callers: a user is made, gains
roles one by one and is removed for good; a caller is told "made" of a user that has
every role asked for or is already gone again, and "removed" in the very step that
removes the user. `toldBar` reads off a call what it has returned; a call that raised
has told nothing.

## Runs

| Run | What it shows | Bounds |
|---|---|---|
| `api_races` | the safety of the API under any interleaving and failure, and what a PATCH achieves | 3 requests, 2 uuids, every step may fail |
| `api_answers` | a handler always has a step to take, and every request that was taken is answered | 2 requests, no failures |
| `service_safety` | launches and jobs: one place each, none lost or overtaken; the contract | 3 requests, 2 uuids, 2 green threads, 1 crash, failures |
| `service_live` | launches advance from the topic to the end of their jobs, crash or not; a launch that is cast reaches a job unless the worker crashes; none is left half way; conversions, those of orphans included, are right unless a job shares its file with another or with an orphan | 2 requests, the same images, 2 threads, failures of handlers and jobs, 1 crash |
| `listing_walk` | a walk visits every task that stays put, and none twice; its pages and markers are determined | 3 tasks, 2 column values, limits absent, 0, 1 and 3, maximum 2 |
| `listing_live` | by id each page has fewer ids ahead of it, and the walk comes to its end | 2 tasks, 3 ids, the same limits |
| `deployment` | what is built is prepared; engines are few and settle; the version is at most one script off the tables, and why; the schema's contract | 2 processes of any program, both forked if API, 2 green threads, releases 0 to 2 |
| `keystone` | users are returned whole, and only the one found is deleted; the users' contract | 2 callers, 2 user ids ever, 2 names (one of them the id of a user), 3 roles of which two share a name |
| `launch_dropped` (violation) | the method name as the commit has it: no launch reaches a job | 1 request |
| `overlap` (violation) | two green threads, two images of one name: a conversion reads neither image | 2 requests, 2 threads |
| `schema_unversioned` (violation) | `create_schema` stamps tables of an older release as the newest | 1 process, releases 0 and 1 |
| `listing_nolimit` (violation) | `max_limit` 0 and no limit given: an empty page that claims to be the last | 3 tasks |

*Bounds.* Each request is handled once, so the number of requests bounds every
behaviour and `MaxCrashes` the crashes; nothing else is cut off. Three requests
are one more than any property relates (two writers and the one that created the
row); two uuids let a property confuse tasks; two images of different lengths
let a shorter one leave the tail of a longer one behind. `PATCH` documents set
one column at a time, each to a legal value and to NULL, plus an internal
attribute and a path that is no column. Symmetry of requests, uuids and threads
is used in the safety runs only. Deadlock is not checked: when all requests have
been answered and all jobs are done the model has nothing left to do.

*Fairness.* `ApiFairness` and `Convertor!Fairness` are weak fairness of a
handler that has started, of the worker's server, of the executor and of a
running job: the event loop runs every runnable green thread, and database,
broker and qemu-img answer or raise. There is no fairness on arrivals (clients
owe nothing) nor on a crash. `api_answers` is checked without failures: with
them, an answer is always one `ServerError` away and the property says little.
A worker that crashes loses the launches it had taken: `LaunchRuns` speaks of
behaviours without a crash to come, and in the contract a crash ends a launch, so
`KeepsFairContract` holds with crashes too. `Listing!FairSpec` is weak fairness of
the walk's steps: the client follows the links it gets and a handler that has
started runs on. `WalkEnds` is about sorts by id, because a column that others
change can send the rows seen ahead of the walk again and again; and it is bounded
by `MaxId`: were tasks inserted for ever, at least as fast as a walk in ascending
order goes, it would not end.

*Bounds of the listing runs.* Three tasks are two pages of one or two and a rest,
with a tie in the sort column among any two; to a maximum of 2 the limit 3 is cut
and an absent one set. Two tasks suffice for the end of a walk: the
table refills while it goes on, up to the three ids. Updates and deletions are
unlimited.

*Bounds of `deployment` and `keystone`.* Nothing bounds restarts, reloads, failures and
commands: the only cuts are `MaxRelease`, so that there is a release 0 without
scripts, a first and a later one, and keystone's ids, of which none is given twice.
Every race modelled is between two: two threads after the first engine, two commands on
one schema, two callers on one name. Two scripts are enough for a migration that stops
between scripts and for a downgrade that goes past a revision. The proofs hold for any
number. No fairness is stated for these modules and deadlock is not checked: operators owe
nothing, and a process whose names do not resolve does nothing. The symmetry of
`deployment` is that of the processes, all of which may be forked.

*What `VersionTrue` takes for granted.* It says: a recorded version is that of the tables,
or a script away from it while that script is under way or since a kill cut it short
(`cut`), until somebody stamps what is there. This takes operators who keep some
discipline; `void` records that they did not:

* A stamp by hand names the tables there are, while nothing else works on them: the
  command says whatever it is told.
* No release is installed while dbmanage runs: `create_all` and `stamp('head')` would be
  of different releases.
* `create_schema` is not run on unversioned tables of another release, nor on torn ones.
  The code does not see to that: see `schema_unversioned` below.
* Migrations of two directions do not cross, and `create_schema` crosses no migration.

Within these, `create_schema` at once with `create_schema`, migrations of one direction at
once, kills between and inside the scripts and running any command again do no more harm
than the kill itself. `void` says nothing of who notices: after a kill inside a script
`upgrade` fails for ever, and only a repair by hand and a stamp help. Two steps are taken
as one transaction on every back end: `stamp`, which is a single row and no DDL once
alembic's table is there, and the one CREATE TABLE of `create_all`.

### What the violations show

* `launch_dropped`: `worker/rpcapi.py:17` casts `launch_task`; the worker's endpoint
  (`worker/messaging/trigger.py:25`) has `launch_action_plan` only. The message is
  acknowledged and rejected, the client has its 201.
* `overlap`: `worker/default.py:34-38` builds the path from `img.name`. With
  `workers` above 1 two jobs can be in one file; one truncates it or writes into it
  between the other's last chunk and the end of its conversion. One thread is no cure if
  the worker may be killed: its `qemu-img` goes on reading, the restarted worker's one
  job truncates the file, and with `Slot = {s1}` and `MaxCrashes = 1` TLC finds that
  orphan reading half an image. What the service itself waits for is right then
  (`OneThreadConvertsWhole`).
* `listing_nolimit`: `api/controllers/v1/utils.py:28-30` treats `max_limit` 0 as "we
  don't have an upper limit", but only for a request that gives a limit; one that
  gives none gets `max_limit` itself at line 22, that is, LIMIT 0. `has_next` then
  says there is nothing more. `ListingVisitsAll` is proved for a maximum above 0.
* `schema_unversioned`: the NOTE at `db/sqlalchemy/migration.py:49-51` wants no
  `create_all` on an old schema that is then taken for the newest; the guard after it
  looks at the version, not at the tables. This commit has no script, so its
  `create_schema` makes tables and `stamp('head')` records nothing; once the next release
  is there `create_schema` takes the same tables for an empty database, leaves them as they
  are and stamps them as the newest.

## Proofs

Everything below holds for every set of requests, uuids, images, formats, green
threads, image names and chunk counts, every bound, with or without failures and
whatever names resolve. It rests on the named assumptions on constants only
(`NamesAssumption`, `StoreAssumption`, `ApiAssumption`, `WorkerAssumption`,
`ListingAssumption`, `ProcessAssumption`, `DeploymentAssumption`,
`KeystoneAssumption`: the
sorts of the constants, `Null`, `Unset` and `NoRow` distinct from ordinary values,
bodies without read-only columns). TLC evaluates all of them in the runs.

`TasksApiProofs`, safety: `ApiInv` is inductive. The invariants of the runs are not so by
themselves: `HandlersKnow` adds what a handler knows at each program point. For
instance `AtSave` says the row it will update exists, that `updates` holds only
what the request asked for and never deleted_at, and `AtSoftDelete` that the status
of the row is accounted for; `DeletedRowSaysSo` needs the latter because the two
transactions of `soft_delete()` are apart. Each step then has a lemma for its own
handler, and `StepIsOwn` with `RowsStay` and `PatchStays` covers the other ones.
The action properties (`DeletedForGood`, `NothingWrittenBack`) follow from the
same invariant and from what each of the three writers does to the table.
`PatchTakesEffect` relates a saved PATCH to whatever was written since; `PatchKnows`
adds what holds in between its two transactions: a column that it does not intend to
write, since the row as read has the value asked for already, still has it unless
another request has committed a write of that column (`OverwrittenFor`). Each writer
keeps this: what `Save` changes of a row is in its `updates`, and `SoftDelete` changes
deleted_at only, which no body holds.

`AnswerProofs`, liveness: `AnsweredInTheEnd` says that every request a handler has taken
is answered, for any number of requests, if each handler is scheduled fairly and
`HandlersNeverStuck` holds throughout. A handler only ever moves along create, get, save,
soft_delete, launch, answer (`HandleMovesOn`), and nobody else moves it
(`OnlyHandlerMoves`). With the hypothesis, weak fairness makes it leave each point
(`StepFrom`); chained from the last point back to the first this ends in an answer.
The hypothesis speaks of ENABLED, for which the prover has no rules: TLC checks it, in
`api_answers`, whose two requests suffice because a handler's guards depend on the row
and not on who wrote it. It is a condition on the code and no formality: a
handler that finds neither "saved" nor "refused" to apply would violate it.

`ProgressProofs`, liveness of the whole service, under `Convertor!Fairness` and the
hypothesis that whoever has something to do can do it: `HandlersNeverStuck` for the
handlers and `WorkerNeverStuck` (defined in the module) for the server, the executor and
the jobs, which always can, since the executor and a job may fail at any point.
`ServiceAnswers`: a step of a handler in the service is one as the API on its own knows
it, so `RunsToAnswer` of `AnswerProofs` applies to it as it stands. `LaunchesGoOn` has
three parts, one per actor, and each is the same argument: nobody else takes the launch
back, the actor's own step takes it on, and weak fairness makes it step.

* `TopicIsTakenFrom`: only the server takes, and what it takes belongs to a request none
  of whose messages it had taken, because a request has one message (`LaunchesKnow`).
* `BacklogIsWorkedOff`: the first launch of the backlog stays first until a thread takes
  it or the worker dies, and then it is not the first again: `OneRun` says it is there
  once (`StartTakesFirst`).
* `JobsAreDone`: only its own steps and a crash change a job, and either leaves it fewer
  steps (`StepMoves`, `JobNearsItsEnd`).

Where requests are finitely many, these and `NoLaunchIsLost` add up to `LaunchRuns`; the
sum itself is the induction that is left to TLC.

`ConvertorProofs`: a step of the worker is for the API a message that leaves the
topic, or nothing (`ServiceIsApi`), so the API's theorems carry over. `WorkerInv`
adds what jobs know and that a message is in one place. For files, `FilesHold`
(a file holds what its job has written so far) is preserved as long as no job shares its
file with another or with an orphan (`WholeIfNotShared`). With a single thread no two jobs
can, so what a job waits for is the whole image, crashes or not
(`OneThreadConvertsWhole`); that orphans read a whole image too takes a worker that does not
die (`OneThreadNoCrash`). `NothingRunsAsCommitted` is about the
commit as it stands: as long as the endpoint lacks the method that is cast, no job ever
runs and no file is touched, whatever else is put right. It is the violation that
`launch_dropped` shows, for every instance. `NoLaunchIsLost` is the safety half of
`LaunchRuns`: without a crash what leaves the topic joins the end of the backlog, what is
in the backlog keeps its place or comes nearer, and a job that moves has fewer steps left
(`StepsLeft`, a bound on them that `JobsKnow` keeps a natural number).

`ContractProofs`: the refinement. `LaunchesKnow` (a handler about to cast has not
cast before; a request has one message) is added to the invariant, which lets the
stage of a launch be read off its one message (`StagesAreRight`); then each action
maps to the contract's step or to a stutter, in a lemma of its own, up to
`ServiceKeepsContract`.

`ListingProofs`: `NoRepeats` and `VisitsAll` say nothing of where a walk stands, so
`ListingInv` adds it. Of the stable tasks, those seen are exactly the ones that do not
come after the marker's row (`AtFollow`) or, once that row is read, after its values
(`AtQuery`). A page of the first candidates up to its last one keeps this because
positions are strictly and totally ordered, which takes distinct ids
(`SeenUpToLast`, from `OrderOfPositions` and `PositionsDiffer`); other requests keep it
because they move no stable task and no marker without `lost` (`Elsewhere`).
`PageDetermined` says that the guard of `ListTasks` always holds, in one way only. That a
page exists is an induction over the finite set of candidates, done with a minimal
counterexample: the library's order of the subsets of a finite set is well-founded, so
of the sets that begin the order and keep within the limit one has the smallest rest
(`PageExists`), and likewise a finite set has a first element (`FirstOfFinite`). Of two
pages one is within the other and as long (`PageUnique`). This takes the id as second sort
key: by the column alone TLC finds two pages at once.
`WalkOnward` is the step behind `WalkEnds`: the marker of a page is a row after the
one the page began at, a row keeps its id for ever (`RowsKeepIds`), so the next page has
fewer ids ahead of it (`PageMovesOn`, `LinkMovesOn`). It needs that a walk by id compares ids
alone, which is the invariant `AfterById`.

`DeploymentProofs`: `DeploymentInv` is `ProcInv` of the processes with `CommandsKnow` of the
commands. A step of a process touches that process only (`OwnProcess`), so each part
of `ProcInv` is shown for the process that moves. `GlobalsSet` needs that the globals
are set in order (`GlobalsInOrder`), since `initialized` does not look at the second.
`OneEngineEach` needs that a thread that is making an engine has made none
(`MakingFirst`): it found no facade, and nothing takes one away.

For the schema, `CommandsFit` says what a command is whatever operators do, and, as long as
they keep the rules, `CommandsKnow` what each still knows although its reading of the
version is stale, and `CommandsAgree` who works on the schema at once. A script that finds
the tables it was written for also finds the version it comes from: a kill after the
script and before its version leaves other tables, so the rerun fails at the first
statement instead of running the script twice. Only one script is under way at a time, as the
next would find torn tables. A command inside `create_schema` knows that the version is
none or the release's, and after `create_all` that the tables are the release's. For each
action it is shown that the command itself establishes this, and that no other disturbs
it without making `void` true. `SchemaContractKept`: each action maps to a step of the
contract or to a stutter, and whatever breaks the rules to `Spoil`. `Record` takes tables
that are those of the version, which `CommandsKnow` gives for a version or a stamp that is
still to come.

`KeystoneProofs`: `KeystoneInv` adds to the properties what a call knows between two
of keystone's: the user it is giving roles to has those it is done with, or is gone
(`Granted`); the user it is about to delete was the only one that answered to its
argument (`FoundOne`). Both survive other callers because keystone gives no id twice,
so a user that is gone stays gone. `UserContractKept`: each action maps to a step of
the contract; `Return` to `TellMade`, which takes `Granted`, and a successful
`DeleteUser` to `Remove` with its caller told, which takes `FoundOne`.

Only model-checked, and why:

* `HandlersNeverStuck`, since it says ENABLED. It is a hypothesis of the liveness theorems,
  as are `WorkerNeverStuck` and `WalkNeverStuck`, which no run checks because they say little:
  the worker's steps may always fail, and of a walk `PageDetermined` proves the only part
  that is not obvious, that a query always has a page and a page a marker.
* `LaunchRuns` and `WalkEnds`. Their steps are proved, for each number of steps left
  (`LaunchesGoOn`, `NoLaunchIsLost`, `WalkOnward`). What is missing is the induction that
  adds the steps up: the library's induction theorems cannot be instantiated with
  temporal formulas, and a set of the numbers for which a temporal formula holds, which
  a minimal counterexample would be taken from, is no TLA+ expression.
* `KeepsFairContract`. Its safety half is `ServiceKeepsContract`; the rest is fairness of
  the contract's actions, which speaks of ENABLED too and needs the same induction.

## Not modelled, and why

* The output file of qemu-img (nothing reads it), logging, links, HTTP formatting.
* The loss of an answer after a handler's last step: the client cannot tell it from
  the same answer late, and the server's state is the same.
* `Task.destroy` and `_destroy`: nothing calls them. `worker/utils.py` does not parse
  and nothing imports it. The policy enforcer: its calls are commented out.
* Rolling restarts of API processes: a process that dies is a `ServerError` of the
  requests it held.

* NULLs in a sort column (of the columns of a task only `updated_at` and `deleted_at`
  are ever NULL), and GET of one task, which reads one row and changes nothing.

* `rpc.cleanup` and `get_notifier`, `add_extra_exmods`, the notification listener: they
  have no caller, or no manager gives them an endpoint. `cleanup` would raise for a
  transport that `init` never reached.
* The serialisation of a request's context into a cast, `OpenStackClients`, which caches one
  client per object, and `KeystoneHelper.create_session`, which changes nothing.
* What alembic's scripts do inside: there are none at this commit. `version` and
  `revision` of dbmanage do not write to the database; `revision` is where the next
  `Release` comes from.
* `Version.parse_headers`, the root controller, links, hooks, the token middleware and
  the policy: without state, and nothing depends on them.
* An order between two PATCHes of one column: `patch()` compares with what it read
  (`task.py:231`) and drops a change that equals it, whatever another request has written
  since. The code promises no such order, and `PatchTakesEffect` allows for it. A change
  dropped in this way and then overwritten takes four requests with the bodies of
  `api_races`; that case is covered by the theorem `PatchesTakeEffect` only.
* Two jobs on one task: a PATCH to PENDING launches a task again while its first job runs,
  and neither the code nor the contract forbids it. `OneRun` is per message. A task deleted after its job's
  `Lookup` is converted all the same.

## Plan

In order, most important first:

1. *(done)* `TaskStore`, `LaunchTopic`, `TasksApi`, `Worker`, `Convertor`, the contract, and
   their proofs.
2. *(done)* `Listing` and its proofs.
3. *(done)* `ServiceProcess`: processes, RPC set-up, the engine facade; `Deployment`:
   dbmanage against alembic, with releases; their proofs.
4. *(done)* `KeystoneHelper` and its proofs.
5. *(done)* `SchemaContract` and `UserContract` and the proofs that they are implemented;
   `PatchTakesEffect`; `AnswerProofs`.
6. *(done)* `OnePage`, `WalkAdvances`, `LaunchesAdvance` and their proofs;
   `EveryRequestAnswered` for the whole service.
7. Open, to model: the parsing of the API version and the token middleware's public routes as
   operators, the context's way through a cast, and sort keys that may be NULL.

Runs stay below the bounds above; each new module gets its own MC module, an
inductive invariant written as a conjunction of named parts, and a proof module.
