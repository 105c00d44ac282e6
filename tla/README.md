# A TLA+ model of CloudTask

CloudTask is a small multi-user task manager: a NestJS API over PostgreSQL and
Redis, a worker that writes CSV exports to S3 from an SQS queue, and a Next.js
web page. The request handlers are short. What is hard about them is what
happens *between* their awaited calls: other requests, other processes, lost
answers, crashes, redelivered messages, values read before an await and used
after it. That is what these modules model.

Paths below are relative to the repository (`src/` in `PROJECT.json`).

## 1. Inventory

| Component | Code | State it keeps | Operations | What is hard | What makes it correct |
|---|---|---|---|---|---|
| Export API | `apps/api/src/exports/` | `exports` rows | `requestExport`, `getExport` | row and message are written by two systems; a publish can fail after it succeeded; `repo.save` is a SELECT and an UPDATE | a 202 is kept, a 503 is recorded, a link dangles only when its object has expired |
| Export worker | `apps/worker/src/exports/` | the loop's flag and batch; rows and S3 objects | `run`, `handle`, `process`, start, shutdown | at-least-once delivery, a visibility timeout shorter than a batch, death between any two calls | nothing accepted is lost, completion is final, retries end, shutdown ends |
| SQS and its dead-letter queue | `scripts/localstack-init.sh`, the two `aws-deployment-lab-runbook-*.md` | messages, receive counts | deliver, time out, redrive, delete | duplicates, stale receipt handles | (environment) |
| S3 | `apps/worker/.../s3-export-storage.ts` | objects under a key fixed by the export id | put; the bucket's lifecycle rule removes what is 7 days old (`application-spec.md:751`) | applied and answered with an error; a row outlives its object | (environment) |
| Export panel | `apps/web/src/components/export-panel.tsx` | the export id, the last answer | show, poll | what it takes for a terminal state | what it shows when it stops is true |
| Summary cache | `apps/api/src/tasks/project-summary.service.ts`, `apps/api/src/redis/` | one Redis entry per project | `get`, `invalidate` | fill racing invalidation, lost invalidation | bounded and explained staleness, right in the end |
| Rate limiting | `apps/api/src/ratelimit/` | Redis counters, a map per process | `consume`, eviction, the guard | switching between two limiters, resent scripts, a full map | a bound on what passes; nobody is locked out |
| Tasks | `apps/api/src/tasks/tasks.service.ts` | `tasks` rows | create, list, get, update, remove, summary | find-then-save, removal and cascade in between, pages that move while they are read | only what was asked for changes; rows stay with their owner; pages lose and repeat no more than the changes explain |
| Projects | `apps/api/src/projects/` | `projects` rows | create, list, get, update, remove | as for tasks, and the cascade | as for tasks |
| Accounts | `apps/api/src/auth/`, `users/` | `users` rows, JWTs | register, login, profile | two registrations of one address | one account per address; who registered can log in |
| Project page | `apps/web/src/components/task-*.tsx`, `app/projects/[projectId]/page.tsx` | the cached task list and summary, mutations in flight | load, create, change, remove, refetch | a project that fails to load takes the cards away, a refetch joined to an older load, an error after success, a stale API cache | a page behind an acknowledged change has a reason one can name |
| Project list and forms | `app/projects/page.tsx`, `new/`, `[projectId]/edit/` | the cached list and project, the form, operations in flight | open, type, create, save, remove, refetch, redirect | a form filled from old data, a refetch that refills it, an update that is a find and a save, an answer after its user left | a save does not take back what its user was told |
| Web session | `apps/web/src/lib/`, `app/login/`, `app/register/` | token in localStorage, mounted pages, cached queries | login, register, logout, request, 401 | a late 401, several tabs, a form submitted beside an older one, a cache that outlives its user | a good session ends for a reason; whose data is shown |
| CSV rendering | `apps/worker/src/exports/csv.util.ts` | none | `tasksToCsv` | quoting | a reader gets the same cells back |
| Error mapping | `common/filters/` | none | `catch` | which errors are no HttpException | the status says what happened |
| Health | `health/` | none | `health`, `ready` | PostgreSQL or Redis away | not modelled, see section 11 |
| Configuration, debug endpoints, logging, metrics, migrations, infrastructure | | | | | not modelled, see section 11 |

Interactions: the browser calls the API over HTTP; API and worker share
PostgreSQL (rows, foreign keys with `ON DELETE CASCADE`); the API publishes to
SQS and the worker consumes; the worker writes S3 and the API presigns what the
row names; the API processes share Redis. There is no transaction across two of
these systems, and in PostgreSQL each statement is a transaction of its own,
except that `save` writes in one.

## 2. Plan

Modules in the order in which they are written, the most important first.

1. `ExportLifecycle`, `ExportPipeline`, `ExportPanel` - the asynchronous export.
   *Done.* The abstract specification worth stating is what a 202 promises.
2. `ExportProofs` - type correctness, every safety property of the pipeline, of the
   panel and of the file, refinement of the lifecycle. *Done.*
3. `SummaryCache` - staleness of the summary; its proofs are the first part of
   `ProjectPageProofs`. *Done.*
4. `RateLimit`, `RateLimitProofs` - the two limiters. *Done.*
5. `TaskStore`, `TaskStoreProofs` - tasks and projects of several owners under
   find-then-save, removal and cascade. *Done.*
6. `Accounts`, `WebSession`, `WebSessionProofs` - registration races and login;
   token, pages, requests in flight, late 401, the cache that outlives its user.
   *Done.*
7. `QueryClient`, `ProjectPage`, `ProjectForms`, `ProjectPageProofs`,
   `ProjectFormsProofs` - the web pages of a project: TanStack Query's cache, what
   the mutations invalidate, over the reads and writes of `SummaryCache`; the pages
   that create, edit and remove. *Done.*
8. `TaskListing`, `TaskListingProofs` - the pages of a list while tasks are created,
   updated and removed. *Done.*
9. `CsvUtil`, `ExportFile`, `CsvUtilProofs` - the file of an export against a
   reference reader, for every text. *Done.*
10. Left for later models: `ready` of the health controller, the configuration
   schemas, the filters of the project page.

Every invariant and action property that the runs check is proved; section 11
lists what stays with TLC.

Composition: `ExportPanel` extends `ExportPipeline`, and `ExportFile` extends it
with the text of `CsvUtil`; `ExportPipeline` refines `ExportLifecycle`; `WebSession` extends `Accounts`, whose clients are the
forms that its tabs have submitted; `ProjectPage` extends `SummaryCache`, whose writers are its mutations and one of
whose readers serves its cards; `TaskStore` shows what `SummaryCache` assumes of
its writers: a committed change is followed by an invalidation of the right
project, or by a failure of its request.

## 3. The export pipeline

### ExportPipeline

One export of the model is one `POST /projects/:id/exports`; each has a project
of its own, because exports of one project only meet in its removal.

| Variable | Code |
|---|---|
| `project[e]` | whether the `projects` row that the export refers to is there |
| `row[e]` | the `exports` row: `status`, whether `s3_bucket`/`s3_key`/`completed_at` are set (they are always written together), `error_code` |
| `object[e]` | the S3 object `exports/{userId}/{e}.csv`: never written, stored, or expired |
| `request[e]`, `loaded[e]` | where `requestExport` stands; what TypeORM's `save` read of the row before writing it |
| `queue[m]`, `receives[m]` | where SQS keeps the message, and its receive count |
| `pc[w]`, `running[w]`, `batch[w]`, `current[w]` | a worker's place in `run`/`handle`/`process`, the flag, the rest of the batch, the message in hand |

| Action | Code |
|---|---|
| `CheckProject`, `SaveQueued`, `Publish`, `LoadForSave`, `WriteUnpublished` | `requestExport`, one action per awaited call; the second `save` is two, its SELECT and its UPDATE |
| `ApiCrash`, `RemoveProject`, `ReinsertProject` | a dying API process; the cascade; an update of the project that inserts it again after its removal (finding 5), without its exports |
| `ExpireObject` | the bucket's lifecycle rule |
| `ExpireVisibility`, `Redrive` | SQS |
| `Bootstrap`, `Shutdown`, `LeaveLoop`, `Receive`, `ReceiveLost`, `Handle` | `SqsConsumer` |
| `Claim`, `FindTasks`, `Upload`, `MarkCompleted`, `MarkFailed`, `DeleteMessage` | `ExportProcessor.process` and the delete in `handle` |
| `WorkerCrash` | a dying worker |

A call to PostgreSQL, SQS or S3 ends in one of three ways (`Outcome`): applied
and answered, applied and answered with an error, not applied and answered with
an error. A publish that succeeds may leave several copies (the SDK resends), one
that fails may leave any number. A visibility timeout may pass at any time while
a message is in flight, so a slow worker and a dead one are both covered. A
delete may be ignored, as SQS may ignore a stale receipt handle.

`save` writes only the columns in which the entity differs from the row it read
first (`SavedOver`); the other columns keep what the row holds *by then*.

`ClaimReturnsRows` says how `dataSource.query` answers an `UPDATE .. RETURNING`.
The processor reads the answer as the array of rows (`TRUE`). TypeORM 0.3.31,
the locked version, answers with the pair of rows and row count (`FALSE`), whose
length is never 0. Every run uses `FALSE`, the worker that the lock file builds; the
proofs are for either value.

Left out: the content of the file (the object is there or not; what a file says is
section 9), `attempt_count`,
`started_at`, timestamps, error texts, and messages that do not parse (the API
publishes none).

### ExportLifecycle

What a client that got a 202 may rely on: the export is *promised*, then
*completed* for good, or *gone* with its project, or *parked* in the dead-letter
queue, from where only a worker that still held the message may complete it. The
liveness part says that no export stays promised. `ExportPipeline` implements it
under the mapping `Promised(e)`, which is computed from the request, the row and
the queue. `object` has no part in it: an export that completed stays completed when
its file expires.

### ExportPanel

Adds the browser: `Show` when the request was answered 202, `Poll` for one
refetch that turns polling off. It has the panel's fairness: its timer fires, which
means that its user stays on the page. (A panel that unmounts forgets its export.)

### Runs

| Run | Instance | Shows |
|---|---|---|
| `export_safety` | one export, two copies of its message, two workers, `MaxReceive` 2, batches of 2, claim answered with the pair | `TypeOK`, `NoLostExport`, `CompletedWasStored`, `RejectedIsRecorded`, `CompletedIsFinal`, and the inductive invariant `IInv` |
| `export_live` | one export and message, two workers, with the panel, the pair answer | `CsvReadsBack` (section 9), `AcceptedSettles`, `ShutdownCompletes`, `PanelStops`, `PanelIsRightAboutCompleted`, `ImplementsLifecycle` |
| `export_redelivery` | one export and message, one worker, `MaxReceive` 3, without the panel | violation: a redelivered message of a completed export is processed again |
| `export_panel_failed` | as `export_live` | violation: the panel calls `failed` terminal, the worker retries it |

*Bounds.* Exports do not share state except the queue and the workers, and a
worker handles one message at a time, so a second export adds only batches of
mixed exports; two copies of one message already give batches, duplicates, two
workers on one export and a copy outliving another. Two workers are needed for a
slow one and a second one that overtakes it. `MaxReceive` is 3 in the
repository; with 2 every order of "delivered again" and "redriven" occurs. The
theorems cover all larger instances of the safety properties.

`CompletedWasStored` does not say that a link works. The bucket's lifecycle rule
deletes an object after 7 days, its row stays `completed`, and `getExport` goes on
signing a link to its key: by design of the specification, links do dangle then. The
property says that this is the only way: no row is completed whose object was not
uploaded first, in whatever order workers, late saves and crashes act.

`ShutdownCompletes` is about the two tests of the flag, in `while` and in the `for`
(`Stopping`). Its mutant is `while (true)` with a return in the `for`: the flag is
tested between two messages of a batch only, and a stopping worker that gets none polls
on for ever.

*Symmetry.* Workers are interchangeable; `export_safety` uses that (it has no
liveness property). `CompletedIsFinal` does not mention a worker.

*Deadlock.* Both passing runs check it: an idle worker can always be stopped or
killed and started again.

*Fairness* (`Fairness`). Timeouts expire and the redrive policy acts
(`WF`); the container scheduler starts a worker again (`WF(Bootstrap)`); an
awaited call returns or throws, so a live worker goes on (`WF(WorkerStep)`); and a
message that is visible again and again while workers keep polling is received
some time (`SF(Delivers(m))`: strong, because every crash or batch in progress
disables it). There is no fairness on success: every call may fail for ever,
crashes may go on for ever. The end is then the dead-letter queue, which
`AcceptedSettles` names.

### Proofs (`ExportProofs`)

For all `Exports`, `Messages`, `ExportOf`, `Workers`, `MaxReceive`, `BatchSize`
and both values of `ClaimReturnsRows`, under the three named assumptions of
`ExportPipeline` and no others.

`NoLostExport` is not inductive: that a message may be deleted only when its
export is settled rests on what the worker in `delete` has done before. The
strengthening `SafeInv` has these parts:

- `UnsentBeforePublish`, `HeldWasSent`: nothing is in the queue, and no worker
  holds anything, before it was published;
- `DeletedWhenSettled`: of an accepted export some message was sent, and none is
  deleted, or in the hands of a worker about to delete it, unless the row is
  completed or gone. A claim that matched nothing goes to the delete, so it must
  have seen a completed or vanished row, and completion must then be final. It
  is, for an accepted export: the claim and the failure update exclude
  `completed`, and the one write that does not, `repo.save` after a failed
  publish, never happens for an export that was accepted;
- `StoredBeforeCompleted`: a worker about to write `completed` has stored the
  object, which may have expired since; a key is set only when it was stored;
- `KeyOnlyWhenCompleted`: needed because `save` writes column by column: it may
  reset `status` alone, leaving `s3_key`; what it can never do is leave
  `completed` without its key;
- `UntouchedUnlessSent`, `QueuedOnlyAtFirst`: what `save` read and what it may
  overwrite, for `RejectedIsRecorded`.

`TypeOKStep` and `SafeInvStep` have one step per action. `CompletionIsFinal` and
`LifecycleRefinement` are step properties proved from the same invariant;
`ApiMoves`, `QueueMoves` and `WorkerMoves` say how each kind of step moves the
mapped phase. The refinement theorem is about `Lifecycle!SafeSpec`; the fairness
part of `Lifecycle!Spec` is only model-checked.

The part about the panel starts with a lemma, `PanelRunsThePipeline`: the panel only
watches, so `IInv` and the refinement hold with panels too. `PanelIsRightAboutCompleted`
then needs `PanelAgrees` (a lemma, `PanelAgreesAlways`), which speaks of the abstract
life instead of the row: a panel is shown for an accepted export only, and "completed"
on it means that the export's life is completed or gone. A pipeline step may not take
either back, which is what the lemmas of the lifecycle refinement say of each kind of
step.

## 4. The summary cache

`SummaryCache` has one project's entry. A summary is a function of the committed
tasks, so a value is the number of changes committed when `compute()` counted.
`GetMiss`, `Compute`, `Set`, `AbortGet` are the awaited calls of `get`; `Commit`,
`Invalidate`, `InvalidateLost` are those of `create`, `update` and `remove`.
Errors of Redis are swallowed by `RedisService`, so a failed `GET` is a miss and
a failed `SET` or `DEL` changes nothing. ioredis may send a pending command
again after a reconnect; for a `SET` that is the same as a second reader that
counted at the same time, for a `DEL` as a second writer.

Time is in ticks. `MaxDelay` bounds the time between the count and the moment
the `SET` takes effect; without such a bound a stopped process could store any
old count, and no bound on staleness would hold.

| Property | Says |
|---|---|
| `StalenessBound` | a summary served from the cache was current less than `Ttl + MaxDelay` ago |
| `StaleHasCause` | a stale entry has a writer that is about to invalidate, a lost invalidation, or a fill that overtook one |
| `EventuallyConsistent` | when the writes are over the cache ends up right |
| `AgesAgree` | the strengthening used by the proof |

`redis` (`MCRedis`) explores the cache and the limiters of section 5 one at a time:
they share no variable, only the server. The cache: two readers, two writers, `Ttl` 2, `MaxDelay` 1, three writes.
Two readers let one old count overwrite a newer one; two writers let one
invalidation be pending while another is lost; three writes let a value be
superseded twice. Fairness: time passes, and requests end (their calls return or
throw). The writes are bounded, which is what "when the writes are over" means.

The first part of `ProjectPageProofs` proves `TypeOK`, `AgesAgree`, `StalenessBound`
and `StaleHasCause` for all constants. `StalenessBound` needs `AgesAgree`: a computed value that is no
longer current was superseded at most as long ago as it was computed, so when it
is stored at most `MaxDelay` ago, and from then on the two clocks run together.

## 5. Rate limiting

`RateLimit` has a bucket per limiter and key; a limiter is Redis (`Shared`) or
the map of one process. `ConsumeShared` is a call that Redis answers;
`ConsumeMemory` is the fallback, after a client that is not ready or an `eval`
that threw, in which case the script has run not at all, once, or twice (ioredis
resends). `Hit`, `Evicted` and `Remembered` are `MemoryRateLimiter`, `Incr` is
the Lua script. `recent[l][k][i]` counts the requests let through in the last `i`
ticks, so that no property needs a sum; it is a history of the model, reset with
the limiter whose life it describes (`ProcessRestart`, `RedisRestart`). Counts stop at `CountBound`: beyond the limit
the code does not tell them apart.

| Property | Says |
|---|---|
| `LimiterBound` | in any stretch of one window a limiter lets at most two limits through, across window boundaries, evictions, failures and resent scripts |
| `WindowsAgree` | the strengthening used by the proof: bucket and history agree |
| `NobodyIsLockedOut` | a blocked key is free again some time, however often it is asked for meanwhile |
| `FallbackIsStricter` (violated) | the comment in `memory-rate-limiter.ts`, for the single task it is about: since a window of Redis began, the process has let a key through no more often, by Redis and by its map, than Redis alone would |

`redis`, its second half: one process, two keys, a limit of 1, a window of 3 ticks, a map of
one entry. Two keys and one entry make the map overflow with a live bucket, an
expired bucket, or both; three ticks let windows of the two keys overlap in every
way. Limiters do not influence one another except through which of them is asked,
so one process is enough. `rate_limit_fallback` has one process and one key, a limit
of 2 and a window of 2: one key that both count is all it takes. Fairness: only time
passes.

`RateLimitProofs` proves `LimiterTypeOK`, `WindowsAgree` and `LimiterBound` for any
processes, keys, limit, window and size of the map. `LimiterBound` speaks of any
stretch of one window, while a bucket's window begins at a first hit, so two of
these can meet in one stretch. `Agree` says of a bucket and its history: since its
window began, what was let through is no more than its count and no more than the
limit; and what was let through before that, in the rest of the stretch, is at
most one limit more. A bucket whose time is up has let nothing through in the
current tick and at most a limit in the last window, which is why starting it
afresh, or evicting it, is harmless, and why evicting a live one is not (the
mutant of the run). The lemmas are about one bucket (`IncrAgrees`, `HitAgrees`,
`DroppedAgrees`, `AgedAgrees`); the steps lift them to all limiters and keys.

## 6. Tasks and projects

`TaskStore` has projects and tasks as the rows of one function: they differ in
the parent of a task, in the cascade and in the invalidation. `entity[r]`,
`read[r]` and `given[r]` are the memory of a request: the entity it found and
changed, the row as `save` read it, the columns its client named (the last only
serves a property).

| Action | Code |
|---|---|
| `CreateProject` | `ProjectsService.create`, one INSERT |
| `CheckProject`, `InsertTask` | `TasksService.create`: `projects.getOne`, then the INSERT, which the foreign key refuses when the project has gone |
| `FindForUpdate`, `LoadForSave`, `WriteSaved` | `update` of either service: `findOwned` and the assignments, then the SELECT and the UPDATE or INSERT of `repo.save` |
| `FindForRemove`, `DeleteFound` | `remove` of either service, with the cascade |
| `Invalidate` | `summary.invalidate` and the answer |
| `Abort` | an error of any statement, a lost answer, the death of the process |

`repo.save` of an entity with an id selects the row first. If it finds it, it
updates the columns in which the entity differs (`SavedFields`), and none if the
row has gone by then; if it does not, it inserts the entity under its old id,
unless the key or the foreign key refuses. Reads (`list`, `getById`, `getSummary`)
change nothing and are left out, and so are the timestamps.

| Property | Says |
|---|---|
| `TasksBelong` | a task's project exists and has the task's owner |
| `ChangesAreInvalidated` | a committed change of a task leaves a request on its way to invalidate the right summary; only the cascade of a project does without |
| `UpdatesOnlyProvidedFields` (violated) | the services' tests: an update changes only the columns it was given |
| `RemovedStaysRemoved` (violated) | the end-to-end tests: after the 204 of a delete the row is not found |

Nobody can ask for the summary of a project that has gone with its tasks. But a
project that a racing update inserts again (finding 5) has lost them, and finds the
summary of before in the cache, until it expires: in `SummaryCache` this is one more
`InvalidateLost`, and `StalenessBound` bounds it.

`task_store`: two users, two projects, two tasks, two requests, one column of two
values. Two of each let every request meet another of the same or the other
owner, on the same row, its project, or neither. Users, ids, values and requests
are interchangeable, and the run uses that symmetry; it has no liveness property.
Deadlock is not checked because the ids run out (they are never given out twice,
as `gen_random_uuid()` promises), after which an idle store may stop.
`task_update` has two columns, which the lost update needs.

`TaskStoreProofs` proves `IInv`, with the types in it, `TasksBelong` and
`ChangesAreInvalidated` for all constants.
`TasksBelong` is not inductive: a request in `save` may insert a task again whose
project was removed and, by another request in `save`, inserted again meanwhile.
That the owners still agree needs the statement about removed ids and about the
entities in memory: whatever row or request says whose an id is says the same,
and only of ids that were given out (`SaysOwner`, `OwnersAgree`). The rest of the
invariant says what shape rows and entities have (`RowsShaped`, `RequestsShaped`)
and that projects outlive their tasks (`ParentsExist`).

`ChangesAreInvalidated` compares the project that a request is about to invalidate,
which it takes from the entity in its memory, with the one that the row is in *at
the write*. They are the same because no task ever moves: what rows and requests
say of a task's project agrees, removed tasks included (`SaysParent`,
`ParentsAgree`).

### TaskListing

`TasksService.list`, and a client that reads one page after the other while other
requests change the tasks. A task is its place in the order of `created_at` with
the columns that the filters read.

| Variable | Meaning |
|---|---|
| `stored[i]` | the `tasks` row at a place, if there is one |
| `query`, `limit`, `page`, `phase` | the client's filters, its page size, the page it has, and which of the two statements of `getManyAndCount` answers next |
| `got`, `again` | what it has been given, and how many times something that it had |
| `due`, `left`, `entered` | history: the tasks listed with its first page and ever since, how many left the list since, how many entered it |

| Action | Code |
|---|---|
| `Ask` | `TasksController.list`, with any filters and page size |
| `ReadItems`, `ReadTotal` | the two statements of `getManyAndCount`; `Matches` is the WHERE, `Items` is ORDER BY, `skip` and `take`. The client goes on until its pages reach the total |
| `CreateTask`, `UpdateTask`, `RemoveTask` | a commit of `create`, `update` or `remove`, at any moment in between |

Tasks enter and leave the list by an update of their status or due date, too. A
task may appear at any free place, not only as the newest: its `created_at` is set
before its commit is seen, and `save` may insert a removed task again. The
removal of the project, after which every page is a 404, is left out.

| Property | Says |
|---|---|
| `ListSkipsNothing` | a client that has read all pages has every task that was listed all the time, but for at most as many as left the list meanwhile |
| `ListRepeatsNothing` | it was given a task again at most as many times as tasks entered the list |

So a page never skips a task because one was *created*, and never repeats one
because one was *removed*. Both bounds are reached: there is no cursor, and an
offset counts from the newest task as it is now. Two tasks with the same
`created_at` are not covered; the order has no tie-breaker, and PostgreSQL may
put them either way round for every page. No client of the repository reads a
second page.

`task_store` explores `TaskStore` and `TaskListing` one at a time (`MCTaskStore`):
they share no variable. The listing: three places, two statuses, one date besides
null, pages of one and of two, two tasks that leave and one that enters
(`MaxLeft`, `MaxEntered`). Three tasks make three pages of one, or a full page and
a rest, so that changes fall before, on and behind the page that was read; a task
that enters may leave again. Tasks that enter or leave before the first page,
or without the filters noticing, are not counted and not bounded.

`TaskListingProofs` proves both properties for any places, statuses, dates, page
sizes and bounds. They are not inductive, for they say nothing of the tasks that
the next page will hold. `ListInv` adds what positions have to do with it:

- `Missed`, the tasks that were due and not given although their positions are on
  the pages already read, are at most as many as left;
- `Ahead`, the tasks that were given and whose positions are now behind those
  pages, so that they will be given again, are with `again` at most as many as
  entered.

The lemmas follow one change. A task that leaves moves the older ones one position
forward, so at most one of them crosses the end of the last page (`Leaving`), for
no two tasks have the same position (`Positions`); one that enters moves them
back, with the same effect on the other side (`Entering`). Reading a page moves
that end: what is on the page is not missed, and what was ahead on it is now counted
in `again` (`Turning`). When the total is reached no position is behind the end, so
whatever was not given is in `Missed`.

## 7. Accounts and the web session

### Accounts

| Action | Code |
|---|---|
| `CallRegister`, `Insert`, `InsertRefused` | `AuthService.register`: no look for an earlier account; the unique index on `lower(email)` decides at the INSERT, whose SQLSTATE 23505 becomes a 409 |
| `CallLogin`, `Login` | `AuthService.login`: the row, the password, the token; one 401 for both reasons |
| `FailCall` | a database error, 500 by `ProblemDetailsFilter` (`Problem`) |
| `Expire`, `Good` | the hour of a token; `JwtAuthGuard` |

An account is never changed or removed, so `login`'s SELECT and `verify` are one
step; the INSERT is a step of its own, and that is where registrations race. An
INSERT may commit and lose its answer. A hash stands for its password:
`argon2.verify` throws only on a hash that `hash()` did not make. Addresses are
spellings with `Lower`, which is `trim().toLowerCase()` in the service and
`lower()` in PostgreSQL.

### WebSession

Tabs of one browser share `session`, the token in localStorage. A tab has a page
and the query `['projects']` of its `QueryClient`. A client of `Accounts` is one form
that some tab has submitted: `tab[c]` is the tab whose document waits for it, `form[c]`
the answer it waits for, and `shown` holds the forms that are still on their page, and
disabled there. `isSubmitting` belongs to the mounted form: a user who leaves the page
and comes back may submit again, and both answers go on to `onSubmit` (`FormAnswered`,
which is `LoginFollows` after a 201 and `FormEnds` otherwise). A client-side navigation
leaves everything in flight; `Load` (a reload) forgets it. `Mount` is the check of
`useRequireAuth` and `HomePage` together with the fetch that follows. `Denied` is the
401 of `request()`: it clears whatever token is stored *then*. `mounted` is a history:
the token found on mount, and whether the page's query joined a fetch that was under
way. A login whose answer finds the projects page already on display stores its token
and mounts nothing; such a page shows what it mounted with, and
`ForeignListHasCause`, which is about pages that mounted with the session of the
moment, says nothing of it.

| Property | Says |
|---|---|
| `RegisteredCanLogIn` | who was answered 201 owns the address: the login that the register page sends next is not refused, however registrations of any spelling race |
| `AnswersAreTrue` | a 200 carries the token of the account with the address and the password; a 409 is about a taken address |
| `GoodSessionEndHasCause` | a session with a good token ends by Log out, in any tab, or by the 401 of a request that carried another token or none; never by the 401 of a form |
| `ForeignListHasCause` | after a change of user, a page that mounted with the current session shows the other user's list only while its fetch is under way, when it failed, or when it joined a fetch sent before the login |

The two causes are what the code does: `request()` does not compare the token it
clears with the one it sent, and nothing empties the query cache at logout.

`web_session`: two tabs (two make the storage shared and the 401 foreign), two
accounts, two addresses of which one has two spellings, two passwords,
`MaxSubmits` 2 (two registrations that race, a registration and a login, two
logins of different users, from one tab or from two; the login that follows a
registration is not counted),
`MaxTokens` 2 (an old and a new session). `Load` goes to home or login; the other
pages are one `Navigate` away. One protected query stands for all. Tabs, forms,
accounts, passwords and the two addresses are interchangeable, and the
run uses what `MCWebSession` lists of that; it has no liveness property, and
assumes no fairness.

### Proofs (`WebSessionProofs`)

All five properties are proved for any tabs, accounts, spellings, passwords,
`MaxSubmits` and `MaxTokens`. The assumptions: `Lower` is a function on spellings
that leaves its own results alone (as `trim().toLowerCase()` does), `MaxTokens` is
a number, and `None`, which stands for null, is none of the values it is told from
(`LowerAssumption`, `TokensAssumption`, `NoneAssumption`). The inductive invariant
`SessionInv`, which the run checks as well:

- `AddressesAreUnique`: the index; two accounts never share an address in any
  spelling;
- `CallsInv`: what the answer of each call is worth. A 200 names a token of the
  account that has the call's address and password, a 201 has an account of its
  own, a 409 met one; and the login that follows a registration still owns the
  account of the 201, so a lookup cannot refuse it;
- `TokensInv`: the token of a 200 that no form has handled yet is nobody's session,
  was on no page when it mounted, and is in no other answer. It is what makes a new
  session *new*: a page that mounted before cannot take it for its own;
- `ListInv`: a projects page that mounted with the open session, and joined no
  fetch, asks for and shows that session's list.

`GoodSessionEndHasCause` is a step property proved from the same invariant.

## 8. The pages of a project

`QueryClient` is the part of TanStack Query 5 that the pages rely on, an external
library: every mount refetches (no `staleTime`), or joins the fetch under way;
`invalidateQueries` restarts the fetch of a query on display, *unless it has no
data yet*: then it joins. `cause` remembers such a join. A first try that fails
and the retry that succeeds are one fetch that is served later.

### ProjectPage

`page` is what the tab shows: the page without its cards, form and table (`"bare"`),
which is a spinner while the project loads and an error when its query fails
(`ProjectLoaded`, `ProjectFailed`), the whole page, or another one (`Leave`, `Return`).
The task list is observed on a bare page too; the cards are not, and their summary is
fetched when they mount. `tasks` and `summary` are the two queries, `mutation[m]` is
where `onSuccess` of the form or the table stands (`Acknowledge`, `RefetchSummary`,
`Finish`), `acked` the newest change the page was told of. A mutation goes on when the
form that started it is gone. The summary's fetch goes through the API's cache of
`SummaryCache`, with all its steps: a hit (`SummaryHit`), or a count of its own
(`SummaryMiss`, `SummaryCounted`); `Tick` lets the entry expire.

`ListHasCause` and `SummaryHasCause`: the list, or the cards, lack an acknowledged
change only while they are fetched, when the fetch failed, when it was joined, or
(the cards) while a mutation still awaits the list, or when the API's entry is
itself stale for one of the reasons of `StaleHasCause`. The joined case is real: a
task added while the first load of the list is under way is not in the list that
settles. A change whose answer is an error is not acknowledged; nothing
refetches after it.

### ProjectForms

The pages that list, create, edit and remove a project. `log` is the history of
the project, with what other tabs do to it (`OthersChange`: any texts, old ones among
them, a removal, an insertion of the removed project); a text is the version that
introduced it, so an untouched field that a save writes back is seen to be older. The
version without texts (`Gone`) is a project that is not there.

`Refilled` is the effect that fills the edit form whenever the data changes; `Sends` is
what the form sends, both fields. A save is what `ProjectsService.update` is: a find
(`FindOp`), the SELECT of TypeORM's `save` (`LoadOp`), and a write (`CommitOp`) which is
an UPDATE of the columns that differ from what was read (`Updated`), nothing if the row
has gone by then, or the INSERT of the removed project if the SELECT found none
(`Writes`). An operation then awaits the refetch of the project (if a page shows it
*then*), of the list (likewise), and replaces whatever page is shown (`Redirect`).

| Property | Says |
|---|---|
| `ChangesAreShown` | no page shows or lists the project as it was before an acknowledged create, save or removal, except while the operation awaits its refetches, during a fetch, after one that failed or was joined |
| `TakesBackOnlyUnseen` | a save takes back a change of a field its user did not type into only if the tab had not been told of it, or the page had an excuse when it was sent: a fetch under way, a failed one, a joined one, or a project that this tab has just removed (`Excused`) |

A form whose first load failed is shown with empty fields and would save them:
one of the cases that `TakesBackOnlyUnseen` excuses by the failed fetch.

### Runs

`project_page`: one reader of the API beside the page's own fetch, two mutations, two
changes, one return to the page, `Ttl` 1, `MaxDelay` 0. Two changes by two mutations
give refetches that restart one another and a list behind one change but not the
other; one return gives a mount during a fetch, a mutation or a pending refetch. The
project's query fails and recovers as often as it likes. `View` leaves out
`superseded`, a history of `SummaryCache` that no guard and no property of this run
reads; the two mutations are interchangeable.

`project_forms`: the project exists already or is yet to be created, one operation of
the tab at a time beside those of other tabs, three versions: a creation, a change or
removal by another tab, and the save that could take it back or insert the project
again. One field: a save with nothing typed sends the old text of it, as the second
field of a save would. Within three versions other tabs have no old text to write back
and no project to insert again, and two operations at a time are beyond a run (24
million states and more). The theorems cover all of these.

No fairness is assumed and deadlock is checked. The runs also check the inductive
invariants below.

### Proofs

`ProjectPageProofs` starts with a lemma: every step of the page is a step of
`SummaryCache`, `Tick` included, or leaves the cache alone (`PageUsesTheCache`). With
it `CardsAreRecent` says what the bound of section 4 is worth to the cards: what a hit
gives them is the current summary, or was current less than `Ttl + MaxDelay` before.
`PageInv` is inductive for any readers, mutations, changes and times:

- `ListInv`: unless it has left the page, the list is up to date with `acked`
  (`UpTo`): its data, or the answer in flight, is no older, or the fetch that will
  replace it was sent later, failed, or was joined;
- `CacheInv`: an entry of the API's cache without blame is as new as every
  acknowledged change, and as every committed one whose writer has invalidated. It
  is where `StaleHasCause` meets the page: the writer answers only after its
  invalidation;
- `SummaryInv`: the cards, when they are shown, are up to date unless a mutation has
  still to refetch them, and a count made for them is new enough when it is answered;
- `PageShape`: which request serves which fetch.

`ProjectFormsProofs` proves `ChangesAreShown` and `TakesBackOnlyUnseen` from
`FormsInv`, for any fields, operations, texts and number of versions:

- `OneInv`, `AllInv`: the project's query is up to date with what the tab was told,
  or the tab has removed the project and is about to leave its page; the list's
  is, or an operation has still to refetch it;
- `FormInv`: the fields of the edit form are those of the data on display;
- `OpInv`: a save that was sent without an excuse carries the texts of a version no
  older than the newest that the tab had been told of. This links the form to the
  log, and `TakesBackOnlyUnseen` is read off it: a text that differs from the row's
  was introduced before that version, so the change it takes back came after. Nothing
  rests on a removal being final, nor on what the save read being what it overwrites;
- `LogInv`: every text was introduced by some version, so `ChangedAt` is defined.

The assumptions are that `None` is not a version and not a reader
(`NoneAssumption`, `ReadersAssumption`), for the forms that there is a name among
the fields (`NameAssumption`), and for the page those of `SummaryCache`. The joined
fetches of TanStack Query appear as `cause`, which no lemma may assume away: the lemmas
`Refetched` and `Settles` of either module say exactly when a refetch and an answer
bring a query up to date.

## 9. The CSV file

`CsvUtil` is `tasksToCsv` on texts over any characters, of which it tells four from
the others: the quote, the comma, CR and LF. `ReadCsv` is a reader of RFC 4180, one
character at a time. A record has the title and the description between two plain
cells, which stand for the columns that need no quotes (ids, enums, dates).

`CsvReadsBack`, an invariant of `export_live` (`ExportFile`), says of the file of a
completed export (`FileReadsBack`, a formula without variables, evaluated once)
that two tasks with any title (trimmed, not empty) and description up to the
lengths `MaxTitle` and `MaxDescription` come back cell by cell. The run has five
characters and lengths of three, which hold a quote between two others, doubled
quotes, CRLF, and every pair of special characters at either end.

`CsvUtilProofs` proves it without these bounds: `CsvRoundTrip` says that the file
of any number of tasks, with titles and descriptions that are any texts over any
characters, is read back as its rows; `ReadsBackAlways` and `FilesReadBack` bring
it to the invariant, for any two lengths (200 and 10 000 in `createTaskSchema`).

What a file says is defined by recursion: `FlattenSeq` of the community modules
and the function in `Scan`. The proof goes in two parts.

- *Recursion and induction.* `Induction` is induction on the natural numbers for a
  set, from the fact that `<` has no infinite descent (`WFMin`);
  `SequenceInduction` follows. The two recursive functions exist (`FlattenExists`,
  `ScanExists`), and have the equations that one expects: nothing for the empty
  sequence, one element more for `Append` (`FlattenAppend`, `ScanAppend`), and
  reading two texts is reading the one and then the other (`ScanConcat`).
- *The reader's way.* `QuotedScan`: within quotes the reader takes a doubled text
  as it was. `PlainScan`: outside, it takes a text that needs no quotes.
  `CellScan` joins the two cases of `Escape`, and is where a character missing in
  its expression, like the CR of the mutant, would show. `CellsScan`, `LineScan`
  and `FileScan` are inductions on the cells of a record and on the records.

## 10. Findings

1. `export_redelivery` - `claimed.length === 0` is never true, so the "already
   completed" early return of the processor is dead code and a redelivered
   message writes the file again. Safety does not suffer (the claim leaves a
   completed row alone and the key is fixed by the export id), but the promise
   "a redelivered message for an already-finished export is a no-op" is broken;
   the file is rebuilt from newer tasks and `completed_at` moves. The unit test
   mocks `query` with a bare array.
2. `export_panel_failed` - the panel stops at `failed`, which the worker retries.
3. `rate_limit_fallback` - the in-memory fallback, "intentionally stricter than a
   shared limiter would be", is looser already for the single API task it is meant
   for: the map and Redis count apart, so a process that moves from one to the other
   within a window grants the limit twice. (Several processes, each with its map,
   would add to it; `DEVIATIONS.md` keeps the fallback to a single task.) With a limit
   of 2 the run lets three requests through in one window.
4. `task_update` - two concurrent updates of different columns of one row: the
   one that found the row first and reads it in `save` after the other wrote
   sets the other's column back to the old value.
5. `task_remove` - an update that found its row before a removal and saves after
   it inserts the row again, under its old id, after the 204 of the delete.

## 11. What is proved, what is model-checked, what is not modelled

Proved by TLAPS for all values of the constants: the theorems listed under
`theorems` in `PROJECT.json`. They state every invariant and every action property
of the passing runs, and the safety half of `ImplementsLifecycle`. The
assumptions they rest on are the named `ASSUME`s of the modules, which TLC
evaluates for the constants of the runs.

| Module | Inductive invariant | Proved from it |
|---|---|---|
| `ExportProofs` | `IInv`; `PanelAgrees` over it | `TypeOK`, `NoLostExport`, `CompletedWasStored`, `RejectedIsRecorded`, `CompletedIsFinal`, refinement of `Lifecycle!SafeSpec`; `PanelIsRightAboutCompleted`; `CsvReadsBack` |
| `CsvUtilProofs` | (induction on texts, cells and records) | `CsvRoundTrip`, `ReadsBackAlways` |
| `RateLimitProofs` | types and `WindowsAgree` | `LimiterTypeOK`, `LimiterBound` |
| `TaskStoreProofs` | `IInv`, which includes the types | `TasksBelong`, `ChangesAreInvalidated` |
| `WebSessionProofs` | `SessionInv` | `TypeOK`, `RegisteredCanLogIn`, `AnswersAreTrue`, `ForeignListHasCause`, `GoodSessionEndHasCause` |
| `TaskListingProofs` | `ListInv` | `ListSkipsNothing`, `ListRepeatsNothing` |
| `ProjectPageProofs` | of the cache: types and `AgesAgree`, `StaleHasCause` | `TypeOK`, `StalenessBound`, `CardsAreRecent` |
| | of the page: `PageInv`, which includes `PageTypeOK`, over the cache's types | `ListHasCause`, `SummaryHasCause` |
| `ProjectFormsProofs` | `FormsInv` | `ChangesAreShown`, `TakesBackOnlyUnseen` |

Only model-checked, on the instances above:

- liveness under fairness, which is out of the proof system's reach together with
  anything about `ENABLED`: `AcceptedSettles`, `ShutdownCompletes`, `PanelStops`,
  `EventuallyConsistent`, `NobodyIsLockedOut`, the liveness half of
  `ImplementsLifecycle`;
- the five violations of section 10, each of which is one behaviour.

Each property of a passing run has a mutant: an operator in the module (its
comment starts with "Mutant") that changes one definition the way a plausible bug
would, and with which TLC finds the property violated.

### Not modelled

- Timestamps (two tasks with one `created_at` among them), texts beyond what
  `CsvUtil` needs, headers of rate-limited answers.
- What a browser gets from a link: that of an expired object fails, and the code has no
  step for it.
- An object overwritten with an older snapshot by a slow worker; an object left
  without a row after its project was removed; a presigned link that outlives its
  300 s in a page that stopped polling. They are listed as hazards.
- `ready`: two pings and their report, no state. Configuration parsing: pure
  functions of the environment. (`AppModule` registers the failure endpoints only
  for the literal value `true`, while `zBooleanEnv` also takes `1`, `yes` and `on`.)
- The filters of the project page (each makes a query of its own, and only reads), the
  priority and search filters of `TaskListing`, and the theme.
- `TaskStore` and `SummaryCache` in one module: each is checked on its own.
- Debug endpoints, logging and metrics, migrations other than the constraints
  used above, containers and Terraform: no protocol, or no state.

## 12. Running

    tlc -workers 2 -config ExportSafety.cfg MCExportPipeline.tla
    tlc -workers 2 -config ExportLive.cfg MCExportPanel.tla
    tlc -workers 2 -config Redis.cfg MCRedis.tla
    tlc -workers 2 -config TaskStore.cfg MCTaskStore.tla
    tlc -workers 2 -config WebSession.cfg MCWebSession.tla
    tlc -workers 2 -config ProjectPage.cfg MCProjectPage.tla
    tlc -workers 2 -config ProjectForms.cfg ProjectForms.tla
    tlc -config ExportRedelivery.cfg MCExportPipeline.tla
    tlc -config ExportPanelFailed.cfg MCExportPanel.tla
    tlc -config RateLimitFallback.cfg RateLimit.tla
    tlc -config TaskStoreUpdate.cfg TaskStore.tla
    tlc -config TaskStoreRemove.cfg TaskStore.tla
    tlapm CsvUtilProofs.tla
    tlapm ExportProofs.tla
    tlapm RateLimitProofs.tla
    tlapm TaskStoreProofs.tla
    tlapm TaskListingProofs.tla
    tlapm WebSessionProofs.tla
    tlapm ProjectPageProofs.tla
    tlapm ProjectFormsProofs.tla
