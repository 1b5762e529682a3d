# ScaleApp in TLA+

This directory holds a TLA+ model of ScaleApp: the modules, the configurations
that check them with TLC on small instances, and proofs, checked by TLAPS, that
hold for every value of the constants. `PROJECT.json` is the index: it maps each
definition to the source lines it models and lists components, runs, mutants,
findings, hazards and theorems.

Paths below are relative to `src/`.

## 1. The system

ScaleApp runs publishing pipelines on behalf of many Instagram accounts. It is a
TypeScript monorepo of two kinds of process, an API and any number of workers,
over PostgreSQL (the source of truth) and BullMQ on Redis (the queue). Processes
share nothing but those two.

| Component | State it keeps | Operations | Talks to |
|---|---|---|---|
| **orchestrator** `packages/orchestrator` | `pipeline_executions`, `pipeline_step_executions` | `start`, `advance`, `tick` (poller) | creates rows of `jobs` and publishes them; reads `jobs.status` |
| **execution** `packages/execution` | `jobs`, `job_executions`; the BullMQ jobs | `createAndEnqueueJob`, the worker's processor (`claimById`, `markRunning`, `mark*`, `recompute`) | queue, driver, failure observers |
| **session** `packages/session` | the session columns of `accounts`, the `secrets` vault, a credential cache per process | refresh sweep and planner, failure handler, login (start, complete), vault `put/replace/rotateToActiveKey`, token resolver | creates refresh jobs through execution; is told of failed operations by the worker |
| **proxy** `packages/proxy` | `proxies`, `accounts.proxy_id`, a resolver cache per process | `swapForAccount`, `reserveForNewAccount`, `confirm/cancelReservation`, `reconcileAssignments`, health sweep, failure handler | is told of failed operations by the worker |
| **media** `packages/media` | folders, assets, blobs, the stored files | `ingest`, `move`, `delete`, `reclaimBlob`, `collectPendingDeletes`, folders, signed serving | storage; resolved by the driver |
| **driver-graph** `packages/driver-graph` | none | `publishMedia`, `createCarousel`, `waitForContainer`, `publishStory`, `refreshSession`, ... | the platform; session, proxy and media through ports |
| **driver-mock** `packages/driver-mock` | counters of its calls | `execute` | none |
| **db** `packages/db` | schema, constraints, triggers | migrations | every repository |
| **domain** | none: types | | all |
| **api** `apps/api` | none of its own | HTTP routes over session, proxy, media | |
| **worker-app** `apps/worker` | none: composition root | builds workers, poller, sweeps | |
| **observability** | metrics | | |

What makes each of them correct, and what is hard about it:

* **orchestrator**: steps run in order and one at a time, each at most once, only
  when its condition is met; nothing decided is undone. Hard: several processes
  poll the same execution; the database commits before the queue is told; a
  process can die anywhere.
* **execution**: a job is run by one worker at a time, ends with an outcome, the
  outcome is final and true, and the aggregate row reflects it. Hard: two
  independent time-outs (BullMQ's lock, the row's lease), redelivery of a job
  whose worker is still alive, crashes between any two statements, two separate
  counts of attempts, unconditional marks.
* **session**: a token is refreshed before it runs out; a stale failure never
  kills a newer session; an encrypted secret is never lost by key rotation. Hard:
  the sweep, the refresh job, logins and failures all write the same row without
  a common lock; caches outlive what they cache.
* **proxy**: a proxy serves at most one account, the two sides of the link agree, a
  claimed proxy is nobody else's, verdicts on health are deserved and passed on no one
  during an outage, retirement is final. Hard: the worker and the API both swap, other
  routes write the same rows without a transaction of their own; the checks are separated
  from the writes by network probes; caches outlive the link.
* **media**: stored bytes live as long as anything refers to them and no longer.
  Hard: database and file system cannot commit together; ingestion of the same
  content races its deletion.
* **driver-graph**: a post shows what the job asked for, at most once, and the result says
  so. Hard: a publication is many requests, between which the library changes; the platform
  fetches the file later, by itself; a lost reply looks like a failure.

## 2. Modules

```
PipelineRun                 what a pipeline run promises (abstract, no processes)
  ^ implemented by
PipelineOrchestrator        orchestrator.ts, orchestratorRepository.ts
  MCPipelineOrchestrator    TLC instance
  PipelineOrchestratorProofs
  PipelineRefinementProofs
JobLedger                   what the rows of jobs promise (abstract, no queue)
  ^ implemented by
JobExecution                worker.ts, jobRepository.ts, executionRepository.ts,
  MCJobExecution            producer.ts, jobService.ts, beside a model of BullMQ
  JobExecutionProofs
  JobAttemptsProofs
SessionRefresh              sweep.ts, refreshPlanner.ts, sessionRepository.ts, resolvers.ts,
  MCSessionRefresh          failureHandler.ts, loginService.ts, driver-graph's refreshSession
  SessionRefreshProofs
ProxyPool                   proxyRepository.ts, assignmentService.ts, healthChecker.ts,
  MCProxyPool               resolver.ts, failureHandler.ts, the routes that write proxies
  ProxyPoolProofs           and the pointer of an account
MediaLibrary                mediaService.ts, repository.ts, the file store, the raw route
  MCMediaLibrary
  MediaLibraryProofs
PostOnce                    what a call of the driver promises (abstract, no containers)
  ^ implemented by
PlatformDriver              graphDriver.ts and errors.ts, composed with MediaLibrary (EXTENDS)
  MCPlatformDriver
  PlatformDriverProofs
```

### PipelineOrchestrator

State. `execStatus`, `cursor`, `condition`, `step` are the columns `status` and
`current_step_index` of `pipeline_executions` and `condition` and `status` of
`pipeline_step_executions`; `job` is `jobs.status` of each step's job (`"absent"`
before the insert; `"in_flight"` stands for the five statuses `advance` treats
alike); `queued` the keys BullMQ holds; `rowLock` the `FOR UPDATE` lock. Per process,
`pc`, `todo`, `target`, `view` and `outbox` are what `tick` and `advance` keep in
local variables across their awaits.

Actions. `Start` is `OrchestratorRepository.start`; the `advance` the code calls
next follows because the new execution is in `todo`. `Tick` is `listActiveIds`. One
`advance` is three atomic steps, cut where another process can get in between:

1. `LockRow`: `BEGIN`, wait for the row lock, read the row and its steps;
2. one of `AlreadyDone`, `AwaitJob`, `StepFailed`, `Release`, `Finish`: the loop, the
   read of the running step's job, all writes, `COMMIT`. The job is read here and
   not under any lock, so it may have changed since step 1. The loop's passes need no
   further cut: they read only rows the lock protects, and a step it has just
   released ends the loop;
3. `Publish`: the enqueue after the commit, when there is one.

The passes of the loop are a closed form (`Unblocked`, `Releases`, `SkipBefore`):
settle the running step, skip pending steps until one whose condition is met,
release it or finish. `AdvanceThrows` is the `catch` (rollback; `tick` logs and goes on),
`Crash` the death of the process, between any two of the steps.

The workers are unconstrained: `WorkerReports` gives any existing job any status, even
one a terminal job should not get, because the marks are unconditional. What is
shown of the orchestrator therefore does not depend on the workers being right.
`JobVanishes` deletes a job row, the case `orchestrator.ts:203` handles.

### JobExecution

State. `status`, `attempts`, `leased` are columns of `jobs` (`leased`: the lease expiry is
still ahead); `delivery`, `attemptsMade`, `stalls`, `holder` the BullMQ job (its state, its
counts, the worker whose token locks it); `pc`, `task`, `tries`, `result` the processor of
each worker slot; `execStatus`, `execLock`, `derived` the `job_executions` row, its lock and
the status a `recompute` has derived but not yet written; `unsent` the jobs inserted and
not yet enqueued. `acts` counts real actions on the platform; it is a history variable.

Actions. One per statement the processor awaits: `ClaimById`, `MarkRunning`, `Execute`,
`Settle` (the four marks), `Recompute` (lock and counts), `WriteExecution` (update and
commit), `Answer` (return or throw, and what BullMQ does with it). `CreateJob`/`Enqueue` are
`createAndEnqueueJob`; `Republish` is what the orchestrator does with a job it finds pending.
BullMQ is modelled from its use in this code: `Deliver`, `Promote` (a delay is over), `Stall`
(the lock was lost: deliver again, or fail after `MaxStalled` times), `Evict`
(`removeOnComplete`/`removeOnFail`). `LeaseExpires` is time.

`faults` counts what went wrong, `suffered` says of which kinds. A property that does not
hold under every kind names the ones it excludes, so that its statement says
exactly what the code relies on:

| kind | what happens |
|---|---|
| `crash` | a worker dies; or the creator of a job between insert and enqueue |
| `lockLoss` | a live worker loses BullMQ's lock (a blocked event loop, Redis away) |
| `slow` | a live worker is still between claim and mark when its lease ends |
| `dbError` | any statement of the processor throws |
| `lostReply` | the platform acts and the driver sees a transport error |

### SessionRefresh

State. `account` holds the columns of `accounts` the component uses: `ref` (`access_token_ref`),
`status`, `expires`, `attempted`, `failures` (`session_*`), `health`, and `blocked` for a
`lifecycle_state` of `disabled` or `failed`. `vault` is the token in each row of `secrets`; `cache`
the tokens a `VaultCredentialResolver` remembers, one per worker process; `job` the
refresh jobs by idempotency key, which is an account and an expiry (`refreshIdempotencyKey`).
`sweep`, `worker` and `login` are what `planPreventiveRefresh`, the processor and
`completeAuthorization` keep in local variables across their awaits. `gen` and `challenged` are
the platform: a token is dead when its time is over or its generation revoked.

Actions. The sweep is `Reconcile`, `Select`, and for each candidate `Skip` or `Create`,
`Enqueue`, `MarkAttempted`; `SweepAborts` is its `catch` or its death. A worker's refresh
is `TakeRefresh` (claim, reference, token), `Call` (the platform's verdict), `RotateToken` (one
transaction, then the cache) or `RotateFails`, `Report` (the failure handler) when it went wrong, and
`Settle`. `TakeOperation` is any other operation of the account: it uses the token and may end in
a verdict on the session. A login is `Exchange`, `Store`, `Attach`. `UpdateStatus` is the operator's
route. What claims, leases and deliveries do is `JobExecution`'s matter; here a refresh job has one
worker at a time and its `tries` are counted.

Time. One tick is one interval of the sweep. `late` counts the intervals that end with
work left over; properties that need the work of an interval to be done in it say
`late = 0`. A cached token lives 30 s and an interval 15 min, so a tick empties the caches; an entry
may also go at any moment (`CacheEvicts`). Execution rows and the stagger are left out: a
delayed job is one that nobody has taken yet.

### ProxyPool

State. `proxy` holds the columns of `proxies` (`assignment_state`, `assigned_account_id`,
`health`, `consecutive_failures`); proxies are numbered in the order of `created_at`. `account` is
`accounts.proxy_id`. `swap` is, per account, its open transaction: the claimed row (locked, and
invisible to others) and what is to become of the old one. `sweep` and `check` are the locals of
`runHealthSweep` and of the check route, `job` a job that sends through a proxy and then its failure
handler, `cached` the proxies whose URL the worker's resolver may still hold. `byHand`, `rescued`
and `handed` are history variables: links an operator changed directly, successes overwritten by an
older answer, proxies left in the middle of a job.

Actions. `SwapClaims`/`SwapCommits`/`SwapRollsBack` are `swapForAccount`, cut where its locks are
visible to others; `SwapRequested` and `HandlerSwaps` begin one. Every route and reservation is one
statement (`Release`, `Retire`, `ReserveForNewAccount`, `ConfirmReservation`, `CancelReservation`,
`ReconcileAssignments`, `CreateProxy`, `CreateAccount`) or a transaction of two that no one can see into
(`AssociateProxy`). A statement waits for a locked row; `SKIP LOCKED` passes it by. The sweep reads
(`SweepBegins`), probes one proxy at a time (`SweepProbes`), judges the batch after the last probe,
and writes row by row (`SweepWrites`). A job resolves its proxy (`JobSends`, `JobRefused`); a
`ProxyError` reads the proxy the account has *by then* (`JobFails`), strikes, and swaps when the
count is reached. A probe or a job may end either way at any time, and a check is due at any
time: intervals and latencies have no bearing.

### MediaLibrary

State. `folders`, `asset`, `blob` are the three tables (with the lock on each row of
`media_blobs`), `bytes` the files of the store by key, and `op`, per client, the request
of the API under way. `torn` is a history variable: ingests that died after their commit.

Actions. An ingest is `IngestPuts`, `IngestCommits` (one transaction: no one can see into it, and it
waits for the row of the content), `IngestEnsures`. A deletion is two steps, the marked item with
the count of live references, then the row of the content: between them another deletion
may count too. A reclaim is three: lock and count, `unlink`, and the deletion of
the row, which PostgreSQL refuses as long as any item, deleted or not, refers to it. The
key of the bytes is made of checksum and type, and the row keeps the key of the first
ingest; the model has both. `Fails` and `ReclaimRefused` are a failure or a death between any two steps.
The collector is `Collects`, over any batch of pending rows. `Opens` and `Resolves` are what the
raw route and the resolver answer.

### PlatformDriver

Extends `MediaLibrary`: the two run side by side and meet in `Resolves` (the driver asks for a
URL) and `Opens` (the platform fetches the file, at any time). `call` is, per job, the call
of `execute` under way: the payload, the containers made, the turns of the poll, what
was posted and whether the platform said so. The payload is kept whole, and `Due` is how much of it
a call shows: all of a publication, the first item of a story (`graphDriver.ts:357` takes `mediaIds[0]` and says
nothing of the others, which is why `PostedAsAsked` states it). Each HTTP request is one action, and every one may be
refused (`Refusals`, by `Verdict`, the table of `mapHttpError`), answered without an id
(`unnamed`), or lost, applied or not (`lost`). The driver reads none of its own state after a
request but the ids it was given, so requests are the only places to cut. The platform is external:
`PlatformFetches` and `PlatformExpires` change a container, and it posts only containers that are
finished.

### PipelineRun

The abstract run of a pipeline: an open run makes progress by moving steps from
waiting to live to an outcome, in order, at most one live, outcomes final, a failure
leaving everything after it skipped, closed exactly when all steps have outcomes.
`PipelineOrchestrator!ImplementsPipelineRun` is `Run!Spec` under the mapping that forgets
jobs, queue, processes and the cursor.

### JobLedger

The abstract life of a job as its row and the platform tell it. A worker takes an open job, and
with it an attempt; it acts at most once for an attempt; the outcome it writes follows from
the reply; succeeded, failed and dead are final; a job is dead when its attempts are used up.
There are no deliveries, leases, locks, stalls or executions. Two weaknesses of the code are part
of the promise, because the code does not promise more: a worker that has outlived its lease
(`overrun`) may write over what others wrote, and a statement that throws (`thrown`) leaves the
row behind the count of the queue. `JobExecution!ImplementsJobLedger` is `Ledger!Spec` where `taken` is
`claimed` or `running`, `open` is `pending` or `retrying`, and a worker's grip is what its processor holds
between the claim and the mark.

### PostOnce

The abstract call of the driver: it is asked to show some items, posts all of them, or of a story the
first, in one step and at most once, each with the content it was filed with, and its report agrees with that. Items
are only ever filed, never changed: deletions, moves and reclaims are not seen.
`PlatformDriver!ImplementsPostOnce` is `Posting!Spec` under the mapping that forgets containers, polls,
downloads and all of the library but the content of each item.

## 3. Runs

Every passing run explores its whole state space (`Publication` as far as its constraint lets it).
`CHECK_DEADLOCK FALSE` everywhere: when all executions or jobs are terminal, or the bound on requests
is used up, the system has nothing to do and may stop.

| Run | Bounds | Shows |
|---|---|---|
| `PipelineSafety` | 1 execution of 3 steps, all 27 assignments of conditions, 2 processes, 1 fault, jobs change and vanish at will | `TypeOK`, `RowsAgree`, `JobsOnlyForReleasedSteps`, `ConditionsHonoured`, `NeverRegresses`, `ImplementsPipelineRun` |
| `PipelineRecovery` | 2 executions of 1 step, 2 processes, 1 fault, fairness | `LostPublicationIsRepeated` |
| `PipelineOnFailure` | 1 execution of 2 steps, 1 process, no fault | **violated**: `FailureHandlersRun` |
| `JobFaults` | 1 job, 3 workers, 2 attempts, 1 stall, up to 4 faults of all five kinds | `TypeOK`, `OneClaimant`, `AttemptsBounded`, `GivenUpWhenExhausted`, `QueueAgreesWithRow`, `OutcomesTellTheTruth`, `ActsAreAttempts`, `SettledForGood`, `ImplementsJobLedger` |
| `JobProgress` | 2 jobs of one execution (one job of a pipeline), 2 workers, 1 crash or lost lock, fairness | `ExecutionReflectsJobs`, `EveryJobSettles`, `PipelineJobsAreClaimed` |
| `JobStuck` | 1 job, 2 workers, 1 crash, fairness | **violated**: `StuckJobsAreRecovered` |
| `JobRepeated` | 1 job, 1 worker, 1 lost reply | **violated**: `RetryNeverRepeatsTheAction` |
| `SessionSafety` | 1 account, 1 sweeper, 2 workers, 2 logins, 5 ticks, tokens of 3 ticks with a window of 2, 2 attempts, 2 upsets of any kind | `TypeOK`, `ExpiryNeverOverstated`, `RefreshedInTime`, `OnlyDeadTokensKill`, `OnlyHumansRevive` |
| `SessionSkipped` | 1 account, 1 sweeper, 1 worker, 1 failing call | **violated**: `SkippedIsInFlight` |
| `ProxyPool` | 2 accounts, 3 proxies (1 registered on the way), 2 job slots; at most 3 requests of the operator, 3 checks, 2 jobs, 4 of these together; batches of 2, down after 2 failures, swap after 1, outage from 2 failures and 50 % | `TypeOK`, `ClaimHolds`, `LinkAgrees`, `SharedOnlyWhenHanded`, `DownNeedsStreak`, `RetiredForGood`, `OutageCondemnsNobody` |
| `MediaReclaim` | 2 items, 1 content, 2 types, 2 folders, 2 clients, no failures | **violated**: `IngestedBytesPresent` |
| `Publication` | the same library with failures and a second content, 1 job over payloads of no item and of 2, of which a story shows the first, 3 refusals, 2 polls | `TypeOK`, `LiveHasBytes`, `PostedAsAsked`, `ResultMatchesPost`, `ReclaimSparesLive`, `ImplementsPostOnce` |

Why the bounds are enough to be interesting. Executions do not interact except
through a process's `todo` and the poll limit, so one is enough for safety; three steps
give a first, an inner and a last one, so a skipped step can stand between two others
and a failure can leave two behind. Two processes reach every overlap of an
`advance` with another, and the proofs remove the bound. Three workers allow a third
delivery while two earlier ones linger; two attempts and one stall give every count
its boundary and one value on either side; four faults allow a redelivery, its loss, a
crash and a failed retry in one behaviour. `MaxFaults` bounds how much goes wrong; nothing
else is cut off. Only `Publication` uses a state constraint (below).

Accounts meet only in the `LIMIT` of a sweep, so `SessionSafety` has one; with it the limit never
bites, and starvation through it is not checked. Two workers give a refresh that overtakes
another operation with an older token in hand; two logins give the case of an account without
a row where both put one. Tokens of three ticks, a window of two and five ticks let
a session be selected twice before its end and a refreshed one come due again. `MaxUpsets` lets
two things go wrong or happen from outside in one behaviour: two crashes, a failed
refresh and a login, a revocation and a late interval.
`OperatorSets` is `{"healthy"}`: the operator's act that could undo a verdict.

In `ProxyPool`, two accounts and three proxies let two swaps, or a swap and a reservation, compete
for one free proxy, and let a proxy pass from one account to the other while a job still
sends. `MaxOps`, `MaxChecks`, `MaxJobs` and `MaxRequests` bound what is begun, not what happens
to it: a sweep beside a check beside two jobs, or three requests beside a job, are among the
mixes. With batches of two and an outage from two failures, a batch can be one, have
one failure too few, or just enough.

In `Publication`, two items of two contents let a post with its items swapped, doubled or missing be told from
a right one; two items of one content, under two types and in two folders, give every relation of items
and content (shared, last one, other type, deleted and ingested again). `Payloads` are none and two
different items in either order: a carousel needs two, and a story shows the first of its two. `Refusals` are one
error of each consequence (the token, the request, the platform): the rest of the table differs only in the
name of the result. `MCOneBesideACall` is the constraint. Either there is no call and the library
has one content: then both clients, every overlap of their requests and all deaths are explored. Or, beside a
call or not, the API serves one request at a time, no ingest has died, a content has one type, and there are
either two contents and the root alone, or one content and all folders. What this leaves out are overlaps of
two requests beside a call, of requests for two contents, and the making of folders beside a call. A call meets the library only where it resolves an
item and where the platform opens its file: it sees what the requests have written, one at a time,
and two requests of different contents share no row but that of a folder, which does not
tell contents apart. The proofs hold without the constraint. Contents are interchangeable too in this run.

Symmetry (processes, workers, accounts, items, clients) is used only in runs without liveness.

### Fairness

`PipelineOrchestrator!Fairness`: `runPoller` fires on a timer for ever, so an idle process
ticks (weak); an `advance` that has begun goes on (weak); the row lock is awaited in
PostgreSQL's queue, so a process that keeps asking gets it (strong, since other
processes take it in between). No fairness on `Start`, on workers, on faults.

`JobExecution!Fairness`: a publisher that is up enqueues, the poller republishes, BullMQ
promotes what is due and checks for stalled jobs, time passes for leases, each worker
slot goes on. All weak. None on `CreateJob`, `Evict`, crashes or other faults. A crashed
worker's slot is free again, as `apps/worker` restarted.

### What the violations show

* `PipelineOnFailure`. `StepConditionType.OnPreviousFailure` is offered by the domain and
  evaluated by `conditionMet`, but when a step fails `advance` marks every pending step
  skipped and closes the execution before it evaluates anything
  (`orchestrator.ts:230-250`). A failure handler never runs.
* `JobStuck`. `jobRepository.ts:5-6` says the claim recovers jobs whose lease expired. The
  lease (60 s) outlasts BullMQ's lock (30 s), so the one redelivery of a crashed
  worker's job comes while the lease is valid, is refused, and completes the
  delivery. No later delivery exists and nothing else claims.
* `JobRepeated`. `0001_init.sql:181` says a retry never duplicates a real action. A lost
  reply to `media_publish` is a retryable transport error, and the retry publishes again.
* `MediaReclaim`. Two faults of the code that meet. A deleted item keeps its row, and the foreign
  key of `media_assets.checksum` (`0007_media_library.sql:80`) refuses the deletion of the content's
  row: `reclaimBlob` removes the bytes, is rolled back, and reports that it removed nothing; the
  row stays `pending_delete` and is collected again for ever (the test at `library.test.ts:326` expects the
  row to be gone). And `ensureBytesPresent` looks for the key of its own ingest, not the
  one of the row: when the same content comes back under another type, its bytes are
  written where nobody looks for them. `LiveHasBytes` says the rest: under any
  interleaving and any failure, nothing else than this, and the death of an ingest between its commit and its second
  look, leaves a live item without bytes. That death (`mediaService.ts:198`) is an exception of the property,
  kept in `torn`, and not something it excludes.
* `SessionSkipped`. The planner's comment says a candidate it skips has a job in flight, and the
  configuration's that a refresh which fails is tried by the next sweeps. The key of the job is
  made of the expiry, and a failed refresh does not change it: every later sweep finds the failed
  job's row and skips the account until the session is over. `RefreshedInTime` says the
  rest: nothing but that lost job lets a session run out.

### Mutants

Each property of a passing run has one plausible bug (an operator marked *Wrong variant* in the
module, next to the definition it replaces) under which TLC finds it violated:
the `SELECT` without `FOR UPDATE`, publication before the commit, a claim that ignores the
lease, an attempt count off by one, and so on. `PROJECT.json` lists them.

## 4. Proofs

### PipelineOrchestratorProofs

For any number of executions, steps and processes, any pipelines, any bound on
faults: `TypeCorrect`, `RowsAlwaysAgree`, `NoJobWithoutRelease`, `ConditionsAlwaysHonoured`
(invariants) and `NothingRegresses` (the action property). Assumption:
`OrchestratorAssumption`, which only types the constants.

The inductive invariant `IInv` adds to those four what a process knows between its steps:

* `ViewIsFresh`: who is in a transaction owns its row's lock, and what it read still
  stands. Without it an `advance` could write a stale view over newer rows;
* `TodoStarted`: what a process is about to advance has been inserted;
* `OutboxReleased`: what it is about to publish was released, and stays released
  although it is published after the lock is gone.

The argument: the loop is described once, by the lemmas on `Unblocked`, `Releases` and
`SkipBefore` (`Loop`, `LoopStart`, `ReopenedIsReleased`), from which `ReleaseOutcome`,
`FinishOutcome`, `FailureOutcome` and `AwaitOutcome` say what each action writes. All four
writes satisfy one predicate, and `WritesKeep` shows that it preserves every part of the
invariant; the rest are steps that forget, lock or report. `NothingRegresses` follows from
the same predicate.

### PipelineRefinementProofs

`OrchestratorImplementsRun` (`ImplementsPipelineRun`): the orchestrator refines `PipelineRun`, for
any number of executions, steps and processes. The initial states map to the initial
state (`InitMaps`), `Start` to `Open` (`StartOpens`), and whatever an `advance` writes is
`Progress` (`WritesAreProgress`): `AgreeingRowsSeen` gets order, stopping at a failure and the
verdict from `RowAgrees`, `FollowingRowsMove` the moves of single steps from `Follows`
and `Honours`. Every other action leaves the rows, hence the run, alone.

### JobExecutionProofs

For any sets of jobs and workers, any policy and any faults: `TypeCorrect`,
`LeaseExcludes` (`OneClaimant`), `OutcomesAreFinal` (`SettledForGood`),
`ExecutionIsTheSumOfItsJobs` (`ExecutionReflectsJobs`), `QueueAndRowAgree`
(`QueueAgreesWithRow`), `RowsTellTheTruth` (`OutcomesTellTheTruth`). Assumption:
`JobAssumption` (types of the constants, finitely many workers).

`OneClaimant` is not inductive: the invariant adds that, while no worker was slow, a job with a
worker between claim and mark is leased, `claimed` or `running`, hence not
claimable by another one. Finality follows: a mark is unconditional, but the only worker that
could write is the one the lease admits.

The other three have an invariant of their own each, beside the types:

* `Reflection`: the execution's lock is with whoever has counted and has yet to write; and once
  every job is over, somebody has yet to count, or holds the right count, or wrote it.
  Only a mark ends a job, and whoever marks counts next.
* `Agreement`: while workers are only late and replies only lost, a job in delivery is with the
  one worker that has its lock, and the row is where that worker stands (`SoleDelivery`,
  `RowFollows`).
* `Truth`: a job was acted for once if its row says succeeded or a worker is about to, else
  never. The worker that acts is alone with the job (`Alone`): by its delivery (`Agreement`) when
  workers are slow, by its lease (`IInv`) when locks are lost.

### JobAttemptsProofs

`AttemptsAreBounded` (`AttemptsBounded`), under every kind of fault. The bound is not inductive:
a worker that has a delivery and has not claimed yet is an attempt to come. `Budget`
counts attempts together with those claimers against the deliveries the queue has made
(`attemptsMade`, `stalls`, and the active one), and adds that a job the queue has forgotten is
published again only if it was never attempted. Each claim turns one claimer into one
attempt (`ClaimSpends`), only `Deliver` adds a claimer (`DeliveryGrants`).

`GivenUpOnlyWhenExhausted` (`GivenUpWhenExhausted`): the processor gives up by the queue's count
(`attemptsMade + 1`), the property is about the row's. `Tally` says that the row never counts fewer
attempts than the queue while no statement throws: whoever has claimed is counted already
(`CountedBy`), and the queue counts a failure only for the worker that has the lock (`CountedOf`).

`EveryActIsAnAttempt` (`ActsAreAttempts`), under every kind of fault: the platform sees no more actions of a
job than its row counts attempts, and at least one of a job that succeeded. `ActsCounted` adds the
workers between claim and call, each of which stands for an attempt that has not acted yet, and those
whose call succeeded and is yet to be marked, whose job has acted. It is what is left of rule 9
when replies are lost and leases overrun (`JobRepeated` refutes the rule itself).

`ExecutionImplementsLedger` (`ImplementsJobLedger`): `JobExecution` refines `JobLedger`, for any jobs, workers,
policy and faults. A claim is a `Take` (`ClaimTakes`; the lease excludes others by `IInv`, the
allowance by `AttemptsBounded`), the call an `Act` (`ExecuteActs`), the mark a `Conclude` (`SettleConcludes`: it meets a row that is
still taken, and `Tally` says that who gives up has used the attempts), a crash or a throw lets go
(`OthersLetGo`), and the queue, the lease, the creator and the execution are not seen except where they
create the row or overrun (`SurroundingsSeen`).

### SessionRefreshProofs

For any accounts, workers, sweepers, logins and bounds: `TypeCorrect` and
`OnlyHumansReviveAlways` (`OnlyHumansRevive`). Assumption: `SessionAssumption`, types of the
constants. `TypeOK` is inductive with what it says of processes at work (`Backed`): a worker whose
account had no row calls with no token at all, is refused, and so never comes to persist; a login
attaches a row it has stored. There is one lemma for each way a process moves (`WorkerMoves`,
`WorkerGoesOn`, `LoginMoves`, `JobMarked`, `AccountMoves`) and one for what is written to an account
(`RowsTyped`). For the action property, `WritesKeep` shows that neither a successful refresh nor any
verdict lifts an earlier verdict, and `OthersKept` that a write to one row restores no other
account; `SweepersKeep` and `WorkersKeep` apply them to every step that is not a human's.

`ExpiryIsNeverOverstated` (`ExpiryNeverOverstated`), by `Punctual`: while each interval's work is done
within it, a token that is about to be persisted or attached was issued in this interval, and
none lasts longer than one issued now; so no write shortens the life of what another has stored.
`OnlyTheDeadAreKilled` (`OnlyDeadTokensKill`), by `Killed`: without logins, every copy of a token (in the
vault, in a cache, in a worker's hands) is of the first generation and runs out exactly when the vault's
does, so what one worker finds dead is dead for all.

`RefreshesComeInTime` (`RefreshedInTime`) needs more of the constants, named `Prompt`: there is a sweeper, the
window and the least retry fit the life of a token (`0 < Window`, `MinRetry < Life`), and the
accounts are finite and no more than the `LIMIT` of a sweep. The last is not for convenience: with fewer
places than accounts, the `SELECT` of the code can leave an account out of every sweep (see the
hazard at `sessionRepository.ts:89`). The invariant has three parts: `Punctual`; `Orderly` (a running job is with
one worker, and a job in a sweep's hands is created by that sweep alone); and, as long as every
interval's work is done within it and nobody intervenes (`Quiet`), `InTime`, which follows an account's refresh through the row, the sweep, the job and the
worker: an account that is due has its job once a sweep has passed, the job that stands for it is
settled in the interval in which it starts, and a job that succeeded has moved the expiry. `RowMoved`, `JobMoved`,
`SweepMoved` and `WorkerMoved` say what a step may do to each of these; `EveryStepMoves` shows that every step
does no more, and `TickInTime` that the end of an interval finds the work done.

### ProxyPoolProofs

Every property of the run `ProxyPool`, for any pool, any accounts and jobs and any limits: assumption
`PoolAssumption`, types of the constants and that proxies are numbers. The inductive invariant:

* `TypeOK`, with what a handler and a commit rely on (`job[j].via` is a proxy, an account never
  loses its pointer once it has one);
* `ClaimHolds`: a claimed row is available and claimed once. Every other writer of a row
  waits for the lock or skips it, one lemma for all statements on one row;
* the two sides of the link. `LinkAgrees` alone is not inductive: a release writes the
  row of an old proxy, so the invariant adds that two accounts never point at one proxy (the unique
  constraint, `PointerFree`);
* `SharedOnlyWhenHanded`, from: a job that sends does so through the proxy of its account, or through one
  that is in `handed`;
* `DownNeedsStreak`, from what the sweep and the check remember: the count they have read is at
  most the one that stands, unless the proxy is in `rescued`.

The two action properties follow from the invariant case by case: every writer of `state` either
keeps `"retired"` or is an `AssociateProxy`, and only `SweepWrites` and `CheckEnds` write `"down"`.

### MediaLibraryProofs and PlatformDriverProofs

`LiveItemsKeepBytes` (`LiveHasBytes`) for the library alone, and for the composed system
`DriverTypeCorrect`, `BytesAreKept`, `PostsAreAsAsked` (`PostedAsAsked`), `ResultsMatchPosts`
(`ResultMatchesPost`), `ReclaimTakesNoLiveBytes` (`ReclaimSparesLive`), for any items, contents, types, clients,
jobs, payloads and bounds. Assumptions: `MediaAssumption`, `DriverAssumption`, `RefusalAssumption`,
types of the constants.

The heart of the library is that a reclaim between its lock and its end owns the row (`blob[c].lock`) and the
content has no live item then: only an ingest could make one, and an ingest waits for the row.
`ReclaimSparesLive` is that fact read at the step that unlinks. `LiveHasBytes` needs it together
with where every ingest stands: an ingest commits before it looks again, so from the moment an item is live
until its bytes are sure there is a client at `"ensure"` or a key in `torn`.

For a call, the invariant relates the containers to the items: container `i` is made of item `i`, what
it has fetched is that item's content, there are as many as the call is due to show (`Due`, between one and all of
the items by `DueBound`) once `After` leaves the loop, and a call that has posted shows just those. The content of an item never changes
while the item exists (also not when it is deleted or moved), which is what the steps of the library
have to preserve for the calls; the steps of the driver leave the library alone.

`DriverPostsOnce` (`ImplementsPostOnce`): the composed system refines `PostOnce`, for payloads of any length. Steps of
the library only file items (`LibraryFiles`); `Execute` asks (`ExecuteAsks`); containers, polls and downloads
are not seen (`PreparingIsHidden`, `PlatformIsHidden`); the last publication is the post
(`PublishingPosts`, where the invariant supplies that the finished containers show the items due, in order
and as filed); permalink and reading finish (`ReadingFinishes`). `Placed` says what the mapping needs of
a call between its steps: no result before it is over, nothing posted before the publication.

### Only model-checked

Liveness (`LostPublicationIsRepeated`, `EveryJobSettles`, `PipelineJobsAreClaimed`), which is beyond TLAPS
and stays with TLC. Every safety property of a passing run is also proved.

## 5. Not modelled

Inside the modelled components: the contents of payloads, results and errors; the counts of
`job_executions` (only the status they imply); the length of back-offs; priorities
and concurrency limits (a worker slot is one unit of concurrency); `cancelled`,
`scheduled` and `partially_failed`, which no code writes for the rows concerned; a
delivery's stale `dbJobId` after its row vanished (no code deletes rows of `jobs`).

In session: re-encryption of the vault under a new key (`rotateToActiveKey`, which only tests
call), the ciphers, the signed OAuth state. A
verdict on a token that a login has replaced meanwhile does end the new session (the failure
handler is told an account, not a token); `OnlyDeadTokensKill` is therefore stated for
behaviours without a login. Nor is a platform that refuses a token as soon as a refresh has replaced it: an old
token works until it expires or is revoked, so a stale copy in a cache (`resolvers.ts:62`) does no harm here. Several accounts under the `LIMIT` of a sweep.

In proxy: listings and counts, shared exit IPs, the parsing of an exit IP, the URL and its credentials
(a credential that is missing is one of the ways for a probe or a job to fail), the spacing of
probes. Two things the model has and no property denies: a strike reported late hits the
proxy the account has been given meanwhile, and a proxy that is down stays down, because the sweep probes through the
resolver that refuses it. `resolver.ts:9` and `proxyRepository.ts:256` say that only the sweep marks a
proxy down and not during an outage; the check on demand (`routes/proxies.ts:190-193`) does it too,
and without looking for one: `OutageCondemnsNobody` names it as the exception.

In media: names, usage and parent folders, listings, the fetching of a URL, the computation and the clock of
signatures (valid or not is a choice of the fetch). Files that no row names, left behind when a transaction fails
after its `put`, are not counted; nor is a content whose last two items are deleted at once, which nobody marks
for collection. The order in which the collector takes pending rows is open in the model, so that rows which
can never be closed may starve others is not checked. Deadlocks of PostgreSQL
between a deletion and an ingest appear as a failure of either.

In driver-graph: parameters and bodies of requests, the OAuth client (stateless; its answers are those of
`Exchange`), the length of polls. Two publishing calls of one job are `JobExecution`'s matter (`JobRepeated`).

In the API and the worker: tags, groups and listings of accounts, validation of requests, start and shutdown,
configuration. Migrations, metrics and the mock driver have no behaviour worth a model.

## 6. Plan

Everything the first plan named is done, in this order: `PipelineRun`, `PipelineOrchestrator` and
`JobExecution`; `SessionRefresh`; `ProxyPool` (assignment and health in one module, because they meet in the
rows); `MediaLibrary`; `PlatformDriver` (the container protocol and the table of errors, composed with the
library); their proofs. Dropped: `CredentialVault`, since the guard of the rotation covers the case it was planned for and
nothing calls the rotation.

Since then the abstract specifications `JobLedger` and `PostOnce` were added, each with the proof that the detailed module
implements it. The two meet in what a worker's `Execute` is: one call of the driver, which posts at most once and
whose verdict is the reply of an attempt.

What would come next: `SessionRefresh` with several accounts under a `LIMIT`, and an abstract life cycle of a
session it implements; an abstract dedication of proxies to accounts that `ProxyPool` implements.
