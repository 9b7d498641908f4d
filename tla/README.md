# stellAIverse backend: TLA+ models, checks and proofs

This directory holds TLA+ models of the parts of the backend where the order of
events decides whether the result is right, the TLC configurations that check
them on small instances, and TLAPS proofs of what matters most for instances of
every size. Paths such as `oracle/services/x.ts` are below `src/src/`.

The backend is a NestJS application. One process is single-threaded, but every
`await` lets other requests, queue workers, timers and event handlers run, and
several processes share PostgreSQL (through TypeORM), Redis and the Bull queues.
So the unit of interleaving in all models of handlers is *the code between two
awaits that reach something shared*. What a suspended call keeps in its local
variables is part of the state, because that is what goes stale.

## 1. Inventory

| Component | State | Operations | Hard behaviour | What makes it correct |
|---|---|---|---|---|
| DAG orchestrator, `compute-job-queue/dag/dag.service.ts` | workflows and nodes in memory, `jobIdIndex` | submit, cancel, handlers of `dag.job.completed` and `dag.job.failed`, advance, enqueue, finalize | a list of ready nodes is enqueued one await at a time while other handlers make theirs | no node before its conditions; nothing stranded; a verdict that fits |
| DAG validator, `dag.validator.ts` | locals of one call | structural checks, cycle search, topological sort | repeated and dangling list entries, two algorithms that must agree | accepts exactly the acyclic graphs; the order respects them |
| Compute job queue, `queue.service.ts`, `compute-job.processor.ts` | Bull jobs, dead letter queue | add, pause, resume, cancel, remove, retry, process, fail | several queue commands per operation, workers in between, workers that die | paused means parked; result, events and letters tell one story; every job ends |
| Batch jobs, `queue.service.ts` | `BatchJobProgress` in memory | three strategies, cancel | a loop and the chunks it abandoned write one object; a cancel is overwritten | counts add up; order and concurrency are kept |
| Oracle submission, `submitter.service.ts`, `oracle.service.ts` | one row per payload, transactions on the chain, monitors in memory | sign, submit with retries, monitor, retry, expire | whole entities saved over rows read much earlier; lost answers | confirmed means on the chain; submitted means watched; broadcast once |
| Oracle nonces, `nonce-management.service.ts` | one row per address, cache of each process | read, increment, set, reset, clean up | first use has no row to lock; cache filled late | an atomic counter; the cache agrees with the row |
| Submission batches, `submission-batch.service.ts` | in-flight marks, batches | hand out, validate, submit, retry per failure type | marks shared by batches and retries, set before awaits | one batch per payload; no mark without an owner |
| Signing, verification | none | hashes and signatures of `ethers` | none here | functions of a library |
| Indexer block ranges, `block-coordinator.service.ts`, `scalable-indexer.service.ts`, `block-fetch.processor.ts` | a record and a lock per range, global progress (Redis); fetch jobs | initialise, acquire, release, complete, poll, stop, fetch | several instances, locks with a TTL, records read and written in separate calls, keys built from mutable ranges | completed means indexed; one hand per range; every range is completed in the end |
| Indexer events and reorganisations, `event-ingestion.processor.ts`, `scalable-indexer.service.ts` | events table, two queues, range records | ingest, queue again, dead letters, look for a fork, delete, write a new range | late jobs of a dropped fork, retries that split a batch, a worker that dies | no event vanishes |
| Indexer shards, `shard-manager.service.ts` | shards and heartbeats | register, beat, rebalance | a late heartbeat | every shard has one owner |
| Compute bridge, `compute-bridge/router/`, `orchestration/` | breakers, health metrics, requests in flight | select, execute, retry, check health, half open | half open admits everybody; three writers of the same counters | counters stay below their limits; a sound provider is asked again |
| Cache of job results, `cache/` | entries and version records in Redis | check, store, warm, invalidate in three ways | entries stored behind an invalidation's back; two keys per entry | what was invalidated is not answered |
| Wallets, `auth/wallet-auth.service.ts`, `delegation.service.ts` | wallets, the user's address | link, unlink, set primary, request a delegation | counts and flags read before rows are saved | one primary wallet; a user keeps a way in |
| Challenges and recovery, `auth/challenge.service.ts`, `session-recovery.service.ts` | challenges and sessions in memory | issue, consume, code, complete, cancel | one session object used by several requests | a token is earned once |
| Quota, `quota/` | buckets, windows, policies | enforce, check | edges of windows, expiry of keys, integer time | never more than the policy promises |
| Governance, `governance/` | proposals with a timelock | queue, execute, cancel, cron | the cron saves rows read earlier | nothing before its time, nothing twice |
| Scheduling, `scheduling/event-scheduler.service.ts` | events, participations | start, end, reward; terminate, extend, pause | passes of the timer overlap | an event ends once, and for everybody |
| Reward pipeline, `reward-engine/reward-pipeline.service.ts` | rows, a queue of ids in memory | enqueue, pay, time out, retry | a late answer after a timeout; a restart | a reward is paid once and its row says so |

How they meet: a client submits a workflow; the validator gates it; the
orchestrator adds compute jobs to the Bull queue and hears of their end through
the process's event emitter, from the compute job processor (or not at all, when
the cache answers). An oracle payload takes a nonce, is signed, submitted and
monitored, alone or as a member of a batch. Indexer instances share a chain
through Redis, hand ranges to a queue of fetch jobs, and these queue events for
ingestion; a reorganisation deletes events and writes new ranges. Requests to
the compute bridge and orchestrated executions share the circuit breakers. Ended
events feed the reward pipeline. Governance, quotas, wallets and sessions each
work on rows or Maps of their own. The remaining directories (CRUD services,
adapters to external services, analytics, reports, telemetry) are listed in
`PROJECT.json` with the reason they are left out, and in section 6.

`PROJECT.json` "hazards" lists, line by line, what is hard to test in this code,
and which property would catch it.

## 2. Modules

| Module | Code | Checked by | Proofs |
|---|---|---|---|
| `DagWorkflow` | `dag.service.ts`, with what it uses of `queue.service.ts` and `compute-job.processor.ts` | `MCDagWorkflow`: `dag_faults`, `dag_healthy`, `dag_cancel` | `DagWorkflowProofs` |
| `OracleSubmission` | `submitter.service.ts`, `oracle.service.ts` | `MCOracleSubmission`: `oracle_races`, `oracle_faults`, `oracle_once` | `OracleSubmissionProofs` |
| `NonceManagement`, `NonceCounter` | `nonce-management.service.ts` and the counter it implements | `MCNonceManagement`: `nonce_races`, `nonce_validation` | `NonceManagementProofs` |
| `IndexerRanges` | `block-coordinator.service.ts`, `scalable-indexer.service.ts`, `block-fetch.processor.ts` | `MCIndexerRanges`: `indexer_sharing`, `indexer_catch_up`, `indexer_tail` | `IndexerRangesProofs` |
| `DagValidator` | `dag.validator.ts` | `MCServices` (inputs in `MCDagValidator`): `services` | `BatchProofs` |
| `ComputeJobs` | `queue.service.ts`, `compute-job.processor.ts` | `services` | `QueueProofs` |
| `BatchJobs` | `queue.service.ts` | `services` | `BatchProofs` |
| `SubmissionBatch` | `submission-batch.service.ts` | `services` | `BatchProofs` |
| `ProposalTimelock` | `governance.service.ts` | `services` | `LedgerProofs` |
| `RewardPipeline` | `reward-pipeline.service.ts` | `services` | `LedgerProofs` |
| `ProviderRouting` | `provider-router.service.ts`, `provider-health.service.ts`, `circuit-breaker.service.ts`, `multi-provider-orchestration.service.ts` | `services` | `ServiceProofs` |
| `WalletAccounts` | `wallet-auth.service.ts`, `delegation.service.ts` | `services` | `LedgerProofs` |
| `WalletRecovery` | `challenge.service.ts`, `wallet-auth.service.ts`, `session-recovery.service.ts` | `services` | `ServiceProofs` |
| `ResultCache` | `cache.service.ts`, `cache-job.plugin.ts`, the listener, the warmer and the Redis backend | `services` | `ServiceProofs` |
| `EventScheduler` | `event-scheduler.service.ts` | `services` | `LedgerProofs` |
| `EventIngestion` | `event-ingestion.processor.ts`, `block-fetch.processor.ts`, `scalable-indexer.service.ts` | `services` | `ServiceProofs` |
| `RateLimiter` | `rate-limiter.service.ts`, `rate-limiting/algorithms/` | `services` | `BatchProofs` |

The first lines of every module say what an action is. `PROJECT.json` "map"
gives, for every definition that models code, the lines it stands for.
Definitions whose comment begins with "Mutant" are wrong on purpose: each is a
plausible bug of the definition that follows it and shows that a property can
be violated by such a bug. Nothing else uses them.

### DagWorkflow

One workflow. `wf` and `node` are `DagWorkflow.status` and `DagNode.status`;
`dependsOn` is the graph. `call[c]` is a suspended call of `submitWorkflow` or of
an event handler: the node whose `addComputeJob` it awaits (`at`) and the rest of
its `readyJobs` list (`todo`). `live[n]` counts the jobs of `n` the queue holds
and the service can map back, `added[n]` those ever created.

`Submit` and `JobEvent` run up to their first await: validation or lookup, the
skip closure, the list of ready nodes and, if nothing is left, the verdict.
`Accept`, `Reject` and `Dedup` are the three answers of the queue; `Resume` and
`Continue` belong to calls overtaken by the end of the job they were adding
(`EarlyEvent`). `Loop` is the body shared by all of them: it starts the next add,
or finalizes. `SilentEnd` is a job that ends without a dag event. `Cancel` is
`cancelWorkflow`. The acyclicity test of `Submit` is the abstract form of what
`DagValidator` models in detail.

### DagValidator

The code is synchronous, so an action is one iteration of one of its loops:
`Check` (structural checks), `StartSearch`, `Descend`, `Retreat`, `EndSearch` (the
depth-first search in three colours), `Process` and `EndSort` (Kahn's algorithm).
Dependency lists are sequences because `inDegree` counts entries, not nodes.
`KeptOf` is the part of a sequence that is in a set, in its order: the roots among
the keys of the Map, the children of a node, the children it was the last to hold
back. The last section of the module, like that of several others, is the
invariant behind the answers (section 5).

### OracleSubmission

One row of `signed_payloads`. TypeORM's `save` of an entity is an overwrite of the
whole row by the entity the call loaded earlier (`call[c].doc`, `watch[m].doc`).
`Submit`/`Send`/`SendFails`/`SendLost`/`SaveSent` are the retry loop of
`submitPayload`; `AttemptFailed` decides between another attempt and giving up.
`BeginSign` and `SaveDoc` are `signPayload`, `BeginRetry`, `SaveReset` and
`Resubmit` are `retrySubmission`, `BeginCleanup` is `cleanupExpiredPayloads` for
this row. A monitor waits for the receipt (`Receipt`, `WatchFails`) and saves its
own entity (`SaveWatch`, `WatchVanishes`). `Mine` is the chain, `Expire` the clock.

### NonceManagement

One row of `submission_nonces` and the cache of one process. `BeginIncrement`
locks the row, or finds none; `CommitIncrement` saves and unlocks, or
`RollBackIncrement` when another call inserted the row first; `Invalidate` deletes
the cache entry afterwards. `CacheHit`, `CacheMiss`, `InsertZero` and `FillCache`
are `getCurrentNonce` (`validateNonce` compares with its answer). `BeginSet`,
`CommitSet` are `setNonce` and `resetNonce`; `CleanupOldNonces` deletes idle rows.
Time shows only in flags: an entry is fresh or not, a row was used long ago or
not.

### IndexerRanges

`rng[r]` and `lock[r]` are the Redis record and lock of range `r`; `Stored(r, to)` is
the record found under the key built from a range that ends in `to`. A polling
cycle of instance `i` goes through `Poll`, `ReadRecord`, `NoneLeft` (the list is
complete), `TryLock`, `CheckRecord`, `Acquire` or `DropCandidate`, then `Enqueue`,
or `ReleaseGet`/`ReleaseSet`/`ReleaseUnlock` when the range lies ahead of the safe
head. A job goes through `Fetch`, `CompleteGet`, `CompleteSet`, `CompleteUnlock`,
`ReadProgress`, `WriteProgress`, or releases its range after its last retry. `Stop`
and its continuation are the shutdown of an instance. A behaviour follows one
*scenario*, chosen at its start: which events may happen (chain growth, lock
expiry, crash, stalled job, failed fetch, shutdown, rewritten records, lost
records), the initial safe head, and the number of ranges. Scenarios keep each
combination small and let a property name exactly the events it survives.

### The services of one run

The modules below share no state with each other and each has a small state
space, so `MCServices` checks them in one run: a behaviour picks its `subject`
at the start and is a behaviour of that module, whose variables are instantiated
by `v1` to `v9`. A property of a module is checked as
`subject = "..." => M!Property`.

**ComputeJobs.** `job[j]` is Bull's record of a job (its state, the attempts, who
holds the lock, the copy of the data marked as paused) with a history of what
was told about it. A control call is a row of commands: `Ask` is `getJob`, then
`PauseState`, `PauseUpdate`, `PauseMove` are `pauseJob`; `ResumePromote`,
`ResumeUpdate` `resumeJob`; `CancelState`, `CancelRemove` `cancelJob`; `CallBreaks` is
an error between two of them. A worker takes a job (`Take`) and ends it by
`Answered` (cache), `Succeed`, `ThrowOn` (Bull retries) or `Bury`, `TellFailure` and
`Return` (dead letter, events, and a result all the same). `Stall` is the death of
a worker.

**BatchJobs.** `NextChunk` submits what one iteration of a strategy awaits
together, `JobFinished` and `JobRejected` are the answers of the queue, whoever is
still waiting for them; `LoopEnds` and `CancelBatchJob` write the status.

**SubmissionBatch.** `batch[b]` holds the entities a call of `processBatch` read at
its start; `Validate` takes or skips one, `Refuse` fails one, `SubmitOfBatch` saves
the entity, `BatchReturns` clears the marks. `ProcessWithRetry`, `RetryLoad`,
`RetrySubmit` are the retry, which clears marks whoever set them (`Release`).

**ProposalTimelock.** `QueueProposal` and `Insert`, `ExecuteProposal` and `CancelProposal`
with their `SaveOfCall`; the cron is `CronReads`, `CronSaves`, `CronBreaks`; `Tick` is
the clock.

**RewardPipeline.** `ProcessRewardEvent` and `Push` fill the queue; the timer's loop is
`Shift`, `Find`, `Answer`, `SaveResult`; a payment may still arrive after the timeout
(`LatePayment`); `RetryReads` and `RetrySaves` are the manual retry; `Restart` loses
what is in memory.

**ProviderRouting.** A request goes through `Begin`, `Select`, `Check`, `RunSucceeds` or
`RunFails`, an orchestrated execution through `Execute` and `Executed`; both and
`HealthCheck` write the breaker and the metrics. Operators such as `RecordFailure`,
`WithFailure` or `Checked` are the methods of the two services, as functions of the
record they change.

**WalletAccounts, WalletRecovery.** Calls are rows of reads and saves (`LinkCounts`,
`Insert`, `UnsetPrimary`, `SaveEntity`, `SetAddress`, `UnlinkCounts`, `Promote`, ...), and
in the recovery a call keeps the session object it found even when the Map has
lost it.

**ResultCache.** A job checks (`Check`), runs, stores an entry (`Store`) and then its
version record (`SetVersion`). An invalidation lists keys (`List`) and deletes them
one by one (`Delete`) or together (`DeleteAll`), whatever is stored by then.

**EventScheduler.** A pass of the monitor goes through the lists it read:
`ActivateEvent`, `FindExpired`, `CompleteEvent`, `FindParticipants`, `Reward`, `Mark`;
several passes overlap because the timer does not wait. `Read` and `Save` are the
administrator's calls.

**EventIngestion.** Ranges are fetched and their events queued (`AcquireRange`,
`QueueEvents`, `MarkComplete`). A batch is stored whole (`Ingest`) or, when that fails,
event by event (`BatchFails`, `StoreNext`, `RequeueNext`, `BatchEnds`); single events are
retried and end as dead letters (`SingleFails`, `RetryDeadLetterJob`). Queues refuse,
workers die. `CheckForReorgs`, `Pass`, `DeleteEvents` and `ResetRange` are the check for a
reorganisation and its handling, while old jobs are still queued. It takes the
sharing of ranges, which `IndexerRanges` models, as one step each.

**RateLimiter.** One operator per algorithm, each the Lua script or the Redis
commands it runs at once; `CheckRateLimit` applies the one of the policy, `Tick` and
`Expire` are time and TTL. Levels are counted in requests times the window, which
makes the refill of one tick a whole number.

**NonceCounter** is abstract: the next nonce and the nonces given since the last
setting by an administrator, with `Take` and `Set` as atomic steps.
`NonceManagement!ImplementsCounter` maps it to the row and the log of what callers
were given.

## 3. Runs

State counts are distinct states.

| Run | Instance | Shows |
|---|---|---|
| `dag_faults` | 3 nodes, every dependency map over `onSuccess` and `always` (cyclic ones are refused), 2 calls in flight, rejected, deduplicated, silent and early jobs; 780,000 states | `TypeOK`; `DependenciesHonoured`: no node is listed, added or run before each of its conditions was met; `CancelDrains`: after a cancel lists only shrink |
| `dag_healthy` | 3 nodes, `onSuccess`, `onFailure`, `always`, no queue faults, fair; 226,000 states | `RunningHasJob`, `NoStrandedWorkflow`, `WorkflowSettles` |
| `dag_cancel` | no faults | finding: a call in flight goes on enqueuing after a cancel |
| `oracle_races` | 2 calls, 2 monitors, 2 transactions, retry limit 2, no faults; 1,460,000 states | `ConfirmedIsTrue`, `SubmittedIsWatched` under stale saves |
| `oracle_faults` | 1 call, 2 monitors, 2 transactions, lost answers, failed receipts, failed saves, crashes, fair; 188,000 states | `SerialUseIsExact`, `SubmittedIsResolved` |
| `oracle_once` | 2 calls, no faults, no retries | finding: one payload broadcast twice |
| `nonce_races` | 3 calls, all operations, administrator writes 0 or 1, nonces up to 2; 756,000 states | `NoncesNeverReused`, `CacheIsCurrent`; `ImplementsCounter`: the service implements `NonceCounter` |
| `nonce_validation` | 2 calls, increments and reads, nonces up to 3 | finding: a consumed nonce is answered from the cache |
| `indexer_sharing` | 2 instances, 2 jobs, 1 or 2 ranges of 2 blocks, thirteen scenarios over all events; 2,330,000 states | `CompletedIsIndexed`, `ProgressIsReached`, `OneHandPerRange`, `NoWholeRangeAbandoned` |
| `indexer_catch_up` | 2 instances, 2 ranges, all blocks confirmed, locks may expire, fair; 184,000 states | `CatchUpCompletes` |
| `indexer_tail` | 1 range cut in its middle by the safe head | finding: the range is never indexed to its end |
| `services` | the thirteen services of section 2, one per behaviour; 574,000 states | see the next table |

The properties of `services`, each about one subject:

| Property | Subject | Says |
|---|---|---|
| `TypesOK` | all | every variable has its type |
| `AnswersAreTrue`, `ValidatorEnds` | validator | accepted graphs are exactly the acyclic, well-formed ones, reported cycles exist, the order respects the dependencies; and both loops end |
| `PauseIsExact` | jobs | a job whose control calls did not overlap is marked as paused exactly when it is parked |
| `OutcomesAgree` | jobs | Bull's result, the events and the dead letters of a job agree |
| `JobsEnd` | jobs | with fair workers a job settles again and again, unless the queue is halted |
| `ProgressIsTrue` | batch | counters are those of the items; the final status is the one the answers deserve, or that of a cancel that came last |
| `OrderIsKept` | batch | order and concurrency of each strategy |
| `ClaimsAreExclusive` | submission | a payload is in one batch; a mark has an owner; except what a retry released |
| `TimelockHolds` | governance | nothing ready or executed before its time, no terminal status twice, one pending proposal per key |
| `PaidOnce` | rewards | a reward is paid once and its row agrees, except where the code cannot know or overlooks it |
| `CountersAreBounded`, `Recovers` | routing | counters of requests, executions and health checks never outgrow what they count; a sound provider is a candidate again |
| `PrimaryIsTrue` | wallets | one primary wallet, whose address the user has; a way to sign in remains |
| `TokensAreEarned` | recovery | one token per challenge, after at most three looks at the code |
| `EntriesAreFresh` | cache | nothing stored in time survives an invalidation; an entry has its version record |
| `EventEndsOnce` | scheduling | an event ends once, rewards each participant once, and leaves nobody behind |
| `NoEventVanishes` | ingestion | each block's event is stored, queued, a dead letter, or about to be fetched |
| `AllowanceHolds` | limits | no interval gets more requests than the policy promises |

Where a property has exceptions ("unless two requests overlapped", "unless the
ending broke off") they are history variables named in the module (`clash`,
`raced`, `cut`, `robbed`, `disturbed`, `unsure`, `retried`, `past`), set by exactly the steps that
cause the harm; the comment on the property says what then happens in the code.
So each of them is also a statement about which overlaps hurt and that no other
ones do.

Symmetry (calls, monitors, transactions, instances) is used in the runs of
safety properties and in no run with a liveness property. `CHECK_DEADLOCK FALSE`
is set everywhere because every one of these systems comes to rest: a workflow
settles, a payload is confirmed, the chain is indexed.

### Why the bounds are enough to be interesting

* Three nodes give a chain, a fork, a join, a skip that closes over a second
  node, and two nodes of one list, which is what the races of two handlers
  need. Two calls in flight are enough for one to be suspended in its list
  while another handler lists the same nodes; the theorems remove the bound.
* Four nodes give the validator cycles of every length up to four, two disjoint
  cycles, and nodes behind a cycle; lists of two entries give repetitions.
* Two transactions and two monitors give a stale monitor of a first transaction
  against a second one; a retry limit of 2 gives a payload refused after failed
  attempts. A larger number of transactions only repeats these.
* Three nonce calls give a reader overtaken by an increment while a third
  deletes or sets the row. The bound on nonces only ends behaviours.
* Two ranges of two blocks give one whole and one cut or ahead; `MaxTries`,
  `MaxRetries` and `MaxAttempts` are small so that their limits are reached.
  `MaxAcquired` is 1 in the large run: acquiring several ranges repeats the same
  steps in one cycle.

* `services`. The validator runs on every graph of up to 3 nodes with lists of
  up to 2 entries and every simple graph of 4: 6,476 inputs. One job, two
  workers and two control calls give every pair of overlapping calls against a
  worker and one that takes over from it; two attempts give a retry and its
  exhaustion. Batches have four items of two kinds and three priorities. Two
  batches, a retry and one payload; two proposals for one key; one calculation
  with two retries; one provider with two requests, an execution and the real
  thresholds 3 and 2; two wallets and two calls; one recovery session, two
  challenges and the real three attempts; one cached job with two
  invalidations; one event with two participants and two passes; two blocks on
  two forks with two failures; a window of three ticks seen for eight ticks, a
  limit of two and bursts of none, one and two (a burst up to the limit, see
  the property). In several modules a behaviour begins nothing new once its
  history excepts it from the property (`Kept`, `Begin`, `past`); this is a bound
  and named as one, and takes away only what no property looks at.

### Fairness

Only what the code and its environment do by themselves is fair, and only
weakly.

* `DagWorkflow`: Redis answers adds, workers end jobs, the event loop runs
  continuations. Nobody has to submit or cancel.
* `DagValidator`, in `services`: the loop goes on.
* `OracleSubmission`: monitors go on and broadcast transactions are mined. A
  mined transaction may revert. Faults and API calls are not fair.
* `IndexerRanges`: the coordinator's loop, the polling timers of the instances and
  the workers of the queue go on. Blocks need not be confirmed and no event need
  happen.

* `ComputeJobs`: workers take waiting jobs and finish what they took, backoffs
  end. Workers need not die and nobody has to call.
* `ProviderRouting`: the timers of the health checks and of the breaker fire, and
  requests and executions that have begun go on. Nobody has to begin one. The
  premise of `Recovers` is that the provider is sound from some moment on.
* `MCServices` states these three only while their subject is the one chosen;
  the other subjects are not fair.

`SubmittedIsResolved` ends with "or a monitor vanished": monitors live in memory
and nothing restarts them, so after a crash a submitted row stays submitted.
`NoStrandedWorkflow` and `WorkflowSettles` are stated without queue faults: with
them the code does strand workflows (a rejected add, for instance, does not
advance the workflow), and `dag_faults` checks what still holds then.
`OneHandPerRange` leaves out the ranges in `robbed`: `releaseBlockRange` and
`markRangeComplete` delete the lock without looking at its owner, and when they
do so under an instance that has taken it, another one can acquire the range as
well. The property says when this cannot happen: while locks and records last. `NoWholeRangeAbandoned` leaves out
crashes: a record in `processing` is never listed again.

## 4. Findings

Each is a disagreement between the code and a sentence of the sources or the
tests (`PROJECT.json` "findings" quotes both sides). The first four have a run
that shows them:

1. `dag_cancel`: after `cancelWorkflow`, a call in flight goes on calling
   `addComputeJob` for the rest of its list.
2. `oracle_once`: two `submitPayload` calls both pass the check of
   `transactionHash` and broadcast the payload twice.
3. `nonce_validation`: a late cache fill leaves a consumed nonce in the cache for
   its TTL; `validateNonce` then accepts it.
4. `indexer_tail`: a range shortened at the safe head is completed and released
   under a key nothing is stored at; its record stays in `processing` for ever.

Found while reading the code for a model, with no run of their own because the
code in question does nothing a run could show going wrong (it never takes
effect), or because the disagreement is between a text and one line:

5. `unlinkWallet` looks for the next primary wallet under the id it has just
   unlinked, and never finds one.
6. `completeDelegation` verifies a signature against a challenge it generates anew,
   with a new random nonce.
7. `generateBackupCodes` stores 649 characters in a column of 64.
8. A compressed cache entry is stored as base64 and decompressed as bytes: every
   one is a miss.
9. "Consecutive successes to mark healthy" are not counted: one is enough, and
   none is for a provider that was never judged.
10. Recurring events: `calculateNextOccurrence` answers only dates after now, and
    `processRecurringEvents` creates an instance only for a date that is not
    after now, so (but for the milliseconds between the two readings of the
    clock) none is created.
11. A reorganisation whose range cannot be written leaves the deleted events
    deleted.
12. The unique index over events ends in a column that is null for events
    without topics.
13. `orchestrate` counts a request as ended before it has begun to wait.
14. The sliding window keeps one entry per millisecond, whatever came in it.
15. `requested=0`, "without consume", consumes a token.

## 5. Proofs

All theorems hold for every value of the constants that satisfies the named
assumptions of the module: `DagAssumption`, `SubmissionAssumption`,
`NonceAssumption`, `IndexerAssumption`, and for the services of one run
`ServicesAssumption` (limits, thresholds and windows are numbers, positive where
the code needs it, and a policy has one of the four algorithms),
`PriorityAssumption` (priorities are integers), `RequestsAssumption` (as many
requests as there are, but finitely many) and `ValidatorAssumption` (the keys of
the Map are distinct and each has a list). `RunningNodesHaveJobs` and
`NoWorkflowStranded` assume `Faults = {}` besides. TLC evaluates the assumptions
on every run.

A theorem about a service of `MCServices` is about `MCSpec`: the invariant is
shown for the behaviours of its subject, and the other behaviours do not touch
the property. Where the invariant has a name of its own it is written down, under
"Why ...", at the end of the service's module, and TLC was given it before the
proof.

### Workflows, nonces, submissions, ranges

| Theorem | Statement | Inductive argument |
|---|---|---|
| `DagWorkflowProofs!TypeCorrect` | `[]TypeOK` | with `AtNode`: a call in the middle of an add has a node |
| `ConditionsRespected` | `[]DependenciesHonoured` | `CommitInv` adds that the statuses of now are in the history (`Witnessed`) and that nothing is committed before submission (`Fresh`). A node enters a list only when its parents' statuses *now* meet the conditions; the history only grows, so a stale list stays justified |
| `CancelStopsScheduling` | `CancelDrains` | `CancelInv`: after a cancel no node is pending, and no step makes one pending again, so a list made later is empty |
| `RunningNodesHaveJobs`, `NoWorkflowStranded` | `[]RunningHasJob`, `[]NoStrandedWorkflow` | `HealthInv`: a queued node has a call that is adding it, a running one a job, a pending one a reason (a parent not yet done, or a list it is in), and a running workflow whose nodes are all done a call that will finalize it |
| `OracleSubmissionProofs!TypeCorrect` | `[]TypeOK` | the attempts of a call and of the row grow only below the limit |
| `ConfirmationsAreTrue` | `[]ConfirmedIsTrue` | `EntitiesInFlight`: neither the row nor an entity held by a call or a monitor shows a confirmation the chain does not have |
| `SubmittedPayloadsAreWatched` | `[]SubmittedIsWatched` | the same invariant: only a call about to save a broadcast may write `submitted`, and the same step starts the monitor; a late `signPayload` loads unsigned rows and cannot bring a submitted row back |
| `SerialSubmissionIsExact` | `[]SerialUseIsExact` | `SerialInv`, as long as no call overlapped, retried or met a fault: one call at a time (`Alone`); before the broadcast nobody watches and what a call may save is no outcome; between the broadcast and its save only the call's entity tells of it; afterwards the row and every monitor's entity do; and there is one transaction |
| `NonceManagementProofs!TypeCorrect` | `[]TypeOK` | directly |
| `NoncesAreUnique` | `[]NoncesNeverReused` | `AbsentIsZero` (a row that is missing stands for the nonce 0) and `LockProtects` (what the holder of the lock read is what is in the row) |
| `CounterIsImplemented` | `ImplementsCounter`: every step of `NonceManagement` is a `Take`, a `Set` or a stutter of `NonceCounter` | the same two invariants: a commit writes the successor of the nonce the counter has, first inserts included |
| `CacheStalenessHasACause` | `[]CacheIsCurrent` | `ReadersAreCurrent`: a reader not marked overtaken holds the nonce of the row |
| `IndexerRangesProofs!CompletedRangesAreIndexed`, `ProgressIsIndexed` | `[]CompletedIsIndexed`, `[]ProgressIsReached` | `CyclesOk` and `JobsOk`: a cycle never writes `completed`; a job past its fetch has indexed its blocks, and finds a record only if its range was whole |
| `RangesAreInOneHand` | `[]OneHandPerRange` | `HandInv`: that no second instance writes the record of a range in hand follows from the status the first one left (`Settled`), that two do not write it at once from the lock, unless one was robbed of it (`OneHand`). `LockInv`: while locks and records last, the lock of a range is kept by at most one cycle or job until that one deletes it, so nobody is robbed |
| `RangesAreTyped`, `WholeRangesAreNotAbandoned` | `[]TypeOK`, `[]NoWholeRangeAbandoned` | `WholeInv`: a job, a release and an entry of `assignedRanges` are about the key of the whole range unless the range was cut, so a release or a completion finds the record and changes its status |

### Services of one run

| Theorem | Statement | Inductive argument |
|---|---|---|
| `BatchProofs!AnswersStayTrue` | `[]AnswersAreTrue` | `ValidatorInv`: the path holds the grey nodes (`PathIsGrey`); as long as no cycle was met, the children of a black node are black and every set of black nodes has a member without a child in it (`NothingIsMissed`); `inDegree` is the number of entries not yet sorted, and a node is queued or sorted once it is zero (`DegreesAreTrue`). A search that ends without a cycle has shown the graph well formed: a smallest set that contradicts it would have a smaller one (`SinksAndSources`). A reported path is a cycle, so the graph is not. The sort cannot get stuck in a well-formed graph (`SortIsComplete`), which is why "incomplete" is never answered |
| `QueueProofs!PausesAreExact`, `OutcomesAreTold` | `[]PauseIsExact`, `[]OutcomesAgree` | `JobInv`, for a job whose calls did not overlap: one call has it, in a state that call asked for (`OneCall`); the copy of the data is marked when the job is parked (`MarkIsTrue`); the worker that runs it holds its lock (`LockIsTrue`); and, if no worker died, what was told so far is what that worker has done (`StoryIsTrue`) |
| `BatchProofs!ProgressIsTold`, `OrderIsRespected` | `[]ProgressIsTrue`, `[]OrderIsKept` | `BatchInv`: the order has each item once, sorted by priority where the strategy says so (that such a stable order exists is a lemma of its own); items not taken are pending and open ones are of the last chunk; counters are the numbers of slots; the status is what the loop and a late cancel made it |
| `ClaimsAreKept` | `[]ClaimsAreExclusive` | `ClaimInv`: with it, what a batch has still to submit are entities it validated |
| `AllowanceIsKept` | `[]AllowanceHolds` | `LimiterInv` says of each algorithm what its state has to do with the requests granted up to now: tokens left and requests granted never exceed what was there and flowed in, the level of the leaky bucket covers what was granted, the entries of the sliding window are the busy ticks, the counter of the fixed window is at least what it granted. `granted` is the total up to a tick, so no sum over ticks, and no induction, is needed |
| `LedgerProofs!TimelockIsKept` | `[]TimelockHolds` | `TimelockInv`: every row, stored or held, waits long enough, and one may say "ready" only if its time has come, which stays true (`RowsWait`); an insert is new (`InsertsAreNew`); nobody is left to save over a settled proposal (`SettledIsFinal`); and a key has one pending proposal or one request about to insert it (`KeysAreFree`) |
| `RewardsArePaidOnce` | `[]PaidOnce` | `RewardInv`: outside the excepted calculations one is in one place (a request, the queue or the work), it is somewhere exactly while its row is pending, and the payments are those the row, or the result about to be saved, tells of |
| `EventsEndOnce` | `[]EventEndsOnce` | `EventInv`, but for events two holders raced for: one pass or call holds an event, its copy is what the row says, and each participant's share is where the pass that goes through the list has got to |
| `PrimaryStaysTrue` | `[]PrimaryIsTrue` | `WalletInv`, without a clash: a call that moves the primary flag is alone with it, so is the first link; flag and address agree before and after each save; and an unlinking writes over what it read |
| `ServiceProofs!EntriesStayFresh` | `[]EntriesAreFresh` | inductive together with `TypeOK` |
| `TokensStayEarned` | `[]TokensAreEarned` | `RecoveryInv`: a challenge a request signs in with is gone from the Map and has given nothing yet; attempts are the codes looked at; a right code came first; a session not completed twice at once has one token |
| `CountersStayBounded` | `[]CountersAreBounded` | `RoutingInv`: besides the counters, a request that goes on has an attempt left and the provider it was given |
| `EventsDoNotVanish` | `[]NoEventVanishes` | `IngestionInv`: the batch at work is still queued, single jobs hold one event, and an event the batch has dealt with is held by something else than the batch |

Notes for readers of the proofs. The proof modules introduce names for the
pieces of an action (what a step does to one call, one job) so that a lemma can
be stated about the piece and used for every action that contains it. In
`IndexerRangesProofs`, `TypeInv` is the part of `TypeOK` most of the proof needs;
it omits `assigned`, which `WholeInv` types.

An earlier form of `OneHandPerRange`, which held for the two instances the runs
have, turned out to be false for three when its proof failed: a stale instance
locks a range and passes the check of its record, the job that finishes the range
deletes that lock, a third stale instance locks it too, and both write the record.
Hence `robbed`, and the theorem that says when nobody is.

Model-checked only: the liveness properties (`WorkflowSettles`,
`SubmittedIsResolved`, `CatchUpCompletes`, `ValidatorEnds`, `JobsEnd`, `Recovers`), which
TLAPS does not reach under fairness, and `TypesOK` as one statement about all
services: the types of each service are part of its inductive invariant, but
these are spread over four modules.

## 6. Abstractions

* One workflow, one payload, one address: the code shares nothing between two of
  them that the properties speak of, except job ids, whose collision within a
  workflow is modelled (`Kind`, "collide").
* Time is a flag or an event that may happen at any moment (expiry of a payload,
  a cache entry, a lock, a record). The TTL of a range lock outlives one
  `tryAcquireRange`, a few Redis calls.
* Signatures, hashes, gas and prices are left out. The chain decides freely
  whether a transaction succeeds, and two transactions of a payload are
  independent.
* A save overwrites every column, as TypeORM does with the columns these services
  change; two saves are never merged.
* One process holds the nonce cache; another process has its own and sees the
  same row, so it behaves like a reader whose cache is never invalidated. The
  finding on the cache already shows in one.
* An indexer instance runs one polling cycle at a time and shuts down between two
  cycles. The timer does not enforce this: a cycle longer than
  `INDEXER_POLL_INTERVAL_MS` (10 seconds) overlaps the next one. Two overlapping
  cycles take ranges and locks like the cycles of two instances, which the runs
  have; what the runs do not have is that they share `assignedRanges`.
* The queue gives a job to its processor at any time after it was added.
* Left out of `IndexerRanges`: `reprocessRange` and `resetFailedRanges` (nothing
  calls the latter), the preferred range of `acquireBlockRange` (nothing passes
  one). Reorganisations are in `EventIngestion`, where the sharing of ranges is
  one step each.
* Left out of `OracleSubmission`: the batch loops, queries and statistics.
* In `EventIngestion` a block holds one event, of one transaction, that a fork
  moves to another block of the same number.
* In `RateLimiter` all processes read one clock and a request reaches Redis in the
  tick in which it read it; the policy of a key does not change.
* Selection among healthy providers, the conflict rules between events and the
  results of reward rules are any choice the code could make.
* Logging, metrics and provenance records.

### Not modelled

* Indexer shards: instances register and beat, but nothing on the path of a
  block asks who owns a shard.
* Websocket gateways, plugins, simulator: state of one connection or one
  process; nothing else depends on it.
* Referral and waitlist. The referral service is written against columns and a
  status its entity does not have, so it has no behaviour to model; nothing
  creates waitlist entries, and their scoring is floating point learning.
* Portfolio, risk, price prediction, recommendation, quota bonuses, load
  scaling, consensus among provider answers: arithmetic over floating point
  scores.
* DeFi, cross-chain, social trading, NFT platform: placeholders and CRUD.
* Users, agents, audit, compliance, administration, notification, observability:
  queries, records and outgoing messages.
* Recurring events, backup codes and completed delegations, which the code
  cannot reach (findings 6, 7 and 10).

## 7. Plan

Every safety invariant and action property the runs check is proved, but for
`TypesOK`, whose parts are. What is left:

1. `TypesOK` as one theorem, in a module that extends `BatchProofs`, `QueueProofs`,
   `LedgerProofs` and `ServiceProofs` and combines what they show of their subjects.
2. More of the code: `IndexerRanges` without the restriction to one polling cycle
   per instance, shards once something asks who owns one, the quota guard above the
   limiter.
3. Liveness stays with TLC. The safety halves of these properties, such as
   `NoStrandedWorkflow` for `WorkflowSettles` and `SubmittedIsWatched` for
   `SubmittedIsResolved`, are proved.

Runs are kept few: where two runs ask questions of the same instance they are
merged, as `indexer_sharing` does with its scenarios and `services` with its
subjects.
