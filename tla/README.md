# MerchRoute review centre: a verification project

TLA+ models of the parts of the MerchRoute server that must not lose, repeat or
misreport work: the durable queue of review operations, the deliveries those
operations make, the download jobs with the n8n scripts that make them
repeatable, the automatic publishing of one SKU by several stores, and the writes
of cards and imports to the marketplaces. The modules are written from the source
under `src/` (paths below are relative to `src/apps/server/src/`). TLC checks them on small
instances; TLAPS proves their safety properties for every instance, but for the two of
`DownloadIdempotency` that need assumptions about timing.

- [The system](#the-system): inventory of components, state, operations, hard behaviours
- [Modules](#modules): which module models which code, and how
- [Runs](#runs): what TLC checks, on which bounds, and what it shows
- [Fairness](#fairness)
- [Proofs](#proofs)
- [Findings](#findings): where the code does not do what its documents say
- [What is not modelled](#what-is-not-modelled)
- [Plan](#plan)

## The system

MerchRoute is a workflow server for product media. Images and videos of a
product variant arrive in stage folders (E000 … E007), a reviewer selects what
to keep and approves a *task*, and the approved media are delivered: as package
directories into the watched queues of other stages, or, for the final media of
a SKU, into the directories that the marketplaces (WB, OZON) are served from.
One Node process does all of it, with n8n workflows as its hands: they download
media, and they advance the publications on the marketplaces. Its state is one
JSON file (`db.json`, read and written as a whole), the stage folders and queues on
disk, and PostgreSQL for purchases, downloads, publishing and source-media cleanup.

| Component | State | Operations | Talks to |
|---|---|---|---|
| Review operation queue, `services/review-operations.ts` | rows of `reviewOperations`; in memory the `running` map, `queue`/`chains` of waiting runs, the timer | `lookup`, `accept`, `retry`, `kick`, `run`, recovery in `start`, `stop` | store (every change), executors of `app.ts` (callback) |
| State store, `repositories/store.ts` | `db.json`, its copy in memory, `saveChain`, `writeFailure` | `updateSections` (serial read-modify-write), `assertWritable`, subject locks, row versions | every component above the disk |
| Review routes, `app.ts` | none of their own | drafts, pending rows, reopen, approve, batch, retry, settings cleanup | queue, store, the two deliveries |
| Submission delivery, `services/submissions/index.ts` | rows `pendingSubmissions`, `deliveryCheckpoints`, `submissionHistory`; `locks` and per-target / per-archive tails in memory; `.staging`, target queues, archive | `submit`, `submitOne`, `reconcile`, `packageAndSubmit`, `finishArchive`, `failProgress` | store, file system, the consumer (n8n) that takes packages |
| Shared media delivery, `services/variant-delivery/index.ts`, loop in `app.ts` | checkpoints, history, `variant-media-manifest.json`, `.staging`, archive | `deliver`, `updateManifest`, `approveTask`, `retrySubmission` | store, SKU locks, outbox |
| Delivery outbox, `services/delivery-outbox.ts` | rows `deliveryOutbox` | `tick` | store, a notification service |
| Delivery replay, `services/delivery-replay.ts` | cursor in `db.json` | periodic scan over history | store, outbox |
| SKU locks and source-media cleanup, `services/wb-source-media/`, `services/ozon-source-media/` | promise chain per SKU, an OZON lock file, batches in PostgreSQL | `withLock`, `quarantine`, the batch state machine | shared media on disk |
| Download jobs, `services/downloads/`, `repositories/purchases.ts` | rows of `download_jobs`, `download_batches`, `download_notifications`; the worker's memory | enqueue, batch, claim, renew, complete, fail, defer, retry from a notification | n8n webhooks, file system |
| n8n download idempotency, `deployment/n8n/runtime-scripts/` | per job: owner, heartbeat, receipt, a transition lock with a tombstone, the output folder | preflight, takeover, touch, finalize | file system |
| WB stores and publication gateway, `repositories/wb-stores.ts`, `services/wb-stores/gateway.ts`, workflow WB-S001 | runtime rows with lease and version, ledger of gateway requests | claim, intent, authorise, send, classify, transition | Wildberries API |
| WB automatic publishing, `services/wb-auto-publish/`, `repositories/wb-auto-*.ts` | automation jobs, generation leases, retries of operators | scheduler, listing generation, dispatch; request, inspect, plan, grant a retry | gateway, n8n |
| OZON publishing, `services/ozon-publishing/`, `services/ozon-stores/`, `repositories/ozon*.ts`, workflows OZON-P002, -S001, -A001 | publication jobs with lease and version, ledger, lifecycle directories | claim, intent, import, read back, callback, archive, roll back | OZON API, file system |
| Media index, scanner, thumbnails | rebuildable caches | refresh | file system |
| Calculators, catalogs, presets, identity, local import, configuration | CRUD rows | pure arithmetic and CRUD | – |
| Web UI, shared types, deployment, workflows | – | – | the API |

**How they interact.** A route turns a request into a transaction of the store
that either creates an operation row, locking its tasks, or is rejected. `kick`
starts queued rows; an executor delivers, saving a checkpoint before and after
every step that cannot be undone, and the end of the run is written to the row.
Everything goes through the one `saveChain`: a mutator sees the newest data, the
file is replaced, and only then the change is published to memory. A rejected or
failed write leaves both as they were, but whoever waited for it must cope.

**What is hard.** (1) The process may die, and a write of the file may fail,
between any two steps of an executor; rows, checkpoints and directories are then
out of step, and a later run (same operation, a manual retry, or another
operation on the same row) must find out what happened. (2) Requests, retries,
edits, runs and the recovery of `start` are interleaved at every `await`; state
read before is used after. (3) What is published is taken away by somebody else
(n8n takes packages, a cleanup quarantines a SKU), so absence proves nothing.
(4) Two tasks share directories: the archive, the manifest of a SKU. (5) Clients
resend requests with the same or with a fresh idempotency key.

**What makes each modelled component correct.**

- Operation queue: one active operation per task; a key names one operation for
  ever; a live run owns its row; a success is final; a batch runs on the rows
  its client saw; first runs in the order of acceptance while writes succeed;
  everything accepted settles.
- Submission delivery: a package enters its queue at most once; the checkpoint
  neither denies nor invents a delivery; what is uncertain keeps its evidence
  and its lock; success means that every item is delivered and archived; archives
  are shared only by equal media; runs end.
- Download jobs: one outcome per job, by its holder; every failure is told; a batch
  is reported once with right numbers; no job waits for ever.
- Download idempotency: a job changes hands only from a silent owner, its receipt
  is final, success is told of a complete folder only and beside no failure but that
  of an execution whose job was taken over, every job gets a receipt.
- Store publishing: a store publishes what was made for its preset, with media, and
  once; a worker that dies on the shared draft delays the other stores, never
  stops them.
- Card creation: attempts one after the other, none received twice, a second card only
  where one refusal was granted to two retries, retries end.
- OZON import: imported once, what succeeded stays archived unless a run was already
  moving it back, what is confirmed ends.
- Shared media: media are registered at most once; manifests do not lose other
  tasks' entries; checkpoint, history and outbox agree; success means all
  platforms and one archive; what is delivered is announced; no lock is lost.

`PROJECT.json` lists the hazards at their lines with the property that covers each.

## Modules

| Module | Models | Depends on |
|---|---|---|
| `ReviewOperations` | operation queue on the state store | – |
| `TaskLocks` | abstract: a holder takes all of its tasks at once, or none | – |
| `ReviewOperations_proofs` | TLAPS: types, the inductive invariant, mutual exclusion; keys, final success, refinement; order of first runs | `ReviewOperations` |
| `QueueDelivery` | submission delivery of one task to its target queues | – |
| `DeliveryPromise` | abstract: what is promised about each delivery | – |
| `QueueDelivery_proofs` | TLAPS: published once, evidence, archive, success, refinement of `DeliveryPromise` | `QueueDelivery` |
| `SharedMediaDelivery` | shared media of one SKU on both platforms, archive, outbox, quarantine | – |
| `SharedMediaDelivery_proofs` | TLAPS: registered once, records agree, success, manifest kept | `SharedMediaDelivery` |
| `DownloadJobs` | the queue of download jobs and its workers | – |
| `DownloadJobs_proofs` | TLAPS: outcomes come from holders, every outcome is told | `DownloadJobs` |
| `DownloadIdempotency` | the files by which one download job can be asked for again | – |
| `DownloadIdempotency_proofs` | TLAPS: success means a complete folder, downloaded once | `DownloadIdempotency` |
| `StorePublishing` | automatic publishing of one SKU by several stores, from a shared draft to the task in n8n | – |
| `StorePublishing_proofs` | TLAPS: versions fit their store, one task per run | `StorePublishing` |
| `CardCreation` | how a publication task writes its card to Wildberries, with operator retries | – |
| `CardCreation_proofs` | TLAPS: attempts in order and once; a second card needs two grants | `CardCreation` |
| `OzonImport` | how a publication is imported into OZON and archived | – |
| `OzonImport_proofs` | TLAPS: imported once, success stays archived | `OzonImport` |
| `MC…` | constants of the instances for TLC | the module they name |

### ReviewOperations

`status`, `request`, `keys`, `input`, `attempt` are the columns of an operation
row; an operation is its number in the order of `createdAt`. `chain` is
`saveChain`: client actions (`RequestOperation`, `RequestRetry`, `RequestEdit`,
`RequestEvent`) and the steps of a run (`Kick`, `Work`, `Approve`, `Finish`) only
append a transaction, and `running` says what each run is waiting for. The head
of the chain is then committed (`CommitAccept`, `CommitAlias`, `CommitReplay`,
`CommitRetry`, `CommitBegin`, `CommitEdit`, `CommitApprove`, `CommitFinish`,
`CommitRecover`, `CommitEvent`: the mutators), rejected (`Reject`: the mutator
throws), or cannot be written (`WriteFails`), with `AfterLoss` for how each
waiter continues. `Start`, `Stop`, `Stopped` and `Crash` are the process.

Abstractions. A row of `reviews` or `pendingSubmissions` is (live, generation,
version). An executor writes rows of its own tasks and ends in any way it can;
the real executors are the other modules. A reopen is allowed in any review
state. Status writes to pending rows do not change versions and do nothing here.
`attempt` is counted up to `RetryLimit + 1`, beyond which the code tells nothing
apart. A RETRY_WAIT row is due "at some time". Starting the queue is only
modelled where the background workers it waits for are ready. The file write is
atomic (`write-file-atomic`): a failed one leaves the disk unchanged. An edit
that is lost or rejected returns an executor to work, where it may also fail.

### QueueDelivery

One task, so by `MutualExclusion` at most one operation is active; `live` is the
operation with a run. Per item: `row` (pending row, or the item frozen with a
direct approval), `ckpt`, `hist`, and `exec`, the place of its `submitOne`. On
disk: `targetTemp`, `archiveTemp` (`.staging`), `target` (what lies in a queue
under which name), `archive`. `published` counts entries into a queue and is
the only history variable. Actions follow the code from `Admit` (tails and
`locks`) over `Reconcile`, `Package`, `Prepare`, `Clear`, `Build`, `Verify`,
`Intend`, `Rename`, `Receipt`, `Archive`, `Record` to `Catch`, `Fail`, `End`;
each save may be lost, each file operation may fail, and `Crash`, `Take` (the
consumer), `SweepStaging` (settings) and `OtherWrite` come in between.

Abstractions. A store transaction is one step, as `ReviewOperations` justifies.
An approval in a queued stage is one atomic edit. A directory name is its
revision number; a rename onto an occupied name fails, as a transient error
(EPERM on Windows) or a permanent one. Items of one target run in any order.
The age limit of `SweepStaging` is ignored: it may come at any time.

### SharedMediaDelivery

One SKU. An element of `Approval` is an operation approving a task of its own
(images or videos of a variant), an element of `Delivery` is one platform's
submission and stands also for its RETRY operation. `run[a]` is the memory of
the run on task `a`: which delivery it is at, the checkpoint object it holds
(`mem`, which is ahead of the store when a save is lost), the results so far.
`lock[p]` is the lock of the SKU on a platform, held by a run or by the cleanup.
`deliver` is `Deliver`, `Lock`, `Clear`, `Build`, `Verify`, `Inspect`, `Intend`,
`Rename`, `Read`, `Write`, `Archive`, `Save`, `Catch`; the callers are `Skip`,
`Conclude` (`approveTask`), `Note` (`retrySubmission`) and `End` (`run`).
`CleanLook`/`CleanMove` are the two halves of `quarantine`, `Announce`/`Sent`
those of the outbox `tick`. `registered` and `announced` are history variables.

Abstractions. Contents of assets and the identity of variants are left out. The
platforms of an approval are visited in any order. Whether a transient error
has retries left is a free choice of RETRY_WAIT or FAILED. There is one RETRY
operation per delivery, requeued afterwards. A stale OZON lock file is a fault
of `Break`. Staging cleanup by the settings clears only what a rebuild clears
first, and is left out. `RemoveLeftover` is an operator who empties
`.staging/<id>` by hand: without it no cleanup would ever be possible, see the
findings.

### DownloadJobs

`status`, `sku`, `inBatch`, `thread`, `token`, `left`, `waits`, `due` … are columns of
`download_jobs` (times are ticks that are left or have passed), `note` and `batch` the
rows of notifications and batches, `mem` what `processNext` of a worker knows. A
statement or transaction is one action (`Enqueue`, `EnqueueBatch`, `RetryFrom`,
`Resolve`; `Recover`, `Claim`, `GiveUp` are the branches of `claimNextJob`; `Renew`,
`Report`, `Fail`), and each of a worker may take place without the worker learning
it (`DbFails`). `Answered` and `Unanswered` are `invokeUntilTerminal`. `holder` and
`by` are history variables.

Abstractions. The answer of a webhook is success, failure or "browser in use". A
heartbeat is much shorter than a lease, so the lease of a live worker lapses only
as a counted fault. `SKIP LOCKED` makes the order of jobs a choice.

The code shows two things no property claims: the deadline of a job counts from
its *first* start, so one that waited long for the browser has a second left when
it is asked for again (`services/downloads/index.ts:156`); and if recording a
success fails once, the job is recorded as failed although its media are there.

### DownloadIdempotency

`owner`, `beat`, `receipt`, `lock`, `art` are what is on disk: `owner.json`, the age
class of `heartbeat.json`, `receipt.json`, the lock directory with its token, and how
far the output folder is. `mem[e]` is the process at work for execution `e`. The
lock protocol is `Lock`, `Check`, `Steal`, `Remake`, `PutBack`, `Release`, `Unlock`,
`AssertOwner`; `Recheck`, `Finalize`, `Touch` run under it; `Launch`, `Reserve`, `Save`,
`Stitch`, `Commit`, `Failing` are downloader and stitcher.

Abstractions. A reserved folder, its media and the stitched image are five stages.
`Overlap = FALSE` says that two preflights, or two reclaimings of the lock, do not
run at the same moment, and `MaxHang = 0` that a *live* process does not hold the
transition lock for longer than 30 s. The code guarantees neither: requests come at
least two seconds apart and these steps take milliseconds, but nothing separates the
heartbeat of an owner from a preflight that reclaims the same stale lock. Both
assumptions are needed for `OwnershipRespected` and for the second part of
`AnswersAgree`: with two simultaneous reclaimers, a crash and a stalled heartbeat, TLC
finds a receipt that is replaced; with a hung holder, a late result that is recorded.
What holds of the code whatever the timing is proved instead (`SuccessMeansComplete`,
`DownloadedOnce`).

A finalize that finds the job in other hands is answered 409 with `idempotencyState`
`failed` (`download-idempotency-v1.cjs:1328`), which a worker takes as final, and the
request of the execution that took over may be told `succeeded`. `AnswersAgree`
therefore says that this is the *only* way to hear a failure beside a success; that a
purchase records the answer of its last request only is module DownloadJobs
(`ResultFromHolder`).

### StorePublishing

`job` is the row of each store's run in `wb_auto_publish_jobs`, `lease` the row of
`wb_auto_generation_leases`, `draft` the shared row of `wb_listing_drafts`, `pub` the
`wb_store_publications` a run froze, `net` the request to n8n and the task there;
`skuLock` and `root` are the advisory locks of the SKU and of the root configuration.
`work[w]` is what a worker in `processJob` knows: its lease token (`tok`), whether its
copy of the draft is of the draft's present version (`fresh`), whether the fence before
the next write has passed (`ok`), the version it will freeze (`src`), the status of its
publication as read (`st`).

`Claim` is `claimDue` with `withSkuLock`; `Begin` takes up a frozen publication,
otherwise `Turn` (the lease, and what the draft needs), `Fence`, the writes of the
draft (`Create`, `Rebuild`, `Scan`, `Assign`, `Reserve`, `Complete`, `FailGeneration`), `Look`
and `Vouch` lead to `Freeze` (`createAutomationMaterializedPublication`) and `Link`.
`Dispatch`, `Found`, `Doubt`, `Package`, `Send`, `Answer` are `dispatchStorePublication`,
`Arrive` and `Run` the runtime task, `Sync` is `synchronizeSubmittedJobs`. `Recheck` and
`Cancel` are the user's.

Abstractions. A job that does not get the SKU lock is given back, so `Claim` is one
step. The lease of 60 s on the job row is left out: a job's own transitions clear
it, and the SKU lock is what keeps a second worker away. `Exit` is the `finally` block
with what `handleJobError` writes. `Fence` includes the transition before it. A takeover
from a store that has frozen does not compare the version, which allows more
takeovers. A version is its contents (preset, media assigned or not). Manual drafts,
new media, pauses, existing cards, `COMPATIBLE_UPSERT` and retries by schedule are
left out. QUEUED stands for QUEUED and RUNNING.

The code shows three things no property claims. A task can be started in n8n before the
answer to its dispatch is recorded; both `mark…` calls are refused then, and the job
waits in NEEDS_ATTENTION, without its task id, for a recheck. `Recheck` puts the
shared draft under its own run, so a draft that was built for another preset is
generated as it is and stops at the preset check. And see the findings for `Cancel`.

### CardCreation

`job` is a row of `wb_publish_jobs` with what the card write depends on in its runtime
JSON; `execs` are runs of workflow S001, `ledger` the `CARD_UPLOAD` rows of
`wb_gateway_requests`, `wb` what became of each attempt at the marketplace, `retries`
the rows of `wb_auto_publish_retries`, `check` an inspection of the retry worker.
S001 is `Reading` (claim and read), `Ready` (*Build Step* with the persisted intent),
`Persist` with `After…` (*Handle WB Response*, saved by a compare-and-set on the row
version); the gateway is `Begin`, `Complete`; the retry worker `Inspect`, `Decide`,
`Resume`, `Watch`, `RefreshUnconsumed`.

Abstractions. A row version is modelled by what it decides: whether a copy is
`current`. The rows in RETRY_WAIT are due at once. The recycle bin, several variants
and the stages after the card are left out. Assumption: the marketplace settles a
request it was sent within the 30 minutes both guards wait (`RowOld`); the code
assumes it too, as it sends attempt 2 then. S001's and the gateway's 30 minutes
start at different moments and are two clocks. Also in the code: a 429 on a card
write waits up to 24 hours, and a crash between the ledger row and its completion
leaves the row open, so that its attempt 2 is never authorised automatically.

The code refuses a retry only while another one is active, so the module has any number of
them, one after the other. It does not promise a single card then, see the
[findings](#findings); `SecondCardNeedsTwoGrants` says that two grants for one refusal are
the only way to a second one.

### OzonImport

`job` is a row of `ozon_publish_jobs`, `runs` the n8n executions that claimed it, each
by its lease token, `ledger` the row of `ozon_gateway_requests` of the import, `ozon` the
marketplace, `disk` the lifecycle directory, `committing` a COMMIT whose answer was
lost and what its run had done to the directory; `overtaken` is a history variable.
`Claim` … `Lock` are OZON-P002, `Persist` … `Answer` OZON-S001 with the gateway
(`Begin`, `Mark`, `Reply`), `Look`, `Conclude` the readings of either, `Enter`, `Move`,
`Commit`, `Readback`, `Rollback` the steps of `recordRuntimeUpdate` for a success.

Abstractions. Only jobs of the multi-store path. The claim from the inbox, media,
price and stock writes, image repair, the recovery hold, the operator's retry,
cancellation and error markers are left out, and rows are due at once. Nothing
renews the lease of 600 s, so it lapses under a living run as a fault, also between
the rename and the update, and the next run starts beside it.

`rollbackPlatformStatusArchive` moves the directory back without looking at the row
again. A later run may meanwhile have found the directory archived and succeeded, and then
the row says `success` and the directory does not. `overtaken` marks a success that comes
when the run that renamed the directory has decided to move it back, or has done so, and
`SuccessIsArchived` excepts just these; without the exception TLC finds the case, see the
[findings](#findings). Every other race of rename, COMMIT, readback and rollback is
claimed to end in agreement, with any number of runs in their archives at once.

## Runs

The two delivery modules and `ReviewOperations` are checked for deadlock, but an
unrelated write of the state file is possible nearly always, so what guards
progress are the liveness properties. The other five modules stop for good
when all jobs are over, and their runs say `CHECK_DEADLOCK FALSE`.

| Run | Configuration | What it shows |
|---|---|---|
| `operations` | 2 tasks, 2 keys, an approval of task 1, a batch on both, a retry on task 2, 2 operations, chain of 2, 1 edit, 1 crash, 1 lost write | `TypeOK`, `OneOperationPerTask`, `KeyNamesOneOperation`, `RunOwnsItsRow`, `SucceededIsFinal`; `FirstRunsAsAccepted`: a batch first runs on the rows it was asked for, whatever edit comes before its turn in `saveChain`, before its run or in it, and first runs are in the order of acceptance until a write fails; and `ImplementsTaskLocks`: module `TaskLocks` is implemented, `held` being the tasks of an active operation |
| `operation_liveness` | as `operations`, chain of 1, no lost write | `AcceptedSettles` under `FairSpec` |
| `queue_delivery` | 2 rows of one target that compete for one name, 2 operations, 2 edits, 1 fault, 1 crash, 1 lost write, 1 retry | `AtMostOncePublish`, `EvidenceSound`, `SucceededMeansDelivered` of batches in which one row fails or is skipped and the other succeeds |
| `delivery_promise` | direct approval of 2 rows to 2 targets that share archives, 1 fault, 1 crash, 1 lost write | `ArchiveAgrees`: targets share a directory of the archive only with equal media, and whoever reports success is in it; `ImplementsPromise`: deliveries and their reports implement `DeliveryPromise`; `RunsEnd` under `FairSpec` |
| `shared_media` | 1 approval for WB and OZON and its two retries, 1 fault, 1 crash, 1 lost write | `RegisteredOnce`, `RecordsAgree`, `SucceededMeansDelivered` |
| `shared_manifest` | 2 tasks delivering to WB at the same time, 1 crash | `ManifestKeepsOthers`; `DeliveriesSettle` under `FairSpec`: runs end and what is to be announced is announced |
| `download_jobs` | 2 workers, 2 SKUs (one replayable), a batch of both, 2 jobs, 1 fault | `ResultFromHolder`, `OutcomesTold`: failures are told, and a batch is reported once with right numbers; `JobsSettle` |
| `download_replay` | 3 executions, 1 crash, 1 stalled heartbeat, 1 busy browser | `AnswersAgree`: success is told of a complete folder, and beside no failure but that of a late finalize of a former owner; `OwnershipRespected`, `JobIsSettled` |
| `store_publishing` | 2 stores with one or two presets, 2 workers, 2 small upsets (a crash, a failure, a lost message, a user action) or 1 stall | `FrozenForItsStore`: a store freezes a version made for its preset, with media; `OneTaskPerRun`; `StoresSettle` |
| `wb_cards` | 2 S001 runs, 2 retries, 4 attempts, 1 fault | `SecondCardNeedsTwoGrants`, `RetrySettles` |
| `ozon_import` | 3 lease tokens, 4 faults | `ImportedOnce`, `SuccessIsArchived`, `ConfirmedImportSettles` |
| `ozon_retry` | as small as the disagreement allows | a violation, see [Findings](#findings) |

Several properties name a conjunction: `EvidenceSound` (the checkpoint neither denies
nor invents a delivery, its staging is there as long as it counts on it, and its owner
keeps the row's lock), `ArchiveAgrees`, `RecordsAgree` (checkpoint, staging, history and
outbox), `DeliveriesSettle`, `OutcomesTold`, `OwnershipRespected`, `FrozenForItsStore`,
`OneTaskPerRun`, `AnswersAgree`, `SecondCardNeedsTwoGrants`, `FirstRunsAsAccepted`. The
conjuncts are stated and explained one by one in the modules.

**Bounds and why they are enough.** Every bound is a constant with its meaning
in the module. The interesting cases of each property need few actors:

- Mutual exclusion and keys: two operations and overlapping, unequal task sets
  (the batch covers the approval's task and another one). The chain of 2 lets a
  second acceptance or a retry wait behind another transaction: an edit that goes
  first makes the versions of a waiting batch stale, and its re-check at the head of the
  chain decides. The proofs below are for every number of tasks, operations and transactions.
- A crash and a lost write each: every recovery starts from a state a crash or a
  lost write left; the pair of them in one history is in the instance, and with
  the retries two consecutive failures of one step are too. One lost write is one more
  than the automatic recovery of `StateStore` needs to clear `writeFailure`, so both states occur.
- `queue_delivery`: two rows of one target are the smallest batch of which one row may
  fail, or be skipped because its name is taken, and the other succeed; the fault decides
  which. With one row, two faults and two lost writes fit, because the catch paths
  themselves write; that instance was explored too.
- Two operations per delivery: the second adopts the checkpoint of the first,
  which is where owner and live operation differ. Larger instances of
  `QueueDelivery` (3.3 and 4.3 million states) were explored while the bounds were chosen and showed nothing else.
- `RetryLimit` is 3 in the code. 1 (or 0) separates "retries left" from "none
  left", the only distinction made.
- `QueueLimit` is 3 units where the code has 200, so that two batches do not fit.
- `MaxRevision`, 9999 in the code, is 1 or 2: with 1 a second package finds
  every name taken and is skipped, with 2 it gets a revision.
- `shared_manifest` leaves out faults and lost writes, because they do not
  enlarge what can be read and written between two tasks: a run that fails
  between `Read` and `Write` only releases the lock, as the crash does.
- `download_jobs`: one fault of any kind puts a former holder beside its
  successor; two jobs are a retry thread or a batch; all ticks are 1, which
  separates "in time" from "too late".
- `download_replay`: an owner, one that takes over and one that asks meanwhile;
  an execution no file refers to any more is reused as a new one, so the number
  of requests is not bounded.
- `store_publishing`: two stores are an owner of the lease and one who waits for it;
  the second worker is needed after a stall only, which costs the whole budget, and
  then two act on the draft at once. What goes on without bound in the code (taking
  turns, asking n8n again) does so by the states of the jobs and is not cut off.
- `wb_cards`: attempt 1, the automatic attempt 2 and one granted to each of two retries,
  which are one after the other; two runs, so that a slow one meets its successor. One
  fault is enough for the two cards of the findings; two faults (3.5 million states up to
  symmetry) were explored and add no other way to them.
- `ozon_import`: tokens are reused once the ledger has forgotten them; three runs
  at a time, and a lapsed lease, a lost answer and a lost COMMIT in one history.

**Not an invariant where it is tempting.** The order of first runs and `AcceptedSettles`
are claimed only while writes succeed: a lost `begin` lets a later operation
overtake, and a lost `finish` leaves a RUNNING row without a run until somebody
uses "retry" or the process restarts, which the documents describe. That a batch first runs on the
rows its client saw is claimed whatever fails. In
`SharedMediaDelivery`, the kept evidence is claimed for OZON only: WB stages outside
of the lock, so a cleanup between its look and its rename can take a verified
staging away, and the delivery then stays in NEEDS_ATTENTION. (It needs an empty
`.staging`, so the operator's clearing, first.)

## Fairness

- `ReviewOperations`: weak fairness of `Commit \/ Reject` (the chain is drained by
  promise callbacks), of `Finish` (an executor returns; `RunsEnd` of
  `QueueDelivery` and `DeliveriesSettle` of `SharedMediaDelivery` are the justification,
  as far as it is modelled), of `Start` and
  `Stopped` (the service manager restarts the process). Strong fairness of `Kick`:
  an older operation that a user retries again and again may take the turn of a
  waiting one, but `kick` runs at every end of a run and by its timer before the
  next request can have been queued. Nothing is assumed of clients, of crashes,
  of lost writes or of `Stop`.
- `QueueDelivery`: weak fairness of every step of a running executor: an awaited
  file or store operation returns, with or without an error.
- `SharedMediaDelivery`: the same, strong fairness of `Lock` for each task (the
  lock is a promise chain, so it is handed on in the order of arrival), weak
  fairness of the second half of a quarantine and of the outbox timer.
- `DownloadJobs`: weak fairness of time, of a worker's work (its timers fire again
  and again, its requests time out) and of its restart. None of requests or faults.
- `DownloadIdempotency`: weak fairness of each process, of repeated requests (the
  worker asks until it has a final answer) and of ageing: what nobody refreshes
  becomes stale.
- `StorePublishing`: weak fairness of each worker's steps (database and HTTP calls end),
  strong fairness of `Claim` for each store: `claimDue` orders by `next_attempt_at`, which
  a job that is refused the lock keeps and one that has run moves on; weak fairness
  of n8n and of the synchronisation of a store, and of the lapse of a lease nobody
  renews. Nothing of users or faults.
- `CardCreation`: S001 is scheduled again and again, a process that is alive goes on,
  the gateway's calls end (timeouts), the marketplace settles requests, leases
  lapse, the clocks run. Nothing of operators or faults.
- `OzonImport`: P002 scans every 30 seconds, an execution goes on, a lease runs out, a
  transaction ends, OZON decides on an import. Nothing of faults.

## Proofs

`ReviewOperations_proofs` proves, for all sets of tasks, rows, keys and requests,
all kinds, limits and bounds that satisfy `ConstantsAssumption`:

- `TypeCorrect`: `Spec => []TypeOK`.
- `MutualExclusion`: `Spec => []OneOperationPerTask`.
- `RunsOwnTheirRows`: `Spec => [](RunOwnsItsRow /\ ChainDiscipline)`.

`OneOperationPerTask` is not inductive: `begin` and `finish` set the status of a
row without looking at the locks of other rows. They may, because the row was
active all the while, which is `RunOwnsItsRow`; and that holds because between a
run's transactions nothing else for its row is in `saveChain`: no recovery, no
retry behind its `begin`, no second `begin` (`ChainDiscipline`). So the inductive
invariant is

    IndInv == TypeOK /\ OneOperationPerTask /\ RunOwnsItsRow /\ ChainDiscipline

and its proof has one step for each group of actions (clients, scheduler and
runs, committed transactions, lost ones, the process), with lemmas on what
appending to and taking from a chain does (`ChainAppend`, `ChainTail`,
`TailDiscipline`) and on steps that lock nothing new (`NoNewLocks`). TLC checks
the conjuncts it can disturb as invariants of `operations`. The proofs rest on the
assumption on the constants and on the theorems of the library about sequences.

The module then sums up, from `IndInv`, how a step may change the rows (`RowStep`):
accept, alias, requeue, progress of the run that owns the row, or recovery. From that
one lemma follow

- `KeysAreUnique`: `Spec => []KeyNamesOneOperation`, strengthened by "a row that is not
  there has no keys" (`AbsentHaveNoKeys`);
- `SuccessIsFinal`: `Spec => SucceededIsFinal`, an action property: a retry queued
  before the success finds a status it does not touch, and no run is alive;
- `QueueImplementsTaskLocks`: `Spec => ImplementsTaskLocks`, the refinement of
  `TaskLocks`: initial states map to its initial state, each kind of `RowStep` to
  `Acquire`, `Release` or a stutter (`LockStep`).

Last, `FirstRunsAreAccepted` proves `FirstRunsAsAccepted`: `BatchRunsOnSeenRows` always, and
`StartsInOrder` until a write of `db.json` fails (`writeFails = 0`), as a failed write of `begin`
sends its run back to the queue while a later one may already begin. Neither order nor rows
show in the rows alone. `StartInv`
says that a row that never ran is QUEUED, and that `begin` transactions stand in `saveChain`
behind those of all older operations that have not run: the order is decided when `kick` queues
them. `BatchInv` says what the transactions in the chain may write: an accept of a
batch saw rows that existed, and an approval, which looks at no locks of single rows, saves
rows of its own tasks; any other edit is refused by the lock the batch holds on the tasks of its
rows (`app.ts:1113` makes them its subjects: the assumption on `DocsOf`).

`QueueDelivery_proofs` proves for any items, targets, groups, operations and bounds:

- `TypeCorrect`, `PublishedOnce` (`AtMostOncePublish`), `EvidenceHolds`
  (`EvidenceSound`) and `ArchiveHolds` (`ArchiveAgrees`);
- `SuccessIsDelivered`: `Spec => SucceededMeansDelivered`, an action property;
- `PromiseIsKept`: `Spec => ImplementsPromise`, the refinement of `DeliveryPromise`.

None of these is inductive alone: that a second rename cannot happen depends on
what the checkpoint said when this run, or an earlier one, passed `Reconcile`. The
inductive invariant has five parts:

    Inv == TypeOK /\ RunInv /\ ItemInv /\ PlaceInv /\ OwnerInv

`RunInv`: one operation is active, and only items of the live one are worked at;
`ItemInv`: for each item, what checkpoint, history and staging say of its package
(`Evidence`; above all, that a package still in staging was never published), and
what holds where its `submitOne` is (`Knows`); `PlaceInv`: what lies in a queue was
published, what is in the archive has a checkpoint; `OwnerInv`: whose checkpoint it
is. The proof sorts the steps of `submitOne` by what they do to the records of
their item (`ItemStep`, `CheckpointMoves`) and treats accepting, starting, ending and
crashing operations apart (`AcceptOps`, `BeginOps`, `EndOps`, `CrashOps`). TLC checked
`Inv` on the instances of both runs before it was proved.

`SharedMediaDelivery_proofs` proves for any approvals of a SKU, any of their deliveries
and any numbers of crashes, faults and lost writes:

- `TypeCorrect`, `MediaRegisteredOnce` (`RegisteredOnce`), `RecordsAgreeAlways`
  (`RecordsAgree`) and `SuccessIsDelivered` (`SucceededMeansDelivered`);
- `ManifestKept`: `Spec => ManifestKeepsOthers`, an action property.

The inductive invariant says of each task that its deliveries are `Sound` (rows agree
with what was registered, `Records`; staging and destination agree with it,
`Placed`; what is in doubt on OZON can be proved, `Proven`), what the run `Knows` of the
delivery it has in hand (`Remembers`: its checkpoint is never behind the store in what
counts; `Excludes`: under the lock of the SKU it has read what the manifest still says;
`Proves`), which deliveries it has still to do (`Shape`), what a retry is about to note
in the history (`Notes`) and what success means (`Succeeds`). A task has its own
deliveries, so a step of one has to spare the others: `Spares` says what of a task must not
change, and one lemma per action shows that it does not. What two tasks share is the
lock and the manifest. `Excludes` is what makes `updateManifest` atomic although it
reads and writes in two steps. `Proven` is about OZON only, because only OZON stages under
the lock; the invariant uses it where a cleanup quarantines the SKU.

`DownloadJobs_proofs` proves `TypeCorrect`, `OutcomesComeFromHolders`
(`ResultFromHolder`) and `EveryOutcomeIsTold` (`OutcomesTold`) for any workers and bounds
and finitely many SKUs. `HeldInv`: the worker whose token is in the row claimed
it last, which rests on `FreshToken` being one that nobody remembers. `RowsInv`: rows
are inserted at the end and only the last row of a SKU is active; that is why the
failure of a retry is told in the thread of the right notification. `ToldInv` relates threads,
notifications and batches to rows that exist. Each action is one of four kinds of
step (quiet, ending a job, taking one, inserting rows; `StepKinds`), and one lemma per
kind shows that it keeps the invariant.

`DownloadIdempotency_proofs` proves for any number of executions, crashes, silent owners, hung
holders and busy browsers, whatever the timing,

- `TypeCorrect`, which says of a recorded success that the folder is complete;
- `SuccessMeansComplete`: `Spec => []SuccessIsComplete`, the first part of `AnswersAgree`;
- `DownloadedOnce`: what is in the folder is only advanced, nothing is reserved or filled twice.

These hold even when two processes believe they hold the transition lock, as only the execution
that launched the download works in the folder and a success is recorded after it is complete.
What rests on the lock (`OwnershipRespected`, the second part of `AnswersAgree`) does not hold
whatever the timing, as told under the module, and is model-checked under its assumptions.

`StorePublishing_proofs` proves `TypeCorrect`, `VersionsFitTheirStore`
(`FrozenForItsStore`) and `RunsHaveOneTask` (`OneTaskPerRun`) for any finite set of
stores, any presets, workers and upsets. `DraftInv`: a draft that says it is generated
is whole, and a worker whose copy is fresh reserves it only with its media; without
the compare-and-set of the draft's version this fails for the worker that was
stalled. `TaskInv`: what rows and workers believe about a task in n8n is true, and the request
of a run is never sent before its row is linked.

`OzonImport_proofs` proves `TypeCorrect`, `ImportsOnce` (`ImportedOnce`) and
`SuccessStaysArchived` (`SuccessIsArchived`) for any lease tokens, any number of
faults and any number of runs in their archives at once. `OneRequest`: what is on its way to
OZON is the one request of the ledger, and a run that may mark it as sent holds the ledger's
token. `ArchiveInv` has three parts. `OneRename`: the directory is renamed from `processing`
only, so of all runs that archive one has renamed it, and only that one may move it back.
`RenameUndecided`: while that run's COMMIT is undecided it is not moving it back.
`SuccessIsFinal`: after a success nobody has the lease and the row names the archive, so no
readback decides for a rollback any more; one decided before is what `overtaken` records.

`CardCreation_proofs` proves for any executions, any faults and any finite set of retries

- `TypeCorrect`: `Spec => []TypeOK`;
- `CardsFollowGrants`: `Spec => []SecondCardNeedsTwoGrants`: attempts follow each other, none
  reaches the marketplace twice, and two of them can both become a card only when two
  retries were granted the same refusal.

The invariant `IInv` relates the row to its runs (a fresh copy is held under the lease, of a
live task: `RunShape`), to the retries (one is active, a plan or grant is for the row's attempt or
the next: `RetryShape`, `CheckShape`, `GrantShape`), bounds attempts by the grants used
(`Bounded`; hence `MaxAttempt >= 2 + Cardinality(Retries)`), and says what the ledger knows
of what was sent (`LedgerInv`) and that two firm rounds of proof show attempt 1 to be lost
(`ProofInv`). The ledger grows in `Begin` only, so the order rests on what `Authorized`
demands of the attempts before. `CardInv` adds, unless some refusal was granted twice, that the
attempts before the one a plan or grant is for will not become cards. `Inspect` is the step
that needs the condition: the refusal it plans from has to be the last attempt, and after
a used grant it need not be, because the checkpoint of the failure stays. That is the
[finding](#findings) about two grants. TLC checked `IInv` with two retries before it was proved.

**Assumptions.** The proofs use the named ASSUME of each module and nothing else, and no
theorem has a hypothesis besides: sets of stores, SKUs and retries are finite (`CHOOSE` of an
unused number or token, or counting, needs it), bounds are naturals, and a job may wait for the
browser at least once (`MaxWaits`, 12 in the code). TLC evaluates them in every run.

**Only model-checked.** Liveness (`AcceptedSettles`, `RunsEnd`, `DeliveriesSettle`, `JobsSettle`,
`JobIsSettled`, `StoresSettle`, `RetrySettles`, `ConfirmedImportSettles`): fairness and
ENABLED are beyond the prover. Of `DownloadIdempotency`, `OwnershipRespected` and that no success
is told beside a failure, which need `Overlap = FALSE` and `MaxHang = 0`.
And `AllowedRetrySettles`, which the run refutes.

## Findings

| Run | Kind | Where | What |
|---|---|---|---|
| `ozon_retry` | code against document | `services/ozon-stores/gateway.ts:140` | The import retry the workflows announce never reaches OZON: its request hash contains the new lease token, so the ledger takes it for another request and refuses it, again and again |

The run ends in a counterexample that TLC prints. Other divergences were met while
modelling, and no run checks them:

- A row approved anew with another selection is published with the package staged
  for the old one: `submitOne` reconciles the old COMMIT_INTENT checkpoint before the
  inputs are compared (`services/submissions/index.ts:176`, against
  `docs/REVIEW-DELIVERY-RELIABILITY.md:81`).
- If the write that marks a row PACKAGING fails, the target stays in `locks` until a
  restart, and every delivery to it is refused as "being delivered"
  (`services/submissions/index.ts:202`).
- The retry of an uncertain delivery that fails with another error counts as an
  ordinary failure; if the other platform succeeds, the task is unlocked in doubt
  (`services/variant-delivery/index.ts:249`, against the same document, line 79).
- `.staging/<submissionId>` stays behind, empty, after every delivery of shared
  media; the source-media cleanups take it for a delivery in progress and wait
  (`services/variant-delivery/index.ts:205`), and new WB batches are refused as busy.
- A stale transition lock of a download can be reclaimed under a heartbeat that has
  become fresh (against `download-idempotency-v1.cjs:521`).
- The rollback of an OZON archive does not look at the row again: a run that was refused reads
  it once, and when a later run that found the directory archived succeeds after that, its
  directory is moved back under the SUCCEEDED row (`services/ozon-publishing/index.ts:1662`,
  against the comment at lines 1605-1608, "Never compensate that unknown outcome from a
  single stale read: keep success in place"). `SuccessIsArchived` without `~overtaken` is violated
  by it, with two runs and one lapsed lease.
- A manual retry does not look at the queue limit (`services/review-operations.ts:141`).
- A package whose parameters were added to another target's archive stays
  PARTIAL_SUCCESS if the process dies before the checkpoint is written: the
  archive is then not recognised as its own (`services/submissions/index.ts:506`).
- An approval based on a draft that was deleted meanwhile is accepted, because a
  missing review counts as version 0 (`app.ts:1085`, against
  `docs/REVIEW-DELIVERY-RELIABILITY.md:43`).
- `resolveDestinationName` looks for a free name in the target queue only, so the
  archive's directory of that name may belong to another variant and the item
  ends PARTIAL_SUCCESS (`services/submissions/index.ts:576`).
- A final save that is lost after a failed archive can leave the history at
  PARTIAL_SUCCESS without an outbox entry until a retry (against
  `docs/REVIEW-DELIVERY-RELIABILITY.md:69`); and a lost final save of the retry of
  such a delivery can, after a cleanup, degrade it to doubt. That is why
  `RecordsAgree` speaks of SUCCESS only.
- One refused card write can earn two manual grants: `lastFailureCheckpoint` stays
  when a later attempt is accepted, and a retry after an unrelated failure plans from
  it again (`services/wb-auto-publish/retry.ts:40`, against its line 104 and
  `docs/wb-publish-retry-v1.md:11`). With two retries and a denied read this can end in
  two cards: while attempt 2 is being worked on, no list shows its card yet.
- A job that is NEEDS_ATTENTION or FAILED can be cancelled although its task has been
  submitted, while the refusal reads "the task has been submitted to WB and cannot be
  cancelled" (`repositories/wb-auto-publish.ts:745`); and for a store other than the
  default one the lock it takes is not the one the workers take.

## What is not modelled

- The parts of WB automatic publishing named under `StorePublishing`; the state
  machine of source-media cleanup.
- The parts of OZON publishing named under `OzonImport`, OZON's automatic publishing
  and its operator retries.
- Delivery replay: it compares history with what is on disk and keeps a cursor.
- Media index, scanner and thumbnails: rebuildable caches; deliveries read the disk.
- Calculators, catalogs, presets, product identity, local import, configuration:
  arithmetic and CRUD without concurrency.
- Web UI, shared types, deployment, the other workflows: clients, types and generated
  or third-party code. What the UI may send is the environment of the models.
- The single-writer lock (`utils/state-writer-lock.ts`) and the retry loop of
  `utils/atomic-rename.ts`: only their effects are in the models (at most one
  process; a rename is done, occupied or denied).

## Plan

1. *Done.* `ReviewOperations` on its store, with `TaskLocks` as abstraction, and the
   proofs of type correctness, mutual exclusion and ownership of rows.
2. *Done.* `QueueDelivery` with `DeliveryPromise` as abstraction.
3. *Done.* `SharedMediaDelivery` with outbox and quarantine.
4. *Done.* `DownloadJobs` and, for what a repeated request is answered,
   `DownloadIdempotency`.
5. *Done.* `CardCreation` and `OzonImport`: the writes to the marketplaces.
6. *Done.* `StorePublishing`: the generation lease and the dispatch of several stores.
   Left: source-media cleanup and the reclaiming of OZON lock files.
7. *Done.* Theorems about `QueueDelivery`, `SharedMediaDelivery`, `DownloadJobs`,
   `DownloadIdempotency`, `StorePublishing`, `OzonImport` and `CardCreation`; the order of
   first runs of `ReviewOperations`.

Compositions are by abstraction: `ReviewOperations` proves what the delivery
modules assume of operations (at most one active on a task, a live run owns its
row), and they show what it assumes of executors (they end); `DownloadJobs` repeats
only requests whose workflow is replayable, and `DownloadIdempotency` shows that
repeating them is safe; `StorePublishing` hands at most one task per run to n8n, and
`CardCreation` starts from one. A joint state space would repeat both.
