# A verification of SynapS3 in TLA+

SynapS3 is a self-hosted S3 gateway over Filecoin storage. One Go process serves
the S3 API and an admin API, keeps its metadata in PostgreSQL and the bytes of
recent objects in a local cache, and has storage providers keep the replicas. A
write is acknowledged when it is in the cache and in the database; everything
after that is done by background tasks which talk to providers and to the chain,
cost money, and may be interrupted anywhere.

This directory models the parts of the gateway whose correctness depends on the
order of events: the task engine, what the background tasks do through it, the
history of an object and its uploads and listings, the files of the local cache,
and the settings. TLC checks the models on small instances; TLAPS proves the most
important facts for every size (section 5).

Paths in this document are relative to the repository (`internal/...`).

## 1. The system and its inventory

One process per database (`docs/en/getting-started/overview.md:23`). Goroutines
of S3 requests, of the admin API and of the task engine share the database, the
cache directory and the gate in front of it. Providers and the chain are outside.

```
 S3 request --> backend --> cache file + version row --> upload plan task
                   |                                        |
                reader <---- cache gate ----> evict      copy tasks: store | pull
                                                             |
 bucket provisioning --> data set create               commit batch --> chain
                              |                              |
                        replacement --> retire         cleanup --> removal --> chain
 every arrow to the right of a task is driven by the task engine
```

| component | state | operations | what makes it hard | what must hold |
|---|---|---|---|---|
| task engine (`worker`, `task_repo`) | task rows: status, resume mode, claim generation, lease, checkpoint, open operation; invocations in memory | enqueue, claim, renew, admit and call an effect, record evidence, settle, abandon, retry, recover | crash between admission and outcome; late lease; lost commit answers; concurrent retries | recover before executing again, one effect per attempt, fencing, one settlement, one current row per round |
| recurring tasks (`worker/periodic.go`) | schedule row: head, generation, next run | bootstrap, dispatch, settle, retry the head | locks taken in two orders, retry against dispatch | one unfinished cycle, failures stay retryable until a later cycle ends, cycles go on |
| commit batches (`task/commit`, `storagecommit`, `storage_commit_repo`) | requests, their members and sends; the nonce on chain | join, seal, sign, send, resend, prove, confirm, resign, abandon, retransfer | resends of one authorization, late refusals, copies that move meanwhile | pieces registered once, sealed members pinned, what landed is settled |
| cache gate (`cacheaccess/gate.go`) | entries with reference counts, a FIFO semaphore per entry | read hold, try hold, deletion with a time limit, release | entries dropped and recreated, cancellation racing a grant | a reader-writer lock per key, no lost wake-up, nobody starves |
| cache contents (`backend/object.go`, `objectreader`, `task/cache`, `task/cleanup`) | file, quarantine, content row, presence row, eviction tasks, tracker | write, read and rehydrate, evict, plan LRU, reconcile, clean up, discard | deletion of a file inside a transaction that may fail, stale presence, readers that restore while others remove | no named bytes are lost, garbage goes, presence is accounted for |
| store session (`task/transfer/store*.go`) | checkpoint stages, provider session, claim, copy row | create, upload, finalize, observe, adopt, retry | lost answers, claims left by a crash, a moved provider | a stored body is not forgotten, stored only where it is ready, the task ends |
| data set creation (`task/dataset/ensure.go`) | client id, evidence on task and row, requests in flight | authorize, admit, send, record, look up, complete, replace | resend with a late landing, replacement in flight | one data set, ready only if real, a stopped creation never sends |
| data set retirement (`task/dataset/retire.go`, `synapse/terminate.go`) | attempt ledger, checkpoint, relay request and wallet transactions | gate, relay, direct termination, observe, release, complete, retry | two paths to the chain, one of them paid | one payment per grant, sends never race, retired only when over |
| copy transfer (`task/transfer`, `storage_transfer_*`) | copies with a transfer method, pull attempts, per-copy task generations | plan, pull, restore from cache, promote, fail, retry, delete | promotion against stale snapshots, unresolved pulls | one live ingress, at most one unresolved pull, ready only if the provider has it |
| replacement (`task/replacement`, `task/uploadplan`, `storage_replacement_*`) | replacements, items, seeding cursor, slot generations | authorize, activate, seed, hand over, settle items, supersede | writes that arrive during the migration | the last copy is never given up, one current generation per slot |
| replica slots (`task/bucketprovision`, `task/uploadplan`, `task/binding`, `providerselect`) | bindings per slot and generation, bucket status, tiers | provision, plan, confirm a replacement, settle, mark a provider gone | several planners over one bucket, the tier requirement | one current generation a slot, one slot a provider, the required tier is kept, slots get filled |
| removal (`task/removal`, `task/cleanup`) | removal requests, sends, on-chain queue | join, seal, send, observe, settle, detach | evidence lost, queue bound | a shared piece is never removed, removed only if gone on chain |
| wallet operations (`task/wallet`) | operation row, signed transaction, hash | broadcast, replay, observe, give up, reopen | broadcast before record, expiry, displaced nonce | money moves once, failed means nothing can land |
| object versions (`backend/object.go`, `backend/conditions.go`, `object_repo`) | version rows, current pointer, row lock | put, copy, delete, restore, purge, with conditions | conditions read before the lock, time stamps taken before it | one current version, nothing goes that was not named |
| multipart (`backend/multipart.go`, `multipart_repo`) | upload status, part rows, part files | create, upload part, complete, abort, expire | interrupted completions, parts overwritten meanwhile | an upload makes at most one object, of the listed bytes |
| listing (`backend/listing.go`, `admin/api_buckets.go`) | batch cursor, page marker | list current objects, versions, admin entries | pages of several queries while others write | nothing that stayed is missed or shown twice |
| cache files (`cache/filesystem.go`, `cache/local.go`) | files, part files, temporary files, byte account, inode sync | put, replace, remove, complete, restart | failing system calls, a crash between rename and sync | the account is right, the limit holds |
| settings (`config`, `admin/api_settings.go`, `cmd/synaps3/admin_auth.go`) | config file, password file, running values | update, reset password, restart, environment | two writers of one file | nothing saved is undone, pending means pending |
| provider observations (`observability`, `observability_repo`) | snapshot rows, shared and single refreshes, clock | refresh, join, leave, store, delete | cancellation by the last leaver, a clock that is set back | nothing newer is overwritten, no caller waits for ever |
| speed tests (`task/provider/upload_speed*.go`, `provider_upload_speed_repo`) | test rows, their task, the provider's address | start, run, settle, fail | a provider that moves during its test | a result is of where the provider is |
| admin rendering, authentication, S3 protocol, metrics | none | | | (not modelled) |

`PROJECT.json` lists every component with what is left out of it, and every
hazard with the property that covers it.

## 2. How the models are built

* A database transaction is one step. A transaction whose answer is lost is two
  outcomes of that step. Reads outside a transaction that are used later are kept in
  the model (`exec`, `inv`, `job`), so that everybody else can act in between.
* A provider or chain request is sent in one step and takes effect in another, or
  never; its answer may be lost.
* The process may crash at any step: invocations, in-memory tables and permits go,
  rows and files stay.
* Time is abstract. A lease, a resend time, an observation window or a schedule is
  due or not, and becomes due by an action of its own that nothing delays.
* Bounds are constants (`Max...`, `UploadFaults`, `WalletAttempts`); they appear only in guards. A run
  with bounds on crashes and failing calls covers every placement of that many.
* Texts, logs, identities of wallet and network, sizes and encodings are left out.
  A payload is a model value or is implied by the row that names it.
* A definition that is marked as a mutant in its comment is not part of a
  specification. It is the code with one plausible mistake, and is listed in
  `PROJECT.json` with the property that notices the mistake.

## 3. The modules

### TaskEngine (proofs: TaskProofs)

The engine behind every background task. `tasks` is the table; `exec` holds for
each slot of `Engine.config.Concurrency` the invocation it runs, with what the
claim returned; `reads` holds what a caller of `Service.Retry` read before its
transaction. `sent`, `exposed` and `applied` are history: how many effects were
called, whether one may have left the process without a recorded outcome, how
often a claim was settled.

| action | code |
|---|---|
| `Enqueue`, `EnqueueOrReplaceTerminal` | `Service.Enqueue`, `EnqueueOrReplaceTerminal`, the insert with its conflict rules |
| `ClaimNext`, `LeaseExpires`, `RecoverLease` | dispatcher and recovery queue, `ClaimNext` of the repository, the lease |
| `AdmitEffect`, `CallEffect`, `ObserveOperation`, `ResolveOperation`, `WriteCheckpoint` | the `Execution` interface of `contract.go` |
| `HandlerReturns`, `CommitResult`, `FailClaim`, `AbandonClaim`, `LeaseUnsafe` | `executeClaim`, `commitResult`, `transitionFor`, `renewLease` |
| `RetryReads`, `RetryCommits`, `RetryEnds`, `RetryInTransaction` | `Service.Retry` and the retries that other settlements start |
| `Crash` | the process stops |

A handler is any program of this interface, so the properties hold for all of
them: `RecoverFirst` (an effect that may be out is recovered before anything is
executed), `EffectBudget`, `EffectFenced`, `SettledOnce`, `Rounds` (one current row
per identity, one successor per failed row), `AbandonedClaimRecovered`.
Fairness: a lease nobody renews ends, an invocation times out, and the dispatcher
claims in order of availability; so a claimable task is not passed over for ever, even
when it is claimable only now and then (strong fairness).

Two runs divide the question. `task_engine` has one task with three attempts,
five claims, two slots and two operation keys: every placement of a crash, an
expired lease and a lost answer in three consecutive attempts, and a claim that
outlives its lease beside the one that took over. `task_rounds` has three rows,
three identities and two operators, so that a failed row and its successor are
followed by a third: every race of enqueues and retries over two rounds. One slot and
one claim a row are enough there, because a retry looks only at how a row ended.

A claim may take any claimable row: the code looks for expired leases before pending
tasks, but skips types at capacity and locked rows, so no order between two rows is
guaranteed and the properties rely on none.

The engine's components below reuse its claim and attempt bookkeeping in a smaller
form: a task is pending or running, in a mode, with a retry count and a checkpoint.

### TaskSchedule (proofs: SmallPartsProofs)

One recurring task. The dispatcher and a settlement lock the schedule first;
`Service.Retry` locks the task first and is therefore two steps. Five rows are
enough for two cycles with a retried failure each and one that follows.
`FailuresActionable` is the comment of `periodic.go:145`. Fairness: time passes, the
dispatcher polls, tasks end.

### CommitBatch, CommitBatchProofs

The commit requests of one data set, the task of each, the copies, and the chain.
A request is signed once under one nonce. What a handler read (`inv`) and what it
then does are different steps, so that a transaction may be included, a nonce taken
by something else, the service end, or a copy move, between any two of them. The
instance has two copies, two requests and two sends each, and lets one request
be open at a time, so that the cap on open submissions is reached.
`LandedIsSettled` needs only that the engine claims a due task again.

### CacheLock, CacheGate (proofs: SmallPartsProofs)

`CacheLock` is the contract: readers or one deleter per key. `CacheGate` is the code
with its entries, their reference counts and the semaphore of
`golang.org/x/sync/semaphore`, which is external and is modelled by who holds a
permit and who is ahead of whom. `ImplementsLock` is the refinement: the mapping gives
each user in phase `held` or `granted` its permit. With three users and two keys an entry is dropped and recreated under a
waiting deletion with a reader behind it. That nobody is left waiting is `NoLostWakeup` and the gate's
part of `WorkProceeds`. Fairness: a goroutine inside the gate keeps running and a holder finishes.

### CacheContent, CacheContentLemmas, CacheContentProofs

The bytes of one payload: the content row, the versions that name it, the file and its
quarantined predecessor, the presence row, the eviction tasks, and every goroutine that
touches them, each as the sequence of its transactions and file operations. The
gate is used by its contract. A file is deleted inside its transaction, so a failing
commit leaves the file gone and the rows as they were.

In `cache` the policy is `after_upload`: two clients and a task runner, two versions, two
evictions, one failing call and one crash. `small_parts` adds fairness and the `lru`
policy with one client and one version at a time: `CacheLock` has no queue, so liveness with
two clients would need the order that `CacheGate` provides, and a client that rewrites the same
bytes for ever really does postpone their cleanup.

Two corners are known and outside the properties. With two failing calls, the tracker may
set `in_cache` for a content whose file an eviction has deleted
(`tracker.go:273`, `evict.go:226`): a reader's presence write fails and stays owed, the eviction's commit
answer and its check are lost, and the sweep re-asserts the flag. And an LRU deletion
torn by a crash, recovered when the cache is below its target, is cancelled with
`in_cache` still set (`evict.go:118`). Both are repaired by the next read of
the content, which finds no file, and neither loses bytes.

### StoreSession

The store task of one copy: create a session, upload the body under a claim,
finalize, observe. The environment loses answers, moves the service URL, expires
sessions, drops the cached file, crashes the process; an operator retries and the
copy may be transferred again. `BodyNotForgotten` is about a copy that has not been
recorded as stored: as long as the provider has the body or the claim on it, the
next attempt continues that session. Fairness: the engine runs what is due, a claim
ends, a received piece becomes ready. The branch for two earlier checkpoints that
disagree (`store.go:87`) needs two retry rounds and does not fire in the run.

### DataSetCreate (proofs: SmallPartsProofs)

The ensure task of a binding. The client data set id is drawn once, recorded with the
admission, and repeated by every later request; the chain takes it once. Evidence goes to the
checkpoint and to the row by separate transactions. An operator may replace the
binding when its setup task has failed (`concepts/filecoin-storage-flow.md:67`).
Fairness: the engine, the provider, the chain and time go on; operators need not act.

### DataSetRetire

The retire task of a source or of an abandoned target. The provider's relay is free, a
termination from the wallet is paid. The ledger of attempts outlives the task.
`DataSetSteps` (`SendAllowed`) and `LedgerInv` (`PaidOncePerGrant`) say what a Retry of an operator buys.
An admission whose hash was never recorded is not sent again
(`docs/en/reference/admin-api.md:165`). The provider's "not found" is taken to cover every request
that can still arrive. The gate may close after it was checked; it is checked again
when the row is retired. A termination that is blocked ends the task, and its
attempt is released only when it is known to be unsent. Its part of `PartsSettle` assumes an operator who keeps retrying.

### WalletOperation (proofs: TaskProofs)

One fund, withdraw or approve operation and its task. Signing and sending is one call of
the SDK and is admitted once; afterwards the task looks for the transaction it knows and
repeats the same signed bytes while the wallet's nonce and the permit inside them allow it.
Every chain read of the replay is a step, so that the nonce, the permit and the
transaction move between them. The chain includes, drops, displaces and finalizes; a block
that displaces the transaction may be reorganized until it is finalized, while the
receipt of the operation's own transaction, which the handler trusts at once, is stable.
`EvidenceAgrees` shows that the branches for contradicting evidence
are unreachable, and the model leaves them out. One corner remains with the operator
(`docs/en/operations/troubleshooting.md:98`): a crash between send and record, followed by
attempts that all fail to load the operation, leaves a pending operation that
`InspectRetry` refuses; `LandedIsRecorded` names it (`Stranded`). Fairness: claims,
the handler and the operator's Retry.

### CopyTransfer

The copies of one content and the coordinator, plan, store and pull task of each. One
copy is the ingress: it is stored from the cache, the others are pulled from a copy a
provider serves. The role moves when the ingress fails or a copy is committed; a stale
plan may meanwhile have decided otherwise, which the pull handler finds out
(`pull.go:169`). `IngressRole`: at most one live ingress, and never none while a copy
waits for one. `PullLedger`: a pull attempt is unresolved for at most one task, which
knows it. Left out: migrations and sealed members that are sent back (`Replacement`
and `CommitBatch` have them), a plan nobody references, the adoption of an unresolved
pull by another task, `pullWithoutSource`, `ResumeFailedStoreCopy`; wake-ups only
shorten waits. An ingress plan whose cached file is lost waits for the cache even
when a copy restored by an operator's Retry is readable (`plan.go:109`). Fairness: the
engine, providers and data sets go on.

### StorageRemoval (proofs: RemovalProofs, QueueProofs)

The cleanup task of each content without references and the removal batches of one
data set: join, seal, sign, send, observe, settle, adopt, give up. The contract's queue
of scheduled removals has a limit; a signature that was refused may still be used later,
and one of an earlier release has no batch. `OnlyUnneeded`: a piece goes only when no
version and no other content needs it. `SignaturesKept`: a batch stays open while a
signature of it may be used (`SignaturesWatched`), and the scheduled pieces with those
in signatures on their way (`Committed`) fit the contract's queue (`QueueBound`). Not
counted are the pieces for which the code reserves no place: those of a refused signature and of an earlier
release (`Uncounted`). One copy of each content, on one data set; a reference never reappears
(`storage_content_reference.go:118`); attention codes, unsupported copies and contention
on evidence are left out. `CleanupEnds` needs no fairness of the provider.

### ObjectVersions, Multipart (proofs: ObjectsProofs), Listing

`ObjectVersions` is the history of one key. A request locks the row of its content,
selects and locks the objects row, reads the current version in a statement of its own to
check its conditions, and writes; a delete takes its time stamp before it waits. A select that
finds no row locks nothing, so the key may come and go before the check and before the
insert, which then starts over or gives up (`contended`).
`HistoryInv`: there is one current version and it is the one the objects row names, and a
content is released only when no version names it. `ConditionsHeld`: a conditional
write never takes the place of a version that does not satisfy its condition. The
condition itself need not hold at the commit in one case, which the property names: an
If-Match request whose select found no row, whose check met a matching version that came
meanwhile, and whose insert finds the key empty again. `OnlyNamedGoes`: a version
disappears only by a request that names it, or by a restore that removes delete markers. Left
out: equal time stamps, contents named by other keys, aborted transactions.

`Multipart` is one upload with its rows and part files, two clients, a completion in
its stages and the release of an interrupted completion at start. `UploadInv`: an object
exists exactly when the upload is completed, of the bytes that were listed, and an
upload is `completing` only while a completion is in flight, unless it was left so
(`stranded`): by a rollback or a release that failed, or by a transition to `completing` that
was made while its answer was lost, after which the request ends before the rollback is deferred.
The answers of the completing transaction, of the abort and of the deletion of the part rows may be lost too.
The part's `UploadsSettle` says that files nobody needs go and that `completing` ends with the
same exception. Left out: size limits, bucket deletion, listings of parts; `UploadPartCopy` is `UploadPart`.

`Listing` walks a bucket page by page in batches while others write. Keys are numbers,
the tens are folders. The reference definition is the set of rows that were there all
along: `WalkComplete` says that a walk shows each of them, itself or by its folder, in order and
once. Versions of a key whose marker version was deleted before its page are
skipped by the code (`excused`).

### Replacement, ReplicaSlots

`Replacement` is one slot of a bucket through up to two replacements of its provider:
authorization, creation of the target, seeding in pages, migration of the items,
hand-over of unsigned writes, retirement, supersession and failure, while contents are
written, planned, transferred, committed and deleted. `ReplacementInv`: one generation is
current, a migration forgets no content, the source is not given up while it
holds the only copy. `WritesFenced`: nothing new is written to a source that was left.
Left out: what `DataSetRetire` models, the NOWAIT locks, the operation `Retry` of the repository that has no caller;
the cache always has the bytes. A superseded row's cleanup coordinator that the engine has failed cannot be retried.

`ReplicaSlots` is all slots of a bucket, filled by provisioning, an upload plan
and confirmed replacements at once. Each reads the ledger, chooses, and settles under
the bucket's lock. `SlotsInv`: one current generation a slot, one unretired generation a
provider, one open replacement a source, and the required tier is kept. Providers are
ranked in one fixed order, the required tier has members, and a planner that has used up its attempts
fails until an operator retries it. A target that is raised between a provisioning run's read and its
settlement promotes with the old target, and the next run goes on from there.

### CacheFiles

Staged writes of files and parts, assembly, commit by rename and directory sync, deletion
and quarantine, the byte accounts, and the start after a crash, with every system call
allowed to fail. `FilesInv`: what is counted is what is there and what is being
written, and the limit holds. `CommitOutcome`: a commit that reports success has put its file in
place, and one that reports failure has not replaced the old one unless it says so. A
removal whose directory sync failed can come back after a crash; a start may then find more than
the limit and admits nothing new. Bytes are identified by their size.

### Settings

Updates of the settings file by the admin API, the `reset-password` command, failing
writes and restarts, with values from the environment. `SettingsInv`: nothing saved is
undone, and what the process reports as pending is what a restart would change. The
exceptions are named: a settings write that overlaps a password reset, and a reset that
dies between its two files (`torn`); and an update that replaced the file and could not read it
back, which leaves the report as it was until the next update or start (`unread`). Hand edits and
broken files are left out.

### Observations, SpeedTests

`Observations` is the refresh of provider observations shared by its callers: whoever
comes first starts it, the last to leave cancels it, single refreshes run beside it, and the
clock may be set back. A row is only replaced by a later observation; a row that was
deleted may come back from an older single refresh. `SpeedTests` is the upload
tests of one provider, started by hand, automatically or again, while it moves: a
current result is of the address the provider has. `ProviderInv` joins the two.

## 4. Runs

Components that share no state are checked in one run: the module of the run extends one
or more specifications, instantiates the others, and a variable `part` says which of them a
behaviour is about; the variables of the others stay at a fixed value. Properties are
stated for their part. Liveness properties of such a run are one formula of the form
`[]<>P`, and fairness is stated for disjunctions of the parts' fair actions. No step of one
part is enabled in a behaviour of another, so this is the fairness of each part.

| run | parts and instance | properties |
|---|---|---|
| `task_engine` | `TaskEngine`: 1 task, 5 claims, 3 attempts, 2 slots, 2 keys | `RecoverFirst`, `EffectBudget`, `EffectFenced`, `SettledOnce`, `AbandonedClaimRecovered` |
| `task_rounds` | `TaskEngine`: 3 rows, 3 identities, 2 operators, 1 slot, 1 claim | `Rounds` |
| `commit_batch` | `CommitBatch`: 2 copies, 2 requests, 2 sends, 1 open | `RequestInv`, `LandedIsSettled` |
| `commit_abandoned` | 2 copies, 1 request | a counterexample, see section 7 |
| `small_parts` | `CacheGate`: 3 users, 2 keys, 2 entries; `WalletOperation`: 3 kinds, 2 attempts, 2 transactions, 3 faults, 2 crashes; `TaskSchedule`: 5 rows, 2 operators; `CacheContent` under `lru`; `Observations`: 3 callers, 2 providers, 6 sets of bounds; `SpeedTests`: 2 tests, 2 addresses | `NoLostWakeup`, `PaidOnce`, `ScheduleInv`, `ProviderInv`, `ImplementsLock`, `FailuresActionable`, `WorkProceeds` |
| `cache` | `CacheContent` under `after_upload`: 2 clients, 1 runner, 2 versions, 2 evictions, 1 fault, 1 crash; `CacheFiles`: 2 writers, 3 sets of bounds; `Settings`: 2 updates, 1 reset, 1 fault, 3 environments | `BytesKept`, `CacheInv`, `FilesInv`, `SettingsInv`, `CommitOutcome` |
| `transfers` | `CopyTransfer`: 2 copies, 2 attempts, 3 pulls, 3 faults, 2 crashes, 2 retries; `StoreSession`: 2 sessions, 2 URLs, 2 attempts, 1 retry, 1 fault, 1 crash, 1 move | `IngressRole`, `TransferInv`, `BodyNotForgotten`, `TransfersEnd` |
| `storage_removal` | `StorageRemoval`: 2 contents, 3 batches, 7 starting points | `OnlyUnneeded`, `SignaturesKept`, `CleanupEnds` |
| `objects` | `ObjectVersions`: 3 requests, 2 contents, 3 histories; `Multipart`: 2 clients, 2 parts, 2 faults, 1 restart; `Listing`: 4 keys, 2 stamps, batches of 2, 2 writes; `DataSetRetire`: 3 sends, 2 attempts, 1 fault, 1 crash, 1 gate change; `DataSetCreate`: 2 client ids, 3 attempts, 1 round, 2 faults, 1 crash | `HistoryInv`, `UploadInv`, `WalkComplete`, `OneDataSet`, `LedgerInv`, `ConditionsHeld`, `OnlyNamedGoes`, `DataSetSteps`, `PartsSettle` |
| `objects_restore` | as `objects` | a counterexample, see section 7 |
| `replacement` | `Replacement`: 2 contents, 3 generations, pages of 1; `ReplicaSlots`: 4 providers, 2 copies, 2 confirmations, 5 sets of bounds | `ReplacementInv`, `SlotsInv`, `WritesFenced`, `ReplacementsSettle` |
| `replacement_handover` | as `replacement` | a counterexample, see section 7 |

The bounds are the smallest at which every action and every disjunct fires and
at which two actors can be inside each pair of steps: two of whatever competes, one more
attempt than failures, one crash beside one failing call. Where all combinations would be too
many, a set of bounds is listed and each behaviour has one of them.

Deadlock checking is off because the bounds let a behaviour run out of steps. Symmetry
is used in `task_rounds` and `cache`, which check no liveness property.

Fairness is weak for a goroutine that has started and can go on, for time, and, where a
component documents that it waits for them, for provider, chain and an operator who
retries. It is strong where a step is enabled only now and then and the code does not pass it over for ever: in `TaskEngine`
for the claim of a task, because claims are taken in order of availability, and for the
end of an invocation, because it times out; in `TaskSchedule` for the settlement
of a running task; in `CacheContent` for the claims of evictions and cleanups and for the
deletion and the scan of a file, which wait for permits and slots that others take in turn.
`WorkProceeds` watches one of the interchangeable users of the gate.

## 5. Proofs

TLAPS proves the following for every value of the constants. Each theorem that names a
property is about the same definition that a run checks. None of the properties is
inductive as it stands; each module has the strengthening it needs, which TLC
checked before it was proved. A proof has a lemma for each action, and frame lemmas for
the rows, users or goroutines that the action leaves alone.

| module | theorems | property of a run |
|---|---|---|
| `TaskProofs` | `EngineInvariant`, `RecoverBeforeReexecuting`, `EffectsWithinBudget`, `EffectsFenced`, `SettlementsOnce`, `RoundsFormChains`, `WalletInductive`, `PaymentMadeOnce` | `RecoverFirst`, `EffectBudget`, `EffectFenced`, `SettledOnce`, `Rounds`, `PaidOnce` |
| `SmallPartsProofs` | `GateInvariant`, `GateCountsEntries`, `GateLosesNoWakeup`, `GateImplementsLock`, `ScheduleInductive`, `ScheduleSafe`, `FailuresStayActionable`, `CreateInductive`, `CreatedOnce`, `StoppedStaysUnsent` | `NoLostWakeup`, `ImplementsLock`, `ScheduleInv`, `FailuresActionable`, `OneDataSet` |
| `ObjectsProofs` | `ObjectsInductive`, `HistorySafe`, `ConditionsSafe`, `OnlyNamedRemoved`, `UploadInductive`, `UploadSafe` | `HistoryInv`, `ConditionsHeld`, `OnlyNamedGoes`, `UploadInv` |
| `RemovalProofs` | `RemovalInductive`, `UnneededOnly`, `Watched` | `OnlyUnneeded` |
| `QueueProofs` | `SignedKept` | `SignaturesKept` |
| `CommitBatchProofs` | `CommitInductive`, `PiecesRegisteredOnce`, `AbandonedOffChain` | `RequestInv` |
| `CacheContentLemmas`, `CacheContentProofs` | `ContentInductive`, `BytesNeverLost`, `CacheRowsAgree` | `BytesKept`, `CacheInv` |

**Task engine.** That an effect is called only under its claim depends on what the row,
the lease and the invocation say of each other. `RowInv` ties the row's admissions to the
effects called and an exposed row to recover mode; `SlotInv` says that an invocation has
the latest generation of its row, is alone with it, and that the row is running until
that invocation's own result is settled. `RoundsFormChains` adds that ids are given
without gaps, so that a new row is nobody's parent yet.

**Recurring tasks.** The head is
the last task inserted, the generation counts no more than the tasks, and what an operator
has read as failed is failed ever after; so a retry never moves the head away from
a running task. `FailuresStayActionable` is an action property.

**Cache gate.** `GateInv` needs the FIFO order as a relation (`ahead`, transitive and total
on a queue), because a lost wake-up is about the first of the queue. `GateImplementsLock`
is the refinement of `CacheLock`, step by step.

**Object versions.** The argument is the one of the row locks: whoever changes the history
holds the lock of the objects row, or there is no such row and nobody holds its lock, and
whoever starts the cleanup of a content holds the lock of that content. What a request
checked under its locks still holds when it writes. A request whose select found no row holds no
lock on it: it can insert only where the key is empty, so that it takes the place of nothing, and
for the removals it relies on names, because the name of a version is never given again. The two
action properties follow from the same invariant.

**Multipart uploads.** Part rows change only under the upload's gate, and whoever completes
or aborts holds it until the end. So what validation has compared with the client's
list (`staged`) is still recorded when the object is made of it. The invariant says for each
place in a request what it has validated, which status the upload then has, and that only
the holder of the gate is past it; an upload is left `completing` only by a rollback or a
release that failed or by a transition whose answer was lost.

**Removal.** A request is sealed before its first send, and a copy leaves it only while
none of its sends may be accepted; so a send that may be accepted names members only
(`Covered`). An invocation that is about to send saw the chain earlier, and pieces only leave; what
is still present it saw as present (`Viewed`), so its selection is part of every earlier
send. `QueueBound` needs a second layer, because the room a send needs is computed from that
early view: whatever was scheduled since is a member of the request itself, or was signed by
another request that is still submitted or was queued after the view was taken (`Looked`), and these
are what `AdmitRemovalSend` counts besides the view. `Told` and `Waiting` tie the fate of a
send and the status of a request to what the chain holds. The proof is for any number
of contents, requests, attempts, failing calls, crashes and retries and any capacity of the queue. It
led to a simpler and stronger `QueueBound`: a refused signature stops counting when the refusal
is recorded, where an earlier form let it go with the answer.

**Wallet operations.** The checkpoint is written before the SDK is asked to sign, and only a
task without a checkpoint asks; an operator's Retry drops the checkpoint of a broadcast known
to be unsent and of no other. So a transaction that was signed keeps its checkpoint for good
and is the only one. The theorem also has the status in the row tell the truth and the
checkpoint agree with it.

**Data set creation.** One client id is recorded at the first admission; every invocation works
from the checkpoint, and checkpoint and row name the same id. So every request carries it
and the chain accepts it once. `StoppedStaysUnsent` is an action property: once a replacement
has ended the creation, no step sends a request for it.

**Commit batches.** A sealed copy belongs to one request, and a request is given up only
with nothing in flight, or when what is in flight can no longer land.
`AbandonedOffChain` delimits the finding of section 7: as long as the data set takes pieces, an
abandoned request is not on the chain.

**Cache contents.** A file is removed only under the deletion permit, held alone, and the
remover looks at versions and copies while it holds it; a write, fill or read that
depends on the file keeps a read permit until the rows know of it. An `object_cache` row
is owned by the live eviction of its latest generation, and no other eviction may touch
it. What the tracker owes is a file that is there, unless two calls have
failed. The proof covers any number of contents, generations, clients, runners, failing
calls and crashes, and both policies. It found that the property had to say "unless a
second call fails": the first corner described under CacheContent needs exactly two.

Assumptions: the named `ASSUME`s of the modules (bounds are naturals, reserved values are
not members, users and contents are finite, histories are well formed). The theorems about
`WalletOperation` and `DataSetCreate` state what they need of the bounds themselves (`Bounds`).

Only model-checked: every liveness property, because the provers take neither fairness nor `ENABLED`;
the recursive reference definitions of `Listing` and what they compute (`WalkComplete`), which
would need induction over data; and the invariants and action properties of `CopyTransfer`, `StoreSession`,
`DataSetRetire`, `Replacement`, `ReplicaSlots`, `CacheFiles`, `Settings`, `Observations` and
`SpeedTests`, for which no inductive invariant has been worked out.

## 6. What is not modelled

Row locks and deadlocks inside PostgreSQL (it aborts one transaction, and the engine
retries), priorities and fair share in the dispatcher, byte ranges and sizes,
capacity accounting of the LRU scan, identity changes of wallet or network, the ranking of
providers by price and speed, S3 users and access logs, the admin API's rendering and
authentication, metrics, start and stop order, migrations of the schema. Several gateways on one database are
excluded by the documentation. What a modelled component leaves out is in section 3
and in `PROJECT.json`.

## 7. Disagreements between the code and what is said of it

`commit_abandoned` finds a request that is abandoned and lands. `unobserved`
(`storagecommit/advancer.go:409`) reads the nonce first and asks only then
whether the data set takes writes. A transaction included between the two reads, and a
service end after it, make the handler abandon the request and fail its copies.
`storagecommit/request.go:29` says "RequestStatusAbandoned can never land."
`commit_batch` shows the consequence is bounded: no piece is registered twice.

`objects_restore` finds an object that cannot be taken out of the trash.
`createDeleteMarkerAndSetCurrent` (`object_repo.go:1536`) takes the marker's time stamp before
it waits for the row lock, so a delete that waits behind a write becomes current with an
older time than the version it hides. The restore walks the history by time, meets that
version first, and reports a conflict on every attempt, "delete marker is no longer current"
(`api_buckets.go:1681`), although the marker is current.

`replacement_handover` finds an unsigned write that nobody hands over.
`ReopenFailedIngressForPull` (`storage_transfer_method_repo.go:198`) reopens a failed copy on a source whose
coordinator has already passed to retirement; the retirement gate then waits for it,
against `task/replacement/handler.go:629`, "Once unsigned writes are handed over, only
writes the old provider holds a signed authorization for are left". `ReplacementsSettle` names
this case as its exception.

Two smaller ones are named as exceptions in the properties they touch. A condition "evaluates a
locked version, or nil" (`interfaces.go:158`), but after a select that found no row it is
evaluated on a version nobody has locked (`ConditionsHeld`). And `multipart.go:307` says that
"the upload must not be left completing", which a lost answer of the transition before that line
does (`UploadInv`); the release at the next start of the process ends it.

## 8. Running it

`tlc -config <cfg> <module>` for a run of `PROJECT.json`; `tlapm <module>` for the
modules whose names end in `Proofs` or `Lemmas`.
