# TLA+ models of the stateful parts of a cloud cost back end

The repository is the back end of a cloud cost management product: some sixty
Go packages, most of which are request handlers over Firestore, BigQuery and
third-party APIs. What this project models are the parts whose correctness
depends on the order of events, because several actors share documents that
no transaction spans:

- the **billing import of Flexsave standalone** (`src/flexsavestandalone/gcp/billing`),
  which copies the billing export tables of the customers, row by row exactly
  once, to one unified table, with scheduled managers, cloud-task workers,
  BigQuery jobs, leases, retries and recovery;
- the **life of a billing account** in it: activation, onboarding with its
  roll-back, hand-over from one pipeline to the other, removal, deletion;
- the **service accounts** that its customers are given out of a pool
  (`src/flexsavestandalone/gcp/service_accounts`);
- **payments of invoices through Stripe** (`src/stripe/service`), which touch
  Firestore, Stripe and the ERP system Priority.

In the tables, paths of the billing import are relative to its directory, and
those of the others to `src/`.

## The system

| part | state | operations | interacts through |
|---|---|---|---|
| External manager (`application/external_manager.go`) | `ExternalManagerMetadata` (a lease with TTL), in memory one goroutine per account | catch the lease, precalculate job ids, update each task, create cloud tasks, mark onboarding done, tear down | Firestore transactions, cloud tasks |
| External workers (`application/task/external_to_bucket.go`, `external_from_bucket.go`) | none of their own | claim the task, choose a bucket folder, insert an export or load job, record its id | Firestore, BigQuery |
| Internal manager (`application/internal_manager.go`) | `InternalManagerMetadata` (state 1..10, iteration, TTL, recovery) | general and single recovery; catch, temporary table, update tasks, create cloud tasks, wait, copy to the unified table, notify, tear down | Firestore, cloud tasks, BigQuery |
| Internal workers (`application/task/internal_update.go`) | none of their own | claim the task, insert the copy job, record its id | Firestore, BigQuery |
| Account documents (`service/metadata.go`) | `ExternalTaskMetadata` and `InternalTaskMetadata` of each billing account: state, iteration, segment, jobs, life-cycle stage | transactions with a closure; retried | everything above |
| Onboarding, offboarding (`application/onboard.go`, `rollback.go`, `handleLifeCycleChanges` of both managers) | stage of the two documents, local table, import status, deletion job | onboard with roll-back, remove, activate, delete rows, delete documents, tell the customer | Firestore, BigQuery |
| BigQuery, buckets | jobs, local, temporary and unified tables; files of one export | a job appends or deletes all its rows or none | job ids, job status |
| Rows validator (`rows_validator/`) | none that others read | compares the row counts of the customer's, the local and the unified table | BigQuery |
| Service accounts (`flexsavestandalone/gcp/service_accounts`) | one document for the pool (free, reserved, taken), one for the projects (current, next, counts) | `InitOnboarding` reserves and attaches, `Activate` marks as taken, `CreateServiceAccounts` and `InitEnvironment` create accounts and projects | Firestore transactions, cloud tasks, Google IAM |
| Payments (`stripe/service`) | the invoice's lock, debit and recorded intents; payment intents; open balance, receipts, fees invoices | pay by card or bank debit, automatic payments, handle events of intents | Firestore, Stripe and its web hooks, Priority |

What is hard here:

- Billing import: managers are invoked every few minutes whether or not the
  last invocation is over; a run may end at any call; cloud tasks are delivered at
  least once; a job may have been inserted though its insertion was not answered
  or its id not recorded; deadlines race the jobs they guard; nothing ties the two
  tables to the documents that say what is in them. The validator states what all
  of it is for: the row counts of the three tables are equal in every segment
  (`rows_validator/rows_validator.go:575,585`).
- Life of an account: nobody owns it. Five writers change two documents, one
  status and two tables, each from a snapshot.
- Service accounts: what the two transactions are based on is read outside of
  them, one keeps a value from an attempt that was aborted, and a step that fails in
  between is never made up for.
- Payments: three stores with no common transaction, a lock without owner or
  expiry, money that moves before or after it is recorded, events delivered
  more than once, early, or refused.

Everything else the repository contains is listed in `PROJECT.json` under
`components` with the reason it is not modelled; the hazards of the modelled
parts, each at its line, are there under `hazards`.

## Modules

| module | what it is |
|---|---|
| `SegmentCopy` | The abstract specification of either half of the import: rows are copied one segment after another, a segment in one step, the next one chosen only then. |
| `ExternalPipeline` | Customer table -> bucket -> local table: manager runs, goroutines, workers, jobs, bucket files. |
| `InternalPipeline` | Local table -> temporary table -> unified table: manager runs with recovery, workers, jobs. |
| `Lifecycle` | One billing account from activation to deletion, and again; the pipelines are one step each. |
| `AccountPool` | The abstract specification of a pool: a customer is given one account, and an account that is given is never free again; only an empty pool passes on an account that somebody has. |
| `ServiceAccounts` | The calls and tasks that share the pool and the projects. |
| `Payments` | Payers and event handlers of one invoice, the three stores. |
| `...Proofs` | What TLAPS proves of the module; `InternalRunsProofs` takes what `InternalPipelineProofs` proves of one run of the manager to any number that follow each other, and `LedgerProofs` has the sums of money of `Payments`. |
| `MC...` and the `.cfg` files | Instances for TLC. |

Both pipelines are shown to implement `SegmentCopy` under a mapping that keeps the
segment of each account document and the target table and forgets the rest
(`CopiesSegments`). What the target table holds then follows from theorems about
`SegmentCopy` and is one of each pipeline: rows arrive in order and exactly once
(`CopiesInOrder`), the table is the source up to a bound of the segment
(`CopiesWholeSegments`), and it only grows, behind its newest row (`GrowsAtItsEnd`).
That no row is copied twice or left out is therefore not an invariant of the safety
runs; `NoRowTwice` is checked where it fails. `ServiceAccounts` is shown to implement
`AccountPool` (`PoolKept`).

How the modules meet: `Lifecycle` does in one step (`ImportHistory`, `CopyRows`) what
the pipelines do, and its hand-over (`MarkOnboardingDone`) is the action of
`ExternalPipeline` of that name; the pipelines in turn keep every account active.
`ServiceAccounts` ends where the customer is activated, with which `Lifecycle` begins.

### ExternalPipeline

Export times are the numbers 1..MaxRecord; rows with one export time arrive
together. A segment is (start, end]. `etm` is the account's document, `lease`
the manager's, `run` and `gor` are the invocations and their goroutines per
account, `worker` the deliveries being handled, `tasks` the cloud tasks created
(never removed: any may be delivered again), `jobs`, `files`, `deletions` and
`local` BigQuery and the buckets.

A transaction is one action with its guard and all it writes; what happens
between two transactions is a program counter. So a run is Catch (or Reclaim of
an expired lease), then per account PrecalculateJobsId / SavePrecalculatedJob
(`precalculateJobsIdsIfRequired`: the look-up and the write are two steps),
UpdateExternalTask (`updateExternalTask` with one disjunct per state),
CreateCloudTask, GoroutineFails; then MarkOnboardingDone and TearDown. A worker
is InitTask, SetBucket, InsertJob, RecordJob. RunDies and WorkerDies end either
at any step. The clock is LeaseExpires and DeadlinePasses.

Abstractions: the four deadlines of a job are two ("start", "finish"); a
worker's context ends when "start" passes; in-flight insertions land before the
look-up of the next run; files of a failed export are any part of the segment.
One account with several deliveries, not several accounts, is where the races
are, since accounts share only the lease and the wait group; the latter is what
`MCExternalUnreachable` looks at.

### InternalPipeline

`mm` and `itm` are the documents; what the clock says of TTL, RecoveringTTL and
WaitToStartTimeout is a flag in them. A run's `at` names the call it is in, and
`todo` the accounts it has still to visit: loops and goroutines over accounts
visit them in any order, one transaction each, after a list that was read before
(`Lists`, `Visits`, `Sets`). `Saves` is the write of the manager's state, which in
the code compares nothing. `Works` are the steps of a run whose calls succeed,
`Falters` those in which one fails: `VisitFails` when the run goes on with the
other accounts, `WaitFails` when the task it waits for is failed at once (a client, the
task or its job cannot be read, the job cannot be cancelled, or it outlasts all
deadlines), `RunFails` when it ends.

Abstractions: every account is active and is not removed; the events and the
copy history of `notifyAll` are left out (the history is in `Lifecycle`); the read
and the transaction of `CatchInternalManagerMetadata` are one step, and so are the
read of the verified tasks and the insertion of their job; rows of a temporary
table are those of the finished jobs that append to it. The recovery branch for
`6_marked`, a state that nothing sets, is left out (its absence is the third
finding below).

### Lifecycle

`etm` and `itm` are the two documents (or `NoDoc`), `local` and `unified` say what the
tables hold of the account, `status` is its billingImportStatus, `job` and `queue` are
the jobs that delete its rows. Activate and the steps of Onboard follow `onboarding.go`
and `onboard.go`; a step that fails goes to the roll-back that the code has reached by
then (`FirstUndone`). A roll-back that cannot delete the table goes on with the
documents. RemoveBilling is one transaction over both documents, at any moment at which
neither is being onboarded. A run of the external manager is ImportHistory,
MarkOnboardingDone, ListExternal and one of the actions on the stage it has listed; one
of the internal manager is UpdateInternalTasks, CopyRows, NotifyCompleted, SetNotified,
ListInternal and one of the actions on the stage. The snapshots are kept (`snap`),
because the code tests them again inside the transaction instead of the document: an
account that is removed in between is active again. `undone` remembers that this has
happened (run `lifecycle_removal_undone`), and the other properties say what holds until
then. ExternalDies and InternalDies end a run at any step.

Abstractions: accounts share nothing, so there is one; billing events are left
out; a job name is used again once nobody knows it.

### ServiceAccounts

`current`, `next` and `count` are the document of the projects, `free`, `reserved` and
`taken` the one of the pool, `made` is what Google has. A call of InitOnboarding is
CreateDocument, Lookup, Reserve, Refill, Attach; Activate's part is MarkTaken. A
task is StartTask or StartInit, ReadProject, CreateAccount, AddToPool,
CountAccount, and CreateProject and AddNewProject when the count says so. Each step
may fail, and what it has done by then stays.

The transaction that reserves runs its closure again when an attempt is aborted
(AttemptAborted), and the account that was chosen stays in a result outside of it
(`dal/onboarding.go:114`). If the next attempt finds an account it takes that one
(Reserve); if the pool is empty by then it reserves the old one a second time, and writes
over the entry of the customer who has been given it since (PassOn); without an aborted
attempt the empty name is reserved, and the call fails (ReserveNothing). So two
customers may have one account. `passed` remembers these accounts: `AttachedIsGiven`,
`AccountPool` and `AccountsAreGivenOnce` say that nothing else gives an account twice, and
this only on an empty pool.

Abstractions: the rotation of projects depends on counts only, so an account is
a pair of a project and a number; policies belong to the creation; an attempt that is
aborted counts as a failure and is bounded by `MaxFailures` (by 20 in the code).

### Payments

`locked`, `debit` and `pis` are the invoice document, `stripe` and `tagged` the payment
intents, `open`, `receipt` and `fees` Priority. A payer goes through the calls of
`make...Payment` in the order of the code, with one place for each call that
may fail, and a failing step goes where the code's return and its deferred
functions lead. A handler of an event (`<<payer, attempt>>`) looks the intent up, takes
the lock, creates and approves a receipt, tags the intent and books it. Synchronise
writes a balance of Priority to the document, locked or not. The code reads all balances in
one task and writes them in later ones (`dashboard/invoices/handler.go:131-159`, `319-329`), so that
the balance may be any from the total down to the open one.

Abstractions: an amount is a number of units; the four kinds of bank debit
differ in currency and mandate only; fees are one amount; the digest, refunds
and disputes do not touch the invoice.

## Mishaps

A property that needs an assumption says so: `Mishap` names what may happen on
top of what the code is written to survive. Each was switched on alone to see
what it breaks.

**InternalPipeline.** Failing calls, crashing runs and dying or duplicate workers
are always possible; with none of the following the safety properties hold.

| mishap | why it is reachable | what it breaks |
|---|---|---|
| `copy_abandoned` | a run ends while its copy job is under way (crash, or its 85 minutes are over: 15 + 40 + 5 for the tasks, 40 + 5 for the copy) | exactly-once: `NoRowTwice` (run `internal_copy_abandoned`, a finding); `CopyJobAwaited` |
| `copy_unanswered` | BigQuery carries out an insertion whose request failed | exactly-once, `CopyJobAwaited`; no client can exclude it without a look-up |
| `copy_stuck` | the copy job outlasts deadline, cancellation and extra time (`JobExecutionStuck`) | exactly-once, `CopyJobAwaited` |
| `recovery_abandoned` | a recovery ends before the verified tasks are failed: the next run skips recovery (`internal_manager.go:211`) and takes verified tasks for done (141-155) | `CopiesSegments`, `VerifiedMeansCopied`: their rows never reach the unified table |
| `worker_outlives` | a worker is still in its 15 minutes when a later iteration is caught; this needs the manager to have given up on its task early | `CopyJobAwaited`, through the unguarded write of `internal_update.go:97` |

`OneCopyJobPerIteration` holds with all of them, and is proved so.

**Lifecycle.** Runs that die are always possible.

| mishap | why it is reachable | what it breaks |
|---|---|---|
| `onboard_fails` | a call of Onboard fails or dies after it has begun to create the account | `NeverHalfCreated` only: the roll-back (`rollback.go:41`) deletes the internal document and leaves the external one, and such an account can neither be onboarded nor removed |
| `deletion_fails` | a job that deletes rows fails, and is never repeated (`internal_manager.go:699`) | nothing that is stated: `OffboardingEnds` excepts it |
| `onboard_twice`, `activate_again` | two calls at once; a user activates an account that is onboarded | `NeverHalfCreated`, `OnboardingEnds`; `HistoryInOrder` |
| `onboard_slow` | the history is imported before Onboard, which needs seconds, returns | everything except `OffboardingEnds` |
| `overtakes` | deletion jobs do not run in the order of insertion | `RemovedLeavesNothing`, `HistoryInOrder`, `LiveRowsKept` |

The run has `onboard_fails` and `deletion_fails`. An account may be removed at any moment in
all of them, also after a manager has listed it as created: its stage is then set back
to active in one document or in both, nothing removes it any more, and its tables may be
gone. `DocumentsAgree`, `HistoryInOrder` and the liveness properties therefore except
a state in which a removal has been undone; `RemovedLeavesNothing` and `LiveRowsKept` hold
in the run without that exception, and are proved with it. Overlapping runs of one manager are
an instance of their own: with two external or two internal runs `DocumentsAgree`
does not hold (one deletes the document of the account's next life, which it
holds listed as deprecated), and with two internal ones `RemovedLeavesNothing` does
not either (two jobs are inserted, the document goes after the first).

**ServiceAccounts.** The run has every mishap but `project_fails`. `attempt_aborted` is
the aborted attempt described above; without it nothing is passed on, as `PassOn` needs
one. A project is created by the task that finds it missing, after it has written that
there is none, so that a creation that fails (`project_fails`) leaves no current project
for good, and no task tries again (`ProjectsFollow`). `QuotaKept` needs one account of
reserve for each further task and each failure and fails with less (Quota = 3 in the
run's instance); the reserve of the code is 100 - 98 = 2, and a failure takes of it for
good.

**Payments.** The run has failing calls, crashes, refused and early events.

| mishap | why it is reachable | what it breaks |
|---|---|---|
| `stale_snapshot` | a bank debit is checked against a snapshot read before the lock (`pay.go:33`) | `NeverOvercharged` (run `payments_overcharged`, a finding) |
| `lost_answer` | Stripe charges and the request fails | `NeverOvercharged`, `UnlockedMeansBooked`, `LeftoversFollowMoney` |
| `sync_between` | the invoice is synchronised between the approval of a receipt and the transaction that books it | `RemainderPayable`: the payment is subtracted twice |

## Runs

| run | instance | question |
|---|---|---|
| `external_safety` | 1 account, 1 run at a time, 2 deliveries, 2 records, 2 attempts | one job per attempt and direction, workers own their task, loads settle before the next attempt, files are kept while loaded, hand-over only of loaded history, no segment in part in the local table, refinement of `SegmentCopy` |
| `external_progress` | 1 delivery, 1 record, 1 attempt | attempts end, accounts are handed over, the lease is released |
| `external_overlap` (violation) | 2 runs | a run beyond its lease duplicates rows |
| `external_unreachable` (violation) | 2 accounts, one unreachable | one account blocks the hand-over of all |
| `internal_safety` | 1 account, 1 run at a time, 2 deliveries, 2 records of which a segment holds 1, 2 iterations | the copy job is awaited, a task that counts as verified has its rows in the temporary table and one that counts as copied in the unified one, one copy job per iteration however often it is cut short and retried, refinement of `SegmentCopy` |
| `internal_progress` | 1 delivery, 1 record, 2 iterations | manager and tasks come to rest |
| `internal_copy_abandoned` (violation) | 1 run, 2 iterations, one mishap | recovery repeats a copy that is done |
| `lifecycle` | 2 calls, 1 run of each manager, 2 job names, 1 death | the two documents go together, a removed account leaves nothing, the customer is told in order, rows of a live account are kept, removal and onboarding end |
| `lifecycle_removal_undone` (violation) | 1 call, 1 run of each manager, nothing fails | a removal is undone by a manager that has listed the account before |
| `accounts` | 3 customers, 3 calls, 2 tasks, 2 accounts a project, 1 failure | refinement of `AccountPool`, what is attached has been given, projects follow each other, the quota is kept, a low pool is being refilled, success is told only to a customer who has an account or another call of whom is under way or has failed |
| `payments_safety` | 2 payers, cards and debits, 2 deliveries of each event | the lock excludes, no overcharge, one receipt per payment, an unlocked invoice shows every payment, drafts follow the money, the rest can be paid, a handled event is booked |
| `payments_overcharged` (violation) | 2 bank debits, `stale_snapshot` | the customer is charged twice |

**Bounds.**

- `MaxRecord` rows and `MaxIteration` attempts or iterations are bounds in the guards
  of RecordsArrive, UpdatePending and Catch. Two attempts are what a retry needs;
  every retry starts from the state the last one left, so that a third repeats the
  second (1 delivery, 2 records, 3 iterations, and 2 deliveries, 1 record, 3
  iterations of the internal pipeline were checked once and hold, as does an
  iteration with two accounts that share a copy job). Two deliveries suffice for a
  duplicate. One run at a time means that no run outlives its lease or TTL; overlap
  is a question of its own: of the internal manager it is answered by the theorem
  `OneRunOneCopy`, for any number of runs. (Two overlapping runs were checked once besides:
  one iteration with all failures, 328,755 states, and two iterations whose calls succeed,
  3,982,155 states, both with `OneCopyJobPerIteration` and `OneRunPerIteration`; they are too large
  to run each time.) With two records and an interval of one the internal
  pipeline copies two segments.
- `Lifecycle`: two calls are two lives of the account; `MaxDeaths` bounds the runs that
  end early (2 was checked once and holds), and does not bound anything that must
  happen. Two names of jobs suffice: one known to the document, one to be inserted.
- `ServiceAccounts`: two accounts a project, two a task and three customers make
  projects change and the pool run dry; one failure (`MaxFailures`) leaves one step of
  any kind unmade. `MaxProjects` is never reached (`EnoughProjects` was checked).
  FreeThreshold = 1 with two customers was checked once and holds.
- `Payments`: two payers race; a third adds no actor that the second is not (three with
  one delivery each were explored to 2.8 million states without an error). Debit 3 with partial amounts
  of 1 and a minimal remainder of 2 has every case of the amount checks.

`CHECK_DEADLOCK FALSE` stands where the modelled work may be over: payments that have
ended, calls that have been answered.

**Fairness.** `Progress` (both pipelines) is weak fairness of the invocations (a
scheduler invokes the managers every few minutes, and a call returns), of the clock
and of BigQuery ending jobs. No worker is assumed to do anything and no job to succeed.
`CallsSucceed` (external) is strong fairness of the manager's own transactions:
a call that is made again and again succeeds once. `RunsSurvive` (internal) says
that from some time on no run is cut short: recovery must lead to rest once
failures stop; calls that a run survives may go on failing for ever. (It speaks of
steps, and where `RunFails` leaves the state that an ordinary end of the run leaves
too, it allows the step.) `RecoveryHasTime` is strong fairness of one read:
recovery has five minutes, and they are not over every time before it has read the
list of notified tasks. Without it a recovery that always runs out of time leaves
the manager in `8_notified` for ever. `Fairness` of `Lifecycle` is weak fairness of the
calls, the managers and the jobs: a death is bounded, a user is never obliged to
act. Payments and service accounts have no liveness property: nobody repeats what
has failed there (a lock that its holder has lost stays, a lost request for more
accounts is not made again), so the safety properties say what a failure may leave.

## Findings

1. `external_overlap`: the external lease lasts 10 minutes, a run up to 85, and the
   precalculate transaction writes a snapshot back without a guard
   (`external_manager.go:420`): rows arrive twice.
2. `external_unreachable`: a return before `defer tasks.Done()`
   (`external_manager.go:254`) leaves the manager waiting for ever.
3. `internal_copy_abandoned`: recovery from `5_tasks_done` never looks at the copy
   job (`internal_manager.go:442`): rows are in the unified table twice.
4. `payments_overcharged`: a bank debit is compared with a snapshot from before the
   lock and charged before it is compared with the document: the customer is
   charged twice.
5. `lifecycle_removal_undone`: the transaction that activates an account tests the stage
   that was listed, not the one it reads (`internal_manager.go:654`,
   `external_manager.go:134`): an account that is removed in between is active again.

Each is quoted against a statement of the code, its comments or the validator in
`PROJECT.json`. Four more were met and have no run of their own:

- the interrupted recovery (`recovery_abandoned`) and the half-created account
  (`onboard_fails`), both in the tables above;
- the repeated reservation that gives an account to a second customer
  (`dal/onboarding.go:114-144`), action `PassOn`;
- `InitOnboarding` creates the customer's document first and answers success as soon as it
  exists (`onboarding.go:38-41`), so that a customer whose first call has found the pool
  empty, or has failed, has no account and is told otherwise by the next call. This is the
  exception that `SuccessMeansAttached` makes: without it TLC finds two calls of
  one customer that violate it.

## Proofs

Checked by TLAPS for any accounts, calls, deliveries, jobs, amounts and bounds, and,
unless a theorem says otherwise, any number of overlapping runs and every mishap. The
assumptions are those on the constants (bounds are naturals, there is an account, names
are not members of what they are to be told from) and the hypotheses that a theorem
states. Every invariant and every action property that a passing run checks is a
theorem; the strengthened invariants hold in the instances of the runs as well (the few
quantifiers without a bound restricted to small sets). `TypeCorrect` of the five
detailed modules (`Spec => []TypeOK`) is the base of all.

| theorems | hypotheses | inductive invariant |
|---|---|---|
| `ExternalPipelineProofs!LeaseKeepsRunsApart` | `RunsEndInTime` | `LeaseHeld` |
| `ExternalPipelineProofs`: `JobsAreInsertedOnce`, `LiveWorkersOwnTheirTask`, `LoadsEndWithTheirAttempt`, `FilesOutliveTheirLoad`, `HistoryIsLoaded`, `RowsAreLoadedOnce`, `PipelineCopiesSegments`, `RowsArriveInOrder`, `LocalTableIsPrefix`, `LocalGrowsAtItsEnd` | `RunsInTurn` | `AccountsInv` |
| `InternalPipelineProofs!OneRunOneCopy` | none | `IterationInv` |
| `InternalRunsProofs!RunsInTurnAreOne` | `RunsInTurn` | `EndedRuns` |
| `InternalRunsProofs!VerifiedAreCopied` | `RunsInTurn`, no `recovery_abandoned` | `CopyInv` |
| `InternalRunsProofs!CopyIsAwaited` | `RunsInTurn`, no `copy_abandoned`, `copy_stuck`, `copy_unanswered`, `worker_outlives` | `AwaitInv` |
| `InternalRunsProofs`: `RowsAreCopiedOnce`, `ManagerCopiesSegments`, `RowsArriveInOrder`, `UnifiedTableIsPrefix`, `UnifiedGrowsAtItsEnd` | `RunsInTurn`, no mishap | `ExactInv` |
| `SegmentCopyProofs`: `CopiesInOrder`, `CopiesWholeSegments`, `GrowsAtItsEnd` | none | `SegmentInv` |
| `LifecycleProofs!DocumentsGoTogether` | one run of each manager, no `onboard_slow` (until a removal is undone) | `DocumentInv` |
| `LifecycleProofs`: `NothingIsLeft`, `RowsOfTheLivingStay` | the same, no `overtakes` | `DeletionInv` |
| `LifecycleProofs!HistoryIsInOrder` | the same, no `onboard_twice`, `activate_again` | `ToldInv` |
| `ServiceAccountsProofs`: `AttachedWasGiven`, `ImplementsPool` | none | `PoolInv` |
| `ServiceAccountsProofs!AccountsAreGivenOnce` | none | `PoolInv`, `GivenOnce` |
| `ServiceAccountsProofs!SuccessIsOwed` | none | `PoolInv`, `Owed` |
| `ServiceAccountsProofs!RefillIsOnItsWay` | none | `Begun`, `Refilling` |
| `ServiceAccountsProofs!ProjectsAreReady` | no `project_fails` | `Ahead`, `Replaced` |
| `ServiceAccountsProofs!QuotaIsKept` | finitely many tasks, `Max - 1` + tasks + failures <= `Quota` | `Crowd` |
| `PaymentsProofs!LockIsExclusive` | none | `LockOwned` |
| `PaymentsProofs`: `BookedOnce`, `ReturnedMeansBooked` | none | `IntentInv` |
| `PaymentsProofs`: `UnlockedShowsPayments`, `FailuresFollowMoney` | no `lost_answer` | and `MoneyStage` |
| `LedgerProofs!TotalIsNeverExceeded` | finitely many payers, no `lost_answer`, `stale_snapshot` | and `Ledger` |
| `LedgerProofs!WhatIsLeftIsPayable` | finitely many payers, no `sync_between` | `Remainder` |

A mishap is excluded only where the tables above say that it breaks the property, but for
the premises shared by theorems that build on one another.

`RunsInTurn` is a statement about states: of any number of runs of a manager at most one is
under way. The theorems have the form `Spec /\ []RunsInTurn => ...`, so that they are about
every behaviour in which no two runs meet, whoever begins next and however the last one
ended. For the external manager the lease gives it: `LeaseKeepsRunsApart` derives it from
`RunsEndInTime`, that no lease expires under a run that is still under way (the lease
lasts 10 minutes, a run up to 85); `external_overlap` shows that `NoRowTwice` fails without
it. Each of the other invariants of `external_safety`, but for `TypeOK`, fails in an instance
with two runs, too; of
`OnboardedHistoryLoaded` that takes two attempts and two rows, and a behaviour of 73 steps: a
run writes the id of the first export back (`SavePrecalculatedJob`), takes that one for
the export that is running, the load begins before it has ended, and loads the part of its
files that it leaves when it fails.

For the internal manager an iteration belongs to one run whatever happens
(`OneRunOneCopy`), but two invocations may be in recovery at once, or one of them while
an iteration has begun, and it stays a hypothesis. A run that dies is still followed by
others, and deliveries overlap with everything.

**External pipeline.** `AccountsInv` speaks of each account apart, as a step concerns one:
the statuses of its two jobs in each state (`Shape`); an attempt has at most one job of
each kind, of its segment and folder, and the document names it once it says that it
exists (`Attempt`); a delivery whose context is not over is the only one and is what the
document waits for (`Owned`), which is why its unguarded transactions overwrite nobody;
nothing else writes to the folder of an attempt, and its files are the segment when it is
loaded (`Folders`); a load that runs is of the current attempt (`Loads`); a row of the
segment is there only when that load is done (`Counted`); the first segment is there
before the hand-over (`Histories`); and what a goroutine has read is still so when it
writes (`Looked`) - the conjunct that overlapping runs break.

**Internal pipeline.** `IterationInv`: that a new copy job is the first of its iteration
needs that no run that has yet to copy belongs to an iteration with a copy job, and that
a catch starts a fresh iteration needs that no run and no job is ahead of the manager's
document. `TaskInv` adds what tasks may be in at each step of a run, and that an account
is attempted once in an iteration, whatever is delivered late; it and what follows are
shown of one invocation that is repeated (`SingleRun`). `CopyInv` says of a verified
task whose rows are missing that somebody is still after it (`Pursued`) - this is what
an abandoned recovery breaks; `AwaitInv` that a running copy has its run, its table and
its verified tasks; `ExactInv` that rows are missing until the job of their iteration
ends. `InternalRunsProofs` then maps any number of runs to a single one
(`RunsInTurnAreOne`): the one that is under way, or an idle one. A run that has ended is
as before it began (`EndedRuns`), so that each step of a run is one of the single run,
and each theorem about that one is a theorem about all.

**Refinement.** Both pipelines implement `SegmentCopy` step by step, from these
invariants. `RowsArriveInOrder` of either puts the refinement and `CopiesInOrder`
together: the target table has every row before the current segment exactly once, a row
of it at most once, and none after it. `LocalTableIsPrefix` and `UnifiedTableIsPrefix` say
that whoever reads a table meets no segment in part and no gap, and `LocalGrowsAtItsEnd` and
`UnifiedGrowsAtItsEnd` that rows are added behind the newest one only and none is taken
away - what the internal pipeline relies on when it takes the newest row of the local
table for the end of its segment, and what its model assumes of that table.
In `SegmentInv` a segment ends at a row that was
there; otherwise a row between the end of a segment and the newest one could be in
neither.

**Lifecycle.** Each invariant has the form `undone \/ ...`: a removal that has been undone stays
so (`UndoneStays`), and until then no manager has set to active what was
being removed. `RowsOfTheLivingStay` is about the behaviours in which it never happens
(`Spec /\ []~undone`). `DocumentInv` says what a call that is creating the account may rely on: the
documents it has found absent are not being removed, and the pipeline has not ended the
onboarding before the call has. `DeletionInv`: the rows go with the job that the document
names, which is the last one in the queue and after which nothing is copied, so that it
is done when the document goes; and there is no queue under a live account.

**Service accounts.** An account that exists is being added by one task, or free, or
given, and then to one customer unless it was passed on (`InHand`, `GivenOnce`), from
which follows of the pool's states and steps what `AccountsAreGivenOnce` says. `Owed`:
of the calls for a customer who has a document and no account one is under way or has
failed. Of the calls for one customer at most one is past the creation of the document,
so that when it reserves nobody has (`OneCall`). `Refilling` says that when few accounts
are left a refill is queued, or a call has yet to ask, or a task has yet to add enough;
and `Begun` that the first fill comes before all calls. `Crowd` bounds what a project
holds by what is counted, what tasks are about to count and what failures have lost.

**Payments.** The lock names no owner; `LockOwned` says that whoever is at a step that
needs it has it. `IntentInv` says of every delivery what it may still book, and that of
the deliveries for one payment one has approved its receipt. `Ledger` says that the open
balance is the total less what Priority has booked, that everything charged and not
booked is seen by whoever checks an amount, and so that there is room for what is about
to be charged. Its sums range over sets of payers of any size: the first part of
`LedgerProofs` proves what the fold of the community modules gives (a sum is that of any
one element and the rest), by taking a smallest subset for which it fails, since the
induction theorems of the library cannot be instantiated by the provers.

Only model-checked: liveness, which is out of the prover's reach (`AttemptEnds`,
`OnboardingMarked`, `LeaseReleased`, `ManagerRests`, `TasksRest`, `OffboardingEnds`,
`OnboardingEnds`); that the hypotheses are needed, for which TLC has the counterexamples;
and instances with overlapping runs other than for the theorems that allow them. No
module that is proved about has a RECURSIVE operator.

## Not modelled

- Of the modelled parts: `RemoveAll` (tears all metadata down, one step after the
  other), the master billing account and dummy accounts, the grant on the bucket, billing
  events (one is created before the state that says so, `internal_manager.go:944`, and
  may be created again), the customer deleting rows of his own table
  (`external_manager.go:848`), the sizes of segments, the amounts of fees, the selection
  of customers by the worker of automatic payments, and `InitEnvironment` called
  while another call of it is under way.
- The pool of the SaaS console keeps one document per customer; its projects are the
  same code as those of `ServiceAccounts` but for imports.
- The alternative manager and the validator are sequential and share no state with a
  concurrent actor.
- The rest of the repository - analytics, invoicing, contracts, connectors, CRUD - is
  sequential code over data, where the order of events decides nothing; a model
  of it would restate it. That is most of its lines, so that the models cover a small
  share of the code.

## Plan

Done: both pipelines with their abstract specification, the life of an account, service
accounts with theirs, payments; every safety property and every refinement of the passing
runs as a theorem. Next, in this order:

1. What overlapping runs of the external manager keep: none of the invariants holds of them as
   it stands; weaker ones may, such as that a job is of the segment its attempt had.
2. One composition of both pipelines, with the local table as the target of one and the
   source of the other, and rows from the customer's table to the unified one exactly
   once as its theorem.
3. Other subsystems with state machines of their own: payer status of Flexsave resold,
   the BigQuery Lens back-fill, marketplace approvals, Microsoft licence orders.

To run a check: `tlc -config MCInternalPipeline.cfg MCInternalPipeline.tla`; to
check a proof: `tlapm InternalPipelineProofs.tla`.
