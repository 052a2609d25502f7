# A TLA+ model of the roomai backend

The backend sells generated room designs. Clients of a mobile app log in with a device id,
hold a credit balance, submit paid image jobs that a worker runs against image providers, and
buy credits through RevenueCat. This project models the parts in which requests, workers and
the database meet: what moves credits, what creates and removes accounts, what runs jobs, and
what owns files, and beside them the two programs that run without the service, the seed script
of the discover catalog and the generator of its images. TLC checks the models on small instances;
the theorems of eight modules, one for each component, are proved with TLAPS for every value of
their constants.

Paths below are relative to the repository root.

## 1. The system

    client ──HTTP──> API processes (FastAPI, gunicorn) ──> PostgreSQL  (READ COMMITTED)
                        │            │                        ^
                        │            └──> R2 objects          │
                        └──enqueue──> Redis ──> ARQ worker ───┘──> providers (OpenAI, fal, ...)
    RevenueCat ──webhook──> API
    API and worker share one upload directory (a bind mount of docker-compose.yml)

| Component | State it keeps | Operations | Meets |
|---|---|---|---|
| credit service `app/services/platform/credit_service.py` | `platform_users.credit_balance`, `platform_credit_ledger` | `consume_credit`, `add_credits`, both under `_lock_user` | called by every component that charges, refunds or grants; the caller commits |
| credits endpoints `endpoints/credits.py` | – | balance, internal grant with an idempotency key, self top-up | credit service |
| design endpoints `endpoints/design.py` | `design_requests` rows | submit, list, get, soft-delete, upload an input | credit service, ARQ client, R2 |
| ARQ client and worker settings `app/workers/client.py`, `worker.py` | jobs in Redis | enqueue, run, cancel at `job_timeout`, redeliver | the endpoints and the tasks |
| worker tasks `app/workers/tasks.py` | rows of requests, temporary input files | `process_design_request_task`, `process_object_replace_request_task`, `cleanup_user_data_task` | credit service, providers, R2 |
| object replace `app/services/object_replace/` | `design_requests` rows (queued path only) | presigned upload, synchronous replace, queued replace; segmentation, mask, fill | credit service, ARQ client, fal |
| design generation `app/services/design_generation/`, `higgsfield/client.py` | a Higgsfield process | try the fal models in turn, then Higgsfield | worker tasks |
| device accounts `endpoints/auth.py` | `platform_users`, `device_credit_grants` | device login, refresh, profile, account deletion | ledger (signup grant, forfeit), RevenueCat, cleanup job |
| RevenueCat webhook `endpoints/revenuecat.py`, `revenuecat_service.py` | `subscription_purchases` | record a purchase, a renewal or an end | credit service |
| restore and status `endpoints/subscriptions.py` | the same rows | restore a purchase, report the current one | RevenueCat, credit service |
| user data cleanup and input files | R2 objects under two prefixes, files in the upload directory | upload, download for a job, remove | endpoints and worker |
| discover catalog `endpoints/discover.py`, `seed.py` | two tables, the clients' day-old copies | replace all rows, read the catalog, submit one of its cards | design endpoints |
| image manifest generator `generate_seedream_manifest.py` | output files, a log, an exit code | run a batch, repeat it with or without `--resume` | nothing at run time |
| core, migrations, deployment | settings, schema, containers | – | everything |

`PROJECT.json` lists the same components with the modules that model them and what is left out.

What is hard in them:

* **Interleaving.** Every API process and every job is concurrent; nothing but PostgreSQL's
  row locks, unique indexes and foreign keys orders them. Each handler is a sequence of awaits
  with reads early and writes late.
* **Two stores.** A job is in Redis before its row is committed in PostgreSQL; an account is
  deleted in PostgreSQL before its cleanup is in Redis; R2 and the disk know of neither.
* **Delivery.** ARQ redelivers a job whose worker died and does not rerun one it cancelled at
  `job_timeout`. RevenueCat delivers an event until it is answered with 200.
* **Failure in the middle.** A refund whose exception is swallowed, a commit that never comes,
  a cleanup that passes over errors.

What makes each component correct:

* *Credits*: ledger and balance explain each other, no update is lost, nothing is overdrawn, a
  keyed grant is posted once and stays.
* *Requests*: credits are conserved over submissions, fallback charges and refunds; a failed
  design is refunded and only once; an image costs what its model costs; every request settles.
* *Accounts*: one live account and one signup grant per device, for all interleavings of logins
  and deletions; an account goes away only when its owner asks.
* *Purchases*: credits and records come together, each event is recorded in the end, at most one
  record is active, and what is active is reported.
* *Files*: cleanup removes what the user had; a job finds its input; no file and no process is
  left behind that nobody can account for.
* *Replacements*: the fill model gets a mask of the picture's size that contains the tap, and a
  paid request fails only for a reason.
* *Catalog*: the tables hold one version of the seed data; a design is made on the photo its user
  tapped.
* *Batches*: a file that is there is whole, the log is true of the disk, exit code 0 means done,
  and a batch that is repeated is completed.

## 2. The modules

| Module | Models | Code |
|---|---|---|
| `CreditAccount` | abstract: an account is a balance and a ledger; a posting is one step | what `credit_service.py` promises |
| `CreditLedger` | the credit service at the grain of its awaits, with row locks, rollbacks and dead processes | `credit_service.py`, `credits.py`, the parts of `auth.py` that open and close an account |
| `CreditLedgerProofs` | theorems about `CreditLedger`, refinement of `CreditAccount` included | |
| `PaidRequests` | abstract: a request is paid, delivered, failed and refunded in single steps | what submission and worker promise the payer |
| `DesignRequests` | submissions, the queue, the worker's two request tasks, the synchronous replacement's charge | `design.py`, `object_replace/router.py`, `tasks.py`, `client.py`, `worker.py` |
| `DesignRequestsProofs` | theorems about `DesignRequests`, refinement of `PaidRequests` included | |
| `PurchaseBook` | abstract: a purchase takes effect in one step | what webhook and restore promise the buyer |
| `Subscriptions` | webhook and restore as concurrent transactions, with the locks their statements take | `revenuecat.py`, `revenuecat_service.py`, `subscriptions.py` |
| `SubscriptionsProofs` | theorems about `Subscriptions`, refinement of `PurchaseBook` included | |
| `DeviceAccounts` | logins and deletions of one device | `auth.py` |
| `DeviceAccountsProofs` | theorems about `DeviceAccounts` | |
| `UserFiles` | objects, temporary files, the providers that read them, and the cleanup job | `tasks.py`, `design.py`, `design_generation/`, `higgsfield/client.py`, `object_replace/storage.py` |
| `UserFilesProofs` | theorems about `UserFiles` | |
| `ObjectReplace` | one replacement: checks, default sizes, masks, failures of the pipeline | `object_replace/router.py`, `schemas.py`, `fal_service.py` |
| `ObjectReplaceProofs` | theorems about `ObjectReplace` | |
| `CatalogRegister` | abstract: the catalog is one register, replaced and read as a whole | what `seed.py` and `discover.py` promise |
| `DiscoverCatalog` | concurrent runs of the seed script, the catalog query, a submitted card | `seed.py`, `discover_catalog_seed_data.py`, `discover.py`, `design.py` |
| `DiscoverCatalogProofs` | theorems about `DiscoverCatalog`, refinement of `CatalogRegister` included | |
| `ManifestBatch` | runs of the image generator over one output directory | `generate_seedream_manifest.py` |
| `ManifestBatchProofs` | theorems about `ManifestBatch` | |
| `MC*` | the instances TLC runs | |

Definitions named `Operator_Variant` are faulty variants of `Operator` (a dropped lock, a missing
rollback, a guard on the wrong value). No specification uses them; `PROJECT.json` names, for each
property of a passing run, the variant that breaks it, so that no property is vacuous.

They compose by abstraction. `CreditLedger` shows that the locking code implements the atomic
account (`AccountSpec`), so `DesignRequests` and `Subscriptions` may take a posting under the
user's lock as one step. They keep as separate steps what that result does not cover: a
transaction that takes several locks, and may therefore deadlock, or that reads before it locks.
In the same way they are shown to implement atomic specifications of their own, `PaidRequests`
and `PurchaseBook`, which are what a component above them could be modelled with.

### CreditLedger

`status`, `balance` and `ledger` are the committed rows. `holder` is the `FOR UPDATE` lock of
each user's row. A call (`pc`) is a request or a worker's step that moves credits:

| Action | Code |
|---|---|
| `Begin`, with `Admissible` | the checks before the first await |
| `LockUser` | `_lock_user`: waits for the lock, then loads the row as committed at that moment; no row is a refusal |
| `FindKey` | the lookup of the idempotency key; a hit returns the first call's event |
| `Apply` | the balance is checked; new balance and ledger event are flushed, invisible to others |
| `Commit` | the caller commits and answers |
| `Refuse` | the caller catches the error and rolls back |
| `Abandon` | a later step of the caller fails, the client leaves or the process dies, at any point |
| `CreateUser`, `DeleteUser` | first login with its signup grant; `DELETE /auth/me` |

The invariants are about the gap between read and commit: `DraftsAreCurrent` (what a call flushed
still fits the committed row; proved, not run), `Reconciled` (replaying the ledger gives the balance, event by
event), `KeysUnique`, `AcknowledgedGrantsStay`.

### DesignRequests

One action per transaction of the worker and per step of a submission. A submission inserts its
row, which locks the user's row `FOR KEY SHARE` through the foreign key, and then asks for
`FOR UPDATE`: two submissions of one user block each other and the deadlock detector aborts one
(`SubmitDeadlocked`). It enqueues *before* it commits (`SubmitEnqueue`, `SubmitCommit`), so a
worker can look for a row that is not there yet (`job = "missing"`), which leaves a charged row
queued for ever.

arq takes the job and counts the try (`PickJob`); the task's first transaction marks the row
processing (`WorkerStart`); the provider is called, and a second transaction completes the row
with its fallback charge, or a handler refunds it and marks it failed. `Faults` chooses what may go
wrong: `crash` (redelivered until `MaxTries`), `timeout` (arq cancels the task with
`CancelledError`, which neither `except Exception` handler sees, and does not run it again),
`database` (a transaction of the worker fails: the second one lands in the handler; the first one,
which is outside the `try` (`tasks.py:168`, `346`), and the handler's own escape from the task, and
arq does not run it again). Crash and timeout meet the job at every place, also before its first
transaction. Runs of one job are sequential, as arq's in-progress key makes them.

`UnsettledExplained` lists the ways in which a charged request can stay queued or processing with
nobody left to work on it: looked for before its commit, a database error outside the `try` or in
the handler, a cancellation, one death too many. There is no other.

`DirectReplace` is the charge of `POST /object-replace`, which is committed before fal is called,
under an id no row has; it is taken off `granted`.

`CreditsAccountedFor` is the conservation law: whatever interleaves, dies or is delivered twice,
balance = granted − what the stored requests cost. `FailuresRefundedOnce` has both directions of a
refund: never twice, never of what was not charged, and never missing on a failed design.
`FirstRunCostsItsModel` and `SettledStays` are about jobs that were started once, with every other
fault still possible; a second run breaks both, which `design_redelivery` shows.

`RequestSpec` is the refinement of `PaidRequests`. There a request has a `state` (new, open,
delivered, failed, gone), a `cost`, and an account that is never overdrawn; submitting takes 25
credits and opens it, delivering takes the rest of the image's price, failing gives a design's 25
back the first time. The mapping takes `queued` and `processing` for open, the sum of the ledger
events that refer to the request for its cost, and a ledger with a refund for `refunded`. A commit
of a submission is `Submit`, the worker's second transaction `Deliver` or `Fail`, `WorkerStart` on a
settled row is `Reopen`, which exists only with crashes, and every other step stutters: locks,
deadlocks, rollbacks, the queue, retries and timeouts are invisible in it. What it leaves open is
in the violation runs: that an open request is settled at all, and at one price.

### Subscriptions

A handler runs: look the event id up, post credits (waits for and takes the user's lock), clear
active records in two steps (the UPDATE's snapshot, then the locks on the rows it found), insert
(waits on the unique index, then on the user's row for the foreign key), commit. A restore begins
its transaction, and with it the value of `now()`, before it waits for RevenueCat; `older` is the
order of committed records and open transactions by their beginnings, which is what `created_at`
holds.

`PurchaseSpec` is the refinement of `PurchaseBook`, in which one step records a purchase, posts its
credits and ends the purchases before it, and acknowledges its event or leaves that to a later
step. A commit is such a step; its answer of 200 can be lost with the process or the connection
(`Answer`), and then RevenueCat delivers an event that is on record, which is acknowledged and
changes nothing else (`idempotent_skip`). Account deletion closes the book's account, and every
statement before a commit, every rollback and every deadlock stutters. The
book lets a purchase miss one before it that was recorded while it ran, since only the user's lock
prevents that and unpriced events do not take it; with every product configured, no purchase that is
worth credits misses one (`Exclusive`).

Store ids, environment, raw payload, signature check and the expiry of entitlements are left out.

### DeviceAccounts

Rows of different devices are independent, so the module is about one device. `row` is its
committed row, `granted` its grant row, which survives deletion. `holder` is the transaction with
an uncommitted update or delete of the row, `inserter` the one whose uncommitted insert holds the
unique index. A login goes load → (purge a soft-deleted row) → insert → (on IntegrityError: roll
back, load the winner) → claim the grant → commit, or load → touch → commit, and then refreshes
the row. A deletion looks the user up, forfeits the balance, deletes and commits; two deletions
share the row's lock after their forfeit events and one is a deadlock victim.

The code no longer soft-deletes, so only a row older than the modelled requests (`Legacy`) can be
soft-deleted. The branch of `auth.py:177-183` that handles a soft-deleted row after a conflict is
therefore never taken; the operator that reads the row models it all the same. Migration 0012
gave every row that existed a grant row, so a legacy row starts granted; `Init` also has devices
with neither row, and devices whose account is gone and whose grant is not.

### UserFiles

`objects` are the keys in R2, `files` the user's temporary files, named after their key, so two
jobs on one input share a file and the first design to end unlinks it. A replacement never removes
its input. A download cancelled by `job_timeout` goes on in its thread (`stray`) and leaves a file.
`_cleanup_temp_file` logs an `OSError` of the unlink and returns, so a design that ended in good
order can leave its file as well (`UnlinkFails`, `kept`).

A design tries the fal models in turn (`TryFails`, `TrySucceeds`), each of which uploads the file
again, and then spawns the Higgsfield program with the path of the file (`Spawn`). Higgsfield's own
timeout kills the process (`Kill`); arq's cancellation does not, because only `TimeoutError` is
caught, so the process can outlive the task (`orphans`). arq redelivers a job or a cleanup whose
worker died at most `MaxTries` times and then drops it (`dropped`, `lost`).

Cleanup works through two prefixes: list, delete one by one, go on after an error (`gaps`), then
remove the directory. An upload through the API needs a token, not an account; one through a
presigned URL (`CreateUpload`, then any number of `Put`) needs neither. Both may come after the
deletion: `doomed` is what the user had when the account was deleted and has not been put again.

Left out: the local mode without R2, listings of several pages, expiry of presigned URLs, partial
files of boto3.

### ObjectReplace

One request from its checks to its picture. `kind` tells the two endpoints apart: the direct one
works with the sizes the client declared, or none; the queued one takes 1024, or the tap's
coordinate plus one if that is larger, for a side that was not declared (`Resolved`). `picture` is
the real size, which nobody reads. `Answers` are the segmentation model's masks: of the picture's
size or of another, told or not, with a score or without; `Accepted` is what the code takes, and
it looks only at SAM 3.1. A queued pipeline paints a circle (`Circle`, `Painted`) when it gets no
mask; a direct one fails. Pixels are compared by their coordinates; nothing is drawn.

Two consequences that are not disagreements: a queued request that declares no size has every SAM
mask rejected that tells a size other than the default, so it falls back to the circle; and a
picture of up to about 90 pixels a side is painted over completely, because the radius is at least
64 (the last part of `MaskAroundTap` therefore starts at 128).

### DiscoverCatalog

A run of `seed.py` is one transaction of four statements. Tables are sets of *batches*: the rows
one run inserted come and go together. A DELETE takes its snapshot (`SeeCards`), waits for whoever
deletes one of those rows and passes over what is gone; the foreign key refuses to delete an asset
that still has a card; the INSERTs wait for and fail on rows with their keys. `WaitsFor` is the
wait-for graph of the transactions, `Deadlocked` a cycle's victims. A phone keeps the catalog it
read and submits a card of it by id; the backend looks the id up in the table of that moment.

`RegisterSpec` is the refinement: with `cards` for its version and the runs that are done for what
was published, the transactions implement `CatalogRegister`, in which a run replaces the catalog in
one step and a phone reads one version. What makes it true is the asset all versions share: its
key lets only one run past its first INSERT, and only after everything older is deleted.

### ManifestBatch

A run goes over the rows of the CSV one after the other; an attempt calls the CLI, downloads, writes
`<path>.tmp` and moves it over the output file. `Stop` is Ctrl-C, a kill or an error of the log,
at any point; files outlive it, the log starts from nothing with every run. `--limit` and `--resume`
are chosen anew for each run, as in the documented smoke test that is followed by a full run. Rows
with the same asset id and ratio have one path and so one image between them, the later row's, or
with `--resume` the first one's; `BatchCompletes` promises that one of them has it, and its own
image to every row that has its path for itself. A ratio the model does not support ends the run
with 2, and every later run at the same row: rows behind it never get an image, which is why
`BatchCompletes` promises the rows in front of it only.

## 3. The runs

| Run | Instance | States | Checks |
|---|---|---|---|
| `credit_ledger` | 1 user, 2 calls, 1 key, 6 kinds of request, ≤ 4 events | 55,448 | `Reconciled`, `KeysUnique`, `AcknowledgedGrantsStay`, `AccountSpec`, `EveryCallEnds`; deadlock is checked |
| `design_requests` | 1 user, 1 design, 1 replacement, all faults, 2 tries | 302,447 | conservation, refunds, prices, settled jobs, why a request stays unsettled; the atomic paid request (`RequestSpec`); every job and submission ends |
| `design_timeout` | 1 design, `timeout` | – | **violated**: `StartedDesignSettled` |
| `design_redelivery` | 1 design, `crash` | – | **violated**: `ImageCostsItsModel` |
| `subscriptions` | 3 events (purchase, renewal, end), 2 webhooks, 1 restore, 1 fault, symmetric | 312,996 | `GrantsMatchRecords`, `AcknowledgedIsRecorded`, `AtMostOneActive`, the atomic purchase (`PurchaseSpec`) |
| `subscriptions_live` | the same events, 2 webhooks, 1 fault | 28,174 | `EventsRecorded`, `RequestsEnd` |
| `subscription_status` | 1 event, 1 webhook, 1 restore | – | **violated**: `ActiveIsReported` |
| `device_accounts` | 2 logins, 2 deletions, 1 legacy row, 1 fault | 25,449 | grants, one account, who closes it, every request ends |
| `user_files` | 2 uploads, one of them presigned, 2 designs on one photo, 1 replacement, 1 fal model and Higgsfield, 2 faults of any kind, 2 tries | 1,153,112 | what cleanup removes, what jobs leave behind, when an input is lost |
| `manifest_batch` | 4 rows, two with one path, one with an unsupported ratio, any `--limit`, 2 attempts, 3 faults | 25,992 | files, log and exit code; the batch is completed; deadlock is checked |
| `discover_catalog` | 3 runs of 2 versions, 1 phone, 1 dead run | 5,575 | one version in the tables, a register for its readers, the photo that was shown, every run ends |
| `object_replace` | 2 pictures (40×30, 1600×1200), declared sides none, 0, 30, 40, 1200, 1600 and 8193, taps at −1, 0, 29, 1024, 1199 | 81,480 | the mask, what a failure costs |

Why these bounds are enough for the cases of interest:

* *One user.* Requests of different users share no row, lock or key. `CreditLedgerProofs` removes
  the bound for the ledger.
* *Two calls, two handlers, two logins.* Lost updates, lock-order deadlocks and races for a unique
  index are between two transactions. In `subscriptions` a restore runs beside two webhooks. A design and
  a replacement of one user (`design_requests`) meet in every lock and differ in refund and price;
  `DesignRequestsProofs` removes that bound for all its invariants and the refinement. Three
  runs of `seed.py` are one more than a deadlock needs and let a third one find what two left.
* *Amounts.* 25, 50 and 75 are the base cost, the difference of the fallback model, and its cost.
  `FirstGrant = 50` pays for both requests but not for the fallback; `MaxGranted = 100` lets a
  top-up make it affordable in mid-run.
* *One fault* in the modules that count faults (`MaxFaults`), but two in `UserFiles`, so that a worker
  can die in both runs of a job or of the cleanup, and three in `ManifestBatch`, which is enough to
  fail every attempt of a row and stop the run as well; `DesignRequests` has no such bound,
  its crashes are bounded by `MaxTries` alone. `MaxTries = 2` is the first value at which a job
  runs again; arq's default of 5 adds repetitions.
* *Symmetry.* `subscriptions` checks safety only, with symmetry of the two webhook requests and of
  the two purchases, which differ in nothing; no run with a liveness property uses symmetry.
* *One fal model and Higgsfield* in `UserFiles` is the first setting in which a job reads its input a
  second time.
* *Sizes* in `ObjectReplace` are both sides of each picture, so that a declaration can be right,
  wrong, swapped or missing on one side; values just outside the limits of the checks (0 and 8193);
  taps outside, at the edge and past the default of 1024; one picture below the smallest radius and
  one above the default. `ObjectReplaceProofs` covers all others.

The type invariants have a `TypeCorrect` theorem in each module of proofs and are in no
configuration of TLC, since the theorem covers every instance.

Deadlock checking is off where the sets of requests are finite and the model simply ends
(everything but `credit_ledger` and `manifest_batch`); there the liveness properties say that nothing ends too early.

### Fairness

* A handler or task that was entered runs on: weak fairness of its own steps. Nothing says that a
  client submits, uploads, logs in or deletes, and faults are never fair. `DeviceAccounts` is the
  exception in form: its requests are all begun by their own first step, and each ends.
* A lock that is released goes to a waiter: PostgreSQL queues lock waiters, so a transaction that
  waits for a row lock gets it although others come and go. This is the strong fairness on
  `LockUser` (`CreditLedger`) and on `LockStep` of `Subscriptions`. Where the number of
  requests is bounded weak fairness is enough, and nothing stronger is assumed.
* Workers poll the queue, and provider calls end by their own time limits: weak fairness of
  `WorkerStep`, `JobStep`, `CleanupStep`. A run of `seed.py` or of the generator goes on by itself,
  and `BatchCompletes` assumes that somebody repeats the generator's command.
* RevenueCat delivers again what was not answered with 200: strong fairness of `Deliver`. In
  reality it gives up after a handful of retries, so `EventsRecorded` holds as long as one of them
  meets a working backend.
* Deadlocks do not go on for ever: `Fairness` of `Subscriptions` says that from some time on none
  has to be broken. Two deliveries that abort each other, are both repeated, and meet in the same
  statements again, could do so without end; TLC finds that behaviour. Deliveries are repeated
  minutes apart, so it is left out. A deadlock that has happened still has to be broken by
  `DeadlockAborts`, or the requests in it would not end.

## 4. What is proved

TLC checks a small instance; these theorems hold for every number of users, calls, keys, logins
and deletions.

**`CreditLedgerProofs`** assumes what `CreditLedger` states of its constants: `Nobody` is no call,
`NoKey` no key, the signup grant is a natural number, and a consuming call carries no key. The
invariants are not inductive as they stand: that a draft is current depends on who holds the lock,
and on what the call read when it took it. The inductive invariant is

    IInv = TypeOK /\ LockInv /\ ReadInv /\ DraftInv /\ AnswerInv /\ AccountInv

`LockInv`: a call past its lock step holds the row it asked for, and nobody else holds a lock but
a refused call that has still to roll back; `ReadInv`: what a call read under the lock, balance and
absence of its key, is still so; `DraftInv`: what it flushed continues that balance and its key is
unused, or it flushed nothing because the key is posted; `AnswerInv`: an applied or replayed key is
in the ledger; `AccountInv`: the committed rows satisfy the abstract account's invariants. From it
follow

* `TypeCorrect`, `LedgerReconciled`, `KeysPostedOnce`, `GrantsDurable`, `DraftsStayCurrent`;
* `Implements`: `Spec => AccountSpec`. A commit of a draft is a posting, creation and deletion
  open and close the account, and every other step changes no account.

* `NoDeadlock`: a call waits for a row's lock only while it holds none, and holds one at most. This
  is what `EveryCallEnds` rests on besides fairness: the holder of a lock can always go on.

`KeysPostedOnce` says that the row lock alone keeps an idempotency key unique; the unique index is
never what stops the second call.

**`DeviceAccountsProofs`** assumes that the signup grant is a natural number, that logins and
deletions are different requests, and that fresh ids are fresh. The inductive invariant is

    TypeOK /\ UserInv /\ HolderInv /\ InserterInv /\ GrantInv /\ AnswerInv

`UserInv`: users that are named are real, and no login signs a soft-deleted one in; `HolderInv` and
`InserterInv` say where a transaction that holds the row or the index stands and what it has done
to the row; `GrantInv`: only the login that inserts the row can hold the device's first grant, and
credits were posted exactly with a grant; `AnswerInv` says of each answered account that it is the row or
was closed. From it follow `TypeCorrect`, `LifetimeGrant`, `GrantWithCredits`, `OneAccount` and
the action property `OwnerCloses`. `FailInv` adds why a login can be about to fail: past a lost race for the index there
is a row to load, unless somebody closed the account. This gives `RacesFailNobody`.

**`DesignRequestsProofs`** holds for any users, any finite set of requests, any faults and any
`MaxTries`. The properties relate a row, its job and what was paid, and none is inductive: whether
a completion may charge `made − 25` depends on what the submission charged, and whether that charge
is covered at the commit depends on the lock. The inductive invariant is

    TypeOK /\ LockInv /\ \A r : SubInv(r) /\ JobInv(r) /\ PaidInv(r)

`LockInv`: past its charge a submission is alone with its user's row, whose balance pays for it,
and that is why the commit, which writes a balance read earlier, cannot overdraw; `SubInv`: the row
appears with the commit and the job just before it; `JobInv`: a job works only on a row it found;
`PaidInv`: until its first run is over a request has paid what its submission charged, and a failed
design has its charge back. The lemma `Others` says once that a step of one request leaves the
part of every other alone. From it follow `TypeCorrect` (no balance is negative), `RefundedOnce`,
`FinishedSettles`, `FirstRunCost` and the action property `SettledUntilRedelivery`.

A second layer, `OwnersInv`, holds on top of it: an open submission and a stored row have a living
user, a stored row has its charge, a run at work has its row to itself, without crashes no job
starts twice, and a job that was cut off met one of the chosen faults. With it

* `CreditsConserved`: `Spec => []CreditsAccountedFor`. Each step that moves credits moves one
  user's balance and one request's cost by the same amount (`CommitSettles`, `CompleteSettles`,
  `FailureSettles`), a deletion ends the claim, and no other step touches either side (`OtherSteps`).
  That one summand's change is the sum's change (`SumChange`) is proved of `SumFunctionOnSet`, the
  community modules' fold: the CHOOSE inside it is shown to choose a sum (`TotalExists`,
  `TotalIsSum`). These are inductions over a finite set, which the library's induction theorems
  cannot be instantiated for; they are carried out as minimal counterexamples, a least number or
  a smallest subset for which the claim fails (`Least`, `Smallest`).
* `Implements`: `Spec => RequestSpec`, one lemma for each kind of step (`SubmitRefines`,
  `CompleteRefines`, `FailureRefines`, `StartRefines`, `AccountRefines`). A commit is not a step of
  the abstract request by itself: that its user lives and affords it comes from `LockInv` and
  `OwnersInv`, and that a failing design is either refunded now or was refunded by an earlier run
  from `PaidInv`.
* `CostsWithoutCrashes`: with no crash among the faults, `ImageCostsItsModel` holds. Redelivery is the
  only cause of what `design_redelivery` shows.
* `UnsettledRequests`: `Spec => []UnsettledExplained`, each of its ways only where `Faults` has it. A
  job at work has a row (`OwnersInv`), so only what ends a job without a handler leaves one open.
  `design_timeout` shows one of these ways.

**`SubscriptionsProofs`** holds for any users, products, prices, events and handlers and any number
of faults. It assumes what `Subscriptions` states of its constants, among it that handlers and
purchases are different things (`HandlersAreNoTasks`), since `older` relates both. Each property
needs to know what concurrent transactions hold back. The inductive invariant is

    Types /\ \A h : TaskInv(h) /\ PostInv(h) /\ ClearInv(h)
          /\ LockInv /\ IndexInv /\ the three properties

`LockInv`: one transaction at a time has a user's row for its posting; `IndexInv`: the unique index
lets one handler flush a record that is not there yet; `PostInv`: past its posting a handler has
new credits to commit with its record, unless the record is there or the user is gone; `ClearInv`:
at its insertion a handler has cleared every active record of its user, which holds because the
lock kept all other purchases of that user away since. From it follow `GrantsWithRecords`,
`AcknowledgedRecorded` and `OneActive`. Two more invariants rest on it: `AgeInv`, that `older` is a
total order of records and open transactions, kept when one begins, ends, or becomes a record
(`OrderExtends`, `OrderRestricts`, `OrderRenames`), and `WorksInv`, that a transaction clears
records of its own user only and records only what happened. From these

* `TypeCorrect`, and `RecordsOrdered`: a user never has two newest records;
* `PostingNeverDeadlocks`: a set of transactions that lock one another out has one that posts no
  credits. Those that post take the user's row before everything else and queue there; an end of
  subscription, which posts nothing, takes the records first and the user last;
* `Implements`: `Spec => PurchaseSpec`. `CommitRecords` needs the whole invariant: that the record is
  new is `IndexInv`, that its credits are posted with it `PostInv`, that the user lives `TaskInv`,
  that nothing of another user is cleared `WorksInv`, and that a purchase worth credits misses
  none before it `ClearInv`.

**`UserFilesProofs`** holds for any keys, jobs, models, tries and faults. The inductive invariant is

    TypeOK /\ TriesInv /\ ListInv /\ FileInv /\ ProcessInv /\ LossExplained

`FileInv`: a file belongs to a job that downloaded it and is at work, is a replacement, could not
unlink it, or was stopped; `ProcessInv`: a process has a job that waits for it or was cancelled while
it did, and where jobs stand between their models; `TriesInv`: what is in the queue was run less
than `MaxTries` times; `ListInv`: nothing is left to delete when a prefix is listed. From it follow
`TypeCorrect`, `LeftoversHaveJobs` and `LossesHaveDesigns`.

**`DiscoverCatalogProofs`** holds for any finite number of runs and any seed data in which a card's
asset exists, ids are unique within a version, and two versions share an asset. The inductive
invariant is

    Types /\ TableInv /\ RowInv /\ DeletedInv /\ KeyInv /\ UsesShownPhoto

`TableInv`: the tables hold one committed run; `RowInv`: deleted and uncommitted rows are still there
and deleted by one run; `DeletedInv`: a run behind the foreign key's check has deleted the cards of
its assets, and behind its first INSERT everything; `KeyInv`: one run at a time is behind its first
INSERT. From it follow `TypeCorrect`, `OneVersionAtATime`, `ShownPhotoUsed` and

* `Implements`: `Spec => RegisterSpec`. A commit publishes, a catalog query reads the published
  version, and every other step stutters.

**`ManifestBatchProofs`** holds for any manifest, any number of attempts and any faults. The
strengthening says what the temporary file of the current row contains at each place of an attempt
and relates the log to the rows behind the current one. From it follow `WholeFiles`, `TrueLog` and
`HonestExit`.

**`ObjectReplaceProofs`** holds for all pictures, declared sizes and taps. The strengthening carries
the result of the checks (a tap lies in what was declared) and of `Resolved` to the place where the
mask is used. From it follow `FittingMask`, `MaskOnTap` and `FailuresHaveReasons`.

**Only model-checked.** All liveness (`EveryCallEnds`, `JobsEnd`, `SubmissionsEnd`,
`EventsRecorded`, `RequestsEnd`, `AccountRequestsEnd`, `DeletedAccountErased`, `BatchCompletes`,
`RunsEnd`), because TLAPS does not reason about fairness and ENABLED. Every invariant, action property
and refinement that a passing run checks is also a theorem.

## 5. What the runs disagree with

Three runs check what the repository says of itself and find that the code does something else.
`PROJECT.json` quotes the lines.

1. **A cancelled generation keeps the credits** (`design_timeout`). `job_timeout` is 300 s, below
   the providers' own limits; `CancelledError` passes both handlers, the row stays `processing`
   and nobody refunds it.
2. **A redelivered job starts over** (`design_redelivery`) whatever the row's status is: an image
   is delivered after its refund, or its fallback is charged twice, since that charge has no
   idempotency key.
3. **An active subscription is reported as none** (`subscription_status`) after a restore during
   which the webhook of the same purchase was recorded: the newest `created_at` belongs to the
   record the restore cleared.

Three more can be read off the passing models. Webhook and restore of one purchase post credits under
different keys (`rc:<event>`, `restore:<user>:<product>`), so a user who restores after the webhook
has the period's credits twice, although `.env.example:107` grants them once per period. And
`DeletedAccountErased` has `cleanup = "lost"` as an outcome: the deletion is committed
(`auth.py:314`) before the cleanup is enqueued (`auth.py:318`), and if that fails the data stays,
the request answers with an error, and repeating it meets 404, although `auth.py:256` deletes "all
associated data". Last, `README-seedream-manifest.md:7` and `:32` promise one image for each row of
the CSV, but rows with the same asset id and ratio have one path (`generate_seedream_manifest.py:472`):
the instance of `manifest_batch` has two such rows, both can be logged as successes, the run exits
with 0, and one image is on disk. `LogMatchesDisk` and `BatchCompletes` are worded for it ("that of a
later row", "one of them"). Neither of the two manifests in the repository has such rows.

What is *not* a disagreement but worth knowing: a replacement is never refunded, neither queued nor
synchronous; the circle's pixels are computed in Python on the worker's event loop, which stops
every other job of the worker meanwhile; top-ups of the
testing endpoint have no idempotency key; an empty idempotency key skips the lookup
(`credit_service.py:102`) and meets the unique index; Redis runs with `allkeys-lru` and
`appendfsync everysec`, so a queued job can be lost with it; `README.md:196` names a task that is
no longer the only one.

## 6. Not modelled

* *Parsing of provider answers* (`_parse_result`, `_extract_url`, `extract_mask_url` and their like):
  an answer names a result or it does not, and the step succeeds or fails. Prompts, URLs, formats
  and wording are left out, and so is which of several results is taken.
* *Choice among several entitlements* at a restore, and their expiry.
* *The copy of an example photo* from the local samples, used when R2 is not configured.
* *Between two lines*: a commit whose answer is lost, other than a webhook's 200; `max_jobs`. The
  replacement's `_defer_by=1` is not a delay in the model: its job may start before or after the
  commit.
* *Account deletion* is one step in `DesignRequests`, `Subscriptions` and `UserFiles`; its steps
  are in `DeviceAccounts`.
* *int4 overflow* of balances: a single grant is bounded far below 2^31 and an overflow is a
  rolled-back call.
* *The seed data itself*: `DiscoverCatalog` assumes of it what `_build_card_rows` checks, and that
  section ids differ between categories and versions share an asset, which holds of the data.
* *Core services, migrations, deployment*: no protocol state. What deployment lets happen, a
  stopped worker for instance, is a fault of the models. Migration 0012 is in `Init` of
  `DeviceAccounts`.

## 7. Plan

The order was by what a wrong line costs: credits, paid jobs, purchases, accounts, files. Next:

1. State and prove: an abstract device account (one grant in its life, opened by a login, closed by
   its owner) that `DeviceAccounts` implements.
2. Prove the safety half of more liveness properties, as `NoDeadlock` and `PostingNeverDeadlocks` do:
   that two deletions of an account are the only requests of a device that lock each other out.
3. Model: the choice among several entitlements at a restore and their expiry.
4. Provider answers as pure operators, checked against reference definitions, as far as they are
   worth a run.

## 8. Running it

    tlc -workers 2 -config MCCreditLedger.cfg MCCreditLedger
    tlc -workers 2 -config MCDesignRequests.cfg MCDesignRequests
    tlc -workers 2 -config MCDesignRequestsTimeout.cfg MCDesignRequests
    tlapm CreditLedgerProofs.tla
    tlapm DesignRequestsProofs.tla

Every run takes less than three minutes with two workers; the longest are `user_files`,
`design_requests` and `subscriptions`.
