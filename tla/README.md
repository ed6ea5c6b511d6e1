# Kommon School backend: specification and verification

This directory holds TLA+ modules for the Kommon School backend (Express, Prisma, PostgreSQL,
Redis with BullMQ, run as a PM2 cluster), the TLC configurations that check them on small
instances, and proofs that TLAPS checks for every value of the constants. Paths below are
relative to `src/src/` of the repository.

## 1. The system

Students enroll through a public form, choose a plan, pay with Razorpay, and are then pushed to
an external learning platform. Staff create enrollments by hand, follow up on unpaid leads and
repair failed pushes. All state is in PostgreSQL and Redis; several processes run the same code.

| Component | State it keeps | Operations | What makes it correct |
|---|---|---|---|
| Payments (`modules/payments`, `modules/razorpay`) | `payments`; `enrollments.status`, `amount`, `amount_paid_paise` | createOrder, retry, verifyPayment, settlePayment, updatePaymentStatus | one active order per enrollment; paid means paid; an answer agrees with the price |
| Razorpay webhooks (`razorpay/webhook.controller.js`, `jobs/webhookRetry.job.js`) | `webhook_events` | receive, process, replay | an event takes effect once; none is left behind |
| Payment reconciliation (`jobs/paymentReconciliation.job.js`) | none of its own | settle or expire stale payments | never expires a payment that was captured |
| Plans (`modules/plans`) | `plans`, `plan_pricing`; the plan and amount of an enrollment | catalogue CRUD, selectForEnrollment | a price change withdraws the orders for the old price; a chosen pricing is kept |
| Plan windows (`admin/adminEnrollments`, `utils/planDuration.js`) | none: computed | computePlanWindow, current plan | a window that was shown does not move |
| Public enrollment (`modules/enrollments`, `modules/contact`) | `enrollments` | create, resume, restart; cleanup job | a settled row keeps its details; who is served has an account |
| Admin enrollments (`modules/adminEnrollments`) | `enrollments`, synthetic `payments` | draft, manual, internal, bulk | a payment does not disappear with a draft |
| Internal plans (`modules/internalPlans`) | `internal_plans.coupons` | fee preview, redeem, edit | coupon limits hold; the ledger balances |
| External sync (`modules/externalApi`, `queues`, `jobs/externalApiRetry.job.js`) | `enrollments.external_sync_status`, `external_api_logs`, the BullMQ queue | enqueue, sync, retry, dead letter, Retry sync | success is real; a failed push is retried or shown to an admin |
| Platform users (`modules/webhooks`, `enrollmentWebhook.service.js`) | `sumago_users` | provision-user webhook, test webhook, sync, account overview | a lone sync is exact; every purchase is shown |
| Auth and users (`modules/auth`, `modules/admin/users`, onboarding) | `users`, `refresh_tokens` | login, refresh, logout, password change, create, delete, reactivate | one heir per login; a detected reuse ends it |
| Permissions (`modules/permissions`, `middleware/rbac`) | grants; a cache per process | authorise, seed | a verdict is at most one lifetime old |
| Leads (`modules/followups`, `modules/employee`, `modules/admin/employees`) | `followups`, notes, `enrollments.assigned_to` | create, status, notes, assign, convert | one active follow-up per lead; a closed one stays closed; the timeline is true |
| Razorpay configurations (`modules/admin/razorpayConfigs`, `prisma/seed.js`) | `razorpay_configurations` | create, activate, delete, seed | one is active; an order is verified with its own |
| Masters and courses (`modules/courses`, `*Master`) | catalogue tables | CRUD with guards | unique labels and offerings |
| Jobs and locks (`jobs/index.js`, `utils/distributedLock.js`) | Redis lock keys | run a job on one process | two runs overlap only past the lock's life |
| Count cache (`utils/countCache.js`) | a map per process | get, expire, evict | a count is recent |
| Lists and export (`admin/*`, `reports`) | none | pages with totals, CSV | a walk to the end misses nothing that stayed |

How they meet:

- the rows of `enrollments` and `payments` are shared by the payment handlers, the webhooks, the
  reconciliation, the plan selection, the public form, the cleanup job and lead assignment. They
  use three disciplines at once: READ COMMITTED with `SELECT ... FOR UPDATE` (createOrder,
  selectForEnrollment), Serializable (settlePayment), and single UPDATEs without a condition
  (updatePaymentStatus, updateEnrollmentStatus, updateExternalSyncStatus);
- a settlement hands its enrollment to the external sync after its commit: through BullMQ or,
  when that is down, by a direct call (the reconciliation job only logs);
- the worker, the sweeper, the inline call and the Retry sync button all work on the same log
  row and the same status column, each statement its own transaction;
- dead letters and submissions open follow-ups; a verified payment closes them;
- a verified payment also tells the platform directly (provision-user), and the sync job reads
  the platform's users back into a mirror that the account overview is made from.

What is hard here: interleavings of single statements under mixed isolation levels, HTTP calls
inside and between them, checks in one statement and writes in another, crashes between a commit
and the step that follows it, retries of calls that may already have been carried out. The list
with its lines is `hazards` in PROJECT.json.

## 2. Modules

| Module | What it models |
|---|---|
| `Payments`, `OrderBook` | the payment core, one action per SQL statement or HTTP call, and its abstract specification |
| `ExternalSync` | the push of one paid enrollment: status, log rows, queue, worker, sweeper, Retry sync |
| `WebhookInbox`, `EventEffects` | the `webhook_events` inbox, the retry job, the Redis job lock, crashes; and the abstract specification of what becomes of a payment |
| `Accounts` | users, refresh tokens, logins, passwords, the nightly cleanup |
| `Authority` | roles in access tokens, permission caches, the seed of the grants |
| `Registrations` | all ways to an enrollment row of one e-mail address, and who takes one over |
| `InternalEnrollment` | fee, coupons, synthetic payments, the plan form |
| `Leads` | follow-ups, notes, owners, conversion |
| `Provisioning` | what the platform is told, the mirror, the account overview |
| `PlanCatalogue` | plans and pricings against the enrollments that chose one |
| `PlanWindows` | how long a plan runs, computed from rows that change |
| `CourseCatalogue` | master labels and course offerings with their unique indexes |
| `GatewayConfigs` | which gateway is active, and with which one an order is made and verified |
| `CountCache` | cached counts with loads, eviction, expiry |
| `AdminLists` | paged lists walked while their tables change; the export |
| `*Properties` | the invariants and action properties of the module they are named after |
| `PaymentsProofs`, `AccountsProofs` (with `Authority`), `ExternalSyncProofs`, `InboxProofs`, `AdmissionsProofs` (`Registrations`, `InternalEnrollment`), `BackOfficeProofs` (`Leads`, `GatewayConfigs`, `CourseCatalogue`, `PlanCatalogue`, `Provisioning`), `PagesProofs` (`CountCache`, `PlanWindows`, `AdminLists`) | machine-checked proofs |
| `Extrema` | lemmas: a set of numbers has a least, a bounded one a greatest element, which is what CHOOSE picks for an oldest or latest row |
| `MC*` | instances for TLC |

Definitions whose comment begins with "Mutant" are deliberate faults; no specification uses
them. Each is a plausible bug in the definition that follows it, and shows that the property
named for it in PROJECT.json can fail.

Variables whose declaration says "history" are not in the code. They record what a property
speaks of (which requests overlapped, which password opened a session, since when a grant was
gone), and what the code does never depends on them.

### Payments

State: `enr` and `pay` are the tables, with the columns the properties tell apart (status, plan
set or not, amount due, amount received; status, owner, amount). A payments row is named by its
`razorpay_order_id`, which is unique. `rzp` is Razorpay's own record of its orders. A *session*
is one running handler or job; `pc` is the statement it is about to run, `loc` its local
variables. `lock` holds the row locks and `dirty` the rows that were committed after the snapshot
of a session that runs in a Serializable transaction. `handoff` is the set of enrollments handed
to the external sync.

| Code | Actions |
|---|---|
| `createOrder` (and `retryByPaymentId`, which calls it) | CreateOrderLock, CreateOrderList, CreateOrderCancel, CreateOrderMint, CreateOrderCommit |
| `selectForEnrollment` | SelectRead, SelectList, SelectLock (once per row), SelectCommit |
| `settlePayment` | SettleBegin (in its callers), SettleLock, SettleCommit, SettleConflict |
| `verifyPayment` | VerifyValid, VerifyInvalid then MarkFailed, Enqueue |
| webhook handlers | WebhookCaptured, WebhookFailed then MarkFailed, Enqueue |
| reconciliation job | ReconPick, ReconFetch, ReconExpire, ReconStatus, Enqueue |
| resume, self-service restart, cleanup, lead assignment | ResumeDraft, RestartDraft, CleanupDraft, AssignEnrollment |
| process death, aborted transaction | Fail |
| the customer | Capture |

The writes of a transaction appear at its commit, its locks last until then, and a statement that
needs a locked row is enabled only when the row is free. A statement that locks several rows (the
plan selection's SELECT ... FOR UPDATE, createOrder's updateMany) takes them one by one in any
order, and keeps the ones it has while it waits for the next (`LockRow`, `LastRow`). A Serializable
transaction whose target row is in `dirty` gets the serialization failure PostgreSQL raises.
PostgreSQL's deadlock detection needs no action of its own: it aborts a transaction, which is
`Fail`.

`ExactCharge` says whether Razorpay always charges the amount of the order. The run takes TRUE,
as Razorpay promises; with FALSE the checks of the amount in `settlePayment` come into play. The
theorems hold for both.

### ExternalSync

One enrollment (different enrollments share nothing here). `sync` is `external_sync_status`;
`logs` the statuses of its rows in `external_api_logs` in the order of `created_at`; `job` the
BullMQ state of each job id, of which `Main` is the enrollment's own id and `RetryJobs` the
uuid ids; `known` whether the platform has the enrollment. A session is a worker slot, an inline
sync, a sweep or a Retry sync request.

| Code | Actions |
|---|---|
| hand-off after a settlement | Settle, Handoff, HandoffQueueDown |
| `syncEnrollment` | FindLog, CreateLog, MarkProcessing, CallAccepted / CallRefused / CallFailed, RecordLog, RecordSync |
| worker | StartJob; Return and Throw inside RecordSync; failed handler: DeadLetterFind, MarkDeadLetter, DeadLetterSync |
| `externalApiRetry.job.js` | SweepFind, SweepAdd |
| `retrySync` | RetrySync, RetrySyncFind, RetrySyncLog, RetrySyncAdd |
| failures | StatementFails (the statement throws), Crash (the process dies; BullMQ returns the stalled job to the queue once) |

`classify` is the choice between the three outcomes of a call: accepted (2xx, or 409 for an
enrollment the platform has), refused (400, 422), and everything that is retried. BullMQ drops
an added job whose id it still stores; completed jobs are stored up to a count, failed ones for
ever.

### WebhookInbox

`event` is the table, one row per delivered event with `processed` and `attempts`. Every server has
a webhook handler and a run of `webhookRetry` (`work[s][k]`), each somewhere between the
settlement, the enqueue, the mark and the count of a failure of the event at hand, with the rest
of its batch in `todo`. `holder` and `ttl` are the Redis key; a run's `age` is counted up to
`LockTtl`, at which the key expires although the run goes on. `Deliver` inserts the event of a
delivery; Razorpay repeats deliveries, and the unique event id makes a repeated one return at
once. The settlement is one step here: its statements are `Payments`. A crash ends everything a
server does; its lock goes when it expires.

### Accounts and Authority

One action is one statement of `auth.service.js`, `user.service.js` or the onboarding. A request
`req[s]` keeps what it has read. `refresh` is RefreshRead (the JWT and the row), RefreshRotate,
RefreshFindUser, Issue; the row it finds decides between RefreshRead to rotation, RefreshReuse and
RefreshExpired. `deleteUser` and the two password writers have a statement before or after the
one that revokes. In `Authority` the role travels in the access token, each process caches the
codes of a role, and `SeedClear`/`SeedAssign` rewrite the grants of one role after another.

### Registrations and InternalEnrollment

`Registrations` follows one e-mail address: the rows of `enrollments`, the account, and visitors who
are between two statements of createEnrollment, the upgrade link, the contact form, a draft or an
admin's enrollment. The unique index on rows in progress and the P2002 branch are part of the
insert. A plan selection is its three statements here too: SelectRead without a lock, SelectLock of
the payments, SelectWrite by the enrollment's id; `crossed` (history) has the rows that were settled
in between. What the selection does not lock is an order made after its lock; the model lets any
order of the row be settled then, which is more than the code allows. `Overwrite` is the late failed
verification or reconciliation that takes a payment's success away. `Onboard` creates the account or
fails, and answers the customer with success either way, as `onboardNewEnrollment` swallows its
errors; a soft-deleted user counts as an account, since the onboarding finds it and leaves it alone.
`served` (history) is the last such answer to somebody without an account, `web` (history) the rows
that the public form inserted and whose onboarding has not failed.

`InternalEnrollment` has the money of an admin's enrollment. `CalculateFee` is the wizard's preview.
A request begins with BeginEnrollment, for one student or for the rows of a CSV;
CreateInternalEnrollment redeems under the row lock of the plan and appends to `ledger`; a CSV goes
on (NextRow) with its next row, whose checks are CreateBulkEnrollments. The plan's form is OpenForm,
UpdateRead and UpdateWrite, which writes back the coupons that the form loaded; SetStatus,
DeletePlan and SetFee are the other edits. Amounts are in paise; `Percent` rounds as `Math.round`
does.

### Leads

A row of `followups` has a status, a date and its notes. `request[r]` is a handler between two
statements: ensureFollowup's look and insert, updateStatus's read, write and notes, the portal's
note with or without a status, the conversion by verifyPayment, the employee check and the write
of an assignment, one lead after another in the bulk form. `tangled` and `raced` are history.

### Provisioning

The platform's record of a student is the sequence of transactions it was told. A purchase settles,
is verified by the browser or entered by an admin; the webhook then waits in `inFlight` with its id,
is delivered or not, and is attempted again by the external sync; `Restart` loses what only the
process knew. `settled` are the purchases whose enrollment is paid now and `success` those whose
payment has the status success now: `Overwrite` takes the second away (a refused verification, a
late failure event, a reconciliation), `Reopen` the first (a plan selection that had read the
enrollment before), and the purchase may be settled again. `OnRecord` is what
`buildLocalTransactions` lists: the successful payments, and the paid enrollments that have none. A
purchase is one payment of one enrollment. A sync is four steps; the overview merges mirror and
payments by transaction id, as `getAccountOverview` does.

### The other modules

`PlanCatalogue`, `CourseCatalogue` and `GatewayConfigs` have the same shape: requests of a few
statements, each check and each write an action, with the database's unique indexes, ON DELETE rules
and row locks as part of the statement. `CourseCatalogue` has the seed among its requests, at any
time and as often as the bound admits: it upserts durations (PlantDuration), looks them up, finds
each course by its name and renews it or stocks its name and makes it (RenewCourse, StockName,
MakeCourse), all by the label as it is written; `planted` (history) has what it stored beside
another spelling. A course's education level is left out. `CountCache` has the cached entry, the
load under way and a clock. `AdminLists` lets one reader turn the pages of one of nine lists while
rows appear, move and go, and one export run beside it. `PlanWindows` evaluates `computePlanWindow`
over enrollments and payments that change as the other modules let them, in a calendar that has one
month of a single day, so that the day that `addMonths` rolls over into the next month is met.

## 3. What the runs check

| Run | Instance | Shows |
|---|---|---|
| `payments` | 1 enrollment, 2 orders, 2 prices, 2 sessions | OneActiveOrder, PaidIsBacked, HandoffIsBacked, OfferMatchesPrice, DeadlocksNeedSeveralRows, NewOrdersOnlyForUnpaid, SuccessNeverCancelled and the refinement of OrderBook hold |
| `external_sync` | 1 enrollment, 1 settlement, 2 sessions, 2 attempts, 1 retry id, 1 press of Retry sync, 2 failed calls, 1 broken statement | SuccessIsReal, FailedIsRetried, JobsResolve, RetrySyncResolves hold |
| `jobs` | 1 payment, 2 events, 2 servers, lock life 1, 2 tries, batch of 1, 1 fault | OneRunPerLock, StoredIsProcessed and the refinement of EventEffects hold |
| `accounts` | 1 user, 2 passwords, 3 tokens, 2 requests, 4 days, token lives 1 and 2, retention 2; 1 member, 2 roles, 1 code, 1 process, 2 requests, 6 ticks | OneHeirPerFamily, ReuseEndsFamily, OldPasswordEndsSessions, NoTokenForDeletedUser, VerdictHadGrounds hold |
| `admissions` | 1 address with an account or (newcomers) without, 2 rows, 2 visitors; 1 code with 2 possible offers, 2 fees, 2 clerks, 1 editor, 2 CSV rows, 2 enrollments | PaidIsVisible, ServedHasAccount, SettledKeepsDetails, UsageLimitHolds, LedgerBalances, ChargedAsShown hold |
| `back_office` | see below | DuplicateNeedsRace, ReopenNeedsRace, TimelineIsTrue, NewLeadsAgree, OverviewShowsEveryPayment, LoneSyncIsExact, TwinsNeedRace, PricingIsKept, OneActiveConfig, GenuineIsNeverFailed, CountsAreRecent, SeenUnlessMovedUp, ExportIsComplete, ShownPlanIsStable hold |
| `success_is_final` | as `payments` | violated: a success row is overwritten by failed or expired |
| `paid_is_immutable` | as `payments` | violated: a plan selection puts a paid enrollment back to payment_pending |
| `loser_reads_outcome` | as `payments` | violated: the second settlement gets a serialization failure instead of the first one's result |
| `expires_only_uncaptured` | as `payments` | violated: a failed call to Razorpay expires a captured payment |
| `pending_is_queued` | as `external_sync`, nothing broken | violated: an enrollment stays PENDING with nothing queued after the reconciliation's enqueue was refused |
| `window_starts_when_paid` | as `back_office` | violated: a plan paid the day after its order was opened runs from the day of the order |

The violated properties are statements of the repository's comments; `findings` in PROJECT.json
quotes them with the lines of the code that disagrees.

Composition. `Payments` is itself the composition of the handlers that share rows: orders,
settlements, plan selection, reconciliation, assignment, cleanup. `ExternalSync` composes the
worker, the sweeper, the button and the inline call; `WebhookInbox` the webhook handlers with the
job under its lock; `Leads` the payment, the dead letter and the staff. Components that share no
variable (accounts and authority; registrations and internal enrollments; the nine parts of
`back_office`, where lists and export share their tables) are checked by turns in one run: the
variable `part` is chosen once and says which component moves. Their interleavings would only
multiply states.

Bounds of `payments`. Every lock and every guard is about one enrollment and its payments, so a
second enrollment adds nothing that two orders of one do not show; two orders are what it takes to
have an active one beside a stale or settled one; two prices to have a change; two sessions to have
every pairwise race, each session running any number of handlers one after the other, beside the
one-statement writers and crashes, which need no session. The proofs remove these bounds. Orders and
sessions are symmetric and only safety properties are checked under that symmetry. TLC's deadlock
check is on; a cycle of lock waits would not stop the whole model, so that question is asked by
DeadlocksNeedSeveralRows: createOrder locks the enrollment before its payments and the plan
selection the payments before the enrollment, and two selections may take the same payments in
another order; settlements and status updates deadlock with none of their kind, nor with one
selection alone. The run has 1.4 million states.

Bounds of `external_sync`. Two attempts are the least with a first and a last one; two sessions
the least with a race; two failed calls let both attempts of a job fail; one broken statement
(failed, or crashed at) at any of the statements. `RetryIdLeft` keeps a sweep or a Retry sync
from starting when no uuid is left in the pool, since the real pool never runs out. The number
of settlements, presses, failed calls and broken statements is bounded, so at the end the system
may have nothing left to do: the configuration switches the deadlock check off. The other
configurations below do so for the same reason: their requests, rows and clocks are bounded.

Bounds of `jobs`. Two events of one payment are `payment.captured` and `order.paid`; two servers
and a lock life of 1 let a run outlive its lock and a second one start; two tries are a first and
a last one, a batch of one makes an event that always fails stand before the other.

Bounds of `accounts`. Every property is about one user or one family, and requests of different
users touch no common row. Three tokens are a family with two rotations, or two logins one of
which is rotated; two requests every pairwise race; a token life of 1 under a JWT life of 2 has a
token that the JWT admits and the row does not. The proofs remove these bounds. For permissions,
two caches' lives fit in the clock, and one change of role.

Bounds of `admissions`. The unique index, the duplicate check and the takeover are all per address.
Two rows are a settled one and its successor; two visitors race for one row, as a plan selection and
the upgrade link do when a settlement falls between the selection's statements. Whether an address
has an account matters to onboarding only: it is checked without one in the part "newcomers", where
nobody gets as far as an order, and with one in the part "registrations", where orders are made and
settled. The run has 1.8 million states; the proofs have neither the split nor the bounds. A percent
offer of 33 on 50 or 99 needs rounding and a flat one of 60 exceeds the fee of 50; limit 1 is
reached by the first redemption.

Bounds of `back_office`, by part:
- leads: one lead, one employee (and NULL), two requests at once and four in all: one to create,
  two that race, one to see what they left;
- provisioning: one student, one purchase by the browser and one by an admin, two syncs that may
  overlap, two deliveries: one transaction repeated, or both purchases, or the two ids of an admin's;
  successes written over and enrollments reopened as often as they are settled;
- courses: two spellings of one label, three rows, two offerings, two requests at once, three in
  all, any of them a run of the seed, which has one of the spellings as a duration and as the name of a
  default course; plans: two tiers, one slot, two ids, one buyer, four requests;
- gateway: the seed's configuration and two more, one order, four tasks, two at once;
- counts: two keys for a cache of one, a life of 2, loads of 1, eight ticks, so that an entry
  expires and is loaded again;
- walk and export: two students, a page of one row and an offset of at most one (the cap of
  parsePagination is met), three writes, two leads already owned, an export batch of one; here
  only tables that the list at hand reads are written;
- windows: one plan with a term of two days or one month, two enrollments, two payments, two days
  that pass.

Together they have 0.9 million states.

Symmetry: the two requests of all parts of `back_office` are the same model values and no action
tells them apart. Under symmetry only invariants and action properties are checked.

Fairness. `ExternalSync`: a running handler goes on (`Progress`, weakly fair per session: the
event loop runs it, and each await ends because the HTTP client and the database client have
timeouts), idle workers take waiting jobs (`Work`), and the cron job runs (`SweepFind`). Nothing
is assumed of the platform: calls fail as long as their bound allows. Settlements, failures,
crashes and the admin are not fair. `WebhookInbox` (`InboxFairness`): some server gets the lock
when it is free (cron fires on all of them), a run of the job goes on, and time passes for a key;
nothing is assumed of the webhook handlers, and deliveries, faults and crashes are not fair. The
other modules have no fairness: nothing in them promises progress, a request that fails or is
abandoned is not repeated.

Exceptions stated in the properties. JobsResolve excepts a break inside the failed handler, whose
statements are not a transaction and whose errors are only logged; FailedIsRetried speaks of states
without a break, and accepts FAILED with nobody retrying when the log shows how the push ended,
because a slow inline sync can write FAILED after a retry has succeeded. Many properties of the
staff's components are of the form "only a race can do this": the code checks in one statement and
writes in another, and the property shows that nothing else breaks the rule, and that a single
request never does. The exception is always a recorded overlap, never the bad state itself.

## 4. What is proved

All theorems are for any values of the constants, from the named assumptions of the modules.

| Theorem | Statement |
|---|---|
| `PaymentsProofs`: `Invariant`, `TypeCorrect` | the inductive invariant `IInv` of the payment core, and its types |
| `OneActiveOrderHolds`, `PaidIsBackedHolds`, `HandoffIsBackedHolds`, `OfferMatchesPriceHolds` | the state properties of the run `payments` |
| `NewOrdersOnlyForUnpaidHolds`, `SuccessNeverCancelledHolds` | its action properties |
| `DeadlocksNeedSeveralRowsHolds` | every cycle of lock waits has a createOrder in it, or two plan selections of one enrollment |
| `RefinesOrderBook` | the payment core implements the order book |
| `AccountsProofs`: `Invariant`, `TypeCorrect`, `OneHeirPerFamilyHolds`, `ReuseEndsFamilyHolds`, `OldPasswordEndsSessionsHolds`, `NoTokenForDeletedUserHolds` | types and all four properties of `Accounts` |
| `AuthorityTypeCorrect`, `AuthorityInvariant`, `VerdictHadGroundsHolds` | types and the property of `Authority` |
| `ExternalSyncProofs`: `SyncInvariant`, `SyncTypeCorrect`, `SuccessIsRealHolds`, `FailedIsRetriedHolds` | types and both safety properties of `ExternalSync` |
| `InboxProofs`: `InboxInvariant`, `InboxTypeCorrect`, `OneRunPerLockHolds` | types and the invariant of `WebhookInbox` |
| `RefinesEventEffects` | the inbox implements the abstract inbox |
| `AdmissionsProofs`: `RegistrationsInvariant`, `RegistrationsTypeCorrect`, `PaidIsVisibleHolds`, `ServedHasAccountHolds`, `SettledKeepsDetailsHolds` | types, both invariants and the action property of `Registrations` |
| `InternalInvariant`, `UsageLimitHoldsAlways`, `LedgerBalancesHolds`, `ChargedAsShownHolds` | the same of `InternalEnrollment` |
| `BackOfficeProofs`: `LeadsTypeCorrect`, `LeadsInvariant`, `ReopenNeedsRaceHolds`, `DuplicateNeedsRaceHolds`, `NewLeadsAgreeHolds`, `TimelineInvariant`, `TimelineIsTrueHolds` | types and all four properties of `Leads` |
| `GatewayTypeCorrect`, `OneActiveConfigHolds`, `GenuineIsNeverFailedHolds` | types and both properties of `GatewayConfigs` |
| `CourseTypeCorrect`, `CourseInvariant`, `TwinsNeedRaceHolds` | types and the property of `CourseCatalogue` |
| `PlanTypeCorrect`, `PlanInvariant`, `PricingIsKeptHolds` | types and the property of `PlanCatalogue` |
| `MirrorInvariant`, `LoneSyncIsExactHolds`, `RecordsInvariant`, `OverviewShowsEveryPaymentHolds` | types and both properties of `Provisioning` |
| `PagesProofs`: `CountTypeCorrect`, `CountInvariant`, `CountsAreRecentHolds` | types and the property of `CountCache` |
| `WindowsTypeCorrect`, `ShownPlanIsStableHolds` | types and the action property of `PlanWindows` |
| `ListsTypeCorrect`, `ExportIsCompleteHolds`, `WalkInvariant`, `SeenUnlessMovedUpHolds` | types and both properties of `AdminLists` |

Payments. OneActiveOrder is not inductive: it says nothing of the list of orders that
createOrder read several statements before it commits. `IInv` therefore says what each session
still knows at each statement: a createOrder past its list holds the lock of an unpaid
enrollment, that enrollment has no successful payment, and each of its active orders is either
the one it will reuse or one it will cancel (`CreateOrderInv`); a freshly minted order has no row
and belongs to one session (`MintInv`); a plan selection that is about to commit holds the locks
of what it cancels, and none of it is a success (`SelectInv`); a settlement works for an order of
its enrollment that the customer paid (`SettleInv`). `UndisturbedSession` shows once what a step
of another session must leave alone for this knowledge to survive; each action then has a lemma
that checks just that. A selection still locking its rows knows nothing of those it has: they are
looked at once it has them all. The lock order is a second, separate invariant (`LockInv`): outside
createOrder no session holds an enrollment while it waits for a payment, and a selection that is
still locking holds only payments of its own enrollment.

The refinement maps the active order of an enrollment to the order on offer, paid Razorpay
orders to `funded`, and enrollments with money received to `credited`. Most steps stutter;
createOrder's commit is an Issue or a stutter, cancelling and expiring are Withdraw, a settlement is
Credit, the customer's payment is Fund.

Accounts. OneHeirPerFamily is not inductive: a refresh that has read its token and not yet revoked
it counts as nothing, and becomes an heir two statements later. `Lineage(f)` says that in a family
that was not forked at most one refresh is at work, and while it is, the only live token is the
one it is about to revoke. `Dead(f)` adds to ReuseEndsFamily that no refresh is at work in a
family that was burned in time. `CredInv` says of requests what OldPasswordEndsSessions says of
tokens: an older password is carried only while a password change is about to revoke. Most
actions only revoke, and are disposed of by `QuietStep`; login, the three statements of refresh
and Issue have a proof of their own.

Gateway. OneActiveConfig speaks of a moment; its inductive invariant (`Lone`) says what a switch
knows between its statements: unless two overlapped, what it has read as active is what is active,
and it is the only task that changes configurations. GenuineIsNeverFailed follows from one fact: an
order remembers the configuration whose account it was made in, and Verify reads that one.

Permissions. VerdictHadGrounds looks at the last verdict only. The invariant says the same of
everything a verdict can come from: a token's role was held one token life before the token
ends, a fill in progress has read nothing older than its question, a cache entry was right one
cache life before it ends (`TokensAreRecent`, `FillsAreRecent`, `CachesAreRecent`). That a fill is
dated by its question and not by its answer is what keeps the last one inductive.

External sync. SuccessIsReal needs to know of a session between the call and the two records of
its outcome that a success was answered (`SessionInv`). FailedIsRetried is about rows: while nothing
is broken, a row that is neither closed nor left to the sweeper belongs to a session that has
still to record how its call went (`RowAttended`), and FAILED is only ever written when there is a
row. That a live job has attempts left and is run by one session (`JobsInv`) makes the outcome of
Throw the one the invariant needs.

Inbox. The lock's life is a budget: a run that has not outlived the lock holds it, and its age
and the time left on the key add up to the time to live (`LockInv`); a compare-and-delete can
then only remove the key of the run that calls it. The effect of events is an accounting: a
settled payment is in exactly one of three places, handed on, about to be, or lost with the
process that was about to (`OnePlace`), and whoever stands before a mark serves an event whose
payment is settled (`SlotInv`). With it the inbox implements the abstract one: `EventEffects` has
for each payment how far it has come, and the payments that some event reports as served; it has
no place for a payment handed on twice, nor for a settled one that nobody is about to hand on. A
settlement that finds its payment settled is a stutter, and so is everything
the lock, the clock and the counting of attempts do; a crash is the loss of what the process was
about to hand on.

Registrations. PaidIsVisible becomes inductive once it speaks of how a paid row could come to be
deleted: an order that stays open on a row that is not being paid, or on a deleted one, marks the
row as `astray` (`Stray`, `RowOK`). ServedHasAccount rests on the requests that still have to
onboard: every row that only a public submission has touched, and whose onboarding did not fail, has
an account or such a request (`RowOK`, `VisitOK`), and so has whoever was answered with it
(`ServedOK`). SettledKeepsDetails needs to know that a settled row can be at the mercy of a plan
selection only in `crossed`: a selection that is about to write a settled row crossed its settlement
(`VisitOK`), and a row with a successful payment that is not paid has been taken back by such a
selection (`RowOK`); the public form refuses both, the upgrade link only the paid one.

Internal enrollments. UsageLimitHolds follows from one fact, that a counter no edit has torn is
the number of redemptions in the ledger, in the plan and in every form read since
(`CountersOK`). LedgerBalances and ChargedAsShown rest on lemmas about the arithmetic of the
fee: the rounded percentage and the flat discount are numbers between 0 and the price, for every
price and every offer (`PercentOfPrice`, `DiscountOfPrice`, `FinalOfPrice`).

Leads. ReopenNeedsRace and DuplicateNeedsRace speak of traces that overlaps leave. `WritersOverlap`
says that on a row without a trace the request about to write is alone and the row is open, as it
was read; `CreatorsRace` that a lead without a trace has one creator at most, and no row yet;
`OneUntangled` that it has one row at most that no overlap touched. Every step but CreateFollowup
only takes rows out of that set (`UntangledShrinks`), and most touch neither statuses nor
requests about to write (`QuietStep`). TimelineIsTrue rests on a chain (`Told`): on a row without
a trace one request at most changes the status, from what the row has and its notes say; the
status is written first and the change is the first thing the request notes, so between the two the
notes say the old status and after it the new one. A change that is appended says what the chain
said before (`Says`, which speaks of the place of the last change and so needs no induction over
the notes). NewLeadsAgree needs types only: the follow-ups with an
outcome correspond one to one to the leads the list leaves out.

Count cache. CountsAreRecent is about the last answer; the invariant dates the entry it came from:
a loaded value was true when the load began or later, a load runs for MaxLoad at most, and an
entry ends one lifetime after it is stored (`CountInv`).

Catalogue. TwinsNeedRace is two facts, `OfferingsApart` and `LabelsApart`, proved together: no twin
offerings, no twin labels, without one of the stated causes. `Informed` says what a request that
nobody crossed knows of the tables between its check and its write, and `SeedKnows` the same of a
run of the seed, which may meet what the admins wrote before it; the unique index and the row locks
take care of the rest. The proof corrected the property. TwinsNeedRace used to except a twin only if
one of the two labels had been typed, spelled exactly so, into a course form. With three spellings
of a label that fails: a form types a second spelling, the row takes it over, a rename that changes
only the case is not compared, and neither twin is the typed spelling. The runs have two spellings
and could not show it. The property now speaks of the spelling's class. A run of the seed is
excepted in the same way: it stores its own spelling beside the admins' (`planted`), whether
anything crossed it or not, and the class is marked from then on.

Plan catalogue. PricingIsKept rests on `CountsStand`, which keeps what a delete has counted true
until it deletes: whoever has chosen one of its pricings since is in `unseen` or was discarded. That
the rows a request holds by id go with it (a deactivation whose pricing another request deleted) is
what keeps the pricings rows.

Plan windows. ShownPlanIsStable needs no invariant but the types. The proof names what
computePlanWindow reads (`WindowReads`), and shows of each action that it leaves this alone or
does one of the things the property excepts.

Mirror. A sync that is alone is the only one between its fetch and its last write, and nothing but a
sync writes the mirror; so what it read is still so when it writes (`AloneInv`).

Account overview. The property speaks of the purchases on record now, so a success that is written
over takes nothing to prove: the purchase has another id from then on, the enrollment's code, and
stays listed as long as its enrollment is paid. Overlapping syncs do set the mirror back, but never
to something the platform did not say: its record of a student only grows, so what a sync carries
and what the mirror has are beginnings of it (`RecordsInv`). A purchase's own transaction is thus in
the mirror at most as often as in the platform's record. If it is in the mirror, the overview leaves
the payment out; if not, it lists the payment once, because the list of the missing ones is made of
a set.

Lists and export. An order is a bijection: the rank of a row among those of its table is its place
in the list (`RankProperties`). The export's
cursor is not below anything written, and what was there from the start and is not above the
cursor is written (`ExportInv`); new payments may get any id, also below the cursor, which is why
the property speaks of the payments of the beginning only. For a walk, what is expected of it and
stands at or before the last row turned has been seen (`WalkInv`): a row that never moved up can
only move down, over the boundary of a page that is still to be turned. Whether a list reads its
total after its rows or has it cached decides whether the last page means the end of the list; the
mirror is a case of its own, as its rows are read with e-mails that were read before.

The inductive invariants were checked by TLC on small instances before they were proved. Three
changes of the models came with the proofs, which leave their behaviours as they were: the rows an
inbox run still has to serve are a set, taken oldest first, the history of `Registrations` records
rows as sets, and a list of `AdminLists` is a set put in order. Two properties are stated by places
instead of by filtered sequences (`Says`, `Times`), which says the same and can be proved. The
assumptions a proof needed are named in the modules (a lead and a filter exist, no id no id, no
pricing and no master row is NULL, no student is a payment).

Only model-checked: all liveness (JobsResolve, RetrySyncResolves, StoredIsProcessed), which takes
reasoning about fairness and ENABLED that the prover does not have. Every invariant and action
property of the passing runs, and both refinements, are proved.

## 5. Hazards without a property

PROJECT.json lists all hazards. Not covered: a job that stalls twice (two crashes) is stored as
failed without its failed handler; JobsResolve with two breaks would have to except this very case.
Covered with an exception that the entry's note states: the payment whose process dies between
settlement and enqueue ("lost" in EventEffects), a DEAD_LETTER beside a success row, a token stored
just after its user was deleted, the label that the seed stores beside an admin's spelling, a
purchase whose payment and enrollment were both written over.

## 6. Not modelled

- The follow-up reminder job selects follow-ups by their own `assigned_to`, which no statement of
  the repository writes; it never finds a row.
- Promo codes are read from `course_master.coupon`, a column that the schema no longer has. The
  lookup fails, and its callers take that for no promotion.
- Site settings (one row, last write wins), the audit and e-mail logs (append-only, read by no
  decision), the status of contact messages (one unconditional update), most dashboards (one
  statement over one state).
- Server start and shutdown: a shutdown waits for no running job, so it is the crash step of the
  modules. Middleware, validation, rendering, logging, mail templates and rate limits keep no
  state that the rest decides on.
- In partly modelled components: the uniqueness of internal plans' names, the promo and sale
  fields and the education levels of courses, the plans and the demo rows of the seed.
- The network, PostgreSQL, Redis, BullMQ, Razorpay and the platform are modelled only as far as
  the code uses them.

## 7. What could come next

1. A second break in `ExternalSync`, with JobsResolve restated for a job that stalls twice.
2. An abstract push for `ExternalSync` (an enrollment is waiting, known to the platform, or given
   up), whose steps are already separated in `ExternalSyncProofs`.
3. The uniqueness of internal plans' names and the promo fields of courses, when they come into use.
