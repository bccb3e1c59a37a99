# A TLA+ development of ParaGateway

ParaGateway is a gateway in front of AI providers: it authenticates API keys,
chooses an upstream account, forwards the request, meters it and bills the user.
The backend is a Go service (`src/backend`) that runs in several instances over
one PostgreSQL database and one Redis. This directory holds TLA+ specifications
of its stateful parts, written from the source, with the TLC configurations that
check them and TLAPS proofs of their main properties. Paths below are relative to
`src/backend/internal/` unless they begin with `src/`.

## 1. Inventory

### How the system is put together

All durable state is in PostgreSQL (users and balances, API keys, orders, jobs,
usage), most coordination in Redis (queues, locks, slots, caches). There is no
leader for requests: every instance serves every request, and instances meet only
in the database and in Redis. Transactions are short; a business operation is a
sequence of them, with Redis commands and calls to external services in between.
Hence the recurring hazards: two handlers of one entity interleave between two
statements, a decision is taken on a copy read earlier, one step of several
fails, an answer is lost, a process dies half way, a lock with a time to live
expires under its holder.

| Component | State it keeps | Operations | What makes it correct |
|---|---|---|---|
| Batch image jobs (`service/batch_image_public.go`, `_processor.go`, `_settlement.go`, `_billing_recovery.go`, `repository/batch_image_repo.go`) | `batch_image_jobs` rows | submit, resubmit, cancel, delete; poll, index, settle; stale-submission recovery | a job is funded while the provider works on it, charged exactly once, and its hold ends as a charge or a return |
| Batch image balance transactions (`repository/usage_billing_repo.go`) | `users.balance`, `users.frozen_balance`, `usage_billing_dedup` | reserve, capture, release | each takes effect once per job; a job moves only its own money |
| Batch image queue and workers (`repository/batch_image_queue.go`, `service/batch_image_worker.go`) | Redis list, two sorted sets, inflight keys, job locks | enqueue, reserve, acknowledge, requeue, move due, recover stale, lock, heartbeat | at-least-once delivery, one worker per job |
| Payment orders (`service/payment_fulfillment.go`, `payment_order_lifecycle.go`, `payment_order_expiry_service.go`, `handler/payment_webhook_handler.go`) | `payment_orders`, audit rows, redeem codes | create, notify, cancel, expire, verify, fulfil, retry | a paid order is credited once and only once, whatever races it |
| Payment refunds (`service/payment_refund.go`) | the same rows, balances | request, execute, roll back, query | what the gateway returned and what was deducted agree |
| Usage billing (`usage_billing_repo.go` `Apply`) | balances, subscriptions, quotas, dedup rows | apply, archive | one charge per request id |
| Billing cache, platform quota flusher | Redis copies of balances and quotas | read-through, asynchronous write, flush | bounded staleness, no lost increment |
| Idempotency, system operation lock | `idempotency_records` | execute, reclaim, extend, clean up | an operation takes effect once per key |
| OAuth token refresh | account credentials, Redis lock, local lock | refresh if needed | a refresh token is used once; new tokens are not lost |
| API key authentication cache | two cache levels, `auth_cache_invalidation_outbox` | lookup, invalidate, claim, second pass | a revoked key stops working within a bound |
| Concurrency slots, wait queues, session and RPM limits | Redis sorted sets, counters, leases | acquire, release, refresh, clean up | never above the limit, never a leak |
| Scheduler snapshot | Redis buckets, `scheduler_outbox` | rebuild, poll, apply | snapshots catch up with the database |
| Leader locks | Redis key or advisory lock | acquire, release | at most one leader |
| Gateway forwarding, WebSocket relay, monitoring, audit, moderation, administration, pricing, e-mail, front end | mostly request-local | | transformation, reporting, CRUD |

`PROJECT.json` lists every component with its files and status, and, under
`hazards`, what in this code is hard to test, each at its line.

### The batch image subsystem

A client submits a batch of image prompts. `Submit` creates the row
(`created`), freezes the estimated price of the batch in `users.frozen_balance`
(the *hold*), stores the items, moves the row to `uploading`, creates the batch
at the provider, stores the provider's name for it (`submitted`) and enqueues
the job. Workers take the job from Redis under a per-job lock and run one step of
the pipeline per round: poll the provider (`running`, `indexing`), index the
output (`settling`), settle (`completed`): the cost of the successful images is
*captured* from the hold, the rest goes back to the balance. A failed or
cancelled job has its hold *released*. Each of the three balance transactions
first inserts a request id derived from the job into `usage_billing_dedup`, and
does nothing when the id is there. In parallel the client may cancel, resubmit
or delete the job, and a recovery loop fails submissions whose row was not
touched for a while and releases their holds. Statuses move by
`SELECT ... FOR UPDATE` and a transition table (`service/batch_image.go`), except
for a few statements with conditions of their own.

### Payment orders

`CreateOrder` inserts a `PENDING` row and asks a payment provider for a payment;
the user pays there. The provider's notification, or a query of ours (the user's
verification, the reconciliation of WeChat orders, the query before a cancel or
an expiry), moves the order to `PAID`, from `PENDING`, from `CANCELLED`, and from
`EXPIRED` for five minutes. Fulfilment takes a lease: it sets `RECHARGING` and
remembers `updated_at` as the lease's version; a `RECHARGING` row that is older than
five minutes may be taken over. Under the lease the balance is credited through a
redeem code of the order's own, or the subscription is assigned, the inviter's
rebate is accrued, each in a transaction with a record that makes it happen once;
then the row becomes `COMPLETED`, or `FAILED` on any error, if `updated_at` still is
the lease's version. A failed fulfilment is repeated by the next notification or by
the administrator.

### Refunds

The user asks for a refund (`REFUND_REQUESTED`), an administrator prepares a plan from
a read of the order and executes it: the row moves to `REFUNDING` by a conditional
update, the amount (or the days of the subscription) is deducted, the gateway is
called. "Done" leads to `REFUNDED`, a refusal to a rollback of the deduction, "pending"
to `REFUND_PENDING` with the deduction rolled back until a query of the gateway
finalizes it. What was deducted and not given back is remembered only by audit rows,
which are unique per order and action, and most status writes after the first have no
condition.

### The authentication cache

Each instance caches API keys in memory, Redis holds a second level. A database trigger
writes an outbox row for each change; workers of all instances claim rows with a lease,
delete the entry in Redis, publish a message that makes every instance drop its own, and
do both once more after a safety delay, for the requests that read the database before
the change and filled the caches after the first pass.

### Idempotency and the system operation lock

A write request may carry a key. `Execute` inserts the row of the key, or reads it and
replays its outcome, refuses, or reclaims it when it has expired or its execution was
abandoned; after the operation it records success or failure by the id of the row. A
cleaner deletes expired rows. Update, rollback and restart of the system take, inside
such an execution, a global lock: one more row of the same table, with a lease of 30
seconds that a goroutine renews.

### OAuth tokens

An account's credentials are refreshed by the cycle of every instance and by requests
that find the token about to expire. `RefreshIfNeeded` takes a mutex of the process and a
lock in Redis with a TTL, reads the account again, asks the provider, and stores what it
gets; the provider rotates refresh tokens, so an old one is answered `invalid_grant`, and
the loser of a race looks whether the row has changed before the cycle marks the account
as broken. An administrator edits, refreshes or re-authorizes accounts without the lock,
and `UpdateAccount` writes the whole row back as it read it.

### Concurrency slots, queues and live calls

Users and accounts have a limit of concurrent requests. A request takes a slot of its
user and then one of an account: members of sorted sets in Redis, scored with their time,
which a script counts and adds to in one step. A request that finds no slot
increments the counter of the waiters of that user or account, if it is below the
queue's limit, tries until it gets a slot or gives up, and decrements the counter. When
the client leaves, callbacks release the slots while the stream is drained for its bill. A live
call gets a lease on user and account in place of the slots: the lease is taken while the
slots are still held, hence with an allowance of one, and refreshed by the controller
of the call until it ends. A process that starts sweeps the pools of an index: it removes
every slot that has not its own prefix, and the counters.

## 2. Modules

| Module | Models | Extends / uses |
|---|---|---|
| `BatchImageLedger` | the three balance transactions of `usage_billing_repo.go` and the wrappers in `batch_image_billing_hold.go` | |
| `BatchImage` | every handler over jobs: Submit, Cancel, resubmission, worker pipeline, settlement, recovery, deletion | EXTENDS `BatchImageLedger` |
| `MCBatchImage` | the small instances of `BatchImage` | EXTENDS `BatchImage` |
| `JobPayment` | what the billing of jobs promises: a hold is frozen once, then charged once, the rest paid back, or returned whole | instantiated by `BatchImage_proofs` |
| `BatchImage_proofs` | theorems about `BatchImage`, the refinement of `JobPayment` among them | EXTENDS `BatchImage` |
| `BatchImageQueue` | the Redis structures, the job locks and the worker loop, one action per script or command | |
| `JobQueue` | what the queue promises: an at-least-once set with claims | instantiated by `BatchImageQueue` |
| `BatchImageQueue_proofs` | theorems about `BatchImageQueue`, the refinement of `JobQueue` among them | EXTENDS `BatchImageQueue` |
| `PaymentOrder` | one payment order: creation, notifications, verification, cancel, expiry, retry, fulfilment under the lease | |
| `Purchase` | what an order promises: one credit for a payment, one rebate, then the end | instantiated by `PaymentOrder` |
| `PaymentOrder_proofs` | theorems about `PaymentOrder`, the refinement of `Purchase` among them | EXTENDS `PaymentOrder` |
| `PaymentRefund` | the refund of one order: request, plan, execution, rollback, query, finalization | |
| `MCPaymentRefund` | symmetry of its handlers | EXTENDS `PaymentRefund` |
| `PaymentRefund_proofs` | theorems about `PaymentRefund` | EXTENDS `PaymentRefund` |
| `AuthCache` | the two cache levels, the requests that fill them, the outbox and its workers | |
| `MCAuthCache` | two processes | EXTENDS `AuthCache` |
| `AuthCache_proofs` | theorems about `AuthCache` | EXTENDS `AuthCache` |
| `IdempotencyRecords` | the table `idempotency_records` and the statements on it | |
| `Idempotency` | `Execute`, one action per statement; what it executes is left open | EXTENDS `IdempotencyRecords` |
| `SystemOperation` | update, rollback and restart under the global lock, with its renewal | EXTENDS `Idempotency` |
| `MCSystemOperation` | one operation with a key and two without | EXTENDS `SystemOperation` |
| `SystemOperation_proofs` | theorems about `SystemOperation` and `Idempotency` | EXTENDS `SystemOperation` |
| `OAuthRefresh` | `RefreshIfNeeded`, its callers, and the administrator beside it | |
| `MCOAuthRefresh` | two processes | EXTENDS `OAuthRefresh` |
| `OAuthRefresh_proofs` | theorems about `OAuthRefresh` | EXTENDS `OAuthRefresh` |
| `ConcurrencySlots` | slots, counters of waiters and leases, with the requests and live calls that take them and the sweep at a start | |
| `MCConcurrencySlots` | two requests and two live calls of one user | EXTENDS `ConcurrencySlots` |
| `ConcurrencySlots_proofs` | theorems about `ConcurrencySlots` | EXTENDS `ConcurrencySlots` |

**`BatchImageLedger`.** `claims[b]` is the set of request ids of job `b` in
`usage_billing_dedup` (hold, capture, release). `balance` and `frozen` are the
two columns of the user; `charged` and `refunded` are history. `Reserve`,
`Capture` and `Release` are whole transactions: an id that is present makes them
a no-op, and a release of a hold that was never reserved claims its id, moves
nothing and succeeds. The `...Refused` operators are their error answers.

**`BatchImage`.** One action is one call to the database, to Redis or to the
provider. Between two calls a handler keeps what it read in its program counter:
`sub` (the Submit that created the job), `cli` (a later request of the client),
`rec` (the recovery), and per worker `wrk` with the status its copy of the row
had (`snap`). A worker's `dispatch` and `load` are two reads, as
in the code: `BatchImagePipelineProcessor` chooses the processor by one read and
the processor reads again. Status writes use the transition table
(`CanTransition`), except for `RecordBatchImageJobSubmitFailure`,
`FailStaleUnsubmittedBatchImageJob`, `MarkBatchImageJobSettled` and
`SetBatchImageJobSettlementFailed`, which have their own conditions, as in SQL.
The fault kinds are listed at the head of the module; each run names the kinds it
allows and their number. The variable `queue` is the set of jobs a worker will
still get: the abstraction `JobQueue` of the Redis structures, which
`BatchImageQueue` is shown to implement.

Abstractions: the provider's batch job is one of six states; a batch has one
outcome chosen at indexing (every cost from 0 to the hold, or unparsable output);
time is the flag `stale` (the row is older than the recovery's cutoff) and the
expiry of locks; amounts are natural numbers. `outrun` is history: the jobs whose
provider job was stored while a Cancel that had read them before was on its way.

**`BatchImageQueue`.** `ready` is a bag (its order matters only to fairness),
`delayed` and `active` are the sorted sets, `stale` the members of `active` with
an old score, `inflight` the keys that refuse a second Enqueue, `lock` the token
in the lock key, `Orphan` when nobody who holds the token is left. Each worker runs
`RunOnce`: reserve, lock, process, acknowledge or requeue, unlock. What
processing does is left open (terminal, retry, or error).

**`PaymentOrder`.** `status`, `paidAt`, `tradeNo` and `subscription` are columns of
the row. Of `updated_at` two things matter: whether it is more than five minutes ago
(`old`; the grace period and the lease have the same length), and which handlers
remember its present value (`lease`). Every UPDATE of the row sets it, so every one
empties `lease` (`Touch`). Handlers are goroutines on any instance; `pc` is the next
statement, `kind` the request, `known` the one thing a handler keeps of an old
read, whether the row had the provider's trade number already. `code` is
the order's redeem code or, for a subscription, the `SUBSCRIPTION_ASSIGNED` audit
row; `rebated` the audit row of the rebate. `credits`, `rebates`, `owner`, `acked`,
`late`, `unread` and `slow` are history. A webhook first looks for the provider that can
verify it (`GetWebhookProviders`) and ends with the answer of `handleNotify`
(`Answer`); `LostRead` is each place where a failed lookup is answered with success.
Amounts, signatures, provider matching and its errors are left out: a
notification that does not fit the order has no effect on it. The user's
rate limit and the Redis lock of a redemption are only ways to fail. Refunds are
one action: an order may enter a refund status from `COMPLETED` and return.

**`PaymentRefund`.** `status`, `refundAmount` and `tradeNo` are columns of the order,
`audit` and `pendingRow` the audit rows that the code reads again, `gateway` the state of
the refund of each amount at the gateway. A handler carries its `plan` from the
preparation to the end, however old it is. `taken` is history: what the refund has taken
from the balance. Days of a subscription go the same paths as a balance.

**`AuthCache`.** An entry is "fresh" as long as it is what the database says; `Change` is
the transaction of a change, the trigger's row included. `stage` of an outbox row goes
from the first pass through the safety delay to the second one and out of the table;
`claim` is `claimed_by`. A request keeps in `held` what it has read until it has filled
the caches. The safety delay is an event that may not happen before the requests that
held an entry at the first deletion (`waits`) have ended; that they outlive it is the
fault `slowFill`. No TTL is needed for any property.

**`IdempotencyRecords`, `Idempotency`, `SystemOperation`.** One action is one statement.
Statements that name a row by id are kept apart from those that name it by key: `ids`
says whose id is still that of the present row. Deadlines are relative to the
present and `Tick` moves all of them; a request reads the clock once, so it carries
the age of its "now". `DeleteExpired` is one SQL statement, but two steps here: its CTE
selects ids from a snapshot (`victims`), and its DELETE does not look at `expires_at`
again, so that a row reclaimed in between goes too (fault `swept`). `SystemOperation` gives `Execute` its operation: `LockCreate`,
`LockRead` and `LockReclaim` are the statements of `Acquire`, `Renew` is a round of the
renewal, `Release` writes by id. `rounds` are the rounds that were under way when the
release stopped the renewal: they may still extend the row, whoever holds it. `claimant`, `spent`, `lapsed` and `lease` are
history. `Tick` may not let a lease end that is still renewed or about to be
released; that it does is the fault `stall`.

**`OAuthRefresh`.** Credentials are numbers in the order in which the provider issued
them: `issued` is the newest, the only ones whose refresh token works; `stored` are those
of the row; `cached` is the access token in Redis. `locked` is the lock in Redis with the
goroutine that set it, which the program does not know: `Release` deletes it whoever
set it. `mutex` is the lock of each process, `pc` the next call of each goroutine, `given`,
`copy` and `new` the credentials it was called with, read under the lock and got. For
Grok the row's credentials are compared and swapped, and the mark compares them; for
Anthropic both are unconditional; the platform is chosen at the start. The provider may
refuse a refresh in three ways: for a while; with `invalid_grant`, after which the row is
read again; or by turning the account down (`access_denied`, `entitlement_denied` and the
other texts of `isNonRetryableRefreshError`), after which a cycle marks the account at
once although its refresh token lives (fault `denied`).

**`ConcurrencySlots`.** A *pool* is a user or an account. `slots[s]` are the requests with
a member in the sorted set of pool `s`, `live[s]` the calls with a lease there;
`ghosts[s]` counts the members nobody will remove (a release that failed, an
acquisition whose answer was lost, a crash), `strays[s]` the leases nobody will refresh.
All four count towards the limit until their time is over. `waits[s]` is the counter of
waiters. `pc`, `on` and `excluded` are the request's place, account, and the accounts
that have failed it; the selection may try any other. Every script is one
step. `unswept` are the pools a starting process has still to sweep, before it serves. A
session begins when the handler has answered and released the user's slot. The counter
expires only while nobody waits: its time to live, set by each increment, is assumed to be no
shorter than a wait.

**Faults and history.** In every module a fault is a step that costs one of
`MaxFaults`, and its kind is named at the head of the module. Where a property
does not hold under every kind, the variable `happened` records which kinds did, and the
property names those it excludes. Where a module has no `happened`, the runs name the
kinds they allow (section 3).

## 3. Runs

| Run | Question | Bounds |
|---|---|---|
| `BatchImageTwo` | two jobs of one user, who share the frozen pool: `TypeOK`, `LiveJobIsFunded`, `CompletedIsCharged`, `MoneyOnlyFromOwnHold`, `TerminalIsFinal` | 2 jobs, one of which may be cancelled and resubmitted, a balance for both holds or for one, 1 worker, 1 fault of any kind but lock, retry limit 1 |
| `BatchImageOwner` | `OpenHoldHasOwner`, and under fairness `HoldIsResolved` | 1 job, a balance for its hold or none, 2 workers, 3 faults of db, bill, provider, workerCrash, retry limit 2 |
| `BatchImageQueue` | `InflightIsPresent`, `OneWorkerPerJob`, the refinement of `JobQueue`, and under fairness `QueuedIsProcessed` | 2 jobs, 2 workers, 2 faults |
| `PaymentOrder` | `TypeOK`, `AcknowledgedIsSettled`, `OnlyOwnerFinishes`, the refinement of `Purchase`, and under fairness `PaidIsSettled` | 2 handlers, 2 faults of any kind |
| `PaymentOrderAck` | disagreement: `NoFailureAcknowledged` is violated | 1 handler, 1 failed lookup |
| `PaymentRefund` | `TypeOK`, `DeductedForRefund`, `RefundedMeansReturned`, `ReturnedIsRemembered`, `RefundedIsFinal` | 2 handlers, amounts 1 and 2 of 2, deposit 2, 2 faults of any kind |
| `PaymentRefundRollback` | disagreement: `DeductedOnce` is violated | 1 handler, 1 amount, 1 failed rollback |
| `AuthCache` | `TypeOK`, `StaleL2IsPending`, `StaleL1IsPending`, and under fairness `EventuallyFresh` | 2 processes with a request each, 1 change, 1 fault of any kind |
| `SystemOperation` | `TypeOK`, `OneUnlessLapsed`, `NoRepeat`, `SuccessStays` | 2 handlers, 1 key, 3 operations, TTL 3, lease 2, requests of up to 2 ticks, 1 fault of any kind |
| `SystemOperationLock` | disagreement: `OneOperation` is violated | the same, no fault |
| `OAuthRefresh` | `TypeOK`, `NoReuse`, `ErrorMeansDead`, `StaleTokenIsDue`, `StoredNeverRegresses`, and under fairness `DueIsServed` | 2 cycles, 1 request, 1 administrator in 2 processes, both platforms, 3 credentials, 1 fault of any kind |
| `ConcurrencySlots` | `LimitKept`, `WaitersBounded`, `NothingLeaks`, and under fairness `UnmeteredEnds` | 2 requests and 2 live calls of one user in 2 processes, 1 account, limits 3 and 2, queues of 1, 1 fault of any kind |

Why the bounds are enough to be interesting: one job already meets the
submission, the cancel, the recovery and two workers at once, which are all the
actors the code lets near a row; the second job is there for the one thing jobs
share, the frozen pool. Two jobs with one worker and one fault are 2.6 million states; the
other dimensions are in `BatchImageOwner`, whose three faults allow a stalled settlement
with a failing release or a worker crash followed by a lost lock, and whose retry
limit of 2 (5 in the code, which compares it in one place) allows a retry that works. The
invariants of `BatchImageTwo` were also checked for one job with two workers and three faults
of every kind, lost locks included (2.4 million states), and, with a balance for both holds, under two
faults (8.7 million) and with clients that resubmit both jobs (5.9 million); the theorems of section 4 have no
bounds.
Hold 1 gives a job the costs 0 and 1, nothing returned and everything returned.

Orders do not share state that the properties ask for, so `PaymentOrder` has one. Two
handlers are one that works on it and one that races it, and begin new requests
for ever; two faults allow a lease that expires under its holder and a crash of the
successor, or a transaction whose success is not seen and one that fails, or a failed
lookup whose webhook is acknowledged and a crash of the handler that worked on the
order meanwhile (1.4 million states).

A refund needs two handlers (two administrators, or one that executes and one that
queries) and two amounts (a second plan with another amount is another refund at the
gateway); two faults allow a failed rollback before a second execution.

`AuthCache` has a process that fills its cache late while the other works on the
outbox; one change and one fault. With two faults, and with two changes and none, the
invariants were found to hold as well; the theorems have no bounds.

In `SystemOperation` a lease of two ticks, a TTL longer than it, and requests that last up
to two ticks let every deadline pass before, during and after every statement; the third
operation takes the lock over from the second (2.6 million states). In `OAuthRefresh` three credentials are two refreshes, so that a second one can
meet what is left of the first; safety was also checked with two faults (7.7 million
states), which it takes for a goroutine that is refused because of a rotation that
got lost, cannot read the row again, and marks the account while the lock holds.

In `ConcurrencySlots` two requests and two calls compete for three slots of the user and two
of the account, so that each limit is reached while the other is not, by slots and by
leases, and both queues fill. Every fault kind may happen once, together with the sweep of
the process that crashed. Three requests with two faults and limits of
2 and 1 were checked as well; the theorems have no bounds.

`CHECK_DEADLOCK FALSE` everywhere: a system whose jobs or orders are all finished
stops.

Fairness. `BatchImageOwner` assumes weak fairness of every handler that has begun
(a goroutine that is not dead runs on), of the provider (a batch ends), of ageing
and of lock expiry after a crash (time passes), and strong fairness of a worker
taking a given job: the ready list is popped in insertion order, the delayed mover
and stale recovery loop for ever (`BatchImageWorkerRuntime.Start`), and
`BatchImageQueue` checks that a queued job is indeed processed. The latter
assumes the same of Redis-level steps: the mover and the recovery are tickers,
a score gets old whenever no heartbeat refreshes it, and a job in the ready list
is reached because `RPOP` takes the oldest.

`PaymentOrder` assumes that a handler that is not dead runs on (weak fairness),
that a provider repeats a notification until it is answered with success, and that
one of the repetitions finds a free handler (strong fairness, because handlers serve
other requests meanwhile), and that five minutes pass when nobody works on the order.
The middle one is the providers' documented behaviour, for some days. It is needed:
once an order is `RECHARGING` or `FAILED`, nothing in the code itself comes back to
it, neither the reconciliation nor the verification, which look at `PENDING` and
`EXPIRED` orders only.

`AuthCache` assumes weak fairness of a request that has begun, of the workers (they poll
every half second), of the delivery of messages, and that delays and leases pass. Nobody
has to ask for the key again, and no entry has to expire.

`OAuthRefresh` assumes weak fairness of every goroutine that has begun, of the cycle
(a ticker) and of the expiry of the lock (its TTL). `DueIsServed` has a
premise instead of a stronger assumption: requests only try to refresh, they mark nothing,
and a cycle that finds the lock held gives up until the next one; if requests found the
lock free over and over, cycles might always find it held. So the property is about
behaviours in which requests come to rest.

`ConcurrencySlots` assumes weak fairness of two steps of the controller of a call: its ticker
fires, and a refresh finds that the lease is gone; and what is then left to do is done. It
is not assumed that calls end by themselves, or that requests get a slot.

`PaymentRefund` and `SystemOperation` have no liveness property: nothing in the code
comes back to an order in `REFUNDING` or to a failed operation but the administrator, and
a client need not retry.

Faults that `BatchImageOwner` leaves out, because the code loses a hold under
them: a Redis error or a crash between the storing of the provider job and the
enqueueing (only a resubmission by the client enqueues the job again), an
error reported for a reservation that committed, and a worker's lost lock
(section 6). They are listed as hazards.

## 4. Proofs

`BatchImage_proofs`, for any sets of jobs, users and workers, any holds and
balances, any retry limit and any number of faults. Under faults of every kind:

* `TypeCorrect`, one lemma per group of actions;
* `Invariance` of `IInv`. The checked invariants are not inductive: that no
  release pays back the hold of a job at the provider depends on where each
  handler is. `IInv` adds: a Submit that has not yet stored the provider job
  meets only unsubmitted, failed or cancelled rows (`EarlyStatus`); a handler
  about to release stands before a terminal row (`ReleaserStatus`); a worker
  inside Settle stands before a settled row with a hold, and has captured it when
  it is about to mark (`SettlerState`); a refunded job does not reach the provider
  any more (`RefundedStatus`); the cost of a captured job no longer changes
  (`CapturedState`); every status from the reservation on has its hold
  (`HoldState`). The step is proved along four evolution lemmas (how the
  status, the money, the handlers and the workers move in one step), so that each
  conjunct is preserved by a short case analysis and not by forty;
* `Charged` and the action property `Final` follow from it;
* `Pool` (`FrozenIsOpenHolds`): `frozen_balance` of a user is the sum of his open holds,
  less those that were paid twice. No transaction looks at the sum, and there is no
  prover here for induction over the jobs it ranges over, so the sum is the cardinality of a set: a hold is the
  set of its units (`Money`), and the library's theorems on the cardinality of unions and
  differences say what one claim more or less adds to it;
* `Funded` (`LiveJobIsFunded`), from `Pool` and `ProviderInv`: a job whose provider job is
  named and works is in a status from which no handler but a Cancel with an older copy can
  give its hold back, and that Cancel is in `outrun`;
* `OwnHold` (`MoneyOnlyFromOwnHold`), from `Pool` and `ExhaustInv`: a hold that was captured is
  released by a settlement at its retry limit only, as long as no lock is lost.

The rest depends on the faults, and says under which the disagreements 1, 3 and 4 of
section 6 cannot happen. All of it rests on frame lemmas (a handler touches its own job
only: `OtherJobs`, `OtherWork`) and, when no lock is lost, on `HoldsLock` and
`SettlingSeen`: a worker has its job to itself, so that what it has read of the settlement
stays true until it acts on it.

* `NoneForgotten`, without faults of queue, submitCrash and lock (`Undisturbed`): a job at
  the provider or in settlement is in the queue or about to be enqueued by its Submit,
  whoever cancels it. Under each of the three kinds TLC finds a forgotten job.
* `EveryHoldHasOwner`, without commit, queue, submitCrash and lock (`Reliable`): an
  open hold whose release is not claimed is in the hands of a release, or queued, or still
  unsubmitted, with clients that cancel at any time and submissions that stall. So a hold is
  lost in one way only, the early release of section 6, 1. The invariant, `OwedInv`, is stated
  about jobs that have a hold *or will have one* (`Owed`): a worker that acknowledges a
  cancelled job before it has its hold must have claimed its release. For the jobs whose own
  client does not cancel, and without stalls, a release returns the hold (`KeptJob`); hence
  `KeptHoldHasOwner` and, when nobody cancels, `HoldHasOwner`, which is the property of the
  run. Under each of the four kinds TLC finds an open hold without owner, and under stall one
  whose release the recovery has claimed early.
* `NeverBoth`, without bill, commit, queue and lock (`Accountable`): no job is both charged and
  refunded. Neither transaction looks at the other's claim, so it rests on the count
  of settlement failures: it is exhausted only if no capture was committed, and then stays
  exhausted (`OnceInv`). Under bill and under commit TLC finds a job that is both; that the other two
  are excluded is a limit of the proof.
* `Refinement`: under the same faults the handlers implement `JobPayment`, with `fate` read
  off the claims. It says that balances, holds and costs agree for all jobs of all users at
  every step. Both were also checked by TLC on the instance of `BatchImageTwo`
  without these faults.

`BatchImageQueue_proofs`, for any sets of jobs and workers and any number of
faults: `TypeCorrect`, `InflightCorrect`, `Exclusion` (`OneWorkerPerJob`, with the
strengthening that a worker past the lock either holds it or is marked as having
lost it) and `Refinement` (`Spec => ImplementsJobQueue`).

`PaymentOrder_proofs`, for any set of handlers and any number of faults:

* `TypeCorrect`, and `Invariance` of `IInv`. Neither "credited once" nor "COMPLETED
  after the rebate" is inductive: they rest on what each handler may assume at its
  point of the fulfilment. `Once` says that each count is that of the record guarding
  it, that the rebate implies the credit, and that a handler about to accrue, or to
  complete, finds the earlier step done, no matter who did it. `Origin` says that
  whoever acts for a payment has one: the creation of a paid order is over, so that
  its unconditional `FAILED` cannot hit it;
* `Refinement`: `Spec => ImplementsPurchase`, under faults of every kind;
* `Acknowledged` (`AcknowledgedIsSettled`): an order found not payable never becomes
  payable again (`Answered`);
* `Ownership` (`OnlyOwnerFinishes`): only the handler that took the lease last remembers
  its version, until one reads it back too late (`Leased`).

Both hold under faults of every kind; the two histories they name, a failed lookup of a
webhook and a slow reload, are what the code does not prevent (section 6).

`PaymentRefund_proofs`, for any handlers, amounts, deposit and number of faults:

* `TypeCorrect`, which holds that a refund never overdraws the balance;
* `ReturnedFirst` (`RefundedMeansReturned`) from `IInv`: a handler about to write
  `REFUNDED` has the gateway's "done" for its amount in hand (`Returned`), and one that
  waits for an answer has asked (`Asked`);
* `Deducted` (`DeductedForRefund`) and `Final` from `Orderly`: as long as no query is
  overtaken, at most one handler is inside the execution of a plan and a query that
  will finalize stands before `REFUND_PENDING` (`Alone`), and `taken` is what the place of
  that handler says (`Accounted`);
* `TakenOnce`, from the same: what violates `DeductedOnce` (section 6) is a rollback that
  failed, or a query that was overtaken, and nothing else;
* `NotForgotten` (`ReturnedIsRemembered`), from `Attended` and `Remembered`: a query during
  which an execution began knows to be overtaken, so that whoever is about to take the order
  back, after a refusal or a "failed", stands before a gateway with no refund under way.

`AuthCache_proofs`, for any processes, requests, changes and faults: `TypeCorrect`, and

* `StaleL2`: inductive are that only due rows are claimed (`ClaimsAreDue`) and that a
  stale entry in the hands of a request has a row whose second pass waits for that
  request (`FillsAreAwaited`); from them a stale entry in Redis has a deletion before
  it (`L2IsDeleted`), and not merely a row;
* `StaleL1` on top of it: the same for the entries of the processes, with the message of
  the last pass, or one under way.

`OAuthRefresh_proofs`, for any goroutines, processes, platforms, number of credentials and
faults:

* `TypeCorrect`, with `Known`: credentials in a goroutine's hand have been issued;
* `NoReuseTheorem`, from `Exclusive` and `Current`: while credentials are not lost, the lock
  holds and the administrator stays away, a goroutine past the lock is the only one
  there, its copy is that of the row, and the row has the newest credentials unless it
  has newer ones in hand itself;
* `StoredNeverRegressesTheorem`, from `Single` and `Ahead`: only one goroutine can have
  credentials that are not stored, those issued last, even when the lock does not
  exclude, because the provider refuses everybody else;
* `ErrorMeansDeadTheorem`, along two arguments for one invariant, `Hopeless`. As long as
  the lock holds, who is refused has the credentials of the row and nobody has newer ones,
  so they are lost for good, whether or not the row can be read again (`Settled`, under
  `Watched`). When it does not hold, a goroutine on its way to the mark has seen that
  nobody's newer credentials were in the row (`Handed`, under `Told`); that needs a look
  which neither fails nor comes too early. Neither argument is about an account that the
  provider has denied. An authorization by the administrator is excluded: it stores the
  new credentials and clears the error by two calls, and a mark may come after both, or a
  crash between them; so is an edit, which brings dead credentials back;
* `StaleTokenTheorem`, from `Prompt`: credentials that are not due are not refreshed, so
  that all but the newest of the row are due.

`SystemOperation_proofs`, for any handlers, keys, operations, deadlines, a TTL longer than
a request, and any faults:

* `TypeCorrect`;
* `Exclusion` (`OneUnlessLapsed`), from `Held`: the only holder has a lease, and the lock's
  row is `processing`, locked and present for at least as long, so that neither an
  insert nor a reclaim nor the cleaner of another gets past it. Deadlines are
  relative to the present, hence every step is compared with a row all of whose numbers
  may have moved;
* `Once` (`NoRepeat`) and `Recorded` (`SuccessStays`), from `Owned` and `Guarded`: who
  executes for a key has claimed it last, and the row still says so; and the row of a key
  that excludes others lasts as long as it does. Both hold until a request is `overtaken`
  or a row is `swept` (section 6, 8). Rounds of the renewal that outlive their operation
  (`rounds`) can only extend the row of an operation that has their fingerprint, or has taken
  it over, and extending harms no one who relies on the row.

`ConcurrencySlots_proofs`, for any finite set of requests, any calls, processes, users,
accounts, limits, queues and number of faults:

* `TypeCorrect`;
* `LimitTheorem` (`LimitKept`), from `SlotsHeld` and `Bounded`: while no slot was taken
  from a living request, one that believes it has a slot does have it, and slots and leases
  together never have more requests than the limit. The allowance of the lease script
  is what needs the argument: slots, ghosts, leases and strays may together exceed the
  limit, but a call that takes a lease already is among the requests with a slot, so that
  the union, which is what `Bounded` counts, does not grow;
* `WaitersTheorem` (`WaitersBounded`), from `QueueBounded`: the counter is never less than
  the number of waiters, and never more than the longest queue;
* `LeakTheorem` (`NothingLeaks`), from `SlotsUsed`, `LeasesUsed`, `Exact` and
  `SweepAfterCrash`: a slot or lease belongs to a request that is at a place where it is
  still going to be released, and only after a crash is there anything to sweep.

The proofs assume only the named ASSUMEs of the modules: model values are distinct,
bounds are naturals, the set of jobs is not empty, holds and balances are naturals.

Model-checked only: `HoldIsResolved`, `QueuedIsProcessed`, `PaidIsSettled`,
`EventuallyFresh`, `DueIsServed` and `UnmeteredEnds` (liveness under fairness is out of the prover's
reach). Every invariant and action property
of the passing runs is stated by a theorem, some under the hypotheses given above.
That `queue` of `BatchImage` is `pending`
of `JobQueue` is an argument by reading, not a composed proof: `BatchImage`
adds to it in `Enqueue` and in requeueing and removes from it in acknowledging,
which are `JobQueue`'s actions `Enqueue`, `PutBack` and `Ack`.

## 5. Not modelled

Of payment orders: amounts, currencies and provider matching, the limits on pending
orders, daily amounts and cancels, the selection of a provider, audit rows that
guard nothing, notifications by e-mail. Of refunds: the gateways' own
requests (a gateway here makes one refund per order and amount), statistics, and force.

Of the authentication cache: what an entry contains, the negative entries, the jitter of
TTLs, columns that no trigger compares. Of the idempotency of requests: the stored
response, hashes, metrics.

Of OAuth: the requests of Gemini, OpenAI, Antigravity and (but for the manual test) Grok
accounts, which call the same `RefreshIfNeeded`; pages, rate gates, circuit breaker and
pauses of the cycle; service accounts; the copies of accounts in the scheduler's cache,
which are any credentials up to the stored ones.

Of the slots: those of API keys, which limit nothing and are counted for statistics; the
leases of the WebSocket ingress; pools without a limit; the upkeep of the index of active
pools and the periodic clean-up, which only removes what has expired; the cache of loads
(the selection may err in any way); the hand-over of a live call between controllers; the
one-time sweep of counters in an old format.

Of the batch image subsystem: request validation and pricing, the item rows and
their parsing, downloads and their limiter, the listing and deletion of expired
output (only the status change is), the usage log, events, archiving of dedup
rows (an archived id answers like a live one).

The other components of section 1 are listed in `PROJECT.json` with the reason:
either planned (below), or stateless transformation, reporting, CRUD or external
I/O.

The share of the repository's lines that the modules stand for is small and will stay so.
More than a fifth of the backend is the generated ORM under `src/backend/ent`, whose
state is the rows the modules already have; most of the rest translates requests and
streams between providers' formats, keeps settings, or reports. What is modelled are the
places where several actors meet in the database and in Redis.

## 6. Where code and documentation disagree

Three are runs that TLC must find violated:

* *A deduction may be made twice* (`PaymentRefundRollback`). A refusal whose rollback
  failed leaves the amount deducted; the retry skips the deduction, the gateway answers
  "pending", the rollback of nothing is recorded as done, and the finalization deducts
  again. `payment_refund.go:307-308` means to skip a deduction already made.
* *The system lock is not renewed after a takeover* (`SystemOperationLock`).
  `TryReclaim` leaves the fingerprint of the operation before, `ExtendProcessingLock`
  asks for that of the present one, the renewal ends at its first round, and 30 seconds
  later a second update starts beside the first, although
  `system_operation_lock_service.go:20` promises "busy". The lock's row is kept after a
  release, so every operation after the first takes it over that way.
* *A failure may be acknowledged* (`PaymentOrderAck`). `handleNotify` answers with success,
  for every provider but WeChat Pay, when `GetWebhookProviders` fails
  (`payment_webhook_handler.go:90-98`), and `confirmPayment` and `alreadyProcessed` return
  nil for a failed read of the order (`payment_fulfillment.go:79-83`, `:190-193`). The
  provider stops, and the payment stays unknown unless somebody queries for it.
  `payment_webhook_handler_test.go:124-125` means to keep a "DB failure" from being
  "silently swallowed as an ack", and `payment_fulfillment.go:20-25` reserves that answer
  for an order that does not exist. `AcknowledgedIsSettled` and `PaidIsSettled` say that
  it is the only way in which a payment is acknowledged and forgotten.

The others were met while modelling. They are in the modules, and the properties name
the fault kinds or states that exclude them:

1. *A release id may be used up before the hold exists.* A Cancel between the creation
   of the row and the reservation releases nothing, and commits the release id (so does the
   recovery, if Submit is silent there for long enough); the hold frozen afterwards cannot be
   returned. `batch_image_billing_hold.go:104-106` takes a used id for a returned hold. By
   `EveryHoldHasOwner` it is the only way in which a hold is lost while submissions live,
   commits are seen, the queue answers and locks hold.
2. *A cancel may leave the provider's batch running without a hold.* Cancel decides by an
   old read whether there is a provider job to cancel. `batch_image_billing_recovery.go:53-55`
   excludes this. `LiveJobIsFunded` holds of every other job, cancelled or not.
3. *A captured hold may be released.* Capture succeeds, marking fails, the retries are
   exhausted by billing errors, and the exhausted settlement
   (`batch_image_settlement.go:223`) releases the whole hold from the pool shared with
   other jobs. `NeverBoth` is the condition under which it cannot happen. `MoneyOnlyFromOwnHold`
   says that nothing else makes the pool differ from the holds, and by how much it then
   does; `LiveJobIsFunded` that nothing else leaves a running job without its money.
4. *A settling job may be forgotten.* A worker whose lock expired takes `settling` for
   done and acknowledges the job. `batch_image_processor.go:192-193` says such a job is
   put back. Without the expired lock it is (`NoneForgotten`).
5. *A lease may be read back that is somebody else's* (fault `slowReload`). The lease is
   taken by one statement and its version read by another; a handler that stands in
   between for five minutes gets its successor's version and may set `FAILED` under
   it. `payment_fulfillment.go:810` says the version prevents that. No money is
   at stake: `PaymentOrder` checks, and `Refinement` proves, the single credit under
   this fault too.
6. *A refund at the gateway may be forgotten* (excluded by `ReturnedIsRemembered`). A call
   that fails, or whose answer is lost, is taken for a refusal, and the order returns to
   `COMPLETED` or `REFUND_FAILED`; so it does when the deduction of a new plan
   fails while a refund is pending (`payment_refund.go:716`). The user may then have the
   money and the balance.
7. *A query may finalize another refund than it asked about* (`staleQuery`): the status
   writes at the end have no condition.
8. *TryReclaim does not compare `expires_at`* (fault `overtaken` of `Idempotency`): an
   expired row that was reclaimed, executed, and has expired or failed again looks like
   the one a slow request has read. *DeleteExpired does not compare it either* where it
   deletes (fault `swept`): a row selected while expired and reclaimed before the DELETE
   reaches it is removed under its execution, and the key, or the system lock, is free again
   (`idempotency_repo.go:221-230`). *Outcomes are written by id* without an owner: the
   release of an operation whose lease lapsed ends the lock of its successor
   (`idempotency_repo.go:175`). *The renewal is not waited for* by `Release`: a round under
   way may extend a row after its operation (`system_operation_lock_service.go:145-147`);
   with the fingerprint kept by a takeover it may even be the successor's, which
   then has a longer lease and nothing else.
9. *The administrator's refresh takes no lock* (`account_handler.go:1283`), and
   *`UpdateAccount` writes credentials back that it read before* (`admin_account.go:780`
   to `account_repo.go:438`): an edit beside a refresh restores a refresh token that is
   dead, and the account must be authorized anew. *The lock of a refresh is deleted
   whoever set it* (`gemini_token_cache.go:46`): a holder that outlives its TTL unlocks
   its successor. The recovery from a race makes this harmless unless it fails or looks too
   early. *A denied account is marked with its refresh token alive*
   (`token_refresh_service.go:992`, `:1436-1466`), by intention.
10. *A process that starts sweeps away what others hold* (`purge` of `ConcurrencySlots`):
    the sweep removes all slots without its own prefix and all counters, those of other living
    instances included, so that the limits may be exceeded until their requests end.
    `concurrency_cache.go:1240` says that the wait counts belong to dead processes.
    *A counter that was incremented by a request that died does not expire under traffic*:
    every increment sets its time to live anew, and the queue stays shorter by one.
    *A stream without its client holds no slot* while it is drained, although the account
    is still busy with it.

Two hazards of `PROJECT.json` have no property, because the code does not prevent them and
no property that holds can exclude them: they are 1 and 4 above. The theorems
`EveryHoldHasOwner` and `NoneForgotten` say which faults it takes.

## 7. Plan

In order of what a fault would cost the operator.
The project keeps to twelve runs, so that all of them can be repeated at every
change: a new module's run takes the place of one that shows a disagreement, or joins
its properties to an existing run.

1. `UsageBilling` and `BillingCache`: one charge per request id; write-back
   against invalidation.
2. `SchedulerSnapshot`, `LeaderLock`, `UserMsgQueue`.
3. A composition of `BatchImage` with `BatchImageQueue` in place of its `queue`, and of
   `PaymentOrder` with `PaymentRefund` in place of its action `Refund`.
