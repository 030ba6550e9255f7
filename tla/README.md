# Verification of midtrans-middleware

TLA+ models of the backend in `src/backend`: a payment middleware between the shops of
many merchants and Midtrans. This directory holds the specifications, their TLC
configurations and the proofs of their most important properties. References such as
`webhook/service.go:200` are relative to `src/backend/internal/app/` unless they begin
with `src/`.

Contents: 1 the system, 2 the modules, 3 how they correspond to the code, 4 the runs,
5 bounds, 6 fairness, 7 the proofs, 8 findings and known limits, 9 what is not modelled,
10 what is left.

## 1. The system

| component | state | operations | what makes it hard |
|---|---|---|---|
| Charge (`transaction/service.go`) | two Redis locks (key, order; 60 s), the cached result of a key (24 h), rows of `transactions` | `Charge` | requests at once, locks that expire under a handler, a client that disconnects, an accepted charge that is not stored |
| Notifications (`webhook/service.go`, `transaction/status.go`) | `transactions`, `transaction_events`, `webhooks` | `Process` | reordered, repeated and early notifications, two handlers of one row, a commit before the enqueue |
| Webhook delivery (`webhookdelivery/service.go`, `src/backend/cmd/worker/main.go`) | `webhook_deliveries`, `webhook_delivery_attempts`, asynq's tasks | `CreateDeliveryTx`, `Enqueue`, `ProcessTask`, `ResendByUser` | a POST inside a transaction, asynq's retry counter beside the row's, leases, crashes, shutdowns, row locks taken in the opposite order of a notification's |
| Store API tokens (`token/service.go`) | `store_api_tokens`, the cached principal (10 min) | `Authenticate`, `CreateForStore`, `RevokeForStore`, `RotateForStore` | Redis against Postgres, rotations that race |
| Stores (`store/service.go`) | `stores` (status, callback, secret) | `Create`, `UpdateByUser`, `DeactivateByUser`, `RotateWebhookSecretByUser` | columns written back from an earlier read |
| Alerts (`alertendpoint/service.go`) | `alert_endpoints`, `alert_deliveries`, asynq's tasks | `NotifyWebhookFailure`, `ProcessTask`, edits and tests of an endpoint | insert and enqueue are two calls; edits while alerts are sent; deletions that deadlock with handlers |
| Authentication (`auth/service.go`) | `users`, `sessions`, reset tokens, recovery codes | login, refresh, logout, MFA, password reset | every check is outside of the transaction that writes; columns written back from an earlier read |
| Rate limit (`src/backend/internal/transport/http/middleware`) | counters in Redis | one check per request | a window that ends between two commands |
| HTTP server | none of its own | routing, decoding, mapping of errors | a 10 s write timeout over calls that take longer |
| Migrations (`src/backend/internal/platform/migrate`) | `schema_migrations` | `RunUp` | two processes that start together |
| Dashboard session (`src/dashboard/src/lib/auth/session.ts`) | tokens of the browser, the refresh in flight | refresh, retry after 401, logout | a logout that overtakes a refresh |
| Dashboard pages, configuration, logging, metrics, masking, smoke tools | none | | |

How they interact. A shop calls `Charge` with an API token (`Authenticate`). The handler
locks the idempotency key and the order in Redis, asks the cache and Postgres whether the
charge exists, calls Midtrans, inserts the row and caches it under the key. Midtrans then
sends notifications. `Process` locks the row of `transactions`, decides from the status it
reads what to write, inserts an event and a delivery in the same transaction, commits, and
only then enqueues the delivery with asynq. The worker runs `ProcessTask`: one transaction
that locks the delivery and its store, POSTs to the callback URL of the shop, writes the
attempt and the delivery and commits. What the handler returns decides whether asynq
deletes, retries or archives the task. A delivery that has failed for good is announced by
`NotifyWebhookFailure`, which makes an alert and a task for every endpoint that listens, and
may be resent from the dashboard. `Process` and `ProcessTask` lock rows of `transactions` and
`stores` in opposite orders and can deadlock. The dashboard's users log in, refresh their
sessions and confirm them with TOTP; `DashboardAccess` lets only such sessions through. Components share rows and
Redis keys, never memory, with one exception: the handlers of the worker share the variable
`err` of `run()`.

What makes each modelled component correct:

- delivery: one attempt at a time, one row per counted attempt, the limit of attempts,
  a success is final, every send settles, a failure is announced;
- notifications: a status never moves back, a time is written once, events are a gapless
  record, the row ends at the status Midtrans has, the merchant is told of it;
- charge: an order is accepted once, the row is what Midtrans accepted, only stored charges
  are answered with success, one handler charges an order, a key names one request, a retry
  is answered, locks come free;
- tokens: a lineage has one active token, a revocation ends it, no copy outlives the store
  or the expiry, a revoked token leaves the cache for good;
- stores: only an edit that asks for it activates a store that was deactivated;
- alerts: nothing goes to an endpoint that is switched off, an alert is accepted once, every
  endpoint that listens is told or the caller is, the retries of a task last as long as the
  attempts of its row, every enqueued alert settles;
- authentication: a closed session stays closed, a reset ends the sessions it found, an
  exchanged token is refused, no session gets to the dashboard without a code of its own, the
  secret of the account is a confirmed one, a code counts once.

PROJECT.json lists the hazards behind them, each at its line.

## 2. The modules

| module | what it is | related to |
|---|---|---|
| `DeliveryLifecycle` | abstract: the life of one delivery row | implemented by `WebhookDelivery` |
| `WebhookDelivery` | deliveries, asynq, worker, and the row locks of the notifications that make deliveries | |
| `TransactionStatus` | pure: `MapMidtransStatus`, `ShouldApplyStatusUpdate` | extended by the next two |
| `TransactionLifecycle` | abstract: the life of one transaction row | implemented by `MidtransWebhook` |
| `MidtransWebhook` | Midtrans, `Process`, the end of a charge | |
| `ChargeOnce` | abstract: an order is charged once | implemented by `Charge` |
| `Charge` | `Charge` with Redis, Postgres and Midtrans | |
| `TokenLineage` | abstract: the valid token of a lineage | implemented by `StoreToken` |
| `StoreToken` | API tokens, their cache, and the edits of the store they depend on | |
| `AlertLifecycle` | abstract: the life of one alert row | implemented by `OperationalAlert` |
| `OperationalAlert` | alert endpoints, alerts, asynq, worker | |
| `DashboardAuth` | the account of one dashboard user: sessions, reset tokens, TOTP, recovery codes | |
| `MC…` | instances for TLC: payments, assignments, workloads, symmetry | extends the module it names |
| `…Proofs` | the theorems of a module and their proofs | extends the module it names |

Four of the abstract specifications share the names of the variables they describe, so the
refinement is `INSTANCE` with the variables of the detailed module: `delivery`, `trx`, `alert`,
and `accepted`, `row`, `created`. `TokenLineage` speaks of lineages where the rows of `StoreToken`
are tokens: its `issued` are the tokens with a row, its `valid[l]` (`Valid`) the active tokens whose
`root` is `l`. Everything else (locks, program counters, queues, budgets) is
hidden, and the steps that touch only it are stutters of the abstract specification.

Operators whose name has a suffix, such as `Load_WithoutForUpdate`, are variants of the
definition they are named after with one plausible mistake. No specification uses them; each
stands for the mistake some property must detect, and PROJECT.json names the pair.

## 3. Correspondence with the code

`map` in PROJECT.json gives the lines of every definition. Steps of a handler are the points
where another actor can intervene: each call of Postgres that takes a lock or commits, each
call of Redis, each call of a remote system. Everything between two of them is one action.

**WebhookDelivery.** `delivery` is `status` and `attempt_count` of a row; `attempts` the rows
of `webhook_delivery_attempts` of its current send; `lock` the row of the store, which the
`FOR UPDATE` of `loadDeliveryStateForUpdate` locks together with the delivery, since the
query joins both (`webhookdelivery/service.go:784`). A task `<<d, k>>` is the asynq task of
the k-th send: `Enqueue` gives no task id, so every resend makes a new one, and an old one
may still be alive. `Load`, `Post`/`CannotSign`, `Record` are `ProcessTask`; `Record` chooses
the status as the code does (permanent error, last attempt, retry) and commits attempt and
delivery together. `RecordFails` and `CommitAnswerLost` are the two outcomes of a failing
transaction; `unrecorded` counts the runs whose transaction was rolled back (history).
`LockTransaction`, `CreateDelivery` and `NotificationFails` are the notification that makes the
delivery, as far as it locks: `processing` is its `FOR UPDATE` on the row of `transactions`, and
its INSERT needs the store, by the foreign key. `Record` needs the transaction, for its audit row
(`webhookdelivery/service.go:375`), and has the store. When both wait, `Deadlocked`, Postgres
aborts either: `NotificationFails` or `HandlerAborts`. `Returns` and `Return` are the task handler of `main.go:130`, with the shared
`err`. `RetryOrArchive`, `RecoverLease` and `Shutdown` are asynq (external), as the options
`MaxRetry(maxAttempts-1)`, the default lease and `server.Shutdown` make it behave. `sends`,
`posts` and `alerted` are history.

**MidtransWebhook.** `payment`, `moves`, `sent`, `acked` are Midtrans (external): it moves a
payment, sends a notification for the move and repeats it until its 200. `trx` is the status
of a row and `paid_at`, `expired_at`, `cancelled_at` (0 is NULL; a time is the number of the
move, and the notification of a `Timeless` payment has none that `parseMidtransTime` can read). An event carries the state of the delivery inserted with it. `GetTransactionState` is
the `SELECT … FOR UPDATE`; `Commit` is everything up to the commit, including the event that
is written when the status does not change; `Enqueue` follows it. `NotFound` is the early
answer for an order without a row (`webhook/service.go:200`). `PersistCharge` is the insert
of a charge, which a notification may overtake.

**Charge.** `keyLock` and `orderLock` are the Redis keys of `acquireLock`; `Orphan` is a lock
whose handler is gone. `cache` is the idempotency entry, `row` the request stored for an
order (`raw_request`, compared as `jsonb`, which holds the order and the payload and not the
key), `accepted` what Midtrans has (external: it refuses an order id it has). Handler steps
follow the code in order; `releaseLock` is a DEL without a check of the holder
(`transaction/service.go:961`), so `UnlockOrder` sets the lock free whoever holds it. Every
call has its failure; `Abort` is a client that disconnects (the context of the request is
the context of the DELs) or a process that dies.

**StoreToken.** `status`, `root` and `expired` are the rows, `cached` the Redis copies,
`active` the status of the store. `UpdateByUser` of a store is `ReadStore` (`GetByUser`, and the
status it will write: the one it read unless another is asked for) and `UpdateStore`; between
them `DeactivateStore` or another edit may come. `off` and `late` are history: that the owner
wants the store inactive, and which edits had read it before. A rotated token passes on its `expires_at`, so expiry
belongs to the lineage (`root`). `RotateForStore` (a read without a lock) and `ReplaceToken`
(the transaction) are separate steps; so are every statement and the DEL or SET behind it.
`gone`, `reason`, `wrong` and `ended` are history: why a request should have been refused
since the moment it arrived, and what accepted requests got wrong.

**OperationalAlert.** An alert `<<c, e>>` is the row that call `c` (of `NotifyWebhookFailure` or
`SendTestByUser`) makes for endpoint `e`, and its asynq task; `todo` are the endpoints the loop
of `NotifyWebhookFailure` has still to serve, and `result` what it will return.
`loadDeliveryStateForUpdate` locks the alert and then its endpoint (`LockAlert`, `LockEndpoint`,
with `lock` the row of the endpoint); a deletion locks the endpoint and then, by the cascade,
its alerts (`DeleteByUser`, `Cascade`). When each holds what the other wants, Postgres aborts one
(`DeleteAborts`, `HandlerAborts`). An edit is `ReadEndpoint` and `UpdateByUser`, which writes
every column back; `off` and `late` are history as in `StoreToken`. `Record` writes the alert as
the code does, including an endpoint that is inactive by now, which is a permanent error.
A worker that stops takes the handlers of alerts with it, and those of deliveries that were
in the loop of `NotifyWebhookFailure` (`StopWorker`).

**DashboardAuth.** A handler of `auth/service.go` is a few statements: `pc` says which one is
next, `session`, `key` and `goal` what it was asked, `seen` what it has read of its session. A
transaction of several statements has two steps: the one in which its statements find, lock and
write their rows (`Hold`, in `rows`), and the COMMIT that shows the writes to others. `UserFree`
and `SessionFree` are the row locks it waits for. `RefreshSession` is the SELECT with all the
checks, `RotateSession` the transaction that writes the row whatever has become of it.
`PresentCode` is a valid TOTP code or a recovery code; a recovery code is consumed by a statement
of its own, after which the handler goes on to its `goal`. `Admitted` is what the middlewares
`DashboardAuth` and `DashboardAccess` let through. A session is in `proven` from its code to the next
disabling (`Outdated`), unless a request that overlaps the disabling carries it over. `proven`, `confirmed`, `spent`, `owed`,
`raced`, `before`, `ended`, `replaced` and `replayed` are history; no guard reads them.

## 4. The runs

| run | asks | result |
|---|---|---|
| `delivery_resends` | does the row keep its life, one attempt row per count, the limit, a record of every POST, with two handlers, a resend, a failing call, a crash and a shutdown anywhere? | pass |
| `delivery_settles` | does every send settle and every failure get announced, when handlers run one at a time: beside notifications of the same transaction that deadlock with them, and with a resend, a failing call, a crash or a shutdown? | pass |
| `delivery_err_race` | and when two handlers run at once? | violation |
| `webhook_payments` | do transfers and cards move forward, with gapless events and the final status of Midtrans, under reordering, repetition, two handlers and a failure? | pass |
| `webhook_announced` | does the 200 that stops Midtrans mean that the merchant's delivery is enqueued, and is the merchant told of the status in the end, with a failure anywhere? | pass |
| `webhook_before_charge` | is every acknowledged notification applied? | violation |
| `charge_requests` | are charges those of `ChargeOnce`, with a failure, an eviction and an expired lock, two of them in one behaviour; is no lock forgotten; and without them, is an order charged by one handler, does a key name one request, is a retry answered? | pass |
| `charge_foreign_unlock` | do two handlers within their 60 seconds never charge one order? | violation |
| `token_owners` | do tokens go through the life of `TokenLineage` (one valid token, revocation final), out of the cache for good, no stale copy after deactivation or expiry; is a store that was deactivated kept so by edits that race? | pass |
| `token_stale_cache` | is a revoked token refused at once? | violation |
| `auth_account` | do two requests on one account, in six workloads with failures anywhere, open no closed session, lend none a verification, set no unconfirmed secret, use nothing twice that is good for one use, lose no verification? | pass |
| `alerts` | alerts beside edits, deletions, failing calls, crashes and shutdowns: nothing to an endpoint that is off, one acceptance, no endpoint forgotten, retries that last, the life of the row, and does every alert settle? | pass |

`ImplementsLifecycle`, `ImplementsChargeOnce` and `ImplementsLineage` check the refinements step
by step. `OneTimeOnly` says of reset tokens, recovery codes and refresh tokens alike that one which
is used up never serves again; requests that overlap may share a token, which is the exception it
names, but never a recovery code: a request whose code is used or deleted after it was given is refused. `AcknowledgedIsAnnounced` is what makes `StatusAnnounced` come true: as long as the merchant's
delivery is not in Redis, Midtrans has not got the 200 that would end its repetitions.
`CaughtUp` is the convergence of the status machine: once the latest notification has been
applied, whatever late ones follow change nothing. `AttemptLimit` and `PostsRecorded` are
the strongest true forms of the documented "stop after 10 attempts" and "every attempt is
recorded": their bound counts the stops and the rolled back runs that weaken them.
`NotOrphaned`, `EverySendSettles` and the properties of alerts name their exceptions the same
way, per delivery and per alert, so that a failure of one excuses no other.

Deadlock is checked for `Charge`, `StoreToken` and `DashboardAuth`, where a new request may
always arrive. It is not checked for `WebhookDelivery`, `MidtransWebhook` and
`OperationalAlert`: when everything is settled or answered, and the bounds on sends, moves,
repetitions, calls and changes are used up, the system rightly rests. That their handlers do not
wait for each other for ever is what the liveness properties say.

## 5. Bounds and why they are enough

- `MaxAttempts = 2`: the code only tells the last attempt from the others. Two give a first
  attempt that is retried and a last that is not.
- Two handlers (`Concurrency`, `Request`, `Owner`): every conflict the code arbitrates (a
  row lock, a `SET NX`, a rotation) is between two. `charge_foreign_unlock` has three: the
  one that outlives its lock, its successor and the one that is let in.
- `MaxSends = 2`: one resend makes a second task beside the first.
- Two deliveries of one transaction and one store in `delivery_settles`: a handler of the first
  and the notification that makes the second want each other's rows.
- `MaxAttempts = 3` for alerts: an attempt that is neither the first nor the last.
- One thing in `delivery_settles` that a user or a failure does (`MaxIncidents = 1`: a resend, a
  failing call, a crash or a shutdown) and up to four in `delivery_resends`. The second exception
  of `NotOrphaned` (the task of an earlier send that outlives it) needs three attempts and two
  incidents; the theorem of section 7 covers it.
- `MaxMoves = 4` (transfers: pending, settled, partly refunded, refunded; cards: challenged,
  captured, settled, refunded; a capture and an expiry without a time, so that a NULL is filled later):
  the longest chains without repeating a status, so that late
  and repeated notifications of every stage meet. Three where liveness is checked.
- Two keys, two orders and two payloads: what one request can share with another and still
  differ from it.
- Three tokens: a rotation, and another that races it or follows it.
- Two sessions, two reset tokens, two secrets, two batches of codes in `DashboardAuth`: the one
  that is replaced or closed and the one that takes its place or lives beside it. `MaxPassword = 3`:
  a registration, and two changes that overlap. `MaxRefresh` bounds only which tokens are tried.
- Two endpoints, one notification and one test in `alerts`: an endpoint that fails in the loop
  before another one; two alerts of one endpoint.
- `MaxFaults`, `MaxCrashes`, `MaxShutdowns`, `MaxOverruns`, `MaxEvictions`,
  `MaxDuplicates`: at any point of any run one call fails, one process dies, one lock
  expires. `MaxIncidents` bounds them together; two in `charge_requests`, so that both locks of a
  handler may be left.
- Workloads: where the operations of a module touch different rows, a behaviour uses the calls of
  one workload (`AllWorkloads` of `MCDashboardAuth`, `FourLoads` of `MCOperationalAlert`,
  `TokensAndStore` of `MCStoreToken`), chosen in the first state. Together they use every call,
  and each pair of calls that meet in a row: refresh with logout and expiry; a reset with
  refresh, login, a change of password and with TOTP; TOTP with refresh, disabling and recovery
  codes; edits with alerts, deletions with tests, failures and two alerts at once; revocations
  with rotations and expiry; edits with deactivations.
- In `webhook_payments` no row has a callback, so the enqueue step belongs to
  `webhook_announced`.
- Symmetry (requests, keys, orders, payloads, owners, as each MC module defines it) is used
  only in runs without liveness properties.

The theorems of section 7 hold for every value of all of these.

## 6. Fairness

Each `FairSpec` assumes weak fairness of what the code and its infrastructure keep doing,
and of nothing a user, a merchant or a failure does.

- A running handler goes on: its HTTP client has a timeout, Postgres hands a row lock to its
  waiter, and row locks are free again after every holder's commit or rollback. Weak fairness
  suffices where a run uses it because holders are few and finish.
- asynq serves its queue (`Dequeue`) and recovers expired leases (`RecoverLease`).
- An API call that has committed goes on to its `Enqueue`.
- Midtrans repeats a notification that has not been answered with 200, and a charge it has
  answered is stored unless a failure step intervenes.
- Postgres breaks deadlocks, by aborting the handler or the other one (`HandlerAborts` is a step
  of `Handler`), and ends a DELETE (`Cascade` or `DeleteAborts`).
- `Charge`, `StoreToken` and `DashboardAuth` need no fairness: what could only come right in the
  end is stated there as what no step may do (`NoLockForgotten`, `RevocationTakesEffect`,
  `ClosedStaysClosed`).

Nothing is assumed of `Resend`, `MovePayment`, `Arrive`, requests and edits of owners, deletions,
crashes, faults, shutdowns or locks that expire under a handler.

## 7. The proofs

All theorems are for every value of the constants, under the assumptions named in the
modules: bounds are naturals, `StoreOf` is a function, sentinel values differ from the data,
payments have known statuses. `tlapm` checks them without any unproved step.

**WebhookDeliveryProofs.** `TypeInv` is `TypeOK` and `Unsent`: a delivery that does not exist
was never sent. `LockInv` says that a handler between its `SELECT` and its commit holds the
lock of its store and that what it read is current, that a task belongs to a send that has
happened and a handler to an active task, and that attempts and counts agree.
`IInv == TypeInv /\ LockInv` is inductive; it is needed because the invariants speak of the rows and only the lock says why what a handler read is
still true when it writes. From it: `OneAttemptPerStoreHolds`, `AttemptRowPerCountHolds`,
`ImplementsLifecycleHolds`, and `DeliveredIsFinalHolds`, which no run checks because
`DeliveryLifecycle` has no step from success. `AttemptLimitHolds` needs `Budget`,
which ties the row's count to asynq's retry counter of the first task: every counted attempt
has cost a retry, is being answered, or was returned to the queue by a shutdown.
`PostsRecordedHolds` needs `PostInv`, which charges each POST to a row, to a run that was rolled
back, or to the handler that is about to record it. `NotOrphanedHolds` is for any number of worker
slots, under the one thing the code does not see to: `ResultsApart`, that no two handlers are between
storing their result in the shared `err` and returning it (finding 1). It needs `OrphanInv`: a row
that is tried again has attempts left (`AttemptsLeft`) and a task that has not ended (`Carried`:
a handler that is about to end its task has settled the row), and the state of the newest task says
how many attempts the row has counted (`Accounts`): each retry it has spent is an attempt, so that it
is archived no earlier than the row fails. `NotOrphanedWithOneSlot` is the corollary without that
assumption, for a worker with one slot and finitely many deliveries: there is one handler at a
time (`OneHandler`), so results cannot mix. `FailureNotForgottenHolds` needs no strengthening
beyond `IInv`: a delivery that has failed for good keeps a run that announces it (`WillTell`) until
the announcement, because what ends a run before it is a failure, a crash, or a shutdown that puts
the task back in the queue.

**MidtransWebhookProofs.** `UpdatesAreAnOrder`: what `ShouldApplyStatusUpdate` accepts
composes, and no two different statuses replace each other, so updates never go round in a
circle. `Inv` is `TypeOK`, `EventTrail`, the facts about requests (a
handler in "update" holds the lock and has read the row as it is) and about charges (no row
while an answer waits). From it `EventTrailHolds` and `ImplementsLifecycleHolds`.
`CaughtUpHolds` assumes `ForwardMoves`, that Midtrans only makes moves the service accepts;
`MCMidtransWebhook` has it as an assumption, so TLC evaluates it for the payments of the runs.
Its strengthening says that every notification and every row is at or behind the payment
(`BehindInv`) and that an applied latest notification is in the row or in the hands of the
handler that commits it (`CaughtUpInv`). `AcknowledgedIsAnnouncedHolds` has the same assumption and
adds `AnnouncedInv`: a handler that has still to enqueue owes the delivery of one event, its own
alone, and that event has the payment's status if its notification is the latest (`Owes`); events
are never lost and an enqueued one is never taken back (`EventsKept`).

**ChargeProofs.** `Inv` bounds what handlers, rows, cache and answers can hold: a row is what
Midtrans accepted, a cached order has a row, an answer is a stored row. It gives
`ImplementsChargeOnceHolds`, which holds with expired locks and failures because Midtrans
refuses a second use of an order id and because of `UNIQUE(store_id, order_id)`: two facts
about external systems, stated in `Call` and `Persist`. From that refinement `AnsweredIsChargedHolds`
takes, for every failure and race, that whoever is answered with success has a row which is the
charge Midtrans accepted, with the order and the payload of the request (`CreatedInv`). `LockInv` (without overruns a handler
in its critical section is the holder) gives `LockedChargeHolds`; `RetryInv` (without
failures Midtrans has only orders with a row or a handler about to insert it) gives
`RetryIsAnsweredHolds`; `KeyInv` (without failures a key with an answer is cached, or its
holder is about to cache it) gives `KeyNamesOneRequestHolds`. `NoLockForgottenHolds` needs only
the types: every step that leaves the section of a lock is its DEL or orphans it.

**StoreTokenProofs.** `Inv` joins the phases of owners and requests (`OwnerInv`,
`RequestInv`), the lineages (`RootInv`: named by tokens that exist) and why a request that
has passed a check has no reason to be refused by it (`RefusedInv`), and that an edit which would
undo a deactivation had read the store before it (`EditInv`). It gives `ImplementsLineageHolds`: with at
most one active token in a lineage (`LineagesHold`, `ValidIsOne`), every step of an owner is a
creation, rotation or revocation of `TokenLineage` or leaves its variables alone, and the row check
of `ReplaceToken` is what makes a rotation that comes after a revocation a stutter. It also gives
`InactiveOrExpiredRefusedHolds`, `DeactivationKeptHolds` and, with one
step more, `RevocationTakesEffectHolds`: only a handler with the token in hand can cache it, and
none gets it in hand while its row is revoked.

**OperationalAlertProofs.** `Inv` is `TypeOK`, what a handler in its transaction holds and knows
(`LockInv`: both locks, an open row with attempts left, an active endpoint while it POSTs), what
calls have not made yet (`UnmadeInv`, `CallInv`), edits that could undo a switch-off (`OffInv`),
the retries of a task against the attempts of its row (`RetryInv`) and the acceptances against
the lost runs (`AcceptInv`). It gives all safety properties of the module and
`ImplementsLifecycleHolds`. That a locked endpoint can be neither edited nor deleted, nor a locked
alert be cascaded away, is what Postgres promises of `FOR UPDATE OF ad, ae`; it is in the guards.

**DashboardAuthProofs.** `Inv` says of every handler what makes its late write harmless: a refresh
knows only verifications of its own session (`ProvenInv`) and loses one only if it is in `raced`
(`KeptInv`), a set-up carries a secret whose code was checked (`SecretInv`), used and new codes
are apart (`CodeInv`), a reset about to commit has every session it saw in its hands or revoked,
and a disabling has every session there was in its hands (`ResetInv`), and exchanged tokens are older than the row's (`RefreshInv`). From it follow the
seven invariants, of which `ReplacedTokensRefused` and `CodesUsedOnce` are checked by no run of their
own: `OneTimeOnly` says what they say of steps. `ClosedStaysClosedHolds` is an action property from
`TypeOK` and `HandlerInv`, and so is `OneTimeOnlyHolds`, one lemma for each thing that is good for one
use (`DeadStep` for reset tokens, `WithdrawnStep` and `WithdrawnRefused` for codes, `RefreshStep` for refresh tokens).

Only model-checked: the liveness properties, because fairness and `ENABLED` are out of the
prover's reach. The safety half of each is proved: what has yet to happen still has somebody to do
it. It is `NotOrphaned` for `EverySendSettles`, `FailureNotForgotten` for `FailureAlerted`,
`AcknowledgedIsAnnounced` for `StatusAnnounced` and `NotAbandoned` for `EveryAlertSettles`. The four
properties that runs refute are false, and so are not proved; what is true of them is: `NotOrphaned`
under `ResultsApart`, `CaughtUp`, `LockedCharge` and `RevocationTakesEffect`. Also out of its reach are induction over data and `RECURSIVE` operators; no module here
has one.

## 8. Findings and known limits

Four runs end in a violation of something the repository says.

1. `delivery_err_race`: the webhook task handler assigns the result of `ProcessTask` to the
   `err` of `run()` (`src/backend/cmd/worker/main.go:130`), which all running handlers share.
   A failed run may return another one's nil: asynq deletes the task, the delivery stays
   `retrying` and nothing picks it up.
2. `webhook_before_charge`: a notification that arrives before the insert of its charge is
   answered with 200 and forgotten.
3. `charge_foreign_unlock`: a handler that outlives its 60 seconds deletes the lock of its
   successor.
4. `token_stale_cache`: a request that read a token before its revocation caches it after
   the DEL; the token is accepted until the copy expires.

Limits met on the way, for which the properties are stated with their exception:

- A graceful shutdown puts a task back whose attempt is already counted, so a delivery can
  have one attempt more than the limit for each (`AttemptLimit`).
- A POST whose transaction fails, or whose worker stops, has no row (`PostsRecorded`).
- A run that is rolled back costs the task a retry and the row no attempt: asynq archives the
  task while the row is `retrying`. A deadlock of `ProcessTask` with a notification costs the
  same when Postgres aborts the handler, and leaves a POST without its row. And a task of an
  earlier send that outlives it, because a shutdown or a lost answer made asynq run it again, can
  revive a row that has failed for good with its own last retry. `Disturbed` names these cases in
  `NotOrphaned` and `EverySendSettles`; nothing picks such a delivery up.
- A failed GET or SET of the cached result lets one key make two transactions, for two orders
  (`KeyNamesOneRequest`).
- A charge that Midtrans accepted and that was not stored makes every retry be refused by
  Midtrans (`RetryIsAnswered`); no row will ever exist for it.
- `UpdateByUser`, of stores and of alert endpoints, writes back the status it has read: an edit
  of the name that began before a deactivation undoes it (`DeactivationKept`, `QuietWhenOff`).
- An alert whose enqueue Redis refuses stays pending for ever: the caller is told
  (`AnnouncedOrError`), and for `NotifyWebhookFailure` that is a counter of the metrics
  (`webhookdelivery/service.go:439`).
- An alert is accepted once more for every run that leaves no trace (`AcceptedOnce`).
- Two refreshes that overlap are both answered with tokens, of which the later ones are good; a
  refresh that overlaps a verification undoes it (`VerificationKept`). A refresh, or a code that was
  checked, which overlaps the disabling of MFA leaves its session verified, also for the next secret
  (`AccessNeedsCode` names it: `Carries`), and so does a session that began while MFA was being
  disabled.
- A login whose password was checked before a reset issues its session after it, and so does not
  end with the others (`ResetEndsSessions`). Two resets with one token both succeed if they
  overlap, and only then (`OneTimeOnly`). A recovery code is spent although the statement after it may fail.

## 9. What is not modelled

- Data: payloads, signatures, URLs, headers, encryption, masking, listing and its filters.
  A POST is its outcome; a payload is a value that is equal to another or not.
- Time: durations are "may happen at any moment", restricted by who may make it happen.
- Notifications with an invalid payload or signature: they only write an audit row.
- Audit logs, metrics, `last_used_at`.
- Of `Charge`: the validation of a request and its mapping to the payload of Midtrans. They are
  functions of one request; a body is one value here, so that neither the sum of the items, an
  int64 that can wrap (`transaction/service.go:1461`), nor the trimming of the order id in
  `platform_order_id` (`transaction/service.go:1501`) is told apart.
- Of stores: `Create`, whose slug is decided by `UNIQUE(slug)`, and the rotation of the webhook
  secret, one UPDATE. A status of `""` passes the validation of an edit; every reader compares the
  status with `active`, so it is inactive in `StoreToken`.
- Rate limit: one atomic pipeline of Redis increments two counters, and the answer is a comparison.
  Nothing is read before it is written, and a window is a name of a key.
- Migrations: a command that is run by hand; of two that overlap one fails on a primary key or on
  the DDL and is rolled back.
- HTTP server, handlers, configuration, logging, metrics, masking, security helpers, HTTP client:
  no state, or no protocol. Starts and stops of the processes are faults of the modules.
- The dashboard: a client in the browser. Its refreshes and logouts are calls of `DashboardAuth`.

Abstractions a reader should know: `Charge` is for one store; `DashboardAuth` is one account, and
a batch of eight recovery codes is one code; wrong passwords, codes and tokens nobody was given
are refused and change nothing, so they are no steps. A transaction that Postgres aborts for a
deadlock is modelled where the code takes row locks in two orders (deliveries with notifications,
alerts with deletions); elsewhere it is one of the failures.

## 10. What is left

The protocols of the backend are modelled. What could be added:

1. `ChargeRequest`: the pure validation and mapping of a charge, with the sum of the items in a
   bounded width and the trimmed order id, against exact arithmetic over bounded inputs.
2. The composition of `Charge` and `MidtransWebhook` over one row: both have the row, and each
   has the other's part as a step (`PersistCharge`; the `row` that is stored).
3. The composition of `WebhookDelivery` and `OperationalAlert` over one worker: `Notify` is a step
   in the one and a loop of calls in the other, and they share the slots of the worker.
4. The session of the dashboard, `src/dashboard/src/lib/auth/session.ts`, as a client of
   `DashboardAuth`: a logout that overtakes the refresh in flight.
5. Orders in `Charge` that differ only in the space around them and so are one order to Midtrans.
   It takes three orders at once (two that are the same to Midtrans and one that is not), with no
   symmetry between them: more than five million states already with one incident, so the run has
   to be split or its requests reduced first.
6. A proof of `RevokedRefused` for a cache that is written before the revocation commits, should
   `Authenticate` be changed so.
