# A TLA+ model of the payment backend

TLA+ modules of the parts of the backend where processes, requests, background
jobs and outside systems meet over shared rows: what they do to those rows, what
TLC checks of it on small instances, and what TLAPS proves of it for instances of
any size. `PROJECT.json` maps each definition to the lines it translates, and lists
runs, hazards, findings and theorems.

## 1. Inventory

The backend is a Go HTTP service (gin) over PostgreSQL (gorm) and Redis. It prices
and records cross-chain payments whose transactions are signed and sent by the
payer; an indexer reports what happened on chain; merchants are notified by HTTP.
One process runs the HTTP server and two background goroutines (`cmd/server/main.go`).

| Component | State it keeps | Operations | What is hard | What makes it correct |
|---|---|---|---|---|
| Webhook delivery engine (`webhook_dispatcher.go`, `jobs/webhook_delivery.go`, `webhook_log_repo_impl.go`) | `webhook_logs`: status, retry count, next retry time | enqueue, poll, dispatch, manual retry | rows written back whole from stale copies by two kinds of workers; stops between two saves; lost writes; answers that never arrive | nothing is given up early or tried for ever; duplicates only for a reason; states mean what they say; every delivery is settled |
| Payment ledger (`payment_usecase.go: CreatePayment`, `webhook_usecase.go`) | `payments`, `payment_events`, `webhook_logs` | create, apply an indexer report, enqueue a notification | duplicate reports overlapping the next one; two transactions and one insert outside them | status and event log agree; 200 only for what is recorded; no notification vanishes unaccounted |
| Quotes, payment requests, partner sessions (`partner_payment_session_usecase.go`, `payment_request_usecase.go`, expiry jobs) | `payment_quotes`, `payment_requests`, `partner_payment_sessions` | create, create session, expire (jobs and reads), complete | two calls racing for a quote; expiry is a read and a later blind write; half of an operation outside its transaction | a quote is used once; nothing expires early; what was paid in time stays paid |
| Idempotency middleware (`middleware/idempotency.go`) | Redis lock and cache per fingerprint | acquire, replay, refuse, store, release | concurrent duplicates, ownerless lock, panic, disconnection, Redis errors, installed twice | one holder; replays are genuine; locks do not outlive their holder |
| Inverse quote solver (`create_payment_usecase.go`) | local to one request | preview, anchor, doubling, binary search | the pool moves; bounded loops; rounding | what it returns was quoted to be enough; minimal in a steady pool; terminates |
| Unit of work (`unit_of_work_impl.go`) | open transactions, row locks | Do, WithLock | rollback on every error path | part of the two modules that use it |
| Fees, bridge choice, approval of `CreatePayment` (`payment_usecase.go`), route policies, bridge and fee configurations (`crosschain_policy_handler.go`, `payment_config_handler.go`) | `route_policies`, `bridge_configs`, `fee_configs`; per payment: bridge, fees, native value, approval | decide the bridge, charge, quote, approve; create, update, delete rows | rows edited between two reads of one request; a default policy written by a payment; every fee computed in float64 and rounded on its own; chains of reads that fail | the parts of a payment add up to what rounding allows; an administrator's row wins and stays deleted; the approval covers the charge |
| Privacy payments (`payment_usecase.go: GetPaymentPrivacyStatus`, `buildPrivacyRecoveryTx`) | status, failure reason and events of a payment | show the stage; hand out a retry, claim or refund | webhooks late, repeated, out of order; failures worded in ways the code does not know; a gateway that does not answer, or knows the payment by another id | what is shown never runs ahead of the gateway; recoveries are backed by a failure; escrowed funds stay reachable; nothing after the outcome |
| Partner pricing (`partner_quote_usecase.go`, `create_payment_usecase.go`, `payment_quote_simulator.go`) | request cache; quotes, sessions; settlement profile | price by three engines, search, quote stage, session stage, upsert the profile | engines that stand in for each other, one of which invents prices; reconfiguration and failed reads between probes; time limits | no placeholder is a price; one route and one profile version per call; the invoice is covered; one quote per call |
| Authentication, sessions, API keys (`auth_handler.go`, `auth_usecase.go`, `session_store.go`, `dual_auth.go`, `api_key_usecase.go`) | Redis sessions, `api_keys` | login, refresh, logout, create, revoke, authenticate | a refresh is a read and a later write; a key's row is written back whole by every request | revocation is final, and a deleted session stays deleted; a session keeps its user |
| Users, wallets, merchants (`auth_usecase.go: Register`, `wallet_usecase.go`, `merchant_usecase.go`) | `users`, `wallets`, `merchants` | register, connect, set primary, disconnect, apply | read, then insert, with no unique index and no transaction | one primary wallet and one merchant per user, one owner per address |
| Cross-chain configuration, on-chain adapters, EVM administration (`crosschain_config_usecase.go`, `onchain_adapter_usecase.go`, `evm_admin_ops_service.go`) | on chain: adapter of each bridge type, default bridge, adapters' settings | recheck, preflight, auto-fix, register, configure | several transactions that are sent but not waited for; one owner key; one step fails; node errors that readers swallow | success means what was asked for is there; no bridge becomes the default before its adapter |
| Contract audit, revert decoding, payment app, rate limits, deprecation | none of their own, or one counter | read and report, decode, count | - | not modelled: see section 6 |
| Catalogue handlers, blockchain clients, logging, metrics, command line tools | single tables or none | CRUD, I/O | - | not modelled: no state of several writers, or pure I/O |

How they interact. `CreatePayment` inserts a payment and answers with a transaction
to sign. The indexer posts reports to `/webhooks/indexer`; each is applied to
`payments` and `payment_events` in one transaction, and a row of `webhook_logs` is
inserted after it. The delivery job polls that table. In the merchant flow a quote
is priced (the solver asks on-chain quoters), then a session and a payment request
are created from it, both with the quote's time limit; the indexer's
`REQUEST_PAYMENT_RECEIVED` completes them. Payments, pricing and administration read the same
route policies and configurations, which administrators edit at any time. The idempotency middleware surrounds every
handler and shares only Redis with them.

## 2. Modules

Each component has a module `X.tla` (variables, one action per step between two
points where another process can act, properties) and `MCX.tla` with its `.cfg` files
for TLC. The theorems are in eight proof modules: `XProofs.tla` for `WebhookDelivery`, `PaymentLedger`,
`PartnerSession`, `Idempotency`, `Access` and `Accounts`; `PricingProofs` extends the solver `InverseQuote` and
`PartnerPricing`; `PaymentProofs` extends `PrivacyRecovery`, `PaymentPlan` and `RouteConfig`. Modules that share a
proof module prefix their common names (`SolverSpec`, `PrivacySpec`, `RouteSpec`, ...). An action covers everything the code does up to its
next write to shared state, next wait, or return. Names beginning with a property's
operation and marked "Faulty variant" are the deliberate mistakes used to test that
the properties can fail; nothing in a specification refers to them.

### WebhookDelivery

`row` is the table, with the columns that decide what happens next; time is reduced
to whether `next_retry_at` is unset, ahead or passed. A worker (the job, or an
administrator's `ManualRetry`) has a program counter in `Dispatch`, a current delivery
and the copy of the row it read. Because `Update` is gorm's `Save`, an update writes
that whole copy back. `FetchBatch`/`TakeNext` are `processPendingDeliveries`;
`MerchantLookupFails`, `Drop`, `NewRequestFails`, `MarkDelivering`, `Send` and `Record`
are the paths of `Dispatch`. `Shutdown` cancels the job's context; `CrashRestart`
leaves only the table.
`Send` has three outcomes: a 2xx, a refusal, and a request that the merchant accepted although the client saw an
error (a timeout, a connection lost before the answer). The dispatcher treats the last two alike and tries again;
`unheard` counts them.

**Notification** is the abstract specification: per delivery a status, the requests sent and
accepted, and how often somebody disturbed it (a manual retry, a failed write). A status that
ends a delivery is earned (`delivered` by an acceptance, `failed` by `MaxRetries` requests) and
stays unless the delivery was disturbed. `WebhookDelivery` instantiates it as `Notified`, with
`pending`, `delivering` and `retrying` all mapped to "open", and `Implements` is its specification.

### PaymentLedger

`payment` and `events` are the tables; `notices` is what is enqueued for the merchant.
`creator` is where `CreatePayment` is (row committed, then the `CREATED` event, then
the transaction data, each of which can fail alone). A handler receives a report
(`Send`), takes the row lock (`LockRow`), updates inside the transaction
(`UpdateStatus`: visible to nobody else), writes the event and commits (`Commit`), enqueues
outside the transaction (`Enqueue`, its error dropped) and answers. `acked` is the
indexer's view: it sends the next report only after a 200, and sends one again when
no answer comes, while the first request may still be running. The indexer is not
part of the repository: that it keeps the order of its blocks and retries what was
not answered 200 is an assumption about it. Reports of payments the backend does not
know are rejected.

### PartnerSession

`quote`, `request` and `session` are status columns; a request and session are named
after the call that creates them. `CreateSession` locks and tests the quote
(`LoadQuote`), inserts the request through a repository that ignores the transaction
(`InsertRequest`: visible at once), and inserts the session and marks the quote used in
one commit (`CommitSession`), or rolls back. Each expirer reads (`Scan`) and later writes without
testing again (`Expire`): the three jobs and the two reads that expire what they
return. `main` starts only the job of payment requests; the other jobs exist in the
code and are in the model because the safety properties should not depend on their
being off. Completion is two statements, `MarkRequest` and `MarkSession`, whose errors are logged only. An
expirer's write may fail (`ExpireFails`), which leaves the row as it is for the next tick. `Shutdown` is the SIGTERM
handler of `main`: it stops the job, while the server goes on answering (`jobUp`).

### Idempotency

`lock` and `cache` are the two Redis keys of a fingerprint within one 24 hour window.
A request passes `layer` middlewares, one or two depending on its route; `held` is the
one whose `SetNX` succeeded. `SetNX` (`Acquire`/`Deny`/`FailOpen`) and the read of the cache
(`Replay`/`Conflict`) are separate steps, as are `SetEX` (`StoreResponse`) and `Del`
(`ReleaseLock`). Only a 2xx with a body is stored. A panic skips what follows `c.Next()`; a disconnection
makes every later Redis call of the request fail, because they use its context. The
fingerprint is a constant: how it is computed is not modelled (see hazards).

### InverseQuote

A pool is a function from inputs to outputs, constant from `MaxInput` on, which stands
for the liquidity that is left. `AnchorProbe`/`AnchorUseless`, `UpperBoundProbe`,
`BinarySearchProbe` are one quote each, so that `PoolMoves` can happen between any two of them.
The errors the code counts as a quote of zero are zeros of the pool; the others are
`ProbeFails`.

### RouteConfig

The chain's state of one route: `adapter` (router), `default` (gateway), `settings` (which
setters of which contract have taken effect) and `quotes` (bridges whose fee can be quoted).
An operation is a `Script` of reads and transactions, put together from what was asked for: `Preflight`,
`AutoFix`, `ConfigureStargateE2E` and `SetConfig` are sequences of steps, and each `...Setters` operator has one
step for each field that is present, in the order of the code's `if`s (`SetIf`). `InputFields` is which fields an
operation's request has. `ReadDefault` and `ReadRest` are the two halves of `GetStatus`. Reads
happen one at a time; `sendTx` is `PickNonce` (the node's pending nonce), then `Accepted`,
`Replaces` or `NonceTaken`, at most `MaxAttempts` times. An accepted transaction waits in
`pool` until `Mine` or `Revert`, in the order of nonces, while the call runs on. `Refuse` is
an early return because something is missing, `Fail` one because something did not answer.
Not every failed read ends a call. After `defaultBridgeTypes`, `GetStatus` swallows the errors of its reads and goes on
with "no adapter" and "not configured" (`Reads`, `StatusRead`; `Outages` is which of them may fail together), a fee that cannot be
read is an unhealthy one, and `ConfigureStargateE2E` sets again what it could not read (`SetAgain`). A call to which that
happens is noted in `misread`.
The values of settings are not told apart: a setter gives the value asked for. Contracts
and nodes are external; they are modelled from how they are called.

### PaymentPlan

One call of `CreatePayment` from its input to its answer: `DecideBridge` (the route's
policy, then its newest bridge configuration, then the default by kind of chain), the fees (with minimum,
cap and the rounding of `formatAmount`), the order of bridges to try and the fee quote of each with its
fallbacks, the insert, and the approval amount with its chain of reads. Each database statement and
each group of RPC reads is a step. `policy`, `configs` and `fees` are the tables, edited between any two
steps by the handlers of the administration; `UpdateRoutePolicy` is a read and a later write (`edit`).
`chain` is what the RPC reads return. Amounts are integers in units of 1/10000 of the smallest
unit. `CalculateFees` turns them into float64 and back, so each result is a set: `FormatAmount` is any integer that
rounding can give when the number is off by `Blur`, which is one part per `Precision` (2^53 in the code, 30000 in the run, where
an amount above it loses whole units) for each operation on the way. `Int64` is the conversion of the platform fee before
a swap: what exceeds `MaxInt64` becomes the processor's overflow value.

### PrivacyRecovery

One payment. `gw` is the gateway contract's state (external), `sent` the webhooks the indexer has
sent, any of which may arrive at any time and again; `status`, `failure` and `events` are what the server
stores. `DerivePaymentPrivacyLifecycle`, `DeriveGatewayPrivacyLifecycle` and
`ValidatePrivacyRecoveryStage` are the code's functions with the order of their early returns. Failure
reasons and event names are reduced to the words the code searches them for: PRIVACY_FORWARD_FAILED, another word
with PRIVACY in it, REFUND, RETRY, or none of these. `Failures` is how the indexer may word a failed forward. The gateway keeps the
payment under an id of its own. `privacy-status` asks the getters under the payment's UUID, and if that is not the
gateway's id (`gw.uuid`) they answer zeros (`Nothing`); a recovery carries the id that was named, or the first 32-byte word of an
event, which may be a transaction hash (`ResolveOnchainPaymentID`), and moves funds only if it is the right one (`HandedOut`).

### PartnerPricing

`CreateQuote` and `CreatePayment` of a merchant: reading the profile, resolving wallet and route, pricing
one or two legs, the search for an input (as its anchor and its result: the search itself is
`InverseQuote`), the insert of the quote and the session stage. The engines are `GetAccuratePartnerQuote`,
`GetSwapQuote` and the simulator with its dry run, each a function of the state of the chain it reads; `used`
records each answer a call relied on. `cache` is the request cache, `quotes` and `sessions` are the sets of inserted rows,
each with the call that inserted it. Swappers are reconfigured, the profile replaced, the merchant suspended, a
statement fails or a stage runs out of time between any two steps.
A read of the route or of its pools may fail inside a probe. `Readings` is what the two engines that look at
pools then know: the quoter gives up without a configuration, the dry run discards the error and tries the common
tiers, nothing of a failed read is cached, and the next probe reads again. A call that met such a failure is noted in
`moved`, with those whose chains changed. The pools of a chain are one entry, so a read fails for a whole route
and not hop by hop.

### Access

`sessions` is Redis; a token is its user and whether it has expired. `strict` says that a proxy secret is
configured, which decides where a refresh token may come from. A refresh reads (`RefreshUser`) and later
writes; an authenticated request by API key reads the row and later writes it back. `Logout` answers success whether
or not Redis deleted the session, since the handler drops the error; `ended` holds only sessions that are really gone, by a deletion or
by their expiry (`End`). The handler is in the model because it is written and tested, although `routes.go` registers
no logout route at this commit. Password hashes,
JWT and HMAC are reduced to who can have made them.

### Accounts

Each use case is its reads and its insert, in separate steps, since no repository here uses the
transaction of its context and nothing but `users.email` is unique. `contended` records users and addresses that
two calls handled at once: what the reads guarantee is guaranteed for the others.

## 3. Runs

| Run | Instance | Why it is enough | Result |
|---|---|---|---|
| `webhook_delivery` | 2 deliveries, one with an invalid URL, the job and 1 administrator, batch of 2, 3 retries, 1 manual retry each, 1 stop, 1 lost write each, 1 failed lookup; any request may be accepted unheard | an overlap needs two workers on a row; batches and stale snapshots need two rows; three retries have a first, a middle and a last; one row never leaves the queue | `AttemptsBounded`, `DuplicatesAccounted`, `DeliveringHasWorkerUnlessInterrupted`, the refinement `Implements` and `EventuallySettled` hold |
| `ledger` | a merchant's payment with 4 reports (unknown status, executed, failed, refunded), an unknown payment, 2 handlers, each report sent up to twice, 1 error, 1 crash | a duplicate overlapping its successor needs two handlers; the four reports use every branch of the status mapping but `COMPLETED`, which the code treats as it treats `REFUNDED` | `StatusFromLastEvent`, `AckedIsRecorded`, `NoticesAccounted` and the action property `BackOnlyToRecorded` hold |
| `sessions` | 2 calls on 1 quote, 1 request without session, quote job, request job and reader, 1 failed write or repeated notification, 1 crash, a shutdown at any point | a race needs two calls; each of the three kinds of expirer is there once (those that share a table do the same) | `QuoteBacksOneSession`, `PaidInTimeIsFinal` and `PendingRequestsEnd` (liveness) hold |
| `idempotency` | 2 requests with a key on a route with one layer, 2 with a key on a route with two layers, 1 fault | each fault is local to a key, so a pair of duplicates per kind of route shows it | `OneAtATime`, `ReplayIsGenuine`, `NoLockLeft` and `AllAnswered` (liveness) hold |
| `inverse_quote` | every monotone pool of 8 inputs with outputs 0 to 3, pools with a dip, targets 1 to 3, 3 doublings, 3 halvings, 1 move | both loops reach their limit as well as their goal; the interval can be wider and narrower than 2^3 | `ResultWasEnough`, `LeastWhenSteady`, `SearchConverges` hold |
| `route_config` | 2 calls, the first any operation, the second one that gets in the way; no adapter registered or all; 2 attempts; 2 among reverts, replacements, changes of a quote and failed reads, of which `GetStatus` may lose any one or all at once | a nonce conflict or a foreign change needs two calls; 2 attempts have a first and a last | `PreflightAgrees`, `SuccessIsAchieved` and the action property `DefaultAfterAdapter` hold |
| `payment_plan` | 2 payments, 1 administrator's update in progress, 4 request bodies (with and without a bridge option, same and cross chain, with a swap), 3 policy bodies, 6 states of the chain, 2 changes, 2 rows per table; precision 30000, largest int64 2 | the races are between a payment and one edit, or two payments that bootstrap; the chain states make each read of the fallbacks fail once; one amount is above the precision, one fee above the largest int64 | `FeesAddUp`, `AdminPolicyWins`, `DeletedStaysDeleted`, `ApprovalCoversCharge` hold |
| `privacy` | 1 payment, privacy or not, known by its UUID or not, 2 failed forwards, 4 wordings of a failure | a retry that fails again needs two failures; webhooks are unlimited in number and order; the wordings are recognised in event and reason, in the reason only, as a word with PRIVACY, and not at all | `RecoveryIsBacked`, `StatusIsBacked`, `FundsNeverStranded` and the action property `NoOfferAfterResolved` hold |
| `partner_pricing` | 1 call, 8 requests it may make, 2 chains, 3 tokens of different worth and decimals, 5 states of a swapper, 3 profiles, 2 changes, 1 fault (a statement, a time limit or the reads of a probe), inputs up to 80 | calls share only the profile and the swappers, whose changes are free; two legs with a hub token between them use every engine and fallback | `NoPlaceholderRelied`, `OneRoutePerCall`, `InvoiceCovered`, `SettlementIsOneVersion`, `CallLeavesOneQuote` hold |
| `access` | 2 users, 2 session ids, 1 key, 2 calls, with and without a proxy secret | a mix-up needs two users and a session to present and one to write; a write-back race needs two calls | `RevocationIsFinal`, `SessionKeepsItsUser`, `SessionEndsForGoodUnlessRaced` hold |
| `accounts` | 2 users, one an administrator, 2 addresses, 2 wallets, 2 merchants, 2 calls | two calls that do not overlap, and two that do | `OnePerUser`, `AddressHasOneOwner` hold |
| `accounts_register` | the same | | `RegisterIsAtomic` fails (section 4) |

Deadlock checking is off everywhere: the models stop when the bounded supply of
requests, reports and faults is used up.

`payment_plan`, `access` and `accounts` use symmetry of the calls and of interchangeable names; none of
them has a liveness property.

The bounds `MaxManual`, `MaxStops`, `MaxLost`, `MaxLookups`, `MaxSends`, `MaxFaults`, `MaxFailures`,
`MaxCrashes`, `MaxMoves` and `MaxChanges` limit only the environment; the proofs hold for any of their values.
`MaxAmount` bounds the inputs the search of `PartnerPricing` looks at, `MaxRows` the rows an administrator adds.

### Fairness

* Delivery: the ticker, the loop, each `Dispatch` (requests time out after 10 s) and the
  clock go on. Nothing is assumed of merchants or administrators. `EventuallySettled` promises
  nothing after a stop or a lost write of the row, and needs
  fewer unsendable rows than the batch holds: a row whose request cannot be built, or whose
  merchant is gone, keeps status and place, and 20 of them at the head of the queue keep every
  later row from being selected.
* Sessions: only the request job, the one that `main` starts, is fair, and only until SIGTERM stops it;
  hence only requests are promised to leave `pending`, unless the job is stopped (`PendingRequestsEnd`). That its
  write may fail now and then does no harm, as failures are bounded and it ticks again.
* Idempotency: straight-line code in a request; every call returns.
* Ledger, route configuration, solver: the specifications state that a received request runs on (a row lock
  is granted in the end, as PostgreSQL queues waiters), but no property of a run rests on it.
* The other modules state safety only: nothing in that code waits for anything.

## 4. Findings

`accounts_register`: `Register` says "Execute User + Wallet + Merchant creation in a transaction"
(`auth_usecase.go:110`), but the repositories it calls write with their own connection and `Create` does not
copy the generated id back: the wallet's insert violates its foreign key, the caller gets an error,
and the user's row stays. A second attempt is refused because the email exists.

Disagreements noticed while modelling that have no run of their own:

* A crash or shutdown between the two saves of `Dispatch` leaves the row `delivering`, and no query
  selects such rows; migration 000042 describes the state as "Currently being processed by a worker". The
  model has the behaviour; `DeliveringHasWorkerUnlessInterrupted` names the exceptions.
* The merchant's notification is inserted after the commit and its error dropped, while the report is answered
  200; the project's rules ask for an outbox row in the same transaction.
* A `CreateSession` that fails after inserting the payment request leaves it; the request job expires it later.
* The idempotency cache is read only while the lock is taken, and the lock is deleted with the first
  answer: a later retry runs the handler again. On routes that install the middleware twice, the inner one
  meets the outer one's lock and answers 409 to a request that has no duplicate.
* `payment_usecase.go:504` says the bootstrap of route policies is disabled; `resolveBridgeOrder` performs it.
* The administrator's `UpdateMerchantStatus` answers success and writes nothing.
* A merchant that accepted a notification is sent it again when its answer is lost; it can tell only by
  the header `X-Webhook-Delivery-Id`.
* SIGTERM stops the jobs and cancels their context, but nothing shuts the HTTP server down: until it is
  killed it goes on taking requests that no job will expire.
* `Logout` answers success when Redis did not delete the session, and no route leads to it.
* A node error during `GetStatus` reads as "no adapter" or "not configured". `Preflight` then reports an issue with a route that is in
  order; `AutoFix` on bridge 0 registers the contract of the database beside the adapter that the router still has, and reports success.
  `PreflightAgrees` and `SuccessIsAchieved` leave such calls out.
* Fees go through float64: above 2^53 smallest units (less than 0.01 token of 18 decimals) the parts of a payment are off by
  more than a unit, and a platform fee of 2^63 units or more makes the net amount after a swap meaningless.
* `privacy-status` asks the gateway under the payment's UUID, while the calldata of `createPayment` carries no id and recovery
  resolves another one; if the gateway does not know the UUID, a payment with a failed forward is shown as
  `PendingOnSource`, while the recovery of the failure is still handed out.
* A failure reported with PRIVACY in its reason, but not PRIVACY_FORWARD_FAILED, is no failed forward to the server. Unless the
  settlement was reported too, no claim, retry or refund is handed out while the escrow holds the funds.
* A pool read that fails within a payment's search is priced by the common tiers, the next probe by the configured pool; the
  invoice may then not be covered. `InvoiceCovered` leaves such calls out.
* A payment whose transaction data cannot be built stays `PENDING`, although the caller got an error.

## 5. Proofs

Every invariant, action property and refinement that a passing run checks is also a theorem:
`Spec => []P`, `Spec => [][A]_vars` or, for the refinement, `Spec => Notified!Spec`. Only the liveness properties
are left to TLC. The theorems hold for every value of the constants that
satisfies the named `ASSUME`s of the module (sizes are natural numbers, mappings have the right
domain, names do not clash; nothing about how many processes, rows, calls or faults there are), which TLC evaluates
for the constants of the runs.
Each proof defines an inductive invariant, shows that the initial states satisfy it
and that each action preserves it, and derives the properties.

Two theorems have a hypothesis of their own:

* `BackCorrect` assumes `ChainMovesForward`: of the indexer's reports of one payment none is of an earlier stage than one
  before it, a stage being what the report itself says (`Stage`); that `mapStatus` keeps that order is a lemma. It is
  a statement about the chain, which the backend does not check; without it the status
  follows the reports backwards, as it should. `MCPaymentLedger` asserts it for the reports of the run.
* `SolverConverges` assumes `PowersDouble`, that 2^0 = 1 and 2^(n+1) = 2 * 2^n: the backends do not interpret `^`. TLC
  evaluates it in `MCInverseQuote`.

`OpsAssumption` of `RouteConfig` says what an administrator's request can look like: it has the fields of its operation's
input type, only `AutoFix` may leave the bridge type open, and `RegisterAdapter` refuses the zero address
(`evm_admin_ops_service.go:165`).

* **WebhookDeliveryProofs** (`IInv`). That the counter never exceeds the requests sent is
  not inductive, since a stale copy can be written back at any time: `CopiesCounted` says it of
  every copy in the job's snapshot and in every worker, and that a worker which has an answer
  has sent one request more than its copy counts. `StatusCounted` relates status and counter,
  `SentAfterPending` says that a worker past its first save has moved the row off `pending`.
  Proved: types, `RetryNeverOvercounts`, `PickableHasRetries`, `FailedAfterMaxRetries`,
  `PendingNotAttempted`, `DeliveringHasWorkerUnlessInterrupted`. A second invariant `JInv` carries
  `AttemptsBounded`: on a row without manual retries the job is alone (`OnlyJob`), and the requests are
  covered by the counter and the lost writes (`Bounded`). With `AnswerCounted` (a worker that holds a 2xx was
  accepted) both give the refinement: `Init` maps to `Notified!Init` and every action to a step of
  `Notification` or a stutter. A third, `DInv`, carries `DuplicatesAccounted` as an account of acceptances, past and
  still possible: those there were, one for each manual retry under way (`Trying`, a cardinality), one if the job
  has left the table behind (`Held`), one if it will still send the row or can fetch it (`Ready`). Together they never
  exceed one plus the manual retries, the failed writes and the acceptances nobody heard of; each step moves a unit between the parts or adds it
  with its cause.
* **PaymentLedgerProofs** (`IInv`). `LockInv`: a handler inside its transaction holds the
  lock of an existing payment; `UpdatedInv`: the row it will write has the status its report
  asks for; `CommittedInv`: past the commit, the report is in the log; `WorkInv`, `RangeInv`:
  indices are those of reports, and no handler is ahead of the indexer. Proved: types,
  `StatusFromLastEvent`, `AckedIsRecorded`, for any set of reports. `NoticesAccounted` is an equation between
  cardinalities and is inductive given `IInv`: a commit adds an entry of the log and a handler that owes its notice, the
  insert moves the debt to `notices`, a failure or a crash moves it to `lost`. `BackOnlyToRecorded` needs
  `LogReached` (the log holds nothing beyond the report after the last acknowledged one): a report that moves the status back
  is older than one in the log, hence was acknowledged, hence is in the log itself.
* **PartnerSessionProofs** (`IInv`). `CallInv`: a call between lock and commit holds the lock,
  and the quote is still active; `DueInv`: whatever an expirer is about to write is past its
  time and was not completed in time, which survives because time does not run back; `PaidInv`,
  `HalfInv`: what a notification has done so far. Proved: types, `QuoteBacksOneSession`,
  `SessionBacked`, `ExpiredIsPast`, `PaidInTimeIsFinal`, `AnsweredIsSettled`.
* **IdempotencyProofs** (`LockInv`). The lock has no owner, so the argument is about who may
  delete it: a holder has the lock set (`HolderHasLock`), and only a holder is in front of `Del`
  (`StoringHolds`). On keys without a fault, a request in the handler is a holder. Proved:
  types, `OneHolder` (whatever fails), `OneAtATime`, `ReplayIsGenuine`, `NoLockLeft`.
* **PricingProofs**, the solver (`SolverInv`). The upper end of the interval is always an input that a
  probe found to be enough; in a steady monotone pool everything dropped below the lower end is too
  little (`DroppedTooLittle`). Proved: types, `ResultWasEnough`, `LeastWhenSteady`, for any
  pools, targets and limits. The minimum is relative to the interval: the anchor sets the lower
  end to half its guess, and in a pool far from linear the least sufficient input can lie below. `Halved`
  (after `iter` probes the interval is narrower than 2^(MaxSearch - iter), if it began narrower than 2^MaxSearch) gives
  `SearchConverges`.
* **PricingProofs**, partner pricing (`CallInv`: types; a payment past its first stage works on one stored profile and the
  wallet of that profile; what is priced is not zero; which legs are searched). Proved: types and
  `SettlementIsOneVersion` from it directly. `RowsInv` (which stages have rows, and that a call waiting for its session
  has its quote) gives `CallLeavesOneQuote`. `NoPlaceholderRelied` follows step by step from lemma `OneToOneIsHops`: an engine
  that answers 1:1 for two tokens computed it hop by hop, for any fold over any path. `RouteKept` (`KeptFor`: the path
  of an answer that came hop by hop stays in the request cache, and so do its pools, unless their read failed, and then the call is
  among `moved`; by `EntryStays` nothing replaces an entry) gives `OneRoutePerCall`. `CoverInv` gives `InvoiceCovered`: a call
  none of whose chains moved sees them as they are (`Fresh`), so what a probe found to be enough still is, and
  the search returns an input that is enough (`SearchResult`).
* **PaymentProofs**, privacy (`PrivacyInv`). Every message, stored reason and event that speaks of a failure, and every
  retry or refund handed out, is backed by a failure on the gateway, whose counter only grows (`FailureBacked`); a
  reported claim or refund emptied the escrow, which is never filled again (`EscrowEmptied`); a reported completion is
  of a forward that went through (`CompletionBacked`). Lemma `StageFacts` says what
  the derivation makes of the stored events. `StatusIsBacked` is part of the invariant: what was shown stays
  true because the gateway's facts do not go back. Proved: `RecoveryIsBacked`, `StatusIsBacked`,
  `FundsNeverStranded`, and the action property `NoOfferAfterResolved`.
* **PaymentProofs**, the plan of a payment. `PolicyInv` adds to the two policy properties that ids grow (`IdsInv`): an update
  writes over the row it read or over nothing. Proved: `AdminPolicyWins`, `DeletedStaysDeleted`. `RequestsInv` says of every
  request under way what it has computed so far, among it that a saved row's fees add up (`Balanced`). The arithmetic is in
  lemmas: what `formatAmount` gives is within half a unit and the blur of what was computed (`FormatAmountNear`), hence
  the parts of a fee, and a fee and the rest of an amount, are off by one unit and `Lost` at most (`WithinLost`, `RowBalanced`), for any precision and any fee
  row, negative minimums too; and each way to an approval amount covers the charge (`ApprovalCovers`). Proved: `ApprovalCoversCharge`, `FeesAddUp`.
* **PaymentProofs**, route configuration. The scripts of any request, which are concatenations of optional steps, are
  described once by lemmas (`SetIfFacts`, `ConcatSets`, `AutoFixScript`, `E2EScript`, `ConfigScript`): which step is at which place, and that
  every field asked for has its setter. `PreflightInv`: a preflight during which nothing changed and no read failed has seen the route as it is, as
  far as it has read it. `FixInv`: a switch of the default bridge in the pool has its registration ahead of it, or
  the bridge has its adapter (`Ordered`); and `AutoFix` about to send the switch has picked a nonce behind its registration
  (`FixOK`). `GoalInv`: everything behind the position of an undisturbed call in its script is on chain or waits in the pool
  (`RegisterGoal`, `DefaultGoal`, `AdapterGoal`, `TargetGoal`, `SettingsGoal`), and all its transactions are about its own bridge and
  adapter (`OwnShape`). TLC checked these invariants on the instance of `route_config` before they were proved.
  Proved: `PreflightAgrees`, `SuccessIsAchieved` and the action property `DefaultAfterAdapter`, for any number of calls
  and any attempts, nonces, replacements and reverts.
* **AccessProofs** (`IInv`). A revoked key's row is deleted for good, because the write-back updates only a row
  that is there (`RevokedDeleted`); in strict mode a refresh that is about to write knows the session it read, that
  session's user, and that it has not ended since unless it is noted as raced (`StrictRefresh`). Proved: types,
  `RevocationIsFinal`, `SessionKeepsItsUser`, `SessionEndsForGoodUnlessRaced`.
* **AccountsProofs** (`IInv`). What two calls hold at once is contended (`SharedContended`), so whatever a call has read
  about a user or address is still true when it inserts, unless contended (`ReadsHold`). Proved: `OnePerUser`,
  `AddressHasOneOwner`.

Some theorems are about definitions that no run lists any more because the run's other properties or the
refinement say more (`RetryNeverOvercounts`, `PickableHasRetries`, `FailedAfterMaxRetries`, `PendingNotAttempted`,
`SessionBacked`, `ExpiredIsPast`, `AnsweredIsSettled`, `OneHolder`, the type invariants).

Only model-checked: the liveness properties `EventuallySettled`, `PendingRequestsEnd` and `AllAnswered`, since the prover
does not reason about fairness. What recursive definitions compute for every input (the folds over a route's hops in
`PartnerPricing`) is not proved either: the theorems use only what holds of any result, and that `Quote` is a function of the route
and the amount.

## 6. Not modelled

* The contract audit and the status reports of the administration: they read chain and database and write nothing.
  The bulk operations repeat the modelled ones. The generic contract call sends whatever it is given.
* Calldata bytes, Solana instructions, the JWE payment code, revert decoding, wording of errors: conversions
  no property here depends on. The fingerprint of the idempotency key (see hazards).
* The payment app: a user and a wallet, in two statements, then `CreatePayment`.
* Rate limits, deprecation and legacy mode: one Redis counter, headers.
* Catalogue CRUD, email verification, password change, logs, metrics, command line tools: single rows or I/O.
* Chains, contracts and nodes themselves, which are external.

Within the modelled parts: the lengths of the back-off intervals (only their order), the expiry of Redis keys after
24 hours, a panic inside a database transaction (`UnitOfWork.Do` has no deferred rollback; no statement
inside is known to panic).

## 7. What is left

1. Composition of ledger and delivery: from the commit of a report to the merchant's 2xx.
2. The fingerprint of the idempotency key over two users; the 24 hour window of its keys.
3. What is left of the administration: bulk operations, the generic call.
4. Proofs: an abstract specification of the ledger (a status and a list of applied reports) with a proved refinement, as
   there is for the delivery engine.
