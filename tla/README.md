# TLA+ models of the Site-B2B order, payment, publication and partner core

The repository is a wholesale/retail shop for clothing: a NestJS API
(`apps/api`), a Next.js storefront (`apps/web`), shared packages and deployment
scripts. PostgreSQL (through TypeORM) holds the state; several API processes
and a worker share it. Nothing is kept in memory between requests, so what can
go wrong is decided by the order in which the statements of different requests
reach the database, by restarts between two statements, and by payment
gateways, messengers and SMS providers that answer late, twice or not at all.
That is what is modelled here.

## 1. Inventory

| component | state | operations | who it talks to | hard behaviour | modelled in |
|---|---|---|---|---|---|
| Order lifecycle (`modules/order/order.service.ts`) | `orders` (status, `voidedAt`, `stockCommittedAt`, `effectsReversedAt`), `order_items` | create, updateStatus, voidOrder, purgeOrder, updateOrder, addTracking, applyCapturedPayment, commitStockForOrder, reverseEffects | stock, wallet, discounts, payments, instalments, outbox, fulfilment | handlers read without a lock and write later; reversal is many statements; whole-row saves | `OrderPolicy`, `OrderEffects` |
| Payments (`modules/payment/payment.service.ts`) | `payments`, `payment_attempts`, `payment_ledger_entries`, `refunds`, `payment_events` | start, verify, recordManual, cancelPendingForOrder, requestRefund | gateways, orders, invoices, affiliate postback, analytics | callbacks race each other, time-outs, retries, advisory lock around starts only | `Checkout`, `Invoices` |
| Gateways (`payment/adapters`) | sessions at ZarinPal, DigiPay, TorobPay | createPayment, verifyReturn | payments | time-outs after the money moved | `Checkout`, `Invoices` |
| Variant stock (`product.service.ts`) | `product_variants.wholesaleStock/retailStock` | updateVariantStock | orders, inventory, RMA, ERP | guarded decrement, competing orders | `OrderEffects` |
| Wallet (`customer.service.ts`), discounts (`discount.service.ts`) | `customers.balance`, wallet entries, `discount_codes.usedCount` | updateBalance, recordUse, decrementUse | orders | credited again when a reversal is repeated | `OrderEffects` |
| Instalment contracts (`payment/installment.service.ts`) | contracts, their instalments, `customers.creditLimit` | createFromOrder, recordSchedulePayment, cancelContract, markOverdue | orders, customers | payment and cancellation lock in opposite orders; credit checked while contracts are being created | `Instalments` |
| Invoices and refunds (`invoice.service.ts`, `payment.service.ts`) | `invoices.paidAmount`, `payments`, `refunds` | recordPayment, send, remove, requestRefund | payments, wallet | several sessions for one remainder; refunds in parts with keys; unlocked removal | `Invoices` |
| Outbox and worker (`modules/omnichannel`) | `omnichannel_outbox_events` | enqueue, leaseBatch, markDone, markFailure, releaseDeferred, reopen, cancelWaiting | every service; messengers, SMS, search | leases expire while a worker is still sending; a call that timed out goes on; failures after the post | `ChannelDelivery` |
| Channel publication (`omnichannel.service.ts`) | `omnichannel_publication_deliveries`, which mirrors the events | enqueueOneDelivery, reserveCreateSend, markCreateUnconfirmed, markCreateSucceeded, retryDelivery, reapproveDelivery, clearWaitingOutbox | outbox, messengers | a post cannot be taken back and its answer may be lost; row and event are written by different statements | `ChannelDelivery` |
| Sales partners (`modules/sales-partner`) | commission ledger entries, payouts, cursors; drafts, links | the ledger job, payout confirm and reverse; draft edit, confirm, convert | orders, RMA | the job, payouts, returns and purges in any order; commissions taken back after they were paid | `CommissionAccount`, `PartnerLedger` |
| SMS panel (`modules/sms-panel`) | campaigns, recipients, texts, tokens | prepare, confirm, approve, reject, pause, resume, cancel; the queue job; delivery reports | SMS provider | bulk moves of texts beside the job that has one claimed; an answer lost after the text went out | `SmsCampaigns` |
| Fulfilment and vendor ledger | parcels, `vendor_ledger` | ensureSplit, accept, ship, hold/release | orders | unlocked reads and whole-row saves throughout | – |
| Inventory, RMA, ERP | movements, return requests | recordMovement, approve, import | stock | two returns of one line at once | approval in `PartnerLedger` |
| Customer marketing, wholesale referral | scores, rewards | score, send, reward | SMS, orders | – | – |
| Authentication | users, one-time codes, refresh tokens | request, verify, rotate | SMS | attempt limits, rotation | – |
| Catalogue, blog, CMS, search, uploads, feeds, dashboard, settings, support | single rows and files | create/read/update/delete | – | mostly formatting and input/output | – |

What makes these components correct: goods are deducted once per order and
given back at most once; an order on its way to the customer owns its goods;
money the gateway took is booked, booked once, and never lost by a late answer;
an order that was paid does not look unpaid; statuses move only along
`ORDER_TRANSITIONS`; a customer who paid gets the payment booked. An invoice
shows what was paid into it, and no refund exceeds its payment. An instalment
contract is complete exactly when all of it was collected, and credit is granted
within the limit. A product is posted once per destination unless an
administrator asks again. A commission is earned once, taken back once, and
every payout brings the partner exactly to what is due. A recipient gets the
text of a campaign once, unless a restart or a failing statement hit its send, and
no text waits for ever.

## 2. Modules

* **`OrderPolicy`** – the pure rules: `ORDER_TRANSITIONS`, which moves settle
  stock, the status at creation, what a capture does to the status. The state
  modules call these operators where the services call the functions of the
  same name.
* **`OrderEffects`** – the orders table, the stock of one variant, the wallet,
  the discount counter and the payment columns an order reads. Each
  administrator request is a small program: `pc[r]` is the statement it waits
  at, `snap[r]` the row it read first, `full[r]` the row `reverseEffects` read
  again, `found[r]` the payment rows `cancelPendingForOrder` still has to save.
  `Begin` is the unlocked `findOne`; `UpdateStatus`, `CheckNoCapture`,
  `ReverseRead` … `ReverseMark`, `VoidOrder`, `PurgeOrder`, `AddTracking`,
  `EditItems` and `SaveOrder` are one transaction or one statement each.
  `Crash` loses a request between two of them. The payment side is reduced to
  what an order can notice: `Capture` (payment row and order in one
  transaction), `Reapply`, and `RewritePayments` (any write that does not make
  a row PAID). It is therefore also the *abstract specification* of the
  payment service.
* **`Checkout`** – the payment service in detail beside the orders: `start`
  statement by statement (`Start`, `SaveAddress`, `LookForPaid`,
  `LookForPending`, `InsertFirst`, `SwitchGateway`, `InsertAttempt`, `OpenSession`,
  `SaveSession`, `FailStart`), the gateway (`PayAtGateway`, the outcomes of
  `OpenSession` and `VerifyReturn`), `verify` (`Return`, `CancelSoftly`,
  `VerifyReturn`, `RejectPayment`, `CapturePayment`, `RetryApply`), and
  `recordManual`. The advisory lock of `start` is `StartLocked`, derived from
  the program points that hold it. It EXTENDS `OrderEffects` and replaces
  `GatewayNext` by the real thing (hence its assumption `GatewayActive`); run
  `rough` checks, and `CheckoutRefines` proves, that every step of it is a step
  of `OrderSpec`.
* **`ChannelDelivery`** – posting products to one messenger destination.
  `row[d]` is the delivery row (`omnichannel_publication_deliveries.status`),
  `event[d]` its outbox event; a delivery stands for its idempotency key, so it
  has one row and one event. Producers insert (`Insert`) or, in one transaction
  under the lock of the key, decide and write (`Decide`, `Retarget`). A worker's
  `tick` is `Lease`, `StartRow`, then what the call of `handle()` returned:
  `MarkDone`, `Unlock` and `ReleaseDeferred`, `HoldUnconfirmed`, `MarkFailure`;
  `TimeOut` stops waiting while the call goes on. A call is `PreRead`,
  `HoldOrphan`, `Reserve` (the transaction of `reserveCreateSend`),
  `CallMessenger`, then `MarkSucceeded`, `MarkUncertain` or `markDeliveryFailure`
  (`ReadFailure`, `SaveFailure`). `Reactivate`/`Reopen` are an administrator's
  retry or approval, `ClearWaiting`/`KillCleared` the clearing of the queue, each
  in the two statements of the code. What may go wrong is named in `Mishaps`:
  time-outs, crashes, expired leases, failing statements, repeated publications,
  cleared queues. `Expire` makes a `PROCESSING` event `STALE`: its lock is five
  minutes old. Whether a gate is open (quiet hours, minimum gap, rate) and
  whether a failure was the last attempt is left open.
* **`CommissionAccount`** – the abstract specification of the commission ledger:
  lines earn, fall due and are taken back; a `Transfer` brings the money sent to
  exactly the standing balance. No entries, keys, jobs or payout rows.
* **`PartnerLedger`** – the ledger in detail: the job (`SyncRead`, then
  `SyncEarn`, `SyncReturns`, `SyncReverse`, `SyncStatus`, `SyncRelease`, one entry
  per step, for the order it read first; `SyncStops` is the exception or restart
  in between), payouts (`PayRead` and `PayCommit` are the two halves of
  `confirm`, whose transaction holds the partner's lock from one to the other;
  `ReversePayout`), and what the rest of the shop does meanwhile (`MoveOrder`,
  `ApproveReturn`, `PurgeCheck` and `PurgeDelete`). `AllocatePayout` is the sum of
  `allocatePayoutIrr`. Under the mapping `Account` (earned, due and reversed
  lines, amounts of recorded payouts) it implements `CommissionAccount`.
* **`Instalments`** – the contracts of one customer. A request is a transaction
  that holds row locks (`Holds`): `CreateCheck`/`CreateCommit` under the lock of
  the customer, `PayRow`/`PayContract` (the instalment, then its contract),
  `CancelLock`/`CancelRows` (the contract, then its instalments). Two that wait
  for each other are `Deadlocked` and the database aborts one (`Abort`).
  `MarkOverdue` is the job, `SetLimit` an administrator.
* **`Invoices`** – one invoice, its payment rows and refunds. `StartRead` and
  `OpenSession` are a start, `ReturnOK`/`ReturnRefused`, `Answer`,
  `RecordFailure`, `Capture` the ways through `verify`, `RecordManual` and
  `RecordPayment` the two places where an administrator enters money, `Send`,
  `RemoveCheck`, `Remove` and `AdminRemoves` the rest of the invoice service,
  `RefundLook`/`RefundWrite` the unlocked and the locked part of `requestRefund`.
  `RecordFailure` updates the row by id, as the code does (`payment.service.ts:994`),
  also over a row that another callback made PAID meanwhile; `overwritten` adds up
  what the invoice had booked for such rows. The gateway answers truthfully here;
  lost answers and false callbacks are in `Checkout`.
* **`SmsCampaigns`** – one campaign: requests of administrators statement by
  statement (`ReadCampaign`, `CountAudience` … `IssueToken` for a preparation,
  `SaveCampaign`, `MoveTexts` and the enqueue loop for the others), the queue job
  (`ReadQueue`, `TakeRow`, `PutOff`, `Claim`, `Refuse`, `Defer`, `RunShort`,
  `Post`, `Record`, `Complete`), delivery reports (`ReadReport`, `SaveReport`)
  and mishaps. Everything after the provider's answer is awaited inside one `try`
  (`InTry`), up to the completion of the campaign; a statement that fails there is
  `Caught`: the catch (`sms-panel.service.ts:847`) takes it for a failed send and
  writes QUEUED or FAILED over what was saved. A statement outside of it `Breaks` the
  job with its list; `RequestFails` and `Restart` are the other mishaps.
* **`SumTheorems`** – lemmas about sums over finite sets (section 5).
* **`…_proofs`** – the theorems of the seven components (section 5).
* **`MC_…`** – small instances.

What one step is: a `dataSource.transaction` whose first statement locks or
updates the row it decides on is atomic; every other `await` on the database or
the gateway ends a step. TypeORM's `save` of an entity writes back every column
that differs from the database, so saving a copy restores the values read
earlier; the model does the same (`SaveOrder`, `EditItems`, `SaveAddress`,
`SaveSession`, `ReverseCancel`). Saving an order that was purged meanwhile
inserts it again, as TypeORM does.

Data that is abstracted: one variant and one quantity per order; amounts of
money are units; statuses are their normalised names; payment ids are numbers
in creation order (`createdAt`); `purge` leaves the payment row pointing at an
order that is `GONE` where the code sets `orderId` to NULL. Counters added for
the properties only: `commits`, `captured`, `sessions`, `ledger` (capped at
`MaxBooked` = 2, enough to see a double booking), `posts` (capped at `MaxPosts`,
one more than can be asked for), `orders`, `released`, the deliveries whose
claim the code gave up although it stood for a post, `overwritten` of invoices, and
`posts` and `hits` of campaigns: how often the provider took a text, and how many
mishaps lost its claim or its outcome.

Two restrictions of the inputs. `CanTransition` compares statuses without case and
blanks (`order-status.ts:116`) while `updateStatus` stores what it was given, so a
status spelled `confirmed` would pass the check and miss the settlement of stock;
the models know the normalised names only. And customers return by the link of the
gateway: `verify` asks for no more than the id of a payment
(`payment.controller.ts:207`) and accepts a refusal for a row that has no authority
yet (`payment.service.ts:919`), which would cancel the row of a start under way;
`Return` in `Checkout` waits until the session was given.

## 3. Runs

| run | instance | what it shows |
|---|---|---|
| `overlap` | 2 orders (online, free), 2 requests at once, 1 payment, 1 crash, captures | `CommitOnce`, `SettledHasStock`, `CapturedLeavesAwaiting`, and the inductive invariant `OrderIInv` in all reachable states |
| `books` | 1 online order that gets paid and 1 cash order with quantity 2 edited to 1 and 3 on a shelf of 4; requests one at a time, captures between their statements | `Books` balance between requests; `LegalMoves` |
| `race` | 3 customer requests at once, 2 payment rows, reliable gateway, manual payments | `OnePendingPerOrder`, `BookedOnce`, `NoStuckStart`, `PaidCanBeVerified`, `PaidIsFinal` |
| `rough` | 2 customers, 2 gateways, 2 rows, lost answers, false callbacks, crashes, manual payments | `CapturedWasPaid`, refinement `OrderSpec` |
| `composed` | 2 customers at once, 2 administrator requests one at a time (status, tracking, note, void), address updates, lost answers, crashes | `OneSessionPerPayment`, `OnlineNeedsMoney`, and its inductive invariant `MoneyIInv` |
| `live` | 2 customers, 2 overlapping cancellations, fair scheduling | `PaidGetsBooked`, `CancelledGetsReversed` |
| `deliver` | 1 product, 2 worker processes, 2 calls at once, all mishaps, 1 order of an administrator | `NeverTwice`, `SendsWithinBudget`, `SuccessStays` |
| `partners` | 1 order with 2 lines, 2 payouts, returns, the job interrupted once, fair job | `LedgerIInv`, `ClawedBackOnce`, `SetOffAfterPayment`, refinement `ImplementsAccount`; `EndedGetsClawed`, `StatementSettles` |
| `instalments` | 3 transactions at once on 3 contracts, a limit that moves | `InstalmentIInv`, `CollectsRemainder`, `CancelledStays`, `CreditGranted` |
| `invoices` | 2 requests at once, 2 payment rows, 2 refund keys, an invoice of 2 units, fair handlers | `InvoiceIInv`, `BooksAgree`, `RefundsCovered`, `OnlyLateFailures`, `ReturnedGetsBooked` |
| `sms` | 1 recipient, 2 administrators' requests at once, 1 preparation, the job, 1 mishap, fair job | `SmsIInv`, `NoDoubleText`, `OutcomeStays`, `TextsMoveOn` |
| `double_cancel` | 2 overlapping cancellations | violated: `NeverOverstocked` – the goods come back twice |

Bounds. Two overlapping requests are the least that interfere, and every
interference found needs only two; `overlap` adds captures, a free order's
auto-confirmation and a crash as further actors. Two orders compete for goods
that suffice for one only in part. Two payment rows are what a gateway switch
or a failed start needs. Three customer requests let two starts and a callback
overlap. Requests are served once, so runs end: deadlock is not an error there
(`CHECK_DEADLOCK FALSE`). `composed` identifies states that differ only in the
names of customers or requests (`MCSymmetry`): no definition tells them apart,
and the run checks invariants only. `deliver` does the same with workers and
calls. It needs one product only, because products meet in nothing but the daily
cap, and two calls, because the second one may be that of another worker or of
the same worker after a time-out. Its constraint `MCExplored` stops at states the
properties say nothing about (a claim was given up), leaves out the change of
day, which a single product does not notice, and lets administrators finish one
thing before the next, to keep the run short; the theorems of section 5 have none
of these restrictions.

`partners`: two lines are the least that can be in different states when a payout
reads them; their commissions are 1 and 2, so that no sum equals another by
chance; a second payout is needed to make good a reversed one. `instalments`:
one contract with two unequal instalments (the last one absorbs the remainder),
one with a single instalment, one paid in advance that has none; limits 0, 4 and
5 admit neither, one or both; two transactions can deadlock and the third is the
bystander. `invoices`: two sessions for the same remainder are what
competes for the room of an invoice, two keys are what a repeated and a second
refund need, and two units allow part payments. `sms`: texts meet in nothing but
the status of their campaign, so one recipient suffices for what the properties
say; two requests are the least that interfere; two attempts distinguish a retry
from the last one; one preparation and one mishap keep the run short (what a second
preparation rewrites beside a campaign under way is therefore left to the theorems,
which hold for any number of each).

Assumptions of passing runs, each named by a constant of the module, and what
TLC finds without them:

* `Reliable` (`race`, `live`): with `Reliable = FALSE` and one payment row, a
  verification that times out writes FAILED over PAID, and the next callback
  books the money again (`BookedOnce`, `payment.service.ts:994`).
* `ClientsCrash = FALSE` (`race`, `live`): with TRUE, a restart after the attempt
  row is stored leaves a PENDING row whose next attempt number is taken, so no
  later start can use it (`NoStuckStart`, `:560`).
* no whole-row saves among overlapping requests (`overlap`): with a note beside
  two confirmations (`Requests` of three, `MaxActive = 2`, `GatewayActive =
  FALSE`) saving the note forgets `stockCommittedAt` and the goods are deducted
  again (`CommitOnce`, `order.service.ts:1755`).
* one gateway and no cancellation beside the starts (`race`): with two gateways a
  start that was overtaken by a switch saves its copy as PENDING again
  (`OnePendingPerOrder`, `PaidIsFinal`, `payment.service.ts:590`), and the switch
  saves a row read before its authority was stored, so that who pays that session
  cannot have it verified (`PaidCanBeVerified`, `:465`); a cancellation does the
  same (`:1177`). In `race` these properties are therefore about shops with one
  gateway, and `rough` says what holds with two.
* nobody asks for the status AWAITING_PAYMENT an order already has (`NoReask`),
  because that write may undo a capture.
* one product (`deliver`): with three and a cap of two posts a day, each counts the
  other two as in flight and none is ever sent, although nothing goes wrong
  (`RESERVE_CREATE_COUNTS_SQL`, `reserve-create-send-sql.ts:12`).

More counterexamples on variants: a repeated callback confirms an order that is
under review (`payment.service.ts:883`, against the comment at `:757`); a capture
between the money check of `voidOrder` (`order.service.ts:1490`) and its last
write (`:1498`) leaves a deleted order with a PAID payment (against
`order-money-guard.ts:2`); and `NeverTwice` without its exception fails in each
of the three ways named above it in the module. Two more are exceptions that the
properties themselves name:

* `BooksAgree` without `overwritten` fails in ten steps: two returns of one session,
  the customer pays between the answers they get, the second captures, and the
  failure of the first is recorded over its PAID (`payment.service.ts:994`). The
  invoice goes on showing the money and, being full, is never paid again; the row
  stays FAILED, so that it can no longer be refunded.
* `NoDoubleText` and `OutcomeStays` without `hits` fail with a single mishap: the
  completion of the campaign fails after SENT was saved (`sms-panel.service.ts:809`),
  the catch writes QUEUED over it (`:847`-`:854`), and the next round sends the text
  again, against the comment at `:647`.

Fairness. Node's event loop and the database serve every statement eventually,
and a handler waits for nothing but locks whose holders are themselves served;
new requests, the customer's payment, crashes and mishaps are never fair.

* `FairCheckoutSpec`: weak fairness of each started handler, customer's or
  administrator's. Checked without crashes: no job resumes a lost reversal or
  callback.
* `FairInvoiceSpec`: weak fairness of each started verification.
* `FairLedgerSpec`: the job runs every ten minutes and its cursor walks all
  orders, so each order is read again and again (strong fairness of `SyncRead(o)`,
  which is only enabled between two rounds) and every started round goes on; an
  open payout transaction ends, by commit or by failure.
* `FairSmsSpec`: the job runs every minute, reads due texts oldest first and works
  through its list; strong fairness of reading a text and of taking it from the
  list, because both are disabled while another text is worked on, and because
  the hours of promotion open again every day.

## 4. Hazards

`PROJECT.json` lists them with their lines and the properties that would catch
them. Those without a property are noted there: deleted orders with a captured
payment (`order.service.ts:1442`), whole-row saves of orders beside other requests
(`:1755`), a request for AWAITING_PAYMENT, the stale save of a gateway switch or a
cancellation (`payment.service.ts:465`), unlocked sending and removal of invoices
(`invoice.service.ts:126`), claims of deliveries that are given up although they
stood for a post (`outbox-worker.service.ts:433` and `:779`,
`omnichannel.service.ts:1526`), the daily cap, repeated instalment payments with an
older key, drafts of sales partners, the vendor ledger, returns requested twice, and
the loser of a race of two creations. Where a run's properties leave one of these
cases out or except it, section 3 says so.

## 5. Proofs

Every safety property and every action property that a passing run checks is
also a theorem, for every value of the constants; the hypotheses beyond the
modules' own assumptions are formulas about constants of the module, and are
stated with each theorem. Each inductive invariant was model-checked on the instances of
section 3 before it was proved.

`OrderEffects_proofs` proves, for any finite set of orders and any payments,
requests, tasks, stock and numbers of crashes:

* `TypeCorrect`: `OrderSpec => []OrderTypeOK`. No assumption beyond
  `OrderAssumption`. Stock, wallet and counter stay natural numbers because
  every decrement is guarded (`Settle`, `EditItems`, `UsesAfterDecrement`).
* `SettlementInvariant`: `OrderSpec => []SettlementIInv`, assuming
  `NoWholeSaves`, and from it `CommitOnceHolds` and `SettledHasStockHolds`.
  `CommitOnce` alone is not inductive: one must know that a deducted order is
  marked (`CommitsMarked`) and that the marks only get set (`Owned` grows;
  whole-row saves are exactly what breaks this). `SettledHasStock` is not
  inductive either: `updateStatus` and `addTracking` write a settled status on
  the strength of an old read, so `SnapshotsOwned` says that whoever *saw* a
  settled order acts on an order that is still owned, and `TrackingSettled` and
  `StatusTasks` tie the program points to what was checked in `Begin`.
* `CapturedLeavesAwaitingHolds`, assuming `NoReask` as well: a capture takes
  its order out of AWAITING_PAYMENT unless the order was reversed; the
  strengthening adds that a voided order is never in that status.

The argument has one lemma for each way a step can touch an order
(`NoOrderWrite`, `PlainWrite`, `SettleWrite`, `ApplyWrite`) and one for the
program points (`ProgressKeepsClaims`); each action is one case that cites one
of them. The hypotheses are about constants of the module; that the first one is
necessary is what the variant with a note (section 3) shows. `OrderInvariant`
puts the types and the settlement part together: it is the invariant `overlap`
checks.

Two more theorems of that module are about requests served one by one
(`ServedAlone`), beside any captures; requests that void an order or save it as a
whole may then only ask for orders no payment can reach, and free orders are left
to their own confirmation. Both restrictions are those of `books`, and the
counterexamples of section 3 and run `double_cancel` show what happens beyond.

* `LegalMovesHold`: `OrderSpec => LegalMoves`, assuming `NoStepBack` as well (no
  request asks for the statuses before CONFIRMED). A status is checked on a row
  read earlier and written later; `AloneIInv` (`AloneInvariant`) therefore says
  of the busy request what it read and what may have changed since: a status may
  have been `Overtaken` by a capture, in two ways only, from both of which the
  move that was checked is still legal; nothing else of the row changed. It holds
  with crashes too.
* `BooksHold`: `OrderSpec => []Books`, assuming `MaxCrashes = 0`. A reversal gives
  stock, wallet money and discount use back in three statements and marks the
  order in a later one, so `Books` only balances between requests; `BooksIInv`
  (`BooksInvariant`) is the balance at every statement. `StillTaken`,
  `CreditedByNow` and `StillUsed` are the sums with what the reversal under way has
  already given back. A crash in the middle leaves goods on the shelf that the
  order still seems to own: that is why the theorem excludes them.

`Checkout_proofs` proves, for any finite set of orders and any payments,
customers, gateways and administrator requests, with or without lost answers,
false callbacks, restarts and manual payments:

* `CheckoutInvariant`: `CheckoutSpec => []CheckoutIInv`, and from it
  `OneSessionHolds` and `CapturedWasPaidHolds`. `OneSessionPerPayment` is not
  inductive: that a second session cannot be opened follows from the unique
  index on attempts, and only if whoever talks to the gateway owns the attempt
  of its payment, alone (`AttemptsOwned`), and a payment without an attempt has
  no session (`SessionsKnown`). `CapturedWasPaid` needs that a request about to
  capture has seen the money (`MoneySeen`), and that a PAID row, a capture and a
  ledger row go together (`CapturesBooked`). `PlacesOK` says which program points
  have a payment, and that it belongs to the order of the request.
* `CheckoutRefines`: `CheckoutSpec => OrderSpec`, assuming `~AddressSent`: each
  step of the payment service is a capture, a reapplication, a write that makes
  no row PAID, or a stutter of the order's variables (`StepRefines`). The
  assumption is needed, because a start that carries an address saves the whole
  order row it has read, which no step of `OrderSpec` does. `CheckoutCommitsOnce`
  carries `CommitOnce` over to the composed system, assuming `NoWholeSaves` too;
  `CheckoutSettledHasStock`, `CheckoutCapturedLeavesAwaiting` and
  `CheckoutBooksHold` do the same for the other promises of the orders' side, each
  under its own hypotheses.
* `NoStuckStartHolds`: assuming `~ClientsCrash`. The strengthening `StuckIInv` adds
  that attempts and requests only ever hold rows that exist (`RowsExist`). It
  needs no assumption on gateways or reversals: whoever overwrites the row of a
  start under way leaves it no longer as it was inserted.
* `OnePendingHolds` and `PaidCanBeVerifiedHolds`: assuming `OneGateway` and
  `NoReversals`, for lost answers, false callbacks and crashes too. Neither is
  inductive. `SoloIInv` (`SoloInvariant`) says that starts of one order exclude each
  other and one about to insert saw no PENDING row (`StartsLocked`); that the row
  of a session still to be saved is as it was inserted (`RowsAsInserted`), because
  callbacks need a session the customer was given (`SessionsStored`) and manual
  payments a row of their own (`GatewaysKnown`), so that saving the session
  overwrites nothing; and that no reversal is under way (`NoReversalPoints`).
* `BookedOnceHolds` and `PaidIsFinalHolds`: assuming `Reliable` as well. Then a
  request that verifies has a payment the gateway was paid (`VerifiesPaid`) and
  none is rejected, so no write reaches a PAID row any more (`CapturedIsPaid`) and
  a capture always finds one that was never booked (`FinalIInv`,
  `FinalInvariant`).

  What each of the three hypotheses excludes is listed in section 3, with the
  line it breaks at.
* `OnlineNeedsMoneyHolds`: `CheckoutSpec => []OnlineNeedsMoney`, without any
  assumption beyond those of the modules: no interleaving of stale saves, failed
  callbacks and administrators moves an online order past AWAITING_PAYMENT
  unless money was booked for it. The inductive invariant `MoneyIInv`
  (`MoneyInvariant`) adds that
  a row held by a request is as justified as a row of the table
  (`RowsHeldJustified`; a stale save can then only restore a justified status),
  that a request writes a status only after `CanTransition` accepted it from the
  row it holds (`MovesChecked`), that only free orders confirm themselves
  (`FreeOnes`), and that bookings only grow.

The first part of that file shows what each action keeps (`QuietKeeps`,
`TalkingKeeps` for sessions, `BooksKept` for bookings); the second does the
orders' side for `MoneyIInv`, one step per action of `OrderEffects`. The third
sorts the actions by what they do to payment rows (`PaymentSteps`): those that
only move a request (`Reading`), those that end one with a write (`Closing`), an
insertion (`Inserting`), the attempt and its session (`Opening`). The invariants
of the rows then have one lemma for each kind.

`ChannelDelivery_proofs` proves, for any deliveries and workers, any finite set
of calls, any cap and all mishaps:

* `DeliveryTypeCorrect`: `DeliverySpec => []DeliveryTypeOK`, with the conjuncts
  `WorkersOK` and `HandlersOK`, which say that whoever works on a delivery has one.
* `SendsHold` and `NeverTwiceHolds`. `NeverTwice` is not inductive: a call that
  is about to post must be counted with the posts (`SendsWithinBudget`), and when
  both reach what was asked for, the row must be in a status from which no claim
  starts. A producer that has decided to reuse a DEAD row will make it PENDING in
  its next statement, so the invariant also says that then the budget is not
  used up (`KeptOK`); the lock of the key keeps `Reserve` out in between.
* `SuccessStaysHolds` uses that a row that SUCCEEDED has been posted (`PostedOK`),
  so that a stale failure that overwrites it counts as a claim given up.

Each action falls under one of a few lemmas: those that create no sender and
take no row out of a kept status (`QuietStep`, `NoNewSender`), those that give a
claim up (`GivenUp`), the reservation, the post and the administrators.

`PartnerLedger_proofs` proves, for any orders, lines, commissions, payouts and
interruptions, `TypeCorrect`, `EntriesInvariant`, and from it `ClawBackOnce` and
`ClaimsAfterPayment`. `ClawedBackOnce` is inductive only with the types: the
guard `CanReverse` looks at all reversals of a line, whatever their reason.
`SetOffAfterPayment` is not: a payout reads the open entries in one step and
settles them in another, so `ReadStillHolds` says that what it read is still
open, which needs that only one payout per partner is open at a time and that
the job never touches an entry a payout holds.

`LedgerInvariant` adds the money (`MoneyIInv`), for any finite set of payouts: an
open payout will settle exactly its amount (`SettlesItsAmount`), and the amounts
of all committed payouts, less those made good after they were sent back, are the
commissions paid less the claims set off. From it `LedgerImplementsAccount` proves
`LedgerSpec => ImplementsAccount`: the job's entries are the abstract account's
`Earn`, `FallDue` and `ClawBack`; `PayRead` is its `Transfer`, because by that
equation what the open entries add up to is the standing balance less what was
sent (`AllocatesTheRest`); a payout that fails or is sent back is its `Return`; and
everything else, the settling of the entries included, is a stutter.

`Instalments_proofs` proves, for any contracts, amounts, limits and requests,
`InstalmentInvariant` and from it `ClosedWhenPaidHolds`, `CancelledStaysHolds`,
`CreditGrantedHolds` and `CollectsRemainderHolds`.
What makes the invariant inductive is the locks: `OneHolder` (no contract or
instalment is held twice) and `LockSound` (what a transaction decided under its
lock is still true when it commits). A payment that has written its row and waits
for the contract is why a cancellation must wait for the rows: `CancelledStays`
fails without that (mutant `RowsUnchecked`). `CreditGranted` needs `GrantStands`: a
request that found room for its contract still has it when it commits, because
both the credit in use and the limit only change under the lock of the customer
it holds, or in its favour. The sum over contracts then grows by one contract.
`CollectsRemainder` is the arithmetic of `buildEqualSchedules`: equal terms, and the
last one takes what the division leaves.

`Invoices_proofs` proves, for any total, any finite set of payments, any keys and
requests, `InvoiceInvariant`: only a gateway row is verified, only a charged one
is captured, one refund per key. From it follow `RefundsCoveredHolds` (the refunds
of a payment are checked against it under its lock, and a payment that has
refunds never changes its amount) and `OnlyLateFailuresHold` (a request about to
record a failure is the only one that writes over PAID). `BooksAgreeHolds` takes two
more steps. `SumsAgree` is the equation: the sum over PAID rows changes only with the
invoice, and what a late failure takes from it goes to `overwritten`. `SessionsFill`
says why such a row is not booked again: a session is opened for the whole room of
the invoice, and the room only shrinks, so whoever books a session fills the invoice.

`SmsCampaigns_proofs` proves, for any recipients, requests, attempts,
preparations and mishaps, `SmsInvariant`, `NoDoubleTextHolds` and
`OutcomeStaysHolds`. `NoDoubleText` is not inductive: one must know where a text
may still be sent from. `PostsCovered` says that the posts of a text exceed the
mishaps that hit it, and then by one, only while it is `AtRest` (it went out, is not
in the list of the job, and the job has at most to close the campaign for it) or is
just being recorded; so every other claim that leads to a post was paid for by a
mishap. `InOrder` adds, for a text no mishap hit, that going out means being at rest
and being claimed means being held by the job; `OutcomeStays` follows from it.

`SumTheorems` has the facts about `SumFunctionOnSet(f, S)` that the books, the
ledger, the contracts and the invoices need: the sum of the empty set, what adding
or removing an element does, that only the values on the set count, what one
changed value does, sums over a part and the rest of the set, over images and
disjoint unions, of constants, and of naturals over a subset. The operator is a fold, and the library's
induction theorems take an operator as a parameter, which the provers cannot
instantiate. The way around: the subsets of S that fail a claim form a *set*, a
non-empty one would have a minimal member (`MinimalSubset`, from the library's
well-founded strict subset ordering), and unfolding the sum once at that member
refutes it (`SubsetInduction`). That the recursion behind the fold has a solution
at all is shown in the same way (`RecursionExists`).

The assumptions that sets are finite (`Orders`, `Payments` of invoices, `Payouts`)
say that tables have finitely many rows; no sum would mean anything without them.

Only model-checked: the liveness properties `PaidGetsBooked`,
`CancelledGetsReversed`, `EndedGetsClawed`, `StatementSettles`,
`ReturnedGetsBooked` and `TextsMoveOn` (liveness under fairness is outside what
the proof system can do). `NeverOverstocked` is violated and stays so.

## 6. Not modelled

* **The body of `order.create`**: prices, pack allocation, discounts and shipping
  are arithmetic on one request; what it writes is one transaction whose debit of
  the wallet and count of discount uses are guarded updates. The states it leaves
  are the initial states of `OrderEffects`. The lookup of the winner after a race
  for an idempotency key is listed as a hazard.
* **UPDATE and DELETE deliveries, withdrawn publications, the drain and the other
  event types** of the outbox: they share the lease, completion and failure
  statements that `ChannelDelivery` models, but send nothing that must not be
  repeated.
* **Fulfilment and the vendor ledger, drafts of sales partners**: unlocked reads
  followed by whole-row saves. A model would show only that each operation works
  when it is alone; the worst races are listed as hazards.
* **Inventory movements, customer marketing, wholesale referral, authentication**:
  journals nobody decides on, and single rows.
* **ERP, Torob and Basalam, catalogue, content, search, uploads, feeds,
  dashboards, settings, support, the storefront (most of the repository's lines)
  and deployment**: formatting, pages and input/output without protocol state.
* **Pure algorithms** (pack allocation, split and out-of-stock policies): short
  functions with unit tests beside them in the repository.
