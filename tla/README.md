# Jianlian shop: specifications and proofs

The Jianlian shop sells digital goods (codes delivered from a local inventory, or bought from
a supplier when the order is paid) and manually delivered goods. It is a Next.js application over
a Supabase (PostgreSQL) database. What makes it correct is not in the pages: it is in about forty
`SECURITY DEFINER` functions under `supabase/migrations`, in the TypeScript services under `lib`
that call them and the payment and supplier APIs in turn, and in the scheduled jobs. This directory
models those protocols in TLA+, checks them with TLC and proves the most important facts with TLAPS.

Paths below are relative to the repository. `PROJECT.json` maps every definition to the lines it
stands for; a migration that redefines a function replaces the earlier text, and the map names the
text that is in force after the last migration.

## The system

| Component | State | Operations | What makes it correct |
|---|---|---|---|
| Order creation and reservation | `orders`, `order_items`, `digital_inventory`, `products.stock` | `create_order_with_item` | a unit goes to one order, an order gets all it needs or does not exist, stock is never oversold |
| Cancellation, expiry, release | the same, and `payment_sessions` | `cancel_unpaid_order`, `list_expirable_unpaid_orders`, `expire_unpaid_order`, `release_order_inventory`, the five-minute job | goods go back once, never from a paid order, and eventually from an overdue one |
| Payment sessions | `payment_sessions` | `createPaymentSession`, `reserve_payment_session`, `closePaymentSession`, expiry on read, `complete_payment_session` | one open session per order, a paid one is final, late answers undo nothing |
| Payment completion, balance payment | `orders`, `order_payments`, `profiles.balance`, `balance_transactions` | `complete_order_payment`, `pay_order_with_balance` | an order is collected for once, a halted order never, every debit has its transaction |
| Delivery | `order_deliveries`, `digital_inventory`, item and order status | `deliver_digital_order`, `refresh_order_fulfillment_status`, `admin_deliver_order_item_manual`, `mark_order_delivery_failed` | never more than was bought, never twice, never another order's goods; retries converge |
| Local inventory administration | `digital_inventory`, admin operation ledger | import, edit, `admin_transition_local_inventory` | never touches what an order holds; repeated requests apply once |
| Order administration | `orders` | `admin_update_order_status` | cannot mark paid; releases goods when it cancels |
| Supplier fulfilment | `supplier_fulfillment_requests`, deliveries | claim, purchase, query, record, reconcile, local stock first | nothing bought twice, nothing lost when an answer is |
| Refunds | `refund_requests`, orders, inventory, balance | request, review, process | never more back than was paid |
| Account recharge | `account_recharges`, `payment_sessions`, `balance_transactions` | create, complete, expire, reconcile, review by hand, approve late | credited once, only for money received in time or approved |
| BEP20 chain payments | `chain_payment_sessions`, claims, the registry shared with recharges, dispositions, wallet | verify a hash, claim, prepare, complete, settle under- and overpayment, approve, refuse | a transfer pays for one thing; what is refused or booked stays so |
| Callbacks and reconciliation | sessions, callback logs, reconciliations | verify, decide, write, complete, ask the gateway | every verified payment is booked or reviewed, in whatever order its reports arrive |
| Email jobs | `email_delivery_jobs`, `email_delivery_attempts` | queue, select, claim, send, finalize, retry, cancel | a claim is respected, attempts are bounded, every mail settles |
| Callback relay, Bitrefill purchase and PIN budget, compensation tasks, rate limiting, referral | own tables | claims, leases, budgets, counters | at-most-once effects, bounded spend |
| Catalogue, accounts, legal, media, analytics, pages | own tables | reads and single-row writes | permissions; no protocol |

**How they interact.** A checkout creates an order (reservation at once), then opens a payment
session through a provider, or pays from the balance. A provider's callback, verified and matched,
completes the session and with it the order in one transaction; the service then, in another request,
delivers. Meanwhile the customer cancels or closes, the scan expires, administrators
update the order and the inventory. The functions share rows and serialise on row locks (order first);
what happens between two requests of one service is unprotected and where the hard behaviour is:
a read that is stale when it is used, an answer that arrives late, a call that is repeated, a step that
fails after another one took effect. Recharges share `payment_sessions` and the completing function with
orders; chain payments sit on top of both (a chain session points to a payment session, which its
completion pays); mails are queued by whatever succeeded and processed by a schedule of their own.

`PROJECT.json` lists the components with what is modelled of each, and the hazards with the properties
that would catch them.

## Modules

| Module | Models or proves |
|---|---|
| `OrderLifecycle` | orders, inventory, sessions opened for orders, balance payment, delivery, administration |
| `Reservation` | what the goods side promises, abstractly; refined by `OrderLifecycle` |
| `TransferLedger` | what is promised of a transfer on the chain, abstractly; refined by `Bep20Payment` |
| `Totals` | sums over sets, counted as pieces |
| `SupplierFulfillment` | the delivery of an item bought from the supplier daju: local goods first, claim, purchase, query, record, reconciliation, with processes that die |
| `RechargeLifecycle` | recharging the balance: gateway sessions, callbacks, reconciliation, expiry, review by hand, late approval |
| `Bep20Payment` | orders paid by a transfer on the chain: opening a session, verifying a hash, claims, completion, settlement of what was too little or too much, late decisions |
| `EmailJobs` | the business email queue and its workers |
| `MC…` | instances of the five component modules for TLC |
| `OrderLifecycleProofs` | type correctness, no leaked reservation, delivered units stay delivered |
| `ReservationProofs` | `OrderLifecycle` implements `Reservation`; an order holds exactly its quantity |
| `TotalsProofs` | lemmas about sums, for the two modules below |
| `OrderPaymentProofs` | sessions, the balance and its debits, the stock |
| `SupplierFulfillmentProofs` | one buyer; bought once, recorded truly, and local goods |
| `RechargeProofs` | a credit and what it is for |
| `Bep20Proofs` | what books a payment, what stays as it is, and where the money comes from; `Bep20Payment` implements `TransferLedger` |
| `EmailProofs` | claims, attempts, and what is settled |

### OrderLifecycle

*State.* `orders[o]` is the row of an order with its item: the fields the guards read (`status`,
`payment_status` as `pay`, `reservation_released_at` as `released`, whether `payment_expires_at` has
passed as `due`, `payment_method`, the item's `delivery_status`) and two facts about `order_deliveries`
that steer the delivery status (a `failed` row exists; a manual `delivered` row exists). `units[u]` is a
`digital_inventory` row: its state, its owner (`coalesce(reserved_order_id, order_id)`, which is what the
functions compare) and its own expiry. `stock` is `products.stock` of the manually delivered product,
`sessions[s]` a `payment_sessions` row together with the request that opens it (`pc`), `balance` the
customer's balance, `debits` the orders with a completed `order_payment` balance transaction (a unique
index allows one).

*Actions.* One per function. Each function locks the order row first and runs in one transaction, so it
is one action; a call that raises rolls back and is not a step. `CancelUnpaidOrder`, `ExpireUnpaidOrder` and
`AdminUpdateOrderStatus` contain the release (`ReleaseGoods`), as the functions do, including the case
in which the release refuses and the caller goes on. `createPaymentSession` is not a transaction and is
three actions: it reads (`BeginSession`), reserves (`ReserveSession`), calls the provider and writes what it
answered (`ProviderReturns`, `ProviderFails`); everything else may run in between. A callback may come
at any time after the customer paid, any number of times, or never (`CompletePaymentSession`). Delivery
takes any subset of the reserved rows up to what is missing: rows another transaction holds are skipped
(`for update skip locked`). Expiry is `ExpireUnpaidOrder` for every caller (the scan, the endpoint on one
order) and `ExpireListedOrder` for the scan, which only serves fairness.

*Abstractions.* One item per order, because `create_order_with_item` inserts one and nothing else
inserts any. Prices are one unit of money per unit of goods; amounts and currencies that do not match
are refused by the code and are therefore not steps. Time is what the guards compare: past a deadline
or not. `OrderFallsDue` and `SessionFallsDue` keep the order of the deadlines (both are fifteen minutes
after creation, so a session never runs out before its order, nor before an older session).

*External.* Two definitions model what is outside the repository: `CustomerPays`, the customer paying at
the gateway (in time, or after the session's deadline, on any session whose link was handed out), and
`UnitLapses`, the clock passing a unit's expiry.

### Reservation

An order is fresh, holding or freed; goods are on the shelf, held, gone or withdrawn. It takes exactly
what it needs, at once; is handed goods only out of what it holds; gives the rest back once and gets
nothing afterwards. `ImplementsReservation` says that `OrderLifecycle`, with payments, sessions, retries
and administrators, does nothing else to goods. The mapping reads an order's phase from `status` and
`released`, and a unit's place from its state and owner.

### SupplierFulfillment

A worker is a server process inside `deliverDigitalOrder` (a payment callback, a reconciliation job, an
administrator's retry) or `reconcile_daju_order`. What each does is several database transactions and HTTP
requests in a row, and each of them is an action; `pc` says what comes next:

| `pc` | Action | Code |
|---|---|---|
| `idle` | `ReserveLocal`, `StartReconcile` | `reserve_local_inventory_for_supplier_order`; the administrator's form |
| `local` | `DeliverLocal` | `deliver_digital_order` |
| `load` | `LoadCandidate` | `loadCandidates` |
| `claim` | `Claim` | `claim_supplier_fulfillment`, with what the caller does on its answer |
| `product` | `ReadProduct` | `getProduct`, `validateReadiness` |
| `purchase`, `sent` | `SendPurchase`, `AnswerPurchase` | `client.purchase` and how `decideDajuError` takes its failures |
| `read` | `ReadDelivered`, `ReadUndelivered` | `GET /order` by its code |
| `record` | `RecordOutcome` | `record_supplier_fulfillment_outcome` |
| any | `Crash` | the process dies; what it committed stays |

*State.* `items[i]` is an order with its one item (halted or not, delivery status, whether a `failed` and a
`supplier_delivery` row exist in `order_deliveries`), `request[i]` its row of `supplier_fulfillment_requests`
(status, and whether an order code is known), `units[u]` a `digital_inventory` row, `upstream[i]` the
supplier's order for the item's `request_id`: none, asked for, accepted, delivered. A worker keeps the item,
whether the `attempt_token` it holds is still the row's (`current`), and the outcome it goes on to record.

*External.* `UpstreamAccepts` and `UpstreamDelivers` are the supplier. It deduplicates by `request_id`,
so a purchase that is sent again while an order is there is answered with that order, but a purchase may
also reach it long after its answer was given up. `ReadFaults` says how the GET that completes a
purchase may fail: lost, or refused with a rate limit. `Crash` is the process killed.

*Abstractions.* Every order has one item and is paid; the read of the supplier's mapping that precedes
`loadCandidates` in the router is merged with it; which of the answers that mean the same outcome came
is not told apart; reserved rows do not lapse. Rows locked by other transactions are skipped: reservation
may find too few, delivery may take any subset.

### RechargeLifecycle

*State.* `status[r]` is `account_recharges.status`, `sessions[s]` a `payment_sessions` row opened for a
recharge (numbered in the order of creation, with whether the gateway ever got it), `gateway[s]` what the
gateway knows of it and when the customer paid it, `ledger` the recharges with a completed
`balance_transactions` row (that is, the balance was raised), `late` those an administrator credited as
late payments, `due` those whose `expires_at` has passed.

*Actions.* The SQL functions (`complete_payment_session` with `complete_account_recharge` and
`credit_account_recharge_balance` inside it, the late approval, `reserve_payment_session`) lock what they
decide on and are one action each. The handlers around them are not, and a worker is a server process
inside one, with what it read before (`seen`, `at`) and the next step (`pc`):

| Handler | Steps |
|---|---|
| `createPaymentSession` | `CreateSession`, then `SessionOpened` or `SessionFailed` |
| `handlePaymentCallback`, paid | `CallbackArrives` (reads the session), `CallbackDecides`, then `LateEvidenceOnSession`, `LateEvidenceOnRecharge`, or `CompletePaymentSession` |
| `handlePaymentCallback`, not paid | `UnpaidCallbackArrives`, `UnpaidCallbackWrites` |
| `runPaymentReconciliation` | `ReconcileStarts`, `ReconcileAnswered`, `CompletePaymentSession` |
| the expiry scan, a customer's poll | `ExpireOverdue`, `ExpireSessions`; `PollExpiresSession`, `PollExpiresRecharge` |
| `processRechargeReview` | `Approve` or `RetryCredit`, `ClaimCredit`, `CreditRecharge` or `CreditUnanswered` (and `AdriftCreditLands`, the call that took effect after its answer was given up), `FailCredit`, `SettleCredit`; `Review`, `ReviewRepairs` |
| `approveSnpayLatePayment` | `LateReviewStarts`, `ApproveLatePayment` |

A callback may come in any order, any number of times, and after anything; `Crash` may end a worker
between any two of its steps.

*Abstractions.* A session expires with its recharge, so one deadline stands for both. Amounts, currencies
and identities match; a callback for which they do not is refused by the code.

### Bep20Payment

*State.* `orders[o]` is the status of an order, `sessions[s]` a `chain_payment_sessions` row (status,
submitted hash, confirmed amount, decision of the manual review, who holds the completion), `payments[s]`
the `payment_sessions` row made for it, `chain[t]` a transaction as the chain shows it (not sent, failed,
mined, final, which deadlines had passed when it was mined, and whether it then lay in the time of a
session that asks for just its amount), `claims[t]` the session that claimed it, `over` and `under` the
sessions with a row in the two disposition tables, `wallet` what the balance gained from transfers,
`registered` the transfers that `bep20_transaction_usage_registry` holds for recharges, `recharged` those of
them whose recharge was credited, `due` and `lapsed` the deadlines.

*Actions.* `verifyBep20TxHashForOrder` is what a worker is inside of, for the customer
(`VerifyTxHash`), an administrator's recheck or scanner (`Recheck`) and the approval of a late payment
(`ApproveLate`). It reads the session (`Begin`), asks the chain (`Inspect`), claims (`Claim`), and then
writes what it found (`WriteUnusable`, `WriteEvidence`), settles an excess (`Settle`, `SettlementFails`,
`AlreadySettled`, `WriteUnsettled`), or completes (`Prepare`, `CompletePayment`, `CompletionFails`,
`Check`, `Finish`, `GiveUp`). All of these are requests of their own. `SettleUnderpayment`,
`CreditOverpayment`, `RejectLate`, `ExpireOrder` and `CancelOrder` are database functions that may run
between any two of them.

A transfer may belong to a recharge instead. The registry takes a hash once (`Registrable`; `ClaimHolds` asks it
for the orders), in one of two ways: the scanner of the recharges matches and credits in one transaction
(`MatchRecharge`), and not when the transfer may have been meant for an order (`MayPayOrder`, the
shared-address safety gate); or a customer submits the hash (`ClaimForRecharge`), which asks no such
question and credits nothing, and the credit follows when an administrator approved (`CompleteRecharge`).

*External.* The customer makes a transfer (`MakeTransfer`), blocks follow (`TransferConfirms`), and time
passes.

*Abstractions.* Units of USDT at a rate of one; one wallet; the largest excess that is credited without
review is any of `AutoLimits`, because an administrator may change it at any time. An order completed by
this channel is delivered in `OrderLifecycle`'s terms and not again here. The recharges paid on the chain
(their reserved amounts, windows and review) are not modelled: any final transfer may be one's, which allows
more than the code does. A recharge is credited what it asked for in yuan, and its transfer brings exactly
that, so the credit is the transfer's amount.

### TransferLedger

One attempt of one order speaks for a transfer (`Claim`), or a recharge is credited with it (`Recharge`). A
pending order is booked with a transfer that speaks for it and brings its price (`Book`), and what exceeds
the price is credited with the booking (`BookWithExcess`) or once, later (`CreditExcess`); it is
cancelled with a transfer that falls short and is credited whole (`CreditShort`); or it ends without one
(`EndUnpaid`). Every credit is for a transfer nothing was credited of. `ImplementsLedger` says that
`Bep20Payment`, with its two session tables, its workers that write what they read long ago, and its deaths
and decisions, does nothing else to transfers, orders and the wallet. The mapping reads the order and the
session of a transfer from `claims` (`ClaimantOf`), and what was credited of it from the dispositions and
recharges (`CreditedOf`).

### EmailJobs

*State.* `jobs[j]` is an `email_delivery_jobs` row (status, attempts, the claim in `locked_at`), `log` the
attempt numbers in `email_delivery_attempts`, `waiting` the retries that are not due, `late` the claims
older than fifteen minutes. `updated_at`, which the claim compares, is not kept: two writes of a row that
agree on status, attempts and claim are the same, because every claim raises `attempts`.

*Actions.* `StartBatch` selects (the oldest due jobs, then stale claims in the room that is left), `LoadJob`
checks, `ClaimJob` compares and claims, `SendEmail` posts (an answer may be lost after the provider
accepted), `FinalizeJob` writes the outcome if the claim still holds. `StartRetry`, `CancelJob` are
administrators; `RetryDue`, `ClaimExpires` the clock; `Fault` a process that dies or a call that fails.

## Runs

| Run | Instance | What it shows |
|---|---|---|
| `inventory` | two automatic orders (two units and one) over three units, one of which lapses; balance payment; administrators halt, reopen and override | `ReservationMatchesOrder`, `BalanceMatchesDebits`, `NoLeakedReservation`, `ImplementsReservation` |
| `payment` | one manual order, two sessions over two channels (one snpay), a balance that suffices, halting administrators | `CollectedOnce`, `PaidOrderKeepsGoods`, `OneActiveSession`, `PaidSessionIsFinal` |
| `expiry` | a manual order of two and an automatic one over a stock that holds one of them, a session, cancelling administrators, the scan fair | `TypeOK`, `StockConserved`, `DueOrderIsSettled` |
| `supplier_recover` | two calls on one item, two units on the shelf, answers lost, processes that die, an administrator who reconciles, fair | `OneBuyer`, `SuppliedAsBought`, `LocalGoodsWithinQuantity`, `FulfilledIsFinal`, `PurchasedOnce`, `NoLocalGoodsAfterRequest`, `AbandonedPurchaseRecovers` |
| `recharge_gateway` | one snpay recharge, two sessions, two processes, fair | `PaidSessionIsCredited`, `CreditIsPaidFor`, `InTimePaymentIsCredited` |
| `recharge_manual` | one recharge reviewed by hand that also has two gateway sessions, two processes | `LedgerMatchesStatus`, `LateCreditIsJustified`, `CompletedIsFinal` |
| `bep20_race` | one order, one transfer that brings too much, two sessions, two processes | `ChainPaidMeansPaid`, `PaidIsFinal`, `RejectedStaysRejected` |
| `bep20_orders` | two orders, one transfer that is exact for one and short for the other, recharges, one process at a time | `MoneyIsBacked`, `PaidOrderHasTransfer`, `UnderpaidCreditIsFinal`, `ImplementsLedger` |
| `email_queue` | two mails, one that cannot be addressed, two workers, three attempts, one fault, fair | `ClaimIsRespected`, `AttemptsWithinLimit`, `AttemptLogIsFree`, `SettledIsFinal`, `QueuedJobSettles` |
| `supplier_limited`, `recharge_reopened`, `bep20_deadline` | the smallest instance of each | the three findings below |

*Bounds.* Every set is a constant of the configuration and nothing else is bounded, but for the faults of
`EmailJobs` (`MaxFaults`, one: without a bound workers could die for ever, and one death is enough for a
takeover, a double post and an exhausted job). Two orders are what contention needs: two that want more
than there is, one of them more than one unit, so that a partial delivery, a retry and a release of the
rest happen. Two sessions give an old and a new one, on one channel or two; a third would only repeat the
part of the old one. One unit of balance more or less than the orders cost makes both a paid and a refused
balance payment happen. Items, recharges and transfers share nothing but the shelf, the wallet and
hashes, so one of each is enough where these do not matter; the calls on them are what races, and two are
a race. `bep20_orders` keeps one process, because its properties relate orders, transfers and credits, and
its competitors are the database functions; `bep20_race` keeps one order. Three attempts let an attempt be
the first, a middle one and the last. The runs have between 2,000 (`bep20_deadline`) and 1,600,000
(`bep20_orders`) distinct states. `CHECK_DEADLOCK FALSE` is set in the runs whose system really stops:
every order may end, and time does not go on by itself. One thing a run does not reach: the recharge of
`recharge_manual` is not one of snpay's, so no late payment is approved there, and that half of
`LateCreditIsJustified` rests on its theorem alone. `LocalGoodsWithinQuantity` and
`NoLocalGoodsAfterRequest` speak of goods from the shelf after a request to the supplier; that a purchase
may follow a delivery from the shelf is told below.

*Hypothesis on administrators.* `admin_update_order_status` compares nothing with the status an order has,
so an administrator can put a cancelled order, whose goods are gone, back to work. What holds
anyway is checked and proved without restriction. What an administrator can break is stated under
`NoReopening` (updates only halt orders), checked in `payment` and `expiry`, and needs it: an order set
from `cancelled` to `processing` is paid although nothing is reserved for it, against the comment in
`complete_order_payment` that its inventory is already reserved.

*Fairness.*

- `FairSpec` of `OrderLifecycle` asks weak fairness of one thing: the expiry of a listed order.
  `20260721_order_expiration_pg_cron_schedule.sql` schedules a post to the expiry endpoint every five
  minutes; the endpoint lists the oldest deadlines first and expires what it listed, one by one, going on
  after one fails (`lib/orders/order-expiration.ts:100-107`). A batch is ten orders; the assumption is that
  fewer than ten orders ahead of a given one are skipped for ever (an order is skipped for ever only when
  it has a paid session and an administrator set it back to unpaid). Nothing is assumed of customers,
  providers or administrators.
- `FairSpec` of `SupplierFulfillment` is for recovery by hand: a process runs on unless it dies (weak
  fairness of each step), an administrator who found the supplier's order keeps naming it (strong fairness
  of `StartReconcile`, because every call makes it impossible for a while), and a reconciliation does not
  die in the same place every time, nor is its GET refused every time (strong fairness of its claim, its
  read and its record). Purchases may fail for ever.
- `FairSpec` of `RechargeLifecycle`: a handler that started runs on, and the watcher's reconciliation of a
  session is started again and again, asks and completes without dying in the same place every time
  (strong fairness of `ReconcileStarts`, `ReconcileAnswered`, `CompletePaymentSession`). Callbacks get no
  fairness: every one of them may be lost. This assumes that the watcher is switched on and asks about the
  session until it is answered; its lookback window and its execute switch are not modelled.
- `FairSpec` of `EmailJobs`: a worker that does not die goes on, time passes, and the scheduled batch runs
  again and again. It gets strong fairness, because a retry that an administrator starts occupies the
  model's worker and not the schedule's own process.

*Findings* (each a run with `expect: violation`):

- `supplier_limited`: a rate limit on the GET that follows a purchase is taken for the answer to the
  purchase; the order, whose code is known, is purchased again.
- `recharge_reopened`: a callback that says "not paid yet" checks the transition against the status it
  read and then writes over any row that is not paid; a session the customer closed meanwhile is open again.
- `bep20_deadline`: an administrator's recheck and the scanner read the order without its deadline, so
  that a transfer made after it, but before the session's, is booked without a review.

*Also seen in the models or while reading*, without a run of their own.

Orders and supplier: the catch block of `createPaymentSession` overwrites `expired` and `closed` with
`failed`. A session can be opened for an order that was paid after the service read it (the payment is
refused, but the customer can make it). A delivery that found its rows locked leaves a `failed` row, and a
retry that then delivers everything leaves the item `failed` (`20260709_…:277`), although
`docs/digital-delivery-retry-runbook.md:40-46` calls that case recoverable. The manual delivery of an item
with a quantity above one falls back to `processing` and cannot be repeated (`20260720_…:283-303`); the one
row a supplier's delivery writes does the same. `claim_supplier_fulfillment` looks at the request only: a
call that loaded the item before another delivered it from the shelf buys it all the same, against
`docs/daju-supplier-fulfillment-v1-rollout.md:39`. An uncertain purchase with a known code is read, and the
record refuses what was read. A partial delivery from locked rows is followed by a purchase of the whole
item; a reconciliation that is told to purchase leaves the request claimed.

Recharges: `docs/recharge-review-runbook.md` says that a failed credit keeps the recharge `approved` for
another try, but the code leaves it `failed`, and a retry after the ten minutes never credits it. The
transition table of `lib/recharges/status-machine.ts` has none from `processing` to `expired` and none out
of `expired`; the code makes both. After a session was reopened (the finding) both sessions of a recharge
can be paid, with one credit. Evidence of a late payment is written before its amount is compared
(`payment-callback-service.ts:139` and `142`).

Chain payments: a hash that is submitted again with another session's hash in the row stops at the
comparison in `prepare_bep20_payment_completion`. A payment can be refused by an administrator after it was
made and before its completion is recorded. An approved late payment is booked though the chain does not
confirm it yet (against `docs/bep20-payment-verification.md:69`). A recheck moves a session whose
underpayment is in the wallet from `expired` back to `underpaid`. An approved payment whose process dies in
`completing` waits for another approval, which its status refuses. An order that was paid through its
second session after a lost answer can have its first, superseded session approved with another transfer:
`complete_payment_session` answers idempotently without comparing the transaction, and the second transfer
is absorbed. `overpaid` is not among the statuses the service may change, so the patch to `payment_failed`
never applies.

Email: a job whose worker dies in its last attempt stays in `processing` for ever, because
`job-runtime.mjs:85` refuses it before it asks whether the claim is stale (against
`docs/email-notification-verification.md:27`). Jobs that cannot be addressed keep the front of the batch,
and as many of them as a batch holds stop the queue.

Refunds: rejecting an old failed request after a full refund turns `orders.refund_status` from `full` back
to `partial`, `failed` or `processing` (`20260703_refund_flow_hardening.sql:261-267, 281-283`); any
successful partial refund releases all the reserved units of the order (301-308) and leaves their
`order_id` and the order's `reservation_released_at` as they were.

## Proofs

All for any number of orders, units, sessions, items and processes and any quantities, from the
assumptions named in the modules (finite sets, of transfers too, positive quantities, prices and amounts, `AutoOrders` a subset of `Orders`,
updates the admin endpoint accepts).

`OrderLifecycleProofs`:

- `TypeCorrect`: `Spec => []TypeOK`. The part that is more than bookkeeping is `stock \in Nat`: the guard
  of the conditional update carries it. One lemma per group of actions (`ReleaseTypes`,
  `MoveSessionsTypes`, `PaidRowType`, `RefreshType`), one step per action (`OrderStepTypes`,
  `SessionStepTypes`).
- `ReservationsNotLeaked`: `Spec => []NoLeakedReservation`. It is not inductive: creation reserves for an
  order whose `released` must be false, so the invariant `ReservationInv` adds `FreshUnreleased`, an order
  that does not exist is not released, and `TypeOK`. `OrderStepEffect` reduces the nine operations on an
  order to four effects (it is created, it releases, it is handed goods, its goods are left alone); a
  release frees exactly the units that would be left behind (`ReleaseReservations`).
- `DeliveredIsFinal`: `Spec => DeliveredUnitIsFinal`: every row an action writes was `reserved`,
  `available` or `disabled`.

`ReservationProofs`:

- `ReservationImplemented`: `Spec => ImplementsReservation`. Each of the four effects maps to one step of
  `Reservation` or to a stutter (`CreationMaps`, `ReleaseMaps`, `HandOverMaps`, `UnitStepMaps`, `NextMaps`).
  A delivery needs the order to be holding, which is where `NoLeakedReservation` comes in.
- `ReservationsMatch`: `Spec => []ReservationMatchesOrder`, by the invariant `CountInv`: what an order holds
  and what it was handed are, together, one set of `Qty` rows while it holds; before, it was handed
  nothing. The step is proved over the five actions of `Reservation`, through `NextMaps`.

`TotalsProofs`: a sum over a set is defined as the number of its pieces, the pairs `<<x, i>>` with
`i \in 1 .. f[x]` (`Totals`). By recursion over the set it would need induction over data; as a cardinality
it needs the library's theorems about finite sets only. `BlockOfPieces` counts the pieces of one
element, `PiecesAreFinite` and `TotalOfUnion` add disjoint sets, `TotalWith` and `TotalWithout` add and remove
one element.

`OrderPaymentProofs`:

- `PaidSessionStays` (`PaidSessionIsFinal`) and `OneSessionAtATime` (`OneActiveSession`), under any admin
  update. `SessionInv` adds that a request that has reserved nothing has no row (`FreshSessions`), and
  `RowStep` states what a step may do to one row: become active only by a reservation that found no live
  session, become paid only by a completion.
- `PaidGoodsStay`, `PaidOnce` and `HaltedTakesNothing` (`PaidOrderKeepsGoods`, `CollectedOnce`,
  and `HaltedOrderTakesNoMoney`, which no run checks), under `NoReopening`. `GoodsInv` adds that a released order is halted and
  unpaid: a completion, which refuses halted orders, then cannot meet one. `MoneyInv` adds that an order
  which accepts a payment has collected nothing, so the one that pays it is the only one.
- `DebitsAccountForBalance` (`BalanceMatchesDebits`), under any admin update: only the balance payment of an
  order without a debit lowers the balance, by the order's price, and it adds that debit (`TotalWith`).
- `StockIsConserved` (`StockConserved`), under `NoReopening`. Not inductive: a release gives stock back,
  so an order that has its stock must not have been released, one that was released must stay halted
  and unpaid, and an order that does not exist must not have been handed anything (`StockInv`). A step takes an
  order's stock, returns it, or leaves it with the order, and moves its quantity between `stock` and the total.

`SupplierFulfillmentProofs`:

- `TypeCorrect`, and `BuyerIsAlone` (`OneBuyer`): from its claim until it stops or
  goes on to read an order a call is committed to an item whose request cannot be claimed, and only a
  committed call makes it claimable again, by the record with which it stops.
- `BoughtOnce` (`PurchasedOnce`), if `"limited" \notin ReadFaults`; run `supplier_limited` shows that it
  fails otherwise. Before a purchase is sent the supplier has no order, because a request returns to
  `PENDING` only after an attempt the supplier refused, and an attempt nobody answered leaves it open.
- `RecordIsTrue` (`SuppliedAsBought`) and `FulfilledStays` (`FulfilledIsFinal`): an outcome `FULFILLED` in
  a worker's hands means that the supplier's order shows its goods, and only the
  attempt that is under way, by the row's token and status, is recorded.
- `NotMoreThanBought` (`LocalGoodsWithinQuantity`): a row with an owner is reserved or delivered, and a
  reservation starts only from nothing reserved. `ShelfIsClosed` (`NoLocalGoodsAfterRequest`).

`RechargeProofs`: `TypeCorrect`, `LedgerMatches` (`LedgerMatchesStatus`), `PaidIsCredited`
(`PaidSessionIsCredited`), `CreditPaidFor` (`CreditIsPaidFor`), `CompletedStays` (`CompletedIsFinal`) and
`LateCreditJustified` (`LateCreditIsJustified`), for any number of recharges, sessions and processes. None
is inductive. `IInv` says besides what a process knows (`RowInv`): one that goes on with a paid report has a
session its customer paid at the gateway; one that credits by hand has a recharge that is reviewed by hand;
and only one process is opening a session (`OneOpens`), so that what it writes is what it created. Most
actions move workers, one status or one session; a lemma each (`WorkerMoves`, `StatusMoves`, `SessionMoves`)
preserves the invariant from what such a step may do, and two others (`SessionRaises`, `ReviewRaises`) are
the only ways to raise the balance.

`Bep20Proofs`: `TypeCorrect`, `ShownPaidIsPaid` (`ChainPaidMeansPaid`), `PaidWithTransfer`
(`PaidOrderHasTransfer`), `UnderpaidIsFinal` (`UnderpaidCreditIsFinal`), `PaidStays` (`PaidIsFinal`),
`RejectionStays` (`RejectedStaysRejected`) and `ClaimedOnce` (`ClaimIsExclusive`, which no run checks, because
`ImplementsLedger` says it too), for any number of orders,
sessions, transfers and processes. `Step` says what a step may do to one row of each table, and one lemma
per action shows that it is such a step (`NextIsStep`); `StepKeepsIInv` and the action properties use
nothing else. The invariant `IInv` says what the row a worker read long ago still guarantees (`JobOK`): a
result "verified" or "overpaid" means a final transfer of that session's lifetime; a worker at the completion
holds the claim of its transfer, has an approval or such a result, and an amount that is enough; one that
finishes knows that the payment was booked. A chain session stays with its order and its payment session
(`RowOK`), and what a transfer has shown for a payment stays shown (`SufficientKept`). That the latest of an
order's sessions is one of them (`MaxIn`) needs the sessions to be finitely many.

Two more results of `Bep20Proofs` need `LedgerOK` besides: a session that completes holds the claim of its
hash and its amount; a credited excess belongs to a session that is paid; a credited shortfall to a payment
session that is closed with the transfer it claimed; whoever claimed one has an order. That a transfer in
the registry of the recharges is claimed by no session, and that only such a transfer is credited to a
recharge (`RegistryOK`), is part of `IInv`. `RowEffect`, `ClaimsEffect` and `MoneyEffect` say what a step may do to these rows.

- `MoneyBacked` (`MoneyIsBacked`). `MoneyInv` adds that the wallet is the number of the credited pieces
  of transfers (`CreditedPieces`): all of a recharge or a shortfall, of an excess those above the price. Every
  credit adds pieces nothing was credited of (`StepCredits`). The pieces of the booked prices are mapped, one
  to one, to the first pieces of the transfers the orders were paid with, none of which is credited
  (`BookedFits`); so both fit into the transfers that were used.
- `LedgerImplemented` (`ImplementsLedger`). Most steps are stutters: they leave orders and money alone, and who
  speaks for a transfer and what was credited of it stay what they were, though the rows these are read from
  may be rewritten (`ClaimantKept`, `CreditKept`, `QuietStep`). Each of the others is shown to be its step of
  the ledger (`ClaimImplements`, `CompletePaymentImplements`, `SettleImplements`, ...). A booking's or a credit's
  guard `credit[t] = 0` is not among what the code compares: it follows from the status of the order, which
  tells that neither disposition can exist.

`EmailProofs`: `TypeCorrect`, `ClaimRespected` (`ClaimIsRespected`), `WithinLimit` (`AttemptsWithinLimit`),
`LogIsFree` (`AttemptLogIsFree`) and `Settled` (`SettledIsFinal`), for any number of jobs, workers,
attempts and faults. Posts are bounded because a post needs a claim, a claim raises `attempts`, and no two
workers hold claims with one number.

*Only model-checked.* `DueOrderIsSettled`, `AbandonedPurchaseRecovers`, `InTimePaymentIsCredited` and
`QueuedJobSettles`: liveness under fairness is beyond TLAPS. Every other property of a passing run is stated
by a theorem.

## Not modelled, and why

Items bound to a supplier are in `SupplierFulfillment` and chain sessions inside cancellation and expiry in
`Bep20Payment`, each without the rest of the order model. Refunds are closed to customers (`POST
/api/refunds` answers 410, and a later migration revokes `create_refund_request`); what reading them showed
is above. The catalogue's checks at creation (visibility, purchase limits, legal consent), the content of
deliveries, logs and notifications decide nothing the properties speak of. Pages, media, analytics, reports
and the read-only scans have no protocol. `PROJECT.json` gives the reason per component.

## Plan

Done: `OrderLifecycle` and `Reservation` (1), `SupplierFulfillment` (2), `RechargeLifecycle` with callbacks
and reconciliation (3), `Bep20Payment` (4) and `TransferLedger`, `EmailJobs` (5), and the proofs of all their safety properties.

Left, in this order:

1. `LockOrder`: the order in which each function takes its row locks.
2. `CallbackRelay`, `BitrefillPinBudget`, the ledger of admin operations, compensation tasks, the rate
   limiter and referral rewards.
3. The composition of `Bep20Payment` with `OrderLifecycle`, for orders that may be paid by either.
