----------------------------- MODULE Bep20Payment -----------------------------
(***************************************************************************)
(* Paying an order with USDT on BNB Smart Chain: the customer transfers to *)
(* a shared address and submits the transaction's hash; the shop reads the *)
(* chain, claims the transfer for the order and books it.  Too little is   *)
(* credited to the wallet and the order cancelled, too much is booked and  *)
(* the excess credited, and what came too late waits for an administrator. *)
(*                                                                         *)
(* The database functions are single actions.  verifyBep20TxHashForOrder   *)
(* is not: a worker is a server process inside it, which reads a session,  *)
(* asks the chain, claims, writes and completes in separate requests, on   *)
(* what it read first, and may die between any two of them.                *)
(*                                                                         *)
(* Orders are paid by this channel only; amounts are in units of USDT at a *)
(* frozen rate of one, and the wallet is one account.                      *)
(***************************************************************************)
EXTENDS Naturals, FiniteSetsExt, Totals

CONSTANTS
    Orders,      \* orders whose payment_method is usdt_bep20
    Price,       \* expected_raw_amount of an order's sessions
    Transfers,   \* transactions the customer may make, by hash
    Amount,      \* raw amount of a transfer
    Sessions,    \* chain_payment_sessions, numbered as they are created
    Workers,     \* server processes
    AutoLimits,  \* what the largest excess credited without review may be set to
    NoOrder,
    NoSession,
    NoTransfer,
    NoWorker

ASSUME Bep20Assumption ==
    /\ Price \in [Orders -> Nat \ {0}]
    /\ Amount \in [Transfers -> Nat \ {0}] /\ IsFiniteSet(Transfers)
    /\ Sessions \subseteq Nat /\ IsFiniteSet(Sessions)
    /\ AutoLimits \subseteq Nat
    /\ NoOrder \notin Orders
    /\ NoSession \notin Sessions
    /\ NoTransfer \notin Transfers
    /\ NoWorker \notin Workers

VARIABLES
    orders,     \* orders.status, with payment_status 'paid' exactly in "paid"
    sessions,   \* chain_payment_sessions
    payments,   \* payment_sessions, each named after the session it was made for
    chain,      \* the transactions, as the chain shows them
    claims,     \* chain_transaction_claims and the row of chain_transactions
    approvals,  \* sessions with an approve_late_payment audit row
    over,       \* sessions with a bep20_overpayment_dispositions row
    under,      \* sessions with a bep20_underpayment_dispositions row
    wallet,     \* what profiles.balance gained from transfers
    registered, \* transfers registered for a recharge, bep20_transaction_usage_registry
    recharged,  \* those of them a completed recharge was credited with
    due,        \* orders whose payment_expires_at has passed
    lapsed,     \* sessions whose expires_at has passed
    workers     \* the requests in progress

money == <<over, under, wallet, registered, recharged>>
clock == <<due, lapsed>>
vars == <<orders, sessions, payments, chain, claims, approvals, money, clock, workers>>

OrderStatus == {"pending", "paid", "cancelled", "expired"}

ActiveStatus == {"waiting_payment", "submitted", "confirming", "verified", "completing",
                 "payment_failed", "underpaid", "manual_review"}
SessionStatus == ActiveStatus \cup {"none", "overpaid", "paid", "expired", "failed"}

(* updateNonFinalChainSession writes to these only. *)
Mutable == {"waiting_payment", "submitted", "confirming", "verified", "payment_failed",
            "underpaid", "expired", "manual_review", "failed"}

Decisions == {"none", "pending", "approved", "rejected"}

SessionRow ==
    [order    : Orders \cup {NoOrder},
     payment  : Sessions \cup {NoSession},    \* payment_session_id
     status   : SessionStatus,                \* "none": not created
     decision : Decisions,                    \* manual_review_decision
     hash     : Transfers \cup {NoTransfer},  \* submitted_tx_hash
     amount   : Nat,                          \* confirmed_raw_amount, 0 for null
     attempt  : Workers \cup {NoWorker}]      \* who made completion_attempt_id

PaymentRow ==
    [status : {"none", "pending", "paid", "expired", "closed"},
     tx     : Transfers \cup {NoTransfer}]    \* provider_transaction_id

(* "failed" stands for every receipt without one transfer to the shop. The *)
(* deadlines a block's timestamp lies behind are kept with it, and whether *)
(* it lies in the time of an order that asks for just this amount.         *)
TransferRow ==
    [state     : {"unsent", "failed", "mined", "final"},
     due       : SUBSET Orders,
     lapsed    : SUBSET Sessions,
     contested : BOOLEAN]

Verdicts == {"confirming", "underpaid", "overpaid", "verified", "manual_review"}

ClaimRow ==
    [session : Sessions \cup {NoSession},
     status  : Verdicts \cup {"none", "paid"}]

Steps == {"idle", "create", "read", "claim", "write", "settle", "unsettled",
          "prepare", "complete", "check", "finish", "giveup"}

Worker ==
    [pc       : Steps,
     order    : Orders \cup {NoOrder},
     session  : Sessions \cup {NoSession},
     tx       : Transfers \cup {NoTransfer},
     review   : Sessions \cup {NoSession},    \* an administrator's: whom the audit row names
     expired  : BOOLEAN,     \* the session's status was 'expired' when read
     approved : BOOLEAN,     \* an approval, and its decision was 'approved' when read
     result   : Verdicts \cup {"missing", "failed"}]   \* what the chain showed

TypeOK ==
    /\ orders \in [Orders -> OrderStatus]
    /\ sessions \in [Sessions -> SessionRow]
    /\ payments \in [Sessions -> PaymentRow]
    /\ chain \in [Transfers -> TransferRow]
    /\ claims \in [Transfers -> ClaimRow]
    /\ approvals \in SUBSET Sessions
    /\ over \in SUBSET Sessions
    /\ under \in SUBSET Sessions
    /\ wallet \in Nat
    /\ registered \in SUBSET Transfers
    /\ recharged \in SUBSET Transfers
    /\ due \in SUBSET Orders
    /\ lapsed \in SUBSET Sessions
    /\ workers \in [Workers -> Worker]

Idle == [pc |-> "idle", order |-> NoOrder, session |-> NoSession, tx |-> NoTransfer,
         review |-> NoSession, expired |-> FALSE, approved |-> FALSE, result |-> "confirming"]

Init ==
    /\ orders = [o \in Orders |-> "pending"]
    /\ sessions = [s \in Sessions |->
           [order |-> NoOrder, payment |-> NoSession, status |-> "none", decision |-> "none",
            hash |-> NoTransfer, amount |-> 0, attempt |-> NoWorker]]
    /\ payments = [s \in Sessions |-> [status |-> "none", tx |-> NoTransfer]]
    /\ chain = [t \in Transfers |-> [state |-> "unsent", due |-> {}, lapsed |-> {}, contested |-> FALSE]]
    /\ claims = [t \in Transfers |-> [session |-> NoSession, status |-> "none"]]
    /\ approvals = {}
    /\ over = {}
    /\ under = {}
    /\ wallet = 0
    /\ registered = {}
    /\ recharged = {}
    /\ due = {}
    /\ lapsed = {}
    /\ workers = [w \in Workers |-> Idle]

-----------------------------------------------------------------------------
(* Workers and the rows they look up.                                      *)

At(w, step) == workers[w].pc = step
Job(w) == workers[w].session
Tx(w) == workers[w].tx
OrderOf(s) == sessions[s].order

Move(w, step) == workers' = [workers EXCEPT ![w].pc = step]
Stop(w) == workers' = [workers EXCEPT ![w] = Idle]

(* The process dies; what it wrote stays. *)
Crash(w) ==
    /\ ~ At(w, "idle")
    /\ Stop(w)
    /\ UNCHANGED <<orders, sessions, payments, chain, claims, approvals, money, clock>>

Of(o) == {s \in Sessions : OrderOf(s) = o}
ActiveOf(o) == {s \in Of(o) : sessions[s].status \in ActiveStatus}
Latest(S) == IF S = {} THEN NoSession ELSE Max(S)

(* getReusableChainSession and, for a verification, getLatestChainSession. *)
Reusable(o) == Latest(ActiveOf(o) \ lapsed)
Picked(o) == IF Reusable(o) # NoSession THEN Reusable(o) ELSE Latest(Of(o))

(* One payment session of an order is pending or processing at most, and   *)
(* ensurePaymentSession takes it over even when its time is up.            *)
PendingPayments(o) == {p \in Sessions : OrderOf(p) = o /\ payments[p].status = "pending"}

-----------------------------------------------------------------------------
(* The passing of time and the chain.                                      *)

(* A session is made after its order, with as long to pay. *)
DeadlinePasses(o) ==
    /\ o \notin due
    /\ due' = due \cup {o}
    /\ UNCHANGED <<orders, sessions, payments, chain, claims, approvals, money, lapsed, workers>>

SessionLapses(s) ==
    /\ s \notin lapsed
    /\ OrderOf(s) \in due
    /\ lapsed' = lapsed \cup {s}
    /\ UNCHANGED <<orders, sessions, payments, chain, claims, approvals, money, due, workers>>

(* What the shared-address safety gate of the recharges counts, by the     *)
(* time of a transfer: sessions that ask for its amount, whatever became   *)
(* of them.                                                                *)
MayPayOrder(t) ==
    \E s \in Sessions \ lapsed : OrderOf(s) # NoOrder /\ Price[OrderOf(s)] = Amount[t]

MakeTransfer(t) ==
    /\ chain[t].state = "unsent"
    /\ \/ chain' = [chain EXCEPT ![t].state = "failed"]
       \/ chain' = [chain EXCEPT ![t] = [state |-> "mined", due |-> due, lapsed |-> lapsed,
                                         contested |-> MayPayOrder(t)]]
    /\ UNCHANGED <<orders, sessions, payments, claims, approvals, money, clock, workers>>

(* requiredConfirmations blocks follow. *)
TransferConfirms(t) ==
    /\ chain[t].state = "mined"
    /\ chain' = [chain EXCEPT ![t].state = "final"]
    /\ UNCHANGED <<orders, sessions, payments, claims, approvals, money, clock, workers>>

-----------------------------------------------------------------------------
(* createBep20PaymentSession.                                              *)

ReadForSession(w, o) ==
    /\ At(w, "idle")
    /\ orders[o] = "pending"
    /\ Reusable(o) = NoSession
    /\ workers' = [workers EXCEPT ![w] = [Idle EXCEPT !.pc = "create", !.order = o]]
    /\ UNCHANGED <<orders, sessions, payments, chain, claims, approvals, money, clock>>

(* chain_payment_sessions_active_order_unique. *)
Insertable(o) == ActiveOf(o) = {}

CreateSession(w, s) ==
    LET o == workers[w].order
        p == IF PendingPayments(o) = {} THEN s ELSE Max(PendingPayments(o))
    IN  /\ At(w, "create")
        /\ Insertable(o)
        /\ OrderOf(s) = NoOrder
        /\ \A earlier \in Sessions : earlier < s => OrderOf(earlier) # NoOrder
        /\ sessions' = [sessions EXCEPT ![s].order = o, ![s].payment = p,
                                        ![s].status = "waiting_payment"]
        /\ payments' = [payments EXCEPT ![p].status = "pending"]
        /\ Stop(w)
        /\ UNCHANGED <<orders, chain, claims, approvals, money, clock>>

-----------------------------------------------------------------------------
(* The three ways into verifyBep20TxHashForOrder.                          *)

Unfinished(s) == sessions[s].status # "paid" /\ sessions[s].decision # "rejected"

Begin(w, s, t, review, approved) ==
    workers' = [workers EXCEPT ![w] =
        [Idle EXCEPT !.pc = "read", !.session = s, !.tx = t, !.review = review,
                     !.expired = sessions[s].status = "expired", !.approved = approved]]

ByUser(w) == workers[w].review = NoSession

(* A hash under way may be asked about again after every deadline. *)
UserMayVerify(s, t) ==
    LET row == sessions[s]
        continues == row.status \in {"submitted", "confirming"} /\ row.hash = t
    IN  /\ row.status \notin {"expired", "failed", "underpaid", "manual_review",
                              "payment_failed", "completing"}
        /\ \/ continues
           \/ s \notin lapsed /\ payments[row.payment].status \notin {"expired", "closed"}

VerifyTxHash(w, o, t) ==
    LET s == Picked(o)
    IN  /\ At(w, "idle")
        /\ orders[o] = "pending"
        /\ s # NoSession
        /\ Unfinished(s)
        /\ UserMayVerify(s, t)
        /\ Begin(w, s, t, NoSession, FALSE)
        /\ UNCHANGED <<orders, sessions, payments, chain, claims, approvals, money, clock>>

(* The administrator names a session; what is verified is its hash, against *)
(* the session its order now pays with.                                     *)
Recheck(w, s) ==
    LET picked == Picked(OrderOf(s))
    IN  /\ At(w, "idle")
        /\ sessions[s].hash # NoTransfer
        /\ Unfinished(picked)
        /\ Begin(w, picked, sessions[s].hash, s, FALSE)
        /\ UNCHANGED <<orders, sessions, payments, chain, claims, approvals, money, clock>>

ApproveLate(w, s) ==
    LET picked == Picked(OrderOf(s))
    IN  /\ At(w, "idle")
        /\ sessions[s].status = "manual_review"
        /\ sessions[s].decision # "rejected"
        /\ sessions' = [sessions EXCEPT ![s].decision = "approved"]
        /\ approvals' = approvals \cup {s}
        /\ IF Unfinished(picked)
           THEN Begin(w, picked, sessions[s].hash, s, sessions'[picked].decision = "approved")
           ELSE UNCHANGED workers
        /\ UNCHANGED <<orders, payments, chain, claims, money, clock>>

RejectLate(s) ==
    /\ sessions[s].status = "manual_review"
    /\ sessions[s].decision \notin {"approved", "rejected"}
    /\ sessions' = [sessions EXCEPT ![s].decision = "rejected", ![s].status = "failed"]
    /\ UNCHANGED <<orders, payments, chain, claims, approvals, money, clock, workers>>

-----------------------------------------------------------------------------
(* verifyBep20TxHashForOrder.                                              *)

(* The administrator's two functions read the order without its deadline. *)
MinedLate(w) ==
    LET seen == chain[Tx(w)]
    IN  \/ {Job(w), sessions[Job(w)].payment} \cap seen.lapsed # {}
        \/ ByUser(w) /\ OrderOf(Job(w)) \in seen.due

TransferStatus(w) ==
    CASE MinedLate(w) -> "manual_review"
      [] chain[Tx(w)].state = "mined" /\ ~ MinedLate(w) -> "confirming"
      [] OTHER -> IF Amount[Tx(w)] < Price[OrderOf(Job(w))] THEN "underpaid"
                  ELSE IF Amount[Tx(w)] > Price[OrderOf(Job(w))] THEN "overpaid" ELSE "verified"

Inspect(w) ==
    /\ At(w, "read")
    /\ IF chain[Tx(w)].state \in {"unsent", "failed"}
       THEN workers' = [workers EXCEPT ![w].pc = "write", ![w].result =
                IF chain[Tx(w)].state = "unsent" THEN "missing" ELSE "failed"]
       ELSE workers' = [workers EXCEPT ![w].pc = "claim", ![w].result = TransferStatus(w)]
    /\ UNCHANGED <<orders, sessions, payments, chain, claims, approvals, money, clock>>

(* Variant: the recharges are not asked. *)
ClaimHoldsAmongOrders(s, t) == claims[t].session \in {NoSession, s}

(* claim_bep20_chain_transaction and guard_order_bep20_transaction_usage.   *)
ClaimHolds(s, t) == t \notin registered /\ claims[t].session \in {NoSession, s}

(* What the administrator approved is verified, late or more than asked. *)
EffectiveStatus(w) ==
    IF workers[w].approved /\ workers[w].result \in {"manual_review", "overpaid"}
    THEN "verified" ELSE workers[w].result

Claim(w) ==
    /\ At(w, "claim")
    /\ IF ClaimHolds(Job(w), Tx(w))
       THEN /\ claims' = [claims EXCEPT ![Tx(w)] = [session |-> Job(w), status |-> workers[w].result]]
            /\ Move(w, IF EffectiveStatus(w) = "verified" THEN "prepare" ELSE "write")
       ELSE Stop(w) /\ UNCHANGED claims
    /\ UNCHANGED <<orders, sessions, payments, chain, approvals, money, clock>>

(* Variants: the update does not filter on the row's status, or on its     *)
(* decision.                                                               *)
WritableAlways(s) == sessions[s].decision # "rejected"
WritableWhenRejected(s) == sessions[s].status \in Mutable

Writable(s) == sessions[s].status \in Mutable /\ sessions[s].decision # "rejected"

(* updateNonFinalChainSession. *)
Patch(s, row) == sessions' = IF Writable(s) THEN [sessions EXCEPT ![s] = row] ELSE sessions

(* Without a usable receipt only the hash is kept, and the customer may    *)
(* submit another one.                                                     *)
WriteUnusable(w) ==
    LET expired == IF workers[w].result = "missing" THEN Job(w) \in lapsed ELSE workers[w].expired
    IN  /\ At(w, "write")
        /\ workers[w].result \in {"missing", "failed"}
        /\ Patch(Job(w), [sessions[Job(w)] EXCEPT
               !.status = IF expired THEN "expired" ELSE "submitted", !.hash = Tx(w)])
        /\ Stop(w)
        /\ UNCHANGED <<orders, payments, chain, claims, approvals, money, clock>>

WriteEvidence(w) ==
    /\ At(w, "write")
    /\ workers[w].result \notin {"missing", "failed"}
    /\ Patch(Job(w), [sessions[Job(w)] EXCEPT
           !.status = workers[w].result, !.hash = Tx(w), !.amount = Amount[Tx(w)],
           !.decision = IF workers[w].result = "manual_review" THEN "pending" ELSE "none"])
    /\ IF workers[w].result = "overpaid" THEN Move(w, "settle") ELSE Stop(w)
    /\ UNCHANGED <<orders, payments, chain, claims, approvals, money, clock>>

-----------------------------------------------------------------------------
(* Booking more than was asked: settle_bep20_automatic_overpayment.        *)

(* Variant: the difference taken the wrong way round. *)
ExcessReversed(s, t) == Price[OrderOf(s)] - Amount[t]

Excess(s, t) == Amount[t] - Price[OrderOf(s)]

(* What the database knows of the block against its three deadlines. *)
MinedInTime(s, t) ==
    /\ OrderOf(s) \notin chain[t].due
    /\ {s, sessions[s].payment} \cap chain[t].lapsed = {}

(* complete_payment_session and complete_order_payment. *)
Completable(s, t) ==
    /\ payments[sessions[s].payment].status = "pending"
    /\ orders[OrderOf(s)] = "pending"
    /\ \A p \in Sessions : payments[p].tx = t => p = sessions[s].payment

Complete(s, t) ==
    /\ orders' = [orders EXCEPT ![OrderOf(s)] = "paid"]
    /\ payments' = [payments EXCEPT ![sessions[s].payment] = [status |-> "paid", tx |-> t]]

SettlesExcess(s, t) ==
    LET row == sessions[s]
    IN  /\ s \notin over
        /\ row.hash \in {NoTransfer, t}
        /\ row.status \in {"waiting_payment", "submitted", "confirming", "verified",
                           "payment_failed", "overpaid"}
        /\ row.decision = "none"
        /\ Completable(s, t)
        /\ claims[t].session = s
        /\ claims[t].status # "confirming"
        /\ MinedInTime(s, t)
        /\ row.amount = Amount[t]
        /\ Amount[t] > Price[OrderOf(s)]

(* The answer of a settlement may be lost; the credit is then looked up. *)
Settle(w) ==
    LET s == Job(w)
        t == Tx(w)
    IN  /\ At(w, "settle")
        /\ SettlesExcess(s, t)
        /\ \E limit \in AutoLimits :
               IF Excess(s, t) > limit
               THEN /\ sessions' = [sessions EXCEPT ![s].status = "manual_review", ![s].hash = t,
                                                    ![s].decision = "pending",
                                                    ![s].attempt = NoWorker]
                    /\ claims' = [claims EXCEPT ![t].status = "manual_review"]
                    /\ UNCHANGED <<orders, payments, wallet, over>>
               ELSE /\ Complete(s, t)
                    /\ wallet' = wallet + Excess(s, t)
                    /\ over' = over \cup {s}
                    /\ sessions' = [sessions EXCEPT ![s].status = "paid", ![s].hash = t,
                                                    ![s].attempt = NoWorker]
                    /\ claims' = [claims EXCEPT ![t].status = "paid"]
        /\ Stop(w) \/ Move(w, "unsettled")
        /\ UNCHANGED <<chain, approvals, under, registered, recharged, clock>>

(* A session settled before is answered as it is; whatever the database    *)
(* refuses, and a call that does not get through, is a failure.            *)
SettlementFails(w) ==
    /\ At(w, "settle")
    /\ Job(w) \notin over
    /\ Move(w, "unsettled")
    /\ UNCHANGED <<orders, sessions, payments, chain, claims, approvals, money, clock>>

AlreadySettled(w) ==
    /\ At(w, "settle") \/ At(w, "unsettled")
    /\ Job(w) \in over
    /\ Stop(w)
    /\ UNCHANGED <<orders, sessions, payments, chain, claims, approvals, money, clock>>

WriteUnsettled(w) ==
    /\ At(w, "unsettled")
    /\ Patch(Job(w), [sessions[Job(w)] EXCEPT
           !.status = "payment_failed", !.hash = Tx(w), !.amount = Amount[Tx(w)]])
    /\ Stop(w)
    /\ UNCHANGED <<orders, payments, chain, claims, approvals, money, clock>>

-----------------------------------------------------------------------------
(* Booking what was asked, or what was approved.                           *)

(* prepare_bep20_payment_completion reads the decision again and asks for  *)
(* the audit row of the request.                                           *)
ApprovedNow(w) == sessions[Job(w)].decision = "approved" /\ ~ ByUser(w)

(* Variant: what is approved may fall short. *)
AmountApproved(w) ==
    IF ApprovedNow(w) THEN Amount[Tx(w)] = sessions[Job(w)].amount
    ELSE Amount[Tx(w)] = Price[OrderOf(Job(w))]

AmountFits(w) ==
    LET row   == sessions[Job(w)]
        paid  == Amount[Tx(w)]
        asked == Price[row.order]
    IN  IF ApprovedNow(w) THEN paid = row.amount /\ paid >= asked ELSE paid = asked

(* An attempt may be taken over after five minutes, by an administrator. *)
Acquirable(w) ==
    LET row == sessions[Job(w)]
    IN  /\ row.decision # "rejected"
        /\ row.status \in {"waiting_payment", "submitted", "confirming", "verified",
                           "payment_failed", "completing", "manual_review"}
        /\ row.status = "completing" => ~ ByUser(w)
        /\ row.status = "manual_review" => ApprovedNow(w)
        /\ row.hash \in {NoTransfer, Tx(w)}
        /\ workers[w].review \in {NoSession, Job(w)}
        /\ AmountFits(w)

Prepare(w) ==
    /\ At(w, "prepare")
    /\ Acquirable(w)
    /\ sessions' = [sessions EXCEPT ![Job(w)].status = "completing", ![Job(w)].hash = Tx(w),
                        ![Job(w)].amount = Amount[Tx(w)], ![Job(w)].attempt = w]
    /\ Move(w, "complete")
    /\ UNCHANGED <<orders, payments, chain, claims, approvals, money, clock>>

(* A payment session that is paid already is answered the same. The answer *)
(* may be lost, and the worker then looks whether it was done.             *)
CompletePayment(w) ==
    LET s == Job(w)
    IN  /\ At(w, "complete")
        /\ IF payments[sessions[s].payment].status = "paid"
           THEN UNCHANGED <<orders, payments>>
           ELSE Completable(s, Tx(w)) /\ Complete(s, Tx(w))
        /\ Move(w, "finish") \/ Move(w, "check")
        /\ UNCHANGED <<sessions, chain, claims, approvals, money, clock>>

CompletionFails(w) ==
    /\ At(w, "complete")
    /\ Move(w, "check")
    /\ UNCHANGED <<orders, sessions, payments, chain, claims, approvals, money, clock>>

(* Variant: the payment is taken for done when it cannot be read. *)
CheckTrusting(w) ==
    /\ At(w, "check")
    /\ Move(w, "finish") \/ Move(w, "giveup")
    /\ UNCHANGED <<orders, sessions, payments, chain, claims, approvals, money, clock>>

(* isPaymentSessionPaid, which answers no when it cannot read. *)
Check(w) ==
    /\ At(w, "check")
    /\ \/ payments[sessions[Job(w)].payment].status = "paid" /\ Move(w, "finish")
       \/ Move(w, "giveup")
    /\ UNCHANGED <<orders, sessions, payments, chain, claims, approvals, money, clock>>

(* finish_bep20_payment_completion; another worker's attempt is left alone. *)
Owns(w) == sessions[Job(w)].status = "completing" /\ sessions[Job(w)].attempt = w

Finish(w) ==
    /\ At(w, "finish")
    /\ sessions' = IF Owns(w) THEN [sessions EXCEPT ![Job(w)].status = "paid"] ELSE sessions
    /\ claims' = IF sessions'[Job(w)].status = "paid"
                 THEN [claims EXCEPT ![Tx(w)].status = "paid"] ELSE claims
    /\ Stop(w)
    /\ UNCHANGED <<orders, payments, chain, approvals, money, clock>>

GiveUp(w) ==
    /\ At(w, "giveup")
    /\ sessions' = IF Owns(w) THEN [sessions EXCEPT ![Job(w)].status = "payment_failed"]
                   ELSE sessions
    /\ Stop(w)
    /\ UNCHANGED <<orders, payments, chain, claims, approvals, money, clock>>

-----------------------------------------------------------------------------
(* What ends the payment of an order some other way.                       *)

(* settle_bep20_underpayment_to_wallet: by the scan once a deadline has    *)
(* passed, by an administrator at any time.                                *)
SettleUnderpayment(s) ==
    LET row == sessions[s]
        t   == row.hash
    IN  /\ s \notin under
        /\ row.status = "underpaid"
        /\ row.decision = "none"
        /\ t # NoTransfer
        /\ orders[row.order] = "pending"
        /\ payments[row.payment].status = "pending"
        /\ claims[t] = [session |-> s, status |-> "underpaid"]
        /\ MinedInTime(s, t)
        /\ row.amount = Amount[t]
        /\ Amount[t] < Price[row.order]
        /\ wallet' = wallet + Amount[t]
        /\ under' = under \cup {s}
        /\ payments' = [payments EXCEPT ![row.payment] = [status |-> "closed", tx |-> t]]
        /\ orders' = [orders EXCEPT ![row.order] = "cancelled"]
        /\ sessions' = [sessions EXCEPT ![s].status = "expired"]
        /\ UNCHANGED <<chain, claims, approvals, over, registered, recharged, clock, workers>>

(* credit_bep20_overpayment_to_wallet, for what an administrator approved. *)
CreditOverpayment(s) ==
    LET row == sessions[s]
    IN  /\ s \notin over
        /\ row.status = "paid"
        /\ orders[row.order] = "paid"
        /\ row.decision = "approved"
        /\ row.amount > Price[row.order]
        /\ wallet' = wallet + (row.amount - Price[row.order])
        /\ over' = over \cup {s}
        /\ UNCHANGED <<orders, sessions, payments, chain, claims, approvals, under, registered,
                       recharged, clock, workers>>

PaidPayment(o) == \E p \in Sessions : OrderOf(p) = o /\ payments[p].status = "paid"

(* A chain session nothing was submitted to ends with its order. *)
EndWaiting(o) ==
    sessions' = [s \in Sessions |->
        IF OrderOf(s) = o /\ sessions[s].status = "waiting_payment" /\ sessions[s].hash = NoTransfer
        THEN [sessions[s] EXCEPT !.status = "expired"] ELSE sessions[s]]

EndUnpaid(o, orderStatus, paymentStatus) ==
    /\ orders' = [orders EXCEPT ![o] = orderStatus]
    /\ payments' = [p \in Sessions |->
           IF p \in PendingPayments(o) THEN [payments[p] EXCEPT !.status = paymentStatus]
           ELSE payments[p]]
    /\ EndWaiting(o)

(* Variant: an order that has ended expires as well. *)
ExpireEndedOrder(o) ==
    /\ o \in due
    /\ ~ PaidPayment(o)
    /\ EndUnpaid(o, "expired", "expired")
    /\ UNCHANGED <<chain, claims, approvals, money, clock, workers>>

ExpireOrder(o) ==
    /\ \/ /\ orders[o] = "pending"
          /\ o \in due
          /\ ~ PaidPayment(o)
          /\ EndUnpaid(o, "expired", "expired")
       \/ /\ orders[o] = "expired"
          /\ EndWaiting(o)
          /\ UNCHANGED <<orders, payments>>
    /\ UNCHANGED <<chain, claims, approvals, money, clock, workers>>

CancelOrder(o) ==
    /\ orders[o] = "pending"
    /\ ~ PaidPayment(o)
    /\ \A s \in Of(o) : /\ sessions[s].hash = NoTransfer
                        /\ sessions[s].decision = "none"
                        /\ sessions[s].status \in {"waiting_payment", "expired", "failed"}
    /\ \A t \in Transfers : claims[t].session \notin Of(o)
    /\ EndUnpaid(o, "cancelled", "closed")
    /\ UNCHANGED <<chain, claims, approvals, money, clock, workers>>

-----------------------------------------------------------------------------
(* Transfers that belong to recharges.  A recharge asks for an amount of   *)
(* its own, and any transfer may be one's: recharges are not modelled here. *)

(* Variant: the claims of orders are not asked. *)
RegistrableUnasked(t) == t \notin registered

(* The registry holds a hash once, for an order or for a recharge. *)
Registrable(t) == claims[t].session = NoSession /\ t \notin registered

CreditRecharge(t) ==
    /\ recharged' = recharged \cup {t}
    /\ wallet' = wallet + Amount[t]

(* match_and_credit_account_recharge_bep20_v3, for the scanner; what an    *)
(* order may have been paid with is left for an administrator.             *)
MatchRecharge(t) ==
    /\ chain[t].state = "final"
    /\ ~ chain[t].contested
    /\ Registrable(t)
    /\ registered' = registered \cup {t}
    /\ CreditRecharge(t)
    /\ UNCHANGED <<orders, sessions, payments, chain, claims, approvals, over, under, clock, workers>>

(* claim_account_recharge_bep20_transfer, for a customer who submits the   *)
(* hash: no gate, and no credit yet.                                       *)
ClaimForRecharge(t) ==
    /\ chain[t].state = "final"
    /\ Registrable(t)
    /\ registered' = registered \cup {t}
    /\ UNCHANGED <<orders, sessions, payments, chain, claims, approvals, over, under, wallet,
                   recharged, clock, workers>>

(* complete_account_recharge_usdt_cny_v1, when an administrator approved. *)
CompleteRecharge(t) ==
    /\ t \in registered \ recharged
    /\ CreditRecharge(t)
    /\ UNCHANGED <<orders, sessions, payments, chain, claims, approvals, over, under, registered,
                   clock, workers>>

-----------------------------------------------------------------------------
VerifyStep(w) ==
    \/ Inspect(w) \/ Claim(w) \/ WriteUnusable(w) \/ WriteEvidence(w)
    \/ Settle(w) \/ SettlementFails(w) \/ AlreadySettled(w) \/ WriteUnsettled(w)
    \/ Prepare(w) \/ CompletePayment(w) \/ CompletionFails(w) \/ Check(w)
    \/ Finish(w) \/ GiveUp(w)

Next ==
    \/ \E w \in Workers :
           \/ VerifyStep(w)
           \/ Crash(w)
           \/ \E o \in Orders : ReadForSession(w, o)
           \/ \E s \in Sessions : CreateSession(w, s)
           \/ \E o \in Orders, t \in Transfers : VerifyTxHash(w, o, t)
           \/ \E s \in Sessions : Recheck(w, s) \/ ApproveLate(w, s)
    \/ \E s \in Sessions : RejectLate(s) \/ SettleUnderpayment(s) \/ CreditOverpayment(s)
                           \/ SessionLapses(s)
    \/ \E o \in Orders : ExpireOrder(o) \/ CancelOrder(o) \/ DeadlinePasses(o)
    \/ \E t \in Transfers : MakeTransfer(t) \/ TransferConfirms(t)
                             \/ MatchRecharge(t) \/ ClaimForRecharge(t) \/ CompleteRecharge(t)

Spec == Init /\ [][Next]_vars

-----------------------------------------------------------------------------
(* Properties.                                                             *)

(* Every transfer pays for one thing: the orders booked as paid and what   *)
(* the wallet was credited never come to more than the transfers claimed   *)
(* for orders or credited to recharges.                                    *)
Collected == Total(Amount, {t \in Transfers : claims[t].session # NoSession} \cup recharged)
Booked == Total(Price, {o \in Orders : orders[o] = "paid"})
MoneyIsBacked == Booked + wallet <= Collected

(* A paid order was paid with one transfer, claimed by a chain session of  *)
(* its own, that brought at least its price; only a late one that an       *)
(* administrator approved may have been mined after the session's time.    *)
PaidOrderHasTransfer ==
    \A o \in Orders : orders[o] = "paid" =>
        \E p \in Of(o) : LET t == payments[p].tx IN
            /\ payments[p].status = "paid"
            /\ t # NoTransfer
            /\ Amount[t] >= Price[o]
            /\ claims[t].session \in Of(o)
            /\ \/ {claims[t].session, p} \cap chain[t].lapsed = {} /\ chain[t].state = "final"
               \/ claims[t].session \in approvals

(* A chain session shown as paid stands for an order that was paid with    *)
(* the hash it shows.                                                      *)
ChainPaidMeansPaid ==
    \A s \in Sessions : sessions[s].status = "paid" =>
        /\ orders[OrderOf(s)] = "paid"
        /\ payments[sessions[s].payment].status = "paid"

(* What came short was credited or booked, never both: once an             *)
(* underpayment is in the wallet its order stays cancelled, and no session *)
(* gets both kinds of credit.                                              *)
UnderpaidCreditIsFinal ==
    \A s \in under : orders[OrderOf(s)] = "cancelled" /\ s \notin over

(* An administrator's refusal is not undone by a request that was under    *)
(* way when it was given, nor does it touch a payment that was made.       *)
RejectedStaysRejected ==
    [][\A s \in Sessions : sessions[s].decision = "rejected" =>
           sessions'[s].status = "failed" /\ sessions'[s].decision = "rejected"]_vars

(* No stale answer from the chain takes back a payment that was booked.    *)
PaidIsFinal ==
    [][\A s \in Sessions : sessions[s].status = "paid" => sessions'[s] = sessions[s]]_vars

(* A transfer, once claimed, stays with the session that claimed it and is *)
(* never credited to a recharge as well.                                   *)
ClaimIsExclusive ==
    [][\A t \in Transfers : claims[t].session # NoSession =>
           claims'[t].session = claims[t].session /\ (t \in recharged' => t \in recharged)]_vars

(* However the requests of the shop interleave and wherever they die, what *)
(* happens to transfers, orders and the wallet happens as in the ledger.   *)
ClaimantOf(t) ==
    LET s == claims[t].session IN IF s = NoSession THEN NoSession ELSE <<OrderOf(s), s>>

CreditedOf(t) ==
    LET s == claims[t].session
    IN  IF t \in recharged \/ (s \in under /\ payments[sessions[s].payment].tx = t)
        THEN Amount[t]
        ELSE IF s \in over /\ sessions[s].hash = t THEN Amount[t] - Price[OrderOf(s)] ELSE 0

Ledger == INSTANCE TransferLedger WITH
    Attempts <- Sessions,
    Nobody   <- NoSession,
    claim    <- [t \in Transfers |-> ClaimantOf(t)],
    credit   <- [t \in Transfers |-> CreditedOf(t)]

ImplementsLedger == Ledger!Spec

(* The tests say a payment is valid until the earliest of the order's and  *)
(* the session's deadline, and the docs that a transfer made later goes to *)
(* manual review.                                                          *)
LateTransferIsReviewed ==
    \A s \in Sessions : payments[s].status = "paid" =>
        LET t == payments[s].tx
        IN  OrderOf(s) \in chain[t].due => claims[t].session \in approvals
=============================================================================
