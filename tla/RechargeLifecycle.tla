-------------------------- MODULE RechargeLifecycle --------------------------
(***************************************************************************)
(* Recharging the account balance through a gateway (snpay, liuhaoyi) or   *)
(* by a proof an administrator reviews: payment sessions, callbacks,       *)
(* reconciliation, expiry, manual review and the approval of a payment     *)
(* that came too late.                                                     *)
(*                                                                         *)
(* The database functions are single actions.  The route handlers are not: *)
(* a worker is a server process inside one of them, which reads, asks the  *)
(* gateway and writes in separate requests, on what it read before, and    *)
(* may die between any two of them.                                        *)
(*                                                                         *)
(* A session expires with its recharge, so one deadline stands for both    *)
(* expires_at.  Amounts, currencies and identities match: a mismatch       *)
(* stops the handler, in a callback after the late evidence at most.       *)
(***************************************************************************)
EXTENDS Naturals, FiniteSets

CONSTANTS
    Recharges,   \* account_recharges of the alipay and wechat channels
    Manual,      \* those whose review_mode is 'manual'
    Snpay,       \* those whose provider is 'snpay'; the others are liuhaoyi's
    Sessions,    \* payment_sessions, numbered as they are created
    Workers,     \* server processes
    NoRecharge,
    NoSession

ASSUME RechargeAssumption ==
    /\ Manual \subseteq Recharges
    /\ Snpay \subseteq Recharges
    /\ Sessions \subseteq Nat
    /\ NoRecharge \notin Recharges
    /\ NoSession \notin Sessions

VARIABLES
    status,    \* account_recharges.status
    sessions,  \* payment_sessions
    gateway,   \* the gateway's order of a session, and when it was paid
    ledger,    \* recharges with a completed balance_transactions row
    late,      \* recharges an administrator credited for a late payment
    due,       \* recharges whose expires_at has passed
    workers    \* the handlers in progress

vars == <<status, sessions, gateway, ledger, late, due, workers>>

Active == {"pending", "processing"}
Expirable == {"pending", "waiting_payment", "processing"}
Completed == {"paid", "succeeded"}

RechargeStatus == Expirable \cup Completed \cup
    {"submitted", "reviewing", "approved", "failed", "rejected", "cancelled", "expired"}

SessionStatus == Active \cup {"none", "paid", "failed", "expired", "closed"}

SessionRow ==
    [recharge : Recharges \cup {NoRecharge},
     status   : SessionStatus,   \* "none": not created
     sent     : BOOLEAN]         \* provider_order_no is set

(* When a payment was made: "untimed" if the gateway does not say. *)
PaidAt == {"none", "intime", "late", "untimed"}

Steps == {"idle", "opening", "callback", "latesession", "laterecharge", "unpaid",
          "query", "complete", "expiresessions", "expirerecharge",
          "approved", "credit", "adrift", "failcredit", "settle", "latereview"}

Worker ==
    [pc       : Steps,
     recharge : Recharges \cup {NoRecharge},
     session  : Sessions \cup {NoSession},
     seen     : SessionStatus,   \* the session's status when it was read
     at       : PaidAt]          \* the payment time the gateway gave

TypeOK ==
    /\ status \in [Recharges -> RechargeStatus]
    /\ sessions \in [Sessions -> SessionRow]
    /\ gateway \in [Sessions -> {"none", "open", "intime", "late", "closed"}]
    /\ ledger \in SUBSET Recharges
    /\ late \in SUBSET Recharges
    /\ due \in SUBSET Recharges
    /\ workers \in [Workers -> Worker]

Idle == [pc |-> "idle", recharge |-> NoRecharge, session |-> NoSession,
         seen |-> "none", at |-> "none"]

(* insertRecharge has created every recharge, with ten minutes to pay it. *)
Init ==
    /\ status = [r \in Recharges |-> IF r \in Manual THEN "waiting_payment" ELSE "pending"]
    /\ sessions = [s \in Sessions |-> [recharge |-> NoRecharge, status |-> "none", sent |-> FALSE]]
    /\ gateway = [s \in Sessions |-> "none"]
    /\ ledger = {}
    /\ late = {}
    /\ due = {}
    /\ workers = [w \in Workers |-> Idle]

-----------------------------------------------------------------------------
(* Workers.                                                                *)

At(w, step) == workers[w].pc = step
Job(w) == workers[w].session
Parent(w) == workers[w].recharge

Start(w, step, r, s) ==
    /\ At(w, "idle")
    /\ workers' = [workers EXCEPT ![w] = [Idle EXCEPT !.pc = step, !.recharge = r, !.session = s]]

Move(w, step) == workers' = [workers EXCEPT ![w].pc = step]
Stop(w) == workers' = [workers EXCEPT ![w] = Idle]

(* The process dies; what it wrote stays. *)
Crash(w) ==
    /\ ~At(w, "idle")
    /\ Stop(w)
    /\ UNCHANGED <<status, sessions, gateway, ledger, late, due>>

SetStatus(r, to) == status' = [status EXCEPT ![r] = to]
SetSession(s, to) == sessions' = [sessions EXCEPT ![s].status = to]

-----------------------------------------------------------------------------
(* Sessions.                                                               *)

SessionsOf(r) == {s \in Sessions : sessions[s].recharge = r}
ActiveOf(r) == {s \in SessionsOf(r) : sessions[s].status \in Active}

(* The next session_no. *)
Fresh(s) == \A t \in Sessions : (sessions[t].status = "none") <=> (t >= s)

(* getLatestMatchingSession *)
LatestIs(r, to) ==
    \E s \in SessionsOf(r) : sessions[s].status = to /\ \A t \in SessionsOf(r) : t <= s

(* What createPaymentSession and the guard of reserve_payment_session ask. *)
Payable(r) ==
    /\ status[r] \notin Completed \cup {"cancelled", "expired", "failed", "rejected"}
    /\ r \notin due
    /\ ActiveOf(r) = {}
    /\ \A s \in SessionsOf(r) : sessions[s].status # "failed"
    /\ ~LatestIs(r, "expired")

CreateSession(w, r, s) ==
    /\ Payable(r)
    /\ Fresh(s)
    /\ Start(w, "opening", r, s)
    /\ sessions' = [sessions EXCEPT ![s] = [recharge |-> r, status |-> "processing", sent |-> FALSE]]
    /\ UNCHANGED <<status, gateway, ledger, late, due>>

(* The gateway made its order; the link is kept only by an active session. *)
SessionOpened(w) ==
    /\ At(w, "opening")
    /\ sessions[Job(w)].status \in Active
    /\ sessions' = [sessions EXCEPT ![Job(w)].status = "pending", ![Job(w)].sent = TRUE]
    /\ gateway' = [gateway EXCEPT ![Job(w)] = "open"]
    /\ Stop(w)
    /\ UNCHANGED <<status, ledger, late, due>>

(* The gateway refused, or the write-back found no active row. *)
SessionFailed(w) ==
    /\ At(w, "opening")
    /\ IF sessions[Job(w)].status = "paid" THEN UNCHANGED sessions ELSE SetSession(Job(w), "failed")
    /\ Stop(w)
    /\ UNCHANGED <<status, gateway, ledger, late, due>>

ClosePaymentSession(s) ==
    /\ sessions[s].status \in Active \cup {"failed"}
    /\ SetSession(s, "closed")
    /\ UNCHANGED <<status, gateway, ledger, late, due, workers>>

-----------------------------------------------------------------------------
(* The gateway and the clock.                                              *)

DeadlinePasses(r) ==
    /\ r \notin due
    /\ due' = due \cup {r}
    /\ UNCHANGED <<status, sessions, gateway, ledger, late, workers>>

CustomerPays(s) ==
    /\ gateway[s] = "open"
    /\ gateway' = [gateway EXCEPT ![s] = IF sessions[s].recharge \in due THEN "late" ELSE "intime"]
    /\ UNCHANGED <<status, sessions, ledger, late, due, workers>>

GatewayCloses(s) ==
    /\ gateway[s] = "open"
    /\ gateway' = [gateway EXCEPT ![s] = "closed"]
    /\ UNCHANGED <<status, sessions, ledger, late, due, workers>>

-----------------------------------------------------------------------------
(* The database functions that complete a recharge.                        *)

(* Variant: the time of the payment is not compared with expires_at. *)
AnyTime(r, at) == TRUE

(* p_paid_at is within the lifetimes.  An untimed payment is given the     *)
(* server's clock.                                                         *)
InLifetime(r, at) == at = "intime" \/ (at = "untimed" /\ r \notin due)

(* complete_account_recharge: an expired recharge needs its one session.   *)
Creditable(r, at) ==
    /\ status[r] # "failed"
    /\ InLifetime(r, at)
    /\ status[r] = "expired" =>
         /\ r \notin ledger
         /\ Cardinality(SessionsOf(r)) = 1
         /\ \A s \in SessionsOf(r) : sessions[s].status \in Active \cup {"expired"}

(* Variant: the recharge takes the status of its balance transaction. *)
CompletedBoth(r) == SetStatus(r, "completed") /\ ledger' = ledger \cup {r}

(* Variant: only the session of an expired recharge is completed. *)
CreditedUnlessExpired(r) ==
    IF r \in ledger \/ status[r] = "expired" THEN UNCHANGED <<status, ledger>>
    ELSE SetStatus(r, "paid") /\ ledger' = ledger \cup {r}

(* A recharge with a completed transaction keeps its status. *)
Credited(r) ==
    IF r \in ledger THEN UNCHANGED <<status, ledger>>
    ELSE SetStatus(r, "paid") /\ ledger' = ledger \cup {r}

(* complete_payment_session's own conditions. *)
SessionAccepts(s, at) ==
    /\ sessions[s].status \notin {"closed", "failed"}
    /\ InLifetime(sessions[s].recharge, at)
    /\ sessions[s].status = "expired" =>
         /\ status[sessions[s].recharge] \in Active \cup {"expired"}
         /\ sessions[s].recharge \notin ledger

CompletePaymentSession(w) ==
    LET s == Job(w)
        r == Parent(w)
        at == workers[w].at
    IN /\ At(w, "complete")
       /\ IF sessions[s].status # "paid" /\ SessionAccepts(s, at)
              /\ (status[r] = "paid" \/ Creditable(r, at))
          THEN SetSession(s, "paid") /\ Credited(r)
          ELSE UNCHANGED <<status, sessions, ledger>>
       /\ Stop(w)
       /\ UNCHANGED <<gateway, late, due>>

-----------------------------------------------------------------------------
(* Callbacks: in any order, any number of times.                           *)

(* The callback is verified and its session read. *)
CallbackArrives(w, s, at) ==
    /\ gateway[s] \in {"intime", "late"}
    /\ at \in {gateway[s]} \cup (IF sessions[s].recharge \in Snpay THEN {} ELSE {"untimed"})
    /\ At(w, "idle")
    /\ workers' = [workers EXCEPT ![w] = [pc |-> "callback", recharge |-> sessions[s].recharge,
                                          session |-> s, seen |-> sessions[s].status, at |-> at]]
    /\ UNCHANGED <<status, sessions, gateway, ledger, late, due>>

(* expiredRechargePaymentRequiresManualReview: the payment needs a person. *)
NeedsReview(w) ==
    /\ workers[w].seen = "expired" \/ Parent(w) \in due \/ status[Parent(w)] = "expired"
    /\ workers[w].at # "intime"

(* Only an active session can become paid by a callback. *)
CallbackDecides(w) ==
    /\ At(w, "callback")
    /\ IF NeedsReview(w) THEN Move(w, "latesession")
       ELSE IF workers[w].seen \in Active THEN Move(w, "complete")
       ELSE Stop(w)
    /\ UNCHANGED <<status, sessions, gateway, ledger, late, due>>

(* Variant: the evidence is written over whatever the row says. *)
AnyRow(current, allowed) == TRUE

(* The WHERE status IN (...) of an update. *)
RowMatches(current, allowed) == current \in allowed

(* preserveLateRechargePaymentEvidence: two writes. *)
LateEvidenceOnSession(w) ==
    /\ At(w, "latesession")
    /\ IF RowMatches(sessions[Job(w)].status, Active \cup {"failed", "expired", "closed"})
       THEN SetSession(Job(w), "expired") ELSE UNCHANGED sessions
    /\ Move(w, "laterecharge")
    /\ UNCHANGED <<status, gateway, ledger, late, due>>

LateEvidenceOnRecharge(w) ==
    /\ At(w, "laterecharge")
    /\ IF RowMatches(status[Parent(w)], Expirable \cup {"failed", "expired"})
       THEN SetStatus(Parent(w), "expired") ELSE UNCHANGED status
    /\ Stop(w)
    /\ UNCHANGED <<sessions, gateway, ledger, late, due>>

(* A callback of snpay that the order is not paid (yet). *)
UnpaidReports(s) ==
    (IF gateway[s] # "none" THEN {"pending"} ELSE {}) \cup
    (IF gateway[s] = "closed" THEN {"closed", "expired"} ELSE {})

(* assertPaymentStatusTransition on the status that was read.  seen becomes *)
(* the status to write.                                                     *)
UnpaidCallbackArrives(w, s, report) ==
    /\ sessions[s].recharge \in Snpay
    /\ report \in UnpaidReports(s)
    /\ sessions[s].status = report \/ (sessions[s].status \in Active /\ report # "pending")
    /\ At(w, "idle")
    /\ workers' = [workers EXCEPT ![w] = [pc |-> "unpaid", recharge |-> sessions[s].recharge,
                                          session |-> s, seen |-> report, at |-> "none"]]
    /\ UNCHANGED <<status, sessions, gateway, ledger, late, due>>

(* The row violates payment_sessions' unique index: another is active. *)
AnotherActive(w) == workers[w].seen \in Active /\ ActiveOf(Parent(w)) \ {Job(w)} # {}

(* Variant: the update takes a paid row too. *)
IndexHolds(w) == ~AnotherActive(w)

(* The update skips a paid row, and may fail; the code goes on. *)
UnpaidUpdates(w) == sessions[Job(w)].status # "paid" /\ ~AnotherActive(w)

UnpaidCallbackWrites(w) ==
    /\ At(w, "unpaid")
    /\ IF ~UnpaidUpdates(w)
       THEN UNCHANGED sessions ELSE SetSession(Job(w), workers[w].seen)
    /\ Stop(w)
    /\ UNCHANGED <<status, gateway, ledger, late, due>>

-----------------------------------------------------------------------------
(* Reconciliation.                                                         *)

(* Variant: snpay's reconciliation leaves an expired session alone. *)
ActiveReconcilable(s) ==
    /\ sessions[s].sent
    /\ sessions[s].status \in Active
    /\ SessionsOf(sessions[s].recharge) = {s}
    /\ sessions[s].recharge \notin ledger
    /\ status[sessions[s].recharge] \in Active \cup {"expired"}

(* snpay: also an expired session, if it is the recharge's only one. *)
(* liuhaoyi: an active session of an active recharge.                *)
Reconcilable(s) ==
    /\ sessions[s].sent
    /\ sessions[s].recharge \notin ledger
    /\ IF sessions[s].recharge \in Snpay
       THEN /\ sessions[s].status \in Active \cup {"expired"}
            /\ SessionsOf(sessions[s].recharge) = {s}
            /\ status[sessions[s].recharge] \in Active \cup {"expired"}
       ELSE /\ sessions[s].status \in Active
            /\ status[sessions[s].recharge] \in Expirable

ReconcileStarts(w, s) ==
    /\ Reconcilable(s)
    /\ Start(w, "query", sessions[s].recharge, s)
    /\ UNCHANGED <<status, sessions, gateway, ledger, late, due>>

(* The gateway answers the query.  snpay's reconciliation reads both rows  *)
(* again; liuhaoyi's decides on what it read before it asked.              *)
ReconcileAnswered(w) ==
    /\ At(w, "query")
    /\ IF gateway[Job(w)] = "intime" /\ (Parent(w) \in Snpay => Reconcilable(Job(w)))
       THEN workers' = [workers EXCEPT ![w].pc = "complete", ![w].at = "intime"]
       ELSE Stop(w)
    /\ UNCHANGED <<status, sessions, gateway, ledger, late, due>>

-----------------------------------------------------------------------------
(* Expiry: the recharge, then its sessions, or the other way round.        *)

(* expireOverdueLiuhaoyiRecharges, when recharges are listed. *)
ExpireOverdue(w, r) ==
    /\ r \in due
    /\ status[r] \in Expirable
    /\ SetStatus(r, "expired")
    /\ Start(w, "expiresessions", r, NoSession)
    /\ UNCHANGED <<sessions, gateway, ledger, late, due>>

ExpireSessions(w) ==
    /\ At(w, "expiresessions")
    /\ sessions' = [s \in Sessions |->
                      IF s \in ActiveOf(Parent(w)) THEN [sessions[s] EXCEPT !.status = "expired"]
                      ELSE sessions[s]]
    /\ Stop(w)
    /\ UNCHANGED <<status, gateway, ledger, late, due>>

(* getPaymentSessionStatus, while the customer waits. *)
PollExpiresSession(w, s) ==
    /\ sessions[s].status \in Active
    /\ sessions[s].recharge \in due
    /\ SetSession(s, "expired")
    /\ Start(w, "expirerecharge", sessions[s].recharge, s)
    /\ UNCHANGED <<status, gateway, ledger, late, due>>

PollExpiresRecharge(w) ==
    /\ At(w, "expirerecharge")
    /\ IF RowMatches(status[Parent(w)], Expirable)
       THEN SetStatus(Parent(w), "expired") ELSE UNCHANGED status
    /\ Stop(w)
    /\ UNCHANGED <<sessions, gateway, ledger, late, due>>

-----------------------------------------------------------------------------
(* Proof and review.  Each step is an update on the exact status.          *)

SubmitProof(r) ==
    /\ r \in Manual
    /\ status[r] \in {"pending", "waiting_payment", "submitted", "rejected"}
    /\ SetStatus(r, "submitted")
    /\ UNCHANGED <<sessions, gateway, ledger, late, due, workers>>

(* RECHARGE_REVIEW_ACTION_CONTRACT, but for approve and retry_credit. *)
ReviewMoves ==
    {<<"submitted", "reviewing">>, <<"reviewing", "rejected">>, <<"reviewing", "submitted">>} \cup
    ({"pending", "waiting_payment", "submitted", "reviewing", "rejected", "failed"} \X {"cancelled"})

Review(r, to) ==
    /\ <<status[r], to>> \in ReviewMoves
    /\ SetStatus(r, to)
    /\ UNCHANGED <<sessions, gateway, ledger, late, due, workers>>

(* repairPaidCompletion: any review of a paid recharge concludes it. *)
ReviewRepairs(r) ==
    /\ status[r] = "paid"
    /\ SetStatus(r, "succeeded")
    /\ UNCHANGED <<sessions, gateway, ledger, late, due, workers>>

Approve(w, r) ==
    /\ status[r] = "reviewing"
    /\ SetStatus(r, "approved")
    /\ Start(w, "approved", r, NoSession)
    /\ UNCHANGED <<sessions, gateway, ledger, late, due>>

(* Variant: the claim of the credit is not conditional. *)
BlindClaim(w) == TRUE

(* The compare-and-set approved -> processing finds its row. *)
ClaimHolds(w) == status[Parent(w)] = "approved"

ClaimCredit(w) ==
    /\ At(w, "approved")
    /\ IF ClaimHolds(w)
       THEN SetStatus(Parent(w), "processing") /\ Move(w, "credit")
       ELSE UNCHANGED status /\ Move(w, "settle")
    /\ UNCHANGED <<sessions, gateway, ledger, late, due>>

RetryCredit(w, r) ==
    /\ status[r] \in {"approved", "failed"}
    /\ SetStatus(r, "processing")
    /\ Start(w, "credit", r, NoSession)
    /\ UNCHANGED <<sessions, gateway, ledger, late, due>>

(* complete_account_recharge with four arguments: paid now, not expired. *)
ManualCreditAccepted(r) ==
    status[r] # "expired" /\ (status[r] = "paid" \/ Creditable(r, "untimed"))

CreditRecharge(w) ==
    /\ At(w, "credit")
    /\ IF ManualCreditAccepted(Parent(w))
       THEN Credited(Parent(w)) /\ Move(w, "settle")
       ELSE UNCHANGED <<status, ledger>> /\ Move(w, "failcredit")
    /\ UNCHANGED <<sessions, gateway, late, due>>

(* The answer does not come: the request is given up, still on its way. *)
CreditUnanswered(w) ==
    /\ At(w, "credit")
    /\ Move(w, "adrift")
    /\ UNCHANGED <<status, sessions, gateway, ledger, late, due>>

AdriftCreditLands(w) ==
    /\ At(w, "adrift")
    /\ IF ManualCreditAccepted(Parent(w)) THEN Credited(Parent(w)) ELSE UNCHANGED <<status, ledger>>
    /\ Stop(w)
    /\ UNCHANGED <<sessions, gateway, late, due>>

(* handleExplicitCreditFailure *)
FailCredit(w) ==
    /\ At(w, "failcredit")
    /\ IF RowMatches(status[Parent(w)], {"processing"})
       THEN SetStatus(Parent(w), "failed") ELSE UNCHANGED status
    /\ Stop(w)
    /\ UNCHANGED <<sessions, gateway, ledger, late, due>>

(* reconcilePostRpcOutcome: read again, and conclude a paid recharge. *)
SettleCredit(w) ==
    /\ At(w, "settle")
    /\ IF RowMatches(status[Parent(w)], {"paid"})
       THEN SetStatus(Parent(w), "succeeded") ELSE UNCHANGED status
    /\ Stop(w)
    /\ UNCHANGED <<sessions, gateway, ledger, late, due>>

-----------------------------------------------------------------------------
(* An administrator approves a late payment of snpay.                      *)

LateReviewable(r, s) ==
    /\ status[r] = "expired"
    /\ sessions[s].status = "expired"
    /\ {t \in SessionsOf(r) : sessions[t].sent} = {s}
    /\ r \notin ledger

(* Pinned, then one query says that it was paid after the deadline. *)
LateReviewStarts(w, s) ==
    /\ sessions[s].recharge \in Snpay
    /\ LateReviewable(sessions[s].recharge, s)
    /\ gateway[s] = "late"
    /\ Start(w, "latereview", sessions[s].recharge, s)
    /\ UNCHANGED <<status, sessions, gateway, ledger, late, due>>

(* complete_account_recharge_late_payment_manual_v1 *)
ApproveLatePayment(w) ==
    /\ At(w, "latereview")
    /\ IF LateReviewable(Parent(w), Job(w))
       THEN /\ SetStatus(Parent(w), "succeeded")
            /\ SetSession(Job(w), "paid")
            /\ ledger' = ledger \cup {Parent(w)}
            /\ late' = late \cup {Parent(w)}
       ELSE UNCHANGED <<status, sessions, ledger, late>>
    /\ Stop(w)
    /\ UNCHANGED <<gateway, due>>

-----------------------------------------------------------------------------
(* A step of a handler that is running. *)
WorkerStep(w) ==
    \/ SessionOpened(w) \/ SessionFailed(w)
    \/ CallbackDecides(w) \/ LateEvidenceOnSession(w) \/ LateEvidenceOnRecharge(w)
    \/ UnpaidCallbackWrites(w)
    \/ ReconcileAnswered(w) \/ CompletePaymentSession(w)
    \/ ExpireSessions(w) \/ PollExpiresRecharge(w)
    \/ ClaimCredit(w) \/ CreditRecharge(w) \/ CreditUnanswered(w) \/ AdriftCreditLands(w)
    \/ FailCredit(w) \/ SettleCredit(w)
    \/ ApproveLatePayment(w)

WorkerStart(w) ==
    \/ \E r \in Recharges : \/ ExpireOverdue(w, r) \/ Approve(w, r) \/ RetryCredit(w, r)
                            \/ \E s \in Sessions : CreateSession(w, r, s)
    \/ \E s \in Sessions : \/ ReconcileStarts(w, s) \/ PollExpiresSession(w, s)
                           \/ LateReviewStarts(w, s)
                           \/ \E at \in PaidAt : CallbackArrives(w, s, at)
                           \/ \E report \in SessionStatus : UnpaidCallbackArrives(w, s, report)

Next ==
    \/ \E w \in Workers : WorkerStep(w) \/ WorkerStart(w) \/ Crash(w)
    \/ \E r \in Recharges : \/ DeadlinePasses(r) \/ SubmitProof(r) \/ ReviewRepairs(r)
                            \/ \E to \in RechargeStatus : Review(r, to)
    \/ \E s \in Sessions : ClosePaymentSession(s) \/ CustomerPays(s) \/ GatewayCloses(s)

Spec == Init /\ [][Next]_vars

(* Handlers that started run on, and the watcher asks snpay again and      *)
(* again; a process may die at any step, but not every time.               *)
FairSpec ==
    /\ Spec
    /\ \A w \in Workers : /\ WF_vars(WorkerStep(w))
                          /\ SF_vars(ReconcileAnswered(w))
                          /\ SF_vars(CompletePaymentSession(w))
    /\ \A s \in Sessions : SF_vars(\E w \in Workers : ReconcileStarts(w, s))

-----------------------------------------------------------------------------
(* Properties.                                                             *)

(* The balance was raised for a recharge exactly when it says so.  Ten     *)
(* writers of account_recharges.status compete with the two functions that *)
(* raise the balance.                                                      *)
LedgerMatchesStatus == \A r \in Recharges : r \in ledger <=> status[r] \in Completed

(* A session is paid only if its customer paid at the gateway and the      *)
(* recharge was credited, though the callback that says so read the        *)
(* session before it was closed, expired or failed.                        *)
PaidSessionIsCredited ==
    \A s \in Sessions :
        sessions[s].status = "paid" =>
            /\ gateway[s] \in {"intime", "late"}
            /\ sessions[s].recharge \in ledger

(* A recharge that no administrator reviews is credited only by a session  *)
(* that was paid.                                                          *)
CreditIsPaidFor ==
    \A r \in ledger \ Manual : \E s \in SessionsOf(r) : sessions[s].status = "paid"

(* After the deadline a recharge is credited only for a payment the gateway *)
(* dates before it, or as a late payment by an administrator: neither a     *)
(* delayed callback nor a manual review that took too long credits it.      *)
LateCreditIsJustified ==
    [][\A r \in (ledger' \ ledger) \cap due :
          r \in late' \/ \E s \in SessionsOf(r) : gateway[s] = "intime"]_vars

(* What was credited stays credited and completed, and a paid session paid. *)
CompletedIsFinal ==
    [][/\ ledger \subseteq ledger'
       /\ \A r \in Recharges : status[r] \in Completed => status'[r] \in Completed
       /\ \A s \in Sessions : sessions[s].status = "paid" => sessions'[s].status = "paid"]_vars

(* A payment in time to snpay is credited even if every callback is lost   *)
(* and both rows expired meanwhile, unless the customer closed the session *)
(* or opened another, or an administrator withdrew the recharge.           *)
InTimePaymentIsCredited ==
    \A s \in Sessions :
        gateway[s] = "intime" ~>
            \/ sessions[s].recharge \in ledger
            \/ sessions[s].recharge \notin Snpay \/ sessions[s].recharge \in Manual
            \/ sessions[s].status \in {"closed", "failed"}
            \/ SessionsOf(sessions[s].recharge) # {s}
            \/ status[sessions[s].recharge] = "cancelled"

(* docs/payment-provider-readiness.md: closed is a terminal status of a    *)
(* session.  The update of a callback that read it earlier reopens it.     *)
ClosedSessionStaysClosed ==
    [][\A s \in Sessions : sessions[s].status = "closed" => sessions'[s].status \notin Active]_vars
=============================================================================
