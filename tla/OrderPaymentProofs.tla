------------------------ MODULE OrderPaymentProofs ------------------------
(***************************************************************************)
(* What is paid for an order, and what its goods and its payment take from *)
(* the stock and the balance, for every set of orders, units, sessions and *)
(* channels.                                                               *)
(*                                                                         *)
(* PaidSessionIsFinal, OneActiveSession and BalanceMatchesDebits hold      *)
(* under every admin update.  The rest is proved for administrators who    *)
(* only halt orders: then a released order is halted, a halted order       *)
(* accepts no payment, an order that accepts one has collected nothing     *)
(* yet, and what was given back to the stock is not handed over.           *)
(***************************************************************************)
EXTENDS OrderLifecycleProofs, TotalsProofs

(* A request that has not reserved its session has no row. *)
FreshSessions ==
    \A s \in Sessions : sessions[s].pc \in {"idle", "checked"} => sessions[s].status = "none"

SessionInv == TypeOK /\ FreshSessions

-----------------------------------------------------------------------------
(* What a step may do to a row of payment_sessions.                        *)

(* A row keeps its order; it is paid for by a completion only, and for     *)
(* good; a session without a row stays without one unless it is reserved.  *)
RowStep(s) ==
    /\ sessions[s].status # "none" =>
         sessions'[s].status # "none" /\ sessions'[s].order = sessions[s].order
    /\ sessions[s].status = "paid" => sessions'[s].status = "paid"
    /\ sessions'[s].status = "paid" => sessions[s].status = "paid" \/ CompletePaymentSession(s)
    /\ sessions'[s].status \in ActiveSession =>
         \/ sessions[s].status \in ActiveSession
         \/ ReserveSession(s) /\ LiveSessions(sessions[s].order) = {}
    /\ sessions'[s].pc \in {"idle", "checked"} =>
         sessions[s].pc \in {"idle", "checked"} /\ sessions'[s].status = "none"

LEMMA SameRow ==
    ASSUME SessionInv, NEW s \in Sessions, sessions'[s] = sessions[s]
    PROVE  RowStep(s)
BY DEF SessionInv, FreshSessions, RowStep

LEMMA MovedSessions ==
    ASSUME SessionInv, NEW o, NEW from \in SUBSET (SessionStatuses \ {"paid"}),
           NEW to \in {"closed", "expired"}, MoveSessions(o, from, to), NEW s \in Sessions
    PROVE  RowStep(s)
<1>1. sessions[s] \in SessionRow
  BY DEF SessionInv, TypeOK
<1>2. CASE sessions'[s] = sessions[s]
  BY <1>2, SameRow
<1>3. CASE /\ s \in SessionsOf(o) /\ sessions[s].status \in from
           /\ sessions'[s] = [sessions[s] EXCEPT !.status = to]
  <2>1. /\ sessions'[s].status = to
        /\ sessions'[s].order = sessions[s].order
        /\ sessions'[s].pc = sessions[s].pc
    BY <1>1, <1>3 DEF SessionRow
  <2> QED
    BY <1>3, <2>1 DEF SessionInv, FreshSessions, RowStep, SessionsOf, ActiveSession
<1> QED BY <1>2, <1>3 DEF MoveSessions

LEMMA ReservedSessions ==
    ASSUME SessionInv, NEW t \in Sessions, ReserveSession(t), NEW s \in Sessions
    PROVE  RowStep(s)
<1> DEFINE o == sessions[t].order
           expired == [v \in Sessions |->
                         IF v \in StaleSessions(o)
                         THEN [sessions[v] EXCEPT !.status = "expired"] ELSE sessions[v]]
           opened == [sessions[t] EXCEPT
                        !.status = "processing", !.pc = "calling", !.at = NextPosition]
           reused == [sessions[t] EXCEPT !.order = NoOrder, !.pc = "done"]
<1>a. sessions[s] \in SessionRow /\ sessions[t] \in SessionRow
  BY DEF SessionInv, TypeOK
<1>b. sessions[t].status = "none"
  BY DEF ReserveSession, SessionInv, FreshSessions
<1>c. sessions' = IF LiveSessions(o) = {} THEN [expired EXCEPT ![t] = opened]
                  ELSE [expired EXCEPT ![t] = reused]
  BY DEF ReserveSession
<1>d. opened.status = "processing" /\ opened.pc = "calling"
  BY <1>a DEF SessionRow
<1>e. reused.status = "none" /\ reused.pc = "done"
  BY <1>a, <1>b DEF SessionRow
<1>f. expired \in [Sessions -> {expired[v] : v \in Sessions}]
  OBVIOUS
<1>g. s # t => sessions'[s] = expired[s]
  <2> HIDE DEF expired, opened, reused
  <2> QED BY <1>c, <1>f
<1>h. LiveSessions(o) = {} => sessions'[t] = opened
  <2> HIDE DEF expired, opened, reused
  <2> QED BY <1>c, <1>f
<1>i. LiveSessions(o) # {} => sessions'[t] = reused
  <2> HIDE DEF expired, opened, reused
  <2> QED BY <1>c, <1>f
<1>1. CASE s # t /\ s \notin StaleSessions(o)
  BY <1>g, <1>1, SameRow
<1>2. CASE s # t /\ s \in StaleSessions(o)
  <2>1. sessions'[s] = [sessions[s] EXCEPT !.status = "expired"]
    BY <1>g, <1>2
  <2>2. /\ sessions'[s].status = "expired"
        /\ sessions'[s].order = sessions[s].order
        /\ sessions'[s].pc = sessions[s].pc
    BY <1>a, <2>1 DEF SessionRow
  <2> QED
    BY <1>2, <2>2 DEF StaleSessions, SessionsOf, SessionInv, FreshSessions, RowStep, ActiveSession
<1>3. CASE s = t
  <2> HIDE DEF expired, opened, reused
  <2> QED BY <1>b, <1>d, <1>e, <1>h, <1>i, <1>3 DEF RowStep, ActiveSession
<1> QED BY <1>1, <1>2, <1>3

LEMMA SessionRowStep ==
    ASSUME SessionInv, [Next]_vars, NEW s \in Sessions
    PROVE  RowStep(s)
<1>a. sessions \in [Sessions -> SessionRow]
  BY DEF SessionInv, TypeOK
<1>1. CASE sessions' = sessions
  BY <1>1, SameRow
<1>2. ASSUME NEW o \in Orders, CancelUnpaidOrder(o) \/ ExpireUnpaidOrder(o)
      PROVE  RowStep(s)
  <2>1. CASE CancelUnpaidOrder(o)
    BY <2>1, MovedSessions DEF CancelUnpaidOrder, SessionStatuses
  <2>2. CASE ExpireUnpaidOrder(o)
    BY <2>2, MovedSessions DEF ExpireUnpaidOrder, SessionStatuses, ActiveSession
  <2> QED BY <1>2, <2>1, <2>2
<1>3. ASSUME NEW t \in Sessions, SessionStep(t)
      PROVE  RowStep(s)
  <2>a. ASSUME NEW row, sessions' = [sessions EXCEPT ![t] = row], t # s
        PROVE  RowStep(s)
    BY <1>a, <2>a, SameRow
  <2>1. ASSUME NEW o \in Orders, BeginSession(t, o)
        PROVE  RowStep(s)
    <3>1. CASE t = s
      <4>1. sessions'[s] = [sessions[s] EXCEPT !.order = o, !.pc = "checked"]
        BY <1>a, <2>1, <3>1 DEF BeginSession
      <4>2. sessions'[s].status = sessions[s].status
        BY <1>a, <4>1 DEF SessionRow
      <4> QED
        BY <2>1, <3>1, <4>2 DEF BeginSession, SessionInv, FreshSessions, RowStep, ActiveSession
    <3> QED BY <2>a, <2>1, <3>1 DEF BeginSession
  <2>2. CASE ReserveSession(t)
    BY <2>2, ReservedSessions
  <2>b. ASSUME sessions[t].pc = "calling", FailUnlessPaid(t)
        PROVE  RowStep(s)
    <3>1. CASE t = s
      <4>1. sessions'[s] = [sessions[s] EXCEPT !.pc = "done",
                              !.status = IF sessions[s].status = "paid" THEN "paid" ELSE "failed"]
        BY <1>a, <2>b, <3>1 DEF FailUnlessPaid
      <4>2. /\ sessions'[s].pc = "done"
            /\ sessions'[s].status = IF sessions[s].status = "paid" THEN "paid" ELSE "failed"
            /\ sessions'[s].order = sessions[s].order
        BY <1>a, <4>1 DEF SessionRow
      <4> QED BY <4>2 DEF RowStep, ActiveSession
    <3> QED BY <2>a, <2>b, <3>1 DEF FailUnlessPaid
  <2>3. ASSUME NEW status \in ActiveSession, ProviderReturns(t, status)
        PROVE  RowStep(s)
    <3>1. CASE sessions[t].status \in ActiveSession /\ t = s
      <4>1. sessions'[s] = [sessions[s] EXCEPT !.status = status, !.url = TRUE, !.pc = "done"]
        BY <1>a, <2>3, <3>1 DEF ProviderReturns
      <4>2. /\ sessions'[s].pc = "done"
            /\ sessions'[s].status = status
            /\ sessions'[s].order = sessions[s].order
        BY <1>a, <4>1 DEF SessionRow
      <4> QED BY <3>1, <4>2 DEF RowStep, ActiveSession
    <3>2. CASE sessions[t].status \in ActiveSession /\ t # s
      BY <2>a, <2>3, <3>2 DEF ProviderReturns
    <3> QED BY <2>b, <2>3, <3>1, <3>2 DEF ProviderReturns
  <2>4. CASE ProviderFails(t)
    BY <2>b, <2>4 DEF ProviderFails
  <2>5. CASE ClosePaymentSession(t) \/ ExpireSessionOnRead(t)
    <3>1. CASE t = s
      <4>1. /\ sessions[s].status \in {"pending", "processing", "failed"}
            /\ sessions'[s].status \in {"closed", "expired"}
            /\ sessions'[s].order = sessions[s].order
            /\ sessions'[s].pc = sessions[s].pc
        BY <1>a, <2>5, <3>1 DEF ClosePaymentSession, ExpireSessionOnRead, ActiveSession, SessionRow
      <4> QED BY <4>1 DEF SessionInv, FreshSessions, RowStep, ActiveSession
    <3>2. CASE t # s
      <4>1. sessions'[s] = sessions[s]
        BY <1>a, <2>5, <3>2 DEF ClosePaymentSession, ExpireSessionOnRead
      <4> QED BY <4>1, SameRow
    <3> QED BY <3>1, <3>2
  <2>6. CASE CustomerPays(t) \/ SessionFallsDue(t)
    <3>1. /\ sessions'[s].status = sessions[s].status
          /\ sessions'[s].order = sessions[s].order
          /\ sessions'[s].pc = sessions[s].pc
      BY <1>a, <2>6 DEF CustomerPays, SessionFallsDue, SessionRow
    <3> QED BY <3>1 DEF SessionInv, FreshSessions, RowStep
  <2>7. CASE CompletePaymentSession(t)
    <3>1. CASE t = s
      <4>1. /\ sessions[s].status \in ActiveSession
            /\ sessions'[s].status = "paid"
            /\ sessions'[s].order = sessions[s].order
            /\ sessions'[s].pc = sessions[s].pc
        BY <1>a, <2>7, <3>1 DEF CompletePaymentSession, SessionCompletable, SessionRow
      <4> QED BY <2>7, <3>1, <4>1 DEF SessionInv, FreshSessions, RowStep, ActiveSession
    <3>2. CASE t # s
      <4>1. sessions'[s] = sessions[s]
        BY <1>a, <2>7, <3>2 DEF CompletePaymentSession
      <4> QED BY <4>1, SameRow
    <3> QED BY <3>1, <3>2
  <2> QED BY <1>3, <2>1, <2>2, <2>3, <2>4, <2>5, <2>6, <2>7 DEF SessionStep
<1> QED
  BY <1>1, <1>2, <1>3 DEF Next, OrderStep, UnitStep, CreateOrder, PayOrderWithBalance,
     DeliverAutoOrder, RefreshManualOrder, AdminDeliverManual, AdminUpdateOrderStatus,
     OrderFallsDue, AdminDisableUnit, AdminEnableUnit, UnitLapses, vars

-----------------------------------------------------------------------------
(* Sessions, under every admin update.                                     *)

LEMMA SessionInvCorrect == Spec => []SessionInv
<1>1. Init => FreshSessions
  BY DEF Init, FreshSessions
<1>2. TypeOK /\ TypeOK' /\ FreshSessions /\ [Next]_vars => FreshSessions'
  BY SessionRowStep DEF SessionInv, FreshSessions, RowStep
<1> QED BY <1>1, <1>2, TypeCorrect, PTL DEF Spec, SessionInv

(* No request that read a session earlier fails, closes or expires it      *)
(* after it was paid.                                                      *)
THEOREM PaidSessionStays == Spec => PaidSessionIsFinal
<1>1. SessionInv /\ [Next]_vars =>
        [\A s \in Sessions : sessions[s].status = "paid" => sessions'[s].status = "paid"]_vars
  BY SessionRowStep DEF RowStep
<1> QED BY <1>1, SessionInvCorrect, PTL DEF Spec, PaidSessionIsFinal

(* At most one session of an order can be paid for, however many requests  *)
(* open one at once and whatever the provider answers afterwards.          *)
THEOREM OneSessionAtATime == Spec => []OneActiveSession
<1>1. Init => OneActiveSession
  BY DEF Init, OneActiveSession, SessionsOf
<1>2. SessionInv /\ OneActiveSession /\ [Next]_vars => OneActiveSession'
  <2> SUFFICES ASSUME SessionInv, OneActiveSession, [Next]_vars,
                      NEW o \in Orders, NEW s \in SessionsOf(o)', NEW t \in SessionsOf(o)',
                      sessions'[s].status \in ActiveSession, sessions'[t].status \in ActiveSession
               PROVE  s = t
    BY DEF OneActiveSession
  <2>1. /\ s \in Sessions /\ sessions'[s].order = o
        /\ t \in Sessions /\ sessions'[t].order = o
    BY DEF SessionsOf
  <2>2. RowStep(s) /\ RowStep(t)
    BY <2>1, SessionRowStep
  <2>3. CASE sessions[s].status \in ActiveSession /\ sessions[t].status \in ActiveSession
    <3>1. s \in SessionsOf(o) /\ t \in SessionsOf(o)
      BY <2>1, <2>2, <2>3 DEF RowStep, SessionsOf, ActiveSession
    <3> QED BY <2>3, <3>1 DEF OneActiveSession
  <2>4. ASSUME NEW r \in Sessions, NEW v \in Sessions, ReserveSession(r),
               LiveSessions(sessions[r].order) = {}, r # v, sessions'[r].order = o,
               sessions'[v].order = o, sessions'[v].status \in ActiveSession
        PROVE  FALSE
    <3> DEFINE expired == [u \in Sessions |->
                            IF u \in StaleSessions(sessions[r].order)
                            THEN [sessions[u] EXCEPT !.status = "expired"] ELSE sessions[u]]
               opened == [sessions[r] EXCEPT
                            !.status = "processing", !.pc = "calling", !.at = NextPosition]
    <3>a. sessions[r] \in SessionRow /\ sessions[v] \in SessionRow
      BY DEF SessionInv, TypeOK
    <3>b. opened.order = sessions[r].order
      BY <3>a DEF SessionRow
    <3>c. sessions' = [expired EXCEPT ![r] = opened]
      BY <2>4 DEF ReserveSession
    <3>d. sessions'[v] = expired[v] /\ sessions'[r] = opened
      <4> HIDE DEF opened
      <4> QED BY <2>4, <3>c
    <3>1. sessions[r].order = o
      BY <2>4, <3>b, <3>d
    <3>2. CASE v \in StaleSessions(o)
      BY <2>4, <3>a, <3>d, <3>1, <3>2 DEF SessionRow, ActiveSession
    <3>3. CASE v \notin StaleSessions(o)
      <4>1. sessions'[v] = sessions[v]
        BY <3>d, <3>1, <3>3
      <4>2. v \in LiveSessions(o)
        BY <2>4, <3>3, <4>1 DEF StaleSessions, LiveSessions, SessionsOf, ActiveSession
      <4> QED BY <2>4, <3>1, <4>2
    <3> QED BY <3>2, <3>3
  <2> QED BY <2>1, <2>2, <2>3, <2>4 DEF RowStep
<1> QED BY <1>1, <1>2, SessionInvCorrect, PTL DEF Spec

-----------------------------------------------------------------------------
(* What a step may do to an order's row when administrators only halt.     *)

ReleasedIsHalted == \A o \in Orders : orders[o].released => orders[o].status \in Halted

(* A halted order stays halted and unpaid orders become paid only when     *)
(* they accept a payment; only an unpaid order is released.                *)
OrderRowStep(o) ==
    /\ orders[o].status \in Halted => orders'[o].status \in Halted
    /\ orders'[o].released =>
         \/ orders[o].released
         \/ /\ orders[o].pay # "paid"
            /\ orders'[o].pay # "paid"
            /\ orders'[o].status \in Halted
    /\ orders'[o].pay = "paid" =>
         \/ orders[o].pay = "paid"
         \/ /\ AcceptsPayment(o)
            /\ \/ PayOrderWithBalance(o)
               \/ \E s \in Sessions : CompletePaymentSession(s) /\ sessions[s].order = o
    /\ orders[o].pay = "paid" => orders'[o].pay = "paid" \/ orders'[o].status \in Halted

LEMMA SameOrder ==
    ASSUME NEW o \in Orders, orders'[o] = orders[o]
    PROVE  OrderRowStep(o)
BY DEF OrderRowStep

LEMMA PaidOrder ==
    ASSUME TypeOK, NEW o \in Orders, NEW method, AcceptsPayment(o),
           orders'[o] = PaidRow(o, method),
           \/ PayOrderWithBalance(o)
           \/ \E s \in Sessions : CompletePaymentSession(s) /\ sessions[s].order = o
    PROVE  OrderRowStep(o)
<1>1. orders[o] \in OrderRow
  BY DEF TypeOK
<1>2. PaidRow(o, method).released = orders[o].released /\ PaidRow(o, method).pay = "paid"
  BY <1>1 DEF PaidRow, OrderRow
<1>3. orders[o].status \notin Halted /\ orders[o].pay # "paid"
  BY DEF AcceptsPayment
<1>4. orders[o].released = orders'[o].released /\ orders'[o].pay = "paid"
  BY <1>2
<1> QED BY <1>3, <1>4 DEF OrderRowStep

LEMMA RefreshedOrder ==
    ASSUME TypeOK, NEW o \in Orders, NEW row \in OrderRow, NEW n, NEW quantity,
           orders[o].status \notin Halted, orders[o].pay = "paid",
           row.pay = orders[o].pay, row.released = orders[o].released,
           orders'[o] = Refresh(row, n, quantity)
    PROVE  OrderRowStep(o)
<1>1. Refresh(row, n, quantity).pay = row.pay /\ Refresh(row, n, quantity).released = row.released
  BY DEF Refresh, OrderRow
<1>2. orders'[o].pay = "paid" /\ orders'[o].released = orders[o].released
  BY <1>1
<1> QED BY <1>2 DEF OrderRowStep

LEMMA OrderRows ==
    ASSUME TypeOK, NoReopening, [Next]_vars, NEW o \in Orders
    PROVE  OrderRowStep(o)
<1>a. orders \in [Orders -> OrderRow]
  BY DEF TypeOK
<1>1. CASE orders' = orders
  BY <1>1, SameOrder
<1>2. ASSUME NEW p \in Orders, OrderStep(p)
      PROVE  OrderRowStep(o)
  <2>a. ASSUME NEW row, orders' = [orders EXCEPT ![p] = row], p # o
        PROVE  OrderRowStep(o)
    BY <1>a, <2>a, SameOrder
  <2>b. orders[p] \in OrderRow
    BY <1>a
  <2>1. ASSUME NEW method \in Channels \cup {"balance"}, CreateOrder(p, method)
        PROVE  OrderRowStep(o)
    <3>1. CASE p = o
      <4>1. orders'[o] = [orders[o] EXCEPT !.status = "pending_payment", !.method = method]
        BY <1>a, <2>1, <3>1 DEF CreateOrder
      <4>2. orders'[o].pay = orders[o].pay /\ orders'[o].released = orders[o].released
        BY <2>b, <3>1, <4>1 DEF OrderRow
      <4>3. orders[o].status \notin Halted
        BY <2>1, <3>1 DEF CreateOrder, Exists, Halted
      <4> QED BY <4>2, <4>3 DEF OrderRowStep
    <3> QED BY <2>a, <2>1, <3>1 DEF CreateOrder
  <2>2. CASE CancelUnpaidOrder(p)
    <3>1. CASE p = o
      <4>1. orders'[o] = [orders[o] EXCEPT !.status = "cancelled", !.released = ReleasedAfter(o)]
        BY <1>a, <2>2, <3>1 DEF CancelUnpaidOrder
      <4>2. orders'[o].pay = orders[o].pay /\ orders'[o].status = "cancelled"
        BY <2>b, <3>1, <4>1 DEF OrderRow
      <4>3. orders[o].pay = "unpaid"
        BY <2>2, <3>1 DEF CancelUnpaidOrder, Cancellable
      <4> QED BY <4>2, <4>3 DEF OrderRowStep, Halted
    <3> QED BY <2>a, <2>2, <3>1 DEF CancelUnpaidOrder
  <2>3. CASE ExpireUnpaidOrder(p)
    <3>1. CASE p = o
      <4> DEFINE row == [orders[o] EXCEPT !.released = ReleasedAfter(o)]
      <4>1. orders'[o] = ExpiredRow(o)
        BY <1>a, <2>3, <3>1 DEF ExpireUnpaidOrder
      <4>2. /\ orders[o].pay # "paid"
            /\ orders[o].status \in Halted \cup {"pending_payment"}
        BY <2>3, <2>b, <3>1 DEF ExpireUnpaidOrder, Expirable, Exists, Secured, Halted, OrderRow,
           OrderStatuses
      <4>3. row.status = orders[o].status /\ row.pay = orders[o].pay
        BY <2>b, <3>1 DEF OrderRow
      <4>4. /\ ExpiredRow(o).pay # "paid"
            /\ ExpiredRow(o).status \in Halted
        <5>1. CASE row.status = "pending_payment"
          <6>1. ExpiredRow(o) = [row EXCEPT !.status = "expired",
                                   !.pay = IF row.pay = "unpaid" THEN "failed" ELSE row.pay]
            BY <5>1 DEF ExpiredRow
          <6>2. row \in [status : OrderStatuses, pay : PayStatuses, released : {ReleasedAfter(o)},
                        due : BOOLEAN, method : Channels \cup {"balance"}, item : ItemStatuses,
                        failedRow : BOOLEAN, handed : BOOLEAN]
            BY <2>b, <3>1 DEF OrderRow
          <6> HIDE DEF row
          <6>3. /\ ExpiredRow(o).status = "expired"
                /\ ExpiredRow(o).pay = IF row.pay = "unpaid" THEN "failed" ELSE row.pay
            BY <6>1, <6>2
          <6> QED BY <4>2, <4>3, <6>3 DEF Halted
        <5>2. CASE row.status # "pending_payment"
          BY <4>2, <4>3, <5>2 DEF ExpiredRow
        <5> QED BY <5>1, <5>2
      <4> QED BY <4>1, <4>2, <4>4 DEF OrderRowStep
    <3> QED BY <2>a, <2>3, <3>1 DEF ExpireUnpaidOrder
  <2>4. CASE PayOrderWithBalance(p)
    <3>1. CASE p = o
      BY <1>a, <2>4, <3>1, PaidOrder DEF PayOrderWithBalance, BalancePayable
    <3> QED BY <2>a, <2>4, <3>1 DEF PayOrderWithBalance
  <2>5. CASE DeliverAutoOrder(p)
    <3>1. PICK taken \in SUBSET DeliverableUnits(p) :
            LET short == Cardinality(taken) < Remaining(p)
                row == IF Remaining(p) <= 0 THEN orders[p]
                       ELSE [orders[p] EXCEPT !.item = IF short THEN "failed" ELSE "processing",
                                              !.failedRow = @ \/ short]
            IN orders' = [orders EXCEPT ![p] =
                            Refresh(row, Qty[p] - Remaining(p) + Cardinality(taken), Qty[p])]
      BY <2>5 DEF DeliverAutoOrder
    <3> DEFINE short == Cardinality(taken) < Remaining(p)
               row == IF Remaining(p) <= 0 THEN orders[p]
                      ELSE [orders[p] EXCEPT !.item = IF short THEN "failed" ELSE "processing",
                                             !.failedRow = @ \/ short]
               new == Refresh(row, Qty[p] - Remaining(p) + Cardinality(taken), Qty[p])
    <3>2. row \in OrderRow /\ row.pay = orders[p].pay /\ row.released = orders[p].released
      <4>1. short \in BOOLEAN
        OBVIOUS
      <4> HIDE DEF short
      <4> QED BY <2>b, <4>1 DEF OrderRow, ItemStatuses
    <3>3. orders' = [orders EXCEPT ![p] = new]
      BY <3>1
    <3>4. orders[p].pay = "paid" /\ orders[p].status \notin Halted
      BY <2>5 DEF DeliverAutoOrder, Deliverable
    <3>5. CASE p = o
      <4> HIDE DEF row
      <4>1. orders'[o] = new
        BY <1>a, <3>3, <3>5
      <4> QED BY <3>2, <3>4, <3>5, <4>1, RefreshedOrder
    <3> QED BY <2>a, <3>3, <3>5
  <2>6. CASE RefreshManualOrder(p)
    <3>1. orders[p].pay = "paid" /\ orders[p].status \notin Halted
      BY <2>6 DEF RefreshManualOrder, Deliverable
    <3>2. CASE p = o
      <4>1. orders'[o] = Refresh(orders[o], IF orders[o].handed THEN 1 ELSE 0, Qty[o])
        BY <1>a, <2>6, <3>2 DEF RefreshManualOrder
      <4> QED BY <2>b, <3>1, <3>2, <4>1, RefreshedOrder
    <3> QED BY <2>a, <2>6, <3>2 DEF RefreshManualOrder
  <2>7. CASE AdminDeliverManual(p)
    <3> DEFINE row == [orders[p] EXCEPT !.item = "delivered", !.handed = TRUE]
    <3>1. orders[p].pay = "paid" /\ orders[p].status \notin Halted
      BY <2>7 DEF AdminDeliverManual, Deliverable
    <3>2. row \in OrderRow /\ row.pay = orders[p].pay /\ row.released = orders[p].released
      BY <2>b DEF OrderRow, ItemStatuses
    <3>3. orders' = [orders EXCEPT ![p] = Refresh(row, 1, Qty[p])]
      BY <2>7 DEF AdminDeliverManual
    <3>4. CASE p = o
      <4> HIDE DEF row
      <4>1. orders'[o] = Refresh(row, 1, Qty[o])
        BY <1>a, <3>3, <3>4
      <4> QED BY <3>1, <3>2, <3>4, <4>1, RefreshedOrder
    <3> QED BY <2>a, <3>3, <3>4
  <2>8. ASSUME NEW move \in AdminMoves, AdminUpdateOrderStatus(p, move)
        PROVE  OrderRowStep(o)
    <3>1. CASE p = o
      <4> DEFINE pay == IF move.pay = Keep THEN orders[o].pay ELSE move.pay
                 released == IF move.to \in {"cancelled", "expired"}
                             THEN ReleasedAfter(o) ELSE orders[o].released
      <4>1. orders' = [orders EXCEPT ![o] = [orders[o] EXCEPT !.status = move.to, !.pay = pay,
                                                              !.released = released]]
        BY <2>8, <3>1 DEF AdminUpdateOrderStatus
      <4>2. move.to \in Halted /\ (move.pay = Keep \/ move.pay # "paid")
        BY AdminMovesAssumption DEF NoReopening, PayStatuses
      <4>3. orders[o].pay = "paid" => released = orders[o].released
        <5>1. orders[o].released \in BOOLEAN
          BY <2>b, <3>1 DEF OrderRow
        <5>2. orders[o].pay = "paid" => ReleasedAfter(o) = orders[o].released
          BY <5>1 DEF ReleasedAfter, Releasable
        <5> QED BY <5>2
      <4>4. pay = "paid" => orders[o].pay = "paid"
        BY <4>2
      <4> HIDE DEF pay, released
      <4>5. /\ orders'[o].status = move.to
            /\ orders'[o].pay = pay
            /\ orders'[o].released = released
        BY <1>a, <4>1 DEF OrderRow
      <4>6. CASE orders[o].pay = "paid"
        BY <4>2, <4>3, <4>5, <4>6 DEF OrderRowStep
      <4>7. CASE orders[o].pay # "paid"
        BY <4>2, <4>4, <4>5, <4>7 DEF OrderRowStep
      <4> QED BY <4>6, <4>7
    <3> QED BY <2>a, <2>8, <3>1 DEF AdminUpdateOrderStatus
  <2>9. CASE OrderFallsDue(p)
    <3>1. /\ orders'[o].status = orders[o].status
          /\ orders'[o].pay = orders[o].pay
          /\ orders'[o].released = orders[o].released
      BY <1>a, <2>9 DEF OrderFallsDue, OrderRow
    <3> QED BY <3>1 DEF OrderRowStep
  <2> QED BY <1>2, <2>1, <2>2, <2>3, <2>4, <2>5, <2>6, <2>7, <2>8, <2>9 DEF OrderStep
<1>3. ASSUME NEW s \in Sessions, SessionStep(s)
      PROVE  OrderRowStep(o)
  <2>1. CASE CompletePaymentSession(s)
    <3> DEFINE p == sessions[s].order
    <3>1. AcceptsPayment(p) /\ orders' = [orders EXCEPT ![p] = PaidRow(p, sessions[s].channel)]
      BY <2>1 DEF CompletePaymentSession
    <3>2. CASE p = o
      <4>1. orders'[o] = PaidRow(o, sessions[s].channel)
        BY <1>a, <3>1, <3>2
      <4> QED BY <2>1, <3>1, <3>2, <4>1, PaidOrder
    <3>3. CASE p # o
      BY <1>a, <3>1, <3>3, SameOrder
    <3> QED BY <3>2, <3>3
  <2>2. CASE orders' = orders
    BY <2>2, SameOrder
  <2> QED
    BY <1>3, <2>1, <2>2 DEF SessionStep, BeginSession, ReserveSession, ProviderReturns,
       ProviderFails, ClosePaymentSession, ExpireSessionOnRead, CustomerPays, SessionFallsDue
<1> QED
  BY <1>1, <1>2, <1>3 DEF Next, UnitStep, AdminDisableUnit, AdminEnableUnit, UnitLapses, vars

-----------------------------------------------------------------------------
(* The goods of a paid order.                                              *)

GoodsInv == ReleasedIsHalted /\ \A o \in Orders : orders[o].pay = "paid" => ~orders[o].released

LEMMA GoodsStep ==
    ASSUME TypeOK, NoReopening, GoodsInv, [Next]_vars
    PROVE  GoodsInv'
<1> SUFFICES ASSUME NEW o \in Orders
             PROVE  /\ orders'[o].released => orders'[o].status \in Halted
                    /\ orders'[o].pay = "paid" => ~orders'[o].released
  BY DEF GoodsInv, ReleasedIsHalted
<1>1. OrderRowStep(o)
  BY OrderRows
<1>2. CASE orders[o].released
  BY <1>1, <1>2 DEF OrderRowStep, GoodsInv, ReleasedIsHalted, AcceptsPayment
<1>3. CASE ~orders[o].released
  BY <1>1, <1>3 DEF OrderRowStep
<1> QED BY <1>2, <1>3

(* A payment is accepted only while the order holds its goods, and they    *)
(* are not given back once it was accepted, if administrators only halt    *)
(* orders.                                                                 *)
THEOREM PaidGoodsStay == Spec => []PaidOrderKeepsGoods
<1>1. CASE NoReopening
  <2>1. Init => GoodsInv
    BY DEF Init, GoodsInv, ReleasedIsHalted
  <2>2. TypeOK /\ GoodsInv /\ [Next]_vars => GoodsInv'
    BY <1>1, GoodsStep
  <2>3. GoodsInv => PaidOrderKeepsGoods
    BY DEF GoodsInv, PaidOrderKeepsGoods
  <2> QED BY <2>1, <2>2, <2>3, TypeCorrect, PTL DEF Spec
<1>2. CASE ~NoReopening
  <2>1. PaidOrderKeepsGoods
    BY <1>2 DEF PaidOrderKeepsGoods
  <2> QED BY <2>1, PTL
<1> QED BY <1>1, <1>2

-----------------------------------------------------------------------------
(* The money.                                                              *)

(* A step takes no money for o, or its balance payment, or one session.    *)
TakesNothing(o) ==
    /\ PaidSessions(o)' = PaidSessions(o)
    /\ o \in debits' <=> o \in debits

TakesBalance(o) ==
    /\ AcceptsPayment(o)
    /\ orders'[o].pay = "paid"
    /\ PaidSessions(o)' = PaidSessions(o)
    /\ o \in debits'

TakesSession(o) ==
    /\ AcceptsPayment(o)
    /\ orders'[o].pay = "paid"
    /\ \E s \in Sessions : PaidSessions(o)' = PaidSessions(o) \cup {s}
    /\ o \in debits' <=> o \in debits

LEMMA PaidSessionsStep ==
    ASSUME SessionInv, [Next]_vars, NEW o \in Orders
    PROVE  PaidSessions(o)' =
             PaidSessions(o) \cup {s \in Sessions : CompletePaymentSession(s)
                                                  /\ sessions[s].order = o}
<1>1. ASSUME NEW s \in Sessions
      PROVE  s \in PaidSessions(o)' <=>
               \/ s \in PaidSessions(o)
               \/ CompletePaymentSession(s) /\ sessions[s].order = o
  <2>1. RowStep(s)
    BY SessionRowStep
  <2>2. s \in PaidSessions(o) <=> sessions[s].status = "paid" /\ sessions[s].order = o
    BY DEF PaidSessions, SessionsOf
  <2>3. s \in PaidSessions(o)' <=> sessions'[s].status = "paid" /\ sessions'[s].order = o
    BY DEF PaidSessions, SessionsOf
  <2>4. CompletePaymentSession(s) =>
          sessions[s].status \in ActiveSession /\ sessions'[s].status = "paid"
    BY DEF CompletePaymentSession, SessionCompletable, SessionInv, TypeOK, SessionRow
  <2> QED BY <2>1, <2>2, <2>3, <2>4 DEF RowStep, ActiveSession
<1> QED BY <1>1 DEF PaidSessions, SessionsOf

LEMMA MoneyStep ==
    ASSUME SessionInv, NoReopening, [Next]_vars, NEW o \in Orders
    PROVE  \/ TakesNothing(o) /\ (orders'[o].pay = "paid" => orders[o].pay = "paid")
           \/ TakesBalance(o)
           \/ TakesSession(o)
<1>a. TypeOK
  BY DEF SessionInv
<1>1. CASE \E s \in Sessions : CompletePaymentSession(s)
  <2>1. PICK s \in Sessions : CompletePaymentSession(s)
    BY <1>1
  <2>2. \A t \in Sessions : CompletePaymentSession(t) => t = s
    BY <1>a, <2>1 DEF CompletePaymentSession, SessionCompletable, ActiveSession, TypeOK, SessionRow
  <2>3. debits' = debits
    BY <2>1 DEF CompletePaymentSession
  <2>4. CASE sessions[s].order = o
    <3>1. AcceptsPayment(o) /\ orders' = [orders EXCEPT ![o] = PaidRow(o, sessions[s].channel)]
      BY <2>1, <2>4 DEF CompletePaymentSession
    <3>2. orders'[o].pay = "paid"
      BY <1>a, <3>1 DEF PaidRow, TypeOK, OrderRow
    <3>3. PaidSessions(o)' = PaidSessions(o) \cup {s}
      BY <2>1, <2>2, <2>4, PaidSessionsStep
    <3> QED BY <2>3, <3>1, <3>2, <3>3 DEF TakesSession
  <2>5. CASE sessions[s].order # o
    <3>1. PaidSessions(o)' = PaidSessions(o)
      BY <2>2, <2>5, PaidSessionsStep
    <3>2. orders'[o] = orders[o]
      BY <1>a, <2>1, <2>5 DEF CompletePaymentSession, TypeOK
    <3> QED BY <2>3, <3>1, <3>2 DEF TakesNothing
  <2> QED BY <2>4, <2>5
<1>2. CASE \A s \in Sessions : ~CompletePaymentSession(s)
  <2>1. PaidSessions(o)' = PaidSessions(o)
    BY <1>2, PaidSessionsStep
  <2>2. OrderRowStep(o)
    BY <1>a, OrderRows
  <2>3. CASE PayOrderWithBalance(o)
    <3>1. AcceptsPayment(o) /\ o \in debits' /\ orders' = [orders EXCEPT ![o] = PaidRow(o, "balance")]
      BY <2>3 DEF PayOrderWithBalance, BalancePayable
    <3>2. orders'[o].pay = "paid"
      BY <1>a, <3>1 DEF PaidRow, TypeOK, OrderRow
    <3> QED BY <2>1, <3>1, <3>2 DEF TakesBalance
  <2>4. CASE ~PayOrderWithBalance(o)
    <3>1. o \in debits' <=> o \in debits
      <4>1. ASSUME NEW p \in Orders, PayOrderWithBalance(p)
            PROVE  o \in debits' <=> o \in debits
        BY <2>4, <4>1 DEF PayOrderWithBalance
      <4>2. CASE debits' = debits
        BY <4>2
      <4> QED
        BY <4>1, <4>2 DEF Next, OrderStep, SessionStep, UnitStep, CreateOrder, CancelUnpaidOrder,
           ExpireUnpaidOrder, DeliverAutoOrder, RefreshManualOrder, AdminDeliverManual,
           AdminUpdateOrderStatus, OrderFallsDue, BeginSession, ReserveSession, ProviderReturns,
           ProviderFails, ClosePaymentSession, ExpireSessionOnRead, CustomerPays,
           CompletePaymentSession, SessionFallsDue, AdminDisableUnit, AdminEnableUnit,
           UnitLapses, vars
    <3>2. orders'[o].pay = "paid" => orders[o].pay = "paid"
      BY <1>2, <2>2, <2>4 DEF OrderRowStep
    <3> QED BY <2>1, <3>1, <3>2 DEF TakesNothing
  <2> QED BY <2>3, <2>4
<1> QED BY <1>1, <1>2

(* Collected(o) in terms of the rows it counts. *)
CollectedNothing(o) == PaidSessions(o) = {} /\ o \notin debits
CollectedOne(o) ==
    \/ PaidSessions(o) = {} /\ o \in debits
    \/ (\E s \in Sessions : PaidSessions(o) = {s}) /\ o \notin debits

LEMMA CollectedCounts ==
    ASSUME NEW o \in Orders
    PROVE  /\ CollectedNothing(o) => Collected(o) = 0
           /\ CollectedOne(o) => Collected(o) = 1
BY FS_EmptySet, FS_Singleton DEF CollectedNothing, CollectedOne, Collected

MoneyInv ==
    \A o \in Orders :
        /\ CollectedNothing(o) \/ CollectedOne(o)
        /\ orders[o].pay = "paid" => CollectedOne(o)
        /\ orders[o].pay # "paid" /\ orders[o].status \notin Halted => CollectedNothing(o)

LEMMA MoneyInvStep ==
    ASSUME SessionInv, NoReopening, MoneyInv, [Next]_vars
    PROVE  MoneyInv'
<1> SUFFICES ASSUME NEW o \in Orders
             PROVE  /\ CollectedNothing(o)' \/ CollectedOne(o)'
                    /\ orders'[o].pay = "paid" => CollectedOne(o)'
                    /\ orders'[o].pay # "paid" /\ orders'[o].status \notin Halted =>
                         CollectedNothing(o)'
  BY DEF MoneyInv
<1>1. CASE TakesNothing(o) /\ (orders'[o].pay = "paid" => orders[o].pay = "paid")
  <2>1. /\ CollectedNothing(o)' <=> CollectedNothing(o)
        /\ CollectedOne(o)' <=> CollectedOne(o)
    BY <1>1 DEF TakesNothing, CollectedNothing, CollectedOne
  <2>2. OrderRowStep(o)
    BY OrderRows DEF SessionInv
  <2> QED BY <1>1, <2>1, <2>2 DEF MoneyInv, OrderRowStep
<1>2. CASE TakesBalance(o) \/ TakesSession(o)
  <2>1. CollectedNothing(o)
    BY <1>2 DEF TakesBalance, TakesSession, AcceptsPayment, MoneyInv
  <2>2. CollectedOne(o)' /\ orders'[o].pay = "paid"
    BY <1>2, <2>1 DEF TakesBalance, TakesSession, CollectedNothing, CollectedOne
  <2> QED BY <2>2
<1> QED BY <1>1, <1>2, MoneyStep

(* The customer pays for an order at most once, whichever of the balance   *)
(* and the sessions come first, and a paid order was paid for.             *)
THEOREM PaidOnce == Spec => []CollectedOnce
<1>1. CASE NoReopening
  <2>1. Init => MoneyInv
    BY DEF Init, MoneyInv, CollectedNothing, PaidSessions, SessionsOf
  <2>2. SessionInv /\ MoneyInv /\ [Next]_vars => MoneyInv'
    BY <1>1, MoneyInvStep
  <2>3. MoneyInv => CollectedOnce
    BY CollectedCounts DEF MoneyInv, CollectedOnce
  <2> QED BY <2>1, <2>2, <2>3, SessionInvCorrect, PTL DEF Spec
<1>2. CASE ~NoReopening
  <2>1. CollectedOnce
    BY <1>2 DEF CollectedOnce
  <2> QED BY <2>1, PTL
<1> QED BY <1>1, <1>2

(* A halted order stays halted and takes no money any more, if             *)
(* administrators only halt orders.                                        *)
THEOREM HaltedTakesNothing == Spec => HaltedOrderTakesNoMoney
<1>1. SessionInv /\ [Next]_vars =>
        [NoReopening => \A o \in Orders : orders[o].status \in Halted =>
           /\ orders'[o].status \in Halted
           /\ Collected(o)' = Collected(o)]_vars
  <2> SUFFICES ASSUME SessionInv, Next, NoReopening, NEW o \in Orders,
                      orders[o].status \in Halted
               PROVE  orders'[o].status \in Halted /\ Collected(o)' = Collected(o)
    OBVIOUS
  <2>1. orders'[o].status \in Halted
    BY OrderRows DEF SessionInv, OrderRowStep
  <2>2. TakesNothing(o)
    BY MoneyStep DEF TakesBalance, TakesSession, AcceptsPayment
  <2> QED BY <2>1, <2>2 DEF TakesNothing, Collected
<1> QED BY <1>1, SessionInvCorrect, PTL DEF Spec, HaltedOrderTakesNoMoney
-----------------------------------------------------------------------------
(* The balance.                                                            *)

LEMMA BalanceStep ==
    ASSUME TypeOK, BalanceMatchesDebits, [Next]_vars
    PROVE  BalanceMatchesDebits'
<1>a. IsFiniteSet(debits) /\ \A o \in Orders : Qty[o] \in Nat
  BY OrdersAssumption, FS_Subset DEF TypeOK
<1>1. ASSUME NEW o \in Orders, PayOrderWithBalance(o)
      PROVE  BalanceMatchesDebits'
  <2>1. /\ o \notin debits
        /\ debits' = debits \cup {o}
        /\ balance' = balance - Qty[o]
    BY <1>1 DEF PayOrderWithBalance, BalancePayable
  <2>2. Total(Qty, debits \cup {o}) = Total(Qty, debits) + Qty[o]
    BY <1>a, <2>1, TotalWith DEF TypeOK
  <2>3. Total(Qty, debits) \in Nat
    BY <1>a, PiecesAreFinite DEF TypeOK
  <2>4. Total(Qty, debits') = Total(Qty, debits) + Qty[o]
    BY <2>1, <2>2
  <2> QED
    BY <1>a, <2>1, <2>3, <2>4 DEF BalanceMatchesDebits, TypeOK
<1>2. CASE UNCHANGED <<balance, debits>>
  BY <1>2 DEF BalanceMatchesDebits
<1> QED
  BY <1>1, <1>2 DEF Next, OrderStep, SessionStep, UnitStep, CreateOrder, CancelUnpaidOrder,
     ExpireUnpaidOrder, DeliverAutoOrder, RefreshManualOrder, AdminDeliverManual,
     AdminUpdateOrderStatus, OrderFallsDue, BeginSession, ReserveSession, ProviderReturns,
     ProviderFails, ClosePaymentSession, ExpireSessionOnRead, CustomerPays,
     CompletePaymentSession, SessionFallsDue, AdminDisableUnit, AdminEnableUnit,
     UnitLapses, vars

(* Every unit of money that left the balance is accounted for by one       *)
(* order_payment transaction, under every admin update: the debit and its  *)
(* row are written together, and an order is debited once.                 *)
THEOREM DebitsAccountForBalance == Spec => []BalanceMatchesDebits
<1>1. Init => BalanceMatchesDebits
  BY EmptyTotal, PaymentAssumption DEF Init, BalanceMatchesDebits
<1>2. TypeOK /\ BalanceMatchesDebits /\ [Next]_vars => BalanceMatchesDebits'
  BY BalanceStep
<1> QED BY <1>1, <1>2, TypeCorrect, PTL DEF Spec

-----------------------------------------------------------------------------
(* The stock of the manual product.                                        *)

FreshUnhanded == \A o \in Orders : ~Exists(o) => ~orders[o].handed

Holders == {o \in Orders : HoldsStock(o)}

StockInv ==
    /\ ReservationInv
    /\ GoodsInv
    /\ FreshUnhanded
    /\ stock + Total(Qty, Holders) = InitStock

(* A step takes the goods of an order from the stock, gives them back, or  *)
(* does neither.                                                           *)
TakesStock(o) ==
    /\ ~HoldsStock(o)
    /\ HoldsStock(o)'
    /\ stock' = stock - Qty[o]

ReturnsStock(o) ==
    /\ HoldsStock(o)
    /\ ~HoldsStock(o)'
    /\ stock' = stock + Qty[o]

LeavesStock(o) ==
    /\ HoldsStock(o)' <=> HoldsStock(o)
    /\ stock' = stock

StockEffect(o) ==
    /\ Exists(o)'
    /\ \A p \in Orders \ {o} : orders'[p] = orders[p]
    /\ TakesStock(o) \/ ReturnsStock(o) \/ LeavesStock(o)

LEMMA ReleaseStock ==
    ASSUME TypeOK, NEW o \in Orders, Exists(o), Exists(o)', ReleaseGoods(o),
           orders'[o].released = ReleasedAfter(o), orders'[o].handed = orders[o].handed
    PROVE  ReturnsStock(o) \/ LeavesStock(o)
<1>a. orders[o].released \in BOOLEAN /\ orders[o].handed \in BOOLEAN
  BY DEF TypeOK, OrderRow
<1>1. CASE Releasable(o)
  <2>1. ~orders[o].released /\ orders'[o].released
    BY <1>1 DEF Releasable, ReleasedAfter
  <2>2. stock' = IF o \in ManualOrders /\ ~orders[o].handed THEN stock + Qty[o] ELSE stock
    BY <1>1 DEF ReleaseGoods
  <2> QED BY <2>1, <2>2 DEF ReturnsStock, LeavesStock, HoldsStock
<1>2. CASE ~Releasable(o)
  <2>1. stock' = stock /\ (orders'[o].released <=> orders[o].released)
    BY <1>2 DEF ReleaseGoods, ReleasedAfter
  <2> QED BY <2>1 DEF LeavesStock, HoldsStock
<1> QED BY <1>1, <1>2
(* A step that keeps what HoldsStock looks at leaves the stock alone. *)
LEMMA SameGoods ==
    ASSUME NEW o \in Orders, Exists(o), Exists(o)', orders'[o].released = orders[o].released,
           orders'[o].handed = orders[o].handed, stock' = stock
    PROVE  LeavesStock(o)
BY DEF LeavesStock, HoldsStock

LEMMA RefreshKeepsHanded ==
    ASSUME NEW row \in OrderRow, NEW n, NEW quantity
    PROVE  Refresh(row, n, quantity).handed = row.handed
BY DEF Refresh, OrderRow

LEMMA RefreshLeavesStock ==
    ASSUME TypeOK, NEW o \in Orders, NEW row \in OrderRow, NEW n, NEW quantity, Exists(o),
           row.status = orders[o].status, row.released = orders[o].released,
           row.handed = orders[o].handed, stock' = stock,
           orders' = [orders EXCEPT ![o] = Refresh(row, n, quantity)]
    PROVE  StockEffect(o)
<1>1. /\ orders'[o] = Refresh(row, n, quantity)
      /\ \A p \in Orders \ {o} : orders'[p] = orders[p]
  BY DEF TypeOK
<1>2. /\ Refresh(row, n, quantity).status # "none"
      /\ Refresh(row, n, quantity).released = row.released
      /\ Refresh(row, n, quantity).handed = row.handed
  BY RefreshKeeps, RefreshKeepsHanded DEF Exists
<1> QED BY <1>1, <1>2, SameGoods DEF StockEffect, Exists

LEMMA OrderStepStock ==
    ASSUME ReservationInv, GoodsInv, FreshUnhanded, NEW o \in Orders, OrderStep(o)
    PROVE  StockEffect(o)
<1>a. TypeOK /\ orders \in [Orders -> OrderRow] /\ orders[o] \in OrderRow
  BY DEF ReservationInv, TypeOK
<1>1. ASSUME NEW method \in Channels \cup {"balance"}, CreateOrder(o, method)
      PROVE  StockEffect(o)
  <2>1. orders' = [orders EXCEPT ![o] = [orders[o] EXCEPT !.status = "pending_payment",
                                                          !.method = method]]
    BY <1>1 DEF CreateOrder
  <2>2. /\ orders'[o].status = "pending_payment"
        /\ orders'[o].released = orders[o].released
        /\ \A p \in Orders \ {o} : orders'[p] = orders[p]
    BY <1>a, <2>1 DEF OrderRow
  <2>3. ~Exists(o) /\ ~orders[o].released
    BY <1>1 DEF CreateOrder, ReservationInv, FreshUnreleased
  <2>4. CASE o \in AutoOrders
    BY <1>1, <2>2, <2>4 DEF CreateOrder, ManualOrders, StockEffect, LeavesStock, HoldsStock, Exists
  <2>5. CASE o \in ManualOrders
    BY <1>1, <2>2, <2>3, <2>5 DEF CreateOrder, ManualOrders, StockEffect, TakesStock, HoldsStock,
       Exists
  <2> QED BY <2>4, <2>5 DEF ManualOrders
<1>2. CASE CancelUnpaidOrder(o)
  <2>1. orders' = [orders EXCEPT ![o] = [orders[o] EXCEPT !.status = "cancelled",
                                                          !.released = ReleasedAfter(o)]]
    BY <1>2 DEF CancelUnpaidOrder
  <2>2. /\ Exists(o)'
        /\ orders'[o].released = ReleasedAfter(o)
        /\ orders'[o].handed = orders[o].handed
        /\ \A p \in Orders \ {o} : orders'[p] = orders[p]
    BY <1>a, <2>1 DEF OrderRow, Exists
  <2>3. Exists(o) /\ ReleaseGoods(o)
    BY <1>2 DEF CancelUnpaidOrder, Cancellable, Exists
  <2> QED BY <1>a, <2>2, <2>3, ReleaseStock DEF StockEffect
<1>3. CASE ExpireUnpaidOrder(o)
  <2>1. Exists(o) /\ ReleaseGoods(o) /\ orders' = [orders EXCEPT ![o] = ExpiredRow(o)]
    BY <1>3 DEF ExpireUnpaidOrder, Expirable
  <2>2. /\ ExpiredRow(o).status # "none"
        /\ ExpiredRow(o).released = ReleasedAfter(o)
        /\ ExpiredRow(o).handed = orders[o].handed
    BY <1>a, <2>1 DEF ExpiredRow, Exists, OrderRow
  <2>3. /\ orders'[o] = ExpiredRow(o)
        /\ \A p \in Orders \ {o} : orders'[p] = orders[p]
    BY <1>a, <2>1
  <2> QED BY <1>a, <2>1, <2>2, <2>3, ReleaseStock DEF StockEffect, Exists
<1>4. CASE PayOrderWithBalance(o)
  <2>1. /\ orders' = [orders EXCEPT ![o] = PaidRow(o, "balance")]
        /\ stock' = stock
        /\ Exists(o)
    BY <1>4 DEF PayOrderWithBalance, BalancePayable, AcceptsPayment
  <2>2. PaidRow(o, "balance").handed = orders[o].handed
    BY <1>a DEF PaidRow, OrderRow
  <2>3. /\ orders'[o] = PaidRow(o, "balance")
        /\ \A p \in Orders \ {o} : orders'[p] = orders[p]
    BY <1>a, <2>1
  <2> QED BY <1>a, <2>1, <2>2, <2>3, PaidRowKeeps, SameGoods DEF StockEffect, Exists
<1>5. CASE DeliverAutoOrder(o)
  <2>1. PICK taken \in SUBSET DeliverableUnits(o) :
          LET short == Cardinality(taken) < Remaining(o)
              row == IF Remaining(o) <= 0 THEN orders[o]
                     ELSE [orders[o] EXCEPT !.item = IF short THEN "failed" ELSE "processing",
                                            !.failedRow = @ \/ short]
          IN orders' = [orders EXCEPT ![o] =
                          Refresh(row, Qty[o] - Remaining(o) + Cardinality(taken), Qty[o])]
    BY <1>5 DEF DeliverAutoOrder
  <2> DEFINE short == Cardinality(taken) < Remaining(o)
             row == IF Remaining(o) <= 0 THEN orders[o]
                    ELSE [orders[o] EXCEPT !.item = IF short THEN "failed" ELSE "processing",
                                           !.failedRow = @ \/ short]
             n == Qty[o] - Remaining(o) + Cardinality(taken)
  <2>2. /\ row \in OrderRow
        /\ row.status = orders[o].status
        /\ row.released = orders[o].released
        /\ row.handed = orders[o].handed
    <3>1. short \in BOOLEAN
      OBVIOUS
    <3> HIDE DEF short
    <3>2. row \in OrderRow
      BY <1>a, <3>1 DEF OrderRow, ItemStatuses
    <3>3. /\ row.status = orders[o].status
          /\ row.released = orders[o].released
          /\ row.handed = orders[o].handed
      BY <1>a DEF OrderRow
    <3> QED BY <3>2, <3>3
  <2>3. orders' = [orders EXCEPT ![o] = Refresh(row, n, Qty[o])]
    BY <2>1
  <2>4. Exists(o) /\ stock' = stock
    BY <1>5 DEF DeliverAutoOrder, Deliverable
  <2> HIDE DEF row, n
  <2> QED BY <1>a, <2>2, <2>3, <2>4, RefreshLeavesStock
<1>6. CASE RefreshManualOrder(o)
  <2> DEFINE n == IF orders[o].handed THEN 1 ELSE 0
  <2>1. /\ orders' = [orders EXCEPT ![o] = Refresh(orders[o], n, Qty[o])]
        /\ Exists(o) /\ stock' = stock
    BY <1>6 DEF RefreshManualOrder, Deliverable
  <2> HIDE DEF n
  <2> QED BY <1>a, <2>1, RefreshLeavesStock
<1>7. CASE AdminDeliverManual(o)
  <2> DEFINE row == [orders[o] EXCEPT !.item = "delivered", !.handed = TRUE]
  <2>1. /\ orders' = [orders EXCEPT ![o] = Refresh(row, 1, Qty[o])]
        /\ Exists(o) /\ stock' = stock
        /\ ~orders[o].released
    BY <1>7 DEF AdminDeliverManual, Deliverable, GoodsInv
  <2>2. /\ row \in OrderRow
        /\ row.status = orders[o].status
        /\ row.released = orders[o].released
    BY <1>a DEF OrderRow, ItemStatuses
  <2> HIDE DEF row
  <2>3. /\ orders'[o] = Refresh(row, 1, Qty[o])
        /\ \A p \in Orders \ {o} : orders'[p] = orders[p]
    BY <1>a, <2>1
  <2>4. Exists(o)' /\ ~orders'[o].released
    BY <2>1, <2>2, <2>3, RefreshKeeps DEF Exists
  <2> QED BY <2>1, <2>3, <2>4 DEF StockEffect, LeavesStock, HoldsStock
<1>8. ASSUME NEW move \in AdminMoves, AdminUpdateOrderStatus(o, move)
      PROVE  StockEffect(o)
  <2> DEFINE halts == move.to \in {"cancelled", "expired"}
  <2>1. /\ Exists(o) /\ Exists(o)'
        /\ orders'[o].released = IF halts THEN ReleasedAfter(o) ELSE orders[o].released
        /\ orders'[o].handed = orders[o].handed
        /\ \A p \in Orders \ {o} : orders'[p] = orders[p]
    BY <1>8, <1>a, AdminMovesAssumption DEF AdminUpdateOrderStatus, OrderRow, Exists
  <2>2. CASE halts
    <3>1. ReleaseGoods(o)
      BY <1>8, <2>2 DEF AdminUpdateOrderStatus
    <3> QED BY <1>a, <2>1, <2>2, <3>1, ReleaseStock DEF StockEffect
  <2>3. CASE ~halts
    <3>1. stock' = stock
      BY <1>8, <2>3 DEF AdminUpdateOrderStatus
    <3> QED BY <2>1, <2>3, <3>1, SameGoods DEF StockEffect
  <2> QED BY <2>2, <2>3
<1>9. CASE OrderFallsDue(o)
  <2>1. /\ Exists(o) /\ Exists(o)'
        /\ orders'[o].released = orders[o].released
        /\ orders'[o].handed = orders[o].handed
        /\ \A p \in Orders \ {o} : orders'[p] = orders[p]
        /\ stock' = stock
    BY <1>9, <1>a DEF OrderFallsDue, OrderRow, Exists
  <2> QED BY <2>1, SameGoods DEF StockEffect
<1> QED BY <1>1, <1>2, <1>3, <1>4, <1>5, <1>6, <1>7, <1>8, <1>9 DEF OrderStep

(* What an order takes or gives back is the difference its joining or      *)
(* leaving the holders makes.                                              *)
LEMMA StockEffectKeeps ==
    ASSUME StockInv, NEW o \in Orders, StockEffect(o)
    PROVE  stock' + Total(Qty, Holders') = InitStock /\ FreshUnhanded'
<1>a. /\ Holders \in SUBSET Orders
      /\ IsFiniteSet(Holders)
      /\ \A p \in Orders : Qty[p] \in Nat
      /\ stock \in Nat
  BY OrdersAssumption, FS_Subset DEF Holders, StockInv, ReservationInv, TypeOK
<1>b. \A p \in Orders \ {o} : HoldsStock(p)' <=> HoldsStock(p)
  BY DEF StockEffect, HoldsStock, Exists
<1>c. Total(Qty, Holders) \in Nat
  BY <1>a, PiecesAreFinite
<1>1. stock' + Total(Qty, Holders') = InitStock
  <2>1. CASE TakesStock(o)
    <3>1. o \notin Holders /\ Holders' = Holders \cup {o}
      BY <1>b, <2>1 DEF TakesStock, Holders
    <3>2. Total(Qty, Holders \cup {o}) = Total(Qty, Holders) + Qty[o]
      BY <1>a, <3>1, TotalWith
    <3>3. Total(Qty, Holders') = Total(Qty, Holders) + Qty[o]
      BY <3>1, <3>2
    <3> QED BY <1>a, <1>c, <2>1, <3>3 DEF TakesStock, StockInv
  <2>2. CASE ReturnsStock(o)
    <3>1. o \in Holders /\ Holders' = Holders \ {o}
      BY <1>b, <2>2 DEF ReturnsStock, Holders
    <3>2. Total(Qty, Holders \ {o}) + Qty[o] = Total(Qty, Holders)
      BY <1>a, <3>1, TotalWithout
    <3>3. IsFiniteSet(Holders \ {o}) /\ Total(Qty, Holders \ {o}) \in Nat
      BY <1>a, FS_RemoveElement, PiecesAreFinite
    <3>4. Total(Qty, Holders') = Total(Qty, Holders \ {o})
      BY <3>1
    <3> QED BY <1>a, <1>c, <2>2, <3>2, <3>3, <3>4 DEF ReturnsStock, StockInv
  <2>3. CASE LeavesStock(o)
    <3>1. Holders' = Holders
      BY <1>b, <2>3 DEF LeavesStock, Holders
    <3> QED BY <2>3, <3>1 DEF LeavesStock, StockInv
  <2> QED BY <2>1, <2>2, <2>3 DEF StockEffect
<1>2. FreshUnhanded'
  BY DEF StockEffect, StockInv, FreshUnhanded, Exists
<1> QED BY <1>1, <1>2

LEMMA StockStep ==
    ASSUME StockInv, NoReopening, [Next]_vars
    PROVE  StockInv'
<1>a. TypeOK
  BY DEF StockInv, ReservationInv
<1>1. ReservationInv' /\ GoodsInv'
  BY <1>a, ReservationStep, GoodsStep DEF StockInv
<1>2. ASSUME UNCHANGED stock, NEW o \in Orders, AcceptsPayment(o), NEW method,
             orders' = [orders EXCEPT ![o] = PaidRow(o, method)]
      PROVE  StockEffect(o)
  <2>1. PaidRow(o, method).handed = orders[o].handed
    BY <1>a DEF PaidRow, TypeOK, OrderRow
  <2>2. /\ orders'[o] = PaidRow(o, method)
        /\ \A p \in Orders \ {o} : orders'[p] = orders[p]
    BY <1>a, <1>2 DEF TypeOK
  <2>3. Exists(o)
    BY <1>2 DEF AcceptsPayment
  <2> QED BY <1>a, <1>2, <2>1, <2>2, <2>3, PaidRowKeeps, SameGoods DEF StockEffect, Exists
<1>3. CASE UNCHANGED <<orders, stock>>
  <2>1. Holders' = Holders /\ (FreshUnhanded' <=> FreshUnhanded)
    BY <1>3 DEF Holders, HoldsStock, FreshUnhanded, Exists
  <2> QED BY <1>1, <1>3, <2>1 DEF StockInv
<1>4. ASSUME NEW o \in Orders, StockEffect(o)
      PROVE  StockInv'
  BY <1>1, <1>4, StockEffectKeeps DEF StockInv
<1>5. ASSUME NEW o \in Orders, OrderStep(o)
      PROVE  StockInv'
  BY <1>4, <1>5, OrderStepStock DEF StockInv
<1>6. ASSUME NEW s \in Sessions, SessionStep(s)
      PROVE  StockInv'
  BY <1>a, <1>2, <1>3, <1>4, <1>6, SessionStepOrders
<1> QED
  BY <1>3, <1>5, <1>6 DEF Next, UnitStep, AdminDisableUnit, AdminEnableUnit, UnitLapses, vars

(* No oversell and no lost stock, if administrators only halt orders: what *)
(* is on the shelf and what orders hold or have received is what there was *)
(* at the start, through creation, every release and every delivery.       *)
THEOREM StockIsConserved == Spec => []StockConserved
<1>1. CASE NoReopening
  <2>1. Init => StockInv
    <3> SUFFICES ASSUME Init PROVE StockInv
      OBVIOUS
    <3>1. Holders = {}
      BY DEF Init, Holders, HoldsStock, Exists
    <3>2. stock + Total(Qty, Holders) = InitStock
      BY <3>1, EmptyTotal, InventoryAssumption DEF Init
    <3>3. GoodsInv /\ FreshUnhanded
      BY DEF Init, GoodsInv, ReleasedIsHalted, FreshUnhanded
    <3> QED BY <3>2, <3>3, InitReservations DEF StockInv
  <2>2. StockInv /\ [Next]_vars => StockInv'
    BY <1>1, StockStep
  <2>3. StockInv => StockConserved
    BY DEF StockInv, StockConserved, Holders
  <2> QED BY <2>1, <2>2, <2>3, PTL DEF Spec
<1>2. CASE ~NoReopening
  <2>1. StockConserved
    BY <1>2 DEF StockConserved
  <2> QED BY <2>1, PTL
<1> QED BY <1>1, <1>2
=============================================================================
