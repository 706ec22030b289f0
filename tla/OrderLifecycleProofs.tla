------------------------ MODULE OrderLifecycleProofs ------------------------
(***************************************************************************)
(* Theorems about OrderLifecycle for every set of orders, units, sessions  *)
(* and channels, every stock and balance and every set of admin updates.   *)
(***************************************************************************)
EXTENDS OrderLifecycle, FiniteSetTheorems, TLAPS

-----------------------------------------------------------------------------
(* Rows keep their types.                                                  *)

(* Releasing goods types the inventory and the stock. *)
LEMMA ReleaseTypes ==
    ASSUME TypeOK, NEW o \in Orders, ReleaseGoods(o)
    PROVE  units' \in [Units -> UnitRow] /\ stock' \in Nat
<1>1. CASE Releasable(o)
  <2>1. \A u \in Units : FreeUnit(u) \in UnitRow
    BY DEF FreeUnit, TypeOK, UnitRow, UnitStates
  <2>2. units' \in [Units -> UnitRow]
    BY <1>1, <2>1 DEF ReleaseGoods, FreedUnits, TypeOK
  <2>3. stock' \in Nat
    BY <1>1, OrdersAssumption DEF ReleaseGoods, FreedUnits, TypeOK
  <2> QED BY <2>2, <2>3
<1>2. CASE ~Releasable(o)
  BY <1>2 DEF ReleaseGoods, FreedUnits, TypeOK
<1> QED BY <1>1, <1>2

(* Closing or expiring an order's sessions types them. *)
LEMMA MoveSessionsTypes ==
    ASSUME TypeOK, NEW o, NEW from, NEW to \in SessionStatuses, MoveSessions(o, from, to)
    PROVE  sessions' \in [Sessions -> SessionRow]
BY DEF MoveSessions, TypeOK, SessionRow

(* A paid order row is an order row. *)
LEMMA PaidRowType ==
    ASSUME TypeOK, NEW o \in Orders, NEW method \in Channels \cup {"balance"}
    PROVE  PaidRow(o, method) \in OrderRow
BY DEF PaidRow, TypeOK, OrderRow, OrderStatuses, PayStatuses

(* Refreshing an order row from its deliveries gives an order row. *)
LEMMA RefreshType ==
    ASSUME NEW row \in OrderRow, NEW n, NEW quantity
    PROVE  Refresh(row, n, quantity) \in OrderRow
<1> DEFINE seen == [row EXCEPT !.item = RefreshedItem(row, n, quantity)]
<1>1. RefreshedItem(row, n, quantity) \in ItemStatuses
  BY DEF RefreshedItem, ItemStatuses, OrderRow
<1>2. seen \in OrderRow
  BY <1>1 DEF OrderRow
<1>3. RefreshedStatus(seen) \in OrderStatuses
  BY <1>2 DEF RefreshedStatus, OrderStatuses, OrderRow
<1> QED BY <1>2, <1>3 DEF Refresh, OrderRow

(* Every step of an order keeps the types. *)
LEMMA OrderStepTypes ==
    ASSUME TypeOK, NEW o \in Orders, OrderStep(o)
    PROVE  TypeOK'
<1>1. ASSUME NEW method \in Channels \cup {"balance"}, CreateOrder(o, method)
      PROVE  TypeOK'
  <2>1. orders' \in [Orders -> OrderRow]
    <3>1. [orders[o] EXCEPT !.status = "pending_payment", !.method = method] \in OrderRow
      BY DEF TypeOK, OrderRow, OrderStatuses
    <3> QED BY <1>1, <3>1 DEF CreateOrder, TypeOK
  <2>2. units' \in [Units -> UnitRow]
    <3>1. CASE units' = units
      BY <3>1 DEF TypeOK
    <3>2. ASSUME NEW picked \in SUBSET Units, ReserveUnits(o, picked)
          PROVE  units' \in [Units -> UnitRow]
      BY <3>2 DEF ReserveUnits, TypeOK, UnitRow, UnitStates
    <3> QED BY <1>1, <3>1, <3>2 DEF CreateOrder
  <2>3. stock' \in Nat
    <3>1. Qty[o] \in Nat /\ stock \in Nat
      BY OrdersAssumption DEF TypeOK
    <3>2. stock' = stock \/ (stock >= Qty[o] /\ stock' = stock - Qty[o])
      BY <1>1 DEF CreateOrder, InStock
    <3> QED BY <3>1, <3>2
  <2> QED BY <1>1, <2>1, <2>2, <2>3 DEF CreateOrder, TypeOK
<1>2. CASE CancelUnpaidOrder(o)
  <2>1. units' \in [Units -> UnitRow] /\ stock' \in Nat
    BY <1>2, ReleaseTypes DEF CancelUnpaidOrder
  <2>2. sessions' \in [Sessions -> SessionRow]
    BY <1>2, MoveSessionsTypes DEF CancelUnpaidOrder, SessionStatuses
  <2>3. orders' \in [Orders -> OrderRow]
    <3>1. ReleasedAfter(o) \in BOOLEAN
      BY DEF ReleasedAfter, Releasable, TypeOK, OrderRow
    <3>2. [orders[o] EXCEPT !.status = "cancelled", !.released = ReleasedAfter(o)] \in OrderRow
      BY <3>1 DEF TypeOK, OrderRow, OrderStatuses
    <3> QED BY <1>2, <3>2 DEF CancelUnpaidOrder, TypeOK
  <2> QED BY <1>2, <2>1, <2>2, <2>3 DEF CancelUnpaidOrder, TypeOK
<1>3. CASE ExpireUnpaidOrder(o)
  <2>1. units' \in [Units -> UnitRow] /\ stock' \in Nat
    BY <1>3, ReleaseTypes DEF ExpireUnpaidOrder
  <2>2. sessions' \in [Sessions -> SessionRow]
    BY <1>3, MoveSessionsTypes DEF ExpireUnpaidOrder, SessionStatuses
  <2>3. ExpiredRow(o) \in OrderRow
    BY DEF ExpiredRow, ReleasedAfter, Releasable, TypeOK, OrderRow, OrderStatuses, PayStatuses
  <2> QED BY <1>3, <2>1, <2>2, <2>3 DEF ExpireUnpaidOrder, TypeOK
<1>4. CASE PayOrderWithBalance(o)
  <2>1. PaidRow(o, "balance") \in OrderRow
    BY PaidRowType
  <2>2. balance' \in Nat
    <3>1. Qty[o] \in Nat /\ balance \in Nat
      BY OrdersAssumption DEF TypeOK
    <3>2. balance >= Qty[o] /\ balance' = balance - Qty[o]
      BY <1>4 DEF PayOrderWithBalance, BalancePayable
    <3> QED BY <3>1, <3>2
  <2> QED BY <1>4, <2>1, <2>2 DEF PayOrderWithBalance, TypeOK
<1>5. CASE DeliverAutoOrder(o)
  <2>1. PICK taken \in SUBSET DeliverableUnits(o) :
          LET short == Cardinality(taken) < Remaining(o)
              row == IF Remaining(o) <= 0 THEN orders[o]
                     ELSE [orders[o] EXCEPT !.item = IF short THEN "failed" ELSE "processing",
                                            !.failedRow = @ \/ short]
          IN
          /\ units' = [u \in Units |->
                         IF u \in taken
                         THEN [units[u] EXCEPT !.state = "delivered", !.owner = o]
                         ELSE units[u]]
          /\ orders' = [orders EXCEPT ![o] =
                          Refresh(row, Qty[o] - Remaining(o) + Cardinality(taken), Qty[o])]
    BY <1>5 DEF DeliverAutoOrder
  <2> DEFINE short == Cardinality(taken) < Remaining(o)
             row == IF Remaining(o) <= 0 THEN orders[o]
                    ELSE [orders[o] EXCEPT !.item = IF short THEN "failed" ELSE "processing",
                                           !.failedRow = @ \/ short]
  <2>2. units' \in [Units -> UnitRow]
    BY <2>1 DEF TypeOK, UnitRow, UnitStates
  <2>3. row \in OrderRow
    <3>1. short \in BOOLEAN
      OBVIOUS
    <3> HIDE DEF short
    <3> QED BY <3>1 DEF TypeOK, OrderRow, ItemStatuses
  <2>4. orders' \in [Orders -> OrderRow]
    <3>1. orders' = [orders EXCEPT ![o] =
                       Refresh(row, Qty[o] - Remaining(o) + Cardinality(taken), Qty[o])]
      BY <2>1
    <3> HIDE DEF row
    <3>2. Refresh(row, Qty[o] - Remaining(o) + Cardinality(taken), Qty[o]) \in OrderRow
      BY <2>3, RefreshType
    <3> QED BY <3>1, <3>2 DEF TypeOK
  <2> QED BY <1>5, <2>2, <2>4 DEF DeliverAutoOrder, TypeOK
<1>6. CASE RefreshManualOrder(o)
  <2>1. orders[o] \in OrderRow
    BY DEF TypeOK
  <2>2. Refresh(orders[o], IF orders[o].handed THEN 1 ELSE 0, Qty[o]) \in OrderRow
    BY <2>1, RefreshType
  <2> QED BY <1>6, <2>2 DEF RefreshManualOrder, TypeOK
<1>7. CASE AdminDeliverManual(o)
  <2>1. [orders[o] EXCEPT !.item = "delivered", !.handed = TRUE] \in OrderRow
    BY DEF TypeOK, OrderRow, ItemStatuses
  <2>2. Refresh([orders[o] EXCEPT !.item = "delivered", !.handed = TRUE], 1, Qty[o])
          \in OrderRow
    BY <2>1, RefreshType
  <2> QED BY <1>7, <2>2 DEF AdminDeliverManual, TypeOK
<1>8. ASSUME NEW move \in AdminMoves, AdminUpdateOrderStatus(o, move)
      PROVE  TypeOK'
  <2>1. units' \in [Units -> UnitRow] /\ stock' \in Nat
    BY <1>8, ReleaseTypes DEF AdminUpdateOrderStatus, TypeOK
  <2>2. move.to \in OrderStatuses /\ (move.pay # Keep => move.pay \in PayStatuses)
    BY AdminMovesAssumption
  <2>3. orders' \in [Orders -> OrderRow]
    <3> DEFINE pay == IF move.pay = Keep THEN orders[o].pay ELSE move.pay
               released == IF move.to \in {"cancelled", "expired"}
                           THEN ReleasedAfter(o) ELSE orders[o].released
    <3>1. orders[o] \in OrderRow
      BY DEF TypeOK
    <3>2. pay \in PayStatuses
      BY <3>1, <2>2 DEF OrderRow
    <3>3. released \in BOOLEAN
      BY <3>1 DEF ReleasedAfter, Releasable, OrderRow
    <3>4. orders' = [orders EXCEPT ![o] = [orders[o] EXCEPT !.status = move.to,
                                             !.pay = pay, !.released = released]]
      BY <1>8 DEF AdminUpdateOrderStatus
    <3> HIDE DEF pay, released
    <3>5. [orders[o] EXCEPT !.status = move.to, !.pay = pay, !.released = released] \in OrderRow
      BY <2>2, <3>1, <3>2, <3>3 DEF OrderRow
    <3> QED BY <3>4, <3>5 DEF TypeOK
  <2> QED BY <1>8, <2>1, <2>3 DEF AdminUpdateOrderStatus, TypeOK
<1>9. CASE OrderFallsDue(o)
  BY <1>9 DEF OrderFallsDue, TypeOK, OrderRow
<1> QED
  BY <1>1, <1>2, <1>3, <1>4, <1>5, <1>6, <1>7, <1>8, <1>9 DEF OrderStep

(* Every step of a session keeps the types. *)
LEMMA SessionStepTypes ==
    ASSUME TypeOK, NEW s \in Sessions, SessionStep(s)
    PROVE  TypeOK'
<1> DEFINE Kept == UNCHANGED <<orders, units, stock, balance, debits>>
<1>1. ASSUME sessions' \in [Sessions -> SessionRow], Kept
      PROVE  TypeOK'
  BY <1>1 DEF TypeOK
<1>2. ASSUME NEW o \in Orders, BeginSession(s, o)
      PROVE  TypeOK'
  <2>1. sessions' \in [Sessions -> SessionRow]
    <3>1. [sessions[s] EXCEPT !.order = o, !.pc = "checked"] \in SessionRow
      BY DEF TypeOK, SessionRow
    <3> QED BY <1>2, <3>1 DEF BeginSession, TypeOK
  <2> QED BY <1>1, <1>2, <2>1 DEF BeginSession
<1>3. CASE ReserveSession(s)
  <2> DEFINE o == sessions[s].order
             expired == [t \in Sessions |->
                           IF t \in StaleSessions(o)
                           THEN [sessions[t] EXCEPT !.status = "expired"]
                           ELSE sessions[t]]
  <2>1. expired \in [Sessions -> SessionRow]
    BY DEF TypeOK, SessionRow, SessionStatuses
  <2>2. NextPosition \in Nat
    <3> DEFINE inserted == {t \in Sessions : sessions[t].status # "none"}
    <3>1. IsFiniteSet(inserted)
      BY PaymentAssumption, FS_Subset
    <3>2. Cardinality(inserted) \in Nat
      BY <3>1, FS_CardinalityType
    <3> HIDE DEF inserted
    <3> QED BY <3>2 DEF NextPosition, inserted
  <2> DEFINE inserted == [sessions[s] EXCEPT !.status = "processing", !.pc = "calling",
                                             !.at = NextPosition]
             reused == [sessions[s] EXCEPT !.order = NoOrder, !.pc = "done"]
  <2>3. sessions' = [expired EXCEPT ![s] = inserted] \/ sessions' = [expired EXCEPT ![s] = reused]
    BY <1>3 DEF ReserveSession
  <2>4. inserted \in SessionRow /\ reused \in SessionRow
    BY <2>2 DEF TypeOK, SessionRow, SessionStatuses
  <2> HIDE DEF expired, inserted, reused
  <2>5. sessions' \in [Sessions -> SessionRow]
    BY <2>1, <2>3, <2>4
  <2> QED BY <1>1, <1>3, <2>5 DEF ReserveSession
<1>4. ASSUME FailUnlessPaid(s), Kept
      PROVE  TypeOK'
  <2>1. [sessions[s] EXCEPT !.pc = "done", !.status = IF @ = "paid" THEN "paid" ELSE "failed"]
          \in SessionRow
    BY DEF TypeOK, SessionRow, SessionStatuses
  <2>2. sessions' \in [Sessions -> SessionRow]
    BY <1>4, <2>1 DEF FailUnlessPaid, TypeOK
  <2> QED BY <1>1, <1>4, <2>2
<1>5. ASSUME NEW status \in ActiveSession, ProviderReturns(s, status)
      PROVE  TypeOK'
  <2>1. CASE FailUnlessPaid(s)
    BY <1>4, <1>5, <2>1 DEF ProviderReturns
  <2> DEFINE returned == [sessions[s] EXCEPT !.status = status, !.url = TRUE, !.pc = "done"]
  <2>2. CASE sessions' = [sessions EXCEPT ![s] = returned]
    <3>1. returned \in SessionRow
      BY DEF TypeOK, SessionRow, SessionStatuses, ActiveSession
    <3>2. sessions' \in [Sessions -> SessionRow]
      BY <2>2, <3>1 DEF TypeOK
    <3> QED BY <1>1, <1>5, <3>2 DEF ProviderReturns
  <2> QED BY <1>5, <2>1, <2>2 DEF ProviderReturns
<1>6. CASE ProviderFails(s)
  BY <1>4, <1>6 DEF ProviderFails
<1>7. CASE ClosePaymentSession(s) \/ ExpireSessionOnRead(s) \/ CustomerPays(s)
           \/ SessionFallsDue(s)
  <2>1. sessions' \in [Sessions -> SessionRow]
    <3>1. /\ [sessions[s] EXCEPT !.status = "closed"] \in SessionRow
          /\ [sessions[s] EXCEPT !.status = "expired"] \in SessionRow
          /\ [sessions[s] EXCEPT !.due = TRUE] \in SessionRow
          /\ \A paid \in {"late", "intime"} : [sessions[s] EXCEPT !.paid = paid] \in SessionRow
      BY DEF TypeOK, SessionRow, SessionStatuses
    <3>2. CASE ClosePaymentSession(s)
      BY <3>1, <3>2 DEF ClosePaymentSession, TypeOK
    <3>3. CASE ExpireSessionOnRead(s)
      BY <3>1, <3>3 DEF ExpireSessionOnRead, TypeOK
    <3>4. CASE CustomerPays(s)
      BY <3>1, <3>4 DEF CustomerPays, TypeOK
    <3>5. CASE SessionFallsDue(s)
      BY <3>1, <3>5 DEF SessionFallsDue, TypeOK
    <3> QED BY <1>7, <3>2, <3>3, <3>4, <3>5
  <2>2. Kept
    BY <1>7 DEF ClosePaymentSession, ExpireSessionOnRead, CustomerPays, SessionFallsDue
  <2> QED BY <1>1, <2>1, <2>2
<1>8. CASE CompletePaymentSession(s)
  <2> DEFINE o == sessions[s].order
  <2>1. sessions' \in [Sessions -> SessionRow]
    BY <1>8 DEF CompletePaymentSession, TypeOK, SessionRow, SessionStatuses
  <2>2. sessions[s].channel \in Channels
    BY DEF TypeOK, SessionRow
  <2>3. orders' = [orders EXCEPT ![o] = PaidRow(o, sessions[s].channel)]
    BY <1>8 DEF CompletePaymentSession
  <2>4. orders' \in [Orders -> OrderRow]
    <3>1. CASE o \in Orders
      <4>1. PaidRow(o, sessions[s].channel) \in OrderRow
        BY <2>2, <3>1, PaidRowType
      <4> QED BY <2>3, <4>1 DEF TypeOK
    <3>2. CASE o \notin Orders
      BY <2>3, <3>2 DEF TypeOK
    <3> QED BY <3>1, <3>2
  <2> QED BY <1>8, <2>1, <2>4 DEF CompletePaymentSession, TypeOK
<1> QED BY <1>2, <1>3, <1>5, <1>6, <1>7, <1>8 DEF SessionStep

LEMMA TypeStep ==
    TypeOK /\ [Next]_vars => TypeOK'
<1> SUFFICES ASSUME TypeOK, [Next]_vars PROVE TypeOK'
  OBVIOUS
<1>1. ASSUME NEW u \in Units, UnitStep(u) PROVE TypeOK'
  <2>1. units' \in [Units -> UnitRow]
    BY <1>1 DEF UnitStep, AdminDisableUnit, AdminEnableUnit, UnitLapses, TypeOK,
                UnitRow, UnitStates
  <2> QED BY <1>1, <2>1 DEF UnitStep, AdminDisableUnit, AdminEnableUnit, UnitLapses, TypeOK
<1>2. CASE UNCHANGED vars
  BY <1>2 DEF vars, TypeOK
<1> QED BY <1>1, <1>2, OrderStepTypes, SessionStepTypes DEF Next

LEMMA InitTypes == Init => TypeOK
<1> SUFFICES ASSUME Init PROVE TypeOK
  OBVIOUS
<1>1. orders \in [Orders -> OrderRow]
  <2>1. [status |-> "none", pay |-> "unpaid", released |-> FALSE, due |-> FALSE,
         method |-> "balance", item |-> "pending", failedRow |-> FALSE, handed |-> FALSE]
           \in OrderRow
    BY DEF OrderRow, OrderStatuses, PayStatuses, ItemStatuses
  <2> QED BY <2>1 DEF Init
<1>2. units \in [Units -> UnitRow]
  BY DEF Init, UnitRow, UnitStates
<1>3. sessions \in [Sessions -> SessionRow]
  <2>1. \A c \in Channels :
          [status |-> "none", order |-> NoOrder, channel |-> c, due |-> FALSE, url |-> FALSE,
           paid |-> "no", at |-> 0, pc |-> "idle"] \in SessionRow
    BY DEF SessionRow, SessionStatuses
  <2> QED BY <2>1 DEF Init
<1>4. stock \in Nat /\ balance \in Nat /\ debits \subseteq Orders
  BY InventoryAssumption, PaymentAssumption DEF Init
<1> QED BY <1>1, <1>2, <1>3, <1>4 DEF TypeOK

(* Every row stays in its table's domain; in particular neither the stock  *)
(* nor the balance becomes negative, whatever orders compete for them.     *)
THEOREM TypeCorrect == Spec => []TypeOK
<1>1. Init => TypeOK
  BY InitTypes
<1>2. TypeOK /\ [Next]_vars => TypeOK'
  BY TypeStep
<1> QED BY <1>1, <1>2, PTL DEF Spec

-----------------------------------------------------------------------------
(* No unit stays reserved for an order that gave its reservation back.     *)

(* An order that was not created yet has released nothing. *)
FreshUnreleased == \A o \in Orders : ~Exists(o) => ~orders[o].released

ReservationInv == TypeOK /\ NoLeakedReservation /\ FreshUnreleased

(* What all steps but creation and release do to orders and reservations. *)
OrdersKept ==
    \A o \in Orders : /\ Exists(o) <=> Exists(o)'
                      /\ orders'[o].released = orders[o].released
NothingNewReserved ==
    \A u \in Units : units'[u].state = "reserved" =>
      units[u].state = "reserved" /\ units'[u].owner = units[u].owner

LEMMA KeptReservations ==
    ASSUME ReservationInv, TypeOK', OrdersKept, NothingNewReserved
    PROVE  ReservationInv'
<1>1. NoLeakedReservation'
  BY OrdersAssumption DEF ReservationInv, OrdersKept, NothingNewReserved,
       NoLeakedReservation, Exists
<1>2. FreshUnreleased'
  BY DEF ReservationInv, OrdersKept, FreshUnreleased, Exists
<1> QED BY <1>1, <1>2 DEF ReservationInv

(* A release takes back every reserved unit of the order it marks. *)
LEMMA ReleaseReservations ==
    ASSUME ReservationInv, TypeOK', NEW o \in Orders, Exists(o), Exists(o)', ReleaseGoods(o),
           orders'[o].released = ReleasedAfter(o),
           \A p \in Orders \ {o} : orders'[p] = orders[p]
    PROVE  ReservationInv'
<1>1. ASSUME NEW u \in Units, units'[u].state = "reserved"
      PROVE  /\ units[u].state = "reserved"
             /\ units'[u].owner = units[u].owner
             /\ Releasable(o) => units[u].owner # o
  <2>1. CASE Releasable(o)
    <3>1. FreeUnit(u).state = "available"
      BY DEF FreeUnit, ReservationInv, TypeOK, UnitRow
    <3>2. units'[u] = IF u \in UnitsIn(o, "reserved") THEN FreeUnit(u) ELSE units[u]
      BY <2>1 DEF ReleaseGoods, FreedUnits
    <3> QED BY <1>1, <3>1, <3>2 DEF UnitsIn
  <2>2. CASE ~Releasable(o)
    BY <1>1, <2>2 DEF ReleaseGoods
  <2> QED BY <2>1, <2>2
<1>2. NoLeakedReservation'
  <2> SUFFICES ASSUME NEW u \in Units, units'[u].state = "reserved"
               PROVE  /\ units'[u].owner \in AutoOrders
                      /\ orders'[units'[u].owner].status # "none"
                      /\ ~orders'[units'[u].owner].released
    BY DEF NoLeakedReservation, Exists
  <2> DEFINE p == units[u].owner
  <2>1. p \in AutoOrders /\ p \in Orders /\ Exists(p) /\ ~orders[p].released /\ units'[u].owner = p
    BY <1>1, OrdersAssumption DEF ReservationInv, NoLeakedReservation
  <2>2. CASE p = o
    BY <1>1, <2>1, <2>2 DEF ReleasedAfter, Exists
  <2>3. CASE p # o
    BY <2>1, <2>3 DEF Exists
  <2> QED BY <2>2, <2>3
<1>3. FreshUnreleased'
  BY DEF ReservationInv, FreshUnreleased, Exists
<1> QED BY <1>2, <1>3 DEF ReservationInv

LEMMA RefreshKeeps ==
    ASSUME NEW row \in OrderRow, NEW n, NEW quantity
    PROVE  /\ Refresh(row, n, quantity).released = row.released
           /\ row.status # "none" => Refresh(row, n, quantity).status # "none"
BY DEF Refresh, RefreshedStatus, OrderRow

(* An operation on an order creates it with all its units, releases it,    *)
(* hands over some of what is reserved for it, or leaves the goods alone.  *)
Creates(o) ==
    /\ ~Exists(o)
    /\ Exists(o)'
    /\ ~orders[o].released
    /\ ~orders'[o].released
    /\ \A p \in Orders \ {o} : orders'[p] = orders[p]
    /\ \/ o \in ManualOrders /\ UNCHANGED units
       \/ /\ o \in AutoOrders
          /\ \E picked \in SUBSET {u \in Units : Reservable(u)} :
               Cardinality(picked) = Qty[o] /\ ReserveUnits(o, picked)

Releases(o) ==
    /\ Exists(o)
    /\ Exists(o)'
    /\ ReleaseGoods(o)
    /\ orders'[o].released = ReleasedAfter(o)
    /\ \A p \in Orders \ {o} : orders'[p] = orders[p]

HandsOver(o, taken) ==
    units' = [u \in Units |->
                IF u \in taken THEN [units[u] EXCEPT !.state = "delivered", !.owner = o]
                ELSE units[u]]

LeavesGoods == OrdersKept /\ UNCHANGED units

Effect(o) ==
    \/ Creates(o)
    \/ Releases(o)
    \/ Exists(o) /\ OrdersKept /\ \E taken \in SUBSET DeliverableUnits(o) : HandsOver(o, taken)
    \/ LeavesGoods

LEMMA OrderStepEffect ==
    ASSUME ReservationInv, NEW o \in Orders, OrderStep(o)
    PROVE  Effect(o)
<1> USE DEF ReservationInv
<1>1. ASSUME NEW method \in Channels \cup {"balance"}, CreateOrder(o, method)
      PROVE  Effect(o)
  <2>1. /\ ~orders[o].released
        /\ orders' = [orders EXCEPT ![o] = [orders[o] EXCEPT !.status = "pending_payment",
                                                             !.method = method]]
    BY <1>1 DEF CreateOrder, FreshUnreleased
  <2>2. Exists(o)' /\ ~orders'[o].released /\ \A p \in Orders \ {o} : orders'[p] = orders[p]
    BY <2>1 DEF TypeOK, OrderRow, Exists
  <2>3. ~Exists(o)
    BY <1>1 DEF CreateOrder
  <2> QED BY <1>1, <2>1, <2>2, <2>3 DEF CreateOrder, Effect, Creates
<1>2. CASE CancelUnpaidOrder(o)
  <2>1. orders' = [orders EXCEPT ![o] = [orders[o] EXCEPT !.status = "cancelled",
                                                          !.released = ReleasedAfter(o)]]
    BY <1>2 DEF CancelUnpaidOrder
  <2>2. /\ Exists(o)' /\ orders'[o].released = ReleasedAfter(o)
        /\ \A p \in Orders \ {o} : orders'[p] = orders[p]
    BY <2>1 DEF TypeOK, OrderRow, Exists
  <2>3. Exists(o) /\ ReleaseGoods(o)
    BY <1>2 DEF CancelUnpaidOrder, Cancellable, Exists
  <2> QED BY <2>2, <2>3 DEF Effect, Releases
<1>3. CASE ExpireUnpaidOrder(o)
  <2>1. Exists(o) /\ ReleaseGoods(o) /\ orders' = [orders EXCEPT ![o] = ExpiredRow(o)]
    BY <1>3 DEF ExpireUnpaidOrder, Expirable
  <2>2. ExpiredRow(o).status # "none" /\ ExpiredRow(o).released = ReleasedAfter(o)
    BY <2>1 DEF ExpiredRow, Exists, TypeOK, OrderRow
  <2>3. /\ Exists(o)' /\ orders'[o].released = ReleasedAfter(o)
        /\ \A p \in Orders \ {o} : orders'[p] = orders[p]
    BY <2>1, <2>2 DEF TypeOK, Exists
  <2> QED BY <2>1, <2>3 DEF Effect, Releases
<1>4. ASSUME NEW row, orders' = [orders EXCEPT ![o] = row], Exists(o), row.status # "none",
             row.released = orders[o].released
      PROVE  OrdersKept
  BY <1>4 DEF OrdersKept, Exists, TypeOK
<1>5. CASE PayOrderWithBalance(o)
  <2>1. PaidRow(o, "balance").status # "none" /\ Exists(o)
    BY <1>5 DEF PayOrderWithBalance, BalancePayable, AcceptsPayment, PaidRow, TypeOK,
                OrderRow, Exists
  <2>2. PaidRow(o, "balance").released = orders[o].released
    BY DEF PaidRow, TypeOK, OrderRow
  <2>3. OrdersKept
    BY <1>4, <1>5, <2>1, <2>2 DEF PayOrderWithBalance
  <2>4. UNCHANGED units
    BY <1>5 DEF PayOrderWithBalance
  <2> QED BY <2>3, <2>4 DEF Effect, LeavesGoods
<1>6. CASE DeliverAutoOrder(o)
  <2>1. PICK taken \in SUBSET DeliverableUnits(o), row \in OrderRow, n \in Int :
          /\ row.status = orders[o].status
          /\ row.released = orders[o].released
          /\ units' = [u \in Units |->
                         IF u \in taken
                         THEN [units[u] EXCEPT !.state = "delivered", !.owner = o]
                         ELSE units[u]]
          /\ orders' = [orders EXCEPT ![o] = Refresh(row, n, Qty[o])]
    <3>1. PICK taken \in SUBSET DeliverableUnits(o) :
            LET short == Cardinality(taken) < Remaining(o)
                row == IF Remaining(o) <= 0 THEN orders[o]
                       ELSE [orders[o] EXCEPT !.item = IF short THEN "failed" ELSE "processing",
                                              !.failedRow = @ \/ short]
            IN
            /\ units' = [u \in Units |->
                           IF u \in taken
                           THEN [units[u] EXCEPT !.state = "delivered", !.owner = o]
                           ELSE units[u]]
            /\ orders' = [orders EXCEPT ![o] =
                            Refresh(row, Qty[o] - Remaining(o) + Cardinality(taken), Qty[o])]
      BY <1>6 DEF DeliverAutoOrder
    <3> DEFINE short == Cardinality(taken) < Remaining(o)
               row == IF Remaining(o) <= 0 THEN orders[o]
                      ELSE [orders[o] EXCEPT !.item = IF short THEN "failed" ELSE "processing",
                                             !.failedRow = @ \/ short]
               n == Qty[o] - Remaining(o) + Cardinality(taken)
    <3>2. short \in BOOLEAN
      OBVIOUS
    <3>3. n \in Int
      <4>1. IsFiniteSet(taken) /\ IsFiniteSet(UnitsIn(o, "delivered"))
        BY InventoryAssumption, FS_Subset DEF DeliverableUnits, UnitsIn
      <4>2. Cardinality(taken) \in Int /\ Cardinality(UnitsIn(o, "delivered")) \in Int
        BY <4>1, FS_CardinalityType
      <4>3. Qty[o] \in Int
        BY OrdersAssumption
      <4> QED BY <4>2, <4>3 DEF Remaining
    <3>4. row \in OrderRow /\ row.status = orders[o].status /\ row.released = orders[o].released
      <4> HIDE DEF short
      <4>1. orders[o] \in OrderRow
        BY DEF TypeOK
      <4>2. row \in OrderRow
        BY <3>2, <4>1 DEF OrderRow, ItemStatuses
      <4>3. row.status = orders[o].status /\ row.released = orders[o].released
        BY <4>1 DEF OrderRow
      <4> QED BY <4>2, <4>3
    <3>5. orders' = [orders EXCEPT ![o] = Refresh(row, n, Qty[o])]
      BY <3>1
    <3>6. units' = [u \in Units |->
                      IF u \in taken
                      THEN [units[u] EXCEPT !.state = "delivered", !.owner = o]
                      ELSE units[u]]
      BY <3>1
    <3> HIDE DEF row, n
    <3> QED BY <3>3, <3>4, <3>5, <3>6
  <2>2. OrdersKept
    <3>1. Exists(o)
      BY <1>6 DEF DeliverAutoOrder, Deliverable
    <3>2. /\ Refresh(row, n, Qty[o]).released = row.released
          /\ row.status # "none" => Refresh(row, n, Qty[o]).status # "none"
      BY RefreshKeeps
    <3> QED BY <1>4, <2>1, <3>1, <3>2 DEF Exists
  <2>3. Exists(o)
    BY <1>6 DEF DeliverAutoOrder, Deliverable
  <2> QED BY <2>1, <2>2, <2>3 DEF Effect, HandsOver
<1>7. CASE RefreshManualOrder(o)
  <2>1. OrdersKept
    <3>1. Exists(o) /\ orders[o] \in OrderRow
      BY <1>7 DEF RefreshManualOrder, Deliverable, TypeOK
    <3> DEFINE n == IF orders[o].handed THEN 1 ELSE 0
    <3>2. orders' = [orders EXCEPT ![o] = Refresh(orders[o], n, Qty[o])]
      BY <1>7 DEF RefreshManualOrder
    <3> HIDE DEF n
    <3>3. /\ Refresh(orders[o], n, Qty[o]).released = orders[o].released
          /\ orders[o].status # "none" => Refresh(orders[o], n, Qty[o]).status # "none"
      BY <3>1, RefreshKeeps
    <3> QED BY <1>4, <3>1, <3>2, <3>3 DEF Exists
  <2>2. UNCHANGED units
    BY <1>7 DEF RefreshManualOrder
  <2> QED BY <2>1, <2>2 DEF Effect, LeavesGoods
<1>8. CASE AdminDeliverManual(o)
  <2> DEFINE row == [orders[o] EXCEPT !.item = "delivered", !.handed = TRUE]
  <2>1. Exists(o) /\ row \in OrderRow /\ row.status = orders[o].status
          /\ row.released = orders[o].released
    <3>1. Exists(o) /\ orders[o] \in OrderRow
      BY <1>8 DEF AdminDeliverManual, Deliverable, TypeOK
    <3>2. row \in OrderRow
      BY <3>1 DEF OrderRow, ItemStatuses
    <3>3. row.status = orders[o].status /\ row.released = orders[o].released
      BY <3>1 DEF OrderRow
    <3> QED BY <3>1, <3>2, <3>3
  <2>2. orders' = [orders EXCEPT ![o] = Refresh(row, 1, Qty[o])]
    BY <1>8 DEF AdminDeliverManual
  <2> HIDE DEF row
  <2>3. OrdersKept
    <3>1. /\ Refresh(row, 1, Qty[o]).released = row.released
          /\ row.status # "none" => Refresh(row, 1, Qty[o]).status # "none"
      BY <2>1, RefreshKeeps
    <3> QED BY <1>4, <2>1, <2>2, <3>1 DEF Exists
  <2>4. UNCHANGED units
    BY <1>8 DEF AdminDeliverManual
  <2> QED BY <2>3, <2>4 DEF Effect, LeavesGoods
<1>9. ASSUME NEW move \in AdminMoves, AdminUpdateOrderStatus(o, move)
      PROVE  Effect(o)
  <2> DEFINE halts == move.to \in {"cancelled", "expired"}
  <2>1. /\ Exists(o) /\ Exists(o)'
        /\ orders'[o].released = IF halts THEN ReleasedAfter(o) ELSE orders[o].released
        /\ \A p \in Orders \ {o} : orders'[p] = orders[p]
    BY <1>9, AdminMovesAssumption DEF AdminUpdateOrderStatus, TypeOK, OrderRow, Exists
  <2>2. CASE halts
    BY <1>9, <2>1, <2>2 DEF AdminUpdateOrderStatus, Effect, Releases
  <2>3. CASE ~halts
    <3>1. OrdersKept
      BY <2>1, <2>3 DEF OrdersKept, Exists
    <3>2. UNCHANGED units
      BY <1>9, <2>3 DEF AdminUpdateOrderStatus
    <3> QED BY <3>1, <3>2 DEF Effect, LeavesGoods
  <2> QED BY <2>2, <2>3
<1>10. CASE OrderFallsDue(o)
  <2>1. OrdersKept
    BY <1>10 DEF OrderFallsDue, OrdersKept, Exists, TypeOK, OrderRow
  <2>2. UNCHANGED units
    BY <1>10 DEF OrderFallsDue
  <2> QED BY <2>1, <2>2 DEF Effect, LeavesGoods
<1> QED BY <1>1, <1>2, <1>3, <1>5, <1>6, <1>7, <1>8, <1>9, <1>10 DEF OrderStep

LEMMA OrderStepReservations ==
    ASSUME ReservationInv, TypeOK', NEW o \in Orders, OrderStep(o)
    PROVE  ReservationInv'
<1> USE DEF ReservationInv
<1>1. CASE Creates(o)
  <2>1. CASE o \in ManualOrders /\ UNCHANGED units
    BY <1>1, <2>1, OrdersAssumption DEF Creates, NoLeakedReservation, FreshUnreleased, Exists
  <2>2. ASSUME o \in AutoOrders, NEW picked \in SUBSET Units, ReserveUnits(o, picked)
        PROVE  ReservationInv'
    <3>1. \A u \in Units : IF u \in picked THEN units'[u].owner = o
                           ELSE units'[u] = units[u]
      BY <2>2 DEF ReserveUnits, TypeOK, UnitRow
    <3>2. NoLeakedReservation'
      BY <1>1, <2>2, <3>1, OrdersAssumption DEF Creates, NoLeakedReservation, Exists
    <3> QED BY <1>1, <3>2 DEF Creates, FreshUnreleased, Exists
  <2> QED BY <1>1, <2>1, <2>2 DEF Creates
<1>2. CASE Releases(o)
  BY <1>2, ReleaseReservations DEF Releases
<1>3. ASSUME OrdersKept, NEW taken \in SUBSET DeliverableUnits(o), HandsOver(o, taken)
      PROVE  ReservationInv'
  <2>1. NothingNewReserved
    BY <1>3 DEF HandsOver, NothingNewReserved, TypeOK, UnitRow
  <2> QED BY <1>3, <2>1, KeptReservations
<1>4. CASE LeavesGoods
  <2>1. OrdersKept /\ NothingNewReserved
    BY <1>4 DEF LeavesGoods, NothingNewReserved
  <2> QED BY <2>1, KeptReservations
<1> QED BY <1>1, <1>2, <1>3, <1>4, OrderStepEffect DEF Effect

(* Sessions never touch the inventory, and only a completed payment        *)
(* touches an order.                                                       *)
LEMMA SessionStepOrders ==
    ASSUME TypeOK, NEW s \in Sessions, SessionStep(s)
    PROVE  /\ UNCHANGED <<units, stock, balance, debits>>
           /\ \/ UNCHANGED orders
              \/ \E o \in Orders :
                   /\ AcceptsPayment(o)
                   /\ orders' = [orders EXCEPT ![o] = PaidRow(o, sessions[s].channel)]
<1>1. CASE CompletePaymentSession(s)
  <2> DEFINE o == sessions[s].order
  <2>1. /\ AcceptsPayment(o)
        /\ orders' = [orders EXCEPT ![o] = PaidRow(o, sessions[s].channel)]
    BY <1>1 DEF CompletePaymentSession
  <2>2. CASE o \in Orders
    BY <1>1, <2>1, <2>2 DEF CompletePaymentSession
  <2>3. CASE o \notin Orders
    BY <1>1, <2>1, <2>3 DEF CompletePaymentSession, TypeOK
  <2> QED BY <2>2, <2>3
<1>2. CASE ~CompletePaymentSession(s)
  BY <1>2 DEF SessionStep, BeginSession, ReserveSession, ProviderReturns, ProviderFails,
              ClosePaymentSession, ExpireSessionOnRead, CustomerPays, SessionFallsDue
<1> QED BY <1>1, <1>2

LEMMA PaidRowKeeps ==
    ASSUME TypeOK, NEW o \in Orders, NEW method, Exists(o)
    PROVE  PaidRow(o, method).status # "none" /\ PaidRow(o, method).released = orders[o].released
BY DEF PaidRow, TypeOK, OrderRow, Exists

LEMMA SessionStepReservations ==
    ASSUME ReservationInv, TypeOK', NEW s \in Sessions, SessionStep(s)
    PROVE  ReservationInv' /\ OrdersKept
<1> USE DEF ReservationInv
<1>1. NothingNewReserved
  BY SessionStepOrders DEF NothingNewReserved
<1>2. OrdersKept
  <2>1. CASE UNCHANGED orders
    BY <2>1 DEF OrdersKept, Exists
  <2>2. ASSUME NEW o \in Orders, AcceptsPayment(o),
               orders' = [orders EXCEPT ![o] = PaidRow(o, sessions[s].channel)]
        PROVE  OrdersKept
    <3>1. /\ PaidRow(o, sessions[s].channel).status # "none"
          /\ PaidRow(o, sessions[s].channel).released = orders[o].released
      BY <2>2, PaidRowKeeps DEF AcceptsPayment
    <3>2. Exists(o)
      BY <2>2 DEF AcceptsPayment
    <3> QED BY <2>2, <3>1, <3>2 DEF OrdersKept, Exists, TypeOK
  <2> QED BY <2>1, <2>2, SessionStepOrders
<1> QED BY <1>1, <1>2, KeptReservations

LEMMA ReservationStep ==
    ReservationInv /\ [Next]_vars => ReservationInv'
<1> SUFFICES ASSUME ReservationInv, [Next]_vars PROVE ReservationInv'
  OBVIOUS
<1>1. TypeOK'
  BY TypeStep DEF ReservationInv
<1>2. ASSUME NEW u \in Units, UnitStep(u) PROVE ReservationInv'
  <2>1. OrdersKept
    BY <1>2 DEF UnitStep, AdminDisableUnit, AdminEnableUnit, UnitLapses, OrdersKept, Exists
  <2>2. NothingNewReserved
    BY <1>2 DEF UnitStep, AdminDisableUnit, AdminEnableUnit, UnitLapses, NothingNewReserved,
                ReservationInv, TypeOK, UnitRow
  <2> QED BY <1>1, <2>1, <2>2, KeptReservations
<1>3. CASE UNCHANGED vars
  <2>1. OrdersKept /\ NothingNewReserved
    BY <1>3 DEF vars, OrdersKept, NothingNewReserved, Exists
  <2> QED BY <1>1, <2>1, KeptReservations
<1> QED BY <1>1, <1>2, <1>3, OrderStepReservations, SessionStepReservations DEF Next

LEMMA InitReservations == Init => ReservationInv
<1> SUFFICES ASSUME Init PROVE ReservationInv
  OBVIOUS
<1>1. TypeOK
  BY InitTypes
<1>2. NoLeakedReservation
  BY DEF Init, NoLeakedReservation
<1>3. FreshUnreleased
  BY DEF Init, FreshUnreleased
<1> QED BY <1>1, <1>2, <1>3 DEF ReservationInv

(* A reserved unit always belongs to an existing order that still holds    *)
(* its reservation, under every admin update: release, cancellation,       *)
(* expiry and delivery leave no orphan behind.                             *)
THEOREM ReservationsNotLeaked == Spec => []NoLeakedReservation
<1>1. Init => ReservationInv
  BY InitReservations
<1>2. ReservationInv /\ [Next]_vars => ReservationInv'
  BY ReservationStep
<1>3. ReservationInv => NoLeakedReservation
  BY DEF ReservationInv
<1> QED BY <1>1, <1>2, <1>3, PTL DEF Spec

-----------------------------------------------------------------------------
(* What was delivered stays delivered.                                     *)

LEMMA DeliveredStep ==
    ASSUME TypeOK, [Next]_vars, NEW u \in Units, units[u].state = "delivered"
    PROVE  units'[u].state = "delivered" /\ units'[u].owner = units[u].owner
<1>1. ASSUME NEW o \in Orders, ReleaseGoods(o) PROVE units'[u] = units[u]
  BY <1>1 DEF ReleaseGoods, FreedUnits, UnitsIn
<1>2. ASSUME NEW o \in Orders, OrderStep(o)
      PROVE  units'[u] = units[u]
  <2>1. ASSUME NEW method \in Channels \cup {"balance"}, CreateOrder(o, method)
        PROVE  units'[u] = units[u]
    BY <2>1 DEF CreateOrder, ReserveUnits, Reservable
  <2>2. CASE CancelUnpaidOrder(o) \/ ExpireUnpaidOrder(o)
    BY <1>1, <2>2 DEF CancelUnpaidOrder, ExpireUnpaidOrder
  <2>3. CASE DeliverAutoOrder(o)
    BY <2>3 DEF DeliverAutoOrder, DeliverableUnits, UnitsIn
  <2>4. ASSUME NEW move \in AdminMoves, AdminUpdateOrderStatus(o, move)
        PROVE  units'[u] = units[u]
    BY <1>1, <2>4 DEF AdminUpdateOrderStatus
  <2>5. CASE PayOrderWithBalance(o) \/ RefreshManualOrder(o) \/ AdminDeliverManual(o)
             \/ OrderFallsDue(o)
    BY <2>5 DEF PayOrderWithBalance, RefreshManualOrder, AdminDeliverManual, OrderFallsDue
  <2> QED BY <1>2, <2>1, <2>2, <2>3, <2>4, <2>5 DEF OrderStep
<1>3. ASSUME NEW s \in Sessions, SessionStep(s)
      PROVE  units'[u] = units[u]
  BY <1>3, SessionStepOrders
<1>4. ASSUME NEW v \in Units, UnitStep(v)
      PROVE  units'[u].state = "delivered" /\ units'[u].owner = units[u].owner
  BY <1>4 DEF UnitStep, AdminDisableUnit, AdminEnableUnit, UnitLapses, TypeOK, UnitRow
<1>5. CASE UNCHANGED vars
  BY <1>5 DEF vars
<1> QED BY <1>2, <1>3, <1>4, <1>5 DEF Next

(* Goods handed to a customer are never released, disabled or given to     *)
(* another order.                                                          *)
THEOREM DeliveredIsFinal == Spec => DeliveredUnitIsFinal
<1>1. TypeOK /\ [Next]_vars =>
        [\A u \in Units : units[u].state = "delivered" =>
           units'[u].state = "delivered" /\ units'[u].owner = units[u].owner]_vars
  BY DeliveredStep
<1> QED BY <1>1, TypeCorrect, PTL DEF Spec, DeliveredUnitIsFinal
=============================================================================
