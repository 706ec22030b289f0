--------------------------- MODULE OrderLifecycle ---------------------------
(***************************************************************************)
(* Orders, the inventory they reserve, the gateway payment sessions opened *)
(* for them and the account balance that may pay them.                     *)
(*                                                                         *)
(* Every action below is one SECURITY DEFINER function of                  *)
(* src/supabase/migrations (a transaction that takes the order row FOR     *)
(* UPDATE first, hence atomic), or one step of the TypeScript service that *)
(* opens a payment session, which reads, calls a provider and writes in    *)
(* separate requests.  An order has one item: create_order_with_item is    *)
(* the only function that inserts order_items, and it inserts one.         *)
(*                                                                         *)
(* Time is abstracted to what the guards compare: an order or a session is *)
(* before or past its deadline (due), a unit's expires_at is absent, ahead *)
(* or behind.  One unit of goods costs one unit of money.                  *)
(***************************************************************************)
EXTENDS Integers, FiniteSets, Totals

CONSTANTS
    Orders,        \* order ids the customer may create
    AutoOrders,    \* those for a product delivered from digital_inventory
    Qty,           \* order_items.quantity of each order
    Units,         \* digital_inventory rows of the one automatic product
    DatedUnits,    \* the rows that carry an expires_at
    Sessions,      \* payment sessions the customer may open
    Channels,      \* gateway channels
    SnpayChannels, \* the channels served by the snpay provider
    InitStock,     \* products.stock of the one manual product
    InitBalance,   \* profiles.balance of the customer
    AdminMoves,    \* [to, pay] pairs administrators submit; pay may be Keep
    Keep,          \* p_payment_status null: payment status unchanged
    NoOrder        \* order_id null

ManualOrders == Orders \ AutoOrders

ASSUME OrdersAssumption ==
    /\ IsFiniteSet(Orders)
    /\ AutoOrders \subseteq Orders
    /\ Qty \in [Orders -> Nat \ {0}]
    /\ NoOrder \notin Orders

ASSUME InventoryAssumption ==
    /\ IsFiniteSet(Units)
    /\ DatedUnits \subseteq Units
    /\ InitStock \in Nat

ASSUME PaymentAssumption ==
    /\ IsFiniteSet(Sessions)
    /\ SnpayChannels \subseteq Channels
    /\ "balance" \notin Channels
    /\ InitBalance \in Nat

OrderStatuses == {"none", "pending_payment", "paid", "processing", "delivered",
                  "completed", "cancelled", "expired", "refunded", "failed"}
PayStatuses == {"unpaid", "paid", "failed", "refunded", "partially_refunded"}

ASSUME AdminMovesAssumption ==
    AdminMoves \subseteq
      [to : OrderStatuses \ {"none", "paid"}, pay : (PayStatuses \ {"paid"}) \cup {Keep}]

VARIABLES
    orders,    \* public.orders with its item
    units,     \* public.digital_inventory
    stock,     \* public.products.stock
    sessions,  \* public.payment_sessions, with the request that opens each
    balance,   \* public.profiles.balance
    debits     \* orders with a completed order_payment balance transaction

vars == <<orders, units, stock, sessions, balance, debits>>

-----------------------------------------------------------------------------
(* State.                                                                  *)

ItemStatuses == {"pending", "processing", "delivered", "failed"}
UnitStates == {"available", "reserved", "delivered", "disabled"}
SessionStatuses == {"none", "pending", "processing", "paid", "failed",
                    "expired", "closed"}

OrderRow ==
    [status    : OrderStatuses,
     pay       : PayStatuses,
     released  : BOOLEAN,                  \* reservation_released_at not null
     due       : BOOLEAN,                  \* payment_expires_at has passed
     method    : Channels \cup {"balance"},
     item      : ItemStatuses,             \* order_items.delivery_status
     failedRow : BOOLEAN,                  \* a 'failed' order_deliveries row
     handed    : BOOLEAN]                  \* a manual 'delivered' row

UnitRow ==
    [state  : UnitStates,
     owner  : Orders \cup {NoOrder},       \* coalesce(reserved_order_id, order_id)
     expiry : {"none", "future", "past"}]

SessionRow ==
    [status  : SessionStatuses,
     order   : Orders \cup {NoOrder},
     channel : Channels,
     due     : BOOLEAN,                    \* expires_at has passed
     url     : BOOLEAN,                    \* payment_url was handed out
     paid    : {"no", "intime", "late"},   \* what the provider recorded
     at      : Nat,                        \* position in created_at order
     pc      : {"idle", "checked", "calling", "done"}]

TypeOK ==
    /\ orders \in [Orders -> OrderRow]
    /\ units \in [Units -> UnitRow]
    /\ stock \in Nat
    /\ sessions \in [Sessions -> SessionRow]
    /\ balance \in Nat
    /\ debits \subseteq Orders

Init ==
    /\ orders \in [Orders -> {[status |-> "none", pay |-> "unpaid",
                               released |-> FALSE, due |-> FALSE,
                               method |-> "balance", item |-> "pending",
                               failedRow |-> FALSE, handed |-> FALSE]}]
    /\ units = [u \in Units |->
                  [state |-> "available", owner |-> NoOrder,
                   expiry |-> IF u \in DatedUnits THEN "future" ELSE "none"]]
    /\ stock = InitStock
    /\ sessions \in [Sessions -> {[status |-> "none", order |-> NoOrder,
                                   channel |-> c, due |-> FALSE, url |-> FALSE,
                                   paid |-> "no", at |-> 0, pc |-> "idle"]
                                  : c \in Channels}]
    /\ balance = InitBalance
    /\ debits = {}

(* Statuses in which an order takes neither money nor deliveries. *)
Halted == {"cancelled", "expired", "refunded", "failed"}
(* Statuses release_order_inventory refuses. *)
Secured == {"paid", "processing", "delivered", "completed", "refunded"}
ActiveSession == {"pending", "processing"}

Exists(o) == orders[o].status # "none"
SessionsOf(o) == {s \in Sessions : sessions[s].status # "none" /\ sessions[s].order = o}
HasPaidSession(o) == \E s \in SessionsOf(o) : sessions[s].status = "paid"
UnitsIn(o, state) == {u \in Units : units[u].owner = o /\ units[u].state = state}

-----------------------------------------------------------------------------
(* create_order_with_item.                                                 *)

InStock(o) == stock >= Qty[o]

Reservable(u) == units[u].state = "available" /\ units[u].expiry # "past"

ReserveUnits(o, picked) ==
    units' = [u \in Units |->
                IF u \in picked
                THEN [units[u] EXCEPT !.state = "reserved", !.owner = o]
                ELSE units[u]]

(* A repeated client_request_id returns the order it made before, so an    *)
(* order id is created once.                                               *)
CreateOrder(o, method) ==
    /\ ~Exists(o)
    /\ orders' = [orders EXCEPT ![o] =
                    [orders[o] EXCEPT !.status = "pending_payment", !.method = method]]
    /\ \/ /\ o \in AutoOrders
          /\ \E picked \in SUBSET {u \in Units : Reservable(u)} :
               /\ Cardinality(picked) = Qty[o]
               /\ ReserveUnits(o, picked)
          /\ UNCHANGED stock
       \/ /\ o \in ManualOrders
          /\ InStock(o)
          /\ stock' = stock - Qty[o]
          /\ UNCHANGED units
    /\ UNCHANGED <<sessions, balance, debits>>

-----------------------------------------------------------------------------
(* release_order_inventory, called inside cancel, expire and admin update. *)

(* Variant: no check of reservation_released_at. *)
ReleasableAgain(o) ==
    /\ orders[o].pay # "paid"
    /\ orders[o].status \notin Secured

Releasable(o) ==
    /\ ~orders[o].released
    /\ orders[o].pay # "paid"
    /\ orders[o].status \notin Secured

FreeUnit(u) == [units[u] EXCEPT !.state = "available", !.owner = NoOrder,
                                !.expiry = "none"]

FreedUnits(o) == UnitsIn(o, "reserved")

ReleaseGoods(o) ==
    IF Releasable(o)
    THEN /\ units' = [u \in Units |->
                        IF u \in FreedUnits(o) THEN FreeUnit(u) ELSE units[u]]
         /\ stock' = IF o \in ManualOrders /\ ~orders[o].handed
                     THEN stock + Qty[o] ELSE stock
    ELSE UNCHANGED <<units, stock>>

(* Variants: the mark is never set, or set by a refused release. *)
NeverMarkedReleased(o) == orders[o].released
AlwaysMarkedReleased(o) == TRUE

ReleasedAfter(o) == orders[o].released \/ Releasable(o)

(* The sessions of o whose status is in from move to status to. *)
MoveSessions(o, from, to) ==
    sessions' = [s \in Sessions |->
                   IF s \in SessionsOf(o) /\ sessions[s].status \in from
                   THEN [sessions[s] EXCEPT !.status = to] ELSE sessions[s]]

-----------------------------------------------------------------------------
(* cancel_unpaid_order and expire_unpaid_order.                            *)

Cancellable(o) ==
    /\ orders[o].status = "pending_payment"
    /\ orders[o].pay = "unpaid"
    /\ ~HasPaidSession(o)

CancelUnpaidOrder(o) ==
    /\ Cancellable(o)
    /\ ReleaseGoods(o)
    /\ MoveSessions(o, {"pending", "processing", "failed"}, "closed")
    /\ orders' = [orders EXCEPT ![o] =
                    [orders[o] EXCEPT !.status = "cancelled", !.released = ReleasedAfter(o)]]
    /\ UNCHANGED <<balance, debits>>

(* Variant: an order with an open session is skipped. *)
ExpirableWhenIdle(o) ==
    /\ Exists(o)
    /\ orders[o].pay # "paid"
    /\ orders[o].status \notin Secured \cup {"expired", "cancelled"}
    /\ orders[o].due
    /\ \A s \in SessionsOf(o) : sessions[s].status \notin ActiveSession

Expirable(o) ==
    /\ Exists(o)
    /\ orders[o].pay # "paid"
    /\ orders[o].status \notin Secured \cup {"expired", "cancelled"}
    /\ orders[o].due
    /\ ~HasPaidSession(o)

(* Only a pending_payment order becomes expired; an order an administrator *)
(* marked failed keeps its status (STATE_CHANGED) but its goods go back.   *)
ExpiredRow(o) ==
    LET row == [orders[o] EXCEPT !.released = ReleasedAfter(o)] IN
    IF row.status = "pending_payment"
    THEN [row EXCEPT !.status = "expired",
                     !.pay = IF @ = "unpaid" THEN "failed" ELSE @]
    ELSE row

ExpireUnpaidOrder(o) ==
    /\ Expirable(o)
    /\ ReleaseGoods(o)
    /\ MoveSessions(o, ActiveSession, "expired")
    /\ orders' = [orders EXCEPT ![o] = ExpiredRow(o)]
    /\ UNCHANGED <<balance, debits>>

(* What the five-minute scan lists. *)
ListedForExpiry(o) ==
    /\ orders[o].status = "pending_payment"
    /\ orders[o].pay = "unpaid"
    /\ ~orders[o].released
    /\ orders[o].due

ExpireListedOrder(o) == ListedForExpiry(o) /\ ExpireUnpaidOrder(o)

-----------------------------------------------------------------------------
(* createPaymentSession, in three requests; other requests run in between. *)

CanOpenSession(o) ==
    /\ Exists(o)
    /\ orders[o].pay # "paid"
    /\ orders[o].status \notin Halted \cup {"paid"}

OnChannel(o, c) == {s \in SessionsOf(o) : sessions[s].channel = c}
LatestOnChannel(o, c) ==
    {s \in OnChannel(o, c) : \A t \in OnChannel(o, c) : sessions[t].at <= sessions[s].at}

(* Reads the order and its sessions: no session to reuse, and the latest   *)
(* one of this channel has not run out.                                    *)
BeginSession(s, o) ==
    LET channel == sessions[s].channel IN
    /\ sessions[s].pc = "idle"
    /\ CanOpenSession(o)
    /\ \A t \in OnChannel(o, channel) :
         ~(sessions[t].status \in ActiveSession /\ ~sessions[t].due)
    /\ \A t \in LatestOnChannel(o, channel) :
         ~(sessions[t].status = "expired" \/ sessions[t].due)
    /\ sessions' = [sessions EXCEPT ![s] = [sessions[s] EXCEPT !.order = o, !.pc = "checked"]]
    /\ UNCHANGED <<orders, units, stock, balance, debits>>

(* reserve_payment_session: stale sessions expire, a live one is returned  *)
(* instead of inserting; the order's own status is not read again.         *)
StaleSessions(o) ==
    {t \in SessionsOf(o) : sessions[t].status \in ActiveSession /\ sessions[t].due}
(* Variant: a session still being set up does not count. *)
InitialisedSessions(o) ==
    {t \in SessionsOf(o) : sessions[t].status = "pending" /\ ~sessions[t].due}

LiveSessions(o) ==
    {t \in SessionsOf(o) : sessions[t].status \in ActiveSession /\ ~sessions[t].due}
NextPosition == Cardinality({t \in Sessions : sessions[t].status # "none"}) + 1

ReserveSession(s) ==
    LET o == sessions[s].order
        expired == [t \in Sessions |->
                      IF t \in StaleSessions(o)
                      THEN [sessions[t] EXCEPT !.status = "expired"] ELSE sessions[t]]
    IN
    /\ sessions[s].pc = "checked"
    /\ sessions' =
         IF LiveSessions(o) = {}
         THEN [expired EXCEPT ![s] = [sessions[s] EXCEPT
                 !.status = "processing", !.pc = "calling", !.at = NextPosition]]
         ELSE [expired EXCEPT ![s] = [sessions[s] EXCEPT
                 !.order = NoOrder, !.pc = "done"]]
    /\ UNCHANGED <<orders, units, stock, balance, debits>>

(* The catch block of createPaymentSession. *)
FailUnlessPaid(s) ==
    sessions' = [sessions EXCEPT ![s] = [sessions[s] EXCEPT
                   !.pc = "done", !.status = IF @ = "paid" THEN "paid" ELSE "failed"]]

(* The provider answers; the write-back matches only an active row, and    *)
(* .single() turns a write that matched nothing into the catch block.      *)
ProviderReturns(s, status) ==
    /\ sessions[s].pc = "calling"
    /\ IF sessions[s].status \in ActiveSession
       THEN sessions' = [sessions EXCEPT ![s] = [sessions[s] EXCEPT
                          !.status = status, !.url = TRUE, !.pc = "done"]]
       ELSE FailUnlessPaid(s)
    /\ UNCHANGED <<orders, units, stock, balance, debits>>

ProviderFails(s) ==
    /\ sessions[s].pc = "calling"
    /\ FailUnlessPaid(s)
    /\ UNCHANGED <<orders, units, stock, balance, debits>>

(* Variant: the write is not restricted to unpaid sessions. *)
CloseAnySession(s) ==
    /\ sessions[s].status \notin {"none", "closed", "expired"}
    /\ sessions' = [sessions EXCEPT ![s].status = "closed"]
    /\ UNCHANGED <<orders, units, stock, balance, debits>>

ClosePaymentSession(s) ==
    /\ sessions[s].status \in {"pending", "processing", "failed"}
    /\ sessions' = [sessions EXCEPT ![s].status = "closed"]
    /\ UNCHANGED <<orders, units, stock, balance, debits>>

(* getPaymentSessionStatus expires what it finds past its deadline. *)
ExpireSessionOnRead(s) ==
    /\ sessions[s].status \in ActiveSession
    /\ sessions[s].due
    /\ sessions' = [sessions EXCEPT ![s].status = "expired"]
    /\ UNCHANGED <<orders, units, stock, balance, debits>>

-----------------------------------------------------------------------------
(* Payment.                                                                *)

(* The customer pays at the provider through a URL handed out earlier,     *)
(* whatever became of the session here.                                    *)
CustomerPays(s) ==
    /\ sessions[s].url
    /\ sessions[s].paid = "no"
    /\ sessions' = [sessions EXCEPT ![s].paid =
                      IF orders[sessions[s].order].due THEN "late" ELSE "intime"]
    /\ UNCHANGED <<orders, units, stock, balance, debits>>

(* Variants: a paid order, or a halted one, is paid again. *)
AcceptsSecondPayment(o) ==
    /\ Exists(o)
    /\ orders[o].status \notin Halted
AcceptsWhenHalted(o) ==
    /\ Exists(o)
    /\ orders[o].pay # "paid"

(* complete_order_payment. *)
AcceptsPayment(o) ==
    /\ Exists(o)
    /\ orders[o].pay # "paid"
    /\ orders[o].status \notin Halted

PaidRow(o, method) ==
    [orders[o] EXCEPT !.pay = "paid", !.method = method,
                      !.status = IF @ = "pending_payment" THEN "paid" ELSE @]

(* The boundary 20261009180000 adds for the snpay provider alone. *)
SnpayBoundary(s, o) ==
    sessions[s].channel \in SnpayChannels =>
      /\ orders[o].status = "pending_payment"
      /\ orders[o].pay = "unpaid"
      /\ ~orders[o].released
      /\ sessions[s].paid = "intime"
      /\ sessions[s].channel = orders[o].method

(* complete_payment_session, for a callback with verified evidence; a      *)
(* refused one rolls back and changes nothing.                             *)
SessionCompletable(s) == sessions[s].status \in ActiveSession

CompletePaymentSession(s) ==
    LET o == sessions[s].order IN
    /\ sessions[s].paid # "no"
    /\ SessionCompletable(s)
    /\ AcceptsPayment(o)
    /\ SnpayBoundary(s, o)
    /\ orders' = [orders EXCEPT ![o] = PaidRow(o, sessions[s].channel)]
    /\ sessions' = [sessions EXCEPT ![s].status = "paid"]
    /\ UNCHANGED <<units, stock, balance, debits>>

(* Variant: no unique balance transaction. *)
BalancePayableAgain(o) ==
    /\ orders[o].method = "balance"
    /\ AcceptsPayment(o)
    /\ balance >= Qty[o]

(* Variant: the balance is not compared with the price. *)
BalancePayableOnCredit(o) ==
    /\ orders[o].method = "balance"
    /\ AcceptsPayment(o)
    /\ o \notin debits

(* pay_order_with_balance: the unique balance transaction of the order     *)
(* makes a second debit roll back.                                         *)
BalancePayable(o) ==
    /\ orders[o].method = "balance"
    /\ AcceptsPayment(o)
    /\ o \notin debits
    /\ balance >= Qty[o]

PayOrderWithBalance(o) ==
    /\ BalancePayable(o)
    /\ balance' = balance - Qty[o]
    /\ debits' = debits \cup {o}
    /\ orders' = [orders EXCEPT ![o] = PaidRow(o, "balance")]
    /\ UNCHANGED <<units, stock, sessions>>

-----------------------------------------------------------------------------
(* Delivery.                                                               *)

(* refresh_order_fulfillment_status, applied to row with n delivered rows. *)
RefreshedItem(row, n, quantity) ==
    IF row.failedRow THEN "failed"
    ELSE IF n >= quantity THEN "delivered"
    ELSE IF n > 0 THEN "processing"
    ELSE row.item

RefreshedStatus(row) ==
    IF row.status \in Halted \cup {"completed"} THEN row.status
    ELSE IF row.item = "delivered" THEN "delivered"
    ELSE IF row.pay = "paid" /\ row.item \in {"processing", "failed"} THEN "processing"
    ELSE row.status

Refresh(row, n, quantity) ==
    LET seen == [row EXCEPT !.item = RefreshedItem(row, n, quantity)]
    IN  [seen EXCEPT !.status = RefreshedStatus(seen)]

Deliverable(o) ==
    /\ Exists(o)
    /\ orders[o].pay = "paid"
    /\ orders[o].status \notin Halted

Remaining(o) == Qty[o] - Cardinality(UnitsIn(o, "delivered"))

(* Variant: the reservation's owner is not compared. *)
AnyReservedUnits(o) ==
    {u \in Units : units[u].state = "reserved" /\ units[u].expiry # "past"}

(* The reserved rows of the order a delivery may take. *)
DeliverableUnits(o) == {u \in UnitsIn(o, "reserved") : units[u].expiry # "past"}

(* Rows another transaction has locked (admin_transition_local_inventory   *)
(* locks whatever it is asked about) are skipped, so any of the rows that  *)
(* may be taken, up to the quantity, are.                                  *)
DeliverAutoOrder(o) ==
    /\ o \in AutoOrders
    /\ Deliverable(o)
    /\ \E taken \in SUBSET DeliverableUnits(o) :
         LET short == Cardinality(taken) < Remaining(o)
             row == IF Remaining(o) <= 0 THEN orders[o]
                    ELSE [orders[o] EXCEPT !.item = IF short THEN "failed" ELSE "processing",
                                           !.failedRow = @ \/ short]
         IN
         /\ Cardinality(taken) <= Remaining(o)
         /\ units' = [u \in Units |->
                        IF u \in taken THEN [units[u] EXCEPT !.state = "delivered", !.owner = o]
                        ELSE units[u]]
         /\ orders' = [orders EXCEPT ![o] =
                         Refresh(row, Qty[o] - Remaining(o) + Cardinality(taken), Qty[o])]
    /\ UNCHANGED <<stock, sessions, balance, debits>>

(* deliver_digital_order on an order without automatic items only          *)
(* refreshes it.                                                           *)
RefreshManualOrder(o) ==
    /\ o \in ManualOrders
    /\ Deliverable(o)
    /\ orders' = [orders EXCEPT ![o] =
                    Refresh(orders[o], IF orders[o].handed THEN 1 ELSE 0, Qty[o])]
    /\ UNCHANGED <<units, stock, sessions, balance, debits>>

(* admin_deliver_order_item_manual inserts one delivered row, marks the    *)
(* whole item delivered, and then refreshes the order from the rows.       *)
AdminDeliverManual(o) ==
    /\ o \in ManualOrders
    /\ Deliverable(o)
    /\ orders[o].item # "delivered"
    /\ ~orders[o].handed
    /\ orders' = [orders EXCEPT ![o] =
                    Refresh([orders[o] EXCEPT !.item = "delivered", !.handed = TRUE],
                            1, Qty[o])]
    /\ UNCHANGED <<units, stock, sessions, balance, debits>>

-----------------------------------------------------------------------------
(* Administration.                                                         *)

(* admin_update_order_status: no check of the status the order has; a      *)
(* refused release does not stop the update.                               *)
AdminUpdateOrderStatus(o, move) ==
    /\ Exists(o)
    /\ IF move.to \in {"cancelled", "expired"}
       THEN ReleaseGoods(o) ELSE UNCHANGED <<units, stock>>
    /\ orders' = [orders EXCEPT ![o] =
                    [orders[o] EXCEPT
                       !.status = move.to,
                       !.pay = IF move.pay = Keep THEN orders[o].pay ELSE move.pay,
                       !.released = IF move.to \in {"cancelled", "expired"}
                                    THEN ReleasedAfter(o) ELSE orders[o].released]]
    /\ UNCHANGED <<sessions, balance, debits>>

(* admin_transition_local_inventory on one row. *)
AdminDisableUnit(u) ==
    /\ units[u].state = "available"
    /\ units[u].owner = NoOrder
    /\ units' = [units EXCEPT ![u].state = "disabled"]
    /\ UNCHANGED <<orders, stock, sessions, balance, debits>>

AdminEnableUnit(u) ==
    /\ units[u].state = "disabled"
    /\ units[u].owner = NoOrder
    /\ units[u].expiry # "past"
    /\ units' = [units EXCEPT ![u].state = "available"]
    /\ UNCHANGED <<orders, stock, sessions, balance, debits>>

-----------------------------------------------------------------------------
(* The passage of time.  Every deadline is fifteen minutes after its row   *)
(* was created, so a session outlives the order it was opened for.         *)

OrderFallsDue(o) ==
    /\ Exists(o)
    /\ ~orders[o].due
    /\ orders' = [orders EXCEPT ![o].due = TRUE]
    /\ UNCHANGED <<units, stock, sessions, balance, debits>>

SessionFallsDue(s) ==
    /\ sessions[s].status # "none"
    /\ orders[sessions[s].order].due
    /\ \A t \in Sessions :
         sessions[t].status # "none" /\ sessions[t].at < sessions[s].at => sessions[t].due
    /\ ~sessions[s].due
    /\ sessions' = [sessions EXCEPT ![s].due = TRUE]
    /\ UNCHANGED <<orders, units, stock, balance, debits>>

UnitLapses(u) ==
    /\ units[u].expiry = "future"
    /\ units' = [units EXCEPT ![u].expiry = "past"]
    /\ UNCHANGED <<orders, stock, sessions, balance, debits>>

-----------------------------------------------------------------------------
OrderStep(o) ==
    \/ \E method \in Channels \cup {"balance"} : CreateOrder(o, method)
    \/ CancelUnpaidOrder(o)
    \/ ExpireUnpaidOrder(o)
    \/ PayOrderWithBalance(o)
    \/ DeliverAutoOrder(o)
    \/ RefreshManualOrder(o)
    \/ AdminDeliverManual(o)
    \/ \E move \in AdminMoves : AdminUpdateOrderStatus(o, move)
    \/ OrderFallsDue(o)

SessionStep(s) ==
    \/ \E o \in Orders : BeginSession(s, o)
    \/ ReserveSession(s)
    \/ \E status \in ActiveSession : ProviderReturns(s, status)
    \/ ProviderFails(s)
    \/ ClosePaymentSession(s)
    \/ ExpireSessionOnRead(s)
    \/ CustomerPays(s)
    \/ CompletePaymentSession(s)
    \/ SessionFallsDue(s)

UnitStep(u) ==
    \/ AdminDisableUnit(u)
    \/ AdminEnableUnit(u)
    \/ UnitLapses(u)

Next ==
    \/ \E o \in Orders : OrderStep(o)
    \/ \E s \in Sessions : SessionStep(s)
    \/ \E u \in Units : UnitStep(u)

Spec == Init /\ [][Next]_vars

(* pg_cron posts to the expiry endpoint every five minutes, oldest         *)
(* deadline first, so every listed order is reached.                       *)
FairSpec == Spec /\ \A o \in Orders : WF_vars(ExpireListedOrder(o))
-----------------------------------------------------------------------------
(* What must hold whatever administrators submit.                          *)

(* A reserved row belongs to an order that exists and has not given its    *)
(* reservation back: release, delivery and admin transitions never leave a *)
(* unit reserved for an order that no code path will visit again.          *)
NoLeakedReservation ==
    \A u \in Units : units[u].state = "reserved" =>
      /\ units[u].owner \in AutoOrders
      /\ Exists(units[u].owner)
      /\ ~orders[units[u].owner].released

(* Until it releases its reservation an automatic order holds exactly its  *)
(* quantity, as reserved and delivered rows together, through partial      *)
(* deliveries, retries, skipped locks and refused releases.                *)
ReservationMatchesOrder ==
    \A o \in AutoOrders :
      LET held == Cardinality(UnitsIn(o, "reserved"))
          gone == Cardinality(UnitsIn(o, "delivered"))
      IN  /\ Exists(o) /\ ~orders[o].released => held + gone = Qty[o]
          /\ gone <= Qty[o]

(* A delivered unit is never released, resold or moved to another order.   *)
DeliveredUnitIsFinal ==
    [][\A u \in Units : units[u].state = "delivered" =>
         units'[u].state = "delivered" /\ units'[u].owner = units[u].owner]_vars

(* At most one session of an order can still be paid for: the partial      *)
(* unique index payment_sessions_active_business_unique, kept by the       *)
(* reservation, the stale-session sweep and the late provider write-back.  *)
OneActiveSession ==
    \A o \in Orders : \A s, t \in SessionsOf(o) :
      sessions[s].status \in ActiveSession /\ sessions[t].status \in ActiveSession => s = t

(* A paid session is never failed, closed or expired by a request that     *)
(* read it earlier.                                                        *)
PaidSessionIsFinal ==
    [][\A s \in Sessions : sessions[s].status = "paid" => sessions'[s].status = "paid"]_vars

(* Every unit of money that left the balance is accounted for by one       *)
(* order_payment transaction, whatever happens to the order afterwards.    *)
BalanceMatchesDebits ==
    balance + Total(Qty, debits) = InitBalance

-----------------------------------------------------------------------------
(* What must hold when administrators only halt orders: no update moves an *)
(* order from a halted status back to one that takes payments.             *)

NoReopening == \A move \in AdminMoves : move.to \in Halted

(* Payments collected for o inside the shop. *)
PaidSessions(o) == {s \in SessionsOf(o) : sessions[s].status = "paid"}
Collected(o) == Cardinality(PaidSessions(o)) + (IF o \in debits THEN 1 ELSE 0)

(* The customer pays for an order at most once, whichever of the balance   *)
(* and the sessions come first, and a paid order was paid for.             *)
CollectedOnce ==
    NoReopening => \A o \in Orders :
      /\ Collected(o) <= 1
      /\ orders[o].pay = "paid" => Collected(o) = 1

(* The goods of a paid order were never given back: a payment that lands   *)
(* after the release is refused.                                           *)
PaidOrderKeepsGoods ==
    NoReopening => \A o \in Orders : orders[o].pay = "paid" => ~orders[o].released

(* No oversell and no lost stock: what is on the shelf plus what orders    *)
(* hold or have received is what there was at the start.                   *)
HoldsStock(o) ==
    /\ o \in ManualOrders
    /\ Exists(o)
    /\ ~orders[o].released \/ orders[o].handed

StockConserved ==
    NoReopening =>
      stock + Total(Qty, {o \in Orders : HoldsStock(o)}) = InitStock

(* A halted order stays halted and takes no money any more.                *)
HaltedOrderTakesNoMoney ==
    [][NoReopening => \A o \in Orders : orders[o].status \in Halted =>
         /\ orders'[o].status \in Halted
         /\ Collected(o)' = Collected(o)]_vars

(* The goods side refines the abstract reservation: release, retry, admin  *)
(* moves and time never hand out, free or take a unit in any other way.    *)
Place == [available |-> "shelf", reserved |-> "held",
          delivered |-> "gone", disabled |-> "withdrawn"]

Abstract == INSTANCE Reservation WITH
    Nobody <- NoOrder,
    Need   <- [o \in Orders |-> IF o \in AutoOrders THEN Qty[o] ELSE 0],
    phase  <- [o \in Orders |-> IF orders[o].status = "none" THEN "fresh"
                                ELSE IF orders[o].released THEN "freed" ELSE "holding"],
    goods  <- [u \in Units |-> [place |-> Place[units[u].state], for |-> units[u].owner]]

ImplementsReservation == Abstract!Spec

(* Every listed order is expired, or was paid or cancelled first: its      *)
(* goods do not stay reserved for ever.                                    *)
DueOrderIsSettled ==
    \A o \in Orders :
      ListedForExpiry(o) ~> (orders[o].released \/ orders[o].pay = "paid")
=============================================================================
