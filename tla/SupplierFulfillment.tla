------------------------ MODULE SupplierFulfillment ------------------------
(***************************************************************************)
(* The delivery of an item that is bought from the supplier daju when its  *)
(* order has been paid: deliverDigitalOrder and reconcile_daju_order.      *)
(*                                                                         *)
(* A worker is a server process inside one of these calls.  It reserves    *)
(* and delivers local goods, loads the item, claims the one supplier       *)
(* request the item may have, purchases or queries, and records what it    *)
(* learnt: separate database transactions and HTTP requests, each an       *)
(* action.  Any number of workers are at it at once (payment callbacks,    *)
(* reconciliation, the administrator's retry), and each may die anywhere.  *)
(*                                                                         *)
(* The supplier is external: one request_id stands for one supplier order, *)
(* so the model has one upstream order per item.  A purchase that was sent *)
(* may reach it after its answer was given up.  Every order has one item   *)
(* and is paid.                                                            *)
(***************************************************************************)
EXTENDS Naturals, FiniteSets

CONSTANTS
    Items,       \* order items, each of an order of its own
    Qty,         \* order_items.quantity
    Units,       \* digital_inventory rows of the product
    Workers,     \* server processes
    ReadFaults,  \* how a GET that completes a purchase may fail
    NoItem       \* order_item_id null

ASSUME SupplierAssumption ==
    /\ Qty \in [Items -> Nat \ {0}]
    /\ IsFiniteSet(Units)
    /\ ReadFaults \subseteq {"lost", "limited"}
    /\ NoItem \notin Items

VARIABLES
    items,     \* orders with their order_items
    request,   \* supplier_fulfillment_requests
    units,     \* digital_inventory
    upstream,  \* the supplier's order for the item's request_id
    workers    \* the calls in progress

vars == <<items, request, units, upstream, workers>>

ItemRow ==
    [halted    : BOOLEAN,    \* order status cancelled, expired, refunded, failed
     status    : {"pending", "processing", "delivered", "failed"},
     failedRow : BOOLEAN,    \* a 'failed' order_deliveries row
     supplied  : BOOLEAN]    \* the 'supplier_delivery' order_deliveries row

Open == {"PURCHASING", "UNCERTAIN", "RECONCILIATION"}
Refused == {"FAILED", "NEEDS_INPUT", "FAILED_VALIDATION"}
Outcomes == {"PENDING", "FULFILLED", "UNCERTAIN", "RECONCILIATION"} \cup Refused

(* status "none": the item has no row.  The row's retryable is TRUE only   *)
(* with PENDING: no caller records another status with retryable.          *)
RequestRow ==
    [status : {"none", "PURCHASING"} \cup Outcomes,
     code   : BOOLEAN]       \* provider_order_code not null

UnitRow ==
    [state : {"available", "reserved", "delivered", "disabled"},
     owner : Items \cup {NoItem}]

Steps == {"idle", "local", "load", "claim", "product", "purchase", "sent",
          "read", "record"}

Worker ==
    [pc      : Steps,
     job     : {"deliver", "reconcile"},
     item    : Items \cup {NoItem},
     current : BOOLEAN,      \* holds the row's attempt_token
     outcome : Outcomes,     \* what it will record, with an order code or not
     code    : BOOLEAN]

TypeOK ==
    /\ items \in [Items -> ItemRow]
    /\ request \in [Items -> RequestRow]
    /\ units \in [Units -> UnitRow]
    /\ upstream \in [Items -> {"none", "asked", "accepted", "delivered"}]
    /\ workers \in [Workers -> Worker]

Idle == [pc |-> "idle", job |-> "deliver", item |-> NoItem, current |-> FALSE,
         outcome |-> "PENDING", code |-> FALSE]

Init ==
    /\ items = [i \in Items |-> [halted |-> FALSE, status |-> "pending",
                                 failedRow |-> FALSE, supplied |-> FALSE]]
    /\ request = [i \in Items |-> [status |-> "none", code |-> FALSE]]
    /\ units = [u \in Units |-> [state |-> "available", owner |-> NoItem]]
    /\ upstream = [i \in Items |-> "none"]
    /\ workers = [w \in Workers |-> Idle]

-----------------------------------------------------------------------------
(* Workers.                                                                *)

At(w, step) == workers[w].pc = step

Move(w, step) == workers' = [workers EXCEPT ![w].pc = step]

Stop(w) == workers' = [workers EXCEPT ![w] = Idle]

(* The worker has an answer and goes on to record it. *)
Conclude(w, outcome, code) ==
    workers' = [workers EXCEPT ![w] =
                  [workers[w] EXCEPT !.pc = "record", !.outcome = outcome, !.code = code]]

(* The process dies or the connection is cut; what it committed stays. *)
Crash(w) ==
    /\ ~At(w, "idle")
    /\ Stop(w)
    /\ UNCHANGED <<items, request, units, upstream>>

-----------------------------------------------------------------------------
(* Local goods first.                                                      *)

UnitsIn(i, state) == {u \in Units : units[u].owner = i /\ units[u].state = state}

Handed(i) == Cardinality(UnitsIn(i, "delivered"))

(* The 'delivered' rows of order_deliveries. *)
DeliveredRows(i) == Handed(i) + (IF items[i].supplied THEN 1 ELSE 0)

Remaining(i) == IF DeliveredRows(i) >= Qty[i] THEN 0 ELSE Qty[i] - DeliveredRows(i)

HasRequest(i) == request[i].status # "none"

(* Variant: only a request that brought the goods keeps the shelf closed. *)
NotFulfilled(i) == request[i].status # "FULFILLED"

(* Local goods may be given to an item that has no supplier request. *)
LocalAllowed(i) == ~HasRequest(i)

(* refresh_order_fulfillment_status for an item with n delivered rows. *)
Refreshed(row, n, quantity) ==
    [row EXCEPT !.status = IF row.failedRow THEN "failed"
                           ELSE IF n >= quantity THEN "delivered"
                           ELSE IF n > 0 THEN "processing"
                           ELSE row.status]

(* Variant: what the item has reserved is not counted. *)
NothingReserved(i) == 0

Reserved(i) == Cardinality(UnitsIn(i, "reserved"))

(* An item part of which was delivered or reserved is blocked. *)
Blocked(i) ==
    \/ 0 < DeliveredRows(i) /\ DeliveredRows(i) < Qty[i]
    \/ 0 < Remaining(i) /\ Reserved(i) \notin {0, Remaining(i)}

(* reserve_local_inventory_for_supplier_order: all the item needs or       *)
(* nothing.  It raises for a halted order.  Rows locked by others are      *)
(* skipped, so it may find too few where there are enough.                 *)
ReserveLocal(w, i) ==
    /\ At(w, "idle")
    /\ ~items[i].halted
    /\ items[i].status # "delivered" /\ LocalAllowed(i) => ~Blocked(i)
    /\ workers' = [workers EXCEPT ![w] = [Idle EXCEPT !.pc = "local", !.item = i]]
    /\ \/ UNCHANGED units
       \/ /\ items[i].status # "delivered"
          /\ LocalAllowed(i)
          /\ Reserved(i) = 0
          /\ \E picked \in SUBSET {u \in Units : units[u].state = "available"
                                                 /\ units[u].owner = NoItem} :
               /\ Cardinality(picked) = Remaining(i)
               /\ units' = [u \in Units |->
                              IF u \in picked THEN [state |-> "reserved", owner |-> i]
                              ELSE units[u]]
    /\ UNCHANGED <<items, request, upstream>>

(* deliver_digital_order takes a supplier item only if it has no supplier  *)
(* request and all that remains of it is reserved.  It skips locked rows,  *)
(* and the worker goes on to the supplier whatever it returned.            *)
DeliverLocal(w) ==
    LET i == workers[w].item IN
    /\ At(w, "local")
    /\ Move(w, "load")
    /\ IF items[i].halted THEN UNCHANGED <<items, units>>
       ELSE IF Remaining(i) > 0 /\ LocalAllowed(i) /\ Reserved(i) >= Remaining(i)
       THEN \E taken \in SUBSET UnitsIn(i, "reserved") :
              LET short == Cardinality(taken) < Remaining(i)
                  row == [items[i] EXCEPT !.status = IF short THEN "failed" ELSE "processing",
                                          !.failedRow = items[i].failedRow \/ short] IN
              /\ Cardinality(taken) <= Remaining(i)
              /\ units' = [u \in Units |->
                             IF u \in taken THEN [state |-> "delivered", owner |-> i]
                             ELSE units[u]]
              /\ items' = [items EXCEPT ![i] =
                             Refreshed(row, DeliveredRows(i) + Cardinality(taken), Qty[i])]
       ELSE /\ items' = [items EXCEPT ![i] = Refreshed(items[i], DeliveredRows(i), Qty[i])]
            /\ UNCHANGED units
    /\ UNCHANGED <<request, upstream>>

-----------------------------------------------------------------------------
(* The supplier request.                                                   *)

(* loadCandidates: nothing to do for a halted order or a delivered item.   *)
LoadCandidate(w) ==
    LET i == workers[w].item IN
    /\ At(w, "load")
    /\ IF items[i].halted \/ items[i].status = "delivered" THEN Stop(w) ELSE Move(w, "claim")
    /\ UNCHANGED <<items, request, units, upstream>>

(* reconcile_daju_order: the administrator names an existing supplier order. *)
StartReconcile(w, i) ==
    /\ At(w, "idle")
    /\ ~items[i].halted
    /\ items[i].status # "delivered"
    /\ workers' = [workers EXCEPT ![w] =
                     [Idle EXCEPT !.pc = "claim", !.job = "reconcile", !.item = i]]
    /\ UNCHANGED <<items, request, units, upstream>>

(* Variant: a purchase under way is claimed again. *)
Unfinished == {"none", "PENDING", "PURCHASING"}

(* The statuses in which a claim starts a purchase. *)
Claimable == {"none", "PENDING"}

(* A new attempt token makes the one every other worker holds stale. *)
ClaimPurchase(w, i) ==
    /\ request[i].status \in Claimable
    /\ request' = [request EXCEPT ![i].status = "PURCHASING"]
    /\ items' = [items EXCEPT ![i].status = IF items[i].status = "delivered" THEN "delivered"
                                            ELSE "processing"]
    /\ workers' = [v \in Workers |->
                     IF v # w
                     THEN IF workers[v].item = i THEN [workers[v] EXCEPT !.current = FALSE]
                          ELSE workers[v]
                     ELSE IF workers[w].job = "reconcile" THEN Idle
                     ELSE [workers[w] EXCEPT !.pc = "product", !.current = TRUE]]

(* Variant: a reconciliation also needs the code in the row. *)
KnownByCode(i, job) == request[i].status \in Open /\ request[i].code

(* Of an open request only the result is read: a delivery reads it by the  *)
(* code in the row, a reconciliation of a purchase without one by the code *)
(* the administrator gives.                                                *)
ClaimReading(i, job) ==
    IF job = "deliver" THEN request[i].status \in Open /\ request[i].code
    ELSE request[i].status = "PURCHASING" /\ ~request[i].code

ClaimOpen(w, i) ==
    /\ request[i].status \notin Claimable
    /\ IF ClaimReading(i, workers[w].job)
       THEN workers' = [workers EXCEPT ![w] =
                          [workers[w] EXCEPT !.pc = "read", !.current = TRUE]]
       ELSE Stop(w)
    /\ UNCHANGED <<items, request>>

(* claim_supplier_fulfillment with what its callers do on its answer: a    *)
(* reconciliation that is told to purchase gives up.                       *)
Claim(w) ==
    LET i == workers[w].item IN
    /\ At(w, "claim")
    /\ IF items[i].halted THEN Stop(w) /\ UNCHANGED <<items, request>>
       ELSE ClaimPurchase(w, i) \/ ClaimOpen(w, i)
    /\ UNCHANGED <<units, upstream>>

-----------------------------------------------------------------------------
(* The supplier's API.                                                     *)

(* getProduct and validateReadiness. *)
ReadProduct(w) ==
    /\ At(w, "product")
    /\ \/ \E outcome \in {"PENDING", "NEEDS_INPUT", "FAILED_VALIDATION"} :
            Conclude(w, outcome, FALSE)
       \/ Move(w, "purchase")
    /\ UNCHANGED <<items, request, units, upstream>>

(* POST /purchase with the item's request_id: if the supplier has an order *)
(* for it, that order answers.                                             *)
SendPurchase(w) ==
    LET i == workers[w].item IN
    /\ At(w, "purchase")
    /\ Move(w, "sent")
    /\ upstream' = [upstream EXCEPT ![i] = IF upstream[i] = "none" THEN "asked" ELSE upstream[i]]
    /\ UNCHANGED <<items, request, units>>

UpstreamAccepts(i) ==
    /\ upstream[i] = "asked"
    /\ upstream' = [upstream EXCEPT ![i] = "accepted"]
    /\ UNCHANGED <<items, request, units, workers>>

UpstreamDelivers(i) ==
    /\ upstream[i] = "accepted"
    /\ upstream' = [upstream EXCEPT ![i] = "delivered"]
    /\ UNCHANGED <<items, request, units, workers>>

(* Variant: an order that has a code is taken for a delivered one. *)
HasCode(i) == upstream[i] \in {"accepted", "delivered"}

(* The supplier's order shows delivered goods. *)
HasGoods(i) == upstream[i] = "delivered"

(* Variant: a purchase nobody answered may be tried again. *)
UnknownIsPending == "PENDING"

(* decideDajuError for a timeout, a cut connection or an unclear answer. *)
UnknownOutcome == "UNCERTAIN"

(* The supplier says no: for good, or RATE_LIMITED. *)
PurchaseRefused(w, i) ==
    /\ upstream[i] = "asked"
    /\ upstream' = [upstream EXCEPT ![i] = "none"]
    /\ \E outcome \in {"FAILED", "PENDING"} : Conclude(w, outcome, FALSE)

PurchaseUnanswered(w) ==
    /\ Conclude(w, UnknownOutcome, FALSE)
    /\ UNCHANGED upstream

(* The answer is the order, with its goods or with its code to read it by. *)
PurchaseAnswered(w, i) ==
    /\ \/ HasGoods(i) /\ Conclude(w, "FULFILLED", TRUE)
       \/ upstream[i] = "accepted" /\ Move(w, "read")
    /\ UNCHANGED upstream

(* The answer is only a reference, and the GET that client.purchase sends  *)
(* for the rest fails: its error keeps the order code and its own kind, so *)
(* decideDajuError takes RATE_LIMITED for an answer to the purchase.       *)
PurchaseReferenceUnread(w, i) ==
    /\ upstream[i] \in {"accepted", "delivered"}
    /\ \/ "lost" \in ReadFaults /\ Conclude(w, UnknownOutcome, TRUE)
       \/ "limited" \in ReadFaults /\ Conclude(w, "PENDING", TRUE)
    /\ UNCHANGED upstream

AnswerPurchase(w) ==
    LET i == workers[w].item IN
    /\ At(w, "sent")
    /\ \/ PurchaseRefused(w, i)
       \/ PurchaseUnanswered(w)
       \/ PurchaseAnswered(w, i)
       \/ PurchaseReferenceUnread(w, i)
    /\ UNCHANGED <<items, request, units>>

(* GET /order by its code brings the goods. *)
ReadDelivered(w) ==
    /\ At(w, "read")
    /\ HasGoods(workers[w].item)
    /\ Conclude(w, "FULFILLED", TRUE)
    /\ UNCHANGED <<items, request, units, upstream>>

(* It fails, or there are no goods yet: a delivery records the code for    *)
(* reconciliation, a reconciliation gives up.                              *)
ReadUndelivered(w) ==
    /\ At(w, "read")
    /\ IF workers[w].job = "deliver" THEN Conclude(w, "RECONCILIATION", TRUE) ELSE Stop(w)
    /\ UNCHANGED <<items, request, units, upstream>>

-----------------------------------------------------------------------------
(* The record.                                                             *)

(* Variant: the holder of the token records whatever the status is. *)
HolderMayRecord(w, i) == workers[w].current

(* Only the attempt that is under way may be recorded. *)
Recordable(w, i) == workers[w].current /\ request[i].status = "PURCHASING"

(* Variant: the item takes over the status of its request. *)
SameStatus(outcome) == outcome

(* What an outcome makes of the item's delivery_status. *)
StatusAfter(outcome) ==
    IF outcome = "FULFILLED" THEN "delivered"
    ELSE IF outcome \in Refused THEN "failed" ELSE "processing"

RecordedItem(i, outcome) ==
    LET row == [items[i] EXCEPT
                  !.status = StatusAfter(outcome),
                  !.supplied = items[i].supplied \/ outcome = "FULFILLED"] IN
    Refreshed(row, Handed(i) + (IF row.supplied THEN 1 ELSE 0), Qty[i])

(* record_supplier_fulfillment_outcome.  A refusal is swallowed (record,   *)
(* fulfillment-core.mjs); a reconciliation reports it.                     *)
RecordOutcome(w) ==
    LET i == workers[w].item
        outcome == workers[w].outcome IN
    /\ At(w, "record")
    /\ Stop(w)
    /\ IF ~items[i].halted /\ Recordable(w, i)
       THEN /\ request' = [request EXCEPT ![i] =
                             [status |-> outcome, code |-> request[i].code \/ workers[w].code]]
            /\ items' = [items EXCEPT ![i] = RecordedItem(i, outcome)]
       ELSE UNCHANGED <<request, items>>
    /\ UNCHANGED <<units, upstream>>

-----------------------------------------------------------------------------
(* Administration.                                                         *)

(* admin_update_order_status in and out of the halted statuses.  A paid    *)
(* order's goods are not released.                                         *)
AdminHalts(i) ==
    /\ items' = [items EXCEPT ![i].halted = ~items[i].halted]
    /\ UNCHANGED <<request, units, upstream, workers>>

(* admin_transition_local_inventory. *)
AdminTransitions(u) ==
    /\ units[u].owner = NoItem
    /\ \/ units[u].state = "available" /\ units' = [units EXCEPT ![u].state = "disabled"]
       \/ units[u].state = "disabled" /\ units' = [units EXCEPT ![u].state = "available"]
    /\ UNCHANGED <<items, request, upstream, workers>>

WorkerStep(w) ==
    \/ \E i \in Items : ReserveLocal(w, i)
    \/ DeliverLocal(w)
    \/ LoadCandidate(w)
    \/ \E i \in Items : StartReconcile(w, i)
    \/ Claim(w)
    \/ ReadProduct(w)
    \/ SendPurchase(w)
    \/ AnswerPurchase(w)
    \/ ReadDelivered(w)
    \/ ReadUndelivered(w)
    \/ RecordOutcome(w)
    \/ Crash(w)

Next ==
    \/ \E w \in Workers : WorkerStep(w)
    \/ \E i \in Items : UpstreamAccepts(i) \/ UpstreamDelivers(i) \/ AdminHalts(i)
    \/ \E u \in Units : AdminTransitions(u)

Spec == Init /\ [][Next]_vars

Reconciling(w) == workers[w].job = "reconcile"

(* The administrator who has found a supplier order keeps naming it; no    *)
(* server dies in the same place for ever, and the supplier's GET, asked   *)
(* again and again, answers once.                                          *)
FairSpec ==
    /\ Spec
    /\ \A w \in Workers :
         /\ WF_vars(DeliverLocal(w)) /\ WF_vars(LoadCandidate(w)) /\ WF_vars(Claim(w))
         /\ WF_vars(ReadProduct(w)) /\ WF_vars(SendPurchase(w)) /\ WF_vars(AnswerPurchase(w))
         /\ WF_vars(ReadUndelivered(w))
         /\ SF_vars(Reconciling(w) /\ Claim(w))
         /\ SF_vars(Reconciling(w) /\ ReadDelivered(w))
         /\ SF_vars(RecordOutcome(w))
         /\ \A i \in Items : SF_vars(StartReconcile(w, i))

-----------------------------------------------------------------------------
(* Properties.                                                             *)

Buying(w) == workers[w].pc \in {"product", "purchase", "sent"}

(* Two calls never buy one item side by side, however many deliver it at   *)
(* once, and whatever the supplier answered to earlier attempts: the claim *)
(* of claim_supplier_fulfillment is exclusive.                             *)
OneBuyer ==
    \A v, w \in Workers :
        Buying(v) /\ Buying(w) /\ workers[v].item = workers[w].item => v = w

(* A purchase is sent only while the supplier has no order for the item:   *)
(* an attempt nobody answered is not made again, though its process died,  *)
(* its record was refused or lost, or the order was halted in between.     *)
PurchasedOnce ==
    [][\A w \in Workers :
         At(w, "purchase") /\ workers'[w].pc = "sent" => upstream[workers[w].item] = "none"]_vars

(* What is recorded as supplied is what the supplier delivered: the        *)
(* request, the delivered row and the supplier's order agree, whichever of *)
(* purchase, query and reconciliation brought the goods.                   *)
SuppliedAsBought ==
    \A i \in Items :
        /\ items[i].supplied <=> request[i].status = "FULFILLED"
        /\ items[i].supplied => upstream[i] = "delivered" /\ request[i].code

(* A fulfilled request stays fulfilled: the late outcome of an attempt     *)
(* that was reconciled meanwhile does not overwrite it.                    *)
FulfilledIsFinal ==
    [][\A i \in Items :
         request[i].status = "FULFILLED" => request'[i].status = "FULFILLED"]_vars

(* Once an item has a supplier request, no call that began before it gives *)
(* the item local goods.                                                   *)
NoLocalGoodsAfterRequest ==
    [][\A i \in Items : HasRequest(i) =>
         \A u \in Units : units'[u].owner = i => units'[u] = units[u]]_vars

(* An item never holds more local goods than were bought, however many     *)
(* calls reserve and deliver for it.                                       *)
LocalGoodsWithinQuantity ==
    \A i \in Items : Cardinality({u \in Units : units[u].owner = i}) <= Qty[i]

(* A purchase whose process died before the order code was stored, for     *)
(* which the supplier delivered.                                           *)
Abandoned(i) ==
    /\ request[i].status = "PURCHASING"
    /\ ~request[i].code
    /\ upstream[i] = "delivered"
    /\ \A w \in Workers : workers[w].item = i => workers[w].job = "reconcile" \/ ~workers[w].current

(* Such a purchase is recovered by reconcile_daju_order, unless the order  *)
(* is halted or the item was delivered from the shelf.                     *)
AbandonedPurchaseRecovers ==
    \A i \in Items :
        Abandoned(i) ~> \/ request[i].status = "FULFILLED"
                        \/ items[i].halted
                        \/ items[i].status = "delivered"

-----------------------------------------------------------------------------
(* What the documents, tests and comments say, and the code does not do.   *)

(* An order whose code is known is not bought again.                       *)
KnownOrderNotRepurchased ==
    [][\A w \in Workers :
         At(w, "purchase") /\ workers'[w].pc = "sent" => ~request[workers[w].item].code]_vars
=============================================================================
