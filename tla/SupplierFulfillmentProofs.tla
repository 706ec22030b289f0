--------------------- MODULE SupplierFulfillmentProofs ---------------------
(***************************************************************************)
(* Theorems about SupplierFulfillment, for any number of items, rows and   *)
(* processes.                                                              *)
(*                                                                         *)
(* The argument of OneBuyer: a call is committed from its claim until it   *)
(* stops or goes on to read an order; it is committed to an item that may  *)
(* not be claimed, and only a committed call makes it claimable again,     *)
(* when it stops.                                                          *)
(*                                                                         *)
(* PurchasedOnce: a request may be claimed, and a call that has claimed it *)
(* may still give it back, only while the supplier has no order for it.    *)
(* The last call that could have sent an earlier purchase is gone by then, *)
(* because a purchase nobody answered is never recorded as PENDING.        *)
(*                                                                         *)
(* SuppliedAsBought: who is about to record goods has them from the        *)
(* supplier, and only an attempt under way is recorded.                    *)
(*                                                                         *)
(* LocalGoodsWithinQuantity: reserve_local_inventory_for_supplier_order    *)
(* reserves only for an item with nothing reserved, and then what was not  *)
(* delivered; every row that has an owner is reserved or delivered.        *)
(***************************************************************************)
EXTENDS SupplierFulfillment, FiniteSetTheorems, TLAPS

-----------------------------------------------------------------------------
(* What the moves of a worker do to the table of workers.                  *)

LEMMA MovedRow ==
    ASSUME NEW r \in Worker, NEW step \in Steps
    PROVE  /\ [r EXCEPT !.pc = step] \in Worker
           /\ [r EXCEPT !.pc = step].pc = step
           /\ [r EXCEPT !.pc = step].item = r.item
           /\ [r EXCEPT !.pc = step].outcome = r.outcome
           /\ [r EXCEPT !.pc = step].code = r.code
BY DEF Worker

LEMMA IdleRow == Idle \in Worker /\ Idle.pc = "idle"
BY DEF Worker, Steps, Idle, Outcomes

(* The other workers stay as they are. *)
OthersStay(w) == \A v \in Workers : v # w => workers'[v] = workers[v]

LEMMA MoveEffect ==
    ASSUME workers \in [Workers -> Worker], NEW w \in Workers, NEW step \in Steps,
           Move(w, step)
    PROVE  /\ workers' \in [Workers -> Worker]
           /\ OthersStay(w)
           /\ workers'[w].pc = step
           /\ workers'[w].item = workers[w].item
           /\ workers'[w].outcome = workers[w].outcome
           /\ workers'[w].code = workers[w].code
<1>1. workers' = [workers EXCEPT ![w] = [workers[w] EXCEPT !.pc = step]]
  BY DEF Move, Worker
<1>2. workers[w] \in Worker
  OBVIOUS
<1> QED BY <1>1, <1>2, MovedRow DEF OthersStay

LEMMA StopEffect ==
    ASSUME workers \in [Workers -> Worker], NEW w \in Workers, Stop(w)
    PROVE  /\ workers' \in [Workers -> Worker]
           /\ OthersStay(w)
           /\ workers'[w].pc = "idle"
BY IdleRow DEF Stop, OthersStay

LEMMA ConcludeEffect ==
    ASSUME workers \in [Workers -> Worker], NEW w \in Workers,
           NEW outcome \in Outcomes, NEW code \in BOOLEAN, Conclude(w, outcome, code)
    PROVE  /\ workers' \in [Workers -> Worker]
           /\ OthersStay(w)
           /\ workers'[w].pc = "record"
           /\ workers'[w].item = workers[w].item
           /\ workers'[w].outcome = outcome
           /\ workers'[w].code = code
<1> DEFINE row == [workers[w] EXCEPT !.pc = "record", !.outcome = outcome, !.code = code]
<1>0. workers[w] \in Worker
  OBVIOUS
<1>1. /\ row \in Worker
      /\ row.pc = "record"
      /\ row.item = workers[w].item
      /\ row.outcome = outcome
      /\ row.code = code
  BY <1>0 DEF Worker, Steps
<1>2. workers' = [workers EXCEPT ![w] = row]
  BY DEF Conclude
<1> HIDE DEF row
<1> QED BY <1>1, <1>2 DEF OthersStay

(* The three ways in which a call begins to work on an item. *)

LEMMA ReserveEffect ==
    ASSUME workers \in [Workers -> Worker], NEW w \in Workers, NEW i \in Items,
           ReserveLocal(w, i)
    PROVE  /\ workers' \in [Workers -> Worker]
           /\ OthersStay(w)
           /\ workers'[w].pc = "local"
           /\ workers'[w].item = i
<1> DEFINE row == [Idle EXCEPT !.pc = "local", !.item = i]
<1>1. row \in Worker /\ row.pc = "local" /\ row.item = i
  BY DEF Idle, Worker, Steps, Outcomes
<1>2. workers' = [workers EXCEPT ![w] = row]
  BY DEF ReserveLocal
<1> HIDE DEF row
<1> QED BY <1>1, <1>2 DEF OthersStay

LEMMA ReconcileEffect ==
    ASSUME workers \in [Workers -> Worker], NEW w \in Workers, NEW i \in Items,
           StartReconcile(w, i)
    PROVE  /\ workers' \in [Workers -> Worker]
           /\ OthersStay(w)
           /\ workers'[w].pc = "claim"
           /\ workers'[w].item = i
<1> DEFINE row == [Idle EXCEPT !.pc = "claim", !.job = "reconcile", !.item = i]
<1>1. row \in Worker /\ row.pc = "claim" /\ row.item = i
  BY DEF Idle, Worker, Steps, Outcomes
<1>2. workers' = [workers EXCEPT ![w] = row]
  BY DEF StartReconcile
<1> HIDE DEF row
<1> QED BY <1>1, <1>2 DEF OthersStay

(* A claim that purchases takes the token from the other workers, and      *)
(* nothing else.                                                           *)
LEMMA ClaimEffect ==
    ASSUME workers \in [Workers -> Worker], NEW w \in Workers, NEW i \in Items,
           workers[w].item = i, ClaimPurchase(w, i)
    PROVE  /\ workers' \in [Workers -> Worker]
           /\ \A v \in Workers : v # w =>
                /\ workers'[v].pc = workers[v].pc
                /\ workers'[v].item = workers[v].item
                /\ workers'[v].outcome = workers[v].outcome
                /\ workers'[v].code = workers[v].code
           /\ workers'[w].pc \in {"idle", "product"}
           /\ workers'[w].pc # "idle" => workers'[w].item = i
<1> DEFINE Stale(v) == [workers[v] EXCEPT !.current = FALSE]
           bought == [workers[w] EXCEPT !.pc = "product", !.current = TRUE]
<1>1. ASSUME NEW v \in Workers
      PROVE  /\ Stale(v) \in Worker
             /\ Stale(v).pc = workers[v].pc
             /\ Stale(v).item = workers[v].item
             /\ Stale(v).outcome = workers[v].outcome
             /\ Stale(v).code = workers[v].code
  <2>1. workers[v] \in Worker
    OBVIOUS
  <2> QED BY <2>1 DEF Worker
<1>2. bought \in Worker /\ bought.pc = "product" /\ bought.item = i
  <2>1. workers[w] \in Worker
    OBVIOUS
  <2> QED BY <2>1 DEF Worker, Steps
<1>3. workers' = [v \in Workers |->
                    IF v # w THEN IF workers[v].item = i THEN Stale(v) ELSE workers[v]
                    ELSE IF workers[w].job = "reconcile" THEN Idle ELSE bought]
  BY DEF ClaimPurchase
<1> HIDE DEF Stale, bought
<1> QED BY <1>1, <1>2, <1>3, IdleRow

LEMMA ClaimOpenEffect ==
    ASSUME workers \in [Workers -> Worker], NEW w \in Workers, NEW i \in Items,
           ClaimOpen(w, i)
    PROVE  /\ workers' \in [Workers -> Worker]
           /\ OthersStay(w)
           /\ workers'[w].pc \in {"idle", "read"}
           /\ workers'[w].pc # "idle" => workers'[w].item = workers[w].item
<1> DEFINE row == [workers[w] EXCEPT !.pc = "read", !.current = TRUE]
<1>1. row \in Worker /\ row.pc = "read" /\ row.item = workers[w].item
  <2>1. workers[w] \in Worker
    OBVIOUS
  <2> QED BY <2>1 DEF Worker, Steps
<1>2. workers' = [workers EXCEPT ![w] = row] \/ Stop(w)
  BY DEF ClaimOpen
<1> HIDE DEF row
<1> QED BY <1>1, <1>2, StopEffect DEF OthersStay

-----------------------------------------------------------------------------
(* The invariant.                                                          *)

(* A call that is at work is at work on an item. *)
BusyOnItem == \A w \in Workers : ~At(w, "idle") => workers[w].item \in Items

(* From its claim until its attempt is recorded or its order is read.      *)
Committed(w) ==
    \/ Buying(w)
    \/ At(w, "record") /\ workers[w].outcome = "PENDING"

(* An item somebody is committed to may not be claimed. *)
CommittedHoldsClaim ==
    \A w \in Workers : Committed(w) => request[workers[w].item].status \notin Claimable

OneCommitted ==
    \A v, w \in Workers :
        Committed(v) /\ Committed(w) /\ workers[v].item = workers[w].item => v = w

BuyInv == TypeOK /\ BusyOnItem /\ CommittedHoldsClaim /\ OneCommitted

LEMMA BuyInit == Init => BuyInv
BY IdleRow DEF Init, BuyInv, TypeOK, BusyOnItem, CommittedHoldsClaim, OneCommitted, Committed,
       Buying, ItemRow, RequestRow, UnitRow, At

(* A step of worker w that makes it committed to nothing new, and leaves   *)
(* the requests alone, keeps what is said about commitment.                *)
Quiet(w) == Committed(w)' => Committed(w) /\ workers'[w].item = workers[w].item

LEMMA QuietStep ==
    ASSUME BuyInv, NEW w \in Workers, OthersStay(w), Quiet(w), request' = request,
           workers'[w].pc # "idle" => workers'[w].item \in Items
    PROVE  BusyOnItem' /\ CommittedHoldsClaim' /\ OneCommitted'
<1>1. BusyOnItem'
  BY DEF BuyInv, BusyOnItem, OthersStay, At
<1>2. \A v \in Workers : Committed(v)' => Committed(v) /\ workers'[v].item = workers[v].item
  BY DEF Quiet, OthersStay, Committed, Buying, At
<1>3. CommittedHoldsClaim' /\ OneCommitted'
  BY <1>2 DEF BuyInv, CommittedHoldsClaim, OneCommitted
<1> QED BY <1>1, <1>3

(* The columns refresh_order_fulfillment_status leaves alone. *)
LEMMA RefreshedRow ==
    ASSUME NEW row \in ItemRow, NEW n, NEW quantity
    PROVE  /\ Refreshed(row, n, quantity) \in ItemRow
           /\ Refreshed(row, n, quantity).supplied = row.supplied
           /\ Refreshed(row, n, quantity).halted = row.halted
BY DEF Refreshed, ItemRow

(* Every step keeps the invariant, action by action. *)
LEMMA BuyStep == BuyInv /\ [Next]_vars => BuyInv'
<1> SUFFICES ASSUME BuyInv, [Next]_vars
             PROVE  BuyInv'
  OBVIOUS
<1> USE DEF BuyInv
<1>a. /\ items \in [Items -> ItemRow]
      /\ request \in [Items -> RequestRow]
      /\ units \in [Units -> UnitRow]
      /\ upstream \in [Items -> {"none", "asked", "accepted", "delivered"}]
      /\ workers \in [Workers -> Worker]
  BY DEF TypeOK
<1>1. ASSUME NEW w \in Workers, NEW i \in Items, ReserveLocal(w, i)
      PROVE  BuyInv'
  <2>1. units' \in [Units -> UnitRow]
    BY <1>1, <1>a DEF ReserveLocal, UnitRow
  <2>2. Quiet(w)
    BY <1>1, <1>a, ReserveEffect DEF Quiet, Committed, Buying, At
  <2> QED
    BY <1>1, <1>a, <2>1, <2>2, ReserveEffect, QuietStep DEF ReserveLocal, TypeOK
<1>2. ASSUME NEW w \in Workers, DeliverLocal(w)
      PROVE  BuyInv'
  <2> DEFINE i == workers[w].item
  <2>1. i \in Items
    BY <1>2 DEF DeliverLocal, BusyOnItem, At
  <2>2. ASSUME NEW row \in ItemRow, NEW n
        PROVE  [items EXCEPT ![i] = Refreshed(row, n, Qty[i])] \in [Items -> ItemRow]
    BY <1>a, <2>1, <2>2, RefreshedRow
  <2>3. items' \in [Items -> ItemRow] /\ units' \in [Units -> UnitRow]
    <3>1. CASE items[i].halted
      BY <1>2, <1>a, <3>1 DEF DeliverLocal
    <3>2. CASE /\ ~items[i].halted
               /\ Remaining(i) > 0 /\ LocalAllowed(i) /\ Reserved(i) >= Remaining(i)
      <4>1. PICK taken \in SUBSET UnitsIn(i, "reserved") :
              LET short == Cardinality(taken) < Remaining(i)
                  row == [items[i] EXCEPT !.status = IF short THEN "failed" ELSE "processing",
                                          !.failedRow = items[i].failedRow \/ short] IN
              /\ units' = [u \in Units |->
                             IF u \in taken THEN [state |-> "delivered", owner |-> i]
                             ELSE units[u]]
              /\ items' = [items EXCEPT ![i] =
                             Refreshed(row, DeliveredRows(i) + Cardinality(taken), Qty[i])]
        BY <1>2, <3>2 DEF DeliverLocal
      <4> DEFINE short == Cardinality(taken) < Remaining(i)
                 row == [items[i] EXCEPT !.status = IF short THEN "failed" ELSE "processing",
                                         !.failedRow = items[i].failedRow \/ short]
      <4>2. row \in ItemRow
        <5> HIDE DEF short
        <5>1. items[i] \in ItemRow
          BY <1>a, <2>1
        <5>2. short \in BOOLEAN
          BY DEF short
        <5> QED BY <5>1, <5>2 DEF ItemRow
      <4>3. items' = [items EXCEPT ![i] =
                        Refreshed(row, DeliveredRows(i) + Cardinality(taken), Qty[i])]
        BY <4>1
      <4> HIDE DEF row
      <4>4. items' \in [Items -> ItemRow]
        BY <2>2, <4>2, <4>3
      <4>5. units' \in [Units -> UnitRow]
        BY <4>1, <1>a, <2>1 DEF UnitRow
      <4> QED BY <4>4, <4>5
    <3>3. CASE /\ ~items[i].halted
               /\ ~(Remaining(i) > 0 /\ LocalAllowed(i) /\ Reserved(i) >= Remaining(i))
      <4>1. /\ items' = [items EXCEPT ![i] = Refreshed(items[i], DeliveredRows(i), Qty[i])]
            /\ units' = units
        BY <1>2, <3>3 DEF DeliverLocal
      <4>2. items[i] \in ItemRow
        BY <1>a, <2>1
      <4> QED BY <1>a, <2>2, <4>1, <4>2
    <3> QED BY <3>1, <3>2, <3>3
  <2>4. /\ workers' \in [Workers -> Worker]
        /\ OthersStay(w)
        /\ workers'[w].pc = "load"
        /\ workers'[w].item = i
    BY <1>2, <1>a, MoveEffect DEF DeliverLocal, Steps
  <2>5. Quiet(w)
    BY <2>4 DEF Quiet, Committed, Buying, At
  <2> QED BY <1>2, <1>a, <2>1, <2>3, <2>4, <2>5, QuietStep DEF DeliverLocal, TypeOK
<1>3. ASSUME NEW w \in Workers, LoadCandidate(w)
      PROVE  BuyInv'
  <2>1. workers[w].item \in Items
    BY <1>3 DEF LoadCandidate, BusyOnItem, At
  <2>2. CASE Stop(w)
    <3>1. Quiet(w)
      BY <1>a, <2>2, StopEffect DEF Quiet, Committed, Buying, At
    <3> QED BY <1>3, <1>a, <2>2, <3>1, StopEffect, QuietStep DEF LoadCandidate, TypeOK
  <2>3. CASE Move(w, "claim")
    <3>1. /\ workers' \in [Workers -> Worker]
          /\ OthersStay(w)
          /\ workers'[w].pc = "claim"
          /\ workers'[w].item = workers[w].item
      BY <1>a, <2>3, MoveEffect DEF Steps
    <3>2. Quiet(w)
      BY <3>1 DEF Quiet, Committed, Buying, At
    <3> QED BY <1>3, <1>a, <2>1, <3>1, <3>2, QuietStep DEF LoadCandidate, TypeOK
  <2> QED BY <1>3, <2>2, <2>3 DEF LoadCandidate
<1>4. ASSUME NEW w \in Workers, NEW i \in Items, StartReconcile(w, i)
      PROVE  BuyInv'
  <2>1. Quiet(w)
    BY <1>4, <1>a, ReconcileEffect DEF Quiet, Committed, Buying, At
  <2> QED BY <1>4, <1>a, <2>1, ReconcileEffect, QuietStep DEF StartReconcile, TypeOK
<1>5. ASSUME NEW w \in Workers, Claim(w)
      PROVE  BuyInv'
  <2> DEFINE i == workers[w].item
  <2>1. i \in Items
    BY <1>5 DEF Claim, BusyOnItem, At
  <2>2. CASE Stop(w) /\ UNCHANGED <<items, request>>
    <3>1. Quiet(w)
      BY <1>a, <2>2, StopEffect DEF Quiet, Committed, Buying, At
    <3> QED BY <1>5, <1>a, <2>2, <3>1, StopEffect, QuietStep DEF Claim, TypeOK
  <2>3. CASE ClaimPurchase(w, i)
    <3>1. /\ workers' \in [Workers -> Worker]
          /\ \A v \in Workers : v # w =>
               /\ workers'[v].pc = workers[v].pc
               /\ workers'[v].item = workers[v].item
               /\ workers'[v].outcome = workers[v].outcome
          /\ workers'[w].pc \in {"idle", "product"}
          /\ workers'[w].pc # "idle" => workers'[w].item = i
      BY <1>a, <2>1, <2>3, ClaimEffect
    <3>2. items' \in [Items -> ItemRow] /\ request' \in [Items -> RequestRow]
      BY <1>a, <2>1, <2>3 DEF ClaimPurchase, ItemRow, RequestRow
    <3>3. /\ request[i].status \in Claimable
          /\ request'[i].status = "PURCHASING"
          /\ \A j \in Items : j # i => request'[j] = request[j]
      BY <1>a, <2>1, <2>3 DEF ClaimPurchase, RequestRow
    <3>4. TypeOK'
      BY <1>5, <1>a, <3>1, <3>2 DEF Claim, TypeOK
    <3>5. BusyOnItem'
      BY <2>1, <3>1 DEF BusyOnItem, At
    <3>6. ASSUME NEW v \in Workers, Committed(v)'
          PROVE  \/ v = w /\ workers'[v].item = i
                 \/ v # w /\ Committed(v) /\ workers'[v].item = workers[v].item
                    /\ workers[v].item \in Items /\ workers[v].item # i
      BY <3>1, <3>3, <3>6 DEF Committed, Buying, At, CommittedHoldsClaim, BusyOnItem
    <3>7. CommittedHoldsClaim' /\ OneCommitted'
      BY <3>3, <3>6 DEF CommittedHoldsClaim, OneCommitted, Claimable
    <3> QED BY <3>4, <3>5, <3>7
  <2>4. CASE ClaimOpen(w, i)
    <3>1. Quiet(w)
      BY <1>a, <2>1, <2>4, ClaimOpenEffect DEF Quiet, Committed, Buying, At
    <3> QED
      BY <1>5, <1>a, <2>1, <2>4, <3>1, ClaimOpenEffect, QuietStep DEF Claim, ClaimOpen, TypeOK
  <2> QED BY <1>5, <2>2, <2>3, <2>4 DEF Claim
<1>6. ASSUME NEW w \in Workers, ReadProduct(w)
      PROVE  BuyInv'
  <2>1. workers[w].item \in Items /\ Committed(w)
    BY <1>6 DEF ReadProduct, BusyOnItem, Committed, Buying, At
  <2>2. /\ workers' \in [Workers -> Worker]
        /\ OthersStay(w)
        /\ workers'[w].item = workers[w].item
    BY <1>6, <1>a, MoveEffect, ConcludeEffect DEF ReadProduct, Steps, Outcomes, Refused
  <2>3. Quiet(w)
    BY <2>1, <2>2 DEF Quiet
  <2> QED BY <1>6, <1>a, <2>1, <2>2, <2>3, QuietStep DEF ReadProduct, TypeOK
<1>7. ASSUME NEW w \in Workers, SendPurchase(w)
      PROVE  BuyInv'
  <2>1. workers[w].item \in Items /\ Committed(w)
    BY <1>7 DEF SendPurchase, BusyOnItem, Committed, Buying, At
  <2>2. /\ workers' \in [Workers -> Worker]
        /\ OthersStay(w)
        /\ workers'[w].item = workers[w].item
    BY <1>7, <1>a, MoveEffect DEF SendPurchase, Steps
  <2>3. Quiet(w)
    BY <2>1, <2>2 DEF Quiet
  <2>4. upstream' \in [Items -> {"none", "asked", "accepted", "delivered"}]
    BY <1>7, <1>a DEF SendPurchase
  <2> QED BY <1>7, <1>a, <2>1, <2>2, <2>3, <2>4, QuietStep DEF SendPurchase, TypeOK
<1>8. ASSUME NEW w \in Workers, AnswerPurchase(w)
      PROVE  BuyInv'
  <2>1. workers[w].item \in Items /\ Committed(w)
    BY <1>8 DEF AnswerPurchase, BusyOnItem, Committed, Buying, At
  <2>2. /\ workers' \in [Workers -> Worker]
        /\ OthersStay(w)
        /\ workers'[w].item = workers[w].item
    BY <1>8, <1>a, MoveEffect, ConcludeEffect
       DEF AnswerPurchase, PurchaseRefused, PurchaseUnanswered, UnknownOutcome,
           PurchaseAnswered, PurchaseReferenceUnread, Steps, Outcomes, Refused
  <2>3. Quiet(w)
    BY <2>1, <2>2 DEF Quiet
  <2>4. upstream' \in [Items -> {"none", "asked", "accepted", "delivered"}]
    BY <1>8, <1>a DEF AnswerPurchase, PurchaseRefused, PurchaseUnanswered, PurchaseAnswered,
       PurchaseReferenceUnread
  <2> QED BY <1>8, <1>a, <2>1, <2>2, <2>3, <2>4, QuietStep DEF AnswerPurchase, TypeOK
<1>9. ASSUME NEW w \in Workers, ReadDelivered(w) \/ ReadUndelivered(w)
      PROVE  BuyInv'
  <2>1. workers[w].item \in Items
    BY <1>9 DEF ReadDelivered, ReadUndelivered, BusyOnItem, At
  <2>2. /\ workers' \in [Workers -> Worker]
        /\ OthersStay(w)
        /\ \/ workers'[w].pc = "idle"
           \/ /\ workers'[w].pc = "record"
              /\ workers'[w].item = workers[w].item
              /\ workers'[w].outcome # "PENDING"
    <3>1. CASE Stop(w)
      BY <1>a, <3>1, StopEffect
    <3>2. ASSUME NEW outcome \in {"FULFILLED", "RECONCILIATION"}, Conclude(w, outcome, TRUE)
          PROVE  /\ workers' \in [Workers -> Worker]
                 /\ OthersStay(w)
                 /\ workers'[w].pc = "record"
                 /\ workers'[w].item = workers[w].item
                 /\ workers'[w].outcome # "PENDING"
      <4>1. outcome \in Outcomes
        BY DEF Outcomes
      <4> QED BY <1>a, <3>2, <4>1, ConcludeEffect
    <3> QED BY <1>9, <3>1, <3>2 DEF ReadDelivered, ReadUndelivered
  <2>3. Quiet(w)
    BY <2>2 DEF Quiet, Committed, Buying, At
  <2> QED BY <1>9, <1>a, <2>1, <2>2, <2>3, QuietStep DEF ReadDelivered, ReadUndelivered, TypeOK
<1>10. ASSUME NEW w \in Workers, RecordOutcome(w)
       PROVE  BuyInv'
  <2> DEFINE i == workers[w].item
             outcome == workers[w].outcome
             code == request[i].code \/ workers[w].code
  <2>1. i \in Items /\ outcome \in Outcomes /\ items[i] \in ItemRow
    BY <1>10, <1>a DEF RecordOutcome, BusyOnItem, At, Worker
  <2>2. /\ workers' \in [Workers -> Worker]
        /\ OthersStay(w)
        /\ workers'[w].pc = "idle"
    BY <1>10, <1>a, StopEffect DEF RecordOutcome
  <2>3. Quiet(w)
    BY <2>2 DEF Quiet, Committed, Buying, At
  <2>4. CASE UNCHANGED <<request, items>>
    BY <1>10, <1>a, <2>2, <2>3, <2>4, QuietStep DEF RecordOutcome, TypeOK
  <2>5. CASE /\ request' = [request EXCEPT ![i] = [status |-> outcome, code |-> code]]
             /\ items' = [items EXCEPT ![i] = RecordedItem(i, outcome)]
    <3>1. RecordedItem(i, outcome) \in ItemRow
      <4> DEFINE row == [items[i] EXCEPT !.status = StatusAfter(outcome),
                                         !.supplied = items[i].supplied \/ outcome = "FULFILLED"]
                 n == Handed(i) + (IF row.supplied THEN 1 ELSE 0)
      <4>1. row \in ItemRow
        <5>1. StatusAfter(outcome) \in {"delivered", "failed", "processing"}
          BY DEF StatusAfter
        <5>2. (items[i].supplied \/ outcome = "FULFILLED") \in BOOLEAN
          OBVIOUS
        <5> QED BY <2>1, <5>1, <5>2 DEF ItemRow
      <4>2. RecordedItem(i, outcome) = Refreshed(row, n, Qty[i])
        BY DEF RecordedItem
      <4> HIDE DEF row, n
      <4> QED BY <4>1, <4>2, RefreshedRow
    <3>2. code \in BOOLEAN
      OBVIOUS
    <3> HIDE DEF code
    <3>3. items' \in [Items -> ItemRow] /\ request' \in [Items -> RequestRow]
      BY <1>a, <2>1, <2>5, <3>1, <3>2 DEF RequestRow
    <3>4. TypeOK'
      BY <1>10, <1>a, <2>2, <3>3 DEF RecordOutcome, TypeOK
    <3>5. BusyOnItem'
      BY <2>2 DEF BusyOnItem, OthersStay, At
    <3>6. \A v \in Workers : Committed(v)' =>
            /\ v # w
            /\ Committed(v)
            /\ workers'[v] = workers[v]
      BY <2>2 DEF OthersStay, Committed, Buying, At
    <3>7. OneCommitted'
      BY <3>6 DEF OneCommitted
    <3>8. ASSUME NEW v \in Workers, Committed(v)'
          PROVE  request'[workers'[v].item].status \notin Claimable
      <4>1. v # w /\ Committed(v) /\ workers'[v] = workers[v] /\ workers[v].item \in Items
        BY <3>6, <3>8 DEF BusyOnItem, Committed, Buying, At
      <4>2. CASE workers[v].item # i
        BY <1>a, <2>1, <2>5, <4>1, <4>2 DEF CommittedHoldsClaim
      <4>3. CASE workers[v].item = i
        <5>1. outcome # "PENDING"
          BY <1>10, <4>1, <4>3 DEF RecordOutcome, OneCommitted, Committed, At
        <5>2. request'[i].status = outcome
          BY <1>a, <2>1, <2>5
        <5> QED BY <2>1, <4>1, <4>3, <5>1, <5>2 DEF Claimable, Outcomes, Refused
      <4> QED BY <4>2, <4>3
    <3> QED BY <3>4, <3>5, <3>7, <3>8 DEF CommittedHoldsClaim
  <2> QED BY <1>10, <2>4, <2>5 DEF RecordOutcome
<1>11. ASSUME NEW w \in Workers, Crash(w)
       PROVE  BuyInv'
  <2>1. Quiet(w)
    BY <1>11, <1>a, StopEffect DEF Crash, Quiet, Committed, Buying, At
  <2> QED BY <1>11, <1>a, <2>1, StopEffect, QuietStep DEF Crash, TypeOK
<1>12. ASSUME NEW i \in Items, UpstreamAccepts(i) \/ UpstreamDelivers(i) \/ AdminHalts(i)
       PROVE  BuyInv'
  <2>1. /\ items' \in [Items -> ItemRow]
        /\ upstream' \in [Items -> {"none", "asked", "accepted", "delivered"}]
        /\ UNCHANGED <<request, units, workers>>
    <3>1. CASE UpstreamAccepts(i) \/ UpstreamDelivers(i)
      BY <1>a, <3>1 DEF UpstreamAccepts, UpstreamDelivers
    <3>2. CASE AdminHalts(i)
      <4>1. items' = [items EXCEPT ![i] = [items[i] EXCEPT !.halted = ~items[i].halted]]
        BY <1>a, <3>2 DEF AdminHalts, ItemRow
      <4>2. items[i] \in ItemRow /\ (~items[i].halted) \in BOOLEAN
        BY <1>a
      <4> DEFINE row == [items[i] EXCEPT !.halted = ~items[i].halted]
      <4>3. row \in ItemRow
        BY <4>2 DEF ItemRow
      <4> HIDE DEF row
      <4>4. items' \in [Items -> ItemRow]
        BY <1>a, <4>1, <4>3 DEF row
      <4> QED BY <1>a, <3>2, <4>4 DEF AdminHalts
    <3> QED BY <1>12, <3>1, <3>2
  <2> QED
    BY <1>a, <2>1 DEF TypeOK, BusyOnItem, CommittedHoldsClaim, OneCommitted, Committed, Buying, At
<1>13. ASSUME NEW u \in Units, AdminTransitions(u)
       PROVE  BuyInv'
  <2>1. units' \in [Units -> UnitRow]
    BY <1>13, <1>a DEF AdminTransitions, UnitRow
  <2> QED
    BY <1>13, <1>a, <2>1 DEF AdminTransitions, TypeOK, BusyOnItem, CommittedHoldsClaim,
       OneCommitted, Committed, Buying, At
<1>14. CASE UNCHANGED vars
  BY <1>a, <1>14 DEF vars, TypeOK, BusyOnItem, CommittedHoldsClaim, OneCommitted, Committed,
     Buying, At
<1> QED
  BY <1>1, <1>2, <1>3, <1>4, <1>5, <1>6, <1>7, <1>8, <1>9, <1>10, <1>11, <1>12, <1>13, <1>14
     DEF Next, WorkerStep

-----------------------------------------------------------------------------
LEMMA BuyCorrect == Spec => []BuyInv
BY BuyInit, BuyStep, PTL DEF Spec

(* Every row and every call keeps its type, for any number of items, rows  *)
(* and processes.                                                          *)
THEOREM TypeCorrect == Spec => []TypeOK
<1>1. BuyInv => TypeOK
  BY DEF BuyInv
<1> QED BY <1>1, BuyCorrect, PTL

(* claim_supplier_fulfillment is exclusive: however many calls deliver or  *)
(* reconcile an item, and whichever of them die, two never buy it side by  *)
(* side.                                                                   *)
THEOREM BuyerIsAlone == Spec => []OneBuyer
<1>1. BuyInv => OneBuyer
  BY DEF BuyInv, OneCommitted, OneBuyer, Committed
<1> QED BY <1>1, BuyCorrect, PTL

-----------------------------------------------------------------------------
(* A call that has not sent its purchase, or was told it was not taken. *)
Unsent(w) ==
    \/ At(w, "product")
    \/ At(w, "purchase")
    \/ At(w, "record") /\ workers[w].outcome = "PENDING"

ClaimableIsNotBought ==
    \A i \in Items : request[i].status \in Claimable => upstream[i] = "none"

UnsentIsNotBought ==
    \A w \in Workers : Unsent(w) => upstream[workers[w].item] = "none"

NotBought == ClaimableIsNotBought /\ UnsentIsNotBought

(* Who is about to record goods has them, with their code. *)
GoodsAreReal ==
    \A w \in Workers : At(w, "record") /\ workers[w].outcome = "FULFILLED" =>
        upstream[workers[w].item] = "delivered" /\ workers[w].code

-----------------------------------------------------------------------------
LEMMA Typed ==
    ASSUME BuyInv
    PROVE  /\ items \in [Items -> ItemRow]
           /\ request \in [Items -> RequestRow]
           /\ upstream \in [Items -> {"none", "asked", "accepted", "delivered"}]
           /\ workers \in [Workers -> Worker]
BY DEF BuyInv, TypeOK

LEMMA BusyItem ==
    ASSUME BuyInv, NEW w \in Workers, ~At(w, "idle")
    PROVE  workers[w].item \in Items
BY DEF BuyInv, BusyOnItem

(* A step of w that does not make it unsent, and leaves the requests and   *)
(* the supplier alone, keeps what is said about purchases.                 *)
LEMMA NotBoughtStays ==
    ASSUME NotBought, NEW w \in Workers, OthersStay(w),
           Unsent(w)' => Unsent(w) /\ workers'[w].item = workers[w].item,
           request' = request, upstream' = upstream
    PROVE  NotBought'
BY DEF NotBought, ClaimableIsNotBought, UnsentIsNotBought, OthersStay, Unsent, At

LEMMA NotBoughtStep ==
    ASSUME BuyInv, NotBought, "limited" \notin ReadFaults, [Next]_vars
    PROVE  NotBought'
<1>a. /\ request \in [Items -> RequestRow]
      /\ upstream \in [Items -> {"none", "asked", "accepted", "delivered"}]
      /\ workers \in [Workers -> Worker]
  BY Typed
<1>1. ASSUME NEW w \in Workers, NEW i \in Items, ReserveLocal(w, i)
      PROVE  NotBought'
  BY <1>1, <1>a, ReserveEffect, NotBoughtStays DEF ReserveLocal, Unsent, At
<1>2. ASSUME NEW w \in Workers, DeliverLocal(w)
      PROVE  NotBought'
  <2>1. OthersStay(w) /\ workers'[w].pc = "load"
    BY <1>2, <1>a, MoveEffect DEF DeliverLocal, Steps
  <2> QED BY <1>2, <2>1, NotBoughtStays DEF DeliverLocal, Unsent, At
<1>3. ASSUME NEW w \in Workers, LoadCandidate(w)
      PROVE  NotBought'
  <2>1. OthersStay(w) /\ workers'[w].pc \in {"idle", "claim"}
    BY <1>3, <1>a, MoveEffect, StopEffect DEF LoadCandidate, Steps
  <2> QED BY <1>3, <2>1, NotBoughtStays DEF LoadCandidate, Unsent, At
<1>4. ASSUME NEW w \in Workers, NEW i \in Items, StartReconcile(w, i)
      PROVE  NotBought'
  BY <1>4, <1>a, ReconcileEffect, NotBoughtStays DEF StartReconcile, Unsent, At
<1>5. ASSUME NEW w \in Workers, Claim(w)
      PROVE  NotBought'
  <2> DEFINE i == workers[w].item
  <2>1. i \in Items
    BY <1>5, BusyItem DEF Claim, At
  <2>2. CASE Stop(w) /\ UNCHANGED <<items, request>>
    BY <1>5, <1>a, <2>2, StopEffect, NotBoughtStays DEF Claim, Unsent, At
  <2>3. CASE ClaimPurchase(w, i)
    <3>1. /\ \A v \in Workers : v # w =>
               /\ workers'[v].pc = workers[v].pc
               /\ workers'[v].item = workers[v].item
               /\ workers'[v].outcome = workers[v].outcome
          /\ workers'[w].pc \in {"idle", "product"}
          /\ workers'[w].pc # "idle" => workers'[w].item = i
      BY <1>a, <2>1, <2>3, ClaimEffect
    <3>2. upstream' = upstream /\ upstream[i] = "none"
      BY <1>5, <2>1, <2>3 DEF Claim, ClaimPurchase, NotBought, ClaimableIsNotBought
    <3>3. ClaimableIsNotBought'
      BY <1>a, <2>1, <2>3, <3>2 DEF ClaimPurchase, RequestRow, NotBought, ClaimableIsNotBought
    <3>4. UnsentIsNotBought'
      BY <3>1, <3>2 DEF NotBought, UnsentIsNotBought, Unsent, At
    <3> QED BY <3>3, <3>4 DEF NotBought
  <2>4. CASE ClaimOpen(w, i)
    <3>1. OthersStay(w) /\ workers'[w].pc \in {"idle", "read"}
      BY <1>a, <2>1, <2>4, ClaimOpenEffect
    <3> QED BY <1>5, <2>4, <3>1, NotBoughtStays DEF Claim, ClaimOpen, Unsent, At
  <2> QED BY <1>5, <2>2, <2>3, <2>4 DEF Claim
<1>6. ASSUME NEW w \in Workers, ReadProduct(w)
      PROVE  NotBought'
  <2>1. OthersStay(w) /\ workers'[w].item = workers[w].item
    BY <1>6, <1>a, MoveEffect, ConcludeEffect DEF ReadProduct, Steps, Outcomes, Refused
  <2> QED BY <1>6, <2>1, NotBoughtStays DEF ReadProduct, Unsent, At
<1>7. ASSUME NEW w \in Workers, SendPurchase(w)
      PROVE  NotBought'
  <2> DEFINE i == workers[w].item
  <2>1. i \in Items /\ Committed(w)
    BY <1>7, BusyItem DEF SendPurchase, Committed, Buying, At
  <2>2. OthersStay(w) /\ workers'[w].pc = "sent"
    BY <1>7, <1>a, MoveEffect DEF SendPurchase, Steps
  <2>3. \A j \in Items : j # i => upstream'[j] = upstream[j]
    BY <1>7, <1>a DEF SendPurchase
  <2>4. ClaimableIsNotBought'
    BY <1>7, <2>1, <2>3 DEF SendPurchase, NotBought, ClaimableIsNotBought, BuyInv, CommittedHoldsClaim
  <2>5. ASSUME NEW v \in Workers, Unsent(v)'
        PROVE  upstream'[workers'[v].item] = "none"
    <3>1. v # w /\ workers'[v] = workers[v] /\ Unsent(v) /\ Committed(v)
      BY <2>2, <2>5 DEF OthersStay, Unsent, Committed, Buying, At
    <3>2. workers[v].item \in Items /\ workers[v].item # i
      BY <2>1, <3>1, BusyItem DEF BuyInv, OneCommitted, Committed, Buying, At
    <3> QED BY <2>3, <3>1, <3>2 DEF NotBought, UnsentIsNotBought
  <2> QED BY <2>4, <2>5 DEF NotBought, UnsentIsNotBought
<1>8. ASSUME NEW w \in Workers, AnswerPurchase(w)
      PROVE  NotBought'
  <2> DEFINE i == workers[w].item
  <2>1. i \in Items
    BY <1>8, BusyItem DEF AnswerPurchase, At
  <2>2. CASE PurchaseRefused(w, i)
    <3>1. upstream' = [upstream EXCEPT ![i] = "none"]
      BY <2>2 DEF PurchaseRefused
    <3>2. OthersStay(w) /\ workers'[w].item = i
      BY <1>a, <2>2, ConcludeEffect DEF PurchaseRefused, Outcomes, Refused
    <3>3. UnsentIsNotBought'
      BY <1>a, <2>1, <3>1, <3>2, BusyItem DEF NotBought, UnsentIsNotBought, OthersStay, Unsent, At
    <3>4. ClaimableIsNotBought'
      BY <1>8, <1>a, <3>1 DEF AnswerPurchase, NotBought, ClaimableIsNotBought
    <3> QED BY <3>3, <3>4 DEF NotBought
  <2>3. CASE PurchaseUnanswered(w) \/ PurchaseAnswered(w, i) \/ PurchaseReferenceUnread(w, i)
    <3>1. /\ OthersStay(w)
          /\ \/ workers'[w].pc = "read"
             \/ workers'[w].pc = "record" /\ workers'[w].outcome # "PENDING"
      <4>1. CASE Move(w, "read")
        BY <1>a, <4>1, MoveEffect DEF Steps
      <4>2. ASSUME NEW outcome \in {"FULFILLED", "UNCERTAIN"}, NEW code \in BOOLEAN,
                   Conclude(w, outcome, code)
            PROVE  OthersStay(w) /\ workers'[w].pc = "record" /\ workers'[w].outcome # "PENDING"
        <5>1. outcome \in Outcomes
          BY DEF Outcomes
        <5> QED BY <1>a, <4>2, <5>1, ConcludeEffect
      <4> QED
        BY <2>3, <4>1, <4>2 DEF PurchaseUnanswered, UnknownOutcome, PurchaseAnswered,
           PurchaseReferenceUnread
    <3>2. request' = request /\ upstream' = upstream
      BY <1>8, <2>3 DEF AnswerPurchase, PurchaseUnanswered, PurchaseAnswered, PurchaseReferenceUnread
    <3> QED BY <3>1, <3>2, NotBoughtStays DEF Unsent, At
  <2> QED BY <1>8, <2>2, <2>3 DEF AnswerPurchase
<1>9. ASSUME NEW w \in Workers, ReadDelivered(w) \/ ReadUndelivered(w)
      PROVE  NotBought'
  <2>1. ASSUME NEW outcome \in {"FULFILLED", "RECONCILIATION"}, Conclude(w, outcome, TRUE)
        PROVE  OthersStay(w) /\ ~Unsent(w)'
    <3>1. outcome \in Outcomes
      BY DEF Outcomes
    <3> QED BY <1>a, <2>1, <3>1, ConcludeEffect DEF Unsent, At
  <2>2. ASSUME Stop(w)
        PROVE  OthersStay(w) /\ ~Unsent(w)'
    BY <1>a, <2>2, StopEffect DEF Unsent, At
  <2>3. OthersStay(w) /\ ~Unsent(w)' /\ request' = request /\ upstream' = upstream
    BY <1>9, <2>1, <2>2 DEF ReadDelivered, ReadUndelivered
  <2> QED BY <2>3, NotBoughtStays
<1>10. ASSUME NEW w \in Workers, RecordOutcome(w)
       PROVE  NotBought'
  <2> DEFINE i == workers[w].item
  <2>1. i \in Items
    BY <1>10, BusyItem DEF RecordOutcome, At
  <2>2. OthersStay(w) /\ workers'[w].pc = "idle" /\ upstream' = upstream
    BY <1>10, <1>a, StopEffect DEF RecordOutcome
  <2>3. UnsentIsNotBought'
    BY <2>2 DEF NotBought, UnsentIsNotBought, OthersStay, Unsent, At
  <2>4. ClaimableIsNotBought'
    <3>1. CASE request' = request
      BY <2>2, <3>1 DEF NotBought, ClaimableIsNotBought
    <3>2. CASE /\ request'[i].status = workers[w].outcome
               /\ \A j \in Items : j # i => request'[j] = request[j]
      <4>1. workers[w].outcome \in Outcomes
        BY <1>a DEF Worker
      <4>2. workers[w].outcome \in Claimable => upstream[i] = "none"
        BY <1>10, <4>1 DEF RecordOutcome, NotBought, UnsentIsNotBought, Unsent, Claimable,
           Outcomes, Refused
      <4> QED BY <2>2, <3>2, <4>2 DEF NotBought, ClaimableIsNotBought
    <3> QED BY <1>10, <1>a, <2>1, <3>1, <3>2 DEF RecordOutcome
  <2> QED BY <2>3, <2>4 DEF NotBought
<1>11. ASSUME NEW w \in Workers, Crash(w)
       PROVE  NotBought'
  BY <1>11, <1>a, StopEffect, NotBoughtStays DEF Crash, Unsent, At
<1>12. ASSUME NEW i \in Items, UpstreamAccepts(i) \/ UpstreamDelivers(i)
       PROVE  NotBought'
  <2>1. /\ request' = request /\ workers' = workers
        /\ \A j \in Items : upstream[j] = "none" => upstream'[j] = "none"
    BY <1>12, <1>a DEF UpstreamAccepts, UpstreamDelivers
  <2> QED
    BY <2>1, BusyItem DEF NotBought, ClaimableIsNotBought, UnsentIsNotBought, Unsent, At
<1>13. CASE \/ UNCHANGED vars
            \/ \E i \in Items : AdminHalts(i)
            \/ \E u \in Units : AdminTransitions(u)
  BY <1>13 DEF vars, AdminHalts, AdminTransitions, NotBought, ClaimableIsNotBought,
     UnsentIsNotBought, Unsent, At
<1> QED
  BY <1>1, <1>2, <1>3, <1>4, <1>5, <1>6, <1>7, <1>8, <1>9, <1>10, <1>11, <1>12, <1>13
     DEF Next, WorkerStep

(* A purchase is sent only while the supplier has no order for the item,   *)
(* however many calls there are and wherever they die, provided that the   *)
(* GET that completes a purchase is never answered with a rate limit.      *)
THEOREM BoughtOnce ==
    ASSUME "limited" \notin ReadFaults
    PROVE  Spec => PurchasedOnce
<1>1. Init => NotBought
  BY DEF Init, NotBought, ClaimableIsNotBought, UnsentIsNotBought, Unsent, At, Idle
<1>2. BuyInv /\ NotBought /\ [Next]_vars => NotBought'
  BY NotBoughtStep
<1>3. BuyInv /\ NotBought /\ [Next]_vars =>
        [\A w \in Workers :
           At(w, "purchase") /\ workers'[w].pc = "sent" => upstream[workers[w].item] = "none"]_vars
  BY DEF NotBought, UnsentIsNotBought, Unsent
<1> QED BY <1>1, <1>2, <1>3, BuyCorrect, PTL DEF Spec, PurchasedOnce

-----------------------------------------------------------------------------
(* The goods.                                                              *)

Goods == SuppliedAsBought /\ GoodsAreReal

(* Only a record says that an item was supplied, and no step takes it back. *)
LEMMA SuppliedColumn ==
    ASSUME BuyInv, Next, \A w \in Workers : ~RecordOutcome(w)
    PROVE  \A j \in Items : items'[j].supplied = items[j].supplied
<1>a. items \in [Items -> ItemRow] /\ workers \in [Workers -> Worker]
  BY Typed
<1>1. ASSUME NEW w \in Workers, DeliverLocal(w)
      PROVE  \A j \in Items : items'[j].supplied = items[j].supplied
  <2> DEFINE i == workers[w].item
  <2>1. i \in Items /\ items[i] \in ItemRow
    BY <1>1, <1>a, BusyItem DEF DeliverLocal, At
  <2>2. ASSUME NEW row \in ItemRow, NEW n, row.supplied = items[i].supplied,
               items' = [items EXCEPT ![i] = Refreshed(row, n, Qty[i])]
        PROVE  \A j \in Items : items'[j].supplied = items[j].supplied
    BY <1>a, <2>1, <2>2, RefreshedRow
  <2>3. ASSUME NEW taken \in SUBSET UnitsIn(i, "reserved")
        PROVE  LET short == Cardinality(taken) < Remaining(i)
                   row == [items[i] EXCEPT !.status = IF short THEN "failed" ELSE "processing",
                                           !.failedRow = items[i].failedRow \/ short]
               IN row \in ItemRow /\ row.supplied = items[i].supplied
    <3> DEFINE short == Cardinality(taken) < Remaining(i)
    <3>1. short \in BOOLEAN
      OBVIOUS
    <3> HIDE DEF short
    <3>2. LET row == [items[i] EXCEPT !.status = IF short THEN "failed" ELSE "processing",
                                      !.failedRow = items[i].failedRow \/ short]
          IN row \in ItemRow /\ row.supplied = items[i].supplied
      BY <2>1, <3>1 DEF ItemRow
    <3> QED BY <3>2 DEF short
  <2>4. \/ items' = items
        \/ items' = [items EXCEPT ![i] = Refreshed(items[i], DeliveredRows(i), Qty[i])]
        \/ \E taken \in SUBSET UnitsIn(i, "reserved") :
              LET short == Cardinality(taken) < Remaining(i)
                  row == [items[i] EXCEPT !.status = IF short THEN "failed" ELSE "processing",
                                          !.failedRow = items[i].failedRow \/ short] IN
              items' = [items EXCEPT ![i] =
                          Refreshed(row, DeliveredRows(i) + Cardinality(taken), Qty[i])]
    BY <1>1 DEF DeliverLocal
  <2> QED BY <2>1, <2>2, <2>3, <2>4
<1>2. ASSUME NEW w \in Workers, Claim(w)
      PROVE  \A j \in Items : items'[j].supplied = items[j].supplied
  BY <1>2, <1>a DEF Claim, ClaimPurchase, ClaimOpen, ItemRow
<1>3. ASSUME NEW i \in Items, AdminHalts(i)
      PROVE  \A j \in Items : items'[j].supplied = items[j].supplied
  BY <1>3, <1>a DEF AdminHalts, ItemRow
<1>4. CASE items' = items
  BY <1>4
<1> QED
  BY <1>1, <1>2, <1>3, <1>4 DEF Next, WorkerStep, ReserveLocal, LoadCandidate, StartReconcile,
     ReadProduct, SendPurchase, AnswerPurchase, ReadDelivered, ReadUndelivered, Crash,
     UpstreamAccepts, UpstreamDelivers, AdminTransitions

(* Only a claim of an unclaimed item and a record change a request. *)
LEMMA RequestColumn ==
    ASSUME BuyInv, Next, \A w \in Workers : ~RecordOutcome(w)
    PROVE  \A j \in Items :
             \/ request'[j] = request[j]
             \/ request[j].status \in Claimable /\ request'[j].status = "PURCHASING"
<1>a. request \in [Items -> RequestRow]
  BY Typed
<1>1. ASSUME NEW w \in Workers, Claim(w)
      PROVE  \A j \in Items :
               \/ request'[j] = request[j]
               \/ request[j].status \in Claimable /\ request'[j].status = "PURCHASING"
  BY <1>1, <1>a DEF Claim, ClaimPurchase, ClaimOpen, RequestRow
<1>2. CASE request' = request
  BY <1>2
<1> QED
  BY <1>1, <1>2 DEF Next, WorkerStep, ReserveLocal, DeliverLocal, LoadCandidate, StartReconcile,
     ReadProduct, SendPurchase, AnswerPurchase, ReadDelivered, ReadUndelivered, Crash,
     UpstreamAccepts, UpstreamDelivers, AdminHalts, AdminTransitions

(* What the supplier has delivered stays delivered. *)
LEMMA UpstreamColumn ==
    ASSUME BuyInv, Next
    PROVE  \A j \in Items : upstream[j] = "delivered" => upstream'[j] = "delivered"
<1>a. upstream \in [Items -> {"none", "asked", "accepted", "delivered"}]
  BY Typed
<1>1. ASSUME NEW w \in Workers, SendPurchase(w) \/ AnswerPurchase(w)
      PROVE  \A j \in Items : upstream[j] = "delivered" => upstream'[j] = "delivered"
  BY <1>1, <1>a DEF SendPurchase, AnswerPurchase, PurchaseRefused, PurchaseUnanswered,
     PurchaseAnswered, PurchaseReferenceUnread
<1>2. ASSUME NEW i \in Items, UpstreamAccepts(i) \/ UpstreamDelivers(i)
      PROVE  \A j \in Items : upstream[j] = "delivered" => upstream'[j] = "delivered"
  BY <1>2, <1>a DEF UpstreamAccepts, UpstreamDelivers
<1>3. CASE upstream' = upstream
  BY <1>3
<1> QED
  BY <1>1, <1>2, <1>3 DEF Next, WorkerStep, ReserveLocal, DeliverLocal, LoadCandidate,
     StartReconcile, Claim, ReadProduct, ReadDelivered, ReadUndelivered, RecordOutcome, Crash,
     AdminHalts, AdminTransitions

(* A step of w keeps the goods of the others real. *)
LEMMA OthersGoodsReal ==
    ASSUME BuyInv, GoodsAreReal, Next, NEW w \in Workers,
           \A v \in Workers : v # w =>
             /\ workers'[v].pc = workers[v].pc
             /\ workers'[v].item = workers[v].item
             /\ workers'[v].outcome = workers[v].outcome
             /\ workers'[v].code = workers[v].code,
           At(w, "record")' /\ workers'[w].outcome = "FULFILLED" =>
             upstream'[workers'[w].item] = "delivered" /\ workers'[w].code
    PROVE  GoodsAreReal'
<1>1. ASSUME NEW v \in Workers, v # w, At(v, "record")', workers'[v].outcome = "FULFILLED"
      PROVE  upstream'[workers'[v].item] = "delivered" /\ workers'[v].code
  <2>1. workers[v].item \in Items
    BY <1>1, BusyItem DEF At
  <2> QED BY <1>1, <2>1, UpstreamColumn DEF GoodsAreReal, At
<1> QED BY <1>1 DEF GoodsAreReal

LEMMA GoodsAreRealStep ==
    ASSUME BuyInv, GoodsAreReal, Next
    PROVE  GoodsAreReal'
<1>a. /\ upstream \in [Items -> {"none", "asked", "accepted", "delivered"}]
      /\ workers \in [Workers -> Worker]
  BY Typed
<1>b. ASSUME NEW w \in Workers, OthersStay(w), workers'[w].pc # "record"
      PROVE  GoodsAreReal'
  BY <1>b, OthersGoodsReal DEF OthersStay, At
<1>c. ASSUME NEW w \in Workers, NEW outcome \in Outcomes, NEW code \in BOOLEAN,
             Conclude(w, outcome, code), UNCHANGED upstream,
             outcome = "FULFILLED" => code /\ HasGoods(workers[w].item)
      PROVE  GoodsAreReal'
  <2>1. /\ OthersStay(w)
        /\ workers'[w].item = workers[w].item
        /\ workers'[w].outcome = outcome
        /\ workers'[w].code = code
    BY <1>a, <1>c, ConcludeEffect
  <2> QED BY <1>c, <2>1, OthersGoodsReal DEF OthersStay, HasGoods
<1>d. ASSUME NEW w \in Workers, NEW step \in Steps \ {"record"}, Move(w, step)
      PROVE  GoodsAreReal'
  BY <1>a, <1>b, <1>d, MoveEffect
<1>e. ASSUME NEW w \in Workers, Stop(w)
      PROVE  GoodsAreReal'
  BY <1>a, <1>b, <1>e, StopEffect
<1>1. ASSUME NEW w \in Workers, NEW i \in Items, ReserveLocal(w, i) \/ StartReconcile(w, i)
      PROVE  GoodsAreReal'
  BY <1>1, <1>a, <1>b, ReserveEffect, ReconcileEffect
<1>2. ASSUME NEW w \in Workers,
             DeliverLocal(w) \/ LoadCandidate(w) \/ SendPurchase(w) \/ RecordOutcome(w) \/ Crash(w)
      PROVE  GoodsAreReal'
  BY <1>2, <1>d, <1>e DEF DeliverLocal, LoadCandidate, SendPurchase, RecordOutcome, Crash, Steps
<1>3. ASSUME NEW w \in Workers, Claim(w)
      PROVE  GoodsAreReal'
  <2> DEFINE i == workers[w].item
  <2>1. i \in Items
    BY <1>3, BusyItem DEF Claim, At
  <2>2. CASE Stop(w)
    BY <1>e, <2>2
  <2>3. CASE ClaimPurchase(w, i)
    BY <1>a, <2>1, <2>3, ClaimEffect, OthersGoodsReal DEF At
  <2>4. CASE ClaimOpen(w, i)
    BY <1>a, <1>b, <2>1, <2>4, ClaimOpenEffect
  <2> QED BY <1>3, <2>2, <2>3, <2>4 DEF Claim
<1>4. ASSUME NEW w \in Workers, ReadProduct(w)
      PROVE  GoodsAreReal'
  <2>1. ASSUME NEW outcome \in {"PENDING", "NEEDS_INPUT", "FAILED_VALIDATION"},
               Conclude(w, outcome, FALSE)
        PROVE  GoodsAreReal'
    BY <1>4, <1>c, <2>1 DEF ReadProduct, Outcomes, Refused
  <2>2. CASE Move(w, "purchase")
    BY <1>d, <2>2 DEF Steps
  <2> QED BY <1>4, <2>1, <2>2 DEF ReadProduct
<1>5. ASSUME NEW w \in Workers, AnswerPurchase(w)
      PROVE  GoodsAreReal'
  <2> DEFINE i == workers[w].item
  <2>1. CASE PurchaseRefused(w, i)
    <3>1. PICK outcome \in {"FAILED", "PENDING"} : Conclude(w, outcome, FALSE)
      BY <2>1 DEF PurchaseRefused
    <3>2. OthersStay(w) /\ workers'[w].outcome = outcome
      BY <1>a, <3>1, ConcludeEffect DEF Outcomes, Refused
    <3> QED BY <3>1, <3>2, OthersGoodsReal DEF OthersStay
  <2>2. CASE PurchaseUnanswered(w)
    BY <1>c, <2>2 DEF PurchaseUnanswered, UnknownOutcome, Outcomes
  <2>3. CASE PurchaseAnswered(w, i)
    BY <1>c, <1>d, <2>3 DEF PurchaseAnswered, Outcomes, Steps
  <2>4. CASE PurchaseReferenceUnread(w, i)
    BY <1>c, <2>4 DEF PurchaseReferenceUnread, UnknownOutcome, Outcomes
  <2> QED BY <1>5, <2>1, <2>2, <2>3, <2>4 DEF AnswerPurchase
<1>6. ASSUME NEW w \in Workers, ReadDelivered(w)
      PROVE  GoodsAreReal'
  BY <1>6, <1>c DEF ReadDelivered, Outcomes
<1>7. ASSUME NEW w \in Workers, ReadUndelivered(w)
      PROVE  GoodsAreReal'
  BY <1>7, <1>c, <1>e DEF ReadUndelivered, Outcomes
<1>8. CASE workers' = workers
  <2>1. \A w \in Workers : At(w, "record") => workers[w].item \in Items
    BY BusyItem DEF At
  <2> QED BY <1>8, <2>1, UpstreamColumn DEF GoodsAreReal, At
<1> QED
  BY <1>1, <1>2, <1>3, <1>4, <1>5, <1>6, <1>7, <1>8 DEF Next, WorkerStep, UpstreamAccepts,
     UpstreamDelivers, AdminHalts, AdminTransitions

(* What a record that is accepted does to the item and its request. *)
LEMMA RecordEffect ==
    ASSUME BuyInv, NEW w \in Workers, RecordOutcome(w)
    PROVE  LET i == workers[w].item IN
           /\ i \in Items
           /\ upstream' = upstream
           /\ \/ request' = request /\ items' = items
              \/ /\ request[i].status = "PURCHASING"
                 /\ request'[i].status = workers[w].outcome
                 /\ request'[i].code = (request[i].code \/ workers[w].code)
                 /\ items'[i].supplied = (items[i].supplied \/ workers[w].outcome = "FULFILLED")
                 /\ \A j \in Items : j # i => request'[j] = request[j] /\ items'[j] = items[j]
<1> DEFINE i == workers[w].item
           outcome == workers[w].outcome
           code == request[i].code \/ workers[w].code
<1>a. items \in [Items -> ItemRow] /\ request \in [Items -> RequestRow]
  BY Typed
<1>1. i \in Items
  BY BusyItem DEF RecordOutcome, At
<1>2. CASE request' = request /\ items' = items
  BY <1>1, <1>2 DEF RecordOutcome
<1>3. CASE /\ Recordable(w, i)
           /\ request' = [request EXCEPT ![i] = [status |-> outcome, code |-> code]]
           /\ items' = [items EXCEPT ![i] = RecordedItem(i, outcome)]
  <2> DEFINE row == [items[i] EXCEPT !.status = StatusAfter(outcome),
                                     !.supplied = items[i].supplied \/ outcome = "FULFILLED"]
             n == Handed(i) + (IF row.supplied THEN 1 ELSE 0)
  <2>1. row \in ItemRow /\ row.supplied = (items[i].supplied \/ outcome = "FULFILLED")
    <3>1. StatusAfter(outcome) \in {"delivered", "failed", "processing"}
      BY DEF StatusAfter
    <3>2. (items[i].supplied \/ outcome = "FULFILLED") \in BOOLEAN
      OBVIOUS
    <3>3. items[i] \in ItemRow
      BY <1>a, <1>1
    <3> QED BY <3>1, <3>2, <3>3 DEF ItemRow
  <2>2. RecordedItem(i, outcome) = Refreshed(row, n, Qty[i])
    BY DEF RecordedItem
  <2>3. RecordedItem(i, outcome).supplied = row.supplied
    <3> HIDE DEF row, n
    <3> QED BY <2>1, <2>2, RefreshedRow
  <2>4. items'[i].supplied = (items[i].supplied \/ outcome = "FULFILLED")
    BY <1>a, <1>1, <1>3, <2>1, <2>3
  <2>5. /\ request'[i].status = outcome
        /\ request'[i].code = code
        /\ \A j \in Items : j # i => request'[j] = request[j] /\ items'[j] = items[j]
    BY <1>a, <1>1, <1>3
  <2> QED BY <1>1, <1>3, <2>4, <2>5 DEF RecordOutcome, Recordable
<1> QED BY <1>2, <1>3 DEF RecordOutcome

LEMMA GoodsStep ==
    ASSUME BuyInv, Goods, [Next]_vars
    PROVE  Goods'
<1>1. CASE UNCHANGED vars
  BY <1>1 DEF vars, Goods, SuppliedAsBought, GoodsAreReal, At
<1>2. CASE Next /\ \A w \in Workers : ~RecordOutcome(w)
  <2>1. \A i \in Items :
          /\ items'[i].supplied = items[i].supplied
          /\ upstream[i] = "delivered" => upstream'[i] = "delivered"
          /\ \/ request'[i] = request[i]
             \/ request[i].status # "FULFILLED" /\ request'[i].status # "FULFILLED"
    BY <1>2, SuppliedColumn, RequestColumn, UpstreamColumn DEF Claimable
  <2>2. SuppliedAsBought'
    BY <2>1 DEF Goods, SuppliedAsBought
  <2> QED BY <1>2, <2>2, GoodsAreRealStep DEF Goods
<1>3. ASSUME NEW w \in Workers, RecordOutcome(w), Next
      PROVE  Goods'
  <2> DEFINE i == workers[w].item
  <2>1. CASE request' = request /\ items' = items
    BY <1>3, <2>1, RecordEffect, GoodsAreRealStep DEF Goods, SuppliedAsBought
  <2>2. CASE /\ request[i].status = "PURCHASING"
             /\ request'[i].status = workers[w].outcome
             /\ request'[i].code = (request[i].code \/ workers[w].code)
             /\ items'[i].supplied = (items[i].supplied \/ workers[w].outcome = "FULFILLED")
             /\ \A j \in Items : j # i => request'[j] = request[j] /\ items'[j] = items[j]
    <3>1. i \in Items /\ upstream' = upstream
      BY <1>3, RecordEffect
    <3>2. ~items[i].supplied
      BY <2>2, <3>1 DEF Goods, SuppliedAsBought
    <3>3. workers[w].outcome = "FULFILLED" => upstream[i] = "delivered" /\ workers[w].code
      BY <1>3 DEF RecordOutcome, Goods, GoodsAreReal
    <3>4. SuppliedAsBought'
      BY <2>2, <3>1, <3>2, <3>3 DEF Goods, SuppliedAsBought
    <3> QED BY <1>3, <3>4, GoodsAreRealStep DEF Goods
  <2> QED BY <1>3, <2>1, <2>2, RecordEffect
<1> QED BY <1>1, <1>2, <1>3

(* What is recorded as supplied was delivered by the supplier, and the     *)
(* request, the delivered row and the supplier's order agree, whichever    *)
(* call brought the goods.                                                 *)
THEOREM RecordIsTrue == Spec => []SuppliedAsBought
<1>1. Init => Goods
  BY DEF Init, Goods, SuppliedAsBought, GoodsAreReal, At, Idle
<1>2. BuyInv /\ Goods /\ [Next]_vars => Goods'
  BY GoodsStep
<1>3. Goods => SuppliedAsBought
  BY DEF Goods
<1> QED BY <1>1, <1>2, <1>3, BuyCorrect, PTL DEF Spec

(* The late outcome of an attempt does not overwrite a fulfilled request.  *)
THEOREM FulfilledStays == Spec => FulfilledIsFinal
<1>1. BuyInv /\ [Next]_vars =>
        [\A i \in Items : request[i].status = "FULFILLED" => request'[i].status = "FULFILLED"]_vars
  <2> SUFFICES ASSUME BuyInv, Next
               PROVE  \A i \in Items :
                        request[i].status = "FULFILLED" => request'[i].status = "FULFILLED"
    OBVIOUS
  <2>1. CASE \A w \in Workers : ~RecordOutcome(w)
    BY <2>1, RequestColumn DEF Claimable
  <2>2. ASSUME NEW w \in Workers, RecordOutcome(w)
        PROVE  \A i \in Items :
                 request[i].status = "FULFILLED" => request'[i].status = "FULFILLED"
    BY <2>2, RecordEffect
  <2> QED BY <2>1, <2>2
<1> QED BY <1>1, BuyCorrect, PTL DEF Spec, FulfilledIsFinal

-----------------------------------------------------------------------------
(* Local goods.                                                            *)

(* No row belongs to an item that it is not reserved for or delivered to. *)
OwnedIsHeld ==
    \A u \in Units : units[u].owner # NoItem => units[u].state \in {"reserved", "delivered"}

Owned(i) == {u \in Units : units[u].owner = i}

Shelf == OwnedIsHeld /\ LocalGoodsWithinQuantity

-----------------------------------------------------------------------------
LEMMA ShelfTyped ==
    ASSUME BuyInv
    PROVE  /\ units \in [Units -> UnitRow]
           /\ workers \in [Workers -> Worker]
BY DEF BuyInv, TypeOK

(* What an item holds is what is reserved for it and what it received.     *)
LEMMA OwnedParts ==
    ASSUME BuyInv, OwnedIsHeld, NEW i \in Items
    PROVE  /\ Owned(i) = UnitsIn(i, "reserved") \cup UnitsIn(i, "delivered")
           /\ UnitsIn(i, "reserved") \cap UnitsIn(i, "delivered") = {}
BY ShelfTyped, SupplierAssumption DEF Owned, UnitsIn, OwnedIsHeld

LEMMA PartsFinite ==
    ASSUME NEW i \in Items, NEW state
    PROVE  IsFiniteSet(UnitsIn(i, state)) /\ Cardinality(UnitsIn(i, state)) \in Nat
<1>1. UnitsIn(i, state) \subseteq Units
  BY DEF UnitsIn
<1> QED BY <1>1, SupplierAssumption, FS_Subset, FS_CardinalityType

LEMMA RemainingFits ==
    ASSUME NEW i \in Items
    PROVE  /\ Remaining(i) \in Nat
           /\ Cardinality(UnitsIn(i, "delivered")) <= Qty[i] =>
                Remaining(i) + Cardinality(UnitsIn(i, "delivered")) <= Qty[i]
<1>1. Cardinality(UnitsIn(i, "delivered")) \in Nat
  BY PartsFinite
<1>2. Qty[i] \in Nat
  BY SupplierAssumption
<1> QED BY <1>1, <1>2 DEF Remaining, DeliveredRows, Handed

LEMMA ShelfStep ==
    ASSUME BuyInv, Shelf, [Next]_vars
    PROVE  Shelf'
<1>a. /\ units \in [Units -> UnitRow]
      /\ workers \in [Workers -> Worker]
  BY ShelfTyped
<1>b. \A j \in Items : Qty[j] \in Nat /\ j # NoItem
  BY SupplierAssumption
<1>1. ASSUME NEW w \in Workers, NEW i \in Items, ReserveLocal(w, i), units' # units
      PROVE  Shelf'
  <2>1. PICK picked \in SUBSET {u \in Units : units[u].state = "available"
                                              /\ units[u].owner = NoItem} :
          /\ Cardinality(picked) = Remaining(i)
          /\ units' = [u \in Units |->
                         IF u \in picked THEN [state |-> "reserved", owner |-> i]
                         ELSE units[u]]
    BY <1>1 DEF ReserveLocal
  <2>2. Reserved(i) = 0
    BY <1>1 DEF ReserveLocal
  <2>3. OwnedIsHeld'
    BY <2>1 DEF Shelf, OwnedIsHeld
  <2>4. \A j \in Items : j # i => Owned(j)' = Owned(j)
    BY <1>b, <2>1 DEF Owned
  <2>5. Owned(i)' = UnitsIn(i, "delivered") \cup picked
    <3>1. UnitsIn(i, "reserved") = {}
      BY <2>2, PartsFinite, FS_EmptySet DEF Reserved
    <3>2. Owned(i) = UnitsIn(i, "delivered")
      BY <3>1, OwnedParts DEF Shelf
    <3> QED BY <2>1, <3>2 DEF Owned
  <2>6. IsFiniteSet(picked)
    BY SupplierAssumption, FS_Subset
  <2>7. UnitsIn(i, "delivered") \cap picked = {}
    BY DEF UnitsIn
  <2>8. Cardinality(UnitsIn(i, "delivered")) <= Qty[i]
    <3>1. UnitsIn(i, "delivered") \subseteq Owned(i) /\ IsFiniteSet(Owned(i))
      BY SupplierAssumption, FS_Subset DEF UnitsIn, Owned
    <3>2. Cardinality(UnitsIn(i, "delivered")) <= Cardinality(Owned(i))
      BY <3>1, FS_Subset
    <3>3. Cardinality(Owned(i)) <= Qty[i]
      BY DEF Shelf, LocalGoodsWithinQuantity, Owned
    <3>4. Cardinality(Owned(i)) \in Nat
      BY <3>1, FS_CardinalityType
    <3> QED BY <1>b, <3>2, <3>3, <3>4, PartsFinite
  <2>9. Cardinality(Owned(i)') = Cardinality(UnitsIn(i, "delivered")) + Cardinality(picked)
    <3>1. Cardinality(UnitsIn(i, "delivered") \cap picked) = 0
      BY <2>7, FS_EmptySet
    <3>2. Cardinality(picked) \in Nat
      BY <2>6, FS_CardinalityType
    <3> DEFINE gone == UnitsIn(i, "delivered")
    <3>3. IsFiniteSet(gone) /\ Cardinality(gone) \in Nat
      BY PartsFinite
    <3> HIDE DEF gone
    <3>4. Cardinality(gone \cup picked) = Cardinality(gone) + Cardinality(picked) - Cardinality(gone \cap picked)
      BY <2>6, <3>3, FS_Union
    <3>5. Cardinality(gone \cup picked) = Cardinality(gone) + Cardinality(picked)
      BY <3>1, <3>2, <3>3, <3>4 DEF gone
    <3> QED BY <2>5, <3>5 DEF gone
  <2>10. Cardinality(Owned(i)') <= Qty[i]
    <3>1. Cardinality(UnitsIn(i, "delivered")) \in Nat
      BY PartsFinite
    <3> QED BY <1>b, <2>1, <2>8, <2>9, <3>1, RemainingFits
  <2>11. LocalGoodsWithinQuantity'
    BY <2>4, <2>10 DEF Shelf, LocalGoodsWithinQuantity, Owned
  <2> QED BY <2>3, <2>11 DEF Shelf
<1>2. ASSUME NEW w \in Workers, DeliverLocal(w), units' # units
      PROVE  Shelf'
  <2> DEFINE i == workers[w].item
  <2>1. i \in Items
    BY <1>2 DEF DeliverLocal, BuyInv, BusyOnItem, At
  <2>2. PICK taken \in SUBSET UnitsIn(i, "reserved") :
          units' = [u \in Units |->
                      IF u \in taken THEN [state |-> "delivered", owner |-> i]
                      ELSE units[u]]
    BY <1>2 DEF DeliverLocal
  <2>3. OwnedIsHeld' /\ \A j \in Items : Owned(j)' = Owned(j)
    BY <2>2 DEF Shelf, OwnedIsHeld, Owned, UnitsIn
  <2> QED BY <2>3 DEF Shelf, LocalGoodsWithinQuantity, Owned
<1>3. ASSUME NEW u \in Units, AdminTransitions(u)
      PROVE  Shelf'
  <2>1. OwnedIsHeld' /\ \A j \in Items : Owned(j)' = Owned(j)
    BY <1>3, <1>a DEF AdminTransitions, Shelf, OwnedIsHeld, Owned, UnitRow
  <2> QED BY <2>1 DEF Shelf, LocalGoodsWithinQuantity, Owned
<1>4. CASE units' = units
  BY <1>4 DEF Shelf, OwnedIsHeld, LocalGoodsWithinQuantity
<1> QED
  BY <1>1, <1>2, <1>3, <1>4 DEF Next, WorkerStep, LoadCandidate, StartReconcile, Claim,
     ReadProduct, SendPurchase, AnswerPurchase, ReadDelivered, ReadUndelivered, RecordOutcome,
     Crash, UpstreamAccepts, UpstreamDelivers, AdminHalts, vars

(* An item never holds more local goods than were bought, however many     *)
(* calls reserve and deliver for it.                                       *)
THEOREM NotMoreThanBought == Spec => []LocalGoodsWithinQuantity
<1>1. Init => Shelf
  <2> SUFFICES ASSUME Init
               PROVE  Shelf
    OBVIOUS
  <2>1. OwnedIsHeld
    BY DEF Init, OwnedIsHeld
  <2>2. ASSUME NEW i \in Items
        PROVE  Cardinality({u \in Units : units[u].owner = i}) <= Qty[i]
    <3>1. {u \in Units : units[u].owner = i} = {}
      BY SupplierAssumption DEF Init
    <3>2. Qty[i] \in Nat /\ 0 <= Qty[i]
      BY SupplierAssumption
    <3>3. Cardinality({}) = 0
      BY FS_EmptySet
    <3> QED BY <3>1, <3>2, <3>3
  <2> QED BY <2>1, <2>2 DEF Shelf, LocalGoodsWithinQuantity
<1>2. BuyInv /\ Shelf /\ [Next]_vars => Shelf'
  BY ShelfStep
<1>3. Shelf => LocalGoodsWithinQuantity
  BY DEF Shelf
<1> QED BY <1>1, <1>2, <1>3, BuyCorrect, PTL DEF Spec

(* Once an item has a supplier request, no call gives it local goods.      *)
THEOREM ShelfIsClosed == Spec => NoLocalGoodsAfterRequest
<1>1. BuyInv /\ [Next]_vars =>
        [\A i \in Items : HasRequest(i) =>
           \A u \in Units : units'[u].owner = i => units'[u] = units[u]]_vars
  <2> SUFFICES ASSUME BuyInv, Next, NEW i \in Items, HasRequest(i), NEW u \in Units,
                      units'[u].owner = i
               PROVE  units'[u] = units[u]
    OBVIOUS
  <2>a. units \in [Units -> UnitRow] /\ i # NoItem
    BY ShelfTyped, SupplierAssumption
  <2>1. ASSUME NEW w \in Workers, NEW j \in Items, ReserveLocal(w, j)
        PROVE  units'[u] = units[u]
    BY <2>1, <2>a DEF ReserveLocal, LocalAllowed
  <2>2. ASSUME NEW w \in Workers, DeliverLocal(w)
        PROVE  units'[u] = units[u]
    <3>1. CASE units' # units
      <4>1. LocalAllowed(workers[w].item)
        BY <2>2, <3>1 DEF DeliverLocal
      <4>2. PICK taken \in SUBSET UnitsIn(workers[w].item, "reserved") :
              units' = [v \in Units |->
                          IF v \in taken THEN [state |-> "delivered", owner |-> workers[w].item]
                          ELSE units[v]]
        BY <2>2, <3>1 DEF DeliverLocal
      <4>3. u \notin taken
        BY <4>1, <4>2 DEF LocalAllowed, UnitsIn
      <4> QED BY <4>2, <4>3
    <3>2. CASE units' = units
      BY <3>2
    <3> QED BY <3>1, <3>2
  <2>3. ASSUME NEW v \in Units, AdminTransitions(v)
        PROVE  units'[u] = units[u]
    BY <2>3, <2>a DEF AdminTransitions, UnitRow
  <2>4. CASE units' = units
    BY <2>4
  <2> QED
    BY <2>1, <2>2, <2>3, <2>4 DEF Next, WorkerStep, LoadCandidate, StartReconcile, Claim,
       ReadProduct, SendPurchase, AnswerPurchase, ReadDelivered, ReadUndelivered, RecordOutcome,
       Crash, UpstreamAccepts, UpstreamDelivers, AdminHalts
<1> QED BY <1>1, BuyCorrect, PTL DEF Spec, NoLocalGoodsAfterRequest
=============================================================================
