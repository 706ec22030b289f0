----------------------------- MODULE Bep20Proofs -----------------------------
(***************************************************************************)
(* Theorems about Bep20Payment, for any orders, sessions, transfers and    *)
(* server processes.                                                       *)
(*                                                                         *)
(* Every step is summarised by what it may do to a row of each table       *)
(* (Step); the invariant and the action properties follow from that.       *)
(*                                                                         *)
(* MoneyIsBacked: the wallet counts pieces of transfers (CreditedPieces),  *)
(* a credit adds pieces that were not counted, and a booked order owns as  *)
(* many others of the transfer it was paid with as it costs.               *)
(*                                                                         *)
(* ImplementsLedger: a step leaves who speaks for a transfer and what was  *)
(* credited of it alone, or is one of TransferLedger's.                    *)
(***************************************************************************)
EXTENDS Bep20Payment, TotalsProofs, WellFoundedInduction

Unmade == [order |-> NoOrder, payment |-> NoSession, status |-> "none", decision |-> "none",
           hash |-> NoTransfer, amount |-> 0, attempt |-> NoWorker]

(* A chain session has a payment session of its order's. *)
RowOK(s) ==
    LET row == sessions[s]
    IN  /\ row.order = NoOrder => row = Unmade /\ payments[s].status = "none"
        /\ row.order # NoOrder =>
             /\ row.status # "none"
             /\ row.payment \in Sessions
             /\ sessions[row.payment].order = row.order
             /\ payments[row.payment].status # "none"
        /\ row.decision = "approved" => s \in approvals
        /\ row.decision = "rejected" => row.status = "failed"
        /\ row.status = "manual_review" => row.hash # NoTransfer
        /\ row.status = "paid" => payments[row.payment].status = "paid"

(* What a transfer must have shown for the order to be booked with it. *)
Sufficient(p, t) ==
    /\ t # NoTransfer
    /\ Amount[t] >= Price[OrderOf(p)]
    /\ claims[t].session \in Of(OrderOf(p))
    /\ \/ {claims[t].session, p} \cap chain[t].lapsed = {} /\ chain[t].state = "final"
       \/ claims[t].session \in approvals

PaymentOK(p) ==
    payments[p].status = "paid" =>
        /\ OrderOf(p) # NoOrder
        /\ orders[OrderOf(p)] = "paid"
        /\ Sufficient(p, payments[p].tx)

HasPayment(o) == \E p \in Of(o) : payments[p].status = "paid"

(* What was credited besides a payment, or instead of one. *)
CreditsOK ==
    /\ \A s \in over  : OrderOf(s) # NoOrder /\ orders[OrderOf(s)] = "paid"
    /\ \A s \in under : OrderOf(s) # NoOrder /\ orders[OrderOf(s)] = "cancelled"

(* The transfer was final and made in time, or an administrator approved. *)
InTime(x) ==
    /\ chain[x.tx].state = "final"
    /\ {x.session, sessions[x.session].payment} \cap chain[x.tx].lapsed = {}

(* What a worker remembers is still true. *)
JobOK(x) ==
    /\ x.pc = "create" => x.order \in Orders
    /\ x.pc \notin {"idle", "create"} =>
         /\ x.session \in Sessions
         /\ OrderOf(x.session) # NoOrder
         /\ x.tx \in Transfers
         /\ x.approved => x.session \in approvals
    /\ x.pc \notin {"idle", "create", "read"}
          /\ x.result \in {"underpaid", "overpaid", "verified"} => InTime(x)
    /\ x.pc = "claim" => x.result \in Verdicts
    /\ x.pc = "settle" => x.result = "overpaid"
    /\ x.pc \in {"prepare", "complete"} =>
         /\ claims[x.tx].session = x.session
         /\ x.approved \/ x.result = "verified"
    /\ x.pc = "complete" => Amount[x.tx] >= Price[OrderOf(x.session)]
    /\ x.pc = "finish" => payments[sessions[x.session].payment].status = "paid"

(* What is registered for a recharge is no order's.                        *)
RegistryOK ==
    /\ recharged \subseteq registered
    /\ \A t \in registered : claims[t].session = NoSession

IInv ==
    /\ TypeOK
    /\ RegistryOK
    /\ \A s \in Sessions : RowOK(s) /\ PaymentOK(s)
    /\ \A o \in Orders : orders[o] = "paid" => HasPayment(o)
    /\ CreditsOK
    /\ \A w \in Workers : JobOK(workers[w])

-----------------------------------------------------------------------------
(* What a step may do to a row.                                            *)

Created(s) ==
    /\ OrderOf(s) = NoOrder
    /\ \E o \in Orders, p \in Sessions :
         /\ sessions'[s] = [sessions[s] EXCEPT !.order = o, !.payment = p,
                                               !.status = "waiting_payment"]
         /\ p = s \/ OrderOf(p) = o
         /\ payments'[p].status = "pending"

Rewritten(s) ==
    /\ OrderOf(s) # NoOrder
    /\ sessions[s].status # "paid"
    /\ sessions[s].decision # "rejected"
    /\ sessions'[s].order = sessions[s].order
    /\ sessions'[s].payment = sessions[s].payment
    /\ sessions'[s].status # "none"
    /\ sessions'[s].decision = "approved" => s \in approvals'
    /\ sessions'[s].decision = "rejected" => sessions'[s].status = "failed"
    /\ sessions'[s].status = "manual_review" => sessions'[s].hash # NoTransfer
    /\ sessions'[s].status = "paid" => payments'[sessions[s].payment].status = "paid"

SessionsStep ==
    /\ sessions' \in [Sessions -> SessionRow]
    /\ \A s \in Sessions : sessions'[s] = sessions[s] \/ Created(s) \/ Rewritten(s)

(* Only a payment session nobody has paid yet changes. *)
Paying(p) ==
    /\ payments[p].status \notin {"paid", "expired", "closed"}
    /\ payments'[p].status # "none"
    /\ sessions'[p].order # NoOrder
    /\ payments'[p].status = "paid" =>
         /\ OrderOf(p) # NoOrder
         /\ orders'[OrderOf(p)] = "paid"
         /\ Sufficient(p, payments[p].tx)'

PaymentsStep ==
    /\ payments' \in [Sessions -> PaymentRow]
    /\ \A p \in Sessions : payments'[p] = payments[p] \/ Paying(p)

OrdersStep ==
    /\ orders' \in [Orders -> OrderStatus]
    /\ \A o \in Orders :
         \/ orders'[o] = orders[o]
         \/ orders[o] \notin {"paid", "cancelled"} /\ (orders'[o] = "paid" => HasPayment(o)')

(* What the chain has shown of a transfer it shows for ever. *)
ChainStep ==
    /\ chain' \in [Transfers -> TransferRow]
    /\ \A t \in Transfers : chain[t].state = "final" => chain'[t] = chain[t]

ClaimsStep ==
    /\ claims' \in [Transfers -> ClaimRow]
    /\ registered' \in SUBSET Transfers
    /\ recharged' \in SUBSET Transfers
    /\ RegistryOK'
    /\ \A t \in Transfers : claims[t].session # NoSession =>
           claims'[t].session = claims[t].session /\ (t \in recharged' => t \in recharged)

CreditsStep ==
    /\ wallet' \in Nat
    /\ over' \in SUBSET Sessions
    /\ under' \in SUBSET Sessions
    /\ \A s \in over' \ over : OrderOf(s) # NoOrder /\ orders'[OrderOf(s)] = "paid"
    /\ \A s \in under' \ under : OrderOf(s) # NoOrder /\ orders'[OrderOf(s)] = "cancelled"

ApprovalsStep == approvals' \in SUBSET Sessions /\ approvals \subseteq approvals'

ClockStep == due' \in SUBSET Orders /\ lapsed' \in SUBSET Sessions

WorkersStep ==
    /\ workers' \in [Workers -> Worker]
    /\ \A w \in Workers : workers'[w] = workers[w] \/ JobOK(workers[w])'

TablesStep ==
    /\ SessionsStep
    /\ PaymentsStep
    /\ OrdersStep
    /\ ChainStep
    /\ ClaimsStep
    /\ CreditsStep
    /\ ApprovalsStep
    /\ ClockStep

Step == TablesStep /\ WorkersStep

-----------------------------------------------------------------------------
(* The invariant is kept by every step of that kind.                       *)

LEMMA Typed ==
    ASSUME IInv
    PROVE  /\ orders \in [Orders -> OrderStatus]
           /\ sessions \in [Sessions -> SessionRow]
           /\ payments \in [Sessions -> PaymentRow]
           /\ chain \in [Transfers -> TransferRow]
           /\ claims \in [Transfers -> ClaimRow]
           /\ workers \in [Workers -> Worker]
BY DEF IInv, TypeOK

(* A chain session that has been made keeps its order and its payment      *)
(* session.                                                                *)
LEMMA SessionKept ==
    ASSUME IInv, SessionsStep, NEW s \in Sessions, OrderOf(s) # NoOrder
    PROVE  /\ OrderOf(s)' = OrderOf(s)
           /\ sessions'[s].payment = sessions[s].payment
           /\ sessions[s].payment \in Sessions
           /\ OrderOf(s) \in Orders
<1>1. /\ sessions[s].payment \in Sessions
      /\ sessions[s] \in SessionRow
  BY Typed DEF IInv, RowOK, OrderOf
<1>2. OrderOf(s) \in Orders
  BY <1>1 DEF SessionRow, OrderOf
<1>3. sessions'[s] = sessions[s] \/ Rewritten(s)
  BY DEF SessionsStep, Created
<1> QED
  BY <1>1, <1>2, <1>3 DEF Rewritten, OrderOf

(* So what a transfer has shown for a payment it goes on showing. *)
LEMMA SufficientKept ==
    ASSUME IInv, SessionsStep, ChainStep, ClaimsStep, ApprovalsStep, NEW p \in Sessions, NEW t \in Transfers,
           OrderOf(p) # NoOrder, Sufficient(p, t)
    PROVE  Sufficient(p, t)'
<1>1. OrderOf(p)' = OrderOf(p)
  BY SessionKept
<1>2. /\ claims[t].session \in Sessions
      /\ OrderOf(claims[t].session) = OrderOf(p)
  BY DEF Sufficient, Of
<1>3. claims'[t].session = claims[t].session
  BY <1>2, Bep20Assumption DEF ClaimsStep
<1>4. OrderOf(claims[t].session)' = OrderOf(p)
  <2> DEFINE s == claims[t].session
  <2>1. s \in Sessions /\ OrderOf(s) # NoOrder
    BY <1>2
  <2> HIDE DEF s
  <2>2. sessions'[s].order = sessions[s].order
    BY <2>1, SessionKept DEF OrderOf
  <2> QED
    BY <1>2, <1>3, <2>2 DEF s, OrderOf
<1>5. claims'[t].session \in Of(OrderOf(p))'
  BY <1>1, <1>2, <1>3, <1>4 DEF Of, OrderOf
<1>6. chain[t].state = "final" => chain'[t] = chain[t]
  BY DEF ChainStep
<1>7. approvals \subseteq approvals'
  BY DEF ApprovalsStep
<1> QED
  BY <1>1, <1>3, <1>5, <1>6, <1>7 DEF Sufficient

LEMMA RowsKept ==
    ASSUME IInv, Step, NEW s \in Sessions
    PROVE  RowOK(s)'
<1> USE Typed
<1>a. RowOK(s)
  BY DEF IInv
<1>b. \A p \in Sessions : payments[p].status # "none" => payments'[p].status # "none"
  BY DEF Step, TablesStep, PaymentsStep, Paying
<1>c. \A p \in Sessions : payments[p].status = "paid" => payments'[p].status = "paid"
  BY DEF Step, TablesStep, PaymentsStep, Paying
<1>d. approvals \subseteq approvals'
  BY DEF Step, TablesStep, ApprovalsStep
<1>1. CASE sessions'[s] = sessions[s] /\ OrderOf(s) = NoOrder
  <2>1. sessions'[s] = Unmade /\ payments[s].status = "none"
    BY <1>1, <1>a DEF RowOK, OrderOf
  <2>2. payments'[s].status = "none"
    BY <1>1, <2>1 DEF Step, TablesStep, PaymentsStep, Paying, OrderOf
  <2> QED
    BY <1>1, <2>1, <2>2 DEF RowOK, Unmade
<1>2. CASE sessions'[s] = sessions[s] /\ OrderOf(s) # NoOrder
  <2>1. sessions[s].payment \in Sessions /\ OrderOf(sessions[s].payment) = OrderOf(s)
    BY <1>2, <1>a DEF RowOK, OrderOf
  <2>2. sessions'[sessions[s].payment].order = sessions[s].order
    BY <1>2, <2>1, SessionKept DEF Step, TablesStep, OrderOf
  <2> QED
    BY <1>2, <1>a, <1>b, <1>c, <1>d, <2>1, <2>2 DEF RowOK, OrderOf
<1>3. CASE Created(s)
  <2>1. PICK o \in Orders, p \in Sessions :
          /\ sessions'[s] = [sessions[s] EXCEPT !.order = o, !.payment = p,
                                                !.status = "waiting_payment"]
          /\ p = s \/ OrderOf(p) = o
          /\ payments'[p].status = "pending"
    BY <1>3 DEF Created
  <2>2. sessions[s] = Unmade
    BY <1>3, <1>a DEF Created, RowOK, OrderOf
  <2>3. sessions'[s] = [Unmade EXCEPT !.order = o, !.payment = p, !.status = "waiting_payment"]
    BY <2>1, <2>2
  <2>4. sessions'[p].order = o
    <3>1. CASE p = s
      BY <2>3, <3>1 DEF Unmade
    <3>2. CASE OrderOf(p) = o
      <4>1. OrderOf(p) # NoOrder
        BY <3>2, Bep20Assumption
      <4>2. OrderOf(p)' = OrderOf(p)
        BY <4>1, SessionKept DEF Step, TablesStep
      <4> QED
        BY <3>2, <4>2 DEF OrderOf
    <3> QED BY <2>1, <3>1, <3>2
  <2> QED
    <3>1. /\ sessions'[s].order = o
          /\ sessions'[s].payment = p
          /\ sessions'[s].status = "waiting_payment"
          /\ sessions'[s].decision = "none"
      BY <2>3 DEF Unmade
    <3>2. o # NoOrder /\ payments'[p].status # "none"
      BY <2>1, Bep20Assumption
    <3> QED
      BY <2>4, <3>1, <3>2 DEF RowOK
<1>4. CASE Rewritten(s)
  <2>1. sessions[s].payment \in Sessions /\ OrderOf(sessions[s].payment) = OrderOf(s)
    BY <1>4, <1>a DEF RowOK, Rewritten, OrderOf
  <2>2. sessions'[sessions[s].payment].order = sessions[s].order
    BY <1>4, <2>1, SessionKept DEF Step, TablesStep, OrderOf, Rewritten
  <2>3. payments'[sessions[s].payment].status # "none"
    BY <1>4, <1>a, <1>b DEF RowOK, Rewritten, OrderOf
  <2> QED
    BY <1>4, <2>1, <2>2, <2>3 DEF RowOK, Rewritten, OrderOf
<1> QED
  BY <1>1, <1>2, <1>3, <1>4 DEF Step, TablesStep, SessionsStep

LEMMA PaymentsKept ==
    ASSUME IInv, Step, NEW p \in Sessions
    PROVE  PaymentOK(p)'
<1> SUFFICES ASSUME payments'[p].status = "paid"
             PROVE  /\ OrderOf(p)' # NoOrder
                    /\ orders[OrderOf(p)]' = "paid"
                    /\ Sufficient(p, payments[p].tx)'
  BY DEF PaymentOK
<1>1. CASE payments'[p] = payments[p]
  <2>1. /\ OrderOf(p) # NoOrder
        /\ orders[OrderOf(p)] = "paid"
        /\ Sufficient(p, payments[p].tx)
    BY <1>1 DEF IInv, PaymentOK
  <2>2. payments[p].tx \in Transfers
    BY <2>1, Typed DEF Sufficient, PaymentRow
  <2>3. OrderOf(p)' = OrderOf(p) /\ OrderOf(p) \in Orders
    BY <2>1, SessionKept DEF Step, TablesStep
  <2>4. orders'[OrderOf(p)] = "paid"
    BY <2>1, <2>3 DEF Step, TablesStep, OrdersStep
  <2>5. PICK t \in Transfers : t = payments[p].tx
    BY <2>2
  <2>6. Sufficient(p, t)'
    BY <2>1, <2>5, SufficientKept DEF Step, TablesStep
  <2>7. payments'[p].tx = t
    BY <1>1, <2>5
  <2>8. Sufficient(p, payments[p].tx)'
    BY <2>6, <2>7 DEF Sufficient
  <2> QED
    BY <2>1, <2>3, <2>4, <2>8
<1>2. CASE Paying(p)
  <2>1. /\ OrderOf(p) # NoOrder
        /\ orders'[OrderOf(p)] = "paid"
        /\ Sufficient(p, payments[p].tx)'
    BY <1>2 DEF Paying
  <2>2. OrderOf(p)' = OrderOf(p)
    BY <2>1, SessionKept DEF Step, TablesStep
  <2> QED
    BY <2>1, <2>2
<1> QED
  BY <1>1, <1>2 DEF Step, TablesStep, PaymentsStep

LEMMA OrdersKept ==
    ASSUME IInv, Step, NEW o \in Orders, orders'[o] = "paid"
    PROVE  HasPayment(o)'
<1>1. CASE orders'[o] = orders[o]
  <2>1. PICK p \in Of(o) : payments[p].status = "paid"
    BY <1>1 DEF IInv, HasPayment
  <2>2. p \in Sessions /\ OrderOf(p) = o /\ OrderOf(p) # NoOrder
    BY <2>1, Bep20Assumption DEF Of
  <2>3. OrderOf(p)' = o
    BY <2>2, SessionKept DEF Step, TablesStep
  <2>4. payments'[p].status = "paid"
    BY <2>1, <2>2 DEF Step, TablesStep, PaymentsStep, Paying
  <2> QED
    BY <2>2, <2>3, <2>4 DEF HasPayment, Of
<1>2. CASE orders'[o] # orders[o]
  BY <1>2 DEF Step, TablesStep, OrdersStep
<1> QED
  BY <1>1, <1>2

LEMMA CreditsKept ==
    ASSUME IInv, Step
    PROVE  CreditsOK'
<1>1. ASSUME NEW s \in Sessions, OrderOf(s) # NoOrder, NEW end \in {"paid", "cancelled"},
             orders[OrderOf(s)] = end \/ orders'[OrderOf(s)] = end
      PROVE  OrderOf(s)' # NoOrder /\ orders[OrderOf(s)]' = end
  <2>1. OrderOf(s)' = OrderOf(s) /\ OrderOf(s) \in Orders
    BY <1>1, SessionKept DEF Step, TablesStep
  <2>2. orders'[OrderOf(s)] = end
    BY <1>1, <2>1 DEF Step, TablesStep, OrdersStep
  <2> QED
    BY <1>1, <2>1, <2>2
<1>2. over \in SUBSET Sessions /\ under \in SUBSET Sessions
  BY DEF IInv, TypeOK
<1>3. ASSUME NEW s \in over'
      PROVE  OrderOf(s)' # NoOrder /\ orders[OrderOf(s)]' = "paid"
  <2>1. s \in Sessions /\ OrderOf(s) # NoOrder
    BY <1>2, <1>3 DEF Step, TablesStep, CreditsStep, IInv, CreditsOK
  <2>2. orders[OrderOf(s)] = "paid" \/ orders'[OrderOf(s)] = "paid"
    BY <1>3 DEF Step, TablesStep, CreditsStep, IInv, CreditsOK
  <2> QED
    BY <1>1, <2>1, <2>2
<1>4. ASSUME NEW s \in under'
      PROVE  OrderOf(s)' # NoOrder /\ orders[OrderOf(s)]' = "cancelled"
  <2>1. s \in Sessions /\ OrderOf(s) # NoOrder
    BY <1>2, <1>4 DEF Step, TablesStep, CreditsStep, IInv, CreditsOK
  <2>2. orders[OrderOf(s)] = "cancelled" \/ orders'[OrderOf(s)] = "cancelled"
    BY <1>4 DEF Step, TablesStep, CreditsStep, IInv, CreditsOK
  <2> QED
    BY <1>1, <2>1, <2>2
<1> QED
  BY <1>3, <1>4 DEF CreditsOK

(* What a worker remembers stays true whatever the others do. *)
LEMMA JobKept ==
    ASSUME IInv, TablesStep, NEW x \in Worker, JobOK(x)
    PROVE  JobOK(x)'
<1> DEFINE s == x.session
           t == x.tx
<1>1. CASE x.pc \in {"idle", "create"}
  BY <1>1 DEF JobOK
<1>2. CASE x.pc \notin {"idle", "create"}
  <2>1. s \in Sessions /\ OrderOf(s) # NoOrder /\ t \in Transfers
    BY <1>2 DEF JobOK
  <2>2. /\ OrderOf(s)' = OrderOf(s)
        /\ sessions'[s].payment = sessions[s].payment
        /\ sessions[s].payment \in Sessions
    BY <2>1, SessionKept DEF TablesStep
  <2>3. x.approved => s \in approvals'
    BY <1>2 DEF JobOK, TablesStep, ApprovalsStep
  <2>4. InTime(x) => InTime(x)'
    BY <2>1, <2>2 DEF InTime, TablesStep, ChainStep
  <2>5. claims[t].session = s => claims'[t].session = s
    BY <2>1, Bep20Assumption DEF TablesStep, ClaimsStep
  <2>6. payments[sessions[s].payment].status = "paid" =>
          payments'[sessions'[s].payment].status = "paid"
    BY <2>2 DEF TablesStep, PaymentsStep, Paying
  <2> QED
    BY <1>2, <2>1, <2>2, <2>3, <2>4, <2>5, <2>6 DEF JobOK
<1> QED
  BY <1>1, <1>2

LEMMA WorkersKept ==
    ASSUME IInv, Step
    PROVE  /\ workers' \in [Workers -> Worker]
           /\ \A w \in Workers : JobOK(workers[w])'
<1>a. workers \in [Workers -> Worker]
  BY Typed
<1>b. ASSUME NEW v \in Workers, workers'[v] = workers[v]
      PROVE  JobOK(workers[v])'
  <2>1. PICK x \in Worker : x = workers[v]
    BY <1>a
  <2>2. JobOK(x)
    BY <2>1 DEF IInv
  <2>3. JobOK(x)'
    BY <2>2, JobKept DEF Step
  <2>4. x = workers'[v]
    BY <1>b, <2>1
  <2> QED
    BY <2>3, <2>4 DEF JobOK, InTime
<1> QED
  BY <1>b DEF Step, TablesStep, WorkersStep

LEMMA StepKeepsIInv ==
    ASSUME IInv, Step
    PROVE  IInv'
<1>1. TypeOK'
  BY WorkersKept DEF TypeOK, Step, TablesStep, SessionsStep, PaymentsStep, OrdersStep, ChainStep,
     ClaimsStep, CreditsStep, ApprovalsStep, ClockStep
<1>2. \A s \in Sessions : (RowOK(s) /\ PaymentOK(s))'
  BY RowsKept, PaymentsKept
<1>3. \A o \in Orders : (orders[o] = "paid" => HasPayment(o))'
  BY OrdersKept
<1>4. RegistryOK'
  BY DEF Step, TablesStep, ClaimsStep
<1> QED
  BY <1>1, <1>2, <1>3, <1>4, CreditsKept, WorkersKept DEF IInv

-----------------------------------------------------------------------------
(* Sessions are numbered, so the latest of some is one of them.            *)

LEMMA MaxIn ==
    ASSUME NEW S \in SUBSET Sessions, S # {}
    PROVE  Max(S) \in S
<1>a. IsFiniteSet(S) /\ S \subseteq Nat
  BY Bep20Assumption, FS_Subset
<1> DEFINE Above(x) == {y \in S : y > x}
           Counts == {Cardinality(Above(x)) : x \in S}
<1>b. \A x \in S : IsFiniteSet(Above(x)) /\ Cardinality(Above(x)) \in Nat
  BY <1>a, FS_Subset, FS_CardinalityType
<1>1. PICK n \in Counts : \A m \in Counts : ~ (m < n)
  <2>1. Counts \subseteq Nat /\ Counts # {}
    BY <1>b
  <2> HIDE DEF Counts
  <2>2. \E n \in Counts : \A m \in Counts : <<m, n>> \notin OpToRel(<, Nat)
    BY <2>1, NatLessThanWellFounded, WFMin
  <2> QED
    BY <2>1, <2>2 DEF OpToRel
<1>2. PICK x \in S : n = Cardinality(Above(x))
  OBVIOUS
<1>3. ASSUME NEW y \in S, y > x
      PROVE  FALSE
  <2>1. Above(y) \in SUBSET Above(x) /\ y \in Above(x) /\ y \notin Above(y)
    <3>1. x \in Nat /\ y \in Nat /\ \A z \in S : z \in Nat
      BY <1>a
    <3>2. \A z \in Above(y) : z \in Above(x)
      BY <1>3, <3>1
    <3>3. y \in Above(x) /\ y \notin Above(y)
      BY <1>3, <3>1
    <3> QED
      BY <3>2, <3>3
  <2>2. Cardinality(Above(y)) <= Cardinality(Above(x)) /\ Cardinality(Above(y)) # Cardinality(Above(x))
    <3>1. IsFiniteSet(Above(x)) /\ Cardinality(Above(x)) \in Nat /\ Cardinality(Above(y)) \in Nat
      BY <1>b
    <3>2. Above(y) # Above(x)
      BY <2>1
    <3> HIDE DEF Above
    <3> QED
      BY <2>1, <3>1, <3>2, FS_Subset
  <2>3. Cardinality(Above(y)) < n
    BY <1>2, <1>b, <2>2
  <2> QED
    BY <1>1, <2>3
<1>4. \E m \in S : \A y \in S : m >= y
  BY <1>a, <1>3
<1> QED
  BY <1>4 DEF Max

LEMMA PickedIn ==
    ASSUME NEW o, Picked(o) # NoSession \/ Of(o) # {}
    PROVE  Picked(o) \in Of(o)
<1>1. Of(o) \in SUBSET Sessions /\ ActiveOf(o) \ lapsed \in SUBSET Of(o)
  BY DEF Of, ActiveOf
<1>2. \A S \in SUBSET Of(o) : Latest(S) = NoSession \/ Latest(S) \in S
  BY <1>1, MaxIn DEF Latest
<1>3. Of(o) # {} => Latest(Of(o)) \in Of(o)
  BY <1>1, MaxIn DEF Latest
<1> QED
  BY <1>1, <1>2, <1>3 DEF Picked, Reusable, Latest

-----------------------------------------------------------------------------
(* Lemmas about what a step leaves alone and what one worker does.         *)

LEMMA Untouched ==
    ASSUME IInv
    PROVE  /\ UNCHANGED sessions => SessionsStep
           /\ UNCHANGED payments => PaymentsStep
           /\ UNCHANGED orders => OrdersStep
           /\ UNCHANGED chain => ChainStep
           /\ UNCHANGED <<claims, registered, recharged>> => ClaimsStep
           /\ UNCHANGED <<wallet, over, under>> => CreditsStep
           /\ UNCHANGED approvals => ApprovalsStep
           /\ UNCHANGED clock => ClockStep
           /\ UNCHANGED workers => WorkersStep
BY DEF IInv, TypeOK, RegistryOK, SessionsStep, PaymentsStep, OrdersStep, ChainStep, ClaimsStep, CreditsStep,
   ApprovalsStep, ClockStep, WorkersStep, clock

LEMMA JobFacts ==
    ASSUME IInv, NEW w \in Workers
    PROVE  /\ workers[w] \in Worker
           /\ JobOK(workers[w])
           /\ ~ At(w, "idle") /\ ~ At(w, "create") =>
                /\ Job(w) \in Sessions
                /\ sessions[Job(w)] \in SessionRow
                /\ OrderOf(Job(w)) \in Orders
                /\ OrderOf(Job(w)) # NoOrder
                /\ RowOK(Job(w))
                /\ Tx(w) \in Transfers
<1>1. workers[w] \in Worker /\ JobOK(workers[w])
  BY Typed DEF IInv
<1>2. ASSUME ~ At(w, "idle"), ~ At(w, "create")
      PROVE  Job(w) \in Sessions /\ OrderOf(Job(w)) # NoOrder /\ Tx(w) \in Transfers
  BY <1>1, <1>2 DEF JobOK, At, Job, Tx
<1>3. ASSUME NEW s \in Sessions, OrderOf(s) # NoOrder
      PROVE  RowOK(s) /\ sessions[s] \in SessionRow /\ OrderOf(s) \in Orders
  <2>1. RowOK(s) /\ sessions[s] \in SessionRow
    BY Typed DEF IInv
  <2> QED
    BY <1>3, <2>1 DEF SessionRow, OrderOf
<1>4. ~ At(w, "idle") /\ ~ At(w, "create") =>
        Job(w) \in Sessions /\ OrderOf(Job(w)) # NoOrder /\ Tx(w) \in Transfers
  BY <1>2
<1> QED
  BY <1>1, <1>3, <1>4

LEMMA WorkerStep ==
    ASSUME IInv, NEW w \in Workers, NEW x \in Worker, workers' = [workers EXCEPT ![w] = x],
           JobOK(x)'
    PROVE  WorkersStep
<1>1. /\ workers' \in [Workers -> Worker]
      /\ workers'[w] = x
      /\ \A v \in Workers : v # w => workers'[v] = workers[v]
  BY Typed
<1>2. JobOK(workers[w])'
  BY <1>1 DEF JobOK, InTime
<1> QED
  BY <1>1, <1>2 DEF WorkersStep

LEMMA StopStep ==
    ASSUME IInv, NEW w \in Workers, Stop(w)
    PROVE  WorkersStep
<1>1. PICK x \in Worker : x = Idle
  BY DEF Idle, Worker, Steps, Verdicts
<1>2. JobOK(x)'
  BY <1>1 DEF Idle, JobOK
<1> QED
  BY <1>1, <1>2, WorkerStep DEF Stop

(* A worker that goes on with what it knows. *)
LEMMA MoveStep ==
    ASSUME IInv, TablesStep, NEW w \in Workers, NEW step \in Steps, Move(w, step),
           JobOK([workers[w] EXCEPT !.pc = step])
    PROVE  WorkersStep
<1>1. PICK x \in Worker : x = [workers[w] EXCEPT !.pc = step]
  BY Typed DEF Worker
<1>2. workers' = [workers EXCEPT ![w] = x]
  BY <1>1, Typed DEF Move
<1>3. JobOK(x)'
  BY <1>1, JobKept
<1> QED
  BY <1>2, <1>3, WorkerStep

LEMMA OnlyWorkers ==
    ASSUME IInv, WorkersStep,
           UNCHANGED <<orders, sessions, payments, chain, claims, approvals, money, clock>>
    PROVE  Step
BY Untouched DEF Step, TablesStep, money, clock

LEMMA RewriteStep ==
    ASSUME IInv, NEW s \in Sessions, NEW row \in SessionRow,
           sessions' = [sessions EXCEPT ![s] = row], Rewritten(s)
    PROVE  SessionsStep
BY Typed DEF SessionsStep

-----------------------------------------------------------------------------
(* The steps, one by one: those of the chain and of time.                  *)

LEMMA TimeSteps ==
    ASSUME IInv,
           \/ \E o \in Orders : DeadlinePasses(o)
           \/ \E s \in Sessions : SessionLapses(s)
           \/ \E t \in Transfers : MakeTransfer(t) \/ TransferConfirms(t)
    PROVE  Step
<1> USE Untouched
<1>a. due \in SUBSET Orders /\ lapsed \in SUBSET Sessions
  BY DEF IInv, TypeOK
<1>1. ASSUME NEW o \in Orders, DeadlinePasses(o)
      PROVE  Step
  <2>1. ClockStep
    BY <1>1, <1>a DEF DeadlinePasses, ClockStep
  <2> QED
    BY <1>1, <2>1 DEF DeadlinePasses, Step, TablesStep, money
<1>2. ASSUME NEW s \in Sessions, SessionLapses(s)
      PROVE  Step
  <2>1. ClockStep
    BY <1>2, <1>a DEF SessionLapses, ClockStep
  <2> QED
    BY <1>2, <2>1 DEF SessionLapses, Step, TablesStep, money
<1>3. ASSUME NEW t \in Transfers, MakeTransfer(t)
      PROVE  Step
  <2>1. PICK contested \in BOOLEAN : contested = MayPayOrder(t)
    BY DEF MayPayOrder
  <2>2. chain[t].state = "unsent" /\ chain' \in [Transfers -> TransferRow]
    <3>1. CASE chain' = [chain EXCEPT ![t].state = "failed"]
      BY <1>3, <3>1, Typed DEF MakeTransfer, TransferRow
    <3>2. CASE chain' = [chain EXCEPT ![t] = [state |-> "mined", due |-> due, lapsed |-> lapsed,
                                              contested |-> MayPayOrder(t)]]
      <4>1. [state |-> "mined", due |-> due, lapsed |-> lapsed, contested |-> contested]
              \in TransferRow
        BY <1>a DEF TransferRow
      <4>2. chain' = [chain EXCEPT ![t] = [state |-> "mined", due |-> due, lapsed |-> lapsed,
                                           contested |-> contested]]
        BY <2>1, <3>2
      <4> QED
        BY <1>3, <4>1, <4>2, Typed DEF MakeTransfer
    <3> QED
      BY <1>3, <3>1, <3>2 DEF MakeTransfer
  <2>3. \A u \in Transfers \ {t} : chain'[u] = chain[u]
    BY <1>3, Typed DEF MakeTransfer
  <2>4. ChainStep
    BY <2>2, <2>3 DEF ChainStep
  <2> QED
    BY <1>3, <2>4 DEF MakeTransfer, Step, TablesStep, money
<1>4. ASSUME NEW t \in Transfers, TransferConfirms(t)
      PROVE  Step
  <2>1. ChainStep
    BY <1>4, Typed DEF TransferConfirms, ChainStep, TransferRow
  <2> QED
    BY <1>4, <2>1 DEF TransferConfirms, Step, TablesStep, money
<1> QED
  BY <1>1, <1>2, <1>3, <1>4

LEMMA RechargeSteps ==
    ASSUME IInv, NEW t \in Transfers,
           MatchRecharge(t) \/ ClaimForRecharge(t) \/ CompleteRecharge(t)
    PROVE  Step
<1>a. /\ registered \in SUBSET Transfers /\ recharged \in SUBSET Transfers
      /\ over \in SUBSET Sessions /\ under \in SUBSET Sessions
      /\ wallet \in Nat /\ Amount[t] \in Nat
      /\ RegistryOK
  BY Bep20Assumption DEF IInv, TypeOK
<1>b. UNCHANGED <<orders, sessions, payments, chain, claims, approvals, over, under, clock, workers>>
  BY DEF MatchRecharge, ClaimForRecharge, CompleteRecharge
<1>1. /\ registered' = registered \cup {t}
      /\ recharged' \in {recharged, recharged \cup {t}}
      /\ claims[t].session = NoSession
  BY <1>a DEF MatchRecharge, ClaimForRecharge, CompleteRecharge, Registrable, CreditRecharge,
     RegistryOK
<1>2. RegistryOK'
  BY <1>a, <1>b, <1>1 DEF RegistryOK
<1>3. ClaimsStep
  BY <1>a, <1>b, <1>1, <1>2, Typed DEF ClaimsStep
<1>4. wallet' \in Nat
  BY <1>a DEF MatchRecharge, ClaimForRecharge, CompleteRecharge, CreditRecharge
<1>5. CreditsStep
  BY <1>a, <1>b, <1>4 DEF CreditsStep
<1> QED
  BY <1>b, <1>3, <1>5, Untouched DEF Step, TablesStep

-----------------------------------------------------------------------------
(* A worker starts, reads, stops or is told something.                     *)

LEMMA BeginStep ==
    ASSUME IInv, NEW w \in Workers, NEW s \in Sessions, NEW t \in Transfers,
           NEW review \in Sessions \cup {NoSession}, NEW approved \in BOOLEAN,
           OrderOf(s)' # NoOrder, approved => s \in approvals',
           Begin(w, s, t, review, approved)
    PROVE  WorkersStep
<1>a. PICK expired \in BOOLEAN : expired = (sessions[s].status = "expired")
  OBVIOUS
<1>1. PICK x \in Worker :
        x = [Idle EXCEPT !.pc = "read", !.session = s, !.tx = t, !.review = review,
                         !.expired = expired, !.approved = approved]
  BY DEF Idle, Worker, Steps, Verdicts
<1>2. JobOK(x)'
  BY <1>1 DEF Idle, JobOK
<1> QED
  BY <1>a, <1>1, <1>2, WorkerStep DEF Begin

LEMMA ReadForSessionStep ==
    ASSUME IInv, NEW w \in Workers, NEW o \in Orders, ReadForSession(w, o)
    PROVE  Step
<1>1. PICK x \in Worker : x = [Idle EXCEPT !.pc = "create", !.order = o]
  BY DEF Idle, Worker, Steps, Verdicts
<1>2. JobOK(x)'
  BY <1>1 DEF Idle, JobOK
<1>3. WorkersStep
  BY <1>1, <1>2, WorkerStep DEF ReadForSession
<1> QED
  BY <1>3, OnlyWorkers DEF ReadForSession

LEMMA VerifyTxHashStep ==
    ASSUME IInv, NEW w \in Workers, NEW o \in Orders, NEW t \in Transfers, VerifyTxHash(w, o, t)
    PROVE  Step
<1>1. Picked(o) \in Sessions /\ OrderOf(Picked(o)) = o
  BY PickedIn DEF VerifyTxHash, Of
<1>2. PICK s \in Sessions : s = Picked(o)
  BY <1>1
<1>3. Begin(w, s, t, NoSession, FALSE) /\ OrderOf(s)' # NoOrder
  BY <1>1, <1>2, Bep20Assumption DEF VerifyTxHash, OrderOf
<1>4. WorkersStep
  BY <1>3, BeginStep
<1> QED
  BY <1>4, OnlyWorkers DEF VerifyTxHash

(* The session a worker is sent to by an administrator's. *)
LEMMA NamedSession ==
    ASSUME IInv, NEW s \in Sessions, sessions[s].hash # NoTransfer \/ sessions[s].status # "none"
    PROVE  /\ OrderOf(s) # NoOrder
           /\ Picked(OrderOf(s)) \in Sessions
           /\ OrderOf(Picked(OrderOf(s))) = OrderOf(s)
<1>1. OrderOf(s) # NoOrder
  <2>1. RowOK(s)
    BY DEF IInv
  <2> QED
    BY <2>1 DEF RowOK, Unmade, OrderOf
<1>2. s \in Of(OrderOf(s))
  BY DEF Of
<1>3. Picked(OrderOf(s)) \in Of(OrderOf(s))
  BY <1>2, PickedIn
<1> QED
  BY <1>1, <1>3 DEF Of

LEMMA RecheckStep ==
    ASSUME IInv, NEW w \in Workers, NEW s \in Sessions, Recheck(w, s)
    PROVE  Step
<1>1. sessions[s].hash \in Transfers
  BY Typed DEF Recheck, SessionRow
<1>2. PICK picked \in Sessions : picked = Picked(OrderOf(s))
  BY NamedSession DEF Recheck
<1>3. PICK t \in Transfers : t = sessions[s].hash
  BY <1>1
<1>4. OrderOf(picked) # NoOrder
  BY <1>2, NamedSession DEF Recheck
<1>5. OrderOf(picked)' # NoOrder
  BY <1>4 DEF OrderOf, Recheck
<1>6. Begin(w, picked, t, s, FALSE)
  BY <1>2, <1>3 DEF Recheck
<1>7. WorkersStep
  BY <1>5, <1>6, BeginStep
<1> QED
  BY <1>7, OnlyWorkers DEF Recheck

LEMMA IdleSteps ==
    ASSUME IInv, NEW w \in Workers, Crash(w) \/ AlreadySettled(w)
    PROVE  Step
<1>1. WorkersStep
  BY StopStep DEF Crash, AlreadySettled
<1> QED
  BY <1>1, OnlyWorkers DEF Crash, AlreadySettled

LEMMA InspectStep ==
    ASSUME IInv, NEW w \in Workers, Inspect(w)
    PROVE  Step
<1>a. /\ workers[w] \in Worker
      /\ JobOK(workers[w])
      /\ Tx(w) \in Transfers
  BY JobFacts DEF Inspect, At
<1>b. UNCHANGED <<orders, sessions, payments, chain, claims, approvals, money, clock>>
  BY DEF Inspect
<1>c. TablesStep
  BY <1>b, Untouched DEF TablesStep, money, clock
<1> SUFFICES ASSUME NEW step \in {"write", "claim"},
                    NEW result \in Verdicts \cup {"missing", "failed"},
                    workers' = [workers EXCEPT ![w].pc = step, ![w].result = result],
                    step = "claim" => result \in Verdicts,
                    result \in {"underpaid", "overpaid", "verified"} => InTime(workers[w])
             PROVE  WorkersStep
  <2>1. CASE chain[Tx(w)].state \in {"unsent", "failed"}
    BY <1>b, <2>1, OnlyWorkers DEF Inspect, Verdicts
  <2>2. CASE chain[Tx(w)].state \notin {"unsent", "failed"}
    <3>1. TransferStatus(w) \in Verdicts
      BY DEF TransferStatus, Verdicts
    <3>2. chain[Tx(w)].state \in {"mined", "final"}
      BY <1>a, <2>2, Typed DEF TransferRow
    <3>3. TransferStatus(w) \in {"underpaid", "overpaid", "verified"} => InTime(workers[w])
      BY <3>2 DEF TransferStatus, MinedLate, InTime, Tx, Job
    <3> QED
      BY <1>b, <2>2, <3>1, <3>3, OnlyWorkers DEF Inspect
  <2> QED
    BY <2>1, <2>2
<1>1. PICK x \in Worker : x = [workers[w] EXCEPT !.pc = step, !.result = result]
  BY <1>a DEF Worker, Steps
<1>2. workers' = [workers EXCEPT ![w] = x]
  BY <1>1, Typed
<1>3. JobOK(x)
  BY <1>1, <1>a DEF JobOK, InTime, Inspect, At, Worker
<1> QED
  BY <1>2, <1>3, <1>c, JobKept, WorkerStep

LEMMA ClaimStep ==
    ASSUME IInv, NEW w \in Workers, Claim(w)
    PROVE  Step
<1>a. /\ workers[w] \in Worker
      /\ JobOK(workers[w])
      /\ Job(w) \in Sessions
      /\ Tx(w) \in Transfers
      /\ workers[w].result \in Verdicts
      /\ workers[w].pc = "claim"
  BY JobFacts DEF Claim, At, JobOK
<1>1. CASE ClaimHolds(Job(w), Tx(w))
  <2>1. claims' = [claims EXCEPT ![Tx(w)] = [session |-> Job(w), status |-> workers[w].result]]
    BY <1>1 DEF Claim
  <2>2. ClaimsStep
    <3>1. /\ UNCHANGED <<registered, recharged>>
          /\ registered \in SUBSET Transfers /\ recharged \in SUBSET Transfers
      BY DEF Claim, money, IInv, TypeOK
    <3>4. RegistryOK'
      BY <1>1, <1>a, <2>1, <3>1, Typed DEF ClaimHolds, RegistryOK, IInv
    <3>2. claims' \in [Transfers -> ClaimRow]
      BY <1>a, <2>1, Typed DEF ClaimRow
    <3>3. \A t \in Transfers : claims[t].session # NoSession => claims'[t].session = claims[t].session
      BY <1>1, <1>a, <2>1, Typed DEF ClaimHolds
    <3> QED
      BY <3>1, <3>2, <3>3, <3>4 DEF ClaimsStep
  <2>3. TablesStep
    BY <2>2, Untouched DEF Claim, TablesStep, money
  <2>4. claims'[Tx(w)].session = Job(w)
    BY <1>a, <2>1, Typed
  <2>5. PICK step \in {"prepare", "write"} :
          /\ Move(w, step)
          /\ step = "prepare" => workers[w].approved \/ workers[w].result = "verified"
    BY <1>1 DEF Claim, EffectiveStatus
  <2>6. PICK x \in Worker : x = [workers[w] EXCEPT !.pc = step]
    BY <1>a DEF Worker, Steps
  <2>7. workers' = [workers EXCEPT ![w] = x]
    BY <2>5, <2>6, Typed DEF Move
  <2>8. JobOK(x)'
    <3>1. /\ x.session = workers[w].session
          /\ x.tx = workers[w].tx
          /\ x.result = workers[w].result
          /\ x.approved = workers[w].approved
          /\ x.pc = step
      BY <1>a, <2>6 DEF Worker
    <3>2. claims'[x.tx].session = x.session
      BY <2>4, <3>1 DEF Job, Tx
    <3>3. UNCHANGED <<sessions, chain, approvals>>
      BY DEF Claim
    <3> QED
      BY <1>a, <2>5, <3>1, <3>2, <3>3 DEF JobOK, InTime, OrderOf
  <2> QED
    BY <2>3, <2>7, <2>8, WorkerStep DEF Step
<1>2. CASE ~ ClaimHolds(Job(w), Tx(w))
  <2>1. WorkersStep
    BY <1>2, StopStep DEF Claim
  <2> QED
    BY <1>2, <2>1, OnlyWorkers DEF Claim
<1> QED
  BY <1>1, <1>2

LEMMA FailSteps ==
    ASSUME IInv, NEW w \in Workers, SettlementFails(w) \/ CompletionFails(w)
    PROVE  Step
<1>a. workers[w] \in Worker /\ JobOK(workers[w])
  BY JobFacts
<1>b. UNCHANGED <<orders, sessions, payments, chain, claims, approvals, money, clock>>
  BY DEF SettlementFails, CompletionFails
<1>c. TablesStep
  BY <1>b, Untouched DEF TablesStep, money, clock
<1>1. CASE SettlementFails(w)
  <2>1. JobOK([workers[w] EXCEPT !.pc = "unsettled"])
    BY <1>1, <1>a DEF SettlementFails, At, JobOK, InTime, Worker
  <2> QED
    BY <1>1, <1>b, <1>c, <2>1, MoveStep, OnlyWorkers DEF SettlementFails, Steps
<1>2. CASE CompletionFails(w)
  <2>1. JobOK([workers[w] EXCEPT !.pc = "check"])
    BY <1>2, <1>a DEF CompletionFails, At, JobOK, InTime, Worker
  <2> QED
    BY <1>2, <1>b, <1>c, <2>1, MoveStep, OnlyWorkers DEF CompletionFails, Steps
<1> QED
  BY <1>1, <1>2

(* A worker asks whether the payment was booked after all. *)
LEMMA CheckStep ==
    ASSUME IInv, NEW w \in Workers, Check(w)
    PROVE  Step
<1>a. workers[w] \in Worker /\ JobOK(workers[w])
  BY JobFacts
<1>b. UNCHANGED <<orders, sessions, payments, chain, claims, approvals, money, clock>>
  BY DEF Check
<1>c. TablesStep
  BY <1>b, Untouched DEF TablesStep, money, clock
<1>1. CASE payments[sessions[Job(w)].payment].status = "paid" /\ Move(w, "finish")
  <2>1. JobOK([workers[w] EXCEPT !.pc = "finish"])
    BY <1>1, <1>a DEF Check, At, JobOK, InTime, Worker, Job
  <2> QED
    BY <1>1, <1>b, <1>c, <2>1, MoveStep, OnlyWorkers DEF Steps
<1>2. CASE Move(w, "giveup")
  <2>1. JobOK([workers[w] EXCEPT !.pc = "giveup"])
    BY <1>2, <1>a DEF Check, At, JobOK, InTime, Worker
  <2> QED
    BY <1>2, <1>b, <1>c, <2>1, MoveStep, OnlyWorkers DEF Steps
<1> QED
  BY <1>1, <1>2 DEF Check

-----------------------------------------------------------------------------
(* The writes of a verification.                                           *)

LEMMA PatchStep ==
    ASSUME IInv, NEW s \in Sessions, OrderOf(s) # NoOrder, NEW row \in SessionRow,
           Patch(s, row),
           row.order = sessions[s].order,
           row.payment = sessions[s].payment,
           row.status \notin {"none", "paid"},
           row.decision \in {"none", "pending", sessions[s].decision},
           row.status = "manual_review" => row.hash # NoTransfer,
           UNCHANGED approvals
    PROVE  SessionsStep
<1>1. CASE Writable(s)
  <2>1. sessions' = [sessions EXCEPT ![s] = row]
    BY <1>1 DEF Patch
  <2>2. sessions'[s] = row
    BY <2>1, Typed
  <2>3. row.decision = "approved" => s \in approvals
    BY DEF IInv, RowOK
  <2>4. Rewritten(s)
    BY <1>1, <2>2, <2>3 DEF Rewritten, Writable, Mutable
  <2> QED
    BY <2>1, <2>4, RewriteStep
<1>2. CASE ~ Writable(s)
  BY <1>2, Untouched DEF Patch
<1> QED
  BY <1>1, <1>2

LEMMA WriteUnusableStep ==
    ASSUME IInv, NEW w \in Workers, WriteUnusable(w)
    PROVE  Step
<1>a. /\ Job(w) \in Sessions
      /\ sessions[Job(w)] \in SessionRow
      /\ OrderOf(Job(w)) # NoOrder
      /\ Tx(w) \in Transfers
  BY JobFacts DEF WriteUnusable, At
<1>1. PICK status \in {"expired", "submitted"} :
        Patch(Job(w), [sessions[Job(w)] EXCEPT !.status = status, !.hash = Tx(w)])
  BY DEF WriteUnusable
<1>2. PICK s \in Sessions, row \in SessionRow :
        s = Job(w) /\ row = [sessions[s] EXCEPT !.status = status, !.hash = Tx(w)]
  BY <1>a DEF SessionRow, SessionStatus, ActiveStatus
<1>3. /\ row.order = sessions[s].order
      /\ row.payment = sessions[s].payment
      /\ row.status = status
      /\ row.decision = sessions[s].decision
  BY <1>a, <1>2 DEF SessionRow
<1>4. Patch(s, row)
  BY <1>1, <1>2
<1>5. SessionsStep
  BY <1>a, <1>2, <1>3, <1>4, PatchStep DEF WriteUnusable
<1>6. WorkersStep
  BY StopStep DEF WriteUnusable
<1> QED
  BY <1>5, <1>6, Untouched DEF WriteUnusable, Step, TablesStep, money

LEMMA WriteUnsettledStep ==
    ASSUME IInv, NEW w \in Workers, WriteUnsettled(w)
    PROVE  Step
<1>a. /\ Job(w) \in Sessions
      /\ sessions[Job(w)] \in SessionRow
      /\ OrderOf(Job(w)) # NoOrder
      /\ Tx(w) \in Transfers
      /\ Amount[Tx(w)] \in Nat
  BY JobFacts, Bep20Assumption DEF WriteUnsettled, At
<1>1. PICK s \in Sessions, row \in SessionRow :
        /\ s = Job(w)
        /\ row = [sessions[s] EXCEPT !.status = "payment_failed", !.hash = Tx(w),
                                     !.amount = Amount[Tx(w)]]
  BY <1>a DEF SessionRow, SessionStatus, ActiveStatus
<1>2. /\ row.order = sessions[s].order
      /\ row.payment = sessions[s].payment
      /\ row.status = "payment_failed"
      /\ row.decision = sessions[s].decision
  BY <1>a, <1>1 DEF SessionRow
<1>3. Patch(s, row)
  BY <1>1 DEF WriteUnsettled
<1>4. SessionsStep
  BY <1>a, <1>1, <1>2, <1>3, PatchStep DEF WriteUnsettled
<1>5. WorkersStep
  BY StopStep DEF WriteUnsettled
<1> QED
  BY <1>4, <1>5, Untouched DEF WriteUnsettled, Step, TablesStep, money

LEMMA WriteEvidenceStep ==
    ASSUME IInv, NEW w \in Workers, WriteEvidence(w)
    PROVE  Step
<1>a. /\ workers[w] \in Worker
      /\ JobOK(workers[w])
      /\ Job(w) \in Sessions
      /\ sessions[Job(w)] \in SessionRow
      /\ OrderOf(Job(w)) # NoOrder
      /\ Tx(w) \in Transfers
      /\ Amount[Tx(w)] \in Nat
  BY JobFacts, Bep20Assumption DEF WriteEvidence, At
<1>b. workers[w].result \in Verdicts /\ workers[w].pc = "write"
  BY <1>a DEF WriteEvidence, At, Worker
<1>1. PICK decision \in {"none", "pending"} :
        Patch(Job(w), [sessions[Job(w)] EXCEPT
               !.status = workers[w].result, !.hash = Tx(w), !.amount = Amount[Tx(w)],
               !.decision = decision])
  BY DEF WriteEvidence
<1>2. PICK s \in Sessions, row \in SessionRow :
        /\ s = Job(w)
        /\ row = [sessions[s] EXCEPT !.status = workers[w].result, !.hash = Tx(w),
                                     !.amount = Amount[Tx(w)], !.decision = decision]
  <2> DEFINE result == workers[w].result
  <2>1. result \in SessionStatus /\ decision \in Decisions
    BY <1>b DEF SessionStatus, ActiveStatus, Verdicts, Decisions
  <2> HIDE DEF result
  <2>2. [sessions[Job(w)] EXCEPT !.status = result, !.hash = Tx(w), !.amount = Amount[Tx(w)],
                                 !.decision = decision] \in SessionRow
    BY <1>a, <2>1 DEF SessionRow
  <2> QED
    BY <1>a, <2>2 DEF result
<1>3. /\ row.order = sessions[s].order
      /\ row.payment = sessions[s].payment
      /\ row.status \in Verdicts
      /\ row.decision = decision
      /\ row.hash = Tx(w)
  BY <1>a, <1>b, <1>2 DEF SessionRow
<1>4. Patch(s, row)
  BY <1>1, <1>2
<1>5. SessionsStep
  BY <1>a, <1>2, <1>3, <1>4, PatchStep, Bep20Assumption DEF WriteEvidence, Verdicts
<1>6. TablesStep
  BY <1>5, Untouched DEF WriteEvidence, TablesStep, money
<1>7. WorkersStep
  <2>1. CASE workers[w].result = "overpaid"
    <3>1. JobOK([workers[w] EXCEPT !.pc = "settle"])
      BY <1>a, <1>b, <2>1 DEF JobOK, InTime, Worker
    <3> QED
      BY <1>6, <2>1, <3>1, MoveStep DEF WriteEvidence, Steps
  <2>2. CASE workers[w].result # "overpaid"
    BY <2>2, StopStep DEF WriteEvidence
  <2> QED
    BY <2>1, <2>2
<1> QED
  BY <1>6, <1>7 DEF Step

-----------------------------------------------------------------------------
(* Decisions about what came late, and the steps of a completion.          *)

LEMMA ApproveLateStep ==
    ASSUME IInv, NEW w \in Workers, NEW s \in Sessions, ApproveLate(w, s)
    PROVE  Step
<1>a. /\ sessions[s].status = "manual_review"
      /\ sessions[s].decision # "rejected"
      /\ sessions' = [sessions EXCEPT ![s].decision = "approved"]
      /\ approvals' = approvals \cup {s}
  BY DEF ApproveLate
<1>b. /\ OrderOf(s) # NoOrder
      /\ Picked(OrderOf(s)) \in Sessions
      /\ OrderOf(Picked(OrderOf(s))) = OrderOf(s)
  BY <1>a, NamedSession
<1>c. sessions[s] \in SessionRow /\ RowOK(s) /\ sessions[s].hash \in Transfers
  <2>1. sessions[s] \in SessionRow /\ RowOK(s)
    BY Typed DEF IInv
  <2> QED
    BY <1>a, <2>1 DEF RowOK, SessionRow
<1>1. SessionsStep
  <2>1. PICK row \in SessionRow : row = [sessions[s] EXCEPT !.decision = "approved"]
    BY <1>c DEF SessionRow, Decisions
  <2>2. sessions' = [sessions EXCEPT ![s] = row]
    BY <1>a, <2>1
  <2>3. sessions'[s] = row
    BY <2>2, Typed
  <2>4. Rewritten(s)
    BY <1>a, <1>b, <1>c, <2>1, <2>3 DEF Rewritten, SessionRow, RowOK
  <2> QED
    BY <2>2, <2>4, RewriteStep
<1>2. ApprovalsStep
  BY <1>a DEF ApprovalsStep, IInv, TypeOK
<1>3. WorkersStep
  <2>1. PICK picked \in Sessions : picked = Picked(OrderOf(s))
    BY <1>b
  <2>2. OrderOf(picked)' # NoOrder
    BY <1>1, <1>b, <2>1, SessionKept
  <2>3. PICK t \in Transfers : t = sessions[s].hash
    BY <1>c
  <2>4. PICK approved \in BOOLEAN : approved = (sessions'[picked].decision = "approved")
    OBVIOUS
  <2>5. approved => picked \in approvals'
    <3>1. sessions[picked].decision = "approved" => picked \in approvals
      BY DEF IInv, RowOK
    <3> QED
      BY <1>a, <2>4, <3>1, Typed
  <2>6. Begin(w, picked, t, s, approved) \/ UNCHANGED workers
    BY <2>1, <2>3, <2>4 DEF ApproveLate
  <2> QED
    BY <2>2, <2>5, <2>6, BeginStep, Untouched
<1> QED
  BY <1>1, <1>2, <1>3, Untouched DEF ApproveLate, Step, TablesStep, money

LEMMA RejectLateStep ==
    ASSUME IInv, NEW s \in Sessions, RejectLate(s)
    PROVE  Step
<1>a. sessions[s] \in SessionRow /\ OrderOf(s) # NoOrder
  BY Typed, NamedSession DEF RejectLate
<1>1. PICK row \in SessionRow : row = [sessions[s] EXCEPT !.decision = "rejected", !.status = "failed"]
  BY <1>a DEF SessionRow, Decisions, SessionStatus
<1>2. sessions' = [sessions EXCEPT ![s] = row]
  BY <1>1 DEF RejectLate
<1>3. sessions'[s] = row
  BY <1>2, Typed
<1>4. Rewritten(s)
  BY <1>a, <1>1, <1>3 DEF Rewritten, SessionRow, RejectLate
<1> QED
  BY <1>2, <1>4, RewriteStep, Untouched DEF RejectLate, Step, TablesStep, money

LEMMA PrepareStep ==
    ASSUME IInv, NEW w \in Workers, Prepare(w)
    PROVE  Step
<1>a. /\ workers[w] \in Worker
      /\ JobOK(workers[w])
      /\ Job(w) \in Sessions
      /\ sessions[Job(w)] \in SessionRow
      /\ OrderOf(Job(w)) # NoOrder
      /\ OrderOf(Job(w)) \in Orders
      /\ Tx(w) \in Transfers
      /\ RowOK(Job(w))
  BY JobFacts DEF Prepare, At
<1>b. Amount[Tx(w)] \in Nat /\ Price[OrderOf(Job(w))] \in Nat
  BY <1>a, Bep20Assumption
<1>1. PICK s \in Sessions, row \in SessionRow :
        /\ s = Job(w)
        /\ row = [sessions[s] EXCEPT !.status = "completing", !.hash = Tx(w),
                                     !.amount = Amount[Tx(w)], !.attempt = w]
  BY <1>a, <1>b DEF SessionRow, SessionStatus, ActiveStatus
<1>2. sessions' = [sessions EXCEPT ![s] = row]
  BY <1>1 DEF Prepare
<1>3. sessions'[s] = row
  BY <1>2, Typed
<1>4. Rewritten(s)
  <2>1. sessions[s].status # "paid" /\ sessions[s].decision # "rejected"
    BY <1>1 DEF Prepare, Acquirable
  <2>2. /\ row.order = sessions[s].order
        /\ row.payment = sessions[s].payment
        /\ row.status = "completing"
        /\ row.decision = sessions[s].decision
    BY <1>a, <1>1 DEF SessionRow
  <2>3. row.decision = "approved" => s \in approvals
    BY <1>a, <1>1, <2>2 DEF RowOK
  <2>4. approvals' = approvals
    BY DEF Prepare
  <2> QED
    BY <1>a, <1>1, <1>3, <2>1, <2>2, <2>3, <2>4 DEF Rewritten
<1>5. TablesStep
  BY <1>2, <1>4, RewriteStep, Untouched DEF Prepare, TablesStep, money
<1>6. Amount[Tx(w)] >= Price[OrderOf(Job(w))]
  BY <1>b DEF Prepare, Acquirable, AmountFits, OrderOf
<1>7. JobOK([workers[w] EXCEPT !.pc = "complete"])
  BY <1>a, <1>6 DEF JobOK, InTime, Worker, Prepare, At, Job, Tx
<1> QED
  BY <1>5, <1>7, MoveStep DEF Prepare, Steps, Step

LEMMA GiveUpStep ==
    ASSUME IInv, NEW w \in Workers, GiveUp(w)
    PROVE  Step
<1>a. /\ Job(w) \in Sessions
      /\ sessions[Job(w)] \in SessionRow
      /\ OrderOf(Job(w)) # NoOrder
      /\ RowOK(Job(w))
  BY JobFacts DEF GiveUp, At
<1>1. SessionsStep
  <2>1. CASE Owns(w)
    <3>1. PICK s \in Sessions, row \in SessionRow :
            s = Job(w) /\ row = [sessions[s] EXCEPT !.status = "payment_failed"]
      BY <1>a DEF SessionRow, SessionStatus, ActiveStatus
    <3>2. sessions' = [sessions EXCEPT ![s] = row]
      BY <2>1, <3>1 DEF GiveUp
    <3>3. sessions'[s] = row
      BY <3>2, Typed
    <3>4. Rewritten(s)
      BY <1>a, <2>1, <3>1, <3>3 DEF Rewritten, SessionRow, RowOK, GiveUp, Owns
    <3> QED
      BY <3>2, <3>4, RewriteStep
  <2>2. CASE ~ Owns(w)
    BY <2>2, Untouched DEF GiveUp
  <2> QED
    BY <2>1, <2>2
<1>2. WorkersStep
  BY StopStep DEF GiveUp
<1> QED
  BY <1>1, <1>2, Untouched DEF GiveUp, Step, TablesStep, money

LEMMA FinishStep ==
    ASSUME IInv, NEW w \in Workers, Finish(w)
    PROVE  Step
<1>a. /\ JobOK(workers[w])
      /\ Job(w) \in Sessions
      /\ sessions[Job(w)] \in SessionRow
      /\ OrderOf(Job(w)) # NoOrder
      /\ RowOK(Job(w))
      /\ Tx(w) \in Transfers
  BY JobFacts DEF Finish, At
<1>b. payments'[sessions[Job(w)].payment].status = "paid"
  BY <1>a DEF JobOK, Finish, At, Job
<1>1. SessionsStep
  <2>1. CASE Owns(w)
    <3>1. PICK s \in Sessions, row \in SessionRow :
            s = Job(w) /\ row = [sessions[s] EXCEPT !.status = "paid"]
      BY <1>a DEF SessionRow, SessionStatus
    <3>2. sessions' = [sessions EXCEPT ![s] = row]
      BY <2>1, <3>1 DEF Finish
    <3>3. sessions'[s] = row
      BY <3>2, Typed
    <3>4. Rewritten(s)
      BY <1>a, <1>b, <2>1, <3>1, <3>3 DEF Rewritten, SessionRow, RowOK, Finish, Owns
    <3> QED
      BY <3>2, <3>4, RewriteStep
  <2>2. CASE ~ Owns(w)
    BY <2>2, Untouched DEF Finish
  <2> QED
    BY <2>1, <2>2
<1>2. ClaimsStep
  <2>1. /\ UNCHANGED <<registered, recharged>>
        /\ registered \in SUBSET Transfers /\ recharged \in SUBSET Transfers
    BY DEF Finish, money, IInv, TypeOK
  <2>2. claims' = [claims EXCEPT ![Tx(w)].status = "paid"] \/ claims' = claims
    BY DEF Finish
  <2> QED
    BY <1>a, <2>1, <2>2, Typed DEF ClaimsStep, ClaimRow, RegistryOK, IInv
<1>3. WorkersStep
  BY StopStep DEF Finish
<1> QED
  BY <1>1, <1>2, <1>3, Untouched DEF Finish, Step, TablesStep, money

-----------------------------------------------------------------------------
(* What books a payment, or ends an order unpaid.                          *)

(* An order is booked as paid with a transfer that suffices. *)
LEMMA CompleteStep ==
    ASSUME IInv, NEW s \in Sessions, NEW t \in Transfers, OrderOf(s) # NoOrder,
           Completable(s, t), Complete(s, t), SessionsStep, ChainStep, ClaimsStep, ApprovalsStep,
           NEW p \in Sessions, p = sessions[s].payment,
           Sufficient(p, t)'
    PROVE  /\ OrdersStep
           /\ PaymentsStep
           /\ orders'[OrderOf(s)] = "paid"
<1>1. OrderOf(p) = OrderOf(s) /\ OrderOf(s) \in Orders
  <2>1. RowOK(s) /\ sessions[s] \in SessionRow
    BY Typed DEF IInv
  <2> QED
    BY <2>1 DEF RowOK, SessionRow, OrderOf
<1>2. OrderOf(p)' = OrderOf(p)
  BY <1>1, SessionKept
<1>3. payments' = [payments EXCEPT ![p] = [status |-> "paid", tx |-> t]]
  BY DEF Complete
<1>4. payments'[p] = [status |-> "paid", tx |-> t]
  BY <1>3, Typed
<1>5. orders' \in [Orders -> OrderStatus] /\ orders'[OrderOf(s)] = "paid"
  BY <1>1, Typed DEF Complete, OrderStatus
<1>6. payments' \in [Sessions -> PaymentRow]
  <2>1. [status |-> "paid", tx |-> t] \in PaymentRow
    BY DEF PaymentRow
  <2> QED
    BY <1>3, <2>1, Typed
<1>7. Paying(p)
  <2>1. payments[p].status = "pending"
    BY DEF Completable
  <2>2. Sufficient(p, payments[p].tx)'
    BY <1>4 DEF Sufficient
  <2>3. sessions'[p].order # NoOrder
    BY <1>1, <1>2 DEF OrderOf
  <2> QED
    BY <1>1, <1>4, <1>5, <2>1, <2>2, <2>3 DEF Paying
<1>8. PaymentsStep
  BY <1>3, <1>6, <1>7, Typed DEF PaymentsStep
<1>9. OrdersStep
  <2>1. HasPayment(OrderOf(s))'
    <3>1. OrderOf(s)' = OrderOf(s)
      BY SessionKept
    <3>2. p \in Of(OrderOf(s))'
      BY <1>1, <1>2, <3>1 DEF Of, OrderOf
    <3> QED
      BY <1>4, <3>2 DEF HasPayment
  <2>2. PICK o \in Orders : o = OrderOf(s)
    BY <1>1
  <2>3. HasPayment(o)'
    <3>1. OrderOf(s)' = o
      BY <2>2, SessionKept
    <3> QED
      BY <2>1, <3>1 DEF HasPayment
  <2>4. orders[o] = "pending" /\ orders' = [orders EXCEPT ![o] = "paid"]
    BY <2>2 DEF Completable, Complete
  <2> QED
    BY <1>5, <2>3, <2>4, Typed DEF OrdersStep
<1> QED
  BY <1>5, <1>8, <1>9

LEMMA CompletePaymentStep ==
    ASSUME IInv, NEW w \in Workers, CompletePayment(w)
    PROVE  Step
<1>a. /\ workers[w] \in Worker
      /\ JobOK(workers[w])
      /\ Job(w) \in Sessions
      /\ OrderOf(Job(w)) # NoOrder
      /\ RowOK(Job(w))
      /\ Tx(w) \in Transfers
      /\ workers[w].pc = "complete"
  BY JobFacts DEF CompletePayment, At
<1>b. UNCHANGED <<sessions, chain, claims, approvals, money, clock>>
  BY DEF CompletePayment
<1>c. SessionsStep /\ ChainStep /\ ClaimsStep /\ ApprovalsStep /\ CreditsStep /\ ClockStep
  BY <1>b, Untouched DEF money
<1>1. PICK p \in Sessions : p = sessions[Job(w)].payment
  BY <1>a DEF RowOK, OrderOf
<1>2. Sufficient(p, Tx(w))
  <2>1. OrderOf(p) = OrderOf(Job(w))
    BY <1>a, <1>1 DEF RowOK, OrderOf
  <2>2. /\ claims[Tx(w)].session = Job(w)
        /\ Amount[Tx(w)] >= Price[OrderOf(Job(w))]
        /\ \/ Job(w) \in approvals
           \/ InTime(workers[w])
    BY <1>a DEF JobOK, Job, Tx
  <2>3. Tx(w) # NoTransfer
    BY <1>a, Bep20Assumption
  <2>4. Job(w) \in Of(OrderOf(Job(w)))
    BY <1>a DEF Of
  <2>5. InTime(workers[w]) => chain[Tx(w)].state = "final" /\ {Job(w), p} \cap chain[Tx(w)].lapsed = {}
    BY <1>1 DEF InTime, Job, Tx
  <2> QED
    BY <2>1, <2>2, <2>3, <2>4, <2>5 DEF Sufficient
<1>3. OrdersStep /\ PaymentsStep /\ payments'[p].status = "paid"
  <2>1. CASE payments[p].status = "paid"
    BY <1>1, <2>1, Untouched DEF CompletePayment
  <2>2. CASE payments[p].status # "paid"
    <3>1. PICK s \in Sessions, t \in Transfers : s = Job(w) /\ t = Tx(w)
      BY <1>a
    <3>2. Completable(s, t) /\ Complete(s, t)
      BY <1>1, <2>2, <3>1 DEF CompletePayment
    <3>3. Sufficient(p, t)'
      BY <1>b, <1>2, <3>1 DEF Sufficient, Of, OrderOf
    <3>4. payments'[p].status = "paid"
      BY <1>1, <3>1, <3>2, Typed DEF Complete
    <3> QED
      BY <1>a, <1>c, <1>1, <3>1, <3>2, <3>3, <3>4, CompleteStep
  <2> QED
    BY <2>1, <2>2
<1>4. TablesStep
  BY <1>c, <1>3 DEF TablesStep
<1>5. PICK step \in {"finish", "check"} : Move(w, step)
  BY DEF CompletePayment
<1>6. PICK x \in Worker : x = [workers[w] EXCEPT !.pc = step]
  BY <1>a DEF Worker, Steps
<1>7. JobOK(x)'
  <2>1. /\ x.session = workers[w].session
        /\ x.tx = workers[w].tx
        /\ x.result = workers[w].result
        /\ x.approved = workers[w].approved
        /\ x.pc = step
    BY <1>a, <1>6 DEF Worker
  <2>2. payments'[sessions'[x.session].payment].status = "paid"
    BY <1>b, <1>1, <1>3, <2>1 DEF Job
  <2> QED
    BY <1>a, <1>b, <2>1, <2>2 DEF JobOK, InTime, OrderOf
<1>8. workers' = [workers EXCEPT ![w] = x]
  BY <1>5, <1>6, Typed DEF Move
<1> QED
  BY <1>4, <1>7, <1>8, WorkerStep DEF Step

LEMMA SettleStep ==
    ASSUME IInv, NEW w \in Workers, Settle(w)
    PROVE  Step
<1>a. /\ workers[w] \in Worker
      /\ JobOK(workers[w])
      /\ Job(w) \in Sessions
      /\ sessions[Job(w)] \in SessionRow
      /\ OrderOf(Job(w)) \in Orders
      /\ OrderOf(Job(w)) # NoOrder
      /\ RowOK(Job(w))
      /\ Tx(w) \in Transfers
      /\ workers[w].pc = "settle"
  BY JobFacts DEF Settle, At
<1>1. PICK s \in Sessions, t \in Transfers : s = Job(w) /\ t = Tx(w)
  BY <1>a
<1>b. SettlesExcess(s, t) /\ UNCHANGED <<chain, approvals, under, registered, recharged, clock>>
  BY <1>1 DEF Settle
<1>2. PICK p \in Sessions : p = sessions[s].payment
  BY <1>a, <1>1 DEF RowOK, OrderOf
<1>c. OrderOf(p) = OrderOf(s)
  BY <1>a, <1>1, <1>2 DEF RowOK, OrderOf
<1>d. /\ claims[t].session = s
      /\ Completable(s, t)
      /\ Amount[t] \in Nat /\ Price[OrderOf(s)] \in Nat
      /\ Amount[t] > Price[OrderOf(s)]
      /\ {s, p} \cap chain[t].lapsed = {}
      /\ sessions[s].status \notin {"paid", "none"}
      /\ sessions[s].decision = "none"
  <2>1. Amount[t] \in Nat /\ Price[OrderOf(s)] \in Nat
    BY <1>a, <1>1, Bep20Assumption
  <2> QED
    BY <1>b, <1>2, <2>1 DEF SettlesExcess, MinedInTime
<1>e. chain[t].state = "final"
  BY <1>a, <1>1 DEF JobOK, InTime, Tx
<1>f. Sufficient(p, t)
  <2>1. t # NoTransfer
    BY Bep20Assumption
  <2>2. s \in Of(OrderOf(s))
    BY DEF Of
  <2> QED
    BY <1>c, <1>d, <1>e, <2>1, <2>2 DEF Sufficient
<1>3. ASSUME NEW status \in {"paid", "manual_review"},
             claims' = [claims EXCEPT ![t].status = status]
      PROVE  ClaimsStep
  <2>1. /\ UNCHANGED <<registered, recharged>>
        /\ registered \in SUBSET Transfers /\ recharged \in SUBSET Transfers
    BY <1>b DEF IInv, TypeOK
  <2> QED
    BY <1>3, <2>1, Typed DEF ClaimsStep, ClaimRow, Verdicts, RegistryOK, IInv
<1>4. ChainStep /\ ApprovalsStep /\ ClockStep
  BY <1>b, Untouched
<1>5. ASSUME NEW status \in {"paid", "manual_review"}, NEW decision \in {"none", "pending"},
             NEW row \in SessionRow,
             row = [sessions[s] EXCEPT !.status = status, !.hash = t, !.decision = decision,
                                       !.attempt = NoWorker],
             sessions' = [sessions EXCEPT ![s] = row],
             status = "paid" => payments'[p].status = "paid"
      PROVE  SessionsStep
  <2>1. sessions'[s] = row
    BY <1>5, Typed
  <2>2. /\ row.order = sessions[s].order
        /\ row.payment = sessions[s].payment
        /\ row.status = status
        /\ row.decision = decision
        /\ row.hash = t
    BY <1>a, <1>1, <1>5 DEF SessionRow
  <2>3. t # NoTransfer
    BY Bep20Assumption
  <2>4. Rewritten(s)
    BY <1>a, <1>1, <1>2, <1>5, <1>d, <2>1, <2>2, <2>3 DEF Rewritten
  <2> QED
    BY <1>5, <2>4, RewriteStep
<1>6. TablesStep
  <2>1. PICK limit \in AutoLimits :
               IF Excess(s, t) > limit
               THEN /\ sessions' = [sessions EXCEPT ![s].status = "manual_review", ![s].hash = t,
                                                    ![s].decision = "pending",
                                                    ![s].attempt = NoWorker]
                    /\ claims' = [claims EXCEPT ![t].status = "manual_review"]
                    /\ UNCHANGED <<orders, payments, wallet, over>>
               ELSE /\ Complete(s, t)
                    /\ wallet' = wallet + Excess(s, t)
                    /\ over' = over \cup {s}
                    /\ sessions' = [sessions EXCEPT ![s].status = "paid", ![s].hash = t,
                                                    ![s].attempt = NoWorker]
                    /\ claims' = [claims EXCEPT ![t].status = "paid"]
    BY <1>1 DEF Settle
  <2>2. CASE Excess(s, t) > limit
    <3>1. PICK row \in SessionRow :
            row = [sessions[s] EXCEPT !.status = "manual_review", !.hash = t,
                                      !.decision = "pending", !.attempt = NoWorker]
      BY <1>a, <1>1 DEF SessionRow, SessionStatus, ActiveStatus, Decisions
    <3>2. sessions' = [sessions EXCEPT ![s] = row]
      BY <2>1, <2>2, <3>1
    <3>3. SessionsStep
      BY <1>5, <3>1, <3>2
    <3> QED
      BY <1>3, <1>4, <1>b, <2>1, <2>2, <3>3, Untouched DEF TablesStep
  <2>3. CASE ~ Excess(s, t) > limit
    <3>1. PICK row \in SessionRow :
            row = [sessions[s] EXCEPT !.status = "paid", !.hash = t, !.decision = "none",
                                      !.attempt = NoWorker]
      BY <1>a, <1>1 DEF SessionRow, SessionStatus, Decisions
    <3>2. row = [sessions[s] EXCEPT !.status = "paid", !.hash = t, !.attempt = NoWorker]
      BY <1>a, <1>d, <1>1, <3>1 DEF SessionRow
    <3>3. sessions' = [sessions EXCEPT ![s] = row]
      BY <2>1, <2>3, <3>2
    <3>4. Complete(s, t)
      BY <2>1, <2>3
    <3>5. payments'[p].status = "paid"
      BY <1>2, <3>4, Typed DEF Complete
    <3>6. SessionsStep
      BY <1>5, <3>1, <3>3, <3>5
    <3>7. ClaimsStep
      BY <1>3, <2>1, <2>3
    <3>8. Sufficient(p, t)'
      BY <1>4, <1>a, <1>c, <1>f, <1>1, <3>6, <3>7, SufficientKept
    <3>9. OrdersStep /\ PaymentsStep /\ orders'[OrderOf(s)] = "paid"
      BY <1>2, <1>4, <1>a, <1>d, <1>1, <3>4, <3>6, <3>7, <3>8, CompleteStep
    <3>10. CreditsStep
      <4>1. wallet' \in Nat
        BY <1>d, <2>1, <2>3 DEF Excess, IInv, TypeOK
      <4>2. over' = over \cup {s} /\ under' = under
        BY <1>b, <2>1, <2>3
      <4>3. over \in SUBSET Sessions /\ under \in SUBSET Sessions
        BY DEF IInv, TypeOK
      <4> QED
        BY <1>a, <1>1, <3>9, <4>1, <4>2, <4>3 DEF CreditsStep
    <3> QED
      BY <1>4, <3>6, <3>7, <3>9, <3>10 DEF TablesStep
  <2> QED
    BY <2>2, <2>3
<1>7. WorkersStep
  <2>1. CASE Stop(w)
    BY <2>1, StopStep
  <2>2. CASE Move(w, "unsettled")
    <3>1. JobOK([workers[w] EXCEPT !.pc = "unsettled"])
      BY <1>a DEF JobOK, InTime, Worker
    <3> QED
      BY <1>6, <2>2, <3>1, MoveStep DEF Steps
  <2> QED
    BY <2>1, <2>2 DEF Settle
<1> QED
  BY <1>6, <1>7 DEF Step

LEMMA SettleUnderpaymentStep ==
    ASSUME IInv, NEW s \in Sessions, SettleUnderpayment(s)
    PROVE  Step
<1>a. /\ sessions[s] \in SessionRow
      /\ RowOK(s)
      /\ sessions[s].status = "underpaid"
      /\ sessions[s].decision = "none"
      /\ orders[OrderOf(s)] = "pending"
      /\ UNCHANGED <<chain, claims, approvals, over, registered, recharged, clock, workers>>
  BY Typed DEF SettleUnderpayment, IInv, OrderOf
<1>b. OrderOf(s) # NoOrder /\ OrderOf(s) \in Orders
  <2>1. OrderOf(s) # NoOrder
    BY <1>a, NamedSession
  <2> QED
    BY <1>a, <2>1 DEF OrderOf, SessionRow
<1>1. PICK p \in Sessions, t \in Transfers, o \in Orders :
        p = sessions[s].payment /\ t = sessions[s].hash /\ o = OrderOf(s)
  <2>1. sessions[s].hash \in Transfers
    BY <1>a DEF SettleUnderpayment, SessionRow
  <2> QED
    BY <1>a, <1>b, <2>1 DEF RowOK, OrderOf
<1>2. SessionsStep
  <2>1. PICK row \in SessionRow : row = [sessions[s] EXCEPT !.status = "expired"]
    BY <1>a DEF SessionRow, SessionStatus
  <2>2. sessions' = [sessions EXCEPT ![s] = row]
    BY <2>1 DEF SettleUnderpayment
  <2>3. sessions'[s] = row
    BY <2>2, Typed
  <2>4. Rewritten(s)
    BY <1>a, <1>b, <2>1, <2>3 DEF Rewritten, SessionRow
  <2> QED
    BY <2>2, <2>4, RewriteStep
<1>3. orders' = [orders EXCEPT ![o] = "cancelled"] /\ orders[o] = "pending"
  BY <1>a, <1>1 DEF SettleUnderpayment, OrderOf
<1>4. OrdersStep /\ orders'[OrderOf(s)] = "cancelled"
  BY <1>1, <1>3, Typed DEF OrdersStep, OrderStatus
<1>5. PaymentsStep
  <2>1. payments' = [payments EXCEPT ![p] = [status |-> "closed", tx |-> t]]
    BY <1>1 DEF SettleUnderpayment
  <2>2. payments' \in [Sessions -> PaymentRow] /\ payments'[p] = [status |-> "closed", tx |-> t]
    <3>1. [status |-> "closed", tx |-> t] \in PaymentRow
      BY DEF PaymentRow
    <3> QED
      BY <2>1, <3>1, Typed
  <2>3. payments[p].status = "pending"
    BY <1>1 DEF SettleUnderpayment
  <2>4. sessions'[p].order # NoOrder
    <3>1. OrderOf(p) # NoOrder
      BY <1>a, <1>b, <1>1 DEF RowOK, OrderOf
    <3>2. OrderOf(p)' = OrderOf(p)
      BY <1>2, <3>1, SessionKept
    <3> QED
      BY <3>1, <3>2 DEF OrderOf
  <2>5. Paying(p)
    BY <2>2, <2>3, <2>4 DEF Paying
  <2> QED
    BY <2>1, <2>2, <2>5, Typed DEF PaymentsStep
<1>6. CreditsStep
  <2>1. wallet' \in Nat
    BY <1>1, Bep20Assumption DEF SettleUnderpayment, IInv, TypeOK
  <2>2. over' = over /\ under' = under \cup {s}
    BY DEF SettleUnderpayment
  <2>3. over \in SUBSET Sessions /\ under \in SUBSET Sessions
    BY DEF IInv, TypeOK
  <2> QED
    BY <1>4, <1>b, <2>1, <2>2, <2>3 DEF CreditsStep
<1> QED
  BY <1>a, <1>2, <1>4, <1>5, <1>6, Untouched DEF Step, TablesStep

LEMMA CreditOverpaymentStep ==
    ASSUME IInv, NEW s \in Sessions, CreditOverpayment(s)
    PROVE  Step
<1>1. OrderOf(s) # NoOrder /\ OrderOf(s) \in Orders /\ sessions[s].amount \in Nat
  <2>1. OrderOf(s) # NoOrder
    BY NamedSession DEF CreditOverpayment
  <2> QED
    BY <2>1, Typed DEF OrderOf, SessionRow
<1>2. CreditsStep
  <2>1. wallet' \in Nat
    <3>1. Price[sessions[s].order] \in Nat /\ wallet \in Nat
      BY <1>1, Bep20Assumption DEF OrderOf, IInv, TypeOK
    <3> QED
      BY <1>1, <3>1 DEF CreditOverpayment
  <2>2. over' = over \cup {s} /\ under' = under
    BY DEF CreditOverpayment
  <2>3. over \in SUBSET Sessions /\ under \in SUBSET Sessions
    BY DEF IInv, TypeOK
  <2>4. orders'[OrderOf(s)] = "paid"
    BY DEF CreditOverpayment, OrderOf
  <2> QED
    BY <1>1, <2>1, <2>2, <2>3, <2>4 DEF CreditsStep
<1> QED
  BY <1>2, Untouched DEF CreditOverpayment, Step, TablesStep

LEMMA EndWaitingStep ==
    ASSUME IInv, NEW o \in Orders, EndWaiting(o), UNCHANGED approvals
    PROVE  SessionsStep
<1>1. ASSUME NEW s \in Sessions
      PROVE  /\ sessions'[s] \in SessionRow
             /\ sessions'[s] = sessions[s] \/ Rewritten(s)
  <2>a. sessions[s] \in SessionRow /\ RowOK(s)
    BY Typed DEF IInv
  <2>1. CASE OrderOf(s) = o /\ sessions[s].status = "waiting_payment" /\ sessions[s].hash = NoTransfer
    <3>1. sessions'[s] = [sessions[s] EXCEPT !.status = "expired"]
      BY <2>1 DEF EndWaiting
    <3>2. sessions'[s] \in SessionRow
      BY <2>a, <3>1 DEF SessionRow, SessionStatus
    <3>3. Rewritten(s)
      BY <2>a, <2>1, <3>1, Bep20Assumption DEF Rewritten, RowOK, SessionRow
    <3> QED
      BY <3>2, <3>3
  <2>2. CASE ~ (OrderOf(s) = o /\ sessions[s].status = "waiting_payment" /\ sessions[s].hash = NoTransfer)
    BY <2>a, <2>2 DEF EndWaiting
  <2> QED
    BY <2>1, <2>2
<1>2. sessions' \in [Sessions -> SessionRow]
  BY <1>1 DEF EndWaiting
<1> QED
  BY <1>1, <1>2 DEF SessionsStep

LEMMA EndUnpaidStep ==
    ASSUME IInv, NEW o \in Orders, orders[o] = "pending",
           NEW orderStatus \in {"expired", "cancelled"}, NEW paymentStatus \in {"expired", "closed"},
           EndUnpaid(o, orderStatus, paymentStatus), UNCHANGED approvals
    PROVE  SessionsStep /\ OrdersStep /\ PaymentsStep
<1>1. SessionsStep
  BY EndWaitingStep DEF EndUnpaid
<1>2. OrdersStep
  BY Typed DEF EndUnpaid, OrdersStep, OrderStatus
<1>3. ASSUME NEW p \in Sessions
      PROVE  /\ payments'[p] \in PaymentRow
             /\ payments'[p] = payments[p] \/ Paying(p)
  <2>a. payments[p] \in PaymentRow
    BY Typed
  <2>1. CASE p \in PendingPayments(o)
    <3>1. payments'[p] = [payments[p] EXCEPT !.status = paymentStatus]
      BY <2>1 DEF EndUnpaid
    <3>2. payments'[p] \in PaymentRow /\ payments'[p].status = paymentStatus
      BY <2>a, <3>1 DEF PaymentRow
    <3>3. payments[p].status = "pending" /\ OrderOf(p) # NoOrder
      BY <2>1, Bep20Assumption DEF PendingPayments
    <3>4. sessions'[p].order # NoOrder
      BY <1>1, <3>3, SessionKept DEF OrderOf
    <3> QED
      BY <3>2, <3>3, <3>4 DEF Paying
  <2>2. CASE p \notin PendingPayments(o)
    BY <2>a, <2>2 DEF EndUnpaid
  <2> QED
    BY <2>1, <2>2
<1>4. payments' \in [Sessions -> PaymentRow]
  BY <1>3 DEF EndUnpaid
<1> QED
  BY <1>1, <1>2, <1>3, <1>4 DEF PaymentsStep

LEMMA EndingSteps ==
    ASSUME IInv, NEW o \in Orders, ExpireOrder(o) \/ CancelOrder(o)
    PROVE  Step
<1>a. UNCHANGED <<chain, claims, approvals, money, clock, workers>>
  BY DEF ExpireOrder, CancelOrder
<1>1. CASE orders[o] = "pending" /\ EndUnpaid(o, "expired", "expired")
  BY <1>1, <1>a, EndUnpaidStep, Untouched DEF Step, TablesStep, money
<1>2. CASE orders[o] = "pending" /\ EndUnpaid(o, "cancelled", "closed")
  BY <1>2, <1>a, EndUnpaidStep, Untouched DEF Step, TablesStep, money
<1>3. CASE EndWaiting(o) /\ UNCHANGED <<orders, payments>>
  BY <1>3, <1>a, EndWaitingStep, Untouched DEF Step, TablesStep, money
<1> QED
  BY <1>1, <1>2, <1>3 DEF ExpireOrder, CancelOrder

LEMMA CreateSessionStep ==
    ASSUME IInv, NEW w \in Workers, NEW s \in Sessions, CreateSession(w, s)
    PROVE  Step
<1>a. OrderOf(s) = NoOrder /\ RowOK(s) /\ sessions[s] \in SessionRow
  BY Typed DEF CreateSession, IInv
<1>b. workers[w].order \in Orders
  BY JobFacts DEF CreateSession, At, JobOK
<1>c. sessions[s] = Unmade /\ payments[s].status = "none"
  BY <1>a DEF RowOK, OrderOf
<1>1. PICK o \in Orders : o = workers[w].order
  BY <1>b
<1>2. PICK p \in Sessions :
        /\ p = IF PendingPayments(o) = {} THEN s ELSE Max(PendingPayments(o))
        /\ p = s \/ (OrderOf(p) = o /\ payments[p].status = "pending")
  <2>1. PendingPayments(o) \in SUBSET Sessions
    BY DEF PendingPayments
  <2>2. PendingPayments(o) # {} => Max(PendingPayments(o)) \in PendingPayments(o)
    BY <2>1, MaxIn
  <2> QED
    BY <2>1, <2>2 DEF PendingPayments
<1>3. /\ sessions' = [sessions EXCEPT ![s].order = o, ![s].payment = p,
                                      ![s].status = "waiting_payment"]
      /\ payments' = [payments EXCEPT ![p].status = "pending"]
  BY <1>1, <1>2 DEF CreateSession
<1>4. PICK row \in SessionRow :
        row = [sessions[s] EXCEPT !.order = o, !.payment = p, !.status = "waiting_payment"]
  BY <1>a DEF SessionRow, SessionStatus, ActiveStatus
<1>5. sessions' = [sessions EXCEPT ![s] = row]
  BY <1>3, <1>4
<1>6. sessions'[s] = row /\ \A r \in Sessions : r # s => sessions'[r] = sessions[r]
  BY <1>5, Typed
<1>7. payments' \in [Sessions -> PaymentRow] /\ payments'[p].status = "pending"
  BY <1>3, Typed DEF PaymentRow
<1>8. Created(s)
  <2>1. sessions'[s] = [sessions[s] EXCEPT !.order = o, !.payment = p,
                                           !.status = "waiting_payment"]
    BY <1>4, <1>6
  <2>2. p = s \/ OrderOf(p) = o
    BY <1>2
  <2> QED
    BY <1>a, <1>7, <2>1, <2>2 DEF Created
<1>9. SessionsStep
  BY <1>5, <1>6, <1>8, Typed DEF SessionsStep
<1>10. Paying(p)
  <2>1. sessions'[p].order # NoOrder
    <3>1. row.order = o /\ o # NoOrder
      BY <1>a, <1>4, Bep20Assumption DEF SessionRow
    <3> QED
      BY <1>2, <1>6, <3>1 DEF OrderOf
  <2> QED
    BY <1>2, <1>7, <1>c, <2>1 DEF Paying
<1>11. PaymentsStep
  BY <1>3, <1>7, <1>10, Typed DEF PaymentsStep
<1>12. WorkersStep
  BY StopStep DEF CreateSession
<1> QED
  BY <1>9, <1>11, <1>12, Untouched DEF CreateSession, Step, TablesStep, money

LEMMA CreatedIsNew ==
    ASSUME IInv, NEW s \in Sessions, Created(s)
    PROVE  sessions[s].status = "none" /\ sessions[s].decision = "none"
<1>1. sessions[s] = Unmade
  BY DEF Created, IInv, RowOK, OrderOf
<1> QED
  BY <1>1 DEF Unmade

LEMMA NextIsStep ==
    ASSUME IInv, [Next]_vars
    PROVE  Step
<1>1. ASSUME NEW w \in Workers, VerifyStep(w)
      PROVE  Step
  BY <1>1, InspectStep, ClaimStep, WriteUnusableStep, WriteEvidenceStep, SettleStep, FailSteps,
     IdleSteps, WriteUnsettledStep, PrepareStep, CompletePaymentStep, CheckStep, FinishStep,
     GiveUpStep DEF VerifyStep
<1>2. ASSUME NEW w \in Workers,
             \/ Crash(w)
             \/ \E o \in Orders : ReadForSession(w, o)
             \/ \E s \in Sessions : CreateSession(w, s)
             \/ \E o \in Orders, t \in Transfers : VerifyTxHash(w, o, t)
             \/ \E s \in Sessions : Recheck(w, s) \/ ApproveLate(w, s)
      PROVE  Step
  BY <1>2, IdleSteps, ReadForSessionStep, CreateSessionStep, VerifyTxHashStep, RecheckStep,
     ApproveLateStep
<1>3. ASSUME NEW s \in Sessions,
             \/ RejectLate(s) \/ SettleUnderpayment(s) \/ CreditOverpayment(s)
             \/ SessionLapses(s)
      PROVE  Step
  BY <1>3, RejectLateStep, SettleUnderpaymentStep, CreditOverpaymentStep, TimeSteps
<1>4. ASSUME NEW o \in Orders, ExpireOrder(o) \/ CancelOrder(o) \/ DeadlinePasses(o)
      PROVE  Step
  BY <1>4, EndingSteps, TimeSteps
<1>5. ASSUME NEW t \in Transfers,
             \/ MakeTransfer(t) \/ TransferConfirms(t)
             \/ MatchRecharge(t) \/ ClaimForRecharge(t) \/ CompleteRecharge(t)
      PROVE  Step
  BY <1>5, TimeSteps, RechargeSteps
<1>6. CASE UNCHANGED vars
  BY <1>6, Untouched DEF vars, Step, TablesStep, money
<1> QED
  BY <1>1, <1>2, <1>3, <1>4, <1>5, <1>6 DEF Next

-----------------------------------------------------------------------------
(* Theorems.                                                               *)

LEMMA InitIsIInv == Init => IInv
<1> SUFFICES ASSUME Init
             PROVE  IInv
  OBVIOUS
<1>1. Idle \in Worker
  BY DEF Idle, Worker, Steps, Verdicts
<1>2. Unmade \in SessionRow
  BY DEF Unmade, SessionRow, SessionStatus, Decisions
<1>3. sessions = [s \in Sessions |-> Unmade]
  BY DEF Init, Unmade
<1>4. TypeOK
  BY <1>1, <1>2, <1>3 DEF Init, TypeOK, OrderStatus, PaymentRow, TransferRow, ClaimRow
<1>5. \A s \in Sessions : RowOK(s) /\ PaymentOK(s)
  BY <1>3 DEF Init, RowOK, PaymentOK, Unmade
<1>6. \A w \in Workers : JobOK(workers[w])
  BY DEF Init, Idle, JobOK
<1> QED
  <2>1. RegistryOK
    BY DEF Init, RegistryOK
  <2> QED
    BY <1>4, <1>5, <1>6, <2>1 DEF Init, IInv, CreditsOK

LEMMA InvariantHolds == Spec => []IInv
<1>1. IInv /\ [Next]_vars => IInv'
  BY NextIsStep, StepKeepsIInv
<1> QED
  BY <1>1, InitIsIInv, PTL DEF Spec

(* Every table and every worker keeps its type. *)
THEOREM TypeCorrect == Spec => []TypeOK
<1>1. IInv => TypeOK
  BY DEF IInv
<1> QED
  BY <1>1, InvariantHolds, PTL

(* A chain session shown as paid stands for an order that was paid: the    *)
(* answer a worker finishes with is that the payment was booked.           *)
THEOREM ShownPaidIsPaid == Spec => []ChainPaidMeansPaid
<1>1. IInv => ChainPaidMeansPaid
  <2> SUFFICES ASSUME IInv, NEW s \in Sessions, sessions[s].status = "paid"
               PROVE  /\ orders[OrderOf(s)] = "paid"
                      /\ payments[sessions[s].payment].status = "paid"
    BY DEF ChainPaidMeansPaid
  <2>1. RowOK(s) /\ OrderOf(s) # NoOrder
    BY NamedSession DEF IInv
  <2>2. PICK p \in Sessions : p = sessions[s].payment
    BY <2>1 DEF RowOK, OrderOf
  <2>3. payments[p].status = "paid" /\ OrderOf(p) = OrderOf(s)
    BY <2>1, <2>2 DEF RowOK, OrderOf
  <2> QED
    BY <2>2, <2>3 DEF IInv, PaymentOK
<1> QED
  BY <1>1, InvariantHolds, PTL

(* A paid order was paid with one transfer that was enough, claimed for    *)
(* it, and in time or approved.                                            *)
THEOREM PaidWithTransfer == Spec => []PaidOrderHasTransfer
<1>1. IInv => PaidOrderHasTransfer
  <2> SUFFICES ASSUME IInv, NEW o \in Orders, orders[o] = "paid"
               PROVE  \E p \in Of(o) : LET t == payments[p].tx IN
                        /\ payments[p].status = "paid"
                        /\ t # NoTransfer
                        /\ Amount[t] >= Price[o]
                        /\ claims[t].session \in Of(o)
                        /\ \/ {claims[t].session, p} \cap chain[t].lapsed = {} /\ chain[t].state = "final"
                           \/ claims[t].session \in approvals
    BY DEF PaidOrderHasTransfer
  <2>1. PICK p \in Of(o) : payments[p].status = "paid"
    BY DEF IInv, HasPayment
  <2>2. p \in Sessions /\ OrderOf(p) = o
    BY <2>1 DEF Of
  <2>3. Sufficient(p, payments[p].tx)
    BY <2>1, <2>2 DEF IInv, PaymentOK
  <2> QED
    BY <2>1, <2>2, <2>3 DEF Sufficient
<1> QED
  BY <1>1, InvariantHolds, PTL

(* What came short is credited or booked, never both. *)
THEOREM UnderpaidIsFinal == Spec => []UnderpaidCreditIsFinal
<1>1. IInv => UnderpaidCreditIsFinal
  BY DEF IInv, CreditsOK, UnderpaidCreditIsFinal
<1> QED
  BY <1>1, InvariantHolds, PTL

(* No answer from the chain, however stale, takes back a booked payment.   *)
THEOREM PaidStays == Spec => PaidIsFinal
<1>1. ASSUME IInv, [Next]_vars
      PROVE  [\A s \in Sessions : sessions[s].status = "paid" => sessions'[s] = sessions[s]]_vars
  <2>1. \A s \in Sessions : sessions[s].status = "paid" => ~ Created(s)
    BY <1>1, CreatedIsNew
  <2>2. Step
    BY <1>1, NextIsStep
  <2> QED
    BY <2>1, <2>2 DEF Step, TablesStep, SessionsStep, Rewritten
<1> QED
  BY <1>1, InvariantHolds, PTL DEF Spec, PaidIsFinal

(* A refusal stays, whatever verification was under way when it was given. *)
THEOREM RejectionStays == Spec => RejectedStaysRejected
<1>1. ASSUME IInv, [Next]_vars
      PROVE  [\A s \in Sessions : sessions[s].decision = "rejected" =>
                 sessions'[s].status = "failed" /\ sessions'[s].decision = "rejected"]_vars
  <2>1. ASSUME NEW s \in Sessions, sessions[s].decision = "rejected"
        PROVE  sessions'[s].status = "failed" /\ sessions'[s].decision = "rejected"
    <3>1. RowOK(s)
      BY <1>1 DEF IInv
    <3>2. sessions[s].status = "failed" /\ ~ Created(s) /\ ~ Rewritten(s)
      BY <1>1, <2>1, <3>1, CreatedIsNew DEF Rewritten, RowOK
    <3>3. sessions'[s] = sessions[s]
      BY <1>1, <3>2, NextIsStep DEF Step, TablesStep, SessionsStep
    <3> QED
      BY <2>1, <3>2, <3>3
  <2> QED
    BY <2>1
<1> QED
  BY <1>1, InvariantHolds, PTL DEF Spec, RejectedStaysRejected

(* A transfer serves the session that claimed it first and no recharge.    *)
THEOREM ClaimedOnce == Spec => ClaimIsExclusive
<1>1. ASSUME IInv, [Next]_vars
      PROVE  [\A t \in Transfers : claims[t].session # NoSession =>
                 claims'[t].session = claims[t].session /\ (t \in recharged' => t \in recharged)]_vars
  BY <1>1, NextIsStep DEF Step, TablesStep, ClaimsStep
<1> QED
  BY <1>1, InvariantHolds, PTL DEF Spec, ClaimIsExclusive

-----------------------------------------------------------------------------
(* What the credits to the wallet were taken from.                         *)

(* A session completes with the transfer it claimed, and for its amount.   *)
CompletesWithClaim(s) ==
    LET row == sessions[s]
    IN  row.status \in {"completing", "paid"} =>
            /\ row.hash \in Transfers
            /\ row.amount = Amount[row.hash]
            /\ claims[row.hash].session = s

(* The payment session an underpayment was settled in is closed with the   *)
(* transfer that was credited.                                             *)
ShortTransfer(s) == payments[sessions[s].payment].tx

ClosedWithClaim(s) ==
    /\ payments[sessions[s].payment].status = "closed"
    /\ ShortTransfer(s) \in Transfers
    /\ claims[ShortTransfer(s)].session = s

(* The pieces of the transfers that went to the wallet: all of a recharge, *)
(* all of what came short, and of what came over the part that exceeds the *)
(* price.                                                                  *)
RechargePieces == Pieces(Amount, recharged)
ShortPieces(s) == {ShortTransfer(s)} \X (1 .. Amount[ShortTransfer(s)])
ExcessPieces(s) ==
    {sessions[s].hash} \X (Price[OrderOf(s)] + 1 .. Amount[sessions[s].hash])

CreditedPieces ==
    RechargePieces \cup (UNION {ShortPieces(s) : s \in under})
                   \cup (UNION {ExcessPieces(s) : s \in over})

(* Who claimed a transfer has an order to pay with it.                     *)
ClaimHasOrder(t) ==
    claims[t].session # NoSession => OrderOf(claims[t].session) # NoOrder

LedgerOK ==
    /\ \A t \in Transfers : ClaimHasOrder(t)
    /\ \A s \in Sessions : CompletesWithClaim(s)
    /\ \A s \in over : sessions[s].status = "paid"
    /\ \A s \in under : ClosedWithClaim(s)
    /\ \A t \in recharged : claims[t].session = NoSession

(* What a credit changes. *)
Purse == <<over, under, wallet, recharged>>

MoneyInv ==
    /\ IInv
    /\ LedgerOK
    /\ wallet = Cardinality(CreditedPieces)
-----------------------------------------------------------------------------
(* What a step may do to a row, for the money's sake.                      *)

(* A row is kept, does not complete, or completes with what it claimed.    *)
RowEffect(s) ==
    \/ sessions'[s] = sessions[s]
    \/ sessions'[s].status \notin {"completing", "paid"}
    \/ CompletesWithClaim(s)'

LEMMA OneRowChanges ==
    ASSUME IInv, NEW s \in Sessions, NEW row, sessions' = [sessions EXCEPT ![s] = row],
           row.status \notin {"completing", "paid"}
    PROVE  \A r \in Sessions : RowEffect(r)
BY Typed DEF RowEffect

LEMMA PatchEffect ==
    ASSUME IInv, NEW s \in Sessions, NEW row, Patch(s, row),
           row.status \notin {"completing", "paid"}
    PROVE  \A r \in Sessions : RowEffect(r)
<1>1. CASE sessions' = sessions
  BY <1>1 DEF RowEffect
<1>2. CASE sessions' = [sessions EXCEPT ![s] = row]
  BY <1>2, OneRowChanges
<1> QED
  BY <1>1, <1>2 DEF Patch

LEMMA PrepareEffect ==
    ASSUME IInv, NEW w \in Workers, Prepare(w), NEW r \in Sessions
    PROVE  RowEffect(r)
<1>a. /\ workers[w].pc = "prepare"
      /\ JobOK(workers[w])
      /\ Job(w) \in Sessions
      /\ sessions[Job(w)] \in SessionRow
      /\ Tx(w) \in Transfers
  BY JobFacts DEF Prepare, At
<1>1. PICK row : row = [sessions[Job(w)] EXCEPT !.status = "completing", !.hash = Tx(w),
                                                !.amount = Amount[Tx(w)], !.attempt = w]
  OBVIOUS
<1>2. sessions' = [sessions EXCEPT ![Job(w)] = row]
  BY <1>1 DEF Prepare
<1>3. row.hash = Tx(w) /\ row.amount = Amount[Tx(w)]
  BY <1>a, <1>1 DEF SessionRow
<1>4. claims'[Tx(w)].session = Job(w)
  BY <1>a DEF JobOK, Prepare, Job, Tx
<1>5. CASE r = Job(w)
  <2>1. sessions'[r] = row
    BY <1>a, <1>2, <1>5, Typed
  <2> QED
    BY <1>a, <1>3, <1>4, <1>5, <2>1 DEF RowEffect, CompletesWithClaim
<1>6. CASE r # Job(w)
  BY <1>2, <1>6, Typed DEF RowEffect
<1> QED
  BY <1>5, <1>6

LEMMA FinishEffect ==
    ASSUME IInv, NEW w \in Workers, Finish(w), NEW r \in Sessions, CompletesWithClaim(r)
    PROVE  RowEffect(r)
<1>a. /\ Job(w) \in Sessions
      /\ sessions[Job(w)] \in SessionRow
      /\ Tx(w) \in Transfers
  BY JobFacts DEF Finish, At
<1>b. \A t \in Transfers : claims'[t].session = claims[t].session
  BY <1>a, Typed DEF Finish, ClaimRow
<1>1. CASE Owns(w) /\ r = Job(w)
  <2>1. PICK row : row = [sessions[r] EXCEPT !.status = "paid"]
    OBVIOUS
  <2>2. sessions' = [sessions EXCEPT ![r] = row]
    BY <1>1, <2>1 DEF Finish
  <2>3. sessions'[r] = row
    BY <2>2, Typed
  <2>4. row.hash = sessions[r].hash /\ row.amount = sessions[r].amount
    BY <1>a, <1>1, <2>1 DEF SessionRow
  <2>5. /\ sessions[r].hash \in Transfers
        /\ sessions[r].amount = Amount[sessions[r].hash]
        /\ claims[sessions[r].hash].session = r
    BY <1>1 DEF Owns, CompletesWithClaim
  <2> QED
    BY <1>b, <2>3, <2>4, <2>5 DEF RowEffect, CompletesWithClaim
<1>2. CASE ~ (Owns(w) /\ r = Job(w))
  <2>1. sessions'[r] = sessions[r]
    <3>1. CASE ~ Owns(w)
      BY <3>1 DEF Finish
    <3>2. CASE Owns(w)
      <4>1. PICK row : row = [sessions[Job(w)] EXCEPT !.status = "paid"]
        OBVIOUS
      <4>2. sessions' = [sessions EXCEPT ![Job(w)] = row]
        BY <3>2, <4>1 DEF Finish
      <4> QED
        BY <1>2, <3>2, <4>2, Typed
    <3> QED
      BY <3>1, <3>2
  <2> QED
    BY <2>1 DEF RowEffect
<1> QED
  BY <1>1, <1>2

(* What Settle does when it does not hand the excess to a reviewer.        *)
SettlesNow(s, t) ==
    /\ SettlesExcess(s, t)
    /\ orders' = [orders EXCEPT ![OrderOf(s)] = "paid"]
    /\ wallet' = wallet + Excess(s, t)
    /\ over' = over \cup {s}
    /\ sessions'[s].status = "paid"
    /\ sessions'[s].hash = t
    /\ UNCHANGED <<under, recharged>>

LEMMA SettleEffect ==
    ASSUME IInv, NEW w \in Workers, Settle(w)
    PROVE  /\ \A r \in Sessions : RowEffect(r)
           /\ \A t \in Transfers : claims'[t].session = claims[t].session
           /\ \/ UNCHANGED <<orders, Purse>>
              \/ \E s \in Sessions, t \in Transfers : SettlesNow(s, t)
<1>1. PICK s \in Sessions, t \in Transfers : s = Job(w) /\ t = Tx(w)
  BY JobFacts DEF Settle, At
<1>2. PICK limit \in AutoLimits :
         IF Excess(s, t) > limit
         THEN /\ sessions' = [sessions EXCEPT ![s].status = "manual_review", ![s].hash = t,
                                              ![s].decision = "pending",
                                              ![s].attempt = NoWorker]
              /\ claims' = [claims EXCEPT ![t].status = "manual_review"]
              /\ UNCHANGED <<orders, payments, wallet, over>>
         ELSE /\ Complete(s, t)
              /\ wallet' = wallet + Excess(s, t)
              /\ over' = over \cup {s}
              /\ sessions' = [sessions EXCEPT ![s].status = "paid", ![s].hash = t,
                                              ![s].attempt = NoWorker]
              /\ claims' = [claims EXCEPT ![t].status = "paid"]
  BY <1>1 DEF Settle
<1>3. SettlesExcess(s, t) /\ UNCHANGED <<under, recharged>>
  BY <1>1 DEF Settle
<1>a. sessions[s] \in SessionRow
  BY Typed
<1>4. \A v \in Transfers : claims'[v].session = claims[v].session
  BY <1>2, Typed DEF ClaimRow
<1>5. CASE Excess(s, t) > limit
  <2>1. PICK row : row = [sessions[s] EXCEPT !.status = "manual_review", !.hash = t,
                                            !.decision = "pending", !.attempt = NoWorker]
    OBVIOUS
  <2>2. sessions' = [sessions EXCEPT ![s] = row]
    BY <1>2, <1>5, <2>1
  <2>3. row.status = "manual_review"
    BY <1>a, <2>1 DEF SessionRow
  <2>4. UNCHANGED <<orders, Purse>>
    BY <1>2, <1>3, <1>5 DEF Purse
  <2> QED
    BY <1>4, <2>2, <2>3, <2>4, OneRowChanges
<1>6. CASE ~ Excess(s, t) > limit
  <2>1. PICK row : row = [sessions[s] EXCEPT !.status = "paid", !.hash = t, !.attempt = NoWorker]
    OBVIOUS
  <2>2. sessions' = [sessions EXCEPT ![s] = row]
    BY <1>2, <1>6, <2>1
  <2>3. row.status = "paid" /\ row.hash = t /\ row.amount = sessions[s].amount
    BY <1>a, <2>1 DEF SessionRow
  <2>4. sessions'[s] = row /\ \A r \in Sessions \ {s} : sessions'[r] = sessions[r]
    BY <2>2, Typed
  <2>5. row.amount = Amount[t] /\ claims'[t].session = s
    BY <1>3, <1>4, <2>3 DEF SettlesExcess
  <2>6. CompletesWithClaim(s)'
    BY <2>3, <2>4, <2>5 DEF CompletesWithClaim
  <2>7. SettlesNow(s, t)
    BY <1>2, <1>3, <1>6, <2>3, <2>4 DEF SettlesNow, Complete
  <2> QED
    BY <1>4, <2>4, <2>6, <2>7 DEF RowEffect
<1> QED
  BY <1>5, <1>6

(* The other steps that write a chain session leave it incomplete.         *)
LEMMA OtherRowEffects ==
    ASSUME IInv, NEW w \in Workers, NEW s \in Sessions,
           \/ WriteUnusable(w) \/ WriteEvidence(w) \/ WriteUnsettled(w) \/ GiveUp(w)
           \/ CreateSession(w, s) \/ ApproveLate(w, s)
    PROVE  \A r \in Sessions : RowEffect(r)
<1>a. \A v \in Sessions : sessions[v] \in SessionRow
  BY Typed
<1>b. workers[w] \in Worker
  BY Typed
<1>1. CASE WriteUnusable(w)
  <2> DEFINE expired == IF workers[w].result = "missing" THEN Job(w) \in lapsed
                        ELSE workers[w].expired
  <2>a. Job(w) \in Sessions
    BY <1>1, JobFacts DEF WriteUnusable, At
  <2>1. PICK status \in {"expired", "submitted"} :
          status = IF expired THEN "expired" ELSE "submitted"
    OBVIOUS
  <2>2. PICK row : row = [sessions[Job(w)] EXCEPT !.status = status, !.hash = Tx(w)]
    OBVIOUS
  <2>3. Patch(Job(w), row)
    BY <1>1, <2>1, <2>2 DEF WriteUnusable
  <2>4. row.status = status
    BY <1>a, <2>a, <2>2 DEF SessionRow
  <2> QED
    BY <2>a, <2>1, <2>3, <2>4, PatchEffect
<1>2. CASE WriteEvidence(w)
  <2>a. Job(w) \in Sessions
    BY <1>2, JobFacts DEF WriteEvidence, At
  <2>1. workers[w].result \in Verdicts
    BY <1>b, <1>2 DEF WriteEvidence, Worker
  <2>2. PICK row : row = [sessions[Job(w)] EXCEPT
           !.status = workers[w].result, !.hash = Tx(w), !.amount = Amount[Tx(w)],
           !.decision = IF workers[w].result = "manual_review" THEN "pending" ELSE "none"]
    OBVIOUS
  <2>3. Patch(Job(w), row)
    BY <1>2, <2>2 DEF WriteEvidence
  <2>4. row.status = workers[w].result
    BY <1>a, <2>a, <2>2 DEF SessionRow
  <2>5. row.status \notin {"completing", "paid"}
    BY <2>1, <2>4 DEF Verdicts
  <2> QED
    BY <2>a, <2>3, <2>5, PatchEffect
<1>3. CASE WriteUnsettled(w)
  <2>a. Job(w) \in Sessions
    BY <1>3, JobFacts DEF WriteUnsettled, At
  <2>1. PICK row : row = [sessions[Job(w)] EXCEPT
           !.status = "payment_failed", !.hash = Tx(w), !.amount = Amount[Tx(w)]]
    OBVIOUS
  <2>2. Patch(Job(w), row)
    BY <1>3, <2>1 DEF WriteUnsettled
  <2>3. row.status = "payment_failed"
    BY <1>a, <2>a, <2>1 DEF SessionRow
  <2> QED
    BY <2>a, <2>2, <2>3, PatchEffect
<1>4. CASE GiveUp(w)
  <2>a. Job(w) \in Sessions
    BY <1>4, JobFacts DEF GiveUp, At
  <2>1. CASE Owns(w)
    <3>1. PICK row : row = [sessions[Job(w)] EXCEPT !.status = "payment_failed"]
      OBVIOUS
    <3>2. sessions' = [sessions EXCEPT ![Job(w)] = row]
      BY <1>4, <2>1, <3>1 DEF GiveUp
    <3>3. row.status = "payment_failed"
      BY <1>a, <2>a, <3>1 DEF SessionRow
    <3> QED
      BY <2>a, <3>2, <3>3, OneRowChanges
  <2>2. CASE ~ Owns(w)
    BY <1>4, <2>2 DEF GiveUp, RowEffect
  <2> QED
    BY <2>1, <2>2
<1>5. CASE CreateSession(w, s)
  <2>1. PICK o, p :
          sessions' = [sessions EXCEPT ![s].order = o, ![s].payment = p,
                                       ![s].status = "waiting_payment"]
    BY <1>5 DEF CreateSession
  <2>2. PICK row : row = [sessions[s] EXCEPT !.order = o, !.payment = p,
                                             !.status = "waiting_payment"]
    OBVIOUS
  <2>3. sessions' = [sessions EXCEPT ![s] = row]
    BY <2>1, <2>2
  <2>4. row.status = "waiting_payment"
    BY <1>a, <2>2 DEF SessionRow
  <2> QED
    BY <2>3, <2>4, OneRowChanges
<1>6. CASE ApproveLate(w, s)
  <2>1. PICK row : row = [sessions[s] EXCEPT !.decision = "approved"]
    OBVIOUS
  <2>2. sessions' = [sessions EXCEPT ![s] = row]
    BY <1>6, <2>1 DEF ApproveLate
  <2>3. row.status = "manual_review"
    BY <1>a, <1>6, <2>1 DEF ApproveLate, SessionRow
  <2> QED
    BY <2>2, <2>3, OneRowChanges
<1> QED
  BY <1>1, <1>2, <1>3, <1>4, <1>5, <1>6

LEMMA SessionEndEffects ==
    ASSUME IInv, NEW s \in Sessions, RejectLate(s) \/ SettleUnderpayment(s)
    PROVE  \A r \in Sessions : RowEffect(r)
<1>a. \A v \in Sessions : sessions[v] \in SessionRow
  BY Typed
<1>1. CASE RejectLate(s)
  <2>1. PICK row : row = [sessions[s] EXCEPT !.decision = "rejected", !.status = "failed"]
    OBVIOUS
  <2>2. sessions' = [sessions EXCEPT ![s] = row]
    BY <1>1, <2>1 DEF RejectLate
  <2>3. row.status = "failed"
    BY <1>a, <2>1 DEF SessionRow
  <2> QED
    BY <2>2, <2>3, OneRowChanges
<1>2. CASE SettleUnderpayment(s)
  <2>1. PICK row : row = [sessions[s] EXCEPT !.status = "expired"]
    OBVIOUS
  <2>2. sessions' = [sessions EXCEPT ![s] = row]
    BY <1>2, <2>1 DEF SettleUnderpayment
  <2>3. row.status = "expired"
    BY <1>a, <2>1 DEF SessionRow
  <2> QED
    BY <2>2, <2>3, OneRowChanges
<1> QED
  BY <1>1, <1>2

LEMMA OrderEndEffects ==
    ASSUME IInv, NEW o \in Orders, ExpireOrder(o) \/ CancelOrder(o)
    PROVE  \A r \in Sessions : RowEffect(r)
<1> SUFFICES ASSUME NEW r \in Sessions
             PROVE  RowEffect(r)
  OBVIOUS
<1>1. \/ sessions'[r] = sessions[r]
      \/ sessions'[r] = [sessions[r] EXCEPT !.status = "expired"]
  BY DEF ExpireOrder, CancelOrder, EndUnpaid, EndWaiting
<1>2. CASE sessions'[r] = [sessions[r] EXCEPT !.status = "expired"]
  <2>1. sessions'[r].status = "expired"
    BY <1>2, Typed DEF SessionRow
  <2> QED
    BY <2>1 DEF RowEffect
<1> QED
  BY <1>1, <1>2 DEF RowEffect

-----------------------------------------------------------------------------
(* What a step may do to the claims and the money.                         *)

(* Only a transfer that no recharge was credited with is claimed, and for  *)
(* a session that was made.                                                *)
ClaimsEffect ==
    \A t \in Transfers :
        \/ claims'[t].session = claims[t].session
        \/ t \notin recharged' /\ OrderOf(claims'[t].session) # NoOrder

(* A recharge is credited, by the scanner or when it is completed. *)
RechargeCredited(t) ==
    /\ claims[t].session = NoSession
    /\ t \notin recharged
    /\ CreditRecharge(t)
    /\ UNCHANGED <<orders, sessions, payments, claims, over, under>>

MoneyEffect ==
    \/ UNCHANGED Purse
    \/ \E t \in Transfers : RechargeCredited(t)
    \/ \E s \in Sessions : SettleUnderpayment(s) \/ CreditOverpayment(s)
    \/ \E s \in Sessions, t \in Transfers : SettlesNow(s, t)

LEMMA RechargeIsCredited ==
    ASSUME IInv, NEW t \in Transfers, MatchRecharge(t) \/ CompleteRecharge(t)
    PROVE  RechargeCredited(t)
BY DEF MatchRecharge, CompleteRecharge, Registrable, RechargeCredited, RegistryOK, IInv

LEMMA ClaimEffect ==
    ASSUME IInv, NEW w \in Workers, Claim(w)
    PROVE  ClaimsEffect
<1>1. /\ Tx(w) \in Transfers /\ OrderOf(Job(w)) # NoOrder
      /\ recharged' = recharged /\ recharged \subseteq registered
  BY JobFacts DEF Claim, At, money, RegistryOK, IInv
<1>2. CASE ClaimHolds(Job(w), Tx(w))
  <2>1. claims' = [claims EXCEPT ![Tx(w)] = [session |-> Job(w), status |-> workers[w].result]]
    BY <1>2 DEF Claim
  <2>2. \A t \in Transfers : t # Tx(w) => claims'[t] = claims[t]
    BY <1>1, <2>1, Typed
  <2>3. claims'[Tx(w)].session = Job(w)
    BY <1>1, <2>1, Typed
  <2> QED
    BY <1>1, <1>2, <2>2, <2>3 DEF ClaimHolds, ClaimsEffect
<1>3. CASE ~ ClaimHolds(Job(w), Tx(w))
  BY <1>3 DEF Claim, ClaimsEffect
<1> QED
  BY <1>2, <1>3

Effect == (\A s \in Sessions : RowEffect(s)) /\ ClaimsEffect /\ MoneyEffect

LEMMA NextEffect ==
    ASSUME IInv, \A s \in Sessions : CompletesWithClaim(s), [Next]_vars
    PROVE  Effect
<1> USE DEF Effect
<1>a. UNCHANGED sessions => \A s \in Sessions : RowEffect(s)
  BY DEF RowEffect
<1>b. UNCHANGED claims => ClaimsEffect
  BY DEF ClaimsEffect
<1>c. (UNCHANGED Purse => MoneyEffect) /\ (UNCHANGED money => MoneyEffect)
  BY DEF MoneyEffect, money, Purse
<1>1. ASSUME NEW w \in Workers, VerifyStep(w)
      PROVE  Effect
  <2>1. CASE Inspect(w) \/ SettlementFails(w) \/ AlreadySettled(w) \/ CompletePayment(w)
             \/ CompletionFails(w) \/ Check(w)
    BY <2>1, <1>a, <1>b, <1>c DEF Inspect, SettlementFails, AlreadySettled, CompletePayment,
       CompletionFails, Check
  <2>2. CASE Claim(w)
    BY <2>2, <1>a, <1>c, ClaimEffect DEF Claim
  <2>3. CASE WriteUnusable(w) \/ WriteEvidence(w) \/ WriteUnsettled(w) \/ GiveUp(w)
    <3>1. Job(w) \in Sessions
      BY <2>3, JobFacts DEF WriteUnusable, WriteEvidence, WriteUnsettled, GiveUp, At
    <3>2. UNCHANGED <<claims, money>>
      BY <2>3 DEF WriteUnusable, WriteEvidence, WriteUnsettled, GiveUp
    <3> QED
      BY <2>3, <3>1, <3>2, <1>b, <1>c, OtherRowEffects
  <2>4. CASE Settle(w)
    BY <2>4, SettleEffect DEF ClaimsEffect, MoneyEffect
  <2>5. CASE Prepare(w)
    BY <2>5, <1>b, <1>c, PrepareEffect DEF Prepare
  <2>6. CASE Finish(w)
    <3>1. \A t \in Transfers : claims'[t].session = claims[t].session
      BY <2>6, JobFacts, Typed DEF Finish, At, ClaimRow
    <3> QED
      BY <2>6, <3>1, <1>c, FinishEffect DEF Finish, ClaimsEffect
  <2> QED
    BY <1>1, <2>1, <2>2, <2>3, <2>4, <2>5, <2>6 DEF VerifyStep
<1>2. ASSUME NEW w \in Workers,
             \/ Crash(w)
             \/ \E o \in Orders : ReadForSession(w, o)
             \/ \E o \in Orders, t \in Transfers : VerifyTxHash(w, o, t)
             \/ \E s \in Sessions : Recheck(w, s)
      PROVE  Effect
  BY <1>2, <1>a, <1>b, <1>c DEF Crash, ReadForSession, VerifyTxHash, Recheck
<1>3. ASSUME NEW w \in Workers, NEW s \in Sessions, CreateSession(w, s) \/ ApproveLate(w, s)
      PROVE  Effect
  <2>1. UNCHANGED <<claims, money>>
    BY <1>3 DEF CreateSession, ApproveLate
  <2> QED
    BY <1>3, <2>1, <1>b, <1>c, OtherRowEffects
<1>4. ASSUME NEW s \in Sessions, RejectLate(s) \/ SettleUnderpayment(s)
      PROVE  Effect
  <2>1. UNCHANGED claims /\ MoneyEffect
    BY <1>4, <1>c DEF RejectLate, SettleUnderpayment, MoneyEffect
  <2> QED
    BY <1>4, <2>1, <1>b, SessionEndEffects
<1>5. ASSUME NEW s \in Sessions, CreditOverpayment(s) \/ SessionLapses(s)
      PROVE  Effect
  <2>1. MoneyEffect
    BY <1>5, <1>c DEF SessionLapses, MoneyEffect
  <2> QED
    BY <1>5, <2>1, <1>a, <1>b DEF CreditOverpayment, SessionLapses
<1>6. ASSUME NEW o \in Orders, ExpireOrder(o) \/ CancelOrder(o)
      PROVE  Effect
  <2>1. UNCHANGED <<claims, money>>
    BY <1>6 DEF ExpireOrder, CancelOrder
  <2> QED
    BY <1>6, <2>1, <1>b, <1>c, OrderEndEffects
<1>7. ASSUME NEW t \in Transfers,
             \/ MakeTransfer(t) \/ TransferConfirms(t)
             \/ MatchRecharge(t) \/ ClaimForRecharge(t) \/ CompleteRecharge(t)
      PROVE  Effect
  <2>1. UNCHANGED <<sessions, claims>>
    BY <1>7 DEF MakeTransfer, TransferConfirms, MatchRecharge, ClaimForRecharge, CompleteRecharge
  <2>2. CASE MakeTransfer(t) \/ TransferConfirms(t) \/ ClaimForRecharge(t)
    BY <2>1, <2>2, <1>a, <1>b, <1>c
       DEF MakeTransfer, TransferConfirms, ClaimForRecharge, money, Purse
  <2>3. CASE MatchRecharge(t) \/ CompleteRecharge(t)
    BY <2>1, <2>3, <1>a, <1>b, RechargeIsCredited DEF MoneyEffect
  <2> QED
    BY <1>7, <2>2, <2>3
<1>8. ASSUME NEW o \in Orders, DeadlinePasses(o)
      PROVE  Effect
  BY <1>8, <1>a, <1>b, <1>c DEF DeadlinePasses
<1>9. CASE UNCHANGED vars
  BY <1>9, <1>a, <1>b, <1>c DEF vars
<1>10. ASSUME NEW w \in Workers,
             \/ VerifyStep(w)
             \/ Crash(w)
             \/ \E o \in Orders : ReadForSession(w, o)
             \/ \E s \in Sessions : CreateSession(w, s)
             \/ \E o \in Orders, t \in Transfers : VerifyTxHash(w, o, t)
             \/ \E s \in Sessions : Recheck(w, s) \/ ApproveLate(w, s)
      PROVE  Effect
  <2>1. CASE VerifyStep(w)
    BY <2>1, <1>1
  <2>2. CASE \E s \in Sessions : CreateSession(w, s) \/ ApproveLate(w, s)
    BY <2>2, <1>3
  <2>3. CASE \/ Crash(w)
             \/ \E o \in Orders : ReadForSession(w, o)
             \/ \E o \in Orders, t \in Transfers : VerifyTxHash(w, o, t)
             \/ \E s \in Sessions : Recheck(w, s)
    BY <2>3, <1>2
  <2> QED
    BY <1>10, <2>1, <2>2, <2>3
<1>11. ASSUME NEW s \in Sessions,
             RejectLate(s) \/ SettleUnderpayment(s) \/ CreditOverpayment(s) \/ SessionLapses(s)
      PROVE  Effect
  BY <1>11, <1>4, <1>5
<1>12. ASSUME NEW o \in Orders, ExpireOrder(o) \/ CancelOrder(o) \/ DeadlinePasses(o)
      PROVE  Effect
  BY <1>12, <1>6, <1>8
<1> HIDE DEF Effect
<1> QED
  BY <1>7, <1>9, <1>10, <1>11, <1>12 DEF Next

-----------------------------------------------------------------------------
(* What the ledger says of the rows behind a credit stays true.            *)

LEMMA ClaimsHaveOrders ==
    ASSUME IInv, LedgerOK, Step, Effect, NEW t \in Transfers
    PROVE  ClaimHasOrder(t)'
<1> SUFFICES ASSUME claims'[t].session # NoSession
             PROVE  OrderOf(claims[t].session)' # NoOrder
  BY DEF ClaimHasOrder
<1>1. PICK s \in Sessions : s = claims'[t].session
  BY DEF Step, TablesStep, ClaimsStep, ClaimRow
<1>2. OrderOf(s) # NoOrder
  BY <1>1 DEF Effect, ClaimsEffect, LedgerOK, ClaimHasOrder
<1>3. OrderOf(s)' = OrderOf(s)
  BY <1>2, SessionKept DEF Step, TablesStep
<1> QED
  BY <1>1, <1>2, <1>3 DEF OrderOf

LEMMA CompletionsKept ==
    ASSUME IInv, LedgerOK, Step, Effect, NEW s \in Sessions
    PROVE  CompletesWithClaim(s)'
<1>1. CASE sessions'[s] = sessions[s]
  <2>1. CompletesWithClaim(s)
    BY DEF LedgerOK
  <2>2. \A t \in Transfers : claims[t].session = s => claims'[t].session = s
    BY Bep20Assumption DEF Step, TablesStep, ClaimsStep
  <2> QED
    BY <1>1, <2>1, <2>2 DEF CompletesWithClaim
<1>2. CASE sessions'[s].status \notin {"completing", "paid"}
  BY <1>2 DEF CompletesWithClaim
<1> QED
  BY <1>1, <1>2 DEF Effect, RowEffect

LEMMA OverIsPaid ==
    ASSUME IInv, LedgerOK, Step, Effect, NEW s \in over'
    PROVE  sessions'[s].status = "paid"
<1>a. ASSUME NEW r \in Sessions, sessions[r].status = "paid"
      PROVE  sessions'[r].status = "paid"
  <2>1. ~ Created(r)
    BY <1>a, CreatedIsNew
  <2> QED
    BY <1>a, <2>1 DEF Step, TablesStep, SessionsStep, Rewritten
<1>b. over \in SUBSET Sessions
  BY DEF IInv, TypeOK
<1>1. CASE s \in over
  BY <1>1, <1>a, <1>b DEF LedgerOK
<1>2. CASE s \notin over
  <2>1. CASE \E r \in Sessions : CreditOverpayment(r)
    BY <2>1, <1>2, <1>a DEF CreditOverpayment
  <2>2. CASE \E r \in Sessions, t \in Transfers : SettlesNow(r, t)
    BY <2>2, <1>2 DEF SettlesNow
  <2>3. CASE UNCHANGED Purse \/ (\E t \in Transfers : RechargeCredited(t))
             \/ (\E r \in Sessions : SettleUnderpayment(r))
    BY <2>3, <1>2 DEF Purse, RechargeCredited, CreditRecharge, SettleUnderpayment
  <2> QED
    BY <2>1, <2>2, <2>3 DEF Effect, MoneyEffect
<1> QED
  BY <1>1, <1>2

LEMMA ClosedKept ==
    ASSUME IInv, Step, NEW s \in Sessions, OrderOf(s) # NoOrder, ClosedWithClaim(s)
    PROVE  ClosedWithClaim(s)' /\ ShortTransfer(s)' = ShortTransfer(s)
<1>1. PICK p \in Sessions : p = sessions[s].payment /\ sessions'[s].payment = p
  BY SessionKept DEF Step, TablesStep
<1>2. payments'[p] = payments[p]
  BY <1>1 DEF ClosedWithClaim, Step, TablesStep, PaymentsStep, Paying
<1>3. ShortTransfer(s)' = ShortTransfer(s)
  BY <1>1, <1>2 DEF ShortTransfer
<1>4. PICK t \in Transfers : t = ShortTransfer(s)
  BY DEF ClosedWithClaim
<1>5. claims[t].session = s /\ payments[p].status = "closed"
  BY <1>1, <1>4 DEF ClosedWithClaim
<1>6. claims'[t].session = s
  BY <1>5, Bep20Assumption DEF Step, TablesStep, ClaimsStep
<1>7. ShortTransfer(s)' = t /\ payments'[sessions'[s].payment].status = "closed"
  BY <1>1, <1>2, <1>3, <1>4, <1>5
<1> QED
  BY <1>3, <1>6, <1>7 DEF ClosedWithClaim

(* An underpayment closes the payment session with what it credits.        *)
LEMMA UnderpaymentCloses ==
    ASSUME IInv, Step, NEW s \in Sessions, SettleUnderpayment(s)
    PROVE  /\ sessions[s].hash \in Transfers
           /\ ClosedWithClaim(s)'
           /\ ShortTransfer(s)' = sessions[s].hash
           /\ OrderOf(s) # NoOrder
<1>1. sessions[s].hash \in Transfers
  BY Typed DEF SettleUnderpayment, SessionRow
<1>2. OrderOf(s) # NoOrder
  BY DEF IInv, RowOK, Unmade, OrderOf, SettleUnderpayment
<1>3. PICK t \in Transfers, p \in Sessions :
        t = sessions[s].hash /\ p = sessions[s].payment /\ sessions'[s].payment = p
  BY <1>1, <1>2, SessionKept DEF Step, TablesStep
<1>4. payments' = [payments EXCEPT ![p] = [status |-> "closed", tx |-> t]]
  BY <1>3 DEF SettleUnderpayment
<1>5. payments'[p] = [status |-> "closed", tx |-> t]
  BY <1>4, Typed
<1>6. claims[t].session = s /\ claims' = claims
  BY <1>3 DEF SettleUnderpayment
<1>7. ShortTransfer(s)' = t
  BY <1>3, <1>5 DEF ShortTransfer
<1>8. claims'[t].session = s /\ payments'[sessions'[s].payment].status = "closed"
  BY <1>3, <1>5, <1>6
<1>9. ClosedWithClaim(s)'
  BY <1>7, <1>8 DEF ClosedWithClaim
<1> QED
  BY <1>1, <1>2, <1>3, <1>7, <1>9

LEMMA UnderIsClosed ==
    ASSUME IInv, LedgerOK, Step, Effect, NEW s \in under'
    PROVE  ClosedWithClaim(s)'
<1>a. under \in SUBSET Sessions
  BY DEF IInv, TypeOK
<1>1. CASE s \in under
  <2>1. s \in Sessions /\ OrderOf(s) # NoOrder
    BY <1>a, <1>1 DEF IInv, CreditsOK
  <2>2. ClosedWithClaim(s)
    BY <1>1 DEF LedgerOK
  <2> QED
    BY <2>1, <2>2, ClosedKept
<1>2. CASE s \notin under
  <2>1. s \in Sessions /\ SettleUnderpayment(s)
    BY <1>2 DEF Effect, MoneyEffect, Purse, RechargeCredited, SettleUnderpayment,
       CreditOverpayment, SettlesNow
  <2> QED
    BY <2>1, UnderpaymentCloses
<1> QED
  BY <1>1, <1>2

LEMMA RechargedUnclaimed ==
    ASSUME Step, NEW t \in recharged'
    PROVE  claims'[t].session = NoSession
BY DEF Step, TablesStep, ClaimsStep, RegistryOK

LEMMA LedgerKept ==
    ASSUME IInv, LedgerOK, Step, Effect
    PROVE  LedgerOK'
<1>1. \A s \in Sessions : CompletesWithClaim(s)'
  BY CompletionsKept
<1>2. \A s \in over' : sessions'[s].status = "paid"
  BY OverIsPaid
<1>3. \A s \in under' : ClosedWithClaim(s)'
  BY UnderIsClosed
<1>4. \A t \in recharged' : claims'[t].session = NoSession
  BY RechargedUnclaimed
<1>5. \A t \in Transfers : ClaimHasOrder(t)'
  BY ClaimsHaveOrders
<1> QED
  BY <1>1, <1>2, <1>3, <1>4, <1>5 DEF LedgerOK

-----------------------------------------------------------------------------
(* A credit adds pieces nothing was credited with before, as many as it    *)
(* adds to the wallet.                                                     *)

LEMMA CreditedPiece ==
    ASSUME NEW x
    PROVE  x \in CreditedPieces <=>
             \/ \E t \in recharged : x \in {t} \X (1 .. Amount[t])
             \/ \E s \in under : x \in ShortPieces(s)
             \/ \E s \in over : x \in ExcessPieces(s)
BY DEF CreditedPieces, RechargePieces, Pieces

LEMMA CreditedAfter ==
    ASSUME NEW x
    PROVE  x \in CreditedPieces' <=>
             \/ \E t \in recharged' : x \in {t} \X (1 .. Amount[t])
             \/ \E s \in under' : x \in ShortPieces(s)'
             \/ \E s \in over' : x \in ExcessPieces(s)'
BY DEF CreditedPieces, RechargePieces, Pieces

(* Of a transfer nothing was credited to a recharge, an underpayment or an *)
(* overpayment has no credited piece.                                      *)
LEMMA NoPieceOf ==
    ASSUME IInv, LedgerOK, NEW t \in Transfers, t \notin recharged,
           claims[t].session \notin under \cup over
    PROVE  \A i : <<t, i>> \notin CreditedPieces
<1> SUFFICES ASSUME NEW i, <<t, i>> \in CreditedPieces
             PROVE  FALSE
  OBVIOUS
<1>1. CASE \E u \in recharged : <<t, i>> \in {u} \X (1 .. Amount[u])
  BY <1>1
<1>2. CASE \E s \in under : <<t, i>> \in ShortPieces(s)
  BY <1>2 DEF ShortPieces, LedgerOK, ClosedWithClaim
<1>3. CASE \E s \in over : <<t, i>> \in ExcessPieces(s)
  <2>1. PICK s \in over : t = sessions[s].hash
    BY <1>3 DEF ExcessPieces
  <2>2. s \in Sessions /\ sessions[s].status = "paid"
    BY <2>1 DEF IInv, TypeOK, LedgerOK
  <2> QED
    BY <2>1, <2>2 DEF LedgerOK, CompletesWithClaim
<1> QED
  BY <1>1, <1>2, <1>3, CreditedPiece

LEMMA CreditsStay ==
    ASSUME IInv, LedgerOK, Step
    PROVE  /\ \A s \in under : ShortPieces(s)' = ShortPieces(s)
           /\ \A s \in over : ExcessPieces(s)' = ExcessPieces(s)
<1>a. over \in SUBSET Sessions /\ under \in SUBSET Sessions
  BY DEF IInv, TypeOK
<1>1. ASSUME NEW s \in under
      PROVE  ShortPieces(s)' = ShortPieces(s)
  <2>1. s \in Sessions /\ OrderOf(s) # NoOrder /\ ClosedWithClaim(s)
    BY <1>a DEF IInv, CreditsOK, LedgerOK
  <2>2. ShortTransfer(s)' = ShortTransfer(s)
    BY <2>1, ClosedKept
  <2> QED
    BY <2>2 DEF ShortPieces
<1>2. ASSUME NEW s \in over
      PROVE  ExcessPieces(s)' = ExcessPieces(s)
  <2>1. s \in Sessions /\ sessions[s].status = "paid"
    BY <1>a DEF LedgerOK
  <2>2. ~ Created(s)
    BY <2>1, CreatedIsNew
  <2>3. sessions'[s] = sessions[s]
    BY <2>1, <2>2 DEF Step, TablesStep, SessionsStep, Rewritten
  <2> QED
    BY <2>3 DEF ExcessPieces, OrderOf
<1> QED
  BY <1>1, <1>2

(* The pieces a .. b of the transfer are credited now.                     *)
Credits(t, a, b) ==
    /\ wallet' = wallet + ((b + 1) - a)
    /\ CreditedPieces' = CreditedPieces \cup ({t} \X (a .. b))
    /\ \A i : <<t, i>> \notin CreditedPieces

LEMMA RechargeCredits ==
    ASSUME IInv, LedgerOK, Step, NEW t \in Transfers, RechargeCredited(t)
    PROVE  Credits(t, 1, Amount[t])
<1>1. recharged' = recharged \cup {t} /\ under' = under /\ over' = over
  BY DEF RechargeCredited, CreditRecharge
<1>2. wallet' = wallet + ((Amount[t] + 1) - 1)
  BY Bep20Assumption DEF RechargeCredited, CreditRecharge, IInv, TypeOK
<1>3. claims[t].session \notin under \cup over
  BY Bep20Assumption DEF RechargeCredited, CreditRecharge, IInv, TypeOK
<1>4. \A i : <<t, i>> \notin CreditedPieces
  BY <1>3, NoPieceOf DEF RechargeCredited
<1>5. ASSUME NEW x
      PROVE  x \in CreditedPieces' <=> x \in CreditedPieces \/ x \in {t} \X (1 .. Amount[t])
  BY <1>1, CreditsStay, CreditedPiece, CreditedAfter
<1>6. CreditedPieces' = CreditedPieces \cup ({t} \X (1 .. Amount[t]))
  BY <1>5
<1> QED
  BY <1>2, <1>4, <1>6 DEF Credits

LEMMA UnderpaymentCredits ==
    ASSUME IInv, LedgerOK, Step, NEW s \in Sessions, SettleUnderpayment(s)
    PROVE  \E t \in Transfers : t = sessions[s].hash /\ Credits(t, 1, Amount[t])
<1>1. PICK t \in Transfers : t = sessions[s].hash
  BY UnderpaymentCloses
<1>2. recharged' = recharged /\ under' = under \cup {s} /\ over' = over
  BY DEF SettleUnderpayment
<1>3. wallet' = wallet + ((Amount[t] + 1) - 1)
  BY <1>1, Bep20Assumption DEF SettleUnderpayment, IInv, TypeOK
<1>4. claims[t].session = s /\ s \notin under /\ orders[OrderOf(s)] = "pending"
  BY <1>1 DEF SettleUnderpayment, OrderOf
<1>5. t \notin recharged /\ s \notin over
  BY <1>4, Bep20Assumption DEF LedgerOK, IInv, CreditsOK
<1>6. \A i : <<t, i>> \notin CreditedPieces
  BY <1>4, <1>5, NoPieceOf
<1>7. ShortPieces(s)' = {t} \X (1 .. Amount[t])
  <2>1. ShortTransfer(s)' = t
    BY <1>1, UnderpaymentCloses
  <2> QED
    BY <2>1 DEF ShortPieces
<1>8. ASSUME NEW x
      PROVE  x \in CreditedPieces' <=> x \in CreditedPieces \/ x \in {t} \X (1 .. Amount[t])
  BY <1>2, <1>7, CreditsStay, CreditedPiece, CreditedAfter
<1>9. CreditedPieces' = CreditedPieces \cup ({t} \X (1 .. Amount[t]))
  BY <1>8
<1>10. Credits(t, 1, Amount[t])
  BY <1>3, <1>6, <1>9 DEF Credits
<1> QED
  BY <1>1, <1>10

(* An excess joins the credits with the part above the price.              *)
LEMMA ExcessCredits ==
    ASSUME IInv, LedgerOK, Step, NEW s \in Sessions, NEW t \in Transfers, NEW price \in Nat,
           OrderOf(s) # NoOrder, price = Price[OrderOf(s)], price < Amount[t],
           claims[t].session = s, s \notin over, s \notin under,
           sessions'[s].hash = t,
           wallet' = wallet + (Amount[t] - price),
           over' = over \cup {s}, UNCHANGED <<under, recharged>>
    PROVE  Credits(t, price + 1, Amount[t])
<1>1. wallet' = wallet + ((Amount[t] + 1) - (price + 1))
  BY Bep20Assumption DEF IInv, TypeOK
<1>2. t \notin recharged
  BY Bep20Assumption DEF LedgerOK
<1>3. \A i : <<t, i>> \notin CreditedPieces
  BY <1>2, NoPieceOf
<1>4. ExcessPieces(s)' = {t} \X (price + 1 .. Amount[t])
  <2>1. OrderOf(s)' = OrderOf(s)
    BY SessionKept DEF Step, TablesStep
  <2> QED
    BY <2>1 DEF ExcessPieces
<1>5. ASSUME NEW x
      PROVE  x \in CreditedPieces' <=>
               x \in CreditedPieces \/ x \in {t} \X (price + 1 .. Amount[t])
  BY <1>4, CreditsStay, CreditedPiece, CreditedAfter
<1>6. CreditedPieces' = CreditedPieces \cup ({t} \X (price + 1 .. Amount[t]))
  BY <1>5
<1> QED
  BY <1>1, <1>3, <1>6 DEF Credits

LEMMA SettlementCredits ==
    ASSUME IInv, LedgerOK, Step, NEW s \in Sessions, NEW t \in Transfers, SettlesNow(s, t)
    PROVE  \E price \in Nat :
             price = Price[OrderOf(s)] /\ price < Amount[t] /\ Credits(t, price + 1, Amount[t])
<1>1. OrderOf(s) # NoOrder /\ OrderOf(s) \in Orders
  <2>1. OrderOf(s) # NoOrder
    BY DEF IInv, RowOK, Unmade, OrderOf, SettlesNow, SettlesExcess
  <2> QED
    BY <2>1, SessionKept DEF Step, TablesStep
<1>2. PICK price \in Nat : price = Price[OrderOf(s)]
  BY <1>1, Bep20Assumption
<1>3. /\ price < Amount[t]
      /\ claims[t].session = s
      /\ s \notin over
      /\ orders[OrderOf(s)] = "pending"
      /\ sessions'[s].hash = t
      /\ wallet' = wallet + (Amount[t] - price)
      /\ over' = over \cup {s}
      /\ UNCHANGED <<under, recharged>>
  BY <1>1, <1>2, Bep20Assumption DEF SettlesNow, SettlesExcess, Completable, Excess
<1>4. s \notin under
  BY <1>3 DEF IInv, CreditsOK
<1>5. Credits(t, price + 1, Amount[t])
  BY <1>1, <1>2, <1>3, <1>4, ExcessCredits
<1> QED
  BY <1>2, <1>3, <1>5

LEMMA OverpaymentCredits ==
    ASSUME IInv, LedgerOK, Step, NEW s \in Sessions, CreditOverpayment(s)
    PROVE  \E t \in Transfers, price \in Nat :
             /\ claims[t].session = s
             /\ price = Price[OrderOf(s)]
             /\ price < Amount[t]
             /\ Credits(t, price + 1, Amount[t])
<1>1. OrderOf(s) # NoOrder /\ OrderOf(s) \in Orders
  <2>1. OrderOf(s) # NoOrder
    BY DEF IInv, RowOK, Unmade, OrderOf, CreditOverpayment
  <2> QED
    BY <2>1, SessionKept DEF Step, TablesStep
<1>2. PICK price \in Nat : price = Price[OrderOf(s)]
  BY <1>1, Bep20Assumption
<1>3. PICK t \in Transfers :
        t = sessions[s].hash /\ sessions[s].amount = Amount[t] /\ claims[t].session = s
  BY DEF CreditOverpayment, LedgerOK, CompletesWithClaim
<1>4. /\ price < Amount[t]
      /\ s \notin over
      /\ orders[OrderOf(s)] = "paid"
      /\ sessions'[s].hash = t
      /\ wallet' = wallet + (Amount[t] - price)
      /\ over' = over \cup {s}
      /\ UNCHANGED <<under, recharged>>
  BY <1>2, <1>3, Bep20Assumption DEF CreditOverpayment, OrderOf
<1>5. s \notin under
  BY <1>4 DEF IInv, CreditsOK
<1>6. Credits(t, price + 1, Amount[t])
  BY <1>1, <1>2, <1>3, <1>4, <1>5, ExcessCredits
<1> QED
  BY <1>2, <1>3, <1>4, <1>6

LEMMA NothingCredited ==
    ASSUME IInv, LedgerOK, Step, UNCHANGED Purse
    PROVE  CreditedPieces' = CreditedPieces
<1>1. recharged' = recharged /\ under' = under /\ over' = over
  BY DEF Purse
<1>2. ASSUME NEW x
      PROVE  x \in CreditedPieces' <=> x \in CreditedPieces
  BY <1>1, CreditsStay, CreditedPiece, CreditedAfter
<1> QED
  BY <1>2

LEMMA StepCredits ==
    ASSUME IInv, LedgerOK, Step, Effect
    PROVE  \/ wallet' = wallet /\ CreditedPieces' = CreditedPieces
           \/ \E t \in Transfers, price \in Nat :
                price < Amount[t] /\ Credits(t, price + 1, Amount[t])
<1>1. CASE UNCHANGED Purse
  BY <1>1, NothingCredited DEF Purse
<1>2. ASSUME NEW t \in Transfers, Credits(t, 1, Amount[t])
      PROVE  \E price \in Nat : price < Amount[t] /\ Credits(t, price + 1, Amount[t])
  <2>1. 0 < Amount[t] /\ Credits(t, 0 + 1, Amount[t])
    BY <1>2, Bep20Assumption DEF Credits
  <2> QED
    BY <2>1
<1>3. CASE \E t \in Transfers : RechargeCredited(t)
  BY <1>2, <1>3, RechargeCredits
<1>4. CASE \E s \in Sessions : SettleUnderpayment(s)
  BY <1>2, <1>4, UnderpaymentCredits
<1>5. CASE \E s \in Sessions : CreditOverpayment(s)
  BY <1>5, OverpaymentCredits
<1>6. CASE \E s \in Sessions, t \in Transfers : SettlesNow(s, t)
  BY <1>6, SettlementCredits
<1> QED
  BY <1>1, <1>3, <1>4, <1>5, <1>6 DEF Effect, MoneyEffect

-----------------------------------------------------------------------------
(* So the wallet counts the credited pieces.                               *)

LEMMA CreditedAreFinite ==
    ASSUME IInv, LedgerOK
    PROVE  IsFiniteSet(CreditedPieces)
<1>1. CreditedPieces \subseteq Pieces(Amount, Transfers)
  <2> SUFFICES ASSUME NEW x \in CreditedPieces
               PROVE  x \in Pieces(Amount, Transfers)
    OBVIOUS
  <2>a. recharged \in SUBSET Transfers /\ over \in SUBSET Sessions
    BY DEF IInv, TypeOK
  <2>1. CASE \E t \in recharged : x \in {t} \X (1 .. Amount[t])
    BY <2>1, <2>a DEF Pieces
  <2>2. CASE \E s \in under : x \in ShortPieces(s)
    BY <2>2 DEF ShortPieces, Pieces, LedgerOK, ClosedWithClaim
  <2>3. CASE \E s \in over : x \in ExcessPieces(s)
    <3>1. PICK s \in over : x \in ExcessPieces(s)
      BY <2>3
    <3>2. s \in Sessions /\ OrderOf(s) # NoOrder /\ sessions[s].status = "paid"
      BY <2>a DEF IInv, CreditsOK, LedgerOK
    <3>3. PICK t \in Transfers : t = sessions[s].hash
      BY <3>2 DEF LedgerOK, CompletesWithClaim
    <3>4. Price[OrderOf(s)] \in Nat
      BY <3>2, Typed, Bep20Assumption DEF OrderOf, SessionRow
    <3>5. x \in {t} \X (1 .. Amount[t])
      BY <3>1, <3>3, <3>4, Bep20Assumption DEF ExcessPieces
    <3> QED
      BY <3>5 DEF Pieces
  <2> QED
    BY <2>1, <2>2, <2>3, CreditedPiece
<1>2. IsFiniteSet(Pieces(Amount, Transfers))
  BY Bep20Assumption, PiecesAreFinite
<1> QED
  BY <1>1, <1>2, FS_Subset

LEMMA MoneyKept ==
    ASSUME MoneyInv, Step, Effect
    PROVE  MoneyInv'
<1>1. IInv /\ LedgerOK /\ wallet = Cardinality(CreditedPieces)
  BY DEF MoneyInv
<1>2. IInv' /\ LedgerOK'
  BY <1>1, StepKeepsIInv, LedgerKept
<1>3. CASE wallet' = wallet /\ CreditedPieces' = CreditedPieces
  BY <1>1, <1>2, <1>3, Zenon DEF MoneyInv
<1>4. CASE \E t \in Transfers, price \in Nat :
             price < Amount[t] /\ Credits(t, price + 1, Amount[t])
  <2>1. PICK t \in Transfers, price \in Nat :
          price < Amount[t] /\ Credits(t, price + 1, Amount[t])
    BY <1>4
  <2> DEFINE a == price + 1
             b == Amount[t]
             old == CreditedPieces
             new == {t} \X (a .. b)
  <2>2. a \in Nat \ {0} /\ b \in Nat /\ a <= b + 1
    BY <2>1, Bep20Assumption
  <2>3. wallet' = wallet + ((b + 1) - a) /\ CreditedPieces' = old \cup new
    BY <2>1 DEF Credits
  <2>4. old \cap new = {}
    BY <2>1 DEF Credits
  <2>5. IsFiniteSet(old) /\ wallet = Cardinality(old)
    BY <1>1, CreditedAreFinite
  <2> HIDE DEF a, b, old
  <2>6. IsFiniteSet(new) /\ Cardinality(new) = (b + 1) - a
    BY <2>2, BlockOfPieces
  <2> HIDE DEF new
  <2>7. Cardinality(old \cup new) = Cardinality(old) + Cardinality(new) - Cardinality(old \cap new)
    BY <2>5, <2>6, FS_Union
  <2>8. Cardinality(old \cap new) = 0
    BY <2>4, FS_EmptySet
  <2>9. Cardinality(old) \in Nat
    BY <2>5, FS_CardinalityType
  <2>10. wallet' = Cardinality(old \cup new)
    BY <2>2, <2>3, <2>5, <2>6, <2>7, <2>8, <2>9
  <2>11. wallet' = Cardinality(CreditedPieces')
    BY <2>3, <2>10, Zenon
  <2> QED
    BY <1>2, <2>11 DEF MoneyInv
<1> QED
  BY <1>1, <1>3, <1>4, StepCredits

LEMMA InitIsMoneyInv == Init => MoneyInv
<1> SUFFICES ASSUME Init
             PROVE  MoneyInv
  OBVIOUS
<1>1. CreditedPieces = {}
  BY CreditedPiece DEF Init
<1>2. Cardinality(CreditedPieces) = 0
  BY <1>1, FS_EmptySet
<1>3. LedgerOK
  BY DEF Init, LedgerOK, CompletesWithClaim, ClaimHasOrder
<1>4. wallet = 0
  BY DEF Init
<1> QED
  BY <1>2, <1>3, <1>4, InitIsIInv DEF MoneyInv

LEMMA MoneyInvHolds == Spec => []MoneyInv
<1>1. ASSUME MoneyInv, [Next]_vars
      PROVE  MoneyInv'
  <2>1. IInv /\ \A s \in Sessions : CompletesWithClaim(s)
    BY <1>1 DEF MoneyInv, LedgerOK
  <2>2. Step /\ Effect
    BY <1>1, <2>1, NextIsStep, NextEffect
  <2> QED
    BY <1>1, <2>2, MoneyKept
<1> QED
  BY <1>1, InitIsMoneyInv, PTL DEF Spec

-----------------------------------------------------------------------------
(* The pieces of what was booked are other pieces of the same transfers.   *)

Used == {t \in Transfers : claims[t].session # NoSession} \cup recharged
PaidOrders == {o \in Orders : orders[o] = "paid"}

(* The transfer an order was paid with.                                    *)
PaidWith(o, t) ==
    /\ Amount[t] >= Price[o]
    /\ claims[t].session \in Of(o)

LEMMA PaidOrderUsesTransfer ==
    ASSUME IInv, NEW o \in PaidOrders
    PROVE  \E t \in Transfers : PaidWith(o, t)
<1>1. PICK p \in Of(o) : payments[p].status = "paid"
  BY DEF IInv, HasPayment, PaidOrders
<1>2. p \in Sessions /\ OrderOf(p) = o
  BY <1>1 DEF Of
<1>3. Sufficient(p, payments[p].tx)
  BY <1>1, <1>2 DEF IInv, PaymentOK
<1>4. payments[p].tx \in Transfers
  BY <1>2, <1>3, Typed DEF Sufficient, PaymentRow
<1> QED
  BY <1>2, <1>3, <1>4 DEF Sufficient, PaidWith

(* What pays for an order was not credited to the wallet.                  *)
LEMMA BookedIsNotCredited ==
    ASSUME IInv, LedgerOK, NEW o \in PaidOrders, NEW t \in Transfers, PaidWith(o, t),
           NEW i \in 1 .. Price[o]
    PROVE  <<t, i>> \in Pieces(Amount, Used) \ CreditedPieces
<1>1. o \in Orders /\ orders[o] = "paid" /\ Price[o] \in Nat /\ Amount[t] \in Nat
  BY Bep20Assumption DEF PaidOrders
<1>2. PICK s \in Sessions : claims[t].session = s /\ OrderOf(s) = o
  BY DEF PaidWith, Of
<1>3. <<t, i>> \in Pieces(Amount, Used)
  <2>1. t \in Used /\ i \in 1 .. Amount[t]
    BY <1>1, <1>2, Bep20Assumption DEF Used, PaidWith
  <2> QED
    BY <2>1 DEF Pieces
<1>4. <<t, i>> \notin CreditedPieces
  <2>1. t \notin recharged
    BY <1>2, Bep20Assumption DEF LedgerOK
  <2>2. ~ \E r \in under : <<t, i>> \in ShortPieces(r)
    BY <1>1, <1>2 DEF ShortPieces, LedgerOK, ClosedWithClaim, IInv, CreditsOK
  <2>3. ASSUME NEW r \in over, <<t, i>> \in ExcessPieces(r)
        PROVE  FALSE
    <3>1. t = sessions[r].hash /\ i \in Price[OrderOf(r)] + 1 .. Amount[t]
      BY <2>3 DEF ExcessPieces
    <3>2. r \in Sessions /\ sessions[r].status = "paid"
      BY DEF IInv, TypeOK, LedgerOK
    <3>3. r = s
      BY <1>2, <3>1, <3>2 DEF LedgerOK, CompletesWithClaim
    <3> QED
      BY <1>1, <1>2, <3>1, <3>3
  <2> QED
    BY <2>1, <2>2, <2>3, CreditedPiece
<1> QED
  BY <1>3, <1>4

LEMMA BookedFits ==
    ASSUME IInv, LedgerOK
    PROVE  /\ IsFiniteSet(Pieces(Amount, Used))
           /\ CreditedPieces \subseteq Pieces(Amount, Used)
           /\ Booked \in Nat
           /\ Booked <= Cardinality(Pieces(Amount, Used) \ CreditedPieces)
<1> DEFINE all == Pieces(Amount, Used)
           rest == all \ CreditedPieces
           booked == Pieces(Price, PaidOrders)
           tx == [o \in PaidOrders |-> CHOOSE t \in Transfers : PaidWith(o, t)]
           f == [b \in booked |-> <<tx[b[1]], b[2]>>]
<1>1. Used \subseteq Transfers
  BY DEF Used, IInv, TypeOK
<1>2. IsFiniteSet(all)
  <2>1. IsFiniteSet(Used)
    BY <1>1, Bep20Assumption, FS_Subset
  <2>2. \A t \in Used : Amount[t] \in Nat
    BY <1>1, Bep20Assumption
  <2> QED
    BY <2>1, <2>2, PiecesAreFinite
<1>3. ASSUME NEW o \in PaidOrders
      PROVE  tx[o] \in Transfers /\ PaidWith(o, tx[o])
  BY PaidOrderUsesTransfer
<1>4. ASSUME NEW b \in booked
      PROVE  /\ \E o \in PaidOrders : \E i \in 1 .. Price[o] : b = <<o, i>>
             /\ b[1] \in PaidOrders
             /\ f[b] \in rest
  <2>0. PICK o \in PaidOrders : \E i \in 1 .. Price[o] : b = <<o, i>>
    BY PieceOf
  <2>1. PICK i \in 1 .. Price[o] : b = <<o, i>>
    BY <2>0
  <2>2. PICK t \in Transfers : t = tx[o] /\ PaidWith(o, t)
    BY <1>3
  <2>3. <<t, i>> \in rest
    BY <2>2, BookedIsNotCredited
  <2>4. f[b] = <<t, i>>
    BY <2>1, <2>2
  <2> QED
    BY <2>1, <2>3, <2>4
<1>5. ASSUME NEW b \in booked, NEW c \in booked, f[b] = f[c]
      PROVE  b = c
  <2>a. PICK o \in PaidOrders : \E i \in 1 .. Price[o] : b = <<o, i>>
    BY <1>4
  <2>b. PICK q \in PaidOrders : \E j \in 1 .. Price[q] : c = <<q, j>>
    BY <1>4
  <2>1. PICK i \in 1 .. Price[o] : b = <<o, i>>
    BY <2>a
  <2>2. PICK j \in 1 .. Price[q] : c = <<q, j>>
    BY <2>b
  <2>3. tx[o] = tx[q] /\ i = j
    <3>1. f[b] = <<tx[o], i>>
      BY <2>1
    <3>2. f[c] = <<tx[q], j>>
      BY <2>2
    <3>3. <<tx[o], i>> = <<tx[q], j>>
      <4> HIDE DEF f, tx
      <4> QED BY <1>5, <3>1, <3>2, Zenon
    <3> QED BY <3>3
  <2>4. claims[tx[o]].session \in Of(o) /\ claims[tx[q]].session \in Of(q)
    BY <1>3 DEF PaidWith
  <2>5. o = q
    <3> HIDE DEF tx
    <3> QED BY <2>3, <2>4 DEF Of
  <2> QED
    BY <2>1, <2>2, <2>3, <2>5
<1>6. f \in Injection(booked, rest)
  <2>1. f \in [booked -> rest]
    BY <1>4
  <2> HIDE DEF f, booked, rest
  <2> QED
    BY <1>5, <2>1 DEF Injection, IsInjective
<1>7. CreditedPieces \subseteq all
  <2> SUFFICES ASSUME NEW x \in CreditedPieces
               PROVE  x \in all
    OBVIOUS
  <2>1. CASE \E t \in recharged : x \in {t} \X (1 .. Amount[t])
    BY <2>1 DEF Pieces, Used
  <2>2. CASE \E s \in under : x \in ShortPieces(s)
    <3>1. PICK s \in under : x \in ShortPieces(s)
      BY <2>2
    <3>2. s \in Sessions /\ ShortTransfer(s) \in Used
      BY Bep20Assumption DEF IInv, TypeOK, LedgerOK, ClosedWithClaim, Used
    <3> QED
      BY <3>1, <3>2 DEF ShortPieces, Pieces
  <2>3. CASE \E s \in over : x \in ExcessPieces(s)
    <3>1. PICK s \in over : x \in ExcessPieces(s)
      BY <2>3
    <3>2. s \in Sessions /\ OrderOf(s) # NoOrder /\ sessions[s].status = "paid"
      BY DEF IInv, TypeOK, CreditsOK, LedgerOK
    <3>3. PICK t \in Transfers : t = sessions[s].hash /\ claims[t].session = s
      BY <3>2 DEF LedgerOK, CompletesWithClaim
    <3>4. t \in Used
      BY <3>2, <3>3, Bep20Assumption DEF Used
    <3>5. Price[OrderOf(s)] \in Nat
      BY <3>2, Typed, Bep20Assumption DEF OrderOf, SessionRow
    <3>6. x \in {t} \X (1 .. Amount[t])
      BY <3>1, <3>3, <3>5, Bep20Assumption DEF ExcessPieces
    <3> QED
      BY <3>4, <3>6 DEF Pieces
  <2> QED
    BY <2>1, <2>2, <2>3, CreditedPiece
<1>8. IsFiniteSet(rest)
  <2> HIDE DEF all
  <2> QED BY <1>2, FS_Difference
<1>9. Cardinality(booked) \in Nat /\ Cardinality(booked) <= Cardinality(rest)
  <2> HIDE DEF f, booked, rest
  <2> QED BY <1>6, <1>8, FS_Injection, FS_CardinalityType
<1> QED
  BY <1>2, <1>7, <1>9 DEF Booked, PaidOrders, Total

(* The orders booked as paid and the credits to the wallet never come to   *)
(* more than the transfers the shop holds: counted piece by piece, each    *)
(* piece of a transfer backs one piece of a price or of a credit.          *)
THEOREM MoneyBacked == Spec => []MoneyIsBacked
<1>1. ASSUME MoneyInv
      PROVE  MoneyIsBacked
  <2> DEFINE all == Pieces(Amount, Used)
             credited == CreditedPieces
  <2>1. /\ IsFiniteSet(all)
        /\ credited \subseteq all
        /\ Booked \in Nat
        /\ Booked <= Cardinality(all \ credited)
        /\ wallet = Cardinality(credited)
    BY <1>1, BookedFits DEF MoneyInv
  <2>2. Collected = Cardinality(all)
    BY DEF Collected, Used, Total
  <2> HIDE DEF all, credited
  <2>3. Cardinality(all \ credited) = Cardinality(all) - Cardinality(all \cap credited)
    BY <2>1, FS_Difference
  <2>4. Cardinality(all \cap credited) = Cardinality(credited)
    <3>1. all \cap credited = credited
      BY <2>1
    <3> QED BY <3>1, Zenon
  <2>5. Cardinality(all) \in Nat /\ Cardinality(credited) \in Nat
    <3>1. Cardinality(all) \in Nat
      BY <2>1, FS_CardinalityType
    <3>2. IsFiniteSet(credited)
      BY <2>1, FS_Subset
    <3>3. Cardinality(credited) \in Nat
      BY <3>2, FS_CardinalityType
    <3> QED BY <3>1, <3>3
  <2> QED
    BY <2>1, <2>2, <2>3, <2>4, <2>5 DEF MoneyIsBacked
<1> QED
  BY <1>1, MoneyInvHolds, PTL

-----------------------------------------------------------------------------
(* The refinement of TransferLedger.                                       *)

(* A step that leaves alone who claimed the transfer, and whether one and  *)
(* the other were credited, leaves alone what was credited of it.          *)
LEMMA CreditKept ==
    ASSUME IInv, LedgerOK, Step, NEW t \in Transfers, NEW s, s = claims[t].session,
           claims'[t].session = s,
           t \in recharged' <=> t \in recharged,
           s \in under' <=> s \in under,
           s \in over' <=> s \in over
    PROVE  CreditedOf(t)' = CreditedOf(t)
<1>a. over \in SUBSET Sessions /\ under \in SUBSET Sessions
  BY DEF IInv, TypeOK
<1>1. CASE s \in under
  <2>1. s \in Sessions /\ OrderOf(s) # NoOrder /\ ClosedWithClaim(s)
    BY <1>a, <1>1 DEF IInv, CreditsOK, LedgerOK
  <2>2. payments'[sessions'[s].payment].tx = payments[sessions[s].payment].tx
    BY <2>1, ClosedKept DEF ShortTransfer
  <2>3. s \notin over
    BY <1>1 DEF IInv, CreditsOK
  <2> QED
    BY <2>2, <2>3 DEF CreditedOf
<1>2. CASE s \in over
  <2>1. s \in Sessions /\ sessions[s].status = "paid"
    BY <1>a, <1>2 DEF LedgerOK
  <2>2. ~ Created(s)
    BY <2>1, CreatedIsNew
  <2>3. sessions'[s] = sessions[s]
    BY <2>1, <2>2 DEF Step, TablesStep, SessionsStep, Rewritten
  <2>4. s \notin under
    BY <1>2 DEF IInv, CreditsOK
  <2> QED
    BY <2>3, <2>4 DEF CreditedOf, OrderOf
<1>3. CASE s \notin under \cup over
  BY <1>3 DEF CreditedOf
<1> QED
  BY <1>1, <1>2, <1>3

(* Who speaks for a transfer pays the same order as before.                *)
LEMMA ClaimantKept ==
    ASSUME IInv, LedgerOK, Step, NEW t \in Transfers, claims'[t].session = claims[t].session
    PROVE  ClaimantOf(t)' = ClaimantOf(t)
<1>1. CASE claims[t].session = NoSession
  BY <1>1 DEF ClaimantOf
<1>2. CASE claims[t].session # NoSession
  <2>1. PICK s \in Sessions : s = claims[t].session
    BY <1>2 DEF IInv, TypeOK, ClaimRow
  <2>2. OrderOf(s)' = OrderOf(s)
    BY <1>2, <2>1, SessionKept DEF LedgerOK, ClaimHasOrder, Step, TablesStep
  <2> QED
    BY <1>2, <2>1, <2>2 DEF ClaimantOf, OrderOf
<1> QED
  BY <1>1, <1>2

ClaimsKept == \A t \in Transfers : claims'[t].session = claims[t].session

LEMMA ClaimantsKept ==
    ASSUME IInv, LedgerOK, Step, ClaimsKept
    PROVE  [t \in Transfers |-> ClaimantOf(t)]' = [t \in Transfers |-> ClaimantOf(t)]
BY ClaimantKept DEF ClaimsKept

LEMMA CreditedKept ==
    ASSUME IInv, LedgerOK, Step, ClaimsKept, UNCHANGED Purse
    PROVE  [t \in Transfers |-> CreditedOf(t)]' = [t \in Transfers |-> CreditedOf(t)]
BY CreditKept DEF ClaimsKept, Purse

(* Most steps the ledger does not see. *)
LEMMA QuietStep ==
    ASSUME IInv, LedgerOK, Step, ClaimsKept, UNCHANGED <<orders, Purse>>
    PROVE  UNCHANGED Ledger!vars
BY ClaimantsKept, CreditedKept DEF Ledger!vars, Purse

(* Of a transfer that was claimed by a session without credit, nothing was *)
(* credited.                                                               *)
LEMMA NotCredited ==
    ASSUME IInv, LedgerOK, NEW t \in Transfers, t \notin recharged,
           claims[t].session \notin under \cup over
    PROVE  CreditedOf(t) = 0
BY DEF CreditedOf

LEMMA Holder ==
    ASSUME IInv, LedgerOK, NEW s \in Sessions, NEW t \in Transfers, claims[t].session = s
    PROVE  /\ OrderOf(s) \in Orders
           /\ t \notin recharged
           /\ Ledger!Holds(OrderOf(s), t)
<1>1. OrderOf(s) # NoOrder /\ t \notin recharged
  BY Bep20Assumption DEF LedgerOK, ClaimHasOrder
<1>2. OrderOf(s) \in Orders
  BY <1>1, Typed DEF OrderOf, SessionRow
<1>3. ClaimantOf(t) = <<OrderOf(s), s>>
  BY Bep20Assumption DEF ClaimantOf
<1> QED
  BY <1>1, <1>2, <1>3 DEF Ledger!Holds

(* A credit of a transfer and of no other.                                 *)
LEMMA CreditsOne ==
    ASSUME NEW t \in Transfers, NEW n, CreditedOf(t) = 0, CreditedOf(t)' = n,
           \A u \in Transfers \ {t} : CreditedOf(u)' = CreditedOf(u),
           wallet' = wallet + n
    PROVE  Ledger!ToWallet(t, n)
<1>1. [u \in Transfers |-> CreditedOf(u)]'
        = [[u \in Transfers |-> CreditedOf(u)] EXCEPT ![t] = n]
  OBVIOUS
<1> QED
  BY <1>1 DEF Ledger!ToWallet

-----------------------------------------------------------------------------
(* The steps the ledger sees.                                              *)

LEMMA ClaimImplements ==
    ASSUME IInv, LedgerOK, Step, NEW w \in Workers, Claim(w)
    PROVE  Ledger!Next \/ UNCHANGED Ledger!vars
<1>a. PICK s \in Sessions, t \in Transfers, o \in Orders :
        s = Job(w) /\ t = Tx(w) /\ o = OrderOf(s)
  BY JobFacts, Typed DEF Claim, At, OrderOf, SessionRow
<1>b. UNCHANGED <<orders, Purse>>
  BY DEF Claim, money, Purse
<1>1. CASE ClaimHolds(s, t)
  <2>1. claims' = [claims EXCEPT ![t] = [session |-> s, status |-> workers[w].result]]
    BY <1>a, <1>1 DEF Claim
  <2>2. claims'[t].session = s /\ \A u \in Transfers \ {t} : claims'[u] = claims[u]
    BY <2>1, Typed
  <2>3. CASE claims[t].session = s
    <3>1. ClaimsKept
      BY <2>2, <2>3 DEF ClaimsKept
    <3> QED
      BY <1>b, <3>1, QuietStep
  <2>4. CASE claims[t].session = NoSession
    <3>1. t \notin recharged
      BY <1>1 DEF ClaimHolds, RegistryOK, IInv
    <3>2. ClaimantOf(t)' = <<o, s>>
      <4>1. OrderOf(s)' = OrderOf(s)
        BY <1>a, Bep20Assumption, SessionKept DEF Step, TablesStep
      <4> QED
        BY <1>a, <2>2, <4>1, Bep20Assumption DEF ClaimantOf, OrderOf
    <3>3. \A u \in Transfers \ {t} : ClaimantOf(u)' = ClaimantOf(u)
      BY <2>2, ClaimantKept
    <3>4. [u \in Transfers |-> ClaimantOf(u)]'
            = [[u \in Transfers |-> ClaimantOf(u)] EXCEPT ![t] = <<o, s>>]
      BY <3>2, <3>3
    <3>5. CreditedOf(t) = 0
      BY <2>4, <3>1, NotCredited, Bep20Assumption DEF IInv, TypeOK
    <3>6. CreditedOf(t)' = 0
      <4>1. t \notin recharged' /\ under' = under /\ over' = over
        BY <1>b, <3>1 DEF Purse
      <4>2. ASSUME s \in under
            PROVE  payments'[sessions'[s].payment].tx # t
        <5>1. OrderOf(s) # NoOrder /\ ClosedWithClaim(s)
          BY <4>2 DEF IInv, CreditsOK, LedgerOK
        <5>2. payments'[sessions'[s].payment].tx = payments[sessions[s].payment].tx
          BY <5>1, ClosedKept DEF ShortTransfer
        <5> QED
          BY <2>4, <5>1, <5>2, Bep20Assumption DEF ClosedWithClaim, ShortTransfer
      <4>3. ASSUME s \in over
            PROVE  sessions'[s].hash # t
        <5>1. sessions[s].status = "paid" /\ sessions' = sessions
          BY <4>3 DEF LedgerOK, Claim
        <5> QED
          BY <2>4, <5>1, Bep20Assumption DEF LedgerOK, CompletesWithClaim
      <4> QED
        BY <2>2, <4>1, <4>2, <4>3 DEF CreditedOf
    <3>7. \A u \in Transfers \ {t} : CreditedOf(u)' = CreditedOf(u)
      BY <1>b, <2>2, CreditKept DEF Purse
    <3>8. [u \in Transfers |-> CreditedOf(u)]' = [u \in Transfers |-> CreditedOf(u)]
      BY <3>5, <3>6, <3>7
    <3>9. ClaimantOf(t) = NoSession
      BY <2>4 DEF ClaimantOf
    <3>10. Ledger!Claim(t, o, s)
      BY <1>b, <3>1, <3>4, <3>8, <3>9 DEF Ledger!Claim, Ledger!Unclaimed, Purse
    <3> QED
      BY <3>10 DEF Ledger!Next
  <2> QED
    BY <1>1, <2>3, <2>4 DEF ClaimHolds
<1>2. CASE ~ ClaimHolds(s, t)
  <2>1. ClaimsKept
    BY <1>a, <1>2 DEF Claim, ClaimsKept
  <2> QED
    BY <1>b, <2>1, QuietStep
<1> QED
  BY <1>1, <1>2

(* The order is booked with the transfer its session claimed, of which     *)
(* nothing was credited.                                                   *)
LEMMA CompletePaymentImplements ==
    ASSUME IInv, LedgerOK, Step, NEW w \in Workers, CompletePayment(w)
    PROVE  Ledger!Next \/ UNCHANGED Ledger!vars
<1>a. PICK s \in Sessions, t \in Transfers : s = Job(w) /\ t = Tx(w)
  BY JobFacts DEF CompletePayment, At
<1>b. ClaimsKept /\ UNCHANGED Purse
  BY DEF CompletePayment, ClaimsKept, money, Purse
<1>1. CASE UNCHANGED orders
  BY <1>b, <1>1, QuietStep
<1>2. CASE Completable(s, t) /\ Complete(s, t)
  <2>1. workers[w].pc = "complete" /\ JobOK(workers[w])
    BY DEF CompletePayment, At, IInv
  <2>2. PICK o \in Orders : o = OrderOf(s) /\ claims[t].session = s /\ Amount[t] >= Price[o]
    BY <1>a, <2>1, Holder DEF JobOK, Job, Tx
  <2>3. orders[o] = "pending" /\ orders' = [orders EXCEPT ![o] = "paid"]
    BY <1>2, <2>2 DEF Completable, Complete
  <2>4. Ledger!Holds(o, t) /\ t \notin recharged
    BY <2>2, Holder
  <2>5. CreditedOf(t) = 0
    BY <2>2, <2>3, <2>4, NotCredited DEF IInv, CreditsOK
  <2>6. [u \in Transfers |-> CreditedOf(u)][t] = 0
    BY <2>5
  <2>7. Ledger!Book(o, t)
    BY <1>b, <2>2, <2>3, <2>4, <2>6, ClaimantsKept, CreditedKept
       DEF Ledger!Book, Ledger!End, Purse
  <2> QED
    BY <2>7 DEF Ledger!Next
<1> QED
  BY <1>a, <1>1, <1>2 DEF CompletePayment

(* What exceeds the price is credited, with the booking or after it.       *)
LEMMA ExcessToWallet ==
    ASSUME IInv, LedgerOK, Step, ClaimsKept, NEW s \in Sessions, NEW t \in Transfers,
           claims[t].session = s, s \notin over, orders[OrderOf(s)] # "cancelled",
           sessions'[s].hash = t,
           wallet' = wallet + (Amount[t] - Price[OrderOf(s)]),
           over' = over \cup {s}, UNCHANGED <<under, recharged>>
    PROVE  Ledger!ToWallet(t, Amount[t] - Price[OrderOf(s)])
<1>1. t \notin recharged /\ s \notin under /\ OrderOf(s) # NoOrder
  BY Holder, Bep20Assumption DEF IInv, CreditsOK
<1>2. CreditedOf(t) = 0
  BY <1>1, NotCredited
<1>3. OrderOf(s)' = OrderOf(s)
  BY <1>1, SessionKept DEF Step, TablesStep
<1>4. CreditedOf(t)' = Amount[t] - Price[OrderOf(s)]
  BY <1>1, <1>3 DEF CreditedOf, ClaimsKept
<1>5. ASSUME NEW u \in Transfers \ {t}
      PROVE  CreditedOf(u)' = CreditedOf(u)
  <2>1. CASE claims[u].session = s
    <3>1. CreditedOf(u) = 0
      BY <1>1, <2>1, NotCredited, Holder
    <3>2. CreditedOf(u)' = 0
      BY <1>1, <2>1, Holder DEF CreditedOf, ClaimsKept
    <3> QED
      BY <3>1, <3>2
  <2>2. CASE claims[u].session # s
    BY <2>2, CreditKept DEF ClaimsKept
  <2> QED
    BY <2>1, <2>2
<1> QED
  BY <1>2, <1>4, <1>5, CreditsOne

LEMMA SettleImplements ==
    ASSUME IInv, LedgerOK, Step, NEW w \in Workers, Settle(w)
    PROVE  Ledger!Next \/ UNCHANGED Ledger!vars
<1>a. ClaimsKept
  BY SettleEffect DEF ClaimsKept
<1>1. CASE UNCHANGED <<orders, Purse>>
  BY <1>a, <1>1, QuietStep
<1>2. ASSUME NEW s \in Sessions, NEW t \in Transfers, SettlesNow(s, t)
      PROVE  Ledger!Next
  <2>1. /\ claims[t].session = s
        /\ s \notin over
        /\ orders[OrderOf(s)] = "pending"
        /\ Amount[t] > Price[OrderOf(s)]
    BY <1>2 DEF SettlesNow, SettlesExcess, Completable
  <2>2. OrderOf(s) \in Orders /\ Ledger!Holds(OrderOf(s), t)
    BY <2>1, Holder
  <2>3. Ledger!ToWallet(t, Amount[t] - Price[OrderOf(s)])
    BY <1>2, <1>a, <2>1, ExcessToWallet DEF SettlesNow, Excess
  <2>4. Ledger!BookWithExcess(OrderOf(s), t)
    BY <1>2, <1>a, <2>1, <2>2, <2>3, ClaimantsKept
       DEF SettlesNow, Ledger!BookWithExcess, Ledger!End
  <2> QED
    BY <2>2, <2>4 DEF Ledger!Next
<1> QED
  BY <1>1, <1>2, SettleEffect

LEMMA CreditOverpaymentImplements ==
    ASSUME IInv, LedgerOK, Step, NEW s \in Sessions, CreditOverpayment(s)
    PROVE  Ledger!Next
<1>a. ClaimsKept
  BY DEF CreditOverpayment, ClaimsKept
<1>1. PICK t \in Transfers :
        t = sessions[s].hash /\ sessions[s].amount = Amount[t] /\ claims[t].session = s
  BY DEF CreditOverpayment, LedgerOK, CompletesWithClaim
<1>2. OrderOf(s) \in Orders /\ Ledger!Holds(OrderOf(s), t)
  BY <1>1, Holder
<1>3. Ledger!ToWallet(t, Amount[t] - Price[OrderOf(s)])
  BY <1>a, <1>1, ExcessToWallet DEF CreditOverpayment, OrderOf
<1>4. Ledger!CreditExcess(OrderOf(s), t)
  BY <1>a, <1>1, <1>2, <1>3, ClaimantsKept DEF CreditOverpayment, OrderOf, Ledger!CreditExcess
<1> QED
  BY <1>2, <1>4 DEF Ledger!Next

(* All of what came short is credited, and the order ends with it.         *)
LEMMA SettleUnderpaymentImplements ==
    ASSUME IInv, LedgerOK, Step, NEW s \in Sessions, SettleUnderpayment(s)
    PROVE  Ledger!Next
<1>a. ClaimsKept
  BY DEF SettleUnderpayment, ClaimsKept
<1>1. PICK t \in Transfers : t = sessions[s].hash /\ ShortTransfer(s)' = t
  BY UnderpaymentCloses
<1>2. claims[t].session = s /\ s \notin under /\ orders[OrderOf(s)] = "pending"
  BY <1>1 DEF SettleUnderpayment, OrderOf
<1>3. t \notin recharged /\ s \notin over
  BY <1>2, Holder DEF IInv, CreditsOK
<1>4. OrderOf(s) \in Orders /\ Ledger!Holds(OrderOf(s), t)
  BY <1>2, Holder
<1>5. recharged' = recharged /\ under' = under \cup {s} /\ over' = over
  BY DEF SettleUnderpayment
<1>6. CreditedOf(t) = 0
  BY <1>2, <1>3, NotCredited
<1>7. CreditedOf(t)' = Amount[t]
  BY <1>a, <1>1, <1>2, <1>5 DEF CreditedOf, ShortTransfer, ClaimsKept
<1>8. ASSUME NEW u \in Transfers \ {t}
      PROVE  CreditedOf(u)' = CreditedOf(u)
  <2>1. CASE claims[u].session = s
    <3>1. CreditedOf(u) = 0
      BY <1>2, <1>3, <2>1, NotCredited, Holder
    <3>2. CreditedOf(u)' = 0
      BY <1>a, <1>1, <1>3, <1>5, <2>1, Holder DEF CreditedOf, ShortTransfer, ClaimsKept
    <3> QED
      BY <3>1, <3>2
  <2>2. CASE claims[u].session # s
    BY <1>a, <1>5, <2>2, CreditKept DEF ClaimsKept
  <2> QED
    BY <2>1, <2>2
<1>9. Ledger!ToWallet(t, Amount[t])
  BY <1>1, <1>6, <1>7, <1>8, CreditsOne DEF SettleUnderpayment
<1>10. Ledger!CreditShort(OrderOf(s), t)
  BY <1>a, <1>1, <1>2, <1>4, <1>5, <1>9, ClaimantsKept
     DEF SettleUnderpayment, OrderOf, Ledger!CreditShort, Ledger!End
<1> QED
  BY <1>4, <1>10 DEF Ledger!Next

LEMMA RechargeImplements ==
    ASSUME IInv, LedgerOK, Step, NEW t \in Transfers, RechargeCredited(t)
    PROVE  Ledger!Next
<1>1. /\ ClaimsKept
      /\ claims[t].session = NoSession
      /\ t \notin recharged
      /\ recharged' = recharged \cup {t}
      /\ UNCHANGED <<orders, over, under>>
      /\ wallet' = wallet + Amount[t]
  BY DEF RechargeCredited, CreditRecharge, ClaimsKept
<1>2. CreditedOf(t) = 0
  BY <1>1, NotCredited, Bep20Assumption DEF IInv, TypeOK
<1>3. CreditedOf(t)' = Amount[t]
  BY <1>1 DEF CreditedOf
<1>4. \A u \in Transfers \ {t} : CreditedOf(u)' = CreditedOf(u)
  BY <1>1, CreditKept DEF ClaimsKept
<1>5. Ledger!ToWallet(t, Amount[t])
  BY <1>1, <1>2, <1>3, <1>4, CreditsOne
<1>6. [u \in Transfers |-> ClaimantOf(u)][t] = NoSession
  BY <1>1 DEF ClaimantOf
<1>7. Ledger!Recharge(t)
  BY <1>1, <1>5, <1>6, ClaimantsKept DEF Ledger!Recharge, Ledger!Unclaimed
<1> QED
  BY <1>7 DEF Ledger!Next

LEMMA OrderEndImplements ==
    ASSUME IInv, LedgerOK, Step, NEW o \in Orders, ExpireOrder(o) \/ CancelOrder(o)
    PROVE  Ledger!Next \/ UNCHANGED Ledger!vars
<1>a. ClaimsKept /\ UNCHANGED Purse
  BY DEF ExpireOrder, CancelOrder, ClaimsKept, money, Purse
<1>1. CASE UNCHANGED orders
  BY <1>a, <1>1, QuietStep
<1>2. CASE Ledger!End(o, "cancelled") \/ Ledger!End(o, "expired")
  <2>1. Ledger!EndUnpaid(o)
    BY <1>a, <1>2, ClaimantsKept, CreditedKept DEF Ledger!EndUnpaid, Purse
  <2> QED
    BY <2>1 DEF Ledger!Next
<1> QED
  BY <1>1, <1>2 DEF ExpireOrder, CancelOrder, EndUnpaid, Ledger!End

LEMMA InitImplements == Init => Ledger!Init
<1> SUFFICES ASSUME Init
             PROVE  Ledger!Init
  OBVIOUS
<1>1. \A t \in Transfers : ClaimantOf(t) = NoSession
  BY DEF Init, ClaimantOf
<1>2. \A t \in Transfers : CreditedOf(t) = 0
  BY DEF Init, CreditedOf
<1> QED
  BY <1>1, <1>2 DEF Init, Ledger!Init

LedgerStep == Ledger!Next \/ UNCHANGED Ledger!vars

LEMMA NextImplements ==
    ASSUME IInv, LedgerOK, Step, [Next]_vars
    PROVE  LedgerStep
<1> USE DEF LedgerStep
<1>1. ASSUME NEW w \in Workers, VerifyStep(w)
      PROVE  LedgerStep
  <2>1. CASE \/ Inspect(w) \/ WriteUnusable(w) \/ WriteEvidence(w) \/ SettlementFails(w)
             \/ AlreadySettled(w) \/ WriteUnsettled(w) \/ Prepare(w) \/ CompletionFails(w)
             \/ Check(w) \/ GiveUp(w)
    <3>1. ClaimsKept /\ UNCHANGED <<orders, Purse>>
      BY <2>1 DEF Inspect, WriteUnusable, WriteEvidence, SettlementFails, AlreadySettled,
         WriteUnsettled, Prepare, CompletionFails, Check, GiveUp, ClaimsKept, money, Purse
    <3> QED
      BY <3>1, QuietStep
  <2>2. CASE Finish(w)
    <3>1. ClaimsKept /\ UNCHANGED <<orders, Purse>>
      BY <2>2, JobFacts, Typed DEF Finish, At, ClaimRow, ClaimsKept, money, Purse
    <3> QED
      BY <3>1, QuietStep
  <2> QED
    BY <1>1, <2>1, <2>2, ClaimImplements, CompletePaymentImplements, SettleImplements
       DEF VerifyStep
<1>2. ASSUME NEW w \in Workers,
             \/ Crash(w)
             \/ \E o \in Orders : ReadForSession(w, o)
             \/ \E s \in Sessions : CreateSession(w, s)
             \/ \E o \in Orders, t \in Transfers : VerifyTxHash(w, o, t)
             \/ \E s \in Sessions : Recheck(w, s) \/ ApproveLate(w, s)
      PROVE  LedgerStep
  <2>1. ClaimsKept /\ UNCHANGED <<orders, Purse>>
    BY <1>2 DEF Crash, ReadForSession, CreateSession, VerifyTxHash, Recheck, ApproveLate,
       ClaimsKept, money, Purse
  <2> QED
    BY <2>1, QuietStep
<1>3. ASSUME NEW s \in Sessions,
             RejectLate(s) \/ SettleUnderpayment(s) \/ CreditOverpayment(s) \/ SessionLapses(s)
      PROVE  LedgerStep
  <2>1. CASE RejectLate(s) \/ SessionLapses(s)
    BY <2>1, QuietStep DEF RejectLate, SessionLapses, ClaimsKept, money, Purse
  <2> QED
    BY <1>3, <2>1, SettleUnderpaymentImplements, CreditOverpaymentImplements
<1>4. ASSUME NEW o \in Orders, ExpireOrder(o) \/ CancelOrder(o) \/ DeadlinePasses(o)
      PROVE  LedgerStep
  <2>1. CASE DeadlinePasses(o)
    BY <2>1, QuietStep DEF DeadlinePasses, ClaimsKept, money, Purse
  <2> QED
    BY <1>4, <2>1, OrderEndImplements
<1>5. ASSUME NEW t \in Transfers,
             \/ MakeTransfer(t) \/ TransferConfirms(t)
             \/ MatchRecharge(t) \/ ClaimForRecharge(t) \/ CompleteRecharge(t)
      PROVE  LedgerStep
  <2>1. CASE MakeTransfer(t) \/ TransferConfirms(t) \/ ClaimForRecharge(t)
    BY <2>1, QuietStep
       DEF MakeTransfer, TransferConfirms, ClaimForRecharge, ClaimsKept, money, Purse
  <2>2. CASE MatchRecharge(t) \/ CompleteRecharge(t)
    BY <2>2, RechargeIsCredited, RechargeImplements
  <2> QED
    BY <1>5, <2>1, <2>2
<1>6. CASE UNCHANGED vars
  BY <1>6, QuietStep DEF vars, ClaimsKept, money, Purse
<1>7. ASSUME NEW w \in Workers,
             \/ VerifyStep(w)
             \/ Crash(w)
             \/ \E o \in Orders : ReadForSession(w, o)
             \/ \E s \in Sessions : CreateSession(w, s)
             \/ \E o \in Orders, t \in Transfers : VerifyTxHash(w, o, t)
             \/ \E s \in Sessions : Recheck(w, s) \/ ApproveLate(w, s)
      PROVE  LedgerStep
  BY <1>1, <1>2, <1>7
<1> HIDE DEF LedgerStep
<1> QED
  BY <1>3, <1>4, <1>5, <1>6, <1>7 DEF Next

(* However the requests of the shop interleave and wherever they die, what *)
(* happens to transfers, orders and the wallet happens as in the ledger:   *)
(* a transfer is claimed once, pays for one order or is credited once, and *)
(* the wallet gains what the credits come to (verifyBep20TxHashForOrder,   *)
(* the settlements, and a recharge's match or completion).                 *)
THEOREM LedgerImplemented == Spec => ImplementsLedger
<1>1. ASSUME MoneyInv, [Next]_vars
      PROVE  [Ledger!Next]_Ledger!vars
  <2>1. IInv /\ LedgerOK
    BY <1>1 DEF MoneyInv
  <2>2. Step
    BY <1>1, <2>1, NextIsStep
  <2> QED
    BY <1>1, <2>1, <2>2, NextImplements DEF LedgerStep
<1> QED
  BY <1>1, InitImplements, MoneyInvHolds, PTL DEF Spec, ImplementsLedger, Ledger!Spec
=============================================================================
