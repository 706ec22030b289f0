--------------------------- MODULE RechargeProofs ---------------------------
(***************************************************************************)
(* Theorems about RechargeLifecycle, for any recharges, sessions and       *)
(* server processes.                                                       *)
(***************************************************************************)
EXTENDS RechargeLifecycle, TLAPS

(* The steps that act on a session, those that know it was paid, and those *)
(* of a manual review.                                                     *)
SessionSteps == {"opening", "callback", "latesession", "laterecharge", "unpaid",
                 "query", "complete", "latereview"}
PaidSteps == {"callback", "latesession", "laterecharge", "complete"}
ManualSteps == {"approved", "credit", "adrift", "failcredit", "settle"}

(* What a handler remembers is still true: which recharge its session      *)
(* belongs to, that it was paid, and when.                                 *)
RowInv(x) ==
    /\ x.pc \in SessionSteps =>
         /\ x.session \in Sessions
         /\ sessions[x.session].status # "none"
         /\ x.recharge = sessions[x.session].recharge
    /\ x.pc = "opening" => gateway[x.session] = "none"
    /\ x.pc \in PaidSteps =>
         /\ gateway[x.session] \in {"intime", "late"}
         /\ x.at = "intime" => gateway[x.session] = "intime"
    /\ x.pc = "unpaid" => x.seen \in {"pending", "closed", "expired"}
    /\ x.pc = "latereview" => gateway[x.session] = "late"
    /\ x.pc \in ManualSteps => x.recharge \in Manual
    /\ x.pc \in {"expiresessions", "expirerecharge"} => x.recharge \in Recharges

(* At most one handler opens a session at the gateway. *)
OneOpens ==
    \A v, w \in Workers : At(v, "opening") /\ At(w, "opening") /\ Job(v) = Job(w) => v = w

WorkersOK ==
    /\ workers \in [Workers -> Worker]
    /\ \A w \in Workers : RowInv(workers[w])
    /\ OneOpens

(* A recharge without manual review is never in the hands of a reviewer. *)
TablesOK ==
    /\ status \in [Recharges -> RechargeStatus]
    /\ sessions \in [Sessions -> SessionRow]
    /\ gateway \in [Sessions -> {"none", "open", "intime", "late", "closed"}]
    /\ ledger \in SUBSET Recharges
    /\ late \in SUBSET Recharges
    /\ due \in SUBSET Recharges
    /\ \A s \in Sessions :
         /\ sessions[s].status # "none" => sessions[s].recharge \in Recharges
         /\ gateway[s] # "none" => sessions[s].status # "none"
    /\ \A r \in Recharges \ Manual :
         status[r] \in {"pending", "paid", "succeeded", "expired", "cancelled"}

IInv ==
    /\ TablesOK
    /\ WorkersOK
    /\ LedgerMatchesStatus
    /\ PaidSessionIsCredited
    /\ CreditIsPaidFor

-----------------------------------------------------------------------------
(* Lemmas about workers.                                                   *)

(* A worker stops, or goes on with a row that says the truth. *)
WorkersStep ==
    \/ UNCHANGED workers
    \/ \E w \in Workers, x \in Worker :
         /\ RowInv(x)
         /\ x.pc # "opening"
         /\ workers' = [workers EXCEPT ![w] = x]

(* No session disappears or changes hands. *)
SessionsKept ==
    \A s \in Sessions : sessions[s].status # "none" =>
        sessions'[s].status # "none" /\ sessions'[s].recharge = sessions[s].recharge

(* The gateway forgets nothing. *)
GatewayKept ==
    \A s \in Sessions : gateway'[s] = gateway[s] \/ gateway[s] = "open"

LEMMA RowKept ==
    ASSUME SessionsKept, GatewayKept, NEW x, RowInv(x)
    PROVE  RowInv(x)'
BY DEF SessionsKept, GatewayKept, RowInv, SessionSteps, PaidSteps

LEMMA WorkersKept ==
    ASSUME WorkersOK, WorkersStep, SessionsKept, GatewayKept
    PROVE  WorkersOK'
<1>1. CASE UNCHANGED workers
  BY <1>1, RowKept DEF WorkersOK, OneOpens, At, Job
<1>2. ASSUME NEW w \in Workers, NEW x \in Worker, RowInv(x), x.pc # "opening",
             workers' = [workers EXCEPT ![w] = x]
      PROVE  WorkersOK'
  <2>1. workers' \in [Workers -> Worker]
    BY <1>2 DEF WorkersOK
  <2>2. workers'[w] = x /\ \A v \in Workers : v # w => workers'[v] = workers[v]
    BY <1>2 DEF WorkersOK
  <2>3. ASSUME NEW v \in Workers PROVE RowInv(workers[v])' 
    <3>1. RowInv(workers'[v])
      BY <1>2, <2>2 DEF WorkersOK
    <3>2. ASSUME NEW y, RowInv(y) PROVE RowInv(y)'
      BY <3>2, RowKept
    <3>3. PICK y : y = workers'[v]
      OBVIOUS
    <3>4. RowInv(y)'
      BY <3>1, <3>2, <3>3
    <3> QED
      BY <3>3, <3>4 DEF RowInv
  <2>4. OneOpens'
    BY <1>2, <2>2 DEF WorkersOK, OneOpens, At, Job
  <2> QED
    BY <2>1, <2>3, <2>4 DEF WorkersOK
<1> QED
  BY <1>1, <1>2 DEF WorkersStep

LEMMA IdleRow == Idle \in Worker /\ RowInv(Idle) /\ Idle.pc = "idle"
BY DEF Idle, Worker, Steps, SessionStatus, PaidAt, Active,
       RowInv, SessionSteps, PaidSteps, ManualSteps

LEMMA StopStep == ASSUME NEW w \in Workers, Stop(w) PROVE WorkersStep
BY IdleRow DEF Stop, WorkersStep

(* A worker that goes on with the recharge and session it has. *)
LEMMA MoveStep ==
    ASSUME WorkersOK, NEW w \in Workers, NEW step \in Steps, Move(w, step),
           RowInv([workers[w] EXCEPT !.pc = step]), step # "opening"
    PROVE  WorkersStep
<1> DEFINE x == [workers[w] EXCEPT !.pc = step]
<1>1. x \in Worker /\ x.pc = step
  BY DEF WorkersOK, Worker
<1>2. workers' = [workers EXCEPT ![w] = x]
  BY DEF Move, WorkersOK, Worker
<1> HIDE DEF x
<1> QED
  BY <1>1, <1>2 DEF WorkersStep, x

LEMMA StartStep ==
    ASSUME NEW w \in Workers, NEW step \in Steps, NEW r \in Recharges \cup {NoRecharge},
           NEW s \in Sessions \cup {NoSession}, Start(w, step, r, s),
           RowInv([Idle EXCEPT !.pc = step, !.recharge = r, !.session = s]), step # "opening"
    PROVE  WorkersStep
<1> DEFINE x == [Idle EXCEPT !.pc = step, !.recharge = r, !.session = s]
<1>1. x \in Worker /\ x.pc = step
  BY IdleRow DEF Worker
<1>2. workers' = [workers EXCEPT ![w] = x]
  BY DEF Start
<1> HIDE DEF x
<1> QED
  BY <1>1, <1>2 DEF WorkersStep, x

-----------------------------------------------------------------------------
(* Lemmas about the tables: what a step may do to one of them.             *)

NonManualStatus == {"pending", "paid", "succeeded", "expired", "cancelled"}

LEMMA WorkerMoves ==
    ASSUME IInv, WorkersStep, UNCHANGED <<status, sessions, gateway, ledger>>,
           late' \in SUBSET Recharges, due' \in SUBSET Recharges
    PROVE  IInv'
<1>1. WorkersOK'
  BY WorkersKept DEF IInv, SessionsKept, GatewayKept
<1>2. TablesOK'
  BY DEF IInv, TablesOK
<1>3. (LedgerMatchesStatus /\ PaidSessionIsCredited /\ CreditIsPaidFor)'
  BY DEF IInv, LedgerMatchesStatus, PaidSessionIsCredited, CreditIsPaidFor, SessionsOf
<1> QED
  BY <1>1, <1>2, <1>3 DEF IInv

(* A recharge takes another status without being credited. *)
LEMMA StatusMoves ==
    ASSUME IInv, WorkersStep, NEW r \in Recharges, NEW to \in RechargeStatus,
           status[r] \in Completed <=> to \in Completed,
           r \notin Manual => to \in NonManualStatus,
           SetStatus(r, to), UNCHANGED <<sessions, gateway, ledger, late, due>>
    PROVE  IInv'
<1>1. WorkersOK'
  BY WorkersKept DEF IInv, SessionsKept, GatewayKept
<1>2. TablesOK'
  BY DEF IInv, TablesOK, SetStatus, NonManualStatus
<1>3. LedgerMatchesStatus'
  BY DEF IInv, TablesOK, SetStatus, LedgerMatchesStatus
<1>4. (PaidSessionIsCredited /\ CreditIsPaidFor)'
  BY DEF IInv, PaidSessionIsCredited, CreditIsPaidFor, SessionsOf
<1> QED
  BY <1>1, <1>2, <1>3, <1>4 DEF IInv

(* Existing sessions take other statuses, but not to or from paid. *)
LEMMA SessionMoves ==
    ASSUME IInv, WorkersStep, sessions' \in [Sessions -> SessionRow],
           \A s \in Sessions :
              /\ sessions'[s].recharge = sessions[s].recharge
              /\ \/ sessions'[s].status = sessions[s].status
                 \/ sessions[s].status \notin {"none", "paid"} /\ sessions'[s].status \notin {"none", "paid"},
           UNCHANGED <<status, gateway, ledger, late, due>>
    PROVE  IInv'
<1>1. WorkersOK'
  BY WorkersKept DEF IInv, SessionsKept, GatewayKept
<1>2. TablesOK'
  BY DEF IInv, TablesOK
<1>3. (LedgerMatchesStatus /\ PaidSessionIsCredited)'
  BY DEF IInv, LedgerMatchesStatus, PaidSessionIsCredited
<1>4. CreditIsPaidFor'
  BY DEF IInv, CreditIsPaidFor, SessionsOf
<1> QED
  BY <1>1, <1>2, <1>3, <1>4 DEF IInv

LEMMA SetSessionMoves ==
    ASSUME IInv, WorkersStep, NEW s \in Sessions, NEW to \in SessionStatus \ {"none", "paid"},
           sessions[s].status \notin {"none", "paid"},
           SetSession(s, to), UNCHANGED <<status, gateway, ledger, late, due>>
    PROVE  IInv'
<1>1. sessions' \in [Sessions -> SessionRow]
  BY DEF IInv, TablesOK, SessionRow, SetSession
<1>2. ASSUME NEW t \in Sessions
      PROVE  /\ sessions'[t].recharge = sessions[t].recharge
             /\ sessions'[t].status = IF t = s THEN to ELSE sessions[t].status
  BY DEF IInv, TablesOK, SessionRow, SetSession
<1> QED
  BY <1>1, <1>2, SessionMoves

(* A session that was paid becomes paid, and its recharge is credited. *)
LEMMA SessionRaises ==
    ASSUME IInv, WorkersStep, NEW s \in Sessions,
           gateway[s] \in {"intime", "late"},
           SetSession(s, "paid"), UNCHANGED <<gateway, due>>, late' \in SUBSET Recharges,
           \/ sessions[s].recharge \in ledger /\ UNCHANGED <<status, ledger>>
           \/ \E to \in Completed : /\ SetStatus(sessions[s].recharge, to)
                                    /\ ledger' = ledger \cup {sessions[s].recharge}
    PROVE  IInv'
<1> DEFINE r == sessions[s].recharge
<1>1. r \in Recharges /\ sessions[s].status # "none"
  BY DEF IInv, TablesOK
<1>2. sessions' \in [Sessions -> SessionRow]
  BY DEF IInv, TablesOK, SessionRow, SetSession, SessionStatus
<1>3. ASSUME NEW t \in Sessions
      PROVE  /\ sessions'[t].recharge = sessions[t].recharge
             /\ sessions'[t].status = IF t = s THEN "paid" ELSE sessions[t].status
  BY DEF IInv, TablesOK, SessionRow, SetSession
<1>4. WorkersOK'
  BY <1>1, <1>3, WorkersKept DEF IInv, SessionsKept, GatewayKept
<1>5. /\ status' \in [Recharges -> RechargeStatus]
      /\ ledger' = ledger \cup {r}
      /\ \A q \in Recharges : q # r => status'[q] = status[q]
      /\ r \in ledger \/ status'[r] \in Completed
      /\ r \in ledger => status'[r] \in Completed
  BY <1>1 DEF IInv, TablesOK, LedgerMatchesStatus, SetStatus, RechargeStatus
<1> HIDE DEF r
<1>6. LedgerMatchesStatus'
  BY <1>1, <1>5 DEF IInv, LedgerMatchesStatus
<1>7. TablesOK'
  BY <1>1, <1>2, <1>3, <1>5 DEF IInv, TablesOK, Completed
<1>8. PaidSessionIsCredited'
  BY <1>3, <1>5 DEF IInv, PaidSessionIsCredited, r
<1>9. CreditIsPaidFor'
  <2>1. ASSUME NEW q \in ledger' \ Manual
        PROVE  \E t \in Sessions : sessions'[t].recharge = q /\ sessions'[t].status = "paid"
    <3>1. CASE q = r
      BY <1>3, <3>1 DEF r
    <3>2. CASE q # r
      BY <1>3, <1>5, <2>1, <3>2 DEF IInv, CreditIsPaidFor, SessionsOf
    <3> QED
      BY <3>1, <3>2
  <2> QED
    BY <2>1 DEF CreditIsPaidFor, SessionsOf
<1> QED
  BY <1>4, <1>6, <1>7, <1>8, <1>9 DEF IInv

(* A reviewed recharge is credited without a session. *)
LEMMA ReviewRaises ==
    ASSUME IInv, WorkersStep, NEW r \in Manual, Credited(r),
           UNCHANGED <<sessions, gateway, late, due>>
    PROVE  IInv'
<1>1. CASE r \in ledger
  BY <1>1, WorkerMoves DEF Credited, IInv, TablesOK
<1>2. CASE r \notin ledger
  <2>1. SetStatus(r, "paid") /\ ledger' = ledger \cup {r} /\ r \in Recharges
    BY <1>2, RechargeAssumption DEF Credited
  <2>2. WorkersOK'
    BY WorkersKept DEF IInv, SessionsKept, GatewayKept
  <2>3. TablesOK' /\ LedgerMatchesStatus'
    BY <2>1 DEF IInv, TablesOK, LedgerMatchesStatus, SetStatus, RechargeStatus, Completed
  <2>4. (PaidSessionIsCredited /\ CreditIsPaidFor)'
    BY <2>1 DEF IInv, PaidSessionIsCredited, CreditIsPaidFor, SessionsOf
  <2> QED
    BY <2>2, <2>3, <2>4 DEF IInv
<1> QED
  BY <1>1, <1>2

-----------------------------------------------------------------------------
(* The steps of sessions, the gateway and the clock.                       *)

LEMMA CreateSessionKeeps ==
    ASSUME IInv, NEW w \in Workers, NEW r \in Recharges, NEW s \in Sessions, CreateSession(w, r, s)
    PROVE  IInv'
<1> DEFINE row == [recharge |-> r, status |-> "processing", sent |-> FALSE]
           x == [Idle EXCEPT !.pc = "opening", !.recharge = r, !.session = s]
<1>1. /\ sessions[s].status = "none" /\ gateway[s] = "none"
      /\ sessions' = [sessions EXCEPT ![s] = row]
      /\ workers' = [workers EXCEPT ![w] = x]
      /\ UNCHANGED <<status, gateway, ledger, late, due>>
  BY RechargeAssumption DEF CreateSession, Fresh, Start, IInv, TablesOK
<1>2. row \in SessionRow /\ row.recharge = r /\ row.status = "processing"
  BY DEF SessionRow, SessionStatus, Active
<1>3. x \in Worker /\ x.pc = "opening" /\ x.recharge = r /\ x.session = s
  BY IdleRow DEF Worker, Steps
<1> HIDE DEF row, x
<1>4. sessions'[s] = row /\ \A t \in Sessions : t # s => sessions'[t] = sessions[t]
  BY <1>1 DEF IInv, TablesOK
<1>5. workers'[w] = x /\ \A v \in Workers : v # w => workers'[v] = workers[v]
  BY <1>1 DEF IInv, WorkersOK
<1>6. SessionsKept /\ GatewayKept
  BY <1>1, <1>4 DEF SessionsKept, GatewayKept
<1>7. ASSUME NEW v \in Workers PROVE RowInv(workers[v])'
  <2>1. CASE v = w
    BY <1>1, <1>2, <1>3, <1>4, <1>5, <2>1 DEF RowInv, SessionSteps, PaidSteps, ManualSteps
  <2>2. CASE v # w
    BY <1>5, <1>6, <2>2 DEF IInv, WorkersOK, SessionsKept, GatewayKept, RowInv, SessionSteps, PaidSteps
  <2> QED
    BY <2>1, <2>2
<1>8. OneOpens'
  <2>1. ASSUME NEW v \in Workers, At(v, "opening") PROVE Job(v) # s
    BY <1>1, <2>1 DEF IInv, WorkersOK, RowInv, At, Job, SessionSteps
  <2> QED
    BY <1>3, <1>5, <2>1 DEF IInv, WorkersOK, OneOpens, At, Job
<1>9. WorkersOK'
  BY <1>1, <1>3, <1>7, <1>8 DEF IInv, WorkersOK
<1>10. TablesOK'
  BY <1>1, <1>2, <1>4 DEF IInv, TablesOK
<1>11. (LedgerMatchesStatus /\ PaidSessionIsCredited)'
  BY <1>1, <1>2, <1>4 DEF IInv, LedgerMatchesStatus, PaidSessionIsCredited
<1>12. CreditIsPaidFor'
  BY <1>1, <1>4 DEF IInv, CreditIsPaidFor, SessionsOf
<1> QED
  BY <1>9, <1>10, <1>11, <1>12 DEF IInv

(* Only the handler that opens a session makes its order at the gateway. *)
LEMMA SessionOpenedKeeps ==
    ASSUME IInv, NEW w \in Workers, SessionOpened(w)
    PROVE  IInv'
<1> DEFINE s == Job(w)
           row == [sessions[s] EXCEPT !.status = "pending", !.sent = TRUE]
<1>1. s \in Sessions /\ sessions[s].status \in Active /\ gateway[s] = "none"
  BY DEF SessionOpened, IInv, WorkersOK, RowInv, At, Job, SessionSteps
<1>2. /\ sessions' = [sessions EXCEPT ![s] = row]
      /\ gateway' = [gateway EXCEPT ![s] = "open"]
      /\ workers' = [workers EXCEPT ![w] = Idle]
      /\ UNCHANGED <<status, ledger, late, due>>
  BY <1>1 DEF SessionOpened, Stop, IInv, TablesOK, SessionRow
<1>3. row \in SessionRow /\ row.recharge = sessions[s].recharge /\ row.status = "pending"
  BY <1>1 DEF IInv, TablesOK, SessionRow, SessionStatus, Active
<1>4. \A v \in Workers : v # w /\ At(v, "opening") => Job(v) # s
  BY DEF SessionOpened, IInv, WorkersOK, OneOpens
<1> HIDE DEF s, row
<1>5. sessions'[s] = row /\ \A t \in Sessions : t # s => sessions'[t] = sessions[t]
  BY <1>1, <1>2 DEF IInv, TablesOK
<1>6. gateway'[s] = "open" /\ \A t \in Sessions : t # s => gateway'[t] = gateway[t]
  BY <1>1, <1>2 DEF IInv, TablesOK
<1>7. workers'[w] = Idle /\ \A v \in Workers : v # w => workers'[v] = workers[v]
  BY <1>2 DEF IInv, WorkersOK
<1>8. ASSUME NEW v \in Workers PROVE RowInv(workers[v])'
  <2>1. CASE v = w
    BY <1>7, <2>1, IdleRow DEF RowInv, SessionSteps, PaidSteps, ManualSteps
  <2>2. CASE v # w
    BY <1>1, <1>3, <1>4, <1>5, <1>6, <1>7, <2>2
       DEF IInv, WorkersOK, RowInv, SessionSteps, PaidSteps, At, Job
  <2> QED
    BY <2>1, <2>2
<1>9. WorkersOK'
  <2>1. workers' \in [Workers -> Worker]
    BY <1>2, IdleRow DEF IInv, WorkersOK
  <2>2. OneOpens'
    BY <1>7, IdleRow DEF IInv, WorkersOK, OneOpens, At, Job
  <2> QED
    BY <1>8, <2>1, <2>2 DEF WorkersOK
<1>10. TablesOK'
  BY <1>1, <1>2, <1>3, <1>5, <1>6 DEF IInv, TablesOK, Active
<1>11. (LedgerMatchesStatus /\ PaidSessionIsCredited)'
  BY <1>1, <1>2, <1>3, <1>5, <1>6 DEF IInv, LedgerMatchesStatus, PaidSessionIsCredited, Active
<1>12. CreditIsPaidFor'
  BY <1>1, <1>2, <1>3, <1>5 DEF IInv, CreditIsPaidFor, SessionsOf, Active
<1> QED
  BY <1>9, <1>10, <1>11, <1>12 DEF IInv

LEMMA SessionFailedKeeps ==
    ASSUME IInv, NEW w \in Workers, SessionFailed(w)
    PROVE  IInv'
<1>1. WorkersStep
  BY StopStep DEF SessionFailed
<1>2. Job(w) \in Sessions /\ sessions[Job(w)].status # "none"
  BY DEF SessionFailed, IInv, WorkersOK, RowInv, At, Job, SessionSteps
<1>3. CASE sessions[Job(w)].status = "paid"
  BY <1>1, <1>3, WorkerMoves DEF SessionFailed, IInv, TablesOK
<1>4. CASE sessions[Job(w)].status # "paid"
  BY <1>1, <1>2, <1>4, SetSessionMoves DEF SessionFailed, SessionStatus
<1> QED
  BY <1>3, <1>4

LEMMA CloseKeeps ==
    ASSUME IInv, NEW s \in Sessions, ClosePaymentSession(s)
    PROVE  IInv'
<1>1. WorkersStep
  BY DEF ClosePaymentSession, WorkersStep
<1> QED
  BY <1>1, SetSessionMoves DEF ClosePaymentSession, Active, SessionStatus

LEMMA DeadlineKeeps ==
    ASSUME IInv, NEW r \in Recharges, DeadlinePasses(r)
    PROVE  IInv'
<1>1. WorkersStep
  BY DEF DeadlinePasses, WorkersStep
<1>2. due' \in SUBSET Recharges /\ late' \in SUBSET Recharges
  BY DEF DeadlinePasses, IInv, TablesOK
<1> QED
  BY <1>1, <1>2, WorkerMoves DEF DeadlinePasses

LEMMA GatewayMoves ==
    ASSUME IInv, NEW s \in Sessions, CustomerPays(s) \/ GatewayCloses(s)
    PROVE  IInv'
<1>1. PICK to \in {"intime", "late", "closed"} :
          gateway[s] = "open" /\ gateway' = [gateway EXCEPT ![s] = to]
  BY DEF CustomerPays, GatewayCloses
<1>2. UNCHANGED <<status, sessions, ledger, late, due, workers>>
  BY DEF CustomerPays, GatewayCloses
<1>3. \A t \in Sessions : gateway'[t] = IF t = s THEN to ELSE gateway[t]
  BY <1>1 DEF IInv, TablesOK
<1>4. WorkersOK'
  BY <1>1, <1>2, <1>3, WorkersKept DEF IInv, WorkersStep, SessionsKept, GatewayKept
<1>5. TablesOK'
  BY <1>1, <1>2, <1>3 DEF IInv, TablesOK
<1>6. (LedgerMatchesStatus /\ PaidSessionIsCredited)'
  BY <1>1, <1>2, <1>3 DEF IInv, LedgerMatchesStatus, PaidSessionIsCredited
<1>7. CreditIsPaidFor'
  BY <1>2 DEF IInv, CreditIsPaidFor, SessionsOf
<1> QED
  BY <1>4, <1>5, <1>6, <1>7 DEF IInv

-----------------------------------------------------------------------------
(* The steps of callbacks and reconciliation.                              *)

LEMMA CallbackArrivesKeeps ==
    ASSUME IInv, NEW w \in Workers, NEW s \in Sessions, NEW at \in PaidAt,
           CallbackArrives(w, s, at)
    PROVE  IInv'
<1> DEFINE x == [pc |-> "callback", recharge |-> sessions[s].recharge,
                 session |-> s, seen |-> sessions[s].status, at |-> at]
<1>1. sessions[s] \in SessionRow /\ sessions[s].status # "none" /\ gateway[s] \in {"intime", "late"}
  BY DEF CallbackArrives, IInv, TablesOK
<1>2. x \in Worker
  BY <1>1 DEF Worker, SessionRow, Steps
<1>3. at = "intime" => gateway[s] = "intime"
  BY DEF CallbackArrives
<1>4. RowInv(x) /\ x.pc # "opening"
  BY <1>1, <1>3 DEF RowInv, SessionSteps, PaidSteps, ManualSteps
<1>5. workers' = [workers EXCEPT ![w] = x]
  BY DEF CallbackArrives
<1> HIDE DEF x
<1>6. WorkersStep
  BY <1>2, <1>4, <1>5 DEF WorkersStep
<1> QED
  BY <1>6, WorkerMoves DEF CallbackArrives, IInv, TablesOK

LEMMA UnpaidCallbackArrivesKeeps ==
    ASSUME IInv, NEW w \in Workers, NEW s \in Sessions, NEW report \in SessionStatus,
           UnpaidCallbackArrives(w, s, report)
    PROVE  IInv'
<1> DEFINE x == [pc |-> "unpaid", recharge |-> sessions[s].recharge,
                 session |-> s, seen |-> report, at |-> "none"]
<1>1. /\ sessions[s] \in SessionRow /\ report \in {"pending", "closed", "expired"}
      /\ sessions[s].status # "none"
  BY DEF UnpaidCallbackArrives, UnpaidReports, IInv, TablesOK
<1>2. x \in Worker
  BY <1>1 DEF Worker, SessionRow, Steps, PaidAt
<1>3. RowInv(x) /\ x.pc # "opening"
  BY <1>1 DEF RowInv, SessionSteps, PaidSteps, ManualSteps
<1>4. workers' = [workers EXCEPT ![w] = x]
  BY DEF UnpaidCallbackArrives
<1> HIDE DEF x
<1>5. WorkersStep
  BY <1>2, <1>3, <1>4 DEF WorkersStep
<1> QED
  BY <1>5, WorkerMoves DEF UnpaidCallbackArrives, IInv, TablesOK

(* A step that another worker's state cannot tell from the one before. *)
LEMMA MovedRow ==
    ASSUME WorkersOK, NEW w \in Workers, NEW step
    PROVE  LET x == [workers[w] EXCEPT !.pc = step] IN
           /\ x.pc = step /\ x.session = Job(w) /\ x.recharge = Parent(w)
           /\ x.at = workers[w].at /\ x.seen = workers[w].seen
BY DEF WorkersOK, Worker, Job, Parent

LEMMA StartedRow ==
    ASSUME NEW step, NEW r, NEW s
    PROVE  LET x == [Idle EXCEPT !.pc = step, !.recharge = r, !.session = s] IN
           x.pc = step /\ x.session = s /\ x.recharge = r
BY DEF Idle

(* A worker that knows its session was paid goes on to write what it knows. *)
LEMMA PaidMove ==
    ASSUME WorkersOK, NEW w \in Workers, workers[w].pc \in PaidSteps,
           NEW step \in {"latesession", "laterecharge", "complete"}, Move(w, step)
    PROVE  WorkersStep
<1>1. RowInv(workers[w])
  BY DEF WorkersOK
<1>2. RowInv([workers[w] EXCEPT !.pc = step])
  BY <1>1, MovedRow DEF RowInv, SessionSteps, PaidSteps, ManualSteps, Job, Parent
<1> QED
  BY <1>2, MoveStep DEF Steps

LEMMA CallbackDecidesKeeps ==
    ASSUME IInv, NEW w \in Workers, CallbackDecides(w)
    PROVE  IInv'
<1>1. WorkersStep
  BY PaidMove, StopStep DEF CallbackDecides, At, PaidSteps, IInv
<1> QED
  BY <1>1, WorkerMoves DEF CallbackDecides, IInv, TablesOK

LEMMA LateEvidenceKeeps ==
    ASSUME IInv, NEW w \in Workers, LateEvidenceOnSession(w) \/ LateEvidenceOnRecharge(w)
    PROVE  IInv'
<1>1. /\ workers[w].pc \in PaidSteps
      /\ Job(w) \in Sessions /\ sessions[Job(w)].status # "none"
      /\ Parent(w) = sessions[Job(w)].recharge /\ Parent(w) \in Recharges
  BY DEF LateEvidenceOnSession, LateEvidenceOnRecharge, At, PaidSteps,
         IInv, TablesOK, WorkersOK, RowInv, SessionSteps, Job, Parent
<1>2. CASE LateEvidenceOnSession(w)
  <2>1. WorkersStep
    BY <1>1, <1>2, PaidMove DEF LateEvidenceOnSession, IInv
  <2>2. CASE SetSession(Job(w), "expired") /\ sessions[Job(w)].status \notin {"none", "paid"}
    BY <1>1, <1>2, <2>1, <2>2, SetSessionMoves DEF LateEvidenceOnSession, SessionStatus
  <2>3. CASE UNCHANGED sessions
    BY <1>2, <2>1, <2>3, WorkerMoves DEF LateEvidenceOnSession, IInv, TablesOK
  <2> QED
    BY <1>2, <2>2, <2>3 DEF LateEvidenceOnSession, RowMatches, Active
<1>3. CASE LateEvidenceOnRecharge(w)
  <2>1. WorkersStep
    BY <1>3, StopStep DEF LateEvidenceOnRecharge
  <2>2. CASE SetStatus(Parent(w), "expired") /\ status[Parent(w)] \notin Completed
    BY <1>1, <1>3, <2>1, <2>2, StatusMoves
       DEF LateEvidenceOnRecharge, RechargeStatus, Completed, NonManualStatus
  <2>3. CASE UNCHANGED status
    BY <1>3, <2>1, <2>3, WorkerMoves DEF LateEvidenceOnRecharge, IInv, TablesOK
  <2> QED
    BY <1>3, <2>2, <2>3 DEF LateEvidenceOnRecharge, RowMatches, Expirable, Completed
<1> QED
  BY <1>2, <1>3

LEMMA UnpaidWritesKeeps ==
    ASSUME IInv, NEW w \in Workers, UnpaidCallbackWrites(w)
    PROVE  IInv'
<1>1. WorkersStep
  BY StopStep DEF UnpaidCallbackWrites
<1>2. /\ Job(w) \in Sessions /\ sessions[Job(w)].status # "none"
      /\ workers[w].seen \in {"pending", "closed", "expired"}
  BY DEF UnpaidCallbackWrites, At, IInv, WorkersOK, RowInv, SessionSteps, Job
<1>3. CASE ~UnpaidUpdates(w)
  BY <1>1, <1>3, WorkerMoves DEF UnpaidCallbackWrites, IInv, TablesOK
<1>4. CASE UnpaidUpdates(w)
  BY <1>1, <1>2, <1>4, SetSessionMoves
     DEF UnpaidCallbackWrites, UnpaidUpdates, SessionStatus, Active
<1> QED
  BY <1>3, <1>4

LEMMA ReconcileKeeps ==
    ASSUME IInv, NEW w \in Workers,
           ReconcileAnswered(w) \/ \E s \in Sessions : ReconcileStarts(w, s)
    PROVE  IInv'
<1>1. ASSUME ReconcileAnswered(w) PROVE WorkersStep
  <2>1. /\ Job(w) \in Sessions /\ sessions[Job(w)].status # "none"
        /\ Parent(w) = sessions[Job(w)].recharge
    BY <1>1 DEF ReconcileAnswered, At, IInv, WorkersOK, RowInv, SessionSteps, Job, Parent
  <2>2. CASE Stop(w)
    BY <2>2, StopStep
  <2>3. CASE gateway[Job(w)] = "intime" /\
             workers' = [workers EXCEPT ![w].pc = "complete", ![w].at = "intime"]
    <3> DEFINE x == [workers[w] EXCEPT !.pc = "complete", !.at = "intime"]
    <3>1. /\ x \in Worker /\ x.pc = "complete" /\ x.at = "intime"
          /\ x.session = Job(w) /\ x.recharge = Parent(w)
      BY DEF IInv, WorkersOK, Worker, Steps, PaidAt, Job, Parent
    <3>2. workers' = [workers EXCEPT ![w] = x]
      BY <2>3 DEF IInv, WorkersOK, Worker
    <3> HIDE DEF x
    <3>3. RowInv(x)
      BY <2>1, <2>3, <3>1 DEF RowInv, SessionSteps, PaidSteps, ManualSteps
    <3> QED
      BY <3>1, <3>2, <3>3 DEF WorkersStep
  <2> QED
    BY <1>1, <2>2, <2>3 DEF ReconcileAnswered
<1>2. ASSUME NEW s \in Sessions, ReconcileStarts(w, s) PROVE WorkersStep
  <2>1. sessions[s].status # "none" /\ sessions[s].recharge \in Recharges
    BY <1>2 DEF ReconcileStarts, Reconcilable, Active, IInv, TablesOK
  <2>2. RowInv([Idle EXCEPT !.pc = "query", !.recharge = sessions[s].recharge, !.session = s])
    BY <2>1, StartedRow DEF RowInv, SessionSteps, PaidSteps, ManualSteps
  <2> QED
    BY <1>2, <2>1, <2>2, StartStep DEF ReconcileStarts, Steps
<1>3. UNCHANGED <<status, sessions, gateway, ledger, late, due>>
  BY DEF ReconcileAnswered, ReconcileStarts
<1> QED
  BY <1>1, <1>2, <1>3, WorkerMoves DEF IInv, TablesOK

(* complete_payment_session is reached only with a payment the gateway     *)
(* has seen.                                                               *)
LEMMA CompleteKeeps ==
    ASSUME IInv, NEW w \in Workers, CompletePaymentSession(w)
    PROVE  IInv'
<1>1. /\ Job(w) \in Sessions /\ gateway[Job(w)] \in {"intime", "late"}
      /\ Parent(w) = sessions[Job(w)].recharge
  BY DEF CompletePaymentSession, At, IInv, WorkersOK, RowInv, SessionSteps, PaidSteps, Job, Parent
<1>2. WorkersStep /\ UNCHANGED <<gateway, late, due>>
  BY StopStep DEF CompletePaymentSession
<1>3. CASE UNCHANGED <<status, sessions, ledger>>
  BY <1>2, <1>3, WorkerMoves DEF IInv, TablesOK
<1>4. CASE SetSession(Job(w), "paid") /\ Credited(Parent(w))
  <2>1. \/ Parent(w) \in ledger /\ UNCHANGED <<status, ledger>>
        \/ \E to \in Completed : SetStatus(Parent(w), to) /\ ledger' = ledger \cup {Parent(w)}
    BY <1>4 DEF Credited, Completed
  <2>2. late' \in SUBSET Recharges
    BY <1>2 DEF IInv, TablesOK
  <2> QED
    BY <1>1, <1>2, <1>4, <2>1, <2>2, SessionRaises
<1> QED
  BY <1>3, <1>4 DEF CompletePaymentSession

-----------------------------------------------------------------------------
(* The steps of expiry.                                                    *)

LEMMA ExpireOverdueKeeps ==
    ASSUME IInv, NEW w \in Workers, NEW r \in Recharges, ExpireOverdue(w, r)
    PROVE  IInv'
<1>1. RowInv([Idle EXCEPT !.pc = "expiresessions", !.recharge = r, !.session = NoSession])
  BY StartedRow DEF RowInv, SessionSteps, PaidSteps, ManualSteps
<1>2. WorkersStep
  BY <1>1, StartStep DEF ExpireOverdue, Steps
<1> QED
  BY <1>2, StatusMoves
     DEF ExpireOverdue, Expirable, RechargeStatus, Completed, NonManualStatus

LEMMA ExpireSessionsKeeps ==
    ASSUME IInv, NEW w \in Workers, ExpireSessions(w)
    PROVE  IInv'
<1>1. WorkersStep
  BY StopStep DEF ExpireSessions
<1>2. ASSUME NEW s \in Sessions
      PROVE  /\ sessions'[s] \in SessionRow
             /\ sessions'[s].recharge = sessions[s].recharge
             /\ \/ sessions'[s].status = sessions[s].status
                \/ sessions[s].status \in Active /\ sessions'[s].status = "expired"
  <2>1. sessions[s] \in SessionRow
    BY DEF IInv, TablesOK
  <2>2. CASE s \in ActiveOf(Parent(w))
    <3>1. sessions'[s] = [sessions[s] EXCEPT !.status = "expired"]
      BY <2>2 DEF ExpireSessions
    <3> QED
      BY <2>1, <2>2, <3>1 DEF SessionRow, SessionStatus, ActiveOf
  <2>3. CASE s \notin ActiveOf(Parent(w))
    BY <2>1, <2>3 DEF ExpireSessions
  <2> QED
    BY <2>2, <2>3
<1>3. sessions' \in [Sessions -> SessionRow]
  <2>1. sessions' = [s \in Sessions |-> sessions'[s]]
    BY DEF ExpireSessions
  <2> QED
    BY <1>2, <2>1
<1>4. UNCHANGED <<status, gateway, ledger, late, due>>
  BY DEF ExpireSessions
<1> QED
  BY <1>1, <1>2, <1>3, <1>4, SessionMoves DEF Active

LEMMA PollKeeps ==
    ASSUME IInv, NEW w \in Workers,
           PollExpiresRecharge(w) \/ \E s \in Sessions : PollExpiresSession(w, s)
    PROVE  IInv'
<1>1. ASSUME NEW s \in Sessions, PollExpiresSession(w, s) PROVE IInv'
  <2>1. sessions[s].status \in Active /\ sessions[s].recharge \in Recharges
    BY <1>1 DEF PollExpiresSession, Active, IInv, TablesOK
  <2>2. RowInv([Idle EXCEPT !.pc = "expirerecharge", !.recharge = sessions[s].recharge,
                            !.session = s])
    BY <2>1, StartedRow DEF RowInv, SessionSteps, PaidSteps, ManualSteps
  <2>3. WorkersStep
    BY <1>1, <2>1, <2>2, StartStep DEF PollExpiresSession, Steps
  <2> QED
    BY <1>1, <2>1, <2>3, SetSessionMoves DEF PollExpiresSession, Active, SessionStatus
<1>2. ASSUME PollExpiresRecharge(w) PROVE IInv'
  <2>1. WorkersStep
    BY <1>2, StopStep DEF PollExpiresRecharge
  <2>2. Parent(w) \in Recharges
    BY <1>2 DEF PollExpiresRecharge, At, IInv, WorkersOK, RowInv, Parent
  <2>3. CASE SetStatus(Parent(w), "expired") /\ status[Parent(w)] \notin Completed
    BY <1>2, <2>1, <2>2, <2>3, StatusMoves
       DEF PollExpiresRecharge, RechargeStatus, Completed, NonManualStatus
  <2>4. CASE UNCHANGED status
    BY <1>2, <2>1, <2>4, WorkerMoves DEF PollExpiresRecharge, IInv, TablesOK
  <2> QED
    BY <1>2, <2>3, <2>4 DEF PollExpiresRecharge, RowMatches, Expirable, Completed
<1> QED
  BY <1>1, <1>2

-----------------------------------------------------------------------------
(* The steps of manual review.                                             *)

LEMMA ReviewKeeps ==
    ASSUME IInv, NEW r \in Recharges,
           SubmitProof(r) \/ ReviewRepairs(r) \/ \E to \in RechargeStatus : Review(r, to)
    PROVE  IInv'
<1>1. WorkersStep /\ UNCHANGED <<sessions, gateway, ledger, late, due>>
  BY DEF SubmitProof, ReviewRepairs, Review, WorkersStep
<1>2. CASE SubmitProof(r)
  BY <1>1, <1>2, StatusMoves DEF SubmitProof, RechargeStatus, Completed
<1>3. CASE ReviewRepairs(r)
  BY <1>1, <1>3, StatusMoves DEF ReviewRepairs, RechargeStatus, Completed, NonManualStatus
<1>4. ASSUME NEW to \in RechargeStatus, Review(r, to) PROVE IInv'
  <2>1. status[r] \notin Completed /\ to \notin Completed
    BY <1>4 DEF Review, ReviewMoves, Completed
  <2>2. r \notin Manual => to \in NonManualStatus
    BY <1>4 DEF Review, ReviewMoves, NonManualStatus, IInv, TablesOK
  <2> QED
    BY <1>1, <1>4, <2>1, <2>2, StatusMoves DEF Review
<1> QED
  BY <1>2, <1>3, <1>4

(* A recharge under review has a manual review. *)
LEMMA ReviewStartsKeep ==
    ASSUME IInv, NEW w \in Workers, NEW r \in Recharges, Approve(w, r) \/ RetryCredit(w, r)
    PROVE  IInv'
<1>1. r \in Manual
  BY DEF Approve, RetryCredit, IInv, TablesOK
<1>2. RowInv([Idle EXCEPT !.pc = "approved", !.recharge = r, !.session = NoSession])
  BY <1>1, StartedRow DEF RowInv, SessionSteps, PaidSteps, ManualSteps
<1>3. RowInv([Idle EXCEPT !.pc = "credit", !.recharge = r, !.session = NoSession])
  BY <1>1, StartedRow DEF RowInv, SessionSteps, PaidSteps, ManualSteps
<1>4. WorkersStep
  BY <1>2, <1>3, StartStep DEF Approve, RetryCredit, Steps
<1> QED
  BY <1>1, <1>4, StatusMoves
     DEF Approve, RetryCredit, RechargeStatus, Completed, Expirable

LEMMA ManualMove ==
    ASSUME WorkersOK, NEW w \in Workers, workers[w].pc \in ManualSteps,
           NEW step \in ManualSteps, Move(w, step)
    PROVE  WorkersStep /\ Parent(w) \in Manual
<1>1. RowInv(workers[w])
  BY DEF WorkersOK
<1>2. Parent(w) \in Manual
  BY <1>1 DEF RowInv, Parent
<1>3. RowInv([workers[w] EXCEPT !.pc = step])
  BY <1>2, MovedRow DEF RowInv, SessionSteps, PaidSteps, ManualSteps
<1> QED
  BY <1>2, <1>3, MoveStep DEF Steps, ManualSteps

LEMMA ClaimCreditKeeps ==
    ASSUME IInv, NEW w \in Workers, ClaimCredit(w)
    PROVE  IInv'
<1>1. WorkersStep /\ Parent(w) \in Manual
  BY ManualMove DEF ClaimCredit, At, ManualSteps, IInv
<1>2. CASE ClaimHolds(w)
  BY <1>1, <1>2, RechargeAssumption, StatusMoves
     DEF ClaimCredit, ClaimHolds, RechargeStatus, Expirable, Completed
<1>3. CASE ~ClaimHolds(w)
  BY <1>1, <1>3, WorkerMoves DEF ClaimCredit, IInv, TablesOK
<1> QED
  BY <1>2, <1>3

LEMMA CreditKeeps ==
    ASSUME IInv, NEW w \in Workers, CreditRecharge(w) \/ CreditUnanswered(w) \/ AdriftCreditLands(w)
    PROVE  IInv'
<1>1. Parent(w) \in Manual
  BY DEF CreditRecharge, CreditUnanswered, AdriftCreditLands, At, IInv, WorkersOK, RowInv,
         ManualSteps, Parent
<1>2. WorkersStep /\ UNCHANGED <<sessions, gateway, late, due>>
  BY ManualMove, StopStep
     DEF CreditRecharge, CreditUnanswered, AdriftCreditLands, At, ManualSteps, IInv
<1>3. CASE Credited(Parent(w))
  BY <1>1, <1>2, <1>3, ReviewRaises
<1>4. CASE UNCHANGED <<status, ledger>>
  BY <1>2, <1>4, WorkerMoves DEF IInv, TablesOK
<1> QED
  BY <1>3, <1>4 DEF CreditRecharge, CreditUnanswered, AdriftCreditLands

LEMMA AfterCreditKeeps ==
    ASSUME IInv, NEW w \in Workers, FailCredit(w) \/ SettleCredit(w)
    PROVE  IInv'
<1>1. Parent(w) \in Manual /\ Parent(w) \in Recharges
  BY RechargeAssumption
     DEF FailCredit, SettleCredit, At, IInv, WorkersOK, RowInv, ManualSteps, Parent
<1>2. WorkersStep /\ UNCHANGED <<sessions, gateway, ledger, late, due>>
  BY StopStep DEF FailCredit, SettleCredit
<1>3. CASE UNCHANGED status
  BY <1>2, <1>3, WorkerMoves DEF IInv, TablesOK
<1>4. CASE status[Parent(w)] = "processing" /\ SetStatus(Parent(w), "failed")
  BY <1>1, <1>2, <1>4, StatusMoves DEF RechargeStatus, Completed
<1>5. CASE status[Parent(w)] = "paid" /\ SetStatus(Parent(w), "succeeded")
  BY <1>1, <1>2, <1>5, StatusMoves DEF RechargeStatus, Completed
<1> QED
  BY <1>3, <1>4, <1>5 DEF FailCredit, SettleCredit, RowMatches

-----------------------------------------------------------------------------
(* The steps of a late payment.                                            *)

LEMMA LateReviewStartsKeeps ==
    ASSUME IInv, NEW w \in Workers, NEW s \in Sessions, LateReviewStarts(w, s)
    PROVE  IInv'
<1>1. /\ sessions[s].status # "none" /\ sessions[s].recharge \in Recharges
      /\ gateway[s] = "late"
  BY DEF LateReviewStarts, LateReviewable, IInv, TablesOK
<1>2. RowInv([Idle EXCEPT !.pc = "latereview", !.recharge = sessions[s].recharge, !.session = s])
  BY <1>1, StartedRow DEF RowInv, SessionSteps, PaidSteps, ManualSteps
<1>3. WorkersStep
  BY <1>1, <1>2, StartStep DEF LateReviewStarts, Steps
<1> QED
  BY <1>3, WorkerMoves DEF LateReviewStarts, IInv, TablesOK

LEMMA ApproveLateKeeps ==
    ASSUME IInv, NEW w \in Workers, ApproveLatePayment(w)
    PROVE  IInv'
<1>1. /\ Job(w) \in Sessions /\ gateway[Job(w)] = "late"
      /\ Parent(w) = sessions[Job(w)].recharge /\ Parent(w) \in Recharges
  BY DEF ApproveLatePayment, At, IInv, TablesOK, WorkersOK, RowInv, SessionSteps, Job, Parent
<1>2. WorkersStep /\ UNCHANGED <<gateway, due>>
  BY StopStep DEF ApproveLatePayment
<1>3. CASE UNCHANGED <<status, sessions, ledger, late>>
  BY <1>2, <1>3, WorkerMoves DEF IInv, TablesOK
<1>4. CASE /\ SetStatus(Parent(w), "succeeded")
           /\ SetSession(Job(w), "paid")
           /\ ledger' = ledger \cup {Parent(w)}
           /\ late' = late \cup {Parent(w)}
  <2>1. late' \in SUBSET Recharges
    BY <1>1, <1>4 DEF IInv, TablesOK
  <2> QED
    BY <1>1, <1>2, <1>4, <2>1, SessionRaises DEF Completed
<1> QED
  BY <1>3, <1>4 DEF ApproveLatePayment

LEMMA CrashKeeps ==
    ASSUME IInv, NEW w \in Workers, Crash(w)
    PROVE  IInv'
<1>1. WorkersStep
  BY StopStep DEF Crash
<1> QED
  BY <1>1, WorkerMoves DEF Crash, IInv, TablesOK

-----------------------------------------------------------------------------
(* The theorems.                                                           *)

LEMMA InitIInv == ASSUME Init PROVE IInv
<1>1. TablesOK
  BY RechargeAssumption
     DEF Init, TablesOK, RechargeStatus, Expirable, SessionRow, SessionStatus
<1>2. WorkersOK
  BY IdleRow DEF Init, WorkersOK, OneOpens, At
<1>3. LedgerMatchesStatus /\ PaidSessionIsCredited /\ CreditIsPaidFor
  BY DEF Init, LedgerMatchesStatus, PaidSessionIsCredited, CreditIsPaidFor, Completed
<1> QED
  BY <1>1, <1>2, <1>3 DEF IInv

LEMMA NextKeepsIInv == ASSUME IInv, [Next]_vars PROVE IInv'
<1>1. ASSUME NEW w \in Workers, WorkerStep(w) PROVE IInv'
  BY <1>1, SessionOpenedKeeps, SessionFailedKeeps, CallbackDecidesKeeps, LateEvidenceKeeps,
     UnpaidWritesKeeps, ReconcileKeeps, CompleteKeeps, ExpireSessionsKeeps, PollKeeps,
     ClaimCreditKeeps, CreditKeeps, AfterCreditKeeps, ApproveLateKeeps DEF WorkerStep
<1>2. ASSUME NEW w \in Workers, WorkerStart(w) PROVE IInv'
  BY <1>2, ExpireOverdueKeeps, ReviewStartsKeep, CreateSessionKeeps, ReconcileKeeps, PollKeeps,
     LateReviewStartsKeeps, CallbackArrivesKeeps, UnpaidCallbackArrivesKeeps DEF WorkerStart
<1>3. ASSUME NEW w \in Workers, Crash(w) PROVE IInv'
  BY <1>3, CrashKeeps
<1>4. ASSUME NEW r \in Recharges,
             \/ DeadlinePasses(r) \/ SubmitProof(r) \/ ReviewRepairs(r)
             \/ \E to \in RechargeStatus : Review(r, to)
      PROVE  IInv'
  BY <1>4, DeadlineKeeps, ReviewKeeps
<1>5. ASSUME NEW s \in Sessions, ClosePaymentSession(s) \/ CustomerPays(s) \/ GatewayCloses(s)
      PROVE  IInv'
  BY <1>5, CloseKeeps, GatewayMoves
<1>6. CASE UNCHANGED vars
  <2>1. WorkersStep
    BY <1>6 DEF vars, WorkersStep
  <2> QED
    BY <1>6, <2>1, WorkerMoves DEF vars, IInv, TablesOK
<1> QED
  BY <1>1, <1>2, <1>3, <1>4, <1>5, <1>6 DEF Next

(* IInv is inductive. *)
THEOREM RechargeInvariant == Spec => []IInv
<1>1. Init => IInv
  BY InitIInv
<1>2. IInv /\ [Next]_vars => IInv'
  BY NextKeepsIInv
<1> QED
  BY <1>1, <1>2, PTL DEF Spec

(* Every recharge, session and handler keeps its type. *)
THEOREM TypeCorrect == Spec => []TypeOK
<1>1. IInv => TypeOK
  BY DEF IInv, TablesOK, WorkersOK, TypeOK
<1> QED
  BY <1>1, RechargeInvariant, PTL

(* The balance was raised for exactly the completed recharges. *)
THEOREM LedgerMatches == Spec => []LedgerMatchesStatus
<1>1. IInv => LedgerMatchesStatus
  BY DEF IInv
<1> QED
  BY <1>1, RechargeInvariant, PTL

(* A session becomes paid only with money at the gateway and the credit.   *)
THEOREM PaidIsCredited == Spec => []PaidSessionIsCredited
<1>1. IInv => PaidSessionIsCredited
  BY DEF IInv
<1> QED
  BY <1>1, RechargeInvariant, PTL

(* No recharge without manual review is credited without a paid session.   *)
THEOREM CreditPaidFor == Spec => []CreditIsPaidFor
<1>1. IInv => CreditIsPaidFor
  BY DEF IInv
<1> QED
  BY <1>1, RechargeInvariant, PTL

(* The step that changes the sessions is one of these. *)
LEMMA SessionWriters ==
    ASSUME IInv, Next, ~UNCHANGED sessions
    PROVE  \/ \E w \in Workers : \/ SessionOpened(w) \/ SessionFailed(w)
                                 \/ LateEvidenceOnSession(w) \/ UnpaidCallbackWrites(w)
                                 \/ CompletePaymentSession(w) \/ ExpireSessions(w)
                                 \/ ApproveLatePayment(w)
                                 \/ \E s \in Sessions : PollExpiresSession(w, s)
                                 \/ \E r \in Recharges, s \in Sessions : CreateSession(w, r, s)
           \/ \E s \in Sessions : ClosePaymentSession(s)
BY DEF Next, WorkerStep, WorkerStart, Crash, CallbackDecides, LateEvidenceOnRecharge,
       ReconcileAnswered, PollExpiresRecharge, ClaimCredit, CreditRecharge, CreditUnanswered,
       AdriftCreditLands, FailCredit, SettleCredit, ExpireOverdue, Approve, RetryCredit,
       ReconcileStarts, LateReviewStarts, CallbackArrives, UnpaidCallbackArrives,
       DeadlinePasses, SubmitProof, ReviewRepairs, Review, CustomerPays, GatewayCloses

LEMMA PaidStays ==
    ASSUME IInv, Next, NEW s \in Sessions, sessions[s].status = "paid"
    PROVE  sessions'[s].status = "paid"
<1>1. sessions \in [Sessions -> SessionRow]
  BY DEF IInv, TablesOK
<1>2. CASE UNCHANGED sessions
  BY <1>2
<1>3. ASSUME NEW t \in Sessions, NEW to, t # s \/ to = "paid", SetSession(t, to)
      PROVE  sessions'[s].status = "paid"
  BY <1>1, <1>3 DEF SetSession, SessionRow
<1>4. ASSUME NEW w \in Workers, SessionOpened(w) PROVE sessions'[s].status = "paid"
  BY <1>1, <1>4 DEF SessionOpened, Active, SessionRow
<1>5. ASSUME NEW w \in Workers,
             SessionFailed(w) \/ LateEvidenceOnSession(w) \/ UnpaidCallbackWrites(w)
      PROVE  sessions'[s].status = "paid"
  <2>1. Job(w) \in Sessions
    BY <1>5 DEF SessionFailed, LateEvidenceOnSession, UnpaidCallbackWrites, At, Job,
                IInv, WorkersOK, RowInv, SessionSteps
  <2> QED
    BY <1>2, <1>3, <1>5, <2>1
       DEF SessionFailed, LateEvidenceOnSession, UnpaidCallbackWrites, UnpaidUpdates,
           RowMatches, Active
<1>6. ASSUME NEW w \in Workers, CompletePaymentSession(w) \/ ApproveLatePayment(w)
      PROVE  sessions'[s].status = "paid"
  <2>1. Job(w) \in Sessions
    BY <1>6 DEF CompletePaymentSession, ApproveLatePayment, At, Job,
                IInv, WorkersOK, RowInv, SessionSteps
  <2> QED
    BY <1>2, <1>3, <1>6, <2>1 DEF CompletePaymentSession, ApproveLatePayment
<1>7. ASSUME NEW w \in Workers, ExpireSessions(w) PROVE sessions'[s].status = "paid"
  BY <1>1, <1>7 DEF ExpireSessions, ActiveOf, Active
<1>8. ASSUME NEW t \in Sessions,
             \/ ClosePaymentSession(t)
             \/ \E w \in Workers : PollExpiresSession(w, t)
      PROVE  sessions'[s].status = "paid"
  BY <1>3, <1>8 DEF ClosePaymentSession, PollExpiresSession, Active
<1>9. ASSUME NEW w \in Workers, NEW r \in Recharges, NEW t \in Sessions, CreateSession(w, r, t)
      PROVE  sessions'[s].status = "paid"
  <2>1. t # s
    BY <1>9, RechargeAssumption DEF CreateSession, Fresh
  <2> QED
    BY <1>1, <1>9, <2>1 DEF CreateSession
<1> QED
  BY <1>2, <1>4, <1>5, <1>6, <1>7, <1>8, <1>9, SessionWriters

(* The ledger grows by these steps only. *)
LEMMA LedgerWriters ==
    ASSUME IInv, Next, ~UNCHANGED ledger
    PROVE  \E w \in Workers : \/ CompletePaymentSession(w) \/ ApproveLatePayment(w)
                              \/ CreditRecharge(w) \/ AdriftCreditLands(w)
BY DEF Next, WorkerStep, WorkerStart, Crash, SessionOpened, SessionFailed, CallbackDecides,
       LateEvidenceOnSession, LateEvidenceOnRecharge, UnpaidCallbackWrites,
       ReconcileAnswered, ExpireSessions, PollExpiresRecharge, PollExpiresSession, ClaimCredit,
       CreditUnanswered, FailCredit, SettleCredit, ExpireOverdue, Approve, RetryCredit,
       CreateSession, ReconcileStarts, LateReviewStarts, CallbackArrives, UnpaidCallbackArrives,
       DeadlinePasses, SubmitProof, ReviewRepairs, Review, ClosePaymentSession,
       CustomerPays, GatewayCloses

LEMMA LedgerGrows == ASSUME IInv, Next PROVE ledger \subseteq ledger'
<1>1. CASE UNCHANGED ledger
  BY <1>1
<1>2. CASE ~UNCHANGED ledger
  BY <1>2, LedgerWriters
     DEF CompletePaymentSession, ApproveLatePayment, CreditRecharge, AdriftCreditLands, Credited
<1> QED
  BY <1>1, <1>2

(* No step takes a credit or a paid session back. *)
THEOREM CompletedStays == Spec => CompletedIsFinal
<1>1. ASSUME IInv, Next
      PROVE  /\ ledger \subseteq ledger'
             /\ \A r \in Recharges : status[r] \in Completed => status'[r] \in Completed
             /\ \A s \in Sessions : sessions[s].status = "paid" => sessions'[s].status = "paid"
  <2>1. IInv'
    BY <1>1, NextKeepsIInv
  <2> QED
    BY <1>1, <2>1, LedgerGrows, PaidStays DEF IInv, LedgerMatchesStatus
<1>2. ASSUME IInv, [Next]_vars
      PROVE  [/\ ledger \subseteq ledger'
              /\ \A r \in Recharges : status[r] \in Completed => status'[r] \in Completed
              /\ \A s \in Sessions : sessions[s].status = "paid" => sessions'[s].status = "paid"]_vars
  BY <1>1, <1>2 DEF vars
<1> QED
  BY <1>2, RechargeInvariant, PTL DEF Spec, CompletedIsFinal

(* A credit after the deadline has a payment in time or an approval.       *)
THEOREM LateCreditJustified == Spec => LateCreditIsJustified
<1>1. ASSUME IInv, Next, NEW r \in (ledger' \ ledger) \cap due
      PROVE  r \in late' \/ \E s \in SessionsOf(r) : gateway[s] = "intime"
  <2>1. r \in Recharges /\ status[r] \notin Completed
    BY <1>1 DEF IInv, TablesOK, LedgerMatchesStatus
  <2>2. ASSUME NEW w \in Workers, CompletePaymentSession(w)
        PROVE  \E s \in SessionsOf(r) : gateway[s] = "intime"
    <3>1. /\ Job(w) \in Sessions /\ Parent(w) = sessions[Job(w)].recharge
          /\ workers[w].at = "intime" => gateway[Job(w)] = "intime"
      BY <1>1, <2>2 DEF CompletePaymentSession, At, IInv, WorkersOK, RowInv, SessionSteps,
                        PaidSteps, Job, Parent
    <3>2. Parent(w) = r /\ SessionAccepts(Job(w), workers[w].at)
      BY <1>1, <2>2 DEF CompletePaymentSession, Credited
    <3>3. workers[w].at = "intime"
      BY <1>1, <3>1, <3>2 DEF SessionAccepts, InLifetime
    <3> QED
      BY <3>1, <3>2, <3>3 DEF SessionsOf
  <2>3. ASSUME NEW w \in Workers, CreditRecharge(w) \/ AdriftCreditLands(w)
        PROVE  FALSE
    <3>1. Parent(w) = r /\ ManualCreditAccepted(r)
      BY <1>1, <2>3 DEF CreditRecharge, AdriftCreditLands, Credited
    <3>2. Creditable(r, "untimed")
      BY <2>1, <3>1 DEF ManualCreditAccepted, Completed
    <3> QED
      BY <1>1, <3>2 DEF Creditable, InLifetime
  <2>4. ASSUME NEW w \in Workers, ApproveLatePayment(w) PROVE r \in late'
    BY <1>1, <2>4 DEF ApproveLatePayment
  <2> QED
    BY <1>1, <2>2, <2>3, <2>4, LedgerWriters
<1>2. ASSUME IInv, [Next]_vars
      PROVE  [\A r \in (ledger' \ ledger) \cap due :
                 r \in late' \/ \E s \in SessionsOf(r) : gateway[s] = "intime"]_vars
  BY <1>1, <1>2 DEF vars
<1> QED
  BY <1>2, RechargeInvariant, PTL DEF Spec, LateCreditIsJustified
=============================================================================
