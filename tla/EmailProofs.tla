---------------------------- MODULE EmailProofs -----------------------------
(***************************************************************************)
(* Theorems about EmailJobs, for any number of jobs, workers, attempts and *)
(* faults.                                                                 *)
(***************************************************************************)
EXTENDS EmailJobs, FiniteSetTheorems, TLAPS

(* The workers that have claimed j and not yet posted its mail. *)
Senders(j) == {w \in Workers : At(w, "claimed") /\ workers[w].job = j}

(* Every claim has a number of its own. *)
ClaimsAreDistinct ==
    \A v, w \in Workers :
        Working(v) /\ Working(w) /\ workers[v].claim = workers[w].claim => v = w

(* A row that was loaded while it was processing and has not changed since *)
(* belongs to an expired claim.                                            *)
LoadedInv(w) ==
    At(w, "loaded") =>
      /\ workers[w].job \in Jobs
      /\ workers[w].seen.attempts < MaxAttempts
      /\ workers[w].seen.status \notin {"none", "sent", "cancelled"}
      /\ workers[w].seen.lock <= claims
      /\ workers[w].seen.status = "processing" /\ jobs[workers[w].job] = workers[w].seen
           => workers[w].job \in late

WorkingInv(w) ==
    Working(w) =>
      /\ workers[w].job \in Jobs
      /\ workers[w].seen.attempts < MaxAttempts
      /\ workers[w].claim \in 1..claims
      /\ HoldsClaim(w) => Owns(w)
      /\ ~workers[w].overdue => Owns(w)
      /\ Owns(w) /\ workers[w].job \in late => workers[w].overdue
      /\ At(w, "answered") /\ workers[w].result = "sent" => workers[w].job \in mailed

JobInv(j) ==
    /\ jobs[j].lock <= claims
    /\ log[j] \subseteq 1..jobs[j].attempts
    /\ jobs[j].status = "processing" => jobs[j].attempts \notin log[j]
    /\ jobs[j].status = "sent" => j \in mailed

(* Posted mails and mails about to be posted are attempts of their job. *)
PostsBacked ==
    \A j \in Jobs : posts[j] + Cardinality(Senders(j)) <= jobs[j].attempts

ControlInv ==
    /\ TypeOK
    /\ \A w \in Workers : LoadedInv(w) /\ WorkingInv(w)
    /\ \A j \in Jobs : JobInv(j)
    /\ ClaimsAreDistinct

IInv == ControlInv /\ PostsBacked
-----------------------------------------------------------------------------
(* Lemmas.                                                                 *)

(* A worker that finishes with its job keeps its type and owes nothing. *)
LEMMA FreedIsIdle ==
    ASSUME TypeOK, NEW w \in Workers
    PROVE  /\ Freed(w) \in Worker /\ Idle \in Worker
           /\ Freed(w).pc \in {"idle", "batch"} /\ Idle.pc = "idle"
<1>1. Idle \in Worker /\ Idle.pc = "idle"
  BY SizesAssumption DEF Idle, Worker, NoRow, JobRow, JobStatuses, Results, Steps, Jobs, NoJob
<1>2. workers[w].todo \in SUBSET Jobs
  BY DEF TypeOK, Worker
<1>3. CASE workers[w].todo = {}
  BY <1>1, <1>3 DEF Freed
<1>4. CASE workers[w].todo # {}
  <2>1. Freed(w) = [Idle EXCEPT !.pc = "batch", !.todo = workers[w].todo]
    BY <1>4 DEF Freed
  <2>2. [Idle EXCEPT !.pc = "batch", !.todo = workers[w].todo] \in Worker
    BY <1>1, <1>2 DEF Worker, Steps
  <2>3. Freed(w).pc = "batch"
    BY <2>1, <1>1 DEF Worker
  <2> QED
    BY <1>1, <2>1, <2>2, <2>3
<1> QED
  BY <1>3, <1>4

(* A step that leaves the jobs, their attempts and the other workers alone *)
(* and leaves w idle or with the rest of its batch.                        *)
LEMMA WorkerFreed ==
    ASSUME ControlInv, NEW w \in Workers, NEW row \in Worker,
           row.pc \in {"idle", "batch"},
           workers' = [workers EXCEPT ![w] = row],
           UNCHANGED <<jobs, log, waiting, late, claims, posts, mailed>>,
           faults' \in 0..MaxFaults
    PROVE  ControlInv'
<1>1. TypeOK'
  BY DEF ControlInv, TypeOK
<1>2. ASSUME NEW v \in Workers PROVE v # w => workers'[v] = workers[v]
  BY DEF ControlInv, TypeOK
<1>3. workers'[w] = row
  BY DEF ControlInv, TypeOK
<1>4. ASSUME NEW v \in Workers PROVE (LoadedInv(v) /\ WorkingInv(v))'
  BY <1>2, <1>3 DEF ControlInv, LoadedInv, WorkingInv, Working, At, HoldsClaim, Owns
<1>5. (\A j \in Jobs : JobInv(j))'
  BY DEF ControlInv, JobInv
<1>6. ClaimsAreDistinct'
  BY <1>2, <1>3 DEF ControlInv, ClaimsAreDistinct, Working
<1> QED
  BY <1>1, <1>4, <1>5, <1>6 DEF ControlInv

-----------------------------------------------------------------------------
(* Every action keeps ControlInv.                                          *)

LEMMA StartBatchKeeps ==
    ASSUME ControlInv, NEW w \in Workers, StartBatch(w)
    PROVE  ControlInv'
<1> DEFINE row == [workers[w] EXCEPT !.pc = "batch", !.todo = Selected]
<1>1. Selected \subseteq Jobs
  BY DEF ControlInv, TypeOK, Selected, OldestDue, DueJobs, StaleJobs
<1>2. row \in Worker /\ row.pc = "batch"
  BY <1>1 DEF ControlInv, TypeOK, Worker, Steps
<1>3. workers' = [workers EXCEPT ![w] = row]
  BY DEF StartBatch, ControlInv, TypeOK, Worker
<1> QED
  BY <1>2, <1>3, WorkerFreed DEF StartBatch, ControlInv, TypeOK

LEMMA StartRetryKeeps ==
    ASSUME ControlInv, NEW w \in Workers, NEW j \in Jobs, StartRetry(w, j)
    PROVE  ControlInv'
<1> DEFINE row == [workers[w] EXCEPT !.pc = "batch", !.todo = {j}]
<1>1. row \in Worker /\ row.pc = "batch"
  BY DEF ControlInv, TypeOK, Worker, Steps
<1>2. workers' = [workers EXCEPT ![w] = row]
  BY DEF StartRetry, ControlInv, TypeOK, Worker
<1> QED
  BY <1>1, <1>2, WorkerFreed DEF StartRetry, ControlInv, TypeOK

LEMMA FaultKeeps ==
    ASSUME ControlInv, NEW w \in Workers, NEW dies \in BOOLEAN, Fault(w, dies)
    PROVE  ControlInv'
<1> DEFINE row == IF dies THEN Idle ELSE Freed(w)
<1>1. row \in Worker /\ row.pc \in {"idle", "batch"}
  BY FreedIsIdle DEF ControlInv
<1>2. faults' \in 0..MaxFaults
  BY SizesAssumption DEF Fault, ControlInv, TypeOK
<1>3. workers' = [workers EXCEPT ![w] = row]
  BY DEF Fault
<1> HIDE DEF row
<1> QED
  BY <1>1, <1>2, <1>3, WorkerFreed DEF Fault

(* A job that is open and processing is one whose claim has expired. *)
LEMMA LoadJobKeeps ==
    ASSUME ControlInv, NEW w \in Workers, NEW j \in Jobs, LoadJob(w, j)
    PROVE  ControlInv'
<1> DEFINE rest == [workers[w] EXCEPT !.todo = @ \ {j}]
           loaded == [rest EXCEPT !.pc = "loaded", !.job = j, !.seen = jobs[j]]
<1>1. rest \in Worker /\ rest.pc = "batch"
  BY DEF LoadJob, At, ControlInv, TypeOK, Worker
<1>2. CASE ~(Open(j) /\ j \notin Unreachable)
  <2> DEFINE row == IF rest.todo = {} THEN Idle ELSE rest
  <2>1. row \in Worker /\ row.pc \in {"idle", "batch"}
    BY <1>1, FreedIsIdle DEF ControlInv
  <2>2. workers' = [workers EXCEPT ![w] = row]
    BY <1>2 DEF LoadJob
  <2> HIDE DEF row
  <2> QED
    BY <2>1, <2>2, WorkerFreed DEF LoadJob, ControlInv, TypeOK
<1>3. CASE Open(j) /\ j \notin Unreachable
  <2>1. workers' = [workers EXCEPT ![w] = loaded]
    BY <1>3 DEF LoadJob
  <2>2. loaded \in Worker /\ loaded.pc = "loaded" /\ loaded.job = j /\ loaded.seen = jobs[j]
    <3>1. jobs[j] \in JobRow
      BY DEF ControlInv, TypeOK
    <3> HIDE DEF rest
    <3> QED
      BY <1>1, <3>1 DEF Worker, Steps
  <2> HIDE DEF loaded, rest
  <2>0. UNCHANGED <<jobs, log, waiting, late, claims, posts, mailed, faults>>
    BY DEF LoadJob
  <2>3. workers'[w] = loaded /\ \A v \in Workers : v # w => workers'[v] = workers[v]
    BY <2>1 DEF ControlInv, TypeOK
  <2>4. TypeOK'
    BY <2>0, <2>1, <2>2 DEF ControlInv, TypeOK
  <2>5. ASSUME NEW v \in Workers, v # w PROVE (LoadedInv(v) /\ WorkingInv(v))'
    BY <2>0, <2>3, <2>5 DEF ControlInv, LoadedInv, WorkingInv, Working, At, HoldsClaim, Owns
  <2>6. LoadedInv(w)'
    BY <1>3, <2>0, <2>2, <2>3 DEF Open, ControlInv, LoadedInv, JobInv, At
  <2>7. WorkingInv(w)'
    BY <2>2, <2>3 DEF WorkingInv, Working
  <2>8. (\A k \in Jobs : JobInv(k))'
    BY <2>0 DEF ControlInv, JobInv
  <2>9. ClaimsAreDistinct'
    BY <2>2, <2>3 DEF ControlInv, ClaimsAreDistinct, Working
  <2> QED
    BY <2>4, <2>5, <2>6, <2>7, <2>8, <2>9 DEF ControlInv
<1> QED
  BY <1>2, <1>3

(* A row that changes while it is not processing, and is not processing    *)
(* afterwards, concerns no claim and no worker that loaded it earlier.     *)
LEMMA RowChanged ==
    ASSUME ControlInv, NEW j \in Jobs, NEW row \in JobRow,
           jobs[j].status # "processing", row.status # "processing",
           row.status # "sent", row.attempts = jobs[j].attempts, row.lock <= claims,
           jobs' = [jobs EXCEPT ![j] = row],
           waiting' \subseteq Jobs,
           UNCHANGED <<log, late, claims, workers, posts, mailed, faults>>
    PROVE  ControlInv'
<1>1. TypeOK'
  BY DEF ControlInv, TypeOK
<1>2. jobs'[j] = row /\ \A k \in Jobs : k # j => jobs'[k] = jobs[k]
  BY DEF ControlInv, TypeOK
<1>3. ASSUME NEW w \in Workers PROVE LoadedInv(w)'
  BY <1>2 DEF ControlInv, LoadedInv, At
<1>4. ASSUME NEW w \in Workers PROVE WorkingInv(w)'
  BY <1>2 DEF ControlInv, WorkingInv, Working, At, HoldsClaim, Owns
<1>5. (\A k \in Jobs : JobInv(k))'
  BY <1>2 DEF ControlInv, JobInv
<1>6. ClaimsAreDistinct'
  BY DEF ControlInv, ClaimsAreDistinct, Working
<1> QED
  BY <1>1, <1>3, <1>4, <1>5, <1>6 DEF ControlInv

LEMMA QueueKeeps ==
    ASSUME ControlInv, NEW j \in Jobs, QueueBusinessEmail(j)
    PROVE  ControlInv'
<1> DEFINE row == [jobs[j] EXCEPT !.status = "pending"]
<1>1. /\ row \in JobRow /\ row.status = "pending"
      /\ row.attempts = jobs[j].attempts /\ row.lock = jobs[j].lock
  BY DEF ControlInv, TypeOK, JobRow, JobStatuses
<1>2. jobs' = [jobs EXCEPT ![j] = row]
  BY DEF QueueBusinessEmail, ControlInv, TypeOK
<1>3. row.lock <= claims
  BY <1>1 DEF ControlInv, JobInv
<1> HIDE DEF row
<1> QED
  BY <1>1, <1>2, <1>3, RowChanged DEF QueueBusinessEmail, ControlInv, TypeOK

LEMMA CancelKeeps ==
    ASSUME ControlInv, NEW j \in Jobs, CancelJob(j)
    PROVE  ControlInv'
<1> DEFINE row == [jobs[j] EXCEPT !.status = "cancelled", !.lock = 0]
<1>1. /\ row \in JobRow /\ row.status = "cancelled"
      /\ row.attempts = jobs[j].attempts /\ row.lock = 0
  BY DEF ControlInv, TypeOK, JobRow, JobStatuses
<1>2. jobs' = [jobs EXCEPT ![j] = row]
  BY DEF CancelJob, ControlInv, TypeOK
<1>3. row.lock <= claims
  BY <1>1 DEF ControlInv, TypeOK
<1> HIDE DEF row
<1> QED
  BY <1>1, <1>2, <1>3, RowChanged DEF CancelJob, ControlInv, TypeOK

LEMMA RetryDueKeeps ==
    ASSUME ControlInv, NEW j \in Jobs, RetryDue(j)
    PROVE  ControlInv'
BY DEF RetryDue, ControlInv, TypeOK, LoadedInv, WorkingInv, JobInv, ClaimsAreDistinct,
       Working, At, HoldsClaim, Owns

LEMMA ClaimExpiresKeeps ==
    ASSUME ControlInv, NEW j \in Jobs, ClaimExpires(j)
    PROVE  ControlInv'
<1> DEFINE Hit(w) == /\ workers[w].pc \in {"claimed", "answered"}
                     /\ workers[w].job = j
                     /\ workers[w].claim = jobs[j].lock
<1>1. /\ jobs[j].status = "processing"
      /\ late' = late \cup {j}
      /\ UNCHANGED <<jobs, log, waiting, claims, posts, mailed, faults>>
  BY DEF ClaimExpires
<1>2. ASSUME NEW w \in Workers
      PROVE  workers'[w] = IF Hit(w) THEN [workers[w] EXCEPT !.overdue = TRUE] ELSE workers[w]
  BY DEF ClaimExpires
<1>3. ASSUME NEW w \in Workers PROVE workers[w] \in Worker
  BY DEF ControlInv, TypeOK
<1> HIDE DEF Hit
<1>4. ASSUME NEW w \in Workers
      PROVE  /\ workers'[w] \in Worker
             /\ workers'[w].pc = workers[w].pc /\ workers'[w].job = workers[w].job
             /\ workers'[w].seen = workers[w].seen /\ workers'[w].claim = workers[w].claim
             /\ workers'[w].result = workers[w].result
             /\ workers'[w].overdue = (workers[w].overdue \/ Hit(w))
  <2>1. CASE Hit(w)
    BY <1>2, <1>3, <2>1 DEF Worker
  <2>2. CASE ~Hit(w)
    BY <1>2, <1>3, <2>2 DEF Worker
  <2> QED
    BY <2>1, <2>2
<1>5. TypeOK'
  <2>1. workers' \in [Workers -> Worker]
    <3>1. workers' = [w \in Workers |-> workers'[w]]
      BY DEF ClaimExpires
    <3> QED
      BY <1>4, <3>1
  <2> QED
    BY <1>1, <2>1 DEF ControlInv, TypeOK
<1>6. ASSUME NEW w \in Workers PROVE LoadedInv(w)'
  BY <1>1, <1>4 DEF ControlInv, LoadedInv, At
<1>7. ASSUME NEW w \in Workers PROVE WorkingInv(w)'
  <2>1. Owns(w)' = Owns(w) /\ HoldsClaim(w)' = HoldsClaim(w) /\ Working(w)' = Working(w)
    BY <1>1, <1>4 DEF Owns, HoldsClaim, Working
  <2>2. Working(w) /\ Owns(w) /\ workers[w].job = j => Hit(w)
    BY DEF Working, Owns, Hit
  <2> QED
    BY <1>1, <1>4, <2>1, <2>2 DEF ControlInv, WorkingInv, At
<1>8. (\A k \in Jobs : JobInv(k))'
  BY <1>1 DEF ControlInv, JobInv
<1>9. ClaimsAreDistinct'
  BY <1>4 DEF ControlInv, ClaimsAreDistinct, Working
<1> QED
  BY <1>5, <1>6, <1>7, <1>8, <1>9 DEF ControlInv

(* A claim takes the row from every worker that had loaded or claimed it.  *)
LEMMA ClaimJobKeeps ==
    ASSUME ControlInv, NEW w \in Workers, ClaimJob(w)
    PROVE  ControlInv'
<1>1. CASE ~Unchanged(w)
  <2>1. workers' = [workers EXCEPT ![w] = Freed(w)]
    BY <1>1 DEF ClaimJob, FreeWorker
  <2>2. Freed(w) \in Worker /\ Freed(w).pc \in {"idle", "batch"}
    BY FreedIsIdle DEF ControlInv
  <2>3. UNCHANGED <<jobs, log, waiting, late, claims, posts, mailed, faults>>
    BY <1>1 DEF ClaimJob
  <2> QED
    BY <2>1, <2>2, <2>3, WorkerFreed DEF ControlInv, TypeOK
<1>2. CASE Unchanged(w)
  <2> DEFINE j == workers[w].job
             n == claims + 1
             old == workers[w].seen.attempts
             row == [status |-> "processing", attempts |-> old + 1, lock |-> n]
             worker == [workers[w] EXCEPT !.pc = "claimed", !.claim = n]
  <2>1. /\ At(w, "loaded") /\ j \in Jobs /\ jobs[j] = workers[w].seen
        /\ old \in Nat /\ old < MaxAttempts /\ n \in Nat
        /\ jobs[j].status = "processing" => j \in late
    BY <1>2 DEF ClaimJob, Unchanged, ControlInv, TypeOK, LoadedInv, Worker, JobRow
  <2>2. /\ jobs' = [jobs EXCEPT ![j] = row]
        /\ workers' = [workers EXCEPT ![w] = worker]
        /\ claims' = n /\ late' = late \ {j}
        /\ UNCHANGED <<log, waiting, posts, mailed, faults>>
    BY <1>2 DEF ClaimJob, ControlInv, TypeOK, Worker
  <2>3. row \in JobRow
    BY <2>1, SizesAssumption DEF JobRow, JobStatuses
  <2>4. /\ worker \in Worker /\ worker.pc = "claimed" /\ worker.job = j
        /\ worker.seen = workers[w].seen /\ worker.claim = n
    BY <2>1 DEF ControlInv, TypeOK, Worker, Steps
  <2>5. row.status = "processing" /\ row.attempts = old + 1 /\ row.lock = n
    OBVIOUS
  <2>6. jobs[j].lock < n /\ jobs[j].attempts = old
    BY <2>1 DEF ControlInv, LoadedInv, TypeOK, Worker, JobRow
  <2> HIDE DEF row, worker
  <2>7. TypeOK'
    BY <2>1, <2>2, <2>3, <2>4 DEF ControlInv, TypeOK
  <2>8. workers'[w] = worker /\ \A v \in Workers : v # w => workers'[v] = workers[v]
    BY <2>2 DEF ControlInv, TypeOK
  <2>9. jobs'[j] = row /\ \A k \in Jobs : k # j => jobs'[k] = jobs[k]
    BY <2>1, <2>2 DEF ControlInv, TypeOK
  <2>10. \A v \in Workers : workers[v] \in Worker /\ workers[v].claim \in Nat
    BY DEF ControlInv, TypeOK, Worker
  <2> HIDE DEF j, n, old
  <2>11. ASSUME NEW v \in Workers, v # w PROVE LoadedInv(v)'
    <3>1. At(v, "loaded")' => workers[v].seen.lock # n /\ workers[v].seen.lock <= claims'
      BY <2>2, <2>8, <2>11 DEF ControlInv, TypeOK, LoadedInv, At, n, Worker, JobRow
    <3>2. At(v, "loaded")' /\ workers[v].job = j => jobs'[j] # workers[v].seen
      BY <3>1, <2>5, <2>9
    <3> QED
      BY <2>2, <2>8, <2>9, <2>11, <3>1, <3>2 DEF ControlInv, LoadedInv, At
  <2>12. ASSUME NEW v \in Workers, v # w PROVE WorkingInv(v)'
    <3>1. Working(v) => workers[v].claim < n /\ workers[v].claim \in 1..claims'
      BY <2>2, <2>10 DEF ControlInv, TypeOK, WorkingInv, n
    <3>2. CASE Working(v) /\ workers[v].job = j
      <4>1. workers[v].overdue
        BY <2>1, <3>2 DEF ControlInv, WorkingInv, Owns, j
      <4>2. ~HoldsClaim(v)' /\ ~Owns(v)'
        BY <2>5, <2>8, <2>9, <2>10, <2>12, <3>1, <3>2 DEF HoldsClaim, Owns, n, ControlInv, TypeOK
      <4> QED
        BY <2>2, <2>8, <2>12, <3>1, <3>2, <4>1, <4>2 DEF ControlInv, WorkingInv, Working, At
    <3>3. CASE Working(v) /\ workers[v].job # j
      BY <2>2, <2>8, <2>9, <2>12, <3>1, <3>3
         DEF ControlInv, WorkingInv, Working, At, HoldsClaim, Owns
    <3>4. CASE ~Working(v)
      BY <2>8, <2>12, <3>4 DEF WorkingInv, Working
    <3> QED
      BY <3>2, <3>3, <3>4
  <2>13. LoadedInv(w)' /\ WorkingInv(w)'
    <3>1. Owns(w)' /\ j \notin late'
      BY <2>2, <2>4, <2>5, <2>8, <2>9 DEF Owns, old
    <3> QED
      BY <2>1, <2>2, <2>4, <2>8, <3>1 DEF LoadedInv, WorkingInv, At, old, n, ControlInv, TypeOK
  <2>14. (\A k \in Jobs : JobInv(k))'
    <3>1. ASSUME NEW k \in Jobs, k = j PROVE JobInv(k)'
      <4>1. log[j] \subseteq 1..old
        BY <2>1, <2>6 DEF ControlInv, JobInv
      <4> QED
        BY <2>1, <2>2, <2>5, <2>9, <3>1, <4>1 DEF JobInv, ControlInv, TypeOK, n
    <3>2. ASSUME NEW k \in Jobs, k # j PROVE JobInv(k)'
      BY <2>2, <2>9, <3>2 DEF ControlInv, TypeOK, JobInv, n, JobRow
    <3> QED
      BY <3>1, <3>2
  <2>15. ClaimsAreDistinct'
    <3>1. ASSUME NEW v \in Workers, v # w, Working(v) PROVE workers[v].claim # n
      BY <3>1, <2>10 DEF ControlInv, TypeOK, WorkingInv, n
    <3> QED
      BY <2>4, <2>8, <3>1 DEF ControlInv, ClaimsAreDistinct, Working
  <2> QED
    BY <2>7, <2>11, <2>12, <2>13, <2>14, <2>15 DEF ControlInv
<1> QED
  BY <1>1, <1>2

LEMMA SendEmailKeeps ==
    ASSUME ControlInv, NEW w \in Workers, NEW result \in Results, NEW accepted \in BOOLEAN,
           SendEmail(w, result, accepted)
    PROVE  ControlInv'
<1> DEFINE j == workers[w].job
           worker == [workers[w] EXCEPT !.pc = "answered", !.result = result]
<1>1. At(w, "claimed") /\ j \in Jobs /\ posts[j] \in Nat
  BY DEF SendEmail, ControlInv, TypeOK, WorkingInv, Working, At
<1>2. /\ workers' = [workers EXCEPT ![w] = worker]
      /\ posts' = [posts EXCEPT ![j] = posts[j] + 1]
      /\ UNCHANGED <<jobs, log, waiting, late, claims, faults>>
  BY DEF SendEmail, ControlInv, TypeOK, Worker
<1>3. /\ mailed \subseteq mailed' /\ mailed' \subseteq Jobs
      /\ result = "sent" => j \in mailed'
  BY <1>1 DEF SendEmail, ControlInv, TypeOK
<1>4. /\ worker \in Worker /\ worker.pc = "answered" /\ worker.job = j
      /\ worker.seen = workers[w].seen /\ worker.claim = workers[w].claim
      /\ worker.overdue = workers[w].overdue /\ worker.result = result
  BY DEF ControlInv, TypeOK, Worker, Steps
<1> HIDE DEF worker
<1>5. TypeOK'
  BY <1>1, <1>2, <1>3, <1>4 DEF ControlInv, TypeOK
<1>6. workers'[w] = worker /\ \A v \in Workers : v # w => workers'[v] = workers[v]
  BY <1>2 DEF ControlInv, TypeOK
<1>7. ASSUME NEW v \in Workers, v # w PROVE (LoadedInv(v) /\ WorkingInv(v))'
  BY <1>2, <1>3, <1>6, <1>7
     DEF ControlInv, LoadedInv, WorkingInv, Working, At, HoldsClaim, Owns
<1>8. LoadedInv(w)' /\ WorkingInv(w)'
  BY <1>1, <1>2, <1>3, <1>4, <1>6
     DEF ControlInv, LoadedInv, WorkingInv, Working, At, HoldsClaim, Owns
<1>9. (\A k \in Jobs : JobInv(k))'
  BY <1>2, <1>3 DEF ControlInv, JobInv
<1>10. ClaimsAreDistinct'
  BY <1>1, <1>4, <1>6 DEF ControlInv, ClaimsAreDistinct, Working, At
<1> QED
  BY <1>5, <1>7, <1>8, <1>9, <1>10 DEF ControlInv

(* The worker that writes an outcome is the only one that holds the claim  *)
(* of its job, and its number is new to the log.                           *)
LEMMA FinalizeJobKeeps ==
    ASSUME ControlInv, NEW w \in Workers, NEW logged \in BOOLEAN, FinalizeJob(w, logged)
    PROVE  ControlInv'
<1>1. Freed(w) \in Worker /\ Freed(w).pc \in {"idle", "batch"}
  BY FreedIsIdle DEF ControlInv
<1>2. workers' = [workers EXCEPT ![w] = Freed(w)] /\ UNCHANGED <<claims, posts, mailed, faults>>
  BY DEF FinalizeJob, FreeWorker
<1>3. CASE ~HoldsClaim(w)
  <2>1. UNCHANGED <<jobs, waiting, late, log>>
    BY <1>3 DEF FinalizeJob
  <2> QED
    BY <1>1, <1>2, <2>1, WorkerFreed DEF ControlInv, TypeOK
<1>4. CASE HoldsClaim(w)
  <2> DEFINE j == workers[w].job
             n == workers[w].seen.attempts + 1
             status == Outcome(workers[w].result, n)
             row == [jobs[j] EXCEPT !.status = status, !.lock = 0]
  <2>1. /\ At(w, "answered") /\ j \in Jobs /\ Owns(w)
        /\ n \in 1..MaxAttempts /\ jobs[j] \in JobRow
        /\ workers[w].result \in Results
    BY <1>4, SizesAssumption
       DEF FinalizeJob, ControlInv, TypeOK, WorkingInv, Working, At, Worker, JobRow
  <2>2. status \in {"sent", "retrying", "failed"} /\ (status = "sent" => j \in mailed)
    BY <2>1 DEF Outcome, Results, ControlInv, WorkingInv, Working, At
  <2> HIDE DEF status
  <2>3. /\ row \in JobRow /\ row.status = status /\ row.attempts = n /\ row.lock = 0
        /\ jobs[j].attempts = n /\ jobs[j].status = "processing"
        /\ jobs[j].lock = workers[w].claim
    BY <2>1, <2>2 DEF JobRow, JobStatuses, Owns
  <2>4. /\ jobs' = [jobs EXCEPT ![j] = row]
        /\ late' = late \ {j}
        /\ log' = IF logged THEN [log EXCEPT ![j] = log[j] \cup {n}] ELSE log
    BY <1>4, <2>1 DEF FinalizeJob, ControlInv, TypeOK, status
  <2>5. waiting' \subseteq Jobs
    BY <1>4, <2>1 DEF FinalizeJob, ControlInv, TypeOK
  <2> HIDE DEF row
  <2>6. log' \in [Jobs -> SUBSET (1..MaxAttempts)]
    BY <2>1, <2>4 DEF ControlInv, TypeOK
  <2>7. TypeOK'
    BY <1>1, <1>2, <2>1, <2>3, <2>4, <2>5, <2>6 DEF ControlInv, TypeOK
  <2>8. workers'[w] = Freed(w) /\ \A v \in Workers : v # w => workers'[v] = workers[v]
    BY <1>2 DEF ControlInv, TypeOK
  <2>9. jobs'[j] = row /\ \A k \in Jobs : k # j => jobs'[k] = jobs[k]
    BY <2>1, <2>4 DEF ControlInv, TypeOK
  <2>10. log'[j] \subseteq log[j] \cup {n} /\ \A k \in Jobs : k # j => log'[k] = log[k]
    BY <2>1, <2>4 DEF ControlInv, TypeOK
  <2> HIDE DEF j, n
  <2>11. ASSUME NEW v \in Workers, v # w PROVE LoadedInv(v)'
    <3>1. At(v, "loaded") /\ workers[v].job = j /\ jobs'[j] = workers[v].seen
            => workers[v].seen.status # "processing"
      BY <2>2, <2>3, <2>9
    <3> QED
      BY <1>2, <2>4, <2>8, <2>9, <2>11, <3>1 DEF ControlInv, LoadedInv, At
  <2>12. ASSUME NEW v \in Workers, v # w PROVE WorkingInv(v)'
    <3>1. CASE Working(v) /\ workers[v].job = j
      <4>1. workers[v].claim # workers[w].claim
        BY <2>1, <2>12, <3>1 DEF ControlInv, ClaimsAreDistinct, Working, At
      <4>2. workers[v].overdue
        BY <2>3, <3>1, <4>1 DEF ControlInv, WorkingInv, Owns
      <4>3. ~HoldsClaim(v)' /\ ~Owns(v)'
        BY <2>2, <2>3, <2>8, <2>9, <2>12, <3>1 DEF HoldsClaim, Owns
      <4> QED
        BY <1>2, <2>8, <2>12, <3>1, <4>2, <4>3 DEF ControlInv, WorkingInv, Working, At
    <3>2. CASE Working(v) /\ workers[v].job # j
      BY <1>2, <2>4, <2>8, <2>9, <2>12, <3>2
         DEF ControlInv, WorkingInv, Working, At, HoldsClaim, Owns
    <3>3. CASE ~Working(v)
      BY <2>8, <2>12, <3>3 DEF WorkingInv, Working
    <3> QED
      BY <3>1, <3>2, <3>3
  <2>13. LoadedInv(w)' /\ WorkingInv(w)'
    BY <1>1, <2>8 DEF LoadedInv, WorkingInv, Working, At
  <2>14. (\A k \in Jobs : JobInv(k))'
    <3>1. ASSUME NEW k \in Jobs, k = j PROVE JobInv(k)'
      BY <1>2, <2>1, <2>2, <2>3, <2>9, <2>10, <3>1 DEF ControlInv, TypeOK, JobInv
    <3>2. ASSUME NEW k \in Jobs, k # j PROVE JobInv(k)'
      BY <1>2, <2>9, <2>10, <3>2 DEF ControlInv, JobInv
    <3> QED
      BY <3>1, <3>2
  <2>15. ClaimsAreDistinct'
    BY <1>1, <2>8 DEF ControlInv, ClaimsAreDistinct, Working
  <2> QED
    BY <2>7, <2>11, <2>12, <2>13, <2>14, <2>15 DEF ControlInv
<1> QED
  BY <1>3, <1>4

-----------------------------------------------------------------------------
(* Every action keeps PostsBacked.                                         *)

LEMMA SendersFinite ==
    ASSUME NEW j
    PROVE  IsFiniteSet(Senders(j)) /\ Cardinality(Senders(j)) \in Nat
<1>1. Senders(j) \subseteq Workers
  BY DEF Senders
<1>2. IsFiniteSet(Senders(j))
  BY <1>1, WorkersAssumption, FS_Subset
<1> QED
  BY <1>2, FS_CardinalityType

(* A step that posts no mail and claims no job. *)
LEMMA NoNewSender ==
    ASSUME ControlInv, PostsBacked, UNCHANGED posts,
           \A j \in Jobs : jobs'[j].attempts = jobs[j].attempts,
           \A w \in Workers : At(w, "claimed")' =>
               At(w, "claimed") /\ workers'[w].job = workers[w].job
    PROVE  PostsBacked'
<1> SUFFICES ASSUME NEW j \in Jobs
             PROVE  posts'[j] + Cardinality(Senders(j)') <= jobs'[j].attempts
  BY DEF PostsBacked, Senders
<1>1. Senders(j)' \subseteq Senders(j)
  BY DEF Senders
<1>2. Cardinality(Senders(j)') <= Cardinality(Senders(j)) /\ Cardinality(Senders(j)') \in Nat
  BY <1>1, SendersFinite, FS_Subset, FS_CardinalityType
<1>3. posts[j] \in Nat /\ jobs[j].attempts \in Nat /\ Cardinality(Senders(j)) \in Nat
  BY SendersFinite DEF ControlInv, TypeOK, JobRow
<1>4. posts[j] + Cardinality(Senders(j)) <= jobs[j].attempts
  BY DEF PostsBacked
<1> QED
  BY <1>2, <1>3, <1>4

(* A claim adds a sender and an attempt. *)
LEMMA ClaimJobBacked ==
    ASSUME ControlInv, PostsBacked, NEW w \in Workers, ClaimJob(w), Unchanged(w)
    PROVE  PostsBacked'
<1> DEFINE old == workers[w].seen.attempts
<1>1. /\ At(w, "loaded") /\ workers[w].job \in Jobs
      /\ jobs[workers[w].job] = workers[w].seen /\ old \in Nat
  BY DEF ClaimJob, Unchanged, ControlInv, TypeOK, LoadedInv, Worker, JobRow
<1>2. /\ UNCHANGED posts
      /\ jobs' = [jobs EXCEPT ![workers[w].job] =
                    [status |-> "processing", attempts |-> old + 1, lock |-> claims + 1]]
      /\ workers' = [workers EXCEPT ![w] =
                       [workers[w] EXCEPT !.pc = "claimed", !.claim = claims + 1]]
  BY DEF ClaimJob, ControlInv, TypeOK, Worker
<1>3. /\ workers'[w].pc = "claimed" /\ workers'[w].job = workers[w].job
      /\ \A v \in Workers : v # w => workers'[v] = workers[v]
  BY <1>2 DEF ControlInv, TypeOK, Worker
<1> SUFFICES ASSUME NEW j \in Jobs
             PROVE  posts'[j] + Cardinality(Senders(j)') <= jobs'[j].attempts
  BY DEF PostsBacked, Senders
<1>4. /\ posts[j] \in Nat /\ jobs[j].attempts \in Nat
      /\ posts[j] + Cardinality(Senders(j)) <= jobs[j].attempts
      /\ IsFiniteSet(Senders(j)) /\ Cardinality(Senders(j)) \in Nat
  BY SendersFinite DEF ControlInv, TypeOK, JobRow, PostsBacked
<1>5. CASE j = workers[w].job
  <2>1. w \notin Senders(j) /\ Senders(j)' = Senders(j) \cup {w}
    BY <1>1, <1>3, <1>5 DEF Senders, At
  <2>2. Cardinality(Senders(j)') = Cardinality(Senders(j)) + 1
    BY <1>4, <2>1, FS_AddElement
  <2>3. jobs'[j].attempts = jobs[j].attempts + 1
    BY <1>1, <1>2, <1>5 DEF ControlInv, TypeOK
  <2> QED
    BY <1>2, <1>4, <2>2, <2>3
<1>6. CASE j # workers[w].job
  <2>1. Senders(j)' = Senders(j)
    BY <1>1, <1>3, <1>6 DEF Senders, At
  <2>2. jobs'[j] = jobs[j]
    BY <1>2, <1>6 DEF ControlInv, TypeOK
  <2> QED
    BY <1>2, <1>4, <2>1, <2>2
<1> QED
  BY <1>5, <1>6

(* A sender posts its mail and is a sender no more. *)
LEMMA SendEmailBacked ==
    ASSUME ControlInv, PostsBacked, NEW w \in Workers,
           NEW result \in Results, NEW accepted \in BOOLEAN, SendEmail(w, result, accepted)
    PROVE  PostsBacked'
<1>1. At(w, "claimed") /\ workers[w].job \in Jobs
  BY DEF SendEmail, ControlInv, WorkingInv, Working, At
<1>2. /\ UNCHANGED jobs
      /\ posts' = [posts EXCEPT ![workers[w].job] = posts[workers[w].job] + 1]
      /\ workers' = [workers EXCEPT ![w] =
                       [workers[w] EXCEPT !.pc = "answered", !.result = result]]
  BY DEF SendEmail, ControlInv, TypeOK, Worker
<1>3. workers'[w].pc = "answered" /\ \A v \in Workers : v # w => workers'[v] = workers[v]
  BY <1>2 DEF ControlInv, TypeOK, Worker
<1> SUFFICES ASSUME NEW j \in Jobs
             PROVE  posts'[j] + Cardinality(Senders(j)') <= jobs'[j].attempts
  BY DEF PostsBacked, Senders
<1>4. /\ posts[j] \in Nat /\ jobs[j].attempts \in Nat
      /\ posts[j] + Cardinality(Senders(j)) <= jobs[j].attempts
      /\ IsFiniteSet(Senders(j)) /\ Cardinality(Senders(j)) \in Nat
  BY SendersFinite DEF ControlInv, TypeOK, JobRow, PostsBacked
<1>5. CASE j = workers[w].job
  <2>1. w \in Senders(j) /\ Senders(j)' = Senders(j) \ {w}
    BY <1>1, <1>3, <1>5 DEF Senders, At
  <2>2. Cardinality(Senders(j)') = Cardinality(Senders(j)) - 1
    BY <1>4, <2>1, FS_RemoveElement
  <2>3. posts'[j] = posts[j] + 1
    BY <1>2, <1>5 DEF ControlInv, TypeOK
  <2> QED
    BY <1>2, <1>4, <2>2, <2>3
<1>6. CASE j # workers[w].job
  <2>1. Senders(j)' = Senders(j)
    BY <1>1, <1>3, <1>6 DEF Senders, At
  <2>2. posts'[j] = posts[j]
    BY <1>2, <1>6 DEF ControlInv, TypeOK
  <2> QED
    BY <1>2, <1>4, <2>1, <2>2
<1> QED
  BY <1>5, <1>6

(* The other steps make no worker a sender. *)
LEMMA OthersBacked ==
    ASSUME ControlInv, PostsBacked,
           \/ \E j \in Jobs : QueueBusinessEmail(j) \/ CancelJob(j) \/ RetryDue(j) \/ ClaimExpires(j)
           \/ \E w \in Workers :
                 \/ StartBatch(w)
                 \/ \E j \in Jobs : StartRetry(w, j) \/ LoadJob(w, j)
                 \/ ClaimJob(w) /\ ~Unchanged(w)
                 \/ \E logged \in BOOLEAN : FinalizeJob(w, logged)
                 \/ \E dies \in BOOLEAN : Fault(w, dies)
    PROVE  PostsBacked'
<1>1. ASSUME NEW j \in Jobs, QueueBusinessEmail(j) \/ CancelJob(j) \/ RetryDue(j)
      PROVE  PostsBacked'
  <2>1. UNCHANGED <<posts, workers>> /\ \A k \in Jobs : jobs'[k].attempts = jobs[k].attempts
    BY <1>1 DEF QueueBusinessEmail, CancelJob, RetryDue, ControlInv, TypeOK, JobRow
  <2> QED
    BY <2>1, NoNewSender DEF At
<1>2. ASSUME NEW j \in Jobs, ClaimExpires(j) PROVE PostsBacked'
  <2>1. UNCHANGED <<posts, jobs>>
    BY <1>2 DEF ClaimExpires
  <2>2. ASSUME NEW w \in Workers
        PROVE  workers'[w].pc = workers[w].pc /\ workers'[w].job = workers[w].job
    BY <1>2 DEF ClaimExpires, ControlInv, TypeOK, Worker
  <2> QED
    BY <2>1, <2>2, NoNewSender DEF At
<1>3. ASSUME NEW w \in Workers, UNCHANGED posts,
             \A k \in Jobs : jobs'[k].attempts = jobs[k].attempts,
             NEW row, row.pc # "claimed", workers' = [workers EXCEPT ![w] = row]
      PROVE  PostsBacked'
  <2>1. \A v \in Workers : workers'[v] = IF v = w THEN row ELSE workers[v]
    BY <1>3 DEF ControlInv, TypeOK
  <2> QED
    BY <1>3, <2>1, NoNewSender DEF At
<1>4. ASSUME NEW w \in Workers, StartBatch(w) PROVE PostsBacked'
  <2> DEFINE row == [workers[w] EXCEPT !.pc = "batch", !.todo = Selected]
  <2>1. row.pc = "batch" /\ workers' = [workers EXCEPT ![w] = row] /\ UNCHANGED <<posts, jobs>>
    BY <1>4 DEF StartBatch, ControlInv, TypeOK, Worker
  <2> HIDE DEF row
  <2> QED
    BY <1>3, <2>1
<1>5. ASSUME NEW w \in Workers, NEW j \in Jobs, StartRetry(w, j) PROVE PostsBacked'
  <2> DEFINE row == [workers[w] EXCEPT !.pc = "batch", !.todo = {j}]
  <2>1. row.pc = "batch" /\ workers' = [workers EXCEPT ![w] = row] /\ UNCHANGED <<posts, jobs>>
    BY <1>5 DEF StartRetry, ControlInv, TypeOK, Worker
  <2> HIDE DEF row
  <2> QED
    BY <1>3, <2>1
<1>6. ASSUME NEW w \in Workers, NEW j \in Jobs, LoadJob(w, j) PROVE PostsBacked'
  <2> DEFINE rest == [workers[w] EXCEPT !.todo = @ \ {j}]
             row == IF Open(j) /\ j \notin Unreachable
                    THEN [rest EXCEPT !.pc = "loaded", !.job = j, !.seen = jobs[j]]
                    ELSE IF rest.todo = {} THEN Idle ELSE rest
  <2>1. workers' = [workers EXCEPT ![w] = row] /\ UNCHANGED <<posts, jobs>>
    BY <1>6 DEF LoadJob
  <2>2. rest \in Worker /\ rest.pc = "batch"
    BY <1>6 DEF LoadJob, At, ControlInv, TypeOK, Worker
  <2> HIDE DEF rest
  <2>3. row.pc # "claimed"
    BY <2>2, FreedIsIdle DEF ControlInv, Worker
  <2> HIDE DEF row
  <2> QED
    BY <1>3, <2>1, <2>3
<1>7. ASSUME NEW w \in Workers, ClaimJob(w) /\ ~Unchanged(w) PROVE PostsBacked'
  BY <1>3, <1>7, FreedIsIdle DEF ClaimJob, FreeWorker, ControlInv
<1>8. ASSUME NEW w \in Workers, NEW logged \in BOOLEAN, FinalizeJob(w, logged)
      PROVE  PostsBacked'
  <2>1. workers' = [workers EXCEPT ![w] = Freed(w)] /\ UNCHANGED posts
    BY <1>8 DEF FinalizeJob, FreeWorker
  <2>2. \A k \in Jobs : jobs'[k].attempts = jobs[k].attempts
    BY <1>8 DEF FinalizeJob, ControlInv, TypeOK, JobRow
  <2>3. Freed(w).pc # "claimed"
    BY FreedIsIdle DEF ControlInv
  <2> QED
    BY <1>3, <2>1, <2>2, <2>3
<1>9. ASSUME NEW w \in Workers, NEW dies \in BOOLEAN, Fault(w, dies) PROVE PostsBacked'
  <2> DEFINE row == IF dies THEN Idle ELSE Freed(w)
  <2>1. workers' = [workers EXCEPT ![w] = row] /\ UNCHANGED <<posts, jobs>>
    BY <1>9 DEF Fault
  <2>2. row.pc # "claimed"
    BY FreedIsIdle DEF ControlInv
  <2> HIDE DEF row
  <2> QED
    BY <1>3, <2>1, <2>2
<1> QED
  BY <1>1, <1>2, <1>4, <1>5, <1>6, <1>7, <1>8, <1>9

-----------------------------------------------------------------------------
(* The theorems.                                                           *)

LEMMA InitIInv == ASSUME Init PROVE IInv
<1>1. ControlInv
  BY SizesAssumption
     DEF Init, ControlInv, TypeOK, LoadedInv, WorkingInv, JobInv, ClaimsAreDistinct,
         Idle, NoRow, Worker, JobRow, JobStatuses, Results, Steps, Working, At, NoJob
<1>2. \A j \in Jobs : Senders(j) = {}
  BY DEF Init, Senders, At, Idle
<1>3. PostsBacked
  BY <1>2, FS_EmptySet DEF Init, PostsBacked, NoRow
<1> QED
  BY <1>1, <1>3 DEF IInv

LEMMA NextKeepsIInv == ASSUME IInv, [Next]_vars PROVE IInv'
<1> USE DEF IInv
<1>1. CASE Next
  <2>1. ControlInv'
    BY <1>1, QueueKeeps, CancelKeeps, RetryDueKeeps, ClaimExpiresKeeps, StartBatchKeeps,
       StartRetryKeeps, LoadJobKeeps, ClaimJobKeeps, SendEmailKeeps, FinalizeJobKeeps,
       FaultKeeps DEF Next, Process
  <2>2. PostsBacked'
    BY <1>1, OthersBacked, ClaimJobBacked, SendEmailBacked DEF Next, Process
  <2> QED
    BY <2>1, <2>2
<1>2. CASE UNCHANGED vars
  BY <1>2 DEF vars, ControlInv, PostsBacked, Senders, TypeOK, LoadedInv, WorkingInv, JobInv,
              ClaimsAreDistinct, Working, At, HoldsClaim, Owns
<1> QED
  BY <1>1, <1>2

(* IInv is inductive. *)
THEOREM EmailInvariant == Spec => []IInv
<1>1. Init => IInv
  BY InitIInv
<1>2. IInv /\ [Next]_vars => IInv'
  BY NextKeepsIInv
<1> QED
  BY <1>1, <1>2, PTL DEF Spec

(* Type correctness of the job table, the workers and the log. *)
THEOREM TypeCorrect == Spec => []TypeOK
<1>1. IInv => TypeOK
  BY DEF IInv, ControlInv
<1> QED
  BY <1>1, EmailInvariant, PTL

(* Nobody takes a job from a worker whose claim is younger than the lease. *)
THEOREM ClaimRespected == Spec => []ClaimIsRespected
<1>1. IInv => ClaimIsRespected
  BY DEF IInv, ControlInv, WorkingInv, ClaimIsRespected
<1> QED
  BY <1>1, EmailInvariant, PTL

(* No schedule makes the provider receive a job more than max_attempts     *)
(* times.                                                                  *)
THEOREM WithinLimit == Spec => []AttemptsWithinLimit
<1>1. IInv => AttemptsWithinLimit
  <2> SUFFICES ASSUME IInv, NEW j \in Jobs PROVE posts[j] <= MaxAttempts
    BY DEF AttemptsWithinLimit
  <2>1. posts[j] \in Nat /\ jobs[j].attempts \in 0..MaxAttempts
    BY DEF IInv, ControlInv, TypeOK, JobRow
  <2>2. Cardinality(Senders(j)) \in Nat /\ posts[j] + Cardinality(Senders(j)) <= jobs[j].attempts
    BY SendersFinite DEF IInv, PostsBacked
  <2> QED
    BY <2>1, <2>2, SizesAssumption
<1> QED
  BY <1>1, EmailInvariant, PTL

(* The row an attempt inserts is never refused as a duplicate. *)
THEOREM LogIsFree == Spec => []AttemptLogIsFree
<1>1. IInv => AttemptLogIsFree
  BY DEF IInv, ControlInv, WorkingInv, JobInv, AttemptLogIsFree, Owns, Working, At
<1> QED
  BY <1>1, EmailInvariant, PTL

(* A sent or cancelled job never changes again, and no job is recorded as  *)
(* sent whose mail the provider did not accept.                            *)
THEOREM Settled == Spec => SettledIsFinal
<1> DEFINE Step == \A j \in Jobs :
               /\ jobs[j].status \in {"sent", "cancelled"} => jobs'[j] = jobs[j]
               /\ jobs'[j].status = "sent" => j \in mailed
<1>1. ASSUME IInv, Next, NEW j \in Jobs, jobs[j].status \in {"sent", "cancelled"}
      PROVE  jobs'[j] = jobs[j]
  <2>1. ASSUME NEW w \in Workers, ClaimJob(w) PROVE jobs'[j] = jobs[j]
    BY <1>1, <2>1 DEF ClaimJob, Unchanged, IInv, ControlInv, TypeOK, LoadedInv
  <2>2. ASSUME NEW w \in Workers, NEW logged \in BOOLEAN, FinalizeJob(w, logged)
        PROVE  jobs'[j] = jobs[j]
    BY <1>1, <2>2 DEF FinalizeJob, HoldsClaim, IInv, ControlInv, TypeOK
  <2>3. ASSUME NEW k \in Jobs, QueueBusinessEmail(k) \/ CancelJob(k)
        PROVE  jobs'[j] = jobs[j]
    BY <1>1, <2>3 DEF QueueBusinessEmail, CancelJob, IInv, ControlInv, TypeOK
  <2>4. ASSUME UNCHANGED jobs PROVE jobs'[j] = jobs[j]
    BY <2>4
  <2> QED
    BY <1>1, <2>1, <2>2, <2>3, <2>4
       DEF Next, Process, RetryDue, ClaimExpires, StartBatch, StartRetry, LoadJob, SendEmail, Fault
<1>2. ASSUME IInv, Next, NEW j \in Jobs, jobs'[j].status = "sent" PROVE j \in mailed
  <2>1. CASE jobs[j].status = "sent"
    BY <1>2, <2>1 DEF IInv, ControlInv, JobInv
  <2>2. CASE jobs[j].status # "sent"
    <3>1. ASSUME NEW w \in Workers, ClaimJob(w) PROVE jobs'[j].status # "sent"
      BY <1>2, <2>2, <3>1 DEF ClaimJob, IInv, ControlInv, TypeOK
    <3>2. ASSUME NEW w \in Workers, NEW logged \in BOOLEAN, FinalizeJob(w, logged)
          PROVE  j \in mailed
      <4>1. At(w, "answered") /\ HoldsClaim(w) /\ j = workers[w].job
        BY <1>2, <2>2, <3>2 DEF FinalizeJob, IInv, ControlInv, TypeOK
      <4>2. Outcome(workers[w].result, workers[w].seen.attempts + 1) = "sent"
        BY <1>2, <3>2, <4>1 DEF FinalizeJob, IInv, ControlInv, TypeOK, JobRow
      <4>3. workers[w].result = "sent"
        BY <4>2 DEF Outcome
      <4> QED
        BY <1>2, <4>1, <4>3 DEF IInv, ControlInv, WorkingInv, Working, At
    <3>3. ASSUME NEW k \in Jobs, QueueBusinessEmail(k) \/ CancelJob(k)
          PROVE  jobs'[j].status # "sent"
      BY <1>2, <2>2, <3>3 DEF QueueBusinessEmail, CancelJob, IInv, ControlInv, TypeOK, JobRow
    <3>4. ASSUME UNCHANGED jobs PROVE jobs'[j].status # "sent"
      BY <2>2, <3>4
    <3> QED
      BY <1>2, <3>1, <3>2, <3>3, <3>4
         DEF Next, Process, RetryDue, ClaimExpires, StartBatch, StartRetry, LoadJob, SendEmail, Fault
  <2> QED
    BY <2>1, <2>2
<1>3. IInv /\ [Next]_vars => [Step]_vars
  BY <1>1, <1>2 DEF vars
<1> QED
  BY <1>3, EmailInvariant, PTL DEF Spec, SettledIsFinal
=============================================================================
