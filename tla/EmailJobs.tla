----------------------------- MODULE EmailJobs ------------------------------
(***************************************************************************)
(* The business email queue: email_delivery_jobs, the workers that run     *)
(* processDueEmailDeliveryJobs or an administrator's retry, and the mail   *)
(* provider.                                                               *)
(*                                                                         *)
(* A worker loads a row, claims it by an update that compares the row with *)
(* what was loaded, posts the mail, and writes the outcome if it still     *)
(* holds the claim; other workers, cancellations and the clock run in      *)
(* between, and a worker may die or lose the answer of a call anywhere.    *)
(*                                                                         *)
(* locked_at is the number of the claim that wrote it, 0 for null.         *)
(* updated_at, which a trigger sets on every write, is not kept: attempts  *)
(* grows with every claim, so that two writes of a row that agree on       *)
(* status, attempts and locked_at are the same.  The clock appears as the  *)
(* retries that are not due (waiting) and the claims older than fifteen    *)
(* minutes (late).                                                         *)
(***************************************************************************)
EXTENDS Integers, FiniteSets

CONSTANTS
    NumJobs,        \* the jobs 1..NumJobs, in the order of created_at
    Workers,        \* the calls that process jobs at one time
    MaxAttempts,    \* max_attempts of every job
    Limit,          \* the most jobs one batch selects
    Unreachable,    \* jobs whose recipient has no address, or a new one
    MaxFaults       \* bound on dying workers and lost answers

ASSUME SizesAssumption ==
    NumJobs \in Nat /\ MaxAttempts \in Nat \ {0} /\ Limit \in Nat \ {0} /\ MaxFaults \in Nat

Jobs == 1..NumJobs
NoJob == 0

ASSUME WorkersAssumption == IsFiniteSet(Workers)

ASSUME UnreachableAssumption == Unreachable \subseteq Jobs

VARIABLES
    jobs,           \* email_delivery_jobs
    log,            \* attempt_no of a job's rows in email_delivery_attempts
    waiting,        \* jobs whose next_retry_at lies in the future
    late,           \* jobs claimed more than EMAIL_PROCESSING_STALE_MS ago
    claims,         \* how many claims succeeded so far
    workers,        \* what every worker is doing
    posts,          \* requests the provider received for a job
    mailed,         \* jobs whose mail the provider accepted
    faults

vars == <<jobs, log, waiting, late, claims, workers, posts, mailed, faults>>

JobStatuses == {"none", "pending", "processing", "retrying", "sent", "failed", "cancelled"}
Results == {"sent", "temporary", "refused"}
Steps == {"idle", "batch", "loaded", "claimed", "answered"}

JobRow == [status : JobStatuses, attempts : 0..MaxAttempts, lock : Nat]

(* todo is what is left of a batch; seen the row loaded for job; claim and *)
(* overdue the worker's claim and whether it is older than the lease.      *)
Worker == [pc : Steps, todo : SUBSET Jobs, job : Jobs \cup {NoJob}, seen : JobRow,
           claim : Nat, overdue : BOOLEAN, result : Results]

TypeOK ==
    /\ jobs \in [Jobs -> JobRow]
    /\ log \in [Jobs -> SUBSET (1..MaxAttempts)]
    /\ waiting \subseteq Jobs
    /\ late \subseteq Jobs
    /\ claims \in Nat
    /\ workers \in [Workers -> Worker]
    /\ posts \in [Jobs -> Nat]
    /\ mailed \subseteq Jobs
    /\ faults \in 0..MaxFaults

NoRow == [status |-> "none", attempts |-> 0, lock |-> 0]
Idle == [pc |-> "idle", todo |-> {}, job |-> NoJob, seen |-> NoRow,
         claim |-> 0, overdue |-> FALSE, result |-> "refused"]

Init ==
    /\ jobs = [j \in Jobs |-> NoRow]
    /\ log = [j \in Jobs |-> {}]
    /\ waiting = {}
    /\ late = {}
    /\ claims = 0
    /\ workers = [w \in Workers |-> Idle]
    /\ posts = [j \in Jobs |-> 0]
    /\ mailed = {}
    /\ faults = 0

At(w, step) == workers[w].pc = step

(* The worker after it has finished with its job: the rest of its batch,   *)
(* or nothing.                                                             *)
Freed(w) ==
    IF workers[w].todo = {} THEN Idle
    ELSE [Idle EXCEPT !.pc = "batch", !.todo = workers[w].todo]
FreeWorker(w) == workers' = [workers EXCEPT ![w] = Freed(w)]

-----------------------------------------------------------------------------
(* Queueing and selecting.                                                 *)

(* queueBusinessEmail: idempotency_key is unique, so a repeated event      *)
(* finds the job it made before and changes nothing.                       *)
QueueBusinessEmail(j) ==
    /\ jobs[j].status = "none"
    /\ \A k \in Jobs : k < j => jobs[k].status # "none"
    /\ jobs' = [jobs EXCEPT ![j].status = "pending"]
    /\ UNCHANGED <<log, waiting, late, claims, workers, posts, mailed, faults>>

DueJobs == {j \in Jobs : jobs[j].status \in {"pending", "retrying"} /\ j \notin waiting}
StaleJobs == {j \in late : jobs[j].status = "processing"}

OldestDue == {j \in DueJobs : Cardinality({k \in DueJobs : k < j}) < Limit}

(* Variant: stale jobs are not selected. *)
SelectedDue == OldestDue

(* The oldest due jobs, and the oldest stale claims if there is room left. *)
Selected ==
    OldestDue \cup
    {j \in StaleJobs :
        Cardinality({k \in StaleJobs : jobs[k].lock < jobs[j].lock})
          < Limit - Cardinality(OldestDue)}

(* processDueEmailDeliveryJobs: the batch is worked in any order here.     *)
StartBatch(w) ==
    /\ At(w, "idle")
    /\ Selected # {}
    /\ workers' = [workers EXCEPT ![w].pc = "batch", ![w].todo = Selected]
    /\ UNCHANGED <<jobs, log, waiting, late, claims, posts, mailed, faults>>

(* An administrator's retry, which looks neither at next_retry_at nor at   *)
(* the batch limit.                                                        *)
StartRetry(w, j) ==
    /\ At(w, "idle")
    /\ jobs[j].status \notin {"none", "sent", "cancelled"}
    /\ workers' = [workers EXCEPT ![w].pc = "batch", ![w].todo = {j}]
    /\ UNCHANGED <<jobs, log, waiting, late, claims, posts, mailed, faults>>

-----------------------------------------------------------------------------
(* processEmailDeliveryJobRuntime.                                         *)

(* Variant: attempts are not counted. *)
OpenPastLimit(j) ==
    /\ jobs[j].status \notin {"none", "sent", "cancelled"}
    /\ jobs[j].status = "processing" => j \in late

(* The checks after loading a row. *)
Open(j) ==
    /\ jobs[j].status \notin {"none", "sent", "cancelled"}
    /\ jobs[j].attempts < MaxAttempts
    /\ jobs[j].status = "processing" => j \in late

LoadJob(w, j) ==
    /\ At(w, "batch")
    /\ j \in workers[w].todo
    /\ LET rest == [workers[w] EXCEPT !.todo = @ \ {j}] IN
       workers' = [workers EXCEPT ![w] =
           IF Open(j) /\ j \notin Unreachable
           THEN [rest EXCEPT !.pc = "loaded", !.job = j, !.seen = jobs[j]]
           ELSE IF rest.todo = {} THEN Idle ELSE rest]
    /\ UNCHANGED <<jobs, log, waiting, late, claims, posts, mailed, faults>>

(* Variant: the claim is an update by id. *)
UnchangedOrNot(w) == TRUE
(* Variant: the claim compares the status only. *)
UnchangedStatus(w) == jobs[workers[w].job].status = workers[w].seen.status

(* The comparison of the claim: status, updated_at and locked_at. *)
Unchanged(w) == jobs[workers[w].job] = workers[w].seen

ClaimJob(w) ==
    LET j == workers[w].job
        n == claims + 1 IN
    /\ At(w, "loaded")
    /\ IF Unchanged(w)
       THEN /\ jobs' = [jobs EXCEPT ![j] = [status |-> "processing",
                                            attempts |-> workers[w].seen.attempts + 1,
                                            lock |-> n]]
            /\ claims' = n
            /\ late' = late \ {j}
            /\ workers' = [workers EXCEPT ![w].pc = "claimed", ![w].claim = n]
       ELSE /\ FreeWorker(w)
            /\ UNCHANGED <<jobs, claims, late>>
    /\ UNCHANGED <<log, waiting, posts, mailed, faults>>

(* sendEmail: the provider may have accepted a mail whose answer is lost,  *)
(* late or unreadable.                                                     *)
SendEmail(w, result, accepted) ==
    LET j == workers[w].job IN
    /\ At(w, "claimed")
    /\ result = "sent" => accepted
    /\ result = "refused" => ~accepted
    /\ posts' = [posts EXCEPT ![j] = @ + 1]
    /\ mailed' = IF accepted THEN mailed \cup {j} ELSE mailed
    /\ workers' = [workers EXCEPT ![w].pc = "answered", ![w].result = result]
    /\ UNCHANGED <<jobs, log, waiting, late, claims, faults>>

(* decideEmailDeliveryOutcome, for attempt number n. *)
Outcome(result, n) ==
    IF result = "sent" THEN "sent"
    ELSE IF result = "temporary" /\ n < MaxAttempts THEN "retrying"
    ELSE "failed"

(* Variant: the outcome of an expired claim is written too. *)
HoldsAnyClaim(w) == jobs[workers[w].job].status = "processing"

HoldsClaim(w) ==
    /\ jobs[workers[w].job].status = "processing"
    /\ jobs[workers[w].job].lock = workers[w].claim

(* finalizeJob, and recordAttempt, whose failure changes nothing else. *)
FinalizeJob(w, logged) ==
    LET j == workers[w].job
        n == workers[w].seen.attempts + 1
        status == Outcome(workers[w].result, n) IN
    /\ At(w, "answered")
    /\ IF HoldsClaim(w)
       THEN /\ jobs' = [jobs EXCEPT ![j].status = status, ![j].lock = 0]
            /\ waiting' = IF status = "retrying" THEN waiting \cup {j} ELSE waiting \ {j}
            /\ late' = late \ {j}
            /\ log' = IF logged THEN [log EXCEPT ![j] = @ \cup {n}] ELSE log
       ELSE UNCHANGED <<jobs, waiting, late, log>>
    /\ FreeWorker(w)
    /\ UNCHANGED <<claims, posts, mailed, faults>>

-----------------------------------------------------------------------------
(* The rest of the world.                                                  *)

(* An administrator's cancellation. *)
CancelJob(j) ==
    /\ jobs[j].status \in {"pending", "retrying", "failed"}
    /\ jobs' = [jobs EXCEPT ![j].status = "cancelled", ![j].lock = 0]
    /\ waiting' = waiting \ {j}
    /\ UNCHANGED <<log, late, claims, workers, posts, mailed, faults>>

RetryDue(j) ==
    /\ j \in waiting
    /\ waiting' = waiting \ {j}
    /\ UNCHANGED <<jobs, log, late, claims, workers, posts, mailed, faults>>

ClaimExpires(j) ==
    /\ jobs[j].status = "processing"
    /\ j \notin late
    /\ late' = late \cup {j}
    /\ workers' = [w \in Workers |->
           IF workers[w].pc \in {"claimed", "answered"} /\ workers[w].job = j
                /\ workers[w].claim = jobs[j].lock
           THEN [workers[w] EXCEPT !.overdue = TRUE] ELSE workers[w]]
    /\ UNCHANGED <<jobs, log, waiting, claims, posts, mailed, faults>>

(* A call fails, and the batch goes on with the next job; or the process   *)
(* dies.                                                                   *)
Fault(w, dies) ==
    /\ faults < MaxFaults
    /\ ~At(w, "idle")
    /\ dies \/ ~At(w, "batch")
    /\ faults' = faults + 1
    /\ workers' = [workers EXCEPT ![w] = IF dies THEN Idle ELSE Freed(w)]
    /\ UNCHANGED <<jobs, log, waiting, late, claims, posts, mailed>>

Process(w) ==
    \/ \E j \in Jobs : LoadJob(w, j)
    \/ ClaimJob(w)
    \/ \E result \in Results, accepted \in BOOLEAN : SendEmail(w, result, accepted)
    \/ \E logged \in BOOLEAN : FinalizeJob(w, logged)

Next ==
    \/ \E j \in Jobs : QueueBusinessEmail(j) \/ CancelJob(j) \/ RetryDue(j) \/ ClaimExpires(j)
    \/ \E w \in Workers :
         \/ StartBatch(w)
         \/ \E j \in Jobs : StartRetry(w, j)
         \/ Process(w)
         \/ \E dies \in BOOLEAN : Fault(w, dies)

Spec == Init /\ [][Next]_vars

(* A worker that does not die goes on, time passes, and the scheduled      *)
(* batch runs again and again: a retry that an administrator starts takes  *)
(* no worker away from it, hence strong fairness.                          *)
FairSpec ==
    /\ Spec
    /\ \A w \in Workers : WF_vars(Process(w)) /\ SF_vars(StartBatch(w))
    /\ \A j \in Jobs : WF_vars(RetryDue(j)) /\ WF_vars(ClaimExpires(j))

-----------------------------------------------------------------------------
(* Properties.                                                             *)

Working(w) == workers[w].pc \in {"claimed", "answered"}

(* The row of the worker's job is the one its claim wrote. *)
Owns(w) ==
    LET row == jobs[workers[w].job] IN
    /\ row.status = "processing"
    /\ row.lock = workers[w].claim
    /\ row.attempts = workers[w].seen.attempts + 1

(* A claim younger than fifteen minutes is respected: while its worker     *)
(* sends the mail or waits to write the outcome, no other worker takes the *)
(* job, no cancellation and no outcome of an older claim changes its row.  *)
ClaimIsRespected ==
    \A w \in Workers : Working(w) /\ ~workers[w].overdue => Owns(w)

(* The provider is asked at most max_attempts times for a job, whatever    *)
(* workers race for it, take it over from each other or die.               *)
AttemptsWithinLimit ==
    \A j \in Jobs : posts[j] <= MaxAttempts

(* The unique index on (job_id, attempt_no) never refuses an attempt: the  *)
(* worker that may write the outcome has a number of its own.              *)
AttemptLogIsFree ==
    \A w \in Workers :
        At(w, "answered") /\ Owns(w) =>
            workers[w].seen.attempts + 1 \notin log[workers[w].job]

(* A job recorded as sent was accepted by the provider, and stays sent; a  *)
(* cancelled job stays cancelled: no worker that loaded the job earlier    *)
(* revives it.                                                             *)
SettledIsFinal ==
    [][\A j \in Jobs :
         /\ jobs[j].status \in {"sent", "cancelled"} => jobs'[j] = jobs[j]
         /\ jobs'[j].status = "sent" => j \in mailed]_vars

(* A worker died or lost its answer in the last attempt of the job, which  *)
(* is refused ever after: it stays in processing.                          *)
Exhausted(j) == jobs[j].status = "processing" /\ jobs[j].attempts = MaxAttempts

(* Every queued mail is sent, fails for good or is cancelled, though       *)
(* workers die, if fewer jobs than a batch holds keep its places for ever: *)
(* the unreachable ones, and those Exhausted.                              *)
QueuedJobSettles ==
    Cardinality(Unreachable) + MaxFaults <= Limit =>
      \A j \in Jobs \ Unreachable :
        jobs[j].status = "pending" ~>
            jobs[j].status \in {"sent", "failed", "cancelled"} \/ Exhausted(j)
=============================================================================
