------------------------------ MODULE JobWorker ------------------------------
(***************************************************************************)
(* The asynchronous job store and its worker, jobs/store.py, jobs/worker.py *)
(* and jobs/models.py.                                                     *)
(*                                                                         *)
(* A client submits work under an idempotency key, polls the record it got *)
(* and may ask for its cancellation.  A worker's polling loop acknowledges *)
(* cancellations and claims queued jobs, dispatching one executor task per *)
(* claim; the executor sleeps, then decides what becomes of the job.       *)
(*                                                                         *)
(* Everything runs on one event loop, so a step is what happens between    *)
(* two awaits.  The store keeps Python objects: an executor holds the      *)
(* record it read when it started, and writes through the store by job id, *)
(* so `jobs' is the sequence of all the records ever created, and a record *)
(* is in the store's dict when no later one took its id (store.py:25).     *)
(***************************************************************************)
EXTENDS Integers, Sequences, FiniteSets

CONSTANTS
    Keys,          \* idempotency keys
    Workers,       \* AsyncMacroJobWorker objects sharing one store
    MaxAttempts,   \* JobRecord.max_attempts
    MaxJobs        \* bound: how many records callers create

ASSUME MaxAttemptsAssumption == MaxAttempts \in Nat \ {0}
ASSUME MaxJobsAssumption == MaxJobs \in Nat

VARIABLES
    clock,    \* int(time.time() * 1000)
    jobs,     \* every JobRecord ever created, oldest first
    tasks,    \* the live executors
    looping,  \* the workers whose polling loop runs
    lost      \* records whose executor died with its event loop; no code keeps it

vars == <<clock, jobs, tasks, looping, lost>>

Statuses ==
    {"queued", "running", "succeeded", "failed", "cancel_requested", "cancelled"}

(***************************************************************************)
(* A JobRecord.  Its id is the millisecond it was created in; `fails' is   *)
(* payload["force_fail"]; `result' says whether there is a result, and     *)
(* `error' which of the two error texts it carries.                        *)
(***************************************************************************)
JobRecord ==
    [id : Nat, key : Keys, fails : BOOLEAN, status : Statuses, attempts : Nat,
     result : BOOLEAN, error : {"none", "cancelled", "failure"}]

(***************************************************************************)
(* An executor: the record and attempt it was dispatched for, and the      *)
(* record get_job gave it when it started, 0 before that.                  *)
(***************************************************************************)
Task == [claim : Nat \ {0}, attempt : Nat, ref : Nat]

-----------------------------------------------------------------------------
(* The store.                                                              *)

Stored == {o \in DOMAIN jobs : \A p \in DOMAIN jobs : p > o => jobs[p].id # jobs[o].id}

(* The record an id leads to. *)
GetJob(i) == CHOOSE o \in Stored : jobs[o].id = i

(* A dict iterates in insertion order, which is the order of the ids. *)
First(S) == CHOOSE o \in S : \A p \in S : o <= p

WithStatus(s) == {o \in Stored : jobs[o].status = s}

(* Faulty variant: a key is free again once its job has ended. *)
KnownUnfinished(k) ==
    {o \in Stored : /\ jobs[o].key = k
                    /\ jobs[o].status \notin {"succeeded", "failed", "cancelled"}}

Known(k) == {o \in Stored : jobs[o].key = k}

(* The writes of update_job_status: a missing result or error is left alone. *)
CancelRequestedFrom(j) == [j EXCEPT !.status = "cancel_requested"]

(* Faulty variant: the other spelling of the status. *)
CanceledFrom(j) == [j EXCEPT !.status = "canceled", !.error = "cancelled"]

CancelledFrom(j) == [j EXCEPT !.status = "cancelled", !.error = "cancelled"]

ClaimedFrom(j) == [j EXCEPT !.status = "running", !.attempts = @ + 1]

(* Faulty variant: the result is not stored. *)
SucceededWithoutResult(j) == [j EXCEPT !.status = "succeeded"]

SucceededFrom(j) == [j EXCEPT !.status = "succeeded", !.result = TRUE]

FailedFrom(j) == [j EXCEPT !.status = "failed", !.error = "failure"]

(* Faulty variant: the executor ends without putting the job back. *)
NotRequeued(j) == j

RequeuedFrom(j) == [j EXCEPT !.status = "queued"]

(* Faulty variant: ids from a clock half as fine. *)
CoarseId == clock \div 2

NewId == clock

(* submit_job: an id in use is taken over by the new record. *)
Submit(k, f) ==
    /\ IF Known(k) # {}
         THEN UNCHANGED jobs
         ELSE /\ Len(jobs) < MaxJobs
              /\ jobs' = Append(jobs,
                    [id |-> NewId, key |-> k, fails |-> f, status |-> "queued",
                     attempts |-> 0, result |-> FALSE, error |-> "none"])
    /\ UNCHANGED <<clock, tasks, looping, lost>>

(* update_job_status(id, "cancel_requested"): any client, whatever the status. *)
RequestCancel(o) ==
    /\ o \in Stored
    /\ jobs' = [jobs EXCEPT ![o] = CancelRequestedFrom(@)]
    /\ UNCHANGED <<clock, tasks, looping, lost>>

(* Only milliseconds in which a record was created are told apart: the     *)
(* clock is read for ids alone.                                            *)
Tick == /\ \E o \in DOMAIN jobs : jobs[o].id = clock
        /\ clock' = clock + 1
        /\ UNCHANGED <<jobs, tasks, looping, lost>>

-----------------------------------------------------------------------------
(* The worker.                                                             *)

StartWorker(w) ==
    /\ looping' = looping \cup {w}
    /\ UNCHANGED <<clock, jobs, tasks, lost>>

StopWorker(w) ==
    /\ looping' = looping \ {w}
    /\ UNCHANGED <<clock, jobs, tasks, lost>>

(* Faulty variant: the loop leaves cancellations to the executors. *)
NothingToAcknowledge == {}

ToAcknowledge == WithStatus("cancel_requested")

(* Faulty variants of the claim: jobs already running, jobs that failed for *)
(* good, jobs never attempted whatever was asked since.                    *)
QueuedOrRunning == WithStatus("queued") \cup WithStatus("running")
QueuedOrFailed == WithStatus("queued") \cup WithStatus("failed")
NeverAttempted == WithStatus("queued") \cup {o \in Stored : jobs[o].attempts = 0}

(* Acknowledging a cancellation never queues a job, so the two fetches of  *)
(* one iteration can be taken from the same state.                         *)
ToClaim == WithStatus("queued")

Acknowledge(js) ==
    IF ToAcknowledge = {} THEN js
    ELSE [js EXCEPT ![First(ToAcknowledge)] = CancelledFrom(@)]

(* One turn of _process_loop, up to its sleep. *)
LoopIteration(w) ==
    /\ w \in looping
    /\ IF ToClaim = {}
         THEN /\ jobs' = Acknowledge(jobs)
              /\ UNCHANGED tasks
         ELSE LET o == First(ToClaim) IN
              /\ jobs' = [Acknowledge(jobs) EXCEPT ![o] = ClaimedFrom(@)]
              /\ tasks' = tasks \cup
                    {[claim |-> o, attempt |-> jobs[o].attempts + 1, ref |-> 0]}
    /\ UNCHANGED <<clock, looping, lost>>

-----------------------------------------------------------------------------
(* An executor, _execute_job_core.                                         *)

(* The record its writes go to. *)
Target(t) == GetJob(jobs[t.claim].id)

TaskStart(t) ==
    /\ t.ref = 0
    /\ tasks' = (tasks \ {t}) \cup {[t EXCEPT !.ref = Target(t)]}
    /\ UNCHANGED <<clock, jobs, looping, lost>>

SeesCancellation(t) == jobs[Target(t)].status = "cancel_requested"

(* Faulty variant: one attempt too many. *)
MayRetryOnceMore(t) == jobs[t.ref].attempts <= MaxAttempts

MayRetry(t) == jobs[t.ref].attempts < MaxAttempts

Finish(t, j) ==
    /\ jobs' = [jobs EXCEPT ![Target(t)] = j]
    /\ tasks' = tasks \ {t}
    /\ UNCHANGED <<clock, looping, lost>>

TaskCancelled(t) ==
    /\ t.ref # 0
    /\ SeesCancellation(t)
    /\ Finish(t, CancelledFrom(jobs[Target(t)]))

(* The payload and the attempt count are read from the record it holds. *)
TaskSucceeded(t) ==
    /\ t.ref # 0
    /\ ~SeesCancellation(t)
    /\ ~jobs[t.ref].fails
    /\ Finish(t, SucceededFrom(jobs[Target(t)]))

TaskRequeued(t) ==
    /\ t.ref # 0
    /\ ~SeesCancellation(t)
    /\ jobs[t.ref].fails
    /\ MayRetry(t)
    /\ Finish(t, RequeuedFrom(jobs[Target(t)]))

TaskFailed(t) ==
    /\ t.ref # 0
    /\ ~SeesCancellation(t)
    /\ jobs[t.ref].fails
    /\ ~MayRetry(t)
    /\ Finish(t, FailedFrom(jobs[Target(t)]))

TaskStep(t) ==
    \/ TaskStart(t)
    \/ TaskCancelled(t)
    \/ TaskSucceeded(t)
    \/ TaskRequeued(t)
    \/ TaskFailed(t)

(* asyncio.run ends: the loops and the executors die, the store stays. *)
EventLoopClosed ==
    /\ looping' = {}
    /\ tasks' = {}
    /\ lost' = lost \cup {t.claim : t \in tasks}
    /\ UNCHANGED <<clock, jobs>>

-----------------------------------------------------------------------------
(* Specifications.                                                         *)

Init == /\ clock = 0
        /\ jobs = << >>
        /\ tasks = {}
        /\ looping = {}
        /\ lost = {}

RuntimeStep ==
    \/ Tick
    \/ \E w \in Workers : StartWorker(w) \/ StopWorker(w) \/ LoopIteration(w)
    \/ \E t \in tasks : TaskStep(t)
    \/ EventLoopClosed

(* Clients that may do anything the store lets them do. *)
Next ==
    \/ RuntimeStep
    \/ \E k \in Keys, f \in BOOLEAN : Submit(k, f)
    \/ \E o \in DOMAIN jobs : RequestCancel(o)

(* Clients the store can serve: no two new keys in one millisecond, and no *)
(* cancellation of a job that already ended.                               *)
CarefulSubmit(k, f) ==
    /\ Known(k) = {} => \A o \in DOMAIN jobs : jobs[o].id # clock
    /\ Submit(k, f)

CarefulCancel(o) ==
    /\ jobs[o].status \in {"queued", "running"}
    /\ RequestCancel(o)

CarefulNext ==
    \/ RuntimeStep
    \/ \E k \in Keys, f \in BOOLEAN : CarefulSubmit(k, f)
    \/ \E o \in DOMAIN jobs : CarefulCancel(o)

Spec == Init /\ [][Next]_vars

CarefulSpec == Init /\ [][CarefulNext]_vars

(* A running loop wakes from its sleep again and again, and an executor     *)
(* that exists is resumed: the event loop is fair to its tasks.            *)
Fairness ==
    /\ \A w \in Workers : WF_vars(LoopIteration(w))
    /\ WF_vars(\E t \in tasks : TaskStep(t))

FairSpec == CarefulSpec /\ Fairness

-----------------------------------------------------------------------------
(* Properties.                                                             *)

Live(o) == \E t \in tasks : t.claim = o

(* Every variable has its type, and tasks point to records that exist. *)
TypeOK ==
    /\ clock \in Nat
    /\ jobs \in Seq(JobRecord)
    /\ tasks \subseteq Task
    /\ \A t \in tasks : {t.claim, t.ref} \subseteq DOMAIN jobs \cup {0}
    /\ looping \subseteq Workers
    /\ lost \subseteq DOMAIN jobs

(* An idempotency key leads to one record and to no other, and no record   *)
(* that was handed out has dropped out of the store (submit_job).          *)
IdempotentKeys ==
    /\ \A o, p \in DOMAIN jobs : jobs[o].key = jobs[p].key => o = p
    /\ Stored = DOMAIN jobs

(* A job never runs twice at once.  An executor is only alive for a job    *)
(* that is running or is being cancelled, so nothing can claim it again,   *)
(* and the record it reads is the one it was dispatched for.               *)
SingleExecution ==
    /\ \A t, u \in tasks : t.claim = u.claim => t = u
    /\ \A t \in tasks :
          /\ jobs[t.claim].status \in {"running", "cancel_requested", "cancelled"}
          /\ jobs[t.claim].attempts = t.attempt
          /\ t.ref \in {0, t.claim}

(* A running job has an executor, unless its event loop was closed.        *)
RunningIsOwned ==
    \A o \in DOMAIN jobs : jobs[o].status = "running" => Live(o) \/ o \in lost

(* No job is attempted more often than max_attempts, however its retries   *)
(* and cancellations interleave; only an exhausted job is failed, and a    *)
(* job waiting in the queue still has an attempt left.                     *)
AttemptsBounded ==
    \A o \in DOMAIN jobs :
        /\ jobs[o].attempts <= MaxAttempts
        /\ jobs[o].status = "failed" => jobs[o].attempts = MaxAttempts
        /\ jobs[o].status = "queued" => jobs[o].attempts < MaxAttempts

(* What a poller reads is consistent: a result exactly for the jobs that   *)
(* succeeded, the failure's error for those that failed, and a job that    *)
(* shows as cancelled says so.                                             *)
OutcomeIsExplained ==
    \A o \in DOMAIN jobs :
        /\ jobs[o].result <=> jobs[o].status = "succeeded"
        /\ jobs[o].error = "failure" <=> jobs[o].status = "failed"
        /\ jobs[o].status = "cancelled" => jobs[o].error = "cancelled"

Ended(o) ==
    \/ jobs[o].status \in {"succeeded", "failed"}
    \/ jobs[o].status = "cancelled" /\ ~Live(o)

(* An outcome a client has seen does not change: succeeded and failed are  *)
(* final, and cancelled is once the job's executor is gone.                *)
OutcomeIsFinal ==
    [][\A o \in DOMAIN jobs : Ended(o) => jobs'[o] = jobs[o]]_vars

(* A cancellation that precedes the claim wins: the job is never started.  *)
CancelBeforeClaimWins ==
    [][\A o \in DOMAIN jobs :
          jobs[o].status \in {"cancel_requested", "cancelled"} /\ ~Live(o)
            => jobs'[o].attempts = jobs[o].attempts /\ ~Live(o)']_vars

(* What the README's lifecycle diagram says of cancellation: a cancelled   *)
(* job stays cancelled.                                                    *)
CancelledIsFinal ==
    [][\A o \in DOMAIN jobs :
          jobs[o].status = "cancelled" => jobs'[o].status = "cancelled"]_vars

(* What the README says of the store: submitting a known key again returns *)
(* the record of the first submission, so no key is ever forgotten.        *)
KeysAreKept ==
    [][\A k \in Keys : Known(k) # {} => (Known(k) \subseteq Known(k)')]_vars

Settled ==
    /\ tasks = {}
    /\ \A o \in DOMAIN jobs : Ended(o) \/ (o \in lost /\ jobs[o].status = "running")

(* With a worker that keeps polling, every job ends: it succeeds, fails or *)
(* is cancelled.  The exception is a job an event loop took with it.       *)
EveryJobSettles == (\E w \in Workers : <>[](w \in looping)) => <>[]Settled

-----------------------------------------------------------------------------
(* The store and its worker implement the abstract service.                *)

Outcome(k) ==
    IF Known(k) = {} THEN "absent"
    ELSE LET s == jobs[First(Known(k))].status IN
         IF s \in {"succeeded", "failed"} THEN s ELSE "pending"

Service == INSTANCE IdempotentJobs WITH outcome <- [k \in Keys |-> Outcome(k)]

ImplementsService == Service!Spec

=============================================================================
