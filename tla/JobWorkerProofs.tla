--------------------------- MODULE JobWorkerProofs ---------------------------
(***************************************************************************)
(* Proofs about JobWorker for every set of keys and workers and every      *)
(* max_attempts.  With clients the store can serve, the conjunction of the *)
(* invariants its runs check is inductive, outcomes are final and the      *)
(* abstract service is implemented.  The last section is about any clients *)
(* at all: what remains true there is what DurableAgentProofs builds on.   *)
(***************************************************************************)
EXTENDS JobWorker, SequenceTheorems, WellFoundedInduction, TLAPS

Inv == /\ TypeOK
       /\ IdempotentKeys
       /\ SingleExecution
       /\ RunningIsOwned
       /\ AttemptsBounded
       /\ OutcomeIsExplained

-----------------------------------------------------------------------------
(* How records are found.                                                  *)

(* When no record has dropped out of the store, ids are unique.            *)
LEMMA UniqueIds ==
    ASSUME TypeOK, Stored = DOMAIN jobs,
           NEW o \in DOMAIN jobs, NEW p \in DOMAIN jobs, jobs[o].id = jobs[p].id
    PROVE  o = p
<1>1. o \in Nat /\ p \in Nat
  BY DEF TypeOK
<1>2. \A q \in DOMAIN jobs : \A r \in DOMAIN jobs : r > q => jobs[r].id # jobs[q].id
  BY DEF Stored
<1> QED
  BY <1>1, <1>2

(* An id leads back to the record that has it.                             *)
LEMMA GetJobFinds ==
    ASSUME TypeOK, Stored = DOMAIN jobs, NEW o \in DOMAIN jobs
    PROVE  GetJob(jobs[o].id) = o
<1>1. \E p \in Stored : jobs[p].id = jobs[o].id
  OBVIOUS
<1>2. GetJob(jobs[o].id) \in DOMAIN jobs /\ jobs[GetJob(jobs[o].id)].id = jobs[o].id
  BY <1>1 DEF GetJob
<1> QED
  BY <1>2, UniqueIds

(* First chooses a member of a non-empty set of records.                   *)
LEMMA FirstIsMember ==
    ASSUME NEW S, S \subseteq Nat, S # {}
    PROVE  First(S) \in S
<1>1. PICK m \in S : \A k \in S : ~ (<<k, m>> \in OpToRel(<, Nat))
  BY NatLessThanWellFounded, WFMin
<1>2. \A k \in S : m <= k
  <2> TAKE k \in S
  <2>1. ~ (k < m)
    BY <1>1 DEF OpToRel
  <2> QED
    BY <2>1
<1> QED
  BY <1>1, <1>2 DEF First
-----------------------------------------------------------------------------
(* What the writes do to one record.                                       *)

(* The part of the invariant that speaks of one record alone.              *)
RecordOK(j) ==
    /\ j.attempts <= MaxAttempts
    /\ j.status = "failed" => j.attempts = MaxAttempts
    /\ j.status = "queued" => j.attempts < MaxAttempts
    /\ j.result <=> j.status = "succeeded"
    /\ j.error = "failure" <=> j.status = "failed"
    /\ j.status = "cancelled" => j.error = "cancelled"

LEMMA RecordsOK ==
    AttemptsBounded /\ OutcomeIsExplained <=> \A o \in DOMAIN jobs : RecordOK(jobs[o])
BY DEF AttemptsBounded, OutcomeIsExplained, RecordOK

Same(j, r) == /\ r \in JobRecord
              /\ r.id = j.id
              /\ r.key = j.key
              /\ r.fails = j.fails

(* Asking for a cancellation, and granting one. *)
LEMMA CancelWrites ==
    ASSUME NEW j \in JobRecord, RecordOK(j), j.status \notin {"succeeded", "failed"}
    PROVE  /\ Same(j, CancelRequestedFrom(j)) /\ RecordOK(CancelRequestedFrom(j))
           /\ CancelRequestedFrom(j).status = "cancel_requested"
           /\ CancelRequestedFrom(j).attempts = j.attempts
           /\ Same(j, CancelledFrom(j)) /\ RecordOK(CancelledFrom(j))
           /\ CancelledFrom(j).status = "cancelled"
           /\ CancelledFrom(j).attempts = j.attempts
BY DEF Same, RecordOK, JobRecord, Statuses, CancelRequestedFrom, CancelledFrom

LEMMA ClaimWrites ==
    ASSUME NEW j \in JobRecord, RecordOK(j), j.status = "queued"
    PROVE  /\ Same(j, ClaimedFrom(j)) /\ RecordOK(ClaimedFrom(j))
           /\ ClaimedFrom(j).status = "running"
           /\ ClaimedFrom(j).attempts = j.attempts + 1
<1> DEFINE r == ClaimedFrom(j)
<1>1. /\ r.id = j.id /\ r.key = j.key /\ r.fails = j.fails
      /\ r.result = j.result /\ r.error = j.error
      /\ r.status = "running" /\ r.attempts = j.attempts + 1
  BY DEF JobRecord, ClaimedFrom
<1>2. r \in JobRecord
  <2> DEFINE n == j.attempts + 1
  <2>1. n \in Nat /\ j.attempts \in Nat
    BY DEF JobRecord
  <2>2. r = [j EXCEPT !.status = "running", !.attempts = n]
    BY DEF ClaimedFrom
  <2> HIDE DEF n, r
  <2> QED
    BY <2>1, <2>2 DEF JobRecord, Statuses
<1>3. r.attempts <= MaxAttempts
  BY <1>1, MaxAttemptsAssumption DEF RecordOK, JobRecord
<1> HIDE DEF r
<1>4. RecordOK(r)
  BY <1>1, <1>3, Zenon DEF RecordOK
<1>5. Same(j, r)
  BY <1>1, <1>2 DEF Same
<1> QED
  BY <1>1, <1>4, <1>5 DEF r

(* An executor's last write, on a record that has not ended. *)
LEMMA SuccessWrites ==
    ASSUME NEW j \in JobRecord, RecordOK(j),
           j.status \in {"running", "cancel_requested", "cancelled"}
    PROVE  /\ Same(j, SucceededFrom(j)) /\ RecordOK(SucceededFrom(j))
           /\ SucceededFrom(j).status = "succeeded"
BY DEF Same, RecordOK, JobRecord, Statuses, SucceededFrom

LEMMA RequeueWrites ==
    ASSUME NEW j \in JobRecord, RecordOK(j), j.attempts < MaxAttempts,
           j.status \in {"running", "cancel_requested", "cancelled"}
    PROVE  /\ Same(j, RequeuedFrom(j)) /\ RecordOK(RequeuedFrom(j))
           /\ RequeuedFrom(j).status = "queued"
BY DEF Same, RecordOK, JobRecord, Statuses, RequeuedFrom

LEMMA FailureWrites ==
    ASSUME NEW j \in JobRecord, RecordOK(j), ~(j.attempts < MaxAttempts),
           j.status \in {"running", "cancel_requested", "cancelled"}
    PROVE  /\ Same(j, FailedFrom(j)) /\ RecordOK(FailedFrom(j))
           /\ FailedFrom(j).status = "failed"
<1> DEFINE r == FailedFrom(j)
<1>1. /\ r.id = j.id /\ r.key = j.key /\ r.fails = j.fails
      /\ r.result = j.result /\ r.error = "failure"
      /\ r.status = "failed" /\ r.attempts = j.attempts
  BY DEF JobRecord, FailedFrom
<1>2. r \in JobRecord
  BY DEF JobRecord, Statuses, FailedFrom
<1>3. r.attempts = MaxAttempts
  BY <1>1, MaxAttemptsAssumption DEF RecordOK, JobRecord
<1> HIDE DEF r
<1>4. RecordOK(r)
  <2>1. r.attempts <= MaxAttempts
    BY <1>3, MaxAttemptsAssumption
  <2> QED
    BY <1>1, <1>3, <2>1, Zenon DEF RecordOK
<1>5. Same(j, r)
  BY <1>1, <1>2 DEF Same
<1> QED
  BY <1>1, <1>4, <1>5 DEF r

-----------------------------------------------------------------------------
(* What a write does to the store.                                         *)

(* Overwriting one record of the sequence leaves the others alone. *)
LEMMA Overwrite ==
    ASSUME NEW js \in Seq(JobRecord), NEW o \in DOMAIN js, NEW j \in JobRecord
    PROVE  /\ [js EXCEPT ![o] = j] \in Seq(JobRecord)
           /\ DOMAIN [js EXCEPT ![o] = j] = DOMAIN js
           /\ [js EXCEPT ![o] = j][o] = j
           /\ \A p \in DOMAIN js : p # o => [js EXCEPT ![o] = j][p] = js[p]
<1>1. o \in 1..Len(js)
  OBVIOUS
<1> QED
  BY <1>1, ExceptSeq

(* When every record keeps its id and key and is well-formed, the record   *)
(* part of the invariant is preserved.                                     *)
LEMMA StoreInv ==
    ASSUME Inv, jobs' \in Seq(JobRecord), DOMAIN jobs' = DOMAIN jobs,
           \A p \in DOMAIN jobs : Same(jobs[p], jobs'[p]) /\ RecordOK(jobs'[p])
    PROVE  IdempotentKeys' /\ AttemptsBounded' /\ OutcomeIsExplained'
<1>1. AttemptsBounded' /\ OutcomeIsExplained'
  BY DEF AttemptsBounded, OutcomeIsExplained, RecordOK
<1>2. Stored' = Stored
  BY DEF Stored, Same
<1> QED
  BY <1>1, <1>2 DEF Inv, IdempotentKeys, Same
-----------------------------------------------------------------------------
(* The invariant, action by action.                                        *)

LEMMA InitInv == Init => Inv
<1> SUFFICES ASSUME Init PROVE Inv
  OBVIOUS
<1>1. jobs = << >> /\ DOMAIN jobs = {} /\ jobs \in Seq(JobRecord)
  BY DEF Init
<1> QED
  BY <1>1 DEF Init, Inv, TypeOK, IdempotentKeys, SingleExecution, RunningIsOwned,
              AttemptsBounded, OutcomeIsExplained, Stored

(* The links of an executor: it writes to the record it was dispatched for. *)
LEMMA TaskLinks ==
    ASSUME Inv, NEW t \in tasks
    PROVE  /\ t.claim \in DOMAIN jobs
           /\ Target(t) = t.claim
           /\ t.ref # 0 => t.ref = t.claim
<1>1. t.claim \in DOMAIN jobs
  BY DEF Inv, TypeOK, Task
<1>2. Target(t) = t.claim
  BY <1>1, GetJobFinds DEF Inv, IdempotentKeys, Target
<1> QED
  BY <1>1, <1>2 DEF Inv, SingleExecution

LEMMA SubmitInv ==
    ASSUME Inv, NEW k \in Keys, NEW f \in BOOLEAN, CarefulSubmit(k, f)
    PROVE  Inv'
<1>1. CASE Known(k) # {}
  <2>1. UNCHANGED vars
    BY <1>1 DEF CarefulSubmit, Submit, vars
  <2> QED
    BY <2>1 DEF vars, Inv, TypeOK, IdempotentKeys, SingleExecution, RunningIsOwned,
                AttemptsBounded, OutcomeIsExplained, Stored, Live
<1>2. CASE Known(k) = {}
  <2> DEFINE n == Len(jobs) + 1
             j == [id |-> NewId, key |-> k, fails |-> f, status |-> "queued",
                   attempts |-> 0, result |-> FALSE, error |-> "none"]
  <2>1. jobs' = Append(jobs, j) /\ UNCHANGED <<clock, tasks, looping, lost>>
    BY <1>2 DEF CarefulSubmit, Submit
  <2>2. j \in JobRecord
    BY DEF Inv, TypeOK, JobRecord, Statuses, NewId
  <2>3. RecordOK(j)
    BY MaxAttemptsAssumption DEF RecordOK
  <2>4. /\ j.id = clock /\ j.key = k /\ j.status = "queued"
    BY DEF NewId
  <2> HIDE DEF j
  <2>5. /\ jobs \in Seq(JobRecord)
        /\ jobs' \in Seq(JobRecord)
        /\ n \in Nat
        /\ DOMAIN jobs = 1 .. Len(jobs)
        /\ DOMAIN jobs' = DOMAIN jobs \cup {n}
        /\ jobs'[n] = j
        /\ \A p \in DOMAIN jobs : p < n /\ jobs'[p] = jobs[p]
    BY <2>1, <2>2 DEF Inv, TypeOK
  <2> HIDE DEF n
  <2>6. \A p \in DOMAIN jobs : jobs[p].key # k /\ jobs[p].id # clock
    BY <1>2 DEF CarefulSubmit, Known, Inv, IdempotentKeys
  <2>7. IdempotentKeys'
    <3>1. Stored' = DOMAIN jobs'
      <4>1. \A o, p \in DOMAIN jobs : p > o => jobs[p].id # jobs[o].id
        BY DEF Inv, IdempotentKeys, Stored
      <4>2. \A o, p \in DOMAIN jobs' : p > o => jobs'[p].id # jobs'[o].id
        BY <4>1, <2>4, <2>5, <2>6
      <4> QED
        BY <4>2 DEF Stored
    <3> QED
      BY <3>1, <2>4, <2>5, <2>6 DEF Inv, IdempotentKeys
  <2>8. AttemptsBounded' /\ OutcomeIsExplained'
    <3>1. \A p \in DOMAIN jobs' : RecordOK(jobs'[p])
      BY <2>3, <2>5, RecordsOK DEF Inv
    <3> QED
      BY <3>1 DEF AttemptsBounded, OutcomeIsExplained, RecordOK
  <2>9. TypeOK'
    BY <2>1, <2>5 DEF Inv, TypeOK
  <2>10. SingleExecution'
    BY <2>1, <2>5, TaskLinks DEF Inv, SingleExecution
  <2>11. RunningIsOwned'
    BY <2>1, <2>4, <2>5 DEF Inv, RunningIsOwned, Live
  <2> QED
    BY <2>7, <2>8, <2>9, <2>10, <2>11 DEF Inv
<1> QED
  BY <1>1, <1>2

LEMMA CancelInv ==
    ASSUME Inv, NEW o \in DOMAIN jobs, CarefulCancel(o)
    PROVE  Inv'
<1> DEFINE j == CancelRequestedFrom(jobs[o])
<1>1. /\ jobs \in Seq(JobRecord) /\ jobs[o] \in JobRecord /\ RecordOK(jobs[o])
      /\ jobs[o].status \in {"queued", "running"}
      /\ jobs' = [jobs EXCEPT ![o] = j]
      /\ UNCHANGED <<clock, tasks, looping, lost>>
  BY RecordsOK DEF CarefulCancel, RequestCancel, Inv, TypeOK
<1>2. /\ Same(jobs[o], j) /\ RecordOK(j)
      /\ j.status = "cancel_requested" /\ j.attempts = jobs[o].attempts
  BY <1>1, CancelWrites
<1> HIDE DEF j
<1>3. j \in JobRecord
  BY <1>2 DEF Same
<1>4. /\ jobs' \in Seq(JobRecord) /\ DOMAIN jobs' = DOMAIN jobs
      /\ jobs'[o] = j
      /\ \A p \in DOMAIN jobs : p # o => jobs'[p] = jobs[p]
  BY <1>1, <1>3, Overwrite
<1>5. \A p \in DOMAIN jobs : Same(jobs[p], jobs'[p]) /\ RecordOK(jobs'[p])
  BY <1>1, <1>2, <1>4, RecordsOK DEF Inv, TypeOK, Same
<1>6. TypeOK'
  BY <1>1, <1>4 DEF Inv, TypeOK
<1>7. SingleExecution'
  BY <1>1, <1>2, <1>4, TaskLinks DEF Inv, SingleExecution
<1>8. RunningIsOwned'
  BY <1>1, <1>2, <1>4 DEF Inv, RunningIsOwned, Live
<1> QED
  BY <1>4, <1>5, <1>6, <1>7, <1>8, StoreInv DEF Inv
(* What acknowledging a cancellation does to the records. *)
LEMMA AcknowledgeRecords ==
    ASSUME Inv
    PROVE  /\ Acknowledge(jobs) \in Seq(JobRecord)
           /\ DOMAIN Acknowledge(jobs) = DOMAIN jobs
           /\ \A p \in DOMAIN jobs :
                 /\ Same(jobs[p], Acknowledge(jobs)[p])
                 /\ RecordOK(Acknowledge(jobs)[p])
                 /\ Acknowledge(jobs)[p].attempts = jobs[p].attempts
                 /\ \/ Acknowledge(jobs)[p] = jobs[p]
                    \/ /\ jobs[p].status = "cancel_requested"
                       /\ Acknowledge(jobs)[p].status = "cancelled"
<1>1. /\ jobs \in Seq(JobRecord)
      /\ \A p \in DOMAIN jobs : jobs[p] \in JobRecord /\ RecordOK(jobs[p])
  BY RecordsOK DEF Inv, TypeOK
<1>2. CASE ToAcknowledge = {}
  BY <1>1, <1>2 DEF Acknowledge, Same
<1>3. CASE ToAcknowledge # {}
  <2> DEFINE o == First(ToAcknowledge)
             j == CancelledFrom(jobs[o])
  <2>1. o \in DOMAIN jobs /\ jobs[o].status = "cancel_requested"
    <3>1. ToAcknowledge \subseteq Nat
      BY <1>1 DEF ToAcknowledge, WithStatus, Stored
    <3>2. o \in ToAcknowledge
      BY <1>3, <3>1, FirstIsMember
    <3> QED
      BY <3>2 DEF ToAcknowledge, WithStatus, Stored
  <2>2. Acknowledge(jobs) = [jobs EXCEPT ![o] = j]
    BY <1>3 DEF Acknowledge
  <2>3. /\ Same(jobs[o], j) /\ RecordOK(j)
        /\ j.status = "cancelled" /\ j.attempts = jobs[o].attempts
    BY <1>1, <2>1, CancelWrites
  <2> HIDE DEF o, j
  <2>4. j \in JobRecord
    BY <2>3 DEF Same
  <2>5. /\ Acknowledge(jobs) \in Seq(JobRecord)
        /\ DOMAIN Acknowledge(jobs) = DOMAIN jobs
        /\ Acknowledge(jobs)[o] = j
        /\ \A p \in DOMAIN jobs : p # o => Acknowledge(jobs)[p] = jobs[p]
    BY <1>1, <2>1, <2>2, <2>4, Overwrite
  <2> QED
    BY <1>1, <2>1, <2>3, <2>5 DEF Same
<1> QED
  BY <1>2, <1>3

LEMMA LoopInv ==
    ASSUME Inv, NEW w \in Workers, LoopIteration(w)
    PROVE  Inv'
<1> DEFINE js == Acknowledge(jobs)
<1>1. /\ js \in Seq(JobRecord)
      /\ DOMAIN js = DOMAIN jobs
      /\ \A p \in DOMAIN jobs :
            /\ Same(jobs[p], js[p]) /\ RecordOK(js[p])
            /\ js[p].attempts = jobs[p].attempts
            /\ \/ js[p] = jobs[p]
               \/ jobs[p].status = "cancel_requested" /\ js[p].status = "cancelled"
  BY AcknowledgeRecords
<1>2. CASE ToClaim = {}
  <2>1. jobs' = js /\ UNCHANGED <<clock, tasks, looping, lost>>
    BY <1>2 DEF LoopIteration
  <2> HIDE DEF js
  <2>2. TypeOK'
    BY <1>1, <2>1 DEF Inv, TypeOK
  <2>3. SingleExecution'
    BY <1>1, <2>1, TaskLinks DEF Inv, SingleExecution
  <2>4. RunningIsOwned'
    BY <1>1, <2>1 DEF Inv, RunningIsOwned, Live
  <2> QED
    BY <1>1, <2>1, <2>2, <2>3, <2>4, StoreInv DEF Inv
<1>3. CASE ToClaim # {}
  <2> DEFINE o == First(ToClaim)
             j == ClaimedFrom(js[o])
             t == [claim |-> o, attempt |-> jobs[o].attempts + 1, ref |-> 0]
  <2>1. /\ jobs' = [js EXCEPT ![o] = j]
        /\ tasks' = tasks \cup {t}
        /\ UNCHANGED <<clock, looping, lost>>
    BY <1>3 DEF LoopIteration
  <2>2. o \in DOMAIN jobs /\ jobs[o].status = "queued"
    <3>1. ToClaim \subseteq Nat
      BY DEF ToClaim, WithStatus, Stored, Inv, TypeOK
    <3>2. o \in ToClaim
      BY <1>3, <3>1, FirstIsMember
    <3> QED
      BY <3>2 DEF ToClaim, WithStatus, Stored
  <2> HIDE DEF js, o
  <2>3. js[o] = jobs[o] /\ js[o] \in JobRecord /\ RecordOK(js[o])
    BY <1>1, <2>2
  <2>4. /\ Same(jobs[o], j) /\ RecordOK(j)
        /\ j.status = "running" /\ j.attempts = jobs[o].attempts + 1
    BY <2>2, <2>3, ClaimWrites
  <2>5. t \in Task /\ t.claim = o /\ t.attempt = jobs[o].attempts + 1 /\ t.ref = 0
    BY <2>2, <2>3 DEF Task, JobRecord, Inv, TypeOK
  <2> HIDE DEF j, t
  <2>6. j \in JobRecord
    BY <2>4 DEF Same
  <2>7. /\ jobs' \in Seq(JobRecord) /\ DOMAIN jobs' = DOMAIN jobs
        /\ jobs'[o] = j
        /\ \A p \in DOMAIN jobs : p # o => jobs'[p] = js[p]
    BY <1>1, <2>1, <2>2, <2>6, Overwrite
  <2>8. \A p \in DOMAIN jobs : Same(jobs[p], jobs'[p]) /\ RecordOK(jobs'[p])
    BY <1>1, <2>4, <2>7
  <2>9. ~Live(o)
    BY <2>2, TaskLinks DEF Inv, SingleExecution, Live
  <2>10. TypeOK'
    BY <2>1, <2>2, <2>5, <2>7 DEF Inv, TypeOK
  <2>11. SingleExecution'
    <3>1. \A u, v \in tasks' : u.claim = v.claim => u = v
      BY <2>1, <2>5, <2>9 DEF Inv, SingleExecution, Live
    <3>2. ASSUME NEW u \in tasks'
          PROVE  /\ jobs'[u.claim].status \in {"running", "cancel_requested", "cancelled"}
                 /\ jobs'[u.claim].attempts = u.attempt
                 /\ u.ref \in {0, u.claim}
      <4>1. CASE u = t
        BY <2>4, <2>5, <2>7, <4>1
      <4>2. CASE u \in tasks
        <5>1. u.claim \in DOMAIN jobs /\ u.claim # o
          BY <2>9, <4>2, TaskLinks DEF Live
        <5> QED
          BY <1>1, <2>7, <4>2, <5>1 DEF Inv, SingleExecution
      <4> QED
        BY <2>1, <4>1, <4>2
    <3> QED
      BY <3>1, <3>2 DEF SingleExecution
  <2>12. RunningIsOwned'
    BY <1>1, <2>1, <2>5, <2>7 DEF Inv, RunningIsOwned, Live
  <2> QED
    BY <2>7, <2>8, <2>10, <2>11, <2>12, StoreInv DEF Inv
<1> QED
  BY <1>2, <1>3

LEMMA TaskStartInv ==
    ASSUME Inv, NEW t \in tasks, TaskStart(t)
    PROVE  Inv'
<1> DEFINE u == [t EXCEPT !.ref = Target(t)]
<1>1. /\ tasks' = (tasks \ {t}) \cup {u}
      /\ UNCHANGED <<clock, jobs, looping, lost>>
  BY DEF TaskStart
<1>2. /\ t \in Task /\ t.claim \in DOMAIN jobs /\ t.claim \in Nat
      /\ Target(t) = t.claim
  BY TaskLinks DEF Inv, TypeOK, Task
<1>3. u \in Task /\ u.claim = t.claim /\ u.attempt = t.attempt /\ u.ref = t.claim
  BY <1>2 DEF Task
<1> HIDE DEF u
<1>4. TypeOK'
  BY <1>1, <1>2, <1>3 DEF Inv, TypeOK
<1>5. SingleExecution'
  BY <1>1, <1>3 DEF Inv, SingleExecution
<1>6. RunningIsOwned'
  BY <1>1, <1>3 DEF Inv, RunningIsOwned, Live
<1>7. IdempotentKeys' /\ AttemptsBounded' /\ OutcomeIsExplained'
  BY <1>1 DEF Inv, IdempotentKeys, AttemptsBounded, OutcomeIsExplained, Stored
<1> QED
  BY <1>4, <1>5, <1>6, <1>7 DEF Inv

(* The four ways an executor ends, in one: what it writes is a record the   *)
(* invariant allows, and not a running one.                                *)
LEMMA FinishInv ==
    ASSUME Inv, NEW t \in tasks, NEW j, Finish(t, j),
           Same(jobs[t.claim], j), RecordOK(j), j.status # "running"
    PROVE  Inv'
<1> DEFINE o == t.claim
<1>1. /\ o \in DOMAIN jobs /\ jobs \in Seq(JobRecord) /\ j \in JobRecord
      /\ jobs' = [jobs EXCEPT ![o] = j]
      /\ tasks' = tasks \ {t}
      /\ UNCHANGED <<clock, looping, lost>>
  BY TaskLinks DEF Finish, Same, Inv, TypeOK
<1>2. /\ jobs' \in Seq(JobRecord) /\ DOMAIN jobs' = DOMAIN jobs
      /\ jobs'[o] = j
      /\ \A p \in DOMAIN jobs : p # o => jobs'[p] = jobs[p]
  BY <1>1, Overwrite
<1>3. \A p \in DOMAIN jobs : Same(jobs[p], jobs'[p]) /\ RecordOK(jobs'[p])
  BY <1>1, <1>2, RecordsOK DEF Inv, TypeOK, Same
<1>4. \A u \in tasks' : u \in tasks /\ u.claim # o /\ u.claim \in DOMAIN jobs
  BY <1>1, TaskLinks DEF Inv, SingleExecution
<1>5. TypeOK'
  BY <1>1, <1>2 DEF Inv, TypeOK
<1>6. SingleExecution'
  BY <1>2, <1>4 DEF Inv, SingleExecution
<1>7. RunningIsOwned'
  <2> SUFFICES ASSUME NEW p \in DOMAIN jobs, jobs'[p].status = "running", p \notin lost
               PROVE  \E u \in tasks' : u.claim = p
    BY <1>1, <1>2 DEF RunningIsOwned, Live
  <2>1. p # o /\ jobs'[p] = jobs[p]
    BY <1>2
  <2>2. PICK u \in tasks : u.claim = p
    BY <2>1 DEF Inv, RunningIsOwned, Live
  <2> QED
    BY <1>1, <2>1, <2>2
<1> QED
  BY <1>2, <1>3, <1>5, <1>6, <1>7, StoreInv DEF Inv

LEMMA TaskStepInv ==
    ASSUME Inv, NEW t \in tasks, TaskStep(t)
    PROVE  Inv'
<1> DEFINE o == t.claim
<1>1. /\ Target(t) = o /\ (t.ref # 0 => t.ref = o)
      /\ jobs[o] \in JobRecord /\ RecordOK(jobs[o])
      /\ jobs[o].status \in {"running", "cancel_requested", "cancelled"}
  BY TaskLinks, RecordsOK DEF Inv, TypeOK, SingleExecution
<1>2. CASE TaskStart(t)
  BY <1>2, TaskStartInv
<1>3. CASE TaskCancelled(t)
  BY <1>1, <1>3, CancelWrites, FinishInv DEF TaskCancelled
<1>4. CASE TaskSucceeded(t)
  BY <1>1, <1>4, SuccessWrites, FinishInv DEF TaskSucceeded
<1>5. CASE TaskRequeued(t)
  BY <1>1, <1>5, RequeueWrites, FinishInv DEF TaskRequeued, MayRetry
<1>6. CASE TaskFailed(t)
  BY <1>1, <1>6, FailureWrites, FinishInv DEF TaskFailed, MayRetry
<1> QED
  BY <1>2, <1>3, <1>4, <1>5, <1>6 DEF TaskStep

LEMMA EventLoopClosedInv ==
    ASSUME Inv, EventLoopClosed
    PROVE  Inv'
<1>1. /\ UNCHANGED <<clock, jobs>> /\ looping' = {} /\ tasks' = {}
      /\ lost' = lost \cup {t.claim : t \in tasks}
  BY DEF EventLoopClosed
<1>2. TypeOK'
  BY <1>1, TaskLinks DEF Inv, TypeOK
<1>3. RunningIsOwned'
  BY <1>1 DEF Inv, RunningIsOwned, Live
<1>4. SingleExecution'
  BY <1>1 DEF SingleExecution
<1> QED
  BY <1>1, <1>2, <1>3, <1>4
  DEF Inv, IdempotentKeys, AttemptsBounded, OutcomeIsExplained, Stored
LEMMA NextInv == Inv /\ [CarefulNext]_vars => Inv'
<1> SUFFICES ASSUME Inv, [CarefulNext]_vars PROVE Inv'
  OBVIOUS
<1>1. CASE \E k \in Keys, f \in BOOLEAN : CarefulSubmit(k, f)
  BY <1>1, SubmitInv
<1>2. CASE \E o \in DOMAIN jobs : CarefulCancel(o)
  BY <1>2, CancelInv
<1>3. CASE \E w \in Workers : LoopIteration(w)
  BY <1>3, LoopInv
<1>4. CASE \E t \in tasks : TaskStep(t)
  BY <1>4, TaskStepInv
<1>5. CASE EventLoopClosed
  BY <1>5, EventLoopClosedInv
<1>6. CASE UNCHANGED <<jobs, tasks, lost>> /\ clock' \in Nat /\ looping' \subseteq Workers
  BY <1>6 DEF Inv, TypeOK, IdempotentKeys, SingleExecution, RunningIsOwned,
              AttemptsBounded, OutcomeIsExplained, Stored, Live
<1>7. CASE Tick \/ \E w \in Workers : StartWorker(w) \/ StopWorker(w)
  BY <1>6, <1>7 DEF Tick, StartWorker, StopWorker, Inv, TypeOK
<1>8. CASE UNCHANGED vars
  BY <1>6, <1>8 DEF vars, Inv, TypeOK
<1> QED
  BY <1>1, <1>2, <1>3, <1>4, <1>5, <1>7, <1>8 DEF CarefulNext, RuntimeStep

-----------------------------------------------------------------------------
(* The theorems.                                                           *)

(* The conjunction of the invariants below is inductive: it holds in every *)
(* reachable state of the store and its worker.                            *)
THEOREM Invariance == CarefulSpec => []Inv
BY InitInv, NextInv, PTL DEF CarefulSpec

(* Every variable has its type and executors point to existing records.    *)
THEOREM TypeCorrect == CarefulSpec => []TypeOK
<1>1. Inv => TypeOK
  BY DEF Inv
<1> QED
  BY <1>1, Invariance, PTL

(* submit_job: one record for each key, and none drops out of the store.   *)
THEOREM KeysAreIdempotent == CarefulSpec => []IdempotentKeys
<1>1. Inv => IdempotentKeys
  BY DEF Inv
<1> QED
  BY <1>1, Invariance, PTL

(* A job never has two executors, and only a claimed job has one.          *)
THEOREM NoDoubleExecution == CarefulSpec => []SingleExecution
<1>1. Inv => SingleExecution
  BY DEF Inv
<1> QED
  BY <1>1, Invariance, PTL

(* Only the end of the event loop leaves a running job without executor.   *)
THEOREM NoOrphans == CarefulSpec => []RunningIsOwned
<1>1. Inv => RunningIsOwned
  BY DEF Inv
<1> QED
  BY <1>1, Invariance, PTL

(* Retries stay within max_attempts and only exhausted jobs fail.          *)
THEOREM RetriesBounded == CarefulSpec => []AttemptsBounded
<1>1. Inv => AttemptsBounded
  BY DEF Inv
<1> QED
  BY <1>1, Invariance, PTL

(* The result and the error a poller reads agree with the status.          *)
THEOREM OutcomesExplained == CarefulSpec => []OutcomeIsExplained
<1>1. Inv => OutcomeIsExplained
  BY DEF Inv
<1> QED
  BY <1>1, Invariance, PTL

-----------------------------------------------------------------------------
(* What a step may not do.                                                 *)

(* The records a step leaves alone: those no executor works on, unless they *)
(* are waiting to be claimed or cancelled.                                 *)
LEMMA StepEffect ==
    ASSUME Inv, [CarefulNext]_vars, NEW o \in DOMAIN jobs, ~Live(o)
    PROVE  \/ jobs'[o] = jobs[o] /\ (jobs[o].status # "queued" => ~Live(o)')
           \/ jobs[o].status \in {"queued", "running"}
           \/ /\ jobs[o].status = "cancel_requested"
              /\ jobs'[o].attempts = jobs[o].attempts
              /\ ~Live(o)'
<1>1. CASE \E k \in Keys, f \in BOOLEAN : CarefulSubmit(k, f)
  <2>1. tasks' = tasks
    BY <1>1 DEF CarefulSubmit, Submit
  <2>2. jobs'[o] = jobs[o]
    BY <1>1 DEF CarefulSubmit, Submit, Inv, TypeOK
  <2> QED
    BY <2>1, <2>2 DEF Live
<1>2. CASE \E p \in DOMAIN jobs : CarefulCancel(p)
  <2>1. PICK p \in DOMAIN jobs : CarefulCancel(p)
    BY <1>2
  <2>2. /\ jobs[p].status \in {"queued", "running"} /\ tasks' = tasks
        /\ o # p => jobs'[o] = jobs[o]
    BY <2>1 DEF CarefulCancel, RequestCancel
  <2> QED
    BY <2>2 DEF Live
<1>3. CASE \E w \in Workers : LoopIteration(w)
  <2>1. /\ Acknowledge(jobs)[o].attempts = jobs[o].attempts
        /\ \/ Acknowledge(jobs)[o] = jobs[o]
           \/ jobs[o].status = "cancel_requested"
    BY AcknowledgeRecords
  <2>2. CASE ToClaim = {}
    BY <1>3, <2>1, <2>2 DEF LoopIteration, Live
  <2>3. CASE ToClaim # {}
    <3> DEFINE p == First(ToClaim)
               t == [claim |-> p, attempt |-> jobs[p].attempts + 1, ref |-> 0]
    <3>1. p \in DOMAIN jobs /\ jobs[p].status = "queued"
      <4>1. ToClaim \subseteq Nat
        BY DEF ToClaim, WithStatus, Stored, Inv, TypeOK
      <4>2. p \in ToClaim
        BY <2>3, <4>1, FirstIsMember
      <4> QED
        BY <4>2 DEF ToClaim, WithStatus, Stored
    <3>2. /\ jobs' = [Acknowledge(jobs) EXCEPT ![p] = ClaimedFrom(@)]
          /\ tasks' = tasks \cup {t}
      BY <1>3, <2>3 DEF LoopIteration
    <3>3. t.claim = p
      OBVIOUS
    <3> HIDE DEF p, t
    <3>4. CASE o = p
      BY <3>1, <3>4
    <3>5. CASE o # p
      <4>1. jobs'[o] = Acknowledge(jobs)[o]
        BY <3>2, <3>5, AcknowledgeRecords
      <4>2. ~Live(o)'
        BY <3>2, <3>3, <3>5 DEF Live
      <4> QED
        BY <2>1, <4>1, <4>2
    <3> QED
      BY <3>4, <3>5
  <2> QED
    BY <2>2, <2>3
<1>4. CASE \E t \in tasks : TaskStep(t)
  <2>1. PICK t \in tasks : TaskStep(t)
    BY <1>4
  <2>2. t.claim # o /\ Target(t) = t.claim
    BY TaskLinks DEF Live
  <2>3. CASE TaskStart(t)
    <3>1. [t EXCEPT !.ref = Target(t)].claim = t.claim
      BY DEF Inv, TypeOK, Task
    <3> QED
      BY <2>2, <2>3, <3>1 DEF TaskStart, Live
  <2>4. ASSUME NEW j, Finish(t, j) PROVE jobs'[o] = jobs[o] /\ ~Live(o)'
    BY <2>2, <2>4 DEF Finish, Live
  <2> QED
    BY <2>1, <2>3, <2>4
    DEF TaskStep, TaskCancelled, TaskSucceeded, TaskRequeued, TaskFailed
<1>5. CASE EventLoopClosed
  BY <1>5 DEF EventLoopClosed, Live
<1>6. CASE UNCHANGED <<jobs, tasks>>
  BY <1>6 DEF Live
<1>7. CASE Tick \/ \E w \in Workers : StartWorker(w) \/ StopWorker(w)
  BY <1>6, <1>7 DEF Tick, StartWorker, StopWorker
<1>8. CASE UNCHANGED vars
  BY <1>6, <1>8 DEF vars
<1> QED
  BY <1>1, <1>2, <1>3, <1>4, <1>5, <1>7, <1>8 DEF CarefulNext, RuntimeStep

(* Success and failure are final, and so is a cancellation once the job's  *)
(* executor is gone: no later submission, cancellation, claim or retry     *)
(* changes what a client has read.                                         *)
THEOREM OutcomesAreFinal == CarefulSpec => OutcomeIsFinal
<1>1. ASSUME Inv, [CarefulNext]_vars
      PROVE  \A o \in DOMAIN jobs : Ended(o) => jobs'[o] = jobs[o]
  <2> SUFFICES ASSUME NEW o \in DOMAIN jobs, Ended(o) PROVE jobs'[o] = jobs[o]
    OBVIOUS
  <2>1. ~Live(o) /\ jobs[o].status \in {"succeeded", "failed", "cancelled"}
    BY <1>1 DEF Ended, Live, Inv, SingleExecution
  <2> QED
    BY <1>1, <2>1, StepEffect
<1> QED
  BY <1>1, Invariance, PTL DEF CarefulSpec, OutcomeIsFinal

(* A job cancelled before any worker claimed it is never executed.         *)
THEOREM EarlyCancellationsWin == CarefulSpec => CancelBeforeClaimWins
<1>1. ASSUME Inv, [CarefulNext]_vars
      PROVE  \A o \in DOMAIN jobs :
                jobs[o].status \in {"cancel_requested", "cancelled"} /\ ~Live(o)
                  => jobs'[o].attempts = jobs[o].attempts /\ ~Live(o)'
  BY <1>1, StepEffect
<1> QED
  BY <1>1, Invariance, PTL DEF CarefulSpec, CancelBeforeClaimWins
-----------------------------------------------------------------------------
(* The refinement.                                                         *)

(* What a client learns from one record. *)
Shown(o) == IF jobs[o].status \in {"succeeded", "failed"} THEN jobs[o].status
            ELSE "pending"

(* The outcome of a key is what its one record shows. *)
OutcomeFacts ==
    /\ \A o \in DOMAIN jobs : Outcome(jobs[o].key) = Shown(o)
    /\ \A k \in Keys : (\A o \in DOMAIN jobs : jobs[o].key # k) => Outcome(k) = "absent"

LEMMA OutcomesShown == Inv => OutcomeFacts
<1> SUFFICES ASSUME Inv PROVE OutcomeFacts
  OBVIOUS
<1>1. ASSUME NEW o \in DOMAIN jobs PROVE Outcome(jobs[o].key) = Shown(o)
  <2>1. Known(jobs[o].key) = {o}
    BY DEF Known, Inv, IdempotentKeys
  <2>2. First({o}) = o
    <3>1. o \in Nat
      BY DEF Inv, TypeOK
    <3>2. {o} \subseteq Nat /\ {o} # {}
      BY <3>1
    <3>3. First({o}) \in {o}
      BY <3>2, FirstIsMember
    <3> QED
      BY <3>3
  <2> QED
    BY <2>1, <2>2 DEF Outcome, Shown
<1>2. ASSUME NEW k \in Keys, \A o \in DOMAIN jobs : jobs[o].key # k
      PROVE  Outcome(k) = "absent"
  BY <1>2 DEF Outcome, Known, Inv, IdempotentKeys
<1> QED
  BY <1>1, <1>2 DEF OutcomeFacts

(* A step that keeps every record's key, and what all but at most one of   *)
(* them shows, is a step or a stutter of the service.                      *)
LEMMA ShownStep ==
    ASSUME Inv, Inv', OutcomeFacts, OutcomeFacts', DOMAIN jobs' = DOMAIN jobs,
           \A p \in DOMAIN jobs : jobs'[p].key = jobs[p].key,
           NEW o \in DOMAIN jobs,
           \A p \in DOMAIN jobs : p # o => Shown(p)' = Shown(p),
           Shown(o)' = Shown(o) \/ Shown(o) = "pending"
    PROVE  [Service!Next]_([k \in Keys |-> Outcome(k)])
<1> DEFINE key == jobs[o].key
<1>1. \A p \in DOMAIN jobs : jobs[p].key \in Keys
  <2>1. \A p \in DOMAIN jobs : jobs[p] \in JobRecord
    BY DEF Inv, TypeOK
  <2> QED
    BY <2>1 DEF JobRecord
<1>2. Outcome(key) = Shown(o) /\ Outcome(key)' = Shown(o)'
  BY DEF OutcomeFacts
<1>3. ASSUME NEW k \in Keys, k # key PROVE Outcome(k)' = Outcome(k)
  <2>1. CASE \E p \in DOMAIN jobs : jobs[p].key = k
    BY <1>3, <2>1 DEF OutcomeFacts
  <2>2. CASE ~ \E p \in DOMAIN jobs : jobs[p].key = k
    BY <2>2 DEF OutcomeFacts
  <2> QED
    BY <2>1, <2>2
<1> DEFINE before == [k \in Keys |-> Outcome(k)]
           after == [k \in Keys |-> Outcome(k)']
<1>4. CASE Shown(o)' = Shown(o)
  <2>1. \A k \in Keys : Outcome(k)' = Outcome(k)
    BY <1>2, <1>3, <1>4
  <2> QED
    BY <2>1
<1>5. CASE Shown(o)' # Shown(o)
  <2>1. Shown(o) = "pending" /\ Shown(o)' \in {"succeeded", "failed"}
    BY <1>5 DEF Shown
  <2>2. after = [before EXCEPT ![key] = Shown(o)']
    BY <1>2, <1>3
  <2>3. Service!Decide(key)
    BY <1>1, <1>2, <2>1, <2>2 DEF Service!Decide
  <2> QED
    BY <1>1, <2>3 DEF Service!Next
<1> QED
  BY <1>4, <1>5
(* A step that changes nothing clients learn is a stutter of the service.  *)
LEMMA ShownStutter ==
    ASSUME Inv, OutcomeFacts, OutcomeFacts', DOMAIN jobs' = DOMAIN jobs,
           \A p \in DOMAIN jobs : jobs'[p].key = jobs[p].key /\ Shown(p)' = Shown(p)
    PROVE  UNCHANGED [k \in Keys |-> Outcome(k)]
<1>1. ASSUME NEW k \in Keys PROVE Outcome(k)' = Outcome(k)
  <2>1. CASE \E p \in DOMAIN jobs : jobs[p].key = k
    BY <2>1 DEF OutcomeFacts
  <2>2. CASE ~ \E p \in DOMAIN jobs : jobs[p].key = k
    BY <2>2 DEF OutcomeFacts
  <2> QED
    BY <2>1, <2>2
<1> QED
  BY <1>1

(* A new key is accepted, a known one changes nothing. *)
LEMMA SubmitImplements ==
    ASSUME Inv, OutcomeFacts, OutcomeFacts',
           NEW k \in Keys, NEW f \in BOOLEAN, CarefulSubmit(k, f)
    PROVE  [Service!Next]_([x \in Keys |-> Outcome(x)])
<1>1. CASE Known(k) # {}
  <2>1. UNCHANGED jobs
    BY <1>1 DEF CarefulSubmit, Submit
  <2>2. \A p \in DOMAIN jobs : Shown(p)' = Shown(p)
    BY <2>1 DEF Shown
  <2> QED
    BY <2>1, <2>2, ShownStutter
<1>2. CASE Known(k) = {}
  <2> DEFINE n == Len(jobs) + 1
             j == [id |-> NewId, key |-> k, fails |-> f, status |-> "queued",
                   attempts |-> 0, result |-> FALSE, error |-> "none"]
             before == [x \in Keys |-> Outcome(x)]
             after == [x \in Keys |-> Outcome(x)']
  <2>1. jobs' = Append(jobs, j)
    BY <1>2 DEF CarefulSubmit, Submit
  <2>2. j.key = k /\ j.status = "queued"
    OBVIOUS
  <2> HIDE DEF j
  <2>3. /\ DOMAIN jobs' = DOMAIN jobs \cup {n}
        /\ jobs'[n] = j
        /\ \A p \in DOMAIN jobs : jobs'[p] = jobs[p]
    BY <2>1 DEF Inv, TypeOK
  <2> HIDE DEF n
  <2>4. \A p \in DOMAIN jobs : jobs[p].key # k
    BY <1>2 DEF Known, Inv, IdempotentKeys
  <2>5. Outcome(k) = "absent"
    BY <2>4 DEF OutcomeFacts
  <2>6. Outcome(k)' = "pending"
    BY <2>2, <2>3 DEF OutcomeFacts, Shown
  <2>7. ASSUME NEW x \in Keys, x # k PROVE Outcome(x)' = Outcome(x)
    <3>1. CASE \E p \in DOMAIN jobs : jobs[p].key = x
      <4>1. PICK p \in DOMAIN jobs : jobs[p].key = x
        BY <3>1
      <4>2. Outcome(x) = Shown(p) /\ Outcome(x)' = Shown(p)'
        BY <2>3, <4>1 DEF OutcomeFacts
      <4>3. Shown(p)' = Shown(p)
        BY <2>3 DEF Shown
      <4> QED
        BY <4>2, <4>3
    <3>2. CASE ~ \E p \in DOMAIN jobs : jobs[p].key = x
      BY <2>2, <2>3, <2>7, <3>2 DEF OutcomeFacts
    <3> QED
      BY <3>1, <3>2
  <2>8. after = [before EXCEPT ![k] = "pending"]
    BY <2>6, <2>7
  <2>9. Service!Accept(k)
    BY <2>5, <2>8 DEF Service!Accept
  <2> QED
    BY <2>9 DEF Service!Next
<1> QED
  BY <1>1, <1>2

(* Claims and acknowledgements are invisible. *)
LEMMA LoopShown ==
    ASSUME Inv, NEW w \in Workers, LoopIteration(w)
    PROVE  /\ DOMAIN jobs' = DOMAIN jobs
           /\ \A p \in DOMAIN jobs : /\ jobs'[p].id = jobs[p].id
                                     /\ jobs'[p].key = jobs[p].key
                                     /\ Shown(p)' = Shown(p)
<1> DEFINE js == Acknowledge(jobs)
<1>1. /\ js \in Seq(JobRecord) /\ DOMAIN js = DOMAIN jobs
      /\ \A p \in DOMAIN jobs :
            /\ js[p].id = jobs[p].id /\ js[p].key = jobs[p].key
            /\ js[p] \in JobRecord
            /\ \/ js[p] = jobs[p]
               \/ jobs[p].status = "cancel_requested" /\ js[p].status = "cancelled"
  BY AcknowledgeRecords DEF Same
<1>2. CASE ToClaim = {}
  <2>1. jobs' = js
    BY <1>2 DEF LoopIteration
  <2> QED
    BY <1>1, <2>1 DEF Shown
<1>3. CASE ToClaim # {}
  <2> DEFINE o == First(ToClaim)
  <2>1. o \in DOMAIN jobs /\ jobs[o].status = "queued"
    <3>1. ToClaim \subseteq Nat
      BY DEF ToClaim, WithStatus, Stored, Inv, TypeOK
    <3>2. o \in ToClaim
      BY <1>3, <3>1, FirstIsMember
    <3> QED
      BY <3>2 DEF ToClaim, WithStatus, Stored
  <2>2. jobs' = [js EXCEPT ![o] = ClaimedFrom(@)]
    BY <1>3 DEF LoopIteration
  <2> HIDE DEF js, o
  <2>3. js[o] = jobs[o]
    BY <1>1, <2>1
  <2>4. /\ ClaimedFrom(js[o]).id = js[o].id /\ ClaimedFrom(js[o]).key = js[o].key
        /\ ClaimedFrom(js[o]).status = "running"
    BY <1>1, <2>1 DEF ClaimedFrom, JobRecord
  <2>5. /\ DOMAIN jobs' = DOMAIN jobs
        /\ jobs'[o] = ClaimedFrom(js[o])
        /\ \A p \in DOMAIN jobs : p # o => jobs'[p] = js[p]
    BY <1>1, <2>1, <2>2
  <2> QED
    BY <1>1, <2>1, <2>3, <2>4, <2>5 DEF Shown
<1> QED
  BY <1>2, <1>3

(* An executor decides the outcome of its own job at most. *)
LEMMA TaskImplements ==
    ASSUME Inv, Inv', OutcomeFacts, OutcomeFacts', NEW t \in tasks, TaskStep(t)
    PROVE  [Service!Next]_([k \in Keys |-> Outcome(k)])
<1> DEFINE o == t.claim
<1>1. /\ o \in DOMAIN jobs /\ Target(t) = o /\ (t.ref # 0 => t.ref = o)
      /\ jobs[o] \in JobRecord /\ RecordOK(jobs[o])
      /\ jobs[o].status \in {"running", "cancel_requested", "cancelled"}
  BY TaskLinks, RecordsOK DEF Inv, TypeOK, SingleExecution
<1>2. CASE TaskStart(t)
  <2>1. UNCHANGED jobs
    BY <1>2 DEF TaskStart
  <2>2. \A p \in DOMAIN jobs : Shown(p)' = Shown(p)
    BY <2>1 DEF Shown
  <2> QED
    BY <2>1, <2>2, ShownStutter
<1>3. ASSUME NEW j, Finish(t, j), Same(jobs[o], j)
      PROVE  [Service!Next]_([k \in Keys |-> Outcome(k)])
  <2>1. /\ DOMAIN jobs' = DOMAIN jobs
        /\ jobs'[o] = j
        /\ \A p \in DOMAIN jobs : p # o => jobs'[p] = jobs[p]
    BY <1>1, <1>3 DEF Finish
  <2>2. \A p \in DOMAIN jobs : jobs'[p].key = jobs[p].key
    BY <1>3, <2>1 DEF Same
  <2>3. \A p \in DOMAIN jobs : p # o => Shown(p)' = Shown(p)
    BY <2>1 DEF Shown
  <2>4. Shown(o) = "pending"
    BY <1>1 DEF Shown
  <2> HIDE DEF o
  <2> QED
    BY <1>1, <2>1, <2>2, <2>3, <2>4, ShownStep
<1>4. CASE TaskCancelled(t)
  BY <1>1, <1>3, <1>4, CancelWrites DEF TaskCancelled
<1>5. CASE TaskSucceeded(t)
  BY <1>1, <1>3, <1>5, SuccessWrites DEF TaskSucceeded
<1>6. CASE TaskRequeued(t)
  BY <1>1, <1>3, <1>6, RequeueWrites DEF TaskRequeued, MayRetry
<1>7. CASE TaskFailed(t)
  BY <1>1, <1>3, <1>7, FailureWrites DEF TaskFailed, MayRetry
<1> QED
  BY <1>2, <1>4, <1>5, <1>6, <1>7 DEF TaskStep

(* The store and its workers implement the abstract service: a key is      *)
(* accepted once, never forgotten, and its outcome decided at most once.   *)
THEOREM Refinement == CarefulSpec => ImplementsService
<1>1. Init => Service!Init
  <2> SUFFICES ASSUME Init PROVE Service!Init
    OBVIOUS
  <2>1. ASSUME NEW k \in Keys PROVE Outcome(k) = "absent"
    BY DEF Init, Outcome, Known, Stored
  <2> QED
    BY <2>1 DEF Service!Init
<1>2. Inv /\ Inv' /\ OutcomeFacts /\ OutcomeFacts' /\ [CarefulNext]_vars
        => [Service!Next]_([k \in Keys |-> Outcome(k)])
  <2> SUFFICES ASSUME Inv, Inv', OutcomeFacts, OutcomeFacts', [CarefulNext]_vars
               PROVE  [Service!Next]_([k \in Keys |-> Outcome(k)])
    OBVIOUS
  <2>1. CASE \E k \in Keys, f \in BOOLEAN : CarefulSubmit(k, f)
    BY <2>1, SubmitImplements
  <2>2. CASE \E o \in DOMAIN jobs : CarefulCancel(o)
    <3>1. PICK o \in DOMAIN jobs : CarefulCancel(o)
      BY <2>2
    <3>2. /\ jobs[o].status \in {"queued", "running"} /\ jobs[o] \in JobRecord
          /\ jobs' = [jobs EXCEPT ![o] = CancelRequestedFrom(jobs[o])]
      BY <3>1 DEF CarefulCancel, RequestCancel, Inv, TypeOK
    <3>3. /\ CancelRequestedFrom(jobs[o]).key = jobs[o].key
          /\ CancelRequestedFrom(jobs[o]).status = "cancel_requested"
      BY <3>2 DEF CancelRequestedFrom, JobRecord
    <3>4. /\ DOMAIN jobs' = DOMAIN jobs
          /\ \A p \in DOMAIN jobs : jobs'[p].key = jobs[p].key /\ Shown(p)' = Shown(p)
      BY <3>2, <3>3 DEF Shown
    <3> QED
      BY <3>4, ShownStutter
  <2>3. CASE \E w \in Workers : LoopIteration(w)
    BY <2>3, LoopShown, ShownStutter
  <2>4. CASE \E t \in tasks : TaskStep(t)
    BY <2>4, TaskImplements
  <2>5. CASE UNCHANGED jobs
    <3>1. \A p \in DOMAIN jobs : Shown(p)' = Shown(p)
      BY <2>5 DEF Shown
    <3> QED
      BY <2>5, <3>1, ShownStutter
  <2> QED
    BY <2>1, <2>2, <2>3, <2>4, <2>5
    DEF CarefulNext, RuntimeStep, Tick, StartWorker, StopWorker, EventLoopClosed, vars
<1> QED
  BY <1>1, <1>2, Invariance, OutcomesShown, PTL
  DEF CarefulSpec, ImplementsService, Service!Spec

-----------------------------------------------------------------------------
(* Clients that may do anything: two keys in one millisecond, cancellation *)
(* of jobs that ended.  Records drop out of the store and executors write  *)
(* to records of others, but these facts remain.                           *)

(* An id leads to a record as long as one was created with it.             *)
LastRecords == \A o \in DOMAIN jobs : \E p \in Stored : jobs[p].id = jobs[o].id

(* A key leads to one record at most.                                      *)
KeysStored == \A o, p \in Stored : jobs[o].key = jobs[p].key => o = p

ResultsStored == \A o \in DOMAIN jobs : jobs[o].status = "succeeded" => jobs[o].result

AnyInv == TypeOK /\ LastRecords /\ KeysStored /\ ResultsStored

(* What a write may do to a record.                                        *)
Kept(j, r) ==
    /\ Same(j, r)
    /\ j.result => r.result
    /\ r.status = "succeeded" => r.result \/ r = j

KeptAll(js) ==
    /\ js \in Seq(JobRecord)
    /\ DOMAIN js = DOMAIN jobs
    /\ \A o \in DOMAIN jobs : Kept(jobs[o], js[o])

LEMMA AnyWrite ==
    ASSUME NEW j \in JobRecord
    PROVE  /\ Kept(j, CancelRequestedFrom(j)) /\ Kept(j, CancelledFrom(j))
           /\ Kept(j, ClaimedFrom(j)) /\ Kept(j, SucceededFrom(j))
           /\ Kept(j, RequeuedFrom(j)) /\ Kept(j, FailedFrom(j))
<1>1. ASSUME NEW n \in Nat, NEW s \in Statuses, NEW b \in BOOLEAN,
             NEW e \in {"none", "cancelled", "failure"}
      PROVE  /\ [j EXCEPT !.status = s] \in JobRecord
             /\ [j EXCEPT !.status = s, !.error = e] \in JobRecord
             /\ [j EXCEPT !.status = s, !.result = b] \in JobRecord
             /\ [j EXCEPT !.status = s, !.attempts = n] \in JobRecord
  BY DEF JobRecord
<1>2. {"queued", "running", "succeeded", "failed", "cancel_requested", "cancelled"}
          \subseteq Statuses
  BY DEF Statuses
<1>3. /\ CancelRequestedFrom(j) \in JobRecord /\ CancelledFrom(j) \in JobRecord
      /\ SucceededFrom(j) \in JobRecord
      /\ RequeuedFrom(j) \in JobRecord /\ FailedFrom(j) \in JobRecord
  BY <1>1, <1>2
  DEF CancelRequestedFrom, CancelledFrom, SucceededFrom, RequeuedFrom, FailedFrom
<1>4. ClaimedFrom(j) \in JobRecord
  <2> DEFINE n == j.attempts + 1
  <2>1. n \in Nat
    BY DEF JobRecord
  <2>2. ClaimedFrom(j) = [j EXCEPT !.status = "running", !.attempts = n]
    BY DEF ClaimedFrom
  <2> HIDE DEF n
  <2> QED
    BY <1>1, <1>2, <2>1, <2>2
<1>5. ASSUME NEW r \in {CancelRequestedFrom(j), CancelledFrom(j), ClaimedFrom(j),
                        RequeuedFrom(j), FailedFrom(j)}
      PROVE  /\ r.id = j.id /\ r.key = j.key /\ r.fails = j.fails
             /\ r.result = j.result /\ r.status # "succeeded"
  BY DEF CancelRequestedFrom, CancelledFrom, ClaimedFrom, RequeuedFrom, FailedFrom,
         JobRecord
<1>6. LET r == SucceededFrom(j) IN
          r.id = j.id /\ r.key = j.key /\ r.fails = j.fails /\ r.result
  BY DEF SucceededFrom, JobRecord
<1> QED
  BY <1>3, <1>4, <1>5, <1>6 DEF Kept, Same

LEMMA WriteKeeps ==
    ASSUME TypeOK, NEW js, KeptAll(js), NEW o \in DOMAIN jobs, NEW j, Kept(js[o], j)
    PROVE  KeptAll([js EXCEPT ![o] = j])
<1> DEFINE ks == [js EXCEPT ![o] = j]
<1>1. j \in JobRecord
  BY DEF Kept, Same
<1>2. /\ ks \in Seq(JobRecord) /\ DOMAIN ks = DOMAIN js /\ ks[o] = j
      /\ \A p \in DOMAIN js : p # o => ks[p] = js[p]
  BY <1>1, Overwrite DEF KeptAll
<1> HIDE DEF ks
<1>3. Kept(jobs[o], j)
  BY DEF KeptAll, Kept, Same
<1> QED
  BY <1>2, <1>3 DEF KeptAll, ks

(* The two ways a step rewrites a record of the store.                     *)
LEMMA OneWrite ==
    ASSUME TypeOK, NEW o \in DOMAIN jobs, NEW j, Kept(jobs[o], j)
    PROVE  KeptAll([jobs EXCEPT ![o] = j])
<1>1. KeptAll(jobs)
  <2>1. \A p \in DOMAIN jobs : jobs[p] \in JobRecord
    BY DEF TypeOK
  <2> QED
    BY <2>1 DEF KeptAll, Kept, Same, TypeOK
<1> QED
  BY <1>1, WriteKeeps

LEMMA KeptStore ==
    ASSUME AnyInv, KeptAll(jobs')
    PROVE  /\ Stored' = Stored
           /\ LastRecords' /\ KeysStored' /\ ResultsStored'
<1>1. DOMAIN jobs' = DOMAIN jobs
  BY DEF KeptAll
<1>2. \A o \in DOMAIN jobs :
          /\ jobs'[o].id = jobs[o].id /\ jobs'[o].key = jobs[o].key
          /\ jobs[o].result => jobs'[o].result
          /\ jobs'[o].status = "succeeded" => jobs'[o].result \/ jobs'[o] = jobs[o]
  BY DEF KeptAll, Kept, Same
<1>3. Stored' = Stored
  BY <1>1, <1>2 DEF Stored
<1>4. Stored \subseteq DOMAIN jobs
  BY DEF Stored
<1>5. LastRecords'
  BY <1>1, <1>2, <1>3, <1>4 DEF AnyInv, LastRecords
<1>6. KeysStored'
  BY <1>2, <1>3, <1>4 DEF AnyInv, KeysStored
<1>7. ResultsStored'
  BY <1>1, <1>2 DEF AnyInv, ResultsStored
<1> QED
  BY <1>3, <1>5, <1>6, <1>7

(* The record an executor writes to exists, its own or a later one's.      *)
LEMMA TargetExists ==
    ASSUME AnyInv, NEW t \in tasks
    PROVE  /\ t \in Task /\ t.claim \in DOMAIN jobs
           /\ Target(t) \in Stored /\ Target(t) \in DOMAIN jobs
<1>1. t \in Task /\ t.claim \in DOMAIN jobs
  <2>1. t \in Task /\ t.claim \in DOMAIN jobs \cup {0}
    BY DEF AnyInv, TypeOK
  <2> QED
    BY <2>1 DEF Task
<1>2. \E p \in Stored : jobs[p].id = jobs[t.claim].id
  BY <1>1 DEF AnyInv, LastRecords
<1>3. Target(t) \in Stored
  BY <1>2 DEF Target, GetJob
<1> QED
  BY <1>1, <1>3 DEF Stored

(* One turn of the polling loop: two writes, and perhaps an executor.      *)
LEMMA LoopKeeps ==
    ASSUME AnyInv, NEW w \in Workers, LoopIteration(w)
    PROVE  KeptAll(jobs') /\ TypeOK'
<1>1. jobs \in Seq(JobRecord) /\ Stored \subseteq Nat /\ Stored \subseteq DOMAIN jobs
  BY DEF AnyInv, TypeOK, Stored
<1>2. KeptAll(Acknowledge(jobs))
  <2>1. CASE ToAcknowledge = {}
    <3>1. \A p \in DOMAIN jobs : jobs[p] \in JobRecord
      BY <1>1
    <3> QED
      BY <1>1, <2>1, <3>1 DEF Acknowledge, KeptAll, Kept, Same
  <2>2. CASE ToAcknowledge # {}
    <3> DEFINE o == First(ToAcknowledge)
    <3>1. o \in DOMAIN jobs
      BY <1>1, <2>2, FirstIsMember DEF ToAcknowledge, WithStatus
    <3>2. Acknowledge(jobs) = [jobs EXCEPT ![o] = CancelledFrom(jobs[o])]
      BY <2>2 DEF Acknowledge
    <3>3. Kept(jobs[o], CancelledFrom(jobs[o]))
      BY <1>1, <3>1, AnyWrite
    <3> HIDE DEF o
    <3> QED
      BY <3>1, <3>2, <3>3, OneWrite DEF AnyInv
  <2> QED
    BY <2>1, <2>2
<1>3. CASE ToClaim = {}
  <2>1. jobs' = Acknowledge(jobs) /\ UNCHANGED <<tasks, clock, looping, lost>>
    BY <1>3 DEF LoopIteration
  <2> QED
    BY <1>2, <2>1 DEF AnyInv, TypeOK, KeptAll
<1>4. CASE ToClaim # {}
  <2> DEFINE o == First(ToClaim)
             js == Acknowledge(jobs)
             t == [claim |-> o, attempt |-> jobs[o].attempts + 1, ref |-> 0]
  <2>1. o \in DOMAIN jobs /\ o \in Nat \ {0}
    <3>1. o \in DOMAIN jobs
      BY <1>1, <1>4, FirstIsMember DEF ToClaim, WithStatus
    <3> QED
      BY <1>1, <3>1
  <2>2. /\ jobs' = [js EXCEPT ![o] = ClaimedFrom(js[o])]
        /\ tasks' = tasks \cup {t}
        /\ UNCHANGED <<clock, looping, lost>>
    BY <1>4 DEF LoopIteration
  <2>3. jobs[o].attempts \in Nat /\ js[o] \in JobRecord
    <3>1. jobs[o] \in JobRecord
      BY <1>1, <2>1
    <3>2. jobs[o].attempts \in Nat
      BY <3>1 DEF JobRecord
    <3>3. js[o] \in JobRecord
      BY <1>2, <2>1 DEF KeptAll, Kept, Same
    <3> QED
      BY <3>2, <3>3
  <2>4. t \in Task /\ {t.claim, t.ref} \subseteq DOMAIN jobs \cup {0}
    BY <2>1, <2>3 DEF Task
  <2>5. Kept(js[o], ClaimedFrom(js[o]))
    BY <2>3, AnyWrite
  <2> HIDE DEF o, js, t
  <2>6. KeptAll(jobs')
    BY <1>2, <2>1, <2>2, <2>5, WriteKeeps DEF AnyInv, js
  <2> QED
    BY <2>2, <2>4, <2>6 DEF AnyInv, TypeOK, KeptAll
<1> QED
  BY <1>3, <1>4

LEMMA TaskKeeps ==
    ASSUME AnyInv, NEW t \in tasks, TaskStep(t)
    PROVE  KeptAll(jobs') /\ TypeOK'
<1>1. /\ t \in Task /\ t.claim \in DOMAIN jobs /\ Target(t) \in DOMAIN jobs
      /\ jobs \in Seq(JobRecord) /\ jobs[Target(t)] \in JobRecord
  BY TargetExists DEF AnyInv, TypeOK
<1>2. CASE TaskStart(t)
  <2> DEFINE u == [t EXCEPT !.ref = Target(t)]
  <2>1. u \in Task /\ u.claim = t.claim /\ u.ref = Target(t)
    BY <1>1 DEF Task
  <2>2. tasks' = (tasks \ {t}) \cup {u} /\ UNCHANGED <<clock, jobs, looping, lost>>
    BY <1>2 DEF TaskStart
  <2> HIDE DEF u
  <2>3. TypeOK'
    BY <1>1, <2>1, <2>2 DEF AnyInv, TypeOK
  <2>4. KeptAll(jobs')
    <3>1. \A p \in DOMAIN jobs : jobs[p] \in JobRecord
      BY <1>1
    <3> QED
      BY <1>1, <2>2, <3>1 DEF KeptAll, Kept, Same
  <2> QED
    BY <2>3, <2>4
<1>3. ASSUME NEW j, Finish(t, j), Kept(jobs[Target(t)], j)
      PROVE  KeptAll(jobs') /\ TypeOK'
  <2>1. /\ jobs' = [jobs EXCEPT ![Target(t)] = j] /\ tasks' = tasks \ {t}
        /\ UNCHANGED <<clock, looping, lost>>
    BY <1>3 DEF Finish
  <2>2. KeptAll(jobs')
    BY <1>1, <1>3, <2>1, OneWrite DEF AnyInv
  <2> QED
    BY <2>1, <2>2 DEF AnyInv, TypeOK, KeptAll
<1>4. CASE TaskCancelled(t) \/ TaskSucceeded(t) \/ TaskRequeued(t) \/ TaskFailed(t)
  BY <1>1, <1>3, <1>4, AnyWrite
  DEF TaskCancelled, TaskSucceeded, TaskRequeued, TaskFailed
<1> QED
  BY <1>2, <1>4 DEF TaskStep

(* Neither the runtime nor a cancellation creates, renames or forgets a    *)
(* record, or undoes a result.                                             *)
LEMMA RuntimeKeeps ==
    ASSUME AnyInv, RuntimeStep \/ \E o \in DOMAIN jobs : RequestCancel(o)
    PROVE  KeptAll(jobs') /\ TypeOK'
<1>1. CASE \E o \in DOMAIN jobs : RequestCancel(o)
  <2>1. PICK o \in DOMAIN jobs : RequestCancel(o)
    BY <1>1
  <2>2. /\ jobs' = [jobs EXCEPT ![o] = CancelRequestedFrom(jobs[o])]
        /\ UNCHANGED <<clock, tasks, looping, lost>>
    BY <2>1 DEF RequestCancel
  <2>3. jobs[o] \in JobRecord
    BY DEF AnyInv, TypeOK
  <2>4. KeptAll(jobs')
    BY <2>2, <2>3, OneWrite, AnyWrite DEF AnyInv
  <2> QED
    BY <2>2, <2>4 DEF AnyInv, TypeOK, KeptAll
<1>2. CASE UNCHANGED jobs
           /\ (Tick \/ EventLoopClosed \/ \E w \in Workers : StartWorker(w) \/ StopWorker(w))
  <2>1. \A p \in DOMAIN jobs : jobs[p] \in JobRecord
    BY DEF AnyInv, TypeOK
  <2>2. KeptAll(jobs')
    BY <1>2, <2>1 DEF KeptAll, Kept, Same, AnyInv, TypeOK
  <2>3. /\ clock \in Nat /\ jobs \in Seq(JobRecord) /\ tasks \subseteq Task
        /\ \A t \in tasks : {t.claim, t.ref} \subseteq DOMAIN jobs \cup {0}
        /\ looping \subseteq Workers /\ lost \subseteq DOMAIN jobs
    BY DEF AnyInv, TypeOK
  <2>4. {t.claim : t \in tasks} \subseteq DOMAIN jobs
    BY TargetExists
  <2>5. CASE Tick
    <3>1. clock' \in Nat /\ UNCHANGED <<jobs, tasks, looping, lost>>
      BY <2>3, <2>5 DEF Tick
    <3> QED
      BY <2>2, <2>3, <3>1 DEF TypeOK
  <2>6. CASE \E w \in Workers : StartWorker(w) \/ StopWorker(w)
    <3>1. looping' \subseteq Workers /\ UNCHANGED <<clock, jobs, tasks, lost>>
      BY <2>3, <2>6 DEF StartWorker, StopWorker
    <3> QED
      BY <2>2, <2>3, <3>1 DEF TypeOK
  <2>7. CASE EventLoopClosed
    <3>1. /\ looping' = {} /\ tasks' = {} /\ lost' \subseteq DOMAIN jobs
          /\ UNCHANGED <<clock, jobs>>
      BY <2>3, <2>4, <2>7 DEF EventLoopClosed
    <3> QED
      BY <2>2, <2>3, <3>1 DEF TypeOK
  <2> QED
    BY <1>2, <2>5, <2>6, <2>7
<1> QED
  BY <1>1, <1>2, LoopKeeps, TaskKeeps
  DEF RuntimeStep, Tick, EventLoopClosed, StartWorker, StopWorker

(* A submission adds one record at most; afterwards the key leads to the   *)
(* record whose id the client is given, and so does the id.                *)
LEMMA SubmitKeeps ==
    ASSUME AnyInv, NEW k \in Keys, NEW f \in BOOLEAN, Submit(k, f)
    PROVE  /\ AnyInv'
           /\ DOMAIN jobs \subseteq DOMAIN jobs'
           /\ \A o \in DOMAIN jobs : jobs'[o] = jobs[o] /\ (o \in Stored' => o \in Stored)
           /\ \E o \in Stored' :
                 /\ jobs'[o].key = k
                 /\ jobs'[o].id = IF Known(k) # {} THEN jobs[First(Known(k))].id
                                  ELSE NewId
                 /\ DOMAIN jobs' \subseteq DOMAIN jobs \cup {o}
                 /\ \A p \in Stored' : jobs'[p].key = k <=> jobs'[p].id = jobs'[o].id
<1>1. /\ jobs \in Seq(JobRecord) /\ Stored \subseteq Nat /\ Stored \subseteq DOMAIN jobs
      /\ DOMAIN jobs \subseteq Nat
  BY DEF AnyInv, TypeOK, Stored
<1>2. CASE Known(k) # {}
  <2> DEFINE o == First(Known(k))
  <2>1. UNCHANGED vars
    BY <1>2 DEF Submit, vars
  <2>2. AnyInv' /\ Stored' = Stored /\ jobs' = jobs
    BY <2>1 DEF vars, AnyInv, TypeOK, LastRecords, KeysStored, ResultsStored, Stored
  <2>3. o \in Stored /\ jobs[o].key = k
    <3>1. Known(k) \subseteq Nat /\ Known(k) \subseteq Stored
      BY <1>1 DEF Known
    <3>2. o \in Known(k)
      BY <1>2, <3>1, FirstIsMember
    <3> QED
      BY <3>2 DEF Known
  <2> HIDE DEF o
  <2>4. \A p \in Stored : jobs[p].key = k <=> jobs[p].id = jobs[o].id
    <3>1. \A p \in Stored : jobs[p].key = k => p = o
      BY <2>3 DEF AnyInv, KeysStored
    <3>2. \A p \in Stored : jobs[p].id = jobs[o].id => p = o
      BY <1>1, <2>3 DEF Stored
    <3> QED
      BY <2>3, <3>1, <3>2
  <2> QED
    BY <1>2, <2>2, <2>3, <2>4 DEF o
<1>3. CASE Known(k) = {}
  <2> DEFINE n == Len(jobs) + 1
             j == [id |-> NewId, key |-> k, fails |-> f, status |-> "queued",
                   attempts |-> 0, result |-> FALSE, error |-> "none"]
  <2>1. jobs' = Append(jobs, j) /\ UNCHANGED <<clock, tasks, looping, lost>>
    BY <1>3 DEF Submit
  <2>2. /\ j.key = k /\ j.id = NewId /\ j.status = "queued"
        /\ j \in JobRecord
    BY DEF JobRecord, Statuses, NewId, AnyInv, TypeOK
  <2> HIDE DEF j
  <2>3. /\ DOMAIN jobs' = DOMAIN jobs \cup {n}
        /\ jobs'[n] = j /\ jobs' \in Seq(JobRecord)
        /\ \A p \in DOMAIN jobs : jobs'[p] = jobs[p] /\ p < n
        /\ n \in Nat /\ n \notin DOMAIN jobs
    BY <1>1, <2>1, <2>2
  <2> HIDE DEF n
  <2>4. /\ n \in Stored'
        /\ \A p \in DOMAIN jobs :
              p \in Stored' <=> p \in Stored /\ jobs[p].id # NewId
    BY <1>1, <2>2, <2>3 DEF Stored
  <2>5. Stored' \subseteq DOMAIN jobs \cup {n}
    BY <2>3 DEF Stored
  <2>6. \A p \in Stored : jobs[p].key # k
    BY <1>3 DEF Known
  <2>7. TypeOK'
    <3>1. \A t \in tasks : {t.claim, t.ref} \subseteq DOMAIN jobs' \cup {0}
      BY <2>3 DEF AnyInv, TypeOK
    <3>2. lost \subseteq DOMAIN jobs'
      BY <2>3 DEF AnyInv, TypeOK
    <3> QED
      BY <2>1, <2>3, <3>1, <3>2 DEF AnyInv, TypeOK
  <2>8. LastRecords'
    <3> SUFFICES ASSUME NEW o \in DOMAIN jobs'
                 PROVE  \E p \in Stored' : jobs'[p].id = jobs'[o].id
      BY DEF LastRecords
    <3>1. CASE jobs'[o].id = NewId
      BY <2>2, <2>3, <2>4, <3>1
    <3>2. CASE jobs'[o].id # NewId
      <4>1. o \in DOMAIN jobs /\ jobs'[o] = jobs[o]
        BY <2>2, <2>3, <3>2
      <4>2. PICK p \in Stored : jobs[p].id = jobs[o].id
        BY <4>1 DEF AnyInv, LastRecords
      <4>3. p \in Stored' /\ jobs'[p] = jobs[p]
        BY <1>1, <2>3, <2>4, <3>2, <4>1, <4>2
      <4> QED
        BY <4>1, <4>2, <4>3
    <3> QED
      BY <3>1, <3>2
  <2>9. KeysStored'
    BY <1>1, <2>2, <2>3, <2>4, <2>5, <2>6 DEF AnyInv, KeysStored
  <2>10. ResultsStored'
    BY <2>2, <2>3 DEF AnyInv, ResultsStored
  <2>11. \A p \in Stored' : jobs'[p].key = k <=> jobs'[p].id = jobs'[n].id
    BY <2>2, <2>3, <2>4, <2>5, <2>6
  <2> QED
    BY <1>3, <2>2, <2>3, <2>4, <2>7, <2>8, <2>9, <2>10, <2>11 DEF AnyInv
<1> QED
  BY <1>2, <1>3

LEMMA AnyInitInv == Init => AnyInv
<1> SUFFICES ASSUME Init PROVE AnyInv
  OBVIOUS
<1>1. jobs = << >> /\ DOMAIN jobs = {}
  BY DEF Init
<1>2. jobs \in Seq(JobRecord)
  BY <1>1
<1> QED
  BY <1>1, <1>2
  DEF Init, AnyInv, TypeOK, LastRecords, KeysStored, ResultsStored, Stored

LEMMA AnyNextInv == AnyInv /\ [Next]_vars => AnyInv'
<1> SUFFICES ASSUME AnyInv, [Next]_vars PROVE AnyInv'
  OBVIOUS
<1>1. CASE RuntimeStep \/ \E o \in DOMAIN jobs : RequestCancel(o)
  BY <1>1, RuntimeKeeps, KeptStore DEF AnyInv
<1>2. CASE \E k \in Keys, f \in BOOLEAN : Submit(k, f)
  BY <1>2, SubmitKeeps
<1>3. CASE UNCHANGED vars
  BY <1>3 DEF vars, AnyInv, TypeOK, LastRecords, KeysStored, ResultsStored, Stored
<1> QED
  BY <1>1, <1>2, <1>3 DEF Next

(* Whatever clients submit and cancel, and whenever: every variable keeps   *)
(* its type, an id or a key leads to one record of the store at most, an   *)
(* id that was handed out to one at least, and what succeeded has a result. *)
THEOREM AnyClients == Spec => []AnyInv
BY AnyInitInv, AnyNextInv, PTL DEF Spec

(* In particular the types of store and worker do not depend on clients.   *)
THEOREM TypeCorrectForAnyClients == Spec => []TypeOK
<1>1. AnyInv => TypeOK
  BY DEF AnyInv
<1> QED
  BY <1>1, AnyClients, PTL

=============================================================================
