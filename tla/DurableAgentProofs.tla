------------------------- MODULE DurableAgentProofs -------------------------
(***************************************************************************)
(* Proofs about DurableAgent for every set of threads and workers, every   *)
(* step limit and every bound on jobs and events.  What a node does to the *)
(* channels comes from MacroGraphProofs, what the store does to its        *)
(* records, whatever its clients do, from JobWorkerProofs, with the keys   *)
(* of this module.                                                         *)
(***************************************************************************)
EXTENDS DurableAgent, MacroGraphProofs

Worker == INSTANCE JobWorkerProofs WITH Keys <- JobKeys

(* The variables of the graph have their types. *)
GraphTypes ==
    /\ values \in [Threads -> Channels]
    /\ next \in [Threads -> Nodes \cup {END}]
    /\ invoked \in SUBSET Threads
    /\ effect \in [Threads -> Nat \cup {NoJob}]
    /\ approved \in [Threads -> Plans \cup {NoPlan}]
    /\ abandoned \in SUBSET Nat

Submits(t) == next[t] = "submit_mcp_job" /\ ~Denied(values[t])

(* What a node in progress has submitted is the record of its key.  As     *)
(* long as the thread still has a record under the id, it is that one.     *)
EffectIsStored(t) ==
    effect[t] # NoJob =>
        /\ t \in invoked
        /\ Submits(t)
        /\ \E o \in DOMAIN jobs : jobs[o].key = JobKey(t) /\ jobs[o].id = effect[t]
        /\ \A o \in Worker!Stored : jobs[o].key[1] = t =>
              (jobs[o].key[2] = values[t].trace <=> jobs[o].id = effect[t])

JobsAreStored(t) ==
    \A i \in Jobs(values[t]) :
        \E o \in DOMAIN jobs : jobs[o].id = i /\ jobs[o].key[1] = t

HasResult(i) == \E o \in DOMAIN jobs : jobs[o].id = i /\ jobs[o].result

EvidenceSucceeded(t) ==
    \A i \in values[t].completed \cup values[t].cites : HasResult(i)

(* The keys of a thread's records are behind its trace: only the pending   *)
(* submission, or new input over one, can meet a key that is in use.       *)
KeysAreBehind(t) ==
    \A o \in DOMAIN jobs : jobs[o].key[1] = t =>
        /\ jobs[o].key[2] <= values[t].trace
        /\ jobs[o].key[2] = values[t].trace => next[t] = "parse_request" \/ Submits(t)

RecordsAreTracked(t) ==
    \A o \in Worker!Stored : jobs[o].key[1] = t =>
        \/ jobs[o].id \in Jobs(values[t])
        \/ jobs[o].id = effect[t]
        \/ next[t] = "submit_mcp_job" /\ jobs[o].key[2] = values[t].trace
        \/ jobs[o].id \in abandoned

ThreadInv(t) ==
    /\ Sound(next[t], values[t], approved[t])
    /\ EffectIsStored(t)
    /\ JobsAreStored(t)
    /\ EvidenceSucceeded(t)
    /\ KeysAreBehind(t)
    /\ RecordsAreTracked(t)

Inv == Worker!AnyInv /\ GraphTypes /\ \A t \in Threads : ThreadInv(t)

-----------------------------------------------------------------------------
(* The store of DurableAgent is the one of JobWorkerProofs.                *)

LEMMA SameStore ==
    /\ Store!Init <=> Worker!Init
    /\ Store!RuntimeStep <=> Worker!RuntimeStep
    /\ \A o : Store!RequestCancel(o) <=> Worker!RequestCancel(o)
    /\ \A k, f : Store!Submit(k, f) <=> Worker!Submit(k, f)
    /\ Store!Stored = Worker!Stored
    /\ \A i : Store!GetJob(i) = Worker!GetJob(i)
    /\ \A k : Store!Known(k) = Worker!Known(k)
    /\ \A S : Store!First(S) = Worker!First(S)
    /\ Store!NewId = Worker!NewId
    /\ Store!TypeOK <=> Worker!TypeOK
<1> USE DEF Store!Stored, Worker!Stored, Store!GetJob, Worker!GetJob,
            Store!Known, Worker!Known, Store!First, Worker!First,
            Store!NewId, Worker!NewId, Store!WithStatus, Worker!WithStatus,
            Store!CancelRequestedFrom, Worker!CancelRequestedFrom
<1>1. Store!Init <=> Worker!Init
  BY DEF Store!Init, Worker!Init
<1>2. Store!RuntimeStep <=> Worker!RuntimeStep
  BY DEF Store!RuntimeStep, Worker!RuntimeStep, Store!Tick, Worker!Tick,
         Store!StartWorker, Worker!StartWorker, Store!StopWorker, Worker!StopWorker,
         Store!LoopIteration, Worker!LoopIteration, Store!TaskStep, Worker!TaskStep,
         Store!EventLoopClosed, Worker!EventLoopClosed, Store!ToClaim, Worker!ToClaim,
         Store!Acknowledge, Worker!Acknowledge, Store!ToAcknowledge, Worker!ToAcknowledge,
         Store!ClaimedFrom, Worker!ClaimedFrom, Store!CancelledFrom, Worker!CancelledFrom,
         Store!TaskStart, Worker!TaskStart, Store!Target, Worker!Target,
         Store!TaskCancelled, Worker!TaskCancelled, Store!Finish, Worker!Finish,
         Store!SeesCancellation, Worker!SeesCancellation,
         Store!TaskSucceeded, Worker!TaskSucceeded, Store!SucceededFrom, Worker!SucceededFrom,
         Store!TaskRequeued, Worker!TaskRequeued, Store!RequeuedFrom, Worker!RequeuedFrom,
         Store!TaskFailed, Worker!TaskFailed, Store!FailedFrom, Worker!FailedFrom,
         Store!MayRetry, Worker!MayRetry
<1>3. \A o : Store!RequestCancel(o) <=> Worker!RequestCancel(o)
  BY DEF Store!RequestCancel, Worker!RequestCancel
<1>4. \A k, f : Store!Submit(k, f) <=> Worker!Submit(k, f)
  BY DEF Store!Submit, Worker!Submit
<1>5. Store!Stored = Worker!Stored
  OBVIOUS
<1>6. \A i : Store!GetJob(i) = Worker!GetJob(i)
  OBVIOUS
<1>7. /\ \A k : Store!Known(k) = Worker!Known(k)
      /\ \A S : Store!First(S) = Worker!First(S)
      /\ Store!NewId = Worker!NewId
  OBVIOUS
<1>8. Store!TypeOK <=> Worker!TypeOK
  BY DEF Store!TypeOK, Worker!TypeOK, Store!JobRecord, Worker!JobRecord,
         Store!Statuses, Worker!Statuses, Store!Task, Worker!Task
<1> QED
  BY <1>1, <1>2, <1>3, <1>4, <1>5, <1>6, <1>7, <1>8

(* What the store promises, with the keys of the threads.                  *)
LEMMA StoreIsKept ==
    ASSUME Worker!AnyInv, UNCHANGED storeVars
    PROVE  Worker!AnyInv' /\ Worker!Stored' = Worker!Stored
<1>1. Worker!AnyInv'
  BY Worker!AnyNextInv, StoreAssumption DEF Worker!vars, storeVars
<1> QED
  BY <1>1 DEF Worker!Stored, storeVars

LEMMA StoreRecords ==
    ASSUME Worker!AnyInv
    PROVE  /\ Worker!Stored \subseteq DOMAIN jobs
           /\ \A o \in DOMAIN jobs :
                 /\ jobs[o].id \in Nat /\ jobs[o].key \in JobKeys
                 /\ Worker!GetJob(jobs[o].id) \in Worker!Stored
                 /\ jobs[Worker!GetJob(jobs[o].id)].id = jobs[o].id
                 /\ jobs[o].status = "succeeded" => jobs[o].result
<1>1. \A o \in DOMAIN jobs : jobs[o] \in Worker!JobRecord
  BY DEF Worker!AnyInv, Worker!TypeOK
<1>2. \A o \in DOMAIN jobs : \E p \in Worker!Stored : jobs[p].id = jobs[o].id
  BY DEF Worker!AnyInv, Worker!LastRecords
<1>3. \A o \in DOMAIN jobs :
          /\ Worker!GetJob(jobs[o].id) \in Worker!Stored
          /\ jobs[Worker!GetJob(jobs[o].id)].id = jobs[o].id
  BY <1>2 DEF Worker!GetJob
<1> QED
  BY <1>1, <1>3 DEF Worker!AnyInv, Worker!ResultsStored, Worker!Stored, Worker!JobRecord

(* A key is its thread and its step.                                       *)
LEMMA KeyParts ==
    ASSUME Worker!AnyInv, NEW o \in DOMAIN jobs
    PROVE  /\ jobs[o].key[1] \in Threads
           /\ jobs[o].key[2] \in Nat
           /\ \A t : jobs[o].key = JobKey(t) <=>
                        jobs[o].key[1] = t /\ jobs[o].key[2] = values[t].trace
<1>1. jobs[o].key \in JobKeys
  BY StoreRecords
<1>2. PICK u \in Threads, n \in 0 .. StepLimit : jobs[o].key = <<u, n>>
  BY <1>1 DEF JobKeys
<1>3. \A t : JobKey(t) = <<t, values[t].trace>>
  BY DEF JobKey
<1> QED
  BY <1>2, <1>3, StepLimitAssumption

-----------------------------------------------------------------------------
(* Steps of the graph, the store untouched.                                *)

(* A thread that a step does not touch keeps its invariant, whatever jobs  *)
(* are abandoned meanwhile.                                                *)
LEMMA OtherThread ==
    ASSUME Inv, jobs' = jobs, Worker!Stored' = Worker!Stored, NEW u \in Threads, abandoned \subseteq abandoned',
           values'[u] = values[u], next'[u] = next[u], effect'[u] = effect[u],
           approved'[u] = approved[u], u \in invoked => u \in invoked'
    PROVE  ThreadInv(u)'
<1>1. ThreadInv(u)
  BY DEF Inv
<1>2. Jobs(values[u])' = Jobs(values[u]) /\ JobKey(u)' = JobKey(u)
  BY DEF Jobs, JobKey
<1>3. Submits(u)' <=> Submits(u)
  BY DEF Submits
<1>4. Sound(next[u], values[u], approved[u])'
  BY <1>1 DEF ThreadInv
<1>5. EffectIsStored(u)'
  BY <1>1, <1>2, <1>3 DEF ThreadInv, EffectIsStored
<1>6. JobsAreStored(u)' /\ EvidenceSucceeded(u)'
  BY <1>1, <1>2 DEF ThreadInv, JobsAreStored, EvidenceSucceeded, HasResult
<1>7. KeysAreBehind(u)' /\ RecordsAreTracked(u)'
  BY <1>1, <1>2, <1>3 DEF ThreadInv, KeysAreBehind, RecordsAreTracked
<1> QED
  BY <1>4, <1>5, <1>6, <1>7 DEF ThreadInv

(* A node that ends with the channels d and has submitted nothing.         *)
LEMMA NodeInv ==
    ASSUME Inv, UNCHANGED <<storeVars, effect, abandoned>>,
           NEW t \in Threads, NEW d, NEW b \in Plans \cup {NoPlan},
           effect[t] = NoJob, ~Submits(t),
           values' = [values EXCEPT ![t] = d],
           next' = [next EXCEPT ![t] = Successor(Node(t), d)],
           approved' = [approved EXCEPT ![t] = b],
           invoked' \in SUBSET Threads, invoked' \ {t} = invoked \ {t},
           SoundAfter(Node(t), d, b),
           Jobs(d) = Jobs(values[t]), d.trace = values[t].trace + 1,
           \A i \in d.completed \cup d.cites : HasResult(i)
    PROVE  Inv'
<1>1. /\ GraphTypes /\ Worker!AnyInv /\ Worker!AnyInv'
      /\ Worker!Stored' = Worker!Stored /\ Worker!Stored \subseteq DOMAIN jobs
  BY StoreIsKept, StoreRecords DEF Inv
<1>2. /\ values'[t] = d /\ next'[t] = Successor(Node(t), d) /\ approved'[t] = b
      /\ Sound(next[t], values[t], approved[t])'
  BY <1>1 DEF GraphTypes, SoundAfter
<1>3. GraphTypes'
  BY <1>1, <1>2 DEF GraphTypes, Sound
<1>4. jobs' = jobs /\ effect' = effect /\ abandoned' = abandoned
  BY DEF storeVars
<1>5. ThreadInv(t) /\ values[t].trace \in Nat
  BY DEF Inv, GraphTypes, Channels
<1>6. EffectIsStored(t)' /\ JobsAreStored(t)' /\ EvidenceSucceeded(t)'
  BY <1>2, <1>4, <1>5
  DEF ThreadInv, EffectIsStored, JobsAreStored, EvidenceSucceeded, HasResult
<1>7. KeysAreBehind(t)'
  BY <1>1, <1>2, <1>4, <1>5, KeyParts DEF ThreadInv, KeysAreBehind
<1>8. RecordsAreTracked(t)'
  <2> SUFFICES ASSUME NEW o \in Worker!Stored, jobs[o].key[1] = t
               PROVE  \/ jobs[o].id \in Jobs(d) \/ jobs[o].id = effect[t]
                      \/ jobs[o].id \in abandoned
    BY <1>1, <1>2, <1>4 DEF RecordsAreTracked
  <2>1. ~ (next[t] = "submit_mcp_job" /\ jobs[o].key[2] = values[t].trace)
    BY <1>1, <1>5 DEF ThreadInv, KeysAreBehind
  <2> QED
    BY <1>5, <2>1 DEF ThreadInv, RecordsAreTracked
<1>9. ASSUME NEW u \in Threads, u # t PROVE ThreadInv(u)'
  BY <1>1, <1>4, <1>9, OtherThread DEF GraphTypes
<1>10. ThreadInv(t)'
  BY <1>2, <1>6, <1>7, <1>8 DEF ThreadInv
<1> QED
  BY <1>1, <1>3, <1>9, <1>10 DEF Inv

(* Checkpoint as NodeInv has it. *)
LEMMA CheckpointInv ==
    ASSUME Inv, UNCHANGED <<storeVars, effect, historyVars>>,
           NEW t \in Threads, NEW d, Checkpoint(t, d), ~Submits(t),
           SoundAfter(Node(t), d, approved[t]),
           Jobs(d) = Jobs(values[t]), d.trace = values[t].trace + 1,
           \A i \in d.completed \cup d.cites : HasResult(i)
    PROVE  Inv'
<1>1. effect[t] = NoJob
  BY DEF Inv, ThreadInv, EffectIsStored
<1>2. approved[t] \in Plans \cup {NoPlan} /\ approved' = [approved EXCEPT ![t] = approved[t]]
  BY DEF Inv, GraphTypes, historyVars
<1>3. invoked' \in SUBSET Threads /\ invoked' \ {t} = invoked \ {t}
  BY DEF Checkpoint, Inv, GraphTypes
<1>4. abandoned' = abandoned
  BY DEF historyVars
<1>5. /\ values' = [values EXCEPT ![t] = d]
      /\ next' = [next EXCEPT ![t] = Successor(Node(t), d)]
  BY DEF Checkpoint
<1> QED
  BY <1>1, <1>2, <1>3, <1>4, <1>5, NodeInv

(* The channels a thread's node reads. *)
LEMMA NodeReads ==
    ASSUME Inv, NEW t \in Threads
    PROVE  /\ Sound(Node(t), values[t], approved[t])
           /\ values[t] \in Channels
           /\ \A i \in values[t].completed \cup values[t].cites : HasResult(i)
BY DEF Inv, GraphTypes, ThreadInv, EvidenceSucceeded, Node

(* The nodes that only compute.                                            *)
LEMMA ParseRequestInv ==
    ASSUME Inv, NEW t \in Threads, ParseRequestNode(t)
    PROVE  Inv'
<1> DEFINE d == ParseRequest(values[t])
<1>1. Node(t) = "parse_request" /\ Checkpoint(t, d) /\ ~Submits(t)
  BY DEF ParseRequestNode, RunsNode, Submits, Node
<1>2. SoundAfter(Node(t), d, approved[t])
  BY <1>1, NodeReads, ParseRequestSound
<1>3. /\ d.active = values[t].active /\ d.completed = values[t].completed
      /\ d.cites = values[t].cites /\ d.trace = values[t].trace + 1
  BY NodeReads, ParseRequestWrites
<1> HIDE DEF d
<1>4. Jobs(d) = Jobs(values[t])
  BY <1>3 DEF Jobs
<1>5. UNCHANGED <<storeVars, effect, historyVars>>
  BY DEF ParseRequestNode
<1> QED
  BY <1>1, <1>2, <1>3, <1>4, <1>5, NodeReads, CheckpointInv

LEMMA AssembleContextInv ==
    ASSUME Inv, NEW t \in Threads, AssembleContextNode(t)
    PROVE  Inv'
<1> DEFINE d == AssembleContext(values[t])
<1>1. Node(t) = "assemble_context" /\ Checkpoint(t, d) /\ ~Submits(t)
  BY DEF AssembleContextNode, RunsNode, Submits, Node
<1>2. SoundAfter(Node(t), d, approved[t])
  BY <1>1, NodeReads, AssembleContextSound
<1>3. /\ d.active = values[t].active /\ d.completed = values[t].completed
      /\ d.cites = values[t].cites /\ d.trace = values[t].trace + 1
  BY NodeReads, AssembleContextWrites
<1> HIDE DEF d
<1>4. Jobs(d) = Jobs(values[t])
  BY <1>3 DEF Jobs
<1>5. UNCHANGED <<storeVars, effect, historyVars>>
  BY DEF AssembleContextNode
<1> QED
  BY <1>1, <1>2, <1>3, <1>4, <1>5, NodeReads, CheckpointInv

LEMMA SubmitDeniedInv ==
    ASSUME Inv, NEW t \in Threads, SubmitDeniedNode(t)
    PROVE  Inv'
<1> DEFINE d == SubmitDenied(values[t])
<1>1. Node(t) = "submit_mcp_job" /\ Checkpoint(t, d) /\ ~Submits(t)
  BY DEF SubmitDeniedNode, RunsNode, Submits, Node
<1>2. SoundAfter(Node(t), d, approved[t])
  BY <1>1, NodeReads, SubmitDeniedSound
<1>3. /\ d.active = values[t].active /\ d.completed = values[t].completed
      /\ d.cites = values[t].cites /\ d.trace = values[t].trace + 1
  BY NodeReads, SubmitDeniedWrites
<1> HIDE DEF d
<1>4. Jobs(d) = Jobs(values[t])
  BY <1>3 DEF Jobs
<1>5. UNCHANGED <<storeVars, effect, historyVars>>
  BY DEF SubmitDeniedNode
<1> QED
  BY <1>1, <1>2, <1>3, <1>4, <1>5, NodeReads, CheckpointInv

(* What a poll records as completed is the thread's own job, which has     *)
(* succeeded.                                                              *)
LEMMA PollInv ==
    ASSUME Inv, NEW t \in Threads, PollJobStatusNode(t)
    PROVE  Inv'
<1> DEFINE i == Last(values[t].active)
           seen == StatusOf(i)
           d == Polled(values[t], i, seen)
<1>1. Node(t) = "poll_job_status" /\ Checkpoint(t, d) /\ ~Submits(t)
  BY DEF PollJobStatusNode, RunsNode, Submits, Node
<1>2. i \in Jobs(values[t]) /\ i \in Nat
  <2>1. values[t].active \in Seq(Nat) /\ values[t].active # << >>
    BY <1>1, NodeReads DEF Sound, OneJob, Channels
  <2>2. Len(values[t].active) \in DOMAIN values[t].active
    BY <2>1
  <2> QED
    BY <2>1, <2>2 DEF Jobs, Last
<1>3. seen = "succeeded" => HasResult(i)
  <2>1. PICK o \in DOMAIN jobs : jobs[o].id = i
    BY <1>2 DEF Inv, ThreadInv, JobsAreStored
  <2> DEFINE p == Worker!GetJob(i)
  <2>2. /\ p \in DOMAIN jobs /\ jobs[p].id = i
        /\ jobs[p].status = "succeeded" => jobs[p].result
    BY <2>1, StoreRecords DEF Inv
  <2>3. seen = "succeeded" => jobs[p].status = "succeeded"
    BY SameStore DEF StatusOf
  <2> QED
    BY <2>2, <2>3 DEF HasResult
<1> HIDE DEF i, seen
<1>4. SoundAfter(Node(t), d, approved[t])
  BY <1>1, <1>2, NodeReads, PolledSound
<1>5. /\ d.active = values[t].active
      /\ \/ d.completed = values[t].completed
         \/ d.completed = values[t].completed \cup {i} /\ seen = "succeeded"
      /\ d.cites = values[t].cites /\ d.trace = values[t].trace + 1
  BY <1>2, NodeReads, PolledWrites
<1>6. UNCHANGED <<storeVars, effect, historyVars>>
  BY DEF PollJobStatusNode
<1> HIDE DEF d
<1>7. Jobs(d) = Jobs(values[t])
  BY <1>5 DEF Jobs
<1>8. \A j \in d.completed \cup d.cites : HasResult(j)
  BY <1>3, <1>5, NodeReads
<1> QED
  BY <1>1, <1>4, <1>5, <1>6, <1>7, <1>8, CheckpointInv

LEMMA FinalizeInv ==
    ASSUME Inv, NEW t \in Threads, FinalizeNode(t)
    PROVE  Inv'
<1> DEFINE d == Finalize(values[t])
<1>1. Node(t) = "finalize" /\ Checkpoint(t, d) /\ ~Submits(t)
  BY DEF FinalizeNode, RunsNode, Submits, Node
<1>2. SoundAfter(Node(t), d, approved[t])
  BY <1>1, NodeReads, FinalizeSound
<1>3. /\ d.active = values[t].active /\ d.completed = values[t].completed
      /\ d.cites \subseteq values[t].completed /\ d.trace = values[t].trace + 1
  BY NodeReads, FinalizeWrites
<1> HIDE DEF d
<1>4. Jobs(d) = Jobs(values[t])
  BY <1>3 DEF Jobs
<1>5. UNCHANGED <<storeVars, effect, historyVars>>
  BY DEF FinalizeNode
<1>6. \A j \in d.completed \cup d.cites : HasResult(j)
  BY <1>3, NodeReads
<1> QED
  BY <1>1, <1>2, <1>3, <1>4, <1>5, <1>6, CheckpointInv

(* The decision of a human, on a thread no invocation runs.                *)
LEMMA ReviewInv ==
    ASSUME Inv, NEW t \in Threads, NEW action \in Decisions, NEW plan \in Plans,
           ReviewDecision(t, action, plan)
    PROVE  Inv'
<1> DEFINE d == HumanApproval(values[t], action, plan)
           b == IF Passes(action) THEN plan ELSE NoPlan
<1>1. /\ Node(t) = "human_approval" /\ t \notin invoked /\ ~Submits(t)
      /\ values' = [values EXCEPT ![t] = d]
      /\ approved' = [approved EXCEPT ![t] = b]
      /\ invoked' = invoked \cup {t}
      /\ UNCHANGED <<storeVars, effect, abandoned>>
  BY DEF ReviewDecision, Submits, Node
<1>2. next' = [next EXCEPT ![t] = Successor(Node(t), d)]
  <2>1. values'[t] = d
    BY <1>1 DEF Inv, GraphTypes
  <2> QED
    BY <1>1, <2>1 DEF ReviewDecision
<1>3. SoundAfter(Node(t), d, b)
  BY <1>1, NodeReads, HumanApprovalSound DEF Passes
<1>4. /\ d.active = values[t].active /\ d.completed = values[t].completed
      /\ d.cites = values[t].cites /\ d.trace = values[t].trace + 1
  BY NodeReads, HumanApprovalWrites
<1>5. b \in Plans \cup {NoPlan}
  OBVIOUS
<1> HIDE DEF d, b
<1>6. Jobs(d) = Jobs(values[t])
  BY <1>4 DEF Jobs
<1>7. effect[t] = NoJob
  BY <1>1 DEF Inv, ThreadInv, EffectIsStored
<1>8. invoked' \in SUBSET Threads /\ invoked' \ {t} = invoked \ {t}
  BY <1>1 DEF Inv, GraphTypes
<1> QED
  BY <1>1, <1>2, <1>3, <1>4, <1>5, <1>6, <1>7, <1>8, NodeReads, NodeInv

(* An invocation that begins or ends: the checkpoint stays, and what the   *)
(* node in progress had submitted is still found under its key.            *)
LEMMA InvocationInv ==
    ASSUME Inv, UNCHANGED <<storeVars, values, next, historyVars>>,
           NEW t \in Threads,
           invoked' \in SUBSET Threads, invoked' \ {t} = invoked \ {t},
           effect' = [effect EXCEPT ![t] = NoJob]
    PROVE  Inv'
<1>1. /\ GraphTypes /\ Worker!AnyInv /\ Worker!AnyInv' /\ ThreadInv(t)
      /\ Worker!Stored' = Worker!Stored /\ Worker!Stored \subseteq DOMAIN jobs
  BY StoreIsKept, StoreRecords DEF Inv
<1>2. /\ jobs' = jobs /\ values' = values /\ next' = next /\ approved' = approved
      /\ abandoned' = abandoned
  BY DEF storeVars, historyVars
<1>3. effect'[t] = NoJob
  BY <1>1 DEF GraphTypes
<1>4. GraphTypes'
  BY <1>1, <1>2 DEF GraphTypes
<1>5. /\ Sound(next[t], values[t], approved[t])' /\ EffectIsStored(t)'
      /\ JobsAreStored(t)' /\ EvidenceSucceeded(t)'
  BY <1>1, <1>2, <1>3
  DEF ThreadInv, EffectIsStored, JobsAreStored, EvidenceSucceeded, HasResult
<1>6. KeysAreBehind(t)'
  BY <1>1, <1>2 DEF ThreadInv, KeysAreBehind, Submits
<1>7. RecordsAreTracked(t)'
  <2> SUFFICES ASSUME NEW o \in Worker!Stored, jobs[o].key[1] = t
               PROVE  \/ jobs[o].id \in Jobs(values[t])
                      \/ next[t] = "submit_mcp_job" /\ jobs[o].key[2] = values[t].trace
                      \/ jobs[o].id \in abandoned
    BY <1>1, <1>2 DEF RecordsAreTracked
  <2>1. CASE jobs[o].id = effect[t]
    <3>1. effect[t] # NoJob
      BY <1>1, <2>1, StoreRecords DEF NoJob
    <3> QED
      BY <1>1, <2>1, <3>1 DEF ThreadInv, EffectIsStored, Submits
  <2>2. CASE jobs[o].id # effect[t]
    BY <1>1, <2>2 DEF ThreadInv, RecordsAreTracked
  <2> QED
    BY <2>1, <2>2
<1>8. ASSUME NEW u \in Threads, u # t PROVE ThreadInv(u)'
  BY <1>1, <1>2, <1>8, OtherThread DEF GraphTypes
<1>9. ThreadInv(t)'
  BY <1>5, <1>6, <1>7 DEF ThreadInv
<1> QED
  BY <1>1, <1>4, <1>8, <1>9 DEF Inv

(* A pause, a continuation and a death.                                    *)
LEMMA InterruptInv ==
    ASSUME Inv, NEW t \in Threads, Interrupt(t)
    PROVE  Inv'
<1>1. effect[t] = NoJob
  BY DEF Inv, ThreadInv, EffectIsStored, Submits, Interrupt, RunsNode, Node
<1>2. effect' = [effect EXCEPT ![t] = NoJob]
  BY <1>1 DEF Inv, GraphTypes, Interrupt
<1>3. invoked' \in SUBSET Threads /\ invoked' \ {t} = invoked \ {t}
  BY DEF Interrupt, Inv, GraphTypes
<1> QED
  BY <1>2, <1>3, InvocationInv DEF Interrupt

LEMMA RecoverInv ==
    ASSUME Inv, NEW t \in Threads, Recover(t)
    PROVE  Inv'
<1>1. effect[t] = NoJob
  BY DEF Inv, ThreadInv, EffectIsStored, Recover
<1>2. effect' = [effect EXCEPT ![t] = NoJob]
  BY <1>1 DEF Inv, GraphTypes, Recover
<1>3. invoked' \in SUBSET Threads /\ invoked' \ {t} = invoked \ {t}
  BY DEF Recover, Inv, GraphTypes
<1> QED
  BY <1>2, <1>3, InvocationInv DEF Recover

LEMMA CrashInv ==
    ASSUME Inv, NEW t \in Threads, Crash(t)
    PROVE  Inv'
<1>1. invoked' \in SUBSET Threads /\ invoked' \ {t} = invoked \ {t}
  BY DEF Crash, Inv, GraphTypes
<1> QED
  BY <1>1, InvocationInv DEF Crash

(* New input: what was pending is abandoned, and the keys in use are met   *)
(* again one step later at the earliest.                                   *)
LEMMA RunWorkflowInv ==
    ASSUME Inv, NEW t \in Threads, NEW q \in Asked, RunWorkflow(t, q)
    PROVE  Inv'
<1> DEFINE d == NewInput(values[t], q)
<1>1. /\ GraphTypes /\ Worker!AnyInv /\ Worker!AnyInv' /\ ThreadInv(t)
      /\ jobs' = jobs /\ effect' = effect
      /\ Worker!Stored' = Worker!Stored /\ Worker!Stored \subseteq DOMAIN jobs
  BY StoreIsKept, StoreRecords DEF Inv, RunWorkflow, storeVars
<1>2. effect[t] = NoJob
  BY <1>1 DEF ThreadInv, EffectIsStored, RunWorkflow
<1>3. /\ d \in Channels
      /\ d.active = values[t].active /\ d.completed = values[t].completed
      /\ d.cites = values[t].cites /\ d.trace = values[t].trace
  BY <1>1, NewInputWrites, AskedAssumption DEF GraphTypes
<1>4. Sound("parse_request", d, NoPlan)
  BY <1>1, NewInputSound, AskedAssumption DEF ThreadInv
<1>5. /\ values'[t] = d /\ next'[t] = "parse_request" /\ approved'[t] = NoPlan
      /\ \A u \in Threads \ {t} : /\ values'[u] = values[u] /\ next'[u] = next[u]
                                  /\ approved'[u] = approved[u]
      /\ invoked' = invoked \cup {t} /\ abandoned' = abandoned \cup Unrecorded(t)
  BY <1>1 DEF RunWorkflow, GraphTypes
<1>6. Unrecorded(t) \subseteq Nat
  BY <1>1, StoreRecords, SameStore DEF Unrecorded, Worker!Known
<1>7. GraphTypes'
  <2>1. values' \in [Threads -> Channels]
    BY <1>1, <1>3 DEF RunWorkflow, GraphTypes
  <2> QED
    BY <1>1, <1>5, <1>6, <2>1 DEF RunWorkflow, GraphTypes, Nodes
<1> HIDE DEF d
<1>8. Jobs(d) = Jobs(values[t])
  BY <1>3 DEF Jobs
<1>9. /\ Sound(next[t], values[t], approved[t])' /\ EffectIsStored(t)'
      /\ JobsAreStored(t)' /\ EvidenceSucceeded(t)' /\ KeysAreBehind(t)'
  BY <1>1, <1>2, <1>3, <1>4, <1>5, <1>8
  DEF ThreadInv, EffectIsStored, JobsAreStored, EvidenceSucceeded, HasResult, KeysAreBehind
<1>10. RecordsAreTracked(t)'
  <2> SUFFICES ASSUME NEW o \in Worker!Stored, jobs[o].key[1] = t
               PROVE  jobs[o].id \in Jobs(d) \/ jobs[o].id \in abandoned \cup Unrecorded(t)
    BY <1>1, <1>5 DEF RecordsAreTracked
  <2>1. CASE next[t] = "submit_mcp_job" /\ jobs[o].key[2] = values[t].trace
    <3>1. jobs[o].key = JobKey(t)
      BY <1>1, <2>1, KeyParts
    <3> QED
      BY <2>1, <3>1, SameStore DEF Unrecorded, Node, Worker!Known
  <2>2. CASE ~ (next[t] = "submit_mcp_job" /\ jobs[o].key[2] = values[t].trace)
    <3>1. jobs[o].id # effect[t]
      BY <1>1, <1>2, StoreRecords DEF NoJob
    <3> QED
      BY <1>1, <1>8, <2>2, <3>1 DEF ThreadInv, RecordsAreTracked
  <2> QED
    BY <2>1, <2>2
<1>11. ASSUME NEW u \in Threads, u # t PROVE ThreadInv(u)'
  BY <1>1, <1>5, <1>11, OtherThread
<1>12. ThreadInv(t)'
  BY <1>9, <1>10 DEF ThreadInv
<1> QED
  BY <1>1, <1>7, <1>11, <1>12 DEF Inv

(* The submitting node's updates: its job becomes the thread's one job.    *)
LEMMA SubmitReturnsInv ==
    ASSUME Inv, NEW t \in Threads, SubmitReturns(t)
    PROVE  Inv'
<1> DEFINE d == Submitted(values[t], effect[t])
<1>1. /\ GraphTypes /\ Worker!AnyInv /\ Worker!AnyInv' /\ ThreadInv(t)
      /\ Worker!Stored' = Worker!Stored /\ Worker!Stored \subseteq DOMAIN jobs
      /\ jobs' = jobs /\ approved' = approved /\ abandoned' = abandoned
      /\ next[t] = "submit_mcp_job" /\ effect[t] # NoJob
  BY StoreIsKept, StoreRecords
  DEF Inv, SubmitReturns, storeVars, historyVars, RunsNode, Node
<1>2. effect[t] \in Nat /\ values[t].trace \in Nat
  BY <1>1 DEF GraphTypes, Channels
<1>3. PICK p \in DOMAIN jobs : jobs[p].key = JobKey(t) /\ jobs[p].id = effect[t]
  BY <1>1 DEF ThreadInv, EffectIsStored
<1>4. jobs[p].key[1] = t /\ jobs[p].key[2] = values[t].trace
  BY <1>1, <1>3, KeyParts
<1>5. /\ values[t].active = << >>
      /\ values[t] \in Channels /\ Sound("submit_mcp_job", values[t], approved[t])
  BY <1>1 DEF ThreadInv, Sound, OneJob
<1>6. /\ SoundAfter("submit_mcp_job", d, approved[t]) /\ Jobs(d) = {effect[t]}
      /\ d.completed = values[t].completed /\ d.cites = values[t].cites
      /\ d.trace = values[t].trace + 1
  BY <1>2, <1>5, SubmittedSound, SubmittedWrites
<1>7. /\ values' = [values EXCEPT ![t] = d]
      /\ next' = [next EXCEPT ![t] = Successor("submit_mcp_job", d)]
      /\ effect' = [effect EXCEPT ![t] = NoJob]
      /\ invoked' \in SUBSET Threads /\ invoked' \ {t} = invoked \ {t}
  BY <1>1 DEF SubmitReturns, Checkpoint, Node, GraphTypes
<1> HIDE DEF d
<1>8. /\ values'[t] = d /\ effect'[t] = NoJob
      /\ Sound(next[t], values[t], approved[t])'
  BY <1>1, <1>6, <1>7 DEF GraphTypes, SoundAfter
<1>9. GraphTypes'
  BY <1>1, <1>7, <1>8 DEF GraphTypes, Sound
<1>10. EffectIsStored(t)' /\ JobsAreStored(t)' /\ EvidenceSucceeded(t)'
  BY <1>1, <1>3, <1>4, <1>6, <1>8
  DEF ThreadInv, EffectIsStored, JobsAreStored, EvidenceSucceeded, HasResult
<1>11. KeysAreBehind(t)'
  BY <1>1, <1>2, <1>6, <1>8, KeyParts DEF ThreadInv, KeysAreBehind
<1>12. RecordsAreTracked(t)'
  <2> SUFFICES ASSUME NEW o \in Worker!Stored, jobs[o].key[1] = t
               PROVE  jobs[o].id = effect[t] \/ jobs[o].id \in abandoned
    BY <1>1, <1>6, <1>8 DEF RecordsAreTracked
  <2>1. CASE jobs[o].key[2] = values[t].trace
    BY <1>1, <2>1 DEF ThreadInv, EffectIsStored
  <2>2. CASE jobs[o].key[2] # values[t].trace
    BY <1>1, <1>5, <2>2 DEF ThreadInv, RecordsAreTracked, Jobs
  <2> QED
    BY <2>1, <2>2
<1>13. ASSUME NEW u \in Threads, u # t PROVE ThreadInv(u)'
  BY <1>1, <1>7, <1>13, OtherThread DEF GraphTypes
<1>14. ThreadInv(t)'
  BY <1>8, <1>10, <1>11, <1>12 DEF ThreadInv
<1> QED
  BY <1>1, <1>9, <1>13, <1>14 DEF Inv

-----------------------------------------------------------------------------
(* Steps of the store.                                                     *)

(* A thread whose checkpoint a step leaves alone, while records are added  *)
(* for others and written to, none renamed and no result undone; some may  *)
(* drop out of the store.                                                  *)
LEMMA RecordsChange ==
    ASSUME Inv, NEW u \in Threads,
           UNCHANGED <<values, next, invoked, approved, abandoned>>,
           effect'[u] = effect[u],
           \A o \in DOMAIN jobs :
              /\ o \in DOMAIN jobs'
              /\ jobs'[o].id = jobs[o].id /\ jobs'[o].key = jobs[o].key
              /\ jobs[o].result => jobs'[o].result
              /\ o \in Worker!Stored' => o \in Worker!Stored,
           Worker!Stored' \subseteq DOMAIN jobs',
           \A o \in DOMAIN jobs' \ DOMAIN jobs : jobs'[o].key[1] # u
    PROVE  ThreadInv(u)'
<1>1. ThreadInv(u)
  BY DEF Inv
<1>2. Jobs(values[u])' = Jobs(values[u]) /\ JobKey(u)' = JobKey(u)
  BY DEF Jobs, JobKey
<1>3. Sound(next[u], values[u], approved[u])'
  BY <1>1 DEF ThreadInv
<1>4. EffectIsStored(u)'
  BY <1>1, <1>2 DEF ThreadInv, EffectIsStored, Submits
<1>5. JobsAreStored(u)' /\ EvidenceSucceeded(u)'
  BY <1>1, <1>2 DEF ThreadInv, JobsAreStored, EvidenceSucceeded, HasResult
<1>6. KeysAreBehind(u)' /\ RecordsAreTracked(u)'
  BY <1>1, <1>2 DEF ThreadInv, KeysAreBehind, RecordsAreTracked, Submits
<1> QED
  BY <1>3, <1>4, <1>5, <1>6 DEF ThreadInv

(* The worker, the clock and cancellations.                                *)
LEMMA StoreStepInv == Inv /\ StoreStep => Inv'
<1> SUFFICES ASSUME Inv, StoreStep PROVE Inv'
  OBVIOUS
<1>1. /\ Worker!AnyInv
      /\ Worker!RuntimeStep \/ \E o \in DOMAIN jobs : Worker!RequestCancel(o)
  BY SameStore DEF Inv, StoreStep
<1>2. Worker!KeptAll(jobs') /\ Worker!TypeOK'
  BY <1>1, Worker!RuntimeKeeps, StoreAssumption
<1>3. /\ Worker!AnyInv' /\ Worker!Stored' = Worker!Stored
      /\ Worker!Stored \subseteq DOMAIN jobs
      /\ DOMAIN jobs' = DOMAIN jobs
      /\ \A o \in DOMAIN jobs :
            /\ jobs'[o].id = jobs[o].id /\ jobs'[o].key = jobs[o].key
            /\ jobs[o].result => jobs'[o].result
  BY <1>1, <1>2, Worker!KeptStore, StoreRecords, StoreAssumption
  DEF Worker!AnyInv, Worker!KeptAll, Worker!Kept, Worker!Same
<1>4. UNCHANGED <<values, next, invoked, effect, approved, abandoned>>
  BY DEF StoreStep, graphVars, historyVars
<1>5. ASSUME NEW u \in Threads PROVE ThreadInv(u)'
  BY <1>3, <1>4, RecordsChange
<1>6. GraphTypes'
  BY <1>4 DEF Inv, GraphTypes
<1> QED
  BY <1>3, <1>5, <1>6 DEF Inv

(* The key of a thread that may submit is one of the store's keys, which   *)
(* is what the step limit is for here.                                     *)
LEMMA JobKeyInRange ==
    ASSUME Inv, NEW t \in Threads, next[t] = "submit_mcp_job"
    PROVE  JobKey(t) \in JobKeys
<1>1. values[t].trace < StepLimit
  BY DEF Inv, ThreadInv, Sound, Budgeted
<1>2. values[t].trace \in Nat
  BY DEF Inv, GraphTypes, Channels
<1> QED
  BY <1>1, <1>2, StepLimitAssumption DEF JobKey, JobKeys

(* A submission, new or replayed: the record it leads to is the thread's.  *)
(* A record with the same id, of whatever thread, drops out of the store.  *)
LEMMA SubmitEffectInv ==
    ASSUME Inv, NEW t \in Threads, SubmitEffect(t)
    PROVE  Inv'
<1> DEFINE k == JobKey(t)
           f == (values[t].plan = "failing")
           i == IF Worker!Known(k) # {} THEN jobs[Worker!First(Worker!Known(k))].id
                ELSE Worker!NewId
<1>1. /\ Worker!AnyInv /\ GraphTypes /\ ThreadInv(t)
      /\ t \in invoked /\ Submits(t) /\ effect[t] = NoJob
      /\ Worker!Submit(k, f) /\ effect' = [effect EXCEPT ![t] = i]
      /\ UNCHANGED <<values, next, invoked, approved, abandoned>>
  BY SameStore DEF Inv, SubmitEffect, RunsNode, Node, Submits, historyVars
<1>2. k \in JobKeys /\ f \in BOOLEAN
  BY <1>1, JobKeyInRange DEF Submits
<1>3. /\ Worker!AnyInv'
      /\ DOMAIN jobs \subseteq DOMAIN jobs'
      /\ \A p \in DOMAIN jobs :
            jobs'[p] = jobs[p] /\ (p \in Worker!Stored' => p \in Worker!Stored)
      /\ \E p \in Worker!Stored' :
            /\ jobs'[p].key = k /\ jobs'[p].id = i
            /\ DOMAIN jobs' \subseteq DOMAIN jobs \cup {p}
            /\ \A q \in Worker!Stored' : jobs'[q].key = k <=> jobs'[q].id = jobs'[p].id
  BY <1>1, <1>2, Worker!SubmitKeeps, StoreAssumption
<1> HIDE DEF f, i
<1>4. PICK o \in Worker!Stored' :
          /\ jobs'[o].key = k /\ jobs'[o].id = i
          /\ DOMAIN jobs' \subseteq DOMAIN jobs \cup {o}
          /\ \A q \in Worker!Stored' : jobs'[q].key = k <=> jobs'[q].id = jobs'[o].id
  BY <1>3
<1>5. /\ Worker!Stored' \subseteq DOMAIN jobs' /\ o \in DOMAIN jobs'
      /\ Worker!Stored \subseteq DOMAIN jobs
      /\ jobs'[o].id \in Nat /\ \A p \in DOMAIN jobs' : jobs'[p].key \in JobKeys
  <2>1. /\ Worker!Stored' \subseteq DOMAIN jobs'
        /\ jobs' \in Seq(Worker!JobRecord)
    BY <1>3 DEF Worker!AnyInv, Worker!TypeOK, Worker!Stored
  <2>2. \A p \in DOMAIN jobs' : jobs'[p] \in Worker!JobRecord
    BY <2>1
  <2> QED
    BY <1>1, <2>1, <2>2, StoreRecords DEF Worker!JobRecord
<1>6. k = <<t, values[t].trace>> /\ k' = k /\ values[t].trace \in Nat
  BY <1>1 DEF JobKey, GraphTypes, Channels
<1>7. \A p \in DOMAIN jobs' : jobs'[p].key[1] = t =>
          (jobs'[p].key[2] = values[t].trace <=> jobs'[p].key = k)
  BY <1>5, <1>6 DEF JobKeys
<1> HIDE DEF k
<1>8. effect'[t] = i /\ effect' \in [Threads -> Nat \cup {NoJob}]
  BY <1>1, <1>4, <1>5 DEF GraphTypes
<1>9. GraphTypes'
  BY <1>1, <1>8 DEF GraphTypes
<1>10. Sound(next[t], values[t], approved[t])'
  BY <1>1 DEF ThreadInv
<1>11. EffectIsStored(t)'
  <2>1. t \in invoked' /\ Submits(t)'
    BY <1>1 DEF Submits
  <2>2. \E p \in DOMAIN jobs' : jobs'[p].key = JobKey(t)' /\ jobs'[p].id = effect'[t]
    BY <1>4, <1>5, <1>6, <1>8 DEF k
  <2>3. \A p \in Worker!Stored' : jobs'[p].key[1] = t =>
            (jobs'[p].key[2] = values'[t].trace <=> jobs'[p].id = effect'[t])
    BY <1>1, <1>4, <1>5, <1>7, <1>8
  <2> QED
    BY <2>1, <2>2, <2>3 DEF EffectIsStored
<1>12. JobsAreStored(t)' /\ EvidenceSucceeded(t)'
  BY <1>1, <1>3 DEF ThreadInv, JobsAreStored, EvidenceSucceeded, HasResult, Jobs
<1>13. KeysAreBehind(t)'
  <2> SUFFICES ASSUME NEW p \in DOMAIN jobs', jobs'[p].key[1] = t
               PROVE  jobs'[p].key[2] <= values[t].trace
    BY <1>1 DEF KeysAreBehind, Submits
  <2>1. CASE p = o
    BY <1>4, <1>6, <2>1
  <2>2. CASE p \in DOMAIN jobs
    BY <1>1, <1>3, <2>2 DEF ThreadInv, KeysAreBehind
  <2> QED
    BY <1>4, <2>1, <2>2
<1>14. RecordsAreTracked(t)'
  <2> SUFFICES ASSUME NEW p \in Worker!Stored', jobs'[p].key[1] = t, p # o
               PROVE  \/ jobs'[p].id \in Jobs(values[t])
                      \/ next[t] = "submit_mcp_job" /\ jobs'[p].key[2] = values[t].trace
                      \/ jobs'[p].id \in abandoned
    BY <1>1, <1>4, <1>8 DEF RecordsAreTracked
  <2>1. p \in Worker!Stored /\ p \in DOMAIN jobs /\ jobs'[p] = jobs[p]
    BY <1>3, <1>4, <1>5
  <2>2. jobs[p].id # effect[t]
    BY <1>1, <2>1, StoreRecords DEF NoJob
  <2> QED
    BY <1>1, <2>1, <2>2 DEF ThreadInv, RecordsAreTracked
<1>15. ASSUME NEW u \in Threads, u # t PROVE ThreadInv(u)'
  <2>1. effect'[u] = effect[u]
    BY <1>1, <1>15 DEF GraphTypes
  <2>2. \A p \in DOMAIN jobs' \ DOMAIN jobs : jobs'[p].key[1] # u
    BY <1>4, <1>6, <1>15
  <2> QED
    BY <1>1, <1>3, <1>5, <2>1, <2>2, RecordsChange
<1>16. ThreadInv(t)'
  BY <1>10, <1>11, <1>12, <1>13, <1>14 DEF ThreadInv
<1> QED
  BY <1>3, <1>9, <1>15, <1>16 DEF Inv

-----------------------------------------------------------------------------
(* Every step.                                                             *)

(* The initial state.                                                      *)
LEMMA InitInv == Init => Inv
<1> SUFFICES ASSUME Init PROVE Inv
  OBVIOUS
<1>1. Worker!AnyInv
  BY SameStore, Worker!AnyInitInv, StoreAssumption DEF Init
<1>2. jobs = << >> /\ DOMAIN jobs = {}
  BY DEF Init, Store!Init
<1>3. NoChannels \in Channels /\ \A a : Sound(END, NoChannels, a)
  BY NoChannelsSound DEF Sound
<1>4. GraphTypes
  BY <1>3 DEF Init, GraphTypes
<1>5. ASSUME NEW t \in Threads PROVE ThreadInv(t)
  <2>1. /\ next[t] = END /\ values[t] = NoChannels /\ effect[t] = NoJob
        /\ Jobs(NoChannels) = {}
        /\ NoChannels.completed = {} /\ NoChannels.cites = {}
    BY DEF Init, Jobs, NoChannels
  <2> QED
    BY <1>2, <1>3, <2>1
    DEF ThreadInv, EffectIsStored, JobsAreStored, EvidenceSucceeded, KeysAreBehind,
        RecordsAreTracked, Worker!Stored
<1> QED
  BY <1>1, <1>4, <1>5 DEF Inv

(* Steps of anything else.                                                 *)
LEMMA StutterInv == Inv /\ UNCHANGED vars => Inv'
<1> SUFFICES ASSUME Inv, UNCHANGED vars PROVE Inv'
  OBVIOUS
<1>1. Worker!AnyInv' /\ Worker!Stored' = Worker!Stored
  BY StoreIsKept DEF Inv, vars
<1>2. /\ jobs' = jobs /\ values' = values /\ next' = next /\ invoked' = invoked
      /\ effect' = effect /\ approved' = approved /\ abandoned' = abandoned
  BY DEF vars, storeVars, graphVars, historyVars
<1>3. ASSUME NEW u \in Threads PROVE ThreadInv(u)'
  BY <1>1, <1>2, OtherThread
<1>4. GraphTypes'
  BY <1>2 DEF Inv, GraphTypes
<1> QED
  BY <1>1, <1>3, <1>4 DEF Inv

(* The invariant is inductive.                                             *)
LEMMA NextInv == Inv /\ [Next]_vars => Inv'
<1> SUFFICES ASSUME Inv, [Next]_vars PROVE Inv'
  OBVIOUS
<1>1. ASSUME NEW t \in Threads, ThreadStep(t) PROVE Inv'
  BY <1>1, ParseRequestInv, AssembleContextInv, InterruptInv, SubmitDeniedInv,
     SubmitEffectInv, SubmitReturnsInv, PollInv, FinalizeInv DEF ThreadStep
<1>2. ASSUME NEW t \in Threads, ClientStep(t) PROVE Inv'
  BY <1>2, RunWorkflowInv, ReviewInv, RecoverInv DEF ClientStep
<1>3. ASSUME NEW t \in Threads, Crash(t) PROVE Inv'
  BY <1>3, CrashInv
<1> QED
  BY <1>1, <1>2, <1>3, StoreStepInv, StutterInv DEF Next

-----------------------------------------------------------------------------
(* The theorems.                                                           *)

(* However threads, crashes, reviews, reruns, the worker and cancellations *)
(* interleave, whatever ids collide: checkpoints are sound, what a node    *)
(* submitted was stored under its own key, and evidence has a result.      *)
THEOREM AgentInvariance == Spec => []Inv
BY InitInv, NextInv, PTL DEF Spec

(* Every variable of threads, store and worker has its type.               *)
THEOREM AgentTypeCorrect == Spec => []TypeOK
<1>1. Inv => TypeOK
  <2>1. Worker!AnyInv => Worker!TypeOK
    BY DEF Worker!AnyInv
  <2> QED
    BY <2>1, SameStore DEF Inv, GraphTypes, TypeOK
<1> QED
  BY <1>1, AgentInvariance, PTL

(* submit_mcp_job and its idempotency key: a thread tracks one job at      *)
(* most, submitted by itself; its id leads elsewhere, or is tracked by     *)
(* another thread, only if the store gave it twice.                        *)
THEOREM ThreadIsolation == Spec => []ThreadsAreIsolated
<1>1. Inv => ThreadsAreIsolated
  <2> SUFFICES ASSUME Inv, NEW t \in Threads
               PROVE  /\ Len(values[t].active) <= 1
                      /\ \A i \in Active(t) \cup ({effect[t]} \ {NoJob}) :
                            \E o \in DOMAIN jobs :
                                /\ jobs[o].id = i /\ jobs[o].key[1] = t
                                /\ o \in Worker!Stored \/ Collided(i)
                      /\ \A u \in Threads \ {t} :
                            \A i \in Active(t) \cap Active(u) : Collided(i)
    BY SameStore DEF ThreadsAreIsolated
  <2>1. \A u \in Threads : Active(u) = Jobs(values[u]) /\ ThreadInv(u)
    BY DEF Active, Jobs, Inv
  <2>2. Len(values[t].active) <= 1
    BY <2>1 DEF ThreadInv, Sound, OneJob
  <2>3. \A u \in Threads : \A i \in Active(u) :
            \E o \in DOMAIN jobs : jobs[o].id = i /\ jobs[o].key[1] = u
    BY <2>1 DEF ThreadInv, JobsAreStored
  <2>4. effect[t] # NoJob =>
            \E o \in DOMAIN jobs : jobs[o].id = effect[t] /\ jobs[o].key[1] = t
    BY <2>1, KeyParts DEF Inv, ThreadInv, EffectIsStored
  <2>5. \A o \in DOMAIN jobs : o \in Worker!Stored \/ Collided(jobs[o].id)
    <3> SUFFICES ASSUME NEW o \in DOMAIN jobs, o \notin Worker!Stored
                 PROVE  Collided(jobs[o].id)
      OBVIOUS
    <3>1. PICK p \in DOMAIN jobs : p > o /\ jobs[p].id = jobs[o].id
      BY DEF Worker!Stored
    <3>2. jobs \in Seq(Worker!JobRecord)
      BY DEF Inv, Worker!AnyInv, Worker!TypeOK
    <3>3. p # o
      BY <3>1, <3>2
    <3> QED
      BY <3>1, <3>3 DEF Collided
  <2>6. \A u \in Threads \ {t} : \A i \in Active(t) \cap Active(u) : Collided(i)
    BY <2>3 DEF Collided
  <2> QED
    BY <2>2, <2>3, <2>4, <2>5, <2>6
<1> QED
  BY <1>1, AgentInvariance, PTL

(* poll_job_status and finalize: what is recorded or cited as evidence has *)
(* a result and keeps it, and is the thread's own job, or of a job that    *)
(* was given the same id.                                                  *)
THEOREM EvidenceStaysReal == Spec => []EvidenceIsReal
<1>1. Inv => EvidenceIsReal
  <2> SUFFICES ASSUME Inv, NEW t \in Threads,
                      NEW i \in values[t].completed \cup values[t].cites
               PROVE  /\ i \in Active(t)
                      /\ \E o \in DOMAIN jobs :
                            /\ jobs[o].id = i /\ jobs[o].result
                            /\ jobs[o].key[1] = t \/ Collided(i)
    BY DEF EvidenceIsReal
  <2>1. ThreadInv(t) /\ Active(t) = Jobs(values[t])
    BY DEF Inv, Active, Jobs
  <2>2. i \in Active(t)
    BY <2>1 DEF ThreadInv, Sound, OneJob
  <2>3. PICK p \in DOMAIN jobs : jobs[p].id = i /\ jobs[p].key[1] = t
    BY <2>1, <2>2 DEF ThreadInv, JobsAreStored
  <2>4. PICK o \in DOMAIN jobs : jobs[o].id = i /\ jobs[o].result
    BY <2>1 DEF ThreadInv, EvidenceSucceeded, HasResult
  <2>5. o # p => Collided(i)
    BY <2>3, <2>4 DEF Collided
  <2> QED
    BY <2>2, <2>3, <2>4, <2>5
<1> QED
  BY <1>1, AgentInvariance, PTL

(* Wherever an invocation dies, no job is orphaned: it is in its thread's  *)
(* checkpoint, found again by the replay, or discarded by new input.       *)
THEOREM NoJobIsLost == Spec => []EveryJobIsTracked
<1>1. Inv => EveryJobIsTracked
  <2> SUFFICES ASSUME Inv, NEW o \in Worker!Stored
               PROVE  LET t == jobs[o].key[1]
                          i == jobs[o].id
                      IN  Tracks(t, i) \/ i \in Unrecorded(t) \/ i \in abandoned
    BY SameStore DEF EveryJobIsTracked
  <2> DEFINE t == jobs[o].key[1]
  <2>1. Worker!AnyInv /\ o \in DOMAIN jobs
    BY StoreRecords DEF Inv
  <2>2. t \in Threads
    BY <2>1, KeyParts
  <2>3. ThreadInv(t) /\ Active(t) = Jobs(values[t])
    BY <2>2 DEF Inv, Active, Jobs
  <2>4. CASE next[t] = "submit_mcp_job" /\ jobs[o].key[2] = values[t].trace
    <3>1. jobs[o].key = JobKey(t)
      BY <2>1, <2>4, KeyParts
    <3> QED
      BY <2>4, <3>1, SameStore DEF Unrecorded, Node, Worker!Known
  <2>5. CASE ~ (next[t] = "submit_mcp_job" /\ jobs[o].key[2] = values[t].trace)
    BY <2>1, <2>3, <2>5 DEF ThreadInv, RecordsAreTracked, Tracks
  <2> QED
    BY <2>4, <2>5
<1> QED
  BY <1>1, AgentInvariance, PTL

(* human_approval and decide_next_action: what executes under a query that *)
(* calls for approval is the plan the last review of this run let pass.    *)
THEOREM ReviewIsBinding == Spec => []OnlyReviewedPlansRun
<1>1. Inv => OnlyReviewedPlansRun
  BY DEF Inv, ThreadInv, Sound, Reviewed, Nodes, OnlyReviewedPlansRun, Node
<1> QED
  BY <1>1, AgentInvariance, PTL

(* decide_next_action: no cycle of the graph gets round the step limit.    *)
THEOREM StepsAreBounded == Spec => []StepBudget
<1>1. Inv => StepBudget
  BY DEF Inv, ThreadInv, Sound, Budgeted, StepBudget, Node
<1> QED
  BY <1>1, AgentInvariance, PTL

(* finalize: a research question is reported as completed only with its    *)
(* finished job, or with an error on record.                               *)
THEOREM ReportsAreBacked == Spec => []NoReportBeforeTheJob
<1>1. Inv => NoReportBeforeTheJob
  <2> SUFFICES ASSUME Inv, NEW t \in Threads, values[t].status = "completed",
                      values[t].intent = "macro_diagnostics"
               PROVE  \/ values[t].errors # {}
                      \/ Active(t) # {} /\ Active(t) \subseteq values[t].completed
    BY DEF NoReportBeforeTheJob
  <2>1. Settled(values[t])
    BY DEF Inv, ThreadInv, Sound, Reported
  <2>2. values[t].active \in Seq(Nat)
    BY DEF Inv, GraphTypes, Channels
  <2>3. values[t].active # << >> => Active(t) # {}
    <3>1. values[t].active # << >> => 1 \in DOMAIN values[t].active
      BY <2>2
    <3> QED
      BY <3>1 DEF Active
  <2> QED
    BY <2>1, <2>3 DEF Settled, PendingJobs, Active
<1> QED
  BY <1>1, AgentInvariance, PTL

-----------------------------------------------------------------------------
(* The composition.                                                        *)

(* A step of the agent is a step of the store that its clients may take,   *)
(* or leaves the store alone: keys are well-formed within the step limit.  *)
LEMMA StepsOfTheStore ==
    ASSUME Inv, [Next]_vars
    PROVE  \/ UNCHANGED storeVars
           \/ Worker!RuntimeStep
           \/ \E k \in JobKeys, f \in BOOLEAN : Worker!Submit(k, f)
           \/ \E o \in DOMAIN jobs : Worker!RequestCancel(o)
<1>1. ASSUME NEW t \in Threads, SubmitEffect(t)
      PROVE  \E k \in JobKeys, f \in BOOLEAN : Worker!Submit(k, f)
  <2> DEFINE k == JobKey(t)
             f == (values[t].plan = "failing")
  <2>1. k \in JobKeys /\ f \in BOOLEAN
    BY <1>1, JobKeyInRange DEF SubmitEffect, RunsNode, Node
  <2>2. Worker!Submit(k, f)
    BY <1>1, SameStore DEF SubmitEffect
  <2> QED
    BY <2>1, <2>2
<1>2. ASSUME NEW t \in Threads, ThreadStep(t), ~SubmitEffect(t) PROVE UNCHANGED storeVars
  BY <1>2 DEF ThreadStep, ParseRequestNode, AssembleContextNode, Interrupt,
              SubmitDeniedNode, SubmitReturns, PollJobStatusNode, FinalizeNode
<1>3. ASSUME NEW t \in Threads, ClientStep(t) \/ Crash(t) PROVE UNCHANGED storeVars
  BY <1>3 DEF ClientStep, RunWorkflow, ReviewDecision, Recover, Crash
<1>4. CASE StoreStep
  BY <1>4, SameStore DEF StoreStep
<1>5. CASE UNCHANGED vars
  BY <1>5 DEF vars
<1> QED
  BY <1>1, <1>2, <1>3, <1>4, <1>5 DEF Next

(* The agent is a client of JobWorker: whatever its threads do, its store   *)
(* and worker behave as that module says, so AnyInv of JobWorkerProofs and *)
(* all else that is proved there for any clients holds of them.            *)
THEOREM AgentUsesTheStore == Spec => Worker!Spec
<1>1. Init => Worker!Init
  BY SameStore DEF Init
<1>2. Inv /\ [Next]_vars => [Worker!Next]_(Worker!vars)
  BY StepsOfTheStore DEF Worker!Next, Worker!vars, storeVars
<1> QED
  BY <1>1, <1>2, AgentInvariance, PTL DEF Spec, Worker!Spec

(* What the two assumptions buy: no submission meets an id of its own      *)
(* millisecond, and no cancellation changes a job that has ended.          *)
LEMMA StepsAreCareful ==
    ASSUME Inv, [Next]_vars, IdsAreDistinct', [CancelsInTime]_vars
    PROVE  [Worker!CarefulNext]_(Worker!vars)
<1>1. ASSUME NEW k \in JobKeys, NEW f \in BOOLEAN, Worker!Submit(k, f)
      PROVE  Worker!CarefulSubmit(k, f)
  <2> SUFFICES ASSUME Worker!Known(k) = {}, NEW o \in DOMAIN jobs
               PROVE  jobs[o].id # clock
    BY <1>1 DEF Worker!CarefulSubmit
  <2> DEFINE j == [id |-> clock, key |-> k, fails |-> f, status |-> "queued",
                   attempts |-> 0, result |-> FALSE, error |-> "none"]
             n == Len(jobs) + 1
  <2>1. jobs \in Seq(Worker!JobRecord) /\ clock \in Nat
    BY DEF Inv, Worker!AnyInv, Worker!TypeOK
  <2>2. jobs' = Append(jobs, j) /\ j.id = clock /\ j \in Worker!JobRecord
    BY <1>1, <2>1
    DEF Worker!Submit, Worker!NewId, Worker!JobRecord, Worker!Statuses
  <2> HIDE DEF j
  <2>3. /\ n \in DOMAIN jobs' /\ jobs'[n].id = clock
        /\ o \in DOMAIN jobs' /\ jobs'[o] = jobs[o] /\ o # n
    BY <2>1, <2>2
  <2> QED
    BY <2>3 DEF IdsAreDistinct
<1>2. ASSUME NEW o \in DOMAIN jobs, Worker!RequestCancel(o)
      PROVE  Worker!CarefulCancel(o) \/ UNCHANGED Worker!vars
  <2>1. /\ jobs \in Seq(Worker!JobRecord) /\ jobs[o] \in Worker!JobRecord
        /\ jobs' = [jobs EXCEPT ![o] = Worker!CancelRequestedFrom(jobs[o])]
        /\ UNCHANGED <<clock, tasks, looping, lost>>
    BY <1>2 DEF Inv, Worker!AnyInv, Worker!TypeOK, Worker!RequestCancel
  <2>2. CASE jobs[o].status = "cancel_requested"
    <3>1. Worker!CancelRequestedFrom(jobs[o]) = jobs[o]
      BY <2>1, <2>2 DEF Worker!CancelRequestedFrom, Worker!JobRecord
    <3>2. jobs' = jobs
      BY <2>1, <3>1
    <3> QED
      BY <2>1, <3>2 DEF Worker!vars
  <2>3. CASE jobs[o].status # "cancel_requested"
    <3>1. jobs'[o].status = "cancel_requested"
      BY <2>1 DEF Worker!CancelRequestedFrom, Worker!JobRecord
    <3>2. CancelsInTime
      BY <2>3, <3>1 DEF vars, storeVars
    <3> QED
      BY <1>2, <2>3, <3>1, <3>2 DEF CancelsInTime, Worker!CarefulCancel
  <2> QED
    BY <2>2, <2>3
<1>3. CASE UNCHANGED storeVars
  BY <1>3 DEF storeVars, Worker!vars
<1> QED
  BY <1>1, <1>2, <1>3, StepsOfTheStore DEF Worker!CarefulNext

(* As long as no two records are created in one millisecond and no job is  *)
(* cancelled once it has ended, the agent is a careful client.             *)
LEMMA CarefulAgent ==
    Spec /\ []IdsAreDistinct /\ [][CancelsInTime]_vars => Worker!CarefulSpec
<1>1. Init => Worker!Init
  BY SameStore DEF Init
<1> QED
  BY <1>1, StepsAreCareful, AgentInvariance, PTL DEF Spec, Worker!CarefulSpec

(* Then the store, seen from the threads, is the abstract service: a key   *)
(* is accepted once and its outcome decided once (JobWorkerProofs,         *)
(* Refinement).  Nothing in the code ensures either assumption.            *)
THEOREM AgentUsesTheService ==
    Spec /\ []IdsAreDistinct /\ [][CancelsInTime]_vars => Worker!ImplementsService
BY CarefulAgent, Worker!Refinement, StoreAssumption, PTL

(* Under the same assumptions a job that succeeded or failed is never      *)
(* executed or cancelled again, whoever replays, reruns or polls it.       *)
THEOREM AgentOutcomesAreFinal ==
    Spec /\ []IdsAreDistinct /\ [][CancelsInTime]_vars => Worker!OutcomeIsFinal
BY CarefulAgent, Worker!OutcomesAreFinal, StoreAssumption, PTL

=============================================================================
