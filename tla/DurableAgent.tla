---------------------------- MODULE DurableAgent ----------------------------
(***************************************************************************)
(* The durable agent: threads of the workflow graph (graph/service.py,     *)
(* graph/builder.py and the checkpointer they run on) submitting jobs to   *)
(* the store and worker of JobWorker.                                      *)
(*                                                                         *)
(* LangGraph checkpoints a thread after every node: its channels and the   *)
(* node to run next.  An invocation runs nodes until it reaches END or an  *)
(* interrupt.  It may die in the middle of a node, and the job the node    *)
(* submitted then stays while its updates are lost: the service is         *)
(* replaced, the store and the worker remain (README.md:515).              *)
(***************************************************************************)
EXTENDS MacroGraph

CONSTANTS
    Threads,       \* thread ids
    Asked,         \* bound: the queries clients ask
    Workers,       \* as in JobWorker
    MaxAttempts,
    MaxJobs,
    MaxTrace       \* bound: no run starts once a thread has so many events

ASSUME StoreAssumption == MaxAttempts \in Nat \ {0} /\ MaxJobs \in Nat
ASSUME AskedAssumption == Asked \subseteq Queries
ASSUME MaxTraceAssumption == MaxTrace \in Nat

VARIABLES
    clock, jobs, tasks, looping, lost,    \* as in JobWorker
    values,     \* each thread's checkpointed channels
    next,       \* the node its checkpoint says to run next
    invoked,    \* the threads an invocation is running
    effect,     \* the job the node in progress has submitted, or NoJob
    approved,   \* history: the plan the current run's last review let pass
    abandoned   \* history: jobs whose pending checkpoint a new run discarded

storeVars == <<clock, jobs, tasks, looping, lost>>
graphVars == <<values, next, invoked, effect>>
historyVars == <<approved, abandoned>>
vars == <<storeVars, graphVars, historyVars>>

(* An idempotency key is the thread and the step it was derived at.         *)
JobKeys == Threads \X (0 .. StepLimit)

Store == INSTANCE JobWorker WITH Keys <- JobKeys

NoJob == -1
NoPlan == "none"

-----------------------------------------------------------------------------
(* A node of an invoked thread runs and its updates are checkpointed.      *)

Node(t) == next[t]

Checkpoint(t, c) ==
    /\ values' = [values EXCEPT ![t] = c]
    /\ next' = [next EXCEPT ![t] = Successor(Node(t), c)]
    /\ invoked' = IF next'[t] = END THEN invoked \ {t} ELSE invoked

RunsNode(t, node) == t \in invoked /\ Node(t) = node

ParseRequestNode(t) ==
    /\ RunsNode(t, "parse_request")
    /\ Checkpoint(t, ParseRequest(values[t]))
    /\ UNCHANGED <<storeVars, effect, historyVars>>

AssembleContextNode(t) ==
    /\ RunsNode(t, "assemble_context")
    /\ Checkpoint(t, AssembleContext(values[t]))
    /\ UNCHANGED <<storeVars, effect, historyVars>>

(* human_approval_node reaches interrupt(): the invocation returns and the *)
(* node stays the next one.                                                *)
Interrupt(t) ==
    /\ RunsNode(t, "human_approval")
    /\ invoked' = invoked \ {t}
    /\ UNCHANGED <<storeVars, values, next, effect, historyVars>>

SubmitDeniedNode(t) ==
    /\ RunsNode(t, "submit_mcp_job")
    /\ Denied(values[t])
    /\ Checkpoint(t, SubmitDenied(values[t]))
    /\ UNCHANGED <<storeVars, effect, historyVars>>

(* Faulty variants: a key without the thread, a key from the clock. *)
JobKeyOfStep(t) == <<CHOOSE u \in Threads : TRUE, values[t].trace>>
JobKeyOfClock(t) == <<t, clock>>

JobKey(t) == <<t, values[t].trace>>

(* submit_mcp_job_node up to and including submit_job ... *)
SubmitEffect(t) ==
    LET known == Store!Known(JobKey(t)) IN
    /\ RunsNode(t, "submit_mcp_job")
    /\ ~Denied(values[t])
    /\ effect[t] = NoJob
    /\ Store!Submit(JobKey(t), values[t].plan = "failing")
    /\ effect' = [effect EXCEPT
          ![t] = IF known # {} THEN jobs[Store!First(known)].id ELSE Store!NewId]
    /\ UNCHANGED <<values, next, invoked, historyVars>>

(* ... and its updates, checkpointed when it has returned. *)
SubmitReturns(t) ==
    /\ RunsNode(t, "submit_mcp_job")
    /\ effect[t] # NoJob
    /\ Checkpoint(t, Submitted(values[t], effect[t]))
    /\ effect' = [effect EXCEPT ![t] = NoJob]
    /\ UNCHANGED <<storeVars, historyVars>>

Last(s) == s[Len(s)]

StatusOf(i) ==
    IF \E o \in Store!Stored : jobs[o].id = i THEN jobs[Store!GetJob(i)].status
    ELSE "none"

PollJobStatusNode(t) ==
    LET i == Last(values[t].active) IN
    /\ RunsNode(t, "poll_job_status")
    /\ Checkpoint(t, Polled(values[t], i, StatusOf(i)))
    /\ UNCHANGED <<storeVars, effect, historyVars>>

FinalizeNode(t) ==
    /\ RunsNode(t, "finalize")
    /\ Checkpoint(t, Finalize(values[t]))
    /\ UNCHANGED <<storeVars, effect, historyVars>>

ThreadStep(t) ==
    \/ ParseRequestNode(t)
    \/ AssembleContextNode(t)
    \/ Interrupt(t)
    \/ SubmitDeniedNode(t)
    \/ SubmitEffect(t)
    \/ SubmitReturns(t)
    \/ PollJobStatusNode(t)
    \/ FinalizeNode(t)

-----------------------------------------------------------------------------
(* Clients, one invocation of a thread at a time.                          *)

(* The job the thread's pending node had submitted before it died. *)
Unrecorded(t) ==
    IF Node(t) = "submit_mcp_job"
      THEN {jobs[o].id : o \in Store!Known(JobKey(t))}
      ELSE {}

(* run_workflow: new input discards the pending node and starts over. *)
RunWorkflow(t, q) ==
    /\ t \notin invoked
    /\ values[t].trace <= MaxTrace
    /\ values' = [values EXCEPT ![t] = NewInput(@, q)]
    /\ next' = [next EXCEPT ![t] = "parse_request"]
    /\ invoked' = invoked \cup {t}
    /\ approved' = [approved EXCEPT ![t] = NoPlan]
    /\ abandoned' = abandoned \cup Unrecorded(t)
    /\ UNCHANGED <<storeVars, effect>>

(* The routers know two ways of not approving. Any other action, whatever  *)
(* its name, lets the plan pass.                                           *)
Passes(action) == action \notin {"rejected", "edited"}

(* resume_workflow of a thread waiting for its review: human_approval runs  *)
(* again and interrupt() returns the decision, with a new plan or not.      *)
ReviewDecision(t, action, plan) ==
    /\ t \notin invoked
    /\ Node(t) = "human_approval"
    /\ values' = [values EXCEPT ![t] = HumanApproval(@, action, plan)]
    /\ next' = [next EXCEPT ![t] = Successor("human_approval", values'[t])]
    /\ invoked' = invoked \cup {t}
    /\ approved' = [approved EXCEPT ![t] = IF Passes(action) THEN plan ELSE NoPlan]
    /\ UNCHANGED <<storeVars, effect, abandoned>>

(* resume_workflow of a thread that died elsewhere: it goes on from there,  *)
(* and nothing takes the decision. On a thread at END it does nothing.      *)
Recover(t) ==
    /\ t \notin invoked
    /\ Node(t) \in Nodes \ {"human_approval"}
    /\ invoked' = invoked \cup {t}
    /\ UNCHANGED <<storeVars, values, next, effect, historyVars>>

(* The invocation dies between two checkpoints. *)
Crash(t) ==
    /\ t \in invoked
    /\ invoked' = invoked \ {t}
    /\ effect' = [effect EXCEPT ![t] = NoJob]
    /\ UNCHANGED <<storeVars, values, next, historyVars>>

-----------------------------------------------------------------------------
(* Specification.                                                          *)

Init ==
    /\ Store!Init
    /\ values = [t \in Threads |-> NoChannels]
    /\ next = [t \in Threads |-> END]
    /\ invoked = {}
    /\ effect = [t \in Threads |-> NoJob]
    /\ approved = [t \in Threads |-> NoPlan]
    /\ abandoned = {}

(* The worker, and clients who cancel any job at any time. *)
StoreStep ==
    /\ \/ Store!RuntimeStep
       \/ \E o \in DOMAIN jobs : Store!RequestCancel(o)
    /\ UNCHANGED <<graphVars, historyVars>>

ClientStep(t) ==
    \/ \E q \in Asked : RunWorkflow(t, q)
    \/ \E action \in Decisions, plan \in Plans : ReviewDecision(t, action, plan)
    \/ Recover(t)

Next ==
    \/ \E t \in Threads : ThreadStep(t) \/ ClientStep(t) \/ Crash(t)
    \/ StoreStep

Spec == Init /\ [][Next]_vars

(* An invocation is a call that keeps running until it returns or dies.    *)
(* Time passes.  Nothing is assumed of the worker or of the clients.       *)
ClockTick == Store!Tick /\ UNCHANGED <<graphVars, historyVars>>

FairSpec == /\ Spec
            /\ \A t \in Threads : WF_vars(ThreadStep(t))
            /\ WF_vars(ClockTick)

-----------------------------------------------------------------------------
(* Properties.                                                             *)

TypeOK ==
    /\ Store!TypeOK
    /\ values \in [Threads -> Channels]
    /\ next \in [Threads -> Nodes \cup {END}]
    /\ invoked \subseteq Threads
    /\ effect \in [Threads -> Nat \cup {NoJob}]
    /\ approved \in [Threads -> Plans \cup {NoPlan}]
    /\ abandoned \subseteq Nat

Active(t) == {values[t].active[n] : n \in DOMAIN values[t].active}

Tracks(t, i) == i \in Active(t) \/ i = effect[t]

(* An id given twice, in one millisecond: the store has the later record.  *)
Collided(i) == \E o, p \in DOMAIN jobs : o # p /\ jobs[o].id = i /\ jobs[p].id = i

(* A thread has one job at most and only tracks ids it was given for its    *)
(* own keys. Such an id leads to its own record and is tracked by no other *)
(* thread, unless it was given twice.                                      *)
ThreadsAreIsolated ==
    \A t \in Threads :
        /\ Len(values[t].active) <= 1
        /\ \A i \in Active(t) \cup ({effect[t]} \ {NoJob}) :
              \E o \in DOMAIN jobs :
                  /\ jobs[o].id = i /\ jobs[o].key[1] = t
                  /\ o \in Store!Stored \/ Collided(i)
        /\ \A u \in Threads \ {t} : \A i \in Active(t) \cap Active(u) : Collided(i)

(* Evidence is real and stays so, even when its job is cancelled later: a   *)
(* job recorded as completed, or cited by an answer, has a result, and is   *)
(* the thread's one job, submitted under its own key; unless its id was    *)
(* given twice, when the result may be another thread's.                   *)
EvidenceIsReal ==
    \A t \in Threads : \A i \in values[t].completed \cup values[t].cites :
        /\ i \in Active(t)
        /\ \E o \in DOMAIN jobs :
              /\ jobs[o].id = i /\ jobs[o].result
              /\ jobs[o].key[1] = t \/ Collided(i)

(* No submission is lost: a job in the store is in its thread's checkpoint, *)
(* or would be found again under the same key when the pending node is     *)
(* replayed, wherever the invocation died. The exception is a thread that  *)
(* was given new input over its pending submission.                        *)
EveryJobIsTracked ==
    \A o \in Store!Stored :
        LET t == jobs[o].key[1]
            i == jobs[o].id
        IN  Tracks(t, i) \/ i \in Unrecorded(t) \/ i \in abandoned

(* When a query calls for approval, what is executed is exactly the plan a  *)
(* human let pass in the last review of this run: not the draft, not an     *)
(* edited plan that was never reviewed again, and nothing after a rejection. *)
OnlyReviewedPlansRun ==
    \A t \in Threads :
        Node(t) = "submit_mcp_job" /\ values[t].query = "marked"
          => approved[t] = values[t].plan

(* The guard against loops: whatever cycle of polls, reviews, crashes and   *)
(* reruns a thread goes through, no node but the two every run starts with *)
(* and the final one executes once the limit is reached.                   *)
StepBudget ==
    \A t \in Threads :
        /\ Node(t) \in {"human_approval", "submit_mcp_job", "poll_job_status"}
             => values[t].trace < StepLimit
        /\ Node(t) = "finalize" => values[t].trace <= StepLimit

(* A research question is not reported as completed while its job is still *)
(* running; without a finished job there is an error on record.            *)
NoReportBeforeTheJob ==
    \A t \in Threads :
        values[t].status = "completed" /\ values[t].intent = "macro_diagnostics"
          => \/ values[t].errors # {}
             \/ Active(t) # {} /\ Active(t) \subseteq values[t].completed

(* Every invocation returns: it pauses, ends or dies, whatever the job it   *)
(* polls is doing.                                                         *)
InvocationsEnd == \A t \in Threads : t \in invoked ~> t \notin invoked

(* A run that starts after the thread's job has succeeded, with steps left  *)
(* in its budget.                                                          *)
ReadyToDeliver(t) ==
    /\ t \in invoked
    /\ Node(t) = "parse_request"
    /\ values[t].query = "plain"
    /\ values[t].trace + 4 < StepLimit
    /\ Active(t) # {}
    /\ StatusOf(Last(values[t].active)) = "succeeded"

(* Such a run delivers: its answer cites the job, unless it dies first, or  *)
(* someone cancels the job although it has succeeded.                      *)
EvidenceIsDelivered ==
    \A t \in Threads :
        ReadyToDeliver(t) ~> \/ Active(t) \subseteq values[t].cites
                            \/ (t \notin invoked /\ Node(t) # END)
                            \/ StatusOf(Last(values[t].active)) # "succeeded"

(* What the store needs of its clients and nothing in the code ensures: no *)
(* two records are created in one millisecond, and no job is cancelled     *)
(* that has ended.  Theorems that need it name it.                         *)
IdsAreDistinct ==
    \A o, p \in DOMAIN jobs : jobs[o].id = jobs[p].id => o = p

CancelsInTime ==
    \A o \in DOMAIN jobs :
        jobs'[o].status = "cancel_requested" /\ jobs[o].status # "cancel_requested"
          => jobs[o].status \in {"queued", "running"}

(* README.md:346: pending jobs end the current invocation, which does not   *)
(* busy-poll.                                                              *)
PendingJobsPause ==
    [][\A t \in Threads :
          PollJobStatusNode(t) /\ StatusOf(Last(values[t].active)) \in {"queued", "running"}
            => t \notin invoked']_vars

(* README.md:465, test_graph_persistence.py:31: threads in one store are    *)
(* strictly isolated, so no two of them wait for the same job.              *)
NoSharedJob ==
    \A t, u \in Threads : t # u => Active(t) \cap Active(u) = {}

(* README.md:375: a thread continued after a failure polls its existing job *)
(* instead of submitting the side effect again.                            *)
NoDuplicateJob ==
    \A o, p \in Store!Stored : jobs[o].key[1] = jobs[p].key[1] => o = p

(* test_graph_approval.py:20-24: an approved workflow that is completed has *)
(* evidence in its answer.                                                 *)
ApprovedRunsHaveEvidence ==
    \A t \in Threads :
        values[t].approval = "approved" /\ values[t].status = "completed"
          => values[t].cites # {}

(* policy.py:37: high-risk or explicitly gated operations are blocked and   *)
(* routed to approval.                                                     *)
GatedCallsAreApproved ==
    \A t \in Threads :
        effect[t] # NoJob
          /\ EvaluateToolCall(ToolOf(values[t].plan), "researcher") = "route_to_hitl"
          => approved[t] = values[t].plan

=============================================================================
