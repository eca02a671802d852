---------------------------- MODULE ToolExecutor ----------------------------
(***************************************************************************)
(* AsyncToolExecutor, runtime/async_executor.py: batches of tool calls,    *)
(* gated by a semaphore, run on the threads of the loop's default pool and *)
(* abandoned together when the batch times out.  The tool with an effect   *)
(* is IdempotencyRunMarkerTool, tools/idempotency_writer.py.               *)
(*                                                                         *)
(* Tasks and batches are steps of one event loop; a thread is not, and     *)
(* nothing can stop one that has started.                                  *)
(***************************************************************************)
EXTENDS Integers, FiniteSets

CONSTANTS
    Batches,          \* calls of execute_batch, on one executor
    Slots,            \* positions in a batch
    Operations,       \* operation ids of the write tool
    MaxConcurrency,   \* permits of the semaphore
    PoolSize          \* threads of the pool

ASSUME PermitsAssumption == MaxConcurrency \in Nat /\ IsFiniteSet(Batches \X Slots)
ASSUME PoolAssumption == PoolSize \in Nat

VARIABLES
    asks,       \* what each call asks for
    batch,      \* where each execute_batch is
    task,       \* each call's coroutine
    permits,    \* the semaphore's free permits
    thread,     \* each call's work on the pool
    outcome,    \* how each call ended, whether or not anyone still waits
    seen,       \* _seen_operations
    results     \* what execute_batch returned

taskVars == <<batch, task, permits, results>>
poolVars == <<thread, outcome, seen>>
vars == <<asks, taskVars, poolVars>>

Calls == Batches \X Slots
CallsOf(b) == {b} \X Slots

(* A call writes, names no registered tool, or raises in its thread: for   *)
(* arguments that fail their schema, or anything else.                     *)
Asks == Operations \cup {"unregistered", "raising"}

(* The three error types of a failed call are all final for its caller.    *)
Outcomes == {"committed", "skipped", "failed"}

Running == {c \in Calls : thread[c] \in {"running", "checked"}}
Inside == {c \in Calls : task[c] = "inside"}

Ended(c) == task[c] \in {"done", "cancelled"}

-----------------------------------------------------------------------------
(* The tasks of a batch, execute_single_tool_with_sem.                     *)

Submit(b) ==
    /\ batch[b] = "none"
    /\ batch' = [batch EXCEPT ![b] = "running"]
    /\ \E wanted \in [Slots -> Asks] :
          asks' = [c \in Calls |-> IF c \in CallsOf(b) THEN wanted[c[2]] ELSE asks[c]]
    /\ task' = [c \in Calls |-> IF c \in CallsOf(b) THEN "waiting" ELSE task[c]]
    /\ UNCHANGED <<permits, results, poolVars>>

MayEnter(c) ==
    /\ task[c] = "waiting"
    /\ batch[c[1]] = "running"
    /\ permits > 0

(* The name is looked up with the permit held, and the work is queued. *)
Acquire(c) ==
    /\ MayEnter(c)
    /\ asks[c] # "unregistered"
    /\ task' = [task EXCEPT ![c] = "inside"]
    /\ permits' = permits - 1
    /\ thread' = [thread EXCEPT ![c] = "queued"]
    /\ UNCHANGED <<asks, batch, results, outcome, seen>>

(* An unknown name ends the task at once, which gives its permit back. *)
UnknownTool(c) ==
    /\ MayEnter(c)
    /\ asks[c] = "unregistered"
    /\ task' = [task EXCEPT ![c] = "done"]
    /\ outcome' = [outcome EXCEPT ![c] = "failed"]
    /\ UNCHANGED <<asks, batch, permits, results, thread, seen>>

TaskResumes(c) ==
    /\ task[c] = "inside"
    /\ batch[c[1]] = "running"
    /\ thread[c] = "ended"
    /\ task' = [task EXCEPT ![c] = "done"]
    /\ permits' = permits + 1
    /\ UNCHANGED <<asks, batch, results, poolVars>>

-----------------------------------------------------------------------------
(* The threads: BaseTool.execute.                                          *)

PoolStarts(c) ==
    /\ thread[c] = "queued"
    /\ Cardinality(Running) < PoolSize
    /\ thread' = [thread EXCEPT ![c] = "running"]
    /\ UNCHANGED <<asks, taskVars, outcome, seen>>

Ends(c, how) ==
    /\ thread' = [thread EXCEPT ![c] = "ended"]
    /\ outcome' = [outcome EXCEPT ![c] = how]
    /\ UNCHANGED <<asks, taskVars>>

ToolRaises(c) ==
    /\ thread[c] = "running"
    /\ asks[c] = "raising"
    /\ Ends(c, "failed")
    /\ UNCHANGED seen

ToolSkips(c) ==
    /\ thread[c] = "running"
    /\ asks[c] \in seen
    /\ Ends(c, "skipped")
    /\ UNCHANGED seen

(* Testing the set and adding to it are two steps of a thread. *)
ToolChecks(c) ==
    /\ thread[c] = "running"
    /\ asks[c] \in Operations \ seen
    /\ thread' = [thread EXCEPT ![c] = "checked"]
    /\ UNCHANGED <<asks, taskVars, outcome, seen>>

ToolCommits(c) ==
    /\ thread[c] = "checked"
    /\ seen' = seen \cup {asks[c]}
    /\ Ends(c, "committed")

ToolStep(c) == ToolRaises(c) \/ ToolSkips(c) \/ ToolChecks(c) \/ ToolCommits(c)

-----------------------------------------------------------------------------
(* execute_batch.                                                          *)

(* Faulty variant: results in the reverse order of the calls. *)
GatheredBackwards(b) ==
    [c \in Calls |-> IF c \in CallsOf(b)
       THEN outcome[<<b, CHOOSE s \in Slots : s # c[2]>>] ELSE results[c]]

Gathered(b) ==
    [c \in Calls |-> IF c \in CallsOf(b) THEN outcome[c] ELSE results[c]]

BatchReturns(b) ==
    /\ batch[b] = "running"
    /\ \A c \in CallsOf(b) : task[c] = "done"
    /\ batch' = [batch EXCEPT ![b] = "returned"]
    /\ results' = Gathered(b)
    /\ UNCHANGED <<asks, task, permits, poolVars>>

(* wait_for may run out of time although the last task has just ended. *)
TimeoutFires(b) ==
    /\ batch[b] = "running"
    /\ batch' = [batch EXCEPT ![b] = "cancelling"]
    /\ UNCHANGED <<asks, task, permits, results, poolVars>>

(* Faulty variant: a cancelled task leaves its work in the pool's queue. *)
KeptQueued(c) == thread

(* Cancelling the pool's future drops work no thread has begun. *)
Dropped(c) ==
    IF thread[c] = "queued" THEN [thread EXCEPT ![c] = "dropped"] ELSE thread

(* Faulty variant: the cancelled task keeps its permit. *)
PermitKept(c) == permits

(* Faulty variant: every cancelled task releases, also one that waited. *)
AlwaysReleased(c) == permits + 1

PermitsAfter(c) == IF task[c] = "inside" THEN permits + 1 ELSE permits

(* Faulty variant: only work that no thread holds up is cancelled. *)
Idle(c) == task[c] = "waiting" \/ (task[c] = "inside" /\ c \notin Running)

Cancellable(c) == ~Ended(c)

TaskCancelled(c) ==
    /\ batch[c[1]] = "cancelling"
    /\ Cancellable(c)
    /\ task' = [task EXCEPT ![c] = "cancelled"]
    /\ permits' = PermitsAfter(c)
    /\ thread' = Dropped(c)
    /\ UNCHANGED <<asks, batch, results, outcome, seen>>

(* Every call of the batch is reported as a retryable timeout, the ones    *)
(* that had ended included.                                                *)
GiveUp(b) ==
    /\ batch[b] = "cancelling"
    /\ \A c \in CallsOf(b) : Ended(c)
    /\ batch' = [batch EXCEPT ![b] = "returned"]
    /\ results' = [c \in Calls |-> IF c \in CallsOf(b) THEN "timeout" ELSE results[c]]
    /\ UNCHANGED <<asks, task, permits, poolVars>>

-----------------------------------------------------------------------------
Init ==
    /\ asks = [c \in Calls |-> "unregistered"]
    /\ batch = [b \in Batches |-> "none"]
    /\ task = [c \in Calls |-> "none"]
    /\ permits = MaxConcurrency
    /\ thread = [c \in Calls |-> "none"]
    /\ outcome = [c \in Calls |-> "none"]
    /\ seen = {}
    /\ results = [c \in Calls |-> "none"]

TaskStep(c) == Acquire(c) \/ UnknownTool(c) \/ TaskResumes(c) \/ TaskCancelled(c)

BatchStep(b) == BatchReturns(b) \/ TimeoutFires(b) \/ GiveUp(b)

Next ==
    \/ \E b \in Batches : Submit(b) \/ BatchStep(b)
    \/ \E c \in Calls : TaskStep(c) \/ PoolStarts(c) \/ ToolStep(c)

Spec == Init /\ [][Next]_vars

(* The loop runs its tasks and its timers; a tool may hang for ever. *)
FairSpec ==
    /\ Spec
    /\ \A c \in Calls : WF_vars(TaskStep(c))
    /\ \A b \in Batches : WF_vars(BatchStep(b))

-----------------------------------------------------------------------------
(* Properties.                                                             *)

(* Every variable has its type. *)
TypeOK ==
    /\ asks \in [Calls -> Asks]
    /\ batch \in [Batches -> {"none", "running", "cancelling", "returned"}]
    /\ task \in [Calls -> {"none", "waiting", "inside", "done", "cancelled"}]
    /\ permits \in 0 .. MaxConcurrency
    /\ thread \in [Calls -> {"none", "queued", "running", "checked", "ended", "dropped"}]
    /\ outcome \in [Calls -> Outcomes \cup {"none"}]
    /\ seen \subseteq Operations
    /\ results \in [Calls -> Outcomes \cup {"none", "timeout"}]

(* Batches that time out anywhere neither leak a permit nor free one twice, *)
(* so later batches have the executor's full concurrency; and a thread that *)
(* works without a permit belongs to a call that was cancelled.            *)
PermitsAreBalanced ==
    /\ permits + Cardinality(Inside) = MaxConcurrency
    /\ \A c \in Running : task[c] \in {"inside", "cancelled"}

(* The caller is never told less than happened: a result other than timeout *)
(* is the call's own and final, a write that took effect was reported as   *)
(* committed or as timeout, and one reported as skipped took effect under  *)
(* another call with the same operation id.                                *)
ResultsAreTrue ==
    \A c \in Calls :
        /\ results[c] \notin {"none", "timeout"} =>
              results[c] = outcome[c] /\ c \notin Running
        /\ results[c] = "skipped" =>
              \E d \in Calls : asks[d] = asks[c] /\ outcome[d] = "committed"
        /\ batch[c[1]] = "returned" => results[c] # "none"

(* A timeout is the end of what had not begun: once a batch has returned,  *)
(* no thread starts on any of its calls.                                   *)
NothingStartsLate ==
    [][\A c \in Calls :
          thread[c] # "running" /\ thread'[c] = "running" =>
              batch[c[1]] # "returned"]_vars

(* Whatever the tools do, even hang, every batch returns. *)
BatchesReturn == \A b \in Batches : batch[b] = "running" ~> batch[b] = "returned"

(* async_executor.py:16: "Use a semaphore to enforce the concurrency limit; *)
(* excess tasks wait here."                                                *)
ConcurrencyIsLimited == Cardinality(Running) <= MaxConcurrency

=============================================================================
