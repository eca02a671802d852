------------------------------ MODULE ApiRuns ------------------------------
(***************************************************************************)
(* The HTTP API, api.py: runs created as tasks of the server's event loop, *)
(* polled and cancelled by routes that run on threads.                     *)
(*                                                                         *)
(* A run executes synchronously inside its task and holds the loop until   *)
(* it ends; a cancel route that was dispatched before goes on meanwhile.   *)
(* RUNS_DATABASE maps a run to a Python object: the initial state, which   *)
(* create_run stored, or the final one, which replaces it.                 *)
(***************************************************************************)
EXTENDS FiniteSets

CONSTANTS
    Runs,       \* run ids
    Cancels     \* requests to POST /runs/{run_id}/cancel

ASSUME RequestsAssumption == IsFiniteSet(Runs) /\ IsFiniteSet(Cancels)

VARIABLES
    limit,      \* max_steps of each run's payload
    worker,     \* ACTIVE_TASKS: where background_agent_worker is
    interrupt,  \* the task will be cancelled at its next step
    table,      \* RUNS_DATABASE: which object stands for the run
    status,     \* the status of both objects of each run
    cancel,     \* where each cancel route is
    target      \* the run it is about

loopVars == <<limit, worker>>
routeVars == <<cancel, target>>
vars == <<loopVars, interrupt, table, status, routeVars>>

Objects == {"initial", "final"}
Limits == {"positive", "nonpositive", "null"}

(* What a client polls: get_run_status. *)
Shown(r) == IF table[r] = "none" THEN "404" ELSE status[r][table[r]]

LoopFree == \A r \in Runs : worker[r] \notin {"executing", "ending"}

(* done() *)
Ended(r) == worker[r] = "ended"

With(r, object, new) == [status EXCEPT ![r][object] = new]

-----------------------------------------------------------------------------
(* create_run and background_agent_worker, on the event loop.              *)

CreateRun(r) ==
    /\ LoopFree
    /\ table[r] = "none"
    /\ \E payload \in Limits : limit' = [limit EXCEPT ![r] = payload]
    /\ table' = [table EXCEPT ![r] = "initial"]
    /\ status' = With(r, "initial", "running")
    /\ worker' = [worker EXCEPT ![r] = "created"]
    /\ UNCHANGED <<interrupt, routeVars>>

(* The task's first step ends in the sleep. *)
WorkerStarts(r) ==
    /\ LoopFree
    /\ worker[r] = "created"
    /\ ~interrupt[r]
    /\ worker' = [worker EXCEPT ![r] = "sleeping"]
    /\ UNCHANGED <<limit, interrupt, table, status, routeVars>>

(* A task cancelled before its first step never enters its try block. *)
NeverStarts(r) ==
    /\ LoopFree
    /\ worker[r] = "created"
    /\ interrupt[r]
    /\ worker' = [worker EXCEPT ![r] = "ended"]
    /\ UNCHANGED <<limit, interrupt, table, status, routeVars>>

SleepInterrupted(r) ==
    /\ LoopFree
    /\ worker[r] = "sleeping"
    /\ interrupt[r]
    /\ status' = With(r, table[r], "cancelled")
    /\ worker' = [worker EXCEPT ![r] = "ending"]
    /\ UNCHANGED <<limit, interrupt, table, routeVars>>

(* Faulty variant: the sleep swallows the cancellation. *)
Oversleeps(r) == worker[r] = "sleeping"

WakesUp(r) == worker[r] = "sleeping" /\ ~interrupt[r]

RunBegins(r) ==
    /\ LoopFree
    /\ WakesUp(r)
    /\ worker' = [worker EXCEPT ![r] = "executing"]
    /\ UNCHANGED <<limit, interrupt, table, status, routeVars>>

(* Faulty variant: the stop reason is taken for the status. *)
StopReason(r) ==
    IF limit[r] = "positive" THEN "final_answer" ELSE "max_steps_exceeded"

(* What runtime.run answers: the built-in provider replies once, with an   *)
(* answer, unless the limit leaves no step for it.                         *)
Answer(r) == IF limit[r] = "positive" THEN "completed" ELSE "max_steps_exceeded"

StoreFinalState(r) ==
    /\ worker[r] = "executing"
    /\ limit[r] # "null"
    /\ table' = [table EXCEPT ![r] = "final"]
    /\ status' = With(r, "final", Answer(r))
    /\ worker' = [worker EXCEPT ![r] = "ending"]
    /\ UNCHANGED <<limit, interrupt, routeVars>>

(* Faulty variant: the exception is only swallowed. *)
Swallowed(r) == status

(* Faulty variant: one handler for cancellations and exceptions. *)
MarkedCancelled(r) == With(r, table[r], "cancelled")

MarkedFailed(r) == With(r, table[r], "failed")

(* The loop compares its count with a limit that may be null, and raises. *)
RunRaises(r) ==
    /\ worker[r] = "executing"
    /\ limit[r] = "null"
    /\ status' = MarkedFailed(r)
    /\ worker' = [worker EXCEPT ![r] = "ending"]
    /\ UNCHANGED <<limit, interrupt, table, routeVars>>

(* A cancellation while the run executed finds no await to interrupt. *)
WorkerEnds(r) ==
    /\ worker[r] = "ending"
    /\ worker' = [worker EXCEPT ![r] = "ended"]
    /\ UNCHANGED <<limit, interrupt, table, status, routeVars>>

-----------------------------------------------------------------------------
(* cancel_active_run, on a thread of its own.                              *)

CancelDispatched(c, r) ==
    /\ LoopFree
    /\ cancel[c] = "none"
    /\ table[r] # "none"
    /\ cancel' = [cancel EXCEPT ![c] = "dispatched"]
    /\ target' = [target EXCEPT ![c] = r]
    /\ UNCHANGED <<loopVars, interrupt, table, status>>

(* Faulty variant: whatever is in the task table counts as active. *)
Listed(r) == worker[r] # "none"

Active(r) == ~Ended(r)

CancelChecks(c) ==
    /\ cancel[c] = "dispatched"
    /\ cancel' = [cancel EXCEPT
          ![c] = IF Active(target[c]) THEN "active" ELSE "returned"]
    /\ UNCHANGED <<loopVars, interrupt, table, status, target>>

(* task.cancel() of a task that has ended since does nothing. *)
CancelEmits(c) ==
    /\ cancel[c] = "active"
    /\ interrupt' = [interrupt EXCEPT ![target[c]] = @ \/ ~Ended(target[c])]
    /\ cancel' = [cancel EXCEPT ![c] = "emitted"]
    /\ UNCHANGED <<loopVars, table, status, target>>

(* The object is looked up, and then its status set. *)
CancelLooksUp(c) ==
    /\ cancel[c] = "emitted"
    /\ cancel' = [cancel EXCEPT ![c] = table[target[c]]]
    /\ UNCHANGED <<loopVars, interrupt, table, status, target>>

CancelMarks(c) ==
    /\ cancel[c] \in Objects
    /\ status' = With(target[c], cancel[c], "cancelled")
    /\ cancel' = [cancel EXCEPT ![c] = "returned"]
    /\ UNCHANGED <<loopVars, interrupt, table, target>>

-----------------------------------------------------------------------------
Init ==
    /\ limit = [r \in Runs |-> "positive"]
    /\ worker = [r \in Runs |-> "none"]
    /\ interrupt = [r \in Runs |-> FALSE]
    /\ table = [r \in Runs |-> "none"]
    /\ status = [r \in Runs |-> [object \in Objects |-> "none"]]
    /\ cancel = [c \in Cancels |-> "none"]
    /\ target \in [Cancels -> Runs]

WorkerStep(r) ==
    \/ WorkerStarts(r) \/ NeverStarts(r) \/ SleepInterrupted(r)
    \/ RunBegins(r) \/ StoreFinalState(r) \/ RunRaises(r) \/ WorkerEnds(r)

RouteStep(c) ==
    CancelChecks(c) \/ CancelEmits(c) \/ CancelLooksUp(c) \/ CancelMarks(c)

Next ==
    \/ \E r \in Runs : CreateRun(r) \/ WorkerStep(r)
    \/ \E c \in Cancels : RouteStep(c) \/ \E r \in Runs : CancelDispatched(c, r)

Spec == Init /\ [][Next]_vars

(* The event loop gives every ready task its turn, and threads run. *)
FairSpec ==
    /\ Spec
    /\ \A r \in Runs : WF_vars(WorkerStep(r))
    /\ \A c \in Cancels : WF_vars(RouteStep(c))

-----------------------------------------------------------------------------
(* Properties.                                                             *)

Statuses == {"running", "completed", "max_steps_exceeded", "failed", "cancelled"}

(* Every variable has its type. *)
TypeOK ==
    /\ limit \in [Runs -> Limits]
    /\ worker \in [Runs -> {"none", "created", "sleeping", "executing", "ending", "ended"}]
    /\ interrupt \in [Runs -> BOOLEAN]
    /\ table \in [Runs -> Objects \cup {"none"}]
    /\ status \in [Runs -> [Objects -> Statuses \cup {"none"}]]
    /\ cancel \in [Cancels -> Objects \cup {"none", "dispatched", "active", "emitted",
                                            "returned"}]
    /\ target \in [Cancels -> Runs]

(* Some cancel route about this run is under way. *)
BeingCancelled(r) ==
    \E c \in Cancels : target[c] = r /\ cancel[c] \notin {"none", "returned"}

(* Once a run has ended and the cancels that overlapped with it are        *)
(* through, what its client polls never changes again, however many cancel *)
(* requests arrive afterwards.                                             *)
OutcomeIsFinal ==
    \A r \in Runs, s \in Statuses :
        [](Ended(r) /\ ~BeingCancelled(r) /\ Shown(r) = s => [](Shown(r) = s))

(* A client polls an answer only if the run gave it, and cancelled only if *)
(* somebody cancelled; the object in the table is never without a status.  *)
ShownIsExplained ==
    \A r \in Runs :
        /\ Shown(r) \in {"completed", "max_steps_exceeded"} =>
              table[r] = "final" /\ Shown(r) = Answer(r)
        /\ Shown(r) = "failed" => limit[r] = "null"
        /\ Shown(r) = "cancelled" =>
              \E c \in Cancels : target[c] = r /\ cancel[c] # "none"
        /\ Shown(r) # "none"

(* A cancellation that reaches the task before its run began wins for good *)
(* over the run and over its exception, although the route that asked for  *)
(* it writes the status on its own later.                                  *)
EarlyCancelWins ==
    \A r \in Runs :
        [](interrupt[r] /\ worker[r] \in {"created", "sleeping"}
             => <>[](Shown(r) = "cancelled"))

(* No run stays running for its client: it ends, or is cancelled. *)
EveryRunEnds == \A r \in Runs : table[r] # "none" ~> [](Shown(r) # "running")

=============================================================================
