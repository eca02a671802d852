---------------------------- MODULE ApiRunsProofs ----------------------------
(***************************************************************************)
(* Proofs about ApiRuns for any runs and cancel requests.  What a client   *)
(* polls is explained by an invariant on both objects of a run, since the  *)
(* table may switch from one to the other; it is final because a cancel    *)
(* route that finds the task done writes nothing.                          *)
(***************************************************************************)
EXTENDS ApiRuns, TLAPS

(* Somebody asked to cancel r. *)
Cancelled(r) == \E c \in Cancels : target[c] = r /\ cancel[c] # "none"

(* A run has a task and a record, or neither and no trace of either. *)
Listings ==
    \A r \in Runs :
        /\ table[r] = "none" <=> worker[r] = "none"
        /\ table[r] = "none" => status[r] = [object \in Objects |-> "none"]
        /\ table[r] # "none" => status[r][table[r]] # "none"

(* The statuses of either object have the cause that explains them. *)
Causes ==
    \A r \in Runs :
        /\ \A object \in Objects :
              /\ status[r][object] = "failed" => limit[r] = "null"
              /\ status[r][object] = "cancelled" => Cancelled(r)
        /\ status[r]["initial"] \notin {"completed", "max_steps_exceeded"}
        /\ status[r]["final"] \in {"none", "cancelled", "failed", Answer(r)}
        /\ interrupt[r] => Cancelled(r)

(* Cancel requests are about runs that exist. *)
Targets == \A c \in Cancels : cancel[c] # "none" => table[target[c]] # "none"

Inv == TypeOK /\ Listings /\ Causes /\ Targets

LEMMA InitInv == Init => Inv
BY DEF Init, Inv, TypeOK, Listings, Causes, Targets, Objects, Limits, Statuses, Answer

-----------------------------------------------------------------------------
(* Steps of the event loop.                                                *)

(* A new run starts with a fresh record and no cause for any status. *)
LEMMA CreateInv ==
    ASSUME Inv, NEW r \in Runs, CreateRun(r)
    PROVE  Inv'
<1>1. TypeOK' /\ Listings'
  BY DEF CreateRun, With, routeVars, Inv, TypeOK, Listings, Objects, Statuses, Limits
<1>2. Causes'
  BY DEF CreateRun, With, routeVars, Inv, TypeOK, Listings, Causes, Objects, Limits,
         Cancelled, Answer
<1>3. Targets'
  BY DEF CreateRun, routeVars, Inv, TypeOK, Targets
<1> QED
  BY <1>1, <1>2, <1>3 DEF Inv

(* A worker writes a status into an object only for the cause it has. *)
LEMMA WorkerInv ==
    ASSUME Inv, NEW r \in Runs, WorkerStep(r)
    PROVE  Inv'
<1>1. CASE WorkerStarts(r) \/ NeverStarts(r) \/ RunBegins(r) \/ WorkerEnds(r)
  <2>1. /\ worker[r] # "none"
        /\ worker' \in {[worker EXCEPT ![r] = w] : w \in {"sleeping", "executing", "ended"}}
        /\ UNCHANGED <<limit, interrupt, table, status, cancel, target>>
    BY <1>1 DEF WorkerStarts, NeverStarts, RunBegins, WakesUp, WorkerEnds, routeVars
  <2> QED
    BY <2>1 DEF Inv, TypeOK, Listings, Causes, Targets, Cancelled, Answer
<1>2. CASE SleepInterrupted(r)
  <2>1. PICK object \in Objects :
          /\ table[r] = object
          /\ status' = [status EXCEPT ![r][object] = "cancelled"]
    BY <1>2 DEF SleepInterrupted, With, Inv, TypeOK, Listings
  <2>2. /\ worker[r] = "sleeping"
        /\ worker' = [worker EXCEPT ![r] = "ending"]
        /\ UNCHANGED <<limit, interrupt, table, cancel, target>>
        /\ Cancelled(r)
    BY <1>2 DEF SleepInterrupted, routeVars, Inv, Causes
  <2>3. TypeOK' /\ Targets'
    BY <2>1, <2>2 DEF Inv, TypeOK, Targets, Statuses
  <2>4. Listings'
    BY <2>1, <2>2 DEF Inv, TypeOK, Listings
  <2>5. Causes'
    BY <2>1, <2>2 DEF Inv, TypeOK, Causes, Cancelled, Answer, Objects
  <2> QED
    BY <2>3, <2>4, <2>5 DEF Inv
<1>3. CASE StoreFinalState(r)
  BY <1>3 DEF StoreFinalState, With, routeVars, Inv, TypeOK, Listings, Causes, Targets,
              Cancelled, Answer, Objects, Statuses
<1>4. CASE RunRaises(r)
  BY <1>4 DEF RunRaises, MarkedFailed, With, routeVars, Inv, TypeOK, Listings, Causes,
              Targets, Cancelled, Answer, Objects, Statuses
<1> QED
  BY <1>1, <1>2, <1>3, <1>4 DEF WorkerStep

-----------------------------------------------------------------------------
(* Steps of the routes.                                                    *)

LEMMA DispatchInv ==
    ASSUME Inv, NEW c \in Cancels, NEW r \in Runs, CancelDispatched(c, r)
    PROVE  Inv'
BY DEF CancelDispatched, loopVars, Inv, TypeOK, Listings, Causes, Targets, Cancelled,
       Answer, Objects

LEMMA RouteInv ==
    ASSUME Inv, NEW c \in Cancels, RouteStep(c)
    PROVE  Inv'
<1> target[c] \in Runs
  BY DEF Inv, TypeOK
<1>1. CASE CancelChecks(c)
  BY <1>1 DEF CancelChecks, loopVars, Inv, TypeOK, Listings, Causes, Targets, Cancelled,
              Answer, Objects
<1>2. CASE CancelEmits(c)
  BY <1>2 DEF CancelEmits, loopVars, Inv, TypeOK, Listings, Causes, Targets, Cancelled,
              Answer, Objects, Ended
<1>3. CASE CancelLooksUp(c)
  BY <1>3 DEF CancelLooksUp, loopVars, Inv, TypeOK, Listings, Causes, Targets, Cancelled,
              Answer, Objects
<1>4. CASE CancelMarks(c)
  BY <1>4 DEF CancelMarks, With, loopVars, Inv, TypeOK, Listings, Causes, Targets,
              Cancelled, Answer, Objects, Statuses
<1> QED
  BY <1>1, <1>2, <1>3, <1>4 DEF RouteStep

LEMMA NextInv == Inv /\ [Next]_vars => Inv'
<1> SUFFICES ASSUME Inv, [Next]_vars PROVE Inv'
  OBVIOUS
<1>1. CASE \E r \in Runs : CreateRun(r) \/ WorkerStep(r)
  BY <1>1, CreateInv, WorkerInv
<1>2. CASE \E c \in Cancels : RouteStep(c) \/ \E r \in Runs : CancelDispatched(c, r)
  BY <1>2, RouteInv, DispatchInv
<1>3. CASE UNCHANGED vars
  BY <1>3 DEF vars, loopVars, routeVars, Inv, TypeOK, Listings, Causes, Targets, Cancelled,
              Answer
<1> QED
  BY <1>1, <1>2, <1>3 DEF Next

(* Both objects of every run are accounted for in every reachable state. *)
THEOREM ApiInvariance == Spec => []Inv
<1> QED
  BY InitInv, NextInv, PTL DEF Spec

(* Every variable of the API keeps its type. *)
THEOREM ApiTypeCorrect == Spec => []TypeOK
<1>1. Inv => TypeOK
  BY DEF Inv
<1> QED
  BY <1>1, ApiInvariance, PTL

(* A client polls an answer, a failure or a cancellation only when that is *)
(* what became of its run, whatever order routes and worker wrote in.      *)
THEOREM PolledStatusIsExplained == Spec => []ShownIsExplained
<1>1. Inv => ShownIsExplained
  BY DEF Inv, TypeOK, Listings, Causes, Cancelled, ShownIsExplained, Shown, Answer, Objects
<1> QED
  BY <1>1, ApiInvariance, PTL

-----------------------------------------------------------------------------
(* Finality.                                                               *)

(* The task is done, and no route has passed its check of that: the ones   *)
(* that were dispatched, or will be, find it done.                         *)
Quiet(r) ==
    /\ Ended(r)
    /\ \A c \in Cancels : target[c] = r => cancel[c] \in {"none", "dispatched", "returned"}

LEMMA QuietStays ==
    ASSUME NEW r \in Runs, NEW s, Inv, Quiet(r) /\ Shown(r) = s, [Next]_vars
    PROVE  (Quiet(r) /\ Shown(r) = s)'
<1>1. ASSUME NEW q \in Runs, CreateRun(q) \/ WorkerStep(q)
      PROVE  (Quiet(r) /\ Shown(r) = s)'
  <2>1. q # r
    BY <1>1 DEF CreateRun, WorkerStep, WorkerStarts, NeverStarts, SleepInterrupted,
                RunBegins, WakesUp, StoreFinalState, RunRaises, WorkerEnds, Quiet, Ended,
                Inv, TypeOK, Listings
  <2> QED
    BY <1>1, <2>1 DEF CreateRun, WorkerStep, WorkerStarts, NeverStarts, SleepInterrupted,
                RunBegins, WakesUp, StoreFinalState, RunRaises, MarkedFailed, WorkerEnds,
                Quiet, Ended, Shown, With, routeVars, Inv, TypeOK
<1>2. ASSUME NEW c \in Cancels, RouteStep(c)
      PROVE  (Quiet(r) /\ Shown(r) = s)'
  BY <1>2 DEF RouteStep, CancelChecks, Active, CancelEmits, CancelLooksUp, CancelMarks,
              Quiet, Ended, Shown, With, loopVars, Inv, TypeOK, Objects
<1>3. ASSUME NEW c \in Cancels, NEW q \in Runs, CancelDispatched(c, q)
      PROVE  (Quiet(r) /\ Shown(r) = s)'
  BY <1>3 DEF CancelDispatched, Quiet, Ended, Shown, loopVars, Inv, TypeOK
<1>4. CASE UNCHANGED vars
  BY <1>4 DEF vars, loopVars, routeVars, Quiet, Ended, Shown
<1> QED
  BY <1>1, <1>2, <1>3, <1>4 DEF Next

(* Once a run has ended and the cancels that overlapped with it are        *)
(* through, its client polls the same status for ever.                     *)
THEOREM PolledOutcomeIsFinal == Spec => OutcomeIsFinal
<1> SUFFICES ASSUME NEW r \in Runs, NEW s \in Statuses
             PROVE  Spec => [](Ended(r) /\ ~BeingCancelled(r) /\ Shown(r) = s
                                 => [](Shown(r) = s))
  BY DEF OutcomeIsFinal
<1>1. Ended(r) /\ ~BeingCancelled(r) /\ Shown(r) = s => Quiet(r) /\ Shown(r) = s
  BY DEF BeingCancelled, Quiet
<1>2. Inv /\ Quiet(r) /\ Shown(r) = s /\ [Next]_vars => (Quiet(r) /\ Shown(r) = s)'
  BY QuietStays
<1> QED
  BY <1>1, <1>2, ApiInvariance, PTL DEF Spec

=============================================================================
