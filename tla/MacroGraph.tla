----------------------------- MODULE MacroGraph -----------------------------
(***************************************************************************)
(* The workflow graph as functions of its channels: graph/nodes.py,        *)
(* graph/edges.py, graph/builder.py, graph/reducers.py, graph/state.py and *)
(* the policy gate of mcp_clients/.  A node returns updates, the reducers  *)
(* merge them; here an operator maps the channels a node reads to those it *)
(* leaves behind.  Nothing here is concurrent: DurableAgent says when a    *)
(* node runs and what may happen in between.                               *)
(***************************************************************************)
EXTENDS Integers, Sequences, FiniteSets

CONSTANT StepLimit    \* decide_next_action stops a run at 25 trace events

ASSUME StepLimitAssumption == StepLimit \in Nat \ {0}

Nodes == {"parse_request", "assemble_context", "human_approval",
          "submit_mcp_job", "poll_job_status", "finalize"}

END == "END"

(***************************************************************************)
(* user_query, as far as parse_request tells queries apart: one asking for *)
(* a direct answer, one with a word that calls for approval, any other.    *)
(***************************************************************************)
Queries == {"direct", "marked", "plain"}

(***************************************************************************)
(* analysis_plan: none, the draft assemble_context writes, whose task is   *)
(* not a registered capability, and plans for the registered one, whose    *)
(* job will succeed or fail.                                               *)
(***************************************************************************)
Plans == {"empty", "draft", "forecast", "failing"}

(* The action of a review: the three that are documented, or any other     *)
(* string, which nothing rejects.                                          *)
Decisions == {"approved", "rejected", "edited", "other"}

(***************************************************************************)
(* The channels.  A job id in `completed' stands for its entry in          *)
(* completed_job_results and for its artifact in artifact_refs, which one  *)
(* node writes together; `cites' are the artifacts final_answer counts.    *)
(* trace_events is append-only and read for its length alone.              *)
(***************************************************************************)
Channels ==
    [query     : Queries \cup {"none"},
     intent    : {"none", "direct_answer", "macro_diagnostics"},
     approval  : Decisions \cup {"none", "not_required", "pending"},
     plan      : Plans,
     active    : Seq(Nat),
     completed : SUBSET Nat,
     errors    : SUBSET {"policy", "job"},
     status    : {"none", "running", "waiting_for_job", "completed", "failed"},
     answer    : {"none", "report", "aborted"},
     cites     : SUBSET Nat,
     trace     : Nat]

NoChannels ==
    [query |-> "none", intent |-> "none", approval |-> "none", plan |-> "empty",
     active |-> << >>, completed |-> {}, errors |-> {}, status |-> "none",
     answer |-> "none", cites |-> {}, trace |-> 0]

-----------------------------------------------------------------------------
(* Reducers.                                                               *)

(* reduce_unique_str_list. *)
AppendUnique(s, x) ==
    IF \E i \in DOMAIN s : s[i] = x THEN s ELSE Append(s, x)

(* Faulty variant: without reduce_append a node's event replaces the list. *)
LatestEvent(c) == [c EXCEPT !.trace = 1]

Traced(c) == [c EXCEPT !.trace = @ + 1]

-----------------------------------------------------------------------------
(* The policy gate.                                                        *)

ForecastTool == "mcp_arima_forecast"

Registry ==
    [name \in {ForecastTool} |->
        [risk |-> "high", approval |-> TRUE, roles |-> {"researcher", "admin"}]]

(* The one registered capability has no input schema to violate. *)
EvaluateToolCall(tool, role) ==
    IF tool \notin DOMAIN Registry THEN "deny"
    ELSE IF role \notin Registry[tool].roles THEN "deny"
    ELSE IF Registry[tool].risk = "high" \/ Registry[tool].approval THEN "route_to_hitl"
    ELSE "allow"

(* plan.get("task", "mcp_arima_forecast") *)
ToolOf(plan) == IF plan = "draft" THEN "backtest" ELSE ForecastTool

Denied(c) == EvaluateToolCall(ToolOf(c.plan), "researcher") = "deny"

-----------------------------------------------------------------------------
(* Nodes.                                                                  *)

(* The initial state run_workflow passes in, merged into the channels. *)
NewInput(c, q) == [c EXCEPT !.query = q, !.status = "running"]

ParseRequest(c) ==
    Traced([c EXCEPT
        !.intent = IF c.query = "direct" THEN "direct_answer" ELSE "macro_diagnostics",
        !.approval = IF c.query = "marked" THEN "pending" ELSE "not_required"])

AssembleContext(c) ==
    Traced([c EXCEPT !.plan = IF c.approval = "pending" THEN "draft" ELSE @])

HumanApproval(c, action, plan) ==
    Traced([c EXCEPT !.approval = action, !.plan = plan])

SubmitDenied(c) ==
    Traced([c EXCEPT !.status = "failed", !.errors = @ \cup {"policy"}])

Submitted(c, i) ==
    Traced([c EXCEPT !.status = "waiting_for_job", !.active = AppendUnique(@, i)])

(* Faulty variants: the job's status is taken for the thread's own, an      *)
(* unfinished job is recorded as evidence, a success is not recorded.       *)
PolledCopied(c, i, seen) == Traced([c EXCEPT !.status = seen])

PolledAnything(c, i, seen) ==
    Traced(IF seen = "failed"
             THEN [c EXCEPT !.status = "failed", !.errors = @ \cup {"job"}]
             ELSE [c EXCEPT !.status = "running", !.completed = @ \cup {i}])

PolledUnrecorded(c, i, seen) ==
    Traced(IF seen = "failed"
             THEN [c EXCEPT !.status = "failed", !.errors = @ \cup {"job"}]
             ELSE [c EXCEPT !.status = "running"])

(* What polling job i makes of the status it saw, "none" for no record. *)
Polled(c, i, seen) ==
    Traced(CASE seen = "succeeded" -> [c EXCEPT !.status = "running",
                                                !.completed = @ \cup {i}]
             [] seen = "failed" -> [c EXCEPT !.status = "failed",
                                             !.errors = @ \cup {"job"}]
             [] OTHER -> c)

Finalize(c) ==
    Traced(IF c.approval = "rejected"
             THEN [c EXCEPT !.status = "failed", !.answer = "aborted", !.cites = {}]
             ELSE [c EXCEPT !.status = "completed", !.answer = "report",
                            !.cites = c.completed])

-----------------------------------------------------------------------------
(* Edges.                                                                  *)

(* Faulty variant: the difference taken the other way round. *)
UnknownResults(c) == c.completed \ {c.active[i] : i \in DOMAIN c.active}

PendingJobs(c) == {c.active[i] : i \in DOMAIN c.active} \ c.completed

(* Faulty variant: only a run that lands on the limit is stopped. *)
HitsLimit(c) == c.trace = StepLimit

MaxStepsHit(c) == c.trace >= StepLimit

(* Faulty variant: an edited plan goes straight to execution. *)
NeedsFirstReview(c) == c.approval = "pending"

NeedsReview(c) == c.approval \in {"pending", "edited"}

(* decide_next_action, out of assemble_context. *)
DecideNextAction(c) ==
    IF MaxStepsHit(c) THEN END
    ELSE IF c.status = "failed" \/ c.intent = "direct_answer" THEN "finalize"
    ELSE IF NeedsReview(c) THEN "human_approval"
    ELSE IF c.approval = "rejected" THEN "finalize"
    ELSE IF c.active = << >> THEN "submit_mcp_job"
    ELSE IF PendingJobs(c) # {} THEN "poll_job_status"
    ELSE "finalize"

(* decide_after_job_activity, out of submit_mcp_job and poll_job_status. *)
DecideAfterJobActivity(c) ==
    CASE c.status = "failed" -> "finalize"
      [] c.status = "waiting_for_job" -> END
      [] OTHER -> "assemble_context"

(* The node that follows a node that left the channels c. *)
Successor(node, c) ==
    CASE node = "parse_request" -> "assemble_context"
      [] node = "assemble_context" -> DecideNextAction(c)
      [] node = "human_approval" -> "assemble_context"
      [] node \in {"submit_mcp_job", "poll_job_status"} -> DecideAfterJobActivity(c)
      [] node = "finalize" -> END

=============================================================================
