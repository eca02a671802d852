-------------------------- MODULE MacroGraphProofs --------------------------
(***************************************************************************)
(* Lemmas about MacroGraph for every step limit: what a checkpoint, the     *)
(* node that runs next and the channels it will read, keeps true from one  *)
(* node to the next.                                                       *)
(***************************************************************************)
EXTENDS MacroGraph, SequenceTheorems, TLAPS

Jobs(c) == {c.active[i] : i \in DOMAIN c.active}

(* A research question is settled by an error or by a finished job. *)
Settled(c) == c.errors # {} \/ (c.active # << >> /\ PendingJobs(c) = {})

(* The limit stops a run before any other node (decide_next_action). *)
Budgeted(n, c) ==
    /\ n \in {"human_approval", "submit_mcp_job", "poll_job_status"} => c.trace < StepLimit
    /\ n = "finalize" => c.trace <= StepLimit

(* A run whose query calls for approval has a decision, or still asks for  *)
(* one; the plan is the reviewed one once a review has let it pass, and    *)
(* nothing is submitted before.                                            *)
Unapproved == {"pending", "edited", "rejected"}

Reviewed(n, c, a) ==
    c.query = "marked" /\ n \in Nodes \ {"parse_request"} =>
        /\ c.approval \in Decisions \cup {"pending"}
        /\ c.approval \notin Unapproved => a = c.plan
        /\ n = "submit_mcp_job" => c.approval \notin Unapproved

(* Only finalize completes a run, and for a research question only when    *)
(* it is settled, unless the plan was rejected.                            *)
Reported(n, c) ==
    /\ n \in Nodes => c.status # "completed" /\ (c.status = "failed" => c.errors # {})
    /\ n = "finalize" /\ c.intent = "macro_diagnostics" /\ c.approval # "rejected"
          => Settled(c)
    /\ c.status = "completed" /\ c.intent = "macro_diagnostics" => Settled(c)

(* A thread submits when it has no job, polls when it has one, and has     *)
(* evidence of no other.                                                   *)
OneJob(n, c) ==
    /\ Len(c.active) <= 1
    /\ n = "submit_mcp_job" => c.active = << >>
    /\ n = "poll_job_status" => c.active # << >>
    /\ c.completed \cup c.cites \subseteq Jobs(c)

Sound(n, c, a) ==
    /\ n \in Nodes \cup {END}
    /\ c \in Channels
    /\ Budgeted(n, c)
    /\ Reviewed(n, c, a)
    /\ Reported(n, c)
    /\ OneJob(n, c)

SoundAfter(node, c, a) == Sound(Successor(node, c), c, a)

-----------------------------------------------------------------------------
(* What a node leaves alone, field by field.                               *)

(* Every node appends one event to the trace.                              *)
LEMMA TracedWrites ==
    ASSUME NEW c \in Channels
    PROVE  /\ Traced(c) \in Channels
           /\ Traced(c).query = c.query /\ Traced(c).intent = c.intent /\ Traced(c).approval = c.approval
           /\ Traced(c).plan = c.plan /\ Traced(c).active = c.active /\ Traced(c).completed = c.completed
           /\ Traced(c).errors = c.errors /\ Traced(c).status = c.status /\ Traced(c).answer = c.answer
           /\ Traced(c).cites = c.cites
           /\ Traced(c).trace = c.trace + 1
<1> DEFINE k == c.trace + 1
<1>1. k \in Nat
  BY DEF Channels
<1>2. Traced(c) = [c EXCEPT !.trace = k]
  BY DEF Traced
<1> HIDE DEF k
<1>3. Traced(c) \in Channels
  BY <1>1, <1>2 DEF Channels
<1> QED
  BY <1>2, <1>3 DEF Channels, k

(* parse_request sets the intent and asks for approval.                    *)
LEMMA ParseRequestWrites ==
    ASSUME NEW c \in Channels
    PROVE  LET d == ParseRequest(c) IN
           /\ d \in Channels
           /\ d.query = c.query /\ d.plan = c.plan /\ d.active = c.active
           /\ d.completed = c.completed /\ d.errors = c.errors /\ d.status = c.status
           /\ d.answer = c.answer /\ d.cites = c.cites
           /\ d.intent \in {"direct_answer", "macro_diagnostics"}
           /\ d.approval = IF c.query = "marked" THEN "pending" ELSE "not_required"
           /\ d.trace = c.trace + 1
<1> DEFINE x == IF c.query = "direct" THEN "direct_answer" ELSE "macro_diagnostics"
           y == IF c.query = "marked" THEN "pending" ELSE "not_required"
           e == [c EXCEPT !.intent = x, !.approval = y]
<1>1. ParseRequest(c) = Traced(e)
  BY DEF ParseRequest
<1>2. e \in Channels
  BY DEF Channels, Queries, Decisions, Plans
<1>3. /\ e.query = c.query /\ e.plan = c.plan /\ e.active = c.active
      /\ e.completed = c.completed /\ e.errors = c.errors /\ e.status = c.status
      /\ e.answer = c.answer /\ e.cites = c.cites /\ e.trace = c.trace
      /\ e.intent \in {"direct_answer", "macro_diagnostics"}
      /\ e.approval = IF c.query = "marked" THEN "pending" ELSE "not_required"
  BY DEF Channels
<1> HIDE DEF e
<1> QED
  BY <1>1, <1>2, <1>3, TracedWrites

(* assemble_context drafts a plan while approval is pending.               *)
LEMMA AssembleContextWrites ==
    ASSUME NEW c \in Channels
    PROVE  LET d == AssembleContext(c) IN
           /\ d \in Channels
           /\ d.query = c.query /\ d.intent = c.intent /\ d.approval = c.approval
           /\ d.active = c.active /\ d.completed = c.completed /\ d.errors = c.errors
           /\ d.status = c.status /\ d.answer = c.answer /\ d.cites = c.cites
           /\ d.plan = IF c.approval = "pending" THEN "draft" ELSE c.plan
           /\ d.trace = c.trace + 1
<1> DEFINE x == IF c.approval = "pending" THEN "draft" ELSE c.plan
           e == [c EXCEPT !.plan = x]
<1>1. AssembleContext(c) = Traced(e)
  BY DEF AssembleContext
<1>2. e \in Channels
  BY DEF Channels, Queries, Decisions, Plans
<1>3. /\ e.query = c.query /\ e.intent = c.intent /\ e.approval = c.approval
      /\ e.active = c.active /\ e.completed = c.completed /\ e.errors = c.errors
      /\ e.status = c.status /\ e.answer = c.answer /\ e.cites = c.cites
      /\ e.trace = c.trace
      /\ e.plan = IF c.approval = "pending" THEN "draft" ELSE c.plan
  BY DEF Channels
<1> HIDE DEF e
<1> QED
  BY <1>1, <1>2, <1>3, TracedWrites

(* human_approval takes over the decision and its plan.                    *)
LEMMA HumanApprovalWrites ==
    ASSUME NEW c \in Channels, NEW action \in Decisions, NEW plan \in Plans
    PROVE  LET d == HumanApproval(c, action, plan) IN
           /\ d \in Channels
           /\ d.query = c.query /\ d.intent = c.intent /\ d.active = c.active
           /\ d.completed = c.completed /\ d.errors = c.errors /\ d.status = c.status
           /\ d.answer = c.answer /\ d.cites = c.cites
           /\ d.approval = action
           /\ d.plan = plan
           /\ d.trace = c.trace + 1
<1> DEFINE e == [c EXCEPT !.approval = action, !.plan = plan]
<1>1. HumanApproval(c, action, plan) = Traced(e)
  BY DEF HumanApproval
<1>2. e \in Channels
  BY DEF Channels, Queries, Decisions, Plans
<1>3. /\ e.query = c.query /\ e.intent = c.intent /\ e.active = c.active
      /\ e.completed = c.completed /\ e.errors = c.errors /\ e.status = c.status
      /\ e.answer = c.answer /\ e.cites = c.cites /\ e.trace = c.trace
      /\ e.approval = action
      /\ e.plan = plan
  BY DEF Channels
<1> HIDE DEF e
<1> QED
  BY <1>1, <1>2, <1>3, TracedWrites

(* A denied plan fails the run with an error.                              *)
LEMMA SubmitDeniedWrites ==
    ASSUME NEW c \in Channels
    PROVE  LET d == SubmitDenied(c) IN
           /\ d \in Channels
           /\ d.query = c.query /\ d.intent = c.intent /\ d.approval = c.approval
           /\ d.plan = c.plan /\ d.active = c.active /\ d.completed = c.completed
           /\ d.answer = c.answer /\ d.cites = c.cites
           /\ d.status = "failed"
           /\ d.errors = c.errors \cup {"policy"}
           /\ d.trace = c.trace + 1
<1> DEFINE e == [c EXCEPT !.status = "failed", !.errors = c.errors \cup {"policy"}]
<1>1. SubmitDenied(c) = Traced(e)
  BY DEF SubmitDenied
<1>2. e \in Channels
  BY DEF Channels, Queries, Decisions, Plans
<1>3. /\ e.query = c.query /\ e.intent = c.intent /\ e.approval = c.approval
      /\ e.plan = c.plan /\ e.active = c.active /\ e.completed = c.completed
      /\ e.answer = c.answer /\ e.cites = c.cites /\ e.trace = c.trace
      /\ e.status = "failed"
      /\ e.errors = c.errors \cup {"policy"}
  BY DEF Channels
<1> HIDE DEF e
<1> QED
  BY <1>1, <1>2, <1>3, TracedWrites

(* A job that is submitted by a thread without one is its only one.        *)
LEMMA SubmittedWrites ==
    ASSUME NEW c \in Channels, NEW i \in Nat, c.active = << >>
    PROVE  LET d == Submitted(c, i) IN
           /\ d \in Channels
           /\ d.query = c.query /\ d.intent = c.intent /\ d.approval = c.approval
           /\ d.plan = c.plan /\ d.completed = c.completed /\ d.errors = c.errors
           /\ d.answer = c.answer /\ d.cites = c.cites
           /\ d.status = "waiting_for_job"
           /\ d.active = <<i>>
           /\ d.trace = c.trace + 1
<1> DEFINE x == AppendUnique(c.active, i)
           e == [c EXCEPT !.status = "waiting_for_job", !.active = x]
<1>1. Submitted(c, i) = Traced(e)
  BY DEF Submitted
<1>2. x = <<i>> /\ x \in Seq(Nat)
  BY DEF AppendUnique
<1> HIDE DEF x
<1>3. e \in Channels
  BY <1>2 DEF Channels, Queries, Decisions, Plans
<1>4. /\ e.query = c.query /\ e.intent = c.intent /\ e.approval = c.approval
      /\ e.plan = c.plan /\ e.completed = c.completed /\ e.errors = c.errors
      /\ e.answer = c.answer /\ e.cites = c.cites /\ e.trace = c.trace
      /\ e.status = "waiting_for_job"
      /\ e.active = <<i>>
  BY <1>2 DEF Channels
<1> HIDE DEF e
<1> QED
  BY <1>1, <1>3, <1>4, TracedWrites

(* Polling records a success, reports a failure and leaves the channels    *)
(* alone otherwise.                                                        *)
LEMMA PolledWrites ==
    ASSUME NEW c \in Channels, NEW i \in Nat, NEW seen
    PROVE  LET d == Polled(c, i, seen) IN
           /\ d \in Channels
           /\ d.query = c.query /\ d.intent = c.intent /\ d.approval = c.approval
           /\ d.plan = c.plan /\ d.active = c.active /\ d.answer = c.answer
           /\ d.cites = c.cites
           /\ d.trace = c.trace + 1
           /\ \/ /\ seen = "succeeded" /\ d.status = "running"
                 /\ d.completed = c.completed \cup {i} /\ d.errors = c.errors
              \/ /\ seen = "failed" /\ d.status = "failed"
                 /\ d.completed = c.completed /\ d.errors = c.errors \cup {"job"}
              \/ /\ seen \notin {"succeeded", "failed"} /\ d.status = c.status
                 /\ d.completed = c.completed /\ d.errors = c.errors
<1>1. CASE seen = "succeeded"
  <2> DEFINE e == [c EXCEPT !.status = "running", !.completed = c.completed \cup {i}]
  <2>1. Polled(c, i, seen) = Traced(e)
    BY <1>1 DEF Polled
  <2>2. e \in Channels
    BY DEF Channels
  <2>3. /\ e.query = c.query /\ e.intent = c.intent /\ e.approval = c.approval
        /\ e.plan = c.plan /\ e.active = c.active /\ e.errors = c.errors
        /\ e.answer = c.answer /\ e.cites = c.cites /\ e.trace = c.trace
        /\ e.completed = c.completed \cup {i}
        /\ e.status = "running"
    BY DEF Channels
  <2> HIDE DEF e
  <2> QED
    BY <1>1, <2>1, <2>2, <2>3, TracedWrites
<1>2. CASE seen = "failed"
  <2> DEFINE e == [c EXCEPT !.status = "failed", !.errors = c.errors \cup {"job"}]
  <2>1. Polled(c, i, seen) = Traced(e)
    BY <1>2 DEF Polled
  <2>2. e \in Channels
    BY DEF Channels
  <2>3. /\ e.query = c.query /\ e.intent = c.intent /\ e.approval = c.approval
        /\ e.plan = c.plan /\ e.active = c.active /\ e.completed = c.completed
        /\ e.answer = c.answer /\ e.cites = c.cites /\ e.trace = c.trace
        /\ e.errors = c.errors \cup {"job"}
        /\ e.status = "failed"
    BY DEF Channels
  <2> HIDE DEF e
  <2> QED
    BY <1>2, <2>1, <2>2, <2>3, TracedWrites
<1>3. CASE seen \notin {"succeeded", "failed"}
  <2>1. Polled(c, i, seen) = Traced(c)
    BY <1>3 DEF Polled
  <2> QED
    BY <1>3, <2>1, TracedWrites
<1> QED
  BY <1>1, <1>2, <1>3

(* A rejected plan fails the run, everything else completes it.            *)
LEMMA FinalizeWrites ==
    ASSUME NEW c \in Channels
    PROVE  LET d == Finalize(c) IN
           /\ d \in Channels
           /\ d.query = c.query /\ d.intent = c.intent /\ d.approval = c.approval
           /\ d.plan = c.plan /\ d.active = c.active /\ d.completed = c.completed
           /\ d.errors = c.errors
           /\ d.trace = c.trace + 1
           /\ \/ c.approval = "rejected" /\ d.status = "failed" /\ d.cites = {}
              \/ c.approval # "rejected" /\ d.status = "completed" /\ d.cites = c.completed
<1>1. CASE c.approval = "rejected"
  <2> DEFINE e == [c EXCEPT !.status = "failed", !.answer = "aborted", !.cites = {}]
  <2>1. Finalize(c) = Traced(e)
    BY <1>1 DEF Finalize
  <2>2. e \in Channels
    BY DEF Channels
  <2>3. /\ e.query = c.query /\ e.intent = c.intent /\ e.approval = c.approval
        /\ e.plan = c.plan /\ e.active = c.active /\ e.completed = c.completed
        /\ e.errors = c.errors /\ e.trace = c.trace
        /\ e.status = "failed"
        /\ e.cites = {}
    BY DEF Channels
  <2> HIDE DEF e
  <2> QED
    BY <1>1, <2>1, <2>2, <2>3, TracedWrites
<1>2. CASE c.approval # "rejected"
  <2> DEFINE e == [c EXCEPT !.status = "completed", !.answer = "report",
                            !.cites = c.completed]
  <2>1. Finalize(c) = Traced(e)
    BY <1>2 DEF Finalize
  <2>2. e \in Channels
    BY DEF Channels
  <2>3. /\ e.query = c.query /\ e.intent = c.intent /\ e.approval = c.approval
        /\ e.plan = c.plan /\ e.active = c.active /\ e.completed = c.completed
        /\ e.errors = c.errors /\ e.trace = c.trace
        /\ e.status = "completed"
        /\ e.cites = c.completed
    BY DEF Channels
  <2> HIDE DEF e
  <2> QED
    BY <1>2, <2>1, <2>2, <2>3, TracedWrites
<1> QED
  BY <1>1, <1>2

(* New input replaces the query and leaves all that earlier runs did.      *)
LEMMA NewInputWrites ==
    ASSUME NEW c \in Channels, NEW q \in Queries
    PROVE  LET d == NewInput(c, q) IN
           /\ d \in Channels
           /\ d.intent = c.intent /\ d.approval = c.approval /\ d.plan = c.plan
           /\ d.active = c.active /\ d.completed = c.completed /\ d.errors = c.errors
           /\ d.answer = c.answer /\ d.cites = c.cites /\ d.trace = c.trace
           /\ d.query = q
           /\ d.status = "running"
<1>1. NewInput(c, q) \in Channels
  BY DEF NewInput, Channels
<1> QED
  BY <1>1 DEF NewInput, Channels

-----------------------------------------------------------------------------
(* What follows every node, in every thread and every run.                 *)

(* Every run assembles its context next.                                   *)
LEMMA ParseRequestSound ==
    ASSUME NEW c, NEW a, Sound("parse_request", c, a)
    PROVE  SoundAfter("parse_request", ParseRequest(c), a)
<1> DEFINE d == ParseRequest(c)
<1>1. /\ d \in Channels
      /\ d.query = c.query /\ d.plan = c.plan /\ d.status = c.status
      /\ d.active = c.active /\ d.completed = c.completed /\ d.cites = c.cites
      /\ d.errors = c.errors /\ d.trace = c.trace + 1
      /\ d.intent \in {"direct_answer", "macro_diagnostics"}
      /\ d.approval = IF c.query = "marked" THEN "pending" ELSE "not_required"
  BY ParseRequestWrites DEF Sound
<1> HIDE DEF d
<1>2. Successor("parse_request", d) = "assemble_context"
  BY DEF Successor
<1>3. Reviewed("assemble_context", d, a)
  BY <1>1 DEF Reviewed, Unapproved
<1>4. Reported("assemble_context", d)
  BY <1>1 DEF Sound, Reported, Nodes
<1>5. OneJob("assemble_context", d)
  BY <1>1 DEF Sound, OneJob, Jobs
<1>6. Budgeted("assemble_context", d)
  BY DEF Budgeted
<1> QED
  BY <1>1, <1>2, <1>3, <1>4, <1>5, <1>6 DEF SoundAfter, Sound, Nodes, d

(* The limit, or one of the five ways on.                                  *)
LEMMA AssembleContextSound ==
    ASSUME NEW c, NEW a, Sound("assemble_context", c, a)
    PROVE  SoundAfter("assemble_context", AssembleContext(c), a)
<1> DEFINE d == AssembleContext(c)
           n == DecideNextAction(d)
<1>1. /\ d \in Channels
      /\ d.query = c.query /\ d.intent = c.intent /\ d.approval = c.approval
      /\ d.active = c.active /\ d.completed = c.completed /\ d.errors = c.errors
      /\ d.status = c.status /\ d.answer = c.answer /\ d.cites = c.cites
      /\ d.plan = IF c.approval = "pending" THEN "draft" ELSE c.plan
      /\ d.trace = c.trace + 1
  BY AssembleContextWrites DEF Sound
<1>2. Successor("assemble_context", d) = n
  BY DEF Successor
<1> HIDE DEF d
<1>3. n \in Nodes \cup {END}
  BY DEF DecideNextAction, Nodes
<1>4. Budgeted(n, d)
  <2>1. d.trace \in Nat
    BY <1>1 DEF Channels
  <2>2. n # END => d.trace < StepLimit
    BY <2>1, StepLimitAssumption DEF DecideNextAction, MaxStepsHit, END
  <2> QED
    BY <2>1, <2>2, StepLimitAssumption DEF Budgeted, END
<1>5. Reviewed(n, d, a)
  <2>1. c.query = "marked" =>
            /\ c.approval \in Decisions \cup {"pending"}
            /\ c.approval \notin Unapproved => a = c.plan
    BY DEF Sound, Reviewed, Nodes
  <2>2. n = "submit_mcp_job" => d.approval \notin Unapproved
    BY DEF DecideNextAction, NeedsReview, END, Unapproved
  <2> QED
    BY <1>1, <2>1, <2>2 DEF Reviewed, Unapproved
<1>6. Reported(n, d)
  <2>1. c.status # "completed" /\ (c.status = "failed" => c.errors # {})
    BY DEF Sound, Reported, Nodes
  <2>2. n = "finalize" =>
            \/ d.status = "failed" \/ d.intent = "direct_answer" \/ d.approval = "rejected"
            \/ d.active # << >> /\ PendingJobs(d) = {}
    BY DEF DecideNextAction, END
  <2> QED
    BY <1>1, <2>1, <2>2 DEF Reported, Settled
<1>7. OneJob(n, d)
  <2>1. n = "submit_mcp_job" => d.active = << >>
    BY DEF DecideNextAction, END
  <2>2. n = "poll_job_status" => d.active # << >>
    BY DEF DecideNextAction, END
  <2> QED
    BY <1>1, <2>1, <2>2 DEF Sound, OneJob, Jobs
<1> QED
  BY <1>1, <1>2, <1>3, <1>4, <1>5, <1>6, <1>7 DEF SoundAfter, Sound, d

(* The decision is what the next run of the node is bound by.              *)
LEMMA HumanApprovalSound ==
    ASSUME NEW c, NEW a, NEW b, Sound("human_approval", c, a),
           NEW action \in Decisions, NEW plan \in Plans, action \notin {"rejected", "edited"} => b = plan
    PROVE  SoundAfter("human_approval", HumanApproval(c, action, plan), b)
<1> DEFINE d == HumanApproval(c, action, plan)
<1>1. /\ d \in Channels
      /\ d.query = c.query /\ d.intent = c.intent /\ d.active = c.active
      /\ d.completed = c.completed /\ d.errors = c.errors /\ d.status = c.status
      /\ d.answer = c.answer /\ d.cites = c.cites
      /\ d.approval = action
      /\ d.plan = plan
      /\ d.trace = c.trace + 1
  BY HumanApprovalWrites DEF Sound
<1> HIDE DEF d
<1>2. Successor("human_approval", d) = "assemble_context"
  BY DEF Successor
<1>3. Reviewed("assemble_context", d, b)
  BY <1>1 DEF Reviewed, Unapproved
<1>4. Reported("assemble_context", d)
  BY <1>1 DEF Sound, Reported, Nodes
<1>5. OneJob("assemble_context", d)
  BY <1>1 DEF Sound, OneJob, Jobs
<1>6. Budgeted("assemble_context", d)
  BY DEF Budgeted
<1> QED
  BY <1>1, <1>2, <1>3, <1>4, <1>5, <1>6 DEF SoundAfter, Sound, Nodes, d

(* A denied plan leads to the end of the run, with its error.              *)
LEMMA SubmitDeniedSound ==
    ASSUME NEW c, NEW a, Sound("submit_mcp_job", c, a)
    PROVE  SoundAfter("submit_mcp_job", SubmitDenied(c), a)
<1> DEFINE d == SubmitDenied(c)
<1>1. /\ d \in Channels
      /\ d.query = c.query /\ d.intent = c.intent /\ d.approval = c.approval
      /\ d.plan = c.plan /\ d.active = c.active /\ d.completed = c.completed
      /\ d.answer = c.answer /\ d.cites = c.cites
      /\ d.status = "failed"
      /\ d.errors = c.errors \cup {"policy"}
      /\ d.trace = c.trace + 1
  BY SubmitDeniedWrites DEF Sound
<1> HIDE DEF d
<1>2. Successor("submit_mcp_job", d) = "finalize"
  BY <1>1 DEF Successor, DecideAfterJobActivity
<1>3. Reviewed("finalize", d, a)
  BY <1>1 DEF Sound, Reviewed, Nodes
<1>4. Reported("finalize", d)
  BY <1>1 DEF Reported, Settled
<1>5. OneJob("finalize", d)
  BY <1>1 DEF Sound, OneJob, Jobs
<1>6. Budgeted("finalize", d)
  BY <1>1, StepLimitAssumption DEF Sound, Budgeted, Channels
<1> QED
  BY <1>1, <1>2, <1>3, <1>4, <1>5, <1>6 DEF SoundAfter, Sound, Nodes, d

(* A job that was submitted pauses the run.                                *)
LEMMA SubmittedSound ==
    ASSUME NEW c, NEW a, Sound("submit_mcp_job", c, a), NEW i \in Nat
    PROVE  /\ SoundAfter("submit_mcp_job", Submitted(c, i), a)
           /\ Jobs(Submitted(c, i)) = {i}
<1> DEFINE d == Submitted(c, i)
<1>1. /\ d \in Channels
      /\ d.query = c.query /\ d.intent = c.intent /\ d.approval = c.approval
      /\ d.plan = c.plan /\ d.completed = c.completed /\ d.errors = c.errors
      /\ d.answer = c.answer /\ d.cites = c.cites
      /\ d.status = "waiting_for_job"
      /\ d.active = <<i>>
      /\ d.trace = c.trace + 1
  BY SubmittedWrites DEF Sound, OneJob
<1> HIDE DEF d
<1>2. Successor("submit_mcp_job", d) = END
  BY <1>1 DEF Successor, DecideAfterJobActivity
<1>3. Reviewed(END, d, a)
  BY DEF Reviewed, Nodes, END
<1>4. Reported(END, d)
  BY <1>1 DEF Reported, Nodes, END
<1>5. Jobs(d) = {i} /\ Len(d.active) = 1
  BY <1>1 DEF Jobs
<1>6. OneJob(END, d)
  <2>1. Jobs(c) = {} /\ c.completed \cup c.cites \subseteq Jobs(c)
    BY DEF Sound, OneJob, Jobs
  <2> QED
    BY <1>1, <1>5, <2>1 DEF OneJob, END
<1>7. Budgeted(END, d)
  BY DEF Budgeted, END
<1> QED
  BY <1>1, <1>2, <1>3, <1>4, <1>5, <1>6, <1>7 DEF SoundAfter, Sound, d

(* Polling the thread's own job, whatever it shows.                        *)
LEMMA PolledSound ==
    ASSUME NEW c, NEW a, Sound("poll_job_status", c, a), NEW i \in Jobs(c), NEW seen
    PROVE  SoundAfter("poll_job_status", Polled(c, i, seen), a)
<1> DEFINE d == Polled(c, i, seen)
           n == DecideAfterJobActivity(d)
<1>1. i \in Nat /\ c \in Channels
  BY DEF Jobs, Sound, Channels
<1>2. /\ d \in Channels
      /\ d.query = c.query /\ d.intent = c.intent /\ d.approval = c.approval
      /\ d.plan = c.plan /\ d.active = c.active /\ d.answer = c.answer
      /\ d.cites = c.cites
      /\ d.trace = c.trace + 1
      /\ \/ /\ seen = "succeeded" /\ d.status = "running"
            /\ d.completed = c.completed \cup {i} /\ d.errors = c.errors
         \/ /\ seen = "failed" /\ d.status = "failed"
            /\ d.completed = c.completed /\ d.errors = c.errors \cup {"job"}
         \/ /\ seen \notin {"succeeded", "failed"} /\ d.status = c.status
            /\ d.completed = c.completed /\ d.errors = c.errors
  BY <1>1, PolledWrites
<1> HIDE DEF d
<1>3. Successor("poll_job_status", d) = n
  BY DEF Successor
<1>4. /\ n \in {"finalize", "assemble_context", END}
      /\ n = "finalize" => d.status = "failed"
  BY DEF DecideAfterJobActivity, END
<1>5. c.status # "completed" /\ (c.status = "failed" => c.errors # {})
  BY DEF Sound, Reported, Nodes
<1>6. d.status # "completed" /\ (d.status = "failed" => d.errors # {})
  BY <1>2, <1>5
<1>7. Reviewed(n, d, a)
  BY <1>2, <1>4 DEF Sound, Reviewed, Nodes, END
<1>8. Reported(n, d)
  BY <1>4, <1>6 DEF Reported, Settled, END
<1>9. OneJob(n, d)
  <2>1. Jobs(d) = Jobs(c)
    BY <1>2 DEF Jobs
  <2> QED
    BY <1>2, <1>4, <2>1 DEF Sound, OneJob, END
<1>10. Budgeted(n, d)
  BY <1>2, <1>4, StepLimitAssumption DEF Sound, Budgeted, Channels, END
<1> QED
  BY <1>2, <1>3, <1>4, <1>7, <1>8, <1>9, <1>10 DEF SoundAfter, Sound, Nodes, d

(* The last node: evidence is cited, the report is backed.                 *)
LEMMA FinalizeSound ==
    ASSUME NEW c, NEW a, Sound("finalize", c, a)
    PROVE  SoundAfter("finalize", Finalize(c), a)
<1> DEFINE d == Finalize(c)
<1>1. /\ d \in Channels
      /\ d.query = c.query /\ d.intent = c.intent /\ d.approval = c.approval
      /\ d.plan = c.plan /\ d.active = c.active /\ d.completed = c.completed
      /\ d.errors = c.errors
      /\ d.trace = c.trace + 1
      /\ \/ c.approval = "rejected" /\ d.status = "failed" /\ d.cites = {}
         \/ c.approval # "rejected" /\ d.status = "completed" /\ d.cites = c.completed
  BY FinalizeWrites DEF Sound
<1> HIDE DEF d
<1>2. Successor("finalize", d) = END
  BY DEF Successor
<1>3. Reviewed(END, d, a)
  BY DEF Reviewed, Nodes, END
<1>4. Reported(END, d)
  BY <1>1 DEF Sound, Reported, Settled, PendingJobs, Nodes, END
<1>5. OneJob(END, d)
  BY <1>1 DEF Sound, OneJob, Jobs, END
<1>6. Budgeted(END, d)
  BY DEF Budgeted, END
<1> QED
  BY <1>1, <1>2, <1>3, <1>4, <1>5, <1>6 DEF SoundAfter, Sound, d

(* A new run starts from whatever checkpoint it finds.                     *)
LEMMA NewInputSound ==
    ASSUME NEW n, NEW c, NEW a, NEW b, Sound(n, c, a), NEW q \in Queries
    PROVE  Sound("parse_request", NewInput(c, q), b)
<1> DEFINE d == NewInput(c, q)
<1>1. /\ d \in Channels
      /\ d.intent = c.intent /\ d.approval = c.approval /\ d.plan = c.plan
      /\ d.active = c.active /\ d.completed = c.completed /\ d.errors = c.errors
      /\ d.answer = c.answer /\ d.cites = c.cites /\ d.trace = c.trace
      /\ d.query = q
      /\ d.status = "running"
  BY NewInputWrites DEF Sound
<1> HIDE DEF d
<1>2. Reviewed("parse_request", d, b) /\ Budgeted("parse_request", d)
  BY DEF Reviewed, Budgeted
<1>3. Reported("parse_request", d)
  BY <1>1 DEF Reported
<1>4. OneJob("parse_request", d)
  BY <1>1 DEF Sound, OneJob, Jobs
<1> QED
  BY <1>1, <1>2, <1>3, <1>4 DEF Sound, Nodes, d

(* A thread nobody has used yet.                                           *)
LEMMA NoChannelsSound == \A a : Sound(END, NoChannels, a)
<1>1. NoChannels \in Channels
  BY DEF NoChannels, Channels, Queries, Decisions, Plans
<1> QED
  BY <1>1 DEF Sound, Budgeted, Reviewed, Reported, OneJob, NoChannels, Nodes, END
=============================================================================
