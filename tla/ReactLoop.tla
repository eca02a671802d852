----------------------------- MODULE ReactLoop -----------------------------
(***************************************************************************)
(* AgentRuntime.run, runtime/loop.py: the context prologue of a run and    *)
(* its loop of model replies and tool calls, with every early exit.        *)
(*                                                                         *)
(* A run is one synchronous call; its steps are the calls it makes of the  *)
(* provider and the tools, whose answers are chosen here.  Trace events    *)
(* are left out.  A text is represented by what deduplication and the      *)
(* token budget see of it: replies of one length are the same text.        *)
(***************************************************************************)
EXTENDS ContextAssembly, Retrieval

CONSTANTS
    Lengths,         \* token lengths of user inputs and replies
    MaxSteps,        \* bound: largest max_steps of a run
    MaxToolRetries,  \* max_tool_retries
    MaxCalls,        \* bound: tool calls of one reply
    CoreTokens       \* tokens of the core system instruction

ASSUME LoopAssumption ==
    /\ Lengths \subseteq Nat \ {0}
    /\ {MaxSteps, MaxToolRetries, MaxCalls, CoreTokens} \subseteq Nat

(* A tool call is the turn of the reply that asked for it, and its number. *)
Ids == (1 .. MaxSteps) \X (1 .. MaxCalls)

StopReasons ==
    {"final_answer", "provider_failed", "max_steps_exceeded", "non_retryable_error"}

ASSUME NoneAssumption == None \notin Ids \cup StopReasons

VARIABLES
    pc,          \* where the run is
    limit,       \* max_steps
    status,      \* state.status
    stopReason,  \* state.stop_reason
    stepCount,   \* state.step_count
    messages,    \* state.messages
    steps,       \* state.steps
    answer,      \* state.final_answer
    context,     \* pre_context_items
    hits,        \* what the two searches of the retrieval pipeline returned
    attempt      \* tries of the current tool call

stateVars == <<status, stopReason, stepCount, messages, steps, answer>>
loopVars == <<pc, limit, stateVars, context, hits, attempt>>

CoreInstruction == Item("system_instruction", 100, <<"core">>, CoreTokens)

-----------------------------------------------------------------------------
(* Messages and steps.                                                     *)

User(n) == [role |-> "user", text |-> <<"said", n>>, tokens |-> n, calls |-> << >>]

(* A reply with its tool calls, and the rationale they share.  Length 0 is *)
(* a reply without content, of which the context shows the word None.      *)
Assistant(n, calls, rationale) ==
    [role |-> "assistant", text |-> <<"said", n>>, tokens |-> IF n = 0 THEN 1 ELSE n,
     calls |-> calls, rationale |-> rationale]

Tool(id, ok) ==
    [role |-> "tool", text |-> <<"result", id, ok>>, tokens |-> 1, calls |-> << >>,
     id |-> id, ok |-> ok]

ActionStep(id, rationale, ok) ==
    [action |-> id, rationale |-> rationale, ok |-> ok, stop |-> None]

(* build_stop_step and build_direct_answer_step *)
StopStep(reason) ==
    [action |-> None, rationale |-> None, ok |-> TRUE, stop |-> reason]

ItemOf(message) ==
    Item(IF message.role = "user" THEN "user_message" ELSE "tool_result",
         IF message.role = "user" THEN 95 ELSE 40, message.text, message.tokens)

(* The reply whose tool calls are executed, and how many have their result. *)
ReplyAt == CHOOSE i \in DOMAIN messages :
              /\ messages[i].role = "assistant"
              /\ \A j \in DOMAIN messages : messages[j].role = "assistant" => j <= i

Reply == messages[ReplyAt]

CallsMade == Len(messages) - ReplyAt

Call == <<stepCount, CallsMade + 1>>

-----------------------------------------------------------------------------
(* The prologue.                                                           *)

BeginRun ==
    /\ pc = "idle"
    /\ pc' = "skill"
    /\ limit' \in 1 .. MaxSteps   \* a limit of 0 ends every run at once
    /\ \E n \in Lengths : messages' = <<User(n)>>
    /\ status' = "running"
    /\ stopReason' = None
    /\ stepCount' = 0
    /\ steps' = << >>
    /\ answer' = None
    /\ context' = << >>
    /\ hits' = None
    /\ attempt' = 0

ActivateSkill ==
    /\ pc = "skill"
    /\ pc' = "retrieval"
    /\ \E skill \in Selections :
          context' = IF skill = None THEN << >>
                     ELSE << Item("skill_instruction", 80, <<"skill">>, 1) >>
    /\ UNCHANGED <<limit, stateVars, hits, attempt>>

Evidence(n) == Item("retrieved_evidence", 70, <<"evidence">>, n)

NoPipeline ==
    /\ pc = "retrieval"
    /\ pc' = "memories"
    /\ UNCHANGED <<limit, stateVars, context, hits, attempt>>

(* The notice that nothing was found is an item too. *)
Retrieve ==
    /\ pc = "retrieval"
    /\ pc' = "memories"
    /\ \E found \in Retrievals, strong \in BOOLEAN :
          IF Sufficient(found.keyword, found.vector, strong)
            THEN /\ hits' = found
                 /\ context' = Append(context, Evidence(Len(found.cited)))
            ELSE /\ context' = Append(context, Evidence(1))
                 /\ UNCHANGED hits
    /\ UNCHANGED <<limit, stateVars, attempt>>

(* n memories in the run's namespace. *)
ReadMemories(n) ==
    /\ pc = "memories"
    /\ pc' = "guard"
    /\ hits' = None
    /\ context' = IF n = 0 THEN context
                  ELSE Append(context, Item("long_term_memory", 60, <<"memories">>, n))
    /\ UNCHANGED <<limit, stateVars, attempt>>

-----------------------------------------------------------------------------
(* The loop up to the reply.                                               *)

(* Faulty variant: the outcome is set, but the loop is not left. *)
NotLeft(how, reason) ==
    /\ status' = how
    /\ stopReason' = reason
    /\ UNCHANGED steps
    /\ pc' = "guard"

Ends(how, reason) ==
    /\ status' = how
    /\ stopReason' = reason
    /\ steps' = Append(steps, StopStep(reason))
    /\ pc' = "ended"

(* Faulty variant: one step too many. *)
PastLimit == stepCount > limit

AtLimit == stepCount >= limit

StopAtLimit ==
    /\ pc = "guard"
    /\ AtLimit
    /\ Ends("max_steps_exceeded", "max_steps_exceeded")
    /\ UNCHANGED <<limit, stepCount, messages, answer, context, hits, attempt>>

Submitted == Append(context, CoreInstruction) \o [i \in DOMAIN messages |-> ItemOf(messages[i])]

(* What the provider is given is a function of the context and messages,   *)
(* which stay as they are until it replies.                                *)
Bundle == Assembled(Submitted)

AssembleContext ==
    /\ pc = "guard"
    /\ ~AtLimit
    /\ pc' = "asking"
    /\ UNCHANGED <<limit, stateVars, context, hits, attempt>>

ProviderFails ==
    /\ pc = "asking"
    /\ Ends("failed", "provider_failed")
    /\ UNCHANGED <<limit, stepCount, messages, answer, context, hits, attempt>>

(* A reply with tool calls ... *)
ProviderCalls ==
    /\ pc = "asking"
    /\ \E n \in Lengths, count \in 1 .. MaxCalls, rationale \in {"plain", "with separator"} :
          messages' = Append(messages,
              Assistant(n, [i \in 1 .. count |-> <<stepCount + 1, i>>], rationale))
    /\ stepCount' = stepCount + 1
    /\ attempt' = 0
    /\ pc' = "executing"
    /\ UNCHANGED <<limit, status, stopReason, steps, answer, context, hits>>

(* ... or without: the answer, which may lack content. *)
ProviderAnswers ==
    /\ pc = "asking"
    /\ \E n \in Lengths \cup {0} :
          /\ messages' = Append(messages, Assistant(n, << >>, None))
          /\ answer' = IF n = 0 THEN None ELSE <<"said", n>>
    /\ stepCount' = stepCount + 1
    /\ Ends("completed", "final_answer")
    /\ UNCHANGED <<limit, context, hits, attempt>>

-----------------------------------------------------------------------------
(* The tool calls of a reply, _execute_tool.                               *)

(* Faulty variant: any failed call leaves the loop over the reply's calls. *)
LastOrFailed(ok) == ~ok \/ CallsMade + 1 = Len(Reply.calls)

LastCall(ok) == CallsMade + 1 = Len(Reply.calls)

(* What follows every execution: the observation enters messages and       *)
(* steps, and the next call is taken up, or the next turn of the loop.     *)
Observed(ok) ==
    /\ messages' = Append(messages, Tool(Call, ok))
    /\ steps' = Append(steps, ActionStep(Call, Reply.rationale, ok))
    /\ attempt' = 0
    /\ UNCHANGED <<limit, stepCount, answer, context, hits>>

GoesOn(ok) ==
    /\ Observed(ok)
    /\ pc' = IF LastCall(ok) THEN "guard" ELSE "executing"
    /\ UNCHANGED <<status, stopReason>>

(* Faulty variant: the status is set, but not the reason. *)
OnlyStatus == status' = "failed" /\ UNCHANGED stopReason

Failed == status' = "failed" /\ stopReason' = "non_retryable_error"

FailsRun ==
    /\ Observed(FALSE)
    /\ Failed
    /\ pc' = "ended"

TriesLeft == pc = "executing" /\ attempt < MaxToolRetries

ToolSucceeds == TriesLeft /\ GoesOn(TRUE)

(* The model may correct its arguments: the run goes on. *)
InvalidArguments == TriesLeft /\ GoesOn(FALSE)

TransientError ==
    /\ TriesLeft
    /\ attempt' = attempt + 1
    /\ UNCHANGED <<pc, limit, stateVars, context, hits>>

ToolRaises == TriesLeft /\ FailsRun

(* The name is looked up once, before the first try. *)
UnknownTool == pc = "executing" /\ attempt = 0 /\ FailsRun

RetriesExhausted == pc = "executing" /\ attempt = MaxToolRetries /\ FailsRun

=============================================================================
