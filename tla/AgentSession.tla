---------------------------- MODULE AgentSession ----------------------------
(***************************************************************************)
(* Runs of the agent one after another over one memory store: each reads   *)
(* its namespace's memories, runs, and may be condensed into an episode    *)
(* that later runs see.  The application around the runtime also commits   *)
(* memories of its own between runs.                                       *)
(***************************************************************************)
EXTENDS ReactLoop, MemoryStore

CONSTANTS
    Home,        \* the namespace the runtime works in
    MaxRuns,     \* bound: runs
    MaxGranted,  \* bound: sum of the step limits of all runs
    MaxWrites    \* bound: writes to the store

ASSUME SessionAssumption ==
    /\ Home \in Namespaces
    /\ {MaxRuns, MaxGranted, MaxWrites} \subseteq Nat
    /\ IsFiniteSet(Facts)
    /\ Facts \cap {EpisodeKey(r) : r \in 1 .. MaxRuns} = {}

VARIABLES
    run,         \* number of the current run
    granted,     \* sum of the step limits so far
    episode,     \* the EpisodeRecord of the ended run, if it was condensed
    remembered,  \* history: the episodes stored, by namespace and run
    committed    \* history: the last content committed, by namespace and key

sessionVars == <<run, granted, episode, remembered, committed>>
vars == <<loopVars, memoryVars, sessionVars>>

-----------------------------------------------------------------------------
Begin ==
    /\ run < MaxRuns
    /\ BeginRun
    /\ run' = run + 1
    /\ granted' = granted + limit'
    /\ granted' <= MaxGranted
    /\ UNCHANGED <<memoryVars, episode, remembered, committed>>

Recall == ReadMemories(Cardinality(Memories(Home)))

RunStep ==
    /\ \/ ActivateSkill \/ NoPipeline \/ Retrieve \/ Recall
       \/ StopAtLimit \/ AssembleContext
       \/ ProviderFails \/ ProviderCalls \/ ProviderAnswers
       \/ ToolSucceeds \/ InvalidArguments \/ TransientError \/ ToolRaises
       \/ UnknownTool \/ RetriesExhausted
    /\ UNCHANGED <<memoryVars, sessionVars>>

-----------------------------------------------------------------------------
(* MemoryCondenser.condense: the decisions are the steps with an action. *)
Decision(step) ==
    IF step.rationale = "with separator" THEN <<step.action, "rest">>
                                         ELSE <<step.action>>

Decisions ==
    FlattenSeq([i \in DOMAIN steps |->
        IF steps[i].action = None THEN << >> ELSE << Decision(steps[i]) >>])

Condense ==
    /\ pc = "ended"
    /\ clock < MaxWrites
    /\ episode' = [id |-> <<"run", run, clock>>, run |-> run, outcome |-> status,
                   steps |-> stepCount, decisions |-> Decisions]
    /\ UNCHANGED <<loopVars, memoryVars, run, granted, remembered, committed>>

Remember(namespace) ==
    /\ pc = "ended"
    /\ clock < MaxWrites
    /\ episode # None
    /\ PutEpisode(episode, namespace)
    /\ remembered' = [remembered EXCEPT ![namespace][run] = episode]
    /\ UNCHANGED <<loopVars, run, granted, episode, committed>>

(* Each commit has a content of its own: its number. *)
CommitFact(namespace, key, kind, type) ==
    /\ pc = "idle"
    /\ clock < MaxWrites
    /\ InspectAndCommit(namespace, key, kind, type, clock)
    /\ committed' = [committed EXCEPT ![namespace][key] = clock]
    /\ UNCHANGED <<loopVars, run, granted, episode, remembered>>

(* The caller keeps nothing of the run's state. *)
Close ==
    /\ pc = "ended"
    /\ pc' = "idle"
    /\ limit' = 0
    /\ status' = "running"
    /\ stopReason' = None
    /\ stepCount' = 0
    /\ messages' = << >>
    /\ steps' = << >>
    /\ answer' = None
    /\ context' = << >>
    /\ episode' = None
    /\ UNCHANGED <<hits, attempt, memoryVars, run, granted, remembered, committed>>

-----------------------------------------------------------------------------
Init ==
    /\ pc = "idle"
    /\ limit = 0
    /\ status = "running"
    /\ stopReason = None
    /\ stepCount = 0
    /\ messages = << >>
    /\ steps = << >>
    /\ answer = None
    /\ context = << >>
    /\ hits = None
    /\ attempt = 0
    /\ rows = {}
    /\ clock = 0
    /\ run = 0
    /\ granted = 0
    /\ episode = None
    /\ remembered = [namespace \in Namespaces |-> [r \in 1 .. MaxRuns |-> None]]
    /\ committed = [namespace \in Namespaces |-> [key \in Facts |-> None]]

Next ==
    \/ Begin \/ RunStep \/ Condense \/ Close
    \/ \E namespace \in Namespaces :
          \/ Remember(namespace)
          \/ \E key \in Facts, kind \in {"fact", "noise", "instruction"},
                 type \in {"semantic", "episodic"} :
                CommitFact(namespace, key, kind, type)

Spec == Init /\ [][Next]_vars

(* The provider and the tools return, with whatever result. *)
FairSpec == Spec /\ WF_vars(RunStep)

-----------------------------------------------------------------------------
(* Properties.                                                             *)

Said == {<<"said", n>> : n \in Lengths}

(* The variables of the loop and the session have their types. *)
TypeOK ==
    /\ pc \in {"idle", "skill", "retrieval", "memories", "guard", "asking", "executing",
               "ended"}
    /\ limit \in 0 .. MaxSteps
    /\ status \in {"running", "completed", "failed", "max_steps_exceeded"}
    /\ stopReason \in StopReasons \cup {None}
    /\ stepCount \in 0 .. limit
    /\ answer \in Said \cup {None}
    /\ attempt \in 0 .. MaxToolRetries
    /\ \A i \in DOMAIN steps : steps[i].action \in Ids \cup {None}
    /\ run \in 0 .. MaxRuns
    /\ granted \in 0 .. MaxGranted
    /\ clock \in 0 .. MaxWrites

(* However a run ends, what it reports agrees: status, reason, answer and  *)
(* the last step of its trajectory tell one story, and a run that goes on  *)
(* reports nothing yet.  A failed tool call is its own last step.          *)
OutcomeIsConsistent ==
    IF pc \in {"idle", "skill", "retrieval", "memories", "guard", "asking", "executing"}
      THEN status = "running" /\ stopReason = None /\ answer = None
      ELSE LET final == steps[Len(steps)] IN
           /\ stopReason # None
           /\ status = CASE stopReason = "final_answer" -> "completed"
                         [] stopReason = "max_steps_exceeded" -> "max_steps_exceeded"
                         [] OTHER -> "failed"
           /\ status = "completed" => messages[Len(messages)].calls = << >>
           /\ answer # None =>
                status = "completed" /\ answer = messages[Len(messages)].text
           /\ IF stopReason = "non_retryable_error"
                THEN final.action # None /\ ~final.ok
                ELSE final.stop = stopReason
           /\ \A i \in 1 .. Len(steps) - 1 : steps[i].stop = None

(* The messages from position i on, as far as they are tool results. *)
ResultsAfter(i) ==
    LET others == {j \in i + 1 .. Len(messages) : messages[j].role # "tool"}
    IN SubSeq(messages, i + 1,
              IF others = {} THEN Len(messages)
              ELSE (CHOOSE j \in others : \A k \in others : j <= k) - 1)

(* The provider never sees a reply of its own whose tool calls are not all *)
(* answered, in order, by the messages that follow; only a run that failed *)
(* leaves some open, after the call that failed.  The trajectory has one   *)
(* step for each answer, in the same order: the step of the result at      *)
(* position j is its number without the user's message and the replies.    *)
EveryCallIsAnswered ==
    /\ \A i \in {j \in DOMAIN messages : messages[j].role = "assistant"} :
          LET results == ResultsAfter(i)
              answered == [k \in DOMAIN results |-> results[k].id]
          IN /\ IsPrefix(answered, messages[i].calls)
             /\ answered # messages[i].calls =>
                  \/ pc = "executing"
                  \/ status = "failed" /\ ~results[Len(results)].ok
    /\ \A j \in {i \in DOMAIN messages : messages[i].role = "tool"} :
          LET step == steps[j - 1 - messages[j].id[1]]
          IN step.action = messages[j].id /\ step.ok = messages[j].ok
    /\ \A i \in {k \in DOMAIN steps : steps[k].action # None} :
          LET j == i + 1 + steps[i].action[1]
          IN j \in DOMAIN messages /\ messages[j].role = "tool"

(* Whatever a run piles up, the bundle starts with the core instruction,   *)
(* exceeds the budget by nothing but that instruction, accounts for every  *)
(* submitted item exactly once, and an item it dropped for the budget did  *)
(* not fit beside those of the same or a higher priority that it kept.     *)
ContextIsSound ==
    pc = "asking" =>
      LET items == Bundle.items
          dropped == Bundle.dropped
      IN /\ items[1] = CoreInstruction
         /\ TokensOf(items, 0) <= MaxTokens \/ items = <<CoreInstruction>>
         /\ Cardinality(ToSet(items \o dropped)) = Len(items) + Len(dropped)
         /\ Len(items) + Len(dropped) + Bundle.pruned + Bundle.duplicates = Len(Submitted)
         /\ \A i \in DOMAIN dropped :
              TokensOf(items, dropped[i].priority) + dropped[i].tokens > MaxTokens

(* A chunk that is cited is not beaten: every chunk that both searches     *)
(* rank at least as high and that is boosted if this one is, is cited too, *)
(* and before it.                                                          *)
FusionRespectsRankings ==
    hits # None =>
      \A id, other \in Chunks :
        /\ id # other
        /\ RankedNoLower(hits.keyword, id, other)
        /\ RankedNoLower(hits.vector, id, other)
        /\ other \in Boosted => id \in Boosted
        /\ Contains(hits.cited, other)
        => Contains(hits.cited, id) /\ Position(hits.cited, id) < Position(hits.cited, other)

(* What was stored is found again, whatever was stored since: each run     *)
(* remembered in a namespace has exactly one row there that restores the   *)
(* run, its decisions too unless one of them contains the separator, and   *)
(* is a recent episode, the facts committed as episodic notwithstanding;   *)
(* and each fact is the one committed last.                                *)
MemoriesAreKept ==
    \A namespace \in Namespaces :
      /\ \A r \in 1 .. MaxRuns : remembered[namespace][r] # None =>
           \E row \in Matching(namespace, EpisodeKey(r)) :
             LET told == remembered[namespace][r]
                 restored == FromMemoryRecord(row)
             IN /\ Matching(namespace, EpisodeKey(r)) = {row}
                /\ row \in RecentEpisodes(namespace, MaxRuns + Cardinality(Facts))
                /\ [restored EXCEPT !.decisions = << >>] = [told EXCEPT !.decisions = << >>]
                /\ (\A i \in DOMAIN told.decisions : Len(told.decisions[i]) = 1)
                     => restored.decisions = told.decisions
      /\ \A key \in Facts : committed[namespace][key] # None =>
           {row.content : row \in Matching(namespace, key)} = {committed[namespace][key]}

(* tests/test_memory_episodic.py:120: an episode written to a memory record *)
(* and read again is the episode it was.                                   *)
EpisodesAreLossless ==
    \A namespace \in Namespaces, r \in 1 .. MaxRuns :
      remembered[namespace][r] # None =>
        {FromMemoryRecord(row) : row \in Matching(namespace, EpisodeKey(r))}
          = {remembered[namespace][r]}

(* Every run ends: within its step limit, or with a failure, however many  *)
(* tools fail and are tried again.                                         *)
RunsEnd ==
    (pc \notin {"idle", "ended"}) ~> (pc = "ended")

=============================================================================
