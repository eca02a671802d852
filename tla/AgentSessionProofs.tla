------------------------- MODULE AgentSessionProofs -------------------------
(***************************************************************************)
(* Proofs about AgentSession for every step limit, every number of retries *)
(* and tool calls, every budget and every set of namespaces, facts and     *)
(* chunks: how a run of the loop may end, that its tool calls are          *)
(* answered, what its searches cite and what the provider is shown, and    *)
(* what the memory store gives back.                                       *)
(***************************************************************************)
EXTENDS AgentSession, PipelineProofs, SequenceTheorems, FiniteSetTheorems, TLAPS

Rationales == {"plain", "with separator", None}

Calls(turn, count) == [k \in 1 .. count |-> <<turn, k>>]

Users == {User(n) : n \in Lengths}
Tools == {Tool(id, ok) : id \in Ids, ok \in BOOLEAN}
Assistants ==
    {Assistant(n, Calls(turn, count), rationale) :
        n \in Lengths \cup {0}, turn \in 1 .. MaxSteps, count \in 0 .. MaxCalls,
        rationale \in Rationales}

Messages == Users \cup Assistants \cup Tools

ActionSteps == {ActionStep(id, rationale, ok) :
                  id \in Ids, rationale \in Rationales, ok \in BOOLEAN}
StopSteps == {StopStep(reason) : reason \in StopReasons}

LoopTypes ==
    /\ pc \in {"idle", "skill", "retrieval", "memories", "guard", "asking", "executing",
               "ended"}
    /\ limit \in 0 .. MaxSteps
    /\ status \in {"running", "completed", "failed", "max_steps_exceeded"}
    /\ stopReason \in StopReasons \cup {None}
    /\ stepCount \in 0 .. limit
    /\ answer \in Said \cup {None}
    /\ attempt \in 0 .. MaxToolRetries
    /\ messages \in Seq(Messages)
    /\ steps \in Seq(ActionSteps \cup StopSteps)

(* A run that goes on has only steps that executed a tool, and they and    *)
(* the replies make up its messages.                                       *)
Running ==
    /\ pc # "ended" =>
         /\ status = "running" /\ stopReason = None /\ answer = None
         /\ \A i \in 1 .. Len(steps) : steps[i] \in ActionSteps
    /\ pc \notin {"idle", "ended"} => Len(messages) = 1 + stepCount + Len(steps)
    /\ pc = "idle" => messages = << >> /\ steps = << >>
    /\ pc = "asking" => stepCount < limit

(* While tool calls are executed, the last reply is the one that asked for *)
(* them, and some are still to do.                                         *)
Executing ==
    pc = "executing" =>
      \E at \in 1 .. Len(messages), count \in 1 .. MaxCalls :
        /\ messages[at] \in Assistants
        /\ messages[at].calls = Calls(stepCount, count)
        /\ stepCount >= 1
        /\ Len(messages) - at < count
        /\ \A j \in at + 1 .. Len(messages) : messages[j] \in Tools

(* The calls of a reply are answered by the messages behind it, one by one *)
(* and nothing else; all of them, unless the run is at them or failed at   *)
(* the last one answered.                                                  *)
Answered ==
    \A i \in 1 .. Len(messages) : messages[i] \in Assistants =>
      LET calls == messages[i].calls IN
      /\ \A j \in i + 1 .. i + Len(calls) : j <= Len(messages) =>
            messages[j] \in Tools /\ messages[j].id = calls[j - i]
      /\ \A j \in 1 .. Len(messages) : j = i + Len(calls) + 1 => messages[j] \notin Tools
      /\ i + Len(calls) > Len(messages) =>
            \/ pc = "executing"
            \/ /\ status = "failed"
               /\ i < Len(messages)
               /\ ~messages[Len(messages)].ok

Aligned ==
    /\ \A j \in 1 .. Len(messages) : messages[j] \in Tools =>
         LET i == j - 1 - messages[j].id[1] IN
         /\ i \in 1 .. Len(steps)
         /\ steps[i].action = messages[j].id
         /\ steps[i].ok = messages[j].ok
    /\ \A i \in 1 .. Len(steps) : steps[i] \in ActionSteps =>
         LET j == i + 1 + steps[i].action[1] IN
         j \in 1 .. Len(messages) /\ messages[j] \in Tools

LoopInv == LoopTypes /\ Running /\ Executing /\ Answered /\ Aligned /\ OutcomeIsConsistent

(* A decision has one part, or two around the separator.                   *)
Parts == Ids \cup {"rest"}

Episodes ==
    [id : {"run"} \X Nat \X Nat, run : 1 .. MaxRuns,
     outcome : {"completed", "failed", "max_steps_exceeded", "running"},
     steps : Nat, decisions : Seq(Seq(Parts))]

SessionTypes ==
    /\ run \in 0 .. MaxRuns
    /\ granted \in 0 .. MaxGranted
    /\ clock \in 0 .. MaxWrites
    /\ pc # "idle" => run >= 1
    /\ pc # "ended" => episode = None
    /\ episode # None => episode \in Episodes /\ episode.run = run
    /\ remembered \in [Namespaces -> [1 .. MaxRuns -> Episodes \cup {None}]]
    /\ committed \in [Namespaces -> [Facts -> Nat \cup {None}]]

(* What the content of an episode's row must be. *)
Condensed(told) ==
    [id |-> told.id, run |-> told.run, outcome |-> told.outcome,
     steps |-> told.steps, decisions |-> Joined(told.decisions)]

RowsInv ==
    /\ \A row \in rows :
         \/ row.key \in Facts
         \/ row.key \in {EpisodeKey(r) : r \in 1 .. MaxRuns} /\ row.type = "episodic"
    /\ \A row, other \in rows :
         row.namespace = other.namespace /\ row.key = other.key => row = other
    /\ \A namespace \in Namespaces, key \in Facts : committed[namespace][key] # None =>
         \E row \in Matching(namespace, key) : row.content = committed[namespace][key]
    /\ \A namespace \in Namespaces, r \in 1 .. MaxRuns : remembered[namespace][r] # None =>
         \E row \in Matching(namespace, EpisodeKey(r)) :
            row.content = Condensed(remembered[namespace][r])
    /\ \A row \in rows : row.updated \in Nat

Inv == LoopInv /\ SessionTypes /\ RowsInv

-----------------------------------------------------------------------------
(* Flattening sequences, which is how decisions are written down.          *)

(* FlattenSeq appends one sequence after the other. *)
LEMMA FlattenSteps ==
    ASSUME NEW S, NEW d \in Seq(Seq(S)), d # << >>
    PROVE  \E f :
             /\ f[1] = d[1]
             /\ \A i \in 2 .. Len(d) : f[i] = f[i - 1] \o d[i]
             /\ FlattenSeq(d) = f[Len(d)]
<1> DEFINE n == Len(d)
           Partial(m, g) == \A i \in 1 .. m : g[i] = IF i = 1 THEN d[i] ELSE g[i - 1] \o d[i]
           Good(m) == \E g \in [1 .. m -> Seq(S)] : Partial(m, g)
           Bad == {m \in 1 .. n : ~Good(m)}
           f == CHOOSE g : g = [i \in 1 .. n |-> IF i = 1 THEN d[i] ELSE g[i - 1] \o d[i]]
<1>1. n \in Nat /\ n >= 1 /\ \A i \in 1 .. n : d[i] \in Seq(S)
  BY LenProperties, EmptySeq, ElementOfSeq
<1>2. Good(1)
  <2> DEFINE g == [i \in 1 .. 1 |-> d[1]]
  <2>1. g \in [1 .. 1 -> Seq(S)] /\ Partial(1, g)
    BY <1>1
  <2> QED
    BY <2>1
<1>3. ASSUME NEW m \in 2 .. n, Good(m - 1) PROVE Good(m)
  <2>1. PICK g \in [1 .. m - 1 -> Seq(S)] : Partial(m - 1, g)
    BY <1>3
  <2> DEFINE next == g[m - 1] \o d[m]
             h == [i \in 1 .. m |-> IF i = m THEN next ELSE g[i]]
  <2>2. m \in Nat /\ m - 1 \in 1 .. m - 1 /\ g[m - 1] \in Seq(S) /\ d[m] \in Seq(S)
    BY <1>1, <2>1
  <2>3. next \in Seq(S)
    BY <2>2, ConcatProperties
  <2> HIDE DEF next
  <2>4. h \in [1 .. m -> Seq(S)]
    BY <2>1, <2>2, <2>3
  <2>5. ASSUME NEW i \in 1 .. m
        PROVE  h[i] = IF i = 1 THEN d[i] ELSE h[i - 1] \o d[i]
    <3>1. CASE i = m
      <4>1. i # 1 /\ h[i] = next /\ h[i - 1] = g[m - 1]
        BY <2>2, <3>1
      <4> QED
        BY <3>1, <4>1 DEF next
    <3>2. CASE i # m
      <4>1. i \in 1 .. m - 1 /\ h[i] = g[i] /\ (i # 1 => h[i - 1] = g[i - 1])
        BY <2>2, <3>2
      <4>2. g[i] = IF i = 1 THEN d[i] ELSE g[i - 1] \o d[i]
        BY <2>1, <4>1
      <4> HIDE DEF h
      <4> QED
        BY <4>1, <4>2
    <3> QED
      BY <3>1, <3>2
  <2> HIDE DEF h
  <2> QED
    BY <2>4, <2>5
<1>4. Good(n)
  <2> HIDE DEF Good
  <2>1. SUFFICES ASSUME Bad # {} PROVE FALSE
    BY <1>1
  <2>2. PICK m \in Bad : \A k \in Bad : m <= k
    <3>1. Bad \subseteq Nat
      BY <1>1
    <3> HIDE DEF Bad
    <3> QED
      BY <2>1, <3>1, Least
  <2>3. m \in 1 .. n /\ ~Good(m)
    BY <2>2
  <2>4. m # 1
    BY <1>2, <2>3
  <2>5. m \in 2 .. n /\ m - 1 \in 1 .. n /\ ~(m <= m - 1)
    BY <1>1, <2>3, <2>4
  <2>6. Good(m - 1)
    BY <2>2, <2>5
  <2> QED
    BY <1>3, <2>3, <2>5, <2>6
<1>5. \E g : g = [i \in 1 .. n |-> IF i = 1 THEN d[i] ELSE g[i - 1] \o d[i]]
  <2>1. PICK g \in [1 .. n -> Seq(S)] : Partial(n, g)
    BY <1>4
  <2>2. g = [i \in 1 .. n |-> g[i]]
    BY <2>1
  <2>3. [i \in 1 .. n |-> g[i]] = [i \in 1 .. n |-> IF i = 1 THEN d[i] ELSE g[i - 1] \o d[i]]
    BY <2>1
  <2> QED
    BY <2>2, <2>3
<1>6. f = [i \in 1 .. n |-> IF i = 1 THEN d[i] ELSE f[i - 1] \o d[i]]
  BY <1>5
<1>7. FlattenSeq(d) = f[n]
  BY <1>1 DEF FlattenSeq
<1> HIDE DEF f
<1>8. \A i \in 1 .. n : f[i] = IF i = 1 THEN d[i] ELSE f[i - 1] \o d[i]
  BY <1>6
<1>9. f[1] = d[1]
  BY <1>1, <1>8
<1>10. ASSUME NEW i \in 2 .. n PROVE f[i] = f[i - 1] \o d[i]
  <2>1. i \in 1 .. n /\ i # 1
    BY <1>1
  <2> QED
    BY <1>8, <2>1
<1> QED
  BY <1>7, <1>9, <1>10

(* It leaves the elements what they are ... *)
LEMMA FlattenType ==
    ASSUME NEW S, NEW d \in Seq(Seq(S))
    PROVE  FlattenSeq(d) \in Seq(S)
<1>1. CASE d = << >>
  BY <1>1 DEF FlattenSeq
<1>2. CASE d # << >>
  <2> DEFINE n == Len(d)
  <2>1. PICK f : /\ f[1] = d[1]
                 /\ \A i \in 2 .. n : f[i] = f[i - 1] \o d[i]
                 /\ FlattenSeq(d) = f[n]
    BY <1>2, FlattenSteps
  <2>2. n \in Nat /\ n >= 1 /\ \A i \in 1 .. n : d[i] \in Seq(S)
    BY <1>2, LenProperties, EmptySeq, ElementOfSeq
  <2> DEFINE Bad == {i \in 1 .. n : f[i] \notin Seq(S)}
  <2>3. Bad = {}
    <3>1. SUFFICES ASSUME Bad # {} PROVE FALSE
      OBVIOUS
    <3>2. PICK m \in Bad : \A k \in Bad : m <= k
      <4>1. Bad \subseteq Nat
        BY <2>2
      <4> HIDE DEF Bad
      <4> QED
        BY <3>1, <4>1, Least
    <3>3. m # 1
      BY <2>1, <2>2, <3>2
    <3>4. m \in 2 .. n /\ m - 1 \in 1 .. n /\ f[m - 1] \in Seq(S)
      BY <2>2, <3>2, <3>3
    <3>5. f[m] = f[m - 1] \o d[m] /\ d[m] \in Seq(S)
      BY <2>1, <2>2, <3>4
    <3>6. f[m] \in Seq(S)
      BY <3>4, <3>5, ConcatProperties
    <3> QED
      BY <3>2, <3>6
  <2> QED
    BY <2>1, <2>2, <2>3
<1> QED
  BY <1>1, <1>2

LEMMA OneMore ==
    ASSUME NEW S, NEW s \in Seq(S), NEW t \in Seq(S), Len(t) = 1
    PROVE  /\ s \o t \in Seq(S)
           /\ Len(s \o t) = Len(s) + 1
           /\ \A i \in 1 .. Len(s) : (s \o t)[i] = s[i]
           /\ (s \o t)[Len(s) + 1] = t[1]
<1>1. Len(s) \in Nat
  BY LenProperties
<1>2. /\ s \o t \in Seq(S)
      /\ Len(s \o t) = Len(s) + Len(t)
      /\ \A i \in 1 .. Len(s) + Len(t) :
           (s \o t)[i] = IF i <= Len(s) THEN s[i] ELSE t[i - Len(s)]
  BY ConcatProperties
<1>3. Len(s) + 1 \in 1 .. Len(s) + 1 /\ ~(Len(s) + 1 <= Len(s)) /\ Len(s) + 1 - Len(s) = 1
  BY <1>1
<1>4. (s \o t)[Len(s) + 1] = t[1]
  BY <1>2, <1>3
<1>5. \A i \in 1 .. Len(s) : i \in 1 .. Len(s) + 1 /\ i <= Len(s)
  BY <1>1
<1> QED
  BY <1>2, <1>4, <1>5

(* ... and takes those of one-element sequences in order. *)
LEMMA FlattenSingles ==
    ASSUME NEW S, NEW d \in Seq(Seq(S)), \A i \in 1 .. Len(d) : Len(d[i]) = 1
    PROVE  FlattenSeq(d) = [i \in 1 .. Len(d) |-> d[i][1]]
<1> DEFINE n == Len(d)
           Firsts(m) == [i \in 1 .. m |-> d[i][1]]
<1>1. CASE d = << >>
  <2>1. FlattenSeq(d) = << >> /\ Len(d) = 0
    BY <1>1 DEF FlattenSeq
  <2>2. Firsts(0) \in Seq(S) /\ Len(Firsts(0)) = 0
    <3>1. \A i \in 1 .. 0 : d[i][1] \in S
      OBVIOUS
    <3> QED
      BY <3>1, IsASeq
  <2>3. Firsts(0) = << >>
    BY <2>2, EmptySeq
  <2> QED
    BY <2>1, <2>3
<1>2. CASE d # << >>
  <2>1. PICK f : /\ f[1] = d[1]
                 /\ \A i \in 2 .. n : f[i] = f[i - 1] \o d[i]
                 /\ FlattenSeq(d) = f[n]
    BY <1>2, FlattenSteps
  <2>2. n \in Nat /\ n >= 1 /\ \A i \in 1 .. n : d[i] \in Seq(S) /\ Len(d[i]) = 1
    BY <1>2, LenProperties, EmptySeq, ElementOfSeq
  <2>3. \A i \in 1 .. n : d[i][1] \in S
    BY <2>2, ElementOfSeq
  <2>4. \A m \in 1 .. n : Firsts(m) \in Seq(S) /\ Len(Firsts(m)) = m
    BY <2>2, <2>3, IsASeq
  <2>5. d[1] = Firsts(1)
    <3>1. Firsts(1) \in Seq(S) /\ Len(Firsts(1)) = 1 /\ d[1] \in Seq(S) /\ Len(d[1]) = 1
      BY <2>2, <2>4
    <3>2. \A i \in 1 .. 1 : Firsts(1)[i] = d[1][i]
      OBVIOUS
    <3> HIDE DEF Firsts
    <3> QED
      BY <3>1, <3>2, SeqEqual
  <2>6. ASSUME NEW m \in 2 .. n PROVE Firsts(m - 1) \o d[m] = Firsts(m)
    <3>1. /\ Firsts(m - 1) \in Seq(S) /\ Len(Firsts(m - 1)) = m - 1
          /\ Firsts(m) \in Seq(S) /\ Len(Firsts(m)) = m
          /\ d[m] \in Seq(S) /\ Len(d[m]) = 1
      BY <2>2, <2>4
    <3>2. \A i \in 1 .. m - 1 : Firsts(m - 1)[i] = d[i][1]
      OBVIOUS
    <3>3. \A i \in 1 .. m : Firsts(m)[i] = d[i][1]
      OBVIOUS
    <3> HIDE DEF Firsts
    <3> DEFINE before == Firsts(m - 1)
               both == before \o d[m]
    <3>7. before \in Seq(S) /\ Len(before) = m - 1 /\ \A i \in 1 .. m - 1 : before[i] = d[i][1]
      BY <3>1, <3>2
    <3> HIDE DEF before
    <3>4. /\ both \in Seq(S) /\ Len(both) = (m - 1) + 1
          /\ \A i \in 1 .. m - 1 : both[i] = before[i]
          /\ both[(m - 1) + 1] = d[m][1]
      <4>1. /\ before \o d[m] \in Seq(S) /\ Len(before \o d[m]) = Len(before) + 1
            /\ \A i \in 1 .. Len(before) : (before \o d[m])[i] = before[i]
            /\ (before \o d[m])[Len(before) + 1] = d[m][1]
        BY <3>1, <3>7, OneMore
      <4> QED
        BY <3>7, <4>1
    <3> HIDE DEF both
    <3>5. \A i \in 1 .. m : both[i] = Firsts(m)[i]
      <4>1. m \in Nat /\ m = (m - 1) + 1 /\ m - (m - 1) = 1
        BY <2>2
      <4>2. \A i \in 1 .. m - 1 : both[i] = d[i][1]
        BY <3>4, <3>7
      <4>3. both[m] = d[m][1]
        BY <3>4, <4>1
      <4>4. \A i \in 1 .. m : i \in 1 .. m - 1 \/ i = m
        BY <4>1
      <4> QED
        BY <3>3, <4>2, <4>3, <4>4
    <3>6. both = Firsts(m)
      BY <2>2, <3>1, <3>4, <3>5, SeqEqual
    <3> QED
      BY <3>6 DEF both, before
  <2> DEFINE Bad == {i \in 1 .. n : f[i] # Firsts(i)}
  <2>7. Bad = {}
    <3>1. SUFFICES ASSUME Bad # {} PROVE FALSE
      OBVIOUS
    <3>2. PICK m \in Bad : \A k \in Bad : m <= k
      <4>1. Bad \subseteq Nat
        BY <2>2
      <4> HIDE DEF Bad
      <4> QED
        BY <3>1, <4>1, Least
    <3> HIDE DEF Firsts
    <3>3. m # 1
      BY <2>1, <2>5, <3>2
    <3>4. m \in 2 .. n /\ m - 1 \in 1 .. n /\ f[m - 1] = Firsts(m - 1)
      BY <2>2, <3>2, <3>3
    <3>5. f[m] = Firsts(m)
      BY <2>1, <2>6, <3>4
    <3> QED
      BY <3>2, <3>5
  <2> HIDE DEF Firsts
  <2>8. f[n] = Firsts(n)
    BY <2>2, <2>7
  <2> QED
    BY <2>1, <2>8 DEF Firsts
<1> QED
  BY <1>1, <1>2

-----------------------------------------------------------------------------
(* What messages and steps look like.                                      *)

(* The call sequence of a reply. *)
LEMMA CallsShape ==
    ASSUME NEW turn, NEW count \in Nat
    PROVE  /\ Len(Calls(turn, count)) = count
           /\ \A k \in 1 .. count : Calls(turn, count)[k] = <<turn, k>>
           /\ Calls(turn, count) \in Seq({<<turn, k>> : k \in 1 .. count})
           /\ count = 0 => Calls(turn, count) = << >>
<1> DEFINE S == {<<turn, k>> : k \in 1 .. count}
<1>1. Calls(turn, count) \in Seq(S) /\ Len(Calls(turn, count)) = count
  BY IsASeq DEF Calls
<1>2. count = 0 => Calls(turn, count) = << >>
  BY <1>1, EmptySeq
<1> QED
  BY <1>1, <1>2 DEF Calls

(* The role of a message tells its kind. *)
LEMMA MessageKinds ==
    ASSUME NEW m \in Messages
    PROVE  /\ m \in Users <=> m.role = "user"
           /\ m \in Assistants <=> m.role = "assistant"
           /\ m \in Tools <=> m.role = "tool"
           /\ m \in Tools => /\ m.id \in Ids
                             /\ m.ok \in BOOLEAN
           /\ m \in Assistants => /\ \E turn \in 1 .. MaxSteps, count \in 0 .. MaxCalls :
                                        m.calls = Calls(turn, count)
                                  /\ Len(m.calls) \in Nat
                                  /\ m.rationale \in Rationales
<1>1. m \in Users => m.role = "user"
  BY DEF Users, User
<1>2. m \in Tools => m.role = "tool" /\ m.id \in Ids /\ m.ok \in BOOLEAN
  BY DEF Tools, Tool
<1>3. ASSUME m \in Assistants
      PROVE  /\ m.role = "assistant"
             /\ \E turn \in 1 .. MaxSteps, count \in 0 .. MaxCalls : m.calls = Calls(turn, count)
             /\ Len(m.calls) \in Nat
             /\ m.rationale \in Rationales
  <2>1. PICK n \in Lengths \cup {0}, turn \in 1 .. MaxSteps, count \in 0 .. MaxCalls,
             rationale \in Rationales : m = Assistant(n, Calls(turn, count), rationale)
    BY <1>3 DEF Assistants
  <2>2. m.role = "assistant" /\ m.calls = Calls(turn, count) /\ m.rationale = rationale
    BY <2>1 DEF Assistant
  <2>3. Len(m.calls) \in Nat
    BY <2>2, CallsShape, LoopAssumption
  <2> QED
    BY <2>2, <2>3
<1> QED
  BY <1>1, <1>2, <1>3 DEF Messages

LEMMA StepKinds ==
    /\ \A s \in ActionSteps : s.action \in Ids /\ s.action # None /\ s.stop = None
                              /\ s.ok \in BOOLEAN
    /\ \A s \in StopSteps : s.action = None /\ s.stop \in StopReasons
    /\ None \notin StopReasons
    /\ \A s \in ActionSteps \cup StopSteps : s \in ActionSteps <=> s.action # None
  BY NoneAssumption DEF ActionSteps, StopSteps, ActionStep, StopStep

-----------------------------------------------------------------------------
(* The observation of a tool call.                                         *)

(* While calls are executed, the reply they belong to is the last one, and *)
(* the next call is the one behind the results it already has.             *)
LEMMA NextCall ==
    ASSUME LoopTypes, Executing, pc = "executing"
    PROVE  /\ ReplyAt \in 1 .. Len(messages)
           /\ Reply = messages[ReplyAt] /\ Reply \in Assistants
           /\ Reply.rationale \in Rationales
           /\ \E count \in 1 .. MaxCalls :
                /\ Reply.calls = Calls(stepCount, count)
                /\ Len(Reply.calls) = count
                /\ CallsMade + 1 <= count
           /\ CallsMade = Len(messages) - ReplyAt
           /\ Call = <<stepCount, CallsMade + 1>>
           /\ Call \in Ids
           /\ Reply.calls[CallsMade + 1] = Call
           /\ \A j \in ReplyAt + 1 .. Len(messages) : messages[j] \in Tools
           /\ Tool(Call, TRUE) \in Tools /\ Tool(Call, FALSE) \in Tools
<1>1. PICK at \in 1 .. Len(messages), count \in 1 .. MaxCalls :
             /\ messages[at] \in Assistants
             /\ messages[at].calls = Calls(stepCount, count)
             /\ stepCount >= 1
             /\ Len(messages) - at < count
             /\ \A j \in at + 1 .. Len(messages) : messages[j] \in Tools
  BY DEF Executing
<1>2. Len(messages) \in Nat /\ DOMAIN messages = 1 .. Len(messages)
      /\ \A i \in DOMAIN messages : messages[i] \in Messages
  BY ElementOfSeq, LenProperties DEF LoopTypes
<1>3. ReplyAt = at
  <2>1. /\ at \in DOMAIN messages /\ messages[at].role = "assistant"
        /\ \A j \in DOMAIN messages : messages[j].role = "assistant" => j <= at
    BY <1>1, <1>2, MessageKinds
  <2>2. \A i \in DOMAIN messages :
           /\ messages[i].role = "assistant"
           /\ \A j \in DOMAIN messages : messages[j].role = "assistant" => j <= i
           => i = at
    BY <2>1, <1>2
  <2> QED
    BY <2>1, <2>2 DEF ReplyAt
<1>4. Reply = messages[at] /\ Reply.rationale \in Rationales
  BY <1>1, <1>2, <1>3, MessageKinds DEF Reply
<1>5. CallsMade = Len(messages) - at /\ CallsMade + 1 \in 1 .. count /\ CallsMade \in Nat
  BY <1>1, <1>2, <1>3 DEF CallsMade
<1>6. count \in Nat /\ Len(Calls(stepCount, count)) = count
      /\ Calls(stepCount, count)[CallsMade + 1] = <<stepCount, CallsMade + 1>>
  <2>1. count \in Nat
    BY LoopAssumption
  <2> QED
    BY <1>5, <2>1, CallsShape
<1>7. Call \in Ids
  <2>1. stepCount \in 1 .. MaxSteps
    BY <1>1, LoopAssumption DEF LoopTypes
  <2>2. CallsMade + 1 \in 1 .. MaxCalls
    BY <1>5, LoopAssumption
  <2> QED
    BY <2>1, <2>2 DEF Ids, Call
<1>8. Tool(Call, TRUE) \in Tools /\ Tool(Call, FALSE) \in Tools
  <2>1. \A id \in Ids, ok \in BOOLEAN : Tool(id, ok) \in Tools
    BY DEF Tools
  <2> QED
    BY <1>7, <2>1
<1>9. /\ Call = <<stepCount, CallsMade + 1>>
      /\ Reply.calls = Calls(stepCount, count) /\ Reply.calls[CallsMade + 1] = Call
      /\ CallsMade + 1 <= count /\ Len(Reply.calls) = count
  BY <1>1, <1>4, <1>5, <1>6 DEF Call
<1> QED
  BY <1>1, <1>3, <1>4, <1>5, <1>7, <1>8, <1>9

(* What the invariant says of the answers to one reply. *)
LEMMA AnswersTo ==
    ASSUME Answered, NEW i \in 1 .. Len(messages), messages[i] \in Assistants
    PROVE  /\ \A j \in i + 1 .. i + Len(messages[i].calls) : j <= Len(messages) =>
                messages[j] \in Tools /\ messages[j].id = messages[i].calls[j - i]
           /\ \A j \in 1 .. Len(messages) : j = i + Len(messages[i].calls) + 1 =>
                messages[j] \notin Tools
           /\ i + Len(messages[i].calls) > Len(messages) =>
                \/ pc = "executing"
                \/ /\ status = "failed"
                   /\ i < Len(messages)
                   /\ ~messages[Len(messages)].ok
  BY DEF Answered

(* Appending to messages and steps. *)
LEMMA Appended ==
    ASSUME NEW S, NEW s \in Seq(S), NEW e \in S, NEW t, t = Append(s, e)
    PROVE  /\ t \in Seq(S)
           /\ Len(s) \in Nat
           /\ Len(t) = Len(s) + 1
           /\ \A i \in 1 .. Len(s) : t[i] = s[i] /\ t[i] \in S
           /\ t[Len(s) + 1] = e
  BY AppendProperties, ElementOfSeq, LenProperties

(* What an executed call leaves of the invariant, before pc and the        *)
(* outcome are known: the result is behind its reply, where it belongs.    *)
LEMMA ObservedKeeps ==
    ASSUME LoopInv, pc = "executing", NEW ok \in BOOLEAN, Observed(ok)
    PROVE  /\ messages' \in Seq(Messages) /\ steps' \in Seq(ActionSteps \cup StopSteps)
           /\ \A i \in 1 .. Len(steps') : steps'[i] \in ActionSteps
           /\ Len(steps') = Len(steps) + 1
           /\ steps'[Len(steps')].ok = ok
           /\ Len(messages') = 1 + stepCount' + Len(steps')
           /\ messages'[Len(messages')].ok = ok
           /\ \A i \in 1 .. Len(messages') : messages'[i] \in Assistants =>
                 /\ i <= ReplyAt
                 /\ i < ReplyAt => i + Len(messages'[i].calls) <= Len(messages')
           /\ messages'[ReplyAt] = Reply
           /\ ReplyAt \in 1 .. Len(messages)
           /\ \A i \in 1 .. Len(messages') : messages'[i] \in Assistants =>
                /\ \A j \in i + 1 .. i + Len(messages'[i].calls) : j <= Len(messages') =>
                     messages'[j] \in Tools /\ messages'[j].id = messages'[i].calls[j - i]
                /\ \A j \in 1 .. Len(messages') : j = i + Len(messages'[i].calls) + 1 =>
                     messages'[j] \notin Tools
           /\ Aligned'
<1> DEFINE n == Len(messages)
           new == Tool(Call, ok)
           step == ActionStep(Call, Reply.rationale, ok)
<1> USE DEF LoopInv
<1>1. /\ new \in Tools /\ new \in Messages /\ new.id = Call /\ new.ok = ok
      /\ Call \in Ids /\ Call[1] = stepCount
  BY NextCall DEF Tool, Messages, Call
<1>2. step \in ActionSteps /\ step.action = Call /\ step.ok = ok
  BY NextCall DEF ActionSteps, ActionStep
<1>3. messages' = Append(messages, new) /\ steps' = Append(steps, step)
      /\ stepCount' = stepCount
  BY DEF Observed
<1>4. /\ messages' \in Seq(Messages) /\ n \in Nat /\ Len(messages') = n + 1
      /\ \A i \in 1 .. n : messages'[i] = messages[i] /\ messages[i] \in Messages
      /\ messages'[n + 1] = new
  BY <1>1, <1>3, Appended DEF LoopTypes
<1>5. /\ steps' \in Seq(ActionSteps \cup StopSteps) /\ Len(steps) \in Nat
      /\ Len(steps') = Len(steps) + 1
      /\ \A i \in 1 .. Len(steps) : steps'[i] = steps[i]
      /\ steps'[Len(steps) + 1] = step
  BY <1>2, <1>3, Appended DEF LoopTypes
<1>6. /\ \A i \in 1 .. Len(steps) : steps[i] \in ActionSteps
      /\ n = 1 + stepCount + Len(steps)
      /\ status = "running"
  BY DEF Running
<1>7. stepCount \in Nat
  BY LoopAssumption DEF LoopTypes
<1>8. \A i \in 1 .. Len(steps') : steps'[i] \in ActionSteps
  BY <1>2, <1>5, <1>6
<1>9. /\ ReplyAt \in 1 .. n /\ messages[ReplyAt] = Reply /\ Reply \in Assistants
      /\ Reply.calls[n + 1 - ReplyAt] = Call
      /\ n + 1 - ReplyAt \in 1 .. Len(Reply.calls) /\ Len(Reply.calls) \in Nat
      /\ \A j \in ReplyAt + 1 .. n : messages[j] \in Tools
  BY NextCall, <1>4
<1>10. \A m \in Messages : ~(m \in Assistants /\ m \in Tools)
                           /\ (m \in Assistants => Len(m.calls) \in Nat)
  BY MessageKinds
<1>17. Answered /\ Aligned
  OBVIOUS
<1>18. ASSUME NEW i \in 1 .. n, messages[i] \in Assistants
       PROVE  /\ \A j \in i + 1 .. i + Len(messages[i].calls) : j <= n =>
                    messages[j] \in Tools /\ messages[j].id = messages[i].calls[j - i]
              /\ \A j \in 1 .. n : j = i + Len(messages[i].calls) + 1 =>
                    messages[j] \notin Tools
  BY <1>17, <1>18, AnswersTo
<1> HIDE DEF LoopInv
<1>11. ASSUME NEW i \in 1 .. n, messages[i] \in Assistants
       PROVE  /\ i <= ReplyAt
              /\ i < ReplyAt => i + Len(messages[i].calls) < ReplyAt
  <2>1. i <= ReplyAt
    BY <1>4, <1>9, <1>10, <1>11
  <2>2. ASSUME i < ReplyAt, ReplyAt <= i + Len(messages[i].calls)
        PROVE  FALSE
    <3>1. Len(messages[i].calls) \in Nat
      BY <1>4, <1>10, <1>11
    <3>2. ReplyAt \in i + 1 .. i + Len(messages[i].calls) /\ ReplyAt <= n
      BY <1>4, <1>9, <2>2, <3>1
    <3>3. messages[ReplyAt] \in Tools
      BY <1>11, <1>18, <3>2
    <3> QED
      BY <1>4, <1>9, <1>10, <3>3
  <2>3. Len(messages[i].calls) \in Nat
    BY <1>4, <1>10, <1>11
  <2> QED
    BY <1>9, <2>1, <2>2, <2>3
<1>12. \A i \in 1 .. n + 1 : messages'[i] \in Assistants => i \in 1 .. n
  BY <1>1, <1>4, <1>10
<1>13. \A i \in 1 .. n + 1 : messages'[i] \in Assistants =>
          /\ i <= ReplyAt
          /\ i < ReplyAt => i + Len(messages'[i].calls) <= n + 1
  BY <1>4, <1>9, <1>10, <1>11, <1>12
<1>14. ASSUME NEW i \in 1 .. n + 1, messages'[i] \in Assistants
       PROVE  LET calls == messages'[i].calls IN
              /\ \A j \in i + 1 .. i + Len(calls) : j <= n + 1 =>
                   messages'[j] \in Tools /\ messages'[j].id = calls[j - i]
              /\ \A j \in 1 .. n + 1 : j = i + Len(calls) + 1 => messages'[j] \notin Tools
  <2>1. i \in 1 .. n /\ messages'[i] = messages[i] /\ messages[i] \in Assistants
    BY <1>4, <1>12, <1>14
  <2>2. Len(messages[i].calls) \in Nat
    BY <1>4, <1>10, <2>1
  <2>3. CASE i < ReplyAt
    <3>1. i + Len(messages[i].calls) < ReplyAt /\ ReplyAt <= n
      BY <1>9, <1>11, <2>1, <2>3
    <3>2. ASSUME NEW j \in i + 1 .. i + Len(messages[i].calls)
          PROVE  messages'[j] \in Tools /\ messages'[j].id = messages[i].calls[j - i]
      <4>1. j \in 1 .. n
        BY <1>4, <1>9, <2>1, <2>2, <3>1
      <4> QED
        BY <1>4, <1>18, <2>1, <3>2, <4>1
    <3>3. ASSUME NEW j \in 1 .. n + 1, j = i + Len(messages[i].calls) + 1
          PROVE  messages'[j] \notin Tools
      <4>1. j \in 1 .. n
        BY <1>4, <1>9, <2>1, <2>2, <3>1, <3>3
      <4> QED
        BY <1>4, <1>18, <2>1, <3>3, <4>1
    <3> QED
      BY <2>1, <3>2, <3>3
  <2>4. CASE i = ReplyAt
    <3> DEFINE m == Len(messages[i].calls)
    <3>1. messages[i].calls[n + 1 - i] = Call /\ n + 1 - i \in 1 .. m /\ m \in Nat
      BY <1>9, <2>4
    <3>2. ASSUME NEW j \in i + 1 .. i + m, j <= n + 1
          PROVE  messages'[j] \in Tools /\ messages'[j].id = messages[i].calls[j - i]
      <4>1. CASE j = n + 1
        BY <1>1, <1>4, <3>1, <4>1
      <4>2. CASE j <= n
        <5>1. j \in 1 .. n
          BY <1>4, <3>1, <4>2
        <5>2. messages[j] \in Tools /\ messages[j].id = messages[i].calls[j - i]
          BY <1>18, <2>1, <3>2, <4>2
        <5> QED
          BY <1>4, <5>1, <5>2
      <4> QED
        BY <1>4, <3>1, <3>2, <4>1, <4>2
    <3>3. \A j \in 1 .. n + 1 : j # i + m + 1
      BY <1>4, <2>1, <3>1
    <3>4. messages'[i].calls = messages[i].calls
      BY <2>1
    <3> QED
      BY <1>4, <3>2, <3>3, <3>4
  <2>5. i < ReplyAt \/ i = ReplyAt
    BY <1>4, <1>9, <1>13, <1>14
  <2> QED
    BY <2>3, <2>4, <2>5
<1>15. Aligned'
  <2>1. ASSUME NEW j \in 1 .. Len(messages'), messages'[j] \in Tools
        PROVE  LET i == j - 1 - messages'[j].id[1] IN
               /\ i \in 1 .. Len(steps')
               /\ steps'[i].action = messages'[j].id
               /\ steps'[i].ok = messages'[j].ok
    <3>1. CASE j = n + 1
      <4>1. j - 1 - messages'[j].id[1] = Len(steps) + 1
        BY <1>1, <1>4, <1>5, <1>6, <1>7, <3>1
      <4> QED
        BY <1>1, <1>2, <1>4, <1>5, <3>1, <4>1
    <3>2. CASE j \in 1 .. n
      <4> DEFINE i == j - 1 - messages[j].id[1]
      <4>1. i \in 1 .. Len(steps) /\ steps[i].action = messages[j].id
            /\ steps[i].ok = messages[j].ok
        BY <1>4, <1>17, <2>1, <3>2 DEF Aligned
      <4> QED
        BY <1>4, <1>5, <3>2, <4>1
    <3> QED
      BY <1>4, <3>1, <3>2
  <2>2. ASSUME NEW i \in 1 .. Len(steps'), steps'[i] \in ActionSteps
        PROVE  LET j == i + 1 + steps'[i].action[1] IN
               j \in 1 .. Len(messages') /\ messages'[j] \in Tools
    <3>1. CASE i = Len(steps) + 1
      BY <1>1, <1>2, <1>4, <1>5, <1>6, <1>7, <3>1
    <3>2. CASE i \in 1 .. Len(steps)
      <4> DEFINE j == i + 1 + steps[i].action[1]
      <4>1. j \in 1 .. n /\ messages[j] \in Tools
        BY <1>5, <1>17, <2>2, <3>2 DEF Aligned
      <4> QED
        BY <1>4, <1>5, <3>2, <4>1
    <3> QED
      BY <1>5, <3>1, <3>2
  <2> QED
    BY <2>1, <2>2 DEF Aligned
<1>16. /\ Len(messages') = 1 + stepCount' + Len(steps')
       /\ steps'[Len(steps')].ok = ok /\ messages'[Len(messages')].ok = ok
       /\ messages'[ReplyAt] = Reply
  BY <1>1, <1>2, <1>3, <1>4, <1>5, <1>6, <1>7, <1>9
<1> QED
  BY <1>4, <1>5, <1>8, <1>9, <1>13, <1>14, <1>15, <1>16

(* One more call is executed, and the run goes on ... *)
LEMMA GoesOnKeeps ==
    ASSUME LoopInv, pc = "executing", NEW ok \in BOOLEAN, GoesOn(ok)
    PROVE  LoopInv'
<1> DEFINE n == Len(messages)
<1>0. /\ Observed(ok) /\ UNCHANGED <<status, stopReason>>
      /\ CallsMade + 1 = Len(Reply.calls) => pc' = "guard"
      /\ CallsMade + 1 # Len(Reply.calls) => pc' = "executing"
  BY DEF GoesOn, LastCall
<1>1. Observed(ok) /\ UNCHANGED <<limit, stepCount, answer, status, stopReason>>
      /\ attempt' = 0 /\ pc' \in {"guard", "executing"}
      /\ messages' = Append(messages, Tool(Call, ok))
  BY <1>0 DEF Observed
<1>2. /\ messages' \in Seq(Messages) /\ steps' \in Seq(ActionSteps \cup StopSteps)
      /\ \A i \in 1 .. Len(steps') : steps'[i] \in ActionSteps
      /\ Len(messages') = 1 + stepCount' + Len(steps')
      /\ Aligned'
  BY <1>1, ObservedKeeps
<1>3. /\ \A i \in 1 .. Len(messages') : messages'[i] \in Assistants =>
                 /\ i <= ReplyAt
                 /\ i < ReplyAt => i + Len(messages'[i].calls) <= Len(messages')
      /\ messages'[ReplyAt] = Reply
      /\ \A i \in 1 .. Len(messages') : messages'[i] \in Assistants =>
                /\ \A j \in i + 1 .. i + Len(messages'[i].calls) : j <= Len(messages') =>
                     messages'[j] \in Tools /\ messages'[j].id = messages'[i].calls[j - i]
                /\ \A j \in 1 .. Len(messages') : j = i + Len(messages'[i].calls) + 1 =>
                     messages'[j] \notin Tools
  BY <1>1, ObservedKeeps
<1>4. LoopTypes /\ Running /\ Executing
  BY DEF LoopInv
<1>5. Tool(Call, ok) \in Tools /\ Tool(Call, ok) \in Messages
  BY <1>4, NextCall DEF Messages
<1>6. /\ n \in Nat /\ Len(messages') = n + 1
      /\ \A i \in 1 .. n : messages'[i] = messages[i]
      /\ messages'[n + 1] = Tool(Call, ok)
  BY <1>1, <1>4, <1>5, Appended DEF LoopTypes
<1>7. PICK count \in 1 .. MaxCalls :
                /\ Reply.calls = Calls(stepCount, count)
                /\ Len(Reply.calls) = count
                /\ CallsMade + 1 <= count
  BY <1>4, NextCall
<1>8. /\ ReplyAt \in 1 .. n /\ CallsMade = n - ReplyAt
      /\ messages[ReplyAt] \in Assistants
      /\ \A j \in ReplyAt + 1 .. n : messages[j] \in Tools
      /\ count \in Nat
  BY <1>4, NextCall, LoopAssumption
<1>9. LoopTypes'
  BY <1>1, <1>2, <1>4, LoopAssumption DEF LoopTypes
<1>10. Running'
  BY <1>1, <1>2, <1>4 DEF Running
<1>11. pc' = IF n + 1 - ReplyAt = count THEN "guard" ELSE "executing"
  BY <1>0, <1>7, <1>8
<1>12. Executing'
  <2>1. SUFFICES ASSUME n + 1 - ReplyAt # count PROVE Executing'
    BY <1>11 DEF Executing
  <2>2. n + 1 - ReplyAt < count
    BY <1>6, <1>7, <1>8, <2>1
  <2>3. stepCount >= 1
    BY <1>4 DEF Executing
  <2>4. \A j \in ReplyAt + 1 .. n + 1 : messages'[j] \in Tools
    BY <1>5, <1>6, <1>8
  <2>5. messages'[ReplyAt] \in Assistants /\ messages'[ReplyAt].calls = Calls(stepCount', count)
    BY <1>1, <1>3, <1>6, <1>7, <1>8
  <2>6. ReplyAt \in 1 .. Len(messages') /\ Len(messages') - ReplyAt < count
        /\ Len(messages') = n + 1
    BY <1>6, <1>8, <2>2
  <2> QED
    BY <2>3, <2>4, <2>5, <2>6, <1>1 DEF Executing
<1>13. Answered'
  <2>1. ASSUME NEW i \in 1 .. Len(messages'), messages'[i] \in Assistants,
               i + Len(messages'[i].calls) > Len(messages')
        PROVE  pc' = "executing"
    <3>1. i = ReplyAt
      <4>1. i <= ReplyAt /\ (i < ReplyAt => i + Len(messages'[i].calls) <= Len(messages'))
        BY <1>3, <2>1
      <4>2. Len(messages'[i].calls) \in Nat
        BY <1>2, <2>1, MessageKinds, ElementOfSeq
      <4> QED
        BY <1>6, <1>8, <2>1, <4>1, <4>2
    <3>2. Len(messages'[i].calls) = count
      BY <1>3, <1>7, <3>1
    <3>3. n + 1 - ReplyAt # count
      BY <1>6, <1>8, <2>1, <3>1, <3>2
    <3> QED
      BY <1>11, <3>3
  <2> QED
    BY <1>3, <2>1 DEF Answered
<1>14. OutcomeIsConsistent'
  BY <1>1, <1>10 DEF Running, OutcomeIsConsistent
<1> QED
  BY <1>2, <1>9, <1>10, <1>12, <1>13, <1>14 DEF LoopInv

(* ... or it fails, and the calls that are left are never made.            *)
LEMMA FailsRunKeeps ==
    ASSUME LoopInv, pc = "executing", FailsRun
    PROVE  LoopInv'
<1> DEFINE n == Len(messages)
<1>1. Observed(FALSE) /\ UNCHANGED <<limit, stepCount, answer>> /\ attempt' = 0
      /\ pc' = "ended" /\ status' = "failed" /\ stopReason' = "non_retryable_error"
  BY DEF FailsRun, Failed, Observed
<1>2. /\ messages' \in Seq(Messages) /\ steps' \in Seq(ActionSteps \cup StopSteps)
      /\ \A i \in 1 .. Len(steps') : steps'[i] \in ActionSteps
      /\ Len(steps') = Len(steps) + 1
      /\ steps'[Len(steps')].ok = FALSE
      /\ Aligned'
  BY <1>1, ObservedKeeps
<1>3. /\ messages'[Len(messages')].ok = FALSE
      /\ \A i \in 1 .. Len(messages') : messages'[i] \in Assistants =>
                 /\ i <= ReplyAt
      /\ ReplyAt \in 1 .. Len(messages)
      /\ \A i \in 1 .. Len(messages') : messages'[i] \in Assistants =>
                /\ \A j \in i + 1 .. i + Len(messages'[i].calls) : j <= Len(messages') =>
                     messages'[j] \in Tools /\ messages'[j].id = messages'[i].calls[j - i]
                /\ \A j \in 1 .. Len(messages') : j = i + Len(messages'[i].calls) + 1 =>
                     messages'[j] \notin Tools
  BY <1>1, ObservedKeeps
<1>4. LoopTypes /\ Running /\ Executing
  BY DEF LoopInv
<1>5. n \in Nat /\ Len(messages') = n + 1
  <2>1. Tool(Call, FALSE) \in Messages /\ messages' = Append(messages, Tool(Call, FALSE))
    BY <1>1, <1>4, NextCall DEF Messages, Observed
  <2> QED
    BY <1>4, <2>1, Appended DEF LoopTypes
<1>6. LoopTypes'
  BY <1>1, <1>2, <1>4, LoopAssumption DEF LoopTypes, StopReasons
<1>7. Running' /\ Executing'
  BY <1>1 DEF Running, Executing
<1>8. Answered'
  <2>1. \A i \in 1 .. Len(messages') : messages'[i] \in Assistants => i < Len(messages')
    BY <1>3, <1>5
  <2> QED
    BY <1>1, <1>3, <2>1 DEF Answered
<1>9. OutcomeIsConsistent'
  <2>1. Len(steps') \in 1 .. Len(steps') /\ Len(steps') \in Nat
    BY <1>2, <1>4, LenProperties DEF LoopTypes
  <2>2. /\ steps'[Len(steps')].action # None /\ ~steps'[Len(steps')].ok
        /\ \A i \in 1 .. Len(steps') - 1 : steps'[i].stop = None
    BY <1>2, <2>1, StepKinds
  <2>3. "non_retryable_error" # None
    BY NoneAssumption DEF StopReasons
  <2>4. answer' = None
    BY <1>1, <1>4 DEF Running
  <2> QED
    BY <1>1, <2>2, <2>3, <2>4 DEF OutcomeIsConsistent
<1> QED
  BY <1>2, <1>6, <1>7, <1>8, <1>9 DEF LoopInv

-----------------------------------------------------------------------------
(* The other steps of a run.                                               *)

(* Steps that leave the run's state as it is and go to the next stage.     *)
LEMMA StillKeeps ==
    ASSUME LoopInv, pc \notin {"idle", "ended"},
           pc' \in {"retrieval", "memories", "guard", "asking", "executing"},
           pc' = "executing" <=> pc = "executing",
           pc' = "asking" => stepCount < limit,
           attempt' \in 0 .. MaxToolRetries,
           UNCHANGED <<limit, stateVars>>
    PROVE  LoopInv'
<1>1. UNCHANGED <<limit, status, stopReason, stepCount, messages, steps, answer>>
  BY DEF stateVars
<1>2. LoopTypes'
  BY <1>1 DEF LoopInv, LoopTypes
<1>3. Running' /\ Executing' /\ Answered' /\ Aligned'
  BY <1>1 DEF LoopInv, Running, Executing, Answered, Aligned
<1>4. OutcomeIsConsistent'
  BY <1>3 DEF Running, OutcomeIsConsistent
<1> QED
  BY <1>2, <1>3, <1>4 DEF LoopInv

(* A run is begun, or its state is given up.                               *)
LEMMA FreshKeeps ==
    ASSUME limit' \in 0 .. MaxSteps, status' = "running", stopReason' = None,
           stepCount' = 0, steps' = << >>, answer' = None,
           attempt' \in 0 .. MaxToolRetries,
           \/ pc' = "idle" /\ messages' = << >>
           \/ pc' = "skill" /\ \E n \in Lengths : messages' = <<User(n)>>
    PROVE  LoopInv'
<1>1. /\ messages' \in Seq(Messages) /\ Len(messages') \in {0, 1}
      /\ \A i \in 1 .. Len(messages') : messages'[i] \in Users
      /\ pc' = "skill" => Len(messages') = 1
  <2>1. CASE messages' = << >>
    BY <2>1
  <2>2. ASSUME NEW n \in Lengths, messages' = <<User(n)>> PROVE <1>1!:
    <3>1. User(n) \in Users /\ User(n) \in Messages
      BY DEF Users, Messages
    <3> QED
      BY <2>2, <3>1
  <2> QED
    BY <2>1, <2>2
<1>2. \A m \in Users : m \notin Tools /\ m \notin Assistants
  BY MessageKinds DEF Messages
<1>3. LoopTypes'
  BY <1>1, LoopAssumption, EmptySeq DEF LoopTypes
<1>4. Len(steps') = 0 /\ Len(messages') \in Nat
  BY <1>1, EmptySeq
<1>5. Running'
  BY <1>1, <1>4 DEF Running
<1>6. Executing' /\ Answered' /\ Aligned'
  BY <1>1, <1>2, <1>4 DEF Executing, Answered, Aligned
<1>7. OutcomeIsConsistent'
  BY <1>5 DEF Running, OutcomeIsConsistent
<1> QED
  BY <1>3, <1>5, <1>6, <1>7 DEF LoopInv

(* Outside the execution of tool calls every call has its answer.          *)
LEMMA NothingOpen ==
    ASSUME LoopInv, pc # "executing", status = "running",
           NEW i \in 1 .. Len(messages), messages[i] \in Assistants
    PROVE  /\ i + Len(messages[i].calls) <= Len(messages)
           /\ Len(messages[i].calls) \in Nat
<1>1. Len(messages[i].calls) \in Nat /\ Len(messages) \in Nat
  BY MessageKinds, ElementOfSeq, LenProperties DEF LoopInv, LoopTypes
<1>2. ~(i + Len(messages[i].calls) > Len(messages))
  BY AnswersTo DEF LoopInv
<1> QED
  BY <1>1, <1>2

(* The stop step is the last one, and the only one that stops.             *)
LEMMA StopAppended ==
    ASSUME LoopTypes, \A i \in 1 .. Len(steps) : steps[i] \in ActionSteps, Aligned,
           NEW reason \in StopReasons, steps' = Append(steps, StopStep(reason)),
           messages' \in Seq(Messages), Len(messages') >= Len(messages),
           \A i \in 1 .. Len(messages) : messages'[i] = messages[i],
           \A i \in Len(messages) + 1 .. Len(messages') : messages'[i] \notin Tools
    PROVE  /\ steps' \in Seq(ActionSteps \cup StopSteps)
           /\ steps'[Len(steps')].stop = reason
           /\ \A i \in 1 .. Len(steps') - 1 : steps'[i].stop = None
           /\ Aligned'
<1> DEFINE n == Len(steps)
<1>1. StopStep(reason) \in StopSteps /\ StopStep(reason).stop = reason
  BY DEF StopSteps, StopStep
<1>2. /\ steps' \in Seq(ActionSteps \cup StopSteps) /\ n \in Nat /\ Len(steps') = n + 1
      /\ \A i \in 1 .. n : steps'[i] = steps[i]
      /\ steps'[n + 1] = StopStep(reason)
  BY <1>1, Appended DEF LoopTypes
<1>3. StopStep(reason) \notin ActionSteps
  BY <1>1, StepKinds
<1>4. Len(messages) \in Nat /\ Len(messages') \in Nat
  BY LenProperties DEF LoopTypes
<1>5. ASSUME NEW j \in 1 .. Len(messages'), messages'[j] \in Tools
      PROVE  LET i == j - 1 - messages'[j].id[1] IN
             /\ i \in 1 .. Len(steps')
             /\ steps'[i].action = messages'[j].id
             /\ steps'[i].ok = messages'[j].ok
  <2>1. j \in 1 .. Len(messages) /\ messages'[j] = messages[j]
    BY <1>4, <1>5
  <2> DEFINE i == j - 1 - messages[j].id[1]
  <2>2. /\ i \in 1 .. n
        /\ steps[i].action = messages[j].id
        /\ steps[i].ok = messages[j].ok
    BY <1>5, <2>1 DEF Aligned
  <2> QED
    BY <1>2, <2>1, <2>2
<1>6. ASSUME NEW i \in 1 .. Len(steps'), steps'[i] \in ActionSteps
      PROVE  LET j == i + 1 + steps'[i].action[1] IN
             j \in 1 .. Len(messages') /\ messages'[j] \in Tools
  <2>1. i \in 1 .. n /\ steps'[i] = steps[i]
    BY <1>2, <1>3, <1>6
  <2> DEFINE j == i + 1 + steps[i].action[1]
  <2>2. j \in 1 .. Len(messages) /\ messages[j] \in Tools
    BY <1>6, <2>1 DEF Aligned
  <2> QED
    BY <1>4, <2>1, <2>2
<1>7. Aligned'
  BY <1>5, <1>6 DEF Aligned
<1>8. \A i \in 1 .. Len(steps') - 1 : steps'[i].stop = None
  BY <1>2, StepKinds
<1> QED
  BY <1>1, <1>2, <1>7, <1>8

(* The run stops without a further message. *)
LEMMA StopsKeeps ==
    ASSUME LoopInv, pc \in {"guard", "asking"},
           NEW how, NEW reason, Ends(how, reason),
           \/ how = "failed" /\ reason = "provider_failed"
           \/ how = "max_steps_exceeded" /\ reason = "max_steps_exceeded",
           UNCHANGED <<limit, stepCount, messages, answer, attempt>>
    PROVE  LoopInv'
<1>1. /\ pc' = "ended" /\ status' = how /\ stopReason' = reason
      /\ steps' = Append(steps, StopStep(reason)) /\ messages' = messages
      /\ reason \in StopReasons /\ how # "completed" /\ how # "running"
  BY DEF Ends, StopReasons
<1>2. LoopTypes /\ Running /\ Aligned
  BY DEF LoopInv
<1>3. \A i \in Len(messages) + 1 .. Len(messages') : messages'[i] \notin Tools
  BY <1>1, <1>2, LenProperties DEF LoopTypes
<1>4. /\ steps' \in Seq(ActionSteps \cup StopSteps)
      /\ steps'[Len(steps')].stop = reason
      /\ \A i \in 1 .. Len(steps') - 1 : steps'[i].stop = None
      /\ Aligned'
  <2>1. /\ messages' \in Seq(Messages) /\ Len(messages') >= Len(messages)
        /\ \A i \in 1 .. Len(messages) : messages'[i] = messages[i]
        /\ \A i \in 1 .. Len(steps) : steps[i] \in ActionSteps
    BY <1>1, <1>2, LenProperties DEF LoopTypes, Running
  <2> QED
    BY <1>1, <1>2, <1>3, <2>1, StopAppended
<1>5. LoopTypes'
  BY <1>1, <1>2, <1>4 DEF LoopTypes
<1>6. Running' /\ Executing'
  BY <1>1 DEF Running, Executing
<1>7. Answered'
  <2>1. \A i \in 1 .. Len(messages) : messages[i] \in Assistants =>
           /\ i + Len(messages[i].calls) <= Len(messages)
           /\ Len(messages[i].calls) \in Nat
    BY <1>2, NothingOpen DEF Running
  <2>2. Len(messages) \in Nat
    BY <1>2, LenProperties DEF LoopTypes
  <2> QED
    BY <1>1, <2>1, <2>2, AnswersTo DEF Answered, LoopInv
<1>8. OutcomeIsConsistent'
  <2>1. answer' = None /\ reason # None
    BY <1>1, <1>2, StepKinds DEF Running
  <2> QED
    BY <1>1, <1>4, <2>1 DEF OutcomeIsConsistent
<1> QED
  BY <1>4, <1>5, <1>6, <1>7, <1>8 DEF LoopInv

LEMMA AssistantsAre ==
    ASSUME NEW n \in Lengths \cup {0}, NEW turn \in 1 .. MaxSteps,
           NEW count \in 0 .. MaxCalls, NEW rationale \in Rationales
    PROVE  Assistant(n, Calls(turn, count), rationale) \in Assistants
  BY DEF Assistants

(* A reply of the provider finds every earlier call answered.              *)
LEMMA ReplyAppended ==
    ASSUME LoopInv, pc = "asking", NEW reply \in Assistants,
           messages' = Append(messages, reply)
    PROVE  /\ messages' \in Seq(Messages) /\ Len(messages) \in Nat
           /\ Len(messages') = Len(messages) + 1
           /\ \A i \in 1 .. Len(messages) : messages'[i] = messages[i]
           /\ messages'[Len(messages')] = reply
           /\ reply \notin Tools
           /\ \A i \in 1 .. Len(messages') : messages'[i] \in Assistants =>
                /\ \A j \in i + 1 .. i + Len(messages'[i].calls) : j <= Len(messages') =>
                     messages'[j] \in Tools /\ messages'[j].id = messages'[i].calls[j - i]
                /\ \A j \in 1 .. Len(messages') : j = i + Len(messages'[i].calls) + 1 =>
                     messages'[j] \notin Tools
                /\ i + Len(messages'[i].calls) > Len(messages') => i = Len(messages')
<1> DEFINE n == Len(messages)
<1>1. LoopTypes /\ Running /\ Answered
  BY DEF LoopInv
<1>2. /\ messages' \in Seq(Messages) /\ n \in Nat /\ Len(messages') = n + 1
      /\ \A i \in 1 .. n : messages'[i] = messages[i]
      /\ messages'[n + 1] = reply
  BY <1>1, Appended DEF LoopTypes, Messages
<1>3. reply \notin Tools /\ Len(reply.calls) \in Nat
  BY MessageKinds DEF Messages
<1>4. ASSUME NEW i \in 1 .. n, messages[i] \in Assistants
      PROVE  /\ i + Len(messages[i].calls) <= n /\ Len(messages[i].calls) \in Nat
             /\ \A j \in i + 1 .. i + Len(messages[i].calls) : j <= n =>
                  messages[j] \in Tools /\ messages[j].id = messages[i].calls[j - i]
             /\ \A j \in 1 .. n : j = i + Len(messages[i].calls) + 1 => messages[j] \notin Tools
  BY <1>1, <1>4, NothingOpen, AnswersTo DEF Running
<1>5. ASSUME NEW i \in 1 .. n + 1, messages'[i] \in Assistants
      PROVE  /\ \A j \in i + 1 .. i + Len(messages'[i].calls) : j <= n + 1 =>
                  messages'[j] \in Tools /\ messages'[j].id = messages'[i].calls[j - i]
             /\ \A j \in 1 .. n + 1 : j = i + Len(messages'[i].calls) + 1 =>
                  messages'[j] \notin Tools
             /\ i + Len(messages'[i].calls) > n + 1 => i = n + 1
  <2>1. CASE i = n + 1
    <3>1. messages'[i].calls = reply.calls
      BY <1>2, <2>1
    <3>2. \A j \in i + 1 .. i + Len(reply.calls) : ~(j <= n + 1)
      BY <1>2, <1>3, <2>1
    <3>3. \A j \in 1 .. n + 1 : j # i + Len(reply.calls) + 1
      <4> DEFINE l == Len(reply.calls)
      <4>1. n \in Nat /\ l \in Nat
        BY <1>2, <1>3
      <4> HIDE DEF l, n
      <4>2. i + l + 1 > n + 1
        BY <2>1, <4>1
      <4> QED
        BY <4>1, <4>2 DEF l
    <3> QED
      BY <2>1, <3>1, <3>2, <3>3
  <2>2. CASE i \in 1 .. n
    <3>1. messages'[i] = messages[i] /\ messages[i] \in Assistants
          /\ Len(messages[i].calls) \in Nat /\ i + Len(messages[i].calls) <= n
      BY <1>2, <1>4, <1>5, <2>2
    <3>2. ASSUME NEW j \in i + 1 .. i + Len(messages[i].calls)
          PROVE  messages'[j] \in Tools /\ messages'[j].id = messages[i].calls[j - i]
      <4>1. j \in 1 .. n
        BY <1>2, <2>2, <3>1
      <4> QED
        BY <1>2, <1>4, <2>2, <3>1, <3>2, <4>1
    <3>3. ASSUME NEW j \in 1 .. n + 1, j = i + Len(messages[i].calls) + 1
          PROVE  messages'[j] \notin Tools
      <4>1. CASE j = n + 1
        BY <1>2, <1>3, <4>1
      <4>2. CASE j \in 1 .. n
        BY <1>2, <1>4, <2>2, <3>1, <3>3, <4>2
      <4> QED
        BY <1>2, <4>1, <4>2
    <3>4. ~(i + Len(messages[i].calls) > n + 1)
      BY <1>2, <3>1
    <3> QED
      BY <3>1, <3>2, <3>3, <3>4
  <2> QED
    BY <1>2, <2>1, <2>2
<1> QED
  BY <1>2, <1>3, <1>5

(* The provider asks for tool calls.                                       *)
LEMMA CallsKeeps ==
    ASSUME LoopInv, ProviderCalls
    PROVE  LoopInv'
<1> DEFINE n == Len(messages)
<1>1. /\ pc = "asking" /\ pc' = "executing" /\ stepCount' = stepCount + 1 /\ attempt' = 0
      /\ UNCHANGED <<limit, status, stopReason, steps, answer>>
  BY DEF ProviderCalls
<1>2. LoopTypes /\ Running /\ Aligned
  BY DEF LoopInv
<1>3. stepCount \in Nat /\ limit \in Nat /\ stepCount' \in 1 .. limit /\ stepCount' \in 1 .. MaxSteps
  BY <1>1, <1>2, LoopAssumption DEF LoopTypes, Running
<1>4. PICK m \in Lengths, count \in 1 .. MaxCalls, why \in Rationales :
         messages' = Append(messages, Assistant(m, Calls(stepCount + 1, count), why))
  BY DEF ProviderCalls, Calls, Rationales
<1> DEFINE reply == Assistant(m, Calls(stepCount + 1, count), why)
<1>5. reply \in Assistants /\ reply.calls = Calls(stepCount + 1, count)
  <2>2. count \in 0 .. MaxCalls
    BY LoopAssumption
  <2> QED
    BY <1>1, <1>3, <2>2, AssistantsAre DEF Assistant
<1> HIDE DEF reply
<1>6. /\ messages' \in Seq(Messages) /\ n \in Nat /\ Len(messages') = n + 1
      /\ \A i \in 1 .. n : messages'[i] = messages[i]
      /\ messages'[n + 1] = reply /\ reply \notin Tools
  BY <1>1, <1>4, <1>5, ReplyAppended DEF reply
<1>13. \A i \in 1 .. Len(messages') : messages'[i] \in Assistants =>
          /\ \A j \in i + 1 .. i + Len(messages'[i].calls) : j <= Len(messages') =>
               messages'[j] \in Tools /\ messages'[j].id = messages'[i].calls[j - i]
          /\ \A j \in 1 .. Len(messages') : j = i + Len(messages'[i].calls) + 1 =>
               messages'[j] \notin Tools
  BY <1>1, <1>4, <1>5, ReplyAppended DEF reply
<1>7. LoopTypes'
  BY <1>1, <1>2, <1>3, <1>6, LoopAssumption DEF LoopTypes
<1>8. Running'
  BY <1>1, <1>2, <1>3, <1>6, LenProperties DEF Running, LoopTypes
<1>9. Executing'
  <2>1. n + 1 \in 1 .. Len(messages') /\ Len(messages') - (n + 1) < count
    BY <1>6, LoopAssumption
  <2>2. \A j \in n + 2 .. Len(messages') : messages'[j] \in Tools
    BY <1>6
  <2> QED
    BY <1>1, <1>3, <1>5, <1>6, <2>1, <2>2 DEF Executing
<1>10. Answered'
  BY <1>1, <1>13 DEF Answered
<1>11. Aligned'
  <2>1. \A j \in 1 .. Len(messages') : messages'[j] \in Tools =>
           j \in 1 .. n /\ messages'[j] = messages[j]
    BY <1>6
  <2>2. \A j \in 1 .. n : j \in 1 .. Len(messages') /\ messages'[j] = messages[j]
    BY <1>6
  <2> QED
    BY <1>1, <1>2, <2>1, <2>2 DEF Aligned
<1>12. OutcomeIsConsistent'
  BY <1>1, <1>8 DEF Running, OutcomeIsConsistent
<1> QED
  BY <1>7, <1>8, <1>9, <1>10, <1>11, <1>12 DEF LoopInv

(* The provider answers.                                                   *)
LEMMA AnswersKeeps ==
    ASSUME LoopInv, ProviderAnswers
    PROVE  LoopInv'
<1> DEFINE n == Len(messages)
<1>1. /\ pc = "asking" /\ pc' = "ended" /\ stepCount' = stepCount + 1
      /\ status' = "completed" /\ stopReason' = "final_answer"
      /\ steps' = Append(steps, StopStep("final_answer"))
      /\ UNCHANGED <<limit, attempt>>
  BY DEF ProviderAnswers, Ends
<1>2. LoopTypes /\ Running /\ Aligned
  BY DEF LoopInv
<1>3. stepCount' \in 0 .. limit /\ "final_answer" \in StopReasons
  BY <1>1, <1>2, LoopAssumption DEF LoopTypes, Running, StopReasons
<1>4. PICK m \in Lengths \cup {0} :
         /\ messages' = Append(messages, Assistant(m, << >>, None))
         /\ answer' = IF m = 0 THEN None ELSE <<"said", m>>
  BY DEF ProviderAnswers
<1> DEFINE reply == Assistant(m, << >>, None)
<1>5. reply.calls = << >> /\ reply.text = <<"said", m>>
  BY DEF Assistant
<1>6. reply \in Assistants
  <2>2. 0 \in 0 .. MaxCalls /\ None \in Rationales
    BY LoopAssumption DEF Rationales
  <2>3. 1 \in 1 .. MaxSteps
    BY <1>1, <1>2, LoopAssumption DEF LoopTypes, Running
  <2>4. Calls(1, 0) = << >>
    BY CallsShape
  <2> QED
    BY <2>2, <2>3, <2>4, AssistantsAre
<1>7. /\ messages' \in Seq(Messages) /\ n \in Nat /\ Len(messages') = n + 1
      /\ \A i \in 1 .. n : messages'[i] = messages[i]
      /\ messages'[n + 1] = reply /\ reply \notin Tools
      /\ \A i \in 1 .. Len(messages') : messages'[i] \in Assistants =>
           /\ \A j \in i + 1 .. i + Len(messages'[i].calls) : j <= Len(messages') =>
                messages'[j] \in Tools /\ messages'[j].id = messages'[i].calls[j - i]
           /\ \A j \in 1 .. Len(messages') : j = i + Len(messages'[i].calls) + 1 =>
                messages'[j] \notin Tools
           /\ i + Len(messages'[i].calls) > Len(messages') => i = Len(messages')
  BY <1>1, <1>4, <1>6, ReplyAppended
<1>8. /\ steps' \in Seq(ActionSteps \cup StopSteps)
      /\ steps'[Len(steps')].stop = "final_answer"
      /\ \A i \in 1 .. Len(steps') - 1 : steps'[i].stop = None
      /\ Aligned'
  <2>1. /\ Len(messages') >= Len(messages)
        /\ \A i \in Len(messages) + 1 .. Len(messages') : messages'[i] \notin Tools
        /\ \A i \in 1 .. Len(steps) : steps[i] \in ActionSteps
    BY <1>1, <1>2, <1>7 DEF Running
  <2> QED
    BY <1>1, <1>2, <1>3, <1>7, <2>1, StopAppended
<1>9. answer' = None \/ answer' = <<"said", m>>
  BY <1>4
<1>10. LoopTypes'
  <2>1. answer' \in Said \cup {None}
    BY <1>4 DEF Said
  <2> QED
    BY <1>1, <1>2, <1>3, <1>7, <1>8, <2>1 DEF LoopTypes
<1>11. Running' /\ Executing'
  BY <1>1 DEF Running, Executing
<1>12. Answered'
  <2>1. \A i \in 1 .. Len(messages') : messages'[i] \in Assistants =>
           ~(i + Len(messages'[i].calls) > Len(messages'))
    <3>1. Len(reply.calls) = 0
      BY <1>5, EmptySeq
    <3> QED
      BY <1>7, <3>1
  <2> QED
    BY <1>7, <2>1 DEF Answered
<1>13. OutcomeIsConsistent'
  <2>1. messages'[Len(messages')].calls = << >> /\ messages'[Len(messages')].text = <<"said", m>>
    BY <1>5, <1>7
  <2>2. "final_answer" # None
    BY StepKinds, <1>3
  <2> QED
    BY <1>1, <1>8, <1>9, <2>1, <2>2 DEF OutcomeIsConsistent
<1> QED
  BY <1>8, <1>10, <1>11, <1>12, <1>13 DEF LoopInv

-----------------------------------------------------------------------------
(* The memory store.                                                       *)

(* Exactly decisions of one part survive joining and splitting.            *)
LEMMA DecisionsRestored ==
    ASSUME NEW d \in Seq(Seq(Parts))
    PROVE  (\A i \in DOMAIN d : Len(d[i]) = 1) <=> Split(Joined(d)) = d
<1> DEFINE n == Len(d)
<1>1. n \in Nat /\ DOMAIN d = 1 .. n /\ \A i \in 1 .. n : d[i] \in Seq(Parts)
  BY LenProperties, ElementOfSeq
<1>2. ASSUME \A i \in DOMAIN d : Len(d[i]) = 1
      PROVE  Split(Joined(d)) = d
  <2>1. Joined(d) = [i \in 1 .. n |-> d[i][1]]
    BY <1>1, <1>2, FlattenSingles DEF Joined
  <2>2. ASSUME NEW i \in 1 .. n PROVE <<d[i][1]>> = d[i]
    <3>4. d[i] \in Seq(Parts) /\ Len(d[i]) = 1
      BY <1>1, <1>2
    <3>1. d[i] \in Seq(Parts) /\ Len(d[i]) = 1 /\ d[i][1] \in Parts
      BY <3>4, ElementOfSeq
    <3>2. <<d[i][1]>> \in Seq(Parts) /\ Len(<<d[i][1]>>) = 1 /\ <<d[i][1]>>[1] = d[i][1]
      BY <3>1
    <3> QED
      BY <3>1, <3>2, SeqEqual
  <2>3. Split(Joined(d)) = [i \in 1 .. n |-> <<d[i][1]>>]
    BY <2>1 DEF Split
  <2>4. [i \in 1 .. n |-> <<d[i][1]>>] = [i \in 1 .. n |-> d[i]]
    BY <2>2
  <2>5. d = [i \in 1 .. n |-> d[i]]
    BY <1>1
  <2> QED
    BY <2>3, <2>4, <2>5
<1>3. ASSUME Split(Joined(d)) = d, NEW i \in DOMAIN d
      PROVE  Len(d[i]) = 1
  <2>1. d = [k \in DOMAIN Joined(d) |-> <<Joined(d)[k]>>]
    BY <1>3 DEF Split
  <2>2. d[i] = <<Joined(d)[i]>>
    BY <1>3, <2>1
  <2> QED
    BY <2>2
<1> QED
  BY <1>2, <1>3

(* The decisions of a run. *)
LEMMA DecisionsType ==
    ASSUME steps \in Seq(ActionSteps \cup StopSteps)
    PROVE  Decisions \in Seq(Seq(Parts))
<1> DEFINE single == [i \in DOMAIN steps |->
               IF steps[i].action = None THEN << >> ELSE << Decision(steps[i]) >>]
<1>1. /\ DOMAIN steps = 1 .. Len(steps) /\ Len(steps) \in Nat
      /\ \A i \in 1 .. Len(steps) : steps[i] \in ActionSteps \cup StopSteps
  BY LenProperties, ElementOfSeq
<1>2. ASSUME NEW i \in 1 .. Len(steps), steps[i].action # None
      PROVE  Decision(steps[i]) \in Seq(Parts)
  <2>1. steps[i].action \in Parts /\ "rest" \in Parts
    BY <1>1, <1>2, StepKinds DEF Parts
  <2>2. \A a, b \in Parts : <<a, b>> \in Seq(Parts) /\ <<a>> \in Seq(Parts)
    OBVIOUS
  <2>3. \/ Decision(steps[i]) = <<steps[i].action, "rest">>
        \/ Decision(steps[i]) = <<steps[i].action>>
    BY Zenon DEF Decision
  <2> QED
    BY <2>1, <2>2, <2>3
<1>3. \A i \in 1 .. Len(steps) :
         (IF steps[i].action = None THEN << >> ELSE << Decision(steps[i]) >>)
            \in Seq(Seq(Parts))
  BY <1>2
<1>4. single \in Seq(Seq(Seq(Parts)))
  BY <1>1, <1>3, IsASeq
<1> HIDE DEF single
<1>5. FlattenSeq(single) \in Seq(Seq(Parts))
  BY <1>4, FlattenType
<1> QED
  BY <1>5 DEF Decisions, single

(* A write replaces the row of its namespace and key, or adds one.         *)
LEMMA UpsertReplaces ==
    ASSUME NEW id, NEW namespace, NEW key, NEW type, NEW content, NEW updated,
           \A row, other \in rows :
              row.namespace = other.namespace /\ row.key = other.key => row = other
    PROVE  \E row :
             /\ row.namespace = namespace /\ row.key = key /\ row.content = content
             /\ row.updated = updated
             /\ \/ row.type = type
                \/ \E old \in rows : old.key = key /\ row.type = old.type
             /\ Upserted([id |-> id, namespace |-> namespace, key |-> key, type |-> type,
                          content |-> content, updated |-> updated])
                = {r \in rows : ~(r.namespace = namespace /\ r.key = key)} \cup {row}
<1> DEFINE record == [id |-> id, namespace |-> namespace, key |-> key, type |-> type,
                      content |-> content, updated |-> updated]
           old == Matching(namespace, key)
<1>1. rows \ old = {r \in rows : ~(r.namespace = namespace /\ r.key = key)}
  BY DEF Matching
<1>2. CASE old = {}
  <2>1. Upserted(record) = (rows \ old) \cup {record}
    BY <1>2 DEF Upserted
  <2> QED
    BY <1>1, <2>1
<1>3. CASE old # {}
  <2>1. PICK row \in old : TRUE
    BY <1>3
  <2>2. row \in rows /\ row.key = key /\ old = {row}
    BY <2>1 DEF Matching
  <2> DEFINE new == [record EXCEPT !.id = row.id, !.type = row.type]
  <2>3. /\ new.namespace = namespace /\ new.key = key /\ new.content = content
        /\ new.updated = updated /\ new.type = row.type
    OBVIOUS
  <2>4. Upserted(record) = (rows \ old) \cup {[record EXCEPT !.id = r.id, !.type = r.type] : r \in old}
    BY <1>3 DEF Upserted
  <2>5. {[record EXCEPT !.id = r.id, !.type = r.type] : r \in old} = {new}
    BY <2>2
  <2> QED
    BY <1>1, <2>2, <2>3, <2>4, <2>5
<1> QED
  BY <1>2, <1>3

(* What a write does to the rows: it is found under its namespace and key, *)
(* and nothing else is found differently.                                  *)
LEMMA RowsReplaced ==
    ASSUME RowsInv, NEW namespace, NEW key, NEW row,
           row.namespace = namespace, row.key = key,
           \/ key \in Facts
           \/ key \in {EpisodeKey(r) : r \in 1 .. MaxRuns} /\ row.type = "episodic",
           rows' = {r \in rows : ~(r.namespace = namespace /\ r.key = key)} \cup {row}
    PROVE  /\ \A r \in rows' :
                \/ r.key \in Facts
                \/ r.key \in {EpisodeKey(k) : k \in 1 .. MaxRuns} /\ r.type = "episodic"
           /\ \A r, other \in rows' :
                r.namespace = other.namespace /\ r.key = other.key => r = other
           /\ \A home, k : ~(home = namespace /\ k = key) =>
                Matching(home, k)' = Matching(home, k)
           /\ row \in Matching(namespace, key)'
<1>1. \A r \in rows' : r = row \/ (r \in rows /\ ~(r.namespace = namespace /\ r.key = key))
  OBVIOUS
<1>2. \A r \in rows' :
                \/ r.key \in Facts
                \/ r.key \in {EpisodeKey(k) : k \in 1 .. MaxRuns} /\ r.type = "episodic"
  BY <1>1 DEF RowsInv
<1>3. \A r, other \in rows' :
                r.namespace = other.namespace /\ r.key = other.key => r = other
  BY <1>1 DEF RowsInv
<1>4. ASSUME NEW home, NEW k, ~(home = namespace /\ k = key)
      PROVE  Matching(home, k)' = Matching(home, k)
  BY <1>4 DEF Matching
<1>5. row \in Matching(namespace, key)'
  BY DEF Matching
<1> QED
  BY <1>2, <1>3, <1>4, <1>5

LEMMA KeysDiffer ==
    ASSUME NEW key \in Facts, NEW r \in 1 .. MaxRuns
    PROVE  key # EpisodeKey(r) /\ key \notin {EpisodeKey(k) : k \in 1 .. MaxRuns}
  BY SessionAssumption

LEMMA CommitKeepsRows ==
    ASSUME RowsInv, SessionTypes, NEW namespace \in Namespaces, NEW key \in Facts, NEW kind,
           NEW type, CommitFact(namespace, key, kind, type)
    PROVE  RowsInv'
<1>1. /\ rows' = Upserted([id |-> <<"memory", clock>>, namespace |-> namespace, key |-> key,
                           type |-> type, content |-> clock, updated |-> clock])
      /\ committed' = [committed EXCEPT ![namespace][key] = clock]
      /\ remembered' = remembered
  BY DEF CommitFact, InspectAndCommit, PutMemory
<1>2. \A row, other \in rows :
              row.namespace = other.namespace /\ row.key = other.key => row = other
  BY DEF RowsInv
<1>3. PICK row :
             /\ row.namespace = namespace /\ row.key = key /\ row.content = clock
             /\ row.updated = clock
             /\ rows' = {r \in rows : ~(r.namespace = namespace /\ r.key = key)} \cup {row}
  BY <1>1, <1>2, UpsertReplaces
<1>5. /\ \A r \in rows' :
                \/ r.key \in Facts
                \/ r.key \in {EpisodeKey(k) : k \in 1 .. MaxRuns} /\ r.type = "episodic"
      /\ \A r, other \in rows' :
           r.namespace = other.namespace /\ r.key = other.key => r = other
      /\ \A home, k : ~(home = namespace /\ k = key) => Matching(home, k)' = Matching(home, k)
      /\ row \in Matching(namespace, key)'
  BY <1>3, RowsReplaced
<1>6. ASSUME NEW home \in Namespaces, NEW k \in Facts, committed'[home][k] # None
      PROVE  \E r \in Matching(home, k)' : r.content = committed'[home][k]
  <2>1. CASE home = namespace /\ k = key
    <3>1. committed'[home][k] = clock
      BY <1>1, <2>1 DEF SessionTypes
    <3> QED
      BY <1>3, <1>5, <2>1, <3>1
  <2>2. CASE ~(home = namespace /\ k = key)
    <3>1. committed'[home][k] = committed[home][k]
      BY <1>1, <2>2 DEF SessionTypes
    <3>2. \E r \in Matching(home, k) : r.content = committed[home][k]
      BY <1>6, <3>1 DEF RowsInv
    <3>3. Matching(home, k)' = Matching(home, k)
      BY <1>5, <2>2
    <3> QED
      BY <3>1, <3>2, <3>3
  <2> QED
    BY <2>1, <2>2
<1>7. ASSUME NEW home \in Namespaces, NEW r \in 1 .. MaxRuns, remembered'[home][r] # None
      PROVE  \E e \in Matching(home, EpisodeKey(r))' : e.content = Condensed(remembered'[home][r])
  <2>1. Matching(home, EpisodeKey(r))' = Matching(home, EpisodeKey(r))
    BY <1>5, KeysDiffer
  <2> QED
    BY <1>1, <1>7, <2>1 DEF RowsInv
<1>8. \A r \in rows' : r.updated \in Nat
  BY <1>3, SessionAssumption DEF RowsInv, SessionTypes
<1> QED
  BY <1>5, <1>6, <1>7, <1>8 DEF RowsInv, Condensed

LEMMA RememberKeepsRows ==
    ASSUME RowsInv, SessionTypes, NEW namespace \in Namespaces, Remember(namespace)
    PROVE  RowsInv'
<1>9. PICK mine : mine = EpisodeKey(run)
  OBVIOUS
<1> DEFINE told == Condensed(episode)
<1>1. /\ rows' = Upserted([id |-> episode.id, namespace |-> namespace, key |-> EpisodeKey(episode.run),
                           type |-> "episodic", content |-> told, updated |-> clock])
      /\ remembered' = [remembered EXCEPT ![namespace][run] = episode]
      /\ committed' = committed
      /\ episode # None /\ pc = "ended"
  BY DEF Remember, PutEpisode, ToMemoryRecord, PutMemory, Condensed
<1>2. episode.run = run /\ run \in 1 .. MaxRuns
  BY <1>1, SessionAssumption DEF SessionTypes
<1>3. \A row, other \in rows :
              row.namespace = other.namespace /\ row.key = other.key => row = other
  BY DEF RowsInv
<1>4. PICK row :
             /\ row.namespace = namespace /\ row.key = mine /\ row.content = told
             /\ row.updated = clock
             /\ \/ row.type = "episodic"
                \/ \E old \in rows : old.key = mine /\ row.type = old.type
             /\ rows' = {r \in rows : ~(r.namespace = namespace /\ r.key = mine)} \cup {row}
  BY <1>1, <1>2, <1>3, <1>9, UpsertReplaces
<1>5. row.type = "episodic" /\ mine \in {EpisodeKey(r) : r \in 1 .. MaxRuns}
  <2>1. mine \in {EpisodeKey(r) : r \in 1 .. MaxRuns} /\ mine \notin Facts
    BY <1>2, <1>9, SessionAssumption
  <2>2. ASSUME NEW old \in rows, old.key = mine PROVE old.type = "episodic"
    BY <2>1, <2>2 DEF RowsInv
  <2> QED
    BY <1>4, <2>1, <2>2
<1> HIDE DEF told
<1>6. /\ \A r \in rows' :
                \/ r.key \in Facts
                \/ r.key \in {EpisodeKey(k) : k \in 1 .. MaxRuns} /\ r.type = "episodic"
      /\ \A r, other \in rows' :
           r.namespace = other.namespace /\ r.key = other.key => r = other
      /\ \A home, k : ~(home = namespace /\ k = mine) => Matching(home, k)' = Matching(home, k)
      /\ row \in Matching(namespace, mine)'
  BY <1>4, <1>5, RowsReplaced
<1>7. ASSUME NEW home \in Namespaces, NEW k \in Facts, committed'[home][k] # None
      PROVE  \E r \in Matching(home, k)' : r.content = committed'[home][k]
  <2>1. k # mine
    BY <1>2, <1>9, KeysDiffer
  <2>2. Matching(home, k)' = Matching(home, k)
    BY <1>6, <2>1
  <2> QED
    BY <1>1, <1>7, <2>2 DEF RowsInv
<1>8. ASSUME NEW home \in Namespaces, NEW r \in 1 .. MaxRuns, remembered'[home][r] # None
      PROVE  \E e \in Matching(home, EpisodeKey(r))' : e.content = Condensed(remembered'[home][r])
  <2>1. CASE home = namespace /\ r = run
    <3>1. remembered'[home][r] = episode
      BY <1>1, <1>2, <2>1 DEF SessionTypes
    <3>2. EpisodeKey(r) = mine /\ Condensed(remembered'[home][r]) = told
      BY <1>9, <2>1, <3>1 DEF told
    <3>3. row \in Matching(home, EpisodeKey(r))'
      BY <1>6, <2>1, <3>2
    <3> QED
      BY <1>4, <3>2, <3>3
  <2>2. CASE ~(home = namespace /\ r = run)
    <3>1. remembered'[home][r] = remembered[home][r]
      BY <1>1, <1>2, <2>2 DEF SessionTypes
    <3>2. ~(home = namespace /\ EpisodeKey(r) = mine)
      BY <1>9, <2>2 DEF EpisodeKey
    <3>3. Matching(home, EpisodeKey(r))' = Matching(home, EpisodeKey(r))
      BY <1>6, <3>2
    <3>4. \E e \in Matching(home, EpisodeKey(r)) : e.content = Condensed(remembered[home][r])
      BY <1>8, <3>1 DEF RowsInv
    <3> QED
      BY <3>1, <3>3, <3>4
  <2> QED
    BY <2>1, <2>2
<1>10. \A r \in rows' : r.updated \in Nat
  BY <1>4, SessionAssumption DEF RowsInv, SessionTypes
<1> QED
  BY <1>6, <1>7, <1>8, <1>10 DEF RowsInv, Condensed

-----------------------------------------------------------------------------
(* The invariant.                                                          *)

LEMMA InitInv == Init => Inv
<1> SUFFICES ASSUME Init PROVE Inv
  OBVIOUS
<1> USE DEF Init
<1>1. Len(messages) = 0 /\ Len(steps) = 0
  OBVIOUS
<1>2. LoopTypes
  BY LoopAssumption DEF LoopTypes
<1>3. Running /\ Executing /\ Answered /\ Aligned
  BY <1>1 DEF Running, Executing, Answered, Aligned
<1>4. OutcomeIsConsistent
  BY DEF OutcomeIsConsistent
<1>5. SessionTypes
  BY SessionAssumption DEF SessionTypes
<1>6. RowsInv
  BY DEF RowsInv
<1> QED
  BY <1>2, <1>3, <1>4, <1>5, <1>6 DEF Inv, LoopInv

LEMMA LoopUnchanged ==
    ASSUME LoopInv, UNCHANGED loopVars
    PROVE  LoopInv'
  BY DEF loopVars, stateVars, LoopInv, LoopTypes, Running, Executing, Answered, Aligned,
         OutcomeIsConsistent

(* Every step of a run, tool calls included, keeps what is known of it.    *)
LEMMA RunStepKeeps ==
    ASSUME LoopInv, RunStep
    PROVE  LoopInv'
<1>1. LoopTypes
  BY DEF LoopInv
<1>2. CASE ActivateSkill
  <2>1. /\ pc \notin {"idle", "ended"} /\ pc' = "retrieval" /\ pc # "executing"
        /\ UNCHANGED <<limit, stateVars, attempt>>
    BY <1>2 DEF ActivateSkill
  <2> QED
    BY <1>1, <2>1, StillKeeps DEF LoopTypes
<1>3. CASE NoPipeline
  <2>1. /\ pc \notin {"idle", "ended"} /\ pc' = "memories" /\ pc # "executing"
        /\ UNCHANGED <<limit, stateVars, attempt>>
    BY <1>3 DEF NoPipeline
  <2> QED
    BY <1>1, <2>1, StillKeeps DEF LoopTypes
<1>4. CASE Retrieve
  <2>1. /\ pc \notin {"idle", "ended"} /\ pc' = "memories" /\ pc # "executing"
        /\ UNCHANGED <<limit, stateVars, attempt>>
    BY <1>4 DEF Retrieve
  <2> QED
    BY <1>1, <2>1, StillKeeps DEF LoopTypes
<1>5. CASE Recall
  <2>1. /\ pc \notin {"idle", "ended"} /\ pc' = "guard" /\ pc # "executing"
        /\ UNCHANGED <<limit, stateVars, attempt>>
    BY <1>5 DEF Recall, ReadMemories
  <2> QED
    BY <1>1, <2>1, StillKeeps DEF LoopTypes
<1>6. CASE StopAtLimit
  <2>1. /\ pc \in {"guard", "asking"} /\ Ends("max_steps_exceeded", "max_steps_exceeded")
        /\ UNCHANGED <<limit, stepCount, messages, answer, attempt>>
    BY <1>6 DEF StopAtLimit
  <2> QED
    BY <2>1, StopsKeeps
<1>7. CASE AssembleContext
  <2>1. /\ pc \notin {"idle", "ended"} /\ pc' = "asking" /\ pc # "executing"
        /\ UNCHANGED <<limit, stateVars, attempt>> /\ ~(stepCount >= limit)
    BY <1>7 DEF AssembleContext, AtLimit
  <2>2. stepCount < limit
    BY <1>1, <2>1, LoopAssumption DEF LoopTypes
  <2> QED
    BY <1>1, <2>1, <2>2, StillKeeps DEF LoopTypes
<1>8. CASE ProviderFails
  <2>1. /\ pc \in {"guard", "asking"} /\ Ends("failed", "provider_failed")
        /\ UNCHANGED <<limit, stepCount, messages, answer, attempt>>
    BY <1>8 DEF ProviderFails
  <2> QED
    BY <2>1, StopsKeeps
<1>9. CASE ProviderCalls
  BY <1>9, CallsKeeps
<1>10. CASE ProviderAnswers
  BY <1>10, AnswersKeeps
<1>11. CASE ToolSucceeds
  BY <1>11, GoesOnKeeps DEF ToolSucceeds, TriesLeft
<1>12. CASE InvalidArguments
  BY <1>12, GoesOnKeeps DEF InvalidArguments, TriesLeft
<1>13. CASE TransientError
  <2>1. /\ pc = "executing" /\ pc' = pc
        /\ UNCHANGED <<limit, stateVars>>
        /\ attempt < MaxToolRetries /\ attempt' = attempt + 1
    BY <1>13 DEF TransientError, TriesLeft
  <2>2. attempt' \in 0 .. MaxToolRetries
    BY <1>1, <2>1, LoopAssumption DEF LoopTypes
  <2> QED
    BY <2>1, <2>2, StillKeeps
<1>14. CASE ToolRaises
  BY <1>14, FailsRunKeeps DEF ToolRaises, TriesLeft
<1>15. CASE UnknownTool
  BY <1>15, FailsRunKeeps DEF UnknownTool
<1>16. CASE RetriesExhausted
  BY <1>16, FailsRunKeeps DEF RetriesExhausted
<1> QED
  BY <1>2, <1>3, <1>4, <1>5, <1>6, <1>7, <1>8, <1>9, <1>10, <1>11, <1>12, <1>13, <1>14,
     <1>15, <1>16 DEF RunStep

LEMMA RowsUnchanged ==
    ASSUME RowsInv, UNCHANGED <<rows, remembered, committed>>
    PROVE  RowsInv'
  BY DEF RowsInv, Matching, Condensed

LEMMA StepInv == Inv /\ [Next]_vars => Inv'
<1> SUFFICES ASSUME Inv, [Next]_vars PROVE Inv'
  OBVIOUS
<1>1. LoopInv /\ SessionTypes /\ RowsInv
  BY DEF Inv
<1>2. CASE Begin
  <2>1. /\ run < MaxRuns /\ run' = run + 1 /\ granted' = granted + limit'
        /\ granted' <= MaxGranted /\ BeginRun
        /\ UNCHANGED <<rows, clock, episode, remembered, committed>>
    BY <1>2 DEF Begin, memoryVars
  <2>2. /\ pc = "idle" /\ pc' = "skill" /\ limit' \in 1 .. MaxSteps
        /\ \E n \in Lengths : messages' = <<User(n)>>
        /\ status' = "running" /\ stopReason' = None /\ stepCount' = 0 /\ steps' = << >>
        /\ answer' = None /\ attempt' = 0
    BY <2>1 DEF BeginRun
  <2>3. limit' \in 0 .. MaxSteps /\ attempt' \in 0 .. MaxToolRetries /\ limit' \in Nat
    BY <2>2, LoopAssumption
  <2>4. LoopInv'
    BY <2>2, <2>3, FreshKeeps
  <2>5. run' \in 1 .. MaxRuns /\ granted' \in 0 .. MaxGranted /\ episode = None
    <3>1. granted \in 0 .. MaxGranted
      BY <1>1 DEF SessionTypes
    <3>2. run' \in 1 .. MaxRuns
      BY <1>1, <2>1, SessionAssumption DEF SessionTypes
    <3>4. granted' \in 0 .. MaxGranted
      <4>1. MaxGranted \in Nat
        BY SessionAssumption
      <4>2. granted \in Nat
        BY <3>1, <4>1
      <4>3. limit' \in Nat
        BY <2>3
      <4>4. granted' = granted + limit' /\ granted' <= MaxGranted
        BY <2>1
      <4>5. \A m, n, bound \in Nat : m + n <= bound => m + n \in 0 .. bound
        OBVIOUS
      <4> QED
        BY <4>1, <4>2, <4>3, <4>4, <4>5, Zenon
    <3>3. episode = None
      BY <1>1, <2>2 DEF SessionTypes
    <3> QED
      BY <3>2, <3>3, <3>4
  <2>6. SessionTypes'
    <3>1. run' \in 0 .. MaxRuns /\ run' >= 1 /\ granted' \in 0 .. MaxGranted
      BY <2>5, SessionAssumption
    <3>2. clock' \in 0 .. MaxWrites /\ episode' = None
      BY <1>1, <2>1, <2>5 DEF SessionTypes
    <3>3. /\ remembered' \in [Namespaces -> [1 .. MaxRuns -> Episodes \cup {None}]]
          /\ committed' \in [Namespaces -> [Facts -> Nat \cup {None}]]
      BY <1>1, <2>1 DEF SessionTypes
    <3> QED
      BY <3>1, <3>2, <3>3 DEF SessionTypes
  <2>7. RowsInv'
    BY <1>1, <2>1, RowsUnchanged
  <2> QED
    BY <2>4, <2>6, <2>7 DEF Inv
<1>3. CASE RunStep
  <2>1. UNCHANGED <<rows, clock, run, granted, episode, remembered, committed>>
    BY <1>3 DEF RunStep, memoryVars, sessionVars
  <2>2. LoopInv'
    BY <1>1, <1>3, RunStepKeeps
  <2>3. pc \notin {"idle", "ended"}
    BY <1>3 DEF RunStep, ActivateSkill, NoPipeline, Retrieve, Recall, ReadMemories,
                StopAtLimit, AssembleContext, ProviderFails, ProviderCalls, ProviderAnswers,
                ToolSucceeds, InvalidArguments, TransientError, ToolRaises, TriesLeft,
                UnknownTool, RetriesExhausted
  <2>4. SessionTypes'
    BY <1>1, <2>1, <2>3 DEF SessionTypes
  <2>5. RowsInv'
    BY <1>1, <2>1, RowsUnchanged
  <2> QED
    BY <2>2, <2>4, <2>5 DEF Inv
<1>4. CASE Condense
  <2>1. /\ pc = "ended"
        /\ episode' = [id |-> <<"run", run, clock>>, run |-> run, outcome |-> status,
                       steps |-> stepCount, decisions |-> Decisions]
        /\ UNCHANGED loopVars /\ UNCHANGED <<rows, clock, run, granted, remembered, committed>>
    BY <1>4 DEF Condense, memoryVars
  <2>2. LoopInv' /\ pc' = pc
    BY <1>1, <2>1, LoopUnchanged DEF loopVars
  <2>3. episode' \in Episodes /\ episode'.run = run
    <3>1. Decisions \in Seq(Seq(Parts))
      BY <1>1, DecisionsType DEF LoopInv, LoopTypes
    <3>2. run \in 1 .. MaxRuns /\ run \in Nat /\ clock \in Nat /\ stepCount \in Nat
      BY <1>1, <2>1, SessionAssumption, LoopAssumption DEF SessionTypes, LoopInv, LoopTypes
    <3>3. status \in {"completed", "failed", "max_steps_exceeded", "running"}
      BY <1>1 DEF LoopInv, LoopTypes
    <3> QED
      BY <2>1, <3>1, <3>2, <3>3 DEF Episodes
  <2>4. SessionTypes'
    BY <1>1, <2>1, <2>2, <2>3 DEF SessionTypes
  <2>5. RowsInv'
    BY <1>1, <2>1, RowsUnchanged
  <2> QED
    BY <2>2, <2>4, <2>5 DEF Inv
<1>5. CASE Close
  <2>1. /\ pc' = "idle" /\ limit' = 0 /\ status' = "running" /\ stopReason' = None
        /\ stepCount' = 0 /\ messages' = << >> /\ steps' = << >> /\ answer' = None
        /\ attempt' = attempt /\ episode' = None
        /\ UNCHANGED <<rows, clock, run, granted, remembered, committed>>
    BY <1>5 DEF Close, memoryVars
  <2>2. limit' \in 0 .. MaxSteps /\ attempt' \in 0 .. MaxToolRetries
    BY <1>1, <2>1, LoopAssumption DEF LoopInv, LoopTypes
  <2>3. LoopInv'
    BY <2>1, <2>2, FreshKeeps
  <2>4. SessionTypes'
    BY <1>1, <2>1 DEF SessionTypes
  <2>5. RowsInv'
    BY <1>1, <2>1, RowsUnchanged
  <2> QED
    BY <2>3, <2>4, <2>5 DEF Inv
<1>6. ASSUME NEW namespace \in Namespaces, Remember(namespace) PROVE Inv'
  <2>1. /\ UNCHANGED loopVars /\ UNCHANGED <<run, granted, episode, committed>>
        /\ pc = "ended" /\ episode # None
        /\ clock < MaxWrites /\ clock' = clock + 1
        /\ remembered' = [remembered EXCEPT ![namespace][run] = episode]
    BY <1>6 DEF Remember, PutEpisode, PutMemory
  <2>2. LoopInv' /\ pc' = pc
    BY <1>1, <2>1, LoopUnchanged DEF loopVars
  <2>3. clock' \in 0 .. MaxWrites
    BY <1>1, <2>1, SessionAssumption DEF SessionTypes
  <2>4. remembered' \in [Namespaces -> [1 .. MaxRuns -> Episodes \cup {None}]]
    BY <1>1, <2>1 DEF SessionTypes
  <2>5. SessionTypes'
    BY <1>1, <2>1, <2>2, <2>3, <2>4 DEF SessionTypes
  <2>6. RowsInv'
    BY <1>1, <1>6, RememberKeepsRows
  <2> QED
    BY <2>2, <2>5, <2>6 DEF Inv
<1>7. ASSUME NEW namespace \in Namespaces, NEW key \in Facts,
             NEW kind \in {"fact", "noise", "instruction"},
             NEW type \in {"semantic", "episodic"}, CommitFact(namespace, key, kind, type)
      PROVE  Inv'
  <2>1. /\ UNCHANGED loopVars /\ UNCHANGED <<run, granted, episode, remembered>>
        /\ clock < MaxWrites /\ clock' = clock + 1
        /\ committed' = [committed EXCEPT ![namespace][key] = clock]
    BY <1>7 DEF CommitFact, InspectAndCommit, PutMemory
  <2>2. LoopInv' /\ pc' = pc
    BY <1>1, <2>1, LoopUnchanged DEF loopVars
  <2>3. clock' \in 0 .. MaxWrites /\ clock \in Nat
    BY <1>1, <2>1, SessionAssumption DEF SessionTypes
  <2>4. committed' \in [Namespaces -> [Facts -> Nat \cup {None}]]
    BY <1>1, <2>1, <2>3 DEF SessionTypes
  <2>5. SessionTypes'
    BY <1>1, <2>1, <2>2, <2>3, <2>4 DEF SessionTypes
  <2>6. RowsInv'
    BY <1>1, <1>7, CommitKeepsRows
  <2> QED
    BY <2>2, <2>5, <2>6 DEF Inv
<1>8. CASE UNCHANGED vars
  <2>1. UNCHANGED loopVars /\ UNCHANGED <<rows, clock, run, granted, episode, remembered, committed>>
    BY <1>8 DEF vars, memoryVars, sessionVars
  <2>2. LoopInv' /\ pc' = pc
    BY <1>1, <2>1, LoopUnchanged DEF loopVars
  <2>3. SessionTypes' /\ RowsInv'
    BY <1>1, <2>1, <2>2, RowsUnchanged DEF SessionTypes
  <2> QED
    BY <2>2, <2>3 DEF Inv
<1> QED
  BY <1>2, <1>3, <1>4, <1>5, <1>6, <1>7, <1>8 DEF Next

-----------------------------------------------------------------------------
(* What the invariant means for the properties.                            *)

(* The results behind a reply are those of its calls, as far as they got.  *)
LEMMA ResultsBehind ==
    ASSUME LoopInv, NEW i \in 1 .. Len(messages), messages[i] \in Assistants
    PROVE  \E last \in i .. Len(messages) :
             /\ last <= i + Len(messages[i].calls)
             /\ last < i + Len(messages[i].calls) => last = Len(messages)
             /\ ResultsAfter(i) = SubSeq(messages, i + 1, last)
             /\ \A j \in i + 1 .. last :
                  messages[j] \in Tools /\ messages[j].id = messages[i].calls[j - i]
<1> DEFINE n == Len(messages)
           m == Len(messages[i].calls)
           others == {j \in i + 1 .. n : messages[j].role # "tool"}
<1>1. n \in Nat /\ \A j \in 1 .. n : messages[j] \in Messages
  BY ElementOfSeq, LenProperties DEF LoopInv, LoopTypes
<1>2. m \in Nat
  BY <1>1, MessageKinds
<1>3. /\ \A j \in i + 1 .. i + m : j <= n =>
           messages[j] \in Tools /\ messages[j].id = messages[i].calls[j - i]
      /\ \A j \in 1 .. n : j = i + m + 1 => messages[j] \notin Tools
  BY AnswersTo DEF LoopInv
<1>4. \A j \in 1 .. n : messages[j] \in Tools <=> messages[j].role = "tool"
  BY <1>1, MessageKinds
<1> HIDE DEF m
<1>5. CASE i + m < n
  <2>1. i + m + 1 \in others
    BY <1>1, <1>2, <1>3, <1>4, <1>5
  <2>2. \A j \in others : i + m + 1 <= j
    BY <1>1, <1>2, <1>3, <1>4
  <2>3. \A j \in others : (\A k \in others : j <= k) => j = i + m + 1
    BY <1>1, <1>2, <2>1, <2>2
  <2> HIDE DEF others
  <2> DEFINE least == CHOOSE j \in others : \A k \in others : j <= k
  <2>4. least = i + m + 1
    BY <2>1, <2>2, <2>3
  <2>5. ResultsAfter(i) = SubSeq(messages, i + 1, i + m)
    <3>1. ResultsAfter(i) = SubSeq(messages, i + 1,
              IF others = {} THEN Len(messages) ELSE least - 1)
      BY Zenon DEF ResultsAfter, others
    <3>2. others # {}
      BY <2>1
    <3> HIDE DEF least
    <3>3. least - 1 = i + m
      BY <1>2, <2>4
    <3> QED
      BY <3>1, <3>2, <3>3
  <2>6. i + m \in i .. n /\ \A j \in i + 1 .. i + m : j <= n
    BY <1>1, <1>2, <1>5
  <2>7. \E last \in i .. n :
           /\ last <= i + m /\ (last < i + m => last = n)
           /\ ResultsAfter(i) = SubSeq(messages, i + 1, last)
           /\ \A j \in i + 1 .. last : j \in i + 1 .. i + m /\ j <= n
    BY <1>1, <1>2, <1>5, <2>5, <2>6
  <2> QED
    BY <1>3, <2>7 DEF m
<1>6. CASE ~(i + m < n)
  <2>1. others = {}
    BY <1>1, <1>2, <1>3, <1>4, <1>6
  <2>2. ResultsAfter(i) = SubSeq(messages, i + 1, n)
    BY <2>1 DEF ResultsAfter
  <2>3. n \in i .. n /\ n <= i + m /\ \A j \in i + 1 .. n : j \in i + 1 .. i + m /\ j <= n
    BY <1>1, <1>2, <1>6
  <2> QED
    BY <1>3, <2>2, <2>3 DEF m
<1> QED
  BY <1>5, <1>6

(* A sequence of results whose numbers are the first of a sequence of      *)
(* calls.                                                                  *)
LEMMA AnswersInOrder ==
    ASSUME NEW S, NEW calls \in Seq(S), NEW ids \in Seq(S), Len(ids) <= Len(calls),
           \A k \in 1 .. Len(ids) : ids[k] = calls[k]
    PROVE  IsPrefix(ids, calls) /\ (ids # calls => Len(ids) < Len(calls))
<1>1. Len(ids) \in Nat /\ Len(calls) \in Nat
  BY LenProperties
<1>2. /\ \A k \in 1 .. Len(ids) : ids[k] \in S /\ calls[k] \in S
  BY <1>1, ElementOfSeq
<1> DEFINE p == SubSeq(ids, 1, Len(ids))
           q == SubSeq(calls, 1, Len(ids))
<1>3. p \in Seq(S) /\ Len(p) = Len(ids) /\ \A k \in 1 .. Len(ids) : p[k] = ids[k]
  BY <1>1, <1>2, SubSeqProperties
<1>4. q \in Seq(S) /\ Len(q) = Len(ids) /\ \A k \in 1 .. Len(ids) : q[k] = calls[k]
  BY <1>1, <1>2, SubSeqProperties
<1> HIDE DEF p, q
<1>5. p = q
  BY <1>1, <1>3, <1>4, SeqEqual
<1>6. Len(ids) = Len(calls) => ids = calls
  BY SeqEqual
<1> QED
  BY <1>1, <1>5, <1>6 DEF IsPrefix, p, q

LEMMA RepliesAreAnswered ==
    ASSUME LoopInv, NEW i \in 1 .. Len(messages), messages[i] \in Assistants
    PROVE  LET results == ResultsAfter(i)
               answered == [k \in DOMAIN results |-> results[k].id]
           IN /\ IsPrefix(answered, messages[i].calls)
              /\ answered # messages[i].calls =>
                   \/ pc = "executing"
                   \/ status = "failed" /\ ~results[Len(results)].ok
<1> DEFINE calls == messages[i].calls
           results == ResultsAfter(i)
           answered == [k \in DOMAIN results |-> results[k].id]
<1>1. PICK last \in i .. Len(messages) :
             /\ last <= i + Len(calls)
             /\ last < i + Len(calls) => last = Len(messages)
             /\ results = SubSeq(messages, i + 1, last)
             /\ \A j \in i + 1 .. last : messages[j] \in Tools /\ messages[j].id = calls[j - i]
  BY ResultsBehind
<1>2. /\ Len(messages) \in Nat /\ \A j \in 1 .. Len(messages) : messages[j] \in Messages
  BY ElementOfSeq, LenProperties DEF LoopInv, LoopTypes
<1>3. /\ results \in Seq(Messages) /\ Len(results) = last - i
      /\ \A k \in 1 .. last - i : results[k] = messages[i + k]
  <2>1. i + 1 \in Int /\ last \in Int /\ \A j \in i + 1 .. last : messages[j] \in Messages
    BY <1>2
  <2>2. /\ SubSeq(messages, i + 1, last) \in Seq(Messages)
        /\ Len(SubSeq(messages, i + 1, last)) = IF i + 1 <= last THEN last - (i + 1) + 1 ELSE 0
        /\ \A k \in 1 .. last - (i + 1) + 1 :
             SubSeq(messages, i + 1, last)[k] = messages[i + 1 + k - 1]
    BY <2>1, SubSeqProperties
  <2> HIDE DEF results
  <2> QED
    BY <1>1, <1>2, <2>2
<1>4. calls \in Seq(Ids)
  <2>1. PICK turn \in 1 .. MaxSteps, count \in 0 .. MaxCalls : calls = Calls(turn, count)
    BY <1>2, MessageKinds
  <2>2. \A k \in 1 .. count : <<turn, k>> \in Ids
    BY LoopAssumption DEF Ids
  <2>3. count \in Nat
    BY LoopAssumption
  <2> QED
    BY <2>1, <2>2, <2>3, IsASeq DEF Calls
<1> HIDE DEF calls, results
<1>5. Len(calls) \in Nat /\ DOMAIN results = 1 .. last - i /\ last - i \in Nat
      /\ last - i <= Len(calls)
  BY <1>1, <1>2, <1>3, <1>4, LenProperties
<1>6. ASSUME NEW k \in 1 .. last - i
      PROVE  results[k].id = calls[k] /\ calls[k] \in Ids
  <2>1. i + k \in i + 1 .. last /\ i + k - i = k /\ k \in 1 .. Len(calls)
    BY <1>2, <1>5
  <2>2. results[k] = messages[i + k]
    BY <1>3
  <2>3. messages[i + k].id = calls[k]
    <3>1. \A j \in i + 1 .. last : messages[j].id = calls[j - i]
      BY <1>1
    <3>2. PICK j \in i + 1 .. last : j = i + k /\ j - i = k
      BY <2>1
    <3> QED
      BY <3>1, <3>2, Zenon
  <2> QED
    BY <1>4, <2>1, <2>2, <2>3, ElementOfSeq
<1>7. answered \in Seq(Ids) /\ Len(answered) = last - i
      /\ \A k \in 1 .. last - i : answered[k] = calls[k]
  BY <1>5, <1>6, IsASeq
<1> HIDE DEF answered
<1>8. IsPrefix(answered, calls) /\ (answered # calls => last - i < Len(calls))
  BY <1>4, <1>5, <1>7, AnswersInOrder
<1>9. ASSUME last - i < Len(calls), pc # "executing"
      PROVE  status = "failed" /\ ~results[Len(results)].ok
  <2>1. last = Len(messages) /\ i + Len(calls) > Len(messages)
    BY <1>1, <1>2, <1>5, <1>9
  <2>2. status = "failed" /\ i < Len(messages) /\ ~messages[Len(messages)].ok
    BY <1>9, <2>1, AnswersTo DEF LoopInv, calls
  <2>3. results[Len(results)] = messages[Len(messages)]
    BY <1>2, <1>3, <2>1, <2>2
  <2> QED
    BY <2>2, <2>3
<1> QED
  BY <1>8, <1>9 DEF calls, results, answered

LEMMA LoopInvAnswers ==
    ASSUME LoopInv
    PROVE  EveryCallIsAnswered
<1>1. /\ DOMAIN messages = 1 .. Len(messages)
      /\ DOMAIN steps = 1 .. Len(steps)
      /\ \A j \in 1 .. Len(messages) : messages[j] \in Messages
      /\ \A j \in 1 .. Len(steps) : steps[j] \in ActionSteps \cup StopSteps
  BY ElementOfSeq, LenProperties DEF LoopInv, LoopTypes
<1>2. \A i \in 1 .. Len(messages) :
         /\ messages[i].role = "assistant" <=> messages[i] \in Assistants
         /\ messages[i].role = "tool" <=> messages[i] \in Tools
  BY <1>1, MessageKinds
<1>3. \A i \in 1 .. Len(steps) : steps[i].action # None => steps[i] \in ActionSteps
  BY <1>1, StepKinds
<1>4. \A i \in {j \in DOMAIN messages : messages[j].role = "assistant"} :
         LET results == ResultsAfter(i)
             answered == [k \in DOMAIN results |-> results[k].id]
         IN /\ IsPrefix(answered, messages[i].calls)
            /\ answered # messages[i].calls =>
                 \/ pc = "executing"
                 \/ status = "failed" /\ ~results[Len(results)].ok
  BY <1>1, <1>2, RepliesAreAnswered
<1>5. \A j \in {i \in DOMAIN messages : messages[i].role = "tool"} :
         LET step == steps[j - 1 - messages[j].id[1]]
         IN step.action = messages[j].id /\ step.ok = messages[j].ok
  BY <1>1, <1>2 DEF LoopInv, Aligned
<1>6. \A i \in {k \in DOMAIN steps : steps[k].action # None} :
         LET j == i + 1 + steps[i].action[1]
         IN j \in DOMAIN messages /\ messages[j].role = "tool"
  BY <1>1, <1>2, <1>3 DEF LoopInv, Aligned
<1> QED
  BY <1>4, <1>5, <1>6 DEF EveryCallIsAnswered

LEMMA InvTypes ==
    ASSUME LoopInv, SessionTypes
    PROVE  TypeOK
<1>1. \A i \in DOMAIN steps : steps[i].action \in Ids \cup {None}
  <2>1. \A i \in DOMAIN steps : steps[i] \in ActionSteps \cup StopSteps
    BY ElementOfSeq, LenProperties DEF LoopInv, LoopTypes
  <2> QED
    BY <2>1, StepKinds
<1> QED
  BY <1>1 DEF LoopInv, LoopTypes, SessionTypes, TypeOK

(* A limit of the runs and the facts together, which may be of type        *)
(* episodic too, cuts off no episode of a store in which each of them has  *)
(* at most one row.                                                        *)
LEMMA EpisodesAreFew ==
    ASSUME RowsInv, NEW row \in rows, row.type = "episodic",
           row.key \in {EpisodeKey(k) : k \in 1 .. MaxRuns}
    PROVE  row \in RecentEpisodes(row.namespace, MaxRuns + Cardinality(Facts))
<1> DEFINE episodes == {other \in Memories(row.namespace) : other.type = "episodic"}
           laters == {other \in episodes : other.updated > row.updated}
           runs == {EpisodeKey(k) : k \in 1 .. MaxRuns}
           keys == Facts \cup runs
           number == [other \in laters |-> other.key]
<1>1. \A other \in laters :
         /\ other \in rows /\ other.namespace = row.namespace
         /\ other.updated > row.updated
  BY DEF Memories
<1>2. \A other \in laters : other.key \in keys
  BY <1>1 DEF RowsInv
<1>3. \A other \in laters : other # row
  <2>1. row.updated \in Nat
    BY DEF RowsInv
  <2>2. ~(row.updated > row.updated)
    BY <2>1
  <2> QED
    BY <1>1, <2>2
<1>4. \A one, other \in rows :
         one.namespace = other.namespace /\ one.key = other.key => one = other
  BY DEF RowsInv
<1> HIDE DEF laters
<1>5. \A other \in laters : other.key \in keys \ {row.key}
  BY <1>1, <1>2, <1>3, <1>4
<1>6. number \in [laters -> keys \ {row.key}]
  <2> HIDE DEF keys
  <2> QED
    BY <1>5
<1>7. number \in Injection(laters, keys \ {row.key})
  <2>1. \A one, other \in laters : number[one] = number[other] => one = other
    BY <1>1, <1>4
  <2> QED
    BY <1>6, <2>1 DEF Injection, IsInjective
<1>8. IsFiniteSet(1 .. MaxRuns) /\ Cardinality(1 .. MaxRuns) = MaxRuns /\ MaxRuns \in Nat
  BY SessionAssumption, FS_Interval
<1>9. IsFiniteSet(runs) /\ Cardinality(runs) <= MaxRuns
  <2> DEFINE name == [k \in 1 .. MaxRuns |-> EpisodeKey(k)]
  <2>1. name \in Surjection(1 .. MaxRuns, runs)
    BY DEF Surjection
  <2> HIDE DEF name, runs
  <2> QED
    BY <1>8, <2>1, FS_Surjection
<1>10. /\ IsFiniteSet(keys) /\ Cardinality(keys) \in Nat /\ Cardinality(Facts) \in Nat
       /\ Cardinality(keys) <= Cardinality(Facts) + MaxRuns
  <2> HIDE DEF runs
  <2>1. IsFiniteSet(Facts)
    BY SessionAssumption
  <2>2. /\ IsFiniteSet(keys)
        /\ Cardinality(keys) = Cardinality(Facts) + Cardinality(runs) - Cardinality(Facts \cap runs)
    BY <1>9, <2>1, FS_Union
  <2>3. IsFiniteSet(Facts \cap runs)
    BY <1>9, <2>1, FS_Intersection
  <2>4. /\ Cardinality(keys) \in Nat /\ Cardinality(Facts) \in Nat
        /\ Cardinality(runs) \in Nat /\ Cardinality(Facts \cap runs) \in Nat
    BY <1>9, <2>1, <2>2, <2>3, FS_CardinalityType
  <2> HIDE DEF keys
  <2> QED
    BY <1>8, <1>9, <2>2, <2>4
<1>11. row.key \in keys
  OBVIOUS
<1> HIDE DEF keys, number
<1>12. IsFiniteSet(keys \ {row.key}) /\ Cardinality(keys \ {row.key}) = Cardinality(keys) - 1
  BY <1>10, <1>11, FS_RemoveElement
<1>13. IsFiniteSet(laters) /\ Cardinality(laters) <= Cardinality(keys) - 1
  BY <1>7, <1>12, FS_Injection
<1>14. Cardinality(laters) < MaxRuns + Cardinality(Facts)
  <2>1. Cardinality(laters) \in Nat
    BY <1>13, FS_CardinalityType
  <2> QED
    BY <1>8, <1>10, <1>13, <2>1
<1>15. row \in episodes
  BY DEF Memories
<1> QED
  BY <1>14, <1>15 DEF RecentEpisodes, laters

LEMMA InvKeepsMemories ==
    ASSUME SessionTypes, RowsInv
    PROVE  MemoriesAreKept
<1>1. ASSUME NEW namespace \in Namespaces, NEW r \in 1 .. MaxRuns,
             remembered[namespace][r] # None
      PROVE  \E row \in Matching(namespace, EpisodeKey(r)) :
               LET told == remembered[namespace][r]
                   restored == FromMemoryRecord(row)
               IN /\ Matching(namespace, EpisodeKey(r)) = {row}
                  /\ row \in RecentEpisodes(namespace, MaxRuns + Cardinality(Facts))
                  /\ [restored EXCEPT !.decisions = << >>] = [told EXCEPT !.decisions = << >>]
                  /\ (\A i \in DOMAIN told.decisions : Len(told.decisions[i]) = 1)
                       => restored.decisions = told.decisions
  <2> DEFINE told == remembered[namespace][r]
  <2>1. told \in Episodes
    BY <1>1 DEF SessionTypes
  <2>2. PICK row \in Matching(namespace, EpisodeKey(r)) : row.content = Condensed(told)
    BY <1>1 DEF RowsInv
  <2> HIDE DEF told
  <2> DEFINE restored == FromMemoryRecord(row)
  <2>3. row \in rows /\ row.namespace = namespace /\ row.key = EpisodeKey(r)
    BY <2>2 DEF Matching
  <2>4. Matching(namespace, EpisodeKey(r)) = {row}
    BY <2>2, <2>3 DEF Matching, RowsInv
  <2>5. row.type = "episodic"
    BY <2>3, SessionAssumption DEF RowsInv
  <2>6. row \in RecentEpisodes(namespace, MaxRuns + Cardinality(Facts))
    BY <2>3, <2>5, EpisodesAreFew
  <2>7. restored = [id |-> told.id, run |-> told.run, outcome |-> told.outcome,
                    steps |-> told.steps, decisions |-> Split(Joined(told.decisions))]
    BY <2>2 DEF FromMemoryRecord, Condensed
  <2>8. [restored EXCEPT !.decisions = << >>] = [told EXCEPT !.decisions = << >>]
    <3>1. [restored EXCEPT !.decisions = << >>]
            = [id |-> told.id, run |-> told.run, outcome |-> told.outcome,
               steps |-> told.steps, decisions |-> << >>]
      BY <2>7
    <3>2. [told EXCEPT !.decisions = << >>]
            = [id |-> told.id, run |-> told.run, outcome |-> told.outcome,
               steps |-> told.steps, decisions |-> << >>]
      BY <2>1 DEF Episodes
    <3> QED
      BY <3>1, <3>2
  <2>9. told.decisions \in Seq(Seq(Parts))
    BY <2>1 DEF Episodes
  <2>10. (\A i \in DOMAIN told.decisions : Len(told.decisions[i]) = 1)
            => restored.decisions = told.decisions
    BY <2>7, <2>9, DecisionsRestored
  <2> QED
    BY <2>2, <2>4, <2>6, <2>8, <2>10 DEF told
<1>2. ASSUME NEW namespace \in Namespaces, NEW key \in Facts, committed[namespace][key] # None
      PROVE  {row.content : row \in Matching(namespace, key)} = {committed[namespace][key]}
  <2>1. PICK row \in Matching(namespace, key) : row.content = committed[namespace][key]
    BY <1>2 DEF RowsInv
  <2>2. Matching(namespace, key) = {row}
    BY <2>1 DEF Matching, RowsInv
  <2> QED
    BY <2>1, <2>2
<1> QED
  BY <1>1, <1>2 DEF MemoriesAreKept

-----------------------------------------------------------------------------
(* What the pipelines are given and return.                                *)

PrologueItems ==
    {Item("skill_instruction", 80, <<"skill">>, 1)}
      \cup {Item("retrieved_evidence", 70, <<"evidence">>, n) : n \in Nat}
      \cup {Item("long_term_memory", 60, <<"memories">>, n) : n \in Nat}

(* A search is answered by the pipeline, and the items that come before    *)
(* the conversation are of the three kinds the prologue adds.              *)
PipelineInv ==
    /\ hits \in Retrievals \cup {None}
    /\ context \in Seq(PrologueItems)
    /\ IsFiniteSet(rows)

LEMMA RetrievalsShape ==
    ASSUME NEW found \in Retrievals
    PROVE  /\ found.keyword \in Seq(Chunks) /\ Unique(found.keyword)
           /\ found.vector \in Seq(Chunks) /\ Unique(found.vector)
           /\ found.cited = Cited(found.keyword, found.vector)
           /\ Len(found.cited) \in Nat
<1>1. PICK search \in Searches(Chunks, SearchK) :
         found = [keyword |-> search[1], vector |-> search[2],
                  cited |-> Cited(search[1], search[2])]
  BY DEF Retrievals
<1> DEFINE keyword == search[1]
           vector == search[2]
<1>2. /\ keyword \in Seq(Chunks) /\ Unique(keyword)
      /\ vector \in Seq(Chunks) /\ Unique(vector)
  <2>1. CASE search = << << >>, << >> >>
    BY <2>1 DEF Unique
  <2>2. CASE search \in KeywordRankings(Chunks, SearchK) \X VectorRankings(Chunks, SearchK)
    <3>1. keyword \in Rankings(Chunks) /\ vector \in Rankings(Chunks)
      BY <2>2 DEF KeywordRankings, VectorRankings
    <3> QED
      BY <3>1, ChunksAssumption, RankingsAreUnique
  <2> QED
    BY <2>1, <2>2 DEF Searches
<1> HIDE DEF keyword, vector
<1>3. Cited(keyword, vector) \in Seq(Chunks)
  BY <1>2, CitedIsPrefix
<1>4. Len(Cited(keyword, vector)) \in Nat
  BY <1>3, LenProperties
<1>5. found.keyword = keyword /\ found.vector = vector /\ found.cited = Cited(keyword, vector)
  BY <1>1 DEF keyword, vector
<1> QED
  BY <1>2, <1>4, <1>5

LEMMA PrologueStepKeeps ==
    ASSUME PipelineInv, RunStep
    PROVE  PipelineInv'
<1>1. context \in Seq(PrologueItems) /\ rows' = rows
  BY DEF PipelineInv, RunStep, memoryVars
<1>2. \A n \in Nat : /\ Item("retrieved_evidence", 70, <<"evidence">>, n) \in PrologueItems
                     /\ Item("long_term_memory", 60, <<"memories">>, n) \in PrologueItems
  BY DEF PrologueItems
<1>3. Item("skill_instruction", 80, <<"skill">>, 1) \in PrologueItems
  BY DEF PrologueItems
<1> HIDE DEF PrologueItems
<1>4. CASE ActivateSkill
  <2> DEFINE skill == Item("skill_instruction", 80, <<"skill">>, 1)
  <2>1. hits' = hits /\ context' \in {<< >>, <<skill>>}
    BY <1>4 DEF ActivateSkill
  <2> HIDE DEF skill
  <2>2. context' \in Seq(PrologueItems)
    <3>1. skill \in PrologueItems
      BY <1>3 DEF skill
    <3>2. << >> \in Seq(PrologueItems) /\ <<skill>> \in Seq(PrologueItems)
      BY <3>1
    <3> QED
      BY <2>1, <3>2
  <2> QED
    BY <1>1, <2>1, <2>2 DEF PipelineInv
<1>5. CASE Retrieve
  <2>1. PICK found \in Retrievals :
          \/ hits' = found /\ context' = Append(context, Evidence(Len(found.cited)))
          \/ hits' = hits /\ context' = Append(context, Evidence(1))
    BY <1>5 DEF Retrieve
  <2>2. Evidence(Len(found.cited)) \in PrologueItems /\ Evidence(1) \in PrologueItems
    BY <1>2, RetrievalsShape DEF Evidence
  <2>3. context' \in Seq(PrologueItems)
    BY <1>1, <2>1, <2>2, AppendProperties
  <2>4. hits' \in Retrievals \cup {None}
    BY <2>1 DEF PipelineInv
  <2> QED
    BY <1>1, <2>3, <2>4 DEF PipelineInv
<1>6. CASE Recall
  <2> DEFINE n == Cardinality(Memories(Home))
  <2>1. n \in Nat
    BY FS_Subset, FS_CardinalityType DEF PipelineInv, Memories
  <2>2. /\ hits' = None
        /\ context' = IF n = 0 THEN context
                      ELSE Append(context, Item("long_term_memory", 60, <<"memories">>, n))
    BY <1>6 DEF Recall, ReadMemories
  <2> HIDE DEF n
  <2>3. context' \in Seq(PrologueItems)
    BY <1>1, <1>2, <2>1, <2>2, AppendProperties
  <2> QED
    BY <1>1, <2>2, <2>3 DEF PipelineInv
<1>7. CASE UNCHANGED <<context, hits>>
  BY <1>1, <1>7 DEF PipelineInv
<1>8. ActivateSkill \/ Retrieve \/ Recall \/ UNCHANGED <<context, hits>>
  BY DEF RunStep, NoPipeline, StopAtLimit, AssembleContext, ProviderFails, ProviderCalls,
         ProviderAnswers, ToolSucceeds, InvalidArguments, TransientError, ToolRaises,
         UnknownTool, RetriesExhausted, Observed, GoesOn, FailsRun
<1> QED
  BY <1>4, <1>5, <1>6, <1>7, <1>8

LEMMA PipelineInit == Init => PipelineInv
<1>1. Init => rows = {} /\ hits = None /\ context = << >>
  BY DEF Init
<1> QED
  BY <1>1, FS_EmptySet DEF PipelineInv

LEMMA UpsertFinite ==
    ASSUME RowsInv, IsFiniteSet(rows), NEW record
    PROVE  IsFiniteSet(Upserted(record))
<1> DEFINE old == Matching(record.namespace, record.key)
           updated(row) == [record EXCEPT !.id = row.id, !.type = row.type]
           new == {updated(row) : row \in old}
<1>1. IsFiniteSet(rows \ old)
  BY FS_Subset
<1>2. CASE old = {}
  <2>1. Upserted(record) = (rows \ old) \cup {record}
    BY <1>2 DEF Upserted
  <2> QED
    BY <1>1, <2>1, FS_AddElement
<1>3. CASE old # {}
  <2>1. PICK row \in old : TRUE
    BY <1>3
  <2>2. old = {row}
    BY <2>1 DEF Matching, RowsInv
  <2>3. Upserted(record) = (rows \ old) \cup new
    BY <1>3 DEF Upserted
  <2> HIDE DEF updated
  <2>4. new = {updated(row)}
    BY <2>2
  <2> DEFINE rest == rows \ old
  <2>5. Upserted(record) = rest \cup {updated(row)} /\ IsFiniteSet(rest)
    <3> HIDE DEF new, old
    <3> QED
      BY <1>1, <2>3, <2>4
  <2> HIDE DEF rest
  <2> QED
    BY <2>5, FS_AddElement
<1> QED
  BY <1>2, <1>3

LEMMA PipelineStep == Inv /\ PipelineInv /\ [Next]_vars => PipelineInv'
<1> SUFFICES ASSUME Inv, PipelineInv, [Next]_vars PROVE PipelineInv'
  OBVIOUS
<1>1. CASE UNCHANGED <<rows, hits, context>>
  BY <1>1 DEF PipelineInv
<1>2. CASE Begin \/ Close
  <2>1. rows' = rows /\ hits' \in {hits, None} /\ context' = << >>
    BY <1>2 DEF Begin, BeginRun, Close, memoryVars
  <2> QED
    BY <2>1 DEF PipelineInv
<1>3. CASE RunStep
  BY <1>3, PrologueStepKeeps
<1>4. ASSUME NEW record, PutMemory(record), UNCHANGED <<hits, context>>
      PROVE  PipelineInv'
  <2>1. IsFiniteSet(Upserted(record))
    BY UpsertFinite DEF Inv, PipelineInv
  <2>2. rows' = Upserted(record)
    BY <1>4 DEF PutMemory
  <2> QED
    BY <1>4, <2>1, <2>2 DEF PipelineInv
<1>5. ASSUME NEW namespace \in Namespaces, Remember(namespace) PROVE PipelineInv'
  <2>1. /\ PutMemory(ToMemoryRecord(episode, namespace))
        /\ UNCHANGED <<hits, context>>
    BY <1>5 DEF Remember, PutEpisode, loopVars
  <2> QED
    BY <1>4, <2>1
<1>6. ASSUME NEW namespace \in Namespaces, NEW key \in Facts,
             NEW kind \in {"fact", "noise", "instruction"},
             NEW type \in {"semantic", "episodic"}, CommitFact(namespace, key, kind, type)
      PROVE  PipelineInv'
  <2> DEFINE record == [id |-> <<"memory", clock>>, namespace |-> namespace, key |-> key,
                        type |-> type, content |-> clock, updated |-> clock]
  <2>1. PutMemory(record) /\ UNCHANGED <<hits, context>>
    BY <1>6 DEF CommitFact, InspectAndCommit, loopVars
  <2> QED
    BY <1>4, <2>1
<1>7. CASE Condense
  BY <1>1, <1>7 DEF Condense, loopVars, memoryVars
<1>8. CASE UNCHANGED vars
  BY <1>1, <1>8 DEF vars, loopVars, memoryVars
<1> QED
  BY <1>2, <1>3, <1>5, <1>6, <1>7, <1>8 DEF Next

(* Every search of a run cites what both rankings favour.                  *)
LEMMA HitsAreFused == PipelineInv => FusionRespectsRankings
<1> SUFFICES ASSUME hits \in Retrievals PROVE FusionRespectsRankings
  BY DEF PipelineInv, FusionRespectsRankings
<1>1. /\ hits.keyword \in Seq(Chunks) /\ Unique(hits.keyword)
      /\ hits.vector \in Seq(Chunks) /\ Unique(hits.vector)
      /\ hits.cited = Cited(hits.keyword, hits.vector)
  BY RetrievalsShape
<1>2. ASSUME NEW id \in Chunks, NEW other \in Chunks, id # other,
             RankedNoLower(hits.keyword, id, other), RankedNoLower(hits.vector, id, other),
             other \in Boosted => id \in Boosted, Contains(hits.cited, other)
      PROVE  /\ Contains(hits.cited, id)
             /\ Position(hits.cited, id) < Position(hits.cited, other)
  <2> DEFINE keyword == hits.keyword
             vector == hits.vector
             cited == hits.cited
  <2>1. /\ keyword \in Seq(Chunks) /\ Unique(keyword)
        /\ vector \in Seq(Chunks) /\ Unique(vector)
        /\ cited = Cited(keyword, vector)
        /\ RankedNoLower(keyword, id, other) /\ RankedNoLower(vector, id, other)
        /\ Contains(cited, other)
    BY <1>1, <1>2
  <2> HIDE DEF keyword, vector, cited
  <2>2. Contains(cited, id) /\ Position(cited, id) < Position(cited, other)
    BY <1>2, <2>1, CitedInOrder
  <2> QED
    BY <2>2 DEF cited
<1> QED
  BY <1>2 DEF FusionRespectsRankings

(* What a run submits to the assembler.                                    *)
SubmittedItems ==
    {CoreInstruction} \cup PrologueItems \cup {ItemOf(m) : m \in Messages}

LEMMA MessageItems ==
    ASSUME NEW m \in Messages
    PROVE  /\ ItemOf(m).priority \in {95, 40} /\ ItemOf(m).tokens \in Nat
           /\ ItemOf(m).text # <<"core">>
<1>1. ItemOf(m).priority \in {95, 40} /\ ItemOf(m).text = m.text /\ ItemOf(m).tokens = m.tokens
  BY DEF ItemOf, Item
<1>2. CASE m \in Users
  <2>1. PICK n \in Lengths : m = User(n)
    BY <1>2 DEF Users
  <2>2. m.text[1] = "said" /\ m.tokens = n
    BY <2>1 DEF User
  <2>3. m.text # <<"core">>
    BY <2>2
  <2>4. n \in Nat
    BY LoopAssumption
  <2> QED
    BY <1>1, <2>2, <2>3, <2>4
<1>3. CASE m \in Assistants
  <2>1. PICK n \in Lengths \cup {0}, turn \in 1 .. MaxSteps, count \in 0 .. MaxCalls,
             rationale \in Rationales : m = Assistant(n, Calls(turn, count), rationale)
    BY <1>3 DEF Assistants
  <2>2. m.text[1] = "said" /\ m.tokens = IF n = 0 THEN 1 ELSE n
    BY <2>1 DEF Assistant
  <2>3. m.text # <<"core">>
    BY <2>2
  <2>4. n \in Nat
    BY LoopAssumption
  <2> QED
    BY <1>1, <2>2, <2>3, <2>4
<1>4. CASE m \in Tools
  <2>1. PICK id \in Ids, ok \in BOOLEAN : m = Tool(id, ok)
    BY <1>4 DEF Tools
  <2>2. m.text[1] = "result" /\ m.tokens = 1
    BY <2>1 DEF Tool
  <2>3. m.text # <<"core">>
    BY <2>2
  <2> QED
    BY <1>1, <2>2, <2>3
<1> QED
  BY <1>2, <1>3, <1>4 DEF Messages

LEMMA SubmittedShape == Items(SubmittedItems, CoreInstruction)
<1>1. /\ CoreInstruction.priority = 100 /\ CoreInstruction.tokens \in Nat
      /\ CoreInstruction.text = <<"core">>
  BY LoopAssumption DEF CoreInstruction, Item
<1>2. ASSUME NEW item \in PrologueItems
      PROVE  /\ item.priority \in {60, 70, 80} /\ item.tokens \in Nat
             /\ item.text # <<"core">>
  <2>1. CASE item = Item("skill_instruction", 80, <<"skill">>, 1)
    <3>1. item.text[1] = "skill" /\ item.priority = 80 /\ item.tokens = 1
      BY <2>1 DEF Item
    <3>2. item.text # <<"core">>
      BY <3>1
    <3> QED
      BY <3>1, <3>2
  <2>2. ASSUME NEW n \in Nat, item = Item("retrieved_evidence", 70, <<"evidence">>, n)
        PROVE  /\ item.priority \in {60, 70, 80} /\ item.tokens \in Nat
               /\ item.text # <<"core">>
    <3>1. item.text[1] = "evidence" /\ item.priority = 70 /\ item.tokens = n
      BY <2>2 DEF Item
    <3>2. item.text # <<"core">>
      BY <3>1
    <3> QED
      BY <3>1, <3>2
  <2>3. ASSUME NEW n \in Nat, item = Item("long_term_memory", 60, <<"memories">>, n)
        PROVE  /\ item.priority \in {60, 70, 80} /\ item.tokens \in Nat
               /\ item.text # <<"core">>
    <3>1. item.text[1] = "memories" /\ item.priority = 60 /\ item.tokens = n
      BY <2>3 DEF Item
    <3>2. item.text # <<"core">>
      BY <3>1
    <3> QED
      BY <3>1, <3>2
  <2> QED
    BY <2>1, <2>2, <2>3 DEF PrologueItems
<1>3. ASSUME NEW item \in SubmittedItems
      PROVE  \/ item = CoreInstruction
             \/ /\ item.priority \in {40, 60, 70, 80, 95} /\ item.tokens \in Nat
                /\ item.text # <<"core">>
  <2>1. CASE item \in PrologueItems
    BY <1>2, <2>1
  <2>2. CASE item \in {ItemOf(m) : m \in Messages}
    <3>1. PICK m \in Messages : item = ItemOf(m)
      BY <2>2
    <3> QED
      BY <3>1, MessageItems
  <2> QED
    BY <2>1, <2>2 DEF SubmittedItems
<1>4. CoreInstruction \in SubmittedItems
  BY DEF SubmittedItems
<1> HIDE DEF SubmittedItems
<1> QED
  BY <1>1, <1>3, <1>4 DEF Items, IsSystem

LEMMA SubmittedTyped ==
    ASSUME LoopInv, PipelineInv
    PROVE  /\ Submitted \in Seq(SubmittedItems)
           /\ \E k \in 1 .. Len(Submitted) : Submitted[k] = CoreInstruction
<1> DEFINE S == SubmittedItems
           first == Append(context, CoreInstruction)
           second == [i \in DOMAIN messages |-> ItemOf(messages[i])]
           n == Len(context)
<1>1. /\ messages \in Seq(Messages) /\ Len(messages) \in Nat
      /\ DOMAIN messages = 1 .. Len(messages)
      /\ \A i \in 1 .. Len(messages) : messages[i] \in Messages
  BY ElementOfSeq, LenProperties DEF LoopInv, LoopTypes
<1>2. context \in Seq(S) /\ CoreInstruction \in S
  BY DEF PipelineInv, SubmittedItems
<1>3. \A m \in Messages : ItemOf(m) \in S
  BY DEF SubmittedItems
<1> HIDE DEF S
<1>4. second \in Seq(S)
  <2>1. \A i \in 1 .. Len(messages) : ItemOf(messages[i]) \in S
    BY <1>1, <1>3
  <2> QED
    BY <1>1, <2>1, IsASeq
<1>5. /\ first \in Seq(S) /\ Len(first) = n + 1 /\ first[n + 1] = CoreInstruction
      /\ n \in Nat
  BY <1>2, AppendProperties, LenProperties
<1>6. Submitted = first \o second
  BY DEF Submitted
<1> HIDE DEF first, second
<1>7. /\ first \o second \in Seq(S) /\ Len(first \o second) = Len(first) + Len(second)
      /\ \A i \in 1 .. Len(first) : (first \o second)[i] = first[i]
  <2>1. first \in Seq(S) /\ second \in Seq(S)
    BY <1>4, <1>5
  <2> DEFINE all == first \o second
  <2>2. /\ all \in Seq(S) /\ Len(all) = Len(first) + Len(second)
        /\ \A i \in 1 .. Len(first) : all[i] = first[i]
    BY <2>1, ConcatProperties
  <2> HIDE DEF all
  <2> QED
    BY <2>2 DEF all
<1>8. Len(second) \in Nat
  BY <1>4, LenProperties
<1>9. n + 1 \in 1 .. Len(first) /\ n + 1 \in 1 .. Len(first \o second)
  <2> HIDE DEF n
  <2> QED
    BY <1>5, <1>7, <1>8
<1> QED
  BY <1>5, <1>6, <1>7, <1>9 DEF S

(* Whatever a run has piled up, what it submits is assembled soundly.      *)
LEMMA BundlesAreSound == LoopInv /\ PipelineInv => ContextIsSound
<1> SUFFICES ASSUME LoopInv, PipelineInv PROVE ContextIsSound
  OBVIOUS
<1>1. Sound(CoreInstruction, Submitted, Bundle)
  BY SubmittedShape, SubmittedTyped, AssembledIsSound DEF Bundle
<1> QED
  BY <1>1 DEF ContextIsSound, Sound

-----------------------------------------------------------------------------
(* The theorems.                                                           *)

(* The session invariant holds throughout every sequence of runs.          *)
THEOREM SessionInvariance == Spec => []Inv
<1>1. Init => Inv
  BY InitInv
<1>2. Inv /\ [Next]_vars => Inv'
  BY StepInv
<1> QED
  BY <1>1, <1>2, PTL DEF Spec

(* The loop, the session and the clock keep their types: no run counts     *)
(* more turns than its limit or tries a tool more often than it may.       *)
THEOREM SessionTypeCorrect == Spec => []TypeOK
<1>1. Inv => TypeOK
  BY InvTypes DEF Inv
<1> QED
  BY <1>1, SessionInvariance, PTL

(* Whichever exit AgentRuntime.run takes, the status, the stop reason, the *)
(* answer and the last step of the trajectory agree, and a run that goes   *)
(* on reports none of them.                                                *)
THEOREM OutcomesAgree == Spec => []OutcomeIsConsistent
<1>1. Inv => OutcomeIsConsistent
  BY DEF Inv, LoopInv
<1> QED
  BY <1>1, SessionInvariance, PTL

(* However many calls a reply makes and however they end, the messages     *)
(* after it are their results in order, complete unless the run is at them *)
(* or failed at one, and results and action steps correspond one to one.   *)
THEOREM CallsAreAnswered == Spec => []EveryCallIsAnswered
<1>1. Inv => EveryCallIsAnswered
  BY LoopInvAnswers DEF Inv
<1> QED
  BY <1>1, SessionInvariance, PTL

(* A remembered run is restored from its own single row, with exactly its  *)
(* decisions where none contains the separator, and a committed fact is    *)
(* the last one committed under its key, in every namespace and whatever   *)
(* else was written.                                                       *)
THEOREM MemoriesStay == Spec => []MemoriesAreKept
<1>1. Inv => MemoriesAreKept
  BY InvKeepsMemories DEF Inv
<1> QED
  BY <1>1, SessionInvariance, PTL

(* Searches are answered by the fused rankings, and the prologue adds only *)
(* its three kinds of items, throughout every sequence of runs.            *)
THEOREM PipelineInvariance == Spec => []PipelineInv
<1>1. Spec => []Inv
  BY SessionInvariance
<1> QED
  BY <1>1, PipelineInit, PipelineStep, PTL DEF Spec

(* Whatever two rankings the searches return, for any number of chunks and *)
(* any top_k, a chunk that both place no lower than a cited one, and that  *)
(* is boosted if that one is, is cited before it.                          *)
THEOREM FusionStaysInOrder == Spec => []FusionRespectsRankings
<1> QED
  BY HitsAreFused, PipelineInvariance, PTL

(* Whatever a run has piled up, and for every budget, cut and reordering   *)
(* threshold, the bundle the provider is given begins with the core        *)
(* instruction, exceeds the budget by nothing else, accounts for every     *)
(* submitted item once, and dropped nothing that fitted beside the items   *)
(* of the same or a higher priority.                                       *)
THEOREM ContextStaysSound == Spec => []ContextIsSound
<1>1. Inv /\ PipelineInv => ContextIsSound
  BY BundlesAreSound DEF Inv
<1> QED
  BY <1>1, SessionInvariance, PipelineInvariance, PTL

=============================================================================
