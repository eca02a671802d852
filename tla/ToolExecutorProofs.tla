------------------------- MODULE ToolExecutorProofs -------------------------
(***************************************************************************)
(* Proofs about ToolExecutor for every number of batches, calls, permits   *)
(* and threads.                                                            *)
(***************************************************************************)
EXTENDS ToolExecutor, FiniteSetTheorems, TLAPS

(* TypeOK without the range of the permits, which takes the balance.       *)
Types ==
    /\ asks \in [Calls -> Asks]
    /\ batch \in [Batches -> {"none", "running", "cancelling", "returned"}]
    /\ task \in [Calls -> {"none", "waiting", "inside", "done", "cancelled"}]
    /\ permits \in Nat
    /\ thread \in [Calls -> {"none", "queued", "running", "checked", "ended", "dropped"}]
    /\ outcome \in [Calls -> Outcomes \cup {"none"}]
    /\ seen \subseteq Operations
    /\ results \in [Calls -> Outcomes \cup {"none", "timeout"}]

(* How far a call is, by how far its batch is. *)
Stage(c) ==
    /\ batch[c[1]] = "none" <=> task[c] = "none"
    /\ batch[c[1]] = "running" => task[c] # "cancelled"
    /\ batch[c[1]] = "returned" => Ended(c)
    /\ batch[c[1]] = "returned" <=> results[c] # "none"

(* How far its thread is, by how far its task is. *)
Work(c) ==
    /\ task[c] \in {"none", "waiting"} => thread[c] = "none"
    /\ task[c] = "inside" => thread[c] \in {"queued", "running", "checked", "ended"}
    /\ task[c] = "done" => thread[c] \in {"none", "ended"} /\ outcome[c] # "none"
    /\ task[c] = "cancelled" => thread[c] # "queued"
    /\ task[c] \in {"none", "waiting"} => outcome[c] = "none"
    /\ thread[c] = "ended" => outcome[c] # "none"
    /\ outcome[c] # "none" => thread[c] \in {"none", "ended"}
    /\ thread[c] = "checked" => asks[c] \in Operations

(* What its caller is told. *)
Told(c) ==
    results[c] \notin {"none", "timeout"} =>
        results[c] = outcome[c] /\ task[c] = "done"

(* The operations in the set are those a call has committed. *)
Writes ==
    /\ \A c \in Calls : outcome[c] = "skipped" => asks[c] \in seen
    /\ \A op \in seen : \E d \in Calls : asks[d] = op /\ outcome[d] = "committed"

Balance == permits + Cardinality(Inside) = MaxConcurrency

CallsInv == \A c \in Calls : Stage(c) /\ Work(c) /\ Told(c)

Inv == Types /\ CallsInv /\ Writes /\ Balance

-----------------------------------------------------------------------------
(* Calls and their batches.                                                *)

LEMMA CallParts ==
    ASSUME NEW c \in Calls
    PROVE  c[1] \in Batches /\ c[2] \in Slots /\ c = <<c[1], c[2]>>
BY DEF Calls

(* The calls of a batch are those with its name. *)
LEMMA CallsOfBatch ==
    ASSUME NEW b \in Batches
    PROVE  /\ CallsOf(b) \subseteq Calls
           /\ \A c \in Calls : c \in CallsOf(b) <=> c[1] = b
BY DEF Calls, CallsOf

(* Permits and the calls that hold one, as calls enter and leave.          *)
LEMMA InsideIsFinite ==
    /\ IsFiniteSet(Inside) /\ Cardinality(Inside) \in Nat
    /\ IsFiniteSet(Inside') /\ Cardinality(Inside') \in Nat
<1>1. IsFiniteSet(Calls)
  BY PermitsAssumption DEF Calls
<1>2. Inside \subseteq Calls /\ Inside' \subseteq Calls
  BY DEF Inside, Calls
<1> QED
  BY <1>1, <1>2, FS_Subset, FS_CardinalityType

LEMMA KeepBalance ==
    ASSUME Balance, UNCHANGED permits,
           \A d \in Calls : task[d] = "inside" <=> task'[d] = "inside"
    PROVE  Balance'
<1>1. Inside' = Inside
  BY DEF Inside, Calls
<1> QED
  BY <1>1 DEF Balance

(* A call that enters takes one permit. *)
LEMMA EnterBalance ==
    ASSUME Balance, permits \in Nat, NEW c \in Calls, permits' = permits - 1,
           task[c] # "inside", task'[c] = "inside",
           \A d \in Calls \ {c} : task'[d] = task[d]
    PROVE  Balance'
<1>1. Inside' = Inside \cup {c} /\ c \notin Inside
  BY DEF Inside, Calls
<1>2. Cardinality(Inside') = Cardinality(Inside) + 1
  BY <1>1, InsideIsFinite, FS_AddElement
<1> QED
  BY <1>2, InsideIsFinite, PermitsAssumption DEF Balance

(* A call that leaves gives its permit back. *)
LEMMA LeaveBalance ==
    ASSUME Balance, permits \in Nat, NEW c \in Calls, permits' = permits + 1,
           task[c] = "inside", task'[c] # "inside",
           \A d \in Calls \ {c} : task'[d] = task[d]
    PROVE  Balance'
<1>1. Inside' = Inside \ {c} /\ c \in Inside
  BY DEF Inside, Calls
<1>2. Cardinality(Inside') = Cardinality(Inside) - 1
  BY <1>1, InsideIsFinite, FS_RemoveElement
<1> QED
  BY <1>2, InsideIsFinite, PermitsAssumption DEF Balance

(* A call that ends adds to the set what it commits and nothing else.      *)
LEMMA EndKeepsWrites ==
    ASSUME Types, Writes, NEW c \in Calls, outcome[c] = "none", NEW how \in Outcomes,
           outcome' = [outcome EXCEPT ![c] = how], asks' = asks,
           how = "skipped" => asks[c] \in seen,
           seen' = IF how = "committed" THEN seen \cup {asks[c]} ELSE seen
    PROVE  Writes'
<1>1. outcome'[c] = how /\ \A d \in Calls \ {c} : outcome'[d] = outcome[d]
  BY DEF Types
<1>2. \A d \in Calls : outcome'[d] = "skipped" => asks'[d] \in seen'
  BY <1>1 DEF Writes
<1>3. \A op \in seen' : \E d \in Calls : asks'[d] = op /\ outcome'[d] = "committed"
  BY <1>1 DEF Writes
<1> QED
  BY <1>2, <1>3 DEF Writes

-----------------------------------------------------------------------------
(* The steps.                                                              *)

LEMMA InitInv == Init => Inv
<1> SUFFICES ASSUME Init PROVE Inv
  OBVIOUS
<1>1. Types
  BY PermitsAssumption DEF Init, Types, Asks
<1>2. CallsInv
  BY CallParts DEF Init, CallsInv, Stage, Work, Told, Ended
<1>3. Writes
  BY DEF Init, Writes
<1>4. Balance
  <2>1. Inside = {}
    BY DEF Init, Inside
  <2> QED
    BY <2>1, FS_EmptySet, PermitsAssumption DEF Init, Balance
<1> QED
  BY <1>1, <1>2, <1>3, <1>4 DEF Inv

(* A new batch sets its calls waiting; none of them had begun. *)
LEMMA SubmitInv ==
    ASSUME Inv, NEW b \in Batches, Submit(b)
    PROVE  Inv'
<1>1. PICK wanted \in [Slots -> Asks] :
          asks' = [c \in Calls |-> IF c \in CallsOf(b) THEN wanted[c[2]] ELSE asks[c]]
  BY DEF Submit
<1>2. \A c \in Calls : c[1] \in Batches /\ c[2] \in Slots
  BY CallParts
<1>3. \A c \in Calls : c \in CallsOf(b) <=> c[1] = b
  BY CallsOfBatch
<1>4. Types'
  BY <1>1, <1>2 DEF Inv, Types, Submit, poolVars
<1>5. CallsInv'
  <2> SUFFICES ASSUME NEW c \in Calls PROVE (Stage(c) /\ Work(c) /\ Told(c))'
    BY DEF CallsInv
  <2>1. Stage(c) /\ Work(c) /\ Told(c)
    BY DEF Inv, CallsInv
  <2>2. CASE c[1] = b
    BY <1>1, <1>2, <1>3, <2>1, <2>2
       DEF Inv, Types, Submit, Stage, Work, Told, Ended, poolVars
  <2>3. CASE c[1] # b
    BY <1>1, <1>2, <1>3, <2>1, <2>3
       DEF Inv, Types, Submit, Stage, Work, Told, Ended, poolVars
  <2> QED
    BY <2>2, <2>3
<1>6. Writes'
  <2>1. \A c \in Calls : outcome[c] # "none" => asks'[c] = asks[c]
    BY <1>1, <1>2, <1>3 DEF Inv, CallsInv, Stage, Work, Submit
  <2> QED
    BY <2>1 DEF Inv, Writes, Submit, poolVars
<1>7. Balance'
  BY <1>2, <1>3, KeepBalance DEF Inv, CallsInv, Stage, Submit
<1> QED
  BY <1>4, <1>5, <1>6, <1>7 DEF Inv

(* Entering. *)
LEMMA AcquireInv ==
    ASSUME Inv, NEW c \in Calls, Acquire(c)
    PROVE  Inv'
<1>1. \A d \in Calls : d[1] \in Batches
  BY CallParts
<1>2. Types'
  BY DEF Inv, Types, Outcomes, Acquire, MayEnter
<1>3. CallsInv'
  <2> SUFFICES ASSUME NEW d \in Calls PROVE (Stage(d) /\ Work(d) /\ Told(d))'
    BY DEF CallsInv
  <2>1. Stage(d) /\ Work(d) /\ Told(d)
    BY DEF Inv, CallsInv
  <2>2. CASE d = c
    BY <1>1, <2>1, <2>2
       DEF Inv, Types, Stage, Work, Told, Ended, Outcomes, Acquire, MayEnter
  <2>3. CASE d # c
    BY <1>1, <2>1, <2>3
       DEF Inv, Types, Stage, Work, Told, Ended, Outcomes, Acquire, MayEnter
  <2> QED
    BY <2>2, <2>3
<1>4. Writes'
  BY DEF Inv, Types, Writes, Acquire, MayEnter
<1>5. Balance'
  BY EnterBalance DEF Inv, Types, Acquire, MayEnter
<1> QED
  BY <1>2, <1>3, <1>4, <1>5 DEF Inv

(* A call that names no tool ends within one step, its permit back. *)
LEMMA UnknownToolInv ==
    ASSUME Inv, NEW c \in Calls, UnknownTool(c)
    PROVE  Inv'
<1>1. \A d \in Calls : d[1] \in Batches
  BY CallParts
<1>2. Types'
  BY DEF Inv, Types, Outcomes, UnknownTool, MayEnter
<1>3. CallsInv'
  <2> SUFFICES ASSUME NEW d \in Calls PROVE (Stage(d) /\ Work(d) /\ Told(d))'
    BY DEF CallsInv
  <2>1. Stage(d) /\ Work(d) /\ Told(d)
    BY DEF Inv, CallsInv
  <2>2. CASE d = c
    BY <1>1, <2>1, <2>2
       DEF Inv, Types, Stage, Work, Told, Ended, Outcomes, UnknownTool, MayEnter
  <2>3. CASE d # c
    BY <1>1, <2>1, <2>3
       DEF Inv, Types, Stage, Work, Told, Ended, Outcomes, UnknownTool, MayEnter
  <2> QED
    BY <2>2, <2>3
<1>4. Writes'
  <2>1. outcome[c] = "none"
    BY DEF Inv, CallsInv, Work, UnknownTool, MayEnter
  <2> QED
    BY <2>1, EndKeepsWrites DEF Inv, Outcomes, UnknownTool, MayEnter
<1>5. Balance'
  BY KeepBalance DEF Inv, Types, UnknownTool, MayEnter
<1> QED
  BY <1>2, <1>3, <1>4, <1>5 DEF Inv

(* Leaving, with the thread ended. *)
LEMMA TaskResumesInv ==
    ASSUME Inv, NEW c \in Calls, TaskResumes(c)
    PROVE  Inv'
<1>1. \A d \in Calls : d[1] \in Batches
  BY CallParts
<1>2. Types'
  BY DEF Inv, Types, Outcomes, TaskResumes, poolVars
<1>3. CallsInv'
  <2> SUFFICES ASSUME NEW d \in Calls PROVE (Stage(d) /\ Work(d) /\ Told(d))'
    BY DEF CallsInv
  <2>1. Stage(d) /\ Work(d) /\ Told(d)
    BY DEF Inv, CallsInv
  <2>2. CASE d = c
    BY <1>1, <2>1, <2>2
       DEF Inv, Types, Stage, Work, Told, Ended, Outcomes, TaskResumes, poolVars
  <2>3. CASE d # c
    BY <1>1, <2>1, <2>3
       DEF Inv, Types, Stage, Work, Told, Ended, Outcomes, TaskResumes, poolVars
  <2> QED
    BY <2>2, <2>3
<1>4. Writes'
  BY DEF Inv, Types, Writes, TaskResumes, poolVars
<1>5. Balance'
  BY LeaveBalance DEF Inv, Types, TaskResumes, poolVars
<1> QED
  BY <1>2, <1>3, <1>4, <1>5 DEF Inv

(* A thread begins on work a task waits for. *)
LEMMA PoolStartsInv ==
    ASSUME Inv, NEW c \in Calls, PoolStarts(c)
    PROVE  Inv'
<1>1. \A d \in Calls : d[1] \in Batches
  BY CallParts
<1>2. Types'
  BY DEF Inv, Types, Outcomes, PoolStarts, taskVars
<1>3. CallsInv'
  <2> SUFFICES ASSUME NEW d \in Calls PROVE (Stage(d) /\ Work(d) /\ Told(d))'
    BY DEF CallsInv
  <2>1. Stage(d) /\ Work(d) /\ Told(d)
    BY DEF Inv, CallsInv
  <2>2. CASE d = c
    BY <1>1, <2>1, <2>2
       DEF Inv, Types, Stage, Work, Told, Ended, Outcomes, PoolStarts, taskVars
  <2>3. CASE d # c
    BY <1>1, <2>1, <2>3
       DEF Inv, Types, Stage, Work, Told, Ended, Outcomes, PoolStarts, taskVars
  <2> QED
    BY <2>2, <2>3
<1>4. Writes'
  BY DEF Inv, Types, Writes, PoolStarts, taskVars
<1>5. Balance'
  BY KeepBalance DEF Inv, Types, PoolStarts, taskVars
<1> QED
  BY <1>2, <1>3, <1>4, <1>5 DEF Inv

(* The ways a thread goes on and ends. *)
LEMMA ToolRaisesInv ==
    ASSUME Inv, NEW c \in Calls, ToolRaises(c)
    PROVE  Inv'
<1>1. \A d \in Calls : d[1] \in Batches
  BY CallParts
<1>2. Types'
  BY DEF Inv, Types, Outcomes, ToolRaises, Ends, taskVars
<1>3. CallsInv'
  <2> SUFFICES ASSUME NEW d \in Calls PROVE (Stage(d) /\ Work(d) /\ Told(d))'
    BY DEF CallsInv
  <2>1. Stage(d) /\ Work(d) /\ Told(d)
    BY DEF Inv, CallsInv
  <2>2. CASE d = c
    BY <1>1, <2>1, <2>2
       DEF Inv, Types, Stage, Work, Told, Ended, Outcomes, ToolRaises, Ends,
           taskVars
  <2>3. CASE d # c
    BY <1>1, <2>1, <2>3
       DEF Inv, Types, Stage, Work, Told, Ended, Outcomes, ToolRaises, Ends,
           taskVars
  <2> QED
    BY <2>2, <2>3
<1>4. Writes'
  <2>1. outcome[c] = "none"
    BY DEF Inv, CallsInv, Work, ToolRaises
  <2> QED
    BY <2>1, EndKeepsWrites DEF Inv, Outcomes, ToolRaises, Ends
<1>5. Balance'
  BY KeepBalance DEF Inv, Types, ToolRaises, Ends, taskVars
<1> QED
  BY <1>2, <1>3, <1>4, <1>5 DEF Inv

LEMMA ToolSkipsInv ==
    ASSUME Inv, NEW c \in Calls, ToolSkips(c)
    PROVE  Inv'
<1>1. \A d \in Calls : d[1] \in Batches
  BY CallParts
<1>2. Types'
  BY DEF Inv, Types, Outcomes, ToolSkips, Ends, taskVars
<1>3. CallsInv'
  <2> SUFFICES ASSUME NEW d \in Calls PROVE (Stage(d) /\ Work(d) /\ Told(d))'
    BY DEF CallsInv
  <2>1. Stage(d) /\ Work(d) /\ Told(d)
    BY DEF Inv, CallsInv
  <2>2. CASE d = c
    BY <1>1, <2>1, <2>2
       DEF Inv, Types, Stage, Work, Told, Ended, Outcomes, ToolSkips, Ends, taskVars
  <2>3. CASE d # c
    BY <1>1, <2>1, <2>3
       DEF Inv, Types, Stage, Work, Told, Ended, Outcomes, ToolSkips, Ends, taskVars
  <2> QED
    BY <2>2, <2>3
<1>4. Writes'
  <2>1. outcome[c] = "none"
    BY DEF Inv, CallsInv, Work, ToolSkips
  <2> QED
    BY <2>1, EndKeepsWrites DEF Inv, Outcomes, ToolSkips, Ends
<1>5. Balance'
  BY KeepBalance DEF Inv, Types, ToolSkips, Ends, taskVars
<1> QED
  BY <1>2, <1>3, <1>4, <1>5 DEF Inv

LEMMA ToolChecksInv ==
    ASSUME Inv, NEW c \in Calls, ToolChecks(c)
    PROVE  Inv'
<1>1. \A d \in Calls : d[1] \in Batches
  BY CallParts
<1>2. Types'
  BY DEF Inv, Types, Outcomes, ToolChecks, taskVars
<1>3. CallsInv'
  <2> SUFFICES ASSUME NEW d \in Calls PROVE (Stage(d) /\ Work(d) /\ Told(d))'
    BY DEF CallsInv
  <2>1. Stage(d) /\ Work(d) /\ Told(d)
    BY DEF Inv, CallsInv
  <2>2. CASE d = c
    BY <1>1, <2>1, <2>2
       DEF Inv, Types, Stage, Work, Told, Ended, Outcomes, ToolChecks, taskVars
  <2>3. CASE d # c
    BY <1>1, <2>1, <2>3
       DEF Inv, Types, Stage, Work, Told, Ended, Outcomes, ToolChecks, taskVars
  <2> QED
    BY <2>2, <2>3
<1>4. Writes'
  BY DEF Inv, Types, Writes, ToolChecks, taskVars
<1>5. Balance'
  BY KeepBalance DEF Inv, Types, ToolChecks, taskVars
<1> QED
  BY <1>2, <1>3, <1>4, <1>5 DEF Inv

LEMMA ToolCommitsInv ==
    ASSUME Inv, NEW c \in Calls, ToolCommits(c)
    PROVE  Inv'
<1>1. \A d \in Calls : d[1] \in Batches
  BY CallParts
<1>2. Types'
  BY DEF Inv, Types, CallsInv, Work, Outcomes, ToolCommits, Ends, taskVars
<1>3. CallsInv'
  <2> SUFFICES ASSUME NEW d \in Calls PROVE (Stage(d) /\ Work(d) /\ Told(d))'
    BY DEF CallsInv
  <2>1. Stage(d) /\ Work(d) /\ Told(d)
    BY DEF Inv, CallsInv
  <2>2. CASE d = c
    BY <1>1, <2>1, <2>2
       DEF Inv, Types, Stage, Work, Told, Ended, Outcomes, ToolCommits, Ends,
           taskVars
  <2>3. CASE d # c
    BY <1>1, <2>1, <2>3
       DEF Inv, Types, Stage, Work, Told, Ended, Outcomes, ToolCommits, Ends,
           taskVars
  <2> QED
    BY <2>2, <2>3
<1>4. Writes'
  <2>1. outcome[c] = "none"
    BY DEF Inv, CallsInv, Work, ToolCommits
  <2> QED
    BY <2>1, EndKeepsWrites DEF Inv, Outcomes, ToolCommits, Ends
<1>5. Balance'
  BY KeepBalance DEF Inv, Types, ToolCommits, Ends, taskVars
<1> QED
  BY <1>2, <1>3, <1>4, <1>5 DEF Inv

(* The results are the calls' own outcomes, which are all there. *)
LEMMA BatchReturnsInv ==
    ASSUME Inv, NEW b \in Batches, BatchReturns(b)
    PROVE  Inv'
<1>1. \A d \in Calls : d[1] \in Batches
  BY CallParts
<1>2. \A c \in Calls : c \in CallsOf(b) <=> c[1] = b
  BY CallsOfBatch
<1>3. Types'
  BY <1>1, <1>2 DEF Inv, Types, Outcomes, BatchReturns, Gathered, poolVars
<1>4. CallsInv'
  <2> SUFFICES ASSUME NEW d \in Calls PROVE (Stage(d) /\ Work(d) /\ Told(d))'
    BY DEF CallsInv
  <2>1. Stage(d) /\ Work(d) /\ Told(d)
    BY DEF Inv, CallsInv
  <2>2. CASE d[1] = b
    BY <1>1, <1>2, <2>1, <2>2
       DEF Inv, Types, Stage, Work, Told, Ended, Outcomes, BatchReturns, Gathered,
           poolVars
  <2>3. CASE d[1] # b
    BY <1>1, <1>2, <2>1, <2>3
       DEF Inv, Types, Stage, Work, Told, Ended, Outcomes, BatchReturns, Gathered,
           poolVars
  <2> QED
    BY <2>2, <2>3
<1>5. Writes'
  BY DEF Inv, Types, Writes, BatchReturns, Gathered, poolVars
<1>6. Balance'
  BY KeepBalance DEF Inv, Types, BatchReturns, Gathered, poolVars
<1> QED
  BY <1>3, <1>4, <1>5, <1>6 DEF Inv

(* A batch that timed out can cancel its calls. *)
LEMMA TimeoutFiresInv ==
    ASSUME Inv, NEW b \in Batches, TimeoutFires(b)
    PROVE  Inv'
<1>1. \A d \in Calls : d[1] \in Batches
  BY CallParts
<1>2. \A c \in Calls : c \in CallsOf(b) <=> c[1] = b
  BY CallsOfBatch
<1>3. Types'
  BY <1>1, <1>2 DEF Inv, Types, Outcomes, TimeoutFires, poolVars
<1>4. CallsInv'
  <2> SUFFICES ASSUME NEW d \in Calls PROVE (Stage(d) /\ Work(d) /\ Told(d))'
    BY DEF CallsInv
  <2>1. Stage(d) /\ Work(d) /\ Told(d)
    BY DEF Inv, CallsInv
  <2>2. CASE d[1] = b
    BY <1>1, <1>2, <2>1, <2>2
       DEF Inv, Types, Stage, Work, Told, Ended, Outcomes, TimeoutFires, poolVars
  <2>3. CASE d[1] # b
    BY <1>1, <1>2, <2>1, <2>3
       DEF Inv, Types, Stage, Work, Told, Ended, Outcomes, TimeoutFires, poolVars
  <2> QED
    BY <2>2, <2>3
<1>5. Writes'
  BY DEF Inv, Types, Writes, TimeoutFires, poolVars
<1>6. Balance'
  BY KeepBalance DEF Inv, Types, TimeoutFires, poolVars
<1> QED
  BY <1>3, <1>4, <1>5, <1>6 DEF Inv

(* A batch that gives up tells every call it timed out. *)
LEMMA GiveUpInv ==
    ASSUME Inv, NEW b \in Batches, GiveUp(b)
    PROVE  Inv'
<1>1. \A d \in Calls : d[1] \in Batches
  BY CallParts
<1>2. \A c \in Calls : c \in CallsOf(b) <=> c[1] = b
  BY CallsOfBatch
<1>3. Types'
  BY <1>1, <1>2 DEF Inv, Types, Outcomes, GiveUp, poolVars
<1>4. CallsInv'
  <2> SUFFICES ASSUME NEW d \in Calls PROVE (Stage(d) /\ Work(d) /\ Told(d))'
    BY DEF CallsInv
  <2>1. Stage(d) /\ Work(d) /\ Told(d)
    BY DEF Inv, CallsInv
  <2>2. CASE d[1] = b
    BY <1>1, <1>2, <2>1, <2>2
       DEF Inv, Types, Stage, Work, Told, Ended, Outcomes, GiveUp, poolVars
  <2>3. CASE d[1] # b
    BY <1>1, <1>2, <2>1, <2>3
       DEF Inv, Types, Stage, Work, Told, Ended, Outcomes, GiveUp, poolVars
  <2> QED
    BY <2>2, <2>3
<1>5. Writes'
  BY DEF Inv, Types, Writes, GiveUp, poolVars
<1>6. Balance'
  BY KeepBalance DEF Inv, Types, GiveUp, poolVars
<1> QED
  BY <1>3, <1>4, <1>5, <1>6 DEF Inv

(* A cancelled call gives a permit back if it held one, and leaves no work *)
(* in the queue.                                                           *)
LEMMA TaskCancelledInv ==
    ASSUME Inv, NEW c \in Calls, TaskCancelled(c)
    PROVE  Inv'
<1>1. \A d \in Calls : d[1] \in Batches
  BY CallParts
<1>2. Types'
  BY DEF Inv, Types, Outcomes, TaskCancelled, Cancellable, PermitsAfter, Dropped
<1>3. CallsInv'
  <2> SUFFICES ASSUME NEW d \in Calls PROVE (Stage(d) /\ Work(d) /\ Told(d))'
    BY DEF CallsInv
  <2>1. Stage(d) /\ Work(d) /\ Told(d)
    BY DEF Inv, CallsInv
  <2>2. CASE d = c
    BY <1>1, <2>1, <2>2
       DEF Inv, Types, Stage, Work, Told, Ended, Outcomes, TaskCancelled,
           Cancellable, PermitsAfter, Dropped
  <2>3. CASE d # c
    BY <1>1, <2>1, <2>3
       DEF Inv, Types, Stage, Work, Told, Ended, Outcomes, TaskCancelled,
           Cancellable, PermitsAfter, Dropped
  <2> QED
    BY <2>2, <2>3
<1>4. Writes'
  BY DEF Inv, Types, Writes, TaskCancelled, Cancellable, PermitsAfter, Dropped
<1>5. Balance'
  BY KeepBalance, LeaveBalance
     DEF Inv, Types, TaskCancelled, Cancellable, PermitsAfter, Dropped
<1> QED
  BY <1>2, <1>3, <1>4, <1>5 DEF Inv

(* Every step keeps the invariant. *)
LEMMA NextInv == Inv /\ [Next]_vars => Inv'
<1> SUFFICES ASSUME Inv, [Next]_vars PROVE Inv'
  OBVIOUS
<1>1. ASSUME NEW b \in Batches, Submit(b) \/ BatchStep(b) PROVE Inv'
  BY <1>1, SubmitInv, BatchReturnsInv, TimeoutFiresInv, GiveUpInv DEF BatchStep
<1>2. ASSUME NEW c \in Calls, TaskStep(c) PROVE Inv'
  BY <1>2, AcquireInv, UnknownToolInv, TaskResumesInv, TaskCancelledInv DEF TaskStep
<1>3. ASSUME NEW c \in Calls, PoolStarts(c) \/ ToolStep(c) PROVE Inv'
  BY <1>3, PoolStartsInv, ToolRaisesInv, ToolSkipsInv, ToolChecksInv, ToolCommitsInv
     DEF ToolStep
<1>4. ASSUME UNCHANGED vars PROVE Inv'
  BY <1>4
     DEF vars, taskVars, poolVars, Inv, Types, CallsInv, Stage, Work, Told, Ended,
              Writes, Balance, Inside
<1> QED
  BY <1>1, <1>2, <1>3, <1>4 DEF Next

LEMMA Invariance == Spec => []Inv
BY InitInv, NextInv, PTL DEF Spec

-----------------------------------------------------------------------------
(* What follows.                                                           *)

(* Every variable of the executor has its type, so the semaphore never     *)
(* frees more permits than it was made with.                               *)
THEOREM Typed == Spec => []TypeOK
<1>1. Inv => TypeOK
  <2> SUFFICES ASSUME Inv PROVE TypeOK
    OBVIOUS
  <2>1. permits <= MaxConcurrency
    BY InsideIsFinite, PermitsAssumption DEF Inv, Types, Balance
  <2> QED
    BY <2>1, PermitsAssumption DEF Inv, Types, TypeOK
<1> QED
  BY <1>1, Invariance, PTL

(* Whatever batches time out and wherever their calls are, no permit of    *)
(* the semaphore leaks and none is freed twice.                            *)
THEOREM NoPermitLeaks == Spec => []PermitsAreBalanced
<1>1. Inv => PermitsAreBalanced
  <2> SUFFICES ASSUME Inv PROVE PermitsAreBalanced
    OBVIOUS
  <2>1. \A c \in Running : task[c] \in {"inside", "cancelled"}
    BY DEF Inv, Types, CallsInv, Work, Running
  <2> QED
    BY <2>1 DEF Inv, Balance, PermitsAreBalanced
<1> QED
  BY <1>1, Invariance, PTL

(* What execute_batch returns for a call is never less than happened.      *)
THEOREM TrueResults == Spec => []ResultsAreTrue
<1>1. Inv => ResultsAreTrue
  <2> SUFFICES ASSUME Inv, NEW c \in Calls
               PROVE  /\ results[c] \notin {"none", "timeout"} =>
                            results[c] = outcome[c] /\ c \notin Running
                      /\ results[c] = "skipped" =>
                            \E d \in Calls : asks[d] = asks[c] /\ outcome[d] = "committed"
                      /\ batch[c[1]] = "returned" => results[c] # "none"
    BY DEF ResultsAreTrue
  <2>1. Stage(c) /\ Work(c) /\ Told(c)
    BY DEF Inv, CallsInv
  <2>2. results[c] = "skipped" => asks[c] \in seen
    BY <2>1 DEF Told, Inv, Writes
  <2> QED
    BY <2>1, <2>2 DEF Stage, Work, Told, Inv, Writes, Running
<1> QED
  BY <1>1, Invariance, PTL

(* No thread starts on a call of a batch that has returned.                *)
THEOREM NoLateStart == Spec => NothingStartsLate
<1>1. Inv /\ [Next]_vars =>
        [\A c \in Calls :
            thread[c] # "running" /\ thread'[c] = "running" => batch[c[1]] # "returned"]_vars
  <2> SUFFICES ASSUME Inv, Next, NEW c \in Calls,
                      thread[c] # "running", thread'[c] = "running"
               PROVE  batch[c[1]] # "returned"
    OBVIOUS
  <2>1. PoolStarts(c)
    <3>1. \A b \in Batches : Submit(b) \/ BatchStep(b) => thread' = thread
      BY DEF Submit, BatchStep, BatchReturns, TimeoutFires, GiveUp, poolVars
    <3>2. \A d \in Calls : TaskStep(d) \/ ToolStep(d) => thread'[c] # "running"
      BY
         DEF TaskStep, Acquire, UnknownTool, TaskResumes, TaskCancelled, Dropped,
             poolVars,
             ToolStep, ToolRaises, ToolSkips, ToolChecks, ToolCommits, Ends, Inv, Types
    <3>3. \A d \in Calls : PoolStarts(d) => d = c
      BY DEF PoolStarts, Inv, Types
    <3> QED
      BY <3>1, <3>2, <3>3 DEF Next
  <2>2. Stage(c) /\ Work(c)
    BY DEF Inv, CallsInv
  <2>3. task[c] \notin {"none", "waiting", "done", "cancelled"}
    BY <2>1, <2>2 DEF PoolStarts, Work
  <2> QED
    BY <2>2, <2>3 DEF Stage, Ended
<1> QED
  BY <1>1, Invariance, PTL DEF Spec, NothingStartsLate

=============================================================================
