# Formal model of the durable macro research agent

TLA+ modules for the concurrent and durable parts of the repository, the TLC
configurations that check them on small instances, and TLAPS proofs of what
matters most for every instance. Paths such as `jobs/store.py` are below
`src/src/agent_runtime/`; `README.md:346` without a directory is the
repository's own README.

## 1. The system

A macro research question becomes a *thread* of a LangGraph workflow. Each run
of the workflow parses the question, may wait for a human to review a plan,
submits a long computation as a *job* and pauses; a later run polls the job
and delivers its evidence. Threads survive the process that runs them, because
every node's result is checkpointed; jobs survive because they live in a store
of their own.

| component | state | operations | interacts with | hard behaviour | what makes it correct |
|---|---|---|---|---|---|
| job store, `jobs/store.py`, `jobs/models.py` | records by id: key, status, attempts, result, error | `submit_job`, `get_job`, `update_job_status`, two fetches | called by graph, worker and clients; records are shared Python objects | resubmission after a lost answer; millisecond ids; unguarded status writes | one record per key; outcomes are decided once |
| job worker, `jobs/worker.py` | the polling loop, the executors it spawned | `start`, `stop`, one turn of the loop, the executor's two halves | store | two loops on one store, executors nobody awaits, cancellation handled in two places, retry budget, the event loop ending under it | no double execution, no orphan, retries bounded, every job ends |
| workflow graph, `graph/nodes.py`, `edges.py`, `builder.py`, `reducers.py`, `state.py` | the channels of a thread | six nodes, two routers, reducers | store, policy gate, checkpointer | review cycles, replays, a step limit over all runs of a thread | only reviewed plans run, evidence is real, invocations end |
| graph service, `graph/service.py`, `persistence.py` | one checkpoint per thread and node | `run_workflow`, `resume_workflow` | LangGraph | death between the submission of a job and the checkpoint that records it | no job is lost, threads are isolated |
| policy gate and registry, `mcp_clients/` | registered capabilities | `evaluate_tool_call`, transport check | submit node | three answers of which the caller acts on one | gated calls are approved |
| MCP stdio client, `mcp/client.py`, `bridge.py` | table of pending futures, read task, process | `start`, request, read loop, `stop` | a server process over pipes | answers out of order or late, malformed lines, end of file, stop under load | every caller gets its own answer, or an error |
| ReAct loop, `runtime/loop.py`, `steps.py`, `state.py`, `models.py` | `AgentState` of one run | `run`, one tool call with retries | provider, tools, memory, context, retrieval, skills | many early exits, some in the middle of a reply's tool calls | status, stop reason, answer and trajectory agree; every call is answered; runs end |
| async tool executor, `runtime/async_executor.py` | a semaphore, tasks, pool threads | one call, a batch with a timeout | tools | threads outlive the batch that gave them up | permits balance, results tell what happened, abandoned calls never start |
| HTTP API, `api.py` | run table, task table | create, poll, cancel, background worker | ReAct loop | cancel runs on another thread than the worker | what a client polls is explained and settles |
| tools, `tools/` | registry, ids written | look up, `execute` | both executors | one operation id in two threads | skipped means committed elsewhere |
| memory, `memory/` | SQLite rows | upsert, read, list, condense, restore, write policy | ReAct loop | keys that meet again, in several namespaces | what was stored is found again |
| context, `context/` | none | deduplicate, prune, fit to a budget, reorder | ReAct loop | budgets and limits that are exceeded | the core instruction survives, the least important is dropped |
| retrieval, `retrieval/` | indexes | search, fuse, rerank, cite | ReAct loop | two rankings, rounding, boosts | a cited chunk is not beaten |
| skills, `skills/` | a catalog | select | ReAct loop | the same fusion | |
| providers, config, tracing | none of interest | replay, log | | | |

The durable workflow (the first six) and the agent runtime (the rest) share no
code path: the API and the loop do not submit jobs. They are two compositions,
`DurableAgent` and `AgentSession`, beside which `McpClient`, `ToolExecutor`
and `ApiRuns` stand alone, as the code wires neither into the others (the API
calls the loop as one synchronous call, whose result is all it sees).

## 2. Files

| module | models | checked by |
|---|---|---|
| `IdempotentJobs` | the promise of a job store, abstractly: a key is accepted once, its outcome is decided once | implemented by `JobWorker` |
| `JobWorker` | store and worker | `job_worker`, `cancelled_is_not_final`, `same_millisecond` |
| `JobWorkerProofs` | theorems about `JobWorker` | tlapm |
| `MacroGraph` | nodes, routers, reducers and gate, as functions of a thread's channels | through `DurableAgent` |
| `MacroGraphProofs` | lemmas about the nodes and routers | tlapm |
| `DurableAgent` | threads, checkpoints, crashes, reviews, on top of `INSTANCE JobWorker` | with `MCDurableAgent`: `agent_threads`, `agent_runs`, `busy_poll`, `duplicate_job`, `ungated_call` |
| `DurableAgentProofs` | theorems about `DurableAgent`, with those of `JobWorkerProofs` for its store | tlapm |
| `McpClient` | the stdio client and an external server | `mcp_client` |
| `McpClientProofs` | theorems about `McpClient` | tlapm |
| `ToolExecutor` | batches, tasks, permits, pool threads, the idempotent writer | `tool_executor` |
| `ToolExecutorProofs` | theorems about `ToolExecutor` | tlapm |
| `ApiRuns` | run table, worker tasks, cancel routes | `api_runs` |
| `ApiRunsProofs` | theorems about `ApiRuns` | tlapm |
| `StableSort` | Python's `sorted(..., reverse=True)`, which the next two rank by | through `AgentSession` |
| `ContextAssembly` | the context assembler, as operators on sequences of items | through `AgentSession` |
| `Retrieval` | fusion, reranking and skill selection, as operators on rankings | through `AgentSession` |
| `MemoryStore` | the memory table, write policy, episodes | through `AgentSession` |
| `ReactLoop` | one run of the loop, on `ContextAssembly` and `Retrieval` | through `AgentSession` |
| `AgentSession` | successive runs over one `MemoryStore` | `agent_session` |
| `PipelineProofs` | lemmas about `StableSort`, `Retrieval` and `ContextAssembly` | tlapm |
| `AgentSessionProofs` | theorems about `AgentSession` and the modules it extends | tlapm |

`PROJECT.json` ties every definition to its source lines, every property to a
*faulty variant* of some definition that breaks it (these stand just before
the definition they vary, so named in their comments), and every hazard to the
properties that watch it.

    tlc -workers 2 -config JobWorker.cfg JobWorker
    tlc -workers 2 -config MCAgentRuns.cfg MCDurableAgent
    tlapm JobWorkerProofs.tla

## 3. How the modules correspond to the code

**Grain of steps.** All components but the graph run on one asyncio event
loop: what is between two awaits is one step, and awaits are where others run.
A graph invocation is a synchronous call that other threads' steps may
interleave with, so a node is one step (read, effect, checkpoint) except
`submit_mcp_job`, which is two: the job is in the store before the node's
updates are in the checkpoint, and the process may die in between.

**`JobWorker`.** `jobs` is the sequence of every `JobRecord` ever created.
Python objects have identity: `submit_job` may put a second record under an id
that is taken (`store.py:25`), and the first one is then out of the dict but
an executor may hold it. `Stored` is the set of records the dict still leads
to, `GetJob` follows an id. `LoopIteration` is a whole turn of
`_process_loop`: acknowledge the first cancellation, then claim the first
queued job, count the attempt and spawn an executor. `TaskStart` is the
executor up to its sleep, which reads the record; `TaskCancelled`,
`TaskSucceeded`, `TaskRequeued` and `TaskFailed` are the rest, a disjunct for
each way out. `EventLoopClosed` is the end of `asyncio.run`: executors vanish,
the store stays. `lost` is a history variable, naming the jobs that took with
it.

`CarefulNext` restricts the clients in two ways, both stated as actions so
that they can be read: no two new keys in one millisecond (`CarefulSubmit`),
and no cancellation of a job that has ended (`CarefulCancel`). The store
checks neither. What happens without the first is run `same_millisecond`.
Without the second a client can turn `succeeded` into `cancel_requested`;
README.md's future work has compare-and-swap transitions for this. `DurableAgent`
restricts its clients in neither way: it takes `Submit` and `RequestCancel`.

**`MacroGraph`.** Every node is an operator from channels to channels with
the reducers applied: `ParseRequest`, `AssembleContext`, `HumanApproval`,
`SubmitDenied`, `Submitted`, `Polled`, `Finalize`. `DecideNextAction` and
`DecideAfterJobActivity` are the routers of `edges.py`; `Successor` is the
wiring of `builder.py`. Queries are classes: a query that asks for a direct
answer, one with a word that calls for approval, any other. Plans are four:
none, the draft (its task names no registered capability), and two for the
registered one whose job will succeed or fail. `completed_job_results` and
`artifact_refs` are written together, so one set stands for both.

**`DurableAgent`.** `values` and `next` are the checkpoint of a thread,
`invoked` the threads an invocation is running. `RunWorkflow` discards a
pending node and starts over, `ReviewDecision` and `Recover` are
`resume_workflow` on a thread that waits for review, or died elsewhere.
`Crash` ends an invocation between two steps. The store and the worker remain,
as README.md:515 says of the recovery the system is built for. `approved` and
`abandoned` are history variables, of use to properties alone. An idempotency
key is the pair of thread and number of trace events, as `nodes.py:121` has
it.

**`McpClient`.** A request's id names its future and its coroutine.
`SendRequest` is `_send_request` up to the drain, `Drained` and
`CallerResumes` what follows, `CallerCancelled` a caller that is cancelled at
either wait. `ReadFrame`, `ReaderFails`, `ReaderEndOfFile` and
`ReaderCancelled` are one turn or one end of `_read_loop`. The server is
external: it answers each request it got in any order, emits frames nobody
waits for and lines the loop cannot handle (`Malformed`), and exits at any time,
after which what it wrote can still be read. A line is malformed if it does not
parse, is not UTF-8, exceeds the stream's limit, is no JSON object, or has a
list or an object for its id, which the table cannot be asked for
(`client.py:43`): all raise the same way. So would setting the result of a
future that is done, which the check at `client.py:45` (`Resolved`) avoids.
`start` is called once, as the tests do.

**`ToolExecutor`.** `task` is a call's coroutine, `thread` its work on the
pool: a task ends where the event loop says, a thread where the tool does.
`Acquire`, `TaskResumes` and `TaskCancelled` are the steps of
`execute_single_tool_with_sem` from one await to the next, with the semaphore
taken and released; `TimeoutFires`, `TaskCancelled` and `GiveUp` are the
timeout branch of `execute_batch`. Cancelling a task also cancels the pool's
future, which drops work no thread has begun (`Dropped`) and cannot stop work
one has. Several batches share one executor. The tool with an effect is the
idempotent writer, whose test and addition are two steps of a thread.

**`ApiRuns`.** The worker is a task of the event loop and runs the agent
synchronously, so nothing else of the loop moves meanwhile (`LoopFree`); a
cancel route is a thread's, and each of its reads and writes is a step.
`RUNS_DATABASE` holds one of two Python objects for each run, the initial
state and the final one, and a route may mark the object it looked up after
the other took its place. `max_steps` is positive, not positive, or null,
which the payload allows and the loop's comparison does not survive.

**`ReactLoop`.** `pc` is the place in `AgentRuntime.run`: the prologue (skill,
retrieval, memories), the guard, the wait for the provider, the tool calls of
a reply. Each exit is an action: `StopAtLimit`, `ProviderFails`,
`ProviderAnswers`, `UnknownTool`, `ToolRaises`, `RetriesExhausted`;
`ToolSucceeds` and `InvalidArguments` go on, `TransientError` tries again.
Provider and tools answer anything. A text is what deduplication and budget see
of it: replies of one length are one text. What the provider is given is
`Bundle`, a function of the context and the messages.

**`ContextAssembly`, `Retrieval`, `MemoryStore`.** The first two are pure: one
operator for each stage of the pipeline in `assembler.py`, and of rank fusion.
Both sort by `HighestFirst` of `StableSort`, which places an element by the number
that go before it. Loops over items are recursive functions of how many were
taken, and not folds of the community modules, of which the prover knows
nothing. The two searches are numeric code, represented by any rankings they might
return, cut at the caller's `top_k` (`SearchK`; 2 for skills). Scores are
integers in units of 1e-9, rounding and boost included.
`MemoryStore` is the table and the upsert on (namespace, key), the write
policy's verdicts on memories of any type, and an episode's conversion to a row
and back, in which a list of decisions is joined by a separator and split at it.
The list of errors is converted in the same way (`models.py:66`) and left out.

**`AgentSession`.** Runs follow one another over one store: a run reads its
namespace's memories, ends, may be condensed and remembered in any namespace,
and the application commits memories of its own between runs. `remembered`
and `committed` are history variables.

## 4. What the runs show

**`job_worker`** (two keys, two workers, two attempts, two records). However
submissions, cancellations, starts, stops and the end of the event loop fall
between the steps of two polling loops and their executors:
`IdempotentKeys`, `SingleExecution`, `RunningIsOwned`, `AttemptsBounded`,
`OutcomeIsExplained`, `OutcomeIsFinal`, `CancelBeforeClaimWins` hold, with a
worker that keeps polling every job ends (`EveryJobSettles`), and the whole
implements `IdempotentJobs` (`ImplementsService`). Two records are what two
keys allow, two attempts separate a retry from the last attempt, two workers
are the least that can claim the same job.

**`agent_threads`** (two threads, interchangeable). `ThreadsAreIsolated` and
`EvidenceIsReal` where two threads share the store, and
each submits, dies and recovers anywhere, is run again, polls and delivers,
while clients cancel any job at any time. Nothing keeps two threads from
submitting in one millisecond. They are then given one id, and the second
record replaces the first, as `same_millisecond` shows of the store: `Collided`
is that case, both properties except it by name, and `MCAgentSharedJob.cfg`
(below) shows what it leads to. Without it an id leads
to the job of the one thread that was given it; and evidence has a result in
either case, also after a late cancellation.
Reviews add nothing to what threads can do to each other, so `Asked` is the
plain query alone; `MaxTrace` 3 lets a thread run again once it has submitted
its job, and `StepLimit` 8 lets that run reach its end. With the action
constraint `DeadThreadsAreResumed` a thread that died is resumed and not given
new input over its pending node; `agent_runs` has the latter, and so have the
proofs.

**`agent_runs`** (one thread, two records, with liveness). Repeated runs. A
thread may be run again while it has at most three events (`MaxTrace`), so runs
follow finished, paused, reviewed and dead ones; `StepLimit` 8 is enough for a
run that starts after a submission to deliver, and near enough for the other
runs to hit it. Two records are as many as a thread can submit within
`MaxTrace`, so the bound never holds an invocation up. `OnlyReviewedPlansRun`,
`StepBudget`, `NoReportBeforeTheJob`, `EveryJobIsTracked`, and that
`InvocationsEnd` and `EvidenceIsDelivered` (unless the invocation dies or the
finished job is cancelled first). `TypeOK` is checked in `agent_threads`.

**`mcp_client`** (three requests, at most one frame of noise ahead).
`AnswersMatch`, `WaitersAreKnown`, and `CallsEnd`: a call made while the reader
reads returns, is given up, fails because the server exited, or fails because
the reader met a malformed line; nothing else breaks the reader. Three requests
let one be answered, one be given up and one wait.
`CHECK_DEADLOCK FALSE`, since a client that made its calls and was stopped has
nothing more to do.

**`tool_executor`** (two batches of two calls, one permit, two threads, one
operation id). `PermitsAreBalanced`, `ResultsAreTrue` (a result other than
timeout is final, and `skipped` means that another call committed),
`NothingStartsLate`, `BatchesReturn`. One permit for two calls makes one wait;
two threads for one permit let a thread outlive its batch while another works;
one operation id makes every pair of writers collide.

**`api_runs`** (two runs, two cancel requests). `ShownIsExplained`,
`OutcomeIsFinal`, `EarlyCancelWins`, `EveryRunEnds`. One cancel may fall
anywhere around the worker's steps, two can overlap on one run, and two runs
share the event loop. `TypeOK` is proved instead (section 5).

**`agent_session`** (two runs with two requests to the provider between them,
two calls to a reply, one try of a tool before it is exhausted, three chunks,
two namespaces). `OutcomeIsConsistent`, `EveryCallIsAnswered`,
`ContextIsSound`, `FusionRespectsRankings`, `MemoriesAreKept`, `RunsEnd`. A
budget of 6 tokens and limits of 6 and 4 items stand for the code's 1500, 20
and 8: with them some bundles are cut by each stage, deduplicated and
reordered. Both searches return two of the three chunks (`SearchK`, 5 in
`pipeline.py:20`), so that each may leave out what the other finds. The core
instruction fits the budget here; one that does not is covered by the proof alone. Two runs are the least in which one sees the other's memories, two
writes the least that meet under one key or in two namespaces. A step limit of
0 ends every run at once and is left out.

### Where the code and its documents differ

Each of these runs checks one property that a document, comment or test
states, and TLC finds the behaviour of the code that breaks it.

| run | stated | what happens |
|---|---|---|
| `cancelled_is_not_final` | README.md:384, `cancelled` is terminal | the loop acknowledges a cancellation while the executor sleeps; the executor looks only for `cancel_requested` (`worker.py:59`) and overwrites `cancelled` |
| `same_millisecond` | README.md:387, a known key returns its record | two keys in one millisecond get one id (`store.py:20`); the second record replaces the first (`store.py:25`) |
| `busy_poll` | README.md:346, a pending job pauses | run again with an unfinished job, the thread polls in a loop until the step limit ends it (`nodes.py:153`, `service.py:24`) |
| `duplicate_job` | README.md:375, no blind resubmission | continuing with `run_workflow` after a death in `submit_mcp_job` derives a new key (`nodes.py:121`) |
| `ungated_call` | `policy.py:37`, high risk is routed to approval | the submit node acts on `deny` only; a query without a marker word submits the high-risk capability |

In `busy_poll`, `duplicate_job` and `ungated_call` the step limit is the
code's 25.

Also observed. The first five have a configuration of their own
(`MCAgentSharedJob.cfg`, `AgentSessionLossless.cfg`, `MCAgentNoEvidence.cfg`,
`McpClientReaderError.cfg`, `ToolExecutorGate.cfg`),
which TLC refutes when run by hand; the models have the behaviour of the
others.

- Two threads that submit in one millisecond are given one id, and both track,
  poll and cite the second one's job (`nodes.py:122`, `store.py:20`), although
  README.md:465 and `test_graph_persistence.py:31` have threads isolated.
- `test_memory_episodic.py:120` says that "EpisodeRecord -> MemoryRecord ->
  EpisodeRecord should be lossless"; a decision that contains the separator comes
  back as two (`memory/models.py:65`, `:78`). Errors are joined the same way.
- Approving the drafted plan is denied by the gate, and `finalize` reports
  `completed` without evidence (`nodes.py:175`, `test_graph_approval.py:20-24`).
- `mcp/client.py:50` says a reader error cannot deadlock callers; calls made
  after the error wait for ever.
- `async_executor.py:16` says the semaphore enforces the concurrency limit; a
  timeout frees the permit of a call whose thread goes on, so more tools than
  `max_concurrency` run at once.
- The idempotent writer's test and addition are two steps. On an interpreter
  that switches threads between them one operation commits twice.
- A run that a failing tool ends has no stop reason on its last step, although
  `models.py:99` and `loop.py:5` say the final step carries one.
- `state.py:14` says one step per loop iteration; there is one per tool call.
- `assembler.py:63` says important items go to both ends of the context; the
  reordering puts none of them last.
- The token budget bounds the assembled bundle only: the whole history is sent
  again after it (`loop.py:296`).
- When instructions alone fill the item limit, the pruner cuts nothing
  (`pruner.py:50`).
- README.md:356-360 names three review decisions; the routers test for
  `rejected` and `edited` (`edges.py:18-24`), so that any other action, whatever
  its name, lets the plan pass.
- An episode stored in a second namespace clashes on `memory_id` and the
  insert raises (`sqlite_store.py:19`).
- A cancel that overlaps the end of a run can turn `completed` into
  `cancelled`, or be overwritten by it (`api.py:136`). `OutcomeIsFinal` and
  `EarlyCancelWins` say from when on, and up to when, that is excluded.

### Bounds

`MaxJobs` and `MaxRequests` bound what callers create, `Asked` the
queries they ask, `MaxTrace` how late a thread may be run again, `DeadThreadsAreResumed` what
follows a death where two threads run, `MaxFrames` the noise ahead of the
reader. `StepLimit`
is 25 in the code; the smaller values of the passing runs reach the limit with
fewer states, and nothing but the limit test reads the number. The clock needs
no bound: `Tick` only leaves a millisecond in which a record was created,
since ids are all the clock is read for. Executors sleep for a time the model
leaves open.

In the new modules every bound is a set in the configuration (calls, runs,
cancels, chunks, namespaces) or one of `MaxSteps`, `MaxCalls`, `MaxRuns`,
`MaxGranted` (the sum of the runs' step limits) and `MaxWrites`.

### Fairness

- `JobWorker`: a running loop takes its next turn and some executor is resumed
  (`WF` on both). Both are asyncio tasks waiting on a timer, and the event
  loop serves timers. Clients, `start` and the end of the loop are not fair:
  `EveryJobSettles` assumes a worker that is kept running in its antecedent.
- `DurableAgent`: an invocation is a call that keeps running (`WF` on a
  thread's steps; `Crash` stays possible), and the clock advances. Nothing is
  assumed of the worker: `InvocationsEnd` holds with a worker that does
  nothing.
- `McpClient`: the read loop and the callers are tasks of a fair event loop,
  and a server that stays up answers every request. The last is an assumption
  on external code; a server that blocks, for example because nobody reads its
  stderr pipe, is outside it.

- `ToolExecutor`: the event loop runs its tasks and timers, so tasks and
  batches are fair. The pool and the tools are not: a tool may hang for ever,
  and `BatchesReturn` holds all the same.
- `ApiRuns`: every task of the loop gets its turn, and a route's thread runs.
- `AgentSession`: a run is a synchronous call whose provider and tools return,
  with whatever result (`WF` on a run's steps). Nothing is assumed of what is
  done between runs.

## 5. What is proved

**`JobWorkerProofs`**, from `MaxAttempts \in Nat \ {0}` and for any sets of
keys and workers and any bound on records: `CarefulSpec` implies `TypeOK`,
`IdempotentKeys`, `SingleExecution`, `RunningIsOwned`, `AttemptsBounded`,
`OutcomeIsExplained`, `OutcomeIsFinal`, `CancelBeforeClaimWins` and
`ImplementsService`.

The inductive invariant is the conjunction of the six state invariants. None
is inductive alone: that an executor's writes go to its own record needs that
no record dropped out of the store (`IdempotentKeys`); that attempts stay
bounded needs that a claim is only made of a queued job with an attempt left
and that the executor saw the count of its own claim (`SingleExecution`); that
an outcome is explained needs that no executor is left for a job that ended.
The lemmas first say how records are found (`UniqueIds`, `GetJobFinds`,
`FirstIsMember`), then what each write does to one record, then that each
action preserves the invariant (`SubmitInv`, `CancelInv`, `LoopInv`,
`TaskStartInv`, `FinishInv`, ...). The action properties follow from one lemma
on which records a step can change (`StepEffect`). For the refinement,
`Outcome` maps the record of a key to what a caller may rely on; `SubmitImplements`
shows that a submission is `Accept` or a stutter, `TaskImplements` that the
end of an executor is `Decide` or a stutter, and all else stutters.

With any clients, `Spec`, records are lost and outcomes rewritten. What remains
is inductive as well (`AnyClients`): types, that an id that was handed out leads
to some record, a key to one at most, and that what succeeded has a result.

**`McpClientProofs`**, for any number of requests: `TypeOK`, `AnswersMatch`,
`WaitersAreKnown`. The strengthening is `ResultsMatch`: a future holds a result only from the frame with its id. A
caller returns in a later step than the one that resolved its future, so
`AnswersMatch` says nothing of the state in between.

**`ApiRunsProofs`**, for any runs and cancel requests: `TypeOK`,
`ShownIsExplained` and `OutcomeIsFinal`. A client polls one of two objects and
the table may switch between them, so the invariant explains the statuses of
both (`Causes`), ties table and tasks together (`Listings`), and says that a
cancel route is about a run that exists (`Targets`). `OutcomeIsFinal` rests on
`Quiet`: the task is done and no route has passed its check of that; `Quiet`
and what is polled stay as they are (`QuietStays`).

**`DurableAgentProofs`**, for any threads, queries, step limit and bounds, from
`StoreAssumption` (`MaxAttempts` is positive): `TypeOK`, `ThreadsAreIsolated`,
`EvidenceIsReal`, `EveryJobIsTracked`, `OnlyReviewedPlansRun`, `StepBudget`,
`NoReportBeforeTheJob`, and `AgentUsesTheStore`, that the store and worker in
the agent behave as `JobWorker` says with any clients. None of them assumes
anything of ids or cancellations: threads may submit in one millisecond, and
anyone may cancel what has ended.

Two theorems do, and name their assumptions: that no two records are created in
one millisecond (`IdsAreDistinct`) and that only unfinished jobs are cancelled
(`CancelsInTime`). Nothing in the code ensures either. Under both the
agent is a careful client (`CarefulAgent`), so that the store it uses is the
abstract service (`AgentUsesTheService`) and outcomes are final
(`AgentOutcomesAreFinal`).

The inductive invariant has what is left of the store's invariant with any
clients (`AnyInv`), taken from `JobWorkerProofs`
through an `INSTANCE`, as its first part. The second says of every
checkpoint, one statement for each node that may be next, what its channels
must hold (`Sound`), and the third what a job has to do with the thread that
submitted it: its key carries the thread and a trace length, and is found in
the thread's channels, or by the replay of the node that died after submitting,
or in `abandoned`. None stands alone. That evidence stays real needs that a
result is never taken away, which is the store's, although its status may be
rewritten; that a replay finds its job
needs that the channels the key is made of do not change between the two
halves of `submit_mcp_job`. `MacroGraphProofs` says what each node does to
channels, so that a step is proved from its node's lemma alone.

**`ToolExecutorProofs`**, for any calls, batches, permits and pool threads:
`TypeOK`, `PermitsAreBalanced`, `ResultsAreTrue`, `NothingStartsLate`. The
balance counts the tasks that hold a permit, so each step is a statement about
a cardinality. For the other two the invariant relates a call's task, its
thread and its batch: a batch returns only when its tasks have ended, the work
of a task that ended is not queued (`Stage`, `Work`); what a caller is told is
the outcome its task ended with (`Told`), and the operations in the writer's
set are those some call committed (`Writes`).

**`AgentSessionProofs`**, for any lengths, step and retry limits, calls,
namespaces and facts: `TypeOK`, `OutcomeIsConsistent`, `EveryCallIsAnswered`,
`MemoriesAreKept`, and with the lemmas of `PipelineProofs` for any chunks, boosts,
`TopK`, budget, item limit and threshold `FusionRespectsRankings` and
`ContextIsSound`. `ChunksAssumption` has the indexed chunks finite and the boosted
ones among them, `BudgetAssumption` and `TopKAssumption` have limits that are
numbers. `NoneAssumption` has None differ from call ids and stop
reasons, and `SessionAssumption` has the keys of facts differ from those of
episodes, as `memory/models.py:56` prefixes the latter, and be finitely many.

- Of a run (`LoopInv`): while it goes on its steps all executed a tool, and the
  user's message, the replies and the steps make up its messages (`Running`);
  the last reply's calls are what is being executed, and one at least is left
  (`Executing`); what follows a reply are the results of its calls in order,
  and nothing else (`Answered`); results and steps lead to each other
  (`Aligned`). `Executing` is needed since `_execute_tool` is called for the
  next call of *the last* reply; `Running`, since the step of a result is found
  by counting.
- Of the store (`RowsInv`): one row for a namespace and key, an episode's of type
  episodic, and the rows of what was committed or remembered have its content.
  The upsert keeps it because it replaces all that matches by one
  (`UpsertReplaces`). Uniqueness is also why no episode is cut off by the limit
  of a listing as large as the runs and the facts together: later rows map one
  to one to their keys (`EpisodesAreFew`).
- Decisions are restored exactly when each has one part (`DecisionsRestored`).
  That is about `FlattenSeq`, a recursion over data. The library's induction
  theorems take an operator and cannot be used, so `FlattenSteps`,
  `FlattenType` and `FlattenSingles` look at the set of lengths at which the
  claim fails, which would have a least element (`Least`, from the library's
  theorem that `<` is well-founded on numbers; it is in `PipelineProofs`).
- Of the pipelines (`PipelineInv`): what a search left is the fusion of two
  rankings, the prologue's items are of its three kinds, and rows are finitely
  many. A bundle is a function of the context and the messages, so
  `ContextIsSound` needs no more of the run than `LoopInv` and the kinds.

**`PipelineProofs`** has the two pipelines as lemmas about any input. `UpTo` is
induction up to a number for the members of a set, from `Least`, and `Recursion`
that the function a loop defines exists.

- Sorting: ranks and positions correspond one to one (`Ranks`), so a sorted
  sequence is a permutation in which a higher key, or an equal one that came
  first, stands first (`Sorted`).
- Fusion: the candidates have each chunk once, in an order that no two rankings
  agree against (`TableGrows`, `CandidatesInOrder`). A chunk no ranking places
  lower has no lower score (`ScoresInOrder`), since reciprocals fall with rank
  and a missing rank counts nothing; rounding keeps that (`RoundedKeepsOrder`);
  and where it makes scores equal, two stable sorts keep the order of the
  candidates (`RerankedInOrder`). Citing cuts a prefix (`CitedInOrder`).
- Context: the core instruction is the only item of priority 100, and
  deduplication, sorting, cut and reordering each keep it first
  (`DeduplicatedKeeps`, `ByPriorityKeeps`, `PrunedKeeps`, `ReorderedKeeps`). The
  tokens of a sequence of items are the number of pairs of an item and one of its
  tokens, so that rearranging it changes nothing (`PermutedTokens`) and that
  appending adds (`TokensAppended`). The budget loop's invariant is what
  `ContextIsSound` says of the items taken so far, in descending priority
  (`KeptFits`, `DroppedFits`, `WithinBudgetFits`).

`EveryCallIsAnswered` and the operators it rests on are stated by position
(`ReplyAt`, `CallsMade`) and not by selecting subsequences, since the prover
knows nothing of `SelectSeq`.

Only model-checked:

- the liveness properties `EveryJobSettles`, `InvocationsEnd`,
  `EvidenceIsDelivered`, `CallsEnd`, `BatchesReturn`, `EarlyCancelWins`,
  `EveryRunEnds`, `RunsEnd`. They need fairness and `ENABLED`, which are out of
  the prover's reach.

## 6. What is left out, and why

- Loss of the store itself. It is in memory; README.md:514-515 says so, and
  that recovery is about replacing the service only.
- Two invocations of one thread at once. What LangGraph does then is not
  decided by this code.
- How LangGraph makes checkpoints durable (connection handling, its modes). A
  checkpoint is taken to be durable when the next node starts.
- `call_tool_node` and `observe_tool_result_node`, wired to no edge.
- A clock that goes backwards. Ids would then collide as they do within one
  millisecond.
- Rejections of a capability by role or arguments: the submit node always
  calls as a researcher, and the one registered capability has no schema.
- The wording of answers, errors and trace events, and the trace itself.
- An exception in the prologue of a run (a broken index, a closed database). It
  leaves `run` before any state is returned; `ApiRuns` has what its caller does.
- The two searches, embeddings, tokenizer, chunker and citations: sequential
  numeric or text code without state. (`chunker.py` with an overlap as large as
  its chunks does not advance; nothing configures that.)
- `tools/script_runner.py` (a subprocess), `skills/loader.py` (files),
  `providers/`, `config.py`, `tracing.py`: I/O, constants and test doubles.
- `memory/working_memory.py`, which nothing but its tests uses, and the pruner's
  rule about an item's age, which nothing sets.
- MCP's bridge, a wrapper that reshapes one response.

## 7. Plan

1. `JobWorker`, its abstract service and its proofs: done.
2. `MacroGraph` and `DurableAgent`, composed with `JobWorker`: done, checked.
3. `McpClient` and its proofs: done.
4. `DurableAgentProofs`, `ToolExecutorProofs`, `ApiRunsProofs`,
   `AgentSessionProofs`: done.
5. `ToolExecutor`, `ApiRuns`, `ReactLoop`, `ContextAssembly`, `Retrieval`,
   `MemoryStore`, `AgentSession`: done, checked.
6. `FusionRespectsRankings` and `ContextIsSound`, with the pipelines' loops
   written as recursive functions: done, in `PipelineProofs` and
   `AgentSessionProofs`.
7. What is left is liveness, which stays with TLC.
