# TLA+ models of AIECS

AIECS (`src/aiecs`) is a Python framework for agents: an agent runs a loop of
language-model calls and tool calls, plugins and hooks extend the loop, and
services around it keep memory, search the web, let agents vote, run stored task
descriptions and talk to users.  Nearly everything is `asyncio` in one process: a step is the
code between two awaits, and the hard behaviours are interleavings of coroutines, budgets
and quotas that outlive a retry, shutdowns that wait, histories that are rewritten while they
are in use, and failures that leave the state half changed.

Ten parts are modelled: the task loop of the hybrid agent, the life of agents with their shared
ingest queue, the search tool's way to its backends, communities and their decisions, the
conversations of the context engine, tool calls with dependencies, the compression of a
task's messages, DSL programs, confirmations of users, and the caches a tool call passes.
Section 1 is the inventory of the system, 2 the modules and runs, 3 to 12 the
models, 13 the proofs, 14 the divergences met, 15 what is left out.

## 1. Inventory

The paths are relative to `src/aiecs`.  "Model" names the module.

| Component | State | Operations and partners | Hard part, and what makes it correct | Model |
|---|---|---|---|---|
| Hybrid agent loop (`domain/agent/hybrid_agent.py`) | messages, iteration counter, `plugin_state` of the task | one task: hooks, model, tools, DAWP drain, pre-exit checks, retry | `plugin_state` outlives an attempt, counter and messages do not. One budget; the answer is the last thing that happened; it passed its checks; the task ends | HybridLoop, TaskContract |
| DAWP runs (`plugins/dawp`) | queue of runs, run count, trigger flags, handoff message, shared iteration budget | enqueued by the host, by checkpoints and by the model; drained by the loop; a run is a chain of prompts | quota counted in three places; runs that fail, raise or find no budget | DawpRuns |
| Generate-verify-refine (`verification`) | verified checkpoints, gate checkpoints, refine count | called by the loop before it returns | several mechanisms (policy, gates, hooks) share checkpoints; refinement is bounded | GvrPolicy |
| Base agent (`base_agent.py`, `lifecycle.py`) | `_state`, `_current_task_id`, plugin manager | initialize, activate, deactivate, restart, reload, shutdown, execute_task | checks before awaits; a failed step changes the state of a running task | AgentLifecycle |
| Temporal memory ingest (`infrastructure/temporal_memory`) | process-wide queue, worker task, reference count | acquire, enqueue, release with drain and timeout | agents share it: stays up while held, drained by the last, jobs kept in order | IngestQueue |
| Memory plugin (`plugins/builtin/memory_plugin.py`) | conversation, deferred assistant turn | POST_TASK, flush by the ingest job, shutdown | turn deferred past the task that owns it | AgentLifecycle |
| Search guards (`tools/search_tool/rate_limiter.py`, `resilience.py`) | token bucket, circuit of each backend | one guard per backend, any number of threads | request runs unlocked between check and verdict | Resilience |
| Search routing (`router.py`, `core.py`, `backends/`) | pinned backend and tail of a batch | batches walk a chain; direct searches call CSE | look at a circuit is stale; pin and order of the chain kept | SearchRouting |
| Community (`domain/community/community_manager.py`, `decision_engine.py`) | members, proposals and votes, two membership indexes, what is stored | join, leave, vote, evaluate, arbitrate, escalate, save, restart | a save is several awaits, which other calls and a crash come between, and any of which may fail unnoticed; votes count once, written ones survive, approvals have their votes | Community |
| Context engine (`domain/context/context_engine.py`) | session record, history in Redis and in memory, permanent log | create, add, end, clean up, compress | every call to Redis is an await and may fail; two stores, one history | ContextEngine |
| Tool calls with dependencies (`base_agent.execute_tools_with_dependencies`) | results by call, executed calls | rounds of calls whose references are resolved | cycles, references out of range, results out of order | ToolSchedule, CallOrder |
| Compression (`domain/context/compression`, `tool_loop_core.py`) | messages, tool-result budget, failure count | a budget and a chain of stages before the model, after a batch, on a prompt that is too long | calls and their results stay together, what was shown stays | Compaction |
| Tool cache and batches of the loop (`tool_loop_core.py`) | agent's tool cache | calls of one answer, one after the other | stale entries | none (batches in Compaction) |
| OperationExecutor (`application/executors`) | results of the sequence, result cache | sequences, `$result[i]` references, parallel batches, saves | references to steps that failed, cache keys | none |
| Hooks and plugin manager (`plugins/hooks`, `plugins/manager.py`) | load order, hook registrations | ordered hooks at the checkpoints of a task | partial initialisation, repeated shutdown | initialisation and shutdown in AgentLifecycle, hooks in HybridLoop |
| Other parts of a community | resources with locks, sessions, workflow phases | acquire and release, run phases | lock owners | none |
| Confirmations (`infrastructure/messaging/websocket_manager.py`) | server, connections, callbacks, futures | notify and wait, confirm, connect, start, stop | a deadline races the answer; clients contradict each other and vanish | Confirmation |
| DSL programs (`domain/task/dsl_processor.py`, `celery_task_manager.py`) | stack of steps under way, results | tasks at Celery, sequences, ifs, loops, parallel blocks | failures are told differently by each kind of step; a timeout beside the work that goes on | DslRun |
| Caches of tool calls (`tools/tool_executor`, `utils/execution_utils.py`) | LRU store, deadlines | executor and decorator look and store around a search; retry, timeout, clear | two caches with different keys and times to live around one call | ToolCache |
| Search cache (`domain/temporal_memory/search_cache.py`) | facts by query, with time to live | get or search | stale fills | none |
| Goal graph, burst guard, loop detection | calls and goals of a task | predicates over the calls so far | boundaries of windows | choices of the environment in HybridLoop |
| Conversation memory, skills, registry, persistence | sessions, skill context, indexes | create, evict, match, save and load | limits, stale indexes | none |
| LLM clients, file storage, knowledge, config, host, monitoring, scripts, server | drivers, settings, formatting | called by the parts above | external I/O | none |

How the parts meet: `execute_task` of a hybrid agent moves the lifecycle to BUSY, runs the
loop under `execute_with_retry`, and ends with POST_TASK hooks, where the memory plugin
defers a turn and the temporal-memory plugin queues an ingest job for the shared worker.
Tools, search among them, are called in the loop's tool batch, and before every call of the
model the loop has its messages budgeted and compressed.  One task is modelled twice from the
inside, for its control (HybridLoop) and for its messages (Compaction), and from the outside,
as start, POST_TASK and end, in AgentLifecycle.  Search (SearchRouting) is one tool with state of its
own that all agents share.  The context engine is where a memory plugin or a community keeps what is
to outlive the process; the calls between them carry data that no property is about, so the
models do not compose.

The list of what is hard to test, each at its line, is `hazards` in `PROJECT.json`.

## 2. Modules and runs

| Module | Extends | Models |
|---|---|---|
| DawpRuns, GvrPolicy | | queue of runs and budget; policy, gates, hooks and refinement |
| HybridLoop | DawpRuns, GvrPolicy | one task |
| TaskContract | | what a task promises; HybridLoop implements it |
| IngestQueue; AgentLifecycle | ; IngestQueue | the shared queue; agents |
| Resilience; SearchRouting | ; Resilience | guards; batches and direct searches |
| Community | | a community, its storage and one decision |
| ContextEngine | | one session |
| CallOrder | | what running calls by their dependencies promises |
| ToolSchedule | | the rounds, which implement CallOrder |
| Compaction | | the messages of an agent's tasks |
| DslRun | | one run of a DSL program |
| Confirmation | | the WebSocket manager |
| ToolCache | | one search through its caches |

`MC*.tla` give the constants their values, `*Proofs.tla` hold the theorems.

| Run | Expect | Properties |
|---|---|---|
| `loop` | pass | `RefinesBounded`, `ChecksPassed`, `AbortFailsTask`, `HandoffOfThisRun`, `ImplementsContract`, `Termination` |
| `lifecycle` | pass | `HoldersCounted`, `DrainedWhenUnheld`, `TurnsInOrder`, `JobsAreTaken` |
| `lifecycle_rough` | pass | `StoppedHoldsNothing`, `QueueServed`, `DownEnds` |
| `search` | pass | `TypeOK`, `RateBound`, `RaisedFailuresOpen`, `ChainKept`, `OpenLasts` |
| `community` | pass | `OneVote`, `AckedVoteCounts`, `ApprovedHasSupport`, `IndexesAgree` |
| `context` | pass | `LoggedOnce`, `InOrder`, `NothingLost`, `HistoryBounded` |
| `context_recent` | violation | `RecentKept` |
| `tools` | pass | `ImplementsOrder`, `Finishes` |
| `compaction` | pass | `ResultsFollowCalls`, `CallsHaveResult`, `ShownStays`, `LatestShown` |
| `dsl` | pass | `DslTypeOK`, `TopTellsAll`, `IfsContain`, `Ends` |
| `confirm` | pass | `AnswerKept`, `Registered`, `NotifyEnds` |
| `cache` | pass | `DecoratorKeeps` |

The types of the other modules are proved (section 13) rather than run.  ToolCache and DslRun share a module of proofs
with another model of their part of the code, so that their definitions have names that do not meet (`CacheSpec`, `DslSpec`).

Beside the runs stand configurations that show a divergence each; TLC finds their property violated:

| Configuration | Module | Property |
|---|---|---|
| `HybridLoopUnverified.cfg` | MCHybridLoop | `VerifiedExit` |
| `SearchRoutingTrips.cfg` | MCSearchRouting | `FailuresOpen` |
| `CompactionTorn.cfg` | MCCompaction | `CallsAnswered` |
| `DslRunStops.cfg`, `DslRunObjects.cfg`, `DslRunOverdue.cfg` | MCDslRun | `StopsOnFailure`; `TopTellsAll`; `OneAtATime` |
| `ConfirmationRestart.cfg` | MCConfirmation | `StartedServes` |
| `ToolCacheFailures.cfg`, `ToolCacheRollOut.cfg`, `ToolCacheTtl.cfg` | MCToolCache | `FailuresNotCached`; `RollOutMisses`; `TtlKept` |

What could come next, by weight: the resources of a community with their locks; the result cache
and references of OperationExecutor; the dual-layer cache with Redis.

## 3. One task: HybridLoop, DawpRuns, GvrPolicy

### What is modelled

A task is one coroutine, so no two of its steps interleave; what makes it hard is the
environment at every await: the model answers, calls tools, or raises; a hook, a verifier, a
host's callback raises; a run in the queue succeeds, fails or runs out.  `pc` is where the task is:

| `pc` | Code (`hybrid_agent.py` unless named) |
|---|---|
| `pre` | PRE_MAIN_LOOP dispatch before `_execute_with_retry` |
| `start` | an attempt begins (`_tool_loop_with_plugins`): fresh messages and counter |
| `drainInline`, `drainEnd` | `_drain_pending_dawp_runs` in its two modes |
| `chain`, `endRun` | `run_prompt_chain`; the code after it and its `finally` block |
| `loop` | the `while` of the tool loop, at its budget test |
| `iterEnd` | ON_ITERATION_END, where a response trigger may enqueue a run |
| `decide`, `stop` | pre-exit verification; the STOP hook |
| `raised` | an exception has left the attempt; the retry policy decides |
| `done` | the result is returned |

DawpRuns has the queue, the enqueue guard, the budget and the chain; GvrPolicy the policy, gates,
hooks and refine count.  Both are stateful operators that HybridLoop composes (`EXTENDS`): the
loop's steps are conjunctions of theirs.  Contents of messages are gone, except two facts:
whether a thought has the trigger token, and whether a handoff message waits.  A verdict is a
choice of the environment.  `answeredAt`, `abortFailed`, `reported` and `evidence` are history.

TaskContract says what a task promises its caller, without attempts, checkpoints or drains: it works
within a budget of rounds and a quota of DAWP runs and ends once, an answer is the last thing that
happened, a spent budget is spent, and the stream ends with the result.  `ImplementsContract` is
that HybridLoop implements it, with `spent <- consumed`, `runs <- runCount`, `asOf <- answeredAt`.

### Runs

`loop` has two attempts, every kind of policy, alone and beside gates and hooks of the agent, three host queues and a raising callback.  The contract
covers budget, quota, the answer after the last run and the stream's last result; `RefinesBounded` the
refinement.  `ChecksPassed` (verifiers and gates have seen the answer that is returned), `AbortFailsTask` and
`HandoffOfThisRun` are stated of the first attempt, because what an attempt leaves behind in `plugin_state` breaks them
in the next one: `HybridLoopUnverified.cfg` shows that for the verifiers; `AbortFailsTask` fails when an aborting run raises rather than fails, for the
exception passes by the abort; with a raising callback, `HandoffOfThisRun` fails.  `ChecksPassed` leaves out one configuration
of the first attempt too: a policy on stop that has gates and no verifiers, on an agent with gates of its own.  The agent's take the
gate checkpoint of the iteration at task completion (`policy_runner.py:168`), and the policy then passes with nothing
evaluated; `docs/gvr_gate_semantics.md:83` says that of the fallback on stop only.

Bounds.  `Limit = 4` rounds, enough for a round that calls tools, a run of two steps, and a round
after it; `MaxRuns = 2`, so that the quota is met from the queue and from the count; two steps of two
rounds, so that a step ends by its marker, its cap and the budget; `MaxRefines = 1`; `MaxRetries` 0 or 1.
The iteration counter needs no bound, for the budget bounds it.

Fairness.  `FairSpec` has weak fairness of `Step`: the event loop resumes a coroutine whose await
is done, and every await ends, by an answer or an exception (clients have timeouts).  Nothing is
assumed of what it ends in: a model that never gives an answer that passes is a fair behaviour,
and `Termination` shows that the budget ends it.

## 4. Agents and their ingest queue: AgentLifecycle, IngestQueue

### What is modelled

IngestQueue is the process-wide `TemporalMemoryIngestQueue`: the queue with its sentinel, the
reference count, `_worker`, every worker task that is alive or waited for, and the
releases that wait.  `ReleaseWaits`, `ReleaseTimesOut` and `ReleaseEnds` are the three parts of
`release` between its awaits; after a timeout the release goes on with whatever `_worker` is by
then, as the code does.

AgentLifecycle has the agents: `_transition_state`'s table (`Valid`), initialisation and
its failures, reload, shutdown in plugin order (temporal memory before memory), tasks with their
POST_TASK.  A call that awaits is an entry in `op` and two or more actions.  `Deactivate` stands
for `restart` too, which gets no further than IDLE, for only CREATED may go to INITIALIZING.
A worker's job flushes the assistant turn (`FlushTurn`) into its agent's conversation.

`Liberties` says what the surroundings may do: fail an initialisation, pause agents, fail a
backend, overlap calls with a waiting shutdown, start tasks on BUSY agents, reject streams, exceed
the drain's 30 s.  Each is a situation the code permits; a run names the ones its question is about,
so that it says exactly under which circumstances a property holds.

### Runs

`lifecycle` (liberties failure, pause and reject): the queue's count is its holders' (`HoldersCounted`); when nobody holds
it, it is empty (`DrainedWhenUnheld`); turns stay in order (`TurnsInOrder`); every queued job is taken (`JobsAreTaken`).

`lifecycle_rough` (backend, overlap, busy and timeout): whoever acquires while a release waits, releases what he has not
acquired, or runs a task without plugins, a queued job has a live worker (`QueueServed`); an agent in STOPPED has let
go of everything (`StoppedHoldsNothing`), and every shutdown and reload ends (`DownEnds`).  `exposed` names what `QueueServed`
cannot promise: a job that was queued behind a sentinel, and one that was queued when a drain that gave up
cancelled a worker.  Both happen in the code: between the sentinel and the worker's end `start` finds the worker still running, so
that an acquire or an enqueue gets none of its own, and no one starts one until the next job comes (section 14).

`HoldersCounted`, `DrainedWhenUnheld` and `TurnsInOrder` are stated of the calm run because they fail in the other: an acquire during
a waiting release, a release without an acquire, or a task that starts during a waiting reload breaks them.
`Calm`, the assumption of their proofs, is as weak as liberties allow: each of overlap, backend, busy and timeout alone
breaks `DrainedWhenUnheld`.

Bounds.  Two agents, because one may hold the queue while another releases; two jobs (one in the rough run), because
order needs two; `MaxWorkers = 2` worker tasks alive or referred to, the most two releases can keep
(with fewer, `Start` would block where the code does not); `MaxQueue` bounds the items, sentinels
among them, and a put that would exceed it is left out.

Fairness.  `FairSpec` of the calm run: the event loop resumes a worker that can go on, and an ingest ends, for it swallows what
the store raises.  `TimerSpec` of the rough run: a shutdown or reload that can go on is resumed, and the timer of its `wait_for` fires; the
worker may hang in its job for ever.  Requests are never fair: nobody has to stop an agent.

## 5. Search: Resilience, SearchRouting

### What is modelled

Resilience is the guard of each backend.  The limiter's lazy refill becomes a refill per second
(`Tick`): the bucket only fills between two requests, and a token is counted in `Window` parts, so
that nothing is rounded.  `admitted[b][a]` is what the bucket admitted in the last `a` seconds.  The
breaker is its three states, `failure_count` and the age of the last failure.  A request passes
`Admit`, `Enter` and `Respond`, three steps with no lock across them; any number of threads may
be in between.

SearchRouting adds who asks.  A caller's batch is `search_batch`: `search_for_batch` decides where a
query looks (`Ask`), `_walk_chain` passes a backend by or chooses it on an unlocked look at its circuit
(`PassBy`, `Choose`), `_finalize_router_failure` decides whether a failed query raises.
`search_web` is a batch of one query.  Direct searches (images, news, videos) retry on CSE.
`Swallows` names the backends that turn their exceptions into results inside the guarded function.
Not in the model are time budgets, the capability probe of grok, caches and what is done to results.

### Runs

`search`: no window admits more than twice the configured requests (`RateBound`); a backend whose exceptions reach
the breaker opens at the threshold (`RaisedFailuresOpen`), and open lasts for its timeout (`OpenLasts`); a batch keeps
to its pin, and a query fails only when its chain is exhausted (`ChainKept`).  `SearchRoutingTrips.cfg` shows that the
circuits of the backends in `Swallows` do not open.

`RateBound` is twice the number the settings give ("Maximum requests per time window", `core.py:106`)
because a full bucket may be spent at the start of a window and refilled during it.

Bounds.  One batch thread and one direct thread share CSE, the smallest setting in which a late result meets
a circuit that changed; three queries, so that a pin set by the first is used by one that fails and
by one after it; a window of two seconds with one request, a threshold of two and a timeout of one.
The chain starts with a backend that is not configured, so the walk skips, tries and exhausts.

No liveness is checked here: that a circuit which opened is tried again fails (section 14), and
nothing else must happen that a timeout does not bring about.

## 6. Communities: Community

### What is modelled

One decision of a community: members join, leave and rejoin, leaders and coordinators follow,
a proposal is put, voted on, evaluated by the algorithms that count heads and those that weigh,
arbitrated and escalated.  A call changes the manager's memory at once and then awaits
`_save_to_storage`, which takes three keys (communities, members, decision) one after the
other: it copies what the memory holds under the key (`Start`, `SaveKey`), and awaits the write of the copy,
which lands (`Lands`) or fails (`Fails`).  Other calls run in between, so that a copy may land after a newer one.  A failed
write is only logged, and the call goes on and returns as if there had been none.  `saves[t]` is how far the call of `t` has come,
`copy[t]` what it is writing.  `Restart` drops the memory and rebuilds it, and the indexes, from what is stored; a key whose load
fails is logged, too, and comes back empty.

The storage is whatever object has `get_context` and `set_context`, as in the tests: the context engine has neither, so that
with it nothing is kept (section 14).  `engine` says whether there is one; without it nothing is saved, a call is one step, and a restart
begins with nothing.  Assumed of a write is that it lands before it returns or not at all.

`acked`, `durable` and `by` are history: the votes whose call returned, those of them that had been written when it did (with
nothing older still to be written over them), and the way a decision came to be approved.

### Run

`community`: a member counts once in a tally (`OneVote`).  A vote that was acknowledged is counted and its voter known, for as long as
the process runs, and through every restart that can load it if it is durable (`AckedVoteCounts`): no later save,
half done, overtaken or failing, puts an older state over it.  The others are lost with the process, though their callers were
told that they count (section 14).  An approved decision has, in the votes as they are now, the support that its way of approval
asks for, at the thresholds of the code: more than half, 67 %, nobody against, or 40 % for an arbitrator (`ApprovedHasSupport`).
The ways that weigh depend on records and roles at the time of the evaluation, which both change afterwards; of them it remains that
somebody voted for.  Unanimity is that of the votes cast, which is what the code tests and not what its comment says (section 14).  The
indexes agree with the rosters, also when they are rebuilt from what could be loaded (`IndexesAgree`).

Bounds.  Without storage four member records (`MaxMembers`), so that there are enough voters to tell the thresholds apart: two
to one is a majority and less than 67 %, one to one is enough for an arbitrator only.  With it two (`MaxStored`), so that one
leaves and comes back or two vote against each other; one way of evaluating (`StoredWays`), for none of them is saved or awaits; five
calls (`MaxCalls`), so that a community with a proposal and votes meets two saves that overlap; one write or load that fails
(`MaxFailures`), at any key of any call.  One community, two agents, two callers, and two levels of escalation.  All weights
are equal, as nothing in the code sets others.

No fairness: an interrupted save may stay so, which is the crash.

## 7. Conversations: ContextEngine

### What is modelled

One session: its record, its history in Redis (a list whose head is the newest message) and in memory
(whose end is), and the permanent log.  Each call to Redis is one action, with `Answers` or `Fails`; what a
caller holds across an await is in `call`.  `add_conversation_message` is `BeginAdd`, `Push`, `Trim`, `Expire` or
`StoreInMemory`, `Log`, and the refresh of the session (`Look`, `Write`, `Renew`).  `compress_conversation` is
`Read`, the model's summary (`Model`), `Delete` and a push for each message kept (`Refill`).  `cleanup_expired_sessions` is
`BeginCleanup`, `Purge`, `Wipe`.  Every run is one with Redis and one without (`usesRedis`).  `intact` says that no history
was replaced yet; `before[m]` is what had been added when `m` was begun.

### Runs

`context`: a message is in the permanent log once, or refused by it (`LoggedOnce`); it is shown after
those added before it (`InOrder`); below the limit it is in one of the stores (`NothingLost`); the list
outgrows its limit only by adds in flight and failed trims (`HistoryBounded`).  The last three are
stated of histories that no compression or clean-up has replaced, for a replaced one breaks them
(section 14).  `context_recent` is the finding that of a history longer than a page a compression
keeps the oldest messages.

Bounds.  Two callers, three messages and `Limit = 2`, so that a trim drops one and two adds overlap at the
limit; three other operations, so that a compression meets a clean-up and an end; one outage, at any call.
`Keep < Page <= Limit`, as the code's 10, 50 and 1000; for the finding `Page < Limit`.  The callers are symmetric.

No fairness: the properties are about safety, and nothing promises that a caller comes back.

## 8. Tool calls with dependencies: ToolSchedule, CallOrder

ToolSchedule is `execute_tools_with_dependencies`: rounds of the calls whose references are executed
(`Choose`), each run by `execute_tools_parallel` under a semaphore (`Start`, `Finish`), whose results
are put in their places and substituted into the calls to come (`Collect`).  `gather` leaves out what raised,
and `zip` pairs the rest with the round from its start; `Paired` says so.  `deps` is any reference
between the calls, to itself and out of range included.

The substitution works on JSON: it puts the JSON of the field a reference names between the quotation marks of a string in the JSON of the
parameters, and loads the whole.  A field that is a string or a dictionary brings quotation marks of its own, and the load raises, out of all rounds
(`CollectRaises`).  `quoted` says of a result that a reference finds such a field in it; any result may be so or not.  A reference
with more than one field after the index (`${0.a.b}`) makes its call wait and is never replaced; `Literal` names the pairs
of calls with only such references.

CallOrder is what that promises, without rounds: each call runs at most once, after the calls it refers
to have answered and with the answers of those that are not only waited for, which never change.  `tools` shows on three calls
and two slots, for all 4096 ways to refer, with the third call's references to the first never replaced, that the rounds implement it
(`ImplementsOrder`; what raises ends the rounds, and no call starts after it), and that they end (`Finishes`): with just the runnable calls
run, or else stopped by a substitution, for which a call still to come must refer to a quoted result of the round.  Three calls are a
chain, a diamond's half and every kind of cycle.  All calls have names; `Nameless` is for the proofs, and for section 14.

Fairness.  Weak fairness of `Choose`, of what follows a round (`Collect`, `CollectRaises`), and of each call's `Start` and `Finish`: the event loop
resumes a coroutine that can go on, and a tool that is called returns or raises.

## 9. The messages of a task: Compaction

### What is modelled

The history as a function from positions to messages: who speaks, the calls of an assistant's message, the call a
result answers, and whether a text is full, a preview, collapsed or cleared.  A message keeps its
position while it stays, so that dropping is restriction and a summary goes in front.
Before each call of the model (`BeforeCall`), after a batch (`AfterBatch`) and when the prompt is too
long (`TooLong`) the budget turns results it has not seen into previews, for good, and a chain of stages
works on a copy: `Hooks`, `Microcompact`, `Collapse`, `SessionMemory`, `Summarise`, each of which may pass
the copy on, or compact and end the chain, or raise (`StageFails`).  `Newer` is
`split_preserving_tool_pairs`, `Sanitized` is `sanitize_messages_for_compaction`.  Whether a history is
over a threshold is left open, for a message may be of any length.  `seen`, `previews`, the breaker
(`failures`) and `reactive` belong to the agent and outlive its tasks; `Restart` begins the next one.

`batch` holds the calls of the last answer that wait for a result.  A result that matches a stop condition ends the batch
in the middle (`StopMatch`): neither it nor those of the calls behind it are put into the history.  If its answer is refused, or a nested
run was drained, the task goes on with these calls unanswered; `cut` remembers which they are.

### Runs

`compaction`: at every call of the model, results follow their calls with only results in
between (`ResultsFollowCalls`); a message that calls tools has a result behind it, but one
all of whose calls a stop match has cut off in a task that went on (`CallsHaveResult`: no compressor and no suppression
leaves a call alone, only that exit does, section 14); nothing the model has seen in full has become a preview (`ShownStays`), and the last
batch is shown as far as `preserve_recent` allows (`LatestShown`).  `CompactionTorn.cfg` shows that
a split between two results of a parallel batch leaves a call without one of its results, stop matches aside.

Bounds.  `Keep = 2` with batches of two and three calls in all, so that a split falls before, in and
behind a batch; one note, two tasks, one failure before the breaker opens.  The chains are the
default, any of whose stages may do nothing, so that it behaves as the shorter ones do, and
microcompaction alone.  For the torn batch `Keep = 3`.  Ids are not reused, and storing an artifact does not
raise (section 14 says what happens if it does).

## 10. DSL programs: DslRun

### What is modelled

`execute_dsl_step` interprets a program of nested steps by recursion; `stack` holds the steps under way,
the innermost last, each with the sub-steps still to run, what those that ran have reported, and its round.
`phase` is `call` (a step is entered), `await` (a task is at Celery), `next` (a step with sub-steps goes on),
`test` (a loop's condition), `return` and `raise`.  A task answers with a dict, with a dict that tells of a failure,
with a bare value, or raises (`TaskAnswers`), or exceeds its timeout and goes on at its worker (`TaskTimesOut`,
`OverdueEnds`).  A program's names refer to its steps, so that a step may be used in two places.  Conditions are of
two kinds: on what the run was given, which does not change, and on the results so far, which do and may be absent;
then `evaluate_condition` raises.  The status field of a composite step is left out: `TaskStatus` members
never equal the strings they are compared with, so that it says "failed" whatever `completed` says; the
interpreter decides by `completed` alone.

### Runs

`dsl`: what the whole run reports as `completed` is false just when something failed outside loops
(`TopTellsAll`), an exception under an `if` never leaves the run (`IfsContain`), and every run ends (`Ends`).
`DslRunStops.cfg` shows that failures in a loop stop no sequence around it, `DslRunObjects.cfg` that a failure told
by an object counts as completed, `DslRunOverdue.cfg` that the steps of a sequence overlap after a timeout.

Bounds.  Three programs of five or six steps, in which each kind of composite step is in each other one where its
failures are treated differently, with loops of two and three rounds, nested once; `MaxOverdue = 2` tasks beside
the one waited for, for the third behaves as the second.

Fairness.  Weak fairness of the interpreter: a step is plain code, and the wait for a task polls with a timeout.  Nothing is
assumed of overdue tasks.  That `execute_task` blocks the event loop in `result.get`, so that a batch of tasks is serial, no
property is about.

## 11. Confirmations: Confirmation

### What is modelled

Calls of `notify_user` register a callback, tell every client (`Notify`, `SendEnds`, `Wait`), and wait for the
first that confirms (`Answered`), for five minutes (`Deadline`: the timer fires; `Expire`: the call runs on).
Between the two a client may still answer.  Clients confirm what they know, more than once, after a reconnect, and
against each other (`Confirm`); a caller may be cancelled at any await (`GiveUp`).  The package supports Python 3.11 and 3.12, whose
`wait_for` differ in what becomes of an answer around the deadline: the older looks at the future again when the call runs on, the newer
cancels the call when the timer fires and so drops an answer that the call had not yet taken.  `waitFor` is which of them runs, chosen at the start.
`beaten` is history: the calls whose timer fired when they had an answer to take.  The server is started and
stopped by its host, one call at a time.  Heartbeats, pings and subscriptions only send and are left out.

### Runs

`confirm`, with both versions: a call returns the first answer that was accepted, and the default if there was none
(`AnswerKept`); with 3.12, and only then, it returns the default also when its timer fired before it could take the answer, so that a
"no" that was accepted counts as consent (section 14).  Callbacks are registered while they are wanted (`Registered`, of calls that return: a
cancelled one leaves its callback behind); and whoever goes away, or if nobody was there to be told, a call ends
(`NotifyEnds`).  `ConfirmationRestart.cfg` shows that a server started again does not serve.

Bounds.  Two calls, which a client may mix up, and two clients, who may contradict each other; connections come and go and the server
starts and stops without bound.

Fairness.  Weak fairness of each call: a send ends, for the library closes a connection that does not answer its
pings, and a timer fires.  Nobody has to confirm or connect.

## 12. The caches of a tool call: ToolCache

### What is modelled

A search by `run` or `run_async` passes the cache of ToolExecutor, keyed by the arguments (`OuterLook`, `OuterStore`), and
inside it that of the decorator, keyed also by the fingerprint of the routing (`MakeKey`, `InnerLook`, `Store`), with a time to
live by strategy.  Both keep their entries in one LRU store, whose operations are under its lock.  `call` has where each
caller is; `run_async` has one timeout over all attempts, after which the thread goes on for nobody (`TimesOut`, `waited`), and tries
again when the method raises.  `RollOut` changes the routing in the middle of all this, `Clear` empties the cache, `Tick` is the clock.
An entry tells what it was searched with, whether it is the envelope of a failure, its strategy's time to live and when it was
stored; `flaws` is history: what was wrong with what each cache has handed out.

### Runs

`cache`: the decorator's cache hands out nothing older than its strategy allows, no failure, and after a roll-out
nothing from before, also of searches under way (`DecoratorKeeps`).  `ToolCacheFailures.cfg`, `ToolCacheRollOut.cfg` and
`ToolCacheTtl.cfg` show that the executor's cache, in front of it, does all three; agents call their tools by
`run_async` and so meet it.

Bounds.  One query, because others only take room, which `Size = 2` for its three keys gives already; two threads, so that a search under way
meets another that stores; a time to live of one tick in three, so that entries expire, are stored again and meet old deadlines
(two for the default in `ToolCacheTtl.cfg`); one retry; one roll-out.  Threads are symmetric.

No fairness: a search need not end, and that a caller of `run_async` hears of it all the same is the timer of `wait_for`.

## 13. What is proved

The proofs hold for all values of the constants that satisfy the assumptions in the modules
(`DawpAssumption`, `GvrAssumption`, `LoopAssumption`; `QueueAssumption`, `LibertiesAssumption`;
`GuardAssumption`, `RoutingAssumption`; `CommunityAssumption`; `EngineAssumption`;
`ScheduleAssumption`; `CompactionAssumption`; `ProgramAssumption`; `CacheAssumption`), and rest on nothing
else; a theorem that needs more says so in its `ASSUME` (`Calm`, `Honest`, no nameless calls).
Every safety property that a run checks is proved.  All follow the
same pattern: an inductive invariant, one lemma per action or group of actions that it preserves it, and the
properties from the invariant.

* **HybridLoopProofs.**  `IInv` has, besides the properties, three facts that make them inductive.
  `RunInProgress`: a run is active exactly while `pc` is in its chain, below its caps and with budget
  left.  `AnswerPending`: from a round to its decision, the `drained` flag separates an answer that
  nothing followed from one that a run followed, which is why the loop may return only the first.
  `Outcome`: a result, and a goal refined too often, belong to a finished task.  From it
  `TypeCorrect`, `BudgetSafe`, `QuotaSafe`, `AnswerSafe`, `RefinesSafe`, and the action property
  `BudgetMonotone`.
  Its second part proves `LoopKeepsContract`: HybridLoop implements TaskContract.  To `IInv` it adds `Started`: a task
  that has not begun has used nothing, and an answer cost a round.  Each step of the loop is
  then a step of the contract or leaves its four variables alone.
  Its third part proves what is said of the first attempt.  `FirstRuns`: a handoff message is there just at the end of a
  failed run, and an aborting run that has failed leaves no way to an answer.  `FirstChecks`: an iteration finds its
  checkpoints free, whatever was verified before it, so that a policy that is asked looks; and at the STOP hook the
  evidence of task completion is there.  From it `ChecksSafe`, `AbortSafe` and `HandoffSafe`.
* **AgentLifecycleProofs.**  `LifeInv` is the types (with the fact that a busy worker has a job) and `LetGo`:
  what an agent has already let go of in each state and each waiting call.  It holds under all liberties:
  `LifeTypeCorrect` (the count never goes below zero) and `StoppedAgentsLetGo`.  It also has `JobsServed`, which makes `QueueServed`
  inductive: before a queued job that is not exposed stands no sentinel, so that the worker that takes one
  never leaves such a job behind; from it `JobsAreServed`, under all liberties.
  With `Calm` liberties `CalmInv` adds `Standing` (an agent holds the queue from when its plugins are up until they go
  down, and runs one task while BUSY), `Served` (the three phases of the queue: held, with one worker and no sentinel;
  draining for one release, behind the sentinel; let go and empty), `Given` and `InLine` (what the memory keeps, the
  worker has, the queue holds and the task has yet to post is in the order of the tasks).  From it the three invariants
  of `lifecycle`, for any number of agents and jobs.
* **SearchRoutingProofs.**  `GuardInv` has `BucketPaid` (what the last `a` seconds admitted, and what is left,
  was in the full bucket or flowed in during them), `BelowThreshold` and `CountsFailures` (a closed circuit of a backend
  that does not swallow counts the failures in a row).  `Asking` ties a thread that asks to a backend.
  From it `RateSafe`, `BreakerSafe`, `OpenSafe` and `GuardTypeCorrect`.  `RateSafe` needs the one piece of
  arithmetic (`Cancel`): the window's bound is a product divided by the window.
  The batches have an invariant of their own, `Batches`: the route of a query is what its pin gives it, its trail and what it has yet to
  ask make up the route, and nothing before the last backend asked has answered (`WalkInv`).  From it `TypeCorrect` and `ChainSafe`, for
  any chain and number of callers.
* **CommunityProofs.**  A copy may land late, over a newer one, beside others of another age, or not at all, and any part of what is stored
  may come back.  So what is said of a decision (`Sound`: a member counts once, an approval has its support) is in `IInv` of the memory,
  of what is stored and of every copy (`AllSound`), and never relates two keys.  `WrittenStays` is what makes a durable
  vote survive: it and its voter are stored, and no write under way lacks them; a later copy is taken from a memory
  that has them.  `CallsKnown` is that a call on its way has its member on record, so that what `Saved` acknowledges is known.
* **ContextEngineProofs.**  `Carried`: a message under way belongs to one caller, and is not done.  `LogRight`: it is
  logged at its append and not before.  `Ordered`: Redis runs from the newest message and memory from
  the oldest, and neither holds one that has yet to reach it.  `Stored`: what has left its first await is in one
  of the stores; `Rewriting`: a history being refilled has been deleted.  From it the five properties of `context`, and
  `NothingInMemory`: without an outage no copy lies in memory beside Redis.
* **ToolExecutorProofs.**  `RoundsKeepOrder`: for any number of calls and slots, any results and any references that are never
  replaced, the rounds implement CallOrder, when every call has a name: a call is filled with the answers of exactly the calls it refers
  to (`CallInv`), or none starts any more.  `EndsComplete`, also with calls that have none: at the end exactly the runnable calls are
  executed, for they are the least closed set, or a substitution has raised, and then `Breaks` holds.
  Its second part is ToolCache.  `CacheInv`: no key has two entries; an entry of the decorator's (`Sound`) is no failure, was
  searched under the routing of its key or a later one, and the deadline beside it is its own, not that of an entry evicted before it;
  a call that is about to store has found what fits its key (`CallOK`).  The executor's entries are in the same store and need
  none of this.  From it `CacheKeeps` and `CacheTyped`, for any callers, sizes, times to live and retries.
* **CompactionProofs.**  First the operators: a stage only drops messages and shortens results (`Thins`) or frames
  a history with plain messages (`Frames`), and both keep what is said of messages one by one
  (`Good`).  `NewerKeepsPairs` and `RecentKeeps` are the heart: the newer part is closed towards the end,
  so that a call in it keeps all its results, and the split never parts a call from the result
  right behind it, so that sanitising drops only results whose calls are gone.
  A message whose calls were all cut off (`Torn`) has no result to lose, and `Paired` is kept with it.  `IInv` has `Settled` (a result in
  full is one that the budget has looked at and left, so that what the model sees can never be
  replaced), `BatchOpen` (the batch under way is the last thing in the history) and `Breaker`.  From it the types
  and the first three properties of `compaction`, for every chain, `preserve_recent` and size of batches.
  `LatestReaches` counts: `LastBatch` says that behind the message that called the last batch stand no more messages
  than its results and the instructions of hooks, and that each of those results can be read; as long as they fit into
  `preserve_recent`, no stage reaches them, and a hook's instruction adds one to both sides.

* **MessagingProofs.**  Of Confirmation: `Recorded`: what was accepted of a call is what its future has.  `Wanted`: until its deadline
  nobody cancels a future, and its callback stays until an answer comes.  From it `CallbacksRegistered`; and, with what a fired timer leaves in a
  future in either version, `AnswersKept`, under the deadline's race, contradictions and cancelled callers.
  Of DslRun, for every program: `Told` says that a failure outside of loops is known to a step on the stack that is in no loop, or is what is being
  handed back; only an exception on its way up may have lost it, and what catches it has failed itself.  What is
  said of the stack is said of its top and of the rest (`GrownStack`), so that no induction over
  programs is needed.  From it `DslTells`, when failures are told as dicts or exceptions (`Honest`; with objects the
  configuration of section 2 refutes it), and with the ifs around an exception (`Shape`) `DslContains` and `DslTyped`.

Only model-checked are the liveness properties (`Termination`, `JobsAreTaken`, `DownEnds`, `Finishes`, `Ends`, `NotifyEnds`): temporal
logic with fairness and `ENABLED` is out of the provers' reach.  TLC checked the inductive invariants on small
instances before they were proved.

## 14. Divergences met

Shown by a run (`findings` in `PROJECT.json`): a compressed conversation that loses its recent messages.  Shown by the
configurations beside the runs (section 2): an unverified answer after a retry; circuits that never open;
a parallel batch torn by a compression; a loop that hides failures,
a failure told by an object, and steps that overlap, in DSL programs; a server that does not start again; failures, results from before a roll-out, and old results, handed out by the executor's cache.

Met in reading and modelled, without a configuration of their own.  The loop:

* A `stop_match` answer that a check refuses leaves its tool call in the messages without a result, and the next call of the model is sent it
  (`hybrid_agent.py:2246`; `plugins/dawp/suppress.py:10` says why a call must never stay alone).  `CallsHaveResult` names this exit.
* An `abort_main` run that raises does not abort the task (`hybrid_agent.py:1375`), a retry may succeed,
  although the schema describes the flag as aborting the main loop when the run does not succeed (`plugins/dawp/schema.py:213`).
* A run whose last answer carries the completion marker in the round that spends the last of the budget is
  recorded as failed (`prompt_chain_runner.py:289`).
* Gates of the agent and gates of a policy on stop share a checkpoint, so that the second are skipped; a policy on
  stop replaces the STOP hook (`policy_runner.py:397`).

Agents and search:

* The ingest queue is held without a worker when it is acquired while a release waits: the worker is still running, and the sentinel then stops it
  (`ingest_queue.py:78`); a job queued behind the sentinel waits for the next one to be queued.  A task that posts after its own agent's
  plugins went down, or a release without an acquire, shuts the worker down under other holders; and two workers may run at a time
  (against `docs/developer/DOMAIN_TEMPORAL_MEMORY.md:141`).
* The memory plugin's flush at shutdown finds the conversation gone, and a turn that was deferred is dropped
  (`memory_plugin.py:244`, `manager.py:124`, against `domain/temporal_memory/episode_bridge.py:17`).
* A reload does not look for a running task (`base_agent.py:979`); a second task is started on a BUSY agent
  (`hybrid_agent.py:854`), and a streamed task that its entry hook rejects leaves the agent BUSY (1557).
* `restart` never restarts: its `initialize` is refused in every state it can be in.  No operation takes
  an agent out of ERROR other than the end of a task that was still running.
* The router passes an open circuit by without asking the breaker (`router.py:268`), which alone can half-open
  it: once open, it is never tried again, although the setting at `core.py:131` is "Seconds before half-open retry".
* A half-open circuit admits every caller, and one failed probe does not open it again unless the threshold is 1.

Communities:

* ContextEngine has no `set_context`, so that a community given one stores nothing; evaluations,
  arbitrations and escalations are not saved by themselves but with the next save.
* An acknowledged vote may not be stored: a failed `set_context` is logged and swallowed (`community_manager.py:788`, 806) and
  `vote_on_decision` returns True; a save that copied the decisions before the vote may write them after it; and after a load that
  fails the manager goes on with nothing and saves that over what was stored.
* "Unanimous: all active members must vote for" (`decision_engine.py:193`) is one vote for and none against (195).
* A vote with an unknown choice removes the member's earlier vote before it is refused (`community_manager.py:379`).
* After a crash between two keys a roster may name a member without a record; with three callers a vote may stand
  whose voter is not on record.
* A second removal of an old record takes the community out of the index of an agent that has joined again;
  resources of one who leaves go to `leaders[0]`, who may be the one who leaves (438).

Conversations:

* A compression refills the list with `rpush` in the order `lpush` had reversed, so that the history is shown
  backwards afterwards (against the comment at `context_engine.py:857`); what is added between its read and its delete is lost.
* `lpush` puts a message at the head and the trim keeps the tail: at the limit it is the new message that is
  dropped.  `get_conversation_history` pages the oldest messages.
* What an outage put into memory is not seen any more once Redis answers; an ended session comes back
  when an add that had read its record writes it.

Tool calls and compression:

* A reference to a string or a dictionary raises `JSONDecodeError` out of `execute_tools_with_dependencies`, and the results of
  all calls are lost (`base_agent.py:2758`), although the example in its docstring refers to such a result.  A reference with two
  fields is waited for (2681) and never replaced (2763).
* A call without a name raises inside `gather`, which shifts the results of its round onto the wrong calls and
  leaves the last one to run again; alone in its round it is tried for ever ("List of results in same order as tool_calls").
* The session memory keeps its first summary and offers it again (`session_memory.py:100`, `hybrid_agent.py:1845`).
* A prompt that is too long is compacted once in the life of an agent, not once per task; a breaker at its
  maximum is never reset, for only a compression resets it.
* A batch larger than `preserve_recent` may lose all its results; after a session-memory or model summary the system prompt and
  the task's message are gone; instructions of hooks pile up, one for each compression.
* The budget puts a preview back over a result that was cleared.  If storing an artifact raises midway
  (`tool_budget.py:334`, 346), the results before it are recorded as replaced while their messages stay in full.
* Ids of tool calls are taken as unique; a client that numbers them by answer (`vertex_client.py:449`) makes
  the budget take a new result for one it has seen.

DSL, confirmations and caches:

* The status of a sequence, an `if` or a parallel block that has run steps is always "failed" (`dsl_processor.py:414` compares enum members with strings).
* With Python 3.12 an answer that is accepted just before the deadline may be lost, and a refusal count as consent (`websocket_manager.py:240`; `AnswerKept` says when).
* A confirmation that nobody gives in five minutes counts as consent, as documented; a cancelled caller leaves its callback in the registry.
* The deadlines of evicted cache entries are kept for ever; a time to live of 0 means for ever (`execution_utils.py:116`).

Met in parts that are not modelled:

* The cache key of a tool call leaves out the tool (`operation_executor.py:224`).
* No ingest invalidates the search cache of the temporal memory (`search_cache.py:114`).
* A batch that has used up its time gives its remaining queries a timeout of 0, which becomes none (`gemini_grounding.py:210`).

## 15. What is not modelled

Texts (prompts, messages, parsing of DAWP documents, ranking of results, summaries) are data that no property is
about.  Of the modelled components are left out: the helper paths of the agent without plugins, metrics, goals and the
manager's bulk calls; time budgets of the search; resources, activity, mediation and compromise of
a community, and its clock; task contexts, checkpoints, conversation sessions, permanent session events and compression on
append of the context engine; the agent's tool cache; token counts and the legacy compressors; heartbeats and subscriptions of clients; the
Redis layer of the tool cache and `execute_batch`.

Not modelled at all are the parts marked "none" in section 1.  Most are drivers and adapters (LLM clients, storage, knowledge stores),
configuration, or computations on texts (skills, ranking), which have no behaviour of their own to check.  OperationExecutor's
cache and a community's resources have; they come after what is here because less depends on them.

The models do not compose across components: what passes between them is data (a turn, a
message, a search result), and the one state they share, the ingest queue, is inside AgentLifecycle.

## Running

    tlc -workers 2 -config HybridLoop.cfg MCHybridLoop.tla
    tlapm HybridLoopProofs.tla

and likewise with the module and configuration of each run in `PROJECT.json`.
