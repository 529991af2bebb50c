--------------------------- MODULE AgentLifecycle ---------------------------
(***************************************************************************)
(* The agents of a process over their life: the state machine of           *)
(* BaseAIAgent, the plugin manager's initialisation, reload and shutdown,  *)
(* the tasks of a HybridAgent, and the two plugins that keep a             *)
(* conversation, memory and temporal_memory, with their shared ingest      *)
(* queue (IngestQueue).  Every agent asks for temporal memory with         *)
(* asynchronous ingest; one lifecycle call per agent runs at a time.       *)
(***************************************************************************)
EXTENDS IngestQueue

CONSTANT
  Liberties   \* what the surroundings of the agents may do, see Circumstances

\* failure: an initialisation or a reload may fail; pause: an agent may be
\* deactivated; backend: the temporal store may fail to initialise, which the
\* plugin survives; overlap: an agent is initialised or given a task while a
\* shutdown or a reload is waiting;
\* busy: a second task, a shutdown or a restart reaches a BUSY agent;
\* reject: a streamed task is rejected by its entry hook; timeout: the queue
\* takes more than 30 s to drain.
Circumstances == {"failure", "pause", "backend", "overlap", "busy", "reject", "timeout"}

ASSUME LibertiesAssumption == Liberties \subseteq Circumstances

VARIABLES
  state,    \* _state of each agent
  op,       \* the lifecycle call waiting in the agent, or "none"
  loaded,   \* the plugin manager has a load order
  memory,   \* MemoryPlugin._memory is set
  store,    \* temporal_memory_engine is set
  running,  \* tasks in execute_task, and how far: [task, posted]
  taskId,   \* _current_task_id, 0 for None
  owner,    \* the agent of each task, in the order the tasks were given
  convo,    \* the conversation the memory keeps
  held      \* agents that have acquired the queue and not released it (history)

agentVars == <<state, op, loaded, memory, store, running, taskId, owner, convo, held>>
vars == <<queueVars, agentVars>>

States == {"CREATED", "INITIALIZING", "ACTIVE", "BUSY", "IDLE", "ERROR", "STOPPED"}

\* _transition_state: the valid transitions; another raises.
Valid(from, to) ==
  to \in CASE from = "CREATED" -> {"INITIALIZING"}
           [] from = "INITIALIZING" -> {"ACTIVE", "ERROR"}
           [] from = "ACTIVE" -> {"BUSY", "IDLE", "STOPPED", "ERROR"}
           [] from = "BUSY" -> {"ACTIVE", "ERROR"}
           [] from = "IDLE" -> {"ACTIVE", "STOPPED"}
           [] from = "ERROR" -> {"ACTIVE", "STOPPED"}
           [] from = "STOPPED" -> {}

Turn(role, t) == [role |-> role, task |-> t]
Say(a, turn) == convo' = [convo EXCEPT ![a] = Append(@, turn)]

Init ==
  /\ QueueInit
  /\ state = [a \in Agents |-> "CREATED"] /\ op = [a \in Agents |-> "none"]
  /\ loaded = [a \in Agents |-> FALSE] /\ memory = [a \in Agents |-> FALSE]
  /\ store = [a \in Agents |-> FALSE]
  /\ running = [a \in Agents |-> {}] /\ taskId = [a \in Agents |-> 0]
  /\ owner = <<>> /\ convo = [a \in Agents |-> <<>>] /\ held = {}

\* A release is waiting for the worker to drain the queue.
Draining == \E a \in Agents : release[a].of # 0

-----------------------------------------------------------------------------
(* Plugins *)

\* PluginManager.initialize: the memory plugin, then temporal_memory, which
\* acquires the queue if its store came up.
PluginsUp(a) ==
  /\ Draining => "overlap" \in Liberties
  /\ loaded' = [loaded EXCEPT ![a] = TRUE]
  /\ memory' = [memory EXCEPT ![a] = TRUE]
  /\ \/ /\ store' = [store EXCEPT ![a] = TRUE]
        /\ Acquire /\ held' = held \cup {a}
     \/ /\ "backend" \in Liberties
        /\ UNCHANGED <<store, held, queueVars>>

\* PluginManager.shutdown, in reverse order: temporal_memory closes its store
\* and releases the queue, acquired or not; the memory plugin follows once
\* the release has returned.
TemporalDown(a) ==
  /\ store' = [store EXCEPT ![a] = FALSE]
  /\ held' = held \ {a}

\* shutdown: the state is only checked after the plugins are down.
StateStopped(a) ==
  state' = IF Valid(state[a], "STOPPED") THEN [state EXCEPT ![a] = "STOPPED"] ELSE state

-----------------------------------------------------------------------------
(* Lifecycle calls *)

\* initialize, up to the first plugin.
Initialize(a) ==
  /\ op[a] = "none" /\ state[a] = "CREATED"
  /\ state' = [state EXCEPT ![a] = "INITIALIZING"] /\ op' = [op EXCEPT ![a] = "init"]
  /\ UNCHANGED <<queueVars, loaded, memory, store, running, taskId, owner, convo, held>>

Initialized(a) ==
  /\ op[a] = "init"
  /\ PluginsUp(a)
  /\ state' = [state EXCEPT ![a] = "ACTIVE"] /\ op' = [op EXCEPT ![a] = "none"]
  /\ UNCHANGED <<running, taskId, owner, convo>>

\* A plugin before temporal_memory fails to initialise, or the agent fails
\* once its plugins are up (its LLM client, its tools).
InitializeFails(a) ==
  /\ "failure" \in Liberties /\ op[a] = "init"
  /\ state' = [state EXCEPT ![a] = "ERROR"] /\ op' = [op EXCEPT ![a] = "none"]
  /\ \/ UNCHANGED <<queueVars, loaded, memory, store, held>>
     \/ PluginsUp(a)
  /\ UNCHANGED <<running, taskId, owner, convo>>

\* activate; deactivate and restart, which gets no further than IDLE (or
\* ERROR when the agent is BUSY): only CREATED goes to INITIALIZING.
Activate(a) ==
  /\ op[a] = "none" /\ state[a] = "IDLE"
  /\ state' = [state EXCEPT ![a] = "ACTIVE"]
  /\ UNCHANGED <<queueVars, op, loaded, memory, store, running, taskId, owner, convo, held>>

Deactivate(a) ==
  /\ op[a] = "none"
  /\ \/ "pause" \in Liberties /\ state[a] = "ACTIVE" /\ state' = [state EXCEPT ![a] = "IDLE"]
     \/ /\ "busy" \in Liberties /\ state[a] = "BUSY"
        /\ state' = [state EXCEPT ![a] = "ERROR"]
  /\ UNCHANGED <<queueVars, op, loaded, memory, store, running, taskId, owner, convo, held>>

\* The plugins go down for a shutdown, or for a reload that the guard allows.
MayGoDown(a, purpose) ==
  \/ purpose = "stop" /\ (state[a] \in {"ACTIVE", "IDLE", "ERROR"} \/ "busy" \in Liberties)
  \/ /\ purpose = "reload" /\ state[a] # "BUSY" /\ taskId[a] = 0
     /\ state[a] \in {"ACTIVE", "IDLE", "ERROR"}

PluginsDown(a, purpose) ==
  /\ op[a] = "none" /\ MayGoDown(a, purpose)
  /\ \/ loaded[a] /\ TemporalDown(a) /\ (ReleaseWaits(a) \/ ReleaseAtOnce)
     \/ ~loaded[a] /\ purpose = "reload" /\ UNCHANGED <<queueVars, store, held>>
  /\ op' = [op EXCEPT ![a] = purpose]
  /\ UNCHANGED <<state, loaded, memory, running, taskId, owner, convo>>

\* mutant: an agent in ERROR is stopped without its plugins.
StopInError(a) ==
  /\ op[a] = "none" /\ (loaded[a] => state[a] = "ERROR") /\ Valid(state[a], "STOPPED")
  /\ StateStopped(a)
  /\ UNCHANGED <<queueVars, op, loaded, memory, store, running, taskId, owner, convo, held>>

\* An agent whose plugins were never loaded stops at once.
StopUnloaded(a) ==
  /\ op[a] = "none" /\ ~loaded[a] /\ Valid(state[a], "STOPPED")
  /\ StateStopped(a)
  /\ UNCHANGED <<queueVars, op, loaded, memory, store, running, taskId, owner, convo, held>>

Released(a) == release[a].of = 0 /\ UNCHANGED queueVars

\* shutdown goes on: the memory plugin, then the state, if it can be left.
Stopped(a) ==
  /\ op[a] = "stop"
  /\ Released(a) \/ ReleaseEnds(a, "returned")
  /\ memory' = [memory EXCEPT ![a] = FALSE]
  /\ StateStopped(a) /\ op' = [op EXCEPT ![a] = "none"]
  /\ UNCHANGED <<loaded, store, running, taskId, owner, convo, held>>

\* reload_plugins goes on with a new manager: memory down and up again.
Reloaded(a) ==
  /\ op[a] = "reload" /\ release[a].of = 0
  /\ PluginsUp(a)
  /\ op' = [op EXCEPT ![a] = "none"]
  /\ UNCHANGED <<state, running, taskId, owner, convo>>

\* A plugin of the new manager fails to initialise.
ReloadFails(a) ==
  /\ "failure" \in Liberties /\ op[a] = "reload" /\ Released(a)
  /\ loaded' = [loaded EXCEPT ![a] = FALSE] /\ memory' = [memory EXCEPT ![a] = FALSE]
  /\ op' = [op EXCEPT ![a] = "none"]
  /\ UNCHANGED <<state, store, running, taskId, owner, convo, held>>

ReloadResumes(a) ==
  /\ op[a] = "reload" /\ ReleaseEnds(a, "returned")
  /\ memory' = [memory EXCEPT ![a] = FALSE]
  /\ UNCHANGED <<state, op, loaded, store, running, taskId, owner, convo, held>>

\* The release raised, and so does the call it was part of.
DownRaises(a) ==
  /\ op[a] \in {"stop", "reload"} /\ ReleaseEnds(a, "raised")
  /\ op' = [op EXCEPT ![a] = "none"]
  /\ UNCHANGED <<state, loaded, memory, store, running, taskId, owner, convo, held>>

TimesOut(a) == "timeout" \in Liberties /\ ReleaseTimesOut(a) /\ UNCHANGED agentVars

-----------------------------------------------------------------------------
(* Tasks *)

IsNext(t) == t = Len(owner) + 1
Free(a) == op[a] = "none" \/ "overlap" \in Liberties

\* execute_task on an ACTIVE agent.
TaskStarts(a, t) ==
  /\ IsNext(t) /\ Free(a) /\ Valid(state[a], "BUSY")
  /\ state' = [state EXCEPT ![a] = "BUSY"] /\ taskId' = [taskId EXCEPT ![a] = t]
  /\ running' = [running EXCEPT ![a] = @ \cup {[task |-> t, posted |-> FALSE]}]
  /\ owner' = Append(owner, a)
  /\ UNCHANGED <<queueVars, op, loaded, memory, store, convo, held>>

\* execute_task on a BUSY agent fails before the task has a place anywhere,
\* and takes the agent to ERROR.
TaskRefused(a) ==
  /\ "busy" \in Liberties /\ state[a] = "BUSY"
  /\ state' = [state EXCEPT ![a] = "ERROR"] /\ taskId' = [taskId EXCEPT ![a] = 0]
  /\ UNCHANGED <<queueVars, op, loaded, memory, store, running, owner, convo, held>>

\* POST_TASK: memory stores the user turn and defers the assistant's;
\* temporal_memory queues the job that will store it, if its store is up.
PostTask(a, t) ==
  /\ [task |-> t, posted |-> FALSE] \in running[a]
  /\ running' = [running EXCEPT ![a] =
       (@ \ {[task |-> t, posted |-> FALSE]}) \cup {[task |-> t, posted |-> TRUE]}]
  /\ IF memory[a] THEN Say(a, Turn("user", t)) ELSE UNCHANGED convo
  /\ IF store[a] THEN Enqueue(t) ELSE UNCHANGED queueVars
  /\ UNCHANGED <<state, op, loaded, memory, store, taskId, owner, held>>

\* execute_task returns, if the agent can become ACTIVE again.
TaskEnds(a, t) ==
  /\ [task |-> t, posted |-> TRUE] \in running[a]
  /\ running' = [running EXCEPT ![a] = @ \ {[task |-> t, posted |-> TRUE]}]
  /\ IF Valid(state[a], "ACTIVE")
     THEN state' = [state EXCEPT ![a] = "ACTIVE"] /\ taskId' = [taskId EXCEPT ![a] = 0]
     ELSE UNCHANGED <<state, taskId>>
  /\ UNCHANGED <<queueVars, op, loaded, memory, store, owner, convo, held>>

\* The loop raises: the agent is in ERROR.
TaskFails(a, t) ==
  /\ [task |-> t, posted |-> FALSE] \in running[a]
  /\ running' = [running EXCEPT ![a] = @ \ {[task |-> t, posted |-> FALSE]}]
  /\ IF Valid(state[a], "ERROR")
     THEN state' = [state EXCEPT ![a] = "ERROR"] /\ taskId' = [taskId EXCEPT ![a] = 0]
     ELSE UNCHANGED <<state, taskId>>
  /\ UNCHANGED <<queueVars, op, loaded, memory, store, owner, convo, held>>

\* A streamed task that its entry hook rejects goes through POST_TASK and
\* returns without leaving BUSY.
TaskRejected(a, t) ==
  /\ "reject" \in Liberties /\ [task |-> t, posted |-> TRUE] \in running[a]
  /\ running' = [running EXCEPT ![a] = @ \ {[task |-> t, posted |-> TRUE]}]
  /\ UNCHANGED <<queueVars, state, op, loaded, memory, store, taskId, owner, convo, held>>

-----------------------------------------------------------------------------
(* The worker *)

\* flush_pending_assistant_turn stores the assistant turn of a job, if the
\* memory plugin is still up.
FlushTurn(w) ==
  LET t == worker[w].job IN
  /\ Flushed(w)
  /\ IF memory[owner[t]] THEN Say(owner[t], Turn("assistant", t)) ELSE UNCHANGED convo
  /\ UNCHANGED <<state, op, loaded, memory, store, running, taskId, owner, held>>

WorkerStep(w) ==
  \/ (TakeItem(w) \/ Ingested(w)) /\ UNCHANGED agentVars
  \/ FlushTurn(w)

\* A shutdown or a reload goes on after its wait for the worker.
Resumes(a) == Stopped(a) \/ Reloaded(a) \/ ReloadFails(a) \/ ReloadResumes(a) \/ DownRaises(a)

\* What goes on by itself once it has begun.
Progress(a) ==
  \/ Initialized(a) \/ InitializeFails(a) \/ Resumes(a)
  \/ \E t \in Jobs : PostTask(a, t) \/ TaskEnds(a, t) \/ TaskFails(a, t) \/ TaskRejected(a, t)

\* What is asked of an agent.
Request(a) ==
  \/ Initialize(a) \/ Activate(a) \/ Deactivate(a) \/ StopUnloaded(a)
  \/ PluginsDown(a, "stop") \/ PluginsDown(a, "reload") \/ TimesOut(a)
  \/ TaskRefused(a) \/ \E t \in Jobs : TaskStarts(a, t)

\* Every agent is stopped, or left BUSY by a rejected stream.
AtRest ==
  /\ \A a \in Agents : state[a] \in {"STOPPED", "BUSY"} /\ op[a] = "none" /\ running[a] = {}
  /\ UNCHANGED vars

Next ==
  \/ \E a \in Agents : Progress(a) \/ Request(a)
  \/ \E w \in Ids : WorkerStep(w)
  \/ AtRest

Spec == Init /\ [][Next]_vars

\* The event loop resumes a worker that can go on.
FairSpec == Spec /\ \A w \in Ids : WF_vars(WorkerStep(w))

\* The timer of a wait_for fires and a shutdown or a reload is resumed,
\* though the worker may hang in its job for ever.
TimerSpec == Spec /\ \A a \in Agents : WF_vars(Resumes(a) \/ TimesOut(a))

-----------------------------------------------------------------------------
(* Properties *)

\* The values the variables range over.
TypeOK ==
  /\ QueueTypeOK
  /\ state \in [Agents -> States]
  /\ op \in [Agents -> {"none", "init", "stop", "reload"}]
  /\ loaded \in [Agents -> BOOLEAN] /\ memory \in [Agents -> BOOLEAN] /\ store \in [Agents -> BOOLEAN]
  /\ running \in [Agents -> SUBSET [task : Jobs, posted : BOOLEAN]]
  /\ taskId \in [Agents -> Jobs \cup {0}]
  /\ owner \in Seq(Agents)
  /\ convo \in [Agents -> Seq([role : {"user", "assistant"}, task : Jobs])]
  /\ held \subseteq Agents

\* The reference count is the number of agents that hold the queue.
HoldersCounted == holders = Cardinality(held)

\* A job that is queued has a worker to take it, also when the queue is no
\* longer held, was never acquired, or was shut down under another holder:
\* unless it was queued behind the sentinel of a shutdown, or the shutdown
\* gave up and cancelled a worker.
QueueServed == \A t \in Jobs : InQueue(t) /\ t \notin exposed => LiveWorkers # {}

\* When nobody holds the queue and no release is waiting, it is drained: the
\* last agent out leaves no job behind.
DrainedWhenUnheld ==
  held = {} /\ (\A a \in Agents : release[a].of = 0) /\ ~(\E w \in Ids : worker[w].state = "cancelled")
    => queue = <<>> /\ LiveWorkers = {}

\* The assistant turns of an agent are stored in the order of its tasks.
TurnsInOrder ==
  \A a \in Agents : \A i, j \in 1 .. Len(convo[a]) :
    i < j /\ convo[a][i].role = convo[a][j].role => convo[a][i].task < convo[a][j].task

\* However a shutdown came about, an agent that has got to STOPPED holds
\* nothing: not the queue, no store, no memory.
StoppedHoldsNothing ==
  \A a \in Agents : state[a] = "STOPPED" => a \notin held /\ ~store[a] /\ ~memory[a]

\* A queued job is ingested, unless a timeout has cancelled the worker.
JobsAreTaken ==
  \A t \in Jobs : InQueue(t) ~> (~InQueue(t) \/ \E w \in Ids : worker[w].state = "cancelled")

\* A shutdown or a reload comes to an end, whatever the worker does.
DownEnds == \A a \in Agents : op[a] \in {"stop", "reload"} ~> op[a] = "none"
=============================================================================
