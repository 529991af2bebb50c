------------------------ MODULE AgentLifecycleProofs ------------------------
(***************************************************************************)
(* What holds of AgentLifecycle for any number of agents and jobs.         *)
(* Whatever liberties the surroundings take, the variables keep their      *)
(* types, an agent that has reached STOPPED holds nothing, and a job that  *)
(* is not exposed has a worker.  Where the calls to an agent do not        *)
(* overlap and no store or drain fails, the shared queue is counted,       *)
(* drained and emptied in order.                                           *)
(***************************************************************************)
EXTENDS AgentLifecycle, FiniteSetTheorems, TLAPS

-----------------------------------------------------------------------------
(* The queue *)

\* A queued job that is not exposed has a worker and no sentinel before it.
JobsServed ==
  \A i \in 1 .. Len(queue) : queue[i] \in Jobs \ exposed =>
    LiveWorkers # {} /\ \A k \in 1 .. i : queue[k] # Sentinel

\* The type of the queue, with the job of a worker that is busy with one.
QueueInv ==
  /\ QueueTypeOK
  /\ JobsServed
  /\ \A w \in Ids : worker[w].state \in {"ingesting", "flushing"} => worker[w].job \in Jobs

\* A worker started by an acquire or an enqueue is one of the bounded ids.
LEMMA StartTyped ==
  ASSUME QueueInv, Start
  PROVE  /\ current' \in 0 .. MaxWorkers
         /\ worker' \in [Ids -> [state : WorkerStates, job : Jobs \cup {NoJob}]]
         /\ \A w \in Ids : worker'[w].state \in {"ingesting", "flushing"} => worker'[w].job \in Jobs
  <1>1. CASE UNCHANGED <<current, worker>>
    BY <1>1 DEF QueueInv, QueueTypeOK
  <1>2. CASE \E w \in Ids : current' = w /\ worker' = [worker EXCEPT ![w] = At("waiting")]
    <2>1. PICK w \in Ids : current' = w /\ worker' = [worker EXCEPT ![w] = At("waiting")]
      BY <1>2
    <2>2. current' \in 0 .. MaxWorkers
      BY <2>1, QueueAssumption DEF Ids
    <2>3. At("waiting") \in [state : WorkerStates, job : Jobs \cup {NoJob}]
      BY DEF At, NoJob, WorkerStates
    <2>4. At("waiting").state = "waiting"
      BY DEF At
    <2> QED
      BY <2>1, <2>2, <2>3, <2>4 DEF QueueInv, QueueTypeOK
  <1> QED
    BY <1>1, <1>2 DEF Start

\* After a start a worker lives, and those that did live on.
LEMMA StartServes == ASSUME QueueInv, Start PROVE LiveWorkers' # {}
  <1>1. worker \in [Ids -> [state : WorkerStates, job : Jobs \cup {NoJob}]] /\ current \in 0 .. MaxWorkers
    BY DEF QueueInv, QueueTypeOK
  <1>2. CASE Running /\ UNCHANGED <<current, worker>>
    BY <1>1, <1>2, QueueAssumption DEF Running, LiveWorkers, Live, Ids
  <1>3. CASE \E w \in Ids : worker' = [worker EXCEPT ![w] = At("waiting")]
    BY <1>1, <1>3 DEF LiveWorkers, Live, At
  <1> QED
    BY <1>2, <1>3 DEF Start

\* The operations that start a worker keep the type of the queue.
LEMMA AcquireTyped == ASSUME QueueInv, Acquire PROVE QueueInv'
  <1>1. holders' \in Nat
    BY DEF QueueInv, QueueTypeOK, Acquire
  <1>2. JobsServed'
    BY StartServes DEF QueueInv, JobsServed, Acquire
  <1> QED
    BY <1>1, <1>2, StartTyped DEF QueueInv, QueueTypeOK, Acquire

LEMMA EnqueueTyped == ASSUME QueueInv, NEW t \in Jobs, Enqueue(t) PROVE QueueInv'
  <1>1. queue' \in Seq(Jobs \cup {Sentinel}) /\ exposed' \subseteq Jobs
    BY DEF QueueInv, QueueTypeOK, Enqueue, Joins
  <1>2. JobsServed'
    <2>1. SUFFICES ASSUME NEW i \in 1 .. Len(queue'), queue'[i] \in Jobs \ exposed', NEW k \in 1 .. i
                   PROVE  queue'[k] # Sentinel
      BY StartServes DEF JobsServed, Enqueue
    <2>2. /\ queue \in Seq(Jobs \cup {Sentinel}) /\ queue' = Append(queue, t)
          /\ exposed' = IF InQueue(Sentinel) THEN exposed \cup {t} ELSE exposed
      BY DEF QueueInv, QueueTypeOK, Enqueue, Joins
    <2>3. /\ Len(queue) \in Nat /\ Len(queue') = Len(queue) + 1
          /\ queue'[Len(queue) + 1] = t
          /\ \A j \in 1 .. Len(queue) : queue'[j] = queue[j]
      BY <2>2
    <2>4. CASE i \in 1 .. Len(queue)
      BY <2>1, <2>2, <2>3, <2>4 DEF QueueInv, JobsServed
    <2>5. CASE i = Len(queue) + 1
      <3>1. ~InQueue(Sentinel) /\ t # Sentinel
        BY <2>1, <2>2, <2>3, <2>5, QueueAssumption DEF Sentinel
      <3> QED
        BY <2>1, <2>3, <2>5, <3>1 DEF InQueue
    <2> QED
      BY <2>3, <2>4, <2>5
  <1> QED
    BY <1>1, <1>2, StartTyped DEF QueueInv, QueueTypeOK, Enqueue, Joins

\* A release keeps the type of the queue: the count does not go below zero.
LEMMA ReleaseTyped ==
  ASSUME QueueInv, NEW a \in Agents, ReleaseAtOnce \/ ReleaseWaits(a)
  PROVE  QueueInv'
  <1>1. CASE ReleaseAtOnce
    <2>1. JobsServed'
      BY <1>1 DEF QueueInv, JobsServed, LiveWorkers, Live, ReleaseAtOnce
    <2> QED
      BY <1>1, <2>1 DEF QueueInv, QueueTypeOK, ReleaseAtOnce
  <1>2. CASE ReleaseWaits(a)
    <2>1. queue' \in Seq(Jobs \cup {Sentinel})
      BY <1>2 DEF QueueInv, QueueTypeOK, ReleaseWaits
    <2>2. release' \in [Agents -> [of : 0 .. MaxWorkers, late : BOOLEAN]]
      BY <1>2 DEF QueueInv, QueueTypeOK, ReleaseWaits
    <2>3. JobsServed'
      <3>1. /\ queue \in Seq(Jobs \cup {Sentinel}) /\ queue' = Append(queue, Sentinel)
            /\ LiveWorkers' = LiveWorkers /\ exposed' = exposed
        BY <1>2 DEF QueueInv, QueueTypeOK, ReleaseWaits, LiveWorkers, Live
      <3>2. /\ Len(queue) \in Nat /\ Len(queue') = Len(queue) + 1
            /\ queue'[Len(queue) + 1] \notin Jobs
            /\ \A j \in 1 .. Len(queue) : queue'[j] = queue[j]
        BY <3>1, QueueAssumption DEF Sentinel
      <3> QED
        BY <3>1, <3>2 DEF QueueInv, JobsServed
    <2> QED
      BY <1>2, <2>1, <2>2, <2>3 DEF QueueInv, QueueTypeOK, ReleaseWaits
  <1> QED
    BY <1>1, <1>2

\* When a worker is cancelled every queued job is exposed.
LEMMA ExposeServes ==
  ASSUME QueueInv, Expose, UNCHANGED queue
  PROVE  JobsServed' /\ exposed' \subseteq Jobs
  BY DEF QueueInv, QueueTypeOK, Expose, JobsServed, InQueue

\* The end of a release, and its timeout, keep the type of the queue.
LEMMA ReleaseEndsTyped ==
  ASSUME QueueInv, NEW a \in Agents, NEW how, ReleaseEnds(a, how)
  PROVE  QueueInv'
  <1>1. release' \in [Agents -> [of : 0 .. MaxWorkers, late : BOOLEAN]]
    BY QueueAssumption DEF QueueInv, QueueTypeOK, ReleaseEnds, NotReleasing
  <1>2. /\ current' \in 0 .. MaxWorkers
        /\ worker' \in [Ids -> [state : WorkerStates, job : Jobs \cup {NoJob}]]
        /\ \A w \in Ids : worker'[w].state \in {"ingesting", "flushing"} => worker'[w].job \in Jobs
    <2>1. At("cancelled") \in [state : WorkerStates, job : Jobs \cup {NoJob}]
          /\ At("cancelled").state = "cancelled"
      BY DEF At, NoJob, WorkerStates
    <2>2. CASE UNCHANGED worker /\ (UNCHANGED current \/ current' = 0)
      BY <2>2, QueueAssumption DEF QueueInv, QueueTypeOK
    <2>3. CASE worker' = [worker EXCEPT ![current] = At("cancelled")] /\ current' = 0
      <3>1. current' \in 0 .. MaxWorkers
        BY <2>3, QueueAssumption
      <3>2. worker' \in [Ids -> [state : WorkerStates, job : Jobs \cup {NoJob}]]
        BY <2>1, <2>3 DEF QueueInv, QueueTypeOK
      <3>3. ASSUME NEW w \in Ids, worker'[w].state \in {"ingesting", "flushing"}
            PROVE  worker'[w].job \in Jobs
        <4>1. worker'[w] = IF w = current THEN At("cancelled") ELSE worker[w]
          BY <2>3 DEF QueueInv, QueueTypeOK
        <4>2. w # current
          BY <3>3, <4>1, <2>1
        <4> QED
          BY <3>3, <4>1, <4>2 DEF QueueInv
      <3> QED
        BY <3>1, <3>2, <3>3
    <2> QED
      BY <2>2, <2>3 DEF ReleaseEnds
  <1>3. JobsServed' /\ exposed' \subseteq Jobs
    <2>1. queue' = queue /\ (Expose \/ UNCHANGED <<worker, exposed>>)
      BY DEF ReleaseEnds
    <2>2. CASE UNCHANGED <<worker, exposed>>
      BY <2>1, <2>2 DEF QueueInv, QueueTypeOK, JobsServed, LiveWorkers, Live
    <2> QED
      BY <2>1, <2>2, ExposeServes
  <1> QED
    BY <1>1, <1>2, <1>3 DEF QueueInv, QueueTypeOK, ReleaseEnds

LEMMA TimeoutTyped == ASSUME QueueInv, NEW a \in Agents, ReleaseTimesOut(a) PROVE QueueInv'
  <1>1. release' \in [Agents -> [of : 0 .. MaxWorkers, late : BOOLEAN]]
    BY DEF QueueInv, QueueTypeOK, ReleaseTimesOut
  <1>2. /\ worker' \in [Ids -> [state : WorkerStates, job : Jobs \cup {NoJob}]]
        /\ \A w \in Ids : worker'[w].state \in {"ingesting", "flushing"} => worker'[w].job \in Jobs
    BY DEF QueueInv, QueueTypeOK, ReleaseTimesOut, Ids, At, NoJob, WorkerStates
  <1>3. JobsServed' /\ exposed' \subseteq Jobs
    BY ExposeServes DEF ReleaseTimesOut
  <1> QED
    BY <1>1, <1>2, <1>3 DEF QueueInv, QueueTypeOK, ReleaseTimesOut

\* What a worker takes from the queue is a job of the queue or the sentinel.
LEMMA WorkTyped ==
  ASSUME QueueInv, NEW w \in Ids, TakeItem(w) \/ Ingested(w) \/ Flushed(w)
  PROVE  QueueInv'
  <1>1. CASE TakeItem(w)
    <2>1. /\ queue' \in Seq(Jobs \cup {Sentinel})
          /\ Head(queue) \in Jobs \cup {Sentinel}
      BY <1>1 DEF QueueInv, QueueTypeOK, TakeItem
    <2>2. /\ worker' \in [Ids -> [state : WorkerStates, job : Jobs \cup {NoJob}]]
          /\ \A v \in Ids : worker'[v].state \in {"ingesting", "flushing"} => worker'[v].job \in Jobs
      BY <1>1, <2>1 DEF QueueInv, QueueTypeOK, TakeItem, At, NoJob, WorkerStates
    <2>3. exposed' \subseteq Jobs
      BY <1>1 DEF QueueInv, QueueTypeOK, TakeItem
    <2>4. JobsServed'
      <3>1. SUFFICES ASSUME NEW i \in 1 .. Len(queue'), queue'[i] \in Jobs \ exposed'
                     PROVE  LiveWorkers' # {} /\ \A k \in 1 .. i : queue'[k] # Sentinel
        BY DEF JobsServed
      <3>2. queue \in Seq(Jobs \cup {Sentinel}) /\ queue # <<>> /\ queue' = Tail(queue)
        BY <1>1 DEF QueueInv, QueueTypeOK, TakeItem
      <3>3. /\ Len(queue) \in Nat \ {0} /\ Len(queue') = Len(queue) - 1
            /\ \A j \in 1 .. Len(queue') : queue'[j] = queue[j + 1]
            /\ Head(queue) = queue[1]
        BY <3>2
      <3>4. i + 1 \in 2 .. Len(queue) /\ queue[i + 1] \in Jobs
        BY <3>1, <3>3
      <3>5. queue[i + 1] \notin exposed
        BY <1>1, <3>1, <3>3, <3>4 DEF TakeItem
      <3>6. \A k \in 1 .. i + 1 : queue[k] # Sentinel
        BY <3>3, <3>4, <3>5 DEF QueueInv, JobsServed
      <3>7. \A k \in 1 .. i : queue'[k] # Sentinel
        BY <3>3, <3>6
      <3>8. Head(queue) # Sentinel
        BY <3>3, <3>6
      <3>9. worker' = [worker EXCEPT ![w] = [state |-> "ingesting", job |-> Head(queue)]]
        BY <1>1, <3>8 DEF TakeItem
      <3>10. w \in LiveWorkers'
        BY <3>9 DEF QueueInv, QueueTypeOK, LiveWorkers, Live
      <3> QED
        BY <3>7, <3>10
    <2> QED
      BY <1>1, <2>1, <2>2, <2>3, <2>4 DEF QueueInv, QueueTypeOK, TakeItem
  <1>2. CASE Ingested(w)
    <2>1. /\ worker' \in [Ids -> [state : WorkerStates, job : Jobs \cup {NoJob}]]
          /\ \A v \in Ids : worker'[v].state \in {"ingesting", "flushing"} => worker'[v].job \in Jobs
      BY <1>2 DEF QueueInv, QueueTypeOK, Ingested, WorkerStates
    <2>2. w \in LiveWorkers'
      BY <1>2 DEF QueueInv, QueueTypeOK, Ingested, LiveWorkers, Live, At
    <2>3. JobsServed'
      BY <1>2, <2>2 DEF QueueInv, JobsServed, Ingested
    <2> QED
      BY <1>2, <2>1, <2>3 DEF QueueInv, QueueTypeOK, Ingested
  <1>3. CASE Flushed(w)
    <2>1. /\ worker' \in [Ids -> [state : WorkerStates, job : Jobs \cup {NoJob}]]
          /\ \A v \in Ids : worker'[v].state \in {"ingesting", "flushing"} => worker'[v].job \in Jobs
      BY <1>3 DEF QueueInv, QueueTypeOK, Flushed, At, NoJob, WorkerStates
    <2>2. w \in LiveWorkers'
      BY <1>3 DEF QueueInv, QueueTypeOK, Flushed, LiveWorkers, Live, At
    <2>3. JobsServed'
      BY <1>3, <2>2 DEF QueueInv, JobsServed, Flushed
    <2> QED
      BY <1>3, <2>1, <2>3 DEF QueueInv, QueueTypeOK, Flushed
  <1> QED
    BY <1>1, <1>2, <1>3

LEMMA QueueUnchanged == ASSUME QueueInv, UNCHANGED queueVars PROVE QueueInv'
  BY DEF QueueInv, QueueTypeOK, JobsServed, LiveWorkers, Live, queueVars

-----------------------------------------------------------------------------
(* The agents *)

\* The types of the agents' own variables.
AgentTypeOK ==
  /\ state \in [Agents -> States]
  /\ op \in [Agents -> {"none", "init", "stop", "reload"}]
  /\ loaded \in [Agents -> BOOLEAN] /\ memory \in [Agents -> BOOLEAN] /\ store \in [Agents -> BOOLEAN]
  /\ running \in [Agents -> SUBSET [task : Jobs, posted : BOOLEAN]]
  /\ taskId \in [Agents -> Jobs \cup {0}]
  /\ owner \in Seq(Agents)
  /\ convo \in [Agents -> Seq([role : {"user", "assistant"}, task : Jobs])]
  /\ held \subseteq Agents

\* Why a stopped agent holds nothing.  STOPPED is only entered at the end of
\* a stop, after the store and the hold are gone, or when no plugin was ever
\* loaded; and no initialisation or reload is on its way then, or ever again.
LetGo ==
  \A a \in Agents :
    /\ ~loaded[a] => a \notin held /\ ~store[a] /\ ~memory[a]
    /\ op[a] \in {"stop", "reload"} => a \notin held /\ ~store[a]
    /\ op[a] \in {"init", "reload"} => state[a] # "STOPPED"
    /\ state[a] = "STOPPED" => a \notin held /\ ~store[a] /\ ~memory[a]

\* The inductive invariant.
LifeInv == QueueInv /\ AgentTypeOK /\ LetGo

\* Appending to a sequence keeps its type.
LEMMA AppendTyped == ASSUME NEW T, NEW s \in Seq(T), NEW x \in T PROVE Append(s, x) \in Seq(T)
  OBVIOUS

\* Adding tasks to an agent, or removing them, keeps the type of the tasks.
LEMMA TasksTyped ==
  ASSUME NEW Task, running \in [Agents -> SUBSET Task], NEW a \in Agents,
         NEW Removed, NEW Added \in SUBSET Task,
         running' = [running EXCEPT ![a] = (@ \ Removed) \cup Added]
  PROVE  running' \in [Agents -> SUBSET Task]
  <1>1. \A b \in Agents : running[b] \subseteq Task
    OBVIOUS
  <1>2. (running[a] \ Removed) \cup Added \in SUBSET Task
    BY <1>1
  <1> QED
    BY <1>2

\* Appending a turn keeps the type of the conversations.
LEMMA SayTyped ==
  ASSUME AgentTypeOK, NEW a, NEW role \in {"user", "assistant"}, NEW t \in Jobs, Say(a, Turn(role, t))
  PROVE  convo' \in [Agents -> Seq([role : {"user", "assistant"}, task : Jobs])]
  <1>1. Turn(role, t) \in [role : {"user", "assistant"}, task : Jobs]
    BY DEF Turn
  <1> DEFINE T == [role : {"user", "assistant"}, task : Jobs]
  <1>2. \A b \in Agents : Append(convo[b], Turn(role, t)) \in Seq(T)
    <2>1. SUFFICES ASSUME NEW b \in Agents PROVE Append(convo[b], Turn(role, t)) \in Seq(T)
      OBVIOUS
    <2>2. convo[b] \in Seq(T)
      BY DEF AgentTypeOK
    <2> HIDE DEF T
    <2> QED
      BY <1>1, <2>2, AppendTyped DEF T
  <1> QED
    BY <1>2 DEF AgentTypeOK, Say

\* The first state satisfies the invariant.
LEMMA LifeInit == ASSUME Init PROVE LifeInv
  <1>1. QueueInv
    BY QueueAssumption DEF Init, QueueInit, QueueInv, QueueTypeOK, JobsServed, At, Ids, NoJob, WorkerStates, NotReleasing
  <1>2. AgentTypeOK /\ LetGo
    BY DEF Init, AgentTypeOK, LetGo, States
  <1> QED
    BY <1>1, <1>2 DEF LifeInv

\* Initialisation sets INITIALIZING before anything else.
LEMMA InitializeKeeps ==
  ASSUME LifeInv, NEW a \in Agents, Initialize(a)
  PROVE  LifeInv'
  <1>1. QueueInv'
    BY QueueUnchanged DEF LifeInv, Initialize
  <1>2. AgentTypeOK'
    BY DEF LifeInv, AgentTypeOK, States, Initialize
  <1>3. LetGo'
    BY DEF LifeInv, AgentTypeOK, States, LetGo, Initialize
  <1> QED
    BY <1>1, <1>2, <1>3 DEF LifeInv

\* An initialised agent is ACTIVE, whatever its plugins acquired.
LEMMA InitializedKeeps ==
  ASSUME LifeInv, NEW a \in Agents, Initialized(a)
  PROVE  LifeInv'
  <1>1. QueueInv'
    BY AcquireTyped, QueueUnchanged DEF LifeInv, Initialized, PluginsUp
  <1>2. AgentTypeOK'
    BY DEF LifeInv, AgentTypeOK, States, Initialized, PluginsUp
  <1>3. LetGo'
    BY DEF LifeInv, AgentTypeOK, States, LetGo, Initialized, PluginsUp
  <1> QED
    BY <1>1, <1>2, <1>3 DEF LifeInv

\* A failed initialisation leaves ERROR, from where a stop is still possible.
LEMMA InitializeFailsKeeps ==
  ASSUME LifeInv, NEW a \in Agents, InitializeFails(a)
  PROVE  LifeInv'
  <1>1. QueueInv'
    BY AcquireTyped, QueueUnchanged DEF LifeInv, InitializeFails, PluginsUp, queueVars
  <1>2. AgentTypeOK'
    BY DEF LifeInv, AgentTypeOK, States, InitializeFails, PluginsUp
  <1>3. LetGo'
    BY DEF LifeInv, AgentTypeOK, States, LetGo, InitializeFails, PluginsUp
  <1> QED
    BY <1>1, <1>2, <1>3 DEF LifeInv

\* Activation touches the state alone.
LEMMA ActivateKeeps ==
  ASSUME LifeInv, NEW a \in Agents, Activate(a)
  PROVE  LifeInv'
  <1>1. QueueInv'
    BY QueueUnchanged DEF LifeInv, Activate
  <1>2. AgentTypeOK'
    BY DEF LifeInv, AgentTypeOK, States, Activate
  <1>3. LetGo'
    BY DEF LifeInv, AgentTypeOK, States, LetGo, Activate
  <1> QED
    BY <1>1, <1>2, <1>3 DEF LifeInv

\* So does deactivation.
LEMMA DeactivateKeeps ==
  ASSUME LifeInv, NEW a \in Agents, Deactivate(a)
  PROVE  LifeInv'
  <1>1. QueueInv'
    BY QueueUnchanged DEF LifeInv, Deactivate
  <1>2. AgentTypeOK'
    BY DEF LifeInv, AgentTypeOK, States, Deactivate
  <1>3. LetGo'
    BY DEF LifeInv, AgentTypeOK, States, LetGo, Deactivate
  <1> QED
    BY <1>1, <1>2, <1>3 DEF LifeInv

\* The plugins go down before the state changes.
LEMMA PluginsDownKeeps ==
  ASSUME LifeInv, NEW a \in Agents, NEW p \in {"stop", "reload"}, PluginsDown(a, p)
  PROVE  LifeInv'
  <1>1. QueueInv'
    BY ReleaseTyped, QueueUnchanged DEF LifeInv, PluginsDown, queueVars
  <1>2. AgentTypeOK'
    BY DEF LifeInv, AgentTypeOK, PluginsDown, TemporalDown
  <1>3. LetGo'
    BY DEF LifeInv, AgentTypeOK, LetGo, PluginsDown, TemporalDown, MayGoDown
  <1> QED
    BY <1>1, <1>2, <1>3 DEF LifeInv

\* An agent without plugins has nothing to let go of.
LEMMA StopUnloadedKeeps ==
  ASSUME LifeInv, NEW a \in Agents, StopUnloaded(a)
  PROVE  LifeInv'
  <1>1. QueueInv'
    BY QueueUnchanged DEF LifeInv, StopUnloaded
  <1>2. AgentTypeOK'
    BY DEF LifeInv, AgentTypeOK, States, StopUnloaded, StateStopped
  <1>3. LetGo'
    BY DEF LifeInv, AgentTypeOK, States, LetGo, StopUnloaded, StateStopped
  <1> QED
    BY <1>1, <1>2, <1>3 DEF LifeInv

\* A stop ends with the memory gone, and then the state.
LEMMA StoppedKeeps ==
  ASSUME LifeInv, NEW a \in Agents, Stopped(a)
  PROVE  LifeInv'
  <1>1. QueueInv'
    BY ReleaseEndsTyped, QueueUnchanged DEF LifeInv, Stopped, Released
  <1>2. AgentTypeOK'
    BY DEF LifeInv, AgentTypeOK, States, Stopped, StateStopped
  <1>3. LetGo'
    BY DEF LifeInv, AgentTypeOK, States, LetGo, Stopped, StateStopped
  <1> QED
    BY <1>1, <1>2, <1>3 DEF LifeInv

\* A reload that acquires again is not of a STOPPED agent.
LEMMA ReloadedKeeps ==
  ASSUME LifeInv, NEW a \in Agents, Reloaded(a)
  PROVE  LifeInv'
  <1>1. QueueInv'
    BY AcquireTyped, QueueUnchanged DEF LifeInv, Reloaded, PluginsUp
  <1>2. AgentTypeOK'
    BY DEF LifeInv, AgentTypeOK, States, Reloaded, PluginsUp
  <1>3. LetGo'
    BY DEF LifeInv, AgentTypeOK, States, LetGo, Reloaded, PluginsUp
  <1> QED
    BY <1>1, <1>2, <1>3 DEF LifeInv

\* A reload that fails leaves no plugin behind.
LEMMA ReloadFailsKeeps ==
  ASSUME LifeInv, NEW a \in Agents, ReloadFails(a)
  PROVE  LifeInv'
  <1>1. QueueInv'
    BY QueueUnchanged DEF LifeInv, ReloadFails, Released
  <1>2. AgentTypeOK'
    BY DEF LifeInv, AgentTypeOK, States, ReloadFails
  <1>3. LetGo'
    BY DEF LifeInv, AgentTypeOK, States, LetGo, ReloadFails
  <1> QED
    BY <1>1, <1>2, <1>3 DEF LifeInv

\* A reload that has waited goes on.
LEMMA ReloadResumesKeeps ==
  ASSUME LifeInv, NEW a \in Agents, ReloadResumes(a)
  PROVE  LifeInv'
  <1>1. QueueInv'
    BY ReleaseEndsTyped DEF LifeInv, ReloadResumes
  <1>2. AgentTypeOK'
    BY DEF LifeInv, AgentTypeOK, States, ReloadResumes
  <1>3. LetGo'
    BY DEF LifeInv, AgentTypeOK, States, LetGo, ReloadResumes
  <1> QED
    BY <1>1, <1>2, <1>3 DEF LifeInv

\* A call that fails leaves the state as it is.
LEMMA DownRaisesKeeps ==
  ASSUME LifeInv, NEW a \in Agents, DownRaises(a)
  PROVE  LifeInv'
  <1>1. QueueInv'
    BY ReleaseEndsTyped DEF LifeInv, DownRaises
  <1>2. AgentTypeOK'
    BY DEF LifeInv, AgentTypeOK, States, DownRaises
  <1>3. LetGo'
    BY DEF LifeInv, AgentTypeOK, States, LetGo, DownRaises
  <1> QED
    BY <1>1, <1>2, <1>3 DEF LifeInv

\* A timeout concerns the queue alone.
LEMMA TimesOutKeeps ==
  ASSUME LifeInv, NEW a \in Agents, TimesOut(a)
  PROVE  LifeInv'
  <1>1. QueueInv'
    BY TimeoutTyped DEF LifeInv, TimesOut
  <1>2. AgentTypeOK'
    BY DEF LifeInv, AgentTypeOK, States, TimesOut, agentVars
  <1>3. LetGo'
    BY DEF LifeInv, AgentTypeOK, States, LetGo, TimesOut, agentVars
  <1> QED
    BY <1>1, <1>2, <1>3 DEF LifeInv

\* A task starts on an agent that is not STOPPED.
LEMMA TaskStartsKeeps ==
  ASSUME LifeInv, NEW a \in Agents, NEW t \in Jobs, TaskStarts(a, t)
  PROVE  LifeInv'
  <1>1. QueueInv'
    BY QueueUnchanged DEF LifeInv, TaskStarts
  <1>2. AgentTypeOK'
    <2>1. running' \in [Agents -> SUBSET [task : Jobs, posted : BOOLEAN]]
      <3>1. running' = [running EXCEPT ![a] = (@ \ {}) \cup {[task |-> t, posted |-> FALSE]}]
        BY DEF LifeInv, AgentTypeOK, TaskStarts
      <3>2. {[task |-> t, posted |-> FALSE]} \in SUBSET [task : Jobs, posted : BOOLEAN]
        OBVIOUS
      <3>3. running \in [Agents -> SUBSET [task : Jobs, posted : BOOLEAN]]
        BY DEF LifeInv, AgentTypeOK
      <3> QED
        BY <3>1, <3>2, <3>3, TasksTyped
    <2>2. /\ state' \in [Agents -> States] /\ taskId' \in [Agents -> Jobs \cup {0}]
          /\ owner' \in Seq(Agents)
      BY DEF LifeInv, AgentTypeOK, States, TaskStarts
    <2>3. UNCHANGED <<op, loaded, memory, store, convo, held>>
      BY DEF TaskStarts
    <2> QED
      BY <2>1, <2>2, <2>3 DEF LifeInv, AgentTypeOK
  <1>3. LetGo'
    BY DEF LifeInv, AgentTypeOK, States, LetGo, TaskStarts, Valid
  <1> QED
    BY <1>1, <1>2, <1>3 DEF LifeInv

\* A refused task ends in ERROR.
LEMMA TaskRefusedKeeps ==
  ASSUME LifeInv, NEW a \in Agents, TaskRefused(a)
  PROVE  LifeInv'
  <1>1. QueueInv'
    BY QueueUnchanged DEF LifeInv, TaskRefused
  <1>2. AgentTypeOK'
    BY DEF LifeInv, AgentTypeOK, States, TaskRefused
  <1>3. LetGo'
    BY DEF LifeInv, AgentTypeOK, States, LetGo, TaskRefused
  <1> QED
    BY <1>1, <1>2, <1>3 DEF LifeInv

\* POST_TASK queues a job and stores a turn.
LEMMA PostTaskKeeps ==
  ASSUME LifeInv, NEW a \in Agents, NEW t \in Jobs, PostTask(a, t)
  PROVE  LifeInv'
  <1>1. QueueInv'
    BY EnqueueTyped, QueueUnchanged DEF LifeInv, PostTask
  <1>2. AgentTypeOK'
    <2>1. running' \in [Agents -> SUBSET [task : Jobs, posted : BOOLEAN]]
      <3>1. running' = [running EXCEPT ![a] = (@ \ {[task |-> t, posted |-> FALSE]}) \cup {[task |-> t, posted |-> TRUE]}]
        BY DEF LifeInv, AgentTypeOK, PostTask
      <3>2. {[task |-> t, posted |-> TRUE]} \in SUBSET [task : Jobs, posted : BOOLEAN]
        OBVIOUS
      <3>3. running \in [Agents -> SUBSET [task : Jobs, posted : BOOLEAN]]
        BY DEF LifeInv, AgentTypeOK
      <3> QED
        BY <3>1, <3>2, <3>3, TasksTyped
    <2>2. convo' \in [Agents -> Seq([role : {"user", "assistant"}, task : Jobs])]
      <3>1. CASE memory[a]
        <4>1. Say(a, Turn("user", t))
          BY <3>1 DEF PostTask
        <4> QED
          BY <4>1, SayTyped DEF LifeInv
      <3>2. CASE ~memory[a]
        BY <3>2 DEF LifeInv, AgentTypeOK, PostTask
      <3> QED
        BY <3>1, <3>2
    <2> QED
      BY <2>1, <2>2 DEF LifeInv, AgentTypeOK, PostTask
  <1>3. LetGo'
    BY DEF LifeInv, LetGo, PostTask
  <1> QED
    BY <1>1, <1>2, <1>3 DEF LifeInv

\* A task that ends does not leave STOPPED.
LEMMA TaskEndsKeeps ==
  ASSUME LifeInv, NEW a \in Agents, NEW t \in Jobs, TaskEnds(a, t)
  PROVE  LifeInv'
  <1>1. QueueInv'
    BY QueueUnchanged DEF LifeInv, TaskEnds
  <1>2. AgentTypeOK'
    <2>1. running' \in [Agents -> SUBSET [task : Jobs, posted : BOOLEAN]]
      <3>1. running' = [running EXCEPT ![a] = (@ \ {[task |-> t, posted |-> TRUE]}) \cup {}]
        BY DEF LifeInv, AgentTypeOK, TaskEnds
      <3>2. {} \in SUBSET [task : Jobs, posted : BOOLEAN]
        OBVIOUS
      <3>3. running \in [Agents -> SUBSET [task : Jobs, posted : BOOLEAN]]
        BY DEF LifeInv, AgentTypeOK
      <3> QED
        BY <3>1, <3>2, <3>3, TasksTyped
    <2>2. /\ state' \in [Agents -> States] /\ taskId' \in [Agents -> Jobs \cup {0}]
          /\ owner' \in Seq(Agents)
      BY DEF LifeInv, AgentTypeOK, States, TaskEnds
    <2>3. UNCHANGED <<op, loaded, memory, store, convo, held>>
      BY DEF TaskEnds
    <2> QED
      BY <2>1, <2>2, <2>3 DEF LifeInv, AgentTypeOK
  <1>3. LetGo'
    BY DEF LifeInv, AgentTypeOK, States, LetGo, TaskEnds, Valid
  <1> QED
    BY <1>1, <1>2, <1>3 DEF LifeInv

\* Nor does one that fails.
LEMMA TaskFailsKeeps ==
  ASSUME LifeInv, NEW a \in Agents, NEW t \in Jobs, TaskFails(a, t)
  PROVE  LifeInv'
  <1>1. QueueInv'
    BY QueueUnchanged DEF LifeInv, TaskFails
  <1>2. AgentTypeOK'
    <2>1. running' \in [Agents -> SUBSET [task : Jobs, posted : BOOLEAN]]
      <3>1. running' = [running EXCEPT ![a] = (@ \ {[task |-> t, posted |-> FALSE]}) \cup {}]
        BY DEF LifeInv, AgentTypeOK, TaskFails
      <3>2. {} \in SUBSET [task : Jobs, posted : BOOLEAN]
        OBVIOUS
      <3>3. running \in [Agents -> SUBSET [task : Jobs, posted : BOOLEAN]]
        BY DEF LifeInv, AgentTypeOK
      <3> QED
        BY <3>1, <3>2, <3>3, TasksTyped
    <2>2. /\ state' \in [Agents -> States] /\ taskId' \in [Agents -> Jobs \cup {0}]
          /\ owner' \in Seq(Agents)
      BY DEF LifeInv, AgentTypeOK, States, TaskFails
    <2>3. UNCHANGED <<op, loaded, memory, store, convo, held>>
      BY DEF TaskFails
    <2> QED
      BY <2>1, <2>2, <2>3 DEF LifeInv, AgentTypeOK
  <1>3. LetGo'
    BY DEF LifeInv, AgentTypeOK, States, LetGo, TaskFails, Valid
  <1> QED
    BY <1>1, <1>2, <1>3 DEF LifeInv

\* Nor one that is rejected.
LEMMA TaskRejectedKeeps ==
  ASSUME LifeInv, NEW a \in Agents, NEW t \in Jobs, TaskRejected(a, t)
  PROVE  LifeInv'
  <1>1. QueueInv'
    BY QueueUnchanged DEF LifeInv, TaskRejected
  <1>2. AgentTypeOK'
    BY DEF LifeInv, AgentTypeOK, States, TaskRejected
  <1>3. LetGo'
    BY DEF LifeInv, AgentTypeOK, States, LetGo, TaskRejected
  <1> QED
    BY <1>1, <1>2, <1>3 DEF LifeInv

\* The worker touches the queue and the conversations.
LEMMA WorkerStepKeeps ==
  ASSUME LifeInv, NEW w \in Ids, WorkerStep(w)
  PROVE  LifeInv'
  <1>1. QueueInv'
    BY WorkTyped DEF LifeInv, WorkerStep, FlushTurn
  <1>2. AgentTypeOK'
    <2>1. CASE (TakeItem(w) \/ Ingested(w)) /\ UNCHANGED agentVars
      BY <2>1 DEF LifeInv, AgentTypeOK, agentVars
    <2>2. CASE FlushTurn(w)
      <3>1. worker[w].job \in Jobs
        BY <2>2 DEF LifeInv, QueueInv, FlushTurn, Flushed
      <3>2. convo' \in [Agents -> Seq([role : {"user", "assistant"}, task : Jobs])]
        <4>1. CASE UNCHANGED convo
          BY <4>1 DEF LifeInv, AgentTypeOK
        <4>2. CASE Say(owner[worker[w].job], Turn("assistant", worker[w].job))
          BY <3>1, <4>2, SayTyped DEF LifeInv
        <4> QED
          BY <2>2, <4>1, <4>2 DEF FlushTurn
      <3> QED
        BY <2>2, <3>2 DEF LifeInv, AgentTypeOK, FlushTurn
    <2> QED
      BY <2>1, <2>2 DEF WorkerStep
  <1>3. LetGo'
    BY DEF LifeInv, LetGo, WorkerStep, FlushTurn, agentVars
  <1> QED
    BY <1>1, <1>2, <1>3 DEF LifeInv

\* Every step keeps the invariant.
LEMMA LifeStep == ASSUME LifeInv, [Next]_vars PROVE LifeInv'
  <1>1. ASSUME NEW a \in Agents, Progress(a) PROVE LifeInv'
    BY <1>1, InitializedKeeps, InitializeFailsKeeps, StoppedKeeps, ReloadedKeeps, ReloadFailsKeeps, ReloadResumesKeeps,
       DownRaisesKeeps, PostTaskKeeps, TaskEndsKeeps, TaskFailsKeeps, TaskRejectedKeeps
    DEF Progress, Resumes
  <1>2. ASSUME NEW a \in Agents, Request(a) PROVE LifeInv'
    BY <1>2, InitializeKeeps, ActivateKeeps, DeactivateKeeps, StopUnloadedKeeps, PluginsDownKeeps,
       TimesOutKeeps, TaskStartsKeeps, TaskRefusedKeeps
    DEF Request
  <1>3. CASE UNCHANGED vars
    <2>1. QueueInv'
      BY <1>3, QueueUnchanged DEF LifeInv, vars
    <2>2. AgentTypeOK' /\ LetGo'
      BY <1>3 DEF LifeInv, AgentTypeOK, LetGo, vars, agentVars
    <2> QED
      BY <2>1, <2>2 DEF LifeInv
  <1> QED
    BY <1>1, <1>2, <1>3, WorkerStepKeeps DEF Next, AtRest

\* The invariant holds in every reachable state.
THEOREM LifeInvariant == Spec => []LifeInv
  BY LifeInit, LifeStep, PTL DEF Spec

\* The variables of the agents and of the queue keep their types.
THEOREM LifeTypeCorrect == Spec => []TypeOK
  <1>1. LifeInv => TypeOK
    BY DEF LifeInv, QueueInv, AgentTypeOK, TypeOK
  <1> QED
    BY <1>1, LifeInvariant, PTL

\* An agent that has reached STOPPED holds nothing: not the queue, no store,
\* no memory, whatever failed or overlapped on the way.
THEOREM StoppedAgentsLetGo == Spec => []StoppedHoldsNothing
  <1>1. LifeInv => StoppedHoldsNothing
    BY DEF LifeInv, LetGo, StoppedHoldsNothing
  <1> QED
    BY <1>1, LifeInvariant, PTL

\* Under all liberties: a queued job has a worker to take it, unless it was
\* queued behind the sentinel of a shutdown or a shutdown that gave up has
\* cancelled a worker meanwhile.
THEOREM JobsAreServed == Spec => []QueueServed
  <1>1. LifeInv => QueueServed
    <2>1. SUFFICES ASSUME LifeInv, NEW t \in Jobs, InQueue(t), t \notin exposed
                   PROVE  LiveWorkers # {}
      BY DEF QueueServed
    <2>2. PICK i \in 1 .. Len(queue) : queue[i] = t
      BY <2>1 DEF InQueue
    <2> QED
      BY <2>1, <2>2 DEF LifeInv, QueueInv, JobsServed
  <1> QED
    BY <1>1, LifeInvariant, PTL

-----------------------------------------------------------------------------
(* Agents whose calls and drains do not overlap.  Where the surroundings     *)
(* only fail initialisations, pause agents and reject streamed tasks, the    *)
(* queue is served by one worker just as long as it is held, and keeps the   *)
(* turns in order.                                                           *)

Calm == Liberties \subseteq {"failure", "pause", "reject"}

\* What an agent is doing, by its state: it holds the queue from the moment
\* its plugins are up until they go down, and runs one task, while BUSY.
Standing ==
  \A a \in Agents :
    /\ state[a] = "INITIALIZING" <=> op[a] = "init"
    /\ state[a] \in {"CREATED", "INITIALIZING"} => ~loaded[a]
    /\ op[a] \in {"stop", "reload"} => state[a] \in {"ACTIVE", "IDLE", "ERROR"}
    /\ store[a] <=> a \in held
    /\ loaded[a] /\ op[a] = "none" /\ state[a] # "STOPPED" => a \in held
    /\ running[a] # {} => state[a] = "BUSY"
    /\ \A r, s \in running[a] : r = s

\* The sentinel stands behind all jobs.
SentinelLast ==
  /\ queue # <<>>
  /\ \A i \in 1 .. Len(queue) : queue[i] = Sentinel <=> i = Len(queue)

\* The queue in its three phases: held, with one worker and no sentinel;
\* draining, for one release, behind the sentinel, until the worker stops;
\* and let go, empty and without a worker.
Served ==
  /\ IsFiniteSet(held) /\ HoldersCounted
  /\ \A w \in Ids : worker[w].state # "cancelled" /\ (Live(w) => w = current)
  /\ held # {} =>
       /\ Running /\ ~Draining
       /\ \A i \in 1 .. Len(queue) : queue[i] # Sentinel
  /\ \A a \in Agents : release[a].of # 0 =>
       /\ release[a].of = current /\ ~release[a].late
       /\ \A b \in Agents : release[b].of # 0 => a = b
       /\ IF Live(current) THEN SentinelLast ELSE queue = <<>>
  /\ held = {} /\ ~Draining => queue = <<>> /\ ~Running

Busy(w) == worker[w].state \in {"ingesting", "flushing"}

\* Everything of agent a that is stored, ingested or queued is of tasks
\* before t.
Before(a, t) ==
  /\ \A i \in 1 .. Len(convo[a]) : convo[a][i].task < t
  /\ \A w \in Ids : Busy(w) /\ owner[worker[w].job] = a => worker[w].job < t
  /\ \A i \in 1 .. Len(queue) : queue[i] # Sentinel /\ owner[queue[i]] = a => queue[i] < t

\* Every task that something is left of has been given to its agent.
Given ==
  /\ \A a \in Agents : \A r \in running[a] : r.task \in 1 .. Len(owner) /\ owner[r.task] = a
  /\ \A w \in Ids : Busy(w) => worker[w].job \in 1 .. Len(owner)
  /\ \A i \in 1 .. Len(queue) : queue[i] # Sentinel => queue[i] \in 1 .. Len(owner)
  /\ \A a \in Agents : \A i \in 1 .. Len(convo[a]) : convo[a][i].task \in 1 .. Len(owner)

\* Of each agent, the turns the memory keeps, the job at the worker, those
\* in the queue and the task that has yet to be posted are in the order of
\* the tasks.
PostsLast == \A a \in Agents : \A r \in running[a] : ~r.posted => Before(a, r.task)
QueueInOrder ==
  \A i, j \in 1 .. Len(queue) :
    i < j /\ queue[i] # Sentinel /\ queue[j] # Sentinel /\ owner[queue[i]] = owner[queue[j]]
      => queue[i] < queue[j]
WorkBeforeQueue ==
  \A w \in Ids : Busy(w) => \A i \in 1 .. Len(queue) :
    queue[i] # Sentinel /\ owner[queue[i]] = owner[worker[w].job] => worker[w].job < queue[i]
StoredBeforeWork ==
  \A a \in Agents : \A k \in 1 .. Len(convo[a]) : convo[a][k].role = "assistant" =>
    \A w \in Ids : Busy(w) /\ owner[worker[w].job] = a => convo[a][k].task < worker[w].job
StoredBeforeQueue ==
  \A a \in Agents : \A k \in 1 .. Len(convo[a]) : convo[a][k].role = "assistant" =>
    \A i \in 1 .. Len(queue) :
      queue[i] # Sentinel /\ owner[queue[i]] = a => convo[a][k].task < queue[i]
InLine ==
  PostsLast /\ QueueInOrder /\ WorkBeforeQueue /\ StoredBeforeWork /\ StoredBeforeQueue /\ TurnsInOrder

CalmInv == LifeInv /\ Standing /\ Served /\ Given /\ InLine

-----------------------------------------------------------------------------
(* What agents do *)

\* The parts of the invariant that say how things stand among agents, after
\* a step that leaves the queue alone.
LEMMA ServedUnchanged == ASSUME Served, UNCHANGED <<queueVars, held>> PROVE Served'
  BY DEF Served, queueVars, HoldersCounted, Live, Running, Draining, SentinelLast

\* No plugin fails silently, and none comes up during a drain.
LEMMA UpCalmly ==
  ASSUME Calm, NEW a \in Agents, PluginsUp(a)
  PROVE  /\ ~Draining /\ Acquire /\ held' = held \cup {a}
         /\ loaded' = [loaded EXCEPT ![a] = TRUE] /\ memory' = [memory EXCEPT ![a] = TRUE]
         /\ store' = [store EXCEPT ![a] = TRUE]
  BY DEF Calm, PluginsUp

\* A drain is neither timed out nor cancelled, so that no release raises.
LEMMA ReleaseNeverRaises ==
  ASSUME LifeInv, Served, NEW a \in Agents, NEW how, ReleaseEnds(a, how)
  PROVE  /\ how = "returned" /\ current' = 0 /\ UNCHANGED <<worker, queue, holders>>
         /\ release' = [release EXCEPT ![a] = NotReleasing]
         /\ release[a].of = current /\ ~Live(current) /\ release[a].of # 0
  <1>1. release[a].of # 0 /\ release[a].of = current /\ ~release[a].late
    BY DEF Served, ReleaseEnds
  <1>2. current \in Ids
    BY <1>1, QueueAssumption DEF LifeInv, QueueInv, QueueTypeOK, Ids
  <1>3. worker[release[a].of].state # "cancelled"
    BY <1>1, <1>2 DEF Served
  <1> QED
    BY <1>1, <1>3 DEF ReleaseEnds

-----------------------------------------------------------------------------
(* How an agent stands *)

LEMMA InitStanding == ASSUME Init PROVE Standing
  BY DEF Init, Standing

\* An agent that comes up holds the queue.
LEMMA UpStanding ==
  ASSUME Calm, LifeInv, Standing, NEW a \in Agents, Initialized(a) \/ InitializeFails(a) \/ Reloaded(a)
  PROVE  Standing'
  <1>1. CASE Initialized(a)
    BY <1>1, UpCalmly DEF LifeInv, AgentTypeOK, Standing, Initialized
  <1>2. CASE InitializeFails(a)
    <2>1. CASE PluginsUp(a)
      BY <1>2, <2>1, UpCalmly DEF LifeInv, AgentTypeOK, Standing, InitializeFails
    <2>2. CASE UNCHANGED <<queueVars, loaded, memory, store, held>>
      BY <1>2, <2>2 DEF LifeInv, AgentTypeOK, Standing, InitializeFails
    <2> QED
      BY <1>2, <2>1, <2>2 DEF InitializeFails
  <1>3. CASE Reloaded(a)
    BY <1>3, UpCalmly DEF LifeInv, AgentTypeOK, Standing, Reloaded
  <1> QED
    BY <1>1, <1>2, <1>3

\* An agent that goes down, or is asked to change its state.
LEMMA CallStanding ==
  ASSUME Calm, LifeInv, Standing, NEW a \in Agents,
         \/ Initialize(a) \/ Activate(a) \/ Deactivate(a) \/ StopUnloaded(a)
         \/ ReloadFails(a) \/ ReloadResumes(a)
  PROVE  Standing'
  <1>1. CASE Initialize(a)
    BY <1>1 DEF LifeInv, AgentTypeOK, Standing, Initialize
  <1>2. CASE Activate(a)
    BY <1>2 DEF LifeInv, AgentTypeOK, Standing, Activate
  <1>3. CASE Deactivate(a)
    BY <1>3 DEF Calm, LifeInv, AgentTypeOK, Standing, Deactivate
  <1>4. CASE StopUnloaded(a)
    BY <1>4 DEF LifeInv, AgentTypeOK, Standing, StopUnloaded, StateStopped, Valid
  <1>5. CASE ReloadFails(a)
    BY <1>5 DEF LifeInv, AgentTypeOK, Standing, ReloadFails
  <1>6. CASE ReloadResumes(a)
    BY <1>6 DEF LifeInv, AgentTypeOK, Standing, ReloadResumes
  <1> QED
    BY <1>1, <1>2, <1>3, <1>4, <1>5, <1>6

LEMMA DownStanding ==
  ASSUME Calm, LifeInv, Standing, NEW a \in Agents, NEW p \in {"stop", "reload"}, PluginsDown(a, p)
  PROVE  Standing'
  <1>1. state[a] \in {"ACTIVE", "IDLE", "ERROR"}
    BY DEF Calm, PluginsDown, MayGoDown
  <1>2. CASE loaded[a] /\ TemporalDown(a)
    BY <1>1, <1>2 DEF LifeInv, AgentTypeOK, Standing, PluginsDown, TemporalDown
  <1>3. CASE ~loaded[a] /\ UNCHANGED <<store, held>>
    BY <1>1, <1>3 DEF LifeInv, AgentTypeOK, Standing, PluginsDown
  <1> QED
    BY <1>2, <1>3 DEF PluginsDown

\* A stop always gets to STOPPED, for the state it began in can be left.
LEMMA StoppedStanding ==
  ASSUME LifeInv, Standing, NEW a \in Agents, Stopped(a)
  PROVE  Standing'
  <1>1. state' = [state EXCEPT ![a] = "STOPPED"]
    BY DEF Standing, Stopped, StateStopped, Valid
  <1> QED
    BY <1>1 DEF LifeInv, AgentTypeOK, Standing, Stopped

\* An agent whose tasks are replaced by one still runs no more than one.
LEMMA OneTask ==
  ASSUME LifeInv, Standing, NEW a \in Agents, NEW x, running' = [running EXCEPT ![a] = {x}]
  PROVE  \A b \in Agents : \A r, s \in running'[b] : r = s
  <1>1. ASSUME NEW b \in Agents, NEW r \in running'[b], NEW s \in running'[b] PROVE r = s
    <2>1. running'[b] = IF b = a THEN {x} ELSE running[b]
      BY DEF LifeInv, AgentTypeOK
    <2> QED
      BY <2>1 DEF Standing
  <1> QED
    BY <1>1

\* Tasks run one after the other.
LEMMA TaskStanding ==
  ASSUME Calm, LifeInv, Standing, NEW a \in Agents, NEW t \in Jobs,
         TaskStarts(a, t) \/ PostTask(a, t) \/ TaskEnds(a, t) \/ TaskFails(a, t) \/ TaskRejected(a, t)
  PROVE  Standing'
  <1>0. running \in [Agents -> SUBSET [task : Jobs, posted : BOOLEAN]] /\ state \in [Agents -> States]
    BY DEF LifeInv, AgentTypeOK
  <1>1. CASE TaskStarts(a, t)
    <2>1. state[a] = "ACTIVE" /\ op[a] = "none"
      <3>1. state[a] \in States
        BY <1>0
      <3> QED
        BY <1>1, <3>1 DEF Calm, TaskStarts, Free, Valid, States, Standing
    <2>2. running[a] = {}
      BY <2>1 DEF Standing
    <2>3. running' = [running EXCEPT ![a] = {[task |-> t, posted |-> FALSE]}]
      BY <1>0, <1>1, <2>2 DEF TaskStarts
    <2>4. state' = [state EXCEPT ![a] = "BUSY"] /\ UNCHANGED <<op, loaded, store, held>>
      BY <1>1 DEF TaskStarts
    <2>5. \A b \in Agents : /\ running'[b] = IF b = a THEN {[task |-> t, posted |-> FALSE]} ELSE running[b]
                           /\ state'[b] = IF b = a THEN "BUSY" ELSE state[b]
      BY <1>0, <2>3, <2>4
    <2>6. op' = op /\ loaded' = loaded /\ store' = store /\ held' = held
      BY <2>4
    <2>7. \A b \in Agents : \A r, s \in running'[b] : r = s
      BY <2>3, OneTask
    <2>8. ASSUME NEW b \in Agents
          PROVE  /\ state'[b] = "INITIALIZING" <=> op[b] = "init"
                 /\ state'[b] \in {"CREATED", "INITIALIZING"} => ~loaded[b]
                 /\ op[b] \in {"stop", "reload"} => state'[b] \in {"ACTIVE", "IDLE", "ERROR"}
                 /\ store[b] <=> b \in held
                 /\ loaded[b] /\ op[b] = "none" /\ state'[b] # "STOPPED" => b \in held
                 /\ running'[b] # {} => state'[b] = "BUSY"
      BY <2>1, <2>5 DEF Standing
    <2> QED
      BY <2>6, <2>7, <2>8 DEF Standing
  <1>2. CASE PostTask(a, t)
    <2>1. running' = [running EXCEPT ![a] = {[task |-> t, posted |-> TRUE]}]
      <3>1. running[a] = {[task |-> t, posted |-> FALSE]}
        BY <1>2 DEF Standing, PostTask
      <3> QED
        BY <1>0, <1>2, <3>1 DEF PostTask
    <2>2. running[a] # {}
      BY <1>2 DEF PostTask
    <2>3. UNCHANGED <<state, op, loaded, store, held>>
      BY <1>2 DEF PostTask
    <2>4. \A b \in Agents : running'[b] = IF b = a THEN {[task |-> t, posted |-> TRUE]} ELSE running[b]
      BY <1>0, <2>1
    <2>5. \A b \in Agents : \A r, s \in running'[b] : r = s
      BY <2>1, OneTask
    <2>6. \A b \in Agents : running'[b] # {} => running[b] # {}
      BY <2>2, <2>4
    <2> QED
      BY <2>3, <2>5, <2>6 DEF Standing
  <1>3. CASE TaskEnds(a, t) \/ TaskFails(a, t)
    <2>1. running' = [running EXCEPT ![a] = {}] /\ state[a] = "BUSY"
      <3>1. PICK b \in BOOLEAN : [task |-> t, posted |-> b] \in running[a]
                 /\ running' = [running EXCEPT ![a] = @ \ {[task |-> t, posted |-> b]}]
        BY <1>3 DEF TaskEnds, TaskFails
      <3>2. running[a] = {[task |-> t, posted |-> b]}
        BY <3>1 DEF Standing
      <3> QED
        BY <1>0, <3>1, <3>2 DEF Standing
    <2>2. state' = [state EXCEPT ![a] = "ACTIVE"] \/ state' = [state EXCEPT ![a] = "ERROR"]
      BY <1>3, <2>1 DEF TaskEnds, TaskFails, Valid
    <2>3. UNCHANGED <<op, loaded, store, held>>
      BY <1>3 DEF TaskEnds, TaskFails
    <2> QED
      BY <1>0, <2>1, <2>2, <2>3 DEF Standing
  <1>4. CASE TaskRejected(a, t)
    <2>1. running' = [running EXCEPT ![a] = @ \ {[task |-> t, posted |-> TRUE]}]
          /\ UNCHANGED <<state, op, loaded, store, held>>
      BY <1>4 DEF TaskRejected
    <2>2. \A b \in Agents : running'[b] \subseteq running[b]
      BY <1>0, <2>1
    <2> QED
      BY <2>1, <2>2 DEF Standing
  <1> QED
    BY <1>1, <1>2, <1>3, <1>4

-----------------------------------------------------------------------------
(* How the queue is served *)

LEMMA InitServed == ASSUME Init PROVE Served
  <1>1. IsFiniteSet({}) /\ Cardinality({}) = 0
    BY FS_EmptySet
  <1> QED
    BY <1>1 DEF Init, QueueInit, Served, HoldersCounted, Live, Running, Draining, At, NotReleasing, Ids

\* An agent that acquires the queue finds its worker, or starts one when
\* nobody else is there.
LEMMA AcquireServed ==
  ASSUME LifeInv, Served, NEW a \in Agents, a \notin held, ~Draining, Acquire, held' = held \cup {a}
  PROVE  Served'
  <1>1. IsFiniteSet(held') /\ HoldersCounted'
    BY FS_AddElement DEF Served, HoldersCounted, Acquire
  <1>2. UNCHANGED <<queue, release>> /\ ~Draining'
    BY DEF Acquire, Draining
  <1>3. \A i \in 1 .. Len(queue) : queue[i] # Sentinel
    <2>1. CASE held = {}
      BY <2>1, SMT DEF Served
    <2> QED
      BY <2>1 DEF Served
  <1>4. /\ Running'
        /\ \A w \in Ids : worker'[w].state # "cancelled" /\ (Live(w)' => w = current')
    <2>1. CASE Running
      <3>1. UNCHANGED <<current, worker>>
        BY <2>1 DEF Acquire, Start
      <3> QED
        BY <2>1, <3>1 DEF Served, Live, Running
    <2>2. CASE ~Running
      <3>1. PICK w \in Ids : current' = w /\ worker' = [worker EXCEPT ![w] = At("waiting")]
        BY <2>2 DEF Acquire, Start
      <3>2. \A v \in Ids : ~Live(v)
        BY <2>2 DEF Served, Running, Ids
      <3>3. worker \in [Ids -> [state : WorkerStates, job : Jobs \cup {NoJob}]] /\ w # 0
        BY <3>1 DEF LifeInv, QueueInv, QueueTypeOK, Ids
      <3>4. \A v \in Ids : worker'[v] = IF v = w THEN At("waiting") ELSE worker[v]
        BY <3>1, <3>3
      <3> QED
        BY <3>1, <3>2, <3>3, <3>4 DEF Served, Live, Running, At
    <2> QED
      BY <2>1, <2>2
  <1> QED
    BY <1>1, <1>2, <1>3, <1>4 DEF Served, Draining

\* A job that a holder queues goes to the worker that is there.
LEMMA EnqueueServed ==
  ASSUME LifeInv, Served, NEW t \in Jobs, held # {}, Enqueue(t), UNCHANGED held
  PROVE  Served' /\ UNCHANGED <<current, worker>>
  <1>1. UNCHANGED <<current, worker, holders, release>> /\ queue' = Append(queue, t)
    BY DEF Served, Enqueue, Joins, Start
  <1>2. \A i \in 1 .. Len(queue') : queue'[i] # Sentinel
    <2>1. queue \in Seq(Jobs \cup {Sentinel}) /\ t # Sentinel
      BY QueueAssumption DEF LifeInv, QueueInv, QueueTypeOK, Sentinel
    <2> QED
      BY <1>1, <2>1 DEF Served
  <1> QED
    BY <1>1, <1>2 DEF Served, HoldersCounted, Live, Running, Draining

\* An agent lets go of the queue: the last one leaves the sentinel behind.
LEMMA ReleaseServed ==
  ASSUME LifeInv, Served, NEW a \in Agents, a \in held, held' = held \ {a},
         ReleaseWaits(a) \/ ReleaseAtOnce
  PROVE  Served'
  <1>1. /\ IsFiniteSet(held') /\ Cardinality(held') = Cardinality(held) - 1
        /\ Running /\ ~Draining /\ holders = Cardinality(held) /\ Cardinality(held) \in Nat
        /\ \A i \in 1 .. Len(queue) : queue[i] # Sentinel
    BY FS_RemoveElement, FS_CardinalityType DEF Served, HoldersCounted
  <1>2. held' = {} <=> holders = 1
    BY <1>1, FS_EmptySet
  <1>3. CASE ReleaseAtOnce
    <2>1. holders # 1 /\ holders # 0
      <3>1. holders # 0
        <4>1. held # {} /\ IsFiniteSet(held)
          BY DEF Served
        <4> QED
          BY <1>1, <4>1, FS_EmptySet
      <3> QED
        BY <1>1, <1>3, <3>1 DEF ReleaseAtOnce, LastHold
    <2>2. HoldersCounted' /\ UNCHANGED <<queue, current, worker, release>>
      BY <1>1, <1>3, <2>1 DEF ReleaseAtOnce, HoldersCounted
    <2> QED
      BY <1>1, <1>2, <2>1, <2>2 DEF Served, Live, Running, Draining
  <1>4. CASE ReleaseWaits(a)
    <2>1. HoldersCounted' /\ held' = {} /\ UNCHANGED <<current, worker>>
      BY <1>1, <1>2, <1>4 DEF ReleaseWaits, LastHold, HoldersCounted
    <2>2. /\ release' = [release EXCEPT ![a] = [of |-> current, late |-> FALSE]]
          /\ release \in [Agents -> [of : 0 .. MaxWorkers, late : BOOLEAN]]
      BY <1>4 DEF ReleaseWaits, LifeInv, QueueInv, QueueTypeOK
    <2>3. \A b \in Agents : release'[b].of # 0 <=> b = a
      BY <1>1, <2>2 DEF Draining, Running
    <2>4. release'[a].of = current' /\ ~release'[a].late
      BY <2>1, <2>2
    <2>5. SentinelLast'
      <3>1. queue \in Seq(Jobs \cup {Sentinel}) /\ queue' = Append(queue, Sentinel)
        BY <1>4 DEF LifeInv, QueueInv, QueueTypeOK, ReleaseWaits
      <3> QED
        BY <1>1, <3>1 DEF SentinelLast
    <2>6. Running' /\ Live(current)' /\ Draining'
      BY <1>1, <2>1, <2>3 DEF Running, Live, Draining
    <2>7. \A w \in Ids : worker'[w].state # "cancelled" /\ (Live(w)' => w = current')
      BY <2>1 DEF Served, Live
    <2> QED
      BY <1>1, <2>1, <2>3, <2>4, <2>5, <2>6, <2>7 DEF Served
  <1> QED
    BY <1>3, <1>4

\* A release that has waited finds the queue drained.
LEMMA ReleaseEndsServed ==
  ASSUME LifeInv, Served, NEW a \in Agents, NEW how, ReleaseEnds(a, how), UNCHANGED held
  PROVE  Served'
  <1>1. /\ current' = 0 /\ UNCHANGED <<worker, queue, holders>>
        /\ release' = [release EXCEPT ![a] = NotReleasing]
        /\ ~Live(current) /\ release[a].of # 0
    BY ReleaseNeverRaises
  <1>2. queue = <<>> /\ \A b \in Agents : release[b].of # 0 => a = b
    BY <1>1 DEF Served
  <1>3. \A b \in Agents : release'[b].of = 0
    BY <1>1, <1>2 DEF LifeInv, QueueInv, QueueTypeOK, NotReleasing
  <1>4. \A w \in Ids : ~Live(w)' /\ worker'[w].state # "cancelled"
    BY <1>1 DEF Served, Live
  <1>5. held = {}
    BY <1>1 DEF Served, Draining
  <1>6. IsFiniteSet(held') /\ HoldersCounted'
    BY <1>1 DEF Served, HoldersCounted
  <1> QED
    BY <1>1, <1>2, <1>3, <1>4, <1>5, <1>6 DEF Served, Draining, Running

\* The worker takes jobs until it takes the sentinel, which is the last item.
LEMMA WorkServed ==
  ASSUME LifeInv, Served, NEW w \in Ids, TakeItem(w) \/ Ingested(w) \/ Flushed(w), UNCHANGED held
  PROVE  Served'
  <1>0. /\ queue \in Seq(Jobs \cup {Sentinel})
        /\ worker \in [Ids -> [state : WorkerStates, job : Jobs \cup {NoJob}]]
    BY DEF LifeInv, QueueInv, QueueTypeOK
  <1>1. w = current /\ w # 0 /\ Live(w) /\ Running
    BY DEF TakeItem, Ingested, Flushed, Served, Live, Running, Ids
  <1>2. /\ UNCHANGED <<holders, current, release>>
        /\ \A v \in Ids : v # w => worker'[v] = worker[v]
    BY <1>0 DEF TakeItem, Ingested, Flushed
  <1>3. IsFiniteSet(held') /\ HoldersCounted' /\ (Draining' <=> Draining)
    BY <1>2 DEF Served, HoldersCounted, Draining
  <1>4. CASE (Ingested(w) \/ Flushed(w)) \/ (TakeItem(w) /\ Head(queue) # Sentinel)
    <2>1. Live(w)' /\ worker'[w].state # "cancelled"
      BY <1>0, <1>4 DEF Ingested, Flushed, TakeItem, Live, At
    <2>2. \A v \in Ids : worker'[v].state # "cancelled" /\ (Live(v)' => v = current')
      BY <1>1, <1>2, <2>1 DEF Served, Live
    <2>3. /\ (\A i \in 1 .. Len(queue) : queue[i] # Sentinel) => (\A i \in 1 .. Len(queue') : queue'[i] # Sentinel)
          /\ SentinelLast => SentinelLast'
      <3>1. CASE UNCHANGED queue
        BY <3>1 DEF SentinelLast
      <3>2. CASE queue # <<>> /\ queue' = Tail(queue) /\ Head(queue) # Sentinel
        <4>1. Len(queue') = Len(queue) - 1 /\ \A i \in 1 .. Len(queue') : queue'[i] = queue[i + 1]
          BY <1>0, <3>2
        <4>2. Head(queue) = queue[1] /\ Len(queue) \in Nat /\ Len(queue) > 0
          BY <1>0, <3>2
        <4>3. ASSUME \A i \in 1 .. Len(queue) : queue[i] # Sentinel
              PROVE  \A i \in 1 .. Len(queue') : queue'[i] # Sentinel
          BY <4>1, <4>2, <4>3
        <4>4. ASSUME SentinelLast PROVE SentinelLast'
          <5>1. Len(queue) > 1
            <6>1. 1 \in 1 .. Len(queue) /\ queue[1] # Sentinel
              BY <3>2, <4>2
            <6> QED
              BY <4>2, <4>4, <6>1 DEF SentinelLast
          <5>2. ASSUME NEW i \in 1 .. Len(queue') PROVE queue'[i] = Sentinel <=> i = Len(queue')
            <6>1. i + 1 \in 1 .. Len(queue) /\ queue'[i] = queue[i + 1] /\ i \in Int
              BY <4>1, <4>2
            <6> QED
              BY <4>1, <4>2, <4>4, <6>1 DEF SentinelLast
          <5>3. queue' # <<>>
            BY <4>1, <4>2, <5>1
          <5> QED
            BY <5>2, <5>3 DEF SentinelLast
        <4> QED
          BY <4>3, <4>4
      <3> QED
        BY <1>4, <3>1, <3>2 DEF Ingested, Flushed, TakeItem
    <2>4. Running' /\ Live(current)'
      BY <1>1, <1>2, <2>1 DEF Running, Live
    <2> QED
      BY <1>1, <1>2, <1>3, <2>2, <2>3, <2>4 DEF Served, Live
  <1>5. CASE TakeItem(w) /\ Head(queue) = Sentinel
    <2>1. ~Live(w)' /\ worker'[w].state = "stopped" /\ queue' = Tail(queue) /\ queue # <<>>
      BY <1>0, <1>5 DEF TakeItem, Live, At
    <2>2. held = {} /\ Draining
      <3>1. queue[1] = Sentinel /\ 1 \in 1 .. Len(queue)
        BY <1>0, <1>5, <2>1
      <3> QED
        BY <3>1, <2>1 DEF Served
    <2>3. queue' = <<>>
      <3>1. SentinelLast
        BY <1>1, <2>2 DEF Served, Draining
      <3>2. Len(queue) = 1
        <4>1. 1 \in 1 .. Len(queue) /\ queue[1] = Sentinel
          BY <1>0, <1>5, <2>1
        <4> QED
          BY <3>1, <4>1 DEF SentinelLast
      <3> QED
        BY <1>0, <2>1, <3>2
    <2>4. \A v \in Ids : worker'[v].state # "cancelled" /\ ~Live(v)'
      BY <1>1, <1>2, <2>1 DEF Served, Live
    <2> QED
      BY <1>1, <1>2, <1>3, <2>1, <2>2, <2>3, <2>4 DEF Served, Live
  <1> QED
    BY <1>4, <1>5

-----------------------------------------------------------------------------
(* The turns of an agent stay in line *)

LEMMA InitInLine == ASSUME Init PROVE Given /\ InLine
  BY DEF Init, QueueInit, At, Ids, Busy, Given, InLine, PostsLast, QueueInOrder, WorkBeforeQueue,
         StoredBeforeWork, StoredBeforeQueue, TurnsInOrder

\* What is in line.
LEMMA LineTyped ==
  ASSUME LifeInv
  PROVE  /\ queue \in Seq(Jobs \cup {Sentinel}) /\ Jobs \subseteq Nat \ {0} /\ Sentinel = 0
         /\ worker \in [Ids -> [state : WorkerStates, job : Jobs \cup {NoJob}]]
         /\ \A w \in Ids : Busy(w) => worker[w].job \in Jobs
         /\ running \in [Agents -> SUBSET [task : Jobs, posted : BOOLEAN]]
         /\ owner \in Seq(Agents)
         /\ convo \in [Agents -> Seq([role : {"user", "assistant"}, task : Jobs])]
  BY QueueAssumption DEF LifeInv, QueueInv, QueueTypeOK, AgentTypeOK, Busy, Sentinel

\* What appending adds to a sequence.
LEMMA Appended ==
  ASSUME NEW T, NEW s \in Seq(T), NEW x \in T
  PROVE  /\ Len(s) \in Nat /\ Len(Append(s, x)) \in Nat
         /\ \A k \in 1 .. Len(Append(s, x)) :
              \/ k \in 1 .. Len(s) /\ Append(s, x)[k] = s[k]
              \/ k = Len(s) + 1 /\ Append(s, x)[k] = x
  OBVIOUS

\* What saying something adds to the conversations.
LEMMA SayAdds ==
  ASSUME LifeInv, NEW a \in Agents, NEW role \in {"user", "assistant"}, NEW t \in Jobs,
         Say(a, Turn(role, t)) \/ UNCHANGED convo
  PROVE  \A b \in Agents :
           /\ Len(convo[b]) \in Nat /\ Len(convo'[b]) \in Nat
           /\ \A k \in 1 .. Len(convo'[b]) :
                \/ k \in 1 .. Len(convo[b]) /\ convo'[b][k] = convo[b][k]
                \/ b = a /\ k = Len(convo[b]) + 1 /\ convo'[b][k] = Turn(role, t)
  <1> DEFINE Turns == [role : {"user", "assistant"}, task : Jobs]
  <1>1. Turn(role, t) \in Turns
    BY DEF Turn
  <1>2. \A b \in Agents : convo[b] \in Seq(Turns)
    BY LineTyped
  <1>3. convo' = [convo EXCEPT ![a] = Append(@, Turn(role, t))] \/ convo' = convo
    BY DEF Say
  <1>4. \A b \in Agents : convo'[b] = convo[b] \/ (b = a /\ convo'[b] = Append(convo[b], Turn(role, t)))
    BY <1>3, LineTyped
  <1> HIDE DEF Turns
  <1>5. ASSUME NEW b \in Agents
        PROVE  /\ Len(convo[b]) \in Nat /\ Len(convo'[b]) \in Nat
               /\ \A k \in 1 .. Len(convo'[b]) :
                    \/ k \in 1 .. Len(convo[b]) /\ convo'[b][k] = convo[b][k]
                    \/ b = a /\ k = Len(convo[b]) + 1 /\ convo'[b][k] = Turn(role, t)
    <2>1. CASE convo'[b] = convo[b]
      BY <1>2, <2>1
    <2>2. CASE b = a /\ convo'[b] = Append(convo[b], Turn(role, t))
      BY <1>1, <1>2, <2>2, Appended
    <2> QED
      BY <1>4, <2>1, <2>2
  <1> QED
    BY <1>5

\* A step that adds nothing to the line, but may take things away, or put
\* the sentinel behind it.
LEMMA LineShrinks ==
  ASSUME Given, InLine, UNCHANGED <<owner, convo>>,
         \A a \in Agents : running'[a] \subseteq running[a],
         \A w \in Ids : Busy(w)' => Busy(w) /\ worker'[w].job = worker[w].job,
         \A i \in 1 .. Len(queue') : queue'[i] # Sentinel => i \in 1 .. Len(queue) /\ queue'[i] = queue[i]
  PROVE  Given' /\ InLine'
  <1>1. Given'
    BY DEF Given
  <1>2. PostsLast'
    <2>1. \A a \in Agents : \A t : Before(a, t) => Before(a, t)'
      BY DEF Before
    <2> QED
      BY <2>1 DEF InLine, PostsLast
  <1>3. QueueInOrder'
    BY DEF InLine, QueueInOrder
  <1>4. WorkBeforeQueue'
    BY DEF InLine, WorkBeforeQueue
  <1>5. StoredBeforeWork' /\ StoredBeforeQueue' /\ TurnsInOrder'
    BY DEF InLine, StoredBeforeWork, StoredBeforeQueue, TurnsInOrder
  <1> QED
    BY <1>1, <1>2, <1>3, <1>4, <1>5 DEF InLine

\* A task is given to an agent: it is behind everything there is.
LEMMA StartInLine ==
  ASSUME LifeInv, Given, InLine, NEW a \in Agents, NEW t \in Jobs, TaskStarts(a, t)
  PROVE  Given' /\ InLine'
  <1>1. /\ UNCHANGED <<queue, worker, convo>> /\ t = Len(owner) + 1 /\ owner' = Append(owner, a)
        /\ running' = [running EXCEPT ![a] = @ \cup {[task |-> t, posted |-> FALSE]}]
    BY DEF TaskStarts, IsNext, queueVars
  <1>2. /\ Len(owner') = t /\ owner'[t] = a /\ Len(owner) \in Nat
        /\ \A j \in 1 .. Len(owner) : j < t /\ j \in 1 .. Len(owner') /\ owner'[j] = owner[j]
    BY <1>1, LineTyped
  <1>3. \A w \in Ids : Busy(w)' <=> Busy(w)
    BY <1>1 DEF Busy
  <1>4. \A b \in Agents : \A r \in running'[b] : r \in running[b] \/ (b = a /\ r = [task |-> t, posted |-> FALSE])
    BY <1>1, LineTyped
  <1>5. Given'
    <2>1. ASSUME NEW b \in Agents, NEW r \in running'[b]
          PROVE  r.task \in 1 .. Len(owner') /\ owner'[r.task] = b
      <3>1. CASE r \in running[b]
        BY <1>2, <3>1 DEF Given
      <3>2. CASE b = a /\ r = [task |-> t, posted |-> FALSE]
        BY <1>1, <1>2, <3>2
      <3> QED
        BY <1>4, <2>1, <3>1, <3>2
    <2> QED
      BY <1>1, <1>2, <1>3, <2>1 DEF Given
  <1>6. PostsLast'
    <2>1. ASSUME NEW b \in Agents PROVE Before(b, t)'
      BY <1>1, <1>2, <1>3 DEF Before, Given
    <2>2. ASSUME NEW b \in Agents, NEW s, Before(b, s) PROVE Before(b, s)'
      BY <1>1, <1>2, <1>3, <2>2 DEF Before, Given
    <2> QED
      BY <1>4, <2>1, <2>2 DEF InLine, PostsLast
  <1>7. QueueInOrder'
    BY <1>1, <1>2 DEF InLine, QueueInOrder, Given
  <1>8. WorkBeforeQueue'
    BY <1>1, <1>2, <1>3 DEF InLine, WorkBeforeQueue, Given
  <1>9. StoredBeforeWork' /\ StoredBeforeQueue' /\ TurnsInOrder'
    BY <1>1, <1>2, <1>3 DEF InLine, StoredBeforeWork, StoredBeforeQueue, TurnsInOrder, Given
  <1> QED
    BY <1>5, <1>6, <1>7, <1>8, <1>9 DEF InLine

\* The task of an agent is posted: its turn and its job go behind those of
\* the tasks before it.
LEMMA PostInLine ==
  ASSUME LifeInv, Standing, Given, InLine, NEW a \in Agents, NEW t \in Jobs, PostTask(a, t),
         UNCHANGED worker
  PROVE  Given' /\ InLine'
  <1> DEFINE Old == [task |-> t, posted |-> FALSE]
  <1>1. /\ Old \in running[a] /\ UNCHANGED <<owner, worker>>
        /\ running' = [running EXCEPT ![a] = (@ \ {Old}) \cup {[task |-> t, posted |-> TRUE]}]
    BY DEF PostTask
  <1>2. t \in 1 .. Len(owner) /\ owner[t] = a
    BY <1>1 DEF Given
  <1>3. Before(a, t)
    BY <1>1 DEF InLine, PostsLast
  <1>4. \A b \in Agents : \A r \in running'[b] :
          IF b = a THEN r = [task |-> t, posted |-> TRUE] ELSE r \in running[b]
    BY <1>1, LineTyped DEF Standing
  <1>5. \A w \in Ids : Busy(w)' <=> Busy(w)
    BY <1>1 DEF Busy
  \* What the step puts behind the line.
  <1>6. /\ Len(queue) \in Nat /\ Len(queue') \in Nat
        /\ \A i \in 1 .. Len(queue') :
             \/ i \in 1 .. Len(queue) /\ queue'[i] = queue[i]
             \/ i = Len(queue') /\ i = Len(queue) + 1 /\ queue'[i] = t
    <2>1. CASE Enqueue(t)
      <3>1. queue' = Append(queue, t)
        BY <2>1 DEF Enqueue, Joins
      <3> QED
        BY <3>1, LineTyped
    <2>2. CASE UNCHANGED queue
      BY <2>2, LineTyped
    <2> QED
      BY <2>1, <2>2 DEF PostTask, queueVars
  <1>7. \A b \in Agents :
          /\ Len(convo[b]) \in Nat /\ Len(convo'[b]) \in Nat
          /\ \A k \in 1 .. Len(convo'[b]) :
               \/ k \in 1 .. Len(convo[b]) /\ convo'[b][k] = convo[b][k]
               \/ b = a /\ k = Len(convo[b]) + 1 /\ convo'[b][k] = [role |-> "user", task |-> t]
    <2>1. Say(a, Turn("user", t)) \/ UNCHANGED convo
      BY DEF PostTask
    <2> QED
      BY <2>1, SayAdds DEF Turn
  <1>8. Given'
    <2>1. \A b \in Agents : \A r \in running'[b] : r.task \in 1 .. Len(owner) /\ owner[r.task] = b
      BY <1>2, <1>4 DEF Given
    <2>2. \A i \in 1 .. Len(queue') : queue'[i] # Sentinel => queue'[i] \in 1 .. Len(owner)
      BY <1>2, <1>6 DEF Given
    <2>3. \A b \in Agents : \A k \in 1 .. Len(convo'[b]) : convo'[b][k].task \in 1 .. Len(owner)
      <3>1. ASSUME NEW b \in Agents, NEW k \in 1 .. Len(convo'[b])
            PROVE  convo'[b][k].task \in 1 .. Len(owner)
        <4>1. CASE k \in 1 .. Len(convo[b]) /\ convo'[b][k] = convo[b][k]
          BY <4>1 DEF Given
        <4>2. CASE convo'[b][k] = [role |-> "user", task |-> t]
          BY <1>2, <4>2
        <4> QED
          BY <1>7, <4>1, <4>2
      <3> QED
        BY <3>1
    <2> QED
      BY <1>1, <1>5, <2>1, <2>2, <2>3 DEF Given
  <1>9. PostsLast'
    <2>1. ASSUME NEW b \in Agents, NEW r \in running'[b], ~r.posted PROVE Before(b, r.task)'
      <3>1. b # a /\ Before(b, r.task)
        BY <1>4, <2>1 DEF InLine, PostsLast
      <3> QED
        BY <1>1, <1>2, <1>5, <1>6, <1>7, <3>1 DEF Before
    <2> QED
      BY <2>1 DEF PostsLast
  <1>10. QueueInOrder'
    <2>1. ASSUME NEW i \in 1 .. Len(queue'), NEW j \in 1 .. Len(queue'), i < j,
                 queue'[i] # Sentinel, queue'[j] # Sentinel, owner[queue'[i]] = owner[queue'[j]]
          PROVE  queue'[i] < queue'[j]
      <3>1. i \in 1 .. Len(queue) /\ queue'[i] = queue[i]
        BY <1>6, <2>1
      <3>2. CASE j \in 1 .. Len(queue) /\ queue'[j] = queue[j]
        BY <2>1, <3>1, <3>2 DEF InLine, QueueInOrder
      <3>3. CASE queue'[j] = t
        BY <1>2, <1>3, <2>1, <3>1, <3>3 DEF Before
      <3> QED
        BY <1>6, <3>2, <3>3
    <2> QED
      BY <1>1, <2>1 DEF QueueInOrder
  <1>11. WorkBeforeQueue'
    <2>1. ASSUME NEW w \in Ids, Busy(w), NEW i \in 1 .. Len(queue'),
                 queue'[i] # Sentinel, owner[queue'[i]] = owner[worker[w].job]
          PROVE  worker[w].job < queue'[i]
      BY <1>2, <1>3, <1>6, <2>1 DEF InLine, WorkBeforeQueue, Before
    <2> QED
      BY <1>1, <1>5, <2>1 DEF WorkBeforeQueue
  <1>12. StoredBeforeWork' /\ StoredBeforeQueue'
    <2>1. ASSUME NEW b \in Agents, NEW k \in 1 .. Len(convo'[b]), convo'[b][k].role = "assistant"
          PROVE  k \in 1 .. Len(convo[b]) /\ convo'[b][k] = convo[b][k]
      BY <1>7, <2>1
    <2>2. StoredBeforeWork'
      BY <1>1, <1>5, <2>1 DEF InLine, StoredBeforeWork
    <2>3. ASSUME NEW b \in Agents, NEW k \in 1 .. Len(convo'[b]), convo'[b][k].role = "assistant",
                 NEW i \in 1 .. Len(queue'), queue'[i] # Sentinel, owner[queue'[i]] = b
          PROVE  convo'[b][k].task < queue'[i]
      <3>1. k \in 1 .. Len(convo[b]) /\ convo'[b][k] = convo[b][k]
        BY <2>1, <2>3
      <3>2. CASE i \in 1 .. Len(queue) /\ queue'[i] = queue[i]
        BY <2>3, <3>1, <3>2 DEF InLine, StoredBeforeQueue
      <3>3. CASE queue'[i] = t
        BY <1>2, <1>3, <2>3, <3>1, <3>3 DEF Before
      <3> QED
        BY <1>6, <3>2, <3>3
    <2> QED
      BY <1>1, <2>2, <2>3 DEF StoredBeforeQueue
  <1>13. TurnsInOrder'
    <2>1. ASSUME NEW b \in Agents, NEW i \in 1 .. Len(convo'[b]), NEW j \in 1 .. Len(convo'[b]),
                 i < j, convo'[b][i].role = convo'[b][j].role
          PROVE  convo'[b][i].task < convo'[b][j].task
      <3>1. i \in 1 .. Len(convo[b]) /\ convo'[b][i] = convo[b][i]
        BY <1>7, <2>1
      <3>2. CASE j \in 1 .. Len(convo[b]) /\ convo'[b][j] = convo[b][j]
        BY <2>1, <3>1, <3>2 DEF InLine, TurnsInOrder
      <3>3. CASE b = a /\ convo'[b][j] = [role |-> "user", task |-> t]
        BY <1>3, <3>1, <3>3 DEF Before
      <3> QED
        BY <1>7, <3>2, <3>3
    <2> QED
      BY <2>1 DEF TurnsInOrder
  <1> QED
    BY <1>8, <1>9, <1>10, <1>11, <1>12, <1>13 DEF InLine

\* The worker takes the first job in line.
LEMMA TakeInLine ==
  ASSUME LifeInv, Served, Given, InLine, NEW w \in Ids, TakeItem(w), UNCHANGED agentVars
  PROVE  Given' /\ InLine'
  <1>1. /\ queue # <<>> /\ queue' = Tail(queue) /\ UNCHANGED <<owner, convo, running>>
        /\ worker' = [worker EXCEPT ![w] = IF Head(queue) = Sentinel THEN At("stopped")
                                           ELSE [state |-> "ingesting", job |-> Head(queue)]]
    BY DEF TakeItem, agentVars
  <1>2. /\ 1 \in 1 .. Len(queue) /\ Head(queue) = queue[1] /\ Len(queue) \in Nat /\ Len(queue') \in Nat
        /\ \A i \in 1 .. Len(queue') : i + 1 \in 1 .. Len(queue) /\ queue'[i] = queue[i + 1] /\ 1 < i + 1
    BY <1>1, LineTyped
  <1>3. \A v \in Ids : Busy(v)' => v = w /\ worker'[v].job = queue[1] /\ queue[1] # Sentinel
    <2>1. \A v \in Ids : v # w => ~Busy(v)
      BY DEF Served, Live, Busy, TakeItem
    <2> QED
      BY <1>1, <1>2, <2>1, LineTyped DEF Busy, At
  <1>4. Given'
    BY <1>1, <1>2, <1>3 DEF Given
  <1>5. PostsLast'
    <2>1. ASSUME NEW a \in Agents, NEW t, Before(a, t) PROVE Before(a, t)'
      BY <1>1, <1>2, <1>3, <2>1 DEF Before
    <2> QED
      BY <1>1, <2>1 DEF InLine, PostsLast
  <1>6. QueueInOrder'
    <2>1. ASSUME NEW i \in 1 .. Len(queue'), NEW j \in 1 .. Len(queue'), i < j
          PROVE  i + 1 < j + 1
      BY <2>1
    <2> QED
      BY <1>1, <1>2, <2>1 DEF InLine, QueueInOrder
  <1>7. WorkBeforeQueue'
    BY <1>1, <1>2, <1>3 DEF InLine, WorkBeforeQueue, QueueInOrder
  <1>8. StoredBeforeWork' /\ StoredBeforeQueue' /\ TurnsInOrder'
    BY <1>1, <1>2, <1>3 DEF InLine, StoredBeforeWork, StoredBeforeQueue, TurnsInOrder
  <1> QED
    BY <1>4, <1>5, <1>6, <1>7, <1>8 DEF InLine

\* The worker flushes the assistant turn of its job.
LEMMA FlushInLine ==
  ASSUME LifeInv, Served, Given, InLine, NEW w \in Ids, FlushTurn(w)
  PROVE  Given' /\ InLine'
  <1> DEFINE t == worker[w].job
             a == owner[t]
  <1>1. /\ UNCHANGED <<queue, owner, running>> /\ worker' = [worker EXCEPT ![w] = At("waiting")]
        /\ Busy(w)
    BY DEF FlushTurn, Flushed, Busy
  <1>2. t \in Jobs /\ t \in 1 .. Len(owner) /\ a \in Agents
    BY <1>1, LineTyped DEF Given
  <1>3. \A v \in Ids : ~Busy(v)'
    <2>1. \A v \in Ids : v # w => ~Busy(v)
      BY <1>1 DEF Served, Live, Busy
    <2> QED
      BY <1>1, <2>1, LineTyped DEF Busy, At
  <1> HIDE DEF a, t
  <1>4. \A b \in Agents :
          /\ Len(convo[b]) \in Nat /\ Len(convo'[b]) \in Nat
          /\ \A k \in 1 .. Len(convo'[b]) :
               \/ k \in 1 .. Len(convo[b]) /\ convo'[b][k] = convo[b][k]
               \/ b = a /\ k = Len(convo[b]) + 1 /\ convo'[b][k] = [role |-> "assistant", task |-> t]
    <2>1. Say(a, Turn("assistant", t)) \/ UNCHANGED convo
      BY DEF FlushTurn, a, t
    <2> QED
      BY <1>2, <2>1, SayAdds DEF Turn
  <1>5. Given'
    <2>1. \A b \in Agents : \A k \in 1 .. Len(convo'[b]) : convo'[b][k].task \in 1 .. Len(owner)
      <3>1. ASSUME NEW b \in Agents, NEW k \in 1 .. Len(convo'[b])
            PROVE  convo'[b][k].task \in 1 .. Len(owner)
        <4>1. CASE k \in 1 .. Len(convo[b]) /\ convo'[b][k] = convo[b][k]
          BY <4>1 DEF Given
        <4>2. CASE convo'[b][k] = [role |-> "assistant", task |-> t]
          BY <1>2, <4>2
        <4> QED
          BY <1>4, <4>1, <4>2
      <3> QED
        BY <3>1
    <2> QED
      BY <1>1, <1>3, <2>1 DEF Given
  <1>6. PostsLast'
    <2>1. ASSUME NEW b \in Agents, NEW s, Before(b, s) PROVE Before(b, s)'
      <3>1. \A k \in 1 .. Len(convo'[b]) : convo'[b][k].task < s
        BY <1>1, <1>4, <2>1 DEF Before, a, t
      <3> QED
        BY <1>1, <1>3, <2>1, <3>1 DEF Before
    <2> QED
      BY <1>1, <2>1 DEF InLine, PostsLast
  <1>7. QueueInOrder'
    BY <1>1 DEF InLine, QueueInOrder
  <1>8. WorkBeforeQueue' /\ StoredBeforeWork'
    BY <1>3 DEF WorkBeforeQueue, StoredBeforeWork
  <1>9. StoredBeforeQueue'
    <2>1. ASSUME NEW b \in Agents, NEW k \in 1 .. Len(convo'[b]), convo'[b][k].role = "assistant",
                 NEW i \in 1 .. Len(queue), queue[i] # Sentinel, owner[queue[i]] = b
          PROVE  convo'[b][k].task < queue[i]
      <3>1. CASE k \in 1 .. Len(convo[b]) /\ convo'[b][k] = convo[b][k]
        BY <2>1, <3>1 DEF InLine, StoredBeforeQueue
      <3>2. CASE b = a /\ convo'[b][k] = [role |-> "assistant", task |-> t]
        BY <1>1, <2>1, <3>2 DEF InLine, WorkBeforeQueue, a, t
      <3> QED
        BY <1>4, <3>1, <3>2
    <2> QED
      BY <1>1, <2>1 DEF StoredBeforeQueue
  <1>10. TurnsInOrder'
    <2>1. ASSUME NEW b \in Agents, NEW i \in 1 .. Len(convo'[b]), NEW j \in 1 .. Len(convo'[b]),
                 i < j, convo'[b][i].role = convo'[b][j].role
          PROVE  convo'[b][i].task < convo'[b][j].task
      <3>1. i \in 1 .. Len(convo[b]) /\ convo'[b][i] = convo[b][i]
        BY <1>4, <2>1
      <3>2. CASE j \in 1 .. Len(convo[b]) /\ convo'[b][j] = convo[b][j]
        BY <2>1, <3>1, <3>2 DEF InLine, TurnsInOrder
      <3>3. CASE b = a /\ convo'[b][j] = [role |-> "assistant", task |-> t]
        BY <1>1, <2>1, <3>1, <3>3 DEF InLine, StoredBeforeWork, a, t
      <3> QED
        BY <1>4, <3>2, <3>3
    <2> QED
      BY <2>1 DEF TurnsInOrder
  <1> QED
    BY <1>5, <1>6, <1>7, <1>8, <1>9, <1>10 DEF InLine

-----------------------------------------------------------------------------
(* Every step keeps the invariant *)

\* Nothing comes into line when an agent comes up.
LEMMA UpInLine ==
  ASSUME LifeInv, Given, InLine, Acquire, UNCHANGED <<owner, convo, running>>
  PROVE  Given' /\ InLine'
  <1>1. \A w \in Ids : Busy(w)' => Busy(w) /\ worker'[w].job = worker[w].job
    BY LineTyped DEF Acquire, Start, Busy, At
  <1>2. UNCHANGED queue
    BY DEF Acquire
  <1> QED
    BY <1>1, <1>2, LineShrinks

LEMMA UpCalm ==
  ASSUME Calm, CalmInv, NEW a \in Agents, Initialized(a) \/ InitializeFails(a) \/ Reloaded(a)
  PROVE  CalmInv'
  <1>1. LifeInv' /\ Standing'
    BY UpStanding, InitializedKeeps, InitializeFailsKeeps, ReloadedKeeps DEF CalmInv
  <1>2. UNCHANGED <<owner, convo, running>>
    BY DEF Initialized, InitializeFails, Reloaded
  <1>3. CASE PluginsUp(a)
    <2>1. a \notin held
      <3>1. op[a] = "init" \/ op[a] = "reload"
        BY DEF Initialized, InitializeFails, Reloaded
      <3> QED
        BY <3>1 DEF CalmInv, LifeInv, LetGo, Standing
    <2>2. ~Draining /\ Acquire /\ held' = held \cup {a}
      BY <1>3, UpCalmly
    <2>3. Served'
      BY <2>1, <2>2, AcquireServed DEF CalmInv
    <2>4. Given' /\ InLine'
      BY <1>2, <2>2, UpInLine DEF CalmInv
    <2> QED
      BY <1>1, <2>3, <2>4 DEF CalmInv
  <1>4. CASE UNCHANGED <<queueVars, held>>
    <2>1. Served'
      BY <1>4, ServedUnchanged DEF CalmInv
    <2>2. Given' /\ InLine'
      BY <1>2, <1>4, LineShrinks DEF CalmInv, queueVars, Busy
    <2> QED
      BY <1>1, <2>1, <2>2 DEF CalmInv
  <1> QED
    BY <1>3, <1>4 DEF Initialized, InitializeFails, Reloaded

\* A call that leaves the queue alone.
LEMMA CallCalm ==
  ASSUME Calm, CalmInv, NEW a \in Agents,
         \/ Initialize(a) \/ Activate(a) \/ Deactivate(a) \/ StopUnloaded(a) \/ ReloadFails(a)
  PROVE  CalmInv'
  <1>1. LifeInv'
    BY InitializeKeeps, ActivateKeeps, DeactivateKeeps, StopUnloadedKeeps, ReloadFailsKeeps DEF CalmInv
  <1>2. Standing'
    BY CallStanding DEF CalmInv
  <1>3. UNCHANGED <<queueVars, held, owner, convo, running>>
    BY DEF Initialize, Activate, Deactivate, StopUnloaded, ReloadFails, Released
  <1>4. Served'
    BY <1>3, ServedUnchanged DEF CalmInv
  <1>5. Given' /\ InLine'
    BY <1>3, LineShrinks DEF CalmInv, queueVars, Busy
  <1> QED
    BY <1>1, <1>2, <1>4, <1>5 DEF CalmInv

\* An agent lets go of the queue, at once or behind the queued jobs.
LEMMA DownCalm ==
  ASSUME Calm, CalmInv, NEW a \in Agents, NEW p \in {"stop", "reload"}, PluginsDown(a, p)
  PROVE  CalmInv'
  <1>1. LifeInv' /\ Standing'
    BY DownStanding, PluginsDownKeeps DEF CalmInv
  <1>2. UNCHANGED <<owner, convo, running>>
    BY DEF PluginsDown
  <1>3. CASE loaded[a] /\ TemporalDown(a) /\ (ReleaseWaits(a) \/ ReleaseAtOnce)
    <2>1. a \in held /\ held' = held \ {a}
      <3>1. op[a] = "none" /\ state[a] # "STOPPED"
        BY DEF Calm, PluginsDown, MayGoDown
      <3> QED
        BY <1>3, <3>1 DEF CalmInv, Standing, TemporalDown
    <2>2. Served'
      BY <1>3, <2>1, ReleaseServed DEF CalmInv
    <2>3. \A w \in Ids : Busy(w)' => Busy(w) /\ worker'[w].job = worker[w].job
      BY <1>3 DEF ReleaseWaits, ReleaseAtOnce, Busy
    <2>4. \A i \in 1 .. Len(queue') : queue'[i] # Sentinel => i \in 1 .. Len(queue) /\ queue'[i] = queue[i]
      <3>1. CASE queue' = Append(queue, Sentinel)
        BY <3>1, LineTyped DEF CalmInv
      <3>2. CASE UNCHANGED queue
        BY <3>2
      <3> QED
        BY <1>3, <3>1, <3>2 DEF ReleaseWaits, ReleaseAtOnce
    <2>5. Given' /\ InLine'
      BY <1>2, <2>3, <2>4, LineShrinks DEF CalmInv
    <2> QED
      BY <1>1, <2>2, <2>5 DEF CalmInv
  <1>4. CASE UNCHANGED <<queueVars, held>>
    <2>1. Served'
      BY <1>4, ServedUnchanged DEF CalmInv
    <2>2. Given' /\ InLine'
      BY <1>2, <1>4, LineShrinks DEF CalmInv, queueVars, Busy
    <2> QED
      BY <1>1, <2>1, <2>2 DEF CalmInv
  <1> QED
    BY <1>3, <1>4 DEF PluginsDown

\* The call that let go goes on when the worker has stopped; it is never
\* the one to raise.
LEMMA ReleasedCalm ==
  ASSUME CalmInv, NEW a \in Agents, Stopped(a) \/ ReloadResumes(a) \/ DownRaises(a)
  PROVE  CalmInv'
  <1>1. LifeInv'
    BY StoppedKeeps, ReloadResumesKeeps, DownRaisesKeeps DEF CalmInv
  <1>2. ~DownRaises(a)
    BY ReleaseNeverRaises DEF CalmInv, DownRaises
  <1>3. Standing'
    <2>1. CASE ReloadResumes(a)
      BY <2>1 DEF CalmInv, LifeInv, AgentTypeOK, Standing, ReloadResumes
    <2> QED
      BY <1>2, <2>1, StoppedStanding DEF CalmInv
  <1>4. /\ UNCHANGED <<held, owner, convo, running>>
        /\ ReleaseEnds(a, "returned") \/ UNCHANGED queueVars
    BY <1>2 DEF Stopped, ReloadResumes, Released
  <1>5. Served'
    BY <1>4, ReleaseEndsServed, ServedUnchanged DEF CalmInv
  <1>6. UNCHANGED <<worker, queue>>
    BY <1>4, ReleaseNeverRaises DEF CalmInv, queueVars
  <1>7. Given' /\ InLine'
    BY <1>4, <1>6, LineShrinks DEF CalmInv, Busy
  <1> QED
    BY <1>1, <1>3, <1>5, <1>7 DEF CalmInv

\* The tasks of an agent.
LEMMA TaskCalm ==
  ASSUME Calm, CalmInv, NEW a \in Agents, NEW t \in Jobs,
         TaskStarts(a, t) \/ PostTask(a, t) \/ TaskEnds(a, t) \/ TaskFails(a, t) \/ TaskRejected(a, t)
  PROVE  CalmInv'
  <1>1. LifeInv' /\ Standing'
    BY TaskStanding, TaskStartsKeeps, PostTaskKeeps, TaskEndsKeeps, TaskFailsKeeps,
       TaskRejectedKeeps
    DEF CalmInv
  <1>2. CASE TaskStarts(a, t)
    <2>1. Served'
      BY <1>2, ServedUnchanged DEF CalmInv, TaskStarts
    <2>2. Given' /\ InLine'
      BY <1>2, StartInLine DEF CalmInv
    <2> QED
      BY <1>1, <2>1, <2>2 DEF CalmInv
  <1>3. CASE PostTask(a, t)
    <2>1. Served' /\ UNCHANGED worker
      <3>1. CASE store[a]
        <4>1. held # {} /\ Enqueue(t) /\ UNCHANGED held
          BY <1>3, <3>1 DEF CalmInv, Standing, PostTask
        <4> QED
          BY <4>1, EnqueueServed DEF CalmInv
      <3>2. CASE ~store[a]
        BY <1>3, <3>2, ServedUnchanged DEF CalmInv, PostTask, queueVars
      <3> QED
        BY <3>1, <3>2
    <2>2. Given' /\ InLine'
      BY <1>3, <2>1, PostInLine DEF CalmInv
    <2> QED
      BY <1>1, <2>1, <2>2 DEF CalmInv
  <1>4. CASE TaskEnds(a, t) \/ TaskFails(a, t) \/ TaskRejected(a, t)
    <2>1. UNCHANGED <<queueVars, held, owner, convo>>
      BY <1>4 DEF TaskEnds, TaskFails, TaskRejected
    <2>2. \A b \in Agents : running'[b] \subseteq running[b]
      <3>1. PICK x : running' = [running EXCEPT ![a] = @ \ {x}]
        BY <1>4 DEF TaskEnds, TaskFails, TaskRejected
      <3> QED
        BY <3>1, LineTyped DEF CalmInv
    <2>3. Served'
      BY <2>1, ServedUnchanged DEF CalmInv
    <2>4. Given' /\ InLine'
      BY <2>1, <2>2, LineShrinks DEF CalmInv, queueVars, Busy
    <2> QED
      BY <1>1, <2>3, <2>4 DEF CalmInv
  <1> QED
    BY <1>2, <1>3, <1>4

\* The worker.
LEMMA WorkCalm == ASSUME CalmInv, NEW w \in Ids, WorkerStep(w) PROVE CalmInv'
  <1>1. LifeInv'
    BY WorkerStepKeeps DEF CalmInv
  <1>2. UNCHANGED <<state, op, loaded, store, running, held>> /\ (TakeItem(w) \/ Ingested(w) \/ Flushed(w))
    BY DEF WorkerStep, FlushTurn, agentVars
  <1>3. Standing'
    BY <1>2 DEF CalmInv, Standing
  <1>4. Served'
    BY <1>2, WorkServed DEF CalmInv
  <1>5. Given' /\ InLine'
    <2>1. CASE Ingested(w) /\ UNCHANGED agentVars
      <3>1. \A v \in Ids : Busy(v)' => Busy(v) /\ worker'[v].job = worker[v].job
        BY <2>1, LineTyped DEF CalmInv, Ingested, Busy
      <3>2. UNCHANGED <<queue, owner, convo, running>>
        BY <2>1 DEF Ingested, agentVars
      <3> QED
        BY <3>1, <3>2, LineShrinks DEF CalmInv
    <2> QED
      BY <2>1, TakeInLine, FlushInLine DEF CalmInv, WorkerStep
  <1> QED
    BY <1>1, <1>3, <1>4, <1>5 DEF CalmInv

LEMMA CalmStep == ASSUME Calm, CalmInv, [Next]_vars PROVE CalmInv'
  <1>1. ASSUME NEW a \in Agents, Progress(a) PROVE CalmInv'
    BY <1>1, UpCalm, CallCalm, ReleasedCalm, TaskCalm DEF Progress, Resumes
  <1>2. ASSUME NEW a \in Agents, Request(a) PROVE CalmInv'
    <2>1. ~TimesOut(a) /\ ~TaskRefused(a)
      BY DEF Calm, TimesOut, TaskRefused
    <2> QED
      BY <1>2, <2>1, CallCalm, DownCalm, TaskCalm DEF Request
  <1>3. CASE UNCHANGED vars
    <2>1. LifeInv'
      BY <1>3, LifeStep DEF CalmInv
    <2>2. Standing'
      BY <1>3 DEF CalmInv, Standing, vars, agentVars
    <2>3. Served'
      BY <1>3, ServedUnchanged DEF CalmInv, vars, agentVars
    <2>4. Given' /\ InLine'
      BY <1>3, LineShrinks DEF CalmInv, vars, agentVars, queueVars, Busy
    <2> QED
      BY <2>1, <2>2, <2>3, <2>4 DEF CalmInv
  <1> QED
    BY <1>1, <1>2, <1>3, WorkCalm DEF Next, AtRest

LEMMA CalmInvariant == ASSUME Calm PROVE Spec => []CalmInv
  <1>1. Init => CalmInv
    BY LifeInit, InitStanding, InitServed, InitInLine DEF CalmInv
  <1>2. CalmInv /\ [Next]_vars => CalmInv'
    BY CalmStep
  <1> QED
    BY <1>1, <1>2, PTL DEF Spec

\* The reference count of the queue is the number of agents that hold it.
THEOREM CalmHoldersCounted == ASSUME Calm PROVE Spec => []HoldersCounted
  <1>1. CalmInv => HoldersCounted
    BY DEF CalmInv, Served
  <1> QED
    BY <1>1, CalmInvariant, PTL

\* Once nobody holds the queue and no release is waiting, no job is left in
\* it and no worker alive.
THEOREM CalmDrained == ASSUME Calm PROVE Spec => []DrainedWhenUnheld
  <1>1. CalmInv => DrainedWhenUnheld
    BY DEF CalmInv, LifeInv, QueueInv, QueueTypeOK, Served, DrainedWhenUnheld, LiveWorkers, Running, Draining, Ids
  <1> QED
    BY <1>1, CalmInvariant, PTL

\* The turns of each role are stored in the order of the agent's tasks,
\* though the assistant's wait in a queue that all agents share.
THEOREM CalmTurnsInOrder == ASSUME Calm PROVE Spec => []TurnsInOrder
  <1>1. CalmInv => TurnsInOrder
    BY DEF CalmInv, InLine
  <1> QED
    BY <1>1, CalmInvariant, PTL
=============================================================================
