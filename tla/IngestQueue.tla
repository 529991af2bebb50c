----------------------------- MODULE IngestQueue -----------------------------
(***************************************************************************)
(* TemporalMemoryIngestQueue: the process-wide asyncio queue that ingests  *)
(* finished tasks, its worker task and its refcounted shutdown.  Every     *)
(* await is a point where other coroutines run: a put never suspends, so   *)
(* acquire, enqueue and the first half of release are single steps, and a  *)
(* shutdown waits for the worker it saw when it was called.                *)
(***************************************************************************)
EXTENDS Integers, Sequences, FiniteSets

CONSTANTS
  Agents,      \* holders of the queue
  Jobs,        \* ingest jobs, numbered as their tasks start
  MaxWorkers,  \* bound: worker tasks alive or referred to at a time
  MaxQueue     \* bound: items in the queue

ASSUME QueueAssumption ==
  MaxWorkers \in Nat \ {0} /\ MaxQueue \in Nat /\ Jobs \subseteq Nat \ {0}

VARIABLES
  queue,     \* the asyncio.Queue: jobs and the _SHUTDOWN sentinel
  holders,   \* _holders
  current,   \* _worker, 0 for None
  worker,    \* the worker tasks: what each is doing, and its job
  release,   \* the shutdown an agent's release is waiting in
  exposed    \* queued jobs that may have lost their worker (history): queued
             \* behind a sentinel, or there when a late release cancelled one

queueVars == <<queue, holders, current, worker, release, exposed>>

Ids == 1 .. MaxWorkers
Sentinel == 0

\* An item is in the queue.
InQueue(item) == \E i \in 1 .. Len(queue) : queue[i] = item
NoJob == 0
NotReleasing == [of |-> 0, late |-> FALSE]

WorkerStates == {"waiting", "ingesting", "flushing", "stopped", "cancelled"}
At(s) == [state |-> s, job |-> NoJob]

QueueInit ==
  /\ queue = <<>> /\ holders = 0 /\ current = 0
  /\ worker = [w \in Ids |-> At("stopped")]
  /\ release = [a \in Agents |-> NotReleasing] /\ exposed = {}

Live(w) == worker[w].state \in {"waiting", "ingesting", "flushing"}
LiveWorkers == {w \in Ids : Live(w)}

\* running: _worker is a task that is not done.
Running == current # 0 /\ Live(current)

\* An id no coroutine refers to any more stands for the next task created.
Fresh(w) == ~Live(w) /\ w # current /\ \A a \in Agents : release[a].of # w

\* The jobs that are queued when a worker is cancelled.
Expose == exposed' = exposed \cup {t \in Jobs : InQueue(t)}

\* start: a worker is created unless _worker is running.
Start ==
  \/ Running /\ UNCHANGED <<current, worker>>
  \/ /\ ~Running
     /\ \E w \in Ids :
          /\ Fresh(w) /\ \A v \in Ids : Fresh(v) => w <= v
          /\ current' = w /\ worker' = [worker EXCEPT ![w] = At("waiting")]

Acquire == holders' = holders + 1 /\ Start /\ UNCHANGED <<queue, release, exposed>>

\* mutant: the newest job comes first.
EnqueueInFront(job) ==
  /\ Len(queue) < MaxQueue
  /\ queue' = <<job>> \o queue /\ Start
  /\ UNCHANGED <<holders, release, exposed>>

\* A job behind a sentinel is exposed.
Joins(job) ==
  /\ Len(queue) < MaxQueue
  /\ queue' = Append(queue, job)
  /\ exposed' = IF InQueue(Sentinel) THEN exposed \cup {job} ELSE exposed
  /\ UNCHANGED <<holders, release>>

\* mutant: the worker is left to those who acquired the queue.
EnqueueOnly(job) == Joins(job) /\ UNCHANGED <<current, worker>>

\* enqueue starts the worker if it is not running, held or not.
Enqueue(job) == Joins(job) /\ Start

\* mutant: any release of a running worker shuts it down.
AnyHold == Running

\* release returns at once unless it takes the last hold of a running worker.
LastHold == holders = 1 /\ Running

\* mutant: only the release that shuts the worker down counts.
ReleaseUncounted ==
  /\ ~LastHold
  /\ UNCHANGED <<queue, holders, current, worker, release, exposed>>

\* Anyone else only gives up its hold.
ReleaseAtOnce ==
  /\ ~LastHold
  /\ holders' = IF holders = 0 THEN 0 ELSE holders - 1
  /\ UNCHANGED <<queue, current, worker, release, exposed>>

\* mutant: the sentinel overtakes the queued jobs.
ReleaseOvertakes(a) ==
  /\ LastHold /\ Len(queue) < MaxQueue
  /\ holders' = 0 /\ queue' = <<Sentinel>> \o queue
  /\ release' = [release EXCEPT ![a] = [of |-> current, late |-> FALSE]]
  /\ UNCHANGED <<current, worker, exposed>>

\* The last holder shuts the worker down: the sentinel goes behind the queued jobs and the
\* releasing agent waits for the worker to end.
ReleaseWaits(a) ==
  /\ LastHold /\ Len(queue) < MaxQueue
  /\ holders' = 0 /\ queue' = Append(queue, Sentinel)
  /\ release' = [release EXCEPT ![a] = [of |-> current, late |-> FALSE]]
  /\ UNCHANGED <<current, worker, exposed>>

\* _run_worker takes the next item; the sentinel ends it.
TakeItem(w) ==
  /\ worker[w].state = "waiting" /\ queue # <<>>
  /\ queue' = Tail(queue)
  /\ worker' = [worker EXCEPT ![w] =
       IF Head(queue) = Sentinel THEN At("stopped")
       ELSE [state |-> "ingesting", job |-> Head(queue)]]
  /\ exposed' = {t \in exposed : \E i \in 2 .. Len(queue) : queue[i] = t}
  /\ UNCHANGED <<holders, current, release>>

\* mutant: an ingest that fails ends the worker.
IngestedOrDead(w) ==
  /\ worker[w].state = "ingesting"
  /\ \/ worker' = [worker EXCEPT ![w].state = "flushing"]
     \/ worker' = [worker EXCEPT ![w] = At("stopped")]
  /\ UNCHANGED <<queue, holders, current, release, exposed>>

\* The job: ingest_from_task, which swallows its errors, then the flush of
\* the assistant turn.
Ingested(w) ==
  /\ worker[w].state = "ingesting"
  /\ worker' = [worker EXCEPT ![w].state = "flushing"]
  /\ UNCHANGED <<queue, holders, current, release, exposed>>

Flushed(w) ==
  /\ worker[w].state = "flushing"
  /\ worker' = [worker EXCEPT ![w] = At("waiting")]
  /\ UNCHANGED <<queue, holders, current, release, exposed>>

\* mutant: the timeout is noticed and the worker left alone.
ReleaseTimesOutOnly(a) ==
  /\ release[a].of # 0 /\ Live(release[a].of)
  /\ release' = [release EXCEPT ![a].late = TRUE]
  /\ UNCHANGED <<queue, holders, current, worker, exposed>>

\* wait_for gives up after 30 s and cancels the worker, with the job it runs.
ReleaseTimesOut(a) ==
  /\ release[a].of # 0 /\ Live(release[a].of)
  /\ worker' = [worker EXCEPT ![release[a].of] = At("cancelled")]
  /\ release' = [release EXCEPT ![a].late = TRUE] /\ Expose
  /\ UNCHANGED <<queue, holders, current>>

\* The waiting release resumes once its worker has ended.  After a timeout it
\* cancels whatever _worker is by now; a worker cancelled by another release
\* cancels this one too.
ReleaseEnds(a, how) ==
  /\ release[a].of # 0 /\ ~Live(release[a].of)
  /\ release' = [release EXCEPT ![a] = NotReleasing]
  /\ \/ /\ release[a].late /\ current = 0 /\ how = "raised"
        /\ UNCHANGED <<current, worker, exposed>>
     \/ /\ release[a].late /\ current # 0 /\ how = "returned"
        /\ IF Running THEN worker' = [worker EXCEPT ![current] = At("cancelled")] /\ Expose
                      ELSE UNCHANGED <<worker, exposed>>
        /\ current' = 0
     \/ /\ ~release[a].late /\ worker[release[a].of].state = "cancelled" /\ how = "raised"
        /\ UNCHANGED <<current, worker, exposed>>
     \/ /\ ~release[a].late /\ worker[release[a].of].state = "stopped" /\ how = "returned"
        /\ current' = 0 /\ UNCHANGED <<worker, exposed>>
  /\ UNCHANGED <<queue, holders>>

QueueTypeOK ==
  /\ queue \in Seq(Jobs \cup {Sentinel})
  /\ holders \in Nat
  /\ current \in 0 .. MaxWorkers
  /\ worker \in [Ids -> [state : WorkerStates, job : Jobs \cup {NoJob}]]
  /\ release \in [Agents -> [of : 0 .. MaxWorkers, late : BOOLEAN]]
  /\ exposed \subseteq Jobs
=============================================================================
