------------------------- MODULE ProducerConsumerQueue -------------------------
(***************************************************************************)
(* operations/producerconsumerqueue.{h,cpp}: a pool of worker threads over *)
(* one FIFO of closures.  A section of the code under m_mutex is one step; *)
(* QWaitCondition is the set of workers whose pc is "waiting".  Exiting is *)
(* asked for in the queue itself, by one null task per worker, and each of *)
(* those is enqueued under a lock of its own.                              *)
(***************************************************************************)
EXTENDS Naturals, Sequences, FiniteSets

CONSTANTS Workers,  \* the threads the constructor creates
          Tasks,    \* the EnqueueTask calls with a closure, one element each
          NullTask, \* the empty std::function that tells a worker to return
          Callers   \* the threads that call StopWorkers or CancelWorkers

ASSUME QueueAssumption ==
  /\ IsFiniteSet(Workers)
  /\ Workers # {}
  /\ NullTask \notin Tasks

VARIABLES
  taskQueue, \* m_taskQueue
  stopping,  \* m_stopping
  pc,        \* where each worker's run() is
  current,   \* the task a running worker has taken out
  call,      \* where each StopWorkers/CancelWorkers call is
  done,      \* history: tasks run to their end
  dropped,   \* history: tasks removed by CancelWorkers before they started
  early      \* history: tasks enqueued while m_stopping was still false

vars == <<taskQueue, stopping, pc, current, call, done, dropped, early>>

WorkerCount == Cardinality(Workers)
Waiting == {w \in Workers : pc[w] = "waiting"}
Awake   == {w \in Workers : pc[w] = "awake"}
Running == {w \in Workers : pc[w] = "running"}
Exited  == {w \in Workers : pc[w] = "exited"}

Pending   == {taskQueue[i] : i \in 1..Len(taskQueue)} \ {NullTask}
Active    == {current[w] : w \in Running}
Submitted == Pending \cup Active \cup done \cup dropped

\* A call that is not in progress, and one that still has n null tasks to add.
Idle == [phase |-> "idle", left |-> 0, wait |-> FALSE]
Phases == {"idle", "cleared", "nulls", "join", "returned"}

Init ==
  /\ taskQueue = <<>>
  /\ stopping  = FALSE
  /\ pc        = [w \in Workers |-> "awake"]
  /\ current   = [w \in Workers |-> NullTask]
  /\ call      = [c \in Callers |-> Idle]
  /\ done      = {}
  /\ dropped   = {}
  /\ early     = {}

---------------------------------------------------------------------------------
\* QWaitCondition::wakeOne(): one waiting worker, if there is one, goes on to
\* compete for the mutex.
WakeOne ==
  IF Waiting = {} THEN pc' = pc
  ELSE \E w \in Waiting : pc' = [pc EXCEPT ![w] = "awake"]

\* A mistaken EnqueueTask that wakes a worker only when the queue was empty.
EnqueueTaskWakingOnce(t) ==
  /\ t \notin Submitted
  /\ taskQueue' = Append(taskQueue, t)
  /\ IF taskQueue = <<>> THEN WakeOne ELSE pc' = pc
  /\ early' = IF stopping THEN early ELSE early \cup {t}
  /\ UNCHANGED <<stopping, current, call, done, dropped>>

EnqueueTask(t) ==
  /\ t \notin Submitted
  /\ taskQueue' = Append(taskQueue, t)
  /\ WakeOne
  /\ early' = IF stopping THEN early ELSE early \cup {t}
  /\ UNCHANGED <<stopping, current, call, done, dropped>>

\* The locked block of StopWorkers; CancelWorkers enters here after its own.
BeginStop(c, wait) ==
  /\ \/ call[c].phase = "idle"
     \/ call[c].phase = "cleared" /\ wait = call[c].wait
  /\ stopping' = TRUE
  /\ call' = [call EXCEPT ![c] = [phase |-> "nulls", left |-> WorkerCount, wait |-> wait]]
  /\ UNCHANGED <<taskQueue, pc, current, done, dropped, early>>

\* Mistaken loops: one null task too many, and null tasks that wake nobody.
EnqueueNullOneTooMany(c) ==
  /\ call[c].phase = "nulls"
  /\ taskQueue' = Append(taskQueue, NullTask)
  /\ WakeOne
  /\ call' = [call EXCEPT ![c].left = @ - 1]
  /\ UNCHANGED <<stopping, current, done, dropped, early>>

EnqueueNullSilently(c) ==
  /\ call[c].phase = "nulls"
  /\ call[c].left > 0
  /\ taskQueue' = Append(taskQueue, NullTask)
  /\ call' = [call EXCEPT ![c].left = @ - 1]
  /\ UNCHANGED <<stopping, pc, current, done, dropped, early>>

\* One turn of StopWorkers' loop: EnqueueTask(nullptr).
EnqueueNull(c) ==
  /\ call[c].phase = "nulls"
  /\ call[c].left > 0
  /\ taskQueue' = Append(taskQueue, NullTask)
  /\ WakeOne
  /\ call' = [call EXCEPT ![c].left = @ - 1]
  /\ UNCHANGED <<stopping, current, done, dropped, early>>

\* The loop has ended: join the workers when asked to, else return.
EndNulls(c) ==
  /\ call[c].phase = "nulls"
  /\ call[c].left = 0
  /\ call' = [call EXCEPT ![c].phase = IF call[c].wait THEN "join" ELSE "returned"]
  /\ UNCHANGED <<taskQueue, stopping, pc, current, done, dropped, early>>

Joined(c) ==
  /\ call[c].phase = "join"
  /\ Exited = Workers
  /\ call' = [call EXCEPT ![c].phase = "returned"]
  /\ UNCHANGED <<taskQueue, stopping, pc, current, done, dropped, early>>

\* The locked block of CancelWorkers; StopWorkers follows.
CancelWorkers(c, wait) ==
  /\ call[c].phase = "idle"
  /\ taskQueue' = <<>>
  /\ dropped' = dropped \cup Pending
  /\ call' = [call EXCEPT ![c] = [phase |-> "cleared", left |-> 0, wait |-> wait]]
  /\ UNCHANGED <<stopping, pc, current, done, early>>

---------------------------------------------------------------------------------
\* A worker holds the mutex, finds nothing to do and no reason to leave.
WorkerWait(w) ==
  /\ pc[w] = "awake"
  /\ taskQueue = <<>>
  /\ ~stopping
  /\ pc' = [pc EXCEPT ![w] = "waiting"]
  /\ UNCHANGED <<taskQueue, stopping, current, call, done, dropped, early>>

\* QWaitCondition may return without a wake-up: the loop re-tests the queue.
SpuriousWake(w) ==
  /\ pc[w] = "waiting"
  /\ pc' = [pc EXCEPT ![w] = "awake"]
  /\ UNCHANGED <<taskQueue, stopping, current, call, done, dropped, early>>

\* A mistaken worker that leaves as soon as m_stopping is set.
WorkerReturnUndrained(w) ==
  /\ pc[w] = "awake"
  /\ stopping
  /\ pc' = [pc EXCEPT ![w] = "exited"]
  /\ UNCHANGED <<taskQueue, stopping, current, call, done, dropped, early>>

\* The wait loop is left with an empty queue, which takes m_stopping.
WorkerReturnEmpty(w) ==
  /\ pc[w] = "awake"
  /\ taskQueue = <<>>
  /\ stopping
  /\ pc' = [pc EXCEPT ![w] = "exited"]
  /\ UNCHANGED <<taskQueue, stopping, current, call, done, dropped, early>>

WorkerReturnNull(w) ==
  /\ pc[w] = "awake"
  /\ taskQueue # <<>>
  /\ Head(taskQueue) = NullTask
  /\ taskQueue' = Tail(taskQueue)
  /\ pc' = [pc EXCEPT ![w] = "exited"]
  /\ UNCHANGED <<stopping, current, call, done, dropped, early>>

\* A mistaken worker that reads the head of the queue and leaves it there.
WorkerPeek(w) ==
  /\ pc[w] = "awake"
  /\ taskQueue # <<>>
  /\ Head(taskQueue) # NullTask
  /\ current' = [current EXCEPT ![w] = Head(taskQueue)]
  /\ pc' = [pc EXCEPT ![w] = "running"]
  /\ UNCHANGED <<taskQueue, stopping, call, done, dropped, early>>

WorkerTake(w) ==
  /\ pc[w] = "awake"
  /\ taskQueue # <<>>
  /\ Head(taskQueue) # NullTask
  /\ taskQueue' = Tail(taskQueue)
  /\ current' = [current EXCEPT ![w] = Head(taskQueue)]
  /\ pc' = [pc EXCEPT ![w] = "running"]
  /\ UNCHANGED <<stopping, call, done, dropped, early>>

\* task() has returned, or thrown into the catch-all: the loop starts again.
WorkerFinish(w) ==
  /\ pc[w] = "running"
  /\ done' = done \cup {current[w]}
  /\ current' = [current EXCEPT ![w] = NullTask]
  /\ pc' = [pc EXCEPT ![w] = "awake"]
  /\ UNCHANGED <<taskQueue, stopping, call, dropped, early>>

WorkerStep(w) ==
  \/ WorkerWait(w)
  \/ WorkerReturnEmpty(w)
  \/ WorkerReturnNull(w)
  \/ WorkerTake(w)
  \/ WorkerFinish(w)

CallStep(c) ==
  \/ EnqueueNull(c)
  \/ EndNulls(c)
  \/ Joined(c)
  \/ call[c].phase = "cleared" /\ BeginStop(c, call[c].wait)

Next ==
  \/ \E t \in Tasks : EnqueueTask(t)
  \/ \E c \in Callers, wait \in BOOLEAN : BeginStop(c, wait) \/ CancelWorkers(c, wait)
  \/ \E c \in Callers : EnqueueNull(c) \/ EndNulls(c) \/ Joined(c)
  \/ \E w \in Workers : WorkerStep(w) \/ SpuriousWake(w)

\* Threads that are not blocked are scheduled, tasks end, and a call that has
\* begun goes on.  Nobody has to submit a task or to stop the pool.
Fairness ==
  /\ \A w \in Workers : WF_vars(WorkerStep(w))
  /\ \A c \in Callers : WF_vars(CallStep(c))

SafeSpec == Init /\ [][Next]_vars
Spec == SafeSpec /\ Fairness

---------------------------------------------------------------------------------
CallType == [phase : Phases, left : 0..WorkerCount, wait : BOOLEAN]

\* Every variable holds a value of its kind: the queue holds closures and null
\* tasks, a call never has more nulls to add than there are workers (run() and
\* StopWorkers of producerconsumerqueue.cpp).
TypeOK ==
  /\ taskQueue \in Seq(Tasks \cup {NullTask})
  /\ stopping \in BOOLEAN
  /\ pc \in [Workers -> {"awake", "waiting", "running", "exited"}]
  /\ current \in [Workers -> Tasks \cup {NullTask}]
  /\ call \in [Callers -> CallType]
  /\ done \subseteq Tasks
  /\ dropped \subseteq Tasks
  /\ early \subseteq Tasks

\* wakeOne per EnqueueTask is enough: while some worker sleeps, there is an
\* awake worker on its way to the mutex for each queued task, so no task waits
\* behind a busy worker beside an idle one (EnqueueTask and the wait in run()).
WorkConserving ==
  Waiting # {} => Len(taskQueue) <= Cardinality(Awake)

\* StopWorkers is graceful, as its header says: if nothing was cancelled, then
\* the workers are gone only after every task enqueued before the stop has run.
GracefulStop ==
  (Exited = Workers /\ dropped = {}) => early \subseteq done

\* After StopWorkers or CancelWorkers set m_stopping every worker leaves run(),
\* whatever is enqueued or cleared meanwhile (one null task and one wake-up per
\* worker), so the join in the destructor ends.
StopTerminates == stopping ~> (Exited = Workers)

\* The pool that callers rely on: at most once, in at most one place, and no
\* more tasks at once than workers (the header's "executed concurrently up to
\* the configured worker count").
Pool == INSTANCE TaskPool WITH
  Width <- WorkerCount, pending <- Pending, active <- Active,
  finished <- done, discarded <- dropped
PoolSpec == Pool!Spec
=================================================================================
