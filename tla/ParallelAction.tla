----------------------------- MODULE ParallelAction -----------------------------
(***************************************************************************)
(* operations/parallelaction.{h,cpp}: a MultipleAction that runs its       *)
(* sub-operations on the workers of one ProducerConsumerQueue per          *)
(* connection and waits until all have reported completed().  The signal   *)
(* comes to the main thread as a queued event.  Each queue is taken at the *)
(* grain of TaskPool, which ProducerConsumerQueue implements, with the     *)
(* workers that are free counted.  The specification covers the sequential *)
(* MultipleAction, too: the launcher                                       *)
(* (operations/multipleactionlauncher.cpp) creates one or the other.       *)
(***************************************************************************)
EXTENDS MultipleAction

CONSTANTS Conn,    \* the connection of each sub-operation, or NoConn
          NoConn,  \* a null connection
          OwnConn, \* the action's connection, when it has one
          Widths   \* the values m_maxParallelOperations may have

ASSUME ParallelActionAssumption ==
  /\ DOMAIN Conn = Subs
  /\ OwnConn # NoConn
  /\ Widths \subseteq Nat

VARIABLES
  width,     \* m_maxParallelOperations
  connected, \* the connections that are up when the constructor looks, if it does
  created,   \* the connections whose queue exists
  idle,      \* the number of free workers of each queue
  pending,   \* closures in a queue
  active,    \* closures that a worker executes
  finished,  \* closures that have returned
  closure,   \* how far each closure has come
  inbox,     \* completed() events for onOperationCompleted on the main thread
  completed  \* m_completedOperationsCount

setup == <<width, connected>>
poolVars == <<pending, active, finished>>
queueVars == <<created, idle, poolVars, closure>>
vars == <<actionVars, setup, queueVars, inbox, completed>>

\* The constructor groups by connection only for an action without one, and then
\* leaves out what is not connected.
Queue(i) == IF cross THEN Conn[i] ELSE OwnConn
Queues == {Conn[i] : i \in Subs} \cup {OwnConn}
Group(q) == {i \in Subs : Queue(i) = q}
Counted == IF cross THEN {i \in Subs : Conn[i] \in connected \cup {NoConn}} ELSE Subs
Total == Cardinality(Counted)
Submitted == pending \cup active \cup finished

Init ==
  /\ ActionInit
  /\ width     \in Widths
  /\ connected \in IF parallel /\ cross THEN SUBSET ({Conn[i] : i \in Subs} \ {NoConn}) ELSE {{}}
  /\ created   = {}
  /\ idle      = [q \in Queues |-> 0]
  /\ pending   = {}
  /\ active    = {}
  /\ finished  = {}
  /\ closure   = [i \in Subs |-> "none"]
  /\ inbox     = {}
  /\ completed = 0

---------------------------------------------------------------------------------
Least(a, b) == IF a <= b THEN a ELSE b

\* runSubOperations: a connection's queue is created once those before it have all
\* their operations, the one of no connection last.  Mistaken variants: one worker
\* per closure, one too few for it.
CreateQueueUnbounded(q) ==
  /\ parallel
  /\ pc = "begin"
  /\ q \in {Queue(i) : i \in Counted} \ created
  /\ \A i \in Counted : Queue(i) \in created => i \in Submitted
  /\ q = NoConn => {Queue(i) : i \in Counted} \subseteq created \cup {NoConn}
  /\ created' = created \cup {q}
  /\ idle' = [idle EXCEPT ![q] = Cardinality(Group(q))]
  /\ UNCHANGED <<actionVars, setup, poolVars, closure, inbox, completed>>

CreateQueueTooFew(q) ==
  /\ parallel
  /\ pc = "begin"
  /\ q \in {Queue(i) : i \in Counted} \ created
  /\ \A i \in Counted : Queue(i) \in created => i \in Submitted
  /\ q = NoConn => {Queue(i) : i \in Counted} \subseteq created \cup {NoConn}
  /\ created' = created \cup {q}
  /\ idle' = [idle EXCEPT ![q] = Least(width, Cardinality(Group(q)) - 1)]
  /\ UNCHANGED <<actionVars, setup, poolVars, closure, inbox, completed>>

CreateQueue(q) ==
  /\ parallel
  /\ pc = "begin"
  /\ q \in {Queue(i) : i \in Counted} \ created
  /\ \A i \in Counted : Queue(i) \in created => i \in Submitted
  /\ q = NoConn => {Queue(i) : i \in Counted} \subseteq created \cup {NoConn}
  /\ created' = created \cup {q}
  /\ idle' = [idle EXCEPT ![q] = Least(width, Cardinality(Group(q)))]
  /\ UNCHANGED <<actionVars, setup, poolVars, closure, inbox, completed>>

\* enqueueOperation for each of its sub-operations, in list order.
EnqueueOperation(i) ==
  /\ parallel
  /\ pc = "begin"
  /\ i \in Counted \ Submitted
  /\ Queue(i) \in created
  /\ \A j \in Group(Queue(i)) : j < i => j \in Submitted
  /\ pending' = pending \cup {i}
  /\ UNCHANGED <<actionVars, setup, created, idle, active, finished, closure, inbox, completed>>

\* Then, under m_completionMutex: wait unless everything has completed already.
WaitForCompletion ==
  /\ parallel
  /\ pc = "begin"
  /\ Counted \subseteq Submitted
  /\ pc' = IF completed = Total THEN "tail" ELSE "waiting"
  /\ UNCHANGED <<config, parent, parentError, next, subVars, exceptions, mainVars, slot, late>>
  /\ UNCHANGED <<setup, queueVars, inbox, completed>>

\* onOperationCompleted on the main thread: the last one wakes the waiting run().
\* Mistaken variants: it is woken one too early, or not at all.
OnOperationCompletedSilently(i) ==
  /\ main = "loop"
  /\ i \in inbox
  /\ inbox' = inbox \ {i}
  /\ completed' = completed + 1
  /\ UNCHANGED <<actionVars, setup, queueVars>>

OnOperationCompletedEarly(i) ==
  /\ main = "loop"
  /\ i \in inbox
  /\ inbox' = inbox \ {i}
  /\ completed' = completed + 1
  /\ pc' = IF pc = "waiting" /\ completed + 1 >= Total - 1 THEN "tail" ELSE pc
  /\ UNCHANGED <<config, parent, parentError, next, subVars, exceptions, mainVars, slot, late>>
  /\ UNCHANGED <<setup, queueVars>>

OnOperationCompleted(i) ==
  /\ main = "loop"
  /\ i \in inbox
  /\ inbox' = inbox \ {i}
  /\ completed' = completed + 1
  /\ pc' = IF pc = "waiting" /\ completed + 1 = Total THEN "tail" ELSE pc
  /\ UNCHANGED <<config, parent, parentError, next, subVars, exceptions, mainVars, slot, late>>
  /\ UNCHANGED <<setup, queueVars>>

---------------------------------------------------------------------------------
\* A free worker takes the closure at the head of its queue.
Take(i) ==
  /\ i \in pending
  /\ \A j \in pending \cap Group(Queue(i)) : i <= j
  /\ idle[Queue(i)] > 0
  /\ idle' = [idle EXCEPT ![Queue(i)] = @ - 1]
  /\ pending' = pending \ {i}
  /\ active' = active \cup {i}
  /\ closure' = [closure EXCEPT ![i] = "taken"]
  /\ UNCHANGED <<actionVars, setup, created, finished, inbox, completed>>

\* The closure has returned and its worker is free.
ClosureReturns(i) ==
  /\ closure' = [closure EXCEPT ![i] = "over"]
  /\ active' = active \ {i}
  /\ finished' = finished \cup {i}
  /\ idle' = [idle EXCEPT ![Queue(i)] = @ + 1]
  /\ UNCHANGED <<created, pending>>

\* The closure looks at IsCancelled() and returns, or goes on to RunSync.  A
\* mistaken one does not look.
ClosureUntested(i) ==
  /\ closure[i] = "taken"
  /\ closure' = [closure EXCEPT ![i] = "passed"]
  /\ UNCHANGED <<actionVars, setup, created, idle, poolVars, inbox, completed>>

ClosureTests(i) ==
  /\ closure[i] = "taken"
  /\ IF parent = "Cancelled"
     THEN ClosureReturns(i)
     ELSE /\ closure' = [closure EXCEPT ![i] = "passed"]
          /\ UNCHANGED <<created, idle, poolVars>>
  /\ UNCHANGED <<actionVars, setup, inbox, completed>>

ClosureStarts(i) ==
  /\ closure[i] = "passed"
  /\ SubStarts(i)
  /\ closure' = [closure EXCEPT ![i] = "inSub"]
  /\ UNCHANGED <<config, parent, parentError, pc, next, exceptions, mainVars, slot>>
  /\ UNCHANGED <<setup, created, idle, poolVars, inbox, completed>>

\* completed() comes out of run() or, for an operation that still runs after it, out
\* of RunSync.
ClosureClaims(i) ==
  /\ closure[i] = "inSub"
  /\ SubClaims(i)
  /\ inbox' = inbox \cup {i}
  /\ UNCHANGED <<config, parent, parentError, pc, next, exceptions, mainVars, slot, late>>
  /\ UNCHANGED <<setup, queueVars, completed>>

ClosureEnds(i) ==
  /\ closure[i] = "inSub"
  /\ SubEnds(i)
  /\ inbox' = inbox \cup (reported' \ reported)
  /\ ClosureReturns(i)
  /\ UNCHANGED <<config, parent, parentError, pc, next, exceptions, mainVars, slot, late>>
  /\ UNCHANGED <<setup, completed>>

WorkerStep(i) ==
  Take(i) \/ ClosureTests(i) \/ ClosureStarts(i) \/ ClosureClaims(i) \/ ClosureEnds(i)

RunSubOperationsStep ==
  \/ WaitForCompletion
  \/ \E q \in Queues : CreateQueue(q)
  \/ \E i \in Subs : EnqueueOperation(i)

Inherited == UNCHANGED <<setup, queueVars, inbox, completed>>

Next ==
  \/ ThreadStep /\ Inherited
  \/ MainStep /\ Inherited
  \/ UserStep /\ Inherited
  \/ RunSubOperationsStep
  \/ \E i \in Subs : OnOperationCompleted(i) \/ WorkerStep(i)

\* The pool thread, the main loop and the workers run, and sub-operations end; nobody
\* has to start or to cancel anything.
Fairness ==
  /\ WF_vars((ThreadStep /\ Inherited) \/ RunSubOperationsStep)
  /\ WF_vars((MainStep /\ Inherited) \/ \E i \in Subs : OnOperationCompleted(i))
  /\ WF_vars(\E i \in Subs : WorkerStep(i))

SafeSpec == Init /\ [][Next]_vars
Spec == SafeSpec /\ Fairness

---------------------------------------------------------------------------------
TypeOK ==
  /\ config \in BOOLEAN \X BOOLEAN \X BOOLEAN
  /\ parent \in States
  /\ parentError \in BOOLEAN
  /\ pc \in {"idle", "session", "begin", "launch", "inSub", "inspect", "waiting", "tail",
             "runReturned", "returned"}
  /\ next \in 1..(N + 1)
  /\ sub \in [Subs -> States]
  /\ subError \in [Subs -> BOOLEAN]
  /\ reported \subseteq Subs
  /\ exceptions \subseteq Subs
  /\ main \in {"loop", "onCancel", "onCompleted", "cancelSub"}
  /\ at \in 1..(N + 1)
  /\ calling \in BOOLEAN
  /\ slot \in {"none", "queued", "done"}
  /\ late \subseteq Subs
  /\ width \in Widths
  /\ connected \subseteq {Conn[i] : i \in Subs}
  /\ created \subseteq Queues
  /\ idle \in [Queues -> 0..N]
  /\ pending \subseteq Subs /\ active \subseteq Subs /\ finished \subseteq Subs
  /\ closure \in [Subs -> {"none", "taken", "passed", "inSub", "over"}]
  /\ inbox \subseteq Subs
  /\ completed \in 0..N

\* completed() is reported only when every sub-operation has come out well.  In parallel
\* each that is counted has emitted its own, so the wait of run() is not left early
\* (onOperationCompleted), and none shows a failure; a Cancel() that began while it ran
\* may have set Cancelled since.  In sequence none has an error, although errors are
\* looked at one by one while Cancel() may run.
SuccessIsComplete ==
  parent = "Completed" =>
    IF parallel THEN \A i \in Counted : i \in reported /\ sub[i] \in {"Completed", "Cancelled"}
    ELSE \A i \in Subs : sub[i] \in {"Completed", "Cancelled"} /\ ~subError[i]

\* "Don't start any more operations": once the action is Cancelled, each worker
\* (the thread in run(), in the sequential case) starts at most the one sub-operation
\* for which it had tested IsCancelled() before; and with m_stopOnFirstException the
\* first sub-operation that fails is the last to run.
StartsNoMore ==
  /\ \A q \in Queues : Cardinality(late \cap Group(q)) <= IF parallel THEN width ELSE 1
  /\ stopOnFirst => Cardinality({i \in Subs : subError[i]}) <= 1

\* "Wait for all operations to complete": no wait without anything to wait for.
WaitsForSomething ==
  pc = "waiting" => inbox # {} \/ \E i \in Counted : closure[i] # "over"

\* A sequential action ends whatever its sub-operations do; a parallel one when each
\* of them reports completed(); and while it waits no closure is left in its queue, unless
\* it was created for no parallel operations at all (the workers of runSubOperations).
Ends ==
  /\ (~parallel /\ parent = "Running") ~> pc = "returned"
  /\ (parallel /\ pc = "waiting" /\ Counted \subseteq reported) ~> pc = "returned"
  /\ (pc = "waiting" /\ width > 0) ~> pending = {}

\* Each connection's queue is the pool that TaskPool promises: a closure runs at
\* most once, and no more of one connection at once than m_maxParallelOperations,
\* with the workers that runSubOperations creates.
PoolOf(G, w) == INSTANCE TaskPool WITH
  Tasks <- Subs, Width <- w, pending <- pending \cap G, active <- active \cap G,
  finished <- finished \cap G, discarded <- {}
PoolPerConnection ==
  [][\A G \in {Group(q) : q \in Queues}, w \in {width} :
       [PoolOf(G, w)!Next]_(PoolOf(G, w)!vars)]_poolVars
=================================================================================
