---------------------- MODULE ProducerConsumerQueueProofs ----------------------
(***************************************************************************)
(* What holds of ProducerConsumerQueue for every finite set of workers and *)
(* every set of tasks and callers.                                         *)
(***************************************************************************)
EXTENDS ProducerConsumerQueue, FiniteSetTheorems, SequenceTheorems, TLAPS

LEMMA WorkerCountType == WorkerCount \in Nat \ {0}
  BY QueueAssumption, FS_CardinalityType, FS_EmptySet DEF WorkerCount

---------------------------------------------------------------------------------
\* TypeOK is not inductive: that a finished task is a task rests on what a
\* running worker has taken out of the queue.
RunsTask == \A w \in Running : current[w] \in Tasks
TypeInv == TypeOK /\ RunsTask

\* wakeOne moves at most one worker, from waiting to awake.
LEMMA WakeOneMoves ==
  ASSUME TypeOK, WakeOne
  PROVE  \/ (Waiting = {} /\ pc' = pc)
         \/ \E w \in Workers : pc[w] = "waiting" /\ pc' = [pc EXCEPT ![w] = "awake"]
  BY DEF WakeOne, Waiting

LEMMA WakeOneType ==
  ASSUME TypeOK, WakeOne
  PROVE  /\ pc' \in [Workers -> {"awake", "waiting", "running", "exited"}]
         /\ \A w \in Workers : pc'[w] \in {"running", "exited"} \/ pc[w] \in {"running", "exited"}
              => pc'[w] = pc[w]
  BY WakeOneMoves DEF TypeOK

\* What the step of a StopWorkers call does to its record.
LEMMA CallSteps ==
  ASSUME TypeOK, NEW c \in Callers,
         EnqueueNull(c) \/ EndNulls(c) \/ Joined(c)
  PROVE  call' \in [Callers -> CallType]
  <1>1. call[c] \in CallType
    BY DEF TypeOK
  <1>2. CASE EnqueueNull(c)
    <2>1. call[c].left - 1 \in 0..WorkerCount
      BY <1>1, <1>2, WorkerCountType DEF EnqueueNull, CallType
    <2>2. [call[c] EXCEPT !.left = @ - 1] \in CallType
      BY <1>1, <2>1 DEF CallType
    <2>3. QED
      BY <1>2, <2>2 DEF EnqueueNull, TypeOK
  <1>3. CASE EndNulls(c) \/ Joined(c)
    <2>1. \A p \in Phases : [call[c] EXCEPT !.phase = p] \in CallType
      BY <1>1 DEF CallType
    <2>2. \E p \in Phases : call' = [call EXCEPT ![c] = [call[c] EXCEPT !.phase = p]]
      <3>1. CASE EndNulls(c)
        <4>1. (IF call[c].wait THEN "join" ELSE "returned") \in Phases
          BY DEF Phases
        <4>2. QED
          BY <3>1, <4>1 DEF EndNulls, TypeOK
      <3>2. CASE Joined(c)
        BY <3>2 DEF Joined, TypeOK, Phases
      <3>3. QED
        BY <1>3, <3>1, <3>2
    <2>3. QED
      BY <2>1, <2>2 DEF TypeOK
  <1>4. QED
    BY <1>2, <1>3

LEMMA InitTypeInv == Init => TypeInv
  <1>1. Idle \in CallType
    BY WorkerCountType DEF Idle, CallType, Phases
  <1>2. QED
    BY <1>1, EmptySeq DEF Init, TypeInv, TypeOK, RunsTask, Running

LEMMA StepTypeInv == TypeInv /\ [Next]_vars => TypeInv'
  <1> SUFFICES ASSUME TypeInv, [Next]_vars PROVE TypeInv'
    OBVIOUS
  <1> USE DEF TypeInv, TypeOK, RunsTask, Running
  <1>1. ASSUME NEW t \in Tasks, EnqueueTask(t) PROVE TypeInv'
    BY <1>1, WakeOneType, AppendProperties DEF EnqueueTask
  <1>2. ASSUME NEW c \in Callers, NEW wait \in BOOLEAN, BeginStop(c, wait) PROVE TypeInv'
    BY <1>2, WorkerCountType DEF BeginStop, CallType, Phases
  <1>3. ASSUME NEW c \in Callers, NEW wait \in BOOLEAN, CancelWorkers(c, wait) PROVE TypeInv'
    BY <1>3, WorkerCountType, EmptySeq, ElementOfSeq DEF CancelWorkers, CallType, Phases, Pending
  <1>4. ASSUME NEW c \in Callers, EnqueueNull(c) PROVE TypeInv'
    BY <1>4, CallSteps, WakeOneType, AppendProperties DEF EnqueueNull
  <1>5. ASSUME NEW c \in Callers, EndNulls(c) \/ Joined(c) PROVE TypeInv'
    BY <1>5, CallSteps DEF EndNulls, Joined
  <1>6. ASSUME NEW w \in Workers, WorkerStep(w) \/ SpuriousWake(w) PROVE TypeInv'
    <2>1. CASE WorkerWait(w) \/ WorkerReturnEmpty(w) \/ SpuriousWake(w)
      BY <2>1 DEF WorkerWait, WorkerReturnEmpty, SpuriousWake
    <2>2. CASE WorkerReturnNull(w)
      BY <2>2, HeadTailProperties DEF WorkerReturnNull
    <2>3. CASE WorkerTake(w)
      BY <2>3, HeadTailProperties DEF WorkerTake
    <2>4. CASE WorkerFinish(w)
      BY <2>4 DEF WorkerFinish
    <2>5. QED
      BY <1>6, <2>1, <2>2, <2>3, <2>4 DEF WorkerStep
  <1>7. CASE UNCHANGED vars
    BY <1>7 DEF vars
  <1>8. QED
    BY <1>1, <1>2, <1>3, <1>4, <1>5, <1>6, <1>7 DEF Next

\* Every variable of the queue keeps its kind, with any number of workers, tasks
\* and callers (producerconsumerqueue.cpp).
THEOREM TypeCorrect == SafeSpec => []TypeOK
  <1>1. TypeInv => TypeOK
    BY DEF TypeInv
  <1>2. QED
    BY <1>1, InitTypeInv, StepTypeInv, PTL DEF SafeSpec

---------------------------------------------------------------------------------
\* The elements of a queue, and what Append, Head and Tail do to them.
Elements(q) == {q[i] : i \in 1..Len(q)}

\* No closure is in a queue twice.
NoRepeat(q) == \A i, j \in 1..Len(q) : q[i] = q[j] /\ q[i] # NullTask => i = j

\* What the null tasks have overtaken: nothing of E is behind one.
NothingBehindNull(q, E) ==
  \A i, j \in 1..Len(q) : i < j /\ q[i] = NullTask => q[j] \notin E

LEMMA AppendElements ==
  ASSUME NEW S, NEW q \in Seq(S), NEW e \in S
  PROVE  /\ Elements(Append(q, e)) = Elements(q) \cup {e}
         /\ NoRepeat(q) /\ (e = NullTask \/ e \notin Elements(q)) => NoRepeat(Append(q, e))
  <1>1. /\ Append(q, e) \in Seq(S)
        /\ Len(Append(q, e)) = Len(q) + 1
        /\ \A i \in 1..Len(q) : Append(q, e)[i] = q[i]
        /\ Append(q, e)[Len(q) + 1] = e
        /\ Len(q) \in Nat
    BY AppendProperties, LenProperties
  <1> DEFINE a == Append(q, e)
  <1> HIDE DEF a
  <1>2. \A i \in 1..Len(a) : (i \in 1..Len(q) /\ a[i] = q[i]) \/ (i = Len(q) + 1 /\ a[i] = e)
    BY <1>1 DEF a
  <1>3. 1..Len(q) \subseteq 1..Len(a) /\ Len(q) + 1 \in 1..Len(a)
    BY <1>1 DEF a
  <1>4. Elements(a) = Elements(q) \cup {e}
    <2>1. Elements(a) \subseteq Elements(q) \cup {e}
      BY <1>2 DEF Elements
    <2>2. Elements(q) \subseteq Elements(a)
      BY <1>1, <1>3 DEF Elements, a
    <2>3. e \in Elements(a)
      BY <1>1, <1>3 DEF Elements, a
    <2>4. QED
      BY <2>1, <2>2, <2>3
  <1>5. ASSUME NoRepeat(q), e = NullTask \/ e \notin Elements(q) PROVE NoRepeat(a)
    BY <1>1, <1>2, <1>5 DEF NoRepeat, Elements
  <1>6. QED
    BY <1>4, <1>5 DEF a

LEMMA TailElements ==
  ASSUME NEW S, NEW q \in Seq(S), q # <<>>
  PROVE  /\ Elements(q) = {Head(q)} \cup Elements(Tail(q))
         /\ NoRepeat(q) => NoRepeat(Tail(q))
         /\ NoRepeat(q) /\ Head(q) # NullTask => Head(q) \notin Elements(Tail(q))
  <1>1. /\ Tail(q) \in Seq(S)
        /\ Len(Tail(q)) = Len(q) - 1
        /\ \A i \in 1..Len(Tail(q)) : Tail(q)[i] = q[i + 1]
        /\ Len(q) \in Nat \ {0}
        /\ Head(q) = q[1]
    BY HeadTailProperties, EmptySeq
  <1> DEFINE t == Tail(q)
  <1> HIDE DEF t
  <1>2. /\ Len(t) = Len(q) - 1 /\ Len(t) \in Nat
        /\ \A i \in 1..Len(t) : (t[i] = q[i + 1] /\ i + 1 \in 1..Len(q))
    BY <1>1 DEF t
  <1>3. \A i \in 1..Len(q) : i = 1 \/ (i - 1 \in 1..Len(t) /\ t[i - 1] = q[i])
    BY <1>1, <1>2
  <1>4. Elements(q) \subseteq {q[1]} \cup Elements(t)
    BY <1>3 DEF Elements
  <1>5. {q[1]} \cup Elements(t) \subseteq Elements(q)
    BY <1>1, <1>2 DEF Elements
  <1>6. ASSUME NoRepeat(q) PROVE NoRepeat(t)
    BY <1>2, <1>6 DEF NoRepeat
  <1>7. ASSUME NoRepeat(q), q[1] # NullTask PROVE q[1] \notin Elements(t)
    BY <1>1, <1>2, <1>7 DEF NoRepeat, Elements
  <1>8. QED
    BY <1>1, <1>4, <1>5, <1>6, <1>7 DEF t

---------------------------------------------------------------------------------
\* A task is in one place only, and there once.
PlaceInv ==
  /\ NoRepeat(taskQueue)
  /\ \A v, w \in Running : current[v] = current[w] => v = w
  /\ Pending \cap (Active \cup done \cup dropped) = {}
  /\ Active \cap (done \cup dropped) = {}
  /\ done \cap dropped = {}

LEMMA PendingIsElements == /\ Pending = Elements(taskQueue) \ {NullTask}
                           /\ Pending' = Elements(taskQueue') \ {NullTask}
  BY DEF Pending, Elements

\* wakeOne leaves the running workers alone.
LEMMA WakeOneRunning ==
  ASSUME TypeOK, WakeOne
  PROVE  Running' = Running /\ Exited' = Exited
  BY WakeOneType, WakeOneMoves DEF Running, Exited, TypeOK

LEMMA EnqueueTaskPlaces ==
  ASSUME TypeInv, PlaceInv, NEW t \in Tasks, EnqueueTask(t)
  PROVE  /\ t \notin Submitted
         /\ Pending' = Pending \cup {t} /\ Active' = Active
         /\ done' = done /\ dropped' = dropped
         /\ PlaceInv'
  <1>1. /\ taskQueue \in Seq(Tasks \cup {NullTask})
        /\ taskQueue' = Append(taskQueue, t)
        /\ t \notin Submitted /\ t # NullTask
    BY QueueAssumption DEF TypeInv, TypeOK, EnqueueTask
  <1>2. t \notin Elements(taskQueue)
    BY <1>1, PendingIsElements DEF Submitted
  <1>3. Pending' = Pending \cup {t} /\ NoRepeat(taskQueue)'
    BY <1>1, <1>2, AppendElements, PendingIsElements DEF PlaceInv
  <1>4. Running' = Running /\ current' = current
    BY WakeOneRunning DEF EnqueueTask, TypeInv
  <1>5. Active' = Active
    BY <1>4 DEF Active
  <1>6. QED
    BY <1>1, <1>3, <1>4, <1>5 DEF PlaceInv, Submitted, EnqueueTask

LEMMA EnqueueNullPlaces ==
  ASSUME TypeInv, PlaceInv, NEW c \in Callers, EnqueueNull(c)
  PROVE  /\ Pending' = Pending /\ Active' = Active
         /\ done' = done /\ dropped' = dropped
         /\ PlaceInv'
  <1>1. /\ taskQueue \in Seq(Tasks \cup {NullTask})
        /\ taskQueue' = Append(taskQueue, NullTask)
    BY DEF TypeInv, TypeOK, EnqueueNull
  <1>2. Pending' = Pending /\ NoRepeat(taskQueue)'
    BY <1>1, AppendElements, PendingIsElements DEF PlaceInv
  <1>3. Running' = Running /\ current' = current
    BY WakeOneRunning DEF EnqueueNull, TypeInv
  <1>4. Active' = Active
    BY <1>3 DEF Active
  <1>5. QED
    BY <1>2, <1>3, <1>4 DEF PlaceInv, EnqueueNull

LEMMA ReturnNullPlaces ==
  ASSUME TypeInv, PlaceInv, NEW w \in Workers, WorkerReturnNull(w)
  PROVE  /\ Pending' = Pending /\ Active' = Active
         /\ done' = done /\ dropped' = dropped
         /\ PlaceInv'
  <1>1. /\ taskQueue \in Seq(Tasks \cup {NullTask}) /\ taskQueue # <<>>
        /\ taskQueue' = Tail(taskQueue) /\ Head(taskQueue) = NullTask
    BY DEF TypeInv, TypeOK, WorkerReturnNull
  <1>2. Pending' = Pending /\ NoRepeat(taskQueue)'
    BY <1>1, TailElements, PendingIsElements DEF PlaceInv
  <1>3. Running' = Running /\ current' = current
    BY DEF WorkerReturnNull, TypeInv, TypeOK, Running
  <1>4. Active' = Active
    BY <1>3 DEF Active
  <1>5. QED
    BY <1>2, <1>3, <1>4 DEF PlaceInv, WorkerReturnNull

LEMMA TakePlaces ==
  ASSUME TypeInv, PlaceInv, NEW w \in Workers, WorkerTake(w)
  PROVE  /\ Head(taskQueue) \in Pending
         /\ Pending' = Pending \ {Head(taskQueue)}
         /\ Active' = Active \cup {Head(taskQueue)}
         /\ done' = done /\ dropped' = dropped
         /\ PlaceInv'
  <1>1. /\ taskQueue \in Seq(Tasks \cup {NullTask}) /\ taskQueue # <<>>
        /\ taskQueue' = Tail(taskQueue) /\ Head(taskQueue) # NullTask
    BY DEF TypeInv, TypeOK, WorkerTake
  <1>2. /\ Head(taskQueue) \in Pending
        /\ Pending' = Pending \ {Head(taskQueue)}
        /\ NoRepeat(taskQueue)'
    BY <1>1, TailElements, PendingIsElements DEF PlaceInv
  <1>3. /\ w \notin Running
        /\ Running' = Running \cup {w}
        /\ current'[w] = Head(taskQueue)
        /\ \A v \in Running : current'[v] = current[v]
    BY DEF WorkerTake, TypeInv, TypeOK, Running
  <1>4. Active' = Active \cup {Head(taskQueue)}
    BY <1>3 DEF Active
  <1>5. \A v \in Running : current[v] # Head(taskQueue)
    BY <1>2 DEF PlaceInv, Active
  <1>6. \A u, v \in Running' : current'[u] = current'[v] => u = v
    BY <1>3, <1>5 DEF PlaceInv
  <1>7. done' = done /\ dropped' = dropped
    BY DEF WorkerTake
  <1>8. QED
    BY <1>2, <1>4, <1>6, <1>7 DEF PlaceInv

LEMMA FinishPlaces ==
  ASSUME TypeInv, PlaceInv, NEW w \in Workers, WorkerFinish(w)
  PROVE  /\ current[w] \in Active
         /\ Active' = Active \ {current[w]}
         /\ done' = done \cup {current[w]}
         /\ Pending' = Pending /\ dropped' = dropped
         /\ PlaceInv'
  <1>1. /\ w \in Running
        /\ Running' = Running \ {w}
        /\ \A v \in Running' : current'[v] = current[v]
    BY DEF WorkerFinish, TypeInv, TypeOK, Running
  <1>2. current[w] \in Active /\ Active' = Active \ {current[w]}
    BY <1>1 DEF Active, PlaceInv
  <1>3. taskQueue' = taskQueue /\ done' = done \cup {current[w]} /\ dropped' = dropped
    BY DEF WorkerFinish
  <1>4. Pending' = Pending
    BY <1>3 DEF Pending
  <1>5. NoRepeat(taskQueue)' /\ \A u, v \in Running' : current'[u] = current'[v] => u = v
    BY <1>1, <1>3 DEF PlaceInv
  <1>6. QED
    BY <1>2, <1>3, <1>4, <1>5 DEF PlaceInv

LEMMA CancelPlaces ==
  ASSUME TypeInv, PlaceInv, NEW c \in Callers, NEW wait \in BOOLEAN, CancelWorkers(c, wait)
  PROVE  /\ Pending' = {} /\ dropped' = dropped \cup Pending
         /\ Active' = Active /\ done' = done
         /\ PlaceInv'
  <1>1. /\ taskQueue' = <<>> /\ pc' = pc /\ current' = current
        /\ dropped' = dropped \cup Pending /\ done' = done
    BY DEF CancelWorkers
  <1>2. Pending' = {} /\ NoRepeat(taskQueue)'
    BY <1>1 DEF Pending, NoRepeat
  <1>3. Active' = Active /\ Running' = Running
    BY <1>1 DEF Active, Running
  <1>4. QED
    BY <1>1, <1>2, <1>3 DEF PlaceInv

\* The other steps move no task.
QuietStep ==
  \/ \E c \in Callers, wait \in BOOLEAN : BeginStop(c, wait)
  \/ \E c \in Callers : EndNulls(c) \/ Joined(c)
  \/ \E w \in Workers : WorkerWait(w) \/ WorkerReturnEmpty(w) \/ SpuriousWake(w)
  \/ UNCHANGED vars

LEMMA QuietPlaces ==
  ASSUME TypeInv, PlaceInv, QuietStep
  PROVE  /\ Pending' = Pending /\ Active' = Active
         /\ done' = done /\ dropped' = dropped
         /\ PlaceInv'
  <1>1. /\ taskQueue' = taskQueue /\ current' = current
        /\ done' = done /\ dropped' = dropped
    BY DEF QuietStep, BeginStop, EndNulls, Joined, WorkerWait, WorkerReturnEmpty, SpuriousWake, vars
  <1>2. Running' = Running
    BY DEF QuietStep, BeginStop, EndNulls, Joined, WorkerWait, WorkerReturnEmpty, SpuriousWake, vars,
           Running, TypeInv, TypeOK
  <1>3. Pending' = Pending /\ Active' = Active
    BY <1>1, <1>2 DEF Pending, Active
  <1>4. QED
    BY <1>1, <1>2, <1>3 DEF PlaceInv

\* The disjuncts of Next, as the proofs below take them.
LEMMA NextCases ==
  ASSUME [Next]_vars
  PROVE  \/ \E t \in Tasks : EnqueueTask(t)
         \/ \E c \in Callers : EnqueueNull(c)
         \/ \E c \in Callers, wait \in BOOLEAN : CancelWorkers(c, wait)
         \/ \E w \in Workers : WorkerReturnNull(w)
         \/ \E w \in Workers : WorkerTake(w)
         \/ \E w \in Workers : WorkerFinish(w)
         \/ QuietStep
  BY DEF Next, WorkerStep, QuietStep

LEMMA InitPlaceInv == Init => PlaceInv
  BY DEF Init, PlaceInv, NoRepeat, Pending, Active, Running

LEMMA StepPlaceInv == TypeInv /\ PlaceInv /\ [Next]_vars => PlaceInv'
  BY NextCases, EnqueueTaskPlaces, EnqueueNullPlaces, CancelPlaces, ReturnNullPlaces,
     TakePlaces, FinishPlaces, QuietPlaces

\* A task that starts finds fewer running ones than there are workers.
LEMMA RoomForOne ==
  ASSUME TypeInv, NEW w \in Workers, pc[w] = "awake"
  PROVE  Cardinality(Active) < WorkerCount
  <1>1. Running \subseteq Workers \ {w}
    BY DEF Running
  <1>2. /\ IsFiniteSet(Workers \ {w})
        /\ Cardinality(Workers \ {w}) = WorkerCount - 1
    BY QueueAssumption, FS_RemoveElement DEF WorkerCount
  <1>3. IsFiniteSet(Running) /\ Cardinality(Running) <= WorkerCount - 1
    BY <1>1, <1>2, FS_Subset
  <1>4. [v \in Running |-> current[v]] \in Surjection(Running, Active)
    BY DEF Surjection, Active
  <1>5. IsFiniteSet(Active) /\ Cardinality(Active) <= Cardinality(Running)
    BY <1>3, <1>4, FS_Surjection
  <1>6. /\ Cardinality(Active) \in Nat /\ Cardinality(Running) \in Nat
        /\ WorkerCount \in Nat
    BY <1>3, <1>5, FS_CardinalityType, WorkerCountType
  <1>7. QED
    BY <1>3, <1>5, <1>6

LEMMA StepPool ==
  ASSUME TypeInv, PlaceInv, [Next]_vars
  PROVE  [Pool!Next]_(Pool!vars)
  <1> USE DEF Pool!Next, Pool!vars, Pool!Known, Submitted
  <1>1. ASSUME NEW t \in Tasks, EnqueueTask(t) PROVE Pool!Next
    BY <1>1, EnqueueTaskPlaces DEF Pool!Submit
  <1>2. ASSUME NEW c \in Callers, NEW wait \in BOOLEAN, CancelWorkers(c, wait) PROVE Pool!Next
    BY <1>2, CancelPlaces DEF Pool!Discard
  <1>3. ASSUME NEW w \in Workers, WorkerTake(w) PROVE Pool!Next
    <2>1. Cardinality(Active) < WorkerCount
      BY <1>3, RoomForOne DEF WorkerTake
    <2>2. Head(taskQueue) \in Tasks
      BY <1>3, HeadTailProperties DEF WorkerTake, TypeInv, TypeOK
    <2>3. Pool!Cardinality(Active) < WorkerCount
      BY <2>1 DEF Cardinality, Pool!Cardinality
    <2>4. Pool!Start(Head(taskQueue))
      BY <1>3, <2>3, TakePlaces DEF Pool!Start
    <2>5. QED
      BY <2>2, <2>4
  <1>4. ASSUME NEW w \in Workers, WorkerFinish(w) PROVE Pool!Next
    <2>1. current[w] \in Tasks
      BY <1>4 DEF WorkerFinish, TypeInv, RunsTask, Running
    <2>2. Pool!Finish(current[w])
      BY <1>4, FinishPlaces DEF Pool!Finish
    <2>3. QED
      BY <2>1, <2>2
  <1>5. ASSUME NEW c \in Callers, EnqueueNull(c) PROVE UNCHANGED Pool!vars
    BY <1>5, EnqueueNullPlaces
  <1>6. ASSUME NEW w \in Workers, WorkerReturnNull(w) PROVE UNCHANGED Pool!vars
    BY <1>6, ReturnNullPlaces
  <1>7. CASE QuietStep
    BY <1>7, QuietPlaces
  <1>8. QED
    BY <1>1, <1>2, <1>3, <1>4, <1>5, <1>6, <1>7, NextCases

\* The queue implements the pool its callers rely on: a task is started at most
\* once, is never both cancelled and run, and no more tasks run at once than there
\* are workers (EnqueueTask, CancelWorkers and run() of the workers).
THEOREM ImplementsTaskPool == SafeSpec => PoolSpec
  <1>1. Init => Pool!Init
    BY DEF Init, Pool!Init, Pending, Active, Running
  <1>2. QED
    BY <1>1, InitTypeInv, StepTypeInv, InitPlaceInv, StepPlaceInv, StepPool, PTL
       DEF SafeSpec, PoolSpec, Pool!Spec

---------------------------------------------------------------------------------
\* WorkConserving is inductive: a wake-up per enqueued task keeps the balance, and
\* an awake worker that leaves takes an element of the queue with it.
LEMMA AwakeFinite ==
  /\ IsFiniteSet(Awake) /\ Cardinality(Awake) \in Nat
  /\ IsFiniteSet(Awake') /\ Cardinality(Awake') \in Nat
  BY QueueAssumption, FS_Subset, FS_CardinalityType DEF Awake

LEMMA EnqueueBalance ==
  ASSUME TypeInv, WorkConserving, WakeOne,
         NEW e \in Tasks \cup {NullTask}, taskQueue' = Append(taskQueue, e)
  PROVE  WorkConserving'
  <1>1. taskQueue \in Seq(Tasks \cup {NullTask})
    BY DEF TypeInv, TypeOK
  <1>2. Len(taskQueue') = Len(taskQueue) + 1 /\ Len(taskQueue) \in Nat
    BY <1>1, AppendProperties, LenProperties
  <1>3. CASE Waiting = {} /\ pc' = pc
    BY <1>3 DEF WorkConserving, Waiting
  <1>4. ASSUME NEW w \in Workers, pc[w] = "waiting", pc' = [pc EXCEPT ![w] = "awake"]
        PROVE  WorkConserving'
    <2>1. Waiting # {} /\ w \notin Awake /\ Awake' = Awake \cup {w}
      BY <1>4 DEF Waiting, Awake, TypeInv, TypeOK
    <2>2. Cardinality(Awake') = Cardinality(Awake) + 1
      BY <2>1, AwakeFinite, FS_AddElement
    <2>3. QED
      BY <1>2, <2>1, <2>2, AwakeFinite DEF WorkConserving
  <1>5. QED
    BY <1>3, <1>4, WakeOneMoves DEF TypeInv

LEMMA StepWorkConserving == TypeInv /\ WorkConserving /\ [Next]_vars => WorkConserving'
  <1> SUFFICES ASSUME TypeInv, WorkConserving, [Next]_vars PROVE WorkConserving'
    OBVIOUS
  <1>1. ASSUME NEW t \in Tasks, EnqueueTask(t) PROVE WorkConserving'
    BY <1>1, EnqueueBalance DEF EnqueueTask
  <1>2. ASSUME NEW c \in Callers, EnqueueNull(c) PROVE WorkConserving'
    BY <1>2, EnqueueBalance DEF EnqueueNull
  <1>3. ASSUME taskQueue' = <<>> PROVE WorkConserving'
    BY <1>3, AwakeFinite, EmptySeq DEF WorkConserving
  <1>4. ASSUME NEW w \in Workers, WorkerReturnNull(w) \/ WorkerTake(w) PROVE WorkConserving'
    <2>1. /\ Waiting' = Waiting
          /\ w \in Awake /\ Awake' = Awake \ {w}
      BY <1>4 DEF WorkerReturnNull, WorkerTake, Waiting, Awake, TypeInv, TypeOK
    <2>2. Cardinality(Awake') = Cardinality(Awake) - 1
      BY <2>1, AwakeFinite, FS_RemoveElement
    <2>3. Len(taskQueue') = Len(taskQueue) - 1 /\ Len(taskQueue) \in Nat
      BY <1>4, HeadTailProperties, LenProperties DEF WorkerReturnNull, WorkerTake, TypeInv, TypeOK
    <2>4. QED
      BY <2>1, <2>2, <2>3, AwakeFinite DEF WorkConserving
  <1>5. ASSUME NEW w \in Workers, WorkerFinish(w) \/ SpuriousWake(w) PROVE WorkConserving'
    <2>1. /\ taskQueue' = taskQueue /\ Waiting' \subseteq Waiting
          /\ w \notin Awake /\ Awake' = Awake \cup {w}
      BY <1>5 DEF WorkerFinish, SpuriousWake, Waiting, Awake, TypeInv, TypeOK
    <2>2. Cardinality(Awake') = Cardinality(Awake) + 1
      BY <2>1, AwakeFinite, FS_AddElement
    <2>3. Len(taskQueue) \in Nat
      BY LenProperties DEF TypeInv, TypeOK
    <2>4. QED
      BY <2>1, <2>2, <2>3, AwakeFinite DEF WorkConserving
  <1>6. ASSUME NEW w \in Workers, WorkerWait(w) \/ WorkerReturnEmpty(w) PROVE WorkConserving'
    BY <1>3, <1>6 DEF WorkerWait, WorkerReturnEmpty
  <1>7. ASSUME taskQueue' = taskQueue, pc' = pc PROVE WorkConserving'
    BY <1>7 DEF WorkConserving, Waiting, Awake
  <1>8. QED
    BY <1>1, <1>2, <1>3, <1>4, <1>5, <1>6, <1>7
       DEF Next, WorkerStep, BeginStop, CancelWorkers, EndNulls, Joined, vars

\* However many workers, tasks and callers there are, no task waits in the queue
\* beside a sleeping worker without a woken one on its way (EnqueueTask and the
\* wait in run()).
THEOREM AlwaysWorkConserving == SafeSpec => []WorkConserving
  <1>1. Init => WorkConserving
    BY DEF Init, WorkConserving, Waiting
  <1>2. QED
    BY <1>1, InitTypeInv, StepTypeInv, StepWorkConserving, PTL DEF SafeSpec

---------------------------------------------------------------------------------
\* Why a stop is graceful: null tasks are enqueued only once m_stopping is set, so
\* an early task is in front of all of them, and the first worker that leaves
\* finds none left.
StopInv ==
  /\ ~stopping => \A c \in Callers : call[c].phase \in {"idle", "cleared"}
  /\ ~stopping => NullTask \notin Elements(taskQueue)
  /\ early \subseteq Submitted
  /\ NothingBehindNull(taskQueue, early)
  /\ Exited # {} => stopping /\ Pending \cap early = {}

LEMMA AppendBehindNull ==
  ASSUME NEW S, NEW q \in Seq(S), NEW e \in S, NEW E, NothingBehindNull(q, E),
         NullTask \notin Elements(q) \/ e \notin E
  PROVE  NothingBehindNull(Append(q, e), E)
  <1>1. /\ Len(Append(q, e)) = Len(q) + 1 /\ Len(q) \in Nat
        /\ \A i \in 1..Len(q) : Append(q, e)[i] = q[i]
        /\ Append(q, e)[Len(q) + 1] = e
    BY AppendProperties, LenProperties
  <1>2. ASSUME NEW i \in 1..(Len(q) + 1), NEW j \in 1..(Len(q) + 1), i < j,
               Append(q, e)[i] = NullTask
        PROVE  Append(q, e)[j] \notin E
    <2>1. i \in 1..Len(q) /\ q[i] = NullTask
      BY <1>1, <1>2
    <2>2. CASE j \in 1..Len(q)
      BY <1>1, <1>2, <2>1, <2>2 DEF NothingBehindNull
    <2>3. CASE j = Len(q) + 1
      BY <1>1, <2>1, <2>3 DEF Elements
    <2>4. QED
      BY <1>1, <2>2, <2>3
  <1>3. QED
    BY <1>1, <1>2 DEF NothingBehindNull

LEMMA TailBehindNull ==
  ASSUME NEW S, NEW q \in Seq(S), q # <<>>, NEW E, NothingBehindNull(q, E)
  PROVE  /\ NothingBehindNull(Tail(q), E)
         /\ Head(q) = NullTask => Elements(Tail(q)) \cap E = {}
  <1>1. /\ Len(Tail(q)) = Len(q) - 1 /\ Len(q) \in Nat \ {0}
        /\ \A i \in 1..Len(Tail(q)) : Tail(q)[i] = q[i + 1]
        /\ Head(q) = q[1]
    BY HeadTailProperties, EmptySeq
  <1>2. ASSUME NEW i \in 1..Len(Tail(q)), NEW j \in 1..Len(Tail(q)), i < j,
               Tail(q)[i] = NullTask
        PROVE  Tail(q)[j] \notin E
    BY <1>1, <1>2 DEF NothingBehindNull
  <1>3. ASSUME Head(q) = NullTask, NEW j \in 1..Len(Tail(q))
        PROVE  Tail(q)[j] \notin E
    BY <1>1, <1>3 DEF NothingBehindNull
  <1>4. QED
    BY <1>2, <1>3 DEF NothingBehindNull, Elements

LEMMA InitStopInv == Init => StopInv
  BY DEF Init, StopInv, Idle, Elements, Submitted, NothingBehindNull, Exited

LEMMA EnqueueTaskStopInv ==
  ASSUME TypeInv, PlaceInv, StopInv, NEW t \in Tasks, EnqueueTask(t)
  PROVE  StopInv'
  <1>1. /\ taskQueue \in Seq(Tasks \cup {NullTask}) /\ t \in Tasks \cup {NullTask}
        /\ taskQueue' = Append(taskQueue, t) /\ t # NullTask
        /\ stopping' = stopping /\ call' = call
        /\ early' = IF stopping THEN early ELSE early \cup {t}
    BY QueueAssumption DEF TypeInv, TypeOK, EnqueueTask
  <1>2. /\ t \notin Submitted /\ Submitted' = Submitted \cup {t}
        /\ Pending' = Pending \cup {t}
    BY EnqueueTaskPlaces DEF Submitted
  <1>3. Elements(taskQueue') = Elements(taskQueue) \cup {t}
    BY <1>1, AppendElements
  <1>4. Exited' = Exited
    BY WakeOneRunning DEF EnqueueTask, TypeInv
  <1>5. t \notin early
    BY <1>2 DEF StopInv
  <1>6. NothingBehindNull(taskQueue, early')
    <2>1. ~stopping => NullTask \notin Elements(taskQueue)
      BY DEF StopInv
    <2>2. CASE stopping
      BY <1>1, <2>2 DEF StopInv
    <2>3. CASE ~stopping
      BY <2>1, <2>3 DEF NothingBehindNull, Elements
    <2>4. QED
      BY <2>2, <2>3
  <1>7. NothingBehindNull(taskQueue', early')
    BY <1>1, <1>5, <1>6, AppendBehindNull DEF StopInv
  <1>8. QED
    BY <1>1, <1>2, <1>3, <1>4, <1>5, <1>7 DEF StopInv

LEMMA EnqueueNullStopInv ==
  ASSUME TypeInv, PlaceInv, StopInv, NEW c \in Callers, EnqueueNull(c)
  PROVE  StopInv'
  <1>1. /\ taskQueue \in Seq(Tasks \cup {NullTask})
        /\ taskQueue' = Append(taskQueue, NullTask)
        /\ stopping' = stopping /\ early' = early
    BY DEF TypeInv, TypeOK, EnqueueNull
  <1>2. stopping
    BY DEF EnqueueNull, StopInv
  <1>3. Submitted' = Submitted /\ Pending' = Pending
    BY EnqueueNullPlaces DEF Submitted
  <1>4. Exited' = Exited
    BY WakeOneRunning DEF EnqueueNull, TypeInv
  <1>5. NullTask \notin early
    BY QueueAssumption DEF TypeInv, TypeOK
  <1>6. NothingBehindNull(taskQueue', early')
    BY <1>1, <1>5, AppendBehindNull DEF StopInv
  <1>7. QED
    BY <1>1, <1>2, <1>3, <1>4, <1>6 DEF StopInv

LEMMA ReturnNullStopInv ==
  ASSUME TypeInv, PlaceInv, StopInv, NEW w \in Workers, WorkerReturnNull(w)
  PROVE  StopInv'
  <1>1. /\ taskQueue \in Seq(Tasks \cup {NullTask}) /\ taskQueue # <<>>
        /\ taskQueue' = Tail(taskQueue) /\ Head(taskQueue) = NullTask
        /\ stopping' = stopping /\ early' = early /\ call' = call
    BY DEF TypeInv, TypeOK, WorkerReturnNull
  <1>2. Elements(taskQueue) = {NullTask} \cup Elements(taskQueue')
    BY <1>1, TailElements
  <1>3. stopping
    BY <1>2 DEF StopInv
  <1>4. Submitted' = Submitted
    BY ReturnNullPlaces DEF Submitted
  <1>5. NothingBehindNull(taskQueue', early) /\ Elements(taskQueue') \cap early = {}
    BY <1>1, TailBehindNull DEF StopInv
  <1>6. Pending' \cap early = {}
    BY <1>5, PendingIsElements
  <1>7. QED
    BY <1>1, <1>3, <1>4, <1>5, <1>6 DEF StopInv

LEMMA TakeStopInv ==
  ASSUME TypeInv, PlaceInv, StopInv, NEW w \in Workers, WorkerTake(w)
  PROVE  StopInv'
  <1>1. /\ taskQueue \in Seq(Tasks \cup {NullTask}) /\ taskQueue # <<>>
        /\ taskQueue' = Tail(taskQueue)
        /\ stopping' = stopping /\ early' = early /\ call' = call
    BY DEF TypeInv, TypeOK, WorkerTake
  <1>2. Elements(taskQueue') \subseteq Elements(taskQueue)
    BY <1>1, TailElements
  <1>3. Submitted' = Submitted /\ Pending' \subseteq Pending
    BY TakePlaces DEF Submitted
  <1>4. NothingBehindNull(taskQueue', early)
    BY <1>1, TailBehindNull DEF StopInv
  <1>5. Exited' = Exited
    BY DEF WorkerTake, Exited, TypeInv, TypeOK
  <1>6. QED
    BY <1>1, <1>2, <1>3, <1>4, <1>5 DEF StopInv

LEMMA FinishStopInv ==
  ASSUME TypeInv, PlaceInv, StopInv, NEW w \in Workers, WorkerFinish(w)
  PROVE  StopInv'
  <1>1. /\ taskQueue' = taskQueue
        /\ stopping' = stopping /\ early' = early /\ call' = call
    BY DEF WorkerFinish
  <1>2. Submitted' = Submitted /\ Pending' = Pending
    BY FinishPlaces DEF Submitted
  <1>3. Exited' = Exited
    BY DEF WorkerFinish, Exited, TypeInv, TypeOK
  <1>4. QED
    BY <1>1, <1>2, <1>3 DEF StopInv

LEMMA CancelStopInv ==
  ASSUME TypeInv, PlaceInv, StopInv, NEW c \in Callers, NEW wait \in BOOLEAN,
         CancelWorkers(c, wait)
  PROVE  StopInv'
  <1>1. /\ taskQueue' = <<>> /\ pc' = pc
        /\ stopping' = stopping /\ early' = early
        /\ \A d \in Callers : call'[d].phase = call[d].phase \/ call'[d].phase = "cleared"
    BY DEF CancelWorkers, TypeInv, TypeOK
  <1>2. Elements(taskQueue') = {} /\ NothingBehindNull(taskQueue', early)
    BY <1>1 DEF Elements, NothingBehindNull
  <1>3. Submitted' = Submitted /\ Pending' = {}
    BY CancelPlaces DEF Submitted
  <1>4. Exited' = Exited
    BY <1>1 DEF Exited
  <1>5. QED
    BY <1>1, <1>2, <1>3, <1>4 DEF StopInv

LEMMA QuietStopInv ==
  ASSUME TypeInv, PlaceInv, StopInv, QuietStep
  PROVE  StopInv'
  <1>1. Submitted' = Submitted /\ Pending' = Pending
    BY QuietPlaces DEF Submitted
  <1>2. taskQueue' = taskQueue /\ early' = early
    BY DEF QuietStep, BeginStop, EndNulls, Joined, WorkerWait, WorkerReturnEmpty, SpuriousWake, vars
  <1>3. CASE \E c \in Callers, wait \in BOOLEAN : BeginStop(c, wait)
    BY <1>1, <1>2, <1>3 DEF BeginStop, StopInv, Exited
  <1>4. CASE \E c \in Callers : EndNulls(c) \/ Joined(c)
    <2>1. stopping /\ stopping' = stopping /\ pc' = pc
      BY <1>4 DEF EndNulls, Joined, StopInv
    <2>2. QED
      BY <1>1, <1>2, <2>1 DEF StopInv, Exited
  <1>5. ASSUME NEW w \in Workers, WorkerReturnEmpty(w) PROVE StopInv'
    <2>1. stopping /\ stopping' = stopping /\ Pending = {}
      BY <1>5 DEF WorkerReturnEmpty, Pending
    <2>2. QED
      BY <1>1, <1>2, <2>1 DEF StopInv
  <1>6. ASSUME NEW w \in Workers, WorkerWait(w) \/ SpuriousWake(w) PROVE StopInv'
    <2>1. Exited' = Exited /\ stopping' = stopping /\ call' = call
      BY <1>6 DEF WorkerWait, SpuriousWake, Exited, TypeInv, TypeOK
    <2>2. QED
      BY <1>1, <1>2, <2>1 DEF StopInv
  <1>7. CASE UNCHANGED vars
    BY <1>1, <1>2, <1>7 DEF vars, StopInv, Exited
  <1>8. QED
    BY <1>3, <1>4, <1>5, <1>6, <1>7 DEF QuietStep

LEMMA StepStopInv == TypeInv /\ PlaceInv /\ StopInv /\ [Next]_vars => StopInv'
  BY NextCases, EnqueueTaskStopInv, EnqueueNullStopInv, ReturnNullStopInv, TakeStopInv,
     FinishStopInv, CancelStopInv, QuietStopInv

\* StopWorkers is graceful for every pool: unless tasks were cancelled, the last
\* worker is gone only when each task enqueued before the stop has run
\* (StopWorkers and run() of the workers).
THEOREM StopIsGraceful == SafeSpec => []GracefulStop
  <1>1. StopInv => GracefulStop
    <2> SUFFICES ASSUME StopInv, Exited = Workers, dropped = {} PROVE early \subseteq done
      BY DEF GracefulStop
    <2>1. Running = {}
      BY DEF Exited, Running
    <2>2. Exited # {}
      BY QueueAssumption
    <2>3. QED
      BY <2>1, <2>2 DEF StopInv, Submitted, Active
  <1>2. QED
    BY <1>1, InitTypeInv, StepTypeInv, InitPlaceInv, StepPlaceInv, InitStopInv, StepStopInv, PTL
       DEF SafeSpec
=================================================================================
