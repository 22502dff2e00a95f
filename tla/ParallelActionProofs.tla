-------------------------- MODULE ParallelActionProofs --------------------------
(***************************************************************************)
(* Proofs about ParallelAction, and the sequential MultipleAction it       *)
(* covers, for any number of sub-operations, any connections and any       *)
(* width.  The invariant counts: m_completedOperationsCount is the number  *)
(* of completed() signals that are handled, and the free workers of a      *)
(* queue together with the closures at work are those it was created with. *)
(***************************************************************************)
EXTENDS ParallelAction, FiniteSetTheorems, TLAPS

\* TypeOK without the counts, which are typed by what they count.
TypeAction ==
  /\ parallel \in BOOLEAN /\ stopOnFirst \in BOOLEAN /\ cross \in BOOLEAN
  /\ parent \in States /\ parentError \in BOOLEAN
  /\ pc \in {"idle", "session", "begin", "launch", "inSub", "inspect", "waiting", "tail",
             "runReturned", "returned"}
  /\ next \in 1..(N + 1)
  /\ sub \in [Subs -> States] /\ subError \in [Subs -> BOOLEAN] /\ reported \subseteq Subs
  /\ exceptions \subseteq Subs
  /\ main \in {"loop", "onCancel", "onCompleted", "cancelSub"}
  /\ at \in 1..(N + 1) /\ calling \in BOOLEAN
  /\ slot \in {"none", "queued", "done"}
  /\ late \subseteq Subs

TypePool ==
  /\ width \in Widths
  /\ connected \subseteq {Conn[i] : i \in Subs}
  /\ created \subseteq Queues /\ idle \in [Queues -> Nat]
  /\ pending \subseteq Subs /\ active \subseteq Subs /\ finished \subseteq Subs
  /\ closure \in [Subs -> {"none", "taken", "passed", "inSub", "over"}]
  /\ inbox \subseteq Subs

\* Which of the two ways of running the sub-operations is at work, and where the
\* main thread is.
Ways ==
  /\ pc \in {"launch", "inSub", "inspect"} => ~parallel /\ next \in Subs
  /\ pc = "waiting" => parallel
  /\ stopOnFirst => ~parallel
  /\ (pc = "idle" <=> parent = "NotStarted") /\ (parent = "NotStarted" => main # "onCancel")
  /\ calling => at \in Subs
  /\ ~parallel \/ pc \in {"idle", "session"} => Submitted = {} /\ inbox = {} /\ created = {}
  /\ pc \in {"idle", "session"} => late = {}

\* A closure is at one place, and its progress says where.
Closures ==
  /\ Submitted \subseteq Counted
  /\ \A i \in Submitted : Queue(i) \in created
  /\ pending \cap (active \cup finished) = {} /\ active \cap finished = {}
  /\ \A i \in Subs : /\ i \in active <=> closure[i] \in {"taken", "passed", "inSub"}
                     /\ i \in finished <=> closure[i] = "over"

\* Each worker of a queue is free or executes one closure.
Workers ==
  \A q \in Queues :
    idle[q] + Cardinality(active \cap Group(q)) =
      IF q \in created THEN Least(width, Cardinality(Group(q))) ELSE 0

\* What the count counts: completed() is emitted once, and handled once.
Count ==
  /\ \A i \in reported : sub[i] \in {"Completed", "Cancelled"}
  /\ parallel =>
       /\ \A i \in reported : closure[i] \in {"inSub", "over"}
       /\ inbox \subseteq reported
       /\ completed = Cardinality(reported \ inbox)
       /\ pc \in {"tail", "runReturned"} \/ parent = "Completed" => Counted \subseteq reported

\* In sequence, what an action that is not failing has behind it.
Behind ==
  /\ parentError => parent \notin {"NotStarted", "Running"}
  /\ parent = "Completed" => pc = "returned"
  /\ parent = "NotStarted" => next = 1
  /\ ~parallel =>
       /\ \A i \in Subs : sub[i] = "Failed" => subError[i]
       /\ parent \in {"Running", "Completed"} =>
            \A i \in 1..(next - 1) : sub[i] \in {"Completed", "Cancelled"} /\ ~subError[i]
       /\ pc = "inSub" => sub[next] # "NotStarted"
       /\ pc = "inspect" => sub[next] \notin {"NotStarted", "Running"}
       /\ (pc \in {"tail", "runReturned"} /\ parent = "Running") \/ parent = "Completed" =>
            next = N + 1
       /\ completed = 0

\* What has been started, or has passed its test, since the action is Cancelled.
Passed(q) == {j \in Group(q) : closure[j] = "passed" \/ j \in late}

Late ==
  /\ parent # "Cancelled" => late = {}
  /\ parallel /\ parent = "Cancelled" => \A q \in Queues : Cardinality(Passed(q)) <= width
  /\ ~parallel => late = {} \/ (pc # "launch" /\ \E j \in Subs : late = {j})

\* With m_stopOnFirstException nothing runs after an error.
Stops ==
  stopOnFirst => /\ \E j \in Subs : {i \in Subs : subError[i]} \subseteq {j}
                 /\ pc \in {"idle", "session", "begin", "launch"} => \A i \in Subs : ~subError[i]
                 /\ pc \in {"inSub", "inspect"} => \A i \in Subs : subError[i] => i = next

IInv ==
  TypeAction /\ TypePool /\ Ways /\ Closures /\ Workers /\ Count /\ Behind /\ Late /\ Stops

LEMMA SubsFinite == /\ IsFiniteSet(Subs) /\ Cardinality(Subs) = N
                    /\ \A S \in SUBSET Subs : IsFiniteSet(S) /\ Cardinality(S) \in Nat
                    /\ \A S, T \in SUBSET Subs : S \subseteq T => Cardinality(S) <= Cardinality(T)
<1> N \in Nat /\ N > 0
  BY MultipleActionAssumption
<1>1. IsFiniteSet(Subs) /\ Cardinality(Subs) = N
  BY FS_Interval DEF Subs
<1>2. ASSUME NEW S \in SUBSET Subs PROVE IsFiniteSet(S) /\ Cardinality(S) \in Nat
  BY <1>1, FS_Subset, FS_CardinalityType
<1>3. ASSUME NEW T \in SUBSET Subs, NEW S \in SUBSET T PROVE Cardinality(S) <= Cardinality(T)
  BY <1>2, FS_Subset
<1>4. QED
  BY <1>1, <1>2, <1>3

\* Every sub-operation has one queue.
LEMMA GroupsPartition ==
  /\ \A q \in Queues : Group(q) \subseteq Subs
  /\ \A i \in Subs : Queue(i) \in Queues /\ \A q \in Queues : i \in Group(q) <=> q = Queue(i)
  BY DEF Group, Queue, Queues

LEMMA LeastIsLeast ==
  \A a, b \in Nat : Least(a, b) \in Nat /\ Least(a, b) <= a /\ Least(a, b) <= b
  BY DEF Least

\* What Workers says of the closures at work: no more than the width, nor than the
\* group, and fewer than the width when a worker is free.
LEMMA AtWork ==
  ASSUME IInv, NEW q \in Queues
  PROVE  /\ Cardinality(active \cap Group(q)) \in Nat /\ width \in Nat
         /\ Cardinality(active \cap Group(q)) <= width
         /\ idle[q] > 0 => Cardinality(active \cap Group(q)) < width
         /\ idle[q] \in 0..N
<1>1. width \in Nat /\ idle[q] \in Nat
  BY ParallelActionAssumption DEF IInv, TypePool
<1>2. Group(q) \in SUBSET Subs /\ active \cap Group(q) \in SUBSET Subs
  BY GroupsPartition
<1>3. Cardinality(active \cap Group(q)) \in Nat /\ Cardinality(Group(q)) \in Nat
  BY <1>2, SubsFinite
<1>4. Cardinality(Group(q)) <= N /\ N \in Nat
  BY <1>2, SubsFinite, MultipleActionAssumption
<1>5. /\ Least(width, Cardinality(Group(q))) \in Nat
      /\ Least(width, Cardinality(Group(q))) <= width
      /\ Least(width, Cardinality(Group(q))) <= Cardinality(Group(q))
  BY <1>1, <1>3, LeastIsLeast
<1>6. idle[q] + Cardinality(active \cap Group(q)) =
        IF q \in created THEN Least(width, Cardinality(Group(q))) ELSE 0
  BY DEF IInv, Workers
<1>7. CASE q \in created
  <2>1. idle[q] + Cardinality(active \cap Group(q)) = Least(width, Cardinality(Group(q)))
    BY <1>6, <1>7
  <2>2. QED
    BY <1>1, <1>3, <1>4, <1>5, <2>1
<1>8. CASE q \notin created
  <2>1. idle[q] + Cardinality(active \cap Group(q)) = 0
    BY <1>6, <1>8
  <2>2. QED
    BY <1>1, <1>3, <1>4, <2>1
<1>9. QED
  BY <1>7, <1>8

LEMMA InitIInv == Init => IInv
<1> SUFFICES ASSUME Init PROVE IInv
  OBVIOUS
<1> N \in Nat /\ N > 0
  BY MultipleActionAssumption
<1> USE DEF Init, ActionInit, Subs
<1>1. TypeAction
  <2>1. [i \in Subs |-> FALSE] \in [Subs -> BOOLEAN] /\ FALSE \in BOOLEAN
    OBVIOUS
  <2>2. stopOnFirst \in BOOLEAN
    OBVIOUS
  <2>3. sub \in [Subs -> States] /\ parent \in States
    BY DEF States
  <2>4. parallel \in BOOLEAN /\ cross \in BOOLEAN
    OBVIOUS
  <2>5. next \in 1..(N + 1) /\ at \in 1..(N + 1)
    OBVIOUS
  <2>6. QED
    BY <2>1, <2>2, <2>3, <2>4, <2>5 DEF TypeAction
<1>2. TypePool
  BY DEF TypePool
<1>3. Ways
  <2>1. stopOnFirst => ~parallel
    OBVIOUS
  <2>2. QED
    BY <2>1 DEF Ways, Submitted
<1>4. Closures
  BY DEF Closures, Submitted
<1>5. Workers
  <2> SUFFICES ASSUME NEW q \in Queues
               PROVE  idle[q] + Cardinality(active \cap Group(q)) = 0 /\ q \notin created
    BY DEF Workers
  <2>1. active \cap Group(q) = {}
    OBVIOUS
  <2>2. Cardinality(active \cap Group(q)) = 0 /\ idle[q] = 0
    BY <2>1, FS_EmptySet
  <2>3. QED
    BY <2>2
<1>6. Count
  <2>1. reported \ inbox = {}
    OBVIOUS
  <2>2. QED
    BY <2>1, FS_EmptySet DEF Count
<1>7. Behind
  BY DEF Behind
<1>8. Late
  BY DEF Late
<1>9. Stops
  BY DEF Stops
<1>10. QED
  BY <1>1, <1>2, <1>3, <1>4, <1>5, <1>6, <1>7, <1>8, <1>9 DEF IInv

\* The queues, closures and workers, when a step is the action's own.
LEMMA PoolStays ==
  ASSUME IInv, Inherited, UNCHANGED config
  PROVE  TypePool' /\ Closures' /\ Workers'
<1> USE DEF Inherited, setup, queueVars, poolVars, config
<1>1. TypePool'
  BY DEF IInv, TypePool, Queues
<1>2. \A i : Queue(i)' = Queue(i) /\ Group(i)' = Group(i)
  BY DEF Queue, Group
<1>3. Counted' = Counted /\ Submitted' = Submitted
  BY DEF Counted, Submitted
<1>4. Closures'
  BY <1>2, <1>3 DEF IInv, Closures
<1>5. Workers'
  BY <1>2 DEF IInv, Workers, Queues
<1>6. QED
  BY <1>1, <1>4, <1>5

\* The count, when no completed() is emitted and run() does not come out of its wait.
LEMMA CountStays ==
  ASSUME IInv, Inherited, UNCHANGED <<config, reported>>,
         \A i \in reported : sub'[i] \in {"Completed", "Cancelled"},
         parallel => (pc' \in {"tail", "runReturned"} \/ parent' = "Completed" =>
                       (pc \in {"tail", "runReturned"} \/ parent = "Completed"))
  PROVE  Count'
<1> USE DEF Inherited, setup, queueVars, config
<1>1. Counted' = Counted
  BY DEF Counted
<1>2. QED
  BY <1>1 DEF IInv, Count

LEMMA RunKeeps ==
  ASSUME IInv, Run, Inherited
  PROVE  IInv'
<1> N \in Nat /\ N > 0
  BY MultipleActionAssumption
<1> USE DEF Run, config, Subs, subVars, mainVars, Inherited, setup, queueVars, poolVars
<1>1. TypePool' /\ Closures' /\ Workers'
  BY PoolStays
<1>2. TypeAction'
  BY DEF IInv, TypeAction, States, Terminal
<1>3. Ways'
  BY DEF IInv, Ways, Submitted
<1>4. Count'
  BY CountStays DEF IInv, Count
<1>5. Behind'
  BY DEF IInv, Behind
<1>6. Late'
  BY DEF IInv, Late
<1>7. Stops'
  BY DEF IInv, Ways, Stops
<1>8. QED
  BY <1>1, <1>2, <1>3, <1>4, <1>5, <1>6, <1>7 DEF IInv

LEMMA SessionKeeps ==
  ASSUME IInv, Session, Inherited
  PROVE  IInv'
<1> N \in Nat /\ N > 0
  BY MultipleActionAssumption
<1> USE DEF Session, config, Subs, subVars, mainVars, Inherited, setup, queueVars, poolVars
<1>1. TypePool' /\ Closures' /\ Workers'
  BY PoolStays
<1>2. TypeAction'
  BY DEF IInv, TypeAction, States, Terminal
<1>3. Ways'
  BY DEF IInv, Ways, Submitted
<1>4. Count'
  BY CountStays DEF IInv, Count
<1>5. Behind'
  BY DEF IInv, Behind
<1>6. Late'
  BY DEF IInv, Ways, Late, Passed, Group, Queue
<1>7. Stops'
  BY DEF IInv, Stops
<1>8. QED
  BY <1>1, <1>2, <1>3, <1>4, <1>5, <1>6, <1>7 DEF IInv

LEMMA TestCancelledKeeps ==
  ASSUME IInv, TestCancelled, Inherited
  PROVE  IInv'
<1> N \in Nat /\ N > 0
  BY MultipleActionAssumption
<1> USE DEF TestCancelled, config, Subs, subVars, mainVars, Inherited, setup, queueVars, poolVars
<1>1. TypePool' /\ Closures' /\ Workers'
  BY PoolStays
<1>2. TypeAction'
  BY DEF IInv, TypeAction, States, Terminal
<1>3. Ways'
  BY DEF IInv, TypeAction, Ways, Submitted
<1>4. Count'
  BY CountStays DEF IInv, Count
<1>5. Behind'
  BY DEF IInv, TypeAction, Behind
<1>6. Late'
  BY DEF IInv, Late
<1>7. Stops'
  BY DEF IInv, Stops
<1>8. QED
  BY <1>1, <1>2, <1>3, <1>4, <1>5, <1>6, <1>7 DEF IInv

LEMMA TailKeeps ==
  ASSUME IInv, Tail, Inherited
  PROVE  IInv'
<1> N \in Nat /\ N > 0
  BY MultipleActionAssumption
<1> USE DEF Tail, config, Subs, subVars, mainVars, SetError, Inherited, setup,
           queueVars, poolVars
<1>1. TypePool' /\ Closures' /\ Workers'
  BY PoolStays
<1>2. TypeAction'
  BY DEF IInv, TypeAction, States, Terminal
<1>3. Ways'
  BY DEF IInv, Ways, Submitted
<1>4. Count'
  BY CountStays DEF IInv, Count
<1>5. Behind'
  BY DEF IInv, Ways, Behind
<1>6. Late'
  BY DEF IInv, Late, Passed, Group, Queue
<1>7. Stops'
  BY DEF IInv, Stops
<1>8. QED
  BY <1>1, <1>2, <1>3, <1>4, <1>5, <1>6, <1>7 DEF IInv

LEMMA RunReturnedKeeps ==
  ASSUME IInv, RunReturned, Inherited
  PROVE  IInv'
<1> N \in Nat /\ N > 0
  BY MultipleActionAssumption
<1> USE DEF RunReturned, config, Subs, subVars, mainVars, Inherited, setup, queueVars, poolVars
<1>1. TypePool' /\ Closures' /\ Workers'
  BY PoolStays
<1>2. TypeAction'
  BY DEF IInv, TypeAction, States, Terminal
<1>3. Ways'
  BY DEF IInv, Ways, Submitted
<1>4. Count'
  BY CountStays DEF IInv, Count
<1>5. Behind'
  BY DEF IInv, Behind
<1>6. Late'
  BY DEF IInv, Late, Passed, Group, Queue
<1>7. Stops'
  BY DEF IInv, Stops
<1>8. QED
  BY <1>1, <1>2, <1>3, <1>4, <1>5, <1>6, <1>7 DEF IInv

LEMMA LaunchKeeps ==
  ASSUME IInv, Launch, Inherited
  PROVE  IInv'
<1> N \in Nat /\ N > 0
  BY MultipleActionAssumption
<1> USE DEF Launch, config, Subs, subVars, mainVars, SubStarts, Inherited, setup,
           queueVars, poolVars
<1>1. TypePool' /\ Closures' /\ Workers'
  BY PoolStays
<1>2. TypeAction'
  BY DEF IInv, TypeAction, States, Terminal, Ways
<1>3. Ways'
  BY DEF IInv, Ways, Submitted
<1>4. Count'
  <2>1. \A i \in reported : sub'[i] \in {"Completed", "Cancelled"}
    BY DEF IInv, TypeAction, Count
  <2>2. QED
    BY <2>1, CountStays DEF IInv, Ways
<1>5. Behind'
  BY DEF IInv, TypeAction, Ways, Behind
<1>6. Late'
  BY DEF IInv, Ways, Late
<1>7. Stops'
  BY DEF IInv, Stops
<1>8. QED
  BY <1>1, <1>2, <1>3, <1>4, <1>5, <1>6, <1>7 DEF IInv

\* What the two ways in which run() of a sub-operation settles it do.
LEMMA SubSettles ==
  ASSUME IInv, NEW i \in Subs, SubClaims(i) \/ SubEnds(i)
  PROVE  /\ sub' \in [Subs -> States] /\ subError' \in [Subs -> BOOLEAN]
         /\ reported' \subseteq reported \cup {i} /\ reported \subseteq reported'
         /\ \A j \in reported' : sub'[j] \in {"Completed", "Cancelled"}
         /\ \A j \in Subs : j # i => sub'[j] = sub[j] /\ subError'[j] = subError[j]
         /\ sub[i] # "NotStarted" => sub'[i] # "NotStarted"
         /\ SubEnds(i) => sub'[i] # "Running"
         /\ ~parallel /\ sub'[i] = "Failed" => sub[i] = "Failed" \/ subError'[i]
         /\ subError[i] => subError'[i]
<1>1. /\ sub \in [Subs -> States] /\ subError \in [Subs -> BOOLEAN] /\ reported \subseteq Subs
      /\ \A j \in reported : sub[j] \in {"Completed", "Cancelled"}
  BY DEF IInv, TypeAction, Count
<1>2. /\ subError' \in [Subs -> BOOLEAN]
      /\ \A j \in Subs : j # i => subError'[j] = subError[j]
      /\ subError[i] => subError'[i]
  <2>1. CASE UNCHANGED subError
    BY <1>1, <2>1
  <2>2. CASE SubErrs(i)
    BY <1>1, <2>2 DEF SubErrs
  <2>3. QED
    BY <2>1, <2>2 DEF SubClaims, SubEnds
<1>3. CASE SubClaims(i)
  <2>1. /\ sub' = [sub EXCEPT ![i] = "Completed"] /\ reported' = reported \cup {i}
        /\ i \notin reported
    BY <1>3 DEF SubClaims
  <2>2. CASE ~SubEnds(i)
    BY <1>1, <1>2, <2>1, <2>2 DEF States, Terminal
  <2>3. CASE SubEnds(i)
    BY <1>1, <1>2, <2>1, <2>3 DEF States, Terminal
  <2>4. QED
    BY <2>2, <2>3
<1>4. ASSUME sub' = [sub EXCEPT ![i] = IF @ = "Running" THEN "Completed" ELSE @],
             reported' = IF sub[i] = "Running" THEN reported \cup {i} ELSE reported
      PROVE  /\ sub' \in [Subs -> States]
             /\ reported' \subseteq reported \cup {i} /\ reported \subseteq reported'
             /\ \A j \in reported' : sub'[j] \in {"Completed", "Cancelled"}
             /\ \A j \in Subs : j # i => sub'[j] = sub[j]
             /\ sub'[i] # "Running" /\ (sub[i] # "NotStarted" => sub'[i] # "NotStarted")
             /\ sub'[i] = "Failed" => sub[i] = "Failed"
  BY <1>1, <1>4 DEF States, Terminal
<1>5. ASSUME i \notin reported, UNCHANGED reported, SubErrs(i),
             \E s \in {"Failed"} \cup ({sub[i]} \ {"Running"}) : sub' = [sub EXCEPT ![i] = s]
      PROVE  /\ sub' \in [Subs -> States]
             /\ \A j \in reported' : sub'[j] \in {"Completed", "Cancelled"}
             /\ \A j \in Subs : j # i => sub'[j] = sub[j]
             /\ sub'[i] # "Running" /\ (sub[i] # "NotStarted" => sub'[i] # "NotStarted")
             /\ ~parallel => subError'[i]
  <2>1. PICK s \in {"Failed"} \cup ({sub[i]} \ {"Running"}) : sub' = [sub EXCEPT ![i] = s]
    BY <1>5
  <2>2. s \in States /\ s # "Running" /\ (sub[i] # "NotStarted" => s # "NotStarted")
    BY <1>1 DEF States, Terminal
  <2>3. ~parallel => subError'[i]
    BY <1>1, <1>5 DEF SubErrs
  <2>4. QED
    BY <1>1, <1>5, <2>1, <2>2, <2>3
<1>6. CASE SubEnds(i)
  BY <1>2, <1>4, <1>5, <1>6 DEF SubEnds
<1>7. QED
  BY <1>3, <1>6

LEMMA LaunchedClaimsKeeps ==
  ASSUME IInv, LaunchedClaims, Inherited
  PROVE  IInv'
<1> N \in Nat /\ N > 0
  BY MultipleActionAssumption
<1> USE DEF LaunchedClaims, config, Subs, mainVars, Inherited, setup, queueVars, poolVars
<1>1. ~parallel /\ next \in Subs /\ pc = "inSub" /\ sub[next] # "NotStarted"
  BY DEF IInv, Ways, Behind
<1>2. SubClaims(next) \/ SubEnds(next)
  OBVIOUS
<1>3. /\ sub' \in [Subs -> States] /\ subError' \in [Subs -> BOOLEAN]
      /\ reported' \subseteq Subs
      /\ \A j \in reported' : sub'[j] \in {"Completed", "Cancelled"}
      /\ \A j \in Subs : j # next => sub'[j] = sub[j] /\ subError'[j] = subError[j]
      /\ sub'[next] # "NotStarted"
      /\ SubEnds(next) => sub'[next] # "Running"
      /\ sub'[next] = "Failed" => sub[next] = "Failed" \/ subError'[next]
      /\ subError[next] => subError'[next]
  <2>1. reported \subseteq Subs
    BY DEF IInv, TypeAction
  <2> HIDE DEF LaunchedClaims, Subs
  <2>2. QED
    BY <1>1, <1>2, <2>1, SubSettles
<1>4. TypePool' /\ Closures' /\ Workers'
  BY PoolStays
<1>5. TypeAction'
  BY <1>3 DEF IInv, TypeAction
<1>6. Ways'
  BY <1>1 DEF IInv, Ways, Submitted
<1>7. Count'
  BY <1>1, <1>3 DEF IInv, Count
<1>8. Behind'
  BY <1>1, <1>3 DEF IInv, TypeAction, Behind
<1>9. Late'
  BY <1>1 DEF IInv, Late
<1>10. Stops'
  BY <1>1, <1>3 DEF IInv, TypeAction, Stops
<1>11. QED
  BY <1>4, <1>5, <1>6, <1>7, <1>8, <1>9, <1>10 DEF IInv

LEMMA LaunchedEndsKeeps ==
  ASSUME IInv, LaunchedEnds, Inherited
  PROVE  IInv'
<1> N \in Nat /\ N > 0
  BY MultipleActionAssumption
<1> USE DEF LaunchedEnds, config, Subs, mainVars, Inherited, setup, queueVars, poolVars
<1>1. ~parallel /\ next \in Subs /\ pc = "inSub" /\ sub[next] # "NotStarted"
  BY DEF IInv, Ways, Behind
<1>2. SubClaims(next) \/ SubEnds(next)
  OBVIOUS
<1>3. /\ sub' \in [Subs -> States] /\ subError' \in [Subs -> BOOLEAN]
      /\ reported' \subseteq Subs
      /\ \A j \in reported' : sub'[j] \in {"Completed", "Cancelled"}
      /\ \A j \in Subs : j # next => sub'[j] = sub[j] /\ subError'[j] = subError[j]
      /\ sub'[next] # "NotStarted"
      /\ SubEnds(next) => sub'[next] # "Running"
      /\ sub'[next] = "Failed" => sub[next] = "Failed" \/ subError'[next]
      /\ subError[next] => subError'[next]
  <2>1. reported \subseteq Subs
    BY DEF IInv, TypeAction
  <2> HIDE DEF LaunchedEnds, Subs
  <2>2. QED
    BY <1>1, <1>2, <2>1, SubSettles
<1>4. TypePool' /\ Closures' /\ Workers'
  BY PoolStays
<1>5. TypeAction'
  BY <1>3 DEF IInv, TypeAction
<1>6. Ways'
  BY <1>1 DEF IInv, Ways, Submitted
<1>7. Count'
  BY <1>1, <1>3 DEF IInv, Count
<1>8. Behind'
  BY <1>1, <1>3 DEF IInv, TypeAction, Behind
<1>9. Late'
  BY <1>1 DEF IInv, Late
<1>10. Stops'
  BY <1>1, <1>3 DEF IInv, TypeAction, Stops
<1>11. QED
  BY <1>4, <1>5, <1>6, <1>7, <1>8, <1>9, <1>10 DEF IInv

LEMMA InspectKeeps ==
  ASSUME IInv, Inspect, Inherited
  PROVE  IInv'
<1> N \in Nat /\ N > 0
  BY MultipleActionAssumption
<1> USE DEF Inspect, config, Subs, subVars, mainVars, SetError, Inherited, setup,
           queueVars, poolVars
<1>1. parentError' \in BOOLEAN /\ parent' \in States
  BY DEF IInv, TypeAction, States, Terminal
<1>2. next' \in 1..(N + 1) /\ exceptions' \subseteq Subs
  BY DEF IInv, TypeAction, Ways
<1>3. TypePool' /\ Closures' /\ Workers'
  BY PoolStays
<1>4. TypeAction'
  BY <1>1, <1>2 DEF IInv, TypeAction
<1>5. Ways'
  BY DEF IInv, Ways, Submitted
<1>6. Count'
  BY CountStays DEF IInv, Ways, Count
<1>7. Behind'
  BY DEF IInv, TypeAction, States, Terminal, Ways, Behind
<1>8. Late'
  BY DEF IInv, Late, Passed, Group, Queue
<1>9. Stops'
  BY DEF IInv, Stops
<1>10. QED
  BY <1>3, <1>4, <1>5, <1>6, <1>7, <1>8, <1>9 DEF IInv

LEMMA BeginCancelKeeps ==
  ASSUME IInv, BeginCancel, Inherited
  PROVE  IInv'
<1> N \in Nat /\ N > 0
  BY MultipleActionAssumption
<1> USE DEF BeginCancel, config, Subs, subVars, mainVars, Inherited, setup, queueVars, poolVars
<1>1. TypePool' /\ Closures' /\ Workers'
  BY PoolStays
<1>2. TypeAction'
  BY DEF IInv, TypeAction, States, Terminal
<1>3. Ways'
  BY DEF IInv, Ways, Submitted
<1>4. Count'
  BY CountStays DEF IInv, Count
<1>5. Behind'
  BY DEF IInv, Behind
<1>6. Late'
  BY DEF IInv, Late
<1>7. Stops'
  BY DEF IInv, Stops
<1>8. QED
  BY <1>1, <1>2, <1>3, <1>4, <1>5, <1>6, <1>7 DEF IInv

LEMMA OnMultipleOperationCompletedKeeps ==
  ASSUME IInv, OnMultipleOperationCompleted, Inherited
  PROVE  IInv'
<1> N \in Nat /\ N > 0
  BY MultipleActionAssumption
<1> USE DEF OnMultipleOperationCompleted, config, Subs, subVars, mainVars, Inherited, setup,
           queueVars, poolVars
<1>1. TypePool' /\ Closures' /\ Workers'
  BY PoolStays
<1>2. TypeAction'
  BY DEF IInv, TypeAction
<1>3. Ways'
  BY DEF IInv, Ways, Submitted
<1>4. Count'
  BY CountStays DEF IInv, Count
<1>5. Behind'
  BY DEF IInv, Behind
<1>6. Late'
  BY DEF IInv, Late, Passed, Group, Queue
<1>7. Stops'
  BY DEF IInv, Stops
<1>8. QED
  BY <1>1, <1>2, <1>3, <1>4, <1>5, <1>6, <1>7 DEF IInv

LEMMA UserCancelsSubKeeps ==
  ASSUME IInv, NEW i \in Subs, UserCancelsSub(i), Inherited
  PROVE  IInv'
<1> N \in Nat /\ N > 0
  BY MultipleActionAssumption
<1> USE DEF UserCancelsSub, config, Subs, subVars, mainVars, Inherited, setup, queueVars, poolVars
<1>1. TypePool' /\ Closures' /\ Workers'
  BY PoolStays
<1>2. TypeAction'
  BY DEF IInv, TypeAction
<1>3. Ways'
  BY DEF IInv, Ways, Submitted
<1>4. Count'
  BY CountStays DEF IInv, Count
<1>5. Behind'
  BY DEF IInv, Behind
<1>6. Late'
  BY DEF IInv, Late, Passed, Group, Queue
<1>7. Stops'
  BY DEF IInv, Stops
<1>8. QED
  BY <1>1, <1>2, <1>3, <1>4, <1>5, <1>6, <1>7 DEF IInv

LEMMA VisitKeeps ==
  ASSUME IInv, Visit, Inherited
  PROVE  IInv'
<1> N \in Nat /\ N > 0
  BY MultipleActionAssumption
<1> USE DEF Visit, config, Subs, subVars, mainVars, Inherited, setup, queueVars, poolVars
<1>1. TypePool' /\ Closures' /\ Workers'
  <2>1. Inherited /\ UNCHANGED config
    OBVIOUS
  <2> HIDE DEF Visit, Inherited, config
  <2>2. QED
    BY <2>1, PoolStays
<1>2. TypeAction'
  <2>1. at \in 1..N /\ (at' = at \/ at' = at + 1) /\ (calling' = TRUE \/ UNCHANGED calling)
    OBVIOUS
  <2>2. at' \in 1..(N + 1)
    BY <2>1
  <2>3. calling' \in BOOLEAN
    BY <2>1, Zenon DEF IInv, TypeAction
  <2>4. QED
    BY <2>2, <2>3 DEF IInv, TypeAction
<1>3. Ways'
  BY DEF IInv, Ways, Submitted
<1>4. Count'
  BY CountStays DEF IInv, Count
<1>5. Behind'
  BY DEF IInv, Behind
<1>6. Late'
  BY DEF IInv, Late, Passed, Group, Queue
<1>7. Stops'
  BY DEF IInv, Stops
<1>8. QED
  BY <1>1, <1>2, <1>3, <1>4, <1>5, <1>6, <1>7 DEF IInv

LEMMA CancelSetsKeeps ==
  ASSUME IInv, CancelSets, Inherited
  PROVE  IInv'
<1> N \in Nat /\ N > 0
  BY MultipleActionAssumption
<1> USE DEF CancelSets, config, Subs, subVars, mainVars, Inherited, setup, queueVars, poolVars
<1>1. TypePool' /\ Closures' /\ Workers'
  <2>1. Inherited /\ UNCHANGED config
    OBVIOUS
  <2> HIDE DEF CancelSets, Inherited, config
  <2>2. QED
    BY <2>1, PoolStays
<1>2. TypeAction'
  <2>1. at' \in 1..(N + 1)
    BY DEF IInv, TypeAction, Ways
  <2>2. sub' \in [Subs -> States]
    BY DEF IInv, TypeAction, States, Terminal
  <2>3. main' \in {"loop", "onCancel", "onCompleted", "cancelSub"} /\ calling' \in BOOLEAN
    BY DEF IInv, TypeAction
  <2>4. QED
    BY <2>1, <2>2, <2>3 DEF IInv, TypeAction
<1>3. Ways'
  BY DEF IInv, Ways, Submitted
<1>4. Count'
  <2>1. \A i \in reported : sub'[i] \in {"Completed", "Cancelled"}
    BY DEF IInv, TypeAction, Count
  <2>2. QED
    BY <2>1, CountStays DEF IInv
<1>5. Behind'
  BY DEF IInv, TypeAction, Behind
<1>6. Late'
  BY DEF IInv, Late, Passed, Group, Queue
<1>7. Stops'
  BY DEF IInv, Stops
<1>8. QED
  BY <1>1, <1>2, <1>3, <1>4, <1>5, <1>6, <1>7 DEF IInv

LEMMA WalkEndsKeeps ==
  ASSUME IInv, WalkEnds, Inherited
  PROVE  IInv'
<1> N \in Nat /\ N > 0
  BY MultipleActionAssumption
<1> USE DEF WalkEnds, config, Subs, subVars, Inherited, setup, queueVars, poolVars
<1>1. ASSUME NEW q \in Queues, late = {} PROVE Cardinality(Passed(q)') <= width
  <2>1. Passed(q)' \subseteq active \cap Group(q) /\ active \cap Group(q) \subseteq Subs
    BY <1>1, GroupsPartition DEF IInv, Closures, Passed, Group, Queue
  <2>2. Cardinality(active \cap Group(q)) <= width /\ width \in Nat
    BY AtWork
  <2>3. Cardinality(Passed(q)') <= Cardinality(active \cap Group(q))
    BY <2>1, SubsFinite
  <2>4. Cardinality(Passed(q)') \in Nat /\ Cardinality(active \cap Group(q)) \in Nat
    BY <2>1, SubsFinite
  <2>5. QED
    BY <2>2, <2>3, <2>4
<1>2. TypePool' /\ Closures' /\ Workers'
  BY PoolStays
<1>3. TypeAction'
  BY DEF IInv, TypeAction, States, Terminal
<1>4. Ways'
  BY DEF IInv, TypeAction, Ways, Submitted
<1>5. Count'
  BY CountStays DEF IInv, Count
<1>6. Behind'
  BY DEF IInv, Behind
<1>7. Late'
  <2>1. CASE parent' = parent
    <3>1. \A q \in Queues : Passed(q)' = Passed(q)
      BY DEF Passed, Group, Queue
    <3>2. QED
      BY <2>1, <3>1 DEF IInv, Late, Queues
  <2>2. CASE parent' # parent
    <3>1. parent # "Cancelled" /\ late = {}
      BY <2>2 DEF IInv, Late
    <3>2. QED
      BY <1>1, <2>2, <3>1 DEF IInv, Late, Queues
  <2>3. QED
    BY <2>1, <2>2
<1>8. Stops'
  BY DEF IInv, Stops
<1>9. QED
  BY <1>2, <1>3, <1>4, <1>5, <1>6, <1>7, <1>8 DEF IInv

\* A step of a queue of the parallel action: what it leaves as it is.
LEMMA QueueStep ==
  ASSUME IInv, parallel, UNCHANGED <<config, setup, parent, parentError, pc, next, exceptions>>,
         UNCHANGED <<mainVars, slot>>,
         pc \notin {"idle", "session", "launch", "inSub", "inspect"}
  PROVE  /\ \A i : Queue(i)' = Queue(i) /\ Group(i)' = Group(i)
         /\ Counted' = Counted
         /\ Ways' /\ Stops' /\ Behind'
<1> USE DEF config, setup, mainVars
<1>1. (\A i : Queue(i)' = Queue(i) /\ Group(i)' = Group(i)) /\ Counted' = Counted
  BY DEF Queue, Group, Counted
<1>2. Ways'
  BY DEF IInv, Ways
<1>3. Behind'
  BY DEF IInv, Behind
<1>4. Stops'
  BY DEF IInv, Ways, Stops
<1>5. QED
  BY <1>1, <1>2, <1>3, <1>4

LEMMA CreateQueueKeeps ==
  ASSUME IInv, NEW q \in Queues, CreateQueue(q)
  PROVE  IInv'
<1> USE DEF CreateQueue, actionVars, subVars
<1>1. parallel /\ pc = "begin" /\ q \notin created
  OBVIOUS
<1>2. /\ \A i : Queue(i)' = Queue(i) /\ Group(i)' = Group(i)
      /\ Counted' = Counted /\ Ways' /\ Stops' /\ Behind'
  BY <1>1, QueueStep
<1> USE DEF setup, poolVars, config
<1>3. TypeAction'
  BY DEF IInv, TypeAction, mainVars
<1>4. /\ width \in Nat /\ Cardinality(Group(q)) \in Nat
      /\ idle' = [idle EXCEPT ![q] = Least(width, Cardinality(Group(q)))]
  BY GroupsPartition, SubsFinite, ParallelActionAssumption DEF IInv, TypePool
<1>5. TypePool'
  BY <1>4, LeastIsLeast DEF IInv, TypePool, Queues
<1>6. Closures'
  BY <1>2 DEF IInv, Closures, Submitted
<1>7. Workers'
  <2> SUFFICES ASSUME NEW r \in Queues
               PROVE  idle'[r] + Cardinality(active \cap Group(r)) =
                        IF r \in created' THEN Least(width, Cardinality(Group(r))) ELSE 0
    BY <1>2 DEF Workers, Queues
  <2>1. idle \in [Queues -> Nat]
    BY DEF IInv, TypePool
  <2>2. CASE r # q
    BY <2>1, <2>2 DEF IInv, Workers
  <2>3. CASE r = q
    <3>1. active \cap Group(q) = {}
      BY <1>1 DEF IInv, Closures, Submitted, Group
    <3>2. Cardinality(active \cap Group(q)) = 0
      BY <3>1, FS_EmptySet
    <3>3. /\ idle'[q] = Least(width, Cardinality(Group(q)))
          /\ Least(width, Cardinality(Group(q))) \in Nat
      BY <1>4, <2>1, LeastIsLeast
    <3>4. QED
      BY <2>3, <3>2, <3>3
  <2>4. QED
    BY <2>2, <2>3
<1>8. Count'
  BY <1>2 DEF IInv, Count
<1>9. Late'
  BY <1>2 DEF IInv, Late, Passed, Queues
<1>10. QED
  BY <1>2, <1>3, <1>5, <1>6, <1>7, <1>8, <1>9 DEF IInv

LEMMA EnqueueOperationKeeps ==
  ASSUME IInv, NEW i \in Subs, EnqueueOperation(i)
  PROVE  IInv'
<1> USE DEF EnqueueOperation, actionVars, subVars
<1>1. parallel /\ pc = "begin" /\ i \notin Submitted /\ i \in Counted /\ Queue(i) \in created
  OBVIOUS
<1>2. /\ \A j : Queue(j)' = Queue(j) /\ Group(j)' = Group(j)
      /\ Counted' = Counted /\ Ways' /\ Stops' /\ Behind'
  BY <1>1, QueueStep
<1> USE DEF setup, config
<1>3. TypeAction'
  BY DEF IInv, TypeAction, mainVars
<1>4. TypePool'
  BY DEF IInv, TypePool, Queues
<1>5. Closures'
  BY <1>1, <1>2 DEF IInv, Closures, Submitted
<1>6. Workers'
  BY <1>2 DEF IInv, Workers, Queues
<1>7. Count'
  BY <1>2 DEF IInv, Count
<1>8. Late'
  BY <1>2 DEF IInv, Late, Passed, Queues
<1>9. QED
  BY <1>2, <1>3, <1>4, <1>5, <1>6, <1>7, <1>8 DEF IInv

\* When the count has reached the total, everything has been reported.
LEMMA AllReported ==
  ASSUME IInv, parallel, NEW S \in SUBSET reported, Cardinality(S) = Total
  PROVE  Counted \subseteq reported
<1>1. reported \subseteq Counted /\ Counted \subseteq Subs
  BY DEF IInv, TypeAction, Count, Closures, Submitted, Counted
<1>2. S \subseteq Counted /\ IsFiniteSet(Counted)
  BY <1>1, SubsFinite
<1>3. S = Counted
  BY <1>2, FS_Subset DEF Total
<1>4. QED
  BY <1>3

LEMMA WaitForCompletionKeeps ==
  ASSUME IInv, WaitForCompletion
  PROVE  IInv'
<1> N \in Nat /\ N > 0
  BY MultipleActionAssumption
<1> USE DEF WaitForCompletion, config, Subs, subVars, mainVars
<1>1. TypePool' /\ Closures' /\ Workers'
  BY PoolStays DEF Inherited
<1>2. TypeAction'
  BY DEF IInv, TypeAction
<1>3. Ways'
  BY DEF IInv, Ways, Submitted, queueVars, poolVars
<1>4. Count'
  <2>1. completed = Total => Counted \subseteq reported
    BY AllReported DEF IInv, Count
  <2>2. Counted' = Counted
    BY DEF Counted, setup
  <2>3. QED
    BY <2>1, <2>2 DEF IInv, Count, queueVars
<1>5. Behind'
  BY DEF IInv, Behind
<1>6. Late'
  BY DEF IInv, Late, Passed, Group, Queue, setup, queueVars
<1>7. Stops'
  BY DEF IInv, Stops
<1>8. QED
  BY <1>1, <1>2, <1>3, <1>4, <1>5, <1>6, <1>7 DEF IInv

LEMMA OnOperationCompletedKeeps ==
  ASSUME IInv, NEW i \in Subs, OnOperationCompleted(i)
  PROVE  IInv'
<1> N \in Nat /\ N > 0
  BY MultipleActionAssumption
<1> USE DEF OnOperationCompleted, config, Subs, subVars, mainVars, setup, queueVars, poolVars
<1>1. parallel
  BY DEF IInv, Ways
<1>2. TypeAction'
  BY DEF IInv, TypeAction
<1>3. TypePool'
  BY DEF IInv, TypePool, Queues
<1>4. /\ \A j : Queue(j)' = Queue(j) /\ Group(j)' = Group(j)
      /\ Counted' = Counted /\ Submitted' = Submitted
  BY DEF Queue, Group, Counted, Submitted
<1>5. Ways'
  BY <1>4 DEF IInv, Ways
<1>6. Closures' /\ Workers'
  BY <1>4 DEF IInv, Closures, Workers, Queues
<1>7. Count'
  <2>1. i \in reported /\ inbox \subseteq reported /\ completed = Cardinality(reported \ inbox)
    BY <1>1 DEF IInv, Count
  <2>2. reported \ inbox' = (reported \ inbox) \cup {i} /\ i \notin reported \ inbox
    BY <2>1
  <2>3. IsFiniteSet(reported \ inbox)
    BY SubsFinite DEF IInv, TypeAction
  <2>4. completed' = Cardinality(reported \ inbox')
    BY <2>1, <2>2, <2>3, FS_AddElement
  <2>5. completed + 1 = Total => Counted \subseteq reported
    BY <1>1, <2>4, AllReported
  <2>6. QED
    BY <1>4, <2>4, <2>5 DEF IInv, Count
<1>8. Behind'
  BY DEF IInv, Ways, Behind
<1>9. Late'
  BY <1>4 DEF IInv, Late, Passed, Queues
<1>10. Stops'
  BY DEF IInv, Stops
<1>11. QED
  BY <1>2, <1>3, <1>5, <1>6, <1>7, <1>8, <1>9, <1>10 DEF IInv

\* A worker starts to execute a closure, or ends.
LEMMA WorkersKept ==
  ASSUME IInv, NEW i \in Subs, UNCHANGED <<config, width, created>>, idle' \in [Queues -> Nat],
         \A q \in Queues \ {Queue(i)} : idle'[q] = idle[q],
         \/ /\ i \notin active /\ active' = active \cup {i}
            /\ idle[Queue(i)] = idle'[Queue(i)] + 1
         \/ /\ i \in active /\ active' = active \ {i}
            /\ idle'[Queue(i)] = idle[Queue(i)] + 1
  PROVE  Workers'
<1>1. \A q : Group(q)' = Group(q)
  BY DEF Group, Queue, config
<1> SUFFICES ASSUME NEW q \in Queues
             PROVE  idle'[q] + Cardinality(active' \cap Group(q)) =
                      idle[q] + Cardinality(active \cap Group(q))
  BY <1>1 DEF IInv, Workers, Queues
<1>2. CASE q # Queue(i)
  <2>1. active' \cap Group(q) = active \cap Group(q)
    BY <1>2, GroupsPartition
  <2>2. QED
    BY <1>2, <2>1
<1>3. CASE q = Queue(i)
  <2>1. i \in Group(q) /\ Group(q) \subseteq Subs
    BY <1>3, GroupsPartition
  <2>2. IsFiniteSet(active \cap Group(q)) /\ IsFiniteSet(active' \cap Group(q))
    BY <2>1, SubsFinite
  <2>3. Cardinality(active \cap Group(q)) \in Nat /\ Cardinality(active' \cap Group(q)) \in Nat
    BY <2>2, FS_CardinalityType
  <2>4. idle[q] \in Nat /\ idle'[q] \in Nat
    BY DEF IInv, TypePool
  <2>5. CASE i \notin active /\ active' = active \cup {i} /\ idle[q] = idle'[q] + 1
    <3>1. active' \cap Group(q) = (active \cap Group(q)) \cup {i} /\ i \notin active \cap Group(q)
      BY <2>1, <2>5
    <3>2. Cardinality(active' \cap Group(q)) = Cardinality(active \cap Group(q)) + 1
      BY <2>2, <3>1, FS_AddElement
    <3>3. QED
      BY <2>3, <2>4, <2>5, <3>2
  <2>6. CASE i \in active /\ active' = active \ {i} /\ idle'[q] = idle[q] + 1
    <3>1. active \cap Group(q) = (active' \cap Group(q)) \cup {i} /\ i \notin active' \cap Group(q)
      BY <2>1, <2>6
    <3>2. Cardinality(active \cap Group(q)) = Cardinality(active' \cap Group(q)) + 1
      BY <2>2, <3>1, FS_AddElement
    <3>3. QED
      BY <2>3, <2>4, <2>6, <3>2
  <2>7. QED
    BY <1>3, <2>5, <2>6
<1>4. QED
  BY <1>2, <1>3

\* A closure that returns: its place and its worker.
LEMMA ReturnKeeps ==
  ASSUME IInv, NEW i \in Subs, i \in active, ClosureReturns(i), UNCHANGED <<config, setup>>,
         inbox' \subseteq Subs
  PROVE  TypePool' /\ Closures' /\ Workers'
<1> USE DEF ClosureReturns, setup
<1>1. (\A j : Queue(j)' = Queue(j)) /\ Counted' = Counted
  BY DEF Queue, Counted, config
<1>2. /\ Queue(i) \in Queues /\ idle \in [Queues -> Nat]
      /\ idle' = [idle EXCEPT ![Queue(i)] = @ + 1]
  BY GroupsPartition DEF IInv, TypePool
<1>3. idle' \in [Queues -> Nat] /\ idle'[Queue(i)] = idle[Queue(i)] + 1
  BY <1>2
<1>4. TypePool'
  BY <1>3 DEF IInv, TypePool, Queues
<1>5. Closures'
  BY <1>1 DEF IInv, TypePool, Closures, Submitted
<1>6. Workers'
  BY <1>2, <1>3, WorkersKept
<1>7. QED
  BY <1>4, <1>5, <1>6

LEMMA TakeKeeps ==
  ASSUME IInv, NEW i \in Subs, Take(i)
  PROVE  IInv'
<1> USE DEF Take, actionVars, subVars
<1>1. /\ parallel /\ i \in pending /\ i \notin active /\ i \notin finished
      /\ pc \notin {"idle", "session", "launch", "inSub", "inspect"}
  BY DEF IInv, Ways, Closures, Submitted
<1>2. /\ \A j : Queue(j)' = Queue(j) /\ Group(j)' = Group(j)
      /\ Counted' = Counted /\ Ways' /\ Stops' /\ Behind'
  BY <1>1, QueueStep
<1> USE DEF setup, config
<1>3. TypeAction'
  BY DEF IInv, TypeAction, mainVars
<1>4. /\ Queue(i) \in Queues /\ idle \in [Queues -> Nat] /\ idle[Queue(i)] > 0
      /\ idle' = [idle EXCEPT ![Queue(i)] = @ - 1]
  BY GroupsPartition DEF IInv, TypePool
<1>5. idle' \in [Queues -> Nat] /\ idle[Queue(i)] = idle'[Queue(i)] + 1
  BY <1>4
<1>6. TypePool'
  BY <1>5 DEF IInv, TypePool, Queues
<1>7. Closures'
  BY <1>1, <1>2 DEF IInv, TypePool, Closures, Submitted
<1>8. Workers'
  BY <1>1, <1>4, <1>5, WorkersKept
<1>9. Count'
  BY <1>1, <1>2 DEF IInv, TypePool, Closures, Count
<1>10. Late'
  <2>1. \A q \in Queues : Passed(q)' = Passed(q)
    BY <1>1, <1>2 DEF IInv, TypePool, Closures, Passed, Group
  <2>2. QED
    BY <1>1, <2>1 DEF IInv, Late, Queues
<1>11. QED
  BY <1>2, <1>3, <1>6, <1>7, <1>8, <1>9, <1>10 DEF IInv

LEMMA ClosureTestsKeeps ==
  ASSUME IInv, NEW i \in Subs, ClosureTests(i)
  PROVE  IInv'
<1> USE DEF ClosureTests, actionVars, subVars
<1>1. /\ parallel /\ i \in active /\ closure[i] = "taken" /\ inbox \subseteq Subs
      /\ pc \notin {"idle", "session", "launch", "inSub", "inspect"}
  BY DEF IInv, TypePool, Ways, Closures, Submitted
<1>2. /\ \A j : Queue(j)' = Queue(j) /\ Group(j)' = Group(j)
      /\ Counted' = Counted /\ Ways' /\ Stops' /\ Behind'
  BY <1>1, QueueStep
<1>3. TypeAction'
  BY DEF IInv, TypeAction, config, mainVars
<1>4. TypePool' /\ Closures' /\ Workers'
  <2>1. CASE parent = "Cancelled"
    BY <1>1, <2>1, ReturnKeeps
  <2>2. CASE parent # "Cancelled"
    <3> USE <2>2 DEF poolVars, setup
    <3>1. TypePool'
      BY DEF IInv, TypePool, Queues
    <3>2. Closures'
      BY <1>1, <1>2 DEF IInv, TypePool, Closures, Submitted
    <3>3. Workers'
      BY <1>2 DEF IInv, Workers, Queues
    <3>4. QED
      BY <3>1, <3>2, <3>3
  <2>3. QED
    BY <2>1, <2>2
<1>5. closure' = [closure EXCEPT ![i] = IF parent = "Cancelled" THEN "over" ELSE "passed"]
  BY DEF ClosureReturns
<1>6. Count'
  BY <1>1, <1>2, <1>5 DEF IInv, TypeAction, TypePool, Count, config
<1>7. Late'
  <2>1. parent = "Cancelled" => \A q \in Queues : Passed(q)' = Passed(q)
    BY <1>1, <1>2, <1>5 DEF IInv, TypePool, Passed, Group
  <2>2. QED
    BY <1>1, <2>1 DEF IInv, Late, Queues, config, setup
<1>8. QED
  BY <1>2, <1>3, <1>4, <1>6, <1>7 DEF IInv

LEMMA ClosureStartsKeeps ==
  ASSUME IInv, NEW i \in Subs, ClosureStarts(i)
  PROVE  IInv'
<1> USE DEF ClosureStarts, SubStarts
<1>1. /\ parallel /\ i \in active /\ closure[i] = "passed" /\ sub[i] = "NotStarted"
      /\ pc \notin {"idle", "session", "launch", "inSub", "inspect"}
  BY DEF IInv, Ways, Closures, Submitted
<1>2. /\ \A j : Queue(j)' = Queue(j) /\ Group(j)' = Group(j)
      /\ Counted' = Counted /\ Ways' /\ Stops' /\ Behind'
  BY <1>1, QueueStep
<1> USE DEF setup, config, mainVars, poolVars
<1>3. TypeAction'
  BY DEF IInv, TypeAction, States, Terminal
<1>4. TypePool'
  BY DEF IInv, TypePool, Queues
<1>5. Closures'
  BY <1>1, <1>2 DEF IInv, TypePool, Closures, Submitted
<1>6. Workers'
  BY <1>2 DEF IInv, Workers, Queues
<1>7. Count'
  <2>1. i \notin reported
    BY <1>1 DEF IInv, Count
  <2>2. QED
    BY <1>1, <1>2, <2>1 DEF IInv, TypeAction, TypePool, Count
<1>8. Late'
  <2>1. parent = "Cancelled" => \A q \in Queues : Passed(q)' = Passed(q)
    BY <1>1, <1>2 DEF IInv, TypePool, Passed, Group
  <2>2. QED
    BY <1>1, <2>1 DEF IInv, Late, Queues
<1>9. QED
  BY <1>2, <1>3, <1>4, <1>5, <1>6, <1>7, <1>8 DEF IInv

\* A sub-operation in a closure that settles: the count and the types.
LEMMA SettledInClosure ==
  ASSUME IInv, NEW i \in Subs, parallel, closure[i] = "inSub", SubClaims(i) \/ SubEnds(i),
         inbox' = inbox \cup (reported' \ reported),
         UNCHANGED <<config, setup, parent, parentError, pc, next, exceptions, completed>>,
         UNCHANGED <<mainVars, slot, late>>,
         \/ UNCHANGED closure
         \/ closure' = [closure EXCEPT ![i] = "over"]
  PROVE  TypeAction' /\ Count' /\ inbox' \subseteq Subs
<1> USE DEF config, setup, mainVars
<1>1. /\ sub' \in [Subs -> States] /\ subError' \in [Subs -> BOOLEAN]
      /\ reported' \subseteq reported \cup {i} /\ reported \subseteq reported'
      /\ \A j \in reported' : sub'[j] \in {"Completed", "Cancelled"}
  BY SubSettles
<1>2. reported \subseteq Subs /\ inbox \subseteq reported
  BY DEF IInv, TypeAction, Count
<1>3. TypeAction'
  BY <1>1, <1>2 DEF IInv, TypeAction
<1>4. reported' \ inbox' = reported \ inbox /\ inbox' \subseteq reported' /\ inbox' \subseteq Subs
  BY <1>1, <1>2
<1>5. \A j \in reported' : closure'[j] \in {"inSub", "over"}
  <2>1. closure \in [Subs -> {"none", "taken", "passed", "inSub", "over"}]
    BY DEF IInv, TypePool
  <2>2. \A j \in reported' : closure[j] \in {"inSub", "over"}
    BY <1>1 DEF IInv, Count
  <2>3. QED
    BY <1>1, <1>2, <2>1, <2>2
<1>6. Counted' = Counted
  BY DEF Counted
<1>7. Count'
  BY <1>1, <1>4, <1>5, <1>6 DEF IInv, Count
<1>8. QED
  BY <1>3, <1>4, <1>7

LEMMA ClosureClaimsKeeps ==
  ASSUME IInv, NEW i \in Subs, ClosureClaims(i)
  PROVE  IInv'
<1> USE DEF ClosureClaims
<1>1. /\ parallel /\ i \in active /\ closure[i] = "inSub"
      /\ pc \notin {"idle", "session", "launch", "inSub", "inspect"}
  BY DEF IInv, Ways, Closures, Submitted
<1>2. /\ \A j : Queue(j)' = Queue(j) /\ Group(j)' = Group(j)
      /\ Counted' = Counted /\ Ways' /\ Stops' /\ Behind'
  BY <1>1, QueueStep
<1>3. inbox' = inbox \cup (reported' \ reported)
  BY DEF SubClaims
<1>4. UNCHANGED <<closure, poolVars, created, idle>>
  BY DEF queueVars
<1>5. TypeAction' /\ Count' /\ inbox' \subseteq Subs
  BY <1>1, <1>3, <1>4, SettledInClosure
<1> USE <1>4 DEF setup, config, poolVars
<1>6. TypePool'
  BY <1>5 DEF IInv, TypePool, Queues
<1>7. Closures' /\ Workers'
  BY <1>2 DEF IInv, Closures, Submitted, Workers, Queues
<1>8. Late'
  <2>1. \A q \in Queues : Passed(q)' = Passed(q)
    BY <1>2 DEF Passed
  <2>2. QED
    BY <1>1, <2>1 DEF IInv, Late, Queues
<1>9. QED
  BY <1>2, <1>5, <1>6, <1>7, <1>8 DEF IInv

LEMMA ClosureEndsKeeps ==
  ASSUME IInv, NEW i \in Subs, ClosureEnds(i)
  PROVE  IInv'
<1> USE DEF ClosureEnds
<1>1. /\ parallel /\ i \in active /\ closure[i] = "inSub"
      /\ pc \notin {"idle", "session", "launch", "inSub", "inspect"}
  BY DEF IInv, Ways, Closures, Submitted
<1>2. /\ \A j : Queue(j)' = Queue(j) /\ Group(j)' = Group(j)
      /\ Counted' = Counted /\ Ways' /\ Stops' /\ Behind'
  BY <1>1, QueueStep
<1>3. closure' = [closure EXCEPT ![i] = "over"]
  BY DEF ClosureReturns
<1>4. TypeAction' /\ Count' /\ inbox' \subseteq Subs
  BY <1>1, <1>3, SettledInClosure
<1>5. TypePool' /\ Closures' /\ Workers'
  BY <1>1, <1>4, ReturnKeeps
<1>6. Late'
  <2>1. \A q \in Queues : Passed(q)' = Passed(q)
    BY <1>1, <1>2, <1>3 DEF IInv, TypePool, Passed, Group
  <2>2. QED
    BY <1>1, <2>1 DEF IInv, Late, Queues, setup, config
<1>7. QED
  BY <1>2, <1>4, <1>5, <1>6 DEF IInv

LEMMA NextIInv == IInv /\ [Next]_vars => IInv'
<1> SUFFICES ASSUME IInv, [Next]_vars PROVE IInv'
  OBVIOUS
<1>1. CASE ThreadStep /\ Inherited
  BY <1>1, SessionKeeps, TestCancelledKeeps, LaunchKeeps, LaunchedClaimsKeeps,
       LaunchedEndsKeeps, InspectKeeps, TailKeeps, RunReturnedKeeps DEF ThreadStep
<1>2. CASE MainStep /\ Inherited
  BY <1>2, OnMultipleOperationCompletedKeeps, VisitKeeps, CancelSetsKeeps, WalkEndsKeeps
  DEF MainStep
<1>3. CASE UserStep /\ Inherited
  BY <1>3, RunKeeps, BeginCancelKeeps, UserCancelsSubKeeps DEF UserStep
<1>4. CASE RunSubOperationsStep
  BY <1>4, WaitForCompletionKeeps, CreateQueueKeeps, EnqueueOperationKeeps
  DEF RunSubOperationsStep
<1>5. ASSUME NEW i \in Subs, OnOperationCompleted(i) PROVE IInv'
  BY <1>5, OnOperationCompletedKeeps
<1>6. ASSUME NEW i \in Subs, WorkerStep(i) PROVE IInv'
  BY <1>6, TakeKeeps, ClosureTestsKeeps, ClosureStartsKeeps, ClosureClaimsKeeps,
       ClosureEndsKeeps DEF WorkerStep
<1>7. CASE UNCHANGED vars
  <2>1. Inherited /\ UNCHANGED config
    BY <1>7 DEF vars, actionVars, Inherited
  <2>2. TypePool' /\ Closures' /\ Workers'
    BY <2>1, PoolStays
  <2> USE <1>7 DEF vars, actionVars, poolVars, config, subVars, mainVars, setup, queueVars
  <2>3. TypeAction' /\ Ways'
    BY DEF IInv, TypeAction, Ways, Submitted
  <2>4. Count'
    BY DEF IInv, Count, Counted
  <2>5. Behind' /\ Stops'
    BY DEF IInv, Behind, Stops
  <2>6. Late'
    BY DEF IInv, Late, Passed, Group, Queue, Queues
  <2>7. QED
    BY <2>2, <2>3, <2>4, <2>5, <2>6 DEF IInv
<1>8. QED
  BY <1>1, <1>2, <1>3, <1>4, <1>5, <1>6, <1>7 DEF Next

\* The invariant that the theorems below rest on (MultipleAction::run, Cancel and
\* runSubOperations of both actions).
THEOREM Invariance == SafeSpec => []IInv
<1>1. Init => IInv
  BY InitIInv
<1>2. IInv /\ [Next]_vars => IInv'
  BY NextIInv
<1>3. QED
  BY <1>1, <1>2, PTL DEF SafeSpec

\* Every variable has its type; m_completedOperationsCount never passes the number of
\* sub-operations (onOperationCompleted), nor the free workers of a queue.
THEOREM TypeCorrect == SafeSpec => []TypeOK
<1>1. IInv => TypeOK
  <2> SUFFICES ASSUME IInv PROVE TypeOK
    OBVIOUS
  <2>1. completed \in 0..N
    <3>1. N \in Nat
      BY MultipleActionAssumption
    <3>2. reported \ inbox \in SUBSET Subs
      BY DEF IInv, TypeAction
    <3>3. Cardinality(reported \ inbox) \in Nat /\ Cardinality(reported \ inbox) <= N
      BY <3>2, SubsFinite
    <3>4. CASE parallel
      BY <3>1, <3>3, <3>4 DEF IInv, Count
    <3>5. CASE ~parallel
      BY <3>1, <3>5 DEF IInv, Behind
    <3>6. QED
      BY <3>4, <3>5
  <2>2. idle \in [Queues -> 0..N]
    BY AtWork DEF IInv, TypePool
  <2>3. config \in BOOLEAN \X BOOLEAN \X BOOLEAN
    BY DEF IInv, TypeAction, config
  <2>4. QED
    BY <2>1, <2>2, <2>3 DEF IInv, TypeAction, TypePool, TypeOK
<1>2. QED
  BY <1>1, Invariance, PTL

\* The action reports completed() only when every sub-operation has come out well,
\* wherever a Cancel() of one or of all of them has got to
\* (ParallelAction::onOperationCompleted, MultipleAction::runSubOperations).
THEOREM SuccessIsAlwaysComplete == SafeSpec => []SuccessIsComplete
<1>1. IInv => SuccessIsComplete
  <2> SUFFICES ASSUME IInv, parent = "Completed" PROVE SuccessIsComplete
    BY DEF SuccessIsComplete
  <2>1. CASE parallel
    <3>1. Counted \subseteq reported /\ \A i \in reported : sub[i] \in {"Completed", "Cancelled"}
      BY <2>1 DEF IInv, Count
    <3>2. QED
      BY <2>1, <3>1 DEF SuccessIsComplete
  <2>2. CASE ~parallel
    <3>1. /\ next = N + 1
          /\ \A i \in 1..(next - 1) : sub[i] \in {"Completed", "Cancelled"} /\ ~subError[i]
      BY <2>2 DEF IInv, Behind
    <3>2. next - 1 = N
      BY <3>1, MultipleActionAssumption
    <3>3. \A i \in Subs : sub[i] \in {"Completed", "Cancelled"} /\ ~subError[i]
      BY <3>1, <3>2 DEF Subs
    <3>4. QED
      BY <2>2, <3>3 DEF SuccessIsComplete
  <2>3. QED
    BY <2>1, <2>2
<1>2. QED
  BY <1>1, Invariance, PTL

\* After a cancel each worker starts at most one more sub-operation, and with
\* m_stopOnFirstException at most one ever fails (runSubOperations, enqueueOperation).
THEOREM AlwaysStartsNoMore == SafeSpec => []StartsNoMore
<1>1. IInv => StartsNoMore
  <2> SUFFICES ASSUME IInv PROVE StartsNoMore
    OBVIOUS
  <2>1. ASSUME NEW S, NEW j, S \subseteq {j} PROVE Cardinality(S) <= 1
    <3>1. S = {} \/ S = {j}
      BY <2>1
    <3>2. Cardinality({}) = 0 /\ Cardinality({j}) = 1
      BY FS_EmptySet, FS_Singleton
    <3>3. QED
      BY <3>1, <3>2
  <2>2. ASSUME NEW q \in Queues
        PROVE  Cardinality(late \cap Group(q)) <= IF parallel THEN width ELSE 1
    <3> width \in Nat
      BY AtWork
    <3>1. CASE parent # "Cancelled"
      <4>1. late \cap Group(q) = {}
        BY <3>1 DEF IInv, Late
      <4>2. QED
        BY <4>1, FS_EmptySet
    <3>2. CASE parallel /\ parent = "Cancelled"
      <4>1. late \cap Group(q) \subseteq Passed(q) /\ Passed(q) \subseteq Subs
        BY GroupsPartition DEF Passed
      <4>2. Cardinality(Passed(q)) <= width
        BY <3>2 DEF IInv, Late
      <4>3. Cardinality(late \cap Group(q)) <= Cardinality(Passed(q))
        BY <4>1, SubsFinite
      <4>4. Cardinality(late \cap Group(q)) \in Nat /\ Cardinality(Passed(q)) \in Nat
        BY <4>1, SubsFinite
      <4>5. QED
        BY <3>2, <4>2, <4>3, <4>4
    <3>3. CASE ~parallel
      <4>1. late = {} \/ \E j \in Subs : late = {j}
        BY <3>3 DEF IInv, Late
      <4>2. \E j : late \cap Group(q) \subseteq {j}
        BY <4>1
      <4>3. QED
        BY <2>1, <3>3, <4>2
    <3>4. QED
      BY <3>1, <3>2, <3>3
  <2>3. stopOnFirst => Cardinality({i \in Subs : subError[i]}) <= 1
    BY <2>1 DEF IInv, Stops
  <2>4. QED
    BY <2>2, <2>3 DEF StartsNoMore
<1>2. QED
  BY <1>1, Invariance, PTL

\* The queue of each connection is the pool that TaskPool describes, with the workers
\* it is created with (runSubOperations, enqueueOperation, ProducerConsumerQueue).
THEOREM EachConnectionHasAPool == SafeSpec => PoolPerConnection
<1> DEFINE Step == \A G \in {Group(q) : q \in Queues}, w \in {width} :
                  [PoolOf(G, w)!Next]_(PoolOf(G, w)!vars)
<1>1. ASSUME IInv, [Next]_vars PROVE [Step]_poolVars
  <2> SUFFICES ASSUME NEW k \in Queues, NEW G, G = Group(k), NEW w, w = width
               PROVE  [PoolOf(G, w)!Next]_(PoolOf(G, w)!vars)
    OBVIOUS
  <2>1. ASSUME NEW i \in Subs, EnqueueOperation(i) PROVE [PoolOf(G, w)!Next]_(PoolOf(G, w)!vars)
    <3>1. CASE i \in G
      <4>1. PoolOf(G, w)!Submit(i)
        BY <2>1, <3>1 DEF EnqueueOperation, PoolOf!Submit, PoolOf!Known, Submitted
      <4>2. QED
        BY <4>1 DEF PoolOf!Next
    <3>2. CASE i \notin G
      BY <2>1, <3>2 DEF EnqueueOperation, PoolOf!vars
    <3>3. QED
      BY <3>1, <3>2
  <2>2. ASSUME NEW i \in Subs, Take(i) PROVE [PoolOf(G, w)!Next]_(PoolOf(G, w)!vars)
    <3>1. CASE i \in G
      <4>1. k = Queue(i)
        BY <3>1, GroupsPartition
      <4>2. Cardinality(active \cap G) < w
        BY <1>1, <2>2, <4>1, AtWork DEF Take
      <4>3. /\ i \in pending \cap G /\ finished' \cap G = finished \cap G
            /\ pending' \cap G = (pending \cap G) \ {i} /\ active' \cap G = (active \cap G) \cup {i}
        BY <2>2, <3>1 DEF Take
      <4>4. PoolOf(G, w)!Start(i)
        BY <4>2, <4>3 DEF PoolOf!Start, PoolOf!Cardinality, Cardinality
      <4>5. QED
        BY <4>4 DEF PoolOf!Next
    <3>2. CASE i \notin G
      BY <2>2, <3>2 DEF Take, PoolOf!vars
    <3>3. QED
      BY <3>1, <3>2
  <2>3. ASSUME NEW i \in Subs, i \in active, UNCHANGED pending,
               active' = active \ {i}, finished' = finished \cup {i}
        PROVE  [PoolOf(G, w)!Next]_(PoolOf(G, w)!vars)
    <3>1. CASE i \in G
      <4>1. PoolOf(G, w)!Finish(i)
        BY <2>3, <3>1 DEF PoolOf!Finish
      <4>2. QED
        BY <4>1 DEF PoolOf!Next
    <3>2. CASE i \notin G
      BY <2>3, <3>2 DEF PoolOf!vars
    <3>3. QED
      BY <3>1, <3>2
  <2>4. ASSUME UNCHANGED poolVars PROVE [PoolOf(G, w)!Next]_(PoolOf(G, w)!vars)
    BY <2>4 DEF poolVars, PoolOf!vars
  <2>5. ASSUME NEW i \in Subs, WorkerStep(i) PROVE [PoolOf(G, w)!Next]_(PoolOf(G, w)!vars)
    <3>1. closure[i] \in {"taken", "inSub"} => i \in active
      BY <1>1 DEF IInv, Closures
    <3>2. CASE ClosureTests(i)
      BY <2>3, <2>4, <3>1, <3>2 DEF ClosureTests, ClosureReturns, poolVars
    <3>3. CASE ClosureStarts(i) \/ ClosureClaims(i)
      BY <2>4, <3>3 DEF ClosureStarts, ClosureClaims, queueVars
    <3>4. CASE ClosureEnds(i)
      BY <2>3, <3>1, <3>4 DEF ClosureEnds, ClosureReturns
    <3>5. QED
      BY <2>2, <2>5, <3>2, <3>3, <3>4 DEF WorkerStep
  <2>6. ASSUME \/ Inherited \/ WaitForCompletion \/ (\E q \in Queues : CreateQueue(q))
               \/ (\E i \in Subs : OnOperationCompleted(i)) \/ UNCHANGED vars
        PROVE  UNCHANGED poolVars
    BY <2>6 DEF Inherited, WaitForCompletion, CreateQueue, OnOperationCompleted, vars, queueVars
  <2>7. QED
    BY <1>1, <2>1, <2>4, <2>5, <2>6 DEF Next, RunSubOperationsStep
<1>2. QED
  BY <1>1, Invariance, PTL DEF SafeSpec, PoolPerConnection
================================================================================
