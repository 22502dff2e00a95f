----------------------------- MODULE OperationHistoryProofs -----------------------------
(***************************************************************************)
(* Proofs about OperationHistory, for any tasks, addresses and bounds.     *)
(* The invariant is about who is at an address: the operations that are    *)
(* alive have different ones, and a record that is kept is the one its     *)
(* operation's address leads to; and about what a record will show when    *)
(* all that is posted to the main thread is handled, the last signal of    *)
(* its operation or else what it shows now.  A second one, OnceInv, is     *)
(* about who has told of a task: its beginning is told of once, it has no  *)
(* monitor before that, and an own task is started by one operation.       *)
(***************************************************************************)
EXTENDS OperationHistory, SequenceTheorems, TLAPS

\* The types of what is kept and of what is posted.
Data == [task : Task, ended : BOOLEAN, tag : Nat]
OpStates == {"Running"} \cup Ended
InThread == {"start", "tag", "poll", "untag", "destroy", "finish"}
Op == [task : Task, step : {"none", "done", "deleted"} \cup InThread, state : OpStates,
       at : Address, uuid : Nat, from : Nat]
Record == [op : Nat, state : {"deleted"} \cup OpStates]
TaskMsg == [kind : {"task"}, sort : {"add", "mod", "del"}, task : Task, data : Data]
StateMsg == [kind : {"state"}, record : Nat, state : Ended]
Msg == TaskMsg \cup [kind : {"connected"}] \cup StateMsg

TypeHistory ==
  /\ ops \in Seq(Op) /\ records \in Seq(Record)
  /\ lookup \in [Address -> Nat]

TypeTasks ==
  /\ server \in [Task -> {"none", "pending", "ended", "gone"}]
  /\ tag \in [Task -> Nat] /\ matched \in [Task -> Nat]
  /\ old \subseteq Task /\ unmatched \subseteq Task /\ again \subseteq Task
  /\ todo \subseteq Data

TypeQueue == mainq \in Seq(Msg)

\* What is posted to the main thread.
Posted == {mainq[k] : k \in DOMAIN mainq}

\* A record has its operation, an address leads to a record.
Linked ==
  /\ \A r \in DOMAIN records : records[r].op \in DOMAIN ops
  /\ \A a \in Address : lookup[a] # 0 => lookup[a] \in DOMAIN records

\* Operations that are alive have different addresses.
Lives(o) == ops[o].step # "deleted"
Apart == \A o, p \in DOMAIN ops : Lives(o) /\ Lives(p) /\ ops[o].at = ops[p].at => o = p

\* The main thread cancels an own operation that is alive.
Cancels ==
  cancelling # 0 => cancelling \in DOMAIN ops /\ ops[cancelling].step \notin {"none", "deleted"}

\* Who monitors a task that is tracked.
Monitors ==
  \A t \in Task : matched[t] # 0 =>
    /\ matched[t] \in Meddling
    /\ ops[matched[t]].state = "Running" /\ ops[matched[t]].task = t

\* A signal that is on its way is for the record of an operation with a thread.
Signals ==
  \A r : SignalsOf(r) # {} => r \in DOMAIN records /\ ops[records[r].op].step # "none"

\* The last signal for a record.
LastSays(r, s) == \E k \in SignalsOf(r) : mainq[k].state = s /\ \A j \in SignalsOf(r) : j <= k

\* What a record will show is the state of its operation, or an end that was overtaken.
Recorded ==
  \A r \in DOMAIN records : records[r].state # "deleted" =>
    \E s \in OpStates :
      /\ WillShow(r, s)
      /\ \/ s = ops[records[r].op].state
         \/ records[r].op \in overtaken /\ s \in Ended

Kept == TypeHistory /\ Linked /\ Apart /\ RecordIsFound /\ Cancels

IInv == Kept /\ TypeTasks /\ TypeQueue /\ Monitors /\ Signals /\ Recorded

\* No signal for a record is posted or handled, or none at all.
SameSignalsOf(r) ==
  /\ SignalsOf(r)' = {} <=> SignalsOf(r) = {}
  /\ \A s : LastSays(r, s)' <=> LastSays(r, s)
SameSignals == TypeQueue' /\ \A r : SameSignalsOf(r)

\* A function on the domain of a sequence is a sequence of the same length.
LEMMA MappedSeq ==
  ASSUME NEW S, NEW s \in Seq(S), NEW T, NEW f \in [DOMAIN s -> T]
  PROVE  f \in Seq(T) /\ DOMAIN f = DOMAIN s /\ Len(f) = Len(s)
<1>1. DOMAIN s = 1..Len(s) /\ Len(s) \in Nat
  BY LenProperties
<1>2. f \in Seq(T)
  BY <1>1, SeqDef
<1>3. DOMAIN f = 1..Len(f) /\ Len(f) \in Nat
  BY <1>2, LenProperties
<1>4. DOMAIN f = DOMAIN s
  OBVIOUS
<1>5. Len(f) = Len(s)
  BY <1>1, <1>3, <1>4
<1>6. QED
  BY <1>2, <1>4, <1>5

\* What is posted after a message is added, or taken.
LEMMA PostedAfter ==
  ASSUME TypeQueue
  PROVE  /\ mainq' = mainq => TypeQueue' /\ Posted' = Posted
         /\ \A m \in Msg : mainq' = Append(mainq, m) => TypeQueue' /\ Posted' = Posted \cup {m}
         /\ mainq # <<>> => Head(mainq) \in Posted /\ Head(mainq) \in Msg
         /\ mainq # <<>> /\ mainq' = Tail(mainq) =>
              TypeQueue' /\ Posted = Posted' \cup {Head(mainq)}
<1> USE DEF TypeQueue
<1> DEFINE n == Len(mainq)
<1>1. n \in Nat /\ DOMAIN mainq = 1..n /\ \A k \in 1..n : mainq[k] \in Msg
  BY LenProperties, ElementOfSeq
<1>2. mainq' = mainq => TypeQueue' /\ Posted' = Posted
  BY DEF Posted
<1>3. ASSUME NEW m \in Msg, mainq' = Append(mainq, m) PROVE TypeQueue' /\ Posted' = Posted \cup {m}
  <2>1. /\ mainq' \in Seq(Msg) /\ Len(mainq') = n + 1
        /\ \A k \in 1..n : mainq'[k] = mainq[k]
        /\ mainq'[n + 1] = m
    BY <1>3, AppendProperties
  <2>2. DOMAIN mainq' = 1..(n + 1)
    BY <2>1, LenProperties
  <2>3. 1..(n + 1) = (1..n) \cup {n + 1}
    BY <1>1
  <2> HIDE DEF n
  <2>4. QED
    BY <1>1, <2>1, <2>2, <2>3 DEF Posted
<1>4. ASSUME mainq # <<>> PROVE n > 0 /\ Head(mainq) = mainq[1] /\ Head(mainq) \in Msg
  BY <1>1, <1>4, EmptySeq, HeadTailProperties
<1>5. ASSUME mainq # <<>>, mainq' = Tail(mainq)
      PROVE  TypeQueue' /\ Posted = Posted' \cup {Head(mainq)}
  <2>1. /\ mainq' \in Seq(Msg) /\ Len(mainq') = n - 1
        /\ \A k \in 1..(n - 1) : mainq'[k] = mainq[k + 1]
    BY <1>5, HeadTailProperties
  <2>2. DOMAIN mainq' = 1..(n - 1)
    BY <2>1, LenProperties
  <2>3. n > 0 /\ Head(mainq) = mainq[1]
    BY <1>4, <1>5
  <2> HIDE DEF n
  <2>4. \A k \in 1..n : k = 1 \/ (k - 1 \in 1..(n - 1) /\ mainq'[k - 1] = mainq[k])
    BY <1>1, <2>1
  <2>5. \A k \in 1..(n - 1) : k + 1 \in 1..n /\ mainq'[k] = mainq[k + 1]
    BY <1>1, <2>1
  <2>6. Posted \subseteq Posted' \cup {mainq[1]}
    BY <1>1, <2>2, <2>4 DEF Posted
  <2>7. Posted' \cup {mainq[1]} \subseteq Posted
    <3>1. 1 \in 1..n
      BY <1>1, <2>3
    <3>2. QED
      BY <1>1, <2>2, <2>5, <3>1 DEF Posted
  <2>8. QED
    BY <2>1, <2>3, <2>6, <2>7
<1>6. ASSUME mainq # <<>> PROVE Head(mainq) \in Posted
  <2>1. 1 \in DOMAIN mainq
    BY <1>1, <1>4, <1>6
  <2>2. QED
    BY <1>4, <1>6, <2>1 DEF Posted
<1>7. QED
  BY <1>2, <1>3, <1>4, <1>5, <1>6

\* What is said to a record after a message is added, or taken.
LEMMA SignalsAppended ==
  ASSUME TypeQueue, NEW m \in Msg, mainq' = Append(mainq, m), NEW r
  PROVE  /\ m.kind # "state" \/ m.record # r => SameSignalsOf(r)
         /\ m.kind = "state" /\ m.record = r =>
              SignalsOf(r)' # {} /\ \A s : LastSays(r, s)' <=> s = m.state
<1> DEFINE n == Len(mainq)
<1>1. /\ n \in Nat /\ DOMAIN mainq = 1..n /\ n + 1 \notin 1..n
      /\ mainq'[n + 1] = m /\ \A k \in 1..n : mainq'[k] = mainq[k]
      /\ DOMAIN mainq' = (1..n) \cup {n + 1}
  <2>1. n \in Nat /\ DOMAIN mainq = 1..n
    BY LenProperties DEF TypeQueue
  <2>2. /\ mainq' \in Seq(Msg) /\ Len(mainq') = n + 1
        /\ mainq'[n + 1] = m /\ \A k \in 1..n : mainq'[k] = mainq[k]
    BY AppendProperties DEF TypeQueue
  <2>3. DOMAIN mainq' = 1..n + 1
    BY <2>2, LenProperties
  <2>4. 1..n + 1 = (1..n) \cup {n + 1} /\ n + 1 \notin 1..n
    BY <2>1
  <2>5. QED
    BY <2>1, <2>2, <2>3, <2>4
<1> HIDE DEF n
<1>2. SignalsOf(r) \subseteq 1..n /\ \A k \in 1..n : k <= n + 1 /\ ~(n + 1 <= k)
  BY <1>1 DEF SignalsOf
<1>3. SignalsOf(r)' = SignalsOf(r) \cup
        (IF m.kind = "state" /\ m.record = r THEN {n + 1} ELSE {})
  BY <1>1 DEF SignalsOf
<1>4. ASSUME m.kind # "state" \/ m.record # r PROVE SameSignalsOf(r)
  <2>1. SignalsOf(r)' = SignalsOf(r)
    BY <1>3, <1>4
  <2>2. \A k \in SignalsOf(r) : mainq'[k] = mainq[k]
    BY <1>1, <1>2
  <2>3. QED
    BY <2>1, <2>2 DEF SameSignalsOf, LastSays
<1>5. ASSUME m.kind = "state", m.record = r
      PROVE  SignalsOf(r)' # {} /\ \A s : LastSays(r, s)' <=> s = m.state
  <2>1. SignalsOf(r)' = SignalsOf(r) \cup {n + 1}
    BY <1>3, <1>5
  <2>2. n + 1 <= n + 1
    BY <1>1
  <2>3. \A s : LastSays(r, s)' <=> s = m.state
    BY <1>1, <1>2, <2>1, <2>2 DEF LastSays
  <2>4. QED
    BY <2>1, <2>3
<1>6. QED
  BY <1>4, <1>5

LEMMA SignalsTaken ==
  ASSUME TypeQueue, mainq # <<>>, mainq' = Tail(mainq), NEW r
  PROVE  /\ Head(mainq).kind # "state" \/ Head(mainq).record # r => SameSignalsOf(r)
         /\ Head(mainq).kind = "state" /\ Head(mainq).record = r =>
              /\ SignalsOf(r) # {}
              /\ SignalsOf(r)' = {} => \A s : LastSays(r, s) <=> s = Head(mainq).state
              /\ SignalsOf(r)' # {} => \A s : LastSays(r, s)' <=> LastSays(r, s)
<1> DEFINE n == Len(mainq)
<1>1. /\ n \in Nat \ {0} /\ DOMAIN mainq = 1..n /\ DOMAIN mainq' = 1..n-1 /\ 1 \in 1..n
      /\ Head(mainq) = mainq[1] /\ \A k \in 1..n-1 : mainq'[k] = mainq[k + 1] /\ k + 1 \in 1..n
  <2>1. n \in Nat /\ DOMAIN mainq = 1..n /\ n # 0
    BY LenProperties, EmptySeq DEF TypeQueue
  <2>2. /\ mainq' \in Seq(Msg) /\ Len(mainq') = n - 1 /\ Head(mainq) = mainq[1]
        /\ \A k \in 1..n-1 : mainq'[k] = mainq[k + 1]
    BY HeadTailProperties DEF TypeQueue
  <2>3. DOMAIN mainq' = 1..n-1
    BY <2>2, LenProperties
  <2>4. 1 \in 1..n /\ \A k \in 1..n-1 : k + 1 \in 1..n
    BY <2>1
  <2>5. QED
    BY <2>1, <2>2, <2>3, <2>4
<1> HIDE DEF n
<1> DEFINE Is(k) == mainq[k].kind = "state" /\ mainq[k].record = r
<1>2. \A k : k \in SignalsOf(r)' <=> k \in 1..n-1 /\ k + 1 \in SignalsOf(r)
  BY <1>1 DEF SignalsOf
<1>3. \A k : k \in SignalsOf(r) =>
        k \in 1..n /\ (k = 1 \/ (k - 1 \in SignalsOf(r)' /\ k = (k - 1) + 1))
  <2> SUFFICES ASSUME NEW k, k \in SignalsOf(r)
               PROVE  k \in 1..n /\ (k = 1 \/ (k - 1 \in SignalsOf(r)' /\ k = (k - 1) + 1))
    OBVIOUS
  <2>1. k \in 1..n
    BY <1>1 DEF SignalsOf
  <2>2. k = 1 \/ (k - 1 \in 1..n-1 /\ k = (k - 1) + 1)
    BY <1>1, <2>1
  <2>3. QED
    BY <1>2, <2>1, <2>2
<1>4. 1 \in SignalsOf(r) <=> Is(1)
  BY <1>1 DEF SignalsOf
<1>5. ASSUME NEW s, SignalsOf(r)' # {}
      PROVE  LastSays(r, s)' <=> LastSays(r, s)
  <2>1. ASSUME LastSays(r, s)' PROVE LastSays(r, s)
    <3>1. PICK k \in SignalsOf(r)' : mainq'[k].state = s /\ \A j \in SignalsOf(r)' : j <= k
      BY <2>1 DEF LastSays
    <3>2. k \in 1..n-1 /\ k + 1 \in SignalsOf(r) /\ mainq[k + 1].state = s
      BY <1>1, <1>2, <3>1
    <3>3. ASSUME NEW j \in SignalsOf(r) PROVE j <= k + 1
      <4>1. j \in 1..n /\ (j = 1 \/ (j - 1 <= k /\ j = (j - 1) + 1))
        BY <1>3, <3>1, <3>3
      <4>2. QED
        BY <1>1, <3>2, <4>1
    <3>4. QED
      BY <3>2, <3>3 DEF LastSays
  <2>2. ASSUME LastSays(r, s) PROVE LastSays(r, s)'
    <3>1. PICK k \in SignalsOf(r) : mainq[k].state = s /\ \A j \in SignalsOf(r) : j <= k
      BY <2>2 DEF LastSays
    <3>2. PICK i : i \in SignalsOf(r)'
      BY <1>5
    <3>3. i \in 1..n-1 /\ i + 1 <= k
      BY <1>2, <3>1, <3>2
    <3>4. k \in 1..n /\ k # 1
      BY <1>1, <1>3, <3>1, <3>3
    <3>5. k - 1 \in SignalsOf(r)' /\ k = (k - 1) + 1 /\ k - 1 \in 1..n-1
      BY <1>2, <1>3, <3>1, <3>4
    <3>6. mainq'[k - 1].state = s
      BY <1>1, <3>1, <3>5
    <3>7. ASSUME NEW j \in SignalsOf(r)' PROVE j <= k - 1
      <4>1. j \in 1..n-1 /\ j + 1 <= k
        BY <1>2, <3>1, <3>7
      <4>2. QED
        BY <1>1, <3>4, <4>1
    <3>8. QED
      BY <3>5, <3>6, <3>7 DEF LastSays
  <2>3. QED
    BY <2>1, <2>2
<1>6. ASSUME ~Is(1) PROVE SameSignalsOf(r)
  <2>1. SignalsOf(r)' = {} <=> SignalsOf(r) = {}
    BY <1>2, <1>3, <1>4, <1>6
  <2>2. ASSUME SignalsOf(r)' = {} PROVE \A s : LastSays(r, s)' <=> LastSays(r, s)
    BY <2>1, <2>2 DEF LastSays
  <2>3. QED
    BY <1>5, <2>1, <2>2 DEF SameSignalsOf
<1>7. ASSUME Is(1), SignalsOf(r)' = {}, NEW s
      PROVE  LastSays(r, s) <=> s = mainq[1].state
  <2>1. SignalsOf(r) = {1}
    BY <1>3, <1>4, <1>7
  <2>2. QED
    BY <2>1 DEF LastSays
<1>8. QED
  BY <1>1, <1>4, <1>5, <1>6, <1>7

\* What a record will show stays the same.
LEMMA WillShowSame ==
  ASSUME NEW r, SameSignalsOf(r), records'[r].state = records[r].state, NEW s
  PROVE  WillShow(r, s)' <=> WillShow(r, s)
  BY DEF WillShow, SameSignalsOf, LastSays

\* What task events and task records tell is typed.
LEMMA DataTyped ==
  ASSUME TypeTasks, NEW t \in Task
  PROVE  /\ Snapshot(t) \in Data
         /\ [Snapshot(t) EXCEPT !.ended = TRUE] \in Data
         /\ \A n \in Nat : [Snapshot(t) EXCEPT !.tag = n] \in Data
         /\ [task |-> t, ended |-> FALSE, tag |-> 0] \in Data
<1>1. \A b \in BOOLEAN, n \in Nat : [task |-> t, ended |-> b, tag |-> n] \in Data
  BY DEF Data
<1>2. \A d \in Data : /\ [d EXCEPT !.ended = TRUE] \in Data
                      /\ \A n \in Nat : [d EXCEPT !.tag = n] \in Data
  <2>1. TRUE \in BOOLEAN
    OBVIOUS
  <2>2. \A d \in Data, b \in BOOLEAN : [d EXCEPT !.ended = b] \in Data
    BY DEF Data
  <2>3. \A d \in Data, n \in Nat : [d EXCEPT !.tag = n] \in Data
    BY DEF Data
  <2>4. QED
    BY <2>1, <2>2, <2>3
<1>3. tag[t] \in Nat /\ (server[t] = "ended") \in BOOLEAN /\ FALSE \in BOOLEAN
  <2>1. tag[t] \in Nat
    BY DEF TypeTasks
  <2>2. QED
    BY <2>1
<1>4. Snapshot(t) \in Data
  BY <1>1, <1>3 DEF Snapshot
<1>5. [task |-> t, ended |-> FALSE, tag |-> 0] \in Data
  <2>1. FALSE \in BOOLEAN /\ 0 \in Nat
    OBVIOUS
  <2>2. QED
    BY <1>1, <2>1, Zenon
<1>6. QED
  BY <1>2, <1>4, <1>5

\* A message that is no signal is posted.
LEMMA AppendKeeps ==
  ASSUME TypeQueue, NEW m \in Msg, m.kind # "state", mainq' = Append(mainq, m)
  PROVE  SameSignals
  BY PostedAfter, SignalsAppended DEF SameSignals

\* Nothing is posted.
LEMMA UntoldKeeps ==
  ASSUME TypeQueue, mainq' = mainq
  PROVE  SameSignals
  BY PostedAfter DEF SameSignals, SameSignalsOf, SignalsOf, LastSays

\* A task event is no signal.
LEMMA TellKeeps ==
  ASSUME TypeQueue, NEW sort \in {"add", "mod", "del"}, NEW t \in Task, NEW d \in Data,
         Tell(sort, t, d)
  PROVE  SameSignals
<1>1. Event(sort, t, d) \in TaskMsg /\ Event(sort, t, d).kind # "state"
  BY DEF Event, TaskMsg
<1>2. Event(sort, t, d) \in Msg
  BY <1>1 DEF Msg
<1>3. mainq' = mainq \/ mainq' = Append(mainq, Event(sort, t, d))
  BY DEF Tell
<1>4. QED
  BY <1>1, <1>2, <1>3, AppendKeeps, UntoldKeeps

\* A message that is no signal is taken.
LEMMA TakenKeeps ==
  ASSUME TypeQueue, mainq # <<>>, Head(mainq).kind # "state", mainq' = Tail(mainq)
  PROVE  SameSignals
  BY PostedAfter, SignalsTaken DEF SameSignals

---------------------------------------------------------------------------------
\* Steps that leave the operations and their records alone.
LEMMA QuietKeeps ==
  ASSUME IInv, UNCHANGED <<historyVars, matched>>, SameSignals, TypeTasks',
         overtaken \subseteq overtaken',
         cancelling' # cancelling => \/ cancelling' = 0
                                     \/ /\ cancelling' \in DOMAIN ops
                                        /\ ops[cancelling'].step \notin {"none", "deleted"}
  PROVE  IInv'
<1> USE DEF IInv, historyVars
<1>1. TypeHistory' /\ Linked' /\ Cancels'
  BY DEF Kept, TypeHistory, Linked, Cancels
<1>2. Apart' /\ RecordIsFound'
  BY DEF Kept, Apart, Lives, RecordIsFound
<1>3. Monitors'
  BY DEF Monitors, Meddling
<1>4. Signals'
  BY DEF Signals, SameSignals, SameSignalsOf
<1>5. \A r, s : WillShow(r, s)' <=> WillShow(r, s)
  BY WillShowSame DEF SameSignals
<1>6. Recorded'
  BY <1>5 DEF Recorded
<1>7. TypeQueue'
  BY DEF SameSignals
<1>8. QED
  BY <1>1, <1>2, <1>3, <1>4, <1>6, <1>7 DEF Kept

\* An operation's thread comes to its next step.
LEMMA StepKeeps ==
  ASSUME IInv, NEW o \in DOMAIN ops, NEW s \in InThread \cup {"deleted"},
         ops[o].step \in InThread \/ (ops[o].step = "done" /\ s = "deleted"),
         s = "deleted" => cancelling = 0,
         Step(o, s), UNCHANGED <<records, lookup, matched, cancelVars>>, SameSignals, TypeTasks'
  PROVE  IInv'
<1> USE DEF IInv
<1>1. ops[o] \in Op /\ [ops[o] EXCEPT !.step = s] \in Op
  <2>1. ops[o] \in Op
    BY LenProperties, ElementOfSeq DEF Kept, TypeHistory
  <2>2. QED
    BY <2>1 DEF Op
<1>2. /\ ops' \in Seq(Op) /\ DOMAIN ops' = DOMAIN ops
      /\ \A p \in DOMAIN ops : ops'[p] = IF p = o THEN [ops[o] EXCEPT !.step = s] ELSE ops[p]
  <2>1. ops' = [ops EXCEPT ![o] = [ops[o] EXCEPT !.step = s]]
    BY DEF Step
  <2>2. DOMAIN ops = 1..Len(ops)
    BY LenProperties DEF Kept, TypeHistory
  <2>3. QED
    BY <1>1, <2>1, <2>2, ExceptSeq DEF Kept, TypeHistory
<1>3. \A p \in DOMAIN ops : /\ ops'[p].state = ops[p].state /\ ops'[p].at = ops[p].at
                            /\ ops'[p].task = ops[p].task
                            /\ ops'[p].step = IF p = o THEN s ELSE ops[p].step
  BY <1>1, <1>2 DEF Op
<1>4. TypeHistory' /\ Linked'
  BY <1>2 DEF Kept, TypeHistory, Linked
<1>5. Apart'
  BY <1>2, <1>3 DEF Kept, Apart, Lives, InThread
<1>6. RecordIsFound'
  <2>1. \A r \in DOMAIN records : records[r].op \in DOMAIN ops
    BY DEF Kept, Linked
  <2>2. QED
    BY <1>3, <2>1 DEF Kept, RecordIsFound, InThread
<1>7. Cancels'
  BY <1>2, <1>3 DEF Kept, Cancels, InThread, cancelVars
<1>8. Monitors'
  BY <1>2, <1>3 DEF Monitors, Meddling, InThread
<1>9. \A r \in DOMAIN records : records[r].op \in DOMAIN ops
  BY DEF Kept, Linked
<1>10. Signals'
  BY <1>3, <1>9 DEF Signals, SameSignals, SameSignalsOf, InThread
<1>11. \A r, v : WillShow(r, v)' <=> WillShow(r, v)
  BY WillShowSame DEF SameSignals
<1>12. Recorded'
  BY <1>3, <1>9, <1>11 DEF Recorded, cancelVars
<1>13. TypeQueue'
  BY DEF SameSignals
<1>14. QED
  BY <1>4, <1>5, <1>6, <1>7, <1>8, <1>10, <1>12, <1>13 DEF Kept

\* The thread sets a state: the record that is told of it is the only one of the operation.
LEMMA SetStateKeeps ==
  ASSUME IInv, NEW o \in DOMAIN ops, ops[o].step \in InThread, NEW state \in OpStates,
         state = ops[o].state \/ state \in Ended, NEW step \in InThread \cup {"done"},
         SetState(o, state, step), UNCHANGED <<records, lookup, matched, cancelVars>>, TypeTasks'
  PROVE  IInv'
<1> USE DEF IInv
<1>1. ops[o] \in Op
  BY LenProperties, ElementOfSeq DEF Kept, TypeHistory
<1> DEFINE e == [ops[o] EXCEPT !.state = state, !.step = step]
<1>2. /\ e \in Op /\ e.state = state /\ e.step \notin {"none", "deleted"}
      /\ e.at = ops[o].at /\ e.task = ops[o].task
  BY <1>1 DEF Op, InThread
<1>3. /\ ops' \in Seq(Op) /\ DOMAIN ops' = DOMAIN ops
      /\ \A p \in DOMAIN ops : ops'[p] = IF p = o THEN e ELSE ops[p]
  <2>1. DOMAIN ops = 1..Len(ops)
    BY LenProperties DEF Kept, TypeHistory
  <2>2. ops' = [ops EXCEPT ![o] = e]
    BY DEF SetState
  <2> HIDE DEF e
  <2>3. QED
    BY <1>2, <2>1, <2>2, ExceptSeq DEF Kept, TypeHistory
<1> HIDE DEF e
<1>4. ops[o].step \notin {"none", "deleted"}
  BY DEF InThread
<1>5. \A r \in DOMAIN records : records[r].op \in DOMAIN ops /\ r \in Nat /\ r # 0
  BY LenProperties DEF Kept, Linked, TypeHistory
<1>6. TypeHistory' /\ Linked' /\ Cancels'
  BY <1>2, <1>3 DEF Kept, TypeHistory, Linked, Cancels, cancelVars
<1>7. Apart' /\ RecordIsFound'
  BY <1>2, <1>3, <1>4, <1>5 DEF Kept, Apart, Lives, RecordIsFound
<1>8. Monitors'
  BY <1>2, <1>3, <1>4 DEF Monitors, Meddling
<1>9. \A r \in RecordOf(o) : r = lookup[ops[o].at]
  BY <1>4 DEF RecordOf, Kept, RecordIsFound
<1>10. /\ TypeQueue'
       /\ \A r : (r \in RecordOf(o) /\ state # ops[o].state) \/ SameSignalsOf(r)
       /\ \A r \in RecordOf(o) : state # ops[o].state =>
            SignalsOf(r)' # {} /\ \A s : LastSays(r, s)' <=> s = state
  <2>1. CASE state = ops[o].state \/ RecordOf(o) = {}
    <3>1. mainq' = mainq
      BY <2>1 DEF SetState
    <3>2. SameSignals
      BY <3>1, UntoldKeeps
    <3>3. QED
      BY <2>1, <3>2 DEF SameSignals
  <2>2. CASE state # ops[o].state /\ RecordOf(o) # {}
    <3>1. PICK q \in RecordOf(o) : q = CHOOSE r \in RecordOf(o) : TRUE
      BY <2>2
    <3> DEFINE m == [kind |-> "state", record |-> q, state |-> state]
    <3>2. m \in Msg /\ m.kind = "state" /\ m.record = q /\ m.state = state
      BY <1>5, <2>2 DEF StateMsg, Msg, RecordOf
    <3>3. mainq' = Append(mainq, m)
      BY <2>2, <3>1 DEF SetState
    <3>4. \A r \in RecordOf(o) : r = q
      BY <1>9
    <3> HIDE DEF m
    <3>5. TypeQueue'
      BY <3>2, <3>3, PostedAfter
    <3>6. \A r : r # q => SameSignalsOf(r)
      BY <3>2, <3>3, SignalsAppended
    <3>7. SignalsOf(q)' # {} /\ \A s : LastSays(q, s)' <=> s = state
      BY <3>2, <3>3, SignalsAppended
    <3>8. QED
      BY <2>2, <3>4, <3>5, <3>6, <3>7
  <2>3. QED
    BY <2>1, <2>2
<1>11. Signals'
  <2> SUFFICES ASSUME NEW r, SignalsOf(r)' # {}
               PROVE  r \in DOMAIN records' /\ ops'[records'[r].op].step # "none"
    BY DEF Signals
  <2>1. CASE r \in RecordOf(o)
    BY <1>2, <1>3, <2>1 DEF RecordOf
  <2>2. CASE r \notin RecordOf(o)
    <3>1. r \in DOMAIN records /\ ops[records[r].op].step # "none"
      BY <1>10, <2>2 DEF Signals, SameSignalsOf
    <3>2. QED
      BY <1>2, <1>3, <1>5, <3>1
  <2>3. QED
    BY <2>1, <2>2
<1>12. Recorded'
  <2> SUFFICES ASSUME NEW r \in DOMAIN records, records[r].state # "deleted"
               PROVE  \E s \in OpStates :
                        /\ WillShow(r, s)'
                        /\ \/ s = ops'[records[r].op].state
                           \/ records[r].op \in overtaken' /\ s \in Ended
    BY DEF Recorded
  <2>1. CASE records[r].op = o /\ state # ops[o].state
    <3>1. r \in RecordOf(o)
      BY <2>1 DEF RecordOf
    <3>2. SignalsOf(r)' # {} /\ LastSays(r, state)'
      BY <1>10, <2>1, <3>1
    <3>3. WillShow(r, state)'
      BY <3>2 DEF WillShow, LastSays
    <3>4. ops'[records[r].op].state = state
      BY <1>2, <1>3, <2>1
    <3>5. QED
      BY <3>3, <3>4
  <2>2. CASE ~(records[r].op = o /\ state # ops[o].state)
    <3>1. SameSignalsOf(r)
      BY <1>10, <2>2 DEF RecordOf
    <3>2. ops'[records[r].op].state = ops[records[r].op].state
      BY <1>2, <1>3, <1>5, <2>2
    <3>3. \A s : WillShow(r, s)' <=> WillShow(r, s)
      BY <3>1, WillShowSame
    <3>4. QED
      BY <3>2, <3>3 DEF Recorded, cancelVars
  <2>3. QED
    BY <2>1, <2>2
<1>13. QED
  BY <1>6, <1>7, <1>8, <1>10, <1>11, <1>12 DEF Kept

\* Cancel() sets its state, and tells the record at once, whatever is posted to it.
LEMMA CancelSetsKeeps ==
  ASSUME IInv, CancelSets
  PROVE  IInv'
<1> USE DEF IInv
<1> DEFINE o == cancelling
           told == IF ops[o].state = "Cancelled" THEN {} ELSE RecordOf(o)
           e == [ops[o] EXCEPT !.state = "Cancelled"]
<1>1. o \in DOMAIN ops /\ ops[o].step \notin {"none", "deleted"}
  BY DEF CancelSets, Kept, Cancels
<1>2. /\ cancelling' = 0 /\ ops' = [ops EXCEPT ![o] = e]
      /\ records' = [r \in DOMAIN records |->
                      IF r \in told THEN [records[r] EXCEPT !.state = "Cancelled"] ELSE records[r]]
      /\ overtaken' = IF \E r \in told : SignalsOf(r) # {} THEN overtaken \cup {o} ELSE overtaken
      /\ UNCHANGED <<serverVars, lookup, mainq, todo, matched, unmatched, again>>
  BY DEF CancelSets, taskVars
<1> HIDE DEF o
<1>3. ops[o] \in Op
  BY <1>1, LenProperties, ElementOfSeq DEF Kept, TypeHistory
<1>4. /\ e \in Op /\ e.state = "Cancelled" /\ e.step = ops[o].step
      /\ e.at = ops[o].at /\ e.task = ops[o].task
  BY <1>3 DEF Op, OpStates, Ended
<1>5. /\ ops' \in Seq(Op) /\ DOMAIN ops' = DOMAIN ops
      /\ \A p \in DOMAIN ops : ops'[p] = IF p = o THEN e ELSE ops[p]
  <2>1. DOMAIN ops = 1..Len(ops)
    BY LenProperties DEF Kept, TypeHistory
  <2> HIDE DEF e
  <2>2. QED
    BY <1>1, <1>2, <1>4, <2>1, ExceptSeq DEF Kept, TypeHistory
<1> HIDE DEF e
<1>6. told \subseteq RecordOf(o) /\ (ops[o].state # "Cancelled" => told = RecordOf(o))
  OBVIOUS
<1> HIDE DEF told
<1>7. /\ records' \in Seq(Record) /\ DOMAIN records' = DOMAIN records
      /\ \A r \in DOMAIN records : /\ records'[r].op = records[r].op
                                   /\ r \in told => records'[r].state = "Cancelled"
                                   /\ r \notin told => records'[r] = records[r]
  <2>1. \A r \in DOMAIN records : records[r] \in Record
    BY LenProperties, ElementOfSeq DEF Kept, TypeHistory
  <2>2. \A d \in Record : /\ [d EXCEPT !.state = "Cancelled"] \in Record
                          /\ [d EXCEPT !.state = "Cancelled"].op = d.op
                          /\ [d EXCEPT !.state = "Cancelled"].state = "Cancelled"
    BY DEF Record, OpStates, Ended
  <2>3. records' \in [DOMAIN records -> Record]
    BY <1>2, <2>1, <2>2
  <2>4. records' \in Seq(Record) /\ DOMAIN records' = DOMAIN records
    BY <2>3, MappedSeq DEF Kept, TypeHistory
  <2>5. QED
    BY <1>2, <2>1, <2>2, <2>4
<1>8. \A r \in DOMAIN records : records[r].op \in DOMAIN ops /\ r \in Nat
  BY LenProperties DEF Kept, Linked, TypeHistory
<1>9. \A r \in DOMAIN records : records'[r].state = "deleted" <=> records[r].state = "deleted"
  BY <1>6, <1>7 DEF RecordOf
<1>10. TypeHistory' /\ Linked' /\ Cancels'
  BY <1>2, <1>4, <1>5, <1>7 DEF Kept, TypeHistory, Linked, Cancels
<1>11. \A p \in DOMAIN ops : ops'[p].step = ops[p].step /\ ops'[p].at = ops[p].at
  BY <1>4, <1>5
<1>12. Apart' /\ RecordIsFound'
  <2>1. Apart'
    BY <1>5, <1>11 DEF Kept, Apart, Lives
  <2>2. RecordIsFound'
    BY <1>2, <1>7, <1>8, <1>9, <1>11 DEF Kept, RecordIsFound
  <2>3. QED
    BY <2>1, <2>2
<1>13. TypeTasks' /\ Monitors'
  BY <1>1, <1>2, <1>5, <1>11 DEF TypeTasks, Monitors, Meddling, serverVars
<1>14. SameSignals
  BY <1>2, UntoldKeeps
<1>15. Signals'
  BY <1>7, <1>8, <1>11, <1>14 DEF Signals, SameSignals, SameSignalsOf
<1>16. Recorded'
  <2> SUFFICES ASSUME NEW r \in DOMAIN records, records[r].state # "deleted"
               PROVE  \E s \in OpStates :
                        /\ WillShow(r, s)'
                        /\ \/ s = ops'[records[r].op].state
                           \/ records[r].op \in overtaken' /\ s \in Ended
    BY <1>7, <1>9 DEF Recorded
  <2>1. CASE r \notin told
    <3>1. \A s : WillShow(r, s)' <=> WillShow(r, s)
      BY <1>7, <1>14, <2>1, WillShowSame DEF SameSignals
    <3>2. ops'[records[r].op].state = ops[records[r].op].state
      <4>1. CASE records[r].op = o
        BY <1>4, <1>5, <1>6, <1>8, <2>1, <4>1 DEF RecordOf
      <4>2. CASE records[r].op # o
        BY <1>5, <1>8, <4>2
      <4>3. QED
        BY <4>1, <4>2
    <3>3. overtaken \subseteq overtaken'
      BY <1>2
    <3>4. QED
      BY <3>1, <3>2, <3>3 DEF Recorded
  <2>2. CASE r \in told /\ SignalsOf(r) = {}
    <3>1. SignalsOf(r)' = {}
      BY <1>14, <2>2 DEF SameSignals, SameSignalsOf
    <3>2. WillShow(r, "Cancelled")'
      BY <1>7, <2>2, <3>1 DEF WillShow
    <3>3. ops'[records[r].op].state = "Cancelled" /\ "Cancelled" \in OpStates
      BY <1>4, <1>5, <1>6, <1>8, <2>2 DEF RecordOf, OpStates, Ended
    <3>4. QED
      BY <3>2, <3>3
  <2>3. CASE r \in told /\ SignalsOf(r) # {}
    <3>1. records[r].op = o /\ o \in overtaken'
      BY <1>2, <1>6, <2>3 DEF RecordOf
    <3>2. PICK s \in OpStates : WillShow(r, s)
      BY DEF Recorded
    <3>3. PICK k \in SignalsOf(r) : mainq[k].state = s /\ \A j \in SignalsOf(r) : j <= k
      BY <2>3, <3>2 DEF WillShow
    <3>4. mainq[k] \in Msg /\ mainq[k].kind = "state"
      BY <3>3, LenProperties, ElementOfSeq DEF SignalsOf, TypeQueue
    <3>5. s \in Ended
      BY <3>3, <3>4 DEF Msg, TaskMsg, StateMsg
    <3>6. LastSays(r, s) /\ SignalsOf(r)' # {}
      BY <1>14, <2>3, <3>3 DEF LastSays, SameSignals, SameSignalsOf
    <3>7. LastSays(r, s)'
      BY <1>14, <3>6 DEF SameSignals, SameSignalsOf
    <3>8. WillShow(r, s)'
      BY <3>6, <3>7 DEF WillShow, LastSays
    <3>9. QED
      BY <3>1, <3>5, <3>8
  <2>4. QED
    BY <2>1, <2>2, <2>3
<1>17. QED
  BY <1>10, <1>12, <1>13, <1>14, <1>15, <1>16 DEF Kept, SameSignals

---------------------------------------------------------------------------------
\* A new operation's address is that of no operation that is alive.
LEMMA FreeIsFree ==
  ASSUME Kept, NEW a \in Address, Free(a), NEW p \in DOMAIN ops, Lives(p)
  PROVE  ops[p].at # a
<1>1. CASE a \in Used \ Alive
  BY <1>1 DEF Alive, Lives
<1>2. CASE Used # Address /\ a = CHOOSE b \in Address : b \notin Used
  <2>1. Used \subseteq Address
    <3>1. \A q \in DOMAIN ops : ops[q] \in Op
      BY LenProperties, ElementOfSeq DEF Kept, TypeHistory
    <3>2. QED
      BY <3>1 DEF Used, Op
  <2>2. \E b \in Address : b \notin Used
    BY <1>2, <2>1
  <2>3. a \notin Used
    BY <1>2, <2>2
  <2>4. QED
    BY <2>3 DEF Used
<1>3. QED
  BY <1>1, <1>2 DEF Free

\* RegisterOperation adds a record for the operation and leads its address there, or
\* does nothing; the second time, it does nothing.
LEMMA Registration ==
  ASSUME Kept, NEW a \in Address, NEW o \in Nat
  PROVE  LET h == RegisterOperation(History, o, a) IN
         /\ RegisterOperation(h, o, a) = h
         /\ h.records \in Seq(Record) /\ h.lookup \in [Address -> Nat]
         /\ DOMAIN records \subseteq DOMAIN h.records
         /\ \A r \in DOMAIN records : h.records[r] = records[r]
         /\ \A r \in DOMAIN h.records \ DOMAIN records :
              h.records[r] = [op |-> o, state |-> "Running"] /\ h.lookup[a] = r
         /\ h.lookup[a] # 0 /\ (h.lookup[a] \in DOMAIN h.records \/ h.lookup[a] = lookup[a])
         /\ \A b \in Address : b # a \/ lookup[a] # 0 => h.lookup[b] = lookup[b]
<1> DEFINE h == RegisterOperation(History, o, a)
           n == Len(records)
           e == [op |-> o, state |-> "Running"]
<1>1. /\ records \in Seq(Record) /\ lookup \in [Address -> Nat]
      /\ n \in Nat /\ DOMAIN records = 1..n
  BY LenProperties DEF Kept, TypeHistory
<1>2. CASE lookup[a] # 0
  <2>1. h = History /\ h.records = records /\ h.lookup = lookup
    BY <1>2 DEF RegisterOperation, History
  <2>2. RegisterOperation(h, o, a) = h
    BY <1>2, <2>1 DEF RegisterOperation
  <2> HIDE DEF h
  <2>3. QED
    BY <1>1, <1>2, <2>1, <2>2 DEF h
<1>3. CASE lookup[a] = 0
  <2>1. h = [records |-> Append(records, e), lookup |-> [lookup EXCEPT ![a] = n + 1]]
    BY <1>3 DEF RegisterOperation, History
  <2>2. h.records = Append(records, e) /\ h.lookup = [lookup EXCEPT ![a] = n + 1]
    BY <2>1
  <2>3. e \in Record
    BY DEF Record, OpStates
  <2> HIDE DEF h, e
  <2>4. /\ h.records \in Seq(Record) /\ Len(h.records) = n + 1
        /\ \A r \in 1..n : h.records[r] = records[r]
        /\ h.records[n + 1] = e
    BY <1>1, <2>2, <2>3, AppendProperties
  <2>5. DOMAIN h.records = 1..(n + 1)
    BY <2>4, LenProperties
  <2>6. h.lookup \in [Address -> Nat] /\ h.lookup[a] = n + 1
        /\ \A b \in Address : b # a => h.lookup[b] = lookup[b]
    BY <1>1, <2>2
  <2>7. RegisterOperation(h, o, a) = h
    BY <1>1, <2>6 DEF RegisterOperation
  <2>8. \A r \in 1..(n + 1) : r \in 1..n \/ r = n + 1
    BY <1>1
  <2>9. n + 1 \in 1..(n + 1) /\ 1..n \subseteq 1..(n + 1) /\ n + 1 # 0
    BY <1>1
  <2>10. QED
    BY <1>1, <1>3, <2>4, <2>5, <2>6, <2>7, <2>8, <2>9 DEF h, e
<1>4. QED
  BY <1>2, <1>3

\* An operation is constructed and registers itself; it has a thread, or its record
\* shows its state.
LEMMA ConstructKeeps ==
  ASSUME IInv, NEW a \in Address, Free(a), NEW e \in Op, e.at = a, e.step # "deleted",
         NEW h, h = RegisterOperation(History, Len(ops) + 1, a),
         ops' = Append(ops, e), UNCHANGED cancelVars,
         lookup' = h.lookup, DOMAIN records' = DOMAIN h.records,
         records' \in Seq(Record),
         \A r \in DOMAIN h.records :
           records'[r] = IF h.records[r].op = Len(ops) + 1
                         THEN [op |-> Len(ops) + 1, state |-> e.state] ELSE h.records[r],
         TypeTasks', SameSignals,
         \A t \in Task : \/ matched'[t] = matched[t]
                         \/ /\ matched'[t] = Len(ops) + 1
                            /\ e.task = t /\ e.step = "none" /\ e.state = "Running"
  PROVE  IInv'
<1> USE DEF IInv
<1> DEFINE o == Len(ops) + 1
<1>1. /\ ops \in Seq(Op) /\ Len(ops) \in Nat /\ DOMAIN ops = 1..Len(ops)
      /\ DOMAIN records = 1..Len(records) /\ lookup \in [Address -> Nat]
  BY LenProperties DEF Kept, TypeHistory
<1>2. o \in Nat /\ o \notin DOMAIN ops
  BY <1>1
<1>3. /\ ops' \in Seq(Op) /\ DOMAIN ops' = DOMAIN ops \cup {o}
      /\ ops'[o] = e /\ \A p \in DOMAIN ops : ops'[p] = ops[p]
  <2>1. /\ ops' \in Seq(Op) /\ Len(ops') = o /\ ops'[o] = e
        /\ \A p \in 1..Len(ops) : ops'[p] = ops[p]
    BY <1>1, AppendProperties
  <2>2. DOMAIN ops' = 1..o
    BY <2>1, LenProperties
  <2>3. 1..o = (1..Len(ops)) \cup {o}
    BY <1>1
  <2>4. QED
    BY <1>1, <2>1, <2>2, <2>3
<1>4. \A r \in DOMAIN records : records[r].op \in DOMAIN ops /\ records[r].op # o
  BY <1>2 DEF Kept, Linked
<1>5. /\ h.lookup \in [Address -> Nat]
      /\ DOMAIN records \subseteq DOMAIN h.records
      /\ \A r \in DOMAIN records : h.records[r] = records[r]
      /\ \A r \in DOMAIN h.records \ DOMAIN records :
           h.records[r] = [op |-> o, state |-> "Running"] /\ h.lookup[a] = r
      /\ h.lookup[a] # 0 /\ (h.lookup[a] \in DOMAIN h.records \/ h.lookup[a] = lookup[a])
      /\ \A b \in Address : b # a \/ lookup[a] # 0 => h.lookup[b] = lookup[b]
  BY <1>2, Registration
<1> HIDE DEF o
<1>6. /\ DOMAIN records \subseteq DOMAIN records'
      /\ \A r \in DOMAIN records : records'[r] = records[r]
      /\ \A r \in DOMAIN records' \ DOMAIN records :
           records'[r] = [op |-> o, state |-> e.state] /\ lookup'[a] = r
  BY <1>4, <1>5 DEF o
<1>7. \A p \in DOMAIN ops : Lives(p) => ops[p].at # a
  BY FreeIsFree
<1>8. TypeHistory'
  BY <1>3, <1>5 DEF TypeHistory
<1>9. Linked'
  <2>1. ASSUME NEW r \in DOMAIN records' PROVE records'[r].op \in DOMAIN ops'
    BY <1>3, <1>4, <1>6
  <2>2. ASSUME NEW b \in Address, lookup'[b] # 0 PROVE lookup'[b] \in DOMAIN records'
    BY <1>5, <1>6, <2>2 DEF Kept, Linked
  <2>3. QED
    BY <2>1, <2>2 DEF Linked
<1>10. Apart'
  BY <1>2, <1>3, <1>7 DEF Kept, Apart, Lives
<1>11. RecordIsFound'
  <2> SUFFICES ASSUME NEW r \in DOMAIN records', records'[r].state # "deleted",
                      ops'[records'[r].op].step # "deleted"
               PROVE  lookup'[ops'[records'[r].op].at] = r
    BY DEF RecordIsFound
  <2>1. CASE r \in DOMAIN records
    <3>1. records'[r] = records[r] /\ ops'[records[r].op] = ops[records[r].op]
      BY <1>3, <1>4, <1>6, <2>1
    <3>2. lookup[ops[records[r].op].at] = r /\ ops[records[r].op].at # a
      BY <1>4, <1>7, <2>1, <3>1 DEF Kept, RecordIsFound, Lives
    <3>3. ops[records[r].op] \in Op
      BY <1>1, <1>4, <2>1, ElementOfSeq
    <3>4. ops[records[r].op].at \in Address
      BY <3>3 DEF Op
    <3>5. QED
      BY <1>5, <3>1, <3>2, <3>4
  <2>2. CASE r \notin DOMAIN records
    BY <1>3, <1>6, <2>2
  <2>3. QED
    BY <2>1, <2>2
<1>12. Cancels'
  BY <1>3 DEF Kept, Cancels, cancelVars
<1>13. Monitors'
  BY <1>2, <1>3 DEF Monitors, Meddling, o
<1>14. Signals'
  BY <1>3, <1>4, <1>6 DEF Signals, SameSignals, SameSignalsOf
<1>15. Recorded'
  <2> SUFFICES ASSUME NEW r \in DOMAIN records', records'[r].state # "deleted"
               PROVE  \E s \in OpStates :
                        /\ WillShow(r, s)'
                        /\ \/ s = ops'[records'[r].op].state
                           \/ records'[r].op \in overtaken' /\ s \in Ended
    BY DEF Recorded
  <2>1. CASE r \in DOMAIN records
    <3>1. records'[r] = records[r] /\ ops'[records[r].op] = ops[records[r].op]
      BY <1>3, <1>4, <1>6, <2>1
    <3>2. \A s : WillShow(r, s)' <=> WillShow(r, s)
      BY <3>1, WillShowSame DEF SameSignals
    <3>3. QED
      BY <2>1, <3>1, <3>2 DEF Recorded, cancelVars
  <2>2. CASE r \notin DOMAIN records
    <3>1. SignalsOf(r)' = {}
      BY <2>2 DEF Signals, SameSignals, SameSignalsOf
    <3>2. records'[r].op = o /\ records'[r].state = e.state /\ ops'[o].state = e.state
      BY <1>3, <1>6, <2>2
    <3>3. WillShow(r, e.state)'
      BY <3>1, <3>2 DEF WillShow
    <3>4. e.state \in OpStates
      BY DEF Op
    <3>5. QED
      BY <3>2, <3>3, <3>4
  <2>3. QED
    BY <2>1, <2>2
<1>16. QED
  BY <1>8, <1>9, <1>10, <1>11, <1>12, <1>13, <1>14, <1>15 DEF Kept, SameSignals

\* A MeddlingAction ends with its task and is not tracked any more.
LEMMA CompleteKeeps ==
  ASSUME IInv, NEW t \in Task, matched[t] # 0, Complete(matched[t]),
         matched' = [matched EXCEPT ![t] = 0], TypeTasks', SameSignals, UNCHANGED cancelVars
  PROVE  IInv'
<1> USE DEF IInv
<1> DEFINE o == matched[t]
           e == [ops[o] EXCEPT !.state = "Completed"]
<1>1. /\ o \in DOMAIN ops /\ ops[o].step = "none" /\ ops[o].state = "Running" /\ ops[o].task = t
      /\ matched \in [Task -> Nat]
  BY DEF Monitors, Meddling, TypeTasks
<1> HIDE DEF o
<1>2. ops[o] \in Op
  BY <1>1, LenProperties, ElementOfSeq DEF Kept, TypeHistory
<1>3. e \in Op /\ e.state = "Completed" /\ e.step = "none" /\ e.at = ops[o].at /\ e.task = t
  BY <1>1, <1>2 DEF Op, OpStates, Ended
<1>4. /\ ops' \in Seq(Op) /\ DOMAIN ops' = DOMAIN ops
      /\ \A p \in DOMAIN ops : ops'[p] = IF p = o THEN e ELSE ops[p]
  <2>1. DOMAIN ops = 1..Len(ops)
    BY LenProperties DEF Kept, TypeHistory
  <2>2. ops' = [ops EXCEPT ![o] = e]
    BY DEF Complete, o
  <2> HIDE DEF e
  <2>3. QED
    BY <1>1, <1>3, <2>1, <2>2, ExceptSeq DEF Kept, TypeHistory
<1> HIDE DEF e
<1>5. /\ records' \in Seq(Record) /\ DOMAIN records' = DOMAIN records /\ lookup' = lookup
      /\ \A r \in DOMAIN records : /\ records'[r].op = records[r].op
                                   /\ r \in RecordOf(o) => records'[r].state = "Completed"
                                   /\ r \notin RecordOf(o) => records'[r] = records[r]
  <2>1. \A r \in DOMAIN records : records[r] \in Record
    BY LenProperties, ElementOfSeq DEF Kept, TypeHistory
  <2>2. \A d \in Record : /\ [d EXCEPT !.state = "Completed"] \in Record
                          /\ [d EXCEPT !.state = "Completed"].op = d.op
                          /\ [d EXCEPT !.state = "Completed"].state = "Completed"
    BY DEF Record, OpStates, Ended
  <2>3. records' \in [DOMAIN records -> Record]
    BY <2>1, <2>2 DEF Complete, o
  <2>4. records' \in Seq(Record) /\ DOMAIN records' = DOMAIN records
    BY <2>3, MappedSeq DEF Kept, TypeHistory
  <2>5. QED
    BY <2>1, <2>2, <2>4 DEF Complete, o
<1>6. \A r \in DOMAIN records : records[r].op \in DOMAIN ops /\ r \in Nat
  BY LenProperties DEF Kept, Linked, TypeHistory
<1>7. \A r \in DOMAIN records : records'[r].state = "deleted" <=> records[r].state = "deleted"
  BY <1>5 DEF RecordOf
<1>8. TypeHistory' /\ Linked' /\ Cancels'
  BY <1>1, <1>3, <1>4, <1>5 DEF Kept, TypeHistory, Linked, Cancels, cancelVars
<1>9. Apart' /\ RecordIsFound'
  <2>1. \A p \in DOMAIN ops : ops'[p].step = ops[p].step /\ ops'[p].at = ops[p].at
    BY <1>1, <1>3, <1>4
  <2>2. Apart'
    BY <1>4, <2>1 DEF Kept, Apart, Lives
  <2>3. RecordIsFound'
    BY <1>5, <1>6, <1>7, <2>1 DEF Kept, RecordIsFound
  <2>4. QED
    BY <2>2, <2>3
<1>10. Monitors'
  <2> SUFFICES ASSUME NEW u \in Task, matched'[u] # 0
               PROVE  /\ matched'[u] \in Meddling'
                      /\ ops'[matched'[u]].state = "Running" /\ ops'[matched'[u]].task = u
    BY DEF Monitors
  <2>1. u # t /\ matched'[u] = matched[u]
    BY <1>1
  <2>2. matched[u] \in Meddling /\ ops[matched[u]].state = "Running" /\ ops[matched[u]].task = u
    BY <2>1 DEF Monitors
  <2>3. matched[u] # o
    BY <1>1, <2>1, <2>2
  <2>4. QED
    BY <1>4, <2>1, <2>2, <2>3 DEF Meddling
<1>11. Signals'
  <2>1. \A p \in DOMAIN ops : ops'[p].step = ops[p].step
    BY <1>1, <1>3, <1>4
  <2>2. QED
    BY <1>5, <1>6, <2>1 DEF Signals, SameSignals, SameSignalsOf
<1>12. Recorded'
  <2> SUFFICES ASSUME NEW r \in DOMAIN records, records[r].state # "deleted"
               PROVE  \E s \in OpStates :
                        /\ WillShow(r, s)'
                        /\ \/ s = ops'[records[r].op].state
                           \/ records[r].op \in overtaken' /\ s \in Ended
    BY <1>5, <1>7 DEF Recorded
  <2>1. CASE records[r].op = o
    <3>1. r \in RecordOf(o) /\ ops'[o].state = "Completed" /\ "Completed" \in OpStates
      BY <1>1, <1>3, <1>4, <2>1 DEF RecordOf, OpStates, Ended
    <3>2. SignalsOf(r)' = {}
      BY <1>1, <2>1 DEF Signals, SameSignals, SameSignalsOf
    <3>3. WillShow(r, "Completed")'
      BY <1>5, <3>1, <3>2 DEF WillShow
    <3>4. QED
      BY <2>1, <3>1, <3>3
  <2>2. CASE records[r].op # o
    <3>1. ops'[records[r].op] = ops[records[r].op] /\ records'[r] = records[r]
      BY <1>4, <1>5, <1>6, <2>2 DEF RecordOf
    <3>2. \A s : WillShow(r, s)' <=> WillShow(r, s)
      BY <3>1, WillShowSame DEF SameSignals
    <3>3. QED
      BY <3>1, <3>2 DEF Recorded, cancelVars
  <2>3. QED
    BY <2>1, <2>2
<1>13. QED
  BY <1>8, <1>9, <1>10, <1>11, <1>12 DEF Kept, SameSignals

\* Records are removed: only the addresses of theirs are forgotten.
LEMMA RemoveKeeps ==
  ASSUME IInv, NEW rs \in SUBSET DOMAIN records, RemoveRecords(rs), TypeTasks', SameSignals,
         UNCHANGED <<matched, cancelVars>>
  PROVE  IInv'
<1> USE DEF IInv
<1>1. /\ records' \in Seq(Record) /\ DOMAIN records' = DOMAIN records /\ ops' = ops
      /\ \A r \in DOMAIN records : /\ records'[r].op = records[r].op
                                   /\ r \in rs => records'[r].state = "deleted"
                                   /\ r \notin rs => records'[r] = records[r]
  <2>1. \A r \in DOMAIN records : records[r] \in Record
    BY LenProperties, ElementOfSeq DEF Kept, TypeHistory
  <2>2. \A d \in Record : /\ [d EXCEPT !.state = "deleted"] \in Record
                          /\ [d EXCEPT !.state = "deleted"].op = d.op
                          /\ [d EXCEPT !.state = "deleted"].state = "deleted"
    BY DEF Record
  <2>3. records' \in [DOMAIN records -> Record]
    BY <2>1, <2>2 DEF RemoveRecords
  <2>4. records' \in Seq(Record) /\ DOMAIN records' = DOMAIN records
    BY <2>3, MappedSeq DEF Kept, TypeHistory
  <2>5. QED
    BY <2>1, <2>2, <2>4 DEF RemoveRecords
<1>2. /\ lookup' \in [Address -> Nat]
      /\ \A a \in Address : lookup'[a] = 0 \/ lookup'[a] = lookup[a]
      /\ \A a \in Address : lookup[a] \notin rs => lookup'[a] = lookup[a]
  BY DEF RemoveRecords, Kept, TypeHistory
<1>3. \A r \in DOMAIN records : records[r].op \in DOMAIN ops /\ r \in Nat
  BY LenProperties DEF Kept, Linked, TypeHistory
<1>4. \A p \in DOMAIN ops : ops[p].at \in Address
  <2>1. \A p \in DOMAIN ops : ops[p] \in Op
    BY LenProperties, ElementOfSeq DEF Kept, TypeHistory
  <2>2. QED
    BY <2>1 DEF Op
<1>5. TypeHistory' /\ Linked' /\ Cancels' /\ Apart'
  BY <1>1, <1>2 DEF Kept, TypeHistory, Linked, Cancels, Apart, Lives, cancelVars
<1>6. RecordIsFound'
  BY <1>1, <1>2, <1>3, <1>4 DEF Kept, RecordIsFound
<1>7. Monitors'
  BY <1>1 DEF Monitors, Meddling
<1>8. Signals'
  BY <1>1 DEF Signals, SameSignals, SameSignalsOf
<1>9. Recorded'
  <2> SUFFICES ASSUME NEW r \in DOMAIN records, records'[r].state # "deleted"
               PROVE  \E s \in OpStates :
                        /\ WillShow(r, s)'
                        /\ \/ s = ops[records[r].op].state
                           \/ records[r].op \in overtaken' /\ s \in Ended
    BY <1>1 DEF Recorded
  <2>1. records'[r] = records[r]
    BY <1>1
  <2>2. \A s : WillShow(r, s)' <=> WillShow(r, s)
    BY <2>1, WillShowSame DEF SameSignals
  <2>3. QED
    BY <2>1, <2>2 DEF Recorded, cancelVars
<1>10. QED
  BY <1>5, <1>6, <1>7, <1>8, <1>9 DEF Kept, SameSignals

\* A signal is handled: its record, if it is still kept, shows what the signal says.
LEMMA UpdateRecordKeeps ==
  ASSUME IInv, UpdateRecord
  PROVE  IInv'
<1> USE DEF IInv
<1> DEFINE m == Head(mainq)
<1>0. PICK q : q = m.record
  OBVIOUS
<1>1. UNCHANGED <<ops, lookup, todo, serverVars, matched, unmatched, again, cancelVars>>
  BY DEF UpdateRecord, taskVars
<1>2. mainq # <<>> /\ mainq' = Tail(mainq) /\ m.kind = "state"
  BY DEF UpdateRecord, Takes
<1>3. m \in StateMsg /\ TypeQueue'
  BY <1>2, PostedAfter DEF Msg, TaskMsg
<1>4. /\ q \in DOMAIN records /\ m.state \in Ended
      /\ \A r : r # q => SameSignalsOf(r)
      /\ SignalsOf(q)' = {} => \A s : LastSays(q, s) <=> s = m.state
      /\ SignalsOf(q) # {} /\ (SignalsOf(q)' # {} => \A s : LastSays(q, s)' <=> LastSays(q, s))
  <2>1. \A r : r # q => SameSignalsOf(r)
    BY <1>0, <1>2, SignalsTaken
  <2>2. /\ SignalsOf(q) # {}
        /\ SignalsOf(q)' = {} => \A s : LastSays(q, s) <=> s = m.state
        /\ SignalsOf(q)' # {} => \A s : LastSays(q, s)' <=> LastSays(q, s)
    BY <1>0, <1>2, SignalsTaken
  <2>3. q \in DOMAIN records /\ m.state \in Ended
    BY <1>0, <1>3, <2>2 DEF Signals, StateMsg
  <2>4. QED
    BY <2>1, <2>2, <2>3
<1>5. records' = IF records[q].state = "deleted" THEN records
                 ELSE [records EXCEPT ![q].state = m.state]
  BY <1>0 DEF UpdateRecord
<1> HIDE DEF m
<1>6. records[q] \in Record
  BY <1>4, LenProperties, ElementOfSeq DEF Kept, TypeHistory
<1> DEFINE e == IF records[q].state = "deleted" THEN records[q]
                ELSE [records[q] EXCEPT !.state = m.state]
<1>7. /\ e \in Record /\ e.op = records[q].op
      /\ e.state = "deleted" <=> records[q].state = "deleted"
      /\ e.state # "deleted" => e.state = m.state
  BY <1>4, <1>6 DEF Record, OpStates, Ended
<1>8. /\ records' \in Seq(Record) /\ DOMAIN records' = DOMAIN records
      /\ \A r \in DOMAIN records : records'[r] = IF r = q THEN e ELSE records[r]
  <2>1. DOMAIN records = 1..Len(records) /\ records \in Seq(Record)
    BY LenProperties DEF Kept, TypeHistory
  <2>2. CASE records[q].state = "deleted"
    BY <1>4, <1>5, <2>1, <2>2
  <2>3. CASE records[q].state # "deleted"
    <3>1. records' = [records EXCEPT ![q] = e]
      BY <1>5, <2>3
    <3> HIDE DEF e
    <3>2. QED
      BY <1>4, <1>7, <2>1, <3>1, ExceptSeq
  <2>4. QED
    BY <2>2, <2>3
<1> HIDE DEF e
<1>9. \A r \in DOMAIN records : /\ records'[r].op = records[r].op
                                /\ records'[r].state = "deleted" <=> records[r].state = "deleted"
  BY <1>7, <1>8
<1>10. \A r \in DOMAIN records : records[r].op \in DOMAIN ops /\ r \in Nat
  BY LenProperties DEF Kept, Linked, TypeHistory
<1>11. TypeHistory' /\ Linked' /\ Cancels' /\ Apart'
  BY <1>1, <1>8, <1>9 DEF Kept, TypeHistory, Linked, Cancels, Apart, Lives, cancelVars
<1>12. RecordIsFound'
  BY <1>1, <1>8, <1>9 DEF Kept, RecordIsFound
<1>13. TypeTasks' /\ Monitors'
  BY <1>1 DEF TypeTasks, Monitors, Meddling, serverVars
<1>14. Signals'
  BY <1>1, <1>4, <1>8, <1>9 DEF Signals, SameSignalsOf
<1>15. Recorded'
  <2> SUFFICES ASSUME NEW r \in DOMAIN records, records'[r].state # "deleted"
               PROVE  \E s \in OpStates :
                        /\ WillShow(r, s)'
                        /\ \/ s = ops[records[r].op].state
                           \/ records[r].op \in overtaken' /\ s \in Ended
    BY <1>1, <1>8, <1>9 DEF Recorded
  <2>1. PICK s \in OpStates :
          /\ WillShow(r, s)
          /\ \/ s = ops[records[r].op].state
             \/ records[r].op \in overtaken /\ s \in Ended
    BY <1>9 DEF Recorded
  <2>2. CASE r = q
    <3>1. LastSays(q, s)
      BY <1>4, <2>1, <2>2 DEF WillShow, LastSays
    <3>2. CASE SignalsOf(q)' = {}
      <4>1. records'[q].state = s
        BY <1>4, <1>7, <1>8, <2>2, <3>1, <3>2
      <4>2. WillShow(q, s)'
        BY <3>2, <4>1 DEF WillShow
      <4>3. QED
        BY <1>1, <2>1, <2>2, <4>2 DEF cancelVars
    <3>3. CASE SignalsOf(q)' # {}
      <4>1. LastSays(q, s)'
        BY <1>4, <3>1, <3>3
      <4>2. WillShow(q, s)'
        BY <3>3, <4>1 DEF WillShow, LastSays
      <4>3. QED
        BY <1>1, <2>1, <2>2, <4>2 DEF cancelVars
    <3>4. QED
      BY <3>2, <3>3
  <2>3. CASE r # q
    <3>1. SameSignalsOf(r) /\ records'[r] = records[r]
      BY <1>4, <1>8, <2>3
    <3>2. WillShow(r, s)'
      BY <2>1, <3>1, WillShowSame
    <3>3. QED
      BY <1>1, <2>1, <3>2 DEF cancelVars
  <2>4. QED
    BY <2>2, <2>3
<1>16. QED
  BY <1>3, <1>11, <1>12, <1>13, <1>14, <1>15 DEF Kept

---------------------------------------------------------------------------------
\* A task of another client is looked at: it waits, or gets a MeddlingAction.
LEMMA CategorizeKeeps ==
  ASSUME IInv, NEW data \in Data, NEW u \in SUBSET Task, Categorize(data, u),
         UNCHANGED <<serverVars, cancelVars>>, todo' \in SUBSET Data, again' \in SUBSET Task,
         SameSignals
  PROVE  IInv'
<1> DEFINE t == data.task
           o == Len(ops) + 1
<1>1. t \in Task /\ data.ended \in BOOLEAN /\ data.tag \in Nat
  BY DEF Data
<1>2. Len(ops) \in Nat /\ o \in Nat
  BY LenProperties DEF IInv, Kept, TypeHistory
<1>3. unmatched' \in SUBSET Task
  BY <1>1 DEF Categorize
<1>4. CASE UNCHANGED <<historyVars, matched>>
  <2>1. TypeTasks'
    BY <1>3, <1>4 DEF IInv, TypeTasks, serverVars
  <2>2. QED
    BY <1>4, <2>1, QuietKeeps DEF cancelVars
<1>5. CASE ~UNCHANGED <<historyVars, matched>>
  <2> DEFINE state == IF data.ended THEN "Completed" ELSE "Running"
  <2>1. PICK a \in Address :
          LET h == RegisterOperation(RegisterOperation(History, o, a), o, a)
          IN  /\ Free(a)
              /\ ops' = Append(ops, [task |-> t, step |-> "none", state |-> state, at |-> a,
                                     uuid |-> IF h = History THEN 0 ELSE o, from |-> data.tag])
              /\ records' = [r \in DOMAIN h.records |->
                              IF h.records[r].op = o THEN [op |-> o, state |-> state]
                              ELSE h.records[r]]
              /\ lookup' = h.lookup
    BY <1>5 DEF Categorize
  <2> DEFINE h == RegisterOperation(History, o, a)
             e == [task |-> t, step |-> "none", state |-> state, at |-> a,
                   uuid |-> IF h = History THEN 0 ELSE o, from |-> data.tag]
  <2>2. RegisterOperation(h, o, a) = h /\ h.records \in Seq(Record)
    BY <1>2, Registration DEF IInv
  <2>3. state \in OpStates /\ state # "deleted"
    BY DEF OpStates, Ended
  <2>4. /\ ops' = Append(ops, e) /\ lookup' = h.lookup
        /\ records' = [r \in DOMAIN h.records |->
                        IF h.records[r].op = o THEN [op |-> o, state |-> state] ELSE h.records[r]]
    BY <2>1, <2>2
  <2>5. matched' = IF data.ended THEN matched ELSE [matched EXCEPT ![t] = o]
    BY <1>5 DEF Categorize, Track
  <2>6. e \in Op /\ e.at = a /\ e.step = "none" /\ e.state = state /\ e.task = t
    BY <1>1, <1>2, <2>3 DEF Op
  <2>7. matched \in [Task -> Nat]
    BY DEF IInv, TypeTasks
  <2>8. \A v \in Task : \/ matched'[v] = matched[v]
                        \/ /\ matched'[v] = o
                           /\ e.task = v /\ e.step = "none" /\ e.state = "Running"
    BY <1>1, <2>5, <2>6, <2>7
  <2>9. TypeTasks'
    <3>1. matched' \in [Task -> Nat]
      BY <1>1, <1>2, <2>5, <2>7
    <3>2. QED
      BY <1>3, <3>1 DEF IInv, TypeTasks, serverVars
  <2>10. \A r \in DOMAIN h.records : h.records[r] \in Record
    BY <2>2, LenProperties, ElementOfSeq
  <2> HIDE DEF h, e, state
  <2>11. records' \in [DOMAIN h.records -> Record]
    BY <1>2, <2>3, <2>4, <2>10 DEF Record
  <2>12. records' \in Seq(Record) /\ DOMAIN records' = DOMAIN h.records
    BY <2>2, <2>11, MappedSeq
  <2>13. \A r \in DOMAIN h.records :
           records'[r] = IF h.records[r].op = o THEN [op |-> o, state |-> e.state] ELSE h.records[r]
    BY <2>4, <2>6
  <2>14. e.step # "deleted" /\ Free(a)
    BY <2>1, <2>6
  <2>15. h = RegisterOperation(History, Len(ops) + 1, a)
    BY DEF h
  <2>16. QED
    BY <2>4, <2>6, <2>8, <2>9, <2>12, <2>13, <2>14, <2>15, ConstructKeeps
<1>6. QED
  BY <1>4, <1>5

\* A command makes an operation.
LEMMA RunOperationKeeps ==
  ASSUME IInv, NEW t \in Task, RunOperation(t)
  PROVE  IInv'
<1> DEFINE o == Len(ops) + 1
<1>1. Len(ops) \in Nat /\ o \in Nat
  BY LenProperties DEF IInv, Kept, TypeHistory
<1>2. PICK a \in Address :
        LET h == RegisterOperation(History, o, a)
        IN  /\ Free(a)
            /\ ops' = Append(ops, [task |-> t, step |-> "start", state |-> "Running", at |-> a,
                                   uuid |-> IF h = History THEN 0 ELSE o, from |-> 0])
            /\ records' = h.records
            /\ lookup' = h.lookup
  BY DEF RunOperation
<1> DEFINE h == RegisterOperation(History, o, a)
           e == [task |-> t, step |-> "start", state |-> "Running", at |-> a,
                 uuid |-> IF h = History THEN 0 ELSE o, from |-> 0]
<1>3. /\ ops' = Append(ops, e) /\ lookup' = h.lookup /\ records' = h.records /\ Free(a)
  BY <1>2
<1>4. /\ h.records \in Seq(Record) /\ \A r \in DOMAIN records : h.records[r] = records[r]
      /\ \A r \in DOMAIN h.records \ DOMAIN records : h.records[r] = [op |-> o, state |-> "Running"]
  BY <1>1, Registration DEF IInv
<1>5. e \in Op /\ e.at = a /\ e.step = "start" /\ e.state = "Running"
  BY <1>1 DEF Op, OpStates, InThread
<1>6. \A r \in DOMAIN records : records[r].op # o
  <2>1. DOMAIN ops = 1..Len(ops)
    BY LenProperties DEF IInv, Kept, TypeHistory
  <2>2. QED
    BY <1>1, <2>1 DEF IInv, Kept, Linked
<1> HIDE DEF h, e
<1>7. \A r \in DOMAIN h.records :
        records'[r] = IF h.records[r].op = o THEN [op |-> o, state |-> e.state] ELSE h.records[r]
  BY <1>3, <1>4, <1>5, <1>6
<1>8. TypeTasks' /\ UNCHANGED <<matched, cancelVars>>
  BY DEF RunOperation, IInv, TypeTasks, serverVars, taskVars
<1>9. SameSignals
  BY UntoldKeeps DEF RunOperation, IInv
<1>10. e.step # "deleted"
  BY <1>5
<1>11. h = RegisterOperation(History, Len(ops) + 1, a)
  BY DEF h
<1>12. QED
  BY <1>3, <1>4, <1>5, <1>7, <1>8, <1>9, <1>10, <1>11, ConstructKeeps

\* The server's tasks.
LEMMA ServerKeeps ==
  ASSUME IInv, NEW t \in Task, TaskBegins(t) \/ TaskGetsOld(t) \/ TaskEnds(t) \/ TaskGone(t)
  PROVE  IInv'
<1> USE DEF IInv
<1>1. UNCHANGED <<historyVars, matched, unmatched, again, todo, tag, cancelVars>>
  BY DEF TaskBegins, TaskGetsOld, TaskEnds, TaskGone, taskVars
<1>2. TypeTasks'
  <2>1. server' \in [Task -> {"none", "pending", "ended", "gone"}] /\ old' \subseteq Task
    BY DEF TaskBegins, TaskGetsOld, TaskEnds, TaskGone, TypeTasks
  <2>2. QED
    BY <1>1, <2>1 DEF TypeTasks
<1>3. SameSignals
  <2>1. CASE mainq' = mainq
    BY <2>1, UntoldKeeps
  <2>2. CASE TaskBegins(t)
    BY <2>2, DataTyped, TellKeeps DEF TaskBegins
  <2>3. CASE TaskGetsOld(t)
    BY <2>1, <2>3, DataTyped, TellKeeps DEF TaskGetsOld
  <2>4. CASE TaskEnds(t)
    BY <2>4, DataTyped, TellKeeps DEF TaskEnds
  <2>5. CASE TaskGone(t)
    BY <2>5, DataTyped, TellKeeps DEF TaskGone
  <2>6. QED
    BY <2>2, <2>3, <2>4, <2>5
<1>4. QED
  BY <1>1, <1>2, <1>3, QuietKeeps DEF cancelVars

\* The threads of own operations, and their deletion.
LEMMA WorkerKeeps ==
  ASSUME IInv, NEW o \in DOMAIN ops, Worker(o)
  PROVE  IInv'
<1>1. ops[o] \in Op
  BY LenProperties, ElementOfSeq DEF IInv, Kept, TypeHistory
<1>2. ops[o].task \in Task /\ ops[o].uuid \in Nat
  BY <1>1 DEF Op
<1> DEFINE t == ops[o].task
<1>3. TypeQueue /\ TypeTasks /\ tag \in [Task -> Nat]
      /\ server \in [Task -> {"none", "pending", "ended", "gone"}]
  BY DEF IInv, TypeTasks
<1>4. /\ Snapshot(t) \in Data /\ [task |-> t, ended |-> FALSE, tag |-> 0] \in Data
      /\ \A n \in Nat : [Snapshot(t) EXCEPT !.tag = n] \in Data
  BY <1>2, <1>3, DataTyped
<1>5. CASE StartTask(o)
  <2>1. SameSignals
    BY <1>2, <1>3, <1>4, <1>5, TellKeeps DEF StartTask
  <2>2. server' \in [Task -> {"none", "pending", "ended", "gone"}]
    BY <1>3, <1>5 DEF StartTask
  <2>3. TypeTasks'
    BY <1>3, <1>5, <2>2 DEF StartTask, TypeTasks, taskVars
  <2>4. QED
    BY <1>5, <2>1, <2>3, StepKeeps DEF StartTask, InThread, taskVars
<1>6. CASE TagTask(o)
  <2>1. SameSignals
    BY <1>2, <1>3, <1>4, <1>6, TellKeeps, UntoldKeeps DEF TagTask
  <2>2. tag' \in [Task -> Nat]
    BY <1>2, <1>3, <1>6 DEF TagTask
  <2>3. TypeTasks'
    BY <1>3, <1>6, <2>2 DEF TagTask, TypeTasks, taskVars
  <2>4. QED
    BY <1>6, <2>1, <2>3, StepKeeps DEF TagTask, InThread, taskVars
<1>7. CASE UntagTask(o)
  <2>1. SameSignals
    BY <1>2, <1>3, <1>4, <1>7, TellKeeps, UntoldKeeps DEF UntagTask
  <2>2. tag' \in [Task -> Nat]
    BY <1>2, <1>3, <1>7 DEF UntagTask
  <2>3. TypeTasks'
    BY <1>3, <1>7, <2>2 DEF UntagTask, TypeTasks, taskVars
  <2>4. QED
    BY <1>7, <2>1, <2>3, StepKeeps DEF UntagTask, InThread, taskVars
<1>8. CASE DestroyTask(o)
  <2>1. SameSignals
    BY <1>2, <1>3, <1>4, <1>8, TellKeeps, UntoldKeeps DEF DestroyTask
  <2>2. server' \in [Task -> {"none", "pending", "ended", "gone"}]
    BY <1>3, <1>8 DEF DestroyTask
  <2>3. TypeTasks'
    BY <1>3, <1>8, <2>2 DEF DestroyTask, TypeTasks, taskVars
  <2>4. QED
    BY <1>8, <2>1, <2>3, StepKeeps DEF DestroyTask, InThread, taskVars
<1>9. CASE PollTask(o)
  <2>1. PICK state \in {ops[o].state, "Cancelled", "Failed"} : SetState(o, state, "untag")
    BY <1>9 DEF PollTask
  <2>2. state \in OpStates /\ (state = ops[o].state \/ state \in Ended)
    BY <1>1 DEF Op, OpStates, Ended
  <2>3. ops[o].step \in InThread /\ "untag" \in InThread
    BY <1>9 DEF PollTask, InThread
  <2>4. TypeTasks' /\ UNCHANGED <<records, lookup, matched, cancelVars>>
    BY <1>3, <1>9 DEF PollTask, TypeTasks, taskVars, serverVars
  <2>5. QED
    BY <2>1, <2>2, <2>3, <2>4, SetStateKeeps
<1>10. CASE Finish(o)
  <2>1. PICK state \in (Ended \cap {ops[o].state}) \cup {"Completed", "Failed"} :
          SetState(o, state, "done")
    BY <1>10 DEF Finish
  <2>2. state \in OpStates /\ state \in Ended
    BY <1>1 DEF Op, OpStates, Ended
  <2>3. ops[o].step \in InThread
    BY <1>10 DEF Finish, InThread
  <2>4. TypeTasks' /\ UNCHANGED <<records, lookup, matched, cancelVars>>
    BY <1>3, <1>10 DEF Finish, TypeTasks, taskVars, serverVars
  <2>5. QED
    BY <2>1, <2>2, <2>3, <2>4, SetStateKeeps
<1>11. CASE Delete(o)
  <2>1. SameSignals
    BY <1>3, <1>11, UntoldKeeps DEF Delete
  <2>2. TypeTasks'
    BY <1>3, <1>11 DEF Delete, TypeTasks, taskVars, serverVars
  <2>3. QED
    BY <1>11, <2>1, <2>2, StepKeeps DEF Delete, Idle, taskVars
<1>12. QED
  BY <1>5, <1>6, <1>7, <1>8, <1>9, <1>10, <1>11 DEF Worker


---------------------------------------------------------------------------------
\* A task event that is taken is no signal, and its task and data are typed.
LEMMA TaskTaken ==
  ASSUME IInv, Takes("task"), mainq' = Tail(mainq)
  PROVE  Head(mainq).task \in Task /\ Head(mainq).data \in Data /\ SameSignals
<1>1. mainq # <<>> /\ Head(mainq).kind = "task"
  BY DEF Takes
<1>2. Head(mainq) \in Msg
  BY <1>1, PostedAfter DEF IInv
<1>3. Head(mainq) \in TaskMsg
  BY <1>1, <1>2 DEF Msg, StateMsg
<1>4. QED
  BY <1>1, <1>3, TakenKeeps DEF IInv, TaskMsg

\* The main thread handles an event of each sort.
LEMMA AddedKeeps ==
  ASSUME IInv, HandleTaskAdded
  PROVE  IInv'
<1> DEFINE event == Head(mainq)
<1>1. Takes("task") /\ mainq' = Tail(mainq) /\ UNCHANGED <<serverVars, todo, again, cancelVars>>
  BY DEF HandleTaskAdded
<1>2. event.data \in Data /\ SameSignals
  BY <1>1, TaskTaken
<1>3. TypeTasks /\ unmatched \in SUBSET Task /\ todo' \in SUBSET Data /\ again' \in SUBSET Task
  BY <1>1 DEF IInv, TypeTasks
<1>4. CASE UNCHANGED <<historyVars, matched, unmatched>>
  <2>1. TypeTasks'
    BY <1>1, <1>3, <1>4 DEF TypeTasks, serverVars
  <2>2. QED
    BY <1>1, <1>2, <1>4, <2>1, QuietKeeps DEF cancelVars
<1>5. CASE Categorize(event.data, unmatched)
  BY <1>1, <1>2, <1>3, <1>5, CategorizeKeeps
<1>6. QED
  BY <1>4, <1>5 DEF HandleTaskAdded

\* A task is not monitored any more: its operation, if there is one, is completed.
LEMMA UnmonitorKeeps ==
  ASSUME IInv, NEW t \in Task, matched' = [matched EXCEPT ![t] = 0],
         IF matched[t] # 0 THEN Complete(matched[t]) ELSE UNCHANGED historyVars,
         unmatched' \in SUBSET Task, UNCHANGED <<serverVars, todo, again, cancelVars>>, SameSignals
  PROVE  IInv'
<1>1. TypeTasks'
  BY DEF IInv, TypeTasks, serverVars
<1>2. CASE matched[t] # 0
  BY <1>1, <1>2, CompleteKeeps
<1>3. CASE matched[t] = 0
  <2>1. matched' = matched
    BY <1>3 DEF IInv, TypeTasks
  <2>2. QED
    BY <1>1, <1>3, <2>1, QuietKeeps DEF cancelVars
<1>4. QED
  BY <1>2, <1>3

LEMMA UpdatedKeeps ==
  ASSUME IInv, HandleTaskUpdated
  PROVE  IInv'
<1> DEFINE event == Head(mainq)
           t == event.task
<1>1. Takes("task") /\ mainq' = Tail(mainq) /\ UNCHANGED <<serverVars, todo, again, cancelVars>>
      /\ Updated(event, FALSE)
  BY DEF HandleTaskUpdated, TaskUpdate
<1>2. t \in Task /\ event.data \in Data /\ SameSignals
  BY <1>1, TaskTaken
<1>3. /\ TypeTasks /\ unmatched \in SUBSET Task /\ unmatched \ {t} \in SUBSET Task
      /\ todo' \in SUBSET Data /\ again' \in SUBSET Task
  BY <1>1 DEF IInv, TypeTasks
<1>4. CASE UNCHANGED <<historyVars, matched, unmatched>>
  <2>1. TypeTasks'
    BY <1>1, <1>3, <1>4 DEF TypeTasks, serverVars
  <2>2. QED
    BY <1>1, <1>2, <1>4, <2>1, QuietKeeps DEF cancelVars
<1>5. CASE Categorize(event.data, unmatched \ {t})
  BY <1>1, <1>2, <1>3, <1>5, CategorizeKeeps
<1>6. CASE /\ matched[t] # 0 /\ matched' = [matched EXCEPT ![t] = 0]
           /\ unmatched' = unmatched /\ Complete(matched[t])
  BY <1>1, <1>2, <1>3, <1>6, UnmonitorKeeps
<1>7. QED
  BY <1>1, <1>4, <1>5, <1>6 DEF Updated

LEMMA RemovedKeeps ==
  ASSUME IInv, HandleTaskRemoved
  PROVE  IInv'
<1> DEFINE t == Head(mainq).task
<1>1. /\ Takes("task") /\ mainq' = Tail(mainq) /\ UNCHANGED <<serverVars, todo, again, cancelVars>>
      /\ unmatched' = unmatched \ {t} /\ matched' = [matched EXCEPT ![t] = 0]
      /\ IF matched[t] # 0 THEN Complete(matched[t]) ELSE UNCHANGED historyVars
  BY DEF HandleTaskRemoved
<1>2. t \in Task /\ SameSignals
  BY <1>1, TaskTaken
<1>3. unmatched' \in SUBSET Task
  BY <1>1 DEF IInv, TypeTasks
<1>4. QED
  BY <1>1, <1>2, <1>3, UnmonitorKeeps

\* The session, the user and the rehydration.
LEMMA AllTaskRecordsTyped ==
  ASSUME TypeTasks
  PROVE  AllTaskRecords \in SUBSET Data
  BY DataTyped DEF AllTaskRecords

LEMMA SessionKeeps ==
  ASSUME IInv, Connect \/ Disconnect \/ HandleConnected
  PROVE  IInv'
<1>1. UNCHANGED <<historyVars, taskVars, serverVars, cancelVars>>
  BY DEF Connect, Disconnect, HandleConnected
<1>2. todo' \in SUBSET Data
  BY AllTaskRecordsTyped DEF IInv, TypeTasks, Connect, Disconnect, HandleConnected
<1>3. TypeTasks'
  BY <1>1, <1>2 DEF IInv, TypeTasks, serverVars, taskVars
<1>4. SameSignals
  <2>1. CASE Connect
    <3>1. [kind |-> "connected"] \in Msg
      BY DEF Msg
    <3>2. [kind |-> "connected"].kind # "state"
      OBVIOUS
    <3>3. mainq' = Append(mainq, [kind |-> "connected"])
      BY <2>1 DEF Connect
    <3>4. QED
      BY <3>1, <3>2, <3>3, AppendKeeps DEF IInv
  <2>2. CASE Disconnect
    BY <2>2, UntoldKeeps DEF IInv, Disconnect
  <2>3. CASE HandleConnected
    BY <2>3, TakenKeeps DEF IInv, HandleConnected, Takes
  <2>4. QED
    BY <2>1, <2>2, <2>3
<1>5. QED
  BY <1>1, <1>3, <1>4, QuietKeeps DEF taskVars, cancelVars

LEMMA RehydrateKeeps ==
  ASSUME IInv, RehydrateTask
  PROVE  IInv'
<1>1. PICK data \in todo :
        /\ todo' = todo \ {data}
        /\ again' = IF FoundAgain(data.task) THEN again \cup {data.task} ELSE again
        /\ Categorize(data, unmatched)
        /\ UNCHANGED <<serverVars, userVars, mainq, cancelVars>>
  BY DEF RehydrateTask
<1>2. data \in Data /\ todo' \in SUBSET Data /\ unmatched \in SUBSET Task
  BY <1>1 DEF IInv, TypeTasks
<1>3. again' \in SUBSET Task
  BY <1>1, <1>2 DEF IInv, TypeTasks, Data
<1>4. SameSignals
  BY <1>1, UntoldKeeps DEF IInv
<1>5. QED
  BY <1>1, <1>2, <1>3, <1>4, CategorizeKeeps

LEMMA UserKeeps ==
  ASSUME IInv, Dismiss \/ ToggleShowAll
  PROVE  IInv'
<1>1. UNCHANGED <<serverVars, mainq, taskVars, cancelVars>>
  BY DEF Dismiss, ToggleShowAll
<1>2. todo' \in SUBSET Data
  BY AllTaskRecordsTyped DEF IInv, TypeTasks, Dismiss, ToggleShowAll
<1>3. TypeTasks' /\ matched' = matched
  BY <1>1, <1>2 DEF IInv, TypeTasks, serverVars, taskVars
<1>4. SameSignals
  BY <1>1, UntoldKeeps DEF IInv
<1>5. (\E rs \in SUBSET DOMAIN records : RemoveRecords(rs)) \/ UNCHANGED historyVars
  <2>1. CASE Dismiss
    <3>1. PICK r \in DOMAIN records : RemoveRecords({r})
      BY <2>1 DEF Dismiss
    <3>2. {r} \in SUBSET DOMAIN records
      OBVIOUS
    <3>3. QED
      BY <3>1, <3>2
  <2>2. CASE ToggleShowAll
    <3> DEFINE rs == {r \in DOMAIN records : /\ records[r].state # "deleted"
                                             /\ ops[records[r].op].step = "none"
                                             /\ ops[records[r].op].task \notin Recognized}
    <3>1. RemoveRecords(rs) \/ UNCHANGED historyVars
      BY <2>2 DEF ToggleShowAll
    <3>2. rs \in SUBSET DOMAIN records
      OBVIOUS
    <3> HIDE DEF rs
    <3>3. QED
      BY <3>1, <3>2
  <2>3. QED
    BY <2>1, <2>2
<1>6. QED
  BY <1>1, <1>3, <1>4, <1>5, QuietKeeps, RemoveKeeps DEF cancelVars

LEMMA CancelOperationKeeps ==
  ASSUME IInv, NEW o \in DOMAIN ops, CancelOperation(o)
  PROVE  IInv'
<1>1. UNCHANGED <<historyVars, mainq, matched, overtaken>> /\ cancelling' = o
      /\ ops[o].step \notin {"none", "deleted"}
  BY DEF CancelOperation, taskVars
<1>2. TypeTasks'
  BY DEF CancelOperation, IInv, TypeTasks, serverVars, taskVars
<1>3. SameSignals
  BY <1>1, UntoldKeeps DEF IInv
<1>4. QED
  BY <1>1, <1>2, <1>3, QuietKeeps

---------------------------------------------------------------------------------
\* The three facts of the invariant: it holds at first, every step keeps it, and what the
\* properties say follows.
LEMMA InitIInv == Init => IInv
<1> SUFFICES ASSUME Init PROVE IInv
  OBVIOUS
<1> USE DEF Init
<1>1. \A S : <<>> \in Seq(S)
  BY EmptySeq
<1>2. DOMAIN ops = {} /\ DOMAIN records = {} /\ DOMAIN mainq = {}
  OBVIOUS
<1>3. Kept
  BY <1>1, <1>2 DEF Kept, TypeHistory, Linked, Apart, RecordIsFound, Cancels
<1>4. TypeTasks /\ TypeQueue
  BY <1>1 DEF TypeTasks, TypeQueue
<1>5. Monitors /\ Signals /\ Recorded
  BY <1>2 DEF Monitors, Signals, SignalsOf, Recorded
<1>6. QED
  BY <1>3, <1>4, <1>5 DEF IInv

LEMMA NextIInv == IInv /\ [Next]_vars => IInv'
<1> SUFFICES ASSUME IInv, [Next]_vars PROVE IInv'
  OBVIOUS
<1>1. CASE \E t \in Task :
             TaskBegins(t) \/ TaskGetsOld(t) \/ TaskEnds(t) \/ TaskGone(t) \/ RunOperation(t)
  BY <1>1, ServerKeeps, RunOperationKeeps
<1>2. CASE \E o \in DOMAIN ops : Worker(o) \/ CancelOperation(o)
  BY <1>2, WorkerKeeps, CancelOperationKeeps
<1>3. CASE Connect \/ Disconnect
  BY <1>3, SessionKeeps
<1>4. CASE Dismiss \/ ToggleShowAll
  BY <1>4, UserKeeps
<1>5. CASE MainThread
  BY <1>5, AddedKeeps, UpdatedKeeps, RemovedKeeps, SessionKeeps, RehydrateKeeps,
     UpdateRecordKeeps, CancelSetsKeeps DEF MainThread
<1>6. CASE UNCHANGED vars
  <2>1. TypeTasks' /\ UNCHANGED <<historyVars, matched, cancelVars>>
    BY <1>6 DEF vars, serverVars, taskVars, IInv, TypeTasks
  <2>2. SameSignals
    BY <1>6, UntoldKeeps DEF vars, IInv
  <2>3. QED
    BY <2>1, <2>2, QuietKeeps DEF cancelVars
<1>7. QED
  BY <1>1, <1>2, <1>3, <1>4, <1>5, <1>6 DEF Next

LEMMA Invariance == SafeSpec => []IInv
  BY InitIInv, NextIInv, PTL DEF SafeSpec

LEMMA Consequences == IInv => TypeOK /\ RecordIsFound /\ EndIsRecorded
<1> SUFFICES ASSUME IInv PROVE TypeOK /\ RecordIsFound /\ EndIsRecorded
  OBVIOUS
<1> USE DEF IInv
<1>1. \A k \in DOMAIN mainq : mainq[k].kind = "state" => mainq[k].record \in DOMAIN records
  BY DEF Signals, SignalsOf
<1>2. matched \in [Task -> {0} \cup {o \in Meddling : ops[o].state = "Running"}]
  BY DEF TypeTasks, Monitors
<1>3. TypeOK
  BY <1>1, <1>2 DEF TypeOK, TypeTasks, Kept, TypeHistory, Linked
<1>4. EndIsRecorded
  BY DEF EndIsRecorded, Recorded
<1>5. QED
  BY <1>3, <1>4 DEF Kept

\* The types: what m_matchedTasks has for a task is a MeddlingAction that is running, what
\* m_lookup has for an address is a record, and a signal that is posted has its record.
THEOREM TypeCorrect == SafeSpec => []TypeOK
  BY Invariance, Consequences, PTL

\* RegisterOperation and RemoveRecord keep m_lookup true: whatever addresses the allocator
\* gives again, an operation that is alive has one record at most, and m_lookup has it.
THEOREM RecordIsAlwaysFound == SafeSpec => []RecordIsFound
  BY Invariance, Consequences, PTL

\* A record shows the state of its operation once all that is posted is handled, though the
\* operation and its record may be deleted in any order and the operation be cancelled while
\* it ends; where a Cancelled has overtaken what is posted it shows one end or another.
THEOREM EndIsAlwaysRecorded == SafeSpec => []EndIsRecorded
  BY Invariance, Consequences, PTL

---------------------------------------------------------------------------------
\* Who monitors task t, and the operation that has started it.
MonitorsOf(t) == {o \in Meddling : ops[o].task = t}
StartersOf(t) == {o \in DOMAIN ops : ops[o].step # "none" /\ ops[o].task = t}

IsTask(k) == mainq[k].kind = "task"
Adds(t) == {k \in DOMAIN mainq : IsTask(k) /\ mainq[k].sort = "add" /\ mainq[k].task = t}

\* Tasks of this program are started once, by an operation that is theirs.
Starters ==
  /\ \A t \in Task : \A o, p \in StartersOf(t) : o = p
  /\ \A o \in DOMAIN ops : ops[o].step # "none" =>
       /\ ops[o].task \in Own
       /\ ops[o].step = "start" => server[ops[o].task] = "none"
  /\ \A t \in Own : server[t] # "none" => StartersOf(t) # {}

\* A task is told of once to have begun; one that has not is unknown.
Told ==
  /\ \A k \in DOMAIN mainq : IsTask(k) => mainq[k].data.task = mainq[k].task
  /\ \A t \in Task : \A j, k \in Adds(t) : j = k

UnknownTask(t) ==
  server[t] = "none" =>
    Adds(t) = {} /\ MonitorsOf(t) = {} /\ t \notin unmatched /\ \A data \in todo : data.task # t
Unknown == \A t \in Task : UnknownTask(t)

\* Unless it was found again a task has one monitor, which it has not while it waits or
\* is about to be told of.
OnceTask(t) ==
  t \notin again =>
    /\ \A o, p \in MonitorsOf(t) : o = p
    /\ \A o \in MonitorsOf(t) : ops[o].state = "Running" <=> matched[t] = o
    /\ t \in unmatched => MonitorsOf(t) = {}
    /\ Adds(t) # {} => MonitorsOf(t) = {} /\ t \notin unmatched
Once == \A t \in Task : OnceTask(t)

OnceInv == Starters /\ Told /\ Unknown /\ Once

\* Task t has its monitors, and what is known of it is no more than before.
SameMonitors(t) ==
  /\ MonitorsOf(t)' = MonitorsOf(t)
  /\ \A o \in MonitorsOf(t) : ops'[o].state = ops[o].state
Untouched(t) ==
  /\ SameMonitors(t)
  /\ matched'[t] = matched[t]
  /\ t \in unmatched' => t \in unmatched
  /\ Adds(t)' # {} => Adds(t) # {}
  /\ server'[t] = "none" => server[t] = "none"

\* The tasks yet to be categorized are on the server.
TodoKnown == \A data \in todo' : data \in todo \/ server'[data.task] # "none"

\* The operations with a thread are the same, and none begins one.
SameStarters ==
  /\ \A o : o \in DOMAIN ops' /\ ops'[o].step # "none" <=> o \in DOMAIN ops /\ ops[o].step # "none"
  /\ \A o \in DOMAIN ops : ops[o].step # "none" =>
       ops'[o].task = ops[o].task /\ (ops'[o].step = "start" => ops[o].step = "start")
NoneTold == Told' /\ \A t \in Task : Adds(t)' # {} => Adds(t) # {}
\* What is posted to the main thread: nothing, a message that tells of no new task,
LEMMA QuietTold ==
  ASSUME TypeQueue, Told, mainq' = mainq
  PROVE  NoneTold
  BY DEF NoneTold, Told, Adds, IsTask

LEMMA AppendTold ==
  ASSUME TypeQueue, Told, NEW m \in Msg, mainq' = Append(mainq, m),
         m.kind = "task" => m.data.task = m.task
  PROVE  /\ (m.kind = "task" /\ m.sort = "add") \/ NoneTold
         /\ m.kind = "task" /\ m.sort = "add" /\ Adds(m.task) = {} =>
              Told' /\ \A t \in Task \ {m.task} : Adds(t)' # {} => Adds(t) # {}
<1> DEFINE n == Len(mainq)
<1>1. /\ n \in Nat /\ DOMAIN mainq = 1..n /\ n + 1 \notin 1..n
      /\ mainq'[n + 1] = m /\ \A k \in 1..n : mainq'[k] = mainq[k]
      /\ DOMAIN mainq' = (1..n) \cup {n + 1}
  <2>1. n \in Nat /\ DOMAIN mainq = 1..n
    BY LenProperties DEF TypeQueue
  <2>2. /\ mainq' \in Seq(Msg) /\ Len(mainq') = n + 1
        /\ mainq'[n + 1] = m /\ \A k \in 1..n : mainq'[k] = mainq[k]
    BY AppendProperties DEF TypeQueue
  <2>3. DOMAIN mainq' = 1..n + 1
    BY <2>2, LenProperties
  <2>4. 1..n + 1 = (1..n) \cup {n + 1} /\ n + 1 \notin 1..n
    BY <2>1
  <2>5. QED
    BY <2>1, <2>2, <2>3, <2>4
<1> HIDE DEF n
<1>2. \A t : Adds(t)' = Adds(t) \cup (IF m.kind = "task" /\ m.sort = "add" /\ m.task = t
                                      THEN {n + 1} ELSE {})
  BY <1>1 DEF Adds, IsTask
<1>3. \A k \in DOMAIN mainq' : IsTask(k)' => mainq'[k].data.task = mainq'[k].task
  BY <1>1 DEF Told, IsTask
<1>4. ASSUME ~(m.kind = "task" /\ m.sort = "add") PROVE NoneTold
  <2>1. \A t : Adds(t)' = Adds(t)
    BY <1>2, <1>4
  <2>2. QED
    BY <1>3, <2>1 DEF NoneTold, Told
<1>5. ASSUME m.kind = "task", m.sort = "add", Adds(m.task) = {}
      PROVE  Told' /\ \A t \in Task \ {m.task} : Adds(t)' # {} => Adds(t) # {}
  <2>1. \A t : Adds(t)' = IF t = m.task THEN {n + 1} ELSE Adds(t)
    BY <1>2, <1>5
  <2>2. QED
    BY <1>3, <2>1 DEF Told
<1>6. QED
  BY <1>4, <1>5

\* or the first message is taken.
LEMMA TailTold ==
  ASSUME TypeQueue, Told, mainq # <<>>, mainq' = Tail(mainq)
  PROVE  /\ NoneTold
         /\ Head(mainq).kind = "task" =>
              /\ Head(mainq).data.task = Head(mainq).task
              /\ \A t \in Task : Head(mainq).sort = "add" /\ Head(mainq).task = t =>
                   Adds(t) # {} /\ Adds(t)' = {}
<1> DEFINE n == Len(mainq)
<1>1. /\ n \in Nat \ {0} /\ DOMAIN mainq = 1..n /\ DOMAIN mainq' = 1..n-1 /\ 1 \in 1..n
      /\ Head(mainq) = mainq[1] /\ \A k \in 1..n-1 : mainq'[k] = mainq[k + 1] /\ k + 1 \in 1..n
  <2>1. n \in Nat /\ DOMAIN mainq = 1..n /\ n # 0
    BY LenProperties, EmptySeq DEF TypeQueue
  <2>2. /\ mainq' \in Seq(Msg) /\ Len(mainq') = n - 1 /\ Head(mainq) = mainq[1]
        /\ \A k \in 1..n-1 : mainq'[k] = mainq[k + 1]
    BY HeadTailProperties DEF TypeQueue
  <2>3. DOMAIN mainq' = 1..n-1
    BY <2>2, LenProperties
  <2>4. 1 \in 1..n /\ \A k \in 1..n-1 : k + 1 \in 1..n
    BY <2>1
  <2>5. QED
    BY <2>1, <2>2, <2>3, <2>4
<1> HIDE DEF n
<1>2. \A t, k : k \in Adds(t)' => k \in 1..n-1 /\ k + 1 \in Adds(t)
  BY <1>1 DEF Adds, IsTask
<1>3. \A k \in DOMAIN mainq' : IsTask(k)' => mainq'[k].data.task = mainq'[k].task
  BY <1>1 DEF Told, IsTask
<1>4. ASSUME NEW t \in Task, NEW j \in Adds(t)', NEW k \in Adds(t)' PROVE j = k
  <2>1. j + 1 = k + 1 /\ j \in 1..n-1 /\ k \in 1..n-1
    BY <1>2, <1>4 DEF Told
  <2>2. QED
    BY <1>1, <2>1
<1>5. NoneTold
  BY <1>2, <1>3, <1>4 DEF NoneTold, Told
<1>6. ASSUME mainq[1].kind = "task" PROVE mainq[1].data.task = mainq[1].task
  BY <1>1, <1>6 DEF Told, IsTask
<1>7. ASSUME NEW t \in Task, mainq[1].kind = "task", mainq[1].sort = "add", mainq[1].task = t
      PROVE  Adds(t) # {} /\ Adds(t)' = {}
  <2>1. 1 \in Adds(t)
    BY <1>1, <1>7 DEF Adds, IsTask
  <2>2. ASSUME NEW k \in Adds(t)' PROVE FALSE
    <3>1. k + 1 = 1 /\ k \in 1..n-1
      BY <1>2, <2>1, <2>2 DEF Told
    <3>2. QED
      BY <1>1, <3>1
  <2>3. QED
    BY <2>1, <2>2
<1>8. QED
  BY <1>1, <1>5, <1>6, <1>7

\* What holds of a task holds after a step that does not touch it.
LEMMA UntouchedOnce ==
  ASSUME Unknown, Once, again \subseteq again', TodoKnown, NEW t \in Task, Untouched(t)
  PROVE  UnknownTask(t)' /\ OnceTask(t)'
<1>1. UnknownTask(t) /\ OnceTask(t)
  BY DEF Unknown, Once
<1>2. UnknownTask(t)'
  BY <1>1 DEF UnknownTask, TodoKnown, Untouched, SameMonitors
<1>3. OnceTask(t)'
  BY <1>1 DEF OnceTask, Untouched, SameMonitors
<1>4. QED
  BY <1>2, <1>3

LEMMA AllUntouched ==
  ASSUME Unknown, Once, again \subseteq again', TodoKnown, \A t \in Task : Untouched(t)
  PROVE  Unknown' /\ Once'
  BY UntouchedOnce DEF Unknown, Once

\* A step that touches one task.
LEMMA OneTouched ==
  ASSUME Unknown, Once, again \subseteq again', TodoKnown, NEW t \in Task,
         \A v \in Task \ {t} : Untouched(v), UnknownTask(t)', OnceTask(t)'
  PROVE  Unknown' /\ Once'
  BY UntouchedOnce DEF Unknown, Once

\* The operations stay as they are.
LEMMA SameOps ==
  ASSUME ops' = ops
  PROVE  SameStarters /\ \A t : SameMonitors(t)
  BY DEF SameStarters, SameMonitors, MonitorsOf, Meddling

LEMMA StartersStay ==
  ASSUME Starters, SameStarters, \A t \in Own : server'[t] = "none" <=> server[t] = "none"
  PROVE  Starters'
<1>1. \A t : StartersOf(t)' = StartersOf(t)
  BY DEF SameStarters, StartersOf
<1>2. \A o \in DOMAIN ops' : ops'[o].step # "none" =>
        /\ ops'[o].task \in Own
        /\ ops'[o].step = "start" => server'[ops'[o].task] = "none"
  BY DEF Starters, SameStarters
<1>3. QED
  BY <1>1, <1>2 DEF Starters

\* Nothing changes of what the operations are to the tasks, and no task is told of.
LEMMA QuietOnce ==
  ASSUME OnceInv, ops' = ops, NoneTold, UNCHANGED <<matched, unmatched, again>>, TodoKnown,
         \A t \in Task : server'[t] = "none" <=> server[t] = "none", Own \subseteq Task
  PROVE  OnceInv'
<1>1. Starters'
  BY SameOps, StartersStay DEF OnceInv
<1>2. \A t \in Task : Untouched(t)
  BY SameOps DEF Untouched, NoneTold
<1>3. Unknown' /\ Once'
  BY <1>2, AllUntouched DEF OnceInv
<1>4. QED
  BY <1>1, <1>3 DEF OnceInv, NoneTold

\* A task begins, of which the main thread is told if a session is there.
LEMMA BeginOnce ==
  ASSUME TypeQueue, TypeTasks, Told, Unknown, Once, NEW t \in Task, server[t] = "none",
         server' = [server EXCEPT ![t] = "pending"],
         Tell("add", t, [task |-> t, ended |-> FALSE, tag |-> 0]),
         UNCHANGED <<matched, unmatched, again, todo>>,
         \A v \in Task : SameMonitors(v)
  PROVE  Told' /\ Unknown' /\ Once'
<1>1. server'[t] = "pending" /\ \A v \in Task \ {t} : server'[v] = server[v]
  BY DEF TypeTasks
<1>2. UnknownTask(t) /\ OnceTask(t)
  BY DEF Unknown, Once
<1>3. Adds(t) = {} /\ MonitorsOf(t) = {} /\ t \notin unmatched
  BY <1>2 DEF UnknownTask
<1> DEFINE m == Event("add", t, [task |-> t, ended |-> FALSE, tag |-> 0])
<1>4. m \in Msg /\ m.kind = "task" /\ m.sort = "add" /\ m.task = t /\ m.data.task = t
  BY DataTyped DEF Event, Msg, TaskMsg
<1>5. mainq' = mainq \/ mainq' = Append(mainq, m)
  BY DEF Tell
<1> HIDE DEF m
<1>6. Told' /\ \A v \in Task \ {t} : Adds(v)' # {} => Adds(v) # {}
  <2>1. CASE mainq' = mainq
    BY <2>1, QuietTold DEF NoneTold
  <2>2. CASE mainq' = Append(mainq, m)
    BY <1>3, <1>4, <2>2, AppendTold
  <2>3. QED
    BY <1>5, <2>1, <2>2
<1>7. \A v \in Task \ {t} : Untouched(v)
  BY <1>1, <1>6 DEF Untouched
<1>8. UnknownTask(t)' /\ OnceTask(t)'
  BY <1>1, <1>3 DEF UnknownTask, OnceTask, SameMonitors
<1>9. TodoKnown
  BY DEF TodoKnown
<1>10. QED
  BY <1>6, <1>7, <1>8, <1>9, OneTouched

---------------------------------------------------------------------------------
\* A thread's step, which is not its first, and the end of its operation.
LEMMA ThreadStep ==
  ASSUME TypeHistory, NEW o \in DOMAIN ops, Worker(o)
  PROVE  /\ DOMAIN ops' = DOMAIN ops /\ ops[o].step # "none"
         /\ ops'[o].step \notin {"none", "start"}
         /\ ops'[o].task = ops[o].task
         /\ \A p \in DOMAIN ops \ {o} : ops'[p] = ops[p]
<1>1. \/ \E s \in {"tag", "poll", "destroy", "finish", "deleted"} :
           Step(o, s) /\ ops[o].step # "none"
      \/ /\ ops[o].step # "none"
         /\ \E state, s : s \in {"untag", "done"} /\ SetState(o, state, s)
  <2>1. CASE PollTask(o) \/ Finish(o)
    BY <2>1 DEF PollTask, Finish
  <2>2. CASE ~PollTask(o) /\ ~Finish(o)
    BY <2>2 DEF Worker, StartTask, TagTask, UntagTask, DestroyTask, Delete
  <2>3. QED
    BY <2>1, <2>2
<1>2. ops[o] \in Op
  BY LenProperties, ElementOfSeq DEF TypeHistory
<1>3. ASSUME NEW s \in {"tag", "poll", "destroy", "finish", "deleted"}, Step(o, s)
      PROVE  /\ DOMAIN ops' = DOMAIN ops /\ ops'[o].step = s /\ ops'[o].task = ops[o].task
             /\ \A p \in DOMAIN ops \ {o} : ops'[p] = ops[p]
  <2>1. ops' = [ops EXCEPT ![o] = [ops[o] EXCEPT !.step = s]]
    BY <1>3 DEF Step
  <2>2. [ops[o] EXCEPT !.step = s].step = s /\ [ops[o] EXCEPT !.step = s].task = ops[o].task
    BY <1>2 DEF Op
  <2>3. QED
    BY <2>1, <2>2
<1>4. ASSUME NEW state, NEW s \in {"untag", "done"}, SetState(o, state, s)
      PROVE  /\ DOMAIN ops' = DOMAIN ops /\ ops'[o].step = s
             /\ ops'[o].task = ops[o].task
             /\ \A p \in DOMAIN ops \ {o} : ops'[p] = ops[p]
  <2> DEFINE e == [ops[o] EXCEPT !.state = state, !.step = s]
  <2>1. e.step = s /\ e.task = ops[o].task
    BY <1>2 DEF Op
  <2>2. ops' = [ops EXCEPT ![o] = e]
    BY <1>2, <1>4 DEF SetState
  <2> HIDE DEF e
  <2>3. QED
    BY <2>1, <2>2
<1>5. QED
  BY <1>1, <1>3, <1>4

\* It is of no task that is monitored, and no operation begins.
LEMMA ThreadStays ==
  ASSUME TypeHistory, NEW o \in DOMAIN ops, Worker(o)
  PROVE  SameStarters /\ \A t : SameMonitors(t)
<1>1. SameStarters
  BY ThreadStep DEF SameStarters
<1>2. Meddling' = Meddling /\ \A p \in Meddling : ops'[p] = ops[p]
  BY ThreadStep DEF Meddling
<1>3. QED
  BY <1>1, <1>2 DEF SameMonitors, MonitorsOf

\* A message about a task that is not of its beginning, or none.
LEMMA OtherTold ==
  ASSUME TypeQueue, Told, NEW sort \in {"mod", "del"}, NEW t \in Task, NEW d \in Data, d.task = t,
         mainq' = mainq \/ Tell(sort, t, d)
  PROVE  NoneTold
<1> DEFINE m == Event(sort, t, d)
<1>1. m \in Msg /\ m.sort # "add" /\ m.data.task = m.task
  BY DEF Event, Msg, TaskMsg
<1>2. mainq' = mainq \/ mainq' = Append(mainq, m)
  BY DEF Tell
<1> HIDE DEF m
<1>3. QED
  BY <1>1, <1>2, QuietTold, AppendTold

\* What a task's data tells is of the task.
LEMMA DataOfTask ==
  ASSUME NEW t
  PROVE  /\ Snapshot(t).task = t /\ [Snapshot(t) EXCEPT !.ended = TRUE].task = t
         /\ \A n : [Snapshot(t) EXCEPT !.tag = n].task = t
  BY DEF Snapshot

\* A signal, or nothing, is posted.
LEMMA SignalTold ==
  ASSUME IInv, Told, NEW o \in DOMAIN ops, NEW state, state = ops[o].state \/ state \in Ended,
         NEW step, SetState(o, state, step)
  PROVE  NoneTold
<1>1. CASE mainq' = mainq
  BY <1>1, QuietTold DEF IInv
<1>2. CASE mainq' # mainq
  <2> DEFINE r == CHOOSE x \in RecordOf(o) : TRUE
             m == [kind |-> "state", record |-> r, state |-> state]
  <2>1. RecordOf(o) # {} /\ state \in Ended /\ mainq' = Append(mainq, m)
    BY <1>2 DEF SetState
  <2>2. r \in DOMAIN records
    BY <2>1 DEF RecordOf
  <2>3. r \in Nat
    BY <2>2, LenProperties DEF IInv, Kept, TypeHistory
  <2> HIDE DEF r
  <2>4. m \in Msg /\ m.kind = "state"
    BY <2>1, <2>3 DEF Msg, StateMsg
  <2> HIDE DEF m
  <2>5. QED
    BY <2>1, <2>4, AppendTold DEF IInv
<1>3. QED
  BY <1>1, <1>2

\* The operation has started its task, whatever it does to it.
LEMMA ThreadStarters ==
  ASSUME TypeHistory, Starters, Own \subseteq Task, NEW o \in DOMAIN ops, Worker(o),
         \A v \in Task \ {ops[o].task} : server'[v] = server[v]
  PROVE  Starters'
<1>1. SameStarters
  BY ThreadStays
<1>2. \A t : StartersOf(t)' = StartersOf(t)
  BY <1>1 DEF SameStarters, StartersOf
<1>3. o \in StartersOf(ops[o].task) /\ ops'[o].step # "start" /\ ops[o].task \in Own
  BY ThreadStep DEF StartersOf, Starters
<1>4. ASSUME NEW p \in DOMAIN ops', ops'[p].step # "none"
      PROVE  /\ ops'[p].task \in Own
             /\ ops'[p].step = "start" => server'[ops'[p].task] = "none"
  <2>1. p \in DOMAIN ops /\ ops[p].step # "none" /\ ops'[p].task = ops[p].task
    BY <1>1, <1>4 DEF SameStarters
  <2>2. ops[p].task \in Own /\ (ops[p].step = "start" => server[ops[p].task] = "none")
    BY <2>1 DEF Starters
  <2>3. ASSUME ops'[p].step = "start" PROVE server'[ops'[p].task] = "none"
    <3>1. p # o /\ ops[p].step = "start"
      BY <1>1, <1>3, <2>1, <2>3 DEF SameStarters
    <3>2. p \in StartersOf(ops[p].task)
      BY <2>1 DEF StartersOf
    <3>3. ops[p].task # ops[o].task
      BY <1>3, <2>2, <3>1, <3>2 DEF Starters
    <3>4. QED
      BY <2>1, <2>2, <3>1, <3>3
  <2>4. QED
    BY <2>1, <2>2, <2>3
<1>5. \A t \in Own : server'[t] # "none" => StartersOf(t) # {}
  BY <1>3 DEF Starters
<1>6. QED
  BY <1>2, <1>4, <1>5 DEF Starters

LEMMA WorkerOnce ==
  ASSUME IInv, OnceInv, Own \subseteq Task, NEW o \in DOMAIN ops, Worker(o)
  PROVE  OnceInv'
<1> DEFINE t == ops[o].task
<1>1. ops[o] \in Op /\ TypeHistory /\ TypeTasks /\ TypeQueue /\ Told
  BY LenProperties, ElementOfSeq DEF IInv, Kept, TypeHistory, OnceInv
<1>2. t \in Task /\ ops[o].uuid \in Nat
  BY <1>1 DEF Op
<1>3. \A v : SameMonitors(v)
  BY <1>1, ThreadStays
<1>4. UNCHANGED <<matched, unmatched, again, todo>>
  BY DEF Worker, StartTask, TagTask, PollTask, UntagTask, DestroyTask, Finish, Delete, taskVars
<1>5. \A v \in Task \ {t} : server'[v] = server[v]
  BY <1>1 DEF TypeTasks, Worker, StartTask, TagTask, PollTask, UntagTask, DestroyTask, Finish,
       Delete, serverVars
<1>6. Starters'
  BY <1>1, <1>5, ThreadStarters DEF OnceInv
<1>7. CASE StartTask(o)
  <2>1. server[t] = "none"
    BY <1>7 DEF OnceInv, Starters, StartTask
  <2>2. Told' /\ Unknown' /\ Once'
    BY <1>1, <1>2, <1>3, <1>4, <1>7, <2>1, BeginOnce DEF StartTask, OnceInv
  <2>3. QED
    BY <1>6, <2>2 DEF OnceInv
<1>8. CASE ~StartTask(o)
  <2>1. NoneTold
    <3>1. CASE TagTask(o)
      <4>1. mainq' = mainq \/ Tell("mod", t, [Snapshot(t) EXCEPT !.tag = ops[o].uuid])
        BY <3>1 DEF TagTask
      <4>2. [Snapshot(t) EXCEPT !.tag = ops[o].uuid] \in Data
        BY <1>1, <1>2, DataTyped
      <4>3. [Snapshot(t) EXCEPT !.tag = ops[o].uuid].task = t
        BY DataOfTask
      <4>4. QED
        BY <1>1, <1>2, <4>1, <4>2, <4>3, OtherTold
    <3>2. CASE UntagTask(o)
      <4>1. mainq' = mainq \/ Tell("mod", t, [Snapshot(t) EXCEPT !.tag = 0])
        BY <3>2 DEF UntagTask
      <4>2. 0 \in Nat
        OBVIOUS
      <4>3. [Snapshot(t) EXCEPT !.tag = 0] \in Data
        BY <1>1, <1>2, <4>2, DataTyped
      <4>4. [Snapshot(t) EXCEPT !.tag = 0].task = t
        BY DataOfTask
      <4>5. QED
        BY <1>1, <1>2, <4>1, <4>3, <4>4, OtherTold
    <3>3. CASE DestroyTask(o)
      <4>1. mainq' = mainq \/ Tell("del", t, Snapshot(t))
        BY <3>3 DEF DestroyTask
      <4>2. Snapshot(t) \in Data /\ Snapshot(t).task = t
        BY <1>1, <1>2, DataTyped, DataOfTask
      <4>3. QED
        BY <1>1, <1>2, <4>1, <4>2, OtherTold
    <3>4. CASE PollTask(o) \/ Finish(o)
      <4>1. PICK state, step : /\ state = ops[o].state \/ state \in Ended
                               /\ SetState(o, state, step)
        BY <3>4 DEF PollTask, Finish, Ended
      <4>2. QED
        BY <1>1, <4>1, SignalTold
    <3>5. CASE Delete(o)
      BY <1>1, <3>5, QuietTold DEF Delete
    <3>6. QED
      BY <1>8, <3>1, <3>2, <3>3, <3>4, <3>5 DEF Worker
  <2>2. server'[t] = "none" => server[t] = "none"
    BY <1>1, <1>2, <1>8
       DEF TypeTasks, Worker, TagTask, PollTask, UntagTask, DestroyTask, Finish, Delete,
           serverVars
  <2>3. \A v \in Task : Untouched(v)
    BY <1>3, <1>4, <1>5, <2>1, <2>2 DEF Untouched, NoneTold
  <2>4. TodoKnown /\ again \subseteq again'
    BY <1>4 DEF TodoKnown
  <2>5. Unknown' /\ Once'
    BY <2>3, <2>4, AllUntouched DEF OnceInv
  <2>6. QED
    BY <1>6, <2>1, <2>5 DEF OnceInv, NoneTold
<1>9. QED
  BY <1>7, <1>8

\* An operation is constructed.
LEMMA Constructed ==
  ASSUME TypeHistory, NEW e \in Op, ops' = Append(ops, e)
  PROVE  /\ DOMAIN ops' = DOMAIN ops \cup {Len(ops) + 1}
         /\ Len(ops) + 1 \notin DOMAIN ops /\ ops'[Len(ops) + 1] = e
         /\ \A p \in DOMAIN ops : ops'[p] = ops[p]
<1> DEFINE o == Len(ops) + 1
<1>1. Len(ops) \in Nat /\ DOMAIN ops = 1..Len(ops)
  BY LenProperties DEF TypeHistory
<1>2. /\ ops' \in Seq(Op) /\ Len(ops') = o /\ ops'[o] = e
      /\ \A p \in 1..Len(ops) : ops'[p] = ops[p]
  BY AppendProperties DEF TypeHistory
<1>3. DOMAIN ops' = 1..o
  BY <1>2, LenProperties
<1>4. 1..o = (1..Len(ops)) \cup {o} /\ o \notin 1..Len(ops)
  BY <1>1
<1> HIDE DEF o
<1>5. QED
  BY <1>1, <1>2, <1>3, <1>4 DEF o

\* A command begins the operation of a task that no other has started.
LEMMA RunOperationOnce ==
  ASSUME IInv, OnceInv, Own \subseteq Task, NEW t \in Task, RunOperation(t)
  PROVE  OnceInv'
<1> DEFINE o == Len(ops) + 1
<1>1. UNCHANGED <<server, mainq, matched, unmatched, again, todo>> /\ t \in Own
      /\ \A p \in DOMAIN ops : ops[p].task # t \/ ops[p].step = "none"
  BY DEF RunOperation, taskVars, serverVars
<1>2. PICK e : /\ e.task = t /\ e.step = "start" /\ ops' = Append(ops, e)
               /\ e \in Op
  <2>1. PICK a \in Address :
          ops' = Append(ops, [task |-> t, step |-> "start", state |-> "Running", at |-> a,
                              uuid |-> IF RegisterOperation(History, o, a) = History
                                       THEN 0 ELSE o, from |-> 0])
    BY DEF RunOperation
  <2> DEFINE n == IF RegisterOperation(History, o, a) = History THEN 0 ELSE o
             e == [task |-> t, step |-> "start", state |-> "Running", at |-> a,
                   uuid |-> n, from |-> 0]
  <2>2. n \in Nat
    BY LenProperties DEF IInv, Kept, TypeHistory
  <2> HIDE DEF n
  <2>3. e \in Op /\ e.task = t /\ e.step = "start"
    BY <2>2 DEF Op, InThread, OpStates
  <2>4. ops' = Append(ops, e)
    BY <2>1 DEF n
  <2> HIDE DEF e
  <2>5. QED
    BY <2>3, <2>4
<1>3. /\ DOMAIN ops' = DOMAIN ops \cup {o} /\ o \notin DOMAIN ops /\ ops'[o] = e
      /\ \A p \in DOMAIN ops : ops'[p] = ops[p]
  BY <1>2, Constructed DEF IInv, Kept
<1> HIDE DEF o
<1>4. \A v : StartersOf(v)' = StartersOf(v) \cup (IF v = t THEN {o} ELSE {})
  BY <1>2, <1>3 DEF StartersOf
<1>5. StartersOf(t) = {} /\ server[t] = "none"
  <2>1. StartersOf(t) = {}
    BY <1>1 DEF StartersOf
  <2>2. QED
    BY <1>1, <2>1 DEF OnceInv, Starters
<1>6. Starters'
  <2>1. \A v \in Task : \A p, q \in StartersOf(v)' : p = q
    BY <1>4, <1>5 DEF OnceInv, Starters
  <2>2. \A p \in DOMAIN ops' : ops'[p].step # "none" =>
          /\ ops'[p].task \in Own
          /\ ops'[p].step = "start" => server'[ops'[p].task] = "none"
    BY <1>1, <1>2, <1>3, <1>5 DEF OnceInv, Starters
  <2>3. \A v \in Own : server'[v] # "none" => StartersOf(v)' # {}
    BY <1>1, <1>4 DEF OnceInv, Starters
  <2>4. QED
    BY <2>1, <2>2, <2>3 DEF Starters
<1>7. \A v : SameMonitors(v)
  BY <1>2, <1>3 DEF SameMonitors, MonitorsOf, Meddling
<1>8. NoneTold
  BY <1>1, QuietTold DEF OnceInv, IInv
<1>9. \A v \in Task : Untouched(v)
  BY <1>1, <1>7, <1>8 DEF Untouched, NoneTold
<1>10. TodoKnown /\ again \subseteq again'
  BY <1>1 DEF TodoKnown
<1>11. QED
  BY <1>6, <1>8, <1>9, <1>10, AllUntouched DEF OnceInv, NoneTold

\* What happens to the tasks of others.
LEMMA ServerOnce ==
  ASSUME IInv, OnceInv, Own \subseteq Task, NEW t \in Task,
         TaskBegins(t) \/ TaskGetsOld(t) \/ TaskEnds(t) \/ TaskGone(t)
  PROVE  OnceInv'
<1>1. UNCHANGED <<ops, matched, unmatched, again, todo>>
  BY DEF TaskBegins, TaskGetsOld, TaskEnds, TaskGone, historyVars, taskVars
<1>2. TypeTasks /\ TypeQueue /\ Told
  BY DEF IInv, OnceInv
<1>3. SameStarters /\ \A v : SameMonitors(v)
  BY <1>1, SameOps
<1>4. CASE TaskBegins(t)
  <2>1. t \notin Own /\ server[t] = "none" /\ server' = [server EXCEPT ![t] = "pending"]
    BY <1>4 DEF TaskBegins
  <2>2. \A v \in Own : server'[v] = server[v]
    BY <1>2, <2>1 DEF TypeTasks
  <2>3. Starters'
    BY <1>3, <2>2, StartersStay DEF OnceInv
  <2>4. Told' /\ Unknown' /\ Once'
    BY <1>1, <1>2, <1>3, <1>4, <2>1, BeginOnce DEF TaskBegins, OnceInv
  <2>5. QED
    BY <2>3, <2>4 DEF OnceInv
<1>5. CASE ~TaskBegins(t)
  <2>1. \A v \in Task : server'[v] = "none" <=> server[v] = "none"
    BY <1>2, <1>5 DEF TypeTasks, TaskGetsOld, TaskEnds, TaskGone
  <2>2. Snapshot(t) \in Data /\ [Snapshot(t) EXCEPT !.ended = TRUE] \in Data
    BY <1>2, DataTyped
  <2>3. Snapshot(t).task = t /\ [Snapshot(t) EXCEPT !.ended = TRUE].task = t
    BY DataOfTask
  <2>4. \/ mainq' = mainq \/ Tell("mod", t, Snapshot(t)) \/ Tell("del", t, Snapshot(t))
        \/ Tell("mod", t, [Snapshot(t) EXCEPT !.ended = TRUE])
    BY <1>5 DEF TaskGetsOld, TaskEnds, TaskGone
  <2>5. NoneTold
    BY <1>2, <2>2, <2>3, <2>4, OtherTold
  <2>6. TodoKnown
    BY <1>1 DEF TodoKnown
  <2>7. QED
    BY <1>1, <2>1, <2>5, <2>6, QuietOnce
<1>6. QED
  BY <1>4, <1>5

---------------------------------------------------------------------------------
\* categorizeTask, of a task that nobody monitors, or that was found again.
LEMMA CategorizeOnce ==
  ASSUME IInv, OnceInv, Own \subseteq Task, NEW data \in Data, NEW u \in SUBSET unmatched,
         Categorize(data, u), UNCHANGED server, again \subseteq again',
         todo' \subseteq todo, NoneTold, server[data.task] # "none",
         data.task \notin again' =>
           MonitorsOf(data.task) = {} /\ data.task \notin u /\ Adds(data.task)' = {}
  PROVE  OnceInv'
<1> DEFINE t == data.task
           o == Len(ops) + 1
<1>1. t \in Task /\ matched \in [Task -> Nat]
  BY DEF Data, IInv, TypeTasks
<1>2. TodoKnown
  BY DEF TodoKnown
<1>3. CASE UNCHANGED <<ops, matched>> /\ unmatched' \subseteq u \cup {t}
  <2>1. Starters' /\ \A v : SameMonitors(v)
    BY <1>3, SameOps, StartersStay DEF OnceInv
  <2>2. \A v \in Task \ {t} : Untouched(v)
    BY <1>3, <2>1 DEF Untouched, NoneTold
  <2>3. UnknownTask(t)'
    BY DEF UnknownTask
  <2>4. OnceTask(t)'
    BY <2>1 DEF OnceTask, SameMonitors
  <2>5. QED
    BY <1>1, <1>2, <2>1, <2>2, <2>3, <2>4, OneTouched DEF OnceInv, NoneTold
<1>4. CASE /\ ~Unwanted(data) /\ Suitable(data)
           /\ unmatched' = u
           /\ \E a \in Address :
                LET h == RegisterOperation(RegisterOperation(History, o, a), o, a)
                    state == IF data.ended THEN "Completed" ELSE "Running"
                IN  ops' = Append(ops, [task |-> t, step |-> "none", state |-> state, at |-> a,
                                        uuid |-> IF h = History THEN 0 ELSE o,
                                        from |-> data.tag])
           /\ matched' = Track(data, o)
  <2>1. PICK e : /\ e \in Op /\ e.task = t /\ e.step = "none" /\ ops' = Append(ops, e)
                 /\ e.state = "Running" <=> ~data.ended
    <3>1. PICK a \in Address :
            LET h == RegisterOperation(RegisterOperation(History, o, a), o, a)
                state == IF data.ended THEN "Completed" ELSE "Running"
            IN  ops' = Append(ops, [task |-> t, step |-> "none", state |-> state, at |-> a,
                                    uuid |-> IF h = History THEN 0 ELSE o, from |-> data.tag])
      BY <1>4
    <3> DEFINE h == RegisterOperation(RegisterOperation(History, o, a), o, a)
               n == IF h = History THEN 0 ELSE o
               s == IF data.ended THEN "Completed" ELSE "Running"
               e == [task |-> t, step |-> "none", state |-> s, at |-> a, uuid |-> n,
                     from |-> data.tag]
    <3>2. n \in Nat
      BY LenProperties DEF IInv, Kept, TypeHistory
    <3>3. ops' = Append(ops, e)
      BY <3>1
    <3> HIDE DEF n
    <3>4. e \in Op /\ e.task = t /\ e.step = "none" /\ (e.state = "Running" <=> ~data.ended)
      BY <3>2, <1>1 DEF Op, OpStates, Ended, Data
    <3> HIDE DEF e
    <3>5. QED
      BY <3>3, <3>4
  <2>2. /\ DOMAIN ops' = DOMAIN ops \cup {o} /\ o \notin DOMAIN ops /\ ops'[o] = e
        /\ \A p \in DOMAIN ops : ops'[p] = ops[p]
    BY <2>1, Constructed DEF IInv, Kept
  <2>3. Len(ops) \in Nat
    BY LenProperties DEF IInv, Kept, TypeHistory
  <2>4. matched[t] # o
    BY <1>1, <2>2, <2>3 DEF IInv, Monitors, Meddling
  <2>5. matched' = IF data.ended THEN matched ELSE [matched EXCEPT ![t] = o]
    BY <1>4 DEF Track
  <2>6. SameStarters
    BY <2>1, <2>2 DEF SameStarters
  <2>7. Starters'
    BY <2>6, StartersStay DEF OnceInv
  <2> HIDE DEF o
  <2>8. MonitorsOf(t)' = MonitorsOf(t) \cup {o}
    BY <2>1, <2>2 DEF MonitorsOf, Meddling
  <2>9. \A v \in Task \ {t} : SameMonitors(v)
    BY <2>1, <2>2 DEF SameMonitors, MonitorsOf, Meddling
  <2>10. \A v \in Task \ {t} : Untouched(v)
    BY <1>1, <1>4, <2>5, <2>9 DEF Untouched, NoneTold
  <2>11. UnknownTask(t)'
    BY DEF UnknownTask
  <2>12. ASSUME t \notin again' PROVE OnceTask(t)'
    <3>1. MonitorsOf(t)' = {o} /\ t \notin unmatched' /\ Adds(t)' = {}
      BY <1>4, <2>8, <2>12
    <3>2. ops'[o].state = "Running" <=> matched'[t] = o
      BY <1>1, <2>1, <2>2, <2>4, <2>5
    <3>3. QED
      BY <3>1, <3>2 DEF OnceTask
  <2>13. OnceTask(t)'
    BY <2>12 DEF OnceTask
  <2>14. QED
    BY <1>1, <1>2, <2>7, <2>10, <2>11, <2>13, OneTouched DEF OnceInv, NoneTold
<1>5. QED
  BY <1>3, <1>4 DEF Categorize, historyVars

\* updateFromTask, or the loss of the task, ends its monitor.
LEMMA CompleteOnce ==
  ASSUME IInv, OnceInv, Own \subseteq Task, NEW t \in Task,
         matched' = [matched EXCEPT ![t] = 0],
         IF matched[t] # 0 THEN Complete(matched[t]) ELSE UNCHANGED historyVars,
         unmatched' \subseteq unmatched, UNCHANGED <<server, todo, again>>, NoneTold
  PROVE  OnceInv'
<1>1. matched \in [Task -> Nat] /\ \A v \in Task \ {t} : matched'[v] = matched[v]
  BY DEF IInv, TypeTasks
<1>2. matched'[t] = 0
  BY <1>1
<1>3. TodoKnown
  BY DEF TodoKnown
<1>4. CASE matched[t] = 0
  <2>1. ops' = ops
    BY <1>4 DEF historyVars
  <2>2. Starters' /\ \A v : SameMonitors(v)
    BY <2>1, SameOps, StartersStay DEF OnceInv
  <2>3. \A v \in Task : Untouched(v)
    BY <1>1, <1>2, <1>4, <2>2 DEF Untouched, NoneTold
  <2>4. QED
    BY <1>3, <2>2, <2>3, AllUntouched DEF OnceInv, NoneTold
<1>5. CASE matched[t] # 0
  <2> DEFINE o == matched[t]
             e == [ops[o] EXCEPT !.state = "Completed"]
  <2>1. o \in Meddling /\ ops[o].task = t /\ ops' = [ops EXCEPT ![o] = e]
    BY <1>5 DEF IInv, Monitors, Complete
  <2>2. ops[o] \in Op
    BY <2>1, LenProperties, ElementOfSeq DEF IInv, Kept, TypeHistory, Meddling
  <2>3. e.task = t /\ e.step = "none" /\ e.state = "Completed"
    BY <2>1, <2>2 DEF Op, Meddling
  <2> HIDE DEF e, o
  <2>4. /\ DOMAIN ops' = DOMAIN ops /\ o \in DOMAIN ops /\ ops[o].step = "none" /\ ops'[o] = e
        /\ \A p \in DOMAIN ops \ {o} : ops'[p] = ops[p]
    BY <2>1 DEF Meddling
  <2>5. SameStarters
    BY <2>3, <2>4 DEF SameStarters
  <2>6. Starters'
    BY <2>5, StartersStay DEF OnceInv
  <2>7. \A v : MonitorsOf(v)' = MonitorsOf(v)
    BY <2>1, <2>3, <2>4 DEF MonitorsOf, Meddling
  <2>8. \A v \in Task \ {t} : \A p \in MonitorsOf(v) : p # o
    BY <2>1 DEF MonitorsOf
  <2>9. \A v \in Task \ {t} : SameMonitors(v)
    BY <2>4, <2>7, <2>8 DEF SameMonitors, MonitorsOf, Meddling
  <2>10. \A v \in Task \ {t} : Untouched(v)
    BY <1>1, <2>9 DEF Untouched, NoneTold
  <2>11. UnknownTask(t) /\ OnceTask(t)
    BY DEF OnceInv, Unknown, Once
  <2>12. UnknownTask(t)'
    BY <2>7, <2>11 DEF UnknownTask, NoneTold
  <2>13. \A p \in MonitorsOf(t) : t \notin again => p = o
    BY <2>1, <2>11 DEF OnceTask, MonitorsOf
  <2>14. 0 \notin MonitorsOf(t)
    BY LenProperties DEF MonitorsOf, Meddling, IInv, Kept, TypeHistory
  <2>15. OnceTask(t)'
    BY <1>2, <2>3, <2>4, <2>7, <2>11, <2>13, <2>14 DEF OnceTask, NoneTold
  <2>16. QED
    BY <1>3, <2>6, <2>10, <2>12, <2>15, OneTouched DEF OnceInv, NoneTold
<1>6. QED
  BY <1>4, <1>5

\* The main thread takes an event of a task.
LEMMA EventTaken ==
  ASSUME IInv, Told, Takes("task"), mainq' = Tail(mainq)
  PROVE  /\ NoneTold /\ Head(mainq).task \in Task /\ Head(mainq).data \in Data
         /\ Head(mainq).data.task = Head(mainq).task
         /\ \A t \in Task : Head(mainq).sort = "add" /\ Head(mainq).task = t =>
              Adds(t) # {} /\ Adds(t)' = {}
<1>1. mainq # <<>> /\ Head(mainq).kind = "task" /\ TypeQueue
  BY DEF Takes, IInv
<1>2. QED
  BY <1>1, TailTold, TaskTaken

LEMMA AddedOnce ==
  ASSUME IInv, OnceInv, Own \subseteq Task, HandleTaskAdded
  PROVE  OnceInv'
<1>1. PICK t \in Task : t = Head(mainq).task
  BY EventTaken DEF HandleTaskAdded, OnceInv
<1>2. PICK data \in Data : data = Head(mainq).data
  BY EventTaken DEF HandleTaskAdded, OnceInv
<1>3. /\ Takes("task") /\ Head(mainq).sort = "add" /\ mainq' = Tail(mainq)
      /\ UNCHANGED <<server, todo, again>>
      /\ IF Tracked(t) THEN UNCHANGED <<historyVars, matched, unmatched>>
         ELSE Categorize(data, unmatched)
  BY <1>1, <1>2 DEF HandleTaskAdded, serverVars
<1>4. NoneTold /\ data.task = t /\ Adds(t) # {} /\ Adds(t)' = {}
  BY <1>1, <1>2, <1>3, EventTaken DEF OnceInv
<1>5. TodoKnown
  BY <1>3 DEF TodoKnown
<1>6. CASE Tracked(t)
  BY <1>3, <1>4, <1>5, <1>6, QuietOnce DEF historyVars
<1>7. CASE ~Tracked(t)
  <2>1. server[t] # "none"
    BY <1>4 DEF OnceInv, Unknown, UnknownTask
  <2>2. t \notin again => MonitorsOf(t) = {} /\ t \notin unmatched
    BY <1>4 DEF OnceInv, Once, OnceTask
  <2>3. QED
    BY <1>3, <1>4, <1>7, <2>1, <2>2, CategorizeOnce
<1>8. QED
  BY <1>6, <1>7

LEMMA UpdatedOnce ==
  ASSUME IInv, OnceInv, Own \subseteq Task, HandleTaskUpdated
  PROVE  OnceInv'
<1>1. PICK t \in Task : t = Head(mainq).task
  BY EventTaken DEF HandleTaskUpdated, TaskUpdate, OnceInv
<1>2. PICK data \in Data : data = Head(mainq).data
  BY EventTaken DEF HandleTaskUpdated, TaskUpdate, OnceInv
<1>3. /\ Takes("task") /\ mainq' = Tail(mainq) /\ UNCHANGED <<server, todo, again>>
      /\ \/ t \in unmatched /\ Categorize(data, unmatched \ {t})
         \/ matched[t] # 0 /\ matched' = [matched EXCEPT ![t] = 0] /\ UNCHANGED unmatched
            /\ Complete(matched[t])
         \/ UNCHANGED <<historyVars, matched, unmatched>>
  BY <1>1, <1>2 DEF HandleTaskUpdated, TaskUpdate, Updated, serverVars
<1>4. NoneTold /\ data.task = t
  BY <1>1, <1>2, <1>3, EventTaken DEF OnceInv
<1>5. TodoKnown
  BY <1>3 DEF TodoKnown
<1>6. CASE UNCHANGED <<historyVars, matched, unmatched>>
  BY <1>3, <1>4, <1>5, <1>6, QuietOnce DEF historyVars
<1>7. CASE t \in unmatched /\ Categorize(data, unmatched \ {t})
  <2>1. server[t] # "none"
    BY <1>7 DEF OnceInv, Unknown, UnknownTask
  <2>2. t \notin again => MonitorsOf(t) = {} /\ Adds(t)' = {}
    BY <1>4, <1>7 DEF OnceInv, Once, OnceTask, NoneTold
  <2>3. unmatched \ {t} \in SUBSET unmatched /\ t \notin unmatched \ {t}
    OBVIOUS
  <2>4. QED
    BY <1>3, <1>4, <1>7, <2>1, <2>2, <2>3, CategorizeOnce
<1>8. CASE matched[t] # 0 /\ matched' = [matched EXCEPT ![t] = 0] /\ UNCHANGED unmatched
           /\ Complete(matched[t])
  BY <1>3, <1>4, <1>8, CompleteOnce
<1>9. QED
  BY <1>3, <1>6, <1>7, <1>8

LEMMA RemovedOnce ==
  ASSUME IInv, OnceInv, Own \subseteq Task, HandleTaskRemoved
  PROVE  OnceInv'
<1>1. PICK t \in Task : t = Head(mainq).task
  BY EventTaken DEF HandleTaskRemoved, OnceInv
<1>2. /\ Takes("task") /\ mainq' = Tail(mainq) /\ UNCHANGED <<server, todo, again>>
      /\ unmatched' = unmatched \ {t} /\ matched' = [matched EXCEPT ![t] = 0]
      /\ IF matched[t] # 0 THEN Complete(matched[t]) ELSE UNCHANGED historyVars
  BY <1>1 DEF HandleTaskRemoved, serverVars
<1>3. NoneTold
  BY <1>2, EventTaken DEF OnceInv
<1>4. unmatched' \subseteq unmatched
  BY <1>2
<1>5. QED
  BY <1>2, <1>3, <1>4, CompleteOnce

\* A rehydration leaves a task that is known already to no promise.
LEMMA RehydrateOnce ==
  ASSUME IInv, OnceInv, Own \subseteq Task, RehydrateTask
  PROVE  OnceInv'
<1>1. PICK data \in todo :
        /\ todo' = todo \ {data}
        /\ again' = IF FoundAgain(data.task) THEN again \cup {data.task} ELSE again
        /\ Categorize(data, unmatched)
        /\ UNCHANGED <<serverVars, userVars, mainq, cancelVars>>
  BY DEF RehydrateTask
<1>2. data \in Data /\ data.task \in Task
  BY <1>1 DEF IInv, TypeTasks, Data
<1>3. NoneTold /\ again \subseteq again' /\ todo' \subseteq todo /\ UNCHANGED server
  BY <1>1, QuietTold DEF IInv, OnceInv, serverVars
<1>4. server[data.task] # "none"
  BY <1>1, <1>2 DEF OnceInv, Unknown, UnknownTask
<1>5. ASSUME data.task \notin again'
      PROVE  MonitorsOf(data.task) = {} /\ data.task \notin unmatched /\ Adds(data.task)' = {}
  <2>1. ~FoundAgain(data.task)
    BY <1>1, <1>5
  <2>2. MonitorsOf(data.task) = {} /\ data.task \notin unmatched /\ Adds(data.task) = {}
    BY <2>1 DEF FoundAgain, Tracked, MonitorsOf, Adds, IsTask
  <2>3. QED
    BY <1>2, <1>3, <2>2 DEF NoneTold
<1>6. QED
  BY <1>1, <1>2, <1>3, <1>4, <1>5, CategorizeOnce

\* A session begins or ends, which may have all tasks looked at.
LEMMA SessionOnce ==
  ASSUME IInv, OnceInv, Own \subseteq Task, Connect \/ Disconnect \/ HandleConnected
  PROVE  OnceInv'
<1>1. UNCHANGED <<ops, matched, unmatched, again, server>>
  BY DEF Connect, Disconnect, HandleConnected, historyVars, taskVars, serverVars
<1>2. TodoKnown
  BY DEF TodoKnown, Connect, Disconnect, HandleConnected, AllTaskRecords, Snapshot, serverVars
<1>3. NoneTold
  <2>1. CASE Connect
    <3>1. [kind |-> "connected"] \in Msg
      BY DEF Msg
    <3>2. mainq' = Append(mainq, [kind |-> "connected"])
      BY <2>1 DEF Connect
    <3>3. QED
      BY <3>1, <3>2, AppendTold DEF IInv, OnceInv
  <2>2. CASE Disconnect
    BY <2>2, QuietTold DEF Disconnect, IInv, OnceInv
  <2>3. CASE HandleConnected
    BY <2>3, TailTold DEF HandleConnected, Takes, IInv, OnceInv
  <2>4. QED
    BY <2>1, <2>2, <2>3
<1>4. QED
  BY <1>1, <1>2, <1>3, QuietOnce

\* What the user does, and the update of a record.
LEMMA UserOnce ==
  ASSUME IInv, OnceInv, Own \subseteq Task,
         Dismiss \/ ToggleShowAll \/ UpdateRecord \/ \E o \in DOMAIN ops : CancelOperation(o)
  PROVE  OnceInv'
<1>1. UNCHANGED <<ops, matched, unmatched, again, server>>
  BY DEF Dismiss, ToggleShowAll, UpdateRecord, CancelOperation, RemoveRecords, historyVars,
     taskVars, serverVars
<1>2. TodoKnown
  BY DEF TodoKnown, Dismiss, ToggleShowAll, UpdateRecord, CancelOperation, AllTaskRecords,
     Snapshot, serverVars
<1>3. NoneTold
  <2>1. CASE mainq' = mainq
    BY <2>1, QuietTold DEF IInv, OnceInv
  <2>2. CASE UpdateRecord
    BY <2>2, TailTold DEF UpdateRecord, Takes, IInv, OnceInv
  <2>3. QED
    BY <2>1, <2>2 DEF Dismiss, ToggleShowAll, CancelOperation
<1>4. QED
  BY <1>1, <1>2, <1>3, QuietOnce

\* The operation that is cancelled monitors no task.
LEMMA CancelSetsOnce ==
  ASSUME IInv, OnceInv, Own \subseteq Task, CancelSets
  PROVE  OnceInv'
<1> DEFINE o == cancelling
           e == [ops[o] EXCEPT !.state = "Cancelled"]
<1>1. /\ o \in DOMAIN ops /\ ops[o].step # "none" /\ ops' = [ops EXCEPT ![o] = e]
      /\ UNCHANGED <<server, mainq, matched, unmatched, again, todo>>
  BY DEF CancelSets, IInv, Kept, Cancels, taskVars, serverVars
<1>2. ops[o] \in Op
  BY <1>1, LenProperties, ElementOfSeq DEF IInv, Kept, TypeHistory
<1>3. e.step = ops[o].step /\ e.task = ops[o].task
  BY <1>2 DEF Op
<1> HIDE DEF o, e
<1>4. /\ DOMAIN ops' = DOMAIN ops /\ \A p \in DOMAIN ops \ {o} : ops'[p] = ops[p]
      /\ ops'[o].step = ops[o].step /\ ops'[o].task = ops[o].task
  BY <1>1, <1>3
<1>5. SameStarters
  BY <1>4 DEF SameStarters
<1>6. Meddling' = Meddling /\ \A p \in Meddling : ops'[p] = ops[p]
  BY <1>1, <1>4 DEF Meddling
<1>7. \A t : SameMonitors(t)
  BY <1>6 DEF SameMonitors, MonitorsOf
<1>8. NoneTold
  BY <1>1, QuietTold DEF IInv, OnceInv
<1>9. Starters'
  BY <1>1, <1>5, StartersStay DEF OnceInv
<1>10. \A t \in Task : Untouched(t)
  BY <1>1, <1>7, <1>8 DEF Untouched, NoneTold
<1>11. TodoKnown /\ again \subseteq again'
  BY <1>1 DEF TodoKnown
<1>12. QED
  BY <1>8, <1>9, <1>10, <1>11, AllUntouched DEF OnceInv, NoneTold

LEMMA InitOnce == Init => OnceInv
<1> SUFFICES ASSUME Init PROVE OnceInv
  OBVIOUS
<1>1. DOMAIN ops = {} /\ DOMAIN mainq = {}
  BY EmptySeq DEF Init
<1>2. \A t : StartersOf(t) = {} /\ MonitorsOf(t) = {} /\ Adds(t) = {}
  BY <1>1 DEF StartersOf, MonitorsOf, Meddling, Adds
<1>3. Starters
  BY <1>1, <1>2, HistoryAssumption DEF Starters, Init
<1>4. Told
  BY <1>1, <1>2 DEF Told
<1>5. Unknown /\ Once
  BY <1>2 DEF Unknown, UnknownTask, Once, OnceTask, Init
<1>6. QED
  BY <1>3, <1>4, <1>5 DEF OnceInv

LEMMA NextOnce == IInv /\ OnceInv /\ [Next]_vars => OnceInv'
<1> SUFFICES ASSUME IInv, OnceInv, [Next]_vars PROVE OnceInv'
  OBVIOUS
<1> USE HistoryAssumption
<1>1. ASSUME NEW t \in Task,
             TaskBegins(t) \/ TaskGetsOld(t) \/ TaskEnds(t) \/ TaskGone(t) \/ RunOperation(t)
      PROVE  OnceInv'
  BY <1>1, ServerOnce, RunOperationOnce
<1>2. ASSUME NEW o \in DOMAIN ops, Worker(o) PROVE OnceInv'
  BY <1>2, WorkerOnce
<1>3. CASE Connect \/ Disconnect \/ HandleConnected
  BY <1>3, SessionOnce
<1>4. CASE \/ Dismiss \/ ToggleShowAll \/ UpdateRecord
           \/ \E o \in DOMAIN ops : CancelOperation(o)
  BY <1>4, UserOnce
<1>5. CASE \/ HandleTaskAdded \/ HandleTaskUpdated \/ HandleTaskRemoved \/ RehydrateTask
           \/ CancelSets
  BY <1>5, AddedOnce, UpdatedOnce, RemovedOnce, RehydrateOnce, CancelSetsOnce
<1>6. CASE UNCHANGED vars
  <2>1. UNCHANGED <<ops, matched, unmatched, again, server, todo, mainq>>
    BY <1>6 DEF vars, historyVars, taskVars, serverVars
  <2>2. NoneTold /\ TodoKnown
    BY <2>1, QuietTold DEF IInv, OnceInv, TodoKnown
  <2>3. QED
    BY <2>1, <2>2, QuietOnce
<1>7. QED
  BY <1>1, <1>2, <1>3, <1>4, <1>5, <1>6 DEF Next, MainThread

LEMMA OnceImplied == IInv /\ OnceInv => MonitoredOnce
<1> SUFFICES ASSUME IInv, OnceInv, NEW t \in Task \ again
             PROVE  LET monitors == {o \in Meddling : ops[o].task = t} IN
                    /\ \A o, p \in monitors : o = p
                    /\ \A o \in monitors : ops[o].state = "Running" <=> matched[t] = o
                    /\ matched[t] # 0 => t \notin unmatched
  BY DEF MonitoredOnce
<1>1. OnceTask(t)
  BY DEF OnceInv, Once
<1>2. matched[t] # 0 => matched[t] \in MonitorsOf(t)
  BY DEF IInv, Monitors, MonitorsOf
<1>3. QED
  BY <1>1, <1>2 DEF OnceTask, MonitorsOf

\* A task that no rehydration has come upon twice has one MeddlingAction at most, which
\* runs exactly as long as m_matchedTasks has it for the task, and while it does the task
\* does not wait in m_unmatchedTasks: however its events, the rehydrations and the
\* operations of this program follow one another.
THEOREM MonitoredOnceAlways == SafeSpec => []MonitoredOnce
<1>1. SafeSpec => []OnceInv
  BY InitOnce, NextOnce, Invariance, PTL DEF SafeSpec
<1>2. QED
  BY <1>1, Invariance, OnceImplied, PTL
=========================================================================================
