------------------------- MODULE ConnectionWorkerProofs -------------------------
(***************************************************************************)
(* What holds of ConnectionWorker for any number of requests and of late   *)
(* answers.                                                                *)
(***************************************************************************)
EXTENDS ConnectionWorker, FiniteSetTheorems, SequenceTheorems, TLAPS

\* TypeOK is not inductive: that what is stored and written is a request rests on
\* the thread having one in these phases.
Busy == working # 0 <=> phase \in {"write", "read", "store"}
TypeInv == TypeOK /\ Busy

\* What is left of a sequence behind its n-th element.
LEMMA SuffixType ==
  ASSUME NEW S, NEW q \in Seq(S), NEW n \in 0..Len(q)
  PROVE  /\ SubSeq(q, n + 1, Len(q)) \in Seq(S)
         /\ Len(SubSeq(q, n + 1, Len(q))) = Len(q) - n
         /\ \A i \in 1..(Len(q) - n) : SubSeq(q, n + 1, Len(q))[i] = q[i + n]
         /\ n # 0 => q[n] \in S
  <1>1. Len(q) \in Nat /\ (\A i \in 1..Len(q) : q[i] \in S)
    BY LenProperties, ElementOfSeq
  <1>2. /\ n + 1 \in Int /\ Len(q) \in Int
        /\ \A i \in (n + 1)..Len(q) : q[i] \in S
        /\ n # 0 => q[n] \in S
    BY <1>1
  <1> DEFINE t == SubSeq(q, n + 1, Len(q))
  <1>3. /\ t \in Seq(S)
        /\ Len(t) = IF n + 1 <= Len(q) THEN Len(q) - (n + 1) + 1 ELSE 0
        /\ \A i \in 1..(Len(q) - (n + 1) + 1) : t[i] = q[n + 1 + i - 1]
    BY <1>2, SubSeqProperties
  <1> HIDE DEF t
  <1>4. /\ Len(t) = Len(q) - n
        /\ \A i \in 1..(Len(q) - n) : t[i] = q[i + n]
    <2>1. Len(q) - (n + 1) + 1 = Len(q) - n /\ (n + 1 <= Len(q) \/ Len(q) - n = 0)
      BY <1>1
    <2>2. \A i \in 1..(Len(q) - n) : n + 1 + i - 1 = i + n
      BY <1>1
    <2>3. QED
      BY <1>1, <1>3, <2>1, <2>2
  <1>5. QED
    BY <1>2, <1>3, <1>4 DEF t

LEMMA AnswerType ==
  ASSUME NEW i \in Ids
  PROVE  /\ Whole(i) \in Answers /\ Whole(i).of = i /\ Whole(i).whole = TRUE
         /\ Piece(i) \in Answers /\ Piece(i).of = i /\ Piece(i).whole = FALSE
  BY DEF Whole, Piece, Answers

LEMMA TakenType ==
  ASSUME TypeOK, NEW n \in 0..Len(inbuf), TakenUpTo(n)
  PROVE  inbuf' \in Seq(Ids) /\ rest' \in {0} \cup Ids
  BY SuffixType DEF TakenUpTo, TypeOK

LEMMA InitTypeInv == Init => TypeInv
  <1>1. <<>> \in Seq(Ids)
    BY EmptySeq
  <1>2. 0 \in 0..MaxLate
    BY WorkerAssumption
  <1>3. QED
    BY <1>1, <1>2 DEF Init, TypeInv, TypeOK, Busy

LEMMA StepTypeInv == TypeInv /\ [Next]_vars => TypeInv'
  <1> SUFFICES ASSUME TypeInv, [Next]_vars PROVE TypeInv'
    OBVIOUS
  <1> USE DEF TypeInv, TypeOK, Busy, callerVars, netVars
  <1>1. CASE Connect
    BY <1>1 DEF Connect
  <1>2. CASE PollLoop
    BY <1>2 DEF PollLoop
  <1>3. CASE TakeRequest
    <2>1. CASE pending = <<>>
      BY <1>3, <2>1 DEF TakeRequest
    <2>2. CASE pending # <<>>
      <3>1. Head(pending) \in Ids /\ Tail(pending) \in Seq(Ids)
        BY <2>2, HeadTailProperties
      <3>2. Head(pending) # 0
        BY <3>1 DEF Ids
      <3>3. QED
        BY <1>3, <2>2, <3>1, <3>2 DEF TakeRequest
    <2>3. QED
      BY <2>1, <2>2
  <1>4. CASE Write
    BY <1>4, AppendProperties DEF Write
  <1>5. CASE WriteFails
    <2>1. Append(server, working) \in Seq(Ids)
      BY <1>5, AppendProperties DEF WriteFails
    <2>2. late < MaxLate => late + 1 \in 0..MaxLate
      BY WorkerAssumption
    <2>3. server' \in Seq(Ids) /\ late' \in 0..MaxLate
      BY <1>5, <2>1, <2>2 DEF WriteFails
    <2>4. QED
      BY <1>5, <2>3 DEF WriteFails
  <1>6. CASE Read
    <2>1. Head(inbuf) \in Ids /\ Tail(inbuf) \in Seq(Ids)
      BY <1>6, HeadTailProperties DEF Read
    <2>2. response' \in Answers \cup {Nothing}
      BY <1>6, <2>1, AnswerType DEF Read
    <2>3. \A n \in 1..Len(inbuf) : TakenUpTo(n) => inbuf' \in Seq(Ids) /\ rest' \in {0} \cup Ids
      <3> SUFFICES ASSUME NEW n \in 1..Len(inbuf), TakenUpTo(n)
                   PROVE  inbuf' \in Seq(Ids) /\ rest' \in {0} \cup Ids
        OBVIOUS
      <3>1. n \in 0..Len(inbuf)
        <4>1. inbuf \in Seq(Ids)
          BY DEF TypeInv, TypeOK
        <4>2. QED
          BY <4>1, LenProperties
      <3>2. QED
        BY <3>1, TakenType
    <2>4. QED
      BY <1>6, <2>1, <2>2, <2>3 DEF Read
  <1>18. CASE ReadRest
    <2>1. response' \in Answers
      BY <1>18 DEF ReadRest, Answers, Piece
    <2>2. inbuf' \in Seq(Ids) /\ rest' \in {0} \cup Ids
      BY <1>18, TakenType DEF ReadRest
    <2>3. late' \in 0..MaxLate
      BY <1>18, WorkerAssumption DEF ReadRest
    <2>4. QED
      BY <1>18, <2>1, <2>2, <2>3 DEF ReadRest
  <1>7. CASE ReadTimesOut
    BY <1>7, WorkerAssumption DEF ReadTimesOut
  <1>8. CASE Store
    BY <1>8, AppendProperties DEF Store
  <1>9. CASE Cleanup
    BY <1>9, EmptySeq DEF Cleanup
  <1>10. ASSUME NEW b \in BOOLEAN, QueueRequest(b) PROVE TypeInv'
    BY <1>10, AppendProperties DEF QueueRequest
  <1>11. ASSUME NEW i \in Ids, GetResponse(i) PROVE TypeInv'
    BY <1>11 DEF GetResponse
  <1>12. ASSUME NEW i \in Ids, WaitTimesOut(i) PROVE TypeInv'
    BY <1>12 DEF WaitTimesOut
  <1>13. CASE RequestStop
    BY <1>13 DEF RequestStop
  <1>14. CASE ServerAnswers
    <2>1. Head(server) \in Ids /\ Tail(server) \in Seq(Ids)
      BY <1>14, HeadTailProperties DEF ServerAnswers
    <2>3. inbuf' \in Seq(Ids)
      BY <1>14, <2>1, AppendProperties DEF ServerAnswers
    <2>4. QED
      BY <1>14, <2>1, <2>3 DEF ServerAnswers
  <1>15. CASE LoseConnection
    BY <1>15, EmptySeq DEF LoseConnection
  <1>16. CASE UNCHANGED vars
    BY <1>16 DEF vars
  <1>17. QED
    BY <1>1, <1>2, <1>3, <1>4, <1>5, <1>6, <1>7, <1>8, <1>9, <1>10, <1>11, <1>12, <1>13,
       <1>14, <1>15, <1>16, <1>18 DEF Next, WorkerStep

\* Every variable of the worker keeps its kind, for any number of requests
\* (connectionworker.cpp).
THEOREM TypeCorrect == SafeSpec => []TypeOK
  <1>1. TypeInv => TypeOK
    BY DEF TypeInv
  <1>2. QED
    BY <1>1, InitTypeInv, StepTypeInv, PTL DEF SafeSpec
---------------------------------------------------------------------------------
\* The requests that are somewhere in the worker, and the order they are sent in.
Working == {working} \ {0}
Sent == Working \cup CompletedIds \cup Elems(signalled)
InWorker == Elems(pending) \cup Working \cup CompletedIds

Increasing(q) == \A j, k \in 1..Len(q) : j < k => q[j] < q[k]

\* Ids are given out without a gap, so the next one is larger than all in use.
NumberedInv == \E n \in 0..MaxRequests : Queued = 1..n

OrderInv ==
  /\ NumberedInv
  /\ Increasing(pending)
  /\ Elems(pending) \cup Sent \subseteq Queued
  /\ \A s \in Sent, p \in Elems(pending) : s < p

LEMMA NextIdIsLarger ==
  ASSUME NumberedInv
  PROVE  /\ NextId \in Nat \ {0}
         /\ Queued = 1..(NextId - 1)
         /\ NextId \notin Queued
         /\ \A i \in Queued : i < NextId
  <1>1. PICK n \in 0..MaxRequests : Queued = 1..n
    BY DEF NumberedInv
  <1>2. Cardinality(1..n) = n
    BY <1>1, FS_Interval
  <1>3. NextId = n + 1
    BY <1>1, <1>2 DEF NextId
  <1>4. QED
    BY <1>1, <1>3

LEMMA AppendElems ==
  ASSUME NEW S, NEW q \in Seq(S), NEW e \in S
  PROVE  Elems(Append(q, e)) = Elems(q) \cup {e}
  <1> DEFINE a == Append(q, e)
  <1>1. /\ Len(a) = Len(q) + 1 /\ Len(q) \in Nat
        /\ \A i \in 1..Len(q) : a[i] = q[i]
        /\ a[Len(q) + 1] = e
    BY AppendProperties, LenProperties
  <1> HIDE DEF a
  <1>2. \A i \in 1..Len(a) : (i \in 1..Len(q) /\ a[i] = q[i]) \/ (i = Len(q) + 1 /\ a[i] = e)
    BY <1>1
  <1>3. 1..Len(q) \subseteq 1..Len(a) /\ Len(q) + 1 \in 1..Len(a)
    BY <1>1
  <1>4. Elems(a) \subseteq Elems(q) \cup {e}
    BY <1>2 DEF Elems
  <1>5. Elems(q) \cup {e} \subseteq Elems(a)
    BY <1>1, <1>3 DEF Elems
  <1>6. QED
    BY <1>4, <1>5 DEF a

LEMMA AppendIncreasing ==
  ASSUME NEW q \in Seq(Nat), NEW e \in Nat, Increasing(q), \A p \in Elems(q) : p < e
  PROVE  Increasing(Append(q, e))
  <1> DEFINE a == Append(q, e)
  <1>1. /\ Len(a) = Len(q) + 1 /\ Len(q) \in Nat
        /\ \A i \in 1..Len(q) : a[i] = q[i] /\ q[i] < e
        /\ a[Len(q) + 1] = e
    BY AppendProperties, LenProperties DEF Elems
  <1> HIDE DEF a
  <1>2. ASSUME NEW j \in 1..Len(a), NEW k \in 1..Len(a), j < k PROVE a[j] < a[k]
    <2>1. j \in 1..Len(q)
      BY <1>1, <1>2
    <2>2. CASE k \in 1..Len(q)
      BY <1>1, <1>2, <2>1, <2>2 DEF Increasing
    <2>3. CASE k = Len(q) + 1
      BY <1>1, <2>1, <2>3
    <2>4. QED
      BY <1>1, <2>2, <2>3
  <1>3. QED
    BY <1>2 DEF Increasing, a

LEMMA TailElems ==
  ASSUME NEW S, NEW q \in Seq(S), q # <<>>
  PROVE  Elems(q) = {Head(q)} \cup Elems(Tail(q))
  <1> DEFINE t == Tail(q)
  <1>1. /\ Len(t) = Len(q) - 1 /\ Len(q) \in Nat \ {0}
        /\ \A i \in 1..Len(t) : t[i] = q[i + 1]
        /\ Head(q) = q[1]
    BY HeadTailProperties, EmptySeq
  <1> HIDE DEF t
  <1>2. \A i \in 1..Len(t) : t[i] = q[i + 1] /\ i + 1 \in 1..Len(q)
    BY <1>1
  <1>3. \A i \in 1..Len(q) : i = 1 \/ (i - 1 \in 1..Len(t) /\ t[i - 1] = q[i])
    BY <1>1
  <1>4. Elems(q) \subseteq {q[1]} \cup Elems(t)
    BY <1>3 DEF Elems
  <1>5. {q[1]} \cup Elems(t) \subseteq Elems(q)
    BY <1>1, <1>2 DEF Elems
  <1>6. QED
    BY <1>1, <1>4, <1>5 DEF t

LEMMA TailIncreasing ==
  ASSUME NEW q \in Seq(Nat), q # <<>>, Increasing(q)
  PROVE  /\ Increasing(Tail(q))
         /\ \A p \in Elems(Tail(q)) : Head(q) < p
  <1> DEFINE t == Tail(q)
  <1>1. /\ Len(t) = Len(q) - 1 /\ Len(q) \in Nat \ {0}
        /\ \A i \in 1..Len(t) : t[i] = q[i + 1]
        /\ Head(q) = q[1]
    BY HeadTailProperties, EmptySeq
  <1> HIDE DEF t
  <1>2. \A i \in 1..Len(t) : t[i] = q[i + 1] /\ i + 1 \in 1..Len(q) /\ 1 < i + 1
    BY <1>1
  <1>3. ASSUME NEW j \in 1..Len(t), NEW k \in 1..Len(t), j < k PROVE t[j] < t[k]
    <2>1. j + 1 \in 1..Len(q) /\ k + 1 \in 1..Len(q) /\ j + 1 < k + 1
      BY <1>2, <1>3
    <2>2. q[j + 1] < q[k + 1]
      BY <2>1 DEF Increasing
    <2>3. QED
      BY <1>2, <2>2
  <1>4. \A i \in 1..Len(t) : q[1] < t[i]
    BY <1>1, <1>2 DEF Increasing
  <1>5. QED
    BY <1>1, <1>3, <1>4 DEF Increasing, Elems, t

\* What the sent requests become in the steps that change them.
LEMMA SentSteps ==
  ASSUME TypeInv
  PROVE  /\ TakeRequest /\ pending # <<>> => Sent' = Sent \cup {Head(pending)} /\ Working = {}
         /\ Store => Sent' = Sent /\ working \in Working
         /\ \A i \in Ids : GetResponse(i) => Sent' \subseteq Sent
  <1> USE DEF TypeInv, TypeOK, Busy, Sent, Working, CompletedIds
  <1>1. ASSUME TakeRequest, pending # <<>> PROVE Sent' = Sent \cup {Head(pending)} /\ Working = {}
    <2>1. Head(pending) \in Ids
      BY <1>1, HeadTailProperties
    <2>2. Head(pending) # 0
      BY <2>1 DEF Ids
    <2>3. working = 0 /\ working' = Head(pending) /\ completed' = completed /\ signalled' = signalled
      BY <1>1 DEF TakeRequest
    <2>4. QED
      BY <2>2, <2>3
  <1>2. ASSUME Store PROVE Sent' = Sent /\ working \in Working
    <2>1. working \in Ids /\ working # 0 /\ working' = 0
      BY <1>2 DEF Store
    <2>2. CompletedIds' = CompletedIds \cup {working}
      <3> DEFINE e == [id |-> working, response |-> response]
      <3>1. completed' = completed \cup {e} /\ e.id = working
        BY <1>2 DEF Store
      <3> HIDE DEF e
      <3>2. QED
        BY <3>1
    <2>3. Elems(signalled') \subseteq Elems(signalled) \cup {working}
          /\ Elems(signalled) \subseteq Elems(signalled')
      BY <1>2, <2>1, AppendElems DEF Store
    <2>4. QED
      BY <2>1, <2>2, <2>3
  <1>3. ASSUME NEW i \in Ids, GetResponse(i) PROVE Sent' \subseteq Sent
    BY <1>3 DEF GetResponse, callerVars
  <1>4. QED
    BY <1>1, <1>2, <1>3

\* The steps that neither queue a request nor move one.
QuietStep ==
  \/ Connect \/ PollLoop \/ Write \/ WriteFails \/ Read \/ ReadRest \/ ReadTimesOut \/ Cleanup
  \/ (\E i \in Ids : WaitTimesOut(i))
  \/ RequestStop \/ ServerAnswers \/ LoseConnection \/ UNCHANGED vars

LEMMA QuietMoves ==
  ASSUME TypeInv, QuietStep
  PROVE  /\ UNCHANGED <<pending, working, completed, signalled, got>>
         /\ Queued' = Queued
         /\ \A i \in Ids : caller'[i] = "answered" <=> caller[i] = "answered"
  <1>1. CASE \E i \in Ids : WaitTimesOut(i)
    BY <1>1 DEF WaitTimesOut, TypeInv, TypeOK, Queued
  <1>2. CASE UNCHANGED vars
    BY <1>2 DEF vars, callerVars, Queued
  <1>3. CASE Connect \/ PollLoop \/ RequestStop \/ ServerAnswers \/ LoseConnection
    BY <1>3 DEF Connect, PollLoop, RequestStop, ServerAnswers, LoseConnection, callerVars, Queued
  <1>4. CASE Write \/ WriteFails \/ Read \/ ReadRest \/ ReadTimesOut \/ Cleanup
    BY <1>4 DEF Write, WriteFails, Read, ReadRest, ReadTimesOut, Cleanup, callerVars, Queued
  <1>5. QED
    BY <1>1, <1>2, <1>3, <1>4 DEF QuietStep

LEMMA NextSteps ==
  ASSUME [Next]_vars
  PROVE  \/ QuietStep \/ TakeRequest \/ Store
         \/ \E b \in BOOLEAN : QueueRequest(b)
         \/ \E i \in Ids : GetResponse(i)
  BY DEF Next, WorkerStep, QuietStep

\* QueueRequest numbers the request after all others.
LEMMA QueueSteps ==
  ASSUME TypeInv, NumberedInv, NEW b \in BOOLEAN, QueueRequest(b)
  PROVE  /\ NextId \in Ids /\ NextId \notin Queued /\ (\A i \in Queued : i < NextId)
         /\ pending' = Append(pending, NextId)
         /\ Queued' = Queued \cup {NextId}
         /\ caller'[NextId] # "answered"
         /\ \A i \in Queued : caller'[i] = caller[i]
         /\ UNCHANGED <<phase, working, completed, signalled, got, response, netVars>>
         /\ NumberedInv'
  <1>1. /\ NextId \in Ids /\ NextId \notin Queued /\ (\A i \in Queued : i < NextId)
        /\ Queued = 1..(NextId - 1)
    BY NextIdIsLarger DEF QueueRequest
  <1>2. /\ caller'[NextId] \in {"async", "waiting"}
        /\ \A i \in Ids \ {NextId} : caller'[i] = caller[i]
    BY <1>1 DEF QueueRequest, TypeInv, TypeOK
  <1>3. Queued' = Queued \cup {NextId}
    BY <1>1, <1>2 DEF Queued
  <1>4. NextId \in 0..MaxRequests /\ Queued' = 1..NextId
    BY <1>1, <1>3, WorkerAssumption DEF Ids
  <1>5. NumberedInv'
    BY <1>4 DEF NumberedInv
  <1>6. QED
    BY <1>1, <1>2, <1>3, <1>5 DEF QueueRequest, netVars, Queued

LEMMA InitOrder == Init => OrderInv
  <1> SUFFICES ASSUME Init PROVE OrderInv
    OBVIOUS
  <1>1. Queued = {} /\ 1..0 = {} /\ 0 \in 0..MaxRequests
    BY WorkerAssumption DEF Init, Queued
  <1>2. Elems(pending) = {} /\ Sent = {}
    BY DEF Init, Elems, Sent, Working, CompletedIds
  <1>3. Increasing(pending)
    BY DEF Init, Increasing
  <1>4. QED
    BY <1>1, <1>2, <1>3 DEF OrderInv, NumberedInv

LEMMA StepOrder == TypeInv /\ OrderInv /\ [Next]_vars => OrderInv'
  <1> SUFFICES ASSUME TypeInv, OrderInv, [Next]_vars PROVE OrderInv'
    OBVIOUS
  <1>a. pending \in Seq(Ids) /\ pending \in Seq(Nat) /\ Ids \subseteq Nat
    <2>1. pending \in Seq(Ids) /\ Ids \subseteq Nat
      BY WorkerAssumption DEF TypeInv, TypeOK, Ids
    <2>2. QED
      BY <2>1, SeqMonotonic
  <1>b. /\ NumberedInv /\ Increasing(pending)
        /\ Elems(pending) \cup Sent \subseteq Queued
        /\ \A s \in Sent, p \in Elems(pending) : s < p
    BY DEF OrderInv
  <1>1. CASE QuietStep
    <2>1. pending' = pending /\ Sent' = Sent /\ Queued' = Queued
      BY <1>1, QuietMoves DEF Sent, Working, CompletedIds
    <2>2. QED
      BY <1>b, <2>1 DEF OrderInv, NumberedInv
  <1>2. CASE TakeRequest
    <2>1. CASE pending = <<>>
      <3>1. UNCHANGED <<pending, working, completed, signalled, caller>>
        BY <1>2, <2>1 DEF TakeRequest, callerVars
      <3>2. pending' = pending /\ Sent' = Sent /\ Queued' = Queued
        BY <3>1 DEF Sent, Working, CompletedIds, Queued
      <3>3. QED
        BY <1>b, <3>2 DEF OrderInv, NumberedInv
    <2>2. CASE pending # <<>>
      <3>1. /\ pending' = Tail(pending) /\ Queued' = Queued
            /\ Sent' = Sent \cup {Head(pending)}
        BY <1>2, <2>2, SentSteps DEF TakeRequest, callerVars, Queued
      <3>2. /\ Elems(pending) = {Head(pending)} \cup Elems(Tail(pending))
            /\ Increasing(Tail(pending))
            /\ \A p \in Elems(Tail(pending)) : Head(pending) < p
        BY <1>a, <1>b, <2>2, TailElems, TailIncreasing
      <3>3. QED
        BY <1>b, <3>1, <3>2 DEF OrderInv, NumberedInv
    <2>3. QED
      BY <2>1, <2>2
  <1>3. CASE Store
    <2>1. pending' = pending /\ Sent' = Sent /\ Queued' = Queued
      BY <1>3, SentSteps DEF Store, callerVars, Queued
    <2>2. QED
      BY <1>b, <2>1 DEF OrderInv, NumberedInv
  <1>4. ASSUME NEW b \in BOOLEAN, QueueRequest(b) PROVE OrderInv'
    <2>1. /\ NextId \in Ids /\ (\A i \in Queued : i < NextId)
          /\ pending' = Append(pending, NextId)
          /\ Queued' = Queued \cup {NextId}
          /\ Sent' = Sent
          /\ NumberedInv'
      BY <1>b, <1>4, QueueSteps DEF Sent, Working, CompletedIds
    <2>2. Elems(pending') = Elems(pending) \cup {NextId}
      BY <1>a, <2>1, AppendElems
    <2>3. Increasing(pending')
      BY <1>a, <1>b, <2>1, AppendIncreasing
    <2>4. QED
      BY <1>b, <2>1, <2>2, <2>3 DEF OrderInv
  <1>5. ASSUME NEW i \in Ids, GetResponse(i) PROVE OrderInv'
    <2>1. pending' = pending /\ Sent' \subseteq Sent
      BY <1>5, SentSteps DEF GetResponse
    <2>2. Queued' = Queued
      BY <1>5 DEF GetResponse, TypeInv, TypeOK, Queued
    <2>3. QED
      BY <1>b, <2>1, <2>2 DEF OrderInv, NumberedInv
  <1>6. QED
    BY <1>1, <1>2, <1>3, <1>4, <1>5, NextSteps

LEMMA OrderIsSentInOrder == TypeInv /\ OrderInv => SentInOrder
  <1> SUFFICES ASSUME TypeInv, OrderInv, NEW j \in 1..Len(pending)
               PROVE  /\ \A k \in 1..(j - 1) : pending[k] < pending[j]
                      /\ working < pending[j]
                      /\ \A i \in CompletedIds \cup Elems(signalled) : i < pending[j]
    BY DEF SentInOrder
  <1>1. pending[j] \in Elems(pending) /\ pending[j] \in Nat \ {0}
    <2>1. pending[j] \in Ids
      BY ElementOfSeq DEF TypeInv, TypeOK
    <2>2. QED
      BY <2>1 DEF Ids, Elems
  <1>2. \A k \in 1..(j - 1) : pending[k] < pending[j]
    <2>1. Len(pending) \in Nat
      BY LenProperties DEF TypeInv, TypeOK
    <2>2. \A k \in 1..(j - 1) : k \in 1..Len(pending) /\ k < j
      BY <2>1
    <2>3. QED
      BY <2>2 DEF OrderInv, Increasing
  <1>3. working < pending[j]
    BY <1>1 DEF OrderInv, Sent, Working, TypeInv, TypeOK, Ids
  <1>4. QED
    BY <1>1, <1>2, <1>3 DEF OrderInv, Sent

\* However many requests are queued, given up on or answered late, they are sent in
\* the order in which they were queued (QueueRequest, processQueuedRequests).
THEOREM AlwaysSentInOrder == SafeSpec => []SentInOrder
  BY InitTypeInv, InitOrder, StepTypeInv, StepOrder, OrderIsSentInOrder, PTL DEF SafeSpec

---------------------------------------------------------------------------------
\* A request is in one place: an entry per id, none of them for the request that is
\* being sent, and none of an answered one.
PlaceInv ==
  /\ \A r, s \in completed : r.id = s.id => r = s
  /\ Working \cap CompletedIds = {}
  /\ \A i \in Queued : i \in InWorker <=> caller[i] # "answered"

LEMMA InitPlace == Init => PlaceInv
  BY DEF Init, PlaceInv, Working, CompletedIds, Queued

LEMMA StepPlace == TypeInv /\ OrderInv /\ PlaceInv /\ [Next]_vars => PlaceInv'
  <1> SUFFICES ASSUME TypeInv, OrderInv, PlaceInv, [Next]_vars PROVE PlaceInv'
    OBVIOUS
  <1>a. /\ NumberedInv
        /\ Elems(pending) \subseteq Queued /\ Working \subseteq Queued /\ CompletedIds \subseteq Queued
        /\ Elems(pending) \cap (Working \cup CompletedIds) = {}
        /\ pending \in Seq(Ids)
    <2>1. \A i \in Queued : ~(i < i)
      BY WorkerAssumption DEF Queued, Ids
    <2>2. QED
      BY <2>1 DEF OrderInv, Sent, TypeInv, TypeOK
  <1>b. /\ \A r, s \in completed : r.id = s.id => r = s
        /\ Working \cap CompletedIds = {}
        /\ \A i \in Queued : i \in InWorker <=> caller[i] # "answered"
    BY DEF PlaceInv
  <1>1. CASE QuietStep
    <2>1. /\ completed' = completed /\ Working' = Working /\ CompletedIds' = CompletedIds
          /\ InWorker' = InWorker /\ Queued' = Queued
          /\ \A i \in Ids : caller'[i] = "answered" <=> caller[i] = "answered"
      BY <1>1, QuietMoves DEF Working, CompletedIds, InWorker
    <2>2. Queued \subseteq Ids
      BY DEF Queued
    <2>3. QED
      BY <1>b, <2>1, <2>2 DEF PlaceInv
  <1>2. CASE TakeRequest
    <2>1. /\ completed' = completed /\ CompletedIds' = CompletedIds
          /\ Queued' = Queued /\ caller' = caller
      BY <1>2 DEF TakeRequest, CompletedIds, Queued, callerVars
    <2>2. CASE pending = <<>>
      <3>1. Working' = Working /\ InWorker' = InWorker
        BY <1>2, <2>1, <2>2 DEF TakeRequest, Working, InWorker
      <3>2. QED
        BY <1>b, <2>1, <3>1 DEF PlaceInv
    <2>3. CASE pending # <<>>
      <3>1. Head(pending) \in Elems(pending) /\ Head(pending) # 0
            /\ Elems(pending) = {Head(pending)} \cup Elems(Tail(pending))
        <4>1. Head(pending) \in Ids
          BY <1>a, <2>3, HeadTailProperties
        <4>2. Elems(pending) = {Head(pending)} \cup Elems(Tail(pending))
          BY <1>a, <2>3, TailElems
        <4>3. QED
          BY <4>1, <4>2 DEF Ids
      <3>2. Working' = {Head(pending)} /\ Working = {}
        BY <1>2, <2>3, <3>1, SentSteps DEF TakeRequest, Working
      <3>3. InWorker' = InWorker
        BY <1>2, <2>1, <2>3, <3>1, <3>2 DEF TakeRequest, InWorker
      <3>4. Working' \cap CompletedIds' = {}
        BY <1>a, <2>1, <3>1, <3>2
      <3>5. QED
        BY <1>b, <2>1, <3>3, <3>4 DEF PlaceInv
    <2>4. QED
      BY <2>2, <2>3
  <1>3. CASE Store
    <2> DEFINE e == [id |-> working, response |-> response]
    <2>1. /\ completed' = completed \cup {e} /\ e.id = working /\ working' = 0
          /\ pending' = pending /\ caller' = caller /\ Queued' = Queued
      BY <1>3 DEF Store, Queued, callerVars
    <2> HIDE DEF e
    <2>2. Working = {working} /\ Working' = {}
      BY <1>3, <2>1, SentSteps DEF Working
    <2>3. CompletedIds' = CompletedIds \cup {working}
      BY <2>1 DEF CompletedIds
    <2>4. InWorker' = InWorker
      BY <2>1, <2>2, <2>3 DEF InWorker
    <2>5. \A r \in completed : r.id # working
      BY <1>b, <2>2 DEF CompletedIds
    <2>6. \A r, s \in completed' : r.id = s.id => r = s
      BY <1>b, <2>1, <2>5
    <2>7. QED
      BY <1>b, <2>1, <2>2, <2>4, <2>6 DEF PlaceInv
  <1>4. ASSUME NEW b \in BOOLEAN, QueueRequest(b) PROVE PlaceInv'
    <2>1. /\ NextId \in Ids /\ NextId \notin Queued
          /\ pending' = Append(pending, NextId)
          /\ Queued' = Queued \cup {NextId}
          /\ caller'[NextId] # "answered"
          /\ \A i \in Queued : caller'[i] = caller[i]
          /\ completed' = completed /\ working' = working
      BY <1>a, <1>4, QueueSteps
    <2>2. Elems(pending') = Elems(pending) \cup {NextId}
      BY <1>a, <2>1, AppendElems
    <2>3. InWorker' = InWorker \cup {NextId}
          /\ Working' = Working /\ CompletedIds' = CompletedIds
      BY <2>1, <2>2 DEF InWorker, Working, CompletedIds
    <2>4. QED
      BY <1>b, <2>1, <2>3 DEF PlaceInv
  <1>5. ASSUME NEW i \in Ids, GetResponse(i) PROVE PlaceInv'
    <2>1. PICK r \in completed : r.id = i /\ completed' = completed \ {r}
      BY <1>5 DEF GetResponse
    <2>2. /\ pending' = pending /\ working' = working /\ Queued' = Queued
          /\ caller'[i] = "answered"
          /\ \A j \in Ids \ {i} : caller'[j] = caller[j]
      BY <1>5 DEF GetResponse, TypeInv, TypeOK, Queued
    <2>3. i \in CompletedIds /\ CompletedIds' = CompletedIds \ {i}
      BY <1>b, <2>1 DEF CompletedIds
    <2>4. i \notin Elems(pending) \cup Working /\ Working' = Working
      BY <1>a, <1>b, <2>2, <2>3 DEF Working
    <2>5. InWorker' = InWorker \ {i}
      BY <2>2, <2>3, <2>4 DEF InWorker
    <2>6. Queued \subseteq Ids
      BY DEF Queued
    <2>7. \A j \in Queued' : j \in InWorker' <=> caller'[j] # "answered"
      BY <1>b, <2>2, <2>5, <2>6
    <2>8. QED
      BY <1>b, <2>1, <2>3, <2>4, <2>7 DEF PlaceInv
  <1>6. QED
    BY <1>1, <1>2, <1>3, <1>4, <1>5, NextSteps

\* A set of which at most one element qualifies has the cardinality of a truth value.
LEMMA OneOrNone ==
  ASSUME NEW S, \A x, y \in S : x = y
  PROVE  Cardinality(S) = IF S = {} THEN 0 ELSE 1
  <1>1. CASE S = {}
    BY <1>1, FS_EmptySet
  <1>2. CASE S # {}
    <2>1. PICK x \in S : TRUE
      BY <1>2
    <2>2. S = {x}
      BY <2>1
    <2>3. QED
      BY <1>2, <2>2, FS_Singleton
  <1>3. QED
    BY <1>1, <1>2

LEMMA PlaceIsOnePlace == TypeInv /\ OrderInv /\ PlaceInv => RequestInOnePlace
  <1> SUFFICES ASSUME TypeInv, OrderInv, PlaceInv, NEW i \in Queued
               PROVE  Cardinality({j \in 1..Len(pending) : pending[j] = i})
                        + (IF working = i THEN 1 ELSE 0)
                        + Cardinality({r \in completed : r.id = i})
                      = IF caller[i] = "answered" THEN 0 ELSE 1
    BY DEF RequestInOnePlace
  <1> DEFINE P == {j \in 1..Len(pending) : pending[j] = i}
             C == {r \in completed : r.id = i}
  <1>1. i \in Nat \ {0} /\ Len(pending) \in Nat
    BY LenProperties DEF Queued, Ids, TypeInv, TypeOK
  <1>2. Cardinality(P) = IF i \in Elems(pending) THEN 1 ELSE 0
    <2>1. ASSUME NEW j \in P, NEW k \in P PROVE j = k
      <3>1. j \in 1..Len(pending) /\ k \in 1..Len(pending) /\ pending[j] = i /\ pending[k] = i
        OBVIOUS
      <3>2. ~(i < i)
        BY <1>1
      <3>3. ~(j < k) /\ ~(k < j)
        BY <3>1, <3>2 DEF OrderInv, Increasing
      <3>4. QED
        BY <1>1, <3>1, <3>3
    <2>2. P = {} <=> i \notin Elems(pending)
      BY DEF Elems
    <2> HIDE DEF P
    <2>3. QED
      BY <2>1, <2>2, OneOrNone
  <1>3. Cardinality(C) = IF i \in CompletedIds THEN 1 ELSE 0
    <2>1. \A r, s \in C : r = s
      BY DEF PlaceInv
    <2>2. C = {} <=> i \notin CompletedIds
      BY DEF CompletedIds
    <2> HIDE DEF C
    <2>3. QED
      BY <2>1, <2>2, OneOrNone
  <1>4. /\ Working \cap CompletedIds = {}
        /\ Elems(pending) \cap (Working \cup CompletedIds) = {}
        /\ i \in InWorker <=> caller[i] # "answered"
    <2>1. \A j \in Queued : ~(j < j)
      BY WorkerAssumption DEF Queued, Ids
    <2>2. QED
      BY <2>1 DEF OrderInv, PlaceInv, Sent
  <1>5. working = i <=> i \in Working
    BY <1>1 DEF Working
  <1> HIDE DEF P, C
  <1>6. QED
    <2>1. Cardinality(P) + (IF working = i THEN 1 ELSE 0) + Cardinality(C)
            = IF caller[i] = "answered" THEN 0 ELSE 1
      BY <1>2, <1>3, <1>4, <1>5 DEF InWorker
    <2>2. QED
      BY <2>1 DEF P, C

\* Whoever gives up, and whatever the worker is doing, a request is neither lost nor
\* doubled (QueueRequest, processQueuedRequests, WaitForResponse).
THEOREM AlwaysInOnePlace == SafeSpec => []RequestInOnePlace
  BY InitTypeInv, InitOrder, InitPlace, StepTypeInv, StepOrder, StepPlace, PlaceIsOnePlace, PTL
  DEF SafeSpec

\* As long as nothing was late, all that is on the wire belongs to the request in
\* the read, and there is nothing but the rest of a cut-off answer in any other phase.
OnWire ==
  \/ server = <<>> /\ inbuf = <<>>
  \/ server = <<working>> /\ inbuf = <<>>
  \/ server = <<>> /\ inbuf = <<working>>

FreshInv ==
  /\ socket # "up" \/ phase = "connecting" => server = <<>>
  /\ late = 0 =>
       /\ phase # "read" => server = <<>> /\ inbuf = <<>>
       /\ phase = "read" => OnWire
       /\ phase = "store" /\ response # Nothing => response.of = working

LEMMA OneElement ==
  ASSUME NEW x
  PROVE  Head(<<x>>) = x /\ Tail(<<x>>) = <<>> /\ Append(<<>>, x) = <<x>>
  OBVIOUS

LEMMA InitFresh == Init => FreshInv /\ AnswersMatch
  BY DEF Init, FreshInv, AnswersMatch

LEMMA StepFresh == TypeInv /\ FreshInv /\ AnswersMatch /\ [Next]_vars => FreshInv' /\ AnswersMatch'
  <1> SUFFICES ASSUME TypeInv, FreshInv, AnswersMatch, [Next]_vars
               PROVE  FreshInv' /\ AnswersMatch'
    OBVIOUS
  <1> USE DEF callerVars, netVars
  <1>a. late' = 0 => late = 0
    <2>1. late \in Nat
      BY WorkerAssumption DEF TypeInv, TypeOK
    <2>2. late' = late \/ late' = late + 1
      BY DEF Next, WorkerStep, Connect, PollLoop, TakeRequest, Write, WriteFails, Read, ReadRest,
         ReadTimesOut, Store, Cleanup, QueueRequest, GetResponse, WaitTimesOut, RequestStop, ServerAnswers,
         LoseConnection, vars
    <2>3. QED
      BY <2>1, <2>2
  <1>1. CASE Connect \/ PollLoop \/ TakeRequest \/ Cleanup
    <2>1. CASE Connect
      BY <1>a, <2>1 DEF Connect, FreshInv, AnswersMatch
    <2>2. CASE PollLoop \/ TakeRequest
      BY <1>a, <2>2 DEF PollLoop, TakeRequest, FreshInv, AnswersMatch
    <2>3. CASE Cleanup
      BY <1>a, <2>3 DEF Cleanup, FreshInv, AnswersMatch
    <2>4. QED
      BY <1>1, <2>1, <2>2, <2>3
  <1>2. CASE Write
    <2>1. late = 0 => server = <<>> /\ inbuf = <<>>
      BY <1>2 DEF Write, FreshInv
    <2>2. late' = 0 => OnWire'
      BY <1>2, <1>a, <2>1 DEF Write, OnWire
    <2>3. QED
      BY <1>2, <1>a, <2>2 DEF Write, FreshInv, AnswersMatch
  <1>3. CASE WriteFails
    <2>1. late \in Nat
      BY WorkerAssumption DEF TypeInv, TypeOK
    <2>2. QED
      BY <1>3, <1>a, <2>1 DEF WriteFails, FreshInv, AnswersMatch
  <1>4. CASE Read
    <2>1. late = 0 => server = <<>> /\ inbuf = <<working>>
      BY <1>4 DEF Read, FreshInv, OnWire
    <2>2. response' # Nothing => response'.of = Head(inbuf)
      BY <1>4 DEF Read, Whole, Piece
    <2>3. late = 0 => Head(inbuf) = working /\ inbuf' = <<>>
      <3>1. \A n \in 1..Len(inbuf) : late = 0 /\ TakenUpTo(n) => inbuf' = <<>>
        <4> SUFFICES ASSUME NEW n \in 1..Len(inbuf), late = 0, TakenUpTo(n) PROVE inbuf' = <<>>
          OBVIOUS
        <4>1. inbuf \in Seq(Ids) /\ Len(inbuf) = 1 /\ n = 1
          <5>1. inbuf = <<working>> /\ Len(<<working>>) = 1
            BY <2>1
          <5>2. inbuf \in Seq(Ids)
            BY DEF TypeInv, TypeOK
          <5>3. QED
            BY <5>1, <5>2
        <4>2. n \in 0..Len(inbuf) /\ Len(inbuf) - n = 0
          BY <4>1
        <4>3. inbuf' = SubSeq(inbuf, n + 1, Len(inbuf))
          BY DEF TakenUpTo
        <4>4. inbuf' \in Seq(Ids) /\ Len(inbuf') = 0
          <5>1. SubSeq(inbuf, n + 1, Len(inbuf)) \in Seq(Ids)
            BY <4>1, <4>2, SuffixType
          <5>2. Len(SubSeq(inbuf, n + 1, Len(inbuf))) = Len(inbuf) - n
            BY <4>1, <4>2, SuffixType
          <5>3. QED
            BY <4>2, <4>3, <5>1, <5>2
        <4>5. QED
          BY <4>4, EmptySeq
      <3>2. QED
        BY <1>4, <2>1, <3>1, OneElement DEF Read
    <2>4. QED
      BY <1>4, <1>a, <2>1, <2>2, <2>3 DEF Read, FreshInv, AnswersMatch
  <1>15. CASE ReadRest
    <2>1. late \in Nat
      BY WorkerAssumption DEF TypeInv, TypeOK
    <2>2. QED
      BY <1>15, <1>a, <2>1 DEF ReadRest, FreshInv, AnswersMatch
  <1>5. CASE ReadTimesOut
    <2>1. late \in Nat
      BY WorkerAssumption DEF TypeInv, TypeOK
    <2>2. QED
      BY <1>5, <1>a, <2>1 DEF ReadTimesOut, FreshInv, AnswersMatch
  <1>6. CASE Store
    <2> DEFINE e == [id |-> working, response |-> response]
    <2>1. completed' = completed \cup {e} /\ e.id = working /\ e.response = response
      BY <1>6 DEF Store
    <2> HIDE DEF e
    <2>2. late' = 0 => \A r \in completed' : r.response # Nothing => r.response.of = r.id
      BY <1>6, <1>a, <2>1 DEF Store, FreshInv, AnswersMatch
    <2>3. QED
      BY <1>6, <1>a, <2>2 DEF Store, FreshInv, AnswersMatch
  <1>7. ASSUME NEW b \in BOOLEAN, QueueRequest(b) PROVE FreshInv' /\ AnswersMatch'
    BY <1>7, <1>a DEF QueueRequest, FreshInv, AnswersMatch, OnWire
  <1>8. ASSUME NEW i \in Ids, GetResponse(i) PROVE FreshInv' /\ AnswersMatch'
    <2>1. PICK r \in completed : /\ r.id = i
                                 /\ completed' = completed \ {r}
                                 /\ got' = [got EXCEPT ![i] = r.response]
      BY <1>8 DEF GetResponse
    <2>2. late' = 0 => \A j \in Ids : got'[j] # Nothing => got'[j].of = j
      BY <1>a, <2>1 DEF AnswersMatch, TypeInv, TypeOK
    <2>3. QED
      BY <1>8, <1>a, <2>1, <2>2 DEF GetResponse, FreshInv, AnswersMatch, OnWire
  <1>9. ASSUME NEW i \in Ids, WaitTimesOut(i) PROVE FreshInv' /\ AnswersMatch'
    BY <1>9, <1>a DEF WaitTimesOut, FreshInv, AnswersMatch, OnWire
  <1>10. CASE RequestStop
    BY <1>10, <1>a DEF RequestStop, FreshInv, AnswersMatch, OnWire
  <1>11. CASE ServerAnswers
    <2>1. late = 0 => phase = "read" /\ server = <<working>> /\ inbuf = <<>>
      BY <1>11 DEF ServerAnswers, FreshInv, OnWire
    <2>2. late = 0 => server' = <<>> /\ inbuf' = <<working>>
      BY <1>11, <2>1, OneElement DEF ServerAnswers
    <2>3. QED
      BY <1>11, <1>a, <2>1, <2>2 DEF ServerAnswers, FreshInv, AnswersMatch, OnWire
  <1>12. CASE LoseConnection
    BY <1>12, <1>a DEF LoseConnection, FreshInv, AnswersMatch, OnWire
  <1>13. CASE UNCHANGED vars
    BY <1>13 DEF vars, FreshInv, AnswersMatch, OnWire
  <1>14. QED
    BY <1>1, <1>2, <1>3, <1>4, <1>5, <1>6, <1>7, <1>8, <1>9, <1>10, <1>11, <1>12, <1>13, <1>15
    DEF Next, WorkerStep

\* Until an answer comes late, every caller gets the answer to its own request, also
\* when others have given up or the connection has broken (sendRequestSync).
THEOREM AlwaysAnswersMatch == SafeSpec => []AnswersMatch
  BY InitTypeInv, InitFresh, StepTypeInv, StepFresh, PTL DEF SafeSpec

\* Answers come in the order in which the requests were sent, late or not: what was
\* handed out is older than what is on the wire.
Wire == Elems(server) \cup Elems(inbuf)
Rest == {rest} \ {0}
HandedAnswers == {h \in Handed : h[2] # Nothing}

WireOrder ==
  /\ Increasing(server)
  /\ Increasing(inbuf)
  /\ \A a \in Elems(inbuf), i \in Elems(server) : a < i
  /\ \A r \in Rest, i \in Wire : r < i

WireInv ==
  /\ WireOrder
  /\ Wire \cup Rest \subseteq Queued
  /\ \A i \in Wire \cup Rest, p \in Elems(pending) : i < p
  /\ phase = "write" => \A i \in Wire \cup Rest : i < working
  /\ phase = "read" => \A i \in Wire \cup Rest : i <= working

\* What was handed out is not after the rest of a cut-off answer, and not of the same
\* answer when it was whole.
NotAfter(a, r) == Before(a, Piece(r))

HandInv ==
  /\ AnswerHandedOnce
  /\ \A h \in HandedAnswers :
       /\ h[1] \in Queued
       /\ \A i \in Wire : h[2].of < i
       /\ \A r \in Rest : NotAfter(h[2], r)
       /\ \A p \in Elems(pending) \cup Working : h[1] < p
  /\ phase = "store" /\ response # Nothing =>
       /\ response.of <= working
       /\ \A h \in HandedAnswers : Before(h[2], response)
       /\ \A i \in Wire : response.of < i
       /\ \A r \in Rest : NotAfter(response, r)

LEMMA SuffixIncreasing ==
  ASSUME NEW q \in Seq(Nat), Increasing(q), NEW n \in 0..Len(q)
  PROVE  /\ Increasing(SubSeq(q, n + 1, Len(q)))
         /\ Elems(SubSeq(q, n + 1, Len(q))) \subseteq Elems(q)
         /\ n # 0 => /\ q[n] \in Elems(q) /\ Head(q) \in Elems(q)
                     /\ Head(q) <= q[n]
                     /\ \A i \in Elems(SubSeq(q, n + 1, Len(q))) : q[n] < i /\ Head(q) < i
  <1> DEFINE t == SubSeq(q, n + 1, Len(q))
  <1>1. /\ Len(q) \in Nat /\ Len(t) = Len(q) - n
        /\ \A i \in 1..Len(t) : t[i] = q[i + n]
    BY SuffixType, LenProperties
  <1> HIDE DEF t
  <1>3. \A i \in 1..Len(t) : i + n \in 1..Len(q)
    BY <1>1
  <1>4. ASSUME NEW j \in 1..Len(t), NEW k \in 1..Len(t), j < k PROVE t[j] < t[k]
    <2>1. j + n < k + n
      BY <1>1, <1>4
    <2>2. q[j + n] < q[k + n]
      BY <1>3, <2>1 DEF Increasing
    <2>3. QED
      BY <1>1, <2>2
  <1>5. Elems(t) \subseteq Elems(q)
    BY <1>1, <1>3 DEF Elems
  <1>6. ASSUME n # 0
        PROVE  /\ q[n] \in Elems(q) /\ Head(q) \in Elems(q)
               /\ Head(q) <= q[n]
               /\ \A i \in Elems(t) : q[n] < i /\ Head(q) < i
    <2>1. n \in 1..Len(q) /\ 1 \in 1..Len(q) /\ Head(q) = q[1]
      BY <1>1, <1>6, EmptySeq, HeadTailProperties
    <2>2. q[n] \in Nat /\ q[1] \in Nat
      BY <2>1, ElementOfSeq
    <2>3. q[1] <= q[n]
      <3>1. n = 1 \/ 1 < n
        BY <2>1
      <3>2. QED
        BY <2>1, <2>2, <3>1 DEF Increasing
    <2>4. \A i \in 1..Len(t) : q[n] < t[i] /\ q[1] < t[i]
      <3>1. \A i \in 1..Len(t) : n < i + n /\ 1 < i + n
        BY <1>1, <2>1
      <3>2. QED
        BY <1>1, <1>3, <2>1, <3>1 DEF Increasing
    <2>5. QED
      BY <2>1, <2>3, <2>4 DEF Elems
  <1>7. QED
    BY <1>4, <1>5, <1>6 DEF Increasing, t

LEMMA WireTypes ==
  ASSUME TypeInv
  PROVE  /\ server \in Seq(Ids) /\ server \in Seq(Nat) /\ inbuf \in Seq(Ids) /\ inbuf \in Seq(Nat)
         /\ Elems(server) \subseteq Ids /\ Elems(inbuf) \subseteq Ids /\ Rest \subseteq Ids
         /\ Ids \subseteq Nat /\ 0 \notin Ids /\ (\A a \in Answers : a.of \in Ids /\ a.whole \in BOOLEAN)
  <1>1. server \in Seq(Ids) /\ inbuf \in Seq(Ids) /\ Rest \subseteq Ids
    BY DEF TypeInv, TypeOK, Rest
  <1>2. /\ Ids \subseteq Nat /\ 0 \notin Ids
        /\ \A a \in Answers : a.of \in Ids /\ a.whole \in BOOLEAN
    BY WorkerAssumption DEF Ids, Answers
  <1>3. server \in Seq(Nat) /\ inbuf \in Seq(Nat)
    BY <1>1, <1>2, SeqMonotonic
  <1>4. Elems(server) \subseteq Ids /\ Elems(inbuf) \subseteq Ids
    BY <1>1, ElementOfSeq DEF Elems
  <1>5. QED
    BY <1>1, <1>2, <1>3, <1>4

LEMMA InitWire == Init => WireInv
  BY DEF Init, WireInv, WireOrder, Wire, Rest, Elems, Increasing

\* What a step does to the wire, and to the phase of a thread that has a request.
LEMMA SendToWire ==
  ASSUME TypeInv, OrderInv, WireInv, phase = "write", server' = Append(server, working),
         inbuf' = inbuf, rest' = rest
  PROVE  WireOrder' /\ Wire' = Wire \cup {working} /\ \A i \in Wire \cup Rest : i < working
  <1>1. working \in Ids /\ working \in Nat
    BY WireTypes DEF TypeInv, TypeOK, Busy, Ids
  <1>2. \A i \in Wire \cup Rest : i < working
    BY DEF WireInv
  <1>3. Elems(server') = Elems(server) \cup {working}
    BY <1>1, WireTypes, AppendElems
  <1>4. Increasing(server')
    BY <1>1, <1>2, WireTypes, AppendIncreasing DEF WireInv, WireOrder, Wire
  <1>5. Wire' = Wire \cup {working}
    BY <1>3 DEF Wire
  <1>6. \A a \in Elems(inbuf'), i \in Elems(server') : a < i
    BY <1>2, <1>3 DEF Wire, WireInv, WireOrder
  <1>7. \A r \in Rest', i \in Wire' : r < i
    BY <1>2, <1>5 DEF Rest, WireInv, WireOrder
  <1>8. QED
    BY <1>2, <1>4, <1>5, <1>6, <1>7 DEF WireInv, WireOrder

\* What a read that ends at a pause leaves on the wire.
LEMMA TakenFromWire ==
  ASSUME TypeInv, WireInv, NEW n \in 0..Len(inbuf), TakenUpTo(n), server' = server
  PROVE  /\ WireOrder' /\ Wire' \subseteq Wire /\ Rest' \subseteq Wire \cup Rest
         /\ n # 0 => /\ Head(inbuf) \in Wire
                     /\ \A i \in Wire' : Head(inbuf) < i
                     /\ \A r \in Rest' : Head(inbuf) <= r
  <1>1. /\ Increasing(inbuf') /\ Elems(inbuf') \subseteq Elems(inbuf)
        /\ n # 0 => /\ inbuf[n] \in Elems(inbuf) /\ Head(inbuf) \in Elems(inbuf)
                    /\ Head(inbuf) <= inbuf[n]
                    /\ \A i \in Elems(inbuf') : inbuf[n] < i /\ Head(inbuf) < i
    <2>1. inbuf' = SubSeq(inbuf, n + 1, Len(inbuf))
      BY DEF TakenUpTo
    <2>2. inbuf \in Seq(Nat) /\ Increasing(inbuf)
      BY WireTypes DEF WireInv, WireOrder
    <2> DEFINE t == SubSeq(inbuf, n + 1, Len(inbuf))
    <2>3. /\ Increasing(t) /\ Elems(t) \subseteq Elems(inbuf)
          /\ n # 0 => /\ inbuf[n] \in Elems(inbuf) /\ Head(inbuf) \in Elems(inbuf)
                      /\ Head(inbuf) <= inbuf[n]
                      /\ \A i \in Elems(t) : inbuf[n] < i /\ Head(inbuf) < i
      BY <2>2, SuffixIncreasing
    <2>4. inbuf' = t
      BY <2>1
    <2> HIDE DEF t
    <2>5. QED
      BY <2>3, <2>4
  <1>2. Rest' \subseteq IF n = 0 THEN Rest ELSE {inbuf[n]}
    BY DEF TakenUpTo, Rest
  <1>3. Wire' \subseteq Wire /\ Elems(inbuf) \subseteq Wire
    BY <1>1 DEF Wire
  <1>4. Rest' \subseteq Wire \cup Rest
    BY <1>1, <1>2, <1>3
  <1>5. n # 0 => \A i \in Wire' : inbuf[n] < i /\ Head(inbuf) < i
    BY <1>1 DEF Wire, WireInv, WireOrder
  <1>6. \A r \in Rest', i \in Wire' : r < i
    BY <1>2, <1>3, <1>5 DEF WireInv, WireOrder
  <1>7. WireOrder'
    BY <1>1, <1>6 DEF WireInv, WireOrder
  <1>8. QED
    BY <1>1, <1>2, <1>3, <1>4, <1>5, <1>7

\* The three ways a read ends, and what it makes of the wire and of the response.
Reads == Read \/ ReadRest \/ ReadTimesOut

LEMMA ReadFromWire ==
  ASSUME TypeInv, WireInv, Reads
  PROVE  /\ WireOrder' /\ Wire' \subseteq Wire /\ Rest' \subseteq Wire \cup Rest
         /\ \/ response' = Nothing
            \/ \E i \in Wire : /\ response'.of = i
                               /\ \A j \in Wire' : i < j
                               /\ response'.whole \in BOOLEAN
                               /\ \A r \in Rest' : i <= r /\ (response'.whole => i < r)
            \/ \E i \in Rest : /\ response'.of = i /\ response'.whole = FALSE
                               /\ \A r \in Rest' : i <= r
  <1>1. CASE ReadTimesOut
    <2>1. UNCHANGED <<server, inbuf>> /\ Rest' \subseteq Rest /\ response' = Nothing
      BY <1>1 DEF ReadTimesOut, Rest
    <2>2. QED
      BY <2>1 DEF WireInv, WireOrder, Wire
  <1>2. CASE ReadRest
    <2>1. PICK n \in 0..Len(inbuf) : TakenUpTo(n)
      BY <1>2 DEF ReadRest
    <2>2. rest \in Rest /\ response'.of = rest /\ response'.whole = FALSE /\ server' = server
      BY <1>2 DEF ReadRest, Rest, Piece
    <2>3. WireOrder' /\ Wire' \subseteq Wire /\ Rest' \subseteq Wire \cup Rest
      BY <2>1, <2>2, TakenFromWire
    <2>4. \A r \in Rest' : rest <= r
      BY <2>2, <2>3, WireTypes DEF WireInv, WireOrder, Wire, Rest
    <2>5. QED
      BY <2>2, <2>3, <2>4
  <1>3. CASE Read
    <2>1. server' = server /\ inbuf # <<>>
      BY <1>3 DEF Read
    <2>2. CASE response' = Whole(Head(inbuf)) /\ inbuf' = Tail(inbuf) /\ rest' = 0
      <3>1. /\ Elems(inbuf) = {Head(inbuf)} \cup Elems(inbuf')
            /\ Increasing(inbuf')
            /\ \A a \in Elems(inbuf') : Head(inbuf) < a
        BY <2>1, <2>2, WireTypes, TailElems, TailIncreasing DEF WireInv, WireOrder
      <3>2. Rest' = {} /\ Wire' \subseteq Wire /\ Head(inbuf) \in Wire
        BY <2>1, <2>2, <3>1 DEF Wire, Rest
      <3>3. \A i \in Wire' : Head(inbuf) < i
        BY <2>1, <3>1 DEF Wire, WireInv, WireOrder
      <3>4. WireOrder'
        BY <2>1, <3>1, <3>2 DEF WireInv, WireOrder
      <3>5. response'.of = Head(inbuf) /\ response'.whole \in BOOLEAN
        BY <2>2 DEF Whole
      <3>6. QED
        BY <3>2, <3>3, <3>4, <3>5
    <2>3. CASE /\ response' \in {Nothing, Piece(Head(inbuf))}
               /\ \E n \in 1..Len(inbuf) : TakenUpTo(n)
      <3>1. PICK n \in 1..Len(inbuf) : TakenUpTo(n)
        BY <2>3
      <3>2. n \in 0..Len(inbuf) /\ n # 0
        BY <3>1, WireTypes, LenProperties
      <3>3. /\ WireOrder' /\ Wire' \subseteq Wire /\ Rest' \subseteq Wire \cup Rest
            /\ Head(inbuf) \in Wire
            /\ \A i \in Wire' : Head(inbuf) < i
            /\ \A r \in Rest' : Head(inbuf) <= r
        BY <2>1, <3>1, <3>2, TakenFromWire
      <3>4. response' = Nothing \/ (response'.of = Head(inbuf) /\ response'.whole = FALSE)
        BY <2>3 DEF Piece
      <3>5. QED
        BY <3>3, <3>4
    <2>4. QED
      BY <1>3, <2>2, <2>3 DEF Read
  <1>4. QED
    BY <1>1, <1>2, <1>3 DEF Reads

LEMMA AnswerOnWire ==
  ASSUME TypeInv, WireInv, ServerAnswers
  PROVE  WireOrder' /\ Wire' = Wire /\ Rest' = Rest
  <1>1. server # <<>> /\ inbuf' = Append(inbuf, Head(server)) /\ server' = Tail(server) /\ rest' = rest
    BY DEF ServerAnswers
  <1>2. /\ Elems(server) = {Head(server)} \cup Elems(server')
        /\ Increasing(server')
        /\ \A i \in Elems(server') : Head(server) < i
    BY <1>1, WireTypes, TailElems, TailIncreasing DEF WireInv, WireOrder
  <1>3. Head(server) \in Ids /\ Head(server) \in Nat
    BY <1>2, WireTypes
  <1>4. Elems(inbuf') = Elems(inbuf) \cup {Head(server)}
    BY <1>1, <1>3, WireTypes, AppendElems
  <1>5. \A b \in Elems(inbuf) : b < Head(server)
    BY <1>2 DEF WireInv, WireOrder
  <1>6. Increasing(inbuf')
    BY <1>1, <1>3, <1>5, WireTypes, AppendIncreasing DEF WireInv, WireOrder
  <1>7. \A b \in Elems(inbuf'), i \in Elems(server') : b < i
    BY <1>2, <1>4 DEF WireInv, WireOrder
  <1>8. Wire' = Wire /\ Rest' = Rest
    BY <1>1, <1>2, <1>4 DEF Wire, Rest
  <1>9. QED
    BY <1>2, <1>6, <1>7, <1>8 DEF WireInv, WireOrder

LEMMA StepWire == TypeInv /\ OrderInv /\ WireInv /\ [Next]_vars => WireInv'
  <1> SUFFICES ASSUME TypeInv, OrderInv, WireInv, [Next]_vars PROVE WireInv'
    OBVIOUS
  <1> USE DEF callerVars, netVars
  <1>a. /\ WireOrder /\ Wire \cup Rest \subseteq Queued
        /\ \A i \in Wire \cup Rest, p \in Elems(pending) : i < p
        /\ phase = "write" => \A i \in Wire \cup Rest : i < working
        /\ phase = "read" => \A i \in Wire \cup Rest : i <= working
    BY DEF WireInv
  <1>b. UNCHANGED netVars => WireOrder' /\ Wire' = Wire /\ Rest' = Rest
    BY <1>a DEF WireOrder, Wire, Rest
  <1>1. CASE Connect \/ PollLoop \/ Store
    BY <1>a, <1>b, <1>1 DEF Connect, PollLoop, Store, WireInv, Queued
  <1>2. CASE TakeRequest
    <2>1. Queued' = Queued /\ WireOrder' /\ Wire' = Wire /\ Rest' = Rest
      BY <1>2, <1>b DEF TakeRequest, Queued
    <2>2. CASE pending = <<>>
      BY <1>a, <1>2, <2>1, <2>2 DEF TakeRequest, WireInv
    <2>3. CASE pending # <<>>
      <3>1. Elems(pending) = {Head(pending)} \cup Elems(Tail(pending))
        BY <2>3, TailElems DEF TypeInv, TypeOK
      <3>2. phase' = "write" /\ working' = Head(pending) /\ pending' = Tail(pending)
        BY <1>2, <2>3 DEF TakeRequest
      <3>3. QED
        BY <1>a, <2>1, <3>1, <3>2 DEF WireInv
    <2>4. QED
      BY <2>2, <2>3
  <1>3. CASE Write \/ WriteFails
    <2>1. /\ phase = "write" /\ phase' \in {"read", "store"}
          /\ inbuf' = inbuf /\ rest' = rest /\ pending' = pending
          /\ working' = working /\ Queued' = Queued /\ Rest' = Rest
          /\ server' = Append(server, working) \/ server' = server
      BY <1>3 DEF Write, WriteFails, Queued, Rest
    <2>2. working \in Queued /\ \A p \in Elems(pending) : working < p
      BY <2>1 DEF OrderInv, Sent, Working, TypeInv, Busy
    <2>3. Wire \cup Rest \subseteq Nat /\ working \in Nat
      BY <1>a, <2>2, WorkerAssumption DEF Queued, Ids
    <2>4. CASE server' = server
      <3>1. WireOrder' /\ Wire' = Wire
        BY <1>b, <2>1, <2>4
      <3>2. \A i \in Wire \cup Rest : i <= working
        BY <1>a, <2>1, <2>3
      <3>3. QED
        BY <1>a, <2>1, <3>1, <3>2 DEF WireInv
    <2>5. CASE server' = Append(server, working)
      <3>1. WireOrder' /\ Wire' = Wire \cup {working} /\ \A i \in Wire \cup Rest : i < working
        BY <2>1, <2>5, SendToWire
      <3>2. QED
        BY <1>a, <2>1, <2>2, <2>3, <3>1 DEF WireInv
    <2>6. QED
      BY <2>1, <2>4, <2>5
  <1>4. CASE Reads
    <2>1. WireOrder' /\ Wire' \subseteq Wire /\ Rest' \subseteq Wire \cup Rest
      BY <1>4, ReadFromWire
    <2>2. UNCHANGED <<pending, working, caller>> /\ phase' = "store"
      BY <1>4 DEF Reads, Read, ReadRest, ReadTimesOut
    <2>3. QED
      BY <1>a, <2>1, <2>2 DEF WireInv, Queued
  <1>5. CASE Cleanup
    BY <1>5 DEF Cleanup, WireInv, WireOrder, Wire, Rest, Elems, Increasing
  <1>6. ASSUME NEW b \in BOOLEAN, QueueRequest(b) PROVE WireInv'
    <2>1. NumberedInv
      BY DEF OrderInv
    <2>2. /\ NextId \in Ids /\ (\A i \in Queued : i < NextId)
          /\ pending' = Append(pending, NextId)
          /\ Queued' = Queued \cup {NextId}
          /\ UNCHANGED <<phase, working, netVars>>
      BY <1>6, <2>1, QueueSteps
    <2>3. Elems(pending') = Elems(pending) \cup {NextId}
      BY <2>2, AppendElems DEF TypeInv, TypeOK
    <2>4. QED
      BY <1>a, <1>b, <2>2, <2>3 DEF WireInv
  <1>7. ASSUME NEW i \in Ids, GetResponse(i) \/ WaitTimesOut(i) PROVE WireInv'
    <2>1. Queued' = Queued
      BY <1>7 DEF GetResponse, WaitTimesOut, TypeInv, TypeOK, Queued
    <2>2. QED
      BY <1>a, <1>b, <1>7, <2>1 DEF GetResponse, WaitTimesOut, WireInv
  <1>8. CASE RequestStop \/ UNCHANGED vars
    BY <1>a, <1>b, <1>8 DEF RequestStop, vars, WireInv, Queued
  <1>9. CASE ServerAnswers
    BY <1>a, <1>9, AnswerOnWire DEF ServerAnswers, WireInv, Queued
  <1>10. CASE LoseConnection
    <2>1. Wire' \subseteq Wire /\ Rest' = Rest /\ WireOrder'
      BY <1>a, <1>10 DEF LoseConnection, Wire, Rest, WireOrder, Elems, Increasing
    <2>2. QED
      BY <1>a, <1>10, <2>1 DEF LoseConnection, WireInv, Queued
  <1>11. QED
    BY <1>1, <1>2, <1>3, <1>4, <1>5, <1>6, <1>7, <1>8, <1>9, <1>10
    DEF Next, WorkerStep, Reads

---------------------------------------------------------------------------------
LEMMA HandedType ==
  ASSUME TypeInv, NEW h \in HandedAnswers
  PROVE  h[1] \in Nat /\ h[2] \in Answers /\ h[2].of \in Nat /\ h[2].whole \in BOOLEAN
  <1>1. (\E r \in completed : h = <<r.id, r.response>>) \/ (\E i \in Ids : h = <<i, got[i]>>)
    BY DEF HandedAnswers, Handed
  <1>2. h[1] \in Ids /\ h[2] \in Answers \cup {Nothing} /\ h[2] # Nothing
    BY <1>1 DEF HandedAnswers, TypeInv, TypeOK
  <1>3. QED
    BY <1>2, WireTypes

LEMMA HandedSteps ==
  ASSUME TypeInv
  PROVE  /\ UNCHANGED <<completed, got>> => HandedAnswers' = HandedAnswers
         /\ \A i \in Ids : GetResponse(i) => HandedAnswers' \subseteq HandedAnswers
         /\ Store => \A h \in HandedAnswers' :
              h \in HandedAnswers \/ (response # Nothing /\ h[1] = working /\ h[2] = response)
  <1>1. ASSUME UNCHANGED <<completed, got>> PROVE HandedAnswers' = HandedAnswers
    BY <1>1 DEF HandedAnswers, Handed
  <1>2. ASSUME NEW i \in Ids, GetResponse(i) PROVE HandedAnswers' \subseteq HandedAnswers
    <2>1. PICK r \in completed : /\ r.id = i
                                 /\ completed' = completed \ {r}
                                 /\ got' = [got EXCEPT ![i] = r.response]
      BY <1>2 DEF GetResponse
    <2>2. /\ got'[i] = r.response
          /\ \A j \in Ids \ {i} : got'[j] = got[j]
      BY <2>1 DEF TypeInv, TypeOK
    <2>3. ASSUME NEW h \in Handed' PROVE h \in Handed
      <3>1. CASE \E q \in completed' : h = <<q.id, q.response>>
        BY <2>1, <3>1 DEF Handed
      <3>2. CASE h = <<i, got'[i]>>
        BY <2>1, <2>2, <3>2 DEF Handed
      <3>3. CASE \E j \in Ids \ {i} : h = <<j, got'[j]>>
        BY <2>2, <3>3 DEF Handed
      <3>4. QED
        BY <3>1, <3>2, <3>3 DEF Handed
    <2>4. QED
      BY <2>3 DEF HandedAnswers
  <1>3. ASSUME Store, NEW h \in HandedAnswers'
        PROVE  h \in HandedAnswers \/ (response # Nothing /\ h[1] = working /\ h[2] = response)
    <2> DEFINE e == [id |-> working, response |-> response]
    <2>1. completed' = completed \cup {e} /\ got' = got /\ e.id = working /\ e.response = response
      BY <1>3 DEF Store, callerVars
    <2> HIDE DEF e
    <2>2. h \in Handed \/ h = <<e.id, e.response>>
      BY <2>1 DEF HandedAnswers, Handed
    <2>3. h[2] # Nothing
      BY DEF HandedAnswers
    <2>4. QED
      BY <2>1, <2>2, <2>3 DEF HandedAnswers
  <1>4. QED
    BY <1>1, <1>2, <1>3

LEMMA InitHand == Init => HandInv
  <1> SUFFICES ASSUME Init PROVE HandInv
    OBVIOUS
  <1>1. \A h \in Handed : h[2] = Nothing
    BY DEF Init, Handed
  <1>2. HandedAnswers = {}
    BY <1>1 DEF HandedAnswers
  <1>3. QED
    BY <1>2 DEF HandInv, AnswerHandedOnce, HandedAnswers, Init

LEMMA StepHand == TypeInv /\ OrderInv /\ WireInv /\ HandInv /\ [Next]_vars => HandInv'
  <1> SUFFICES ASSUME TypeInv, OrderInv, WireInv, HandInv, [Next]_vars PROVE HandInv'
    OBVIOUS
  <1> USE DEF callerVars, netVars
  <1>a. AnswerHandedOnce <=>
          \A x, y \in HandedAnswers : x[2].of <= x[1] /\ (x[1] < y[1] => Before(x[2], y[2]))
    BY DEF AnswerHandedOnce, HandedAnswers
  <1>b. AnswerHandedOnce' <=>
          \A x, y \in HandedAnswers' : x[2].of <= x[1] /\ (x[1] < y[1] => Before(x[2], y[2]))
    BY DEF AnswerHandedOnce, HandedAnswers
  <1>c. /\ \A x, y \in HandedAnswers : x[2].of <= x[1] /\ (x[1] < y[1] => Before(x[2], y[2]))
        /\ \A h \in HandedAnswers :
             /\ h[1] \in Queued
             /\ \A i \in Wire : h[2].of < i
             /\ \A r \in Rest : NotAfter(h[2], r)
             /\ \A p \in Elems(pending) \cup Working : h[1] < p
        /\ phase = "store" /\ response # Nothing =>
             /\ response.of <= working
             /\ \A h \in HandedAnswers : Before(h[2], response)
             /\ \A i \in Wire : response.of < i
             /\ \A r \in Rest : NotAfter(response, r)
    BY <1>a DEF HandInv
  <1>d. /\ UNCHANGED <<completed, got>> => HandedAnswers' = HandedAnswers
        /\ UNCHANGED netVars => Wire' = Wire /\ Rest' = Rest
        /\ UNCHANGED working => Working' = Working
    BY HandedSteps DEF Wire, Rest, Working
  <1>1. CASE Connect \/ PollLoop
    BY <1>b, <1>c, <1>d, <1>1 DEF Connect, PollLoop, HandInv, Queued
  <1>2. CASE TakeRequest
    <2>1. /\ Queued' = Queued /\ Wire' = Wire /\ Rest' = Rest /\ HandedAnswers' = HandedAnswers
          /\ phase' \in {"loop", "write"}
      BY <1>2, <1>d DEF TakeRequest, Queued
    <2>2. Elems(pending') \cup Working' \subseteq Elems(pending) \cup Working
      <3>1. CASE pending = <<>>
        BY <1>2, <1>d, <3>1 DEF TakeRequest
      <3>2. CASE pending # <<>>
        <4>1. Elems(pending) = {Head(pending)} \cup Elems(Tail(pending))
          BY <3>2, TailElems DEF TypeInv, TypeOK
        <4>2. QED
          BY <1>2, <3>2, <4>1 DEF TakeRequest, Working
      <3>3. QED
        BY <3>1, <3>2
    <2>3. QED
      BY <1>b, <1>c, <2>1, <2>2 DEF HandInv
  <1>3. CASE Write \/ WriteFails
    <2>1. /\ phase = "write" /\ (phase' = "read" \/ response' = Nothing)
          /\ inbuf' = inbuf /\ rest' = rest /\ Rest' = Rest
          /\ pending' = pending /\ Working' = Working /\ Queued' = Queued
          /\ server' = Append(server, working) \/ server' = server
          /\ HandedAnswers' = HandedAnswers
      BY <1>3, <1>d DEF Write, WriteFails, Queued, Rest
    <2>2. Wire' \subseteq Wire \cup {working}
      BY <2>1, SendToWire DEF Wire
    <2>3. working \in Working /\ working \in Nat
      BY <2>1, WireTypes DEF Working, TypeInv, TypeOK, Busy
    <2>4. ASSUME NEW h \in HandedAnswers PROVE h[2].of < working
      <3>1. h[2].of <= h[1] /\ h[1] < working
        BY <1>c, <2>3
      <3>2. QED
        BY <2>3, <3>1, HandedType
    <2>5. QED
      BY <1>b, <1>c, <2>1, <2>2, <2>4 DEF HandInv
  <1>4. CASE Reads
    <2>1. /\ UNCHANGED <<pending, working, caller, completed, got>>
          /\ phase = "read" /\ phase' = "store"
      BY <1>4 DEF Reads, Read, ReadRest, ReadTimesOut
    <2>2. Queued' = Queued /\ Working' = Working /\ HandedAnswers' = HandedAnswers
      BY <1>d, <2>1 DEF Queued
    <2>3. Wire' \subseteq Wire /\ Rest' \subseteq Wire \cup Rest
      BY <1>4, ReadFromWire
    <2>4. ASSUME NEW h \in HandedAnswers, NEW r \in Rest' PROVE NotAfter(h[2], r)
      <3>1. CASE r \in Rest
        BY <1>c, <3>1
      <3>2. CASE r \in Wire
        <4>1. h[2].of < r /\ h[2].of \in Nat /\ r \in Nat
          BY <1>c, <3>2, HandedType, WireTypes DEF Wire
        <4>2. QED
          BY <4>1 DEF NotAfter, Before, Piece
      <3>3. QED
        BY <2>3, <3>1, <3>2
    <2>5. ASSUME response' # Nothing
          PROVE  /\ response'.of <= working
                 /\ \A h \in HandedAnswers : Before(h[2], response')
                 /\ \A i \in Wire' : response'.of < i
                 /\ \A r \in Rest' : NotAfter(response', r)
      <3>1. CASE \E i \in Wire : /\ response'.of = i
                                 /\ \A j \in Wire' : i < j
                                 /\ response'.whole \in BOOLEAN
                                 /\ \A r \in Rest' : i <= r /\ (response'.whole => i < r)
        <4>1. PICK i \in Wire : /\ response'.of = i
                                /\ \A j \in Wire' : i < j
                                /\ response'.whole \in BOOLEAN
                                /\ \A r \in Rest' : i <= r /\ (response'.whole => i < r)
          BY <3>1
        <4>2. \A h \in HandedAnswers : h[2].of < i /\ h[2].of \in Nat /\ i \in Nat
          BY <1>c, HandedType, WireTypes DEF Wire
        <4>3. \A h \in HandedAnswers : Before(h[2], response')
          BY <4>1, <4>2 DEF Before
        <4>4. \A r \in Rest' : NotAfter(response', r)
          BY <4>1 DEF NotAfter, Before, Piece
        <4>5. i <= working
          BY <2>1 DEF WireInv
        <4>6. QED
          BY <4>1, <4>3, <4>4, <4>5
      <3>2. CASE \E i \in Rest : /\ response'.of = i /\ response'.whole = FALSE
                                 /\ \A r \in Rest' : i <= r
        <4>1. PICK i \in Rest : /\ response'.of = i /\ response'.whole = FALSE
                                /\ \A r \in Rest' : i <= r
          BY <3>2
        <4>2. \A h \in HandedAnswers : Before(h[2], response')
          BY <1>c, <4>1 DEF NotAfter, Before, Piece
        <4>3. \A r \in Rest' : NotAfter(response', r)
          BY <4>1 DEF NotAfter, Before, Piece
        <4>4. i <= working /\ \A j \in Wire' : i < j
          BY <2>1, <2>3 DEF WireInv, WireOrder
        <4>5. QED
          BY <4>1, <4>2, <4>3, <4>4
      <3>3. QED
        BY <1>4, <2>5, <3>1, <3>2, ReadFromWire
    <2>6. QED
      BY <1>b, <1>c, <2>1, <2>2, <2>3, <2>4, <2>5 DEF HandInv
  <1>5. CASE Store
    <2>1. /\ phase = "store" /\ phase' = "drain" /\ pending' = pending
          /\ Queued' = Queued /\ Wire' = Wire /\ Rest' = Rest /\ Working' = {}
      BY <1>5, <1>d DEF Store, Queued, Working
    <2>2. working \in Working /\ working \in Queued /\ working \in Nat
          /\ \A p \in Elems(pending) : working < p
      BY <2>1, WireTypes DEF Working, TypeInv, TypeOK, Busy, OrderInv, Sent
    <2>3. \A h \in HandedAnswers' :
             h \in HandedAnswers \/ (response # Nothing /\ h[1] = working /\ h[2] = response)
      BY <1>5, HandedSteps
    <2>4. \A h \in HandedAnswers : h[1] < working /\ h[1] \in Nat
      BY <1>c, <2>2, HandedType
    <2>5. ASSUME NEW x \in HandedAnswers', NEW y \in HandedAnswers'
          PROVE  x[2].of <= x[1] /\ (x[1] < y[1] => Before(x[2], y[2]))
      <3>1. CASE x \in HandedAnswers /\ y \in HandedAnswers
        BY <1>c, <3>1
      <3>2. CASE x \in HandedAnswers /\ y \notin HandedAnswers
        BY <1>c, <2>1, <2>3, <3>2
      <3>3. CASE x \notin HandedAnswers
        <4>1. response # Nothing /\ x[1] = working /\ x[2] = response
          BY <2>3, <3>3
        <4>2. ~(x[1] < y[1])
          BY <2>2, <2>3, <2>4, <4>1
        <4>3. QED
          BY <1>c, <2>1, <4>1, <4>2
      <3>4. QED
        BY <3>1, <3>2, <3>3
    <2>6. ASSUME NEW h \in HandedAnswers'
          PROVE  /\ h[1] \in Queued
                 /\ \A i \in Wire : h[2].of < i
                 /\ \A r \in Rest : NotAfter(h[2], r)
                 /\ \A p \in Elems(pending) : h[1] < p
      BY <1>c, <2>1, <2>2, <2>3, <2>6
    <2>7. QED
      BY <1>b, <2>1, <2>5, <2>6 DEF HandInv
  <1>6. CASE Cleanup
    <2>1. Wire' = {} /\ Rest' = {} /\ phase' # "store"
      BY <1>6 DEF Cleanup, Wire, Rest, Elems
    <2>2. QED
      BY <1>b, <1>c, <1>d, <1>6, <2>1 DEF Cleanup, HandInv, Queued
  <1>7. ASSUME NEW b \in BOOLEAN, QueueRequest(b) PROVE HandInv'
    <2>1. NumberedInv
      BY DEF OrderInv
    <2>2. /\ NextId \in Ids /\ (\A i \in Queued : i < NextId)
          /\ pending' = Append(pending, NextId)
          /\ Queued' = Queued \cup {NextId}
          /\ UNCHANGED <<phase, working, response, completed, got, netVars>>
      BY <1>7, <2>1, QueueSteps
    <2>3. Elems(pending') = Elems(pending) \cup {NextId}
      BY <2>2, AppendElems DEF TypeInv, TypeOK
    <2>4. HandedAnswers' = HandedAnswers /\ Wire' = Wire /\ Rest' = Rest /\ Working' = Working
      BY <1>d, <2>2
    <2>5. QED
      BY <1>b, <1>c, <2>2, <2>3, <2>4 DEF HandInv
  <1>8. ASSUME NEW i \in Ids, GetResponse(i) \/ WaitTimesOut(i) PROVE HandInv'
    <2>1. HandedAnswers' \subseteq HandedAnswers
      BY <1>8, HandedSteps DEF WaitTimesOut
    <2>2. /\ UNCHANGED <<phase, working, response, pending>>
          /\ Wire' = Wire /\ Rest' = Rest /\ Working' = Working
      BY <1>8, <1>d DEF GetResponse, WaitTimesOut
    <2>3. Queued' = Queued
      BY <1>8 DEF GetResponse, WaitTimesOut, TypeInv, TypeOK, Queued
    <2>4. QED
      BY <1>b, <1>c, <2>1, <2>2, <2>3 DEF HandInv
  <1>9. CASE RequestStop \/ UNCHANGED vars
    BY <1>b, <1>c, <1>d, <1>9 DEF RequestStop, vars, HandInv, Queued
  <1>10. CASE ServerAnswers
    BY <1>b, <1>c, <1>d, <1>10, AnswerOnWire DEF ServerAnswers, HandInv, Queued
  <1>11. CASE LoseConnection
    <2>1. Wire' \subseteq Wire /\ Rest' = Rest
      BY <1>11 DEF LoseConnection, Wire, Rest, Elems
    <2>2. QED
      BY <1>b, <1>c, <1>d, <1>11, <2>1 DEF LoseConnection, HandInv, Queued
  <1>12. QED
    BY <1>1, <1>2, <1>3, <1>4, <1>5, <1>6, <1>7, <1>8, <1>9, <1>10, <1>11
    DEF Next, WorkerStep, Reads

\* Even when answers come late or are cut off, none is handed to two requests or to an
\* older one: what is read goes to the request being sent, in order, and only pieces of
\* one answer can go to several (readHttpResponse, WaitForResponse).
THEOREM AlwaysHandedOnce == SafeSpec => []AnswerHandedOnce
  <1>1. HandInv => AnswerHandedOnce
    BY DEF HandInv
  <1>2. QED
    BY <1>1, InitTypeInv, InitOrder, InitWire, InitHand, StepTypeInv, StepOrder, StepWire, StepHand, PTL
    DEF SafeSpec
=================================================================================
