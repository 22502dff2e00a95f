-------------------------- MODULE XenConnectionProofs --------------------------
(***************************************************************************)
(* Proofs about XenConnection for any number of attempts, batches of        *)
(* events, members and tolerated errors.  What keeps the signals of an      *)
(* earlier attempt from harming a later one is the order of the main        *)
(* thread's queue: an attempt begins when nothing is posted.                *)
(***************************************************************************)
EXTENDS XenConnection, SequenceTheorems, TLAPS

\* TypeOK, by the part of the connection.
Sig == [kind : {"ok", "fail", "event", "clear", "lost"}, of : {0} \cup Gens]

TypeAttempt ==
  /\ task \in {NoTask} \cup [cancelled : BOOLEAN, connected : BOOLEAN, set : {TRUE}]
  /\ thread \in {"none", "start", "login", "adopt", "load", "launch", "result"}
  /\ attempts \in 0..MaxAttempts
  /\ by \in {"user", "dialog", "timer"}
  /\ asking \in BOOLEAN

TypePoller ==
  poller \in {0} \cup Gens /\ pollers \in [Gens -> Poller] /\ emitted \in 0..MaxEvents

TypeData ==
  /\ eventQueue \subseteq Gens /\ cache \subseteq Gens /\ loaded \in {0} \cup Gens
  /\ updateTimer \in BOOLEAN /\ populated \in BOOLEAN

TypeSearch ==
  /\ finding \in BOOLEAN /\ members \in {0, Members} /\ index \in 0..Members
  /\ reconnectionTimer \in {"off", "single", "repeat", "coordinator"}
  /\ closed \in {"no", "user", "lost", "missed"}
  /\ crashed \in {"no", "task", "poller"}

\* What is posted to the main thread.
Posted == {mainq[k] : k \in 1..Len(mainq)}

\* The connect thread belongs to the last attempt, which has loaded nothing before Load.
Attempt ==
  /\ thread # "none" \/ InProgress => attempts \in Gens
  /\ thread \in {"start", "login", "adopt"} => ~task.connected
  /\ thread \in {"start", "login", "adopt", "load"} => loaded < attempts
  /\ loaded <= attempts

\* No Clear is on its way while an attempt is there.
Signals ==
  /\ mainq \in Seq(Sig)
  /\ \A s \in Posted : /\ s.kind = "event" => s.of # 0
                       /\ InProgress => s.kind # "clear"

\* What the last attempt has loaded is in the cache until the attempt is ended.
Loaded == InProgress /\ loaded = attempts => attempts \in cache

\* A poller that works has a session and errors to spare.
Working ==
  \A g \in Gens : pollers[g].at \in {"init", "running", "from"} =>
                    pollers[g].errors < MAX_CONSECUTIVE_ERRORS /\ pollers[g].session # 0

\* The current poller is not told to quit; that of an attempt is created by its Launch.
Current ==
  /\ poller # 0 => ~pollers[poller].quit
  /\ \A g \in Gens :
       g > attempts \/ (g = attempts /\ thread \in {"start", "login", "adopt", "load", "launch"})
         => poller # g /\ ~pollers[g].quit

\* The last session the current poller was given is that of the connection.
Serves(p) ==
  IF pollers[p].jobs = <<>> THEN pollers[p].session = attempts
  ELSE pollers[p].jobs[Len(pollers[p].jobs)] = attempts

Served ==
  task.connected /\ thread \notin {"load", "launch"} /\ poller # 0 => Serves(poller)

Types == TypeAttempt /\ TypePoller /\ TypeData /\ TypeSearch

IInv ==
  Types /\ EndedStaysEnded /\ Attempt /\ Signals /\ Loaded /\ Working /\ Current /\ Served

\* What is posted after a step: what was there, what the step adds, without what it takes.
LEMMA PostedAfter ==
  ASSUME mainq \in Seq(Sig)
  PROVE  /\ mainq' = mainq => Posted' = Posted
         /\ \A s \in Sig : mainq' = Append(mainq, s) => Posted' \subseteq Posted \cup {s}
         /\ mainq # <<>> => /\ Head(mainq) \in Posted
                            /\ Rest \in Seq(Sig)
                            /\ mainq' = Rest => Posted' \subseteq Posted
                            /\ \A s \in Sig : mainq' = Append(Rest, s) => Posted' \subseteq Posted \cup {s}
<1> USE DEF Posted
<1>1. mainq' = mainq => Posted' = Posted
  OBVIOUS
<1>2. \A q \in Seq(Sig), s \in Sig : \A k \in 1..Len(Append(q, s)) :
        Append(q, s)[k] = s \/ (k \in 1..Len(q) /\ Append(q, s)[k] = q[k])
  <2> SUFFICES ASSUME NEW q \in Seq(Sig), NEW s \in Sig, NEW k \in 1..Len(Append(q, s))
               PROVE  Append(q, s)[k] = s \/ (k \in 1..Len(q) /\ Append(q, s)[k] = q[k])
    OBVIOUS
  <2>1. Len(Append(q, s)) = Len(q) + 1 /\ Len(q) \in Nat
    OBVIOUS
  <2>2. CASE k = Len(q) + 1
    <3>1. Append(q, s)[Len(q) + 1] = s
      OBVIOUS
    <3>2. QED
      BY <2>2, <3>1
  <2>3. CASE k # Len(q) + 1
    BY <2>1, <2>3
  <2>4. QED
    BY <2>2, <2>3
<1>3. mainq # <<>> => /\ 1 \in 1..Len(mainq) /\ Head(mainq) = mainq[1]
                      /\ Rest \in Seq(Sig) /\ Len(Rest) = Len(mainq) - 1
                      /\ \A k \in 1..Len(Rest) : k + 1 \in 1..Len(mainq) /\ Rest[k] = mainq[k + 1]
  BY DEF Rest
<1>4. ASSUME NEW s \in Sig, mainq' = Append(mainq, s) PROVE Posted' \subseteq Posted \cup {s}
  <2>1. \A k \in 1..Len(mainq') : mainq'[k] = s \/ (k \in 1..Len(mainq) /\ mainq'[k] = mainq[k])
    BY <1>2, <1>4
  <2>2. QED
    BY <2>1
<1>5. ASSUME mainq # <<>> PROVE Head(mainq) \in Posted
  BY <1>3, <1>5
<1>6. ASSUME mainq # <<>>, mainq' = Rest PROVE Posted' \subseteq Posted
  BY <1>3, <1>6
<1>7. ASSUME mainq # <<>>, NEW s \in Sig, mainq' = Append(Rest, s) PROVE Posted' \subseteq Posted \cup {s}
  <2>1. \A k \in 1..Len(mainq') : mainq'[k] = s \/ (k \in 1..Len(Rest) /\ mainq'[k] = Rest[k])
    BY <1>2, <1>3, <1>7
  <2>2. QED
    BY <1>3, <1>7, <2>1
<1>8. QED
  BY <1>1, <1>3, <1>4, <1>5, <1>6, <1>7

LEMMA InitIInv == Init => IInv
<1> SUFFICES ASSUME Init PROVE IInv
  OBVIOUS
<1> USE ConnectionAssumption DEF Init, Gens
<1>1. Types
  <2>1. [at |-> "none", jobs |-> <<>>, session |-> 0, errors |-> 0, quit |-> FALSE] \in Poller
    BY DEF Poller
  <2>2. TypePoller
    BY <2>1 DEF TypePoller
  <2>3. TypeAttempt
    <3>1. asking \in BOOLEAN /\ task = NoTask
      OBVIOUS
    <3>2. QED
      BY <3>1 DEF TypeAttempt
  <2>4. TypeData
    BY DEF TypeData
  <2>5. TypeSearch
    <3>1. finding \in BOOLEAN
      OBVIOUS
    <3>2. QED
      BY <3>1 DEF TypeSearch
  <2>6. QED
    BY <2>2, <2>3, <2>4, <2>5 DEF Types
<1>2. EndedStaysEnded /\ Attempt /\ Loaded
  BY DEF EndedStaysEnded, Attempt, Loaded, InProgress, NoTask
<1>3. Signals
  BY DEF Signals, Posted
<1>4. Working /\ Current /\ Served
  BY DEF Working, Current, Served
<1>5. QED
  BY <1>1, <1>2, <1>3, <1>4 DEF IInv

\* Interrupt, and the connect thread.
LEMMA InterruptKeeps ==
  ASSUME IInv, Interrupt
  PROVE  IInv'
<1> USE ConnectionAssumption DEF Interrupt, attemptVars, pollerVars, dataVars, searchVars
<1>1. InProgress => task \in [cancelled : BOOLEAN, connected : BOOLEAN, set : {TRUE}]
  <2>1. task \in {NoTask} \cup [cancelled : BOOLEAN, connected : BOOLEAN, set : {TRUE}]
    BY DEF IInv, Types, TypeAttempt
  <2>2. NoTask.set = FALSE
    BY DEF NoTask
  <2>3. QED
    BY <2>1, <2>2 DEF InProgress
<1>2. TypeAttempt'
  BY <1>1 DEF IInv, Types, TypeAttempt
<1>3. TypeData'
  BY DEF IInv, Types, TypeData
<1>4. TypeSearch'
  BY DEF IInv, Types, TypeSearch
<1>5. TypePoller'
  BY DEF IInv, Types, TypePoller
<1>6. EndedStaysEnded'
  BY DEF IInv, EndedStaysEnded
<1>7. Attempt'
  BY DEF IInv, Attempt
<1>8. Loaded'
  BY DEF IInv, Loaded
<1>9. Signals'
  BY PostedAfter DEF IInv, Signals
<1>10. Working'
  BY DEF IInv, Working
<1>11. Current'
  BY DEF IInv, Current
<1>12. Served'
  BY DEF IInv, Served, Serves
<1>13. QED
  BY <1>2, <1>3, <1>4, <1>5, <1>6, <1>7, <1>8, <1>9, <1>10, <1>11, <1>12 DEF IInv, Types

LEMMA StartThreadKeeps ==
  ASSUME IInv, StartThread
  PROVE  IInv'
<1> USE ConnectionAssumption DEF StartThread, attemptVars, pollerVars, dataVars, searchVars
<1>1. TypeAttempt'
  BY DEF IInv, Types, TypeAttempt
<1>2. TypeData'
  BY DEF IInv, Types, TypeData
<1>3. TypeSearch'
  BY DEF IInv, Types, TypeSearch
<1>4. TypePoller'
  BY DEF IInv, Types, TypePoller
<1>5. EndedStaysEnded'
  BY DEF IInv, EndedStaysEnded, InProgress
<1>6. Attempt'
  BY DEF IInv, Attempt
<1>7. Loaded'
  BY DEF IInv, Loaded, InProgress
<1>8. Signals'
  BY PostedAfter DEF IInv, Signals, InProgress
<1>9. Working'
  BY DEF IInv, Working
<1>10. Current'
  BY DEF IInv, Current
<1>11. Served'
  BY DEF IInv, Served, Attempt
<1>12. QED
  BY <1>1, <1>2, <1>3, <1>4, <1>5, <1>6, <1>7, <1>8, <1>9, <1>10, <1>11 DEF IInv, Types

LEMMA LoginKeeps ==
  ASSUME IInv, Login
  PROVE  IInv'
<1> USE ConnectionAssumption DEF Login, attemptVars, pollerVars, dataVars, searchVars
<1>1. Signal("fail", attempts) \in Sig
  BY DEF IInv, Types, TypeAttempt, Signal, Sig, Gens
<1>2. Signal("fail", attempts).kind = "fail"
  BY DEF Signal
<1>3. TypeAttempt'
  BY DEF IInv, Types, TypeAttempt
<1>4. TypeData'
  BY DEF IInv, Types, TypeData
<1>5. TypeSearch'
  BY DEF IInv, Types, TypeSearch
<1>6. TypePoller'
  BY DEF IInv, Types, TypePoller
<1>7. EndedStaysEnded'
  BY DEF IInv, EndedStaysEnded, InProgress
<1>8. Attempt'
  BY DEF IInv, Attempt
<1>9. Loaded'
  BY DEF IInv, Loaded, InProgress
<1>10. Signals'
  BY <1>1, <1>2, PostedAfter DEF IInv, Signals, InProgress
<1>11. Working'
  BY DEF IInv, Working
<1>12. Current'
  BY DEF IInv, Current
<1>13. Served'
  BY DEF IInv, Served, Attempt
<1>14. QED
  BY <1>3, <1>4, <1>5, <1>6, <1>7, <1>8, <1>9, <1>10, <1>11, <1>12, <1>13 DEF IInv, Types

LEMMA AdoptKeeps ==
  ASSUME IInv, Adopt
  PROVE  IInv'
<1> USE ConnectionAssumption DEF Adopt, attemptVars, pollerVars, dataVars, searchVars
<1>1. InProgress => task \in [cancelled : BOOLEAN, connected : BOOLEAN, set : {TRUE}]
  <2>1. task \in {NoTask} \cup [cancelled : BOOLEAN, connected : BOOLEAN, set : {TRUE}]
    BY DEF IInv, Types, TypeAttempt
  <2>2. NoTask.set = FALSE
    BY DEF NoTask
  <2>3. QED
    BY <2>1, <2>2 DEF InProgress
<1>2. TypeAttempt'
  BY <1>1 DEF IInv, Types, TypeAttempt
<1>3. TypeData'
  BY DEF IInv, Types, TypeData
<1>4. TypeSearch'
  BY DEF IInv, Types, TypeSearch
<1>5. TypePoller'
  BY DEF IInv, Types, TypePoller
<1>6. EndedStaysEnded'
  BY DEF IInv, EndedStaysEnded, InProgress
<1>7. Attempt'
  BY DEF IInv, Attempt
<1>8. Loaded'
  BY DEF IInv, Attempt, Loaded, Gens
<1>9. Signals'
  BY PostedAfter DEF IInv, Signals, InProgress
<1>10. Working'
  BY DEF IInv, Working
<1>11. Current'
  BY DEF IInv, Current
<1>12. Served'
  BY DEF IInv, Served, Attempt
<1>13. QED
  BY <1>2, <1>3, <1>4, <1>5, <1>6, <1>7, <1>8, <1>9, <1>10, <1>11, <1>12 DEF IInv, Types

LEMMA LoadKeeps ==
  ASSUME IInv, Load
  PROVE  IInv'
<1> USE ConnectionAssumption DEF Load, attemptVars, pollerVars, dataVars, searchVars
<1>1. TypeAttempt'
  BY DEF IInv, Types, TypeAttempt
<1>2. TypeData'
  BY DEF IInv, Types, TypeData, Attempt
<1>3. TypeSearch'
  BY DEF IInv, Types, TypeSearch
<1>4. TypePoller'
  BY DEF IInv, Types, TypePoller
<1>5. EndedStaysEnded'
  BY DEF IInv, EndedStaysEnded, InProgress
<1>6. Attempt'
  BY DEF IInv, Attempt, Gens
<1>7. Loaded'
  BY DEF IInv, Loaded, InProgress
<1>8. Signals'
  BY PostedAfter DEF IInv, Signals, InProgress
<1>9. Working'
  BY DEF IInv, Working
<1>10. Current'
  BY DEF IInv, Current
<1>11. Served'
  BY DEF Served
<1>12. QED
  BY <1>1, <1>2, <1>3, <1>4, <1>5, <1>6, <1>7, <1>8, <1>9, <1>10, <1>11 DEF IInv, Types

LEMMA ResultKeeps ==
  ASSUME IInv, Result
  PROVE  IInv'
<1> USE ConnectionAssumption DEF Result, attemptVars, pollerVars, dataVars, searchVars
<1>1. TypeAttempt'
  BY DEF IInv, Types, TypeAttempt
<1>2. TypeData'
  BY DEF IInv, Types, TypeData
<1>3. TypeSearch'
  BY DEF IInv, Types, TypeSearch
<1>4. TypePoller'
  BY DEF IInv, Types, TypePoller
<1>5. EndedStaysEnded'
  BY DEF IInv, EndedStaysEnded, InProgress
<1>6. Attempt'
  BY DEF IInv, Attempt
<1>7. Loaded'
  BY DEF IInv, Loaded, InProgress
<1>8. Signals'
  BY PostedAfter DEF IInv, Attempt, Signals, InProgress, Signal, Sig
<1>9. Working'
  BY DEF IInv, Working
<1>10. Current'
  BY DEF IInv, Current
<1>11. Served'
  BY DEF IInv, Served, Serves
<1>12. QED
  BY <1>1, <1>2, <1>3, <1>4, <1>5, <1>6, <1>7, <1>8, <1>9, <1>10, <1>11 DEF IInv, Types

\* What is taken from the queue without a consequence.
LEMMA TakingKeeps ==
  ASSUME IInv, mainq # <<>>, mainq' = Rest, asking' \in BOOLEAN,
         UNCHANGED <<attemptVars, pollerVars, dataVars, searchVars, closed, crashed>>
  PROVE  IInv'
<1> USE ConnectionAssumption DEF attemptVars, pollerVars, dataVars, searchVars
<1>1. TypeAttempt'
  BY DEF IInv, Types, TypeAttempt
<1>2. TypeData'
  BY DEF IInv, Types, TypeData
<1>3. TypeSearch'
  BY DEF IInv, Types, TypeSearch
<1>4. TypePoller'
  BY DEF IInv, Types, TypePoller
<1>5. EndedStaysEnded'
  BY DEF IInv, EndedStaysEnded, InProgress
<1>6. Attempt'
  BY DEF IInv, Attempt, InProgress
<1>7. Loaded'
  BY DEF IInv, Loaded, InProgress
<1>8. Signals'
  BY PostedAfter DEF IInv, Signals, InProgress
<1>9. Working'
  BY DEF IInv, Working
<1>10. Current'
  BY DEF IInv, Current
<1>11. Served'
  BY DEF IInv, Served, Serves
<1>12. QED
  BY <1>1, <1>2, <1>3, <1>4, <1>5, <1>6, <1>7, <1>8, <1>9, <1>10, <1>11 DEF IInv, Types

\* What a timer does that begins no attempt.
LEMMA SearchingKeeps ==
  ASSUME IInv, finding' \in BOOLEAN, index' \in 0..Members,
         reconnectionTimer' \in {"off", "single", "repeat", "coordinator"},
         closed = "user" => reconnectionTimer' = "off", closed' \in {closed, "missed"},
         UNCHANGED <<attemptVars, asking, pollerVars, mainq, dataVars, members, crashed>>
  PROVE  IInv'
<1> USE ConnectionAssumption DEF attemptVars, pollerVars, dataVars, searchVars
<1>1. TypeAttempt'
  BY DEF IInv, Types, TypeAttempt
<1>2. TypeData'
  BY DEF IInv, Types, TypeData
<1>3. TypeSearch'
  BY DEF IInv, Types, TypeSearch
<1>4. TypePoller'
  BY DEF IInv, Types, TypePoller
<1>5. EndedStaysEnded'
  BY DEF IInv, EndedStaysEnded, InProgress
<1>6. Attempt'
  BY DEF IInv, Attempt, InProgress
<1>7. Loaded'
  BY DEF IInv, Loaded, InProgress
<1>8. Signals'
  BY PostedAfter DEF IInv, Signals, InProgress
<1>9. Working'
  BY DEF IInv, Working
<1>10. Current'
  BY DEF IInv, Current
<1>11. Served'
  BY DEF IInv, Served, Serves
<1>12. QED
  BY <1>1, <1>2, <1>3, <1>4, <1>5, <1>6, <1>7, <1>8, <1>9, <1>10, <1>11 DEF IInv, Types

\* The main thread.
LEMMA AnswerKeeps ==
  ASSUME IInv, Answer
  PROVE  IInv'
<1> USE ConnectionAssumption DEF Answer, attemptVars, pollerVars, dataVars, searchVars
<1>1. TypeAttempt'
  BY DEF IInv, Types, TypeAttempt
<1>2. TypeData'
  BY DEF IInv, Types, TypeData
<1>3. TypeSearch'
  BY DEF IInv, Types, TypeSearch
<1>4. TypePoller'
  BY DEF IInv, Types, TypePoller
<1>5. EndedStaysEnded'
  BY DEF IInv, EndedStaysEnded, InProgress
<1>6. Attempt'
  BY DEF IInv, Attempt, InProgress
<1>7. Loaded'
  BY DEF IInv, Loaded, InProgress
<1>8. Signals'
  BY PostedAfter DEF IInv, Signals, InProgress
<1>9. Working'
  BY DEF IInv, Working
<1>10. Current'
  BY DEF IInv, Current
<1>11. Served'
  BY DEF IInv, Served, Serves
<1>12. QED
  BY <1>1, <1>2, <1>3, <1>4, <1>5, <1>6, <1>7, <1>8, <1>9, <1>10, <1>11 DEF IInv, Types

LEMMA HandleEventKeeps ==
  ASSUME IInv, HandleEvent
  PROVE  IInv'
<1> USE ConnectionAssumption DEF HandleEvent, Takes, attemptVars, pollerVars, dataVars,
searchVars
<1>1. mainq # <<>> /\ Head(mainq) \in Posted /\ Head(mainq) \in Sig
  BY PostedAfter DEF IInv, Signals
<1>2. TypeAttempt'
  BY DEF IInv, Types, TypeAttempt
<1>3. TypeData'
  BY <1>1 DEF IInv, Types, TypeData, Signals, Sig
<1>4. TypeSearch'
  BY DEF IInv, Types, TypeSearch
<1>5. TypePoller'
  BY DEF IInv, Types, TypePoller
<1>6. EndedStaysEnded'
  BY DEF IInv, EndedStaysEnded, InProgress
<1>7. Attempt'
  BY DEF IInv, Attempt, InProgress
<1>8. Loaded'
  BY DEF IInv, Loaded, InProgress
<1>9. Signals'
  BY PostedAfter DEF IInv, Signals, InProgress
<1>10. Working'
  BY DEF IInv, Working
<1>11. Current'
  BY DEF IInv, Current
<1>12. Served'
  BY DEF IInv, Served, Serves
<1>13. QED
  BY <1>2, <1>3, <1>4, <1>5, <1>6, <1>7, <1>8, <1>9, <1>10, <1>11, <1>12 DEF IInv, Types

LEMMA OnCacheUpdateTimerKeeps ==
  ASSUME IInv, OnCacheUpdateTimer
  PROVE  IInv'
<1> USE ConnectionAssumption DEF OnCacheUpdateTimer, attemptVars, pollerVars, dataVars,
searchVars
<1>1. TypeAttempt'
  BY DEF IInv, Types, TypeAttempt
<1>2. TypeData'
  BY DEF IInv, Types, TypeData
<1>3. TypeSearch'
  BY DEF IInv, Types, TypeSearch
<1>4. TypePoller'
  BY DEF IInv, Types, TypePoller
<1>5. EndedStaysEnded'
  BY DEF IInv, EndedStaysEnded, InProgress
<1>6. Attempt'
  BY DEF IInv, Attempt, InProgress
<1>7. Loaded'
  BY DEF IInv, Loaded, InProgress
<1>8. Signals'
  BY PostedAfter DEF IInv, Signals, InProgress
<1>9. Working'
  BY DEF IInv, Working
<1>10. Current'
  BY DEF IInv, Current
<1>11. Served'
  BY DEF IInv, Served, Serves
<1>12. QED
  BY <1>1, <1>2, <1>3, <1>4, <1>5, <1>6, <1>7, <1>8, <1>9, <1>10, <1>11 DEF IInv, Types

LEMMA HandleClearKeeps ==
  ASSUME IInv, HandleClear
  PROVE  IInv'
<1> USE ConnectionAssumption DEF HandleClear, Takes, attemptVars, pollerVars, dataVars,
searchVars
<1>1. mainq # <<>> /\ Head(mainq) \in Posted /\ Head(mainq) \in Sig
  BY PostedAfter DEF IInv, Signals
<1>2. ~InProgress
  BY <1>1 DEF IInv, Signals
<1>3. TypeAttempt'
  BY DEF IInv, Types, TypeAttempt
<1>4. TypeData'
  BY DEF IInv, Types, TypeData
<1>5. TypeSearch'
  BY DEF IInv, Types, TypeSearch
<1>6. TypePoller'
  BY DEF IInv, Types, TypePoller
<1>7. EndedStaysEnded'
  BY DEF IInv, EndedStaysEnded, InProgress
<1>8. Attempt'
  BY DEF IInv, Attempt, InProgress
<1>9. Loaded'
  BY <1>2 DEF Loaded, InProgress
<1>10. Signals'
  BY PostedAfter DEF IInv, Signals, InProgress
<1>11. Working'
  BY DEF IInv, Working
<1>12. Current'
  BY DEF IInv, Current
<1>13. Served'
  BY DEF IInv, Served, Serves
<1>14. QED
  BY <1>3, <1>4, <1>5, <1>6, <1>7, <1>8, <1>9, <1>10, <1>11, <1>12, <1>13 DEF IInv, Types

\* The last member of a sequence is that of its tail, or its only one.
LEMMA LastOfTail ==
  ASSUME NEW S, NEW s \in Seq(S), s # <<>>
  PROVE  IF Tail(s) = <<>> THEN Head(s) = s[Len(s)] ELSE Tail(s)[Len(Tail(s))] = s[Len(s)]
<1>1. /\ Len(s) \in Nat \ {0} /\ Head(s) = s[1]
      /\ Tail(s) \in Seq(S) /\ Len(Tail(s)) = Len(s) - 1
      /\ \A i \in 1..Len(Tail(s)) : Tail(s)[i] = s[i + 1]
  BY EmptySeq, HeadTailProperties
<1>2. CASE Tail(s) = <<>>
  <2>1. Len(s) = 1
    <3>1. Len(Tail(s)) = 0
      BY <1>2, EmptySeq
    <3>2. Len(s) \in Int /\ Len(Tail(s)) = Len(s) - 1
      BY <1>1
    <3>3. QED
      BY <3>1, <3>2
  <2>2. QED
    BY <1>1, <1>2, <2>1
<1>3. CASE Tail(s) # <<>>
  <2>1. Len(Tail(s)) \in Nat \ {0}
    BY <1>1, <1>3, EmptySeq
  <2>2. Tail(s)[Len(Tail(s))] = s[Len(Tail(s)) + 1]
    BY <1>1, <2>1
  <2>3. QED
    BY <1>1, <1>3, <2>2
<1>4. QED
  BY <1>2, <1>3

\* What a step of a poller may do.
LEMMA PollerStepKeeps ==
  ASSUME IInv, NEW p \in Gens,
         UNCHANGED <<attemptVars, asking, poller, dataVars, searchVars, closed>>,
         emitted' \in 0..MaxEvents, crashed' \in {"no", "task", "poller"},
         mainq' = mainq \/ \E s \in Sig : /\ mainq' = Append(mainq, s)
                                          /\ s.kind # "clear" /\ (s.kind = "event" => s.of # 0),
         pollers' \in [Gens -> Poller], \A g \in Gens \ {p} : pollers'[g] = pollers[g],
         pollers'[p].quit = pollers[p].quit,
         pollers'[p].at \in {"init", "running", "from"} =>
           pollers'[p].errors < MAX_CONSECUTIVE_ERRORS /\ pollers'[p].session # 0,
         \/ pollers[p].quit
         \/ pollers'[p].jobs = pollers[p].jobs /\ pollers'[p].session = pollers[p].session
         \/ /\ pollers[p].jobs # <<>> /\ pollers'[p].jobs = Tail(pollers[p].jobs)
            /\ pollers'[p].session = Head(pollers[p].jobs)
  PROVE  IInv'
<1> USE ConnectionAssumption DEF attemptVars, dataVars, searchVars
<1>1. TypeAttempt'
  BY DEF IInv, Types, TypeAttempt
<1>2. TypeData'
  BY DEF IInv, Types, TypeData
<1>3. TypeSearch'
  BY DEF IInv, Types, TypeSearch
<1>4. TypePoller'
  BY DEF IInv, Types, TypePoller
<1>5. EndedStaysEnded'
  BY DEF IInv, EndedStaysEnded, InProgress
<1>6. Attempt'
  BY DEF IInv, Attempt, InProgress
<1>7. Loaded'
  BY DEF IInv, Loaded, InProgress
<1>8. Signals'
  <2>1. CASE mainq' = mainq
    BY <2>1, PostedAfter DEF IInv, Signals, InProgress
  <2>2. ASSUME NEW s \in Sig, mainq' = Append(mainq, s), s.kind # "clear", s.kind = "event" => s.of # 0
        PROVE  Signals'
    BY <2>2, PostedAfter DEF IInv, Signals, InProgress
  <2>3. QED
    BY <2>1, <2>2
<1>9. Working'
  BY DEF IInv, Working
<1>10. Current'
  BY DEF IInv, Types, TypePoller, Current
<1>11. Served'
  <2>1. SUFFICES ASSUME task.connected, thread \notin {"load", "launch"}, poller # 0
                PROVE  Serves(poller)'
    BY DEF Served
  <2>2. poller \in Gens /\ Serves(poller) /\ ~pollers[poller].quit
    BY <2>1 DEF IInv, Types, TypePoller, Served, Current
  <2>3. CASE poller # p
    BY <2>2, <2>3 DEF Serves
  <2>4. CASE poller = p
    <3>1. pollers[p].jobs \in Seq(Gens)
      BY DEF IInv, Types, TypePoller, Poller
    <3>2. CASE pollers'[p].jobs = pollers[p].jobs /\ pollers'[p].session = pollers[p].session
      BY <2>2, <2>4, <3>2 DEF Serves
    <3>3. CASE /\ pollers[p].jobs # <<>> /\ pollers'[p].jobs = Tail(pollers[p].jobs)
               /\ pollers'[p].session = Head(pollers[p].jobs)
      <4>1. IF Tail(pollers[p].jobs) = <<>> THEN Head(pollers[p].jobs) = pollers[p].jobs[Len(pollers[p].jobs)]
            ELSE Tail(pollers[p].jobs)[Len(Tail(pollers[p].jobs))] = pollers[p].jobs[Len(pollers[p].jobs)]
        BY <3>1, <3>3, LastOfTail
      <4>2. QED
        BY <2>2, <2>4, <3>3, <4>1 DEF Serves
    <3>4. QED
      BY <2>2, <2>4, <3>2, <3>3
  <2>5. QED
    BY <2>3, <2>4
<1>12. QED
  BY <1>1, <1>2, <1>3, <1>4, <1>5, <1>6, <1>7, <1>8, <1>9, <1>10, <1>11 DEF IInv, Types

\* The pollers.
LEMMA TakeJobKeeps ==
  ASSUME IInv, NEW p \in Gens, TakeJob(p)
  PROVE  IInv'
<1> USE ConnectionAssumption DEF attemptVars, pollerVars, dataVars, searchVars, UsePoller
<1>1. /\ pollers \in [Gens -> Poller] /\ pollers[p] \in Poller /\ emitted \in 0..MaxEvents
      /\ crashed \in {"no", "task", "poller"} /\ (poller # 0 => ~pollers[poller].quit)
      /\ pollers[p].at \in {"init", "running", "from"} =>
           pollers[p].errors < MAX_CONSECUTIVE_ERRORS /\ pollers[p].session # 0
  BY DEF IInv, Types, TypePoller, TypeSearch, Working, Current
<1>2. CASE UsePoller(p)
  BY <1>1, <1>2, PollerStepKeeps DEF TakeJob
<1>3. CASE ~UsePoller(p)
  <2>1. /\ pollers[p].jobs \in Seq(Gens) /\ pollers[p].jobs # <<>>
        /\ Head(pollers[p].jobs) \in Gens /\ Tail(pollers[p].jobs) \in Seq(Gens)
    BY <1>1 DEF Poller, TakeJob
  <2>2. [pollers[p] EXCEPT !.at = "init", !.jobs = Tail(pollers[p].jobs),
                           !.session = Head(pollers[p].jobs), !.errors = 0] \in Poller
    <3>1. \A j \in Seq(Gens), s \in {0} \cup Gens, e \in 0..MAX_CONSECUTIVE_ERRORS :
            [pollers[p] EXCEPT !.at = "init", !.jobs = j, !.session = s, !.errors = e] \in Poller
      BY <1>1 DEF Poller
    <3>2. 0 \in 0..MAX_CONSECUTIVE_ERRORS /\ Head(pollers[p].jobs) \in {0} \cup Gens
      BY <2>1
    <3>3. QED
      BY <2>1, <3>1, <3>2, Zenon
  <2>3. /\ pollers' \in [Gens -> Poller] /\ \A g \in Gens \ {p} : pollers'[g] = pollers[g]
        /\ pollers'[p] = [pollers[p] EXCEPT !.at = "init", !.jobs = Tail(pollers[p].jobs),
                                            !.session = Head(pollers[p].jobs), !.errors = 0]
    <3>1. pollers' = [pollers EXCEPT ![p] =
                       [pollers[p] EXCEPT !.at = "init", !.jobs = Tail(pollers[p].jobs),
                                          !.session = Head(pollers[p].jobs), !.errors = 0]]
      BY <1>1, <1>3 DEF TakeJob
    <3>2. QED
      BY <1>1, <2>2, <3>1
  <2>4. /\ pollers'[p].quit = pollers[p].quit /\ pollers'[p].errors = 0
        /\ pollers'[p].session = Head(pollers[p].jobs) /\ pollers'[p].jobs = Tail(pollers[p].jobs)
    BY <1>1, <2>3
  <2>5. pollers'[p].errors < MAX_CONSECUTIVE_ERRORS /\ pollers'[p].session # 0
    BY <2>1, <2>4 DEF Gens
  <2>6. /\ UNCHANGED <<attemptVars, asking, poller, dataVars, searchVars, closed, emitted, mainq>>
        /\ crashed' = crashed
    BY <1>3 DEF TakeJob
  <2>7. QED
    BY <1>1, <2>1, <2>3, <2>4, <2>5, <2>6, PollerStepKeeps
<1>4. QED
  BY <1>2, <1>3

LEMMA StartKeeps ==
  ASSUME IInv, NEW p \in Gens, Start(p)
  PROVE  IInv'
<1> USE ConnectionAssumption DEF attemptVars, pollerVars, dataVars, searchVars, UsePoller
<1>1. /\ pollers \in [Gens -> Poller] /\ pollers[p] \in Poller /\ emitted \in 0..MaxEvents
      /\ crashed \in {"no", "task", "poller"} /\ (poller # 0 => ~pollers[poller].quit)
      /\ pollers[p].at \in {"init", "running", "from"} =>
           pollers[p].errors < MAX_CONSECUTIVE_ERRORS /\ pollers[p].session # 0
  BY DEF IInv, Types, TypePoller, TypeSearch, Working, Current
<1>2. CASE UsePoller(p)
  BY <1>1, <1>2, PollerStepKeeps DEF Start
<1>3. ASSUME NEW at \in {"from", "idle"}, pollers' = [pollers EXCEPT ![p].at = at], crashed' = crashed
      PROVE  IInv'
  <2>1. [pollers[p] EXCEPT !.at = at] \in Poller
    BY <1>1 DEF Poller
  <2>2. /\ pollers' \in [Gens -> Poller] /\ \A g \in Gens \ {p} : pollers'[g] = pollers[g]
        /\ pollers'[p] = [pollers[p] EXCEPT !.at = at]
    BY <1>1, <1>3, <2>1
  <2>3. /\ pollers'[p].quit = pollers[p].quit /\ pollers'[p].errors = pollers[p].errors
        /\ pollers'[p].session = pollers[p].session /\ pollers'[p].jobs = pollers[p].jobs
    BY <1>1, <2>2
  <2>4. QED
    BY <1>1, <1>3, <2>2, <2>3, PollerStepKeeps DEF Start
<1>4. QED
  BY <1>2, <1>3 DEF Start

LEMMA PollEventsKeeps ==
  ASSUME IInv, NEW p \in Gens, PollEvents(p)
  PROVE  IInv'
<1> USE ConnectionAssumption DEF attemptVars, pollerVars, dataVars, searchVars, UsePoller
<1>1. /\ pollers \in [Gens -> Poller] /\ pollers[p] \in Poller /\ emitted \in 0..MaxEvents
      /\ crashed \in {"no", "task", "poller"} /\ (poller # 0 => ~pollers[poller].quit)
      /\ pollers[p].at \in {"init", "running", "from"} =>
           pollers[p].errors < MAX_CONSECUTIVE_ERRORS /\ pollers[p].session # 0
  BY DEF IInv, Types, TypePoller, TypeSearch, Working, Current
<1>2. [pollers[p] EXCEPT !.at = "from"] \in Poller
  BY <1>1 DEF Poller
<1>3. /\ pollers' \in [Gens -> Poller] /\ \A g \in Gens \ {p} : pollers'[g] = pollers[g]
      /\ pollers'[p] = [pollers[p] EXCEPT !.at = "from"]
  BY <1>1, <1>2 DEF PollEvents
<1>4. /\ pollers'[p].quit = pollers[p].quit /\ pollers'[p].errors = pollers[p].errors
      /\ pollers'[p].session = pollers[p].session /\ pollers'[p].jobs = pollers[p].jobs
  BY <1>1, <1>3
<1>5. QED
  BY <1>1, <1>3, <1>4, PollerStepKeeps DEF PollEvents

LEMMA EventFromReturnsKeeps ==
  ASSUME IInv, NEW p \in Gens, EventFromReturns(p)
  PROVE  IInv'
<1> USE ConnectionAssumption DEF attemptVars, pollerVars, dataVars, searchVars, UsePoller
<1>1. /\ pollers \in [Gens -> Poller] /\ pollers[p] \in Poller /\ emitted \in 0..MaxEvents
      /\ crashed \in {"no", "task", "poller"} /\ (poller # 0 => ~pollers[poller].quit)
      /\ pollers[p].at \in {"init", "running", "from"} =>
           pollers[p].errors < MAX_CONSECUTIVE_ERRORS /\ pollers[p].session # 0
  BY DEF IInv, Types, TypePoller, TypeSearch, Working, Current
<1>2. [pollers[p] EXCEPT !.at = "running", !.errors = 0] \in Poller
  <2>1. \A e \in 0..MAX_CONSECUTIVE_ERRORS : [pollers[p] EXCEPT !.at = "running", !.errors = e] \in Poller
    BY <1>1 DEF Poller
  <2>2. 0 \in 0..MAX_CONSECUTIVE_ERRORS
    OBVIOUS
  <2>3. QED
    BY <2>1, <2>2, Zenon
<1>3. /\ pollers' \in [Gens -> Poller] /\ \A g \in Gens \ {p} : pollers'[g] = pollers[g]
      /\ pollers'[p] = [pollers[p] EXCEPT !.at = "running", !.errors = 0]
  BY <1>1, <1>2 DEF EventFromReturns
<1>4. /\ pollers'[p].quit = pollers[p].quit /\ pollers'[p].errors = 0
      /\ pollers'[p].session = pollers[p].session /\ pollers'[p].jobs = pollers[p].jobs
  BY <1>1, <1>3
<1>5. /\ Signal("event", pollers[p].session) \in Sig
      /\ Signal("event", pollers[p].session).kind = "event"
      /\ Signal("event", pollers[p].session).of # 0
  BY <1>1 DEF Signal, Sig, Poller, EventFromReturns
<1>6. /\ emitted' \in 0..MaxEvents
      /\ mainq' = mainq \/ mainq' = Append(mainq, Signal("event", pollers[p].session))
  BY <1>1 DEF EventFromReturns
<1>7. pollers'[p].errors < MAX_CONSECUTIVE_ERRORS /\ pollers'[p].session # 0
  BY <1>1, <1>4 DEF EventFromReturns
<1>8. mainq' = mainq \/ \E s \in Sig : /\ mainq' = Append(mainq, s)
                                       /\ s.kind # "clear" /\ (s.kind = "event" => s.of # 0)
  BY <1>5, <1>6
<1>9. UNCHANGED <<attemptVars, asking, poller, dataVars, searchVars, closed, crashed>>
  BY DEF EventFromReturns
<1>10. QED
  BY <1>1, <1>3, <1>4, <1>6, <1>7, <1>8, <1>9, PollerStepKeeps

LEMMA EventFromFailsKeeps ==
  ASSUME IInv, NEW p \in Gens, EventFromFails(p)
  PROVE  IInv'
<1> USE ConnectionAssumption DEF attemptVars, pollerVars, dataVars, searchVars, UsePoller
<1>1. /\ pollers \in [Gens -> Poller] /\ pollers[p] \in Poller /\ emitted \in 0..MaxEvents
      /\ crashed \in {"no", "task", "poller"} /\ (poller # 0 => ~pollers[poller].quit)
      /\ pollers[p].at \in {"init", "running", "from"} =>
           pollers[p].errors < MAX_CONSECUTIVE_ERRORS /\ pollers[p].session # 0
  BY DEF IInv, Types, TypePoller, TypeSearch, Working, Current
<1> DEFINE n == pollers[p].errors + 1
           at == IF n < MAX_CONSECUTIVE_ERRORS THEN "running" ELSE "idle"
<1>2. n \in 0..MAX_CONSECUTIVE_ERRORS
  BY <1>1 DEF Poller, EventFromFails
<1>3. pollers' = [pollers EXCEPT ![p].at = at, ![p].errors = n]
  BY DEF EventFromFails
<1>4. mainq' = mainq \/ mainq' = Append(mainq, Signal("lost", p))
  BY DEF EventFromFails
<1>5. at \in {"running", "idle"} /\ (at = "running" => n < MAX_CONSECUTIVE_ERRORS)
  OBVIOUS
<1> HIDE DEF n, at
<1>6. [pollers[p] EXCEPT !.at = at, !.errors = n] \in Poller
  BY <1>1, <1>2, <1>5 DEF Poller
<1>7. /\ pollers' \in [Gens -> Poller] /\ \A g \in Gens \ {p} : pollers'[g] = pollers[g]
      /\ pollers'[p] = [pollers[p] EXCEPT !.at = at, !.errors = n]
  BY <1>1, <1>3, <1>6
<1>8. /\ pollers'[p].quit = pollers[p].quit /\ pollers'[p].errors = n /\ pollers'[p].at = at
      /\ pollers'[p].session = pollers[p].session /\ pollers'[p].jobs = pollers[p].jobs
  BY <1>1, <1>7
<1>9. Signal("lost", p) \in Sig /\ Signal("lost", p).kind = "lost"
  BY DEF Signal, Sig
<1>10. QED
  BY <1>1, <1>4, <1>5, <1>7, <1>8, <1>9, PollerStepKeeps DEF EventFromFails

LEMMA QuitKeeps ==
  ASSUME IInv, NEW p \in Gens, Quit(p)
  PROVE  IInv'
<1> USE ConnectionAssumption DEF attemptVars, pollerVars, dataVars, searchVars, UsePoller
<1>1. /\ pollers \in [Gens -> Poller] /\ pollers[p] \in Poller /\ emitted \in 0..MaxEvents
      /\ crashed \in {"no", "task", "poller"} /\ (poller # 0 => ~pollers[poller].quit)
      /\ pollers[p].at \in {"init", "running", "from"} =>
           pollers[p].errors < MAX_CONSECUTIVE_ERRORS /\ pollers[p].session # 0
  BY DEF IInv, Types, TypePoller, TypeSearch, Working, Current
<1>2. [pollers[p] EXCEPT !.at = "gone", !.jobs = <<>>] \in Poller
  <2>1. \A j \in Seq(Gens) : [pollers[p] EXCEPT !.at = "gone", !.jobs = j] \in Poller
    BY <1>1 DEF Poller
  <2>2. <<>> \in Seq(Gens)
    BY EmptySeq
  <2>3. QED
    BY <2>1, <2>2, Zenon
<1>3. /\ pollers' \in [Gens -> Poller] /\ \A g \in Gens \ {p} : pollers'[g] = pollers[g]
      /\ pollers'[p] = [pollers[p] EXCEPT !.at = "gone", !.jobs = <<>>]
  BY <1>1, <1>2 DEF Quit
<1>4. pollers'[p].quit = pollers[p].quit /\ pollers'[p].at = "gone"
  BY <1>1, <1>3
<1>5. QED
  BY <1>1, <1>3, <1>4, PollerStepKeeps DEF Quit

\* EndConnect tells the current poller to quit, and nothing else changes of the pollers.
LEMMA LetGo ==
  ASSUME pollers \in [Gens -> Poller],
         pollers' = [g \in Gens |-> IF g = poller THEN [pollers[g] EXCEPT !.quit = TRUE] ELSE pollers[g]]
  PROVE  /\ pollers' \in [Gens -> Poller]
         /\ \A g \in Gens : /\ pollers'[g].at = pollers[g].at /\ pollers'[g].errors = pollers[g].errors
                            /\ pollers'[g].session = pollers[g].session
                            /\ g # poller => pollers'[g].quit = pollers[g].quit
<1>1. ASSUME NEW q \in Poller
      PROVE  LET r == [q EXCEPT !.quit = TRUE] IN
             r \in Poller /\ r.at = q.at /\ r.errors = q.errors /\ r.session = q.session
  <2>1. \A b \in BOOLEAN : [q EXCEPT !.quit = b] \in Poller
    BY <1>1 DEF Poller
  <2>2. [q EXCEPT !.quit = TRUE] \in Poller
    BY <2>1, Zenon
  <2>3. QED
    BY <1>1, <2>2
<1>2. ASSUME NEW g \in Gens
      PROVE  /\ pollers'[g] \in Poller
             /\ pollers'[g].at = pollers[g].at /\ pollers'[g].errors = pollers[g].errors
             /\ pollers'[g].session = pollers[g].session
             /\ g # poller => pollers'[g].quit = pollers[g].quit
  <2>1. pollers[g] \in Poller
    OBVIOUS
  <2>2. CASE g = poller
    <3>1. pollers'[g] = [pollers[g] EXCEPT !.quit = TRUE]
      BY <2>2, Zenon
    <3>2. QED
      BY <1>1, <2>1, <2>2, <3>1, Zenon
  <2>3. CASE g # poller
    <3>1. pollers'[g] = pollers[g]
      BY <2>3, Zenon
    <3>2. QED
      BY <2>1, <3>1
  <2>4. QED
    BY <2>2, <2>3
<1>3. QED
  BY <1>2

\* What every caller of EndConnect keeps.
LEMMA EndingKeeps ==
  ASSUME IInv, NEW q, q = mainq \/ (mainq # <<>> /\ q = Rest), EndConnect(TRUE, q),
         index' \in 0..Members, finding' \in BOOLEAN, asking' \in BOOLEAN,
         reconnectionTimer' \in {"off", "single", "repeat", "coordinator"},
         closed' \in {"user", "lost"}, closed' = "user" => reconnectionTimer' = "off"
  PROVE  IInv'
<1> USE ConnectionAssumption DEF EndConnect
<1>1. Signal("clear", 0) \in Sig /\ Signal("clear", 0).kind = "clear" /\ mainq' = Append(q, Signal("clear", 0))
  BY DEF Signal, Sig
<1>2. task' = NoTask /\ ~InProgress' /\ NoTask.connected = FALSE
  BY DEF InProgress, NoTask
<1>3. q \in Seq(Sig) /\ Posted' \subseteq Posted \cup {Signal("clear", 0)}
  BY <1>1, PostedAfter DEF IInv, Signals
<1>4. /\ pollers' \in [Gens -> Poller] /\ poller' = 0
      /\ \A g \in Gens : /\ pollers'[g].at = pollers[g].at /\ pollers'[g].errors = pollers[g].errors
                         /\ pollers'[g].session = pollers[g].session
                         /\ g # poller => pollers'[g].quit = pollers[g].quit
  BY LetGo DEF IInv, Types, TypePoller
<1>5. TypeAttempt'
  BY <1>2 DEF IInv, Types, TypeAttempt
<1>6. TypeData'
  BY DEF IInv, Types, TypeData
<1>7. TypeSearch'
  BY DEF IInv, Types, TypeSearch
<1>8. TypePoller'
  BY <1>4 DEF IInv, Types, TypePoller
<1>9. EndedStaysEnded'
  BY <1>2 DEF EndedStaysEnded
<1>10. Attempt'
  BY <1>2 DEF IInv, Attempt
<1>11. Loaded'
  BY <1>2 DEF Loaded
<1>12. Signals'
  BY <1>1, <1>2, <1>3 DEF IInv, Signals
<1>13. Working'
  BY <1>4 DEF IInv, Working
<1>14. Current'
  BY <1>4 DEF IInv, Current, Gens
<1>15. Served'
  BY <1>2 DEF Served
<1>16. QED
  BY <1>5, <1>6, <1>7, <1>8, <1>9, <1>10, <1>11, <1>12, <1>13, <1>14, <1>15 DEF IInv, Types

\* What every caller of BeginConnect keeps: nothing is posted when an attempt begins.
LEMMA BeginningKeeps ==
  ASSUME IInv, NEW who \in {"user", "dialog", "timer"}, BeginConnect(who), mainq = <<>>,
         UNCHANGED <<pollerVars, mainq, members>>,
         index' \in 0..Members, finding' \in BOOLEAN, asking' \in BOOLEAN,
         reconnectionTimer' \in {"off", "single", "repeat", "coordinator"}
  PROVE  IInv'
<1> USE ConnectionAssumption DEF BeginConnect, pollerVars
<1>1. /\ task' = NewTask /\ NewTask.connected = FALSE
      /\ NewTask \in [cancelled : BOOLEAN, connected : BOOLEAN, set : {TRUE}]
  BY DEF NewTask, NoTask
<1>2. attempts' = attempts + 1 /\ attempts' \in Gens /\ loaded' < attempts'
  BY DEF IInv, Types, TypeAttempt, TypeData, Attempt, Gens
<1>3. Posted' = {}
  BY DEF Posted
<1>4. TypeAttempt'
  <2>1. task' \in {NoTask} \cup [cancelled : BOOLEAN, connected : BOOLEAN, set : {TRUE}]
    BY <1>1, Zenon
  <2>2. asking' \in BOOLEAN
    OBVIOUS
  <2>3. attempts' \in 0..MaxAttempts
    BY <1>2 DEF Gens
  <2>4. thread' = "start" /\ by' \in {"user", "dialog", "timer"}
    OBVIOUS
  <2>5. QED
    BY <2>1, <2>2, <2>3, <2>4 DEF TypeAttempt
<1>5. TypeData'
  BY DEF IInv, Types, TypeData
<1>6. TypeSearch'
  BY DEF IInv, Types, TypeSearch
<1>7. TypePoller'
  BY DEF IInv, Types, TypePoller
<1>8. EndedStaysEnded'
  BY DEF EndedStaysEnded
<1>9. Attempt'
  BY <1>1, <1>2 DEF IInv, Types, TypeData, Attempt
<1>10. Loaded'
  BY <1>2 DEF Loaded
<1>11. Signals'
  BY <1>3 DEF Signals
<1>12. Working'
  BY DEF IInv, Working
<1>13. Current'
  BY <1>2 DEF IInv, Types, TypeAttempt, Current
<1>14. Served'
  BY <1>1 DEF Served
<1>15. QED
  BY <1>4, <1>5, <1>6, <1>7, <1>8, <1>9, <1>10, <1>11, <1>12, <1>13, <1>14 DEF IInv, Types

\* The question is answered with the address of the coordinator: an attempt begins, or
\* the connection is ended only.
LEMMA RedirectKeeps ==
  ASSUME IInv, Redirect
  PROVE  IInv'
<1> USE ConnectionAssumption DEF Redirect, IndexAfterEnd, attemptVars, pollerVars, dataVars,
searchVars
<1>1. /\ NewTask.connected = FALSE
      /\ NewTask \in [cancelled : BOOLEAN, connected : BOOLEAN, set : {TRUE}]
  BY DEF NewTask, NoTask
<1>2. \/ /\ task' = NewTask /\ thread' = "start" /\ by' = "user" /\ closed' = "no"
         /\ attempts' = attempts + 1 /\ attempts' \in Gens /\ loaded' < attempts'
         /\ loaded' # attempts'
      \/ /\ task' = NoTask /\ closed' = "user" /\ UNCHANGED <<thread, attempts, by>>
  BY DEF IInv, Types, TypeAttempt, TypeData, Attempt, Gens
<1>3. Posted' = {} /\ ~task'.connected /\ (thread' = "start" \/ ~InProgress')
  BY <1>1, <1>2 DEF Posted, NoTask, InProgress
<1>4. /\ pollers' \in [Gens -> Poller] /\ poller' = 0
      /\ \A g \in Gens : /\ pollers'[g].at = pollers[g].at /\ pollers'[g].errors = pollers[g].errors
                         /\ pollers'[g].session = pollers[g].session
                         /\ g # poller => pollers'[g].quit = pollers[g].quit
  BY LetGo DEF IInv, Types, TypePoller
<1>5. TypeAttempt'
  <2>1. task' \in {NoTask} \cup [cancelled : BOOLEAN, connected : BOOLEAN, set : {TRUE}]
    BY <1>1, <1>2, Zenon
  <2>2. asking' \in BOOLEAN
    OBVIOUS
  <2>3. attempts' \in 0..MaxAttempts
    BY <1>2 DEF Gens, IInv, Types, TypeAttempt
  <2>4. by' \in {"user", "dialog", "timer"}
    BY <1>2 DEF IInv, Types, TypeAttempt
  <2>5. thread' = "start" \/ thread' = thread
    BY <1>2
  <2>6. QED
    BY <2>1, <2>2, <2>3, <2>4, <2>5 DEF IInv, Types, TypeAttempt
<1>6. TypeData'
  BY DEF IInv, Types, TypeData
<1>7. TypeSearch'
  <2>1. finding' \in BOOLEAN
    OBVIOUS
  <2>2. index' \in 0..Members /\ members' \in {0, Members}
    BY DEF IInv, Types, TypeSearch
  <2>3. QED
    BY <1>2, <2>1, <2>2 DEF IInv, Types, TypeSearch
<1>8. TypePoller'
  BY <1>4 DEF IInv, Types, TypePoller
<1>9. EndedStaysEnded'
  BY <1>2 DEF EndedStaysEnded, InProgress, NoTask
<1>10. Attempt'
  BY <1>1, <1>2 DEF IInv, Types, TypeData, TypeAttempt, Attempt, Gens, InProgress, NoTask
<1>11. Loaded'
  BY <1>2 DEF Loaded, InProgress, NoTask
<1>12. Signals'
  <2>1. mainq' \in Seq(Sig)
    BY DEF IInv, Signals
  <2>2. QED
    BY <1>3, <2>1 DEF Signals
<1>13. Working'
  BY <1>4 DEF IInv, Working
<1>14. Current'
  <2>1. \A g \in Gens :
          g > attempts' \/ (g = attempts' /\ thread' \in {"start", "login", "adopt", "load", "launch"})
            => g > attempts \/ (g = attempts /\ thread \in {"start", "login", "adopt", "load", "launch"})
    BY <1>2 DEF IInv, Types, TypeAttempt, Gens
  <2>2. QED
    BY <1>4, <2>1 DEF IInv, Current, Gens
<1>15. Served'
  BY <1>3 DEF Served
<1>16. QED
  BY <1>5, <1>6, <1>7, <1>8, <1>9, <1>10, <1>11, <1>12, <1>13, <1>14, <1>15 DEF IInv, Types

\* The connect thread gives the session to the current poller, or to a new one.
LEMMA LaunchKeeps ==
  ASSUME IInv, Launch
  PROVE  IInv'
<1> USE ConnectionAssumption DEF attemptVars, pollerVars, dataVars, searchVars
<1> DEFINE p == IF poller = 0 THEN attempts ELSE poller
           at == IF poller = 0 THEN "idle" ELSE pollers[p].at
<1>1. attempts \in Gens /\ p \in Gens /\ pollers \in [Gens -> Poller] /\ pollers[p] \in Poller
  BY DEF IInv, Types, TypePoller, Attempt, Launch
<1>2. /\ poller' = p /\ pollers' = [pollers EXCEPT ![p].jobs = Append(@, attempts), ![p].at = at]
      /\ UNCHANGED <<task, attempts, by, asking, emitted, mainq, dataVars, searchVars, closed, crashed>>
      /\ thread = "launch" /\ thread' = "result"
  BY DEF Launch
<1>3. pollers[p].jobs \in Seq(Gens) /\ at \in {"none", "idle", "init", "running", "from", "gone"}
  BY <1>1 DEF Poller
<1>4. p \in {attempts, poller} /\ at \in {"idle", pollers[p].at} /\ ~pollers[p].quit
  BY DEF IInv, Current, Attempt, Launch
<1> HIDE DEF p, at
<1>5. /\ Append(pollers[p].jobs, attempts) \in Seq(Gens)
      /\ Append(pollers[p].jobs, attempts) # <<>>
      /\ Append(pollers[p].jobs, attempts)[Len(Append(pollers[p].jobs, attempts))] = attempts
  BY <1>1, <1>3
<1>6. [pollers[p] EXCEPT !.jobs = Append(pollers[p].jobs, attempts), !.at = at] \in Poller
  <2>1. \A j \in Seq(Gens) : [pollers[p] EXCEPT !.jobs = j, !.at = at] \in Poller
    BY <1>1, <1>3 DEF Poller
  <2>2. QED
    BY <1>5, <2>1, Zenon
<1>7. /\ pollers' \in [Gens -> Poller] /\ \A g \in Gens \ {p} : pollers'[g] = pollers[g]
      /\ pollers'[p] = [pollers[p] EXCEPT !.jobs = Append(pollers[p].jobs, attempts), !.at = at]
  BY <1>1, <1>2, <1>6
<1>8. /\ pollers'[p].jobs = Append(pollers[p].jobs, attempts) /\ pollers'[p].at = at
      /\ pollers'[p].quit = pollers[p].quit /\ pollers'[p].errors = pollers[p].errors
      /\ pollers'[p].session = pollers[p].session
  BY <1>1, <1>7
<1>9. TypeAttempt'
  BY <1>2 DEF IInv, Types, TypeAttempt
<1>10. TypeData'
  BY <1>2 DEF IInv, Types, TypeData
<1>11. TypeSearch'
  BY <1>2 DEF IInv, Types, TypeSearch
<1>12. TypePoller'
  BY <1>1, <1>2, <1>7 DEF IInv, Types, TypePoller
<1>13. EndedStaysEnded'
  BY <1>2 DEF IInv, EndedStaysEnded, InProgress
<1>14. Attempt'
  BY <1>2 DEF IInv, Attempt
<1>15. Loaded'
  BY <1>2 DEF IInv, Loaded, InProgress
<1>16. Signals'
  BY <1>2, PostedAfter DEF IInv, Signals, InProgress
<1>17. Working'
  BY <1>1, <1>4, <1>7, <1>8 DEF IInv, Working
<1>18. Current'
  BY <1>1, <1>2, <1>4, <1>7, <1>8 DEF IInv, Current, Gens
<1>19. Served'
  BY <1>2, <1>5, <1>8 DEF Served, Serves
<1>20. QED
  BY <1>9, <1>10, <1>11, <1>12, <1>13, <1>14, <1>15, <1>16, <1>17, <1>18, <1>19 DEF IInv, Types

\* The ends of a connection.
LEMMA DisconnectKeeps ==
  ASSUME IInv, Disconnect
  PROVE  IInv'
<1>1. index' \in 0..Members
  BY ConnectionAssumption DEF IInv, Types, TypeSearch, Disconnect, IndexAfterEnd
<1>2. asking' \in BOOLEAN /\ finding' \in BOOLEAN
  BY DEF IInv, Types, TypeSearch, TypeAttempt, Disconnect
<1>3. EndConnect(TRUE, mainq) /\ reconnectionTimer' = "off" /\ closed' = "user"
  BY DEF Disconnect
<1>4. \E q : (q = mainq \/ (mainq # <<>> /\ q = Rest)) /\ EndConnect(TRUE, q)
  BY <1>3
<1>5. QED
  BY <1>1, <1>2, <1>3, <1>4, EndingKeeps

LEMMA HandleFailureKeeps ==
  ASSUME IInv, HandleFailure
  PROVE  IInv'
<1>1. mainq # <<>> /\ asking' \in BOOLEAN /\ finding' = finding /\ finding \in BOOLEAN
  BY DEF IInv, Types, TypeSearch, HandleFailure, Takes
<1>2. CASE by = "dialog" /\ InProgress /\ ~task.connected
  <2>1. index' \in 0..Members
    BY <1>2, ConnectionAssumption DEF IInv, Types, TypeSearch, HandleFailure, IndexAfterEnd
  <2>2. EndConnect(TRUE, Rest) /\ reconnectionTimer' = "off" /\ closed' = "user"
    BY <1>2 DEF HandleFailure
  <2>3. QED
    BY <1>1, <2>1, <2>2, EndingKeeps
<1>3. CASE ~(by = "dialog" /\ InProgress /\ ~task.connected)
  <2>1. /\ mainq' = Rest
        /\ UNCHANGED <<attemptVars, pollerVars, dataVars, searchVars, closed, crashed>>
    BY <1>1, <1>3 DEF HandleFailure, searchVars
  <2>2. QED
    BY <1>1, <2>1, TakingKeeps
<1>4. QED
  BY <1>2, <1>3

LEMMA HandleLostKeeps ==
  ASSUME IInv, HandleLost
  PROVE  IInv'
<1>1. mainq # <<>> /\ asking \in BOOLEAN
  BY DEF IInv, Types, TypeAttempt, HandleLost, Takes
<1>2. ASSUME InProgress, NEW s \in BOOLEAN, NEW e \in BOOLEAN, LostAfter(Rest, s, e)
      PROVE  IInv'
  <2>1. closed' = "lost"
    BY <1>2 DEF IInv, EndedStaysEnded, LostAfter
  <2>2. index' \in 0..Members
    BY <1>2, ConnectionAssumption DEF IInv, Types, TypeSearch, LostAfter, IndexAfterEnd
  <2>3. finding' \in BOOLEAN /\ asking' \in BOOLEAN
    BY <1>1, <1>2 DEF LostAfter
  <2>4. reconnectionTimer' \in {"off", "single", "repeat", "coordinator"}
    BY <1>2 DEF LostAfter
  <2>5. EndConnect(TRUE, Rest)
    BY <1>2 DEF LostAfter
  <2>6. QED
    BY <1>1, <2>1, <2>2, <2>3, <2>4, <2>5, EndingKeeps
<1>3. CASE ~InProgress
  <2>1. mainq' = Rest /\ UNCHANGED <<attemptVars, asking, pollerVars, dataVars, searchVars, closed, crashed>>
    BY <1>3 DEF HandleLost
  <2>2. QED
    BY <1>1, <2>1, TakingKeeps
<1>4. QED
  BY <1>2, <1>3 DEF HandleLost

\* The beginnings of an attempt.
LEMMA ConnectByUserKeeps ==
  ASSUME IInv, NEW who \in {"user", "dialog"}, NEW search \in BOOLEAN, ConnectByUser(who, search)
  PROVE  IInv'
<1>1. /\ BeginConnect(who) /\ mainq = <<>>
      /\ UNCHANGED <<asking, pollerVars, mainq, members, index, reconnectionTimer>>
      /\ finding' = (finding \/ search)
  BY DEF ConnectByUser, UserTurn
<1>2. /\ asking \in BOOLEAN /\ index \in 0..Members
      /\ reconnectionTimer \in {"off", "single", "repeat", "coordinator"}
  BY DEF IInv, Types, TypeAttempt, TypeSearch
<1>3. finding' \in BOOLEAN
  BY <1>1
<1>4. QED
  BY <1>1, <1>2, <1>3, BeginningKeeps

LEMMA ReconnectSingleHostKeeps ==
  ASSUME IInv, ReconnectSingleHost
  PROVE  IInv'
<1>1. /\ asking \in BOOLEAN /\ index \in 0..Members /\ finding \in BOOLEAN
      /\ mainq = <<>> /\ reconnectionTimer \in {"single", "repeat"}
      /\ UNCHANGED <<asking, pollerVars, mainq, finding, members, index>>
  BY DEF IInv, Types, TypeAttempt, TypeSearch, ReconnectSingleHost, TimerTurn
<1>2. closed # "user"
  BY <1>1 DEF IInv, EndedStaysEnded
<1>3. CASE InProgress
  <2>1. /\ reconnectionTimer' \in {"off", "repeat"}
        /\ UNCHANGED <<attemptVars, dataVars, closed, crashed>>
    BY <1>3 DEF ReconnectSingleHost
  <2>2. QED
    BY <1>1, <1>2, <2>1, SearchingKeeps
<1>4. CASE ~InProgress
  <2>1. BeginOnTimer /\ reconnectionTimer' \in {"off", "repeat"}
    BY <1>1, <1>4 DEF ReconnectSingleHost
  <2>2. QED
    BY <1>1, <1>2, <2>1, BeginningKeeps, SearchingKeeps DEF BeginOnTimer
<1>5. QED
  BY <1>3, <1>4

LEMMA ReconnectCoordinatorKeeps ==
  ASSUME IInv, ReconnectCoordinator
  PROVE  IInv'
<1>1. /\ asking \in BOOLEAN /\ index \in 0..Members /\ finding \in BOOLEAN /\ members \in {0, Members}
      /\ mainq = <<>> /\ reconnectionTimer = "coordinator"
      /\ UNCHANGED <<asking, pollerVars, mainq, members>>
  BY DEF IInv, Types, TypeAttempt, TypeSearch, ReconnectCoordinator, TimerTurn
<1>2. closed # "user"
  BY <1>1 DEF IInv, EndedStaysEnded
<1>3. ASSUME reconnectionTimer' \in {"off", "coordinator"}, finding' \in BOOLEAN, index' \in 0..Members,
             UNCHANGED <<attemptVars, dataVars, closed, crashed>>
      PROVE  IInv'
  BY <1>1, <1>2, <1>3, SearchingKeeps
<1>4. ASSUME reconnectionTimer' = "off", finding' \in BOOLEAN, index' \in 0..Members,
             BeginOnTimer
      PROVE  IInv'
  BY <1>1, <1>2, <1>4, BeginningKeeps, SearchingKeeps DEF BeginOnTimer
<1>5. CASE /\ InProgress /\ reconnectionTimer' = "off"
           /\ UNCHANGED <<attemptVars, dataVars, finding, index, closed, crashed>>
  BY <1>1, <1>3, <1>5
<1>6. CASE reconnectionTimer' = "off" /\ finding' = FALSE /\ BeginOnTimer /\ UNCHANGED index
  <2>1. finding' \in BOOLEAN
    BY <1>6
  <2>2. QED
    BY <1>1, <1>4, <1>6, <2>1
<1>7. CASE /\ index < members /\ index' = index + 1 /\ reconnectionTimer' = "off"
           /\ BeginOnTimer /\ UNCHANGED finding
  <2>1. index' \in 0..Members
    BY <1>1, <1>7, ConnectionAssumption
  <2>2. QED
    BY <1>1, <1>4, <1>7, <2>1
<1>8. CASE /\ ~InProgress /\ index >= members /\ index' = 0
           /\ reconnectionTimer' = (IF members > 0 THEN "coordinator" ELSE "off")
           /\ finding' = (finding /\ members > 0)
           /\ UNCHANGED <<attemptVars, dataVars, closed, crashed>>
  <2>1. index' \in 0..Members
    BY <1>8, ConnectionAssumption
  <2>2. finding' \in BOOLEAN
    BY <1>8
  <2>3. reconnectionTimer' \in {"off", "coordinator"}
    BY <1>8
  <2>4. QED
    BY <1>3, <1>8, <2>1, <2>2, <2>3
<1>9. QED
  BY <1>5, <1>6, <1>7, <1>8 DEF ReconnectCoordinator

\* Every step keeps the invariant.
LEMMA StepKeeps == IInv /\ [Next]_vars => IInv'
<1> SUFFICES ASSUME IInv, [Next]_vars PROVE IInv'
  OBVIOUS
<1>1. CASE Interrupt \/ Disconnect \/ Answer \/ Redirect
  BY <1>1, InterruptKeeps, DisconnectKeeps, AnswerKeeps, RedirectKeeps
<1>2. ASSUME NEW who \in {"user", "dialog"}, NEW s \in BOOLEAN, ConnectByUser(who, s)
      PROVE  IInv'
  BY <1>2, ConnectByUserKeeps
<1>3. CASE ConnectThread
  BY <1>3, StartThreadKeeps, LoginKeeps, AdoptKeeps, LoadKeeps, LaunchKeeps,
       ResultKeeps DEF ConnectThread
<1>4. ASSUME NEW p \in Gens, PollerThread(p)
      PROVE  IInv'
  BY <1>4, TakeJobKeeps, StartKeeps, PollEventsKeeps, EventFromReturnsKeeps,
       EventFromFailsKeeps, QuitKeeps DEF PollerThread
<1>5. CASE HandleSuccess
  <2>1. mainq # <<>> /\ asking \in BOOLEAN
    BY <1>5 DEF IInv, Types, TypeAttempt, HandleSuccess, Takes
  <2>2. QED
    BY <1>5, <2>1, TakingKeeps DEF HandleSuccess
<1>6. CASE HandleFailure \/ HandleEvent \/ HandleClear \/ HandleLost \/ OnCacheUpdateTimer
  BY <1>6, HandleFailureKeeps, HandleEventKeeps, HandleClearKeeps, HandleLostKeeps,
       OnCacheUpdateTimerKeeps
<1>7. CASE ReconnectSingleHost \/ ReconnectCoordinator
  BY <1>7, ReconnectSingleHostKeeps, ReconnectCoordinatorKeeps
<1>8. CASE UNCHANGED vars
  <2>1. reconnectionTimer \in {"off", "single", "repeat", "coordinator"} /\ finding \in BOOLEAN
        /\ index \in 0..Members /\ (closed = "user" => reconnectionTimer = "off")
    BY DEF IInv, Types, TypeSearch, EndedStaysEnded
  <2>2. QED
    BY <1>8, <2>1, SearchingKeeps DEF vars, searchVars
<1>9. QED
  BY <1>1, <1>2, <1>3, <1>4, <1>5, <1>6, <1>7, <1>8 DEF Next, MainThread

\* The invariant of a connection, in every behaviour.
THEOREM Invariance == SafeSpec => []IInv
  BY InitIInv, StepKeeps, PTL DEF SafeSpec

\* The fields of a connection keep their types, whatever its three kinds of threads do:
\* no error is counted past the limit, no event is from a session that does not exist.
THEOREM TypeCorrect == SafeSpec => []TypeOK
<1>1. ASSUME IInv PROVE TypeOK
  <2>1. {updateTimer, populated, finding} \subseteq BOOLEAN
    BY <1>1 DEF IInv, Types, TypeData, TypeSearch
  <2>2. mainq \in Seq([kind : {"ok", "fail", "event", "clear", "lost"}, of : {0} \cup Gens])
    BY <1>1 DEF IInv, Signals, Sig
  <2>3. QED
    BY <1>1, <2>1, <2>2 DEF IInv, Types, TypeAttempt, TypePoller, TypeData, TypeSearch, TypeOK
<1>2. QED
  BY <1>1, Invariance, PTL

\* A connection the user or its dialog has ended stays ended until somebody connects it
\* (EndConnect, handleConnectionLostNewFlow), for any number of attempts before.
THEOREM AlwaysEnded == SafeSpec => []EndedStaysEnded
<1>1. IInv => EndedStaysEnded
  BY DEF IInv
<1>2. QED
  BY <1>1, Invariance, PTL

\* No Clear of an earlier end empties the cache of a connected attempt
\* (connectWorkerThread, EndConnect).
THEOREM AlwaysLoaded == SafeSpec => []LoadedStays
<1>1. IInv => LoadedStays
  BY DEF IInv, Loaded, LoadedStays, IsConnected, InProgress
<1>2. QED
  BY <1>1, Invariance, PTL

\* The poller of a connected connection has its session, or is about to take it
\* (connectWorkerThread, EventPoller::initialize).
THEOREM PollerAlwaysHasSession == SafeSpec => []PollerHasSession
<1>1. IInv => PollerHasSession
  BY DEF IInv, Served, Serves, PollerHasSession, IsConnected
<1>2. QED
  BY <1>1, Invariance, PTL
================================================================================
