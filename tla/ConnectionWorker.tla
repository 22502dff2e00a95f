---------------------------- MODULE ConnectionWorker ----------------------------
(***************************************************************************)
(* xen/network/connectionworker.{h,cpp}: the thread that owns the socket   *)
(* of one XenConnection.  Other threads queue requests under an id and     *)
(* block in WaitForResponse; the worker writes each request to the socket  *)
(* and takes what it reads next for its answer.  A section under           *)
(* m_requestMutex is one step, and so are one write to and one read from   *)
(* the socket.  Waits end by a timeout at any time.  What follows the      *)
(* destructor's terminate() is not modelled.                               *)
(***************************************************************************)
EXTENDS Naturals, Sequences, FiniteSets

CONSTANTS MaxRequests, \* bound: requests queued on one connection
          MaxLate,     \* bound: answers that come after the worker gave up on them
          Nothing      \* an empty QByteArray

ASSUME WorkerAssumption == MaxRequests \in Nat /\ MaxLate \in Nat

Ids == 1..MaxRequests
Answers == [of : Ids, whole : BOOLEAN]
Whole(i) == [of |-> i, whole |-> TRUE]
Piece(i) == [of |-> i, whole |-> FALSE]

ASSUME NothingAssumption == Nothing \notin Answers

VARIABLES
  phase,     \* where run() is
  socket,    \* m_socket: "none", "up" or "down"
  stopped,   \* m_stopped
  pending,   \* m_pendingQueue, by id
  working,   \* the request in sendRequestSync, or 0
  response,  \* what sendRequestSync returned
  completed, \* m_completedQueue
  caller,    \* the thread of each request: "none", "waiting", "async", "answered", "gaveUp"
  got,       \* what WaitForResponse returned to it
  signalled, \* history: the ApiResponse signals, in order
  server,    \* the requests the server has still to answer, in order
  inbuf,     \* the requests whose answers the socket will deliver, in order
  rest,      \* the request of whose cut-off answer it has first to deliver the rest, or 0
  late       \* history: reads or writes given up on before the answer had come

callerVars == <<caller, got>>
netVars == <<server, inbuf, rest>>
vars == <<phase, socket, stopped, pending, working, response, completed, callerVars,
          signalled, netVars, late>>

Queued == {i \in Ids : caller[i] # "none"}
NextId == Cardinality(Queued) + 1
CompletedIds == {r.id : r \in completed}
Elems(s) == {s[i] : i \in 1..Len(s)}

Init ==
  /\ phase     = "connecting"
  /\ socket    = "none"
  /\ stopped   = FALSE
  /\ pending   = <<>>
  /\ working   = 0
  /\ response  = Nothing
  /\ completed = {}
  /\ caller    = [i \in Ids |-> "none"]
  /\ got       = [i \in Ids |-> Nothing]
  /\ signalled = <<>>
  /\ server    = <<>>
  /\ inbuf     = <<>>
  /\ rest      = 0
  /\ late      = 0

---------------------------------------------------------------------------------
\* connectToHostSync, and ConnectionEstablished or ConnectionFailed.
Connect ==
  /\ phase = "connecting"
  /\ \/ socket' = "up"   /\ phase' = "loop"
     \/ socket' = "down" /\ phase' = "cleanup"
  /\ UNCHANGED <<stopped, pending, working, response, completed, callerVars, signalled, netVars, late>>

\* QueueRequest(data, emitSignal) of a connected XenConnection; the caller of a
\* synchronous one goes on to WaitForResponse.
QueueRequest(emitSignal) ==
  /\ phase # "connecting"
  /\ NextId \in Ids
  /\ pending' = Append(pending, NextId)
  /\ caller' = [caller EXCEPT ![NextId] = IF emitSignal THEN "async" ELSE "waiting"]
  /\ UNCHANGED <<phase, socket, stopped, working, response, completed, got, signalled, netVars, late>>

\* Mistaken searches of the completed queue: an entry of any id, or one that stays.
GetAnyResponse(i) ==
  /\ caller[i] = "waiting"
  /\ \E r \in completed :
       /\ completed' = completed \ {r}
       /\ got' = [got EXCEPT ![i] = r.response]
  /\ caller' = [caller EXCEPT ![i] = "answered"]
  /\ UNCHANGED <<phase, socket, stopped, pending, working, response, signalled, netVars, late>>

GetResponseKept(i) ==
  /\ caller[i] = "waiting"
  /\ \E r \in completed : r.id = i /\ got' = [got EXCEPT ![i] = r.response]
  /\ caller' = [caller EXCEPT ![i] = "answered"]
  /\ UNCHANGED <<phase, socket, stopped, pending, working, response, completed, signalled, netVars, late>>

\* WaitForResponse: the entry of this id is taken out of the completed queue.
GetResponse(i) ==
  /\ caller[i] = "waiting"
  /\ \E r \in completed :
       /\ r.id = i
       /\ completed' = completed \ {r}
       /\ got' = [got EXCEPT ![i] = r.response]
  /\ caller' = [caller EXCEPT ![i] = "answered"]
  /\ UNCHANGED <<phase, socket, stopped, pending, working, response, signalled, netVars, late>>

\* The caller gives up; its request stays where it is, and so does its answer.
WaitTimesOut(i) ==
  /\ caller[i] = "waiting"
  /\ caller' = [caller EXCEPT ![i] = "gaveUp"]
  /\ UNCHANGED <<phase, socket, stopped, pending, working, response, completed, got, signalled, netVars, late>>

RequestStop ==
  /\ ~stopped
  /\ stopped' = TRUE
  /\ UNCHANGED <<phase, socket, pending, working, response, completed, callerVars, signalled, netVars, late>>

---------------------------------------------------------------------------------
\* eventPollLoop: the flag is tested between two rounds of processQueuedRequests.
PollLoop ==
  /\ phase = "loop"
  /\ phase' = IF stopped THEN "cleanup" ELSE "drain"
  /\ UNCHANGED <<socket, stopped, pending, working, response, completed, callerVars, signalled, netVars, late>>

\* processQueuedRequests: the oldest pending request, until there is none.
TakeRequest ==
  /\ phase = "drain"
  /\ IF pending = <<>>
     THEN phase' = "loop" /\ UNCHANGED <<pending, working>>
     ELSE /\ phase' = "write"
          /\ working' = Head(pending)
          /\ pending' = Tail(pending)
  /\ UNCHANGED <<socket, stopped, response, completed, callerVars, signalled, netVars, late>>

\* sendRequestSync: the write succeeds, or fails, or is given up on while the bytes
\* are still in the socket's buffer and go out later.
Write ==
  /\ phase = "write"
  /\ socket = "up"
  /\ server' = Append(server, working)
  /\ phase' = "read"
  /\ UNCHANGED <<socket, stopped, pending, working, response, completed, callerVars, signalled, inbuf, rest, late>>

WriteFails ==
  /\ phase = "write"
  /\ \/ UNCHANGED <<server, late>>
     \/ /\ socket = "up" /\ late < MaxLate
        /\ server' = Append(server, working)
        /\ late' = late + 1
  /\ response' = Nothing
  /\ phase' = "store"
  /\ UNCHANGED <<socket, stopped, pending, working, completed, callerVars, signalled, inbuf, rest>>

\* Mistaken reads: the bytes stay in the buffer; or a socket that is down is waited for.
ReadPeeking ==
  /\ phase = "read"
  /\ inbuf # <<>>
  /\ response' = Whole(Head(inbuf))
  /\ phase' = "store"
  /\ UNCHANGED <<socket, stopped, pending, working, completed, callerVars, signalled, netVars, late>>

ReadLiveOnly ==
  /\ phase = "read"
  /\ inbuf = <<>>
  /\ socket = "up" /\ late < MaxLate
  /\ late' = late + 1
  /\ response' = Nothing
  /\ phase' = "store"
  /\ UNCHANGED <<socket, stopped, pending, working, completed, callerVars, signalled, netVars>>

\* A read that ends at a pause has taken the next n answers out of the socket; the
\* pause may have cut off the last thing it took.
TakenUpTo(n) ==
  /\ inbuf' = SubSeq(inbuf, n + 1, Len(inbuf))
  /\ rest' \in {0, IF n = 0 THEN rest ELSE inbuf[n]}

\* readHttpResponse: the rest of a cut-off answer is skipped with the header lines, and
\* the next answer is read whole; or a pause cuts it off, in its body or in a header
\* line, in which case all that comes before the next silence is its body.
Read ==
  /\ phase = "read"
  /\ inbuf # <<>>
  /\ \/ /\ response' = Whole(Head(inbuf))
        /\ inbuf' = Tail(inbuf)
        /\ rest' = 0
     \/ /\ response' \in {Nothing, Piece(Head(inbuf))}
        /\ \E n \in 1..Len(inbuf) : TakenUpTo(n)
  /\ phase' = "store"
  /\ UNCHANGED <<socket, stopped, pending, working, completed, callerVars, signalled, server, late>>

\* The header lines are given up on before the answer begins, and what follows a rest
\* in the last second, headers and all, is taken for the body.
ReadRest ==
  /\ phase = "read"
  /\ rest # 0
  /\ socket = "up" /\ late < MaxLate
  /\ late' = late + 1
  /\ response' = Piece(rest)
  /\ \E n \in 0..Len(inbuf) : TakenUpTo(n)
  /\ phase' = "store"
  /\ UNCHANGED <<socket, stopped, pending, working, completed, callerVars, signalled, server>>

\* The waits end with no answer begun: after their timeouts, or at once on a socket
\* that is down.  A rest may have been skipped meanwhile.
ReadTimesOut ==
  /\ phase = "read"
  /\ inbuf = <<>>
  /\ \/ socket = "up" /\ late < MaxLate /\ late' = late + 1
     \/ socket # "up" /\ UNCHANGED late
  /\ response' = Nothing
  /\ rest' \in {0, rest}
  /\ phase' = "store"
  /\ UNCHANGED <<socket, stopped, pending, working, completed, callerVars, signalled, server, inbuf>>

\* The second locked section: the entry is stored, every waiter woken.  A mistaken
\* order lets go of the request first.
StoreReleased ==
  /\ phase = "store"
  /\ working' = 0
  /\ completed' = completed \cup {[id |-> working', response |-> response]}
  /\ signalled' = IF caller[working] = "async" THEN Append(signalled, working) ELSE signalled
  /\ response' = Nothing
  /\ phase' = "drain"
  /\ UNCHANGED <<socket, stopped, pending, callerVars, netVars, late>>

Store ==
  /\ phase = "store"
  /\ completed' = completed \cup {[id |-> working, response |-> response]}
  /\ signalled' = IF caller[working] = "async" THEN Append(signalled, working) ELSE signalled
  /\ working' = 0
  /\ response' = Nothing
  /\ phase' = "drain"
  /\ UNCHANGED <<socket, stopped, pending, callerVars, netVars, late>>

Cleanup ==
  /\ phase = "cleanup"
  /\ socket' = "none"
  /\ server' = <<>>
  /\ inbuf' = <<>>
  /\ rest' = 0
  /\ phase' = "finished"
  /\ UNCHANGED <<stopped, pending, working, response, completed, callerVars, signalled, late>>

---------------------------------------------------------------------------------
\* The server answers requests in order, with a body of JSON that holds no empty line,
\* and the connection may break; what has arrived by then can still be read.
ServerAnswers ==
  /\ socket = "up"
  /\ server # <<>>
  /\ inbuf' = Append(inbuf, Head(server))
  /\ server' = Tail(server)
  /\ UNCHANGED <<phase, socket, stopped, pending, working, response, completed, callerVars, signalled, rest, late>>

LoseConnection ==
  /\ socket = "up"
  /\ socket' = "down"
  /\ server' = <<>>
  /\ UNCHANGED <<phase, stopped, pending, working, response, completed, callerVars, signalled, inbuf, rest, late>>

WorkerStep ==
  \/ Connect \/ PollLoop \/ TakeRequest \/ Write \/ WriteFails
  \/ Read \/ ReadRest \/ ReadTimesOut \/ Store \/ Cleanup

Next ==
  \/ WorkerStep
  \/ \E b \in BOOLEAN : QueueRequest(b)
  \/ \E i \in Ids : GetResponse(i) \/ WaitTimesOut(i)
  \/ RequestStop
  \/ ServerAnswers
  \/ LoseConnection

\* The worker thread runs, and a server it is still connected to answers.  That a
\* request is made or the worker stopped is nobody's duty.
Fairness == WF_vars(WorkerStep) /\ WF_vars(ServerAnswers)

SafeSpec == Init /\ [][Next]_vars
Spec == SafeSpec /\ Fairness

---------------------------------------------------------------------------------
TypeOK ==
  /\ phase \in {"connecting", "loop", "drain", "write", "read", "store", "cleanup", "finished"}
  /\ socket \in {"none", "up", "down"}
  /\ stopped \in BOOLEAN
  /\ pending \in Seq(Ids)
  /\ working \in {0} \cup Ids
  /\ response \in Answers \cup {Nothing}
  /\ completed \subseteq [id : Ids, response : Answers \cup {Nothing}]
  /\ caller \in [Ids -> {"none", "waiting", "async", "answered", "gaveUp"}]
  /\ got \in [Ids -> Answers \cup {Nothing}]
  /\ signalled \in Seq(Ids)
  /\ server \in Seq(Ids)
  /\ inbuf \in Seq(Ids)
  /\ rest \in {0} \cup Ids
  /\ late \in 0..MaxLate

\* Until its caller fetches its entry, and then nowhere, a queued request is in
\* exactly one place: pending, being sent, or completed once.  A caller that gives up
\* changes nothing of that (QueueRequest, processQueuedRequests, WaitForResponse).
RequestInOnePlace ==
  \A i \in Queued :
    Cardinality({j \in 1..Len(pending) : pending[j] = i})
      + (IF working = i THEN 1 ELSE 0)
      + Cardinality({r \in completed : r.id = i})
    = IF caller[i] = "answered" THEN 0 ELSE 1

\* Requests go out in the order in which they were queued: the one being sent and
\* those already answered are older than all that are pending.
SentInOrder ==
  \A j \in 1..Len(pending) :
    /\ \A k \in 1..(j - 1) : pending[k] < pending[j]
    /\ working < pending[j]
    /\ \A i \in CompletedIds \cup Elems(signalled) : i < pending[j]

\* As long as no answer came after the worker had given up on it, what a caller or
\* the completed queue gets is the answer to that very request, or a piece of it: also
\* after an answer that was cut off, whose rest is still in the socket.
AnswersMatch ==
  late = 0 =>
    /\ \A i \in Ids : got[i] # Nothing => got[i].of = i
    /\ \A r \in completed : r.response # Nothing => r.response.of = r.id

\* However late answers come and wherever they are cut off, none is handed to two
\* requests, and none to a request older than the one it answers.  Only the pieces of
\* a cut-off answer may go to several requests, in order.
Handed == {<<r.id, r.response>> : r \in completed} \cup {<<i, got[i]>> : i \in Ids}
Before(x, y) == x.of <= y.of /\ (x.whole \/ y.whole => x.of < y.of)
AnswerHandedOnce ==
  \A x, y \in {h \in Handed : h[2] # Nothing} :
    /\ x[2].of <= x[1]
    /\ x[1] < y[1] => Before(x[2], y[2])

\* Nothing hangs in the worker, also on a socket that has gone down: each request is
\* written and answered, or given up on, unless the thread ends first; and RequestStop
\* ends the thread, whatever is still pending.
NothingHangs ==
  /\ \A i \in Ids : caller[i] # "none" ~>
       (phase = "finished" \/ (i # working /\ i \notin Elems(pending)))
  /\ stopped ~> phase = "finished"
=================================================================================
