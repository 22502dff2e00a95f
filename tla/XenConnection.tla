------------------------------- MODULE XenConnection -------------------------------
(***************************************************************************)
(* xen/network/connection.{h,cpp}: the life of one XenConnection.  Three    *)
(* kinds of threads work on its fields without a lock: the main thread     *)
(* (user, posted signals, timers), the connect thread of an attempt, and   *)
(* the thread of each EventPoller (xen/eventpoller.cpp).  One step is one  *)
(* handler of the main thread, or what another thread does between two     *)
(* looks at a field the main thread writes.  Abstracted: what is in the    *)
(* cache (only whose data it is), hosts (only the index into the pool's    *)
(* members), and EndConnect called by a thread other than the main one.    *)
(***************************************************************************)
EXTENDS Naturals, Sequences

CONSTANTS MaxAttempts, \* bound: connection attempts
          MaxEvents,   \* bound: batches of events that pollers emit
          Members,     \* hosts of the pool
          MAX_CONSECUTIVE_ERRORS

ASSUME ConnectionAssumption ==
  /\ MaxAttempts \in Nat \ {0} /\ MaxEvents \in Nat
  /\ Members \in Nat \ {0}
  /\ MAX_CONSECUTIVE_ERRORS \in Nat \ {0}

Gens == 1..MaxAttempts
NoTask == [cancelled |-> FALSE, connected |-> FALSE, set |-> FALSE]
NewTask == [NoTask EXCEPT !.set = TRUE]
Signal(k, g) == [kind |-> k, of |-> g]

VARIABLES
  task,     \* connectTask
  thread,   \* the connect thread: where it is, or "none"
  attempts, \* attempts begun; the last one is that of task and thread
  by,       \* who began it: "user", "dialog" (ConnectingToServerDialog) or "timer"
  asking,   \* the question of ShowConnectingDialogError is on the screen
  poller,   \* eventPoller: 0 for nullptr, else the poller created by that attempt
  pollers,  \* the EventPoller objects, each with its thread
  emitted,  \* batches of events emitted
  mainq,    \* what is posted to the main thread
  eventQueue, \* eventQueue, as the sessions its events are from
  updateTimer, \* cacheUpdateTimer is active
  cache,    \* the sessions whose data the cache holds
  loaded,   \* history: the last attempt whose event.from was answered
  populated, \* cacheIsPopulated
  finding,  \* findingNewCoordinator
  members,  \* poolMembers.count()
  index,    \* poolMemberIndex
  reconnectionTimer, \* "off", "single", "repeat" or "coordinator"
  closed,   \* history: "no", or who ended the connection last: "user", "lost", or "missed"
            \* when the timer of a loss has gone off in vain
  crashed   \* "no", or the null pointer that was used: "task" or "poller"

attemptVars == <<task, thread, attempts, by>>
pollerVars == <<poller, pollers, emitted>>
dataVars == <<eventQueue, updateTimer, cache, loaded, populated>>
searchVars == <<finding, members, index, reconnectionTimer>>
vars == <<attemptVars, asking, pollerVars, mainq, dataVars, searchVars, closed, crashed>>

Alive == crashed = "no"
InProgress == task.set
IsConnected == task.set /\ task.connected

Poller == [at : {"none", "idle", "init", "running", "from", "gone"}, \* its thread
           jobs : Seq(Gens),           \* posted Reset, Initialize(session) and Start
           session : {0} \cup Gens,    \* the session it has duplicated
           errors : 0..MAX_CONSECUTIVE_ERRORS,
           quit : BOOLEAN]             \* Stop, Reset and quit() are posted

Init ==
  /\ task = NoTask /\ thread = "none" /\ attempts = 0 /\ by = "user"
  /\ asking = FALSE
  /\ poller = 0 /\ emitted = 0
  /\ pollers = [g \in Gens |-> [at |-> "none", jobs |-> <<>>, session |-> 0, errors |-> 0, quit |-> FALSE]]
  /\ mainq = <<>>
  /\ eventQueue = {} /\ updateTimer = FALSE /\ cache = {} /\ loaded = 0 /\ populated = FALSE
  /\ finding = FALSE /\ members = 0 /\ index = 0 /\ reconnectionTimer = "off"
  /\ closed = "no" /\ crashed = "no"

---------------------------------------------------------------------------------
\* BeginConnect, where no attempt is there and no thread runs (else it returns).
BeginConnect(who) ==
  /\ ~InProgress /\ thread = "none"
  /\ attempts < MaxAttempts
  /\ attempts' = attempts + 1
  /\ task' = NewTask
  /\ by' = who
  /\ populated' = FALSE
  /\ thread' = "start"
  /\ closed' = "no"
  /\ UNCHANGED <<eventQueue, updateTimer, cache, loaded, crashed>>

\* EndConnect in the main thread, which waits for nobody; q is what its queue holds
\* otherwise.  The fields of the search and of the history are left to the caller.
\* A mistaken end does not stop the poller's thread.
EndConnectUnstopped(clearCache, q) ==
  /\ task' = NoTask
  /\ poller' = 0
  /\ mainq' = IF clearCache THEN Append(q, Signal("clear", 0)) ELSE q
  /\ eventQueue' = IF clearCache THEN {} ELSE eventQueue
  /\ updateTimer' = (updateTimer /\ ~clearCache)
  /\ populated' = FALSE
  /\ members' = IF cache # {} THEN Members ELSE members
  /\ UNCHANGED <<pollers, thread, attempts, by, emitted, cache, loaded, crashed>>

EndConnect(clearCache, q) ==
  /\ task' = NoTask
  /\ poller' = 0
  /\ pollers' = [g \in Gens |-> IF g = poller THEN [pollers[g] EXCEPT !.quit = TRUE] ELSE pollers[g]]
  /\ mainq' = IF clearCache THEN Append(q, Signal("clear", 0)) ELSE q
  /\ eventQueue' = IF clearCache THEN {} ELSE eventQueue
  /\ updateTimer' = (updateTimer /\ ~clearCache)
  /\ populated' = FALSE
  /\ members' = IF cache # {} THEN Members ELSE members
  /\ UNCHANGED <<thread, attempts, by, emitted, cache, loaded, crashed>>

\* updatePoolMembersFromCache starts over with the list.
IndexAfterEnd == IF cache # {} THEN 0 ELSE index

---------------------------------------------------------------------------------
\* The user, when the main thread has dispatched what was posted before.
UserTurn == mainq = <<>> /\ ~asking

ConnectByUser(who, initiateCoordinatorSearch) ==
  /\ Alive
  /\ UserTurn
  /\ BeginConnect(who)
  /\ finding' = (finding \/ initiateCoordinatorSearch)
  /\ UNCHANGED <<asking, pollerVars, mainq, members, index, reconnectionTimer>>

\* DisconnectCommand, and Cancel in the connecting dialog.
Disconnect ==
  /\ Alive
  /\ UserTurn
  /\ InProgress
  /\ EndConnect(TRUE, mainq)
  /\ index' = IndexAfterEnd
  /\ reconnectionTimer' = "off"
  /\ closed' = "user"
  /\ UNCHANGED <<asking, finding>>

\* Interrupt, called by actions that restart the toolstack or the host.
Interrupt ==
  /\ Alive
  /\ InProgress
  /\ ~task.cancelled
  /\ task' = [task EXCEPT !.cancelled = TRUE]
  /\ UNCHANGED <<thread, attempts, by, asking, pollerVars, mainq, dataVars, searchVars, closed, crashed>>

---------------------------------------------------------------------------------
\* connectWorkerThread: the task is looked at, the host asked for a session,
StartThread ==
  /\ Alive
  /\ thread = "start"
  /\ thread' = IF InProgress /\ ~task.cancelled THEN "login" ELSE "none"
  /\ UNCHANGED <<task, attempts, by, asking, pollerVars, mainq, dataVars, searchVars, closed, crashed>>

\* and the task looked at again; the session it has got is dropped if that has changed.
Login ==
  /\ Alive
  /\ thread = "login"
  /\ \/ /\ InProgress /\ ~task.cancelled
        /\ thread' = "adopt"
        /\ UNCHANGED mainq
     \/ /\ thread' = "none"
        /\ mainq' = Append(mainq, Signal("fail", attempts))
  /\ UNCHANGED <<task, attempts, by, asking, pollerVars, dataVars, searchVars, closed, crashed>>

\* The task is written to and the cache cleared.  A mistaken variant posts the Clear.
AdoptPosting ==
  /\ Alive
  /\ thread = "adopt"
  /\ InProgress
  /\ task' = [task EXCEPT !.connected = TRUE]
  /\ mainq' = Append(mainq, Signal("clear", 0))
  /\ thread' = "load"
  /\ UNCHANGED <<attempts, by, asking, pollerVars, dataVars, searchVars, closed, crashed>>

Adopt ==
  /\ Alive
  /\ thread = "adopt"
  /\ IF InProgress
     THEN /\ task' = [task EXCEPT !.connected = TRUE]
          /\ cache' = {}
          /\ thread' = "load"
          /\ UNCHANGED crashed
     ELSE /\ crashed' = "task"
          /\ UNCHANGED <<task, thread, cache>>
  /\ UNCHANGED <<attempts, by, asking, pollerVars, mainq, eventQueue, updateTimer, loaded, populated, searchVars, closed>>

\* The answer of event.from fills the cache; without one it stays empty.
Load ==
  /\ Alive
  /\ thread = "load"
  /\ \/ cache' = cache \cup {attempts} /\ loaded' = attempts
     \/ UNCHANGED <<cache, loaded>>
  /\ populated' = TRUE
  /\ thread' = "launch"
  /\ UNCHANGED <<task, attempts, by, asking, pollerVars, mainq, eventQueue, updateTimer, searchVars, closed, crashed>>

\* The poller is created unless there is one, and Reset, Initialize and Start are
\* posted to its thread.  A mistaken variant posts them to a new one only.
LaunchNewOnly ==
  /\ Alive
  /\ thread = "launch"
  /\ IF poller = 0
     THEN /\ poller' = attempts
          /\ pollers' = [pollers EXCEPT ![attempts].at = "idle", ![attempts].jobs = <<attempts>>]
     ELSE UNCHANGED <<poller, pollers>>
  /\ thread' = "result"
  /\ UNCHANGED <<task, attempts, by, asking, emitted, mainq, dataVars, searchVars, closed, crashed>>

Launch ==
  /\ Alive
  /\ thread = "launch"
  /\ LET p == IF poller = 0 THEN attempts ELSE poller
     IN  /\ poller' = p
         /\ pollers' = [pollers EXCEPT ![p].jobs = Append(@, attempts),
                                       ![p].at = IF poller = 0 THEN "idle" ELSE @]
  /\ thread' = "result"
  /\ UNCHANGED <<task, attempts, by, asking, emitted, mainq, dataVars, searchVars, closed, crashed>>

Result ==
  /\ Alive
  /\ thread = "result"
  /\ mainq' = Append(mainq, Signal("ok", attempts))
  /\ thread' = "none"
  /\ UNCHANGED <<task, attempts, by, asking, pollerVars, dataVars, searchVars, closed, crashed>>

ConnectThread == StartThread \/ Login \/ Adopt \/ Load \/ Launch \/ Result

---------------------------------------------------------------------------------
\* The thread of poller p.  What is posted to it uses the field eventPoller, before
\* Reset and Initialize and again before Start; that the field has changed meanwhile
\* is fatal.
UsePoller(p) ==
  /\ poller # p
  /\ crashed' = "poller"
  /\ UNCHANGED pollers

TakeJob(p) ==
  /\ Alive
  /\ pollers[p].at \in {"idle", "running"}
  /\ pollers[p].jobs # <<>>
  /\ \/ UsePoller(p)
     \/ /\ poller = p
        /\ pollers' = [pollers EXCEPT ![p].at = "init", ![p].jobs = Tail(@),
                                      ![p].session = Head(pollers[p].jobs), ![p].errors = 0]
        /\ UNCHANGED crashed
  /\ UNCHANGED <<attemptVars, asking, poller, emitted, mainq, dataVars, searchVars, closed>>

\* The duplicated session is connected, or is not and Start returns.
Start(p) ==
  /\ Alive
  /\ pollers[p].at = "init"
  /\ \/ UsePoller(p)
     \/ /\ poller = p
        /\ \E at \in {"from", "idle"} : pollers' = [pollers EXCEPT ![p].at = at]
        /\ UNCHANGED crashed
  /\ UNCHANGED <<attemptVars, asking, poller, emitted, mainq, dataVars, searchVars, closed>>

\* pollEvents, and what it does when event.from returns.
PollEvents(p) ==
  /\ Alive
  /\ pollers[p].at = "running"
  /\ ~pollers[p].quit
  /\ pollers' = [pollers EXCEPT ![p].at = "from"]
  /\ UNCHANGED <<attemptVars, asking, poller, emitted, mainq, dataVars, searchVars, closed, crashed>>

EventFromReturns(p) ==
  /\ Alive
  /\ pollers[p].at = "from"
  /\ \/ /\ emitted < MaxEvents
        /\ emitted' = emitted + 1
        /\ mainq' = Append(mainq, Signal("event", pollers[p].session))
        /\ pollers' = [pollers EXCEPT ![p].at = "running", ![p].errors = 0]
     \/ /\ pollers' = [pollers EXCEPT ![p].at = "running", ![p].errors = 0]
        /\ UNCHANGED <<emitted, mainq>>
  /\ UNCHANGED <<attemptVars, asking, poller, dataVars, searchVars, closed, crashed>>

\* A mistaken count lets one error more pass.
EventFromFailsOnceMore(p) ==
  /\ Alive
  /\ pollers[p].at = "from"
  /\ LET n == pollers[p].errors + 1 IN
     IF n <= MAX_CONSECUTIVE_ERRORS
     THEN /\ pollers' = [pollers EXCEPT ![p].at = "running", ![p].errors = n]
          /\ UNCHANGED mainq
     ELSE /\ pollers' = [pollers EXCEPT ![p].at = "idle", ![p].errors = n]
          /\ mainq' = Append(mainq, Signal("lost", p))
  /\ UNCHANGED <<attemptVars, asking, poller, emitted, dataVars, searchVars, closed, crashed>>

EventFromFails(p) ==
  /\ Alive
  /\ pollers[p].at = "from"
  /\ LET n == pollers[p].errors + 1 IN
     IF n < MAX_CONSECUTIVE_ERRORS
     THEN /\ pollers' = [pollers EXCEPT ![p].at = "running", ![p].errors = n]
          /\ UNCHANGED mainq
     ELSE /\ pollers' = [pollers EXCEPT ![p].at = "idle", ![p].errors = n]
          /\ mainq' = Append(mainq, Signal("lost", p))
  /\ UNCHANGED <<attemptVars, asking, poller, emitted, dataVars, searchVars, closed, crashed>>

\* The event loop is left after what it was doing, and the poller deleted.
Quit(p) ==
  /\ Alive
  /\ pollers[p].quit
  /\ pollers[p].at \in {"idle", "running"}
  /\ pollers' = [pollers EXCEPT ![p].at = "gone", ![p].jobs = <<>>]
  /\ UNCHANGED <<attemptVars, asking, poller, emitted, mainq, dataVars, searchVars, closed, crashed>>

PollerThread(p) ==
  \/ TakeJob(p) \/ Start(p) \/ PollEvents(p)
  \/ EventFromReturns(p) \/ EventFromFails(p) \/ Quit(p)

---------------------------------------------------------------------------------
\* The main thread takes what was posted first.
Takes(kind) == mainq # <<>> /\ Head(mainq).kind = kind
Rest == Tail(mainq)

\* HandleConnectionResult: the dialog is closed, which ends an attempt that failed;
\* then the error is shown, with a question if the host is a pool member.
HandleSuccess ==
  /\ Alive
  /\ Takes("ok")
  /\ mainq' = Rest
  /\ UNCHANGED <<attemptVars, asking, pollerVars, dataVars, searchVars, closed, crashed>>

HandleFailure ==
  /\ Alive
  /\ Takes("fail")
  /\ IF by = "dialog" /\ InProgress /\ ~task.connected
     THEN /\ EndConnect(TRUE, Rest)
          /\ index' = IndexAfterEnd
          /\ reconnectionTimer' = "off"
          /\ closed' = "user"
     ELSE /\ mainq' = Rest
          /\ UNCHANGED <<attemptVars, pollerVars, dataVars, members, index, reconnectionTimer, closed, crashed>>
  /\ asking' \in BOOLEAN
  /\ UNCHANGED finding

\* The answer: nothing, or EndConnect(false, false) and BeginConnect(false), which returns
\* if the thread of an attempt that was ended is still running.
Answer ==
  /\ Alive
  /\ asking
  /\ mainq = <<>>
  /\ asking' = FALSE
  /\ UNCHANGED <<attemptVars, pollerVars, mainq, dataVars, searchVars, closed, crashed>>

Redirect ==
  /\ Alive
  /\ asking
  /\ mainq = <<>>
  /\ asking' = FALSE
  /\ \/ /\ thread = "none"
        /\ attempts < MaxAttempts
        /\ task' = NewTask
        /\ thread' = "start"
        /\ attempts' = attempts + 1
        /\ by' = "user"
        /\ closed' = "no"
     \/ /\ thread # "none"
        /\ task' = NoTask
        /\ closed' = "user"
        /\ UNCHANGED <<thread, attempts, by>>
  /\ poller' = 0
  /\ pollers' = [g \in Gens |-> IF g = poller THEN [pollers[g] EXCEPT !.quit = TRUE] ELSE pollers[g]]
  /\ populated' = FALSE
  /\ members' = IF cache # {} THEN Members ELSE members
  /\ index' = IndexAfterEnd
  /\ finding' = FALSE
  /\ reconnectionTimer' = "off"
  /\ UNCHANGED <<emitted, mainq, eventQueue, updateTimer, cache, loaded, crashed>>

\* onEventPollerEventReceived and, 50 ms later, onCacheUpdateTimer.
HandleEvent ==
  /\ Alive
  /\ Takes("event")
  /\ mainq' = Rest
  /\ eventQueue' = eventQueue \cup {Head(mainq).of}
  /\ updateTimer' = TRUE
  /\ UNCHANGED <<attemptVars, asking, pollerVars, cache, loaded, populated, searchVars, closed, crashed>>

OnCacheUpdateTimer ==
  /\ Alive
  /\ updateTimer
  /\ cache' = cache \cup eventQueue
  /\ eventQueue' = {}
  /\ updateTimer' = FALSE
  /\ populated' = TRUE
  /\ UNCHANGED <<attemptVars, asking, pollerVars, mainq, loaded, searchVars, closed, crashed>>

\* The Clear that EndConnect has posted.
HandleClear ==
  /\ Alive
  /\ Takes("clear")
  /\ mainq' = Rest
  /\ cache' = {}
  /\ UNCHANGED <<attemptVars, asking, pollerVars, eventQueue, updateTimer, loaded, populated, searchVars, closed, crashed>>

\* handleConnectionLostNewFlow.  Running actions set expectDisruption and
\* coordinatorMayChange, the pool its ha_enabled.  Mistaken variants: the end stops the
\* timer that was just started; an end by the user goes unnoticed.
LostAfter(q, searching, expectDisruption) ==
  /\ EndConnect(TRUE, q)
  /\ index' = IF cache # {} /\ Members > 1 THEN 1 ELSE IndexAfterEnd
  /\ finding' = (searching /\ members' > 1)
  /\ reconnectionTimer' = IF searching /\ members' > 1 THEN "coordinator"
                          ELSE IF expectDisruption THEN "repeat" ELSE "single"
  /\ closed' = IF closed = "user" THEN "user" ELSE "lost"
  /\ UNCHANGED asking

HandleLostStopping ==
  /\ Alive
  /\ Takes("lost")
  /\ InProgress
  /\ EndConnect(TRUE, Rest)
  /\ index' = IndexAfterEnd
  /\ reconnectionTimer' = "off"
  /\ closed' = "lost"
  /\ UNCHANGED <<asking, finding>>

HandleLostAlways ==
  /\ Alive
  /\ Takes("lost")
  /\ \E s, e \in BOOLEAN : LostAfter(Rest, s, e)

HandleLost ==
  /\ Alive
  /\ Takes("lost")
  /\ IF InProgress
     THEN \E s, e \in BOOLEAN : LostAfter(Rest, s, e)
     ELSE /\ mainq' = Rest
          /\ UNCHANGED <<attemptVars, asking, pollerVars, dataVars, searchVars, closed, crashed>>

---------------------------------------------------------------------------------
\* The reconnection timer, after 15 s at least: whatever was posted is handled, but the
\* thread of an attempt that was ended may still be logging in, for minutes; then
\* BeginConnect returns, and a timer that does not go off again has done so in vain.
TimerTurn == mainq = <<>>

BeginOnTimer ==
  \/ BeginConnect("timer")
  \/ /\ ~InProgress /\ thread # "none"
     /\ closed' = IF reconnectionTimer' = "off" THEN "missed" ELSE closed
     /\ UNCHANGED <<attemptVars, dataVars, crashed>>

ReconnectSingleHost ==
  /\ Alive
  /\ reconnectionTimer \in {"single", "repeat"}
  /\ TimerTurn
  /\ IF InProgress
     THEN /\ reconnectionTimer' = IF reconnectionTimer = "single" THEN "off" ELSE "repeat"
          /\ UNCHANGED <<attemptVars, dataVars, closed, crashed>>
     ELSE /\ reconnectionTimer' \in {"off", reconnectionTimer} \ {"single"}
          /\ BeginOnTimer
  /\ UNCHANGED <<asking, pollerVars, mainq, finding, members, index>>

\* reconnectCoordinatorTimer: after six minutes the old coordinator, before that the
\* next member, or the list from the start.
ReconnectCoordinator ==
  /\ Alive
  /\ reconnectionTimer = "coordinator"
  /\ TimerTurn
  /\ \/ /\ InProgress
        /\ reconnectionTimer' = "off"
        /\ UNCHANGED <<attemptVars, dataVars, finding, index, closed, crashed>>
     \/ /\ reconnectionTimer' = "off"
        /\ finding' = FALSE
        /\ BeginOnTimer
        /\ UNCHANGED index
     \/ /\ index < members
        /\ index' = index + 1
        /\ reconnectionTimer' = "off"
        /\ BeginOnTimer
        /\ UNCHANGED finding
     \/ /\ ~InProgress
        /\ index >= members
        /\ index' = 0
        /\ reconnectionTimer' = IF members > 0 THEN "coordinator" ELSE "off"
        /\ finding' = (finding /\ members > 0)
        /\ UNCHANGED <<attemptVars, dataVars, closed, crashed>>
  /\ UNCHANGED <<asking, pollerVars, mainq, members>>

MainThread ==
  \/ HandleSuccess \/ HandleFailure \/ HandleEvent \/ HandleClear \/ HandleLost
  \/ OnCacheUpdateTimer

Next ==
  \/ \E who \in {"user", "dialog"}, s \in BOOLEAN : ConnectByUser(who, s)
  \/ Disconnect \/ Interrupt \/ Answer \/ Redirect
  \/ ConnectThread
  \/ \E p \in Gens : PollerThread(p)
  \/ MainThread
  \/ ReconnectSingleHost \/ ReconnectCoordinator

\* Threads run, calls to the server end by its answer or by a timeout, and timers
\* fire.  The user owes nothing, not even an answer to the question on the screen.
Fairness ==
  /\ WF_vars(ConnectThread)
  /\ \A p \in Gens : WF_vars(PollerThread(p))
  /\ WF_vars(MainThread)
  /\ WF_vars(ReconnectSingleHost \/ ReconnectCoordinator)

SafeSpec == Init /\ [][Next]_vars
Spec == SafeSpec /\ Fairness

---------------------------------------------------------------------------------
TypeOK ==
  /\ task \in {NoTask} \cup [cancelled : BOOLEAN, connected : BOOLEAN, set : {TRUE}]
  /\ thread \in {"none", "start", "login", "adopt", "load", "launch", "result"}
  /\ attempts \in 0..MaxAttempts
  /\ by \in {"user", "dialog", "timer"}
  /\ asking \in BOOLEAN
  /\ poller \in {0} \cup Gens
  /\ pollers \in [Gens -> Poller]
  /\ emitted \in 0..MaxEvents
  /\ mainq \in Seq([kind : {"ok", "fail", "event", "clear", "lost"}, of : {0} \cup Gens])
  /\ eventQueue \subseteq Gens
  /\ cache \subseteq Gens
  /\ {updateTimer, populated, finding} \subseteq BOOLEAN
  /\ loaded \in {0} \cup Gens
  /\ members \in {0, Members}
  /\ index \in 0..Members
  /\ reconnectionTimer \in {"off", "single", "repeat", "coordinator"}
  /\ closed \in {"no", "user", "lost", "missed"}
  /\ crashed \in {"no", "task", "poller"}

\* A connection that was ended by the user or its dialog is not taken up again by a
\* timer, whatever signals were still on their way (EndConnect and
\* handleConnectionLostNewFlow).
EndedStaysEnded == closed = "user" => ~InProgress /\ reconnectionTimer = "off"

\* What an attempt has loaded is in the cache as long as it is connected: no Clear
\* of an earlier end comes after it (connectWorkerThread against EndConnect).
LoadedStays ==
  IsConnected /\ thread = "none" /\ loaded = attempts => attempts \in cache

\* The poller of a connected connection polls with the session of that connection,
\* also when it was left over from an attempt the user had given up.
PollerHasSession ==
  IsConnected /\ thread = "none" /\ poller # 0 =>
    \/ pollers[poller].session = attempts
    \/ pollers[poller].jobs # <<>>

\* A poller that the connection has let go of comes to an end, wherever it was.
PollersEnd ==
  \A p \in Gens :
    (pollers[p].at # "none" /\ poller # p) ~> (pollers[p].at = "gone" \/ crashed # "no")

\* A loss is followed by an attempt, whatever is still on its way or running, unless the
\* connection is ended, or the timer goes off while an attempt that was ended is still
\* logging in and is not armed again (BeginConnect returns, connection.cpp:383).
LostIsRetried ==
  closed = "lost" ~> (closed # "lost" \/ attempts = MaxAttempts \/ crashed # "no")

\* A search for the coordinator that the timer has begun goes on after a member that
\* could not be connected to.
SearchGoesOn ==
  finding /\ by = "timer" /\ closed # "user" /\ crashed = "no"
    => IsConnected \/ thread # "none" \/ mainq # <<>> \/ asking \/ reconnectionTimer # "off"
=================================================================================
