--------------------------------- MODULE CacheFeed ---------------------------------
(***************************************************************************)
(* How XenCache (xencache.cpp) is filled and fed: the connect thread asks   *)
(* event.from for everything, an EventPoller (xen/eventpoller.cpp) asks for *)
(* what has changed since its token, and XenConnection                      *)
(* (xen/network/connection.cpp) queues what pollers emit and applies it     *)
(* 50 ms later.  Pollers of an ended session may still be in a call.  The    *)
(* server's objects are the log of Mirror; an event is the number of the    *)
(* change it tells of, and comes with the record of the object or without.  *)
(* Abstracted: roles and messages, cacheIsPopulated, the redirect to        *)
(* another host, nested event loops, and what XenConnection shows to be     *)
(* fatal.                                                                   *)
(***************************************************************************)
EXTENDS Naturals, Sequences, FiniteSets, SequencesExt

CONSTANTS Ref,         \* objects of the server
          Consoles,    \* those that are consoles
          Bare,        \* those whose events come without a snapshot of the record
          MaxChanges,  \* bound: changes on the server
          MaxAttempts, \* bound: connection attempts; the user does not end the last one
          MAX_CONSECUTIVE_ERRORS

ASSUME FeedAssumption ==
  /\ Consoles \subseteq Ref /\ Bare \subseteq Ref /\ IsFiniteSet(Ref)
  /\ MaxChanges \in Nat /\ MaxAttempts \in Nat \ {0}
  /\ MAX_CONSECUTIVE_ERRORS \in Nat \ {0}

VARIABLES
  log,        \* changes of the server's objects
  task,       \* connectTask: its attempt, or 0
  connected,  \* connectTask->Connected
  attempts,   \* attempts begun
  thread,     \* the connect thread: what it does next, or "none"
  token,      \* the token its event.from has returned, 0 for none
  poller,     \* eventPoller: the attempt that has created it, or 0
  pollers,    \* the EventPoller objects, by the attempt that has created them
  mainq,      \* posted to the main thread: batches of events, Clear, connectionLost
  eventQueue, \* eventQueue, one batch for each answer
  updateTimer, \* cacheUpdateTimer is active
  updating,   \* the events that onCacheUpdateTimer has taken and not yet applied
  cache,      \* m_cache: the state of every object, 0 for none
  uncovered,  \* history: objects written by what this session's token does not cover
  unread,     \* history: objects whose record was asked for and not received
  applied     \* history: the token up to which this session's events are applied

serverVars == log
attemptVars == <<task, connected, attempts, thread, token>>
pollerVars == <<poller, pollers>>
queueVars == <<mainq, eventQueue, updateTimer, updating>>
cacheVars == <<cache, uncovered, unread, applied>>
vars == <<log, attemptVars, pollerVars, queueVars, cacheVars>>

Gens == 1..MaxAttempts
Empty == [r \in Ref |-> 0]
NoAnswer == [token |-> 0, events |-> {}]

\* The cache as a mirror: while a session is connected it vouches for the objects this
\* session's loading and events have written.
Connected == connected /\ thread = "none" /\ poller # 0
Vouched == IF Connected THEN Ref \ (uncovered \cup unread) ELSE {}
M == INSTANCE Mirror WITH view <- [r \in Vouched |-> cache[r]],
                          upto <- IF Connected THEN applied ELSE 0

Now == Len(log)
Current(r) == M!StateAt(log, r, Now)

Batch == [of : Gens, token : 0..MaxChanges, events : SUBSET (1..MaxChanges)]
IsBare(i) == log[i].ref \in Bare /\ log[i].op # "del"
Posted == [kind : {"events"}, batch : Batch] \cup [kind : {"clear", "lost"}]

Poller == [at : {"none", "idle", "from", "answered", "gone"},
           jobs : Seq([of : Gens, token : 0..MaxChanges]), \* posted Reset, Initialize, Start
           of : {0} \cup Gens,     \* whose session it has duplicated
           token : 0..MaxChanges,
           reply : [token : 0..MaxChanges, events : SUBSET (1..MaxChanges)],
           errors : 0..MAX_CONSECUTIVE_ERRORS,
           quit : BOOLEAN]         \* Stop, Reset and quit() are posted

NoPoller(at) == [at |-> at, jobs |-> <<>>, of |-> 0, token |-> 0, reply |-> NoAnswer,
                 errors |-> 0, quit |-> FALSE]

Init ==
  /\ \E existing \in {refs \in SUBSET Ref \ {{}} : Cardinality(refs) <= MaxChanges} :
       log = [i \in 1..Cardinality(existing) |-> [ref |-> SetToSeq(existing)[i], op |-> "add"]]
  /\ task = 0 /\ connected = FALSE /\ attempts = 0 /\ thread = "none" /\ token = 0
  /\ poller = 0
  /\ pollers = [g \in Gens |-> NoPoller("none")]
  /\ mainq = <<>> /\ eventQueue = <<>> /\ updateTimer = FALSE /\ updating = <<>>
  /\ cache = Empty /\ uncovered = {} /\ unread = {} /\ applied = 0

---------------------------------------------------------------------------------
\* The server: an object is created, changed or deleted; what event.from answers.
ServerChanges ==
  /\ Now < MaxChanges
  /\ \E change \in M!Change : M!Possible(change) /\ log' = Append(log, change)
  /\ UNCHANGED <<attemptVars, pollerVars, queueVars, cacheVars>>

Since(t) ==
  IF t = 0 THEN {Current(r) : r \in Ref} \ {0}
  ELSE {i \in t+1..Now : i = M!Last(log, log[i].ref, Now)}

---------------------------------------------------------------------------------
\* BeginConnect, when the main thread has dispatched what was posted before.
Idle == updating = <<>>

BeginConnect ==
  /\ Idle
  /\ mainq = <<>>
  /\ task = 0
  /\ thread = "none"
  /\ attempts < MaxAttempts
  /\ attempts' = attempts + 1
  /\ task' = attempts + 1
  /\ thread' = "login"
  /\ UNCHANGED <<log, connected, token, pollerVars, queueVars, cacheVars>>

\* EndConnect(true, false) in the main thread; q is what its queue holds otherwise.
EndConnect(q) ==
  /\ task' = 0
  /\ connected' = FALSE
  /\ poller' = 0
  /\ pollers' = [g \in Gens |-> IF g = poller THEN [pollers[g] EXCEPT !.quit = TRUE] ELSE pollers[g]]
  /\ eventQueue' = <<>>
  /\ updateTimer' = FALSE
  /\ mainq' = Append(q, [kind |-> "clear"])
  /\ uncovered' = {} /\ unread' = {} /\ applied' = 0
  /\ UNCHANGED <<log, attempts, thread, token, updating, cache>>

Disconnect ==
  /\ attempts < MaxAttempts
  /\ Idle
  /\ mainq = <<>>
  /\ task # 0
  /\ EndConnect(mainq)

---------------------------------------------------------------------------------
\* connectWorkerThread: log in, or fail; then the session is adopted and the cache
\* cleared in this thread.
Adopt ==
  /\ thread = "login"
  /\ \/ /\ task = attempts
        /\ connected' = TRUE
        /\ thread' = "load"
        /\ cache' = Empty
        /\ uncovered' = {}
        /\ unread' = {}
     \/ /\ thread' = "none"
        /\ UNCHANGED <<connected, cache, uncovered, unread>>
  /\ UNCHANGED <<log, task, attempts, token, pollerVars, queueVars, applied>>

\* event.from with an empty token tells of every object, or nothing comes back.
Load ==
  /\ thread = "load"
  /\ LET there == {r \in Ref : Current(r) # 0} IN
     \/ /\ token' = Now
        /\ cache' = [r \in Ref |-> IF r \in there THEN Current(r) ELSE cache[r]]
        /\ uncovered' = uncovered \ there
        /\ unread' = unread \ there
     \/ /\ token' = 0
        /\ UNCHANGED <<cache, uncovered, unread>>
  /\ thread' = "consoles"
  /\ UNCHANGED <<log, task, connected, attempts, pollerVars, queueVars, applied>>

\* console.get_all_records, which may fail as well.  Without the answer of event.from
\* nothing tells of a console that is gone before the poller starts.
LoadConsoles ==
  LET there == {r \in Consoles : Current(r) # 0} IN
  \/ /\ cache' = [r \in Ref |-> IF r \in there THEN Current(r) ELSE cache[r]]
     /\ uncovered' = IF token = 0 THEN uncovered \cup there ELSE uncovered \ there
     /\ unread' = unread \ there
  \/ UNCHANGED <<cache, uncovered, unread>>

\* The poller is created unless there is one, and told to start from a token.
Start(from) ==
  LET p == IF poller = 0 THEN attempts ELSE poller IN
  /\ poller' = p
  /\ pollers' = [pollers EXCEPT ![p].jobs = Append(@, [of |-> attempts, token |-> from]),
                                ![p].at = IF poller = 0 THEN "idle" ELSE @]
  /\ applied' = IF connected THEN token ELSE 0
  /\ token' = 0

LoadAndStart(from) ==
  /\ thread = "consoles"
  /\ LoadConsoles
  /\ Start(from)
  /\ thread' = "none"
  /\ UNCHANGED <<log, task, connected, attempts, queueVars>>

\* A mistaken variant starts the poller from where the server is by then.
LaunchLate == LoadAndStart(Now)

Launch == LoadAndStart(token)

ConnectThread == Adopt \/ Load \/ Launch

---------------------------------------------------------------------------------
\* The thread of poller p, between two calls of event.from.
\* Reset, Initialize and Start; a session that cannot be duplicated leaves it idle.
TakeJob(p) ==
  /\ poller = p
  /\ pollers[p].at \in {"idle", "from"}
  /\ pollers[p].jobs # <<>>
  /\ \E at \in {"from", "idle"} :
       LET job == Head(pollers[p].jobs) IN
       pollers' = [pollers EXCEPT ![p].at = at, ![p].jobs = Tail(@), ![p].of = job.of,
                                  ![p].token = job.token, ![p].errors = 0]
  /\ UNCHANGED <<log, attemptVars, poller, queueVars, cacheVars>>

\* pollEvents: the server answers when there is something to tell,
ServerAnswers(p) ==
  /\ pollers[p].at = "from"
  /\ Since(pollers[p].token) # {}
  /\ pollers' = [pollers EXCEPT ![p].at = "answered",
                                ![p].reply = [token |-> Now, events |-> Since(pollers[p].token)]]
  /\ UNCHANGED <<log, attemptVars, poller, queueVars, cacheVars>>

\* or after 30 s with no event, which counts as a success,
ServerIsSilent(p) ==
  /\ pollers[p].at = "from"
  /\ Since(pollers[p].token) = {}
  /\ pollers' = [pollers EXCEPT ![p].errors = 0]
  /\ UNCHANGED <<log, attemptVars, poller, queueVars, cacheVars>>

\* and the events are emitted.
Emit(p) ==
  /\ pollers[p].at = "answered"
  /\ mainq' = Append(mainq, [kind |-> "events",
                             batch |-> [of |-> pollers[p].of, token |-> pollers[p].reply.token,
                                        events |-> pollers[p].reply.events]])
  /\ pollers' = [pollers EXCEPT ![p] =
                   IF @.quit THEN NoPoller("gone")
                   ELSE [NoPoller("from") EXCEPT !.jobs = pollers[p].jobs, !.of = pollers[p].of,
                                                 !.token = pollers[p].reply.token]]
  /\ UNCHANGED <<log, attemptVars, poller, eventQueue, updateTimer, updating, cacheVars>>

\* The call fails, whether or not there is something to tell, or its answer is lost: it
\* is tried again from a token, until there are too many errors.
Retry(p, limit, from) ==
  /\ pollers[p].at \in {"from", "answered"}
  /\ LET n == pollers[p].errors + 1 IN
     IF n < limit
     THEN /\ pollers' = [pollers EXCEPT ![p].at = "from", ![p].token = from,
                                        ![p].reply = NoAnswer, ![p].errors = n]
          /\ UNCHANGED mainq
     ELSE /\ pollers' = [pollers EXCEPT ![p].at = "idle", ![p].reply = NoAnswer, ![p].errors = n]
          /\ mainq' = Append(mainq, [kind |-> "lost"])
  /\ UNCHANGED <<log, attemptVars, poller, eventQueue, updateTimer, updating, cacheVars>>

\* Mistaken variants: one error too many, and to go on from the token of the lost answer.
AnswerLostOnceMore(p) == Retry(p, MAX_CONSECUTIVE_ERRORS + 1, pollers[p].token)
AnswerSkipped(p) == Retry(p, MAX_CONSECUTIVE_ERRORS, pollers[p].reply.token)

AnswerLost(p) == Retry(p, MAX_CONSECUTIVE_ERRORS, pollers[p].token)

\* Stop: the call that was under way has returned with nothing.
Quit(p) ==
  /\ pollers[p].quit
  /\ pollers[p].at \in {"idle", "from"}
  /\ pollers' = [pollers EXCEPT ![p] = NoPoller("gone")]
  /\ UNCHANGED <<log, attemptVars, poller, queueVars, cacheVars>>

PollerThread(p) ==
  TakeJob(p) \/ ServerAnswers(p) \/ ServerIsSilent(p) \/ Emit(p) \/ AnswerLost(p) \/ Quit(p)

---------------------------------------------------------------------------------
\* The main thread takes what was posted first.
Takes(kind) == Idle /\ mainq # <<>> /\ Head(mainq).kind = kind

\* onEventPollerEventReceived, for the events of one answer.
Enqueue(starts) ==
  /\ Takes("events")
  /\ eventQueue' = Append(eventQueue, Head(mainq).batch)
  /\ updateTimer' = (updateTimer \/ starts)
  /\ mainq' = Tail(mainq)
  /\ UNCHANGED <<log, attemptVars, pollerVars, updating, cacheVars>>

\* A mistaken variant leaves the timer to the event before, if there is one.
HandleEventsUntimed == Enqueue(eventQueue # <<>>)

HandleEvents == Enqueue(TRUE)

HandleClear ==
  /\ Takes("clear")
  /\ cache' = Empty
  /\ mainq' = Tail(mainq)
  /\ UNCHANGED <<log, attemptVars, pollerVars, eventQueue, updateTimer, updating, uncovered, unread, applied>>

\* handleConnectionLostNewFlow, without what it does to find the host again.
HandleLost ==
  /\ Takes("lost")
  /\ IF task # 0
     THEN EndConnect(Tail(mainq))
     ELSE /\ mainq' = Tail(mainq)
          /\ UNCHANGED <<log, attemptVars, pollerVars, eventQueue, updateTimer, updating, cacheVars>>

\* onCacheUpdateTimer takes the queue, and then one event after the other.
OnCacheUpdateTimer ==
  /\ Idle
  /\ updateTimer
  /\ updating' = eventQueue
  /\ eventQueue' = <<>>
  /\ updateTimer' = FALSE
  /\ UNCHANGED <<log, attemptVars, pollerVars, mainq, cacheVars>>

\* A batch is done when its last event is, and with it what its token stands for.
Done(i) ==
  LET batch == Head(updating)
      last  == batch.events = {i}
  IN  /\ updating' = IF last THEN Tail(updating)
                     ELSE [updating EXCEPT ![1].events = @ \ {i}]
      /\ applied' = IF last /\ Connected /\ batch.of = task THEN batch.token ELSE applied

\* The event at the head writes object r.
Uncovered(r) ==
  IF connected /\ Head(updating).of # task THEN uncovered \cup {r} ELSE uncovered \ {r}

\* Update or Remove with what the event says.
Apply(i) ==
  /\ ~IsBare(i)
  /\ LET r == log[i].ref IN
     /\ cache' = [cache EXCEPT ![r] = IF log[i].op = "del" THEN 0 ELSE i]
     /\ uncovered' = Uncovered(r)
     /\ unread' = unread \ {r}

\* fetchObjectRecord, then Update; nothing when the object is gone or the call fails.  A
\* mistaken variant takes an answer that is not there for an empty record.
FetchRemoving(i) ==
  /\ IsBare(i)
  /\ LET r == log[i].ref IN
     \E record \in {0, Current(r)} :
       /\ cache' = [cache EXCEPT ![r] = record]
       /\ uncovered' = Uncovered(r)
       /\ unread' = unread \ {r}

Fetch(i) ==
  /\ IsBare(i)
  /\ LET r == log[i].ref IN
     \E record \in {0, Current(r)} :
       /\ cache' = IF record = 0 THEN cache ELSE [cache EXCEPT ![r] = record]
       /\ uncovered' = IF record = 0 THEN uncovered ELSE Uncovered(r)
       /\ unread' = IF record = 0 /\ connected THEN unread \cup {r} ELSE unread \ {r}

UpdateCache ==
  /\ updating # <<>>
  /\ \E i \in Head(updating).events : (Apply(i) \/ Fetch(i)) /\ Done(i)
  /\ UNCHANGED <<log, attemptVars, pollerVars, mainq, eventQueue, updateTimer>>

MainThread == HandleEvents \/ HandleClear \/ HandleLost \/ OnCacheUpdateTimer \/ UpdateCache

Next ==
  \/ ServerChanges
  \/ BeginConnect \/ Disconnect
  \/ ConnectThread
  \/ \E p \in Gens : PollerThread(p)
  \/ MainThread

\* Threads run and timers fire; calls end by an answer or by an error.  Neither the user
\* nor the server's objects owe anything.
Fairness ==
  /\ WF_vars(ConnectThread)
  /\ \A p \in Gens : WF_vars(PollerThread(p))
  /\ WF_vars(MainThread)

SafeSpec == Init /\ [][Next]_vars
Spec == SafeSpec /\ Fairness

---------------------------------------------------------------------------------
TypeOK ==
  /\ log \in Seq(M!Change) /\ Now <= MaxChanges
  /\ {task, poller, attempts} \subseteq {0} \cup Gens
  /\ thread \in {"none", "login", "load", "consoles"}
  /\ token \in 0..MaxChanges
  /\ pollers \in [Gens -> Poller]
  /\ mainq \in Seq(Posted)
  /\ {eventQueue, updating} \subseteq Seq(Batch)
  /\ {updateTimer, connected} \subseteq BOOLEAN
  /\ cache \in [Ref -> 0..MaxChanges]
  /\ uncovered \subseteq Ref /\ unread \subseteq Ref
  /\ applied \in 0..MaxChanges

\* Every object the cache vouches for is as it was on the server at or after the token
\* up to which the events are applied, and that token never moves back: what the cache
\* promises (onCacheUpdateTimer, the token handed from connectWorkerThread to Start).
MirrorsServer == M!Spec

\* No change is lost on the way: what the cache does not show of the server is told by
\* an event that waits in some queue, or will be by the next answer to the poller.
Coming(q, r) == \E k \in DOMAIN q : q[k].of = task /\ \E i \in q[k].events : log[i].ref = r
BatchesOf(q) == [k \in DOMAIN q |-> IF q[k].kind = "events" THEN q[k].batch
                                    ELSE [of |-> 0, token |-> 0, events |-> {}]]
InMainq == BatchesOf(mainq)

Token == LET p == pollers[poller] IN IF p.jobs # <<>> THEN p.jobs[Len(p.jobs)].token ELSE p.token

NothingIsMissed ==
  \A r \in Vouched :
    cache[r] # Current(r) =>
      \/ Coming(updating, r) \/ Coming(eventQueue, r) \/ Coming(InMainq, r)
      \/ M!Last(log, r, Now) > Token

\* While a session's poller polls, the cache comes to show the server's objects, but
\* for those that an earlier session's event has written to or a fetch has missed.
Feeding ==
  /\ Connected
  /\ pollers[poller].at \in {"from", "answered"}
  /\ pollers[poller].of = task /\ pollers[poller].jobs = <<>>

Shows(refs) == \A r \in refs : cache[r] = Current(r)

Converges ==
  Feeding ~> (~Feeding \/ Shows({r \in Ref \ uncovered : r \in unread => Current(r) = 0}))

=====================================================================================
