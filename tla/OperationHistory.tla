-------------------------------- MODULE OperationHistory --------------------------------
(***************************************************************************)
(* The history of operations: OperationManager                             *)
(* (operations/operationmanager.cpp) keeps a record of every               *)
(* AsyncOperation, and MeddlingActionManager                               *)
(* (xen/actions/meddlingactionmanager.cpp) makes operations,               *)
(* MeddlingActions, of the tasks on the server that others have started.   *)
(* Operations run in threads of their own and post their signals to the    *)
(* main thread; task events come from the poller of the session. m_lookup  *)
(* is keyed by the address of an operation, which an allocator gives       *)
(* again once the operation is deleted. A state and its signal are one     *)
(* step: what comes between them comes out as if it came after.            *)
(* Abstracted: titles, progress and texts, how a task ends, subtasks.      *)
(***************************************************************************)
EXTENDS Naturals, Sequences, FiniteSets

CONSTANTS Task,        \* tasks on the server
          Own,         \* those that an operation of this program starts
          Recognized,  \* those of a recognized VM operation
          Address,     \* where operations are allocated
          MaxSessions, \* bound: sessions
          MaxToggles,  \* bound: how often the user toggles "show all server events"
          MaxBegun,    \* bound: tasks and toggles together
          MaxQueue     \* bound: what is posted to the main thread

ASSUME HistoryAssumption ==
  /\ Own \subseteq Task /\ Recognized \subseteq Task /\ IsFiniteSet(Task)
  /\ {MaxSessions, MaxToggles, MaxBegun, MaxQueue} \subseteq Nat

VARIABLES
  server,    \* what each task is on the server
  tag,       \* XenAdminQtUUID in the task's other_config: 0, or the operation's UUID
  old,       \* tasks that have applies_to, or are older than AWARE_CLIENT_HEURISTIC_MS
  connected, sessions,
  showAll, toggles,
  ops,       \* the operations, in the order of their construction
  records,   \* the OperationRecords, in the order of theirs; "deleted" ones are freed
  lookup,    \* m_lookup: the record at an address, 0 for none
  mainq,     \* posted to the main thread
  todo,      \* the task records that rehydrateTasks has still to categorize
  cancelling, \* the operation in whose Cancel() the main thread is, 0 for none
  overtaken, \* history: operations cancelled while a signal of theirs was posted
  matched,   \* m_matchedTasks: the operation of a task, 0 for none
  unmatched, \* m_unmatchedTasks
  again      \* history: tasks that a rehydration has found to be known already

serverVars == <<server, tag, old>>
userVars == <<connected, sessions, showAll, toggles>>
historyVars == <<ops, records, lookup>>
cancelVars == <<cancelling, overtaken>>
taskVars == <<matched, unmatched, again>>
vars == <<serverVars, userVars, historyVars, mainq, todo, cancelVars, taskVars>>

\* An operation's UUID is its number; the UUID of the program is one of its own.
ApplicationUuid == Cardinality(Task) * (MaxSessions + MaxToggles) + 100

Ended == {"Completed", "Cancelled", "Failed"}

Init ==
  /\ server = [t \in Task |-> "none"] /\ tag = [t \in Task |-> 0] /\ old = {}
  /\ connected = FALSE /\ sessions = 0 /\ showAll \in BOOLEAN /\ toggles = 0
  /\ ops = <<>> /\ records = <<>> /\ lookup = [a \in Address |-> 0]
  /\ mainq = <<>> /\ todo = {} /\ cancelling = 0 /\ overtaken = {}
  /\ matched = [t \in Task |-> 0] /\ unmatched = {} /\ again = {}

---------------------------------------------------------------------------------
\* What a task's event or record tells, and where it is told.
Snapshot(t) == [task |-> t, ended |-> server[t] = "ended", tag |-> tag[t]]
Event(sort, t, snapshot) == [kind |-> "task", sort |-> sort, task |-> t, data |-> snapshot]

Tell(sort, t, snapshot) ==
  /\ Len(mainq) < MaxQueue
  /\ IF connected
     THEN mainq' = Append(mainq, Event(sort, t, snapshot))
     ELSE UNCHANGED mainq

\* After the last session nothing that happens on the server is looked at.
Watched == connected \/ sessions < MaxSessions

Begun ==
  toggles + Cardinality({t \in Task : server[t] # "none" \/ \E o \in DOMAIN ops : ops[o].task = t})

\* Tasks of others begin, get old or their applies_to, end and are destroyed; those of
\* this program's operations get old and end.
TaskBegins(t) ==
  /\ Watched
  /\ t \notin Own
  /\ server[t] = "none" /\ Begun < MaxBegun
  /\ server' = [server EXCEPT ![t] = "pending"]
  /\ Tell("add", t, [task |-> t, ended |-> FALSE, tag |-> 0])
  /\ UNCHANGED <<tag, old, userVars, historyVars, todo, cancelVars, taskVars>>

TaskGetsOld(t) ==
  /\ Watched
  /\ server[t] \in {"pending", "ended"}
  /\ t \notin old
  /\ old' = old \cup {t}
  /\ \/ UNCHANGED mainq
     \/ Tell("mod", t, Snapshot(t))
  /\ UNCHANGED <<server, tag, userVars, historyVars, todo, cancelVars, taskVars>>

TaskEnds(t) ==
  /\ Watched
  /\ server[t] = "pending"
  /\ server' = [server EXCEPT ![t] = "ended"]
  /\ Tell("mod", t, [Snapshot(t) EXCEPT !.ended = TRUE])
  /\ UNCHANGED <<tag, old, userVars, historyVars, todo, cancelVars, taskVars>>

\* An answer to event.from tells the last change of a task only: one that ends and is
\* destroyed between two answers is told of by its deletion.
TaskGone(t) ==
  /\ Watched
  /\ t \notin Own
  /\ server[t] \in {"pending", "ended"}
  /\ server' = [server EXCEPT ![t] = "gone"]
  /\ Tell("del", t, Snapshot(t))
  /\ UNCHANGED <<tag, old, userVars, historyVars, todo, cancelVars, taskVars>>

---------------------------------------------------------------------------------
\* Where the allocator puts an operation: where a deleted one was, or somewhere new.
Used == {ops[o].at : o \in DOMAIN ops}
Alive == {ops[o].at : o \in {p \in DOMAIN ops : ops[p].step # "deleted"}}
Free(a) == a \in Used \ Alive \/ (Used # Address /\ a = CHOOSE b \in Address : b \notin Used)

\* RegisterOperation for operation o at an address, on a history h: one at an address
\* that m_lookup has is taken for registered.  A mistaken variant does not look.
RegisterTwice(h, o, a) ==
  [records |-> Append(h.records, [op |-> o, state |-> "Running"]),
   lookup |-> [h.lookup EXCEPT ![a] = Len(h.records) + 1]]

RegisterOperation(h, o, a) ==
  IF h.lookup[a] # 0 THEN h
  ELSE [records |-> Append(h.records, [op |-> o, state |-> "Running"]),
        lookup |-> [h.lookup EXCEPT ![a] = Len(h.records) + 1]]

History == [records |-> records, lookup |-> lookup]
RecordOf(o) == {r \in DOMAIN records : records[r].op = o /\ records[r].state # "deleted"}

\* setState in the thread of an operation, which comes to its next step: a new state is
\* posted to the record that is connected.
SetState(o, state, step) ==
  /\ ops' = [ops EXCEPT ![o].state = state, ![o].step = step]
  /\ Len(mainq) < MaxQueue
  /\ mainq' = IF ops[o].state = state \/ RecordOf(o) = {} THEN mainq
              ELSE Append(mainq, [kind |-> "state", record |-> CHOOSE r \in RecordOf(o) : TRUE,
                                  state |-> state])

\* The main thread takes the next event.
Idle == todo = {} /\ cancelling = 0

\* A command constructs an operation, which registers itself, and runs it; it gets its
\* UUID from the registration.
RunOperation(t) ==
  /\ Idle
  /\ t \in Own /\ connected /\ Begun < MaxBegun
  /\ \A o \in DOMAIN ops : ops[o].task # t \/ ops[o].step = "none"
  /\ \E a \in Address :
       LET o == Len(ops) + 1
           h == RegisterOperation(History, o, a)
       IN  /\ Free(a)
           /\ ops' = Append(ops, [task |-> t, step |-> "start", state |-> "Running", at |-> a,
                                  uuid |-> IF h = History THEN 0 ELSE o, from |-> 0])
           /\ records' = h.records
           /\ lookup' = h.lookup
  /\ UNCHANGED <<serverVars, userVars, mainq, todo, cancelVars, taskVars>>

Step(o, step) == ops' = [ops EXCEPT ![o].step = step]

\* Its thread: start the task and tag it (pollToCompletion),
StartTask(o) ==
  /\ ops[o].step = "start"
  /\ Step(o, "tag")
  /\ server' = [server EXCEPT ![ops[o].task] = "pending"]
  /\ Tell("add", ops[o].task, [task |-> ops[o].task, ended |-> FALSE, tag |-> 0])
  /\ UNCHANGED <<tag, old, userVars, records, lookup, todo, cancelVars, taskVars>>

TagTask(o) ==
  /\ ops[o].step = "tag"
  /\ Step(o, "poll")
  /\ IF connected /\ ops[o].uuid # 0
     THEN /\ tag' = [tag EXCEPT ![ops[o].task] = ops[o].uuid]
          /\ Tell("mod", ops[o].task, [Snapshot(ops[o].task) EXCEPT !.tag = ops[o].uuid])
     ELSE UNCHANGED <<tag, mainq>>
  /\ UNCHANGED <<server, old, userVars, records, lookup, todo, cancelVars, taskVars>>

\* find it ended, cancelled or with an error, or lose the session (pollTask), also when
\* the user has cancelled the operation meanwhile,
PollTask(o) ==
  /\ ops[o].step = "poll"
  /\ server[ops[o].task] = "ended" \/ ~connected
  /\ \E state \in {ops[o].state, "Cancelled", "Failed"} : SetState(o, state, "untag")
  /\ UNCHANGED <<serverVars, userVars, records, lookup, todo, cancelVars, taskVars>>

\* take the tag off and destroy it (destroyTask),
UntagTask(o) ==
  /\ ops[o].step = "untag"
  /\ Step(o, "destroy")
  /\ IF connected
     THEN /\ tag' = [tag EXCEPT ![ops[o].task] = 0]
          /\ Tell("mod", ops[o].task, [Snapshot(ops[o].task) EXCEPT !.tag = 0])
     ELSE UNCHANGED <<tag, mainq>>
  /\ UNCHANGED <<server, old, userVars, records, lookup, todo, cancelVars, taskVars>>

DestroyTask(o) ==
  /\ ops[o].step = "destroy"
  /\ Step(o, "finish")
  /\ IF connected
     THEN /\ server' = [server EXCEPT ![ops[o].task] = "gone"]
          /\ Tell("del", ops[o].task, Snapshot(ops[o].task))
     ELSE UNCHANGED <<server, mainq>>
  /\ UNCHANGED <<tag, old, userVars, records, lookup, todo, cancelVars, taskVars>>

\* and come to the end of run(): one that is still Running is Completed; some run()s set
\* Completed themselves, also a cancelled operation's; an exception makes any Failed.
Finish(o) ==
  /\ ops[o].step = "finish"
  /\ \E state \in (Ended \cap {ops[o].state}) \cup {"Completed", "Failed"} :
       SetState(o, state, "done")
  /\ UNCHANGED <<serverVars, userVars, records, lookup, todo, cancelVars, taskVars>>

\* deleteLater, in the main thread.  A QObject that says destroyed() is no AsyncOperation
\* any more: what it is asked for in m_lookup is not found.
Delete(o) ==
  /\ Idle
  /\ ops[o].step = "done"
  /\ Step(o, "deleted")
  /\ UNCHANGED <<serverVars, userVars, records, lookup, mainq, todo, cancelVars, taskVars>>

Worker(o) ==
  \/ StartTask(o) \/ TagTask(o) \/ PollTask(o) \/ UntagTask(o) \/ DestroyTask(o)
  \/ Finish(o) \/ Delete(o)

\* Cancel() by the user, in the main thread: the state is tested, and after a call to the
\* server set, whatever it is by then; the record takes it at once, before what is posted.
CancelOperation(o) ==
  /\ Idle
  /\ ops[o].step \notin {"none", "deleted"} /\ ops[o].state = "Running"
  /\ cancelling' = o
  /\ UNCHANGED <<serverVars, userVars, historyVars, mainq, todo, overtaken, taskVars>>

SignalsOf(r) == {k \in DOMAIN mainq : mainq[k].kind = "state" /\ mainq[k].record = r}

CancelSets ==
  LET o == cancelling
      told == IF ops[o].state = "Cancelled" THEN {} ELSE RecordOf(o)
  IN
  /\ o # 0
  /\ cancelling' = 0
  /\ ops' = [ops EXCEPT ![o].state = "Cancelled"]
  /\ records' = [r \in DOMAIN records |->
                  IF r \in told THEN [records[r] EXCEPT !.state = "Cancelled"] ELSE records[r]]
  /\ overtaken' = IF \E r \in told : SignalsOf(r) # {} THEN overtaken \cup {o} ELSE overtaken
  /\ UNCHANGED <<serverVars, userVars, lookup, mainq, todo, taskVars>>

---------------------------------------------------------------------------------
\* isTaskUnwanted and isTaskSuitable.
Unwanted(data) == data.tag = ApplicationUuid \/ (~showAll /\ data.task \notin Recognized)
Suitable(data) == data.task \in old

\* Only active tasks are tracked.  A mistaken variant tracks all.
TrackAll(data, o) == [matched EXCEPT ![data.task] = o]

Track(data, o) == IF data.ended THEN matched ELSE [matched EXCEPT ![data.task] = o]

\* categorizeTask, when u are the other tasks that wait to be suitable.
Categorize(data, u) ==
  LET t == data.task IN
  \/ /\ Unwanted(data)
     /\ unmatched' = u
     /\ UNCHANGED <<historyVars, matched>>
  \/ /\ ~Unwanted(data) /\ ~Suitable(data)
     /\ unmatched' = u \cup {t}
     /\ UNCHANGED <<historyVars, matched>>
  \/ /\ ~Unwanted(data) /\ Suitable(data)
     /\ unmatched' = u
     /\ \E a \in Address :
          LET o == Len(ops) + 1
              h == RegisterOperation(RegisterOperation(History, o, a), o, a)
              state == IF data.ended THEN "Completed" ELSE "Running"
          IN  /\ Free(a)
              /\ ops' = Append(ops, [task |-> t, step |-> "none", state |-> state, at |-> a,
                                     uuid |-> IF h = History THEN 0 ELSE o, from |-> data.tag])
              /\ records' = [r \in DOMAIN h.records |->
                              IF h.records[r].op = o THEN [op |-> o, state |-> state] ELSE h.records[r]]
              /\ lookup' = h.lookup
     /\ matched' = Track(data, Len(ops) + 1)

\* updateFromTask that ends an operation; its signals are handled at once.
Complete(o) ==
  /\ ops' = [ops EXCEPT ![o].state = "Completed"]
  /\ records' = [r \in DOMAIN records |->
                  IF r \in RecordOf(o) THEN [records[r] EXCEPT !.state = "Completed"] ELSE records[r]]
  /\ UNCHANGED lookup

Tracked(t) == matched[t] # 0 \/ t \in unmatched
Takes(kind) == Idle /\ mainq # <<>> /\ Head(mainq).kind = kind

HandleTaskAdded ==
  LET event == Head(mainq) IN
  /\ Takes("task") /\ event.sort = "add"
  /\ IF Tracked(event.task)
     THEN UNCHANGED <<historyVars, matched, unmatched>>
     ELSE Categorize(event.data, unmatched)
  /\ mainq' = Tail(mainq)
  /\ UNCHANGED <<serverVars, userVars, todo, cancelVars, again>>

\* A task that waits is looked at again; a tracked one is updated, and not tracked any
\* more when it has ended.  A mistaken variant keeps it waiting.
Updated(event, waits) ==
  LET t == event.task IN
  IF t \in unmatched
  THEN IF Unwanted(event.data) \/ Suitable(event.data)
       THEN Categorize(event.data, IF waits THEN unmatched ELSE unmatched \ {t})
       ELSE UNCHANGED <<historyVars, matched, unmatched>>
  ELSE IF matched[t] # 0 /\ event.data.ended
       THEN /\ matched' = [matched EXCEPT ![t] = 0]
            /\ UNCHANGED unmatched
            /\ Complete(matched[t])
       ELSE UNCHANGED <<historyVars, matched, unmatched>>

TaskUpdate(waits) ==
  /\ Takes("task") /\ Head(mainq).sort = "mod"
  /\ Updated(Head(mainq), waits)
  /\ mainq' = Tail(mainq)
  /\ UNCHANGED <<serverVars, userVars, todo, cancelVars, again>>

HandleTaskUpdatedWaiting == TaskUpdate(TRUE)

HandleTaskUpdated == TaskUpdate(FALSE)

\* The server has destroyed the task.  A mistaken variant leaves its operation running.
HandleTaskRemovedOnly ==
  LET t == Head(mainq).task IN
  /\ Takes("task") /\ Head(mainq).sort = "del"
  /\ unmatched' = unmatched \ {t}
  /\ UNCHANGED <<matched, historyVars>>
  /\ mainq' = Tail(mainq)
  /\ UNCHANGED <<serverVars, userVars, todo, cancelVars, again>>

HandleTaskRemoved ==
  LET t == Head(mainq).task IN
  /\ Takes("task") /\ Head(mainq).sort = "del"
  /\ unmatched' = unmatched \ {t}
  /\ matched' = [matched EXCEPT ![t] = 0]
  /\ IF matched[t] # 0 THEN Complete(matched[t]) ELSE UNCHANGED historyVars
  /\ mainq' = Tail(mainq)
  /\ UNCHANGED <<serverVars, userVars, todo, cancelVars, again>>

---------------------------------------------------------------------------------
\* A session begins, which is told to the main thread, or ends.
Connect ==
  /\ ~connected
  /\ sessions < MaxSessions
  /\ connected' = TRUE
  /\ sessions' = sessions + 1
  /\ mainq' = Append(mainq, [kind |-> "connected"])
  /\ UNCHANGED <<serverVars, showAll, toggles, historyVars, todo, cancelVars, taskVars>>

Disconnect ==
  /\ connected
  /\ connected' = FALSE
  /\ UNCHANGED <<serverVars, sessions, showAll, toggles, historyVars, mainq, todo>>
  /\ UNCHANGED <<cancelVars, taskVars>>

\* rehydrateTasks asks for the records of all tasks and categorizes one after the other.
AllTaskRecords ==
  IF connected THEN {Snapshot(t) : t \in {u \in Task : server[u] \in {"pending", "ended"}}} ELSE {}

HandleConnected ==
  /\ Takes("connected")
  /\ todo' = AllTaskRecords
  /\ mainq' = Tail(mainq)
  /\ UNCHANGED <<serverVars, userVars, historyVars, cancelVars, taskVars>>

Meddling == {o \in DOMAIN ops : ops[o].step = "none"}

FoundAgain(t) ==
  \/ Tracked(t)
  \/ \E o \in Meddling : ops[o].task = t
  \/ \E k \in DOMAIN mainq :
       mainq[k].kind = "task" /\ mainq[k].sort = "add" /\ mainq[k].task = t

RehydrateTask ==
  \E data \in todo :
    /\ todo' = todo \ {data}
    /\ again' = IF FoundAgain(data.task) THEN again \cup {data.task} ELSE again
    /\ Categorize(data, unmatched)
    /\ UNCHANGED <<serverVars, userVars, mainq, cancelVars>>

\* RemoveRecord, for a set of records: their operations are disconnected, and out of
\* m_lookup, if they are alive.
RemoveRecords(rs) ==
  /\ records' = [r \in DOMAIN records |->
                  IF r \in rs THEN [records[r] EXCEPT !.state = "deleted"] ELSE records[r]]
  /\ lookup' = [a \in Address |->
                  IF lookup[a] \in rs /\ ops[records[lookup[a]].op].step # "deleted" THEN 0
                  ELSE lookup[a]]
  /\ UNCHANGED ops

\* The user dismisses completed records, or toggles what is shown.
Dismiss ==
  /\ Idle
  /\ \E r \in DOMAIN records : records[r].state = "Completed" /\ RemoveRecords({r})
  /\ UNCHANGED <<serverVars, userVars, mainq, todo, cancelVars, taskVars>>

ToggleShowAll ==
  /\ Idle
  /\ toggles < MaxToggles /\ Begun < MaxBegun
  /\ toggles' = toggles + 1
  /\ showAll' = ~showAll
  /\ IF showAll
     THEN /\ RemoveRecords({r \in DOMAIN records : /\ records[r].state # "deleted"
                                                   /\ ops[records[r].op].step = "none"
                                                   /\ ops[records[r].op].task \notin Recognized})
          /\ UNCHANGED todo
     ELSE /\ todo' = AllTaskRecords
          /\ UNCHANGED historyVars
  /\ UNCHANGED <<serverVars, connected, sessions, mainq, cancelVars, taskVars>>

\* updateRecordState and the like: a record that was deleted meanwhile is written to.  A
\* mistaken variant passes over a record whose operation is gone.
UpdateRecordInUse ==
  /\ Takes("state")
  /\ LET r == Head(mainq).record IN
     records' = IF records[r].state = "deleted" \/ ops[records[r].op].step = "deleted" THEN records
                ELSE [records EXCEPT ![r].state = Head(mainq).state]
  /\ mainq' = Tail(mainq)
  /\ UNCHANGED <<serverVars, userVars, ops, lookup, todo, cancelVars, taskVars>>

UpdateRecord ==
  /\ Takes("state")
  /\ LET r == Head(mainq).record IN
     records' = IF records[r].state = "deleted" THEN records
                ELSE [records EXCEPT ![r].state = Head(mainq).state]
  /\ mainq' = Tail(mainq)
  /\ UNCHANGED <<serverVars, userVars, ops, lookup, todo, cancelVars, taskVars>>

MainThread ==
  \/ HandleTaskAdded \/ HandleTaskUpdated \/ HandleTaskRemoved
  \/ HandleConnected \/ RehydrateTask \/ UpdateRecord \/ CancelSets

Next ==
  \/ \E t \in Task : TaskBegins(t) \/ TaskGetsOld(t) \/ TaskEnds(t) \/ TaskGone(t) \/ RunOperation(t)
  \/ \E o \in DOMAIN ops : Worker(o) \/ CancelOperation(o)
  \/ Connect \/ Disconnect \/ Dismiss \/ ToggleShowAll
  \/ MainThread

\* The main thread's queue is served and the operations' threads run; the server, the
\* user and the network owe nothing.
Fairness ==
  /\ WF_vars(MainThread)
  /\ WF_vars(\E o \in DOMAIN ops : Worker(o))

SafeSpec == Init /\ [][Next]_vars
Spec == SafeSpec /\ Fairness

---------------------------------------------------------------------------------
\* The types, among them: m_matchedTasks has running MeddlingActions only.
TypeOK ==
  /\ server \in [Task -> {"none", "pending", "ended", "gone"}]
  /\ matched \in [Task -> {0} \cup {o \in Meddling : ops[o].state = "Running"}]
  /\ lookup \in [Address -> {0} \cup DOMAIN records]
  /\ unmatched \cup old \cup again \subseteq Task
  /\ \A r \in DOMAIN records : records[r].op \in DOMAIN ops
  /\ \A k \in DOMAIN mainq : mainq[k].kind = "state" => mainq[k].record \in DOMAIN records

\* Every record of an operation that is alive is the one m_lookup has for it, and so it is
\* the only one, though a MeddlingAction is registered twice: RemoveRecord forgets the
\* operation, and nobody else is connected to it.
RecordIsFound ==
  \A r \in DOMAIN records :
    LET o == records[r].op IN
    records[r].state # "deleted" /\ ops[o].step # "deleted" => lookup[ops[o].at] = r

\* A task is monitored by one operation, which runs as long as the task is tracked as
\* matched, unless a rehydration has come upon a task that was tracked.
MonitoredOnce ==
  \A t \in Task \ again :
    LET monitors == {o \in Meddling : ops[o].task = t} IN
    /\ \A o, p \in monitors : o = p
    /\ \A o \in monitors : ops[o].state = "Running" <=> matched[t] = o
    /\ matched[t] # 0 => t \notin unmatched

\* An operation that monitors a task ends when the task is gone, if the first session lasts
\* and no rehydration has found the task known already.
MonitorEnds ==
  \A t \in Task :
    server[t] = "gone" ~>
      \/ t \in again \/ ~connected \/ sessions > 1
      \/ \A o \in Meddling : ops[o].task = t => ops[o].state # "Running"

\* A record shows a state once the main thread has handled what is posted.
WillShow(r, state) ==
  IF SignalsOf(r) = {} THEN records[r].state = state
  ELSE \E k \in SignalsOf(r) : mainq[k].state = state /\ \A j \in SignalsOf(r) : j <= k

\* The history comes to show the state of every operation, also when it is deleted
\* meanwhile or cancelled while it ends; but where a Cancelled, which the record takes at
\* once, overtakes an end that is posted, it may stay with another end than the operation.
EndIsRecorded ==
  \A r \in DOMAIN records :
    LET o == records[r].op IN
    records[r].state # "deleted" =>
      \/ WillShow(r, ops[o].state)
      \/ o \in overtaken /\ \E end \in Ended : WillShow(r, end)

\* Tasks that "have our XenAdminQtUUID (we already have an AsyncOperation for them)" are
\* not monitored.
OwnTaskUnmonitored == \A o \in Meddling : ops[o].from = 0

=========================================================================================
