----------------------------- MODULE AsyncOperation -----------------------------
(***************************************************************************)
(* xen/asyncoperation.{h,cpp}: one user operation.  Its run() executes on  *)
(* a thread of the QThreadPool (RunAsync) or of its caller (RunSync),      *)
(* starts XenAPI tasks on the server and polls each to its end, while the  *)
(* main thread may Cancel() it.  A section under m_mutex is one step, and  *)
(* so is one XenAPI call.  Emitting a signal is part of the setState that  *)
(* emits it.                                                               *)
(***************************************************************************)
EXTENDS Naturals, Sequences

CONSTANTS MaxTasks,    \* bound: server tasks one run() starts
          MaxLost      \* bound: answers to task.get_record that get lost

ASSUME AsyncOperationAssumption == MaxTasks \in Nat /\ MaxLost \in Nat

VARIABLES
  state,      \* m_state
  error,      \* m_errorMessage is not empty
  session,    \* m_session and m_ownsSession
  taskRef,    \* m_relatedTaskRef, 0 when empty
  autoDelete, \* m_autoDelete
  deleted,    \* deleteLater() has been called
  pc,         \* where the executing thread is
  resume,     \* where it goes when the setError() it is in returns
  suppress,   \* suppressFailures of the poll in progress
  claims,     \* this subclass's run() calls setState(Completed) itself
  cancel,     \* where the Cancel() of the main thread is, and the ref it has read
  online,     \* the session of the connection is logged in
  task,       \* server: status of each task
  lost,       \* history: answers to task.get_record that got lost
  signals     \* history: the terminal signals emitted, in order

threadVars == <<state, error, session, taskRef, autoDelete, deleted, pc, resume, suppress, signals>>
vars == <<threadVars, claims, cancel, online, task, lost>>

TaskIds == 1..MaxTasks
Terminal == {"Completed", "Cancelled", "Failed"}
States == {"NotStarted", "Running"} \cup Terminal
TaskEnd == {"success", "failure", "cancelled"}
Emitted == {signals[i] : i \in 1..Len(signals)}
Started == {i \in TaskIds : task[i] # "absent"}

Init ==
  /\ state      = "NotStarted"
  /\ error      = FALSE
  /\ session    = "none"
  /\ taskRef    = 0
  /\ autoDelete = FALSE
  /\ deleted    = FALSE
  /\ pc         = "idle"
  /\ resume     = "idle"
  /\ suppress   = FALSE
  /\ claims     \in BOOLEAN
  /\ cancel     = [at |-> "idle", ref |-> 0]
  /\ online     = TRUE
  /\ task       = [i \in TaskIds |-> "absent"]
  /\ lost       = 0
  /\ signals    = <<>>

---------------------------------------------------------------------------------
\* A mistaken setState that reports every change of state as an end.
SetStateReportingAll(s) ==
  /\ state' = s
  /\ signals' = IF state # s THEN Append(signals, s) ELSE signals

\* setState: nothing happens when the state is already the new one.
SetState(s) ==
  /\ state' = s
  /\ signals' = IF s \in Terminal /\ state # s THEN Append(signals, s) ELSE signals

\* RunAsync(autoDelete): hands run() to the thread pool.
RunAsync(delete) ==
  /\ state = "NotStarted"
  /\ SetState("Running")
  /\ autoDelete' = delete
  /\ pc' = "session"
  /\ UNCHANGED <<error, session, taskRef, deleted, resume, suppress, claims, cancel, online, task, lost>>

\* RunSync(session): the caller's thread executes run(), on the caller's session
\* when one is given.
RunSync(given) ==
  /\ state = "NotStarted"
  /\ SetState("Running")
  /\ session' = IF given THEN "shared" ELSE "none"
  /\ pc' = "session"
  /\ UNCHANGED <<error, taskRef, autoDelete, deleted, resume, suppress, claims, cancel, online, task, lost>>

\* The session of the operation: one that is there, a duplicate that it owns, or
\* none when the connection has no logged-in session to duplicate.
HaveSession ==
  /\ pc = "session"
  /\ session # "none" \/ online
  /\ session' = IF session = "none" THEN "owned" ELSE session
  /\ pc' = "body"
  /\ UNCHANGED <<state, error, taskRef, autoDelete, deleted, resume, suppress, signals>>
  /\ UNCHANGED <<claims, cancel, online, task, lost>>

\* setError() of the thread, first half: the message is stored and the state
\* looked at under the lock.  The thread continues at `after`.
EnterError(after) ==
  /\ pc' = "error"
  /\ resume' = after

NoSession ==
  /\ pc = "session"
  /\ session = "none"
  /\ ~online
  /\ EnterError("giveUp")
  /\ UNCHANGED <<state, error, session, taskRef, autoDelete, deleted, suppress, signals>>
  /\ UNCHANGED <<claims, cancel, online, task, lost>>

RecordError ==
  /\ pc = "error"
  /\ error' = TRUE
  /\ pc' = IF state = "Running" THEN "fail" ELSE resume
  /\ UNCHANGED <<state, session, taskRef, autoDelete, deleted, resume, suppress, signals>>
  /\ UNCHANGED <<claims, cancel, online, task, lost>>

\* setError(), second half: the state is set without looking at it again.
FailOnError ==
  /\ pc = "fail"
  /\ SetState("Failed")
  /\ pc' = resume
  /\ UNCHANGED <<error, session, taskRef, autoDelete, deleted, resume, suppress>>
  /\ UNCHANGED <<claims, cancel, online, task, lost>>

---------------------------------------------------------------------------------
\* run() of the subclasses: they start tasks and poll them one after the other
\* (pollToCompletion has set the task ref), give up with setError or an
\* exception, or return.

StartTask(i, sup) ==
  /\ pc = "body"
  /\ online
  /\ \A j \in TaskIds : j < i <=> task[j] # "absent"
  /\ task' = [task EXCEPT ![i] = "pending"]
  /\ taskRef' = i
  /\ suppress' = sup
  /\ pc' = "poll"
  /\ UNCHANGED <<state, error, session, autoDelete, deleted, resume, signals>>
  /\ UNCHANGED <<claims, cancel, online, lost>>

BodySetsError ==
  /\ pc = "body"
  /\ EnterError("runReturned")
  /\ UNCHANGED <<state, error, session, taskRef, autoDelete, deleted, suppress, signals>>
  /\ UNCHANGED <<claims, cancel, online, task, lost>>

BodyThrows ==
  /\ pc = "body"
  /\ EnterError("caught")
  /\ UNCHANGED <<state, error, session, taskRef, autoDelete, deleted, suppress, signals>>
  /\ UNCHANGED <<claims, cancel, online, task, lost>>

\* DestroySrAction and its like: `if (GetState() != Failed) setState(Completed)`.
BodyReturns ==
  /\ pc = "body"
  /\ IF claims /\ state # "Failed" THEN SetState("Completed") ELSE UNCHANGED <<state, signals>>
  /\ pc' = "runReturned"
  /\ UNCHANGED <<error, session, taskRef, autoDelete, deleted, resume, suppress>>
  /\ UNCHANGED <<claims, cancel, online, task, lost>>

---------------------------------------------------------------------------------
\* A mistaken pollTask that takes a lost session for a task still going on.
PollOfflineWaits ==
  /\ pc = "poll"
  /\ ~online
  /\ UNCHANGED vars

\* pollTask: the session is gone.
PollOffline ==
  /\ pc = "poll"
  /\ ~online
  /\ EnterError("destroyTask")
  /\ UNCHANGED <<state, error, session, taskRef, autoDelete, deleted, suppress, signals>>
  /\ UNCHANGED <<claims, cancel, online, task, lost>>

\* pollTask: no record comes back, because the server has forgotten the task or
\* because the answer was lost.  Both count as the end of the task.
PollNoRecord ==
  /\ pc = "poll"
  /\ online
  /\ \/ task[taskRef] = "destroyed" /\ lost' = lost
     \/ lost < MaxLost /\ lost' = lost + 1
  /\ pc' = "destroyTask"
  /\ UNCHANGED <<state, error, session, taskRef, autoDelete, deleted, resume, suppress, signals>>
  /\ UNCHANGED <<claims, cancel, online, task>>

PollSuccess ==
  /\ pc = "poll"
  /\ online
  /\ task[taskRef] = "success"
  /\ pc' = "destroyTask"
  /\ UNCHANGED <<state, error, session, taskRef, autoDelete, deleted, resume, suppress, signals>>
  /\ UNCHANGED <<claims, cancel, online, task, lost>>

PollFailure ==
  /\ pc = "poll"
  /\ online
  /\ task[taskRef] = "failure"
  /\ IF suppress
     THEN pc' = "destroyTask" /\ UNCHANGED resume
     ELSE EnterError("destroyTask")
  /\ UNCHANGED <<state, error, session, taskRef, autoDelete, deleted, suppress, signals>>
  /\ UNCHANGED <<claims, cancel, online, task, lost>>

\* A mistaken pollTask that ends the poll of a cancelled task and says nothing.
PollCancelledSilently ==
  /\ pc = "poll"
  /\ online
  /\ task[taskRef] = "cancelled"
  /\ pc' = "destroyTask"
  /\ UNCHANGED <<state, error, session, taskRef, autoDelete, deleted, resume, suppress, signals>>
  /\ UNCHANGED <<claims, cancel, online, task, lost>>

PollCancelled ==
  /\ pc = "poll"
  /\ online
  /\ task[taskRef] = "cancelled"
  /\ SetState("Cancelled")
  /\ pc' = "destroyTask"
  /\ UNCHANGED <<error, session, taskRef, autoDelete, deleted, resume, suppress>>
  /\ UNCHANGED <<claims, cancel, online, task, lost>>

\* destroyTask: the server may refuse; the reference is dropped in any case.
DestroyTask ==
  /\ pc = "destroyTask"
  /\ \/ online /\ task' = [task EXCEPT ![taskRef] = "destroyed"]
     \/ UNCHANGED task
  /\ taskRef' = 0
  /\ pc' = "body"
  /\ UNCHANGED <<state, error, session, autoDelete, deleted, resume, suppress, signals>>
  /\ UNCHANGED <<claims, cancel, online, lost>>

---------------------------------------------------------------------------------
\* A mistaken end of run() that does not look at the state.
RunReturnedUntested ==
  /\ pc = "runReturned"
  /\ SetState("Completed")
  /\ pc' = "cleanup"
  /\ UNCHANGED <<error, session, taskRef, autoDelete, deleted, resume, suppress>>
  /\ UNCHANGED <<claims, cancel, online, task, lost>>

\* run() has returned: test and set under one lock.
RunReturned ==
  /\ pc = "runReturned"
  /\ IF state = "Running" THEN SetState("Completed") ELSE UNCHANGED <<state, signals>>
  /\ pc' = "cleanup"
  /\ UNCHANGED <<error, session, taskRef, autoDelete, deleted, resume, suppress>>
  /\ UNCHANGED <<claims, cancel, online, task, lost>>

\* A mistaken catch block that returns past the clean-up.
CaughtReturns ==
  /\ pc = "caught"
  /\ SetState("Failed")
  /\ pc' = "returned"
  /\ UNCHANGED <<error, session, taskRef, autoDelete, deleted, resume, suppress>>
  /\ UNCHANGED <<claims, cancel, online, task, lost>>

\* The catch block after its setError(): the state is set whatever it is.
Caught ==
  /\ pc = "caught"
  /\ SetState("Failed")
  /\ pc' = "cleanup"
  /\ UNCHANGED <<error, session, taskRef, autoDelete, deleted, resume, suppress>>
  /\ UNCHANGED <<claims, cancel, online, task, lost>>

\* No session: setState(Failed) and the early return, past the clean-up.
GiveUp ==
  /\ pc = "giveUp"
  /\ SetState("Failed")
  /\ pc' = "returned"
  /\ UNCHANGED <<error, session, taskRef, autoDelete, deleted, resume, suppress>>
  /\ UNCHANGED <<claims, cancel, online, task, lost>>

Cleanup ==
  /\ pc = "cleanup"
  /\ session' = IF session = "owned" THEN "none" ELSE session
  /\ deleted' = autoDelete
  /\ pc' = "returned"
  /\ UNCHANGED <<state, error, taskRef, autoDelete, resume, suppress, signals>>
  /\ UNCHANGED <<claims, cancel, online, task, lost>>

---------------------------------------------------------------------------------
\* Cancel() on the main thread: the state is tested under the lock and the lock
\* given up; the task the operation polls is cancelled with a call of its own;
\* then the state is set whatever it has become.
Cancel ==
  /\ cancel.at = "idle"
  /\ state = "Running"
  /\ cancel' = [at |-> "readRef", ref |-> 0]
  /\ UNCHANGED <<threadVars, claims, online, task, lost>>

CancelReadRef ==
  /\ cancel.at = "readRef"
  /\ cancel' = [at |-> IF taskRef # 0 /\ online /\ session # "none" THEN "call" ELSE "set",
                ref |-> taskRef]
  /\ UNCHANGED <<threadVars, claims, online, task, lost>>

\* task.cancel: the server may refuse, and the task may have ended by now.
CancelTask ==
  /\ cancel.at = "call"
  /\ \/ online /\ task[cancel.ref] = "pending" /\ task' = [task EXCEPT ![cancel.ref] = "cancelled"]
     \/ UNCHANGED task
  /\ cancel' = [cancel EXCEPT !.at = "set"]
  /\ UNCHANGED <<threadVars, claims, online, lost>>

CancelSetState ==
  /\ cancel.at = "set"
  /\ SetState("Cancelled")
  /\ cancel' = [at |-> "idle", ref |-> 0]
  /\ UNCHANGED <<error, session, taskRef, autoDelete, deleted, pc, resume, suppress>>
  /\ UNCHANGED <<claims, online, task, lost>>

---------------------------------------------------------------------------------
\* The server ends its tasks and may forget them; the connection may go away.
TaskEnds(i) ==
  /\ task[i] = "pending"
  /\ \E s \in TaskEnd : task' = [task EXCEPT ![i] = s]
  /\ UNCHANGED <<threadVars, claims, cancel, online, lost>>

TaskForgotten(i) ==
  /\ task[i] \in TaskEnd
  /\ task' = [task EXCEPT ![i] = "destroyed"]
  /\ UNCHANGED <<threadVars, claims, cancel, online, lost>>

LoseSession ==
  /\ online
  /\ online' = FALSE
  /\ UNCHANGED <<threadVars, claims, cancel, task, lost>>

ThreadStep ==
  \/ HaveSession \/ NoSession \/ RecordError \/ FailOnError
  \/ (\E i \in TaskIds, sup \in BOOLEAN : StartTask(i, sup))
  \/ BodySetsError \/ BodyThrows \/ BodyReturns
  \/ PollOffline \/ PollNoRecord \/ PollSuccess \/ PollFailure \/ PollCancelled
  \/ DestroyTask \/ RunReturned \/ Caught \/ GiveUp \/ Cleanup

CancelStep == CancelReadRef \/ CancelTask \/ CancelSetState

Next ==
  \/ \E b \in BOOLEAN : RunAsync(b) \/ RunSync(b)
  \/ ThreadStep
  \/ Cancel
  \/ CancelStep
  \/ \E i \in TaskIds : TaskEnds(i) \/ TaskForgotten(i)
  \/ LoseSession

\* The thread runs, a Cancel() that has begun goes on, and the server ends its
\* tasks.  Nobody has to start the operation or to cancel it.
Fairness ==
  /\ WF_vars(ThreadStep)
  /\ WF_vars(CancelStep)
  /\ \A i \in TaskIds : WF_vars(TaskEnds(i))

SafeSpec == Init /\ [][Next]_vars
Spec == SafeSpec /\ Fairness

---------------------------------------------------------------------------------
PollPcs == {"poll", "destroyTask"}
Pcs == {"idle", "session", "body", "error", "fail", "runReturned", "caught", "giveUp",
        "cleanup", "returned"} \cup PollPcs

TypeOK ==
  /\ state \in States
  /\ error \in BOOLEAN
  /\ session \in {"none", "shared", "owned"}
  /\ taskRef \in 0..MaxTasks
  /\ autoDelete \in BOOLEAN
  /\ deleted \in BOOLEAN
  /\ pc \in Pcs
  /\ resume \in Pcs
  /\ suppress \in BOOLEAN
  /\ claims \in BOOLEAN
  /\ cancel \in [at : {"idle", "readRef", "call", "set"}, ref : 0..MaxTasks]
  /\ online \in BOOLEAN
  /\ task \in [TaskIds -> {"absent", "pending", "destroyed"} \cup TaskEnd]
  /\ lost \in 0..MaxLost
  /\ signals \in Seq(Terminal)

\* However a run ends, by its task, an error, an exception, a cancel or a lost
\* session, the thread leaves no duplicated session logged in and no task
\* reference behind (destroyTask, destroySession).
NothingLeftBehind == pc = "returned" => session # "owned" /\ taskRef = 0

\* In whatever order Cancel() and the thread set the state: whoever hears failed() can
\* show why, the message being stored before the state is set (setError, the catch
\* block, the return without a session); and completed() excludes an error, for a run()
\* that leaves it to AsyncOperation to report success.
ReportsMatchError ==
  /\ "Failed" \in Emitted => error
  /\ ~claims /\ "Completed" \in Emitted => ~error

\* When no answer was lost, an operation whose first report is completed() has
\* left no task going on and none cancelled (pollTask).
CompletedMeansTasksDone ==
  (signals # <<>> /\ signals[1] = "Completed" /\ lost = 0)
     => \A i \in Started : task[i] \notin {"pending", "cancelled"}

\* What the comment in pollTask says of a poll that finds no record: the task is
\* finished.
CompletedMeansTasksEnded ==
  state = "Completed" => \A i \in Started : task[i] # "pending"

\* Every operation that is started reaches a terminal state and its thread goes
\* away: a poll ends with its task, with the session or with an error.
Ends == state = "Running" ~> (state \in Terminal /\ pc = "returned")
=================================================================================
