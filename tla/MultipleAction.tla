----------------------------- MODULE MultipleAction -----------------------------
(***************************************************************************)
(* operations/multipleaction.{h,cpp}: an AsyncOperation whose run() runs   *)
(* other AsyncOperations, here one after the other; ParallelAction         *)
(* replaces runSubOperations.  The action's own life and that of its       *)
(* sub-operations is that of AsyncOperation, taken at a coarser grain: a   *)
(* setError and a setState are steps, and a Cancel() is the two that       *)
(* matter, the look at the state and the setState after its network call.  *)
(***************************************************************************)
EXTENDS Naturals, FiniteSets

CONSTANT N  \* the number of sub-operations, in list order 1..N

ASSUME MultipleActionAssumption == N \in Nat \ {0}

Subs == 1..N
Terminal == {"Completed", "Cancelled", "Failed"}
States == {"NotStarted", "Running"} \cup Terminal

VARIABLES
  parallel,    \* this is a ParallelAction
  stopOnFirst, \* m_stopOnFirstException
  cross,       \* the action has no connection of its own (connection == nullptr)
  parent,      \* m_state of the action
  parentError, \* HasError() of the action
  pc,          \* where the thread in run() is
  next,        \* the sub-operation runSubOperations has come to
  sub,         \* m_state of each sub-operation
  subError,    \* HasError() of each sub-operation, which the sequential run looks at
  reported,    \* history: the sub-operations that have emitted completed()
  exceptions,  \* the sub-operations whose error is in the list `exceptions`
  main,        \* what the main thread executes
  at,          \* the sub-operation its loop over the list has come to, from 1
  calling,     \* it is in the network call of that one's Cancel()
  slot,        \* onCompleted(): "none", "queued" for the main thread, "done"
  late         \* history: sub-operations started while the action was Cancelled

config == <<parallel, stopOnFirst, cross>>
subVars == <<sub, subError, reported>>
mainVars == <<main, at, calling>>
actionVars == <<config, parent, parentError, pc, next, subVars, exceptions, mainVars, slot, late>>

ActionInit ==
  /\ parallel    \in BOOLEAN
  /\ stopOnFirst \in {b \in BOOLEAN : parallel => ~b}
  /\ cross       \in BOOLEAN
  /\ parent      = "NotStarted"
  /\ parentError = FALSE
  /\ pc          = "idle"
  /\ next        = 1
  /\ sub         = [i \in Subs |-> "NotStarted"]
  /\ subError    = [i \in Subs |-> FALSE]
  /\ reported    = {}
  /\ exceptions  = {}
  /\ main        = "loop"
  /\ at          = 1
  /\ calling     = FALSE
  /\ slot        = "none"
  /\ late        = {}

---------------------------------------------------------------------------------
\* setError() of the action: a running action has failed at once.
SetError ==
  /\ parentError' = TRUE
  /\ parent' = IF parent = "Running" THEN "Failed" ELSE parent

\* RunAsync or RunSync of the action.
Run ==
  /\ parent = "NotStarted"
  /\ parent' = "Running"
  /\ pc' = "session"
  /\ UNCHANGED <<config, parentError, next, subVars, exceptions, mainVars, slot, late>>

\* The action uses the session of its caller or a duplicate of its connection's.  It
\* may be given none and have no connection, the connection no session, the server
\* no answer: then it ends here, before run().
Session ==
  /\ pc = "session"
  /\ \/ pc' = "begin" /\ UNCHANGED <<parent, parentError>>
     \/ pc' = "returned" /\ parent' = "Failed" /\ parentError' = TRUE
  /\ UNCHANGED <<config, next, subVars, exceptions, mainVars, slot, late>>

---------------------------------------------------------------------------------
\* RunSync of sub-operation i up to its run().
SubStarts(i) ==
  /\ sub[i] = "NotStarted"
  /\ sub' = [sub EXCEPT ![i] = "Running"]
  /\ late' = IF parent = "Cancelled" THEN late \cup {i} ELSE late
  /\ UNCHANGED <<subError, reported>>

\* setError() of sub-operation i.
SubErrs(i) == subError' = IF parallel THEN subError ELSE [subError EXCEPT ![i] = TRUE]

\* Some run()s end with a setState(Completed) of their own, whatever has become of
\* the operation meanwhile; it may have got an error before.
SubClaims(i) ==
  /\ i \notin reported
  /\ sub' = [sub EXCEPT ![i] = "Completed"]
  /\ reported' = reported \cup {i}
  /\ SubErrs(i) \/ UNCHANGED subError

\* The end of run(): well; or with an error, which fails a running operation; or
\* with an exception, which fails any.
SubEnds(i) ==
  \/ /\ sub' = [sub EXCEPT ![i] = IF @ = "Running" THEN "Completed" ELSE @]
     /\ reported' = IF sub[i] = "Running" THEN reported \cup {i} ELSE reported
     /\ UNCHANGED subError
  \/ /\ i \notin reported
     /\ \E s \in {"Failed"} \cup ({sub[i]} \ {"Running"}) : sub' = [sub EXCEPT ![i] = s]
     /\ SubErrs(i)
     /\ UNCHANGED reported

---------------------------------------------------------------------------------
\* runSubOperations: IsCancelled() is tested, then the next sub-operation runs.
TestCancelled ==
  /\ pc = "begin"
  /\ ~parallel
  /\ pc' = IF next > N \/ parent = "Cancelled" THEN "tail" ELSE "launch"
  /\ UNCHANGED <<config, parent, parentError, next, subVars, exceptions, mainVars, slot, late>>

Launch ==
  /\ pc = "launch"
  /\ SubStarts(next)
  /\ pc' = "inSub"
  /\ UNCHANGED <<config, parent, parentError, next, exceptions, mainVars, slot>>

LaunchedClaims ==
  /\ pc = "inSub"
  /\ SubClaims(next)
  /\ UNCHANGED <<config, parent, parentError, pc, next, exceptions, mainVars, slot, late>>

LaunchedEnds ==
  /\ pc = "inSub"
  /\ SubEnds(next)
  /\ pc' = "inspect"
  /\ UNCHANGED <<config, parent, parentError, next, exceptions, mainVars, slot, late>>

\* HasError() of the sub-operation is looked at; the first error is the action's.
Inspect ==
  /\ pc = "inspect"
  /\ exceptions' = IF subError[next] THEN exceptions \cup {next} ELSE exceptions
  /\ IF subError[next] /\ ~parentError THEN SetError ELSE UNCHANGED <<parent, parentError>>
  /\ next' = next + 1
  /\ pc' = IF subError[next] /\ stopOnFirst THEN "tail" ELSE "begin"
  /\ UNCHANGED <<config, subVars, mainVars, slot, late>>

\* The rest of run(): several errors and a cancel are errors of the action.
Tail ==
  /\ pc = "tail"
  /\ IF Cardinality(exceptions) > 1 \/ parent = "Cancelled"
     THEN SetError ELSE UNCHANGED <<parent, parentError>>
  /\ pc' = "runReturned"
  /\ UNCHANGED <<config, next, subVars, exceptions, mainVars, slot, late>>

\* AsyncOperation after run(): completed() is queued to the main thread.
RunReturned ==
  /\ pc = "runReturned"
  /\ IF parent = "Running"
     THEN parent' = "Completed" /\ slot' = "queued"
     ELSE UNCHANGED <<parent, slot>>
  /\ pc' = "returned"
  /\ UNCHANGED <<config, parentError, next, subVars, exceptions, mainVars, late>>

---------------------------------------------------------------------------------
\* Cancel() of the action on the main thread begins: its onCancel() walks the list.
BeginCancel ==
  /\ main = "loop"
  /\ parent = "Running"
  /\ main' = "onCancel"
  /\ UNCHANGED <<config, parent, parentError, pc, next, subVars, exceptions>>
  /\ UNCHANGED <<at, calling, slot, late>>

\* onMultipleOperationCompleted on the main thread walks it to cancel what still
\* runs.  (StopWorkers of each queue, after it, meets no closure that waits.)
OnMultipleOperationCompleted ==
  /\ main = "loop"
  /\ slot = "queued"
  /\ slot' = "done"
  /\ main' = "onCompleted"
  /\ UNCHANGED <<config, parent, parentError, pc, next, subVars, exceptions, at, calling, late>>

\* The user cancels one sub-operation, which the history lists as well.
UserCancelsSub(i) ==
  /\ main = "loop"
  /\ sub[i] = "Running"
  /\ main' = "cancelSub"
  /\ at' = i
  /\ calling' = TRUE
  /\ UNCHANGED <<config, parent, parentError, pc, next, subVars, exceptions, slot, late>>

\* The walk: Cancel() of a sub-operation that runs goes into its network call, any
\* other is passed over.  A mistaken walk runs past the end of the list.
VisitPastEnd ==
  /\ main \in {"onCancel", "onCompleted"} /\ ~calling
  /\ IF at \in Subs /\ sub[at] = "Running"
     THEN calling' = TRUE /\ UNCHANGED at
     ELSE at' = at + 1 /\ UNCHANGED calling
  /\ UNCHANGED <<config, parent, parentError, pc, next, subVars, exceptions, main, slot, late>>

Visit ==
  /\ main \in {"onCancel", "onCompleted"} /\ at \in Subs /\ ~calling
  /\ IF sub[at] = "Running"
     THEN calling' = TRUE /\ UNCHANGED at
     ELSE at' = at + 1 /\ UNCHANGED calling
  /\ UNCHANGED <<config, parent, parentError, pc, next, subVars, exceptions, main, slot, late>>

\* After the call Cancel() sets Cancelled, whatever has become of the operation.
CancelSets ==
  /\ calling
  /\ sub' = [sub EXCEPT ![at] = "Cancelled"]
  /\ calling' = FALSE
  /\ IF main = "cancelSub" THEN main' = "loop" /\ at' = 1
                           ELSE at' = at + 1 /\ UNCHANGED main
  /\ UNCHANGED <<config, parent, parentError, pc, next, subError, reported, exceptions>>
  /\ UNCHANGED <<slot, late>>

\* The end of the walk; only now is the action itself Cancelled, whatever it was.
WalkEnds ==
  /\ at = N + 1
  /\ main \in {"onCancel", "onCompleted"}
  /\ parent' = IF main = "onCancel" THEN "Cancelled" ELSE parent
  /\ main' = "loop"
  /\ at' = 1
  /\ UNCHANGED <<config, parentError, pc, next, subVars, exceptions, calling, slot, late>>

ThreadStep ==
  \/ Session \/ TestCancelled \/ Launch \/ LaunchedClaims \/ LaunchedEnds
  \/ Inspect \/ Tail \/ RunReturned

MainStep == OnMultipleOperationCompleted \/ Visit \/ CancelSets \/ WalkEnds

UserStep == Run \/ BeginCancel \/ \E i \in Subs : UserCancelsSub(i)
=================================================================================
