------------------------- MODULE AsyncOperationProofs -------------------------
(***************************************************************************)
(* Proofs about AsyncOperation for any number of server tasks and of lost   *)
(* answers.  The inductive invariant ties what has been reported to the     *)
(* place of the executing thread, whatever Cancel() has done to the state   *)
(* in between.                                                              *)
(***************************************************************************)
EXTENDS AsyncOperation, TLAPS

\* The thread is in a setError() and goes on at p when that returns.
InError(p) == pc \in {"error", "fail"} /\ resume = p

\* The thread still has to destroy the task it has polled.
TaskAtHand == pc \in PollPcs \/ InError("destroyTask")

\* Where the thread is: it has not begun, or the operation has left NotStarted for good.
Places ==
  /\ pc = "idle" => state = "NotStarted" /\ ~error /\ signals = <<>>
  /\ state = "NotStarted" => pc = "idle" /\ cancel.at = "idle"
  /\ pc \in {"error", "fail"} => resume \in {"giveUp", "runReturned", "caught", "destroyTask"}

\* What the thread holds: a task reference between StartTask and DestroyTask, and no
\* duplicated session on the way out that skips the clean-up.
Holds ==
  /\ taskRef # 0 => TaskAtHand
  /\ pc \in {"giveUp", "returned"} \/ InError("giveUp") => session # "owned"

\* An error that is recorded while the operation runs is on its way to Failed, and who
\* reports a failure has recorded why.
Errors ==
  /\ pc \in {"fail", "caught", "giveUp"} \/ "Failed" \in Emitted => error
  /\ state = "Running" /\ error => pc = "fail"
  /\ ~claims /\ "Completed" \in Emitted => ~error /\ pc \in {"cleanup", "returned"}

\* The first report decides: completed() comes first only after the last poll, and
\* until another report was first no task but the one being polled is unsettled.
FirstIs(s) == signals # <<>> /\ signals[1] = s
Unsettled(i) == task[i] \in {"pending", "cancelled"}

Reports ==
  /\ state \in Terminal => signals # <<>>
  /\ FirstIs("Completed") => pc \in {"runReturned", "cleanup", "returned"}
  /\ lost = 0 /\ ~FirstIs("Cancelled") /\ ~FirstIs("Failed") =>
       \A i \in TaskIds : Unsettled(i) => i = taskRef /\ (pc = "poll" \/ InError("destroyTask"))

IInv == TypeOK /\ Places /\ Holds /\ Errors /\ Reports

\* A step that reports nothing.
LEMMA Silence ==
  ASSUME signals' = signals
  PROVE  /\ Emitted' = Emitted
         /\ \A s : FirstIs(s)' <=> FirstIs(s)
  BY DEF Emitted, FirstIs

\* What setState does to the reports: it may add its state, at the end.
LEMMA Report ==
  ASSUME TypeOK, NEW s \in States, SetState(s)
  PROVE  /\ state' = s
         /\ signals' \in Seq(Terminal)
         /\ Emitted' \subseteq Emitted \cup {s}
         /\ signals # <<>> => signals' # <<>> /\ \A r : FirstIs(r)' <=> FirstIs(r)
         /\ state # s /\ s \in Terminal /\ signals = <<>> =>
              signals' # <<>> /\ FirstIs(s)' /\ \A r : FirstIs(r)' => r = s
         /\ state = s \/ s \notin Terminal => signals' = signals
<1> USE DEF SetState, TypeOK
<1>1. CASE s \in Terminal /\ state # s
  <2>1. /\ signals' = Append(signals, s)
        /\ Len(signals') = Len(signals) + 1
        /\ \A i \in 1..Len(signals) : signals'[i] = signals[i]
        /\ signals'[Len(signals) + 1] = s
        /\ signals' \in Seq(Terminal)
    BY <1>1
  <2>2. Emitted' \subseteq Emitted \cup {s}
    BY <2>1 DEF Emitted
  <2>3. signals # <<>> => Len(signals) \in Nat /\ Len(signals) >= 1
    OBVIOUS
  <2>4. QED
    BY <1>1, <2>1, <2>2, <2>3 DEF FirstIs
<1>2. CASE ~(s \in Terminal /\ state # s)
  BY <1>2, Silence
<1>3. QED
  BY <1>1, <1>2

\* Something was reported first.
LEMMA First ==
  ASSUME TypeOK, signals # <<>>
  PROVE  FirstIs("Completed") \/ FirstIs("Cancelled") \/ FirstIs("Failed")
<1>1. Len(signals) >= 1 /\ signals[1] \in Terminal
  BY DEF TypeOK
<1>2. QED
  BY <1>1 DEF FirstIs, Terminal

LEMMA InitIInv == Init => IInv
<1> SUFFICES ASSUME Init PROVE IInv
  OBVIOUS
<1> USE AsyncOperationAssumption DEF Init
<1>1. TypeOK
  <2>1. cancel \in [at : {"idle", "readRef", "call", "set"}, ref : 0..MaxTasks]
    OBVIOUS
  <2>2. task \in [TaskIds -> {"absent", "pending", "destroyed"} \cup TaskEnd]
    OBVIOUS
  <2>3. error \in BOOLEAN /\ autoDelete \in BOOLEAN /\ deleted \in BOOLEAN /\ suppress \in BOOLEAN /\ online \in BOOLEAN
    OBVIOUS
  <2>4. QED
    BY <2>1, <2>2, <2>3 DEF TypeOK, States, Pcs
<1>2. Emitted = {} /\ \A s : ~FirstIs(s)
  BY DEF Emitted, FirstIs
<1>3. Places /\ Holds /\ Errors
  BY <1>2 DEF Places, Holds, Errors
<1>4. Reports
  BY <1>2 DEF Reports, Unsettled, Terminal
<1>5. QED
  BY <1>1, <1>3, <1>4 DEF IInv

\* The start of the operation keeps the invariant.
LEMMA RunAsyncKeeps ==
  ASSUME IInv, NEW b \in BOOLEAN, RunAsync(b)
  PROVE  IInv'
<1> USE AsyncOperationAssumption DEF IInv, RunAsync, threadVars, SetState
<1>1. TypeOK'
  BY DEF TypeOK, States, Pcs
<1>2. Places'
  BY DEF Places
<1>3. Holds'
  BY DEF Places, Holds, TaskAtHand, InError, PollPcs
<1>4. Errors'
  BY Silence DEF Places, Errors, Terminal
<1>5. Reports'
  BY Silence, First DEF Places, Reports, InError, Unsettled, Terminal
<1>6. QED
  BY <1>1, <1>2, <1>3, <1>4, <1>5

LEMMA RunSyncKeeps ==
  ASSUME IInv, NEW b \in BOOLEAN, RunSync(b)
  PROVE  IInv'
<1> USE AsyncOperationAssumption DEF IInv, RunSync, threadVars, SetState
<1>1. TypeOK'
  BY DEF TypeOK, States, Pcs
<1>2. Places'
  BY DEF Places
<1>3. Holds'
  BY DEF Places, Holds, TaskAtHand, InError, PollPcs
<1>4. Errors'
  BY Silence DEF Places, Errors, Terminal
<1>5. Reports'
  BY Silence, First DEF Places, Reports, InError, Unsettled, Terminal
<1>6. QED
  BY <1>1, <1>2, <1>3, <1>4, <1>5

\* The thread looks for its session and records errors.
LEMMA HaveSessionKeeps ==
  ASSUME IInv, HaveSession
  PROVE  IInv'
<1> USE AsyncOperationAssumption DEF IInv, HaveSession, threadVars
<1>1. TypeOK'
  BY DEF TypeOK, Pcs
<1>2. Places'
  BY DEF Places
<1>3. Holds'
  BY DEF Holds, TaskAtHand, InError, PollPcs
<1>4. Errors'
  BY Silence DEF Errors
<1>5. Reports'
  BY Silence, First DEF Reports, InError, Unsettled
<1>6. QED
  BY <1>1, <1>2, <1>3, <1>4, <1>5

LEMMA NoSessionKeeps ==
  ASSUME IInv, NoSession
  PROVE  IInv'
<1> USE AsyncOperationAssumption DEF IInv, NoSession, threadVars, EnterError
<1>1. TypeOK'
  BY DEF TypeOK, Pcs
<1>2. Places'
  BY DEF Places
<1>3. Holds'
  BY DEF Holds, TaskAtHand, InError, PollPcs
<1>4. Errors'
  BY Silence DEF Errors
<1>5. Reports'
  BY Silence, First DEF Reports, InError, Unsettled
<1>6. QED
  BY <1>1, <1>2, <1>3, <1>4, <1>5

LEMMA RecordErrorKeeps ==
  ASSUME IInv, RecordError
  PROVE  IInv'
<1> USE AsyncOperationAssumption DEF IInv, RecordError, threadVars
<1>1. TypeOK'
  BY DEF TypeOK, Pcs
<1>2. Places'
  BY DEF Places
<1>3. Holds'
  BY DEF Places, Holds, TaskAtHand, InError, PollPcs
<1>4. Errors'
  BY Silence DEF Errors
<1>5. Reports'
  BY Silence, First DEF TypeOK, Places, Reports, InError, Unsettled, States
<1>6. QED
  BY <1>1, <1>2, <1>3, <1>4, <1>5

LEMMA FailOnErrorKeeps ==
  ASSUME IInv, FailOnError
  PROVE  IInv'
<1> USE AsyncOperationAssumption DEF IInv, FailOnError, threadVars
<1>0. /\ state' = "Failed"
      /\ signals' \in Seq(Terminal)
      /\ Emitted' \subseteq Emitted \cup {"Failed"}
      /\ signals # <<>> => signals' # <<>> /\ \A r : FirstIs(r)' <=> FirstIs(r)
      /\ state # "Failed" /\ signals = <<>> =>
           signals' # <<>> /\ FirstIs("Failed")' /\ \A r : FirstIs(r)' => r = "Failed"
      /\ state = "Failed" => signals' = signals
  BY Report DEF States, Terminal
<1>1. TypeOK'
  BY <1>0 DEF TypeOK, States, Terminal
<1>2. Places'
  BY <1>0 DEF Places
<1>3. Holds'
  BY <1>0 DEF Places, Holds, TaskAtHand, InError, PollPcs
<1>4. Errors'
  BY <1>0 DEF Errors
<1>5. Reports'
  BY <1>0, First DEF Reports, Terminal
<1>6. QED
  BY <1>1, <1>2, <1>3, <1>4, <1>5

\* What run() does with its tasks and how it gives up.
LEMMA StartTaskKeeps ==
  ASSUME IInv, NEW i \in TaskIds, NEW sup \in BOOLEAN, StartTask(i, sup)
  PROVE  IInv'
<1> USE AsyncOperationAssumption DEF IInv, StartTask, threadVars
<1>1. TypeOK'
  BY DEF TypeOK, Pcs, PollPcs, TaskIds
<1>2. Places'
  BY DEF Places
<1>3. Holds'
  BY DEF Holds, TaskAtHand, InError, PollPcs
<1>4. Errors'
  BY Silence DEF Errors
<1>5. Reports'
  BY Silence, First DEF Reports, InError, Unsettled
<1>6. QED
  BY <1>1, <1>2, <1>3, <1>4, <1>5

LEMMA BodySetsErrorKeeps ==
  ASSUME IInv, BodySetsError
  PROVE  IInv'
<1> USE AsyncOperationAssumption DEF IInv, BodySetsError, threadVars, EnterError
<1>1. TypeOK'
  BY DEF TypeOK, Pcs
<1>2. Places'
  BY DEF Places
<1>3. Holds'
  BY DEF Holds, TaskAtHand, InError, PollPcs
<1>4. Errors'
  BY Silence DEF Errors
<1>5. Reports'
  BY Silence, First DEF Reports, InError, Unsettled
<1>6. QED
  BY <1>1, <1>2, <1>3, <1>4, <1>5

LEMMA BodyThrowsKeeps ==
  ASSUME IInv, BodyThrows
  PROVE  IInv'
<1> USE AsyncOperationAssumption DEF IInv, BodyThrows, threadVars, EnterError
<1>1. TypeOK'
  BY DEF TypeOK, Pcs
<1>2. Places'
  BY DEF Places
<1>3. Holds'
  BY DEF Holds, TaskAtHand, InError, PollPcs
<1>4. Errors'
  BY Silence DEF Errors
<1>5. Reports'
  BY Silence, First DEF Reports, InError, Unsettled
<1>6. QED
  BY <1>1, <1>2, <1>3, <1>4, <1>5

LEMMA BodyReturnsKeeps ==
  ASSUME IInv, BodyReturns
  PROVE  IInv'
<1> USE AsyncOperationAssumption DEF IInv, BodyReturns, threadVars
<1>0. claims /\ state # "Failed" =>
      /\ state' = "Completed"
      /\ signals' \in Seq(Terminal)
      /\ Emitted' \subseteq Emitted \cup {"Completed"}
      /\ signals # <<>> => signals' # <<>> /\ \A r : FirstIs(r)' <=> FirstIs(r)
      /\ state # "Completed" /\ signals = <<>> =>
           signals' # <<>> /\ FirstIs("Completed")' /\ \A r : FirstIs(r)' => r = "Completed"
      /\ state = "Completed" => signals' = signals
  BY Report DEF States, Terminal
<1>1. TypeOK'
  BY <1>0, Silence DEF TypeOK, States, Terminal, Pcs
<1>2. Places'
  BY <1>0, Silence DEF Places
<1>3. Holds'
  BY <1>0, Silence DEF Holds, TaskAtHand, InError, PollPcs
<1>4. Errors'
  BY <1>0, Silence DEF Errors
<1>5. Reports'
  <2>1. CASE claims /\ state # "Failed"
    <3>1. /\ signals # <<>> => signals' # <<>> /\ \A r : FirstIs(r)' <=> FirstIs(r)
          /\ state # "Completed" /\ signals = <<>> =>
               signals' # <<>> /\ FirstIs("Completed")' /\ \A r : FirstIs(r)' => r = "Completed"
      BY <1>0, <2>1
    <3>2. state' = "Completed" /\ (state = "Completed" => signals' = signals)
      BY <1>0, <2>1
    <3>3. pc' \in {"runReturned", "cleanup"} /\ UNCHANGED <<lost, task, taskRef>>
      OBVIOUS
    <3>4. \A j \in TaskIds : lost = 0 /\ ~FirstIs("Cancelled") /\ ~FirstIs("Failed") => ~Unsettled(j)
      BY DEF Reports, InError
    <3>5. \A j \in TaskIds : Unsettled(j)' <=> Unsettled(j)
      BY <3>3 DEF Unsettled
    <3>6. signals' # <<>>
      BY <3>1, <3>2 DEF Reports, Terminal
    <3>7. FirstIs("Completed")' => pc' \in {"runReturned", "cleanup", "returned"}
      BY <3>3
    <3>8. ~FirstIs("Cancelled")' /\ ~FirstIs("Failed")' => ~FirstIs("Cancelled") /\ ~FirstIs("Failed")
      <4>1. CASE signals = <<>>
        BY <4>1 DEF FirstIs
      <4>2. CASE signals # <<>>
        BY <3>1, <4>2
      <4>3. QED
        BY <4>1, <4>2
    <3>9. QED
      BY <3>3, <3>4, <3>5, <3>6, <3>7, <3>8 DEF Reports
  <2>2. CASE ~(claims /\ state # "Failed")
    BY <2>2, Silence, First DEF Reports, InError, Unsettled
  <2>3. QED
    BY <2>1, <2>2
<1>6. QED
  BY <1>1, <1>2, <1>3, <1>4, <1>5

\* The polls: nothing but a cancelled task is reported.
LEMMA PollOfflineKeeps ==
  ASSUME IInv, PollOffline
  PROVE  IInv'
<1> USE AsyncOperationAssumption DEF IInv, PollOffline, threadVars, EnterError
<1>1. TypeOK'
  BY DEF TypeOK, Pcs, PollPcs
<1>2. Places'
  BY DEF Places
<1>3. Holds'
  BY DEF Holds, TaskAtHand, InError
<1>4. Errors'
  BY Silence DEF Errors
<1>5. Reports'
  BY Silence, First DEF Reports, InError, Unsettled
<1>6. QED
  BY <1>1, <1>2, <1>3, <1>4, <1>5

LEMMA PollNoRecordKeeps ==
  ASSUME IInv, PollNoRecord
  PROVE  IInv'
<1> USE AsyncOperationAssumption DEF IInv, PollNoRecord, threadVars
<1>1. TypeOK'
  BY DEF TypeOK, Pcs, PollPcs
<1>2. Places'
  BY DEF Places
<1>3. Holds'
  BY DEF Holds, TaskAtHand, InError, PollPcs
<1>4. Errors'
  BY Silence DEF Errors
<1>5. Reports'
  BY Silence, First DEF TypeOK, Reports, Unsettled
<1>6. QED
  BY <1>1, <1>2, <1>3, <1>4, <1>5

LEMMA PollSuccessKeeps ==
  ASSUME IInv, PollSuccess
  PROVE  IInv'
<1> USE AsyncOperationAssumption DEF IInv, PollSuccess, threadVars
<1>1. TypeOK'
  BY DEF TypeOK, Pcs, PollPcs
<1>2. Places'
  BY DEF Places
<1>3. Holds'
  BY DEF Holds, TaskAtHand, InError, PollPcs
<1>4. Errors'
  BY Silence DEF Errors
<1>5. Reports'
  BY Silence, First DEF Reports, Unsettled
<1>6. QED
  BY <1>1, <1>2, <1>3, <1>4, <1>5

LEMMA PollFailureKeeps ==
  ASSUME IInv, PollFailure
  PROVE  IInv'
<1> USE AsyncOperationAssumption DEF IInv, PollFailure, threadVars, EnterError
<1>1. TypeOK'
  BY DEF TypeOK, Pcs, PollPcs
<1>2. Places'
  BY DEF Places
<1>3. Holds'
  BY DEF Holds, TaskAtHand, InError, PollPcs
<1>4. Errors'
  BY Silence DEF Errors
<1>5. Reports'
  BY Silence, First DEF Reports, Unsettled
<1>6. QED
  BY <1>1, <1>2, <1>3, <1>4, <1>5

LEMMA PollCancelledKeeps ==
  ASSUME IInv, PollCancelled
  PROVE  IInv'
<1> USE AsyncOperationAssumption DEF IInv, PollCancelled, threadVars
<1>0. /\ state' = "Cancelled"
      /\ signals' \in Seq(Terminal)
      /\ Emitted' \subseteq Emitted \cup {"Cancelled"}
      /\ signals # <<>> => signals' # <<>> /\ \A r : FirstIs(r)' <=> FirstIs(r)
      /\ state # "Cancelled" /\ signals = <<>> =>
           signals' # <<>> /\ FirstIs("Cancelled")' /\ \A r : FirstIs(r)' => r = "Cancelled"
      /\ state = "Cancelled" => signals' = signals
  BY Report DEF States, Terminal
<1>1. TypeOK'
  BY <1>0 DEF TypeOK, States, Terminal, Pcs, PollPcs
<1>2. Places'
  BY <1>0 DEF Places
<1>3. Holds'
  BY <1>0 DEF Holds, TaskAtHand, InError, PollPcs
<1>4. Errors'
  BY <1>0 DEF Errors
<1>5. Reports'
  BY <1>0, First DEF Reports, Terminal
<1>6. QED
  BY <1>1, <1>2, <1>3, <1>4, <1>5

LEMMA DestroyTaskKeeps ==
  ASSUME IInv, DestroyTask
  PROVE  IInv'
<1> USE AsyncOperationAssumption DEF IInv, DestroyTask, threadVars
<1>1. TypeOK'
  BY DEF TypeOK, Pcs
<1>2. Places'
  BY DEF Places
<1>3. Holds'
  BY DEF Holds, InError
<1>4. Errors'
  BY Silence DEF Errors
<1>5. Reports'
  BY Silence, First DEF TypeOK, Reports, InError, Unsettled
<1>6. QED
  BY <1>1, <1>2, <1>3, <1>4, <1>5

\* The end of the thread.
LEMMA RunReturnedKeeps ==
  ASSUME IInv, RunReturned
  PROVE  IInv'
<1> USE AsyncOperationAssumption DEF IInv, RunReturned, threadVars
<1>0. state = "Running" =>
      /\ state' = "Completed"
      /\ signals' \in Seq(Terminal)
      /\ Emitted' \subseteq Emitted \cup {"Completed"}
      /\ signals # <<>> => signals' # <<>> /\ \A r : FirstIs(r)' <=> FirstIs(r)
      /\ state # "Completed" /\ signals = <<>> =>
           signals' # <<>> /\ FirstIs("Completed")' /\ \A r : FirstIs(r)' => r = "Completed"
      /\ state = "Completed" => signals' = signals
  BY Report DEF States, Terminal
<1>1. TypeOK'
  BY <1>0, Silence DEF TypeOK, States, Terminal, Pcs
<1>2. Places'
  BY <1>0, Silence DEF Places
<1>3. Holds'
  BY <1>0, Silence DEF Holds, TaskAtHand, InError, PollPcs
<1>4. Errors'
  BY <1>0, Silence DEF Errors
<1>5. Reports'
  <2>1. CASE state = "Running"
    <3>1. /\ signals # <<>> => signals' # <<>> /\ \A r : FirstIs(r)' <=> FirstIs(r)
          /\ state # "Completed" /\ signals = <<>> =>
               signals' # <<>> /\ FirstIs("Completed")' /\ \A r : FirstIs(r)' => r = "Completed"
      BY <1>0, <2>1
    <3>2. state' = "Completed" /\ (state = "Completed" => signals' = signals)
      BY <1>0, <2>1
    <3>3. pc' \in {"runReturned", "cleanup"} /\ UNCHANGED <<lost, task, taskRef>>
      OBVIOUS
    <3>4. \A j \in TaskIds : lost = 0 /\ ~FirstIs("Cancelled") /\ ~FirstIs("Failed") => ~Unsettled(j)
      BY DEF Reports, InError
    <3>5. \A j \in TaskIds : Unsettled(j)' <=> Unsettled(j)
      BY <3>3 DEF Unsettled
    <3>6. signals' # <<>>
      BY <3>1, <3>2 DEF Reports, Terminal
    <3>7. FirstIs("Completed")' => pc' \in {"runReturned", "cleanup", "returned"}
      BY <3>3
    <3>8. ~FirstIs("Cancelled")' /\ ~FirstIs("Failed")' => ~FirstIs("Cancelled") /\ ~FirstIs("Failed")
      <4>1. CASE signals = <<>>
        BY <4>1 DEF FirstIs
      <4>2. CASE signals # <<>>
        BY <3>1, <4>2
      <4>3. QED
        BY <4>1, <4>2
    <3>9. QED
      BY <3>3, <3>4, <3>5, <3>6, <3>7, <3>8 DEF Reports
  <2>2. CASE ~(state = "Running")
    BY <2>2, Silence, First DEF Reports, InError, Unsettled
  <2>3. QED
    BY <2>1, <2>2
<1>6. QED
  BY <1>1, <1>2, <1>3, <1>4, <1>5

LEMMA CaughtKeeps ==
  ASSUME IInv, Caught
  PROVE  IInv'
<1> USE AsyncOperationAssumption DEF IInv, Caught, threadVars
<1>0. /\ state' = "Failed"
      /\ signals' \in Seq(Terminal)
      /\ Emitted' \subseteq Emitted \cup {"Failed"}
      /\ signals # <<>> => signals' # <<>> /\ \A r : FirstIs(r)' <=> FirstIs(r)
      /\ state # "Failed" /\ signals = <<>> =>
           signals' # <<>> /\ FirstIs("Failed")' /\ \A r : FirstIs(r)' => r = "Failed"
      /\ state = "Failed" => signals' = signals
  BY Report DEF States, Terminal
<1>1. TypeOK'
  BY <1>0 DEF TypeOK, States, Terminal, Pcs
<1>2. Places'
  BY <1>0 DEF Places
<1>3. Holds'
  BY <1>0 DEF Holds, TaskAtHand, InError, PollPcs
<1>4. Errors'
  BY <1>0 DEF Errors
<1>5. Reports'
  BY <1>0, First DEF Reports, Terminal
<1>6. QED
  BY <1>1, <1>2, <1>3, <1>4, <1>5

LEMMA GiveUpKeeps ==
  ASSUME IInv, GiveUp
  PROVE  IInv'
<1> USE AsyncOperationAssumption DEF IInv, GiveUp, threadVars
<1>0. /\ state' = "Failed"
      /\ signals' \in Seq(Terminal)
      /\ Emitted' \subseteq Emitted \cup {"Failed"}
      /\ signals # <<>> => signals' # <<>> /\ \A r : FirstIs(r)' <=> FirstIs(r)
      /\ state # "Failed" /\ signals = <<>> =>
           signals' # <<>> /\ FirstIs("Failed")' /\ \A r : FirstIs(r)' => r = "Failed"
      /\ state = "Failed" => signals' = signals
  BY Report DEF States, Terminal
<1>1. TypeOK'
  BY <1>0 DEF TypeOK, States, Terminal, Pcs
<1>2. Places'
  BY <1>0 DEF Places
<1>3. Holds'
  BY <1>0 DEF Holds, TaskAtHand, InError, PollPcs
<1>4. Errors'
  BY <1>0 DEF Errors
<1>5. Reports'
  BY <1>0, First DEF Reports, Terminal
<1>6. QED
  BY <1>1, <1>2, <1>3, <1>4, <1>5

LEMMA CleanupKeeps ==
  ASSUME IInv, Cleanup
  PROVE  IInv'
<1> USE AsyncOperationAssumption DEF IInv, Cleanup, threadVars
<1>1. TypeOK'
  BY DEF TypeOK, Pcs
<1>2. Places'
  BY DEF Places
<1>3. Holds'
  BY DEF Holds, TaskAtHand, InError, PollPcs
<1>4. Errors'
  BY Silence DEF Errors
<1>5. Reports'
  BY Silence, First DEF Reports, InError, Unsettled
<1>6. QED
  BY <1>1, <1>2, <1>3, <1>4, <1>5

\* Cancel() on the main thread, which may report at any place of the thread.
LEMMA CancelKeeps ==
  ASSUME IInv, Cancel
  PROVE  IInv'
<1> USE AsyncOperationAssumption DEF IInv, Cancel, threadVars
<1>1. TypeOK'
  BY DEF TypeOK
<1>2. Places'
  BY DEF Places
<1>3. Holds'
  BY DEF Holds, TaskAtHand, InError
<1>4. Errors'
  BY Silence DEF Errors
<1>5. Reports'
  BY Silence, First DEF Reports, InError, Unsettled
<1>6. QED
  BY <1>1, <1>2, <1>3, <1>4, <1>5

LEMMA CancelReadRefKeeps ==
  ASSUME IInv, CancelReadRef
  PROVE  IInv'
<1> USE AsyncOperationAssumption DEF IInv, CancelReadRef, threadVars
<1>1. TypeOK'
  BY DEF TypeOK
<1>2. Places'
  BY DEF Places
<1>3. Holds'
  BY DEF Holds, TaskAtHand, InError
<1>4. Errors'
  BY Silence DEF Errors
<1>5. Reports'
  BY Silence, First DEF Reports, InError, Unsettled
<1>6. QED
  BY <1>1, <1>2, <1>3, <1>4, <1>5

LEMMA CancelTaskKeeps ==
  ASSUME IInv, CancelTask
  PROVE  IInv'
<1> USE AsyncOperationAssumption DEF IInv, CancelTask, threadVars
<1>1. TypeOK'
  BY DEF TypeOK, TaskEnd
<1>2. Places'
  BY DEF Places
<1>3. Holds'
  BY DEF Holds, TaskAtHand, InError
<1>4. Errors'
  BY Silence DEF Errors
<1>5. Reports'
  BY Silence, First DEF TypeOK, Reports, InError, Unsettled
<1>6. QED
  BY <1>1, <1>2, <1>3, <1>4, <1>5

LEMMA CancelSetStateKeeps ==
  ASSUME IInv, CancelSetState
  PROVE  IInv'
<1> USE AsyncOperationAssumption DEF IInv, CancelSetState, threadVars
<1>0. /\ state' = "Cancelled"
      /\ signals' \in Seq(Terminal)
      /\ Emitted' \subseteq Emitted \cup {"Cancelled"}
      /\ signals # <<>> => signals' # <<>> /\ \A r : FirstIs(r)' <=> FirstIs(r)
      /\ state # "Cancelled" /\ signals = <<>> =>
           signals' # <<>> /\ FirstIs("Cancelled")' /\ \A r : FirstIs(r)' => r = "Cancelled"
      /\ state = "Cancelled" => signals' = signals
  BY Report DEF States, Terminal
<1>1. TypeOK'
  BY <1>0 DEF TypeOK, States, Terminal
<1>2. Places'
  BY <1>0 DEF Places
<1>3. Holds'
  BY <1>0 DEF Holds, TaskAtHand, InError
<1>4. Errors'
  BY <1>0 DEF Errors
<1>5. Reports'
  BY <1>0, First DEF Reports, InError, Unsettled, Terminal
<1>6. QED
  BY <1>1, <1>2, <1>3, <1>4, <1>5

\* The connection and the server.
LEMMA LoseSessionKeeps ==
  ASSUME IInv, LoseSession
  PROVE  IInv'
<1> USE AsyncOperationAssumption DEF IInv, LoseSession, threadVars
<1>1. TypeOK'
  <2>1. online' \in BOOLEAN
    OBVIOUS
  <2>2. QED
    BY <2>1 DEF TypeOK
<1>2. Places'
  BY DEF Places
<1>3. Holds'
  BY DEF Holds, TaskAtHand, InError
<1>4. Errors'
  BY Silence DEF Errors
<1>5. Reports'
  BY Silence, First DEF Reports, InError, Unsettled
<1>6. QED
  BY <1>1, <1>2, <1>3, <1>4, <1>5

LEMMA TaskEndsKeeps ==
  ASSUME IInv, NEW i \in TaskIds, TaskEnds(i)
  PROVE  IInv'
<1> USE AsyncOperationAssumption DEF IInv, TaskEnds, threadVars
<1>1. TypeOK'
  BY DEF TypeOK
<1>2. Places'
  BY DEF Places
<1>3. Holds'
  BY DEF Holds, TaskAtHand, InError
<1>4. Errors'
  BY Silence DEF Errors
<1>5. Reports'
  BY Silence, First DEF Reports, InError, Unsettled
<1>6. QED
  BY <1>1, <1>2, <1>3, <1>4, <1>5

LEMMA TaskForgottenKeeps ==
  ASSUME IInv, NEW i \in TaskIds, TaskForgotten(i)
  PROVE  IInv'
<1> USE AsyncOperationAssumption DEF IInv, TaskForgotten, threadVars
<1>1. TypeOK'
  BY DEF TypeOK
<1>2. Places'
  BY DEF Places
<1>3. Holds'
  BY DEF Holds, TaskAtHand, InError
<1>4. Errors'
  BY Silence DEF Errors
<1>5. Reports'
  BY Silence, First DEF Reports, InError, Unsettled
<1>6. QED
  BY <1>1, <1>2, <1>3, <1>4, <1>5

\* Every step keeps the invariant.
LEMMA StepKeeps == IInv /\ [Next]_vars => IInv'
<1> SUFFICES ASSUME IInv, [Next]_vars PROVE IInv'
  OBVIOUS
<1>1. ASSUME NEW b \in BOOLEAN, RunAsync(b) PROVE IInv'
  BY <1>1, RunAsyncKeeps
<1>2. ASSUME NEW b \in BOOLEAN, RunSync(b) PROVE IInv'
  BY <1>2, RunSyncKeeps
<1>3. CASE HaveSession
  BY <1>3, HaveSessionKeeps
<1>4. CASE NoSession
  BY <1>4, NoSessionKeeps
<1>5. CASE RecordError
  BY <1>5, RecordErrorKeeps
<1>6. CASE FailOnError
  BY <1>6, FailOnErrorKeeps
<1>7. ASSUME NEW i \in TaskIds, NEW sup \in BOOLEAN, StartTask(i, sup) PROVE IInv'
  BY <1>7, StartTaskKeeps
<1>8. CASE BodySetsError
  BY <1>8, BodySetsErrorKeeps
<1>9. CASE BodyThrows
  BY <1>9, BodyThrowsKeeps
<1>10. CASE BodyReturns
  BY <1>10, BodyReturnsKeeps
<1>11. CASE PollOffline
  BY <1>11, PollOfflineKeeps
<1>12. CASE PollNoRecord
  BY <1>12, PollNoRecordKeeps
<1>13. CASE PollSuccess
  BY <1>13, PollSuccessKeeps
<1>14. CASE PollFailure
  BY <1>14, PollFailureKeeps
<1>15. CASE PollCancelled
  BY <1>15, PollCancelledKeeps
<1>16. CASE DestroyTask
  BY <1>16, DestroyTaskKeeps
<1>17. CASE RunReturned
  BY <1>17, RunReturnedKeeps
<1>18. CASE Caught
  BY <1>18, CaughtKeeps
<1>19. CASE GiveUp
  BY <1>19, GiveUpKeeps
<1>20. CASE Cleanup
  BY <1>20, CleanupKeeps
<1>21. CASE Cancel
  BY <1>21, CancelKeeps
<1>22. CASE CancelReadRef
  BY <1>22, CancelReadRefKeeps
<1>23. CASE CancelTask
  BY <1>23, CancelTaskKeeps
<1>24. CASE CancelSetState
  BY <1>24, CancelSetStateKeeps
<1>25. CASE LoseSession
  BY <1>25, LoseSessionKeeps
<1>26. ASSUME NEW i \in TaskIds, TaskEnds(i) PROVE IInv'
  BY <1>26, TaskEndsKeeps
<1>27. ASSUME NEW i \in TaskIds, TaskForgotten(i) PROVE IInv'
  BY <1>27, TaskForgottenKeeps
<1>28. CASE UNCHANGED vars
  BY <1>28 DEF vars, threadVars, IInv, TypeOK, Places, Holds, Errors, Reports, TaskAtHand,
       InError, Unsettled, Emitted, FirstIs
<1>29. QED
  BY <1>1, <1>2, <1>3, <1>4, <1>5, <1>6, <1>7, <1>8, <1>9, <1>10, <1>11, <1>12, <1>13, <1>14,
       <1>15, <1>16, <1>17, <1>18, <1>19, <1>20, <1>21, <1>22, <1>23, <1>24, <1>25, <1>26,
       <1>27, <1>28 DEF Next, ThreadStep, CancelStep

\* The invariant of AsyncOperation: what has been reported follows the thread.
THEOREM Invariance == SafeSpec => []IInv
  BY InitIInv, StepKeeps, PTL DEF SafeSpec

\* setState, setError, Cancel() and the poll keep every variable of its type.
THEOREM TypeCorrect == SafeSpec => []TypeOK
<1>1. IInv => TypeOK
  BY DEF IInv
<1>2. QED
  BY <1>1, Invariance, PTL

\* However its thread ends, an operation has logged out the session it has duplicated
\* and has dropped the reference of its task (destroySession, destroyTask), however
\* many tasks it started and whenever Cancel(), an error or the loss of the session came.
THEOREM LeavesNothingBehind == SafeSpec => []NothingLeftBehind
<1>1. IInv => NothingLeftBehind
  BY DEF IInv, Holds, NothingLeftBehind, TaskAtHand, InError, PollPcs
<1>2. QED
  BY <1>1, Invariance, PTL

\* failed() comes only with a message, and completed() only without one unless run()
\* claims its completion itself, in whatever order the thread and Cancel() set the state.
THEOREM ReportsAreTrue == SafeSpec => []ReportsMatchError
<1>1. IInv => ReportsMatchError
  BY DEF IInv, Errors, ReportsMatchError
<1>2. QED
  BY <1>1, Invariance, PTL

\* An operation whose first report is completed(), and which lost no answer, has none of
\* its tasks pending or cancelled, however many it started.
THEOREM CompletedIsDone == SafeSpec => []CompletedMeansTasksDone
<1>1. ASSUME IInv PROVE CompletedMeansTasksDone
  <2> SUFFICES ASSUME FirstIs("Completed"), lost = 0, NEW i \in Started
               PROVE  ~Unsettled(i)
    BY DEF CompletedMeansTasksDone, FirstIs, Unsettled
  <2>1. ~FirstIs("Cancelled") /\ ~FirstIs("Failed")
    BY DEF FirstIs
  <2>2. pc \in {"runReturned", "cleanup", "returned"}
    BY <1>1 DEF IInv, Reports
  <2>3. QED
    BY <1>1, <2>1, <2>2 DEF IInv, Reports, InError, Started
<1>2. QED
  BY <1>1, Invariance, PTL
===============================================================================
