# TLA+ models of XenAdminQt

XenAdminQt is a Qt client that administers XenServer pools. Its own logic is a
small set of concurrent parts: worker threads that share queues with the main
thread, operations that poll tasks on a server, and a connection that is begun,
lost, searched for and ended by several threads. The modules here model those
parts, TLC checks them on small instances, and TLAPS proves the central facts
for every value of the constants. Paths below are relative to `src/src/xenlib`
unless they begin with `xenadmin-ui`.

## 1. The system

### Components

| Component | State | Operations | What must hold |
|---|---|---|---|
| **ProducerConsumerQueue** (`operations/producerconsumerqueue.*`) | task FIFO, `m_stopping`, worker threads in a wait condition | `EnqueueTask`, `StopWorkers`, `CancelWorkers`, the loop of each worker | no wake-up is lost, a task runs at most once, a graceful stop drains the queue, the join in the destructor ends |
| **AsyncOperation** (`xen/asyncoperation.*`) | state, error, session, task reference | `RunAsync`, `RunSync`, `Cancel`, `setError`, `pollToCompletion`, clean-up | errors are neither lost nor hidden behind a success, no session or task reference stays behind, an operation ends |
| **MultipleAction / ParallelAction** (`operations/*action.*`, launcher) | the list of sub-operations, per-connection queues, count of `completed()` | `run`, `onCancel`, `onMultipleOperationCompleted`, `onOperationCompleted` | success means all succeeded, the wait is neither missed nor left early, width per connection |
| **ConnectionWorker** (`xen/network/connectionworker.*`) | socket, pending and completed queue, stop flag | `QueueRequest`, `WaitForResponse`, `RequestStop`, the socket loop | a request is neither lost nor doubled, answers reach the request they belong to, the thread ends |
| **XenConnection** (`xen/network/connection.*`, `connecttask.h`, `xenadmin-ui/network/xenconnectionui.cpp`) | `connectTask`, connect thread, `eventPoller` and its thread, reconnection timer, search for the coordinator | `BeginConnect`, `EndConnect`, `Interrupt`, `connectWorkerThread`, `handleConnectionLostNewFlow`, the two reconnection timers, the dialog | an ended connection is not taken up again, what was loaded stays, a loss is retried, no poller stays behind |
| **EventPoller** (`xen/eventpoller.*`) | session, errors in a row, poll timer, token | `Reset`, `Initialize`, `Start`, `Stop`, `pollEvents` | it polls with the session of its connection and ends with it |
| **XenCache** (`xencache.*`) | records and objects per type, one mutex | `Update`, `Remove`, `Clear`, `ResolveObject`, each of several sections under the mutex | holders share one object per reference, it is refreshed, that of a removed record is marked evicted for good |
| **Events: token, queue, updater** (`connection.cpp`) | token of the first `event.from`, `eventQueue`, 50 ms timer | `onEventPollerEventReceived`, `onCacheUpdateTimer`, `fetchObjectRecord` | the cache follows the server's objects, never steps back, misses nothing and converges |
| **OperationManager, MeddlingActionManager** (`operations/operationmanager.*`, `xen/actions/meddlingaction*`) | records, lookup by address; tasks that are monitored, tasks that wait | `RegisterOperation`, updates, `RemoveRecord`; `rehydrateTasks`, `handleTaskAdded/Updated/Removed` | a live operation has one record and it shows its end; a task of others is monitored by one operation, which ends with it |
| Session (`xen/session.*`) | token, owner flag | `Login`, `Logout`, `DuplicateSession` | who logs in logs out |
| Heartbeat, ConnectionsManager (`xen/network/`) | retry flag; registry of connections | ping; add, remove, failover | a dead coordinator is noticed |
| MetricUpdater, JSON-RPC, XenAPI bindings, ~110 actions, pool join rules, OVF/XVA, alerts, folders, search, the widgets and consoles | | | mostly I/O, formats, views |

### How they interact

A user action is an `AsyncOperation` on a thread of `QThreadPool`. It duplicates
the session of its `XenConnection`, calls the server and polls its tasks; the
main thread hears of it through queued signals and may call `Cancel()` at any
time. A `ParallelAction` runs several operations on the workers of a
`ProducerConsumerQueue` per connection. A `XenConnection` owns a connect thread
for each attempt and, once connected, an `EventPoller` in a thread of its own,
which posts events and losses to the main thread. The transport of a helper
connection (that of an action's session, that of the poller's) is a
`ConnectionWorker` thread with a request queue. Fields of a `XenConnection`
(`connectTask`, `eventPoller`, `cacheIsPopulated`) are shared by all these
threads without a lock. What a poller emits goes through `eventQueue` and a timer
into `XenCache`, whose objects the main thread, the connect thread and the threads of
operations resolve and hold; events of tasks go to the `MeddlingActionManager`, which
makes operations of them. Every operation registers itself with the `OperationManager`.

### What is hard

Wake-ups and stops of the worker pool; `Cancel()` that tests a state, blocks in
a call and then overwrites it; answers that are lost or late; a connect thread
and a poller thread that go on after the main thread has ended the connection;
posted handlers that arrive after the state they are about; timers that are the
only thing that keeps a search going; a token that decides which events come, and
answers to it that are lost or belong to a session that is over; objects that are
refreshed and evicted in other sections than their records; addresses of deleted
operations that are given again. `PROJECT.json` lists each hazard at its
line with the properties that cover it.

## 2. Modules

| Module | Models | Grain of a step |
|---|---|---|
| `TaskPool` | abstract specification: what a caller relies on in a pool | submit, start, finish, discard |
| `ProducerConsumerQueue` | the queue and its workers | a section under `m_mutex` |
| `AsyncOperation` | one operation, its thread, `Cancel()`, up to `MaxTasks` server tasks | a section under `m_mutex`, or one XenAPI call |
| `MultipleAction` | the action, its sub-operations in sequence, both kinds of cancel | a `setState` or `setError` of one operation; the test of a `Cancel()`, what it sets |
| `ParallelAction` | extends it by the queues and their workers (each a `TaskPool`), the count and the wait | as above; one closure step |
| `ConnectionWorker` | the socket thread and the callers that wait for it | a section under `m_requestMutex`, one write, one read |
| `XenConnection` | attempts, pollers, loss, timers, dialog | one handler of the main thread; other threads: the code between two looks at a shared field |
| `Mirror` | abstract specification: what a copy fed by events promises | a change on the server, a refresh of the copy, dropping it |
| `CacheFeed` | loading a session, its poller's answers, the queue, the timer, the updater, against the server's changes | one handler of the main thread, one event of the updater, one call of another thread |
| `XenCache` | records and objects under concurrent writers and readers | a section under `m_mutex`, one `evict()` or `refresh()` outside it |
| `OperationHistory` | records and lookup; monitored tasks; the tasks of own operations | one posted event; one task record of a rehydration; one XenAPI call |
| `ProducerConsumerQueueProofs`, `AsyncOperationProofs`, `ParallelActionProofs`, `ConnectionWorkerProofs`, `XenConnectionProofs`, `XenCacheProofs`, `CacheFeedProofs`, `OperationHistoryProofs` | theorems | |

`MC*` modules only give the constants of the TLC instances. Definitions that
begin with "a mistaken ..." in a comment belong to no next-state relation: each
is a plausible bug that breaks one property.

### ProducerConsumerQueue

`taskQueue`, `stopping` are the fields; `pc` says whether a worker is on its way
to the mutex ("awake"), in the wait condition ("waiting"), in a task or gone.
Exit is asked for by null tasks in the queue itself: `BeginStop` is the locked
block that sets `m_stopping`, `EnqueueNull` one turn of the loop that follows it
(each with its own lock, so other calls come between), `Joined` the waits for
the threads. `CancelWorkers` is the locked block that clears the queue, after
which it goes through `BeginStop` like any other. `SpuriousWake` over-approximates
`QWaitCondition`: the loop in `run()` tests its condition again and needs no
guarantee. `PoolSpec` maps the queue to `TaskPool`.

### AsyncOperation

`pc` is the thread that executes `run()`, `cancel` the `Cancel()` call of the
main thread, `task` the server's tasks. `setError` is two steps (`RecordError`
under the lock, `FailOnError` after it) and `Cancel()` four, as in the code.
What subclasses do in `run()` is nondeterministic: start a task and poll it, set an
error, throw, return; `claims` says that this subclass reports `Completed`
itself. A lost answer (`lost`) and a task the server has forgotten are one case
for the code, and two in the model. `signals` is the history of terminal signals.
`session = "owned"` is the duplicate session an operation must log out.

### MultipleAction and ParallelAction

The configuration (parallel or not, stop at the first error, with or without a
connection) is chosen in `ActionInit`. The action uses the session it is given or
duplicates its connection's, which may fail (`Session`): then it has failed, and `run()`
is not reached. A sequential action runs its sub-operations in its own thread
(`TestCancelled`..`Inspect`); a parallel one creates a queue per connection with
`min(width, number of its operations)` workers (`CreateQueue`, `idle`), enqueues
closures, and its wait is woken by `onOperationCompleted` on the main thread. `width` is
any member of `Widths`, 0 included: nothing in the constructor excludes it. That wait is
an `if`, not a loop, so the model has no spurious wake-up there: Qt filters them on the
platforms it waits with a condition variable on. `onMultipleOperationCompleted` also
calls `StopWorkers(false)`: at the grain of `TaskPool` that changes nothing.
`PoolPerConnection` states that the workers that are created make of each connection's
closures a `TaskPool` of that width.

A sub-operation is an `AsyncOperation` at a coarser grain, and keeps what matters of it
to the action: `Cancel()` looks at its state (`Visit`, `UserCancelsSub`), calls the
server, and then sets `Cancelled` whatever has become of it (`CancelSets`), so one that
has completed meanwhile may become cancelled after its `completed()`; a `run()` may set
`Completed` itself, over a cancel or an error (`SubClaims`), and throw afterwards; an
error of one that is not `Running` any more leaves its state (`SubEnds`). `reported` is
the history of who has emitted `completed()`, which is what the parallel action counts.
So `SuccessIsComplete` does not say that no sub-operation is `Cancelled` when the action
reports success: in the code one may be. It says, in parallel, that each one counted had
emitted its own `completed()` and none shows a failure, and in sequence that all have
come to an end without an error.

### ConnectionWorker

`pending` and `completed` are the queues, `working` and `phase` the request in
`sendRequestSync`, `server` and `inbuf` what is on the wire. Waits, reads and
writes may time out at any time; `late` counts the ones given up on while the
answer was still to come. What a read hands out is `Whole`, a `Piece` or nothing: a
pause may cut an answer off, in its body or in its headers, and then what comes before
the next silence is the body, whichever answers it belongs to. What the pause leaves in
the socket is `rest`, in front of `inbuf`. The next read skips it line by line as if it
were headers (`Read`), or gives up on the headers first and takes it, with what follows,
for its body (`ReadRest`, which counts as a late answer). That a rest is skipped up to the
next answer's header rests on an assumption about the server, that its bodies hold no
empty line: they are JSON on one line. TLS verification, HTTP syntax, and what the owner
does after its 5 s wait with `terminate()` are left out.

### XenConnection

`task` is `connectTask` (`set` for a non-null pointer), `thread` the connect
thread, `poller` the field `eventPoller` (0 for null), `pollers` all `EventPoller`
objects with the job posted to each, `mainq` what is posted to the main thread,
`cache` and `eventQueue` whose data they hold (attempt numbers stand for
sessions). `EndConnect` is an operator that the handlers share: the user's
disconnect, the dialog after a failure, the loss of the connection. Assumptions of
the model:

- the user acts when the posted queue is empty and no modal question is open; an
  unlimited amount of time may pass before that, so this excludes no order of
  thread steps, only a click overtaking an event that is already posted;
- reconnection timers take 15 s or more: they fire when nothing is posted. The connect
  thread of an attempt that was ended may still be logging in by then (its calls take
  minutes): `BeginConnect` returns at once, and a timer that does not repeat is used up
  (`BeginOnTimer`, `closed = "missed"`). `Redirect` (the user follows the dialog to the
  coordinator) ends the connection and meets the same early return (`closed = "user"`);
- the emission of `ConnectionResult` and the end of the connect thread are one
  step;
- the poller takes no second posted job inside the nested loop of `Initialize`;
- using the field `eventPoller` when it is null or another poller's, or
  `connectTask` when it is null, is fatal: `crashed` is set and nothing follows;
- only the main thread calls `EndConnect` (one action, `ShutdownHostAction`, does it
  from its own thread: planned).

`closed`, `loaded` and `crashed` are history. `Interrupt` is what actions call that
restart the toolstack.

### CacheFeed and Mirror

The server is `log`, the sequence of changes of its objects; a token is a position in
it, an event the number of the change it tells of. `Since` is `event.from`: the last
change of each object after a token, or all objects when there is none. The server may
have objects before anybody connects, at most as many as it may make changes. `Load`,
`LoadConsoles` and `Launch` are the connect thread, with the token that is handed to
the poller; `ServerAnswers`, `Emit`, `AnswerLost` and `Retry` the poller; `HandleEvents`,
`OnCacheUpdateTimer`, `Apply` and `Fetch` the main thread. Events of `Bare` classes come
without the record, which is fetched when they are applied and is then newer than the
events behind it, or missing. The refinement mapping to `Mirror` shows what the cache
*vouches for*: while a session is connected, every object but those last written by
something its token does not cover (an answer to a poller of the session before,
`uncovered`) and those whose fetch failed (`unread`). A poll fails at any time, also with an answer on its way
(`AnswerLost`); 30 s without an event end it with a success, which clears the count of
errors (`ServerIsSilent`). Both exclusions are what the code
does: `onEventPollerEventReceived` (`connection.cpp:676`) does not ask which poller an
event is from, although `xencache.h:47` promises a cache "kept up-to-date via events",
so an object that was deleted in between may stay in the cache until the connection
ends.

### XenCache

`records`, `known` and `version` are `m_cache`, `objects` is `m_objects`; `refOf`,
`evicted` and `told` belong to the objects, which callers keep after the cache has
dropped them. `pc[t]` says what a thread has still to do outside the mutex: refresh the
object it has looked up, resolve the one its signal is about, evict the ones of the
records it has removed. One type of object is enough: no section touches two.

### OperationHistory

`ops` are the operations in the order of construction: own ones, with a `step` for
their thread, and MeddlingActions (`step = "none"`), which have none. `lookup` is keyed by
address: `Free` gives a new operation the address of a deleted one or a fresh one, as an
allocator does, and `RegisterOperation` takes an address it has for registered. `mainq`
holds the posted task events and the queued signals of own operations; signals of
MeddlingActions are direct. `todo` are the records a rehydration has fetched and not yet
categorized: the main thread does nothing else meanwhile, other threads do. A task's
end may reach the program as its deletion only, since `event.from` tells the last change.
`CancelOperation` and `CancelSets` are the two halves of `Cancel()` on the main thread,
which handles nothing else meanwhile. Its `stateChanged` is direct, so the record takes
`Cancelled` before the signals that the operation's thread has posted, and these are handled
afterwards: a record may end as `Completed` or `Failed` when the operation is `Cancelled`.
`overtaken` is the history of the operations this has happened to, for which
`EndIsRecorded` claims only that the record comes to show some end. MeddlingActions
are not cancelled in the model: theirs is possible only for a task tagged with the UUID of
this program itself, and for such a task none is made (`Unwanted`).

## 3. Runs

| Run | Instance | What it shows |
|---|---|---|
| `queue` | 2 workers, 2 tasks, 2 threads that stop or cancel | work conservation, graceful stop, termination of every stop, refinement of `TaskPool` |
| `operation` | 2 tasks, 1 lost answer | a failure has its message, nothing stays behind, no error behind a success when `run()` leaves success to the base class, no task pending behind a success, the end |
| `operation_lost_answer` | same | **violated**: a lost answer counts as the end of the task |
| `parallel` | 3 sub-operations on 2 connections, width 0 or 2, all configurations | success means that each sub-operation has reported its own and none has failed, a first error or a cancel stops the rest, width per connection with the workers created, the end (so no last `completed()` is missed, and no closure is left without a worker unless the width is 0) |
| `parallel_wait` | same | **violated**: the wait for `completed()` of a sub-operation that has failed or was cancelled never ends |
| `worker` | 3 requests, 1 late answer, any answer cut off | one place per request, answers match until one is late, also after one that was cut off, none is used twice but a cut-off one in pieces and in order, no request and no stop hangs |
| `connection` | 2 attempts, 1 batch of events, 2 hosts, 2 errors in a row | ended stays ended, loaded stays loaded, the poller has the session of its connection, pollers end, a loss is retried unless the timer is used up |
| `connection_search` | same | **violated**: the search for a coordinator ends with the first unreachable member |
| `feed` | 2 objects (one a console whose events are bare), 3 changes, 2 sessions, 2 errors in a row | refinement of `Mirror`, nothing is missed, convergence, the limit of errors |
| `cache` | 3 threads, 2 references, 4 objects, 3 updates, symmetric | stale objects are marked, holders share one object, eviction is final, objects are fresh |
| `history` | 2 tasks (own and other), 1 session, 1 toggle, 2 of tasks and toggles together, 2 posted events | records are found and show the end, also of an operation cancelled while it ends, a task is monitored once and its monitor ends |
| `history_own_task` | same | **violated**: a task that an own operation has tagged is taken for another client's |

Each violated property quotes, in `PROJECT.json`, the comment or text of the
repository that it states. Deadlock is not checked: every system here may stop
when nobody asks for anything more, and what must not stop is stated as liveness.

Other flaws of the code are steps of the models without a run of their own; their
hazards say so: a read that times out keeps the socket, so each later request gets its
predecessor's answer, and the rest of a cut-off answer may become the body of a later
one (`AnswersMatch` holds until then); `EndConnect` leaves the thread of
a poller that is being started with a null pointer (`crashed`); an attempt ended while
it loads sets up a poller afterwards; a late `Cancel()` lets a `run()` that reports
`Completed` itself hide an error (`claims`); an action reports success over a
sub-operation that a late `Cancel()` has set to `Cancelled` (`SuccessIsComplete`); a
parallel action of width 0 waits for closures that no worker takes (`Ends`); a
reconnection timer goes off while the thread of an ended attempt is still logging in,
`BeginConnect` returns (`connection.cpp:383`) and nothing arms another (`missed`); events
of the poller of a session that has ended are applied to the cache of the next
(`connection.cpp:676`, `uncovered`); a posted `Completed` overwrites the `Cancelled` that
has overtaken it in the record (`overtaken`); an operation at the address of a deleted one is not recorded
(`RegisterOperation`); a rehydration makes a second MeddlingAction for a task that has one
(`again`).

**Bounds.** Two workers are the least number with which a wake-up can go to the
wrong one, two tasks the least that one worker can delay for the other, two
callers are those the program has (the completion handler and the destructor).
Two server tasks: the second shows what the first left behind. Three
sub-operations: two share a connection of width 2 and compete with the thread that
cancels, the third is on another. Three requests: one given up on, one that
receives the late answer, one that queues behind both. Two attempts: everything
stale in a `XenConnection` belongs to the attempt before. `MAX_CONSECUTIVE_ERRORS`
is 3 in the code; 2 already has an error that is forgiven and one that is not.
`MaxEvents = 1`: one batch on its way is enough to come too late. `feed`: three
changes are a creation, a change and a deletion of one object, or two of one and one of
the other; two sessions let an answer of the first reach the second. `cache`: three
threads, so that one can remove and one resolve between two sections of a third; three
updates store a record, renew it and bring it back after its removal. `history`:
`MaxQueue = 2` lets one event wait behind another; with one toggle every task can be
found by a rehydration twice, at the connect and at the toggle; `MaxBegun = 2` lets both
tasks begin, or one and the toggle; eight addresses are more than the operations of any
behaviour. The largest runs have 856,000 (`feed`), 706,000 (`history`), 431,000
(`connection`), 288,000 (`parallel`) and 249,000 (`worker`) distinct states.

**Fairness.** Threads that can run do; a `Cancel()` that has begun goes on; the
main loop handles what is posted; timers that are armed fire; calls to the server
end, by its answer or a timeout; in `AsyncOperation` the server ends its tasks
(the poll has no deadline of its own) and in `ConnectionWorker` a server that is
still connected answers. In `CacheFeed` only the poller, the main thread and the connect thread
are fair; in `OperationHistory` the main thread and the threads of own operations: the
server owes no change and no end of a task. The user owes nothing: nobody must start,
submit, cancel, stop or answer a question. All fairness is weak.

## 4. Proofs

All theorems are about `SafeSpec == Init /\ [][Next]_vars` and assume only the
named assumptions on the constants in the modules.

*ProducerConsumerQueueProofs* (assumes a finite, non-empty set of workers and a null
task that is no task; any tasks and callers).

- `TypeCorrect`: `TypeOK` is not inductive, a finished task is a task only because
  running workers hold tasks; `TypeInv == TypeOK /\ RunsTask` is.
- `ImplementsTaskPool`: `PlaceInv` says that a task is at one place (queue,
  worker, done, dropped), once; every step then maps to a step of `TaskPool` or to
  a stutter.
- `AlwaysWorkConserving`: inductive on top of typing. `wakeOne` adds an awake worker
  for the element it adds, an awake worker that leaves takes one.
- `StopIsGraceful`: `StopInv` says that no early task is behind a null task, and
  that a worker exits only when no early task is left in the queue.

*ParallelActionProofs* (assumes at least one sub-operation and a natural width; any
connections).

- `TypeCorrect`: `Count`, the counter is the number of sub-operations that have emitted
  `completed()` and for which it is handled. So the wait is left for the rest of `run()`
  only when all that are counted have emitted it (`SuccessIsAlwaysComplete`), whatever
  `Cancel()` has set in the meantime; in sequence `Behind` says that an action without an
  error has only sub-operations without one behind it.
- `AlwaysStartsNoMore`: `Late`, what a cancel has overtaken is among the closures at
  work, and `Closures` bounds those by the width; `Stops` for the first error.
- `EachConnectionHasAPool`: `Workers`, the free workers of a queue and the closures at
  work are together as many as `CreateQueue` has made, which is at most the width; so a
  worker that takes a closure leaves the pool within its width. Sub-operations of one
  connection have one group, so each step of a closure is a step of that group's
  `TaskPool` and a stutter of the others.

*ConnectionWorkerProofs* (assumes natural bounds and that an empty answer is no
answer; any number of requests and late answers).

- `TypeCorrect`: with `Busy`, that the phases which use a request have one.
- `AlwaysSentInOrder`: `OrderInv`, ids are given out without a gap, the pending ones
  are increasing and above all that were sent.
- `AlwaysInOnePlace`: `PlaceInv`, completed entries have different ids, and a request
  is somewhere in the worker exactly until its caller is answered.
- `AlwaysAnswersMatch`: `FreshInv`, until an answer is late the wire holds at most
  the answer to the request being read, behind at most the rest of an earlier one.
- `AlwaysHandedOnce`: `WireInv` and `HandInv`, what is on the wire is increasing, at
  most the request being sent, and above the rest in front of it; what was handed out is
  not above that rest.

*AsyncOperationProofs* (assumes natural bounds; any number of tasks and lost answers).

- `TypeCorrect`: inductive with the places of the two threads.
- `LeavesNothingBehind`, `ReportsAreTrue`, `CompletedIsDone`: one invariant ties what
  was reported to where the thread is. `Places` says which state each place of `run()`
  and `Cancel()` goes with, `Errors` that an error recorded while the operation is
  Running is on its way to Failed, `Reports` that the first report decides and that until
  then only the task being polled is unsettled, `Holds` that a task reference and a
  duplicated session are held only at places that still give them back.

*XenConnectionProofs* (assumes a positive number of attempts, of members and of
errors that are tolerated).

- `AlwaysEnded`, `AlwaysLoaded`: `Signals`, an attempt begins when nothing is posted,
  so no clearing of the cache is on its way while an attempt is there; `Attempt` and
  `Loaded` say whose data the cache can hold at each place of the connect thread. A timer
  that is used up changes none of this (`SearchingKeeps`).
- `PollerAlwaysHasSession`: `Current`, the poller in the field is not told to quit,
  and `Served`, the last session posted to it is that of the connection.
- `TypeCorrect`: a poller's count of errors stays within its bound only because a
  working poller has errors to spare (`Working`).

*XenCacheProofs* (assumes that `NoRef` and `NoObject` are none of the references and
objects; any number of threads, references, objects and updates).

- `TypesOK`: typing, with the objects that threads hold.
- `StaleObjectsAreMarked`: an object without its record is marked or some thread is
  about to mark it.
- `ObjectIsUnique`, `ObjectsAreFresh`, `EvictionIsFinal`: from an invariant that says
  where an object that is not marked can be: in `m_objects` under its reference, or in
  the hands of the thread that evicts it.

*CacheFeedProofs* (assumes a finite set of objects, a natural number of changes, and at
least one attempt and one tolerated error).

- `FeedIsComplete`: the inductive invariant `IInv`. What is on its way to the cache is one
  sequence, `Stream == updating \o eventQueue \o InMainq`: what the updater holds, the
  queue behind the timer, what is posted. `FeedInv` says of the batches in it that are of
  the connected session: they come in the order of their tokens (`Ordered`); they lie
  between the token that is applied and the one the poller asks from, and none reaches
  back behind another (`Between`); what changed from one of these tokens to the next is
  told by one of them (`NoneLeftOut`); what none tells the cache shows (`Shown`); and the
  poller works for the session, or will when it has taken its last job (`Serves`).
  `Answers` carries this through the poller: an answer it holds is what changed between
  its own token and the answer's. `Attempt`, `Generations` and `Loading` say of which
  attempt the batches, jobs and data can be; what a batch of a session before writes is
  not vouched for (`uncovered`).
- `NothingIsEverMissed`: from `Shown`, with `Between` for what the poller has yet to ask.
- `ImplementsMirror`: under the refinement mapping each step is a change on the server, a
  refresh of the copy, dropping it, or a stutter. The applying of an event needs the whole of
  `IInv`: what it stores is no older than what the copy vouched for, and what the copy
  vouches for afterwards is what the token behind it covers.
- `TypeCorrect`: with a working poller having errors to spare and a session, as in
  `XenConnection`.
- `Mirror` takes the last change of an object as `Max`, which the community modules define
  by `CHOOSE`; `HasMax` shows that a non-empty, bounded set of numbers has one, from the
  well-foundedness of `<` on `Nat`.

*OperationHistoryProofs* (assumes a finite set of tasks that has the own and the
recognized ones; any addresses and natural bounds).

- `RecordIsAlwaysFound`: `Apart`, operations that are alive have different addresses
  (`Free`), so registering a new one never takes the address of another's record.
- `EndIsAlwaysRecorded`: `WillShow` is what a record shows once all that is posted is
  handled, the last signal for it or else what it shows now. `Recorded` says that this is
  the state of the operation, or another end where a `Cancelled` has overtaken one. It
  holds over every step because a state and its signal go together, a signal is for the
  only record of its operation (`Signals`), and what `CancelSets` writes to the record at
  once is either its last word or in front of a signal that was posted (`Cancels`).
- `TypeCorrect`: `Monitors`, a tracked task has a MeddlingAction of its own that runs; no
  signal of a MeddlingAction is posted, the record follows at once.
- `MonitoredOnceAlways`: a second invariant, `OnceInv`. `Told`, the beginning of a task is
  told of once; `Unknown`, a task that has not begun is known to nobody; `Starters`, an own
  task is begun by one operation, once; `Once`, a task that waits or whose beginning is
  still posted has no monitor. So whoever categorizes a task finds it without a monitor,
  but for a rehydration, which does not look (`again`).

So each safety property that a passing run checks is a theorem. TLC alone checks the
liveness properties (`StopTerminates`, `Ends`, `NothingHangs`, `PollersEnd`,
`LostIsRetried`, `Converges`, `MonitorEnds`), which TLAPS cannot prove under fairness.
No module uses a RECURSIVE operator, and no proof an induction theorem that takes an
operator.

## 5. Not modelled

The map covers a small share of the repository's lines, and a large one is out of
reach: of about 227,000 lines some 170,000 are widgets, dialogs, wizards, painting and
texts of `xenadmin-ui`, and most of the rest are one-to-one bindings of the XenAPI, file
formats, vendored code and about 110 actions that are straight sequences of calls. What
has state shared by threads or ordered by messages is the list above.

- Sessions that are logged in and never out, and `EndConnect` from a second thread
  (`ShutdownHostAction`): an extension of `XenConnection`, see the plan.
- The number of poll chains of an `EventPoller`, and how often its timer is restarted:
  the models have no clock.
- `UpdateBulk` and `ClearType` of `XenCache` (no caller); its signals' receivers.
- Heartbeat and the failover of `ConnectionsManager`: both wait for `Connected` of
  a registered connection. Only the transport inside a helper connection emits that
  signal, the flow of `BeginConnect` does not, so in this program they never run.
- JSON, HTTP and TLS; the XenAPI bindings and the sequence of calls inside the
  actions; OVF, XVA and RRD files; alerts, folders, search; widgets and consoles:
  I/O, formats and views without a protocol of their own, apart from the consoles
  (below).

## 6. Plan

Done: the pool, the operation, the parallel action, the connection, its worker and its
poller, the feed of the cache, the cache, the history. What would come next:

1. `XenConnection` with `EndConnect` in two steps and a second caller, and the sessions
   it owns.
2. The consoles: `XSVNCScreen` starts connections in threads and drops their callbacks
   when they are stale.
3. Heartbeat and `ConnectionsManager`, last: they are code without a caller today.
