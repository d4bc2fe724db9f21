# A TLA+ development of tCerver

tCerver is a small HTTP server built on C++20 coroutines. The code is in `src/src`:
a blocking queue, a thread pool that resumes coroutines, an awaitable `Task`, an
epoll listener, the server that ties them together, and HTTP parsing on top.
This directory holds TLA+ modules translated from that code, the TLC models that
check them on small instances, and proofs checked by TLAPS.

Contents: 1 inventory, 2 plan, 3 modules, 4 runs and bounds, 5 fairness, 6 proofs,
7 what the checks found, 8 what is not modelled.

## 1. Inventory

| Component | State | Operations | Talks to |
|---|---|---|---|
| `MultiThreadQueue` (`MultiThreadQueue.hpp`) | ring `data_`, `size_`, `curr_size_`, `top_`, `tail_`; mutex `m_`, condition variable `cond_` | `push`, `pull`, `resize` | called by every thread of a `Scheduler` and by whoever enqueues |
| `Scheduler` (`Scheduler.hpp`) | `threads_`, `queue_`, `running_`, static `list_` | constructor, `thread_start`, `enqueue`/`await_suspend`, `SIGINT_HANDLER`, destructor | the queue; resumes coroutines |
| `Task` (`Task.hpp`) | promise: mutex `m`, `*result`, `*finished`, `others`, `scheduler` | `await_suspend`/`await_resume`, `final_suspend`, `yield_value`, `unhandled_exception` | enqueues waiting coroutines on a `Scheduler` |
| `EPoll` (`EPoll.cpp`) | epoll instance, shared socket table `socket_vec_`, shared mutex, `running_` | `wait` (the listener loop), `addSocket`, `delSocket`, `stop` | kernel, `Scheduler`, `TCPServer::handleRequest` |
| `TCPServer` (`TCPServer.cpp`) | listeners `epolls_`, pool `s_` of twice as many threads, `log_s_` of one | constructor, `serverStart`, `handleRequest`, `logRequest`, `SIGINT_HANDLER`, `serverStop` | all of the above, `HTTPUnit` |
| `HTTPUnit` (`HTTPUnit.cpp`) | `url_map_` | `bindUrl`, `parseRequest` and its helpers | `HTTPResponse`, `utilities` |
| `utilities` (`utilities.cpp`) | none | `incrementParse`, `readSocket`, `writeSocket`, `writeFileSocket`, `getFileExt` | sockets |
| `HTTPResponse`, `Logs`, `Exceptions` | plain data; a one-thread `Scheduler` per translation unit | page handlers, `LOG` | files, stderr |

What is hard about each, and what makes it correct:

* **Queue.** Notification after unlock, spurious wake-ups, wrap-around and doubling,
  and a `pull` that returns a reference which the caller reads without the lock.
  Correct: FIFO, no lost wake-up, every element taken, the reference good as long
  as it is used.
* **Scheduler.** Shutdown by a signal handler that runs on some thread of the
  process, inside a queue operation too. Correct: enough null handles for workers
  already committed to a pull, no null handle resumed, every worker ends, no handle is
  left behind without a signal, the queue outlives its calls.
* **Task.** The race of a `co_await` with the end of the awaited coroutine, wake-ups
  through a queue or inline with the mutex held, a frame destroyed while handles
  are registered in it. Correct: nobody lost, nobody resumed twice, the result
  there when it is read, every `co_await` returns.
* **EPoll.** Edge-triggered notification in several listeners, descriptors closed
  and reused under coroutines that still hold them, exceptions that end a listener.
* **TCPServer.** Two schedulers with different lifetimes, a log coroutine that reads
  objects the request coroutine deletes, a constructor that throws after threads
  were started, listeners that keep their workers for ever. Correct: every coroutine
  is in one queue or held by one worker, every request is answered and logged, lines
  of the log are whole, nothing is destroyed while a worker can use it.
* **HTTPUnit, HTTPResponse.** Parsing in place, terminators written into the string
  other pieces are views of, a view of a temporary, files that change between `stat`,
  `open` and `sendfile`. Correct: what is taken from a text is what its grammar says,
  views stay in the text and whole, a file that is there is served, its descriptor is
  closed.
* **utilities.** A one-pass string search, socket loops at end of file, on short reads
  and on partial sends. Correct: the first occurrence is found, the text read is the
  text sent, headers and file arrive once and in order.

The list of hazards, each at its line and with the properties that cover it, is in
`PROJECT.json`.

## 2. Plan

1. `FifoQueue`, `MultiThreadQueue` and the proofs about it. *(done)*
2. `Scheduler` on top of the concrete queue, the proof that every scheduler behaviour is
   a queue behaviour, so that the queue's theorems carry over, and the proofs of the
   scheduler's own invariants. *(done)*
3. `Task` on top of the abstract queue, the abstract event `OneShotEvent` that Tasks
   without yields implement, and the proofs of its invariants and of the refinement.
   *(done)*
4. `EPoll`: listeners, edge-triggered accept, the socket table against the kernel's
   descriptors, the request coroutine, and the proofs of its invariants. *(done,
   without `stop`)*
5. `CStrings`, `IncrementParse`: the string search as a loop, and its proof. *(done)*
6. `HTTPUnit`, `SocketIO`, and `RequestPath`, which composes them: one request from
   the first byte read to the last byte written, and the proofs of its invariants, in
   `RequestPathProofs` and, for what is parsed, `RequestViewsProofs`. *(done)*
7. `TCPServer`: the coroutines of all requests over both schedulers, construction,
   shutdown and destruction, and the proofs of its invariants. *(done)*

How the modules build on one another:

    FifoQueue  <-- refines -- MultiThreadQueue <-- extends -- Scheduler
    OneShotEvent <-- refines -- Task
    CStrings <-- IncrementParse <-- HTTPUnit <--+
    CStrings <-- SocketIO <---------------------+-- RequestPath
    Task, EPoll, TCPServer: on sequences, as FifoQueue has them

## 3. Modules

### `FifoQueue`
The abstract queue: `queue`, a sequence, and `out`, the element last handed to each
thread; `Enqueue` and `Dequeue`.

### `MultiThreadQueue`
One variable per field of the class, and per thread a place in `push` or `pull`
(`pc`). Steps are split where another thread can run:

| Step | Code |
|---|---|
| `PushLock`, `PushStore`, `PushUnlock`, `PushNotify` | `push` 61; 62-69 with `resize`; 70; 71 |
| `PullLock`, `PullWait`, `SpuriousWake`, `PullRelock` | `pull` 75 and the loop of `cond_.wait` in 76 |
| `PullTake`, `PullUnlock` | 77-79; the release on return, 80 |
| `PullCopy` | the caller's copy of the returned `T&` (`Scheduler.hpp` 66) |

`data_` is the array `data_` points to and `gen` says which array that is. A copy
through a reference to a deleted array is undefined: the model lets it yield any
element pushed so far, or `Garbage`. Each element of `Items` is pushed by one call
of `push`, which bounds the model and lets properties name elements. `taken` and
`room` are history: the element `pull` took, and how many pushes are left until one
writes to the slot it came from.

### `Scheduler`
EXTENDS `MultiThreadQueue`: every step of a queue call is that module's action.
`at` is a thread's place in the scheduler's own code (the constructor, the
destructor, `thread_start`, the handler). `SIGINT_HANDLER` is a thread of the model,
`Handler`; while it is active, the thread it was delivered to, `victim`, makes no
step, wherever it was. The null handles it pushes are elements of the set `Nulls`,
as many as there are workers. A resumed coroutine is abstract: it may enqueue
handles, and returns. The signal is that of a program that registers `SIGINT_HANDLER`,
as `entry/util_test.cpp` 38 does; `entry/server.cpp` registers none, and the line of the
`TCPServer` constructor that would is commented out (`TCPServer.cpp` 68). One signal is modelled, and one scheduler: the handler treats
the schedulers of `list_` one after the other and they share nothing.

### `Task`
Coroutines `Coros`, each called once; `Awaits` says who may await whose Task.
A thread's `stack` holds the coroutines it is resuming, because calling a coroutine,
and waking one without a scheduler, runs it on the caller's stack. `await_suspend`
is one step: it does everything between lock and unlock with no other effect, and is
enabled only when the mutex is free. `final_suspend` and `yield_value` are several
steps (lock, one per registered handle, unlock), because they hand handles to other
threads while they hold the mutex. The scheduler's queue is a sequence: what
`MultiThreadQueue` is proved to implement. Bodies are abstract: they await each
Task they may at most once, in any order, and end by `co_return`, by a
`SocketException` (`Throwers`) or suspend in a `co_yield` (`Yielders`). `*result` is
one of four values: what it was constructed with, yielded, returned, moved out.

### `OneShotEvent`
What a Task without `co_yield` promises: `ended`, the coroutines that have ended, and
`await`, where the co_await of each pair of `Awaits` is: to come, waiting, returned.
A coroutine ends once, and a co_await returns once, after the end (`Return`). Three
pieces of code return a co_await: `await_suspend` on a finished Task,
a worker that takes the handle from the queue, and the loop of `final_suspend` that
resumes it without a scheduler. `Task` maps all of them to `Return`.

### `EPoll`
The listeners of one server. Each is the coroutine `wait` (`pc`), with its own epoll
instance: `ready` is the kernel's ready list, `batch` the entries of `revents` the
loop has still to look at. A step is what runs without another thread in between:
`epoll_wait` (`Wait`), one call of `accept` (`Accept`, `AcceptNothing`,
`AcceptFails`), `addSocket` under the mutex, `delSocket` under the mutex, the start of
one request coroutine. The kernel is modelled as far as listeners see it: the accept
queue, which connection a descriptor stands for and which instances watch it, and
edges (a new connection, a message, a hang-up) that put a socket on the ready lists of
those instances. A socket on a ready list without an event is dropped when
`epoll_wait` looks at it; registering a socket that already has an event reports it.
A hang-up counts before a message, because the code tests it first.

The request coroutine is a lambda called as a temporary: after `co_await s_` its
`socket_i` is read from a closure that is gone. The build has no optimisation flags,
so the closure's place in the listener's frame is `closure[l]`: whatever the listener
stored there last is what every coroutine it started reads (`SocketI`). When the
listener's frame is destroyed, any value may be read. `lone` marks a request
for which nothing of the kind can happen: its listener has started no other request
since, has not ended, and its socket has not been closed. Reads are the steps
`ReadSome` and `ReadEnds` of one `readSocket` call, which the descriptor stays fixed
for (it is an argument). At end of file `read` returns 0 and the loop goes on, so
`ReadEnds` is not enabled. `answered` is history.

### `CStrings` and `IncrementParse`
A C string is a sequence of characters; `CStrings` says what it means that one occurs
first in another. `IncrementParse` is `incrementParse`, one action per way through the
body of its loop (`Match`, `Restart`, `Mismatch`), with the code's variables: `curr`
for the position of `i`, `sep_i` for how far the separator has been matched. After a
mismatch it goes back no further than to the current character, so it does not find
every separator: `Unambiguous` says which.

### `HTTPUnit`
`parseRequest` as a sequence of steps. `parsing` says which piece of the text the
current call of `incrementParse` is to delimit (`Following`, `Separator`); when the
call has returned, the piece is taken and its separator overwritten (`dispatchHTTP`,
`TakeLine`, `TakeHeader`), or the text is rejected with a 404 (`Reject`). Then the body
is looked at (`handleMethod`) and somebody answers: a bound handler, `defaultPage`, or
`stat` and `defaultFileFounder`, with steps of others in between.

Text is a sequence of tokens: the characters the parser looks for, and words for runs
of others. A `string_view` is a pair of indices into `raw_request`, so that what is
written there later shows in it. The regular expressions are modelled by the set of
what they match: the boundary, the parts of a form (`PartsAt`), pairs of arguments
(`ArgPairs`). The loop of `parseArgs` is given in closed form: where a search may begin
(`SearchesFrom`), the `=` it takes, and, of the pairs with one key, the last.
`MCRequestPath` has the loop as a recursive function (`IteratedArgs`), and an assumption
there (`ArgPairsIterate`) that both give the same pairs in the same order for every
text of up to six tokens. After the first part `form` is a view of a string that has been
destroyed; what is found in it is then any part that would fit into its length, or
none. The table of MIME types is represented by one row.

### `SocketIO`
`readSocket`, `writeSocket` and `writeFileSocket`, one action per system call, with the
peer, the kernel's side of the connection, and a listener that may close it. `buffer`
keeps its content from one read to the next, because the code clears only its first
character. A `send` may take a part of the text at most `MaxShort` times, and may fail.

### `RequestPath`
The coroutine of one request: `readSocket`, `parseRequest` on what was read,
`handleRequest`'s text (`getResponseHeaders` and the body), `writeSocket`, and the file
(`WriteStep`). Its own state is the file system's side: the descriptor the answer has
opened, and changes of files by others. What a request is (`Readings`, `HeaderLines`)
is defined on the whole text, without reference to how it is parsed.

### `TCPServer`
All coroutines of a server: a listener each (`wait`), and for each request the lambda
of `EPoll::wait`, `handleRequest` and `logRequest`. A handle is in `ready` or
`logReady`, held by a worker (`busy`, `logBusy`) or registered with the coroutine it
awaits (`others`). `owner` is the thread that constructs, starts and destroys the server;
members are destroyed in the reverse order of their declaration, `log_s_` first.
`ended` counts the workers that have left `thread_start`. The signal, in a program that
registers `Scheduler::SIGINT_HANDLER`, stops `s_` and then `log_s_`; a listener it interrupts in `epoll_wait` ends by the exception. Operations of
the queues and of `co_await` are one step here, because `MultiThreadQueue` and `Task`
show what their steps come to. Connections carry one request each and are abstract:
descriptors and edges are the subject of `EPoll`, also a hang-up that is seen before the
first message: `Accept` stands for a connection and the start of its first request.

Operators commented `Mutant` are plausible wrong versions of the definition that
follows them; no specification uses them. For each checked property `PROJECT.json`
names one that breaks it.

## 4. Runs and bounds

| Run | Instance | States | Shows |
|---|---|---|---|
| `queue_safety` | 3 threads (push, pull, both), 4 elements, first array of 1 slot | 2.1 M | no lost wake-up, references good while promised, refinement of `FifoQueue` |
| `queue_liveness` | the same, 3 elements | 117 k | every element leaves the queue |
| `queue_reference` | the same, 2 elements | violation | see section 7 |
| `scheduler` | owner, handler, 2 workers, 1 handle, 2 null handles | 58 k | null handles suffice, none resumed, queue outlives calls, a signal ends both workers, without one every handle is resumed |
| `task_safety` | 2 workers, main, 4 coroutines; one awaited Task without a scheduler; yields, exceptions | 130 k | nobody lost, nobody resumed twice |
| `task_liveness` | the same without yields | 12 k | the only awaiter gets the returned value, refinement of `OneShotEvent`, every `co_await` returns |
| `epoll_safety` | 2 listeners, 2 connections with one message each, 2 descriptors | 225 k | a request that is alone is answered where it came from |
| `epoll_liveness` | 2 listeners, accept queue of 2, 3 connections, 2 descriptors, no messages | 56 k | no connection stranded and each accepted, hung-up sockets closed, table agrees with the kernel, events current |
| `epoll_answers` | as `epoll_safety` | violation | see section 7 |
| `request_path` | 51 texts (`MCMessages`), 2 files of size 0 or 2, one change of a file, one short transfer, buffers of 7 tokens and 2 bytes | 399 k | parsing, views, arguments, files, reads and writes of one request; it ends |
| `server_safety` | 2 listeners, 2 requests, lines of 2 pieces, a signal at any time | 2.0 M | coroutines in one place, log lines whole, order of destruction |
| `server_liveness` | 1 listener, 2 requests | 146 k | requests are answered and logged |

Why the bounds are enough. Four elements take the ring from 1 to 4 slots, so that
it is resized when `top_` is 0 and when it is not, wraps at sizes 1, 2 and 4, and is
replaced twice under an outstanding reference; three threads include the case of a
notification that goes to the wrong one of two consumers. Two workers and the owner
are enough for a worker that is blocked, one that is committed to a pull, and a
victim of the signal at the same time. There is one handle because `INIT_SIZE` is 1, as
in the code: with more of them than slots a worker may copy another handle than it took
(`queue_reference`), so `HandlesAreResumed` is not stated. With two handles and
`INIT_SIZE` 2 the same run has 456 k states and passes. Two coroutines awaiting one
Task that awaits another cover several handles in `others`, nested inline resumption, and a Task that
is awaited before, during and after its end. With two descriptors and two or more
connections a closed descriptor is reused, also by another listener; with as many
descriptors as connections minus one `accept` runs out of them; with two events per
`epoll_wait` and three or more sockets some stay on the ready list. Two listeners and
two connections are what it takes for one coroutine to read through a closure another
event has overwritten, or for two listeners to compete for one connection.

The messages of `request_path` are one request of every kind the parser treats
differently (bound URL, file, root, empty path, query, form, multipart with two parts
and with a broken boundary, repeated headers) and, for a plain request with one header,
every text that differs from it by one token left out or by one blank or line break
more. Some arrive in part before the coroutine reads. Together they reach every error
path of the parser and put its terminators in every place. Texts longer than the
buffer of 7 tokens are read in several pieces, so that shorter reads follow longer
ones. Two files make "another file" a case; sizes 0 and 2 with a chunk of 2 give a file
that is empty, one that is sent whole or in two pieces, and one that shrinks while it is
sent. One short transfer is enough for a restart of `send`; more only repeat it. Two
requests make two lines for the log and two coroutines that compete for a worker; with
one listener the pool has one worker to spare, the least it can have.

Deadlock checking is off in all runs: consumers of an empty queue, workers of a pool
nobody stops and a program whose coroutines are all done rest there by design. That
nobody rests who should not is what the liveness properties and `NoLostWakeup` say.

## 5. Fairness

* `MultiThreadQueue`: a thread inside a call keeps running, and a consumer calls
  `pull` again and again, as `thread_start` does. No push and no spurious wake-up is
  assumed to happen.
* `Scheduler`: threads keep running; strong fairness for workers and the handler,
  because the mutex can be taken and released by others for ever (spurious wake-ups
  alone do that) and a thread that keeps asking for it is assumed to get it once; a
  resumed coroutine reaches its next suspension. The listener coroutines of `EPoll`
  do not, until they are stopped: a pool that runs one is outside this assumption.
  No signal, push or destruction has to happen.
* `EPoll`: listeners run until they wait, and coroutines on the pool run. No peer has
  to connect, send or hang up, and `epoll_wait` need not fail. A listener that ends by
  an exception ends the promise: the properties say "or somebody died".
* `RequestPath`: the request's coroutine runs, and a listener closes the socket of a
  peer that has hung up. The second is what `HungUpIsClosed` shows of `EPoll`, if the
  listener does not end; without it the loop of `readSocket` at end of file never does.
* `TCPServer`: every thread that can run does: the owner, a worker that finds a handle,
  each listener, each coroutine a worker holds, the signal handler once it has begun.
  No peer has to connect, stay or hang up, and no signal has to come; if one comes the
  two liveness properties promise nothing, because the code does not.
* `Task`: workers take handles, and a body that runs ends or suspends. Nobody has to
  call a coroutine or to resume one that has yielded.

## 6. Proofs

`MultiThreadQueueProofs` proves, for every set of threads (finite), every set of
elements and every initial capacity (`QueueAssumption`):

* `TypeCorrect`: `Spec => []TypeOK`.
* `ReferenceIsIntact`: `Spec => []ReferenceIntact`.
* `NoWakeupIsLost`: `Spec => []NoLostWakeup`.
* `ImplementsFifo`: `Spec => RefinesFifo`, the refinement of `FifoQueue`.

The inductive invariant `IInv` adds to the types: `tail_` is `curr_size_` slots
after `top_` (modulo `size_`), a reference to the present array lies in it, and a
reference with `room` r left designates the slot that lies r - 1 slots after
`tail_`, still holding the element `pull` took, with r at most the number of free
slots. Without the first, `PushStore` could not be shown to leave the other elements
alone; without the last, `ReferenceIntact` is not inductive, because nothing would
relate the slot to the pushes still to come. The index arithmetic is in lemmas on
`%` (`ModIs`, `ModDrop`, `ModNext`, `ModAhead`, `ModDistinct`). `PushAppends` and
`PullTakesFirst` show what the two critical sections do to the abstract sequence
`Contents`. `NoLostWakeup` is inductive on top of `TypeOK`: each action adds to or
removes from the set of threads in transit exactly what it adds to or removes from
the queue, while somebody is blocked.

`SchedulerProofs` proves, for every number of workers and of handles, given a null handle
for each worker (`SchedulerAssumption`):

* `SchedulerUsesQueue`: `SchedSpec => Spec`. Every step of a scheduler is one of its queue
  or leaves the queue alone, so `HandlesAreFifo` (`SchedSpec => RefinesFifo`) and
  `WorkersAreWoken` (`SchedSpec => []NoLostWakeup`) are the queue's theorems.
* `SchedTypeCorrect`: `SchedSpec => []SchedTypeOK`, the types the others rest on.
* `NullsSuffice`: `SchedSpec => []EnoughNulls`. It counts workers and null handles with
  the library's lemmas on finite sets; the pull that empties the queue needs that a
  worker inside `pull` is in the scheduler's loop (`Calls`).
* `NoNullIsResumed`: `SchedSpec => []NullNeverResumed`. `HeldIsPushed` says that only what
  was pushed is in the queue, or in the slot of the present array that a result of
  `pull` refers to; before the handler clears `running_` that is no null handle, so a
  worker that still sees `running_` set copied a real one (`GotReal`), however late.
* `QueueIsOutlived`: `SchedSpec => []QueueOutlivesCalls`. `SignalState` says that the thread
  the handler runs on has not ended while the handler pushes; so the owner, which
  waits for all workers, does not reach the destructor before.

`TaskProofs` proves, for any threads and coroutines and any choice of who awaits whom,
is scheduled, yields, throws or returns nothing (`TaskAssumption`):

* `TypeCorrect`: `Spec => []TypeOK`.
* `NobodyIsLost`: `Spec => []NeverLost`. `Registered` says that the handles the loop
  over `others` has not come to are those of suspended coroutines that await this one,
  each once; `AtEnd` that `finished` is set exactly when the final loop has begun, and that
  `woken` is 0 outside the loops. So `await_suspend` registers only with a coroutine
  whose loop is still to come, and a frame is destroyed only when no handle is left.
* `NobodyIsResumedTwice`: `Spec => []ResumedOnce`. A coroutine's place tells its `pc`
  (`Stacked`, `Queued`, `Registered`), so it cannot be in places of two kinds.
* `OnlyAwaiterIsServed`: `Spec => []SoleAwaiterGetsResult`. `Awaiting` says that a
  coroutine is queued after a co_await only when the awaited one has ended, unless that
  one yields; `Kept` says that the returned value stays until its only awaiter has it.
* `ImplementsOneShotEvent`: `Yielders = {} => (Spec => ImplementsEvent)`. With a yield the
  refinement is false: the awaiting coroutines are woken before the end.

`EPollProofs` proves, for every finite set of listeners, all sets of connections and
descriptors, and every length of the accept queue, number of messages and number of
events per `epoll_wait` (`EPollAssumption`):

* `TypeCorrect`: `Spec => []TypeOK`.
* `BacklogWatched`: `Spec => []BacklogIsWatched`. The inductive invariant (`Slack`)
  says: while the accept queue is not empty, the listeners due to accept and `Backlog`
  together are at least the listeners alive and the queue's length together. A
  new connection makes every listener due, and each call of `accept` takes at most one
  from both sides.
* `TableAgrees` and `EventsAreCurrent`: `Spec => []TableMatchesKernel` and
  `Spec => []BatchIsCurrent`. The two need each other (`Sockets`): a socket is watched
  by at most one listener (`OneWatcher`), ready lists and batches hold only sockets
  their listener watches, and a descriptor between `accept` and `addSocket` belongs to
  one listener and is watched by nobody. So only the listener that registered a
  descriptor can close it, and it does so when it handles the event, never before.
* `AnswersOfLoneRequests`: `Spec => []LoneAnswersGoHome`. The invariant `Lone` says that
  while a request is alone its listener's closure still holds its descriptor, which
  still is the connection of its event. `EventsAreCurrent` is what makes that true
  when the request is started.

`IncrementParseProofs` proves, for every text and every non-empty separator over any
alphabet:

* `ParseFindsFirst`: `ParseSpec => []FindsFirst`: for an `Unambiguous` separator the
  result is the first occurrence, or -1 if there is none. The inductive invariant
  (`MatchInProgress`) says that the match in progress is really there, and that no
  occurrence begins before it. The second half is where the separator matters: when a
  match fails after k characters, every occurrence that began inside it
  would have failed too (`NothingHidden`).
* `FirstCharOnce`: a separator whose first character does not come again in it is
  `Unambiguous`; those of the server (`" "`, `"\n"`, `": "`) are such.

`TCPServerProofs` proves, for all finite sets of listeners and requests and lines of any
length (`ServerAssumption`):

* `TypeCorrect`: `Spec => []TypeOK`.
* `LogLinesAreWhole`: `Spec => []LogLinesWhole`. `Counts` says that workers held and
  ended are at most the pool, so at most one line is being written; `Progress` and
  `LogQueue` say that a request is handed to the log once and that its line has not
  been begun while it waits; `LastLine` says that the log ends with the last piece of the line being
  written, or with a whole line. Without the last the property is not inductive: nothing
  would relate `line` to what was written.
* `LogOutlivesItsCallers` and `MembersAreSafe`: `Spec => []LateOnlyAfterSignal` and
  `Spec => []MembersOutliveWorkers`, from `Counts` and `EndedBySignal`: a join
  returns when all workers have ended, which only a signal makes them do, and a pool
  whose workers have all ended holds no handle.

* `CoroutinesAreInOnePlace`: `Spec => []InOnePlace`. `Placed` says for each kind of
  coroutine which of its states mean that it is queued or run by a worker: a handle is in
  the queue once and not with a worker (`Once`), a listener's coroutine is nowhere before it is
  started (`WaitPlaces`), that of a connection waits at most with the one that will wake
  it (`LambdaPlaces`), and that of an answer is somewhere from its start to its end
  (`HandlePlaces`).

`RequestPathProofs` proves, for all messages, with or without terminators in them, any
part of each arriving first, all names, sizes of files, buffers and chunks, and every
way the kernel cuts what is read and written (`PathAssumption`, `HTTPAssumption`,
`SocketAssumption`; the first also says that the separators the parser uses are among
those `IncrementParse` is instantiated for):

* `FilesAreClosed`: `Spec => []NoFileIsLeftOpen`, from `Control`: the parser runs between
  reading and writing, and the only way to the end from an open file closes it.
* `PresentFilesAreServed`: `Spec => []PresentFileIsServed`. A name that is absent is in
  the history, and the name that will be opened is one the path stands for
  (`LookedUp`); so an answer that is no file saw the name absent.
* `ReadingIsExact`: `PlainMessages => (Spec => []ReadExact)`. `Exact` says that while no read
  was shorter than the one before it, the buffer is clear behind the last. Only here
  must the messages have no terminator: after one, the rest of a read is lost.
* `AnswersAreFramed`: `Spec => []AnswerIsFramed`. `Framing` relates what has been
  sent to the text and to the file up to `offset`, as long as nothing was cut, and the size
  of the open file to Content-Length, as long as no file has changed.
* `FilesArriveInOrder`: `Spec => []FileInOrder`. `Ordered` says the same of the file's bytes
  whatever is cut or changes: they are the last `offset` units sent.

`RequestViewsProofs` proves, under the same assumptions:

* `ViewsStayIntact`: `Spec => []ViewsAreIntact`. `Ahead` says that while the header
  is parsed all views end before `c_str`, that the search is for the right separator in
  the text from `c_str` on and finds it within that text (`Search`), and that a line being
  split ends with the terminator before `next_line`; so every terminator is written
  ahead of all views. `Taken` keeps the parts of a multipart body within the body:
  the length of handleMethod's view bounds what is found through it (`PartsFit`), even
  when it dangles and anything of the right shape may be found.

* `RequestParses`: `Spec => ParseSpec`. Every step of a request calls `incrementParse` with
  a text and a separator it may be called with, steps it or leaves it alone. So
  `SearchesFindFirst` (`Spec => []FindsFirst`) is the parser's theorem; the separators
  meet its condition by `FirstCharOnce`.
* `RequestsAreParsedAsWritten`: `Spec => []ParsedAsWritten`, in both directions: a text that
  is rejected has no reading, and one that is accepted has one, whose pieces are those
  taken. `ParsedAsWritten` looks only at the end of parsing, so it is far from
  inductive. `ParsedInv` relates each stage to the text as it was read (`result`):
  `raw_request` differs from it only by terminators (`Copy`) and not at all ahead of the
  search; the pieces of the request line found so far are the right ones (`FirstLine`);
  the lines split so far are exactly the lines of the header up to `c_str` (`LinesTo`), each
  of the form key: value, and the headers are the first lines with each key
  (`HeadersTo`); and no line so far is the one that ends the header. With `SearchesFindFirst`
  each search then finds the next place of the reading, and when it finds none there
  is no reading (`NoMethod`, `NoPath`, `NoProtocol`, `NoEnd`, `NoColon`).
* `ArgumentsAreAsDocumented`: `Spec => []ArgsAsDocumented`, for lists of pairs of any
  length. `AroundEquals` says what surrounds an `=` of such a list; from it follows that the
  searches take every `=` and begin at the word before it, or, the first time, with the
  path (`EveryEquals`, `OnlyEquals`), so that keys and values are single words and the
  last of several with one key stays (`ArgsOfList`). The property is about paths with no
  `=` before the `?`: without this it is false, because `parseArgs` gets the whole path and
  the first `=` it comes to ends a key (`/x=y?k=v` has the one argument `/x`). The proof is
  what showed that the condition is needed; no message of the run has such a path.

`TextEnd` and `Min` choose a least number; that there is one is `Least`, from the
library's theorem on minimal elements of well-founded relations.

Model-checked only: the liveness properties, `EveryElementIsTaken`, `SigintStopsWorkers`,
`HandlesAreResumed`, `AwaitReturns`, `ConnectionsAreAccepted`, `HungUpIsClosed`, `RequestEnds`,
`RequestsAnswered` and `RequestsLogged` (TLAPS does not reason about fairness and
ENABLED), and that `ArgPairs` is what the loop of `parseArgs` finds, which for texts of every length
would need induction over data. Every invariant, action property and refinement that a
passing run checks is a theorem.

## 7. What the checks found

`queue_reference`: `pull` returns `T &` into `data_`, and its `unique_lock` releases
the mutex on return; the caller (`auto handle = queue_->pull()`) copies the handle
afterwards. The run shows a push in between that writes to the freed slot, or
replaces the array: the caller then holds another handle, or what freed memory
contains. `ReferenceIntact` says exactly how long the reference is good: for as many
pushes as there were free slots when the element was taken, which is none at all
when the ring was full.

`epoll_answers`: the request coroutine reads `socket_i` from its closure after the
closure has been destroyed. The run shows two peers whose messages arrive in one
batch of a listener: the second closure is built where the first was, both
coroutines read and answer the second connection, and a message of one peer is
answered to the other. Nobody hangs up and no listener ends in it. `LoneAnswersGoHome`
says when the code does answer the right peer.

Behaviours met while modelling for which there is no run of their own: the
handler deadlocks when the signal arrives on a thread inside a critical section of the queue; a signal during the constructor is lost; `co_yield`
wakes its awaiters before it stores the value (no coroutine of the repository yields); a
second awaiter gets a moved-from result; an awaited `Task<void>` without a scheduler dereferences null; `BacklogIsWatched`
needs as many listeners as the accept queue has places, and the default of two
listeners is fewer than the four that `listen(fd, 3)` allows. An `epoll_wait` that
fails ends the listener, although the message says "retrying" (`EPoll.cpp` 76).
`incrementParse` does not return the first match, as `utilities.hpp` 9-16 has it, for a
separator such as `"aab"` in `"aaab"`. `readSocket` repeats text when a read is shorter
than the one before it; `writeSocket` repeats text after a partial send. From the second
part of a form on, `handleMethod` searches a string that has been destroyed, and applies
positions to the wrong view. A bound URL is not found with a query, and an `=` before
the `?` of a path is taken for the end of the first key. `logRequest` reads
objects that have been deleted, and after a signal may use a scheduler that has been
destroyed. A constructor that throws waits for threads that only a signal ends.

## 8. Not modelled

* `TCPServer::SIGINT_HANDLER`, `serverStop` and with them `EPoll::stop`, `running_` and
  the pipe that wakes a stopped listener: the handler works on `servers_`, and the line
  that would add a server is commented out. `lockSocket` and `unlockSocket` are not
  called.
* `parseUrl` and `parseSemiColSeperated`, which nothing calls, and `parseFormDataInfo`,
  which copies the names of a part out of one line.
* Ends of the process: SIGPIPE from a `send` on a reset connection, exceptions other
  than `SocketException` in a coroutine, and what a read of freed memory may do beyond
  yielding some value.
* In `RequestPath`: an `open` that fails although the file is there (no descriptor left, no
  permission, a directory), a `read` that reports a reset connection, and a descriptor
  that another connection reuses (that is in `EPoll`).
* Two requests on one connection in `RequestPath` and `TCPServer`: `EPoll` has them.
* `Logs` is an instance of `Task` and `Scheduler`; `Exceptions` has no behaviour.
* `static/tcerver.hpp` is an older copy of the classes that the build does not use; the
  programs under `entry` and `tests` only say how the library is used.
* The copy constructor of `Scheduler`, `SameThreadResumer` and moving or copying of `Task`
  objects: nothing in the repository relies on them.

Reads and writes of `running_` (a `volatile bool`) are taken to be atomic.
