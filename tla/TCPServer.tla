------------------------------ MODULE TCPServer -------------------------------
(****************************************************************************)
(* src/src/TCPServer.cpp and TCPServer.hpp: a server made of listeners      *)
(* (EPoll::wait, one coroutine each), a pool s_ of workers that run them    *)
(* and the coroutines of the requests, and a scheduler log_s_ that writes   *)
(* the log, from its construction to its destruction.                       *)
(*                                                                          *)
(* A request is answered by three coroutines: the lambda of EPoll::wait,    *)
(* which reads, awaits the answer and writes it, handleRequest, and         *)
(* logRequest.  A handle is a pair <<coroutine, listener or request>>.  The *)
(* queues, the workers and co_await are those of MultiThreadQueue,          *)
(* Scheduler and Task, each of whose operations is one step here.           *)
(****************************************************************************)
EXTENDS Integers, FiniteSets, Sequences

CONSTANTS
  Listeners,    \* the elements of epolls_, listen_threads of them
  Requests,     \* what peers will ask, each on a connection of its own
  Pieces,       \* the insertions a line of the log is made of
  Nobody        \* the victim of a signal that interrupts no listener

ASSUME ServerAssumption ==
  /\ IsFiniteSet(Listeners) /\ IsFiniteSet(Requests)
  /\ Pieces \in Nat \ {0}
  /\ Nobody \notin Listeners

VARIABLES
  owner,        \* where the thread that has the server is
  failed,       \* whether the constructor has thrown
  started,      \* the listeners serverStart has called wait of
  signal,       \* the schedulers SIGINT_HANDLER has stopped
  victim,       \* the listener the handler interrupts, or Nobody
  ready,        \* the queue of s_
  busy,         \* the handles its workers are resuming
  ended,        \* how many of its workers have ended
  logReady, logBusy, logEnded,    \* the same for log_s_
  wait,         \* where each listener is
  conn,         \* the connection of each request
  by,           \* the listener that has accepted it
  lambda,       \* where the coroutine that reads and writes is
  handle,       \* where handleRequest is
  others,       \* the requests whose lambda is registered with handleRequest
  object,       \* the request and the response that parseRequest returns
  log,          \* where logRequest is
  line,         \* how many pieces of its line it has written
  logged        \* what has been written to log_io_

ownerVars == <<owner, failed, started, signal, victim>>
poolVars == <<ready, busy, ended>>
logPoolVars == <<logReady, logBusy, logEnded>>
netVars == <<wait, conn, by>>
requestVars == <<lambda, handle, others, object>>
logVars == <<log, line, logged>>

vars == <<ownerVars, poolVars, logPoolVars, netVars, requestVars, logVars>>

(* Mutant: one worker for each listener. *)
NoSpareWorkers == Cardinality(Listeners)

(* s_(listen_threads * THREAD_SIZE_MUL) *)
PoolSize == 2 * Cardinality(Listeners)

(* Mutants: a second worker, and none, for the log. *)
TwoLogWorkers == 2
NoLogWorker == 0

(* log_s_(1) *)
LogPoolSize == 1

Init ==
  /\ owner = "constructor" /\ failed = FALSE /\ started = {}
  /\ signal = "none" /\ victim = Nobody
  /\ ready = <<>> /\ busy = {} /\ ended = 0
  /\ logReady = <<>> /\ logBusy = {} /\ logEnded = 0
  /\ wait = [l \in Listeners |-> "new"]
  /\ conn = [r \in Requests |-> "none"]
  /\ by = [r \in Requests |-> Nobody]
  /\ lambda = [r \in Requests |-> "new"]
  /\ handle = [r \in Requests |-> "new"]
  /\ others = {}
  /\ object = [r \in Requests |-> "none"]
  /\ log = [r \in Requests |-> "new"]
  /\ line = [r \in Requests |-> 0]
  /\ logged = <<>>

-------------------------------------------------------------------------------
(* The schedulers *)

(* A worker that finds running_ set resumes the oldest handle. *)
Take ==
  /\ ready # <<>> /\ signal = "none"
  /\ Cardinality(busy) + ended < PoolSize
  /\ ready' = Tail(ready) /\ busy' = busy \cup {Head(ready)}
  /\ UNCHANGED <<ownerVars, ended, logPoolVars, netVars, requestVars, logVars>>

TakeLog ==
  /\ logReady # <<>> /\ signal # "both"
  /\ Cardinality(logBusy) + logEnded < LogPoolSize
  /\ logReady' = Tail(logReady) /\ logBusy' = logBusy \cup {Head(logReady)}
  /\ UNCHANGED <<ownerVars, poolVars, logEnded, netVars, requestVars, logVars>>

(* A worker that resumes nothing gets a null handle and ends. *)
WorkerEnds ==
  /\ signal # "none" /\ Cardinality(busy) + ended < PoolSize
  /\ ended' = ended + 1
  /\ UNCHANGED <<ownerVars, ready, busy, logPoolVars, netVars, requestVars, logVars>>

LogWorkerEnds ==
  /\ signal = "both" /\ Cardinality(logBusy) + logEnded < LogPoolSize
  /\ logEnded' = logEnded + 1
  /\ UNCHANGED <<ownerVars, poolVars, logReady, logBusy, netVars, requestVars, logVars>>

(* SIGINT_HANDLER stops s_, which has been entered in list_ first, and then *)
(* log_s_.  The thread it runs on may be one that is in epoll_wait.         *)
Signal ==
  /\ signal = "none" /\ owner # "gone"
  /\ signal' = "pool"
  /\ victim' \in {l \in Listeners : wait[l] = "listening"} \cup {Nobody}
  /\ UNCHANGED <<owner, failed, started, poolVars, logPoolVars, netVars, requestVars,
                 logVars>>

SignalLog ==
  /\ signal = "pool"
  /\ signal' = "both"
  /\ UNCHANGED <<owner, failed, started, victim, poolVars, logPoolVars, netVars,
                 requestVars, logVars>>

-------------------------------------------------------------------------------
(* The owner: constructor, serverStart, destructor.  A constructor that     *)
(* throws destroys the members as the destructor does: log_s_ first.        *)

Construct ==
  /\ owner = "constructor"
  /\ \/ owner' = "start" /\ UNCHANGED failed
     \/ owner' = "joinLog" /\ failed' = TRUE
  /\ UNCHANGED <<started, signal, victim, poolVars, logPoolVars, netVars, requestVars,
                 logVars>>

(* wait runs as far as its co_await on s_. *)
serverStart(l) ==
  /\ owner = "start" /\ l \in Listeners \ started
  /\ started' = started \cup {l}
  /\ ready' = Append(ready, <<"wait", l>>)
  /\ UNCHANGED <<owner, failed, signal, victim, busy, ended, logPoolVars, netVars,
                 requestVars, logVars>>

Leave ==
  /\ owner = "start" /\ started = Listeners
  /\ owner' = "joinLog"
  /\ UNCHANGED <<failed, started, signal, victim, poolVars, logPoolVars, netVars,
                 requestVars, logVars>>

(* Mutant: the log's worker is left alone. *)
DetachLog ==
  /\ owner = "joinLog" /\ owner' = "joinPool"
  /\ UNCHANGED <<failed, started, signal, victim, poolVars, logPoolVars, netVars,
                 requestVars, logVars>>

JoinLog ==
  /\ owner = "joinLog" /\ logEnded = LogPoolSize
  /\ owner' = "joinPool"
  /\ UNCHANGED <<failed, started, signal, victim, poolVars, logPoolVars, netVars,
                 requestVars, logVars>>

(* Mutant: only one worker is joined. *)
JoinOne ==
  /\ owner = "joinPool" /\ ended > 0
  /\ owner' = "gone"
  /\ UNCHANGED <<failed, started, signal, victim, poolVars, logPoolVars, netVars,
                 requestVars, logVars>>

(* When s_ is gone the other members follow, which nobody waits for. *)
JoinPool ==
  /\ owner = "joinPool" /\ ended = PoolSize
  /\ owner' = "gone"
  /\ UNCHANGED <<failed, started, signal, victim, poolVars, logPoolVars, netVars,
                 requestVars, logVars>>

-------------------------------------------------------------------------------
(* The listeners and their peers *)

Listen(l) ==
  /\ <<"wait", l>> \in busy /\ wait[l] = "new"
  /\ wait' = [wait EXCEPT ![l] = "listening"]
  /\ UNCHANGED <<ownerVars, poolVars, logPoolVars, conn, by, requestVars, logVars>>

(* A peer connects and asks; the listener that accepts it calls a lambda.   *)
Accept(l, r) ==
  /\ wait[l] = "listening" /\ conn[r] = "none"
  /\ conn' = [conn EXCEPT ![r] = "open"] /\ by' = [by EXCEPT ![r] = l]
  /\ lambda' = [lambda EXCEPT ![r] = "reading"]
  /\ ready' = Append(ready, <<"lambda", r>>)
  /\ UNCHANGED <<ownerVars, busy, ended, logPoolVars, wait, handle, others, object,
                 logVars>>

(* It matters to the server only before the request has been read. *)
HangUp(r) ==
  /\ conn[r] = "open" /\ lambda[r] = "reading"
  /\ conn' = [conn EXCEPT ![r] = "hung"]
  /\ UNCHANGED <<ownerVars, poolVars, logPoolVars, wait, by, requestVars, logVars>>

CloseSocket(l, r) ==
  /\ wait[l] = "listening" /\ by[r] = l /\ conn[r] = "hung"
  /\ conn' = [conn EXCEPT ![r] = "closed"]
  /\ UNCHANGED <<ownerVars, poolVars, logPoolVars, wait, by, requestVars, logVars>>

(* epoll_wait is interrupted and throws; nothing else ends a listener.      *)
Interrupted(l) ==
  /\ signal = "both" /\ victim = l /\ wait[l] = "listening"
  /\ wait' = [wait EXCEPT ![l] = "dead"]
  /\ busy' = busy \ {<<"wait", l>>}
  /\ UNCHANGED <<ownerVars, ready, ended, logPoolVars, conn, by, requestVars, logVars>>

-------------------------------------------------------------------------------
(* The lambda of EPoll::wait *)

(* readSocket, which does not end while the peer has hung up and the socket *)
(* is open; then handleRequest is called and runs as far as its co_await.   *)
Read(r) ==
  /\ <<"lambda", r>> \in busy /\ lambda[r] = "reading" /\ conn[r] # "hung"
  /\ lambda' = [lambda EXCEPT ![r] = "awaiting"]
  /\ handle' = [handle EXCEPT ![r] = "parsing"]
  /\ ready' = Append(ready, <<"handle", r>>)
  /\ UNCHANGED <<ownerVars, busy, ended, logPoolVars, netVars, others, object, logVars>>

(* Mutant: the lambda registers even with a coroutine that has ended. *)
AwaitAnyway(r) ==
  /\ <<"lambda", r>> \in busy /\ lambda[r] = "awaiting"
  /\ lambda' = [lambda EXCEPT ![r] = "writing"]
  /\ others' = others \cup {r} /\ busy' = busy \ {<<"lambda", r>>}
  /\ UNCHANGED <<ownerVars, ready, ended, logPoolVars, netVars, handle, object, logVars>>

(* co_await on handleRequest: a coroutine that has not ended is waited for. *)
Await(r) ==
  /\ <<"lambda", r>> \in busy /\ lambda[r] = "awaiting"
  /\ lambda' = [lambda EXCEPT ![r] = "writing"]
  /\ IF handle[r] = "done"
       THEN UNCHANGED <<busy, others>>
       ELSE others' = others \cup {r} /\ busy' = busy \ {<<"lambda", r>>}
  /\ UNCHANGED <<ownerVars, ready, ended, logPoolVars, netVars, handle, object, logVars>>

Write(r) ==
  /\ <<"lambda", r>> \in busy /\ lambda[r] = "writing"
  /\ lambda' = [lambda EXCEPT ![r] = "done"]
  /\ busy' = busy \ {<<"lambda", r>>}
  /\ UNCHANGED <<ownerVars, ready, ended, logPoolVars, netVars, handle, others, object,
                 logVars>>

-------------------------------------------------------------------------------
(* handleRequest *)

(* parseRequest returns two objects, unless a handler of the application    *)
(* throws a SocketException: then the answer is empty, and the request      *)
(* stays.                                                                   *)
Parse(r) ==
  /\ <<"handle", r>> \in busy /\ handle[r] = "parsing"
  /\ object' = [object EXCEPT ![r] = "live"]
  /\ \E next \in {"logging", "ending"} : handle' = [handle EXCEPT ![r] = next]
  /\ UNCHANGED <<ownerVars, poolVars, logPoolVars, netVars, lambda, others, logVars>>

(* Mutant: logRequest awaits s_ instead of log_s_. *)
CallLogOnPool(r) ==
  /\ <<"handle", r>> \in busy /\ handle[r] = "logging"
  /\ handle' = [handle EXCEPT ![r] = "deleting"]
  /\ log' = [log EXCEPT ![r] = "writing"]
  /\ ready' = Append(ready, <<"log", r>>)
  /\ UNCHANGED <<ownerVars, busy, ended, logPoolVars, netVars, lambda, others, object,
                 line, logged>>

(* logRequest runs as far as its co_await on log_s_, which pushes its       *)
(* handle even if the queue of log_s_ is no more.                           *)
CallLog(r) ==
  /\ <<"handle", r>> \in busy /\ handle[r] = "logging"
  /\ handle' = [handle EXCEPT ![r] = "deleting"]
  /\ IF owner \in {"joinPool", "gone"}
       THEN log' = [log EXCEPT ![r] = "late"] /\ UNCHANGED logReady
       ELSE /\ log' = [log EXCEPT ![r] = "writing"]
            /\ logReady' = Append(logReady, <<"log", r>>)
  /\ UNCHANGED <<ownerVars, poolVars, logBusy, logEnded, netVars, lambda, others,
                 object, line, logged>>

Delete(r) ==
  /\ <<"handle", r>> \in busy /\ handle[r] = "deleting"
  /\ object' = [object EXCEPT ![r] = "deleted"]
  /\ handle' = [handle EXCEPT ![r] = "ending"]
  /\ UNCHANGED <<ownerVars, poolVars, logPoolVars, netVars, lambda, others, logVars>>

(* final_suspend: a lambda that waits is queued. *)
Finish(r) ==
  /\ <<"handle", r>> \in busy /\ handle[r] = "ending"
  /\ handle' = [handle EXCEPT ![r] = "done"]
  /\ busy' = busy \ {<<"handle", r>>}
  /\ others' = others \ {r}
  /\ ready' = IF r \in others THEN Append(ready, <<"lambda", r>>) ELSE ready
  /\ UNCHANGED <<ownerVars, ended, logPoolVars, netVars, lambda, object, logVars>>

-------------------------------------------------------------------------------
(* logRequest: one insertion into log_io_ after the other, from the request *)
(* and the response, which handleRequest may have deleted by then.          *)
WritePiece(r) ==
  /\ <<"log", r>> \in logBusy /\ line[r] < Pieces
  /\ line' = [line EXCEPT ![r] = @ + 1]
  /\ logged' = Append(logged, [request |-> r, piece |-> line[r] + 1,
                               from |-> object[r]])
  /\ UNCHANGED <<ownerVars, poolVars, logPoolVars, netVars, requestVars, log>>

LogEnds(r) ==
  /\ <<"log", r>> \in logBusy /\ line[r] = Pieces
  /\ log' = [log EXCEPT ![r] = "done"]
  /\ logBusy' = logBusy \ {<<"log", r>>}
  /\ UNCHANGED <<ownerVars, poolVars, logReady, logEnded, netVars, requestVars, line,
                 logged>>

-------------------------------------------------------------------------------

OwnerStep == Construct \/ Leave \/ JoinLog \/ JoinPool \/ \E l \in Listeners : serverStart(l)

SchedulerStep == Take \/ TakeLog \/ WorkerEnds \/ LogWorkerEnds \/ SignalLog

ListenerStep(l) == Listen(l) \/ Interrupted(l) \/ \E r \in Requests : CloseSocket(l, r)

LambdaStep(r) == Read(r) \/ Await(r) \/ Write(r)

HandleStep(r) == Parse(r) \/ CallLog(r) \/ Delete(r) \/ Finish(r)

LogStep(r) == WritePiece(r) \/ LogEnds(r)

Next ==
  \/ OwnerStep \/ SchedulerStep \/ Signal
  \/ \E l \in Listeners : ListenerStep(l) \/ \E r \in Requests : Accept(l, r)
  \/ \E r \in Requests : HangUp(r) \/ LambdaStep(r) \/ HandleStep(r) \/ LogStep(r)

Spec == Init /\ [][Next]_vars

(* Threads keep running.  No peer has to come or to stay, and no signal.    *)
Fairness ==
  /\ WF_vars(OwnerStep)
  /\ WF_vars(Take) /\ WF_vars(TakeLog)
  /\ WF_vars(WorkerEnds) /\ WF_vars(LogWorkerEnds) /\ WF_vars(SignalLog)
  /\ \A l \in Listeners : WF_vars(ListenerStep(l))
  /\ \A r \in Requests :
       WF_vars(LambdaStep(r)) /\ WF_vars(HandleStep(r)) /\ WF_vars(LogStep(r))

FairSpec == Spec /\ Fairness

-------------------------------------------------------------------------------

Handles == ({"wait"} \X Listeners) \cup ({"lambda", "handle"} \X Requests)
LogHandles == {"log"} \X Requests

TypeOK ==
  /\ owner \in {"constructor", "start", "joinLog", "joinPool", "gone"}
  /\ failed \in BOOLEAN /\ started \subseteq Listeners
  /\ signal \in {"none", "pool", "both"} /\ victim \in Listeners \cup {Nobody}
  /\ ready \in Seq(Handles) /\ busy \subseteq Handles /\ ended \in Nat
  /\ logReady \in Seq(LogHandles) /\ logBusy \subseteq LogHandles /\ logEnded \in Nat
  /\ wait \in [Listeners -> {"new", "listening", "dead"}]
  /\ conn \in [Requests -> {"none", "open", "hung", "closed"}]
  /\ by \in [Requests -> Listeners \cup {Nobody}]
  /\ lambda \in [Requests -> {"new", "reading", "awaiting", "writing", "done"}]
  /\ handle \in [Requests -> {"new", "parsing", "logging", "deleting", "ending", "done"}]
  /\ others \subseteq Requests
  /\ object \in [Requests -> {"none", "live", "deleted"}]
  /\ log \in [Requests -> {"new", "writing", "late", "done"}]
  /\ line \in [Requests -> 0..Pieces]
  /\ logged \in Seq([request : Requests, piece : 1..Pieces,
                     from : {"none", "live", "deleted"}])

(* A coroutine that has begun and has not ended is in one place: in its     *)
(* queue once, resumed by one worker, or registered with a coroutine that   *)
(* has yet to end; one that has not begun or has ended is nowhere.          *)
InOnePlace ==
  \A r \in Requests :
    LET Queued(h) == {i \in DOMAIN ready : ready[i] = h}
        Places(h) == Cardinality(Queued(h)) + (IF h \in busy THEN 1 ELSE 0)
    IN  /\ Places(<<"lambda", r>>) + (IF r \in others THEN 1 ELSE 0)
             = IF lambda[r] \in {"new", "done"} THEN 0 ELSE 1
        /\ Places(<<"handle", r>>) = IF handle[r] \in {"new", "done"} THEN 0 ELSE 1
        /\ r \in others => handle[r] # "done"

(* Every line of the log is written to its end before another is begun,     *)
(* although nothing but the number of log_s_'s workers keeps them apart     *)
(* (TCPServer.cpp 118-124).                                                 *)
LogLinesWhole ==
  \A i \in DOMAIN logged :
    LET w == logged[i]
    IN  IF w.piece = 1
          THEN i > 1 => logged[i - 1].piece = Pieces
          ELSE /\ i > 1
               /\ logged[i - 1].request = w.request
               /\ logged[i - 1].piece = w.piece - 1

(* logRequest is called after log_s_ has been destroyed, with s_'s workers  *)
(* still running, only if the server is being stopped by a signal.          *)
LateOnlyAfterSignal ==
  \A r \in Requests : log[r] = "late" => signal = "both"

(* http_, epolls_ and the mutex are destroyed when no coroutine of a worker *)
(* can use them, and neither a destructor nor a constructor that has failed *)
(* comes to its end without a signal.                                       *)
MembersOutliveWorkers ==
  owner = "gone" => busy = {} /\ logBusy = {} /\ signal = "both"

Answered(r) == lambda[r] = "done"

(* Every request that is accepted is answered, unless a signal comes, even  *)
(* if its peer hangs up, and although every listener keeps a worker of s_.  *)
RequestsAnswered ==
  \A r \in Requests : conn[r] # "none" ~> Answered(r) \/ signal # "none"

(* Every request handed to the log is written to its end, unless a signal   *)
(* comes.                                                                   *)
RequestsLogged ==
  \A r \in Requests : handle[r] = "deleting" ~> log[r] = "done" \/ signal # "none"
===============================================================================
