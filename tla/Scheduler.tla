------------------------------- MODULE Scheduler -------------------------------
(****************************************************************************)
(* src/src/Scheduler.hpp: a pool of worker threads that pull coroutine      *)
(* handles from a MultiThreadQueue and resume them, and the SIGINT handler  *)
(* that stops the pool by clearing running_ and pushing one null handle for *)
(* every worker.                                                            *)
(*                                                                          *)
(* Every step of a call of push or pull is a step of MultiThreadQueue, so a *)
(* worker can be interrupted, or another thread run, between any two.  The  *)
(* handler is a thread of its own in the model: while it is active the      *)
(* thread it was delivered to, its victim, is frozen wherever it was.       *)
(****************************************************************************)
EXTENDS MultiThreadQueue

CONSTANTS
  Workers,   \* the threads in threads_
  Owner,     \* the thread that constructs, uses and destroys the scheduler
  Handler,   \* the activation of SIGINT_HANDLER
  Nulls      \* the null handles the handler pushes, one for each worker

ASSUME SchedulerAssumption ==
  /\ Producers = Workers \cup {Owner, Handler}
  /\ Consumers = Workers
  /\ Owner \notin Workers /\ Handler \notin Workers /\ Owner # Handler
  /\ Nulls \subseteq Items
  /\ IsFiniteSet(Nulls) /\ Cardinality(Nulls) = Cardinality(Workers)

VARIABLES
  at,        \* where each thread is in the scheduler's own code
  running_,  \* the flag of the class
  victim     \* the thread SIGINT_HANDLER runs on, or NoThread

schedVars == <<at, running_, victim>>
allVars == <<vars, schedVars>>

WorkerPC == {"unstarted", "loop", "pull", "check", "resume", "exited"}
OwnerPC == {"ctor", "user", "dtor", "gone"}
HandlerPC == {"none", "stop", "push", "return"}

SchedInit ==
  /\ Init
  /\ at = [t \in Threads |-> CASE t \in Workers -> "unstarted"
                               [] t = Owner -> "ctor"
                               [] t = Handler -> "none"]
  /\ running_ = TRUE
  /\ victim = NoThread

(* Thread t moves from one place of the scheduler's code to another.        *)
Move(t, from, to) ==
  /\ t # victim
  /\ pc[t] = "idle"
  /\ at[t] = from
  /\ at' = [at EXCEPT ![t] = to]

(* SIGINT_HANDLER goes through list_, which the constructor enters last.    *)
Registered == at[Owner] # "ctor"

-------------------------------------------------------------------------------
(* The constructor and the destructor. *)

StartWorker(w) ==
  /\ at[Owner] = "ctor"
  /\ Owner # victim
  /\ w \in Workers
  /\ at[w] = "unstarted"
  /\ at' = [at EXCEPT ![w] = "loop"]
  /\ UNCHANGED <<vars, running_, victim>>

Register ==
  /\ \A w \in Workers : at[w] # "unstarted"
  /\ Move(Owner, "ctor", "user")
  /\ UNCHANGED <<vars, running_, victim>>

(* Mutant: the destructor ends the loops before it joins. *)
DestroyClearsRunning ==
  /\ Move(Owner, "user", "dtor")
  /\ running_' = FALSE
  /\ UNCHANGED <<vars, victim>>

Destroy ==
  /\ Move(Owner, "user", "dtor")
  /\ UNCHANGED <<vars, running_, victim>>

(* Mutant: the destructor joins only one thread. *)
JoinedOne ==
  /\ \E w \in Workers : at[w] = "exited"
  /\ Move(Owner, "dtor", "gone")
  /\ UNCHANGED <<vars, running_, victim>>

(* The last join returns; the queue is destroyed with the object. *)
Joined ==
  /\ \A w \in Workers : at[w] = "exited"
  /\ Move(Owner, "dtor", "gone")
  /\ UNCHANGED <<vars, running_, victim>>

-------------------------------------------------------------------------------
(* thread_start *)

WhileRunning(w) ==
  /\ w \in Workers
  /\ Move(w, "loop", IF running_ THEN "pull" ELSE "exited")
  /\ UNCHANGED <<vars, running_, victim>>

CallPull(w) ==
  /\ at[w] = "pull"
  /\ w # victim
  /\ PullLock(w)
  /\ UNCHANGED schedVars

(* The copy of the handle that ends the call of pull. *)
PullReturns(w) ==
  /\ w # victim
  /\ PullCopy(w)
  /\ at' = [at EXCEPT ![w] = "check"]
  /\ UNCHANGED <<running_, victim>>

(* Mutant: running_ is not tested again after pull. *)
CheckNothing(w) ==
  /\ w \in Workers
  /\ Move(w, "check", "resume")
  /\ UNCHANGED <<vars, running_, victim>>

CheckRunning(w) ==
  /\ w \in Workers
  /\ Move(w, "check", IF running_ THEN "resume" ELSE "exited")
  /\ UNCHANGED <<vars, running_, victim>>

(* handle.resume() returns: the coroutine has suspended again or finished. *)
ResumeReturns(w) ==
  /\ w \in Workers
  /\ Move(w, "resume", "loop")
  /\ UNCHANGED <<vars, running_, victim>>

(* enqueue, or co_await on the scheduler, by a coroutine that runs on a     *)
(* worker or on the owner's thread.                                         *)
Enqueue(t, x) ==
  /\ at[t] \in {"user", "resume"}
  /\ t # victim
  /\ x \in Items \ Nulls
  /\ PushLock(t, x)
  /\ UNCHANGED schedVars

(* The rest of a call of push or pull.  A victim does not run. *)
QueueStep(t) ==
  /\ t # victim
  /\ \/ PushStore(t) \/ PushUnlock(t) \/ PushNotify(t)
     \/ PullWait(t) \/ PullRelock(t) \/ PullTake(t) \/ PullUnlock(t)
  /\ UNCHANGED schedVars

Spurious(t) == SpuriousWake(t) /\ UNCHANGED schedVars

-------------------------------------------------------------------------------
(* SIGINT_HANDLER *)

(* The signal is delivered to some live thread, wherever it is. *)
Deliver(t) ==
  /\ at[Handler] = "none"
  /\ at[t] \notin {"unstarted", "exited", "gone"}
  /\ t # Handler
  /\ victim' = t
  /\ at' = [at EXCEPT ![Handler] = "stop"]
  /\ UNCHANGED <<vars, running_>>

Stop ==
  /\ IF Registered
       THEN Move(Handler, "stop", "push") /\ running_' = FALSE
            /\ UNCHANGED victim
       ELSE Move(Handler, "stop", "return") /\ victim' = NoThread
            /\ UNCHANGED running_
  /\ UNCHANGED vars

PushNull(x) ==
  /\ at[Handler] = "push"
  /\ x \in Nulls
  /\ PushLock(Handler, x)
  /\ UNCHANGED schedVars

(* Mutant: one null handle too few. *)
HandlerReturnsEarly ==
  /\ Cardinality(Nulls \ pushed) <= 1
  /\ Move(Handler, "push", "return")
  /\ victim' = NoThread
  /\ UNCHANGED <<vars, running_>>

HandlerReturns ==
  /\ Nulls \subseteq pushed
  /\ Move(Handler, "push", "return")
  /\ victim' = NoThread
  /\ UNCHANGED <<vars, running_>>

-------------------------------------------------------------------------------

WorkerStep(w) ==
  \/ WhileRunning(w) \/ CheckRunning(w) \/ ResumeReturns(w)
  \/ CallPull(w) \/ PullReturns(w)

HandlerStep == Stop \/ HandlerReturns \/ \E x \in Nulls : PushNull(x)

OwnerStep == Register \/ Joined \/ \E w \in Workers : StartWorker(w)

SchedNext ==
  \/ OwnerStep
  \/ Destroy
  \/ \E w \in Workers : WorkerStep(w)
  \/ \E t \in Threads :
       \/ QueueStep(t) \/ Spurious(t) \/ Deliver(t)
       \/ \E x \in Items : Enqueue(t, x)
  \/ HandlerStep

(* Threads keep running, resumed coroutines come to their next suspension,  *)
(* and whoever keeps asking for the mutex while it is released again and    *)
(* again gets it.  No signal, push or destruction has to happen.            *)
SchedFairness ==
  /\ WF_allVars(OwnerStep)
  /\ SF_allVars(HandlerStep \/ QueueStep(Handler))
  /\ \A w \in Workers : SF_allVars(WorkerStep(w) \/ QueueStep(w))
  /\ WF_allVars(QueueStep(Owner))

SchedSpec == SchedInit /\ [][SchedNext]_allVars

FairSchedSpec == SchedSpec /\ SchedFairness

-------------------------------------------------------------------------------

(* Every thread is at a place of the code it runs. *)
SchedTypeOK ==
  /\ at \in [Threads -> WorkerPC \cup OwnerPC \cup HandlerPC]
  /\ \A w \in Workers : at[w] \in WorkerPC
  /\ at[Owner] \in OwnerPC
  /\ at[Handler] \in HandlerPC
  /\ running_ \in BOOLEAN
  /\ victim \in (Threads \ {Handler}) \cup {NoThread}

(* The workers that have seen running_ before it was cleared, or that did   *)
(* not look yet, and that will take one more element each before they look. *)
WillTake ==
  {w \in Workers : at[w] = "pull" /\ pc[w] \in {"idle", "pull", "waiting", "woken"}}

(* The null handles the handler has yet to store in the queue. *)
NullsToCome ==
  {x \in Nulls : /\ at[Handler] = "push"
                 /\ x \notin pushed \/ (pc[Handler] = "push" /\ arg[Handler] = x)}

(* Once running_ is cleared, each worker that is committed to a pull finds  *)
(* an element: those in the queue and the null handles still to be pushed   *)
(* are at least as many as the workers that will take one.                  *)
EnoughNulls ==
  ~ running_ => Cardinality(WillTake) <= curr_size_ + Cardinality(NullsToCome)

(* No worker resumes a null handle: running_ is cleared before the first    *)
(* one is pushed and tested again after every pull, whatever slot or array  *)
(* the reference pull returned designates by the time it is copied.         *)
NullNeverResumed ==
  \A w \in Workers : at[w] = "resume" => got[w] \notin Nulls \cup {NoItem}

(* The queue is destroyed with the scheduler: by then nobody is inside push *)
(* or pull, and the handler is not between two of its pushes.               *)
QueueOutlivesCalls ==
  at[Owner] = "gone" =>
    /\ \A t \in Threads : pc[t] = "idle"
    /\ at[Handler] # "push"

Stopped == \A w \in Workers : at[w] = "exited"

(* A SIGINT that arrives after the constructor has entered the scheduler in *)
(* list_, on a thread that is not inside a critical section of the queue,   *)
(* ends every worker.                                                       *)
SigintStopsWorkers ==
  (at[Handler] = "stop" /\ Registered /\ m_ # victim) ~> Stopped

Queued(x) == \E i \in 1..curr_size_ : Contents[i] = x

(* Only SIGINT leaves a handle behind: whatever the workers and the owner's *)
(* destructor do, a coroutine handle in the queue is resumed by a worker,   *)
(* unless the handler has cleared running_.  Stated for a queue that no     *)
(* more handles pass through than INIT_SIZE, where the reference pull       *)
(* returns is still good when it is copied.                                 *)
HandlesAreResumed ==
  Cardinality(Items \ Nulls) <= INIT_SIZE =>
    \A x \in Items \ Nulls :
      Queued(x) ~> \/ \E w \in Workers : at[w] = "resume" /\ got[w] = x
                   \/ at[Handler] # "none" /\ ~ running_

===============================================================================
