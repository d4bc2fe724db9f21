---------------------------- MODULE SchedulerProofs ----------------------------
(****************************************************************************)
(* Theorems about Scheduler, for any number of workers and handles.  Every  *)
(* step of the scheduler is one of its queue or none of its steps, so what  *)
(* is proved of the queue holds; SchedInv adds what the places of the       *)
(* threads in the scheduler's own code tell of the flag, the signal and the *)
(* null handles.                                                            *)
(****************************************************************************)
EXTENDS Scheduler, MultiThreadQueueProofs

PushPC == {"push", "stored", "notify"}
PullPC == {"pull", "waiting", "woken", "holding", "copy"}

(* Where the scheduler's code calls push and pull. *)
Calls ==
  \A t \in Threads :
    /\ pc[t] \in PullPC => at[t] = "pull"
    /\ pc[t] \in PushPC => at[t] \in {"user", "resume", "push"}

(* running_ is cleared by the handler, before its first push; the thread it *)
(* runs on is one that has begun and not ended; workers end when running_   *)
(* is cleared, and the owner waits for them.                                *)
SignalState ==
  /\ at[Handler] \in {"none", "stop"} => running_
  /\ at[Handler] = "push" => ~ running_
  /\ running_ => pushed \cap Nulls = {}
  /\ at[Handler] \in {"stop", "push"} =>
       /\ victim \in Threads \ {Handler}
       /\ at[victim] \notin {"unstarted", "exited", "gone"}
  /\ \A w \in Workers : at[w] = "exited" => ~ running_
  /\ at[Owner] = "gone" => \A w \in Workers : at[w] = "exited"

(* What is in the queue, and in the slot of the present array that a result *)
(* of pull refers to, has been pushed.                                      *)
HeldIsPushed ==
  /\ \A i \in 1..curr_size_ : Contents[i] \in pushed
  /\ \A t \in Threads : pc[t] = "push" => arg[t] \in pushed
  /\ \A t \in Threads :
       pc[t] \in {"holding", "copy"} /\ refGen[t] = gen => data_[refSlot[t]] \in pushed

(* What is copied while running_ is set is no null handle. *)
GotReal ==
  \A w \in Workers :
    at[w] = "resume" \/ (at[w] = "check" /\ running_) => got[w] \notin Nulls \cup {NoItem}

SchedInv ==
  /\ IInv /\ SchedTypeOK /\ Calls /\ SignalState /\ HeldIsPushed /\ GotReal
  /\ EnoughNulls

-------------------------------------------------------------------------------
(* The queue of a scheduler *)

(* Every step is a step of the queue or none. *)
LEMMA QueueSteps == [SchedNext]_allVars => [Next]_vars
<1> SUFFICES ASSUME [SchedNext]_allVars PROVE [Next]_vars
  OBVIOUS
<1> USE SchedulerAssumption DEF Threads
<1>1. CASE OwnerStep \/ Destroy
  BY <1>1 DEF OwnerStep, Destroy, Register, Joined, StartWorker
<1>2. ASSUME NEW w \in Workers, WorkerStep(w) PROVE [Next]_vars
  BY <1>2 DEF WorkerStep, WhileRunning, CheckRunning, ResumeReturns, CallPull,
              PullReturns, Next, Step
<1>3. ASSUME NEW t \in Threads, QueueStep(t) \/ Spurious(t) \/ Deliver(t)
      PROVE  [Next]_vars
  BY <1>3 DEF QueueStep, Spurious, Deliver, Next, Step
<1>4. ASSUME NEW t \in Threads, NEW x \in Items, Enqueue(t, x) PROVE [Next]_vars
  BY <1>4 DEF Enqueue, Next
<1>5. CASE HandlerStep
  <2>1. Handler \in Threads /\ Nulls \subseteq Items OBVIOUS
  <2> QED BY <1>5, <2>1 DEF HandlerStep, Stop, HandlerReturns, PushNull, Next
<1>6. CASE UNCHANGED allVars
  BY <1>6 DEF allVars
<1> QED BY <1>1, <1>2, <1>3, <1>4, <1>5, <1>6 DEF SchedNext

(* A scheduler uses its queue as the queue is meant to be used: each of its *)
(* behaviours is one of the queue.                                          *)
THEOREM SchedulerUsesQueue == SchedSpec => Spec
BY QueueSteps, PTL DEF SchedSpec, SchedInit, Spec

(* The handles leave the scheduler's queue in the order they were pushed.   *)
THEOREM HandlesAreFifo == SchedSpec => RefinesFifo
BY SchedulerUsesQueue, ImplementsFifo, PTL

(* No worker is blocked while handles lie in the queue that nobody will     *)
(* announce or look for.                                                    *)
THEOREM WorkersAreWoken == SchedSpec => []NoLostWakeup
BY SchedulerUsesQueue, NoWakeupIsLost, PTL

-------------------------------------------------------------------------------
(* Places *)

(* A move changes the place of one thread, which is in no call. *)
LEMMA Moved ==
  ASSUME SchedTypeOK, NEW t \in Threads, NEW a, NEW b, Move(t, a, b)
  PROVE  /\ t # victim /\ pc[t] = "idle" /\ at[t] = a
         /\ \A u \in Threads : at'[u] = IF u = t THEN b ELSE at[u]
BY DEF Move, SchedTypeOK

(* Workers, owner and handler are the threads. *)
LEMMA Kinds ==
  /\ Owner \in Threads /\ Handler \in Threads /\ Workers \subseteq Threads
  /\ \A t \in Threads : t \in Workers \/ t = Owner \/ t = Handler
  /\ Owner \notin Workers /\ Handler \notin Workers /\ Owner # Handler
BY SchedulerAssumption DEF Threads

(* Every step keeps the types. *)
LEMMA SchedTypeStep == SchedTypeOK /\ [SchedNext]_allVars => SchedTypeOK'
<1> SUFFICES ASSUME SchedTypeOK, [SchedNext]_allVars PROVE SchedTypeOK'
  OBVIOUS
<1> USE Kinds DEF Move, SchedTypeOK, WorkerPC, OwnerPC, HandlerPC
<1>1. CASE OwnerStep \/ Destroy
  BY <1>1 DEF OwnerStep, Destroy, Register, Joined, StartWorker
<1>2. ASSUME NEW w \in Workers, WorkerStep(w) PROVE SchedTypeOK'
  BY <1>2 DEF WorkerStep, WhileRunning, CheckRunning, ResumeReturns, CallPull,
              PullReturns, schedVars
<1>3. ASSUME NEW t \in Threads, QueueStep(t) \/ Spurious(t) \/ Deliver(t)
      PROVE  SchedTypeOK'
  BY <1>3 DEF QueueStep, Spurious, Deliver, schedVars
<1>4. ASSUME NEW t \in Threads, NEW x \in Items, Enqueue(t, x) PROVE SchedTypeOK'
  BY <1>4 DEF Enqueue, schedVars
<1>5. CASE HandlerStep
  BY <1>5 DEF HandlerStep, Stop, HandlerReturns, PushNull, schedVars
<1>6. CASE UNCHANGED allVars
  BY <1>6 DEF allVars, schedVars
<1> QED BY <1>1, <1>2, <1>3, <1>4, <1>5, <1>6 DEF SchedNext

(* Every step keeps the calls where they are. *)
LEMMA CallsStep == SchedInv /\ [SchedNext]_allVars => Calls'
<1> SUFFICES ASSUME SchedInv, [SchedNext]_allVars PROVE Calls'
  OBVIOUS
<1>0. SchedTypeOK /\ Calls /\ pc \in [Threads -> PC]
  BY DEF SchedInv, IInv, TypeOK
<1>00. at \in [Threads -> WorkerPC \cup OwnerPC \cup HandlerPC]
  BY <1>0 DEF SchedTypeOK
<1> USE Kinds DEF PullPC, PushPC, Goto
<1>a. ASSUME NEW t \in Threads, NEW a, NEW b, Move(t, a, b), UNCHANGED pc
      PROVE  Calls'
  BY <1>0, <1>a, Moved DEF Calls
<1>1. CASE OwnerStep \/ Destroy
  <2>1. CASE Register \/ Joined \/ Destroy
    BY <1>a, <2>1 DEF Register, Joined, Destroy, vars
  <2>2. ASSUME NEW w \in Workers, StartWorker(w) PROVE Calls'
    BY <1>0, <1>00, <2>2 DEF StartWorker, vars, Calls
  <2> QED BY <1>1, <2>1, <2>2 DEF OwnerStep
<1>2. ASSUME NEW w \in Workers, WorkerStep(w) PROVE Calls'
  <2>1. CASE WhileRunning(w) \/ CheckRunning(w) \/ ResumeReturns(w)
    BY <1>a, <2>1 DEF WhileRunning, CheckRunning, ResumeReturns, vars
  <2>2. CASE CallPull(w)
    BY <1>0, <1>00, <2>2 DEF CallPull, PullLock, schedVars, Calls
  <2>3. CASE PullReturns(w)
    BY <1>0, <1>00, <2>3 DEF PullReturns, PullCopy, Calls
  <2> QED BY <1>2, <2>1, <2>2, <2>3 DEF WorkerStep
<1>3. ASSUME NEW t \in Threads, QueueStep(t) PROVE Calls'
  <2>1. UNCHANGED at BY <1>3 DEF QueueStep, schedVars
  <2>2. CASE PushNotify(t)
    <3>1. PICK w \in Threads :
            /\ pc[t] = "notify"
            /\ pc' = [pc EXCEPT ![t] = "idle"] \/
               (pc[w] = "waiting" /\ pc' = [pc EXCEPT ![t] = "idle", ![w] = "woken"])
      BY <2>2 DEF PushNotify, At
    <3> QED BY <1>0, <2>1, <3>1 DEF Calls
  <2>3. CASE PushStore(t) \/ PushUnlock(t)
    BY <1>0, <2>1, <2>3 DEF PushStore, PushUnlock, Calls
  <2>4. CASE PullWait(t) \/ PullRelock(t) \/ PullTake(t) \/ PullUnlock(t)
    BY <1>0, <2>1, <2>4 DEF PullWait, PullRelock, PullTake, PullUnlock, Calls
  <2> QED BY <1>3, <2>2, <2>3, <2>4 DEF QueueStep
<1>4. ASSUME NEW t \in Threads, Spurious(t) \/ Deliver(t) PROVE Calls'
  <2>1. CASE Spurious(t)
    BY <1>0, <2>1 DEF Spurious, SpuriousWake, schedVars, Calls
  <2>2. CASE Deliver(t)
    BY <1>0, <1>00, <2>2 DEF Deliver, vars, Calls
  <2> QED BY <1>4, <2>1, <2>2
<1>5. ASSUME NEW t \in Threads, NEW x \in Items, Enqueue(t, x) PROVE Calls'
  BY <1>0, <1>5 DEF Enqueue, PushLock, schedVars, Calls
<1>6. CASE HandlerStep
  <2>1. CASE Stop \/ HandlerReturns
    BY <1>a, <2>1 DEF Stop, HandlerReturns, vars
  <2>2. ASSUME NEW x \in Nulls, PushNull(x) PROVE Calls'
    BY <1>0, <2>2 DEF PushNull, PushLock, schedVars, Calls
  <2> QED BY <1>6, <2>1, <2>2 DEF HandlerStep
<1>7. CASE UNCHANGED allVars
  BY <1>0, <1>7 DEF allVars, vars, schedVars, Calls
<1> QED BY <1>1, <1>2, <1>3, <1>4, <1>5, <1>6, <1>7 DEF SchedNext

(* Every step keeps what the handler's place tells. *)
LEMMA SignalStep == SchedInv /\ [SchedNext]_allVars => SignalState'
<1> SUFFICES ASSUME SchedInv, [SchedNext]_allVars PROVE SignalState'
  OBVIOUS
<1>0. SchedTypeOK /\ Calls /\ SignalState
  BY DEF SchedInv
<1>00. /\ at \in [Threads -> WorkerPC \cup OwnerPC \cup HandlerPC]
       /\ \A w \in Workers : at[w] \in WorkerPC
       /\ at[Owner] \in OwnerPC /\ at[Handler] \in HandlerPC
       /\ running_ \in BOOLEAN
  BY <1>0 DEF SchedTypeOK
<1> USE Kinds DEF WorkerPC, OwnerPC, HandlerPC
\* The steps that leave the scheduler's own state and the elements alone.
<1>a. ASSUME UNCHANGED <<schedVars, pushed>> PROVE SignalState'
  BY <1>0, <1>a DEF SignalState, schedVars
<1>1. CASE OwnerStep \/ Destroy
  <2>1. CASE Register
    BY <1>0, <1>00, <2>1 DEF Register, Move, vars, SignalState
  <2>2. CASE Joined
    BY <1>0, <1>00, <2>2 DEF Joined, Move, vars, SignalState
  <2>3. CASE Destroy
    BY <1>0, <1>00, <2>3 DEF Destroy, Move, vars, SignalState
  <2>4. ASSUME NEW w \in Workers, StartWorker(w) PROVE SignalState'
    BY <1>0, <1>00, <2>4 DEF StartWorker, vars, SignalState
  <2> QED BY <1>1, <2>1, <2>2, <2>3, <2>4 DEF OwnerStep
<1>2. ASSUME NEW w \in Workers, WorkerStep(w) PROVE SignalState'
  <2>1. CASE WhileRunning(w)
    BY <1>0, <1>00, <2>1 DEF WhileRunning, Move, vars, SignalState
  <2>2. CASE CheckRunning(w)
    BY <1>0, <1>00, <2>2 DEF CheckRunning, Move, vars, SignalState
  <2>3. CASE ResumeReturns(w)
    BY <1>0, <1>00, <2>3 DEF ResumeReturns, Move, vars, SignalState
  <2>4. CASE CallPull(w)
    BY <1>a, <2>4 DEF CallPull, PullLock
  <2>5. CASE PullReturns(w)
    <3>1. pc[w] \in PullPC BY <2>5 DEF PullReturns, PullCopy, Goto, PullPC
    <3>2. at[w] = "pull" BY <1>0, <3>1 DEF Calls
    <3> QED BY <1>0, <1>00, <2>5, <3>2 DEF PullReturns, PullCopy, SignalState
  <2> QED BY <1>2, <2>1, <2>2, <2>3, <2>4, <2>5 DEF WorkerStep
<1>3. ASSUME NEW t \in Threads, QueueStep(t) \/ Spurious(t) PROVE SignalState'
  BY <1>a, <1>3 DEF QueueStep, Spurious, PushStore, PushUnlock, PushNotify,
     PullWait, PullRelock, PullTake, PullUnlock, SpuriousWake
<1>4. ASSUME NEW t \in Threads, Deliver(t) PROVE SignalState'
  BY <1>0, <1>00, <1>4 DEF Deliver, vars, SignalState
<1>5. ASSUME NEW t \in Threads, NEW x \in Items, Enqueue(t, x) PROVE SignalState'
  <2>1. UNCHANGED schedVars /\ pushed' = pushed \cup {x} /\ x \notin Nulls
    BY <1>5 DEF Enqueue, PushLock
  <2> QED BY <1>0, <2>1 DEF schedVars, SignalState
<1>6. CASE HandlerStep
  <2>1. CASE Stop
    BY <1>0, <1>00, <2>1 DEF Stop, Move, vars, SignalState
  <2>2. CASE HandlerReturns
    BY <1>0, <1>00, <2>2 DEF HandlerReturns, Move, vars, SignalState
  <2>3. ASSUME NEW x \in Nulls, PushNull(x) PROVE SignalState'
    <3>1. UNCHANGED schedVars /\ at[Handler] = "push"
      BY <2>3 DEF PushNull
    <3> QED BY <1>0, <3>1 DEF schedVars, SignalState
  <2> QED BY <1>6, <2>1, <2>2, <2>3 DEF HandlerStep
<1>7. CASE UNCHANGED allVars
  BY <1>a, <1>7 DEF allVars, vars
<1> QED BY <1>1, <1>2, <1>3, <1>4, <1>5, <1>6, <1>7 DEF SchedNext

-------------------------------------------------------------------------------
(* What a worker resumes *)

(* The abstract content of the queue is a sequence of curr_size_ elements.  *)
LEMMA ContentsSeq ==
  ASSUME IInv
  PROVE  Contents \in Seq(Items \cup {NoItem}) /\ Len(Contents) = curr_size_
<1>1. /\ size_ \in Nat \ {0} /\ top_ \in 0..(size_ - 1) /\ curr_size_ \in Nat
      /\ data_ \in [0..(size_ - 1) -> Items \cup {NoItem}]
  BY DEF IInv, TypeOK
<1>2. \A i \in 1..curr_size_ : data_[Slot(i - 1)] \in Items \cup {NoItem}
  <2>1. \A i \in 1..curr_size_ : (top_ + (i - 1)) % size_ \in 0..(size_ - 1)
    BY <1>1, ModRange
  <2> QED BY <1>1, <2>1 DEF Slot
<1> QED BY <1>1, <1>2 DEF Contents

(* The steps of the queue that move no element. *)
LEMMA HeldQuiet ==
  ASSUME HeldIsPushed, UNCHANGED <<ringVars, refGen, refSlot>>, pushed \subseteq pushed',
         \A t \in Threads : pc'[t] = "push" => arg'[t] \in pushed',
         \A t \in Threads : pc'[t] \in {"holding", "copy"} => pc[t] \in {"holding", "copy"}
  PROVE  HeldIsPushed'
<1>1. Contents' = Contents BY DEF ringVars, Contents, Slot
<1> QED BY <1>1 DEF HeldIsPushed, ringVars

(* Every step of the queue keeps what it holds among the elements pushed.   *)
LEMMA HeldStep == IInv /\ HeldIsPushed /\ [Next]_vars => HeldIsPushed'
<1> SUFFICES ASSUME IInv, HeldIsPushed, [Next]_vars PROVE HeldIsPushed'
  OBVIOUS
<1>0. TypeOK /\ pc \in [Threads -> PC] /\ arg \in [Threads -> Items \cup {NoItem}]
  BY DEF IInv, TypeOK
<1> USE DEF Goto
<1>1. ASSUME NEW t \in Threads, NEW x \in Items, PushLock(t, x) PROVE HeldIsPushed'
  <2>1. UNCHANGED <<ringVars, refGen, refSlot>> /\ pushed' = pushed \cup {x}
    BY <1>1 DEF PushLock, pullVars
  <2>2. \A u \in Threads : pc'[u] = "push" => arg'[u] \in pushed'
    BY <1>0, <1>1 DEF PushLock, HeldIsPushed
  <2>3. \A u \in Threads : pc'[u] \in {"holding", "copy"} => pc[u] \in {"holding", "copy"}
    BY <1>0, <1>1 DEF PushLock
  <2> QED BY <2>1, <2>2, <2>3, HeldQuiet
<1>2. ASSUME NEW t \in Threads, PushStore(t) PROVE HeldIsPushed'
  <2>1. Contents' = Append(Contents, arg[t]) /\ curr_size_' = curr_size_ + 1
    BY <1>2, PushAppends DEF PushStore
  <2>2. arg[t] \in pushed /\ UNCHANGED <<pushed, arg, refGen, refSlot>>
    BY <1>2 DEF PushStore, HeldIsPushed
  <2>3. \A i \in 1..curr_size_' : Contents'[i] \in pushed'
    <3>1. /\ Contents \in Seq(Items \cup {NoItem}) /\ Len(Contents) = curr_size_
          /\ curr_size_ \in Nat /\ arg[t] \in Items \cup {NoItem}
      BY <1>0, ContentsSeq DEF TypeOK
    <3>2. \A i \in 1..curr_size_' :
            Contents'[i] = IF i = curr_size_ + 1 THEN arg[t] ELSE Contents[i]
      BY <2>1, <3>1
    <3>3. \A i \in 1..curr_size_' : i = curr_size_ + 1 \/ i \in 1..curr_size_
      BY <2>1, <3>1
    <3> QED BY <2>2, <3>2, <3>3 DEF HeldIsPushed
  <2>4. \A u \in Threads : pc'[u] = "push" => arg'[u] \in pushed'
    BY <1>0, <1>2, <2>2 DEF PushStore, HeldIsPushed
  <2>5. ASSUME NEW u \in Threads, pc'[u] \in {"holding", "copy"}, refGen'[u] = gen'
        PROVE  data_'[refSlot'[u]] \in pushed'
    <3>1. pc[u] \in {"holding", "copy"} BY <1>0, <1>2, <2>5 DEF PushStore
    <3>2. CASE StoreInPlace(arg[t])
      <4>1. refGen[u] = gen BY <2>2, <2>5, <3>2 DEF StoreInPlace
      <4>2. refSlot[u] \in 0..(size_ - 1) BY <4>1 DEF IInv, RefInRange
      <4>3. data_[refSlot[u]] \in pushed BY <3>1, <4>1 DEF HeldIsPushed
      <4>4. data_ \in [0..(size_ - 1) -> Items \cup {NoItem}] BY <1>0 DEF TypeOK
      <4> QED BY <2>2, <3>2, <4>2, <4>3, <4>4 DEF StoreInPlace
    <3>3. CASE StoreResized(arg[t])
      <4>1. gen' = gen + 1 /\ refGen[u] = gen + 1 BY <2>2, <2>5, <3>3 DEF StoreResized
      <4>2. refGen[u] \in Nat /\ gen \in Nat /\ refGen[u] <= gen
        BY <1>0 DEF TypeOK, IInv, RefInRange
      <4> QED BY <4>1, <4>2
    <3> QED BY <1>2, <3>2, <3>3 DEF PushStore
  <2> QED BY <2>3, <2>4, <2>5 DEF HeldIsPushed
<1>3. ASSUME NEW t \in Threads, PullTake(t) PROVE HeldIsPushed'
  <2>1. /\ Contents # <<>> /\ Contents' = Tail(Contents) /\ data_[top_] = Head(Contents)
    BY <1>3, PullTakesFirst
  <2>2. /\ Contents \in Seq(Items \cup {NoItem}) /\ Len(Contents) = curr_size_
        /\ curr_size_ \in Nat
    BY <1>0, ContentsSeq DEF TypeOK
  <2>3. curr_size_' = curr_size_ - 1 /\ UNCHANGED <<data_, gen, pushed, arg>>
    BY <1>3 DEF PullTake
  <2>4. \A i \in 1..curr_size_' : Contents'[i] = Contents[i + 1] /\ i + 1 \in 1..curr_size_
    BY <2>1, <2>2, <2>3
  <2>5. data_[top_] \in pushed
    <3>1. 1 \in 1..curr_size_ /\ Head(Contents) = Contents[1] BY <2>1, <2>2
    <3> QED BY <2>1, <3>1 DEF HeldIsPushed
  <2>6. \A i \in 1..curr_size_' : Contents'[i] \in pushed'
    BY <2>3, <2>4 DEF HeldIsPushed
  <2>7. \A u \in Threads : pc'[u] = "push" => arg'[u] \in pushed'
    BY <1>0, <1>3, <2>3 DEF PullTake, HeldIsPushed
  <2>8. ASSUME NEW u \in Threads, pc'[u] \in {"holding", "copy"}, refGen'[u] = gen'
        PROVE  data_'[refSlot'[u]] \in pushed'
    <3>1. CASE u = t
      <4>1. refSlot'[u] = top_ BY <1>0, <1>3, <3>1 DEF PullTake, TypeOK
      <4> QED BY <2>3, <2>5, <4>1
    <3>2. CASE u # t
      <4>1. pc'[u] = pc[u] /\ refGen'[u] = refGen[u] /\ refSlot'[u] = refSlot[u]
        BY <1>0, <1>3, <3>2 DEF PullTake, TypeOK
      <4> QED BY <2>3, <2>8, <4>1 DEF HeldIsPushed
    <3> QED BY <3>1, <3>2
  <2> QED BY <2>6, <2>7, <2>8 DEF HeldIsPushed
<1>4. ASSUME NEW t \in Threads,
             \/ PushUnlock(t) \/ PushNotify(t) \/ PullLock(t) \/ PullWait(t)
             \/ SpuriousWake(t) \/ PullRelock(t) \/ PullUnlock(t) \/ PullCopy(t)
      PROVE  HeldIsPushed'
  <2>1. UNCHANGED <<ringVars, refGen, refSlot, pushed, arg>>
    BY <1>4 DEF PushUnlock, PushNotify, PullLock, PullWait, SpuriousWake, PullRelock,
       PullUnlock, PullCopy, pullVars
  <2>2. \A u \in Threads : pc'[u] = "push" => pc[u] = "push"
    BY <1>0, <1>4 DEF PushUnlock, PushNotify, PullLock, PullWait, SpuriousWake,
       PullRelock, PullUnlock, PullCopy, At
  <2>3. \A u \in Threads : pc'[u] \in {"holding", "copy"} => pc[u] \in {"holding", "copy"}
    BY <1>0, <1>4 DEF PushUnlock, PushNotify, PullLock, PullWait, SpuriousWake,
       PullRelock, PullUnlock, PullCopy, At
  <2>4. \A u \in Threads : pc'[u] = "push" => arg'[u] \in pushed'
    BY <2>1, <2>2 DEF HeldIsPushed
  <2> QED BY <2>1, <2>3, <2>4, HeldQuiet
<1>5. CASE UNCHANGED vars
  BY <1>5, HeldQuiet DEF vars, pullVars, HeldIsPushed
<1> QED BY <1>1, <1>2, <1>3, <1>4, <1>5 DEF Next, Step

(* Every step keeps what a worker has copied from being a null handle.      *)
LEMMA GotStep == SchedInv /\ [SchedNext]_allVars => GotReal'
<1> SUFFICES ASSUME SchedInv, [SchedNext]_allVars PROVE GotReal'
  OBVIOUS
<1>0. SchedTypeOK /\ Calls /\ SignalState /\ HeldIsPushed /\ GotReal /\ TypeOK
  BY DEF SchedInv, IInv
<1>00. /\ at \in [Threads -> WorkerPC \cup OwnerPC \cup HandlerPC] /\ running_ \in BOOLEAN
       /\ \A w \in Workers : at[w] \in WorkerPC
       /\ got \in [Threads -> Items \cup {NoItem, Garbage}]
  BY <1>0 DEF SchedTypeOK, TypeOK
<1> USE Kinds
\* The steps that copy nothing and move no worker.
<1>a. ASSUME UNCHANGED got, running_' => running_, \A w \in Workers : at'[w] = at[w]
      PROVE  GotReal'
  BY <1>0, <1>a DEF GotReal
<1>1. CASE OwnerStep \/ Destroy
  <2>1. CASE Register \/ Joined \/ Destroy
    BY <1>00, <1>a, <2>1 DEF Register, Joined, Destroy, Move, vars, pullVars
  <2>2. ASSUME NEW w \in Workers, StartWorker(w) PROVE GotReal'
    BY <1>0, <1>00, <2>2 DEF StartWorker, vars, pullVars, GotReal
  <2> QED BY <1>1, <2>1, <2>2 DEF OwnerStep
<1>2. ASSUME NEW w \in Workers, WorkerStep(w) PROVE GotReal'
  <2>1. CASE WhileRunning(w)
    BY <1>0, <1>00, <2>1 DEF WhileRunning, Move, vars, pullVars, GotReal
  <2>2. CASE CheckRunning(w)
    BY <1>0, <1>00, <2>2 DEF CheckRunning, Move, vars, pullVars, GotReal
  <2>3. CASE ResumeReturns(w)
    BY <1>0, <1>00, <2>3 DEF ResumeReturns, Move, vars, pullVars, GotReal
  <2>4. CASE CallPull(w)
    BY <1>a, <2>4 DEF CallPull, PullLock, pullVars, schedVars
  <2>5. CASE PullReturns(w)
    <3>1. PICK v \in IF refGen[w] = gen THEN {data_[refSlot[w]]} ELSE pushed \cup {Garbage} :
            got' = [got EXCEPT ![w] = v]
      BY <2>5 DEF PullReturns, PullCopy
    <3>2. pc[w] = "copy" /\ UNCHANGED running_ /\ at' = [at EXCEPT ![w] = "check"]
      BY <2>5 DEF PullReturns, PullCopy, Goto
    <3>3. v \in pushed \cup {Garbage}
      BY <3>1, <3>2, <1>0 DEF HeldIsPushed
    <3>4. running_ => v \notin Nulls \cup {NoItem}
      <4>1. pushed \subseteq Items /\ Nulls \subseteq Items
        BY <1>0, SchedulerAssumption DEF TypeOK
      <4> QED BY <1>0, <3>3, <4>1, QueueAssumption DEF SignalState
    <3>5. \A u \in Workers : u # w => got'[u] = got[u] /\ at'[u] = at[u]
      BY <1>00, <3>1, <3>2
    <3>6. got'[w] = v /\ at'[w] = "check" BY <1>00, <3>1, <3>2
    <3> QED BY <1>0, <3>2, <3>4, <3>5, <3>6 DEF GotReal
  <2> QED BY <1>2, <2>1, <2>2, <2>3, <2>4, <2>5 DEF WorkerStep
<1>3. ASSUME NEW t \in Threads,
             QueueStep(t) \/ Spurious(t) \/ (\E x \in Items : Enqueue(t, x))
      PROVE  GotReal'
  <2>1. UNCHANGED <<got, schedVars>>
    BY <1>3 DEF QueueStep, Spurious, Enqueue, PushStore, PushUnlock, PushNotify, PullWait,
       PullRelock, PullTake, PullUnlock, SpuriousWake, PushLock, pullVars
  <2> QED BY <1>a, <2>1 DEF schedVars
<1>4. ASSUME NEW t \in Threads, Deliver(t) PROVE GotReal'
  BY <1>00, <1>a, <1>4 DEF Deliver, vars, pullVars
<1>5. CASE HandlerStep
  <2>1. CASE Stop
    <3>1. UNCHANGED got /\ \A w \in Workers : at'[w] = at[w]
      BY <1>00, <2>1 DEF Stop, Move, vars, pullVars
    <3>2. running_' => running_ BY <2>1 DEF Stop
    <3> QED BY <1>a, <3>1, <3>2
  <2>2. CASE HandlerReturns
    BY <1>00, <1>a, <2>2 DEF HandlerReturns, Move, vars, pullVars
  <2>3. ASSUME NEW x \in Nulls, PushNull(x) PROVE GotReal'
    BY <1>a, <2>3 DEF PushNull, PushLock, pullVars, schedVars
  <2> QED BY <1>5, <2>1, <2>2, <2>3 DEF HandlerStep
<1>6. CASE UNCHANGED allVars
  BY <1>a, <1>6 DEF allVars, vars, pullVars, schedVars
<1> QED BY <1>1, <1>2, <1>3, <1>4, <1>5, <1>6 DEF SchedNext

-------------------------------------------------------------------------------
(* Null handles *)

(* The sets that are counted are finite. *)
LEMMA Finite ==
  /\ IsFiniteSet(Workers) /\ IsFiniteSet(Nulls)
  /\ IsFiniteSet(WillTake) /\ IsFiniteSet(NullsToCome)
  /\ IsFiniteSet(WillTake') /\ IsFiniteSet(NullsToCome')
<1>1. IsFiniteSet(Workers) /\ IsFiniteSet(Nulls)
  BY QueueAssumption, SchedulerAssumption, Kinds, FS_Subset
<1>2. /\ WillTake \subseteq Workers /\ NullsToCome \subseteq Nulls
      /\ WillTake' \subseteq Workers /\ NullsToCome' \subseteq Nulls
  BY DEF WillTake, NullsToCome
<1> QED BY <1>1, <1>2, FS_Subset

(* Nobody more takes, no element leaves and no null handle is given up.     *)
LEMMA EnoughKept ==
  ASSUME EnoughNulls, TypeOK, ~ running_, WillTake' \subseteq WillTake,
         NullsToCome \subseteq NullsToCome', UNCHANGED curr_size_
  PROVE  EnoughNulls'
<1>1. /\ Cardinality(WillTake') <= Cardinality(WillTake)
      /\ Cardinality(NullsToCome) <= Cardinality(NullsToCome')
  BY Finite, FS_Subset
<1>2. /\ Cardinality(WillTake) \in Nat /\ Cardinality(NullsToCome) \in Nat
      /\ Cardinality(WillTake') \in Nat /\ Cardinality(NullsToCome') \in Nat
      /\ curr_size_ \in Nat
  BY Finite, FS_CardinalityType DEF TypeOK
<1> QED BY <1>1, <1>2 DEF EnoughNulls

(* An element is stored, which may have been a null handle to come.         *)
LEMMA EnoughStored ==
  ASSUME EnoughNulls, TypeOK, ~ running_, WillTake' \subseteq WillTake, NEW x,
         NullsToCome \subseteq NullsToCome' \cup {x}, curr_size_' = curr_size_ + 1
  PROVE  EnoughNulls'
<1>1. Cardinality(NullsToCome' \cup {x}) <= Cardinality(NullsToCome') + 1
  <2>1. Cardinality(NullsToCome') \in Nat BY Finite, FS_CardinalityType
  <2>2. CASE x \in NullsToCome'
    <3>1. NullsToCome' \cup {x} = NullsToCome' BY <2>2
    <3> QED BY <2>1, <3>1
  <2>3. CASE x \notin NullsToCome'
    <3>1. Cardinality(NullsToCome' \cup {x}) = Cardinality(NullsToCome') + 1
      BY <2>3, Finite, FS_AddElement
    <3> QED BY <2>1, <3>1
  <2> QED BY <2>2, <2>3
<1>2. /\ IsFiniteSet(NullsToCome' \cup {x})
      /\ Cardinality(NullsToCome) <= Cardinality(NullsToCome' \cup {x})
      /\ Cardinality(WillTake') <= Cardinality(WillTake)
  BY Finite, FS_AddElement, FS_Subset
<1>3. /\ Cardinality(WillTake) \in Nat /\ Cardinality(NullsToCome) \in Nat
      /\ Cardinality(WillTake') \in Nat /\ Cardinality(NullsToCome') \in Nat
      /\ Cardinality(NullsToCome' \cup {x}) \in Nat /\ curr_size_ \in Nat
  BY <1>2, Finite, FS_CardinalityType DEF TypeOK
<1> QED BY <1>1, <1>2, <1>3 DEF EnoughNulls

(* A worker takes an element. *)
LEMMA EnoughTaken ==
  ASSUME EnoughNulls, TypeOK, ~ running_, NEW w \in WillTake, WillTake' = WillTake \ {w},
         NullsToCome' = NullsToCome, curr_size_' = curr_size_ - 1
  PROVE  EnoughNulls'
<1>1. Cardinality(WillTake') = Cardinality(WillTake) - 1
  BY Finite, FS_RemoveElement
<1>2. /\ Cardinality(WillTake) \in Nat /\ Cardinality(NullsToCome) \in Nat
      /\ curr_size_ \in Nat
  BY Finite, FS_CardinalityType DEF TypeOK
<1> QED BY <1>1, <1>2 DEF EnoughNulls

(* The handler clears running_: it has a null handle for every worker.      *)
LEMMA EnoughAtStop ==
  ASSUME NullsToCome' = Nulls, curr_size_' \in Nat
  PROVE  EnoughNulls'
<1>1. Cardinality(WillTake') <= Cardinality(Workers)
  BY Finite, FS_Subset DEF WillTake
<1>2. Cardinality(NullsToCome') = Cardinality(Workers)
  BY SchedulerAssumption
<1>3. Cardinality(WillTake') \in Nat /\ Cardinality(Workers) \in Nat
  BY Finite, FS_CardinalityType
<1> QED BY <1>1, <1>2, <1>3 DEF EnoughNulls

(* Every step leaves an element for each worker that will take one.         *)
LEMMA EnoughStep == SchedInv /\ [SchedNext]_allVars => EnoughNulls'
<1> SUFFICES ASSUME SchedInv, [SchedNext]_allVars, ~ running_' PROVE EnoughNulls'
  BY DEF EnoughNulls
<1>0. SchedTypeOK /\ Calls /\ SignalState /\ EnoughNulls /\ TypeOK
  BY DEF SchedInv, IInv
<1>00. /\ at \in [Threads -> WorkerPC \cup OwnerPC \cup HandlerPC] /\ running_ \in BOOLEAN
       /\ \A w \in Workers : at[w] \in WorkerPC
       /\ at[Owner] \in OwnerPC /\ at[Handler] \in HandlerPC
       /\ pc \in [Threads -> PC] /\ arg \in [Threads -> Items \cup {NoItem}]
       /\ curr_size_ \in Nat
  BY <1>0 DEF SchedTypeOK, TypeOK
<1> USE Kinds DEF WorkerPC, OwnerPC, HandlerPC, Goto
<1>1. CASE Stop
  <2>1. /\ at'[Handler] = "push" /\ pushed' = pushed /\ curr_size_' = curr_size_
        /\ at[Handler] = "stop"
    BY <1>0, <1>00, <1>1 DEF Stop, Move, vars, ringVars, SignalState
  <2>2. pushed \cap Nulls = {}
    BY <1>0, <2>1 DEF SignalState
  <2>3. NullsToCome' = Nulls
    BY <2>1, <2>2 DEF NullsToCome
  <2> QED BY <1>00, <2>1, <2>3, EnoughAtStop
<1>2. CASE ~ Stop
  <2>0. ~ running_
    BY <1>2 DEF SchedNext, OwnerStep, Register, Joined, StartWorker, Destroy, WorkerStep,
       WhileRunning, CheckRunning, ResumeReturns, CallPull, PullReturns, QueueStep, Spurious,
       Deliver, Enqueue, HandlerStep, HandlerReturns, PushNull, schedVars, allVars
  \* The steps that move no element.
  <2>a. ASSUME UNCHANGED curr_size_,
               \A w \in Workers : w \in WillTake' => w \in WillTake,
               \A x \in Nulls : x \in NullsToCome => x \in NullsToCome'
        PROVE  EnoughNulls'
    <3>1. WillTake' \subseteq WillTake /\ NullsToCome \subseteq NullsToCome'
      BY <2>a DEF WillTake, NullsToCome
    <3> QED BY <1>0, <2>0, <2>a, <3>1, EnoughKept
  \* The steps of the scheduler's own code.
  <2>b. ASSUME UNCHANGED <<curr_size_, pc, pushed, arg>>,
               \A w \in Workers : at'[w] = "pull" => at[w] = "pull",
               at'[Handler] = at[Handler] \/ at[Handler] # "push"
        PROVE  EnoughNulls'
    BY <2>a, <2>b DEF WillTake, NullsToCome
  <2>1. CASE OwnerStep \/ Destroy
    <3>1. UNCHANGED <<curr_size_, pc, pushed, arg>>
      BY <2>1 DEF OwnerStep, Destroy, Register, Joined, StartWorker, vars, ringVars
    <3>2. /\ \A w \in Workers : at'[w] = "pull" => at[w] = "pull"
          /\ at'[Handler] = at[Handler]
      BY <1>00, <2>1 DEF OwnerStep, Destroy, Register, Joined, StartWorker, Move
    <3> QED BY <2>b, <3>1, <3>2
  <2>2. ASSUME NEW w \in Workers, WorkerStep(w) PROVE EnoughNulls'
    <3>1. CASE WhileRunning(w) \/ CheckRunning(w) \/ ResumeReturns(w)
      <4>1. UNCHANGED <<curr_size_, pc, pushed, arg>>
        BY <3>1 DEF WhileRunning, CheckRunning, ResumeReturns, vars, ringVars
      <4>2. /\ \A u \in Workers : at'[u] = "pull" => at[u] = "pull"
            /\ at'[Handler] = at[Handler]
        BY <1>00, <2>0, <3>1 DEF WhileRunning, CheckRunning, ResumeReturns, Move
      <4> QED BY <2>b, <4>1, <4>2
    <3>2. CASE CallPull(w)
      <4>1. /\ UNCHANGED <<curr_size_, at, pushed, arg>>
            /\ pc[w] = "idle" /\ at[w] = "pull" /\ pc' = [pc EXCEPT ![w] = "pull"]
        BY <3>2 DEF CallPull, PullLock, schedVars, ringVars
      <4> QED BY <1>00, <2>a, <4>1 DEF WillTake, NullsToCome
    <3>3. CASE PullReturns(w)
      <4>1. /\ UNCHANGED <<curr_size_, pushed, arg>>
            /\ pc' = [pc EXCEPT ![w] = "idle"] /\ at' = [at EXCEPT ![w] = "check"]
        BY <3>3 DEF PullReturns, PullCopy, ringVars
      <4> QED BY <1>00, <2>a, <4>1 DEF WillTake, NullsToCome
    <3> QED BY <2>2, <3>1, <3>2, <3>3 DEF WorkerStep
  <2>3. ASSUME NEW t \in Threads, QueueStep(t) PROVE EnoughNulls'
    <3>1. UNCHANGED <<at, running_>> BY <2>3 DEF QueueStep, schedVars
    <3>2. CASE PushStore(t)
      <4>1. /\ pc[t] = "push" /\ pc' = [pc EXCEPT ![t] = "stored"]
            /\ curr_size_' = curr_size_ + 1 /\ UNCHANGED <<arg, pushed>>
        BY <3>2 DEF PushStore
      <4>2. WillTake' \subseteq WillTake
        BY <1>00, <3>1, <4>1 DEF WillTake
      <4>3. NullsToCome \subseteq NullsToCome' \cup {arg[t]}
        BY <1>00, <3>1, <4>1 DEF NullsToCome
      <4> QED BY <1>0, <2>0, <4>1, <4>2, <4>3, EnoughStored
    <3>3. CASE PullTake(t)
      <4>1. /\ pc[t] = "pull" /\ pc' = [pc EXCEPT ![t] = "holding"]
            /\ curr_size_' = curr_size_ - 1 /\ UNCHANGED <<arg, pushed>>
        BY <3>3 DEF PullTake
      <4>2. at[t] = "pull" BY <1>0, <4>1 DEF Calls, PullPC
      <4>3. t \in Workers BY <1>00, <4>2
      <4>4. t \in WillTake /\ WillTake' = WillTake \ {t}
        BY <1>00, <3>1, <4>1, <4>2, <4>3 DEF WillTake
      <4>5. NullsToCome' = NullsToCome
        BY <1>00, <3>1, <4>1, <4>3 DEF NullsToCome
      <4> QED BY <1>0, <2>0, <4>1, <4>4, <4>5, EnoughTaken
    <3>4. CASE PushNotify(t)
      <4>1. PICK w \in Threads :
              /\ pc[t] = "notify" /\ UNCHANGED <<curr_size_, arg, pushed>>
              /\ pc' = [pc EXCEPT ![t] = "idle"] \/
                 (pc[w] = "waiting" /\ pc' = [pc EXCEPT ![t] = "idle", ![w] = "woken"])
        BY <3>4 DEF PushNotify, At, ringVars
      <4>2. t \notin WillTake'
        <5>1. at[t] # "pull"
          BY <1>0, <4>1 DEF Calls, PushPC
        <5> QED BY <3>1, <5>1 DEF WillTake
      <4>3. \A u \in Threads : u # t =>
              \/ pc'[u] = pc[u]
              \/ pc[u] = "waiting" /\ pc'[u] = "woken"
        BY <1>00, <4>1
      <4>4. pc'[Handler] = "push" <=> pc[Handler] = "push"
        BY <1>00, <4>1
      <4> QED BY <2>a, <3>1, <4>1, <4>2, <4>3, <4>4 DEF WillTake, NullsToCome
    <3>5. CASE PushUnlock(t)
      <4>1. /\ pc[t] = "stored" /\ pc' = [pc EXCEPT ![t] = "notify"]
            /\ UNCHANGED <<curr_size_, arg, pushed>>
        BY <3>5 DEF PushUnlock, ringVars
      <4> QED BY <1>00, <2>a, <3>1, <4>1 DEF WillTake, NullsToCome
    <3>6. CASE PullWait(t) \/ PullRelock(t) \/ PullUnlock(t)
      <4>1. /\ \/ pc[t] = "pull" /\ pc' = [pc EXCEPT ![t] = "waiting"]
               \/ pc[t] = "woken" /\ pc' = [pc EXCEPT ![t] = "pull"]
               \/ pc[t] = "holding" /\ pc' = [pc EXCEPT ![t] = "copy"]
            /\ UNCHANGED <<curr_size_, arg, pushed>>
        BY <3>6 DEF PullWait, PullRelock, PullUnlock, ringVars
      <4> QED BY <1>00, <2>a, <3>1, <4>1 DEF WillTake, NullsToCome
    <3> QED BY <2>3, <3>2, <3>3, <3>4, <3>5, <3>6 DEF QueueStep
  <2>4. ASSUME NEW t \in Threads, Spurious(t) PROVE EnoughNulls'
    <3>1. /\ pc[t] = "waiting" /\ pc' = [pc EXCEPT ![t] = "woken"]
          /\ UNCHANGED <<curr_size_, arg, pushed, at>>
      BY <2>4 DEF Spurious, SpuriousWake, schedVars, ringVars
    <3> QED BY <1>00, <2>a, <3>1 DEF WillTake, NullsToCome
  <2>5. ASSUME NEW t \in Threads, Deliver(t) PROVE EnoughNulls'
    <3>1. UNCHANGED <<curr_size_, pc, pushed, arg>> /\ at[Handler] = "none"
      BY <2>5 DEF Deliver, vars, ringVars
    <3>2. \A w \in Workers : at'[w] = at[w]
      BY <1>00, <2>5 DEF Deliver
    <3> QED BY <2>b, <3>1, <3>2
  <2>6. ASSUME NEW t \in Threads, NEW x \in Items, Enqueue(t, x) PROVE EnoughNulls'
    <3>1. /\ pc[t] = "idle" /\ pc' = [pc EXCEPT ![t] = "push"]
          /\ arg' = [arg EXCEPT ![t] = x] /\ pushed' = pushed \cup {x} /\ x \notin Nulls
          /\ UNCHANGED <<curr_size_, at>> /\ at[t] \in {"user", "resume"}
      BY <2>6 DEF Enqueue, PushLock, schedVars, ringVars
    <3>2. t # Handler BY <1>00, <3>1
    <3> QED BY <1>00, <2>a, <3>1, <3>2 DEF WillTake, NullsToCome
  <2>7. CASE HandlerStep
    <3>1. CASE HandlerReturns
      <4>1. /\ Nulls \subseteq pushed /\ pc[Handler] = "idle" /\ UNCHANGED curr_size_
            /\ UNCHANGED pc /\ \A w \in Workers : at'[w] = at[w]
        BY <1>00, <3>1 DEF HandlerReturns, Move, vars, ringVars
      <4>2. NullsToCome = {} BY <4>1 DEF NullsToCome
      <4> QED BY <2>a, <4>1, <4>2 DEF WillTake
    <3>2. ASSUME NEW x \in Nulls, PushNull(x) PROVE EnoughNulls'
      <4>1. /\ pc[Handler] = "idle" /\ pc' = [pc EXCEPT ![Handler] = "push"]
            /\ arg' = [arg EXCEPT ![Handler] = x] /\ pushed' = pushed \cup {x}
            /\ UNCHANGED <<curr_size_, at>>
        BY <3>2 DEF PushNull, PushLock, schedVars, ringVars
      <4> QED BY <1>00, <2>a, <4>1 DEF WillTake, NullsToCome
    <3> QED BY <1>2, <2>7, <3>1, <3>2 DEF HandlerStep
  <2>8. CASE UNCHANGED allVars
    BY <2>b, <2>8 DEF allVars, vars, ringVars, schedVars
  <2> QED BY <2>1, <2>2, <2>3, <2>4, <2>5, <2>6, <2>7, <2>8 DEF SchedNext
<1> QED BY <1>1, <1>2

-------------------------------------------------------------------------------
(* Theorems *)

(* SchedInv holds of the initial states. *)
LEMMA SchedInvInit == SchedInit => SchedInv
<1> SUFFICES ASSUME SchedInit PROVE SchedInv
  OBVIOUS
<1>1. IInv BY InitIInv DEF SchedInit
<1>2. SchedTypeOK
  BY Kinds DEF SchedInit, SchedTypeOK, WorkerPC, OwnerPC, HandlerPC
<1>3. /\ Calls /\ HeldIsPushed
  BY DEF SchedInit, Init, Calls, PullPC, PushPC, HeldIsPushed
<1>4. SignalState /\ GotReal /\ EnoughNulls
  BY Kinds DEF SchedInit, Init, SignalState, GotReal, EnoughNulls
<1> QED BY <1>1, <1>2, <1>3, <1>4 DEF SchedInv

(* Every step keeps SchedInv. *)
LEMMA SchedInvStep == SchedInv /\ [SchedNext]_allVars => SchedInv'
<1>1. SchedInv => IInv /\ SchedTypeOK /\ HeldIsPushed BY DEF SchedInv
<1>2. SchedInv /\ [SchedNext]_allVars => IInv' /\ HeldIsPushed'
  BY <1>1, QueueSteps, NextIInv, HeldStep
<1> QED BY <1>1, <1>2, SchedTypeStep, CallsStep, SignalStep, GotStep, EnoughStep DEF SchedInv

(* SchedInv holds of every reachable state. *)
LEMMA SchedSpecInv == SchedSpec => []SchedInv
BY SchedInvInit, SchedInvStep, PTL DEF SchedSpec

(* Every thread is at a place of the code it runs. *)
THEOREM SchedTypeCorrect == SchedSpec => []SchedTypeOK
<1>1. SchedInv => SchedTypeOK BY DEF SchedInv
<1> QED BY <1>1, SchedSpecInv, PTL

(* Once running_ is cleared, each worker that is committed to a pull finds  *)
(* an element.                                                              *)
THEOREM NullsSuffice == SchedSpec => []EnoughNulls
<1>1. SchedInv => EnoughNulls BY DEF SchedInv
<1> QED BY <1>1, SchedSpecInv, PTL

(* No worker resumes a null handle. *)
THEOREM NoNullIsResumed == SchedSpec => []NullNeverResumed
<1>1. SchedInv => NullNeverResumed BY DEF SchedInv, GotReal, NullNeverResumed
<1> QED BY <1>1, SchedSpecInv, PTL

(* The queue is destroyed when nobody is inside push or pull.               *)
THEOREM QueueIsOutlived == SchedSpec => []QueueOutlivesCalls
<1>1. ASSUME SchedInv, at[Owner] = "gone"
      PROVE  (\A t \in Threads : pc[t] = "idle") /\ at[Handler] # "push"
  <2>0. SignalState /\ Calls /\ SchedTypeOK /\ pc \in [Threads -> PC]
    BY <1>1 DEF SchedInv, IInv, TypeOK
  <2>1. \A w \in Workers : at[w] = "exited" BY <1>1, <2>0 DEF SignalState
  <2>2. at[Handler] # "push" BY <1>1, <2>0, <2>1, Kinds DEF SignalState
  <2>3. ASSUME NEW t \in Threads PROVE pc[t] = "idle"
    <3>1. at[t] \notin {"pull", "user", "resume", "push"}
      BY <1>1, <2>0, <2>1, <2>2, Kinds DEF SchedTypeOK, HandlerPC
    <3> QED BY <2>0, <3>1 DEF Calls, PC, PullPC, PushPC
  <2> QED BY <2>2, <2>3
<1>2. SchedInv => QueueOutlivesCalls BY <1>1 DEF QueueOutlivesCalls
<1> QED BY <1>2, SchedSpecInv, PTL
===============================================================================
