--------------------------- MODULE MultiThreadQueue ---------------------------
(****************************************************************************)
(* src/src/MultiThreadQueue.hpp: an unbounded blocking queue on a ring      *)
(* buffer that doubles when it is full, protected by the mutex m_ and the   *)
(* condition variable cond_.                                                *)
(*                                                                          *)
(* push and pull are split where another thread can run in between: taking  *)
(* the lock, the critical section, releasing it, and what each does after   *)
(* the release.  push notifies after it has unlocked; pull returns T&, a    *)
(* reference into the array, and the caller copies the element after        *)
(* pull's unique_lock is gone.                                              *)
(****************************************************************************)
EXTENDS Integers, FiniteSets, Sequences

CONSTANTS
  Producers,  \* the threads that call push
  Consumers,  \* the threads that call pull; a thread may be in both sets
  Items,      \* the elements that get pushed, each by one call of push
  NoItem,     \* the value of a default-constructed element
  Garbage,    \* what reading an array after delete[] may yield
  NoThread,   \* the owner of an unlocked mutex
  INIT_SIZE   \* the capacity of the first array

Threads == Producers \cup Consumers

ASSUME QueueAssumption ==
  /\ IsFiniteSet(Threads)
  /\ NoThread \notin Threads
  /\ NoItem \notin Items
  /\ Garbage \notin Items \cup {NoItem}
  /\ INIT_SIZE \in Nat \ {0}

VARIABLES
  size_, curr_size_, top_, tail_,  \* the fields of the class
  data_,      \* the elements of the array the field data_ points to
  gen,        \* which array that is: the number of arrays replaced so far
  m_,         \* the thread that holds the mutex, or NoThread
  pc,         \* where each thread is
  arg,        \* the element each thread is pushing
  pushed,     \* the elements push has been called with
  refGen, refSlot,  \* the array and the slot pull's result refers to
  got,        \* the element the caller of pull has copied out of that slot
  taken,      \* history: the element that was in the slot when pull took it
  room        \* history: how many pushes from the next one on write to other
              \* slots before one writes to the referenced slot, plus one

ringVars == <<size_, curr_size_, top_, tail_, data_, gen>>
pullVars == <<refGen, refSlot, got, taken, room>>
vars == <<ringVars, m_, pc, arg, pushed, pullVars>>

PC == {"idle", "push", "stored", "notify",
       "pull", "waiting", "woken", "holding", "copy"}

At(label) == {t \in Threads : pc[t] = label}

Goto(t, from, to) ==
  /\ pc[t] = from
  /\ pc' = [pc EXCEPT ![t] = to]

Init ==
  /\ size_ = INIT_SIZE
  /\ curr_size_ = 0
  /\ top_ = 0
  /\ tail_ = 0
  /\ data_ = [i \in 0..(INIT_SIZE - 1) |-> NoItem]
  /\ gen = 0
  /\ m_ = NoThread
  /\ pc = [t \in Threads |-> "idle"]
  /\ arg = [t \in Threads |-> NoItem]
  /\ pushed = {}
  /\ refGen = [t \in Threads |-> 0]
  /\ refSlot = [t \in Threads |-> 0]
  /\ got = [t \in Threads |-> NoItem]
  /\ taken = [t \in Threads |-> NoItem]
  /\ room = [t \in Threads |-> 0]

-------------------------------------------------------------------------------
(* The mutex. *)

Lock(t) ==
  /\ m_ = NoThread
  /\ m_' = t

Unlock(t) == m_' = NoThread

(* The ring. *)

Slot(i) == (top_ + i) % size_

(* Mutant: the copy starts at slot 0 instead of top_. *)
ResizedUnrotated ==
  [i \in 0..(2 * size_ - 1) |-> IF i < curr_size_ THEN data_[i] ELSE NoItem]

(* resize: the new array, its first curr_size_ elements in queue order. *)
Resized ==
  [i \in 0..(2 * size_ - 1) |->
     IF i < curr_size_ THEN data_[Slot(i)] ELSE NoItem]

(* Mutant: tail_ is not wrapped. *)
StoreUnwrapped(x) ==
  /\ size_ # curr_size_
  /\ data_' = [data_ EXCEPT ![tail_] = x]
  /\ tail_' = tail_ + 1
  /\ UNCHANGED <<size_, top_, gen>>

StoreInPlace(x) ==
  /\ size_ # curr_size_
  /\ data_' = [data_ EXCEPT ![tail_] = x]
  /\ tail_' = (tail_ + 1) % size_
  /\ UNCHANGED <<size_, top_, gen>>

(* Mutant: the array is replaced as soon as half of it is used. *)
StoreResizedEarly(x) ==
  /\ size_ <= 2 * curr_size_
  /\ data_' = [Resized EXCEPT ![curr_size_] = x]
  /\ tail_' = (curr_size_ + 1) % (2 * size_)
  /\ top_' = 0
  /\ size_' = 2 * size_
  /\ gen' = gen + 1

StoreResized(x) ==
  /\ size_ = curr_size_
  /\ data_' = [Resized EXCEPT ![curr_size_] = x]
  /\ tail_' = (curr_size_ + 1) % (2 * size_)
  /\ top_' = 0
  /\ size_' = 2 * size_
  /\ gen' = gen + 1

-------------------------------------------------------------------------------
(* push *)

PushLock(t, x) ==
  /\ t \in Producers
  /\ x \notin pushed
  /\ Goto(t, "idle", "push")
  /\ Lock(t)
  /\ arg' = [arg EXCEPT ![t] = x]
  /\ pushed' = pushed \cup {x}
  /\ UNCHANGED <<ringVars, pullVars>>

PushStore(t) ==
  /\ Goto(t, "push", "stored")
  /\ StoreInPlace(arg[t]) \/ StoreResized(arg[t])
  /\ curr_size_' = curr_size_ + 1
  /\ room' = [u \in Threads |-> IF room[u] > 0 THEN room[u] - 1 ELSE 0]
  /\ UNCHANGED <<m_, arg, pushed, refGen, refSlot, got, taken>>

PushUnlock(t) ==
  /\ Goto(t, "stored", "notify")
  /\ Unlock(t)
  /\ UNCHANGED <<ringVars, arg, pushed, pullVars>>

(* Mutant: nobody is notified. *)
PushNotifyNobody(t) ==
  /\ Goto(t, "notify", "idle")
  /\ UNCHANGED <<ringVars, m_, arg, pushed, pullVars>>

(* notify_one wakes one of the waiting threads, if there is one. *)
PushNotify(t) ==
  /\ pc[t] = "notify"
  /\ \/ \E w \in At("waiting") :
          pc' = [pc EXCEPT ![t] = "idle", ![w] = "woken"]
     \/ /\ At("waiting") = {}
        /\ pc' = [pc EXCEPT ![t] = "idle"]
  /\ UNCHANGED <<ringVars, m_, arg, pushed, pullVars>>

-------------------------------------------------------------------------------
(* pull *)

PullLock(t) ==
  /\ t \in Consumers
  /\ Goto(t, "idle", "pull")
  /\ Lock(t)
  /\ UNCHANGED <<ringVars, arg, pushed, pullVars>>

(* cond_.wait with its predicate false: unlock and block in one step. *)
PullWait(t) ==
  /\ curr_size_ = 0
  /\ Goto(t, "pull", "waiting")
  /\ Unlock(t)
  /\ UNCHANGED <<ringVars, arg, pushed, pullVars>>

(* The condition variable may wake a thread nobody notified. *)
SpuriousWake(t) ==
  /\ Goto(t, "waiting", "woken")
  /\ UNCHANGED <<ringVars, m_, arg, pushed, pullVars>>

(* A woken thread takes the lock again before it tests the predicate. *)
PullRelock(t) ==
  /\ Goto(t, "woken", "pull")
  /\ Lock(t)
  /\ UNCHANGED <<ringVars, arg, pushed, pullVars>>

PullTake(t) ==
  /\ curr_size_ # 0
  /\ Goto(t, "pull", "holding")
  /\ refGen' = [refGen EXCEPT ![t] = gen]
  /\ refSlot' = [refSlot EXCEPT ![t] = top_]
  /\ taken' = [taken EXCEPT ![t] = data_[top_]]
  /\ room' = [room EXCEPT ![t] = size_ - curr_size_ + 1]
  /\ top_' = (top_ + 1) % size_
  /\ curr_size_' = curr_size_ - 1
  /\ UNCHANGED <<size_, tail_, data_, gen, m_, arg, pushed, got>>

PullUnlock(t) ==
  /\ Goto(t, "holding", "copy")
  /\ Unlock(t)
  /\ UNCHANGED <<ringVars, arg, pushed, pullVars>>

(* The caller copies what the reference designates by now.  An array that   *)
(* was deleted may still hold a handle that was pushed once, or anything.   *)
PullCopy(t) ==
  /\ Goto(t, "copy", "idle")
  /\ \E v \in IF refGen[t] = gen THEN {data_[refSlot[t]]}
                                 ELSE pushed \cup {Garbage} :
       got' = [got EXCEPT ![t] = v]
  /\ UNCHANGED <<ringVars, m_, arg, pushed, refGen, refSlot, taken, room>>

-------------------------------------------------------------------------------

(* The steps of a call in progress. *)
Step(t) ==
  \/ PushStore(t) \/ PushUnlock(t) \/ PushNotify(t)
  \/ PullWait(t) \/ PullRelock(t) \/ PullTake(t)
  \/ PullUnlock(t) \/ PullCopy(t)

Next ==
  \E t \in Threads :
    \/ \E x \in Items : PushLock(t, x)
    \/ PullLock(t)
    \/ SpuriousWake(t)
    \/ Step(t)

(* A running thread keeps running, and a consumer calls pull again and      *)
(* again, as Scheduler::thread_start does.  Nobody has to push, and nobody  *)
(* is woken for no reason.                                                  *)
Fairness ==
  /\ \A t \in Threads : WF_vars(Step(t))
  /\ \A t \in Consumers : WF_vars(PullLock(t))

Spec == Init /\ [][Next]_vars

FairSpec == Spec /\ Fairness

-------------------------------------------------------------------------------

(* The fields of the class stay within the array, and every thread is at a  *)
(* known place of push or pull.                                             *)
TypeOK ==
  /\ size_ \in Nat \ {0}
  /\ curr_size_ \in 0..size_
  /\ top_ \in 0..(size_ - 1)
  /\ tail_ \in 0..(size_ - 1)
  /\ data_ \in [0..(size_ - 1) -> Items \cup {NoItem}]
  /\ gen \in Nat
  /\ m_ \in Threads \cup {NoThread}
  /\ pc \in [Threads -> PC]
  /\ arg \in [Threads -> Items \cup {NoItem}]
  /\ pushed \in SUBSET Items
  /\ refGen \in [Threads -> Nat]
  /\ refSlot \in [Threads -> Nat]
  /\ got \in [Threads -> Items \cup {NoItem, Garbage}]
  /\ taken \in [Threads -> Items \cup {NoItem}]
  /\ room \in [Threads -> Nat]

(* The elements in the queue, oldest first, wherever they lie in the ring.  *)
Contents == [i \in 1..curr_size_ |-> data_[Slot(i - 1)]]

Fifo == INSTANCE FifoQueue WITH queue <- Contents, out <- taken

(* The ring implements the abstract queue: through wrap-around and resize,  *)
(* every pull takes the element that was pushed first among those present.  *)
RefinesFifo == Fifo!Spec

(* No wake-up is lost although push notifies after it has unlocked: while   *)
(* a thread is blocked, every element in the queue is matched by a thread   *)
(* that is about to notify or about to test the predicate.                  *)
InTransit == {t \in Threads : pc[t] \in {"stored", "notify", "woken", "pull"}}

NoLostWakeup == At("waiting") # {} => curr_size_ <= Cardinality(InTransit)

(* The reference pull returns stays good for size_ - curr_size_ further     *)
(* pushes, counted when pull took the element: until then the array is not  *)
(* replaced and the slot is not written.                                    *)
ReferenceIntact ==
  \A t \in Threads :
    pc[t] \in {"holding", "copy"} /\ room[t] > 0
      => refGen[t] = gen /\ data_[refSlot[t]] = taken[t]

(* Every element that is in the queue leaves it. *)
EveryElementIsTaken ==
  \A x \in Items :
    (\E i \in 1..curr_size_ : Contents[i] = x)
      ~> ~ (\E i \in 1..curr_size_ : Contents[i] = x)

(* What the class says of itself (top_ is "the front element in the queue", *)
(* resize leaves the elements "intact"): the element a caller of pull ends  *)
(* up with is the one pull took from the front.                             *)
PullYieldsFront ==
  [][\A t \in Threads : PullCopy(t) => got'[t] = taken[t]]_vars

===============================================================================
