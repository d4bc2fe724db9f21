--------------------------------- MODULE Task ---------------------------------
(****************************************************************************)
(* src/src/Task.hpp: coroutines that wait for one another.  co_await on a   *)
(* Task registers the awaiting coroutine in the promise of the awaited one  *)
(* (others), under the mutex m both share; when the awaited one finishes or *)
(* yields it hands every registered coroutine to its scheduler, or resumes  *)
(* it right there, on its own stack and with m held, when it has none.      *)
(*                                                                          *)
(* A thread's stack holds the coroutines it is resuming, innermost first.   *)
(* Only the innermost one runs.  The scheduler's queue is the FIFO queue    *)
(* that MultiThreadQueue implements.                                        *)
(****************************************************************************)
EXTENDS Integers, FiniteSets, Sequences

CONSTANTS
  Workers,    \* the scheduler's threads
  Main,       \* a thread that only starts coroutines
  Coros,      \* the coroutines, each called once
  Awaits,     \* the pairs <<c, t>> such that c may co_await the Task of t
  Scheduled,  \* the coroutines whose body begins with co_await on the scheduler
  Yielders,   \* the coroutines that may co_yield
  Throwers,   \* the coroutines that may end by a SocketException
  Void,       \* the coroutines that return Task<void>
  NoThread,   \* the owner of an unlocked mutex
  NoCoro      \* the target of a coroutine that awaits nothing

Threads == Workers \cup {Main}

ASSUME TaskAssumption ==
  /\ Main \notin Workers /\ NoThread \notin Threads
  /\ NoCoro \notin Coros
  /\ Awaits \subseteq Coros \X Coros
  /\ Scheduled \subseteq Coros /\ Yielders \subseteq Coros 
  /\ Void \subseteq Coros /\ Throwers \subseteq Coros
  \* Task<void> wakes through scheduler without testing it for null.
  /\ \A p \in Awaits : p[2] \in Void => p[2] \in Scheduled

VARIABLES
  stack,      \* the coroutines each thread is resuming, innermost first
  ready,      \* the scheduler's queue
  pc,         \* where each coroutine is
  target,     \* the coroutine each one is awaiting
  m,          \* for each coroutine, the thread that holds its mutex m
  finished,   \* for each coroutine, the shared flag *finished
  others,     \* for each coroutine, the handles registered in its promise
  woken,      \* how many of them the loop over others has gone through
  scheduler,  \* whether the promise's scheduler is set
  result,     \* the shared *result
  got         \* for each pair of Awaits, what the co_await returned

vars == <<stack, ready, pc, target, m, finished, others, woken, scheduler,
          result, got>>

(* "run": on a stack, in its body; "lock": in await_suspend, before         *)
(* m_->lock(); "suspended": registered; "ready": queued; "end" and "ended": *)
(* in final_suspend, before and after m->lock(); "yield" and "yields":      *)
(* likewise in yield_value; "parked": suspended by co_yield; "done": the    *)
(* frame is destroyed.                                                      *)
PC == {"new", "run", "lock", "suspended", "ready", "end", "ended",
       "yield", "yields", "parked", "done"}

(* What *result may hold: the value it is constructed with, one that        *)
(* co_yield or co_return has stored, or what a move has left.               *)
Values == {"default", "yielded", "returned", "moved"}

Init ==
  /\ stack = [th \in Threads |-> <<>>]
  /\ ready = <<>>
  /\ pc = [c \in Coros |-> "new"]
  /\ target = [c \in Coros |-> NoCoro]
  /\ m = [c \in Coros |-> NoThread]
  /\ finished = [c \in Coros |-> FALSE]
  /\ others = [c \in Coros |-> <<>>]
  /\ woken = [c \in Coros |-> 0]
  /\ scheduler = [c \in Coros |-> FALSE]
  /\ result = [c \in Coros |-> "default"]
  /\ got = [p \in Awaits |-> "none"]

(* Coroutine c is the innermost one on the stack of thread th. *)
Innermost(th, c) == stack[th] # <<>> /\ Head(stack[th]) = c

(* It runs its body, past the co_await on the scheduler if it begins so.    *)
InBody(th, c) ==
  /\ Innermost(th, c)
  /\ pc[c] = "run"
  /\ c \in Scheduled => scheduler[c]

Goto(c, to) == pc' = [pc EXCEPT ![c] = to]

Return(th) == stack' = [stack EXCEPT ![th] = Tail(@)]

(* What co_await gives to c when it goes on: *result of a Task<T> is moved  *)
(* out, Task<void> has none.                                                *)
AwaitResume(c, t) ==
  IF <<c, t>> \in Awaits
    THEN /\ got' = [got EXCEPT ![<<c, t>>] = IF t \in Void THEN "void" ELSE result[t]]
         /\ result' = IF t \in Void THEN result
                                    ELSE [result EXCEPT ![t] = "moved"]
    ELSE UNCHANGED <<got, result>>

-------------------------------------------------------------------------------
(* Calling a coroutine runs its body at once on the caller's stack. *)
Call(th, c) ==
  /\ pc[c] = "new"
  /\ IF th = Main THEN stack[th] = <<>> \/ InBody(th, Head(stack[th]))
                  ELSE stack[th] # <<>> /\ InBody(th, Head(stack[th]))
  /\ stack' = [stack EXCEPT ![th] = <<c>> \o @]
  /\ Goto(c, "run")
  /\ UNCHANGED <<ready, target, m, finished, others, woken, scheduler, result, got>>

(* co_await on the scheduler: await_transform sets the promise's scheduler, *)
(* await_suspend pushes the handle.                                         *)
AwaitScheduler(th, c) ==
  /\ Innermost(th, c)
  /\ pc[c] = "run"
  /\ c \in Scheduled /\ ~ scheduler[c]
  /\ scheduler' = [scheduler EXCEPT ![c] = TRUE]
  /\ ready' = Append(ready, c)
  /\ Goto(c, "ready")
  /\ Return(th)
  /\ UNCHANGED <<target, m, finished, others, woken, result, got>>

(* A worker pulls a handle and resumes it; if it was awaiting a Task, the   *)
(* co_await returns.                                                        *)
Resume(w) ==
  /\ w \in Workers
  /\ stack[w] = <<>>
  /\ ready # <<>>
  /\ LET c == Head(ready)
     IN  /\ stack' = [stack EXCEPT ![w] = <<c>>]
         /\ Goto(c, "run")
         /\ AwaitResume(c, target[c])
         /\ target' = [target EXCEPT ![c] = NoCoro]
  /\ ready' = Tail(ready)
  /\ UNCHANGED <<m, finished, others, woken, scheduler>>

-------------------------------------------------------------------------------
(* co_await on a Task *)

Await(th, c, t) ==
  /\ InBody(th, c)
  /\ <<c, t>> \in Awaits
  /\ got[<<c, t>>] = "none"
  /\ pc[t] # "new"
  /\ target' = [target EXCEPT ![c] = t]
  /\ Goto(c, "lock")
  /\ UNCHANGED <<stack, ready, m, finished, others, woken, scheduler, result, got>>

(* Mutant: *finished_ is not tested. *)
AwaitSuspendUntested(th, c) ==
  /\ Innermost(th, c)
  /\ pc[c] = "lock"
  /\ m[target[c]] = NoThread
  /\ others' = [others EXCEPT ![target[c]] = Append(@, c)]
  /\ Goto(c, "suspended")
  /\ Return(th)
  /\ UNCHANGED <<ready, target, m, finished, woken, scheduler, result, got>>

(* await_suspend, from lock to unlock: nothing else happens under the lock. *)
AwaitSuspend(th, c) ==
  LET t == target[c]
  IN  /\ Innermost(th, c)
      /\ pc[c] = "lock"
      /\ m[t] = NoThread
      /\ \/ /\ finished[t]
            /\ AwaitResume(c, t)
            /\ target' = [target EXCEPT ![c] = NoCoro]
            /\ Goto(c, "run")
            /\ UNCHANGED <<stack, others>>
         \/ /\ ~ finished[t]
            /\ others' = [others EXCEPT ![t] = Append(@, c)]
            /\ Goto(c, "suspended")
            /\ Return(th)
            /\ UNCHANGED <<target, result, got>>
      /\ UNCHANGED <<ready, m, finished, woken, scheduler>>

-------------------------------------------------------------------------------
(* The end of a coroutine *)

(* Mutant: the returned value is not stored. *)
CoReturnUnstored(th, c) ==
  /\ InBody(th, c)
  /\ Goto(c, "end")
  /\ UNCHANGED <<stack, ready, target, m, finished, others, woken, scheduler,
                 result, got>>

(* co_return; return_value stores the value. *)
CoReturn(th, c) ==
  /\ InBody(th, c)
  /\ Goto(c, "end")
  /\ result' = IF c \in Void THEN result ELSE [result EXCEPT ![c] = "returned"]
  /\ UNCHANGED <<stack, ready, target, m, finished, others, woken, scheduler, got>>

(* unhandled_exception swallows a SocketException; any other one leaves     *)
(* resume and ends the process.                                             *)
Throw(th, c) ==
  /\ InBody(th, c)
  /\ c \in Throwers
  /\ Goto(c, "end")
  /\ UNCHANGED <<stack, ready, target, m, finished, others, woken, scheduler,
                 result, got>>

(* Mutant: *finished is not set. *)
FinalLockUnset(th, c) ==
  /\ Innermost(th, c)
  /\ pc[c] = "end"
  /\ m[c] = NoThread
  /\ m' = [m EXCEPT ![c] = th]
  /\ woken' = [woken EXCEPT ![c] = 0]
  /\ Goto(c, "ended")
  /\ UNCHANGED <<stack, ready, target, finished, others, scheduler, result, got>>

FinalLock(th, c) ==
  /\ Innermost(th, c)
  /\ pc[c] = "end"
  /\ m[c] = NoThread
  /\ m' = [m EXCEPT ![c] = th]
  /\ finished' = [finished EXCEPT ![c] = TRUE]
  /\ woken' = [woken EXCEPT ![c] = 0]
  /\ Goto(c, "ended")
  /\ UNCHANGED <<stack, ready, target, others, scheduler, result, got>>

(* Mutant: others is cleared inside the loop over it. *)
WakeClearsOthers(th, c) ==
  /\ Innermost(th, c)
  /\ pc[c] \in {"ended", "yields"}
  /\ woken[c] < Len(others[c])
  /\ woken' = [woken EXCEPT ![c] = @ + 1]
  /\ others' = [others EXCEPT ![c] = <<>>]
  /\ LET o == others[c][woken[c] + 1]
     IN  \/ /\ scheduler[c]
            /\ ready' = Append(ready, o)
            /\ Goto(o, "ready")
            /\ UNCHANGED <<stack, target, result, got>>
         \/ /\ ~ scheduler[c]
            /\ stack' = [stack EXCEPT ![th] = <<o>> \o @]
            /\ Goto(o, "run")
            /\ AwaitResume(o, c)
            /\ target' = [target EXCEPT ![o] = NoCoro]
            /\ UNCHANGED ready
  /\ UNCHANGED <<m, finished, scheduler>>

(* One turn of the loop over others, in final_suspend or yield_value: the   *)
(* handle goes to the scheduler, or is resumed here.                        *)
Wake(th, c) ==
  /\ Innermost(th, c)
  /\ pc[c] \in {"ended", "yields"}
  /\ woken[c] < Len(others[c])
  /\ woken' = [woken EXCEPT ![c] = @ + 1]
  /\ LET o == others[c][woken[c] + 1]
     IN  \/ /\ scheduler[c]
            /\ ready' = Append(ready, o)
            /\ Goto(o, "ready")
            /\ UNCHANGED <<stack, target, result, got>>
         \/ /\ ~ scheduler[c]
            /\ stack' = [stack EXCEPT ![th] = <<o>> \o @]
            /\ Goto(o, "run")
            /\ AwaitResume(o, c)
            /\ target' = [target EXCEPT ![o] = NoCoro]
            /\ UNCHANGED ready
  /\ UNCHANGED <<m, finished, others, scheduler>>

(* Mutant: one awaiting coroutine is woken instead of all. *)
FinalUnlockEarly(th, c) ==
  /\ Innermost(th, c)
  /\ pc[c] = "ended"
  /\ woken[c] > 0 \/ others[c] = <<>>
  /\ m' = [m EXCEPT ![c] = NoThread]
  /\ Goto(c, "done")
  /\ Return(th)
  /\ UNCHANGED <<ready, target, finished, others, woken, scheduler, result, got>>

(* The lock is released and the frame destroyed. *)
FinalUnlock(th, c) ==
  /\ Innermost(th, c)
  /\ pc[c] = "ended"
  /\ woken[c] = Len(others[c])
  /\ m' = [m EXCEPT ![c] = NoThread]
  /\ Goto(c, "done")
  /\ Return(th)
  /\ UNCHANGED <<ready, target, finished, others, woken, scheduler, result, got>>

-------------------------------------------------------------------------------
(* co_yield *)

CoYield(th, c) ==
  /\ InBody(th, c)
  /\ c \in Yielders
  /\ Goto(c, "yield")
  /\ UNCHANGED <<stack, ready, target, m, finished, others, woken, scheduler,
                 result, got>>

YieldLock(th, c) ==
  /\ Innermost(th, c)
  /\ pc[c] = "yield"
  /\ m[c] = NoThread
  /\ m' = [m EXCEPT ![c] = th]
  /\ woken' = [woken EXCEPT ![c] = 0]
  /\ Goto(c, "yields")
  /\ UNCHANGED <<stack, ready, target, finished, others, scheduler, result, got>>

(* Mutant: others is not cleared. *)
YieldStoreKeepsOthers(th, c) ==
  /\ Innermost(th, c)
  /\ pc[c] = "yields"
  /\ woken[c] = Len(others[c])
  /\ woken' = [woken EXCEPT ![c] = 0]
  /\ m' = [m EXCEPT ![c] = NoThread]
  /\ Goto(c, "parked")
  /\ Return(th)
  /\ UNCHANGED <<ready, target, finished, others, scheduler, result, got>>

(* The value is stored after those that wait for it have been woken; then   *)
(* the coroutine stays suspended until its owner resumes the handle.        *)
YieldStore(th, c) ==
  /\ Innermost(th, c)
  /\ pc[c] = "yields"
  /\ woken[c] = Len(others[c])
  /\ others' = [others EXCEPT ![c] = <<>>]
  /\ woken' = [woken EXCEPT ![c] = 0]
  /\ result' = IF c \in Void THEN result ELSE [result EXCEPT ![c] = "yielded"]
  /\ m' = [m EXCEPT ![c] = NoThread]
  /\ Goto(c, "parked")
  /\ Return(th)
  /\ UNCHANGED <<ready, target, finished, scheduler, got>>

(* handle_.resume() on a yielded coroutine, by the program that uses it as  *)
(* a generator.                                                             *)
ResumeParked(th, c) ==
  /\ pc[c] = "parked"
  /\ IF th = Main THEN stack[th] = <<>> \/ InBody(th, Head(stack[th]))
                  ELSE stack[th] # <<>> /\ InBody(th, Head(stack[th]))
  /\ stack' = [stack EXCEPT ![th] = <<c>> \o @]
  /\ Goto(c, "run")
  /\ UNCHANGED <<ready, target, m, finished, others, woken, scheduler, result, got>>

-------------------------------------------------------------------------------

(* The steps of a thread inside the coroutine it is resuming. *)
Advance(th, c) ==
  \/ AwaitScheduler(th, c) \/ AwaitSuspend(th, c)
  \/ CoReturn(th, c) \/ FinalLock(th, c) \/ Wake(th, c) \/ FinalUnlock(th, c)
  \/ YieldLock(th, c) \/ YieldStore(th, c)

Next ==
  \/ \E w \in Workers : Resume(w)
  \/ \E th \in Threads, c \in Coros :
       \/ Advance(th, c)
       \/ Call(th, c) \/ ResumeParked(th, c)
       \/ Throw(th, c) \/ CoYield(th, c)
       \/ \E t \in Coros : Await(th, c, t)

(* Threads keep running, and a body that runs ends or suspends.  Nobody has *)
(* to call a coroutine or to resume one that has yielded.                   *)
Fairness ==
  /\ \A w \in Workers : WF_vars(Resume(w))
  /\ \A th \in Threads : WF_vars(\E c \in Coros : Advance(th, c))

Spec == Init /\ [][Next]_vars

FairSpec == Spec /\ Fairness

-------------------------------------------------------------------------------

TypeOK ==
  /\ stack \in [Threads -> Seq(Coros)]
  /\ ready \in Seq(Coros)
  /\ pc \in [Coros -> PC]
  /\ target \in [Coros -> Coros \cup {NoCoro}]
  /\ m \in [Coros -> Threads \cup {NoThread}]
  /\ finished \in [Coros -> BOOLEAN]
  /\ others \in [Coros -> Seq(Coros)]
  /\ woken \in [Coros -> Nat]
  /\ \A c \in Coros : woken[c] <= Len(others[c])
  /\ scheduler \in [Coros -> BOOLEAN]
  /\ result \in [Coros -> Values]
  /\ got \in [Awaits -> Values \cup {"none", "void"}]

(* The places from which coroutine c can still be resumed or goes on: the   *)
(* stacks, the scheduler's queue, and the handles registered in a promise   *)
(* that have not been woken.                                                *)
OnStacks(c) ==
  UNION {{<<th, i>> : i \in {j \in 1..Len(stack[th]) : stack[th][j] = c}} :
           th \in Threads}

InReady(c) == {<<"ready", i>> : i \in {j \in 1..Len(ready) : ready[j] = c}}

InOthers(c) ==
  UNION {{<<t, i>> : i \in {j \in (woken[t] + 1)..Len(others[t]) : others[t][j] = c}} :
           t \in Coros}

Places(c) == OnStacks(c) \cup InReady(c) \cup InOthers(c)

(* A coroutine is never in two places at once: no two threads resume it,    *)
(* and nobody can resume it again while it runs.                            *)
ResumedOnce == \A c \in Coros : Cardinality(Places(c)) <= 1

(* A coroutine that waits for a Task is registered with it, and the frame   *)
(* that holds the registration lives until it has been woken.               *)
NeverLost ==
  \A c \in Coros :
    pc[c] = "suspended" =>
      LET t == target[c]
      IN  /\ pc[t] # "done"
          /\ \E i \in (woken[t] + 1)..Len(others[t]) : others[t][i] = c

(* A Task's only awaiter gets what the coroutine has returned, however the  *)
(* end of the one and the co_await of the other interleave, unless it may   *)
(* end by an exception or yields.                                           *)
SoleAwaiterGetsResult ==
  \A p \in Awaits :
    /\ p[2] \notin Void \cup Yielders \cup Throwers
    /\ \A q \in Awaits : q[2] = p[2] => q = p
    => got[p] \in {"none", "returned"}

(* What a co_await looks like from outside. *)
AwaitState ==
  [p \in Awaits |-> IF got[p] # "none" THEN "returned"
                     ELSE IF target[p[1]] = p[2] THEN "waiting"
                     ELSE "to come"]

Event == INSTANCE OneShotEvent WITH ended <- {t \in Coros : finished[t]},
                                    await <- AwaitState

(* A Task that does not yield implements the abstract event: whichever way  *)
(* an awaiting coroutine is woken, by a worker, inline or not at all, its   *)
(* co_await returns once and not before the awaited coroutine has ended.    *)
ImplementsEvent == Event!Spec

(* Every co_await on a Task returns. *)
AwaitReturns ==
  \A c \in Coros : pc[c] \in {"lock", "suspended", "ready"} ~> pc[c] = "run"

===============================================================================
