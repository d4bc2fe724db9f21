------------------------------ MODULE TaskProofs ------------------------------
(****************************************************************************)
(* Theorems about Task, for any threads, coroutines and ways of awaiting.   *)
(* Inv is the inductive invariant: it says what a coroutine's place (on a   *)
(* stack, in the scheduler's queue, among the handles registered in the     *)
(* promise of the one it awaits) tells of where it is in its life, and      *)
(* where the value it has returned is until its only awaiter has it.        *)
(****************************************************************************)
EXTENDS Task, FiniteSetTheorems, TLAPS

(* The program counters of the coroutines that are on a stack. *)
Active == {"run", "lock", "end", "ended", "yield", "yields"}

(* A coroutine on a stack is there once. *)
Stacked ==
  /\ \A th \in Threads : \A i \in 1..Len(stack[th]) : pc[stack[th][i]] \in Active
  /\ \A th, u \in Threads : \A i \in 1..Len(stack[th]), j \in 1..Len(stack[u]) :
       stack[th][i] = stack[u][j] => th = u /\ i = j

(* A coroutine knows for whom it waits, and the others wait for nobody. *)
Waiting ==
  \A c \in Coros :
    IF pc[c] \in {"lock", "suspended"}
      THEN target[c] \in Coros
      ELSE pc[c] # "ready" => target[c] = NoCoro

(* The queue holds the coroutines that are ready, each once. *)
Queued ==
  /\ \A i \in 1..Len(ready) : pc[ready[i]] = "ready"
  /\ \A i, j \in 1..Len(ready) : ready[i] = ready[j] => i = j

(* The handles in others that the loop has not come to. *)
Left(t) == (woken[t] + 1)..Len(others[t])

(* They are those of suspended coroutines that await this one, each once. *)
Registered ==
  \A t \in Coros :
    /\ \A i \in Left(t) : pc[others[t][i]] = "suspended" /\ target[others[t][i]] = t
    /\ \A i, j \in Left(t) : others[t][i] = others[t][j] => i = j

(* finished is set when final_suspend has the mutex; outside the loops over *)
(* others no handle has been gone through, except after the end.            *)
AtEnd ==
  \A t \in Coros :
    /\ finished[t] <=> pc[t] \in {"ended", "done"}
    /\ pc[t] \notin {"ended", "done", "yields"} => woken[t] = 0

(* A coroutine that awaits has not been answered yet, and unless the one it *)
(* awaits yields it is queued after the end.                                *)
Awaiting ==
  \A c \in Coros :
    target[c] # NoCoro =>
      /\ <<c, target[c]>> \in Awaits
      /\ got[<<c, target[c]>>] = "none"
      /\ pc[c] = "ready" /\ target[c] \notin Yielders => finished[target[c]]

NoYield == \A c \in Coros \ Yielders : pc[c] \notin {"yield", "yields", "parked"}

(* The returned value waits for the only awaiter. *)
Sole(p) ==
  /\ p[2] \notin Void \cup Yielders \cup Throwers
  /\ \A q \in Awaits : q[2] = p[2] => q = p

Kept ==
  \A p \in Awaits :
    Sole(p) /\ got[p] = "none" /\ pc[p[2]] \in {"end", "ended", "done"} =>
      result[p[2]] = "returned"

Inv ==
  /\ TypeOK /\ Stacked /\ Waiting /\ Queued /\ Registered /\ AtEnd /\ NeverLost
  /\ Awaiting /\ NoYield /\ Kept /\ SoleAwaiterGetsResult

-------------------------------------------------------------------------------
(* Types *)

(* What a co_await returns is a value or nothing. *)
LEMMA AwaitResumeType ==
  ASSUME TypeOK, NEW c, NEW t, AwaitResume(c, t)
  PROVE  /\ result' \in [Coros -> Values]
         /\ got' \in [Awaits -> Values \cup {"none", "void"}]
<1>1. CASE <<c, t>> \in Awaits
  <2>1. t \in Coros BY <1>1, TaskAssumption
  <2>2. result[t] \in Values BY <2>1 DEF TypeOK
  <2>3. "moved" \in Values BY DEF Values
  <2> QED BY <1>1, <2>1, <2>2, <2>3 DEF AwaitResume, TypeOK
<1>2. CASE <<c, t>> \notin Awaits
  BY <1>2 DEF AwaitResume, TypeOK
<1> QED BY <1>1, <1>2

(* Init establishes the types. *)
LEMMA TypeInit == Init => TypeOK
<1> SUFFICES ASSUME Init PROVE TypeOK
  OBVIOUS
<1>1. /\ stack \in [Threads -> Seq(Coros)] /\ ready \in Seq(Coros)
      /\ others \in [Coros -> Seq(Coros)] /\ woken \in [Coros -> Nat]
      /\ \A c \in Coros : woken[c] <= Len(others[c])
  BY DEF Init
<1>2. /\ pc \in [Coros -> PC] /\ target \in [Coros -> Coros \cup {NoCoro}]
      /\ m \in [Coros -> Threads \cup {NoThread}]
      /\ finished \in [Coros -> BOOLEAN] /\ scheduler \in [Coros -> BOOLEAN]
  BY DEF Init, PC
<1>3. /\ result \in [Coros -> Values]
      /\ got \in [Awaits -> Values \cup {"none", "void"}]
  BY DEF Init, Values
<1> QED BY <1>1, <1>2, <1>3 DEF TypeOK

(* Every step keeps the types. *)
LEMMA TypeStep == TypeOK /\ [Next]_vars => TypeOK'
<1> SUFFICES ASSUME TypeOK, [Next]_vars PROVE TypeOK'
  OBVIOUS
<1> USE DEF PC, Goto, Return
<1>1. ASSUME NEW w \in Workers, Resume(w) PROVE TypeOK'
  <2>1. Head(ready) \in Coros /\ Tail(ready) \in Seq(Coros)
    BY <1>1 DEF Resume, TypeOK
  <2>2. AwaitResume(Head(ready), target[Head(ready)])
    BY <1>1 DEF Resume
  <2>3. stack' \in [Threads -> Seq(Coros)]
    <3>1. <<Head(ready)>> \in Seq(Coros) BY <2>1
    <3> QED BY <1>1, <3>1 DEF Resume, TypeOK
  <2> QED BY <1>1, <2>1, <2>2, <2>3, AwaitResumeType DEF Resume, TypeOK
<1>2. ASSUME NEW th \in Threads, NEW c \in Coros, Advance(th, c) PROVE TypeOK'
  <2>0. Innermost(th, c) => Tail(stack[th]) \in Seq(Coros)
    BY DEF Innermost, TypeOK
  <2>1. CASE AwaitScheduler(th, c)
    <3>1. Append(ready, c) \in Seq(Coros) BY DEF TypeOK
    <3> QED BY <2>0, <2>1, <3>1 DEF AwaitScheduler, TypeOK
  <2>2. CASE AwaitSuspend(th, c)
    <3>1. CASE AwaitResume(c, target[c]) /\ UNCHANGED <<stack, others>>
               /\ target' = [target EXCEPT ![c] = NoCoro] /\ Goto(c, "run")
      BY <2>2, <3>1, AwaitResumeType DEF AwaitSuspend, TypeOK
    <3>2. CASE others' = [others EXCEPT ![target[c]] = Append(@, c)]
               /\ Goto(c, "suspended") /\ Return(th)
               /\ UNCHANGED <<target, result, got>>
      <4>1. target[c] \in Coros =>
              /\ Append(others[target[c]], c) \in Seq(Coros)
              /\ Len(Append(others[target[c]], c)) = Len(others[target[c]]) + 1
        BY DEF TypeOK
      <4>2. others' \in [Coros -> Seq(Coros)]
        BY <3>2, <4>1 DEF TypeOK
      <4>3. \A t \in Coros : woken[t] <= Len(others'[t])
        BY <3>2, <4>1 DEF TypeOK
      <4> QED BY <2>0, <2>2, <3>2, <4>2, <4>3 DEF AwaitSuspend, TypeOK
    <3> QED BY <2>2, <3>1, <3>2 DEF AwaitSuspend
  <2>3. CASE CoReturn(th, c)
    BY <2>3 DEF CoReturn, TypeOK, Values
  <2>4. CASE FinalLock(th, c)
    BY <2>4 DEF FinalLock, TypeOK
  <2>5. CASE Wake(th, c)
    <3> DEFINE o == others[c][woken[c] + 1]
    <3>1. o \in Coros BY <2>5 DEF Wake, TypeOK
    <3>2. woken' \in [Coros -> Nat] /\ \A t \in Coros : woken'[t] <= Len(others[t])
      BY <2>5 DEF Wake, TypeOK
    <3> HIDE DEF o
    <3>3. CASE ready' = Append(ready, o) /\ Goto(o, "ready")
               /\ UNCHANGED <<stack, target, result, got>>
      <4>1. Append(ready, o) \in Seq(Coros) BY <3>1 DEF TypeOK
      <4> QED BY <2>5, <3>1, <3>2, <3>3, <4>1 DEF Wake, TypeOK
    <3>4. CASE stack' = [stack EXCEPT ![th] = <<o>> \o @] /\ Goto(o, "run")
               /\ AwaitResume(o, c) /\ target' = [target EXCEPT ![o] = NoCoro]
               /\ UNCHANGED ready
      <4>1. <<o>> \o stack[th] \in Seq(Coros) BY <3>1 DEF TypeOK
      <4>2. stack' \in [Threads -> Seq(Coros)] BY <3>4, <4>1 DEF TypeOK
      <4> QED BY <2>5, <3>1, <3>2, <3>4, <4>2, AwaitResumeType DEF Wake, TypeOK
    <3> QED BY <2>5, <3>3, <3>4 DEF Wake, o
  <2>6. CASE FinalUnlock(th, c)
    BY <2>0, <2>6 DEF FinalUnlock, TypeOK
  <2>7. CASE YieldLock(th, c)
    BY <2>7 DEF YieldLock, TypeOK
  <2>8. CASE YieldStore(th, c)
    <3>1. <<>> \in Seq(Coros) /\ Len(<<>>) = 0 OBVIOUS
    <3>2. /\ others' \in [Coros -> Seq(Coros)] /\ woken' \in [Coros -> Nat]
          /\ \A t \in Coros : woken'[t] <= Len(others'[t])
      BY <2>8, <3>1 DEF YieldStore, TypeOK
    <3> QED BY <2>0, <2>8, <3>2 DEF YieldStore, TypeOK, Values
  <2> QED BY <1>2, <2>1, <2>2, <2>3, <2>4, <2>5, <2>6, <2>7, <2>8 DEF Advance
<1>3. ASSUME NEW th \in Threads, NEW c \in Coros,
             Call(th, c) \/ ResumeParked(th, c)
      PROVE  TypeOK'
  <2>1. <<c>> \o stack[th] \in Seq(Coros) BY DEF TypeOK
  <2>2. stack' \in [Threads -> Seq(Coros)]
    BY <1>3, <2>1 DEF Call, ResumeParked, TypeOK
  <2> QED BY <1>3, <2>2 DEF Call, ResumeParked, TypeOK
<1>4. ASSUME NEW th \in Threads, NEW c \in Coros, Throw(th, c) \/ CoYield(th, c)
      PROVE  TypeOK'
  BY <1>4 DEF Throw, CoYield, TypeOK
<1>5. ASSUME NEW th \in Threads, NEW c \in Coros, NEW t \in Coros, Await(th, c, t)
      PROVE  TypeOK'
  BY <1>5 DEF Await, TypeOK
<1>6. CASE UNCHANGED vars
  BY <1>6 DEF vars, TypeOK
<1> QED BY <1>1, <1>2, <1>3, <1>4, <1>5, <1>6 DEF Next

-------------------------------------------------------------------------------
(* Stacks *)

(* What putting a coroutine on a stack makes of it. *)
LEMMA Pushed ==
  ASSUME NEW S, NEW s \in Seq(S), NEW o \in S
  PROVE  LET p == <<o>> \o s
         IN  /\ p \in Seq(S) /\ Len(p) = Len(s) + 1 /\ p[1] = o
             /\ \A i \in 2..Len(p) : i - 1 \in 1..Len(s) /\ p[i] = s[i - 1]
<1>1. Len(<<o>>) = 1 /\ <<o>> \in Seq(S)
  OBVIOUS
<1> QED BY <1>1

(* A coroutine that is on no stack is put on one. *)
LEMMA Push ==
  ASSUME TypeOK, Stacked, NEW th \in Threads, NEW o \in Coros, pc[o] \notin Active,
         stack' = [stack EXCEPT ![th] = <<o>> \o @], Goto(o, "run")
  PROVE  Stacked'
<1> DEFINE p == <<o>> \o stack[th]
<1>1. /\ Len(p) = Len(stack[th]) + 1 /\ p[1] = o
      /\ \A i \in 2..Len(p) : i - 1 \in 1..Len(stack[th]) /\ p[i] = stack[th][i - 1]
  BY Pushed DEF TypeOK
<1>2. \A u \in Threads : stack'[u] = IF u = th THEN p ELSE stack[u]
  BY DEF TypeOK
<1>3. \A u \in Threads : Len(stack[u]) \in Nat
  BY DEF TypeOK
<1>4. pc'[o] \in Active /\ \A c \in Coros : c # o => pc'[c] = pc[c]
  BY DEF TypeOK, Goto, Active
<1>5. \A u \in Threads : \A i \in 1..Len(stack[u]) :
        stack[u][i] \in Coros /\ stack[u][i] # o
  BY DEF TypeOK, Stacked
<1> HIDE DEF p
<1>6. ASSUME NEW u \in Threads, NEW i \in 1..Len(stack'[u])
      PROVE  \/ u = th /\ i = 1 /\ stack'[u][i] = o
             \/ u = th /\ i - 1 \in 1..Len(stack[u]) /\ stack'[u][i] = stack[u][i - 1]
             \/ u # th /\ i \in 1..Len(stack[u]) /\ stack'[u][i] = stack[u][i]
  <2>1. CASE u = th /\ i = 1 BY <1>1, <1>2, <2>1
  <2>2. CASE u = th /\ i # 1
    <3>1. i \in 2..Len(p) BY <1>1, <1>2, <1>3, <2>2
    <3> QED BY <1>1, <1>2, <2>2, <3>1
  <2>3. CASE u # th BY <1>2, <2>3
  <2> QED BY <2>1, <2>2, <2>3
<1>7. ASSUME NEW u \in Threads, NEW i \in 1..Len(stack'[u])
      PROVE  pc'[stack'[u][i]] \in Active
  BY <1>4, <1>5, <1>6 DEF Stacked
<1>8. ASSUME NEW u \in Threads, NEW v \in Threads,
             NEW i \in 1..Len(stack'[u]), NEW j \in 1..Len(stack'[v]),
             stack'[u][i] = stack'[v][j]
      PROVE  u = v /\ i = j
  BY <1>5, <1>6, <1>8 DEF Stacked
<1> QED BY <1>7, <1>8 DEF Stacked

(* The innermost coroutine leaves the stack. *)
LEMMA Pop ==
  ASSUME TypeOK, Stacked, NEW th \in Threads, NEW c \in Coros, Innermost(th, c),
         Return(th), NEW x, Goto(c, x)
  PROVE  Stacked'
<1>1. /\ Len(stack[th]) \in Nat /\ Len(Tail(stack[th])) = Len(stack[th]) - 1
      /\ stack[th][1] = c /\ 1 \in 1..Len(stack[th])
      /\ \A i \in 1..Len(Tail(stack[th])) :
           i + 1 \in 1..Len(stack[th]) /\ Tail(stack[th])[i] = stack[th][i + 1]
  BY DEF TypeOK, Innermost
<1>2. \A u \in Threads : stack'[u] = IF u = th THEN Tail(stack[th]) ELSE stack[u]
  BY DEF TypeOK, Return
<1>3. \A o \in Coros : o # c => pc'[o] = pc[o]
  BY DEF TypeOK, Goto
<1>4. ASSUME NEW u \in Threads, NEW i \in 1..Len(stack'[u])
      PROVE  \/ u = th /\ i + 1 \in 1..Len(stack[u]) /\ stack'[u][i] = stack[u][i + 1]
             \/ u # th /\ i \in 1..Len(stack[u]) /\ stack'[u][i] = stack[u][i]
  BY <1>1, <1>2
<1>5. ASSUME NEW u \in Threads, NEW i \in 1..Len(stack'[u])
      PROVE  pc'[stack'[u][i]] \in Active
  <2>0. \A j \in 1..Len(stack[u]) : stack[u][j] \in Coros BY DEF TypeOK
  <2>1. stack'[u][i] \in Coros BY <1>4, <2>0
  <2>2. stack'[u][i] # c BY <1>1, <1>4 DEF Stacked
  <2> QED BY <1>3, <1>4, <2>1, <2>2 DEF Stacked
<1>6. ASSUME NEW u \in Threads, NEW v \in Threads,
             NEW i \in 1..Len(stack'[u]), NEW j \in 1..Len(stack'[v]),
             stack'[u][i] = stack'[v][j]
      PROVE  u = v /\ i = j
  BY <1>4, <1>6 DEF Stacked
<1> QED BY <1>5, <1>6 DEF Stacked

(* No stack changes, and the coroutine that goes on is on none or stays on  *)
(* its own.                                                                 *)
LEMMA Stay ==
  ASSUME TypeOK, Stacked, NEW c \in Coros, NEW x, Goto(c, x),
         pc[c] \notin Active \/ x \in Active, UNCHANGED stack
  PROVE  Stacked'
<1>1. pc'[c] = x /\ \A o \in Coros : o # c => pc'[o] = pc[o]
  BY DEF TypeOK, Goto
<1>2. \A u \in Threads : \A i \in 1..Len(stack[u]) : stack[u][i] \in Coros
  BY DEF TypeOK
<1> QED BY <1>1, <1>2 DEF Stacked

(* The innermost coroutine is on the stack, and Active. *)
LEMMA InnermostActive ==
  ASSUME TypeOK, NEW th \in Threads, NEW c, Innermost(th, c)
  PROVE  c \in Coros /\ (Stacked => pc[c] \in Active)
<1>1. 1 \in 1..Len(stack[th]) /\ stack[th][1] = c /\ c \in Coros
  BY DEF TypeOK, Innermost
<1> QED BY <1>1 DEF Stacked

(* The coroutine a worker takes is ready. *)
LEMMA HeadReady ==
  ASSUME TypeOK, Queued, ready # <<>>
  PROVE  /\ Head(ready) \in Coros /\ pc[Head(ready)] = "ready"
         /\ Len(ready) \in Nat /\ Len(Tail(ready)) = Len(ready) - 1
         /\ 1 \in 1..Len(ready) /\ Head(ready) = ready[1]
         /\ \A i \in 1..Len(Tail(ready)) :
              i + 1 \in 1..Len(ready) /\ Tail(ready)[i] = ready[i + 1]
<1>1. /\ Len(ready) \in Nat /\ Len(Tail(ready)) = Len(ready) - 1
      /\ 1 \in 1..Len(ready) /\ Head(ready) = ready[1] /\ Head(ready) \in Coros
      /\ \A i \in 1..Len(Tail(ready)) :
           i + 1 \in 1..Len(ready) /\ Tail(ready)[i] = ready[i + 1]
  BY DEF TypeOK
<1> QED BY <1>1 DEF Queued

(* The handle the loop over others has come to is that of a coroutine that  *)
(* is suspended.                                                            *)
LEMMA HandleSuspended ==
  ASSUME TypeOK, Registered, NEW c \in Coros, woken[c] < Len(others[c])
  PROVE  LET o == others[c][woken[c] + 1]
         IN  /\ woken[c] + 1 \in Left(c) /\ o \in Coros
             /\ pc[o] = "suspended" /\ target[o] = c
<1>1. /\ woken[c] \in Nat /\ Len(others[c]) \in Nat
      /\ \A i \in 1..Len(others[c]) : others[c][i] \in Coros
  BY DEF TypeOK
<1>2. woken[c] + 1 \in Left(c) /\ woken[c] + 1 \in 1..Len(others[c])
  BY <1>1 DEF Left
<1> QED BY <1>1, <1>2 DEF Registered

(* Every step keeps the stacks apart. *)
LEMMA StackedStep == Inv /\ [Next]_vars => Stacked'
<1> SUFFICES ASSUME Inv, [Next]_vars PROVE Stacked'
  OBVIOUS
<1>0. TypeOK /\ Stacked /\ Queued /\ Registered
  BY DEF Inv
<1>1. ASSUME NEW w \in Workers, Resume(w) PROVE Stacked'
  <2>1. w \in Threads /\ Head(ready) \in Coros /\ pc[Head(ready)] \notin Active
    BY <1>0, <1>1, HeadReady DEF Resume, Threads, Active
  <2>2. <<Head(ready)>> = <<Head(ready)>> \o stack[w]
    BY <1>1, <2>1 DEF Resume
  <2>3. stack' = [stack EXCEPT ![w] = <<Head(ready)>> \o @]
    BY <1>1, <2>2 DEF Resume
  <2>4. Goto(Head(ready), "run") BY <1>1 DEF Resume
  <2> QED BY <1>0, <2>1, <2>3, <2>4, Push
<1>2. ASSUME NEW th \in Threads, NEW c \in Coros, Advance(th, c) PROVE Stacked'
  <2>1. CASE AwaitScheduler(th, c)
    BY <1>0, <2>1, Pop DEF AwaitScheduler
  <2>2. CASE AwaitSuspend(th, c)
    <3>1. CASE Goto(c, "run") /\ UNCHANGED stack
      BY <1>0, <3>1, Stay DEF Active
    <3>2. CASE Goto(c, "suspended") /\ Return(th)
      BY <1>0, <2>2, <3>2, Pop DEF AwaitSuspend
    <3> QED BY <2>2, <3>1, <3>2 DEF AwaitSuspend
  <2>3. CASE CoReturn(th, c)
    BY <1>0, <2>3, Stay DEF CoReturn, Active
  <2>4. CASE FinalLock(th, c)
    BY <1>0, <2>4, Stay DEF FinalLock, Active
  <2>5. CASE Wake(th, c)
    <3> DEFINE o == others[c][woken[c] + 1]
    <3>1. o \in Coros /\ pc[o] \notin Active
      BY <1>0, <2>5, HandleSuspended DEF Wake, Active
    <3>2. \/ Goto(o, "ready") /\ UNCHANGED stack
          \/ Goto(o, "run") /\ stack' = [stack EXCEPT ![th] = <<o>> \o @]
      BY <2>5 DEF Wake
    <3> HIDE DEF o
    <3> QED BY <1>0, <3>1, <3>2, Stay, Push
  <2>6. CASE FinalUnlock(th, c)
    BY <1>0, <2>6, Pop DEF FinalUnlock
  <2>7. CASE YieldLock(th, c)
    BY <1>0, <2>7, Stay DEF YieldLock, Active
  <2>8. CASE YieldStore(th, c)
    BY <1>0, <2>8, Pop DEF YieldStore
  <2> QED BY <1>2, <2>1, <2>2, <2>3, <2>4, <2>5, <2>6, <2>7, <2>8 DEF Advance
<1>3. ASSUME NEW th \in Threads, NEW c \in Coros,
             Call(th, c) \/ ResumeParked(th, c)
      PROVE  Stacked'
  BY <1>0, <1>3, Push DEF Call, ResumeParked, Active
<1>4. ASSUME NEW th \in Threads, NEW c \in Coros, Throw(th, c) \/ CoYield(th, c)
      PROVE  Stacked'
  BY <1>0, <1>4, Stay DEF Throw, CoYield, Active
<1>5. ASSUME NEW th \in Threads, NEW c \in Coros, NEW t \in Coros, Await(th, c, t)
      PROVE  Stacked'
  BY <1>0, <1>5, Stay DEF Await, Active
<1>6. CASE UNCHANGED vars
  BY <1>0, <1>6 DEF vars, Stacked
<1> QED BY <1>1, <1>2, <1>3, <1>4, <1>5, <1>6 DEF Next

-------------------------------------------------------------------------------
(* The scheduler's queue *)

(* A coroutine that is not ready goes elsewhere. *)
LEMMA QueueKept ==
  ASSUME TypeOK, Queued, NEW c \in Coros, NEW x, Goto(c, x), pc[c] # "ready",
         UNCHANGED ready
  PROVE  Queued'
<1>1. \A o \in Coros : o # c => pc'[o] = pc[o]
  BY DEF TypeOK, Goto
<1>2. \A i \in 1..Len(ready) : ready[i] \in Coros
  BY DEF TypeOK
<1> QED BY <1>1, <1>2 DEF Queued

(* A coroutine that is not in the queue is pushed. *)
LEMMA QueuePush ==
  ASSUME TypeOK, Queued, NEW o \in Coros, pc[o] # "ready", Goto(o, "ready"),
         ready' = Append(ready, o)
  PROVE  Queued'
<1>1. pc'[o] = "ready" /\ \A c \in Coros : c # o => pc'[c] = pc[c]
  BY DEF TypeOK, Goto, PC
<1>2. \A i \in 1..Len(ready) : ready[i] \in Coros /\ ready[i] # o
  BY DEF TypeOK, Queued
<1>3. /\ Len(ready') = Len(ready) + 1 /\ ready'[Len(ready) + 1] = o
      /\ Len(ready) \in Nat
      /\ \A i \in 1..Len(ready) : ready'[i] = ready[i]
  BY DEF TypeOK
<1>4. \A i \in 1..Len(ready') : i \in 1..Len(ready) \/ i = Len(ready) + 1
  BY <1>3
<1> QED BY <1>1, <1>2, <1>3, <1>4 DEF Queued

(* The first coroutine is taken. *)
LEMMA QueuePull ==
  ASSUME TypeOK, Queued, ready # <<>>, NEW x, Goto(Head(ready), x),
         ready' = Tail(ready)
  PROVE  Queued'
<1>1. \A o \in Coros : o # Head(ready) => pc'[o] = pc[o]
  BY HeadReady DEF TypeOK, Goto
<1>2. \A i \in 1..Len(ready) : ready[i] \in Coros
  BY DEF TypeOK
<1>3. \A i \in 1..Len(ready') :
        /\ i + 1 \in 1..Len(ready) /\ ready'[i] = ready[i + 1]
        /\ i + 1 # 1
  BY HeadReady
<1>4. \A i \in 1..Len(ready') : ready'[i] \in Coros /\ ready'[i] # Head(ready)
  BY <1>2, <1>3, HeadReady DEF Queued
<1>5. \A i \in 1..Len(ready') : pc'[ready'[i]] = "ready"
  BY <1>1, <1>3, <1>4 DEF Queued
<1>6. ASSUME NEW i \in 1..Len(ready'), NEW j \in 1..Len(ready'), ready'[i] = ready'[j]
      PROVE  i = j
  BY <1>3, <1>6 DEF Queued
<1> QED BY <1>5, <1>6 DEF Queued

(* Every step keeps the coroutines in the queue ready, and each there once. *)
LEMMA QueuedStep == Inv /\ [Next]_vars => Queued'
<1> SUFFICES ASSUME Inv, [Next]_vars PROVE Queued'
  OBVIOUS
<1>0. TypeOK /\ Stacked /\ Queued /\ Registered
  BY DEF Inv
<1>1. ASSUME NEW w \in Workers, Resume(w) PROVE Queued'
  BY <1>0, <1>1, QueuePull DEF Resume
<1>2. ASSUME NEW th \in Threads, NEW c \in Coros, Advance(th, c) PROVE Queued'
  <2>0. Innermost(th, c) => pc[c] # "ready"
    BY <1>0, InnermostActive DEF Active
  <2>1. CASE AwaitScheduler(th, c)
    BY <1>0, <2>0, <2>1, QueuePush DEF AwaitScheduler
  <2>2. CASE AwaitSuspend(th, c)
    <3>1. (Goto(c, "run") \/ Goto(c, "suspended")) /\ UNCHANGED ready
      BY <2>2 DEF AwaitSuspend
    <3> QED BY <1>0, <2>0, <2>2, <3>1, QueueKept DEF AwaitSuspend
  <2>3. CASE CoReturn(th, c)
    BY <1>0, <2>0, <2>3, QueueKept DEF CoReturn, InBody
  <2>4. CASE FinalLock(th, c)
    BY <1>0, <2>0, <2>4, QueueKept DEF FinalLock
  <2>5. CASE Wake(th, c)
    <3> DEFINE o == others[c][woken[c] + 1]
    <3>1. o \in Coros /\ pc[o] # "ready"
      BY <1>0, <2>5, HandleSuspended DEF Wake
    <3>2. \/ Goto(o, "ready") /\ ready' = Append(ready, o)
          \/ Goto(o, "run") /\ UNCHANGED ready
      BY <2>5 DEF Wake
    <3> HIDE DEF o
    <3> QED BY <1>0, <3>1, <3>2, QueueKept, QueuePush
  <2>6. CASE FinalUnlock(th, c)
    BY <1>0, <2>0, <2>6, QueueKept DEF FinalUnlock
  <2>7. CASE YieldLock(th, c)
    BY <1>0, <2>0, <2>7, QueueKept DEF YieldLock
  <2>8. CASE YieldStore(th, c)
    BY <1>0, <2>0, <2>8, QueueKept DEF YieldStore
  <2> QED BY <1>2, <2>1, <2>2, <2>3, <2>4, <2>5, <2>6, <2>7, <2>8 DEF Advance
<1>3. ASSUME NEW th \in Threads, NEW c \in Coros,
             Call(th, c) \/ ResumeParked(th, c)
      PROVE  Queued'
  BY <1>0, <1>3, QueueKept DEF Call, ResumeParked
<1>4. ASSUME NEW th \in Threads, NEW c \in Coros, Throw(th, c) \/ CoYield(th, c)
      PROVE  Queued'
  BY <1>0, <1>4, QueueKept DEF Throw, CoYield, InBody
<1>5. ASSUME NEW th \in Threads, NEW c \in Coros, NEW t \in Coros, Await(th, c, t)
      PROVE  Queued'
  BY <1>0, <1>5, QueueKept DEF Await, InBody
<1>6. CASE UNCHANGED vars
  BY <1>0, <1>6 DEF vars, Queued
<1> QED BY <1>1, <1>2, <1>3, <1>4, <1>5, <1>6 DEF Next

-------------------------------------------------------------------------------
(* The handles registered in the promises *)

(* Goto moves one coroutine. *)
LEMMA Gone ==
  ASSUME TypeOK, NEW c \in Coros, NEW x, Goto(c, x)
  PROVE  \A o \in Coros : pc'[o] = IF o = c THEN x ELSE pc[o]
BY DEF TypeOK, Goto

(* The coroutines registered are those of Coros. *)
LEMMA LeftType ==
  ASSUME TypeOK, NEW t \in Coros
  PROVE  /\ woken[t] \in Nat /\ Len(others[t]) \in Nat
         /\ \A i \in Left(t) : i \in 1..Len(others[t]) /\ others[t][i] \in Coros
BY DEF TypeOK, Left

(* A coroutine that is not suspended goes elsewhere; what it leaves when it *)
(* is done is empty.                                                        *)
LEMMA RegistrationKept ==
  ASSUME TypeOK, Registered, NeverLost, NEW c \in Coros, NEW x, Goto(c, x),
         pc[c] # "suspended", x # "suspended", x = "done" => woken[c] = Len(others[c]),
         \A o \in Coros : o # c => target'[o] = target[o],
         UNCHANGED <<others, woken>>,
         \A o \in Coros : pc[o] = "suspended" => target[o] \in Coros
  PROVE  Registered' /\ NeverLost'
<1>1. \A o \in Coros : pc'[o] = IF o = c THEN x ELSE pc[o]
  BY Gone
<1>2. \A t \in Coros : \A i \in Left(t) : others[t][i] \in Coros /\ others[t][i] # c
  BY LeftType DEF Registered
<1>3. Registered'
  BY <1>1, <1>2 DEF Registered, Left
<1>4. ASSUME NEW o \in Coros, pc'[o] = "suspended"
      PROVE  /\ pc'[target'[o]] # "done"
             /\ \E i \in (woken'[target'[o]] + 1)..Len(others'[target'[o]]) :
                  others'[target'[o]][i] = o
  <2>1. o # c /\ pc[o] = "suspended" /\ target'[o] = target[o] /\ target[o] \in Coros
    BY <1>1, <1>4
  <2>2. PICK i \in (woken[target[o]] + 1)..Len(others[target[o]]) :
          others[target[o]][i] = o
    BY <2>1 DEF NeverLost
  <2>3. pc[target[o]] # "done" BY <2>1 DEF NeverLost
  <2>4. target[o] = c => x # "done"
    BY <2>1, <2>2, LeftType DEF TypeOK
  <2> QED BY <1>1, <2>1, <2>2, <2>3, <2>4
<1> QED BY <1>3, <1>4 DEF NeverLost

(* A coroutine that was not suspended registers with one that is not done.  *)
LEMMA Register ==
  ASSUME TypeOK, Registered, NeverLost, NEW c \in Coros, NEW t \in Coros,
         pc[c] # "suspended", pc[t] # "done", target[c] = t, Goto(c, "suspended"),
         others' = [others EXCEPT ![t] = Append(@, c)], UNCHANGED <<target, woken>>,
         \A o \in Coros : pc[o] = "suspended" => target[o] \in Coros
  PROVE  Registered' /\ NeverLost'
<1>1. \A o \in Coros : pc'[o] = IF o = c THEN "suspended" ELSE pc[o]
  BY Gone
<1>2. others[t] \in Seq(Coros) /\ woken[t] <= Len(others[t])
      /\ woken[t] \in Nat /\ Len(others[t]) \in Nat
  BY DEF TypeOK
<1>3. /\ Len(others'[t]) = Len(others[t]) + 1
      /\ \A i \in 1..Len(others[t]) : others'[t][i] = others[t][i]
      /\ others'[t][Len(others[t]) + 1] = c
      /\ \A u \in Coros : u # t => others'[u] = others[u]
  BY <1>2 DEF TypeOK
<1>4. \A i \in Left(t)' : i \in Left(t) \/ i = Len(others[t]) + 1
  BY <1>2, <1>3 DEF Left
<1>5. \A u \in Coros : u # t => Left(u)' = Left(u)
  BY <1>3 DEF Left
<1>6. \A u \in Coros : \A i \in Left(u) : others[u][i] \in Coros /\ others[u][i] # c
  BY LeftType DEF Registered
<1>7. \A i \in Left(t) : i \in 1..Len(others[t]) /\ others'[t][i] = others[t][i]
  BY <1>3, LeftType
<1>8. Registered'
  <2> DEFINE Ok(u) ==
        /\ \A i \in Left(u)' : pc'[others'[u][i]] = "suspended" /\ target'[others'[u][i]] = u
        /\ \A i, j \in Left(u)' : others'[u][i] = others'[u][j] => i = j
  <2>1. Ok(t)
    BY <1>1, <1>3, <1>4, <1>6, <1>7 DEF Registered
  <2>2. ASSUME NEW u \in Coros, u # t PROVE Ok(u)
    BY <1>1, <1>3, <1>5, <1>6, <2>2 DEF Registered
  <2>3. (\A u \in Coros : Ok(u)) => Registered'
    BY DEF Registered, Left
  <2> HIDE DEF Ok
  <2> QED BY <2>1, <2>2, <2>3
<1>9. ASSUME NEW o \in Coros, pc'[o] = "suspended"
      PROVE  /\ pc'[target'[o]] # "done"
             /\ \E i \in (woken'[target'[o]] + 1)..Len(others'[target'[o]]) :
                  others'[target'[o]][i] = o
  <2>1. CASE o = c
    <3>1. Len(others[t]) + 1 \in (woken'[t] + 1)..Len(others'[t]) BY <1>2, <1>3
    <3> QED BY <1>1, <1>3, <2>1, <3>1
  <2>2. CASE o # c
    <3>1. pc[o] = "suspended" /\ target[o] \in Coros BY <1>1, <1>9, <2>2
    <3>2. pc[target[o]] # "done" BY <3>1 DEF NeverLost
    <3>3. PICK i \in (woken[target[o]] + 1)..Len(others[target[o]]) :
            others[target[o]][i] = o
      BY <3>1 DEF NeverLost
    <3>4. CASE target[o] = t
      <4>1. i \in Left(t) BY <3>3, <3>4 DEF Left
      <4>2. i \in (woken'[t] + 1)..Len(others'[t]) BY <1>2, <1>3, <3>3, <3>4
      <4> QED BY <1>1, <1>7, <3>2, <3>3, <3>4, <4>1, <4>2
    <3>5. CASE target[o] # t
      BY <1>1, <1>3, <3>1, <3>2, <3>3, <3>5
    <3> QED BY <3>4, <3>5
  <2> QED BY <2>1, <2>2
<1> QED BY <1>8, <1>9 DEF NeverLost

(* The next handle is woken. *)
LEMMA WakeNext ==
  ASSUME TypeOK, Registered, NeverLost, NEW c \in Coros, NEW o,
         woken[c] < Len(others[c]), o = others[c][woken[c] + 1],
         NEW x, x \notin {"suspended", "done"}, Goto(o, x),
         woken' = [woken EXCEPT ![c] = @ + 1], UNCHANGED others,
         \A d \in Coros : d # o => target'[d] = target[d],
         \A d \in Coros : pc[d] = "suspended" => target[d] \in Coros
  PROVE  Registered' /\ NeverLost'
<1>1. woken[c] + 1 \in Left(c) /\ o \in Coros /\ pc[o] = "suspended" /\ target[o] = c
  BY HandleSuspended
<1>2. \A d \in Coros : pc'[d] = IF d = o THEN x ELSE pc[d]
  BY <1>1, Gone
<1>3. woken[c] \in Nat /\ \A u \in Coros : woken'[u] = IF u = c THEN woken[c] + 1 ELSE woken[u]
  BY DEF TypeOK
<1>4. \A u \in Coros : \A i \in Left(u)' :
        i \in Left(u) /\ (u = c => i # woken[c] + 1)
  BY <1>3, LeftType DEF Left
<1>5. \A u \in Coros : \A i \in Left(u)' :
        others[u][i] \in Coros /\ others[u][i] # o
  BY <1>1, <1>4, LeftType DEF Registered
<1>6. Registered'
  BY <1>2, <1>4, <1>5 DEF Registered
<1>7. ASSUME NEW d \in Coros, pc'[d] = "suspended"
      PROVE  /\ pc'[target'[d]] # "done"
             /\ \E i \in (woken'[target'[d]] + 1)..Len(others'[target'[d]]) :
                  others'[target'[d]][i] = d
  <2>1. d # o /\ pc[d] = "suspended" /\ target'[d] = target[d] /\ target[d] \in Coros
    BY <1>2, <1>7
  <2>2. PICK i \in (woken[target[d]] + 1)..Len(others[target[d]]) :
          others[target[d]][i] = d
    BY <2>1 DEF NeverLost
  <2>3. pc[target[d]] # "done" BY <2>1 DEF NeverLost
  <2>4. i \in (woken'[target[d]] + 1)..Len(others[target[d]])
    <3>1. target[d] = c => i # woken[c] + 1 BY <2>1, <2>2
    <3> QED BY <1>3, <2>1, <2>2, <3>1, LeftType
  <2> QED BY <1>2, <2>1, <2>2, <2>3, <2>4
<1> QED BY <1>6, <1>7 DEF NeverLost

(* All handles have been woken, and others is cleared. *)
LEMMA HandlesCleared ==
  ASSUME TypeOK, Registered, NeverLost, NEW c \in Coros, NEW x, Goto(c, x),
         pc[c] # "suspended", x \notin {"suspended", "done"},
         woken[c] = Len(others[c]),
         others' = [others EXCEPT ![c] = <<>>], woken' = [woken EXCEPT ![c] = 0],
         UNCHANGED target,
         \A o \in Coros : pc[o] = "suspended" => target[o] \in Coros
  PROVE  Registered' /\ NeverLost'
<1>1. \A o \in Coros : pc'[o] = IF o = c THEN x ELSE pc[o]
  BY Gone
<1>2. /\ others'[c] = <<>> /\ woken'[c] = 0
      /\ \A u \in Coros : u # c => others'[u] = others[u] /\ woken'[u] = woken[u]
  BY DEF TypeOK
<1>3. Left(c) = {} /\ Left(c)' = {}
  BY <1>2, LeftType DEF Left
<1>4. \A u \in Coros : u # c => Left(u)' = Left(u)
  BY <1>2 DEF Left
<1>5. \A u \in Coros : \A i \in Left(u) : others[u][i] \in Coros /\ others[u][i] # c
  BY LeftType DEF Registered
<1>6. Registered'
  BY <1>1, <1>2, <1>3, <1>4, <1>5 DEF Registered
<1>7. ASSUME NEW o \in Coros, pc'[o] = "suspended"
      PROVE  /\ pc'[target'[o]] # "done"
             /\ \E i \in (woken'[target'[o]] + 1)..Len(others'[target'[o]]) :
                  others'[target'[o]][i] = o
  <2>1. o # c /\ pc[o] = "suspended" /\ target'[o] = target[o] /\ target[o] \in Coros
    BY <1>1, <1>7
  <2>2. PICK i \in (woken[target[o]] + 1)..Len(others[target[o]]) :
          others[target[o]][i] = o
    BY <2>1 DEF NeverLost
  <2>3. pc[target[o]] # "done" BY <2>1 DEF NeverLost
  <2>4. target[o] # c BY <1>3, <2>2 DEF Left
  <2> QED BY <1>1, <1>2, <2>1, <2>2, <2>3, <2>4
<1> QED BY <1>6, <1>7 DEF NeverLost

(* Every step keeps the handles those of coroutines that wait, and every    *)
(* coroutine that waits among the handles.                                  *)
LEMMA RegistrationStep == Inv /\ [Next]_vars => Registered' /\ NeverLost'
<1> SUFFICES ASSUME Inv, [Next]_vars PROVE Registered' /\ NeverLost'
  OBVIOUS
<1>0. /\ TypeOK /\ Stacked /\ Queued /\ Registered /\ NeverLost
      /\ \A o \in Coros : pc[o] = "suspended" => target[o] \in Coros
  BY DEF Inv, Waiting
<1>1. ASSUME NEW w \in Workers, Resume(w) PROVE Registered' /\ NeverLost'
  <2>1. Head(ready) \in Coros /\ pc[Head(ready)] = "ready"
    BY <1>0, <1>1, HeadReady DEF Resume
  <2>2. \A o \in Coros : o # Head(ready) => target'[o] = target[o]
    BY <1>0, <1>1 DEF Resume, TypeOK
  <2>3. Goto(Head(ready), "run") /\ UNCHANGED <<others, woken>>
    BY <1>1 DEF Resume
  <2> QED BY <1>0, <2>1, <2>2, <2>3, RegistrationKept
<1>2. ASSUME NEW th \in Threads, NEW c \in Coros, Advance(th, c)
      PROVE  Registered' /\ NeverLost'
  <2>0. Innermost(th, c) => pc[c] # "suspended"
    BY <1>0, InnermostActive DEF Active
  <2>1. CASE AwaitScheduler(th, c)
    BY <1>0, <2>0, <2>1, RegistrationKept DEF AwaitScheduler
  <2>2. CASE AwaitSuspend(th, c)
    <3>1. CASE target' = [target EXCEPT ![c] = NoCoro] /\ Goto(c, "run")
               /\ UNCHANGED <<stack, others>>
      <4>1. \A o \in Coros : o # c => target'[o] = target[o]
        BY <1>0, <3>1 DEF TypeOK
      <4>2. UNCHANGED <<others, woken>> BY <2>2, <3>1 DEF AwaitSuspend
      <4> QED BY <1>0, <2>0, <2>2, <3>1, <4>1, <4>2, RegistrationKept DEF AwaitSuspend
    <3>2. CASE /\ ~ finished[target[c]] /\ Goto(c, "suspended")
               /\ others' = [others EXCEPT ![target[c]] = Append(@, c)]
               /\ UNCHANGED target
      <4>1. target[c] \in Coros /\ UNCHANGED woken
        BY <2>2 DEF AwaitSuspend, Inv, Waiting
      <4>2. pc[target[c]] # "done" BY <3>2, <4>1 DEF Inv, AtEnd
      <4> QED BY <1>0, <2>0, <2>2, <3>2, <4>1, <4>2, Register DEF AwaitSuspend
    <3> QED BY <2>2, <3>1, <3>2 DEF AwaitSuspend
  <2>3. CASE CoReturn(th, c)
    BY <1>0, <2>0, <2>3, RegistrationKept DEF CoReturn, InBody
  <2>4. CASE FinalLock(th, c)
    <3>1. woken' = woken
      BY <1>0, <2>4 DEF FinalLock, Inv, AtEnd, TypeOK
    <3> QED BY <1>0, <2>0, <2>4, <3>1, RegistrationKept DEF FinalLock
  <2>5. CASE Wake(th, c)
    <3> DEFINE o == others[c][woken[c] + 1]
    <3>1. o \in Coros BY <1>0, <2>5, HandleSuspended DEF Wake
    <3>2. \/ Goto(o, "ready") /\ UNCHANGED target
          \/ Goto(o, "run") /\ target' = [target EXCEPT ![o] = NoCoro]
      BY <2>5 DEF Wake
    <3>3. /\ woken[c] < Len(others[c]) /\ UNCHANGED others
          /\ woken' = [woken EXCEPT ![c] = @ + 1]
      BY <2>5 DEF Wake
    <3>4. o = others[c][woken[c] + 1]
      OBVIOUS
    <3> HIDE DEF o
    <3>5. \A d \in Coros : d # o => target'[d] = target[d]
      BY <1>0, <3>1, <3>2 DEF TypeOK
    <3>6. CASE Goto(o, "ready") BY <1>0, <3>3, <3>4, <3>5, <3>6, WakeNext
    <3>7. CASE Goto(o, "run") BY <1>0, <3>3, <3>4, <3>5, <3>7, WakeNext
    <3> QED BY <3>2, <3>6, <3>7
  <2>6. CASE FinalUnlock(th, c)
    BY <1>0, <2>0, <2>6, RegistrationKept DEF FinalUnlock
  <2>7. CASE YieldLock(th, c)
    <3>1. woken' = woken
      BY <1>0, <2>7 DEF YieldLock, Inv, AtEnd, TypeOK
    <3> QED BY <1>0, <2>0, <2>7, <3>1, RegistrationKept DEF YieldLock
  <2>8. CASE YieldStore(th, c)
    BY <1>0, <2>0, <2>8, HandlesCleared DEF YieldStore
  <2> QED BY <1>2, <2>1, <2>2, <2>3, <2>4, <2>5, <2>6, <2>7, <2>8 DEF Advance
<1>3. ASSUME NEW th \in Threads, NEW c \in Coros,
             Call(th, c) \/ ResumeParked(th, c)
      PROVE  Registered' /\ NeverLost'
  BY <1>0, <1>3, RegistrationKept DEF Call, ResumeParked
<1>4. ASSUME NEW th \in Threads, NEW c \in Coros, Throw(th, c) \/ CoYield(th, c)
      PROVE  Registered' /\ NeverLost'
  BY <1>0, <1>4, RegistrationKept DEF Throw, CoYield, InBody
<1>5. ASSUME NEW th \in Threads, NEW c \in Coros, NEW t \in Coros, Await(th, c, t)
      PROVE  Registered' /\ NeverLost'
  <2>1. \A o \in Coros : o # c => target'[o] = target[o]
    BY <1>0, <1>5 DEF Await, TypeOK
  <2> QED BY <1>0, <1>5, <2>1, RegistrationKept DEF Await, InBody
<1>6. CASE UNCHANGED vars
  BY <1>0, <1>6 DEF vars, Registered, NeverLost, Left
<1> QED BY <1>1, <1>2, <1>3, <1>4, <1>5, <1>6 DEF Next

-------------------------------------------------------------------------------
(* Whom a coroutine waits for, and where it is in its life *)

(* Every step keeps what a coroutine awaits in step with where it is. *)
LEMMA WaitingStep == Inv /\ [Next]_vars => Waiting'
<1> SUFFICES ASSUME Inv, [Next]_vars PROVE Waiting'
  OBVIOUS
<1>0. TypeOK /\ Stacked /\ Queued /\ Registered /\ Waiting
  BY DEF Inv
<1>00. pc \in [Coros -> PC] /\ target \in [Coros -> Coros \cup {NoCoro}]
  BY <1>0 DEF TypeOK
<1> USE DEF Goto
<1>1. ASSUME NEW w \in Workers, Resume(w) PROVE Waiting'
  <2>1. Head(ready) \in Coros BY <1>0, <1>1, HeadReady DEF Resume
  <2> QED BY <1>0, <1>00, <1>1, <2>1 DEF Resume, Waiting
<1>2. ASSUME NEW th \in Threads, NEW c \in Coros, Advance(th, c) PROVE Waiting'
  <2>0. Innermost(th, c) => pc[c] \in Active BY <1>0, InnermostActive
  <2>1. CASE AwaitScheduler(th, c)
    BY <1>0, <1>00, <2>1 DEF AwaitScheduler, Waiting
  <2>2. CASE AwaitSuspend(th, c)
    BY <1>0, <1>00, <2>2 DEF AwaitSuspend, Waiting
  <2>3. CASE CoReturn(th, c)
    BY <1>0, <1>00, <2>3 DEF CoReturn, InBody, Waiting
  <2>4. CASE FinalLock(th, c)
    BY <1>0, <1>00, <2>4 DEF FinalLock, Waiting
  <2>5. CASE Wake(th, c)
    <3> DEFINE o == others[c][woken[c] + 1]
    <3>1. o \in Coros BY <1>0, <2>5, HandleSuspended DEF Wake
    <3>2. \/ Goto(o, "ready") /\ UNCHANGED target
          \/ Goto(o, "run") /\ target' = [target EXCEPT ![o] = NoCoro]
      BY <2>5 DEF Wake
    <3> HIDE DEF o
    <3> QED BY <1>0, <1>00, <3>1, <3>2 DEF Waiting
  <2>6. CASE FinalUnlock(th, c)
    BY <1>0, <1>00, <2>6 DEF FinalUnlock, Waiting
  <2>7. CASE YieldLock(th, c)
    BY <1>0, <1>00, <2>7 DEF YieldLock, Waiting
  <2>8. CASE YieldStore(th, c)
    BY <1>0, <1>00, <2>8 DEF YieldStore, Waiting
  <2> QED BY <1>2, <2>1, <2>2, <2>3, <2>4, <2>5, <2>6, <2>7, <2>8 DEF Advance
<1>3. ASSUME NEW th \in Threads, NEW c \in Coros,
             \/ Call(th, c) \/ ResumeParked(th, c) \/ Throw(th, c) \/ CoYield(th, c)
      PROVE  Waiting'
  BY <1>0, <1>00, <1>3 DEF Call, ResumeParked, Throw, CoYield, InBody, Waiting
<1>4. ASSUME NEW th \in Threads, NEW c \in Coros, NEW t \in Coros, Await(th, c, t)
      PROVE  Waiting'
  BY <1>0, <1>00, <1>4 DEF Await, Waiting
<1>5. CASE UNCHANGED vars
  BY <1>0, <1>5 DEF vars, Waiting
<1> QED BY <1>1, <1>2, <1>3, <1>4, <1>5 DEF Next

(* Every step keeps finished and woken in step with where a coroutine is,   *)
(* and only the coroutines that may yield do.                               *)
LEMMA AtEndStep == Inv /\ [Next]_vars => AtEnd' /\ NoYield'
<1> SUFFICES ASSUME Inv, [Next]_vars PROVE AtEnd' /\ NoYield'
  OBVIOUS
<1>0. TypeOK /\ Stacked /\ Queued /\ Registered /\ AtEnd /\ NoYield
  BY DEF Inv
<1>00. /\ pc \in [Coros -> PC] /\ finished \in [Coros -> BOOLEAN]
       /\ woken \in [Coros -> Nat]
  BY <1>0 DEF TypeOK
<1> USE DEF Goto
<1>1. ASSUME NEW w \in Workers, Resume(w) PROVE AtEnd' /\ NoYield'
  <2>1. Head(ready) \in Coros /\ pc[Head(ready)] = "ready"
    BY <1>0, <1>1, HeadReady DEF Resume
  <2> QED BY <1>0, <1>00, <1>1, <2>1 DEF Resume, AtEnd, NoYield
<1>2. ASSUME NEW th \in Threads, NEW c \in Coros, Advance(th, c)
      PROVE  AtEnd' /\ NoYield'
  <2>1. CASE AwaitScheduler(th, c)
    BY <1>0, <1>00, <2>1 DEF AwaitScheduler, AtEnd, NoYield
  <2>2. CASE AwaitSuspend(th, c)
    BY <1>0, <1>00, <2>2 DEF AwaitSuspend, AtEnd, NoYield
  <2>3. CASE CoReturn(th, c)
    BY <1>0, <1>00, <2>3 DEF CoReturn, InBody, AtEnd, NoYield
  <2>4. CASE FinalLock(th, c)
    BY <1>0, <1>00, <2>4 DEF FinalLock, AtEnd, NoYield
  <2>5. CASE Wake(th, c)
    <3> DEFINE o == others[c][woken[c] + 1]
    <3>1. o \in Coros /\ pc[o] = "suspended"
      BY <1>0, <2>5, HandleSuspended DEF Wake
    <3>2. /\ Goto(o, "ready") \/ Goto(o, "run")
          /\ pc[c] \in {"ended", "yields"} /\ UNCHANGED finished
          /\ woken' = [woken EXCEPT ![c] = @ + 1]
      BY <2>5 DEF Wake
    <3> HIDE DEF o
    <3> QED BY <1>0, <1>00, <3>1, <3>2 DEF AtEnd, NoYield
  <2>6. CASE FinalUnlock(th, c)
    BY <1>0, <1>00, <2>6 DEF FinalUnlock, AtEnd, NoYield
  <2>7. CASE YieldLock(th, c)
    BY <1>0, <1>00, <2>7 DEF YieldLock, AtEnd, NoYield
  <2>8. CASE YieldStore(th, c)
    BY <1>0, <1>00, <2>8 DEF YieldStore, AtEnd, NoYield
  <2> QED BY <1>2, <2>1, <2>2, <2>3, <2>4, <2>5, <2>6, <2>7, <2>8 DEF Advance
<1>3. ASSUME NEW th \in Threads, NEW c \in Coros,
             \/ Call(th, c) \/ ResumeParked(th, c) \/ Throw(th, c) \/ CoYield(th, c)
      PROVE  AtEnd' /\ NoYield'
  BY <1>0, <1>00, <1>3
     DEF Call, ResumeParked, Throw, CoYield, InBody, AtEnd, NoYield
<1>4. ASSUME NEW th \in Threads, NEW c \in Coros, NEW t \in Coros, Await(th, c, t)
      PROVE  AtEnd' /\ NoYield'
  BY <1>0, <1>00, <1>4 DEF Await, InBody, AtEnd, NoYield
<1>5. CASE UNCHANGED vars
  BY <1>0, <1>5 DEF vars, AtEnd, NoYield
<1> QED BY <1>1, <1>2, <1>3, <1>4, <1>5 DEF Next

-------------------------------------------------------------------------------
(* What a co_await returns *)

(* What the return of a co_await changes. *)
LEMMA AwaitResumed ==
  ASSUME TypeOK, NEW c, NEW t, <<c, t>> \in Awaits, AwaitResume(c, t)
  PROVE  /\ got'[<<c, t>>] = IF t \in Void THEN "void" ELSE result[t]
         /\ got'[<<c, t>>] # "none"
         /\ \A p \in Awaits : p # <<c, t>> => got'[p] = got[p]
         /\ \A u \in Coros : u # t => result'[u] = result[u]
<1>1. t \in Coros /\ result[t] \in Values
  BY TaskAssumption DEF TypeOK
<1> QED BY <1>1 DEF AwaitResume, TypeOK, Values

(* Every step keeps what holds of a coroutine that awaits: a co_await is    *)
(* answered when it returns and not before, and after the end.              *)
LEMMA AwaitingStep == Inv /\ [Next]_vars => Awaiting'
<1> SUFFICES ASSUME Inv, [Next]_vars PROVE Awaiting'
  OBVIOUS
<1>0. /\ TypeOK /\ Stacked /\ Queued /\ Registered /\ AtEnd /\ NoYield
      /\ Waiting /\ Awaiting
  BY DEF Inv
<1>00. /\ pc \in [Coros -> PC] /\ target \in [Coros -> Coros \cup {NoCoro}]
       /\ finished \in [Coros -> BOOLEAN] /\ NoCoro \notin Coros
  BY <1>0, TaskAssumption DEF TypeOK
<1> USE DEF Goto
<1>a. ASSUME NEW c \in Coros, AwaitResume(c, target[c]), UNCHANGED finished,
             target' = [target EXCEPT ![c] = NoCoro], Goto(c, "run")
      PROVE  Awaiting'
  <2>1. ASSUME NEW d \in Coros, target'[d] # NoCoro
        PROVE  /\ d # c /\ target'[d] = target[d] /\ pc'[d] = pc[d]
               /\ got'[<<d, target[d]>>] = got[<<d, target[d]>>]
    <3>1. d # c /\ target'[d] = target[d] /\ pc'[d] = pc[d]
      BY <1>00, <1>a, <2>1
    <3>2. <<d, target[d]>> \in Awaits /\ <<d, target[d]>> # <<c, target[c]>>
      BY <1>0, <2>1, <3>1 DEF Awaiting
    <3>3. CASE <<c, target[c]>> \in Awaits
      BY <1>0, <1>a, <3>1, <3>2, <3>3, AwaitResumed
    <3>4. CASE <<c, target[c]>> \notin Awaits
      BY <1>a, <3>1, <3>4 DEF AwaitResume
    <3> QED BY <3>1, <3>3, <3>4
  <2> QED BY <1>0, <1>a, <2>1 DEF Awaiting
<1>1. ASSUME NEW w \in Workers, Resume(w) PROVE Awaiting'
  <2>1. Head(ready) \in Coros BY <1>0, <1>1, HeadReady DEF Resume
  <2>2. /\ AwaitResume(Head(ready), target[Head(ready)]) /\ UNCHANGED finished
        /\ target' = [target EXCEPT ![Head(ready)] = NoCoro]
        /\ Goto(Head(ready), "run")
    BY <1>1 DEF Resume
  <2> QED BY <1>a, <2>1, <2>2
<1>2. ASSUME NEW th \in Threads, NEW c \in Coros, Advance(th, c) PROVE Awaiting'
  <2>1. CASE AwaitScheduler(th, c)
    BY <1>0, <1>00, <2>1 DEF AwaitScheduler, Awaiting, Waiting
  <2>2. CASE AwaitSuspend(th, c)
    <3>1. CASE AwaitResume(c, target[c]) /\ Goto(c, "run")
               /\ target' = [target EXCEPT ![c] = NoCoro]
      BY <1>a, <2>2, <3>1 DEF AwaitSuspend
    <3>2. CASE Goto(c, "suspended") /\ UNCHANGED <<target, result, got>>
      BY <1>0, <1>00, <2>2, <3>2 DEF AwaitSuspend, Awaiting
    <3> QED BY <2>2, <3>1, <3>2 DEF AwaitSuspend
  <2>3. CASE CoReturn(th, c)
    BY <1>0, <1>00, <2>3 DEF CoReturn, Awaiting
  <2>4. CASE FinalLock(th, c)
    BY <1>0, <1>00, <2>4 DEF FinalLock, Awaiting
  <2>5. CASE Wake(th, c)
    <3> DEFINE o == others[c][woken[c] + 1]
    <3>1. o \in Coros /\ target[o] = c
      BY <1>0, <2>5, HandleSuspended DEF Wake
    <3>2. \/ Goto(o, "ready") /\ UNCHANGED <<target, got>>
          \/ /\ Goto(o, "run") /\ target' = [target EXCEPT ![o] = NoCoro]
             /\ AwaitResume(o, c)
      BY <2>5 DEF Wake
    <3>3. UNCHANGED finished /\ pc[c] \in {"ended", "yields"}
      BY <2>5 DEF Wake
    <3>4. c \notin Yielders => finished[c]
      BY <1>0, <3>3 DEF AtEnd, NoYield
    <3> HIDE DEF o
    <3>5. CASE Goto(o, "ready") /\ UNCHANGED <<target, got>>
      BY <1>0, <1>00, <3>1, <3>3, <3>4, <3>5 DEF Awaiting
    <3>6. CASE /\ Goto(o, "run") /\ target' = [target EXCEPT ![o] = NoCoro]
               /\ AwaitResume(o, c)
      BY <1>a, <3>1, <3>3, <3>6
    <3> QED BY <3>2, <3>5, <3>6
  <2>6. CASE FinalUnlock(th, c)
    BY <1>0, <1>00, <2>6 DEF FinalUnlock, Awaiting
  <2>7. CASE YieldLock(th, c)
    BY <1>0, <1>00, <2>7 DEF YieldLock, Awaiting
  <2>8. CASE YieldStore(th, c)
    BY <1>0, <1>00, <2>8 DEF YieldStore, Awaiting
  <2> QED BY <1>2, <2>1, <2>2, <2>3, <2>4, <2>5, <2>6, <2>7, <2>8 DEF Advance
<1>3. ASSUME NEW th \in Threads, NEW c \in Coros,
             \/ Call(th, c) \/ ResumeParked(th, c) \/ Throw(th, c) \/ CoYield(th, c)
      PROVE  Awaiting'
  BY <1>0, <1>00, <1>3 DEF Call, ResumeParked, Throw, CoYield, Awaiting
<1>4. ASSUME NEW th \in Threads, NEW c \in Coros, NEW t \in Coros, Await(th, c, t)
      PROVE  Awaiting'
  BY <1>0, <1>00, <1>4 DEF Await, Awaiting
<1>5. CASE UNCHANGED vars
  BY <1>0, <1>5 DEF vars, Awaiting
<1> QED BY <1>1, <1>2, <1>3, <1>4, <1>5 DEF Next

(* Every step keeps the returned value until its only awaiter has it.       *)
LEMMA KeptStep == Inv /\ [Next]_vars => Kept' /\ SoleAwaiterGetsResult'
<1> SUFFICES ASSUME Inv, [Next]_vars PROVE Kept' /\ SoleAwaiterGetsResult'
  OBVIOUS
<1>0. /\ TypeOK /\ Stacked /\ Queued /\ Registered /\ AtEnd /\ NoYield
      /\ Awaiting /\ Kept /\ SoleAwaiterGetsResult
  BY DEF Inv
<1>00. /\ pc \in [Coros -> PC] /\ result \in [Coros -> Values]
       /\ \A p \in Awaits : p[1] \in Coros /\ p[2] \in Coros /\ p = <<p[1], p[2]>>
       /\ NoCoro \notin Coros
  BY <1>0, TaskAssumption DEF TypeOK
<1> USE DEF Goto
\* The steps at which no co_await returns.
<1>a. ASSUME UNCHANGED got,
             \A p \in Awaits :
               /\ Sole(p) /\ pc'[p[2]] \in {"end", "ended", "done"}
               => \/ result'[p[2]] = "returned"
                  \/ /\ pc[p[2]] \in {"end", "ended", "done"}
                     /\ result'[p[2]] = result[p[2]]
      PROVE  Kept' /\ SoleAwaiterGetsResult'
  BY <1>0, <1>a DEF Kept, SoleAwaiterGetsResult, Sole
\* Those at which one returns to c.
<1>b. ASSUME NEW c \in Coros, AwaitResume(c, target[c]), Goto(c, "run"),
             target[c] # NoCoro /\ target[c] \notin Yielders => finished[target[c]]
      PROVE  Kept' /\ SoleAwaiterGetsResult'
  <2>1. CASE <<c, target[c]>> \notin Awaits
    BY <1>00, <1>a, <1>b, <2>1 DEF AwaitResume
  <2>2. CASE <<c, target[c]>> \in Awaits
    <3> DEFINE t == target[c]
               q == <<c, t>>
    <3>1. /\ q \in Awaits /\ t \in Coros /\ t # NoCoro
          /\ q[2] = t /\ got[q] = "none"
      BY <1>0, <1>00, <2>2 DEF Awaiting
    <3>2. /\ got'[q] = IF t \in Void THEN "void" ELSE result[t]
          /\ got'[q] # "none"
          /\ \A p \in Awaits : p # q => got'[p] = got[p]
          /\ \A u \in Coros : u # t => result'[u] = result[u]
      BY <1>0, <1>b, <2>2, AwaitResumed
    <3>3. Sole(q) => got'[q] = "returned"
      <4>1. Sole(q) => pc[t] \in {"ended", "done"} /\ t \notin Void
        BY <1>0, <1>b, <3>1 DEF Sole, AtEnd
      <4> QED BY <1>0, <3>1, <3>2, <4>1 DEF Kept
    <3> HIDE DEF t, q
    <3>4. \A p \in Awaits : Sole(p) /\ p # q =>
            got'[p] = got[p] /\ result'[p[2]] = result[p[2]]
      BY <1>00, <3>1, <3>2 DEF Sole
    <3>5. \A o \in Coros : pc'[o] \in {"end", "ended", "done"} => pc'[o] = pc[o]
      BY <1>00, <1>b
    <3>6. Kept'
      BY <1>0, <1>00, <3>2, <3>4, <3>5 DEF Kept, Sole
    <3>7. SoleAwaiterGetsResult'
      BY <1>0, <3>3, <3>4 DEF SoleAwaiterGetsResult, Sole
    <3> QED BY <3>6, <3>7
  <2> QED BY <2>1, <2>2
<1>1. ASSUME NEW w \in Workers, Resume(w) PROVE Kept' /\ SoleAwaiterGetsResult'
  <2>1. Head(ready) \in Coros /\ pc[Head(ready)] = "ready"
    BY <1>0, <1>1, HeadReady DEF Resume
  <2>2. AwaitResume(Head(ready), target[Head(ready)]) /\ Goto(Head(ready), "run")
    BY <1>1 DEF Resume
  <2> QED BY <1>0, <1>b, <2>1, <2>2 DEF Awaiting
<1>2. ASSUME NEW th \in Threads, NEW c \in Coros, Advance(th, c)
      PROVE  Kept' /\ SoleAwaiterGetsResult'
  <2>1. CASE AwaitScheduler(th, c)
    BY <1>00, <1>a, <2>1 DEF AwaitScheduler
  <2>2. CASE AwaitSuspend(th, c)
    <3>1. CASE finished[target[c]] /\ AwaitResume(c, target[c]) /\ Goto(c, "run")
      BY <1>b, <3>1
    <3>2. CASE Goto(c, "suspended") /\ UNCHANGED <<target, result, got>>
      BY <1>00, <1>a, <3>2
    <3> QED BY <2>2, <3>1, <3>2 DEF AwaitSuspend
  <2>3. CASE CoReturn(th, c)
    BY <1>00, <1>a, <2>3 DEF CoReturn, Sole
  <2>4. CASE FinalLock(th, c)
    BY <1>00, <1>a, <2>4 DEF FinalLock
  <2>5. CASE Wake(th, c)
    <3> DEFINE o == others[c][woken[c] + 1]
    <3>1. o \in Coros /\ target[o] = c
      BY <1>0, <2>5, HandleSuspended DEF Wake
    <3>2. \/ Goto(o, "ready") /\ UNCHANGED <<result, got>>
          \/ Goto(o, "run") /\ AwaitResume(o, c)
      BY <2>5 DEF Wake
    <3>3. c \notin Yielders => finished[c]
      BY <1>0, <2>5 DEF Wake, AtEnd, NoYield
    <3> HIDE DEF o
    <3>4. CASE Goto(o, "ready") /\ UNCHANGED <<result, got>>
      BY <1>00, <1>a, <3>1, <3>4
    <3>5. CASE Goto(o, "run") /\ AwaitResume(o, c)
      BY <1>b, <3>1, <3>3, <3>5
    <3> QED BY <3>2, <3>4, <3>5
  <2>6. CASE FinalUnlock(th, c)
    BY <1>00, <1>a, <2>6 DEF FinalUnlock
  <2>7. CASE YieldLock(th, c)
    BY <1>00, <1>a, <2>7 DEF YieldLock
  <2>8. CASE YieldStore(th, c)
    <3>1. c \in Yielders BY <1>0, <2>8 DEF YieldStore, NoYield
    <3> QED BY <1>00, <1>a, <2>8, <3>1 DEF YieldStore, Sole
  <2> QED BY <1>2, <2>1, <2>2, <2>3, <2>4, <2>5, <2>6, <2>7, <2>8 DEF Advance
<1>3. ASSUME NEW th \in Threads, NEW c \in Coros,
             \/ Call(th, c) \/ ResumeParked(th, c) \/ Throw(th, c) \/ CoYield(th, c)
      PROVE  Kept' /\ SoleAwaiterGetsResult'
  BY <1>00, <1>a, <1>3 DEF Call, ResumeParked, Throw, CoYield, Sole
<1>4. ASSUME NEW th \in Threads, NEW c \in Coros, NEW t \in Coros, Await(th, c, t)
      PROVE  Kept' /\ SoleAwaiterGetsResult'
  BY <1>00, <1>a, <1>4 DEF Await
<1>5. CASE UNCHANGED vars
  BY <1>a, <1>5 DEF vars
<1> QED BY <1>1, <1>2, <1>3, <1>4, <1>5 DEF Next

-------------------------------------------------------------------------------
(* Theorems *)

(* Inv holds of the initial states. *)
LEMMA InvInit == Init => Inv
<1> SUFFICES ASSUME Init PROVE Inv
  OBVIOUS
<1>1. TypeOK BY TypeInit
<1>2. Stacked /\ Queued /\ Registered
  BY DEF Init, Stacked, Queued, Registered, Left
<1>3. Waiting /\ AtEnd /\ NeverLost /\ Awaiting /\ NoYield
  BY DEF Init, Waiting, AtEnd, NeverLost, Awaiting, NoYield
<1>4. Kept /\ SoleAwaiterGetsResult
  BY TaskAssumption DEF Init, Kept, SoleAwaiterGetsResult
<1> QED BY <1>1, <1>2, <1>3, <1>4 DEF Inv

(* Every step keeps Inv. *)
LEMMA InvStep == Inv /\ [Next]_vars => Inv'
BY TypeStep, StackedStep, QueuedStep, RegistrationStep, WaitingStep, AtEndStep,
   AwaitingStep, KeptStep DEF Inv

(* Inv holds of every reachable state. *)
LEMMA SpecInv == Spec => []Inv
BY InvInit, InvStep, PTL DEF Spec

(* Every variable keeps its type. *)
THEOREM TypeCorrect == Spec => []TypeOK
BY SpecInv, PTL DEF Inv

(* However the threads interleave, a coroutine that waits for a Task is     *)
(* registered with it, and the frame that holds the registration lives      *)
(* until it has been woken.                                                 *)
THEOREM NobodyIsLost == Spec => []NeverLost
BY SpecInv, PTL DEF Inv

(* A Task's only awaiter gets what the coroutine has returned.              *)
THEOREM OnlyAwaiterIsServed == Spec => []SoleAwaiterGetsResult
BY SpecInv, PTL DEF Inv

(* A coroutine is in one place at most: two that hold it are the same.      *)
LEMMA OnePlace == Inv => ResumedOnce
<1> SUFFICES ASSUME Inv, NEW c \in Coros PROVE Cardinality(Places(c)) <= 1
  BY DEF ResumedOnce
<1>1. /\ OnStacks(c) # {} => pc[c] \in Active
      /\ InReady(c) # {} => pc[c] = "ready"
      /\ InOthers(c) # {} => pc[c] = "suspended"
  BY DEF Inv, Stacked, Queued, Registered, Left, OnStacks, InReady, InOthers
<1>2. \A x, y \in OnStacks(c) : x = y
  BY DEF Inv, Stacked, OnStacks
<1>3. \A x, y \in InReady(c) : x = y
  BY DEF Inv, Queued, InReady
<1>4. \A x, y \in InOthers(c) : x = y
  BY DEF Inv, Registered, Left, InOthers
<1>5. \A x, y \in Places(c) : x = y
  BY <1>1, <1>2, <1>3, <1>4 DEF Active, Places
<1>6. CASE Places(c) = {}
  BY <1>6, FS_EmptySet
<1>7. ASSUME NEW x \in Places(c) PROVE Cardinality(Places(c)) <= 1
  <2>1. Places(c) = {x} BY <1>5, <1>7
  <2> QED BY <2>1, FS_Singleton
<1> QED BY <1>6, <1>7

(* No coroutine is resumed by two threads, or while it runs.                *)
THEOREM NobodyIsResumedTwice == Spec => []ResumedOnce
BY SpecInv, OnePlace, PTL

(* The initial states are those of the event. *)
LEMMA EventInit == Init => Event!Init
BY TaskAssumption DEF Init, Event!Init, AwaitState

(* A co_await that returns. *)
LEMMA EventReturn ==
  ASSUME Inv, Yielders = {}, NEW c \in Coros, AwaitResume(c, target[c]),
         target' = [target EXCEPT ![c] = NoCoro], UNCHANGED finished,
         target[c] # NoCoro => finished[target[c]]
  PROVE  [Event!Next]_Event!vars
<1>0. TypeOK /\ Awaiting BY DEF Inv
<1>00. /\ target \in [Coros -> Coros \cup {NoCoro}] /\ NoCoro \notin Coros
       /\ \A p \in Awaits : p[1] \in Coros /\ p[2] \in Coros /\ p = <<p[1], p[2]>>
  BY <1>0, TaskAssumption DEF TypeOK
<1>1. CASE target[c] = NoCoro
  <2>1. <<c, target[c]>> \notin Awaits BY <1>00, <1>1
  <2>2. UNCHANGED <<got, target>> BY <1>00, <1>1, <2>1 DEF AwaitResume
  <2> QED BY <2>2 DEF Event!vars, AwaitState
<1>2. CASE target[c] # NoCoro
  <2> DEFINE q == <<c, target[c]>>
  <2>1. /\ q \in Awaits /\ got[q] = "none" /\ q[1] = c /\ q[2] = target[c]
        /\ target[c] \in Coros
    BY <1>0, <1>00, <1>2 DEF Awaiting
  <2>2. /\ got'[q] # "none" /\ \A p \in Awaits : p # q => got'[p] = got[p]
    BY <1>0, <2>1, AwaitResumed
  <2> HIDE DEF q
  <2>3. \A p \in Awaits : p # q => ((target'[p[1]] = p[2]) <=> (target[p[1]] = p[2]))
    BY <1>00, <2>1
  <2>4. AwaitState' = [AwaitState EXCEPT ![q] = "returned"]
    BY <2>1, <2>2, <2>3 DEF AwaitState
  <2>5. AwaitState[q] = "waiting" BY <2>1 DEF AwaitState
  <2>6. q[2] \in {t \in Coros : finished[t]} BY <1>2, <2>1
  <2>7. Event!Return(q) BY <2>4, <2>5, <2>6 DEF Event!Return
  <2> QED BY <2>1, <2>7 DEF Event!Next
<1> QED BY <1>1, <1>2

(* Unless a coroutine yields, a step of the threads is one of the event or  *)
(* none of its steps.                                                       *)
LEMMA EventStep == Yielders = {} /\ Inv /\ [Next]_vars => [Event!Next]_Event!vars
<1> SUFFICES ASSUME Yielders = {}, Inv, [Next]_vars PROVE [Event!Next]_Event!vars
  OBVIOUS
<1>0. TypeOK /\ Stacked /\ Queued /\ Registered /\ AtEnd /\ NoYield /\ Waiting /\ Awaiting
  BY DEF Inv
<1>a. UNCHANGED <<got, target, finished>> => UNCHANGED Event!vars
  BY DEF Event!vars, AwaitState
<1>1. ASSUME NEW w \in Workers, Resume(w) PROVE [Event!Next]_Event!vars
  <2>1. Head(ready) \in Coros /\ pc[Head(ready)] = "ready"
    BY <1>0, <1>1, HeadReady DEF Resume
  <2>2. /\ AwaitResume(Head(ready), target[Head(ready)]) /\ UNCHANGED finished
        /\ target' = [target EXCEPT ![Head(ready)] = NoCoro]
    BY <1>1 DEF Resume
  <2>3. target[Head(ready)] # NoCoro => finished[target[Head(ready)]]
    BY <1>0, <2>1 DEF Awaiting
  <2> QED BY <2>1, <2>2, <2>3, EventReturn
<1>2. ASSUME NEW th \in Threads, NEW c \in Coros, Advance(th, c)
      PROVE  [Event!Next]_Event!vars
  <2>1. CASE AwaitSuspend(th, c)
    <3>1. CASE /\ finished[target[c]] /\ AwaitResume(c, target[c])
               /\ target' = [target EXCEPT ![c] = NoCoro]
      BY <2>1, <3>1, EventReturn DEF AwaitSuspend
    <3>2. CASE UNCHANGED <<target, result, got>>
      BY <1>a, <2>1, <3>2 DEF AwaitSuspend
    <3> QED BY <2>1, <3>1, <3>2 DEF AwaitSuspend
  <2>2. CASE FinalLock(th, c)
    <3>1. ~ finished[c] BY <1>0, <2>2 DEF FinalLock, AtEnd
    <3>2. {t \in Coros : finished'[t]} = {t \in Coros : finished[t]} \cup {c}
      BY <1>0, <2>2 DEF FinalLock, TypeOK
    <3>3. AwaitState' = AwaitState BY <2>2 DEF FinalLock, AwaitState
    <3>4. Event!End(c) BY <3>1, <3>2, <3>3 DEF Event!End
    <3> QED BY <3>4 DEF Event!Next
  <2>3. CASE Wake(th, c)
    <3> DEFINE o == others[c][woken[c] + 1]
    <3>1. o \in Coros /\ target[o] = c
      BY <1>0, <2>3, HandleSuspended DEF Wake
    <3>2. \/ UNCHANGED <<target, result, got>>
          \/ target' = [target EXCEPT ![o] = NoCoro] /\ AwaitResume(o, c)
      BY <2>3 DEF Wake
    <3>3. UNCHANGED finished /\ finished[c]
      BY <1>0, <2>3 DEF Wake, AtEnd, NoYield
    <3> HIDE DEF o
    <3> QED BY <1>a, <3>1, <3>2, <3>3, EventReturn
  <2>4. CASE \/ AwaitScheduler(th, c) \/ CoReturn(th, c) \/ FinalUnlock(th, c)
             \/ YieldLock(th, c) \/ YieldStore(th, c)
    BY <1>a, <2>4 DEF AwaitScheduler, CoReturn, FinalUnlock, YieldLock, YieldStore
  <2> QED BY <1>2, <2>1, <2>2, <2>3, <2>4 DEF Advance
<1>3. ASSUME NEW th \in Threads, NEW c \in Coros,
             \/ Call(th, c) \/ ResumeParked(th, c) \/ Throw(th, c) \/ CoYield(th, c)
      PROVE  [Event!Next]_Event!vars
  BY <1>a, <1>3 DEF Call, ResumeParked, Throw, CoYield
<1>4. ASSUME NEW th \in Threads, NEW c \in Coros, NEW t \in Coros, Await(th, c, t)
      PROVE  [Event!Next]_Event!vars
  <2> DEFINE q == <<c, t>>
  <2>1. /\ q \in Awaits /\ got[q] = "none" /\ q[1] = c /\ q[2] = t
        /\ target[c] # t /\ target' = [target EXCEPT ![c] = t]
        /\ UNCHANGED <<got, finished>>
    BY <1>0, <1>4, TaskAssumption DEF Await, InBody, Waiting
  <2> HIDE DEF q
  <2>2. /\ target \in [Coros -> Coros \cup {NoCoro}] /\ target[c] = NoCoro
        /\ NoCoro \notin Coros
        /\ \A p \in Awaits : p[1] \in Coros /\ p[2] \in Coros /\ p = <<p[1], p[2]>>
    <3>1. c \in Coros /\ pc[c] = "run" BY <1>4 DEF Await, InBody
    <3>2. target[c] = NoCoro BY <1>0, <3>1 DEF Waiting
    <3> QED BY <1>0, <3>2, TaskAssumption DEF TypeOK
  <2>3. \A p \in Awaits : p # q => ((target'[p[1]] = p[2]) <=> (target[p[1]] = p[2]))
    BY <2>1, <2>2
  <2>4. AwaitState' = [AwaitState EXCEPT ![q] = "waiting"]
    BY <2>1, <2>2, <2>3 DEF AwaitState
  <2>5. AwaitState[q] = "to come" BY <2>1 DEF AwaitState
  <2>6. Event!Begin(q) BY <2>1, <2>4, <2>5 DEF Event!Begin
  <2> QED BY <2>1, <2>6 DEF Event!Next
<1>5. CASE UNCHANGED vars
  BY <1>a, <1>5 DEF vars
<1> QED BY <1>1, <1>2, <1>3, <1>4, <1>5 DEF Next

(* Tasks that do not yield implement the abstract event: a co_await returns *)
(* once, and not before the coroutine it awaits has ended.                  *)
THEOREM ImplementsOneShotEvent == Yielders = {} => (Spec => ImplementsEvent)
<1> SUFFICES ASSUME Yielders = {} PROVE Spec => ImplementsEvent
  OBVIOUS
<1>1. Inv /\ [Next]_vars => [Event!Next]_Event!vars
  BY EventStep
<1> QED BY <1>1, EventInit, SpecInv, PTL DEF Spec, ImplementsEvent, Event!Spec
===============================================================================
