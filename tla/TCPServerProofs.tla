---------------------------- MODULE TCPServerProofs ---------------------------
(****************************************************************************)
(* Theorems about TCPServer, for any listeners, requests and length of a    *)
(* line of the log.  Inv is the inductive invariant: it counts the workers  *)
(* of both schedulers, says what the owner's place tells of those that have *)
(* ended, and what the log's queue and the last piece written tell of the   *)
(* line being written.                                                      *)
(****************************************************************************)
EXTENDS TCPServer, FiniteSetTheorems, TLAPS

Counts ==
  /\ IsFiniteSet(busy) /\ Cardinality(busy) + ended <= PoolSize
  /\ IsFiniteSet(logBusy) /\ Cardinality(logBusy) + logEnded <= LogPoolSize

EndedBySignal ==
  /\ logEnded > 0 => signal = "both"
  /\ owner \in {"joinPool", "gone"} => logEnded = LogPoolSize
  /\ owner = "gone" => ended = PoolSize

(* logRequest is called once, by the handleRequest of a request accepted.   *)
Progress ==
  \A r \in Requests :
    /\ conn[r] = "none" => lambda[r] = "new"
    /\ lambda[r] \in {"new", "reading"} => handle[r] = "new"
    /\ handle[r] \in {"new", "parsing", "logging"} => log[r] = "new"

(* The lines that wait have not been begun and wait once. *)
LogQueue ==
  /\ \A r \in Requests : log[r] = "new" => line[r] = 0 /\ <<"log", r>> \notin logBusy
  /\ \A i \in 1..Len(logReady) :
       /\ logReady[i] \notin logBusy
       /\ \A j \in 1..Len(logReady) : logReady[i] = logReady[j] => i = j
       /\ \A r \in Requests :
            logReady[i] = <<"log", r>> => line[r] = 0 /\ log[r] # "new"

(* What the end of the log is. *)
EndsLine == logged = <<>> \/ logged[Len(logged)].piece = Pieces

EndsWith(r, p) ==
  logged # <<>> /\ logged[Len(logged)].request = r /\ logged[Len(logged)].piece = p

LastLine ==
  /\ logBusy = {} => EndsLine
  /\ \A r \in Requests : <<"log", r>> \in logBusy =>
       IF line[r] = 0 THEN EndsLine ELSE EndsWith(r, line[r])

Inv ==
  /\ TypeOK /\ Counts /\ EndedBySignal /\ LateOnlyAfterSignal
  /\ Progress /\ LogQueue /\ LastLine /\ LogLinesWhole

(* Init establishes the types. *)
LEMMA TypeInit == Init => TypeOK
<1> SUFFICES ASSUME Init PROVE TypeOK
  OBVIOUS
<1> USE ServerAssumption DEF Init
<1>1. /\ ready \in Seq(Handles) /\ logReady \in Seq(LogHandles)
      /\ logged \in Seq([request : Requests, piece : 1..Pieces,
                        from : {"none", "live", "deleted"}])
  OBVIOUS
<1>2. 0 \in 0..Pieces
  OBVIOUS
<1>3. /\ wait \in [Listeners -> {"new", "listening", "dead"}]
      /\ conn \in [Requests -> {"none", "open", "hung", "closed"}]
      /\ by \in [Requests -> Listeners \cup {Nobody}]
      /\ lambda \in [Requests -> {"new", "reading", "awaiting", "writing", "done"}]
      /\ handle \in [Requests ->
                        {"new", "parsing", "logging", "deleting", "ending", "done"}]
      /\ object \in [Requests -> {"none", "live", "deleted"}]
      /\ log \in [Requests -> {"new", "writing", "late", "done"}]
  OBVIOUS
<1>4. line \in [Requests -> 0..Pieces]
  BY <1>2
<1> QED BY <1>1, <1>3, <1>4 DEF TypeOK

(* Every step keeps the types. *)
LEMMA TypeStep == TypeOK /\ [Next]_vars => TypeOK'
<1> SUFFICES ASSUME TypeOK, [Next]_vars PROVE TypeOK'
  OBVIOUS
<1> USE ServerAssumption DEF TypeOK, ownerVars, poolVars, logPoolVars, netVars,
      requestVars, logVars
<1>1. CASE OwnerStep
  <2>1. CASE Construct BY <2>1 DEF Construct
  <2>2. CASE Leave BY <2>2 DEF Leave
  <2>3. CASE JoinLog BY <2>3 DEF JoinLog
  <2>4. CASE JoinPool BY <2>4 DEF JoinPool
  <2>5. ASSUME NEW l \in Listeners, serverStart(l) PROVE TypeOK'
    <3>1. <<"wait", l>> \in Handles BY DEF Handles
    <3>2. ready' \in Seq(Handles) BY <2>5, <3>1 DEF serverStart
    <3> QED BY <2>5, <3>2 DEF serverStart
  <2> QED BY <1>1, <2>1, <2>2, <2>3, <2>4, <2>5 DEF OwnerStep
<1>2. CASE SchedulerStep \/ Signal
  <2>1. CASE Take
    <3>1. Head(ready) \in Handles /\ Tail(ready) \in Seq(Handles) BY <2>1 DEF Take
    <3> QED BY <2>1, <3>1 DEF Take
  <2>2. CASE TakeLog
    <3>1. Head(logReady) \in LogHandles /\ Tail(logReady) \in Seq(LogHandles)
      BY <2>2 DEF TakeLog
    <3> QED BY <2>2, <3>1 DEF TakeLog
  <2>3. CASE WorkerEnds BY <2>3 DEF WorkerEnds
  <2>4. CASE LogWorkerEnds BY <2>4 DEF LogWorkerEnds
  <2>5. CASE SignalLog BY <2>5 DEF SignalLog
  <2>6. CASE Signal BY <2>6 DEF Signal
  <2> QED BY <1>2, <2>1, <2>2, <2>3, <2>4, <2>5, <2>6 DEF SchedulerStep
<1>3. ASSUME NEW l \in Listeners, ListenerStep(l) PROVE TypeOK'
  <2>1. CASE Listen(l) BY <2>1 DEF Listen
  <2>2. CASE Interrupted(l) BY <2>2 DEF Interrupted
  <2>3. ASSUME NEW r \in Requests, CloseSocket(l, r) PROVE TypeOK'
    BY <2>3 DEF CloseSocket
  <2> QED BY <1>3, <2>1, <2>2, <2>3 DEF ListenerStep
<1>4. ASSUME NEW l \in Listeners, NEW r \in Requests, Accept(l, r) PROVE TypeOK'
  <2>1. <<"lambda", r>> \in Handles BY DEF Handles
  <2>2. ready' \in Seq(Handles) BY <1>4, <2>1 DEF Accept
  <2> QED BY <1>4, <2>2 DEF Accept
<1>5. ASSUME NEW r \in Requests, HangUp(r) \/ LambdaStep(r) PROVE TypeOK'
  <2>1. CASE HangUp(r) BY <2>1 DEF HangUp
  <2>2. CASE Read(r)
    <3>1. <<"handle", r>> \in Handles BY DEF Handles
    <3>2. ready' \in Seq(Handles) BY <2>2, <3>1 DEF Read
    <3> QED BY <2>2, <3>2 DEF Read
  <2>3. CASE Await(r) BY <2>3 DEF Await
  <2>4. CASE Write(r) BY <2>4 DEF Write
  <2> QED BY <1>5, <2>1, <2>2, <2>3, <2>4 DEF LambdaStep
<1>6. ASSUME NEW r \in Requests, HandleStep(r) PROVE TypeOK'
  <2>1. CASE Parse(r) BY <2>1 DEF Parse
  <2>2. CASE CallLog(r)
    <3>1. <<"log", r>> \in LogHandles BY DEF LogHandles
    <3>2. logReady' = logReady \/ logReady' = Append(logReady, <<"log", r>>)
      BY <2>2 DEF CallLog
    <3>3. /\ handle' \in [Requests ->
                         {"new", "parsing", "logging", "deleting", "ending", "done"}]
          /\ log' \in [Requests -> {"new", "writing", "late", "done"}]
      BY <2>2 DEF CallLog
    <3>4. logReady' \in Seq(LogHandles)
      <4>1. logReady \in Seq(LogHandles) OBVIOUS
      <4>2. \A h \in LogHandles : Append(logReady, h) \in Seq(LogHandles) BY <4>1
      <4> QED BY <3>1, <3>2, <4>1, <4>2
    <3>5. UNCHANGED <<ownerVars, poolVars, logBusy, logEnded, netVars, lambda, others,
                      object, line, logged>>
      BY <2>2 DEF CallLog
    <3> QED BY <3>3, <3>4, <3>5
  <2>3. CASE Delete(r) BY <2>3 DEF Delete
  <2>4. CASE Finish(r)
    <3>1. <<"lambda", r>> \in Handles BY DEF Handles
    <3>2. ready' \in Seq(Handles) BY <2>4, <3>1 DEF Finish
    <3> QED BY <2>4, <3>2 DEF Finish
  <2> QED BY <1>6, <2>1, <2>2, <2>3, <2>4 DEF HandleStep
<1>7. ASSUME NEW r \in Requests, LogStep(r) PROVE TypeOK'
  <2>1. CASE WritePiece(r)
    <3>1. line[r] + 1 \in 1..Pieces BY <2>1 DEF WritePiece
    <3>2. [request |-> r, piece |-> line[r] + 1, from |-> object[r]]
            \in [request : Requests, piece : 1..Pieces, from : {"none", "live", "deleted"}]
      BY <3>1
    <3>3. logged' \in Seq([request : Requests, piece : 1..Pieces,
                           from : {"none", "live", "deleted"}])
      BY <2>1, <3>2 DEF WritePiece
    <3> QED BY <2>1, <3>1, <3>3 DEF WritePiece
  <2>2. CASE LogEnds(r) BY <2>2 DEF LogEnds
  <2> QED BY <1>7, <2>1, <2>2 DEF LogStep
<1>8. CASE UNCHANGED vars BY <1>8 DEF vars
<1> QED BY <1>1, <1>2, <1>3, <1>4, <1>5, <1>6, <1>7, <1>8 DEF Next

-------------------------------------------------------------------------------
(* What a step may do to the parts the invariant speaks of. *)

LEMMA PoolChanges ==
  ASSUME [Next]_vars
  PROVE  \/ UNCHANGED <<busy, ended>>
         \/ Take \/ WorkerEnds
         \/ ended' = ended /\ \E h : busy' = busy \ {h}
<1> USE DEF ownerVars, poolVars, logPoolVars, netVars, requestVars, logVars
<1>1. CASE OwnerStep
  BY <1>1 DEF OwnerStep, Construct, Leave, JoinLog, JoinPool, serverStart
<1>2. CASE SchedulerStep \/ Signal
  BY <1>2 DEF SchedulerStep, Signal, TakeLog, LogWorkerEnds, SignalLog
<1>3. ASSUME NEW l \in Listeners, ListenerStep(l) \/ \E r \in Requests : Accept(l, r)
      PROVE  UNCHANGED <<busy, ended>> \/ (ended' = ended /\ \E h : busy' = busy \ {h})
  BY <1>3 DEF ListenerStep, Listen, Interrupted, CloseSocket, Accept
<1>4. ASSUME NEW r \in Requests,
             HangUp(r) \/ LambdaStep(r) \/ HandleStep(r) \/ LogStep(r)
      PROVE  UNCHANGED <<busy, ended>> \/ (ended' = ended /\ \E h : busy' = busy \ {h})
  <2>1. CASE HangUp(r) \/ LogStep(r)
    BY <2>1 DEF HangUp, LogStep, WritePiece, LogEnds
  <2>2. CASE LambdaStep(r)
    BY <2>2 DEF LambdaStep, Read, Await, Write
  <2>3. CASE HandleStep(r)
    BY <2>3 DEF HandleStep, Parse, CallLog, Delete, Finish
  <2> QED BY <1>4, <2>1, <2>2, <2>3
<1>5. CASE UNCHANGED vars BY <1>5 DEF vars
<1> QED BY <1>1, <1>2, <1>3, <1>4, <1>5 DEF Next

LEMMA LogPoolChanges ==
  ASSUME [Next]_vars
  PROVE  \/ UNCHANGED <<logBusy, logEnded>>
         \/ TakeLog \/ LogWorkerEnds \/ \E r \in Requests : LogEnds(r)
<1> USE DEF ownerVars, poolVars, logPoolVars, netVars, requestVars, logVars
<1>1. CASE OwnerStep
  BY <1>1 DEF OwnerStep, Construct, Leave, JoinLog, JoinPool, serverStart
<1>2. CASE SchedulerStep \/ Signal
  BY <1>2 DEF SchedulerStep, Signal, Take, WorkerEnds, SignalLog
<1>3. ASSUME NEW l \in Listeners, ListenerStep(l) \/ \E r \in Requests : Accept(l, r)
      PROVE  UNCHANGED <<logBusy, logEnded>>
  BY <1>3 DEF ListenerStep, Listen, Interrupted, CloseSocket, Accept
<1>4. ASSUME NEW r \in Requests,
             HangUp(r) \/ LambdaStep(r) \/ HandleStep(r) \/ WritePiece(r)
      PROVE  UNCHANGED <<logBusy, logEnded>>
  <2>1. CASE HangUp(r) \/ WritePiece(r)
    BY <2>1 DEF HangUp, WritePiece
  <2>2. CASE LambdaStep(r)
    BY <2>2 DEF LambdaStep, Read, Await, Write
  <2>3. CASE HandleStep(r)
    BY <2>3 DEF HandleStep, Parse, CallLog, Delete, Finish
  <2> QED BY <1>4, <2>1, <2>2, <2>3
<1>5. CASE UNCHANGED vars BY <1>5 DEF vars
<1> QED BY <1>1, <1>2, <1>3, <1>4, <1>5 DEF Next, LogStep

LEMMA LineChanges ==
  ASSUME [Next]_vars
  PROVE  \/ UNCHANGED <<logReady, logBusy, log, line, logged>>
         \/ TakeLog
         \/ \E r \in Requests : CallLog(r) \/ WritePiece(r) \/ LogEnds(r)
<1> USE DEF ownerVars, poolVars, logPoolVars, netVars, requestVars, logVars
<1>1. CASE OwnerStep
  BY <1>1 DEF OwnerStep, Construct, Leave, JoinLog, JoinPool, serverStart
<1>2. CASE SchedulerStep \/ Signal
  BY <1>2 DEF SchedulerStep, Signal, Take, WorkerEnds, LogWorkerEnds, SignalLog
<1>3. ASSUME NEW l \in Listeners, ListenerStep(l) \/ \E r \in Requests : Accept(l, r)
      PROVE  UNCHANGED <<logReady, logBusy, log, line, logged>>
  BY <1>3 DEF ListenerStep, Listen, Interrupted, CloseSocket, Accept
<1>4. ASSUME NEW r \in Requests,
             HangUp(r) \/ LambdaStep(r) \/ Parse(r) \/ Delete(r) \/ Finish(r)
      PROVE  UNCHANGED <<logReady, logBusy, log, line, logged>>
  BY <1>4 DEF HangUp, LambdaStep, Read, Await, Write, Parse, Delete, Finish
<1>5. CASE UNCHANGED vars BY <1>5 DEF vars
<1> QED BY <1>1, <1>2, <1>3, <1>4, <1>5 DEF Next, LogStep, HandleStep

-------------------------------------------------------------------------------
(* The parts of the invariant, one by one. *)

LEMMA OneMore ==
  ASSUME NEW S, IsFiniteSet(S), NEW x
  PROVE  /\ IsFiniteSet(S \cup {x}) /\ Cardinality(S \cup {x}) \in Nat
         /\ Cardinality(S \cup {x}) <= Cardinality(S) + 1
<1>1. Cardinality(S) \in Nat /\ IsFiniteSet(S \cup {x})
  BY FS_CardinalityType, FS_AddElement
<1>2. Cardinality(S \cup {x}) = Cardinality(S) \/ Cardinality(S \cup {x}) = Cardinality(S) + 1
  BY FS_AddElement
<1> QED BY <1>1, <1>2

LEMMA OneLess ==
  ASSUME NEW S, IsFiniteSet(S), NEW x
  PROVE  /\ IsFiniteSet(S \ {x}) /\ Cardinality(S \ {x}) \in Nat
         /\ Cardinality(S \ {x}) <= Cardinality(S)
<1>1. S \ {x} \in SUBSET S
  OBVIOUS
<1>2. IsFiniteSet(S \ {x}) /\ Cardinality(S \ {x}) <= Cardinality(S)
  BY <1>1, FS_Subset
<1> QED BY <1>2, FS_CardinalityType

LEMMA PoolSizeType == PoolSize \in Nat
BY ServerAssumption, FS_CardinalityType DEF PoolSize

(* Neither scheduler has more workers than it was given. *)
LEMMA CountsStep ==
  ASSUME TypeOK, Counts, [Next]_vars
  PROVE  Counts'
<1>1. IsFiniteSet(busy') /\ Cardinality(busy') + ended' <= PoolSize
  <2> USE PoolSizeType DEF Counts
  <2>0. ended \in Nat /\ Cardinality(busy) \in Nat
    BY FS_CardinalityType DEF TypeOK
  <2>1. CASE UNCHANGED <<busy, ended>>
    BY <2>1
  <2>2. CASE Take
    <3>1. busy' = busy \cup {Head(ready)} /\ ended' = ended
          /\ Cardinality(busy) + ended < PoolSize
      BY <2>2 DEF Take
    <3>2. IsFiniteSet(busy') /\ Cardinality(busy') <= Cardinality(busy) + 1
          /\ Cardinality(busy') \in Nat
      BY <2>0, <3>1, OneMore
    <3> QED BY <2>0, <3>1, <3>2
  <2>3. CASE WorkerEnds
    BY <2>0, <2>3 DEF WorkerEnds
  <2>4. ASSUME ended' = ended, NEW h, busy' = busy \ {h}
        PROVE  IsFiniteSet(busy') /\ Cardinality(busy') + ended' <= PoolSize
    <3>1. IsFiniteSet(busy') /\ Cardinality(busy') <= Cardinality(busy)
          /\ Cardinality(busy') \in Nat
      BY <2>0, <2>4, OneLess
    <3> QED BY <2>0, <2>4, <3>1
  <2> QED BY <2>1, <2>2, <2>3, <2>4, PoolChanges
<1>2. IsFiniteSet(logBusy') /\ Cardinality(logBusy') + logEnded' <= LogPoolSize
  <2> USE DEF Counts, LogPoolSize
  <2>0. logEnded \in Nat /\ Cardinality(logBusy) \in Nat
    BY FS_CardinalityType DEF TypeOK
  <2>1. CASE UNCHANGED <<logBusy, logEnded>>
    BY <2>1
  <2>2. CASE TakeLog
    <3>1. logBusy' = logBusy \cup {Head(logReady)} /\ logEnded' = logEnded
          /\ Cardinality(logBusy) + logEnded < LogPoolSize
      BY <2>2 DEF TakeLog
    <3>2. IsFiniteSet(logBusy') /\ Cardinality(logBusy') <= Cardinality(logBusy) + 1
          /\ Cardinality(logBusy') \in Nat
      BY <2>0, <3>1, OneMore
    <3> QED BY <2>0, <3>1, <3>2
  <2>3. CASE LogWorkerEnds
    BY <2>0, <2>3 DEF LogWorkerEnds
  <2>4. ASSUME NEW r \in Requests, LogEnds(r)
        PROVE  IsFiniteSet(logBusy') /\ Cardinality(logBusy') + logEnded' <= LogPoolSize
    <3>1. logBusy' = logBusy \ {<<"log", r>>} /\ logEnded' = logEnded
      BY <2>4 DEF LogEnds
    <3>2. IsFiniteSet(logBusy') /\ Cardinality(logBusy') <= Cardinality(logBusy)
          /\ Cardinality(logBusy') \in Nat
      BY <2>0, <3>1, OneLess
    <3> QED BY <2>0, <3>1, <3>2
  <2> QED BY <2>1, <2>2, <2>3, <2>4, LogPoolChanges
<1> QED BY <1>1, <1>2 DEF Counts, PoolSize, LogPoolSize

(* log_s_ writes at most one line at a time, and none when its worker has   *)
(* ended.                                                                   *)
LEMMA OneLine ==
  ASSUME TypeOK, Counts
  PROVE  /\ \A h \in logBusy : logBusy = {h}
         /\ Cardinality(logBusy) + logEnded < LogPoolSize => logBusy = {}
         /\ logEnded = LogPoolSize => logBusy = {}
<1>1. IsFiniteSet(logBusy) /\ Cardinality(logBusy) \in Nat /\ logEnded \in Nat
  BY FS_CardinalityType DEF Counts, TypeOK
<1>2. Cardinality(logBusy) + logEnded <= 1
  BY DEF Counts, LogPoolSize
<1>3. Cardinality(logBusy) = 0 \/ Cardinality(logBusy) = 1
  BY <1>1, <1>2
<1>4. logBusy = {} \/ \E h : logBusy = {h}
  BY <1>1, <1>3, FS_EmptySet, FS_Singleton
<1>5. Cardinality(logBusy) + logEnded < 1 => Cardinality(logBusy) = 0
  BY <1>1
<1>6. logEnded = 1 => Cardinality(logBusy) = 0
  BY <1>1, <1>2
<1> QED BY <1>1, <1>4, <1>5, <1>6, FS_EmptySet DEF LogPoolSize

(* The owner gets past a join when the workers have ended, which the log's  *)
(* worker does only when a signal has come.                                 *)
LEMMA EndedBySignalStep ==
  ASSUME TypeOK, Counts, EndedBySignal, [Next]_vars
  PROVE  EndedBySignal'
<1> USE DEF EndedBySignal, ownerVars, poolVars, logPoolVars, netVars, requestVars, logVars
<1>0. /\ logEnded \in Nat /\ ended \in Nat /\ Cardinality(logBusy) \in Nat
      /\ Cardinality(busy) \in Nat /\ PoolSize \in Nat
      /\ Cardinality(busy) + ended <= PoolSize
      /\ Cardinality(logBusy) + logEnded <= LogPoolSize
  BY FS_CardinalityType, PoolSizeType DEF TypeOK, Counts
<1>1. CASE OwnerStep
  BY <1>0, <1>1 DEF OwnerStep, Construct, Leave, JoinLog, JoinPool, serverStart,
                    LogPoolSize, PoolSize
<1>2. CASE WorkerEnds
  BY <1>0, <1>2 DEF WorkerEnds, LogPoolSize, PoolSize
<1>3. CASE LogWorkerEnds
  BY <1>0, <1>3 DEF LogWorkerEnds, LogPoolSize, PoolSize
<1>4. CASE Take \/ TakeLog \/ SignalLog \/ Signal
  BY <1>4 DEF Take, TakeLog, SignalLog, Signal, LogPoolSize, PoolSize
<1>5. ASSUME NEW l \in Listeners, ListenerStep(l) \/ \E r \in Requests : Accept(l, r)
      PROVE  EndedBySignal'
  BY <1>5 DEF ListenerStep, Listen, Interrupted, CloseSocket, Accept, LogPoolSize, PoolSize
<1>6. ASSUME NEW r \in Requests,
             HangUp(r) \/ LambdaStep(r) \/ HandleStep(r) \/ LogStep(r)
      PROVE  EndedBySignal'
  <2>1. CASE HangUp(r) \/ LambdaStep(r) \/ LogStep(r)
    BY <2>1 DEF HangUp, LambdaStep, Read, Await, Write, LogStep, WritePiece, LogEnds,
                LogPoolSize, PoolSize
  <2>2. CASE HandleStep(r)
    BY <2>2 DEF HandleStep, Parse, CallLog, Delete, Finish, LogPoolSize, PoolSize
  <2> QED BY <1>6, <2>1, <2>2
<1>7. CASE UNCHANGED vars
  BY <1>7 DEF vars, LogPoolSize, PoolSize
<1> QED BY <1>1, <1>2, <1>3, <1>4, <1>5, <1>6, <1>7 DEF Next, SchedulerStep

(* log_s_ is destroyed only when its worker has ended.                      *)
LEMMA LateStep ==
  ASSUME TypeOK, EndedBySignal, LateOnlyAfterSignal, [Next]_vars
  PROVE  LateOnlyAfterSignal'
<1>1. signal = "both" => signal' = "both"
  <2> USE DEF ownerVars, poolVars, logPoolVars, netVars, requestVars, logVars
  <2>1. CASE OwnerStep
    BY <2>1 DEF OwnerStep, Construct, Leave, JoinLog, JoinPool, serverStart
  <2>2. CASE SchedulerStep \/ Signal
    BY <2>2 DEF SchedulerStep, Take, TakeLog, WorkerEnds, LogWorkerEnds, SignalLog, Signal
  <2>3. ASSUME NEW l \in Listeners, ListenerStep(l) \/ \E r \in Requests : Accept(l, r)
        PROVE  UNCHANGED signal
    BY <2>3 DEF ListenerStep, Listen, Interrupted, CloseSocket, Accept
  <2>4. ASSUME NEW r \in Requests,
               HangUp(r) \/ LambdaStep(r) \/ HandleStep(r) \/ LogStep(r)
        PROVE  UNCHANGED signal
    BY <2>4 DEF HangUp, LambdaStep, Read, Await, Write, HandleStep, Parse, CallLog,
                Delete, Finish, LogStep, WritePiece, LogEnds
  <2>5. CASE UNCHANGED vars BY <2>5 DEF vars
  <2> QED BY <2>1, <2>2, <2>3, <2>4, <2>5 DEF Next
<1>2. CASE UNCHANGED log
  BY <1>1, <1>2 DEF LateOnlyAfterSignal
<1>3. ASSUME NEW r \in Requests, CallLog(r) PROVE LateOnlyAfterSignal'
  <2>1. log \in [Requests -> {"new", "writing", "late", "done"}] /\ logEnded \in Nat
    BY DEF TypeOK
  <2>2. owner \in {"joinPool", "gone"} => signal = "both"
    BY <2>1 DEF EndedBySignal, LogPoolSize
  <2>3. \A q \in Requests : log'[q] = "late" =>
          log[q] = "late" \/ owner \in {"joinPool", "gone"}
    BY <1>3, <2>1 DEF CallLog
  <2> QED BY <1>1, <2>2, <2>3 DEF LateOnlyAfterSignal
<1>4. ASSUME NEW r \in Requests, LogEnds(r) PROVE LateOnlyAfterSignal'
  <2>1. \A q \in Requests : log'[q] = "late" => log[q] = "late"
    BY <1>4 DEF LogEnds, TypeOK
  <2> QED BY <1>1, <2>1 DEF LateOnlyAfterSignal
<1>5. ASSUME TakeLog \/ \E r \in Requests : WritePiece(r) PROVE UNCHANGED log
  BY <1>5 DEF TakeLog, WritePiece, logVars
<1> QED BY <1>2, <1>3, <1>4, <1>5, LineChanges

(* logRequest has not been called before handleRequest comes to it. *)
LEMMA ProgressStep ==
  ASSUME TypeOK, Progress, LogQueue, [Next]_vars
  PROVE  Progress'
<1> USE DEF TypeOK, Progress, ownerVars, poolVars, logPoolVars, netVars, requestVars, logVars
<1>1. CASE OwnerStep
  BY <1>1 DEF OwnerStep, Construct, Leave, JoinLog, JoinPool, serverStart
<1>2. CASE SchedulerStep \/ Signal
  BY <1>2 DEF SchedulerStep, Take, TakeLog, WorkerEnds, LogWorkerEnds, SignalLog, Signal
<1>3. ASSUME NEW l \in Listeners, ListenerStep(l) PROVE Progress'
  BY <1>3 DEF ListenerStep, Listen, Interrupted, CloseSocket
<1>4. ASSUME NEW l \in Listeners, NEW r \in Requests, Accept(l, r) PROVE Progress'
  BY <1>4 DEF Accept
<1>5. ASSUME NEW r \in Requests, HangUp(r) \/ LambdaStep(r) PROVE Progress'
  <2>1. CASE HangUp(r) BY <2>1 DEF HangUp
  <2>2. CASE Read(r) BY <2>2 DEF Read
  <2>3. CASE Await(r) BY <2>3 DEF Await
  <2>4. CASE Write(r) BY <2>4 DEF Write
  <2> QED BY <1>5, <2>1, <2>2, <2>3, <2>4 DEF LambdaStep
<1>6. ASSUME NEW r \in Requests, HandleStep(r) PROVE Progress'
  <2>1. CASE Parse(r) BY <2>1 DEF Parse
  <2>2. CASE CallLog(r) BY <2>2 DEF CallLog
  <2>3. CASE Delete(r) BY <2>3 DEF Delete
  <2>4. CASE Finish(r) BY <2>4 DEF Finish
  <2> QED BY <1>6, <2>1, <2>2, <2>3, <2>4 DEF HandleStep
<1>7. ASSUME NEW r \in Requests, LogStep(r) PROVE Progress'
  <2>1. CASE WritePiece(r) BY <2>1 DEF WritePiece
  <2>2. CASE LogEnds(r) BY <2>2 DEF LogEnds, LogQueue
  <2> QED BY <1>7, <2>1, <2>2 DEF LogStep
<1>8. CASE UNCHANGED vars BY <1>8 DEF vars
<1> QED BY <1>1, <1>2, <1>3, <1>4, <1>5, <1>6, <1>7, <1>8 DEF Next

(* What Tail and Append do to the elements of a sequence. *)
LEMMA TailElements ==
  ASSUME NEW S, NEW s \in Seq(S), s # <<>>
  PROVE  /\ Len(s) \in Nat /\ 1 \in 1..Len(s) /\ Head(s) = s[1]
         /\ Len(Tail(s)) = Len(s) - 1
         /\ \A i \in 1..Len(Tail(s)) : i + 1 \in 1..Len(s) /\ Tail(s)[i] = s[i + 1]
<1>1. Len(s) \in Nat /\ Len(s) > 0 /\ Head(s) = s[1] /\ Len(Tail(s)) = Len(s) - 1
  OBVIOUS
<1>2. \A i \in 1..Len(Tail(s)) : Tail(s)[i] = s[i + 1]
  BY <1>1
<1> QED BY <1>1, <1>2

LEMMA LogQueueStep ==
  ASSUME TypeOK, Counts, Progress, LogQueue, [Next]_vars
  PROVE  LogQueue'
<1>0. logReady \in Seq(LogHandles) /\ Len(logReady) \in Nat
      /\ log \in [Requests -> {"new", "writing", "late", "done"}]
      /\ line \in [Requests -> 0..Pieces]
  BY DEF TypeOK
<1>1. CASE UNCHANGED <<logReady, logBusy, log, line, logged>>
  BY <1>1 DEF LogQueue
<1>2. CASE TakeLog
  <2>1. /\ logReady # <<>> /\ logReady' = Tail(logReady)
        /\ logBusy' = logBusy \cup {Head(logReady)} /\ UNCHANGED <<log, line>>
    BY <1>2 DEF TakeLog, logVars
  <2>2. /\ 1 \in 1..Len(logReady) /\ Head(logReady) = logReady[1]
        /\ \A i \in 1..Len(logReady') :
             i + 1 \in 1..Len(logReady) /\ logReady'[i] = logReady[i + 1] /\ i + 1 # 1
    BY <1>0, <2>1, TailElements
  <2>3. \A i \in 1..Len(logReady') : logReady'[i] \notin logBusy'
    BY <2>1, <2>2 DEF LogQueue
  <2>4. \A i, j \in 1..Len(logReady') : logReady'[i] = logReady'[j] => i + 1 = j + 1
    BY <2>2 DEF LogQueue
  <2>5. \A i, j \in 1..Len(logReady') : logReady'[i] = logReady'[j] => i = j
    BY <2>4
  <2>6. \A i \in 1..Len(logReady') : \A r \in Requests :
          logReady'[i] = <<"log", r>> => line'[r] = 0 /\ log'[r] # "new"
    BY <2>1, <2>2 DEF LogQueue
  <2>7. \A r \in Requests : log'[r] = "new" => line'[r] = 0 /\ <<"log", r>> \notin logBusy'
    BY <2>1, <2>2 DEF LogQueue
  <2> QED BY <2>3, <2>5, <2>6, <2>7 DEF LogQueue
<1>3. ASSUME NEW r \in Requests, CallLog(r) PROVE LogQueue'
  <2>1. log[r] = "new" /\ UNCHANGED <<logBusy, line>>
    BY <1>3 DEF CallLog, Progress
  <2>2. CASE UNCHANGED logReady /\ log' = [log EXCEPT ![r] = "late"]
    BY <1>0, <2>1, <2>2 DEF LogQueue
  <2>3. CASE logReady' = Append(logReady, <<"log", r>>) /\ log' = [log EXCEPT ![r] = "writing"]
    <3>1. /\ Len(logReady') = Len(logReady) + 1
          /\ \A i \in 1..Len(logReady) : logReady'[i] = logReady[i]
          /\ logReady'[Len(logReady) + 1] = <<"log", r>>
      BY <1>0, <2>3
    <3>2. \A i \in 1..Len(logReady') : i \in 1..Len(logReady) \/ i = Len(logReady) + 1
      BY <1>0, <3>1
    <3>3. \A i \in 1..Len(logReady) : logReady[i] # <<"log", r>>
      BY <2>1 DEF LogQueue
    <3>4. line[r] = 0 /\ <<"log", r>> \notin logBusy
      BY <2>1 DEF LogQueue
    <3>5. \A q \in Requests : log'[q] = IF q = r THEN "writing" ELSE log[q]
      BY <1>0, <2>3
    <3>6. \A i \in 1..Len(logReady') : logReady'[i] \notin logBusy'
      BY <2>1, <3>1, <3>2, <3>4 DEF LogQueue
    <3>7. \A i, j \in 1..Len(logReady') : logReady'[i] = logReady'[j] => i = j
      BY <3>1, <3>2, <3>3 DEF LogQueue
    <3>8. \A i \in 1..Len(logReady') : \A q \in Requests :
            logReady'[i] = <<"log", q>> => line'[q] = 0 /\ log'[q] # "new"
      BY <2>1, <3>1, <3>2, <3>4, <3>5 DEF LogQueue
    <3>9. \A q \in Requests : log'[q] = "new" => line'[q] = 0 /\ <<"log", q>> \notin logBusy'
      BY <2>1, <3>5 DEF LogQueue
    <3> QED BY <3>6, <3>7, <3>8, <3>9 DEF LogQueue
  <2> QED BY <1>3, <2>2, <2>3 DEF CallLog
<1>4. ASSUME NEW r \in Requests, WritePiece(r) PROVE LogQueue'
  <2>1. <<"log", r>> \in logBusy /\ UNCHANGED <<logReady, logBusy, log>>
        /\ \A q \in Requests : q # r => line'[q] = line[q]
    BY <1>0, <1>4 DEF WritePiece, logPoolVars
  <2> QED BY <2>1 DEF LogQueue
<1>5. ASSUME NEW r \in Requests, LogEnds(r) PROVE LogQueue'
  <2>1. /\ UNCHANGED <<logReady, line>> /\ logBusy' \subseteq logBusy
        /\ \A q \in Requests : log'[q] = "new" <=> q # r /\ log[q] = "new"
        /\ <<"log", r>> \in logBusy
    BY <1>0, <1>5 DEF LogEnds
  <2> QED BY <2>1 DEF LogQueue
<1> QED BY <1>1, <1>2, <1>3, <1>4, <1>5, LineChanges

(* A piece continues the line its coroutine has begun, or begins one where  *)
(* another ends.                                                            *)
LEMMA PieceStep ==
  ASSUME TypeOK, Counts, LogQueue, LastLine, LogLinesWhole,
         NEW r \in Requests, WritePiece(r)
  PROVE  LastLine' /\ LogLinesWhole'
<1> DEFINE n == Len(logged)
           Record == [request : Requests, piece : 1..Pieces, from : {"none", "live", "deleted"}]
<1>1. /\ logged \in Seq(Record) /\ n \in Nat
      /\ line \in [Requests -> 0..Pieces] /\ Pieces \in Nat \ {0}
  BY ServerAssumption DEF TypeOK
<1>2. PICK w : /\ w.request = r /\ w.piece = line[r] + 1
               /\ logged' = Append(logged, w)
  BY <1>1 DEF WritePiece
<1>3. /\ Len(logged') = n + 1 /\ logged'[n + 1] = w /\ logged' # <<>>
      /\ \A i \in 1..n : logged'[i] = logged[i]
  BY <1>1, <1>2
<1>4. /\ UNCHANGED logBusy /\ logBusy = {<<"log", r>>}
      /\ line'[r] = line[r] + 1 /\ line'[r] # 0
  <2>1. UNCHANGED logBusy /\ <<"log", r>> \in logBusy /\ line'[r] = line[r] + 1
    BY <1>1 DEF WritePiece, logPoolVars
  <2>2. line[r] \in Nat
    BY <1>1
  <2>3. logBusy = {<<"log", r>>}
    BY <2>1, OneLine
  <2> QED BY <2>1, <2>2, <2>3
<1>5. LastLine'
  <2>1. EndsWith(r, line[r])'
    BY <1>2, <1>3, <1>4 DEF EndsWith
  <2>2. \A q \in Requests : <<"log", q>> \in logBusy' => q = r
    BY <1>4
  <2> QED BY <1>4, <2>1, <2>2 DEF LastLine
<1>6. LogLinesWhole'
  <2>1. line[r] = 0 => EndsLine
    BY <1>4 DEF LastLine
  <2>2. line[r] # 0 => EndsWith(r, line[r])
    BY <1>4 DEF LastLine
  <2>3. logged = <<>> <=> n = 0
    BY <1>1
  <2>4. DOMAIN logged' = 1..(n + 1) /\ DOMAIN logged = 1..n
    BY <1>1, <1>2
  <2>5. ASSUME NEW i \in DOMAIN logged'
        PROVE  IF logged'[i].piece = 1
                 THEN i > 1 => logged'[i - 1].piece = Pieces
                 ELSE /\ i > 1
                      /\ logged'[i - 1].request = logged'[i].request
                      /\ logged'[i - 1].piece = logged'[i].piece - 1
    <3>1. CASE i \in 1..n
      <4>1. /\ logged'[i] = logged[i] /\ i \in DOMAIN logged
            /\ i > 1 => logged'[i - 1] = logged[i - 1]
        BY <1>1, <1>3, <2>4, <3>1
      <4> QED BY <4>1 DEF LogLinesWhole
    <3>2. CASE i = n + 1
      <4>1. logged'[i] = w /\ (n > 0 => logged'[i - 1] = logged[n])
        BY <1>1, <1>3, <3>2
      <4>2. CASE line[r] = 0
        BY <1>1, <1>2, <2>1, <2>3, <3>2, <4>1, <4>2 DEF EndsLine
      <4>3. CASE line[r] # 0
        <5>1. w.piece # 1 /\ w.piece - 1 = line[r]
          BY <1>1, <1>2, <4>3
        <5>2. n > 0 /\ logged[n].request = r /\ logged[n].piece = line[r]
          BY <1>1, <2>2, <2>3, <4>3 DEF EndsWith
        <5> QED BY <1>1, <1>2, <3>2, <4>1, <5>1, <5>2
      <4> QED BY <4>2, <4>3
    <3> QED BY <1>1, <2>4, <2>5, <3>1, <3>2
  <2> QED BY <2>5 DEF LogLinesWhole
<1> QED BY <1>5, <1>6

LEMMA LinesStep ==
  ASSUME TypeOK, Counts, Progress, LogQueue, LastLine, LogLinesWhole, [Next]_vars
  PROVE  LastLine' /\ LogLinesWhole'
<1> USE DEF LastLine, EndsLine, EndsWith
<1>1. CASE UNCHANGED <<logReady, logBusy, log, line, logged>>
  BY <1>1 DEF LogLinesWhole
<1>2. CASE TakeLog
  <2>1. /\ logReady # <<>> /\ logBusy = {} /\ logBusy' = {Head(logReady)}
        /\ UNCHANGED <<line, logged>>
    BY <1>2, OneLine DEF TakeLog, logVars
  <2>2. \A r \in Requests : Head(logReady) = <<"log", r>> => line[r] = 0
    <3>1. logReady \in Seq(LogHandles)
      BY DEF TypeOK
    <3>2. 1 \in 1..Len(logReady) /\ Head(logReady) = logReady[1]
      BY <2>1, <3>1, TailElements
    <3> QED BY <3>2 DEF LogQueue
  <2>3. EndsLine'
    BY <2>1
  <2>4. \A r \in Requests : <<"log", r>> \in logBusy' => line'[r] = 0
    BY <2>1, <2>2
  <2>5. LogLinesWhole'
    BY <2>1 DEF LogLinesWhole
  <2> QED BY <2>3, <2>4, <2>5
<1>3. ASSUME NEW r \in Requests, CallLog(r) PROVE LastLine' /\ LogLinesWhole'
  <2>1. UNCHANGED <<logBusy, line, logged>>
    BY <1>3 DEF CallLog
  <2> QED BY <2>1 DEF LogLinesWhole
<1>4. ASSUME NEW r \in Requests, WritePiece(r) PROVE LastLine' /\ LogLinesWhole'
  BY <1>4, PieceStep
<1>5. ASSUME NEW r \in Requests, LogEnds(r) PROVE LastLine' /\ LogLinesWhole'
  <2>1. /\ UNCHANGED <<line, logged>> /\ line[r] = Pieces /\ <<"log", r>> \in logBusy
        /\ logBusy' = logBusy \ {<<"log", r>>}
    BY <1>5 DEF LogEnds
  <2>2. logBusy' = {} /\ line[r] # 0
    BY <2>1, OneLine, ServerAssumption
  <2>3. EndsLine'
    BY <2>1, <2>2
  <2> QED BY <2>1, <2>2, <2>3 DEF LogLinesWhole
<1> QED BY <1>1, <1>2, <1>3, <1>4, <1>5, LineChanges

-------------------------------------------------------------------------------

LEMMA InvInit == Init => Inv
<1> SUFFICES ASSUME Init PROVE Inv
  OBVIOUS
<1>1. TypeOK
  BY TypeInit
<1>2. Counts
  <2>1. Cardinality({}) + 0 <= PoolSize /\ IsFiniteSet({})
    BY FS_EmptySet, PoolSizeType
  <2>2. Cardinality({}) + 0 <= LogPoolSize
    BY FS_EmptySet DEF LogPoolSize
  <2> QED BY <2>1, <2>2 DEF Init, Counts, PoolSize, LogPoolSize
<1>3. EndedBySignal /\ LateOnlyAfterSignal /\ Progress
  BY DEF Init, EndedBySignal, LateOnlyAfterSignal, Progress
<1>4. LogQueue /\ LastLine
  BY DEF Init, LogQueue, LastLine, EndsLine
<1>5. LogLinesWhole
  BY DEF Init, LogLinesWhole
<1> QED BY <1>1, <1>2, <1>3, <1>4, <1>5 DEF Inv

LEMMA InvStep == Inv /\ [Next]_vars => Inv'
BY TypeStep, CountsStep, EndedBySignalStep, LateStep, ProgressStep, LogQueueStep,
   LinesStep DEF Inv

LEMMA Invariance == Spec => []Inv
BY InvInit, InvStep, PTL DEF Spec

(* TypeOK of the run server_safety, for every value of the constants. *)
THEOREM TypeCorrect == Spec => []TypeOK
BY TypeInit, TypeStep, PTL DEF Spec

(* However the workers of s_ and of log_s_ interleave, no line of the log   *)
(* is begun before the one before it has been written to its end.           *)
THEOREM LogLinesAreWhole == Spec => []LogLinesWhole
<1>1. Inv => LogLinesWhole
  BY DEF Inv
<1> QED BY <1>1, Invariance, PTL

(* Unless a signal stops both schedulers, logRequest finds log_s_ alive.    *)
THEOREM LogOutlivesItsCallers == Spec => []LateOnlyAfterSignal
<1>1. Inv => LateOnlyAfterSignal
  BY DEF Inv
<1> QED BY <1>1, Invariance, PTL

(* Whether the constructor has failed or the server has run, its members    *)
(* are destroyed only after a signal, with no coroutine on any worker.      *)
THEOREM MembersAreSafe == Spec => []MembersOutliveWorkers
<1>1. Inv => MembersOutliveWorkers
  <2> SUFFICES ASSUME Inv, owner = "gone"
               PROVE  busy = {} /\ logBusy = {} /\ signal = "both"
    BY DEF MembersOutliveWorkers
  <2>1. TypeOK /\ Counts /\ EndedBySignal
    BY DEF Inv
  <2>2. logEnded = LogPoolSize /\ ended = PoolSize
    BY <2>1 DEF EndedBySignal, LogPoolSize, PoolSize
  <2>3. logBusy = {} /\ signal = "both"
    BY <2>1, <2>2, OneLine DEF EndedBySignal, LogPoolSize
  <2>4. IsFiniteSet(busy) /\ Cardinality(busy) \in Nat /\ ended \in Nat
    BY <2>1, FS_CardinalityType DEF Counts, TypeOK
  <2>5. Cardinality(busy) = 0
    BY <2>1, <2>2, <2>4, PoolSizeType DEF Counts
  <2> QED BY <2>3, <2>4, <2>5, FS_EmptySet
<1> QED BY <1>1, Invariance, PTL
-------------------------------------------------------------------------------
(* The coroutines of the pool *)

InReady(h) == \E i \in 1..Len(ready) : ready[i] = h

(* No handle is twice in the queue, or in it and resumed. *)
Once ==
  /\ \A i, j \in 1..Len(ready) : ready[i] = ready[j] => i = j
  /\ \A h \in busy : ~ InReady(h)

(* The places of a coroutine of each kind. *)
WaitPlaces ==
  \A l \in Listeners \ started : <<"wait", l>> \notin busy /\ ~ InReady(<<"wait", l>>)

LambdaPlaces ==
  \A r \in Requests :
    LET h == <<"lambda", r>>
    IN  /\ lambda[r] \in {"new", "done"} =>
             h \notin busy /\ ~ InReady(h) /\ r \notin others
        /\ lambda[r] \notin {"new", "done"} => h \in busy \/ InReady(h) \/ r \in others
        /\ r \in others => h \notin busy /\ ~ InReady(h) /\ handle[r] # "done"

HandlePlaces ==
  \A r \in Requests :
    LET h == <<"handle", r>>
    IN  IF handle[r] \in {"new", "done"}
          THEN h \notin busy /\ ~ InReady(h)
          ELSE h \in busy \/ InReady(h)

Placed == Once /\ WaitPlaces /\ LambdaPlaces /\ HandlePlaces

(* What a handle at the end of the queue changes. *)
LEMMA Queue ==
  ASSUME TypeOK, Once, NEW h \in Handles, ready' = Append(ready, h), ~ InReady(h),
         h \notin busy \/ busy' = busy \ {h}, busy' \subseteq busy
  PROVE  Once' /\ \A g : InReady(g)' <=> InReady(g) \/ g = h
<1>1. /\ ready \in Seq(Handles) /\ Len(ready) \in Nat /\ Len(ready') = Len(ready) + 1
      /\ ready'[Len(ready) + 1] = h
      /\ \A i \in 1..Len(ready) : ready'[i] = ready[i]
  BY DEF TypeOK
<1>2. \A g : InReady(g)' <=> InReady(g) \/ g = h
  BY <1>1 DEF InReady
<1>3. \A i, j \in 1..Len(ready') : ready'[i] = ready'[j] => i = j
  BY <1>1 DEF Once, InReady
<1>4. \A g \in busy' : ~ InReady(g)'
  BY <1>2 DEF Once
<1> QED BY <1>2, <1>3, <1>4 DEF Once

(* What a worker that takes a handle changes. *)
LEMMA Dequeue ==
  ASSUME TypeOK, Once, Take
  PROVE  /\ Once' /\ Head(ready) \in Handles /\ InReady(Head(ready))
         /\ busy' = busy \cup {Head(ready)}
         /\ \A g : InReady(g)' <=> InReady(g) /\ g # Head(ready)
<1>1. /\ ready \in Seq(Handles) /\ Len(ready) \in Nat \ {0}
      /\ Len(ready') = Len(ready) - 1 /\ Head(ready) = ready[1]
      /\ \A i \in 1..Len(ready') : ready'[i] = ready[i + 1]
      /\ busy' = busy \cup {ready[1]} /\ ready[1] \in Handles
  BY DEF TypeOK, Take
<1>2. \A g : InReady(g)' <=> InReady(g) /\ g # ready[1]
  <2> SUFFICES ASSUME NEW g PROVE InReady(g)' <=> InReady(g) /\ g # ready[1]
    OBVIOUS
  <2>1. ASSUME InReady(g)' PROVE InReady(g) /\ g # ready[1]
    <3>1. PICK i \in 1..Len(ready') : ready'[i] = g BY <2>1 DEF InReady
    <3>2. i + 1 \in 1..Len(ready) /\ ready[i + 1] = g /\ i + 1 # 1 BY <1>1, <3>1
    <3> QED BY <1>1, <3>2 DEF InReady, Once
  <2>2. ASSUME InReady(g), g # ready[1] PROVE InReady(g)'
    <3>1. PICK i \in 1..Len(ready) : ready[i] = g BY <2>2 DEF InReady
    <3>2. i - 1 \in 1..Len(ready') /\ (i - 1) + 1 = i BY <1>1, <2>2, <3>1
    <3>3. ready'[i - 1] = g BY <1>1, <3>1, <3>2
    <3> QED BY <3>2, <3>3 DEF InReady
  <2> QED BY <2>1, <2>2
<1>3. \A i, j \in 1..Len(ready') : ready'[i] = ready'[j] => i = j
  <2> SUFFICES ASSUME NEW i \in 1..Len(ready'), NEW j \in 1..Len(ready'),
                      ready'[i] = ready'[j]
               PROVE  i = j
    OBVIOUS
  <2>1. i + 1 \in 1..Len(ready) /\ j + 1 \in 1..Len(ready) BY <1>1
  <2>2. ready[i + 1] = ready[j + 1] BY <1>1
  <2>3. i + 1 = j + 1 BY <2>1, <2>2 DEF Once
  <2> QED BY <1>1, <2>3
<1>4. \A g \in busy' : ~ InReady(g)'
  BY <1>1, <1>2 DEF Once
<1>5. InReady(ready[1]) BY <1>1 DEF InReady
<1> QED BY <1>1, <1>2, <1>3, <1>4, <1>5 DEF Once

(* Handles of different kinds differ. *)
LEMMA Kinds ==
  /\ \A l \in Listeners :
       /\ <<"wait", l>> \in Handles
       /\ \A m \in Listeners : <<"wait", l>> = <<"wait", m>> => l = m
       /\ \A r \in Requests : <<"wait", l>> # <<"lambda", r>> /\ <<"wait", l>> # <<"handle", r>>
  /\ \A r \in Requests :
       /\ <<"lambda", r>> \in Handles /\ <<"handle", r>> \in Handles
       /\ \A s \in Requests :
            /\ <<"lambda", r>> # <<"handle", s>>
            /\ <<"lambda", r>> = <<"lambda", s>> => r = s
            /\ <<"handle", r>> = <<"handle", s>> => r = s
BY DEF Handles

(* Every step leaves each coroutine of the pool in one place.               *)
LEMMA PlacedStep == TypeOK /\ Progress /\ Placed /\ [Next]_vars => Placed'
<1> SUFFICES ASSUME TypeOK, Progress, Placed, [Next]_vars PROVE Placed'
  OBVIOUS
<1>0. Once /\ WaitPlaces /\ LambdaPlaces /\ HandlePlaces
  BY DEF Placed
<1> USE DEF ownerVars, poolVars, logPoolVars, netVars, requestVars, logVars
<1>a. ASSUME UNCHANGED <<ready, busy, lambda, handle, others>>, started \subseteq started'
      PROVE  Placed'
  BY <1>0, <1>a DEF Placed, Once, InReady, WaitPlaces, LambdaPlaces, HandlePlaces
<1>b. ASSUME UNCHANGED ready, busy' \subseteq busy
      PROVE  Once' /\ \A g : InReady(g)' <=> InReady(g)
  BY <1>0, <1>b DEF Once, InReady
<1>1. CASE OwnerStep
  <2>1. CASE Construct \/ Leave \/ JoinLog \/ JoinPool
    BY <1>a, <2>1 DEF Construct, Leave, JoinLog, JoinPool
  <2>2. ASSUME NEW l \in Listeners, serverStart(l) PROVE Placed'
    <3>1. ~ InReady(<<"wait", l>>) /\ <<"wait", l>> \notin busy
      BY <1>0, <2>2 DEF serverStart, WaitPlaces
    <3>2. Once' /\ \A g : InReady(g)' <=> InReady(g) \/ g = <<"wait", l>>
      BY <1>0, <2>2, <3>1, Kinds, Queue DEF serverStart, Handles
    <3>3. WaitPlaces'
      BY <1>0, <2>2, <3>2, Kinds DEF serverStart, WaitPlaces
    <3>4. LambdaPlaces' /\ HandlePlaces'
      BY <1>0, <2>2, <3>2, Kinds DEF serverStart, LambdaPlaces, HandlePlaces
    <3> QED BY <3>2, <3>3, <3>4 DEF Placed
  <2> QED BY <1>1, <2>1, <2>2 DEF OwnerStep
<1>2. CASE SchedulerStep \/ Signal
  <2>1. CASE Take
    <3>1. /\ Once' /\ InReady(Head(ready)) /\ busy' = busy \cup {Head(ready)}
          /\ \A g : InReady(g)' <=> InReady(g) /\ g # Head(ready)
      BY <1>0, <2>1, Dequeue
    <3>2. \A g : InReady(g)' \/ g \in busy' <=> InReady(g) \/ g \in busy
      BY <3>1
    <3>3. UNCHANGED <<started, lambda, handle, others>>
      BY <2>1 DEF Take
    <3>4. WaitPlaces' /\ LambdaPlaces' /\ HandlePlaces'
      BY <1>0, <3>2, <3>3 DEF WaitPlaces, LambdaPlaces, HandlePlaces
    <3> QED BY <3>1, <3>4 DEF Placed
  <2>2. CASE TakeLog \/ WorkerEnds \/ LogWorkerEnds \/ SignalLog \/ Signal
    BY <1>a, <2>2 DEF TakeLog, WorkerEnds, LogWorkerEnds, SignalLog, Signal
  <2> QED BY <1>2, <2>1, <2>2 DEF SchedulerStep
<1>3. ASSUME NEW l \in Listeners, ListenerStep(l) PROVE Placed'
  <2>1. CASE Listen(l) \/ \E r \in Requests : CloseSocket(l, r)
    BY <1>a, <2>1 DEF Listen, CloseSocket
  <2>2. CASE Interrupted(l)
    <3>1. Once' /\ \A g : InReady(g)' <=> InReady(g)
      BY <1>b, <2>2 DEF Interrupted
    <3>2. WaitPlaces' /\ LambdaPlaces' /\ HandlePlaces'
      BY <1>0, <2>2, <3>1, Kinds
         DEF Interrupted, WaitPlaces, LambdaPlaces, HandlePlaces
    <3> QED BY <3>1, <3>2 DEF Placed
  <2> QED BY <1>3, <2>1, <2>2 DEF ListenerStep
<1>4. ASSUME NEW l \in Listeners, NEW r \in Requests, Accept(l, r) PROVE Placed'
  <2>1. lambda[r] = "new" /\ lambda' = [lambda EXCEPT ![r] = "reading"]
        /\ lambda \in [Requests -> {"new", "reading", "awaiting", "writing", "done"}]
        /\ UNCHANGED <<busy, started, handle, others>>
    BY <1>4 DEF Accept, Progress, TypeOK
  <2>2. ~ InReady(<<"lambda", r>>) /\ <<"lambda", r>> \notin busy
    BY <1>0, <2>1 DEF LambdaPlaces
  <2>3. Once' /\ \A g : InReady(g)' <=> InReady(g) \/ g = <<"lambda", r>>
    BY <1>0, <1>4, <2>2, Kinds, Queue DEF Accept
  <2>4. WaitPlaces' /\ LambdaPlaces' /\ HandlePlaces'
    BY <1>0, <2>1, <2>3, Kinds DEF WaitPlaces, LambdaPlaces, HandlePlaces
  <2> QED BY <2>3, <2>4 DEF Placed
<1>5. ASSUME NEW r \in Requests, HangUp(r) \/ LogStep(r) PROVE Placed'
  BY <1>a, <1>5 DEF HangUp, LogStep, WritePiece, LogEnds
<1>6. ASSUME NEW r \in Requests, LambdaStep(r) PROVE Placed'
  <2>0. lambda \in [Requests -> {"new", "reading", "awaiting", "writing", "done"}]
        /\ handle \in [Requests ->
                         {"new", "parsing", "logging", "deleting", "ending", "done"}]
        /\ <<"lambda", r>> \in busy
    BY <1>6 DEF LambdaStep, Read, Await, Write, TypeOK
  <2>1. CASE Read(r)
    <3>1. handle[r] = "new" /\ lambda[r] = "reading"
      BY <2>1 DEF Read, Progress
    <3>2. ~ InReady(<<"handle", r>>) /\ <<"handle", r>> \notin busy
      BY <1>0, <3>1 DEF HandlePlaces
    <3>3. Once' /\ \A g : InReady(g)' <=> InReady(g) \/ g = <<"handle", r>>
      BY <1>0, <2>1, <3>2, Kinds, Queue DEF Read
    <3>4. WaitPlaces'
      BY <1>0, <2>1, <3>3, Kinds DEF Read, WaitPlaces
    <3>5. LambdaPlaces'
      BY <1>0, <2>0, <2>1, <3>1, <3>3, Kinds DEF Read, LambdaPlaces
    <3>6. HandlePlaces'
      BY <1>0, <2>0, <2>1, <3>3, Kinds DEF Read, HandlePlaces
    <3> QED BY <3>3, <3>4, <3>5, <3>6 DEF Placed
  <2>2. CASE Await(r) \/ Write(r)
    <3>1. busy' \in {busy, busy \ {<<"lambda", r>>}}
          /\ UNCHANGED <<ready, started, handle>>
      BY <2>2 DEF Await, Write
    <3>2. Once' /\ \A g : InReady(g)' <=> InReady(g)
      BY <1>b, <3>1
    <3>3. WaitPlaces' /\ HandlePlaces'
      BY <1>0, <3>1, <3>2, Kinds DEF WaitPlaces, HandlePlaces
    <3>4. ~ InReady(<<"lambda", r>>) /\ r \notin others
      BY <1>0, <2>0 DEF Once, LambdaPlaces
    <3>5. CASE Await(r)
      BY <1>0, <2>0, <3>2, <3>3, <3>4, <3>5, Kinds DEF Await, LambdaPlaces, Placed
    <3>6. CASE Write(r)
      BY <1>0, <2>0, <3>2, <3>3, <3>4, <3>6, Kinds DEF Write, LambdaPlaces, Placed
    <3> QED BY <2>2, <3>5, <3>6
  <2> QED BY <1>6, <2>1, <2>2 DEF LambdaStep
<1>7. ASSUME NEW r \in Requests, HandleStep(r) PROVE Placed'
  <2>0. lambda \in [Requests -> {"new", "reading", "awaiting", "writing", "done"}]
        /\ handle \in [Requests ->
                         {"new", "parsing", "logging", "deleting", "ending", "done"}]
        /\ <<"handle", r>> \in busy
    BY <1>7 DEF HandleStep, Parse, CallLog, Delete, Finish, TypeOK
  <2>1. CASE Parse(r) \/ CallLog(r) \/ Delete(r)
    <3>1. /\ UNCHANGED <<ready, busy, started, lambda, others>>
          /\ \E p \in {"logging", "ending", "deleting"} : handle' = [handle EXCEPT ![r] = p]
      BY <2>1 DEF Parse, CallLog, Delete
    <3>2. Once' /\ \A g : InReady(g)' <=> InReady(g)
      BY <1>b, <3>1
    <3>3. WaitPlaces' /\ LambdaPlaces' /\ HandlePlaces'
      BY <1>0, <2>0, <3>1, <3>2, Kinds DEF WaitPlaces, LambdaPlaces, HandlePlaces
    <3> QED BY <3>2, <3>3 DEF Placed
  <2>2. CASE Finish(r)
    <3>1. ~ InReady(<<"handle", r>>)
      BY <1>0, <2>0 DEF Once
    <3>2. CASE r \in others
      <4>1. ~ InReady(<<"lambda", r>>) /\ <<"lambda", r>> \notin busy
        BY <1>0, <3>2 DEF LambdaPlaces
      <4>2. lambda[r] \notin {"new", "done"}
        BY <1>0, <3>2 DEF LambdaPlaces
      <4>3. Once' /\ \A g : InReady(g)' <=> InReady(g) \/ g = <<"lambda", r>>
        BY <1>0, <2>2, <3>2, <4>1, Kinds, Queue DEF Finish
      <4>4. WaitPlaces'
        BY <1>0, <2>2, <4>3, Kinds DEF Finish, WaitPlaces
      <4>5. LambdaPlaces'
        BY <1>0, <2>0, <2>2, <3>2, <4>1, <4>2, <4>3, Kinds DEF Finish, LambdaPlaces
      <4>6. HandlePlaces'
        BY <1>0, <2>0, <2>2, <3>1, <4>3, Kinds DEF Finish, HandlePlaces
      <4> QED BY <4>3, <4>4, <4>5, <4>6 DEF Placed
    <3>3. CASE r \notin others
      <4>1. UNCHANGED ready BY <2>2, <3>3 DEF Finish
      <4>2. Once' /\ \A g : InReady(g)' <=> InReady(g)
        BY <1>b, <2>2, <4>1 DEF Finish
      <4>3. WaitPlaces' /\ LambdaPlaces'
        BY <1>0, <2>0, <2>2, <3>3, <4>2, Kinds DEF Finish, WaitPlaces, LambdaPlaces
      <4>4. HandlePlaces'
        BY <1>0, <2>0, <2>2, <3>1, <4>2, Kinds DEF Finish, HandlePlaces
      <4> QED BY <4>2, <4>3, <4>4 DEF Placed
    <3> QED BY <3>2, <3>3
  <2> QED BY <1>7, <2>1, <2>2 DEF HandleStep
<1>8. CASE UNCHANGED vars BY <1>a, <1>8 DEF vars
<1> QED BY <1>1, <1>2, <1>3, <1>4, <1>5, <1>6, <1>7, <1>8 DEF Next

(* A handle is counted once in the queue it is in. *)
LEMMA Counted ==
  ASSUME TypeOK, Once, NEW h
  PROVE  Cardinality({i \in DOMAIN ready : ready[i] = h}) = IF InReady(h) THEN 1 ELSE 0
<1>0. DOMAIN ready = 1..Len(ready) BY DEF TypeOK
<1>1. CASE InReady(h)
  <2>1. PICK i \in 1..Len(ready) : ready[i] = h BY <1>1 DEF InReady
  <2>2. {j \in DOMAIN ready : ready[j] = h} = {i} BY <1>0, <2>1 DEF Once
  <2>3. Cardinality({i}) = 1 BY FS_Singleton
  <2> QED BY <1>1, <2>2, <2>3
<1>2. CASE ~ InReady(h)
  <2>1. {j \in DOMAIN ready : ready[j] = h} = {} BY <1>0, <1>2 DEF InReady
  <2> QED BY <1>2, <2>1, FS_EmptySet
<1> QED BY <1>1, <1>2

LEMMA PlacedInit == Init => Placed
BY DEF Init, Placed, Once, InReady, WaitPlaces, LambdaPlaces, HandlePlaces

(* A coroutine of a request is in one place while it lasts, and nobody      *)
(* waits for a handleRequest that has ended.                                *)
THEOREM CoroutinesAreInOnePlace == Spec => []InOnePlace
<1>1. TypeOK /\ Placed => InOnePlace
  <2> SUFFICES ASSUME TypeOK, Placed, NEW r \in Requests
      PROVE LET Queued(h) == {i \in DOMAIN ready : ready[i] = h}
                Places(h) == Cardinality(Queued(h)) + (IF h \in busy THEN 1 ELSE 0)
            IN  /\ Places(<<"lambda", r>>) + (IF r \in others THEN 1 ELSE 0)
                     = IF lambda[r] \in {"new", "done"} THEN 0 ELSE 1
                /\ Places(<<"handle", r>>) = IF handle[r] \in {"new", "done"} THEN 0 ELSE 1
                /\ r \in others => handle[r] # "done"
    BY DEF InOnePlace
  <2>0. Once /\ LambdaPlaces /\ HandlePlaces BY DEF Placed
  <2>1. \A h : Cardinality({i \in DOMAIN ready : ready[i] = h}) = IF InReady(h) THEN 1 ELSE 0
    BY <2>0, Counted
  <2>2. \A h \in busy : ~ InReady(h) BY <2>0 DEF Once
  <2> QED BY <2>0, <2>1, <2>2 DEF LambdaPlaces, HandlePlaces
<1>2. Inv => TypeOK /\ Progress
  BY DEF Inv
<1> QED BY <1>1, <1>2, Invariance, PlacedInit, PlacedStep, PTL DEF Spec
===============================================================================
