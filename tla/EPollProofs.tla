------------------------------ MODULE EPollProofs ------------------------------
(****************************************************************************)
(* Theorems about EPoll, for every finite set of listeners, every length of *)
(* the accept queue and every set of connections and descriptors.           *)
(****************************************************************************)
EXTENDS EPoll, FiniteSetTheorems, SequenceTheorems, TLAPS

USE EPollAssumption

-------------------------------------------------------------------------------
(* Types. *)

(* The types need two more facts to be inductive: no more is unread than   *)
(* was sent, and addSocket is called with what accept returned.             *)
Types ==
  /\ TypeOK
  /\ \A c \in Conns : unread[c] <= sent[c]
  /\ \A l \in Listeners : pc[l] = "add" => new_socket_fd[l] \in Fds

(* A coroutine may be changed anywhere in the sequence of requests. *)
LEMMA MapReqs ==
  ASSUME reqs \in Seq(Requests), NEW g \in [DOMAIN reqs -> Requests]
  PROVE  g \in Seq(Requests)
<1>1. DOMAIN reqs = 1..Len(reqs) /\ Len(reqs) \in Nat
  BY LenProperties
<1>. QED
  BY <1>1, IsASeq

LEMMA LosesLone ==
  ASSUME NEW r \in Requests, r.by # NoListener \/ r.fd # NoFd
  PROVE  [r EXCEPT !.lone = FALSE] \in Requests
<1>1. r \in ActiveRequests
  BY DEF Requests, Finished
<1>. QED
  BY <1>1 DEF Requests, ActiveRequests

LEMMA TypesInit == Init => Types
BY DEF Init, Types, TypeOK, PC

LEMMA DieTypes ==
  ASSUME Types, NEW l \in Listeners, Die(l)
  PROVE  /\ pc' \in [Listeners -> PC]
         /\ batch' \in [Listeners -> SUBSET Events]
         /\ reqs' \in Seq(Requests)
         /\ new_socket_fd' \in [Listeners -> Fds \cup {NoFd}]
         /\ closure' \in [Listeners -> Fds \cup {NoFd}]
         /\ \A k \in Listeners : pc'[k] = "add" => new_socket_fd'[k] \in Fds
<1>. USE DEF Types, TypeOK, Die
<1>1. /\ pc' \in [Listeners -> PC]
      /\ batch' \in [Listeners -> SUBSET Events]
      /\ new_socket_fd' \in [Listeners -> Fds \cup {NoFd}]
      /\ closure' \in [Listeners -> Fds \cup {NoFd}]
      /\ \A k \in Listeners : pc'[k] = "add" => new_socket_fd'[k] \in Fds
  BY DEF PC
<1>2. \A i \in DOMAIN reqs : reqs[i] \in Requests
  BY ElementOfSeq, LenProperties
<1>3. reqs' \in [DOMAIN reqs -> Requests]
  BY <1>2, LosesLone
<1>4. reqs' \in Seq(Requests)
  BY <1>3, MapReqs
<1>. QED
  BY <1>1, <1>4

LEMMA TypesNext == Types /\ [Next]_vars => Types'
<1>. SUFFICES ASSUME Types, [Next]_vars PROVE Types'
  OBVIOUS
<1>. USE DEF Types, TypeOK
<1>. DEFINE K == /\ backlog' \in Seq(Conns) /\ Len(backlog') <= Backlog
                 /\ peer' \in [Conns -> {"new", "open", "hung"}]
                 /\ sent' \in [Conns -> 0..MaxSends]
                 /\ unread' \in [Conns -> 0..MaxSends]
                 /\ \A c \in Conns : unread'[c] <= sent'[c]
                 /\ conn' \in [Fds -> Conns \cup {NoConn}]
                 /\ watch' \in [Fds -> SUBSET Listeners]
                 /\ ready' \in [Listeners -> SUBSET (Fds \cup {Master})]
            P == /\ socket_vec_' \in [Fds -> {"Open", "Closed"}]
                 /\ m_' \in Listeners \cup {NoListener}
                 /\ pc' \in [Listeners -> PC]
                 /\ batch' \in [Listeners -> SUBSET Events]
                 /\ new_socket_fd' \in [Listeners -> Fds \cup {NoFd}]
                 /\ closure' \in [Listeners -> Fds \cup {NoFd}]
                 /\ \A k \in Listeners :
                      pc'[k] = "add" => new_socket_fd'[k] \in Fds
            R == reqs' \in Seq(Requests)
<1>0. \A i \in DOMAIN reqs : reqs[i] \in Requests
  BY ElementOfSeq, LenProperties
<1>k. (UNCHANGED kernel) => K
  BY DEF kernel
<1>p. (UNCHANGED listener) => P
  BY DEF listener
<1>r. (UNCHANGED reqs) => R
  OBVIOUS
<1>s. SUFFICES K /\ P /\ R
  OBVIOUS
<1>1. ASSUME NEW c \in Conns, Connect(c) PROVE K /\ P /\ R
  <2>1. backlog' \in Seq(Conns) /\ Len(backlog') = Len(backlog) + 1
    BY <1>1, AppendProperties DEF Connect
  <2>2. Len(backlog') <= Backlog
    BY <2>1, <1>1, LenProperties DEF Connect
  <2>3. K
    BY <1>1, <2>1, <2>2 DEF Connect
  <2>. QED
    BY <1>1, <2>3, <1>p, <1>r DEF Connect
<1>2. ASSUME NEW c \in Conns, Send(c) PROVE K /\ P /\ R
  <2>1. K
    BY <1>2 DEF Send, Edge
  <2>. QED
    BY <1>2, <2>1, <1>p, <1>r DEF Send
<1>3. ASSUME NEW c \in Conns, HangUp(c) PROVE K /\ P /\ R
  <2>1. K
    BY <1>3 DEF HangUp, Edge
  <2>. QED
    BY <1>3, <2>1, <1>p, <1>r DEF HangUp
<1>4. ASSUME NEW l \in Listeners, Start(l) PROVE K /\ P /\ R
  <2>1. P
    BY <1>4 DEF Start, PC
  <2>. QED
    BY <1>4, <2>1, <1>k, <1>r DEF Start
<1>5. ASSUME NEW l \in Listeners, Wait(l) PROVE K /\ P /\ R
  <2>. DEFINE live == {s \in ready[l] : Mask(s) # "none"}
  <2>1. PICK taken \in SUBSET live :
          /\ batch' = [batch EXCEPT ![l] = {Event(s) : s \in taken}]
          /\ ready' = [ready EXCEPT ![l] = live \ taken]
    BY <1>5 DEF Wait
  <2>2. live \in SUBSET (Fds \cup {Master})
    OBVIOUS
  <2>3. \A s \in live : Event(s) \in Events
    <3>. TAKE s \in live
    <3>1. Mask(s) \in {"in", "hup"}
      BY DEF Mask
    <3>2. s \in Fds \cup {Master} /\ (s # Master => conn[s] \in Conns \cup {NoConn})
      BY <2>2
    <3>. QED
      BY <3>1, <3>2 DEF Event, Events
  <2>4. {Event(s) : s \in taken} \in SUBSET Events
    BY <2>3
  <2>. HIDE DEF live
  <2>5. P
    BY <1>5, <2>1, <2>4 DEF Wait
  <2>6. K
    BY <1>5, <2>1, <2>2 DEF Wait
  <2>. QED
    BY <1>5, <2>5, <2>6, <1>r DEF Wait
<1>6. ASSUME NEW l \in Listeners, WaitFails(l) PROVE K /\ P /\ R
  BY <1>6, DieTypes, <1>k DEF WaitFails
<1>7. ASSUME NEW l \in Listeners, NEW e \in batch[l], AcceptNothing(l, e)
      PROVE  K /\ P /\ R
  <2>1. P
    BY <1>7 DEF AcceptNothing, Handled
  <2>. QED
    BY <1>7, <2>1, <1>k, <1>r DEF AcceptNothing
<1>8. ASSUME NEW l \in Listeners, NEW e \in batch[l], Accept(l, e)
      PROVE  K /\ P /\ R
  <2>1. /\ Head(backlog) \in Conns /\ backlog' \in Seq(Conns)
        /\ Len(backlog') = Len(backlog) - 1
    BY <1>8, HeadTailProperties DEF Accept
  <2>2. Len(backlog') <= Backlog
    BY <2>1, LenProperties
  <2>3. K
    BY <1>8, <2>1, <2>2 DEF Accept
  <2>4. P
    BY <1>8 DEF Accept, Handled, PC
  <2>. QED
    BY <1>8, <2>3, <2>4, <1>r DEF Accept
<1>9. ASSUME NEW l \in Listeners, NEW e \in batch[l], AcceptFails(l, e)
      PROVE  K /\ P /\ R
  BY <1>9, DieTypes, <1>k DEF AcceptFails
<1>10. ASSUME NEW l \in Listeners, NEW e \in batch[l], DelSocket(l, e)
       PROVE  K /\ P /\ R
  <2>1. K
    BY <1>10 DEF DelSocket
  <2>2. P
    BY <1>10 DEF DelSocket, Handled, MarkClosed
  <2>3. reqs' \in [DOMAIN reqs -> Requests]
    BY <1>10, <1>0, LosesLone DEF DelSocket
  <2>4. R
    BY <2>3, MapReqs
  <2>. QED
    BY <2>1, <2>2, <2>4
<1>11. ASSUME NEW l \in Listeners, NEW e \in batch[l], StartRequest(l, e)
       PROVE  K /\ P /\ R
  <2>1. P
    BY <1>11 DEF StartRequest, Handled
  <2>. DEFINE g == [i \in DOMAIN reqs |->
                      IF reqs[i].by = l THEN [reqs[i] EXCEPT !.lone = FALSE]
                                        ELSE reqs[i]]
  <2>2. g \in [DOMAIN reqs -> Requests]
    BY <1>0, LosesLone
  <2>3. g \in Seq(Requests)
    BY <2>2, MapReqs
  <2>4. Request(l, e.socket) \in Requests
    <3>1. e.socket \in Fds
      BY <1>11 DEF StartRequest
    <3>2. conn[e.socket] \in Conns \cup {NoConn}
      BY <3>1
    <3>. QED
      BY <3>1, <3>2 DEF Request, Requests, ActiveRequests
  <2>5. reqs' = Append(g, Request(l, e.socket))
    BY <1>11 DEF StartRequest
  <2>6. R
    BY <2>3, <2>4, <2>5, AppendProperties
  <2>. QED
    BY <1>11, <2>1, <2>6, <1>k DEF StartRequest
<1>12. ASSUME NEW l \in Listeners, AddSocket(l) PROVE K /\ P /\ R
  <2>0. PICK f \in Fds : f = new_socket_fd[l]
    BY <1>12 DEF AddSocket
  <2>1. CASE socket_vec_[new_socket_fd[l]] = "Closed"
    <3>1. /\ watch' = [watch EXCEPT ![f] = {l}]
          /\ ready' = [ready EXCEPT ![l] =
                         @ \cup IF Mask(f) # "none" THEN {f} ELSE {}]
          /\ UNCHANGED <<backlog, peer, sent, unread, conn>>
      BY <1>12, <2>0, <2>1 DEF AddSocket, RegisterSocket
    <3>2. K
      BY <3>1
    <3>3. /\ socket_vec_' = [socket_vec_ EXCEPT ![f] = "Open"]
          /\ new_socket_fd' = [new_socket_fd EXCEPT ![l] = NoFd]
          /\ pc' = [pc EXCEPT ![l] = "loop"]
          /\ UNCHANGED <<m_, batch, closure, reqs>>
      BY <1>12, <2>0, <2>1 DEF AddSocket
    <3>4. P
      BY <3>3 DEF PC
    <3>. QED
      BY <3>2, <3>3, <3>4, <1>r
  <2>2. CASE socket_vec_[new_socket_fd[l]] # "Closed"
    <3>1. K
      BY <1>12, <2>2 DEF AddSocket
    <3>2. m_' = l /\ Die(l) /\ UNCHANGED socket_vec_
      BY <1>12, <2>2 DEF AddSocket
    <3>. QED
      BY <3>1, <3>2, DieTypes
  <2>. QED
    BY <2>1, <2>2
<1>13. ASSUME NEW i \in DOMAIN reqs, RequestStep(i) PROVE K /\ P /\ R
  <2>0. i \in 1..Len(reqs) /\ reqs[i] \in Requests
    BY <1>0, LenProperties
  <2>a. ASSUME NEW r \in Requests, reqs' = [reqs EXCEPT ![i] = r] PROVE R
    BY <2>0, <2>a, ExceptSeq
  <2>b. ASSUME reqs[i].at # "done" PROVE reqs[i] \in ActiveRequests
    BY <2>0, <2>b DEF Requests, Finished
  <2>1. CASE BeginRead(i)
    <3>1. PICK f \in SocketI(reqs[i]) :
            reqs' = [reqs EXCEPT ![i] = [@ EXCEPT !.at = "read", !.rfd = f]]
      BY <2>1 DEF BeginRead
    <3>2. reqs[i] \in ActiveRequests
      BY <2>1, <2>b DEF BeginRead
    <3>3. f \in Fds \cup {NoFd}
      BY <3>2 DEF SocketI, ActiveRequests
    <3>4. [reqs[i] EXCEPT !.at = "read", !.rfd = f] \in Requests
      BY <3>2, <3>3 DEF Requests, ActiveRequests
    <3>5. R
      BY <3>1, <3>4, <2>a
    <3>. QED
      BY <2>1, <3>5, <1>k, <1>p DEF BeginRead
  <2>2. CASE ReadSome(i)
    <3>. DEFINE c == Peer(reqs[i].rfd)
                r == [reqs[i] EXCEPT !.from = reqs[i].from \cup {c}]
    <3>1. reqs[i] \in ActiveRequests
      BY <2>2, <2>b DEF ReadSome
    <3>2. c \in Conns
      BY <2>2, <3>1 DEF ReadSome, Peer, ActiveRequests
    <3>a. reqs' = [reqs EXCEPT ![i] = r]
      BY <2>2 DEF ReadSome
    <3>b. /\ unread' = [unread EXCEPT ![c] = 0]
          /\ UNCHANGED <<backlog, peer, sent, conn, watch, ready, listener>>
      BY <2>2 DEF ReadSome
    <3>. HIDE DEF c
    <3>3. r \in Requests
      BY <3>1, <3>2 DEF Requests, ActiveRequests
    <3>. HIDE DEF r
    <3>4. R
      BY <3>a, <3>3, <2>a
    <3>6. K
      BY <3>b, <3>2
    <3>. QED
      BY <3>b, <3>4, <3>6, <1>p
  <2>3. CASE ReadEnds(i)
    <3>1. reqs[i] \in ActiveRequests
      BY <2>3, <2>b DEF ReadEnds
    <3>2. [reqs[i] EXCEPT !.at = "answer", !.rfd = NoFd] \in Requests
      BY <3>1 DEF Requests, ActiveRequests
    <3>3. R
      BY <2>3, <3>2, <2>a DEF ReadEnds
    <3>. QED
      BY <2>3, <3>3, <1>k, <1>p DEF ReadEnds
  <2>4. CASE AnswerFile(i)
    <3>1. R
      BY <2>4, <2>a DEF AnswerFile, Requests
    <3>. QED
      BY <2>4, <3>1, <1>k, <1>p DEF AnswerFile
  <2>5. CASE \E hasFile \in BOOLEAN : Answer(i, hasFile)
    <3>1. PICK hasFile \in BOOLEAN : Answer(i, hasFile)
      BY <2>5
    <3>2. reqs[i] \in ActiveRequests
      BY <3>1, <2>b DEF Answer
    <3>3. (IF hasFile THEN [reqs[i] EXCEPT !.at = "file"] ELSE Finished)
            \in Requests
      BY <3>2 DEF Requests, ActiveRequests
    <3>4. R
      BY <3>1, <3>3, <2>a DEF Answer
    <3>. QED
      BY <3>1, <3>4, <1>k, <1>p DEF Answer
  <2>. QED
    BY <1>13, <2>1, <2>2, <2>3, <2>4, <2>5 DEF RequestStep
<1>14. CASE UNCHANGED vars
  BY <1>14, <1>k, <1>p, <1>r DEF vars
<1>. QED
  BY <1>1, <1>2, <1>3, <1>4, <1>5, <1>6, <1>7, <1>8, <1>9, <1>10, <1>11,
     <1>12, <1>13, <1>14
     DEF Next, PeerStep, ListenerStep, HandleEvent

(* The state of listeners, kernel and requests has the types it is given.   *)
THEOREM TypeCorrect == Spec => []TypeOK
<1>1. Types => TypeOK
  BY DEF Types
<1>. QED
  BY <1>1, TypesInit, TypesNext, PTL DEF Spec

-------------------------------------------------------------------------------
(* The accept queue. *)

(* Inductive: what BacklogIsWatched says, with the slack counted: as long   *)
(* as the queue is not empty, the listeners that will accept outnumber its  *)
(* connections by at least as many as there are listeners to spare.         *)
Slack ==
  backlog # <<>> =>
    Cardinality(WillAccept) + Backlog >= Cardinality(Alive) + Len(backlog)

LEMMA WithoutOne ==
  ASSUME NEW S, IsFiniteSet(S), NEW x
  PROVE  /\ Cardinality(S) \in Nat /\ Cardinality(S \ {x}) \in Nat
         /\ Cardinality(S \ {x}) >= Cardinality(S) - 1
<1>1. IsFiniteSet(S \ {x})
  BY FS_RemoveElement
<1>2. Cardinality(S) \in Nat /\ Cardinality(S \ {x}) \in Nat
  BY <1>1, FS_CardinalityType
<1>3. CASE x \in S
  <2>1. Cardinality(S \ {x}) = Cardinality(S) - 1
    BY <1>3, FS_RemoveElement
  <2>. QED
    BY <1>2, <2>1
<1>4. CASE x \notin S
  <2>1. Cardinality(S \ {x}) = Cardinality(S)
    BY <1>4, FS_RemoveElement
  <2>. QED
    BY <1>2, <2>1
<1>. QED
  BY <1>3, <1>4

LEMMA FiniteListeners ==
  /\ IsFiniteSet(Alive) /\ Cardinality(Alive) \in Nat
  /\ IsFiniteSet(WillAccept) /\ Cardinality(WillAccept) \in Nat
<1>1. Alive \in SUBSET Listeners /\ WillAccept \in SUBSET Listeners
  BY DEF Alive, WillAccept
<1>. QED
  BY <1>1, FS_Subset, FS_CardinalityType

LEMMA FiniteListenersNext ==
  /\ IsFiniteSet(Alive') /\ Cardinality(Alive') \in Nat
  /\ IsFiniteSet(WillAccept') /\ Cardinality(WillAccept') \in Nat
<1>1. Alive' \in SUBSET Listeners /\ WillAccept' \in SUBSET Listeners
  BY DEF Alive, WillAccept
<1>. QED
  BY <1>1, FS_Subset, FS_CardinalityType

(* No listener dies or forgets to accept, and no connection comes. *)
LEMMA SlackKept ==
  ASSUME Slack, Alive' = Alive, backlog' = backlog,
         WillAccept \subseteq WillAccept'
  PROVE  Slack'
<1>1. Cardinality(WillAccept) <= Cardinality(WillAccept')
  BY FiniteListenersNext, FS_Subset
<1>2. Cardinality(Alive') = Cardinality(Alive) /\ Len(backlog') = Len(backlog)
  OBVIOUS
<1>3. CASE backlog' = <<>>
  BY <1>3 DEF Slack
<1>4. CASE backlog' # <<>>
  <2>1. Cardinality(WillAccept) + Backlog >= Cardinality(Alive) + Len(backlog)
    BY <1>4 DEF Slack
  <2>. HIDE DEF Alive, WillAccept
  <2>. QED
    BY <1>1, <1>2, <2>1, FiniteListeners, FiniteListenersNext DEF Slack
<1>. QED
  BY <1>3, <1>4

(* A listener that dies was one to spare, or was due to accept. *)
LEMMA SlackAfterDeath ==
  ASSUME Types, Slack, NEW l \in Listeners, pc[l] # "dead", Die(l),
         UNCHANGED <<backlog, ready>>
  PROVE  Slack'
<1>1. Alive' = Alive \ {l} /\ l \in Alive
  BY DEF Alive, Die, Types, TypeOK
<1>2. WillAccept' = WillAccept \ {l}
  BY <1>1 DEF WillAccept, Alive, Die, Types, TypeOK
<1>3. Cardinality(Alive') = Cardinality(Alive) - 1
  BY <1>1, FiniteListeners, FS_RemoveElement
<1>4. Cardinality(WillAccept') >= Cardinality(WillAccept) - 1
  BY <1>2, FiniteListeners, WithoutOne
<1>5. Len(backlog) \in Nat
  BY LenProperties DEF Types, TypeOK
<1>. QED
  BY <1>3, <1>4, <1>5, FiniteListeners, FiniteListenersNext DEF Slack

LEMMA SlackNext == Types /\ Slack /\ [Next]_vars => Slack'
<1>. SUFFICES ASSUME Types, Slack, [Next]_vars PROVE Slack'
  OBVIOUS
<1>. USE DEF Types, TypeOK
<1>0. (UNCHANGED <<backlog, ready, pc, batch>>) => Slack'
  <2>. SUFFICES ASSUME UNCHANGED <<backlog, ready, pc, batch>> PROVE Slack'
    OBVIOUS
  <2>1. Alive' = Alive /\ WillAccept' = WillAccept
    BY DEF Alive, WillAccept
  <2>. QED
    BY <2>1, SlackKept
<1>1. ASSUME NEW c \in Conns, Connect(c) PROVE Slack'
  <2>1. WillAccept' = Alive' /\ Alive' = Alive
    BY <1>1 DEF Connect, WillAccept, Alive, listener
  <2>2. Len(backlog') <= Backlog /\ Len(backlog') \in Nat
    BY <1>1, AppendProperties, LenProperties DEF Connect
  <2>. QED
    BY <2>1, <2>2, FiniteListenersNext DEF Slack
<1>2. ASSUME NEW c \in Conns, Send(c) PROVE Slack'
  <2>1. Alive' = Alive /\ WillAccept \subseteq WillAccept'
    BY <1>2 DEF Send, Edge, Alive, WillAccept, listener
  <2>. QED
    BY <1>2, <2>1, SlackKept DEF Send
<1>3. ASSUME NEW c \in Conns, HangUp(c) PROVE Slack'
  <2>1. Alive' = Alive /\ WillAccept \subseteq WillAccept'
    BY <1>3 DEF HangUp, Edge, Alive, WillAccept, listener
  <2>. QED
    BY <1>3, <2>1, SlackKept DEF HangUp
<1>4. ASSUME NEW l \in Listeners, Start(l) PROVE Slack'
  <2>1. Alive' = Alive /\ WillAccept \subseteq WillAccept' /\ backlog' = backlog
    BY <1>4 DEF Start, Alive, WillAccept, kernel
  <2>. QED
    BY <2>1, SlackKept
<1>5. ASSUME NEW l \in Listeners, Wait(l) PROVE Slack'
  <2>0. CASE backlog = <<>>
    BY <1>5, <2>0 DEF Wait, Slack
  <2>1. CASE backlog # <<>>
    <3>. DEFINE live == {s \in ready[l] : Mask(s) # "none"}
    <3>1. PICK taken \in SUBSET live :
            /\ batch' = [batch EXCEPT ![l] = {Event(s) : s \in taken}]
            /\ ready' = [ready EXCEPT ![l] = live \ taken]
      BY <1>5 DEF Wait
    <3>2. Master \in ready[l] => Master \in live
      BY <2>1 DEF Mask
    <3>3. Event(Master) = AcceptEvent
      BY <2>1 DEF Event, Mask, AcceptEvent
    <3>. HIDE DEF live
    <3>4. Master \in taken => AcceptEvent \in batch'[l]
      BY <3>1, <3>3
    <3>5. Master \in live \ taken => Master \in ready'[l]
      BY <3>1
    <3>6. batch[l] = {} /\ UNCHANGED <<pc, backlog>>
      BY <1>5 DEF Wait
    <3>7. \A k \in Listeners \ {l} : ready'[k] = ready[k] /\ batch'[k] = batch[k]
      BY <3>1
    <3>8. Alive' = Alive /\ WillAccept \subseteq WillAccept'
      BY <3>2, <3>4, <3>5, <3>6, <3>7 DEF Alive, WillAccept
    <3>. QED
      BY <3>6, <3>8, SlackKept
  <2>. QED
    BY <2>0, <2>1
<1>6. ASSUME NEW l \in Listeners, WaitFails(l) PROVE Slack'
  BY <1>6, SlackAfterDeath DEF WaitFails, kernel
<1>7. ASSUME NEW l \in Listeners, NEW e \in batch[l], AcceptNothing(l, e)
      PROVE  Slack'
  BY <1>7 DEF AcceptNothing, kernel, Slack
<1>8. ASSUME NEW l \in Listeners, NEW e \in batch[l], Accept(l, e)
      PROVE  Slack'
  <2>1. Alive' = Alive
    BY <1>8 DEF Accept, Handled, Alive
  <2>2. WillAccept \ {l} \subseteq WillAccept'
    BY <1>8, <2>1 DEF Accept, Handled, WillAccept
  <2>3. Cardinality(WillAccept \ {l}) <= Cardinality(WillAccept')
    BY <2>2, FiniteListenersNext, FS_Subset
  <2>4. Cardinality(WillAccept \ {l}) >= Cardinality(WillAccept) - 1
        /\ Cardinality(WillAccept \ {l}) \in Nat
    BY FiniteListeners, WithoutOne
  <2>5. backlog # <<>> /\ Len(backlog') = Len(backlog) - 1 /\ Len(backlog) \in Nat
    BY <1>8, HeadTailProperties, LenProperties DEF Accept
  <2>6. Cardinality(Alive') = Cardinality(Alive)
    BY <2>1
  <2>. QED
    BY <2>3, <2>4, <2>5, <2>6, FiniteListeners, FiniteListenersNext DEF Slack
<1>9. ASSUME NEW l \in Listeners, NEW e \in batch[l], AcceptFails(l, e)
      PROVE  Slack'
  BY <1>9, SlackAfterDeath DEF AcceptFails, kernel
<1>10. ASSUME NEW l \in Listeners, NEW e \in batch[l], DelSocket(l, e)
       PROVE  Slack'
  <2>1. e # AcceptEvent /\ e.socket # Master
    BY <1>10 DEF DelSocket, AcceptEvent
  <2>2. Alive' = Alive /\ WillAccept \subseteq WillAccept' /\ backlog' = backlog
    BY <1>10, <2>1 DEF DelSocket, Handled, Alive, WillAccept
  <2>. QED
    BY <2>2, SlackKept
<1>11. ASSUME NEW l \in Listeners, NEW e \in batch[l], StartRequest(l, e)
       PROVE  Slack'
  <2>1. e # AcceptEvent
    BY <1>11 DEF StartRequest, AcceptEvent
  <2>2. Alive' = Alive /\ WillAccept \subseteq WillAccept' /\ backlog' = backlog
    BY <1>11, <2>1 DEF StartRequest, Handled, Alive, WillAccept, kernel
  <2>. QED
    BY <2>2, SlackKept
<1>12. ASSUME NEW l \in Listeners, AddSocket(l) PROVE Slack'
  <2>1. CASE socket_vec_[new_socket_fd[l]] = "Closed"
    <3>1. /\ ready' = [ready EXCEPT ![l] = @ \cup
                         IF Mask(new_socket_fd[l]) # "none"
                           THEN {new_socket_fd[l]} ELSE {}]
          /\ pc' = [pc EXCEPT ![l] = "loop"]
          /\ pc[l] = "add" /\ UNCHANGED <<batch, backlog>>
      BY <1>12, <2>1 DEF AddSocket, RegisterSocket
    <3>2. Alive' = Alive /\ WillAccept \subseteq WillAccept'
      BY <3>1 DEF Alive, WillAccept
    <3>. QED
      BY <3>1, <3>2, SlackKept
  <2>2. CASE socket_vec_[new_socket_fd[l]] # "Closed"
    <3>1. Die(l) /\ pc[l] # "dead" /\ UNCHANGED <<backlog, ready>>
      BY <1>12, <2>2 DEF AddSocket
    <3>. QED
      BY <3>1, SlackAfterDeath
  <2>. QED
    BY <2>1, <2>2
<1>13. ASSUME NEW i \in DOMAIN reqs, RequestStep(i) PROVE Slack'
  BY <1>13, <1>0 DEF RequestStep, BeginRead, ReadSome, ReadEnds, AnswerFile,
                     Answer, kernel, listener
<1>14. CASE UNCHANGED vars
  BY <1>14, <1>0 DEF vars, kernel, listener
<1>. QED
  BY <1>1, <1>2, <1>3, <1>4, <1>5, <1>6, <1>7, <1>8, <1>9, <1>10, <1>11,
     <1>12, <1>13, <1>14
     DEF Next, PeerStep, ListenerStep, HandleEvent

(* With as many listeners as places in the accept queue, every connection   *)
(* of the queue has a listener that will call accept for it.                *)
THEOREM BacklogWatched == Spec => []BacklogIsWatched
<1>1. Init => Slack
  BY DEF Init, Slack
<1>2. Types /\ Slack => BacklogIsWatched
  <2>. SUFFICES ASSUME Types, Slack, Cardinality(Alive) >= Backlog
                PROVE  Len(backlog) <= Cardinality(WillAccept)
    BY DEF BacklogIsWatched
  <2>1. CASE backlog = <<>>
    BY <2>1, FiniteListeners
  <2>2. CASE backlog # <<>>
    <3>1. Len(backlog) \in Nat
      BY LenProperties DEF Types, TypeOK
    <3>. QED
      BY <2>2, <3>1, FiniteListeners DEF Slack
  <2>. QED
    BY <2>1, <2>2
<1>. QED
  BY <1>1, <1>2, TypesInit, TypesNext, SlackNext, PTL DEF Spec

-------------------------------------------------------------------------------
(* The table of sockets. *)

(* Only the listener that accepted a connection hears of it. *)
OneWatcher ==
  /\ \A f \in Fds : watch[f] # {} => conn[f] # NoConn
  /\ \A f \in Fds : \A l \in watch[f] : watch[f] = {l}
  /\ \A l \in Listeners : \A f \in ready[l] : f \in Fds => watch[f] = {l}

(* What accept returned is not registered yet, and no other listener has it. *)
Fresh ==
  /\ \A l \in Listeners : pc[l] = "add" =>
       watch[new_socket_fd[l]] = {} /\ conn[new_socket_fd[l]] # NoConn
  /\ \A k, l \in Listeners : k # l /\ pc[k] = "add" /\ pc[l] = "add" =>
       new_socket_fd[k] # new_socket_fd[l]

(* A socket has one event at most among those of one call of epoll_wait.    *)
OneEvent ==
  \A l \in Listeners : \A d, e \in batch[l] : d.socket = e.socket => d = e

(* Inductive: why the table agrees with the kernel. *)
Sockets ==
  TableMatchesKernel /\ BatchIsCurrent /\ OneWatcher /\ Fresh /\ OneEvent

LEMMA SocketsInit == Init => Sockets
BY DEF Init, Sockets, TableMatchesKernel, BatchIsCurrent, OneWatcher, Fresh,
       OneEvent

(* A dead listener has no event left and adds nothing. *)
LEMMA SocketsAfterDeath ==
  ASSUME Types, Sockets, NEW l \in Listeners, Die(l),
         UNCHANGED <<kernel, socket_vec_, m_>>
  PROVE  Sockets'
<1>1. /\ pc'[l] = "dead" /\ batch'[l] = {}
      /\ \A k \in Listeners \ {l} : pc'[k] = pc[k] /\ batch'[k] = batch[k]
      /\ UNCHANGED new_socket_fd
  BY DEF Die, Types, TypeOK
<1>2. UNCHANGED <<conn, watch, ready, socket_vec_, m_>>
  BY DEF kernel
<1>3. TableMatchesKernel'
  BY <1>1, <1>2 DEF Sockets, TableMatchesKernel
<1>4. BatchIsCurrent' /\ OneEvent'
  BY <1>1, <1>2 DEF Sockets, BatchIsCurrent, OneEvent
<1>5. OneWatcher'
  BY <1>2 DEF Sockets, OneWatcher
<1>6. Fresh'
  BY <1>1, <1>2 DEF Sockets, Fresh
<1>. QED
  BY <1>3, <1>4, <1>5, <1>6 DEF Sockets

(* A listener that is through with an event and does nothing else. *)
LEMMA SocketsHandled ==
  ASSUME Types, Sockets, NEW l \in Listeners, NEW e \in batch[l], Handled(l, e),
         UNCHANGED <<conn, watch, ready, socket_vec_, m_, pc, new_socket_fd>>
  PROVE  Sockets'
<1>1. \A k \in Listeners : batch'[k] \subseteq batch[k]
  BY DEF Handled, Types, TypeOK
<1>2. TableMatchesKernel'
  BY DEF Sockets, TableMatchesKernel
<1>3. BatchIsCurrent' /\ OneEvent'
  BY <1>1 DEF Sockets, BatchIsCurrent, OneEvent
<1>4. OneWatcher' /\ Fresh'
  BY DEF Sockets, OneWatcher, Fresh
<1>. QED
  BY <1>2, <1>3, <1>4 DEF Sockets

(* An edge on a connection. *)
LEMMA SocketsEdge ==
  ASSUME Types, Sockets, NEW c \in Conns, Edge(c), UNCHANGED <<conn, watch, listener>>
  PROVE  Sockets'
<1>1. UNCHANGED <<socket_vec_, m_, pc, batch, new_socket_fd>>
  BY DEF listener
<1>2. \A l \in Listeners : \A f \in ready'[l] :
        f \in ready[l] \/ (f \in Fds /\ l \in watch[f])
  BY DEF Edge, Types, TypeOK
<1>3. OneWatcher'
  BY <1>2 DEF Sockets, OneWatcher
<1>. QED
  BY <1>1, <1>3 DEF Sockets, TableMatchesKernel, BatchIsCurrent, Fresh, OneEvent

LEMMA SocketsNext == Types /\ Sockets /\ [Next]_vars => Sockets'
<1>. SUFFICES ASSUME Types, Sockets, [Next]_vars PROVE Sockets'
  OBVIOUS
<1>. USE DEF Types, TypeOK
<1>0. (UNCHANGED <<conn, watch, ready, listener>>) => Sockets'
  <2>. SUFFICES ASSUME UNCHANGED <<conn, watch, ready, listener>> PROVE Sockets'
    OBVIOUS
  <2>1. UNCHANGED <<socket_vec_, m_, pc, batch, new_socket_fd>>
    BY DEF listener
  <2>2. TableMatchesKernel' /\ Fresh'
    BY <2>1 DEF Sockets, TableMatchesKernel, Fresh
  <2>3. BatchIsCurrent' /\ OneEvent' /\ OneWatcher'
    BY <2>1 DEF Sockets, BatchIsCurrent, OneWatcher, OneEvent
  <2>. QED
    BY <2>2, <2>3 DEF Sockets
<1>1. ASSUME NEW c \in Conns, Connect(c) PROVE Sockets'
  <2>1. /\ ready' = [l \in Listeners |-> ready[l] \cup {Master}]
        /\ UNCHANGED <<conn, watch>>
        /\ UNCHANGED <<socket_vec_, m_, pc, batch, new_socket_fd>>
    BY <1>1 DEF Connect, listener
  <2>2. OneWatcher'
    BY <2>1 DEF Sockets, OneWatcher
  <2>. QED
    BY <2>1, <2>2 DEF Sockets, TableMatchesKernel, BatchIsCurrent, Fresh, OneEvent
<1>2. ASSUME NEW c \in Conns, Send(c) PROVE Sockets'
  BY <1>2, SocketsEdge DEF Send
<1>3. ASSUME NEW c \in Conns, HangUp(c) PROVE Sockets'
  BY <1>3, SocketsEdge DEF HangUp
<1>4. ASSUME NEW l \in Listeners, Start(l) PROVE Sockets'
  <2>1. UNCHANGED <<conn, watch, ready, socket_vec_, m_, batch, new_socket_fd>>
    BY <1>4 DEF Start, kernel
  <2>2. \A k \in Listeners : pc'[k] = "add" => pc[k] = "add"
    BY <1>4 DEF Start
  <2>3. TableMatchesKernel' /\ Fresh'
    BY <2>1, <2>2 DEF Sockets, TableMatchesKernel, Fresh
  <2>. QED
    BY <2>1, <2>3 DEF Sockets, BatchIsCurrent, OneWatcher, OneEvent
<1>5. ASSUME NEW l \in Listeners, Wait(l) PROVE Sockets'
  <2>. DEFINE live == {s \in ready[l] : Mask(s) # "none"}
  <2>1. PICK taken \in SUBSET live :
          /\ batch' = [batch EXCEPT ![l] = {Event(s) : s \in taken}]
          /\ ready' = [ready EXCEPT ![l] = live \ taken]
    BY <1>5 DEF Wait
  <2>2. UNCHANGED <<conn, watch, socket_vec_, m_, pc, new_socket_fd>>
    BY <1>5 DEF Wait
  <2>3. live \subseteq ready[l]
    OBVIOUS
  <2>4. \A e \in batch'[l] : \E s \in ready[l] : e = Event(s)
    BY <2>1, <2>3
  <2>. HIDE DEF live
  <2>5. \A k \in Listeners \ {l} : batch'[k] = batch[k] /\ ready'[k] = ready[k]
    BY <2>1
  <2>6. ready'[l] \subseteq ready[l]
    BY <2>1, <2>3
  <2>7. OneWatcher'
    BY <2>2, <2>5, <2>6 DEF Sockets, OneWatcher
  <2>8. BatchIsCurrent'
    <3>1. \A e \in batch'[l] :
            e.socket # Master => conn[e.socket] = e.of /\ watch[e.socket] = {l}
      BY <2>4 DEF Event, Sockets, OneWatcher
    <3>. QED
      BY <2>2, <2>5, <3>1 DEF Sockets, BatchIsCurrent
  <2>9. OneEvent'
    <3>1. \A d, e \in batch'[l] : d.socket = e.socket => d = e
      BY <2>4 DEF Event
    <3>. QED
      BY <2>5, <3>1 DEF Sockets, OneEvent
  <2>. QED
    BY <2>2, <2>7, <2>8, <2>9 DEF Sockets, TableMatchesKernel, Fresh
<1>6. ASSUME NEW l \in Listeners, WaitFails(l) PROVE Sockets'
  BY <1>6, SocketsAfterDeath DEF WaitFails
<1>7. ASSUME NEW l \in Listeners, NEW e \in batch[l], AcceptNothing(l, e)
      PROVE  Sockets'
  BY <1>7, SocketsHandled DEF AcceptNothing, kernel
<1>8. ASSUME NEW l \in Listeners, NEW e \in batch[l], Accept(l, e)
      PROVE  Sockets'
  <2>1. PICK f \in Fds :
          /\ conn[f] = NoConn
          /\ conn' = [conn EXCEPT ![f] = Head(backlog)]
          /\ new_socket_fd' = [new_socket_fd EXCEPT ![l] = f]
    BY <1>8 DEF Accept
  <2>2. /\ pc[l] = "loop" /\ pc' = [pc EXCEPT ![l] = "add"]
        /\ batch' = [batch EXCEPT ![l] = @ \ {e}]
        /\ UNCHANGED <<watch, ready, socket_vec_, m_>>
    BY <1>8 DEF Accept, Handled
  <2>3. Head(backlog) \in Conns
    BY <1>8, HeadTailProperties DEF Accept
  <2>4. watch[f] = {} /\ socket_vec_[f] = "Closed"
    BY <2>1 DEF Sockets, OneWatcher, TableMatchesKernel
  <2>5. \A g \in Fds : g # f => conn'[g] = conn[g]
    BY <2>1
  <2>6. \A k \in Listeners : batch'[k] \subseteq batch[k]
    BY <2>2
  <2>7. \A k \in Listeners \ {l} :
          pc'[k] = pc[k] /\ new_socket_fd'[k] = new_socket_fd[k]
    BY <2>1, <2>2
  <2>8. new_socket_fd'[l] = f /\ conn'[f] # NoConn
    BY <2>1, <2>3
  <2>9. TableMatchesKernel'
    BY <2>2, <2>4, <2>7, <2>8 DEF Sockets, TableMatchesKernel
  <2>10. BatchIsCurrent'
    <3>. SUFFICES ASSUME NEW k \in Listeners, NEW d \in batch'[k],
                         d.socket # Master
                  PROVE  conn'[d.socket] = d.of /\ watch'[d.socket] = {k}
      BY DEF BatchIsCurrent
    <3>1. conn[d.socket] = d.of /\ watch[d.socket] = {k} /\ d \in Events
      BY <2>6 DEF Sockets, BatchIsCurrent
    <3>2. d.socket \in Fds /\ d.socket # f
      BY <3>1, <2>4 DEF Events
    <3>. QED
      BY <3>1, <3>2, <2>2, <2>5
  <2>11. OneEvent'
    BY <2>6 DEF Sockets, OneEvent
  <2>12. OneWatcher'
    BY <2>2, <2>4, <2>5 DEF Sockets, OneWatcher
  <2>13. Fresh'
    <3>1. \A k \in Listeners \ {l} : pc[k] = "add" => new_socket_fd[k] # f
      BY <2>1 DEF Sockets, Fresh
    <3>2. \A k \in Listeners \ {l} : pc[k] = "add" =>
            conn'[new_socket_fd[k]] = conn[new_socket_fd[k]]
      BY <2>5, <3>1
    <3>. QED
      BY <2>2, <2>4, <2>7, <2>8, <3>1, <3>2 DEF Sockets, Fresh
  <2>. QED
    BY <2>9, <2>10, <2>11, <2>12, <2>13 DEF Sockets
<1>9. ASSUME NEW l \in Listeners, NEW e \in batch[l], AcceptFails(l, e)
      PROVE  Sockets'
  BY <1>9, SocketsAfterDeath DEF AcceptFails
<1>10. ASSUME NEW l \in Listeners, NEW e \in batch[l], DelSocket(l, e)
       PROVE  Sockets'
  <2>. DEFINE f == e.socket
  <2>1. f \in Fds /\ watch[f] = {l} /\ f # Master
    BY <1>10 DEF DelSocket, Sockets, BatchIsCurrent
  <2>2. /\ batch' = [batch EXCEPT ![l] = @ \ {e}]
        /\ socket_vec_' = [socket_vec_ EXCEPT ![f] = "Closed"]
        /\ conn' = [conn EXCEPT ![f] = NoConn]
        /\ watch' = [watch EXCEPT ![f] = {}]
        /\ ready' = [k \in Listeners |-> ready[k] \ {f}]
        /\ UNCHANGED <<m_, pc, new_socket_fd>>
    BY <1>10 DEF DelSocket, Handled, MarkClosed
  <2>3. \A k \in Listeners : \A d \in batch'[k] : d.socket # f
    <3>. SUFFICES ASSUME NEW k \in Listeners, NEW d \in batch'[k], d.socket = f
                  PROVE  FALSE
      OBVIOUS
    <3>1. d \in batch[k]
      BY <2>2
    <3>a. watch[f] = {k}
      BY <3>1, <2>1 DEF Sockets, BatchIsCurrent
    <3>2. k = l
      BY <3>a, <2>1
    <3>3. d # e
      BY <2>2, <3>2
    <3>. QED
      BY <3>1, <3>2, <3>3 DEF Sockets, OneEvent
  <2>. HIDE DEF f
  <2>4. \A g \in Fds : g # f =>
          watch'[g] = watch[g] /\ conn'[g] = conn[g]
          /\ socket_vec_'[g] = socket_vec_[g]
    BY <2>2
  <2>5. watch'[f] = {} /\ conn'[f] = NoConn /\ socket_vec_'[f] = "Closed"
    BY <2>1, <2>2
  <2>6. \A k \in Listeners : pc[k] = "add" => new_socket_fd[k] # f
    BY <2>1 DEF Sockets, Fresh
  <2>7. TableMatchesKernel'
    BY <2>2, <2>4, <2>5, <2>6 DEF Sockets, TableMatchesKernel
  <2>8. BatchIsCurrent'
    <3>. SUFFICES ASSUME NEW k \in Listeners, NEW d \in batch'[k],
                         d.socket # Master
                  PROVE  conn'[d.socket] = d.of /\ watch'[d.socket] = {k}
      BY DEF BatchIsCurrent
    <3>0. d \in batch[k]
      BY <2>2
    <3>1. conn[d.socket] = d.of /\ watch[d.socket] = {k} /\ d \in Events
      BY <3>0 DEF Sockets, BatchIsCurrent
    <3>2. d.socket \in Fds /\ d.socket # f
      BY <3>1, <2>3 DEF Events
    <3>. QED
      BY <3>1, <3>2, <2>4
  <2>9. OneEvent'
    BY <2>2 DEF Sockets, OneEvent
  <2>10. OneWatcher'
    <3>1. \A g \in Fds : watch'[g] # {} => conn'[g] # NoConn
      BY <2>4, <2>5 DEF Sockets, OneWatcher
    <3>2. \A g \in Fds : \A k \in watch'[g] : watch'[g] = {k}
      BY <2>4, <2>5 DEF Sockets, OneWatcher
    <3>3. \A k \in Listeners : \A g \in ready'[k] : g \in ready[k] /\ g # f
      BY <2>2
    <3>4. \A k \in Listeners : \A g \in ready'[k] : g \in Fds => watch'[g] = {k}
      BY <2>4, <3>3 DEF Sockets, OneWatcher
    <3>. QED
      BY <3>1, <3>2, <3>4 DEF OneWatcher
  <2>11. Fresh'
    BY <2>2, <2>4, <2>6 DEF Sockets, Fresh
  <2>. QED
    BY <2>7, <2>8, <2>9, <2>10, <2>11 DEF Sockets
<1>11. ASSUME NEW l \in Listeners, NEW e \in batch[l], StartRequest(l, e)
       PROVE  Sockets'
  BY <1>11, SocketsHandled DEF StartRequest, kernel
<1>12. ASSUME NEW l \in Listeners, AddSocket(l) PROVE Sockets'
  <2>1. PICK f \in Fds : f = new_socket_fd[l]
    BY <1>12 DEF AddSocket
  <2>2. /\ watch[f] = {} /\ conn[f] # NoConn /\ socket_vec_[f] = "Closed"
        /\ \A k \in Listeners \ {l} : pc[k] = "add" => new_socket_fd[k] # f
    BY <1>12, <2>1 DEF AddSocket, Sockets, Fresh, TableMatchesKernel
  <2>3. /\ watch' = [watch EXCEPT ![f] = {l}]
        /\ ready' = [ready EXCEPT ![l] =
                       @ \cup IF Mask(f) # "none" THEN {f} ELSE {}]
        /\ socket_vec_' = [socket_vec_ EXCEPT ![f] = "Open"]
        /\ new_socket_fd' = [new_socket_fd EXCEPT ![l] = NoFd]
        /\ pc' = [pc EXCEPT ![l] = "loop"]
        /\ UNCHANGED <<conn, m_, batch>>
    BY <1>12, <2>1, <2>2 DEF AddSocket, RegisterSocket
  <2>4. \A g \in Fds : g # f =>
          watch'[g] = watch[g] /\ socket_vec_'[g] = socket_vec_[g]
    BY <2>3
  <2>5. watch'[f] = {l} /\ socket_vec_'[f] = "Open" /\ pc'[l] = "loop"
    BY <2>3
  <2>6. \A k \in Listeners \ {l} :
          /\ pc'[k] = pc[k] /\ new_socket_fd'[k] = new_socket_fd[k]
          /\ ready'[k] = ready[k]
    BY <2>3
  <2>7. ready'[l] \subseteq ready[l] \cup {f}
    BY <2>3
  <2>8. TableMatchesKernel'
    BY <2>2, <2>3, <2>4, <2>5, <2>6 DEF Sockets, TableMatchesKernel
  <2>9. BatchIsCurrent' /\ OneEvent'
    <3>. SUFFICES ASSUME NEW k \in Listeners, NEW d \in batch'[k],
                         d.socket # Master
                  PROVE  conn'[d.socket] = d.of /\ watch'[d.socket] = {k}
      BY <2>3 DEF BatchIsCurrent, OneEvent, Sockets
    <3>1. conn[d.socket] = d.of /\ watch[d.socket] = {k} /\ d \in Events
      BY <2>3 DEF Sockets, BatchIsCurrent
    <3>2. d.socket \in Fds /\ d.socket # f
      BY <3>1, <2>2 DEF Events
    <3>. QED
      BY <3>1, <3>2, <2>3, <2>4
  <2>10. OneWatcher'
    <3>1. \A g \in Fds : watch'[g] # {} => conn'[g] # NoConn
      BY <2>2, <2>3, <2>4 DEF Sockets, OneWatcher
    <3>2. \A g \in Fds : \A k \in watch'[g] : watch'[g] = {k}
      BY <2>4, <2>5 DEF Sockets, OneWatcher
    <3>a. \A k \in Listeners : \A g \in ready[k] : g \in Fds => k \in watch[g]
      BY DEF Sockets, OneWatcher
    <3>3. \A k \in Listeners : \A g \in ready[k] : g \in Fds => g # f
      <4>. SUFFICES ASSUME NEW k \in Listeners, NEW g \in ready[k], g \in Fds,
                           g = f
                    PROVE  FALSE
        OBVIOUS
      <4>1. k \in watch[g]
        BY <3>a
      <4>. QED
        BY <4>1, <2>2
    <3>b. \A k \in Listeners : \A g \in ready[k] : g \in Fds => watch'[g] = {k}
      <4>1. \A k \in Listeners : \A g \in ready[k] : g \in Fds => watch[g] = {k}
        BY DEF Sockets, OneWatcher
      <4>2. \A k \in Listeners : \A g \in ready[k] :
              g \in Fds => watch'[g] = watch[g]
        BY <2>4, <3>3
      <4>. QED
        BY <4>1, <4>2
    <3>c. \A k \in Listeners : \A g \in ready'[k] :
            g \in ready[k] \/ (g = f /\ k = l)
      BY <2>6, <2>7
    <3>4. \A k \in Listeners : \A g \in ready'[k] : g \in Fds => watch'[g] = {k}
      BY <2>5, <3>b, <3>c
    <3>. QED
      BY <3>1, <3>2, <3>4 DEF OneWatcher
  <2>11. Fresh'
    BY <2>2, <2>3, <2>4, <2>5, <2>6 DEF Sockets, Fresh
  <2>. QED
    BY <2>8, <2>9, <2>10, <2>11 DEF Sockets
<1>13. ASSUME NEW i \in DOMAIN reqs, RequestStep(i) PROVE Sockets'
  BY <1>13, <1>0 DEF RequestStep, BeginRead, ReadSome, ReadEnds, AnswerFile,
                     Answer, kernel
<1>14. CASE UNCHANGED vars
  BY <1>14, <1>0 DEF vars, kernel
<1>. QED
  BY <1>1, <1>2, <1>3, <1>4, <1>5, <1>6, <1>7, <1>8, <1>9, <1>10, <1>11,
     <1>12, <1>13, <1>14
     DEF Next, PeerStep, ListenerStep, HandleEvent

(* The table and the kernel agree, and addSocket never throws. *)
THEOREM TableAgrees == Spec => []TableMatchesKernel
<1>1. Sockets => TableMatchesKernel
  BY DEF Sockets
<1>. QED
  BY <1>1, TypesInit, TypesNext, SocketsInit, SocketsNext, PTL DEF Spec

(* A listener acts on the connection an event was reported for. *)
THEOREM EventsAreCurrent == Spec => []BatchIsCurrent
<1>1. Sockets => BatchIsCurrent
  BY DEF Sockets
<1>. QED
  BY <1>1, TypesInit, TypesNext, SocketsInit, SocketsNext, PTL DEF Spec

-------------------------------------------------------------------------------
(* Answers. *)

(* Inductive: while a request is alone, its closure still holds the         *)
(* descriptor it was given, which still is the connection of its event.     *)
LoneIn(r, pc_, closure_, conn_) ==
  r.lone =>
    /\ r \in ActiveRequests
    /\ pc_[r.by] # "dead" /\ closure_[r.by] = r.fd
    /\ r.home \in Conns /\ conn_[r.fd] = r.home
    /\ r.from \subseteq {r.home}
    /\ r.at = "read" => r.rfd = r.fd

LoneRequest(r) == LoneIn(r, pc, closure, conn)

LoneAfter(r) == LoneIn(r, pc', closure', conn')

Lone == LoneAnswersGoHome /\ \A i \in DOMAIN reqs : LoneRequest(reqs[i])

LEMMA LoneKept ==
  ASSUME Types, Lone, UNCHANGED <<conn, closure, reqs, answered>>,
         \A l \in Listeners : pc[l] # "dead" => pc'[l] # "dead"
  PROVE  Lone'
<1>1. \A i \in DOMAIN reqs' : LoneRequest(reqs[i])'
  BY DEF Lone, LoneRequest, LoneIn, ActiveRequests
<1>. QED
  BY <1>1 DEF Lone, LoneAnswersGoHome

LEMMA LoneAfterDeath ==
  ASSUME Types, Lone, NEW l \in Listeners, Die(l), UNCHANGED conn
  PROVE  Lone'
<1>1. \A k \in Listeners \ {l} : pc'[k] = pc[k]
  BY DEF Die, Types, TypeOK
<1>2. UNCHANGED <<closure, answered>> /\ DOMAIN reqs' = DOMAIN reqs
  BY DEF Die
<1>3. ASSUME NEW i \in DOMAIN reqs PROVE LoneAfter(reqs'[i])
  <2>1. CASE reqs[i].by = l
    <3>1. reqs'[i] = [reqs[i] EXCEPT !.lone = FALSE]
      BY <1>3, <2>1 DEF Die
    <3>2. reqs[i] \in Requests
      BY <1>3, ElementOfSeq, LenProperties DEF Types, TypeOK
    <3>3. reqs'[i].lone = FALSE
      BY <3>1, <3>2 DEF Requests, ActiveRequests, Finished
    <3>. QED
      BY <3>3 DEF LoneRequest, LoneAfter, LoneIn
  <2>2. CASE reqs[i].by # l
    <3>1. reqs'[i] = reqs[i]
      BY <1>3, <2>2 DEF Die
    <3>. QED
      BY <3>1, <2>2, <1>1, <1>2 DEF Lone, LoneRequest, LoneAfter, LoneIn, ActiveRequests
  <2>. QED
    BY <2>1, <2>2
<1>. QED
  BY <1>2, <1>3 DEF Lone, LoneAnswersGoHome, LoneRequest, LoneAfter

(* A coroutine takes a step of its own. *)
LEMMA LoneStep ==
  ASSUME Types, Lone, NEW i \in DOMAIN reqs, NEW r,
         reqs' = [reqs EXCEPT ![i] = r], UNCHANGED <<conn, pc, closure>>,
         LoneRequest(r), LoneAnswersGoHome'
  PROVE  Lone'
<1>1. DOMAIN reqs' = DOMAIN reqs
  OBVIOUS
<1>2. ASSUME NEW j \in DOMAIN reqs PROVE LoneAfter(reqs'[j])
  <2>1. LoneRequest(reqs'[j])
    BY <1>2 DEF Lone
  <2>. QED
    BY <2>1 DEF LoneRequest, LoneAfter, LoneIn
<1>. QED
  BY <1>1, <1>2 DEF Lone, LoneRequest, LoneAfter

(* What a request that is alone writes, it writes to where it came from.    *)
LEMMA LoneWrites ==
  ASSUME Types, Lone, NEW i \in DOMAIN reqs, reqs[i].at # "done",
         NEW f \in SocketI(reqs[i]), NEW part, Written(reqs[i], Peer(f), part)
  PROVE  LoneAnswersGoHome'
<1>. DEFINE a == [to |-> Peer(f), home |-> reqs[i].home, from |-> reqs[i].from,
                  part |-> part, lone |-> reqs[i].lone]
<1>1. answered' \subseteq answered \cup {a}
  BY DEF Written
<1>2. a.lone => a.to = a.home /\ a.from \subseteq {a.home}
  <2>. SUFFICES ASSUME reqs[i].lone
                PROVE  Peer(f) = reqs[i].home /\ reqs[i].from \subseteq {reqs[i].home}
    OBVIOUS
  <2>1. LoneRequest(reqs[i])
    BY DEF Lone
  <2>2. f = reqs[i].fd /\ f \in Fds
    BY <2>1 DEF LoneRequest, LoneIn, SocketI, ActiveRequests
  <2>. QED
    BY <2>1, <2>2 DEF LoneRequest, LoneIn, Peer
<1>. HIDE DEF a
<1>. QED
  BY <1>1, <1>2 DEF Lone, LoneAnswersGoHome

LEMMA LoneNext == Types /\ Sockets /\ Lone /\ [Next]_vars => Lone'
<1>. SUFFICES ASSUME Types, Sockets, Lone, [Next]_vars PROVE Lone'
  OBVIOUS
<1>. USE DEF Types, TypeOK
<1>0. (UNCHANGED <<conn, closure, reqs, answered, pc>>) => Lone'
  BY LoneKept
<1>1. ASSUME NEW c \in Conns, Connect(c) \/ Send(c) \/ HangUp(c) PROVE Lone'
  BY <1>1, <1>0 DEF Connect, Send, HangUp, listener
<1>4. ASSUME NEW l \in Listeners, Start(l) PROVE Lone'
  <2>1. \A k \in Listeners : pc[k] # "dead" => pc'[k] # "dead"
    BY <1>4 DEF Start
  <2>. QED
    BY <1>4, <2>1, LoneKept DEF Start, kernel
<1>5. ASSUME NEW l \in Listeners, Wait(l) PROVE Lone'
  BY <1>5, <1>0 DEF Wait
<1>6. ASSUME NEW l \in Listeners, WaitFails(l) PROVE Lone'
  BY <1>6, LoneAfterDeath DEF WaitFails, kernel
<1>7. ASSUME NEW l \in Listeners, NEW e \in batch[l], AcceptNothing(l, e)
      PROVE  Lone'
  BY <1>7, <1>0 DEF AcceptNothing, kernel
<1>8. ASSUME NEW l \in Listeners, NEW e \in batch[l], Accept(l, e)
      PROVE  Lone'
  <2>1. PICK f \in Fds : conn[f] = NoConn /\ conn' = [conn EXCEPT ![f] = Head(backlog)]
    BY <1>8 DEF Accept
  <2>2. \A k \in Listeners : pc[k] # "dead" => pc'[k] # "dead"
    BY <1>8 DEF Accept
  <2>3. UNCHANGED <<closure, reqs, answered>>
    BY <1>8 DEF Accept
  <2>4. ASSUME NEW i \in DOMAIN reqs PROVE LoneAfter(reqs'[i])
    <3>. SUFFICES ASSUME reqs[i].lone PROVE LoneAfter(reqs'[i])
      BY <2>3 DEF LoneRequest, LoneAfter, LoneIn
    <3>1. LoneRequest(reqs[i])
      BY <2>4 DEF Lone
    <3>2. reqs[i].fd \in Fds /\ reqs[i].by \in Listeners /\ reqs[i].fd # f
      BY <3>1, <2>1 DEF LoneRequest, LoneIn, ActiveRequests
    <3>3. conn'[reqs[i].fd] = conn[reqs[i].fd]
      BY <3>2, <2>1
    <3>. QED
      BY <3>1, <3>2, <3>3, <2>2, <2>3 DEF LoneRequest, LoneAfter, LoneIn
  <2>. QED
    BY <2>3, <2>4 DEF Lone, LoneAnswersGoHome, LoneRequest, LoneAfter
<1>9. ASSUME NEW l \in Listeners, NEW e \in batch[l], AcceptFails(l, e)
      PROVE  Lone'
  BY <1>9, LoneAfterDeath DEF AcceptFails, kernel
<1>10. ASSUME NEW l \in Listeners, NEW e \in batch[l], DelSocket(l, e)
       PROVE  Lone'
  <2>1. /\ conn' = [conn EXCEPT ![e.socket] = NoConn]
        /\ reqs' = [i \in DOMAIN reqs |->
                      IF reqs[i].fd = e.socket
                        THEN [reqs[i] EXCEPT !.lone = FALSE] ELSE reqs[i]]
        /\ UNCHANGED <<pc, closure, answered>>
    BY <1>10 DEF DelSocket
  <2>2. DOMAIN reqs' = DOMAIN reqs
    BY <2>1
  <2>3. ASSUME NEW i \in DOMAIN reqs PROVE LoneAfter(reqs'[i])
    <3>1. CASE reqs[i].fd = e.socket
      <4>1. reqs'[i] = [reqs[i] EXCEPT !.lone = FALSE]
        BY <2>1, <2>3, <3>1
      <4>2. reqs[i] \in Requests
        BY <2>3, ElementOfSeq, LenProperties
      <4>3. reqs'[i].lone = FALSE
        BY <4>1, <4>2 DEF Requests, ActiveRequests, Finished
      <4>. QED
        BY <4>3 DEF LoneRequest, LoneAfter, LoneIn
    <3>2. CASE reqs[i].fd # e.socket
      <4>1. reqs'[i] = reqs[i]
        BY <2>1, <2>3, <3>2
      <4>2. reqs[i].fd \in Fds => conn'[reqs[i].fd] = conn[reqs[i].fd]
        BY <2>1, <3>2
      <4>. QED
        BY <4>1, <4>2, <2>1 DEF Lone, LoneRequest, LoneAfter, LoneIn, ActiveRequests
    <3>. QED
      BY <3>1, <3>2
  <2>. QED
    BY <2>1, <2>2, <2>3 DEF Lone, LoneAnswersGoHome, LoneRequest, LoneAfter
<1>11. ASSUME NEW l \in Listeners, NEW e \in batch[l], StartRequest(l, e)
       PROVE  Lone'
  <2>. DEFINE g == [i \in DOMAIN reqs |->
                      IF reqs[i].by = l THEN [reqs[i] EXCEPT !.lone = FALSE]
                                        ELSE reqs[i]]
              r == Request(l, e.socket)
  <2>1. /\ reqs' = Append(g, r)
        /\ closure' = [closure EXCEPT ![l] = e.socket]
        /\ pc[l] = "loop" /\ UNCHANGED <<pc, answered, conn>>
        /\ e.socket \in Fds /\ e.socket # Master
    BY <1>11 DEF StartRequest, Handled, kernel
  <2>2. \A i \in DOMAIN reqs : reqs[i] \in Requests
    BY ElementOfSeq, LenProperties
  <2>3. g \in Seq(Requests) /\ DOMAIN g = DOMAIN reqs /\ Len(g) = Len(reqs)
    <3>1. g \in [DOMAIN reqs -> Requests]
      BY <2>2, LosesLone
    <3>2. g \in Seq(Requests)
      BY <3>1, MapReqs
    <3>. QED
      BY <3>2, LenProperties
  <2>4. conn[e.socket] \in Conns
    <3>1. watch[e.socket] = {l}
      BY <2>1 DEF Sockets, BatchIsCurrent
    <3>2. conn[e.socket] # NoConn
      BY <2>1, <3>1 DEF Sockets, OneWatcher
    <3>. QED
      BY <2>1, <3>2
  <2>5. r \in ActiveRequests
    BY <2>1, <2>4 DEF Request, ActiveRequests
  <2>6. LoneAfter(r)
    BY <2>1, <2>4, <2>5 DEF LoneRequest, LoneAfter, LoneIn, Request
  <2>7. ASSUME NEW i \in DOMAIN reqs PROVE LoneAfter(g[i])
    <3>1. CASE reqs[i].by = l
      <4>1. g[i] = [reqs[i] EXCEPT !.lone = FALSE]
        BY <2>7, <3>1
      <4>2. g[i].lone = FALSE
        BY <4>1, <2>2, <2>7 DEF Requests, ActiveRequests, Finished
      <4>. QED
        BY <4>2 DEF LoneRequest, LoneAfter, LoneIn
    <3>2. CASE reqs[i].by # l
      <4>1. g[i] = reqs[i]
        BY <2>7, <3>2
      <4>2. reqs[i].by \in Listeners => closure'[reqs[i].by] = closure[reqs[i].by]
        BY <2>1, <3>2
      <4>. HIDE DEF g
      <4>. QED
        BY <4>1, <4>2, <2>1, <2>7 DEF Lone, LoneRequest, LoneAfter, LoneIn, ActiveRequests
    <3>. QED
      BY <3>1, <3>2
  <2>. HIDE DEF g, r
  <2>8. r \in Requests
    BY <2>5 DEF Requests
  <2>9. \A i \in DOMAIN reqs' : LoneAfter(reqs'[i])
    <3>. SUFFICES ASSUME NEW i \in DOMAIN reqs' PROVE LoneAfter(reqs'[i])
      OBVIOUS
    <3>1. i \in 1..(Len(g) + 1)
      BY <2>1, <2>3, <2>8, AppendProperties, LenProperties
    <3>2. CASE i = Len(g) + 1
      <4>1. reqs'[i] = r
        BY <2>1, <2>3, <2>8, <3>2, AppendProperties
      <4>. QED
        BY <4>1, <2>6
    <3>3. CASE i \in 1..Len(g)
      <4>1. reqs'[i] = g[i] /\ i \in DOMAIN reqs
        BY <2>1, <2>3, <2>8, <3>3, AppendProperties, LenProperties
      <4>. QED
        BY <4>1, <2>7
    <3>. QED
      BY <3>1, <3>2, <3>3, <2>3, LenProperties DEF LoneAfter
  <2>. QED
    BY <2>1, <2>9 DEF Lone, LoneAnswersGoHome, LoneRequest, LoneAfter
<1>12. ASSUME NEW l \in Listeners, AddSocket(l) PROVE Lone'
  <2>1. CASE socket_vec_[new_socket_fd[l]] = "Closed"
    <3>1. UNCHANGED <<conn, closure, reqs, answered>> /\ pc' = [pc EXCEPT ![l] = "loop"]
      BY <1>12, <2>1 DEF AddSocket
    <3>2. \A k \in Listeners : pc[k] # "dead" => pc'[k] # "dead"
      BY <3>1
    <3>. QED
      BY <3>1, <3>2, LoneKept
  <2>2. CASE socket_vec_[new_socket_fd[l]] # "Closed"
    BY <1>12, <2>2, LoneAfterDeath DEF AddSocket
  <2>. QED
    BY <2>1, <2>2
<1>13. ASSUME NEW i \in DOMAIN reqs, RequestStep(i) PROVE Lone'
  <2>0. LoneRequest(reqs[i]) /\ reqs[i] \in Requests
    BY <1>13, ElementOfSeq, LenProperties DEF Lone
  <2>a. (UNCHANGED answered) => LoneAnswersGoHome'
    BY DEF Lone, LoneAnswersGoHome
  <2>b. ASSUME reqs[i].at # "done" PROVE reqs[i] \in ActiveRequests
    BY <2>0, <2>b DEF Requests, Finished
  <2>1. CASE BeginRead(i)
    <3>1. PICK f \in SocketI(reqs[i]) :
            reqs' = [reqs EXCEPT ![i] = [@ EXCEPT !.at = "read", !.rfd = f]]
      BY <2>1 DEF BeginRead
    <3>. DEFINE r == [reqs[i] EXCEPT !.at = "read", !.rfd = f]
    <3>2. reqs[i] \in ActiveRequests
      BY <2>1, <2>b DEF BeginRead
    <3>3. f \in Fds \cup {NoFd}
      BY <3>2 DEF SocketI, ActiveRequests
    <3>4. r \in ActiveRequests
      BY <3>2, <3>3 DEF ActiveRequests
    <3>5. reqs[i].lone => f = reqs[i].fd
      BY <2>0 DEF LoneRequest, LoneIn, SocketI
    <3>6. LoneRequest(r)
      BY <2>0, <3>2, <3>4, <3>5 DEF LoneRequest, LoneIn, ActiveRequests
    <3>7. reqs' = [reqs EXCEPT ![i] = r]
      BY <3>1
    <3>. HIDE DEF r
    <3>. QED
      BY <2>1, <3>6, <3>7, <2>a, LoneStep DEF BeginRead, kernel, listener
  <2>2. CASE ReadSome(i)
    <3>. DEFINE c == Peer(reqs[i].rfd)
                r == [reqs[i] EXCEPT !.from = reqs[i].from \cup {c}]
    <3>1. reqs[i] \in ActiveRequests /\ reqs[i].at = "read"
      BY <2>2, <2>b DEF ReadSome
    <3>2. c \in Conns
      BY <2>2, <3>1 DEF ReadSome, Peer, ActiveRequests
    <3>3. reqs' = [reqs EXCEPT ![i] = r]
      BY <2>2 DEF ReadSome
    <3>4. reqs[i].lone => c = reqs[i].home
      BY <2>0, <3>1 DEF LoneRequest, LoneIn, Peer, ActiveRequests
    <3>5. UNCHANGED <<conn, pc, closure, answered>>
      BY <2>2 DEF ReadSome, listener
    <3>. HIDE DEF c
    <3>6. r \in ActiveRequests
      BY <3>1, <3>2 DEF ActiveRequests
    <3>7. LoneRequest(r)
      BY <2>0, <3>1, <3>4, <3>6 DEF LoneRequest, LoneIn, ActiveRequests
    <3>. HIDE DEF r
    <3>. QED
      BY <3>3, <3>5, <3>7, <2>a, LoneStep
  <2>3. CASE ReadEnds(i)
    <3>. DEFINE r == [reqs[i] EXCEPT !.at = "answer", !.rfd = NoFd]
    <3>1. reqs[i] \in ActiveRequests
      BY <2>3, <2>b DEF ReadEnds
    <3>2. r \in ActiveRequests
      BY <3>1 DEF ActiveRequests
    <3>3. LoneRequest(r)
      BY <2>0, <3>1, <3>2 DEF LoneRequest, LoneIn, ActiveRequests
    <3>4. reqs' = [reqs EXCEPT ![i] = r] /\ UNCHANGED <<kernel, listener, answered>>
      BY <2>3 DEF ReadEnds
    <3>. HIDE DEF r
    <3>. QED
      BY <3>3, <3>4, <2>a, LoneStep DEF kernel, listener
  <2>4. CASE AnswerFile(i)
    <3>1. LoneAnswersGoHome'
      BY <2>4, LoneWrites DEF AnswerFile
    <3>2. LoneRequest(Finished)
      BY DEF LoneRequest, LoneIn, Finished
    <3>3. reqs' = [reqs EXCEPT ![i] = Finished] /\ UNCHANGED <<conn, pc, closure>>
      BY <2>4 DEF AnswerFile, kernel, listener
    <3>. QED
      BY <3>1, <3>2, <3>3, LoneStep
  <2>5. CASE \E hasFile \in BOOLEAN : Answer(i, hasFile)
    <3>1. PICK hasFile \in BOOLEAN : Answer(i, hasFile)
      BY <2>5
    <3>. DEFINE r == IF hasFile THEN [reqs[i] EXCEPT !.at = "file"] ELSE Finished
    <3>2. LoneAnswersGoHome'
      BY <3>1, LoneWrites DEF Answer
    <3>3. reqs[i] \in ActiveRequests
      BY <3>1, <2>b DEF Answer
    <3>4. [reqs[i] EXCEPT !.at = "file"] \in ActiveRequests
      BY <3>3 DEF ActiveRequests
    <3>5. LoneRequest([reqs[i] EXCEPT !.at = "file"]) /\ LoneRequest(Finished)
      BY <2>0, <3>3, <3>4 DEF LoneRequest, LoneIn, ActiveRequests, Finished
    <3>6. LoneRequest(r)
      BY <3>5
    <3>7. reqs' = [reqs EXCEPT ![i] = r] /\ UNCHANGED <<conn, pc, closure>>
      BY <3>1 DEF Answer, kernel, listener
    <3>. HIDE DEF r
    <3>. QED
      BY <3>2, <3>6, <3>7, LoneStep
  <2>. QED
    BY <1>13, <2>1, <2>2, <2>3, <2>4, <2>5 DEF RequestStep
<1>14. CASE UNCHANGED vars
  BY <1>14, <1>0 DEF vars, kernel, listener
<1>. QED
  BY <1>1, <1>4, <1>5, <1>6, <1>7, <1>8, <1>9, <1>10, <1>11, <1>12, <1>13, <1>14
     DEF Next, PeerStep, ListenerStep, HandleEvent

(* A request whose listener starts no other, and whose socket stays open,   *)
(* is answered where it came from, whatever else goes on.                   *)
THEOREM AnswersOfLoneRequests == Spec => []LoneAnswersGoHome
<1>1. Init => Lone
  BY DEF Init, Lone, LoneAnswersGoHome
<1>2. Lone => LoneAnswersGoHome
  BY DEF Lone
<1>. QED
  BY <1>1, <1>2, TypesInit, TypesNext, SocketsInit, SocketsNext, LoneNext, PTL
     DEF Spec

===============================================================================
