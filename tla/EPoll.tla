--------------------------------- MODULE EPoll ---------------------------------
(****************************************************************************)
(* src/src/EPoll.cpp: listener coroutines that share a listening socket and *)
(* a table of sockets, and the request coroutines they start.               *)
(*                                                                          *)
(* Every listener has an epoll instance of its own, in which the listening  *)
(* socket is registered edge-triggered.  A connection is registered, also   *)
(* edge-triggered, in the instance of the listener that accepted it.  The   *)
(* kernel (descriptors, epoll instances, the accept queue) and the peers    *)
(* are part of the model, as far as the listeners can see them.             *)
(****************************************************************************)
EXTENDS Naturals, Sequences, FiniteSets

CONSTANTS
  Listeners,    \* the EPoll objects of a server, each waiting in one thread
  Conns,        \* connections peers open
  Fds,          \* descriptors the process may have for connections
  Master,       \* master_socket_fd_
  Backlog,      \* length of the accept queue: listen(fd, 3) allows 4
  MaxSends,     \* messages a peer sends on a connection
  MaxEvents,    \* events epoll_wait returns at most, 20 in the code
  NoConn, NoFd, NoListener

ASSUME EPollAssumption ==
  /\ IsFiniteSet(Listeners)
  /\ Backlog \in Nat \ {0} /\ MaxSends \in Nat /\ MaxEvents \in Nat \ {0}
  /\ Master \notin Fds /\ NoFd \notin Fds /\ NoFd # Master
  /\ NoConn \notin Conns /\ NoListener \notin Listeners

VARIABLES
  backlog,      \* kernel: connections nobody has accepted yet
  peer,         \* peers: "new", "open" or "hung" (EPOLLRDHUP is due)
  sent, unread, \* peers: messages sent on a connection, and not yet read
  conn,         \* kernel: the connection behind each descriptor
  watch,        \* kernel: the epoll instances a descriptor is registered in
  ready,        \* kernel: the ready list of each listener's epoll instance
  socket_vec_,  \* the shared table: is the socket Open?
  m_,           \* who holds the shared mutex across steps, if anybody
  pc,           \* where each listener is
  batch,        \* the events of revents a listener has still to look at
  new_socket_fd,\* what accept returned to each listener
  closure,      \* the memory of each listener's last closure: its socket_i
  reqs,         \* the request coroutines, in the order they were started
  answered      \* history: what was written to which connection

kernel == <<backlog, peer, sent, unread, conn, watch, ready>>
listener == <<socket_vec_, m_, pc, batch, new_socket_fd, closure>>
vars == <<kernel, listener, reqs, answered>>

-------------------------------------------------------------------------------
(* What the kernel reports. *)

(* The events of socket s for which an epoll instance is asked, if any: a   *)
(* hang-up also makes the socket readable, but the code tests it first.     *)
Mask(s) ==
  IF s = Master THEN IF backlog = <<>> THEN "none" ELSE "in"
  ELSE IF peer[conn[s]] = "hung" THEN "hup"
  ELSE IF unread[conn[s]] > 0 THEN "in" ELSE "none"

Event(s) == [socket |-> s, mask |-> Mask(s),
             of |-> IF s = Master THEN NoConn ELSE conn[s]]

AcceptEvent == [socket |-> Master, mask |-> "in", of |-> NoConn]

(* An edge on connection c: every instance that watches its descriptor has  *)
(* it on its ready list.                                                    *)
Edge(c) ==
  ready' = [l \in Listeners |->
              ready[l] \cup {f \in Fds : conn[f] = c /\ l \in watch[f]}]

PC == {"start", "loop", "add", "dead"}
Alive == {l \in Listeners : pc[l] # "dead"}

(* A request coroutine: the listener that started it, the connection its    *)
(* event was about, the descriptor its closure was given, the one it reads, *)
(* the connections its text came from; lone: history, nothing happened that *)
(* changes what the closure's socket_i means.                               *)
Request(l, f) ==
  [by |-> l, home |-> conn[f], fd |-> f, rfd |-> NoFd, from |-> {},
   at |-> "queued", lone |-> TRUE]

Finished == [by |-> NoListener, home |-> NoConn, fd |-> NoFd, rfd |-> NoFd,
             from |-> {}, at |-> "done", lone |-> FALSE]

Init ==
  /\ backlog = <<>>
  /\ peer = [c \in Conns |-> "new"]
  /\ sent = [c \in Conns |-> 0] /\ unread = [c \in Conns |-> 0]
  /\ conn = [f \in Fds |-> NoConn]
  /\ watch = [f \in Fds |-> {}]
  /\ ready = [l \in Listeners |-> {}]
  /\ socket_vec_ = [f \in Fds |-> "Closed"]
  /\ m_ = NoListener
  /\ pc = [l \in Listeners |-> "start"]
  /\ batch = [l \in Listeners |-> {}]
  /\ new_socket_fd = [l \in Listeners |-> NoFd]
  /\ closure = [l \in Listeners |-> NoFd]
  /\ reqs = <<>>
  /\ answered = {}

-------------------------------------------------------------------------------
(* Peers. *)

(* A new connection is an edge of the listening socket in every instance.   *)
Connect(c) ==
  /\ peer[c] = "new" /\ Len(backlog) < Backlog
  /\ peer' = [peer EXCEPT ![c] = "open"]
  /\ backlog' = Append(backlog, c)
  /\ ready' = [l \in Listeners |-> ready[l] \cup {Master}]
  /\ UNCHANGED <<sent, unread, conn, watch, listener, reqs, answered>>

Send(c) ==
  /\ peer[c] = "open" /\ sent[c] < MaxSends
  /\ sent' = [sent EXCEPT ![c] = @ + 1]
  /\ unread' = [unread EXCEPT ![c] = @ + 1]
  /\ Edge(c)
  /\ UNCHANGED <<backlog, peer, conn, watch, listener, reqs, answered>>

HangUp(c) ==
  /\ peer[c] = "open"
  /\ peer' = [peer EXCEPT ![c] = "hung"]
  /\ Edge(c)
  /\ UNCHANGED <<backlog, sent, unread, conn, watch, listener, reqs, answered>>

-------------------------------------------------------------------------------
(* wait, addSocket and delSocket *)

(* The coroutine reaches its loop: running_ is set under the mutex. *)
Start(l) ==
  /\ pc[l] = "start" /\ m_ = NoListener
  /\ pc' = [pc EXCEPT ![l] = "loop"]
  /\ UNCHANGED <<kernel, socket_vec_, m_, batch, new_socket_fd, closure,
                 reqs, answered>>

(* Mutant: the loop looks at entries of revents that were not filled in. *)
WaitPastCount(l) ==
  /\ pc[l] = "loop" /\ batch[l] = {} /\ ready[l] # {}
  /\ batch' = [batch EXCEPT ![l] = {Event(s) : s \in ready[l]}]
  /\ ready' = [ready EXCEPT ![l] = {}]
  /\ UNCHANGED <<backlog, peer, sent, unread, conn, watch, socket_vec_, m_, pc,
                 new_socket_fd, closure, reqs, answered>>

(* epoll_wait: of the sockets on the ready list those without an event are  *)
(* dropped, up to MaxEvents are reported and the rest stays on the list.    *)
Wait(l) ==
  /\ pc[l] = "loop" /\ batch[l] = {}
  /\ LET live == {s \in ready[l] : Mask(s) # "none"}
     IN  /\ live # {}
         /\ \E taken \in SUBSET live :
              /\ Cardinality(taken) =
                   IF Cardinality(live) < MaxEvents
                     THEN Cardinality(live) ELSE MaxEvents
              /\ batch' = [batch EXCEPT ![l] = {Event(s) : s \in taken}]
              /\ ready' = [ready EXCEPT ![l] = live \ taken]
  /\ UNCHANGED <<backlog, peer, sent, unread, conn, watch, socket_vec_, m_, pc,
                 new_socket_fd, closure, reqs, answered>>

(* An exception leaves the coroutine and ends the listener.  What its       *)
(* closures' memory holds from then on is anybody's guess.                  *)
Die(l) ==
  /\ pc' = [pc EXCEPT ![l] = "dead"]
  /\ batch' = [batch EXCEPT ![l] = {}]
  /\ reqs' = [i \in DOMAIN reqs |->
                IF reqs[i].by = l THEN [reqs[i] EXCEPT !.lone = FALSE]
                                  ELSE reqs[i]]
  /\ UNCHANGED <<new_socket_fd, closure, answered>>

(* A signal interrupts epoll_wait, or it fails otherwise: "epoll_wait       *)
(* failed, retrying".                                                       *)
WaitFails(l) ==
  /\ pc[l] = "loop" /\ batch[l] = {}
  /\ Die(l)
  /\ UNCHANGED <<kernel, socket_vec_, m_>>

(* Mutant: the loop is left after one event. *)
HandledFirst(l, e) ==
  /\ pc[l] = "loop" /\ e \in batch[l]
  /\ batch' = [batch EXCEPT ![l] = {}]

Handled(l, e) ==
  /\ pc[l] = "loop" /\ e \in batch[l]
  /\ batch' = [batch EXCEPT ![l] = @ \ {e}]

(* accept when there is nothing to accept: errno is 11, the loop goes on. *)
AcceptNothing(l, e) ==
  /\ e = AcceptEvent /\ backlog = <<>>
  /\ \E f \in Fds : conn[f] = NoConn
  /\ Handled(l, e)
  /\ UNCHANGED <<kernel, socket_vec_, m_, pc, new_socket_fd, closure, reqs,
                 answered>>

Accept(l, e) ==
  /\ e = AcceptEvent /\ backlog # <<>>
  /\ Handled(l, e)
  /\ pc' = [pc EXCEPT ![l] = "add"]
  /\ \E f \in Fds :
       /\ conn[f] = NoConn
       /\ conn' = [conn EXCEPT ![f] = Head(backlog)]
       /\ new_socket_fd' = [new_socket_fd EXCEPT ![l] = f]
  /\ backlog' = Tail(backlog)
  /\ UNCHANGED <<peer, sent, unread, watch, ready, socket_vec_, m_, closure,
                 reqs, answered>>

(* accept fails because the process has no descriptor left. *)
AcceptFails(l, e) ==
  /\ e = AcceptEvent
  /\ \A f \in Fds : conn[f] # NoConn
  /\ pc[l] = "loop" /\ e \in batch[l]
  /\ Die(l)
  /\ UNCHANGED <<kernel, socket_vec_, m_>>

(* Mutant: one epoll instance watches the sockets of all listeners. *)
RegisterEverywhere(l, f) ==
  /\ watch' = [watch EXCEPT ![f] = Listeners]
  /\ ready' = [k \in Listeners |->
                 ready[k] \cup IF Mask(f) # "none" THEN {f} ELSE {}]

(* EPOLL_CTL_ADD: a socket that already has an event is ready at once. *)
RegisterSocket(l, f) ==
  /\ watch' = [watch EXCEPT ![f] = {l}]
  /\ ready' = [ready EXCEPT ![l] =
                 @ \cup IF Mask(f) # "none" THEN {f} ELSE {}]

(* addSocket under the mutex.  If it throws, the mutex stays locked. *)
AddSocket(l) ==
  LET f == new_socket_fd[l]
  IN  /\ pc[l] = "add" /\ m_ = NoListener
      /\ IF socket_vec_[f] = "Closed"
           THEN /\ RegisterSocket(l, f)
                /\ socket_vec_' = [socket_vec_ EXCEPT ![f] = "Open"]
                /\ new_socket_fd' = [new_socket_fd EXCEPT ![l] = NoFd]
                /\ pc' = [pc EXCEPT ![l] = "loop"]
                /\ UNCHANGED <<m_, batch, closure, reqs, answered>>
           ELSE /\ m_' = l
                /\ Die(l)
                /\ UNCHANGED <<watch, ready, socket_vec_>>
      /\ UNCHANGED <<backlog, peer, sent, unread, conn>>

(* Mutant: the table is not told. *)
ForgetSocket(f) == UNCHANGED socket_vec_

MarkClosed(f) == socket_vec_' = [socket_vec_ EXCEPT ![f] = "Closed"]

(* Mutant: EPOLLIN is tested first, so a hang-up never is. *)
IsHangUpLast(e) == FALSE

IsHangUp(e) == e.mask = "hup"

(* delSocket under the mutex; close takes the descriptor out of every epoll *)
(* instance.                                                                *)
DelSocket(l, e) ==
  /\ e.socket \in Fds /\ IsHangUp(e) /\ m_ = NoListener
  /\ Handled(l, e)
  /\ MarkClosed(e.socket)
  /\ conn' = [conn EXCEPT ![e.socket] = NoConn]
  /\ watch' = [watch EXCEPT ![e.socket] = {}]
  /\ ready' = [k \in Listeners |-> ready[k] \ {e.socket}]
  /\ reqs' = [i \in DOMAIN reqs |->
                IF reqs[i].fd = e.socket THEN [reqs[i] EXCEPT !.lone = FALSE]
                                         ELSE reqs[i]]
  /\ UNCHANGED <<backlog, peer, sent, unread, m_, pc, new_socket_fd, closure,
                 answered>>

(* The closure of the request coroutine is a temporary of the loop's body:  *)
(* the next one is built in the same place.                                 *)
StartRequest(l, e) ==
  /\ e.socket \in Fds /\ ~ IsHangUp(e)
  /\ Handled(l, e)
  /\ closure' = [closure EXCEPT ![l] = e.socket]
  /\ reqs' = Append([i \in DOMAIN reqs |->
                       IF reqs[i].by = l THEN [reqs[i] EXCEPT !.lone = FALSE]
                                         ELSE reqs[i]],
                    Request(l, e.socket))
  /\ UNCHANGED <<kernel, socket_vec_, m_, pc, new_socket_fd, answered>>

-------------------------------------------------------------------------------
(* The request coroutine, on a thread of the pool. *)

(* Mutant: all listeners build their closures in the same place. *)
SharedSocketI(r) == {closure[l] : l \in Listeners} \ {NoFd}

(* The values socket_i can have when the coroutine r uses it: whatever its  *)
(* listener's closure memory holds.                                         *)
SocketI(r) == IF pc[r.by] = "dead" THEN Fds \cup {NoFd} ELSE {closure[r.by]}

(* readSocket is called. *)
BeginRead(i) ==
  /\ reqs[i].at = "queued"
  /\ \E f \in SocketI(reqs[i]) :
       reqs' = [reqs EXCEPT ![i] = [@ EXCEPT !.at = "read", !.rfd = f]]
  /\ UNCHANGED <<kernel, listener, answered>>

Peer(f) == IF f = NoFd THEN NoConn ELSE conn[f]

(* read returns what has arrived. *)
ReadSome(i) ==
  LET c == Peer(reqs[i].rfd)
  IN  /\ reqs[i].at = "read" /\ c # NoConn
      /\ unread[c] > 0
      /\ unread' = [unread EXCEPT ![c] = 0]
      /\ reqs' = [reqs EXCEPT ![i].from = @ \cup {c}]
      /\ UNCHANGED <<backlog, peer, sent, conn, watch, ready, listener, answered>>

(* read returns -1, because nothing has arrived or the descriptor is        *)
(* closed.  At end of file it returns 0 and the loop goes on, to no effect. *)
ReadEnds(i) ==
  LET c == Peer(reqs[i].rfd)
  IN  /\ reqs[i].at = "read"
      /\ c # NoConn => unread[c] = 0 /\ peer[c] # "hung"
      /\ reqs' = [reqs EXCEPT ![i] = [@ EXCEPT !.at = "answer", !.rfd = NoFd]]
      /\ UNCHANGED <<kernel, listener, answered>>

Written(r, c, part) ==
  answered' = answered \cup
    IF c = NoConn THEN {}
    ELSE {[to |-> c, home |-> r.home, from |-> r.from, part |-> part,
           lone |-> r.lone]}

(* handleRequest has been awaited; writeSocket is called.  hasFile: the     *)
(* answer's body is a file.                                                 *)
Answer(i, hasFile) ==
  /\ reqs[i].at = "answer"
  /\ \E f \in SocketI(reqs[i]) : Written(reqs[i], Peer(f), "text")
  /\ reqs' = [reqs EXCEPT ![i] = IF hasFile THEN [@ EXCEPT !.at = "file"]
                                             ELSE Finished]
  /\ UNCHANGED <<kernel, listener>>

(* writeFileSocket is called. *)
AnswerFile(i) ==
  /\ reqs[i].at = "file"
  /\ \E f \in SocketI(reqs[i]) : Written(reqs[i], Peer(f), "file")
  /\ reqs' = [reqs EXCEPT ![i] = Finished]
  /\ UNCHANGED <<kernel, listener>>

-------------------------------------------------------------------------------

PeerStep == \E c \in Conns : Connect(c) \/ Send(c) \/ HangUp(c)

HandleEvent(l) ==
  \E e \in batch[l] :
    \/ AcceptNothing(l, e) \/ Accept(l, e) \/ AcceptFails(l, e)
    \/ DelSocket(l, e) \/ StartRequest(l, e)

ListenerStep(l) == Start(l) \/ Wait(l) \/ HandleEvent(l) \/ AddSocket(l)

RequestStep(i) ==
  \/ BeginRead(i) \/ ReadSome(i) \/ ReadEnds(i) \/ AnswerFile(i)
  \/ \E hasFile \in BOOLEAN : Answer(i, hasFile)

Next ==
  \/ PeerStep
  \/ \E l \in Listeners : ListenerStep(l) \/ WaitFails(l)
  \/ \E i \in DOMAIN reqs : RequestStep(i)

Spec == Init /\ [][Next]_vars

MaxReqs == MaxSends * Cardinality(Conns)

RequestStepOf(i) == i \in DOMAIN reqs /\ RequestStep(i)

(* Listeners and the pool's threads keep running.  Peers need not do        *)
(* anything, and epoll_wait need not fail.                                  *)
FairSpec ==
  /\ Spec
  /\ \A l \in Listeners : WF_vars(ListenerStep(l))
  /\ \A i \in 1..MaxReqs : WF_vars(RequestStepOf(i))

-------------------------------------------------------------------------------
(* Invariants. *)

Events == [socket : Fds \cup {Master}, mask : {"in", "hup"},
           of : Conns \cup {NoConn}]

ActiveRequests ==
  [by : Listeners, home : Conns \cup {NoConn}, fd : Fds, rfd : Fds \cup {NoFd},
   from : SUBSET Conns, at : {"queued", "read", "answer", "file"},
   lone : BOOLEAN]

Requests == ActiveRequests \cup {Finished}

(* The types; the accept queue never holds more than the kernel allows.     *)
TypeOK ==
  /\ backlog \in Seq(Conns) /\ Len(backlog) <= Backlog
  /\ peer \in [Conns -> {"new", "open", "hung"}]
  /\ sent \in [Conns -> 0..MaxSends] /\ unread \in [Conns -> 0..MaxSends]
  /\ conn \in [Fds -> Conns \cup {NoConn}]
  /\ watch \in [Fds -> SUBSET Listeners]
  /\ ready \in [Listeners -> SUBSET (Fds \cup {Master})]
  /\ socket_vec_ \in [Fds -> {"Open", "Closed"}]
  /\ m_ \in Listeners \cup {NoListener}
  /\ pc \in [Listeners -> PC]
  /\ batch \in [Listeners -> SUBSET Events]
  /\ new_socket_fd \in [Listeners -> Fds \cup {NoFd}]
  /\ closure \in [Listeners -> Fds \cup {NoFd}]
  /\ reqs \in Seq(Requests)

(* A listener that is going to call accept, or to be told to. *)
WillAccept ==
  {l \in Alive : Master \in ready[l] \/ AcceptEvent \in batch[l]}

(* Every connection of the accept queue has a listener that will call       *)
(* accept for it, as long as there are as many listeners as places in the   *)
(* queue: an edge leads to one call of accept in each listener, and only    *)
(* the next connection gives another.                                       *)
BacklogIsWatched ==
  Cardinality(Alive) >= Backlog => Len(backlog) <= Cardinality(WillAccept)

(* The table agrees with the kernel, although descriptors are closed and    *)
(* reused by several listeners: a socket is Open in it if and only if it is *)
(* registered in an epoll instance, and no two connections share one;       *)
(* addSocket never finds an entry already in use, so the mutex is never     *)
(* left locked.                                                             *)
TableMatchesKernel ==
  /\ m_ = NoListener
  /\ \A f \in Fds : socket_vec_[f] = "Open" <=> watch[f] # {}
  /\ \A l \in Listeners :
       pc[l] = "add" => socket_vec_[new_socket_fd[l]] = "Closed"

(* An event is about the connection it was reported for until the listener  *)
(* has dealt with it: no other listener closes or reuses the descriptor in  *)
(* between, so delSocket closes no stranger's connection.                   *)
BatchIsCurrent ==
  \A l \in Listeners : \A e \in batch[l] :
    e.socket # Master => conn[e.socket] = e.of /\ watch[e.socket] = {l}

(* An answer goes to the connection the request came from, and the request  *)
(* was read from there, if meanwhile the listener started no other request  *)
(* and did not close the socket.                                            *)
LoneAnswersGoHome ==
  \A a \in answered : a.lone => a.to = a.home /\ a.from \subseteq {a.home}

(* What a request said is answered on the connection it came from, at least *)
(* as long as no peer has hung up and no listener has died.                 *)
AnswersGoHome ==
  Alive = Listeners /\ (\A c \in Conns : peer[c] # "hung")
    => \A a \in answered : a.from \subseteq {a.to}

-------------------------------------------------------------------------------
(* Liveness. *)

SomebodyDied == Alive # Listeners

(* Every connection in the accept queue is accepted.                        *)
ConnectionsAreAccepted ==
  \A c \in Conns :
    (\E i \in DOMAIN backlog : backlog[i] = c)
      ~> (\A i \in DOMAIN backlog : backlog[i] # c) \/ SomebodyDied

(* A socket whose peer has hung up is closed.                               *)
HungUpIsClosed ==
  \A f \in Fds : \A c \in Conns :
    (conn[f] = c /\ peer[c] = "hung") ~> (conn[f] # c \/ SomebodyDied)

===============================================================================
