------------------------------ MODULE FifoQueue ------------------------------
(****************************************************************************)
(* What MultiThreadQueue promises: a first-in first-out queue shared by     *)
(* threads.  A push puts its element behind all the others, a pull hands    *)
(* the oldest element to the thread that called it and never happens on an  *)
(* empty queue.                                                             *)
(****************************************************************************)
EXTENDS Sequences

CONSTANTS
  Threads,   \* the threads that call push and pull
  Items,     \* the elements that are pushed
  NoItem     \* what a thread that has pulled nothing yet holds

VARIABLES
  queue,     \* the elements that were pushed and not yet handed out
  out        \* the element last handed out to each thread

vars == <<queue, out>>

Init ==
  /\ queue = <<>>
  /\ out = [t \in Threads |-> NoItem]

Enqueue(x) ==
  /\ queue' = Append(queue, x)
  /\ UNCHANGED out

Dequeue(t) ==
  /\ queue # <<>>
  /\ queue' = Tail(queue)
  /\ out' = [out EXCEPT ![t] = Head(queue)]

Next ==
  \/ \E x \in Items : Enqueue(x)
  \/ \E t \in Threads : Dequeue(t)

Spec == Init /\ [][Next]_vars
==============================================================================
