----------------------------- MODULE OneShotEvent -----------------------------
(****************************************************************************)
(* What a Task without co_yield promises to those that co_await it: it ends *)
(* once, and a co_await returns once, not before the end.                   *)
(****************************************************************************)
CONSTANTS
  Coros,     \* the coroutines
  Awaits     \* the pairs <<c, t>> such that c may co_await the Task of t

VARIABLES
  ended,     \* the coroutines that have ended
  await      \* where the co_await of each pair is

vars == <<ended, await>>

Init ==
  /\ ended = {}
  /\ await = [p \in Awaits |-> "to come"]

End(t) ==
  /\ t \notin ended
  /\ ended' = ended \cup {t}
  /\ UNCHANGED await

Begin(p) ==
  /\ await[p] = "to come"
  /\ await' = [await EXCEPT ![p] = "waiting"]
  /\ UNCHANGED ended

Return(p) ==
  /\ await[p] = "waiting" /\ p[2] \in ended
  /\ await' = [await EXCEPT ![p] = "returned"]
  /\ UNCHANGED ended

Next ==
  \/ \E t \in Coros : End(t)
  \/ \E p \in Awaits : Begin(p) \/ Return(p)

Spec == Init /\ [][Next]_vars
==============================================================================
