----------------------------- MODULE MCScheduler -----------------------------
(****************************************************************************)
(* Scheduler for TLC: a pool of two workers, the handles that coroutines    *)
(* push and one null handle for each worker.                                *)
(****************************************************************************)
EXTENDS Scheduler

CONSTANTS main, sigint, w1, w2, n1, n2, Handles

PoolWorkers == {w1, w2}
PoolProducers == PoolWorkers \cup {main, sigint}
PoolNulls == {n1, n2}
PoolItems == Handles \cup PoolNulls
==============================================================================
