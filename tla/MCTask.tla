-------------------------------- MODULE MCTask --------------------------------
(****************************************************************************)
(* Task for TLC: two coroutines await the same Task, and the coroutine of   *)
(* that one awaits a fourth, as the lambda of EPoll::wait awaits            *)
(* handleRequest.                                                           *)
(****************************************************************************)
EXTENDS Task, TLC

CONSTANTS main, w1, w2, asker1, asker2, shared, leaf

TwoWorkers == {w1, w2}
Family == {asker1, asker2, shared, leaf}
FamilyAwaits == {<<asker1, shared>>, <<asker2, shared>>, <<shared, leaf>>}

WorkerSymmetry == Permutations(TwoWorkers)
==============================================================================
