-------------------------------- MODULE MCEPoll --------------------------------
(****************************************************************************)
(* EPoll for TLC.  Connections, descriptors and listeners are               *)
(* interchangeable: no action and no invariant names one.                   *)
(****************************************************************************)
EXTENDS EPoll, TLC

EPollSymmetry ==
  Permutations(Listeners) \cup Permutations(Conns) \cup Permutations(Fds)
================================================================================
