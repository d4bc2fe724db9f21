------------------------------- MODULE MCQueue -------------------------------
(****************************************************************************)
(* MultiThreadQueue for TLC.  One thread only pushes, one only pulls and    *)
(* one does both, as the scheduler's workers do.                            *)
(****************************************************************************)
EXTENDS MultiThreadQueue

CONSTANTS main, w1, w2

SomeProducers == {main, w1}
SomeConsumers == {w1, w2}
==============================================================================
