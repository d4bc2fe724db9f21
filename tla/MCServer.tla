------------------------------- MODULE MCServer -------------------------------
(****************************************************************************)
(* TCPServer for TLC.                                                       *)
(****************************************************************************)
EXTENDS TCPServer, TLC

(* No action names a listener or a request: for a safety property those of  *)
(* each kind are interchangeable.                                           *)
ServerSymmetry == Permutations(Listeners) \cup Permutations(Requests)
===============================================================================
