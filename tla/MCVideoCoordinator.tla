------------------------- MODULE MCVideoCoordinator -------------------------
(***************************************************************************)
(* The video stack on a small instance: two or three streams, one request  *)
(* at a time beside any number of timer goroutines, and a bounded number   *)
(* of timers.                                                              *)
(***************************************************************************)
EXTENDS VideoCoordinator, TLC

Symmetry == Permutations(StreamIds) \cup Permutations(Callers)
=============================================================================
