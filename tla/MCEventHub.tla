----------------------------- MODULE MCEventHub -----------------------------
(***************************************************************************)
(* The event bus with a ring and a channel small enough to overflow, and   *)
(* two goroutines whose publications are of one key or of two.             *)
(***************************************************************************)
EXTENDS EventHub

CONSTANTS audio, video

ThreeEvents == <<{video}, {audio, video}, {video}>>
=============================================================================
