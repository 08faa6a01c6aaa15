--------------------------- MODULE MCCastWatcher ---------------------------
(***************************************************************************)
(* A Chromecast with one app beside the default media player, a dispatch   *)
(* channel that overflows, two wake requests.                              *)
(***************************************************************************)
EXTENDS CastWatcher
=============================================================================
