----------------------------- MODULE MCVoiceTurn ----------------------------
(* Voice turns beside one POST /api/voice/state and the watchdogs.         *)
EXTENDS VoiceTurn
=============================================================================
