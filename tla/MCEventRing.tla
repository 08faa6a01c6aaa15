----------------------------- MODULE MCEventRing ----------------------------
(* Seven events through a ring of three: the index wraps twice.            *)
EXTENDS EventRing
=============================================================================
