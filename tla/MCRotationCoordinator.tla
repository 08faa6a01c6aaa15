----------------------- MODULE MCRotationCoordinator -----------------------
(* Rotation with up to three screens and a bounded number of generations.  *)
EXTENDS RotationCoordinator
=============================================================================
