---------------------------- MODULE MCEventStream ----------------------------
(* An instance of EventStream for TLC; its run checks liveness, so there is  *)
(* no symmetry.                                                              *)
EXTENDS EventStream
=============================================================================
