---------------------------- MODULE MCLimitsForm ----------------------------
(* An instance of LimitsForm for TLC.                                      *)
EXTENDS LimitsForm
=============================================================================
