--------------------------- MODULE MCLoginLimiter ---------------------------
(* An instance of LoginLimiter for TLC.                                    *)
EXTENDS LoginLimiter, TLC

\* Watched is told apart from the other addresses by the history.
Symmetry == Permutations(IP \ {Watched}) \cup Permutations(Slot)
=============================================================================
