----------------------------- MODULE MCSessions -----------------------------
(* An instance of Sessions for TLC.                                        *)
EXTENDS Sessions, TLC

Symmetry == Permutations(Client) \cup Permutations(Token) \cup Permutations(Password)
=============================================================================
