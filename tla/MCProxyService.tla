---------------------------- MODULE MCProxyService ---------------------------
(***************************************************************************)
(* Small instances of ProxyService for TLC.                                *)
(***************************************************************************)
EXTENDS ProxyServiceProps, TLC

\* Proxies, containers and handler slots are interchangeable; used in runs
\* without liveness properties only.
Symmetry == Permutations(Proxy) \cup Permutations(Cid) \cup Permutations(Req)
=============================================================================
