------------------------------ MODULE PanelData ------------------------------
(***************************************************************************)
(* The values every part of the panel exchanges: proxies, their database   *)
(* rows, the config.toml of a proxy and the containers of the Docker host. *)
(* A fake domain, a set of limits (quota, expiry, connection and IP caps,  *)
(* ad tag) and a name are opaque values: the panel only stores, compares   *)
(* and forwards them.                                                      *)
(***************************************************************************)
EXTENDS Naturals

CONSTANTS
    Proxy,      \* proxy ids (uuid.NewString: never handed out twice)
    Cid,        \* container ids (chosen by the Docker daemon, never reused)
    Port,       \* the ports an operator may ask for
    Domain,     \* fake-TLS domains
    Limits,     \* values of the hot-reloadable settings, ad tag included
    Nil,        \* "no such thing": a missing row, container id, config
    EmptyDir    \* a configuration directory without a config.toml

\* The states somebody stores; StateStopped and StateDeleting are declared, but
\* no statement of the panel writes them.
State == {"creating", "running", "error", "recreating"}

\* StateMessage: empty, the reason of StateError, or "limits saved; live
\* apply failed".
Message == {"none", "failed", "unapplied"}

Row == [port   : Port,
        domain : Domain,
        limits : Limits,
        cid    : Cid \cup {Nil},
        state  : State,
        msg    : Message]

Config == [port : Port, domain : Domain, limits : Limits]

\* What config.toml says once it is rendered from row p.
SpecOf(p) == [port |-> p.port, domain |-> p.domain, limits |-> p.limits]

\* A removed container keeps its record, as its id is never used again.
\* loaded is the configuration the telemt process inside has read, Nil while
\* there is no such process (or it found no config.toml and keeps dying).
Container == [status : {"created", "running", "removed"},
              pid    : Proxy,
              port   : Port,
              loaded : Config \cup {Nil}]

ASSUME PortAssumption == Port \subseteq Nat

ASSUME NilAssumption ==
    /\ Nil \notin Proxy \cup Cid
    /\ Nil \notin Row
    /\ Nil \notin Config
    /\ Nil \notin Container
    /\ EmptyDir \notin Config
    /\ EmptyDir # Nil
=============================================================================
