------------------------------ MODULE DockerHost -----------------------------
(***************************************************************************)
(* The Docker daemon as internal/docker drives it, the telemt process in   *)
(* each container, and the configuration directories the containers mount. *)
(* Every container here carries the panel's managed label and the label    *)
(* with its proxy's id (pid), and is named telemt-<pid>.                    *)
(***************************************************************************)
EXTENDS PanelData

VARIABLES
    ctr,        \* [Cid -> Container or Nil]: every container ever created
    cfg         \* [Proxy -> Config, EmptyDir or Nil]: proxies/<id>/config.toml

Live(c) == ctr[c] # Nil /\ ctr[c].status # "removed"

\* Docker refuses a second container of the same name.
NameTaken(id) == \E c \in Cid : Live(c) /\ ctr[c].pid = id

\* Mutant: a listing by the managed label alone.
AnyContainer(id) ==
    IF \E c \in Cid : Live(c) THEN CHOOSE c \in Cid : Live(c) ELSE Nil

\* The container a List by label finds for a proxy.
ContainerOf(id) ==
    IF NameTaken(id) THEN CHOOSE c \in Cid : Live(c) /\ ctr[c].pid = id ELSE Nil

\* A bind mount needs an existing source directory.
HasDir(id) == cfg[id] # Nil

\* What telemt reads when it starts: no config.toml, no working process.
ReadConfig(id) == IF cfg[id] = EmptyDir THEN Nil ELSE cfg[id]

PortBound(c) ==
    \E d \in Cid \ {c} :
        Live(d) /\ ctr[d].status = "running" /\ ctr[d].port = ctr[c].port

CreateContainer(id, port, c) ==
    /\ ctr[c] = Nil
    /\ ~NameTaken(id)
    /\ HasDir(id)
    /\ ctr' = [ctr EXCEPT ![c] = [status |-> "created", pid |-> id,
                                  port |-> port, loaded |-> Nil]]

StartContainer(c) ==
    /\ Live(c)
    /\ HasDir(ctr[c].pid)
    /\ ~PortBound(c)
    /\ ctr' = [ctr EXCEPT ![c].status = "running",
                          ![c].loaded = ReadConfig(ctr[c].pid)]

\* docker rm -f; the caller treats "no such container" as success.
RemoveContainer(c) ==
    ctr' = IF c # Nil /\ Live(c)
           THEN [ctr EXCEPT ![c].status = "removed", ![c].loaded = Nil]
           ELSE ctr

\* The control API answers: the process is up with a configuration it read.
Healthy(c) == c # Nil /\ Live(c) /\ ctr[c].status = "running" /\ ctr[c].loaded # Nil

\* PATCH /v1/users/<user>: telemt applies the new limits and rewrites its own
\* config.toml (the reason the mount is a directory).
PatchUser(c, limits) ==
    /\ Healthy(c)
    /\ ctr' = [ctr EXCEPT ![c].loaded = [@ EXCEPT !.limits = limits]]
    /\ LET id == ctr[c].pid IN
       cfg' = IF cfg[id] \in Config
              THEN [cfg EXCEPT ![id] = [@ EXCEPT !.limits = limits]]
              ELSE cfg

\* The restart policy (unless-stopped) restarts a running container's process,
\* which reads config.toml again.
TelemtRestart(c) ==
    /\ Live(c) /\ ctr[c].status = "running" /\ HasDir(ctr[c].pid)
    /\ ctr' = [ctr EXCEPT ![c].loaded = ReadConfig(ctr[c].pid)]
    /\ UNCHANGED cfg

DockerInit == ctr = [c \in Cid |-> Nil] /\ cfg = [id \in Proxy |-> Nil]

DockerTypeOK ==
    /\ ctr \in [Cid -> Container \cup {Nil}]
    /\ cfg \in [Proxy -> Config \cup {EmptyDir, Nil}]
=============================================================================
