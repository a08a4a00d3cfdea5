-------------------------- MODULE ProxyServiceProps --------------------------
(***************************************************************************)
(* What proxy.Service promises, and the statements its comments, docs and  *)
(* tests make that it does not keep (the last section).                    *)
(***************************************************************************)
EXTENDS ProxyService

\* No handler is under way and the panel serves requests.
Quiet == mode = "serving" /\ \A r \in Req \cup {Boot} : At(r, "idle")

\* The stored rows, the containers, the configuration directories and every
\* handler's local variables hold values of their kinds.
TypeOK ==
    /\ StoreTypeOK /\ DockerTypeOK
    /\ call \in [Req \cup {Boot} -> Call]
    /\ mode \in {"boot", "reconciling", "serving"}
    /\ todo \subseteq Proxy
    /\ seen \in [Proxy -> Cid \cup {Nil}]
    /\ acked \subseteq Proxy

-----------------------------------------------------------------------------
(* Safe whatever the handlers' interleaving and whatever the faults.       *)

\* The container a row names is a container that was created for that very
\* proxy: stale copies written back by UpdateLimits, Recreate or Create, and
\* Reconcile's adoption, never make a row point at another proxy's container
\* (lifecycle.go UpdateLimits, Recreate, Reconcile; service.go Create).
RowOwnsContainer ==
    \A id \in Proxy :
        HasRow(id) /\ rows[id].cid # Nil =>
            /\ ctr[rows[id].cid] # Nil
            /\ ctr[rows[id].cid].pid = id

\* A handler only ever removes a container of the proxy it was called for, and
\* RemoveOrphan, which takes a container id from the operator, only one whose
\* proxy has no row at the moment of the removal, although it looked at the
\* rows and at the containers in two earlier steps (lifecycle.go RemoveOrphan:
\* a forged or stale id never takes down a live proxy's container).
RemovesOnlyItsOwn ==
    [][call' # call =>
         \A c \in Cid :
            Live(c) /\ ~Live(c)' =>
               \E r \in Req :
                  /\ call'[r] # call[r]
                  /\ \/ call[r].id = ctr[c].pid
                     \/ call[r].pc = "orphanRemove" /\ ~HasRow(ctr[c].pid)]_vars

\* A proxy that was deleted or rolled back never comes back, although handlers
\* that read its row earlier still write their copies (UpdateProxy updates, it
\* never inserts).
DeletedStaysDeleted ==
    [][\A id \in issued : ~HasRow(id) => ~HasRow(id)']_vars

\* The ports as the rows hand them out.
Ledger == INSTANCE PortLedger WITH
    Reserved <- ReservedPorts,
    held     <- [id \in Proxy |-> IF HasRow(id) THEN rows[id].port ELSE 0],
    known    <- issued

\* The table implements the ledger of ports: Create claims, Recreate moves,
\* Delete, a rolled back Create and Reconcile release, and an old copy of a row
\* written back never puts a proxy on a reserved port, on another proxy's port,
\* or, once its row is gone, on any port at all (service.go Create, lifecycle.go
\* Recreate, UpdateLimits, ports.go CheckPort, the UNIQUE port column).
LedgerKept == Ledger!Spec

-----------------------------------------------------------------------------
(* Safe when one operator request runs at a time.                          *)

\* Create unwinds and Delete removes completely, also when the panel is killed
\* between any two of their steps: a proxy without a row has no container and
\* no configuration directory.
NothingLeftBehind ==
    Quiet => \A id \in Proxy : ~HasRow(id) => cfg[id] = Nil /\ ~NameTaken(id)

\* A proxy's container, if it has one, is the one its row names (Reconcile:
\* "Keep the recorded container id honest").
CidHonest ==
    Quiet => \A id \in Proxy :
                HasRow(id) /\ NameTaken(id) => rows[id].cid = ContainerOf(id)

\* When the start-up pass is over, every proxy has a container or says it
\* failed, whatever step the panel was killed at.
RestartRecovers ==
    [][mode # "serving" /\ mode' = "serving" =>
         \A id \in Proxy :
            HasRow(id) => rows[id].state = "error" \/ NameTaken(id)]_vars

\* A proxy whose Create was reported a success is only forgotten by a Delete:
\* no failing step, fault, crash or Reconcile drops its row.
AckedNeverLost ==
    [][\A id \in acked :
         HasRow(id) /\ ~HasRow(id)' =>
            \E r \in Req : At(r, "deleteRow") /\ call[r].id = id]_vars

\* A row that says running tells the truth about what clients meet: the
\* container publishes the row's port, telemt runs with the row's port and
\* domain, and with its limits unless the row admits the live apply failed.
\* (A container removed behind the panel's back is excepted.)
ServesRow ==
    Quiet => \A id \in Proxy :
        HasRow(id) /\ rows[id].state = "running" =>
           LET p == rows[id]  c == rows[id].cid IN
           /\ cfg[id] = SpecOf(p)
           /\ c # Nil
           /\ Live(c) =>
                /\ ctr[c].port = p.port
                /\ ctr[c].loaded.port = p.port /\ ctr[c].loaded.domain = p.domain
                /\ ctr[c].loaded.limits = p.limits \/ p.msg = "unapplied"

-----------------------------------------------------------------------------
(* Liveness.                                                               *)

\* A proxy being created does not stay so: Create always ends with the row
\* settled or removed, even if the proxy is deleted or recreated meanwhile.
CreateSettles ==
    \A id \in Proxy :
        (HasRow(id) /\ rows[id].state = "creating")
            ~> (~HasRow(id) \/ rows[id].state # "creating")

\* A Recreate that has got as far as startContainer leaves the row running or in
\* error, or gone, whatever fails on the way and although its caller may hang up,
\* as long as no other request moves the row off the port it is building for
\* (comment of startContainer: losing a commit "leaves the row stuck at
\* StateRecreating").
RecreateSettles ==
    \A id \in Proxy, port \in Port :
        (/\ HasRow(id) /\ rows[id].port = port
         /\ \E r \in Req : At(r, "startCtr") /\ call[r].id = id /\ call[r].p.port = port)
            ~> (\/ ~HasRow(id) \/ rows[id].port # port
                \/ rows[id].state \in {"running", "error"})

-----------------------------------------------------------------------------
(* What the repository says and the code does not do.                      *)

\* lifecycle.go Recreate: "The new port is validated before the old container
\* is destroyed, so a rejected port leaves a working proxy running".
ValidatedBeforeDestroyed ==
    \A r \in Req :
        At(r, "recreateCommit") => ~PortTaken(call[r].id, call[r].want.port)
=============================================================================
