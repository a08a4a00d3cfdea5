------------------------------ MODULE ProxyStore -----------------------------
(***************************************************************************)
(* The proxies table of the panel's SQLite database.  The store opens one  *)
(* connection (SetMaxOpenConns(1)), so every statement is one atomic step; *)
(* there are no transactions across statements.                            *)
(***************************************************************************)
EXTENDS PanelData

VARIABLES
    rows,       \* [Proxy -> Row or Nil]: the table, keyed by proxy id
    issued      \* the proxy ids ever inserted

HasRow(id) == rows[id] # Nil

\* The set of ids ListProxies returns.
Listed == {id \in Proxy : HasRow(id)}

\* UNIQUE(port): another row already holds the port.
PortTaken(id, port) == \E q \in Proxy \ {id} : HasRow(q) /\ rows[q].port = port

CreateProxy(id, p) ==
    /\ id \notin issued
    /\ ~PortTaken(id, p.port)
    /\ rows' = [rows EXCEPT ![id] = p]
    /\ issued' = issued \cup {id}

\* Mutant: INSERT ... ON CONFLICT instead of UPDATE.
UpsertAccepted(id, p) == ~PortTaken(id, p.port)

\* UPDATE ... WHERE id = ?: it touches nothing when the row is gone
\* (ErrNotFound) or when the new port belongs to another row (ErrPortTaken).
UpdateAccepted(id, p) == HasRow(id) /\ ~PortTaken(id, p.port)

UpdateProxy(id, p) ==
    rows' = IF UpdateAccepted(id, p) THEN [rows EXCEPT ![id] = p] ELSE rows

\* Mutant: a soft delete, with a state nobody else knows.
SoftDelete(id) ==
    rows' = IF HasRow(id) THEN [rows EXCEPT ![id].state = "deleting"] ELSE rows

DeleteProxy(id) == rows' = [rows EXCEPT ![id] = Nil]

StoreInit == rows = [id \in Proxy |-> Nil] /\ issued = {}

StoreTypeOK == rows \in [Proxy -> Row \cup {Nil}] /\ issued \subseteq Proxy
=============================================================================
