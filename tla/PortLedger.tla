------------------------------ MODULE PortLedger ------------------------------
(***************************************************************************)
(* What the panel promises of the host's ports, however many handlers, old *)
(* copies of rows and failed sagas there are behind it.  A proxy claims    *)
(* its port once, may move to another one, and gives it back for good; the *)
(* panel's own ports are never handed out, and no port is handed out       *)
(* twice.                                                                  *)
(***************************************************************************)
EXTENDS Integers

CONSTANTS Proxy, Port, Reserved

VARIABLES
    held,       \* [Proxy -> Port, or Free]: the port each proxy holds
    known       \* the proxies that ever claimed one

ledgerVars == <<held, known>>

Free == 0

\* A real port that is not one of the panel's own.
Permitted(port) == port \in 1..65535 /\ port \notin Reserved

\* A port that id may hold: a permitted one that no other proxy holds.
Available(id, port) ==
    /\ Permitted(port)
    /\ \A q \in Proxy \ {id} : held[q] # port

Claim(id) ==
    /\ id \notin known /\ held[id] = Free
    /\ \E port \in Port :
          Available(id, port) /\ held' = [held EXCEPT ![id] = port]
    /\ known' = known \cup {id}

Move(id) ==
    /\ held[id] # Free
    /\ \E port \in Port :
          Available(id, port) /\ held' = [held EXCEPT ![id] = port]
    /\ UNCHANGED known

Release(id) ==
    /\ held[id] # Free
    /\ held' = [held EXCEPT ![id] = Free]
    /\ UNCHANGED known

Init == held = [id \in Proxy |-> Free] /\ known = {}

Next == \E id \in Proxy : Claim(id) \/ Move(id) \/ Release(id)

Spec == Init /\ [][Next]_ledgerVars
=============================================================================
