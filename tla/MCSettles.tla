------------------------------ MODULE MCSettles ------------------------------
(***************************************************************************)
(* ProxyService booted on a database with one proxy that runs, and with a  *)
(* bounded number of requests, so that two handlers, two proxies, two      *)
(* ports and a form that Render refuses fit one run with liveness          *)
(* properties.  TLC's symmetry reduction is not sound for these; instead,  *)
(* proxy ids, container ids and handler slots, which are interchangeable,  *)
(* are taken into use in one fixed order.                                  *)
(***************************************************************************)
EXTENDS ProxyServiceProps

CONSTANT MaxRequests    \* the requests operators send

VARIABLE requests       \* how many have arrived

boundedVars == <<vars, requests>>

FirstOf(S) == CHOOSE x \in S : TRUE

UsedCids == {c \in Cid : ctr[c] # Nil}

IdsInOrder ==
    /\ \A id \in issued' \ issued : id = FirstOf(Proxy \ issued)
    /\ \A c \in UsedCids' \ UsedCids : c = FirstOf(Cid \ UsedCids)

\* What an earlier run of the panel left: one proxy, created and healthy.
StoredInit ==
    LET id == FirstOf(Proxy)  c == FirstOf(Cid) IN
    /\ requests = 0
    /\ \E port \in Port, domain \in Domain \ BadDomain, limits \in Limits \ BadLimits :
       LET p == [port |-> port, domain |-> domain, limits |-> limits,
                 cid |-> c, state |-> "running", msg |-> "none"]
       IN /\ rows = [q \in Proxy |-> IF q = id THEN p ELSE Nil]
          /\ issued = {id} /\ acked = {id}
          /\ cfg = [q \in Proxy |-> IF q = id THEN SpecOf(p) ELSE Nil]
          /\ ctr = [d \in Cid |-> IF d # c THEN Nil
                                  ELSE [status |-> "running", pid |-> id,
                                        port |-> port, loaded |-> SpecOf(p)]]
          /\ call = [r \in Req \cup {Boot} |-> Idle]
          /\ mode = "boot" /\ todo = {} /\ seen = [q \in Proxy |-> Nil]

Arrive ==
    LET free == {r \in Req : At(r, "idle")} IN
    /\ free # {} /\ requests < MaxRequests
    /\ Begin(FirstOf(free)) /\ IdsInOrder
    /\ requests' = requests + 1

Handle(r) == (Continue(r) \/ Finish(r)) /\ IdsInOrder /\ UNCHANGED requests

Boots == (Finish(Boot) \/ Reconcile) /\ IdsInOrder /\ UNCHANGED requests

\* No fault strikes: requests fail, are refused or hang up all the same.
BoundedNext == Arrive \/ (\E r \in Req : Handle(r)) \/ Boots

\* The fairness of FairSpec.
BoundedFairSpec ==
    /\ StoredInit /\ [][BoundedNext]_boundedVars
    /\ \A r \in Req : WF_boundedVars(Handle(r))
    /\ WF_boundedVars(Boots)
=============================================================================
