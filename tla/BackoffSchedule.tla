--------------------------- MODULE BackoffSchedule ---------------------------
(***************************************************************************)
(* What the statistics poller promises of every proxy, whatever the sweeps *)
(* that implement it look like: a proxy that is listed is polled in every  *)
(* sweep until Threshold polls in a row have failed, then once in Period   *)
(* sweeps, until a poll succeeds or the proxy is no longer listed.         *)
(***************************************************************************)
EXTENDS Naturals

CONSTANTS Proxy, Threshold, Period

VARIABLES
    lost,       \* [Proxy -> 0..Threshold]: failed polls in a row, saturating
    wait,       \* [Proxy -> Nat]: the sweeps still to sit out
    sweep       \* the last sweep: whom it listed and polled

scheduleVars == <<lost, wait, sweep>>

LostAfter(p, ok) == IF ok THEN 0 ELSE IF lost[p] < Threshold THEN lost[p] + 1 ELSE lost[p]

WaitAfter(p, ok) == IF LostAfter(p, ok) = Threshold THEN Period - 1 ELSE 0

\* One sweep over the listed proxies.  Those with nothing left to sit out are
\* polled, all of them and nobody else; those of ok answer.  A proxy that is
\* not listed is forgotten.
Sweep(listed, ok) ==
    LET polled == {p \in listed : wait[p] = 0} IN
    /\ sweep' = [odd |-> ~sweep.odd, listed |-> listed, polled |-> polled]
    /\ lost' = [p \in Proxy |-> IF p \in polled THEN LostAfter(p, p \in ok)
                                ELSE IF p \in listed THEN lost[p]
                                ELSE 0]
    /\ wait' = [p \in Proxy |-> IF p \in polled THEN WaitAfter(p, p \in ok)
                                ELSE IF p \in listed THEN wait[p] - 1
                                ELSE 0]

Init ==
    /\ lost = [p \in Proxy |-> 0]
    /\ wait = [p \in Proxy |-> 0]
    /\ sweep = [odd |-> FALSE, listed |-> {}, polled |-> {}]

Next == \E listed, ok \in SUBSET Proxy : Sweep(listed, ok)

Spec == Init /\ [][Next]_scheduleVars
=============================================================================
