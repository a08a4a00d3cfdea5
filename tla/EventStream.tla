----------------------------- MODULE EventStream -----------------------------
(***************************************************************************)
(* The poller with the event streams of the browser tabs: each tab's       *)
(* handler (getEvents) subscribes, reads the poller's cache once, and      *)
(* reads it again after every token, until the browser is gone.  Around    *)
(* them, proxies are created and deleted, and their control APIs come and  *)
(* go.                                                                     *)
(***************************************************************************)
EXTENDS Poller

VARIABLE
    tab         \* [Tab -> TabPc]: where each tab's handler stands

streamVars == <<rows, issued, up, sweepVars, cacheVars, feedVars, tab>>

TabPc == {"gone", "rendering", "waiting", "leaving", "closing"}

Moves(t, from, to) == tab[t] = from /\ tab' = [tab EXCEPT ![t] = to]

TabUnchanged == UNCHANGED <<rows, issued, up, sweepVars, cacheVars>>

-----------------------------------------------------------------------------
(* getEvents.                                                              *)

Connect(t) ==
    /\ Moves(t, "gone", "rendering")
    /\ Subscribe(t)
    /\ UNCHANGED owed /\ TabUnchanged

\* send: it lists the rows, reads the cache and writes to the browser.  A
\* listing or a template that fails counts as rendered (send returns true and
\* the browser keeps what it has until the next token); when the write fails
\* the handler returns.
Render(t) ==
    /\ Moves(t, "rendering", "waiting") \/ Moves(t, "rendering", "leaving")
    /\ owed' = owed \ {t}
    /\ UNCHANGED <<subs, token, closed>> /\ TabUnchanged

Wake(t) ==
    /\ t \in token
    /\ Moves(t, "waiting", "rendering")
    /\ token' = token \ {t}
    /\ UNCHANGED <<subs, closed, owed>> /\ TabUnchanged

\* The request's context ends, or a keep-alive cannot be written.
HangUp(t) ==
    /\ Moves(t, "waiting", "leaving")
    /\ UNCHANGED feedVars /\ TabUnchanged

\* Mutant: the channel is closed before it is taken off the list.
LeaveClosing(t) ==
    /\ Moves(t, "leaving", "closing")
    /\ CloseChannel(t)
    /\ UNCHANGED <<subs, token, owed>> /\ TabUnchanged

\* The deferred cancel: off the list under subMu, closed after the unlock.
Leave(t) ==
    /\ Moves(t, "leaving", "closing")
    /\ Unsubscribe(t)
    /\ UNCHANGED <<token, closed, owed>> /\ TabUnchanged

Close(t) ==
    /\ Moves(t, "closing", "gone")
    /\ CloseChannel(t)
    /\ UNCHANGED <<subs, token, owed>> /\ TabUnchanged

-----------------------------------------------------------------------------
(* The proxies, as the poller sees them.                                   *)

ProxyUnchanged == UNCHANGED <<sweepVars, cacheVars, feedVars, tab>>

\* uuid.NewString gives no id twice.
CreateProxy(p) ==
    /\ p \notin issued
    /\ rows' = rows \cup {p} /\ issued' = issued \cup {p}
    /\ UNCHANGED up /\ ProxyUnchanged

DeleteProxy(p) ==
    /\ p \in rows
    /\ rows' = rows \ {p} /\ up' = up \ {p}
    /\ UNCHANGED issued /\ ProxyUnchanged

ComesUp(p) ==
    /\ p \in rows \ up /\ up' = up \cup {p}
    /\ UNCHANGED <<rows, issued>> /\ ProxyUnchanged

GoesDown(p) ==
    /\ p \in up /\ up' = up \ {p}
    /\ UNCHANGED <<rows, issued>> /\ ProxyUnchanged

-----------------------------------------------------------------------------
Init == PollerInit /\ tab = [t \in Tab |-> "gone"]

TabStep(t) ==
    Connect(t) \/ Render(t) \/ Wake(t) \/ HangUp(t) \/ Leave(t) \/ Close(t)

ProxyStep(p) == CreateProxy(p) \/ DeleteProxy(p) \/ ComesUp(p) \/ GoesDown(p)

Next ==
    \/ Sweep /\ UNCHANGED tab
    \/ \E t \in Tab : TabStep(t)
    \/ \E p \in Proxy : ProxyStep(p)

Spec == Init /\ [][Next]_streamVars

\* The ticker ticks and polls end (the HTTP client has a timeout, the Docker
\* daemon is taken to answer); handlers run on when they can.
FairSpec ==
    /\ Spec
    /\ WF_streamVars(Sweep /\ UNCHANGED tab)
    /\ \A t \in Tab : WF_streamVars(Render(t) \/ Wake(t) \/ Leave(t) \/ Close(t))

-----------------------------------------------------------------------------
(* Properties.                                                             *)

\* The poller's maps, channels and listings hold values of their kinds.
TypeOK ==
    /\ rows \subseteq issued /\ issued \subseteq Proxy /\ up \subseteq rows
    /\ pc \in SweepPc
    /\ proxies \subseteq Proxy /\ skip \subseteq proxies
    /\ results \in [Proxy -> Result] /\ snapshots \in [Proxy -> Result]
    /\ failures \in [Proxy -> 0..failuresBeforeBackoff]
    /\ skips \in [Proxy -> 0..backoffEvery - 1]
    /\ age \in [Proxy -> 0..backoffEvery]
    /\ last \in SweepRecord
    /\ subs \subseteq Tab /\ token \subseteq Tab
    /\ closed \subseteq Tab /\ owed \subseteq Tab
    /\ tab \in [Tab -> TabPc]

\* A snapshot that says OK was taken in the last sweep, and one that says
\* failed is at most backoffEvery - 1 sweeps old: backoff never serves old
\* statistics as current ones (PollOnce's skip decision and its reset).
NoStaleSnapshot ==
    \A p \in Cached :
        /\ snapshots[p] = "ok" => age[p] = 0
        /\ age[p] <= backoffEvery - 1

\* After a sweep the cache has an entry for exactly the proxies the sweep
\* listed, and no counter survives its entry (PollOnce drops entries by a loop
\* over the snapshots only).
CacheMatchesListing ==
    /\ pc \in {"idle", "committed"} => Cached = proxies
    /\ \A p \in Proxy \ Cached : failures[p] = 0 /\ skips[p] = 0

\* A tab that waits although the cache changed since it last rendered has a
\* token coming: none is lost between a commit, the notification after it, and
\* the handler's own reading (notify drops a token only if one is waiting).
NoLostWakeup ==
    \A t \in owed : tab[t] = "waiting" => t \in token \/ pc = "committed"

\* notify never sends on a closed channel, which would panic and take the
\* panel down (Subscribe's cancel takes the channel off the list first).
NoSendOnClosed == subs \cap closed = {}

\* A connected tab that has not rendered the last sweep's results does so in
\* the end, or is gone (getEvents' select loop and notify's dropped sends).
TabCatchesUp ==
    \A t \in Tab :
        (t \in owed /\ tab[t] \in {"rendering", "waiting"})
            ~> (t \notin owed \/ tab[t] \notin {"rendering", "waiting"})

\* A proxy whose control API stays up is shown as OK for good, however often
\* it had failed before.
RecoveryNoticed == \A p \in Proxy : <>[](p \in up) => <>[](snapshots[p] = "ok")

\* A deleted proxy leaves no statistics behind.
DeletedForgotten ==
    \A p \in Proxy : <>[](p \notin rows) => <>[](snapshots[p] = "none")

\* The sweeps a proxy still has to sit out when the next one commits: one that
\* is being left out was counted by Decide and is still to be left out.
Waiting(p) ==
    IF failures[p] < failuresBeforeBackoff THEN 0
    ELSE IF p \in skip THEN backoffEvery - skips[p]
    ELSE backoffEvery - 1 - skips[p]

Schedule == INSTANCE BackoffSchedule WITH
    Threshold <- failuresBeforeBackoff,
    Period    <- backoffEvery,
    lost      <- failures,
    wait      <- [p \in Proxy |-> Waiting(p)],
    sweep     <- last

\* The maps failures and skips implement the schedule BackoffSchedule states:
\* every sweep that commits has polled exactly the proxies it listed that had
\* nothing left to sit out, although PollOnce decides and commits in two
\* critical sections with the polls in between.
KeepsSchedule == Schedule!Spec
=============================================================================
