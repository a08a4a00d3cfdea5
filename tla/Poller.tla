------------------------------- MODULE Poller --------------------------------
(***************************************************************************)
(* poller.Poller: the single loop that sweeps over every proxy, the cache  *)
(* of snapshots it fills, and the channels it wakes the browsers' event    *)
(* streams through.  Every critical section under mu or subMu is one step; *)
(* the polls of a sweep run concurrently, in any order, between two such   *)
(* sections.  Sweeps never overlap: only Run calls PollOnce.               *)
(***************************************************************************)
EXTENDS Naturals

CONSTANTS
    Proxy,                  \* proxy ids
    Tab,                    \* slots for connected browser tabs
    failuresBeforeBackoff,  \* failed polls in a row before sweeps are skipped
    backoffEvery            \* a backed-off proxy is polled once in so many sweeps

ASSUME PollerAssumption ==
    /\ failuresBeforeBackoff \in Nat \ {0}
    /\ backoffEvery \in Nat \ {0}

VARIABLES
    rows,       \* the proxies ListProxies returns
    issued,     \* the proxies that ever had a row
    up,         \* the proxies whose control API answers
    pc,         \* where PollOnce stands
    proxies,    \* the listing of the sweep under way, or of the last one
    skip,       \* the proxies this sweep leaves out
    results,    \* [Proxy -> Result]: the answers of this sweep's polls
    snapshots,  \* [Proxy -> Result]: the cache
    failures,   \* [Proxy -> 0..failuresBeforeBackoff]
    skips,      \* [Proxy -> 0..backoffEvery-1]
    age,        \* history: the sweeps committed since a snapshot was taken
    last,       \* history: the sweep committed last
    subs,       \* the registered channels, named by the tab that owns them
    token,      \* the channels whose one-place buffer is full
    closed,     \* the closed channels
    owed        \* history: tabs that have not rendered since the cache changed

sweepVars == <<pc, proxies, skip, results>>
cacheVars == <<snapshots, failures, skips, age, last>>
feedVars  == <<subs, token, closed, owed>>

\* A snapshot counts as OK also when telemt reports no users.
Result == {"none", "ok", "failed"}

SweepPc == {"idle", "listed", "polling", "committed"}

\* What a sweep had listed and whom it had polled; odd tells it from the one
\* before.
SweepRecord == [odd : BOOLEAN, listed : SUBSET Proxy, polled : SUBSET Proxy]

-----------------------------------------------------------------------------
(* PollOnce.                                                               *)

\* A List that fails ends the sweep with nothing changed.
ListProxies ==
    /\ pc = "idle"
    /\ proxies' = rows
    /\ pc' = "listed"
    /\ UNCHANGED <<rows, issued, up, skip, results, cacheVars, feedVars>>

\* Mutant: skips compared with backoffEvery.
BackedOffOnceMore(p) ==
    failures[p] >= failuresBeforeBackoff /\ skips[p] < backoffEvery

\* Mutant: the failures are not looked at.
BackedOffAnyway(p) == skips[p] < backoffEvery - 1

BackedOff(p) == failures[p] >= failuresBeforeBackoff /\ skips[p] < backoffEvery - 1

\* Mutant: the skipped sweeps are not counted.
DecideUncounted ==
    /\ pc = "listed"
    /\ skip' = {p \in proxies : BackedOff(p)}
    /\ pc' = "polling"
    /\ UNCHANGED <<rows, issued, up, proxies, results, cacheVars, feedVars>>

Decide ==
    /\ pc = "listed"
    /\ skip' = {p \in proxies : BackedOff(p)}
    /\ skips' = [p \in Proxy |-> IF p \in skip' THEN skips[p] + 1 ELSE skips[p]]
    /\ pc' = "polling"
    /\ UNCHANGED <<rows, issued, up, proxies, results, snapshots, failures, age, last,
                   feedVars>>

\* ClientFor and Users; a proxy deleted meanwhile just does not answer.
PollProxy(p) ==
    /\ pc = "polling" /\ p \in proxies \ skip /\ results[p] = "none"
    /\ results' = [results EXCEPT ![p] = IF p \in up THEN "ok" ELSE "failed"]
    /\ UNCHANGED <<rows, issued, up, pc, proxies, skip, cacheVars, feedVars>>

\* Only compared with the threshold, so it need not count further.
OneMore(n) == IF n < failuresBeforeBackoff THEN n + 1 ELSE n

\* Mutant: a success does not forget the failures before it.
FailuresKept(p) == IF results[p] = "ok" THEN failures[p] ELSE OneMore(failures[p])

\* The failures in a row of a proxy that was just polled.
CountedFailures(p) == IF results[p] = "ok" THEN 0 ELSE OneMore(failures[p])

Cached == {p \in Proxy : snapshots[p] # "none"}

\* Mutant: nothing is ever dropped.
DroppedNone == {}

\* Entries are dropped by a loop over the snapshots: a counter of a proxy
\* without a snapshot would stay.
Dropped == Cached \ proxies

\* Ages are told apart up to the oldest the schedule allows.
Older(n) == IF n < backoffEvery THEN n + 1 ELSE n

\* The results are stored, entries of unlisted proxies dropped; the
\* locals of the sweep (skip, results) are done with.
Commit ==
    LET polled == proxies \ skip IN
    /\ pc = "polling" /\ \A p \in polled : results[p] # "none"
    /\ snapshots' = [p \in Proxy |-> IF p \in polled THEN results[p]
                                     ELSE IF p \in Dropped THEN "none"
                                     ELSE snapshots[p]]
    /\ failures' = [p \in Proxy |-> IF p \in polled THEN CountedFailures(p)
                                    ELSE IF p \in Dropped THEN 0
                                    ELSE failures[p]]
    /\ skips' = [p \in Proxy |-> IF p \in polled \cup Dropped THEN 0 ELSE skips[p]]
    /\ age' = [p \in Proxy |-> IF p \in Cached \ (polled \cup Dropped)
                               THEN Older(age[p]) ELSE 0]
    /\ last' = [odd |-> ~last.odd, listed |-> proxies,
                polled |-> {p \in Proxy : results[p] # "none"}]
    /\ owed' = Tab
    /\ skip' = {} /\ results' = [p \in Proxy |-> "none"]
    /\ pc' = "committed"
    /\ UNCHANGED <<rows, issued, up, proxies, subs, token, closed>>

\* Mutant: only one of the channels gets a token.
NotifyOne ==
    /\ pc = "committed"
    /\ token' = IF subs = {} THEN token ELSE token \cup {CHOOSE t \in subs : TRUE}
    /\ pc' = "idle"
    /\ UNCHANGED <<rows, issued, up, proxies, skip, results, cacheVars, subs, closed, owed>>

\* A full buffer keeps its token; the loop never blocks.
Notify ==
    /\ pc = "committed"
    /\ token' = token \cup subs
    /\ pc' = "idle"
    /\ UNCHANGED <<rows, issued, up, proxies, skip, results, cacheVars, subs, closed, owed>>

Sweep == ListProxies \/ Decide \/ (\E p \in Proxy : PollProxy(p)) \/ Commit \/ Notify

-----------------------------------------------------------------------------
(* Subscribe and the two halves of its cancel function.                    *)

\* A new channel, with an empty buffer.
Subscribe(t) ==
    subs' = subs \cup {t} /\ token' = token \ {t} /\ closed' = closed \ {t}

Unsubscribe(t) == subs' = subs \ {t}

CloseChannel(t) == closed' = closed \cup {t}

-----------------------------------------------------------------------------
PollerInit ==
    /\ rows \in SUBSET Proxy /\ issued = rows /\ up \in SUBSET rows
    /\ pc = "idle" /\ proxies = {} /\ skip = {}
    /\ results = [p \in Proxy |-> "none"]
    /\ snapshots = [p \in Proxy |-> "none"]
    /\ failures = [p \in Proxy |-> 0] /\ skips = [p \in Proxy |-> 0]
    /\ age = [p \in Proxy |-> 0]
    /\ last = [odd |-> FALSE, listed |-> {}, polled |-> {}]
    /\ subs = {} /\ token = {} /\ closed = {} /\ owed = {}
=============================================================================
