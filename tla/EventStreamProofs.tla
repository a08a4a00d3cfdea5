-------------------------- MODULE EventStreamProofs --------------------------
(***************************************************************************)
(* Proofs about the poller and the event streams, for any number of        *)
(* proxies and tabs and any thresholds of the backoff.                     *)
(***************************************************************************)
EXTENDS EventStream, TLAPS

\* What Decide's choice and the counters have to do with each other: a
\* snapshot is as old as the sweeps its proxy was skipped for, and the one it
\* is being skipped for now is counted but not yet committed.
BackoffOK ==
    /\ skip \subseteq proxies \cap Cached
    /\ pc \in {"idle", "listed", "committed"} => skip = {}
    /\ pc = "polling" => \A p \in proxies \ skip : ~BackedOff(p)
    /\ \A p \in skip : failures[p] = failuresBeforeBackoff /\ skips[p] > 0
    /\ \A p \in Proxy : failures[p] < failuresBeforeBackoff => skips[p] = 0
    /\ \A p \in Cached : /\ snapshots[p] = "ok" => failures[p] = 0
                         /\ age[p] = IF p \in skip THEN skips[p] - 1 ELSE skips[p]

\* A tab's channel is on the poller's list exactly while its handler may read
\* it, and closed only when it may not.
ChannelOK ==
    \A t \in Tab :
        /\ t \in subs <=> tab[t] \in {"rendering", "waiting", "leaving"}
        /\ t \in closed => tab[t] = "gone"

\* Only a sweep that polls has answers, and only of those it does not skip.
ResultsOK ==
    \A p \in Proxy : results[p] # "none" => pc = "polling" /\ p \in proxies \ skip

IInv ==
    /\ TypeOK /\ CacheMatchesListing /\ BackoffOK /\ ResultsOK
    /\ ChannelOK /\ NoLostWakeup

-----------------------------------------------------------------------------
\* The invariant holds before the first sweep, whatever rows there are.
LEMMA InitOK == Init => IInv
BY PollerAssumption DEF Init, PollerInit, IInv, TypeOK, CacheMatchesListing, BackoffOK,
   ResultsOK, ChannelOK, NoLostWakeup, Cached, SweepPc, SweepRecord, Result, TabPc

\* The handlers' steps leave the sweep and the cache alone.
LEMMA TabOK ==
    ASSUME IInv, NEW t \in Tab, TabStep(t)
    PROVE  IInv'
<1> USE DEF TabUnchanged, sweepVars, cacheVars, feedVars, Moves
<1>1. /\ UNCHANGED <<rows, issued, up, pc, proxies, skip, results, snapshots,
                     failures, skips, age, last>>
      /\ tab' \in [Tab -> TabPc]
      /\ subs' \subseteq Tab /\ token' \subseteq Tab /\ closed' \subseteq Tab
      /\ owed' \subseteq Tab
  BY DEF IInv, TypeOK, TabStep, Connect, Render, Wake, HangUp, Leave, Close,
         Subscribe, Unsubscribe, CloseChannel, TabPc
<1>2. TypeOK' /\ CacheMatchesListing' /\ BackoffOK' /\ ResultsOK'
  BY <1>1 DEF IInv, TypeOK, CacheMatchesListing, BackoffOK, BackedOff, ResultsOK, Cached
<1>3. ChannelOK'
  BY DEF IInv, TypeOK, ChannelOK, TabStep, Connect, Render, Wake, HangUp, Leave,
         Close, Subscribe, Unsubscribe, CloseChannel
<1>4. NoLostWakeup'
  BY <1>1 DEF IInv, TypeOK, NoLostWakeup, TabStep, Connect, Render, Wake, HangUp,
              Leave, Close, Subscribe, Unsubscribe, CloseChannel
<1> QED
  BY <1>2, <1>3, <1>4 DEF IInv

\* Proxies that come and go do not touch the poller.
LEMMA ProxyOK ==
    ASSUME IInv, NEW p \in Proxy, ProxyStep(p)
    PROVE  IInv'
<1> USE DEF ProxyUnchanged, sweepVars, cacheVars, feedVars
<1>1. /\ UNCHANGED <<pc, proxies, skip, results, snapshots, failures, skips, age, last,
                     subs, token, closed, owed, tab>>
      /\ rows' \subseteq issued' /\ issued' \subseteq Proxy /\ up' \subseteq rows'
  BY DEF IInv, TypeOK, ProxyStep, CreateProxy, DeleteProxy, ComesUp, GoesDown
<1> QED
  BY <1>1 DEF IInv, TypeOK, CacheMatchesListing, BackoffOK, BackedOff, ResultsOK,
              ChannelOK, NoLostWakeup, Cached

\* Listing the proxies, deciding which to skip, polling, notifying.
LEMMA SweepOK ==
    ASSUME IInv, UNCHANGED tab,
           ListProxies \/ Decide \/ (\E p \in Proxy : PollProxy(p)) \/ Notify
    PROVE  IInv'
<1> USE PollerAssumption DEF sweepVars, cacheVars, feedVars
<1>1. CASE ListProxies
  BY <1>1 DEF ListProxies, IInv, TypeOK, CacheMatchesListing, BackoffOK, ResultsOK,
              ChannelOK, NoLostWakeup, Cached, SweepPc
<1>2. CASE Decide
  <2>1. skip' \subseteq proxies /\ skip = {}
    BY <1>2 DEF Decide, IInv, BackoffOK
  <2>2. \A p \in skip' : /\ p \in Cached /\ failures[p] = failuresBeforeBackoff
                         /\ skips'[p] = skips[p] + 1 /\ skips[p] < backoffEvery - 1
    BY <1>2 DEF Decide, IInv, TypeOK, CacheMatchesListing, BackedOff
  <2>3. \A p \in Proxy \ skip' : skips'[p] = skips[p]
    BY <1>2 DEF Decide
  <2>4. TypeOK'
    <3>1. \A p \in Proxy : skips'[p] \in 0..backoffEvery - 1
      <4> SUFFICES ASSUME NEW p \in Proxy PROVE skips'[p] \in 0..backoffEvery - 1
        OBVIOUS
      <4>1. skips[p] \in 0..backoffEvery - 1 /\ backoffEvery \in Nat
        BY DEF IInv, TypeOK
      <4> QED
        BY <4>1, <2>2, <2>3
    <3>2. skips' \in [Proxy -> 0..backoffEvery - 1]
      BY <1>2, <3>1 DEF Decide
    <3> QED
      BY <1>2, <2>1, <3>2 DEF Decide, IInv, TypeOK, SweepPc
  <2>5. CacheMatchesListing'
    BY <1>2, <2>2, <2>3 DEF Decide, IInv, CacheMatchesListing, Cached
  <2>6. BackoffOK'
    <3>1. /\ pc' = "polling" /\ proxies' = proxies /\ failures' = failures /\ age' = age
          /\ snapshots' = snapshots /\ Cached' = Cached
      BY <1>2 DEF Decide, Cached
    <3>2. skip' \subseteq proxies' \cap Cached'
      BY <2>1, <2>2, <3>1
    <3>3. ASSUME NEW p \in Proxy
          PROVE  /\ p \in skip' => failures[p] = failuresBeforeBackoff /\ skips'[p] > 0
                 /\ failures[p] < failuresBeforeBackoff => skips'[p] = 0
                 /\ p \in Cached => age[p] = IF p \in skip' THEN skips'[p] - 1 ELSE skips'[p]
      <4>1. skips[p] \in Nat /\ failures[p] \in Nat /\ age[p] \in Nat
        BY DEF IInv, TypeOK
      <4>2. /\ failures[p] < failuresBeforeBackoff => skips[p] = 0
            /\ p \in Cached => age[p] = skips[p]
        BY <2>1 DEF IInv, BackoffOK
      <4>3. CASE p \in skip'
        BY <4>1, <4>2, <4>3, <2>2
      <4>4. CASE p \notin skip'
        BY <4>1, <4>2, <4>4, <2>3
      <4> QED
        BY <4>3, <4>4
    <3>4. skip' \subseteq Proxy
      BY <2>1 DEF IInv, TypeOK
    <3>5. \A p \in proxies \ skip' : ~BackedOff(p)'
      BY <1>2, <2>3, <3>1 DEF Decide, IInv, TypeOK, BackedOff
    <3> QED
      BY <3>1, <3>2, <3>3, <3>4, <3>5 DEF IInv, BackoffOK, Cached
  <2>7. ResultsOK' /\ ChannelOK' /\ NoLostWakeup'
    BY <1>2 DEF Decide, IInv, ResultsOK, ChannelOK, NoLostWakeup
  <2> QED
    BY <2>4, <2>5, <2>6, <2>7 DEF IInv
<1>3. ASSUME NEW p \in Proxy, PollProxy(p)
      PROVE  IInv'
  BY <1>3 DEF PollProxy, IInv, TypeOK, CacheMatchesListing, BackoffOK, ResultsOK,
              ChannelOK, NoLostWakeup, Cached, BackedOff, Result
<1>4. CASE Notify
  BY <1>4 DEF Notify, IInv, TypeOK, CacheMatchesListing, BackoffOK, ResultsOK,
              ChannelOK, NoLostWakeup, Cached, SweepPc
<1> QED
  BY <1>1, <1>2, <1>3, <1>4

\* Storing the results: what was polled is fresh, what was skipped a sweep
\* older, what is not listed gone.
LEMMA CommitOK ==
    ASSUME IInv, UNCHANGED tab, Commit
    PROVE  IInv'
<1> USE PollerAssumption DEF sweepVars, cacheVars, feedVars
<1> DEFINE polled == proxies \ skip
<1>1. /\ polled \subseteq Proxy /\ skip \subseteq Cached /\ skip \subseteq proxies
      /\ proxies \subseteq Proxy
      /\ \A p \in polled : results[p] \in {"ok", "failed"}
      /\ skip' = {} /\ proxies' = proxies /\ pc' = "committed"
  BY DEF Commit, IInv, TypeOK, BackoffOK, Result
<1>2. \A p \in polled : /\ snapshots'[p] = results[p] /\ skips'[p] = 0 /\ age'[p] = 0
                        /\ failures'[p] = CountedFailures(p)
  BY <1>1 DEF Commit
<1>3. \A p \in skip : /\ snapshots'[p] = snapshots[p] /\ skips'[p] = skips[p]
                      /\ failures'[p] = failures[p] /\ age'[p] = Older(age[p])
  BY <1>1 DEF Commit, Dropped
<1>4. \A p \in Proxy \ proxies : /\ snapshots'[p] = "none" /\ skips'[p] = 0
                                 /\ failures'[p] = 0 /\ age'[p] = 0
  BY DEF Commit, Dropped, Cached, IInv, CacheMatchesListing
<1>5. \A p \in polled : /\ CountedFailures(p) \in 0..failuresBeforeBackoff
                        /\ results[p] = "ok" => CountedFailures(p) = 0
  BY <1>1 DEF IInv, TypeOK, CountedFailures, OneMore
<1>6. \A p \in skip : /\ age[p] = skips[p] - 1 /\ skips[p] \in 1..backoffEvery - 1
                      /\ failures[p] = failuresBeforeBackoff
                      /\ Older(age[p]) = skips[p]
  BY <1>1 DEF IInv, TypeOK, BackoffOK, Older
<1>7. Cached' = proxies
  BY <1>1, <1>2, <1>3, <1>4 DEF Cached
<1>8. TypeOK'
  <2>1. /\ \A p \in Proxy : snapshots'[p] \in Result
        /\ \A p \in Proxy : failures'[p] \in 0..failuresBeforeBackoff
        /\ \A p \in Proxy : skips'[p] \in 0..backoffEvery - 1
        /\ \A p \in Proxy : age'[p] \in 0..backoffEvery
    BY <1>1, <1>2, <1>3, <1>4, <1>5, <1>6 DEF IInv, TypeOK, Result
  <2>2. last' \in SweepRecord
    BY DEF Commit, IInv, TypeOK, SweepRecord
  <2> QED
    BY <2>1, <2>2 DEF Commit, IInv, TypeOK, SweepPc, Result
<1>9. CacheMatchesListing'
  BY <1>1, <1>4, <1>7 DEF CacheMatchesListing
<1>10. BackoffOK'
  <2>1. \A p \in proxies : /\ failures'[p] < failuresBeforeBackoff => skips'[p] = 0
                           /\ snapshots'[p] = "ok" => failures'[p] = 0
                           /\ age'[p] = skips'[p]
    BY <1>1, <1>2, <1>3, <1>5, <1>6 DEF IInv, BackoffOK
  <2> QED
    BY <1>1, <1>4, <1>7, <2>1 DEF BackoffOK
<1>11. ResultsOK' /\ ChannelOK' /\ NoLostWakeup'
  BY <1>1 DEF Commit, IInv, ResultsOK, ChannelOK, NoLostWakeup
<1> QED
  BY <1>8, <1>9, <1>10, <1>11 DEF IInv

\* Every step keeps the invariant.
LEMMA NextOK == IInv /\ [Next]_streamVars => IInv'
<1> SUFFICES ASSUME IInv, [Next]_streamVars PROVE IInv'
  OBVIOUS
<1>1. CASE Sweep /\ UNCHANGED tab
  BY <1>1, SweepOK, CommitOK DEF Sweep
<1>2. ASSUME NEW t \in Tab, TabStep(t) PROVE IInv'
  BY <1>2, TabOK
<1>3. ASSUME NEW p \in Proxy, ProxyStep(p) PROVE IInv'
  BY <1>3, ProxyOK
<1>4. CASE UNCHANGED streamVars
  BY <1>4 DEF streamVars, sweepVars, cacheVars, feedVars, IInv, TypeOK,
              CacheMatchesListing, BackoffOK, BackedOff, ResultsOK, ChannelOK,
              NoLostWakeup, Cached
<1> QED
  BY <1>1, <1>2, <1>3, <1>4 DEF Next

\* The inductive invariant of the poller and its streams.
THEOREM StreamInvariance == Spec => []IInv
BY InitOK, NextOK, PTL DEF Spec

\* The poller's state keeps its types: above all, the skip counters never pass
\* backoffEvery - 1.
THEOREM StreamTypeCorrect == Spec => []TypeOK
<1>1. IInv => TypeOK
  BY DEF IInv
<1> QED
  BY StreamInvariance, <1>1, PTL

\* No snapshot that says OK is older than the last sweep, none at all older
\* than the backoff, for any thresholds.
THEOREM SnapshotsFresh == Spec => []NoStaleSnapshot
<1>1. IInv => NoStaleSnapshot
  <2> SUFFICES ASSUME IInv, NEW p \in Cached
               PROVE  /\ snapshots[p] = "ok" => age[p] = 0
                      /\ age[p] <= backoffEvery - 1
    BY DEF NoStaleSnapshot
  <2>1. /\ p \in Proxy /\ skips[p] \in 0..backoffEvery - 1
        /\ failures[p] \in 0..failuresBeforeBackoff
        /\ backoffEvery \in Nat /\ failuresBeforeBackoff \in Nat \ {0}
    BY PollerAssumption DEF IInv, TypeOK, Cached
  <2>2. /\ p \in skip => failures[p] = failuresBeforeBackoff /\ skips[p] > 0
        /\ failures[p] < failuresBeforeBackoff => skips[p] = 0
        /\ snapshots[p] = "ok" => failures[p] = 0
        /\ age[p] = IF p \in skip THEN skips[p] - 1 ELSE skips[p]
    BY <2>1 DEF IInv, BackoffOK
  <2> QED
    BY <2>1, <2>2
<1> QED
  BY StreamInvariance, <1>1, PTL

\* The cache lists exactly the proxies of the last sweep.
THEOREM CacheExact == Spec => []CacheMatchesListing
<1>1. IInv => CacheMatchesListing
  BY DEF IInv
<1> QED
  BY StreamInvariance, <1>1, PTL

\* No tab sleeps through a change of the cache, for any number of tabs.
THEOREM WakeupsKept == Spec => []NoLostWakeup
<1>1. IInv => NoLostWakeup
  BY DEF IInv
<1> QED
  BY StreamInvariance, <1>1, PTL

\* notify never sends on a closed channel.
THEOREM NeverSendsOnClosed == Spec => []NoSendOnClosed
<1>1. IInv => NoSendOnClosed
  BY DEF IInv, TypeOK, ChannelOK, NoSendOnClosed
<1> QED
  BY StreamInvariance, <1>1, PTL

-----------------------------------------------------------------------------
(* The two maps implement the schedule.                                    *)

scheduled == <<failures, [p \in Proxy |-> Waiting(p)], last>>

\* Deciding whom to leave out changes nobody's wait: a sweep being sat out
\* counts as one still to sit out until it commits.
LEMMA DecideStutters ==
    ASSUME IInv, Decide
    PROVE  UNCHANGED scheduled
<1>1. skip = {} /\ failures' = failures /\ last' = last
  BY DEF Decide, IInv, BackoffOK
<1>2. ASSUME NEW p \in Proxy
      PROVE  Waiting(p)' = Waiting(p)
  <2>1. skips[p] \in Nat /\ backoffEvery \in Nat /\ failures[p] \in Nat
        /\ failuresBeforeBackoff \in Nat
    BY PollerAssumption DEF IInv, TypeOK
  <2>2. skips'[p] = IF p \in skip' THEN skips[p] + 1 ELSE skips[p]
    BY DEF Decide
  <2>3. (failures[p])' = failures[p] /\ (skips[p])' = skips'[p]
    BY <1>1
  <2> QED
    BY <1>1, <2>1, <2>2, <2>3 DEF Waiting
<1> QED
  BY <1>1, <1>2 DEF scheduled

\* A sweep that commits has polled those it listed that had nothing left to
\* sit out, and counted what came of it.
LEMMA CommitSweeps ==
    ASSUME IInv, Commit
    PROVE  Schedule!Sweep(proxies, {p \in Proxy : results[p] = "ok"})
<1> DEFINE polled == proxies \ skip
           ok == {p \in Proxy : results[p] = "ok"}
<1>1. /\ polled \subseteq Proxy /\ skip \subseteq proxies /\ proxies \subseteq Proxy
      /\ polled = {p \in Proxy : results[p] # "none"}
      /\ skip' = {} /\ proxies' = proxies
  BY DEF Commit, IInv, TypeOK, BackoffOK, ResultsOK
<1>2. \A p \in Proxy : /\ failures[p] \in 0..failuresBeforeBackoff
                       /\ skips[p] \in 0..backoffEvery - 1
                       /\ backoffEvery \in Nat \ {0} /\ failuresBeforeBackoff \in Nat \ {0}
  BY PollerAssumption DEF IInv, TypeOK
<1>3. \A p \in polled : Waiting(p) = 0
  <2>1. \A p \in polled : ~BackedOff(p)
    BY DEF Commit, IInv, BackoffOK
  <2> QED
    BY <1>1, <1>2, <2>1 DEF BackedOff, Waiting
<1>4. \A p \in skip : Waiting(p) = backoffEvery - skips[p] /\ Waiting(p) > 0
  BY <1>1, <1>2 DEF IInv, BackoffOK, Waiting
<1>5. polled = {p \in proxies : Waiting(p) = 0}
  BY <1>1, <1>3, <1>4
<1>6. ASSUME NEW p \in Proxy
      PROVE  /\ p \in polled => /\ failures'[p] = Schedule!LostAfter(p, p \in ok)
                                /\ skips'[p] = 0
             /\ p \in skip => failures'[p] = failures[p] /\ skips'[p] = skips[p]
             /\ p \notin proxies => failures'[p] = 0 /\ skips'[p] = 0
  <2>1. /\ failures'[p] = IF p \in polled THEN CountedFailures(p)
                          ELSE IF p \in Dropped THEN 0 ELSE failures[p]
        /\ skips'[p] = IF p \in polled \cup Dropped THEN 0 ELSE skips[p]
    BY DEF Commit
  <2>2. CASE p \in polled
    BY <1>1, <2>1, <2>2 DEF CountedFailures, OneMore, Schedule!LostAfter
  <2>3. CASE p \in skip
    BY <1>1, <2>1, <2>3 DEF Dropped
  <2>4. CASE p \notin proxies
    BY <1>1, <2>1, <2>4 DEF Dropped, Cached, IInv, CacheMatchesListing, Commit
  <2> QED
    BY <1>1, <2>2, <2>3, <2>4
<1>7. failures' = [p \in Proxy |-> IF p \in polled THEN Schedule!LostAfter(p, p \in ok)
                                   ELSE IF p \in proxies THEN failures[p]
                                   ELSE 0]
  <2>1. failures' = [p \in Proxy |-> failures'[p]]
    BY DEF Commit
  <2> QED
    BY <1>6, <2>1
<1>8. ASSUME NEW p \in Proxy
      PROVE  Waiting(p)' = IF p \in polled THEN Schedule!WaitAfter(p, p \in ok)
                           ELSE IF p \in proxies THEN Waiting(p) - 1
                           ELSE 0
  <2>1. Waiting(p)' = IF failures'[p] < failuresBeforeBackoff THEN 0
                      ELSE backoffEvery - 1 - skips'[p]
    BY <1>1 DEF Waiting
  <2>2. CASE p \in polled
    <3>1. failures'[p] = Schedule!LostAfter(p, p \in ok) /\ skips'[p] = 0
      BY <1>6, <2>2
    <3>2. Schedule!LostAfter(p, p \in ok) \in 0..failuresBeforeBackoff
      BY <1>2 DEF Schedule!LostAfter
    <3> QED
      BY <1>2, <2>1, <2>2, <3>1, <3>2 DEF Schedule!WaitAfter
  <2>3. CASE p \in skip
    <3>1. failures[p] = failuresBeforeBackoff
      BY <2>3 DEF IInv, BackoffOK
    <3> QED
      BY <1>1, <1>2, <1>4, <1>6, <2>1, <2>3, <3>1
  <2>4. CASE p \notin proxies
    BY <1>1, <1>2, <1>6, <2>1, <2>4
  <2> QED
    BY <2>2, <2>3, <2>4
<1>9. last' = [odd |-> ~last.odd, listed |-> proxies, polled |-> polled]
  BY <1>1 DEF Commit
<1> QED
  BY <1>1, <1>5, <1>7, <1>8, <1>9 DEF Schedule!Sweep

\* Every step but a commit leaves the schedule where it is.
LEMMA ScheduleStep ==
    ASSUME IInv, [Next]_streamVars
    PROVE  [Schedule!Next]_(Schedule!scheduleVars)
<1>1. CASE Decide
  BY <1>1, DecideStutters DEF scheduled, Schedule!scheduleVars
<1>2. CASE Commit
  <2>1. proxies \in SUBSET Proxy /\ {p \in Proxy : results[p] = "ok"} \in SUBSET Proxy
    BY DEF IInv, TypeOK
  <2> QED
    BY <1>2, <2>1, CommitSweeps DEF Schedule!Next
<1>3. ASSUME UNCHANGED <<failures, skips, skip, last>>
      PROVE  [Schedule!Next]_(Schedule!scheduleVars)
  BY <1>3 DEF Schedule!scheduleVars, Waiting
<1>4. CASE ~Decide /\ ~Commit
  <2>1. CASE Sweep /\ UNCHANGED tab
    BY <1>3, <1>4, <2>1 DEF Sweep, ListProxies, PollProxy, Notify, cacheVars
  <2>2. ASSUME NEW t \in Tab, TabStep(t) PROVE UNCHANGED <<failures, skips, skip, last>>
    BY <2>2 DEF TabStep, Connect, Render, Wake, HangUp, Leave, Close, TabUnchanged,
                cacheVars, sweepVars
  <2>3. ASSUME NEW p \in Proxy, ProxyStep(p)
        PROVE  UNCHANGED <<failures, skips, skip, last>>
    BY <2>3 DEF ProxyStep, CreateProxy, DeleteProxy, ComesUp, GoesDown,
                ProxyUnchanged, cacheVars, sweepVars
  <2>4. CASE UNCHANGED streamVars
    BY <1>3, <2>4 DEF streamVars, cacheVars, sweepVars
  <2> QED
    BY <1>3, <2>1, <2>2, <2>3, <2>4 DEF Next
<1> QED
  BY <1>1, <1>2, <1>4

\* The poller implements the backoff schedule, for any number of proxies and
\* any thresholds: every committed sweep polled every proxy it listed that had
\* nothing left to sit out, and no other.
THEOREM ScheduleKept == Spec => KeepsSchedule
<1>1. Init => Schedule!Init
  BY PollerAssumption DEF Init, PollerInit, Waiting, Schedule!Init
<1> QED
  BY <1>1, InitOK, NextOK, ScheduleStep, PTL DEF Spec, KeepsSchedule, Schedule!Spec
=============================================================================
