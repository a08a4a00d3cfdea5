---------------------------- MODULE LoginLimiter ----------------------------
(***************************************************************************)
(* Auth.Login with the table of failed attempts it keeps per address.      *)
(* Every critical section under mu is one step; the password check and the *)
(* database statements happen between two of them.  The table lives in     *)
(* memory: a panel that restarts is again in an initial state.             *)
(***************************************************************************)
EXTENDS Naturals, FiniteSets

CONSTANTS
    IP,             \* client addresses
    Slot,           \* slots for logins under way
    maxAttempts,    \* failures after which an address is limited
    attemptWindow,  \* ticks a record counts for
    maxTrackedIPs,  \* records the table may hold
    sweepScan,      \* records one sweep inspects
    NoRecord,       \* no entry in the map
    Watched         \* the address whose failures the history variable logs

ASSUME LimiterAssumption ==
    /\ IsFiniteSet(Slot)
    /\ maxAttempts \in Nat \ {0} /\ attemptWindow \in Nat
    /\ maxTrackedIPs \in Nat \ {0} /\ sweepScan \in Nat \ {0}
    /\ Watched \in IP

VARIABLES
    attempts,   \* [IP -> Record or NoRecord]
    login,      \* [Slot -> Login]: where each login stands
    recent      \* history: recent[a] is how often Watched failed in the last a ticks,
                \* up to maxAttempts

vars == <<attempts, login, recent>>

\* age is the time since first; past the window it no longer matters.
Record == [count : Nat \ {0}, age : 0..attemptWindow + 1]

ASSUME NoRecordAssumption == NoRecord \notin Record

LoginPc == {"idle", "recording", "storing", "clearing"}

Login == [pc : LoginPc, ip : IP]

Goto(r, pc) == login' = [login EXCEPT ![r].pc = pc]

-----------------------------------------------------------------------------
(* The table.                                                              *)

Entries(table) == {ip \in IP : table[ip] # NoRecord}

Tracked == Entries(attempts)

Expired(record) == record.age > attemptWindow

Live == {ip \in Tracked : ~Expired(attempts[ip])}

\* Mutant: one attempt too many.
LimitedLate(ip) == ip \in Live /\ attempts[ip].count > maxAttempts

Limited(ip) == ip \in Live /\ attempts[ip].count >= maxAttempts

\* What limited(ip) leaves: an expired record of that address is deleted.
WithoutExpired(ip) ==
    IF ip \in Tracked \ Live THEN [attempts EXCEPT ![ip] = NoRecord] ELSE attempts

AtMost(m, n) == IF m < n THEN m ELSE n

\* evictExpiredLocked ranges over the map, which Go does in no fixed order, and
\* stops after sweepScan entries.
Scans == {S \in SUBSET Tracked :
             Cardinality(S) = AtMost(sweepScan, Cardinality(Tracked))}

\* Mutant: no sweep.
Unswept(scanned) == attempts

Swept(scanned) ==
    [ip \in IP |-> IF ip \in scanned \ Live THEN NoRecord ELSE attempts[ip]]

FirstFailure == [count |-> 1, age |-> 0]

\* Mutants: a new window that keeps the old count, or starts at zero.
FailedOnKeeping(record) ==
    IF Expired(record) THEN [record EXCEPT !.count = @ + 1, !.age = 0]
    ELSE [record EXCEPT !.count = @ + 1]

FailedOnZero(record) ==
    IF Expired(record) THEN [count |-> 0, age |-> 0] ELSE [record EXCEPT !.count = @ + 1]

\* A further failure of an address with a record: a new window if it expired.
FailedOn(record) ==
    IF Expired(record) THEN FirstFailure ELSE [record EXCEPT !.count = @ + 1]

\* Mutants: no cap; room is made at the cost of some other record.
FailureUncapped(table, ip) ==
    [table EXCEPT ![ip] = IF ip \in Entries(table) THEN FailedOn(@) ELSE FirstFailure]

FailureEvicting(table, ip) ==
    IF ip \in Entries(table) THEN [table EXCEPT ![ip] = FailedOn(@)]
    ELSE IF Cardinality(Entries(table)) >= maxTrackedIPs
    THEN [table EXCEPT ![CHOOSE i \in Entries(table) : TRUE] = NoRecord, ![ip] = FirstFailure]
    ELSE [table EXCEPT ![ip] = FirstFailure]

\* A full table has no room for a new address, whose failure goes unrecorded.
Failure(table, ip) ==
    IF ip \in Entries(table) THEN [table EXCEPT ![ip] = FailedOn(@)]
    ELSE IF Cardinality(Entries(table)) >= maxTrackedIPs THEN table
    ELSE [table EXCEPT ![ip] = FirstFailure]

-----------------------------------------------------------------------------
(* Auth.Login.                                                             *)

\* A limited address is turned away and nothing changes.  Otherwise the name
\* and the password are looked up and compared, and they fit or they do not.
Begin(r, ip) ==
    /\ login[r].pc = "idle"
    /\ ~Limited(ip)
    /\ attempts' = WithoutExpired(ip)
    /\ \E pc \in {"recording", "storing"} : login' = [login EXCEPT ![r] = [pc |-> pc, ip |-> ip]]
    /\ UNCHANGED recent

Logged(ip) ==
    IF ip = Watched THEN [a \in 0..attemptWindow |-> AtMost(recent[a] + 1, maxAttempts)]
    ELSE recent

RecordFailure(r) ==
    /\ login[r].pc = "recording"
    /\ \E scanned \in Scans : attempts' = Failure(Swept(scanned), login[r].ip)
    /\ recent' = Logged(login[r].ip)
    /\ Goto(r, "idle")

\* newToken and CreateSession, either of which may fail.
StoreSession(r) ==
    /\ login[r].pc = "storing"
    /\ Goto(r, "clearing") \/ Goto(r, "idle")
    /\ UNCHANGED <<attempts, recent>>

ClearFailures(r) ==
    /\ login[r].pc = "clearing"
    /\ attempts' = [attempts EXCEPT ![login[r].ip] = NoRecord]
    /\ Goto(r, "idle")
    /\ UNCHANGED recent

\* A tick of the clock.
Older(record) == [record EXCEPT !.age = AtMost(@ + 1, attemptWindow + 1)]

Tick ==
    /\ attempts' = [ip \in IP |-> IF ip \in Tracked THEN Older(attempts[ip]) ELSE NoRecord]
    /\ recent' = [a \in 0..attemptWindow |-> IF a = 0 THEN 0 ELSE recent[a - 1]]
    /\ UNCHANGED login

Init ==
    /\ attempts = [ip \in IP |-> NoRecord]
    /\ login = [r \in Slot |-> [pc |-> "idle", ip |-> Watched]]
    /\ recent = [a \in 0..attemptWindow |-> 0]

Step(r) ==
    \/ \E ip \in IP : Begin(r, ip)
    \/ RecordFailure(r) \/ StoreSession(r) \/ ClearFailures(r)

Next == (\E r \in Slot : Step(r)) \/ Tick

Spec == Init /\ [][Next]_vars

-----------------------------------------------------------------------------
(* Properties.                                                             *)

\* The table, the logins and the history hold values of their kinds.
TypeOK ==
    /\ attempts \in [IP -> Record \cup {NoRecord}]
    /\ login \in [Slot -> Login]
    /\ recent \in [0..attemptWindow -> 0..maxAttempts]

\* However fast failures come and however few of the records a sweep looks at,
\* the table never outgrows its cap (recordFailure).
TableBounded == IsFiniteSet(Tracked) /\ Cardinality(Tracked) <= maxTrackedIPs

\* Whatever other addresses do, a record within its window is neither dropped
\* nor weakened nor renewed; only a login from its own address clears it
\* (recordFailure: only expired entries make room).
LiveRecordKept ==
    [][\A ip \in Live :
          \/ /\ attempts'[ip] # NoRecord
             /\ attempts'[ip].count >= attempts[ip].count
             /\ attempts'[ip].age >= attempts[ip].age
          \/ \E r \in Slot : /\ login[r] = [pc |-> "clearing", ip |-> ip]
                             /\ login'[r].pc = "idle"]_vars

\* The check and the count are two critical sections: logins under way together
\* all pass the check.  No more of them than there are at once, though, get past
\* the limit (Login: limited, then recordFailure).
InFlightBound ==
    \A ip \in Live : attempts[ip].count < maxAttempts + Cardinality(Slot)

\* An address goes unrecorded only when at least a whole sweep's worth of other
\* addresses has live records: expired ones do not keep the table full
\* (recordFailure, evictExpiredLocked).
UnrecordedOnlyInACrowd ==
    [][\A r \in Slot :
          /\ login[r].pc = "recording" /\ login'[r].pc = "idle"
          /\ attempts'[login[r].ip] = NoRecord
          => Cardinality(Live) >= AtMost(sweepScan, maxTrackedIPs)]_vars

\* An address is limited only if it failed maxAttempts times within the last
\* window: neither an expired record nor another address's counts against it
\* (limited, recordFailure and the sweep each test for expiry by themselves).
LimitedWithCause == Limited(Watched) => recent[attemptWindow] = maxAttempts
=============================================================================
