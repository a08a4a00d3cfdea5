------------------------- MODULE LoginLimiterProofs -------------------------
(***************************************************************************)
(* Proofs about the login rate limiter, for any number of addresses and of *)
(* logins at once and any limit, window, cap and length of a sweep.        *)
(***************************************************************************)
EXTENDS LoginLimiter, FiniteSetTheorems, TLAPS

\* The logins that passed the check and will count a failure of ip.
Counting(ip) == {r \in Slot : login[r].pc = "recording" /\ login[r].ip = ip}

\* InFlightBound is not inductive: a count may still grow by the failures that
\* are already past the check.
CountedAndCounting ==
    \A ip \in Live :
        attempts[ip].count + Cardinality(Counting(ip)) < maxAttempts + Cardinality(Slot)

IInv == TypeOK /\ TableBounded /\ CountedAndCounting

-----------------------------------------------------------------------------
\* The slots and the logins among them that will count a failure are finitely many.
LEMMA CountingFinite ==
    ASSUME NEW ip
    PROVE  /\ IsFiniteSet(Counting(ip))
           /\ Cardinality(Counting(ip)) \in Nat
           /\ Cardinality(Slot) \in Nat
           /\ Cardinality(Counting(ip)) <= Cardinality(Slot)
<1>1. Counting(ip) \in SUBSET Slot
  BY DEF Counting
<1> QED
  BY <1>1, FS_Subset, FS_CardinalityType, LimiterAssumption

\* Deleting records keeps the table within its cap.
LEMMA FewerRecords ==
    ASSUME NEW S, NEW T, T \subseteq S, IsFiniteSet(S),
           NEW n \in Nat, Cardinality(S) <= n
    PROVE  /\ IsFiniteSet(T) /\ Cardinality(T) \in Nat
           /\ Cardinality(T) <= Cardinality(S) /\ Cardinality(T) <= n
BY FS_Subset, FS_CardinalityType

\* The first steps of a login only ever remove an expired record; what they add
\* to the logins counting is added while the count is below the limit.
LEMMA BeginOK ==
    ASSUME IInv, NEW r \in Slot, NEW ip \in IP, Begin(r, ip)
    PROVE  IInv'
<1>1. attempts' \in [IP -> Record \cup {NoRecord}]
      /\ \A i \in IP : (attempts'[i] = attempts[i] \/ (i = ip /\ i \notin Live /\ attempts'[i] = NoRecord))
  BY DEF IInv, TypeOK, Begin, WithoutExpired, Live, Tracked, Entries
<1>2. Tracked' \subseteq Tracked /\ Live' \subseteq Live
      /\ \A i \in Live' : attempts'[i] = attempts[i]
  BY <1>1 DEF Tracked, Entries, Live, Expired
<1>3. TypeOK'
  BY <1>1 DEF IInv, TypeOK, Begin, Login, LoginPc
<1>4. TableBounded'
  BY <1>2, FewerRecords, LimiterAssumption DEF IInv, TableBounded
<1>5. \A i \in IP \ {ip} : Counting(i)' \subseteq Counting(i)
  BY DEF Begin, Counting, IInv, TypeOK
<1>6. ip \in Live' => attempts[ip].count < maxAttempts
  <2> SUFFICES ASSUME ip \in Live' PROVE attempts[ip].count < maxAttempts
    OBVIOUS
  <2>1. ip \in Live /\ attempts[ip].count \in Nat
    BY <1>2, NoRecordAssumption DEF IInv, TypeOK, Record, Live, Tracked, Entries
  <2> QED
    BY <2>1, LimiterAssumption DEF Begin, Limited
<1>7. CountedAndCounting'
  <2> SUFFICES ASSUME NEW i \in Live'
               PROVE  attempts'[i].count + Cardinality(Counting(i)') < maxAttempts + Cardinality(Slot)
    BY DEF CountedAndCounting
  <2>1. i \in IP /\ i \in Live /\ attempts'[i] = attempts[i] /\ attempts[i].count \in Nat
    BY <1>2 DEF IInv, TypeOK, Record, Live, Tracked, Entries
  <2>2. Counting(i)' \subseteq Slot
    BY DEF Counting
  <2>3. Cardinality(Counting(i)') \in Nat /\ Cardinality(Counting(i)') <= Cardinality(Slot)
        /\ Cardinality(Slot) \in Nat
    BY <2>2, FS_Subset, FS_CardinalityType, LimiterAssumption
  <2>4. CASE i = ip
    BY <2>1, <2>3, <2>4, <1>6, LimiterAssumption
  <2>5. CASE i # ip
    <3>1. Cardinality(Counting(i)') <= Cardinality(Counting(i)) /\ Cardinality(Counting(i)) \in Nat
      BY <2>1, <2>5, <1>5, CountingFinite, FS_Subset
    <3> QED
      BY <3>1, <2>1, <2>3, LimiterAssumption DEF IInv, CountedAndCounting
  <2> QED
    BY <2>4, <2>5
<1> QED
  BY <1>3, <1>4, <1>7 DEF IInv

-----------------------------------------------------------------------------
\* A sweep removes expired records and nothing else.
LEMMA SweptOK ==
    ASSUME TypeOK, NEW scanned \in Scans
    PROVE  /\ Swept(scanned) \in [IP -> Record \cup {NoRecord}]
           /\ \A i \in IP : \/ Swept(scanned)[i] = attempts[i]
                            \/ i \in scanned \ Live /\ Swept(scanned)[i] = NoRecord
           /\ \A i \in Live : Swept(scanned)[i] = attempts[i]
           /\ Entries(Swept(scanned)) = Tracked \ (scanned \ Live)
BY DEF TypeOK, Swept, Entries, Tracked, Live, Scans

\* What a further failure makes of a record.
LEMMA FailedOnOK ==
    ASSUME NEW record \in Record
    PROVE  /\ FailedOn(record) \in Record
           /\ Expired(record) => FailedOn(record).count = 1
           /\ ~Expired(record) => /\ FailedOn(record).count = record.count + 1
                                  /\ FailedOn(record).age = record.age
BY LimiterAssumption DEF FailedOn, FirstFailure, Record, Expired

\* A recorded failure adds at most its own address to the table, and only below
\* the cap; every other record is what the sweep left.
LEMMA FailureOK ==
    ASSUME NEW table \in [IP -> Record \cup {NoRecord}], NEW ip \in IP
    PROVE  /\ Failure(table, ip) \in [IP -> Record \cup {NoRecord}]
           /\ \A i \in IP \ {ip} : Failure(table, ip)[i] = table[i]
           /\ table[ip] # NoRecord => Failure(table, ip)[ip] = FailedOn(table[ip])
           /\ table[ip] = NoRecord =>
                \/ /\ Failure(table, ip) = table
                   /\ Cardinality(Entries(table)) >= maxTrackedIPs
                \/ /\ Failure(table, ip)[ip] = FirstFailure
                   /\ ~(Cardinality(Entries(table)) >= maxTrackedIPs)
<1>1. FirstFailure \in Record
  BY LimiterAssumption DEF FirstFailure, Record
<1>2. table[ip] # NoRecord => table[ip] \in Record /\ FailedOn(table[ip]) \in Record
  BY FailedOnOK
<1> QED
  BY <1>1, <1>2 DEF Failure, Entries

LEMMA RecordFailureOK ==
    ASSUME IInv, NEW r \in Slot, RecordFailure(r)
    PROVE  IInv'
<1> PICK ip \in IP : ip = login[r].ip
  BY DEF IInv, TypeOK, Login
<1> PICK scanned \in Scans : attempts' = Failure(Swept(scanned), ip)
  BY DEF RecordFailure
<1> PICK table : table = Swept(scanned)
  OBVIOUS
<1>1. /\ table \in [IP -> Record \cup {NoRecord}]
      /\ \A i \in IP : table[i] = attempts[i] \/ (i \in scanned \ Live /\ table[i] = NoRecord)
      /\ \A i \in Live : table[i] = attempts[i]
      /\ Entries(table) = Tracked \ (scanned \ Live)
  BY SweptOK DEF IInv
<1>2. /\ attempts' \in [IP -> Record \cup {NoRecord}]
      /\ \A i \in IP \ {ip} : attempts'[i] = table[i]
      /\ table[ip] # NoRecord => attempts'[ip] = FailedOn(table[ip])
      /\ table[ip] = NoRecord =>
            \/ attempts' = table /\ Cardinality(Entries(table)) >= maxTrackedIPs
            \/ attempts'[ip] = FirstFailure /\ ~(Cardinality(Entries(table)) >= maxTrackedIPs)
  <2>1. attempts' = Failure(table, ip) /\ table \in [IP -> Record \cup {NoRecord}]
    BY <1>1
  <2> QED
    BY <2>1, FailureOK
<1>3. TypeOK'
  <2>1. recent' \in [0..attemptWindow -> 0..maxAttempts]
    BY LimiterAssumption DEF RecordFailure, Logged, AtMost, IInv, TypeOK
  <2>2. login' \in [Slot -> Login]
    BY DEF RecordFailure, Goto, Login, LoginPc, IInv, TypeOK
  <2> QED
    BY <1>2, <2>1, <2>2 DEF TypeOK
<1>4. TableBounded'
  <2>1. /\ IsFiniteSet(Entries(table)) /\ Cardinality(Entries(table)) \in Nat
        /\ Cardinality(Entries(table)) <= maxTrackedIPs
    BY <1>1, FewerRecords, LimiterAssumption DEF IInv, TableBounded
  <2>2. CASE Tracked' \subseteq Entries(table)
    BY <2>1, <2>2, FewerRecords, LimiterAssumption DEF TableBounded
  <2>3. CASE ~(Tracked' \subseteq Entries(table))
    <3>1. /\ Tracked' = Entries(table) \cup {ip}
          /\ ~(Cardinality(Entries(table)) >= maxTrackedIPs)
      BY <2>3, <1>1, <1>2 DEF Tracked, Entries
    <3>2. /\ IsFiniteSet(Entries(table) \cup {ip})
          /\ Cardinality(Entries(table) \cup {ip}) <= Cardinality(Entries(table)) + 1
      <4>1. /\ IsFiniteSet(Entries(table) \cup {ip})
            /\ Cardinality(Entries(table) \cup {ip}) =
                 IF ip \in Entries(table) THEN Cardinality(Entries(table))
                 ELSE Cardinality(Entries(table)) + 1
        BY <2>1, FS_AddElement, Zenon
      <4> QED
        BY <4>1, <2>1
    <3>3. Cardinality(Entries(table) \cup {ip}) \in Nat
      BY <3>2, FS_CardinalityType
    <3>4. IsFiniteSet(Tracked') /\ Cardinality(Tracked') <= maxTrackedIPs
      BY <3>1, <3>2, <3>3, <2>1, LimiterAssumption
    <3> QED
      BY <3>4 DEF TableBounded
  <2> QED
    BY <2>2, <2>3
<1>5. CountedAndCounting'
  <2> SUFFICES ASSUME NEW i \in Live'
               PROVE  attempts'[i].count + Cardinality(Counting(i)') < maxAttempts + Cardinality(Slot)
    BY DEF CountedAndCounting
  <2>0. i \in IP /\ attempts'[i] # NoRecord /\ ~Expired(attempts'[i])
    BY DEF Live, Tracked, Entries
  <2>1. Counting(i)' = Counting(i) \ {r} /\ (i = ip => r \in Counting(i))
    BY DEF RecordFailure, Goto, Counting, IInv, TypeOK
  <2>2. /\ Cardinality(Counting(i)') \in Nat /\ Cardinality(Counting(i)) \in Nat
        /\ Cardinality(Slot) \in Nat /\ Cardinality(Counting(i)) <= Cardinality(Slot)
        /\ Cardinality(Counting(i)') <= Cardinality(Counting(i))
        /\ i = ip => Cardinality(Counting(i)') = Cardinality(Counting(i)) - 1
    <3>1. /\ IsFiniteSet(Counting(i) \ {r})
          /\ Cardinality(Counting(i) \ {r}) =
               IF r \in Counting(i) THEN Cardinality(Counting(i)) - 1 ELSE Cardinality(Counting(i))
      BY CountingFinite, FS_RemoveElement
    <3>2. Cardinality(Counting(i) \ {r}) \in Nat
      BY <3>1, FS_CardinalityType
    <3> QED
      BY <2>1, <3>1, <3>2, CountingFinite
  <2>3. CASE i # ip
    <3>1. attempts'[i] = attempts[i] /\ i \in Live
      BY <2>0, <2>3, <1>1, <1>2 DEF Live, Tracked, Entries
    <3>2. attempts[i].count \in Nat
      BY <3>1 DEF IInv, TypeOK, Record, Live, Tracked, Entries
    <3> QED
      BY <3>1, <3>2, <2>2, LimiterAssumption DEF IInv, CountedAndCounting
  <2>4. CASE i = ip /\ ip \in Live
    <3>1. attempts[ip] \in Record /\ ~Expired(attempts[ip]) /\ table[ip] = attempts[ip]
      BY <2>4, <1>1 DEF IInv, TypeOK, Live, Tracked, Entries
    <3>2. attempts'[ip].count = attempts[ip].count + 1 /\ attempts[ip].count \in Nat
      BY <3>1, <1>2, FailedOnOK, NoRecordAssumption DEF Record
    <3> QED
      BY <3>2, <2>2, <2>4, LimiterAssumption DEF IInv, CountedAndCounting
  <2>5. CASE i = ip /\ ip \notin Live
    <3>1. attempts'[ip].count = 1
      <4>1. CASE table[ip] # NoRecord
        <5>1. table[ip] \in Record /\ Expired(table[ip])
          BY <4>1, <2>5, <1>1 DEF Live, Tracked, Entries
        <5> QED
          BY <5>1, <4>1, <1>2, FailedOnOK
      <4>2. CASE table[ip] = NoRecord
        BY <4>2, <1>2, <2>0, <2>5 DEF FirstFailure
      <4> QED
        BY <4>1, <4>2
    <3> QED
      BY <3>1, <2>2, <2>5, LimiterAssumption
  <2> QED
    BY <2>3, <2>4, <2>5
<1> QED
  BY <1>3, <1>4, <1>5 DEF IInv

-----------------------------------------------------------------------------
\* Steps that add no record, renew none and add no login that will count.
LEMMA QuietOK ==
    ASSUME IInv, TypeOK', Live' \subseteq Live, Tracked' \subseteq Tracked,
           \A i \in Live' : attempts'[i].count = attempts[i].count,
           \A i \in IP : Counting(i)' \subseteq Counting(i)
    PROVE  IInv'
<1>1. TableBounded'
  BY FewerRecords, LimiterAssumption DEF IInv, TableBounded
<1>2. CountedAndCounting'
  <2> SUFFICES ASSUME NEW i \in Live'
               PROVE  attempts'[i].count + Cardinality(Counting(i)') < maxAttempts + Cardinality(Slot)
    BY DEF CountedAndCounting
  <2>1. i \in IP /\ attempts[i].count \in Nat
    BY DEF IInv, TypeOK, Record, Live, Tracked, Entries
  <2>2. /\ Cardinality(Counting(i)') <= Cardinality(Counting(i))
        /\ Cardinality(Counting(i)') \in Nat /\ Cardinality(Counting(i)) \in Nat
        /\ Cardinality(Slot) \in Nat
    BY <2>1, CountingFinite, FS_Subset, FS_CardinalityType
  <2> QED
    BY <2>1, <2>2, LimiterAssumption DEF IInv, CountedAndCounting
<1> QED
  BY <1>1, <1>2 DEF IInv

LEMMA StoreSessionOK ==
    ASSUME IInv, NEW r \in Slot, StoreSession(r)
    PROVE  IInv'
<1>1. TypeOK' /\ Live' = Live /\ Tracked' = Tracked /\ attempts' = attempts
  BY DEF StoreSession, Goto, IInv, TypeOK, Login, LoginPc, Live, Tracked, Entries
<1>2. \A i \in IP : Counting(i)' \subseteq Counting(i)
  <2>1. \E pc \in {"clearing", "idle"} : login' = [login EXCEPT ![r].pc = pc]
    BY DEF StoreSession, Goto
  <2> QED
    BY <2>1 DEF Counting, IInv, TypeOK
<1> QED
  BY <1>1, <1>2, QuietOK

LEMMA ClearFailuresOK ==
    ASSUME IInv, NEW r \in Slot, ClearFailures(r)
    PROVE  IInv'
<1>1. TypeOK'
  BY DEF ClearFailures, Goto, IInv, TypeOK, Login, LoginPc
<1>2. Live' \subseteq Live /\ Tracked' \subseteq Tracked
      /\ \A i \in Live' : attempts'[i] = attempts[i]
  BY DEF ClearFailures, Live, Tracked, Entries, IInv, TypeOK
<1>3. \A i \in IP : Counting(i)' \subseteq Counting(i)
  BY DEF ClearFailures, Goto, Counting, IInv, TypeOK
<1> QED
  BY <1>1, <1>2, <1>3, QuietOK

LEMMA OlderOK ==
    ASSUME NEW record \in Record
    PROVE  /\ Older(record) \in Record /\ Older(record).count = record.count
           /\ Older(record).age >= record.age
           /\ Expired(record) => Expired(Older(record))
BY LimiterAssumption DEF Older, AtMost, Record, Expired

LEMMA TickOK ==
    ASSUME IInv, Tick
    PROVE  IInv'
<1>1. \A i \in IP : \/ attempts[i] = NoRecord /\ attempts'[i] = NoRecord
                    \/ attempts[i] \in Record /\ attempts'[i] = Older(attempts[i])
  BY DEF Tick, Tracked, Entries, IInv, TypeOK
<1>2. TypeOK'
  <2>1. attempts' \in [IP -> Record \cup {NoRecord}]
    <3>1. \A i \in IP : attempts'[i] \in Record \cup {NoRecord}
      BY <1>1, OlderOK
    <3> QED
      BY <3>1 DEF Tick
  <2>2. recent' \in [0..attemptWindow -> 0..maxAttempts]
    BY LimiterAssumption DEF Tick, IInv, TypeOK
  <2> QED
    BY <2>1, <2>2 DEF Tick, IInv, TypeOK
<1>3. Tracked' \subseteq Tracked /\ Live' \subseteq Live
      /\ \A i \in Live' : attempts'[i].count = attempts[i].count
  <2>1. \A i \in Tracked' : /\ i \in Tracked /\ attempts[i] \in Record
                             /\ attempts'[i] = Older(attempts[i])
    <3> SUFFICES ASSUME NEW i \in IP, attempts'[i] # NoRecord
                 PROVE  /\ attempts[i] # NoRecord /\ attempts[i] \in Record
                        /\ attempts'[i] = Older(attempts[i])
      BY DEF Tracked, Entries
    <3> QED
      BY <1>1, NoRecordAssumption
  <2>2. \A i \in Live' : i \in Tracked' /\ ~Expired(attempts'[i])
    BY DEF Live
  <2>3. \A i \in Live' : /\ i \in Tracked /\ ~Expired(attempts[i])
                          /\ attempts'[i].count = attempts[i].count
    BY <2>1, <2>2, OlderOK
  <2> QED
    BY <2>1, <2>3 DEF Live, Tracked, Entries
<1>4. \A i \in IP : Counting(i)' = Counting(i)
  BY DEF Tick, Counting
<1> QED
  BY <1>2, <1>3, <1>4, QuietOK

LEMMA InitOK == Init => IInv
<1> SUFFICES ASSUME Init PROVE IInv
  OBVIOUS
<1>1. TypeOK
  BY LimiterAssumption DEF Init, TypeOK, Login, LoginPc
<1>2. Tracked = {} /\ Live = {}
  BY DEF Init, Tracked, Live, Entries
<1>3. TableBounded
  BY <1>2, FS_EmptySet, LimiterAssumption DEF TableBounded
<1> QED
  BY <1>1, <1>2, <1>3 DEF IInv, CountedAndCounting

LEMMA NextOK == IInv /\ [Next]_vars => IInv'
<1> SUFFICES ASSUME IInv, [Next]_vars PROVE IInv'
  OBVIOUS
<1>1. CASE \E r \in Slot : Step(r)
  <2> PICK r \in Slot : Step(r)
    BY <1>1
  <2> QED
    BY BeginOK, RecordFailureOK, StoreSessionOK, ClearFailuresOK DEF Step
<1>2. CASE Tick
  BY <1>2, TickOK
<1>3. CASE UNCHANGED vars
  BY <1>3 DEF vars, IInv, TypeOK, TableBounded, CountedAndCounting, Counting,
              Live, Tracked, Entries, Expired
<1> QED
  BY <1>1, <1>2, <1>3 DEF Next

LEMMA Inductive == Spec => []IInv
BY InitOK, NextOK, PTL DEF Spec

-----------------------------------------------------------------------------
\* Every variable keeps its type (Auth.attempts).
THEOREM TypeCorrect == Spec => []TypeOK
<1>1. IInv => TypeOK
  BY DEF IInv
<1> QED
  BY <1>1, Inductive, PTL

\* The table never outgrows its cap (recordFailure), whatever the sweep looks at.
THEOREM Bounded == Spec => []TableBounded
<1>1. IInv => TableBounded
  BY DEF IInv
<1> QED
  BY <1>1, Inductive, PTL

\* Of n logins at once at most n get past the limit they were all checked
\* against (Login).
THEOREM BoundedOvershoot == Spec => []InFlightBound
<1>1. IInv => InFlightBound
  <2> SUFFICES ASSUME IInv, NEW ip \in Live
               PROVE  attempts[ip].count < maxAttempts + Cardinality(Slot)
    BY DEF InFlightBound
  <2>1. attempts[ip].count \in Nat
    BY DEF IInv, TypeOK, Record, Live, Tracked, Entries
  <2> QED
    BY <2>1, CountingFinite, LimiterAssumption DEF IInv, CountedAndCounting
<1> QED
  BY <1>1, Inductive, PTL

-----------------------------------------------------------------------------
\* What a recorded failure does to a record within its window.
LEMMA RecordFailureKeeps ==
    ASSUME TypeOK, NEW r \in Slot, RecordFailure(r), NEW i \in Live
    PROVE  /\ attempts'[i] # NoRecord
           /\ attempts'[i].count >= attempts[i].count
           /\ attempts'[i].age >= attempts[i].age
<1> PICK ip \in IP : ip = login[r].ip
  BY DEF TypeOK, Login
<1> PICK scanned \in Scans : attempts' = Failure(Swept(scanned), ip)
  BY DEF RecordFailure
<1>1. /\ i \in IP /\ attempts[i] \in Record /\ ~Expired(attempts[i])
      /\ attempts[i].count \in Nat /\ attempts[i].age \in Nat
  BY LimiterAssumption DEF TypeOK, Live, Tracked, Entries, Record
<1>2. Swept(scanned) \in [IP -> Record \cup {NoRecord}] /\ Swept(scanned)[i] = attempts[i]
  BY SweptOK
<1>3. CASE i = ip
  <2>1. attempts'[i] = FailedOn(attempts[i])
    BY <1>1, <1>2, <1>3, FailureOK, NoRecordAssumption
  <2> QED
    BY <2>1, <1>1, FailedOnOK, NoRecordAssumption
<1>4. CASE i # ip
  <2>1. attempts'[i] = attempts[i]
    BY <1>1, <1>2, <1>4, FailureOK
  <2> QED
    BY <2>1, <1>1, NoRecordAssumption
<1> QED
  BY <1>3, <1>4

\* No address' record is weakened but by a login from that address (recordFailure).
THEOREM LiveRecordsAreKept == Spec => LiveRecordKept
<1> DEFINE Kept(i) == \/ /\ attempts'[i] # NoRecord
                         /\ attempts'[i].count >= attempts[i].count
                         /\ attempts'[i].age >= attempts[i].age
                      \/ \E r \in Slot : /\ login[r] = [pc |-> "clearing", ip |-> i]
                                         /\ login'[r].pc = "idle"
<1>1. ASSUME TypeOK, Next, NEW i \in Live PROVE Kept(i)
  <2>1. /\ i \in IP /\ attempts[i] # NoRecord /\ attempts[i] \in Record
        /\ attempts[i].count \in Nat /\ attempts[i].age \in Nat
    BY <1>1, LimiterAssumption DEF TypeOK, Live, Tracked, Entries, Record
  <2>2. CASE attempts'[i] = attempts[i]
    BY <2>1, <2>2
  <2>3. ASSUME NEW r \in Slot, NEW ip \in IP, Begin(r, ip) PROVE Kept(i)
    <3>1. attempts'[i] = attempts[i]
      BY <1>1, <2>1, <2>3 DEF Begin, WithoutExpired, TypeOK
    <3> QED
      BY <3>1, <2>2
  <2>4. ASSUME NEW r \in Slot, RecordFailure(r) PROVE Kept(i)
    BY <1>1, <2>4, RecordFailureKeeps
  <2>5. ASSUME NEW r \in Slot, StoreSession(r) PROVE Kept(i)
    <3>1. attempts'[i] = attempts[i]
      BY <2>5 DEF StoreSession
    <3> QED
      BY <3>1, <2>2
  <2>6. ASSUME NEW r \in Slot, ClearFailures(r) PROVE Kept(i)
    <3>1. CASE login[r].ip = i
      <4>1. login[r] = [pc |-> "clearing", ip |-> i] /\ login'[r].pc = "idle"
        BY <1>1, <2>6, <3>1 DEF ClearFailures, Goto, TypeOK, Login
      <4> QED
        BY <4>1
    <3>2. CASE login[r].ip # i
      <4>1. attempts'[i] = attempts[i]
        BY <1>1, <2>1, <2>6, <3>2 DEF ClearFailures, TypeOK
      <4> QED
        BY <4>1, <2>2
    <3> QED
      BY <3>1, <3>2
  <2>7. CASE Tick
    <3>1. attempts'[i] = Older(attempts[i])
      BY <2>1, <2>7 DEF Tick, Tracked, Entries
    <3> QED
      BY <3>1, <2>1, OlderOK, NoRecordAssumption
  <2> HIDE DEF Kept
  <2> QED
    BY <1>1, <2>3, <2>4, <2>5, <2>6, <2>7 DEF Next, Step
<1> DEFINE AllKept == \A ip \in Live :
          \/ /\ attempts'[ip] # NoRecord
             /\ attempts'[ip].count >= attempts[ip].count
             /\ attempts'[ip].age >= attempts[ip].age
          \/ \E r \in Slot : /\ login[r] = [pc |-> "clearing", ip |-> ip]
                             /\ login'[r].pc = "idle"
<1>2. TypeOK /\ [Next]_vars => [AllKept]_vars
  BY <1>1
<1> QED
  BY <1>2, TypeCorrect, PTL DEF Spec, LiveRecordKept

-----------------------------------------------------------------------------
\* A failure that leaves no record found a table that is full of live records
\* as far as the sweep could see (recordFailure, evictExpiredLocked).
LEMMA UnrecordedFoundCrowd ==
    ASSUME IInv, NEW r \in Slot, RecordFailure(r), attempts'[login[r].ip] = NoRecord
    PROVE  Cardinality(Live) >= AtMost(sweepScan, maxTrackedIPs)
<1> PICK ip \in IP : ip = login[r].ip
  BY DEF IInv, TypeOK, Login
<1> PICK scanned \in Scans : attempts' = Failure(Swept(scanned), ip)
  BY DEF RecordFailure
<1>1. /\ Swept(scanned) \in [IP -> Record \cup {NoRecord}]
      /\ Entries(Swept(scanned)) = Tracked \ (scanned \ Live)
  BY SweptOK DEF IInv
<1>2. Cardinality(Tracked \ (scanned \ Live)) >= maxTrackedIPs
  <2>1. FirstFailure # NoRecord
    BY LimiterAssumption, NoRecordAssumption DEF FirstFailure, Record
  <2>2. Swept(scanned)[ip] = NoRecord
    <3>1. Swept(scanned)[ip] # NoRecord => FailedOn(Swept(scanned)[ip]) \in Record
      BY <1>1, FailedOnOK
    <3> QED
      BY <3>1, <1>1, FailureOK, NoRecordAssumption
  <2> QED
    BY <2>1, <2>2, <1>1, FailureOK
<1>3. /\ IsFiniteSet(Tracked) /\ Cardinality(Tracked) \in Nat
      /\ Cardinality(Tracked) <= maxTrackedIPs
  BY FS_CardinalityType DEF IInv, TableBounded
<1>4. scanned \subseteq Live /\ Cardinality(Tracked) = maxTrackedIPs
  <2>1. /\ Cardinality(Tracked \ (scanned \ Live)) \in Nat
        /\ Cardinality(Tracked \ (scanned \ Live)) <= Cardinality(Tracked)
        /\ Cardinality(Tracked \ (scanned \ Live)) = Cardinality(Tracked)
             => Tracked = Tracked \ (scanned \ Live)
    BY <1>3, FS_Subset, FS_CardinalityType
  <2>2. Tracked = Tracked \ (scanned \ Live) /\ Cardinality(Tracked) = maxTrackedIPs
    BY <2>1, <1>2, <1>3, LimiterAssumption
  <2> QED
    BY <2>2 DEF Scans
<1>5. Cardinality(scanned) = AtMost(sweepScan, maxTrackedIPs)
  BY <1>4 DEF Scans
<1>6. /\ IsFiniteSet(Live) /\ Cardinality(Live) \in Nat
      /\ Cardinality(scanned) <= Cardinality(Live)
  <2>1. IsFiniteSet(Live)
    BY <1>3, FS_Subset DEF Live
  <2> QED
    BY <2>1, <1>4, FS_Subset, FS_CardinalityType
<1> QED
  BY <1>5, <1>6, LimiterAssumption DEF AtMost

THEOREM OnlyACrowdGoesUnrecorded == Spec => UnrecordedOnlyInACrowd
<1> DEFINE Crowd == \A r \in Slot :
                       /\ login[r].pc = "recording" /\ login'[r].pc = "idle"
                       /\ attempts'[login[r].ip] = NoRecord
                       => Cardinality(Live) >= AtMost(sweepScan, maxTrackedIPs)
<1>1. IInv /\ [Next]_vars => [Crowd]_vars
  <2> SUFFICES ASSUME IInv, Next, NEW r \in Slot,
                      login[r].pc = "recording", login'[r].pc = "idle",
                      attempts'[login[r].ip] = NoRecord
               PROVE  Cardinality(Live) >= AtMost(sweepScan, maxTrackedIPs)
    OBVIOUS
  <2>1. RecordFailure(r)
    BY DEF Next, Step, Begin, RecordFailure, StoreSession, ClearFailures, Tick, Goto,
           IInv, TypeOK, Login
  <2> QED
    BY <2>1, UnrecordedFoundCrowd
<1> QED
  BY <1>1, Inductive, PTL DEF Spec, UnrecordedOnlyInACrowd

-----------------------------------------------------------------------------
(* Behind LimitedWithCause: what a live record counts happened since it was *)
(* opened.                                                                 *)

\* More happened in more ticks.
Cumulative == \A a, b \in 0..attemptWindow : a <= b => recent[a] <= recent[b]

\* Watched's record counts no more than the failures since its first.
CountsRecent ==
    Watched \in Live =>
        recent[attempts[Watched].age] >= AtMost(attempts[Watched].count, maxAttempts)

CauseInv == Cumulative /\ CountsRecent

\* The record of Watched, when it is live.
LEMMA WatchedLive ==
    ASSUME TypeOK
    PROVE  /\ Watched \in Live <=> attempts[Watched] # NoRecord /\ ~Expired(attempts[Watched])
           /\ Watched \in Live =>
                /\ attempts[Watched] \in Record /\ attempts[Watched].count \in Nat \ {0}
                /\ attempts[Watched].age \in 0..attemptWindow
<1>1. Watched \in Live <=> attempts[Watched] # NoRecord /\ ~Expired(attempts[Watched])
  BY LimiterAssumption DEF Live, Tracked, Entries
<1>2. Watched \in Live => attempts[Watched] \in Record
  BY <1>1, LimiterAssumption DEF TypeOK
<1>3. \A record \in Record :
        record.count \in Nat \ {0} /\ (~Expired(record) => record.age \in 0..attemptWindow)
  BY LimiterAssumption DEF Record, Expired
<1> QED
  BY <1>1, <1>2, <1>3

\* A step that leaves the history alone, and Watched's record alone or deletes it.
LEMMA CauseUntouched ==
    ASSUME TypeOK, TypeOK', CauseInv, recent' = recent,
           attempts'[Watched] \in {attempts[Watched], NoRecord}
    PROVE  CauseInv'
<1>1. Cumulative'
  BY DEF CauseInv, Cumulative
<1>2. Watched \in Live' => Watched \in Live /\ attempts'[Watched] = attempts[Watched]
  BY WatchedLive, LimiterAssumption DEF Live, Tracked, Entries, Expired
<1>3. CountsRecent'
  BY <1>2 DEF CauseInv, CountsRecent
<1> QED
  BY <1>1, <1>3 DEF CauseInv

\* A failure is counted in the record and in the history alike; one that opens
\* a new window starts from one.
LEMMA RecordFailureCaused ==
    ASSUME TypeOK, TypeOK', CauseInv, NEW r \in Slot, RecordFailure(r)
    PROVE  CauseInv'
<1> PICK ip \in IP : ip = login[r].ip
  BY DEF TypeOK, Login
<1> PICK scanned \in Scans : attempts' = Failure(Swept(scanned), ip)
  BY DEF RecordFailure
<1> PICK table : table = Swept(scanned)
  OBVIOUS
<1>1. /\ table \in [IP -> Record \cup {NoRecord}]
      /\ \A i \in IP : table[i] = attempts[i] \/ (i \in scanned \ Live /\ table[i] = NoRecord)
  BY SweptOK
<1>2. /\ \A i \in IP \ {ip} : attempts'[i] = table[i]
      /\ table[ip] # NoRecord => attempts'[ip] = FailedOn(table[ip])
      /\ table[ip] = NoRecord => attempts'[ip] \in {NoRecord, FirstFailure}
  BY <1>1, FailureOK
<1>3. CASE ip # Watched
  <2>1. recent' = recent /\ attempts'[Watched] \in {attempts[Watched], NoRecord}
    BY <1>1, <1>2, <1>3, LimiterAssumption DEF RecordFailure, Logged
  <2> QED
    BY <2>1, CauseUntouched
<1>4. CASE ip = Watched
  <2>1. \A a \in 0..attemptWindow :
          /\ recent[a] \in Nat /\ recent'[a] = AtMost(recent[a] + 1, maxAttempts)
    BY <1>4 DEF RecordFailure, Logged, TypeOK
  <2>2. Cumulative'
    BY <2>1, LimiterAssumption DEF CauseInv, Cumulative, AtMost
  <2>3. CountsRecent'
    <3> SUFFICES ASSUME Watched \in Live'
                 PROVE  recent'[attempts'[Watched].age]
                          >= AtMost(attempts'[Watched].count, maxAttempts)
      BY DEF CountsRecent
    <3>1. CASE Watched \in Live
      <4>1. attempts[Watched] \in Record /\ attempts[Watched].age \in 0..attemptWindow
            /\ attempts[Watched].count \in Nat \ {0} /\ ~Expired(attempts[Watched])
        BY <3>1, WatchedLive
      <4>2. table[Watched] = attempts[Watched] /\ table[Watched] # NoRecord
        BY <1>1, <3>1, <4>1, NoRecordAssumption, LimiterAssumption
      <4>3. /\ attempts'[Watched].count = attempts[Watched].count + 1
            /\ attempts'[Watched].age = attempts[Watched].age
        BY <1>2, <1>4, <4>1, <4>2, FailedOnOK
      <4>4. recent[attempts[Watched].age] >= AtMost(attempts[Watched].count, maxAttempts)
        BY <3>1 DEF CauseInv, CountsRecent
      <4> QED
        BY <2>1, <4>1, <4>3, <4>4, LimiterAssumption DEF AtMost
    <3>2. CASE Watched \notin Live
      <4>1. attempts'[Watched] # NoRecord /\ ~Expired(attempts'[Watched])
        BY DEF Live, Tracked, Entries
      <4>2. attempts'[Watched] = FirstFailure
        <5>1. CASE table[Watched] # NoRecord
          <6>1. table[Watched] = attempts[Watched] /\ Expired(attempts[Watched])
            BY <1>1, <3>2, <5>1, LimiterAssumption DEF Live, Tracked, Entries
          <6> QED
            BY <1>2, <1>4, <5>1, <6>1 DEF FailedOn
        <5>2. CASE table[Watched] = NoRecord
          BY <1>2, <1>4, <4>1, <5>2
        <5> QED
          BY <5>1, <5>2
      <4>3. attempts'[Watched].count = 1 /\ attempts'[Watched].age = 0
        BY <4>2 DEF FirstFailure
      <4> QED
        BY <2>1, <4>3, LimiterAssumption DEF AtMost
    <3> QED
      BY <3>1, <3>2
  <2> QED
    BY <2>2, <2>3 DEF CauseInv
<1> QED
  BY <1>3, <1>4

\* The record and the history age together.
LEMMA TickCaused ==
    ASSUME TypeOK, TypeOK', CauseInv, Tick
    PROVE  CauseInv'
<1>1. \A a \in 0..attemptWindow :
        /\ recent'[a] = IF a = 0 THEN 0 ELSE recent[a - 1]
        /\ recent[a] \in Nat
  BY DEF Tick, TypeOK
<1>2. Cumulative'
  <2> SUFFICES ASSUME NEW a \in 0..attemptWindow, NEW b \in 0..attemptWindow, a <= b
               PROVE  recent'[a] <= recent'[b]
    BY DEF Cumulative
  <2>1. CASE a = 0
    <3>1. b # 0 => b - 1 \in 0..attemptWindow
      BY LimiterAssumption
    <3> QED
      BY <1>1, <2>1, <3>1
  <2>2. CASE a # 0
    <3>1. a - 1 \in 0..attemptWindow /\ b - 1 \in 0..attemptWindow /\ a - 1 <= b - 1 /\ b # 0
      BY <2>2, LimiterAssumption
    <3>2. recent[a - 1] <= recent[b - 1]
      BY <3>1 DEF CauseInv, Cumulative
    <3> QED
      BY <1>1, <2>2, <3>1, <3>2
  <2> QED
    BY <2>1, <2>2
<1>3. CountsRecent'
  <2> SUFFICES ASSUME Watched \in Live'
               PROVE  recent'[attempts'[Watched].age]
                        >= AtMost(attempts'[Watched].count, maxAttempts)
    BY DEF CountsRecent
  <2>1. attempts'[Watched] # NoRecord /\ ~Expired(attempts'[Watched])
    BY DEF Live, Tracked, Entries
  <2>2. attempts[Watched] # NoRecord /\ attempts[Watched] \in Record
        /\ attempts'[Watched] = Older(attempts[Watched])
    BY <2>1, LimiterAssumption DEF Tick, Tracked, Entries, TypeOK
  <2>3. Watched \in Live
    BY <2>1, <2>2, OlderOK, WatchedLive
  <2>4. /\ attempts[Watched].age \in 0..attemptWindow
        /\ attempts[Watched].age + 1 \in 0..attemptWindow
        /\ attempts'[Watched].age = attempts[Watched].age + 1
        /\ attempts'[Watched].count = attempts[Watched].count
    <3>1. attempts[Watched].age \in 0..attemptWindow
      BY <2>3, WatchedLive
    <3>2. /\ attempts'[Watched].age = AtMost(attempts[Watched].age + 1, attemptWindow + 1)
          /\ attempts'[Watched].count = attempts[Watched].count
      BY <2>2 DEF Older, Record
    <3> QED
      BY <2>1, <3>1, <3>2, LimiterAssumption DEF Expired, AtMost
  <2>5. recent[attempts[Watched].age] >= AtMost(attempts[Watched].count, maxAttempts)
    BY <2>3 DEF CauseInv, CountsRecent
  <2>6. recent'[attempts'[Watched].age] = recent[attempts[Watched].age]
    BY <1>1, <2>4
  <2> QED
    BY <2>4, <2>5, <2>6
<1> QED
  BY <1>2, <1>3 DEF CauseInv

LEMMA NextCaused ==
    ASSUME TypeOK, TypeOK', CauseInv, [Next]_vars
    PROVE  CauseInv'
<1>1. ASSUME NEW r \in Slot, NEW ip \in IP, Begin(r, ip) PROVE CauseInv'
  <2>1. recent' = recent /\ attempts'[Watched] \in {attempts[Watched], NoRecord}
    BY <1>1, LimiterAssumption DEF Begin, WithoutExpired, TypeOK
  <2> QED
    BY <2>1, CauseUntouched
<1>2. ASSUME NEW r \in Slot, RecordFailure(r) PROVE CauseInv'
  BY <1>2, RecordFailureCaused
<1>3. ASSUME NEW r \in Slot, StoreSession(r) \/ ClearFailures(r) PROVE CauseInv'
  <2>1. recent' = recent /\ attempts'[Watched] \in {attempts[Watched], NoRecord}
    BY <1>3, LimiterAssumption DEF StoreSession, ClearFailures, TypeOK
  <2> QED
    BY <2>1, CauseUntouched
<1>4. CASE Tick
  BY <1>4, TickCaused
<1>5. CASE UNCHANGED vars
  BY <1>5, CauseUntouched DEF vars
<1> QED
  BY <1>1, <1>2, <1>3, <1>4, <1>5 DEF Next, Step

\* An address is limited only for maxAttempts failures of its own within the
\* last window (limited, recordFailure, evictExpiredLocked).
THEOREM LimitsAreCaused == Spec => []LimitedWithCause
<1>1. Init => CauseInv
  <2> SUFFICES ASSUME Init PROVE CauseInv
    OBVIOUS
  <2>1. Watched \notin Live
    BY LimiterAssumption DEF Init, Live, Tracked, Entries
  <2> QED
    BY <2>1 DEF Init, CauseInv, Cumulative, CountsRecent
<1>2. TypeOK /\ TypeOK' /\ CauseInv /\ [Next]_vars => CauseInv'
  BY NextCaused
<1>3. TypeOK /\ CauseInv => LimitedWithCause
  <2> SUFFICES ASSUME TypeOK, CauseInv, Limited(Watched)
               PROVE  recent[attemptWindow] = maxAttempts
    BY DEF LimitedWithCause
  <2>1. Watched \in Live /\ attempts[Watched].count >= maxAttempts
    BY DEF Limited
  <2>2. attempts[Watched].age \in 0..attemptWindow /\ attempts[Watched].count \in Nat
    BY <2>1, WatchedLive
  <2>3. recent[attempts[Watched].age] >= maxAttempts
    BY <2>1, <2>2, LimiterAssumption DEF CauseInv, CountsRecent, AtMost
  <2>4. recent[attempts[Watched].age] <= recent[attemptWindow]
    BY <2>2, LimiterAssumption DEF CauseInv, Cumulative
  <2>5. /\ recent[attemptWindow] \in 0..maxAttempts
        /\ recent[attempts[Watched].age] \in 0..maxAttempts
    BY <2>2, LimiterAssumption DEF TypeOK
  <2> QED
    BY <2>3, <2>4, <2>5, LimiterAssumption
<1> QED
  BY <1>1, <1>2, <1>3, TypeCorrect, PTL DEF Spec
=============================================================================
