--------------------------- MODULE SessionsProofs ---------------------------
(***************************************************************************)
(* Proofs about the admin account and its sessions, for any number of      *)
(* requests and sessions at once, any SessionTTL and any clock.            *)
(***************************************************************************)
EXTENDS Sessions, WellFoundedInduction, TLAPS

\* A row of sessions stands from its login to its logout and keeps its expiry.
SessionRows ==
    \A t \in Token :
        /\ sessions[t] # None <=> issued[t] # None /\ t \notin ended
        /\ sessions[t] # None => sessions[t] = Later(issued[t], TTL)

\* Only a token that was issued is logged out.
EndedWereIssued == \A t \in ended : issued[t] # None

\* Who has a session, a password or a request has the account.
AccountKept ==
    /\ boot = "creating" => admin = None
    /\ boot \in {"created", "up"} => admin # None
    /\ \A t \in Token : issued[t] # None => admin # None

\* Only a stop between storing and printing leaves a password nobody knows.
PasswordKnown ==
    admin # None /\ ~cutOff /\ boot # "created" => admin.password \in known

\* What a request read of must_change_password is as the row has it, or older.
Copies ==
    \A c \in Client : /\ req[c] # Idle => boot = "up"
                      /\ req[c].pc = "authed" /\ ~req[c].must => ~admin.must

IInv ==
    /\ TypeOK /\ SessionRows /\ EndedWereIssued /\ AccountKept
    /\ Copies /\ PasswordKnown

-----------------------------------------------------------------------------
\* A set of numbers up to n has its maximum for a member.
LEMMA MaxIsMember ==
    ASSUME NEW S, NEW n \in Nat, S \subseteq 0..n, S # {}
    PROVE  Max(S) \in S
<1> DEFINE T == {n - u : u \in S}
<1>1. \A u \in S : u \in Nat /\ n - u \in Nat
  OBVIOUS
<1>2. T \subseteq Nat /\ T # {}
  BY <1>1
<1>3. PICK x \in T : \A y \in T : ~(<<y, x>> \in OpToRel(<, Nat))
  BY <1>2, NatLessThanWellFounded, WFMin
<1>4. \A y \in T : ~(y < x)
  BY <1>2, <1>3 DEF OpToRel
<1>5. PICK m \in S : x = n - m
  OBVIOUS
<1>6. \A u \in S : m >= u
  <2> SUFFICES ASSUME NEW u \in S PROVE m >= u
    OBVIOUS
  <2>1. ~(n - u < n - m)
    BY <1>4, <1>5
  <2>2. u \in Nat /\ m \in Nat
    BY <1>1
  <2> QED
    BY <2>1, <2>2
<1> QED
  BY <1>6 DEF Max

\* The last digit of a fraction is worth something.
LEMMA LastPlaceOK ==
    ASSUME NEW f \in 0..Second - 1
    PROVE  LastPlace(f) \in Nat \ {0}
<1> DEFINE S == {u \in Places : f % u = 0}
<1>1. f % 1 = 0
  OBVIOUS
<1>2. 1 \in S /\ S \subseteq Places
  BY <1>1, SessionAssumption
<1>3. Second \in Nat /\ Places \subseteq 0..Second
  BY SessionAssumption
<1>4. Max(S) \in S
  <2> HIDE DEF S
  <2> QED
    BY <1>2, <1>3, MaxIsMember
<1>5. Max(S) \in 1..Second
  <2> HIDE DEF S
  <2> QED
    BY <1>2, <1>4, SessionAssumption
<1>6. LastPlace(f) = Max(S)
  BY DEF LastPlace
<1> QED
  <2> HIDE DEF S
  <2> QED
    BY <1>3, <1>5, <1>6

\* The order of the texts is the order of the times, except for fractions that
\* lie closer together than the last digit of the earlier one is worth.
LEMMA TextCloseToTime ==
    ASSUME NEW f \in 0..Second - 1, NEW g \in 0..Second - 1
    PROVE  /\ FractionAfter(f, g) => g < f + LastPlace(f)
           /\ g + LastPlace(g) <= f => FractionAfter(f, g)
<1>1. f \in Nat /\ g \in Nat
  BY SessionAssumption
<1>2. PICK u \in Nat \ {0}, v \in Nat \ {0} : u = LastPlace(f) /\ v = LastPlace(g)
  BY LastPlaceOK
<1>3. g % u \in 0..u - 1 /\ f % v \in 0..v - 1
  BY <1>1
<1>4. FractionAfter(f, g) => g < f + u
  BY <1>1, <1>2, <1>3 DEF FractionAfter, StartsWith
<1>5. g + v <= f => FractionAfter(f, g)
  BY <1>1, <1>2, <1>3 DEF FractionAfter, StartsWith
<1> QED
  BY <1>2, <1>4, <1>5

\* A time some seconds later is a time, with the same fraction.
LEMMA LaterOK ==
    ASSUME NEW t \in Time, NEW secs \in Nat
    PROVE  Later(t, secs) \in Time /\ Later(t, secs) # None
           /\ Later(t, secs).sec = t.sec + secs /\ Later(t, secs).frac = t.frac
BY NoneAssumption DEF Later, Time

\* The start-up and a crash touch neither the sessions nor the clock.
LEMMA StartUpOK ==
    ASSUME IInv, StartUp \/ Crash
    PROVE  IInv'
<1>1. UNCHANGED <<sessions, now, issued, ended>>
  BY DEF StartUp, Count, CreateAdmin, PrintPassword, Crash
<1>2. SessionRows' /\ EndedWereIssued'
  BY <1>1 DEF IInv, SessionRows, EndedWereIssued
<1>3. CASE Count
  <2>1. UNCHANGED <<admin, req, known, cutOff>> /\ boot = "off"
        /\ boot' = IF admin = None THEN "creating" ELSE "up"
    BY <1>3 DEF Count
  <2> QED
    BY <1>1, <1>2, <2>1 DEF IInv, TypeOK, AccountKept, Copies, PasswordKnown
<1>4. CASE CreateAdmin
  <2>1. UNCHANGED <<req, known, cutOff>> /\ boot = "creating" /\ admin = None
    BY <1>4 DEF CreateAdmin, IInv, AccountKept
  <2>2. \/ admin' \in Account /\ boot' = "created"
        \/ admin' = admin /\ boot' = "off"
    <3>1. ASSUME NEW pw \in Password PROVE [password |-> pw, must |-> TRUE] \in Account
      BY DEF Account
    <3> QED
      BY <1>4, <3>1 DEF CreateAdmin
  <2>3. \A c \in Client : req[c] = Idle
    BY <2>1 DEF IInv, Copies
  <2> QED
    BY <1>1, <1>2, <2>1, <2>2, <2>3, NoneAssumption
       DEF IInv, TypeOK, AccountKept, Copies, PasswordKnown, Idle
<1>5. CASE PrintPassword
  <2>1. UNCHANGED <<admin, req, cutOff>> /\ boot = "created" /\ boot' = "up"
        /\ known' = known \cup {admin.password} /\ admin \in Account
    BY <1>5 DEF PrintPassword, IInv, TypeOK, AccountKept
  <2> QED
    BY <1>1, <1>2, <2>1, NoneAssumption
       DEF IInv, TypeOK, AccountKept, Copies, PasswordKnown, Account
<1>6. CASE Crash
  <2>1. UNCHANGED <<admin, known>> /\ boot' = "off" /\ req' = [c \in Client |-> Idle]
        /\ cutOff' = (cutOff \/ boot = "created") /\ cutOff' \in BOOLEAN
    BY <1>6 DEF Crash
  <2> QED
    BY <1>1, <1>2, <2>1 DEF IInv, TypeOK, AccountKept, Copies, PasswordKnown, Idle, Request
<1> QED
  BY <1>3, <1>4, <1>5, <1>6 DEF StartUp

LEMMA StoreSessionOK ==
    ASSUME IInv, boot = "up", NEW c \in Client, StoreSession(c)
    PROVE  IInv'
<1>1. UNCHANGED <<admin, boot, now, known, ended, cutOff>> /\ req' = [req EXCEPT ![c] = Idle]
      /\ admin # None
  BY DEF StoreSession, IInv, AccountKept
<1>2. Copies' /\ PasswordKnown' /\ req' \in [Client -> Request]
  BY <1>1 DEF IInv, TypeOK, Copies, PasswordKnown, Idle, Request
<1>3. CASE UNCHANGED <<sessions, issued>>
  BY <1>1, <1>2, <1>3 DEF IInv, TypeOK, SessionRows, EndedWereIssued, AccountKept
<1>4. CASE \E t \in Token :
              /\ issued[t] = None
              /\ sessions' = [sessions EXCEPT ![t] = Later(now, TTL)]
              /\ issued' = [issued EXCEPT ![t] = now]
  <2> PICK t \in Token : /\ issued[t] = None
                         /\ sessions' = [sessions EXCEPT ![t] = Later(now, TTL)]
                         /\ issued' = [issued EXCEPT ![t] = now]
    BY <1>4
  <2>1. now \in Time /\ now # None /\ Later(now, TTL) \in Time /\ Later(now, TTL) # None
    BY LaterOK, SessionAssumption, NoneAssumption DEF IInv, TypeOK
  <2>2. TypeOK'
    BY <1>1, <1>2, <2>1 DEF IInv, TypeOK
  <2>3. t \notin ended
    BY DEF IInv, EndedWereIssued
  <2>4. SessionRows'
    BY <1>1, <2>1, <2>3 DEF IInv, TypeOK, SessionRows
  <2>5. AccountKept'
    BY <1>1 DEF IInv, AccountKept
  <2> QED
    BY <1>2, <2>2, <2>3, <2>4, <2>5, <1>1 DEF IInv, EndedWereIssued
<1> QED
  BY <1>3, <1>4 DEF StoreSession

\* The other steps of a request leave the sessions alone.
LEMMA RequestOK ==
    ASSUME IInv, boot = "up", NEW c \in Client,
           VerifyLogin(c) \/ Authenticate(c) \/ Operate(c) \/ ChangePassword(c)
    PROVE  IInv'
<1>1. UNCHANGED <<sessions, boot, now, issued, ended, cutOff>>
  BY DEF VerifyLogin, Authenticate, Operate, ChangePassword
<1>2. SessionRows' /\ EndedWereIssued'
  BY <1>1 DEF IInv, SessionRows, EndedWereIssued
<1>3. admin \in Account /\ admin # None /\ admin.must \in BOOLEAN
  BY DEF IInv, TypeOK, AccountKept, Account
<1>4. CASE UNCHANGED <<admin, known>>
  <2>1. ASSUME NEW r \in Request, req' = [req EXCEPT ![c] = r],
               r.pc = "authed" /\ ~r.must => ~admin.must
        PROVE  IInv'
    BY <1>1, <1>2, <1>4, <2>1 DEF IInv, TypeOK, AccountKept, Copies, PasswordKnown
  <2>2. CASE VerifyLogin(c)
    <3> DEFINE r == [pc |-> "verified", must |-> FALSE]
    <3>1. r \in Request /\ r.pc # "authed"
      BY DEF Request
    <3>2. req' = [req EXCEPT ![c] = r]
      BY <2>2 DEF VerifyLogin
    <3> QED
      BY <3>1, <3>2, <2>1
  <2>3. CASE Authenticate(c)
    <3> DEFINE r == [pc |-> "authed", must |-> admin.must]
    <3>1. r \in Request /\ r.must = admin.must
      BY <1>3 DEF Request
    <3>2. req' = [req EXCEPT ![c] = r]
      BY <2>3 DEF Authenticate
    <3> QED
      BY <3>1, <3>2, <2>1
  <2>4. CASE Operate(c) \/ ChangePassword(c)
    <3>1. req' = [req EXCEPT ![c] = Idle]
      BY <2>4 DEF Operate, ChangePassword
    <3>2. Idle \in Request /\ Idle.pc # "authed"
      BY DEF Idle, Request
    <3> QED
      BY <3>1, <3>2, <2>1
  <2> QED
    BY <2>2, <2>3, <2>4
<1>5. CASE ~(UNCHANGED <<admin, known>>)
  <2>1. PICK pw \in Password : admin' = [password |-> pw, must |-> FALSE] /\ known' = known \cup {pw}
    BY <1>5 DEF VerifyLogin, Authenticate, Operate, ChangePassword
  <2>2. req' = [req EXCEPT ![c] = Idle]
    BY <1>5 DEF VerifyLogin, Authenticate, Operate, ChangePassword
  <2>3. admin' \in Account /\ admin' # None /\ admin'.password = pw /\ admin'.must = FALSE
    <3> DEFINE new == [password |-> pw, must |-> FALSE]
    <3>1. new \in Account /\ new.password = pw /\ new.must = FALSE
      BY DEF Account
    <3> HIDE DEF new
    <3> QED
      BY <3>1, <2>1, NoneAssumption DEF new
  <2> QED
    BY <1>1, <1>2, <2>1, <2>2, <2>3
       DEF IInv, TypeOK, AccountKept, Copies, PasswordKnown, Idle, Request
<1> QED
  BY <1>4, <1>5

LEMMA LogoutOK ==
    ASSUME IInv, NEW t \in Token, Logout(t)
    PROVE  IInv'
<1>1. /\ UNCHANGED <<admin, boot, req, now, known, issued, cutOff>> /\ issued[t] # None
      /\ sessions' = [sessions EXCEPT ![t] = None] /\ ended' = ended \cup {t}
  BY DEF Logout
<1>2. TypeOK' /\ EndedWereIssued'
  BY <1>1 DEF IInv, TypeOK, EndedWereIssued
<1>3. SessionRows'
  BY <1>1 DEF IInv, TypeOK, SessionRows
<1> QED
  BY <1>1, <1>2, <1>3 DEF IInv, AccountKept, Copies, PasswordKnown

LEMMA TickOK ==
    ASSUME IInv, Tick
    PROVE  IInv'
<1>1. UNCHANGED <<admin, sessions, boot, req, known, issued, ended, cutOff>> /\ now' \in Time
  BY SessionAssumption DEF Tick, Time, IInv, TypeOK
<1> QED
  BY <1>1 DEF IInv, TypeOK, SessionRows, EndedWereIssued, AccountKept, Copies, PasswordKnown

LEMMA InitOK == Init => IInv
<1> SUFFICES ASSUME Init PROVE IInv
  OBVIOUS
<1>1. now \in Time
  BY SessionAssumption DEF Init, Time
<1>2. TypeOK
  BY <1>1 DEF Init, TypeOK, Idle, Request
<1>3. SessionRows /\ EndedWereIssued /\ AccountKept /\ PasswordKnown
  BY DEF Init, SessionRows, EndedWereIssued, AccountKept, PasswordKnown
<1>4. Copies
  BY DEF Init, Copies, Idle
<1> QED
  BY <1>2, <1>3, <1>4 DEF IInv

LEMMA NextOK == IInv /\ [Next]_vars => IInv'
<1> SUFFICES ASSUME IInv, [Next]_vars PROVE IInv'
  OBVIOUS
<1>1. CASE \E c \in Client : Serve(c)
  BY <1>1, StoreSessionOK, RequestOK DEF Serve
<1>2. CASE UNCHANGED vars
  BY <1>2 DEF vars, IInv, TypeOK, SessionRows, EndedWereIssued, AccountKept, Copies,
              PasswordKnown
<1> QED
  BY <1>1, <1>2, StartUpOK, LogoutOK, TickOK DEF Next

LEMMA Inductive == Spec => []IInv
BY InitOK, NextOK, PTL DEF Spec

-----------------------------------------------------------------------------
\* Every variable keeps its type.
THEOREM TypeCorrect == Spec => []TypeOK
<1>1. IInv => TypeOK
  BY DEF IInv
<1> QED
  BY <1>1, Inductive, PTL

\* A cookie is honoured for SessionTTL, from its login to its logout, and past
\* it for less than the last digit of expires_at is worth (SessionAdmin).
THEOREM HonouredNoLonger == Spec => []HonouredInTime
<1>1. IInv => HonouredInTime
  <2> SUFFICES ASSUME IInv, NEW t \in Token, Honoured(t)
               PROVE  /\ issued[t] # None /\ t \notin ended
                      /\ LET end == Later(issued[t], TTL) IN
                         \/ now.sec < end.sec
                         \/ now.sec = end.sec /\ now.frac < end.frac + LastPlace(end.frac)
    BY DEF HonouredInTime
  <2>1. issued[t] # None /\ t \notin ended /\ issued[t] \in Time /\ now \in Time
        /\ sessions[t] = Later(issued[t], TTL)
    BY DEF IInv, TypeOK, SessionRows, Honoured
  <2> DEFINE end == Later(issued[t], TTL)
  <2>2. end \in Time
    BY <2>1, LaterOK, SessionAssumption
  <2>3. now.sec < end.sec \/ (now.sec = end.sec /\ FractionAfter(end.frac, now.frac))
    BY <2>1, <2>2 DEF Honoured, TextAfter, Time
  <2>4. FractionAfter(end.frac, now.frac) => now.frac < end.frac + LastPlace(end.frac)
    BY <2>1, <2>2, TextCloseToTime DEF Time
  <2> QED
    BY <2>1, <2>3, <2>4
<1> QED
  BY <1>1, Inductive, PTL

\* It is honoured for SessionTTL, less what the last digit of the time it is
\* compared with is worth (SessionAdmin).
THEOREM HonouredNoShorter == Spec => []HonouredLongEnough
<1>1. IInv => HonouredLongEnough
  <2> DEFINE end(t) == Later(issued[t], TTL)
  <2> SUFFICES ASSUME IInv, NEW t \in Token, issued[t] # None, t \notin ended,
                      \/ now.sec < end(t).sec
                      \/ /\ now.sec = end(t).sec
                         /\ now.frac + LastPlace(now.frac) <= end(t).frac
               PROVE  Honoured(t)
    BY DEF HonouredLongEnough
  <2>1. /\ issued[t] \in Time /\ now \in Time /\ admin # None
        /\ sessions[t] # None /\ sessions[t] = end(t)
    BY DEF IInv, TypeOK, SessionRows, AccountKept
  <2>2. end(t) \in Time
    BY <2>1, LaterOK, SessionAssumption
  <2>3. now.frac + LastPlace(now.frac) <= end(t).frac => FractionAfter(end(t).frac, now.frac)
    BY <2>1, <2>2, TextCloseToTime DEF Time
  <2> QED
    BY <2>1, <2>2, <2>3 DEF Honoured, TextAfter, Time
<1> QED
  BY <1>1, Inductive, PTL

\* No session does anything to the proxies before the first password was
\* replaced (requirePassword).
THEOREM FirstPasswordReplaced == Spec => ForcedChange
<1> DEFINE Replaced == \A c \in Client : Operate(c) => ~admin.must
<1>1. IInv /\ [Next]_vars => [Replaced]_vars
  BY DEF IInv, Copies, Operate
<1> QED
  BY <1>1, Inductive, PTL DEF Spec, ForcedChange

\* A panel that serves has an account with a password somebody knows, unless it
\* was stopped between storing the first password and printing it (Bootstrap).
THEOREM SomebodyLogsIn == Spec => []SomebodyCanLogIn
<1>1. IInv => SomebodyCanLogIn
  BY DEF IInv, AccountKept, PasswordKnown, SomebodyCanLogIn
<1> QED
  BY <1>1, Inductive, PTL
=============================================================================
