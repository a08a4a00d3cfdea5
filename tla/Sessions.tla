------------------------------ MODULE Sessions ------------------------------
(***************************************************************************)
(* The admin account, its password and its sessions: Bootstrap at start-   *)
(* up, login, the checks in front of every page, the password change and   *)
(* the logout.  A request is a few database statements; other requests and *)
(* a crash of the panel come between them.                                 *)
(***************************************************************************)
EXTENDS Naturals, FiniteSets, FiniteSetsExt

CONSTANTS
    Client,     \* slots for requests under way
    Token,      \* session tokens, each drawn at most once
    Password,
    TTL,        \* SessionTTL, whole seconds
    Second,     \* ticks of the clock in a second: 10^9
    Places,     \* what a digit of the fraction counts, up to a second: 1, 10, ..., 10^9
    MaxSec,     \* bound: the clock stops at this second
    None

ASSUME SessionAssumption ==
    /\ Second \in Nat \ {0} /\ TTL \in Nat \ {0} /\ MaxSec \in Nat
    /\ Places \subseteq 1..Second /\ {1, Second} \subseteq Places

VARIABLES
    admin,      \* the row of admins, or None
    sessions,   \* [Token -> expires_at of the row of sessions, or None]
    boot,       \* where the panel's start-up stands
    req,        \* [Client -> Request]: where each request stands
    now,
    known,      \* history: passwords that were printed or chosen
    issued,     \* history: [Token -> when its session was stored, or None]
    ended,      \* history: tokens whose logout deleted the row
    cutOff      \* history: the panel stopped with a new password not yet printed

vars == <<admin, sessions, boot, req, now, known, issued, ended, cutOff>>

Time == [sec : Nat, frac : 0..Second - 1]

\* must_change_password is the copy the request read with its session.
Request == [pc : {"idle", "verified", "authed"}, must : BOOLEAN]

Idle == [pc |-> "idle", must |-> FALSE]

Account == [password : Password, must : BOOLEAN]

ASSUME NoneAssumption == None \notin Time \cup Account

-----------------------------------------------------------------------------
(* expires_at and the time it is compared with are text (RFC3339Nano): the *)
(* fraction loses its trailing zeros, and with the last of them its point. *)

\* The worth of the last digit that is left of a fraction.
LastPlace(f) == Max({u \in Places : f % u = 0})

\* The digits left of f are the first digits of g.
StartsWith(g, f) == g - (g % LastPlace(f)) = f

\* Mutant: the times are stored and compared in whole seconds.
WholeSeconds(f, g) == FALSE

\* A text that ends goes on with Z, which sorts after the point and the digits.
FractionAfter(f, g) ==
    \/ f < g /\ StartsWith(g, f)
    \/ f > g /\ ~StartsWith(f, g)

\* Up to the seconds the text has a fixed width.
TextAfter(s, t) == s.sec > t.sec \/ (s.sec = t.sec /\ FractionAfter(s.frac, t.frac))

\* Mutant: expires_at is not compared.
HonouredForever(t) == sessions[t] # None /\ admin # None

\* Store.SessionAdmin: the session joined with its admin, unless expired.
Honoured(t) == sessions[t] # None /\ admin # None /\ TextAfter(sessions[t], now)

Later(t, secs) == [t EXCEPT !.sec = @ + secs]

-----------------------------------------------------------------------------
(* Start-up: Bootstrap, and main printing what it returns.                 *)

\* AdminCount.
Count ==
    /\ boot = "off"
    /\ boot' = IF admin = None THEN "creating" ELSE "up"
    /\ UNCHANGED <<admin, sessions, req, now, known, issued, ended, cutOff>>

\* Mutant: a CreateAdmin that fails is only logged, as main does for Reconcile.
CreateAdminLogged ==
    /\ boot = "creating"
    /\ \/ /\ admin = None
          /\ \E pw \in Password \ known : admin' = [password |-> pw, must |-> TRUE]
          /\ boot' = "created"
       \/ boot' = "up" /\ UNCHANGED admin
    /\ UNCHANGED <<sessions, req, now, known, issued, ended, cutOff>>

\* CreateAdmin, or an error that ends the process: a failed statement, or a
\* user name that is taken (UNIQUE).
CreateAdmin ==
    /\ boot = "creating"
    /\ \/ /\ admin = None
          /\ \E pw \in Password \ known : admin' = [password |-> pw, must |-> TRUE]
          /\ boot' = "created"
       \/ boot' = "off" /\ UNCHANGED admin
    /\ UNCHANGED <<sessions, req, now, known, issued, ended, cutOff>>

PrintPassword ==
    /\ boot = "created"
    /\ boot' = "up"
    /\ known' = known \cup {admin.password}
    /\ UNCHANGED <<admin, sessions, req, now, issued, ended, cutOff>>

\* The panel stops; the database stays and the browsers keep their cookies.
Crash ==
    /\ boot # "off"
    /\ boot' = "off"
    /\ req' = [c \in Client |-> Idle]
    /\ cutOff' = (cutOff \/ boot = "created")
    /\ UNCHANGED <<admin, sessions, now, known, issued, ended>>

-----------------------------------------------------------------------------
(* Requests.                                                               *)

\* Login up to VerifyPassword; only a password somebody knows is typed.
VerifyLogin(c) ==
    /\ req[c] = Idle
    /\ admin.password \in known
    /\ req' = [req EXCEPT ![c] = [pc |-> "verified", must |-> FALSE]]
    /\ UNCHANGED <<admin, sessions, boot, now, known, issued, ended, cutOff>>

\* newToken and CreateSession, or an error of theirs.
StoreSession(c) ==
    /\ req[c].pc = "verified"
    /\ \/ \E t \in Token :
            /\ issued[t] = None
            /\ sessions' = [sessions EXCEPT ![t] = Later(now, TTL)]
            /\ issued' = [issued EXCEPT ![t] = now]
       \/ UNCHANGED <<sessions, issued>>
    /\ req' = [req EXCEPT ![c] = Idle]
    /\ UNCHANGED <<admin, boot, now, known, ended, cutOff>>

\* authed: a cookie that is not honoured is sent to the login page.
Authenticate(c) ==
    /\ req[c] = Idle
    /\ \E t \in Token : Honoured(t)
    /\ req' = [req EXCEPT ![c] = [pc |-> "authed", must |-> admin.must]]
    /\ UNCHANGED <<admin, sessions, boot, now, known, issued, ended, cutOff>>

\* Mutant: a route without requirePassword.
OperateAnyway(c) ==
    /\ req[c].pc = "authed"
    /\ req' = [req EXCEPT ![c] = Idle]
    /\ UNCHANGED <<admin, sessions, boot, now, known, issued, ended, cutOff>>

\* requirePassword and then a page or an operation on the proxies.
Operate(c) ==
    /\ req[c].pc = "authed" /\ ~req[c].must
    /\ req' = [req EXCEPT ![c] = Idle]
    /\ UNCHANGED <<admin, sessions, boot, now, known, issued, ended, cutOff>>

\* Mutant: an empty password is taken too.
ChangePasswordUnchecked(c) ==
    /\ req[c].pc = "authed"
    /\ \E pw \in Password \cup {None} : /\ admin' = [password |-> pw, must |-> FALSE]
                                        /\ known' = known \cup {pw}
    /\ req' = [req EXCEPT ![c] = Idle]
    /\ UNCHANGED <<sessions, boot, now, issued, ended, cutOff>>

\* ChangePassword.  A password too short, a failed statement and a request
\* that requirePassword turns away change nothing.
ChangePassword(c) ==
    /\ req[c].pc = "authed"
    /\ \/ \E pw \in Password : /\ admin' = [password |-> pw, must |-> FALSE]
                               /\ known' = known \cup {pw}
       \/ UNCHANGED <<admin, known>>
    /\ req' = [req EXCEPT ![c] = Idle]
    /\ UNCHANGED <<sessions, boot, now, issued, ended, cutOff>>

\* postLogout: one statement.  If it fails nobody is told, and nothing changes.
Logout(t) ==
    /\ boot = "up" /\ issued[t] # None
    /\ sessions' = [sessions EXCEPT ![t] = None]
    /\ ended' = ended \cup {t}
    /\ UNCHANGED <<admin, boot, req, now, known, issued, cutOff>>

Tick ==
    /\ now' = IF now.frac + 1 < Second THEN [now EXCEPT !.frac = @ + 1]
              ELSE [sec |-> now.sec + 1, frac |-> 0]
    /\ now'.sec <= MaxSec
    /\ UNCHANGED <<admin, sessions, boot, req, known, issued, ended, cutOff>>

Init ==
    /\ admin = None
    /\ sessions = [t \in Token |-> None]
    /\ boot = "off"
    /\ req = [c \in Client |-> Idle]
    /\ now = [sec |-> 0, frac |-> 0]
    /\ known = {}
    /\ issued = [t \in Token |-> None]
    /\ ended = {}
    /\ cutOff = FALSE

Serve(c) ==
    /\ boot = "up"
    /\ \/ VerifyLogin(c) \/ StoreSession(c) \/ Authenticate(c)
       \/ Operate(c) \/ ChangePassword(c)

StartUp == Count \/ CreateAdmin \/ PrintPassword

Next ==
    \/ StartUp \/ Crash \/ Tick
    \/ \E c \in Client : Serve(c)
    \/ \E t \in Token : Logout(t)

Spec == Init /\ [][Next]_vars

-----------------------------------------------------------------------------
(* Properties.                                                             *)

\* Every variable holds values of its kind.
TypeOK ==
    /\ admin \in Account \cup {None}
    /\ sessions \in [Token -> Time \cup {None}]
    /\ boot \in {"off", "creating", "created", "up"}
    /\ req \in [Client -> Request]
    /\ now \in Time
    /\ known \subseteq Password
    /\ issued \in [Token -> Time \cup {None}]
    /\ ended \subseteq Token
    /\ cutOff \in BOOLEAN

\* A cookie opens the panel only if a login got it, its logout has not come yet
\* and SessionTTL has not passed - or has passed by less than the last digit of
\* expires_at is worth, which is what comparing texts costs (CreateSession,
\* SessionAdmin, DeleteSession).
HonouredInTime ==
    \A t \in Token :
        Honoured(t) =>
            /\ issued[t] # None /\ t \notin ended
            /\ LET end == Later(issued[t], TTL) IN
               \/ now.sec < end.sec
               \/ now.sec = end.sec /\ now.frac < end.frac + LastPlace(end.frac)

\* Whatever restarts, password changes and other logouts come in between, a
\* session serves its browser for SessionTTL, less what the last digit of the
\* time it is compared with is worth (SessionAdmin).
HonouredLongEnough ==
    \A t \in Token :
        /\ issued[t] # None /\ t \notin ended
        /\ LET end == Later(issued[t], TTL) IN
           \/ now.sec < end.sec
           \/ now.sec = end.sec /\ now.frac + LastPlace(now.frac) <= end.frac
        => Honoured(t)

\* Nothing is done to the proxies, by any session and however requests
\* interleave, before the printed password was replaced (requirePassword).
ForcedChange == [][\A c \in Client : Operate(c) => ~admin.must]_vars

\* Unless it was stopped between storing the first password and printing it, a
\* panel that serves has an account whose password somebody knows, whatever
\* else fails at start-up and however often it restarts (Bootstrap).
SomebodyCanLogIn ==
    boot = "up" /\ ~cutOff => admin # None /\ admin.password \in known
=============================================================================
