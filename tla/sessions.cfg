SPECIFICATION Spec
CONSTANTS
    Client = {a, b}
    Token = {t1, t2}
    Password = {pw1, pw2}
    TTL = 2
    Second = 4
    Places = {1, 2, 4}
    MaxSec = 4
    None = None
SYMMETRY Symmetry
INVARIANTS TypeOK HonouredInTime HonouredLongEnough SomebodyCanLogIn
PROPERTIES ForcedChange
