SPECIFICATION Spec
CONSTANTS
    Proxy = {p1, p2}
    Cid = {c1, c2}
    Port = {1, 2, 3}
    Domain = {d1}
    Limits = {l1}
    Nil = Nil
    EmptyDir = EmptyDir
    Req = {r1}
    Boot = Boot
    ReservedPorts = {3}
    BadDomain = {}
    BadLimits = {}
    Ops = {"create", "delete", "limits", "recreate", "orphan"}
    Faults = {"crash", "restart"}
SYMMETRY Symmetry
INVARIANTS NothingLeftBehind CidHonest
PROPERTIES RestartRecovers AckedNeverLost LedgerKept
CHECK_DEADLOCK FALSE
