SPECIFICATION Spec
CONSTANTS
    Proxy = {p1, p2}
    Cid = {c1, c2, c3}
    Port = {1, 2}
    Domain = {d1, d2}
    Limits = {l1, l2}
    Nil = Nil
    EmptyDir = EmptyDir
    Req = {r1}
    Boot = Boot
    ReservedPorts = {3}
    BadDomain = {d2}
    BadLimits = {}
    Ops = {"create", "delete", "limits", "recreate", "orphan"}
    Faults = {"vanish", "restart", "remove", "lost", "skip"}
SYMMETRY Symmetry
INVARIANTS ServesRow
CHECK_DEADLOCK FALSE
