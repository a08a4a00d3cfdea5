SPECIFICATION Spec
CONSTANTS
    Proxy = {p1}
    Cid = {c1, c2}
    Port = {1, 2}
    Domain = {d1}
    Limits = {l1}
    Nil = Nil
    EmptyDir = EmptyDir
    Req = {r1}
    Boot = Boot
    ReservedPorts = {3}
    BadDomain = {}
    BadLimits = {}
    Ops = {"create", "recreate"}
    Faults = {"crash"}
SYMMETRY Symmetry
INVARIANTS ServesRow
CHECK_DEADLOCK FALSE
