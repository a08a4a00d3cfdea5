SPECIFICATION Spec
CONSTANTS
    Proxy = {p1}
    Cid = {c1, c2}
    Port = {1}
    Domain = {d1}
    Limits = {l1}
    Nil = Nil
    EmptyDir = EmptyDir
    Req = {r1, r2}
    Boot = Boot
    ReservedPorts = {3}
    BadDomain = {}
    BadLimits = {}
    Ops = {"create", "limits", "recreate"}
    Faults = {"crash"}
SYMMETRY Symmetry
PROPERTIES AckedNeverLost
CHECK_DEADLOCK FALSE
