SPECIFICATION BoundedFairSpec
CONSTANTS
    Proxy = {p1, p2}
    Cid = {c1, c2, c3}
    Port = {1, 2}
    Domain = {d1, d2}
    Limits = {l1}
    Nil = Nil
    MaxRequests = 3
    EmptyDir = EmptyDir
    Req = {r1, r2}
    Boot = Boot
    ReservedPorts = {}
    BadDomain = {d2}
    BadLimits = {}
    Ops = {"create", "delete", "recreate"}
    Faults = {}
PROPERTIES CreateSettles RecreateSettles
CHECK_DEADLOCK FALSE
