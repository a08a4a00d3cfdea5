SPECIFICATION Spec
CONSTANTS
    Proxy = {p1, p2}
    Cid = {c1, c2}
    Port = {1}
    Domain = {d1}
    Limits = {l1}
    Nil = Nil
    EmptyDir = EmptyDir
    Req = {r1, r2}
    Boot = Boot
    ReservedPorts = {}
    BadDomain = {}
    BadLimits = {}
    Ops = {"create", "delete", "limits", "recreate", "orphan"}
    Faults = {"crash", "remove", "lost", "list", "skip"}
SYMMETRY Symmetry
INVARIANTS TypeOK RowOwnsContainer
PROPERTIES RemovesOnlyItsOwn DeletedStaysDeleted
CHECK_DEADLOCK FALSE
