SPECIFICATION Spec
CONSTANTS
    Nil = Nil
    p1 = p1
    Ids = {1, 2}
    PostIds = {p1}
    CommentIds = {c1}
    Dates = {d1}
    Reqs = {r1, r2, r3}
    Kinds = {"account", "follow"}
    JobCount = 2
    QueueSize = 1
    Registered = {1}
    Published <- OneOfUser1
    FaultKinds = {}
    MaxFaults = 0
    Stuck = {}
SYMMETRY ReqSymmetry
INVARIANTS
    KeyAgreement
CHECK_DEADLOCK FALSE
