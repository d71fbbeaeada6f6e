SPECIFICATION Spec
CONSTANTS
    Nil = Nil
    p1 = p1
    Ids = {1, 2}
    PostIds = {p1}
    CommentIds = {c1}
    Dates = {d1}
    Reqs = {r1, r2, r3, r4}
    Kinds = {"follow", "unfollow"}
    JobCount = 2
    QueueSize = 1
    Registered = {1, 2}
    Published <- OneOfUser1
    FaultKinds = {}
    MaxFaults = 0
    Stuck = {}
SYMMETRY ReqSymmetry
INVARIANTS
    FollowAgreement
CHECK_DEADLOCK FALSE
