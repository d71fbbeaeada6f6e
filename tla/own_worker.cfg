SPECIFICATION FairSpec
CONSTANTS
    Nil = Nil
    p1 = p1
    Ids = {1, 2}
    PostIds = {p1}
    CommentIds = {c1}
    Dates = {d1}
    Reqs = {r1, r2, r3}
    Kinds = {"account", "like"}
    JobCount = 2
    QueueSize = 1
    Registered = {1}
    Published <- OneOfUser1
    FaultKinds = {"redis", "broadcast", "crash"}
    MaxFaults = 1
    Stuck = {1}
INVARIANTS
    KeyAgreement
PROPERTIES
    Answered
    WorkedOff
CHECK_DEADLOCK FALSE
