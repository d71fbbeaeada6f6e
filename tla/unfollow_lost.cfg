SPECIFICATION ClientSpec
CONSTANTS
    Nil = Nil
    p1 = p1
    r1 = r1
    r2 = r2
    r3 = r3
    r4 = r4
    Ids = {1, 2}
    PostIds = {p1}
    CommentIds = {c1}
    Dates = {d1}
    Reqs = {r1, r2, r3, r4}
    Kinds = {"follow", "unfollow"}
    JobCount = 2
    QueueSize = 1
    Registered = {1, 2}
    Published <- NoneYet
    FaultKinds = {}
    MaxFaults = 0
    Stuck = {}
    Order <- Turns
INVARIANTS
    LastAnsweredWins
CHECK_DEADLOCK FALSE
