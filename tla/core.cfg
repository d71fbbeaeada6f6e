SPECIFICATION Spec
CONSTANTS
    Nil = Nil
    p1 = p1
    Ids = {1, 2}
    PostIds = {p1, p2}
    CommentIds = {c1}
    Dates = {d1}
    Reqs = {r1, r2, r3}
    Kinds = {"account", "post", "like", "comment", "follow", "unfollow", "signin"}
    JobCount = 2
    QueueSize = 1
    Registered = {1}
    Published <- OneOfUser1
    FaultKinds = {"redis", "query", "broadcast", "crash"}
    MaxFaults = 1
    Stuck = {}
SYMMETRY ReqSymmetry
INVARIANTS
    TypeOK
    LedgerInOrder
    AccountsBeforeCall
    MarkedOnChain
PROPERTIES
    Delivers
CHECK_DEADLOCK FALSE
