SPECIFICATION Spec
CONSTANTS
    Nil = Nil
    Official = Official
    Players = {3, 4, 23}
    Digits <- DigitsOf
    Bodies <- Reports
    Reqs = {r1, r2}
    JobCount = 2
    QueueSize = 1
    Registered = {3, 4}
    Endowments <- Shares
    Supply = 9
    Modulus = 32
    FaultKinds = {"redis", "query", "broadcast", "crash"}
    MaxFaults = 2
SYMMETRY ReqSymmetry
INVARIANTS
    TypeOK
    OneGamePerLoser
    AccountsBeforeStake
PROPERTIES
    Settles
CHECK_DEADLOCK FALSE
