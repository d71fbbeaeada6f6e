SPECIFICATION Spec
CONSTANTS
    Nil = Nil
    Official = Official
    Players = {3, 4, 23}
    Digits <- DigitsOf
    Bodies <- Reports
    Reqs = {r1}
    JobCount = 2
    QueueSize = 1
    Registered = {3, 4}
    Endowments <- Shares
    Supply = 9
    Modulus = 32
    FaultKinds = {}
    MaxFaults = 0
INVARIANTS
    PlayersCreated
CHECK_DEADLOCK FALSE
