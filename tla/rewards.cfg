SPECIFICATION FairSpec
CONSTANTS
    known = known
    unknown = unknown
    Names = {known, unknown}
    Cashouts <- TwoCashouts
    Indexed = {known}
    MaxHeight = 3
    MaxChains = 2
    FaultKinds = {"query", "credit", "save", "crash"}
    MaxFaults = 2
INVARIANTS
    TypeOK
    CountedAtLeastOnce
    CountedAgainOnlyAfterLoss
PROPERTIES
    CatchesUp
