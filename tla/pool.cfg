SPECIFICATION FairSpec
CONSTANTS
    Nil = Nil
    n1 = n1
    n2 = n2
    n3 = n3
    Nodes = {n1, n2, n3}
    Order <- ThreeNodes
    Callers = {w1, w2, reward}
    Pinned = {reward}
    MaxOutages = 1
    MaxTimeouts = 2
INVARIANTS
    TypeOK
    PoolComplete
PROPERTIES
    BestClient
    NodesComeBack
    GivesOut
