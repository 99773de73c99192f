SPECIFICATION FairSpec
CONSTANTS
    a = a
    b = b
    c = c
    Client = client
    None = none
    Nodes = {a, b, c}
    Links <- MCLinks
    Envs <- MCAck
    Faults <- MCLoss
INVARIANTS
    PrunedStaysGone
PROPERTIES
    FloodReaches
    FloodsEnd
CHECK_DEADLOCK FALSE
