SPECIFICATION Spec
CONSTANTS
    l1 = l1
    l2 = l2
    l3 = l3
    Hash = {1, 2}
    Res <- MCRes
    Lookup = {l1, l2, l3}
    Key <- MCKey
    Seeds <- MCSeeds
    Children <- MCChildren
    Plan <- MCPlan
    MaxForums = 2
    BatchSize = 1
    MaxPages = 2
    Gap = 1
    Hour = 3
    PerHour = 2
    Day = 5
    PerDay = 3
    None = 0
INVARIANTS
    ObjectsHonest
    WithinLimits
PROPERTIES
    CallsEnd
    ForumsVisited
CHECK_DEADLOCK FALSE
