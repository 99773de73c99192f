SPECIFICATION Spec
CONSTANTS
    a = a
    b = b
    c = c
    Client = client
    None = none
    Nodes = {a, b}
    Links <- MCLinks
    Envs <- MCStore
    Faults <- MCFaults
INVARIANTS
    TypeOK
    RelayedIsStored
    NewestKnown
PROPERTIES
    OnlyOwnersDelete
CHECK_DEADLOCK FALSE
