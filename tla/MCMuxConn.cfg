SPECIFICATION Spec
CONSTANTS
    Messages = {m1, m2, m3}
    Frags <- MCFrags
    DedupeWindow = 2
    InboxSize = 1
    MaxReassemblies = 1
    SendAttempts = 2
    MaxDeliveries = 4
    NoID = noid
    m1 = m1
    m2 = m2
    m3 = m3
INVARIANTS
    TypeOK
    AckedIsDelivered
    NoEarlyDuplicate
    ReceiverBounded
    ReassemblyConsistent
CHECK_DEADLOCK FALSE
SYMMETRY MCSymmetry
