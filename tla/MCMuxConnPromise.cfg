SPECIFICATION FairSpec
CONSTANTS
    Messages = {m1, m3}
    Frags <- MCFrags
    DedupeWindow = 1
    InboxSize = 1
    MaxReassemblies = 1
    SendAttempts = 2
    MaxDeliveries = 3
    NoID = noid
    m1 = m1
    m2 = m2
    m3 = m3
PROPERTIES
    ImplementsEffectivelyOnce
    SendReturns
CHECK_DEADLOCK FALSE
