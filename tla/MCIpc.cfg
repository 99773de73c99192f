SPECIFICATION Spec
CONSTANTS
    Channel = {c1}
    MaxId = 2
    FirstId = 2
    Late = {1}
    PipeCap = 1
    IncomingCap = 1
    PeerCap = 1
    MaxRequests = 2
    MaxPushes = 3
INVARIANTS
    TypeOK
    OwnReply
    HandsOverSafely
PROPERTIES
    RequestsEnd
    PushesEnd
CHECK_DEADLOCK FALSE
