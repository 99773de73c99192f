SPECIFICATION Spec
CONSTANTS
    Client = client
    Server = server
    Seeders = {client}
    Epochs = {e1, e2}
    AcceptBacklog = 1
    InboxSize = 2
    MaxConns = 3
    MaxIds = 2
    Talkers <- OnlyServer
    Disturbances <- MCReboot
SYMMETRY EpochSymmetry
INVARIANTS
    TypeOK
    OneOpenConn
    TableMatchesPumps
CHECK_DEADLOCK FALSE
