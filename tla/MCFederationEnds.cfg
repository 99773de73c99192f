SPECIFICATION FairSpec
CONSTANTS
    Client = client
    Server = server
    Seeders = {client}
    Epochs = {1}
    AcceptBacklog = 1
    InboxSize = 2
    MaxConns = 4
    MaxIds = 5
    Talkers <- NoOne
    Disturbances <- MCStray
PROPERTIES
    HandshakesEnd
    DeadEntriesGo
CHECK_DEADLOCK FALSE
