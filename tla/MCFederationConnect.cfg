SPECIFICATION QuietSpec
CONSTANTS
    Client = client
    Server = server
    Seeders = {client}
    Epochs = {1}
    AcceptBacklog = 2
    InboxSize = 3
    MaxConns = 4
    MaxIds = 6
    Talkers <- Node
    Disturbances <- MCConnect
PROPERTIES
    SeedAlive
CHECK_DEADLOCK FALSE
