SPECIFICATION Spec
CONSTANTS
    Channel = {"a", "b"}
    Person = {"p"}
    Me = "me"
    Env <- MCEnv
    Own <- MCOwn
    Tab = {"messages", "people", "feed", "forum", "network", "settings"}
    StartDb <- MCStartDb
    QueueCap = 1
    MaxDelay = 2
    MaxClients = 8
    Plan <- MCPlan
INVARIANTS
    TypeOK
    NeverDeaf
    BadgesTell
PROPERTIES
    Reconnects
CHECK_DEADLOCK FALSE
