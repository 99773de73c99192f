SPECIFICATION Spec
CONSTANTS
    general = general
    extra = extra
    grp = grp
    r1 = r1
    o1 = o1
    dm = dm
    r3 = r3
    r4 = r4
    Channel = {general, extra}
    Defaults <- MCDefaults
    Group = {grp, dm}
    Direct = {dm}
    NoGroup = nogroup
    Remote = {r1, r3, r4}
    Own = {o1}
    Conv <- MCConv
    StartData <- MCData
    Transports = {"ipc", "embedded", "offline"}
    StartVaults = {TRUE, FALSE}
    MaxTalk = 1
    HistoryLimit = 1
    QueueCap = 1
    MaxVaults = 2
    MaxSessions = 2
    MaxFlight = 2
    MaxKeys = 7
INVARIANTS
    TypeOK
    UnreadCounted
    JoinedSubscribed
    ListenerArmed
CHECK_DEADLOCK FALSE
