CONSTANTS
    RunningServices = {"records"}
    Players = {a, b}
    SessionIds = {s1}
    Timeouts = {0, 1, 3}
    DefaultTimeout = 1
    MaxTimeout = 2
    MaxServers = 2
    MaxTime = 3
    Keys = {k1}
    Values = {a, b}
    MaxChanges = 2
    ConfigDeployments <- CheckedConfigs
    EventIds = {e1}
    MeterIds = {m1}
    Equipment = {a, b}
    bufferCap = 2
    MaxSubmissions = 3
    EventDeployments <- SupportedDeployments
    Clients = {a, b}
    ClientIds = {1}
    RecordDeployments <- RestartedDownloads
    Sizes <- CheckedSizes
    Default = 2
    MaxPage = 2
    Window = 2
    MaxInitial = 2
    MaxRows = 3
    Runs = {a, b}
    Hosts <- CheckedHosts
    DevID = "dev-default"
    DevKey = devKey
    OtherKey = otherKey
    Unreadable = unreadable
    Empty = empty
    Operator = operator
    Player = player
    None = none
SPECIFICATION Spec
SYMMETRY Interchangeable
INVARIANTS
    OperationsRetained
CHECK_DEADLOCK FALSE
