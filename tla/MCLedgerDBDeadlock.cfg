CONSTANTS
    Processes = {p1}
    Clients = {c1}
    Accounts = {a1}
    House = house
    Escrow = escrow
    Device = device
    Float = 2
    Keys = {k1}
    Amounts = {1}
    MaxFailures = 2
    MaxTx = 2
    MaxAudit = 2
    MaxRestarts = 0
    MaxPostings = 3
    MaxLost = 0
    Free = free
    None = none
SPECIFICATION FairSpec
CHECK_DEADLOCK FALSE
PROPERTIES
    CallsReturn
