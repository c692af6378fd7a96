CONSTANTS
    Processes = {p1, p2}
    Clients = {c1, c2}
    Accounts = {a1}
    House = house
    Escrow = escrow
    Device = device
    Float = 2
    Keys = {k1}
    Amounts = {1, 2}
    MaxFailures = 2
    MaxTx = 2
    MaxAudit = 2
    MaxRestarts = 1
    MaxPostings = 3
    MaxLost = 1
    Free = free
    None = none
SPECIFICATION LossySpec
CHECK_DEADLOCK FALSE
SYMMETRY Interchangeable
INVARIANTS
    TypeOK
    PostingsExplainBalances
    OKMeansApplied
    AppliedTwiceOnlyOnReuse
