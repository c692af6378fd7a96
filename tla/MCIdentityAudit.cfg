CONSTANTS
    Actors = {alice}
    Stranger = stranger
    Operator = operator
    RefreshTTL = 1
    MaxFailures = 2
    LockoutTTL = 1
    LoginRateWindow = 1
    Processes = {p1, p2}
    Deployments <- SupportedDeployments
    MaxTokens = 3
    None = none
    Services = {1}
    Refusals = 1
    Payloads = {"empty"}
    Radix = 3
    Micro = 2
    DayLength = 2
    MaxTime = 2
    MaxEvents = 3
    MaxRows = 3
    MaxFaults = 1
    NoRow = none
SPECIFICATION RunSpec
SYMMETRY Interchangeable
INVARIANTS
    TypeOK
    TokensHonoured
    FailuresBounded
    AuditTypeOK
    CopiesAreChained
    VerdictsAreRight
PROPERTIES
    ClosedStays
