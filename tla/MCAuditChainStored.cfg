CONSTANTS
    Services = {1}
    Refusals = 0
    Payloads = {"object"}
    Radix = 2
    Micro = 1
    DayLength = 2
    MaxTime = 1
    MaxEvents = 2
    MaxRows = 2
    MaxFaults = 0
    NoRow = none
SPECIFICATION AuditSpec
INVARIANTS
    ChainVerifies
