CONSTANTS
    Services = {1, 2}
    Refusals = 0
    Payloads = {"empty"}
    Radix = 2
    Micro = 1
    DayLength = 2
    MaxTime = 2
    MaxEvents = 2
    MaxRows = 3
    MaxFaults = 0
    NoRow = none
SPECIFICATION AuditSpec
INVARIANTS
    ChainVerifies
