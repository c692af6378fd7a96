CONSTANTS
    Accounts = {a1}
    Strangers = {b1}
    Devices = {d1}
    OperatorLiability = liability
    DeviceEscrow = escrow
    Operator = op
    Currencies = {usd, eur}
    NoCurrency = nocur
    Keys = {k1}
    NoKey = nokey
    Amounts = {1, 2}
    MaxAmount = 2
    MaxFailures = 1
    LockoutTTL = 1
    MaxInt = 8
    MaxTx = 3
    MaxTime = 1
SPECIFICATION Spec
SYMMETRY Interchangeable
INVARIANTS
    TypeOK
    AuditTrailExplainsBalance
    JournalsAgree
PROPERTIES
    RememberedForever
    ImplementsPromise
    LockoutHolds
