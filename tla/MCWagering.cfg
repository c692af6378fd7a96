CONSTANTS
    Players = {alice}
    Operator = operator
    Keys = {k1}
    Payloads = {x1, x2}
    Deployments <- SupportedDeployments
    MaxServers = 2
    MaxWagers = 2
    None = none
SPECIFICATION Spec
SYMMETRY Interchangeable
INVARIANTS
    TypeOK
    AnswersDescribeWagers
    SavedAnswersDescribeRows
    ToldIsDurable
    OneAnswerPerKey
PROPERTIES
    FinishedRowsStay
