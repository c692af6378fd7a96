CONSTANTS
    Players = {alice}
    Operator = operator
    Keys = {k1, k2}
    Payloads = {x1}
    Deployments <- MirrorDeployment
    MaxServers = 1
    MaxWagers = 1
    None = none
SPECIFICATION Spec
SYMMETRY Interchangeable
INVARIANTS
    OneOutcomePerWager
