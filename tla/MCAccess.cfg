CONSTANTS
    Clients = {"c1", "c2"}
    Actors <- CheckedActors
    Sources = {inside, outside}
    Trusted = {inside}
    Contents <- KeysetContents
    Unreadable = unreadable
    Deployments <- CheckedDeployments
    Blank = blank
    None = none
SPECIFICATION Spec
CHECK_DEADLOCK FALSE
INVARIANTS
    TypeOK
    AdminAccessIsRecorded
    ActorsComeFromTokens
    SignedIsAccepted
PROPERTIES
    KeysetConverges
    StopCompletes
