SPECIFICATION Spec
CONSTANTS
    Client <- MCClient
    Shape <- MCShape
    Backend <- MCBackend
    Backlog <- MCBacklog
    FaultModel <- MCFaultModel
INVARIANTS
    TypeOK
    OkMeansComplete
PROPERTIES
    FinishedFilesStay
    FetchReturns
    RequestsAreServed
