SPECIFICATION FairSpecAll
CONSTANTS
    NIds = 2
    Capacity = 2
    NWorkers = 2
    MaxBlk = 1
    Types <- AnyType
    Statuses <- OneStatus
INVARIANTS
    RequestsHeldOnce
    RoomInQueues
    ServerWaitsForDiskOrClient
    ContinuationsAccounted
PROPERTIES
    OtherRequestsComplete
    EitherImplementsService
CHECK_DEADLOCK FALSE
