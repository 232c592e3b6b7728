SPECIFICATION Spec
CONSTANTS
    NIds = 2
    Capacity = 2
    Types <- Removing
    Statuses <- Outcomes
INVARIANTS
    ContinuationAvailable
CHECK_DEADLOCK FALSE
