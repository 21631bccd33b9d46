CONSTANTS
    MaxIDs = 5
    MaxEvents = 4
SPECIFICATION Spec
INVARIANTS IdsBelongToWaiters EndedLoopsAreTold NothingSticks
PROPERTY KeepsPromise
CHECK_DEADLOCK FALSE
