CONSTANTS
    Apps = {1}
    DynamicPorts = {10}
    MaxSpawns = 2
    MaxEvents = 4
SPECIFICATION FairSpec
INVARIANTS RunningIsRecorded NoPortLeak
PROPERTIES StopStops CloseReturns
CHECK_DEADLOCK FALSE
