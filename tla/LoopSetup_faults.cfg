CONSTANTS
    Visors = {"a", "b"}
    MaxHops = 2
    Loops = {l1, l2}
    Desc <- DirectLoops
    StaticPorts = {3}
    DynamicPorts = {10, 11}
    Persistent = TRUE
    MaxEvents = 1
SYMMETRY LoopNames
SPECIFICATION Spec
INVARIANTS NoMisdelivery CreatedLoopDelivers
CHECK_DEADLOCK FALSE
