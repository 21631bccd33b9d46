CONSTANTS
    Visors = {"a", "b", "c"}
    MaxHops = 2
    Loops = {l1, l2}
    Desc <- RelayedLoops
    StaticPorts = {3}
    DynamicPorts = {10, 11}
    Persistent = TRUE
    MaxEvents = 0
SYMMETRY LoopNames
SPECIFICATION Spec
INVARIANTS NoMisdelivery CreatedLoopDelivers ResponderFirst
CHECK_DEADLOCK FALSE
