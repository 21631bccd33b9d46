SPECIFICATION Spec
CONSTANTS
    ListenPorts = {1}
    MinEph = 4
    MaxPort = 6
    Occupied = {6}
    MaxListens = 2
    MaxDials = 3
INVARIANTS PanicNeedsOvertaking OpenListenersAreMapped EphemeralReuse NothingSticks
CHECK_DEADLOCK FALSE
