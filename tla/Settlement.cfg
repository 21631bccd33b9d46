SPECIFICATION Spec
CONSTANTS
    Visors = {1, 2}
    MaxSettlements = 2
    Lookups = {2}
    MaxFaults = 1
INVARIANTS SettledIsRegistered AtMostOnce RefusedOnlyWhenContended SettlementEnds
CHECK_DEADLOCK FALSE
