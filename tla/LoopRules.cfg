CONSTANTS
    Visors = {"a", "b", "c", "d"}
    MaxHops = 3
    Src = "a"
    Dst = "b"
    MaxID = 3
SPECIFICATION RulesSpec
INVARIANTS EveryIDUsedOnce RulesJoinTheEnds
CHECK_DEADLOCK FALSE
