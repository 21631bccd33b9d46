SPECIFICATION Spec
CONSTANTS
    Passwords = {"p1"}
    MaxRequests = 3
    MaxRestarts = 0
    Visors = {"v1"}
    Used = {"exec", "getHealth", "postRoute", "getLoops", "putApp", "appLogsSince", "deleteTransport"}
    MaxConns = 2
    MaxFails = 1
    MaxCalls = 1
INVARIANTS NobodyWaitsForever
PROPERTIES PutTakesEffect
CHECK_DEADLOCK FALSE
