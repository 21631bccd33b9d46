SPECIFICATION UsersSpec
CONSTANTS
    Passwords = {"p1", "p2"}
    MaxRequests = 4
    MaxRestarts = 1
INVARIANTS SessionsFollowPassword EndedSessionsStayEnded
CHECK_DEADLOCK FALSE
