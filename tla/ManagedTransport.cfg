CONSTANTS
    Callers = {c1}
    MaxConns = 2
SPECIFICATION FairSpec
INVARIANTS NoSendOnClosedConnCh NoOrphanConn
PROPERTIES ReaderWakes CloseTerminates
CHECK_DEADLOCK FALSE
