CONSTANTS
    Transports = {t1, t2}
    Instances = {1, 2}
    ReadChCap = 1
SPECIFICATION FairSpec
INVARIANTS OneInstancePerTransport NoSendOnClosedReadCh
PROPERTIES CloseReturns DeleteReturns
CHECK_DEADLOCK FALSE
