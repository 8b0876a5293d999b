SPECIFICATION FairSpec
CONSTANTS
    Requests <- MCRequests
    Noise = {13}
    MaxFrames = 3
    Addrs = {0, 1, 2}
    BpAddr = 1
INVARIANTS
    TypeOK
    HandledAreSent
    ReportedOnce
PROPERTIES
    AllHandled
    HaltReported
    ReportIsTrue
CHECK_DEADLOCK FALSE
