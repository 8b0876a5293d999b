SPECIFICATION Spec
CONSTANTS
    Requests <- MCRequests
    Noise = {13}
    MaxFrames = 3
    Addrs = {0, 1, 2}
    BpAddr = 1
INVARIANT
    NeverPastBreakpoint
CHECK_DEADLOCK FALSE
