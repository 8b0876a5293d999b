SPECIFICATION Spec
CONSTANTS
    b = b
    m = m
    NPages = 3
    Bits <- MCBits
    MacBits <- MCMacBits
    Images <- MCImages
    InitialFlash <- MCInitialFlash
    Macs <- MCMacs
    NoMac = NoMac
    NoFile = NoFile
    ErasePolls = 1
    MaxJobs = 2
INVARIANT
    ExitCodeTellsOutcome
CHECK_DEADLOCK FALSE
