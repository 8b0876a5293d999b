SPECIFICATION Spec
CONSTANTS
    Threads = {t1, t2, t3}
    Bank = 2
    Banks = 2
    Ahead = 1
    Images <- MCImages
    ErasedByte = 255
    Slots = {0, 1, 2}
    NoBp = NoBp
    Sessions <- MCSessions
SYMMETRY Symmetry
INVARIANTS
    TypeOK
    
    
    BreakpointsArmed
    SlotsAgree
CONSTRAINT Followed
CHECK_DEADLOCK FALSE
