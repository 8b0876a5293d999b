SPECIFICATION Spec
CONSTANTS
    Jobs <- MCJobs
    Buff <- MCBuff
INVARIANTS
    TypeOK
    PageIsBuffer
    OnlyThisPage
    OnInstruction
PROPERTIES
    RoutineHalts
    WritesPage
CHECK_DEADLOCK FALSE
