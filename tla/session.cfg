SPECIFICATION Spec
CONSTANTS
    a = a
    b = b
    c = c
    Threads <- MCThreads
    Menus <- MCMenus
    Files = {f1, f2}
    NoFile = NoFile
    Other = Other
INVARIANTS
    TypeOK
    RegistersIntact
    RunStateAsMeant

    
    
    
