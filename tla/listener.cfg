SPECIFICATION FairSpec
CONSTANTS
    Nodes = {n1, n2, n3, n4}
    Items = {o1, o2, o3, o4}
    Nil = Nil
    Fds = {3, 4, 5, 6}
    MaxClients = 4
INVARIANTS
    TypeOK
    WellLinked
    ObjectsInUseExist
    NoSocketLeaks
PROPERTIES
    OnlyOwnerCloses
    CollectionComplete
    ImplementsRegistry
CHECK_DEADLOCK FALSE
