SPECIFICATION FairSpec
CONSTANTS
    d1 = d1
    d2 = d2
    None = None
    Dangling = Dangling
    Threads <- TwoThreads
    MaxEvents = 2
    MaxStale = 1
INVARIANTS
    TypeOK
    ThreadsInOrder
    ReadyIsMounted
    GoneIsNoticed
PROPERTIES
    CallsReturn
