SPECIFICATION FairSpec
CONSTANTS
    Kinds <- KindsUsed
    Numbers = 2
    MaxRevs = 2
    RingRoom = 2
    None = None
INVARIANTS
    TypeOK
    CommandIntact
    AnswersInOrder
PROPERTIES
    EachOnce
    OthersAreAnswered
    Served
