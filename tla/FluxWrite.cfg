SPECIFICATION FairSpec
CONSTANTS
    BufferSize = 3
INVARIANTS
    TypeOK
    DataReadWhole
    GateInOrder
PROPERTIES
    WriteEnds
