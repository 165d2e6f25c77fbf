SPECIFICATION RingSpec
CONSTANTS
    RingSize = 7
    PacketSize = 3
    Slack = 1
    Sizes <- AllSizes
    MaxBytes = 28
INVARIANTS
    RingTypeOK
    Conserved
    StreamIntact
