SPECIFICATION RingSpec
CONSTANTS
    RingSize = 6
    PacketSize = 2
    Slack = 1
    Sizes <- AllSizes
    MaxBytes = 12
INVARIANTS
    CopyInBounds
