SPECIFICATION Spec
CONSTANTS
    BufferSize = 2
INVARIANTS
    AbortStopsWriting
