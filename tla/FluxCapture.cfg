SPECIFICATION FairSpec
CONSTANTS
    t0 = t0
    t1 = t1
    NoSurface = NoSurface
    Stray = Stray
    Surfaces <- TwoSurfaces
    RevBuffers = 2
    MaxFlux = 3
    FluxPerTurn = 3
    Turns = 2
INVARIANTS
    TypeOK
    WholeReads
    NothingWithoutRead
    TurnsInOrder
    OneSurfaceOnly
PROPERTIES
    Refines
    ReadEnds
