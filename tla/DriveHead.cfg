SPECIFICATION FairSpec
CONSTANTS
    Connected <- TwoDrives
    Selectable <- SomeTypes
    Targets <- AnyTrack
    MaxCylinder = 2
    MaxSteps = 3
    None = None
INVARIANTS
    TypeOK
    CounterTellsHead
    RecalibrationFinds
PROPERTIES
    FunctionEnds
