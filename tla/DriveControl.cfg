SPECIFICATION FairSpec
CONSTANTS
    Connected = {"A", "II"}
    Selectable = {"SHUGART_A", "AMIGA", "APPLE_II"}
    Targets = {0, 1, 3}
    Sides = {1}
    LastTrack = 2
    LastApple = 1
    LastCylinder = 1
    LastHalf = 3
    MaxSteps = 3
    MaxApple = 2
INVARIANTS TypeOK PinsAgree CounterIsHead
PROPERTIES FunctionsEnd
