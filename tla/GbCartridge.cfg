SPECIFICATION Spec
CONSTANTS
    BankSize = 2
    RamBank = 2
    Low = 3
    Pages = 2
    High = 2
    MaxRead = 2
    MaxWrite = 2
    Carts <- SomeCarts
    Data = {d0, d1}
SYMMETRY DataSymmetry
INVARIANTS
    TypeOK
    RomReadsTrue
    SaveTrue
