SPECIFICATION Spec
CONSTANTS
    o1 = o1
    o2 = o2
    Object <- Objects
    SectorsOf <- Alike
    NoRoot = NoRoot
    LbaCount = 13
    SmokeLba = 12
    ScratchLba = 11
    FlushOk = TRUE
    Faults = {"flush"}
    PutsPerBoot = 2
    PutAgain = TRUE
    MaxSeq = 3
INVARIANTS
    RootIntact
