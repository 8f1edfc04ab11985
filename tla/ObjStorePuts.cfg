SPECIFICATION Spec
CONSTANTS
    o1 = o1
    o2 = o2
    Object <- Objects
    SectorsOf <- Unlike
    NoRoot = NoRoot
    LbaCount = 6
    SmokeLba = 6
    ScratchLba = 6
    FlushOk = TRUE
    Faults = {"write", "flush"}
    PutsPerBoot = 2
    PutAgain = FALSE
    MaxSeq = 3
INVARIANTS
    TypeOK
    RootIntact
PROPERTIES
    CommittedSlotKept
    ImplementsDurableRoot
