SPECIFICATION EdfSpec
CONSTANTS
    SlotCount = 3
    ObjectCount = 3
    EpochMod = 2
    Badge = {0}
    NoCap = NoCap
    DomainCount = 4
    TaskCount = 4
    FaultDomain = 2
    Bits = {}
    DqPageCount = 1
    MaxMaps = 2
    BootCaps <- EdfBoot
    BootTasks <- Task
    BootDomain <- OwnDomain
    BootMaps <- NoMaps
    BootFrames = 0
    BootRestarts = 1
    LoadedExtents = {}
    SeededQueues = {}
    XferArgs <- NoXfer
    BootPeriod <- Unequal
    RestartPeriod = 2
INVARIANTS
    EdfTypeOK
PROPERTIES
    ImplementsKernel
    ForemostRuns
