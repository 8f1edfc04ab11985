SPECIFICATION EdfSpec
CONSTANTS
    SlotCount = 3
    ObjectCount = 3
    EpochMod = 2
    Badge = {0}
    NoCap = NoCap
    DomainCount = 3
    TaskCount = 3
    FaultDomain = 2
    Bits = {}
    DqPageCount = 1
    MaxMaps = 2
    BootCaps <- EdfBoot
    BootTasks <- Task
    BootDomain <- OwnDomain
    BootMaps <- NoMaps
    BootFrames = 0
    BootRestarts = 0
    LoadedExtents = {}
    SeededQueues = {}
    XferArgs <- NoXfer
    BootPeriod <- Equal
    RestartPeriod = 2
PROPERTY
    WokenRuns
