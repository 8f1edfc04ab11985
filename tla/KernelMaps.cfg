SPECIFICATION Spec
CONSTANTS
    SlotCount = 8
    ObjectCount = 8
    EpochMod = 2
    Badge = {0}
    NoCap = NoCap
    DomainCount = 3
    TaskCount = 3
    FaultDomain = 2
    b1 = b1
    Bits <- MCBits
    DqPageCount = 3
    MaxMaps = 4
    BootCaps <- MapBoot
    BootTasks <- MCTasks
    BootDomain <- PeerDomain
    BootMaps <- NoMaps
    BootFrames = 3
    BootRestarts = 2
    LoadedExtents <- MapExtents
    SeededQueues <- MapQueues
    XferArgs <- PeerXfers
INVARIANTS
    LedgerExact
PROPERTIES
    RestartIsFresh
