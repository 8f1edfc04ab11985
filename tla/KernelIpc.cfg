SPECIFICATION Spec
CONSTANTS
    SlotCount = 6
    ObjectCount = 6
    EpochMod = 2
    Badge = {0}
    NoCap = NoCap
    DomainCount = 4
    TaskCount = 4
    FaultDomain = 3
    b1 = b1
    Bits <- MCBits
    DqPageCount = 1
    MaxMaps = 2
    BootCaps <- IpcBoot
    BootTasks <- MCTasks
    BootDomain <- MCBootDomain
    BootMaps <- NoMaps
    BootFrames = 0
    BootRestarts = 1
    LoadedExtents = {}
    SeededQueues = {}
    XferArgs <- IpcXfers
INVARIANTS
    ParkedIffBlocked
    AuthorityFromBoot
    DeadDomainPowerless
