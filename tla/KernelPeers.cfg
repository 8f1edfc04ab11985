SPECIFICATION Spec
CONSTANTS
    SlotCount = 5
    ObjectCount = 5
    EpochMod = 2
    Badge = {0}
    NoCap = NoCap
    DomainCount = 3
    TaskCount = 3
    FaultDomain = 2
    b1 = b1
    Bits <- MCBits
    DqPageCount = 1
    MaxMaps = 2
    BootCaps <- PeerBoot
    BootTasks <- MCTasks
    BootDomain <- PeerDomain
    BootMaps <- NoMaps
    BootFrames = 0
    BootRestarts = 1
    LoadedExtents = {}
    SeededQueues = {}
    XferArgs <- PeerXfers
INVARIANTS
    TypeOK
    CallerIdentity
PROPERTIES
    GrantsMove
    ParkedStateFrozen
    ResultDelivered
    ImplementsRendezvous
