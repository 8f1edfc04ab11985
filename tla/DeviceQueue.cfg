SPECIFICATION QueueSpec
CONSTANTS
    Lba = {s0, s1}
    Sector = {zero, old, magic}
    Zero = zero
    NoSector = NoSector
    IdxMod = 4
    PollLimit = 1
    QSIZE = 128
    Offers <- MCOffers
    Scratch = s1
    Magic = magic
    DrvPollLimit = 2
INVARIANTS
    TypeOK
    CompletionIsOwn
    DriverCompletionIsOwn
    HonestMatch
    DriverReadsSeed
PROPERTIES
    CallsReturn
    DriverReports
    ImplementsBlockDevice
CHECK_DEADLOCK FALSE
