SPECIFICATION Spec
CONSTANTS
    Levels = 4
    Index <- MCIndex
    NoEntry = NoEntry
    Cr3 <- MCCr3
    BootTables <- MCBootTables
    Pools <- MCPools
    PoolSizes = {0, 3, 5, 14}
    Guard <- MCGuard
    KernelVa <- MCKernelVa
    UserVa <- MCUserVa
    DeviceFrame <- MCDeviceFrame
    BootCalls <- MCBootCalls
    Windows <- MCWindows
    Watched <- MCWatched
INVARIANTS
    TypeOK
    
    WriteXorExecute
    TlbCoherent
    GuardHolds
PROPERTIES
    ImplementsAddressSpace
CHECK_DEADLOCK FALSE
