SPECIFICATION MirrorSpec
CONSTANTS
    MaxRegions = 3
    PageSize = 2
    LowFrame = 1
    NoRegion = NoRegion
    NoFrame = NoFrame
    MemMaps <- MCMemMaps
    FRAMES = 8
    WordBits = 3
    FrameArgs <- MCFrameArgs
INVARIANTS
    TypeOK
    FramesAccounted
    MirrorAgrees
PROPERTIES
    ImplementsPool
    BitmapImplementsPool
