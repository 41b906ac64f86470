SPECIFICATION MCSpec
CONSTANTS
    Chars = {c1, c2}
    UARTBound = 3
    Keys = {k1, k2}
    PS2Bound = 4
    ISAWord = 6
    ISAPeriod = 4
    AudioEnd = 2
    Slots = {s1, s2}
    CRIMEBound = 3
    Cells = {clock, other}
    ClockCells = {clock}
    Second = 3
    Pcs = {p0, p1}
    ZeroPc = p0
    TimerIds = {t1, t2}
    TimerBound = 2
    LineCount = 3
    RowBytes = 8
    TileRows = 2
    MaxTiles = 3
    MaxHeight = 5
    MaxTilePtr = 2
    MaxSide = 10
    NoWidth = 6
    NoHeight = 3
    FallbackWidth = 5
    FallbackHeight = 3
    FifoSize = 4
    StackSize = 3
    Matrices = {m1}
    Addrs = {0, 1}
    Bases = {0, 1}
    WordSize = 10
    DirectoryEntries = 3
    Lengths = {1, 2}
    FirstLength = 1
    RawLengths = {9}
    Depths = {1, 2}
    FirstDepth = 1
    TileDepths = {0, 1, 2}
    SmallTile = 1
    LargeTile = 2
    FirstMemory = 7
INVARIANTS
    DevicesTypeOK
    StuckOnlyUnsent
    PixelsDistinct
    SwitchesAgree
    ModesHonest
    DrawingLands
PROPERTIES
    UARTIsStream
    PS2IsStream
    MACEHoldsInterrupts
    InterruptsHeld
    PlayedOnce
    FifoIsQueue
    ScanoutChangesAtSwap
CHECK_DEADLOCK FALSE
