SPECIFICATION MCSpec
CONSTANTS
    Off = Off
    TcpThreads = {t1, t2}
    Socks = {s1, s2}
    NumPorts = 1
    FirstEphemeral = 1
    LISTEN_QUEUE_SIZE = 2
    MaxHandles = 2
    WRAPPED = TRUE
    NoThread = NoThread
    UdpThreads = {t1, t2}
    Peers = {p1, p2}
    NoPeer = NoPeer
    UdpPorts = {1}
    MaxDatagrams = 3
    RxSlots = 2
    UThreads = {t1, t2}
    UCpus = {c1, c2}
    Words = {0, 1, 2, 3, 4, 5}
    PAGE_WORDS = 2
    Zeros = {3}
    StrStarts = {1, 4}
    Regions <- MCRegions
    MaxUnmaps = 1
    HeapTasks = {t1, t2}
    PAGE_SIZE = 2
    MIN_HEAP_SIZE = 2
    OVERHEAD = 1
    DMA_PAGES = 2
    RegionLists <- MCRegionLists
    ByteSizes = {3}
    PageCounts = {1}
    DmaSizes = {1, 2}
    MaxHeld = 1
    NsProcs = {p1, p2}
    NTasks = {k, a, b}
    BootTask = k
    Objects = {1, 2, 3, 4, 5, 6, 7, 8, 9}
    Contents = {1, 2}
    MaxChdirs = 2
    PERIODIC_INTERVAL = 2
    NANOS_PER_SEC = 4
    NANOS_PER_MICROS = 2
    EpochOffset = 5
    MaxTime = 5
    MaxBirth = 1
    LogWriters = {l1, l2}
    PutsWriters = {p1, p2}
    StdoutWriters = {}
    ConReaders = {r1, r2}
    BUF_SIZE = 2
    ReadSizes = {0, 1, 3}
    MaxKeys = 4
    NoTask = NoTask
    MaxThread = 3
    RetVals = {u, v}
    NullVal = NullVal
    JmpArchs = {"riscv64", "aarch64", "x86_64", "loongarch64"}
    JmpBufs = {b1, b2}
    JmpVals = {0, 7}
    MaxJmpSteps = 5
    MemSize = 5
    ADDRESSES = 16
    MaxBlock = 2
    MaxSet = 20
    Marks = {7}
    Bytes = {1, 2, 3}
    Letters = {1, 2}
    MaxHay = 8
    MaxNeedle = 6
    GrowMask = 3
    LowerOf <- MCLower
    LONG_BITS = 6
    POW_BITS = 5
    IntAlphabet = {" ", "-", "0", "1", "3", "a", "x"}
    MaxIntText = 4
    DblAlphabet = {"-", "0", "1", ".", "e", "x", "p"}
    MaxDblText = 5
    Bases = {0, 3, 10, 16, 37}
    HOURS = 2
    MINUTES = 2
    SECONDS = 2
    Days <- MCDays
    TextSizes = {0, 1, 2, 5}
    TextLengths = {0, 1, 2, 4}
    PRINTF_INTEGER_BUFFER_SIZE = 12
    WORD = 256
    Values <- MCValues
    Widths = {0, 1, 3, 6}
    Precisions <- MCPrecisions
    Strings <- MCStrings
    BufSizes = {0, 1, 2, 3, 4, 6}
    Eighths = {0, 1, 3, 4, 5, 7, 8, 11, 12, 13, 15, 20, 28, 36, 79, 76, 75}
    Groups = {0, 16, 65535}
    V4Fields <- MCFields
    Acceptor = t3
    Connectors = {t1, t2}
    NoOwner = NoOwner
SYMMETRY MCSymmetry
INVARIANTS   KernelMemoryOwnedOnce SpacesIsolated  ConsoleKept  
PROPERTIES BlocksKept
CHECK_DEADLOCK FALSE
