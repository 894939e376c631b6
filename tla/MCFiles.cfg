SPECIFICATION MCSpec
CONSTANTS
    Off = Off
    FdProcs = {p1, p2}
    FdThreads = {t1, t2, t3}
    AX_FILE_LIMIT = 2
    FdNone = FdNone
    MaxObjects = 3
    IovLens <- MCIovLens
    Chunk = 2
    SrcLen = 3
    IoFiles = {f1, f2}
    NoFile = NoFile
    MaxCursor = 4
    Entries <- MCEntries
    Dots = {"dot", "dotdot"}
    RecLen <- MCRecLen
    NoEntry = NoEntry
    MaxDirBuf = 3
    DIRENTS = 2
    LinkThreads = {t1, t2}
    Names = {p1, p2}
    NoPath = NoPath
    WThreads = {t1, t2}
    DirNodes <- MCDirNodes
    FileNodes <- MCFileNodes
    Longer <- MCLonger
    PathArgs <- MCPathArgs
    MaxDirFds = 2
    MaxMounts = 2
    MaxPathCalls = 3
    FsThreads = {t1, t2}
    FilePaths <- MCFilePaths
    DirPaths <- MCDirPaths
    MountPaths <- MCMountPaths
    CwdPath <- MCCwdPath
    MaxSize = 2
    MaxInodes = 5
    MaxFsCalls = 3
    BLOCK_SIZE = 2
    NumBlocks = 2
    DiskBytes = {0, 1}
    MaxBuf = 4
SYMMETRY MCSymmetry
INVARIANTS DescriptorsReleased BytesInOrder DirectoriesKept PathsKept
PROPERTIES AccessKept ImplementsDevice
