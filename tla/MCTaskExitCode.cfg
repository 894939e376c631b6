CONSTANTS
    MxTasks = {t1, t2, t3}
    NoOwner = NoOwner
    t1 = t1
    t2 = t2
    t3 = t3
    j1 = j1
    j2 = j2
    j3 = j3
    c1 = c1
    c2 = c2
    XTasks = {t1, t2, t3}
    Joiners = {j1, j2, j3}
    CPUs = {c1, c2}
    HomeOf <- MCHomeOf
    TargetOf <- MCTargetOf
    ExitCode = 7
    InitialCode = 0
    r1 = r1
    w1 = w1
    w2 = w2
    Readers = {r1}
    Writers = {w1, w2}
    Bytes = {0, 1}
    RING_BUFFER_SIZE = 2
    NoTask = NoTask
    MaxLen = 2
    MaxWrites = 2
    NumFds = 2
    MaxNow = 1
    MaxEvents = 1
    SMP = 3
    Platforms = {"sbi", "psci", "x86_pc", "loongarch", "raspi"}
    MaxSpawns = 3
    Off = Off
SPECIFICATION MCSpec
INVARIANTS JoinReturnsExitCode
