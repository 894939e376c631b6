CONSTANTS
    t1 = t1
    Threads = {t1, t2, t3}
    Addrs = {a1, a2}
    a1 = a1
    NoAddr = NoAddr
    ClearChildTid <- MCClearChildTid
    MaxQueues = 3
    MaxCount = 2
    MaxRequeues = 1
    SigThreads = {t2, t3}
    Handled = {h1}
    MaxSends = 2
    MaxFrames = 1
    Off = Off
SPECIFICATION MCSpec
SYMMETRY MCSymmetry
INVARIANTS FutexKept MaskKept
CHECK_DEADLOCK FALSE
