SPECIFICATION MCSpec
CONSTANTS
    t1 = t1
    a1 = a1
    Threads = {t1, t2}
    Addrs = {a1}
    NoAddr = NoAddr
    ClearChildTid <- MCClearChildTid
    MaxQueues = 1
    MaxCount = 1
    MaxRequeues = 0
    SigThreads = {t2}
    Handled = {h1}
    MaxSends = 1
    MaxFrames = 1
    Off = Off
INVARIANTS
    ClearTidWakes
CHECK_DEADLOCK FALSE
