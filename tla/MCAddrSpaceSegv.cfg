CONSTANTS
    s1 = s1
    s2 = s2
    t1 = t1
    t2 = t2
    t3 = t3
    Spaces = {s1, s2}
    First = s1
    Threads = {t1, t2, t3}
    SpaceOf <- MCSpaceOf
    Pages <- MCPages
    Frames = {f1, f2, f3}
    None = None
    Heap = {1}
    MaxCalls = 2
    Values <- MCValues
SYMMETRY MCSymmetry
SPECIFICATION Spec
PROPERTIES SegvIsRealFault
CHECK_DEADLOCK FALSE
