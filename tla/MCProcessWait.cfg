SPECIFICATION Spec
CONSTANTS
    Tids = {1, 2}
    First = 1
    Init0 = 0
    MaxKills = 1
INVARIANTS
    WaitReportsTerminated
CHECK_DEADLOCK FALSE
