SPECIFICATION MCSpec
CONSTANTS
    Off = Off
    Tids = {1, 2, 3}
    First = 1
    Init0 = 0
    MaxKills = 1
    EPAGE = 2
    Space = {0, 1, 2, 3, 4, 5, 6, 7, 8, 9, 10, 11, 12, 13, 14, 15}
    Trampoline = {7}
    Stack = {6}
    UserHeap = {5}
    FileSystem <- MCFiles
    ArgLists <- MCArgs
    MaxDepth = 3
INVARIANTS FamilyKept 
PROPERTIES ExitCodeFinal WaiterWoken
CHECK_DEADLOCK FALSE
