CONSTANTS
    c1 = c1
    c2 = c2
    CPUs = {c1, c2}
    BootCPU = c1
    Main = main
    Tasks = {main, t1, t2}
    idle1 = idle1
    idle2 = idle2
    migr1 = migr1
    migr2 = migr2
    Idle <- MCIdle
    Migrator <- MCMigrator
    Queues = {q1}
    None = None
    MaxTicket = 2
SPECIFICATION Spec
SYMMETRY MCSymmetry
INVARIANTS ContextSaved NoTaskLost 
