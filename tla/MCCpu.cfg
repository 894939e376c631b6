CONSTANTS
    c1 = c1
    c2 = c2
    CPUs = {c1, c2}
    BootCPU = c1
    Main = main
    Tasks = {main, t1}
    idle1 = idle1
    idle2 = idle2
    migr1 = migr1
    migr2 = migr2
    Idle <- MCIdle
    Migrator <- MCMigrator
    Queues = {q1, q2}
    None = None
    MaxTicket = 1
    t1 = t1
    t2 = t2
    t3 = t3
    Archs = {"riscv64", "loongarch64", "aarch64", "x86_64"}
    CtxTasks = {t1, t2, t3}
    CtxCpus = {c1, c2}
    FirstTask <- MCFirstTask
    MaxTraps <- MCMaxTraps
    MaxCalls <- MCMaxCalls
    UserTasks = {t1, t3}
    FpArchs = {"riscv64", "aarch64", "x86_64", "loongarch64"}
    FpTasks = {t1, t2, t3}
    FpCpus = {c1, c2}
    FpFirst <- MCFirstTask
    MaxFpWrites = 1
    Off = Off
SPECIFICATION MCSpec
SYMMETRY MCSymmetry
INVARIANTS AffinityRespected SpinEnds RegistersFollowTask FpFollowsTask
