------------------------------ MODULE CpuContext ----------------------------
(***************************************************************************)
(* What a processor keeps of a task across traps and switches: its registers,*)
(* and its floating-point registers.                                       *)
(***************************************************************************)
EXTENDS Integers, Sequences, FiniteSets, TLC, SequencesExt

(***************************************************************************)
(* Trap entry and exit, the way into user space and the context switch of  *)
(* the four architectures, register by register: which register goes to    *)
(* which word of the TrapFrame or TaskContext, and how the registers that  *)
(* are not on the stack (sscratch, the KSAVE registers, the GS bases,      *)
(* SP_EL0 and TPIDRRO_EL0) take part.  The build is StarryOS's: uspace, no *)
(* thread-local storage for the kernel, floating point left to the switch. *)
(*                                                                         *)
(* Assembly is a sequence of operations on the registers and on the frame  *)
(* a base register points to.  A kernel stack is a stack of trap frames,   *)
(* so a stack pointer is <<"kstk", task, number of frames>>.               *)
(***************************************************************************)

CONSTANTS
    Archs,     \* architectures checked
    CtxTasks, CtxCpus,
    FirstTask, \* CPU -> the task it boots with
    UserTasks, \* the tasks that enter user space
    MaxTraps,  \* task -> bound: trap frames on its kernel stack
    MaxCalls   \* task -> bound: system calls it makes

VARIABLES
    arch,
    regs,    \* CPU -> register -> value
    mem,     \* address -> word -> value
    cur,     \* CPU -> task
    depth,   \* task -> trap frames on its kernel stack
    inUser,  \* tasks running user code, or about to return to it
    started, \* tasks that have run
    calls,   \* task -> system calls it has made
    inCall,  \* tasks in a system call
    based,   \* tasks that have set their GS base
    view     \* task -> where the registers its user code sees come from

ctxVars == <<arch, regs, mem, cur, depth, inUser, started, calls, inCall, based, view>>

ZERO == <<"zero">>
USER == <<"user">>
KERNEL == <<"kernel">>
UV(t, r) == <<"u", t, r>>       \* what user code keeps in a register
KV(t, d, r) == <<"k", t, d, r>> \* what the kernel keeps there above d frames
Kstk(t, d) == <<"kstk", t, d>>
Ret(t) == <<"ret", t>>
Given(t, n) == <<n, t>>         \* an entry point, stack, argument or TLS area made for t
FLAGS == <<"IF">>
PerCpu(c) == <<"percpu", c>>

Reg(n) == <<n, 0>>
PC == Reg("pc")
SP == Reg("sp")
RA == Reg("ra")
TP == Reg("tp")
GP == Reg("gp")
FP == Reg("fp")
R21 == Reg("r21")
MODE == Reg("mode")
ROOT == Reg("root")
NextPc == <<"pc", 1>>

Bank(n, lo, hi, at) == [r \in {<<n, i>> : i \in lo..hi} |-> at + r[2] - lo]
Word(n, at) == Reg(n) :> at

Pushed(list, p) == [r \in Range(list) |-> p - (CHOOSE i \in 1..Len(list) : list[i] = r)]
Popped(list, p) == [r \in Range(list) |-> p + (CHOOSE i \in 1..Len(list) : list[i] = r) - 1]

-----------------------------------------------------------------------------
(* The operations.  m has the registers r and the memory mem.              *)

MoveFrames(a, n) == IF a[1] = "kstk" THEN <<"kstk", a[2], a[3] + n>> ELSE a

Exec1(m, o) ==
    CASE o[1] = "mv" -> [m EXCEPT !.r[Reg(o[2])] = m.r[Reg(o[3])]]
      [] o[1] = "swap" -> [m EXCEPT !.r[Reg(o[2])] = m.r[Reg(o[3])], !.r[Reg(o[3])] = m.r[Reg(o[2])]]
      [] o[1] = "set" -> [m EXCEPT !.r[Reg(o[2])] = o[3]]
      [] o[1] = "frame" -> [m EXCEPT !.r[Reg(o[2])] = MoveFrames(@, o[3])]
      [] o[1] = "st" -> LET a == m.r[Reg(o[2])]
                        IN  IF a \notin DOMAIN m.mem THEN m
                            ELSE [m EXCEPT !.mem[a] = [k \in DOMAIN @ |->
                                     IF \E r \in DOMAIN o[3] : o[3][r] = k
                                     THEN m.r[CHOOSE r \in DOMAIN o[3] : o[3][r] = k] ELSE @[k]]]
      [] o[1] = "ld" -> LET a == m.r[Reg(o[2])]
                        IN  IF a \notin DOMAIN m.mem THEN m
                            ELSE [m EXCEPT !.r = [r \in DOMAIN @ |->
                                     IF r \in DOMAIN o[3] THEN m.mem[a][o[3][r]] ELSE @[r]]]

Exec(m, ops) == FoldLeft(Exec1, m, ops)

-----------------------------------------------------------------------------
(* RISC-V.                                                                 *)

RvGeneral ==
    Word("ra", 0) @@ Bank("t", 0, 2, 4) @@ Bank("s", 0, 1, 7) @@ Bank("a", 0, 7, 9)
    @@ Bank("s", 2, 11, 17) @@ Bank("t", 3, 6, 27)

(* SAVE_REGS; t0, t1 and t2 are named by their banks.                      *)
RvSave(user) ==
    <<<<"frame", "sp", 1>>, <<"st", "sp", RvGeneral>>,
      <<"st", "sp", Word("sepc", 31) @@ Word("sstatus", 32) @@ Word("sscratch", 1)>>,
      <<"set", "sscratch", ZERO>>>>
    \o IF user
       THEN <<<<"ld", "sp", Word("tmp0", 2) @@ Word("tmp1", 3)>>,
              <<"st", "sp", Word("gp", 2) @@ Word("tp", 3)>>,
              <<"mv", "gp", "tmp0">>, <<"mv", "tp", "tmp1">>>>
       ELSE <<>>

MutRvRestore(user) ==
    (IF user
     THEN <<<<"ld", "sp", Word("tmp1", 2) @@ Word("tmp0", 3)>>,
            <<"mv", "gp", "tmp1">>, <<"mv", "tp", "tmp0">>,
            <<"mv", "tmp0", "sp">>, <<"frame", "tmp0", -1>>, <<"mv", "sscratch", "tmp0">>>>
     ELSE <<>>)
    \o <<<<"ld", "sp", Word("sepc", 31) @@ Word("sstatus", 32)>>,
         <<"ld", "sp", RvGeneral>>, <<"ld", "sp", Word("sp", 1)>>>>

(* RESTORE_REGS: the kernel's gp and tp go where the next trap from user   *)
(* space looks for them.                                                   *)
RvRestore(user) ==
    (IF user
     THEN <<<<"ld", "sp", Word("tmp1", 2) @@ Word("tmp0", 3)>>,
            <<"st", "sp", Word("gp", 2) @@ Word("tp", 3)>>,
            <<"mv", "gp", "tmp1">>, <<"mv", "tp", "tmp0">>,
            <<"mv", "tmp0", "sp">>, <<"frame", "tmp0", -1>>, <<"mv", "sscratch", "tmp0">>>>
     ELSE <<>>)
    \o <<<<"ld", "sp", Word("sepc", 31) @@ Word("sstatus", 32)>>,
         <<"ld", "sp", RvGeneral>>, <<"ld", "sp", Word("sp", 1)>>>>

(* trap_vector_base: sscratch tells where the trap comes from.             *)
RvEntry(m) ==
    LET user == m.r[Reg("sscratch")] # ZERO
    IN  <<<<"mv", "sepc", "pc">>, <<"mv", "sstatus", "mode">>, <<"swap", "sp", "sscratch">>>>
        \o (IF user THEN <<>> ELSE <<<<"mv", "sp", "sscratch">>>>) \o RvSave(user)

RvExit(user) == RvRestore(user) \o <<<<"mv", "pc", "sepc">>, <<"mv", "mode", "sstatus">>>>

(* enter_uspace(): tf holds the address of the UspaceContext, ktop that of *)
(* the top of the kernel stack.                                            *)
RvEnter ==
    <<<<"mv", "sscratch", "ktop">>, <<"ld", "tf", Word("sepc", 31)>>,
      <<"mv", "kta", "ktop">>, <<"frame", "kta", 1>>, <<"mv", "sp", "tf">>,
      <<"st", "kta", Word("gp", 2)>>, <<"ld", "sp", Word("gp", 2)>>,
      <<"st", "kta", Word("tp", 3)>>, <<"ld", "sp", Word("tp", 3)>>,
      <<"ld", "sp", Word("sstatus", 32)>>, <<"ld", "sp", RvGeneral>>, <<"ld", "sp", Word("sp", 1)>>,
      <<"mv", "pc", "sepc">>, <<"mv", "mode", "sstatus">>>>

(* The words behind the accessors of TrapFrame, UspaceContext::new() and   *)
(* the TaskContext of a new task.                                          *)
RvAccess == [args |-> <<9, 10, 11, 12, 13, 14>>, ip |-> 31, sp |-> 1, retval |-> 9, ra |-> 0, tls |-> 3]

RvNew(entry, top, arg0) == (9 :> arg0) @@ (1 :> top) @@ (31 :> entry) @@ (32 :> USER)

RvTaskContext(t) == (0 :> KV(t, 0, RA)) @@ (1 :> Kstk(t, 0)) @@ (15 :> <<"root", t>>)

(* riscv_trap_handler() on a frame, for a system call.                     *)
RvHandler(f, t) == [f EXCEPT ![9] = Ret(t), ![31] = UV(t, NextPc)]

RvCallee == Word("ra", 0) @@ Word("sp", 1) @@ Bank("s", 0, 11, 2)

RvSwitch ==
    <<<<"ld", "next", Word("newroot", 15)>>, <<"mv", "root", "newroot">>,
      <<"st", "prev", RvCallee>>, <<"ld", "next", RvCallee>>>>

-----------------------------------------------------------------------------
(* LoongArch.                                                              *)

LaGeneral ==
    Word("ra", 1) @@ Bank("a", 0, 7, 4) @@ Bank("t", 0, 8, 12) @@ Word("fp", 22) @@ Bank("s", 0, 8, 23)

(* exception_entry_base and SAVE_REGS: PRMD tells where the trap comes     *)
(* from; csrwr exchanges a register with a CSR.                            *)
LaEntry(m) ==
    LET user == m.r[MODE] = USER
    IN  <<<<"mv", "era", "pc">>, <<"mv", "prmd", "mode">>, <<"mv", "tmp0", "sp">>>>
        \o (IF user
            THEN <<<<"mv", "sp", "ksave_ksp">>, <<"frame", "sp", 1>>,
                   <<"st", "sp", Word("tp", 2) @@ Word("r21", 21)>>,
                   <<"mv", "tp", "ksave_tp">>, <<"mv", "r21", "ksave_r21">>>>
            ELSE <<<<"frame", "sp", 1>>>>)
        \o <<<<"st", "sp", Word("tmp0", 3)>>, <<"st", "sp", LaGeneral>>,
             <<"st", "sp", Word("prmd", 32) @@ Word("era", 33)>>>>

(* RESTORE_REGS.                                                           *)
LaExit(user) ==
    (IF user
     THEN <<<<"swap", "tp", "ksave_tp">>, <<"swap", "r21", "ksave_r21">>,
            <<"ld", "sp", Word("tp", 2) @@ Word("r21", 21)>>,
            <<"mv", "tmp0", "sp">>, <<"frame", "tmp0", -1>>, <<"swap", "tmp0", "ksave_ksp">>>>
     ELSE <<>>)
    \o <<<<"ld", "sp", Word("era", 33) @@ Word("prmd", 32)>>, <<"ld", "sp", LaGeneral>>,
         <<"ld", "sp", Word("sp", 3)>>, <<"mv", "pc", "era">>, <<"mv", "mode", "prmd">>>>

LaEnter ==
    <<<<"ld", "tf", Word("era", 33)>>, <<"mv", "sp", "tf">>,
      <<"swap", "tp", "ksave_tp">>, <<"swap", "r21", "ksave_r21">>,
      <<"ld", "sp", Word("tp", 32)>>, <<"swap", "tp", "prmd">>, <<"swap", "ktop", "ksave_ksp">>,
      <<"ld", "sp", LaGeneral>>, <<"ld", "sp", Word("tp", 2) @@ Word("r21", 21)>>,
      <<"ld", "sp", Word("sp", 3)>>, <<"mv", "pc", "era">>, <<"mv", "mode", "prmd">>>>

LaAccess == [args |-> <<4, 5, 6, 7, 8, 9>>, ip |-> 33, sp |-> 3, retval |-> 4, ra |-> 1, tls |-> 2]

LaNew(entry, top, arg0) == (3 :> top) @@ (33 :> entry) @@ (32 :> USER) @@ (4 :> arg0)

LaTaskContext(t) == (0 :> KV(t, 0, RA)) @@ (1 :> Kstk(t, 0)) @@ (13 :> <<"root", t>>)

LaHandler(f, t) == [f EXCEPT ![4] = Ret(t), ![33] = UV(t, NextPc)]

LaCallee == Word("ra", 0) @@ Word("sp", 1) @@ Bank("s", 0, 8, 2) @@ Word("fp", 11)

LaSwitch ==
    <<<<"ld", "next", Word("newroot", 13)>>, <<"mv", "root", "newroot">>,
      <<"st", "prev", LaCallee>>, <<"ld", "next", LaCallee>>>>

-----------------------------------------------------------------------------
(* AArch64.  In the kernel SP_EL0 caches the current task's pointer.       *)

A64General == Bank("x", 0, 30, 0)

A64Entry(m) ==
    <<<<"mv", "elr", "pc">>, <<"mv", "spsr", "mode">>, <<"frame", "sp", 1>>,
      <<"st", "sp", A64General>>,
      <<"st", "sp", Word("sp_el0", 31) @@ Word("tpidr", 32) @@ Word("elr", 33) @@ Word("spsr", 34)>>,
      <<"mv", "tpidr", "tpidrro">>, <<"mv", "sp_el0", "curptr">>>>

A64Exit(user) ==
    <<<<"mv", "tpidrro", "tpidr">>,
      <<"ld", "sp", Word("sp_el0", 31) @@ Word("tpidr", 32) @@ Word("elr", 33) @@ Word("spsr", 34)>>,
      <<"ld", "sp", A64General>>, <<"frame", "sp", -1>>,
      <<"mv", "pc", "elr">>, <<"mv", "mode", "spsr">>>>

A64Enter ==
    <<<<"mv", "sp", "ktop">>, <<"mv", "tpidrro", "tpidr">>,
      <<"ld", "tf", Word("sp_el0", 31) @@ Word("tpidr", 32) @@ Word("elr", 33) @@ Word("spsr", 34)>>,
      <<"ld", "tf", A64General>>, <<"mv", "pc", "elr">>, <<"mv", "mode", "spsr">>>>

A64Access == [args |-> <<0, 1, 2, 3, 4, 5>>, ip |-> 33, sp |-> 31, retval |-> 0, ra |-> 30, tls |-> 32]

A64New(entry, top, arg0) == (0 :> arg0) @@ (31 :> top) @@ (33 :> entry) @@ (34 :> USER)

A64TaskContext(t) == (12 :> KV(t, 0, <<"x", 30>>)) @@ (0 :> Kstk(t, 0)) @@ (14 :> <<"root", t>>)

(* handle_sync_exception(): ELR is past the svc instruction already.       *)
A64Handler(f, t) == [f EXCEPT ![0] = Ret(t)]

A64Callee == Word("sp", 0) @@ Bank("x", 19, 30, 1)

A64Switch ==
    <<<<"ld", "next", Word("newroot", 14)>>, <<"mv", "root", "newroot">>,
      <<"st", "prev", A64Callee>>, <<"ld", "next", A64Callee>>>>

-----------------------------------------------------------------------------
(* x86-64.                                                                 *)

R(i) == <<"r", i>>
X86Pushes == <<R(15), R(14), R(13), R(12), R(11), R(10), R(9), R(8),
               Reg("rdi"), Reg("rsi"), Reg("rbp"), Reg("rbx"), Reg("rdx"), Reg("rcx"), Reg("rax")>>
X86Pops == <<Reg("rax"), Reg("rcx"), Reg("rdx"), Reg("rbx"), Reg("rbp"), Reg("rsi"), Reg("rdi"),
             R(8), R(9), R(10), R(11), R(12), R(13), R(14), R(15)>>

(* What the CPU pushes at a trap and iretq pops, and the reserved words.   *)
X86Frame == Word("pc", 19) @@ Word("mode", 20) @@ Word("rflags", 21)

(* .Ltrap_common: the GS bases are exchanged when the saved CS is a user   *)
(* one; switch_to_kernel_fs_base() keeps the user's FS base in the frame.  *)
X86Entry(m) ==
    LET user == m.r[MODE] = USER
    IN  <<<<"mv", "tmp0", "sp">>>>
        \o (IF user THEN <<<<"mv", "sp", "rsp0">>>> ELSE <<>>)
        \o <<<<"frame", "sp", 1>>, <<"st", "sp", X86Frame @@ Word("tmp0", 22)>>>>
        \o (IF user THEN <<<<"swap", "gs", "kgs">>>> ELSE <<>>)
        \o <<<<"st", "sp", Pushed(X86Pushes, 15)>>>>
        \o (IF user THEN <<<<"st", "sp", Word("fs", 15)>>>> ELSE <<>>)

X86Exit(user) ==
    (IF user THEN <<<<"ld", "sp", Word("fs", 15)>>>> ELSE <<>>)
    \o <<<<"ld", "sp", Popped(X86Pops, 0)>>>>
    \o (IF user THEN <<<<"swap", "gs", "kgs">>>> ELSE <<>>)
    \o <<<<"ld", "sp", X86Frame @@ Word("sp", 22)>>>>

(* syscall_entry: the CPU leaves rip in rcx and rflags in r11; nothing is  *)
(* on the stack yet.  cs is a constant of the code.                        *)
X86Syscall ==
    <<<<"mv", "rcx", "pc">>, <<"mv", "tmp0", "rflags">>,
      <<"swap", "gs", "kgs">>, <<"mv", "user_rsp", "sp">>, <<"mv", "sp", "rsp0">>, <<"frame", "sp", 1>>,
      <<"set", "ucode64", USER>>,
      <<"st", "sp", Word("user_rsp", 22) @@ Word("tmp0", 21) @@ Word("ucode64", 20) @@ Word("rcx", 19)>>,
      <<"st", "sp", Pushed(X86Pushes, 15)>>, <<"st", "sp", Word("tmp0", 10)>>,
      <<"st", "sp", Word("fs", 15)>>>>

X86Sysret ==
    <<<<"ld", "sp", Word("fs", 15)>>, <<"ld", "sp", Popped(X86Pops, 0)>>,
      <<"ld", "sp", Word("rcx", 24 - 5) @@ (R(11) :> 24 - 3) @@ Word("rflags", 24 - 3) @@ Word("sp", 24 - 2)>>,
      <<"swap", "gs", "kgs">>, <<"mv", "pc", "rcx">>, <<"set", "mode", USER>>>>

(* enter_uspace() asserts that the TSS holds the top of the kernel stack.  *)
X86Enter ==
    <<<<"ld", "tf", Word("fs", 15)>>, <<"ld", "tf", Popped(X86Pops, 0)>>,
      <<"swap", "gs", "kgs">>, <<"ld", "tf", X86Frame @@ Word("sp", 22)>>>>

(* The return address is on the user stack, pushed by push_ra().           *)
X86Access == [args |-> <<6, 5, 2, 9, 7, 8>>, ip |-> 19, sp |-> 22, retval |-> 0, tls |-> 15]

X86New(entry, top, arg0) == (6 :> arg0) @@ (19 :> entry) @@ (20 :> USER) @@ (21 :> FLAGS) @@ (22 :> top)

X86TaskContext(t) == (0 :> <<"csf", t>>) @@ (1 :> ZERO) @@ (2 :> Kstk(t, 0)) @@ (3 :> <<"root", t>>)
                     @@ (4 :> Kstk(t, 0))

(* sys_arch_prctl(): ARCH_SET_FS writes the frame, ARCH_SET_GS the MSR that *)
(* swapgs will exchange.                                                   *)
ArchPrctl(f, t, code) == IF code = "SetFs" THEN [f EXCEPT ![X86Access.tls] = Given(t, "tls")] ELSE f

(* handle_syscall(): rcx, and so rip, is past the instruction already.     *)
X86Handler(f, t) == [f EXCEPT ![0] = Ret(t)]

X86Csf == <<R(15), R(14), R(13), R(12), Reg("rbx"), Reg("rbp"), Reg("ra")>>

(* switch_to() and context_switch(): the callee-saved registers go on the  *)
(* stack in a ContextSwitchFrame, whose address is kept in the context.    *)
X86Switch ==
    <<<<"st", "prev", Word("kgs", 1)>>, <<"ld", "next", Word("kgs", 1)>>,
      <<"ld", "next", Word("rsp0", 2)>>,
      <<"ld", "next", Word("newroot", 3)>>, <<"mv", "root", "newroot">>,
      <<"st", "csf", Pushed(Reverse(X86Csf), 7)>>, <<"st", "prev", Word("csf", 0) @@ Word("sp", 4)>>,
      <<"ld", "next", Word("csf", 0) @@ Word("sp", 4)>>, <<"ld", "csf", Popped(X86Csf, 0)>>>>

-----------------------------------------------------------------------------

General ==
    CASE arch = "riscv64" -> DOMAIN RvGeneral
      [] arch = "loongarch64" -> DOMAIN LaGeneral
      [] arch = "aarch64" -> DOMAIN A64General
      [] arch = "x86_64" -> Range(X86Pops)

Scratch == {"newroot", "tf", "ktop", "kta", "prev", "next", "csf", "tmp0", "tmp1", "user_rsp", "ucode64",
            "sepc", "sstatus", "prmd", "era", "elr", "spsr"}

Extra == Scratch \cup
    {"pc", "sp", "mode", "root", "curptr", "gp", "tp", "sscratch", "r21", "ksave_ksp", "ksave_tp",
     "ksave_r21", "sp_el0", "tpidr", "tpidrro", "gs", "kgs", "fs", "rsp0", "rflags", "ra"}

(* The registers user code owns, with the word of the UspaceContext each   *)
(* comes from.                                                             *)
UserLayout ==
    CASE arch = "riscv64" -> RvGeneral @@ Word("sp", 1) @@ Word("gp", 2) @@ Word("tp", 3) @@ Word("pc", 31)
      [] arch = "loongarch64" -> LaGeneral @@ Word("sp", 3) @@ Word("tp", 2) @@ Word("r21", 21) @@ Word("pc", 33)
      [] arch = "aarch64" -> A64General @@ Word("sp_el0", 31) @@ Word("tpidr", 32) @@ Word("pc", 33)
      [] arch = "x86_64" -> Popped(X86Pops, 0) @@ Word("fs", 15) @@ Word("pc", 19) @@ Word("rflags", 21)
                            @@ Word("sp", 22)

ModeWord == CASE arch = "riscv64" -> 32 [] arch = "loongarch64" -> 32 [] arch = "aarch64" -> 34
              [] arch = "x86_64" -> 20

RetReg == CASE arch = "riscv64" -> <<"a", 0>> [] arch = "loongarch64" -> <<"a", 0>>
            [] arch = "aarch64" -> <<"x", 0>> [] arch = "x86_64" -> Reg("rax")

Callee == CASE arch = "riscv64" -> DOMAIN RvCallee [] arch = "loongarch64" -> DOMAIN LaCallee
            [] arch = "aarch64" -> DOMAIN A64Callee [] arch = "x86_64" -> Range(X86Csf) \cup {SP}

SwitchOps == CASE arch = "riscv64" -> RvSwitch [] arch = "loongarch64" -> LaSwitch
               [] arch = "aarch64" -> A64Switch [] arch = "x86_64" -> X86Switch

EnterOps == CASE arch = "riscv64" -> RvEnter [] arch = "loongarch64" -> LaEnter
              [] arch = "aarch64" -> A64Enter [] arch = "x86_64" -> X86Enter

EntryOps(m, kind) ==
    CASE arch = "riscv64" -> RvEntry(m) [] arch = "loongarch64" -> LaEntry(m)
      [] arch = "aarch64" -> A64Entry(m)
      [] arch = "x86_64" -> IF kind = "syscall" THEN X86Syscall ELSE X86Entry(m)

ExitOps(user, kind) ==
    CASE arch = "riscv64" -> RvExit(user) [] arch = "loongarch64" -> LaExit(user)
      [] arch = "aarch64" -> A64Exit(user)
      [] arch = "x86_64" -> IF kind = "syscall" THEN X86Sysret ELSE X86Exit(user)

Handler(f, t) ==
    CASE arch = "riscv64" -> RvHandler(f, t) [] arch = "loongarch64" -> LaHandler(f, t)
      [] arch = "aarch64" -> A64Handler(f, t) [] arch = "x86_64" -> X86Handler(f, t)

CtxInitial(t) ==
    CASE arch = "riscv64" -> RvTaskContext(t) [] arch = "loongarch64" -> LaTaskContext(t)
      [] arch = "aarch64" -> A64TaskContext(t) [] arch = "x86_64" -> X86TaskContext(t)

Access == CASE arch = "riscv64" -> RvAccess [] arch = "loongarch64" -> LaAccess
            [] arch = "aarch64" -> A64Access [] arch = "x86_64" -> X86Access

ZeroFrame == [k \in 0..34 |-> ZERO]

CtxAddresses ==
    UNION {{Kstk(t, d) : d \in 1..MaxTraps[t]} : t \in CtxTasks}
    \cup {<<a, t>> : a \in {"ctx", "csf", "utf"}, t \in CtxTasks}

(* UspaceContext::new() for a program, with the registers that are not     *)
(* named left zero.                                                        *)
NewContext(t) ==
    LET given == <<Given(t, "entry"), Given(t, "stack"), Given(t, "arg")>>
    IN  (CASE arch = "riscv64" -> RvNew(given[1], given[2], given[3])
           [] arch = "loongarch64" -> LaNew(given[1], given[2], given[3])
           [] arch = "aarch64" -> A64New(given[1], given[2], given[3])
           [] arch = "x86_64" -> X86New(given[1], given[2], given[3])) @@ ZeroFrame

(* sys_clone(): a copy of the caller's frame with the child's return value,*)
(* and a stack and a TLS area of its own for a thread.                     *)
ClonedContext(f, u, thread) ==
    LET g == [f EXCEPT ![Access.retval] = ZERO]
    IN  IF thread THEN [g EXCEPT ![Access.sp] = Given(u, "stack"), ![Access.tls] = Given(u, "tls")] ELSE g

MemInitial(a) ==
    CASE a[1] = "kstk" -> ZeroFrame
      [] a[1] = "ctx" -> CtxInitial(a[2]) @@ ZeroFrame
      [] a[1] = "csf" -> (6 :> KV(a[2], 0, RA)) @@ ZeroFrame
      [] a[1] = "utf" -> IF a[2] \in Range(FirstTask) THEN NewContext(a[2]) ELSE ZeroFrame

(* The registers that always hold the same thing while the kernel runs.    *)
KernelHas(c, t, r) ==
    CASE r = SP -> Kstk(t, 0) [] r = MODE -> KERNEL [] r = ROOT -> <<"root", t>>
      [] r = Reg("curptr") -> <<"task", t>> [] r = Reg("sp_el0") -> <<"task", t>>
      [] r \in {GP, R21, Reg("gs")} -> PerCpu(c)
      [] r = Reg("rsp0") -> Kstk(t, 0)
      [] r \in General \cup {PC, RA} -> KV(t, 0, r)
      [] OTHER -> ZERO

CtxInit ==
    /\ arch \in Archs
    /\ cur = FirstTask
    /\ regs = [c \in CtxCpus |-> [r \in General \cup {Reg(n) : n \in Extra} |->
                  KernelHas(c, FirstTask[c], r)]]
    /\ mem = [a \in CtxAddresses |-> MemInitial(a)]
    /\ depth = [t \in CtxTasks |-> 0]
    /\ inUser = {}
    /\ started = Range(FirstTask)
    /\ calls = [t \in CtxTasks |-> 0]
    /\ inCall = {}
    /\ based = {}
    /\ view = [t \in CtxTasks |-> IF t \in Range(FirstTask) THEN [from |-> "new"] ELSE [from |-> "none"]]

(* Scratch registers hold nothing that is read later.                      *)
Settled(rs) ==
    [r \in DOMAIN rs |-> IF r \in {Reg(n) : n \in Scratch} THEN ZERO ELSE rs[r]]

(* A frame that was popped or given up holds nothing that is read later,   *)
(* but for the kernel's gp and tp that RvRestore and RvEnter leave there.  *)
Dropped(ms, a) ==
    IF a \in DOMAIN ms
    THEN [ms EXCEPT ![a] = [k \in DOMAIN @ |-> IF arch = "riscv64" /\ k \in {2, 3} THEN @[k] ELSE ZERO]]
    ELSE ms

(* Compiled kernel code refills the registers it does not expect a call or *)
(* a trap to preserve.                                                     *)
Refill(rs, t, d, set) ==
    [r \in DOMAIN rs |-> IF r \in set THEN KV(t, d, r) ELSE Settled(rs)[r]]

(* The entry of a user task: enter_uspace() on its context.                *)
EnterUspace(c) ==
    LET t == cur[c]
        m == Exec([r |-> [regs[c] EXCEPT ![Reg("tf")] = <<"utf", t>>, ![Reg("ktop")] = Kstk(t, 0)],
                   mem |-> mem], EnterOps)
    IN  /\ t \in UserTasks \ inUser /\ depth[t] = 0
        /\ view[t].from # "none"
        /\ regs' = [regs EXCEPT ![c] = Settled(m.r)]
        /\ mem' = [m.mem EXCEPT ![<<"utf", t>>] = ZeroFrame]
        /\ inUser' = inUser \cup {t}
        /\ UNCHANGED <<arch, cur, depth, started, calls, inCall, based, view>>

(* User code computes.                                                     *)
UserRuns(c) ==
    LET t == cur[c]
    IN  /\ t \in inUser /\ depth[t] = 0
        /\ view[t].from # "ran" /\ calls[t] < MaxCalls[t]
        /\ regs' = [regs EXCEPT ![c] = [r \in DOMAIN @ |-> IF r \in DOMAIN UserLayout THEN UV(t, r) ELSE @[r]]]
        /\ view' = [view EXCEPT ![t] = [from |-> "ran"]]
        /\ UNCHANGED <<arch, mem, cur, depth, inUser, started, calls, inCall, based>>

(* sys_execve(), once the program is loaded: a new context, entered from   *)
(* within the system call, whose frame is given up.                        *)
Execve(c) ==
    LET t == cur[c]
        m == Exec([r |-> [regs[c] EXCEPT ![Reg("tf")] = <<"utf", t>>, ![Reg("ktop")] = Kstk(t, 0)],
                   mem |-> [mem EXCEPT ![<<"utf", t>>] = NewContext(t)]], EnterOps)
    IN  /\ t \in inCall /\ depth[t] = 1 /\ view[t] = [from |-> "call", code |-> "none"]
        /\ regs' = [regs EXCEPT ![c] = Settled(m.r)]
        /\ mem' = Dropped([m.mem EXCEPT ![<<"utf", t>>] = ZeroFrame], Kstk(t, 1))
        /\ depth' = [depth EXCEPT ![t] = 0]
        /\ inCall' = inCall \ {t}
        /\ view' = [view EXCEPT ![t] = [from |-> "new"]]
        /\ UNCHANGED <<arch, cur, inUser, started, calls, based>>

(* A trap: entry, then the handler.                                        *)
Codes == {"none"} \cup IF arch = "x86_64" THEN {"SetFs", "SetGs"} ELSE {}

Entered(c, kind) ==
    LET t == cur[c]
        stepped == kind = "syscall" /\ arch \in {"aarch64", "x86_64"}
        m == [r |-> IF stepped THEN [regs[c] EXCEPT ![PC] = UV(t, NextPc)] ELSE regs[c], mem |-> mem]
    IN  Exec(m, EntryOps(m, kind))

AfterTrap(c, m) == [Refill(m.r, cur[c], depth[cur[c]] + 1, General \cup {PC, RA}) EXCEPT ![MODE] = KERNEL]

Trap(c) ==
    LET t == cur[c]
        m == Entered(c, "irq")
    IN  /\ depth[t] < MaxTraps[t]
        /\ m.r[SP] \in CtxAddresses
        /\ mem' = m.mem
        /\ regs' = [regs EXCEPT ![c] = AfterTrap(c, m)]
        /\ depth' = [depth EXCEPT ![t] = @ + 1]
        /\ UNCHANGED <<arch, cur, inUser, started, calls, inCall, based, view>>

(* A system call, sys_arch_prctl() on x86-64 among them.                   *)
Syscall(c, code) ==
    LET t == cur[c]
        m == Entered(c, "syscall")
        f == m.r[SP]
    IN  /\ t \in inUser /\ depth[t] = 0 /\ depth[t] < MaxTraps[t]
        /\ view[t].from = "ran" /\ calls[t] < MaxCalls[t]
        /\ f \in CtxAddresses
        /\ mem' = [m.mem EXCEPT ![f] = ArchPrctl(Handler(@, t), t, code)]
        /\ regs' = [regs EXCEPT ![c] = IF code = "SetGs"
                                      THEN [AfterTrap(c, m) EXCEPT ![Reg("kgs")] = UV(t, Reg("gs"))]
                                      ELSE AfterTrap(c, m)]
        /\ depth' = [depth EXCEPT ![t] = 1]
        /\ calls' = [calls EXCEPT ![t] = @ + 1]
        /\ inCall' = inCall \cup {t}
        /\ based' = IF code = "SetGs" THEN based \cup {t} ELSE based
        /\ view' = [view EXCEPT ![t] = [from |-> "call", code |-> code]]
        /\ UNCHANGED <<arch, cur, inUser, started>>

(* sys_clone() in a system call of t: the child's context is made from the *)
(* frame of the caller.                                                    *)
Clone(c, u, thread) ==
    LET t == cur[c]
    IN  /\ t \in inCall /\ depth[t] = 1 /\ view[t] = [from |-> "call", code |-> "none"]
        /\ u \in UserTasks /\ view[u].from = "none"
        /\ mem' = [mem EXCEPT ![<<"utf", u>>] = ClonedContext(mem[Kstk(t, 1)], u, thread)]
        /\ view' = [view EXCEPT ![u] = [from |-> "clone", parent |-> t, thread |-> thread],
                                ![t].code = "clone"]
        /\ UNCHANGED <<arch, regs, cur, depth, inUser, started, calls, inCall, based>>

(* The way back from a trap; x86-64 leaves a system call by sysretq and    *)
(* anything else by iretq.                                                 *)
Return(c) ==
    LET t == cur[c]
        user == depth[t] = 1 /\ t \in inUser
        m == Exec([r |-> regs[c], mem |-> mem],
                  ExitOps(user, IF user /\ t \in inCall THEN "syscall" ELSE "trap"))
    IN  /\ depth[t] > 0
        /\ regs' = [regs EXCEPT ![c] = Settled(m.r)]
        /\ mem' = Dropped(m.mem, Kstk(t, depth[t]))
        /\ depth' = [depth EXCEPT ![t] = @ - 1]
        /\ inCall' = IF user THEN inCall \ {t} ELSE inCall
        /\ UNCHANGED <<arch, cur, inUser, started, calls, based, view>>

(* switch_to(): the page table root is written only when it differs.  The  *)
(* scheduler sets the current task's pointer before the switch.            *)
Switch(c, u) ==
    LET t == cur[c]
        link == IF arch = "aarch64" THEN <<"x", 30>> ELSE RA
        m == Exec([r |-> [regs[c] EXCEPT ![link] = KV(t, depth[t], link),
                                         ![Reg("prev")] = <<"ctx", t>>, ![Reg("next")] = <<"ctx", u>>,
                                         ![Reg("csf")] = <<"csf", t>>,
                                         ![Reg("curptr")] = <<"task", u>>,
                                         ![Reg("sp_el0")] = <<"task", u>>],
                   mem |-> mem], SwitchOps)
        gone == IF u \in started THEN (General \cup {RA}) \ Callee ELSE (General \cup {RA}) \ {SP, link}
    IN  /\ depth[t] > 0 \/ t \notin inUser
        /\ \A k \in CtxCpus : cur[k] # u
        /\ regs' = [regs EXCEPT ![c] =
                       [Refill(m.r, u, depth[u], gone) EXCEPT
                            ![PC] = IF m.r[link] = KV(u, depth[u], link) THEN KV(u, depth[u], PC) ELSE m.r[link]]]
        /\ mem' = m.mem
        /\ cur' = [cur EXCEPT ![c] = u]
        /\ started' = started \cup {u}
        /\ UNCHANGED <<arch, depth, inUser, calls, inCall, based, view>>

CtxNext ==
    \E c \in CtxCpus :
        \/ EnterUspace(c)
        \/ UserRuns(c)
        \/ Execve(c)
        \/ Trap(c)
        \/ \E code \in Codes : Syscall(c, code)
        \/ Return(c)
        \/ \E u \in CtxTasks : Switch(c, u) \/ \E thread \in BOOLEAN : Clone(c, u, thread)

CtxSpec == CtxInit /\ [][CtxNext]_ctxVars

-----------------------------------------------------------------------------

(* The registers of the calling conventions.                               *)
StackReg == IF arch = "aarch64" THEN Reg("sp_el0") ELSE SP
TlsReg == CASE arch \in {"riscv64", "loongarch64"} -> TP [] arch = "aarch64" -> Reg("tpidr")
            [] arch = "x86_64" -> Reg("fs")
ArgReg == CASE arch \in {"riscv64", "loongarch64"} -> <<"a", 0>> [] arch = "aarch64" -> <<"x", 0>>
            [] arch = "x86_64" -> Reg("rdi")

(* After a system call: syscall overwrites rcx and r11 on x86-64.          *)
CallHas(t, r) ==
    IF r = PC \/ (arch = "x86_64" /\ r = Reg("rcx")) THEN UV(t, NextPc)
    ELSE IF arch = "x86_64" /\ r = R(11) THEN UV(t, Reg("rflags"))
    ELSE UV(t, r)

UserHas(t, r) ==
    LET v == view[t]
    IN  CASE v.from = "ran" -> UV(t, r)
          [] v.from = "call" -> IF r = RetReg THEN Ret(t)
                                ELSE IF r = TlsReg /\ v.code = "SetFs" THEN Given(t, "tls")
                                ELSE CallHas(t, r)
          [] v.from = "clone" -> IF r = RetReg THEN ZERO
                                 ELSE IF v.thread /\ r = StackReg THEN Given(t, "stack")
                                 ELSE IF v.thread /\ r = TlsReg THEN Given(t, "tls")
                                 ELSE CallHas(v.parent, r)
          [] v.from = "new" -> IF r = PC THEN Given(t, "entry")
                               ELSE IF r = StackReg THEN Given(t, "stack")
                               ELSE IF r = ArgReg THEN Given(t, "arg")
                               ELSE IF r = Reg("rflags") THEN FLAGS ELSE ZERO

(* A task that runs user code has all its registers as it left them, the   *)
(* results of its system call excepted, and its own page table; a program  *)
(* that execve starts finds its entry, stack and argument and zeros, a     *)
(* child of clone what its parent had, the return value, and a thread's    *)
(* stack and TLS area, excepted.  The kernel has its own registers back    *)
(* after a trap or a switch, runs on the stack of the current task, and    *)
(* finds the per-CPU area of the CPU it runs on, whatever CPU the task     *)
(* came from.                                                              *)
RegistersKept ==
    \A c \in CtxCpus :
        LET t == cur[c]
            rs == regs[c]
        IN  IF t \in inUser /\ depth[t] = 0
            THEN /\ rs[MODE] = USER /\ rs[ROOT] = <<"root", t>>
                 /\ \A r \in DOMAIN UserLayout : rs[r] = UserHas(t, r)
                 /\ arch = "x86_64" => /\ rs[Reg("gs")] = IF t \in based THEN UV(t, Reg("gs")) ELSE ZERO
                                       /\ rs[Reg("kgs")] = PerCpu(c)
            ELSE /\ rs[MODE] = KERNEL /\ rs[SP] = Kstk(t, depth[t])
                 /\ \A r \in General \cup {PC} : rs[r] = KV(t, depth[t], r)
                 /\ arch = "riscv64" => rs[GP] = PerCpu(c) /\ rs[Reg("sscratch")] = ZERO
                 /\ arch = "loongarch64" => rs[R21] = PerCpu(c)
                 /\ arch = "x86_64" => rs[Reg("gs")] = PerCpu(c)
                 /\ arch = "aarch64" => rs[Reg("sp_el0")] = <<"task", t>>

-----------------------------------------------------------------------------

(***************************************************************************)
(* The floating-point registers across context switches (feature fp_simd,  *)
(* which StarryOS is built with).  RISC-V saves them only when the FS      *)
(* field of sstatus says they were written; FS comes from the UspaceContext*)
(* when a task enters user space and is left alone by a return from a      *)
(* trap.  AArch64 and x86-64 always save and restore; LoongArch enables    *)
(* the unit and does neither.  Kernel code does not compute.               *)
(***************************************************************************)

CONSTANTS FpArchs, FpTasks, FpCpus, FpFirst, MaxFpWrites

VARIABLES
    fpArch,
    unit,    \* CPU -> [f, csr: register contents, fs: FS of sstatus]
    area,    \* task -> [f, csr, fs]: the task's FpStatus, FpState or FxsaveArea
    frameFs, \* task -> FS in its trap frame, or in its UspaceContext before it enters
    fpCur,   \* CPU -> task
    fpUser,  \* tasks in user mode when they run
    entered, \* tasks that have entered user space
    mine     \* task -> the contents its user code last wrote

fpVars == <<fpArch, unit, area, frameFs, fpCur, fpUser, entered, mine>>

Fresh == [f |-> 0, csr |-> 0]

FpInit ==
    /\ fpArch \in FpArchs
    /\ fpCur = FpFirst
    /\ unit = [c \in FpCpus |-> [f |-> 0, csr |-> 0, fs |-> "Initial"]]
    /\ area = [t \in FpTasks |-> [f |-> 0, csr |-> 0, fs |-> "Initial"]]
    /\ frameFs = [t \in FpTasks |-> "Initial"]
    /\ fpUser = {}
    /\ entered = {}
    /\ mine = [t \in FpTasks |-> Fresh]

(* User code computes: the CPU marks the unit dirty.                       *)
FpWrite(c, v) ==
    /\ fpCur[c] \in fpUser
    /\ unit' = [unit EXCEPT ![c] = [f |-> v, csr |-> v, fs |-> "Dirty"]]
    /\ mine' = [mine EXCEPT ![fpCur[c]] = [f |-> v, csr |-> v]]
    /\ UNCHANGED <<fpArch, area, frameFs, fpCur, fpUser, entered>>

(* SAVE_REGS stores sstatus, FS included.                                  *)
FpTrap(c) ==
    LET t == fpCur[c]
    IN  /\ t \in fpUser
        /\ frameFs' = [frameFs EXCEPT ![t] = unit[c].fs]
        /\ fpUser' = fpUser \ {t}
        /\ UNCHANGED <<fpArch, unit, area, fpCur, mine, entered>>

(* sys_clone(): the child's UspaceContext is a copy of the caller's trap   *)
(* frame, FS included; its TaskContext is new.                             *)
FpClone(c, u) ==
    LET t == fpCur[c]
    IN  /\ t \in entered \ fpUser
        /\ u \notin entered /\ \A k \in FpCpus : fpCur[k] # u
        /\ frameFs' = [frameFs EXCEPT ![u] = frameFs[t]]
        /\ UNCHANGED <<fpArch, unit, area, fpCur, fpUser, mine, entered>>

(* enter_uspace() writes sstatus as it is in the UspaceContext.            *)
FpEnter(c) ==
    LET t == fpCur[c]
    IN  /\ t \notin entered
        /\ unit' = [unit EXCEPT ![c].fs = frameFs[t]]
        /\ fpUser' = fpUser \cup {t}
        /\ entered' = entered \cup {t}
        /\ UNCHANGED <<fpArch, area, frameFs, fpCur, mine>>

MutFpReturn(c) ==
    LET t == fpCur[c]
    IN  /\ t \in entered \ fpUser
        /\ unit' = [unit EXCEPT ![c].fs = "Initial"]
        /\ fpUser' = fpUser \cup {t}
        /\ UNCHANGED <<fpArch, area, frameFs, fpCur, mine, entered>>

(* RESTORE_REGS: "restore sstatus, but don't change FS".                   *)
FpReturn(c) ==
    LET t == fpCur[c]
    IN  /\ t \in entered \ fpUser
        /\ fpUser' = fpUser \cup {t}
        /\ UNCHANGED <<fpArch, unit, area, frameFs, fpCur, mine, entered>>

(* save_fp_registers(), restore_fp_registers(), clear_fp_registers(): the  *)
(* last leaves the control register alone.                                 *)
SaveFp(u) == [f |-> u.f, csr |-> u.csr, fs |-> "Clean"]
RestoreFp(a) == [f |-> a.f, csr |-> a.csr, fs |-> "Clean"]
ClearFp(u) == [f |-> 0, csr |-> u.csr, fs |-> "Initial"]

(* switch_to() on RISC-V: the area of a task whose registers are clean is  *)
(* up to date already; a task that never wrote any gets zeros.             *)
RvFpSwitch(c, t, u) ==
    LET saved == IF unit[c].fs = "Dirty" THEN [area EXCEPT ![t] = SaveFp(unit[c])] ELSE area
    IN  /\ area' = saved
        /\ unit' = [unit EXCEPT ![c] = CASE saved[u].fs = "Clean" -> RestoreFp(saved[u])
                                         [] saved[u].fs = "Initial" -> ClearFp(@)]

(* fpstate_switch() of AArch64 and fxsave64/fxrstor64 of x86-64.           *)
FullFpSwitch(c, t, u) ==
    /\ area' = [area EXCEPT ![t] = [f |-> unit[c].f, csr |-> unit[c].csr, fs |-> @.fs]]
    /\ unit' = [unit EXCEPT ![c] = [f |-> area[u].f, csr |-> area[u].csr, fs |-> @.fs]]

(* LoongArch's switch_to() has no floating-point part.                     *)
NoFpSwitch(c, t, u) == UNCHANGED <<area, unit>>

FpSwitch(c, u) ==
    LET t == fpCur[c]
    IN  /\ t \notin fpUser
        /\ \A k \in FpCpus : fpCur[k] # u
        /\ CASE fpArch = "riscv64" -> RvFpSwitch(c, t, u)
             [] fpArch \in {"aarch64", "x86_64"} -> FullFpSwitch(c, t, u)
             [] fpArch = "loongarch64" -> NoFpSwitch(c, t, u)
        /\ fpCur' = [fpCur EXCEPT ![c] = u]
        /\ UNCHANGED <<fpArch, frameFs, fpUser, mine, entered>>

FpNext ==
    \E c \in FpCpus :
        \/ \E v \in 1..MaxFpWrites : FpWrite(c, v)
        \/ FpTrap(c)
        \/ FpEnter(c)
        \/ FpReturn(c)
        \/ \E u \in FpTasks : FpSwitch(c, u) \/ FpClone(c, u)

FpSpec == FpInit /\ [][FpNext]_fpVars

(* User code finds its floating-point registers as it left them, zero at   *)
(* first, whatever ran on the CPU meanwhile and whatever CPU it ran on     *)
(* before; the TaskContext documents "FP/SIMD registers" as part of it.    *)
(* The control register is left out for a RISC-V task that has not used    *)
(* the unit: clear_fp_registers() leaves it to the previous task.          *)
FpKept ==
    \A c \in FpCpus :
        LET t == fpCur[c]
        IN  t \in fpUser =>
                /\ unit[c].f = mine[t].f
                /\ unit[c].csr = mine[t].csr \/ (fpArch = "riscv64" /\ mine[t] = Fresh)

=============================================================================
