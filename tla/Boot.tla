-------------------------------- MODULE Boot --------------------------------
(***************************************************************************)
(* The boot of an SMP system: rust_main() on the primary CPU initialises   *)
(* the shared facilities in order and starts the other CPUs one by one;    *)
(* each runs rust_main_secondary(); all wait for each other before the     *)
(* application starts.                                                     *)
(*                                                                         *)
(* How a secondary CPU gets its stack depends on the platform: as an       *)
(* argument of the firmware call (RISC-V SBI, PSCI), or through one word   *)
(* of memory all of them read (x86-64, LoongArch, Raspberry Pi 4).         *)
(***************************************************************************)
EXTENDS Integers, Sequences, FiniteSets

CONSTANTS
    SMP,         \* number of CPUs
    Platforms,   \* subset of {"sbi", "psci", "x86_pc", "loongarch", "raspi"}
    MaxSpawns    \* bound: tasks the application starts

ASSUME SmpAssumption == SMP \in Nat \ {0}

VARIABLES
    plat, primary,
    bootPc,      \* CPU -> next step
    ready,       \* facilities initialised
    nextCpu, logicId, \* loop variables of start_secondary_cpus()
    startWord,   \* the shared word
    startArg,    \* CPU -> argument of its firmware call
    released,    \* CPUs told to start
    bootStack,   \* CPU -> stack it runs on
    ENTERED_CPUS, INITED_CPUS,
    RUN_QUEUES,  \* CPUs whose run queue is written
    rqIndex, placed  \* RUN_QUEUE_INDEX; the run queues given a task

bootVars == <<plat, primary, bootPc, ready, nextCpu, logicId, startWord, startArg, released,
              bootStack, ENTERED_CPUS, INITED_CPUS, RUN_QUEUES, rqIndex, placed>>

BootCpus == 0..(SMP - 1)
NoStack == -1
BOOT_STACK == SMP

BootInit ==
    /\ plat \in Platforms
    /\ primary \in BootCpus
    /\ bootPc = [c \in BootCpus |-> IF c = primary THEN "entry" ELSE "off"]
    /\ ready = {}
    /\ nextCpu = 0 /\ logicId = 0
    /\ startWord = NoStack
    /\ startArg = [c \in BootCpus |-> NoStack]
    /\ released = {}
    /\ bootStack = [c \in BootCpus |-> IF c = primary THEN BOOT_STACK ELSE NoStack]
    /\ ENTERED_CPUS = 1
    /\ INITED_CPUS = 0
    /\ RUN_QUEUES = {}
    /\ rqIndex = 0 /\ placed = {}

is_init_ok == INITED_CPUS = SMP

(* A step of the primary that initialises one thing, and what comes next.  *)
Stage(from, to, what) ==
    /\ bootPc[primary] = from
    /\ bootPc' = [bootPc EXCEPT ![primary] = to]
    /\ ready' = ready \cup {what}
    /\ UNCHANGED <<plat, primary, nextCpu, logicId, startWord, startArg, released, bootStack,
                   ENTERED_CPUS, INITED_CPUS, rqIndex, placed>>

(* rust_entry(): the BSS, then percpu::init() for all CPUs.                *)
RustEntry == Stage("entry", "alloc", "percpu") /\ UNCHANGED RUN_QUEUES
InitAllocator == Stage("alloc", "paging", "alloc") /\ UNCHANGED RUN_QUEUES
InitPaging == "alloc" \in ready /\ Stage("paging", "sched", "paging") /\ UNCHANGED RUN_QUEUES
InitScheduler == "alloc" \in ready /\ Stage("sched", "drivers", "sched")
                 /\ RUN_QUEUES' = RUN_QUEUES \cup {primary}
InitDrivers == Stage("drivers", "start", "drivers") /\ UNCHANGED RUN_QUEUES

(* start_secondary_cpus(): the loop over CPU numbers.                      *)
Pass ==
    /\ bootPc[primary] = "start"
    /\ \/ /\ nextCpu \in BootCpus /\ ~(nextCpu # primary /\ logicId < SMP - 1)
          /\ nextCpu' = nextCpu + 1 /\ UNCHANGED bootPc
       \/ /\ nextCpu = SMP
          /\ bootPc' = [bootPc EXCEPT ![primary] = "irq"] /\ UNCHANGED nextCpu
    /\ UNCHANGED <<plat, primary, ready, logicId, startWord, startArg, released, bootStack,
                   ENTERED_CPUS, INITED_CPUS, RUN_QUEUES, rqIndex, placed>>

Starting == bootPc[primary] = "start" /\ nextCpu \in BootCpus \ {primary} /\ logicId < SMP - 1

Spun(pc) ==
    /\ bootPc' = [bootPc EXCEPT ![primary] = pc]
    /\ logicId' = logicId + 1
    /\ UNCHANGED <<plat, primary, ready, nextCpu, bootStack, ENTERED_CPUS, INITED_CPUS, RUN_QUEUES,
                   rqIndex, placed>>

(* hart_start() and cpu_on(): the firmware passes the stack.               *)
StartByFirmware ==
    /\ Starting /\ plat \in {"sbi", "psci"}
    /\ startArg' = [startArg EXCEPT ![nextCpu] = logicId]
    /\ released' = released \cup {nextCpu}
    /\ UNCHANGED startWord
    /\ Spun("wait")

(* The stack goes into the start page, or SMP_BOOT_STACK_TOP, before the   *)
(* interrupt that starts the CPU.  The second SIPI finds it running.       *)
StartByInterrupt ==
    /\ Starting /\ plat \in {"x86_pc", "loongarch"}
    /\ startWord' = logicId
    /\ released' = released \cup {nextCpu}
    /\ UNCHANGED startArg
    /\ Spun("wait")

(* Raspberry Pi 4: the spin table entry is written first, the stack after  *)
(* it; the CPU may see the entry whenever it wakes.                        *)
Release ==
    /\ Starting /\ plat = "raspi"
    /\ released' = released \cup {nextCpu}
    /\ UNCHANGED <<startArg, startWord>>
    /\ Spun("stack")

SetStack ==
    /\ bootPc[primary] = "stack"
    /\ startWord' = logicId - 1
    /\ bootPc' = [bootPc EXCEPT ![primary] = "wait"]
    /\ UNCHANGED <<plat, primary, ready, nextCpu, logicId, startArg, released, bootStack,
                   ENTERED_CPUS, INITED_CPUS, RUN_QUEUES, rqIndex, placed>>

MutWaitEntered ==
    /\ bootPc[primary] = "wait"
    /\ bootPc' = [bootPc EXCEPT ![primary] = "start"]
    /\ nextCpu' = nextCpu + 1
    /\ UNCHANGED <<plat, primary, ready, logicId, startWord, startArg, released, bootStack,
                   ENTERED_CPUS, INITED_CPUS, RUN_QUEUES, rqIndex, placed>>

(* The loop on ENTERED_CPUS.                                               *)
WaitEntered ==
    /\ bootPc[primary] = "wait"
    /\ ENTERED_CPUS > logicId
    /\ bootPc' = [bootPc EXCEPT ![primary] = "start"]
    /\ nextCpu' = nextCpu + 1
    /\ UNCHANGED <<plat, primary, ready, logicId, startWord, startArg, released, bootStack,
                   ENTERED_CPUS, INITED_CPUS, RUN_QUEUES, rqIndex, placed>>

(* init_interrupt() and the constructors.                                  *)
InitInterrupt == Stage("irq", "count", "irq") /\ UNCHANGED RUN_QUEUES

-----------------------------------------------------------------------------
(* Secondary CPUs.                                                         *)

Own(c, from, to) ==
    /\ bootPc[c] = from
    /\ bootPc' = [bootPc EXCEPT ![c] = to]
    /\ UNCHANGED <<plat, primary, ready, nextCpu, logicId, startWord, startArg, released, rqIndex, placed>>

(* _start_secondary: the CPU takes its stack.                              *)
TakeStack(c) ==
    /\ c \in released
    /\ Own(c, "off", "percpu")
    /\ bootStack' = [bootStack EXCEPT ![c] = IF plat \in {"sbi", "psci"} THEN startArg[c] ELSE startWord]
    /\ UNCHANGED <<ENTERED_CPUS, INITED_CPUS, RUN_QUEUES>>

(* init_percpu_reg() needs the area percpu::init() made.                   *)
InitPercpu(c) ==
    /\ Own(c, "percpu", "enter")
    /\ UNCHANGED <<bootStack, ENTERED_CPUS, INITED_CPUS, RUN_QUEUES>>

Enter(c) ==
    /\ Own(c, "enter", "paging2")
    /\ ENTERED_CPUS' = ENTERED_CPUS + 1
    /\ UNCHANGED <<bootStack, INITED_CPUS, RUN_QUEUES>>

(* init_memory_management_secondary(), platform_init_secondary().          *)
PagingSecondary(c) ==
    /\ Own(c, "paging2", "sched2")
    /\ UNCHANGED <<bootStack, ENTERED_CPUS, INITED_CPUS, RUN_QUEUES>>

SchedulerSecondary(c) ==
    /\ Own(c, "sched2", "count")
    /\ RUN_QUEUES' = RUN_QUEUES \cup {c}
    /\ UNCHANGED <<bootStack, ENTERED_CPUS, INITED_CPUS>>

Count(c) ==
    /\ Own(c, "count", "spin")
    /\ INITED_CPUS' = INITED_CPUS + 1
    /\ UNCHANGED <<bootStack, ENTERED_CPUS, RUN_QUEUES>>

(* The loop on is_init_ok(), then main() or run_idle().                    *)
AllOk(c) ==
    /\ is_init_ok
    /\ Own(c, "spin", IF c = primary THEN "main" ELSE "idle")
    /\ UNCHANGED <<bootStack, ENTERED_CPUS, INITED_CPUS, RUN_QUEUES>>

(* The application spawns a task: select_run_queue_index() goes round.     *)
SpawnTask ==
    /\ bootPc[primary] = "main"
    /\ rqIndex < MaxSpawns
    /\ placed' = placed \cup {rqIndex % SMP}
    /\ rqIndex' = rqIndex + 1
    /\ UNCHANGED <<plat, primary, bootPc, ready, nextCpu, logicId, startWord, startArg, released,
                   bootStack, ENTERED_CPUS, INITED_CPUS, RUN_QUEUES>>

PrimaryStep ==
    \/ RustEntry \/ InitAllocator \/ InitPaging \/ InitScheduler \/ InitDrivers
    \/ Pass \/ StartByFirmware \/ StartByInterrupt \/ Release \/ SetStack \/ WaitEntered
    \/ InitInterrupt \/ Count(primary) \/ AllOk(primary) \/ SpawnTask

SecondaryStep(c) ==
    \/ TakeStack(c) \/ InitPercpu(c) \/ Enter(c) \/ PagingSecondary(c) \/ SchedulerSecondary(c)
    \/ Count(c) \/ AllOk(c)

BootNext == PrimaryStep \/ \E c \in BootCpus \ {primary} : SecondaryStep(c)

BootSpec == BootInit /\ [][BootNext]_bootVars

(* A CPU that has started runs on; one that is released starts.            *)
BootFairSpec == /\ BootSpec
                /\ WF_bootVars(PrimaryStep)
                /\ \A c \in BootCpus : WF_bootVars(c # primary /\ SecondaryStep(c))

-----------------------------------------------------------------------------

(* No two CPUs run on one stack, a secondary CPU uses the per-CPU areas,   *)
(* the kernel page table and the allocator only when the primary has made  *)
(* them, and a task is put only on a run queue that exists: RUN_QUEUES     *)
(* entries are read with assume_init_mut().  (Stacks on the Raspberry Pi 4 *)
(* apart, where a CPU may start before its stack is in the shared word.)   *)
BootOrder ==
    /\ plat # "raspi" =>
           /\ \A c, d \in BootCpus : c # d /\ bootStack[c] # NoStack => bootStack[c] # bootStack[d]
           /\ \A c \in BootCpus \ {primary} : bootPc[c] # "off" => bootStack[c] # NoStack
    /\ \A c \in BootCpus \ {primary} :
           bootPc[c] # "off" => {"percpu", "paging", "alloc"} \subseteq ready
    /\ placed \subseteq RUN_QUEUES

(* Every CPU has come up: the application runs and the other CPUs idle.    *)
BootComplete ==
    /\ bootPc[primary] = "main"
    /\ \A c \in BootCpus \ {primary} : bootPc[c] = "idle"

=============================================================================
