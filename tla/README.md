# Verification of StarryOS

StarryOS is a monolithic kernel in Rust that runs Linux programs on top of the ArceOS modules. This
directory holds TLA+ models of its parts, TLC configurations that check them on small instances, and TLAPS
proofs that hold for instances of any size. `PROJECT.json` links every definition to the lines it models,
every property to a mutant that breaks it, and every hazard to the properties that would notice it.

## The system

System calls run on axtask tasks, and a process is a group of tasks that share an address space, a
namespace and a signal table. Everything that sleeps goes through the wait queues of axtask, so `Sched` is
the ground the others stand on: `Mutex`, `TaskExit`, `Futex` and `Process` take from it that an operation
on a wait queue is one step under the queue's spin lock. A pipe and a standard stream add a mutex; files
go down from the descriptor table over axfs to the disk; poll, select and epoll scan all of these.

StarryOS is built with `multitask`, `irq` and `smp`, without `preempt` and `tls`, and with the FIFO
scheduler. The models therefore interleave CPUs freely but never take a CPU away from a task that does
not give it up.

## Modules

| Module | Code | State and actions |
|---|---|---|
| `Sched` | `axtask`: `run_queue.rs`, `wait_queue.rs`, `timers.rs`, `api.rs` | A CPU goes through the phases run, push, pick, ctx, clear and spin; `task` has the fields of `TaskInner` that matter. `Spec` has yield, wait, wait_timeout, sleep, notify, spawn, exit, timer ticks and the switch; `SpecFull` adds affinity, migration and requeue |
| `Mutex`, `AbstractLock` | `axsync/src/mutex.rs` | the exchange, the test in `wait_until`, the sleep, clearing the owner, `notify_one`; and what a lock promises |
| `TaskExit` | `run_queue.rs`, `task.rs` | the publications of `exit_current` one by one, `join`, the gc task of each CPU |
| `Pipe`, `ByteChannel` | `api/src/file/pipe.rs` | the ring byte by byte under its mutex, retry loops, ends that close; and what a pipe promises |
| `IoMpx` | `io_mpx/` of the kernel and of the POSIX layer | scans of poll, select and epoll with deadlines, while descriptors come and go |
| `Boot` | `axruntime`, `axhal` platforms | initialisation in order and the start of the CPUs, on five platforms |
| `Futex` | `core/src/futex.rs`, `api/src/imp/futex.rs`, `exit.rs` | the table of queues and its guards, wait, wake, requeue, the wakeup at exit |
| `Signals` | `api/src/imp/signal.rs`, `api/src/signal.rs` | masks, handlers, kill, sigsuspend, sigtimedwait, sigreturn |
| `Process` | `api/src/imp/task/` | clone, the steps of `do_exit`, kill, `waitpid` with its scan and its sleep |
| `ExecLoad` | `core/src/mm.rs`, `execve.rs` | unmapping, scripts and interpreters, segments, stack and heap |
| `AddrSpace` | `axmm`, `api/src/imp/mm/`, `src/mm.rs` | areas and page table per page, frames and their contents; a call is one step under the lock of the address space, a fault and its handler are two |
| `UserMem` | `api/src/ptr.rs`, `core/src/mm.rs` | checks of user ranges and strings, the flag of the accessing CPU, faults and migration in between |
| `FdTable` | `api/src/file/mod.rs`, `fd_ops.rs`, `pipe.rs`, `io.rs` | the tables with open, close, dup, pipe2, clone, exit; readv, writev, sendfile |
| `Directories` | `api/src/imp/fs/`, `api/src/path.rs`, `axfs` | getdents64, the directory iterator, the table of hard links |
| `WorkDir` | `api/src/path.rs`, `axfs/src/root.rs`, mounts | chdir, open, stat, mount and umount by path |
| `Axfs` | `axfs/src/fops.rs`, `root.rs`, `fs/lwext4_rust.rs` | open with options and rights, read, write, seek, truncate, create, remove |
| `Disk`, `ByteDevice` | `axfs/src/dev.rs`, loops of `fs/` | the cursor over whole blocks; and the array of bytes it implements |
| `Sockets` | `axnet` | TCP states and handles, UDP datagrams, the order of the stack's locks |
| `Namespaces` | `axns`, `core/src/task.rs` | cells that are initialised once, shared or copied at clone |
| `Heap` | `axalloc`, `axdma` | byte and page allocator, growth, coherent memory |
| `KTime` | `core/src/time.rs`, `src/syscall.rs`, `axruntime`, `api/src/time.rs`, `api/src/imp/time.rs`, `schedule.rs` | the entry and the exit of a system call with their accounting, the calls that tell the time or sleep, their conversions, the tick that wakes the sleeper |
| `Console`, `Pthread` | `axhal` UARTs, `stdio.rs`, `axlog`; `pthread` | writers with and without locks, buffered input; create, exit and join |
| `CpuContext` | `axhal/src/arch`, `clone.rs`, `execve.rs`, `thread.rs` | which register is saved and restored where, on four architectures: traps, system calls, switches, the first context of a task, of a clone and of a new program, arch_prctl; and the floating-point unit |
| `CText`, `CFormat`, `CRuntime` | `axlibc` | strings, numbers, calendar, printf and addresses as functions against what the C standard says; malloc and memory functions, setjmp |

Crates outside the repository (`axprocess`, `axsignal`, `memory_set`, `page_table_multiarch`, `allocator`,
`smoltcp`, `lwext4`, `fatfs`) are modelled from how the code uses them and marked external in the map.
Operators named `Mut...`, or commented as mutants, are plausible wrong versions of a step.

## Runs

Parts that share no state are checked by one run: the variable `which` names the one that moves, and the
variables of the others are `Off` or stay as they start. The initial states cover every value of `which`.

| Run | Instance | Shows |
|---|---|---|
| `sched` | 2 CPUs, 3 tasks, 1 wait queue, 2 timer tickets | `ContextSaved`: a context has one CPU and is loaded after it was saved; `NoTaskLost`: no task is queued twice, lost when ready or asleep out of reach; `TimerWakesItsWait`: a stale alarm wakes nobody |
| `cpu` | `Sched` with migration and requeue: 2 CPUs, 2 tasks, 2 wait queues; `CpuContext`: 3 tasks, 2 CPUs, 1 trap and 1 call each of two | `AffinityRespected`; `SpinEnds`: no CPU spins for ever for another's switch; general and floating-point registers follow their task |
| `threads` | `Mutex` 3 tasks; `TaskExit` 3 tasks, 3 joiners; `Pipe` 1 reader, 2 writers, ring of 2; `IoMpx` 2 descriptors; `Boot` 3 CPUs | exclusion and no lost wakeup, exited tasks freed once and joined, boot in order, the refinements of `AbstractLock` and `ByteChannel`, what poll reports; `WaitsEnd`: a wait for something that is bound to come ends |
| `files` | 2 or 3 threads, 3 open files, 2 descriptors, trees of 3 directories | no descriptor outlives its table's threads or comes back, bytes move in order, listings are complete, paths resolve where they were given, nobody writes without the right, the disk is an array of bytes |
| `futex` | `Futex` 3 threads, 2 words, 3 queues, 1 requeue; `Signals` 2 threads, 2 sends, 1 frame | `FutexKept`: a sleeper is in the queue that the next wake of its word looks at; `MaskKept`: handlers and sigsuspend restore the mask |
| `process` | `Process` 3 ids, 1 kill; `ExecLoad` scripts up to depth 3 | records of the family agree, a zombie has no thread, exit codes are final, parents are signalled and woken; a complete image or an error |
| `aspace` | 2 threads and a forked child, 2 pages, 3 frames, 2 calls | no frame backs two pages, entries follow the areas, frames come back, fork copies |
| `services` | the other modules, 2 threads or CPUs each; the library over lists of arguments | handles owned once, datagrams in order, no circular wait among pollers, user strings checked, kernel memory owned once, namespaces isolated, time adds up and the calls tell it, lines whole, joins get values, the library agrees with its definitions |
| `task_exit_code`, `futex_join`, `process_wait`, `aspace_segv` | small | the disagreements below |

**Bounds.** Races here need two CPUs and a third party: three tasks give a sleeper, a waker and a
competitor. Two tickets let an alarm of one wait meet the next wait. A ring of two bytes is full, empty
and wrapped around within three bytes, and calls longer than the ring go round the loop. Three queues for
two words let a queue be unhooked and made anew. Three ids allow parent, child and grandchild, or a
process with two threads and its child. In `aspace` the heap has a frame at the start, so that two calls
(`MaxCalls`) reach mixed ranges, holes and overlapping `MAP_FIXED`, and three frames run out. The dates
of the calendar lie around the changes of century and of sign. Every bound is a constant with a name.
Symmetry is used for interchangeable tasks, threads, frames and names, only in runs without liveness.

**Deadlock** is checked except in `futex`, `process`, `aspace` and the violations of these: there every
thread may have exited, or sleep for ever because nobody wakes it, which is the programs' business. A
step `Finished` or `Bounded` stands for what goes on when a bound is used up.

**Fairness** (run `threads`). `Mutex`: each CPU goes on with its task (weak); somebody's exchange, and
somebody's turn at the queue's spin lock, succeed when they are possible again and again (two strong
conditions for all tasks together, as the atomics and the FIFO hand-over of the run queue promise).
`TaskExit`: steps inside `exit_current` run with interrupts off and go on, as do joiners and gc tasks that
are not blocked (weak); whether a task exits is left open, and the property speaks of those that do.
`Pipe`: callers yield into a FIFO run queue and do not find the mutex taken each time (strong). `IoMpx`:
scans and the clock go on (weak). `Boot`: a CPU that was started runs (weak). All other specifications
have safety properties only.

## Disagreements between code and comments

With a run that shows them; the comments they contradict are quoted in `PROJECT.json`:

- `task_exit_code`: `exit_current` sets the state before the exit code is stored, and `join` tests only
  the state; a join on another CPU returns 0 (`axtask/src/run_queue.rs:368`).
- `futex_join`: the word is compared before the queue is locked, so the store and the wakeup of a thread's
  exit can fall in between, and a joiner sleeps for ever (`api/src/imp/futex.rs:29`).
- `process_wait`: `waitpid` scans, then sleeps; an exit in between is not reported
  (`api/src/imp/task/wait.rs:92`).
- `aspace_segv`: the handler of a page fault maps a page that another thread has mapped meanwhile; that
  fails, a frame is lost and the process ends with SIGSEGV (`axmm/src/backend/alloc.rs:95`). `LossBounded`
  bounds the loss.

Others were met while modelling, and the properties are stated around them: `FaultsAllowed` of `UserMem`
fails when a thread migrates between setting the flag of its CPU and the access; `BusyExclusive` of
`Sockets` fails, since `poll_connect` resets the addresses of a TCP socket
without taking its busy state; a thread in accept or connect can wait in a circle with another (`CirclesLeavePoll` says that pollers do not take part);
`ExitReachesJoiner` of `Pthread` fails for a thread that exits before its creator has entered it in the
table; on LoongArch `longjmp` loads the registers from where the value points, and `switch_to` keeps no
floating-point registers; on the Raspberry Pi 4 a CPU may start before its stack is in the shared word;
`OpenedByItsPath` of `WorkDir` fails when another thread calls chdir between the two parts of its record;
user time also counts the system calls before the latest one and the time before the thread began, and
the time in an execve that succeeds is counted nowhere; a task named busybox does not sleep in nanosleep
and is told that all of its time is left.

## Proofs

TLAPS proves the following for every value of the constants, from the named `ASSUME`s only: that special
values like "no task" are not members of the sets they are used with, that targets and homes are among
the tasks and CPUs, that the idle and migration tasks of the CPUs differ, that sizes and ids are natural
numbers (a ring's size is not 0), and that the tasks, threads, pages and frames that are counted are
finite.

- **`ThreadProofs`**, any tasks: `MutexKept` and the refinement of `AbstractLock`. The inductive invariant
  adds `SpinLockHeld` (the queue's spin lock is held by the task that tests the condition);
  `SleepersQueued` is needed because waking the head of the queue must disturb no task that is not asleep.
  For any CPUs, tasks and joiners: `ExitedTasksKept`. Here `ListsKept` says that a task is in the list of
  its CPU, once, from the time it is listed until it is dropped, and that the gc task's counter never
  exceeds that list; `JoinersKept` that blocked joiners are in the queue of their target, and that the
  queue is empty once the target has woken them. Lemmas say what push, pop and rotation do to the entries
  of a queue without repetitions; `SchedInv` has those that the run queues need.
- **`PipeProofs`**, any ring size and any disjoint readers and writers: the types, `CountsRight`,
  `CopyWithinRoom`, `EofAtEnd`, `WriteComplete`, `PipeCallsKept` and the refinement of `ByteChannel`. The
  counts alone are not inductive: `RingShape` says where `tail` is in terms of the bytes in the ring, and
  `RingHolds` that these are the bytes sent and not yet received, in order.
- **`ProcessProofs`**, any ids: `FamilyKept`, `ExitCodeFinal`, `WaiterWoken`. The state of a process
  follows from where its threads are (`StateFollowsThreads`), one thread takes it down (`OneCloses`), and
  the children that a waitpid has listed stay children of its process (`ListedAreChildren`).
- **`AddrSpaceProofs`**, any spaces, threads, pages and frames: `FramesKept`, `EntriesFollowAreas`,
  `LossBounded`, `ForkCopies`. mmap, munmap, mprotect, drop and fork all unmap a range and map a part of
  it with new frames, which the lemmas about `Remapped` show to keep frames apart and to lose none; only
  the fault handler differs, where the lost frame is paid for by the thread that dies. The invariant adds
  that unused spaces are empty and that faults are at pages.
- **`SchedInv`, `SchedCalls`, `SchedSteps`, `SchedProofs`**, any CPUs, tasks, wait queues and tickets: for `SpecFull`,
  `ContextSaved`, `AffinityRespected` and `SpinEnds`; for `Spec`, also `NoTaskLost` and
  `TimerWakesItsWait`. `Core` is inductive for all steps: a task is used by one CPU at most and `on_cpu`
  says so (`CpusKept`), the idle and migration tasks stay with their CPUs (`OwnTasksKept`), a Running task
  is current on one CPU that its mask allows (`RunningKept`), a Ready task is in one place, a run queue,
  the hands of a waker or those of a migration task (`PlacesKept`), and a queued task whose CPU has not yet left
  it is queued on that CPU (`HandedOver`). The last is what makes the on_cpu handshake work: a task that
  yields is queued while its registers are still in use, which is safe only because no other CPU takes
  from that queue. Without requeue, `WaitsKept` (wait queues hold the tasks that wait in them, and no other) and
  `TimersKept` (an alarm that still matches belongs to a wait that is not over) are inductive as well. The
  four modules are the invariant and what leaves it alone, the calls of the running task with
  `cancel_events`, the wakeups and the switch, and migration with the theorems.

Each property that is proved is checked by a run too. Only model-checked: every liveness property
(beyond the prover); `Futex` with `FutexKept` and the refinement of `ByteDevice`, which are left for later;
`NoTaskLost` with requeue in the system, which does not hold in that form, since a task is in no queue
between the two halves of requeue; all of `services` and `files`, where the state is small or the
definitions are recursive, which the prover does not take; registers and boot, whose constants are fixed.

## Not modelled

TLBs (munmap flushes only the TLB of its own CPU), PROT_NONE and linear mappings; FUTEX operations that
the code rejects; stop and continue; process groups and sessions, which are lookups in an external crate;
brk, which moves a mark in a heap that is mapped whole; interval timers, which nothing fires; exception
decoding and the mathematical functions of the C library, which need real numbers; drivers and display,
feature selection, system information, and the interfaces for unikernel programs, which hand over to
external crates or to the modules above. `PROJECT.json` lists every part with its reason.
