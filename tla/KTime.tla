-------------------------------- MODULE KTime -------------------------------
(***************************************************************************)
(* Time of a thread: TimeStat, updated where handle_syscall() enters and   *)
(* leaves the kernel, the system calls that tell it the time or make it    *)
(* sleep, and the periodic tick of a CPU, re-armed by the handler of the   *)
(* timer interrupt, which wakes the sleeper.  Nothing calls set_timer(),   *)
(* so the interval timer of a thread stays NONE and is left out.           *)
(***************************************************************************)
EXTENDS Integers

CONSTANTS
    PERIODIC_INTERVAL,   \* PERIODIC_INTERVAL_NANOS
    NANOS_PER_SEC, NANOS_PER_MICROS,
    EpochOffset,         \* epochoffset_nanos(): wall time at boot
    MaxTime, MaxBirth    \* bounds: the clock, the start of the thread

VARIABLES
    clock, birth,        \* now, and when the thread started
    mode,                \* "user", "kernel"
    utime, stime, user_timestamp, kernel_timestamp,
    usedUser, usedKernel,    \* time really spent in each mode
    afterSyscalls,       \* time in the kernel before the latest entry
    inExecve,            \* time in the calls that execve ended
    name,                \* name of the task
    call,                \* the system call, [pc, what, ...]
    NEXT_DEADLINE, armed, lastTick, ticked

tVars == <<clock, birth, mode, utime, stime, user_timestamp, kernel_timestamp,
           usedUser, usedKernel, afterSyscalls, inExecve, name, call, NEXT_DEADLINE, armed, lastTick, ticked>>
statVars == <<mode, utime, stime, user_timestamp, kernel_timestamp, afterSyscalls, inExecve, name>>
tickVars == <<NEXT_DEADLINE, armed, lastTick, ticked>>

EINVAL == "EINVAL"
NoCall == [pc |-> "none"]
Names == {"busybox", "other"}

(* A Duration in nanoseconds and the types of the system calls; new()      *)
(* carries nanoseconds into the seconds, a timeval has microseconds.       *)
Duration(n) == [secs |-> n \div NANOS_PER_SEC, nanos |-> n % NANOS_PER_SEC]
Nanos(d) == d.secs * NANOS_PER_SEC + d.nanos
timespec(d) == [tv_sec |-> d.secs, tv_nsec |-> d.nanos]
timeval(d) == [tv_sec |-> d.secs, tv_usec |-> d.nanos \div NANOS_PER_MICROS]
timespec_to_timevalue(ts) == Duration(ts.tv_sec * NANOS_PER_SEC + ts.tv_nsec)
timeval_to_timevalue(tv) == Duration(tv.tv_sec * NANOS_PER_SEC + tv.tv_usec * NANOS_PER_MICROS)

monotonic_time == Duration(clock)
wall_time == Duration(clock + EpochOffset)

(* TimeStat::new() of a thread started at any time; the tick is armed.     *)
TInit ==
    /\ birth \in 0..MaxBirth /\ clock = birth
    /\ mode = "user"
    /\ utime = 0 /\ stime = 0 /\ user_timestamp = 0 /\ kernel_timestamp = 0
    /\ usedUser = 0 /\ usedKernel = 0 /\ afterSyscalls = 0 /\ inExecve = 0
    /\ name \in Names /\ call = NoCall
    /\ NEXT_DEADLINE = 0 /\ armed = 0 /\ lastTick = 0 /\ ticked = FALSE

(* Time passes; an armed timer may fire late, when interrupts are off.     *)
Pass1 ==
    /\ clock < MaxTime
    /\ clock' = clock + 1
    /\ IF mode = "user" THEN usedUser' = usedUser + 1 /\ UNCHANGED usedKernel
                        ELSE usedKernel' = usedKernel + 1 /\ UNCHANGED usedUser
    /\ UNCHANGED <<birth, statVars, tickVars, call>>

(* switch_into_kernel_mode(), at the start of handle_syscall().            *)
IntoKernel ==
    LET delta == clock - kernel_timestamp
    IN  /\ mode = "user" /\ mode' = "kernel"
        /\ utime' = utime + delta
        /\ kernel_timestamp' = clock
        /\ afterSyscalls' = usedKernel
        /\ call' = [pc |-> "entered"]
        /\ UNCHANGED <<clock, birth, usedUser, usedKernel, stime, user_timestamp, inExecve, name, tickVars>>

MutIntoUser ==
    LET delta == clock - user_timestamp
    IN  /\ mode = "kernel" /\ mode' = "user"
        /\ call.pc \in {"entered", "done"} /\ call' = NoCall
        /\ stime' = stime + delta
        /\ user_timestamp' = clock
        /\ UNCHANGED <<clock, birth, usedUser, usedKernel, afterSyscalls, utime, kernel_timestamp,
                       inExecve, name, tickVars>>

(* switch_into_user_mode(), at its end.                                    *)
IntoUser ==
    LET delta == clock - kernel_timestamp
    IN  /\ mode = "kernel" /\ mode' = "user"
        /\ call.pc \in {"entered", "done"} /\ call' = NoCall
        /\ stime' = stime + delta
        /\ user_timestamp' = clock
        /\ UNCHANGED <<clock, birth, usedUser, usedKernel, afterSyscalls, utime, kernel_timestamp,
                       inExecve, name, tickVars>>

(* A successful execve enters the new program, whose name the task takes,  *)
(* from within the call.                                                   *)
ExecveEnters ==
    /\ mode = "kernel" /\ mode' = "user"
    /\ call.pc = "entered" /\ call' = NoCall
    /\ name' \in Names
    /\ inExecve' = inExecve + (clock - kernel_timestamp)
    /\ UNCHANGED <<clock, birth, usedUser, usedKernel, afterSyscalls, utime, stime, user_timestamp,
                   kernel_timestamp, tickVars>>

(* A system call reads the clock or the times of its thread.               *)
Tells(what, val) ==
    /\ call.pc = "entered"
    /\ call' = [pc |-> "done", what |-> what, val |-> val, at |-> clock]
    /\ UNCHANGED <<clock, birth, usedUser, usedKernel, statVars, tickVars>>

sys_clock_gettime(clock_id) ==
    Tells(clock_id, CASE clock_id = "CLOCK_REALTIME" -> timespec(wall_time)
                      [] clock_id = "CLOCK_MONOTONIC" -> timespec(monotonic_time)
                      [] OTHER -> EINVAL)

sys_gettimeofday == Tells("timeofday", timeval(wall_time))

time_stat_output == <<utime \div NANOS_PER_SEC, utime \div NANOS_PER_MICROS,
                      stime \div NANOS_PER_SEC, stime \div NANOS_PER_MICROS>>

sys_times == Tells("times", [tms_utime |-> time_stat_output[2], tms_stime |-> time_stat_output[4],
                             tms_cutime |-> time_stat_output[2], tms_cstime |-> time_stat_output[4]])

(* sys_nanosleep(): "busybox" does not sleep; the deadline is read after   *)
(* the time the call began, and only one ahead sets an alarm.              *)
Requests == [tv_sec : {-1, 0, 1}, tv_nsec : {-1, 0, 1, NANOS_PER_SEC}]

sys_nanosleep(req) ==
    IF req.tv_nsec < 0 \/ req.tv_nsec > NANOS_PER_SEC - 1 \/ req.tv_sec < 0
    THEN Tells("invalid", EINVAL)
    ELSE /\ call.pc = "entered"
         /\ call' = [pc |-> "asked", what |-> "nanosleep", start |-> clock,
                     dur |-> Nanos(timespec_to_timevalue(req))]
         /\ UNCHANGED <<clock, birth, usedUser, usedKernel, statVars, tickVars>>

sleep ==
    LET deadline == Nanos(wall_time) + call.dur
    IN  /\ call.pc = "asked"
        /\ call' = IF name # "busybox" /\ Nanos(wall_time) < deadline
                   THEN [pc |-> "sleeping", what |-> "nanosleep", start |-> call.start, dur |-> call.dur,
                         deadline |-> deadline]
                   ELSE [call EXCEPT !.pc = "woken"]
        /\ UNCHANGED <<clock, birth, usedUser, usedKernel, statVars, tickVars>>

(* The remainder is written whenever dur.checked_sub(actual) is not None.  *)
NanosleepReturns ==
    LET actual == clock - call.start
    IN  /\ call.pc = "woken"
        /\ call' = [pc |-> "done", what |-> "nanosleep", at |-> clock, start |-> call.start, dur |-> call.dur,
                    val |-> IF call.dur >= actual THEN <<timespec(Duration(call.dur - actual))>> ELSE <<>>]
        /\ UNCHANGED <<clock, birth, usedUser, usedKernel, statVars, tickVars>>

(* check_events(): the alarms that are due go off.                         *)
check_events ==
    call' = IF call.pc = "sleeping" /\ call.deadline <= Nanos(wall_time)
            THEN [pc |-> "woken", what |-> "nanosleep", start |-> call.start, dur |-> call.dur] ELSE call

(* The handler of the timer interrupt: update_timer() arms the next        *)
(* deadline, or one interval from now when that is past; on_timer_tick()   *)
(* checks the alarms.                                                      *)
TimerIrq ==
    /\ clock >= armed
    /\ check_events
    /\ armed' = IF clock >= NEXT_DEADLINE THEN clock + PERIODIC_INTERVAL ELSE NEXT_DEADLINE
    /\ NEXT_DEADLINE' = armed' + PERIODIC_INTERVAL
    /\ lastTick' = clock /\ ticked' = TRUE
    /\ UNCHANGED <<clock, birth, usedUser, usedKernel, statVars>>

(* handle_syscall(): the entry, one of the calls above or any other that   *)
(* does not look at the time, and the exit, which execve does not reach.   *)
handle_syscall ==
    \/ IntoKernel
    \/ \E id \in {"CLOCK_REALTIME", "CLOCK_MONOTONIC", "CLOCK_BOOTTIME"} : sys_clock_gettime(id)
    \/ sys_gettimeofday \/ sys_times
    \/ \E req \in Requests : sys_nanosleep(req)
    \/ sleep \/ NanosleepReturns
    \/ IntoUser \/ ExecveEnters

TNext == Pass1 \/ handle_syscall \/ TimerIrq

TSpec == TInit /\ [][TNext]_tVars

-----------------------------------------------------------------------------

(* What a call returned, against the time it was made: the clocks exactly, *)
(* gettimeofday to the microsecond below; a task that slept was not woken  *)
(* before its time was up and is owed nothing, one that did not sleep is   *)
(* told all of what is left.                                               *)
CallsTell ==
    CASE call.what = "CLOCK_REALTIME" -> Nanos(timespec_to_timevalue(call.val)) = call.at + EpochOffset
      [] call.what = "CLOCK_MONOTONIC" -> Nanos(timespec_to_timevalue(call.val)) = call.at
      [] call.what = "timeofday" -> call.at + EpochOffset - Nanos(timeval_to_timevalue(call.val))
                                        \in 0..(NANOS_PER_MICROS - 1)
      [] call.what = "times" -> usedKernel - inExecve - (clock - kernel_timestamp)
                                    - call.val.tms_stime * NANOS_PER_MICROS \in 0..(NANOS_PER_MICROS - 1)
      [] call.what = "nanosleep" ->
            LET elapsed == call.at - call.start
                rem == IF call.val = <<>> THEN 0 ELSE Nanos(timespec_to_timevalue(call.val[1]))
            IN  IF name = "busybox" THEN elapsed + rem >= call.dur /\ (rem > 0 => elapsed + rem = call.dur)
                                    ELSE elapsed >= call.dur /\ rem = 0
      [] OTHER -> call.val = EINVAL

(* System time is the time spent between the entries and the exits of      *)
(* system calls, exactly, those that execve ended excepted; user time is   *)
(* what it should be plus the kernel time of all earlier calls and the     *)
(* time before the thread began, and no more; the tick is always armed     *)
(* ahead of the interrupt that arms it, by no more than one interval,      *)
(* however late that interrupt was taken; no tick leaves a task asleep     *)
(* whose deadline has come; and the calls tell the truth.                  *)
TimesAndTicks ==
    /\ mode = "user" => stime + inExecve = usedKernel
    /\ mode = "kernel" => stime + inExecve + (clock - kernel_timestamp) = usedKernel
    /\ mode = "kernel" => utime = usedUser + afterSyscalls + birth
    /\ call.pc = "sleeping" /\ ticked => lastTick + EpochOffset < call.deadline
    /\ call.pc = "done" => CallsTell
    /\ ticked => armed > lastTick /\ armed <= lastTick + PERIODIC_INTERVAL

=============================================================================
