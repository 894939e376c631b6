------------------------------- MODULE IoMpx --------------------------------
(***************************************************************************)
(* Waiting for one of several descriptors: do_poll of the kernel           *)
(* (api/src/imp/fs/io_mpx/poll.rs), sys_epoll_* and sys_select of          *)
(* arceos_posix_api (imp/io_mpx).  All three scan the descriptors one by   *)
(* one, return when the scan found something, return 0 when the deadline   *)
(* has passed, and otherwise yield and scan again.  Meanwhile the files    *)
(* become ready and cease to be, other threads close the descriptors and   *)
(* change the interest list of the epoll instance.                         *)
(***************************************************************************)
EXTENDS Integers, FiniteSets

CONSTANTS NumFds, MaxNow, MaxEvents

Kinds == {"poll", "epoll", "select"}
Events == {"in", "out", "err"}
MpxFds == 1..NumFds

VARIABLES
    file,     \* per descriptor what poll() of its file says, {"err"} for an
              \* error, {"closed"} when the descriptor is not open
    kind, interest, \* the call and the events it asks for
    mpc, at,  \* where it is; the descriptor the scan is at
    hits,     \* the events the scan has found
    deadline, now, \* -1 for no deadline
    steady,   \* history: what was asked for and ready since the scan began
    mpxResult \* what the call returned: a number, -1 an error, -2 a panic

mpxVars == <<file, kind, interest, mpc, at, hits, deadline, now, steady, mpxResult>>

FileStates == {{}, {"in"}, {"in", "out"}, {"err"}, {"closed"}}

\* The call returns.
MpxReturn(r) == mpc' = "user" /\ mpxResult' = r /\ at' = 1 /\ hits' = {} /\ steady' = {}

MpxInit ==
    /\ file = [d \in MpxFds |-> {}] /\ kind = "poll"
    /\ interest = [d \in MpxFds |-> {}] /\ mpc = "user" /\ at = 1 /\ hits = {}
    /\ deadline = -1 /\ now = 0 /\ steady = {} /\ mpxResult = 0

\* What the call asks for and is the case.
AskedReady == {<<d, e>> \in MpxFds \X Events : e \in interest[d] \cap file[d]}

\* The call: the deadline is fixed before the first scan.
MpxCall(k, want, timeout) ==
    /\ mpc = "user"
    /\ kind' = k /\ deadline' = (IF timeout = -1 THEN -1 ELSE now + timeout)
    /\ interest' = IF k = "epoll" THEN interest ELSE want
    /\ mpc' = "begin" /\ mpxResult' = 0
    /\ UNCHANGED <<file, at, hits, now, steady>>

\* A scan begins; EpollInstance::poll_all holds the lock of the list during it.
ScanBegin ==
    /\ mpc = "begin"
    /\ mpc' = "scan" /\ at' = 1 /\ hits' = {} /\ steady' = AskedReady
    /\ UNCHANGED <<file, kind, interest, deadline, now, mpxResult>>

\* What the scan makes of a descriptor: do_poll reports errors always.
Found(d) ==
    IF kind = "poll" THEN IF file[d] \in {{"err"}, {"closed"}} THEN file[d] ELSE file[d] \cap interest[d]
    ELSE file[d] \cap interest[d]
\* select and epoll look only at descriptors they were given, and end with an
\* error at one that is not open.
EndsScan(d) == kind # "poll" /\ interest[d] # {} /\ file[d] = {"closed"}

MutScanOne ==
    /\ mpc = "scan" /\ at <= NumFds
    /\ LET more == {<<at, e>> : e \in Found(at)} IN
       IF EndsScan(at) THEN MpxReturn(-1)
       ELSE IF kind = "epoll" /\ Cardinality(more) > MaxEvents THEN MpxReturn(-2)
       ELSE hits' = more /\ at' = at + 1 /\ UNCHANGED <<mpc, steady, mpxResult>>
    /\ UNCHANGED <<file, kind, interest, deadline, now>>

\* One descriptor.  The events of epoll go to an array of maxevents entries, and
\* an index beyond it panics.
ScanOne ==
    /\ mpc = "scan" /\ at <= NumFds
    /\ LET more == hits \cup {<<at, e>> : e \in Found(at)} IN
       IF EndsScan(at) THEN MpxReturn(-1)
       ELSE IF kind = "epoll" /\ Cardinality(more) > MaxEvents THEN MpxReturn(-2)
       ELSE hits' = more /\ at' = at + 1 /\ UNCHANGED <<mpc, steady, mpxResult>>
    /\ UNCHANGED <<file, kind, interest, deadline, now>>

\* The end of a scan: the number of descriptors (poll) or events (epoll, select),
\* or 0 after the deadline, or another round after yield_now.
ScanEnd ==
    /\ mpc = "scan" /\ at > NumFds
    /\ IF hits # {} THEN MpxReturn(Cardinality(IF kind = "poll" THEN {h[1] : h \in hits} ELSE hits))
       ELSE IF deadline # -1 /\ now >= deadline THEN MpxReturn(0)
       ELSE mpc' = "begin" /\ UNCHANGED <<at, hits, steady, mpxResult>>
    /\ UNCHANGED <<file, kind, interest, deadline, now>>

\* EpollInstance::control by another thread, between scans: add, modify or delete
\* an open descriptor.
EpollCtl(d, want) ==
    /\ mpc # "scan" /\ kind = "epoll" /\ file[d] # {"closed"}
    /\ interest' = [interest EXCEPT ![d] = want]
    /\ UNCHANGED <<file, kind, mpc, at, hits, deadline, now, steady, mpxResult>>

\* The files of the descriptors change, or are closed and opened.
FileChange(d, st) ==
    /\ mpc # "user" /\ file[d] # st /\ file' = [file EXCEPT ![d] = st]
    /\ steady' = {x \in steady : x[1] = d => x[2] \in st}
    /\ UNCHANGED <<kind, interest, mpc, at, hits, deadline, now, mpxResult>>

MpxTick ==
    /\ now < MaxNow /\ now' = now + 1
    /\ UNCHANGED <<file, kind, interest, mpc, at, hits, deadline, steady, mpxResult>>

MpxScan == ScanBegin \/ ScanOne \/ ScanEnd

MpxNext ==
    \/ \E k \in Kinds, want \in [MpxFds -> {{}, {"in"}}], timeout \in {-1, 0, 1} :
          MpxCall(k, want, timeout)
    \/ MpxScan
    \/ \E d \in MpxFds : (\E want \in {{}, {"in", "out"}, {"err"}} : EpollCtl(d, want))
                         \/ \E st \in FileStates : FileChange(d, st)
    \/ MpxTick

\* The thread yields between scans and comes back to the processor in turn, and
\* time passes.
MpxSpec == MpxInit /\ [][MpxNext]_mpxVars /\ WF_mpxVars(MpxScan) /\ WF_mpxVars(MpxTick)
-----------------------------------------------------------------------------
\* A call that returns 0 has waited until its deadline, and nothing it asked for
\* was ready all through its last scan: a file that is ready and stays so is never
\* answered with a timeout, wherever in the scan the others change.
TimeoutIsReal ==
    [][mpc = "scan" /\ mpc' = "user" /\ mpxResult' = 0 =>
          deadline # -1 /\ now >= deadline /\ steady = {}]_mpxVars

\* A call returns that asks for an event which, from some time on, is there for
\* good.
MpxReturns ==
    \A d \in MpxFds : <>[](mpc # "user" => <<d, "in">> \in AskedReady) => []<>(mpc = "user")
=============================================================================
