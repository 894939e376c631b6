---------------------------- MODULE MCServices ------------------------------
(* Instances for TLC of the parts of the system a program calls and that    *)
(* keep to themselves: sockets (Sockets), user memory (UserMem), the kernel *)
(* heap (Heap), namespaces (Namespaces), time accounting (KTime), the       *)
(* console (Console), and the C library (Pthread, CRuntime and the pure     *)
(* functions of CText and CFormat).                                         *)
(*                                                                          *)
(* They share no state, so nothing is lost by checking them side by side: a *)
(* behaviour moves one of them, the one "which" names, and the variables of *)
(* the others are all Off.                                                  *)
EXTENDS Sockets, UserMem, Heap, Namespaces, KTime, Console, Pthread, CRuntime, CText, CFormat

CONSTANT Off

VARIABLE which

Region(a, n, f) == [start |-> a, size |-> n, free |-> f]
\* A machine with three memory regions, one of them in use, and one with one.
MCRegionLists == {<<Region(0, 2, FALSE), Region(2, 2, TRUE), Region(6, 8, TRUE)>>,
                  <<Region(0, 6, TRUE)>>}
MCRegions == {<<2, 3>>}
MCLower == (1 :> 1) @@ (2 :> 2) @@ (3 :> 1)
\* Days around 1600, 1900, 1970, 2000 and 2100.
MCDays == UNION {(d - 430)..(d + 430) : d \in {-135140, -25567, 0, 10957, 47482}}
MCPrecisions == {-1, 0, 1, 2, 4}
MCValues == {-17, -1, 0, 1, 10, 255}
MCStrings == {<<>>, <<"a">>, <<"a", "b", "c">>, <<"a", "b", "c", "d", "e">>}
MCFields == {<<>>, <<"0">>, <<"0", "1">>, <<"2", "5", "5">>, <<"2", "5", "6">>, <<"1", "0", "0", "0">>}

services == <<tcpVars, udpVars, lockVars, uVars, heapVars, nVars, tVars, conVars, ptVars, jmpVars,
              memVars, callVars>>
-----------------------------------------------------------------------------
TcpOff == /\ tstate = Off /\ handle = Off /\ local = Off /\ guard = Off /\ smol = Off
          /\ entry = Off /\ curr = Off /\ tpc = Off /\ using = Off /\ port = Off
          /\ mine = Off /\ leaked = Off
UdpOff == /\ ulocal = Off /\ upeer = Off /\ writing = Off /\ bound = Off /\ rx = Off
          /\ arrived = Off /\ upc = Off /\ wants = Off /\ seen = Off /\ udpGot = Off
          /\ wrong = Off /\ queries = Off
LocksOff == heldBy = Off /\ toTake = Off /\ routine = Off /\ conn = Off
UsermemOff == /\ readable = Off /\ present = Off /\ aspace = Off /\ accessing = Off
              /\ uCpu = Off /\ uPc = Off /\ flagCpu = Off /\ uStart = Off
              /\ uLen = Off /\ uPage = Off /\ uRet = Off /\ lost = Off /\ unmaps = Off
HeapOff == /\ regions = Off /\ heapUp = Off /\ pagesFree = Off /\ heap = Off
           /\ dmaHeap = Off /\ uncached = Off /\ balloc = Off /\ dma = Off
           /\ heapPc = Off /\ heapArg = Off /\ heapGot = Off /\ held = Off
NamespaceOff == /\ cells = Off /\ nsState = Off /\ count = Off /\ data = Off
                /\ owner = Off /\ nPc = Off /\ nChild = Off /\ nFlags = Off
                /\ nDir = Off /\ family = Off /\ chdirs = Off /\ panicked = Off
                /\ raced = Off
TimeOff == /\ clock = Off /\ birth = Off /\ mode = Off /\ utime = Off /\ stime = Off
           /\ user_timestamp = Off /\ kernel_timestamp = Off /\ usedUser = Off
           /\ usedKernel = Off /\ afterSyscalls = Off /\ inExecve = Off /\ name = Off
           /\ call = Off /\ NEXT_DEADLINE = Off
           /\ armed = Off /\ lastTick = Off /\ ticked = Off
ConsoleOff == /\ prog = Off /\ lockOwner = Off /\ shown = Off /\ typed = Off
              /\ fifo = Off /\ rbuf = Off /\ raw = Off /\ asked = Off /\ conPc = Off
              /\ conWant = Off /\ got = Off
PthreadOff == /\ ptPc = Off /\ ptTable = Off /\ ptHandle = Off /\ ptKnown = Off
              /\ packet = Off /\ passed = Off /\ joined = Off /\ peer = Off
JmpOff == /\ jmpArch = Off /\ jmpFp = Off /\ jmpRegs = Off /\ jmpBuf = Off
          /\ jmpSaved = Off /\ jmpLast = Off /\ jmpSteps = Off
MemOff == /\ bytes = Off /\ blocks = Off /\ memCall = Off
CallOff == /\ cFun = Off /\ cArg = Off /\ cRet = Off

MCInit ==
    /\ which \in {"tcp", "udp", "locks", "usermem", "heap", "namespace", "time", "input", "output",
                 "pthread", "jmp", "mem", "call"}
    /\ IF which = "tcp" THEN TcpInit ELSE TcpOff
    /\ IF which = "udp" THEN UdpInit ELSE UdpOff
    /\ IF which = "locks" THEN LocksInit ELSE LocksOff
    /\ IF which = "usermem" THEN UInit ELSE UsermemOff
    /\ IF which = "heap" THEN HeapInit ELSE HeapOff
    /\ IF which = "namespace" THEN NsInit ELSE NamespaceOff
    /\ IF which = "time" THEN TInit ELSE TimeOff
    /\ IF which \in {"input", "output"} THEN ConInit ELSE ConsoleOff
    /\ IF which = "pthread" THEN PtInit ELSE PthreadOff
    /\ IF which = "jmp" THEN JmpInit ELSE JmpOff
    /\ IF which = "mem" THEN MemInit ELSE MemOff
    /\ IF which = "call" THEN CallInit ELSE CallOff

MCNext ==
    \/ /\ which = "tcp" /\ TcpNext
       /\ UNCHANGED <<which, lockVars, udpVars, uVars, heapVars, nVars, tVars, conVars, ptVars,
                      jmpVars, memVars, callVars>>
    \/ /\ which = "udp" /\ UdpNext
       /\ UNCHANGED <<which, lockVars, tcpVars, uVars, heapVars, nVars, tVars, conVars, ptVars,
                      jmpVars, memVars, callVars>>
    \/ /\ which = "locks" /\ LocksNext
       /\ UNCHANGED <<which, tcpVars, udpVars, uVars, heapVars, nVars, tVars, conVars,
                      ptVars, jmpVars, memVars, callVars>>
    \/ /\ which = "usermem" /\ UNext
       /\ UNCHANGED <<which, lockVars, tcpVars, udpVars, heapVars, nVars, tVars, conVars, ptVars,
                      jmpVars, memVars, callVars>>
    \/ /\ which = "heap" /\ HeapNext
       /\ UNCHANGED <<which, lockVars, tcpVars, udpVars, uVars, nVars, tVars, conVars, ptVars,
                      jmpVars, memVars, callVars>>
    \/ /\ which = "namespace" /\ NsNext
       /\ UNCHANGED <<which, lockVars, tcpVars, udpVars, uVars, heapVars, tVars, conVars, ptVars,
                      jmpVars, memVars, callVars>>
    \/ /\ which = "time" /\ TNext
       /\ UNCHANGED <<which, lockVars, tcpVars, udpVars, uVars, heapVars, nVars, conVars, ptVars,
                      jmpVars, memVars, callVars>>
    \/ /\ which = "input" /\ InNext
       /\ UNCHANGED <<which, outVars, lockVars, tcpVars, udpVars, uVars, heapVars, nVars, tVars,
                      ptVars, jmpVars, memVars, callVars>>
    \/ /\ which = "output" /\ OutNext
       /\ UNCHANGED <<which, inVars, lockVars, tcpVars, udpVars, uVars, heapVars, nVars, tVars,
                      ptVars, jmpVars, memVars, callVars>>
    \/ /\ which = "pthread" /\ PtNext
       /\ UNCHANGED <<which, lockVars, tcpVars, udpVars, uVars, heapVars, nVars, tVars, conVars,
                      jmpVars, memVars, callVars>>
    \/ /\ which = "jmp" /\ JmpNext
       /\ UNCHANGED <<which, lockVars, tcpVars, udpVars, uVars, heapVars, nVars, tVars, conVars,
                      ptVars, memVars, callVars>>
    \/ /\ which = "mem" /\ MemNext
       /\ UNCHANGED <<which, lockVars, tcpVars, udpVars, uVars, heapVars, nVars, tVars, conVars,
                      ptVars, jmpVars, callVars>>
    \/ /\ which = "call" /\ (StrNext \/ NumNext \/ TimeNext \/ PfNext \/ InetNext)
       /\ UNCHANGED <<which, lockVars, tcpVars, udpVars, uVars, heapVars, nVars, tVars, conVars,
                      ptVars, jmpVars, memVars>>

MCSpec == MCInit /\ [][MCNext]_<<which, services>>

\* The threads are alike.
MCSymmetry == Permutations(TcpThreads)
-----------------------------------------------------------------------------
\* Sockets: every TCP handle has one owner and the state of a socket follows the
\* stack's; datagrams are returned in order, each once, from the peer asked for;
\* threads that poll the network never wait for each other in a circle.
SocketsKept == /\ which = "tcp" => HandlesOwned /\ StateFollowsStack
               /\ which = "udp" => DatagramsDelivered
               /\ which = "locks" => CirclesLeavePoll

\* A string or a range accepted from a user was readable at every page of it.
UserStringsChecked == which = "usermem" => StringsChecked

\* Bytes and pages of kernel memory have one owner at a time.
KernelMemoryOwnedOnce == which = "heap" => MemoryOwnedOnce

\* A process sees its own resources and those it was made to share.
SpacesIsolated == which = "namespace" => NamespacesIsolated

\* The times of a thread add up, and the tick is never late by a period.
ClockKept == which = "time" => TimesAndTicks

\* Lines of the log and of puts stay whole; typed bytes are read in order.
ConsoleKept == /\ which = "output" => LinesWhole
               /\ which = "input" => InputInOrder

\* pthread_join gets the value of the thread it joins; longjmp returns to its
\* setjmp with the registers it had there (but for LoongArch's longjmp, which
\* loads them from where the value to return points).
ControlKept == /\ which = "pthread" => JoinGetsValue
               /\ which = "jmp" /\ jmpArch # "loongarch64" => JumpReturns

\* The functions of the C library compute what the C standard says.
LibraryAgrees ==
    /\ which = "call" => /\ StringsAgree /\ NumbersAgree /\ CalendarAgrees /\ TextFits
                         /\ IntegersPrinted /\ TruncationAndRounding /\ AddressesReadBack
    /\ which = "mem" => BytesSetAndMoved
=============================================================================
