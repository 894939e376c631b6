----------------------------- MODULE MCProcess -----------------------------
(* Instances for TLC of a process: its place in the family (Process) and    *)
(* its program (ExecLoad).  They share no state: a behaviour moves one of   *)
(* them, the one "which" names.                                             *)
EXTENDS Process, ExecLoad

CONSTANT Off

VARIABLE which

Seg(v, o, f, m) == [vaddr |-> v, offset |-> o, filesz |-> f, memsz |-> m]
Elf(i, n, ss) == [kind |-> "elf", interp |-> i, size |-> n, segs |-> ss]
Shebang(l) == [kind |-> "script", line |-> l]

\* A static and a dynamic program, a script, a script run by a script, one
\* that names itself, segments that overlap one another, the heap or the stack,
\* a truncated file and plain data.
MCFiles ==
    [sh |-> Elf("", 6, <<Seg(1, 1, 1, 2), Seg(5, 3, 3, 4)>>),
     dyn |-> Elf("ld", 4, <<Seg(0, 0, 4, 4)>>),
     ld |-> Elf("", 3, <<Seg(3, 1, 2, 3)>>),
     script |-> Shebang(<<"sh", "-e">>),
     script2 |-> Shebang(<<"script">>),
     loop |-> Shebang(<<"loop">>),
     overlap |-> Elf("", 6, <<Seg(0, 0, 2, 3), Seg(3, 1, 2, 2)>>),
     short |-> Elf("", 1, <<Seg(0, 0, 2, 2)>>),
     onHeap |-> Elf("", 2, <<Seg(10, 0, 1, 1)>>),
     onStack |-> Elf("", 2, <<Seg(12, 0, 1, 1)>>),
     text |-> [kind |-> "data"]]

MCArgs == {<<>>, <<"none">>} \cup {<<f>> : f \in DOMAIN MCFiles}
              \cup {<<f, "x">> : f \in DOMAIN MCFiles}

ExecOff == /\ ePc = Off /\ eArgs = Off /\ eOrig = Off /\ scriptDepth = Off /\ segsLeft = Off
           /\ areas = Off /\ image = Off /\ eRet = Off

MCInit == /\ which \in {"family", "exec"}
          /\ Init
          /\ IF which = "exec" THEN EInit ELSE ExecOff

MCNext ==
    \/ which = "family" /\ Next /\ UNCHANGED <<which, eVars>>
    \/ which = "exec" /\ ENext /\ UNCHANGED <<which, vars>>

MCSpec == MCInit /\ [][MCNext]_<<which, vars, eVars>>
-----------------------------------------------------------------------------
\* execve leaves the memory that the new program needs, segments loaded and the
\* rest unmapped, or gives the reason why not (load_user_app).
ProgramKept == which = "exec" => ImageComplete
=============================================================================
