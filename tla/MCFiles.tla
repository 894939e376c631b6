------------------------------ MODULE MCFiles -------------------------------
(* Instances for TLC of the parts of the file interface, from the           *)
(* descriptor to the disk: the tables of descriptors, vectored I/O and      *)
(* sendfile (FdTable), getdents, the directory iterator and the hard        *)
(* link table (Directories), working directories and mounts                 *)
(* (WorkDir), open files and the calls on names (Axfs) and the disk's       *)
(* cursor (Disk).                                                           *)
(*                                                                          *)
(* They share no state: a behaviour moves one of them, the one "which"      *)
(* names.  The disk rests in its initial state, the variables of the other  *)
(* components that do not move are all Off.                                 *)
EXTENDS FdTable, Directories, WorkDir, Axfs, Disk, TLC

CONSTANT Off

VARIABLE which

MCIovLens == {<<2, 0, 1>>, <<1, 2>>, <<>>, <<0, 2, 1>>}
MCEntries == <<"dot", "dotdot", "a", "bb", "c">>
MCRecLen(e) == IF e = "bb" THEN 2 ELSE 1

MCDirNodes == {<<>>, <<"a">>, <<"ab">>, <<"a", "b">>}
MCFileNodes == {<<"a", "f">>, <<"f">>}
MCLonger == {<<"a", "ab">>}
Arg(a, c, s) == [abs |-> a, comps |-> c, slash |-> s]
MCPathArgs ==
    {Arg(TRUE, <<>>, TRUE), Arg(FALSE, <<>>, FALSE), Arg(FALSE, <<"a">>, FALSE),
     Arg(FALSE, <<"f">>, FALSE), Arg(FALSE, <<"..", "f">>, FALSE),
     Arg(TRUE, <<"a", ".", "b">>, TRUE), Arg(TRUE, <<"ab">>, FALSE),
     Arg(FALSE, <<"x", "..", "a">>, FALSE)}

MCFilePaths == {<<"/", "tmp", "x">>, <<"/", "d", "/", "x">>, <<"x">>}
MCDirPaths == {<<"/", "d">>}
MCMountPaths == {<<"tmp">>}
MCCwdPath == <<"/", "d">>

filesVars == <<fdVars, ioVars, dirVars, linkVars, wVars, fsVars, diskVars>>
-----------------------------------------------------------------------------
FdOff == /\ table = Off /\ nsOf = Off /\ procOf = Off /\ fdpc = Off /\ held = Off
         /\ readFd = Off /\ objects = Off /\ panicked = Off
IoOff == /\ fdFile = Off /\ cursor = Off /\ iopc = Off /\ iov = Off /\ index = Off
         /\ off = Off /\ pending = Off /\ ret = Off /\ moved = Off /\ first = Off
DirOff == /\ entries = Off /\ entry_idx = Off /\ last_dirent = Off /\ space = Off
          /\ packed = Off /\ dirpc = Off /\ listed = Off /\ atEnd = Off /\ it = Off
          /\ yielded = Off
LinksOff == /\ links = Off /\ ref_counts = Off /\ dirent = Off /\ lpc = Off
            /\ lcall = Off
PathOff == /\ CURRENT_DIR = Off /\ CURRENT_DIR_PATH = Off /\ dirFds = Off
           /\ MOUNTED = Off /\ wPc = Off /\ wArg = Off /\ wPath = Off /\ wFd = Off
           /\ wBase = Off /\ overlap = Off /\ pathCalls = Off
FsOff == /\ ino = Off /\ kind = Off /\ ro = Off /\ content = Off /\ made = Off
         /\ file = Off /\ fspc = Off /\ call = Off /\ locked = Off /\ calls = Off

MCInit ==
    /\ which \in {"fd", "io", "dir", "links", "path", "fs", "disk"}
    /\ IF which = "fd" THEN FdInit ELSE FdOff
    /\ IF which = "io" THEN IoInit ELSE IoOff
    /\ IF which = "dir" THEN DirInit ELSE DirOff
    /\ IF which = "links" THEN LinkInit ELSE LinksOff
    /\ IF which = "path" THEN WInit ELSE PathOff
    /\ IF which = "fs" THEN FsInit ELSE FsOff
    /\ DiskInit /\ (which # "disk" => \A b \in DOMAIN block : 1 \notin Range(block[b]))

MCNext ==
    \/ which = "fd" /\ FdNext
       /\ UNCHANGED <<which, ioVars, dirVars, linkVars, wVars, fsVars, diskVars>>
    \/ which = "io" /\ IoNext
       /\ UNCHANGED <<which, fdVars, dirVars, linkVars, wVars, fsVars, diskVars>>
    \/ which = "dir" /\ DirNext
       /\ UNCHANGED <<which, fdVars, ioVars, linkVars, wVars, fsVars, diskVars>>
    \/ which = "links" /\ LinkNext
       /\ UNCHANGED <<which, fdVars, ioVars, dirVars, wVars, fsVars, diskVars>>
    \/ which = "path" /\ WNext
       /\ UNCHANGED <<which, fdVars, ioVars, dirVars, linkVars, fsVars, diskVars>>
    \/ which = "fs" /\ FsNext
       /\ UNCHANGED <<which, fdVars, ioVars, dirVars, linkVars, wVars, diskVars>>
    \/ which = "disk" /\ DiskNext
       /\ UNCHANGED <<which, fdVars, ioVars, dirVars, linkVars, wVars, fsVars>>

\* The bounds on calls, objects and processes end a behaviour of these three.
Bounded == which \in {"fd", "path", "fs"} /\ UNCHANGED <<which, filesVars>>

MCSpec == MCInit /\ [][MCNext \/ Bounded]_<<which, filesVars>>

\* Threads are alike, and so are processes and the names of files.
MCSymmetry == Permutations(FsThreads) \cup Permutations(FdProcs)
-----------------------------------------------------------------------------
\* A table of descriptors with an open file has a thread that can close it.
DescriptorsReleased == which = "fd" => ExitReleases

\* The bytes of readv, writev and sendfile are moved in order, none twice.
BytesInOrder == which = "io" => MovedInOrder

\* getdents64 and the iterator list each entry once, in order, to the end; the
\* counts of the hard link table are the numbers of its links.
DirectoriesKept == /\ which = "dir" => EntriesListedOnce /\ EntriesIterated
                   /\ which = "links" => CountsMatchLinks

\* A path is resolved from the directory it was given against, and what is
\* recorded of working directories and mounts agrees when no chdir interferes.
PathsKept == which = "path" => PathsResolved

\* No file is written by who may not, and none comes back after its last close.
AccessKept == /\ [][which = "fs" => AuthorisedStep]_fsVars
              /\ [][which = "fd" => ClosedStays]_fdVars
=============================================================================
