------------------------------ MODULE WorkDir -------------------------------
(***************************************************************************)
(* Paths of a process: the current directory, kept twice, as the node      *)
(* CURRENT_DIR and as the text CURRENT_DIR_PATH, each under a lock of its  *)
(* own; chdir(), openat(), fstatat()/statx() and the list of mounts.       *)
(*                                                                         *)
(* A node is the sequence of names that leads to it from the root.  A path *)
(* is a sequence of names, "." and "..", that may begin and end with a     *)
(* slash.  The tree does not change.                                       *)
(***************************************************************************)
EXTENDS Integers, Sequences, FiniteSets, SequencesExt

CONSTANTS
    WThreads,
    DirNodes, FileNodes,   \* the tree
    Longer,                \* <<n, m>>: the name m begins with the name n
    PathArgs,              \* arguments: [abs, comps, slash]
    MaxDirFds, MaxMounts, MaxPathCalls  \* bounds: descriptors, mounts, calls

AT_FDCWD == 0
NoNode == <<"none">>

VARIABLES
    CURRENT_DIR, CURRENT_DIR_PATH,
    dirFds,      \* open files: [node, path]
    MOUNTED,     \* paths of the mounts
    wPc, wArg,   \* stage and argument of each thread's call
    wPath,       \* the path it computed: [comps, slash]
    wFd,         \* the directory descriptor it was given
    wBase,       \* the directory a relative path starts from
    overlap,     \* two calls have run at the same time
    pathCalls

wVars == <<CURRENT_DIR, CURRENT_DIR_PATH, dirFds, MOUNTED, wPc, wArg, wPath, wFd, wBase, overlap, pathCalls>>

Root == [comps |-> <<>>, slash |-> TRUE]

(* init_rootfs(), and a process that has called nothing yet.               *)
WInit ==
    /\ CURRENT_DIR = <<>> /\ CURRENT_DIR_PATH = <<>>
    /\ dirFds = <<>> /\ MOUNTED = <<>>
    /\ wPc = [t \in WThreads |-> "idle"]
    /\ wArg = [t \in WThreads |-> [abs |-> TRUE, comps |-> <<>>, slash |-> TRUE]]
    /\ wPath = [t \in WThreads |-> Root]
    /\ wFd = [t \in WThreads |-> AT_FDCWD]
    /\ wBase = [t \in WThreads |-> <<>>]
    /\ overlap = FALSE /\ pathCalls = 0

(* axfs_vfs::path::canonicalize(): text only, nothing is looked up.        *)
Canon(base, comps) ==
    FoldLeft(LAMBDA d, c : CASE c = "." -> d
                             [] c = ".." -> IF d = <<>> THEN d ELSE Front(d)
                             [] OTHER -> Append(d, c), base, comps)

(* Looking up a path from a node, name by name.                            *)
Walk(node, comps) ==
    LET step(d, c) == CASE d \notin DirNodes -> NoNode
                        [] c = "." -> d
                        [] c = ".." -> IF d = <<>> THEN d ELSE Front(d)
                        [] OTHER -> IF Append(d, c) \in DirNodes \cup FileNodes THEN Append(d, c) ELSE NoNode
    IN  FoldLeft(step, node, comps)

(* lookup(): from the root or the directory given; a path that ends with a *)
(* slash must lead to a directory.                                         *)
Lookup(node, p) ==
    LET n == Walk(IF p.abs THEN <<>> ELSE node, p.comps)
    IN  IF p.slash /\ n \notin DirNodes THEN NoNode ELSE n

Absolute(f) == [abs |-> TRUE, comps |-> f.comps, slash |-> f.slash]
Empty(p) == ~p.abs /\ p.comps = <<>>

(* handle_file_path(): the text of the current directory or of the one the *)
(* descriptor was opened with, joined with the path and made canonical.    *)
MutHandleFilePath(fd, p) ==
    LET comps == Canon(IF p.abs THEN <<>> ELSE CURRENT_DIR_PATH, p.comps)
    IN  [comps |-> comps, slash |-> p.slash \/ comps = <<>>]

handle_file_path(fd, p) ==
    LET base == IF fd = AT_FDCWD THEN CURRENT_DIR_PATH ELSE dirFds[fd].path.comps
        comps == Canon(IF p.abs THEN <<>> ELSE base, p.comps)
    IN  [comps |-> comps, slash |-> p.slash \/ comps = <<>>]

-----------------------------------------------------------------------------

(* A thread makes a call with a path; all but chdir() refuse an empty one. *)
Begin(t, stage, fd, p) ==
    /\ wPc[t] = "idle" /\ pathCalls < MaxPathCalls
    /\ Empty(p) => stage = "chdir"
    /\ fd # AT_FDCWD => fd <= Len(dirFds) /\ (p.abs \/ dirFds[fd].node \in DirNodes)
    /\ pathCalls' = pathCalls + 1
    /\ wPc' = [wPc EXCEPT ![t] = stage]
    /\ wArg' = [wArg EXCEPT ![t] = p]
    /\ wFd' = [wFd EXCEPT ![t] = fd]
    /\ wPath' = [wPath EXCEPT ![t] = handle_file_path(fd, p)]
    /\ wBase' = [wBase EXCEPT ![t] = IF p.abs THEN <<>> ELSE
                                     IF fd = AT_FDCWD THEN CURRENT_DIR_PATH ELSE dirFds[fd].path.comps]
    /\ overlap' = (overlap \/ \E u \in WThreads : wPc[u] # "idle")
    /\ UNCHANGED <<CURRENT_DIR, CURRENT_DIR_PATH, dirFds, MOUNTED>>

PathDone(t) ==
    /\ wPc' = [wPc EXCEPT ![t] = "idle"]
    /\ UNCHANGED <<wArg, wPath, wFd, wBase, overlap, pathCalls>>

(* set_current_dir(): the canonical path, with a slash put at its end, is  *)
(* looked up and the node stored...                                        *)
ChdirNode(t) ==
    LET node == Lookup(<<>>, [abs |-> TRUE, comps |-> wPath[t].comps, slash |-> TRUE])
    IN  /\ wPc[t] = "chdir"
        /\ IF node \in DirNodes
           THEN /\ CURRENT_DIR' = node
                /\ wPc' = [wPc EXCEPT ![t] = "chpath"]
                /\ UNCHANGED <<wArg, wPath, wFd, wBase, overlap, pathCalls>>
           ELSE PathDone(t) /\ UNCHANGED CURRENT_DIR
        /\ UNCHANGED <<CURRENT_DIR_PATH, dirFds, MOUNTED>>

(* ... and then, under the other lock, its text.                           *)
ChdirPath(t) ==
    /\ wPc[t] = "chpath"
    /\ CURRENT_DIR_PATH' = wPath[t].comps
    /\ PathDone(t)
    /\ UNCHANGED <<CURRENT_DIR, dirFds, MOUNTED>>

(* sys_openat(): the file is looked up from the node of the directory, and *)
(* goes into the table with the path computed before.                      *)
OpenNode(t) ==
    LET node == Lookup(IF wFd[t] = AT_FDCWD THEN CURRENT_DIR ELSE dirFds[wFd[t]].node, wArg[t])
    IN  /\ wPc[t] = "open" /\ Len(dirFds) < MaxDirFds
        /\ dirFds' = IF node = NoNode THEN dirFds ELSE Append(dirFds, [node |-> node, path |-> wPath[t]])
        /\ PathDone(t)
        /\ UNCHANGED <<CURRENT_DIR, CURRENT_DIR_PATH, MOUNTED>>

stat_at_path(f) == Lookup(<<>>, Absolute(f))

(* sys_fstatat(), sys_statx(): the computed path is looked up.             *)
StatNode(t) ==
    /\ wPc[t] = "stat"
    /\ PathDone(t)
    /\ UNCHANGED <<CURRENT_DIR, CURRENT_DIR_PATH, dirFds, MOUNTED>>

(* FilePath::starts_with(): of the text.                                   *)
starts_with(f, m) ==
    \/ m.comps = <<>>
    \/ IsPrefix(m.comps, f.comps) /\ (Len(m.comps) < Len(f.comps) \/ (m.slash => f.slash))
    \/ /\ ~m.slash /\ Len(m.comps) <= Len(f.comps)
       /\ IsPrefix(Front(m.comps), f.comps)
       /\ <<Last(m.comps), f.comps[Len(m.comps)]>> \in Longer

check_mounted(f) == \E i \in DOMAIN MOUNTED : starts_with(f, MOUNTED[i])

(* sys_mount() up to check_mounted()...                                    *)
MountCheck(t) ==
    /\ wPc[t] = "mount"
    /\ IF /\ Lookup(<<>>, Absolute(wPath[t])) # NoNode
          /\ ~check_mounted(wPath[t])
       THEN wPc' = [wPc EXCEPT ![t] = "push"] /\ UNCHANGED <<wArg, wPath, wFd, wBase, overlap, pathCalls>>
       ELSE PathDone(t)
    /\ UNCHANGED <<CURRENT_DIR, CURRENT_DIR_PATH, dirFds, MOUNTED>>

(* ... and mount_fat_fs(), which takes the lock again.                     *)
MountPush(t) ==
    /\ wPc[t] = "push" /\ Len(MOUNTED) < MaxMounts
    /\ MOUNTED' = Append(MOUNTED, wPath[t])
    /\ PathDone(t)
    /\ UNCHANGED <<CURRENT_DIR, CURRENT_DIR_PATH, dirFds>>

umount_fat_fs(f) == SelectSeq(MOUNTED, LAMBDA m : m # f)

(* sys_umount2().                                                          *)
Umount(t) ==
    /\ wPc[t] = "umount"
    /\ MOUNTED' = IF Lookup(<<>>, Absolute(wPath[t])) = NoNode THEN MOUNTED
                  ELSE umount_fat_fs(wPath[t])
    /\ PathDone(t)
    /\ UNCHANGED <<CURRENT_DIR, CURRENT_DIR_PATH, dirFds>>

WStep(t) ==
    \/ ChdirNode(t) \/ ChdirPath(t) \/ OpenNode(t) \/ StatNode(t) \/ MountCheck(t) \/ MountPush(t) \/ Umount(t)
    \/ \E p \in PathArgs :
          \/ \E stage \in {"chdir", "mount", "umount"} : Begin(t, stage, AT_FDCWD, p)
          \/ \E stage \in {"open", "stat"}, fd \in 0..MaxDirFds : Begin(t, stage, fd, p)

WNext == \E t \in WThreads : WStep(t)

WSpec == WInit /\ [][WNext]_wVars

-----------------------------------------------------------------------------

(* A path computed by text denotes what looking its names up one by one    *)
(* would find, if that finds anything, from the directory the process had  *)
(* or the descriptor was opened with.  As long as no two calls have run at *)
(* the same time, between calls the text of the current directory names    *)
(* its node, every open file is the one at its recorded path, and no path  *)
(* is mounted twice.                                                       *)
PathsResolved ==
    /\ \A t \in WThreads : wPc[t] # "idle" =>
           /\ Walk(wBase[t], wArg[t].comps) \in {NoNode, wPath[t].comps}
           /\ wPc[t] = "stat" => Lookup(wBase[t], wArg[t]) \in {NoNode, stat_at_path(wPath[t])}
    /\ ~overlap =>
         /\ (\A t \in WThreads : wPc[t] = "idle") => CURRENT_DIR = CURRENT_DIR_PATH
         /\ \A i \in DOMAIN dirFds : dirFds[i].node = dirFds[i].path.comps
         /\ \A i, j \in DOMAIN MOUNTED : MOUNTED[i] = MOUNTED[j] => i = j

(* "Get the path of the file": the file opened is the one its path names,  *)
(* whatever other threads do.                                              *)
OpenedByItsPath == \A i \in DOMAIN dirFds : dirFds[i].node = dirFds[i].path.comps

=============================================================================
