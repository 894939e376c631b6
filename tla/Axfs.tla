-------------------------------- MODULE Axfs --------------------------------
(***************************************************************************)
(* The file system layer of modules/axfs: names are resolved by the root   *)
(* directory through its mount table (root.rs), files are opened with      *)
(* options that become access rights and are read and written through a    *)
(* cursor (fops.rs), and the main file system is ext4 (fs/lwext4_rust.rs), *)
(* whose nodes are paths that every operation opens anew.  Threads run     *)
(* these calls concurrently; a call is as many steps as it makes separate  *)
(* operations on nodes.                                                    *)
(*                                                                         *)
(* A path is the sequence of its pieces, "/" among them, so that a prefix  *)
(* of the string is a prefix of the sequence: <<"/", "tmp", "x">> is       *)
(* "/tmpx" and <<"/", "tmp", "/", "x">> is "/tmp/x".                       *)
(***************************************************************************)
EXTENDS Integers, Sequences, FiniteSets, SequencesExt

CONSTANTS FsThreads,
          FilePaths, DirPaths, \* the names the calls are given
          MountPaths,   \* the mount points, without their leading "/"
          CwdPath,      \* the current directory: the path of a directory of ext4
          MaxSize,      \* bound on the size of a file
          MaxInodes,    \* bound on the files and directories ever made
          MaxFsCalls    \* bound on the calls of a behaviour

VARIABLES
    ino,    \* ino[n]: the file or directory of node n, 0 if there is none
    kind,   \* kind[i]: "dir" or "file"
    ro,     \* the files whose owner may not write
    content,\* content[i]: the bytes of file i
    made,   \* files and directories made so far
    file,   \* file[t]: the open file of thread t, Closed if none
    fspc,   \* where thread t is in its call
    call,   \* call[t]: the arguments and local variables of its call
    locked, \* the nodes whose mutex a call holds between two steps
    calls   \* calls started so far

fsVars == <<ino, kind, ro, content, made, file, fspc, call, locked, calls>>

Main == <<>>
Closed == [node |-> [fs |-> Main, path |-> <<>>], ino |-> 0, cap |-> {}, append |-> FALSE,
           offset |-> 0]
Idle == [path |-> <<>>, opts |-> {}, node |-> Closed.node, ino |-> 0, size |-> 0,
         open |-> Closed]
FsInodes == 1..MaxInodes

Trim(p) ==
    LET first == IF p # <<>> /\ Head(p) = "/" THEN 2 ELSE 1
        last == IF p # <<>> /\ Last(p) = "/" THEN Len(p) - 1 ELSE Len(p)
    IN SubSeq(p, first, last)

Join(dir, p) == IF dir = <<>> THEN p ELSE dir \o <<"/">> \o p

\* lookup_mounted_fs: the mount point that is the longest prefix of the string,
\* and the rest of the string in that file system.
Resolve(path) ==
    LET p == Trim(path)
        matching == {m \in MountPaths : IsPrefix(m, p)}
        best == CHOOSE m \in matching : \A o \in matching : Len(o) <= Len(m)
    IN IF matching = {} THEN [fs |-> Main, path |-> p]
       ELSE [fs |-> best, path |-> Trim(SubSeq(p, Len(best) + 1, Len(p)))]

\* The node a path names: parent_node_of, then lookup in the root directory or,
\* for a relative path, in the current directory (path_deal_with).
Node(path) ==
    IF Head(path) = "/" THEN Resolve(path)
    ELSE [fs |-> Main, path |-> Join(Trim(CwdPath), Trim(path))]

FsNodes == {Node(p) : p \in FilePaths \cup DirPaths}

\* The FileWrapper whose mutex an operation on this path takes: the one of the
\* file system's root, or the one CURRENT_DIR refers to.
Wrapper(path) == IF Head(path) = "/" THEN Resolve(path).fs ELSE CwdPath

\* What an open file operates on: ext4 opens the path again, the other file
\* systems keep the node itself.
Target(f) == IF f.node.fs = Main THEN ino[f.node] ELSE f.ino

\* The directories are there, any of the files may be, one of them read-only.
FsInit ==
    /\ \E files \in SUBSET {Node(p) : p \in FilePaths} :
        LET order == SetToSeq(FsNodes)
            num == [n \in FsNodes |-> CHOOSE i \in 1..Len(order) : order[i] = n]
        IN /\ ino = [n \in FsNodes |-> IF n \in files \cup {Node(p) : p \in DirPaths}
                                       THEN num[n] ELSE 0]
           /\ made = Len(order)
           /\ kind = [i \in FsInodes |-> IF \E n \in files : num[n] = i THEN "file" ELSE "dir"]
           /\ ro \in {{}} \cup {{num[n]} : n \in files}
    /\ content = [i \in FsInodes |-> <<>>]
    /\ file = [t \in FsThreads |-> Closed]
    /\ fspc = [t \in FsThreads |-> "user"]
    /\ call = [t \in FsThreads |-> Idle]
    /\ locked = {} /\ calls = 0
-----------------------------------------------------------------------------
\* OpenOptions::is_valid.
IsValid(opts) ==
    /\ {"read", "write", "append"} \cap opts # {}
    /\ {"write", "append"} \cap opts = {} => {"truncate", "create", "create_new"} \cap opts = {}
    /\ "append" \in opts /\ "truncate" \in opts => "create_new" \in opts

\* From<&OpenOptions> for Cap.
CapOf(opts) == {c \in {"read"} : "read" \in opts}
               \cup {c \in {"write"} : {"write", "append"} \cap opts # {}}

MutPermCap(i) == {"read", "write"}

\* perm_to_cap of a node's permissions; a file made by create is writable.
PermCap(i) == {"read"} \cup {c \in {"write"} : i \notin ro}

\* The call of t returns.
Return(t) == /\ fspc' = [fspc EXCEPT ![t] = "user"]
             /\ call' = [call EXCEPT ![t] = Idle]

Goto(t, pc, c) == fspc' = [fspc EXCEPT ![t] = pc] /\ call' = [call EXCEPT ![t] = c]

BeginCall == calls < MaxFsCalls /\ calls' = calls + 1

\* File::_open_at up to the lookup and the decision to create.
OpenLookup(t, path, opts) ==
    /\ fspc[t] = "user" /\ BeginCall /\ file[t] = Closed
    /\ IsValid(opts) /\ Wrapper(path) \notin locked
    /\ LET i == ino[Node(path)]
           c == [Idle EXCEPT !.path = path, !.opts = opts, !.node = Node(path), !.ino = i]
       IN \/ i # 0 /\ "create_new" \notin opts /\ Goto(t, "attr", c)
          \/ i = 0 /\ {"create", "create_new"} \cap opts # {} /\ Goto(t, "create", c)
    /\ UNCHANGED <<ino, kind, ro, content, made, file, locked>>

\* FileWrapper::create holds the parent's mutex from here: an existing file is
\* left alone ...
CreateCheck(t) ==
    /\ fspc[t] = "create" /\ Wrapper(call[t].path) \notin locked
    /\ \/ /\ ino[call[t].node] # 0
          /\ Goto(t, "found", call[t])
          /\ UNCHANGED locked
       \/ /\ ino[call[t].node] = 0
          /\ Goto(t, "make", call[t])
          /\ locked' = locked \cup {Wrapper(call[t].path)}
    /\ UNCHANGED <<ino, kind, ro, content, made, file, calls>>

\* ... and else file_open with O_CREAT | O_TRUNC makes it, or truncates the one
\* that another parent's operation has made meanwhile.
CreateMake(t) ==
    /\ fspc[t] = "make"
    /\ \/ /\ ino[call[t].node] = 0 /\ made < MaxInodes
          /\ made' = made + 1
          /\ ino' = [ino EXCEPT ![call[t].node] = made + 1]
          /\ kind' = [kind EXCEPT ![made + 1] = "file"]
          /\ UNCHANGED content
       \/ /\ ino[call[t].node] # 0
          /\ content' = [content EXCEPT ![ino[call[t].node]] = <<>>]
          /\ UNCHANGED <<ino, kind, made>>
    /\ locked' = locked \ {Wrapper(call[t].path)}
    /\ Goto(t, "found", call[t])
    /\ UNCHANGED <<ro, file, calls>>

\* The lookup at the end of create_file.
CreateLookup(t) ==
    /\ fspc[t] = "found" /\ Wrapper(call[t].path) \notin locked
    /\ \/ ino[call[t].node] # 0 /\ Goto(t, "attr", [call[t] EXCEPT !.ino = ino[call[t].node]])
       \/ ino[call[t].node] = 0 /\ Return(t)
    /\ UNCHANGED <<ino, kind, ro, content, made, file, locked, calls>>

\* get_attr, the permission check, and the open file if nothing is truncated.
OpenAttr(t) ==
    /\ fspc[t] = "attr"
    /\ LET i == Target(call[t])
           f == [Closed EXCEPT !.node = call[t].node, !.ino = call[t].ino,
                               !.cap = CapOf(call[t].opts), !.append = "append" \in call[t].opts]
           ok == i # 0 /\ kind[i] = "file" /\ CapOf(call[t].opts) \subseteq PermCap(i)
       IN \/ ~ok /\ Return(t) /\ UNCHANGED file
          \/ /\ ok /\ "truncate" \in call[t].opts
             /\ Goto(t, "truncate", [call[t] EXCEPT !.open = f])
             /\ UNCHANGED file
          \/ /\ ok /\ "truncate" \notin call[t].opts
             /\ Return(t)
             /\ file' = [file EXCEPT ![t] = f]
    /\ UNCHANGED <<ino, kind, ro, content, made, locked, calls>>

\* node.truncate(0): ext4 creates the file again if its path is gone by now.
OpenTruncate(t) ==
    /\ fspc[t] = "truncate"
    /\ LET i == Target(call[t])
       IN \/ /\ i # 0 /\ kind[i] = "file"
             /\ content' = [content EXCEPT ![i] = <<>>]
             /\ UNCHANGED <<ino, kind, made>>
          \/ /\ i = 0 /\ made < MaxInodes
             /\ made' = made + 1
             /\ ino' = [ino EXCEPT ![call[t].node] = made + 1]
             /\ kind' = [kind EXCEPT ![made + 1] = "file"]
             /\ UNCHANGED content
    /\ file' = [file EXCEPT ![t] = call[t].open]
    /\ Return(t)
    /\ UNCHANGED <<ro, locked, calls>>
-----------------------------------------------------------------------------
Min2(a, b) == IF a < b THEN a ELSE b

\* File::read of n bytes, and the cursor it advances.
FsRead(t, n) ==
    /\ fspc[t] = "user" /\ BeginCall /\ "read" \in file[t].cap
    /\ LET i == Target(file[t])
       IN /\ i # 0 /\ file[t].offset <= Len(content[i])
          /\ file' = [file EXCEPT ![t].offset = @ + Min2(n, Len(content[i]) - @)]
    /\ UNCHANGED <<ino, kind, ro, content, made, fspc, call, locked>>

\* File::write: where to write, which in append mode is the size the file has
\* now ...
WriteStart(t) ==
    /\ fspc[t] = "user" /\ BeginCall /\ "write" \in file[t].cap
    /\ LET i == Target(file[t])
       IN /\ i # 0 /\ kind[i] = "file"
          /\ Goto(t, "write", [Idle EXCEPT !.node = file[t].node, !.ino = file[t].ino,
                                           !.size = IF file[t].append THEN Len(content[i])
                                                    ELSE file[t].offset])
    /\ UNCHANGED <<ino, kind, ro, content, made, file, locked>>

\* ... and write_at of one byte there; past the end the seek of ext4 fails.
WriteAt(t) ==
    /\ fspc[t] = "write"
    /\ LET i == Target(call[t])
           pos == call[t].size + 1
           ok == i # 0 /\ kind[i] = "file" /\ pos <= MaxSize /\ pos <= Len(content[i]) + 1
       IN \/ ~ok /\ UNCHANGED <<content, file>>
          \/ /\ ok
             /\ content' = [content EXCEPT ![i] = SubSeq(@, 1, pos - 1) \o <<t>>
                                                  \o SubSeq(@, pos + 1, Len(@))]
             /\ file' = [file EXCEPT ![t].offset = pos]
    /\ Return(t)
    /\ UNCHANGED <<ino, kind, ro, made, locked, calls>>

\* File::seek from the start, or from the end of the file as it is now.
FsSeek(t, pos) ==
    /\ fspc[t] = "user" /\ BeginCall /\ file[t] # Closed
    /\ Target(file[t]) # 0
    /\ file' = [file EXCEPT ![t].offset = pos]
    /\ UNCHANGED <<ino, kind, ro, content, made, fspc, call, locked>>

\* File::truncate (set_len), to nothing; the node is truncated as above.
FsTruncate(t) ==
    /\ fspc[t] = "user" /\ BeginCall /\ "write" \in file[t].cap
    /\ Goto(t, "truncate", [Idle EXCEPT !.node = file[t].node, !.ino = file[t].ino,
                                        !.open = file[t]])
    /\ UNCHANGED <<ino, kind, ro, content, made, file, locked>>

\* The file is dropped.
FsClose(t) ==
    /\ fspc[t] = "user" /\ BeginCall /\ file[t] # Closed
    /\ file' = [file EXCEPT ![t] = Closed]
    /\ UNCHANGED <<ino, kind, ro, content, made, fspc, call, locked>>
-----------------------------------------------------------------------------
\* create_dir, and remove_file and remove_dir, start with a lookup whose node
\* they check; only a mount point is refused by its name.
ChangeLookup(t, path, op) ==
    /\ fspc[t] = "user" /\ BeginCall /\ Wrapper(path) \notin locked
    /\ LET i == ino[Node(path)]
       IN \/ op = "mkdir" /\ i = 0
          \/ op = "unlink" /\ i # 0 /\ kind[i] = "file" /\ i \notin ro
          \/ op = "rmdir" /\ i # 0 /\ kind[i] = "dir" /\ Trim(path) \notin MountPaths
    /\ Goto(t, op, [Idle EXCEPT !.path = path, !.node = Node(path)])
    /\ UNCHANGED <<ino, kind, ro, content, made, file, locked>>

\* parent.create of a directory: whatever is there by now is left alone.
MkdirMake(t) ==
    /\ fspc[t] = "mkdir" /\ Wrapper(call[t].path) \notin locked
    /\ \/ /\ ino[call[t].node] = 0 /\ made < MaxInodes
          /\ made' = made + 1
          /\ ino' = [ino EXCEPT ![call[t].node] = made + 1]
          /\ kind' = [kind EXCEPT ![made + 1] = "dir"]
       \/ ino[call[t].node] # 0 /\ UNCHANGED <<ino, kind, made>>
    /\ Return(t)
    /\ UNCHANGED <<ro, content, file, locked, calls>>

Below(n) == {m \in FsNodes : m.fs = n.fs /\ IsPrefix(Join(n.path, <<>>), m.path) /\ m # n}

\* parent.remove: a directory goes with everything below it, a file by itself.
FsRemove(t) ==
    /\ fspc[t] \in {"unlink", "rmdir"} /\ Wrapper(call[t].path) \notin locked
    /\ LET n == call[t].node
           gone == IF ino[n] # 0 /\ kind[ino[n]] = "dir" THEN {n} \cup Below(n) ELSE {n}
       IN ino' = [m \in FsNodes |-> IF m \in gone THEN 0 ELSE ino[m]]
    /\ Return(t)
    /\ UNCHANGED <<kind, ro, content, made, file, locked, calls>>

FsOptions == {{"read"}, {"read", "truncate"}, {"read", "create"}, {"read", "write"},
              {"write", "create", "truncate"}, {"append", "create"},
              {"read", "write", "create_new"}}

FsNext ==
    \E t \in FsThreads :
        \/ \E p \in FilePaths, opts \in FsOptions : OpenLookup(t, p, opts)
        \/ CreateCheck(t) \/ CreateMake(t) \/ CreateLookup(t) \/ OpenAttr(t) \/ OpenTruncate(t)
        \/ \E n \in 1..MaxSize : FsRead(t, n)
        \/ WriteStart(t) \/ WriteAt(t) \/ FsTruncate(t) \/ FsClose(t)
        \/ \E pos \in 0..MaxSize : FsSeek(t, pos)
        \/ \E p \in FilePaths : ChangeLookup(t, p, "unlink")
        \/ \E p \in DirPaths, op \in {"mkdir", "rmdir"} : ChangeLookup(t, p, op)
        \/ MkdirMake(t) \/ FsRemove(t)

FsSpec == FsInit /\ [][FsNext]_fsVars
-----------------------------------------------------------------------------
\* The access rights hold whatever happens to the name meanwhile: the contents
\* of a file change only by a call whose caller opened, or is opening, a file
\* for writing, and never if the file's owner may not write it.
AuthorisedStep ==
    \A i \in FsInodes : content'[i] # content[i] =>
        /\ i \notin ro
        /\ \E t \in FsThreads : /\ fspc[t] # fspc'[t]
                               /\ "write" \in CapOf(call[t].opts) \cup file[t].cap
WriteAuthorised == [][AuthorisedStep]_fsVars
=============================================================================
