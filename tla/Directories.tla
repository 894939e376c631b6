----------------------------- MODULE Directories ----------------------------
(***************************************************************************)
(* Directories: listing their entries, and the hard links among them.      *)
(***************************************************************************)
EXTENDS Integers, Sequences, SequencesExt, FiniteSets, Functions

(***************************************************************************)
(* Reading a directory: Directory::read_dir of modules/axfs/src/fops.rs    *)
(* numbers the entries and lists them anew on every call, sys_getdents64   *)
(* (api/src/imp/fs/ctl.rs) packs them into buffers of any size and keeps   *)
(* the entry that did not fit, and the ReadDir iterator (axfs/src/api)     *)
(* reads them by the array and leaves out "." and "..".  Other threads     *)
(* remove entries meanwhile.                                               *)
(***************************************************************************)

CONSTANTS Entries,   \* the entries the directory starts with, in order
          Dots,      \* the ones among them that are "." and ".."
          RecLen(_), \* the aligned length of the record of an entry
          NoEntry,
          MaxDirBuf, \* bound on the buffer of sys_getdents64
          DIRENTS    \* the length of the array of ReadDir

VARIABLES
    entries,     \* the directory now
    entry_idx,   \* the cursor of the open directory
    last_dirent, \* the entry that did not fit
    space,       \* bytes left in the buffer of the call under way
    packed,      \* the entries in that buffer
    dirpc,       \* where sys_getdents64 is
    listed,      \* history: the entries returned to the caller so far
    atEnd,       \* a call has returned 0
    it,          \* the iterator: its own cursor, its array, the place in it, its end
    yielded      \* history: the entries the iterator has returned

dirVars == <<entries, entry_idx, last_dirent, space, packed, dirpc, listed, atEnd, it, yielded>>

DirInit ==
    /\ entries = Entries /\ entry_idx = 0 /\ last_dirent = NoEntry
    /\ space = 0 /\ packed = <<>> /\ dirpc = "user" /\ listed = <<>> /\ atEnd = FALSE
    /\ it = [idx |-> 0, buf |-> <<>>, pos |-> 0, end |-> FALSE] /\ yielded = <<>>

\* read_dir of the file system: up to n entries after the first start ones.
ReadDir(start, n) ==
    SubSeq(entries, start + 1, IF start + n < Len(entries) THEN start + n ELSE Len(entries))

\* sys_getdents64 with a buffer of len bytes: the entry left over comes first,
\* and if it does not fit now the call fails and keeps it.
DirStart(len) ==
    /\ dirpc = "user"
    /\ \/ /\ last_dirent = NoEntry
          /\ dirpc' = "loop" /\ packed' = <<>> /\ space' = len
       \/ /\ last_dirent # NoEntry /\ RecLen(last_dirent) <= len
          /\ dirpc' = "loop" /\ packed' = <<last_dirent>> /\ space' = len - RecLen(last_dirent)
       \/ /\ last_dirent # NoEntry /\ RecLen(last_dirent) > len
          /\ UNCHANGED <<dirpc, packed, space>>
    /\ last_dirent' = IF dirpc' = "loop" THEN NoEntry ELSE last_dirent
    /\ UNCHANGED <<entries, entry_idx, listed, atEnd, it, yielded>>

\* One round of its loop: read the next entry and write it, or keep it.
DirRound ==
    /\ dirpc = "loop"
    /\ LET next == ReadDir(entry_idx, 1)
       IN /\ next # <<>>
          /\ entry_idx' = entry_idx + 1
          /\ \/ /\ RecLen(next[1]) <= space
                /\ packed' = Append(packed, next[1]) /\ space' = space - RecLen(next[1])
                /\ UNCHANGED <<last_dirent, dirpc>>
             \/ /\ RecLen(next[1]) > space
                /\ last_dirent' = next[1] /\ dirpc' = "return"
                /\ UNCHANGED <<packed, space>>
    /\ UNCHANGED <<entries, listed, atEnd, it, yielded>>

\* It returns what is packed; nothing packed is EINVAL if an entry is kept, and
\* the end of the directory if not.
DirReturn ==
    /\ dirpc = "return" \/ (dirpc = "loop" /\ ReadDir(entry_idx, 1) = <<>>)
    /\ dirpc' = "user"
    /\ listed' = listed \o packed
    /\ atEnd' = (packed = <<>> /\ last_dirent = NoEntry)
    /\ packed' = <<>> /\ space' = 0
    /\ UNCHANGED <<entries, entry_idx, last_dirent, it, yielded>>

\* One round of the loop of ReadDir::next.
IterNext ==
    /\ ~it.end
    /\ LET more == ReadDir(it.idx, DIRENTS)
       IN \/ /\ it.pos < Len(it.buf)
             /\ it' = [it EXCEPT !.pos = @ + 1]
             /\ yielded' = IF it.buf[it.pos + 1] \in Dots THEN yielded
                           ELSE Append(yielded, it.buf[it.pos + 1])
          \/ /\ it.pos >= Len(it.buf)
             /\ it' = [it EXCEPT !.end = (more = <<>>), !.buf = more, !.pos = 0,
                                 !.idx = @ + Len(more)]
             /\ UNCHANGED yielded
    /\ UNCHANGED <<entries, entry_idx, last_dirent, space, packed, dirpc, listed, atEnd>>

\* Another thread removes the i-th entry.
Unlinked(i) ==
    /\ entries' = RemoveAt(entries, i)
    /\ UNCHANGED <<entry_idx, last_dirent, space, packed, dirpc, listed, atEnd, it, yielded>>

DirNext ==
    \/ \E len \in 0..MaxDirBuf : DirStart(len)
    \/ DirRound \/ DirReturn \/ IterNext
    \/ \E i \in 1..Len(entries) : entries[i] \notin Dots /\ Unlinked(i)

DirSpec == DirInit /\ [][DirNext]_dirVars
-----------------------------------------------------------------------------
\* The caller of sys_getdents64 gets every entry once and in order, whatever
\* the sizes of its buffers and however often a call fails with EINVAL: what has
\* been returned is a subsequence of the directory, and at the end of a
\* directory nobody changed it is all of it.
EntriesListedOnce ==
    /\ \A i, j \in 1..Len(listed) : i < j =>
          \E k, l \in 1..Len(Entries) : k < l /\ Entries[k] = listed[i] /\ Entries[l] = listed[j]
    /\ atEnd /\ entries = Entries => listed = Entries

\* The iterator yields every entry but "." and "..", once and in order.
EntriesIterated ==
    /\ \A i, j \in 1..Len(yielded) : i < j =>
          \E k, l \in 1..Len(Entries) : k < l /\ Entries[k] = yielded[i] /\ Entries[l] = yielded[j]
    /\ it.end /\ entries = Entries =>
          yielded = SelectSeq(Entries, LAMBDA e : e \notin Dots)

-----------------------------------------------------------------------------

(***************************************************************************)
(* The hard links of api/src/path.rs: a table from link names to the names *)
(* they stand for, with a count of the links of every target, consulted    *)
(* whenever a path is made a FilePath, and the calls that use it           *)
(* (api/src/imp/fs/ctl.rs).  A call resolves its paths first and works on  *)
(* the manager or on the file system later.                                *)
(*                                                                         *)
(* A path is canonical: a name, and whether it ends with "/".              *)
(***************************************************************************)

CONSTANTS LinkThreads, Names, NoPath

LinkPaths == [name : Names, slash : BOOLEAN]

VARIABLES
    links,      \* links[p]: the target of link p, for the links there are
    ref_counts, \* ref_counts[p]: its entry, for the targets that have one
    dirent,     \* dirent[n]: "none", "dir" or "file"
    lpc, lcall  \* where thread t is in its call, and the call's local variables

linkVars == <<links, ref_counts, dirent, lpc, lcall>>

Rest == [given |-> NoPath, new |-> NoPath, old |-> NoPath]

LinkInit ==
    /\ links = <<>> /\ ref_counts = <<>>
    /\ dirent \in [Names -> {"none", "dir", "file"}]
    /\ lpc = [t \in LinkThreads |-> "user"]
    /\ lcall = [t \in LinkThreads |-> Rest]

\* real_path, at the end of FilePath::new: one level of the table.
RealPath(p) == IF p \in DOMAIN links THEN links[p] ELSE p

\* FilePath::exists: with a trailing "/" only a directory is there.
Exists(p) == IF p.slash THEN dirent[p.name] = "dir" ELSE dirent[p.name] # "none"

LReturn(t) == lpc' = [lpc EXCEPT ![t] = "user"] /\ lcall' = [lcall EXCEPT ![t] = Rest]
LGoto(t, pc, c) == lpc' = [lpc EXCEPT ![t] = pc] /\ lcall' = [lcall EXCEPT ![t] = c]
-----------------------------------------------------------------------------
\* A call's first handle_file_path; sys_linkat has a second one.
LinkCall(t, op, p, q) ==
    /\ lpc[t] = "user"
    /\ LGoto(t, IF op = "link" THEN "resolve" ELSE op,
             [Rest EXCEPT !.old = RealPath(p), !.given = q])
    /\ UNCHANGED <<links, ref_counts, dirent>>

LinkResolve(t) ==
    /\ lpc[t] = "resolve"
    /\ LGoto(t, "check", [lcall[t] EXCEPT !.new = RealPath(lcall[t].given), !.given = NoPath])
    /\ UNCHANGED <<links, ref_counts, dirent>>

\* create_link: the target must exist and end with "/" ...
LinkCheck(t) ==
    /\ lpc[t] = "check"
    /\ IF Exists(lcall[t].old) /\ lcall[t].old.slash THEN LGoto(t, "link", lcall[t]) ELSE LReturn(t)
    /\ UNCHANGED <<links, ref_counts, dirent>>

\* decrease_ref_count(d): a target that nobody links to any more leaves the
\* table, and remove_file removes it if it is a file.
Decreased(counts, d) ==
    IF d \notin DOMAIN counts THEN counts
    ELSE IF counts[d] = 1 THEN Restrict(counts, DOMAIN counts \ {d})
    ELSE [counts EXCEPT ![d] = @ - 1]

DirentAfter(counts, d) ==
    IF d \in DOMAIN counts /\ counts[d] = 1 /\ dirent[d.name] = "file" /\ ~d.slash
    THEN [dirent EXCEPT ![d.name] = "none"] ELSE dirent

Increased(counts, d) ==
    [e \in DOMAIN counts \cup {d} |->
        (IF e \in DOMAIN counts THEN counts[e] ELSE 0) + (IF e = d THEN 1 ELSE 0)]

MutLinkUpdate(t) ==
    /\ lpc[t] = "link"
    /\ LET src == lcall[t].new  dst == lcall[t].old
       IN IF src \in DOMAIN links /\ links[src] = dst
          THEN UNCHANGED <<links, ref_counts, dirent>>
          ELSE /\ links' = [p \in DOMAIN links \cup {src} |-> IF p = src THEN dst ELSE links[p]]
               /\ ref_counts' = Increased(ref_counts, dst)
               /\ UNCHANGED dirent
    /\ LReturn(t)

\* ... atomic_link_update, under the manager's lock.
LinkUpdate(t) ==
    /\ lpc[t] = "link"
    /\ LET src == lcall[t].new  dst == lcall[t].old
       IN IF src \in DOMAIN links /\ links[src] = dst
          THEN UNCHANGED <<links, ref_counts, dirent>>
          ELSE LET old == links[src]
               IN /\ links' = [p \in DOMAIN links \cup {src} |-> IF p = src THEN dst ELSE links[p]]
                  /\ ref_counts' = Increased(IF src \in DOMAIN links THEN Decreased(ref_counts, old)
                                             ELSE ref_counts, dst)
                  /\ dirent' = IF src \in DOMAIN links THEN DirentAfter(ref_counts, old) ELSE dirent
    /\ LReturn(t)

\* sys_unlinkat of something that is not a directory: remove_link, under the
\* manager's lock, which falls back on remove_file.
LinkUnlink(t) ==
    /\ lpc[t] = "unlink"
    /\ LET p == lcall[t].old
       IN IF ~Exists(p) \/ dirent[p.name] = "dir" THEN LReturn(t) ELSE LGoto(t, "remove", lcall[t])
    /\ UNCHANGED <<links, ref_counts, dirent>>

LinkRemove(t) ==
    /\ lpc[t] = "remove"
    /\ LET p == lcall[t].old
       IN IF p \in DOMAIN links
          THEN /\ links' = Restrict(links, DOMAIN links \ {p})
               /\ ref_counts' = Decreased(ref_counts, links[p])
               /\ dirent' = DirentAfter(ref_counts, links[p])
          ELSE /\ dirent' = IF dirent[p.name] = "file" /\ ~p.slash
                            THEN [dirent EXCEPT ![p.name] = "none"] ELSE dirent
               /\ UNCHANGED <<links, ref_counts>>
    /\ LReturn(t)

\* sys_unlinkat with AT_REMOVEDIR, sys_mkdirat and the creation of a file: on
\* the resolved name, past the manager.
LinkChange(t, op, from, to) ==
    /\ lpc[t] = op
    /\ LET p == lcall[t].old
       IN dirent' = IF dirent[p.name] = from /\ (p.slash => to # "file")
                    THEN [dirent EXCEPT ![p.name] = to] ELSE dirent
    /\ LReturn(t)
    /\ UNCHANGED <<links, ref_counts>>

LinkNext ==
    \E t \in LinkThreads :
        \/ \E p, q \in LinkPaths : LinkCall(t, "link", p, q)
        \/ \E op \in {"unlink", "rmdir", "mkdir", "creat"}, p \in LinkPaths : LinkCall(t, op, p, NoPath)
        \/ LinkResolve(t) \/ LinkCheck(t) \/ LinkUpdate(t) \/ LinkUnlink(t) \/ LinkRemove(t)
        \/ LinkChange(t, "rmdir", "dir", "none") \/ LinkChange(t, "mkdir", "none", "dir")
        \/ LinkChange(t, "creat", "none", "file")

LinkSpec == LinkInit /\ [][LinkNext]_linkVars
-----------------------------------------------------------------------------
\* The counts are the numbers of links: the case decrease_ref_count reports as
\* "link exists but ref count is zero" never happens, and no target is kept or
\* removed for a link that is not there.
CountsMatchLinks ==
    \A d \in LinkPaths :
        LET n == Cardinality({p \in DOMAIN links : links[p] = d})
        IN IF n = 0 THEN d \notin DOMAIN ref_counts
           ELSE d \in DOMAIN ref_counts /\ ref_counts[d] = n

=============================================================================
