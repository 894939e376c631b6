----------------------------- MODULE Namespaces -----------------------------
(***************************************************************************)
(* Namespaces: the resources of a process (descriptor table, node and text *)
(* of its current directory), each a cell that is initialised once with a  *)
(* counted reference; clone() makes the namespace of a new process by      *)
(* copying the bytes of the global one and then initialises each cell,     *)
(* sharing or copying what the calling thread's namespace holds.  Kernel   *)
(* tasks use a copy of the global namespace made at the first access.      *)
(***************************************************************************)
EXTENDS Integers, FiniteSets

CONSTANTS
    NsProcs, NTasks,   \* processes and tasks that may be created
    BootTask,        \* the task that starts the first program
    Objects,         \* objects, enough for every namespace
    Contents,        \* contents of a resource, 0 of a cleared one
    MaxChdirs        \* bound: chdir() calls

Resources == {"FD_TABLE", "CURRENT_DIR", "CURRENT_DIR_PATH"}
Spaces == {"global", "kernel"} \cup NsProcs
Uninit == 0

ASSUME ObjectsAssumption ==
    /\ Uninit \notin Objects
    /\ Cardinality(Objects) >= Cardinality(Resources) * (Cardinality(NsProcs) + 1)

VARIABLES
    cells,       \* namespace -> resource -> object
    nsState,     \* "none", "private" to the task that makes it, "live", "dropped"
    count, data, \* of each object: strong references, content
    owner,       \* namespace of each task, "none" before and after its life
    nPc, nChild, nFlags, nDir,  \* stage; new process and flags of clone(); argument of chdir()
    family,      \* for each resource, who made the object a process should use
    chdirs, panicked, raced

nVars == <<cells, nsState, count, data, owner, nPc, nChild, nFlags, nDir, family, chdirs, panicked, raced>>

Blank == [r \in Resources |-> Uninit]

NsInit ==
    /\ cells = [s \in Spaces |-> Blank]
    /\ nsState = [s \in Spaces |-> IF s = "global" THEN "live" ELSE "none"]
    /\ count = [o \in Objects |-> 0]
    /\ data = [o \in Objects |-> 0]
    /\ owner = [t \in NTasks |-> IF t = BootTask THEN "kernel" ELSE "none"]
    /\ nPc = [t \in NTasks |-> IF t = BootTask THEN "boot" ELSE "run"]
    /\ nChild = [t \in NTasks |-> "none"]
    /\ nFlags = [t \in NTasks |-> {}]
    /\ nDir = [t \in NTasks |-> 1]
    /\ family = [s \in Spaces |-> [r \in Resources |-> s]]
    /\ chdirs = 0 /\ panicked = FALSE /\ raced = FALSE

(* def_resource!: a resource is found in the namespace of the task.        *)
deref_auto(t, r) == cells[owner[t]][r]

(* ResArc::init_new() and init_shared(): a second initialisation panics.   *)
InitOnce(s, r, o) ==
    /\ cells' = [cells EXCEPT ![s][r] = IF @ = Uninit THEN o ELSE @]
    /\ panicked' = (panicked \/ cells[s][r] # Uninit)

Fresh == CHOOSE o \in Objects : count[o] = 0

Allocated(o, v) ==
    /\ count' = [count EXCEPT ![o] = 1]
    /\ data' = [data EXCEPT ![o] = v]

(* current_namespace_base() of a kernel task: the first call copies the    *)
(* global namespace.  Boot initialises every resource through it.          *)
KernelSpace == IF nsState["kernel"] = "none" THEN [cells EXCEPT !["kernel"] = cells["global"]] ELSE cells

BootInit(r) ==
    /\ nPc[BootTask] = "boot" /\ cells["kernel"][r] = Uninit
    /\ Allocated(Fresh, 1)
    /\ cells' = [KernelSpace EXCEPT !["kernel"][r] = Fresh]
    /\ nsState' = [nsState EXCEPT !["kernel"] = "live"]
    /\ nPc' = [nPc EXCEPT ![BootTask] = IF \A q \in Resources \ {r} : cells["kernel"][q] # Uninit THEN "run" ELSE "boot"]
    /\ UNCHANGED <<owner, nChild, nFlags, nDir, family, chdirs, panicked, raced>>

-----------------------------------------------------------------------------
(* sys_clone() without CLONE_THREAD, and run_user_app() in a kernel task.  *)

(* AxNamespace::new_thread_local(): the bytes of the global namespace.     *)
NewNamespace == cells["global"]

CloneStart(t, p, flags) ==
    /\ owner[t] # "none" /\ nPc[t] = "run" /\ nsState[p] = "none"
    /\ owner[t] = "kernel" => flags = {} /\ \A q \in NsProcs : nsState[q] = "none"
    /\ nsState' = [nsState EXCEPT ![p] = "private"]
    /\ cells' = [cells EXCEPT ![p] = NewNamespace]
    /\ nPc' = [nPc EXCEPT ![t] = "FD_TABLE"]
    /\ nChild' = [nChild EXCEPT ![t] = p]
    /\ nFlags' = [nFlags EXCEPT ![t] = flags]
    /\ UNCHANGED <<nDir, count, data, owner, family, chdirs, panicked, raced>>

After(r) == CASE r = "FD_TABLE" -> "CURRENT_DIR" [] r = "CURRENT_DIR" -> "CURRENT_DIR_PATH" [] OTHER -> "start"
Flag(r) == IF r = "FD_TABLE" THEN "FILES" ELSE "FS"

MutCloneShare(t, r) ==
    LET o == deref_auto(t, r)
    IN  /\ nPc[t] = r /\ Flag(r) \in nFlags[t]
        /\ InitOnce(nChild[t], r, o)
        /\ family' = [family EXCEPT ![nChild[t]][r] = family[owner[t]][r]]
        /\ nPc' = [nPc EXCEPT ![t] = After(r)]
        /\ UNCHANGED <<nsState, count, data, owner, nChild, nFlags, nDir, chdirs, raced>>

CloneShare(t, r) ==
    LET o == deref_auto(t, r)
    IN  /\ nPc[t] = r /\ Flag(r) \in nFlags[t]
        /\ InitOnce(nChild[t], r, o)
        /\ count' = [count EXCEPT ![o] = @ + 1]
        /\ family' = [family EXCEPT ![nChild[t]][r] = family[owner[t]][r]]
        /\ nPc' = [nPc EXCEPT ![t] = After(r)]
        /\ UNCHANGED <<nsState, data, owner, nChild, nFlags, nDir, chdirs, raced>>

CloneCopy(t, r) ==
    /\ nPc[t] = r /\ Flag(r) \notin nFlags[t]
    /\ Allocated(Fresh, data[deref_auto(t, r)])
    /\ InitOnce(nChild[t], r, Fresh)
    /\ nPc' = [nPc EXCEPT ![t] = After(r)]
    /\ raced' = (raced \/ \E u \in NTasks : nPc[u] = "chpath")
    /\ UNCHANGED <<nsState, owner, nChild, nFlags, nDir, family, chdirs>>

CloneSpawn(t, u) ==
    /\ nPc[t] = "start" /\ owner[u] = "none" /\ nPc[u] = "run"
    /\ nsState' = [nsState EXCEPT ![nChild[t]] = "live"]
    /\ owner' = [owner EXCEPT ![u] = nChild[t]]
    /\ nPc' = [nPc EXCEPT ![t] = "run"]
    /\ UNCHANGED <<cells, count, data, nChild, nFlags, nDir, family, chdirs, panicked, raced>>

(* CLONE_THREAD: a new task in the same process.                           *)
NsThread(t, u) ==
    /\ owner[t] \in NsProcs /\ nPc[t] = "run" /\ owner[u] = "none" /\ nPc[u] = "run"
    /\ owner' = [owner EXCEPT ![u] = owner[t]]
    /\ UNCHANGED <<cells, nsState, count, data, nPc, nChild, nFlags, nDir, family, chdirs, panicked, raced>>

-----------------------------------------------------------------------------
(* set_current_dir() writes the two resources of the directory in turn.    *)
ChdirNodeIs(t, v) ==
    /\ owner[t] \in NsProcs /\ nPc[t] = "run" /\ chdirs < MaxChdirs
    /\ data' = [data EXCEPT ![deref_auto(t, "CURRENT_DIR")] = v]
    /\ nPc' = [nPc EXCEPT ![t] = "chpath"]
    /\ nDir' = [nDir EXCEPT ![t] = v]
    /\ chdirs' = chdirs + 1
    /\ raced' = (raced \/ \E u \in NTasks : nPc[u] \in {"chpath", "CURRENT_DIR", "CURRENT_DIR_PATH"})
    /\ UNCHANGED <<cells, nsState, count, owner, nChild, nFlags, family, panicked>>

ChdirTextIs(t) ==
    /\ nPc[t] = "chpath"
    /\ data' = [data EXCEPT ![deref_auto(t, "CURRENT_DIR_PATH")] = nDir[t]]
    /\ nPc' = [nPc EXCEPT ![t] = "run"]
    /\ UNCHANGED <<cells, nsState, count, owner, nChild, nFlags, nDir, family, chdirs, panicked, raced>>

(* do_exit(): the last thread empties the descriptor table.                *)
TaskExits(t) ==
    /\ owner[t] \in NsProcs /\ nPc[t] = "run"
    /\ data' = IF \E u \in NTasks \ {t} : owner[u] = owner[t] THEN data
               ELSE [data EXCEPT ![deref_auto(t, "FD_TABLE")] = 0]
    /\ owner' = [owner EXCEPT ![t] = "none"]
    /\ nPc' = [nPc EXCEPT ![t] = "exited"]
    /\ UNCHANGED <<cells, nsState, count, nChild, nFlags, nDir, family, chdirs, panicked, raced>>

(* The process is freed: its namespace goes, its references do not.        *)
DropNamespace(p) ==
    /\ nsState[p] = "live" /\ \A t \in NTasks : owner[t] # p
    /\ nsState' = [nsState EXCEPT ![p] = "dropped"]
    /\ UNCHANGED <<cells, count, data, owner, nPc, nChild, nFlags, nDir, family, chdirs, panicked, raced>>

NsStep(t) ==
    \/ \E p \in NsProcs, flags \in SUBSET {"FILES", "FS"} : CloneStart(t, p, flags)
    \/ \E r \in Resources : CloneShare(t, r) \/ CloneCopy(t, r)
    \/ \E u \in NTasks : CloneSpawn(t, u) \/ NsThread(t, u)
    \/ \E v \in Contents : ChdirNodeIs(t, v)
    \/ ChdirTextIs(t) \/ TaskExits(t)

NsNext ==
    \/ \E r \in Resources : BootInit(r)
    \/ \E p \in NsProcs : DropNamespace(p)
    \/ \E t \in NTasks : NsStep(t)

NsSpec == NsInit /\ [][NsNext]_nVars

-----------------------------------------------------------------------------

(* "Different processes have different namespaces and isolated resources": *)
(* two processes use one object exactly when clone() was told to share it. *)
(* No cell is initialised twice; the global namespace, whose bytes every   *)
(* new one starts from, stays blank, so no reference is ever copied        *)
(* without being counted; and as long as no clone() copied, or second      *)
(* chdir() ran, between the two writes of a chdir(), node and text of      *)
(* every current directory agree whenever none is being changed.           *)
NamespacesIsolated ==
    LET alive == {p \in NsProcs : nsState[p] = "live"}
    IN  /\ ~panicked
        /\ cells["global"] = Blank
        /\ \A o \in Objects : count[o] = Cardinality({x \in Spaces \X Resources : cells[x[1]][x[2]] = o})
        /\ \A p, q \in alive, r \in Resources : cells[p][r] = cells[q][r] <=> family[p][r] = family[q][r]
        /\ (~raced /\ \A t \in NTasks : nPc[t] # "chpath") =>
              \A p \in alive : data[cells[p]["CURRENT_DIR"]] = data[cells[p]["CURRENT_DIR_PATH"]]

=============================================================================
