------------------------------ MODULE ExecLoad ------------------------------
(***************************************************************************)
(* execve(): the old image is unmapped, then load_user_app() follows       *)
(* scripts and ELF interpreters to the program to load, maps its segments, *)
(* the stack and the heap, and the thread enters the new image.            *)
(*                                                                         *)
(* User memory is a line of units, EPAGE of them to a page.  A file is a   *)
(* script, whose line is one or two words, or an ELF file with its load    *)
(* segments and perhaps an interpreter.                                    *)
(***************************************************************************)
EXTENDS Integers, Sequences, FiniteSets, SequencesExt

CONSTANTS
    EPAGE, Space,     \* units to a page; the units of the address space
    Trampoline, Stack, UserHeap,  \* pages of the fixed regions
    FileSystem,       \* the files: name -> record
    ArgLists,         \* argv of the calls
    MaxDepth          \* bound: scripts and interpreters followed

VARIABLES
    ePc, eArgs, eOrig, \* stage, arguments now and as given
    scriptDepth, segsLeft,
    areas,             \* pages in an area
    image,             \* unit -> content, a pair
    eRet

eVars == <<ePc, eArgs, eOrig, scriptDepth, segsLeft, areas, image, eRet>>

ENOENT == -2
EAGAIN == -11
Hole == <<"none", 0>>
Zero == <<"zero", 0>>
Old == <<"old", 0>>

UnitsOf(pages) == {u \in Space : u \div EPAGE \in pages}
Program == IF eArgs = <<>> THEN "" ELSE Head(eArgs)
Kind(f) == IF f \in DOMAIN FileSystem THEN FileSystem[f].kind ELSE "absent"

EInit ==
    /\ ePc = "run" /\ eArgs = <<>> /\ eOrig = <<>> /\ scriptDepth = 0 /\ segsLeft = <<>>
    /\ areas = {0} \cup Stack \cup Trampoline
    /\ image = [u \in Space |-> IF u \in UnitsOf(areas) THEN Old ELSE Hole]
    /\ eRet = 0

(* sys_execve() up to the check for other threads.                         *)
Execve(args, threads) ==
    /\ ePc = "run"
    /\ eOrig' = args /\ eArgs' = args
    /\ scriptDepth' = 0 /\ segsLeft' = <<>>
    /\ IF threads > 1 THEN ePc' = "run" /\ eRet' = EAGAIN
                      ELSE ePc' = "unmap" /\ eRet' = 0
    /\ UNCHANGED <<areas, image>>

(* unmap_user_areas(), map_trampoline().                                   *)
UnmapOld ==
    /\ ePc = "unmap" /\ ePc' = "load"
    /\ areas' = Trampoline
    /\ image' = [u \in Space |-> IF u \in UnitsOf(Trampoline) THEN Old ELSE Hole]
    /\ UNCHANGED <<eArgs, eOrig, scriptDepth, segsLeft, eRet>>

(* Any error of load_user_app() is ENOENT to a program that is gone.       *)
LoadFails ==
    /\ ePc' = "gone" /\ eRet' = ENOENT
    /\ UNCHANGED <<eArgs, eOrig, scriptDepth, segsLeft, areas, image>>

LoadError ==
    /\ ePc = "load"
    /\ Kind(Program) \in {"absent", "data"}
    /\ LoadFails

(* load_user_app() calls itself with words put before the arguments.       *)
Follow(front) ==
    /\ eArgs' = front \o eArgs
    /\ scriptDepth' = scriptDepth + 1
    /\ UNCHANGED <<ePc, eOrig, segsLeft, areas, image, eRet>>

(* A file that starts with #!: its line, split at the first white space.   *)
Script ==
    /\ ePc = "load" /\ Kind(Program) = "script" /\ scriptDepth < MaxDepth
    /\ Follow(FileSystem[Program].line)

(* An ELF file with a PT_INTERP header.                                    *)
Interp ==
    /\ ePc = "load" /\ Kind(Program) = "elf" /\ scriptDepth < MaxDepth
    /\ FileSystem[Program].interp # ""
    /\ Follow(<<FileSystem[Program].interp>>)

StartElf ==
    /\ ePc = "load" /\ Kind(Program) = "elf"
    /\ FileSystem[Program].interp = ""
    /\ ePc' = "segments" /\ segsLeft' = FileSystem[Program].segs
    /\ UNCHANGED <<eArgs, eOrig, scriptDepth, areas, image, eRet>>

MutSegPages(s) == {(s.vaddr \div EPAGE) + i : i \in 0..(((s.memsz + EPAGE - 1) \div EPAGE) - 1)}

(* The pages of a segment: from its start rounded down, over its size and  *)
(* padding rounded up.                                                     *)
SegPages(s) ==
    LET pad == s.vaddr % EPAGE
    IN  {(s.vaddr \div EPAGE) + i : i \in 0..(((s.memsz + pad + EPAGE - 1) \div EPAGE) - 1)}

(* map_alloc(): fails over an area or outside the address space.           *)
Mappable(pages) == pages \cap areas = {} /\ \A p \in pages : p * EPAGE \in Space

Mapped(pages) == [u \in Space |-> IF u \in UnitsOf(pages) THEN Zero ELSE image[u]]

(* What was mapped before an error stays.                                  *)
GiveUp(pages) ==
    /\ ePc' = "gone" /\ eRet' = ENOENT
    /\ areas' = areas \cup pages /\ image' = Mapped(pages)
    /\ UNCHANGED <<eArgs, eOrig, scriptDepth, segsLeft>>

(* map_elf(): one round of its loop; uspace.write() wants the range mapped.*)
MapSegment ==
    LET s == Head(segsLeft)
        pages == SegPages(s)
        to == s.vaddr..(s.vaddr + s.filesz - 1)
        readable == s.offset + s.filesz <= FileSystem[Program].size /\ to \subseteq UnitsOf(areas \cup pages)
    IN  /\ ePc = "segments" /\ segsLeft # <<>>
        /\ \/ ~Mappable(pages) /\ LoadFails
           \/ Mappable(pages) /\ ~readable /\ GiveUp(pages)
           \/ /\ Mappable(pages) /\ readable
              /\ areas' = areas \cup pages
              /\ image' = [u \in Space |-> IF u \in to THEN <<Program, s.offset + (u - s.vaddr)>> ELSE Mapped(pages)[u]]
              /\ segsLeft' = Tail(segsLeft)
              /\ UNCHANGED <<ePc, eArgs, eOrig, scriptDepth, eRet>>

(* The arguments lie in the last unit of the stack.                        *)
StackEnd == CHOOSE u \in UnitsOf(Stack) : \A v \in UnitsOf(Stack) : v <= u
Arguments == <<"args", Len(eArgs)>>

(* The stack and the heap, then the context of the new image is entered.   *)
MapStackHeap ==
    /\ ePc = "segments" /\ segsLeft = <<>>
    /\ \/ ~Mappable(Stack) /\ LoadFails
       \/ Mappable(Stack) /\ ~Mappable(UserHeap) /\ GiveUp(Stack)
       \/ /\ Mappable(Stack) /\ Mappable(UserHeap)
          /\ areas' = areas \cup Stack \cup UserHeap
          /\ image' = [Mapped(Stack \cup UserHeap) EXCEPT ![StackEnd] = Arguments]
          /\ ePc' = "new"
          /\ UNCHANGED <<eArgs, eOrig, scriptDepth, segsLeft, eRet>>

(* A frame cannot be allocated: map_alloc() adds no area.                  *)
NoMemory == ePc = "segments" /\ LoadFails

ENext ==
    \/ \E args \in ArgLists, n \in {1, 2} : Execve(args, n)
    \/ UnmapOld \/ LoadError \/ Script \/ Interp \/ StartElf \/ MapSegment \/ MapStackHeap \/ NoMemory

ESpec == EInit /\ [][ENext]_eVars

-----------------------------------------------------------------------------

(* A new image is entered only complete: every unit of every load segment  *)
(* of the program run holds its byte of the file, or zero past the file's  *)
(* part; the stack holds the arguments and is zero elsewhere, like the     *)
(* heap; nothing of the old image is left.  The arguments, script names    *)
(* included, stay behind the words the interpreters put in front.          *)
ImageComplete ==
    /\ IsSuffix(eOrig, eArgs)
    /\ ePc = "new" =>
         /\ \A s \in Range(FileSystem[Program].segs) : \A i \in 0..(s.memsz - 1) :
                image[s.vaddr + i] = IF i < s.filesz THEN <<Program, s.offset + i>> ELSE Zero
         /\ \A u \in UnitsOf(Stack \cup UserHeap) : image[u] = IF u = StackEnd THEN Arguments ELSE Zero
         /\ \A u \in Space : image[u] = Old => u \in UnitsOf(Trampoline)
         /\ \A u \in Space : image[u] # Hole <=> u \div EPAGE \in areas

=============================================================================
