------------------------------- MODULE CRuntime -----------------------------
(***************************************************************************)
(* The parts of the C library axlibc that work on the program's state: its *)
(* memory and its registers.                                               *)
(***************************************************************************)
EXTENDS Integers, FiniteSets, Sequences, TLC

(***************************************************************************)
(* Memory in the C library: memset, memcpy, memmove (string.c), malloc and *)
(* free (malloc.rs), calloc and realloc (stdlib.c).  A block starts with a *)
(* control word that holds its size; the pointer the program gets is one   *)
(* past it, and free and realloc read the size back from there.  The       *)
(* allocator underneath (Rust's global one) hands out any unused range.    *)
(***************************************************************************)

CONSTANTS
    MemSize,   \* bound: bytes of the heap; addresses 0..MemSize-1
    ADDRESSES, \* 2^width of uintptr_t
    MaxBlock,  \* bound: size of a block
    MaxSet,    \* bound: count given to memset
    Marks      \* the values a program stores

VARIABLES bytes, blocks, memCall

memVars == <<bytes, blocks, memCall>>

Addresses == 0..(MemSize - 1)

-----------------------------------------------------------------------------

(* memset(s, c, n): the offsets it stores to.  Head and tail first, then a *)
(* loop over the part between the 4-byte boundaries.                       *)
MemsetOffsets(s, n) ==
    LET k == (-s) % 4
        head == IF n = 0 THEN {} ELSE {0, n - 1}
        near == IF n <= 2 THEN {} ELSE {1, 2, n - 2, n - 3}
        more == IF n <= 6 THEN {} ELSE {3, n - 4}
        loop == IF n <= 8 THEN {} ELSE k..(k + (n - k) - ((n - k) % 4) - 1)
    IN  head \cup near \cup more \cup loop

(* Memory after the first k bytes of an ascending or descending copy.      *)
Ascending(m, d, s, n) ==
    LET after[k \in 0..n] ==
            IF k = 0 THEN m
            ELSE [after[k - 1] EXCEPT ![d + k - 1] = after[k - 1][s + k - 1]]
    IN  after[n]

Descending(m, d, s, n) ==
    LET after[k \in 0..n] ==
            IF k = 0 THEN m
            ELSE [after[k - 1] EXCEPT ![d + n - k] = after[k - 1][s + n - k]]
    IN  after[n]

memcpy(m, d, s, n) == Ascending(m, d, s, n)

(* The difference of the pointers, modulo the address width, tells whether *)
(* the ranges are apart.                                                   *)
memmove(m, d, s, n) ==
    IF d = s THEN m
    ELSE IF (s - d - n) % ADDRESSES <= (-2 * n) % ADDRESSES THEN memcpy(m, d, s, n)
    ELSE IF d < s THEN Ascending(m, d, s, n)
    ELSE Descending(m, d, s, n)

-----------------------------------------------------------------------------

MemInit ==
    /\ bytes = [a \in Addresses |-> 0]
    /\ blocks = {}
    /\ memCall = [fun |-> "none"]

(* The range [ptr - 1, ptr + size) with the control word.                  *)
Extent(b) == (b.ptr - 1)..(b.ptr + b.size - 1)

Available(ptr, size) ==
    /\ Extent([ptr |-> ptr, size |-> size]) \subseteq Addresses
    /\ \A b \in blocks : Extent(b) \cap Extent([ptr |-> ptr, size |-> size]) = {}

(* The control word of the block at ptr: the size malloc stored.           *)
SizeAt(m, ptr) == m[ptr - 1]

Malloc(ptr, size) ==
    /\ Available(ptr, size)
    /\ bytes' = [bytes EXCEPT ![ptr - 1] = size]
    /\ blocks' = blocks \cup {[ptr |-> ptr, size |-> size]}
    /\ UNCHANGED memCall

(* calloc: malloc and then memset to zero.                                 *)
Calloc(ptr, m, n) ==
    /\ Available(ptr, m * n)
    /\ bytes' = [a \in Addresses |->
                    IF a = ptr - 1 THEN m * n
                    ELSE IF a - ptr \in MemsetOffsets(ptr, m * n) THEN 0 ELSE bytes[a]]
    /\ blocks' = blocks \cup {[ptr |-> ptr, size |-> m * n]}
    /\ UNCHANGED memCall

(* free: the range given back is what the control word says.               *)
MemFree(b) ==
    /\ blocks' = {c \in blocks : Extent(c) \cap (b.ptr - 1)..(b.ptr + SizeAt(bytes, b.ptr) - 1) = {}}
    /\ UNCHANGED <<bytes, memCall>>

MutRealloc(b, ptr, size) ==
    LET o_size == SizeAt(bytes, b.ptr)
        fresh == [bytes EXCEPT ![ptr - 1] = size]
    IN  /\ Available(ptr, size)
        /\ bytes' = memcpy(fresh, ptr, b.ptr, o_size)
        /\ blocks' = {c \in blocks : Extent(c) \cap (b.ptr - 1)..(b.ptr + o_size - 1) = {}}
                     \cup {[ptr |-> ptr, size |-> size]}
        /\ UNCHANGED memCall

(* realloc: a new block, the smaller of the two sizes copied, the old      *)
(* block freed.                                                            *)
Realloc(b, ptr, size) ==
    LET o_size == SizeAt(bytes, b.ptr)
        fresh == [bytes EXCEPT ![ptr - 1] = size]
    IN  /\ Available(ptr, size)
        /\ bytes' = memcpy(fresh, ptr, b.ptr, IF o_size < size THEN o_size ELSE size)
        /\ blocks' = {c \in blocks : Extent(c) \cap (b.ptr - 1)..(b.ptr + o_size - 1) = {}}
                     \cup {[ptr |-> ptr, size |-> size]}
        /\ UNCHANGED memCall

(* The program stores into a block of its own.                             *)
Store(b, i, c) ==
    /\ bytes' = [bytes EXCEPT ![b.ptr + i] = c]
    /\ UNCHANGED <<blocks, memCall>>

(* A call of memset or memmove on memory whose bytes are all different.    *)
MemsetCall(s, n) ==
    /\ memCall' = [fun |-> "memset", n |-> n, offsets |-> MemsetOffsets(s, n)]
    /\ UNCHANGED <<bytes, blocks>>

MemmoveCall(d, s, n) ==
    /\ d + n <= MemSize /\ s + n <= MemSize
    /\ memCall' = [fun |-> "memmove", d |-> d, s |-> s, n |-> n,
                   after |-> memmove([a \in Addresses |-> a], d, s, n)]
    /\ UNCHANGED <<bytes, blocks>>

MemNext ==
    \/ /\ memCall.fun = "none"
       /\ \/ \E p \in Addresses \ {0}, n \in 0..MaxBlock : Malloc(p, n)
          \/ \E p \in Addresses \ {0}, m \in 1..2, n \in 1..(MaxBlock \div 2) : Calloc(p, m, n)
          \/ \E b \in blocks :
                 \/ MemFree(b)
                 \/ \E p \in Addresses \ {0}, n \in 0..MaxBlock : Realloc(b, p, n)
                 \/ \E i \in 0..(b.size - 1), c \in Marks : Store(b, i, c)
    \/ /\ MemInit
       /\ \/ \E s \in 0..3, n \in 0..MaxSet : MemsetCall(s, n)
          \/ \E d, s \in Addresses, n \in 0..MemSize : MemmoveCall(d, s, n)

MemSpec == MemInit /\ [][MemNext]_memVars

-----------------------------------------------------------------------------

(* memset() of string.c, with its overlapping head and tail stores and a   *)
(* loop cut to aligned words, stores to each byte of the range and to no   *)
(* other; memmove() gives the destination the bytes the source had,        *)
(* overlapping in either direction, its wrapping comparison included.      *)
BytesSetAndMoved ==
    /\ memCall.fun = "memset" => memCall.offsets = 0..(memCall.n - 1)
    /\ memCall.fun = "memmove" =>
           memCall.after = [a \in Addresses |->
                               IF a - memCall.d \in 0..(memCall.n - 1)
                               THEN a - memCall.d + memCall.s ELSE a]

(* The control word in front of a live block holds the size it was         *)
(* allocated with, so free() gives back exactly what malloc() took; an     *)
(* allocation call changes no byte of a block it does not return, and      *)
(* realloc() keeps the common prefix of the old and the new block.         *)
BlocksKept ==
    [][blocks' # blocks =>
         /\ \A b \in blocks' : SizeAt(bytes', b.ptr) = b.size
         /\ \A b \in blocks \cap blocks' : \A a \in Extent(b) : bytes'[a] = bytes[a]
         /\ Cardinality(blocks \ blocks') <= 1
         /\ \A b \in blocks \ blocks', c \in blocks' \ blocks :
                \A i \in 0..(b.size - 1) :
                    i < c.size => bytes'[c.ptr + i] = bytes[b.ptr + i]]_memVars

-----------------------------------------------------------------------------

(***************************************************************************)
(* setjmp() and longjmp() of axlibc, architecture by architecture: which   *)
(* register goes to which word of the jmp_buf and comes back from where.   *)
(* The program between the calls writes every register it is given.        *)
(***************************************************************************)

CONSTANTS JmpArchs, JmpBufs, JmpVals, MaxJmpSteps

VARIABLES
    jmpArch, jmpFp,  \* the build: architecture, feature fp_simd
    jmpRegs,         \* register -> value
    jmpBuf,          \* buffer -> word -> value
    jmpSaved,        \* buffer -> registers at its last setjmp(), or NotSet
    jmpLast,         \* what the last call was and gave
    jmpSteps

jmpVars == <<jmpArch, jmpFp, jmpRegs, jmpBuf, jmpSaved, jmpLast, jmpSteps>>

NotSet == <<>>

Bank2(n, lo, hi, at) == [r \in {<<n, i>> : i \in lo..hi} |-> at + r[2] - lo]
One(n, at) == <<n, 0>> :> at

A64Words(fp) == Bank2("x", 19, 30, 0) @@ One("sp", 13) @@ IF fp THEN Bank2("d", 8, 15, 14) ELSE <<>>
X86Words == One("rbx", 0) @@ One("rbp", 1) @@ Bank2("r", 12, 15, 2) @@ One("sp", 6) @@ One("pc", 7)
RvWords(fp) == Bank2("s", 0, 11, 0) @@ One("sp", 12) @@ One("ra", 13)
               @@ IF fp THEN Bank2("fs", 0, 11, 14) ELSE <<>>
LaWords(fp) == One("ra", 0) @@ One("sp", 1) @@ Bank2("s", 0, 8, 2) @@ One("fp", 11)
               @@ IF fp THEN Bank2("f", 24, 31, 13) ELSE <<>>

(* The words setjmp() stores and those longjmp() loads.                    *)
SetWords == CASE jmpArch = "aarch64" -> A64Words(jmpFp) [] jmpArch = "x86_64" -> X86Words
              [] jmpArch = "riscv64" -> RvWords(jmpFp) [] jmpArch = "loongarch64" -> LaWords(jmpFp)

LongWords == CASE jmpArch = "aarch64" -> A64Words(jmpFp) [] jmpArch = "x86_64" -> X86Words
               [] jmpArch = "riscv64" -> RvWords(jmpFp) [] jmpArch = "loongarch64" -> LaWords(jmpFp)

(* The length of __jmp_buf.                                                *)
JmpLen == CASE jmpArch = "aarch64" -> 22 [] jmpArch = "x86_64" -> 8
            [] jmpArch = "riscv64" -> 26 [] jmpArch = "loongarch64" -> 21

JmpInit ==
    /\ jmpArch \in JmpArchs
    /\ jmpFp \in IF jmpArch = "x86_64" THEN {FALSE} ELSE BOOLEAN
    /\ jmpRegs = [r \in DOMAIN SetWords |-> <<r, 0>>]
    /\ jmpBuf = [b \in JmpBufs |-> [k \in 0..(JmpLen - 1) |-> <<"unset">>]]
    /\ jmpSaved = [b \in JmpBufs |-> NotSet]
    /\ jmpLast = <<"none">>
    /\ jmpSteps = 0

SetJmp(b) ==
    /\ jmpSteps < MaxJmpSteps
    /\ jmpBuf' = [jmpBuf EXCEPT ![b] = [k \in DOMAIN @ |->
                     IF \E r \in DOMAIN SetWords : SetWords[r] = k
                     THEN jmpRegs[CHOOSE r \in DOMAIN SetWords : SetWords[r] = k] ELSE @[k]]]
    /\ jmpSaved' = [jmpSaved EXCEPT ![b] = jmpRegs]
    /\ jmpLast' = <<"setjmp", 0>>
    /\ jmpSteps' = jmpSteps + 1
    /\ UNCHANGED <<jmpArch, jmpFp, jmpRegs>>

(* The program goes on and uses its registers.                             *)
JmpCompute ==
    /\ jmpSteps < MaxJmpSteps
    /\ jmpSteps' = jmpSteps + 1
    /\ jmpRegs' = [r \in DOMAIN jmpRegs |-> <<r, jmpSteps'>>]
    /\ jmpLast' = <<"none">>
    /\ UNCHANGED <<jmpArch, jmpFp, jmpBuf, jmpSaved>>

(* On LoongArch the general registers are loaded relative to $a1, the      *)
(* value, not to $a0, the buffer.                                          *)
LongJmp(b, v) ==
    /\ jmpSaved[b] # NotSet
    /\ jmpSteps < MaxJmpSteps
    /\ jmpRegs' = [r \in DOMAIN jmpRegs |->
                      IF r \notin DOMAIN LongWords THEN jmpRegs[r]
                      ELSE IF jmpArch = "loongarch64" /\ r[1] # "f" THEN <<"at", v, LongWords[r]>>
                      ELSE jmpBuf[b][LongWords[r]]]
    /\ jmpLast' = <<"longjmp", IF v = 0 THEN 1 ELSE v, b, v>>
    /\ jmpSteps' = jmpSteps + 1
    /\ UNCHANGED <<jmpArch, jmpFp, jmpBuf, jmpSaved>>

JmpNext ==
    \/ \E b \in JmpBufs : SetJmp(b)
    \/ JmpCompute
    \/ \E b \in JmpBufs, v \in JmpVals : LongJmp(b, v)

JmpSpec == JmpInit /\ [][JmpNext]_jmpVars

(* longjmp() puts the program back where its buffer's last setjmp() was    *)
(* called: the stack pointer, the return address and every register the    *)
(* calling convention preserves are those of that call, and setjmp()       *)
(* seems to return the value, or 1 for 0.                                  *)
JumpReturns ==
    jmpLast[1] = "longjmp" =>
        /\ jmpRegs = jmpSaved[jmpLast[3]]
        /\ jmpLast[2] # 0 /\ (jmpLast[4] # 0 => jmpLast[2] = jmpLast[4])

=============================================================================
