----------------------------- MODULE ByteDevice -----------------------------
(***************************************************************************)
(* What a file system asks of a disk with a cursor: an array of bytes, and *)
(* calls that move some bytes at the cursor at a time, advance it by as    *)
(* many, and return when their whole buffer has been moved or when the     *)
(* cursor is past the last byte.                                           *)
(***************************************************************************)
EXTENDS Integers, Sequences

CONSTANTS Size, Bytes

VARIABLES bytes,  \* bytes[i]: the i-th byte of the device
          cursor,
          mode,   \* "idle", or the call under way
          buf,    \* what is left of its buffer: bytes to write, or room to read into
          got     \* bytes the call has read

devVars == <<bytes, cursor, mode, buf, got>>

Init == /\ bytes \in [0..(Size - 1) -> Bytes] /\ cursor = 0
        /\ mode = "idle" /\ buf = <<>> /\ got = <<>>

Seek == /\ mode = "idle" /\ cursor' \in Nat
        /\ UNCHANGED <<bytes, mode, buf, got>>

Start == /\ mode = "idle" /\ mode' \in {"read", "write"} /\ buf' \in Seq(Bytes) /\ got' = <<>>
         /\ UNCHANGED <<bytes, cursor>>

Move == \E n \in 1..Len(buf) :
    /\ cursor + n <= Size
    /\ cursor' = cursor + n /\ buf' = SubSeq(buf, n + 1, Len(buf))
    /\ \/ /\ mode = "read"
          /\ got' = got \o [i \in 1..n |-> bytes[cursor + i - 1]]
          /\ UNCHANGED bytes
       \/ /\ mode = "write"
          /\ bytes' = [i \in DOMAIN bytes |->
                IF i \in cursor..(cursor + n - 1) THEN buf[i - cursor + 1] ELSE bytes[i]]
          /\ UNCHANGED got
    /\ UNCHANGED mode

Return == /\ mode # "idle" /\ (buf = <<>> \/ cursor >= Size)
          /\ mode' = "idle" /\ buf' = <<>>
          /\ UNCHANGED <<bytes, cursor, got>>

\* A block may be replaced as a whole, without the cursor.
PutBlock == mode = "idle" /\ UNCHANGED <<cursor, mode, buf, got>>
            /\ bytes' \in [0..(Size - 1) -> Bytes]

Next == Seek \/ Start \/ Move \/ Return \/ PutBlock

Spec == Init /\ [][Next]_devVars
=============================================================================
