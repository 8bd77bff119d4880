----------------------------- MODULE ByteStream -----------------------------
(***************************************************************************)
(* What the character device of drivers/char_device.c promises: a stream   *)
(* of at most Capacity bytes; a write appends as much of its buffer as     *)
(* fits, a read takes the oldest bytes, and opening or clearing empties    *)
(* the stream.                                                             *)
(***************************************************************************)
EXTENDS Naturals, Sequences

CONSTANTS Byte, Capacity, MaxTransfer

VARIABLES
    stream,  \* the bytes written and not yet read
    out      \* what the last read returned

Init == stream = <<>> /\ out = <<>>

Shorter(m, n) == IF m < n THEN m ELSE n

Write(buf) ==
    /\ stream' = stream \o SubSeq(buf, 1, Shorter(Len(buf), Capacity - Len(stream)))
    /\ UNCHANGED out

Read(size) ==
    LET n == Shorter(size, Len(stream))
    IN  /\ out' = SubSeq(stream, 1, n)
        /\ stream' = SubSeq(stream, n + 1, Len(stream))

Clear == stream' = <<>> /\ UNCHANGED out

Buffers == UNION {[1 .. n -> Byte] : n \in 0 .. MaxTransfer}

Next ==
    \/ \E buf \in Buffers : Write(buf)
    \/ \E size \in 0 .. MaxTransfer : Read(size)
    \/ Clear

Spec == Init /\ [][Next]_<<stream, out>>
=============================================================================
