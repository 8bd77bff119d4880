----------------------------- MODULE FileStore -----------------------------
(***************************************************************************)
(* What the RAM filesystem promises: an inode has at most one file, which  *)
(* is a sequence of at most MaxSize bytes under a name, a name that some   *)
(* file has is not given to another, and an operation on one file leaves   *)
(* the others as they are.  A name is kept cut to the size of its field.   *)
(***************************************************************************)
EXTENDS Naturals, Sequences

CONSTANTS Inode, Name, Kept, Byte, MaxSize, NoFile, Zero

VARIABLE contents   \* by inode

Init == contents = [i \in Inode |-> NoFile]

(* s with count bytes b from offset on; bytes never written are zero. *)
Overwrite(s, offset, count, b) ==
    LET end == offset + count
    IN  [i \in 1 .. (IF end > Len(s) THEN end ELSE Len(s)) |->
            IF i \in offset + 1 .. end THEN b
            ELSE IF i <= Len(s) THEN s[i] ELSE Zero]

(* The files a fresh filesystem starts with. *)
Mount ==
    /\ contents = [i \in Inode |-> NoFile]
    /\ contents' # contents
    /\ \A i \in Inode : contents'[i] # NoFile => Len(contents'[i].bytes) <= MaxSize

Create(i, n, size, b) ==
    /\ contents[i] = NoFile
    /\ \A j \in Inode : contents[j] # NoFile => contents[j].name # n
    /\ contents' = [contents EXCEPT ![i] =
                        [name |-> Kept[n], bytes |-> Overwrite(<<>>, 0, size, b)]]

Write(i, offset, count, b) ==
    /\ contents[i] # NoFile
    /\ contents' = [contents EXCEPT ![i] =
                        [name |-> contents[i].name,
                         bytes |-> Overwrite(contents[i].bytes, offset, count, b)]]

Next ==
    \/ Mount
    \/ \E i \in Inode, n \in Name, size \in 0 .. MaxSize, b \in Byte : Create(i, n, size, b)
    \/ \E i \in Inode, offset \in 0 .. MaxSize, b \in Byte :
          \E count \in 0 .. MaxSize - offset : Write(i, offset, count, b)
=============================================================================
