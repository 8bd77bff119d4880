---------------------------- MODULE AppendStore ----------------------------
(***************************************************************************)
(* What the filesystem of fs/filesystem_enhanced.c promises: files in the  *)
(* order of their creation, found by name, created empty, extended at the  *)
(* end and deleted, each with its own contents.  A name is kept cut to the *)
(* size of its field.                                                      *)
(***************************************************************************)
EXTENDS Integers, Sequences

CONSTANTS FileName, Kept, Buffer

VARIABLE files   \* names and contents

Create(n) ==
    /\ \A i \in DOMAIN files : files[i].name # n
    /\ files' = Append(files, [name |-> Kept[n], contents |-> <<>>])

(* The first file of the name. *)
Delete(i) ==
    /\ \A j \in 1 .. i - 1 : files[j].name # files[i].name
    /\ files' = SubSeq(files, 1, i - 1) \o SubSeq(files, i + 1, Len(files))

Extend(i, buf) ==
    files' = [files EXCEPT ![i] = [name |-> files[i].name,
                                   contents |-> files[i].contents \o buf]]

Next ==
    \/ \E n \in FileName : Create(n)
    \/ \E i \in DOMAIN files : Delete(i) \/ \E buf \in Buffer : Extend(i, buf)
=============================================================================
