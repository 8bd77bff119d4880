-------------------------------- MODULE Vfs --------------------------------
(***************************************************************************)
(* fs/vfs_simple.c, the filesystem kmain initialises: a table of open      *)
(* descriptors over one sample text, which every file reads as; writes     *)
(* only move the offset.                                                   *)
(***************************************************************************)
EXTENDS Integers, Sequences

CONSTANTS
    MAX_OPEN_FILES,  \* descriptors (16)
    Sample,          \* the text every file reads as (16 bytes)
    VfsCounts,       \* the counts reads and writes ask for
    VfsOffsets,      \* the offsets that are sought
    VfsWord          \* 2^32: offsets wrap at it

ASSUME VfsAssumption ==
    /\ MAX_OPEN_FILES \in Nat \ {0}
    /\ Sample \in Seq({Sample[i] : i \in DOMAIN Sample})
    /\ VfsWord \in Nat \ {0} /\ VfsOffsets \subseteq 0 .. VfsWord - 1
    /\ \A c \in VfsCounts : c \in Nat /\ c + Len(Sample) <= VfsWord   \* no read wraps

VARIABLES
    in_use, offset,  \* file_descriptors[fd]
    seen             \* what was read since the descriptor was opened, while nothing
                     \* but reads went through it; <<"moved">> afterwards

vfsVars == <<in_use, offset, seen>>

Fd == 0 .. MAX_OPEN_FILES - 1

VfsInit ==
    /\ in_use = {}
    /\ offset = [fd \in Fd |-> 0]
    /\ seen = [fd \in Fd |-> <<>>]

vfs_open_keeps_offset(fd) ==
    /\ fd \notin in_use /\ \A e \in 0 .. fd - 1 : e \in in_use
    /\ in_use' = in_use \cup {fd}
    /\ seen' = [seen EXCEPT ![fd] = <<>>]
    /\ UNCHANGED offset

(* fs_open takes the first free descriptor, whatever the path. *)
vfs_open(fd) ==
    /\ fd \notin in_use /\ \A e \in 0 .. fd - 1 : e \in in_use
    /\ in_use' = in_use \cup {fd}
    /\ offset' = [offset EXCEPT ![fd] = 0]
    /\ seen' = [seen EXCEPT ![fd] = <<>>]

vfs_close(fd) ==
    /\ fd \in in_use
    /\ in_use' = in_use \ {fd}
    /\ UNCHANGED <<offset, seen>>

vfs_seek(fd, to) ==
    /\ fd \in in_use
    /\ offset' = [offset EXCEPT ![fd] = to]
    /\ seen' = [seen EXCEPT ![fd] = <<"moved">>]
    /\ UNCHANGED in_use

(* How much fs_read copies: nothing at the end, never past it.  The sum is that of
   uint32_t, and right for the counts of the callers only. *)
ToRead(fd, count) ==
    IF offset[fd] >= Len(Sample) THEN 0
    ELSE IF (offset[fd] + count) % VfsWord > Len(Sample) THEN Len(Sample) - offset[fd]
    ELSE count

vfs_read(fd, count) ==
    LET n == ToRead(fd, count)
    IN  /\ fd \in in_use
        /\ offset' = [offset EXCEPT ![fd] = @ + n]
        /\ seen' = [seen EXCEPT ![fd] =
               IF @ = <<"moved">> THEN @
               ELSE @ \o [i \in 1 .. n |->
                            IF offset[fd] + i \in DOMAIN Sample THEN Sample[offset[fd] + i]
                            ELSE "beyond"]]
        /\ UNCHANGED in_use

(* "For now, just pretend to write" *)
vfs_write(fd, count) ==
    /\ fd \in in_use
    /\ offset' = [offset EXCEPT ![fd] = (@ + count) % VfsWord]
    /\ seen' = [seen EXCEPT ![fd] = <<"moved">>]
    /\ UNCHANGED in_use

VfsNext ==
    \E fd \in Fd :
        \/ vfs_open(fd) \/ vfs_close(fd)
        \/ \E to \in VfsOffsets : vfs_seek(fd, to)
        \/ \E count \in VfsCounts : vfs_read(fd, count) \/ vfs_write(fd, count)

VfsSpec == VfsInit /\ [][VfsNext]_vfsVars

-----------------------------------------------------------------------------
VfsTypeOK == in_use \subseteq Fd /\ offset \in [Fd -> 0 .. VfsWord - 1]

(* Reads deliver the text: what a fresh descriptor has read is the beginning of the
   sample up to its offset, in order, never anything beyond its end, although
   descriptors are reused with what earlier users left in them. *)
ReadsDeliverSample ==
    \A fd \in in_use : seen[fd] # <<"moved">> => seen[fd] = SubSeq(Sample, 1, offset[fd])
=============================================================================
