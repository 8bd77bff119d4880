----------------------------- MODULE MCStorage -----------------------------
(***************************************************************************)
(* The filesystems for TLC: the RAM filesystem on the kernel heap, the     *)
(* block filesystem and the descriptors of the virtual filesystem.  They   *)
(* share no state: one of them runs while the others rest (see MCQueues).  *)
(***************************************************************************)
EXTENDS RamFs, FileSystem, Vfs

OneDefault == <<"new">>
MCSample == <<"h", "e", "l">>
MCBuffer == {<<"a", "b">>}

(* Short names and one that is cut. *)
MCRamKept == [name \in {"new", "newer"} |-> "new"]

MCFsKept == [name \in {"/", "test.txt", "welcome.txt", "new", "newer"} |->
                IF name = "newer" THEN "new" ELSE name]

StorageInit == Init /\ FsInit /\ VfsInit

ramfs_steps == FsInit /\ VfsInit /\ Next /\ UNCHANGED <<filesystemVars, vfsVars>>

filesystem_steps == Init /\ VfsInit /\ FsNext /\ UNCHANGED <<vars, vfsVars>>

vfs_steps == Init /\ FsInit /\ VfsNext /\ UNCHANGED <<vars, filesystemVars>>

StorageNext == ramfs_steps \/ filesystem_steps \/ vfs_steps

StorageSpec == StorageInit /\ [][StorageNext]_<<vars, filesystemVars, vfsVars>>

(* The heap position, the file table, the bitmap and the descriptors stay in their
   ranges. *)
StorageTypeOK == TypeOK /\ FsTypeOK /\ VfsTypeOK
=============================================================================
