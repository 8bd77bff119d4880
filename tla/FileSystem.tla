----------------------------- MODULE FileSystem -----------------------------
(***************************************************************************)
(* fs/filesystem_enhanced.c: a table of files over a bitmap of blocks and  *)
(* an array of data.  The file index is the descriptor; data is appended.  *)
(*                                                                         *)
(* The filesystem is a record, and what a call makes of it an operator, so *)
(* that fs_init can be written with the same operators.  fs_close and      *)
(* fs_seek change nothing.  Descriptors are the ones fs_create and fs_open *)
(* return; no caller passes the negative ones fs_write would accept.       *)
(*                                                                         *)
(* given and spilled are no variables of the code: they remember which     *)
(* blocks alloc_block handed out for each file, and whether a write has    *)
(* ever put data into a block that was not among those of its file.        *)
(***************************************************************************)
EXTENDS Integers, Sequences, FiniteSets

CONSTANTS
    BLOCK_SIZE,   \* bytes of a block (512)
    FsBlocks,     \* blocks of the filesystem, FS_SIZE / BLOCK_SIZE (2048)
    Metadata,     \* blocks fs_init reserves (4)
    FsMaxFiles,   \* entries of the file table, MAX_FILES (64)
    FileName,     \* the names that are used besides those of fs_init
    FsKept,       \* by name, what strncpy keeps of it (255 characters)
    Buffer,       \* what is written: nonempty sequences of bytes
    MaxFileSize   \* bound on the size of a file, below the width of uint32_t

AllNames == FileName \cup {"/", "test.txt", "welcome.txt"}

ASSUME FileSystemAssumption ==
    /\ {BLOCK_SIZE, FsBlocks, Metadata, FsMaxFiles} \subseteq Nat \ {0}
    /\ FsBlocks >= Metadata + 5 /\ FsMaxFiles >= 3   \* room for the files of fs_init
    /\ \A buf \in Buffer : buf # <<>> /\ buf \in Seq({buf[i] : i \in DOMAIN buf})
    /\ MaxFileSize \in Nat
    /\ FsKept \in [AllNames -> AllNames]
    /\ \A name \in {"/", "test.txt", "welcome.txt"} : FsKept[name] = name

VARIABLES
    fs,        \* the bitmap as the set of used blocks, the files in order, the data
    given,     \* for each file, the blocks it was given
    spilled    \* some file has data in a block it was not given

filesystemVars == <<fs, given, spilled>>

Blocks(size) == (size + BLOCK_SIZE - 1) \div BLOCK_SIZE

FreeBlocks(f) == (0 .. FsBlocks - 1) \ f.bitmap

(* alloc_block called k times takes the lowest free blocks, all if there are fewer. *)
Lowest(f, k) ==
    {b \in FreeBlocks(f) : Cardinality({c \in FreeBlocks(f) : c < b}) < k}

(* find_file: the first entry with the name, if there is one. *)
Named(f, name) == {i \in DOMAIN f.files : f.files[i].name = name}
FirstNamed(f, name) == {i \in Named(f, name) : \A j \in Named(f, name) : i <= j}

(* fs_create; the entry is filled in before the block is found missing, but not counted.
   The name is compared whole and stored cut: a long one can be created again. *)
CanCreate(f, name) ==
    /\ Len(f.files) < FsMaxFiles
    /\ Named(f, name) = {}
    /\ FreeBlocks(f) # {}

Created(f, name) ==
    [f EXCEPT !.bitmap = @ \cup Lowest(f, 1),
              !.files = Append(@, [name |-> name, size |-> 0,
                                   start |-> CHOOSE b \in Lowest(f, 1) : TRUE])]

(* The blocks fs_write asks for: also the first write to a file asks for one. *)
Wanted(f, i, buf) == Blocks(f.files[i].size + Len(buf)) - Blocks(f.files[i].size)

Claimed(f, i, buf) == [f EXCEPT !.bitmap = @ \cup Lowest(f, Wanted(f, i, buf))]

Position_from_start(f, i) == f.files[i].start * BLOCK_SIZE
Position(f, i) == f.files[i].start * BLOCK_SIZE + f.files[i].size

(* memcpy behind the file's data, in the blocks after start_block whoever has them. *)
Stored(f, i, buf) ==
    [f EXCEPT !.data = [k \in DOMAIN @ |-> IF k - Position(f, i) \in 0 .. Len(buf) - 1
                                           THEN buf[k - Position(f, i) + 1] ELSE @[k]],
              !.files[i].size = @ + Len(buf)]

(* fs_write: out of space, it keeps the blocks it got and writes nothing. *)
FsWritten(f, i, buf) ==
    IF Cardinality(FreeBlocks(f)) < Wanted(f, i, buf)
    THEN Claimed(f, i, buf)
    ELSE Stored(Claimed(f, i, buf), i, buf)

Empty == [bitmap |-> 0 .. Metadata - 1, files |-> <<>>,
          data |-> [k \in 0 .. FsBlocks * BLOCK_SIZE - 1 |-> "zero"]]

(* fs_init: the root directory and the two test files. *)
FsInit ==
    /\ fs = LET root == Created(Empty, "/")
                test == FsWritten(Created(root, "test.txt"), 2, <<"t">>)
            IN  FsWritten(Created(test, "welcome.txt"), 3, <<"w">>)
    /\ given = <<{Metadata}, {Metadata + 1, Metadata + 2}, {Metadata + 3, Metadata + 4}>>
    /\ spilled = FALSE

(* Also fs_open of a file that does not exist, with FILE_CREATE. *)
fs_create(name) ==
    /\ CanCreate(fs, name)
    /\ fs' = Created(fs, FsKept[name])
    /\ given' = Append(given, Lowest(fs, 1))
    /\ UNCHANGED spilled

Released_one_more(f, i) == f.files[i].start .. f.files[i].start + Blocks(f.files[i].size)
Released(f, i) == f.files[i].start .. f.files[i].start + Blocks(f.files[i].size) - 1

Without(seq, i) == SubSeq(seq, 1, i - 1) \o SubSeq(seq, i + 1, Len(seq))

Deleted(f, i) == [f EXCEPT !.bitmap = @ \ Released(f, i), !.files = Without(@, i)]

fs_delete(name) ==
    \E i \in FirstNamed(fs, name) :
        /\ fs' = Deleted(fs, i)
        /\ given' = Without(given, i)
        /\ UNCHANGED spilled

(* The blocks file i has data in, or will have with its first byte. *)
Extent(f, i) ==
    f.files[i].start ..
        f.files[i].start + (IF f.files[i].size = 0 THEN 0 ELSE Blocks(f.files[i].size) - 1)

fs_write(i, buf) ==
    /\ i \in DOMAIN fs.files
    /\ fs.files[i].size + Len(buf) <= MaxFileSize
    /\ fs' = FsWritten(fs, i, buf)
    /\ given' = [given EXCEPT ![i] = @ \cup Lowest(fs, Wanted(fs, i, buf))]
    /\ spilled' = (spilled \/ ~(Extent(fs', i) \subseteq given'[i]))

FsNext ==
    \/ \E name \in AllNames : fs_create(name) \/ fs_delete(name)
    \/ \E i \in 1 .. FsMaxFiles, buf \in Buffer : fs_write(i, buf)

FsSpec == FsInit /\ [][FsNext]_filesystemVars

-----------------------------------------------------------------------------
FsTypeOK ==
    /\ fs.bitmap \subseteq 0 .. FsBlocks - 1
    /\ Len(fs.files) <= FsMaxFiles
    /\ \A i \in DOMAIN fs.files : fs.files[i].start \in Metadata .. FsBlocks - 1

(* Files keep apart: no block belongs to two files, and the blocks of a file are
   marked as used, so that nobody else is given them ("Allocate more blocks
   (simplified - just allocate sequentially)"). *)
FilesKeepApart ==
    /\ \A i, j \in DOMAIN fs.files : i # j => Extent(fs, i) \cap Extent(fs, j) = {}
    /\ \A i \in DOMAIN fs.files : Extent(fs, i) \subseteq fs.bitmap

(* Files can meet only through a write past the blocks its own file was given.  Files of
   several blocks, blocks claimed by writes that failed or never used, deletions that
   free some of a file's blocks, and two files of one name do not bring them together. *)
OnlySpillsOverlap == spilled \/ FilesKeepApart

(* fs_read of a whole file. *)
FsContents(i) ==
    [k \in 1 .. fs.files[i].size |-> fs.data[fs.files[i].start * BLOCK_SIZE + k - 1]]

FsFiles ==
    [i \in 1 .. Len(fs.files) |-> [name |-> fs.files[i].name, contents |-> FsContents(i)]]

FsStore == INSTANCE AppendStore
             WITH FileName <- AllNames, Kept <- FsKept, files <- FsFiles

(* Up to the first spill the files are an append store: creating, deleting, extending
   over several blocks and running out of space change no other file. *)
ImplementsAppendStore == [][spilled' \/ FsStore!Next]_FsFiles
=============================================================================
