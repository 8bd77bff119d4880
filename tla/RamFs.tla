------------------------------- MODULE RamFs -------------------------------
(***************************************************************************)
(* The RAM filesystem of fs/ramfs.c on the kernel heap.  ramfs_init        *)
(* allocates the table of files and then the area of their contents, in    *)
(* which slot i owns the MAX_FILE_SIZE bytes from i * MAX_FILE_SIZE on;    *)
(* other kernel code allocates from the same heap.                         *)
(*                                                                         *)
(* A file is never removed.  A buffer passed to ramfs_create_file or       *)
(* ramfs_write holds copies of one byte, its value being all that a reader *)
(* can tell.  An operation that fails changes nothing.                     *)
(***************************************************************************)
EXTENDS Heap

CONSTANTS
    MAX_FILES,       \* slots of the table (64)
    MAX_FILE_SIZE,   \* bytes of each slot (4096)
    TableSize,       \* sizeof(ramfs_t) (17416)
    Name, Byte,      \* names and values of bytes
    RamKept,         \* by name, what strncpy keeps of it (MAX_FILENAME_LEN - 1 characters)
    Zero,            \* the byte 0: the heap is a static array
    Count,           \* the byte counts passed to ramfs_write
    DefaultFiles,    \* the names that ramfs_init creates, in order
    NULL, NoFile

ASSUME RamFsAssumption ==
    /\ MAX_FILES \in Nat \ {0} /\ MAX_FILE_SIZE \in Nat \ {0}
    /\ {TableSize, MAX_FILES * MAX_FILE_SIZE} \subseteq Size
    /\ Zero \in Byte
    /\ Count \subseteq 0 .. WORD - 1
    /\ RamKept \in [Name -> Name]
    /\ DefaultFiles \in Seq(Name) /\ Len(DefaultFiles) <= MAX_FILES
    /\ \A i, j \in 1 .. Len(DefaultFiles) : DefaultFiles[i] = DefaultFiles[j] => i = j
    /\ \A i \in 1 .. Len(DefaultFiles) : RamKept[DefaultFiles[i]] = DefaultFiles[i]
    /\ NULL \notin Name

VARIABLES
    ramfs,      \* the table has been allocated
    file_data,  \* where the contents are in the heap, or NULL
    mounting,   \* ramfs_init is between its two allocations
    files,      \* the table: name (NULL in a free slot) and size of each file
    bytes,      \* the contents area, by slot
    smashed     \* somebody wrote outside the contents of a file

fsVars == <<ramfs, file_data, mounting, files, bytes, smashed>>
vars == <<heapVars, fsVars>>

Slot == 0 .. MAX_FILES - 1
Offset == 0 .. MAX_FILE_SIZE - 1
FreeSlot == [name |-> NULL, size |-> 0]

Init ==
    /\ HeapInit
    /\ ramfs = FALSE /\ file_data = NULL /\ mounting = FALSE
    /\ files = [i \in Slot |-> FreeSlot]
    /\ bytes = [i \in Slot |-> [o \in Offset |-> Zero]]
    /\ smashed = FALSE

Idle == ~mounting /\ ~smashed

(* Other kernel code uses the heap. *)
allocate ==
    /\ Idle
    /\ HeapNext
    /\ UNCHANGED fsVars

(* ramfs_init allocates the table; it does nothing when there is one already. *)
ramfs_init ==
    /\ Idle
    /\ ~ramfs
    /\ kmalloc(TableSize)
    /\ ramfs' = TRUE
    /\ mounting' = TRUE
    /\ UNCHANGED <<file_data, files, bytes, smashed>>

(* It allocates the contents and creates the default files ... *)
ramfs_init_data ==
    /\ mounting
    /\ kmalloc(MAX_FILES * MAX_FILE_SIZE)
    /\ file_data' = heap_pos
    /\ mounting' = FALSE
    /\ \E b \in Byte :
          /\ files' = [i \in Slot |->
                IF i < Len(DefaultFiles) THEN [name |-> DefaultFiles[i + 1], size |-> 1]
                ELSE FreeSlot]
          /\ bytes' = [i \in Slot |->
                IF i < Len(DefaultFiles) THEN [bytes[i] EXCEPT ![0] = b] ELSE bytes[i]]
    /\ UNCHANGED <<ramfs, smashed>>

(* ... or finds no room for them, and leaves the table behind. *)
ramfs_init_fails ==
    /\ mounting
    /\ ~Fits(heap_pos, MAX_FILES * MAX_FILE_SIZE)
    /\ mounting' = FALSE
    /\ UNCHANGED <<heapVars, ramfs, file_data, files, bytes, smashed>>

-----------------------------------------------------------------------------
(* ramfs_find_file finds one. *)
Exists(name) == \E i \in Slot : files[i].name = name

(* ramfs_find_free_slot *)
FirstFree(i) == files[i].name = NULL /\ \A j \in 0 .. i - 1 : files[j].name # NULL

(* Copying count bytes b to offset of slot i: bytes outside of the slot, and any
   byte when there is no contents area, belong to somebody else. *)
Copy(i, offset, count, b) ==
    /\ bytes' = [bytes EXCEPT ![i] =
                    [o \in Offset |-> IF offset <= o /\ o < offset + count THEN b ELSE @[o]]]
    /\ smashed' = (count > 0 /\ (file_data = NULL \/ offset + count > MAX_FILE_SIZE))

(* ramfs_create_file, with or without data; ramfs_open with O_CREAT creates an
   empty file.  The name is looked up whole and stored cut. *)
ramfs_create_file(name, size, b) ==
    /\ Idle /\ ramfs
    /\ size <= MAX_FILE_SIZE
    /\ ~Exists(name)
    /\ \E i \in Slot :
          /\ FirstFree(i)
          /\ files' = [files EXCEPT ![i] = [name |-> RamKept[name], size |-> size]]
          /\ Copy(i, 0, size, b)
    /\ UNCHANGED <<heapVars, ramfs, file_data, mounting>>

Written_unclamped(offset, count) == count

(* The bytes ramfs_write copies; the sum is that of uint32_t. *)
Written(offset, count) ==
    IF Plus(offset, count) > MAX_FILE_SIZE THEN MAX_FILE_SIZE - offset ELSE count

Grown_always(size, end) == end
Grown(size, end) == IF end > size THEN end ELSE size

(* ramfs_write to inode i + 1. *)
ramfs_write(i, offset, count, b) ==
    /\ Idle /\ ramfs
    /\ files[i].name # NULL
    /\ Copy(i, offset, Written(offset, count), b)
    /\ files' = [files EXCEPT ![i].size = Grown(@, Plus(offset, Written(offset, count)))]
    /\ UNCHANGED <<heapVars, ramfs, file_data, mounting>>

Next ==
    \/ allocate
    \/ ramfs_init \/ ramfs_init_data \/ ramfs_init_fails
    \/ \E name \in Name, size \in 0 .. MAX_FILE_SIZE, b \in Byte :
          ramfs_create_file(name, size, b)
    \/ \E i \in Slot, offset \in Offset, count \in Count, b \in Byte :
          ramfs_write(i, offset, count, b)

Spec == Init /\ [][Next]_vars

-----------------------------------------------------------------------------
TypeOK ==
    /\ HeapTypeOK
    /\ ramfs \in BOOLEAN /\ mounting \in BOOLEAN /\ smashed \in BOOLEAN
    /\ file_data \in 0 .. HEAP_SIZE \cup {NULL}
    /\ files \in [Slot -> [name : Name \cup {NULL}, size : 0 .. MAX_FILE_SIZE]]
    /\ bytes \in [Slot -> [Offset -> Byte]]

(* The files by inode, with their bytes as ramfs_read of all of them returns them. *)
Contents ==
    [i \in Slot |->
        IF files[i].name = NULL THEN NoFile
        ELSE [name |-> files[i].name, bytes |-> [k \in 1 .. files[i].size |-> bytes[i][k - 1]]]]

Store == INSTANCE FileStore
           WITH Inode <- Slot, Kept <- RamKept, MaxSize <- MAX_FILE_SIZE, contents <- Contents

(* As long as nobody wrote outside a file the table and the contents area implement
   a store of files: a write to one file changes no other, also when two have the same
   cut name, a second file of a name is refused, and a write past the end reads back as
   zeros before it. *)
ImplementsFileStore == Store!Init /\ [][smashed' \/ Store!Next]_Contents

(* A filesystem whose area of contents exists is never written outside of it. *)
FilesStayInSlots == file_data # NULL => ~smashed

(* ramfs_init takes a table for an initialised filesystem ("RAMFS already
   initialized"): whenever the table is there, the contents are too. *)
TableMeansReady == ramfs /\ ~mounting => file_data # NULL
=============================================================================
