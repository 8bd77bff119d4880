\* Two slots of two bytes; a heap that has room for the table and the contents
\* unless other kernel code has taken it before.  Files of up to two blocks of two bytes, and
\* two descriptors for a text of three bytes.  A full heap or table stops.
SPECIFICATION StorageSpec
CONSTANTS
    HEAP_SIZE = 18
    WORD = 64
    Size = {0, 1, 3, 4, 6, 17}
    Num = {0, 2}
    Alignment = {1, 2, 8}
    MaxAllocs = 4
    MAX_FILES = 2
    MAX_FILE_SIZE = 2
    TableSize = 6
    Name = {"new", "newer"}
    RamKept <- MCRamKept
    Byte = {0, 1}
    Zero = 0
    Count = {0, 1, 2, 3}
    DefaultFiles <- OneDefault
    NULL = NULL
    NoFile = NoFile
    BLOCK_SIZE = 2
    FsBlocks = 7
    Metadata = 1
    FsMaxFiles = 4
    FileName = {"new", "newer"}
    FsKept <- MCFsKept
    Buffer <- MCBuffer
    MaxFileSize = 4
    MAX_OPEN_FILES = 2
    Sample <- MCSample
    VfsCounts = {1, 2, 5}
    VfsOffsets = {0, 2, 3, 7}
    VfsWord = 8
INVARIANTS
    StorageTypeOK
    InsideHeap
    AllocationsDisjoint
    FilesStayInSlots
    OnlySpillsOverlap
    ReadsDeliverSample
PROPERTIES
    ImplementsFileStore
    ImplementsAppendStore
CHECK_DEADLOCK FALSE
