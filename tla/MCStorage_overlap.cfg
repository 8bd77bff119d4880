\* As MCStorage_run, for what the comment in fs_write says of the blocks of a file.
SPECIFICATION StorageSpec
CONSTANTS
    HEAP_SIZE = 18
    WORD = 64
    Size = {0, 1, 3, 4, 6, 17}
    Num = {0, 2}
    Alignment = {1, 2, 8}
    MaxAllocs = 4
    MAX_FILES = 2
    MAX_FILE_SIZE = 2
    TableSize = 6
    Name = {"new", "newer"}
    RamKept <- MCRamKept
    Byte = {0, 1}
    Zero = 0
    Count = {0, 1, 2, 3}
    DefaultFiles <- OneDefault
    NULL = NULL
    NoFile = NoFile
    BLOCK_SIZE = 2
    FsBlocks = 7
    Metadata = 1
    FsMaxFiles = 4
    FileName = {"new", "newer"}
    FsKept <- MCFsKept
    Buffer <- MCBuffer
    MaxFileSize = 4
    MAX_OPEN_FILES = 2
    Sample <- MCSample
    VfsCounts = {1, 2, 5}
    VfsOffsets = {0, 2, 3, 7}
    VfsWord = 8
INVARIANT FilesKeepApart
CHECK_DEADLOCK FALSE
