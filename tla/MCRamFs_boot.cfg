\* The proportions of the code, in KB: a heap of 32, a table of 17, 64 files of 4.
SPECIFICATION Spec
CONSTANTS
    HEAP_SIZE = 32
    WORD = 4194304
    Size = {17, 256}
    Num = {}
    Alignment = {}
    MaxAllocs = 2
    MAX_FILES = 64
    MAX_FILE_SIZE = 4
    TableSize = 17
    Name = {"hello"}
    RamKept <- MCRamKept
    Byte = {0}
    Zero = 0
    Count = {1}
    DefaultFiles <- OneDefault
    NULL = NULL
    NoFile = NoFile
INVARIANT TableMeansReady
CHECK_DEADLOCK FALSE
