\* Three slots, four programs started, two segments at most, sizes that wrap around; the
\* shell never exits. The system stops when a tick loses the CPU inside process_create.
SPECIFICATION KernelSpec
CONSTANTS
    MAX_PROCESSES = 3
    MaxThreads = 5
    Creators <- OnlyKernel
    NullEntry = FALSE
    MayExit <- UserSlots
    MAX_PROGRAM_SIZE = 12
    WordUnits = 2
    PageUnits = 4
    StackUnits = 2
    HeaderUnits = {3}
    SegmentUnits = {1, 7, 31}
    MaxSegments = 2
    ProgramWord = 32
INVARIANTS
    UsedSlotsBelowNextPid
    ReadyHasContext
    ExitNeverReturns
    LoadKeepsApart
    IrqsAreExpected
PROPERTIES
    LiveThreadsKept
    ReadyEventuallyRuns
    KeyEventuallyRead
CHECK_DEADLOCK FALSE
