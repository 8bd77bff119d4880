\* The kernel thread is the only creator: READY is stored before the context.
SPECIFICATION Spec
CONSTANTS
    MAX_PROCESSES = 3
    MaxThreads = 4
    Creators <- OnlyKernel
    NullEntry = FALSE
    MayExit <- UserSlots
INVARIANT CpuNeverLost
CHECK_DEADLOCK FALSE
