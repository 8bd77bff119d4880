\* process_create can be interrupted, with and without an entry point; any process may exit. The system stops when the CPU is lost.
SPECIFICATION Spec
CONSTANTS
    MAX_PROCESSES = 3
    MaxThreads = 3
    Creators <- AnyThread
    NullEntry = TRUE
    MayExit <- AllSlots
INVARIANTS
    TypeOK
    RunningIsCurrent
    OneHomePerThread
CHECK_DEADLOCK FALSE
