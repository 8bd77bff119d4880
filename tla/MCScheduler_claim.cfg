\* Two creators: any thread may call process_create.
SPECIFICATION Spec
CONSTANTS
    MAX_PROCESSES = 4
    MaxThreads = 5
    Creators <- AnyThread
    NullEntry = FALSE
    MayExit <- UserSlots
PROPERTY CreateTakesFreeSlot
CHECK_DEADLOCK FALSE
