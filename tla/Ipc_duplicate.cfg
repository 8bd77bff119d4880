\* Two sends with a receive between them.
SPECIFICATION IpcSpec
CONSTANTS
    MAX_MESSAGES = 3
    Pid = {0, 1}
    MaxSends = 3
INVARIANT NoDuplicateDelivery
CHECK_DEADLOCK FALSE
