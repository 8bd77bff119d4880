\* A process in sys_read takes characters while the shell is inside keyboard_getchar.
SPECIFICATION KeySpec
CONSTANTS
    KB_BUFFER_SIZE = 4
    CharKeys = {"letter"}
    HeldKeys = {}
    LockKeys = {}
    Preempt = TRUE
    NoChar = NoChar
PROPERTY FetchFindsChar
