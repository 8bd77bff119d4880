\* Rings of three or four slots, sends and transfers enough to go around them.
\* The message queue stops at MaxSends.
SPECIFICATION QueuesSpec
CONSTANTS
    MAX_PACKETS = 3
    NET_BUFFER_SIZE = 1514
    Ip = {a1, a2}
    Type <- MCType
    Length <- MCLength
    Payload = {x}
    NULL = NULL
    KB_BUFFER_SIZE = 3
    CharKeys = {"letter", "accent"}
    HeldKeys = {"lshift", "rshift"}
    LockKeys = {"caps"}
    Preempt = FALSE
    NoChar = NoChar
    MAX_MESSAGES = 3
    Pid = {0, 1}
    MaxSends = 5
    CHAR_BUFFER_SIZE = 3
    Byte = {1, 2}
    MaxTransfer = 2
    BLOCK_SIZE = 2
    PageBlocks = 2
    NUM_BLOCKS = 4
    BlockTransfer = {1, 5, 15}
    IoWord = 16
INVARIANTS
    QueuesTypeOK
    TailFollowsHead
    TailDrifts
    NoPhantomMessage
PROPERTIES
    ImplementsFifo
    KeysImplementFifo
    ImplementsStream
CHECK_DEADLOCK FALSE
