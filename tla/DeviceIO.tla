------------------------------ MODULE DeviceIO ------------------------------
(***************************************************************************)
(* Device calls through the registry (device_open ... device_ioctl of      *)
(* kernel/device.c and their system calls) into the character device of    *)
(* drivers/char_device.c and the block device of drivers/block_device.c.   *)
(*                                                                         *)
(* The registry is taken at its contract (module Devices): a call under a  *)
(* name that is not registered fails and changes nothing.  A system call   *)
(* runs with interrupts off, so every call is one step.                    *)
(***************************************************************************)
EXTENDS Integers, Sequences

CONSTANTS
    CHAR_BUFFER_SIZE,  \* bytes of the character device (1024)
    Byte,              \* the bytes that are written
    MaxTransfer,       \* bound on the size of a read or write of the character device
    BLOCK_SIZE,        \* bytes of a block (512)
    PageBlocks,        \* PAGE_SIZE / BLOCK_SIZE: blocks in a page (8)
    NUM_BLOCKS,        \* blocks the device claims to have (1024)
    BlockTransfer,     \* the sizes of reads and writes of the block device
    IoWord             \* 2^32: where a uint32_t wraps

ASSUME DeviceIOAssumption ==
    /\ {CHAR_BUFFER_SIZE, BLOCK_SIZE, PageBlocks, NUM_BLOCKS} \subseteq Nat \ {0}
    /\ MaxTransfer \in Nat
    /\ IoWord \in Nat /\ IoWord > BLOCK_SIZE * NUM_BLOCKS
    /\ BlockTransfer \subseteq 0 .. IoWord - 1

VARIABLES
    registered,        \* the names device_find finds
    char_buffer, char_read_pos, char_write_pos, char_count,
    char_got,          \* what the last char_read returned
    block_open,        \* block_dev.data is allocated
    block_count, current_block,
    block_moved        \* the bytes the last block_read or block_write went over

charVars == <<char_buffer, char_read_pos, char_write_pos, char_count, char_got>>
blockVars == <<block_open, block_count, current_block, block_moved>>
ioVars == <<registered, charVars, blockVars>>

DEVICE_SIZE == BLOCK_SIZE * NUM_BLOCKS
PAGE_SIZE == BLOCK_SIZE * PageBlocks
CharIndex == 0 .. CHAR_BUFFER_SIZE - 1

IoInit ==
    /\ registered = {}
    /\ char_buffer = [i \in CharIndex |-> 0]
    /\ char_read_pos = 0 /\ char_write_pos = 0 /\ char_count = 0
    /\ char_got = <<>>
    /\ block_open = FALSE /\ block_count = 0 /\ current_block = 0
    /\ block_moved = 0

Lesser(m, n) == IF m < n THEN m ELSE n

(* device_find succeeds. *)
Device(name) == name \in registered

-----------------------------------------------------------------------------
CharReset ==
    /\ char_read_pos' = 0 /\ char_write_pos' = 0 /\ char_count' = 0
    /\ UNCHANGED <<char_buffer, char_got>>

(* The registration may fail for want of a page, after the device was reset. *)
char_device_init ==
    /\ CharReset
    /\ registered' \in {registered, registered \cup {"char0"}}
    /\ UNCHANGED blockVars

(* char_open and char_ioctl(0) do the same. *)
char_clear ==
    /\ Device("char0")
    /\ CharReset
    /\ UNCHANGED <<registered, blockVars>>

CharPos_past_the_end(pos, n) == pos + n
CharPos(pos, n) == (pos + n) % CHAR_BUFFER_SIZE

char_read(size) ==
    LET n == Lesser(size, char_count)
    IN  /\ Device("char0")
        /\ char_got' = [i \in 1 .. n |-> char_buffer[CharPos(char_read_pos, i - 1)]]
        /\ char_read_pos' = CharPos(char_read_pos, n)
        /\ char_count' = char_count - n
        /\ UNCHANGED <<char_buffer, char_write_pos, registered, blockVars>>

CharRoom_one_more == CHAR_BUFFER_SIZE + 1 - char_count
CharRoom == CHAR_BUFFER_SIZE - char_count

(* The i-th byte of buf goes to the i-th position from write_pos on. *)
char_write(buf) ==
    LET n == Lesser(Len(buf), CharRoom)
    IN  /\ Device("char0")
        /\ char_buffer' = [k \in CharIndex |->
              IF \E i \in 1 .. n : CharPos(char_write_pos, i - 1) = k
              THEN buf[CHOOSE i \in 1 .. n : CharPos(char_write_pos, i - 1) = k]
              ELSE char_buffer[k]]
        /\ char_write_pos' = CharPos(char_write_pos, n)
        /\ char_count' = char_count + n
        /\ UNCHANGED <<char_read_pos, char_got, registered, blockVars>>

-----------------------------------------------------------------------------
block_device_init ==
    /\ block_open' = FALSE /\ block_count' = 0 /\ current_block' = 0
    /\ UNCHANGED block_moved
    /\ registered' \in {registered, registered \cup {"block0"}}
    /\ UNCHANGED charVars

(* The first open allocates one page; there is nothing to do for the later ones. *)
block_open_device ==
    /\ Device("block0")
    /\ ~block_open
    /\ block_open' = TRUE
    /\ block_count' = IF DEVICE_SIZE > PAGE_SIZE THEN PageBlocks ELSE NUM_BLOCKS
    /\ current_block' = 0
    /\ UNCHANGED <<block_moved, registered, charVars>>

(* Before the device is opened block_count is 0 and no block can be set. *)
block_ioctl_set(block) ==
    /\ Device("block0")
    /\ block < block_count
    /\ current_block' = block
    /\ UNCHANGED <<block_open, block_count, block_moved, registered, charVars>>

(* block_read and block_write: how many bytes memcpy goes over from the selected
   block on.  The test takes the sum in a uint32_t, so a size that makes it wrap
   passes uncut; and it knows DEVICE_SIZE only, not the one page there is. *)
block_transfer(size) ==
    LET offset == current_block * BLOCK_SIZE
    IN  /\ Device("block0")
        /\ block_open
        /\ block_moved' = IF (offset + size) % IoWord > DEVICE_SIZE THEN DEVICE_SIZE - offset
                          ELSE size
        /\ UNCHANGED <<block_open, block_count, current_block, registered, charVars>>

device_unregister(name) ==
    /\ Device(name)
    /\ registered' = registered \ {name}
    /\ UNCHANGED <<charVars, blockVars>>

Buffers == UNION {[1 .. n -> Byte] : n \in 0 .. MaxTransfer}

IoNext ==
    \/ char_device_init \/ block_device_init
    \/ char_clear
    \/ \E size \in 0 .. MaxTransfer : char_read(size)
    \/ \E buf \in Buffers : char_write(buf)
    \/ block_open_device
    \/ \E block \in 0 .. NUM_BLOCKS : block_ioctl_set(block)
    \/ \E size \in BlockTransfer : block_transfer(size)
    \/ \E name \in {"char0", "block0"} : device_unregister(name)

IoSpec == IoInit /\ [][IoNext]_ioVars

-----------------------------------------------------------------------------
IoTypeOK ==
    /\ registered \subseteq {"char0", "block0"}
    /\ char_buffer \in [CharIndex -> Byte \cup {0}]
    /\ char_read_pos \in CharIndex /\ char_write_pos \in CharIndex
    /\ char_count \in 0 .. CHAR_BUFFER_SIZE
    /\ block_count \in 0 .. NUM_BLOCKS /\ current_block \in 0 .. NUM_BLOCKS - 1
    /\ block_moved \in 0 .. IoWord - 1

Stream == INSTANCE ByteStream
              WITH Capacity <- CHAR_BUFFER_SIZE, out <- char_got,
                   stream <- [i \in 1 .. char_count |->
                                char_buffer[(char_read_pos + i - 1) % CHAR_BUFFER_SIZE]]

(* Whatever is written arrives once and in order, in any mixture of partial writes
   and reads around the end of the buffer. *)
ImplementsStream == Stream!Spec
=============================================================================
