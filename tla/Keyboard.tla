------------------------------ MODULE Keyboard ------------------------------
(***************************************************************************)
(* drivers/keyboard.c: the IRQ1 handler decodes a scancode into a modifier *)
(* change or a character and puts the character into a ring buffer;        *)
(* keyboard_getchar takes characters out.                                  *)
(*                                                                         *)
(* The shell polls keyboard_getchar with interrupts on, so the handler can *)
(* strike between its reads of the pointers and its store.  sys_read       *)
(* (kernel/syscall.c) calls it behind an interrupt gate, in one step, from *)
(* another process; Preempt says whether the timer may switch to that      *)
(* process while the shell is inside keyboard_getchar.                     *)
(*                                                                         *)
(* Scancodes are abstracted to what the handler tells apart; a character   *)
(* is a key of the layout and which of its glyphs is produced.             *)
(***************************************************************************)
EXTENDS Naturals, Sequences

CONSTANTS
    KB_BUFFER_SIZE,  \* slots of the ring (256), one of which stays empty
    CharKeys,        \* the character keys that are typed
    HeldKeys,        \* the modifier keys that are used
    LockKeys,        \* the lock keys that are used
    Preempt,         \* a process in sys_read may run while the shell is in getchar
    NoChar           \* what keyboard_getchar returns for an empty buffer (0)

ASSUME KeyboardAssumption ==
    /\ KB_BUFFER_SIZE \in Nat \ {0, 1}
    /\ Preempt \in BOOLEAN
    /\ CharKeys \subseteq {"letter", "accent", "digit"}
    /\ HeldKeys \subseteq {"lshift", "rshift", "ctrl", "alt"}
    /\ LockKeys \subseteq {"caps", "num", "scroll"}

VARIABLES
    kb_buffer, kb_write_ptr, kb_read_ptr,
    modifiers,  \* shift_pressed ... scroll_lock
    shell,      \* the shell's progress inside keyboard_getchar
    got         \* the last character a caller of keyboard_getchar received

keyVars == <<kb_buffer, kb_write_ptr, kb_read_ptr, modifiers, shell, got>>

KeyIndex == 0 .. KB_BUFFER_SIZE - 1

(* One key of each kind in the tables: letters, keys with a letter below and a
   digit above (the accented letters of the top row), keys without letters. *)
Char == [key : CharKeys \cup {"backspace"}, glyph : {"lower", "upper", "symbol"}]
Backspace == [key |-> "backspace", glyph |-> "symbol"]

scancode_to_ascii_us == [letter |-> "lower", accent |-> "lower", digit |-> "symbol"]
scancode_to_ascii_us_shift == [letter |-> "upper", accent |-> "symbol", digit |-> "symbol"]

(* The variable a modifier key drives: both shift keys drive shift_pressed. *)
FlagOf(k) == IF k \in {"lshift", "rshift"} THEN "shift" ELSE k
HeldFlags == {"shift", "ctrl", "alt"}
Flags == HeldFlags \cup {"caps", "num", "scroll"}

KeyIdle == [at |-> "check", char |-> NoChar]

KeyInit ==
    /\ kb_buffer = [i \in KeyIndex |-> NoChar]
    /\ kb_write_ptr = 0 /\ kb_read_ptr = 0
    /\ modifiers = [f \in Flags |-> FALSE]
    /\ shell = KeyIdle
    /\ got = NoChar

KeyAdvance(i) == (i + 1) % KB_BUFFER_SIZE

Enqueue_overwrites(c) ==
    /\ kb_buffer' = [kb_buffer EXCEPT ![kb_write_ptr] = c]
    /\ kb_write_ptr' = KeyAdvance(kb_write_ptr)

(* Put a character into the ring, or drop it when the ring is full. *)
Enqueue(c) ==
    IF KeyAdvance(kb_write_ptr) # kb_read_ptr
    THEN /\ kb_buffer' = [kb_buffer EXCEPT ![kb_write_ptr] = c]
         /\ kb_write_ptr' = KeyAdvance(kb_write_ptr)
    ELSE UNCHANGED <<kb_buffer, kb_write_ptr>>

(* Caps lock swaps the case of letters. *)
ApplyCaps(glyph) ==
    IF ~modifiers["caps"] THEN glyph
    ELSE CASE glyph = "lower" -> "upper"
           [] glyph = "upper" -> "lower"
           [] OTHER -> glyph

CharOf(k) ==
    [key |-> k,
     glyph |-> ApplyCaps(IF modifiers["shift"] THEN scancode_to_ascii_us_shift[k]
                         ELSE scancode_to_ascii_us[k])]

-----------------------------------------------------------------------------
(* keyboard_handler, by the kind of scancode it reads. *)

handle_backspace ==
    /\ Enqueue(Backspace)
    /\ UNCHANGED <<kb_read_ptr, modifiers, shell, got>>

(* The release of either shift key clears the flag they share. *)
handle_modifier_press(k) ==
    /\ modifiers' = [modifiers EXCEPT ![FlagOf(k)] = TRUE]
    /\ UNCHANGED <<kb_buffer, kb_write_ptr, kb_read_ptr, shell, got>>

handle_modifier_release(k) ==
    /\ modifiers' = [modifiers EXCEPT ![FlagOf(k)] = FALSE]
    /\ UNCHANGED <<kb_buffer, kb_write_ptr, kb_read_ptr, shell, got>>

handle_lock(k) ==
    /\ modifiers' = [modifiers EXCEPT ![k] = ~@]
    /\ UNCHANGED <<kb_buffer, kb_write_ptr, kb_read_ptr, shell, got>>

handle_key(k) ==
    /\ Enqueue(CharOf(k))
    /\ UNCHANGED <<kb_read_ptr, modifiers, shell, got>>

keyboard_handler ==
    \/ handle_backspace
    \/ \E k \in HeldKeys : handle_modifier_press(k) \/ handle_modifier_release(k)
    \/ \E k \in LockKeys : handle_lock(k)
    \/ \E k \in CharKeys : handle_key(k)

-----------------------------------------------------------------------------
(* keyboard_getchar as the shell calls it: the test for an empty buffer, the
   read of the character and the advance of the read pointer are three steps. *)

getchar_check ==
    /\ shell.at = "check"
    /\ kb_read_ptr # kb_write_ptr
    /\ shell' = [shell EXCEPT !.at = "fetch"]
    /\ UNCHANGED <<kb_buffer, kb_write_ptr, kb_read_ptr, modifiers, got>>

getchar_fetch ==
    /\ shell.at = "fetch"
    /\ shell' = [at |-> "advance", char |-> kb_buffer[kb_read_ptr]]
    /\ UNCHANGED <<kb_buffer, kb_write_ptr, kb_read_ptr, modifiers, got>>

getchar_advance ==
    /\ shell.at = "advance"
    /\ kb_read_ptr' = KeyAdvance(kb_read_ptr)
    /\ got' = shell.char
    /\ shell' = KeyIdle
    /\ UNCHANGED <<kb_buffer, kb_write_ptr, modifiers>>

(* keyboard_getchar as sys_read calls it, with interrupts off.  (What sys_read takes
   from the serial port while the buffer is empty does not touch the keyboard.) *)
sys_read_char ==
    /\ Preempt \/ shell.at = "check"
    /\ kb_read_ptr # kb_write_ptr
    /\ got' = kb_buffer[kb_read_ptr]
    /\ kb_read_ptr' = KeyAdvance(kb_read_ptr)
    /\ UNCHANGED <<kb_buffer, kb_write_ptr, modifiers, shell>>

KeyNext ==
    \/ keyboard_handler
    \/ getchar_check \/ getchar_fetch \/ getchar_advance
    \/ sys_read_char

KeySpec == KeyInit /\ [][KeyNext]_keyVars

-----------------------------------------------------------------------------
KeyTypeOK ==
    /\ kb_buffer \in [KeyIndex -> Char \cup {NoChar}]
    /\ kb_write_ptr \in KeyIndex /\ kb_read_ptr \in KeyIndex
    /\ modifiers \in [Flags -> BOOLEAN]
    /\ shell \in [at : {"check", "fetch", "advance"}, char : Char \cup {NoChar}]
    /\ got \in Char \cup {NoChar}

(* The characters typed and not yet taken, oldest first. *)
KeyPending ==
    [i \in 1 .. (kb_write_ptr + KB_BUFFER_SIZE - kb_read_ptr) % KB_BUFFER_SIZE |->
        kb_buffer[(kb_read_ptr + i - 1) % KB_BUFFER_SIZE]]

KeyFifo == INSTANCE BoundedFifo
            WITH Item <- Char, Capacity <- KB_BUFFER_SIZE - 1, Nothing <- NoChar,
                 queue <- KeyPending, out <- got

(* As long as no reader interrupts another the buffer is a bounded FIFO, although
   the handler interrupts keyboard_getchar between any two of its steps: typed
   characters arrive once and in order, and a full buffer drops only new ones. *)
KeysImplementFifo == KeyFifo!Spec

(* No character is fetched from an empty buffer ("Check if buffer is empty"). *)
FetchFindsChar == [][getchar_fetch => kb_read_ptr # kb_write_ptr]_keyVars
=============================================================================
