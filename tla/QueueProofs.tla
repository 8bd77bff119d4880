---------------------------- MODULE QueueProofs ----------------------------
(***************************************************************************)
(* The keyboard ring, the message queue and the two devices, for every     *)
(* buffer size: the rings implement their abstract specifications, and     *)
(* every index and counter stays in its range.                             *)
(***************************************************************************)
EXTENDS MCQueues, NetworkQueueProofs

(* A ring of n slots that keeps one slot empty: r is read, w written next, and c
   items lie between them. *)
EmptySlotFacts(n, r, w, c) ==
    /\ c \in 0 .. n - 1
    /\ w = (r + c) % n
    /\ r # w <=> c > 0
    /\ (w + 1) % n # r <=> c < n - 1
    /\ (w + 1) % n # r => (((w + 1) % n) + n - r) % n = c + 1
    /\ r # w => (w + n - ((r + 1) % n)) % n = c - 1

LEMMA EmptySlotRing ==
    ASSUME NEW n \in Nat \ {0, 1}, NEW r \in 0 .. n - 1, NEW w \in 0 .. n - 1,
           NEW c, c = (w + n - r) % n
    PROVE  EmptySlotFacts(n, r, w, c)
<1> DEFINE m(a) == a % n
<1>1. \A a \in 0 .. 2 * n - 1 : m(a) = IF a < n THEN a ELSE a - n
  BY ModOnce
<1>2. c = m(w + n - r)
  OBVIOUS
<1>3. /\ c \in 0 .. n - 1
      /\ w = m(r + c)
      /\ r # w <=> c > 0
      /\ m(w + 1) # r <=> c < n - 1
      /\ m(w + 1) # r => m(m(w + 1) + n - r) = c + 1
      /\ r # w => m(w + n - m(r + 1)) = c - 1
  <2> HIDE DEF m
  <2>1. w + n - r \in 0 .. 2 * n - 1 /\ r + 1 \in 0 .. 2 * n - 1 /\ w + 1 \in 0 .. 2 * n - 1
    OBVIOUS
  <2>2. /\ m(w + n - r) = IF w + n - r < n THEN w + n - r ELSE w + n - r - n
        /\ m(r + 1) = IF r + 1 < n THEN r + 1 ELSE r + 1 - n
        /\ m(w + 1) = IF w + 1 < n THEN w + 1 ELSE w + 1 - n
    BY <1>1, <2>1
  <2>3. c \in 0 .. n - 1
    BY <1>2, <2>2
  <2>4. /\ r + c \in 0 .. 2 * n - 1 /\ m(w + 1) + n - r \in 0 .. 2 * n - 1
        /\ w + n - m(r + 1) \in 0 .. 2 * n - 1
    BY <2>2, <2>3
  <2> QED
    BY <1>1, <1>2, <2>2, <2>3, <2>4
<1> QED
  BY <1>3 DEF EmptySlotFacts

-----------------------------------------------------------------------------
(* The keyboard. *)

LEMMA CharOfIsChar ==
    ASSUME NEW k \in CharKeys, modifiers \in [Flags -> BOOLEAN]
    PROVE  CharOf(k) \in Char
<1>1. k \in {"letter", "accent", "digit"}
  BY KeyboardAssumption
<1>2. /\ scancode_to_ascii_us[k] \in {"lower", "upper", "symbol"}
      /\ scancode_to_ascii_us_shift[k] \in {"lower", "upper", "symbol"}
  BY <1>1 DEF scancode_to_ascii_us, scancode_to_ascii_us_shift
<1>3. \A g \in {"lower", "upper", "symbol"} : ApplyCaps(g) \in {"lower", "upper", "symbol"}
  BY DEF ApplyCaps
<1> QED
  BY <1>2, <1>3 DEF CharOf, Char

LEMMA BackspaceIsChar == Backspace \in Char
BY DEF Backspace, Char

LEMMA KeyAdvanceInRing == \A i \in KeyIndex : KeyAdvance(i) \in KeyIndex
BY KeyboardAssumption DEF KeyAdvance, KeyIndex

LEMMA EnqueueKeepsType ==
    ASSUME NEW c \in Char, Enqueue(c), kb_buffer \in [KeyIndex -> Char \cup {NoChar}],
           kb_write_ptr \in KeyIndex
    PROVE  kb_buffer' \in [KeyIndex -> Char \cup {NoChar}] /\ kb_write_ptr' \in KeyIndex
BY KeyAdvanceInRing DEF Enqueue

LEMMA FlagOfHeldKey == \A k \in HeldKeys : FlagOf(k) \in HeldFlags
BY KeyboardAssumption DEF FlagOf, HeldFlags

LEMMA KeyInitType == KeyInit => KeyTypeOK
<1> SUFFICES ASSUME KeyInit PROVE KeyTypeOK
  OBVIOUS
<1>1. KeyIdle \in [at : {"check", "fetch", "advance"}, char : Char \cup {NoChar}]
  BY DEF KeyIdle
<1>2. 0 \in KeyIndex
  BY KeyboardAssumption DEF KeyIndex
<1> QED
  BY <1>1, <1>2 DEF KeyInit, KeyTypeOK

LEMMA KeyNextType == KeyTypeOK /\ [KeyNext]_keyVars => KeyTypeOK'
<1> SUFFICES ASSUME KeyTypeOK, [KeyNext]_keyVars PROVE KeyTypeOK'
  OBVIOUS
<1>1. ASSUME NEW c \in Char, Enqueue(c), UNCHANGED <<kb_read_ptr, modifiers, shell, got>>
      PROVE  KeyTypeOK'
  <2>1. kb_buffer' \in [KeyIndex -> Char \cup {NoChar}] /\ kb_write_ptr' \in KeyIndex
    BY <1>1, EnqueueKeepsType DEF KeyTypeOK
  <2> QED
    BY <1>1, <2>1 DEF KeyTypeOK
<1>2. CASE handle_backspace
  BY <1>1, <1>2, BackspaceIsChar DEF handle_backspace
<1>3. ASSUME NEW k \in CharKeys, handle_key(k) PROVE KeyTypeOK'
  <2>1. CharOf(k) \in Char
    BY CharOfIsChar DEF KeyTypeOK
  <2> QED
    BY <1>1, <1>3, <2>1 DEF handle_key
<1>4. ASSUME NEW k \in HeldKeys, handle_modifier_press(k) PROVE KeyTypeOK'
  <2>1. FlagOf(k) \in Flags
    BY FlagOfHeldKey DEF Flags
  <2> QED
    BY <1>4, <2>1 DEF handle_modifier_press, KeyTypeOK
<1>5. ASSUME NEW k \in HeldKeys, handle_modifier_release(k) PROVE KeyTypeOK'
  <2>1. FlagOf(k) \in Flags
    BY FlagOfHeldKey DEF Flags
  <2> QED
    BY <1>5, <2>1 DEF handle_modifier_release, KeyTypeOK
<1>6. ASSUME NEW k \in LockKeys, handle_lock(k) PROVE KeyTypeOK'
  <2>1. modifiers' = [modifiers EXCEPT ![k] = ~modifiers[k]]
    BY <1>6 DEF handle_lock
  <2>2. modifiers' \in [Flags -> BOOLEAN]
    BY <2>1 DEF KeyTypeOK
  <2> QED
    BY <1>6, <2>2 DEF handle_lock, KeyTypeOK
<1>7. CASE getchar_check
  <2>1. /\ shell' = [shell EXCEPT !.at = "fetch"]
        /\ UNCHANGED <<kb_buffer, kb_write_ptr, kb_read_ptr, modifiers, got>>
    BY <1>7 DEF getchar_check
  <2>2. shell' \in [at : {"check", "fetch", "advance"}, char : Char \cup {NoChar}]
    BY <2>1 DEF KeyTypeOK
  <2> QED
    BY <2>1, <2>2 DEF KeyTypeOK
<1>8. CASE getchar_fetch
  <2>1. /\ shell' = [at |-> "advance", char |-> kb_buffer[kb_read_ptr]]
        /\ UNCHANGED <<kb_buffer, kb_write_ptr, kb_read_ptr, modifiers, got>>
    BY <1>8 DEF getchar_fetch
  <2>2. kb_buffer[kb_read_ptr] \in Char \cup {NoChar}
    BY DEF KeyTypeOK
  <2>3. shell' \in [at : {"check", "fetch", "advance"}, char : Char \cup {NoChar}]
    BY <2>1, <2>2
  <2> QED
    BY <2>1, <2>3 DEF KeyTypeOK
<1>9. CASE getchar_advance
  <2>1. /\ kb_read_ptr' = KeyAdvance(kb_read_ptr) /\ got' = shell.char /\ shell' = KeyIdle
        /\ UNCHANGED <<kb_buffer, kb_write_ptr, modifiers>>
    BY <1>9 DEF getchar_advance
  <2>2. KeyIdle \in [at : {"check", "fetch", "advance"}, char : Char \cup {NoChar}]
    BY DEF KeyIdle
  <2>3. shell.char \in Char \cup {NoChar}
    BY DEF KeyTypeOK
  <2> QED
    BY <2>1, <2>2, <2>3, KeyAdvanceInRing DEF KeyTypeOK
<1>10. CASE sys_read_char
  <2>1. kb_buffer[kb_read_ptr] \in Char \cup {NoChar}
    BY DEF KeyTypeOK
  <2> QED
    BY <1>10, <2>1, KeyAdvanceInRing DEF sys_read_char, KeyTypeOK
<1>11. CASE UNCHANGED keyVars
  BY <1>11 DEF keyVars, KeyTypeOK
<1> QED
  BY <1>2, <1>3, <1>4, <1>5, <1>6, <1>7, <1>8, <1>9, <1>10, <1>11 DEF KeyNext, keyboard_handler

LEMMA KeyTypeAlways == KeySpec => []KeyTypeOK
BY KeyInitType, KeyNextType, PTL DEF KeySpec

-----------------------------------------------------------------------------
(* The keyboard buffer as a queue.  Without a second reader inside keyboard_getchar
   the shell, once it has seen a character, finds that one at the read pointer. *)

KeyCount == (kb_write_ptr + KB_BUFFER_SIZE - kb_read_ptr) % KB_BUFFER_SIZE

PendingAreChars ==
    \A i \in 1 .. KeyCount : kb_buffer[(kb_read_ptr + i - 1) % KB_BUFFER_SIZE] \in Char

ShellSeesChar ==
    /\ shell.at \in {"fetch", "advance"} => kb_read_ptr # kb_write_ptr
    /\ shell.at = "advance" => shell.char = kb_buffer[kb_read_ptr]

KeyFifoInv == KeyTypeOK /\ PendingAreChars /\ ShellSeesChar

LEMMA KeyRingFacts ==
    ASSUME KeyTypeOK
    PROVE  /\ KB_BUFFER_SIZE \in Nat \ {0} /\ kb_read_ptr \in 0 .. KB_BUFFER_SIZE - 1
           /\ KeyCount \in 0 .. KB_BUFFER_SIZE - 1 /\ KeyCount \in 0 .. KB_BUFFER_SIZE
           /\ kb_write_ptr = (kb_read_ptr + KeyCount) % KB_BUFFER_SIZE
           /\ kb_read_ptr # kb_write_ptr <=> KeyCount > 0
           /\ KeyAdvance(kb_write_ptr) # kb_read_ptr <=> KeyCount < KB_BUFFER_SIZE - 1
           /\ KeyAdvance(kb_write_ptr) # kb_read_ptr =>
                 (KeyAdvance(kb_write_ptr) + KB_BUFFER_SIZE - kb_read_ptr) % KB_BUFFER_SIZE
                    = KeyCount + 1
           /\ kb_read_ptr # kb_write_ptr =>
                 (kb_write_ptr + KB_BUFFER_SIZE - KeyAdvance(kb_read_ptr)) % KB_BUFFER_SIZE
                    = KeyCount - 1
<1>1. /\ KB_BUFFER_SIZE \in Nat \ {0, 1} /\ kb_read_ptr \in 0 .. KB_BUFFER_SIZE - 1
      /\ kb_write_ptr \in 0 .. KB_BUFFER_SIZE - 1
  BY KeyboardAssumption DEF KeyTypeOK, KeyIndex
<1>2. KeyCount = (kb_write_ptr + KB_BUFFER_SIZE - kb_read_ptr) % KB_BUFFER_SIZE
  BY DEF KeyCount
<1>3. EmptySlotFacts(KB_BUFFER_SIZE, kb_read_ptr, kb_write_ptr, KeyCount)
  BY <1>1, <1>2, EmptySlotRing
<1>4. KeyCount \in 0 .. KB_BUFFER_SIZE /\ KB_BUFFER_SIZE \in Nat \ {0}
  BY <1>1, <1>3 DEF EmptySlotFacts
<1> QED
  BY <1>1, <1>3, <1>4 DEF KeyAdvance, EmptySlotFacts

(* KeyPending is the sequence of the characters from the read pointer on. *)
KeyShape ==
    /\ KeyPending \in Seq(Char) /\ Len(KeyPending) = KeyCount
    /\ \A i \in 1 .. KeyCount :
          KeyPending[i] = kb_buffer[(kb_read_ptr + i - 1) % KB_BUFFER_SIZE]

LEMMA KeyPendingShape == KeyFifoInv => KeyShape
<1> SUFFICES ASSUME KeyFifoInv PROVE KeyShape
  OBVIOUS
<1>1. KeyCount \in Nat
  BY KeyRingFacts, KeyboardAssumption DEF KeyFifoInv
<1>2. KeyPending = [i \in 1 .. KeyCount |-> kb_buffer[(kb_read_ptr + i - 1) % KB_BUFFER_SIZE]]
  BY DEF KeyPending, KeyCount
<1>3. \A i \in 1 .. KeyCount : kb_buffer[(kb_read_ptr + i - 1) % KB_BUFFER_SIZE] \in Char
  BY DEF KeyFifoInv, PendingAreChars
<1> QED
  BY <1>1, <1>2, <1>3 DEF KeyShape

(* A character that fits leaves the characters before it alone. *)
LEMMA EnqueueAppends ==
    ASSUME KeyTypeOK, NEW c \in Char, Enqueue(c), kb_read_ptr' = kb_read_ptr,
           KeyAdvance(kb_write_ptr) # kb_read_ptr
    PROVE  /\ KeyCount < KB_BUFFER_SIZE - 1 /\ KeyCount' = KeyCount + 1
           /\ \A i \in 1 .. KeyCount :
                 kb_buffer'[(kb_read_ptr + i - 1) % KB_BUFFER_SIZE]
                    = kb_buffer[(kb_read_ptr + i - 1) % KB_BUFFER_SIZE]
           /\ kb_buffer'[(kb_read_ptr + (KeyCount + 1) - 1) % KB_BUFFER_SIZE] = c
<1>0. /\ KB_BUFFER_SIZE \in Nat \ {0} /\ kb_read_ptr \in 0 .. KB_BUFFER_SIZE - 1
      /\ KeyCount \in 0 .. KB_BUFFER_SIZE /\ KeyCount < KB_BUFFER_SIZE - 1
      /\ kb_write_ptr = (kb_read_ptr + KeyCount) % KB_BUFFER_SIZE
  BY KeyRingFacts
<1>1. /\ kb_buffer' = [kb_buffer EXCEPT ![kb_write_ptr] = c]
      /\ kb_write_ptr' = KeyAdvance(kb_write_ptr)
  BY DEF Enqueue
<1>2. kb_buffer \in [KeyIndex -> Char \cup {NoChar}] /\ kb_write_ptr \in KeyIndex
  BY DEF KeyTypeOK
<1>3. KeyCount' = KeyCount + 1
  BY <1>1, KeyRingFacts DEF KeyCount
<1>4. ASSUME NEW i \in 1 .. KeyCount
      PROVE  kb_buffer'[(kb_read_ptr + i - 1) % KB_BUFFER_SIZE]
                = kb_buffer[(kb_read_ptr + i - 1) % KB_BUFFER_SIZE]
  <2>1. /\ (kb_read_ptr + i - 1) % KB_BUFFER_SIZE \in KeyIndex
        /\ (kb_read_ptr + i - 1) % KB_BUFFER_SIZE # kb_write_ptr
    BY <1>0, RingItems DEF KeyIndex
  <2> QED
    BY <1>1, <1>2, <2>1
<1>5. kb_read_ptr + (KeyCount + 1) - 1 = kb_read_ptr + KeyCount
  BY <1>0
<1>6. kb_buffer'[kb_write_ptr] = c
  BY <1>1, <1>2
<1> QED
  BY <1>0, <1>3, <1>4, <1>5, <1>6

(* Taking the character at the read pointer moves the others up by one. *)
LEMMA TakeShifts ==
    ASSUME KeyTypeOK, kb_read_ptr # kb_write_ptr,
           kb_read_ptr' = KeyAdvance(kb_read_ptr), UNCHANGED <<kb_buffer, kb_write_ptr>>
    PROVE  /\ KeyCount > 0 /\ KeyCount' = KeyCount - 1
           /\ (kb_read_ptr + 1 - 1) % KB_BUFFER_SIZE = kb_read_ptr
           /\ \A i \in 1 .. KeyCount - 1 :
                 (kb_read_ptr' + i - 1) % KB_BUFFER_SIZE
                    = (kb_read_ptr + (i + 1) - 1) % KB_BUFFER_SIZE
<1>0. /\ KB_BUFFER_SIZE \in Nat \ {0} /\ kb_read_ptr \in 0 .. KB_BUFFER_SIZE - 1
      /\ KeyCount \in 0 .. KB_BUFFER_SIZE /\ KeyCount > 0
  BY KeyRingFacts
<1>1. KeyCount' = KeyCount - 1
  BY KeyRingFacts DEF KeyCount
<1>2. (kb_read_ptr + 1 - 1) % KB_BUFFER_SIZE = kb_read_ptr
  BY <1>0, RingStep
<1>3. \A i \in 1 .. KeyCount - 1 : i \in 1 .. KeyCount /\ i < KeyCount
  BY <1>0
<1>4. ASSUME NEW i \in 1 .. KeyCount - 1
      PROVE  (((kb_read_ptr + 1) % KB_BUFFER_SIZE) + i - 1) % KB_BUFFER_SIZE
                = (kb_read_ptr + (i + 1) - 1) % KB_BUFFER_SIZE
  BY <1>0, <1>3, RingItems
<1> QED
  BY <1>0, <1>1, <1>2, <1>4 DEF KeyAdvance

LEMMA KeyFifoInit == KeyInit => KeyFifoInv
<1> SUFFICES ASSUME KeyInit PROVE KeyFifoInv
  OBVIOUS
<1>1. KeyTypeOK
  BY KeyInitType
<1>2. kb_read_ptr = kb_write_ptr /\ shell.at = "check"
  BY DEF KeyInit, KeyIdle
<1>3. KeyCount = 0
  BY <1>1, <1>2, KeyRingFacts
<1> QED
  BY <1>1, <1>2, <1>3, KeyInitType DEF KeyFifoInv, PendingAreChars, ShellSeesChar

LEMMA KeyFifoNext == ~Preempt /\ KeyFifoInv /\ [KeyNext]_keyVars => KeyFifoInv'
<1> SUFFICES ASSUME ~Preempt, KeyTypeOK, PendingAreChars, ShellSeesChar, KeyTypeOK',
                    [KeyNext]_keyVars
             PROVE  PendingAreChars' /\ ShellSeesChar'
  BY KeyNextType DEF KeyFifoInv
<1>0. KeyCount \in Nat /\ KB_BUFFER_SIZE \in Nat \ {0}
  BY KeyRingFacts
<1>1. ASSUME NEW c \in Char, Enqueue(c), UNCHANGED <<kb_read_ptr, shell>>
      PROVE  PendingAreChars' /\ ShellSeesChar'
  <2>1. CASE KeyAdvance(kb_write_ptr) # kb_read_ptr
    <3>1. /\ KeyCount' = KeyCount + 1
          /\ \A i \in 1 .. KeyCount :
                kb_buffer'[(kb_read_ptr + i - 1) % KB_BUFFER_SIZE]
                   = kb_buffer[(kb_read_ptr + i - 1) % KB_BUFFER_SIZE]
          /\ kb_buffer'[(kb_read_ptr + (KeyCount + 1) - 1) % KB_BUFFER_SIZE] = c
      BY <1>1, <2>1, EnqueueAppends
    <3>2. ASSUME NEW i \in 1 .. KeyCount + 1
          PROVE  kb_buffer'[(kb_read_ptr + i - 1) % KB_BUFFER_SIZE] \in Char
      <4>1. CASE i = KeyCount + 1
        BY <3>1, <4>1
      <4>2. CASE i # KeyCount + 1
        <5>1. i \in 1 .. KeyCount
          BY <1>0, <4>2
        <5> QED
          BY <3>1, <5>1 DEF PendingAreChars
      <4> QED
        BY <4>1, <4>2
    <3>3. PendingAreChars'
      BY <1>1, <3>1, <3>2 DEF PendingAreChars
    <3>4. KeyCount' > 0
      BY <1>0, <3>1
    <3>5. kb_read_ptr' # kb_write_ptr'
      BY <2>1, <1>1 DEF Enqueue
    <3>6. kb_read_ptr # kb_write_ptr => kb_buffer'[kb_read_ptr] = kb_buffer[kb_read_ptr]
      BY <1>1, <2>1 DEF Enqueue, KeyTypeOK
    <3> QED
      BY <1>1, <3>3, <3>5, <3>6 DEF ShellSeesChar
  <2>2. CASE ~(KeyAdvance(kb_write_ptr) # kb_read_ptr)
    BY <1>1, <2>2 DEF Enqueue, PendingAreChars, ShellSeesChar, KeyCount
  <2> QED
    BY <2>1, <2>2
<1>2. CASE handle_backspace
  BY <1>1, <1>2, BackspaceIsChar DEF handle_backspace
<1>3. ASSUME NEW k \in CharKeys, handle_key(k) PROVE PendingAreChars' /\ ShellSeesChar'
  <2>1. CharOf(k) \in Char
    BY CharOfIsChar DEF KeyTypeOK
  <2> QED
    BY <1>1, <1>3, <2>1 DEF handle_key
<1>4. ASSUME UNCHANGED <<kb_buffer, kb_write_ptr, kb_read_ptr, shell>>
      PROVE  PendingAreChars' /\ ShellSeesChar'
  BY <1>4 DEF PendingAreChars, ShellSeesChar, KeyCount
<1>5. CASE getchar_check
  <2>1. /\ shell' = [shell EXCEPT !.at = "fetch"] /\ kb_read_ptr # kb_write_ptr
        /\ UNCHANGED <<kb_buffer, kb_write_ptr, kb_read_ptr>>
    BY <1>5 DEF getchar_check
  <2>2. shell'.at = "fetch"
    BY <2>1 DEF KeyTypeOK
  <2> QED
    BY <2>1, <2>2 DEF PendingAreChars, ShellSeesChar, KeyCount
<1>6. CASE getchar_fetch
  <2>1. /\ shell.at = "fetch" /\ shell' = [at |-> "advance", char |-> kb_buffer[kb_read_ptr]]
        /\ UNCHANGED <<kb_buffer, kb_write_ptr, kb_read_ptr>>
    BY <1>6 DEF getchar_fetch
  <2>2. shell'.at = "advance" /\ shell'.char = kb_buffer[kb_read_ptr]
    BY <2>1
  <2> QED
    BY <2>1, <2>2 DEF PendingAreChars, ShellSeesChar, KeyCount
<1>7. ASSUME kb_read_ptr # kb_write_ptr, kb_read_ptr' = KeyAdvance(kb_read_ptr),
             UNCHANGED <<kb_buffer, kb_write_ptr>>
      PROVE  PendingAreChars'
  <2>1. /\ KeyCount' = KeyCount - 1
        /\ \A i \in 1 .. KeyCount - 1 :
              (kb_read_ptr' + i - 1) % KB_BUFFER_SIZE
                 = (kb_read_ptr + (i + 1) - 1) % KB_BUFFER_SIZE
    BY <1>7, TakeShifts
  <2>2. \A i \in 1 .. KeyCount - 1 : i + 1 \in 1 .. KeyCount
    BY <1>0
  <2> QED
    BY <1>7, <2>1, <2>2 DEF PendingAreChars
<1>8. CASE getchar_advance
  <2>1. /\ shell.at = "advance" /\ kb_read_ptr' = KeyAdvance(kb_read_ptr) /\ shell' = KeyIdle
        /\ UNCHANGED <<kb_buffer, kb_write_ptr>>
    BY <1>8 DEF getchar_advance
  <2>2. PendingAreChars'
    BY <1>7, <2>1 DEF ShellSeesChar
  <2> QED
    BY <2>1, <2>2 DEF ShellSeesChar, KeyIdle
<1>9. CASE sys_read_char
  <2>1. PendingAreChars'
    BY <1>7, <1>9 DEF sys_read_char
  <2>2. shell' = shell /\ shell.at = "check"
    BY <1>9 DEF sys_read_char
  <2> QED
    BY <2>1, <2>2 DEF ShellSeesChar
<1> QED
  BY <1>2, <1>3, <1>4, <1>5, <1>6, <1>8, <1>9
     DEF KeyNext, keyboard_handler, handle_modifier_press, handle_modifier_release, handle_lock,
         keyVars

LEMMA KeyInitRefines == KeyInit => KeyFifo!Init
<1> SUFFICES ASSUME KeyInit PROVE KeyFifo!Init
  OBVIOUS
<1>1. KeyShape /\ KeyTypeOK
  BY KeyFifoInit, KeyPendingShape DEF KeyFifoInv
<1>2. KeyCount = 0
  BY <1>1, KeyRingFacts DEF KeyInit
<1> QED
  BY <1>1, <1>2 DEF KeyShape, KeyInit, KeyFifo!Init

LEMMA KeyNextRefines ==
    ~Preempt /\ KeyFifoInv /\ KeyShape /\ KeyShape' /\ [KeyNext]_keyVars
       => [KeyFifo!Next]_<<KeyPending, got>>
<1> SUFFICES ASSUME ~Preempt, KeyTypeOK, ShellSeesChar, KeyShape, KeyShape',
                    [KeyNext]_keyVars
             PROVE  KeyFifo!Next \/ UNCHANGED <<KeyPending, got>>
  BY DEF KeyFifoInv
<1>0. KeyCount \in Nat /\ KB_BUFFER_SIZE \in Nat \ {0}
  BY KeyRingFacts
<1>1. ASSUME NEW c \in Char, Enqueue(c), UNCHANGED <<kb_read_ptr, got>>
      PROVE  KeyFifo!Next \/ UNCHANGED <<KeyPending, got>>
  <2>1. CASE KeyAdvance(kb_write_ptr) # kb_read_ptr
    <3>1. /\ KeyCount < KB_BUFFER_SIZE - 1 /\ KeyCount' = KeyCount + 1
          /\ \A i \in 1 .. KeyCount :
                kb_buffer'[(kb_read_ptr + i - 1) % KB_BUFFER_SIZE]
                   = kb_buffer[(kb_read_ptr + i - 1) % KB_BUFFER_SIZE]
          /\ kb_buffer'[(kb_read_ptr + (KeyCount + 1) - 1) % KB_BUFFER_SIZE] = c
      BY <1>1, <2>1, EnqueueAppends
    <3>2. \A i \in 1 .. KeyCount : i \in 1 .. KeyCount + 1
      BY <1>0
    <3>3. \A i \in 1 .. KeyCount : KeyPending'[i] = KeyPending[i]
      BY <1>1, <3>1, <3>2 DEF KeyShape
    <3>4. KeyCount + 1 \in 1 .. KeyCount + 1
      BY <1>0
    <3>5. KeyPending'[KeyCount + 1] = c
      BY <1>1, <3>1, <3>4 DEF KeyShape
    <3>6. KeyPending' = Append(KeyPending, c)
      BY <3>1, <3>3, <3>5, IsAppend DEF KeyShape
    <3> QED
      BY <1>1, <3>1, <3>6 DEF KeyShape, KeyFifo!Next, KeyFifo!Put
  <2>2. CASE ~(KeyAdvance(kb_write_ptr) # kb_read_ptr)
    BY <1>1, <2>2 DEF Enqueue, KeyPending
  <2> QED
    BY <2>1, <2>2
<1>2. CASE handle_backspace
  BY <1>1, <1>2, BackspaceIsChar DEF handle_backspace
<1>3. ASSUME NEW k \in CharKeys, handle_key(k)
      PROVE  KeyFifo!Next \/ UNCHANGED <<KeyPending, got>>
  <2>1. CharOf(k) \in Char
    BY CharOfIsChar DEF KeyTypeOK
  <2> QED
    BY <1>1, <1>3, <2>1 DEF handle_key
<1>4. ASSUME UNCHANGED <<kb_buffer, kb_write_ptr, kb_read_ptr, got>>
      PROVE  UNCHANGED <<KeyPending, got>>
  BY <1>4 DEF KeyPending
<1>5. ASSUME kb_read_ptr # kb_write_ptr, kb_read_ptr' = KeyAdvance(kb_read_ptr),
             got' = kb_buffer[kb_read_ptr], UNCHANGED <<kb_buffer, kb_write_ptr>>
      PROVE  KeyFifo!Next
  <2>1. /\ KeyCount > 0 /\ KeyCount' = KeyCount - 1
        /\ (kb_read_ptr + 1 - 1) % KB_BUFFER_SIZE = kb_read_ptr
        /\ \A i \in 1 .. KeyCount - 1 :
              (kb_read_ptr' + i - 1) % KB_BUFFER_SIZE
                 = (kb_read_ptr + (i + 1) - 1) % KB_BUFFER_SIZE
    BY <1>5, TakeShifts
  <2>2. KeyPending # <<>> /\ Len(KeyPending') = Len(KeyPending) - 1
    BY <1>0, <2>1 DEF KeyShape
  <2>3. got' = Head(KeyPending)
    <3>1. 1 \in 1 .. KeyCount
      BY <1>0, <2>1
    <3>2. KeyPending[1] = kb_buffer[kb_read_ptr]
      BY <2>1, <3>1 DEF KeyShape
    <3>3. Head(KeyPending) = KeyPending[1]
      BY <2>2 DEF KeyShape
    <3> QED
      BY <1>5, <3>2, <3>3
  <2>4. \A i \in 1 .. KeyCount - 1 : i + 1 \in 1 .. KeyCount
    BY <1>0
  <2>5. \A i \in 1 .. KeyCount - 1 : KeyPending'[i] = KeyPending[i + 1]
    BY <1>5, <2>1, <2>4 DEF KeyShape
  <2>6. KeyPending' = Tail(KeyPending)
    BY <2>1, <2>2, <2>5, IsTail DEF KeyShape
  <2> QED
    BY <2>2, <2>3, <2>6 DEF KeyFifo!Next, KeyFifo!Get
<1>6. CASE getchar_advance
  BY <1>5, <1>6 DEF getchar_advance, ShellSeesChar
<1>7. CASE sys_read_char
  BY <1>5, <1>7 DEF sys_read_char
<1> QED
  BY <1>2, <1>3, <1>4, <1>6, <1>7
     DEF KeyNext, keyboard_handler, handle_modifier_press, handle_modifier_release, handle_lock,
         getchar_check, getchar_fetch, keyVars

LEMMA KeyFifoInvAlways == ~Preempt => (KeySpec => []KeyFifoInv)
<1> SUFFICES ASSUME ~Preempt PROVE KeySpec => []KeyFifoInv
  OBVIOUS
<1>1. KeyFifoInv /\ [KeyNext]_keyVars => KeyFifoInv'
  BY KeyFifoNext
<1> QED
  BY <1>1, KeyFifoInit, PTL DEF KeySpec

(* As long as no second reader enters keyboard_getchar, the ring of keyboard.c is a
   bounded FIFO for every buffer size, although the handler strikes between the test,
   the fetch and the advance of the shell's call. *)
THEOREM KeyRingImplementsFifo == ~Preempt => (KeySpec => KeysImplementFifo)
<1> SUFFICES ASSUME ~Preempt PROVE KeySpec => KeysImplementFifo
  OBVIOUS
<1>1. KeySpec => []KeyFifoInv
  BY KeyFifoInvAlways
<1>2. KeySpec => []KeyShape
  BY <1>1, KeyPendingShape, PTL
<1>3. KeyFifoInv /\ KeyShape /\ KeyShape' /\ [KeyNext]_keyVars
         => [KeyFifo!Next]_<<KeyPending, got>>
  BY KeyNextRefines
<1> QED
  BY <1>1, <1>2, <1>3, KeyInitRefines, PTL DEF KeySpec, KeysImplementFifo, KeyFifo!Spec

(* Under the same condition the shell never fetches from an empty buffer, the claim
   that a second reader breaks. *)
THEOREM FetchFindsCharAlways == ~Preempt => (KeySpec => FetchFindsChar)
<1> SUFFICES ASSUME ~Preempt PROVE KeySpec => FetchFindsChar
  OBVIOUS
<1>1. KeySpec => []KeyFifoInv
  BY KeyFifoInvAlways
<1>2. KeyFifoInv /\ [KeyNext]_keyVars => [getchar_fetch => kb_read_ptr # kb_write_ptr]_keyVars
  BY DEF KeyFifoInv, ShellSeesChar, getchar_fetch
<1> QED
  BY <1>1, <1>2, PTL DEF KeySpec, FetchFindsChar

-----------------------------------------------------------------------------
(* The message queue. *)

LEMMA Quotient ==
    ASSUME NEW n \in Nat \ {0}, NEW x \in Nat
    PROVE  x = n * (x \div n) + (x % n) /\ x % n \in 0 .. n - 1 /\ x \div n \in Nat
OBVIOUS

LEMMA Remainder ==
    ASSUME NEW n \in Nat \ {0}, NEW q \in Nat, NEW r \in 0 .. n - 1
    PROVE  (n * q + r) % n = r
OBVIOUS

(* An index that was moved around a ring once per step is the number of steps, modulo
   the size of the ring. *)
LEMMA ModStep ==
    ASSUME NEW n \in Nat \ {0}, NEW x \in Nat
    PROVE  ((x % n) + 1) % n = (x + 1) % n
<1>1. x = n * (x \div n) + (x % n) /\ x % n \in 0 .. n - 1 /\ x \div n \in Nat
  BY Quotient
<1>2. CASE x % n # n - 1
  <2>1. x + 1 = n * (x \div n) + ((x % n) + 1) /\ (x % n) + 1 \in 0 .. n - 1
    BY <1>1, <1>2
  <2>2. (x + 1) % n = (x % n) + 1
    BY <1>1, <2>1, Remainder
  <2>3. ((x % n) + 1) % n = (x % n) + 1
    BY <2>1
  <2> QED
    BY <2>2, <2>3
<1>3. CASE x % n = n - 1
  <2>1. x + 1 = n * ((x \div n) + 1) + 0
    BY <1>1, <1>3
  <2>2. (x \div n) + 1 \in Nat /\ 0 \in 0 .. n - 1
    BY <1>1
  <2>3. (n * ((x \div n) + 1) + 0) % n = 0
    BY <2>2, Remainder
  <2>4. n % n = 0
    OBVIOUS
  <2> QED
    BY <1>3, <2>1, <2>3, <2>4
<1> QED
  BY <1>2, <1>3

(* Every slot that was written before or can be searched holds a message that was sent.
   Nothing ever moves the head. *)
SlotsSent ==
    \A s \in IpcIndex : s < queue_count + Len(delivered) => message_queue[s].send # 0

IpcInv ==
    /\ IpcTypeOK /\ queue_head = 0
    /\ sends = queue_count + Len(delivered)
    /\ TailDrifts /\ SlotsSent /\ NoPhantomMessage

LEMMA IpcInitInv == IpcInit => IpcInv
<1> SUFFICES ASSUME IpcInit PROVE IpcInv
  OBVIOUS
<1>1. MAX_MESSAGES \in Nat \ {0} /\ 0 \in IpcIndex /\ 0 % MAX_MESSAGES = 0
  BY IpcAssumption DEF IpcIndex
<1>2. IpcTypeOK
  BY <1>1, IpcAssumption DEF IpcInit, IpcTypeOK
<1>3. queue_count + Len(delivered) = 0
  BY DEF IpcInit
<1>4. TailDrifts /\ NoPhantomMessage
  BY <1>1 DEF IpcInit, TailDrifts, NoPhantomMessage
<1>5. SlotsSent
  BY <1>1, <1>3 DEF SlotsSent, IpcIndex
<1> QED
  BY <1>2, <1>3, <1>4, <1>5 DEF IpcInv, IpcInit

LEMMA IpcSendInv ==
    ASSUME IpcInv, NEW from \in Pid, NEW to \in Pid, ipc_send(from, to)
    PROVE  IpcInv'
<1> DEFINE m == [sender |-> from, receiver |-> to, send |-> sends + 1]
<1>0. /\ MAX_MESSAGES \in Nat \ {0} /\ MaxSends \in Nat
      /\ message_queue \in [IpcIndex -> Message \cup {BlankMessage}]
      /\ queue_head = 0 /\ queue_tail \in IpcIndex /\ queue_count \in 0 .. MAX_MESSAGES
      /\ sends \in 0 .. MaxSends /\ Len(delivered) \in Nat
      /\ delivered \in Seq(Message \cup {BlankMessage})
      /\ sends = queue_count + Len(delivered)
      /\ queue_tail = (queue_head + queue_count + Len(delivered)) % MAX_MESSAGES
  BY IpcAssumption DEF IpcInv, IpcTypeOK, TailDrifts
<1>1. /\ queue_count < MAX_MESSAGES /\ sends < MaxSends
      /\ queue_tail' = (queue_tail + 1) % MAX_MESSAGES
      /\ queue_count' = queue_count + 1 /\ sends' = sends + 1
      /\ queue_head' = queue_head /\ delivered' = delivered
  BY DEF ipc_send, IpcAdvance
<1>2. message_queue' = [message_queue EXCEPT ![queue_tail] = m]
  BY DEF ipc_send
<1>3. sends + 1 \in 1 .. MaxSends
  BY <1>0, <1>1
<1>4. m \in Message /\ m.send # 0
  BY <1>3 DEF Message
<1> HIDE DEF m
<1>5. message_queue' \in [IpcIndex -> Message \cup {BlankMessage}]
  BY <1>0, <1>2, <1>4
<1>6. queue_tail' \in IpcIndex
  BY <1>0, <1>1 DEF IpcIndex
<1>7. queue_count' \in 0 .. MAX_MESSAGES /\ sends' \in 0 .. MaxSends
  BY <1>0, <1>1
<1>8. IpcTypeOK'
  BY <1>0, <1>1, <1>5, <1>6, <1>7 DEF IpcInv, IpcTypeOK
<1>9. TailDrifts'
  <2>1. queue_head + queue_count + Len(delivered) \in Nat
    BY <1>0
  <2>2. (((queue_head + queue_count + Len(delivered)) % MAX_MESSAGES) + 1) % MAX_MESSAGES
           = ((queue_head + queue_count + Len(delivered)) + 1) % MAX_MESSAGES
    BY <1>0, <2>1, ModStep
  <2>3. (queue_head + queue_count + Len(delivered)) + 1
           = queue_head + (queue_count + 1) + Len(delivered)
    BY <1>0
  <2> QED
    BY <1>0, <1>1, <2>2, <2>3 DEF TailDrifts
<1>10. SlotsSent'
  <2> SUFFICES ASSUME NEW s \in IpcIndex, s < (queue_count + 1) + Len(delivered)
               PROVE  message_queue'[s].send # 0
    BY <1>1 DEF SlotsSent
  <2>1. CASE s = queue_tail
    BY <1>0, <1>2, <1>4, <2>1
  <2>2. CASE s # queue_tail
    <3>1. s < queue_count + Len(delivered)
      <4>1. CASE queue_count + Len(delivered) < MAX_MESSAGES
        <5>1. queue_tail = queue_count + Len(delivered)
          BY <1>0, <4>1
        <5> QED
          BY <1>0, <2>2, <5>1 DEF IpcIndex
      <4>2. CASE ~(queue_count + Len(delivered) < MAX_MESSAGES)
        BY <1>0, <4>2 DEF IpcIndex
      <4> QED
        BY <4>1, <4>2
    <3>2. message_queue'[s] = message_queue[s]
      BY <1>0, <1>2, <2>2
    <3> QED
      BY <3>1, <3>2 DEF IpcInv, SlotsSent
  <2> QED
    BY <2>1, <2>2
<1>11. NoPhantomMessage'
  BY <1>1 DEF IpcInv, NoPhantomMessage
<1>12. sends' = queue_count' + Len(delivered')
  BY <1>0, <1>1
<1> QED
  BY <1>0, <1>1, <1>8, <1>9, <1>10, <1>11, <1>12 DEF IpcInv

LEMMA IpcReceiveInv ==
    ASSUME IpcInv, NEW me, NEW sender, ipc_receive(me, sender)
    PROVE  IpcInv'
<1>0. /\ MAX_MESSAGES \in Nat \ {0}
      /\ message_queue \in [IpcIndex -> Message \cup {BlankMessage}]
      /\ queue_head = 0 /\ queue_count \in 0 .. MAX_MESSAGES /\ queue_count \in Int
      /\ Len(delivered) \in Nat
      /\ delivered \in Seq(Message \cup {BlankMessage})
      /\ sends = queue_count + Len(delivered)
  BY IpcAssumption DEF IpcInv, IpcTypeOK
<1>1. PICK i \in 0 .. MAX_MESSAGES :
         /\ Found(i, me, sender)
         /\ delivered' = Append(delivered, message_queue[IpcSlot(i)])
         /\ message_queue' = ShiftedDown(i)
         /\ queue_count' = queue_count - 1
         /\ UNCHANGED <<queue_head, queue_tail, sends>>
  BY DEF ipc_receive
<1>2. i \in 0 .. queue_count - 1
  BY <1>1 DEF Found
<1>3. \A j \in 0 .. queue_count - 1 : IpcSlot(j) = j /\ j \in IpcIndex /\ j < queue_count + Len(delivered)
  BY <1>0 DEF IpcSlot, IpcIndex
<1> DEFINE m == message_queue[i]
<1>4. m \in Message \cup {BlankMessage} /\ m.send # 0
  BY <1>0, <1>2, <1>3 DEF IpcInv, SlotsSent
<1>5. delivered' = Append(delivered, m)
  BY <1>1, <1>2, <1>3
<1> HIDE DEF m
<1>6. /\ delivered' \in Seq(Message \cup {BlankMessage}) /\ Len(delivered') = Len(delivered) + 1
      /\ \A k \in 1 .. Len(delivered) : delivered'[k] = delivered[k]
      /\ delivered'[Len(delivered) + 1] = m
  BY <1>0, <1>4, <1>5
<1>7. NoPhantomMessage'
  <2> SUFFICES ASSUME NEW k \in 1 .. Len(delivered) + 1 PROVE delivered'[k].send # 0
    BY <1>6 DEF NoPhantomMessage
  <2>1. CASE k = Len(delivered) + 1
    BY <1>4, <1>6, <2>1
  <2>2. CASE k # Len(delivered) + 1
    <3>1. k \in 1 .. Len(delivered)
      BY <1>0, <2>2
    <3> QED
      BY <1>6, <3>1 DEF IpcInv, NoPhantomMessage
  <2> QED
    BY <2>1, <2>2
<1>8. ASSUME NEW s \in IpcIndex
      PROVE  \E t \in IpcIndex : /\ message_queue'[s] = message_queue[t]
                                 /\ s < queue_count + Len(delivered) => t < queue_count + Len(delivered)
  <2>1. message_queue'[s] = IF \E j \in i .. queue_count - 2 : s = IpcSlot(j)
                            THEN message_queue[IpcAdvance(s)] ELSE message_queue[s]
    BY <1>1 DEF ShiftedDown
  <2>2. CASE \E j \in i .. queue_count - 2 : s = IpcSlot(j)
    <3>1. PICK j \in i .. queue_count - 2 : s = IpcSlot(j)
      BY <2>2
    <3>2. j \in 0 .. queue_count - 1 /\ j + 1 \in 0 .. queue_count - 1
      BY <1>0, <1>2
    <3>3. s = j /\ j + 1 \in IpcIndex /\ j + 1 < queue_count + Len(delivered)
      BY <1>3, <3>1, <3>2
    <3>4. IpcAdvance(s) = j + 1
      BY <1>0, <3>2, <3>3 DEF IpcAdvance, IpcIndex
    <3> QED
      BY <2>1, <2>2, <3>3, <3>4
  <2>3. CASE ~(\E j \in i .. queue_count - 2 : s = IpcSlot(j))
    BY <2>1, <2>3
  <2> QED
    BY <2>2, <2>3
<1>9. message_queue' \in [IpcIndex -> Message \cup {BlankMessage}]
  <2>1. message_queue' = [s \in IpcIndex |-> message_queue'[s]]
    BY <1>1 DEF ShiftedDown
  <2>2. \A s \in IpcIndex : message_queue'[s] \in Message \cup {BlankMessage}
    BY <1>0, <1>8
  <2> QED
    BY <2>1, <2>2
<1>10. queue_count' \in 0 .. MAX_MESSAGES
  BY <1>0, <1>1, <1>2
<1>11. queue_count' + Len(delivered') = queue_count + Len(delivered)
  BY <1>0, <1>1, <1>6
<1>12. IpcTypeOK'
  BY <1>1, <1>6, <1>9, <1>10 DEF IpcInv, IpcTypeOK
<1>13. queue_head' + queue_count' + Len(delivered') = queue_head + queue_count + Len(delivered)
  BY <1>0, <1>1, <1>6
<1>14. TailDrifts'
  BY <1>1, <1>13 DEF IpcInv, TailDrifts
<1>15. SlotsSent'
  BY <1>8, <1>11 DEF IpcInv, SlotsSent
<1> QED
  BY <1>0, <1>1, <1>7, <1>11, <1>12, <1>14, <1>15 DEF IpcInv

LEMMA IpcInvAlways == IpcSpec => []IpcInv
<1>1. IpcInv /\ [IpcNext]_ipcVars => IpcInv'
  <2> SUFFICES ASSUME IpcInv, [IpcNext]_ipcVars PROVE IpcInv'
    OBVIOUS
  <2>1. CASE UNCHANGED ipcVars
    BY <2>1 DEF ipcVars, IpcInv, IpcTypeOK, TailDrifts, SlotsSent, NoPhantomMessage
  <2> QED
    BY <2>1, IpcSendInv, IpcReceiveInv DEF IpcNext
<1> QED
  BY <1>1, IpcInitInv, PTL DEF IpcSpec

(* In kernel/ipc.c the tail runs ahead of the messages by one slot for every receive,
   and by no more, for every size of the queue. *)
THEOREM TailDriftsAlways == IpcSpec => [](TailDrifts /\ IpcTypeOK)
BY IpcInvAlways, PTL DEF IpcInv

(* Although the tail drifts away from the slots that ipc_receive searches, it never
   delivers the blank content of a slot nobody has written. *)
THEOREM NoPhantomMessageAlways == IpcSpec => []NoPhantomMessage
BY IpcInvAlways, PTL DEF IpcInv

-----------------------------------------------------------------------------
(* The block device: the blocks that can be selected are those of its one page, also
   where the page is larger than the device. *)

LEMMA BlockEnds ==
    ASSUME NEW b \in Nat \ {0}, NEW x \in Nat, NEW y \in Nat, x < y
    PROVE  x * b + b <= b * y /\ x * b \in Nat /\ b * y \in Nat
<1>1. y - (x + 1) \in Nat
  OBVIOUS
<1>2. b * (y - (x + 1)) \in Nat /\ x * b \in Nat /\ b * y \in Nat
  BY <1>1
<1>3. b * (y - (x + 1)) = b * y - (x * b + b)
  OBVIOUS
<1> QED
  BY <1>2, <1>3

BlockInv ==
    /\ block_count \in Nat /\ block_count <= PageBlocks /\ block_count <= NUM_BLOCKS
    /\ current_block \in Nat /\ current_block < PageBlocks /\ current_block < NUM_BLOCKS
    /\ block_moved \in 0 .. IoWord - 1

LEMMA BlockConstants ==
    /\ CHAR_BUFFER_SIZE \in Nat \ {0} /\ BLOCK_SIZE \in Nat \ {0}
    /\ PageBlocks \in Nat \ {0} /\ NUM_BLOCKS \in Nat \ {0}
    /\ MaxTransfer \in Nat
BY DeviceIOAssumption

(* A transfer goes over less than IoWord bytes: the selected block starts inside the
   device, so that the difference the size is cut to is not negative. *)
LEMMA TransferSize ==
    ASSUME BlockInv, NEW size \in BlockTransfer
    PROVE  /\ DEVICE_SIZE - current_block * BLOCK_SIZE \in 0 .. IoWord - 1
           /\ size \in 0 .. IoWord - 1
<1>1. current_block * BLOCK_SIZE + BLOCK_SIZE <= BLOCK_SIZE * NUM_BLOCKS
      /\ current_block * BLOCK_SIZE \in Nat /\ BLOCK_SIZE * NUM_BLOCKS \in Nat
  BY BlockEnds, BlockConstants DEF BlockInv
<1>2. IoWord \in Nat /\ IoWord > BLOCK_SIZE * NUM_BLOCKS /\ BlockTransfer \subseteq 0 .. IoWord - 1
  BY DeviceIOAssumption
<1> QED
  BY <1>1, <1>2, BlockConstants DEF DEVICE_SIZE

LEMMA BlockNextInv == BlockInv /\ [IoNext]_ioVars => BlockInv'
<1> SUFFICES ASSUME BlockInv, [IoNext]_ioVars PROVE BlockInv'
  OBVIOUS
<1>1. CASE block_device_init
  <2>1. block_count' = 0 /\ current_block' = 0 /\ block_moved' = block_moved
    BY <1>1 DEF block_device_init
  <2> QED
    BY <2>1, BlockConstants DEF BlockInv
<1>2. CASE block_open_device
  <2>1. /\ current_block' = 0 /\ block_moved' = block_moved
        /\ block_count' = IF DEVICE_SIZE > PAGE_SIZE THEN PageBlocks ELSE NUM_BLOCKS
    BY <1>2 DEF block_open_device
  <2>2. DEVICE_SIZE > PAGE_SIZE => PageBlocks <= NUM_BLOCKS
    <3>1. NUM_BLOCKS < PageBlocks => NUM_BLOCKS * BLOCK_SIZE + BLOCK_SIZE <= BLOCK_SIZE * PageBlocks
      BY BlockConstants, BlockEnds
    <3>2. NUM_BLOCKS * BLOCK_SIZE = BLOCK_SIZE * NUM_BLOCKS /\ NUM_BLOCKS * BLOCK_SIZE \in Nat
          /\ BLOCK_SIZE * PageBlocks \in Nat
      BY BlockConstants
    <3> QED
      BY <3>1, <3>2, BlockConstants DEF DEVICE_SIZE, PAGE_SIZE
  <2>3. ~(DEVICE_SIZE > PAGE_SIZE) => NUM_BLOCKS <= PageBlocks
    <3>1. PageBlocks < NUM_BLOCKS => PageBlocks * BLOCK_SIZE + BLOCK_SIZE <= BLOCK_SIZE * NUM_BLOCKS
      BY BlockConstants, BlockEnds
    <3>2. PageBlocks * BLOCK_SIZE = BLOCK_SIZE * PageBlocks /\ PageBlocks * BLOCK_SIZE \in Nat
          /\ BLOCK_SIZE * NUM_BLOCKS \in Nat
      BY BlockConstants
    <3> QED
      BY <3>1, <3>2, BlockConstants DEF DEVICE_SIZE, PAGE_SIZE
  <2> QED
    BY <2>1, <2>2, <2>3, BlockConstants DEF BlockInv
<1>3. ASSUME NEW block \in 0 .. NUM_BLOCKS, block_ioctl_set(block) PROVE BlockInv'
  BY <1>3, BlockConstants DEF block_ioctl_set, BlockInv
<1>4. ASSUME UNCHANGED <<block_count, current_block, block_moved>> PROVE BlockInv'
  BY <1>4 DEF BlockInv
<1>5. ASSUME NEW size \in BlockTransfer, block_transfer(size) PROVE BlockInv'
  <2>1. UNCHANGED <<block_count, current_block>>
        /\ block_moved' \in {DEVICE_SIZE - current_block * BLOCK_SIZE, size}
    BY <1>5 DEF block_transfer
  <2>2. block_moved' \in 0 .. IoWord - 1
    BY <2>1, TransferSize
  <2> QED
    BY <2>1, <2>2 DEF BlockInv
<1> QED
  BY <1>1, <1>2, <1>3, <1>4, <1>5
     DEF IoNext, ioVars, blockVars, char_device_init, char_clear, char_read, char_write,
         device_unregister

LEMMA BlockInitInv == IoInit => BlockInv
<1> SUFFICES ASSUME IoInit PROVE BlockInv
  OBVIOUS
<1>1. block_count = 0 /\ current_block = 0 /\ block_moved = 0
  BY DEF IoInit
<1>2. 0 \in 0 .. IoWord - 1
  BY DeviceIOAssumption
<1> QED
  BY <1>1, <1>2, BlockConstants DEF BlockInv

-----------------------------------------------------------------------------
(* The character device as a stream. *)

LEMMA RingSum ==
    ASSUME NEW n \in Nat \ {0}, NEW r \in 0 .. n - 1, NEW a \in Nat, NEW b \in Nat, a + b <= n
    PROVE  /\ (r + a) % n \in 0 .. n - 1
           /\ (((r + a) % n) + b) % n = (r + (a + b)) % n
<1> DEFINE m(x) == x % n
<1>1. \A x \in 0 .. 2 * n - 1 : m(x) = IF x < n THEN x ELSE x - n
  BY ModOnce
<1>2. m(r + a) \in 0 .. n - 1 /\ m(m(r + a) + b) = m(r + (a + b))
  <2> HIDE DEF m
  <2> QED
    BY <1>1
<1> QED
  BY <1>2

LEMMA RingInjective ==
    ASSUME NEW n \in Nat \ {0}, NEW r \in 0 .. n - 1, NEW a \in 0 .. n - 1,
           NEW b \in 0 .. n - 1, (r + a) % n = (r + b) % n
    PROVE  a = b
<1> DEFINE m(x) == x % n
<1>1. \A x \in 0 .. 2 * n - 1 : m(x) = IF x < n THEN x ELSE x - n
  BY ModOnce
<1>2. m(r + a) = m(r + b) => a = b
  <2> HIDE DEF m
  <2> QED
    BY <1>1
<1> QED
  BY <1>2

LEMMA IsSubSeq ==
    ASSUME NEW S, NEW s \in Seq(S), NEW t \in Seq(S), NEW k \in Nat, NEW l \in Nat,
           k + l <= Len(s), Len(t) = l, \A i \in 1 .. l : t[i] = s[k + i]
    PROVE  t = SubSeq(s, k + 1, k + l)
OBVIOUS

LEMMA IsConcat ==
    ASSUME NEW S, NEW s \in Seq(S), NEW t \in Seq(S), NEW u \in Seq(S),
           Len(u) = Len(s) + Len(t), \A i \in 1 .. Len(s) : u[i] = s[i],
           \A i \in 1 .. Len(t) : u[Len(s) + i] = t[i]
    PROVE  u = s \o t
OBVIOUS

CharByte == Byte \cup {0}

CharInv ==
    /\ char_buffer \in [CharIndex -> CharByte]
    /\ char_read_pos \in CharIndex
    /\ char_count \in 0 .. CHAR_BUFFER_SIZE
    /\ char_write_pos = (char_read_pos + char_count) % CHAR_BUFFER_SIZE

LEMMA BufferIsSeq ==
    ASSUME NEW buf \in Buffers
    PROVE  buf \in Seq(Byte) /\ Len(buf) \in Nat
<1>1. PICK n \in 0 .. MaxTransfer : buf \in [1 .. n -> Byte]
  BY DEF Buffers
<1>2. n \in Nat
  BY BlockConstants
<1> QED
  BY <1>1, <1>2

(* What a write leaves in the ring: the bytes that waited are where they were, the
   bytes that fit follow them. *)
LEMMA CharWriteBytes ==
    ASSUME CharInv, NEW buf \in Buffers, char_write(buf),
           NEW n, n = Lesser(Len(buf), CharRoom)
    PROVE  /\ n \in Nat /\ n <= Len(buf) /\ char_count + n <= CHAR_BUFFER_SIZE
           /\ char_buffer' \in [CharIndex -> CharByte]
           /\ \A i \in 1 .. char_count :
                 char_buffer'[(char_read_pos + i - 1) % CHAR_BUFFER_SIZE]
                    = char_buffer[(char_read_pos + i - 1) % CHAR_BUFFER_SIZE]
           /\ \A i \in 1 .. n :
                 char_buffer'[(char_read_pos + (char_count + i) - 1) % CHAR_BUFFER_SIZE] = buf[i]
<1> DEFINE N == CHAR_BUFFER_SIZE
           c == char_count
           r == char_read_pos
           w == char_write_pos
           P(k) == \E i \in 1 .. n : CharPos(w, i - 1) = k
<1>0. /\ N \in Nat \ {0} /\ r \in 0 .. N - 1 /\ c \in 0 .. N /\ w = (r + c) % N
      /\ char_buffer \in [CharIndex -> CharByte]
  BY BlockConstants DEF CharInv, CharIndex
<1>1. n \in Nat /\ n <= Len(buf) /\ c + n <= N /\ buf \in Seq(Byte)
  BY <1>0, BufferIsSeq DEF Lesser, CharRoom
<1>2. char_buffer' = [k \in CharIndex |->
                        IF P(k) THEN buf[CHOOSE i \in 1 .. n : CharPos(w, i - 1) = k]
                        ELSE char_buffer[k]]
  BY DEF char_write
<1>3. ASSUME NEW i \in 1 .. n
      PROVE  CharPos(w, i - 1) = (r + (c + (i - 1))) % N
  <2>1. i - 1 \in Nat /\ c + (i - 1) <= N /\ c \in Nat
    BY <1>0, <1>1
  <2>2. (((r + c) % N) + (i - 1)) % N = (r + (c + (i - 1))) % N
    BY <1>0, <2>1, RingSum
  <2> QED
    BY <1>0, <2>2 DEF CharPos
<1>4. ASSUME NEW i \in 1 .. n, NEW j \in 1 .. n, CharPos(w, i - 1) = CharPos(w, j - 1)
      PROVE  i = j
  <2>1. c + (i - 1) \in 0 .. N - 1 /\ c + (j - 1) \in 0 .. N - 1
    BY <1>0, <1>1
  <2>2. (r + (c + (i - 1))) % N = (r + (c + (j - 1))) % N
    BY <1>3, <1>4
  <2>3. c + (i - 1) = c + (j - 1)
    BY <1>0, <2>1, <2>2, RingInjective
  <2> QED
    BY <1>0, <2>3
<1>5. ASSUME NEW k \in CharIndex, P(k)
      PROVE  /\ (CHOOSE i \in 1 .. n : CharPos(w, i - 1) = k) \in 1 .. n
             /\ CharPos(w, (CHOOSE i \in 1 .. n : CharPos(w, i - 1) = k) - 1) = k
  BY <1>5
<1>6. ASSUME NEW i \in 1 .. n
      PROVE  char_buffer'[(r + (c + i) - 1) % N] = buf[i]
  <2> DEFINE k == CharPos(w, i - 1)
             j == CHOOSE j \in 1 .. n : CharPos(w, j - 1) = k
  <2>1. r + (c + i) - 1 = r + (c + (i - 1))
    BY <1>0, <1>1
  <2>2. k = (r + (c + i) - 1) % N
    BY <1>3, <2>1
  <2>3. k \in CharIndex
    BY <1>0, <1>1, <2>2 DEF CharIndex
  <2>4. P(k)
    OBVIOUS
  <2>5. j \in 1 .. n /\ CharPos(w, j - 1) = k
    BY <1>5, <2>3, <2>4
  <2>6. j = i
    BY <1>4, <2>5
  <2>7. char_buffer'[k] = buf[j]
    BY <1>2, <2>3, <2>4
  <2> QED
    BY <2>2, <2>6, <2>7
<1>7. ASSUME NEW i \in 1 .. c
      PROVE  char_buffer'[(r + i - 1) % N] = char_buffer[(r + i - 1) % N]
  <2>1. (r + i - 1) % N \in CharIndex
    BY <1>0, RingItems DEF CharIndex
  <2>2. ~P((r + i - 1) % N)
    <3> SUFFICES ASSUME NEW j \in 1 .. n, CharPos(w, j - 1) = (r + i - 1) % N PROVE FALSE
      OBVIOUS
    <3>1. r + i - 1 = r + (i - 1) /\ i - 1 \in 0 .. N - 1 /\ c + (j - 1) \in 0 .. N - 1
          /\ i - 1 # c + (j - 1)
      BY <1>0, <1>1
    <3>2. (r + (i - 1)) % N = (r + (c + (j - 1))) % N
      BY <1>3, <3>1
    <3> QED
      BY <1>0, <3>1, <3>2, RingInjective
  <2> QED
    BY <1>2, <2>1, <2>2
<1>8. char_buffer' \in [CharIndex -> CharByte]
  <2>1. \A i \in 1 .. n : buf[i] \in CharByte
    BY <1>1 DEF CharByte
  <2>2. ASSUME NEW k \in CharIndex PROVE char_buffer'[k] \in CharByte
    <3>1. CASE P(k)
      BY <1>2, <1>5, <2>1, <3>1
    <3>2. CASE ~P(k)
      BY <1>0, <1>2, <3>2
    <3> QED
      BY <3>1, <3>2
  <2>3. char_buffer' = [k \in CharIndex |-> char_buffer'[k]]
    BY <1>2
  <2> QED
    BY <2>2, <2>3
<1> QED
  BY <1>1, <1>6, <1>7, <1>8

LEMMA CharResetInv ==
    ASSUME CharInv, CharReset
    PROVE  CharInv' /\ char_count' = 0
<1>1. /\ char_read_pos' = 0 /\ char_write_pos' = 0 /\ char_count' = 0
      /\ char_buffer' = char_buffer
  BY DEF CharReset
<1>2. 0 \in CharIndex /\ 0 \in 0 .. CHAR_BUFFER_SIZE /\ (0 + 0) % CHAR_BUFFER_SIZE = 0
  BY BlockConstants DEF CharIndex
<1> QED
  BY <1>1, <1>2 DEF CharInv

LEMMA CharReadFacts ==
    ASSUME CharInv, NEW size \in 0 .. MaxTransfer, char_read(size),
           NEW n, n = Lesser(size, char_count)
    PROVE  /\ n \in Nat /\ n <= char_count
           /\ char_count' = char_count - n /\ char_buffer' = char_buffer
           /\ CharInv'
           /\ \A i \in 1 .. char_count - n :
                 (char_read_pos' + i - 1) % CHAR_BUFFER_SIZE
                    = (char_read_pos + (n + i) - 1) % CHAR_BUFFER_SIZE
<1> DEFINE N == CHAR_BUFFER_SIZE
           c == char_count
           r == char_read_pos
<1>0. /\ N \in Nat \ {0} /\ r \in 0 .. N - 1 /\ c \in 0 .. N /\ char_write_pos = (r + c) % N
      /\ char_buffer \in [CharIndex -> CharByte]
  BY BlockConstants DEF CharInv, CharIndex
<1> DEFINE d == c - n
<1>1. n \in Nat /\ n <= c /\ d \in Nat /\ n + d = c /\ d \in 0 .. N
  BY <1>0, BlockConstants DEF Lesser
<1>2. /\ char_read_pos' = (r + n) % N /\ char_count' = d
      /\ char_buffer' = char_buffer /\ char_write_pos' = char_write_pos
  BY DEF char_read, CharPos
<1>3. (r + n) % N \in 0 .. N - 1 /\ (((r + n) % N) + d) % N = (r + (n + d)) % N
  <2> HIDE DEF d
  <2>1. n + d <= N
    BY <1>0, <1>1
  <2> QED
    BY <1>0, <1>1, <2>1, RingSum
<1>5. CharInv'
  <2> HIDE DEF d
  <2> QED
    BY <1>0, <1>1, <1>2, <1>3 DEF CharInv, CharIndex
<1>6. ASSUME NEW i \in 1 .. c - n
      PROVE  (((r + n) % N) + i - 1) % N = (r + (n + i) - 1) % N
  <2>1. /\ i - 1 \in Nat /\ n + (i - 1) <= N
        /\ r + (n + i) - 1 = r + (n + (i - 1))
        /\ \A x \in Nat : x + i - 1 = x + (i - 1)
    BY <1>0, <1>1
  <2>2. (((r + n) % N) + (i - 1)) % N = (r + (n + (i - 1))) % N
    BY <1>0, <1>1, <2>1, RingSum
  <2>3. (r + n) % N \in Nat
    BY <1>0, <1>3
  <2> QED
    BY <2>1, <2>2, <2>3
<1> QED
  BY <1>1, <1>2, <1>5, <1>6

LEMMA CharWriteInv ==
    ASSUME CharInv, NEW buf \in Buffers, char_write(buf)
    PROVE  CharInv'
<1> DEFINE N == CHAR_BUFFER_SIZE
           n == Lesser(Len(buf), CharRoom)
<1>0. /\ N \in Nat \ {0} /\ char_read_pos \in 0 .. N - 1 /\ char_count \in 0 .. N
      /\ char_write_pos = (char_read_pos + char_count) % N
  BY BlockConstants DEF CharInv, CharIndex
<1>1. n \in Nat /\ char_count + n <= N /\ char_buffer' \in [CharIndex -> CharByte]
  BY CharWriteBytes
<1>2. /\ char_write_pos' = (char_write_pos + n) % N /\ char_count' = char_count + n
      /\ char_read_pos' = char_read_pos
  BY DEF char_write, CharPos
<1> HIDE DEF n
<1>3. (((char_read_pos + char_count) % N) + n) % N = (char_read_pos + (char_count + n)) % N
  BY <1>0, <1>1, RingSum
<1>4. char_count + n \in 0 .. N
  BY <1>0, <1>1
<1> QED
  BY <1>0, <1>1, <1>2, <1>3, <1>4 DEF CharInv, CharIndex

LEMMA CharInitInv == IoInit => CharInv
<1> SUFFICES ASSUME IoInit PROVE CharInv
  OBVIOUS
<1>1. 0 \in CharIndex /\ 0 \in 0 .. CHAR_BUFFER_SIZE /\ (0 + 0) % CHAR_BUFFER_SIZE = 0
  BY BlockConstants DEF CharIndex
<1> QED
  BY <1>1 DEF IoInit, CharInv, CharByte

LEMMA CharNextInv == CharInv /\ [IoNext]_ioVars => CharInv'
<1> SUFFICES ASSUME CharInv, [IoNext]_ioVars PROVE CharInv'
  OBVIOUS
<1>1. ASSUME UNCHANGED charVars PROVE CharInv'
  BY <1>1 DEF charVars, CharInv
<1>2. CASE char_device_init \/ char_clear
  BY <1>2, CharResetInv DEF char_device_init, char_clear
<1>3. ASSUME NEW size \in 0 .. MaxTransfer, char_read(size) PROVE CharInv'
  BY <1>3, CharReadFacts
<1>4. ASSUME NEW buf \in Buffers, char_write(buf) PROVE CharInv'
  BY <1>4, CharWriteInv
<1> QED
  BY <1>1, <1>2, <1>3, <1>4
     DEF IoNext, ioVars, block_device_init, block_open_device, block_ioctl_set, block_transfer,
         device_unregister

(* The bytes that wait in the character device, oldest first. *)
CharStream ==
    [i \in 1 .. char_count |-> char_buffer[(char_read_pos + i - 1) % CHAR_BUFFER_SIZE]]

CharShape ==
    /\ CharStream \in Seq(CharByte) /\ Len(CharStream) = char_count
    /\ \A i \in 1 .. char_count :
          CharStream[i] = char_buffer[(char_read_pos + i - 1) % CHAR_BUFFER_SIZE]

LEMMA CharStreamShape == CharInv => CharShape
<1> SUFFICES ASSUME CharInv PROVE CharShape
  OBVIOUS
<1>0. CHAR_BUFFER_SIZE \in Nat \ {0} /\ char_count \in 0 .. CHAR_BUFFER_SIZE
      /\ char_read_pos \in 0 .. CHAR_BUFFER_SIZE - 1
  BY BlockConstants DEF CharInv, CharIndex
<1>1. \A i \in 1 .. char_count : (char_read_pos + i - 1) % CHAR_BUFFER_SIZE \in CharIndex
  BY <1>0, RingItems DEF CharIndex
<1>2. char_count \in Nat
  BY <1>0
<1> QED
  BY <1>1, <1>2 DEF CharStream, CharInv, CharShape

LEMMA CharInitRefines == IoInit => Stream!Init
<1> SUFFICES ASSUME IoInit PROVE Stream!Init
  OBVIOUS
<1>1. CharShape /\ char_count = 0
  BY CharInitInv, CharStreamShape DEF IoInit
<1>2. CharStream = <<>>
  BY <1>1 DEF CharShape
<1> QED
  BY <1>2 DEF IoInit, Stream!Init, CharStream

LEMMA CharNextRefines ==
    CharInv /\ CharShape /\ CharShape' /\ [IoNext]_ioVars
       => [Stream!Next]_<<CharStream, char_got>>
<1> SUFFICES ASSUME CharInv, CharShape, CharShape', [IoNext]_ioVars
             PROVE  Stream!Next \/ UNCHANGED <<CharStream, char_got>>
  OBVIOUS
<1>0. char_count \in Nat /\ CHAR_BUFFER_SIZE \in Nat
  BY BlockConstants DEF CharInv
<1>1. ASSUME UNCHANGED charVars PROVE UNCHANGED <<CharStream, char_got>>
  BY <1>1 DEF charVars, CharStream
<1>2. CASE char_device_init \/ char_clear
  <2>1. CharReset
    BY <1>2 DEF char_device_init, char_clear
  <2>2. CharStream' = <<>> /\ char_got' = char_got
    BY <2>1 DEF CharReset, CharShape
  <2>3. Stream!Clear
    BY <2>2 DEF Stream!Clear, CharStream
  <2> QED
    BY <2>3 DEF Stream!Next
<1>3. ASSUME NEW size \in 0 .. MaxTransfer, char_read(size) PROVE Stream!Next
  <2> DEFINE n == Lesser(size, char_count)
  <2>1. /\ n \in Nat /\ n <= char_count
        /\ char_count' = char_count - n /\ char_buffer' = char_buffer
        /\ \A i \in 1 .. char_count - n :
              (char_read_pos' + i - 1) % CHAR_BUFFER_SIZE
                 = (char_read_pos + (n + i) - 1) % CHAR_BUFFER_SIZE
    BY <1>3, CharReadFacts
  <2>2. char_got' = [i \in 1 .. n |-> char_buffer[CharPos(char_read_pos, i - 1)]]
    BY <1>3 DEF char_read
  <2>3. Stream!Shorter(size, Len(CharStream)) = n
    BY DEF Stream!Shorter, Lesser, CharShape
  <2> HIDE DEF n
  <2>4. \A i \in 1 .. n : i \in 1 .. char_count /\ char_read_pos + (i - 1) = char_read_pos + i - 1
    BY <1>0, <2>1, BlockConstants DEF CharInv, CharIndex
  <2>5. \A i \in 1 .. n : char_buffer[CharPos(char_read_pos, i - 1)] = CharStream[i]
    BY <2>4 DEF CharPos, CharShape
  <2>6. \A i \in 1 .. char_count : CharStream[i] \in CharByte
    BY <1>0 DEF CharShape
  <2>7. char_got' \in Seq(CharByte) /\ Len(char_got') = n
        /\ \A i \in 1 .. n : char_got'[i] = CharStream[0 + i]
    BY <2>1, <2>2, <2>4, <2>5, <2>6
  <2>8. char_got' = SubSeq(CharStream, 0 + 1, 0 + n)
    <3>1. 0 + n <= Len(CharStream) /\ 0 \in Nat /\ n \in Nat
      BY <1>0, <2>1 DEF CharShape
    <3> QED
      BY <2>7, <3>1, IsSubSeq DEF CharShape
  <2>9. char_got' = SubSeq(CharStream, 1, n)
    BY <2>1, <2>8
  <2>10. \A i \in 1 .. char_count - n : n + i \in 1 .. char_count
    BY <1>0, <2>1
  <2>11. \A i \in 1 .. char_count - n : CharStream'[i] = CharStream[n + i]
    BY <2>1, <2>10 DEF CharShape
  <2>12. CharStream' = SubSeq(CharStream, n + 1, n + (char_count - n))
    <3>1. n \in Nat /\ char_count - n \in Nat /\ n + (char_count - n) <= Len(CharStream)
          /\ Len(CharStream') = char_count - n
      BY <1>0, <2>1 DEF CharShape
    <3> QED
      BY <2>11, <3>1, IsSubSeq DEF CharShape
  <2>13. n + (char_count - n) = Len(CharStream)
    BY <1>0, <2>1 DEF CharShape
  <2>14. Stream!Read(size)
    BY <2>3, <2>9, <2>12, <2>13 DEF Stream!Read, CharStream
  <2> QED
    BY <2>14 DEF Stream!Next
<1>4. ASSUME NEW buf \in Buffers, char_write(buf) PROVE Stream!Next
  <2> DEFINE n == Lesser(Len(buf), CharRoom)
             new == SubSeq(buf, 1, n)
  <2>1. /\ n \in Nat /\ n <= Len(buf) /\ char_count + n <= CHAR_BUFFER_SIZE
        /\ \A i \in 1 .. char_count :
              char_buffer'[(char_read_pos + i - 1) % CHAR_BUFFER_SIZE]
                 = char_buffer[(char_read_pos + i - 1) % CHAR_BUFFER_SIZE]
        /\ \A i \in 1 .. n :
              char_buffer'[(char_read_pos + (char_count + i) - 1) % CHAR_BUFFER_SIZE] = buf[i]
    BY <1>4, CharWriteBytes
  <2>2. /\ char_count' = char_count + n /\ char_read_pos' = char_read_pos
        /\ char_got' = char_got
    BY <1>4 DEF char_write
  <2>3. Stream!Shorter(Len(buf), CHAR_BUFFER_SIZE - Len(CharStream)) = n
    BY DEF Stream!Shorter, Lesser, CharShape, CharRoom
  <2> HIDE DEF n
  <2>4. buf \in Seq(CharByte) /\ Len(buf) \in Nat
    BY BufferIsSeq DEF CharByte
  <2>5. new \in Seq(CharByte) /\ Len(new) = n /\ \A i \in 1 .. n : new[i] = buf[i]
    BY <2>1, <2>4
  <2> HIDE DEF new
  <2>6. \A i \in 1 .. char_count : i \in 1 .. char_count + n
    BY <1>0, <2>1
  <2>7. \A i \in 1 .. char_count : CharStream'[i] = CharStream[i]
    BY <2>1, <2>2, <2>6 DEF CharShape
  <2>8. \A i \in 1 .. n : char_count + i \in 1 .. char_count + n
    BY <1>0, <2>1
  <2>9. \A i \in 1 .. n : CharStream'[char_count + i] = buf[i]
    BY <2>1, <2>2, <2>8 DEF CharShape
  <2>10. CharStream' = CharStream \o new
    <3>1. /\ CharStream \in Seq(CharByte) /\ CharStream' \in Seq(CharByte)
          /\ Len(CharStream) = char_count /\ Len(CharStream') = Len(CharStream) + Len(new)
      BY <2>2, <2>5 DEF CharShape
    <3>2. \A i \in 1 .. Len(new) : CharStream'[Len(CharStream) + i] = new[i]
      BY <2>5, <2>9, <3>1
    <3> QED
      BY <2>5, <2>7, <3>1, <3>2, IsConcat
  <2>11. Stream!Write(buf)
    BY <2>2, <2>3, <2>10 DEF Stream!Write, CharStream, new
  <2>12. buf \in Stream!Buffers
    BY DEF Buffers, Stream!Buffers
  <2> QED
    BY <2>11, <2>12 DEF Stream!Next
<1> QED
  BY <1>1, <1>2, <1>3, <1>4
     DEF IoNext, ioVars, block_device_init, block_open_device, block_ioctl_set, block_transfer,
         device_unregister

(* The character device of char_device.c implements a byte stream, for every size of
   its buffer: in any mixture of partial reads and writes around the end of the buffer
   the bytes arrive once and in order. *)
THEOREM CharDeviceImplementsStream == IoSpec => ImplementsStream
<1>1. IoSpec => []CharInv
  BY CharInitInv, CharNextInv, PTL DEF IoSpec
<1>2. IoSpec => []CharShape
  BY <1>1, CharStreamShape, PTL
<1>3. CharInv /\ CharShape /\ CharShape' /\ [IoNext]_ioVars
         => [Stream!Next]_<<[i \in 1 .. char_count |->
                char_buffer[(char_read_pos + i - 1) % CHAR_BUFFER_SIZE]], char_got>>
  BY CharNextRefines DEF CharStream
<1> QED
  BY <1>1, <1>2, <1>3, CharInitRefines, PTL DEF IoSpec, ImplementsStream, Stream!Spec

-----------------------------------------------------------------------------
(* The four components together. *)

IoInv == registered \subseteq {"char0", "block0"} /\ CharInv /\ BlockInv

LEMMA IoInvAlways == IoSpec => []IoInv
<1>1. IoInit => registered \subseteq {"char0", "block0"}
  BY DEF IoInit
<1>2. registered \subseteq {"char0", "block0"} /\ [IoNext]_ioVars
         => (registered \subseteq {"char0", "block0"})'
  BY DEF IoNext, ioVars, char_device_init, block_device_init, char_clear, char_read, char_write,
         block_open_device, block_ioctl_set, block_transfer, device_unregister
<1> QED
  BY <1>1, <1>2, CharInitInv, CharNextInv, BlockInitInv, BlockNextInv, PTL DEF IoSpec, IoInv

LEMMA IoTypes == IoInv => IoTypeOK
<1> SUFFICES ASSUME IoInv PROVE IoTypeOK
  OBVIOUS
<1>1. char_write_pos \in CharIndex
  BY BlockConstants DEF IoInv, CharInv, CharIndex
<1>2. block_count \in 0 .. NUM_BLOCKS /\ current_block \in 0 .. NUM_BLOCKS - 1
      /\ block_moved \in 0 .. IoWord - 1
  BY BlockConstants DEF IoInv, BlockInv
<1> QED
  BY <1>1, <1>2 DEF IoInv, CharInv, CharByte, IoTypeOK

(* Each component runs by its own specification. *)
LEMMA QueuesImplementComponents == QueuesSpec => Spec /\ KeySpec /\ IpcSpec /\ IoSpec
<1>1. QueuesInit => Init /\ KeyInit /\ IpcInit /\ IoInit
  BY DEF QueuesInit
<1>2. [QueuesNext]_<<vars, keyVars, ipcVars, ioVars>>
         => [Next]_vars /\ [KeyNext]_keyVars /\ [IpcNext]_ipcVars /\ [IoNext]_ioVars
  BY DEF QueuesNext, network_steps, keyboard_steps, ipc_steps, device_steps
<1> QED
  BY <1>1, <1>2, PTL DEF QueuesSpec, Spec, KeySpec, IpcSpec, IoSpec

(* The indices and counters of the four components stay in range whatever the sizes of
   their buffers. *)
THEOREM QueuesTypeCorrect == QueuesSpec => []QueuesTypeOK
<1>1. QueuesSpec => []IoTypeOK
  BY QueuesImplementComponents, IoInvAlways, IoTypes, PTL
<1> QED
  BY <1>1, QueuesImplementComponents, TypeCorrect, KeyTypeAlways, IpcInvAlways, PTL
     DEF QueuesTypeOK, IpcInv
=============================================================================
