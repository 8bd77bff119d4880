------------------------------ MODULE Console ------------------------------
(***************************************************************************)
(* kernel/shell.c on the screen of drivers/vga.c: the line editor, the     *)
(* execution of a command and the prompt, with the digit that the timer    *)
(* interrupt (drivers/timer.c) stores into the bottom row behind the       *)
(* driver's back.                                                          *)
(*                                                                         *)
(* Commands are abstracted to what they do to the screen: clear clears it, *)
(* the others print.  The UART holds one received byte.  Mouse adds the    *)
(* handler that draws the pointer on the same screen.                      *)
(***************************************************************************)
EXTENDS Vga

CONSTANTS
    SHELL_BUFFER_SIZE,  \* bytes of input_buffer, the terminating zero included (256)
    Prompt,             \* what the shell prints before it reads a line
    Printable,          \* the printable characters that are typed, Blank among them
    ClearCommand,       \* the command line "clear"
    DigitCol            \* the column of the timer's digit (70)

ASSUME ConsoleAssumption ==
    /\ SHELL_BUFFER_SIZE \in Nat \ {0}
    /\ DigitCol \in Col
    /\ Printable \cap Control = {}
    /\ Prompt \in Seq(STRING \ Control)

VARIABLES
    screen,
    input_buffer,  \* the characters of the line, buffer_pos of them
    plain,         \* only printable characters were typed on this line
    marks,         \* what interrupts have put on the screen since the prompt
    uart           \* the byte received on the serial port: <<>> or <<c>>

consoleVars == <<screen, input_buffer, plain, marks, uart>>

Stored == Printable \cup {"tab", "control"}
Received == Printable \cup {"newline", "return", "backspace"}

(* vga_init, and the first prompt of shell_run. *)
FirstScreen == vga_print(vga_clear, Prompt)

ConsoleInit ==
    /\ screen = FirstScreen
    /\ input_buffer = <<>>
    /\ plain = TRUE
    /\ marks = {}
    /\ uart = <<>>

(* Trailing blanks and control characters are cut off before execution. *)
Trimmed(line) ==
    LET keep == {n \in 1 .. Len(line) : line[n] \notin {Blank, "tab", "control"}}
    IN  IF keep = {} THEN <<>>
        ELSE SubSeq(line, 1, CHOOSE n \in keep : \A m \in keep : m <= n)

(* shell_execute_command; the unknown command stands for all that print. *)
shell_execute_command(s, command) ==
    IF command = <<>> THEN s
    ELSE IF command = ClearCommand THEN vga_clear
    ELSE vga_print(s, <<"'">> \o command \o <<"newline">>)

NextLine(s, line) ==
    vga_print(shell_execute_command(vga_putchar(s, "newline"), Trimmed(line)), Prompt)

shell_enter ==
    /\ screen' = NextLine(screen, input_buffer)
    /\ input_buffer' = <<>>
    /\ plain' = TRUE
    /\ marks' = {}

shell_backspace_unchecked ==
    /\ input_buffer' = IF input_buffer = <<>> THEN <<>>
                       ELSE SubSeq(input_buffer, 1, Len(input_buffer) - 1)
    /\ screen' = vga_putchar(screen, "backspace")
    /\ UNCHANGED <<plain, marks>>

shell_backspace ==
    IF input_buffer # <<>>
    THEN /\ input_buffer' = SubSeq(input_buffer, 1, Len(input_buffer) - 1)
         /\ screen' = vga_putchar(screen, "backspace")
         /\ UNCHANGED <<plain, marks>>
    ELSE UNCHANGED <<screen, input_buffer, plain, marks>>

(* A character is stored and echoed unless the buffer is full. *)
shell_store(c) ==
    IF Len(input_buffer) < SHELL_BUFFER_SIZE - 1
    THEN /\ input_buffer' = Append(input_buffer, c)
         /\ screen' = vga_putchar(screen, c)
         /\ plain' = (plain /\ c \in Printable)
         /\ UNCHANGED marks
    ELSE UNCHANGED <<screen, input_buffer, plain, marks>>

(* One round of the loop of shell_run. *)
shell_char(c) ==
    CASE c \in {"newline", "return"} -> shell_enter
      [] c = "backspace"             -> shell_backspace
      [] OTHER                       -> shell_store(c)

(* A character from the keyboard, which is asked first. *)
key_typed ==
    /\ \E c \in Stored \cup {"newline", "backspace"} : shell_char(c)
    /\ UNCHANGED uart

uart_receives ==
    /\ uart = <<>>
    /\ \E c \in Received : uart' = <<c>>
    /\ UNCHANGED <<screen, input_buffer, plain, marks>>

(* A character from the serial port, when the keyboard has none.  After '\r' the
   line editor polls once more: a byte that is there by then is dropped, '\n' or not. *)
serial_char ==
    /\ uart # <<>>
    /\ shell_char(uart[1])
    /\ uart' = <<>>

(* timer_interrupt_handler once in 100 ticks. *)
timer_digit ==
    /\ screen' = vga_putchar_at(screen, "digit", DigitCol, VGA_HEIGHT - 1)
    /\ marks' = marks \cup {"digit"}
    /\ UNCHANGED <<input_buffer, plain, uart>>

ConsoleNext == key_typed \/ uart_receives \/ serial_char \/ timer_digit

-----------------------------------------------------------------------------
ConsoleTypeOK ==
    /\ OnScreen(screen)
    /\ Len(input_buffer) < SHELL_BUFFER_SIZE
    /\ Len(uart) <= 1

Line == Prompt \o input_buffer

(* The i-th cell of the stretch as long as Line that ends at the cursor. *)
Shown(i) ==
    LET p == screen.y * VGA_WIDTH + screen.x - Len(Line) + i - 1
    IN  IF p < 0 THEN "off the screen" ELSE screen.cells[p \div VGA_WIDTH][p % VGA_WIDTH]

(* What you see is what is executed: the prompt and the line in input_buffer stand on
   the screen right before the cursor, after any typing, deleting, scrolling and
   clearing ("If we're at the end of a line, automatically wrap").  A cell may only
   differ by what an interrupt has drawn since the prompt: the timer's digit, the mouse
   pointer and the blank it leaves. *)
LineShown == plain => \A i \in 1 .. Len(Line) : Shown(i) \in {Line[i]} \cup marks
=============================================================================
