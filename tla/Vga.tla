-------------------------------- MODULE Vga --------------------------------
(***************************************************************************)
(* drivers/vga.c: the text screen as a record of its cells and the cursor  *)
(* position, and the driver's functions as operators on that record.       *)
(* Colours are left out; the hardware cursor follows the position after    *)
(* every call and is not kept apart from it.                               *)
(***************************************************************************)
EXTENDS Integers, Sequences

CONSTANTS
    VGA_WIDTH,   \* columns (80)
    VGA_HEIGHT,  \* rows (25)
    TabStop      \* columns between two tab stops (8)

ASSUME VgaAssumption == {VGA_WIDTH, VGA_HEIGHT, TabStop} \subseteq Nat \ {0}

Row == 0 .. VGA_HEIGHT - 1
Col == 0 .. VGA_WIDTH - 1
Blank == " "

(* The characters vga_putchar tells from printable ones: 'control' stands for the
   other codes below ' ', and for those above 127, which are negative as a char. *)
Control == {"newline", "backspace", "tab", "control"}

vga_clear == [cells |-> [y \in Row |-> [x \in Col |-> Blank]], x |-> 0, y |-> 0]

vga_putchar_at(s, c, x, y) == [s EXCEPT !.cells[y][x] = c]

vga_scroll(s) ==
    [s EXCEPT !.cells = [y \in Row |-> IF y < VGA_HEIGHT - 1 THEN s.cells[y + 1]
                                       ELSE [x \in Col |-> Blank]]]

(* "Ensure cursor is within bounds before processing": the column is reset and the
   row stays, so the test for the end of the line further down never succeeds. *)
InBounds(s) ==
    [s EXCEPT !.x = IF @ >= VGA_WIDTH THEN 0 ELSE @,
              !.y = IF @ >= VGA_HEIGHT THEN VGA_HEIGHT - 1 ELSE @]

(* '\b': one cell back, over the start of the row, and blank that cell. *)
Back(s) ==
    LET t == IF s.x > 0 THEN [s EXCEPT !.x = @ - 1]
             ELSE IF s.y > 0 THEN [s EXCEPT !.x = VGA_WIDTH - 1, !.y = @ - 1]
             ELSE s
    IN  vga_putchar_at(t, Blank, t.x, t.y)

Placed_wraps_at_once(s, c) ==
    LET t == vga_putchar_at(s, c, s.x, s.y)
    IN  CASE c = "newline"   -> [s EXCEPT !.x = 0, !.y = @ + 1]
          [] c = "backspace" -> Back(s)
          [] c = "tab"       -> [s EXCEPT !.x = ((@ + TabStop) \div TabStop) * TabStop]
          [] c = "control"   -> s
          [] OTHER           -> IF s.x < VGA_WIDTH - 1 THEN [t EXCEPT !.x = @ + 1]
                                ELSE [t EXCEPT !.x = 0, !.y = @ + 1]

Placed(s, c) ==
    CASE c = "newline"   -> [s EXCEPT !.x = 0, !.y = @ + 1]
      [] c = "backspace" -> Back(s)
      [] c = "tab"       -> [s EXCEPT !.x = ((@ + TabStop) \div TabStop) * TabStop]
      [] c = "control"   -> s
      [] OTHER           -> [vga_putchar_at(s, c, s.x, s.y) EXCEPT !.x = @ + 1]

vga_putchar(s, c) ==
    LET t == Placed(InBounds(s), c)
    IN  IF t.y >= VGA_HEIGHT THEN [vga_scroll(t) EXCEPT !.y = VGA_HEIGHT - 1] ELSE t

(* The screen after the characters of str, one after the other. *)
vga_print(s, str) ==
    LET printed[n \in 0 .. Len(str)] ==
            IF n = 0 THEN s ELSE vga_putchar(printed[n - 1], str[n])
    IN  printed[Len(str)]

vga_print_at(s, str, x, y) ==
    [vga_print([s EXCEPT !.x = x, !.y = y], str) EXCEPT !.x = s.x, !.y = s.y]

(* The cursor is on the screen, or one past the end of its row. *)
OnScreen(s) == s.x \in 0 .. VGA_WIDTH + TabStop /\ s.y \in Row
=============================================================================
