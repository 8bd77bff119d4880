------------------------------- MODULE Mouse -------------------------------
(***************************************************************************)
(* drivers/mouse.c: the IRQ12 handler assembles three-byte packets, moves  *)
(* the position and redraws the pointer through vga_print_at, on the       *)
(* screen and with the cursor of the shell.                                *)
(*                                                                         *)
(* Any byte may follow any other: a byte the controller lost shifts the    *)
(* packet boundaries, and the handler only tests bit 3 of a first byte.    *)
(* Nothing calls mouse_init: this is the driver as it would run, with its  *)
(* handler between any two calls of the shell into vga.c, not within one.  *)
(***************************************************************************)
EXTENDS Console

CONSTANT MouseBytes   \* the bytes the mouse sends

ASSUME MouseAssumption == MouseBytes \subseteq 0 .. 255

VARIABLES
    packet,            \* the bytes of the packet so far, packet_index of them
    mouse_x, mouse_y, mouse_buttons

mouseVars == <<packet, mouse_x, mouse_y, mouse_buttons>>
screenVars == <<consoleVars, mouseVars>>

Pointer == "X"

(* mouse_init, before the first prompt. *)
MouseInit ==
    /\ packet = <<>>
    /\ mouse_x = 0 /\ mouse_y = 0
    /\ mouse_buttons = 0

Int8(byte) == IF byte >= 128 THEN byte - 256 ELSE byte
Bit3(byte) == (byte \div 8) % 2 = 1

Clamp(v, size) == IF v < 0 THEN 0 ELSE IF v >= size THEN size - 1 ELSE v

(* The position is on the screen whenever this is called: draw_cursor clamped it. *)
clear_cursor(s) == vga_print_at(s, <<Blank>>, mouse_x, mouse_y)

draw_cursor(s, x, y) == vga_print_at(s, <<Pointer>>, x, y)

(* mouse_irq_handler for a byte that comes from the mouse. *)
mouse_byte_ignored(data) ==
    /\ packet = <<>> /\ ~Bit3(data)
    /\ UNCHANGED screenVars

mouse_byte_collected(data) ==
    /\ packet = <<>> => Bit3(data)
    /\ Len(packet) < 2
    /\ packet' = Append(packet, data)
    /\ UNCHANGED <<mouse_x, mouse_y, mouse_buttons, consoleVars>>

mouse_packet(data) ==
    /\ Len(packet) = 2
    /\ packet' = <<>>
    /\ mouse_x' = Clamp(mouse_x + Int8(packet[2]), VGA_WIDTH)
    /\ mouse_y' = Clamp(mouse_y - Int8(data), VGA_HEIGHT)
    /\ mouse_buttons' = packet[1] % 8
    /\ screen' = draw_cursor(clear_cursor(screen), mouse_x', mouse_y')
    /\ marks' = marks \cup {Pointer, Blank}
    /\ UNCHANGED <<input_buffer, plain, uart>>

MouseNext ==
    \E data \in MouseBytes :
        mouse_byte_ignored(data) \/ mouse_byte_collected(data) \/ mouse_packet(data)

(* The shell and the mouse on one screen. *)
ScreenInit == ConsoleInit /\ MouseInit
ScreenNext == (ConsoleNext /\ UNCHANGED mouseVars) \/ MouseNext
ScreenSpec == ScreenInit /\ [][ScreenNext]_screenVars

-----------------------------------------------------------------------------
MouseTypeOK ==
    /\ packet \in UNION {[1 .. n -> MouseBytes] : n \in 0 .. 2}
    /\ mouse_x \in Col /\ mouse_y \in Row
    /\ mouse_buttons \in 0 .. 7

(* The text cursor and every cell but the two of the pointer stay as they are. *)
OnlyPointerMoves ==
    /\ screen'.x = screen.x /\ screen'.y = screen.y
    /\ screen'.cells[mouse_y'][mouse_x'] = Pointer
    /\ \A y \in Row, x \in Col :
          screen'.cells[y][x] # screen.cells[y][x] =>
             <<x, y>> \in {<<mouse_x, mouse_y>>, <<mouse_x', mouse_y'>>}

(* A packet draws the pointer at the mouse position and, however the packets are
   framed and wherever the text has been scrolled to, changes no other cell than the one
   the pointer leaves and the one it enters, the last of the screen included, where the
   driver might have scrolled; the text cursor stays where the shell has it. *)
PointerSparesText ==
    [][Len(packet) = 2 /\ packet' = <<>> => OnlyPointerMoves]_screenVars
=============================================================================
