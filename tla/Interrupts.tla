----------------------------- MODULE Interrupts -----------------------------
(***************************************************************************)
(* The interrupt path from power-on to the shell: kmain brings up the IDT, *)
(* the PIC, the timer and the keyboard with interrupts off (kernel/kmain.c,*)
(* kernel/idt.c, drivers/timer.c, drivers/keyboard.c), enables them, and   *)
(* irq_handler dispatches.                                                 *)
(*                                                                         *)
(* External: the PIC latches the edge of a line, and initialising it       *)
(* forgets what was latched; the keyboard controller holds one byte and    *)
(* raises its line when the byte arrives, so a byte whose edge was         *)
(* forgotten blocks the keyboard until somebody reads it.                  *)
(***************************************************************************)
EXTENDS Naturals

VARIABLES
    boot,      \* the next step of kmain, "shell" once it runs
    sti,       \* the interrupt flag
    base,      \* the vector of IRQ 0: 8 from the BIOS, 32 after pic_remap
    mask,      \* the masked lines among Irq
    latched,   \* the lines whose request the PIC holds
    gates,     \* the vectors with a gate in the IDT
    handlers,  \* the vectors with an entry in interrupt_handlers
    obf,       \* the keyboard controller holds a byte ("Output Buffer Full")
    halted     \* fault_handler stopped the machine

bootVars == <<boot, sti, base, mask, latched, gates, handlers, obf, halted>>

(* The lines the kernel uses: the timer's and the keyboard's. *)
Irq == {0, 1}

(* The boot loader entered the kernel with interrupts off and the BIOS's masks. *)
BootInit ==
    /\ boot = "idt_init"
    /\ sti = FALSE
    /\ base = 8
    /\ mask = {}
    /\ latched = {}
    /\ gates = {}
    /\ handlers = {}
    /\ obf = FALSE
    /\ halted = FALSE

(* A step of kmain: what it leaves alone is named where it happens. *)
Step(step, next) == ~halted /\ boot = step /\ boot' = next

idt_init_without_remap ==
    /\ Step("idt_init", "timer_init")
    /\ mask' = Irq
    /\ gates' = 0 .. 47
    /\ UNCHANGED <<sti, base, latched, handlers, obf, halted>>

(* idt_init: gates for the 32 exceptions and the 16 lines; pic_remap initialises the
   PICs, which forgets the latched requests, and masks all but the cascade. *)
idt_init ==
    /\ Step("idt_init", "timer_init")
    /\ base' = 32
    /\ mask' = Irq
    /\ latched' = {}
    /\ gates' = 0 .. 47
    /\ UNCHANGED <<sti, handlers, obf, halted>>

timer_init ==
    /\ Step("timer_init", "syscall_init")
    /\ handlers' = handlers \cup {32}
    /\ mask' = mask \ {0}
    /\ UNCHANGED <<sti, base, latched, gates, obf, halted>>

(* A handler for vector 128, which has no gate. *)
syscall_init ==
    /\ Step("syscall_init", "keyboard_init")
    /\ handlers' = handlers \cup {128}
    /\ UNCHANGED <<sti, base, mask, latched, gates, obf, halted>>

Drained_never == UNCHANGED <<obf, latched>>

(* Reading the data port empties the controller; the request of the byte is withdrawn
   or stays latched, depending on the PIC. *)
Drained ==
    /\ obf' = FALSE
    /\ latched' \in {latched, latched \ {1}}

(* keyboard_init up to the registration of its handler. *)
keyboard_init ==
    /\ Step("keyboard_init", "command_byte")
    /\ Drained
    /\ handlers' = handlers \cup {33}
    /\ UNCHANGED <<sti, base, mask, gates, halted>>

(* The rest of keyboard_init: the command byte is read and written back and scanning
   enabled.  A key typed meanwhile is taken for the command byte, whose own byte then
   stays, and the keyboard may have acknowledged the last command. *)
command_byte ==
    /\ Step("command_byte", "enable_irq")
    /\ obf' \in BOOLEAN
    /\ latched' \in {latched, latched \ {1}, latched \cup {1}}
    /\ UNCHANGED <<sti, base, mask, gates, handlers, halted>>

enable_irq ==
    /\ Step("enable_irq", "shell_init")
    /\ mask' = mask \ {1}
    /\ UNCHANGED <<sti, base, latched, gates, handlers, obf, halted>>

shell_init ==
    /\ Step("shell_init", "sti")
    /\ Drained
    /\ UNCHANGED <<sti, base, mask, gates, handlers, halted>>

sti_shell_run ==
    /\ Step("sti", "shell")
    /\ sti' = TRUE
    /\ UNCHANGED <<base, mask, latched, gates, handlers, obf, halted>>

kmain ==
    \/ idt_init \/ timer_init \/ syscall_init \/ keyboard_init \/ command_byte
    \/ enable_irq \/ shell_init \/ sti_shell_run

-----------------------------------------------------------------------------
(* The PIT ticks from the start; a key press fills the controller. *)
pit_tick ==
    /\ 0 \notin latched
    /\ latched' = latched \cup {0}
    /\ UNCHANGED <<boot, sti, base, mask, gates, handlers, obf, halted>>

key_press ==
    /\ ~obf
    /\ obf' = TRUE
    /\ latched' = latched \cup {1}
    /\ UNCHANGED <<boot, sti, base, mask, gates, handlers, halted>>

(* irq_handler, or fault_handler when the vector is an exception's: end of interrupt,
   then the registered handler; the keyboard's reads the byte. *)
irq_handler(i) ==
    /\ sti /\ ~halted
    /\ i \in latched \ mask
    /\ \A j \in 0 .. i - 1 : j \notin latched \ mask   \* lower lines go first
    /\ latched' = latched \ {i}
    /\ halted' = (base + i \notin 32 .. 47)
    /\ obf' = (obf /\ ~(i = 1 /\ base + i \in handlers))
    /\ UNCHANGED <<boot, sti, base, mask, gates, handlers>>

-----------------------------------------------------------------------------
(* No device interrupt ever arrives as a CPU exception, through a missing gate or
   without a handler: the lines stay quiet until everything behind them is up. *)
IrqsAreExpected ==
    /\ ~halted
    /\ sti => \A i \in Irq \ mask : base + i \in gates \cap handlers
=============================================================================
