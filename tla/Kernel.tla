------------------------------- MODULE Kernel -------------------------------
(***************************************************************************)
(* The running kernel: kmain boots with interrupts off, then the timer     *)
(* interrupt drives the scheduler, the keyboard interrupt strikes anywhere *)
(* and the kernel thread executes programs through the loader.             *)
(***************************************************************************)
EXTENDS Loader, Interrupts

kernelVars == <<vars, loaderVars, bootVars>>

(* process_init and program_loader_init run during the boot, with interrupts off. *)
KernelInit == LoaderInit /\ BootInit

booting == kmain /\ UNCHANGED <<vars, loaderVars>>

pit == pit_tick /\ UNCHANGED <<vars, loaderVars>>
keyboard == key_press /\ UNCHANGED <<vars, loaderVars>>

(* A step of the scheduler. *)
Scheduling(A) == A /\ UNCHANGED loaderVars

timer_irq == irq_handler(0) /\ Scheduling(timer_interrupt_handler)
keyboard_irq == Alive /\ irq_handler(1) /\ UNCHANGED <<vars, loaderVars>>

InShell == boot = "shell" /\ ~halted /\ UNCHANGED bootVars

executing == InShell /\ program_execute
yielding == InShell /\ Scheduling(sys_yield)
exiting == InShell /\ Scheduling(process_exit)

KernelNext ==
    \/ booting
    \/ pit \/ keyboard
    \/ timer_irq \/ keyboard_irq
    \/ executing \/ yielding \/ exiting

(* kmain runs on, the PIT is periodic, and its tick is handled long before the next
   one, so the keyboard's line has its turn infinitely often. *)
KernelSpec ==
    /\ KernelInit /\ [][KernelNext]_kernelVars
    /\ WF_kernelVars(booting)
    /\ WF_kernelVars(pit)
    /\ WF_kernelVars(timer_irq)
    /\ SF_kernelVars(keyboard_irq)

-----------------------------------------------------------------------------
(* The keyboard never wedges: a byte in its controller is eventually read, also one
   typed while the PIC was being initialised ("Drain any pending keyboard data to
   ensure IRQ 1 can trigger"), unless the CPU is lost in an unfinished creation. *)
KeyEventuallyRead == obf ~> (~obf \/ ~Alive)
=============================================================================
