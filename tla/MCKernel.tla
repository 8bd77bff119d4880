------------------------------ MODULE MCKernel ------------------------------
(***************************************************************************)
(* An instance of Kernel for TLC.                                          *)
(***************************************************************************)
EXTENDS Kernel

UserSlots == Slot \ {0}
OnlyKernel == {KernelThread}
=============================================================================
