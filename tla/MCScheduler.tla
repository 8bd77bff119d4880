---------------------------- MODULE MCScheduler ----------------------------
(***************************************************************************)
(* Instances of Scheduler for TLC.                                         *)
(***************************************************************************)
EXTENDS Scheduler

AllSlots == Slot
UserSlots == Slot \ {0}
AnyThread == Thread
OnlyKernel == {KernelThread}
=============================================================================
