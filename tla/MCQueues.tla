------------------------------ MODULE MCQueues ------------------------------
(***************************************************************************)
(* The four buffered components for TLC: the packet queue, the keyboard,   *)
(* the message queue and the character and block devices.                  *)
(*                                                                         *)
(* They share no state, so a behaviour of the kernel, seen through the     *)
(* variables of one of them, is a behaviour of that one alone.  It is      *)
(* therefore enough to let one component run while the others rest in      *)
(* their initial states: the state spaces add up instead of multiplying.   *)
(*                                                                         *)
(* The lengths are an empty payload, a full one and one that is too long;  *)
(* the packets are ARP ones, whose type loses its upper byte.              *)
(***************************************************************************)
EXTENDS NetworkQueue, Keyboard, Ipc, DeviceIO

MCLength == {0, 1514, 1515}
MCType == {2054}

(* The address at power-on is any one; one is enough while the network rests. *)
NetworkRests == Init /\ ip = CHOOSE a \in Ip : TRUE

QueuesInit == Init /\ KeyInit /\ IpcInit /\ IoInit

network_steps ==
    /\ KeyInit /\ IpcInit /\ IoInit
    /\ Next /\ UNCHANGED <<keyVars, ipcVars, ioVars>>

keyboard_steps ==
    /\ NetworkRests /\ IpcInit /\ IoInit
    /\ KeyNext /\ UNCHANGED <<vars, ipcVars, ioVars>>

ipc_steps ==
    /\ NetworkRests /\ KeyInit /\ IoInit
    /\ IpcNext /\ UNCHANGED <<vars, keyVars, ioVars>>

device_steps ==
    /\ NetworkRests /\ KeyInit /\ IpcInit
    /\ IoNext /\ UNCHANGED <<vars, keyVars, ipcVars>>

QueuesNext == network_steps \/ keyboard_steps \/ ipc_steps \/ device_steps

QueuesSpec == QueuesInit /\ [][QueuesNext]_<<vars, keyVars, ipcVars, ioVars>>

(* Indices stay in their buffers and counters between zero and the capacities, in
   the packet ring, the key ring, the message queue and the devices. *)
QueuesTypeOK == TypeOK /\ KeyTypeOK /\ IpcTypeOK /\ IoTypeOK
=============================================================================
