----------------------------- MODULE DeviceList -----------------------------
(***************************************************************************)
(* What device_register and device_unregister promise: the registered      *)
(* devices are a list of names, the newest first, and a name stands for    *)
(* the newest device that has it.                                          *)
(***************************************************************************)
EXTENDS Naturals, SequencesExt

CONSTANT Name

VARIABLE devices

Init == devices = <<>>

Register(name) == devices' = <<name>> \o devices

Unregister(name) ==
    \E i \in DOMAIN devices :
       /\ devices[i] = name
       /\ \A j \in 1 .. i - 1 : devices[j] # name
       /\ devices' = RemoveAt(devices, i)

Next == \E name \in Name : Register(name) \/ Unregister(name)

Spec == Init /\ [][Next]_devices
=============================================================================
