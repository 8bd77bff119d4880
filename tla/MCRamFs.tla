------------------------------ MODULE MCRamFs ------------------------------
(***************************************************************************)
(* Instances of RamFs for TLC.                                             *)
(***************************************************************************)
EXTENDS RamFs

OneDefault == <<"hello">>
MCRamKept == [name \in {"hello"} |-> name]
=============================================================================
