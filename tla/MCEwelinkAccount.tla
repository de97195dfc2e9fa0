-------------------------- MODULE MCEwelinkAccount --------------------------
(* Instances of EwelinkAccount; their constants are in the configurations. *)
EXTENDS EwelinkAccount
=============================================================================
