------------------------- MODULE MCOutdoorCollector -------------------------
(* Instances of OutdoorCollector; their constants are in the configurations. *)
EXTENDS OutdoorCollector
=============================================================================
