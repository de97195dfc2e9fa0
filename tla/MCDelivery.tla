----------------------------- MODULE MCDelivery -----------------------------
(* Instances of Delivery; their constants are in the configurations. *)
EXTENDS Delivery
=============================================================================
