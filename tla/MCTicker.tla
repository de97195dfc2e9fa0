------------------------------ MODULE MCTicker ------------------------------
(* The instance of Ticker for TLC; the values are in Ticker.cfg. *)
EXTENDS Ticker
=============================================================================
