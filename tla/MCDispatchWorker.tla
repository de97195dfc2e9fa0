-------------------------- MODULE MCDispatchWorker --------------------------
(* Instances of DispatchWorker for TLC; the values are in the .cfg files. *)
EXTENDS DispatchWorker
=============================================================================
