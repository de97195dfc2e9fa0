--------------------------- MODULE MCReleaseAgent ---------------------------
(* The instance of ReleaseAgent for TLC; the values are in Release.cfg. *)
EXTENDS ReleaseAgent
=============================================================================
