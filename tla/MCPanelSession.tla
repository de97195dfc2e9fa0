--------------------------- MODULE MCPanelSession ---------------------------
(* Instances of PanelSession for TLC; the values are in the .cfg files. *)
EXTENDS PanelSession
=============================================================================
