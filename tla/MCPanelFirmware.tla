-------------------------- MODULE MCPanelFirmware --------------------------
(* Calendars of two events and of one, and a buffer that just holds the longer. *)
EXTENDS PanelFirmware, TLC
CONSTANTS l1, l2
MCSize == l1 :> 2 @@ l2 :> 1
=============================================================================
