--------------------------- MODULE MCPwHeartbeat ---------------------------
(* PwHeartbeat for TLC, with a small clock. *)
EXTENDS PwHeartbeat
=============================================================================
