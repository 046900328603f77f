------------------------------ MODULE MCPwFlow ------------------------------
(* PwFlow for TLC, with words of 16 values. *)
EXTENDS PwFlow
=============================================================================
