------------------------- MODULE MCTransportStream -------------------------
(***************************************************************************)
(* TransportStream for TLC: buffers of three bytes and streams longer than *)
(* a buffer, so that full buffers, compaction and reuse all happen.        *)
(***************************************************************************)
EXTENDS TransportStream
=============================================================================
