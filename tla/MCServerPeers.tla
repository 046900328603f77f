--------------------------- MODULE MCServerPeers ---------------------------
(***************************************************************************)
(* ServerPeers for TLC.  Hello and AUTH are two cells long; a              *)
(* DATA_BINARY does not fit the buffer.                                    *)
(***************************************************************************)
EXTENDS ServerPeers

CONSTANTS p1, p2

MCCells == [k \in Kind |-> CASE k \in {"CLIENT_HELLO", "AUTH"} -> 2
                             [] k = "DATA_BINARY" -> PW_BUFFER_SIZE + 1
                             [] OTHER -> 1]
MCFrames == {[kind |-> "AUTH", token |-> t] : t \in {"secret_token", "other"}}
              \cup {[kind |-> k, token |-> "none"] : k \in {"DATA_BINARY", "CLOSE"}}
=============================================================================
