----------------------------- MODULE MCSession -----------------------------
(***************************************************************************)
(* Session for TLC: two clients and one server.  Hellos, AUTH, DATA_TEXT   *)
(* and CLOSE are two cells long and may be cut on the wire; the three      *)
(* bare headers are one.                                                   *)
(***************************************************************************)
EXTENDS Session

CONSTANTS c1, c2

MCCells == [k \in Kind |-> IF k \in {"AUTH_OK", "PING", "PONG"} THEN 1 ELSE 2]
MCToken == [c \in Clients |-> "secret_token"]
=============================================================================
