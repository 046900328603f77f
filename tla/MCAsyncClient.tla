--------------------------- MODULE MCAsyncClient ---------------------------
(* AsyncClient for TLC. *)
EXTENDS AsyncClient
=============================================================================
