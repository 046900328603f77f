----------------------------- MODULE ExtClient -----------------------------
(***************************************************************************)
(* The client object of the PHP extension, extension/src/phoenixwire.c, as *)
(* operators on the state of its connection.  Its transport is created     *)
(* with fd -1 and no method opens one, so the tests of fd never hold.      *)
(***************************************************************************)
EXTENDS PwConnection

(* phoenixwire_client_create_object *)
CreateObject == ConnectionInit

(* The two states the methods take for "not connected". *)
Lost == {"DISCONNECTED", "CLOSED"}

(* connect(): refused unless the state is lost, and then again unless the  *)
(* life cycle leads to CONNECTING, which it does not from CLOSED.  A       *)
(* refusal throws and leaves the state as it was.                          *)
ConnectMethod(s) == IF s \in Lost THEN Transition(s, "CONNECTING") ELSE s

(* disconnect(): CLOSING where the life cycle allows it, CLOSED elsewhere. *)
DisconnectMethod(s) ==
  IF s \in Lost THEN s
  ELSE IF Transition(s, "CLOSING") # s THEN "CLOSING" ELSE Transition(s, "CLOSED")

(* phoenixwire_client_free_object *)
FreeObject(s) == IF s \in Lost THEN s ELSE Transition(s, "CLOSED")
=============================================================================
