---------------------------- MODULE PwConnection ----------------------------
(***************************************************************************)
(* The connection life cycle of native/src/pw_connection.c: a state and a  *)
(* transition function that refuses what the life cycle does not allow and *)
(* then leaves the state as it was.                                        *)
(***************************************************************************)

State == {"DISCONNECTED", "CONNECTING", "HANDSHAKING", "AUTHENTICATING",
          "READY", "DRAINING", "CLOSING", "CLOSED"}

ConnectionInit == "DISCONNECTED"

(* The states each state may move to. *)
Allowed ==
  [s \in State |->
     CASE s = "DISCONNECTED"   -> {"CONNECTING"}
       [] s = "CONNECTING"     -> {"HANDSHAKING", "CLOSED"}
       [] s = "HANDSHAKING"    -> {"AUTHENTICATING", "CLOSED"}
       [] s = "AUTHENTICATING" -> {"READY", "CLOSED"}
       [] s = "READY"          -> {"DRAINING", "CLOSING", "CLOSED"}
       [] s = "DRAINING"       -> {"CLOSING", "CLOSED"}
       [] s = "CLOSING"        -> {"CLOSED"}
       [] s = "CLOSED"         -> {"DISCONNECTED"}]

(* pw_connection_transition: the state afterwards.  Its callers in the     *)
(* event loops ignore the result, so a refusal is silent.                  *)
Transition(s, new) == IF new \in Allowed[s] THEN new ELSE s
=============================================================================
