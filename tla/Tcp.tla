-------------------------------- MODULE Tcp --------------------------------
(***************************************************************************)
(* The TCP connections the programs talk over (the kernel, external).      *)
(* Each client has at most one connection; an endpoint is a client and a   *)
(* side.  Bytes arrive in order and unchanged.  An endpoint that is closed *)
(* with unread input, or that is sent to after it was closed, answers with *)
(* a reset, and a reset may discard what was still on its way.             *)
(***************************************************************************)
EXTENDS Naturals, Sequences

CONSTANT Clients

Side     == {"client", "server"}
Endpoint == Clients \X Side
Other(e) == <<e[1], IF e[2] = "client" THEN "server" ELSE "client">>

VARIABLES net,    \* net[e]: bytes on their way to endpoint e, or in its receive queue
          sock,   \* sock[e]: "none" before the connection, then "open", then "closed"
          rst     \* rst[e]: endpoint e has received a reset

tcpVars == <<net, sock, rst>>

TcpInit == /\ net  = [e \in Endpoint |-> << >>]
           /\ sock = [e \in Endpoint |-> "none"]
           /\ rst  = [e \in Endpoint |-> FALSE]

(* poll() reports POLLIN: data, a reset or the end of the stream. *)
Readable(e) == net[e] # << >> \/ rst[e] \/ sock[Other(e)] = "closed"

TcpConnect(c) ==
  /\ sock' = [e \in Endpoint |-> IF e[1] = c THEN "open" ELSE sock[e]]
  /\ UNCHANGED <<net, rst>>

TcpRecv(e, n) ==
  /\ net' = [net EXCEPT ![e] = SubSeq(@, n + 1, Len(@))]
  /\ UNCHANGED <<sock, rst>>

(* Bytes sent to a closed peer are lost; the reset they cause comes back   *)
(* at once or too late to be noticed.                                      *)
TcpSend(e, bytes) ==
  /\ IF sock[Other(e)] = "closed"
     THEN /\ \E late \in BOOLEAN : rst' = [rst EXCEPT ![e] = @ \/ ~late]
          /\ UNCHANGED net
     ELSE /\ net' = [net EXCEPT ![Other(e)] = @ \o bytes]
          /\ UNCHANGED rst
  /\ UNCHANGED sock

(* The endpoints es are closed, those of abort with a reset. *)
TcpCloseAll(es, abort) ==
  /\ sock' = [e \in Endpoint |-> IF e \in es THEN "closed" ELSE sock[e]]
  /\ rst'  = [e \in Endpoint |-> rst[e] \/ (Other(e) \in abort /\ sock[e] = "open")]
  /\ \E lost \in SUBSET abort :
       net' = [e \in Endpoint |-> IF e \in es \/ Other(e) \in lost THEN << >> ELSE net[e]]

TcpClose(e) == TcpCloseAll({e}, IF net[e] = << >> THEN {} ELSE {e})
=============================================================================
