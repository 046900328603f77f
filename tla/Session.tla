------------------------------ MODULE Session ------------------------------
(***************************************************************************)
(* The clients and the server together, over TCP: a client process per     *)
(* member of Clients, all started at will, and one server that serves them *)
(* one after the other.                                                    *)
(***************************************************************************)
EXTENDS ClientMain, ServerMain, FiniteSets

(* The messages of the conversation with client c. *)
Letter(c) == {ClientHello(c), Auth(c), Data(c), Ping(c), ClientClose(c),
              ServerHello(c, 0), AuthOk(c), Pong(c), ServerClose(c)}

(* No message contains the indeterminate byte. *)
ASSUME LetterAssumption ==
  \A c \in Clients : \A m \in Letter(c) : \A i \in 1 .. Cells[m.kind] : NoByte # <<m, i>>

Init == EventLoopInit

Next == \/ \E c \in Clients : ClientStep(c) \/ ClientFault(c)
        \/ ServerStep \/ ServerFault

Spec == Init /\ [][Next]_vars

(* Every process that can take a step eventually does: the kernel          *)
(* schedules both programs and completes their system calls.  Faults are   *)
(* not owed to anyone.                                                     *)
Fairness == /\ \A c \in Clients : WF_vars(ClientStep(c))
            /\ WF_vars(ServerStep)

FairSpec == Spec /\ Fairness
-----------------------------------------------------------------------------
(* The server is serving c and neither end has been closed. *)
Talking(c) == cur = c /\ sock[<<c, "client">>] = "open" /\ sock[<<c, "server">>] = "open"

(* Everything between the sender's queueing code and the receiver's        *)
(* parser: the receiver's unread window, the network, the sender's unsent  *)
(* window.                                                                 *)
ToServer(c) == ReadWindow(tr[Server]) \o net[<<c, "server">>] \o WriteWindow(tr[c])
ToClient(c) == ReadWindow(tr[c]) \o net[<<c, "client">>] \o WriteWindow(tr[Server])

(* A sequence of cells is a sequence of whole messages of client c. *)
WholeMessages(c, s) ==
  /\ \A i \in 1 .. Len(s) : s[i] # NoByte /\ s[i][1].owner = c
  /\ s # << >> => s[1][2] = 1 /\ s[Len(s)][2] = Cells[s[Len(s)][1].kind]
  /\ \A i \in 1 .. (Len(s) - 1) :
       IF s[i][2] = Cells[s[i][1].kind] THEN s[i + 1][2] = 1
       ELSE s[i + 1] = <<s[i][1], s[i][2] + 1>>

(* However the reads and writes are cut, and whatever an earlier           *)
(* connection left in the server's buffers (server_main.c:64-65 reuses the *)
(* stack slot), each direction of a conversation carries whole messages of *)
(* this conversation, and nothing else.                                    *)
PipesWellFramed ==
  \A c \in Clients : Talking(c) => /\ WholeMessages(c, ToServer(c))
                                   /\ WholeMessages(c, ToClient(c))

(* The number of messages in a pipe: the cells that begin one. *)
Messages(s) == Cardinality({i \in 1 .. Len(s) : s[i] # NoByte /\ s[i][2] = 1})

(* Client and server take turns: while a conversation lasts, at most one   *)
(* message is anywhere between them (client_main.c:88-196 sends one        *)
(* message for each it receives, as server_main.c:90-207 does).            *)
LockStep ==
  \A c \in Clients : Talking(c) => Messages(ToServer(c)) + Messages(ToClient(c)) =< 1

(* What makes it safe that replies are queued at write_buffer + write_len  *)
(* and not behind write_pos (server_main.c:117, client_main.c:116): a      *)
(* message is only ever queued into a write buffer with nothing unsent.    *)
RepliesQueuedWhenDrained ==
  [][\A p \in Process :
       tr'[p].write_len > tr[p].write_len => tr[p].write_len = 0 /\ tr[p].write_pos = 0]_vars

(* The two state machines agree: while the server serves a client, the     *)
(* client is never in a state the server has not granted it, and the       *)
(* server closes only for a client that asked for it.                      *)
ClientNeverAhead ==
  \A c \in Clients : Talking(c) /\ LoopRuns(Server) =>
    /\ conn[c] = "AUTHENTICATING" => conn[Server] \in {"AUTHENTICATING", "READY"}
    /\ conn[c] = "READY"          => conn[Server] = "READY"
    /\ conn[Server] = "CLOSING"   => conn[c] \in {"CLOSING", "CLOSED"}

(* Without outside faults a server process is killed only in the one race  *)
(* the programs leave open: the client closes its socket as soon as its    *)
(* CLOSE is out (client_main.c:72), and the server's CLOSE goes out in     *)
(* more than one send() (server_main.c:219).                               *)
KilledOnlyAnsweringClose ==
  pc[Server] = "killed" /\ faults = 0 => conn[Server] = "CLOSING" /\ conn[cur] = "CLOSED"
-----------------------------------------------------------------------------
Ended(c) == pc[c] \in {"exit", "killed"}

(* Every client program ends, and stays ended. *)
EveryClientEnds == <>(\A c \in Clients : Ended(c))

(* The server always comes back for the next connection, as long as the    *)
(* process is there.                                                       *)
ServerComesBack == []<>(pc[Server] \in {"accept", "killed"})

(* A client with the right token is served to the end, CLOSED by its own   *)
(* CLOSE, unless a fault or the server's death intervenes.                 *)
EveryClientServed ==
  <>(faults > 0 \/ pc[Server] = "killed" \/ \A c \in Clients : conn[c] = "CLOSED")

(* docs/end_to_end_validation.md:11: a connection passes CONNECTING,       *)
(* HANDSHAKING and reaches AUTHENTICATING.                                 *)
HandshakeCompletes == \A c \in Clients : <>(conn[c] = "AUTHENTICATING")
=============================================================================
