---------------------------- MODULE ServerPeers ----------------------------
(***************************************************************************)
(* The server loop of server_main.c facing peers other than client_main.c  *)
(* (external).  A peer speaks the protocol: it waits for the server's      *)
(* hello before it sends frames, and says hello again when it was refused. *)
(* But its version or token may be wrong, it sends frames without waiting  *)
(* for answers, one of them may be larger than the server's buffer, and it *)
(* stays as long as it likes.  The entries of pc, conn and tr for a peer   *)
(* are not used.                                                           *)
(***************************************************************************)
EXTENDS ServerMain, FiniteSetsExt

CONSTANTS Frames,        \* what a peer may send after its handshake, without the owner, token "none" except in AUTH
          MaxMessages    \* bound: messages of all peers together

ASSUME ServerPeersAssumption ==
  /\ MaxMessages \in Nat /\ \A f \in Frames : f.kind \in Kind
  /\ \A c \in Clients, s \in {0, 1002}, i \in 1 .. Cells["SERVER_HELLO"] : NoByte # <<ServerHello(c, s), i>>

VARIABLES said,      \* said[c]: history: the messages peer c has sent
          answer     \* answer[c]: to its last hello: "none", "due", "refused" or "accepted"

peerVars == <<said, answer>>
allVars  == <<vars, peerVars>>

Here(c) == <<c, "client">>

Init == /\ EventLoopInit
        /\ said = [c \in Clients |-> << >>] /\ answer = [c \in Clients |-> "none"]

PeerConnects(c) ==
  /\ sock[Here(c)] = "none" /\ pc[Server] # "killed"
  /\ TcpConnect(c) /\ backlog' = Append(backlog, c)
  /\ UNCHANGED <<pc, conn, tr, errnoAgain, revents, cur, faults, peerVars>>

(* The messages of all peers so far. *)
Spoken == MapThenSumSet(LAMBDA c : Len(said[c]), Clients)

PeerSays(c, m) ==
  /\ sock[Here(c)] = "open" /\ Spoken < MaxMessages
  /\ TcpSend(Here(c), Bytes(m)) /\ said' = [said EXCEPT ![c] = Append(@, m)]
  /\ UNCHANGED loopVars

(* A hello, the first one or the one after a refusal. *)
PeerSaysHello(c) ==
  /\ answer[c] \in {"none", "refused"} /\ answer' = [answer EXCEPT ![c] = "due"]
  /\ \E v \in {1, 2} : PeerSays(c, [kind |-> "CLIENT_HELLO", owner |-> c, version |-> v])

PeerSaysFrame(c) ==
  /\ answer[c] = "accepted" /\ UNCHANGED answer
  /\ \E f \in Frames : PeerSays(c, [kind |-> f.kind, owner |-> c, token |-> f.token])

(* The peer reads all there is, the last cell of a hello perhaps. *)
PeerReads(c) ==
  LET got    == {net[Here(c)][i] : i \in 1 .. Len(net[Here(c)])}
      ends(s) == <<ServerHello(c, s), Cells["SERVER_HELLO"]>> \in got
  IN  /\ sock[Here(c)] = "open" /\ got # {}
      /\ TcpRecv(Here(c), Len(net[Here(c)]))
      /\ answer' = [answer EXCEPT ![c] = IF ends(0) THEN "accepted" ELSE IF ends(1002) THEN "refused" ELSE @]
      /\ UNCHANGED <<loopVars, said>>

PeerCloses(c) ==
  /\ sock[Here(c)] = "open" /\ TcpClose(Here(c)) /\ UNCHANGED <<loopVars, peerVars>>

PeerStep(c) == PeerConnects(c) \/ PeerSaysHello(c) \/ PeerSaysFrame(c) \/ PeerReads(c) \/ PeerCloses(c)

Next == \/ \E c \in Clients : PeerStep(c)
        \/ (ServerStep \/ ServerFault) /\ UNCHANGED peerVars

Spec == Init /\ [][Next]_allVars

(* The server program is scheduled; nothing is owed by the peers. *)
FairSpec == Spec /\ WF_allVars(ServerStep /\ UNCHANGED peerVars)
-----------------------------------------------------------------------------
(* Peer c has said hello in a version the server speaks and shown the      *)
(* right token after that.                                                 *)
Authenticated(c) ==
  \E i, j \in 1 .. Len(said[c]) :
    /\ i < j
    /\ said[c][i].kind = "CLIENT_HELLO" /\ said[c][i].version = 1
    /\ said[c][j].kind = "AUTH" /\ said[c][j].token = "secret_token"

(* docs/deploy.md:75: the server is READY, and so echoes and answers, only *)
(* for a peer that authenticated on this very connection, however its      *)
(* messages were cut or pipelined, whatever it was refused before, and     *)
(* whatever an earlier connection left behind (server_main.c:64, 124-158). *)
ServedOnlyAuthenticated ==
  cur # NoClient /\ conn[Server] \in {"READY", "CLOSING", "CLOSED"} => Authenticated(cur)

(* The server never leaves first: it gives up a peer it has not            *)
(* authenticated, refused ones included, only when the peer has gone or a  *)
(* message fills the buffer, and never for a spurious wake-up              *)
(* (server_main.c:81-85, 111, 149; pw_transport.c:28).                     *)
WaitsForPeer ==
  pc[Server] = "close" /\ ~Authenticated(cur) =>
    sock[Here(cur)] = "closed" \/ ReadBufferFull(tr[Server])

(* Whatever a peer has sent, refused, pipelined, too large or cut off in   *)
(* the middle: once it leaves, the server returns to accept(), unless      *)
(* errno was left at EAGAIN, which server_main.c:81 takes for "no data".   *)
ComesBackWhenPeersLeave ==
  (/\ [](~errnoAgain[Server])
   /\ \A c \in Clients : (sock[Here(c)] = "open") ~> (sock[Here(c)] = "closed"))
  => []<>(pc[Server] \in {"accept", "killed"})
=============================================================================
