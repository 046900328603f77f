------------------------- MODULE ServerPeersProofs -------------------------
(***************************************************************************)
(* Proofs about ServerPeers for every number of peers, every set of frames *)
(* they may send, every buffer size and every size of the messages.        *)
(***************************************************************************)
EXTENDS ServerPeers, PwTransportProofs

PeerMessage(c) ==
  {[kind |-> "CLIENT_HELLO", owner |-> c, version |-> v] : v \in {1, 2}}
    \cup {[kind |-> f.kind, owner |-> c, token |-> f.token] : f \in Frames}

ServerMessage(c) == {ServerHello(c, s) : s \in {0, 1002}} \cup {AuthOk(c), Pong(c), ServerClose(c)}

Letter == UNION {PeerMessage(c) \cup ServerMessage(c) : c \in Clients}

Cell == {NoByte} \cup (Letter \X Nat)

(* The parts of the messages a peer has sent, s being what was said. *)
Heard(s, c) == {s[c][i] : i \in 1 .. Len(s[c])} \X Nat

(* Peer c has said hello in a version the server speaks. *)
Greets(s, c, i) == s[c][i].kind = "CLIENT_HELLO" /\ s[c][i].version = 1

Greeted(s, c) == \E i \in 1 .. Len(s[c]) : Greets(s, c, i)

Proven(s, c) ==
  \E i, j \in 1 .. Len(s[c]) :
    i < j /\ Greets(s, c, i) /\ s[c][j].kind = "AUTH" /\ s[c][j].token = "secret_token"

Acceptance(c) == <<ServerHello(c, 0), Cells["SERVER_HELLO"]>>

(* What the server may send: a peer is accepted only after its hello. *)
Out(s) == {x \in Cell : \A c \in Clients : x = Acceptance(c) => Greeted(s, c)}

(* A peer sends frames only behind a hello the server can accept. *)
SaidInv(s) ==
  /\ s \in [Clients -> Seq(Letter)]
  /\ \A c \in Clients : \A j \in 1 .. Len(s[c]) :
       /\ s[c][j] \in PeerMessage(c)
       /\ s[c][j].kind # "CLIENT_HELLO" => \E i \in 1 .. Len(s[c]) : i < j /\ Greets(s, c, i)
-----------------------------------------------------------------------------
LEMMA PeerMessageFacts ==
  ASSUME NEW c \in Clients, NEW m \in PeerMessage(c)
  PROVE  m.owner = c /\ m.kind \in Kind /\ m \in Letter
<1>1. "CLIENT_HELLO" \in Kind
  BY DEF Kind
<1>2. m.owner = c /\ m.kind \in Kind
  BY <1>1, ServerPeersAssumption DEF PeerMessage
<1>3. m \in Letter
  BY DEF Letter
<1> QED BY <1>2, <1>3

LEMMA ServerMessageFacts ==
  ASSUME NEW c \in Clients
  PROVE  /\ \A s \in {0, 1002} : ServerHello(c, s) \in Letter /\ ServerHello(c, s).kind \in Kind
         /\ AuthOk(c) \in Letter /\ AuthOk(c).kind \in Kind
         /\ Pong(c) \in Letter /\ Pong(c).kind \in Kind
         /\ ServerClose(c) \in Letter /\ ServerClose(c).kind \in Kind
<1>1. {"SERVER_HELLO", "AUTH_OK", "PONG", "CLOSE"} \subseteq Kind
  BY DEF Kind
<1>2. /\ \A s \in {0, 1002} : ServerHello(c, s).kind = "SERVER_HELLO"
      /\ AuthOk(c).kind = "AUTH_OK" /\ Pong(c).kind = "PONG" /\ ServerClose(c).kind = "CLOSE"
  BY DEF ServerHello, AuthOk, Pong, ServerClose
<1>3. ServerMessage(c) \subseteq Letter
  BY DEF Letter
<1>4. /\ \A s \in {0, 1002} : ServerHello(c, s) \in ServerMessage(c)
      /\ AuthOk(c) \in ServerMessage(c) /\ Pong(c) \in ServerMessage(c) /\ ServerClose(c) \in ServerMessage(c)
  BY DEF ServerMessage
<1> QED BY <1>1, <1>2, <1>3, <1>4

(* Every message has cells of its own on the wire. *)
LEMMA BytesFacts ==
  ASSUME NEW m, m.kind \in Kind
  PROVE  /\ Cells[m.kind] \in Nat \ {0} /\ Bytes(m) \in Seq({m} \X Nat)
         /\ Len(Bytes(m)) = Cells[m.kind]
<1>1. Cells[m.kind] \in Nat \ {0}
  BY CellsAssumption
<1>2. Bytes(m) \in [1 .. Cells[m.kind] -> {m} \X Nat]
  BY <1>1 DEF Bytes
<1> QED BY <1>1, <1>2

(* What was said stays said. *)
Longer(s, r, d) == \A i \in 1 .. Len(s[d]) : i \in 1 .. Len(r[d]) /\ r[d][i] = s[d][i]

LEMMA LongerKeeps ==
  ASSUME NEW s, NEW r, NEW d, Longer(s, r, d)
  PROVE  /\ Heard(s, d) \subseteq Heard(r, d)
         /\ Greeted(s, d) => Greeted(r, d)
         /\ Proven(s, d) => Proven(r, d)
<1>1. Heard(s, d) \subseteq Heard(r, d)
  BY DEF Heard, Longer
<1>2. Greeted(s, d) => Greeted(r, d)
  BY DEF Greeted, Greets, Longer
<1>3. Proven(s, d) => Proven(r, d)
  BY DEF Proven, Greets, Longer
<1> QED BY <1>1, <1>2, <1>3

LEMMA OutGrows ==
  ASSUME NEW s, NEW r, \A c \in Clients : Greeted(s, c) => Greeted(r, c)
  PROVE  Out(s) \subseteq Out(r)
BY DEF Out

(* What a peer sends is no acceptance it has no right to. *)
LEMMA HeardFacts ==
  ASSUME NEW s, SaidInv(s), NEW c \in Clients
  PROVE  /\ Heard(s, c) \subseteq Cell /\ Heard(s, c) \subseteq Out(s)
         /\ \A x \in Heard(s, c) : x[1] \in PeerMessage(c) /\ \E j \in 1 .. Len(s[c]) : x[1] = s[c][j]
<1>1. SUFFICES ASSUME NEW x \in Heard(s, c)
               PROVE  /\ x \in Cell /\ x \in Out(s) /\ x[1] \in PeerMessage(c)
                      /\ \E j \in 1 .. Len(s[c]) : x[1] = s[c][j]
  OBVIOUS
<1>2. PICK j \in 1 .. Len(s[c]), n \in Nat : x = <<s[c][j], n>>
  BY DEF Heard
<1>3. s[c][j] \in PeerMessage(c) /\ x[1] = s[c][j]
  BY <1>2 DEF SaidInv
<1>4. x \in Cell
  BY <1>2, <1>3, PeerMessageFacts DEF Cell
<1>5. ASSUME NEW d \in Clients, x = Acceptance(d) PROVE Greeted(s, d)
  <2>1. s[c][j] = ServerHello(d, 0)
    BY <1>2, <1>5 DEF Acceptance
  <2>2. s[c][j].owner = d /\ s[c][j].kind = "SERVER_HELLO"
    BY <2>1 DEF ServerHello
  <2>3. d = c
    BY <1>3, <2>2, PeerMessageFacts
  <2>4. \E i \in 1 .. Len(s[c]) : Greets(s, c, i)
    BY <2>2 DEF SaidInv
  <2> QED BY <2>3, <2>4 DEF Greeted
<1>6. x \in Out(s)
  BY <1>4, <1>5 DEF Out
<1> QED BY <1>3, <1>4, <1>6

(* A message of the server that accepts nobody, or only who said hello. *)
LEMMA ReplyFacts ==
  ASSUME NEW s, NEW m \in Letter, m.kind \in Kind,
         \A c \in Clients : m = ServerHello(c, 0) => Greeted(s, c)
  PROVE  Bytes(m) \in Seq(Out(s))
<1>1. Bytes(m) \in Seq({m} \X Nat)
  BY BytesFacts
<1>2. {m} \X Nat \subseteq Out(s)
  BY DEF Out, Cell, Acceptance
<1> QED BY <1>1, <1>2

LEMMA NoByteIsOut == \A s : NoByte \in Out(s)
<1>1. Cells["SERVER_HELLO"] \in 1 .. Cells["SERVER_HELLO"]
  BY CellsAssumption DEF Kind
<1>2. \A c \in Clients : NoByte # Acceptance(c)
  BY <1>1, ServerPeersAssumption DEF Acceptance
<1> QED BY <1>2 DEF Out, Cell
-----------------------------------------------------------------------------
(* What may be on its way to an endpoint. *)
Traffic(s, e) == IF e[2] = "server" THEN Heard(s, e[1]) ELSE Out(s)

NetInv(n, s) == n = [e \in Endpoint |-> n[e]] /\ \A e \in Endpoint : n[e] \in Seq(Traffic(s, e))

(* A server's connection is reset only by a peer that has gone. *)
SockInv ==
  /\ sock \in [Endpoint -> {"none", "open", "closed"}] /\ rst \in [Endpoint -> BOOLEAN]
  /\ \A c \in Clients : rst[<<c, "server">>] => sock[<<c, "client">>] = "closed"

LEMMA EndpointFacts ==
  /\ \A e \in Endpoint : Other(e) \in Endpoint /\ Other(Other(e)) = e
  /\ \A c \in Clients : /\ <<c, "client">> \in Endpoint /\ <<c, "server">> \in Endpoint
                        /\ Other(<<c, "client">>) = <<c, "server">>
                        /\ Other(<<c, "server">>) = <<c, "client">>
BY DEF Endpoint, Side, Other

LEMMA TrafficFacts ==
  ASSUME NEW s, NEW c \in Clients
  PROVE  Traffic(s, <<c, "server">>) = Heard(s, c) /\ Traffic(s, <<c, "client">>) = Out(s)
BY DEF Traffic

LEMMA RecvKeepsNet ==
  ASSUME NEW s, NetInv(net, s), NEW e \in Endpoint, NEW n \in 1 .. Len(net[e]), TcpRecv(e, n)
  PROVE  NetInv(net', s) /\ UNCHANGED <<sock, rst>> /\ SubSeq(net[e], 1, n) \in Seq(Traffic(s, e))
         /\ Len(SubSeq(net[e], 1, n)) = n
<1>1. net[e] \in Seq(Traffic(s, e)) /\ Len(net[e]) \in Nat
  BY DEF NetInv
<1>2. SubSeq(net[e], n + 1, Len(net[e])) \in Seq(Traffic(s, e))
  BY <1>1
<1>3. SubSeq(net[e], 1, n) \in Seq(Traffic(s, e)) /\ Len(SubSeq(net[e], 1, n)) = n
  BY <1>1
<1>4. net' = [net EXCEPT ![e] = SubSeq(net[e], n + 1, Len(net[e]))] /\ UNCHANGED <<sock, rst>>
  BY DEF TcpRecv
<1> QED BY <1>2, <1>3, <1>4 DEF NetInv

LEMMA SendKeepsNet ==
  ASSUME NEW s, NetInv(net, s), SockInv, NEW e \in Endpoint, NEW bytes \in Seq(Traffic(s, Other(e))),
         TcpSend(e, bytes)
  PROVE  NetInv(net', s) /\ SockInv' /\ UNCHANGED sock
<1>1. Other(e) \in Endpoint
  BY EndpointFacts
<1>2. net[Other(e)] \o bytes \in Seq(Traffic(s, Other(e)))
  BY <1>1 DEF NetInv
<1>3. NetInv(net', s)
  <2>1. CASE sock[Other(e)] = "closed"
    BY <2>1 DEF TcpSend, NetInv
  <2>2. CASE sock[Other(e)] # "closed"
    <3>1. net' = [net EXCEPT ![Other(e)] = net[Other(e)] \o bytes]
      BY <2>2 DEF TcpSend
    <3> QED BY <1>1, <1>2, <3>1 DEF NetInv
  <2> QED BY <2>1, <2>2
<1>4. UNCHANGED sock
  BY DEF TcpSend
<1>5. SockInv'
  <2>1. CASE sock[Other(e)] = "closed"
    <3>1. PICK late \in BOOLEAN : rst' = [rst EXCEPT ![e] = rst[e] \/ ~late]
      BY <2>1 DEF TcpSend
    <3>2. rst' \in [Endpoint -> BOOLEAN] /\ \A d \in Endpoint : d # e => rst'[d] = rst[d]
      BY <3>1 DEF SockInv
    <3>3. \A c \in Clients : rst'[<<c, "server">>] => sock[<<c, "client">>] = "closed"
      <4>1. SUFFICES ASSUME NEW c \in Clients, rst'[<<c, "server">>] PROVE sock[<<c, "client">>] = "closed"
        OBVIOUS
      <4>2. CASE <<c, "server">> = e
        <5>1. Other(e) = <<c, "client">>
          BY <4>2, EndpointFacts
        <5> QED BY <2>1, <5>1
      <4>3. CASE <<c, "server">> # e
        BY <3>2, <4>1, <4>3, EndpointFacts DEF SockInv
      <4> QED BY <4>2, <4>3
    <3> QED BY <1>4, <3>2, <3>3 DEF SockInv
  <2>2. CASE sock[Other(e)] # "closed"
    BY <1>4, <2>2 DEF TcpSend, SockInv
  <2> QED BY <2>1, <2>2
<1> QED BY <1>3, <1>4, <1>5

LEMMA CloseKeepsNet ==
  ASSUME NEW s, NetInv(net, s), SockInv, NEW es \in SUBSET Endpoint, NEW abort \in SUBSET es,
         TcpCloseAll(es, abort)
  PROVE  /\ NetInv(net', s) /\ SockInv'
         /\ \A e \in Endpoint : sock[e] = "closed" => sock'[e] = "closed"
<1>1. sock' = [e \in Endpoint |-> IF e \in es THEN "closed" ELSE sock[e]]
  BY DEF TcpCloseAll
<1>2. rst' = [e \in Endpoint |-> rst[e] \/ (Other(e) \in abort /\ sock[e] = "open")]
  BY DEF TcpCloseAll
<1>3. PICK lost \in SUBSET abort :
        net' = [e \in Endpoint |-> IF e \in es \/ Other(e) \in lost THEN << >> ELSE net[e]]
  BY DEF TcpCloseAll
<1>4. \A S : << >> \in Seq(S)
  OBVIOUS
<1>5. \A e \in Endpoint : net'[e] = << >> \/ net'[e] = net[e]
  BY <1>3
<1>6. NetInv(net', s)
  <2>1. \A e \in Endpoint : net'[e] \in Seq(Traffic(s, e))
    BY <1>4, <1>5 DEF NetInv
  <2>2. net' = [e \in Endpoint |-> net'[e]]
    BY <1>3
  <2> QED BY <2>1, <2>2 DEF NetInv
<1>7. rst' \in [Endpoint -> BOOLEAN]
  BY <1>2 DEF SockInv
<1>8. sock' \in [Endpoint -> {"none", "open", "closed"}]
  BY <1>1 DEF SockInv
<1>9. \A e \in Endpoint : (sock[e] = "closed" \/ e \in es) => sock'[e] = "closed"
  BY <1>1
<1>10. ASSUME NEW c \in Clients, rst'[<<c, "server">>] PROVE sock'[<<c, "client">>] = "closed"
  <2>1. <<c, "server">> \in Endpoint /\ <<c, "client">> \in Endpoint /\ Other(<<c, "server">>) = <<c, "client">>
    BY EndpointFacts
  <2>2. rst[<<c, "server">>] \/ <<c, "client">> \in abort
    BY <1>2, <1>10, <2>1
  <2> QED BY <1>9, <2>1, <2>2 DEF SockInv
<1> QED BY <1>6, <1>7, <1>8, <1>9, <1>10 DEF SockInv
-----------------------------------------------------------------------------
Label == {"accept", "start", "poll", "read", "parse", "write", "close", "killed"}

LoopTypes ==
  /\ pc \in [Process -> Label] /\ conn \in [Process -> State] /\ tr \in [Process -> Transport(Cell)]
  /\ errnoAgain \in [Process -> BOOLEAN]
  /\ cur \in Clients \cup {NoClient} /\ backlog \in Seq(Clients)
  /\ pc[Server] # "accept" => cur \in Clients

(* The server's transport t and state k fit what peer c has said. *)
Serving(t, k, c, s) ==
  /\ Carries(t, Cell, Heard(s, c), Out(s))
  /\ k \in {"AUTHENTICATING", "READY", "DRAINING", "CLOSING", "CLOSED"} => Greeted(s, c)
  /\ k \in {"READY", "DRAINING", "CLOSING", "CLOSED"} => Proven(s, c)

ServerInv ==
  /\ tr[Server].write_buffer \in [Index -> Out(said)]
  /\ cur \in Clients => Serving(tr[Server], conn[Server], cur, said)

AnswerInv ==
  /\ answer \in [Clients -> {"none", "due", "refused", "accepted"}]
  /\ \A c \in Clients : answer[c] = "accepted" => Greeted(said, c)

PeersInv == SaidInv(said) /\ NetInv(net, said) /\ SockInv /\ LoopTypes /\ ServerInv /\ AnswerInv

LEMMA ServerFacts == Server \in Process /\ NoClient \notin Clients
BY ProcessAssumption DEF Process

LEMMA ServerTransport ==
  ASSUME PeersInv
  PROVE  /\ tr[Server] \in Transport(Cell) /\ pc[Server] \in Label /\ conn[Server] \in State
         /\ cur \in Clients => At(Server) = <<cur, "server">> /\ At(Server) \in Endpoint
BY ServerFacts, EndpointFacts DEF PeersInv, LoopTypes, At

LEMMA InitPeers == Init => PeersInv
<1> SUFFICES ASSUME Init PROVE PeersInv
  OBVIOUS
<1>1. said = [c \in Clients |-> << >>] /\ answer = [c \in Clients |-> "none"]
  BY DEF Init
<1>2. SaidInv(said)
  BY <1>1 DEF SaidInv
<1>3. NetInv(net, said) /\ SockInv
  <2>1. TcpInit
    BY DEF Init, EventLoopInit
  <2>2. \A S : << >> \in Seq(S)
    OBVIOUS
  <2>3. NetInv(net, said)
    BY <2>1, <2>2 DEF TcpInit, NetInv
  <2>4. SockInv
    BY <2>1, EndpointFacts DEF TcpInit, SockInv
  <2> QED BY <2>3, <2>4
<1>4. Uninitialised \in Transport(Cell) /\ Uninitialised.write_buffer \in [Index -> Out(said)]
  <2>1. NoByte \in Cell /\ NoByte \in Out(said)
    BY NoByteIsOut DEF Cell
  <2> QED BY <2>1 DEF Uninitialised, Transport
<1>5. /\ tr = [p \in Process |-> Uninitialised] /\ cur = NoClient /\ backlog = << >>
      /\ pc = [p \in Process |-> IF p = Server THEN "accept" ELSE "start"]
      /\ conn = [p \in Process |-> ConnectionInit] /\ errnoAgain = [p \in Process |-> FALSE]
  BY DEF Init, EventLoopInit
<1> HIDE DEF Init
<1>6. LoopTypes
  <2>1. ConnectionInit \in State
    BY DEF ConnectionInit, State
  <2>2. pc \in [Process -> Label] /\ pc[Server] = "accept"
    BY <1>5, ServerFacts DEF Label
  <2>3. tr \in [Process -> Transport(Cell)] /\ conn \in [Process -> State] /\ errnoAgain \in [Process -> BOOLEAN]
    BY <1>4, <1>5, <2>1
  <2>4. backlog \in Seq(Clients)
    BY <1>5
  <2> QED BY <1>5, <2>2, <2>3, <2>4 DEF LoopTypes
<1>7. ServerInv
  BY <1>4, <1>5, ServerFacts DEF ServerInv
<1>8. AnswerInv
  BY <1>1 DEF AnswerInv
<1> QED BY <1>2, <1>3, <1>6, <1>7, <1>8 DEF PeersInv
-----------------------------------------------------------------------------
(* The peers' steps. *)
LEMMA PeerConnectsKeeps ==
  ASSUME PeersInv, NEW c \in Clients, PeerConnects(c)
  PROVE  PeersInv'
<1>1. UNCHANGED <<pc, conn, tr, errnoAgain, revents, cur, faults, said, answer, net, rst>>
  BY DEF PeerConnects, peerVars, TcpConnect
<1>2. sock' = [e \in Endpoint |-> IF e[1] = c THEN "open" ELSE sock[e]] /\ sock[<<c, "client">>] = "none"
  BY DEF PeerConnects, TcpConnect, Here
<1>3. backlog' \in Seq(Clients)
  BY DEF PeerConnects, PeersInv, LoopTypes
<1>4. SockInv'
  <2>1. sock' \in [Endpoint -> {"none", "open", "closed"}]
    BY <1>2 DEF PeersInv, SockInv
  <2>2. ASSUME NEW d \in Clients, rst[<<d, "server">>] PROVE sock'[<<d, "client">>] = "closed"
    <3>1. sock[<<d, "client">>] = "closed"
      BY <2>2 DEF PeersInv, SockInv
    <3>2. d # c
      BY <1>2, <3>1
    <3> QED BY <1>2, <3>1, <3>2, EndpointFacts
  <2> QED BY <1>1, <2>1, <2>2 DEF PeersInv, SockInv
<1>5. LoopTypes'
  BY <1>1, <1>3 DEF PeersInv, LoopTypes
<1>6. SaidInv(said') /\ NetInv(net', said') /\ ServerInv' /\ AnswerInv'
  BY <1>1 DEF PeersInv, ServerInv, AnswerInv
<1> QED BY <1>4, <1>5, <1>6 DEF PeersInv

LEMMA PeerSaysKeeps ==
  ASSUME PeersInv, NEW c \in Clients, NEW m \in PeerMessage(c), PeerSays(c, m),
         m.kind # "CLIENT_HELLO" => Greeted(said, c),
         answer' \in [Clients -> {"none", "due", "refused", "accepted"}],
         \A d \in Clients : answer'[d] = "accepted" => answer[d] = "accepted"
  PROVE  PeersInv'
<1>1. m \in Letter /\ m.kind \in Kind
  BY PeerMessageFacts
<1>2. /\ said \in [Clients -> Seq(Letter)] /\ said' = [said EXCEPT ![c] = Append(@, m)]
      /\ UNCHANGED <<pc, conn, tr, errnoAgain, revents, cur, backlog, faults>>
      /\ TcpSend(<<c, "client">>, Bytes(m))
  BY DEF PeersInv, SaidInv, PeerSays, loopVars, Here
<1>3. /\ said' \in [Clients -> Seq(Letter)] /\ Len(said'[c]) = Len(said[c]) + 1 /\ said'[c][Len(said'[c])] = m
      /\ Len(said[c]) \in Nat /\ \A i \in 1 .. Len(said[c]) : said'[c][i] = said[c][i]
  <2>1. said[c] \in Seq(Letter) /\ said'[c] = Append(said[c], m) /\ said' \in [Clients -> Seq(Letter)]
    BY <1>1, <1>2
  <2> QED BY <1>1, <2>1
<1>4. ASSUME NEW d \in Clients
      PROVE  /\ Longer(said, said', d)
             /\ Heard(said, d) \subseteq Heard(said', d)
             /\ Greeted(said, d) => Greeted(said', d)
             /\ Proven(said, d) => Proven(said', d)
  <2>1. CASE d = c
    <3>1. Longer(said, said', d)
      BY <1>3, <2>1 DEF Longer
    <3> QED BY <3>1, LongerKeeps
  <2>2. CASE d # c
    <3>1. said'[d] = said[d]
      BY <1>2, <2>2
    <3>2. Longer(said, said', d)
      BY <3>1 DEF Longer
    <3> QED BY <3>2, LongerKeeps
  <2> QED BY <2>1, <2>2
<1>5. Out(said) \subseteq Out(said')
  BY <1>4, OutGrows
<1>6. SaidInv(said')
  <2>1. SUFFICES ASSUME NEW d \in Clients, NEW j \in 1 .. Len(said'[d])
                 PROVE  /\ said'[d][j] \in PeerMessage(d)
                        /\ said'[d][j].kind # "CLIENT_HELLO" =>
                             \E i \in 1 .. Len(said'[d]) : i < j /\ Greets(said', d, i)
    BY <1>3 DEF SaidInv
  <2>2. CASE j \in 1 .. Len(said[d])
    <3>1. said'[d][j] = said[d][j] /\ said[d][j] \in PeerMessage(d)
      BY <1>4, <2>2 DEF PeersInv, SaidInv, Longer
    <3>2. said[d][j].kind # "CLIENT_HELLO" => \E i \in 1 .. Len(said[d]) : i < j /\ Greets(said, d, i)
      BY <2>2 DEF PeersInv, SaidInv
    <3> QED BY <1>4, <3>1, <3>2 DEF Greets, Longer
  <2>3. CASE ~(j \in 1 .. Len(said[d]))
    <3>1. d = c
      BY <1>2, <2>3
    <3>2. j = Len(said'[c]) /\ said'[d][j] = m
      BY <1>3, <2>3, <3>1
    <3>3. ASSUME m.kind # "CLIENT_HELLO" PROVE \E i \in 1 .. Len(said'[c]) : i < j /\ Greets(said', c, i)
      <4>1. PICK i \in 1 .. Len(said[c]) : Greets(said, c, i)
        BY <3>3 DEF Greeted
      <4>2. i \in 1 .. Len(said'[c]) /\ Greets(said', c, i)
        BY <1>4, <4>1 DEF Greets, Longer
      <4>3. i < j
        BY <1>3, <3>2, <4>1
      <4> QED BY <4>2, <4>3
    <3> QED BY <3>1, <3>2, <3>3
  <2> QED BY <2>2, <2>3
<1>7. NetInv(net, said')
  <2>1. \A e \in Endpoint : Traffic(said, e) \subseteq Traffic(said', e)
    BY <1>4, <1>5 DEF Traffic, Endpoint
  <2>2. ASSUME NEW e \in Endpoint PROVE net[e] \in Seq(Traffic(said', e))
    BY <2>1 DEF PeersInv, NetInv
  <2> QED BY <2>2 DEF PeersInv, NetInv
<1>8. Bytes(m) \in Seq(Heard(said', c))
  <2>1. {m} \X Nat \subseteq Heard(said', c)
    <3>1. Len(said'[c]) \in 1 .. Len(said'[c])
      BY <1>3
    <3> QED BY <1>3, <3>1 DEF Heard
  <2>2. Bytes(m) \in Seq({m} \X Nat)
    BY <1>1, BytesFacts
  <2> QED BY <2>1, <2>2
<1>9. NetInv(net', said') /\ SockInv'
  <2>1. <<c, "client">> \in Endpoint /\ Traffic(said', Other(<<c, "client">>)) = Heard(said', c)
    BY EndpointFacts, TrafficFacts
  <2>2. SockInv
    BY DEF PeersInv
  <2> QED BY <1>2, <1>7, <1>8, <2>1, <2>2, SendKeepsNet
<1>10. LoopTypes'
  BY <1>2 DEF PeersInv, LoopTypes
<1>11. ServerInv'
  <2>1. tr[Server].write_buffer \in [Index -> Out(said')]
    BY <1>5 DEF PeersInv, ServerInv
  <2>2. ASSUME cur \in Clients PROVE Serving(tr[Server], conn[Server], cur, said')
    <3>1. Serving(tr[Server], conn[Server], cur, said)
      BY <2>2 DEF PeersInv, ServerInv
    <3>2. Carries(tr[Server], Cell, Heard(said', cur), Out(said'))
      BY <1>4, <1>5, <2>2, <3>1, CarriesMore DEF Serving
    <3> QED BY <1>4, <2>2, <3>1, <3>2 DEF Serving
  <2> QED BY <1>2, <2>1, <2>2 DEF ServerInv
<1>12. AnswerInv'
  BY <1>4 DEF PeersInv, AnswerInv
<1> QED BY <1>6, <1>9, <1>10, <1>11, <1>12 DEF PeersInv

LEMMA PeerSaysHelloKeeps ==
  ASSUME PeersInv, NEW c \in Clients, PeerSaysHello(c)
  PROVE  PeersInv'
<1>1. PICK v \in {1, 2} : PeerSays(c, [kind |-> "CLIENT_HELLO", owner |-> c, version |-> v])
  BY DEF PeerSaysHello
<1> DEFINE m == [kind |-> "CLIENT_HELLO", owner |-> c, version |-> v]
<1>2. m \in PeerMessage(c) /\ m.kind = "CLIENT_HELLO" /\ PeerSays(c, m)
  BY <1>1 DEF PeerMessage
<1>3. answer' = [answer EXCEPT ![c] = "due"]
  BY DEF PeerSaysHello
<1>4. /\ answer' \in [Clients -> {"none", "due", "refused", "accepted"}]
      /\ \A d \in Clients : answer'[d] = "accepted" => answer[d] = "accepted"
  BY <1>3 DEF PeersInv, AnswerInv
<1> HIDE DEF m
<1> QED BY <1>2, <1>4, PeerSaysKeeps

LEMMA PeerSaysFrameKeeps ==
  ASSUME PeersInv, NEW c \in Clients, PeerSaysFrame(c)
  PROVE  PeersInv'
<1>1. PICK f \in Frames : PeerSays(c, [kind |-> f.kind, owner |-> c, token |-> f.token])
  BY DEF PeerSaysFrame
<1> DEFINE m == [kind |-> f.kind, owner |-> c, token |-> f.token]
<1>2. m \in PeerMessage(c) /\ PeerSays(c, m)
  BY <1>1 DEF PeerMessage
<1>3. Greeted(said, c) /\ answer' = answer
  BY DEF PeerSaysFrame, PeersInv, AnswerInv
<1>4. /\ answer' \in [Clients -> {"none", "due", "refused", "accepted"}]
      /\ \A d \in Clients : answer'[d] = "accepted" => answer[d] = "accepted"
  BY <1>3 DEF PeersInv, AnswerInv
<1> HIDE DEF m
<1> QED BY <1>2, <1>3, <1>4, PeerSaysKeeps

LEMMA PeerReadsKeeps ==
  ASSUME PeersInv, NEW c \in Clients, PeerReads(c)
  PROVE  PeersInv'
<1> DEFINE e == <<c, "client">>
           got == {net[e][i] : i \in 1 .. Len(net[e])}
<1>1. e \in Endpoint /\ net[e] \in Seq(Out(said))
  BY EndpointFacts, TrafficFacts DEF PeersInv, NetInv
<1>2. /\ TcpRecv(e, Len(net[e])) /\ got # {} /\ UNCHANGED <<loopVars, said>>
      /\ \E a \in {"refused", answer[c]} :
           answer' = [answer EXCEPT ![c] = IF Acceptance(c) \in got THEN "accepted" ELSE a]
  BY DEF PeerReads, Here, Acceptance
<1>3. got \subseteq Out(said)
  BY <1>1
<1>4. Len(net[e]) \in 1 .. Len(net[e])
  BY <1>1, <1>2
<1>5. Acceptance(c) \in got => Greeted(said, c)
  BY <1>3 DEF Out
<1>6. NetInv(net', said) /\ UNCHANGED <<sock, rst>>
  BY <1>1, <1>2, <1>4, RecvKeepsNet DEF PeersInv
<1> HIDE DEF got
<1>7. AnswerInv'
  <2>1. PICK a \in {"refused", answer[c]} :
          answer' = [answer EXCEPT ![c] = IF Acceptance(c) \in got THEN "accepted" ELSE a]
    BY <1>2
  <2>2. said' = said /\ answer \in [Clients -> {"none", "due", "refused", "accepted"}]
    BY <1>2 DEF PeersInv, AnswerInv
  <2>3. answer' \in [Clients -> {"none", "due", "refused", "accepted"}]
    BY <2>1, <2>2
  <2>4. ASSUME NEW d \in Clients, answer'[d] = "accepted" PROVE Greeted(said, d)
    <3>1. answer[d] = "accepted" \/ (d = c /\ Acceptance(c) \in got)
      BY <2>1, <2>2, <2>4
    <3> QED BY <1>5, <3>1 DEF PeersInv, AnswerInv
  <2> QED BY <2>2, <2>3, <2>4 DEF AnswerInv
<1>8. SockInv' /\ SaidInv(said') /\ NetInv(net', said') /\ LoopTypes' /\ ServerInv'
  BY <1>2, <1>6 DEF PeersInv, SockInv, loopVars, LoopTypes, ServerInv
<1> QED BY <1>7, <1>8 DEF PeersInv

LEMMA PeerClosesKeeps ==
  ASSUME PeersInv, NEW c \in Clients, PeerCloses(c)
  PROVE  PeersInv'
<1> DEFINE e == <<c, "client">>
           abort == IF net[e] = << >> THEN {} ELSE {e}
<1>1. e \in Endpoint /\ {e} \in SUBSET Endpoint /\ abort \in SUBSET {e}
  BY EndpointFacts
<1>2. TcpCloseAll({e}, abort) /\ UNCHANGED <<loopVars, peerVars>>
  BY DEF PeerCloses, TcpClose, Here
<1> HIDE DEF e, abort
<1>3. NetInv(net', said) /\ SockInv'
  BY <1>1, <1>2, CloseKeepsNet DEF PeersInv
<1> QED BY <1>2, <1>3 DEF PeersInv, loopVars, peerVars, LoopTypes, ServerInv, AnswerInv
-----------------------------------------------------------------------------
(* A step of the server in the middle of a connection. *)
LEMMA ConnectionStepKeeps ==
  ASSUME PeersInv, UNCHANGED <<cur, backlog, said, answer>>, cur \in Clients,
         NetInv(net', said), SockInv', pc' \in [Process -> Label],
         conn' \in [Process -> State], tr' \in [Process -> Transport(Cell)],
         errnoAgain' \in [Process -> BOOLEAN],
         Serving(tr'[Server], conn'[Server], cur, said)
  PROVE  PeersInv'
<1>1. SaidInv(said') /\ NetInv(net', said') /\ AnswerInv'
  BY DEF PeersInv, AnswerInv
<1>2. LoopTypes'
  BY DEF PeersInv, LoopTypes
<1>3. ServerInv'
  BY DEF ServerInv, Serving, Carries
<1> QED BY <1>1, <1>2, <1>3 DEF PeersInv

(* ... that touches neither the transport nor the state nor the network. *)
LEMMA ControlStepKeeps ==
  ASSUME PeersInv, UNCHANGED <<tcpVars, conn, tr, cur, backlog, said, answer>>, pc[Server] # "accept",
         NEW l \in Label, Goto(Server, l), errnoAgain' \in [Process -> BOOLEAN]
  PROVE  PeersInv'
<1>1. cur \in Clients /\ pc' \in [Process -> Label]
  BY DEF PeersInv, LoopTypes, Goto
<1>2. NetInv(net', said) /\ SockInv'
  BY DEF PeersInv, tcpVars, SockInv
<1>3. conn' \in [Process -> State] /\ tr' \in [Process -> Transport(Cell)]
  BY DEF PeersInv, LoopTypes
<1>4. Serving(tr'[Server], conn'[Server], cur, said)
  BY <1>1 DEF PeersInv, ServerInv
<1> QED BY <1>1, <1>2, <1>3, <1>4, ConnectionStepKeeps

LEMMA ControlStepsKeep ==
  ASSUME PeersInv, UNCHANGED peerVars,
         \/ LeaveLoop(Server) \/ Poll(Server, "read") \/ SkipRead(Server, "write")
         \/ ParseStops(Server, "write") \/ SkipWrite(Server, "poll") \/ WriteError(Server, "poll")
         \/ SpuriousPoll(Server, "read") \/ PollError(Server)
  PROVE  PeersInv'
<1>1. UNCHANGED <<tcpVars, conn, tr, cur, backlog, said, answer>>
  BY DEF peerVars, LeaveLoop, Poll, SkipRead, ParseStops, SkipWrite, WriteError, SpuriousPoll, PollError
<1>2. pc[Server] # "accept"
  BY DEF LeaveLoop, Poll, SkipRead, ParseStops, SkipWrite, WriteError, SpuriousPoll, PollError
<1>3. errnoAgain' \in [Process -> BOOLEAN]
  <2>1. errnoAgain' = errnoAgain \/ errnoAgain' = [errnoAgain EXCEPT ![Server] = FALSE]
    BY DEF LeaveLoop, Poll, SkipRead, ParseStops, SkipWrite, WriteError, SpuriousPoll, PollError
  <2> QED BY <2>1 DEF PeersInv, LoopTypes
<1>4. \E l \in Label : Goto(Server, l)
  <2>1. {"close", "read", "write", "poll"} \subseteq Label
    BY DEF Label
  <2>2. Goto(Server, "close") \/ Goto(Server, "read") \/ Goto(Server, "write") \/ Goto(Server, "poll")
    BY DEF LeaveLoop, Poll, SkipRead, ParseStops, SkipWrite, WriteError, SpuriousPoll, PollError
  <2> QED BY <2>1, <2>2
<1> QED BY <1>1, <1>2, <1>3, <1>4, ControlStepKeeps

(* What the steps on the server's transport start from. *)
LEMMA ServingNow ==
  ASSUME PeersInv, pc[Server] # "accept"
  PROVE  /\ cur \in Clients /\ SaidInv(said) /\ At(Server) = <<cur, "server">> /\ At(Server) \in Endpoint
         /\ Serving(tr[Server], conn[Server], cur, said)
         /\ Carries(tr[Server], Cell, Heard(said, cur), Out(said))
         /\ Heard(said, cur) \subseteq Cell /\ Heard(said, cur) \subseteq Out(said)
         /\ Out(said) \subseteq Cell /\ NoByte \in Cell /\ NoByte \in Out(said)
<1>1. cur \in Clients /\ SaidInv(said)
  BY DEF PeersInv, LoopTypes
<1>2. At(Server) = <<cur, "server">> /\ At(Server) \in Endpoint
  BY <1>1, EndpointFacts DEF At
<1>3. Serving(tr[Server], conn[Server], cur, said)
  BY <1>1 DEF PeersInv, ServerInv
<1>4. Heard(said, cur) \subseteq Cell /\ Heard(said, cur) \subseteq Out(said)
  BY <1>1, HeardFacts
<1>5. Out(said) \subseteq Cell /\ NoByte \in Cell /\ NoByte \in Out(said)
  BY NoByteIsOut DEF Out, Cell
<1> QED BY <1>1, <1>2, <1>3, <1>4, <1>5 DEF Serving

(* A step that only replaces the server's transport and state. *)
LEMMA TransportStepKeeps ==
  ASSUME PeersInv, pc[Server] # "accept", UNCHANGED <<cur, backlog, said, answer>>,
         NetInv(net', said), SockInv', pc' \in [Process -> Label], errnoAgain' \in [Process -> BOOLEAN],
         NEW t, tr' = [tr EXCEPT ![Server] = t], NEW k \in State, conn' = [conn EXCEPT ![Server] = k],
         Serving(t, k, cur, said)
  PROVE  PeersInv'
<1>1. t \in Transport(Cell) /\ cur \in Clients
  BY ServingNow DEF Serving, Carries
<1>2. tr' \in [Process -> Transport(Cell)] /\ tr'[Server] = t
  BY <1>1, ServerFacts DEF PeersInv, LoopTypes
<1>3. conn' \in [Process -> State] /\ conn'[Server] = k
  BY ServerFacts DEF PeersInv, LoopTypes
<1> QED BY <1>1, <1>2, <1>3, ConnectionStepKeeps

LEMMA ReadDataKeeps ==
  ASSUME PeersInv, UNCHANGED peerVars, ReadData(Server)
  PROVE  PeersInv'
<1> DEFINE e == <<cur, "server">>
<1>1. pc[Server] # "accept"
  BY DEF ReadData
<1>2. PICK n \in 1 .. Len(net[e]) :
        /\ n =< ReadSpace(tr[Server])
        /\ tr' = [tr EXCEPT ![Server] = TransportRead(tr[Server], SubSeq(net[e], 1, n))]
        /\ TcpRecv(e, n)
  BY <1>1, ServingNow DEF ReadData
<1>3. /\ NetInv(net', said) /\ UNCHANGED <<sock, rst>>
      /\ SubSeq(net[e], 1, n) \in Seq(Heard(said, cur)) /\ Len(SubSeq(net[e], 1, n)) = n
  BY <1>1, <1>2, ServingNow, RecvKeepsNet, TrafficFacts DEF PeersInv
<1> DEFINE t == TransportRead(tr[Server], SubSeq(net[e], 1, n))
<1>4. Carries(t, Cell, Heard(said, cur), Out(said))
  BY <1>1, <1>2, <1>3, ServingNow, ReadCarries
<1>5. tr' = [tr EXCEPT ![Server] = t]
  BY <1>2
<1> HIDE DEF t, e
<1>6. Serving(t, conn[Server], cur, said) /\ conn[Server] \in State
  BY <1>1, <1>4, ServingNow, ServerTransport DEF Serving
<1>7. /\ conn' = [conn EXCEPT ![Server] = conn[Server]] /\ SockInv' /\ pc' \in [Process -> Label]
      /\ errnoAgain' \in [Process -> BOOLEAN]
  BY <1>3 DEF ReadData, Goto, Label, PeersInv, LoopTypes, SockInv
<1>8. UNCHANGED <<cur, backlog, said, answer>>
  BY DEF ReadData, peerVars
<1> QED BY <1>1, <1>3, <1>5, <1>6, <1>7, <1>8, TransportStepKeeps

LEMMA ReadNoDataKeeps ==
  ASSUME PeersInv, UNCHANGED peerVars, ReadNoData(Server)
  PROVE  PeersInv'
<1>1. pc[Server] # "accept" /\ UNCHANGED <<tcpVars, conn, cur, backlog, said, answer>>
  BY DEF ReadNoData, peerVars
<1>2. \E l \in Label : Goto(Server, l)
  <2>1. AfterNoData(Server) \in Label
    BY DEF AfterNoData, Label
  <2> QED BY <2>1 DEF ReadNoData
<1>3. errnoAgain' \in [Process -> BOOLEAN]
  <2>1. \/ errnoAgain' = errnoAgain
        \/ \E b \in {FALSE, TRUE, errnoAgain[Server]} : errnoAgain' = [errnoAgain EXCEPT ![Server] = b]
    BY DEF ReadNoData
  <2>2. errnoAgain \in [Process -> BOOLEAN] /\ errnoAgain[Server] \in BOOLEAN
    BY ServerFacts DEF PeersInv, LoopTypes
  <2> QED BY <2>1, <2>2
<1>4. CASE UNCHANGED tr
  BY <1>1, <1>2, <1>3, <1>4, ControlStepKeeps
<1>5. CASE tr' = [tr EXCEPT ![Server] = TransportRead(tr[Server], << >>)]
  <2> DEFINE t == TransportRead(tr[Server], << >>)
  <2>1. << >> \in Seq(Heard(said, cur)) /\ Len(<< >>) =< ReadSpace(tr[Server])
    <3>1. Carries(tr[Server], Cell, Heard(said, cur), Out(said))
      BY <1>1, ServingNow
    <3>2. /\ tr[Server].read_pos \in Nat /\ tr[Server].read_len \in Nat
          /\ tr[Server].read_pos + tr[Server].read_len =< PW_BUFFER_SIZE
      BY <3>1 DEF Carries, Transport
    <3> QED BY <3>2, BufferSizeAssumption DEF ReadSpace
  <2>2. Carries(t, Cell, Heard(said, cur), Out(said))
    BY <1>1, <2>1, ServingNow, ReadCarries
  <2> HIDE DEF t
  <2>3. Serving(t, conn[Server], cur, said) /\ conn[Server] \in State
    BY <1>1, <2>2, ServingNow, ServerTransport DEF Serving
  <2>4. /\ conn' = [conn EXCEPT ![Server] = conn[Server]] /\ SockInv' /\ pc' \in [Process -> Label]
        /\ NetInv(net', said)
    BY <1>1, <1>2 DEF Goto, PeersInv, LoopTypes, tcpVars, SockInv
  <2>5. tr' = [tr EXCEPT ![Server] = t]
    BY <1>5 DEF t
  <2> QED BY <1>1, <1>3, <2>3, <2>4, <2>5, TransportStepKeeps
<1> QED BY <1>4, <1>5 DEF ReadNoData
-----------------------------------------------------------------------------
(* Queueing a message, whole or not at all. *)
LEMMA ReplyCarries ==
  ASSUME NEW C, NEW In, NEW O, O \subseteq C, NEW u, Carries(u, C, In, O), NEW m, Bytes(m) \in Seq(O)
  PROVE  Carries(Reply(u, m), C, In, O)
BY EnqueueCarries DEF Reply

LEMMA PayloadCarries ==
  ASSUME NEW C, NEW In, NEW O, O \subseteq C, NEW u, Carries(u, C, In, O), NEW bytes \in Seq(O), Len(bytes) >= 1
  PROVE  Carries(ReplyWithPayload(u, bytes), C, In, O)
<1> DEFINE h == IF HasRoom(u, 1) THEN Enqueue(u, SubSeq(bytes, 1, 1)) ELSE u
<1>1. SubSeq(bytes, 1, 1) \in Seq(O) /\ SubSeq(bytes, 2, Len(bytes)) \in Seq(O)
  OBVIOUS
<1>2. Carries(h, C, In, O)
  BY <1>1, EnqueueCarries
<1> HIDE DEF h
<1>3. Carries(Enqueue(h, SubSeq(bytes, 2, Len(bytes))), C, In, O)
  BY <1>1, <1>2, EnqueueCarries
<1> QED BY <1>3 DEF ReplyWithPayload, h

(* The message the parser sees is one the peer has sent. *)
LEMMA MessageFacts ==
  ASSUME PeersInv, pc[Server] # "accept", Complete(Server)
  PROVE  /\ Message(Server) \in PeerMessage(cur) /\ Message(Server).kind \in Kind
         /\ \E j \in 1 .. Len(said[cur]) : Message(Server) = said[cur][j]
         /\ Cells[Message(Server).kind] \in Nat \ {0} /\ Cells[Message(Server).kind] =< tr[Server].read_len
         /\ Carries(Taken(Server), Cell, Heard(said, cur), Out(said))
<1>1. First(Server) \in Heard(said, cur)
  <2>1. tr[Server].read_len > 0
    BY DEF Complete
  <2> QED BY <2>1, ServingNow, CarriedWindows DEF First
<1>2. /\ Message(Server) \in PeerMessage(cur)
      /\ \E j \in 1 .. Len(said[cur]) : Message(Server) = said[cur][j]
  BY <1>1, ServingNow, HeardFacts DEF Message
<1>3. Message(Server).kind \in Kind
  BY <1>2, ServingNow, PeerMessageFacts
<1>4. Cells[Message(Server).kind] \in Nat \ {0} /\ Cells[Message(Server).kind] =< tr[Server].read_len
  <2>1. Cells[Message(Server).kind] \in Nat \ {0}
    BY <1>3, CellsAssumption
  <2>2. tr[Server].read_len >= Cells[Message(Server).kind]
    BY DEF Complete, Message
  <2>3. tr[Server].read_len \in Nat
    BY ServingNow DEF Carries, Transport
  <2> QED BY <2>1, <2>2, <2>3
<1>5. Carries(Taken(Server), Cell, Heard(said, cur), Out(said))
  BY <1>4, ServingNow, ConsumeCarries DEF Taken
<1> QED BY <1>2, <1>3, <1>4, <1>5

LEMMA ParseStepKeeps ==
  ASSUME PeersInv, UNCHANGED peerVars, NEW s \in State, NEW new, NEW t, ParseCase(Server, s, new, t),
         Transition(s, new) \in State, Serving(t, Transition(s, new), cur, said)
  PROVE  PeersInv'
<1>1. /\ pc[Server] # "accept" /\ tr' = [tr EXCEPT ![Server] = t]
      /\ conn' = [conn EXCEPT ![Server] = Transition(s, new)]
      /\ UNCHANGED <<cur, backlog, said, answer, net, sock, rst, pc, errnoAgain>>
  BY DEF ParseCase, peerVars, tcpVars
<1>2. /\ NetInv(net', said) /\ SockInv' /\ pc' \in [Process -> Label]
      /\ errnoAgain' \in [Process -> BOOLEAN]
  BY <1>1 DEF PeersInv, LoopTypes, SockInv
<1> HIDE DEF ParseCase
<1> DEFINE k == Transition(s, new)
<1>3. k \in State /\ conn' = [conn EXCEPT ![Server] = k] /\ Serving(t, k, cur, said)
  BY <1>1
<1> HIDE DEF k
<1> QED BY <1>1, <1>2, <1>3, TransportStepKeeps

LEMMA HandshakingKeeps ==
  ASSUME PeersInv, UNCHANGED peerVars, ServerHandshaking
  PROVE  PeersInv'
<1> DEFINE m == Message(Server)
           ok == m.kind = "CLIENT_HELLO" => m.version = 1
           new == IF ok THEN "AUTHENTICATING" ELSE "CLOSING"
           hello == ServerHello(cur, IF ok THEN 0 ELSE 1002)
           t == Reply(Taken(Server), hello)
<1>1. ParseCase(Server, "HANDSHAKING", new, t)
  BY DEF ServerHandshaking
<1>2. pc[Server] # "accept" /\ Complete(Server) /\ cur \in Clients
  BY <1>1, ServingNow DEF ParseCase
<1>3. PICK j \in 1 .. Len(said[cur]) : m = said[cur][j]
  BY <1>2, MessageFacts
<1>4. ok => Greeted(said, cur)
  <2>1. CASE m.kind = "CLIENT_HELLO"
    BY <1>3, <2>1 DEF Greeted, Greets
  <2>2. CASE m.kind # "CLIENT_HELLO"
    BY <1>2, <1>3, <2>2 DEF PeersInv, SaidInv, Greeted
  <2> QED BY <2>1, <2>2
<1>5. Bytes(hello) \in Seq(Out(said))
  <2>1. hello \in Letter /\ hello.kind \in Kind
    BY <1>2, ServerMessageFacts
  <2>2. ASSUME NEW c \in Clients, hello = ServerHello(c, 0) PROVE Greeted(said, c)
    <3>1. hello.owner = c /\ hello.status = 0
      BY <2>2 DEF ServerHello
    <3>2. hello.owner = cur /\ hello.status = IF ok THEN 0 ELSE 1002
      BY DEF ServerHello
    <3> HIDE DEF hello
    <3>3. c = cur /\ ok
      BY <3>1, <3>2
    <3> QED BY <1>4, <3>3
  <2> HIDE DEF hello
  <2> QED BY <2>1, <2>2, ReplyFacts
<1>6. Carries(t, Cell, Heard(said, cur), Out(said))
  <2> HIDE DEF hello
  <2> QED BY <1>2, <1>5, ServingNow, MessageFacts, ReplyCarries
<1>7. /\ Transition("HANDSHAKING", "AUTHENTICATING") = "AUTHENTICATING"
      /\ Transition("HANDSHAKING", "CLOSING") = "HANDSHAKING"
      /\ {"HANDSHAKING", "AUTHENTICATING"} \subseteq State
  BY DEF Transition, Allowed, State
<1> HIDE DEF t, ok
<1>8. Serving(t, Transition("HANDSHAKING", new), cur, said) /\ Transition("HANDSHAKING", new) \in State
  BY <1>4, <1>6, <1>7 DEF Serving
<1> HIDE DEF new
<1> QED BY <1>1, <1>7, <1>8, ParseStepKeeps

LEMMA AuthenticatingKeeps ==
  ASSUME PeersInv, UNCHANGED peerVars, ServerAuthenticating
  PROVE  PeersInv'
<1> DEFINE m == Message(Server)
           ok == m.kind = "AUTH" /\ m.token = "secret_token"
           new == CASE ok -> "READY"
                    [] ~ok /\ m.kind = "AUTH" -> "CLOSING"
                    [] OTHER -> "AUTHENTICATING"
           t == IF ok THEN Reply(Taken(Server), AuthOk(cur)) ELSE Taken(Server)
<1>1. ParseCase(Server, "AUTHENTICATING", new, t)
  BY DEF ServerAuthenticating
<1>2. pc[Server] # "accept" /\ Complete(Server) /\ cur \in Clients /\ conn[Server] = "AUTHENTICATING"
  BY <1>1, ServingNow DEF ParseCase
<1>3. PICK j \in 1 .. Len(said[cur]) : m = said[cur][j]
  BY <1>2, MessageFacts
<1>4. Greeted(said, cur)
  BY <1>2, ServingNow DEF Serving
<1>5. ASSUME ok PROVE Proven(said, cur)
  <2>1. said[cur][j].kind = "AUTH" /\ said[cur][j].token = "secret_token"
    BY <1>3, <1>5
  <2>2. PICK i \in 1 .. Len(said[cur]) : i < j /\ Greets(said, cur, i)
    BY <1>2, <2>1 DEF PeersInv, SaidInv
  <2> QED BY <2>1, <2>2 DEF Proven
<1>6. Bytes(AuthOk(cur)) \in Seq(Out(said))
  <2>1. AuthOk(cur) \in Letter /\ AuthOk(cur).kind \in Kind
    BY <1>2, ServerMessageFacts
  <2>2. \A c \in Clients : AuthOk(cur) # ServerHello(c, 0)
    <3>1. \A c \in Clients : ServerHello(c, 0).kind = "SERVER_HELLO" /\ AuthOk(cur).kind = "AUTH_OK"
      BY DEF ServerHello, AuthOk
    <3> QED BY <3>1
  <2> QED BY <2>1, <2>2, ReplyFacts
<1>7. Carries(t, Cell, Heard(said, cur), Out(said))
  BY <1>2, <1>6, ServingNow, MessageFacts, ReplyCarries
<1>8. /\ Transition("AUTHENTICATING", "READY") = "READY"
      /\ Transition("AUTHENTICATING", "CLOSING") = "AUTHENTICATING"
      /\ Transition("AUTHENTICATING", "AUTHENTICATING") = "AUTHENTICATING"
      /\ {"READY", "AUTHENTICATING"} \subseteq State
  BY DEF Transition, Allowed, State
<1>9. (ok /\ new = "READY") \/ new \in {"CLOSING", "AUTHENTICATING"}
  OBVIOUS
<1> HIDE DEF t, ok, new
<1>10. Serving(t, Transition("AUTHENTICATING", new), cur, said) /\ Transition("AUTHENTICATING", new) \in State
  BY <1>4, <1>5, <1>7, <1>8, <1>9 DEF Serving
<1> QED BY <1>1, <1>8, <1>10, ParseStepKeeps

LEMMA ReadyKeeps ==
  ASSUME PeersInv, UNCHANGED peerVars, ServerReady
  PROVE  PeersInv'
<1> DEFINE m == Message(Server)
           new == IF m.kind = "CLOSE" THEN "CLOSING" ELSE "READY"
           echo == SubSeq(Window(Server), 1, Cells[m.kind])
           t == CASE m.kind \in {"DATA_BINARY", "DATA_TEXT"} -> ReplyWithPayload(Taken(Server), echo)
                  [] m.kind = "PING"  -> Reply(Taken(Server), Pong(cur))
                  [] m.kind = "CLOSE" -> Reply(Taken(Server), ServerClose(cur))
                  [] OTHER            -> Taken(Server)
<1>1. ParseCase(Server, "READY", new, t)
  BY DEF ServerReady
<1>2. pc[Server] # "accept" /\ Complete(Server) /\ cur \in Clients /\ conn[Server] = "READY"
  BY <1>1, ServingNow DEF ParseCase
<1>3. Greeted(said, cur) /\ Proven(said, cur)
  BY <1>2, ServingNow DEF Serving
<1>4. Bytes(Pong(cur)) \in Seq(Out(said)) /\ Bytes(ServerClose(cur)) \in Seq(Out(said))
  <2>1. /\ Pong(cur) \in Letter /\ Pong(cur).kind \in Kind
        /\ ServerClose(cur) \in Letter /\ ServerClose(cur).kind \in Kind
    BY <1>2, ServerMessageFacts
  <2>2. \A c \in Clients : Pong(cur) # ServerHello(c, 0) /\ ServerClose(cur) # ServerHello(c, 0)
    <3>1. \A c \in Clients : /\ ServerHello(c, 0).kind = "SERVER_HELLO"
                             /\ Pong(cur).kind = "PONG" /\ ServerClose(cur).kind = "CLOSE"
      BY DEF ServerHello, Pong, ServerClose
    <3> QED BY <3>1
  <2> QED BY <2>1, <2>2, ReplyFacts
<1>5. echo \in Seq(Out(said)) /\ Len(echo) >= 1
  <2> DEFINE n == Cells[m.kind]
             w == Window(Server)
  <2>1. n \in Nat \ {0} /\ n =< tr[Server].read_len
    BY <1>2, MessageFacts
  <2>2. w \in Seq(Heard(said, cur)) /\ Len(w) = tr[Server].read_len /\ Len(w) \in Nat
    BY <1>2, ServingNow, CarriedWindows DEF Window
  <2>3. w \in Seq(Out(said))
    BY <1>2, <2>2, ServingNow
  <2> HIDE DEF n, w
  <2>4. SubSeq(w, 1, n) \in Seq(Out(said)) /\ Len(SubSeq(w, 1, n)) = n
    BY <2>1, <2>2, <2>3
  <2> QED BY <2>1, <2>4 DEF n, w
<1>6. Carries(t, Cell, Heard(said, cur), Out(said))
  <2> HIDE DEF echo
  <2>1. Carries(Taken(Server), Cell, Heard(said, cur), Out(said)) /\ Out(said) \subseteq Cell
    BY <1>2, ServingNow, MessageFacts
  <2>2. Carries(ReplyWithPayload(Taken(Server), echo), Cell, Heard(said, cur), Out(said))
    BY <1>5, <2>1, PayloadCarries
  <2>3. /\ Carries(Reply(Taken(Server), Pong(cur)), Cell, Heard(said, cur), Out(said))
        /\ Carries(Reply(Taken(Server), ServerClose(cur)), Cell, Heard(said, cur), Out(said))
    BY <1>4, <2>1, ReplyCarries
  <2> QED BY <2>1, <2>2, <2>3
<1>7. /\ Transition("READY", "CLOSING") = "CLOSING" /\ Transition("READY", "READY") = "READY"
      /\ {"READY", "CLOSING"} \subseteq State
  BY DEF Transition, Allowed, State
<1> HIDE DEF t
<1>8. Serving(t, Transition("READY", new), cur, said) /\ Transition("READY", new) \in State
  BY <1>3, <1>6, <1>7 DEF Serving
<1> HIDE DEF new
<1> QED BY <1>1, <1>7, <1>8, ParseStepKeeps

LEMMA WriteDataKeeps ==
  ASSUME PeersInv, UNCHANGED peerVars, WriteData(Server, "poll")
  PROVE  PeersInv'
<1> DEFINE e == <<cur, "server">>
           w == WriteWindow(tr[Server])
<1>1. pc[Server] # "accept"
  BY DEF WriteData
<1>2. PICK n \in 1 .. tr[Server].write_len :
        TcpSend(e, SubSeq(w, 1, n)) /\ tr' = [tr EXCEPT ![Server] = TransportWrite(tr[Server], n)]
  BY <1>1, ServingNow DEF WriteData
<1> DEFINE t == TransportWrite(tr[Server], n)
           k == AfterWrite(conn[Server], t)
<1>3. Carries(t, Cell, Heard(said, cur), Out(said))
  BY <1>1, ServingNow, WriteCarries
<1>4. NetInv(net', said) /\ SockInv'
  <2>1. w \in Seq(Out(said)) /\ Len(w) = tr[Server].write_len /\ tr[Server].write_len \in Nat
    BY <1>1, ServingNow, CarriedWindows
  <2>2. SubSeq(w, 1, n) \in Seq(Out(said))
    <3> HIDE DEF w
    <3> QED BY <2>1
  <2>3. e \in Endpoint /\ Traffic(said, Other(e)) = Out(said)
    BY <1>1, ServingNow, EndpointFacts, TrafficFacts
  <2> QED BY <1>2, <2>2, <2>3, SendKeepsNet DEF PeersInv
<1>5. tr' = [tr EXCEPT ![Server] = t] /\ tr'[Server] = t
  BY <1>2, ServerFacts DEF PeersInv, LoopTypes
<1> HIDE DEF t
<1>6. conn' = [conn EXCEPT ![Server] = k]
  BY <1>5 DEF WriteData
<1>7. (k = conn[Server] \/ (conn[Server] = "CLOSING" /\ k = "CLOSED")) /\ k \in State /\ conn[Server] \in State
  BY ServerTransport DEF AfterWrite, Transition, Allowed, State
<1>8. Serving(t, k, cur, said)
  BY <1>1, <1>3, <1>7, ServingNow DEF Serving
<1>9. /\ pc' \in [Process -> Label] /\ errnoAgain' \in [Process -> BOOLEAN]
      /\ UNCHANGED <<cur, backlog, said, answer>>
  BY DEF WriteData, Goto, Label, PeersInv, LoopTypes, peerVars
<1> HIDE DEF k
<1> QED BY <1>1, <1>4, <1>5, <1>6, <1>7, <1>8, <1>9, TransportStepKeeps

LEMMA SigpipeKeeps ==
  ASSUME PeersInv, UNCHANGED peerVars, WriteSigpipe(Server)
  PROVE  PeersInv'
<1>1. pc[Server] # "accept"
  BY DEF WriteSigpipe
<1> DEFINE mine == {e \in Endpoint : sock[e] = "open" /\ e[2] = "server"}
           abort == {e \in mine : net[e] # << >> \/ e # At(Server)}
<1>2. TcpCloseAll(mine, abort)
  BY DEF WriteSigpipe
<1>3. mine \in SUBSET Endpoint /\ abort \in SUBSET mine
  OBVIOUS
<1> HIDE DEF mine, abort
<1>4. NetInv(net', said) /\ SockInv'
  BY <1>2, <1>3, CloseKeepsNet DEF PeersInv
<1>5. /\ UNCHANGED <<conn, tr, errnoAgain, cur, said, answer>> /\ backlog' = << >>
      /\ pc' = [pc EXCEPT ![Server] = "killed"]
  BY DEF WriteSigpipe, peerVars, Goto
<1>6. LoopTypes'
  <2>1. pc' \in [Process -> Label] /\ cur \in Clients
    BY <1>1, <1>5, ServingNow DEF PeersInv, LoopTypes, Label
  <2>2. backlog' \in Seq(Clients)
    BY <1>5
  <2> QED BY <1>5, <2>1, <2>2 DEF PeersInv, LoopTypes
<1>7. SaidInv(said') /\ NetInv(net', said') /\ ServerInv' /\ AnswerInv'
  BY <1>4, <1>5 DEF PeersInv, ServerInv, AnswerInv
<1> QED BY <1>4, <1>6, <1>7 DEF PeersInv

LEMMA ServerEntryFacts ==
  /\ ServerEntry \in {"DISCONNECTED", "HANDSHAKING"} /\ ServerEntry \in State
  /\ ConnectingFirst = TRUE => ServerEntry = "HANDSHAKING"
BY ConnectingFirstAssumption DEF ServerEntry, Transition, Allowed, State, ConnectionInit

(* What an earlier connection left in the buffers is not in the window. *)
LEMMA AcceptKeeps ==
  ASSUME PeersInv, UNCHANGED peerVars, Accept
  PROVE  PeersInv'
<1> DEFINE t == TransportInit(tr[Server])
<1>1. /\ cur' = Head(backlog) /\ backlog' = Tail(backlog) /\ backlog # << >>
      /\ tr' = [tr EXCEPT ![Server] = t] /\ conn' = [conn EXCEPT ![Server] = ServerEntry]
      /\ pc' = [pc EXCEPT ![Server] = "poll"]
      /\ UNCHANGED <<net, sock, rst, errnoAgain, said, answer>>
  BY DEF Accept, peerVars, Goto, tcpVars
<1>2. cur' \in Clients /\ backlog' \in Seq(Clients)
  BY <1>1 DEF PeersInv, LoopTypes
<1>3. Carries(t, Cell, Heard(said, cur'), Out(said))
  <2>1. tr[Server] \in Transport(Cell) /\ tr[Server].write_buffer \in [Index -> Out(said)]
    BY ServerTransport DEF PeersInv, ServerInv
  <2> QED BY <2>1, InitCarries
<1>4. t \in Transport(Cell) /\ t.write_buffer \in [Index -> Out(said)]
  BY <1>3 DEF Carries
<1> HIDE DEF t
<1>5. LoopTypes'
  <2>1. pc' \in [Process -> Label]
    BY <1>1 DEF PeersInv, LoopTypes, Label
  <2>2. tr' \in [Process -> Transport(Cell)] /\ conn' \in [Process -> State]
    BY <1>1, <1>4, ServerEntryFacts DEF PeersInv, LoopTypes
  <2> QED BY <1>1, <1>2, <2>1, <2>2 DEF PeersInv, LoopTypes
<1>6. ServerInv'
  <2>1. tr'[Server] = t /\ conn'[Server] = ServerEntry
    BY <1>1, ServerFacts DEF PeersInv, LoopTypes
  <2>2. Serving(t, ServerEntry, cur', said)
    BY <1>3, ServerEntryFacts DEF Serving
  <2> QED BY <1>1, <1>4, <2>1, <2>2 DEF ServerInv
<1>7. SaidInv(said') /\ NetInv(net', said') /\ SockInv' /\ AnswerInv'
  BY <1>1 DEF PeersInv, SockInv, AnswerInv
<1> QED BY <1>5, <1>6, <1>7 DEF PeersInv

LEMMA CloseClientKeeps ==
  ASSUME PeersInv, UNCHANGED peerVars, CloseClient
  PROVE  PeersInv'
<1> DEFINE e == At(Server)
           abort == IF net[e] = << >> THEN {} ELSE {e}
<1>1. pc[Server] # "accept" /\ TcpCloseAll({e}, abort)
  BY DEF CloseClient, TcpClose
<1>2. {e} \in SUBSET Endpoint /\ abort \in SUBSET {e}
  BY <1>1, ServingNow
<1> HIDE DEF e, abort
<1>3. NetInv(net', said) /\ SockInv'
  BY <1>1, <1>2, CloseKeepsNet DEF PeersInv
<1>4. /\ cur' = NoClient /\ pc' = [pc EXCEPT ![Server] = "accept"]
      /\ UNCHANGED <<conn, tr, errnoAgain, backlog, said, answer>>
  BY DEF CloseClient, Goto, peerVars
<1>5. LoopTypes'
  <2>1. pc' \in [Process -> Label] /\ pc'[Server] = "accept"
    BY <1>4, ServerFacts DEF PeersInv, LoopTypes, Label
  <2> QED BY <1>4, <2>1 DEF PeersInv, LoopTypes
<1>6. ServerInv'
  BY <1>4, ServerFacts DEF PeersInv, ServerInv
<1>7. SaidInv(said') /\ NetInv(net', said') /\ AnswerInv'
  BY <1>3, <1>4 DEF PeersInv, AnswerInv
<1> QED BY <1>3, <1>5, <1>6, <1>7 DEF PeersInv

LEMMA StepKeepsPeers ==
  ASSUME PeersInv, [Next]_allVars
  PROVE  PeersInv'
<1>1. CASE \E c \in Clients : PeerStep(c)
  BY <1>1, PeerConnectsKeeps, PeerSaysHelloKeeps, PeerSaysFrameKeeps, PeerReadsKeeps, PeerClosesKeeps
     DEF PeerStep
<1>2. CASE ServerStep /\ UNCHANGED peerVars
  BY <1>2, AcceptKeeps, ControlStepsKeep, ReadDataKeeps, ReadNoDataKeeps, HandshakingKeeps,
     AuthenticatingKeeps, ReadyKeeps, WriteDataKeeps, SigpipeKeeps, CloseClientKeeps DEF ServerStep
<1>3. CASE ServerFault /\ UNCHANGED peerVars
  BY <1>3, ControlStepsKeep DEF ServerFault
<1>4. CASE UNCHANGED allVars
  BY <1>4 DEF allVars, vars, tcpVars, loopVars, peerVars, PeersInv, SockInv, LoopTypes, ServerInv, AnswerInv
<1> QED BY <1>1, <1>2, <1>3, <1>4 DEF Next

LEMMA PeersInvHolds == Spec => []PeersInv
<1>1. PeersInv /\ [Next]_allVars => PeersInv'
  BY StepKeepsPeers
<1> QED BY <1>1, InitPeers, PTL DEF Spec

(* docs/deploy.md:75, for any number of peers, any frames, any buffer and  *)
(* message sizes, and whatever faults happen: the server is READY, CLOSING *)
(* or CLOSED only for a peer that has said hello in version 1 and then     *)
(* shown the right token on this very connection (server_main.c:64,        *)
(* 124-158).                                                               *)
THEOREM ServesOnlyAuthenticated == Spec => []ServedOnlyAuthenticated
<1>1. PeersInv => ServedOnlyAuthenticated
  <2>1. SUFFICES ASSUME PeersInv, cur # NoClient, conn[Server] \in {"READY", "CLOSING", "CLOSED"}
                 PROVE  Authenticated(cur)
    BY DEF ServedOnlyAuthenticated
  <2>2. Proven(said, cur)
    BY <2>1 DEF PeersInv, LoopTypes, ServerInv, Serving
  <2> QED BY <2>2 DEF Proven, Greets, Authenticated
<1> QED BY <1>1, PeersInvHolds, PTL
-----------------------------------------------------------------------------
(* While a connection is served, the server's state has left DISCONNECTED. *)
EnteredInv == pc[Server] # "accept" => conn[Server] \notin {"DISCONNECTED", "CONNECTING"}

WaitInv == EnteredInv /\ WaitsForPeer

(* A peer that authenticated or left stays so, whatever the peers do. *)
LEMMA PeerStepKeepsWait ==
  ASSUME PeersInv, WaitInv, NEW c \in Clients, PeerStep(c)
  PROVE  WaitInv'
<1>1. UNCHANGED <<pc, conn, tr, cur>>
  BY DEF PeerStep, PeerConnects, PeerSaysHello, PeerSaysFrame, PeerSays, PeerReads, PeerCloses, loopVars
<1>2. ASSUME cur \in Clients, sock[<<cur, "client">>] = "closed" PROVE sock'[<<cur, "client">>] = "closed"
  <2>1. <<cur, "client">> \in Endpoint
    BY <1>2, EndpointFacts
  <2>2. CASE PeerConnects(c)
    <3>1. sock[<<c, "client">>] = "none" /\ sock' = [e \in Endpoint |-> IF e[1] = c THEN "open" ELSE sock[e]]
      BY <2>2 DEF PeerConnects, TcpConnect, Here
    <3>2. cur # c
      BY <1>2, <3>1
    <3> QED BY <1>2, <2>1, <3>1, <3>2
  <2>3. CASE PeerSaysHello(c) \/ PeerSaysFrame(c) \/ PeerReads(c)
    BY <1>2, <2>3 DEF PeerSaysHello, PeerSaysFrame, PeerSays, PeerReads, TcpSend, TcpRecv
  <2>4. CASE PeerCloses(c)
    BY <1>2, <2>1, <2>4 DEF PeerCloses, TcpClose, TcpCloseAll
  <2> QED BY <2>2, <2>3, <2>4 DEF PeerStep
<1>3. ASSUME cur \in Clients, Authenticated(cur) PROVE Authenticated(cur)'
  <2>1. SaidInv(said)
    BY DEF PeersInv
  <2>2. said' = said \/ \E m : said' = [said EXCEPT ![c] = Append(@, m)]
    BY DEF PeerStep, PeerConnects, PeerSaysHello, PeerSaysFrame, PeerSays, PeerReads, PeerCloses, peerVars
  <2>3. Len(said[cur]) \in Nat /\ \A i \in 1 .. Len(said[cur]) : i \in 1 .. Len(said'[cur]) /\ said'[cur][i] = said[cur][i]
    <3>1. said[cur] \in Seq(Letter)
      BY <1>3, <2>1 DEF SaidInv
    <3>2. said'[cur] = said[cur] \/ \E m : said'[cur] = Append(said[cur], m)
      BY <1>3, <2>1, <2>2 DEF SaidInv
    <3> QED BY <3>1, <3>2
  <2>4. cur' = cur
    BY <1>1
  <2> QED BY <1>3, <2>3, <2>4 DEF Authenticated
<1>4. EnteredInv'
  BY <1>1 DEF WaitInv, EnteredInv
<1>5. WaitsForPeer'
  <2>1. SUFFICES ASSUME pc[Server] = "close", ~Authenticated(cur)'
                 PROVE  (sock[Here(cur)] = "closed" \/ ReadBufferFull(tr[Server]))'
    BY <1>1 DEF WaitsForPeer
  <2>2. cur \in Clients
    BY <2>1 DEF PeersInv, LoopTypes
  <2>3. sock[<<cur, "client">>] = "closed" \/ ReadBufferFull(tr[Server])
    BY <1>3, <2>1, <2>2 DEF WaitInv, WaitsForPeer, Here
  <2> QED BY <1>1, <1>2, <2>2, <2>3 DEF Here
<1> QED BY <1>4, <1>5 DEF WaitInv

(* No step of the server takes its state back to DISCONNECTED. *)
LEMMA ServerStepKeepsEntered ==
  ASSUME ConnectingFirst = TRUE, PeersInv, EnteredInv, ServerStep \/ ServerFault
  PROVE  EnteredInv'
<1> DEFINE Back == {"DISCONNECTED", "CONNECTING"}
<1>1. conn \in [Process -> State] /\ pc \in [Process -> Label] /\ Server \in Process
  BY ServerFacts DEF PeersInv, LoopTypes
<1>2. CASE Accept
  <2>1. conn'[Server] = "HANDSHAKING"
    BY <1>1, <1>2, ServerEntryFacts DEF Accept
  <2> QED BY <2>1 DEF EnteredInv
<1>3. CASE CloseClient
  <2>1. pc'[Server] = "accept"
    BY <1>1, <1>3 DEF CloseClient, Goto
  <2> QED BY <2>1 DEF EnteredInv
<1>4. CASE ServerHandshaking \/ ServerAuthenticating \/ ServerReady
  <2>1. PICK s \in {"HANDSHAKING", "AUTHENTICATING", "READY"},
             new \in {"AUTHENTICATING", "READY", "CLOSING"} :
          conn[Server] = s /\ conn' = [conn EXCEPT ![Server] = Transition(conn[Server], new)]
    BY <1>4 DEF ServerHandshaking, ServerAuthenticating, ServerReady, ParseCase
  <2>2. conn'[Server] = s \/ conn'[Server] = new
    BY <1>1, <2>1 DEF Transition
  <2> QED BY <2>2 DEF EnteredInv
<1>5. CASE WriteData(Server, "poll")
  <2>1. conn' = [conn EXCEPT ![Server] = AfterWrite(conn[Server], tr'[Server])] /\ pc[Server] # "accept"
    BY <1>5 DEF WriteData
  <2>2. conn'[Server] \in {conn[Server], "CLOSED"}
    BY <1>1, <2>1 DEF AfterWrite, Transition
  <2> QED BY <2>1, <2>2 DEF EnteredInv
<1>6. CASE \/ LeaveLoop(Server) \/ Poll(Server, "read") \/ SkipRead(Server, "write") \/ ReadData(Server)
           \/ ReadNoData(Server) \/ ParseStops(Server, "write") \/ SkipWrite(Server, "poll")
           \/ WriteError(Server, "poll") \/ WriteSigpipe(Server) \/ ServerFault
  <2>1. conn' = conn /\ pc[Server] # "accept"
    BY <1>6 DEF LeaveLoop, Poll, SkipRead, ReadData, ReadNoData, ParseStops, SkipWrite, WriteError,
                WriteSigpipe, ServerFault, SpuriousPoll, PollError
  <2> QED BY <2>1 DEF EnteredInv
<1> QED BY <1>2, <1>3, <1>4, <1>5, <1>6 DEF ServerStep

(* How the server comes to give a connection up. *)
LEMMA ServerStepKeepsWait ==
  ASSUME ConnectingFirst = TRUE, "poll_error" \notin Faults,
         PeersInv, WaitInv, ServerStep \/ ServerFault, UNCHANGED peerVars
  PROVE  WaitInv'
<1>1. pc \in [Process -> Label] /\ Server \in Process
  BY ServerFacts DEF PeersInv, LoopTypes
<1>2. EnteredInv'
  BY ServerStepKeepsEntered DEF WaitInv
<1>3. CASE LeaveLoop(Server)
  <2>1. pc[Server] = "poll" /\ conn[Server] \in {"CLOSED", "DISCONNECTED"} /\ UNCHANGED <<cur, said>>
    BY <1>3 DEF LeaveLoop, LoopRuns, peerVars
  <2>2. conn[Server] = "CLOSED"
    BY <2>1 DEF WaitInv, EnteredInv
  <2>3. Proven(said, cur)
    BY <2>1, <2>2, ServingNow DEF Serving
  <2>4. Authenticated(cur)'
    BY <2>1, <2>3 DEF Proven, Greets, Authenticated
  <2> QED BY <1>2, <2>4 DEF WaitInv, WaitsForPeer
<1>4. CASE ReadNoData(Server)
  <2>1. pc[Server] = "read" /\ UNCHANGED <<tcpVars, cur>> /\ pc'[Server] = AfterNoData(Server)
    BY <1>1, <1>4 DEF ReadNoData, Goto
  <2>2. cur \in Clients /\ At(Server) = <<cur, "server">> /\ Other(At(Server)) = <<cur, "client">>
    BY <2>1, ServingNow, EndpointFacts
  <2>3. CASE ReadBufferFull(tr[Server]) /\ UNCHANGED tr
    BY <1>2, <2>3 DEF WaitInv, WaitsForPeer
  <2>4. CASE errnoAgain' = [errnoAgain EXCEPT ![Server] =
                              IF rst[At(Server)] THEN FALSE
                              ELSE IF sock[Other(At(Server))] = "closed" THEN @
                              ELSE TRUE]
    <3>1. CASE rst[At(Server)] \/ sock[Other(At(Server))] = "closed"
      <4>1. sock[<<cur, "client">>] = "closed"
        BY <2>2, <3>1 DEF PeersInv, SockInv
      <4>2. sock'[Here(cur')] = "closed"
        BY <2>1, <4>1 DEF Here, tcpVars
      <4> QED BY <1>2, <4>2 DEF WaitInv, WaitsForPeer
    <3>2. CASE ~(rst[At(Server)] \/ sock[Other(At(Server))] = "closed")
      <4>1. errnoAgain'[Server] = TRUE
        BY <1>1, <2>4, <3>2 DEF PeersInv, LoopTypes
      <4>2. pc'[Server] = "parse"
        BY <2>1, <4>1 DEF AfterNoData
      <4> QED BY <1>2, <4>2 DEF WaitInv, WaitsForPeer
    <3> QED BY <3>1, <3>2
  <2> QED BY <1>4, <2>3, <2>4 DEF ReadNoData
<1>5. CASE /\ ~LeaveLoop(Server) /\ ~ReadNoData(Server)
  <2>1. pc'[Server] # "close"
    <3>1. CASE ServerHandshaking \/ ServerAuthenticating \/ ServerReady
      BY <3>1 DEF ServerHandshaking, ServerAuthenticating, ServerReady, ParseCase
    <3>2. CASE ServerFault
      BY <1>1, <3>2 DEF ServerFault, SpuriousPoll, PollError, Fault, Goto
    <3>3. CASE \/ Accept \/ Poll(Server, "read") \/ SkipRead(Server, "write") \/ ReadData(Server)
               \/ ParseStops(Server, "write") \/ SkipWrite(Server, "poll") \/ WriteData(Server, "poll")
               \/ WriteError(Server, "poll") \/ WriteSigpipe(Server) \/ CloseClient
      BY <1>1, <3>3 DEF Accept, Poll, SkipRead, ReadData, ParseStops, SkipWrite, WriteData, WriteError,
                        WriteSigpipe, CloseClient, Goto
    <3> QED BY <1>5, <3>1, <3>2, <3>3 DEF ServerStep
  <2> QED BY <1>2, <2>1 DEF WaitInv, WaitsForPeer
<1> QED BY <1>3, <1>4, <1>5

(* server_main.c:81-85, for any number of peers and any sizes: with a      *)
(* server that gets as far as HANDSHAKING and a poll() that does not fail, *)
(* a peer that has not authenticated is given up only when it has gone or  *)
(* its message fills the buffer; spurious wake-ups make no difference.     *)
THEOREM ServerWaits ==
  ASSUME ConnectingFirst = TRUE, "poll_error" \notin Faults
  PROVE  Spec => []WaitsForPeer
<1>1. Init => WaitInv
  <2>1. SUFFICES ASSUME Init PROVE pc[Server] = "accept"
    BY DEF WaitInv, EnteredInv, WaitsForPeer
  <2> QED BY <2>1, ServerFacts DEF Init, EventLoopInit
<1>2. PeersInv /\ WaitInv /\ [Next]_allVars => WaitInv'
  <2>1. SUFFICES ASSUME PeersInv, WaitInv, [Next]_allVars PROVE WaitInv'
    OBVIOUS
  <2>2. CASE UNCHANGED allVars
    BY <2>1, <2>2 DEF allVars, vars, tcpVars, loopVars, peerVars, WaitInv, EnteredInv, WaitsForPeer, Authenticated
  <2>3. CASE Next
    BY <2>1, <2>3, PeerStepKeepsWait, ServerStepKeepsWait DEF Next
  <2> QED BY <2>1, <2>2, <2>3
<1>3. WaitInv => WaitsForPeer
  BY DEF WaitInv
<1> QED BY <1>1, <1>2, <1>3, PeersInvHolds, PTL DEF Spec
=============================================================================
