--------------------------- MODULE SessionProofs ---------------------------
(***************************************************************************)
(* Proofs about Session for any number of clients, any tokens, any sizes   *)
(* of the buffers and of the messages that fit them, and any faults.       *)
(***************************************************************************)
EXTENDS Session, PwTransportProofs, FiniteSetTheorems

(* Every message fits an empty buffer. *)
MessagesFit == \A k \in Kind : Cells[k] =< PW_BUFFER_SIZE

Cell == {NoByte} \cup UNION {Letter(c) \X Nat : c \in Clients}

(* The cells of s are those of m behind the first a. *)
Holds(s, m, a) == \A i \in 1 .. Len(s) : s[i] = <<m, a + i>>

(* The receiver's window r and the network n hold the beginning of m ... *)
Part(m, r, n) == Holds(r, m, 0) /\ Holds(n, m, Len(r)) /\ Len(r) + Len(n) =< Cells[m.kind]

(* ... and the sender's window w the rest of it. *)
Whole(m, r, n, w) ==
  Part(m, r, n) /\ Holds(w, m, Len(r) + Len(n)) /\ Len(r) + Len(n) + Len(w) = Cells[m.kind]

Nothing(r, n, w) == Len(r) = 0 /\ Len(n) = 0 /\ Len(w) = 0

(* What client and server say to each other, with the states they are in *)
(* until it has been heard.                                               *)
Asked(c) == {<<"HANDSHAKING", "DISCONNECTED", ClientHello(c)>>,
             <<"HANDSHAKING", "HANDSHAKING", ClientHello(c)>>,
             <<"AUTHENTICATING", "AUTHENTICATING", Auth(c)>>,
             <<"READY", "READY", Data(c)>>, <<"READY", "READY", Ping(c)>>,
             <<"CLOSING", "READY", ClientClose(c)>>, <<"CLOSED", "READY", ClientClose(c)>>}

Answered(c) == {<<"HANDSHAKING", "AUTHENTICATING", ServerHello(c, 0)>>,
                <<"AUTHENTICATING", "READY", AuthOk(c)>>,
                <<"READY", "READY", Data(c)>>, <<"READY", "READY", Pong(c)>>,
                <<"CLOSED", "CLOSING", ServerClose(c)>>, <<"CLOSED", "CLOSED", ServerClose(c)>>}

(* The conversation of client c, in state kc with transport tc, and the    *)
(* server, in state ks with transport ts; nc and ns are on the way.        *)
Exchange(c, kc, ks, tc, ts, nc, ns) ==
  LET ToS(m) == Whole(m, ReadWindow(ts), ns, WriteWindow(tc))
      ToC(m) == Whole(m, ReadWindow(tc), nc, WriteWindow(ts))
      NoneToS == Nothing(ReadWindow(ts), ns, WriteWindow(tc))
      NoneToC == Nothing(ReadWindow(tc), nc, WriteWindow(ts))
  IN  \/ /\ \E m \in Letter(c) : <<kc, ks, m>> \in Asked(c) /\ ToS(m)
         /\ NoneToC /\ (kc = "CLOSING" => tc.write_len > 0)
      \/ /\ \E m \in Letter(c) : <<kc, ks, m>> \in Answered(c) /\ ToC(m)
         /\ NoneToS /\ (ks = "CLOSED" => ts.write_len = 0)
      \/ kc = "AUTHENTICATING" /\ ks = "AUTHENTICATING" /\ NoneToS /\ NoneToC

(* The client has connected and is not served yet. *)
Waiting(c, kc, tc, nc, ns) ==
  kc = "HANDSHAKING" /\ tc.read_len = 0 /\ Len(nc) = 0 /\ Whole(ClientHello(c), << >>, ns, WriteWindow(tc))

(* The other end of the conversation has gone: what is left of its last    *)
(* message t has not answered.                                             *)
Half(c, t, n) ==
  \E m \in Letter(c) : Part(m, ReadWindow(t), n) /\ (t.read_len + Len(n) > 0 => t.write_len = 0)

(* The client has gone, having said all it had to say. *)
Leaving(c, ks, ts, ns) ==
  \/ ks = "READY" /\ Part(ClientClose(c), ReadWindow(ts), ns) /\ ts.write_len = 0
  \/ /\ ks \in {"CLOSING", "CLOSED"} /\ ts.read_len = 0 /\ Len(ns) = 0
     /\ ks = "CLOSED" => ts.write_len = 0

(* Client c and the server, x being who is served, sc and ss the sockets. *)
Conversation(c, x, sc, ss, kc, ks, tc, ts, nc, ns) ==
  /\ sc = "open" /\ ss = "open" /\ x = c => Exchange(c, kc, ks, tc, ts, nc, ns)
  /\ sc = "open" /\ ss = "open" /\ x # c => Waiting(c, kc, tc, nc, ns)
  /\ sc = "closed" /\ ss = "open" /\ x = c =>
       Half(c, ts, ns) /\ (kc = "CLOSED" => Leaving(c, ks, ts, ns))
  /\ sc = "closed" /\ ss = "open" /\ x # c => Part(ClientHello(c), << >>, ns) /\ kc # "CLOSED"
  /\ sc = "open" /\ ss = "closed" => Half(c, tc, nc)

There(c) == <<c, "client">>
Here(c)  == <<c, "server">>

ConversationInv ==
  \A c \in Clients : Conversation(c, cur, sock[There(c)], sock[Here(c)], conn[c], conn[Server],
                                  tr[c], tr[Server], net[There(c)], net[Here(c)])

Sound(t) ==
  /\ t \in Transport(Cell)
  /\ t.read_pos + t.read_len =< PW_BUFFER_SIZE /\ t.write_pos + t.write_len =< PW_BUFFER_SIZE
  /\ t.write_len = 0 => t.write_pos = 0

Running == {"poll", "read", "parse", "write", "close"}

LoopInv ==
  /\ pc \in [Process -> Running \cup {"accept", "start", "exit", "killed"}]
  /\ conn \in [Process -> State]
  /\ tr = [p \in Process |-> tr[p]] /\ \A p \in Process : Sound(tr[p])
  /\ cur \in Clients \cup {NoClient} /\ (pc[Server] = "accept" <=> cur = NoClient)
  /\ pc[Server] \in Running => sock[Here(cur)] = "open"
  /\ pc[Server] \in Running \cup {"accept", "killed"}

NetInv ==
  /\ net \in [Endpoint -> Seq(Cell)] /\ sock \in [Endpoint -> {"none", "open", "closed"}]
  /\ rst \in [Endpoint -> BOOLEAN] /\ \A e \in Endpoint : rst[e] => sock[Other(e)] = "closed"
  /\ \A c \in Clients : /\ sock[There(c)] = "none" <=> sock[Here(c)] = "none"
                        /\ sock[There(c)] = "open" <=> pc[c] \in Running
                        /\ sock[There(c)] = "none" => net[There(c)] = << >> /\ net[Here(c)] = << >>
                        /\ pc[c] = "start" => sock[There(c)] = "none" /\ tr[c].write_len = 0
                        /\ pc[c] # "accept"

BacklogInv ==
  /\ backlog \in Seq(Clients)
  /\ \A i \in 1 .. Len(backlog) : sock[Here(backlog[i])] = "open" /\ backlog[i] # cur
  /\ \A i, j \in 1 .. Len(backlog) : backlog[i] = backlog[j] => i = j
  /\ pc[Server] = "killed" => \A c \in Clients : sock[Here(c)] # "open"

SessionInv == LoopInv /\ NetInv /\ BacklogInv /\ ConversationInv

(* For KilledOnlyAnsweringClose: without faults a client leaves only after *)
(* its CLOSE is out; it never waits with a message it has not looked at;   *)
(* and the server calls send() only with something to send.                *)
OrderTypes ==
  /\ faults \in Nat /\ errnoAgain \in [Process -> BOOLEAN]
  /\ revents \in [Process -> SUBSET {"POLLIN", "POLLOUT"}]

LeavesInOrder ==
  faults = 0 => \A c \in Clients :
    sock[Here(c)] = "open" /\ (sock[There(c)] = "closed" \/ pc[c] = "close") => conn[c] = "CLOSED"

Listening == {"HANDSHAKING", "AUTHENTICATING", "READY"}

NothingUnheard ==
  \A c \in Clients : pc[c] \in {"poll", "write", "read"} /\ conn[c] \in Listening => ~Complete(c)

OutputPending ==
  pc[Server] \in {"read", "parse", "write"} /\ "POLLOUT" \in revents[Server] => tr[Server].write_len > 0

OrderInv == OrderTypes /\ LeavesInOrder /\ NothingUnheard /\ OutputPending /\ KilledOnlyAnsweringClose
-----------------------------------------------------------------------------
LEMMA LetterFacts ==
  ASSUME NEW c \in Clients
  PROVE  \A m \in Letter(c) : m.kind \in Kind /\ m.owner = c
<1>1. {"CLIENT_HELLO", "AUTH", "DATA_TEXT", "PING", "CLOSE", "SERVER_HELLO", "AUTH_OK", "PONG"} \subseteq Kind
  BY DEF Kind
<1> QED BY <1>1 DEF Letter, ClientHello, Auth, Data, Ping, ClientClose, ServerHello, AuthOk, Pong, ServerClose

LEMMA LetterMembers ==
  ASSUME NEW c
  PROVE  /\ {ClientHello(c), Auth(c), Data(c), Ping(c), ClientClose(c)} \subseteq Letter(c)
         /\ {ServerHello(c, 0), AuthOk(c), Pong(c), ServerClose(c)} \subseteq Letter(c)
BY DEF Letter

(* Every message has cells of its own on the wire. *)
LEMMA BytesFacts ==
  ASSUME NEW c \in Clients, NEW m \in Letter(c)
  PROVE  /\ Cells[m.kind] \in Nat /\ Cells[m.kind] >= 1
         /\ Bytes(m) \in Seq(Cell) /\ Len(Bytes(m)) = Cells[m.kind] /\ Holds(Bytes(m), m, 0)
         /\ \A i \in 1 .. Cells[m.kind] : <<m, i>> # NoByte
<1>1. Cells[m.kind] \in Nat /\ Cells[m.kind] >= 1
  BY CellsAssumption, LetterFacts
<1>2. {m} \X Nat \subseteq Cell
  BY DEF Cell
<1>3. Bytes(m) \in [1 .. Cells[m.kind] -> {m} \X Nat] /\ \A i \in 1 .. Cells[m.kind] : Bytes(m)[i] = <<m, i>>
  BY <1>1 DEF Bytes
<1>4. Bytes(m) \in Seq({m} \X Nat) /\ Len(Bytes(m)) = Cells[m.kind]
  BY <1>1, <1>3
<1>5. Holds(Bytes(m), m, 0)
  BY <1>3, <1>4 DEF Holds
<1>6. \A i \in 1 .. Cells[m.kind] : <<m, i>> # NoByte
  BY LetterAssumption
<1>7. Bytes(m) \in Seq(Cell)
  BY <1>2, <1>4
<1> QED BY <1>1, <1>4, <1>5, <1>6, <1>7

LEMMA NoByteIsCell == NoByte \in Cell
BY DEF Cell

LEMMA ProcessFacts ==
  /\ Server \in Process /\ Server \notin Clients /\ NoClient \notin Clients
  /\ \A c \in Clients : c \in Process /\ c # Server /\ At(c) = <<c, "client">>
  /\ \A p \in Process : p \in Clients \/ p = Server
BY ProcessAssumption DEF Process, At

LEMMA EndpointFacts ==
  /\ \A e \in Endpoint : Other(e) \in Endpoint /\ Other(Other(e)) = e
  /\ \A c \in Clients : /\ There(c) \in Endpoint /\ Here(c) \in Endpoint /\ There(c) # Here(c)
                        /\ Other(There(c)) = Here(c) /\ Other(Here(c)) = There(c)
                        /\ At(c) = There(c)
  /\ \A e \in Endpoint : \E c \in Clients : e = There(c) \/ e = Here(c)
  /\ \A c, d \in Clients : c # d => There(c) # There(d) /\ Here(c) # Here(d)
  /\ \A c, d \in Clients : There(c) # Here(d)
BY ProcessAssumption DEF Endpoint, Side, Other, There, Here, At

LEMMA SoundFacts ==
  ASSUME NEW t, Sound(t)
  PROVE  /\ t \in Transport(Cell)
         /\ t.read_pos \in Nat /\ t.read_len \in Nat /\ t.write_pos \in Nat /\ t.write_len \in Nat
         /\ ReadWindow(t) \in Seq(Cell) /\ Len(ReadWindow(t)) = t.read_len
         /\ WriteWindow(t) \in Seq(Cell) /\ Len(WriteWindow(t)) = t.write_len
<1>1. t \in Transport(Cell)
  BY DEF Sound
<1>2. t.read_pos \in Nat /\ t.read_len \in Nat /\ t.write_pos \in Nat /\ t.write_len \in Nat
  BY <1>1 DEF Transport
<1> QED BY <1>1, <1>2, NoByteIsCell, WindowProperties
-----------------------------------------------------------------------------
(* s2 is s with the first k cells of b behind it; s without its first k. *)
Appended(s2, s, b, k) ==
  /\ Len(s2) = Len(s) + k
  /\ \A i \in 1 .. Len(s) : s2[i] = s[i]
  /\ \A i \in 1 .. k : s2[Len(s) + i] = b[i]

Dropped(s2, s, k) == Len(s2) = Len(s) - k /\ \A i \in 1 .. (Len(s) - k) : s2[i] = s[k + i]

(* recv() and send() move cells along, and a message stays whole. *)
LEMMA RecvMoves ==
  ASSUME NEW r \in Seq(Cell), NEW n \in Seq(Cell), NEW r2 \in Seq(Cell), NEW n2 \in Seq(Cell),
         NEW k \in 1 .. Len(n), Appended(r2, r, n, k), Dropped(n2, n, k), NEW m
  PROVE  /\ Part(m, r, n) => Part(m, r2, n2)
         /\ \A w \in Seq(Cell) : Whole(m, r, n, w) => Whole(m, r2, n2, w)
<1>0. /\ Len(r2) = Len(r) + k /\ Len(n2) = Len(n) - k
      /\ \A i \in 1 .. Len(r) : r2[i] = r[i]
      /\ \A i \in 1 .. k : r2[Len(r) + i] = n[i]
      /\ \A i \in 1 .. (Len(n) - k) : n2[i] = n[k + i]
  BY DEF Appended, Dropped
<1>1. Len(r) \in Nat /\ Len(n) \in Nat /\ Len(r2) \in Nat /\ Len(n2) \in Nat /\ k \in Nat
  OBVIOUS
<1>2. ASSUME Part(m, r, n) PROVE Part(m, r2, n2)
  <2>1. Holds(r, m, 0) /\ Holds(n, m, Len(r)) /\ Len(r) + Len(n) =< Cells[m.kind]
    BY <1>2 DEF Part
  <2>2. Holds(r2, m, 0)
    <3>1. SUFFICES ASSUME NEW i \in 1 .. Len(r2) PROVE r2[i] = <<m, 0 + i>>
      BY DEF Holds
    <3>2. CASE i =< Len(r)
      <4>1. i \in 1 .. Len(r)
        BY <1>0, <1>1, <3>2
      <4>2. r2[i] = r[i]
        BY <1>0, <4>1
      <4>3. r[i] = <<m, 0 + i>>
        BY <2>1, <4>1 DEF Holds
      <4> QED BY <4>2, <4>3
    <3>3. CASE ~(i =< Len(r))
      <4> DEFINE j == i - Len(r)
      <4>1. j \in 1 .. k /\ j \in 1 .. Len(n) /\ Len(r) + j = i /\ 0 + i = i
        BY <1>0, <1>1, <3>3
      <4>2. r2[i] = n[j]
        BY <1>0, <4>1
      <4>3. n[j] = <<m, Len(r) + j>>
        BY <2>1, <4>1 DEF Holds
      <4> QED BY <4>1, <4>2, <4>3
    <3> QED BY <1>0, <3>2, <3>3
  <2>3. Holds(n2, m, Len(r2))
    <3>1. SUFFICES ASSUME NEW i \in 1 .. Len(n2) PROVE n2[i] = <<m, Len(r2) + i>>
      BY DEF Holds
    <3>2. k + i \in 1 .. Len(n) /\ Len(r) + (k + i) = Len(r2) + i /\ i \in 1 .. (Len(n) - k)
      BY <1>0, <1>1
    <3>3. n[k + i] = <<m, Len(r) + (k + i)>>
      BY <2>1, <3>2 DEF Holds
    <3> QED BY <1>0, <3>2, <3>3
  <2>4. Len(r2) + Len(n2) = Len(r) + Len(n)
    BY <1>0, <1>1
  <2> QED BY <2>1, <2>2, <2>3, <2>4 DEF Part
<1>3. Len(r2) + Len(n2) = Len(r) + Len(n)
  BY <1>0, <1>1
<1> QED BY <1>2, <1>3 DEF Whole

LEMMA SendMoves ==
  ASSUME NEW r \in Seq(Cell), NEW n \in Seq(Cell), NEW w \in Seq(Cell),
         NEW n2 \in Seq(Cell), NEW w2 \in Seq(Cell),
         NEW k \in 1 .. Len(w), Appended(n2, n, w, k), Dropped(w2, w, k),
         NEW m, Cells[m.kind] \in Nat
  PROVE  Whole(m, r, n, w) => Whole(m, r, n2, w2)
<1>0. /\ Len(n2) = Len(n) + k /\ Len(w2) = Len(w) - k
      /\ \A i \in 1 .. Len(n) : n2[i] = n[i]
      /\ \A i \in 1 .. k : n2[Len(n) + i] = w[i]
      /\ \A i \in 1 .. (Len(w) - k) : w2[i] = w[k + i]
  BY DEF Appended, Dropped
<1>1. Len(r) \in Nat /\ Len(n) \in Nat /\ Len(w) \in Nat /\ Len(n2) \in Nat /\ Len(w2) \in Nat /\ k \in Nat
  OBVIOUS
<1>2. SUFFICES ASSUME Whole(m, r, n, w) PROVE Whole(m, r, n2, w2)
  OBVIOUS
<1>3. /\ Holds(r, m, 0) /\ Holds(n, m, Len(r)) /\ Holds(w, m, Len(r) + Len(n))
      /\ Len(r) + Len(n) + Len(w) = Cells[m.kind]
  BY <1>2 DEF Whole, Part
<1>4. Holds(n2, m, Len(r))
  <2>1. SUFFICES ASSUME NEW i \in 1 .. Len(n2) PROVE n2[i] = <<m, Len(r) + i>>
    BY DEF Holds
  <2>2. CASE i =< Len(n)
    <3>1. i \in 1 .. Len(n)
      BY <1>0, <1>1, <2>2
    <3>2. n2[i] = n[i]
      BY <1>0, <3>1
    <3>3. n[i] = <<m, Len(r) + i>>
      BY <1>3, <3>1 DEF Holds
    <3> QED BY <1>0, <3>2, <3>3
  <2>3. CASE ~(i =< Len(n))
    <3> DEFINE j == i - Len(n)
    <3>1. j \in 1 .. k /\ j \in 1 .. Len(w) /\ Len(n) + j = i /\ (Len(r) + Len(n)) + j = Len(r) + i
      BY <1>0, <1>1, <2>3
    <3>2. n2[i] = w[j]
      BY <1>0, <3>1
    <3>3. w[j] = <<m, (Len(r) + Len(n)) + j>>
      BY <1>3, <3>1 DEF Holds
    <3> QED BY <3>1, <3>2, <3>3
  <2> QED BY <1>0, <2>2, <2>3
<1>5. Holds(w2, m, Len(r) + Len(n2))
  <2>1. SUFFICES ASSUME NEW i \in 1 .. Len(w2) PROVE w2[i] = <<m, (Len(r) + Len(n2)) + i>>
    BY DEF Holds
  <2>2. /\ k + i \in 1 .. Len(w) /\ i \in 1 .. (Len(w) - k)
        /\ (Len(r) + Len(n)) + (k + i) = (Len(r) + Len(n2)) + i
    BY <1>0, <1>1
  <2>3. w[k + i] = <<m, (Len(r) + Len(n)) + (k + i)>>
    BY <1>3, <2>2 DEF Holds
  <2> QED BY <1>0, <2>2, <2>3
<1>6. Len(r) + Len(n2) + Len(w2) = Cells[m.kind] /\ Len(r) + Len(n2) =< Cells[m.kind]
  BY <1>0, <1>1, <1>3
<1> QED BY <1>3, <1>4, <1>5, <1>6 DEF Whole, Part

(* What is heard when a message is complete: all of it, and nothing is     *)
(* behind it.                                                              *)
LEMMA WholeHeard ==
  ASSUME NEW c \in Clients, NEW m \in Letter(c), NEW p \in Process, Sound(tr[p]), NEW n \in Seq(Cell),
         Part(m, ReadWindow(tr[p]), n), Complete(p)
  PROVE  Message(p) = m /\ tr[p].read_len = Cells[m.kind] /\ Len(n) = 0
<1>1. tr[p].read_len \in Nat /\ tr[p].read_pos \in Nat /\ Len(ReadWindow(tr[p])) = tr[p].read_len
  BY SoundFacts
<1>2. tr[p].read_len > 0 /\ tr[p].read_len >= Cells[First(p)[1].kind]
  BY DEF Complete
<1>3. ReadWindow(tr[p])[1] = Load(tr[p].read_buffer, tr[p].read_pos + 1 - 1)
  BY <1>1, <1>2 DEF ReadWindow
<1>4. tr[p].read_pos + 1 - 1 = tr[p].read_pos /\ 1 \in 1 .. tr[p].read_len /\ 0 + 1 = 1
  BY <1>1, <1>2
<1>5. First(p) = <<m, 1>>
  BY <1>1, <1>3, <1>4 DEF First, Part, Holds
<1>6. Message(p) = m /\ First(p)[1] = m
  BY <1>5 DEF Message
<1>7. tr[p].read_len + Len(n) =< Cells[m.kind] /\ Len(n) \in Nat /\ Cells[m.kind] \in Nat
  BY <1>1, BytesFacts DEF Part
<1>8. tr[p].read_len = Cells[m.kind] /\ Len(n) = 0
  BY <1>1, <1>2, <1>6, <1>7
<1> QED BY <1>6, <1>8
-----------------------------------------------------------------------------
(* A transport that has read everything and is about to send m. *)
Says(t, m) ==
  /\ Sound(t) /\ t.read_len = 0 /\ t.write_len = Cells[m.kind] /\ Holds(WriteWindow(t), m, 0)

LEMMA SaysWhole ==
  ASSUME NEW c \in Clients, NEW m \in Letter(c), NEW t, Says(t, m),
         NEW r \in Seq(Cell), NEW n \in Seq(Cell), Len(r) = 0, Len(n) = 0
  PROVE  Whole(m, r, n, WriteWindow(t)) /\ t.write_len > 0
<1>1. Len(WriteWindow(t)) = Cells[m.kind] /\ t.write_len = Cells[m.kind]
  BY SoundFacts DEF Says
<1>2. Cells[m.kind] \in Nat /\ Cells[m.kind] >= 1
  BY BytesFacts
<1>3. Holds(r, m, 0) /\ Holds(n, m, Len(r))
  BY DEF Holds
<1>4. Len(r) + Len(n) = 0
  OBVIOUS
<1> QED BY <1>1, <1>2, <1>3, <1>4 DEF Whole, Part, Says

LEMMA TakenFacts ==
  ASSUME NEW p \in Process, Sound(tr[p]), Cells[Message(p).kind] = tr[p].read_len
  PROVE  /\ Sound(Taken(p)) /\ Taken(p).read_len = 0 /\ Taken(p).write_len = tr[p].write_len
<1>1. /\ tr[p] \in Transport(Cell) /\ tr[p].read_pos \in Nat /\ tr[p].read_len \in Nat
      /\ tr[p].write_pos \in Nat /\ tr[p].write_len \in Nat
  BY SoundFacts
<1>2. /\ Taken(p) \in Transport(Cell) /\ Taken(p).read_pos = tr[p].read_pos + tr[p].read_len
      /\ Taken(p).read_len = tr[p].read_len - tr[p].read_len
      /\ Taken(p).write_pos = tr[p].write_pos /\ Taken(p).write_len = tr[p].write_len
  BY <1>1, WindowAfterConsume DEF Taken
<1>3. Taken(p).read_len = 0
  BY <1>1, <1>2
<1>4. Taken(p).read_pos + Taken(p).read_len =< PW_BUFFER_SIZE
  BY <1>1, <1>2, <1>3 DEF Sound
<1> QED BY <1>2, <1>3, <1>4 DEF Sound

LEMMA EnqueueSound ==
  ASSUME NEW t, Sound(t), t.write_pos = 0, NEW bytes \in Seq(Cell),
         t.write_len + Len(bytes) =< PW_BUFFER_SIZE
  PROVE  /\ Sound(Enqueue(t, bytes)) /\ Enqueue(t, bytes).write_len = t.write_len + Len(bytes)
         /\ Enqueue(t, bytes).read_len = t.read_len /\ Enqueue(t, bytes).write_pos = 0
         /\ \A i \in 1 .. t.write_len : WriteWindow(Enqueue(t, bytes))[i] = WriteWindow(t)[i]
         /\ \A i \in 1 .. Len(bytes) : WriteWindow(Enqueue(t, bytes))[t.write_len + i] = bytes[i]
<1> DEFINE r == Enqueue(t, bytes)
<1>1. /\ r \in Transport(Cell) /\ r.write_pos = 0 /\ r.write_len = t.write_len + Len(bytes)
      /\ r.read_pos = t.read_pos /\ r.read_len = t.read_len
      /\ \A i \in 1 .. t.write_len : WriteWindow(r)[i] = WriteWindow(t)[i]
      /\ \A i \in 1 .. Len(bytes) : WriteWindow(r)[t.write_len + i] = bytes[i]
  BY SoundFacts, NoByteIsCell, WindowAfterEnqueue
<1> HIDE DEF r
<1>2. 0 + r.write_len = r.write_len
  BY <1>1, SoundFacts
<1>3. Sound(r)
  BY <1>1, <1>2 DEF Sound
<1> QED BY <1>1, <1>3 DEF r

LEMMA ReplySays ==
  ASSUME MessagesFit, NEW c \in Clients, NEW m \in Letter(c), NEW t, Sound(t),
         t.read_len = 0, t.write_len = 0
  PROVE  Says(Reply(t, m), m)
<1>1. Cells[m.kind] \in Nat /\ Bytes(m) \in Seq(Cell) /\ Len(Bytes(m)) = Cells[m.kind] /\ Holds(Bytes(m), m, 0)
  BY BytesFacts
<1>2. Cells[m.kind] =< PW_BUFFER_SIZE /\ 0 + Cells[m.kind] = Cells[m.kind] /\ t.write_pos = 0
  BY <1>1, LetterFacts DEF MessagesFit, Sound
<1>3. Reply(t, m) = Enqueue(t, Bytes(m))
  BY <1>2 DEF Reply, HasRoom
<1> DEFINE u == Enqueue(t, Bytes(m))
<1>4. /\ Sound(u) /\ u.write_len = Cells[m.kind] /\ u.read_len = 0
      /\ \A i \in 1 .. Cells[m.kind] : WriteWindow(u)[0 + i] = Bytes(m)[i]
  BY <1>1, <1>2, EnqueueSound
<1> HIDE DEF u
<1>5. Len(WriteWindow(u)) = Cells[m.kind]
  BY <1>4, SoundFacts
<1>6. Holds(WriteWindow(u), m, 0)
  <2>1. SUFFICES ASSUME NEW i \in 1 .. Cells[m.kind] PROVE WriteWindow(u)[i] = <<m, 0 + i>>
    BY <1>5 DEF Holds
  <2>2. 0 + i = i
    BY <1>1
  <2>3. Bytes(m)[i] = <<m, 0 + i>>
    BY <1>1 DEF Holds
  <2> QED BY <1>4, <2>2, <2>3
<1> QED BY <1>3, <1>4, <1>6 DEF Says, u

LEMMA PayloadSays ==
  ASSUME MessagesFit, NEW c \in Clients, NEW m \in Letter(c), NEW t, Sound(t),
         t.read_len = 0, t.write_len = 0,
         NEW bytes \in Seq(Cell), Len(bytes) = Cells[m.kind], Holds(bytes, m, 0)
  PROVE  Says(ReplyWithPayload(t, bytes), m)
<1> DEFINE n == Cells[m.kind]
           head == SubSeq(bytes, 1, 1)
           rest == SubSeq(bytes, 2, n)
           h == Enqueue(t, head)
           u == Enqueue(h, rest)
<1>1. n \in Nat /\ n >= 1 /\ PW_BUFFER_SIZE \in Nat /\ n =< PW_BUFFER_SIZE
  BY BytesFacts, LetterFacts, BufferSizeAssumption DEF MessagesFit
<1> HIDE DEF n
<1>2. head \in Seq(Cell) /\ Len(head) = 1 /\ head[1] = bytes[1]
  BY <1>1 DEF n
<1>3. rest \in Seq(Cell) /\ Len(rest) = n - 1 /\ \A i \in 1 .. (n - 1) : rest[i] = bytes[i + 1]
  BY <1>1 DEF n
<1> HIDE DEF head, rest
<1>4. t.write_pos = 0 /\ 0 + 1 =< PW_BUFFER_SIZE /\ 0 + 1 = 1
  BY <1>1 DEF Sound
<1>5. /\ Sound(h) /\ h.write_len = 1 /\ h.read_len = 0 /\ h.write_pos = 0
      /\ WriteWindow(h)[1] = bytes[1]
  <2>0. t.write_len + Len(head) =< PW_BUFFER_SIZE
    BY <1>2, <1>4
  <2>1. /\ Sound(h) /\ h.write_len = t.write_len + Len(head) /\ h.read_len = t.read_len /\ h.write_pos = 0
        /\ \A i \in 1 .. Len(head) : WriteWindow(h)[t.write_len + i] = head[i]
    BY <1>2, <1>4, <2>0, EnqueueSound
  <2> HIDE DEF h
  <2>2. 1 \in 1 .. Len(head)
    BY <1>2
  <2>3. WriteWindow(h)[0 + 1] = head[1]
    BY <2>1, <2>2
  <2> QED BY <1>2, <1>4, <2>1, <2>3
<1>6. ReplyWithPayload(t, bytes) = u
  BY <1>4 DEF ReplyWithPayload, HasRoom, head, rest, n
<1> HIDE DEF h
<1>7. 1 + (n - 1) = n
  BY <1>1
<1>8. /\ Sound(u) /\ u.write_len = n /\ u.read_len = 0
      /\ \A i \in 1 .. 1 : WriteWindow(u)[i] = WriteWindow(h)[i]
      /\ \A i \in 1 .. (n - 1) : WriteWindow(u)[1 + i] = rest[i]
  <2>1. h.write_len + Len(rest) = n
    BY <1>3, <1>5, <1>7
  <2>2. /\ Sound(u) /\ u.write_len = h.write_len + Len(rest) /\ u.read_len = h.read_len
        /\ \A i \in 1 .. h.write_len : WriteWindow(u)[i] = WriteWindow(h)[i]
        /\ \A i \in 1 .. Len(rest) : WriteWindow(u)[h.write_len + i] = rest[i]
    BY <1>1, <1>3, <1>5, <2>1, EnqueueSound
  <2> HIDE DEF u
  <2> QED BY <1>3, <1>5, <2>1, <2>2
<1> HIDE DEF u
<1>9. Len(WriteWindow(u)) = n
  BY <1>8, SoundFacts
<1>10. Holds(WriteWindow(u), m, 0)
  <2>1. SUFFICES ASSUME NEW i \in 1 .. n PROVE WriteWindow(u)[i] = bytes[i]
    BY <1>9 DEF Holds, n
  <2>2. CASE i = 1
    <3>1. 1 \in 1 .. 1
      OBVIOUS
    <3>2. WriteWindow(u)[1] = WriteWindow(h)[1]
      BY <1>8, <3>1
    <3> QED BY <1>5, <2>2, <3>2
  <2>3. CASE i # 1
    <3>1. i - 1 \in 1 .. (n - 1) /\ 1 + (i - 1) = i /\ (i - 1) + 1 = i
      BY <1>1, <2>3
    <3>2. WriteWindow(u)[1 + (i - 1)] = rest[i - 1] /\ rest[i - 1] = bytes[(i - 1) + 1]
      BY <1>3, <1>8, <3>1
    <3> QED BY <3>1, <3>2
  <2> QED BY <2>2, <2>3
<1> QED BY <1>6, <1>8, <1>10 DEF Says, n
-----------------------------------------------------------------------------
(* pw_transport_read and pw_transport_write, and the messages on the way:  *)
(* T has received from what was in n and leaves n2, T has sent into n.     *)
Received(t, n, T, n2) ==
  /\ Sound(T) /\ n2 \in Seq(Cell) /\ Len(n) > 0 /\ T.read_len + Len(n2) = t.read_len + Len(n)
  /\ T.write_len = t.write_len /\ WriteWindow(T) = WriteWindow(t)
  /\ \A m : Part(m, ReadWindow(t), n) => Part(m, ReadWindow(T), n2)
  /\ \A m : \A w \in Seq(Cell) : Whole(m, ReadWindow(t), n, w) => Whole(m, ReadWindow(T), n2, w)

Sent(t, n, T, n2) ==
  /\ Sound(T) /\ n2 \in Seq(Cell) /\ T.read_len = t.read_len /\ ReadWindow(T) = ReadWindow(t)
  /\ t.write_len > 0 /\ T.write_len \in 0 .. t.write_len
  /\ \A c \in Clients : \A m \in Letter(c) : \A r \in Seq(Cell) :
       Whole(m, r, n, WriteWindow(t)) => Whole(m, r, n2, WriteWindow(T))

LEMMA ReadMoves ==
  ASSUME NEW t, Sound(t), NEW n \in Seq(Cell), NEW k \in 1 .. Len(n), k =< ReadSpace(t)
  PROVE  Received(t, n, TransportRead(t, SubSeq(n, 1, k)), SubSeq(n, k + 1, Len(n)))
<1> DEFINE T == TransportRead(t, SubSeq(n, 1, k))
           n2 == SubSeq(n, k + 1, Len(n))
<1> DEFINE b == SubSeq(n, 1, k)
<1>1. b \in Seq(Cell) /\ Len(b) = k /\ \A i \in 1 .. k : b[i] = n[i]
  OBVIOUS
<1>2. n2 \in Seq(Cell) /\ Len(n2) = Len(n) - k /\ \A i \in 1 .. (Len(n) - k) : n2[i] = n[k + i]
  OBVIOUS
<1> HIDE DEF b, n2
<1>3. /\ t \in Transport(Cell) /\ t.read_len \in Nat /\ ReadWindow(t) \in Seq(Cell)
      /\ Len(ReadWindow(t)) = t.read_len
  BY SoundFacts
<1>4. T = TransportRead(t, b) /\ t.read_pos + t.read_len =< PW_BUFFER_SIZE /\ Len(b) =< ReadSpace(t)
  BY <1>1 DEF b, Sound
<1> HIDE DEF T
<1>5. /\ T \in Transport(Cell) /\ T.read_len = t.read_len + k /\ T.write_pos = t.write_pos
      /\ T.write_len = t.write_len
  BY <1>1, <1>3, <1>4, NoByteIsCell, ReadProperties
<1>6. /\ T.read_pos + T.read_len =< PW_BUFFER_SIZE
      /\ \A i \in 1 .. t.read_len : ReadWindow(T)[i] = ReadWindow(t)[i]
      /\ \A i \in 1 .. k : ReadWindow(T)[t.read_len + i] = b[i]
      /\ WriteWindow(T) = WriteWindow(t)
  <2> DEFINE R == TransportRead(t, b)
  <2>1. /\ R.read_pos + R.read_len =< PW_BUFFER_SIZE
        /\ \A i \in 1 .. t.read_len : ReadWindow(R)[i] = ReadWindow(t)[i]
        /\ \A i \in 1 .. Len(b) : ReadWindow(R)[t.read_len + i] = b[i]
        /\ WriteWindow(R) = WriteWindow(t)
    BY <1>1, <1>3, <1>4, NoByteIsCell, WindowAfterRead
  <2> HIDE DEF R
  <2>2. T = R
    BY <1>4 DEF R
  <2> QED BY <1>1, <2>1, <2>2
<1>7. Sound(T)
  BY <1>5, <1>6 DEF Sound
<1>8. ReadWindow(T) \in Seq(Cell) /\ Len(ReadWindow(T)) = Len(ReadWindow(t)) + k
  BY <1>3, <1>5, <1>7, SoundFacts
<1>9. ASSUME NEW m, NEW s \in Seq(Cell), Dropped(s, n, k)
      PROVE  /\ Part(m, ReadWindow(t), n) => Part(m, ReadWindow(T), s)
             /\ \A w \in Seq(Cell) : Whole(m, ReadWindow(t), n, w) => Whole(m, ReadWindow(T), s, w)
  <2> DEFINE r == ReadWindow(t)
             r2 == ReadWindow(T)
  <2>1. /\ Len(r2) = Len(r) + k
        /\ \A i \in 1 .. Len(r) : r2[i] = r[i]
        /\ \A i \in 1 .. k : r2[Len(r) + i] = n[i]
    BY <1>1, <1>3, <1>6, <1>8
  <2>2. r \in Seq(Cell) /\ r2 \in Seq(Cell)
    BY <1>3, <1>8
  <2> HIDE DEF r, r2
  <2>3. Appended(r2, r, n, k)
    BY <2>1 DEF Appended
  <2>4. Part(m, r, n) => Part(m, r2, s)
    BY <1>9, <2>2, <2>3, RecvMoves
  <2>5. \A w \in Seq(Cell) : Whole(m, r, n, w) => Whole(m, r2, s, w)
    BY <1>9, <2>2, <2>3, RecvMoves
  <2> QED BY <2>4, <2>5 DEF r, r2
<1>10. Dropped(n2, n, k)
  BY <1>2 DEF Dropped
<1>11. Len(n) > 0 /\ T.read_len + Len(n2) = t.read_len + Len(n)
  BY <1>2, <1>3, <1>5
<1>12. Received(t, n, T, n2)
  BY <1>2, <1>5, <1>6, <1>7, <1>9, <1>10, <1>11 DEF Received
<1> QED BY <1>12 DEF T, n2

LEMMA EmptyRead ==
  ASSUME NEW t, Sound(t)
  PROVE  LET T == TransportRead(t, << >>)
         IN  /\ Sound(T) /\ T.read_len = t.read_len /\ T.write_len = t.write_len
             /\ WriteWindow(T) = WriteWindow(t) /\ ReadWindow(T) = ReadWindow(t)
<1> DEFINE T == TransportRead(t, << >>)
           b == << >>
<1>1. b \in Seq(Cell) /\ Len(b) = 0
  OBVIOUS
<1> HIDE DEF b
<1>2. /\ t \in Transport(Cell) /\ t.read_len \in Nat /\ t.read_pos \in Nat /\ PW_BUFFER_SIZE \in Nat
      /\ t.read_pos + t.read_len =< PW_BUFFER_SIZE
  BY SoundFacts, BufferSizeAssumption DEF Sound
<1>3. T = TransportRead(t, b) /\ Len(b) =< ReadSpace(t) /\ t.read_len + Len(b) = t.read_len
  BY <1>1, <1>2 DEF b, ReadSpace
<1> HIDE DEF T
<1>4. /\ T \in Transport(Cell) /\ T.read_len = t.read_len /\ T.write_pos = t.write_pos
      /\ T.write_len = t.write_len
  BY <1>1, <1>2, <1>3, NoByteIsCell, ReadProperties
<1>5. /\ T.read_pos + T.read_len =< PW_BUFFER_SIZE
      /\ \A i \in 1 .. t.read_len : ReadWindow(T)[i] = ReadWindow(t)[i]
      /\ WriteWindow(T) = WriteWindow(t)
  BY <1>1, <1>2, <1>3, NoByteIsCell, WindowAfterRead
<1>6. ReadWindow(T) = ReadWindow(t)
  <2>1. /\ ReadWindow(t) = [i \in 1 .. t.read_len |-> ReadWindow(t)[i]]
        /\ ReadWindow(T) = [i \in 1 .. t.read_len |-> ReadWindow(T)[i]]
    BY <1>4 DEF ReadWindow
  <2> QED BY <1>5, <2>1
<1>7. Sound(T)
  BY <1>4, <1>5 DEF Sound
<1> QED BY <1>4, <1>5, <1>6, <1>7 DEF T

LEMMA WriteMoves ==
  ASSUME NEW t, Sound(t), NEW k \in 1 .. t.write_len, NEW n \in Seq(Cell)
  PROVE  /\ Sent(t, n, TransportWrite(t, k), n \o SubSeq(WriteWindow(t), 1, k))
         /\ SubSeq(WriteWindow(t), 1, k) \in Seq(Cell)
<1> DEFINE T == TransportWrite(t, k)
<1> DEFINE w == WriteWindow(t)
           b == SubSeq(w, 1, k)
<1>1. /\ t \in Transport(Cell) /\ t.write_len \in Nat /\ t.write_pos \in Nat /\ w \in Seq(Cell)
      /\ Len(w) = t.write_len /\ PW_BUFFER_SIZE \in Nat
  BY SoundFacts, BufferSizeAssumption
<1>2. /\ T \in Transport(Cell) /\ T.write_len = t.write_len - k
      /\ T.write_pos = (IF k = t.write_len THEN 0 ELSE t.write_pos + k)
      /\ T.read_pos = t.read_pos /\ T.read_len = t.read_len
      /\ \A i \in 1 .. (t.write_len - k) : WriteWindow(T)[i] = w[k + i]
      /\ ReadWindow(T) = ReadWindow(t)
  BY <1>1, NoByteIsCell, WindowAfterWrite
<1> HIDE DEF w, T
<1>3. b \in Seq(Cell) /\ Len(b) = k /\ \A i \in 1 .. k : b[i] = w[i]
  BY <1>1
<1>4. Sound(T)
  <2>1. T.write_pos + T.write_len =< PW_BUFFER_SIZE /\ (T.write_len = 0 => T.write_pos = 0)
    BY <1>1, <1>2 DEF Sound
  <2> QED BY <1>2, <2>1 DEF Sound
<1>5. WriteWindow(T) \in Seq(Cell) /\ Len(WriteWindow(T)) = Len(w) - k
  BY <1>1, <1>2, <1>4, SoundFacts
<1> HIDE DEF b
<1>6. ASSUME NEW c \in Clients, NEW m \in Letter(c), NEW r \in Seq(Cell), Whole(m, r, n, w)
      PROVE  Whole(m, r, n \o b, WriteWindow(T))
  <2>1. /\ n \o b \in Seq(Cell) /\ Len(n \o b) = Len(n) + k
        /\ \A i \in 1 .. Len(n) : (n \o b)[i] = n[i]
        /\ \A i \in 1 .. k : (n \o b)[Len(n) + i] = b[i]
    <3>1. n \o b \in Seq(Cell)
      BY <1>3, <1>6
    <3>2. Len(n \o b) = Len(n) + Len(b)
      BY <1>3, <1>6, ConcatElements
    <3>3. \A i \in 1 .. Len(n) : (n \o b)[i] = n[i]
      BY <1>3, <1>6, ConcatElements
    <3>4. \A i \in 1 .. Len(b) : (n \o b)[Len(n) + i] = b[i]
      BY <1>3, <1>6, ConcatElements
    <3> QED BY <1>3, <3>1, <3>2, <3>3, <3>4
  <2>2. Cells[m.kind] \in Nat
    BY <1>6, BytesFacts
  <2> DEFINE n2 == n \o b
             w2 == WriteWindow(T)
  <2>3. /\ n2 \in Seq(Cell) /\ Len(n2) = Len(n) + k /\ w2 \in Seq(Cell) /\ Len(w2) = Len(w) - k
        /\ \A i \in 1 .. Len(n) : n2[i] = n[i]
        /\ \A i \in 1 .. k : n2[Len(n) + i] = w[i]
        /\ \A i \in 1 .. (Len(w) - k) : w2[i] = w[k + i]
        /\ w \in Seq(Cell) /\ k \in 1 .. Len(w)
    BY <1>1, <1>2, <1>3, <1>5, <2>1
  <2> HIDE DEF n2, w2
  <2>5. Appended(n2, n, w, k) /\ Dropped(w2, w, k)
    BY <2>3 DEF Appended, Dropped
  <2>4. Whole(m, r, n2, w2)
    BY <1>6, <2>2, <2>3, <2>5, SendMoves
  <2> QED BY <2>4 DEF n2, w2
<1>7. n \o b \in Seq(Cell) /\ t.write_len > 0 /\ T.write_len \in 0 .. t.write_len
  BY <1>1, <1>2, <1>3
<1>8. Sent(t, n, T, n \o b)
  BY <1>2, <1>4, <1>6, <1>7 DEF Sent, w
<1> QED BY <1>3, <1>8 DEF w, b, T
-----------------------------------------------------------------------------
(* The conversation goes on.  A client that is not served does not depend  *)
(* on the server's state.                                                  *)
LEMMA NotServed ==
  ASSUME NEW c, NEW x, NEW y, NEW sc, NEW ss, NEW kc, NEW ks, NEW k2, NEW tc, NEW ts, NEW t2, NEW nc, NEW ns,
         x # c, y # c, Conversation(c, x, sc, ss, kc, ks, tc, ts, nc, ns)
  PROVE  Conversation(c, y, sc, ss, kc, k2, tc, t2, nc, ns)
BY DEF Conversation

LEMMA ClientReads ==
  ASSUME NEW c \in Clients, NEW x, NEW ss, NEW kc, NEW ks, NEW tc, NEW ts, NEW nc \in Seq(Cell), NEW ns,
         Conversation(c, x, "open", ss, kc, ks, tc, ts, nc, ns), Sound(tc), Sound(ts),
         NEW T, NEW n2, Received(tc, nc, T, n2)
  PROVE  Conversation(c, x, "open", ss, kc, ks, T, ts, n2, ns)
<1>1. /\ Sound(T) /\ T.read_len + Len(n2) = tc.read_len + Len(nc)
      /\ T.write_len = tc.write_len /\ WriteWindow(T) = WriteWindow(tc)
      /\ \A m : Part(m, ReadWindow(tc), nc) => Part(m, ReadWindow(T), n2)
  BY DEF Received
<1>2. \A m : \A w \in Seq(Cell) : Whole(m, ReadWindow(tc), nc, w) => Whole(m, ReadWindow(T), n2, w)
  BY DEF Received
<1>3. Len(nc) \in Nat /\ Len(nc) > 0 /\ tc.read_len \in Nat /\ WriteWindow(ts) \in Seq(Cell)
  BY SoundFacts DEF Received
<1>4. CASE ss = "open" /\ x = c
  <2>1. Exchange(c, kc, ks, tc, ts, nc, ns)
    BY <1>4 DEF Conversation
  <2>2. PICK m \in Letter(c) : <<kc, ks, m>> \in Answered(c) /\ Whole(m, ReadWindow(tc), nc, WriteWindow(ts))
                               /\ Nothing(ReadWindow(ts), ns, WriteWindow(tc))
                               /\ (ks = "CLOSED" => ts.write_len = 0)
    BY <1>3, <2>1 DEF Exchange, Nothing
  <2>3. Exchange(c, kc, ks, T, ts, n2, ns)
    BY <1>1, <1>2, <1>3, <2>2 DEF Exchange
  <2> QED BY <1>4, <2>3 DEF Conversation
<1>5. CASE ss = "open" /\ x # c
  BY <1>3, <1>5 DEF Conversation, Waiting
<1>6. CASE ss = "closed"
  <2>1. PICK m \in Letter(c) : /\ Part(m, ReadWindow(tc), nc)
                               /\ tc.read_len + Len(nc) > 0 => tc.write_len = 0
    BY <1>6 DEF Conversation, Half
  <2>3. Half(c, T, n2)
    BY <1>1, <2>1 DEF Half
  <2> QED BY <1>6, <2>3 DEF Conversation
<1>7. CASE ss \notin {"open", "closed"}
  BY <1>7 DEF Conversation
<1> QED BY <1>4, <1>5, <1>6, <1>7

LEMMA ServerReads ==
  ASSUME NEW c \in Clients, NEW sc, NEW kc, NEW ks, NEW tc, NEW ts, NEW nc, NEW ns \in Seq(Cell),
         Conversation(c, c, sc, "open", kc, ks, tc, ts, nc, ns), Sound(tc), Sound(ts),
         NEW T, NEW n2, Received(ts, ns, T, n2)
  PROVE  Conversation(c, c, sc, "open", kc, ks, tc, T, nc, n2)
<1>1. /\ Sound(T) /\ T.read_len + Len(n2) = ts.read_len + Len(ns)
      /\ T.write_len = ts.write_len /\ WriteWindow(T) = WriteWindow(ts)
      /\ \A m : Part(m, ReadWindow(ts), ns) => Part(m, ReadWindow(T), n2)
  BY DEF Received
<1>2. \A m : \A w \in Seq(Cell) : Whole(m, ReadWindow(ts), ns, w) => Whole(m, ReadWindow(T), n2, w)
  BY DEF Received
<1>3. Len(ns) \in Nat /\ Len(ns) > 0 /\ ts.read_len \in Nat /\ WriteWindow(tc) \in Seq(Cell)
  BY SoundFacts DEF Received
<1>4. CASE sc = "open"
  <2>1. Exchange(c, kc, ks, tc, ts, nc, ns)
    BY <1>4 DEF Conversation
  <2>2. PICK m \in Letter(c) : <<kc, ks, m>> \in Asked(c) /\ Whole(m, ReadWindow(ts), ns, WriteWindow(tc))
                               /\ Nothing(ReadWindow(tc), nc, WriteWindow(ts))
                               /\ (kc = "CLOSING" => tc.write_len > 0)
    BY <1>3, <2>1 DEF Exchange, Nothing
  <2>3. Exchange(c, kc, ks, tc, T, nc, n2)
    BY <1>1, <1>2, <1>3, <2>2 DEF Exchange
  <2> QED BY <1>4, <2>3 DEF Conversation
<1>5. CASE sc = "closed"
  <2>1. PICK m \in Letter(c) : /\ Part(m, ReadWindow(ts), ns)
                               /\ ts.read_len + Len(ns) > 0 => ts.write_len = 0
    BY <1>5 DEF Conversation, Half
  <2>3. Half(c, T, n2)
    BY <1>1, <2>1 DEF Half
  <2>4. ASSUME kc = "CLOSED" PROVE Leaving(c, ks, T, n2)
    <3>1. ks = "READY" /\ Part(ClientClose(c), ReadWindow(ts), ns) /\ ts.write_len = 0
      BY <1>3, <1>5, <2>4 DEF Conversation, Leaving
    <3> QED BY <1>1, <3>1 DEF Leaving
  <2> QED BY <1>5, <2>3, <2>4 DEF Conversation
<1>6. CASE sc \notin {"open", "closed"}
  BY <1>6 DEF Conversation
<1> QED BY <1>4, <1>5, <1>6

LEMMA AfterWriteFacts ==
  ASSUME NEW s, NEW t
  PROVE  AfterWrite(s, t) = IF s = "CLOSING" /\ t.write_len = 0 THEN "CLOSED" ELSE s
BY DEF AfterWrite, Transition, Allowed, State

LEMMA ClientWrites ==
  ASSUME NEW c \in Clients, NEW x, NEW ss, NEW kc, NEW ks, NEW tc, NEW ts, NEW nc \in Seq(Cell),
         NEW ns \in Seq(Cell), Conversation(c, x, "open", ss, kc, ks, tc, ts, nc, ns), Sound(tc), Sound(ts),
         NEW T, NEW n2, Sent(tc, ns, T, n2), NEW k2, k2 = AfterWrite(kc, T)
  PROVE  /\ ss = "closed" => Conversation(c, x, "open", ss, k2, ks, T, ts, nc, ns)
         /\ ss # "closed" => Conversation(c, x, "open", ss, k2, ks, T, ts, nc, n2)
<1>1. /\ Sound(T) /\ T.read_len = tc.read_len /\ ReadWindow(T) = ReadWindow(tc)
      /\ tc.write_len > 0 /\ T.write_len \in 0 .. tc.write_len
  BY DEF Sent
<1>2. \A m \in Letter(c) : \A r \in Seq(Cell) :
        Whole(m, r, ns, WriteWindow(tc)) => Whole(m, r, n2, WriteWindow(T))
  BY DEF Sent
<1>3. k2 = IF kc = "CLOSING" /\ T.write_len = 0 THEN "CLOSED" ELSE kc
  BY AfterWriteFacts
<1>4. /\ tc.write_len \in Nat /\ Len(WriteWindow(tc)) = tc.write_len
      /\ ReadWindow(ts) \in Seq(Cell) /\ tc.read_len \in Nat /\ Len(nc) \in Nat
  BY SoundFacts
<1>5. CASE ss = "open" /\ x = c
  <2>1. Exchange(c, kc, ks, tc, ts, nc, ns)
    BY <1>5 DEF Conversation
  <2>2. PICK m \in Letter(c) : <<kc, ks, m>> \in Asked(c) /\ Whole(m, ReadWindow(ts), ns, WriteWindow(tc))
                               /\ Nothing(ReadWindow(tc), nc, WriteWindow(ts))
    BY <1>1, <1>4, <2>1 DEF Exchange, Nothing
  <2>3. <<k2, ks, m>> \in Asked(c)
    <3>1. CASE k2 = kc
      BY <2>2, <3>1
    <3>2. CASE kc = "CLOSING" /\ k2 = "CLOSED"
      <4>1. ks = "READY" /\ m = ClientClose(c)
        BY <2>2, <3>2 DEF Asked
      <4> QED BY <3>2, <4>1 DEF Asked
    <3> QED BY <1>3, <3>1, <3>2
  <2>4. k2 = "CLOSING" => T.write_len > 0
    BY <1>1, <1>3, <1>4
  <2>5. Whole(m, ReadWindow(ts), n2, WriteWindow(T))
    BY <1>2, <1>4, <2>2
  <2>6. Exchange(c, k2, ks, T, ts, nc, n2)
    BY <1>1, <2>2, <2>3, <2>4, <2>5 DEF Exchange
  <2> QED BY <1>5, <2>6 DEF Conversation
<1>6. CASE ss = "open" /\ x # c
  <2>1. kc = "HANDSHAKING" /\ tc.read_len = 0 /\ Len(nc) = 0 /\ Whole(ClientHello(c), << >>, ns, WriteWindow(tc))
    BY <1>6 DEF Conversation, Waiting
  <2>2. Whole(ClientHello(c), << >>, n2, WriteWindow(T))
    <3>1. << >> \in Seq(Cell) /\ ClientHello(c) \in Letter(c)
      BY LetterMembers
    <3> QED BY <1>2, <2>1, <3>1
  <2>3. Waiting(c, k2, T, nc, n2)
    BY <1>1, <1>3, <2>1, <2>2 DEF Waiting
  <2> QED BY <1>6, <2>3 DEF Conversation
<1>7. CASE ss = "closed"
  <2>1. PICK m \in Letter(c) : /\ Part(m, ReadWindow(tc), nc)
                               /\ tc.read_len + Len(nc) > 0 => tc.write_len = 0
    BY <1>7 DEF Conversation, Half
  <2>2. Half(c, T, nc)
    BY <1>1, <1>4, <2>1 DEF Half
  <2> QED BY <1>7, <2>2 DEF Conversation
<1>8. CASE ss \notin {"open", "closed"}
  BY <1>8 DEF Conversation
<1> QED BY <1>5, <1>6, <1>7, <1>8

LEMMA ServerWrites ==
  ASSUME NEW c \in Clients, NEW sc, NEW kc, NEW ks, NEW tc, NEW ts, NEW nc \in Seq(Cell),
         NEW ns \in Seq(Cell), Conversation(c, c, sc, "open", kc, ks, tc, ts, nc, ns), Sound(tc), Sound(ts),
         NEW T, NEW n2, Sent(ts, nc, T, n2), NEW k2, k2 = AfterWrite(ks, T)
  PROVE  /\ sc = "closed" => Conversation(c, c, sc, "open", kc, k2, tc, T, nc, ns)
         /\ sc # "closed" => Conversation(c, c, sc, "open", kc, k2, tc, T, n2, ns)
<1>1. /\ Sound(T) /\ T.read_len = ts.read_len /\ ReadWindow(T) = ReadWindow(ts)
      /\ ts.write_len > 0 /\ T.write_len \in 0 .. ts.write_len
  BY DEF Sent
<1>2. \A m \in Letter(c) : \A r \in Seq(Cell) :
        Whole(m, r, nc, WriteWindow(ts)) => Whole(m, r, n2, WriteWindow(T))
  BY DEF Sent
<1>3. k2 = IF ks = "CLOSING" /\ T.write_len = 0 THEN "CLOSED" ELSE ks
  BY AfterWriteFacts
<1>4. /\ ts.write_len \in Nat /\ Len(WriteWindow(ts)) = ts.write_len
      /\ ReadWindow(tc) \in Seq(Cell) /\ ts.read_len \in Nat /\ Len(ns) \in Nat
  BY SoundFacts
<1>5. CASE sc = "open"
  <2>1. Exchange(c, kc, ks, tc, ts, nc, ns)
    BY <1>5 DEF Conversation
  <2>2. PICK m \in Letter(c) : <<kc, ks, m>> \in Answered(c) /\ Whole(m, ReadWindow(tc), nc, WriteWindow(ts))
                               /\ Nothing(ReadWindow(ts), ns, WriteWindow(tc)) /\ ks # "CLOSED"
    BY <1>1, <1>4, <2>1 DEF Exchange, Nothing
  <2>3. <<kc, k2, m>> \in Answered(c)
    <3>1. CASE k2 = ks
      BY <2>2, <3>1
    <3>2. CASE ks = "CLOSING" /\ k2 = "CLOSED"
      <4>1. kc = "CLOSED" /\ m = ServerClose(c)
        BY <2>2, <3>2 DEF Answered
      <4> QED BY <3>2, <4>1 DEF Answered
    <3> QED BY <1>3, <3>1, <3>2
  <2>4. k2 = "CLOSED" => T.write_len = 0
    BY <1>3, <2>2
  <2>5. Whole(m, ReadWindow(tc), n2, WriteWindow(T))
    BY <1>2, <1>4, <2>2
  <2>6. Exchange(c, kc, k2, tc, T, n2, ns)
    BY <1>1, <2>2, <2>3, <2>4, <2>5 DEF Exchange
  <2> QED BY <1>5, <2>6 DEF Conversation
<1>6. CASE sc = "closed"
  <2>1. PICK m \in Letter(c) : /\ Part(m, ReadWindow(ts), ns)
                               /\ ts.read_len + Len(ns) > 0 => ts.write_len = 0
    BY <1>6 DEF Conversation, Half
  <2>2. Half(c, T, ns)
    BY <1>1, <1>4, <2>1 DEF Half
  <2>3. ASSUME kc = "CLOSED" PROVE Leaving(c, k2, T, ns)
    <3>1. ks = "CLOSING" /\ ts.read_len = 0 /\ Len(ns) = 0
      BY <1>1, <1>4, <1>6, <2>3 DEF Conversation, Leaving
    <3> QED BY <1>1, <1>3, <3>1 DEF Leaving
  <2> QED BY <1>6, <2>2, <2>3 DEF Conversation
<1>7. CASE sc \notin {"open", "closed"}
  BY <1>7 DEF Conversation
<1> QED BY <1>5, <1>6, <1>7
-----------------------------------------------------------------------------
(* Steps inside a loop: no socket is opened or closed. *)
LEMMA InsideLoop ==
  ASSUME SessionInv, NEW p \in Process, pc[p] \in Running, NEW l \in Running, pc' = [pc EXCEPT ![p] = l],
         NEW T, Sound(T), tr' = [tr EXCEPT ![p] = T], NEW k \in State, conn' = [conn EXCEPT ![p] = k],
         UNCHANGED <<sock, cur, backlog>>,
         net' \in [Endpoint -> Seq(Cell)], rst' \in [Endpoint -> BOOLEAN],
         \A e \in Endpoint : rst'[e] => sock[Other(e)] = "closed",
         \A c \in Clients : sock[There(c)] = "none" => net'[There(c)] = << >> /\ net'[Here(c)] = << >>
  PROVE  LoopInv' /\ NetInv' /\ BacklogInv'
<1>1. /\ pc \in [Process -> Running \cup {"accept", "start", "exit", "killed"}]
      /\ conn \in [Process -> State] /\ tr = [q \in Process |-> tr[q]]
      /\ \A q \in Process : Sound(tr[q])
  BY DEF SessionInv, LoopInv
<1>2. /\ pc' \in [Process -> Running \cup {"accept", "start", "exit", "killed"}]
      /\ \A q \in Process : q # p => pc'[q] = pc[q]
      /\ pc'[p] = l
  BY <1>1
<1>3. conn' \in [Process -> State]
  BY <1>1
<1>4. tr' = [q \in Process |-> tr'[q]] /\ \A q \in Process : tr'[q] = IF q = p THEN T ELSE tr[q]
  BY <1>1
<1>5. /\ pc'[Server] \in Running <=> pc[Server] \in Running
      /\ pc'[Server] = "accept" <=> pc[Server] = "accept"
      /\ pc'[Server] = "killed" <=> pc[Server] = "killed"
  BY <1>2, ProcessFacts DEF Running
<1>6. LoopInv'
  <2>1. \A q \in Process : Sound(tr'[q])
    BY <1>1, <1>4
  <2>2. cur' \in Clients \cup {NoClient} /\ (pc'[Server] = "accept" <=> cur' = NoClient)
    BY <1>5 DEF SessionInv, LoopInv
  <2>3. pc'[Server] \in Running => sock'[Here(cur')] = "open"
    BY <1>5 DEF SessionInv, LoopInv
  <2>4. pc'[Server] \in Running \cup {"accept", "killed"}
    BY <1>5 DEF SessionInv, LoopInv
  <2> QED BY <1>2, <1>3, <1>4, <2>1, <2>2, <2>3, <2>4 DEF LoopInv
<1>7. NetInv'
  <2>1. ASSUME NEW c \in Clients
        PROVE  /\ pc'[c] \in Running <=> pc[c] \in Running
               /\ pc'[c] = "start" => pc[c] = "start" /\ tr'[c] = tr[c]
               /\ pc'[c] # "accept"
    BY <1>2, <1>4, ProcessFacts DEF Running, SessionInv, NetInv
  <2>2. ASSUME NEW c \in Clients
        PROVE  /\ sock'[There(c)] = "none" <=> sock'[Here(c)] = "none"
               /\ sock'[There(c)] = "open" <=> pc'[c] \in Running
               /\ sock'[There(c)] = "none" => net'[There(c)] = << >> /\ net'[Here(c)] = << >>
               /\ pc'[c] = "start" => sock'[There(c)] = "none" /\ tr'[c].write_len = 0
               /\ pc'[c] # "accept"
    BY <2>1 DEF SessionInv, NetInv
  <2>3. sock' \in [Endpoint -> {"none", "open", "closed"}]
    BY DEF SessionInv, NetInv
  <2> QED BY <2>2, <2>3 DEF NetInv
<1>8. BacklogInv'
  BY <1>5 DEF SessionInv, BacklogInv
<1> QED BY <1>6, <1>7, <1>8

LEMMA TypesOf ==
  ASSUME SessionInv
  PROVE  /\ pc \in [Process -> Running \cup {"accept", "start", "exit", "killed"}]
         /\ conn \in [Process -> State] /\ tr = [q \in Process |-> tr[q]]
         /\ \A q \in Process : Sound(tr[q])
         /\ net \in [Endpoint -> Seq(Cell)] /\ rst \in [Endpoint -> BOOLEAN]
         /\ sock \in [Endpoint -> {"none", "open", "closed"}]
         /\ \A e \in Endpoint : rst[e] => sock[Other(e)] = "closed"
         /\ \A c \in Clients : sock[There(c)] = "none" => net[There(c)] = << >> /\ net[Here(c)] = << >>
         /\ cur \in Clients \cup {NoClient}
BY DEF SessionInv, LoopInv, NetInv

(* The server is in its loop: it serves a client over an open socket. *)
LEMMA Serves ==
  ASSUME SessionInv, pc[Server] \in Running
  PROVE  cur \in Clients /\ sock[Here(cur)] = "open" /\ At(Server) = Here(cur) /\ Here(cur) \in Endpoint
<1>1. cur \in Clients /\ sock[Here(cur)] = "open"
  BY DEF SessionInv, LoopInv, Running
<1> QED BY <1>1, EndpointFacts, ProcessFacts DEF At, Here

LEMMA Works ==
  ASSUME SessionInv, NEW c \in Clients, pc[c] \in Running
  PROVE  sock[There(c)] = "open" /\ At(c) = There(c) /\ There(c) \in Endpoint /\ sock[Here(c)] \in {"open", "closed"}
<1>1. sock[There(c)] = "open" /\ sock[Here(c)] # "none"
  BY DEF SessionInv, NetInv
<1>2. There(c) \in Endpoint /\ Here(c) \in Endpoint /\ At(c) = There(c)
  BY EndpointFacts
<1> QED BY <1>1, <1>2, TypesOf

(* Steps that only move a program on. *)
LEMMA QuietStep ==
  ASSUME SessionInv, NEW p \in Process, pc[p] \in Running, NEW l \in Running, pc' = [pc EXCEPT ![p] = l],
         UNCHANGED <<net, sock, rst, conn, tr, cur, backlog>>
  PROVE  SessionInv'
<1>1. tr' = [tr EXCEPT ![p] = tr[p]] /\ conn' = [conn EXCEPT ![p] = conn[p]]
  BY TypesOf
<1>2. Sound(tr[p]) /\ conn[p] \in State
  BY TypesOf
<1>3. LoopInv' /\ NetInv' /\ BacklogInv'
  <2>1. /\ net' \in [Endpoint -> Seq(Cell)] /\ rst' \in [Endpoint -> BOOLEAN]
        /\ \A e \in Endpoint : rst'[e] => sock[Other(e)] = "closed"
        /\ \A c \in Clients : sock[There(c)] = "none" => net'[There(c)] = << >> /\ net'[Here(c)] = << >>
    BY TypesOf
  <2> QED BY <1>1, <1>2, <2>1, InsideLoop
<1>4. ConversationInv'
  BY DEF SessionInv, ConversationInv
<1> QED BY <1>3, <1>4 DEF SessionInv

(* A step of the server changes the conversation with the client it serves. *)
LEMMA OthersUntouchedByServer ==
  ASSUME SessionInv, pc[Server] \in Running, UNCHANGED <<sock, cur>>,
         NEW T, tr' = [tr EXCEPT ![Server] = T], NEW k, conn' = [conn EXCEPT ![Server] = k],
         \A c \in Clients : c # cur => net'[There(c)] = net[There(c)] /\ net'[Here(c)] = net[Here(c)],
         Conversation(cur, cur, sock[There(cur)], "open", conn[cur], k, tr[cur], T,
                      net'[There(cur)], net'[Here(cur)])
  PROVE  ConversationInv'
<1>1. SUFFICES ASSUME NEW c \in Clients
               PROVE  Conversation(c, cur', sock'[There(c)], sock'[Here(c)], conn'[c], conn'[Server],
                                   tr'[c], tr'[Server], net'[There(c)], net'[Here(c)])
  BY DEF ConversationInv
<1>2. conn'[c] = conn[c] /\ tr'[c] = tr[c] /\ conn'[Server] = k /\ tr'[Server] = T
  BY TypesOf, ProcessFacts
<1>3. CASE c = cur
  BY <1>2, <1>3, Serves
<1>4. CASE c # cur
  <2>1. Conversation(c, cur, sock[There(c)], sock[Here(c)], conn[c], conn[Server],
                     tr[c], tr[Server], net[There(c)], net[Here(c)])
    BY DEF SessionInv, ConversationInv
  <2>2. Conversation(c, cur, sock[There(c)], sock[Here(c)], conn[c], k, tr[c], T, net[There(c)], net[Here(c)])
    BY <1>4, <2>1, NotServed
  <2> QED BY <1>2, <1>4, <2>2
<1> QED BY <1>3, <1>4

(* A step of a client changes its own conversation. *)
LEMMA OthersUntouchedByClient ==
  ASSUME SessionInv, NEW c \in Clients, UNCHANGED <<sock, cur>>,
         NEW T, tr' = [tr EXCEPT ![c] = T], NEW k, conn' = [conn EXCEPT ![c] = k],
         \A d \in Clients : d # c => net'[There(d)] = net[There(d)] /\ net'[Here(d)] = net[Here(d)],
         Conversation(c, cur, sock[There(c)], sock[Here(c)], k, conn[Server], T, tr[Server],
                      net'[There(c)], net'[Here(c)])
  PROVE  ConversationInv'
<1>1. SUFFICES ASSUME NEW d \in Clients
               PROVE  Conversation(d, cur', sock'[There(d)], sock'[Here(d)], conn'[d], conn'[Server],
                                   tr'[d], tr'[Server], net'[There(d)], net'[Here(d)])
  BY DEF ConversationInv
<1>2. conn'[Server] = conn[Server] /\ tr'[Server] = tr[Server] /\ conn'[c] = k /\ tr'[c] = T
  BY TypesOf, ProcessFacts
<1>3. CASE d = c
  BY <1>2, <1>3
<1>4. CASE d # c
  <2>1. conn'[d] = conn[d] /\ tr'[d] = tr[d]
    BY <1>4, TypesOf, ProcessFacts
  <2> QED BY <1>2, <1>4, <2>1 DEF SessionInv, ConversationInv
<1> QED BY <1>3, <1>4
-----------------------------------------------------------------------------
(* pw_transport_read in a loop: with nothing to read the window is moved,  *)
(* and stays what it was.                                                  *)
LEMMA SameWindows ==
  ASSUME NEW c, NEW x, NEW sc, NEW ss, NEW kc, NEW ks, NEW tc, NEW ts, NEW nc, NEW ns, NEW T,
         Conversation(c, x, sc, ss, kc, ks, tc, ts, nc, ns)
  PROVE  /\ (T.read_len = tc.read_len /\ T.write_len = tc.write_len
             /\ WriteWindow(T) = WriteWindow(tc) /\ ReadWindow(T) = ReadWindow(tc)) =>
               Conversation(c, x, sc, ss, kc, ks, T, ts, nc, ns)
         /\ (T.read_len = ts.read_len /\ T.write_len = ts.write_len
             /\ WriteWindow(T) = WriteWindow(ts) /\ ReadWindow(T) = ReadWindow(ts)) =>
               Conversation(c, x, sc, ss, kc, ks, tc, T, nc, ns)
BY DEF Conversation, Exchange, Waiting, Half, Leaving

LEMMA ReadNoDataKeeps ==
  ASSUME SessionInv, NEW p \in Process, pc[p] \in Running, ReadNoData(p)
  PROVE  SessionInv'
<1> DEFINE l == AfterNoData(p)
           R == TransportRead(tr[p], << >>)
<1>1. UNCHANGED <<net, sock, rst, conn, cur, backlog>> /\ pc' = [pc EXCEPT ![p] = l] /\ l \in Running
  BY DEF ReadNoData, Goto, AfterNoData, tcpVars, Running
<1>2. tr' = tr \/ tr' = [tr EXCEPT ![p] = R]
  BY DEF ReadNoData
<1> HIDE DEF l
<1>3. CASE tr' = tr
  BY <1>1, <1>3, QuietStep
<1>4. CASE tr' = [tr EXCEPT ![p] = R]
  <2>1. /\ Sound(R) /\ R.read_len = tr[p].read_len /\ R.write_len = tr[p].write_len
        /\ WriteWindow(R) = WriteWindow(tr[p]) /\ ReadWindow(R) = ReadWindow(tr[p])
    BY TypesOf, EmptyRead
  <2> HIDE DEF R
  <2>2. conn' = [conn EXCEPT ![p] = conn[p]] /\ conn[p] \in State
    BY <1>1, TypesOf
  <2>3. LoopInv' /\ NetInv' /\ BacklogInv'
    <3>1. /\ net' \in [Endpoint -> Seq(Cell)] /\ rst' \in [Endpoint -> BOOLEAN]
          /\ \A e \in Endpoint : rst'[e] => sock[Other(e)] = "closed"
          /\ \A c \in Clients : sock[There(c)] = "none" => net'[There(c)] = << >> /\ net'[Here(c)] = << >>
      BY <1>1, TypesOf
    <3> QED BY <1>1, <1>4, <2>1, <2>2, <3>1, InsideLoop
  <2>4. ConversationInv'
    <3>1. CASE p \in Clients
      <4>1. Conversation(p, cur, sock[There(p)], sock[Here(p)], conn[p], conn[Server], tr[p], tr[Server],
                         net[There(p)], net[Here(p)])
        BY <3>1 DEF SessionInv, ConversationInv
      <4>2. Conversation(p, cur, sock[There(p)], sock[Here(p)], conn[p], conn[Server], R, tr[Server],
                         net'[There(p)], net'[Here(p)])
        BY <1>1, <2>1, <4>1, SameWindows
      <4> QED BY <1>1, <1>4, <2>2, <3>1, <4>2, OthersUntouchedByClient
    <3>2. CASE p = Server
      <4>1. Conversation(cur, cur, sock[There(cur)], "open", conn[cur], conn[Server], tr[cur], tr[Server],
                         net[There(cur)], net[Here(cur)])
        BY <3>2, Serves DEF SessionInv, ConversationInv
      <4>2. Conversation(cur, cur, sock[There(cur)], "open", conn[cur], conn[Server], tr[cur], R,
                         net'[There(cur)], net'[Here(cur)])
        BY <1>1, <2>1, <3>2, <4>1, SameWindows
      <4> QED BY <1>1, <1>4, <2>2, <3>2, <4>2, OthersUntouchedByServer
    <3> QED BY <3>1, <3>2, ProcessFacts
  <2> QED BY <2>3, <2>4 DEF SessionInv
<1> QED BY <1>2, <1>3, <1>4

LEMMA RecvFacts ==
  ASSUME SessionInv, NEW e \in Endpoint, NEW s \in Seq(Cell), net' = [net EXCEPT ![e] = s],
         sock[e] = "open", UNCHANGED rst
  PROVE  /\ net' \in [Endpoint -> Seq(Cell)] /\ rst' \in [Endpoint -> BOOLEAN]
         /\ \A d \in Endpoint : rst'[d] => sock[Other(d)] = "closed"
         /\ \A c \in Clients : sock[There(c)] = "none" => net'[There(c)] = << >> /\ net'[Here(c)] = << >>
<1>1. \A d \in Endpoint : net'[d] = IF d = e THEN s ELSE net[d]
  BY TypesOf
<1>2. net' \in [Endpoint -> Seq(Cell)]
  BY TypesOf
<1>3. ASSUME NEW c \in Clients, sock[There(c)] = "none"
      PROVE  net'[There(c)] = << >> /\ net'[Here(c)] = << >>
  <2>1. sock[Here(c)] = "none"
    BY <1>3 DEF SessionInv, NetInv
  <2>2. There(c) # e /\ Here(c) # e
    BY <1>3, <2>1
  <2> QED BY <1>1, <1>3, <2>2, TypesOf, EndpointFacts
<1>4. rst' \in [Endpoint -> BOOLEAN] /\ \A d \in Endpoint : rst'[d] => sock[Other(d)] = "closed"
  BY TypesOf
<1> QED BY <1>2, <1>3, <1>4

LEMMA ReadDataKeeps ==
  ASSUME SessionInv, NEW p \in Process, pc[p] \in Running, ReadData(p)
  PROVE  SessionInv'
<1>1. At(p) \in Endpoint /\ sock[At(p)] = "open"
  BY Serves, Works, ProcessFacts
<1> DEFINE e == At(p)
           n == net[e]
<1>2. PICK k \in 1 .. Len(n) :
        /\ k =< ReadSpace(tr[p])
        /\ tr' = [tr EXCEPT ![p] = TransportRead(tr[p], SubSeq(n, 1, k))]
        /\ net' = [net EXCEPT ![e] = SubSeq(n, k + 1, Len(n))]
  BY DEF ReadData, TcpRecv
<1>3. UNCHANGED <<sock, rst, conn, cur, backlog>> /\ pc' = [pc EXCEPT ![p] = "parse"] /\ "parse" \in Running
  BY DEF ReadData, TcpRecv, Goto, Running
<1>4. n \in Seq(Cell) /\ Sound(tr[p]) /\ Sound(tr[Server])
  BY <1>1, TypesOf, ProcessFacts
<1> HIDE DEF n, e
<1> DEFINE T == TransportRead(tr[p], SubSeq(n, 1, k))
           n2 == SubSeq(n, k + 1, Len(n))
<1>5. Received(tr[p], n, T, n2)
  BY <1>2, <1>4, ReadMoves
<1>6. tr' = [tr EXCEPT ![p] = T] /\ net' = [net EXCEPT ![e] = n2]
  BY <1>2
<1> HIDE DEF T, n2
<1>7. Sound(T) /\ n2 \in Seq(Cell)
  BY <1>5 DEF Received
<1>8. conn' = [conn EXCEPT ![p] = conn[p]] /\ conn[p] \in State
  BY <1>3, TypesOf
<1>9. \A d \in Endpoint : net'[d] = IF d = e THEN n2 ELSE net[d]
  BY <1>6, TypesOf
<1>10. LoopInv' /\ NetInv' /\ BacklogInv'
  <2>1. /\ net' \in [Endpoint -> Seq(Cell)] /\ rst' \in [Endpoint -> BOOLEAN]
        /\ \A d \in Endpoint : rst'[d] => sock[Other(d)] = "closed"
        /\ \A c \in Clients : sock[There(c)] = "none" => net'[There(c)] = << >> /\ net'[Here(c)] = << >>
    BY <1>1, <1>3, <1>6, <1>7, RecvFacts DEF e
  <2> QED BY <1>3, <1>6, <1>7, <1>8, <2>1, InsideLoop
<1>11. ConversationInv'
  <2>1. CASE p \in Clients
    <3>1. e = There(p) /\ sock[There(p)] = "open"
      BY <2>1, Works DEF e
    <3>2. Conversation(p, cur, "open", sock[Here(p)], conn[p], conn[Server], tr[p], tr[Server], n, net[Here(p)])
      BY <2>1, <3>1 DEF SessionInv, ConversationInv, n
    <3>3. Conversation(p, cur, "open", sock[Here(p)], conn[p], conn[Server], T, tr[Server], n2, net[Here(p)])
      BY <1>4, <1>5, <2>1, <3>2, ClientReads
    <3>4. net'[There(p)] = n2 /\ net'[Here(p)] = net[Here(p)]
      BY <1>9, <2>1, <3>1, EndpointFacts
    <3>5. \A d \in Clients : d # p => net'[There(d)] = net[There(d)] /\ net'[Here(d)] = net[Here(d)]
      BY <1>9, <2>1, <3>1, EndpointFacts
    <3>6. Conversation(p, cur, sock[There(p)], sock[Here(p)], conn[p], conn[Server], T, tr[Server],
                       net'[There(p)], net'[Here(p)])
      BY <3>1, <3>3, <3>4
    <3>7. UNCHANGED <<sock, cur>> /\ tr' = [tr EXCEPT ![p] = T] /\ conn' = [conn EXCEPT ![p] = conn[p]]
      BY <1>3, <1>6, <1>8
    <3> QED BY <2>1, <3>5, <3>6, <3>7, OthersUntouchedByClient
  <2>2. CASE p = Server
    <3>1. e = Here(cur) /\ cur \in Clients /\ sock[Here(cur)] = "open"
      BY <2>2, Serves DEF e
    <3>2. Conversation(cur, cur, sock[There(cur)], "open", conn[cur], conn[Server], tr[cur], tr[Server],
                       net[There(cur)], n)
      BY <3>1 DEF SessionInv, ConversationInv, n
    <3>3. Sound(tr[cur])
      BY <3>1, TypesOf, ProcessFacts
    <3>4. Conversation(cur, cur, sock[There(cur)], "open", conn[cur], conn[Server], tr[cur], T,
                       net[There(cur)], n2)
      BY <1>4, <1>5, <2>2, <3>1, <3>2, <3>3, ServerReads
    <3>5. net'[There(cur)] = net[There(cur)] /\ net'[Here(cur)] = n2
      BY <1>9, <3>1, EndpointFacts
    <3>6. \A d \in Clients : d # cur => net'[There(d)] = net[There(d)] /\ net'[Here(d)] = net[Here(d)]
      BY <1>9, <3>1, EndpointFacts
    <3> QED BY <1>3, <1>6, <1>8, <2>2, <3>4, <3>5, <3>6, OthersUntouchedByServer
  <2> QED BY <2>1, <2>2, ProcessFacts
<1> QED BY <1>10, <1>11 DEF SessionInv

(* send(): into the network, or to nobody. *)
LEMMA SendFacts ==
  ASSUME SessionInv, NEW e \in Endpoint, sock[e] = "open", NEW bytes \in Seq(Cell), TcpSend(e, bytes)
  PROVE  /\ net' \in [Endpoint -> Seq(Cell)] /\ rst' \in [Endpoint -> BOOLEAN] /\ UNCHANGED sock
         /\ \A d \in Endpoint : rst'[d] => sock[Other(d)] = "closed"
         /\ \A c \in Clients : sock[There(c)] = "none" => net'[There(c)] = << >> /\ net'[Here(c)] = << >>
         /\ sock[Other(e)] = "closed" => net' = net
         /\ sock[Other(e)] # "closed" => net' = [net EXCEPT ![Other(e)] = net[Other(e)] \o bytes]
<1>1. UNCHANGED sock
  BY DEF TcpSend
<1>2. Other(e) \in Endpoint
  BY EndpointFacts
<1>3. CASE sock[Other(e)] = "closed"
  <2>1. PICK late \in BOOLEAN : rst' = [rst EXCEPT ![e] = rst[e] \/ ~late]
    BY <1>3 DEF TcpSend
  <2>2. net' = net
    BY <1>3 DEF TcpSend
  <2>3. rst' \in [Endpoint -> BOOLEAN] /\ \A d \in Endpoint : d # e => rst'[d] = rst[d]
    BY <2>1, TypesOf
  <2>4. \A d \in Endpoint : rst'[d] => sock[Other(d)] = "closed"
    BY <1>3, <2>3, TypesOf
  <2> QED BY <1>1, <1>3, <2>2, <2>3, <2>4, TypesOf
<1>4. CASE sock[Other(e)] # "closed"
  <2> DEFINE s == net[Other(e)] \o bytes
  <2>1. net' = [net EXCEPT ![Other(e)] = s] /\ UNCHANGED rst
    BY <1>4 DEF TcpSend
  <2>2. s \in Seq(Cell)
    BY <1>2, TypesOf
  <2>3. sock[Other(e)] = "open"
    <3>1. PICK c \in Clients : e = There(c) \/ e = Here(c)
      BY EndpointFacts
    <3>2. sock[There(c)] # "none" /\ sock[Here(c)] # "none"
      BY <3>1 DEF SessionInv, NetInv
    <3>3. Other(e) = There(c) \/ Other(e) = Here(c)
      BY <3>1, EndpointFacts
    <3> QED BY <1>2, <1>4, <3>2, <3>3, TypesOf
  <2> HIDE DEF s
  <2>4. /\ net' \in [Endpoint -> Seq(Cell)] /\ rst' \in [Endpoint -> BOOLEAN]
        /\ \A d \in Endpoint : rst'[d] => sock[Other(d)] = "closed"
        /\ \A c \in Clients : sock[There(c)] = "none" => net'[There(c)] = << >> /\ net'[Here(c)] = << >>
    BY <1>2, <2>1, <2>2, <2>3, RecvFacts
  <2> QED BY <1>1, <1>4, <2>1, <2>4 DEF s
<1> QED BY <1>3, <1>4

LEMMA WriteDataKeeps ==
  ASSUME SessionInv, NEW p \in Process, pc[p] \in Running, NEW l \in Running, WriteData(p, l)
  PROVE  SessionInv'
<1>1. At(p) \in Endpoint /\ sock[At(p)] = "open" /\ Other(At(p)) \in Endpoint
  BY Serves, Works, ProcessFacts, EndpointFacts
<1> DEFINE e == At(p)
           o == Other(e)
           n == net[o]
<1>2. PICK k \in 1 .. tr[p].write_len :
        /\ TcpSend(e, SubSeq(WriteWindow(tr[p]), 1, k))
        /\ tr' = [tr EXCEPT ![p] = TransportWrite(tr[p], k)]
  BY DEF WriteData
<1>3. /\ UNCHANGED <<cur, backlog>> /\ pc' = [pc EXCEPT ![p] = l]
      /\ conn' = [conn EXCEPT ![p] = AfterWrite(conn[p], tr'[p])]
  BY DEF WriteData, Goto
<1>4. n \in Seq(Cell) /\ Sound(tr[p]) /\ Sound(tr[Server]) /\ conn[p] \in State
  BY <1>1, TypesOf, ProcessFacts
<1> DEFINE b == SubSeq(WriteWindow(tr[p]), 1, k)
           T == TransportWrite(tr[p], k)
           n2 == n \o b
<1> HIDE DEF n
<1>5. Sent(tr[p], n, T, n2) /\ b \in Seq(Cell)
  BY <1>2, <1>4, WriteMoves
<1>6. tr' = [tr EXCEPT ![p] = T]
  BY <1>2
<1> HIDE DEF b, T
<1>7. /\ net' \in [Endpoint -> Seq(Cell)] /\ rst' \in [Endpoint -> BOOLEAN] /\ UNCHANGED sock
      /\ \A d \in Endpoint : rst'[d] => sock[Other(d)] = "closed"
      /\ \A c \in Clients : sock[There(c)] = "none" => net'[There(c)] = << >> /\ net'[Here(c)] = << >>
      /\ sock[o] = "closed" => net' = net
      /\ sock[o] # "closed" => net' = [net EXCEPT ![o] = n2]
  <2>1. TcpSend(e, b)
    BY <1>2 DEF b
  <2> QED BY <1>1, <1>5, <2>1, SendFacts DEF n
<1> HIDE DEF n2, o, e
<1> DEFINE k2 == AfterWrite(conn[p], T)
<1>8. tr'[p] = T /\ conn' = [conn EXCEPT ![p] = k2]
  BY <1>3, <1>6, TypesOf
<1>9. k2 \in State
  BY <1>4, AfterWriteFacts DEF State
<1> HIDE DEF k2
<1>10. Sound(T)
  BY <1>5 DEF Sent
<1>11. LoopInv' /\ NetInv' /\ BacklogInv'
  BY <1>3, <1>6, <1>7, <1>8, <1>9, <1>10, InsideLoop
<1>12. \A d \in Endpoint : d # o => net'[d] = net[d]
  BY <1>1, <1>7, TypesOf
<1>13. net'[o] = IF sock[o] = "closed" THEN n ELSE n2
  BY <1>1, <1>7, TypesOf DEF n, o, e
<1>14. ConversationInv'
  <2>1. CASE p \in Clients
    <3>1. o = Here(p) /\ sock[There(p)] = "open"
      BY <2>1, Works, EndpointFacts DEF e, o
    <3>2. Conversation(p, cur, "open", sock[Here(p)], conn[p], conn[Server], tr[p], tr[Server],
                       net[There(p)], n)
      BY <2>1, <3>1 DEF SessionInv, ConversationInv, n
    <3>3. net[There(p)] \in Seq(Cell) /\ net'[There(p)] = net[There(p)]
      BY <1>12, <2>1, <3>1, TypesOf, EndpointFacts
    <3>4. /\ sock[Here(p)] = "closed" =>
               Conversation(p, cur, "open", sock[Here(p)], k2, conn[Server], T, tr[Server], net[There(p)], n)
          /\ sock[Here(p)] # "closed" =>
               Conversation(p, cur, "open", sock[Here(p)], k2, conn[Server], T, tr[Server], net[There(p)], n2)
      BY <1>4, <1>5, <2>1, <3>2, <3>3, ClientWrites DEF k2
    <3>5. \A d \in Clients : d # p => net'[There(d)] = net[There(d)] /\ net'[Here(d)] = net[Here(d)]
      BY <1>12, <2>1, <3>1, EndpointFacts
    <3>6. Conversation(p, cur, sock[There(p)], sock[Here(p)], k2, conn[Server], T, tr[Server],
                       net'[There(p)], net'[Here(p)])
      BY <1>13, <3>1, <3>3, <3>4
    <3>7. UNCHANGED <<sock, cur>> /\ tr' = [tr EXCEPT ![p] = T] /\ conn' = [conn EXCEPT ![p] = k2]
      BY <1>3, <1>6, <1>7, <1>8
    <3> QED BY <2>1, <3>5, <3>6, <3>7, OthersUntouchedByClient
  <2>2. CASE p = Server
    <3>1. o = There(cur) /\ cur \in Clients /\ sock[Here(cur)] = "open"
      BY <2>2, Serves, EndpointFacts DEF e, o
    <3>2. Conversation(cur, cur, sock[There(cur)], "open", conn[cur], conn[Server], tr[cur], tr[Server],
                       n, net[Here(cur)])
      BY <3>1 DEF SessionInv, ConversationInv, n
    <3>3. net[Here(cur)] \in Seq(Cell) /\ net'[Here(cur)] = net[Here(cur)] /\ Sound(tr[cur])
      BY <1>12, <3>1, TypesOf, EndpointFacts, ProcessFacts
    <3>4. /\ sock[There(cur)] = "closed" =>
               Conversation(cur, cur, sock[There(cur)], "open", conn[cur], k2, tr[cur], T, n, net[Here(cur)])
          /\ sock[There(cur)] # "closed" =>
               Conversation(cur, cur, sock[There(cur)], "open", conn[cur], k2, tr[cur], T, n2, net[Here(cur)])
      BY <1>4, <1>5, <2>2, <3>1, <3>2, <3>3, ServerWrites DEF k2
    <3>5. \A d \in Clients : d # cur => net'[There(d)] = net[There(d)] /\ net'[Here(d)] = net[Here(d)]
      BY <1>12, <3>1, EndpointFacts
    <3>6. Conversation(cur, cur, sock[There(cur)], "open", conn[cur], k2, tr[cur], T,
                       net'[There(cur)], net'[Here(cur)])
      BY <1>13, <3>1, <3>3, <3>4
    <3>7. UNCHANGED <<sock, cur>> /\ tr' = [tr EXCEPT ![Server] = T] /\ conn' = [conn EXCEPT ![Server] = k2]
      BY <1>3, <1>6, <1>7, <1>8, <2>2
    <3> QED BY <2>2, <3>5, <3>6, <3>7, OthersUntouchedByServer
  <2> QED BY <2>1, <2>2, ProcessFacts
<1> QED BY <1>11, <1>14 DEF SessionInv
-----------------------------------------------------------------------------
(* The parse cases.  A complete message is all there is on the way, its    *)
(* receiver has nothing left to send, and in a conversation it is the one  *)
(* the states call for.                                                    *)
LEMMA ClientHears ==
  ASSUME SessionInv, NEW c \in Clients, pc[c] \in Running, Complete(c)
  PROVE  /\ Message(c) \in Letter(c) /\ tr[c].read_len = Cells[Message(c).kind]
         /\ Len(net[There(c)]) = 0 /\ tr[c].write_len = 0
         /\ sock[Here(c)] = "open" =>
              /\ cur = c /\ <<conn[c], conn[Server], Message(c)>> \in Answered(c)
              /\ tr[Server].read_len = 0 /\ Len(net[Here(c)]) = 0 /\ tr[Server].write_len = 0
<1>1. sock[There(c)] = "open" /\ sock[Here(c)] \in {"open", "closed"}
  BY Works
<1>2. Conversation(c, cur, "open", sock[Here(c)], conn[c], conn[Server], tr[c], tr[Server],
                   net[There(c)], net[Here(c)])
  BY <1>1 DEF SessionInv, ConversationInv
<1>3. Sound(tr[c]) /\ Sound(tr[Server]) /\ net[There(c)] \in Seq(Cell) /\ c \in Process /\ net[Here(c)] \in Seq(Cell)
  BY TypesOf, ProcessFacts, EndpointFacts
<1>4. /\ tr[c].read_len \in Nat /\ tr[c].read_len > 0 /\ Len(ReadWindow(tr[c])) = tr[c].read_len
      /\ Len(WriteWindow(tr[c])) = tr[c].write_len /\ Len(net[There(c)]) \in Nat
      /\ Len(ReadWindow(tr[Server])) = tr[Server].read_len /\ tr[Server].write_len \in Nat
      /\ Len(WriteWindow(tr[Server])) = tr[Server].write_len
  BY <1>3, SoundFacts DEF Complete
<1>5. CASE sock[Here(c)] = "open"
  <2>1. cur = c
    BY <1>2, <1>4, <1>5 DEF Conversation, Waiting
  <2>2. Exchange(c, conn[c], conn[Server], tr[c], tr[Server], net[There(c)], net[Here(c)])
    BY <1>2, <1>5, <2>1 DEF Conversation
  <2>3. PICK m \in Letter(c) :
          /\ <<conn[c], conn[Server], m>> \in Answered(c)
          /\ Whole(m, ReadWindow(tr[c]), net[There(c)], WriteWindow(tr[Server]))
          /\ Nothing(ReadWindow(tr[Server]), net[Here(c)], WriteWindow(tr[c]))
    BY <1>4, <2>2 DEF Exchange, Nothing
  <2>4. Message(c) = m /\ tr[c].read_len = Cells[m.kind] /\ Len(net[There(c)]) = 0
    BY <1>3, <2>3, WholeHeard DEF Whole
  <2>5. tr[Server].write_len = 0
    <3>1. tr[c].read_len + 0 + tr[Server].write_len = Cells[m.kind]
      BY <1>4, <2>3, <2>4 DEF Whole
    <3> QED BY <1>4, <2>4, <3>1
  <2> QED BY <1>4, <2>1, <2>3, <2>4, <2>5 DEF Nothing
<1>6. CASE sock[Here(c)] = "closed"
  <2>1. PICK m \in Letter(c) : /\ Part(m, ReadWindow(tr[c]), net[There(c)])
                               /\ tr[c].read_len + Len(net[There(c)]) > 0 => tr[c].write_len = 0
    BY <1>2, <1>6 DEF Conversation, Half
  <2>2. Message(c) = m /\ tr[c].read_len = Cells[m.kind] /\ Len(net[There(c)]) = 0
    BY <1>3, <2>1, WholeHeard
  <2> QED BY <1>4, <1>6, <2>1, <2>2
<1> QED BY <1>1, <1>5, <1>6

LEMMA ServerHears ==
  ASSUME SessionInv, pc[Server] \in Running, Complete(Server)
  PROVE  /\ Message(Server) \in Letter(cur) /\ tr[Server].read_len = Cells[Message(Server).kind]
         /\ Len(net[Here(cur)]) = 0 /\ tr[Server].write_len = 0
         /\ Part(Message(Server), ReadWindow(tr[Server]), net[Here(cur)])
         /\ sock[There(cur)] = "open" =>
              /\ <<conn[cur], conn[Server], Message(Server)>> \in Asked(cur)
              /\ tr[cur].read_len = 0 /\ Len(net[There(cur)]) = 0 /\ tr[cur].write_len = 0
              /\ conn[cur] # "CLOSING"
         /\ sock[There(cur)] = "closed" /\ conn[cur] = "CLOSED" =>
              conn[Server] = "READY" /\ Message(Server) = ClientClose(cur)
<1>1. cur \in Clients /\ sock[Here(cur)] = "open"
  BY Serves
<1>2. Conversation(cur, cur, sock[There(cur)], "open", conn[cur], conn[Server], tr[cur], tr[Server],
                   net[There(cur)], net[Here(cur)])
  BY <1>1 DEF SessionInv, ConversationInv
<1>3. /\ Sound(tr[cur]) /\ Sound(tr[Server]) /\ net[There(cur)] \in Seq(Cell) /\ Server \in Process
      /\ net[Here(cur)] \in Seq(Cell) /\ sock[There(cur)] \in {"open", "closed"}
  <2>1. sock[There(cur)] # "none"
    BY <1>1 DEF SessionInv, NetInv
  <2> QED BY <1>1, <2>1, TypesOf, ProcessFacts, EndpointFacts
<1>4. /\ tr[Server].read_len \in Nat /\ tr[Server].read_len > 0
      /\ Len(ReadWindow(tr[Server])) = tr[Server].read_len
      /\ Len(WriteWindow(tr[Server])) = tr[Server].write_len /\ Len(net[Here(cur)]) \in Nat
      /\ Len(ReadWindow(tr[cur])) = tr[cur].read_len /\ tr[cur].write_len \in Nat
      /\ Len(WriteWindow(tr[cur])) = tr[cur].write_len
  BY <1>3, SoundFacts DEF Complete
<1>5. CASE sock[There(cur)] = "open"
  <2>1. Exchange(cur, conn[cur], conn[Server], tr[cur], tr[Server], net[There(cur)], net[Here(cur)])
    BY <1>2, <1>5 DEF Conversation
  <2>2. PICK m \in Letter(cur) :
          /\ <<conn[cur], conn[Server], m>> \in Asked(cur)
          /\ Whole(m, ReadWindow(tr[Server]), net[Here(cur)], WriteWindow(tr[cur]))
          /\ Nothing(ReadWindow(tr[cur]), net[There(cur)], WriteWindow(tr[Server]))
          /\ conn[cur] = "CLOSING" => tr[cur].write_len > 0
    BY <1>4, <2>1 DEF Exchange, Nothing
  <2>3. Part(m, ReadWindow(tr[Server]), net[Here(cur)])
    BY <2>2 DEF Whole
  <2>4. Message(Server) = m /\ tr[Server].read_len = Cells[m.kind] /\ Len(net[Here(cur)]) = 0
    BY <1>1, <1>3, <2>3, WholeHeard
  <2>5. tr[cur].write_len = 0
    <3>1. tr[Server].read_len + 0 + tr[cur].write_len = Cells[m.kind]
      BY <1>4, <2>2, <2>4 DEF Whole
    <3> QED BY <1>4, <2>4, <3>1
  <2> QED BY <1>4, <1>5, <2>2, <2>3, <2>4, <2>5 DEF Nothing
<1>6. CASE sock[There(cur)] = "closed" /\ conn[cur] # "CLOSED"
  <2>1. PICK m \in Letter(cur) : /\ Part(m, ReadWindow(tr[Server]), net[Here(cur)])
                                 /\ tr[Server].read_len + Len(net[Here(cur)]) > 0 => tr[Server].write_len = 0
    BY <1>2, <1>6 DEF Conversation, Half
  <2>2. Message(Server) = m /\ tr[Server].read_len = Cells[m.kind] /\ Len(net[Here(cur)]) = 0
    BY <1>1, <1>3, <2>1, WholeHeard
  <2> QED BY <1>4, <1>6, <2>1, <2>2
<1>7. CASE sock[There(cur)] = "closed" /\ conn[cur] = "CLOSED"
  <2>1. /\ conn[Server] = "READY" /\ tr[Server].write_len = 0
        /\ Part(ClientClose(cur), ReadWindow(tr[Server]), net[Here(cur)])
    BY <1>2, <1>4, <1>7 DEF Conversation, Leaving
  <2>2. ClientClose(cur) \in Letter(cur)
    BY LetterMembers
  <2>3. Message(Server) = ClientClose(cur) /\ tr[Server].read_len = Cells[ClientClose(cur).kind]
        /\ Len(net[Here(cur)]) = 0
    BY <1>1, <1>3, <2>1, <2>2, WholeHeard
  <2> QED BY <1>7, <2>1, <2>2, <2>3
<1> QED BY <1>3, <1>5, <1>6, <1>7

LEMMA EmptyPart ==
  ASSUME NEW c \in Clients, NEW m \in Letter(c), NEW t, Sound(t), t.read_len = 0, NEW n \in Seq(Cell), Len(n) = 0
  PROVE  Part(m, ReadWindow(t), n)
<1>1. Len(ReadWindow(t)) = 0
  BY SoundFacts
<1>2. Cells[m.kind] \in Nat
  BY BytesFacts
<1> QED BY <1>1, <1>2 DEF Part, Holds

LEMMA ClientAnswers ==
  ASSUME SessionInv, NEW c \in Clients, pc[c] \in Running, Complete(c),
         NEW T, Sound(T), T.read_len = 0, tr' = [tr EXCEPT ![c] = T],
         NEW k \in State, conn' = [conn EXCEPT ![c] = k],
         UNCHANGED <<net, sock, rst, pc, cur, backlog>>,
         sock[Here(c)] = "open" =>
           \E m \in Letter(c) : Says(T, m) /\ <<k, conn[Server], m>> \in Asked(c)
  PROVE  SessionInv'
<1>1. /\ Message(c) \in Letter(c) /\ Len(net[There(c)]) = 0
      /\ sock[Here(c)] = "open" =>
           cur = c /\ tr[Server].read_len = 0 /\ Len(net[Here(c)]) = 0 /\ tr[Server].write_len = 0
  BY ClientHears
<1>2. LoopInv' /\ NetInv' /\ BacklogInv'
  <2>1. /\ net' \in [Endpoint -> Seq(Cell)] /\ rst' \in [Endpoint -> BOOLEAN]
        /\ \A e \in Endpoint : rst'[e] => sock[Other(e)] = "closed"
        /\ \A d \in Clients : sock[There(d)] = "none" => net'[There(d)] = << >> /\ net'[Here(d)] = << >>
    BY TypesOf
  <2>2. pc' = [pc EXCEPT ![c] = pc[c]]
    BY TypesOf
  <2> QED BY <2>1, <2>2, InsideLoop, ProcessFacts
<1>3. /\ sock[There(c)] = "open" /\ sock[Here(c)] \in {"open", "closed"} /\ Sound(tr[Server])
      /\ net[There(c)] \in Seq(Cell) /\ net[Here(c)] \in Seq(Cell)
  BY Works, TypesOf, ProcessFacts, EndpointFacts
<1>4. Conversation(c, cur, sock[There(c)], sock[Here(c)], k, conn[Server], T, tr[Server],
                   net'[There(c)], net'[Here(c)])
  <2>1. CASE sock[Here(c)] = "open"
    <3>1. PICK m \in Letter(c) : Says(T, m) /\ <<k, conn[Server], m>> \in Asked(c)
      BY <2>1
    <3>2. /\ ReadWindow(tr[Server]) \in Seq(Cell) /\ Len(ReadWindow(tr[Server])) = 0
          /\ Len(WriteWindow(tr[Server])) = 0 /\ Len(ReadWindow(T)) = 0
      BY <1>1, <1>3, <2>1, SoundFacts
    <3>3. Whole(m, ReadWindow(tr[Server]), net[Here(c)], WriteWindow(T)) /\ T.write_len > 0
      BY <1>1, <1>3, <2>1, <3>1, <3>2, SaysWhole
    <3>4. Nothing(ReadWindow(T), net[There(c)], WriteWindow(tr[Server]))
      BY <1>1, <3>2 DEF Nothing
    <3>5. Exchange(c, k, conn[Server], T, tr[Server], net[There(c)], net[Here(c)])
      BY <3>1, <3>3, <3>4 DEF Exchange
    <3> QED BY <1>1, <1>3, <2>1, <3>5 DEF Conversation
  <2>2. CASE sock[Here(c)] = "closed"
    <3>1. Part(Message(c), ReadWindow(T), net[There(c)])
      BY <1>1, <1>3, EmptyPart
    <3>2. Half(c, T, net[There(c)])
      BY <1>1, <3>1 DEF Half
    <3> QED BY <1>3, <2>2, <3>2 DEF Conversation
  <2> QED BY <1>3, <2>1, <2>2
<1>5. ConversationInv'
  BY <1>4, OthersUntouchedByClient
<1> QED BY <1>2, <1>5 DEF SessionInv

LEMMA AnsweredFacts ==
  ASSUME NEW c, NEW kc, NEW ks, NEW m, <<kc, ks, m>> \in Answered(c)
  PROVE  /\ kc = "HANDSHAKING" => ks = "AUTHENTICATING"
         /\ kc = "AUTHENTICATING" => ks = "READY" /\ m.kind = "AUTH_OK"
         /\ kc = "READY" => ks = "READY" /\ m.kind \in {"DATA_TEXT", "PONG"}
BY DEF Answered, AuthOk, Data, Pong

LEMMA ClientParses ==
  ASSUME MessagesFit, SessionInv, NEW c \in Clients,
         ClientHandshaking(c) \/ ClientAuthenticating(c) \/ ClientReady(c)
  PROVE  SessionInv'
<1>1. Complete(c) /\ pc[c] \in Running /\ UNCHANGED <<net, sock, rst, pc, cur, backlog>>
  BY DEF ClientHandshaking, ClientAuthenticating, ClientReady, ParseCase, tcpVars, Running
<1> DEFINE M == Message(c)
           U == Taken(c)
<1>2. /\ M \in Letter(c) /\ tr[c].read_len = Cells[M.kind] /\ tr[c].write_len = 0
      /\ sock[Here(c)] = "open" => <<conn[c], conn[Server], M>> \in Answered(c)
  BY <1>1, ClientHears
<1>3. Sound(U) /\ U.read_len = 0 /\ U.write_len = 0
  BY <1>2, TypesOf, ProcessFacts, TakenFacts
<1>4. conn[c] \in State
  BY TypesOf, ProcessFacts
<1> HIDE DEF M, U
<1>5. CASE ClientHandshaking(c)
  <2> DEFINE T == ReplyWithPayload(U, Bytes(Auth(c)))
  <2>1. /\ conn[c] = "HANDSHAKING" /\ tr' = [tr EXCEPT ![c] = T]
        /\ conn' = [conn EXCEPT ![c] = Transition(conn[c], "AUTHENTICATING")]
    BY <1>5 DEF ClientHandshaking, ParseCase, U
  <2>2. Transition(conn[c], "AUTHENTICATING") = "AUTHENTICATING" /\ "AUTHENTICATING" \in State
    BY <2>1 DEF Transition, Allowed, State
  <2>3. Says(T, Auth(c)) /\ Auth(c) \in Letter(c)
    BY <1>3, LetterMembers, BytesFacts, PayloadSays
  <2> HIDE DEF T
  <2>4. Sound(T) /\ T.read_len = 0
    BY <2>3 DEF Says
  <2>5. sock[Here(c)] = "open" => <<"AUTHENTICATING", conn[Server], Auth(c)>> \in Asked(c)
    BY <1>2, <2>1, AnsweredFacts DEF Asked
  <2> QED BY <1>1, <2>1, <2>2, <2>3, <2>4, <2>5, ClientAnswers
<1>6. CASE ClientAuthenticating(c)
  <2>1. conn[c] = "AUTHENTICATING"
    BY <1>6 DEF ClientAuthenticating, ParseCase
  <2>2. CASE M.kind = "AUTH_OK"
    <3> DEFINE T == ReplyWithPayload(U, Bytes(Data(c)))
    <3>1. tr' = [tr EXCEPT ![c] = T] /\ conn' = [conn EXCEPT ![c] = Transition(conn[c], "READY")]
      BY <1>6, <2>2 DEF ClientAuthenticating, ParseCase, U, M
    <3>2. Transition(conn[c], "READY") = "READY" /\ "READY" \in State
      BY <2>1 DEF Transition, Allowed, State
    <3>3. Says(T, Data(c)) /\ Data(c) \in Letter(c)
      BY <1>3, LetterMembers, BytesFacts, PayloadSays
    <3> HIDE DEF T
    <3>4. Sound(T) /\ T.read_len = 0
      BY <3>3 DEF Says
    <3>5. sock[Here(c)] = "open" => <<"READY", conn[Server], Data(c)>> \in Asked(c)
      BY <1>2, <2>1, AnsweredFacts DEF Asked
    <3> QED BY <1>1, <3>1, <3>2, <3>3, <3>4, <3>5, ClientAnswers
  <2>3. CASE M.kind # "AUTH_OK"
    <3>1. tr' = [tr EXCEPT ![c] = U] /\ conn' = [conn EXCEPT ![c] = Transition(conn[c], "AUTHENTICATING")]
      BY <1>6, <2>3 DEF ClientAuthenticating, ParseCase, U, M
    <3>2. Transition(conn[c], "AUTHENTICATING") \in State
      BY <2>1 DEF Transition, Allowed, State
    <3>3. sock[Here(c)] # "open"
      BY <1>2, <2>1, <2>3, AnsweredFacts
    <3> QED BY <1>1, <1>3, <3>1, <3>2, <3>3, ClientAnswers
  <2> QED BY <2>2, <2>3
<1>7. CASE ClientReady(c)
  <2>1. conn[c] = "READY"
    BY <1>7 DEF ClientReady, ParseCase
  <2>2. CASE M.kind = "DATA_TEXT"
    <3> DEFINE T == Reply(U, Ping(c))
    <3>1. tr' = [tr EXCEPT ![c] = T] /\ conn' = [conn EXCEPT ![c] = Transition(conn[c], "READY")]
      BY <1>7, <2>2 DEF ClientReady, ParseCase, U, M
    <3>2. Transition(conn[c], "READY") = "READY" /\ "READY" \in State
      BY <2>1 DEF Transition, Allowed, State
    <3>3. Says(T, Ping(c)) /\ Ping(c) \in Letter(c)
      BY <1>3, LetterMembers, ReplySays
    <3> HIDE DEF T
    <3>4. Sound(T) /\ T.read_len = 0
      BY <3>3 DEF Says
    <3>5. sock[Here(c)] = "open" => <<"READY", conn[Server], Ping(c)>> \in Asked(c)
      BY <1>2, <2>1, AnsweredFacts DEF Asked
    <3> QED BY <1>1, <3>1, <3>2, <3>3, <3>4, <3>5, ClientAnswers
  <2>3. CASE M.kind = "PONG"
    <3> DEFINE T == Reply(U, ClientClose(c))
    <3>1. tr' = [tr EXCEPT ![c] = T] /\ conn' = [conn EXCEPT ![c] = Transition(conn[c], "CLOSING")]
      BY <1>7, <2>3 DEF ClientReady, ParseCase, U, M
    <3>2. Transition(conn[c], "CLOSING") = "CLOSING" /\ "CLOSING" \in State
      BY <2>1 DEF Transition, Allowed, State
    <3>3. Says(T, ClientClose(c)) /\ ClientClose(c) \in Letter(c)
      BY <1>3, LetterMembers, ReplySays
    <3> HIDE DEF T
    <3>4. Sound(T) /\ T.read_len = 0
      BY <3>3 DEF Says
    <3>5. sock[Here(c)] = "open" => <<"CLOSING", conn[Server], ClientClose(c)>> \in Asked(c)
      BY <1>2, <2>1, AnsweredFacts DEF Asked
    <3> QED BY <1>1, <3>1, <3>2, <3>3, <3>4, <3>5, ClientAnswers
  <2>4. CASE M.kind \notin {"DATA_TEXT", "PONG"}
    <3> DEFINE k == Transition(conn[c], IF M.kind \in {"PONG", "CLOSE"} THEN "CLOSING" ELSE "READY")
    <3>1. tr' = [tr EXCEPT ![c] = U] /\ conn' = [conn EXCEPT ![c] = k]
      BY <1>7, <2>4 DEF ClientReady, ParseCase, U, M
    <3>2. k \in State
      BY <2>1 DEF Transition, Allowed, State
    <3>3. sock[Here(c)] # "open"
      BY <1>2, <2>1, <2>4, AnsweredFacts
    <3> HIDE DEF k
    <3> QED BY <1>1, <1>3, <3>1, <3>2, <3>3, ClientAnswers
  <2> QED BY <2>2, <2>3, <2>4
<1> QED BY <1>5, <1>6, <1>7

LEMMA ServerAnswers ==
  ASSUME SessionInv, pc[Server] \in Running, Complete(Server),
         NEW T, Sound(T), T.read_len = 0, tr' = [tr EXCEPT ![Server] = T],
         NEW k \in State, conn' = [conn EXCEPT ![Server] = k],
         UNCHANGED <<net, sock, rst, pc, cur, backlog>>,
         sock[There(cur)] = "open" =>
           \/ \E m \in Letter(cur) : Says(T, m) /\ <<conn[cur], k, m>> \in Answered(cur) /\ k # "CLOSED"
           \/ conn[cur] = "AUTHENTICATING" /\ k = "AUTHENTICATING" /\ T.write_len = 0,
         sock[There(cur)] = "closed" /\ conn[cur] = "CLOSED" => k = "CLOSING"
  PROVE  SessionInv'
<1>1. /\ Message(Server) \in Letter(cur) /\ Len(net[Here(cur)]) = 0
      /\ sock[There(cur)] = "open" =>
           tr[cur].read_len = 0 /\ Len(net[There(cur)]) = 0 /\ tr[cur].write_len = 0
  BY ServerHears
<1>2. LoopInv' /\ NetInv' /\ BacklogInv'
  <2>1. /\ net' \in [Endpoint -> Seq(Cell)] /\ rst' \in [Endpoint -> BOOLEAN]
        /\ \A e \in Endpoint : rst'[e] => sock[Other(e)] = "closed"
        /\ \A d \in Clients : sock[There(d)] = "none" => net'[There(d)] = << >> /\ net'[Here(d)] = << >>
    BY TypesOf
  <2>2. pc' = [pc EXCEPT ![Server] = pc[Server]]
    BY TypesOf
  <2> QED BY <2>1, <2>2, InsideLoop, ProcessFacts
<1>3. cur \in Clients /\ sock[Here(cur)] = "open" /\ sock[There(cur)] \in {"open", "closed"}
  <2>1. cur \in Clients /\ sock[Here(cur)] = "open"
    BY Serves
  <2>2. sock[There(cur)] # "none"
    BY <2>1 DEF SessionInv, NetInv
  <2> QED BY <2>1, <2>2, TypesOf, EndpointFacts
<1>4. Sound(tr[cur]) /\ net[There(cur)] \in Seq(Cell) /\ net[Here(cur)] \in Seq(Cell)
  BY <1>3, TypesOf, ProcessFacts, EndpointFacts
<1>5. Conversation(cur, cur, sock[There(cur)], "open", conn[cur], k, tr[cur], T,
                   net'[There(cur)], net'[Here(cur)])
  <2>1. CASE sock[There(cur)] = "open"
    <3>1. /\ ReadWindow(tr[cur]) \in Seq(Cell) /\ Len(ReadWindow(tr[cur])) = 0
          /\ Len(WriteWindow(tr[cur])) = 0 /\ Len(ReadWindow(T)) = 0
      BY <1>1, <1>4, <2>1, SoundFacts
    <3>2. Nothing(ReadWindow(T), net[Here(cur)], WriteWindow(tr[cur]))
      BY <1>1, <3>1 DEF Nothing
    <3>3. CASE \E m \in Letter(cur) : Says(T, m) /\ <<conn[cur], k, m>> \in Answered(cur) /\ k # "CLOSED"
      <4>1. PICK m \in Letter(cur) : Says(T, m) /\ <<conn[cur], k, m>> \in Answered(cur) /\ k # "CLOSED"
        BY <3>3
      <4>2. Whole(m, ReadWindow(tr[cur]), net[There(cur)], WriteWindow(T))
        BY <1>1, <1>3, <1>4, <2>1, <3>1, <4>1, SaysWhole
      <4>3. Exchange(cur, conn[cur], k, tr[cur], T, net[There(cur)], net[Here(cur)])
        BY <3>2, <4>1, <4>2 DEF Exchange
      <4> QED BY <2>1, <4>3 DEF Conversation
    <3>4. CASE conn[cur] = "AUTHENTICATING" /\ k = "AUTHENTICATING" /\ T.write_len = 0
      <4>1. Len(WriteWindow(T)) = 0
        BY <3>4, SoundFacts
      <4>2. Nothing(ReadWindow(tr[cur]), net[There(cur)], WriteWindow(T))
        BY <1>1, <2>1, <3>1, <4>1 DEF Nothing
      <4>3. Exchange(cur, conn[cur], k, tr[cur], T, net[There(cur)], net[Here(cur)])
        BY <3>2, <3>4, <4>2 DEF Exchange
      <4> QED BY <2>1, <4>3 DEF Conversation
    <3> QED BY <2>1, <3>3, <3>4
  <2>2. CASE sock[There(cur)] = "closed"
    <3>1. Part(Message(Server), ReadWindow(T), net[Here(cur)])
      BY <1>1, <1>3, <1>4, EmptyPart
    <3>2. Half(cur, T, net[Here(cur)])
      BY <1>1, <3>1 DEF Half
    <3>3. conn[cur] = "CLOSED" => Leaving(cur, k, T, net[Here(cur)])
      BY <1>1, <2>2 DEF Leaving
    <3> QED BY <2>2, <3>2, <3>3 DEF Conversation
  <2> QED BY <1>3, <2>1, <2>2
<1>6. ConversationInv'
  BY <1>5, OthersUntouchedByServer
<1> QED BY <1>2, <1>6 DEF SessionInv

LEMMA AskedFacts ==
  ASSUME NEW c, NEW kc, NEW ks, NEW m, <<kc, ks, m>> \in Asked(c), kc # "CLOSING"
  PROVE  /\ ks = "HANDSHAKING" => kc = "HANDSHAKING"
         /\ ks = "AUTHENTICATING" => kc = "AUTHENTICATING" /\ m.kind = "AUTH"
         /\ ks = "READY" => \/ kc = "READY" /\ m = Data(c) /\ m.kind = "DATA_TEXT"
                            \/ kc = "READY" /\ m.kind = "PING"
                            \/ kc = "CLOSED" /\ m.kind = "CLOSE"
BY DEF Asked, Auth, Data, Ping, ClientClose

LEMMA ServerParses ==
  ASSUME MessagesFit, SessionInv, ServerHandshaking \/ ServerAuthenticating \/ ServerReady
  PROVE  SessionInv'
<1>1. Complete(Server) /\ pc[Server] \in Running /\ UNCHANGED <<net, sock, rst, pc, cur, backlog>>
  BY DEF ServerHandshaking, ServerAuthenticating, ServerReady, ParseCase, tcpVars, Running
<1> DEFINE M == Message(Server)
           U == Taken(Server)
           Open == sock[There(cur)] = "open"
           Gone == sock[There(cur)] = "closed" /\ conn[cur] = "CLOSED"
<1>2. /\ M \in Letter(cur) /\ tr[Server].read_len = Cells[M.kind] /\ tr[Server].write_len = 0
      /\ Part(M, ReadWindow(tr[Server]), net[Here(cur)])
      /\ Open => <<conn[cur], conn[Server], M>> \in Asked(cur) /\ conn[cur] # "CLOSING"
      /\ Gone => conn[Server] = "READY" /\ M = ClientClose(cur)
  BY <1>1, ServerHears
<1>3. Sound(U) /\ U.read_len = 0 /\ U.write_len = 0
  BY <1>2, TypesOf, ProcessFacts, TakenFacts
<1>4. cur \in Clients
  BY <1>1, Serves
<1>5. Gone => M.kind = "CLOSE"
  BY <1>2 DEF ClientClose
<1> HIDE DEF M, U, Open, Gone
<1>6. CASE ServerHandshaking
  <2> DEFINE T == Reply(U, ServerHello(cur, 0))
  <2>1. M.kind = "CLIENT_HELLO" => M.version = 1
    <3>1. M.kind = "CLIENT_HELLO" => M = ClientHello(cur)
      BY <1>2 DEF Letter, ClientHello, Auth, Data, Ping, ClientClose, ServerHello, AuthOk, Pong, ServerClose
    <3> QED BY <3>1 DEF ClientHello
  <2>2. /\ conn[Server] = "HANDSHAKING" /\ tr' = [tr EXCEPT ![Server] = T]
        /\ conn' = [conn EXCEPT ![Server] = Transition(conn[Server], "AUTHENTICATING")]
    BY <1>6, <2>1 DEF ServerHandshaking, ParseCase, U, M
  <2>3. Transition(conn[Server], "AUTHENTICATING") = "AUTHENTICATING" /\ "AUTHENTICATING" \in State
    BY <2>2 DEF Transition, Allowed, State
  <2>4. Says(T, ServerHello(cur, 0)) /\ ServerHello(cur, 0) \in Letter(cur)
    BY <1>3, <1>4, LetterMembers, ReplySays
  <2> HIDE DEF T
  <2>5. Sound(T) /\ T.read_len = 0
    BY <2>4 DEF Says
  <2>6. Open => <<conn[cur], "AUTHENTICATING", ServerHello(cur, 0)>> \in Answered(cur)
    BY <1>2, <2>2, AskedFacts DEF Answered
  <2>7. ~Gone
    BY <1>2, <2>2
  <2> QED BY <1>1, <2>2, <2>3, <2>4, <2>5, <2>6, <2>7, ServerAnswers DEF Open, Gone
<1>7. CASE ServerAuthenticating
  <2>1. conn[Server] = "AUTHENTICATING"
    BY <1>7 DEF ServerAuthenticating, ParseCase
  <2>2. ~Gone
    BY <1>2, <2>1
  <2>3. CASE M.kind = "AUTH" /\ M.token = "secret_token"
    <3> DEFINE T == Reply(U, AuthOk(cur))
    <3>1. tr' = [tr EXCEPT ![Server] = T] /\ conn' = [conn EXCEPT ![Server] = Transition(conn[Server], "READY")]
      BY <1>7, <2>3 DEF ServerAuthenticating, ParseCase, U, M
    <3>2. Transition(conn[Server], "READY") = "READY" /\ "READY" \in State
      BY <2>1 DEF Transition, Allowed, State
    <3>3. Says(T, AuthOk(cur)) /\ AuthOk(cur) \in Letter(cur)
      BY <1>3, <1>4, LetterMembers, ReplySays
    <3> HIDE DEF T
    <3>4. Sound(T) /\ T.read_len = 0
      BY <3>3 DEF Says
    <3>5. Open => <<conn[cur], "READY", AuthOk(cur)>> \in Answered(cur)
      BY <1>2, <2>1, AskedFacts DEF Answered
    <3> QED BY <1>1, <2>2, <3>1, <3>2, <3>3, <3>4, <3>5, ServerAnswers DEF Open, Gone
  <2>4. CASE ~(M.kind = "AUTH" /\ M.token = "secret_token")
    <3> DEFINE s == IF M.kind = "AUTH" THEN "CLOSING" ELSE "AUTHENTICATING"
    <3>1. tr' = [tr EXCEPT ![Server] = U] /\ conn' = [conn EXCEPT ![Server] = Transition(conn[Server], s)]
      BY <1>7, <2>4 DEF ServerAuthenticating, ParseCase, U, M
    <3>2. Transition(conn[Server], s) = "AUTHENTICATING" /\ "AUTHENTICATING" \in State
      BY <2>1 DEF Transition, Allowed, State
    <3> HIDE DEF s
    <3>3. Open => conn[cur] = "AUTHENTICATING"
      BY <1>2, <2>1, AskedFacts
    <3> QED BY <1>1, <1>3, <2>2, <3>1, <3>2, <3>3, ServerAnswers DEF Open, Gone
  <2> QED BY <2>3, <2>4
<1>8. CASE ServerReady
  <2>1. conn[Server] = "READY"
    BY <1>8 DEF ServerReady, ParseCase
  <2>2. CASE M.kind \in {"DATA_BINARY", "DATA_TEXT"}
    <3> DEFINE r == ReadWindow(tr[Server])
               b == SubSeq(r, 1, Cells[M.kind])
               T == ReplyWithPayload(U, b)
    <3>1. tr' = [tr EXCEPT ![Server] = T] /\ conn' = [conn EXCEPT ![Server] = Transition(conn[Server], "READY")]
      BY <1>8, <2>2 DEF ServerReady, ParseCase, U, M, Window
    <3>2. Transition(conn[Server], "READY") = "READY" /\ "READY" \in State
      BY <2>1 DEF Transition, Allowed, State
    <3>3. r \in Seq(Cell) /\ Len(r) = Cells[M.kind] /\ Cells[M.kind] \in Nat /\ Holds(r, M, 0)
      BY <1>2, <1>4, TypesOf, ProcessFacts, SoundFacts, BytesFacts DEF Part
    <3> HIDE DEF r
    <3>4. b \in Seq(Cell) /\ Len(b) = Cells[M.kind] /\ Holds(b, M, 0)
      <4>1. b \in Seq(Cell) /\ Len(b) = Cells[M.kind] /\ \A i \in 1 .. Cells[M.kind] : b[i] = r[i]
        BY <3>3
      <4> HIDE DEF b
      <4> QED BY <3>3, <4>1 DEF Holds
    <3> HIDE DEF b
    <3>5. Says(T, M)
      BY <1>2, <1>3, <1>4, <3>4, PayloadSays
    <3> HIDE DEF T
    <3>6. Sound(T) /\ T.read_len = 0
      BY <3>5 DEF Says
    <3>7. Open => <<conn[cur], "READY", M>> \in Answered(cur)
      <4>1. Open => conn[cur] = "READY" /\ M = Data(cur)
        BY <1>2, <2>1, <2>2, AskedFacts
      <4> QED BY <4>1 DEF Answered
    <3>8. ~Gone
      BY <1>5, <2>2
    <3> QED BY <1>1, <1>2, <3>1, <3>2, <3>5, <3>6, <3>7, <3>8, ServerAnswers DEF Open, Gone
  <2>3. CASE M.kind = "PING"
    <3> DEFINE T == Reply(U, Pong(cur))
    <3>1. tr' = [tr EXCEPT ![Server] = T] /\ conn' = [conn EXCEPT ![Server] = Transition(conn[Server], "READY")]
      BY <1>8, <2>3 DEF ServerReady, ParseCase, U, M
    <3>2. Transition(conn[Server], "READY") = "READY" /\ "READY" \in State
      BY <2>1 DEF Transition, Allowed, State
    <3>3. Says(T, Pong(cur)) /\ Pong(cur) \in Letter(cur)
      BY <1>3, <1>4, LetterMembers, ReplySays
    <3> HIDE DEF T
    <3>4. Sound(T) /\ T.read_len = 0
      BY <3>3 DEF Says
    <3>5. Open => <<conn[cur], "READY", Pong(cur)>> \in Answered(cur)
      BY <1>2, <2>1, <2>3, AskedFacts DEF Answered
    <3>6. ~Gone
      BY <1>5, <2>3
    <3> QED BY <1>1, <3>1, <3>2, <3>3, <3>4, <3>5, <3>6, ServerAnswers DEF Open, Gone
  <2>4. CASE M.kind = "CLOSE"
    <3> DEFINE T == Reply(U, ServerClose(cur))
    <3>1. tr' = [tr EXCEPT ![Server] = T] /\ conn' = [conn EXCEPT ![Server] = Transition(conn[Server], "CLOSING")]
      BY <1>8, <2>4 DEF ServerReady, ParseCase, U, M
    <3>2. Transition(conn[Server], "CLOSING") = "CLOSING" /\ "CLOSING" \in State
      BY <2>1 DEF Transition, Allowed, State
    <3>3. Says(T, ServerClose(cur)) /\ ServerClose(cur) \in Letter(cur)
      BY <1>3, <1>4, LetterMembers, ReplySays
    <3> HIDE DEF T
    <3>4. Sound(T) /\ T.read_len = 0
      BY <3>3 DEF Says
    <3>5. Open => <<conn[cur], "CLOSING", ServerClose(cur)>> \in Answered(cur)
      BY <1>2, <2>1, <2>4, AskedFacts DEF Answered
    <3> QED BY <1>1, <3>1, <3>2, <3>3, <3>4, <3>5, ServerAnswers DEF Open, Gone
  <2>5. CASE M.kind \notin {"DATA_BINARY", "DATA_TEXT", "PING", "CLOSE"}
    <3>1. tr' = [tr EXCEPT ![Server] = U] /\ conn' = [conn EXCEPT ![Server] = Transition(conn[Server], "READY")]
      BY <1>8, <2>5 DEF ServerReady, ParseCase, U, M
    <3>2. Transition(conn[Server], "READY") = "READY" /\ "READY" \in State
      BY <2>1 DEF Transition, Allowed, State
    <3>3. ~Open /\ ~Gone
      BY <1>2, <1>5, <2>1, <2>5, AskedFacts
    <3> QED BY <1>1, <1>3, <3>1, <3>2, <3>3, ServerAnswers DEF Open, Gone
  <2> QED BY <2>2, <2>3, <2>4, <2>5
<1> QED BY <1>6, <1>7, <1>8
-----------------------------------------------------------------------------
(* close(), by a program or by the kernel for one that was killed. *)
LEMMA CloseFacts ==
  ASSUME SessionInv, NEW es \in SUBSET Endpoint, \A e \in es : sock[e] = "open",
         NEW abort \in SUBSET es, TcpCloseAll(es, abort)
  PROVE  /\ net' \in [Endpoint -> Seq(Cell)] /\ sock' \in [Endpoint -> {"none", "open", "closed"}]
         /\ rst' \in [Endpoint -> BOOLEAN] /\ \A e \in Endpoint : rst'[e] => sock'[Other(e)] = "closed"
         /\ \A e \in Endpoint : sock'[e] = IF e \in es THEN "closed" ELSE sock[e]
         /\ \A e \in es : net'[e] = << >>
         /\ \A e \in Endpoint : Other(e) \in es => net'[e] = net[e] \/ net'[e] = << >>
         /\ \A e \in Endpoint : e \notin es /\ Other(e) \notin es => net'[e] = net[e]
         /\ \A c \in Clients : /\ sock'[There(c)] = "none" <=> sock'[Here(c)] = "none"
                               /\ sock'[There(c)] = "none" => net'[There(c)] = << >> /\ net'[Here(c)] = << >>
<1>1. \A e \in Endpoint : sock'[e] = IF e \in es THEN "closed" ELSE sock[e]
  BY DEF TcpCloseAll
<1>2. sock' \in [Endpoint -> {"none", "open", "closed"}]
  BY TypesOf DEF TcpCloseAll
<1>3. rst' = [e \in Endpoint |-> rst[e] \/ (Other(e) \in abort /\ sock[e] = "open")]
  BY DEF TcpCloseAll
<1>4. rst' \in [Endpoint -> BOOLEAN]
  BY <1>3, TypesOf
<1>5. ASSUME NEW e \in Endpoint, rst'[e] PROVE sock'[Other(e)] = "closed"
  <2>1. rst[e] \/ Other(e) \in abort
    BY <1>3, <1>5
  <2>2. Other(e) \in Endpoint
    BY EndpointFacts
  <2> QED BY <1>1, <2>1, <2>2, TypesOf
<1>6. PICK lost \in SUBSET abort :
        net' = [e \in Endpoint |-> IF e \in es \/ Other(e) \in lost THEN << >> ELSE net[e]]
  BY DEF TcpCloseAll
<1>7. net' \in [Endpoint -> Seq(Cell)]
  BY <1>6, TypesOf
<1>8. \A e \in Endpoint : net'[e] = IF e \in es \/ Other(e) \in lost THEN << >> ELSE net[e]
  BY <1>6
<1>9. ASSUME NEW c \in Clients
      PROVE  /\ sock'[There(c)] = "none" <=> sock'[Here(c)] = "none"
             /\ sock'[There(c)] = "none" => net'[There(c)] = << >> /\ net'[Here(c)] = << >>
  <2>1. There(c) \in Endpoint /\ Here(c) \in Endpoint
    BY EndpointFacts
  <2>2. /\ sock[There(c)] = "none" <=> sock[Here(c)] = "none"
        /\ sock[There(c)] = "none" => net[There(c)] = << >> /\ net[Here(c)] = << >>
    BY DEF SessionInv, NetInv
  <2>3. sock'[There(c)] = "none" <=> sock[There(c)] = "none"
    BY <1>1, <2>1
  <2>4. sock'[Here(c)] = "none" <=> sock[Here(c)] = "none"
    BY <1>1, <2>1
  <2> QED BY <1>8, <2>1, <2>2, <2>3, <2>4
<1>10. \A e \in es : net'[e] = << >>
  BY <1>8
<1>11. \A e \in Endpoint : Other(e) \in es => net'[e] = net[e] \/ net'[e] = << >>
  BY <1>8
<1>12. \A e \in Endpoint : e \notin es /\ Other(e) \notin es => net'[e] = net[e]
  BY <1>8
<1> QED BY <1>1, <1>2, <1>4, <1>5, <1>7, <1>9, <1>10, <1>11, <1>12

LEMMA PartLost ==
  ASSUME NEW m, NEW r \in Seq(Cell), NEW n \in Seq(Cell), NEW n2, n2 = n \/ n2 = << >>,
         Cells[m.kind] \in Nat, Part(m, r, n)
  PROVE  Part(m, r, n2) /\ n2 \in Seq(Cell) /\ Len(n2) =< Len(n)
<1>1. CASE n2 = n
  BY <1>1
<1>2. CASE n2 = << >>
  <2>1. Len(n2) = 0 /\ n2 \in Seq(Cell)
    BY <1>2
  <2>2. Holds(n2, m, Len(r))
    BY <2>1 DEF Holds
  <2>3. Len(r) \in Nat /\ Len(n) \in Nat
    OBVIOUS
  <2> QED BY <2>1, <2>2, <2>3 DEF Part
<1> QED BY <1>1, <1>2

LEMMA NoneLeft ==
  ASSUME NEW n \in Seq(Cell), Len(n) = 0, NEW n2, n2 = n \/ n2 = << >>
  PROVE  n2 \in Seq(Cell) /\ Len(n2) = 0
<1>1. << >> \in Seq(Cell) /\ Len(<< >>) = 0
  OBVIOUS
<1>2. CASE n2 = n
  BY <1>2
<1>3. CASE n2 = << >>
  BY <1>1, <1>3, Zenon
<1> QED BY <1>2, <1>3

LEMMA ClientGone ==
  ASSUME NEW c \in Clients, NEW x, NEW ss, NEW kc, NEW ks, NEW tc, NEW ts, NEW nc \in Seq(Cell), NEW ns \in Seq(Cell),
         Conversation(c, x, "open", ss, kc, ks, tc, ts, nc, ns), Sound(tc), Sound(ts),
         NEW n1, NEW n2, n2 = ns \/ n2 = << >>
  PROVE  Conversation(c, x, "closed", ss, kc, ks, tc, ts, n1, n2)
<1>1. /\ ReadWindow(ts) \in Seq(Cell) /\ Len(ReadWindow(ts)) = ts.read_len
      /\ Len(WriteWindow(ts)) = ts.write_len /\ ts.read_len \in Nat /\ Len(ns) \in Nat
  BY SoundFacts
<1>2. CASE ss = "open" /\ x = c
  <2>1. Exchange(c, kc, ks, tc, ts, nc, ns)
    BY <1>2 DEF Conversation
  <2>2. CASE /\ \E m \in Letter(c) : <<kc, ks, m>> \in Asked(c) /\ Whole(m, ReadWindow(ts), ns, WriteWindow(tc))
             /\ Nothing(ReadWindow(tc), nc, WriteWindow(ts))
    <3>1. PICK m \in Letter(c) : <<kc, ks, m>> \in Asked(c) /\ Whole(m, ReadWindow(ts), ns, WriteWindow(tc))
      BY <2>2
    <3>2. ts.write_len = 0
      BY <1>1, <2>2 DEF Nothing
    <3>3. Part(m, ReadWindow(ts), n2)
      BY <1>1, <3>1, PartLost, BytesFacts DEF Whole
    <3>4. Half(c, ts, n2)
      BY <3>2, <3>3 DEF Half
    <3>5. kc = "CLOSED" => ks = "READY" /\ m = ClientClose(c)
      BY <3>1 DEF Asked
    <3>6. kc = "CLOSED" => Leaving(c, ks, ts, n2)
      BY <3>2, <3>3, <3>5 DEF Leaving
    <3> QED BY <1>2, <3>4, <3>6 DEF Conversation
  <2>3. CASE /\ Nothing(ReadWindow(ts), ns, WriteWindow(tc))
             /\ kc = "CLOSED" => ks \in {"CLOSING", "CLOSED"} /\ (ks = "CLOSED" => ts.write_len = 0)
    <3>1. ts.read_len = 0 /\ Len(ns) = 0
      BY <1>1, <2>3 DEF Nothing
    <3>2. n2 \in Seq(Cell) /\ Len(n2) = 0
      BY <3>1, NoneLeft
    <3>3. Part(ClientHello(c), ReadWindow(ts), n2) /\ ClientHello(c) \in Letter(c)
      BY <3>1, <3>2, LetterMembers, EmptyPart
    <3>4. Half(c, ts, n2)
      BY <3>1, <3>2, <3>3 DEF Half
    <3>5. kc = "CLOSED" => Leaving(c, ks, ts, n2)
      BY <2>3, <3>1, <3>2 DEF Leaving
    <3> QED BY <1>2, <3>4, <3>5 DEF Conversation
  <2>4. ASSUME NEW m, <<kc, ks, m>> \in Answered(c), kc = "CLOSED" PROVE ks \in {"CLOSING", "CLOSED"}
    BY <2>4 DEF Answered
  <2> QED BY <2>1, <2>2, <2>3, <2>4 DEF Exchange
<1>3. CASE ss = "open" /\ x # c
  <2>1. Part(ClientHello(c), << >>, ns) /\ kc # "CLOSED"
    BY <1>3 DEF Conversation, Waiting, Whole
  <2>2. << >> \in Seq(Cell) /\ Cells[ClientHello(c).kind] \in Nat
    BY LetterMembers, BytesFacts
  <2>3. Part(ClientHello(c), << >>, n2)
    BY <2>1, <2>2, PartLost
  <2> QED BY <1>3, <2>1, <2>3 DEF Conversation
<1>4. CASE ss # "open"
  BY <1>4 DEF Conversation
<1> QED BY <1>2, <1>3, <1>4

LEMMA ServerGone ==
  ASSUME NEW c \in Clients, NEW x, NEW y, NEW sc, NEW kc, NEW ks, NEW tc, NEW ts,
         NEW nc \in Seq(Cell), NEW ns \in Seq(Cell),
         Conversation(c, x, sc, "open", kc, ks, tc, ts, nc, ns), Sound(tc), Sound(ts),
         NEW n1, n1 = nc \/ n1 = << >>, NEW n2
  PROVE  Conversation(c, y, sc, "closed", kc, ks, tc, ts, n1, n2)
<1>1. /\ ReadWindow(tc) \in Seq(Cell) /\ Len(ReadWindow(tc)) = tc.read_len
      /\ Len(WriteWindow(tc)) = tc.write_len /\ tc.read_len \in Nat /\ Len(nc) \in Nat
  BY SoundFacts
<1>2. CASE sc = "open"
  <2>1. SUFFICES Half(c, tc, n1)
    BY <1>2 DEF Conversation
  <2>2. CASE tc.read_len = 0 /\ Len(nc) = 0
    <3>1. n1 \in Seq(Cell) /\ Len(n1) = 0
      BY <2>2, NoneLeft
    <3>2. Part(ClientHello(c), ReadWindow(tc), n1) /\ ClientHello(c) \in Letter(c)
      BY <2>2, <3>1, LetterMembers, EmptyPart
    <3> QED BY <2>2, <3>1, <3>2 DEF Half
  <2>3. CASE tc.write_len = 0 /\ \E m \in Letter(c) : Part(m, ReadWindow(tc), nc)
    <3>1. PICK m \in Letter(c) : Part(m, ReadWindow(tc), nc)
      BY <2>3
    <3>2. Part(m, ReadWindow(tc), n1)
      BY <1>1, <3>1, PartLost, BytesFacts
    <3> QED BY <2>3, <3>2 DEF Half
  <2>4. CASE x # c
    <3>1. tc.read_len = 0 /\ Len(nc) = 0
      BY <1>2, <2>4 DEF Conversation, Waiting
    <3> QED BY <2>2, <3>1
  <2>5. CASE x = c
    <3>1. Exchange(c, kc, ks, tc, ts, nc, ns)
      BY <1>2, <2>5 DEF Conversation
    <3> QED BY <1>1, <2>2, <2>3, <3>1 DEF Exchange, Nothing, Whole
  <2> QED BY <2>4, <2>5
<1>3. CASE sc # "open"
  BY <1>3 DEF Conversation
<1> QED BY <1>2, <1>3

LEMMA ClientLeaves ==
  ASSUME SessionInv, NEW c \in Clients, pc[c] \in Running, NEW l \in {"exit", "killed"},
         pc' = [pc EXCEPT ![c] = l], UNCHANGED <<conn, tr, cur, backlog>>,
         NEW abort \in SUBSET {There(c)}, TcpCloseAll({There(c)}, abort)
  PROVE  SessionInv'
<1>1. There(c) \in Endpoint /\ Here(c) \in Endpoint /\ sock[There(c)] = "open"
  BY Works, EndpointFacts
<1>2. /\ net' \in [Endpoint -> Seq(Cell)] /\ sock' \in [Endpoint -> {"none", "open", "closed"}]
      /\ rst' \in [Endpoint -> BOOLEAN] /\ \A e \in Endpoint : rst'[e] => sock'[Other(e)] = "closed"
      /\ \A e \in Endpoint : sock'[e] = IF e \in {There(c)} THEN "closed" ELSE sock[e]
      /\ \A e \in {There(c)} : net'[e] = << >>
      /\ \A e \in Endpoint : Other(e) \in {There(c)} => net'[e] = net[e] \/ net'[e] = << >>
      /\ \A e \in Endpoint : e \notin {There(c)} /\ Other(e) \notin {There(c)} => net'[e] = net[e]
      /\ \A d \in Clients : /\ sock'[There(d)] = "none" <=> sock'[Here(d)] = "none"
                            /\ sock'[There(d)] = "none" => net'[There(d)] = << >> /\ net'[Here(d)] = << >>
  BY <1>1, CloseFacts
<1>3. /\ pc' \in [Process -> Running \cup {"accept", "start", "exit", "killed"}]
      /\ \A p \in Process : pc'[p] = IF p = c THEN l ELSE pc[p]
  BY TypesOf, ProcessFacts
<1>4. sock'[There(c)] = "closed" /\ \A d \in Clients : d # c => sock'[There(d)] = sock[There(d)]
  BY <1>1, <1>2, EndpointFacts
<1>5. \A d \in Clients : sock'[Here(d)] = sock[Here(d)]
  BY <1>2, EndpointFacts
<1>6. pc'[Server] = pc[Server]
  BY <1>3, ProcessFacts
<1>7. LoopInv'
  <2>1. cur' \in Clients \cup {NoClient} /\ (pc'[Server] = "accept" <=> cur' = NoClient)
    BY <1>6 DEF SessionInv, LoopInv
  <2>2. pc'[Server] \in Running => sock'[Here(cur')] = "open"
    BY <1>5, <1>6, Serves
  <2>3. conn' \in [Process -> State] /\ tr' = [p \in Process |-> tr'[p]] /\ \A p \in Process : Sound(tr'[p])
    BY TypesOf
  <2>4. pc'[Server] \in Running \cup {"accept", "killed"}
    BY <1>6 DEF SessionInv, LoopInv
  <2> QED BY <1>3, <2>1, <2>2, <2>3, <2>4 DEF LoopInv
<1>8. NetInv'
  <2>1. ASSUME NEW d \in Clients
        PROVE  /\ sock'[There(d)] = "open" <=> pc'[d] \in Running
               /\ pc'[d] = "start" => sock'[There(d)] = "none" /\ tr'[d].write_len = 0
               /\ pc'[d] # "accept"
    BY <1>3, <1>4, ProcessFacts DEF SessionInv, NetInv, Running
  <2> QED BY <1>2, <2>1 DEF NetInv
<1>9. BacklogInv'
  BY <1>5, <1>6 DEF SessionInv, BacklogInv
<1>10. ConversationInv'
  <2>1. SUFFICES ASSUME NEW d \in Clients
                 PROVE  Conversation(d, cur', sock'[There(d)], sock'[Here(d)], conn'[d], conn'[Server],
                                     tr'[d], tr'[Server], net'[There(d)], net'[Here(d)])
    BY DEF ConversationInv
  <2>2. Conversation(d, cur, sock[There(d)], sock[Here(d)], conn[d], conn[Server],
                     tr[d], tr[Server], net[There(d)], net[Here(d)])
    BY DEF SessionInv, ConversationInv
  <2>3. CASE d = c
    <3>1. net'[Here(c)] = net[Here(c)] \/ net'[Here(c)] = << >>
      BY <1>1, <1>2, EndpointFacts
    <3>2. Sound(tr[c]) /\ Sound(tr[Server]) /\ net[There(c)] \in Seq(Cell) /\ net[Here(c)] \in Seq(Cell)
      BY <1>1, TypesOf, ProcessFacts
    <3>3. Conversation(c, cur, "open", sock[Here(c)], conn[c], conn[Server],
                       tr[c], tr[Server], net[There(c)], net[Here(c)])
      BY <1>1, <2>2, <2>3
    <3>4. Conversation(c, cur, "closed", sock[Here(c)], conn[c], conn[Server],
                       tr[c], tr[Server], net'[There(c)], net'[Here(c)])
      BY <3>1, <3>2, <3>3, ClientGone
    <3> QED BY <1>4, <1>5, <2>3, <3>4
  <2>4. CASE d # c
    <3>1. net'[There(d)] = net[There(d)] /\ net'[Here(d)] = net[Here(d)]
      BY <1>2, <2>4, EndpointFacts
    <3> QED BY <1>4, <1>5, <2>2, <2>4, <3>1
  <2> QED BY <2>3, <2>4
<1> QED BY <1>7, <1>8, <1>9, <1>10 DEF SessionInv

(* The server gives up the client it serves, or is killed and gives up all. *)
LEMMA ServerLeaves ==
  ASSUME SessionInv, pc[Server] \in Running, UNCHANGED <<conn, tr>>,
         NEW ds \in SUBSET Clients, \A d \in ds : sock[Here(d)] = "open", cur \in ds,
         NEW abort \in SUBSET {Here(d) : d \in ds}, TcpCloseAll({Here(d) : d \in ds}, abort),
         \/ /\ ds = {cur} /\ cur' = NoClient /\ UNCHANGED backlog
            /\ pc' = [pc EXCEPT ![Server] = "accept"]
         \/ /\ \A d \in Clients : sock[Here(d)] = "open" => d \in ds
            /\ UNCHANGED cur /\ backlog' = << >> /\ pc' = [pc EXCEPT ![Server] = "killed"]
  PROVE  SessionInv'
<1> DEFINE es == {Here(d) : d \in ds}
<1>1. /\ es \in SUBSET Endpoint /\ \A e \in es : sock[e] = "open"
      /\ \A d \in Clients : (Here(d) \in es <=> d \in ds) /\ There(d) \notin es
  BY EndpointFacts
<1>2. /\ net' \in [Endpoint -> Seq(Cell)] /\ sock' \in [Endpoint -> {"none", "open", "closed"}]
      /\ rst' \in [Endpoint -> BOOLEAN] /\ \A e \in Endpoint : rst'[e] => sock'[Other(e)] = "closed"
      /\ \A e \in Endpoint : sock'[e] = IF e \in es THEN "closed" ELSE sock[e]
      /\ \A e \in es : net'[e] = << >>
      /\ \A e \in Endpoint : Other(e) \in es => net'[e] = net[e] \/ net'[e] = << >>
      /\ \A e \in Endpoint : e \notin es /\ Other(e) \notin es => net'[e] = net[e]
      /\ \A d \in Clients : /\ sock'[There(d)] = "none" <=> sock'[Here(d)] = "none"
                            /\ sock'[There(d)] = "none" => net'[There(d)] = << >> /\ net'[Here(d)] = << >>
  BY <1>1, CloseFacts
<1> HIDE DEF es
<1>3. /\ pc' \in [Process -> Running \cup {"accept", "start", "exit", "killed"}]
      /\ \A d \in Clients : pc'[d] = pc[d]
      /\ pc'[Server] \in {"accept", "killed"}
  BY TypesOf, ProcessFacts
<1>4. \A d \in Clients : sock'[There(d)] = sock[There(d)]
  BY <1>1, <1>2, EndpointFacts
<1>5. \A d \in Clients : sock'[Here(d)] = IF d \in ds THEN "closed" ELSE sock[Here(d)]
  BY <1>1, <1>2, EndpointFacts
<1>6. cur \in Clients
  BY Serves
<1>7. LoopInv'
  <2>1. cur' \in Clients \cup {NoClient} /\ (pc'[Server] = "accept" <=> cur' = NoClient)
    BY <1>6, TypesOf, ProcessFacts
  <2>2. pc'[Server] \notin Running
    BY <1>3 DEF Running
  <2>3. conn' \in [Process -> State] /\ tr' = [p \in Process |-> tr'[p]] /\ \A p \in Process : Sound(tr'[p])
    BY TypesOf
  <2> QED BY <1>3, <2>1, <2>2, <2>3 DEF LoopInv
<1>8. NetInv'
  <2>1. ASSUME NEW d \in Clients
        PROVE  /\ sock'[There(d)] = "open" <=> pc'[d] \in Running
               /\ pc'[d] = "start" => sock'[There(d)] = "none" /\ tr'[d].write_len = 0
               /\ pc'[d] # "accept"
    BY <1>3, <1>4 DEF SessionInv, NetInv
  <2> QED BY <1>2, <2>1 DEF NetInv
<1>9. BacklogInv'
  <2>1. CASE ds = {cur} /\ cur' = NoClient /\ UNCHANGED backlog /\ pc' = [pc EXCEPT ![Server] = "accept"]
    <3>1. ASSUME NEW i \in 1 .. Len(backlog) PROVE sock'[Here(backlog[i])] = "open" /\ backlog[i] # NoClient
      <4>1. backlog[i] \in Clients /\ sock[Here(backlog[i])] = "open" /\ backlog[i] # cur
        BY DEF SessionInv, BacklogInv
      <4> QED BY <1>5, <2>1, <4>1, ProcessFacts
    <3>2. pc'[Server] # "killed"
      BY <2>1, TypesOf, ProcessFacts
    <3> QED BY <2>1, <3>1, <3>2 DEF SessionInv, BacklogInv
  <2>2. CASE backlog' = << >> /\ \A d \in Clients : sock[Here(d)] = "open" => d \in ds
    <3>1. backlog' \in Seq(Clients) /\ Len(backlog') = 0
      BY <2>2
    <3>2. \A d \in Clients : sock'[Here(d)] # "open"
      BY <1>5, <2>2
    <3>3. \A i \in 1 .. Len(backlog') : FALSE
      BY <3>1
    <3> QED BY <3>1, <3>2, <3>3 DEF BacklogInv
  <2> QED BY <2>1, <2>2
<1>10. ConversationInv'
  <2>1. SUFFICES ASSUME NEW d \in Clients
                 PROVE  Conversation(d, cur', sock'[There(d)], sock'[Here(d)], conn'[d], conn'[Server],
                                     tr'[d], tr'[Server], net'[There(d)], net'[Here(d)])
    BY DEF ConversationInv
  <2>2. Conversation(d, cur, sock[There(d)], sock[Here(d)], conn[d], conn[Server],
                     tr[d], tr[Server], net[There(d)], net[Here(d)])
    BY DEF SessionInv, ConversationInv
  <2>3. CASE d \in ds
    <3>1. net'[There(d)] = net[There(d)] \/ net'[There(d)] = << >>
      BY <1>1, <1>2, <2>3, EndpointFacts
    <3>2. Sound(tr[d]) /\ Sound(tr[Server]) /\ net[There(d)] \in Seq(Cell) /\ net[Here(d)] \in Seq(Cell)
      BY TypesOf, ProcessFacts, EndpointFacts
    <3>3. Conversation(d, cur, sock[There(d)], "open", conn[d], conn[Server],
                       tr[d], tr[Server], net[There(d)], net[Here(d)])
      BY <2>2, <2>3
    <3>4. Conversation(d, cur', sock[There(d)], "closed", conn[d], conn[Server],
                       tr[d], tr[Server], net'[There(d)], net'[Here(d)])
      BY <3>1, <3>2, <3>3, ServerGone
    <3> QED BY <1>4, <1>5, <2>3, <3>4
  <2>4. CASE d \notin ds
    <3>1. net'[There(d)] = net[There(d)] /\ net'[Here(d)] = net[Here(d)]
      BY <1>1, <1>2, <2>4, EndpointFacts
    <3>2. d # cur /\ d # cur'
      BY <2>4, ProcessFacts
    <3>3. Conversation(d, cur', sock[There(d)], sock[Here(d)], conn[d], conn[Server],
                       tr[d], tr[Server], net[There(d)], net[Here(d)])
      BY <2>2, <3>2, NotServed
    <3> QED BY <1>4, <1>5, <2>4, <3>1, <3>3
  <2> QED BY <2>3, <2>4
<1> QED BY <1>7, <1>8, <1>9, <1>10 DEF SessionInv

LEMMA ClosingKeeps ==
  ASSUME SessionInv
  PROVE  /\ \A c \in Clients : ClientExit(c) \/ ClientCrash(c) \/ WriteSigpipe(c) => SessionInv'
         /\ CloseClient \/ WriteSigpipe(Server) => SessionInv'
<1>1. ASSUME NEW c \in Clients, ClientExit(c) \/ ClientCrash(c) PROVE SessionInv'
  <2>1. pc[c] \in Running /\ UNCHANGED <<conn, tr, cur, backlog>>
    BY <1>1 DEF ClientExit, ClientCrash, Running
  <2>2. PICK l \in {"exit", "killed"} : pc' = [pc EXCEPT ![c] = l]
    BY <1>1 DEF ClientExit, ClientCrash, Goto
  <2> DEFINE abort == IF net[There(c)] = << >> THEN {} ELSE {There(c)}
  <2>3. TcpCloseAll({There(c)}, abort)
    BY <1>1, EndpointFacts DEF ClientExit, ClientCrash, TcpClose
  <2>4. abort \in SUBSET {There(c)}
    OBVIOUS
  <2> HIDE DEF abort
  <2> QED BY <2>1, <2>2, <2>3, <2>4, ClientLeaves
<1>2. ASSUME NEW c \in Clients, WriteSigpipe(c) PROVE SessionInv'
  <2>1. pc[c] \in Running /\ UNCHANGED <<conn, tr, cur, backlog>> /\ pc' = [pc EXCEPT ![c] = "killed"]
    BY <1>2, ProcessFacts DEF WriteSigpipe, Goto, Running
  <2> DEFINE mine == {e \in Endpoint : sock[e] = "open" /\ IF c = Server THEN e[2] = "server" ELSE e = At(c)}
             abort == {e \in mine : net[e] # << >> \/ (c = Server /\ e # At(c))}
  <2>2. TcpCloseAll(mine, abort)
    BY <1>2 DEF WriteSigpipe
  <2>3. mine = {There(c)}
    BY <2>1, Works, ProcessFacts
  <2>4. abort \in SUBSET {There(c)}
    BY <2>3
  <2> HIDE DEF abort, mine
  <2> QED BY <2>1, <2>2, <2>3, <2>4, ClientLeaves
<1>3. ASSUME CloseClient PROVE SessionInv'
  <2>1. /\ pc[Server] \in Running /\ UNCHANGED <<conn, tr, backlog>> /\ cur' = NoClient
        /\ pc' = [pc EXCEPT ![Server] = "accept"]
    BY <1>3 DEF CloseClient, Goto, Running
  <2>2. cur \in Clients /\ sock[Here(cur)] = "open" /\ At(Server) = Here(cur)
    BY <2>1, Serves
  <2> DEFINE ds == {cur}
             abort == IF net[Here(cur)] = << >> THEN {} ELSE {Here(cur)}
  <2>3. {Here(d) : d \in ds} = {Here(cur)}
    OBVIOUS
  <2>4. TcpCloseAll({Here(d) : d \in ds}, abort)
    BY <1>3, <2>2, <2>3 DEF CloseClient, TcpClose
  <2>5. abort \in SUBSET {Here(d) : d \in ds}
    BY <2>3
  <2>6. ds \in SUBSET Clients /\ cur \in ds /\ \A d \in ds : sock[Here(d)] = "open"
    BY <2>2
  <2>7. ds = {cur}
    OBVIOUS
  <2> HIDE DEF abort, ds
  <2> QED BY <2>1, <2>4, <2>5, <2>6, <2>7, ServerLeaves
<1>4. ASSUME WriteSigpipe(Server) PROVE SessionInv'
  <2>1. /\ pc[Server] \in Running /\ UNCHANGED <<conn, tr, cur>> /\ backlog' = << >>
        /\ pc' = [pc EXCEPT ![Server] = "killed"]
    BY <1>4 DEF WriteSigpipe, Goto, Running
  <2>2. cur \in Clients /\ sock[Here(cur)] = "open"
    BY <2>1, Serves
  <2> DEFINE mine == {e \in Endpoint : sock[e] = "open" /\ IF Server = Server THEN e[2] = "server" ELSE e = At(Server)}
             abort == {e \in mine : net[e] # << >> \/ (Server = Server /\ e # At(Server))}
             ds == {d \in Clients : sock[Here(d)] = "open"}
  <2>3. TcpCloseAll(mine, abort)
    BY <1>4 DEF WriteSigpipe
  <2>4. mine = {Here(d) : d \in ds}
    <3>1. ASSUME NEW e \in mine PROVE e \in {Here(d) : d \in ds}
      <4>1. PICK d \in Clients : e = <<d, "server">>
        BY DEF Endpoint, Side
      <4> QED BY <4>1 DEF Here
    <3>2. ASSUME NEW d \in ds PROVE Here(d) \in mine
      BY EndpointFacts DEF Here
    <3> QED BY <3>1, <3>2
  <2>5. abort \in SUBSET {Here(d) : d \in ds}
    BY <2>4
  <2>6. /\ ds \in SUBSET Clients /\ cur \in ds /\ \A d \in ds : sock[Here(d)] = "open"
        /\ \A d \in Clients : sock[Here(d)] = "open" => d \in ds
    BY <2>2
  <2> HIDE DEF mine, abort, ds
  <2> QED BY <2>1, <2>3, <2>4, <2>5, <2>6, ServerLeaves
<1> QED BY <1>1, <1>2, <1>3, <1>4
-----------------------------------------------------------------------------
(* The beginning of a conversation. *)
LEMMA InitSound ==
  ASSUME NEW t, Sound(t)
  PROVE  /\ Sound(TransportInit(t)) /\ TransportInit(t).read_len = 0 /\ TransportInit(t).write_len = 0
<1> DEFINE r == TransportInit(t)
<1>1. t \in Transport(Cell)
  BY DEF Sound
<1>2. r \in Transport(Cell) /\ r.read_pos = 0 /\ r.read_len = 0 /\ r.write_pos = 0 /\ r.write_len = 0
  BY <1>1 DEF Transport, TransportInit
<1> HIDE DEF r
<1>3. 0 + 0 =< PW_BUFFER_SIZE
  BY BufferSizeAssumption
<1>4. Sound(r)
  BY <1>2, <1>3 DEF Sound
<1> QED BY <1>2, <1>4 DEF r

LEMMA ConnectKeeps ==
  ASSUME MessagesFit, SessionInv, NEW c \in Clients, ClientConnect(c)
  PROVE  SessionInv'
<1> DEFINE T == Reply(TransportInit(tr[c]), ClientHello(c))
<1>1. /\ pc[c] = "start" /\ pc[Server] # "killed" /\ pc' = [pc EXCEPT ![c] = "poll"]
      /\ tr' = [tr EXCEPT ![c] = T] /\ backlog' = Append(backlog, c) /\ UNCHANGED <<net, rst, cur>>
      /\ sock' = [e \in Endpoint |-> IF e[1] = c THEN "open" ELSE sock[e]]
      /\ conn' = [conn EXCEPT ![c] = Transition(Transition(ConnectionInit, "CONNECTING"), "HANDSHAKING")]
  BY DEF ClientConnect, TcpConnect, Goto
<1>2. conn' = [conn EXCEPT ![c] = "HANDSHAKING"] /\ "HANDSHAKING" \in State
  BY <1>1 DEF Transition, Allowed, State, ConnectionInit
<1>3. Says(T, ClientHello(c)) /\ ClientHello(c) \in Letter(c)
  BY TypesOf, ProcessFacts, InitSound, LetterMembers, ReplySays
<1> HIDE DEF T
<1>4. Sound(T) /\ T.read_len = 0
  BY <1>3 DEF Says
<1>5. sock[There(c)] = "none" /\ sock[Here(c)] = "none" /\ net[There(c)] = << >> /\ net[Here(c)] = << >>
  BY <1>1 DEF SessionInv, NetInv
<1>6. /\ pc' \in [Process -> Running \cup {"accept", "start", "exit", "killed"}]
      /\ \A p \in Process : pc'[p] = IF p = c THEN "poll" ELSE pc[p]
  BY <1>1, TypesOf, ProcessFacts DEF Running
<1>7. /\ conn' \in [Process -> State] /\ \A p \in Process : conn'[p] = IF p = c THEN "HANDSHAKING" ELSE conn[p]
  BY <1>2, TypesOf, ProcessFacts
<1>8. tr' = [p \in Process |-> tr'[p]] /\ \A p \in Process : tr'[p] = IF p = c THEN T ELSE tr[p]
  BY <1>1, TypesOf, ProcessFacts
<1>9. /\ sock'[There(c)] = "open" /\ sock'[Here(c)] = "open"
      /\ \A d \in Clients : d # c => sock'[There(d)] = sock[There(d)] /\ sock'[Here(d)] = sock[Here(d)]
  BY <1>1, EndpointFacts DEF There, Here
<1>10. cur # c /\ pc'[Server] = pc[Server] /\ tr'[Server] = tr[Server] /\ conn'[Server] = conn[Server]
  <2>1. pc[Server] \in Running => cur # c
    BY <1>5, Serves
  <2>2. pc[Server] = "accept" => cur # c
    BY ProcessFacts DEF SessionInv, LoopInv
  <2>3. pc[Server] \in Running \cup {"accept"}
    BY <1>1 DEF SessionInv, LoopInv
  <2> QED BY <1>6, <1>7, <1>8, <2>1, <2>2, <2>3, ProcessFacts
<1>11. LoopInv'
  <2>1. cur' \in Clients \cup {NoClient} /\ (pc'[Server] = "accept" <=> cur' = NoClient)
    BY <1>1, <1>10 DEF SessionInv, LoopInv
  <2>2. pc'[Server] \in Running => sock'[Here(cur')] = "open"
    BY <1>1, <1>9, <1>10, Serves
  <2>3. \A p \in Process : Sound(tr'[p])
    BY <1>4, <1>8, TypesOf
  <2>4. pc'[Server] \in Running \cup {"accept", "killed"}
    BY <1>10 DEF SessionInv, LoopInv
  <2> QED BY <1>6, <1>7, <1>8, <2>1, <2>2, <2>3, <2>4 DEF LoopInv
<1>12. NetInv'
  <2>1. sock' \in [Endpoint -> {"none", "open", "closed"}]
    BY <1>1, TypesOf
  <2>2. ASSUME NEW e \in Endpoint, rst'[e] PROVE sock'[Other(e)] = "closed"
    <3>1. sock[Other(e)] = "closed" /\ Other(e) \in Endpoint
      BY <1>1, <2>2, TypesOf, EndpointFacts
    <3>2. PICK d \in Clients : Other(e) = There(d) \/ Other(e) = Here(d)
      BY <3>1, EndpointFacts
    <3> QED BY <1>5, <1>9, <3>1, <3>2
  <2>3. ASSUME NEW d \in Clients
        PROVE  /\ sock'[There(d)] = "none" <=> sock'[Here(d)] = "none"
               /\ sock'[There(d)] = "open" <=> pc'[d] \in Running
               /\ sock'[There(d)] = "none" => net'[There(d)] = << >> /\ net'[Here(d)] = << >>
               /\ pc'[d] = "start" => sock'[There(d)] = "none" /\ tr'[d].write_len = 0
               /\ pc'[d] # "accept"
    <3>1. CASE d = c
      BY <1>6, <1>9, <3>1, ProcessFacts DEF Running
    <3>2. CASE d # c
      <4>1. /\ pc'[d] = pc[d] /\ tr'[d] = tr[d] /\ sock'[There(d)] = sock[There(d)]
            /\ sock'[Here(d)] = sock[Here(d)] /\ net' = net
        BY <1>1, <1>6, <1>8, <1>9, <3>2, ProcessFacts
      <4> QED BY <4>1 DEF SessionInv, NetInv
    <3> QED BY <3>1, <3>2
  <2> QED BY <1>1, <2>1, <2>2, <2>3, TypesOf DEF NetInv
<1>13. BacklogInv'
  <2>1. /\ backlog \in Seq(Clients)
        /\ \A i \in 1 .. Len(backlog) : sock[Here(backlog[i])] = "open" /\ backlog[i] # cur
        /\ \A i, j \in 1 .. Len(backlog) : backlog[i] = backlog[j] => i = j
    BY DEF SessionInv, BacklogInv
  <2>2. /\ backlog' \in Seq(Clients) /\ Len(backlog') = Len(backlog) + 1
        /\ \A i \in 1 .. Len(backlog) : backlog'[i] = backlog[i]
        /\ backlog'[Len(backlog) + 1] = c
    BY <1>1, <2>1
  <2>3. \A i \in 1 .. Len(backlog) : backlog[i] # c /\ backlog[i] \in Clients
    BY <1>5, <2>1
  <2>4. \A i \in 1 .. Len(backlog') : sock'[Here(backlog'[i])] = "open" /\ backlog'[i] # cur'
    <3>1. SUFFICES ASSUME NEW i \in 1 .. Len(backlog')
                   PROVE  sock'[Here(backlog'[i])] = "open" /\ backlog'[i] # cur'
      OBVIOUS
    <3>2. i \in 1 .. Len(backlog) \/ i = Len(backlog) + 1
      BY <2>1, <2>2
    <3>3. CASE i \in 1 .. Len(backlog)
      BY <1>1, <1>9, <2>1, <2>2, <2>3, <3>3
    <3>4. CASE i = Len(backlog) + 1
      BY <1>1, <1>9, <1>10, <2>2, <3>4
    <3> QED BY <3>2, <3>3, <3>4
  <2>5. \A i, j \in 1 .. Len(backlog') : backlog'[i] = backlog'[j] => i = j
    <3>1. \A i \in 1 .. Len(backlog') : i \in 1 .. Len(backlog) \/ i = Len(backlog) + 1
      BY <2>1, <2>2
    <3> QED BY <2>1, <2>2, <2>3, <3>1
  <2>6. pc'[Server] # "killed"
    BY <1>1, <1>10
  <2> QED BY <2>2, <2>4, <2>5, <2>6 DEF BacklogInv
<1>14. ConversationInv'
  <2>1. SUFFICES ASSUME NEW d \in Clients
                 PROVE  Conversation(d, cur', sock'[There(d)], sock'[Here(d)], conn'[d], conn'[Server],
                                     tr'[d], tr'[Server], net'[There(d)], net'[Here(d)])
    BY DEF ConversationInv
  <2>2. CASE d = c
    <3>1. << >> \in Seq(Cell) /\ Len(<< >>) = 0
      OBVIOUS
    <3>2. Whole(ClientHello(c), << >>, << >>, WriteWindow(T))
      BY <1>3, <3>1, SaysWhole
    <3>3. Waiting(c, "HANDSHAKING", T, << >>, << >>)
      BY <1>4, <3>1, <3>2 DEF Waiting
    <3>4. Conversation(c, cur, "open", "open", "HANDSHAKING", conn[Server], T, tr[Server], << >>, << >>)
      BY <1>10, <3>3 DEF Conversation
    <3>5. /\ cur' = cur /\ sock'[There(c)] = "open" /\ sock'[Here(c)] = "open" /\ conn'[c] = "HANDSHAKING"
          /\ tr'[c] = T /\ net'[There(c)] = << >> /\ net'[Here(c)] = << >>
      BY <1>1, <1>5, <1>7, <1>8, <1>9, ProcessFacts
    <3> QED BY <1>10, <2>2, <3>4, <3>5
  <2>3. CASE d # c
    <3>1. conn'[d] = conn[d] /\ tr'[d] = tr[d]
      BY <1>7, <1>8, <2>3, ProcessFacts
    <3> QED BY <1>1, <1>9, <1>10, <2>3, <3>1 DEF SessionInv, ConversationInv
  <2> QED BY <2>2, <2>3
<1> QED BY <1>11, <1>12, <1>13, <1>14 DEF SessionInv

LEMMA RefusedKeeps ==
  ASSUME SessionInv, NEW c \in Clients, ClientRefused(c)
  PROVE  SessionInv'
<1>1. pc[c] = "start" /\ pc' = [pc EXCEPT ![c] = "exit"] /\ UNCHANGED <<net, sock, rst, conn, tr, cur, backlog>>
  BY DEF ClientRefused, Goto, tcpVars
<1>2. /\ pc' \in [Process -> Running \cup {"accept", "start", "exit", "killed"}]
      /\ \A p \in Process : pc'[p] = IF p = c THEN "exit" ELSE pc[p]
  BY <1>1, TypesOf, ProcessFacts
<1>3. pc'[Server] = pc[Server]
  BY <1>2, ProcessFacts
<1>4. LoopInv'
  BY <1>1, <1>2, <1>3 DEF SessionInv, LoopInv
<1>5. NetInv'
  <2>1. ASSUME NEW d \in Clients
        PROVE  /\ sock'[There(d)] = "open" <=> pc'[d] \in Running
               /\ pc'[d] = "start" => sock'[There(d)] = "none" /\ tr'[d].write_len = 0
               /\ pc'[d] # "accept"
    BY <1>1, <1>2, ProcessFacts DEF SessionInv, NetInv, Running
  <2> QED BY <1>1, <2>1 DEF SessionInv, NetInv
<1>6. BacklogInv' /\ ConversationInv'
  BY <1>1, <1>3 DEF SessionInv, BacklogInv, ConversationInv
<1> QED BY <1>4, <1>5, <1>6 DEF SessionInv

LEMMA AcceptedConversation ==
  ASSUME NEW c \in Clients, NEW x, x # c, NEW sc, NEW kc, NEW ks, NEW tc, NEW ts,
         NEW nc \in Seq(Cell), NEW ns \in Seq(Cell),
         Conversation(c, x, sc, "open", kc, ks, tc, ts, nc, ns), Sound(tc),
         NEW T, Sound(T), T.read_len = 0, T.write_len = 0, NEW k \in {"DISCONNECTED", "HANDSHAKING"}
  PROVE  Conversation(c, c, sc, "open", kc, k, tc, T, nc, ns)
<1>1. /\ Len(ReadWindow(T)) = 0 /\ Len(WriteWindow(T)) = 0 /\ Len(ReadWindow(tc)) = tc.read_len
      /\ ClientHello(c) \in Letter(c) /\ Len(<< >>) = 0
  BY SoundFacts, LetterMembers
<1>2. ASSUME Part(ClientHello(c), << >>, ns) PROVE Part(ClientHello(c), ReadWindow(T), ns)
  <2>1. Holds(ReadWindow(T), ClientHello(c), 0)
    BY <1>1 DEF Holds
  <2> QED BY <1>1, <1>2, <2>1 DEF Part
<1>3. CASE sc = "open"
  <2>1. kc = "HANDSHAKING" /\ tc.read_len = 0 /\ Len(nc) = 0 /\ Whole(ClientHello(c), << >>, ns, WriteWindow(tc))
    BY <1>3 DEF Conversation, Waiting
  <2>2. Whole(ClientHello(c), ReadWindow(T), ns, WriteWindow(tc))
    BY <1>1, <1>2, <2>1 DEF Whole
  <2>3. Nothing(ReadWindow(tc), nc, WriteWindow(T))
    BY <1>1, <2>1 DEF Nothing
  <2>4. <<kc, k, ClientHello(c)>> \in Asked(c)
    BY <2>1 DEF Asked
  <2>5. Exchange(c, kc, k, tc, T, nc, ns)
    BY <1>1, <2>1, <2>2, <2>3, <2>4 DEF Exchange
  <2> QED BY <1>3, <2>5 DEF Conversation
<1>4. CASE sc = "closed"
  <2>1. Part(ClientHello(c), << >>, ns) /\ kc # "CLOSED"
    BY <1>4 DEF Conversation
  <2>2. Half(c, T, ns)
    BY <1>1, <1>2, <2>1 DEF Half
  <2> QED BY <1>4, <2>1, <2>2 DEF Conversation
<1>5. CASE sc \notin {"open", "closed"}
  BY <1>5 DEF Conversation
<1> QED BY <1>3, <1>4, <1>5

LEMMA AcceptKeeps ==
  ASSUME SessionInv, Accept
  PROVE  SessionInv'
<1> DEFINE c == Head(backlog)
           T == TransportInit(tr[Server])
           k == ServerEntry
<1>1. /\ pc[Server] = "accept" /\ backlog # << >> /\ cur' = c /\ backlog' = Tail(backlog)
      /\ tr' = [tr EXCEPT ![Server] = T] /\ conn' = [conn EXCEPT ![Server] = k]
      /\ pc' = [pc EXCEPT ![Server] = "poll"] /\ UNCHANGED <<net, sock, rst>>
  BY DEF Accept, Goto, tcpVars
<1>2. k \in {"DISCONNECTED", "HANDSHAKING"} /\ k \in State
  BY ConnectingFirstAssumption DEF ServerEntry, Transition, Allowed, State, ConnectionInit
<1>3. Sound(T) /\ T.read_len = 0 /\ T.write_len = 0
  BY TypesOf, ProcessFacts, InitSound
<1>4. /\ backlog \in Seq(Clients)
      /\ \A i \in 1 .. Len(backlog) : sock[Here(backlog[i])] = "open" /\ backlog[i] # cur
      /\ \A i, j \in 1 .. Len(backlog) : backlog[i] = backlog[j] => i = j
  BY DEF SessionInv, BacklogInv
<1>5. /\ 1 \in 1 .. Len(backlog) /\ c = backlog[1] /\ c \in Clients
      /\ Tail(backlog) \in Seq(Clients) /\ Len(Tail(backlog)) = Len(backlog) - 1
      /\ \A i \in 1 .. (Len(backlog) - 1) : Tail(backlog)[i] = backlog[i + 1]
  BY <1>1, <1>4
<1>6. c \in Clients /\ sock[Here(c)] = "open" /\ c # NoClient /\ cur = NoClient
  <2>1. cur = NoClient
    BY <1>1 DEF SessionInv, LoopInv
  <2> QED BY <1>4, <1>5, <2>1, ProcessFacts
<1> HIDE DEF c, T, k
<1>7. /\ pc' \in [Process -> Running \cup {"accept", "start", "exit", "killed"}]
      /\ pc'[Server] = "poll" /\ \A d \in Clients : pc'[d] = pc[d]
  BY <1>1, TypesOf, ProcessFacts DEF Running
<1>8. /\ conn' \in [Process -> State] /\ conn'[Server] = k /\ \A d \in Clients : conn'[d] = conn[d]
  BY <1>1, <1>2, TypesOf, ProcessFacts
<1>9. /\ tr' = [p \in Process |-> tr'[p]] /\ tr'[Server] = T /\ \A d \in Clients : tr'[d] = tr[d]
      /\ \A p \in Process : Sound(tr'[p])
  BY <1>1, <1>3, TypesOf, ProcessFacts
<1>10. LoopInv'
  BY <1>1, <1>6, <1>7, <1>8, <1>9 DEF LoopInv, Running
<1>11. NetInv'
  BY <1>1, <1>7, <1>9 DEF SessionInv, NetInv
<1>12. BacklogInv'
  <2>1. \A i \in 1 .. Len(backlog') : /\ i + 1 \in 1 .. Len(backlog) /\ backlog'[i] = backlog[i + 1]
                                      /\ i + 1 # 1
    BY <1>1, <1>4, <1>5
  <2>2. \A i \in 1 .. Len(backlog') : sock'[Here(backlog'[i])] = "open" /\ backlog'[i] # cur'
    BY <1>1, <1>4, <1>5, <2>1
  <2>3. \A i, j \in 1 .. Len(backlog') : backlog'[i] = backlog'[j] => i = j
    <3>1. SUFFICES ASSUME NEW i \in 1 .. Len(backlog'), NEW j \in 1 .. Len(backlog'), backlog'[i] = backlog'[j]
                   PROVE  i = j
      OBVIOUS
    <3>2. i + 1 = j + 1
      BY <1>4, <2>1, <3>1
    <3> QED BY <3>2
  <2>4. backlog' \in Seq(Clients) /\ pc'[Server] # "killed"
    BY <1>1, <1>5, <1>7
  <2> QED BY <2>2, <2>3, <2>4 DEF BacklogInv
<1>13. ConversationInv'
  <2>1. SUFFICES ASSUME NEW d \in Clients
                 PROVE  Conversation(d, cur', sock'[There(d)], sock'[Here(d)], conn'[d], conn'[Server],
                                     tr'[d], tr'[Server], net'[There(d)], net'[Here(d)])
    BY DEF ConversationInv
  <2>2. Conversation(d, cur, sock[There(d)], sock[Here(d)], conn[d], conn[Server],
                     tr[d], tr[Server], net[There(d)], net[Here(d)])
    BY DEF SessionInv, ConversationInv
  <2>3. d # NoClient /\ Sound(tr[d]) /\ net[There(d)] \in Seq(Cell) /\ net[Here(d)] \in Seq(Cell)
    BY TypesOf, ProcessFacts, EndpointFacts
  <2>4. CASE d = c
    <3>1. Conversation(d, cur, sock[There(d)], "open", conn[d], conn[Server],
                       tr[d], tr[Server], net[There(d)], net[Here(d)])
      BY <1>6, <2>2, <2>4
    <3>2. Conversation(d, d, sock[There(d)], "open", conn[d], k, tr[d], T, net[There(d)], net[Here(d)])
      BY <1>2, <1>3, <1>6, <2>3, <3>1, AcceptedConversation
    <3> QED BY <1>1, <1>6, <1>8, <1>9, <2>4, <3>2
  <2>5. CASE d # c
    <3>1. Conversation(d, c, sock[There(d)], sock[Here(d)], conn[d], k, tr[d], T, net[There(d)], net[Here(d)])
      BY <1>6, <2>2, <2>3, <2>5, NotServed
    <3> QED BY <1>1, <1>8, <1>9, <3>1
  <2> QED BY <2>4, <2>5
<1> QED BY <1>10, <1>11, <1>12, <1>13 DEF SessionInv
-----------------------------------------------------------------------------
LEMMA QuietKeeps ==
  ASSUME SessionInv, NEW p \in Process, NEW l \in Running,
         \/ LeaveLoop(p) \/ Poll(p, l) \/ SpuriousPoll(p, l) \/ PollError(p) \/ SkipRead(p, l)
         \/ SkipWrite(p, l) \/ WriteError(p, l) \/ ParseStops(p, l)
  PROVE  SessionInv'
<1>1. pc[p] \in {"poll", "read", "write", "parse"} /\ UNCHANGED <<net, sock, rst, conn, tr, cur, backlog>>
  BY DEF LeaveLoop, Poll, SpuriousPoll, PollError, SkipRead, SkipWrite, WriteError, ParseStops, tcpVars
<1>2. pc' = [pc EXCEPT ![p] = l] \/ pc' = [pc EXCEPT ![p] = "close"]
  BY DEF LeaveLoop, Poll, SpuriousPoll, PollError, SkipRead, SkipWrite, WriteError, ParseStops, Goto
<1>3. pc[p] \in Running /\ "close" \in Running
  BY <1>1 DEF Running
<1> QED BY <1>1, <1>2, <1>3, QuietStep

LEMMA SessionInit == Init => SessionInv
<1>1. SUFFICES ASSUME Init PROVE SessionInv
  OBVIOUS
<1>2. /\ net = [e \in Endpoint |-> << >>] /\ sock = [e \in Endpoint |-> "none"] /\ rst = [e \in Endpoint |-> FALSE]
      /\ pc = [p \in Process |-> IF p = Server THEN "accept" ELSE "start"]
      /\ conn = [p \in Process |-> "DISCONNECTED"] /\ tr = [p \in Process |-> Uninitialised]
      /\ cur = NoClient /\ backlog = << >>
  BY <1>1 DEF Init, EventLoopInit, TcpInit, ConnectionInit
<1>3. Sound(Uninitialised) /\ Uninitialised.write_len = 0
  BY BufferSizeAssumption, NoByteIsCell DEF Sound, Uninitialised, Transport
<1>4. LoopInv
  <2>1. pc[Server] = "accept" /\ "DISCONNECTED" \in State
    BY <1>2, ProcessFacts DEF State
  <2>2. tr = [p \in Process |-> tr[p]] /\ \A p \in Process : Sound(tr[p])
    BY <1>2, <1>3
  <2> QED BY <1>2, <2>1, <2>2 DEF LoopInv, Running
<1>5. NetInv
  <2>1. \A c \in Clients : pc[c] = "start" /\ tr[c].write_len = 0
    BY <1>2, <1>3, ProcessFacts
  <2>2. net \in [Endpoint -> Seq(Cell)] /\ sock \in [Endpoint -> {"none", "open", "closed"}]
        /\ rst \in [Endpoint -> BOOLEAN]
    BY <1>2
  <2>3. \A c \in Clients : /\ sock[There(c)] = "none" /\ sock[Here(c)] = "none"
                           /\ net[There(c)] = << >> /\ net[Here(c)] = << >>
    BY <1>2, EndpointFacts
  <2>4. \A e \in Endpoint : ~rst[e]
    BY <1>2
  <2> QED BY <2>1, <2>2, <2>3, <2>4 DEF NetInv, Running
<1>6. BacklogInv
  <2>1. backlog \in Seq(Clients) /\ Len(backlog) = 0 /\ pc[Server] # "killed"
    BY <1>2, ProcessFacts
  <2> QED BY <2>1 DEF BacklogInv
<1>7. ConversationInv
  <2>1. \A c \in Clients : sock[There(c)] = "none" /\ sock[Here(c)] = "none"
    BY <1>2, EndpointFacts
  <2> QED BY <2>1 DEF ConversationInv, Conversation
<1> QED BY <1>4, <1>5, <1>6, <1>7 DEF SessionInv

LEMMA SessionNext ==
  ASSUME MessagesFit, SessionInv, [Next]_vars
  PROVE  SessionInv'
<1>1. {"poll", "read", "write"} \subseteq Running
  BY DEF Running
<1>2. ASSUME NEW c \in Clients, ClientStep(c) \/ ClientFault(c) PROVE SessionInv'
  <2>1. c \in Process
    BY ProcessFacts
  <2>2. CASE ClientConnect(c) \/ ClientRefused(c)
    BY <2>2, ConnectKeeps, RefusedKeeps
  <2>3. CASE LeaveLoop(c) \/ Poll(c, "write") \/ SkipWrite(c, "read") \/ WriteError(c, "read")
             \/ SkipRead(c, "poll") \/ ParseStops(c, "poll") \/ SpuriousPoll(c, "write") \/ PollError(c)
    BY <1>1, <2>1, <2>3, QuietKeeps
  <2>4. CASE WriteData(c, "read")
    <3>1. pc[c] \in Running
      BY <2>4 DEF WriteData, Running
    <3> QED BY <1>1, <2>1, <2>4, <3>1, WriteDataKeeps
  <2>5. CASE ReadData(c) \/ ReadNoData(c)
    <3>1. pc[c] \in Running
      BY <2>5 DEF ReadData, ReadNoData, Running
    <3> QED BY <2>1, <2>5, <3>1, ReadDataKeeps, ReadNoDataKeeps
  <2>6. CASE ClientHandshaking(c) \/ ClientAuthenticating(c) \/ ClientReady(c)
    BY <2>6, ClientParses
  <2>7. CASE WriteSigpipe(c) \/ ClientExit(c) \/ ClientCrash(c)
    BY <2>7, ClosingKeeps
  <2> QED BY <1>2, <2>2, <2>3, <2>4, <2>5, <2>6, <2>7 DEF ClientStep, ClientFault
<1>3. ASSUME ServerStep \/ ServerFault PROVE SessionInv'
  <2>1. Server \in Process
    BY ProcessFacts
  <2>2. CASE Accept
    BY <2>2, AcceptKeeps
  <2>3. CASE LeaveLoop(Server) \/ Poll(Server, "read") \/ SkipRead(Server, "write") \/ ParseStops(Server, "write")
             \/ SkipWrite(Server, "poll") \/ WriteError(Server, "poll") \/ SpuriousPoll(Server, "read")
             \/ PollError(Server)
    BY <1>1, <2>1, <2>3, QuietKeeps
  <2>4. CASE WriteData(Server, "poll")
    <3>1. pc[Server] \in Running
      BY <2>4 DEF WriteData, Running
    <3> QED BY <1>1, <2>1, <2>4, <3>1, WriteDataKeeps
  <2>5. CASE ReadData(Server) \/ ReadNoData(Server)
    <3>1. pc[Server] \in Running
      BY <2>5 DEF ReadData, ReadNoData, Running
    <3> QED BY <2>1, <2>5, <3>1, ReadDataKeeps, ReadNoDataKeeps
  <2>6. CASE ServerHandshaking \/ ServerAuthenticating \/ ServerReady
    BY <2>6, ServerParses
  <2>7. CASE WriteSigpipe(Server) \/ CloseClient
    BY <2>7, ClosingKeeps
  <2> QED BY <1>3, <2>2, <2>3, <2>4, <2>5, <2>6, <2>7 DEF ServerStep, ServerFault
<1>4. CASE UNCHANGED vars
  BY <1>4 DEF vars, tcpVars, loopVars, SessionInv, LoopInv, NetInv, BacklogInv, ConversationInv
<1> QED BY <1>2, <1>3, <1>4 DEF Next

LEMMA SessionInvHolds ==
  ASSUME MessagesFit
  PROVE  Spec => []SessionInv
<1>1. Init => SessionInv
  BY SessionInit
<1>2. SessionInv /\ [Next]_vars => SessionInv'
  BY SessionNext
<1> QED BY <1>1, <1>2, PTL DEF Spec
-----------------------------------------------------------------------------
(* A pipe that holds a whole message is that message; one that holds       *)
(* nothing is empty.                                                       *)
LEMMA WholePipe ==
  ASSUME NEW c \in Clients, NEW m \in Letter(c), NEW r \in Seq(Cell), NEW n \in Seq(Cell), NEW w \in Seq(Cell),
         Whole(m, r, n, w)
  PROVE  WholeMessages(c, r \o n \o w) /\ Messages(r \o n \o w) = 1
<1> DEFINE s == r \o n \o w
           L == Cells[m.kind]
<1>1. L \in Nat /\ L >= 1 /\ \A i \in 1 .. L : <<m, i>> # NoByte
  BY BytesFacts
<1> HIDE DEF L
<1>2. /\ Holds(r, m, 0) /\ Holds(n, m, Len(r)) /\ Holds(w, m, Len(r) + Len(n))
      /\ Len(r) + Len(n) + Len(w) = L
  BY DEF Whole, Part, L
<1>3. Len(r) \in Nat /\ Len(n) \in Nat /\ Len(w) \in Nat
  OBVIOUS
<1>4. /\ r \o n \in Seq(Cell) /\ Len(r \o n) = Len(r) + Len(n)
      /\ \A i \in 1 .. Len(r) : (r \o n)[i] = r[i]
      /\ \A i \in (Len(r) + 1) .. (Len(r) + Len(n)) : (r \o n)[i] = n[i - Len(r)]
  OBVIOUS
<1>5. \A i \in 1 .. Len(r \o n) : (r \o n)[i] = <<m, i>>
  <2>1. SUFFICES ASSUME NEW i \in 1 .. Len(r \o n) PROVE (r \o n)[i] = <<m, i>>
    OBVIOUS
  <2>2. CASE i =< Len(r)
    <3>1. i \in 1 .. Len(r) /\ 0 + i = i
      BY <1>3, <1>4, <2>2
    <3> QED BY <1>2, <1>4, <3>1 DEF Holds
  <2>3. CASE ~(i =< Len(r))
    <3>1. /\ i \in (Len(r) + 1) .. (Len(r) + Len(n)) /\ i - Len(r) \in 1 .. Len(n)
          /\ Len(r) + (i - Len(r)) = i
      BY <1>3, <1>4, <2>3
    <3> QED BY <1>2, <1>4, <3>1 DEF Holds
  <2> QED BY <2>2, <2>3
<1> DEFINE q == r \o n
<1>6. q \in Seq(Cell) /\ Len(q) \in Nat /\ Len(q) = Len(r) + Len(n) /\ s = q \o w
  BY <1>3, <1>4
<1>7. \A i \in 1 .. Len(q) : q[i] = <<m, i>>
  BY <1>5
<1> HIDE DEF q, s
<1>8. /\ Len(s) = Len(q) + Len(w) /\ \A i \in 1 .. Len(q) : s[i] = q[i]
      /\ \A i \in (Len(q) + 1) .. (Len(q) + Len(w)) : s[i] = w[i - Len(q)]
  <2>1. q \in Seq(Cell)
    BY <1>6
  <2>2. /\ Len(q \o w) = Len(q) + Len(w) /\ \A i \in 1 .. Len(q) : (q \o w)[i] = q[i]
        /\ \A i \in (Len(q) + 1) .. (Len(q) + Len(w)) : (q \o w)[i] = w[i - Len(q)]
    BY <2>1
  <2>3. s = q \o w
    BY <1>6
  <2> QED BY <2>2, <2>3, Zenon
<1>9. Len(s) = L
  BY <1>2, <1>3, <1>6, <1>8
<1>10. \A i \in 1 .. L : s[i] = <<m, i>>
  <2>1. SUFFICES ASSUME NEW i \in 1 .. L PROVE s[i] = <<m, i>>
    OBVIOUS
  <2>2. CASE i =< Len(q)
    <3>1. i \in 1 .. Len(q)
      BY <1>1, <1>6, <2>2
    <3> QED BY <1>7, <1>8, <3>1
  <2>3. CASE ~(i =< Len(q))
    <3>1. /\ i \in (Len(q) + 1) .. (Len(q) + Len(w)) /\ i - Len(q) \in 1 .. Len(w)
          /\ (Len(r) + Len(n)) + (i - Len(q)) = i
      BY <1>1, <1>2, <1>3, <1>6, <2>3
    <3>2. w[i - Len(q)] = <<m, (Len(r) + Len(n)) + (i - Len(q))>>
      BY <1>2, <3>1 DEF Holds
    <3> QED BY <1>8, <3>1, <3>2
  <2> QED BY <2>2, <2>3
<1>11. \A i \in 1 .. L : s[i] # NoByte /\ s[i][1] = m /\ s[i][2] = i
  <2>1. SUFFICES ASSUME NEW i \in 1 .. L PROVE s[i] # NoByte /\ s[i][1] = m /\ s[i][2] = i
    OBVIOUS
  <2>2. s[i] = <<m, i>> /\ <<m, i>> # NoByte
    BY <1>1, <1>10
  <2> QED BY <2>2
<1>12. m.owner = c
  BY LetterFacts
<1>13. WholeMessages(c, s)
  <2>1. \A i \in 1 .. Len(s) : s[i] # NoByte /\ s[i][1].owner = c
    BY <1>9, <1>11, <1>12
  <2>2. s[1][2] = 1 /\ s[Len(s)][2] = Cells[s[Len(s)][1].kind]
    <3>1. 1 \in 1 .. L /\ L \in 1 .. L
      BY <1>1 DEF L
    <3>2. s[L][2] = L /\ s[L][1] = m /\ s[1][2] = 1
      BY <1>11, <3>1
    <3> QED BY <1>9, <3>2 DEF L
  <2>3. ASSUME NEW i \in 1 .. (Len(s) - 1)
        PROVE  IF s[i][2] = Cells[s[i][1].kind] THEN s[i + 1][2] = 1
               ELSE s[i + 1] = <<s[i][1], s[i][2] + 1>>
    <3>1. i \in 1 .. L /\ i + 1 \in 1 .. L /\ i # L
      BY <1>1, <1>9 DEF L
    <3>2. s[i][1] = m /\ s[i][2] = i /\ s[i + 1] = <<m, i + 1>>
      BY <1>10, <1>11, <3>1
    <3> QED BY <3>1, <3>2 DEF L
  <2> QED BY <2>1, <2>2, <2>3 DEF WholeMessages
<1>14. Messages(s) = 1
  <2> DEFINE B == {i \in 1 .. Len(s) : s[i] # NoByte /\ s[i][2] = 1}
  <2>1. B = {1}
    <3>1. 1 \in 1 .. L
      BY <1>1 DEF L
    <3> QED BY <1>9, <1>11, <3>1
  <2>2. Cardinality(B) = 1
    BY <2>1, FS_Singleton
  <2> QED BY <2>2 DEF Messages
<1> QED BY <1>13, <1>14 DEF s

LEMMA EmptyPipe ==
  ASSUME NEW c, NEW r \in Seq(Cell), NEW n \in Seq(Cell), NEW w \in Seq(Cell), Nothing(r, n, w)
  PROVE  WholeMessages(c, r \o n \o w) /\ Messages(r \o n \o w) = 0
<1> DEFINE s == r \o n \o w
<1>1. Len(r) = 0 /\ Len(n) = 0 /\ Len(w) = 0
  BY DEF Nothing
<1>2. s \in Seq(Cell) /\ Len(s) = 0
  BY <1>1
<1> HIDE DEF s
<1>3. s = << >>
  BY <1>2, EmptySeq
<1>4. WholeMessages(c, s)
  BY <1>2, <1>3 DEF WholeMessages
<1>5. Messages(s) = 0
  <2> DEFINE B == {i \in 1 .. Len(s) : s[i] # NoByte /\ s[i][2] = 1}
  <2>1. B = {}
    BY <1>2
  <2>2. Cardinality(B) = 0
    BY <2>1, FS_EmptySet
  <2> QED BY <2>2 DEF Messages
<1> QED BY <1>4, <1>5 DEF s

LEMMA Conversing ==
  ASSUME SessionInv, NEW c \in Clients, Talking(c)
  PROVE  /\ Exchange(c, conn[c], conn[Server], tr[c], tr[Server], net[There(c)], net[Here(c)])
         /\ ReadWindow(tr[c]) \in Seq(Cell) /\ WriteWindow(tr[c]) \in Seq(Cell)
         /\ ReadWindow(tr[Server]) \in Seq(Cell) /\ WriteWindow(tr[Server]) \in Seq(Cell)
         /\ net[There(c)] \in Seq(Cell) /\ net[Here(c)] \in Seq(Cell)
<1>1. cur = c /\ sock[There(c)] = "open" /\ sock[Here(c)] = "open"
  BY DEF Talking, There, Here
<1>2. Exchange(c, conn[c], conn[Server], tr[c], tr[Server], net[There(c)], net[Here(c)])
  BY <1>1 DEF SessionInv, ConversationInv, Conversation
<1>3. Sound(tr[c]) /\ Sound(tr[Server]) /\ net[There(c)] \in Seq(Cell) /\ net[Here(c)] \in Seq(Cell)
  BY TypesOf, ProcessFacts, EndpointFacts
<1> QED BY <1>2, <1>3, SoundFacts

LEMMA PipesOfConversation ==
  ASSUME SessionInv, NEW c \in Clients, Talking(c)
  PROVE  /\ WholeMessages(c, ToServer(c)) /\ WholeMessages(c, ToClient(c))
         /\ Messages(ToServer(c)) + Messages(ToClient(c)) =< 1
<1>1. /\ Exchange(c, conn[c], conn[Server], tr[c], tr[Server], net[There(c)], net[Here(c)])
      /\ ReadWindow(tr[c]) \in Seq(Cell) /\ WriteWindow(tr[c]) \in Seq(Cell)
      /\ ReadWindow(tr[Server]) \in Seq(Cell) /\ WriteWindow(tr[Server]) \in Seq(Cell)
      /\ net[There(c)] \in Seq(Cell) /\ net[Here(c)] \in Seq(Cell)
  BY Conversing
<1> DEFINE ToS(m) == Whole(m, ReadWindow(tr[Server]), net[Here(c)], WriteWindow(tr[c]))
           ToC(m) == Whole(m, ReadWindow(tr[c]), net[There(c)], WriteWindow(tr[Server]))
           NoneToS == Nothing(ReadWindow(tr[Server]), net[Here(c)], WriteWindow(tr[c]))
           NoneToC == Nothing(ReadWindow(tr[c]), net[There(c)], WriteWindow(tr[Server]))
<1>2. ToServer(c) = ReadWindow(tr[Server]) \o net[Here(c)] \o WriteWindow(tr[c])
  BY DEF ToServer, Here
<1>3. ToClient(c) = ReadWindow(tr[c]) \o net[There(c)] \o WriteWindow(tr[Server])
  BY DEF ToClient, There
<1>4. ASSUME NEW m \in Letter(c), ToS(m) PROVE WholeMessages(c, ToServer(c)) /\ Messages(ToServer(c)) = 1
  BY <1>1, <1>2, <1>4, WholePipe
<1>5. ASSUME NEW m \in Letter(c), ToC(m) PROVE WholeMessages(c, ToClient(c)) /\ Messages(ToClient(c)) = 1
  BY <1>1, <1>3, <1>5, WholePipe
<1>6. ASSUME NoneToS PROVE WholeMessages(c, ToServer(c)) /\ Messages(ToServer(c)) = 0
  <2>1. /\ WholeMessages(c, ReadWindow(tr[Server]) \o net[Here(c)] \o WriteWindow(tr[c]))
        /\ Messages(ReadWindow(tr[Server]) \o net[Here(c)] \o WriteWindow(tr[c])) = 0
    BY <1>1, <1>6, EmptyPipe
  <2> QED BY <1>2, <2>1
<1>7. ASSUME NoneToC PROVE WholeMessages(c, ToClient(c)) /\ Messages(ToClient(c)) = 0
  BY <1>1, <1>3, <1>7, EmptyPipe
<1>8. \/ (\E m \in Letter(c) : ToS(m)) /\ NoneToC
      \/ (\E m \in Letter(c) : ToC(m)) /\ NoneToS
      \/ NoneToS /\ NoneToC
  BY <1>1 DEF Exchange
<1> HIDE DEF ToS, ToC, NoneToS, NoneToC
<1> QED BY <1>4, <1>5, <1>6, <1>7, <1>8

(* However send() and recv() cut what the two programs say, and whatever   *)
(* an earlier connection left in the server's buffers                      *)
(* (server_main.c:64-65), each direction of a conversation carries whole   *)
(* messages of this conversation only.                                     *)
THEOREM PipesFramed ==
  ASSUME MessagesFit
  PROVE  Spec => []PipesWellFramed
<1>1. SessionInv => PipesWellFramed
  BY PipesOfConversation DEF PipesWellFramed
<1> QED BY <1>1, SessionInvHolds, PTL

(* The loops of client_main.c:88-196 and server_main.c:90-207 send one     *)
(* message for each they receive: at most one is ever between them.        *)
THEOREM TakeTurns ==
  ASSUME MessagesFit
  PROVE  Spec => []LockStep
<1>1. SessionInv => LockStep
  BY PipesOfConversation DEF LockStep
<1> QED BY <1>1, SessionInvHolds, PTL

(* The state machine of a client is never ahead of what the server's has   *)
(* granted it, and the server closes only for a client that asked for it   *)
(* (the pw_connection_transition calls of client_main.c and server_main.c).*)
THEOREM StatesAgree ==
  ASSUME MessagesFit
  PROVE  Spec => []ClientNeverAhead
<1>1. ASSUME SessionInv, NEW c \in Clients, Talking(c), LoopRuns(Server)
      PROVE  /\ conn[c] = "AUTHENTICATING" => conn[Server] \in {"AUTHENTICATING", "READY"}
             /\ conn[c] = "READY"          => conn[Server] = "READY"
             /\ conn[Server] = "CLOSING"   => conn[c] \in {"CLOSING", "CLOSED"}
  <2>1. \/ \E m \in Letter(c) : <<conn[c], conn[Server], m>> \in Asked(c)
        \/ \E m \in Letter(c) : <<conn[c], conn[Server], m>> \in Answered(c)
        \/ conn[c] = "AUTHENTICATING" /\ conn[Server] = "AUTHENTICATING"
    BY <1>1, Conversing DEF Exchange
  <2> QED BY <2>1 DEF Asked, Answered
<1>2. SessionInv => ClientNeverAhead
  BY <1>1 DEF ClientNeverAhead
<1> QED BY <1>2, SessionInvHolds, PTL
-----------------------------------------------------------------------------
(* A step in which process q stores T as its transport. *)
LEMMA QueuedWhenDrained ==
  ASSUME SessionInv, NEW q \in Process, NEW T, tr' = [tr EXCEPT ![q] = T],
         T.write_len > tr[q].write_len => tr[q].write_len = 0
  PROVE  \A p \in Process : tr'[p].write_len > tr[p].write_len => tr[p].write_len = 0 /\ tr[p].write_pos = 0
<1>1. SUFFICES ASSUME NEW p \in Process, tr'[p].write_len > tr[p].write_len
               PROVE  tr[p].write_len = 0 /\ tr[p].write_pos = 0
  OBVIOUS
<1>2. Sound(tr[p]) /\ tr'[p] = IF p = q THEN T ELSE tr[p]
  BY TypesOf
<1>3. tr[p].write_len \in Nat
  BY <1>2, SoundFacts
<1>4. p = q
  BY <1>1, <1>2, <1>3
<1>5. tr[p].write_len = 0
  BY <1>1, <1>2, <1>4
<1> QED BY <1>2, <1>5 DEF Sound

LEMMA MovesQueueNothing ==
  ASSUME SessionInv, NEW q \in Process, pc[q] \in Running,
         ReadData(q) \/ ReadNoData(q) \/ WriteData(q, "read") \/ WriteData(q, "poll")
  PROVE  \A p \in Process : tr'[p].write_len > tr[p].write_len => tr[p].write_len = 0 /\ tr[p].write_pos = 0
<1>1. Sound(tr[q]) /\ tr[q].write_len \in Nat
  BY TypesOf, SoundFacts
<1>2. At(q) \in Endpoint
  BY Serves, Works, ProcessFacts
<1>3. CASE ReadData(q)
  <2> DEFINE n == net[At(q)]
  <2>1. PICK k \in 1 .. Len(n) : /\ k =< ReadSpace(tr[q])
                                 /\ tr' = [tr EXCEPT ![q] = TransportRead(tr[q], SubSeq(n, 1, k))]
    BY <1>3 DEF ReadData
  <2>2. n \in Seq(Cell)
    BY <1>2, TypesOf
  <2> HIDE DEF n
  <2>3. Received(tr[q], n, TransportRead(tr[q], SubSeq(n, 1, k)), SubSeq(n, k + 1, Len(n)))
    BY <1>1, <2>1, <2>2, ReadMoves
  <2> DEFINE T == TransportRead(tr[q], SubSeq(n, 1, k))
  <2>4. T.write_len = tr[q].write_len /\ tr' = [tr EXCEPT ![q] = T]
    BY <2>1, <2>3 DEF Received
  <2> HIDE DEF T
  <2>5. ~(T.write_len > tr[q].write_len)
    BY <1>1, <2>4
  <2> QED BY <2>4, <2>5, QueuedWhenDrained
<1>4. CASE ReadNoData(q)
  <2> DEFINE T == TransportRead(tr[q], << >>)
  <2>1. tr' = tr \/ tr' = [tr EXCEPT ![q] = T]
    BY <1>4 DEF ReadNoData
  <2>2. T.write_len = tr[q].write_len
    BY <1>1, EmptyRead
  <2>3. tr' = tr => tr' = [tr EXCEPT ![q] = tr[q]]
    BY TypesOf
  <2> HIDE DEF T
  <2> QED BY <1>1, <2>1, <2>2, <2>3, QueuedWhenDrained
<1>5. CASE WriteData(q, "read") \/ WriteData(q, "poll")
  <2>1. PICK k \in 1 .. tr[q].write_len : tr' = [tr EXCEPT ![q] = TransportWrite(tr[q], k)]
    BY <1>5 DEF WriteData
  <2> DEFINE T == TransportWrite(tr[q], k)
  <2>2. Sent(tr[q], << >>, T, << >> \o SubSeq(WriteWindow(tr[q]), 1, k))
    <3>1. << >> \in Seq(Cell)
      OBVIOUS
    <3> QED BY <1>1, <2>1, <3>1, WriteMoves
  <2>3. T.write_len \in 0 .. tr[q].write_len /\ tr' = [tr EXCEPT ![q] = T]
    BY <2>1, <2>2 DEF Sent
  <2> HIDE DEF T
  <2>4. ~(T.write_len > tr[q].write_len)
    BY <1>1, <2>3
  <2> QED BY <2>3, <2>4, QueuedWhenDrained
<1> QED BY <1>3, <1>4, <1>5

(* What makes it safe that a reply is queued at write_buffer + write_len   *)
(* and not behind write_pos (server_main.c:117, client_main.c:116): a      *)
(* message is queued only into a write buffer with nothing unsent.         *)
THEOREM RepliesQueued ==
  ASSUME MessagesFit
  PROVE  Spec => RepliesQueuedWhenDrained
<1> DEFINE A == \A p \in Process :
                  tr'[p].write_len > tr[p].write_len => tr[p].write_len = 0 /\ tr[p].write_pos = 0
<1>1. ASSUME SessionInv, Next PROVE A
  <2>1. CASE UNCHANGED tr
    <3>1. tr' = [tr EXCEPT ![Server] = tr[Server]]
      BY <1>1, <2>1, TypesOf
    <3>2. ~(tr[Server].write_len > tr[Server].write_len)
      BY <1>1, TypesOf, ProcessFacts, SoundFacts
    <3> QED BY <1>1, <3>1, <3>2, ProcessFacts, QueuedWhenDrained
  <2>2. CASE Accept
    <3> DEFINE T == TransportInit(tr[Server])
    <3>1. tr' = [tr EXCEPT ![Server] = T]
      BY <2>2 DEF Accept
    <3>2. T.write_len = 0 /\ tr[Server].write_len \in Nat
      BY <1>1, TypesOf, ProcessFacts, InitSound, SoundFacts
    <3> HIDE DEF T
    <3>3. ~(T.write_len > tr[Server].write_len)
      BY <3>2
    <3> QED BY <1>1, <3>1, <3>3, ProcessFacts, QueuedWhenDrained
  <2>3. ASSUME NEW c \in Clients, ClientConnect(c) PROVE A
    <3> DEFINE T == Reply(TransportInit(tr[c]), ClientHello(c))
    <3>1. tr' = [tr EXCEPT ![c] = T] /\ pc[c] = "start"
      BY <2>3 DEF ClientConnect
    <3>2. tr[c].write_len = 0
      BY <1>1, <3>1 DEF SessionInv, NetInv
    <3> HIDE DEF T
    <3> QED BY <1>1, <3>1, <3>2, ProcessFacts, QueuedWhenDrained
  <2>4. ASSUME NEW q \in Process, ReadData(q) \/ ReadNoData(q) \/ WriteData(q, "read") \/ WriteData(q, "poll")
        PROVE  A
    <3>1. pc[q] \in Running
      BY <2>4 DEF ReadData, ReadNoData, WriteData, Running
    <3> QED BY <1>1, <2>4, <3>1, MovesQueueNothing
  <2>5. ASSUME NEW q \in Process, NEW s, NEW new, NEW T, ParseCase(q, s, new, T) PROVE A
    <3>1. pc[q] \in Running /\ Complete(q) /\ tr' = [tr EXCEPT ![q] = T]
      BY <2>5 DEF ParseCase, Running
    <3>2. tr[q].write_len = 0
      BY <1>1, <3>1, ProcessFacts, ClientHears, ServerHears
    <3> QED BY <1>1, <3>1, <3>2, QueuedWhenDrained
  <2>6. ASSUME NEW c \in Clients, ClientStep(c) \/ ClientFault(c) PROVE A
    <3>1. c \in Process
      BY ProcessFacts
    <3>2. CASE ClientHandshaking(c) \/ ClientAuthenticating(c) \/ ClientReady(c)
      BY <2>5, <3>1, <3>2 DEF ClientHandshaking, ClientAuthenticating, ClientReady
    <3>3. CASE \/ ClientRefused(c) \/ LeaveLoop(c) \/ Poll(c, "write") \/ SkipWrite(c, "read")
               \/ WriteError(c, "read") \/ WriteSigpipe(c) \/ SkipRead(c, "poll") \/ ParseStops(c, "poll")
               \/ ClientExit(c) \/ ClientFault(c)
      BY <2>1, <3>3 DEF ClientRefused, LeaveLoop, Poll, SkipWrite, WriteError, WriteSigpipe, SkipRead,
                        ParseStops, ClientExit, ClientFault, SpuriousPoll, PollError, ClientCrash
    <3> QED BY <2>3, <2>4, <2>6, <3>1, <3>2, <3>3 DEF ClientStep
  <2>7. ASSUME ServerStep \/ ServerFault PROVE A
    <3>1. Server \in Process
      BY ProcessFacts
    <3>2. CASE ServerHandshaking \/ ServerAuthenticating \/ ServerReady
      BY <2>5, <3>1, <3>2 DEF ServerHandshaking, ServerAuthenticating, ServerReady
    <3>3. CASE \/ LeaveLoop(Server) \/ Poll(Server, "read") \/ SkipRead(Server, "write")
               \/ ParseStops(Server, "write") \/ SkipWrite(Server, "poll") \/ WriteError(Server, "poll")
               \/ WriteSigpipe(Server) \/ CloseClient \/ ServerFault
      BY <2>1, <3>3 DEF LeaveLoop, Poll, SkipWrite, WriteError, WriteSigpipe, SkipRead,
                        ParseStops, CloseClient, ServerFault, SpuriousPoll, PollError
    <3> QED BY <2>2, <2>4, <2>7, <3>1, <3>2, <3>3 DEF ServerStep
  <2> QED BY <1>1, <2>6, <2>7 DEF Next
<1>2. SessionInv /\ [Next]_vars => [A]_vars
  BY <1>1
<1>3. Spec => [][A]_vars
  BY <1>2, SessionInvHolds, PTL DEF Spec
<1> QED BY <1>3 DEF RepliesQueuedWhenDrained
-----------------------------------------------------------------------------
(* A step of process p leaves alone what the others have. *)
OnlyBy(p) ==
  /\ \A q \in Process : q # p => /\ pc'[q] = pc[q] /\ conn'[q] = conn[q] /\ tr'[q] = tr[q]
                                 /\ revents'[q] = revents[q]
  /\ OrderTypes' /\ (faults' = 0 => faults = 0)

(* The steps the two programs share, but for close(). *)
LoopStep(p, afterPoll, afterRead, afterWrite, afterParse) ==
  \/ LeaveLoop(p) \/ Poll(p, afterPoll) \/ SpuriousPoll(p, afterPoll) \/ PollError(p)
  \/ SkipRead(p, afterRead) \/ ReadData(p) \/ ReadNoData(p) \/ ParseStops(p, afterParse)
  \/ SkipWrite(p, afterWrite) \/ WriteData(p, afterWrite) \/ WriteError(p, afterWrite)

LEMMA LoopStepOnly ==
  ASSUME SessionInv, OrderInv, NEW p \in Process, NEW a, NEW b, NEW x, NEW y, LoopStep(p, a, b, x, y)
  PROVE  OnlyBy(p) /\ UNCHANGED <<sock, cur>>
<1>1. /\ pc \in [Process -> Running \cup {"accept", "start", "exit", "killed"}] /\ conn \in [Process -> State]
      /\ tr = [q \in Process |-> tr[q]] /\ faults \in Nat /\ errnoAgain \in [Process -> BOOLEAN]
      /\ revents \in [Process -> SUBSET {"POLLIN", "POLLOUT"}]
  BY TypesOf DEF OrderInv, OrderTypes
<1>2. Wanted(p) \subseteq {"POLLIN", "POLLOUT"}
  BY DEF Wanted
<1>3. CASE LeaveLoop(p) \/ SkipRead(p, b) \/ ParseStops(p, y) \/ SkipWrite(p, x)
  BY <1>1, <1>3 DEF LeaveLoop, SkipRead, ParseStops, SkipWrite, Goto, tcpVars, OnlyBy, OrderTypes
<1>4. CASE Poll(p, a)
  BY <1>1, <1>2, <1>4 DEF Poll, Goto, tcpVars, OnlyBy, OrderTypes
<1>5. CASE SpuriousPoll(p, a)
  BY <1>1, <1>2, <1>5 DEF SpuriousPoll, Fault, Goto, tcpVars, OnlyBy, OrderTypes
<1>6. CASE PollError(p) \/ WriteError(p, x)
  <2>1. errnoAgain' = [errnoAgain EXCEPT ![p] = FALSE] /\ UNCHANGED <<conn, tr, revents, sock, cur>>
    BY <1>6 DEF PollError, WriteError, tcpVars
  <2>2. errnoAgain' \in [Process -> BOOLEAN]
    BY <1>1, <2>1
  <2>3. faults' \in Nat /\ (faults' = 0 => faults = 0)
    BY <1>1, <1>6 DEF PollError, WriteError, Fault
  <2>4. \A q \in Process : q # p => pc'[q] = pc[q]
    BY <1>1, <1>6 DEF PollError, WriteError, Goto
  <2> QED BY <1>1, <2>1, <2>2, <2>3, <2>4 DEF OnlyBy, OrderTypes
<1>7. CASE ReadData(p)
  BY <1>1, <1>7 DEF ReadData, TcpRecv, Goto, OnlyBy, OrderTypes
<1>8. CASE ReadNoData(p)
  <2>1. rst[At(p)] \in BOOLEAN
    <3>1. pc[p] \in Running
      BY <1>8 DEF ReadNoData, Running
    <3>2. At(p) \in Endpoint
      BY <3>1, Serves, Works, ProcessFacts
    <3> QED BY <3>2, TypesOf
  <2>2. errnoAgain' \in [Process -> BOOLEAN]
    BY <1>1, <1>8, <2>1 DEF ReadNoData
  <2> QED BY <1>1, <1>8, <2>2 DEF ReadNoData, Goto, tcpVars, OnlyBy, OrderTypes
<1>9. CASE WriteData(p, x)
  BY <1>1, <1>9 DEF WriteData, TcpSend, Goto, OnlyBy, OrderTypes
<1> QED BY <1>3, <1>4, <1>5, <1>6, <1>7, <1>8, <1>9 DEF LoopStep

LEMMA ParseCaseOnly ==
  ASSUME SessionInv, OrderInv, NEW p \in Process, NEW s, NEW new, NEW T, ParseCase(p, s, new, T)
  PROVE  OnlyBy(p) /\ UNCHANGED <<pc, sock, cur, revents>>
<1>1. /\ conn \in [Process -> State] /\ tr = [q \in Process |-> tr[q]]
  BY TypesOf
<1> QED BY <1>1 DEF ParseCase, tcpVars, OnlyBy, OrderTypes, OrderInv

LEMMA ClientOnly ==
  ASSUME SessionInv, OrderInv, NEW c \in Clients, ClientStep(c) \/ ClientFault(c)
  PROVE  /\ OnlyBy(c) /\ cur' = cur
         /\ \A d \in Clients : d # c => sock'[There(d)] = sock[There(d)] /\ sock'[Here(d)] = sock[Here(d)]
<1>1. /\ pc \in [Process -> Running \cup {"accept", "start", "exit", "killed"}] /\ conn \in [Process -> State]
      /\ tr = [q \in Process |-> tr[q]] /\ faults \in Nat /\ errnoAgain \in [Process -> BOOLEAN]
      /\ revents \in [Process -> SUBSET {"POLLIN", "POLLOUT"}] /\ c \in Process /\ c # Server
  BY TypesOf, ProcessFacts DEF OrderInv, OrderTypes
<1>2. CASE LoopStep(c, "write", "poll", "read", "poll")
  BY <1>1, <1>2, LoopStepOnly
<1>3. CASE ClientHandshaking(c) \/ ClientAuthenticating(c) \/ ClientReady(c)
  <2>1. \E s, new, T : ParseCase(c, s, new, T)
    BY <1>3 DEF ClientHandshaking, ClientAuthenticating, ClientReady
  <2> QED BY <1>1, <2>1, ParseCaseOnly
<1>4. CASE ClientRefused(c)
  BY <1>1, <1>4 DEF ClientRefused, Goto, tcpVars, OnlyBy, OrderTypes
<1>5. CASE ClientConnect(c)
  <2>1. OnlyBy(c) /\ cur' = cur
    BY <1>1, <1>5 DEF ClientConnect, Goto, OnlyBy, OrderTypes
  <2>2. sock' = [e \in Endpoint |-> IF e[1] = c THEN "open" ELSE sock[e]]
    BY <1>5 DEF ClientConnect, TcpConnect
  <2> QED BY <2>1, <2>2, EndpointFacts DEF There, Here
<1>6. CASE ClientExit(c) \/ ClientCrash(c) \/ WriteSigpipe(c)
  <2>1. OnlyBy(c) /\ cur' = cur
    BY <1>1, <1>6 DEF ClientExit, ClientCrash, WriteSigpipe, Fault, Goto, OnlyBy, OrderTypes
  <2>2. \E es, abort : TcpCloseAll(es, abort) /\ es \subseteq {There(c)}
    BY <1>1, <1>6, EndpointFacts DEF ClientExit, ClientCrash, WriteSigpipe, TcpClose
  <2>3. \A d \in Clients : d # c => sock'[There(d)] = sock[There(d)] /\ sock'[Here(d)] = sock[Here(d)]
    BY <2>2, EndpointFacts DEF TcpCloseAll
  <2> QED BY <2>1, <2>3
<1> QED BY <1>2, <1>3, <1>4, <1>5, <1>6 DEF ClientStep, ClientFault, LoopStep

LEMMA ServerOnly ==
  ASSUME SessionInv, OrderInv, ServerStep \/ ServerFault
  PROVE  /\ OnlyBy(Server) /\ pc[Server] # "killed"
         /\ \A d \in Clients : sock'[There(d)] = sock[There(d)] /\ (sock'[Here(d)] = "open" => sock[Here(d)] = "open")
<1>1. /\ pc \in [Process -> Running \cup {"accept", "start", "exit", "killed"}] /\ conn \in [Process -> State]
      /\ tr = [q \in Process |-> tr[q]] /\ faults \in Nat /\ errnoAgain \in [Process -> BOOLEAN]
      /\ revents \in [Process -> SUBSET {"POLLIN", "POLLOUT"}] /\ Server \in Process
  BY TypesOf, ProcessFacts DEF OrderInv, OrderTypes
<1>2. CASE LoopStep(Server, "read", "write", "poll", "write")
  <2>1. pc[Server] # "killed"
    BY <1>2 DEF LoopStep, LeaveLoop, Poll, SpuriousPoll, PollError, SkipRead, ReadData, ReadNoData, ParseStops,
                SkipWrite, WriteData, WriteError
  <2> QED BY <1>1, <1>2, <2>1, LoopStepOnly
<1>3. CASE ServerHandshaking \/ ServerAuthenticating \/ ServerReady
  <2>1. \E s, new, T : ParseCase(Server, s, new, T)
    BY <1>3 DEF ServerHandshaking, ServerAuthenticating, ServerReady
  <2>2. pc[Server] # "killed"
    BY <2>1 DEF ParseCase
  <2> QED BY <1>1, <2>1, <2>2, ParseCaseOnly
<1>4. CASE Accept
  BY <1>1, <1>4 DEF Accept, Goto, tcpVars, OnlyBy, OrderTypes
<1>5. CASE CloseClient \/ WriteSigpipe(Server)
  <2>1. OnlyBy(Server) /\ pc[Server] # "killed" /\ pc[Server] \in Running
    BY <1>1, <1>5 DEF CloseClient, WriteSigpipe, Goto, OnlyBy, OrderTypes, Running
  <2>2. \E es, abort : TcpCloseAll(es, abort) /\ \A d \in Clients : There(d) \notin es
    <3>1. CASE CloseClient
      <4>1. TcpCloseAll({At(Server)}, IF net[At(Server)] = << >> THEN {} ELSE {At(Server)})
        BY <3>1 DEF CloseClient, TcpClose
      <4>2. \A d \in Clients : There(d) \notin {At(Server)}
        BY <2>1, Serves, EndpointFacts
      <4> QED BY <4>1, <4>2
    <3>2. CASE WriteSigpipe(Server)
      <4> DEFINE mine == {e \in Endpoint : sock[e] = "open" /\ IF Server = Server THEN e[2] = "server" ELSE e = At(Server)}
                 abort == {e \in mine : net[e] # << >> \/ (Server = Server /\ e # At(Server))}
      <4>1. TcpCloseAll(mine, abort)
        BY <3>2 DEF WriteSigpipe
      <4>2. \A d \in Clients : There(d) \notin mine
        BY DEF There
      <4> HIDE DEF mine, abort
      <4> QED BY <4>1, <4>2
    <3> QED BY <1>5, <3>1, <3>2
  <2>3. \A d \in Clients : /\ sock'[There(d)] = sock[There(d)]
                           /\ sock'[Here(d)] = "open" => sock[Here(d)] = "open"
    BY <2>2, EndpointFacts DEF TcpCloseAll
  <2> QED BY <2>1, <2>3
<1> QED BY <1>2, <1>3, <1>4, <1>5 DEF ServerStep, ServerFault, LoopStep

LEMMA SameInput ==
  ASSUME NEW p, tr'[p].read_len = tr[p].read_len, tr'[p].read_pos = tr[p].read_pos,
         tr'[p].read_buffer = tr[p].read_buffer
  PROVE  Complete(p)' <=> Complete(p)
BY DEF Complete, First

(* A client that leaves its loop while the server holds its connection:    *)
(* the loop test (client_main.c:72) or a full read buffer (line 86), which *)
(* would have had a message in it.                                         *)
LEMMA LeavesLoop ==
  ASSUME MessagesFit, SessionInv, OrderInv, NEW c \in Clients, sock[Here(c)] = "open", pc'[c] = "close",
         LeaveLoop(c) \/ ReadNoData(c)
  PROVE  conn[c] = "CLOSED"
<1>1. pc[c] \in {"poll", "read"} /\ pc[c] \in Running
  BY DEF LeaveLoop, ReadNoData, Running
<1>2. sock[There(c)] = "open" /\ At(c) = There(c) /\ There(c) \in Endpoint /\ Other(There(c)) = Here(c)
  BY <1>1, Works, EndpointFacts
<1>3. Conversation(c, cur, "open", "open", conn[c], conn[Server], tr[c], tr[Server], net[There(c)], net[Here(c)])
  BY <1>2 DEF SessionInv, ConversationInv
<1>4. \/ Exchange(c, conn[c], conn[Server], tr[c], tr[Server], net[There(c)], net[Here(c)])
      \/ Waiting(c, conn[c], tr[c], net[There(c)], net[Here(c)])
  BY <1>3 DEF Conversation
<1>5. Sound(tr[c]) /\ c \in Process /\ net[There(c)] \in Seq(Cell)
  BY <1>2, TypesOf, ProcessFacts
<1>6. /\ tr[c].read_len \in Nat /\ Len(ReadWindow(tr[c])) = tr[c].read_len /\ Len(net[There(c)]) \in Nat
      /\ PW_BUFFER_SIZE \in Nat \ {0} /\ tr[c].read_pos \in Nat
  BY <1>5, SoundFacts, BufferSizeAssumption
<1>7. CASE LeaveLoop(c)
  <2>1. conn[c] \in {"CLOSED", "DISCONNECTED"}
    BY <1>7 DEF LeaveLoop, LoopRuns
  <2>2. conn[c] # "DISCONNECTED"
    BY <1>4 DEF Exchange, Waiting, Asked, Answered
  <2> QED BY <2>1, <2>2
<1>8. CASE ReadNoData(c)
  <2>1. ReadBufferFull(tr[c])
    <3>1. SUFFICES ASSUME ~ReadBufferFull(tr[c]) PROVE FALSE
      OBVIOUS
    <3>2. ~rst[There(c)]
      BY <1>2, TypesOf
    <3>3. errnoAgain' = [errnoAgain EXCEPT ![c] = TRUE]
      BY <1>2, <1>8, <3>1, <3>2 DEF ReadNoData
    <3>4. errnoAgain'[c]
      BY <1>5, <3>3 DEF OrderInv, OrderTypes
    <3>5. pc' = [pc EXCEPT ![c] = "parse"]
      BY <1>8, <3>4 DEF ReadNoData, Goto, AfterNoData
    <3> QED BY <1>5, <3>5, TypesOf
  <2>2. tr[c].read_len = PW_BUFFER_SIZE
    BY <2>1 DEF ReadBufferFull
  <2>3. PICK m \in Letter(c) : /\ <<conn[c], conn[Server], m>> \in Answered(c)
                               /\ Part(m, ReadWindow(tr[c]), net[There(c)])
    BY <1>4, <1>6, <2>2 DEF Exchange, Waiting, Nothing, Whole
  <2>4. Cells[m.kind] \in Nat /\ Cells[m.kind] =< PW_BUFFER_SIZE
    BY BytesFacts, LetterFacts DEF MessagesFit
  <2>5. First(c) = <<m, 1>>
    <3>1. ReadWindow(tr[c])[1] = Load(tr[c].read_buffer, tr[c].read_pos + 1 - 1)
      BY <1>6, <2>2 DEF ReadWindow
    <3>2. tr[c].read_pos + 1 - 1 = tr[c].read_pos /\ 1 \in 1 .. tr[c].read_len /\ 0 + 1 = 1
      BY <1>6, <2>2
    <3> QED BY <1>6, <2>3, <3>1, <3>2 DEF First, Part, Holds
  <2>6. Complete(c)
    <3>1. <<m, 1>> # NoByte
      <4>1. Cells[m.kind] >= 1 /\ \A i \in 1 .. Cells[m.kind] : <<m, i>> # NoByte
        BY BytesFacts
      <4> QED BY <2>4, <4>1
    <3>2. First(c)[2] = 1 /\ First(c)[1] = m
      BY <2>5
    <3> QED BY <1>6, <2>2, <2>4, <2>5, <3>1, <3>2 DEF Complete
  <2>7. pc[c] = "read"
    BY <1>8 DEF ReadNoData
  <2>8. conn[c] \notin Listening
    BY <2>6, <2>7 DEF OrderInv, NothingUnheard
  <2>9. conn[c] \in Listening \cup {"CLOSED"}
    BY <2>3 DEF Answered, Listening
  <2> QED BY <2>8, <2>9
<1> QED BY <1>7, <1>8

LEMMA ClientKeepsOrder ==
  ASSUME MessagesFit, SessionInv, OrderInv, NEW c \in Clients, ClientStep(c) \/ ClientFault(c)
  PROVE  OrderInv'
<1>1. /\ OnlyBy(c) /\ cur' = cur
      /\ \A d \in Clients : d # c => sock'[There(d)] = sock[There(d)] /\ sock'[Here(d)] = sock[Here(d)]
  BY ClientOnly
<1>2. /\ \A q \in Process : q # c => /\ pc'[q] = pc[q] /\ conn'[q] = conn[q] /\ tr'[q] = tr[q]
                                     /\ revents'[q] = revents[q]
      /\ OrderTypes' /\ (faults' = 0 => faults = 0)
  BY <1>1 DEF OnlyBy
<1>3. c \in Process /\ Server \in Process /\ c # Server /\ Clients \subseteq Process
  BY ProcessFacts
<1>4. /\ pc \in [Process -> Running \cup {"accept", "start", "exit", "killed"}] /\ conn \in [Process -> State]
      /\ tr = [q \in Process |-> tr[q]] /\ faults \in Nat
  BY TypesOf DEF OrderInv, OrderTypes
<1>5. LeavesInOrder'
  <2>1. SUFFICES ASSUME faults' = 0, NEW d \in Clients, sock'[Here(d)] = "open",
                        sock'[There(d)] = "closed" \/ pc'[d] = "close"
                 PROVE  conn'[d] = "CLOSED"
    BY DEF LeavesInOrder
  <2>2. faults = 0
    BY <1>2, <2>1
  <2>3. CASE d # c
    BY <1>1, <1>2, <1>3, <2>1, <2>2, <2>3 DEF OrderInv, LeavesInOrder
  <2>4. CASE d = c
    <3>1. CASE ClientConnect(c)
      <4>1. sock'[There(c)] = "open" /\ pc'[c] = "poll"
        BY <1>3, <1>4, <3>1, EndpointFacts DEF ClientConnect, TcpConnect, Goto, There
      <4> QED BY <2>1, <2>4, <4>1
    <3>2. CASE ClientRefused(c)
      <4>1. pc[c] = "start" /\ pc'[c] = "exit" /\ sock' = sock
        BY <1>3, <1>4, <3>2 DEF ClientRefused, Goto, tcpVars
      <4>2. sock[There(c)] = "none"
        BY <4>1 DEF SessionInv, NetInv
      <4> QED BY <2>1, <2>4, <4>1, <4>2
    <3>3. CASE LeaveLoop(c) \/ ReadNoData(c)
      <4>1. sock' = sock /\ conn' = conn /\ pc[c] \in Running
        BY <3>3 DEF LeaveLoop, ReadNoData, tcpVars, Running
      <4>2. sock[There(c)] = "open"
        BY <4>1, Works
      <4>3. sock[Here(c)] = "open" /\ pc'[c] = "close"
        BY <2>1, <2>4, <4>1, <4>2
      <4> QED BY <2>4, <3>3, <4>1, <4>3, LeavesLoop
    <3>4. CASE PollError(c) \/ ClientCrash(c)
      <4>1. faults' = faults + 1
        BY <3>4 DEF PollError, ClientCrash, Fault
      <4> QED BY <2>1, <2>2, <4>1
    <3>5. CASE \/ Poll(c, "write") \/ SpuriousPoll(c, "write") \/ SkipWrite(c, "read") \/ WriteData(c, "read")
               \/ WriteError(c, "read") \/ SkipRead(c, "poll") \/ ReadData(c) \/ ParseStops(c, "poll")
      <4>1. sock' = sock /\ pc[c] \in Running
        BY <3>5 DEF Poll, SpuriousPoll, SkipWrite, WriteData, WriteError, SkipRead, ReadData, ParseStops,
                    TcpSend, TcpRecv, tcpVars, Running
      <4>2. pc'[c] \in {"write", "read", "poll", "parse"}
        BY <1>3, <1>4, <3>5 DEF Poll, SpuriousPoll, SkipWrite, WriteData, WriteError, SkipRead, ReadData, ParseStops, Goto
      <4> QED BY <2>1, <2>4, <4>1, <4>2, Works
    <3>6. CASE ClientHandshaking(c) \/ ClientAuthenticating(c) \/ ClientReady(c)
      <4>1. sock' = sock /\ pc' = pc /\ pc[c] = "parse"
        BY <3>6 DEF ClientHandshaking, ClientAuthenticating, ClientReady, ParseCase, tcpVars
      <4>2. sock[There(c)] = "open"
        BY <4>1, Works DEF Running
      <4> QED BY <2>1, <2>4, <4>1, <4>2
    <3>7. CASE WriteSigpipe(c)
      <4>1. pc[c] \in Running /\ rst[At(c)]
        BY <3>7 DEF WriteSigpipe, Running
      <4>2. sock[Here(c)] = "closed" /\ Here(c) # There(c) /\ Here(c) \in Endpoint
        BY <4>1, Works, TypesOf, EndpointFacts
      <4>3. \E es, abort : TcpCloseAll(es, abort)
        BY <3>7 DEF WriteSigpipe
      <4>4. sock'[Here(c)] = "closed"
        BY <4>2, <4>3 DEF TcpCloseAll
      <4> QED BY <2>1, <2>4, <4>4
    <3>8. CASE ClientExit(c)
      <4>1. pc[c] = "close" /\ conn' = conn /\ TcpClose(There(c))
        BY <3>8, EndpointFacts DEF ClientExit
      <4>2. sock'[Here(c)] = sock[Here(c)]
        BY <4>1, EndpointFacts DEF TcpClose, TcpCloseAll
      <4> QED BY <2>1, <2>2, <2>4, <4>1, <4>2 DEF OrderInv, LeavesInOrder
    <3> QED BY <3>1, <3>2, <3>3, <3>4, <3>5, <3>6, <3>7, <3>8 DEF ClientStep, ClientFault
  <2> QED BY <2>3, <2>4
<1>6. NothingUnheard'
  <2>1. SUFFICES ASSUME NEW d \in Clients, pc'[d] \in {"poll", "write", "read"}, conn'[d] \in Listening
                 PROVE  ~(Complete(d)')
    BY DEF NothingUnheard
  <2>2. CASE d # c
    <3>1. pc'[d] = pc[d] /\ conn'[d] = conn[d] /\ tr'[d] = tr[d]
      BY <1>2, <1>3, <2>2
    <3>2. Complete(d)' <=> Complete(d)
      BY <3>1, SameInput
    <3> QED BY <2>1, <3>1, <3>2 DEF OrderInv, NothingUnheard
  <2>3. CASE d = c
    <3>1. CASE ClientConnect(c)
      <4> DEFINE T == Reply(TransportInit(tr[c]), ClientHello(c))
      <4>1. tr' = [tr EXCEPT ![c] = T]
        BY <3>1 DEF ClientConnect
      <4>2. Says(T, ClientHello(c))
        BY TypesOf, ProcessFacts, InitSound, LetterMembers, ReplySays
      <4>3. tr'[c].read_len = 0
        BY <1>3, <1>4, <4>1, <4>2 DEF Says
      <4> QED BY <2>3, <4>3 DEF Complete
    <3>2. CASE \/ ClientRefused(c) \/ LeaveLoop(c) \/ PollError(c) \/ WriteSigpipe(c) \/ ClientExit(c)
               \/ ClientCrash(c) \/ ReadData(c) \/ ReadNoData(c)
      <4>1. pc'[c] \in {"exit", "close", "killed", "parse"}
        BY <1>3, <1>4, <3>2 DEF ClientRefused, LeaveLoop, PollError, WriteSigpipe, ClientExit, ClientCrash,
                                ReadData, ReadNoData, AfterNoData, Goto
      <4> QED BY <2>1, <2>3, <4>1
    <3>3. CASE \/ Poll(c, "write") \/ SpuriousPoll(c, "write") \/ SkipWrite(c, "read")
               \/ WriteError(c, "read") \/ SkipRead(c, "poll")
      <4>1. pc[c] \in {"poll", "write", "read"} /\ conn' = conn /\ tr' = tr
        BY <3>3 DEF Poll, SpuriousPoll, SkipWrite, WriteError, SkipRead
      <4>2. Complete(c)' <=> Complete(c)
        BY <4>1, SameInput
      <4> QED BY <2>1, <2>3, <4>1, <4>2 DEF OrderInv, NothingUnheard
    <3>4. CASE ParseStops(c, "poll")
      <4>1. conn' = conn /\ tr' = tr /\ (~Complete(c) \/ conn[c] \notin Listening)
        BY <3>4 DEF ParseStops, Listening
      <4>2. Complete(c)' <=> Complete(c)
        BY <4>1, SameInput
      <4> QED BY <2>1, <2>3, <4>1, <4>2
    <3>5. CASE ClientHandshaking(c) \/ ClientAuthenticating(c) \/ ClientReady(c)
      <4>1. pc'[c] = "parse"
        BY <3>5 DEF ClientHandshaking, ClientAuthenticating, ClientReady, ParseCase
      <4> QED BY <2>1, <2>3, <4>1
    <3>6. CASE WriteData(c, "read")
      <4>1. PICK k \in 1 .. tr[c].write_len : tr' = [tr EXCEPT ![c] = TransportWrite(tr[c], k)]
        BY <3>6 DEF WriteData
      <4>2. tr'[c] = TransportWrite(tr[c], k) /\ Sound(tr[c])
        BY <1>3, <1>4, <4>1, TypesOf
      <4>3. /\ tr'[c].read_len = tr[c].read_len /\ tr'[c].read_pos = tr[c].read_pos
            /\ tr'[c].read_buffer = tr[c].read_buffer
        BY <4>2 DEF TransportWrite, Sound, Transport
      <4>4. Complete(c)' <=> Complete(c)
        BY <4>3, SameInput
      <4>5. pc[c] = "write" /\ conn' = [conn EXCEPT ![c] = AfterWrite(conn[c], tr'[c])]
        BY <3>6 DEF WriteData
      <4>6. conn'[c] = AfterWrite(conn[c], tr'[c])
        BY <1>3, <1>4, <4>5
      <4>7. conn[c] \in Listening
        BY <2>1, <2>3, <4>6, AfterWriteFacts DEF Listening
      <4> QED BY <2>3, <4>4, <4>5, <4>7 DEF OrderInv, NothingUnheard
    <3> QED BY <3>1, <3>2, <3>3, <3>4, <3>5, <3>6 DEF ClientStep, ClientFault
  <2> QED BY <2>2, <2>3
<1>7. OutputPending'
  <2>1. pc'[Server] = pc[Server] /\ revents'[Server] = revents[Server] /\ tr'[Server] = tr[Server]
    BY <1>2, <1>3
  <2> QED BY <2>1 DEF OrderInv, OutputPending
<1>8. KilledOnlyAnsweringClose'
  <2>1. SUFFICES ASSUME pc'[Server] = "killed", faults' = 0
                 PROVE  conn'[Server] = "CLOSING" /\ conn'[cur'] = "CLOSED"
    BY DEF KilledOnlyAnsweringClose
  <2>2. pc[Server] = "killed" /\ faults = 0 /\ conn'[Server] = conn[Server] /\ cur' = cur
    BY <1>1, <1>2, <1>3, <2>1
  <2>3. conn[Server] = "CLOSING" /\ conn[cur] = "CLOSED" /\ cur \in Clients
    <3>1. cur # NoClient
      BY <2>2 DEF SessionInv, LoopInv
    <3> QED BY <2>2, <3>1, TypesOf DEF OrderInv, KilledOnlyAnsweringClose
  <2>4. CASE cur # c
    BY <1>2, <1>3, <2>2, <2>3, <2>4
  <2>5. CASE cur = c
    <3>1. CASE WriteData(c, "read")
      <4>1. conn' = [conn EXCEPT ![c] = AfterWrite(conn[c], tr'[c])]
        BY <3>1 DEF WriteData
      <4>2. conn'[c] = AfterWrite(conn[c], tr'[c])
        BY <1>3, <1>4, <4>1
      <4> QED BY <2>2, <2>3, <2>5, <4>2, AfterWriteFacts
    <3>2. CASE ClientConnect(c) \/ ClientHandshaking(c) \/ ClientAuthenticating(c) \/ ClientReady(c)
      BY <2>2, <2>3, <2>5, <3>2 DEF ClientConnect, ClientHandshaking, ClientAuthenticating, ClientReady, ParseCase
    <3>3. CASE conn' = conn
      BY <2>2, <2>3, <3>3
    <3>4. WriteData(c, "read") \/ ClientConnect(c) \/ ClientHandshaking(c) \/ ClientAuthenticating(c)
          \/ ClientReady(c) \/ conn' = conn
      BY DEF ClientStep, ClientFault, ClientRefused, LeaveLoop, Poll, SkipWrite, WriteError, WriteSigpipe,
             SkipRead, ReadData, ReadNoData, ParseStops, ClientExit, SpuriousPoll, PollError, ClientCrash
    <3> QED BY <3>1, <3>2, <3>3, <3>4
  <2> QED BY <2>4, <2>5
<1> QED BY <1>2, <1>5, <1>6, <1>7, <1>8 DEF OrderInv

LEMMA ServerKeepsOrder ==
  ASSUME SessionInv, OrderInv, ServerStep \/ ServerFault
  PROVE  OrderInv'
<1>1. /\ OnlyBy(Server) /\ pc[Server] # "killed"
      /\ \A d \in Clients : sock'[There(d)] = sock[There(d)] /\ (sock'[Here(d)] = "open" => sock[Here(d)] = "open")
  BY ServerOnly
<1>2. /\ \A d \in Clients : /\ pc'[d] = pc[d] /\ conn'[d] = conn[d] /\ tr'[d] = tr[d]
      /\ OrderTypes' /\ (faults' = 0 => faults = 0)
  BY <1>1, ProcessFacts DEF OnlyBy
<1>3. /\ pc \in [Process -> Running \cup {"accept", "start", "exit", "killed"}] /\ conn \in [Process -> State]
      /\ tr = [q \in Process |-> tr[q]] /\ revents \in [Process -> SUBSET {"POLLIN", "POLLOUT"}]
      /\ Server \in Process /\ Sound(tr[Server])
  BY TypesOf, ProcessFacts DEF OrderInv, OrderTypes
<1>4. LeavesInOrder'
  BY <1>1, <1>2 DEF OrderInv, LeavesInOrder
<1>5. NothingUnheard'
  <2>1. \A d \in Clients : Complete(d)' <=> Complete(d)
    BY <1>2, SameInput
  <2> QED BY <1>2, <2>1 DEF OrderInv, NothingUnheard
<1>6. OutputPending'
  <2>1. SUFFICES ASSUME pc'[Server] \in {"read", "parse", "write"}, "POLLOUT" \in revents'[Server]
                 PROVE  tr'[Server].write_len > 0
    BY DEF OutputPending
  <2>2. CASE \/ Accept \/ LeaveLoop(Server) \/ SkipWrite(Server, "poll") \/ WriteData(Server, "poll")
             \/ WriteError(Server, "poll") \/ PollError(Server) \/ WriteSigpipe(Server) \/ CloseClient
    <3>1. pc'[Server] \in {"poll", "close", "killed", "accept"}
      BY <1>3, <2>2 DEF Accept, LeaveLoop, SkipWrite, WriteData, WriteError, PollError, WriteSigpipe,
                        CloseClient, Goto
    <3> QED BY <2>1, <3>1
  <2>3. CASE Poll(Server, "read") \/ SpuriousPoll(Server, "read")
    <3>1. revents'[Server] \subseteq Wanted(Server) /\ tr' = tr
      BY <1>3, <2>3 DEF Poll, SpuriousPoll
    <3> QED BY <2>1, <3>1 DEF Wanted
  <2>4. CASE SkipRead(Server, "write") \/ ParseStops(Server, "write")
    <3>1. pc[Server] \in {"read", "parse"} /\ revents' = revents /\ tr' = tr
      BY <2>4 DEF SkipRead, ParseStops
    <3> QED BY <2>1, <3>1 DEF OrderInv, OutputPending
  <2>5. CASE ReadData(Server) \/ ReadNoData(Server)
    <3>1. pc[Server] = "read" /\ revents' = revents
      BY <2>5 DEF ReadData, ReadNoData
    <3>2. tr[Server].write_len > 0
      BY <2>1, <3>1 DEF OrderInv, OutputPending
    <3>3. tr' = tr \/ \E b : tr' = [tr EXCEPT ![Server] = TransportRead(tr[Server], b)]
      BY <2>5 DEF ReadData, ReadNoData
    <3>4. \A b : TransportRead(tr[Server], b).write_len = tr[Server].write_len
      BY <1>3 DEF TransportRead, Compact, Sound, Transport
    <3> QED BY <1>3, <3>2, <3>3, <3>4
  <2>6. CASE ServerHandshaking \/ ServerAuthenticating \/ ServerReady
    <3>1. pc[Server] = "parse" /\ Complete(Server) /\ revents' = revents
      BY <2>6 DEF ServerHandshaking, ServerAuthenticating, ServerReady, ParseCase
    <3>2. tr[Server].write_len = 0
      BY <3>1, ServerHears DEF Running
    <3> QED BY <2>1, <3>1, <3>2 DEF OrderInv, OutputPending
  <2> QED BY <2>2, <2>3, <2>4, <2>5, <2>6 DEF ServerStep, ServerFault
<1>7. KilledOnlyAnsweringClose'
  <2>1. SUFFICES ASSUME pc'[Server] = "killed", faults' = 0
                 PROVE  conn'[Server] = "CLOSING" /\ conn'[cur'] = "CLOSED"
    BY DEF KilledOnlyAnsweringClose
  <2>2. WriteSigpipe(Server)
    <3>1. CASE Accept \/ CloseClient \/ LoopStep(Server, "read", "write", "poll", "write")
      <4>1. pc'[Server] \in {"poll", "close", "accept", "read", "write", "parse"}
        BY <1>3, <3>1 DEF Accept, CloseClient, LoopStep, LeaveLoop, Poll, SpuriousPoll, PollError, SkipRead,
                          ReadData, ReadNoData, ParseStops, SkipWrite, WriteData, WriteError, AfterNoData, Goto
      <4> QED BY <2>1, <4>1
    <3>2. CASE ServerHandshaking \/ ServerAuthenticating \/ ServerReady
      <4>1. pc' = pc
        BY <3>2 DEF ServerHandshaking, ServerAuthenticating, ServerReady, ParseCase
      <4> QED BY <1>1, <2>1, <4>1
    <3> QED BY <3>1, <3>2 DEF ServerStep, ServerFault, LoopStep
  <2>3. /\ pc[Server] = "write" /\ "POLLOUT" \in revents[Server] /\ rst[At(Server)]
        /\ UNCHANGED <<conn, cur>>
    BY <2>2 DEF WriteSigpipe
  <2>4. cur \in Clients /\ sock[Here(cur)] = "open" /\ sock[There(cur)] = "closed"
    <3>1. pc[Server] \in Running
      BY <2>3 DEF Running
    <3>2. cur \in Clients /\ sock[Here(cur)] = "open" /\ At(Server) = Here(cur) /\ Here(cur) \in Endpoint
      BY <3>1, Serves
    <3> QED BY <2>3, <3>2, TypesOf, EndpointFacts
  <2>5. conn[cur] = "CLOSED"
    BY <1>2, <2>1, <2>4 DEF OrderInv, LeavesInOrder
  <2>6. tr[Server].write_len > 0
    BY <2>3 DEF OrderInv, OutputPending
  <2>7. Leaving(cur, conn[Server], tr[Server], net[Here(cur)])
    BY <2>4, <2>5 DEF SessionInv, ConversationInv, Conversation
  <2>8. conn[Server] = "CLOSING"
    BY <1>3, <2>6, <2>7, SoundFacts DEF Leaving
  <2> QED BY <2>3, <2>5, <2>8
<1> QED BY <1>2, <1>4, <1>5, <1>6, <1>7 DEF OrderInv

(* Without outside faults the server process is killed only in the one     *)
(* race the programs leave open: the client closes its socket as soon as   *)
(* its CLOSE is out (client_main.c:72), and the server's CLOSE goes out in *)
(* more than one send() (server_main.c:219).                               *)
THEOREM ServerKilledOnlyAnsweringClose ==
  ASSUME MessagesFit
  PROVE  Spec => []KilledOnlyAnsweringClose
<1>1. Init => OrderInv
  <2>1. SUFFICES ASSUME Init PROVE OrderInv
    OBVIOUS
  <2>2. /\ faults = 0 /\ errnoAgain = [p \in Process |-> FALSE] /\ revents = [p \in Process |-> {}]
        /\ pc = [p \in Process |-> IF p = Server THEN "accept" ELSE "start"]
        /\ sock = [e \in Endpoint |-> "none"]
    BY <2>1 DEF Init, EventLoopInit, TcpInit
  <2>3. \A c \in Clients : sock[Here(c)] = "none" /\ pc[c] = "start"
    BY <2>2, ProcessFacts, EndpointFacts
  <2>4. pc[Server] = "accept"
    BY <2>2, ProcessFacts
  <2>5. OrderTypes
    BY <2>2 DEF OrderTypes
  <2> QED BY <2>3, <2>4, <2>5 DEF OrderInv, LeavesInOrder, NothingUnheard, OutputPending, KilledOnlyAnsweringClose
<1>2. SessionInv /\ OrderInv /\ [Next]_vars => OrderInv'
  <2>1. SUFFICES ASSUME SessionInv, OrderInv, [Next]_vars PROVE OrderInv'
    OBVIOUS
  <2>2. CASE Next
    BY <2>1, <2>2, ClientKeepsOrder, ServerKeepsOrder DEF Next
  <2>3. CASE UNCHANGED vars
    <3>1. UNCHANGED <<pc, conn, tr, errnoAgain, revents, cur, faults, sock>>
      BY <2>3 DEF vars, loopVars, tcpVars
    <3>2. \A c \in Clients : Complete(c)' <=> Complete(c)
      BY <3>1, SameInput
    <3> QED BY <2>1, <3>1, <3>2 DEF OrderInv, OrderTypes, LeavesInOrder, NothingUnheard, OutputPending,
                                     KilledOnlyAnsweringClose
  <2> QED BY <2>1, <2>2, <2>3
<1>3. OrderInv => KilledOnlyAnsweringClose
  BY DEF OrderInv
<1> QED BY <1>1, <1>2, <1>3, SessionInvHolds, PTL DEF Spec
=============================================================================
