----------------------------- MODULE ClientMain -----------------------------
(***************************************************************************)
(* native/src/client_main.c: connect, say hello, authenticate, send one    *)
(* DATA_TEXT, wait for its echo, PING, wait for the PONG, CLOSE.  The loop *)
(* runs poll, write, read, parse.                                          *)
(***************************************************************************)
EXTENDS EventLoop

CONSTANT Token   \* Token[c]: the bearer token client c is built with

ASSUME TokenAssumption == Token \in [Clients -> {"secret_token", "other"}]

ClientHello(c) == [kind |-> "CLIENT_HELLO", owner |-> c, version |-> 1]
Auth(c)        == [kind |-> "AUTH", owner |-> c, token |-> Token[c]]
Data(c)        == [kind |-> "DATA_TEXT", owner |-> c]
Ping(c)        == [kind |-> "PING", owner |-> c]
ClientClose(c) == [kind |-> "CLOSE", owner |-> c]

(* connect() succeeds; the transport and the connection are set up and the *)
(* hello is put at the start of the write buffer.                          *)
ClientConnect(c) ==
  /\ pc[c] = "start" /\ pc[Server] # "killed"
  /\ TcpConnect(c)
  /\ backlog' = Append(backlog, c)
  /\ conn' = [conn EXCEPT ![c] = Transition(Transition(ConnectionInit, "CONNECTING"), "HANDSHAKING")]
  /\ tr' = [tr EXCEPT ![c] = Reply(TransportInit(@), ClientHello(c))]
  /\ Goto(c, "poll")
  /\ UNCHANGED <<errnoAgain, revents, cur, faults>>

(* connect() fails: the program ends. *)
ClientRefused(c) ==
  /\ pc[c] = "start" /\ pc[Server] = "killed"
  /\ Goto(c, "exit")
  /\ UNCHANGED <<tcpVars, conn, tr, errnoAgain, revents, cur, backlog, faults>>

(* The server's hello, whatever its status: authenticate. *)
ClientHandshaking(c) ==
  ParseCase(c, "HANDSHAKING", "AUTHENTICATING", ReplyWithPayload(Taken(c), Bytes(Auth(c))))

(* Mutant of ClientAuthenticating: PING is sent along with the data. *)
ClientAuthenticatingPipelines(c) ==
  LET ok == Message(c).kind = "AUTH_OK"
  IN  ParseCase(c, "AUTHENTICATING",
                IF ok THEN "READY" ELSE "AUTHENTICATING",
                IF ok THEN Reply(ReplyWithPayload(Taken(c), Bytes(Data(c))), Ping(c)) ELSE Taken(c))

(* AUTH_OK: send the data.  Any other frame is dropped. *)
ClientAuthenticating(c) ==
  LET ok == Message(c).kind = "AUTH_OK"
  IN  ParseCase(c, "AUTHENTICATING",
                IF ok THEN "READY" ELSE "AUTHENTICATING",
                IF ok THEN ReplyWithPayload(Taken(c), Bytes(Data(c))) ELSE Taken(c))

(* The echo is answered with PING, PONG with CLOSE; CLOSE is not answered. *)
ClientReady(c) ==
  LET k == Message(c).kind
  IN  ParseCase(c, "READY",
                IF k \in {"PONG", "CLOSE"} THEN "CLOSING" ELSE "READY",
                CASE k = "DATA_TEXT" -> Reply(Taken(c), Ping(c))
                  [] k = "PONG"      -> Reply(Taken(c), ClientClose(c))
                  [] OTHER           -> Taken(c))

(* close(sock) and the end of the program. *)
ClientExit(c) ==
  /\ pc[c] = "close"
  /\ TcpClose(At(c))
  /\ Goto(c, "exit")
  /\ UNCHANGED <<conn, tr, errnoAgain, revents, cur, backlog, faults>>

(* The program is interrupted; the kernel closes its socket. *)
ClientCrash(c) ==
  /\ pc[c] \in {"poll", "write", "read", "parse"}
  /\ Fault("crash")
  /\ TcpClose(At(c))
  /\ Goto(c, "killed")
  /\ UNCHANGED <<conn, tr, errnoAgain, revents, cur, backlog>>

ClientStep(c) ==
  \/ ClientConnect(c) \/ ClientRefused(c)
  \/ LeaveLoop(c) \/ Poll(c, "write")
  \/ SkipWrite(c, "read") \/ WriteData(c, "read") \/ WriteError(c, "read") \/ WriteSigpipe(c)
  \/ SkipRead(c, "poll") \/ ReadData(c) \/ ReadNoData(c)
  \/ ClientHandshaking(c) \/ ClientAuthenticating(c) \/ ClientReady(c) \/ ParseStops(c, "poll")
  \/ ClientExit(c)

ClientFault(c) == SpuriousPoll(c, "write") \/ PollError(c) \/ ClientCrash(c)
=============================================================================
