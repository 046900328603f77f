----------------------------- MODULE ServerMain -----------------------------
(***************************************************************************)
(* native/src/server_main.c: accept one connection at a time and serve it  *)
(* until it ends.  The loop runs poll, read, parse, write.                 *)
(***************************************************************************)
EXTENDS EventLoop

CONSTANT ConnectingFirst
   \* FALSE: the server asks a fresh connection for HANDSHAKING, as server_main.c:68 does.
   \* TRUE:  it asks for CONNECTING before, as client_main.c:48-49 does.

ASSUME ConnectingFirstAssumption == ConnectingFirst \in BOOLEAN

ServerHello(c, status) == [kind |-> "SERVER_HELLO", owner |-> c, status |-> status]
AuthOk(c)      == [kind |-> "AUTH_OK", owner |-> c]
Pong(c)        == [kind |-> "PONG", owner |-> c]
ServerClose(c) == [kind |-> "CLOSE", owner |-> c]

(* The state an accepted connection enters the loop with. *)
ServerEntry ==
  LET s == ConnectionInit
  IN  Transition(IF ConnectingFirst THEN Transition(s, "CONNECTING") ELSE s, "HANDSHAKING")

(* accept(); the transport lives in the same stack slot every time, so its *)
(* arrays still hold the previous connection's bytes.                      *)
Accept ==
  /\ pc[Server] = "accept" /\ backlog # << >>
  /\ cur' = Head(backlog) /\ backlog' = Tail(backlog)
  /\ tr' = [tr EXCEPT ![Server] = TransportInit(@)]
  /\ conn' = [conn EXCEPT ![Server] = ServerEntry]
  /\ Goto(Server, "poll")
  /\ UNCHANGED <<tcpVars, errnoAgain, revents, faults>>

(* The hello is answered; an unsupported version asks for CLOSING, which   *)
(* HANDSHAKING does not allow.  The magic is not looked at and every frame *)
(* carries version 1 where the hello does.                                 *)
ServerHandshaking ==
  LET ok == Message(Server).kind = "CLIENT_HELLO" => Message(Server).version = 1
  IN  ParseCase(Server, "HANDSHAKING",
                IF ok THEN "AUTHENTICATING" ELSE "CLOSING",
                Reply(Taken(Server), ServerHello(cur, IF ok THEN 0 ELSE 1002)))

(* Mutant of ServerAuthenticating: AUTH_OK is sent without becoming READY. *)
ServerAuthenticatingNotReady ==
  LET m == Message(Server)
      ok == m.kind = "AUTH" /\ m.token = "secret_token"
  IN  ParseCase(Server, "AUTHENTICATING", "AUTHENTICATING",
                IF ok THEN Reply(Taken(Server), AuthOk(cur)) ELSE Taken(Server))

(* Mutant of ServerAuthenticating: the token is not compared. *)
ServerAuthenticatingAnyToken ==
  LET m == Message(Server)
      ok == m.kind = "AUTH"
  IN  ParseCase(Server, "AUTHENTICATING", IF ok THEN "READY" ELSE "AUTHENTICATING",
                IF ok THEN Reply(Taken(Server), AuthOk(cur)) ELSE Taken(Server))

(* AUTH with the right token is answered; a wrong one asks for CLOSING,    *)
(* which AUTHENTICATING does not allow.  Any other frame is dropped.       *)
ServerAuthenticating ==
  LET m == Message(Server)
      ok == m.kind = "AUTH" /\ m.token = "secret_token"
  IN  ParseCase(Server, "AUTHENTICATING",
                CASE ok -> "READY"
                  [] ~ok /\ m.kind = "AUTH" -> "CLOSING"
                  [] OTHER -> "AUTHENTICATING",
                IF ok THEN Reply(Taken(Server), AuthOk(cur)) ELSE Taken(Server))

(* DATA is echoed as it lies in the read buffer, PING answered with PONG,  *)
(* CLOSE with CLOSE; any other frame is dropped.                           *)
ServerReady ==
  LET m == Message(Server)
  IN  ParseCase(Server, "READY",
                IF m.kind = "CLOSE" THEN "CLOSING" ELSE "READY",
                CASE m.kind \in {"DATA_BINARY", "DATA_TEXT"} ->
                       ReplyWithPayload(Taken(Server), SubSeq(Window(Server), 1, Cells[m.kind]))
                  [] m.kind = "PING"  -> Reply(Taken(Server), Pong(cur))
                  [] m.kind = "CLOSE" -> Reply(Taken(Server), ServerClose(cur))
                  [] OTHER            -> Taken(Server))

(* close(client_fd), and back to accept(). *)
CloseClient ==
  /\ pc[Server] = "close"
  /\ TcpClose(At(Server))
  /\ cur' = NoClient
  /\ Goto(Server, "accept")
  /\ UNCHANGED <<conn, tr, errnoAgain, revents, backlog, faults>>

ServerStep ==
  \/ Accept
  \/ LeaveLoop(Server) \/ Poll(Server, "read")
  \/ SkipRead(Server, "write") \/ ReadData(Server) \/ ReadNoData(Server)
  \/ ServerHandshaking \/ ServerAuthenticating \/ ServerReady \/ ParseStops(Server, "write")
  \/ SkipWrite(Server, "poll") \/ WriteData(Server, "poll") \/ WriteError(Server, "poll")
  \/ WriteSigpipe(Server)
  \/ CloseClient

ServerFault == SpuriousPoll(Server, "read") \/ PollError(Server)
=============================================================================
