----------------------------- MODULE EventLoop -----------------------------
(***************************************************************************)
(* The steps the event loops of client_main.c and server_main.c share: the *)
(* loop test, poll(), pw_transport_read with the caller's test of errno,   *)
(* pw_transport_write with the CLOSING test behind it, and close().  Each  *)
(* system call is a step of its own, so that the two programs and the      *)
(* network interleave between them.                                        *)
(*                                                                         *)
(* A byte is a cell <<m, i>>, the i-th of the Cells[m.kind] cells message  *)
(* m takes on the wire: enough for a message to be cut anywhere.           *)
(***************************************************************************)
EXTENDS PwConnection, PwTransport, Tcp

CONSTANTS Server,       \* the server process
          NoClient,     \* no connection accepted
          Cells,        \* wire size of each kind of message, in cells
          Faults,       \* the faults of the environment that may happen
          MaxFaults     \* bound: how many of them

Process == Clients \cup {Server}
Kind == {"CLIENT_HELLO", "SERVER_HELLO", "AUTH", "AUTH_OK", "DATA_BINARY", "DATA_TEXT",
         "PING", "PONG", "CLOSE"}

ASSUME ProcessAssumption == Server \notin Clients /\ NoClient \notin Clients
ASSUME CellsAssumption == Cells \in [Kind -> Nat \ {0}]
ASSUME FaultsAssumption == Faults \subseteq {"spurious", "poll_error", "crash"} /\ MaxFaults \in Nat

VARIABLES pc,           \* pc[p]: the next system call or step of process p
          conn,         \* conn[p]: pw_connection_t.state
          tr,           \* tr[p]: pw_transport_t
          errnoAgain,   \* errnoAgain[p]: errno is EAGAIN, set by some earlier call
          revents,      \* revents[p]: what poll() reported
          cur,          \* the connection the server has accepted
          backlog,      \* connections waiting for accept()
          faults        \* faults so far

loopVars == <<pc, conn, tr, errnoAgain, revents, cur, backlog, faults>>
vars == <<tcpVars, loopVars>>

At(p) == IF p = Server THEN <<cur, "server">> ELSE <<p, "client">>

EventLoopInit ==
  /\ TcpInit
  /\ pc = [p \in Process |-> IF p = Server THEN "accept" ELSE "start"]
  /\ conn = [p \in Process |-> ConnectionInit]
  /\ tr = [p \in Process |-> Uninitialised]
  /\ errnoAgain = [p \in Process |-> FALSE]
  /\ revents = [p \in Process |-> {}]
  /\ cur = NoClient /\ backlog = << >> /\ faults = 0

Goto(p, label) == pc' = [pc EXCEPT ![p] = label]

Fault(f) == f \in Faults /\ faults < MaxFaults /\ faults' = faults + 1
-----------------------------------------------------------------------------
(* while (conn.state != CLOSED && conn.state != DISCONNECTED) *)
LoopRuns(p) == conn[p] \notin {"CLOSED", "DISCONNECTED"}

LeaveLoop(p) ==
  /\ pc[p] = "poll" /\ ~LoopRuns(p)
  /\ Goto(p, "close")
  /\ UNCHANGED <<tcpVars, conn, tr, errnoAgain, revents, cur, backlog, faults>>

(* What poll() is asked to report: POLLOUT only when there is output. *)
Wanted(p) == {"POLLIN"} \cup (IF tr[p].write_len > 0 THEN {"POLLOUT"} ELSE {})

(* poll() returns; the socket always has room for the little that is sent. *)
(* A timeout brings the loop back here with nothing changed.               *)
Poll(p, next) ==
  /\ pc[p] = "poll" /\ LoopRuns(p)
  /\ LET ready == Wanted(p) \ (IF Readable(At(p)) THEN {} ELSE {"POLLIN"})
     IN  ready # {} /\ revents' = [revents EXCEPT ![p] = ready]
  /\ Goto(p, next)
  /\ UNCHANGED <<tcpVars, conn, tr, errnoAgain, cur, backlog, faults>>

(* poll() reports input that recv() then does not find (select(2), BUGS). *)
SpuriousPoll(p, next) ==
  /\ pc[p] = "poll" /\ LoopRuns(p) /\ ~Readable(At(p))
  /\ Fault("spurious")
  /\ revents' = [revents EXCEPT ![p] = Wanted(p)]
  /\ Goto(p, next)
  /\ UNCHANGED <<tcpVars, conn, tr, errnoAgain, cur, backlog>>

(* poll() fails, with an errno of its own: break. *)
PollError(p) ==
  /\ pc[p] = "poll" /\ LoopRuns(p)
  /\ Fault("poll_error")
  /\ errnoAgain' = [errnoAgain EXCEPT ![p] = FALSE]
  /\ Goto(p, "close")
  /\ UNCHANGED <<tcpVars, conn, tr, revents, cur, backlog>>
-----------------------------------------------------------------------------
(* No POLLIN: the loop goes on behind the read. *)
SkipRead(p, after) ==
  /\ pc[p] = "read" /\ "POLLIN" \notin revents[p]
  /\ Goto(p, after)
  /\ UNCHANGED <<tcpVars, conn, tr, errnoAgain, revents, cur, backlog, faults>>

(* recv() returns n > 0 bytes. *)
ReadData(p) ==
  /\ pc[p] = "read" /\ "POLLIN" \in revents[p] /\ ~ReadBufferFull(tr[p])
  /\ \E n \in 1 .. Len(net[At(p)]) :
       /\ n =< ReadSpace(tr[p])
       /\ tr' = [tr EXCEPT ![p] = TransportRead(@, SubSeq(net[At(p)], 1, n))]
       /\ TcpRecv(At(p), n)
  /\ Goto(p, "parse")
  /\ UNCHANGED <<conn, errnoAgain, revents, cur, backlog, faults>>

(* Mutant of AfterNoData: the loop never gives up. *)
AfterNoDataNeverBreaks(p) == "parse"

(* Mutant of AfterNoData: errno is not looked at. *)
AfterNoDataAlwaysBreaks(p) == "close"

(* The caller's test after r <= 0: break unless errno is EAGAIN. *)
AfterNoData(p) == IF errnoAgain'[p] THEN "parse" ELSE "close"

(* pw_transport_read returns 0 or less.  A full buffer and the end of the  *)
(* stream leave errno as an earlier call set it; a reset and an empty      *)
(* queue store their own code.                                             *)
ReadNoData(p) ==
  /\ pc[p] = "read" /\ "POLLIN" \in revents[p]
  /\ \/ /\ ReadBufferFull(tr[p])
        /\ UNCHANGED <<tr, errnoAgain>>
     \/ /\ ~ReadBufferFull(tr[p]) /\ net[At(p)] = << >>
        /\ tr' = [tr EXCEPT ![p] = TransportRead(@, << >>)]
        /\ errnoAgain' = [errnoAgain EXCEPT ![p] =
                            IF rst[At(p)] THEN FALSE
                            ELSE IF sock[Other(At(p))] = "closed" THEN @
                            ELSE TRUE]
  /\ Goto(p, AfterNoData(p))
  /\ UNCHANGED <<tcpVars, conn, revents, cur, backlog, faults>>
-----------------------------------------------------------------------------
SkipWrite(p, after) ==
  /\ pc[p] = "write" /\ "POLLOUT" \notin revents[p]
  /\ Goto(p, after)
  /\ UNCHANGED <<tcpVars, conn, tr, errnoAgain, revents, cur, backlog, faults>>

(* Mutant of AfterWrite: any connection is closed once its output is sent. *)
AfterWriteClosesAny(s, t) == IF t.write_len = 0 THEN Transition(s, "CLOSED") ELSE s

(* Mutant of AfterWrite: a closing connection stays CLOSING. *)
AfterWriteStaysClosing(s, t) == s

(* After pw_transport_write: a closing connection that has sent everything is closed. *)
AfterWrite(s, t) == IF s = "CLOSING" /\ t.write_len = 0 THEN Transition(s, "CLOSED") ELSE s

(* send() accepts n > 0 bytes. *)
WriteData(p, after) ==
  /\ pc[p] = "write" /\ "POLLOUT" \in revents[p] /\ ~rst[At(p)]
  /\ \E n \in 1 .. tr[p].write_len :
       /\ TcpSend(At(p), SubSeq(WriteWindow(tr[p]), 1, n))
       /\ tr' = [tr EXCEPT ![p] = TransportWrite(@, n)]
  /\ conn' = [conn EXCEPT ![p] = AfterWrite(@, tr'[p])]
  /\ Goto(p, after)
  /\ UNCHANGED <<errnoAgain, revents, cur, backlog, faults>>

(* send() on a reset connection fails; the return value is not looked at. *)
WriteError(p, after) ==
  /\ pc[p] = "write" /\ "POLLOUT" \in revents[p] /\ rst[At(p)]
  /\ errnoAgain' = [errnoAgain EXCEPT ![p] = FALSE]
  /\ Goto(p, after)
  /\ UNCHANGED <<tcpVars, conn, tr, revents, cur, backlog, faults>>

(* ... or raises SIGPIPE, which nobody handles: the process dies and the   *)
(* kernel closes its sockets, the server's unaccepted connections included.*)
WriteSigpipe(p) ==
  /\ pc[p] = "write" /\ "POLLOUT" \in revents[p] /\ rst[At(p)]
  /\ LET mine == {e \in Endpoint : sock[e] = "open" /\ IF p = Server THEN e[2] = "server" ELSE e = At(p)}
     IN  TcpCloseAll(mine, {e \in mine : net[e] # << >> \/ (p = Server /\ e # At(p))})
  /\ backlog' = IF p = Server THEN << >> ELSE backlog
  /\ Goto(p, "killed")
  /\ UNCHANGED <<conn, tr, errnoAgain, revents, cur, faults>>
-----------------------------------------------------------------------------
(* The parse loop's view of the read buffer: the first message, when it is *)
(* complete (parsed > 0 and read_len >= parsed + frame.length).            *)
Window(p) == ReadWindow(tr[p])

First(p) == Load(tr[p].read_buffer, tr[p].read_pos)

Complete(p) == /\ tr[p].read_len > 0
               /\ First(p) # NoByte /\ First(p)[2] = 1
               /\ tr[p].read_len >= Cells[First(p)[1].kind]

Message(p) == First(p)[1]

Bytes(m) == [i \in 1 .. Cells[m.kind] |-> <<m, i>>]

(* The tail of every parse case: the message leaves the read buffer. *)
Taken(p) == Consume(tr[p], Cells[Message(p).kind])

(* A serialize function refuses (returns 0) when the message does not fit. *)
Reply(t, m) == IF HasRoom(t, Cells[m.kind]) THEN Enqueue(t, Bytes(m)) ELSE t

(* A frame with a payload: the header if there is room for it, then the    *)
(* payload bytes, room or not.                                             *)
ReplyWithPayload(t, bytes) ==
  LET h == IF HasRoom(t, 1) THEN Enqueue(t, SubSeq(bytes, 1, 1)) ELSE t
  IN  Enqueue(h, SubSeq(bytes, 2, Len(bytes)))

(* break: nothing complete is left, or the state takes no input. *)
ParseStops(p, after) ==
  /\ pc[p] = "parse"
  /\ ~Complete(p) \/ conn[p] \notin {"HANDSHAKING", "AUTHENTICATING", "READY"}
  /\ Goto(p, after)
  /\ UNCHANGED <<tcpVars, conn, tr, errnoAgain, revents, cur, backlog, faults>>

(* A parse case of the loop: the state it applies to, the state requested, *)
(* the transport afterwards; the loop then looks at the window again.      *)
ParseCase(p, s, new, t) ==
  /\ pc[p] = "parse" /\ conn[p] = s /\ Complete(p)
  /\ conn' = [conn EXCEPT ![p] = Transition(@, new)]
  /\ tr' = [tr EXCEPT ![p] = t]
  /\ UNCHANGED <<tcpVars, pc, errnoAgain, revents, cur, backlog, faults>>
=============================================================================
