---------------------------- MODULE StreamClient ----------------------------
(***************************************************************************)
(* php/src/PhoenixWire/StreamClient.php, the client in plain PHP, with its *)
(* own encoders and decoders, over a TCP connection to a peer that writes  *)
(* with the native ones.  connect() reads from a blocking stream, receive()*)
(* from one that is non-blocking once connect() has succeeded.             *)
(***************************************************************************)
EXTENDS PwCodec, SequencesExt

CONSTANTS token,        \* the bearer token, as bytes
          Payloads,     \* what the application sends
          PeerFrames,   \* what the peer sends once the handshake is over
          ShortWrites,  \* fwrite on the non-blocking stream may write a part only
          MaxSends, MaxPeerFrames, MaxCuts   \* bounds, for each connection

OPCODE_DATA_BINARY == 1
OPCODE_DATA_TEXT   == 2
OPCODE_CLOSE       == 8
OPCODE_PING        == 9
OPCODE_PONG        == 10
OPCODE_AUTH        == 15
OPCODE_AUTH_OK     == 16
FLAG_FIN           == 128
CAP_AUTH_BEARER    == 4

Byte == 0 .. 255

ASSUME StreamClientAssumption ==
  /\ token \in Seq(Byte) /\ Payloads \subseteq Seq(Byte) /\ ShortWrites \in BOOLEAN
  /\ \A f \in PeerFrames : f.opcode \in Byte /\ f.stream_id \in Nat /\ f.payload \in Seq(Byte)
  /\ MaxSends \in Nat /\ MaxPeerFrames \in Nat /\ MaxCuts \in Nat

VARIABLES pc,         \* "app", or the read connect() or receive() waits in
          stream,     \* $stream: "none" or "open"
          blocking,   \* stream_set_blocking
          out,        \* every byte written on this connection
          sent,       \* history: the frames these bytes are meant to be
          flight,     \* bytes on their way to the client
          inq,        \* bytes it can read
          ended,      \* the peer has closed
          status,     \* history: the status of the peer's hello, -1 before it
          said,       \* history: the payloads of the peer's data frames
          got,        \* history: what receive() has returned
          count       \* how often each bounded thing has happened on this connection

clientVars == <<pc, stream, blocking, out, sent, got>>
peerVars   == <<flight, ended, status, said>>
vars == <<clientVars, peerVars, inq, count>>

NothingYet == [sends |-> 0, frames |-> 0, cuts |-> 0]

Init == /\ pc = "app" /\ stream = "none" /\ blocking = TRUE
        /\ out = << >> /\ sent = << >> /\ got = << >>
        /\ flight = << >> /\ inq = << >> /\ ended = FALSE /\ status = -1 /\ said = << >>
        /\ count = NothingYet

Counted(what, bound) == count[what] < bound /\ count' = [count EXCEPT ![what] = @ + 1]
-----------------------------------------------------------------------------
Nonce == [i \in 1 .. 16 |-> 0]

(* Mutant of Hello: the version in one byte. *)
HelloOneByteVersion ==
  <<PW_MAGIC_BYTE_1, PW_MAGIC_BYTE_2, PW_VERSION_1>> \o WriteBE(CAP_AUTH_BEARER, 4) \o Nonce \o <<0>>

(* connect(): the hello, its version packed as a 32-bit number. *)
Hello == <<PW_MAGIC_BYTE_1, PW_MAGIC_BYTE_2>> \o WriteBE(PW_VERSION_1, 4)
           \o WriteBE(CAP_AUTH_BEARER, 4) \o Nonce \o <<0>>

HelloStatus(s) == ReadBE(SubSeq(s, 40, 41))

AuthPayload == <<1>> \o WriteBE(Len(token), 4) \o token

(* sendFrame(): the length as a varint. *)
LengthBytes[v \in Nat] ==
  IF v \div 128 > 0 THEN <<(v % 128) + 128>> \o LengthBytes[v \div 128] ELSE <<v % 128>>

(* Mutant of FrameBytes: the stream id is left out. *)
FrameBytesNoId(opcode, payload) ==
  <<PW_MAGIC_BYTE_1, PW_MAGIC_BYTE_2, PW_VERSION_1, FLAG_FIN, opcode>>
    \o LengthBytes[Len(payload)] \o payload

FrameBytes(opcode, payload) ==
  <<PW_MAGIC_BYTE_1, PW_MAGIC_BYTE_2, PW_VERSION_1, FLAG_FIN, opcode, 0>>
    \o LengthBytes[Len(payload)] \o payload

(* sendFrame(); the result of fwrite is not looked at. *)
SendFrame(opcode, payload) ==
  LET bytes == FrameBytes(opcode, payload)
  IN  /\ \E n \in (IF ShortWrites /\ ~blocking THEN 0 ELSE Len(bytes)) .. Len(bytes) :
           out' = out \o SubSeq(bytes, 1, n)
      /\ sent' = Append(sent, [opcode |-> opcode, payload |-> payload])

(* Mutant of ReadVarint: one byte, whatever its top bit says. *)
ReadVarintOneByte(s) == IF s = << >> THEN Wait ELSE [parsed |-> 1, value |-> s[1] % 128]

(* readVarint(): of any length. *)
ReadVarint(s) ==
  LET ends == {i \in 1 .. Len(s) : s[i] < 128}
      n    == CHOOSE i \in ends : \A j \in ends : i =< j
  IN  IF ends = {} THEN Wait ELSE [parsed |-> n, value |-> VarintValue(SubSeq(s, 1, n))]

(* readFrame() on what can be read: Wait where readExact finds nothing. *)
ReadFrame(s) ==
  IF Len(s) < 5 THEN Wait
  ELSE IF SubSeq(s, 1, 2) # <<PW_MAGIC_BYTE_1, PW_MAGIC_BYTE_2>> THEN BadMagic
  ELSE LET id   == ReadVarint(Drop(s, 5))
           len  == ReadVarint(Drop(s, 5 + id.parsed))
           from == 5 + id.parsed + len.parsed
       IN  IF id.parsed = 0 \/ len.parsed = 0 THEN Wait
           ELSE IF Len(s) - from < len.value THEN Wait
           ELSE [parsed |-> from + len.value, opcode |-> s[5],
                 payload |-> SubSeq(s, from + 1, from + len.value)]
-----------------------------------------------------------------------------
(* connect(): stream_socket_client, and the hello.  A stream from an       *)
(* earlier call is let go.                                                 *)
Connect ==
  /\ pc = "app"
  /\ \/ /\ pc' = "hello" /\ stream' = "open" /\ blocking' = TRUE /\ out' = Hello
     \/ /\ stream' = "none" /\ out' = << >> /\ UNCHANGED <<pc, blocking>>   \* connection failed
  /\ sent' = << >> /\ got' = << >>
  /\ flight' = << >> /\ inq' = << >> /\ ended' = FALSE /\ status' = -1 /\ said' = << >>
  /\ count' = NothingYet

(* connect() throws: the stream stays as it is. *)
Throw == pc' = "app" /\ UNCHANGED <<stream, blocking, out, sent, got>>

(* Mutant of HelloArrives: the status is not looked at. *)
HelloArrivesAnyStatus ==
  /\ pc = "hello" /\ Len(inq) >= 42
  /\ inq' = Drop(inq, 42)
  /\ IF SubSeq(inq, 1, 2) # <<PW_MAGIC_BYTE_1, PW_MAGIC_BYTE_2>> THEN Throw
     ELSE SendFrame(OPCODE_AUTH, AuthPayload) /\ pc' = "auth" /\ UNCHANGED <<stream, blocking, got>>
  /\ UNCHANGED <<peerVars, count>>

(* The server's hello: checked for its magic and its status, and answered  *)
(* with the token.                                                         *)
HelloArrives ==
  /\ pc = "hello" /\ Len(inq) >= 42
  /\ inq' = Drop(inq, 42)
  /\ IF SubSeq(inq, 1, 2) # <<PW_MAGIC_BYTE_1, PW_MAGIC_BYTE_2>> \/ HelloStatus(inq) # 0 THEN Throw
     ELSE SendFrame(OPCODE_AUTH, AuthPayload) /\ pc' = "auth" /\ UNCHANGED <<stream, blocking, got>>
  /\ UNCHANGED <<peerVars, count>>

(* The answer to AUTH. *)
AuthAnswered ==
  LET f == ReadFrame(inq)
  IN  /\ pc = "auth" /\ f.parsed # 0
      /\ inq' = Drop(inq, IF f.parsed = -1 THEN 5 ELSE f.parsed)
      /\ IF f.parsed = -1 THEN Throw
         ELSE IF f.opcode # OPCODE_AUTH_OK THEN Throw
         ELSE pc' = "app" /\ blocking' = FALSE /\ UNCHANGED <<stream, out, sent, got>>
      /\ UNCHANGED <<peerVars, count>>

(* The read in connect() meets the end of the stream, or its timeout: what *)
(* it had read is lost.                                                    *)
ConnectReadFails ==
  /\ \/ pc = "hello" /\ Len(inq) < 42
     \/ pc = "auth" /\ ReadFrame(inq).parsed = 0
  /\ inq' = << >>
  /\ Throw /\ UNCHANGED <<peerVars, count>>

(* send(): whether connect() succeeded is not asked. *)
Send(payload) ==
  /\ pc = "app" /\ stream = "open" /\ Counted("sends", MaxSends)
  /\ SendFrame(OPCODE_DATA_TEXT, payload)
  /\ UNCHANGED <<pc, stream, blocking, got, peerVars, inq>>

(* disconnect(), and what both calls of it in receive() do. *)
CloseStream == SendFrame(OPCODE_CLOSE, << >>) /\ pc' = "app" /\ stream' = "none"

Disconnect ==
  /\ pc = "app" /\ stream = "open"
  /\ CloseStream /\ UNCHANGED <<blocking, got, peerVars, inq, count>>

(* receive(): stream_select finds the stream readable. *)
Receive ==
  /\ pc = "app" /\ stream = "open" /\ (inq # << >> \/ ended)
  /\ pc' = "receive"
  /\ UNCHANGED <<stream, blocking, out, sent, got, peerVars, inq, count>>

(* A whole frame is read. *)
FrameArrives ==
  LET f == ReadFrame(inq)
  IN  /\ pc = "receive" /\ f.parsed > 0
      /\ inq' = Drop(inq, f.parsed)
      /\ CASE f.opcode = OPCODE_CLOSE -> CloseStream /\ UNCHANGED got
           [] f.opcode = OPCODE_PING ->
                SendFrame(OPCODE_PONG, << >>) /\ pc' = "app" /\ UNCHANGED <<stream, got>>
           [] f.opcode \in {OPCODE_DATA_TEXT, OPCODE_DATA_BINARY} ->
                got' = Append(got, f.payload) /\ pc' = "app" /\ UNCHANGED <<stream, out, sent>>
           [] OTHER -> pc' = "app" /\ UNCHANGED <<stream, out, sent, got>>
      /\ UNCHANGED <<blocking, peerVars, count>>

(* readFrame() throws: a bad magic, the end of the stream, the timeout of  *)
(* a blocking read, or a non-blocking one that finds the rest of a frame   *)
(* not arrived yet.                                                        *)
FrameBroken ==
  /\ pc = "receive" /\ ReadFrame(inq).parsed =< 0
  /\ CloseStream /\ UNCHANGED <<blocking, got, peerVars, inq, count>>
-----------------------------------------------------------------------------
(* The peer: a hello with some status, the answer to AUTH in its own or in *)
(* this client's numbering, then frames, at any pace.                      *)
PeerHello(s) ==
  SerializeServerHello(
    [magic |-> <<PW_MAGIC_BYTE_1, PW_MAGIC_BYTE_2>>, version |-> PW_VERSION_1,
     capabilities |-> CAP_AUTH_BEARER, server_nonce |-> Nonce, session_id |-> Nonce,
     status |-> s, resume_accepted |-> FALSE], 4096)

PeerFrame(f) ==
  SerializeHeader([version |-> PW_VERSION_1, flags |-> 16, opcode |-> f.opcode,
                   stream_id |-> f.stream_id, length |-> Len(f.payload)], 4096) \o f.payload

PeerSaysHello ==
  /\ stream = "open" /\ ~ended /\ status = -1
  /\ \E s \in {0, 1002} : status' = s /\ flight' = flight \o PeerHello(s)
  /\ UNCHANGED <<clientVars, ended, said, inq, count>>

PeerSaysFrame(f) ==
  /\ stream = "open" /\ status # -1 /\ ~ended /\ Counted("frames", MaxPeerFrames)
  /\ (count.frames = 0) <=> (f.opcode \in {7, OPCODE_AUTH_OK})
  /\ flight' = flight \o PeerFrame(f)
  /\ said' = IF f.opcode \in {OPCODE_DATA_TEXT, OPCODE_DATA_BINARY} THEN Append(said, f.payload) ELSE said
  /\ UNCHANGED <<clientVars, ended, status, inq>>

PeerCloses ==
  /\ stream = "open" /\ ~ended /\ flight = << >>
  /\ ended' = TRUE
  /\ UNCHANGED <<clientVars, flight, status, said, inq, count>>

(* All that is on its way arrives, or only a first part of it. *)
Arrive ==
  /\ stream = "open" /\ flight # << >>
  /\ \/ inq' = inq \o flight /\ flight' = << >> /\ UNCHANGED count
     \/ /\ Counted("cuts", MaxCuts)
        /\ \E n \in 1 .. Len(flight) - 1 :
             inq' = inq \o SubSeq(flight, 1, n) /\ flight' = Drop(flight, n)
  /\ UNCHANGED <<clientVars, ended, status, said>>

Next == \/ Connect \/ HelloArrives \/ AuthAnswered \/ ConnectReadFails
        \/ \E p \in Payloads : Send(p)
        \/ Disconnect \/ Receive \/ FrameArrives \/ FrameBroken
        \/ PeerSaysHello \/ (\E f \in PeerFrames : PeerSaysFrame(f)) \/ PeerCloses \/ Arrive

Spec == Init /\ [][Next]_vars
-----------------------------------------------------------------------------
(* receive() returns what the peer sent, in order, each once and           *)
(* unchanged, however the bytes were cut, also after a connect() that gave *)
(* up in the middle of a message; and nothing is left behind on a          *)
(* connection that is up and quiet (StreamClient.php:114-140, 177-197).    *)
Delivered ==
  /\ IsPrefix(got, said)
  /\ pc = "app" /\ stream = "open" /\ ~blocking /\ inq = << >> /\ flight = << >> => got = said

(* The token goes only to a peer whose hello on this connection accepted   *)
(* the client (StreamClient.php:84-97).                                    *)
TokenAfterAcceptance ==
  \A i \in 1 .. Len(sent) : sent[i].opcode = OPCODE_AUTH => status = 0

(* The frames in s, read with the daemon's parser; nothing may be left. *)
DaemonFrames[s \in Seq(Byte)] ==
  LET h == ParseHeader(s)
  IN  IF s = << >> THEN << >>
      ELSE IF h.parsed =< 0 THEN <<Wait>>
      ELSE IF Len(s) < h.parsed + h.length THEN <<Wait>>
      ELSE <<[opcode |-> h.opcode, payload |-> SubSeq(s, h.parsed + 1, h.parsed + h.length)]>>
             \o DaemonFrames[Drop(s, h.parsed + h.length)]

(* docs/production_readiness.md:38: what this client writes behind its     *)
(* hello, the daemon's parser takes apart into the frames that were meant; *)
(* the AUTH payload is the native one; and both read the same status from  *)
(* a server's hello.                                                       *)
DialectsAgree ==
  /\ DaemonFrames[Drop(out, Len(Hello))] = sent
  /\ \A i \in 1 .. Len(sent) : sent[i].opcode = OPCODE_AUTH =>
       /\ sent[i].payload = SerializeAuth([method |-> PW_AUTH_METHOD_BEARER, token |-> token], 4096)
       /\ ValidateBearer(ParseAuth(sent[i].payload), token)
  /\ pc = "hello" /\ Len(inq) >= 42 =>
       ParseServerHello(inq).parsed = 42 /\ ParseServerHello(inq).status = HelloStatus(inq)

(* What the daemon answers to a hello (server_main.c:107-109). *)
DaemonStatus(hello) == IF ParseClientHello(hello).version = PW_VERSION_1 THEN 0 ELSE 1002

(* connect() comes up only with a peer that is not the daemon: whatever    *)
(* the peer answered, the daemon answers something else to these bytes,    *)
(* because it takes the first byte of the four-byte version for the        *)
(* version (StreamClient.php:64-68, server_main.c:107).                    *)
DaemonShutOut ==
  stream = "open" /\ ~blocking => status # DaemonStatus(out)
=============================================================================
