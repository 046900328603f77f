--------------------------- MODULE MCStreamClient ---------------------------
(***************************************************************************)
(* StreamClient for TLC, and the native codec on the inputs at the edges   *)
(* of its ranges.                                                          *)
(***************************************************************************)
EXTENDS StreamClient

MCToken      == <<115, 101>>
MCPayloads   == {<<5>>}
MCPeerFrames ==
  {[opcode |-> o, stream_id |-> 0, payload |-> << >>] : o \in {7, OPCODE_AUTH_OK, OPCODE_PING, OPCODE_CLOSE}}
    \cup {[opcode |-> OPCODE_DATA_TEXT, stream_id |-> 200, payload |-> <<3>>],
          [opcode |-> OPCODE_DATA_BINARY, stream_id |-> 0, payload |-> << >>]}

(* pw_varint.c on the largest value of each length and the one after it:   *)
(* what was encoded comes back, every strict prefix waits for more, and a  *)
(* fifth byte that overflows is not taken.                                 *)
Edges == UNION {{128 ^ k - 1, 128 ^ k} : k \in 1 .. 4} \cup {0, 2147483647}
ASSUME VarintEdges ==
  /\ \A v \in Edges :
       LET b == EncodeVarint[v]
       IN  /\ DecodeVarint(b) = [parsed |-> Len(b), value |-> v]
           /\ \A n \in 0 .. Len(b) - 1 : DecodeVarint(SubSeq(b, 1, n)) = Wait
           /\ LengthBytes[v] = b
  /\ DecodeVarint(<<255, 255, 255, 255, 16>>) = Wait

(* pw_handshake.c: a client's hello comes back as it was, with and without *)
(* a session to resume, and every strict prefix waits for more.            *)
ASSUME HelloRoundTrip ==
  \A resume \in {<< >>, [i \in 1 .. 16 |-> i]}, caps \in {0, 4, 16, 31} :
    LET h == [magic |-> <<80, 87>>, version |-> 1, capabilities |-> caps,
              client_nonce |-> [i \in 1 .. 16 |-> 255 - i], resume_session_id |-> resume]
        b == SerializeClientHello(h, 4096)
        p == ParseClientHello(b)
    IN  /\ p.parsed = Len(b) /\ p.version = 1 /\ p.client_nonce = h.client_nonce
        /\ p.resume_session_id = resume /\ p.capabilities = WithResumeBit(caps, resume # << >>)
        /\ \A n \in 0 .. Len(b) - 1 : ParseClientHello(SubSeq(b, 1, n)) = Wait
=============================================================================
