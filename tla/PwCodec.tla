------------------------------ MODULE PwCodec ------------------------------
(***************************************************************************)
(* The wire format of the native code as operators on sequences of bytes:  *)
(* pw_varint.c, pw_frame.c, pw_handshake.c and pw_auth.c.  A serializer    *)
(* returns the bytes it writes into a buffer with so much room, a parser a *)
(* record whose field parsed is what the C function returns; the other     *)
(* fields are there when that is positive.                                 *)
(***************************************************************************)
EXTENDS Integers, Sequences

PW_MAGIC_BYTE_1 == 80
PW_MAGIC_BYTE_2 == 87
PW_VERSION_1    == 1
PW_CAP_RESUME   == 16
PW_NONCE_SIZE      == 16
PW_SESSION_ID_SIZE == 16
PW_AUTH_METHOD_BEARER == 1
VarintBytes == 5   \* a 32-bit varint has at most so many bytes

(* parsed = 0: wait for more data.  parsed = -1: (size_t)-1, protocol error. *)
Wait     == [parsed |-> 0]
BadMagic == [parsed |-> -1]

Drop(s, n) == SubSeq(s, n + 1, Len(s))

(* if (buffer_len < required) return 0 *)
Fit(bytes, room) == IF Len(bytes) =< room THEN bytes ELSE << >>

(* write_u32_be, write_u16_be: v in n bytes, the most significant first. *)
WriteBE(v, n) == [i \in 1 .. n |-> (v \div 256 ^ (n - i)) % 256]

(* read_u32_be, read_u16_be *)
ReadBE(s) ==
  LET value[i \in 0 .. Len(s)] == IF i = 0 THEN 0 ELSE 256 * value[i - 1] + s[i]
  IN  value[Len(s)]
-----------------------------------------------------------------------------
(* pw_varint_encode32 *)
EncodeVarint[v \in Nat] ==
  IF v >= 128 THEN <<(v % 128) + 128>> \o EncodeVarint[v \div 128] ELSE <<v>>

(* The value of a varint: seven bits of each byte, the least significant first. *)
VarintValue(s) ==
  LET value[i \in 1 .. Len(s) + 1] ==
        IF i > Len(s) THEN 0 ELSE (s[i] % 128) + 128 * value[i + 1]
  IN  value[1]

(* pw_varint_decode32: up to the first byte without the top bit.  A fifth  *)
(* byte with one of its upper four bits set overflows; the result is the   *)
(* same as for a varint that has not arrived yet.                          *)
DecodeVarint(s) ==
  LET ends == {i \in 1 .. Len(s) : i =< VarintBytes /\ s[i] < 128}
      n    == CHOOSE i \in ends : \A j \in ends : i =< j
  IN  IF ends = {} \/ (n = VarintBytes /\ s[n] >= 16) THEN Wait
      ELSE [parsed |-> n, value |-> VarintValue(SubSeq(s, 1, n))]
-----------------------------------------------------------------------------
(* pw_frame_header_size and pw_frame_serialize_header *)
SerializeHeader(f, room) ==
  Fit(<<PW_MAGIC_BYTE_1, PW_MAGIC_BYTE_2, f.version, f.flags, f.opcode>>
        \o EncodeVarint[f.stream_id] \o EncodeVarint[f.length], room)

(* pw_frame_parse_header *)
ParseHeader(s) ==
  IF Len(s) < 5 THEN Wait
  ELSE IF SubSeq(s, 1, 2) # <<PW_MAGIC_BYTE_1, PW_MAGIC_BYTE_2>> THEN BadMagic
  ELSE LET id  == DecodeVarint(Drop(s, 5))
           len == DecodeVarint(Drop(s, 5 + id.parsed))
       IN  IF id.parsed = 0 \/ len.parsed = 0 THEN Wait
           ELSE [parsed |-> 5 + id.parsed + len.parsed,
                 version |-> s[3], flags |-> s[4], opcode |-> s[5],
                 stream_id |-> id.value, length |-> len.value]
-----------------------------------------------------------------------------
ClientHelloSize == 2 + 1 + 4 + PW_NONCE_SIZE + 1
ServerHelloSize == 2 + 1 + 4 + PW_NONCE_SIZE + PW_SESSION_ID_SIZE + 2 + 1

(* The resume bit of the capabilities follows the token. *)
WithResumeBit(caps, resume) ==
  LET set == (caps \div PW_CAP_RESUME) % 2 = 1
  IN  caps + (IF resume /\ ~set THEN PW_CAP_RESUME ELSE 0)
           - (IF set /\ ~resume THEN PW_CAP_RESUME ELSE 0)

(* pw_handshake_serialize_client_hello; resume_session_id is << >> for none. *)
SerializeClientHello(h, room) ==
  LET resume == h.resume_session_id # << >>
  IN  Fit(h.magic \o <<h.version>> \o WriteBE(WithResumeBit(h.capabilities, resume), 4)
            \o h.client_nonce \o <<IF resume THEN 1 ELSE 0>> \o h.resume_session_id, room)

(* pw_handshake_parse_client_hello: the magic is copied, not looked at. *)
ParseClientHello(s) ==
  LET resume == s[ClientHelloSize] = 1
      size   == ClientHelloSize + (IF resume THEN PW_SESSION_ID_SIZE ELSE 0)
  IN  IF Len(s) < ClientHelloSize THEN Wait
      ELSE IF Len(s) < size THEN Wait
      ELSE [parsed |-> size, magic |-> SubSeq(s, 1, 2), version |-> s[3],
            capabilities |-> ReadBE(SubSeq(s, 4, 7)),
            client_nonce |-> SubSeq(s, 8, 7 + PW_NONCE_SIZE),
            resume_session_id |-> SubSeq(s, ClientHelloSize + 1, size)]

(* pw_handshake_serialize_server_hello *)
SerializeServerHello(h, room) ==
  Fit(h.magic \o <<h.version>> \o WriteBE(h.capabilities, 4) \o h.server_nonce
        \o h.session_id \o WriteBE(h.status, 2) \o <<IF h.resume_accepted THEN 1 ELSE 0>>, room)

(* pw_handshake_parse_server_hello *)
ParseServerHello(s) ==
  LET at == 7 + PW_NONCE_SIZE + PW_SESSION_ID_SIZE
  IN  IF Len(s) < ServerHelloSize THEN Wait
      ELSE [parsed |-> ServerHelloSize, magic |-> SubSeq(s, 1, 2), version |-> s[3],
            capabilities |-> ReadBE(SubSeq(s, 4, 7)),
            server_nonce |-> SubSeq(s, 8, 7 + PW_NONCE_SIZE),
            session_id |-> SubSeq(s, 8 + PW_NONCE_SIZE, at),
            status |-> ReadBE(SubSeq(s, at + 1, at + 2)),
            resume_accepted |-> s[at + 3] = 1]
-----------------------------------------------------------------------------
(* pw_auth_serialize_request *)
SerializeAuth(r, room) == Fit(<<r.method>> \o WriteBE(Len(r.token), 4) \o r.token, room)

(* pw_auth_parse_request *)
ParseAuth(s) ==
  LET n == ReadBE(SubSeq(s, 2, 5))
  IN  IF Len(s) < 5 THEN Wait
      ELSE IF Len(s) - 5 < n THEN Wait
      ELSE [parsed |-> 5 + n, method |-> s[1], token |-> SubSeq(s, 6, 5 + n)]

(* pw_auth_validate_bearer *)
ValidateBearer(r, expected) == r.method = PW_AUTH_METHOD_BEARER /\ r.token = expected
=============================================================================
