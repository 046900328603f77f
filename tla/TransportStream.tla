-------------------------- MODULE TransportStream --------------------------
(***************************************************************************)
(* One pw_transport_t at work between its socket and its user: the event   *)
(* loops of server_main.c and client_main.c call pw_transport_read, parse  *)
(* and consume what it brought, queue replies behind what is still unsent, *)
(* and call pw_transport_write.  The histories record what passed each of  *)
(* the four ends, so that "partial I/O is handled correctly" can be stated *)
(* for any interleaving of short reads, short writes and queueing.         *)
(***************************************************************************)
EXTENDS PwTransport

CONSTANTS Byte,           \* the values a byte may have
          MaxBytes,       \* bound: bytes in each direction
          QueueAtFront    \* TRUE: the user queues output only while write_pos = 0
                          \* FALSE: it queues whenever it has a reply, as the loops do

ASSUME ByteAssumption == NoByte \notin Byte
ASSUME MaxBytesAssumption == MaxBytes \in Nat
ASSUME QueueAtFrontAssumption == QueueAtFront \in BOOLEAN

VARIABLES t,         \* the transport
          arrived,   \* history: every byte the peer has sent to this socket
          taken,     \* history: every byte the parser has consumed
          queued,    \* history: every byte queued for output
          wire       \* history: every byte send() accepted

vars == <<t, arrived, taken, queued, wire>>

Init == /\ t = TransportInit(Uninitialised)
        /\ arrived = << >> /\ taken = << >>
        /\ queued  = << >> /\ wire  = << >>

(* Bytes that recv has already returned. *)
Received == Len(taken) + t.read_len

(* The peer's bytes reach the socket (the kernel, external). *)
Arrive == /\ Len(arrived) < MaxBytes
          /\ \E b \in Byte : arrived' = Append(arrived, b)
          /\ UNCHANGED <<t, taken, queued, wire>>

(* pw_transport_read, and recv returns n > 0 bytes. *)
Read == /\ ~ReadBufferFull(t)
        /\ \E n \in 1 .. ReadSpace(t) :
             /\ Received + n =< Len(arrived)
             /\ t' = TransportRead(t, SubSeq(arrived, Received + 1, Received + n))
        /\ UNCHANGED <<arrived, taken, queued, wire>>

(* pw_transport_read, and recv returns nothing: the window has moved all the same. *)
ReadNothing == /\ ~ReadBufferFull(t)
               /\ t' = TransportRead(t, << >>)
               /\ UNCHANGED <<arrived, taken, queued, wire>>

(* The parse loop takes a complete message of n bytes off the window. *)
Parse == /\ \E n \in 1 .. t.read_len :
              /\ taken' = taken \o SubSeq(ReadWindow(t), 1, n)
              /\ t' = Consume(t, n)
         /\ UNCHANGED <<arrived, queued, wire>>

(* A reply is queued behind the unsent bytes. *)
Queue == /\ QueueAtFront => t.write_pos = 0
         /\ \E n \in 1 .. (MaxBytes - Len(queued)) :
              /\ HasRoom(t, n)
              /\ \E bytes \in [1 .. n -> Byte] :
                   /\ t' = Enqueue(t, bytes)
                   /\ queued' = queued \o bytes
         /\ UNCHANGED <<arrived, taken, wire>>

(* pw_transport_write, and send accepts n > 0 of the bytes offered.  When  *)
(* it accepts none (EAGAIN, an error) nothing changes.                     *)
Write == /\ \E n \in 1 .. t.write_len :
              /\ wire' = wire \o SubSeq(WriteWindow(t), 1, n)
              /\ t' = TransportWrite(t, n)
         /\ UNCHANGED <<arrived, taken, queued>>

Next == Arrive \/ Read \/ ReadNothing \/ Parse \/ Queue \/ Write

Spec == Init /\ [][Next]_vars
-----------------------------------------------------------------------------
Cell == Byte \cup {NoByte}

(* The struct and the histories have their types. *)
TypeOK == /\ t \in Transport(Cell)
          /\ arrived \in Seq(Byte) /\ taken \in Seq(Cell)
          /\ queued \in Seq(Byte)  /\ wire \in Seq(Cell)

ReadWindowInBuffer  == t.read_pos + t.read_len =< PW_BUFFER_SIZE
WriteWindowInBuffer == t.write_pos + t.write_len =< PW_BUFFER_SIZE

(* Neither window ever reaches past the end of its array: recv is never    *)
(* given memory behind read_buffer, send never reads behind write_buffer   *)
(* (pw_transport.c:43-45 and 65-67).                                       *)
WindowsInBuffers == ReadWindowInBuffer /\ WriteWindowInBuffer

(* The unread window is exactly the bytes that follow the consumed ones in *)
(* the peer's stream: compaction, short reads and the reset of read_pos    *)
(* lose, repeat and overwrite nothing (pw_transport.c:33-48).              *)
ReadIntact == /\ Received =< Len(arrived)
              /\ \A i \in 1 .. Len(taken) : taken[i] = arrived[i]
              /\ \A i \in 1 .. t.read_len :
                   Load(t.read_buffer, t.read_pos + i - 1) = arrived[Len(taken) + i]

(* docs/production_readiness.md:12, for writes: what send accepted is what *)
(* was queued, in the order it was queued, however short the writes were.  *)
WireInOrder == /\ Len(wire) =< Len(queued)
               /\ \A i \in 1 .. Len(wire) : wire[i] = queued[i]

(* The unsent window is exactly the queued bytes that send has not taken   *)
(* yet, whatever the short writes (pw_transport.c:69-75).                  *)
WriteIntact == /\ WireInOrder
               /\ Len(queued) = Len(wire) + t.write_len
               /\ \A i \in 1 .. t.write_len :
                    Load(t.write_buffer, t.write_pos + i - 1) = queued[Len(wire) + i]
-----------------------------------------------------------------------------
Reading == INSTANCE ByteStream WITH put <- arrived, got <- taken
Writing == INSTANCE ByteStream WITH put <- queued, got <- wire

(* The read half of the transport implements a byte stream from the peer   *)
(* to the parser.                                                          *)
ReadFifo == Reading!Spec

(* The write half implements a byte stream from the queueing code to the   *)
(* wire.                                                                   *)
WriteFifo == Writing!Spec
=============================================================================
