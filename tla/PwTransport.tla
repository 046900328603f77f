---------------------------- MODULE PwTransport ----------------------------
(***************************************************************************)
(* pw_transport_t and the operations on it (native/src/pw_transport.c,     *)
(* native/include/pw_transport.h), as operators on a record.  A buffer is  *)
(* a C array, a function on 0 .. PW_BUFFER_SIZE - 1; a transport's unread  *)
(* input is the window of read_len bytes at read_pos, its unsent output    *)
(* the window of write_len bytes at write_pos.  What a byte is, is left to *)
(* the module that uses this one: the transport never looks inside.        *)
(***************************************************************************)
EXTENDS Integers, Sequences

CONSTANTS PW_BUFFER_SIZE,   \* capacity of each buffer (4096 in the build)
          NoByte            \* an indeterminate byte: what memory nobody wrote holds

ASSUME BufferSizeAssumption == PW_BUFFER_SIZE \in Nat \ {0}

Index == 0 .. (PW_BUFFER_SIZE - 1)

(* The struct, with cells drawn from a set. *)
Transport(Cell) ==
  [read_buffer  : [Index -> Cell], read_pos  : Nat, read_len  : Nat,
   write_buffer : [Index -> Cell], write_pos : Nat, write_len : Nat]

(* A struct on the stack before anything is stored in it. *)
Uninitialised ==
  [read_buffer  |-> [k \in Index |-> NoByte], read_pos  |-> 0, read_len  |-> 0,
   write_buffer |-> [k \in Index |-> NoByte], write_pos |-> 0, write_len |-> 0]

(* Mutant of TransportInit: the read positions are left as they were. *)
TransportInitKeepsInput(t) == [t EXCEPT !.write_pos = 0, !.write_len = 0]

(* pw_transport_init: the positions are reset, the arrays keep whatever was there. *)
TransportInit(t) ==
  [t EXCEPT !.read_pos = 0, !.read_len = 0, !.write_pos = 0, !.write_len = 0]

(* memcpy(buffer + at, bytes, Len(bytes)) *)
Store(buffer, at, bytes) ==
  [k \in Index |-> IF at =< k /\ k < at + Len(bytes)
                   THEN bytes[k - at + 1]
                   ELSE buffer[k]]

(* A read of the array; past its end the value is indeterminate. *)
Load(buffer, k) == IF k \in Index THEN buffer[k] ELSE NoByte

(* pw_transport_read gives up, without calling recv, when the buffer is full. *)
ReadBufferFull(t) == t.read_len = PW_BUFFER_SIZE

(* Mutant of Compact: read_pos is reset but the bytes are not moved. *)
CompactWithoutMove(t) == [t EXCEPT !.read_pos = 0]

(* Mutant of Compact: the bytes are moved but read_pos is not reset. *)
CompactKeepsPos(t) ==
  [t EXCEPT !.read_buffer =
              IF t.read_len > 0 /\ t.read_pos > 0
              THEN [k \in Index |-> IF k < t.read_len
                                    THEN Load(t.read_buffer, t.read_pos + k)
                                    ELSE t.read_buffer[k]]
              ELSE @]

(* Compaction: the window is moved to the front of the array. *)
Compact(t) ==
  [t EXCEPT !.read_buffer =
              IF t.read_len > 0 /\ t.read_pos > 0
              THEN [k \in Index |-> IF k < t.read_len
                                    THEN Load(t.read_buffer, t.read_pos + k)
                                    ELSE t.read_buffer[k]]
              ELSE @,
            !.read_pos = 0]

(* Mutant of ReadSpace: the unread bytes are not deducted. *)
ReadSpaceWholeBuffer(t) == PW_BUFFER_SIZE

(* The room pw_transport_read offers to recv. *)
ReadSpace(t) == PW_BUFFER_SIZE - t.read_len

(* pw_transport_read when recv returns bytes (none, when it fails or is at the end). *)
TransportRead(t, bytes) ==
  LET c == Compact(t)
  IN  [c EXCEPT !.read_buffer = Store(@, c.read_pos + c.read_len, bytes),
                !.read_len = @ + Len(bytes)]

(* The unread input, and its consumption by the parser: read_pos += n, read_len -= n. *)
ReadWindow(t) == [i \in 1 .. t.read_len |-> Load(t.read_buffer, t.read_pos + i - 1)]

(* Mutant of Consume: off by one. *)
ConsumeOneMore(t, n) == [t EXCEPT !.read_pos = @ + n + 1, !.read_len = @ - (n + 1)]

Consume(t, n) == [t EXCEPT !.read_pos = @ + n, !.read_len = @ - n]

(* The unsent output: the bytes pw_transport_write offers to send. *)
WriteWindow(t) == [i \in 1 .. t.write_len |-> Load(t.write_buffer, t.write_pos + i - 1)]

(* Mutant of TransportWrite: write_pos goes back to 0 after every send. *)
TransportWriteAlwaysResets(t, n) ==
  [t EXCEPT !.write_pos = 0, !.write_len = @ - n]

(* Mutant of TransportWrite: a short send is taken for a complete one. *)
TransportWriteForgetsRest(t, n) ==
  [t EXCEPT !.write_pos = 0, !.write_len = 0]

(* Mutant of TransportWrite: write_pos is not reset when everything is sent. *)
TransportWriteNoReset(t, n) ==
  [t EXCEPT !.write_pos = @ + n, !.write_len = @ - n]

(* pw_transport_write when send takes the first n bytes of the window. *)
TransportWrite(t, n) ==
  [t EXCEPT !.write_pos = IF n = t.write_len THEN 0 ELSE @ + n,
            !.write_len = @ - n]

(* How every caller queues output: at write_buffer + write_len, whatever   *)
(* write_pos is, when PW_BUFFER_SIZE - write_len leaves room.              *)
HasRoom(t, n) == t.write_len + n =< PW_BUFFER_SIZE

Enqueue(t, bytes) ==
  [t EXCEPT !.write_buffer = Store(@, t.write_len, bytes),
            !.write_len = @ + Len(bytes)]
=============================================================================
