----------------------- MODULE TransportStreamProofs -----------------------
(***************************************************************************)
(* Proofs about TransportStream for every buffer size, every set of bytes  *)
(* and streams of every length.                                            *)
(***************************************************************************)
EXTENDS TransportStream, PwTransportProofs

-----------------------------------------------------------------------------
(* The inductive invariant of the read half. *)
ReadInv == TypeOK /\ ReadWindowInBuffer /\ ReadIntact

LEMMA InitReadInv == Init => ReadInv
<1> SUFFICES ASSUME Init PROVE ReadInv
  OBVIOUS
<1>1. t \in Transport(Cell) /\ t.read_pos = 0 /\ t.read_len = 0
  BY BufferSizeAssumption DEF Init, TransportInit, Uninitialised, Transport, Cell
<1>2. arrived = << >> /\ taken = << >> /\ queued = << >> /\ wire = << >>
  BY DEF Init
<1>3. TypeOK
  BY <1>1, <1>2 DEF TypeOK
<1>4. ReadWindowInBuffer
  BY <1>1, BufferSizeAssumption DEF ReadWindowInBuffer
<1>5. ReadIntact
  BY <1>1, <1>2 DEF ReadIntact, Received
<1> QED BY <1>3, <1>4, <1>5 DEF ReadInv

(* A step that moves neither the read window nor the read histories keeps ReadInv. *)
LEMMA ReadUntouched ==
  ASSUME ReadInv, TypeOK', UNCHANGED <<arrived, taken>>,
         t'.read_buffer = t.read_buffer, t'.read_pos = t.read_pos, t'.read_len = t.read_len
  PROVE  ReadInv'
BY DEF ReadInv, ReadWindowInBuffer, ReadIntact, Received

(* Arrival: the stream grows behind everything the transport has seen. *)
LEMMA ArriveKeepsReadInv == ReadInv /\ Arrive => ReadInv'
<1> SUFFICES ASSUME ReadInv, Arrive PROVE ReadInv'
  OBVIOUS
<1>1. PICK b \in Byte : arrived' = Append(arrived, b)
  BY DEF Arrive
<1>2. UNCHANGED <<t, taken, queued, wire>>
  BY DEF Arrive
<1>3. arrived \in Seq(Byte) /\ t.read_len \in Nat /\ Len(taken) \in Nat
  BY DEF ReadInv, TypeOK, Transport
<1>4. /\ arrived' \in Seq(Byte) /\ Len(arrived') = Len(arrived) + 1 /\ Len(arrived) \in Nat
      /\ \A i \in 1 .. Len(arrived) : arrived'[i] = arrived[i]
  BY <1>1, <1>3
<1>5. TypeOK'
  BY <1>2, <1>4 DEF ReadInv, TypeOK
<1>6. ReadWindowInBuffer'
  BY <1>2 DEF ReadInv, ReadWindowInBuffer
<1>7. ReadIntact'
  <2>1. Len(taken) + t.read_len =< Len(arrived)
    BY DEF ReadInv, ReadIntact, Received
  <2>2. (Received =< Len(arrived))'
    BY <1>2, <1>3, <1>4, <2>1 DEF Received
  <2>3. \A i \in 1 .. Len(taken) : taken[i] = arrived'[i]
    BY <1>3, <1>4, <2>1 DEF ReadInv, ReadIntact
  <2>4. \A i \in 1 .. t.read_len : Len(taken) + i \in 1 .. Len(arrived)
    BY <1>3, <1>4, <2>1
  <2>5. \A i \in 1 .. t.read_len :
          Load(t.read_buffer, t.read_pos + i - 1) = arrived'[Len(taken) + i]
    BY <1>4, <2>4 DEF ReadInv, ReadIntact
  <2> QED BY <1>2, <2>2, <2>3, <2>5 DEF ReadIntact
<1> QED BY <1>5, <1>6, <1>7 DEF ReadInv

(* pw_transport_read: the bytes recv returned follow the window, which has moved to the front. *)
LEMMA RecvKeepsReadInv ==
  ASSUME ReadInv, NEW n \in Nat, n =< ReadSpace(t), Received + n =< Len(arrived),
         NEW bytes \in Seq(Cell), Len(bytes) = n,
         \A i \in 1 .. n : bytes[i] = arrived[Received + i],
         t' = TransportRead(t, bytes),
         UNCHANGED <<arrived, taken, queued, wire>>
  PROVE  ReadInv'
<1>1. t \in Transport(Cell) /\ NoByte \in Cell /\ t.read_pos + t.read_len =< PW_BUFFER_SIZE
  BY DEF ReadInv, TypeOK, ReadWindowInBuffer, Cell
<1>2. /\ t' \in Transport(Cell) /\ t'.read_pos = 0 /\ t'.read_len = t.read_len + n
      /\ \A k \in Index : k < t.read_len + n =>
           t'.read_buffer[k] = IF k < t.read_len THEN t.read_buffer[t.read_pos + k]
                               ELSE bytes[k - t.read_len + 1]
  BY <1>1, ReadProperties
<1>3. t.read_len \in Nat /\ t.read_pos \in Nat /\ Len(taken) \in Nat /\ Len(arrived) \in Nat
  BY <1>1 DEF ReadInv, TypeOK, Transport
<1>4. TypeOK'
  BY <1>2 DEF ReadInv, TypeOK
<1>5. t.read_len + n =< PW_BUFFER_SIZE
  BY <1>3, BufferSizeAssumption DEF ReadSpace
<1>6. ReadWindowInBuffer'
  BY <1>2, <1>3, <1>5 DEF ReadWindowInBuffer
<1>7. ReadIntact'
  <2>1. (Received =< Len(arrived))'
    BY <1>2, <1>3 DEF Received
  <2>2. \A i \in 1 .. Len(taken) : taken[i] = arrived[i]
    BY DEF ReadInv, ReadIntact
  <2>3. ASSUME NEW i \in 1 .. (t.read_len + n)
        PROVE  Load(t'.read_buffer, i - 1) = arrived[Len(taken) + i]
    <3>1. i - 1 \in Index /\ i - 1 < t.read_len + n
      BY <1>3, <1>5, BufferSizeAssumption DEF Index
    <3>2. Load(t'.read_buffer, i - 1) =
            IF i - 1 < t.read_len THEN t.read_buffer[t.read_pos + (i - 1)]
            ELSE bytes[(i - 1) - t.read_len + 1]
      BY <1>2, <3>1 DEF Load
    <3>3. CASE i =< t.read_len
      <4>1. i \in 1 .. t.read_len /\ i - 1 < t.read_len /\ t.read_pos + (i - 1) = t.read_pos + i - 1
            /\ t.read_pos + i - 1 \in Index
        BY <1>1, <1>3, <3>3, BufferSizeAssumption DEF Index
      <4>2. Load(t.read_buffer, t.read_pos + i - 1) = arrived[Len(taken) + i]
        BY <4>1 DEF ReadInv, ReadIntact
      <4> QED BY <3>2, <4>1, <4>2 DEF Load
    <3>4. CASE ~(i =< t.read_len)
      <4>1. /\ ~(i - 1 < t.read_len) /\ (i - 1) - t.read_len + 1 = i - t.read_len
            /\ i - t.read_len \in 1 .. n /\ Received + (i - t.read_len) = Len(taken) + i
        BY <1>3, <3>4 DEF Received
      <4> QED BY <3>2, <4>1
    <3> QED BY <3>3, <3>4
  <2>4. \A i \in 1 .. t'.read_len :
          Load(t'.read_buffer, t'.read_pos + i - 1) = arrived[Len(taken) + i]
    <3>1. \A i \in 1 .. (t.read_len + n) : 0 + i - 1 = i - 1
      BY <1>3
    <3> QED BY <1>2, <2>3, <3>1
  <2> QED BY <2>1, <2>2, <2>4 DEF ReadIntact
<1> QED BY <1>4, <1>6, <1>7 DEF ReadInv

LEMMA ReadKeepsReadInv == ReadInv /\ Read => ReadInv'
<1> SUFFICES ASSUME ReadInv, Read PROVE ReadInv'
  OBVIOUS
<1>1. PICK n \in 1 .. ReadSpace(t) :
        /\ Received + n =< Len(arrived)
        /\ t' = TransportRead(t, SubSeq(arrived, Received + 1, Received + n))
  BY DEF Read
<1> DEFINE bytes == SubSeq(arrived, Received + 1, Received + n)
<1>2. Received \in Nat /\ Len(arrived) \in Nat /\ ReadSpace(t) \in Int /\ arrived \in Seq(Byte)
  BY BufferSizeAssumption DEF ReadInv, TypeOK, Transport, Received, ReadSpace
<1>3. bytes \in Seq(Byte) /\ Len(bytes) = n /\ \A i \in 1 .. n : bytes[i] = arrived[Received + i]
  <2>1. n \in Nat
    BY <1>2
  <2> QED BY <1>1, <1>2, <2>1, Stretch
<1>4. bytes \in Seq(Cell)
  BY <1>3 DEF Cell
<1>5. UNCHANGED <<arrived, taken, queued, wire>>
  BY DEF Read
<1>6. n \in Nat /\ n =< ReadSpace(t)
  BY <1>2
<1> HIDE DEF bytes
<1>7. t' = TransportRead(t, bytes)
  BY <1>1 DEF bytes
<1> QED BY <1>1, <1>3, <1>4, <1>5, <1>6, <1>7, RecvKeepsReadInv

LEMMA ReadNothingKeepsReadInv == ReadInv /\ ReadNothing => ReadInv'
<1> SUFFICES ASSUME ReadInv, ReadNothing PROVE ReadInv'
  OBVIOUS
<1> DEFINE bytes == << >>
           n == 0
<1>1. Received \in Nat /\ t.read_len \in Nat /\ t.read_pos \in Nat
  BY DEF ReadInv, TypeOK, Transport, Received
<1>2. n \in Nat /\ n =< ReadSpace(t) /\ Received + n =< Len(arrived)
  BY <1>1, BufferSizeAssumption DEF ReadInv, ReadIntact, ReadWindowInBuffer, ReadSpace
<1>3. bytes \in Seq(Cell) /\ Len(bytes) = n /\ \A i \in 1 .. n : bytes[i] = arrived[Received + i]
  OBVIOUS
<1>4. t' = TransportRead(t, bytes) /\ UNCHANGED <<arrived, taken, queued, wire>>
  BY DEF ReadNothing
<1> HIDE DEF bytes, n
<1> QED BY <1>2, <1>3, <1>4, RecvKeepsReadInv

(* The parser takes the front of the window, which is the next of the stream. *)
LEMMA ParseKeepsReadInv == ReadInv /\ Parse => ReadInv'
<1> SUFFICES ASSUME ReadInv, Parse PROVE ReadInv'
  OBVIOUS
<1>1. PICK n \in 1 .. t.read_len : /\ taken' = taken \o SubSeq(ReadWindow(t), 1, n)
                                   /\ t' = Consume(t, n)
  BY DEF Parse
<1>2. UNCHANGED <<arrived, queued, wire>>
  BY DEF Parse
<1>3. /\ t \in Transport(Cell) /\ NoByte \in Cell /\ taken \in Seq(Cell)
      /\ t.read_len \in Nat /\ t.read_pos \in Nat /\ Len(taken) \in Nat /\ Len(arrived) \in Nat
      /\ n \in Nat
  BY DEF ReadInv, TypeOK, Transport, Cell
<1>4. /\ ReadWindow(t) \in Seq(Cell) /\ Len(ReadWindow(t)) = t.read_len
      /\ \A i \in 1 .. t.read_len : ReadWindow(t)[i] = Load(t.read_buffer, t.read_pos + i - 1)
  BY <1>3, WindowProperties
<1>5. /\ taken' \in Seq(Cell) /\ Len(taken') = Len(taken) + n
      /\ \A i \in 1 .. (Len(taken) + n) :
           taken'[i] = IF i =< Len(taken) THEN taken[i] ELSE ReadWindow(t)[i - Len(taken)]
  BY <1>1, <1>3, <1>4, TakeProperties
<1>6. /\ t' \in Transport(Cell) /\ t'.read_buffer = t.read_buffer
      /\ t'.read_pos = t.read_pos + n /\ t'.read_len = t.read_len - n
  <2> DEFINE rp == t.read_pos + n
             rl == t.read_len - n
  <2>1. rp \in Nat /\ rl \in Nat
    BY <1>3
  <2>2. t' = [t EXCEPT !.read_pos = rp, !.read_len = rl]
    BY <1>1, <1>3 DEF Consume, Transport
  <2> HIDE DEF rp, rl
  <2>3. /\ t' \in Transport(Cell) /\ t'.read_buffer = t.read_buffer
        /\ t'.read_pos = rp /\ t'.read_len = rl
    BY <1>3, <2>1, <2>2 DEF Transport
  <2> QED BY <2>3 DEF rp, rl
<1>7. TypeOK'
  BY <1>2, <1>5, <1>6 DEF ReadInv, TypeOK
<1>8. ReadWindowInBuffer'
  BY <1>3, <1>6, BufferSizeAssumption DEF ReadInv, ReadWindowInBuffer
<1>9. ReadIntact'
  <2>1. (Received =< Len(arrived))'
    BY <1>2, <1>3, <1>5, <1>6 DEF ReadInv, ReadIntact, Received
  <2>2. ASSUME NEW i \in 1 .. (Len(taken) + n) PROVE taken'[i] = arrived[i]
    <3>1. CASE i =< Len(taken)
      <4>1. i \in 1 .. Len(taken)
        BY <1>3, <3>1
      <4>2. taken[i] = arrived[i]
        BY <4>1 DEF ReadInv, ReadIntact
      <4> QED BY <1>5, <3>1, <4>2
    <3>2. CASE ~(i =< Len(taken))
      <4>1. i - Len(taken) \in 1 .. t.read_len /\ Len(taken) + (i - Len(taken)) = i
        BY <1>3, <3>2
      <4>2. ReadWindow(t)[i - Len(taken)] = arrived[Len(taken) + (i - Len(taken))]
        BY <1>4, <4>1 DEF ReadInv, ReadIntact
      <4> QED BY <1>5, <3>2, <4>1, <4>2
    <3> QED BY <3>1, <3>2
  <2>3. ASSUME NEW i \in 1 .. (t.read_len - n)
        PROVE  Load(t.read_buffer, (t.read_pos + n) + i - 1) = arrived[(Len(taken) + n) + i]
    <3>1. /\ n + i \in 1 .. t.read_len
          /\ t.read_pos + (n + i) - 1 = (t.read_pos + n) + i - 1
          /\ Len(taken) + (n + i) = (Len(taken) + n) + i
      BY <1>3
    <3>2. Load(t.read_buffer, t.read_pos + (n + i) - 1) = arrived[Len(taken) + (n + i)]
      BY <3>1 DEF ReadInv, ReadIntact
    <3> QED BY <3>1, <3>2
  <2> QED BY <1>2, <1>5, <1>6, <2>1, <2>2, <2>3 DEF ReadIntact
<1> QED BY <1>7, <1>8, <1>9 DEF ReadInv

(* Queueing, field by field. *)
LEMMA EnqueueProperties ==
  ASSUME NEW u \in Transport(Cell), NEW bytes \in Seq(Cell)
  PROVE  /\ Enqueue(u, bytes) \in Transport(Cell)
         /\ Enqueue(u, bytes).read_buffer = u.read_buffer
         /\ Enqueue(u, bytes).read_pos = u.read_pos
         /\ Enqueue(u, bytes).read_len = u.read_len
         /\ Enqueue(u, bytes).write_pos = u.write_pos
         /\ Enqueue(u, bytes).write_len = u.write_len + Len(bytes)
         /\ \A k \in Index : Enqueue(u, bytes).write_buffer[k] =
              IF u.write_len =< k /\ k < u.write_len + Len(bytes)
              THEN bytes[k - u.write_len + 1] ELSE u.write_buffer[k]
<1> DEFINE b == Store(u.write_buffer, u.write_len, bytes)
           m == u.write_len + Len(bytes)
<1>1. u.write_buffer \in [Index -> Cell] /\ u.write_len \in Nat
  BY DEF Transport
<1>2. /\ b \in [Index -> Cell]
      /\ \A k \in Index : b[k] = IF u.write_len =< k /\ k < u.write_len + Len(bytes)
                                 THEN bytes[k - u.write_len + 1] ELSE u.write_buffer[k]
  BY <1>1, StoreProperties
<1>3. Enqueue(u, bytes) = [u EXCEPT !.write_buffer = b, !.write_len = m]
  BY DEF Enqueue, Transport
<1>4. m \in Nat
  BY <1>1, LenProperties
<1> HIDE DEF b, m
<1>5. /\ Enqueue(u, bytes) \in Transport(Cell)
      /\ Enqueue(u, bytes).write_buffer = b /\ Enqueue(u, bytes).write_len = m
      /\ Enqueue(u, bytes).read_buffer = u.read_buffer
      /\ Enqueue(u, bytes).read_pos = u.read_pos
      /\ Enqueue(u, bytes).read_len = u.read_len
      /\ Enqueue(u, bytes).write_pos = u.write_pos
  BY <1>2, <1>3, <1>4 DEF Transport
<1> QED BY <1>2, <1>5 DEF m

LEMMA QueueKeepsReadInv == ReadInv /\ Queue => ReadInv'
<1> SUFFICES ASSUME ReadInv, Queue PROVE ReadInv'
  OBVIOUS
<1>1. PICK n \in 1 .. (MaxBytes - Len(queued)) :
        \E bytes \in [1 .. n -> Byte] : t' = Enqueue(t, bytes) /\ queued' = queued \o bytes
  BY DEF Queue
<1>2. PICK bytes \in [1 .. n -> Byte] : t' = Enqueue(t, bytes) /\ queued' = queued \o bytes
  BY <1>1
<1>3. UNCHANGED <<arrived, taken, wire>>
  BY DEF Queue
<1>4. t \in Transport(Cell) /\ queued \in Seq(Byte) /\ n \in Nat
  BY MaxBytesAssumption DEF ReadInv, TypeOK
<1>5. bytes \in Seq(Byte) /\ bytes \in Seq(Cell)
  BY <1>4 DEF Cell
<1>6. /\ t' \in Transport(Cell)
      /\ t'.read_buffer = t.read_buffer /\ t'.read_pos = t.read_pos /\ t'.read_len = t.read_len
  BY <1>2, <1>4, <1>5, EnqueueProperties
<1>7. queued' \in Seq(Byte)
  BY <1>2, <1>4, <1>5
<1>8. TypeOK'
  BY <1>3, <1>6, <1>7 DEF ReadInv, TypeOK
<1> QED BY <1>3, <1>6, <1>8, ReadUntouched

(* Sending, field by field. *)
LEMMA WriteProperties ==
  ASSUME NEW u \in Transport(Cell), NEW n \in 1 .. u.write_len
  PROVE  /\ TransportWrite(u, n) \in Transport(Cell)
         /\ TransportWrite(u, n).read_buffer = u.read_buffer
         /\ TransportWrite(u, n).read_pos = u.read_pos
         /\ TransportWrite(u, n).read_len = u.read_len
         /\ TransportWrite(u, n).write_buffer = u.write_buffer
         /\ TransportWrite(u, n).write_len = u.write_len - n
         /\ TransportWrite(u, n).write_pos = IF n = u.write_len THEN 0 ELSE u.write_pos + n
<1> DEFINE wp == IF n = u.write_len THEN 0 ELSE u.write_pos + n
           wl == u.write_len - n
<1>1. wp \in Nat /\ wl \in Nat
  BY DEF Transport
<1>2. TransportWrite(u, n) = [u EXCEPT !.write_pos = wp, !.write_len = wl]
  BY DEF TransportWrite, Transport
<1> HIDE DEF wp, wl
<1>3. /\ TransportWrite(u, n) \in Transport(Cell)
      /\ TransportWrite(u, n).read_buffer = u.read_buffer
      /\ TransportWrite(u, n).read_pos = u.read_pos
      /\ TransportWrite(u, n).read_len = u.read_len
      /\ TransportWrite(u, n).write_buffer = u.write_buffer
      /\ TransportWrite(u, n).write_len = wl
      /\ TransportWrite(u, n).write_pos = wp
  BY <1>1, <1>2 DEF Transport
<1> QED BY <1>3 DEF wp, wl

LEMMA WriteKeepsReadInv == ReadInv /\ Write => ReadInv'
<1> SUFFICES ASSUME ReadInv, Write PROVE ReadInv'
  OBVIOUS
<1>1. PICK n \in 1 .. t.write_len : /\ wire' = wire \o SubSeq(WriteWindow(t), 1, n)
                                    /\ t' = TransportWrite(t, n)
  BY DEF Write
<1>2. UNCHANGED <<arrived, taken, queued>>
  BY DEF Write
<1>3. t \in Transport(Cell) /\ wire \in Seq(Cell) /\ NoByte \in Cell
  BY DEF ReadInv, TypeOK, Cell
<1>4. WriteWindow(t) \in Seq(Cell) /\ Len(WriteWindow(t)) = t.write_len
  BY <1>3, WindowProperties
<1>5. wire' \in Seq(Cell)
  BY <1>1, <1>3, <1>4, TakeProperties
<1>6. /\ t' \in Transport(Cell)
      /\ t'.read_buffer = t.read_buffer /\ t'.read_pos = t.read_pos /\ t'.read_len = t.read_len
  BY <1>1, <1>3, WriteProperties
<1>7. TypeOK'
  BY <1>2, <1>5, <1>6 DEF ReadInv, TypeOK
<1> QED BY <1>2, <1>6, <1>7, ReadUntouched

LEMMA StutterKeepsReadInv == ReadInv /\ UNCHANGED vars => ReadInv'
BY DEF ReadInv, TypeOK, ReadWindowInBuffer, ReadIntact, Received, vars

(* The read half, for any buffer size and any way of using the write half: *)
(* the struct keeps its type, recv is never offered memory behind          *)
(* read_buffer, and the unread window is always the next stretch of the    *)
(* peer's stream (pw_transport.c:24-56, server_main.c:203-204).            *)
THEOREM ReadHalfCorrect == Spec => [](TypeOK /\ ReadWindowInBuffer /\ ReadIntact)
<1>1. ReadInv /\ [Next]_vars => ReadInv'
  BY ArriveKeepsReadInv, ReadKeepsReadInv, ReadNothingKeepsReadInv, ParseKeepsReadInv,
     QueueKeepsReadInv, WriteKeepsReadInv, StutterKeepsReadInv DEF Next
<1>2. ReadInv => TypeOK /\ ReadWindowInBuffer /\ ReadIntact
  BY DEF ReadInv
<1> QED BY InitReadInv, <1>1, <1>2, PTL DEF Spec

-----------------------------------------------------------------------------
(* The inductive invariant of the write half; it needs the types of ReadInv. *)
WriteInv == WriteWindowInBuffer /\ WriteIntact

LEMMA InitWriteInv == Init => WriteInv
<1> SUFFICES ASSUME Init PROVE WriteInv
  OBVIOUS
<1>1. t.write_pos = 0 /\ t.write_len = 0 /\ queued = << >> /\ wire = << >>
  BY DEF Init, TransportInit, Uninitialised
<1>2. WriteWindowInBuffer
  BY <1>1, BufferSizeAssumption DEF WriteWindowInBuffer
<1>3. WriteIntact
  BY <1>1 DEF WriteIntact, WireInOrder
<1> QED BY <1>2, <1>3 DEF WriteInv

(* A step that moves neither the write window nor the write histories keeps WriteInv. *)
LEMMA WriteUntouched ==
  ASSUME WriteInv, UNCHANGED <<queued, wire>>,
         t'.write_buffer = t.write_buffer, t'.write_pos = t.write_pos, t'.write_len = t.write_len
  PROVE  WriteInv'
BY DEF WriteInv, WriteWindowInBuffer, WriteIntact, WireInOrder

LEMMA ReadStepsKeepWriteInv ==
  ReadInv /\ WriteInv /\ (Arrive \/ Read \/ ReadNothing \/ Parse) => WriteInv'
<1> SUFFICES ASSUME ReadInv, WriteInv, Arrive \/ Read \/ ReadNothing \/ Parse PROVE WriteInv'
  OBVIOUS
<1>1. t \in Transport(Cell) /\ NoByte \in Cell /\ t.read_pos + t.read_len =< PW_BUFFER_SIZE
  BY DEF ReadInv, TypeOK, ReadWindowInBuffer, Cell
<1>2. CASE Arrive
  BY <1>2, WriteUntouched DEF Arrive
<1>3. CASE Read
  <2>1. PICK n \in 1 .. ReadSpace(t) :
          /\ Received + n =< Len(arrived)
          /\ t' = TransportRead(t, SubSeq(arrived, Received + 1, Received + n))
    BY <1>3 DEF Read
  <2>2. Received \in Nat /\ Len(arrived) \in Nat /\ ReadSpace(t) \in Int /\ arrived \in Seq(Byte)
    BY BufferSizeAssumption DEF ReadInv, TypeOK, Transport, Received, ReadSpace
  <2>3. SubSeq(arrived, Received + 1, Received + n) \in Seq(Byte)
    BY <2>1, <2>2
  <2>4. SubSeq(arrived, Received + 1, Received + n) \in Seq(Cell)
    BY <2>3 DEF Cell
  <2>5. /\ t'.write_buffer = t.write_buffer
        /\ t'.write_pos = t.write_pos /\ t'.write_len = t.write_len
    BY <1>1, <2>1, <2>4, ReadProperties
  <2> QED BY <1>3, <2>5, WriteUntouched DEF Read
<1>4. CASE ReadNothing
  <2>1. << >> \in Seq(Cell)
    OBVIOUS
  <2>2. /\ t'.write_buffer = t.write_buffer
        /\ t'.write_pos = t.write_pos /\ t'.write_len = t.write_len
    BY <1>1, <1>4, <2>1, ReadProperties DEF ReadNothing
  <2> QED BY <1>4, <2>2, WriteUntouched DEF ReadNothing
<1>5. CASE Parse
  <2>1. PICK n \in 1 .. t.read_len : t' = Consume(t, n)
    BY <1>5 DEF Parse
  <2>2. /\ t'.write_buffer = t.write_buffer
        /\ t'.write_pos = t.write_pos /\ t'.write_len = t.write_len
    BY <1>1, <2>1 DEF Consume, Transport
  <2> QED BY <1>5, <2>2, WriteUntouched DEF Parse
<1> QED BY <1>2, <1>3, <1>4, <1>5

(* Queueing at the front: the new bytes follow the unsent window. *)
LEMMA EnqueueKeepsWriteInv ==
  ASSUME ReadInv, WriteInv, NEW n \in Nat, NEW bytes \in Seq(Byte), Len(bytes) = n,
         HasRoom(t, n), t.write_pos = 0,
         t' = Enqueue(t, bytes), queued' = queued \o bytes, wire' = wire
  PROVE  WriteInv'
<1>1. /\ t \in Transport(Cell) /\ queued \in Seq(Byte)
      /\ t.write_len \in Nat /\ Len(queued) \in Nat /\ Len(wire) \in Nat
  BY DEF ReadInv, TypeOK, Transport
<1>2. bytes \in Seq(Cell)
  BY DEF Cell
<1>3. /\ t'.write_pos = 0 /\ t'.write_len = t.write_len + n
      /\ \A k \in Index : t'.write_buffer[k] =
           IF t.write_len =< k /\ k < t.write_len + n
           THEN bytes[k - t.write_len + 1] ELSE t.write_buffer[k]
  BY <1>1, <1>2, EnqueueProperties
<1>4. /\ Len(queued') = Len(queued) + n
      /\ \A i \in 1 .. Len(queued) : queued'[i] = queued[i]
      /\ \A i \in 1 .. n : queued'[Len(queued) + i] = bytes[i]
  <2>1. queued \in Seq(Byte)
    BY <1>1
  <2>2. Len(queued \o bytes) = Len(queued) + Len(bytes)
    BY <2>1, ConcatElements
  <2>3. \A i \in 1 .. Len(queued) : (queued \o bytes)[i] = queued[i]
    BY <2>1, ConcatElements
  <2>4. \A i \in 1 .. Len(bytes) : (queued \o bytes)[Len(queued) + i] = bytes[i]
    BY <2>1, ConcatElements
  <2> QED BY <2>2, <2>3, <2>4, Zenon
<1>5. Len(queued) = Len(wire) + t.write_len
  BY DEF WriteInv, WriteIntact
<1>6. WriteWindowInBuffer'
  BY <1>1, <1>3, BufferSizeAssumption DEF WriteWindowInBuffer, HasRoom
<1>7. WireInOrder'
  <2>1. \A i \in 1 .. Len(wire) : i \in 1 .. Len(queued)
    BY <1>1, <1>5
  <2> QED BY <1>1, <1>4, <1>5, <2>1 DEF WriteInv, WriteIntact, WireInOrder
<1>8. ASSUME NEW i \in 1 .. (t.write_len + n)
       PROVE  Load(t'.write_buffer, i - 1) = queued'[Len(wire) + i]
  <2>1. i \in Nat /\ i - 1 \in Index
    BY <1>1, BufferSizeAssumption DEF HasRoom, Index
  <2>2. Load(t'.write_buffer, i - 1) = t'.write_buffer[i - 1]
    BY <2>1 DEF Load
  <2>3. CASE i =< t.write_len
    <3>1. /\ i \in 1 .. t.write_len /\ ~(t.write_len =< i - 1)
          /\ 0 + i - 1 = i - 1 /\ Len(wire) + i \in 1 .. Len(queued)
      BY <1>1, <1>5, <2>1, <2>3
    <3>2. Load(t.write_buffer, 0 + i - 1) = queued[Len(wire) + i]
      BY <3>1 DEF WriteInv, WriteIntact
    <3>3. Load(t.write_buffer, i - 1) = t.write_buffer[i - 1]
      BY <2>1 DEF Load
    <3> QED BY <1>3, <1>4, <2>1, <2>2, <3>1, <3>2, <3>3
  <2>4. CASE ~(i =< t.write_len)
    <3>1. /\ i - t.write_len \in 1 .. n
          /\ t.write_len =< i - 1 /\ i - 1 < t.write_len + n
          /\ (i - 1) - t.write_len + 1 = i - t.write_len
          /\ Len(queued) + (i - t.write_len) = Len(wire) + i
      BY <1>1, <1>5, <2>1, <2>4
    <3> QED BY <1>3, <1>4, <2>1, <2>2, <3>1
  <2> QED BY <2>3, <2>4
<1>9. WriteIntact'
  <2>1. (Len(queued) = Len(wire) + t.write_len)'
    BY <1>1, <1>3, <1>4, <1>5
  <2>2. \A i \in 1 .. (t.write_len + n) : 0 + i - 1 = i - 1
    BY <1>1
  <2>3. \A i \in 1 .. t'.write_len :
          Load(t'.write_buffer, t'.write_pos + i - 1) = queued'[Len(wire) + i]
    BY <1>3, <1>8, <2>2
  <2> QED BY <1>7, <2>1, <2>3 DEF WriteIntact
<1> QED BY <1>6, <1>9 DEF WriteInv

LEMMA QueueKeepsWriteInv == QueueAtFront /\ ReadInv /\ WriteInv /\ Queue => WriteInv'
<1> SUFFICES ASSUME QueueAtFront, ReadInv, WriteInv, Queue PROVE WriteInv'
  OBVIOUS
<1>1. PICK n \in 1 .. (MaxBytes - Len(queued)) :
        /\ HasRoom(t, n)
        /\ \E bytes \in [1 .. n -> Byte] : t' = Enqueue(t, bytes) /\ queued' = queued \o bytes
  BY DEF Queue
<1>2. n \in Nat
  BY MaxBytesAssumption DEF ReadInv, TypeOK
<1>3. \E bytes \in Seq(Byte) : Len(bytes) = n /\ t' = Enqueue(t, bytes) /\ queued' = queued \o bytes
  <2>1. \A bytes \in [1 .. n -> Byte] : bytes \in Seq(Byte) /\ Len(bytes) = n
    BY <1>2
  <2> QED BY <1>1, <2>1, Zenon
<1>4. t.write_pos = 0 /\ wire' = wire
  BY DEF Queue
<1> QED BY <1>1, <1>2, <1>3, <1>4, EnqueueKeepsWriteInv

(* A short send takes the front of the window and leaves the rest in place. *)
LEMMA WriteKeepsWriteInv == ReadInv /\ WriteInv /\ Write => WriteInv'
<1> SUFFICES ASSUME ReadInv, WriteInv, Write PROVE WriteInv'
  OBVIOUS
<1>1. PICK n \in 1 .. t.write_len : /\ wire' = wire \o SubSeq(WriteWindow(t), 1, n)
                                    /\ t' = TransportWrite(t, n)
  BY DEF Write
<1>2. queued' = queued
  BY DEF Write
<1>3. /\ t \in Transport(Cell) /\ wire \in Seq(Cell) /\ NoByte \in Cell /\ n \in Nat
      /\ t.write_len \in Nat /\ t.write_pos \in Nat /\ Len(queued) \in Nat /\ Len(wire) \in Nat
  BY DEF ReadInv, TypeOK, Cell, Transport
<1>4. /\ WriteWindow(t) \in Seq(Cell) /\ Len(WriteWindow(t)) = t.write_len
      /\ \A i \in 1 .. t.write_len : WriteWindow(t)[i] = Load(t.write_buffer, t.write_pos + i - 1)
  BY <1>3, WindowProperties
<1>5. /\ Len(wire') = Len(wire) + n
      /\ \A i \in 1 .. (Len(wire) + n) :
           wire'[i] = IF i =< Len(wire) THEN wire[i] ELSE WriteWindow(t)[i - Len(wire)]
  BY <1>1, <1>3, <1>4, TakeProperties
<1>6. /\ t'.write_buffer = t.write_buffer /\ t'.write_len = t.write_len - n
      /\ t'.write_pos = IF n = t.write_len THEN 0 ELSE t.write_pos + n
  BY <1>1, <1>3, WriteProperties
<1>7. Len(queued) = Len(wire) + t.write_len
  BY DEF WriteInv, WriteIntact
<1>8. WriteWindowInBuffer'
  BY <1>3, <1>6, BufferSizeAssumption DEF WriteInv, WriteWindowInBuffer
<1>9. ASSUME NEW i \in 1 .. (Len(wire) + n) PROVE wire'[i] = queued[i]
  <2>1. CASE i =< Len(wire)
    <3>1. i \in 1 .. Len(wire)
      BY <1>3, <2>1
    <3>2. wire[i] = queued[i]
      BY <3>1 DEF WriteInv, WriteIntact, WireInOrder
    <3> QED BY <1>5, <2>1, <3>2
  <2>2. CASE ~(i =< Len(wire))
    <3>1. i - Len(wire) \in 1 .. t.write_len /\ Len(wire) + (i - Len(wire)) = i
      BY <1>3, <2>2
    <3>2. WriteWindow(t)[i - Len(wire)] = queued[Len(wire) + (i - Len(wire))]
      BY <1>4, <3>1 DEF WriteInv, WriteIntact
    <3> QED BY <1>5, <2>2, <3>1, <3>2
  <2> QED BY <2>1, <2>2
<1>10. WireInOrder'
  BY <1>2, <1>3, <1>5, <1>7, <1>9 DEF WireInOrder
<1>11. ASSUME NEW i \in 1 .. (t.write_len - n)
       PROVE  Load(t.write_buffer, t'.write_pos + i - 1) = queued[(Len(wire) + n) + i]
  <2>1. /\ n # t.write_len /\ n + i \in 1 .. t.write_len
        /\ t.write_pos + (n + i) - 1 = (t.write_pos + n) + i - 1
        /\ Len(wire) + (n + i) = (Len(wire) + n) + i
    BY <1>3
  <2>2. Load(t.write_buffer, t.write_pos + (n + i) - 1) = queued[Len(wire) + (n + i)]
    BY <2>1 DEF WriteInv, WriteIntact
  <2> QED BY <1>6, <2>1, <2>2
<1>12. WriteIntact'
  <2>1. (Len(queued) = Len(wire) + t.write_len)'
    BY <1>2, <1>3, <1>5, <1>6, <1>7
  <2>2. \A i \in 1 .. t'.write_len :
          Load(t'.write_buffer, t'.write_pos + i - 1) = queued'[Len(wire') + i]
    BY <1>2, <1>5, <1>6, <1>11
  <2> QED BY <1>10, <2>1, <2>2 DEF WriteIntact
<1> QED BY <1>8, <1>12 DEF WriteInv

LEMMA StutterKeepsWriteInv == WriteInv /\ UNCHANGED vars => WriteInv'
BY DEF WriteInv, WriteWindowInBuffer, WriteIntact, WireInOrder, vars

(* The write half, when output is queued only at write_pos = 0: the unsent *)
(* window stays in write_buffer, and it and the wire together are exactly  *)
(* what was queued (pw_transport.c:58-83).  The hypothesis is needed: the  *)
(* callers do not check it.                                                *)
THEOREM WriteHalfCorrect ==
  ASSUME QueueAtFront
  PROVE  Spec => [](WindowsInBuffers /\ WireInOrder /\ WriteIntact)
<1>1. ReadInv /\ [Next]_vars => ReadInv'
  BY ArriveKeepsReadInv, ReadKeepsReadInv, ReadNothingKeepsReadInv, ParseKeepsReadInv,
     QueueKeepsReadInv, WriteKeepsReadInv, StutterKeepsReadInv DEF Next
<1>2. ReadInv /\ WriteInv /\ [Next]_vars => WriteInv'
  BY ReadStepsKeepWriteInv, QueueKeepsWriteInv, WriteKeepsWriteInv, StutterKeepsWriteInv DEF Next
<1>3. ReadInv /\ WriteInv => WindowsInBuffers /\ WireInOrder /\ WriteIntact
  BY DEF ReadInv, WriteInv, WindowsInBuffers, WriteIntact
<1> QED BY InitReadInv, InitWriteInv, <1>1, <1>2, <1>3, PTL DEF Spec

-----------------------------------------------------------------------------
(* A sequence that agrees with the beginning of another is a SubSeq of it. *)
LEMMA PrefixIsSubSeq ==
  ASSUME NEW C, NEW r \in Seq(C), NEW s \in Seq(C), Len(r) =< Len(s),
         \A i \in 1 .. Len(r) : r[i] = s[i]
  PROVE  SubSeq(s, 1, Len(r)) = r
<1> DEFINE p == SubSeq(s, 1, Len(r))
<1>1. Len(r) \in Nat /\ Len(s) \in Nat
  BY LenProperties
<1>2. p \in Seq(C) /\ Len(p) = Len(r) /\ \A i \in 1 .. Len(r) : p[i] = s[i]
  BY <1>1
<1> HIDE DEF p
<1>3. \A i \in 1 .. Len(p) : p[i] = r[i]
  BY <1>2
<1>4. p = r
  BY <1>2, <1>3, SeqEqual
<1> QED BY <1>4 DEF p

(* A step of the read half is a step of the byte stream, or none. *)
LEMMA ReadSimulation ==
  ASSUME ReadInv, ReadInv', [Next]_vars
  PROVE  [Reading!Next]_(Reading!vars)
<1>1. /\ arrived \in Seq(Byte) /\ arrived' \in Seq(Byte) /\ arrived \in Seq(Cell)
      /\ taken \in Seq(Cell) /\ taken' \in Seq(Cell)
      /\ Len(arrived) \in Nat /\ Len(taken) \in Nat /\ t.read_len \in Nat /\ t'.read_len \in Nat
  BY DEF ReadInv, TypeOK, Cell, Transport
<1>2. CASE Arrive
  <2>1. PICK b \in Byte : arrived' = Append(arrived, b)
    BY <1>2 DEF Arrive
  <2>2. /\ Len(arrived') = Len(arrived) + 1
        /\ \A i \in 1 .. Len(arrived) : arrived[i] = arrived'[i]
    BY <1>1, <2>1
  <2>3. Len(arrived') > Len(arrived) /\ Len(arrived) =< Len(arrived')
    BY <1>1, <2>2
  <2>4. SubSeq(arrived', 1, Len(arrived)) = arrived
    BY <1>1, <2>2, <2>3, PrefixIsSubSeq
  <2> QED BY <1>1, <1>2, <2>3, <2>4 DEF Arrive, Reading!Next, Reading!Put
<1>3. CASE Parse
  <2>1. PICK n \in 1 .. t.read_len : taken' = taken \o SubSeq(ReadWindow(t), 1, n)
    BY <1>3 DEF Parse
  <2>2. ReadWindow(t) \in Seq(Cell) /\ Len(ReadWindow(t)) = t.read_len
    BY WindowProperties DEF ReadInv, TypeOK, Cell
  <2>3. Len(taken') = Len(taken) + n
    BY <1>1, <2>1, <2>2, TakeProperties
  <2>4. /\ arrived' = arrived /\ Len(taken') =< Len(arrived)
        /\ \A i \in 1 .. Len(taken') : taken'[i] = arrived[i]
    <3>1. arrived' = arrived
      BY <1>3 DEF Parse
    <3>2. Len(taken') + t'.read_len =< Len(arrived')
      BY DEF ReadInv, ReadIntact, Received
    <3>3. \A i \in 1 .. Len(taken') : taken'[i] = arrived'[i]
      BY DEF ReadInv, ReadIntact
    <3> QED BY <1>1, <2>3, <3>1, <3>2, <3>3
  <2>5. SubSeq(arrived, 1, Len(taken')) = taken'
    BY <1>1, <2>4, PrefixIsSubSeq
  <2>6. Len(taken') \in (Len(taken) + 1) .. Len(arrived)
    BY <1>1, <2>3, <2>4
  <2> QED BY <2>4, <2>5, <2>6 DEF Reading!Next, Reading!Get
<1>4. CASE Read \/ ReadNothing \/ Queue \/ Write \/ UNCHANGED vars
  BY <1>4 DEF Read, ReadNothing, Queue, Write, vars, Reading!vars
<1> QED BY <1>2, <1>3, <1>4 DEF Next

(* The read half implements the byte stream from the peer to the parser,   *)
(* for any buffer size: however recv cuts the stream and whenever the      *)
(* window is compacted, the parser gets the peer's bytes, each once and in *)
(* order (pw_transport.c:24-56).                                           *)
THEOREM ReadHalfIsByteStream == Spec => ReadFifo
<1>1. Init => Reading!Init
  BY DEF Init, Reading!Init
<1>2. Spec => []ReadInv
  BY ReadHalfCorrect, PTL DEF ReadInv
<1>3. ReadInv /\ ReadInv' /\ [Next]_vars => [Reading!Next]_(Reading!vars)
  BY ReadSimulation
<1> QED BY <1>1, <1>2, <1>3, PTL DEF Spec, ReadFifo, Reading!Spec

(* A step of the write half is a step of the byte stream, or none. *)
LEMMA WriteSimulation ==
  ASSUME ReadInv, ReadInv', WriteInv, WriteInv', [Next]_vars
  PROVE  [Writing!Next]_(Writing!vars)
<1>1. /\ queued \in Seq(Byte) /\ queued' \in Seq(Byte) /\ queued \in Seq(Cell)
      /\ wire \in Seq(Cell) /\ wire' \in Seq(Cell)
      /\ Len(queued) \in Nat /\ Len(wire) \in Nat /\ t.write_len \in Nat /\ t'.write_len \in Nat
  BY DEF ReadInv, TypeOK, Cell, Transport
<1>2. CASE Queue
  <2>1. PICK n \in 1 .. (MaxBytes - Len(queued)) :
          \E bytes \in [1 .. n -> Byte] : queued' = queued \o bytes
    BY <1>2 DEF Queue
  <2>2. n \in Nat /\ n > 0
    BY <1>1, MaxBytesAssumption
  <2>3. \E bytes \in Seq(Byte) : Len(bytes) = n /\ queued' = queued \o bytes
    <3>1. \A bytes \in [1 .. n -> Byte] : bytes \in Seq(Byte) /\ Len(bytes) = n
      BY <2>2
    <3> QED BY <2>1, <3>1, Zenon
  <2>4. PICK bytes \in Seq(Byte) : Len(bytes) = n /\ queued' = queued \o bytes
    BY <2>3
  <2>5. Len(queued \o bytes) = Len(queued) + Len(bytes)
    BY <1>1, ConcatElements
  <2>6. \A i \in 1 .. Len(queued) : queued[i] = (queued \o bytes)[i]
    BY <1>1, ConcatElements
  <2>7. Len(queued') > Len(queued) /\ Len(queued) =< Len(queued')
    BY <1>1, <2>2, <2>4, <2>5
  <2>8. \A i \in 1 .. Len(queued) : queued[i] = queued'[i]
    BY <2>4, <2>6, Zenon
  <2>9. SubSeq(queued', 1, Len(queued)) = queued
    BY <1>1, <2>7, <2>8, PrefixIsSubSeq
  <2> QED BY <1>1, <1>2, <2>7, <2>9 DEF Queue, Writing!Next, Writing!Put
<1>3. CASE Write
  <2>1. PICK n \in 1 .. t.write_len : wire' = wire \o SubSeq(WriteWindow(t), 1, n)
    BY <1>3 DEF Write
  <2>2. WriteWindow(t) \in Seq(Cell) /\ Len(WriteWindow(t)) = t.write_len
    BY WindowProperties DEF ReadInv, TypeOK, Cell
  <2>3. Len(wire') = Len(wire) + n
    BY <1>1, <2>1, <2>2, TakeProperties
  <2>4. /\ queued' = queued /\ Len(wire') =< Len(queued)
        /\ \A i \in 1 .. Len(wire') : wire'[i] = queued[i]
    <3>1. queued' = queued
      BY <1>3 DEF Write
    <3>2. Len(wire') =< Len(queued') /\ \A i \in 1 .. Len(wire') : wire'[i] = queued'[i]
      BY DEF WriteInv, WriteIntact, WireInOrder
    <3> QED BY <3>1, <3>2
  <2>5. SubSeq(queued, 1, Len(wire')) = wire'
    BY <1>1, <2>4, PrefixIsSubSeq
  <2>6. Len(wire') \in (Len(wire) + 1) .. Len(queued)
    BY <1>1, <2>3, <2>4
  <2> QED BY <2>4, <2>5, <2>6 DEF Writing!Next, Writing!Get
<1>4. CASE Arrive \/ Read \/ ReadNothing \/ Parse \/ UNCHANGED vars
  BY <1>4 DEF Arrive, Read, ReadNothing, Parse, vars, Writing!vars
<1> QED BY <1>2, <1>3, <1>4 DEF Next

(* The write half implements the byte stream from the queueing code to the *)
(* wire, for any buffer size and however send cuts the output, when output *)
(* is queued only at write_pos = 0 (pw_transport.c:58-83).                 *)
THEOREM WriteHalfIsByteStream ==
  ASSUME QueueAtFront
  PROVE  Spec => WriteFifo
<1>1. Init => Writing!Init
  BY DEF Init, Writing!Init
<1>2. Spec => []ReadInv
  BY ReadHalfCorrect, PTL DEF ReadInv
<1>3. Spec => []WriteInv
  <2>1. WindowsInBuffers /\ WireInOrder /\ WriteIntact => WriteInv
    BY DEF WindowsInBuffers, WriteInv
  <2> QED BY <2>1, WriteHalfCorrect, PTL
<1>4. ReadInv /\ ReadInv' /\ WriteInv /\ WriteInv' /\ [Next]_vars => [Writing!Next]_(Writing!vars)
  BY WriteSimulation
<1> QED BY <1>1, <1>2, <1>3, <1>4, PTL DEF Spec, WriteFifo, Writing!Spec
=============================================================================
