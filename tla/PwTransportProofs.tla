------------------------- MODULE PwTransportProofs -------------------------
(***************************************************************************)
(* What the operations of PwTransport do to the buffers and their windows, *)
(* for every buffer size and every kind of cell: the lemmas the proofs     *)
(* about the modules that use a transport share.                           *)
(***************************************************************************)
EXTENDS PwTransport, SequenceTheorems, TLAPS

(* Storing bytes into an array changes exactly the cells they cover. *)
LEMMA StoreProperties ==
  ASSUME NEW C, NEW buffer \in [Index -> C], NEW at \in Nat, NEW bytes \in Seq(C)
  PROVE  /\ Store(buffer, at, bytes) \in [Index -> C]
         /\ \A k \in Index : Store(buffer, at, bytes)[k] =
              IF at =< k /\ k < at + Len(bytes) THEN bytes[k - at + 1] ELSE buffer[k]
<1>1. \A k \in Index : at =< k /\ k < at + Len(bytes) => bytes[k - at + 1] \in C
  <2>1. \A i \in 1 .. Len(bytes) : bytes[i] \in C
    BY ElementOfSeq
  <2>2. \A k \in Index : at =< k /\ k < at + Len(bytes) => k - at + 1 \in 1 .. Len(bytes)
    BY LenProperties, BufferSizeAssumption DEF Index
  <2> QED BY <2>1, <2>2
<1> QED BY <1>1 DEF Store

(* The transport after pw_transport_read, field by field. *)
LEMMA ReadProperties ==
  ASSUME NEW C, NoByte \in C, NEW u \in Transport(C), NEW bytes \in Seq(C),
         u.read_pos + u.read_len =< PW_BUFFER_SIZE
  PROVE  /\ TransportRead(u, bytes) \in Transport(C)
         /\ TransportRead(u, bytes).read_pos = 0
         /\ TransportRead(u, bytes).read_len = u.read_len + Len(bytes)
         /\ TransportRead(u, bytes).write_buffer = u.write_buffer
         /\ TransportRead(u, bytes).write_pos = u.write_pos
         /\ TransportRead(u, bytes).write_len = u.write_len
         /\ \A k \in Index : k < u.read_len + Len(bytes) =>
              TransportRead(u, bytes).read_buffer[k] =
                IF k < u.read_len THEN u.read_buffer[u.read_pos + k]
                ELSE bytes[k - u.read_len + 1]
<1> DEFINE c == Compact(u)
           moved == [k \in Index |-> IF k < u.read_len
                                     THEN Load(u.read_buffer, u.read_pos + k)
                                     ELSE u.read_buffer[k]]
<1>1. moved \in [Index -> C]
  BY DEF Transport, Load
<1>2. /\ c.read_buffer = IF u.read_len > 0 /\ u.read_pos > 0 THEN moved ELSE u.read_buffer
      /\ c.read_pos = 0 /\ c.read_len = u.read_len
      /\ c.write_buffer = u.write_buffer
      /\ c.write_pos = u.write_pos /\ c.write_len = u.write_len
  BY DEF Compact, Transport
<1>3. c \in Transport(C)
  BY <1>1, <1>2 DEF Compact, Transport
<1>4. \A k \in Index : k < u.read_len => c.read_buffer[k] = u.read_buffer[u.read_pos + k]
  BY <1>2, BufferSizeAssumption DEF Transport, Load, Index
<1> HIDE DEF c, moved
<1> DEFINE b == Store(c.read_buffer, c.read_pos + c.read_len, bytes)
<1>5. /\ b \in [Index -> C]
      /\ \A k \in Index : b[k] = IF u.read_len =< k /\ k < u.read_len + Len(bytes)
                                 THEN bytes[k - u.read_len + 1] ELSE c.read_buffer[k]
  <2>1. c.read_buffer \in [Index -> C] /\ c.read_pos + c.read_len = u.read_len /\ u.read_len \in Nat
    BY <1>2, <1>3 DEF Transport
  <2> QED BY <2>1, StoreProperties
<1>6. TransportRead(u, bytes) = [c EXCEPT !.read_buffer = b, !.read_len = u.read_len + Len(bytes)]
  BY <1>2, <1>3 DEF TransportRead, c, Transport
<1> HIDE DEF b
<1>7. Len(bytes) \in Nat /\ u.read_len + Len(bytes) \in Nat
  BY LenProperties DEF Transport
<1>8. TransportRead(u, bytes) \in Transport(C)
  <2> DEFINE n == u.read_len + Len(bytes)
  <2>1. n \in Nat
    BY <1>7
  <2>2. TransportRead(u, bytes) = [c EXCEPT !.read_buffer = b, !.read_len = n]
    BY <1>6
  <2> HIDE DEF n
  <2> QED BY <1>3, <1>5, <2>1, <2>2 DEF Transport
<1>9. /\ TransportRead(u, bytes).read_buffer = b
      /\ TransportRead(u, bytes).read_pos = 0
      /\ TransportRead(u, bytes).read_len = u.read_len + Len(bytes)
      /\ TransportRead(u, bytes).write_buffer = u.write_buffer
      /\ TransportRead(u, bytes).write_pos = u.write_pos
      /\ TransportRead(u, bytes).write_len = u.write_len
  BY <1>2, <1>3, <1>6 DEF Transport
<1>10. ASSUME NEW k \in Index, k < u.read_len + Len(bytes)
       PROVE  b[k] = IF k < u.read_len THEN u.read_buffer[u.read_pos + k]
                     ELSE bytes[k - u.read_len + 1]
  <2>1. k \in Nat /\ u.read_len \in Nat
    BY BufferSizeAssumption DEF Index, Transport
  <2>2. CASE k < u.read_len
    BY <1>4, <1>5, <2>1, <2>2
  <2>3. CASE ~(k < u.read_len)
    BY <1>5, <1>7, <1>10, <2>1, <2>3
  <2> QED BY <2>2, <2>3
<1> QED BY <1>8, <1>9, <1>10

-----------------------------------------------------------------------------
(* What a concatenation holds. *)
LEMMA ConcatElements ==
  ASSUME NEW C, NEW r \in Seq(C), NEW s \in Seq(C)
  PROVE  /\ Len(r \o s) = Len(r) + Len(s)
         /\ \A i \in 1 .. Len(r) : (r \o s)[i] = r[i]
         /\ \A i \in 1 .. Len(s) : (r \o s)[Len(r) + i] = s[i]
<1>1. Len(r) \in Nat /\ Len(s) \in Nat
  BY LenProperties
<1>2. /\ Len(r \o s) = Len(r) + Len(s)
      /\ \A i \in 1 .. (Len(r) + Len(s)) :
           (r \o s)[i] = IF i =< Len(r) THEN r[i] ELSE s[i - Len(r)]
  OBVIOUS
<1>3. \A i \in 1 .. Len(s) : /\ Len(r) + i \in 1 .. (Len(r) + Len(s))
                             /\ ~(Len(r) + i =< Len(r)) /\ (Len(r) + i) - Len(r) = i
  BY <1>1
<1>4. \A i \in 1 .. Len(r) : i \in 1 .. (Len(r) + Len(s)) /\ i =< Len(r)
  BY <1>1
<1> QED BY <1>2, <1>3, <1>4

(* Taking the first n cells of a window onto the end of a history. *)
LEMMA TakeProperties ==
  ASSUME NEW C, NEW s \in Seq(C), NEW w \in Seq(C), NEW n \in 1 .. Len(w)
  PROVE  /\ s \o SubSeq(w, 1, n) \in Seq(C)
         /\ Len(s \o SubSeq(w, 1, n)) = Len(s) + n
         /\ \A i \in 1 .. (Len(s) + n) :
              (s \o SubSeq(w, 1, n))[i] = IF i =< Len(s) THEN s[i] ELSE w[i - Len(s)]
<1> DEFINE p == SubSeq(w, 1, n)
<1>1. Len(s) \in Nat /\ Len(w) \in Nat
  BY LenProperties
<1>2. p \in Seq(C) /\ Len(p) = n /\ \A i \in 1 .. n : p[i] = w[i]
  BY <1>1
<1> HIDE DEF p
<1>3. s \o p \in Seq(C) /\ Len(s \o p) = Len(s) + n
  BY <1>1, <1>2
<1>4. \A i \in 1 .. (Len(s) + n) : (s \o p)[i] = IF i =< Len(s) THEN s[i] ELSE p[i - Len(s)]
  BY <1>1, <1>2
<1>5. \A i \in 1 .. (Len(s) + n) : ~(i =< Len(s)) => i - Len(s) \in 1 .. n
  BY <1>1
<1> QED BY <1>2, <1>3, <1>4, <1>5 DEF p

(* The unread and the unsent window are sequences of cells. *)
LEMMA WindowProperties ==
  ASSUME NEW C, NoByte \in C, NEW u \in Transport(C)
  PROVE  /\ ReadWindow(u) \in Seq(C) /\ Len(ReadWindow(u)) = u.read_len
         /\ WriteWindow(u) \in Seq(C) /\ Len(WriteWindow(u)) = u.write_len
         /\ \A i \in 1 .. u.read_len : ReadWindow(u)[i] = Load(u.read_buffer, u.read_pos + i - 1)
         /\ \A i \in 1 .. u.write_len : WriteWindow(u)[i] = Load(u.write_buffer, u.write_pos + i - 1)
<1>1. \A k : Load(u.read_buffer, k) \in C /\ Load(u.write_buffer, k) \in C
  BY DEF Load, Transport
<1>2. u.read_len \in Nat /\ u.write_len \in Nat
  BY DEF Transport
<1>3. ReadWindow(u) \in [1 .. u.read_len -> C] /\ WriteWindow(u) \in [1 .. u.write_len -> C]
  BY <1>1 DEF ReadWindow, WriteWindow
<1>4. ReadWindow(u) \in Seq(C) /\ Len(ReadWindow(u)) = u.read_len
  BY <1>2, <1>3
<1>5. WriteWindow(u) \in Seq(C) /\ Len(WriteWindow(u)) = u.write_len
  BY <1>2, <1>3
<1> QED BY <1>4, <1>5 DEF ReadWindow, WriteWindow

(* n elements of a sequence behind the first a. *)
LEMMA Stretch ==
  ASSUME NEW C, NEW s \in Seq(C), NEW a \in Nat, NEW n \in Nat, a + n =< Len(s)
  PROVE  /\ SubSeq(s, a + 1, a + n) \in Seq(C)
         /\ Len(SubSeq(s, a + 1, a + n)) = n
         /\ \A i \in 1 .. n : SubSeq(s, a + 1, a + n)[i] = s[a + i]
<1>1. Len(s) \in Nat /\ \A i \in 1 .. n : a + i \in 1 .. Len(s)
  OBVIOUS
<1>2. SubSeq(s, a + 1, a + n) \in Seq(C)
  BY <1>1
<1>3. Len(SubSeq(s, a + 1, a + n)) = n
  BY <1>1
<1>4. \A i \in 1 .. n : SubSeq(s, a + 1, a + n)[i] = s[a + i]
  BY <1>1
<1> QED BY <1>2, <1>3, <1>4
-----------------------------------------------------------------------------
(* A transport whose unread input is drawn from In and whose write buffer, *)
(* in use or not, holds cells of Out only.                                 *)
Carries(u, C, In, Out) ==
  /\ u \in Transport(C) /\ u.write_buffer \in [Index -> Out]
  /\ u.read_pos + u.read_len =< PW_BUFFER_SIZE
  /\ \A k \in Index : u.read_pos =< k /\ k < u.read_pos + u.read_len => u.read_buffer[k] \in In

LEMMA CarriesMore ==
  ASSUME NEW C, NEW In, NEW Out, NEW In2, NEW Out2, NEW u, Carries(u, C, In, Out),
         In \subseteq In2, Out \subseteq Out2
  PROVE  Carries(u, C, In2, Out2)
BY DEF Carries

LEMMA InitCarries ==
  ASSUME NEW C, NEW In, NEW Out, NEW u \in Transport(C), u.write_buffer \in [Index -> Out]
  PROVE  Carries(TransportInit(u), C, In, Out) /\ TransportInit(u).write_len = 0
<1> DEFINE r == TransportInit(u)
<1>1. /\ r \in Transport(C) /\ r.write_buffer = u.write_buffer
      /\ r.read_pos = 0 /\ r.read_len = 0 /\ r.write_len = 0
  BY DEF Transport, TransportInit
<1> HIDE DEF r
<1>2. Carries(r, C, In, Out)
  BY <1>1, BufferSizeAssumption DEF Carries, Index
<1> QED BY <1>1, <1>2 DEF r

(* pw_transport_read: recv was offered the room behind the window. *)
LEMMA ReadCarries ==
  ASSUME NEW C, NEW In, NEW Out, NoByte \in C, In \subseteq C, NEW u, Carries(u, C, In, Out),
         NEW bytes \in Seq(In), Len(bytes) =< ReadSpace(u)
  PROVE  Carries(TransportRead(u, bytes), C, In, Out)
<1> DEFINE r == TransportRead(u, bytes)
<1>1. u \in Transport(C) /\ bytes \in Seq(C) /\ u.read_pos + u.read_len =< PW_BUFFER_SIZE
  BY DEF Carries
<1>2. /\ r \in Transport(C) /\ r.read_pos = 0 /\ r.read_len = u.read_len + Len(bytes)
      /\ r.write_buffer = u.write_buffer
      /\ \A k \in Index : k < u.read_len + Len(bytes) =>
           r.read_buffer[k] = IF k < u.read_len THEN u.read_buffer[u.read_pos + k]
                              ELSE bytes[k - u.read_len + 1]
  BY <1>1, ReadProperties
<1>3. u.read_len \in Nat /\ u.read_pos \in Nat /\ Len(bytes) \in Nat /\ PW_BUFFER_SIZE \in Nat
  BY <1>1, LenProperties, BufferSizeAssumption DEF Transport
<1>4. r.read_pos + r.read_len =< PW_BUFFER_SIZE
  BY <1>2, <1>3 DEF ReadSpace
<1> HIDE DEF r
<1>5. ASSUME NEW k \in Index, k < u.read_len + Len(bytes) PROVE r.read_buffer[k] \in In
  <2>1. k \in Nat
    BY <1>3 DEF Index
  <2>2. CASE k < u.read_len
    <3>1. /\ u.read_pos + k \in Index
          /\ u.read_pos =< u.read_pos + k /\ u.read_pos + k < u.read_pos + u.read_len
      BY <1>1, <1>3, <2>1, <2>2 DEF Index
    <3>2. u.read_buffer[u.read_pos + k] \in In
      BY <3>1 DEF Carries
    <3> QED BY <1>2, <1>5, <2>2, <3>2
  <2>3. CASE ~(k < u.read_len)
    <3>1. k - u.read_len + 1 \in 1 .. Len(bytes)
      BY <1>3, <1>5, <2>1, <2>3
    <3>2. bytes[k - u.read_len + 1] \in In
      BY <3>1, ElementOfSeq
    <3> QED BY <1>2, <1>5, <2>3, <3>2
  <2> QED BY <2>2, <2>3
<1>6. \A k \in Index : r.read_pos =< k /\ k < r.read_pos + r.read_len => r.read_buffer[k] \in In
  <2>1. r.read_pos + r.read_len = u.read_len + Len(bytes)
    BY <1>2, <1>3
  <2> QED BY <1>5, <2>1
<1>7. r.write_buffer \in [Index -> Out]
  BY <1>2 DEF Carries
<1>8. Carries(r, C, In, Out)
  BY <1>2, <1>4, <1>6, <1>7 DEF Carries
<1> QED BY <1>8 DEF r

LEMMA ConsumeCarries ==
  ASSUME NEW C, NEW In, NEW Out, NEW u, Carries(u, C, In, Out), NEW n \in Nat, n =< u.read_len
  PROVE  /\ Carries(Consume(u, n), C, In, Out) /\ Consume(u, n).write_len = u.write_len
         /\ Consume(u, n).write_buffer = u.write_buffer /\ Consume(u, n).write_pos = u.write_pos
<1> DEFINE r == Consume(u, n)
<1>1. u \in Transport(C)
  BY DEF Carries
<1>2. u.read_pos \in Nat /\ u.read_len \in Nat /\ u.read_pos + n \in Nat /\ u.read_len - n \in Nat
  BY <1>1 DEF Transport
<1>3. /\ r.read_pos = u.read_pos + n /\ r.read_len = u.read_len - n /\ r.read_buffer = u.read_buffer
      /\ r.write_buffer = u.write_buffer /\ r.write_pos = u.write_pos /\ r.write_len = u.write_len
  BY <1>1 DEF Consume, Transport
<1>4. r \in Transport(C)
  <2> DEFINE a == u.read_pos + n
             b == u.read_len - n
  <2>1. r = [u EXCEPT !.read_pos = a, !.read_len = b] /\ a \in Nat /\ b \in Nat
    BY <1>1, <1>2 DEF Consume, Transport
  <2> HIDE DEF a, b, r
  <2> QED BY <1>1, <2>1 DEF Transport
<1> HIDE DEF r
<1>5. r.read_pos + r.read_len = u.read_pos + u.read_len
  BY <1>2, <1>3
<1>6. \A k \in Index : r.read_pos =< k /\ k < r.read_pos + r.read_len => r.read_buffer[k] \in In
  <2>1. ASSUME NEW k \in Index, r.read_pos =< k PROVE u.read_pos =< k
    BY <1>2, <1>3, <2>1, BufferSizeAssumption DEF Index
  <2> QED BY <1>3, <1>5, <2>1 DEF Carries
<1>7. Carries(r, C, In, Out)
  BY <1>3, <1>4, <1>5, <1>6 DEF Carries
<1> QED BY <1>3, <1>7 DEF r

LEMMA EnqueueCarries ==
  ASSUME NEW C, NEW In, NEW Out, Out \subseteq C, NEW u, Carries(u, C, In, Out), NEW bytes \in Seq(Out)
  PROVE  Carries(Enqueue(u, bytes), C, In, Out)
<1> DEFINE r == Enqueue(u, bytes)
           b == Store(u.write_buffer, u.write_len, bytes)
           n == u.write_len + Len(bytes)
<1>1. u \in Transport(C) /\ u.write_len \in Nat /\ u.write_buffer \in [Index -> Out]
  BY DEF Carries, Transport
<1>2. b \in [Index -> Out] /\ n \in Nat
  BY <1>1, StoreProperties, LenProperties
<1>3. b \in [Index -> C]
  BY <1>2
<1>4. r = [u EXCEPT !.write_buffer = b, !.write_len = n]
  BY <1>1 DEF Enqueue, Transport
<1> HIDE DEF b, n, r
<1>5. /\ r \in Transport(C) /\ r.read_pos = u.read_pos /\ r.read_len = u.read_len
      /\ r.read_buffer = u.read_buffer /\ r.write_buffer = b
  BY <1>1, <1>2, <1>3, <1>4 DEF Transport
<1>6. Carries(r, C, In, Out)
  BY <1>2, <1>5 DEF Carries
<1> QED BY <1>6 DEF r

LEMMA WriteCarries ==
  ASSUME NEW C, NEW In, NEW Out, NEW u, Carries(u, C, In, Out), NEW n \in 1 .. u.write_len
  PROVE  Carries(TransportWrite(u, n), C, In, Out)
<1> DEFINE r == TransportWrite(u, n)
           a == IF n = u.write_len THEN 0 ELSE u.write_pos + n
           b == u.write_len - n
<1>1. u \in Transport(C) /\ u.write_len \in Nat /\ u.write_pos \in Nat
  BY DEF Carries, Transport
<1>2. a \in Nat /\ b \in Nat
  BY <1>1
<1>3. r = [u EXCEPT !.write_pos = a, !.write_len = b]
  BY <1>1 DEF TransportWrite, Transport
<1> HIDE DEF a, b, r
<1>4. /\ r \in Transport(C) /\ r.read_pos = u.read_pos /\ r.read_len = u.read_len
      /\ r.read_buffer = u.read_buffer /\ r.write_buffer = u.write_buffer
  BY <1>1, <1>2, <1>3 DEF Transport
<1>5. Carries(r, C, In, Out)
  BY <1>4 DEF Carries
<1> QED BY <1>5 DEF r

(* What the parser sees, and what send() is offered. *)
LEMMA CarriedWindows ==
  ASSUME NEW C, NEW In, NEW Out, NoByte \in Out, NEW u, Carries(u, C, In, Out)
  PROVE  /\ ReadWindow(u) \in Seq(In) /\ Len(ReadWindow(u)) = u.read_len /\ u.read_len \in Nat
         /\ u.read_len > 0 => Load(u.read_buffer, u.read_pos) \in In
         /\ WriteWindow(u) \in Seq(Out) /\ Len(WriteWindow(u)) = u.write_len /\ u.write_len \in Nat
<1>1. /\ u.read_len \in Nat /\ u.read_pos \in Nat /\ u.write_len \in Nat
      /\ u.write_buffer \in [Index -> Out] /\ u.read_pos + u.read_len =< PW_BUFFER_SIZE
  BY DEF Carries, Transport
<1>2. ASSUME NEW i \in 1 .. u.read_len PROVE Load(u.read_buffer, u.read_pos + i - 1) \in In
  <2>1. /\ u.read_pos + i - 1 \in Index /\ u.read_pos =< u.read_pos + i - 1
        /\ u.read_pos + i - 1 < u.read_pos + u.read_len
    BY <1>1, BufferSizeAssumption DEF Index
  <2> QED BY <2>1 DEF Load, Carries
<1>3. ReadWindow(u) \in [1 .. u.read_len -> In]
  BY <1>2 DEF ReadWindow
<1>4. WriteWindow(u) \in [1 .. u.write_len -> Out]
  BY <1>1 DEF WriteWindow, Load
<1>5. u.read_len > 0 => Load(u.read_buffer, u.read_pos) \in In
  <2>1. u.read_len > 0 => 1 \in 1 .. u.read_len /\ u.read_pos + 1 - 1 = u.read_pos
    BY <1>1
  <2> QED BY <1>2, <2>1
<1>6. ReadWindow(u) \in Seq(In) /\ Len(ReadWindow(u)) = u.read_len
  BY <1>1, <1>3
<1>7. WriteWindow(u) \in Seq(Out) /\ Len(WriteWindow(u)) = u.write_len
  BY <1>1, <1>4
<1> QED BY <1>1, <1>5, <1>6, <1>7
-----------------------------------------------------------------------------
(* What the operations do to the windows themselves. *)
LEMMA WindowAfterRead ==
  ASSUME NEW C, NoByte \in C, NEW u \in Transport(C), NEW bytes \in Seq(C),
         u.read_pos + u.read_len =< PW_BUFFER_SIZE, Len(bytes) =< ReadSpace(u)
  PROVE  /\ TransportRead(u, bytes).read_pos + TransportRead(u, bytes).read_len =< PW_BUFFER_SIZE
         /\ \A i \in 1 .. u.read_len : ReadWindow(TransportRead(u, bytes))[i] = ReadWindow(u)[i]
         /\ \A i \in 1 .. Len(bytes) : ReadWindow(TransportRead(u, bytes))[u.read_len + i] = bytes[i]
         /\ WriteWindow(TransportRead(u, bytes)) = WriteWindow(u)
<1> DEFINE r == TransportRead(u, bytes)
<1>1. /\ r \in Transport(C) /\ r.read_pos = 0 /\ r.read_len = u.read_len + Len(bytes)
      /\ r.write_buffer = u.write_buffer /\ r.write_pos = u.write_pos /\ r.write_len = u.write_len
      /\ \A k \in Index : k < u.read_len + Len(bytes) =>
           r.read_buffer[k] = IF k < u.read_len THEN u.read_buffer[u.read_pos + k]
                              ELSE bytes[k - u.read_len + 1]
  BY ReadProperties
<1>2. u.read_pos \in Nat /\ u.read_len \in Nat /\ Len(bytes) \in Nat /\ PW_BUFFER_SIZE \in Nat
  BY BufferSizeAssumption DEF Transport
<1> HIDE DEF r
<1>3. u.read_len + Len(bytes) =< PW_BUFFER_SIZE
  BY <1>2 DEF ReadSpace
<1>4. \A i \in 1 .. r.read_len : ReadWindow(r)[i] = Load(r.read_buffer, r.read_pos + i - 1)
  BY <1>1, WindowProperties
<1>5. \A i \in 1 .. u.read_len : ReadWindow(u)[i] = Load(u.read_buffer, u.read_pos + i - 1)
  BY WindowProperties
<1>6. ASSUME NEW i \in 1 .. u.read_len PROVE ReadWindow(r)[i] = ReadWindow(u)[i]
  <2>1. i \in 1 .. r.read_len /\ i - 1 \in Index /\ u.read_pos + i - 1 \in Index /\ i - 1 < u.read_len
        /\ u.read_pos + (i - 1) = u.read_pos + i - 1 /\ 0 + i - 1 = i - 1 /\ i - 1 < u.read_len + Len(bytes)
    BY <1>1, <1>2, <1>3 DEF Index
  <2>2. ReadWindow(r)[i] = r.read_buffer[i - 1]
    BY <1>1, <1>4, <2>1 DEF Load
  <2>3. r.read_buffer[i - 1] = u.read_buffer[u.read_pos + i - 1]
    BY <1>1, <2>1
  <2> QED BY <1>5, <2>1, <2>2, <2>3 DEF Load
<1>7. ASSUME NEW i \in 1 .. Len(bytes) PROVE ReadWindow(r)[u.read_len + i] = bytes[i]
  <2> DEFINE k == u.read_len + i - 1
  <2>1. /\ u.read_len + i \in 1 .. r.read_len /\ k \in Index /\ ~(k < u.read_len)
        /\ k - u.read_len + 1 = i /\ 0 + (u.read_len + i) - 1 = k /\ k < u.read_len + Len(bytes)
    BY <1>1, <1>2, <1>3 DEF Index
  <2>2. ReadWindow(r)[u.read_len + i] = r.read_buffer[k]
    BY <1>1, <1>4, <2>1 DEF Load
  <2> QED BY <1>1, <2>1, <2>2
<1>8. r.read_pos + r.read_len =< PW_BUFFER_SIZE
  BY <1>1, <1>2, <1>3
<1>9. WriteWindow(r) = WriteWindow(u)
  BY <1>1 DEF WriteWindow
<1> QED BY <1>6, <1>7, <1>8, <1>9 DEF r

LEMMA WindowAfterConsume ==
  ASSUME NEW C, NEW u \in Transport(C), NEW n \in Nat, n =< u.read_len
  PROVE  /\ Consume(u, n) \in Transport(C)
         /\ Consume(u, n).read_pos = u.read_pos + n /\ Consume(u, n).read_len = u.read_len - n
         /\ Consume(u, n).write_pos = u.write_pos /\ Consume(u, n).write_len = u.write_len
         /\ WriteWindow(Consume(u, n)) = WriteWindow(u)
<1> DEFINE r == Consume(u, n)
<1>1. /\ r.read_pos = u.read_pos + n /\ r.read_len = u.read_len - n
      /\ r.write_buffer = u.write_buffer /\ r.write_pos = u.write_pos /\ r.write_len = u.write_len
  BY DEF Consume, Transport
<1>2. u.read_pos \in Nat /\ u.read_len \in Nat
  BY DEF Transport
<1>3. u.read_pos + n \in Nat /\ u.read_len - n \in Nat
  BY <1>2
<1>4. r \in Transport(C)
  BY <1>3 DEF Consume, Transport
<1>5. WriteWindow(r) = WriteWindow(u)
  BY <1>1 DEF WriteWindow
<1> QED BY <1>1, <1>4, <1>5

LEMMA WindowAfterWrite ==
  ASSUME NEW C, NoByte \in C, NEW u \in Transport(C), NEW n \in 1 .. u.write_len
  PROVE  /\ TransportWrite(u, n) \in Transport(C)
         /\ TransportWrite(u, n).write_len = u.write_len - n
         /\ TransportWrite(u, n).write_pos = IF n = u.write_len THEN 0 ELSE u.write_pos + n
         /\ TransportWrite(u, n).read_pos = u.read_pos /\ TransportWrite(u, n).read_len = u.read_len
         /\ \A i \in 1 .. (u.write_len - n) :
              WriteWindow(TransportWrite(u, n))[i] = WriteWindow(u)[n + i]
         /\ ReadWindow(TransportWrite(u, n)) = ReadWindow(u)
<1> DEFINE r == TransportWrite(u, n)
           a == IF n = u.write_len THEN 0 ELSE u.write_pos + n
<1>1. /\ r.write_pos = a /\ r.write_len = u.write_len - n /\ r.write_buffer = u.write_buffer
      /\ r.read_buffer = u.read_buffer /\ r.read_pos = u.read_pos /\ r.read_len = u.read_len
  BY DEF TransportWrite, Transport
<1>2. u.write_pos \in Nat /\ u.write_len \in Nat /\ n \in Nat
  BY DEF Transport
<1>3. a \in Nat /\ u.write_len - n \in Nat
  BY <1>2
<1>4. r \in Transport(C)
  BY <1>3 DEF TransportWrite, Transport
<1> HIDE DEF r
<1>5. ASSUME NEW i \in 1 .. (u.write_len - n) PROVE WriteWindow(r)[i] = WriteWindow(u)[n + i]
  <2>1. a = u.write_pos + n
    BY <1>2
  <2>2. n + i \in 1 .. u.write_len /\ i \in 1 .. r.write_len
        /\ u.write_pos + (n + i) - 1 = (u.write_pos + n) + i - 1
    BY <1>1, <1>2
  <2>3. WriteWindow(u)[n + i] = Load(u.write_buffer, u.write_pos + (n + i) - 1)
    BY <2>2, WindowProperties
  <2>4. WriteWindow(r)[i] = Load(r.write_buffer, r.write_pos + i - 1)
    BY <1>4, <2>2, WindowProperties
  <2> QED BY <1>1, <2>1, <2>2, <2>3, <2>4
<1>6. ReadWindow(r) = ReadWindow(u)
  BY <1>1 DEF ReadWindow
<1> QED BY <1>1, <1>4, <1>5, <1>6 DEF r

LEMMA WindowAfterEnqueue ==
  ASSUME NEW C, NoByte \in C, NEW u \in Transport(C), NEW bytes \in Seq(C),
         u.write_pos = 0, u.write_len + Len(bytes) =< PW_BUFFER_SIZE
  PROVE  /\ Enqueue(u, bytes) \in Transport(C)
         /\ Enqueue(u, bytes).write_pos = 0
         /\ Enqueue(u, bytes).write_len = u.write_len + Len(bytes)
         /\ Enqueue(u, bytes).read_pos = u.read_pos /\ Enqueue(u, bytes).read_len = u.read_len
         /\ \A i \in 1 .. u.write_len : WriteWindow(Enqueue(u, bytes))[i] = WriteWindow(u)[i]
         /\ \A i \in 1 .. Len(bytes) : WriteWindow(Enqueue(u, bytes))[u.write_len + i] = bytes[i]
<1> DEFINE r == Enqueue(u, bytes)
           b == Store(u.write_buffer, u.write_len, bytes)
<1>1. u.write_len \in Nat /\ Len(bytes) \in Nat /\ PW_BUFFER_SIZE \in Nat
  BY BufferSizeAssumption DEF Transport
<1>2. /\ b \in [Index -> C]
      /\ \A k \in Index : b[k] = IF u.write_len =< k /\ k < u.write_len + Len(bytes)
                                 THEN bytes[k - u.write_len + 1] ELSE u.write_buffer[k]
  BY <1>1, StoreProperties DEF Transport
<1> HIDE DEF b
<1>3. /\ r.write_buffer = b /\ r.write_pos = 0 /\ r.write_len = u.write_len + Len(bytes)
      /\ r.read_pos = u.read_pos /\ r.read_len = u.read_len
  BY DEF Enqueue, Transport, b
<1>4. u.write_len + Len(bytes) \in Nat
  BY <1>1
<1>5. r \in Transport(C)
  BY <1>2, <1>4 DEF Enqueue, Transport, b
<1> HIDE DEF r
<1>6. \A i \in 1 .. r.write_len : WriteWindow(r)[i] = Load(r.write_buffer, r.write_pos + i - 1)
  BY <1>5, WindowProperties
<1>7. \A i \in 1 .. u.write_len : WriteWindow(u)[i] = Load(u.write_buffer, u.write_pos + i - 1)
  BY WindowProperties
<1>8. ASSUME NEW i \in 1 .. u.write_len PROVE WriteWindow(r)[i] = WriteWindow(u)[i]
  <2>1. i \in 1 .. r.write_len /\ 0 + i - 1 = i - 1 /\ i - 1 \in Index /\ ~(u.write_len =< i - 1)
    BY <1>1, <1>3 DEF Index
  <2>2. b[i - 1] = u.write_buffer[i - 1]
    BY <1>2, <2>1
  <2> QED BY <1>3, <1>6, <1>7, <2>1, <2>2 DEF Load
<1>9. ASSUME NEW i \in 1 .. Len(bytes) PROVE WriteWindow(r)[u.write_len + i] = bytes[i]
  <2> DEFINE k == u.write_len + i - 1
  <2>1. /\ u.write_len + i \in 1 .. r.write_len /\ 0 + (u.write_len + i) - 1 = k /\ k \in Index
        /\ u.write_len =< k /\ k < u.write_len + Len(bytes) /\ k - u.write_len + 1 = i
    BY <1>1, <1>3 DEF Index
  <2>2. b[k] = bytes[i]
    BY <1>2, <2>1
  <2>3. WriteWindow(r)[u.write_len + i] = Load(r.write_buffer, r.write_pos + (u.write_len + i) - 1)
    BY <1>6, <2>1
  <2>4. Load(b, k) = b[k]
    BY <2>1 DEF Load
  <2> QED BY <1>3, <2>1, <2>2, <2>3, <2>4
<1> QED BY <1>3, <1>5, <1>8, <1>9 DEF r
=============================================================================
