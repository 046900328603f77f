------------------------ MODULE StreamClientProofs ------------------------
(***************************************************************************)
(* Proofs about StreamClient and the codecs of PwCodec it talks to, on     *)
(* real bytes: for every token, every payload and frame, any number of     *)
(* them, and any cutting of what is on its way.                            *)
(*                                                                         *)
(* The encoders and decoders are recursive.  Their recursion is shown to   *)
(* end by a measure (MeasuredRecursion), and the induction over it is made *)
(* by a least counterexample (NatMin).                                     *)
(***************************************************************************)
EXTENDS StreamClient, SequenceTheorems, FiniteSetTheorems, WellFoundedInduction, TLAPS

(* A set of naturals that is not empty has a least element. *)
LEMMA NatMin ==
  ASSUME NEW T, T \subseteq Nat, T # {}
  PROVE \E n \in T : \A m \in T : n =< m
<1> DEFINE U == {0 .. n : n \in T}
<1>1. U \subseteq FiniteSubsetsOf(Nat)
  <2> SUFFICES ASSUME NEW n \in T PROVE 0 .. n \in FiniteSubsetsOf(Nat)
    OBVIOUS
  <2>1. n \in Nat /\ IsFiniteSet(0 .. n) /\ 0 .. n \subseteq Nat
    BY FS_Interval
  <2> QED BY <2>1 DEF FiniteSubsetsOf
<1>2. PICK x \in U : \A y \in U : ~ (<<y, x>> \in StrictSubsetOrdering(Nat))
  <2>1. U # {}
    OBVIOUS
  <2> HIDE DEF U
  <2> QED BY <1>1, <2>1, FS_StrictSubsetOrderingWellFounded, WFMin, Zenon
<1>3. PICK n \in T : x = 0 .. n
  BY <1>2
<1>4. ASSUME NEW m \in T, m < n PROVE FALSE
  <2>1. 0 .. m \in U /\ 0 .. m \subseteq 0 .. n /\ 0 .. m # 0 .. n
    BY <1>4, n \in 0 .. n, n \notin 0 .. m
  <2>2. <<0 .. m, 0 .. n>> \in StrictSubsetOrdering(Nat)
    BY <2>1 DEF StrictSubsetOrdering
  <2> QED BY <2>1, <2>2, <1>2, <1>3
<1> QED BY <1>4

(* step[<<s, g>>] is the value at s of a function whose other values g     *)
(* gives; it depends on those at arguments of smaller measure only.        *)
Descends(S, V, measure, step) ==
  /\ measure \in [S -> Nat] /\ V # {} /\ step \in [S \X [S -> V] -> V]
  /\ \A s \in S, g, h \in [S -> V] :
       (\A r \in S : measure[r] < measure[s] => g[r] = h[r]) => step[<<s, g>>] = step[<<s, h>>]

Recurs(S, V, step, f) == f \in [S -> V] /\ \A s \in S : f[s] = step[<<s, f>>]

(* A function defined by such a recursion exists. *)
LEMMA MeasuredRecursion ==
  ASSUME NEW S, NEW V, NEW measure, NEW step, Descends(S, V, measure, step)
  PROVE  \E f : Recurs(S, V, step, f)
<1> /\ measure \in [S -> Nat] /\ V # {} /\ step \in [S \X [S -> V] -> V]
    /\ \A s \in S, g, h \in [S -> V] :
         (\A r \in S : measure[r] < measure[s] => g[r] = h[r]) => step[<<s, g>>] = step[<<s, h>>]
  BY DEF Descends
<1> PICK base \in V : TRUE
  OBVIOUS
<1> DEFINE Approx(n) == {g \in [S -> V] : \A s \in S : measure[s] < n => g[s] = step[<<s, g>>]}
           grow(n, g) == [s \in S |-> IF measure[s] = n THEN step[<<s, g>>] ELSE g[s]]
<1>1. [s \in S |-> base] \in Approx(0)
  OBVIOUS
<1>2. ASSUME NEW n \in Nat, NEW g \in Approx(n) PROVE grow(n, g) \in Approx(n + 1)
  <2> DEFINE h == grow(n, g)
  <2>1. g \in [S -> V] /\ h \in [S -> V]
    OBVIOUS
  <2>2. \A s \in S : h[s] = IF measure[s] = n THEN step[<<s, g>>] ELSE g[s]
    OBVIOUS
  <2> HIDE DEF h
  <2>3. ASSUME NEW s \in S, measure[s] < n + 1 PROVE h[s] = step[<<s, h>>]
    <3>1. \A r \in S : measure[r] \in Nat
      OBVIOUS
    <3>2. \A r \in S : measure[r] < measure[s] => g[r] = h[r]
      <4> SUFFICES ASSUME NEW r \in S, measure[r] < measure[s] PROVE g[r] = h[r]
        OBVIOUS
      <4>1. measure[r] # n
        BY <2>3, <3>1
      <4> QED BY <2>2, <4>1
    <3>3. step[<<s, g>>] = step[<<s, h>>]
      BY <2>1, <3>2
    <3>4. measure[s] < n => g[s] = step[<<s, g>>]
      BY <1>2
    <3>5. CASE measure[s] = n
      BY <2>2, <3>3, <3>5
    <3>6. CASE measure[s] # n
      <4>1. measure[s] \in Nat /\ n \in Nat /\ measure[s] < n + 1
        BY <2>3, <3>1
      <4>2. measure[s] < n
        BY ONLY <3>6, <4>1
      <4> QED BY <2>2, <3>3, <3>4, <3>6, <4>2
    <3> QED BY <3>5, <3>6
  <2> QED BY <2>1, <2>3 DEF h
<1>3. \A n \in Nat : Approx(n) # {}
  <2> DEFINE T == {n \in Nat : Approx(n) = {}}
  <2> HIDE DEF Approx, grow
  <2>1. SUFFICES ASSUME T # {} PROVE FALSE
    OBVIOUS
  <2>2. PICK n \in T : \A m \in T : n =< m
    BY <2>1, NatMin
  <2>3. n # 0 /\ n - 1 \in Nat /\ n - 1 \notin T /\ (n - 1) + 1 = n
    BY <1>1, <2>2
  <2> QED BY <1>2, <2>3
<1>4. ASSUME NEW n \in Nat, NEW g \in Approx(n), NEW h \in Approx(n), NEW s \in S, measure[s] < n
      PROVE  g[s] = h[s]
  <2> DEFINE T == {m \in Nat : \E r \in S : measure[r] = m /\ m < n /\ g[r] # h[r]}
  <2>1. SUFFICES ASSUME T # {} PROVE FALSE
    BY <1>4
  <2>2. PICK m \in T : \A k \in T : m =< k
    BY <2>1, NatMin
  <2>3. PICK r \in S : measure[r] = m /\ m < n /\ g[r] # h[r]
    BY <2>2
  <2>4. \A q \in S : measure[q] < measure[r] => g[q] = h[q]
    BY <2>2, <2>3
  <2>5. g[r] = step[<<r, g>>] /\ h[r] = step[<<r, h>>] /\ g \in [S -> V] /\ h \in [S -> V]
    BY <2>3
  <2> QED BY <2>3, <2>4, <2>5
<1> DEFINE app(n) == CHOOSE g : g \in Approx(n)
           f == [s \in S |-> app(measure[s] + 1)[s]]
<1>5. \A n \in Nat : app(n) \in Approx(n)
  <2> HIDE DEF Approx
  <2> QED BY <1>3
<1>6. ASSUME NEW s \in S, NEW n \in Nat, measure[s] < n PROVE f[s] = app(n)[s]
  <2> DEFINE g == app(n)
             h == app(measure[s] + 1)
  <2>1. measure[s] + 1 \in Nat /\ measure[s] < measure[s] + 1 /\ measure[s] + 1 =< n
    BY <1>6
  <2>2. g \in Approx(n) /\ h \in Approx(measure[s] + 1)
    BY <1>5, <2>1
  <2> HIDE DEF g, h, app
  <2>3. g \in Approx(measure[s] + 1)
    BY <2>1, <2>2
  <2>4. g[s] = h[s]
    <3> HIDE DEF Approx
    <3> QED BY <1>4, <2>1, <2>2, <2>3
  <2>5. f[s] = h[s]
    BY DEF h
  <2> QED BY <2>4, <2>5 DEF g
<1>7. f \in [S -> V]
  <2> SUFFICES ASSUME NEW s \in S PROVE app(measure[s] + 1)[s] \in V
    OBVIOUS
  <2>1. measure[s] + 1 \in Nat
    OBVIOUS
  <2>2. app(measure[s] + 1) \in Approx(measure[s] + 1)
    BY <1>5, <2>1
  <2> HIDE DEF app
  <2> QED BY <2>2
<1>8. ASSUME NEW s \in S PROVE f[s] = step[<<s, f>>]
  <2> DEFINE g == app(measure[s] + 1)
  <2>1. measure[s] + 1 \in Nat /\ measure[s] < measure[s] + 1
    OBVIOUS
  <2>2. g \in Approx(measure[s] + 1)
    BY <1>5, <2>1
  <2>3. f[s] = g[s] /\ \A r \in S : measure[r] < measure[s] => f[r] = g[r]
    <3> HIDE DEF f, app
    <3> QED BY <1>6, <2>1
  <2> HIDE DEF g, f, app
  <2>4. g \in [S -> V] /\ g[s] = step[<<s, g>>]
    BY <2>1, <2>2
  <2> QED BY <1>7, <2>3, <2>4
<1> HIDE DEF f
<1> QED BY <1>7, <1>8 DEF Recurs
-----------------------------------------------------------------------------
(* Seven bits and the rest of a number. *)
LEMMA Digits ==
  ASSUME NEW v \in Nat
  PROVE  /\ v % 128 \in 0 .. 127 /\ v \div 128 \in Nat /\ v = 128 * (v \div 128) + (v % 128)
         /\ v >= 128 => v \div 128 < v
         /\ v < 128 => v % 128 = v /\ v \div 128 = 0
         /\ v >= 128 => v \div 128 > 0
OBVIOUS

(* What it is to be a byte. *)
LEMMA ByteFacts ==
  /\ \A b \in Byte : b \in Nat /\ b =< 255
  /\ \A b \in Nat : b =< 255 => b \in Byte
BY DEF Byte

(* What a sequence of bytes holds. *)
LEMMA ByteAt ==
  ASSUME NEW s \in Seq(Byte), NEW i \in 1 .. Len(s)
  PROVE  s[i] \in Byte /\ s[i] \in Nat /\ s[i] =< 255
<1>1. s[i] \in Byte
  BY ElementOfSeq
<1> QED BY <1>1, ByteFacts

(* The loop of pw_varint_encode32 (pw_varint.c:5-8), a step at a time: the *)
(* recursion ends for every number.                                        *)
LEMMA EncodeVarintStep ==
  /\ EncodeVarint \in [Nat -> Seq(Byte)]
  /\ \A v \in Nat : EncodeVarint[v] =
       IF v >= 128 THEN <<(v % 128) + 128>> \o EncodeVarint[v \div 128] ELSE <<v>>
<1> DEFINE F == [Nat -> Seq(Byte)]
           body(f) == [v \in Nat |-> IF v >= 128 THEN <<(v % 128) + 128>> \o f[v \div 128] ELSE <<v>>]
           step == [p \in Nat \X F |-> IF p[1] >= 128 THEN <<(p[1] % 128) + 128>> \o p[2][p[1] \div 128]
                                       ELSE <<p[1]>>]
           measure == [v \in Nat |-> v]
<1>1. step \in [Nat \X F -> Seq(Byte)]
  <2> SUFFICES ASSUME NEW v \in Nat, NEW f \in F
               PROVE  (IF v >= 128 THEN <<(v % 128) + 128>> \o f[v \div 128] ELSE <<v>>) \in Seq(Byte)
    OBVIOUS
  <2>1. v >= 128 => (v % 128) + 128 \in Byte /\ f[v \div 128] \in Seq(Byte)
    BY Digits DEF Byte
  <2>2. v < 128 => v \in Byte
    BY DEF Byte
  <2> QED BY <2>1, <2>2
<1>2. ASSUME NEW v \in Nat, NEW g \in F, NEW h \in F, \A r \in Nat : measure[r] < measure[v] => g[r] = h[r]
      PROVE  step[<<v, g>>] = step[<<v, h>>]
  <2>1. v >= 128 => g[v \div 128] = h[v \div 128]
    BY <1>2, Digits
  <2> QED BY <2>1
<1>3. \E f \in F : \A v \in Nat : f[v] = step[<<v, f>>]
  <2>1. measure \in [Nat -> Nat] /\ << >> \in Seq(Byte)
    OBVIOUS
  <2>2. step \in [Nat \X [Nat -> Seq(Byte)] -> Seq(Byte)]
    BY <1>1
  <2>3. \A v \in Nat, g, h \in [Nat -> Seq(Byte)] :
          (\A r \in Nat : measure[r] < measure[v] => g[r] = h[r]) => step[<<v, g>>] = step[<<v, h>>]
    BY <1>2
  <2> HIDE DEF step, measure
  <2>4. Descends(Nat, Seq(Byte), measure, step)
    BY <2>1, <2>2, <2>3, Zenon DEF Descends
  <2>5. PICK f : Recurs(Nat, Seq(Byte), step, f)
    BY <2>4, MeasuredRecursion, Zenon
  <2> QED BY <2>5 DEF Recurs
<1>4. \E f \in F : f = body(f)
  <2>1. PICK f \in F : \A v \in Nat : f[v] = step[<<v, f>>]
    BY <1>3
  <2>2. f = [v \in Nat |-> f[v]]
    OBVIOUS
  <2>3. ASSUME NEW v \in Nat
        PROVE  f[v] = IF v >= 128 THEN <<(v % 128) + 128>> \o f[v \div 128] ELSE <<v>>
    BY <2>1
  <2> QED BY <2>2, <2>3
<1>5. EncodeVarint = CHOOSE f : f = body(f)
  BY DEF EncodeVarint
<1>6. EncodeVarint = body(EncodeVarint)
  <2> HIDE DEF body
  <2> QED BY <1>4, <1>5
<1> HIDE DEF body
<1>7. \A v \in Nat : EncodeVarint[v] =
        IF v >= 128 THEN <<(v % 128) + 128>> \o EncodeVarint[v \div 128] ELSE <<v>>
  BY <1>6 DEF body
<1>8. \A v \in Nat : EncodeVarint[v] \in Seq(Byte)
  <2> DEFINE T == {v \in Nat : EncodeVarint[v] \notin Seq(Byte)}
  <2>1. SUFFICES ASSUME T # {} PROVE FALSE
    OBVIOUS
  <2>2. PICK v \in T : \A u \in T : v =< u
    BY <2>1, NatMin
  <2>3. CASE v < 128
    <3>1. v \in Byte
      BY <2>3, ByteFacts
    <3>2. EncodeVarint[v] = <<v>>
      <4>1. v \in Nat /\ ~(v >= 128)
        BY <2>3
      <4> QED BY <1>7, <4>1
    <3>3. EncodeVarint[v] \in Seq(Byte)
      BY <3>1, <3>2
    <3> QED BY <2>2, <3>3
  <2>4. CASE v >= 128
    <3>1. v \div 128 \in Nat /\ v \div 128 < v /\ (v % 128) + 128 \in Byte
      BY <2>4, Digits DEF Byte
    <3>2. EncodeVarint[v \div 128] \in Seq(Byte)
      BY <2>2, <3>1
    <3>3. EncodeVarint[v] = <<(v % 128) + 128>> \o EncodeVarint[v \div 128]
      BY <1>7, <2>4
    <3>4. EncodeVarint[v] \in Seq(Byte)
      BY <3>1, <3>2, <3>3
    <3> QED BY <2>2, <3>4
  <2> QED BY <2>3, <2>4
<1>9. EncodeVarint = [v \in Nat |-> EncodeVarint[v]]
  BY <1>6 DEF body
<1> QED BY <1>7, <1>8, <1>9

(* VarintValue computes its sum from the right. *)
LEMMA VarintValueUnfolds ==
  ASSUME NEW s \in Seq(Byte)
  PROVE  \E value \in [1 .. Len(s) + 1 -> Nat] :
           /\ VarintValue(s) = value[1] /\ value[Len(s) + 1] = 0
           /\ \A i \in 1 .. Len(s) : value[i] = (s[i] % 128) + 128 * value[i + 1]
<1> DEFINE D == 1 .. Len(s) + 1
           F == [D -> Nat]
           body(f) == [i \in D |-> IF i > Len(s) THEN 0 ELSE (s[i] % 128) + 128 * f[i + 1]]
           step == [p \in D \X F |-> IF p[1] > Len(s) THEN 0 ELSE (s[p[1]] % 128) + 128 * p[2][p[1] + 1]]
           measure == [i \in D |-> Len(s) + 1 - i]
<1>1. Len(s) \in Nat /\ \A i \in 1 .. Len(s) : s[i] \in Nat /\ s[i] % 128 \in Nat /\ i + 1 \in D
  <2> SUFFICES ASSUME NEW i \in 1 .. Len(s) PROVE s[i] \in Nat /\ s[i] % 128 \in Nat /\ i + 1 \in D
    OBVIOUS
  <2>2. s[i] \in Nat
    BY ByteAt
  <2> QED BY <2>2, Digits
<1>2. step \in [D \X F -> Nat]
  <2> SUFFICES ASSUME NEW i \in D, NEW f \in F
               PROVE  (IF i > Len(s) THEN 0 ELSE (s[i] % 128) + 128 * f[i + 1]) \in Nat
    OBVIOUS
  <2>1. CASE i > Len(s)
    BY <2>1
  <2>2. CASE ~(i > Len(s))
    <3>1. i \in 1 .. Len(s)
      BY <1>1, <2>2
    <3>2. s[i] % 128 \in Nat /\ f[i + 1] \in Nat
      BY <1>1, <3>1
    <3> QED BY <2>2, <3>2
  <2> QED BY <2>1, <2>2
<1>3. ASSUME NEW i \in D, NEW g \in F, NEW h \in F, \A r \in D : measure[r] < measure[i] => g[r] = h[r]
      PROVE  step[<<i, g>>] = step[<<i, h>>]
  <2>1. ASSUME i =< Len(s) PROVE g[i + 1] = h[i + 1]
    <3>1. i + 1 \in D
      BY <1>1, <2>1
    <3>2. measure[i + 1] < measure[i]
      BY <1>1, <3>1
    <3> QED BY <1>3, <3>1, <3>2
  <2> QED BY <2>1, <1>1
<1>4. PICK f \in F : \A i \in D : f[i] = step[<<i, f>>]
  <2>1. measure \in [D -> Nat] /\ 0 \in Nat
    BY <1>1
  <2>2. \A i \in D, g, h \in F :
          (\A r \in D : measure[r] < measure[i] => g[r] = h[r]) => step[<<i, g>>] = step[<<i, h>>]
    BY <1>3
  <2> HIDE DEF step, measure, D
  <2>3. Descends(D, Nat, measure, step)
    BY <2>1, <2>2, <1>2, Zenon DEF Descends
  <2>4. PICK f : Recurs(D, Nat, step, f)
    BY <2>3, MeasuredRecursion, Zenon
  <2> QED BY <2>4 DEF Recurs
<1>5. f = body(f)
  <2>1. f = [i \in D |-> f[i]]
    OBVIOUS
  <2>2. \A i \in D : f[i] = IF i > Len(s) THEN 0 ELSE (s[i] % 128) + 128 * f[i + 1]
    BY <1>4
  <2> QED BY <2>1, <2>2
<1> DEFINE value == CHOOSE g : g = body(g)
<1>6. value = body(value)
  <2> HIDE DEF body
  <2> QED BY <1>5
<1>7. VarintValue(s) = value[1]
  BY DEF VarintValue
<1> HIDE DEF value
<1>8. value \in [D -> Nat]
  <2> DEFINE T == {k \in Nat : \E i \in D : k = measure[i] /\ value[i] \notin Nat}
  <2>1. SUFFICES ASSUME T # {} PROVE FALSE
    <3>1. measure \in [D -> Nat] /\ value = [i \in D |-> value[i]]
      BY <1>1, <1>6
    <3>2. \A i \in D : value[i] \in Nat
      BY <2>1, <3>1
    <3> QED BY <3>1, <3>2
  <2>2. PICK k \in T : \A j \in T : k =< j
    BY <2>1, NatMin
  <2>3. PICK i \in D : k = measure[i] /\ value[i] \notin Nat
    BY <2>2
  <2>4. value[i] = IF i > Len(s) THEN 0 ELSE (s[i] % 128) + 128 * value[i + 1]
    BY <1>6
  <2>5. i =< Len(s)
    BY <2>3, <2>4, <1>1
  <2>6. measure[i + 1] < k /\ i + 1 \in D /\ measure[i + 1] \in Nat
    BY <1>1, <2>3, <2>5
  <2>7. value[i + 1] \in Nat
    <3>1. measure[i + 1] \notin T
      <4>1. k \in Nat
        OBVIOUS
      <4> HIDE DEF T, measure
      <4> QED BY <2>2, <2>6, <4>1
    <3> QED BY <2>6, <3>1
  <2> QED BY <1>1, <2>3, <2>4, <2>5, <2>7
<1>9. value[Len(s) + 1] = 0 /\ \A i \in 1 .. Len(s) : value[i] = (s[i] % 128) + 128 * value[i + 1]
  <2>1. \A i \in D : value[i] = IF i > Len(s) THEN 0 ELSE (s[i] % 128) + 128 * value[i + 1]
    BY <1>6
  <2>2. Len(s) + 1 \in D /\ Len(s) + 1 > Len(s) /\ \A i \in 1 .. Len(s) : i \in D /\ ~(i > Len(s))
    BY <1>1
  <2> QED BY <2>1, <2>2
<1> QED BY <1>7, <1>8, <1>9

(* The value of a varint is a number ... *)
LEMMA VarintValueType ==
  ASSUME NEW s \in Seq(Byte)
  PROVE  VarintValue(s) \in Nat
<1>1. PICK value \in [1 .. Len(s) + 1 -> Nat] : VarintValue(s) = value[1]
  BY VarintValueUnfolds
<1>2. 1 \in 1 .. Len(s) + 1
  BY LenProperties
<1> QED BY <1>1, <1>2

(* ... nothing for no bytes ... *)
LEMMA VarintValueEmpty == VarintValue(<< >>) = 0
<1>1. << >> \in Seq(Byte) /\ Len(<< >>) + 1 = 1
  OBVIOUS
<1> QED BY <1>1, VarintValueUnfolds

(* ... and each byte in front brings seven bits (pw_varint.c:20). *)
LEMMA VarintValueCons ==
  ASSUME NEW b \in Byte, NEW s \in Seq(Byte)
  PROVE  VarintValue(<<b>> \o s) = (b % 128) + 128 * VarintValue(s)
<1> DEFINE t == <<b>> \o s
<1>1. /\ t \in Seq(Byte) /\ Len(t) = Len(s) + 1 /\ Len(s) \in Nat /\ t[1] = b
      /\ \A i \in 1 .. Len(s) : t[i + 1] = s[i]
  OBVIOUS
<1> HIDE DEF t
<1>2. PICK u \in [1 .. Len(t) + 1 -> Nat] :
        /\ VarintValue(t) = u[1] /\ u[Len(t) + 1] = 0
        /\ \A i \in 1 .. Len(t) : u[i] = (t[i] % 128) + 128 * u[i + 1]
  BY <1>1, VarintValueUnfolds
<1>3. PICK w \in [1 .. Len(s) + 1 -> Nat] :
        /\ VarintValue(s) = w[1] /\ w[Len(s) + 1] = 0
        /\ \A i \in 1 .. Len(s) : w[i] = (s[i] % 128) + 128 * w[i + 1]
  BY VarintValueUnfolds
<1>4. \A i \in 1 .. Len(s) + 1 : u[i + 1] = w[i]
  <2> DEFINE T == {k \in Nat : \E i \in 1 .. Len(s) + 1 : k = Len(s) + 1 - i /\ u[i + 1] # w[i]}
  <2>1. SUFFICES ASSUME T # {} PROVE FALSE
    <3>1. \A i \in 1 .. Len(s) + 1 : Len(s) + 1 - i \in Nat
      BY <1>1
    <3> QED BY <2>1, <3>1
  <2>2. PICK k \in T : \A j \in T : k =< j
    BY <2>1, NatMin
  <2>3. PICK i \in 1 .. Len(s) + 1 : k = Len(s) + 1 - i /\ u[i + 1] # w[i]
    BY <2>2
  <2>4. i # Len(s) + 1
    BY <1>1, <1>2, <1>3, <2>3
  <2>5. i \in 1 .. Len(s) /\ i + 1 \in 1 .. Len(t) /\ i + 1 \in 1 .. Len(s) + 1
    BY <1>1, <2>3, <2>4
  <2>6. k - 1 \in Nat /\ k - 1 = Len(s) + 1 - (i + 1) /\ k - 1 < k
    BY <1>1, <2>3, <2>5
  <2>7. k - 1 \notin T
    <3>1. k \in Nat
      OBVIOUS
    <3> HIDE DEF T
    <3> QED BY <2>2, <2>6, <3>1
  <2>8. u[(i + 1) + 1] = w[i + 1]
    BY <2>5, <2>6, <2>7
  <2>9. t[i + 1] = s[i]
    BY <1>1, <2>5
  <2> QED BY <1>2, <1>3, <2>3, <2>5, <2>8, <2>9
<1>5. u[2] = w[1]
  <2>1. 1 \in 1 .. Len(s) + 1
    BY <1>1
  <2> QED BY <1>4, <2>1
<1>6. u[1] = (b % 128) + 128 * u[2]
  <2>1. 1 \in 1 .. Len(t) /\ 1 + 1 = 2
    BY <1>1
  <2> QED BY <1>1, <1>2, <2>1
<1> QED BY <1>2, <1>3, <1>5, <1>6 DEF t

-----------------------------------------------------------------------------
(* A varint of the native encoder: at most five bytes, all but the last    *)
(* with the top bit set, no overflow in the fifth.                         *)
WellEncoded(e, v) ==
  /\ e \in Seq(Byte) /\ Len(e) \in 1 .. VarintBytes
  /\ \A i \in 1 .. Len(e) - 1 : e[i] >= 128
  /\ e[Len(e)] < 128 /\ (Len(e) >= VarintBytes => e[Len(e)] < 16)
  /\ VarintValue(e) = v

Word32 == {v \in Nat : v < 4294967296}

(* The bound of Word32, on its own. *)
LEMMA Word32Facts == \A v \in Word32 : v \in Nat /\ v < 4294967296
BY SMT DEF Word32

(* A number of seven bits takes one byte. *)
LEMMA SmallWellEncoded ==
  ASSUME NEW v \in Nat, v < 128
  PROVE  EncodeVarint[v] = <<v>> /\ WellEncoded(<<v>>, v)
<1>1. EncodeVarint[v] = <<v>>
  <2>1. ~(v >= 128)
    OBVIOUS
  <2> QED BY <2>1, EncodeVarintStep
<1>2. v \in Byte /\ v % 128 = v
  BY ByteFacts, Digits
<1>3. VarintValue(<<v>> \o << >>) = (v % 128) + 128 * 0
  <2>1. << >> \in Seq(Byte)
    OBVIOUS
  <2> QED BY <1>2, <2>1, VarintValueCons, VarintValueEmpty
<1>4. <<v>> \o << >> = <<v>> /\ <<v>> \in Seq(Byte)
  BY <1>2
<1>5. VarintValue(<<v>>) = v
  BY <1>2, <1>3, <1>4
<1> QED BY <1>1, <1>4, <1>5 DEF WellEncoded, VarintBytes

(* One more byte in front. *)
LEMMA ConsWellEncoded ==
  ASSUME NEW v \in Nat, v >= 128, WellEncoded(EncodeVarint[v \div 128], v \div 128),
         LET e == EncodeVarint[v \div 128]
         IN  Len(e) < VarintBytes /\ (Len(e) >= VarintBytes - 1 => e[Len(e)] < 16)
  PROVE  /\ WellEncoded(EncodeVarint[v], v)
         /\ Len(EncodeVarint[v]) = Len(EncodeVarint[v \div 128]) + 1
         /\ EncodeVarint[v][Len(EncodeVarint[v])] = EncodeVarint[v \div 128][Len(EncodeVarint[v \div 128])]
<1> DEFINE d == EncodeVarint[v \div 128]
           b == (v % 128) + 128
           e == EncodeVarint[v]
<1>1. e = <<b>> \o d /\ v \div 128 \in Nat /\ d \in Seq(Byte)
  <2>1. v \div 128 \in Nat
    BY Digits
  <2>2. EncodeVarint[v] = IF v >= 128 THEN <<(v % 128) + 128>> \o EncodeVarint[v \div 128] ELSE <<v>>
    BY EncodeVarintStep
  <2>3. EncodeVarint[v \div 128] \in Seq(Byte)
    BY <2>1, EncodeVarintStep
  <2> QED BY <2>1, <2>2, <2>3
<1>2. b \in Byte /\ b \in Nat /\ b >= 128 /\ b % 128 = v % 128
  BY Digits, ByteFacts
<1>3. WellEncoded(d, v \div 128) /\ Len(d) < VarintBytes /\ (Len(d) >= VarintBytes - 1 => d[Len(d)] < 16)
  OBVIOUS
<1> HIDE DEF d, b, e
<1>4. VarintValue(e) = v
  <2>1. VarintValue(e) = (v % 128) + 128 * (v \div 128)
    BY <1>1, <1>2, <1>3, VarintValueCons DEF WellEncoded
  <2> QED BY <2>1, Digits
<1>5. /\ e \in Seq(Byte) /\ Len(e) = Len(d) + 1 /\ e[1] = b /\ Len(d) \in Nat
      /\ \A i \in 1 .. Len(d) : e[i + 1] = d[i]
  BY <1>1, <1>2
<1>6. Len(d) \in 1 .. VarintBytes /\ e[Len(e)] = d[Len(d)]
  <2>1. Len(d) \in 1 .. VarintBytes
    BY <1>3 DEF WellEncoded
  <2> QED BY <2>1, <1>5
<1>7. ASSUME NEW i \in 1 .. Len(e) - 1 PROVE e[i] >= 128
  <2>1. CASE i = 1
    BY <2>1, <1>2, <1>5
  <2>2. CASE i # 1
    <3>1. i - 1 \in 1 .. Len(d) - 1 /\ i - 1 \in 1 .. Len(d) /\ (i - 1) + 1 = i
      BY <2>2, <1>5
    <3> QED BY <3>1, <1>3, <1>5 DEF WellEncoded
  <2> QED BY <2>1, <2>2
<1>8. Len(e) \in 1 .. VarintBytes /\ e[Len(e)] < 128 /\ (Len(e) >= VarintBytes => e[Len(e)] < 16)
  <2>1. /\ Len(d) < 5 /\ (Len(d) >= 4 => d[Len(d)] < 16) /\ d[Len(d)] < 128
        /\ Len(d) \in 1 .. 5 /\ Len(e) = Len(d) + 1 /\ e[Len(e)] = d[Len(d)]
    BY <1>3, <1>5, <1>6 DEF WellEncoded, VarintBytes
  <2>2. Len(e) \in 1 .. 5
    BY <2>1
  <2>3. Len(e) >= 5 => Len(d) >= 4
    BY <2>1
  <2> QED BY <2>1, <2>2, <2>3 DEF VarintBytes
<1>9. WellEncoded(e, v)
  BY <1>4, <1>5, <1>7, <1>8 DEF WellEncoded
<1> QED BY <1>5, <1>6, <1>9 DEF d, e

(* The encoding of u has at most n bytes, and a last one below 16 if n. *)
Level(u, n) ==
  LET e == EncodeVarint[u]
  IN  WellEncoded(e, u) /\ Len(e) =< n /\ (Len(e) >= n => e[Len(e)] < 16)

(* One byte more for seven bits more. *)
LEMMA LevelUp ==
  ASSUME NEW u \in Nat, NEW n \in Nat, 1 =< n, n =< 4, Level(u \div 128, n)
  PROVE  Level(u, n + 1)
<1>1. CASE u < 128
  <2>1. WellEncoded(<<u>>, u) /\ EncodeVarint[u] = <<u>> /\ Len(<<u>>) = 1
    BY <1>1, SmallWellEncoded
  <2> QED BY <2>1 DEF Level
<1>2. CASE u >= 128
  <2> DEFINE d == EncodeVarint[u \div 128]
             e == EncodeVarint[u]
  <2>0. n \in Nat /\ 1 =< n /\ n =< 4
    OBVIOUS
  <2>1. WellEncoded(d, u \div 128) /\ Len(d) =< n /\ (Len(d) >= n => d[Len(d)] < 16) /\ Len(d) \in Nat
    BY DEF Level, WellEncoded
  <2>2. Len(d) < VarintBytes /\ (Len(d) >= VarintBytes - 1 => d[Len(d)] < 16)
    <3> HIDE DEF d
    <3>1. Len(d) \in Nat /\ Len(d) =< n
      BY <2>1
    <3>2. Len(d) >= n => d[Len(d)] < 16
      BY <2>1
    <3>3. Len(d) < 5
      BY <2>0, <3>1
    <3>4. Len(d) >= 4 => n >= 4
      BY <2>0, <3>1
    <3> QED BY <3>1, <3>2, <3>3, <3>4 DEF VarintBytes
  <2>3. WellEncoded(e, u) /\ Len(e) = Len(d) + 1 /\ e[Len(e)] = d[Len(d)]
    BY <1>2, <2>1, <2>2, ConsWellEncoded
  <2> HIDE DEF d, e
  <2>4. Len(e) =< n + 1 /\ (Len(e) >= n + 1 => Len(d) >= n)
    BY ONLY <2>0, <2>1, <2>3
  <2>5. Len(e) >= n + 1 => e[Len(e)] < 16
    BY <2>1, <2>3, <2>4
  <2> QED BY <2>3, <2>4, <2>5 DEF Level, e
<1> QED BY <1>1, <1>2

(* pw_varint_encode32 of every 32-bit number. *)
LEMMA EncodeWellEncoded ==
  ASSUME NEW v \in Word32
  PROVE  WellEncoded(EncodeVarint[v], v)
<1> DEFINE d1 == v \div 128
           d2 == d1 \div 128
           d3 == d2 \div 128
           d4 == d3 \div 128
<1>1. v \in Nat /\ v < 4294967296
  BY Word32Facts, SMT
<1>2. d1 \in Nat /\ d1 < 33554432
  BY <1>1, SMT
<1>3. d2 \in Nat /\ d2 < 262144
  BY <1>2, SMT
<1>4. d3 \in Nat /\ d3 < 2048
  BY <1>3, SMT
<1>5. d4 \in Nat /\ d4 < 16
  BY <1>4, SMT
<1> HIDE DEF d4
<1>6. Level(d4, 1)
  <2>1. EncodeVarint[d4] = <<d4>> /\ WellEncoded(<<d4>>, d4) /\ Len(<<d4>>) = 1 /\ <<d4>>[1] = d4
    BY <1>5, SmallWellEncoded
  <2> QED BY <1>5, <2>1 DEF Level
<1>7. Level(d3, 2)
  BY <1>4, <1>6, LevelUp, SMT DEF d4
<1>8. Level(d2, 3)
  BY <1>3, <1>7, LevelUp, SMT
<1>9. Level(d1, 4)
  BY <1>2, <1>8, LevelUp, SMT
<1>10. Level(v, 5)
  BY <1>1, <1>9, LevelUp, SMT
<1> QED BY <1>10 DEF Level
-----------------------------------------------------------------------------
(* What Drop and SubSeq leave of sequences. *)

(* What Drop leaves. *)
LEMMA DropProperties ==
  ASSUME NEW X, NEW s \in Seq(X), NEW n \in 0 .. Len(s)
  PROVE  /\ Drop(s, n) \in Seq(X) /\ Len(Drop(s, n)) = Len(s) - n
         /\ \A i \in 1 .. Len(s) - n : Drop(s, n)[i] = s[n + i]
<1>1. Len(s) \in Nat /\ \A i \in n + 1 .. Len(s) : s[i] \in X
  BY ElementOfSeq
<1> QED BY <1>1, SubSeqProperties DEF Drop

(* A stretch of a sequence. *)
LEMMA SubSeqWithin ==
  ASSUME NEW X, NEW s \in Seq(X), NEW m \in Nat, NEW n \in Nat, 1 =< m, n =< Len(s), m =< n + 1
  PROVE  /\ SubSeq(s, m, n) \in Seq(X) /\ Len(SubSeq(s, m, n)) = n - m + 1
         /\ \A i \in 1 .. n - m + 1 : SubSeq(s, m, n)[i] = s[m + i - 1]
<1>1. Len(s) \in Nat /\ \A i \in m .. n : s[i] \in X
  BY ElementOfSeq
<1> QED BY <1>1, SubSeqProperties

(* What lies in s is not touched by what follows s. *)
LEMMA SubSeqOfFront ==
  ASSUME NEW X, NEW s \in Seq(X), NEW t \in Seq(X),
         NEW m \in Nat, NEW n \in Nat, 1 =< m, n =< Len(s), m =< n + 1
  PROVE  SubSeq(s \o t, m, n) = SubSeq(s, m, n)
<1>1. /\ s \o t \in Seq(X) /\ Len(s \o t) = Len(s) + Len(t) /\ Len(s) \in Nat /\ Len(t) \in Nat
      /\ \A i \in 1 .. Len(s) : (s \o t)[i] = s[i]
  BY ConcatProperties
<1> DEFINE a == SubSeq(s \o t, m, n)
           b == SubSeq(s, m, n)
<1>2. a \in Seq(X) /\ Len(a) = n - m + 1 /\ \A i \in 1 .. n - m + 1 : a[i] = (s \o t)[m + i - 1]
  BY <1>1, SubSeqWithin
<1>3. b \in Seq(X) /\ Len(b) = n - m + 1 /\ \A i \in 1 .. n - m + 1 : b[i] = s[m + i - 1]
  BY SubSeqWithin
<1>4. \A i \in 1 .. n - m + 1 : m + i - 1 \in 1 .. Len(s)
  BY <1>1
<1> HIDE DEF a, b
<1>5. \A i \in 1 .. Len(a) : a[i] = b[i]
  BY <1>1, <1>2, <1>3, <1>4
<1>6. a = b
  BY <1>2, <1>3, <1>5, SeqEqual
<1> QED BY <1>6 DEF a, b

(* Nor by what follows it after the front of s has gone. *)
LEMMA DropOfFront ==
  ASSUME NEW X, NEW s \in Seq(X), NEW t \in Seq(X), NEW n \in 0 .. Len(s)
  PROVE  Drop(s \o t, n) = Drop(s, n) \o t
<1>1. /\ s \o t \in Seq(X) /\ Len(s \o t) = Len(s) + Len(t) /\ Len(s) \in Nat /\ Len(t) \in Nat
      /\ \A i \in 1 .. Len(s) + Len(t) : (s \o t)[i] = IF i =< Len(s) THEN s[i] ELSE t[i - Len(s)]
  BY ConcatProperties
<1> DEFINE a == Drop(s \o t, n)
           d == Drop(s, n)
           b == d \o t
<1>2. a \in Seq(X) /\ Len(a) = Len(s) + Len(t) - n /\ \A i \in 1 .. Len(a) : a[i] = (s \o t)[n + i]
  <2> DEFINE st == s \o t
  <2>1. n \in 0 .. Len(st) /\ st \in Seq(X) /\ Len(st) = Len(s) + Len(t)
    BY <1>1
  <2> HIDE DEF st
  <2>2. /\ Drop(st, n) \in Seq(X) /\ Len(Drop(st, n)) = Len(st) - n
        /\ \A i \in 1 .. Len(st) - n : Drop(st, n)[i] = st[n + i]
    BY <2>1, DropProperties
  <2>3. /\ Drop(st, n) \in Seq(X) /\ Len(Drop(st, n)) = Len(s) + Len(t) - n
        /\ \A i \in 1 .. Len(Drop(st, n)) : Drop(st, n)[i] = st[n + i]
    BY <2>1, <2>2
  <2> QED BY <2>3 DEF st
<1>3. d \in Seq(X) /\ Len(d) = Len(s) - n /\ \A i \in 1 .. Len(s) - n : d[i] = s[n + i]
  BY DropProperties
<1>4. /\ b \in Seq(X) /\ Len(b) = Len(d) + Len(t)
      /\ \A i \in 1 .. Len(d) + Len(t) : b[i] = IF i =< Len(d) THEN d[i] ELSE t[i - Len(d)]
  <2> HIDE DEF d
  <2> QED BY <1>3, ConcatProperties
<1> HIDE DEF a, b, d
<1>5. Len(a) = Len(b)
  BY <1>1, <1>2, <1>3, <1>4
<1>6. ASSUME NEW i \in 1 .. Len(a) PROVE a[i] = b[i]
  <2>1. a[i] = IF n + i =< Len(s) THEN s[n + i] ELSE t[n + i - Len(s)]
    <3>1. n + i \in 1 .. Len(s) + Len(t) /\ a[i] = (s \o t)[n + i]
      BY <1>1, <1>2
    <3> QED BY <1>1, <3>1
  <2>2. b[i] = IF i =< Len(d) THEN d[i] ELSE t[i - Len(d)]
    BY <1>1, <1>2, <1>3, <1>4
  <2>3. CASE n + i =< Len(s)
    BY <1>1, <1>3, <2>1, <2>2, <2>3
  <2>4. CASE ~(n + i =< Len(s))
    <3>1. ~(i =< Len(d)) /\ n + i - Len(s) = i - Len(d)
      BY <1>1, <1>3, <2>4
    <3> QED BY <2>1, <2>2, <2>4, <3>1
  <2> QED BY <2>3, <2>4
<1>7. a = b
  BY <1>2, <1>4, <1>5, <1>6, SeqEqual
<1> QED BY <1>7 DEF a, b, d

(* All of s dropped from s and t. *)
LEMMA DropFront ==
  ASSUME NEW X, NEW s \in Seq(X), NEW t \in Seq(X)
  PROVE  Drop(s \o t, Len(s)) = t
<1>1. Len(s) \in 0 .. Len(s) /\ Len(s) \in Nat
  BY LenProperties
<1>2. Drop(s, Len(s)) = << >>
  BY <1>1, SubSeqEmpty DEF Drop
<1> QED BY <1>1, <1>2, DropOfFront, ConcatEmptySeq

(* Nothing dropped. *)
LEMMA DropZero ==
  ASSUME NEW X, NEW s \in Seq(X)
  PROVE  Drop(s, 0) = s
BY SubSeqFull DEF Drop

(* The front of s and t. *)
LEMMA FrontOf ==
  ASSUME NEW X, NEW s \in Seq(X), NEW t \in Seq(X)
  PROVE  SubSeq(s \o t, 1, Len(s)) = s
<1>1. Len(s) \in Nat
  BY LenProperties
<1> QED BY <1>1, SubSeqOfFront, SubSeqFull

(* Front and rest are the whole. *)
LEMMA FrontAndRest ==
  ASSUME NEW X, NEW s \in Seq(X), NEW n \in 0 .. Len(s)
  PROVE  /\ SubSeq(s, 1, n) \in Seq(X) /\ Len(SubSeq(s, 1, n)) = n
         /\ s = SubSeq(s, 1, n) \o Drop(s, n)
         /\ \A i \in 1 .. n : SubSeq(s, 1, n)[i] = s[i]
<1>1. Len(s) \in Nat /\ 1 \in 1 .. Len(s) + 1 /\ n \in 1 - 1 .. Len(s) /\ Len(s) \in n .. Len(s) /\ n \in Nat
  BY LenProperties
<1>2. SubSeq(s, 1, n) \o SubSeq(s, n + 1, Len(s)) = SubSeq(s, 1, Len(s))
  BY <1>1, ConcatAdjacentSubSeq
<1>3. SubSeq(s, 1, Len(s)) = s
  BY SubSeqFull
<1>4. /\ SubSeq(s, 1, n) \in Seq(X) /\ Len(SubSeq(s, 1, n)) = n - 1 + 1
      /\ \A i \in 1 .. n - 1 + 1 : SubSeq(s, 1, n)[i] = s[1 + i - 1]
  BY <1>1, SubSeqWithin
<1>5. n - 1 + 1 = n /\ \A i \in 1 .. n : 1 + i - 1 = i
  BY <1>1
<1> QED BY <1>2, <1>3, <1>4, <1>5 DEF Drop

(* Dropped in two steps. *)
LEMMA DropDrop ==
  ASSUME NEW X, NEW s \in Seq(X), NEW m \in Nat, NEW n \in Nat, m + n =< Len(s)
  PROVE  Drop(Drop(s, m), n) = Drop(s, m + n)
<1>0. Len(s) \in Nat /\ m \in 0 .. Len(s) /\ m + n \in 0 .. Len(s)
  BY LenProperties
<1> DEFINE d == Drop(s, m)
           a == Drop(d, n)
           b == Drop(s, m + n)
<1>1. d \in Seq(X) /\ Len(d) = Len(s) - m /\ \A i \in 1 .. Len(s) - m : d[i] = s[m + i]
  BY <1>0, DropProperties
<1>2. b \in Seq(X) /\ Len(b) = Len(s) - (m + n) /\ \A i \in 1 .. Len(s) - (m + n) : b[i] = s[(m + n) + i]
  BY <1>0, DropProperties
<1>3. a \in Seq(X) /\ Len(a) = Len(d) - n /\ \A i \in 1 .. Len(d) - n : a[i] = d[n + i]
  <2> HIDE DEF d
  <2>1. n \in 0 .. Len(d)
    BY <1>0, <1>1
  <2> QED BY <1>1, <2>1, DropProperties
<1> HIDE DEF a, b, d
<1>4. Len(a) = Len(b)
  BY <1>0, <1>1, <1>2, <1>3
<1>5. ASSUME NEW i \in 1 .. Len(a) PROVE a[i] = b[i]
  <2>1. n + i \in 1 .. Len(s) - m /\ i \in 1 .. Len(d) - n /\ i \in 1 .. Len(s) - (m + n) /\ m + (n + i) = (m + n) + i
    BY <1>0, <1>1, <1>3
  <2> QED BY <1>1, <1>2, <1>3, <2>1
<1>6. a = b
  BY <1>2, <1>3, <1>4, <1>5, SeqEqual
<1> QED BY <1>6 DEF a, b, d
-----------------------------------------------------------------------------
(* Numbers, most significant byte first. *)

(* ReadBE computes its number from the left. *)
LEMMA ReadBEUnfolds ==
  ASSUME NEW s \in Seq(Byte)
  PROVE  \E value \in [0 .. Len(s) -> Nat] :
           /\ ReadBE(s) = value[Len(s)] /\ value[0] = 0
           /\ \A i \in 1 .. Len(s) : value[i] = 256 * value[i - 1] + s[i]
<1> DEFINE D == 0 .. Len(s)
           F == [D -> Nat]
           body(f) == [i \in D |-> IF i = 0 THEN 0 ELSE 256 * f[i - 1] + s[i]]
           step == [p \in D \X F |-> IF p[1] = 0 THEN 0 ELSE 256 * p[2][p[1] - 1] + s[p[1]]]
           measure == [i \in D |-> i]
<1>1. Len(s) \in Nat /\ \A i \in D : i \in Nat /\ (i # 0 => i - 1 \in D /\ s[i] \in Nat)
  <2>1. Len(s) \in Nat
    BY LenProperties
  <2> SUFFICES ASSUME NEW i \in D, i # 0 PROVE i - 1 \in D /\ s[i] \in Nat
    BY <2>1
  <2>2. i \in 1 .. Len(s)
    BY <2>1
  <2> QED BY <2>1, <2>2, ByteAt
<1>2. step \in [D \X F -> Nat]
  <2> SUFFICES ASSUME NEW i \in D, NEW f \in F
               PROVE  (IF i = 0 THEN 0 ELSE 256 * f[i - 1] + s[i]) \in Nat
    OBVIOUS
  <2>1. i # 0 => f[i - 1] \in Nat /\ s[i] \in Nat
    BY <1>1
  <2> QED BY <2>1
<1>3. ASSUME NEW i \in D, NEW g \in F, NEW h \in F, \A r \in D : measure[r] < measure[i] => g[r] = h[r]
      PROVE  step[<<i, g>>] = step[<<i, h>>]
  <2>1. i # 0 => g[i - 1] = h[i - 1]
    BY <1>1, <1>3
  <2> QED BY <2>1
<1>4. PICK f \in F : \A i \in D : f[i] = step[<<i, f>>]
  <2>1. measure \in [D -> Nat] /\ 0 \in Nat
    BY <1>1
  <2>2. \A i \in D, g, h \in F :
          (\A r \in D : measure[r] < measure[i] => g[r] = h[r]) => step[<<i, g>>] = step[<<i, h>>]
    BY <1>3
  <2> HIDE DEF step, measure, D
  <2>3. Descends(D, Nat, measure, step)
    BY <2>1, <2>2, <1>2, Zenon DEF Descends
  <2>4. PICK f : Recurs(D, Nat, step, f)
    BY <2>3, MeasuredRecursion, Zenon
  <2> QED BY <2>4 DEF Recurs
<1>5. f = body(f)
  <2>1. f = [i \in D |-> f[i]]
    OBVIOUS
  <2>2. \A i \in D : f[i] = IF i = 0 THEN 0 ELSE 256 * f[i - 1] + s[i]
    BY <1>4
  <2> QED BY <2>1, <2>2
<1> DEFINE value == CHOOSE g : g = body(g)
<1>6. value = body(value)
  <2> HIDE DEF body
  <2> QED BY <1>5
<1>7. ReadBE(s) = value[Len(s)]
  BY DEF ReadBE
<1> HIDE DEF value
<1>8. \A i \in D : value[i] = IF i = 0 THEN 0 ELSE 256 * value[i - 1] + s[i]
  BY <1>6
<1>9. \A i \in D : value[i] \in Nat
  <2> DEFINE T == {i \in D : value[i] \notin Nat}
  <2>1. SUFFICES ASSUME T # {} PROVE FALSE
    OBVIOUS
  <2>2. T \subseteq Nat
    BY <1>1
  <2>3. PICK i \in T : \A j \in T : i =< j
    BY <2>1, <2>2, NatMin
  <2>4. value[i] = IF i = 0 THEN 0 ELSE 256 * value[i - 1] + s[i]
    BY <1>8
  <2>5. i # 0 => value[i - 1] \in Nat /\ s[i] \in Nat
    <3>1. i # 0 => i \in Nat /\ i - 1 \in D /\ s[i] \in Nat /\ ~(i =< i - 1)
      BY <1>1
    <3>2. i # 0 => i - 1 \notin T
      <4> HIDE DEF T
      <4> QED BY <2>3, <3>1
    <3> QED BY <3>1, <3>2
  <2> QED BY <2>4, <2>5
<1>10. value = [i \in D |-> value[i]]
  <2>1. value = [i \in D |-> IF i = 0 THEN 0 ELSE 256 * value[i - 1] + s[i]]
    BY <1>6
  <2> QED BY <2>1
<1>11. value \in [D -> Nat] /\ value[0] = 0 /\ \A i \in 1 .. Len(s) : value[i] = 256 * value[i - 1] + s[i]
  <2>1. 0 \in D /\ \A i \in 1 .. Len(s) : i \in D /\ i # 0
    BY <1>1
  <2> HIDE DEF D
  <2>2. value \in [D -> Nat]
    BY <1>9, <1>10
  <2>3. value[0] = 0
    BY <1>8, <2>1
  <2>4. \A i \in 1 .. Len(s) : value[i] = 256 * value[i - 1] + s[i]
    BY <1>8, <2>1
  <2> QED BY <2>2, <2>3, <2>4
<1> QED BY <1>7, <1>11

(* Two bytes, most significant first (unpack "n"). *)
LEMMA ReadTwo ==
  ASSUME NEW s \in Seq(Byte), Len(s) = 2
  PROVE  ReadBE(s) = 256 * s[1] + s[2]
<1>1. PICK value \in [0 .. Len(s) -> Nat] :
        /\ ReadBE(s) = value[Len(s)] /\ value[0] = 0
        /\ \A i \in 1 .. Len(s) : value[i] = 256 * value[i - 1] + s[i]
  BY ReadBEUnfolds
<1>2. s[1] \in Nat /\ s[2] \in Nat
  BY ByteAt
<1>3. value[1] = 256 * value[0] + s[1] /\ value[2] = 256 * value[1] + s[2]
  <2>1. 1 \in 1 .. Len(s) /\ 2 \in 1 .. Len(s) /\ 1 - 1 = 0 /\ 2 - 1 = 1
    OBVIOUS
  <2> QED BY <1>1, <2>1
<1> QED BY <1>1, <1>2, <1>3

(* Four bytes, most significant first. *)
LEMMA ReadFour ==
  ASSUME NEW s \in Seq(Byte), Len(s) = 4
  PROVE  ReadBE(s) = 256 * (256 * (256 * s[1] + s[2]) + s[3]) + s[4]
<1>1. PICK value \in [0 .. Len(s) -> Nat] :
        /\ ReadBE(s) = value[Len(s)] /\ value[0] = 0
        /\ \A i \in 1 .. Len(s) : value[i] = 256 * value[i - 1] + s[i]
  BY ReadBEUnfolds
<1>2. s[1] \in Nat /\ s[2] \in Nat /\ s[3] \in Nat /\ s[4] \in Nat
  <2>1. \A i \in 1 .. Len(s) : s[i] \in Nat
    BY ByteAt
  <2> QED BY <2>1
<1>3. /\ value[1] = 256 * value[0] + s[1] /\ value[2] = 256 * value[1] + s[2]
      /\ value[3] = 256 * value[2] + s[3] /\ value[4] = 256 * value[3] + s[4]
  <2>1. /\ 1 \in 1 .. Len(s) /\ 2 \in 1 .. Len(s) /\ 3 \in 1 .. Len(s) /\ 4 \in 1 .. Len(s)
        /\ 1 - 1 = 0 /\ 2 - 1 = 1 /\ 3 - 1 = 2 /\ 4 - 1 = 3
    OBVIOUS
  <2> QED BY <1>1, <2>1
<1>4. value[1] = s[1]
  BY <1>1, <1>2, <1>3
<1> QED BY <1>1, <1>2, <1>3, <1>4

(* The bytes of pack "N". *)
LEMMA WriteFour ==
  ASSUME NEW v \in Nat
  PROVE  /\ WriteBE(v, 4) \in Seq(Byte) /\ Len(WriteBE(v, 4)) = 4
         /\ WriteBE(v, 4)[1] = (v \div 16777216) % 256
         /\ WriteBE(v, 4)[2] = (v \div 65536) % 256
         /\ WriteBE(v, 4)[3] = (v \div 256) % 256
         /\ WriteBE(v, 4)[4] = v % 256
<1> DEFINE w == WriteBE(v, 4)
<1>1. w = [i \in 1 .. 4 |-> (v \div 256 ^ (4 - i)) % 256]
  BY SMT DEF WriteBE
<1>2. 256 ^ (4 - 1) = 16777216 /\ 256 ^ (4 - 2) = 65536 /\ 256 ^ (4 - 3) = 256 /\ 256 ^ (4 - 4) = 1
  BY SMT
<1>3. /\ w[1] = (v \div 16777216) % 256 /\ w[2] = (v \div 65536) % 256
      /\ w[3] = (v \div 256) % 256 /\ w[4] = (v \div 1) % 256
  <2>1. 1 \in 1 .. 4 /\ 2 \in 1 .. 4 /\ 3 \in 1 .. 4 /\ 4 \in 1 .. 4
    BY SMT
  <2> HIDE DEF w
  <2> QED BY <1>1, <1>2, <2>1, SMT
<1>4. v \div 1 = v
  BY SMT
<1>5. w[1] \in Byte /\ w[2] \in Byte /\ w[3] \in Byte /\ w[4] \in Byte
  <2>1. \A n \in Nat : n % 256 \in 0 .. 255
    BY SMT
  <2>2. v \div 16777216 \in Nat /\ v \div 65536 \in Nat /\ v \div 256 \in Nat
    BY SMT
  <2> HIDE DEF w
  <2> QED BY <1>3, <1>4, <2>1, <2>2, SMT DEF Byte
<1>6. w \in Seq(Byte) /\ Len(w) = 4
  <2>1. \A i \in 1 .. 4 : i = 1 \/ i = 2 \/ i = 3 \/ i = 4
    BY SMT
  <2> HIDE DEF w
  <2>2. \A i \in 1 .. 4 : w[i] \in Byte
    BY <1>5, <2>1, SMT
  <2>3. w = [i \in 1 .. 4 |-> w[i]]
    BY <1>1, SMT
  <2>4. w = <<w[1], w[2], w[3], w[4]>>
    <3> DEFINE u == <<w[1], w[2], w[3], w[4]>>
    <3>1. u = [i \in 1 .. 4 |-> u[i]] /\ u[1] = w[1] /\ u[2] = w[2] /\ u[3] = w[3] /\ u[4] = w[4]
      BY SMT
    <3> HIDE DEF u
    <3>2. \A i \in 1 .. 4 : u[i] = w[i]
      BY <2>1, <3>1, SMT
    <3>3. u = w
      BY <2>3, <3>1, <3>2, SMT
    <3> QED BY <3>3 DEF u
  <2>5. w \in Seq(Byte)
    <3>1. \A a, b, c, d \in Byte : <<a, b, c, d>> \in Seq(Byte)
      OBVIOUS
    <3>2. <<w[1], w[2], w[3], w[4]>> \in Seq(Byte)
      BY <1>5, <3>1, Zenon
    <3> QED BY <2>4, <3>2, Zenon
  <2>6. Len(w) = 4
    BY <2>3, SMT
  <2> QED BY <2>5, <2>6
<1> HIDE DEF w
<1> QED BY <1>3, <1>4, <1>6, SMT DEF w

(* A 32-bit number is read back. *)
LEMMA ReadWriteFour ==
  ASSUME NEW v \in Word32
  PROVE  ReadBE(WriteBE(v, 4)) = v
<1> DEFINE b1 == (v \div 16777216) % 256
           b2 == (v \div 65536) % 256
           b3 == (v \div 256) % 256
           b4 == v % 256
<1>1. v \in Nat /\ v < 4294967296
  BY Word32Facts, SMT
<1>2. ReadBE(WriteBE(v, 4)) = 256 * (256 * (256 * b1 + b2) + b3) + b4
  <2> DEFINE w == WriteBE(v, 4)
  <2>1. w \in Seq(Byte) /\ Len(w) = 4 /\ w[1] = b1 /\ w[2] = b2 /\ w[3] = b3 /\ w[4] = b4
    BY <1>1, WriteFour, SMT
  <2> HIDE DEF w, b1, b2, b3, b4
  <2>2. ReadBE(w) = 256 * (256 * (256 * w[1] + w[2]) + w[3]) + w[4]
    BY <2>1, ReadFour
  <2> QED BY <2>1, <2>2 DEF w
<1>3. v = 256 * (v \div 256) + b4
  BY <1>1, SMT
<1>4. v \div 256 = 256 * (v \div 65536) + b3
  BY <1>1, SMT
<1>5. v \div 65536 = 256 * (v \div 16777216) + b2
  BY <1>1, SMT
<1>6. v \div 16777216 = b1
  BY <1>1, SMT
<1> HIDE DEF b1, b2, b3, b4
<1> QED BY <1>2, <1>3, <1>4, <1>5, <1>6, SMT

(* The two bytes of a status (pw_handshake.c). *)
LEMMA WriteTwo ==
  ASSUME NEW v \in {0, 1002}
  PROVE  WriteBE(v, 2) = <<v \div 256, v % 256>>
<1>1. WriteBE(v, 2) = [i \in 1 .. 2 |-> (v \div 256 ^ (2 - i)) % 256]
  BY DEF WriteBE
<1>2. 256 ^ (2 - 1) = 256 /\ 256 ^ (2 - 2) = 1
  BY SMT
<1>3. (v \div 256) % 256 = v \div 256 /\ (v \div 1) % 256 = v % 256
  BY SMT
<1>4. WriteBE(v, 2)[1] = v \div 256 /\ WriteBE(v, 2)[2] = v % 256
  BY <1>1, <1>2, <1>3
<1>5. \A i \in 1 .. 2 : i = 1 \/ i = 2
  OBVIOUS
<1>6. <<v \div 256, v % 256>> = [i \in 1 .. 2 |-> <<v \div 256, v % 256>>[i]]
  OBVIOUS
<1>7. WriteBE(v, 2) = [i \in 1 .. 2 |-> WriteBE(v, 2)[i]]
  BY <1>1
<1> QED BY <1>4, <1>5, <1>6, <1>7
-----------------------------------------------------------------------------
(* Concatenations, and the two hellos. *)

(* The literals of this module are bytes. *)
LEMMA Bytes ==
  /\ 0 \in Byte /\ 1 \in Byte /\ 2 \in Byte /\ 3 \in Byte /\ 4 \in Byte /\ 8 \in Byte /\ 10 \in Byte
  /\ 15 \in Byte /\ 16 \in Byte /\ 80 \in Byte /\ 87 \in Byte /\ 128 \in Byte /\ 234 \in Byte
BY ByteFacts

(* Two sequences one after the other. *)
LEMMA Joined ==
  ASSUME NEW X, NEW s \in Seq(X), NEW t \in Seq(X)
  PROVE  /\ s \o t \in Seq(X) /\ Len(s \o t) = Len(s) + Len(t) /\ Len(s) \in Nat /\ Len(t) \in Nat
         /\ \A i \in 1 .. Len(s) : (s \o t)[i] = s[i]
         /\ \A i \in 1 .. Len(t) : (s \o t)[Len(s) + i] = t[i]
<1>1. /\ s \o t \in Seq(X) /\ Len(s \o t) = Len(s) + Len(t) /\ Len(s) \in Nat /\ Len(t) \in Nat
      /\ \A i \in 1 .. Len(s) + Len(t) : (s \o t)[i] = IF i =< Len(s) THEN s[i] ELSE t[i - Len(s)]
  BY ConcatProperties, LenProperties
<1>2. ASSUME NEW i \in 1 .. Len(s) PROVE (s \o t)[i] = s[i]
  BY <1>1
<1>3. ASSUME NEW i \in 1 .. Len(t) PROVE (s \o t)[Len(s) + i] = t[i]
  <2>1. Len(s) + i \in 1 .. Len(s) + Len(t) /\ ~(Len(s) + i =< Len(s)) /\ (Len(s) + i) - Len(s) = i
    BY <1>1
  <2> QED BY <1>1, <2>1
<1> QED BY <1>1, <1>2, <1>3

(* c is s followed by t, m and n bytes long. *)
Follows(c, s, t, m, n) ==
  /\ c \in Seq(Byte) /\ Len(c) = m + n
  /\ \A i \in 1 .. m : c[i] = s[i]
  /\ \A i \in 1 .. n : c[m + i] = t[i]

(* Follows holds of a concatenation ... *)
LEMMA Together ==
  ASSUME NEW s \in Seq(Byte), NEW t \in Seq(Byte)
  PROVE  Follows(s \o t, s, t, Len(s), Len(t))
<1>1. s \o t \in Seq(Byte) /\ Len(s \o t) = Len(s) + Len(t) /\ \A i \in 1 .. Len(s) : (s \o t)[i] = s[i]
  BY Joined, Zenon
<1>2. \A i \in 1 .. Len(t) : (s \o t)[Len(s) + i] = t[i]
  BY Joined, SMT
<1> QED BY <1>1, <1>2, Zenon DEF Follows

(* ... of which the lengths are known. *)
LEMMA JoinedFollows ==
  ASSUME NEW s \in Seq(Byte), NEW t \in Seq(Byte), NEW m \in Nat, NEW n \in Nat, Len(s) = m, Len(t) = n
  PROVE  Follows(s \o t, s, t, m, n)
BY Together

(* The same bytes, cut in two ways: u, the shorter first part, begins s.   *)
Recut(s, t, u, w) ==
  /\ s \in Seq(Byte) /\ t \in Seq(Byte) /\ u \in Seq(Byte) /\ w \in Seq(Byte)
  /\ s \o t = u \o w /\ Len(u) =< Len(s)

(* What the two cuts have in common. *)
LEMMA SameFront ==
  ASSUME NEW s, NEW t, NEW u, NEW w, Recut(s, t, u, w)
  PROVE  /\ \A i \in 1 .. Len(u) : s[i] = u[i]
         /\ Len(u) \in 0 .. Len(s) /\ SubSeq(s, 1, Len(u)) = u
         /\ s = u \o Drop(s, Len(u)) /\ Drop(s, Len(u)) \o t = w
<1>0. /\ s \in Seq(Byte) /\ t \in Seq(Byte) /\ u \in Seq(Byte) /\ w \in Seq(Byte)
      /\ s \o t = u \o w /\ Len(u) =< Len(s)
  BY DEF Recut
<1>1. Len(u) \in 0 .. Len(s) /\ Len(s) \in Nat /\ Len(u) \in Nat
  BY <1>0, LenProperties
<1>2. ASSUME NEW i \in 1 .. Len(u) PROVE s[i] = u[i]
  <2>1. i \in 1 .. Len(s)
    BY <1>1
  <2>2. (s \o t)[i] = s[i] /\ (u \o w)[i] = u[i]
    BY <1>0, <2>1, Joined
  <2> QED BY <1>0, <2>2
<1>3. /\ SubSeq(s, 1, Len(u)) \in Seq(Byte) /\ Len(SubSeq(s, 1, Len(u))) = Len(u)
      /\ s = SubSeq(s, 1, Len(u)) \o Drop(s, Len(u))
      /\ \A i \in 1 .. Len(u) : SubSeq(s, 1, Len(u))[i] = s[i]
  BY <1>0, <1>1, FrontAndRest
<1>4. SubSeq(s, 1, Len(u)) = u
  <2> DEFINE a == SubSeq(s, 1, Len(u))
  <2>1. a \in Seq(Byte) /\ Len(a) = Len(u) /\ \A i \in 1 .. Len(a) : a[i] = u[i]
    BY <1>2, <1>3
  <2> HIDE DEF a
  <2>2. a = u
    BY <1>0, <2>1, SeqEqual
  <2> QED BY <2>2 DEF a
<1>5. Drop(s, Len(u)) \o t = w
  <2>1. Drop(s \o t, Len(u)) = Drop(s, Len(u)) \o t
    BY <1>0, <1>1, DropOfFront
  <2>2. Drop(u \o w, Len(u)) = w
    BY <1>0, DropFront
  <2> QED BY <1>0, <2>1, <2>2
<1> QED BY <1>1, <1>2, <1>3, <1>4, <1>5

(* The nonce is sixteen bytes. *)
LEMMA NonceFacts ==
  Nonce \in Seq(Byte) /\ Len(Nonce) = 16 /\ \A i \in 1 .. 16 : Nonce[i] = 0
<1>1. Nonce = [i \in 1 .. 16 |-> 0]
  BY DEF Nonce
<1> QED BY <1>1, Bytes

(* The version and the capabilities in four bytes. *)
LEMMA SmallWords ==
  /\ WriteBE(1, 4) \in Seq(Byte) /\ Len(WriteBE(1, 4)) = 4
  /\ WriteBE(1, 4)[1] = 0
  /\ WriteBE(4, 4) \in Seq(Byte) /\ Len(WriteBE(4, 4)) = 4
  /\ WriteBE(4, 4)[1] = 0 /\ WriteBE(4, 4)[2] = 0 /\ WriteBE(4, 4)[3] = 0 /\ WriteBE(4, 4)[4] = 4
<1>1. /\ (1 \div 16777216) % 256 = 0
      /\ (4 \div 16777216) % 256 = 0 /\ (4 \div 65536) % 256 = 0 /\ (4 \div 256) % 256 = 0 /\ 4 % 256 = 4
  BY SMT
<1> QED BY <1>1, WriteFour, SMT

(* The client's hello (StreamClient.php:62-74): where the daemon looks for *)
(* the version there is a 0.                                               *)
LEMMA HelloFacts ==
  Hello \in Seq(Byte) /\ Len(Hello) = 27 /\ Hello[3] = 0 /\ Hello[24] = 0
<1> DEFINE a == WriteBE(1, 4)
           b == WriteBE(4, 4)
<1>1. Hello = <<80, 87>> \o a \o b \o Nonce \o <<0>>
  BY DEF Hello, PW_MAGIC_BYTE_1, PW_MAGIC_BYTE_2, PW_VERSION_1, CAP_AUTH_BEARER
<1>2. a \in Seq(Byte) /\ Len(a) = 4 /\ a[1] = 0 /\ b \in Seq(Byte) /\ Len(b) = 4
  BY SmallWords
<1>3. Nonce \in Seq(Byte) /\ Len(Nonce) = 16 /\ Nonce[14] = 0
  BY NonceFacts
<1> HIDE DEF a, b
<1> DEFINE m == <<80, 87>>
           z == <<0>>
<1>4. m \in Seq(Byte) /\ Len(m) = 2 /\ z \in Seq(Byte) /\ Len(z) = 1
  BY Bytes
<1> HIDE DEF m, z
<1> DEFINE c1 == m \o a
           c2 == c1 \o b
           c3 == c2 \o Nonce
           c4 == c3 \o z
<1>5. /\ c1 \in Seq(Byte) /\ Len(c1) = 6 /\ (\A i \in 1 .. 2 : c1[i] = m[i])
       /\ \A i \in 1 .. 4 : c1[2 + i] = a[i]
  <2>1. Follows(c1, m, a, 2, 4)
    BY <1>4, <1>2, JoinedFollows
  <2> HIDE DEF c1
  <2> QED BY <2>1 DEF Follows
<1> HIDE DEF c1
<1>6. /\ c2 \in Seq(Byte) /\ Len(c2) = 10 /\ (\A i \in 1 .. 6 : c2[i] = c1[i])
       /\ \A i \in 1 .. 4 : c2[6 + i] = b[i]
  <2>1. Follows(c2, c1, b, 6, 4)
    BY <1>5, <1>2, JoinedFollows
  <2> HIDE DEF c2
  <2> QED BY <2>1 DEF Follows
<1> HIDE DEF c2
<1>7. /\ c3 \in Seq(Byte) /\ Len(c3) = 26 /\ (\A i \in 1 .. 10 : c3[i] = c2[i])
       /\ \A i \in 1 .. 16 : c3[10 + i] = Nonce[i]
  <2>1. Follows(c3, c2, Nonce, 10, 16)
    BY <1>6, <1>3, JoinedFollows
  <2> HIDE DEF c3
  <2> QED BY <2>1 DEF Follows
<1> HIDE DEF c3
<1>8. /\ c4 \in Seq(Byte) /\ Len(c4) = 27 /\ (\A i \in 1 .. 26 : c4[i] = c3[i])
       /\ \A i \in 1 .. 1 : c4[26 + i] = z[i]
  <2>1. Follows(c4, c3, z, 26, 1)
    BY <1>7, <1>4, JoinedFollows
  <2> HIDE DEF c4
  <2> QED BY <2>1 DEF Follows
<1> HIDE DEF c4
<1>9. c4[3] = 0
  <2>1. c1[2 + 1] = a[1] /\ c2[3] = c1[3] /\ c3[3] = c2[3] /\ c4[3] = c3[3]
    BY <1>5, <1>6, <1>7, <1>8
  <2> QED BY <1>2, <2>1
<1>10. c4[24] = 0
  <2>1. c3[10 + 14] = Nonce[14] /\ c4[24] = c3[24]
    BY <1>7, <1>8
  <2> QED BY <1>3, <2>1
<1>11. Hello = c4
  BY <1>1 DEF c1, c2, c3, c4, m, z
<1> QED BY <1>8, <1>9, <1>10, <1>11

(* What a hello of the peer may say. *)
Status == {0, 1002}

(* The server's hello (pw_handshake.c,                                     *)
(* pw_handshake_serialize_server_hello): 42 bytes, the status at 40 and    *)
(* 41, and no second byte that could begin a magic.                        *)
LEMMA PeerHelloFacts ==
  ASSUME NEW s \in Status
  PROVE  /\ PeerHello(s) \in Seq(Byte) /\ Len(PeerHello(s)) = 42
         /\ PeerHello(s)[1] = 80 /\ PeerHello(s)[2] = 87 /\ PeerHello(s)[5] = 0
         /\ PeerHello(s)[6] = 0 /\ PeerHello(s)[7] = 4
         /\ PeerHello(s)[40] = s \div 256 /\ PeerHello(s)[41] = s % 256
         /\ \A i \in 2 .. 42 : PeerHello(s)[i] # 80
<1> DEFINE b == WriteBE(4, 4)
           w == <<80, 87>> \o <<1>> \o b \o Nonce \o Nonce \o WriteBE(s, 2) \o <<0>>
<1>1. PeerHello(s) = Fit(w, 4096)
  BY DEF PeerHello, SerializeServerHello, PW_MAGIC_BYTE_1, PW_MAGIC_BYTE_2, PW_VERSION_1, CAP_AUTH_BEARER
<1>2. b \in Seq(Byte) /\ Len(b) = 4 /\ b[1] = 0 /\ b[2] = 0 /\ b[3] = 0 /\ b[4] = 4
  BY SmallWords
<1>3. Nonce \in Seq(Byte) /\ Len(Nonce) = 16 /\ \A i \in 1 .. 16 : Nonce[i] = 0
  BY NonceFacts
<1> DEFINE hi == s \div 256
           lo == s % 256
<1>4. WriteBE(s, 2) = <<hi, lo>>
  BY WriteTwo DEF Status
<1>5. hi \in Byte /\ lo \in Byte /\ hi # 80 /\ lo # 80
  <2>1. s \div 256 \in {0, 3} /\ s % 256 \in {0, 234}
    BY SMT DEF Status
  <2> QED BY <2>1, Bytes
<1> HIDE DEF b, hi, lo
<1> DEFINE m == <<80, 87>>
           y == <<1>>
           z == <<0>>
           u == <<hi, lo>>
<1>6. /\ m \in Seq(Byte) /\ Len(m) = 2 /\ m[1] = 80 /\ m[2] = 87
      /\ y \in Seq(Byte) /\ Len(y) = 1 /\ y[1] = 1
      /\ z \in Seq(Byte) /\ Len(z) = 1 /\ z[1] = 0
  BY Bytes
<1>7. u \in Seq(Byte) /\ Len(u) = 2 /\ u[1] = hi /\ u[2] = lo
  BY <1>5
<1> HIDE DEF m, y, z, u
<1> DEFINE c1 == m \o y
           c2 == c1 \o b
           c3 == c2 \o Nonce
           c4 == c3 \o Nonce
           c5 == c4 \o u
           c6 == c5 \o z
<1>21. /\ c1 \in Seq(Byte) /\ Len(c1) = 3 /\ (\A i \in 1 .. 2 : c1[i] = m[i])
       /\ \A i \in 1 .. 1 : c1[2 + i] = y[i]
  <2>1. Follows(c1, m, y, 2, 1)
    BY <1>6, <1>6, JoinedFollows
  <2> HIDE DEF c1
  <2> QED BY <2>1 DEF Follows
<1> HIDE DEF c1
<1>22. /\ c2 \in Seq(Byte) /\ Len(c2) = 7 /\ (\A i \in 1 .. 3 : c2[i] = c1[i])
       /\ \A i \in 1 .. 4 : c2[3 + i] = b[i]
  <2>1. Follows(c2, c1, b, 3, 4)
    BY <1>21, <1>2, JoinedFollows
  <2> HIDE DEF c2
  <2> QED BY <2>1 DEF Follows
<1> HIDE DEF c2
<1>23. /\ c3 \in Seq(Byte) /\ Len(c3) = 23 /\ (\A i \in 1 .. 7 : c3[i] = c2[i])
       /\ \A i \in 1 .. 16 : c3[7 + i] = Nonce[i]
  <2>1. Follows(c3, c2, Nonce, 7, 16)
    BY <1>22, <1>3, JoinedFollows
  <2> HIDE DEF c3
  <2> QED BY <2>1 DEF Follows
<1> HIDE DEF c3
<1>24. /\ c4 \in Seq(Byte) /\ Len(c4) = 39 /\ (\A i \in 1 .. 23 : c4[i] = c3[i])
       /\ \A i \in 1 .. 16 : c4[23 + i] = Nonce[i]
  <2>1. Follows(c4, c3, Nonce, 23, 16)
    BY <1>23, <1>3, JoinedFollows
  <2> HIDE DEF c4
  <2> QED BY <2>1 DEF Follows
<1> HIDE DEF c4
<1>25. /\ c5 \in Seq(Byte) /\ Len(c5) = 41 /\ (\A i \in 1 .. 39 : c5[i] = c4[i])
       /\ \A i \in 1 .. 2 : c5[39 + i] = u[i]
  <2>1. Follows(c5, c4, u, 39, 2)
    BY <1>24, <1>7, JoinedFollows
  <2> HIDE DEF c5
  <2> QED BY <2>1 DEF Follows
<1> HIDE DEF c5
<1>26. /\ c6 \in Seq(Byte) /\ Len(c6) = 42 /\ (\A i \in 1 .. 41 : c6[i] = c5[i])
       /\ \A i \in 1 .. 1 : c6[41 + i] = z[i]
  <2>1. Follows(c6, c5, z, 41, 1)
    BY <1>25, <1>6, JoinedFollows
  <2> HIDE DEF c6
  <2> QED BY <2>1 DEF Follows
<1> HIDE DEF c6
<1>27. w = c6
  BY <1>4 DEF c1, c2, c3, c4, c5, c6, m, y, z, u
<1> HIDE DEF w
<1>8. w \in Seq(Byte) /\ Len(w) = 42
  BY <1>26, <1>27
<1>9. /\ w[1] = 80 /\ w[2] = 87 /\ w[3] = 1
      /\ \A i \in 1 .. 4 : w[3 + i] = b[i]
      /\ \A i \in 1 .. 16 : w[7 + i] = 0 /\ w[23 + i] = 0
      /\ w[40] = hi /\ w[41] = lo /\ w[42] = 0
  <2>1. ASSUME NEW i \in 1 .. 39 PROVE w[i] = c4[i]
    <3>1. i \in 1 .. 41
      OBVIOUS
    <3>2. w[i] = c6[i] /\ c6[i] = c5[i] /\ c5[i] = c4[i]
      BY <1>25, <1>26, <1>27, <3>1
    <3> QED BY <3>2
  <2>2. w[41] = c5[41] /\ w[40] = c5[40] /\ c5[39 + 1] = u[1] /\ c5[39 + 2] = u[2] /\ w[41 + 1] = z[1]
    BY <1>25, <1>26, <1>27
  <2>3. ASSUME NEW i \in 1 .. 23 PROVE w[i] = c3[i]
    <3>1. i \in 1 .. 39
      OBVIOUS
    <3>2. w[i] = c4[i] /\ c4[i] = c3[i]
      BY <1>24, <2>1, <3>1
    <3> QED BY <3>2
  <2>4. ASSUME NEW i \in 1 .. 7 PROVE w[i] = c2[i]
    <3>1. i \in 1 .. 23
      OBVIOUS
    <3>2. w[i] = c3[i] /\ c3[i] = c2[i]
      BY <1>23, <2>3, <3>1
    <3> QED BY <3>2
  <2>5. w[1] = m[1] /\ w[2] = m[2] /\ w[3] = y[1]
    <3>1. w[1] = c1[1] /\ w[2] = c1[2] /\ w[3] = c1[3]
      BY <1>22, <2>4
    <3>2. c1[1] = m[1] /\ c1[2] = m[2] /\ c1[2 + 1] = y[1]
      BY <1>21
    <3> QED BY <3>1, <3>2
  <2>6. ASSUME NEW i \in 1 .. 4 PROVE w[3 + i] = b[i]
    <3>1. 3 + i \in 1 .. 7
      OBVIOUS
    <3> QED BY <1>22, <2>4, <3>1
  <2>7. ASSUME NEW i \in 1 .. 16 PROVE w[7 + i] = 0 /\ w[23 + i] = 0
    <3>1. 7 + i \in 1 .. 23 /\ 23 + i \in 1 .. 39 /\ Nonce[i] = 0
      BY <1>3
    <3>2. w[7 + i] = c3[7 + i] /\ c3[7 + i] = Nonce[i]
      BY <1>23, <2>3, <3>1
    <3>3. w[23 + i] = c4[23 + i] /\ c4[23 + i] = Nonce[i]
      BY <1>24, <2>1, <3>1
    <3> QED BY <3>1, <3>2, <3>3
  <2> QED BY <1>6, <1>7, <2>2, <2>5, <2>6, <2>7
<1>10. w[4] = 0 /\ w[5] = 0 /\ w[6] = 0 /\ w[7] = 4
  <2>1. w[3 + 1] = b[1] /\ w[3 + 2] = b[2] /\ w[3 + 3] = b[3] /\ w[3 + 4] = b[4]
    BY <1>9
  <2> QED BY <1>2, <2>1
<1>11. ASSUME NEW i \in 2 .. 42 PROVE w[i] # 80
  <2>1. CASE i \in 8 .. 39
    <3>1. CASE i =< 23
      <4>1. i - 7 \in 1 .. 16 /\ 7 + (i - 7) = i
        BY <2>1, <3>1
      <4> QED BY <4>1, <1>9
    <3>2. CASE i > 23
      <4>1. i - 23 \in 1 .. 16 /\ 23 + (i - 23) = i
        BY <2>1, <3>2
      <4> QED BY <4>1, <1>9
    <3> QED BY <2>1, <3>1, <3>2
  <2>2. CASE i \notin 8 .. 39
    <3>1. i \in {2, 3, 4, 5, 6, 7, 40, 41, 42}
      BY <2>2
    <3>2. hi # 80 /\ lo # 80
      BY <1>5 DEF hi, lo
    <3> QED BY <3>1, <3>2, <1>9, <1>10
  <2> QED BY <2>1, <2>2
<1>12. PeerHello(s) = w
  BY <1>1, <1>8 DEF Fit
<1> QED BY <1>8, <1>9, <1>10, <1>11, <1>12 DEF hi, lo

(* The status that the client reads, of a hello the peer wrote. *)
LEMMA HelloStatusRead ==
  ASSUME NEW s \in Status, NEW rest \in Seq(Byte), NEW got1 \in Seq(Byte), NEW later \in Seq(Byte),
         got1 \o later = PeerHello(s) \o rest, Len(got1) >= 42
  PROVE  HelloStatus(got1) = s /\ Drop(got1, 42) \o later = rest /\ SubSeq(got1, 1, 2) = <<80, 87>>
<1> DEFINE h == PeerHello(s)
<1>1. h \in Seq(Byte) /\ Len(h) = 42 /\ h[1] = 80 /\ h[2] = 87 /\ h[40] = s \div 256 /\ h[41] = s % 256
  BY PeerHelloFacts
<1> HIDE DEF h
<1>2. got1 \o later = h \o rest /\ Len(h) =< Len(got1)
  BY <1>1 DEF h
<1>3. (\A i \in 1 .. Len(h) : got1[i] = h[i]) /\ Drop(got1, Len(h)) \o later = rest
  
  <2>1. h \in Seq(Byte)
    BY <1>1
  <2>2. Recut(got1, later, h, rest)
    BY <1>2, <2>1 DEF Recut
  <2> HIDE DEF h
  <2>3. \A i \in 1 .. Len(h) : got1[i] = h[i]
    BY <2>2, SameFront
  <2>4. Drop(got1, Len(h)) \o later = rest
    BY <2>2, SameFront
  <2> QED BY <2>3, <2>4
<1>4. \A i \in 1 .. 42 : got1[i] = h[i]
  BY <1>1, <1>3
<1>5. got1[1] = 80 /\ got1[2] = 87 /\ got1[40] = s \div 256 /\ got1[41] = s % 256
  <2>1. got1[1] = h[1] /\ got1[2] = h[2] /\ got1[40] = h[40] /\ got1[41] = h[41]
    BY <1>4
  <2> QED BY <1>1, <2>1
<1>6. HelloStatus(got1) = s
  <2> DEFINE q == SubSeq(got1, 40, 41)
  <2>1. q \in Seq(Byte) /\ Len(q) = 2 /\ \A i \in 1 .. 41 - 40 + 1 : q[i] = got1[40 + i - 1]
    <3>1. 41 - 40 + 1 = 2 /\ 41 =< Len(got1)
      BY LenProperties
    <3> QED BY <3>1, SubSeqWithin
  <2> HIDE DEF q
  <2>2. q[1] = got1[40] /\ q[2] = got1[41]
    <3>1. 1 \in 1 .. 41 - 40 + 1 /\ 2 \in 1 .. 41 - 40 + 1 /\ 40 + 1 - 1 = 40 /\ 40 + 2 - 1 = 41
      OBVIOUS
    <3> QED BY <2>1, <3>1
  <2>3. ReadBE(q) = 256 * q[1] + q[2]
    BY <2>1, ReadTwo
  <2>4. 256 * (s \div 256) + (s % 256) = s
    BY SMT DEF Status
  <2>5. ReadBE(q) = s
    BY <1>5, <2>2, <2>3, <2>4
  <2> QED BY <2>5 DEF HelloStatus, q
<1>7. SubSeq(got1, 1, 2) = <<80, 87>>
  <2> DEFINE q == SubSeq(got1, 1, 2)
             m == <<80, 87>>
  <2>1. q \in Seq(Byte) /\ Len(q) = 2 /\ \A i \in 1 .. 2 : q[i] = got1[i]
    <3>1. 2 \in 0 .. Len(got1)
      BY LenProperties
    <3> QED BY <3>1, FrontAndRest
  <2>2. m \in Seq(Byte) /\ Len(m) = 2 /\ m[1] = 80 /\ m[2] = 87
    BY Bytes
  <2> HIDE DEF q, m
  <2>3. \A i \in 1 .. Len(q) : q[i] = m[i]
    BY <1>5, <2>1, <2>2
  <2>4. q = m
    BY <2>1, <2>2, <2>3, SeqEqual
  <2> QED BY <2>4 DEF q, m
<1> QED BY <1>1, <1>3, <1>6, <1>7
-----------------------------------------------------------------------------
(* The two varint readers. *)

(* The length in sendFrame() (StreamClient.php:162-170) is the native      *)
(* varint.                                                                 *)
LEMMA LengthBytesIsEncodeVarint ==
  /\ LengthBytes \in [Nat -> Seq(Byte)]
  /\ \A v \in Nat : LengthBytes[v] = EncodeVarint[v]
<1> DEFINE body(f) == [v \in Nat |-> IF v \div 128 > 0 THEN <<(v % 128) + 128>> \o f[v \div 128]
                                     ELSE <<v % 128>>]
<1>1. EncodeVarint \in [Nat -> Seq(Byte)]
  BY EncodeVarintStep
<1>2. ASSUME NEW v \in Nat
      PROVE  EncodeVarint[v] = IF v \div 128 > 0 THEN <<(v % 128) + 128>> \o EncodeVarint[v \div 128]
                               ELSE <<v % 128>>
  <2>1. EncodeVarint[v] = IF v >= 128 THEN <<(v % 128) + 128>> \o EncodeVarint[v \div 128] ELSE <<v>>
    BY EncodeVarintStep
  <2>2. CASE v >= 128
    BY <2>1, <2>2, Digits
  <2>3. CASE v < 128
    <3>1. v % 128 = v /\ ~(v \div 128 > 0) /\ ~(v >= 128)
      BY <2>3, Digits
    <3> QED BY <2>1, <3>1
  <2> QED BY <2>2, <2>3
<1>3. EncodeVarint = body(EncodeVarint)
  <2>1. EncodeVarint = [v \in Nat |-> EncodeVarint[v]]
    BY <1>1
  <2> QED BY <1>2, <2>1
<1>4. LengthBytes = CHOOSE f : f = body(f)
  BY DEF LengthBytes
<1>5. LengthBytes = body(LengthBytes)
  <2> HIDE DEF body
  <2> QED BY <1>3, <1>4
<1> HIDE DEF body
<1>6. \A v \in Nat : LengthBytes[v] =
        IF v \div 128 > 0 THEN <<(v % 128) + 128>> \o LengthBytes[v \div 128] ELSE <<v % 128>>
  BY <1>5 DEF body
<1>7. \A v \in Nat : LengthBytes[v] = EncodeVarint[v]
  <2> DEFINE T == {v \in Nat : LengthBytes[v] # EncodeVarint[v]}
  <2>1. SUFFICES ASSUME T # {} PROVE FALSE
    OBVIOUS
  <2>2. PICK v \in T : \A u \in T : v =< u
    BY <2>1, NatMin
  <2>3. v \div 128 > 0 => LengthBytes[v \div 128] = EncodeVarint[v \div 128]
    <3>1. v \div 128 > 0 => v \div 128 \in Nat /\ v \div 128 < v
      BY Digits
    <3> QED BY <2>2, <3>1
  <2>4. LengthBytes[v] = EncodeVarint[v]
    <3>1. /\ LengthBytes[v] = IF v \div 128 > 0 THEN <<(v % 128) + 128>> \o LengthBytes[v \div 128]
                              ELSE <<v % 128>>
          /\ EncodeVarint[v] = IF v \div 128 > 0 THEN <<(v % 128) + 128>> \o EncodeVarint[v \div 128]
                               ELSE <<v % 128>>
      BY <1>2, <1>6
    <3> QED BY <2>3, <3>1
  <2> QED BY <2>2, <2>4
<1>8. LengthBytes = [v \in Nat |-> LengthBytes[v]]
  BY <1>5 DEF body
<1> QED BY <1>1, <1>7, <1>8
-----------------------------------------------------------------------------
(* The first byte of s without the top bit is the nth. *)
EndsAt(s, n) == n \in 1 .. Len(s) /\ s[n] < 128 /\ \A i \in 1 .. n - 1 : s[i] >= 128

(* Where a varint ends is within s. *)
LEMMA EndsAtType ==
  ASSUME NEW s \in Seq(Byte), NEW n, EndsAt(s, n)
  PROVE  n \in Nat /\ n \in 0 .. Len(s) /\ 1 =< n /\ n =< Len(s) /\ SubSeq(s, 1, n) \in Seq(Byte)
<1>1. n \in Nat /\ n \in 0 .. Len(s) /\ 1 =< n /\ n =< Len(s)
  BY LenProperties DEF EndsAt
<1> QED BY <1>1, FrontAndRest

(* A varint ends in one place ... *)
LEMMA EndsAtUnique ==
  ASSUME NEW s \in Seq(Byte), NEW m, NEW n, EndsAt(s, m), EndsAt(s, n)
  PROVE  m = n
<1>1. m \in Nat /\ n \in Nat /\ 1 =< m /\ 1 =< n
  BY EndsAtType
<1>2. \A i \in 1 .. Len(s) : s[i] \in Nat
  BY ByteAt
<1>3. ~(m < n) /\ ~(n < m)
  BY <1>1, <1>2 DEF EndsAt
<1> QED BY <1>1, <1>3

(* ... or not at all in s. *)
LEMMA EndsAtOrNot ==
  ASSUME NEW s \in Seq(Byte)
  PROVE  \/ \A i \in 1 .. Len(s) : ~(s[i] < 128)
         \/ \E n : EndsAt(s, n)
<1> DEFINE T == {i \in 1 .. Len(s) : s[i] < 128}
<1>1. SUFFICES ASSUME T # {} PROVE \E n : EndsAt(s, n)
  OBVIOUS
<1>2. T \subseteq Nat
  BY LenProperties
<1>3. PICK n \in T : \A i \in T : n =< i
  BY <1>1, <1>2, NatMin
<1>4. ASSUME NEW i \in 1 .. n - 1 PROVE s[i] >= 128
  <2>1. i \in 1 .. Len(s) /\ ~(n =< i)
    BY LenProperties
  <2>2. s[i] \in Nat /\ i \notin T
    BY <1>3, <2>1, ByteAt
  <2> QED BY <2>1, <2>2
<1>5. n \in 1 .. Len(s) /\ s[n] < 128
  OBVIOUS
<1> QED BY <1>4, <1>5 DEF EndsAt

(* What follows does not change where it ends. *)
LEMMA EndsAtFront ==
  ASSUME NEW s \in Seq(Byte), NEW t \in Seq(Byte), NEW n, EndsAt(s, n)
  PROVE  EndsAt(s \o t, n) /\ SubSeq(s \o t, 1, n) = SubSeq(s, 1, n)
<1>1. n \in Nat /\ n \in 0 .. Len(s) /\ 1 =< n /\ n =< Len(s)
  BY EndsAtType
<1>2. Len(s \o t) = Len(s) + Len(t) /\ Len(s) \in Nat /\ Len(t) \in Nat /\ \A i \in 1 .. Len(s) : (s \o t)[i] = s[i]
  BY Joined
<1>3. SubSeq(s \o t, 1, n) = SubSeq(s, 1, n)
  BY <1>1, SubSeqOfFront
<1>4. n \in 1 .. Len(s \o t) /\ (s \o t)[n] = s[n] /\ \A i \in 1 .. n - 1 : (s \o t)[i] = s[i]
  BY <1>1, <1>2
<1> QED BY <1>3, <1>4 DEF EndsAt

Varint(s, n) == [parsed |-> n, value |-> VarintValue(SubSeq(s, 1, n))]

(* readVarint() (StreamClient.php:199-210) on bytes with an end ... *)
LEMMA ReadVarintEnds ==
  ASSUME NEW s \in Seq(Byte), NEW n, EndsAt(s, n)
  PROVE  ReadVarint(s) = Varint(s, n)
<1> DEFINE ends == {i \in 1 .. Len(s) : s[i] < 128}
           least == CHOOSE i \in ends : \A j \in ends : i =< j
<1>1. ReadVarint(s) = IF ends = {} THEN Wait ELSE [parsed |-> least, value |-> VarintValue(SubSeq(s, 1, least))]
  BY DEF ReadVarint
<1>2. n \in ends /\ n \in Nat /\ Len(s) \in Nat
  BY EndsAtType, LenProperties DEF EndsAt
<1>3. \A j \in ends : n =< j
  <2> SUFFICES ASSUME NEW j \in ends, j < n PROVE FALSE
    BY <1>2
  <2>1. j \in 1 .. n - 1 /\ s[j] \in Nat
    BY <1>2, ByteAt
  <2> QED BY <2>1 DEF EndsAt
<1>4. ends \subseteq Nat
  BY <1>2
<1> HIDE DEF ends
<1>5. least \in ends /\ \A j \in ends : least =< j
  BY <1>2, <1>3
<1>6. least = n
  <2> HIDE DEF least
  <2>1. least \in Nat /\ n \in Nat /\ least =< n /\ n =< least
    BY <1>2, <1>3, <1>4, <1>5
  <2> QED BY <2>1
<1> HIDE DEF least
<1> QED BY <1>1, <1>2, <1>6 DEF Varint

(* ... on bytes without one ... *)
LEMMA ReadVarintWaits ==
  ASSUME NEW s \in Seq(Byte), \A i \in 1 .. Len(s) : ~(s[i] < 128)
  PROVE  ReadVarint(s) = Wait
<1>1. {i \in 1 .. Len(s) : s[i] < 128} = {}
  OBVIOUS
<1> QED BY <1>1 DEF ReadVarint

(* ... and on any. *)
LEMMA ReadVarintCases ==
  ASSUME NEW s \in Seq(Byte)
  PROVE  ReadVarint(s) = Wait \/ \E n : EndsAt(s, n) /\ ReadVarint(s) = Varint(s, n)
BY EndsAtOrNot, ReadVarintEnds, ReadVarintWaits

(* pw_varint_decode32 (pw_varint.c:13-36) on bytes with an end that fits   *)
(* 32 bits ...                                                             *)
LEMMA DecodeVarintEnds ==
  ASSUME NEW s \in Seq(Byte), NEW n, EndsAt(s, n), n =< VarintBytes, n >= VarintBytes => s[n] < 16
  PROVE  DecodeVarint(s) = Varint(s, n)
<1> DEFINE ends == {i \in 1 .. Len(s) : i =< VarintBytes /\ s[i] < 128}
           least == CHOOSE i \in ends : \A j \in ends : i =< j
<1>1. DecodeVarint(s) = IF ends = {} \/ (least = VarintBytes /\ s[least] >= 16) THEN Wait
                        ELSE [parsed |-> least, value |-> VarintValue(SubSeq(s, 1, least))]
  BY DEF DecodeVarint
<1>2. n \in ends /\ n \in Nat /\ Len(s) \in Nat /\ n \in 1 .. Len(s)
  BY EndsAtType, LenProperties DEF EndsAt
<1>3. \A j \in ends : n =< j
  <2> SUFFICES ASSUME NEW j \in ends, j < n PROVE FALSE
    BY <1>2
  <2>1. j \in 1 .. n - 1 /\ s[j] \in Nat
    BY <1>2, ByteAt
  <2> QED BY <2>1 DEF EndsAt
<1>4. ends \subseteq Nat
  BY <1>2
<1> HIDE DEF ends
<1>5. least \in ends /\ \A j \in ends : least =< j
  BY <1>2, <1>3
<1>6. least = n
  <2> HIDE DEF least
  <2>1. least \in Nat /\ n \in Nat /\ least =< n /\ n =< least
    BY <1>2, <1>3, <1>4, <1>5
  <2> QED BY <2>1
<1> HIDE DEF least
<1>7. ~(n = VarintBytes /\ s[n] >= 16)
  <2>1. s[n] \in Nat
    BY <1>2, ByteAt
  <2> QED BY <2>1, <1>2 DEF VarintBytes
<1> QED BY <1>1, <1>2, <1>6, <1>7 DEF Varint

(* ... and on any. *)
LEMMA DecodeVarintCases ==
  ASSUME NEW s \in Seq(Byte)
  PROVE  DecodeVarint(s) = Wait \/ \E n \in 1 .. Len(s) : DecodeVarint(s) = Varint(s, n)
<1> DEFINE ends == {i \in 1 .. Len(s) : i =< VarintBytes /\ s[i] < 128}
           least == CHOOSE i \in ends : \A j \in ends : i =< j
<1>1. DecodeVarint(s) = IF ends = {} \/ (least = VarintBytes /\ s[least] >= 16) THEN Wait
                        ELSE [parsed |-> least, value |-> VarintValue(SubSeq(s, 1, least))]
  BY DEF DecodeVarint
<1>2. ends \subseteq Nat /\ ends \subseteq 1 .. Len(s)
  BY LenProperties
<1> HIDE DEF ends
<1>3. ends # {} => least \in ends
  BY <1>2, NatMin
<1> HIDE DEF least
<1> QED BY <1>1, <1>2, <1>3 DEF Varint

(* A varint of the encoder, with anything after it, is read by both sides. *)
LEMMA WellEncodedRead ==
  ASSUME NEW v, NEW e, NEW t \in Seq(Byte), WellEncoded(e, v)
  PROVE  /\ ReadVarint(e \o t) = [parsed |-> Len(e), value |-> v]
         /\ DecodeVarint(e \o t) = [parsed |-> Len(e), value |-> v]
<1>1. /\ e \in Seq(Byte) /\ Len(e) \in 1 .. VarintBytes
      /\ \A i \in 1 .. Len(e) - 1 : e[i] >= 128
      /\ e[Len(e)] < 128 /\ (Len(e) >= VarintBytes => e[Len(e)] < 16)
      /\ VarintValue(e) = v
  BY DEF WellEncoded
<1>2. Len(e) \in Nat /\ Len(e) \in 1 .. Len(e) /\ Len(e) =< VarintBytes
  <2>1. Len(e) \in Nat
    BY <1>1, LenProperties
  <2>2. Len(e) \in 1 .. 5
    BY <1>1 DEF VarintBytes
  <2>3. \A n \in Nat : n \in 1 .. 5 => n \in 1 .. n /\ n =< 5
    OBVIOUS
  <2> QED BY <2>1, <2>2, <2>3, Zenon DEF VarintBytes
<1>3. EndsAt(e, Len(e))
  BY <1>1, <1>2 DEF EndsAt
<1>4. EndsAt(e \o t, Len(e)) /\ SubSeq(e \o t, 1, Len(e)) = SubSeq(e, 1, Len(e))
  BY <1>1, <1>3, EndsAtFront
<1>5. SubSeq(e, 1, Len(e)) = e
  BY <1>1, SubSeqFull
<1>6. e \o t \in Seq(Byte) /\ (e \o t)[Len(e)] = e[Len(e)]
  BY <1>1, <1>2, Joined
<1>7. Varint(e \o t, Len(e)) = [parsed |-> Len(e), value |-> v]
  BY <1>1, <1>4, <1>5 DEF Varint
<1>8. ReadVarint(e \o t) = Varint(e \o t, Len(e))
  BY <1>4, <1>6, ReadVarintEnds
<1>9. DecodeVarint(e \o t) = Varint(e \o t, Len(e))
  BY <1>1, <1>2, <1>4, <1>6, DecodeVarintEnds
<1> QED BY <1>7, <1>8, <1>9
-----------------------------------------------------------------------------
(* readFrame(). *)

Magic == <<80, 87>>

(* A frame begins s: its two varints take a and b bytes, and all of its    *)
(* payload is there.                                                       *)
LengthAt(s, a, b) == VarintValue(SubSeq(Drop(s, 5 + a), 1, b))

FrameAt(s, a, b) ==
  /\ Len(s) >= 5 /\ SubSeq(s, 1, 2) = Magic
  /\ EndsAt(Drop(s, 5), a) /\ EndsAt(Drop(s, 5 + a), b)
  /\ 5 + a + b + LengthAt(s, a, b) =< Len(s)

FrameRead(s, a, b) ==
  [parsed |-> 5 + a + b + LengthAt(s, a, b), opcode |-> s[5],
   payload |-> SubSeq(s, 5 + a + b + 1, 5 + a + b + LengthAt(s, a, b))]

(* What is left behind the stream id. *)
LEMMA HeaderEnds ==
  ASSUME NEW s \in Seq(Byte), Len(s) >= 5, NEW a, EndsAt(Drop(s, 5), a)
  PROVE  /\ Drop(s, 5) \in Seq(Byte) /\ Len(Drop(s, 5)) = Len(s) - 5 /\ Len(s) \in Nat
         /\ a \in Nat /\ a >= 1 /\ 5 + a =< Len(s) /\ 5 + a \in 0 .. Len(s)
         /\ Drop(s, 5 + a) \in Seq(Byte) /\ Len(Drop(s, 5 + a)) = Len(s) - (5 + a)
<1>1. 5 \in 0 .. Len(s) /\ Len(s) \in Nat
  BY LenProperties
<1>2. Drop(s, 5) \in Seq(Byte) /\ Len(Drop(s, 5)) = Len(s) - 5
  BY <1>1, DropProperties
<1>3. a \in Nat /\ 1 =< a /\ a =< Len(Drop(s, 5))
  BY <1>2, EndsAtType
<1>4. 5 + a \in 0 .. Len(s) /\ 5 + a =< Len(s)
  BY <1>1, <1>2, <1>3
<1> QED BY <1>1, <1>2, <1>3, <1>4, DropProperties

(* The parts of a frame that begins s are within s. *)
LEMMA FrameAtType ==
  ASSUME NEW s \in Seq(Byte), NEW a, NEW b, FrameAt(s, a, b)
  PROVE  /\ a \in Nat /\ b \in Nat /\ a >= 1 /\ b >= 1 /\ LengthAt(s, a, b) \in Nat /\ Len(s) \in Nat
         /\ Drop(s, 5) \in Seq(Byte) /\ Drop(s, 5 + a) \in Seq(Byte)
         /\ 5 + a =< Len(s) /\ b =< Len(Drop(s, 5 + a))
<1>1. Len(s) >= 5 /\ EndsAt(Drop(s, 5), a) /\ EndsAt(Drop(s, 5 + a), b)
  BY DEF FrameAt
<1>2. /\ Drop(s, 5) \in Seq(Byte) /\ a \in Nat /\ a >= 1 /\ Drop(s, 5 + a) \in Seq(Byte) /\ Len(s) \in Nat
      /\ 5 + a =< Len(s)
  BY <1>1, HeaderEnds
<1>3. b \in Nat /\ 1 =< b /\ b =< Len(Drop(s, 5 + a)) /\ SubSeq(Drop(s, 5 + a), 1, b) \in Seq(Byte)
  BY <1>1, <1>2, EndsAtType
<1>4. LengthAt(s, a, b) \in Nat
  BY <1>3, VarintValueType DEF LengthAt
<1> QED BY <1>1, <1>2, <1>3, <1>4

(* What is read of it. *)
LEMMA FrameReadType ==
  ASSUME NEW s \in Seq(Byte), NEW a, NEW b, FrameAt(s, a, b)
  PROVE  /\ FrameRead(s, a, b).parsed \in 1 .. Len(s) /\ FrameRead(s, a, b).parsed \in Nat
         /\ FrameRead(s, a, b).parsed > 0
         /\ FrameRead(s, a, b).opcode \in Byte /\ FrameRead(s, a, b).payload \in Seq(Byte)
<1> DEFINE n == LengthAt(s, a, b)
           from == 5 + a + b
<1>1. a \in Nat /\ b \in Nat /\ n \in Nat /\ Len(s) \in Nat /\ Len(s) >= 5 /\ from + n =< Len(s)
  BY FrameAtType DEF FrameAt
<1>2. s[5] \in Byte
  BY <1>1, ByteAt
<1> HIDE DEF n
<1>3. SubSeq(s, from + 1, from + n) \in Seq(Byte)
  <2>1. from + 1 \in Nat /\ from + n \in Nat /\ 1 =< from + 1 /\ from + n =< Len(s) /\ from + 1 =< (from + n) + 1
    BY <1>1
  <2> HIDE DEF from
  <2> QED BY <2>1, SubSeqWithin
<1>4. from + n \in 1 .. Len(s) /\ from + n \in Nat /\ from + n > 0
  BY <1>1
<1>5. FrameRead(s, a, b) = [parsed |-> from + n, opcode |-> s[5], payload |-> SubSeq(s, from + 1, from + n)]
  BY DEF FrameRead, n
<1> HIDE DEF from
<1> QED BY <1>2, <1>3, <1>4, <1>5

(* readFrame() on bytes that a frame begins. *)
LEMMA ReadFrameAt ==
  ASSUME NEW s \in Seq(Byte), NEW a, NEW b, FrameAt(s, a, b)
  PROVE  ReadFrame(s) = FrameRead(s, a, b)
<1>1. /\ a \in Nat /\ b \in Nat /\ a >= 1 /\ b >= 1 /\ LengthAt(s, a, b) \in Nat /\ Len(s) \in Nat
      /\ Drop(s, 5) \in Seq(Byte) /\ Drop(s, 5 + a) \in Seq(Byte)
  BY FrameAtType
<1>2. /\ Len(s) >= 5 /\ SubSeq(s, 1, 2) = <<80, 87>>
      /\ EndsAt(Drop(s, 5), a) /\ EndsAt(Drop(s, 5 + a), b)
      /\ 5 + a + b + LengthAt(s, a, b) =< Len(s)
  BY DEF FrameAt, Magic
<1>3. ReadVarint(Drop(s, 5)) = Varint(Drop(s, 5), a) /\ ReadVarint(Drop(s, 5)).parsed = a
  BY <1>1, <1>2, ReadVarintEnds DEF Varint
<1>4. /\ ReadVarint(Drop(s, 5 + a)).parsed = b /\ ReadVarint(Drop(s, 5 + a)).value = LengthAt(s, a, b)
  BY <1>1, <1>2, ReadVarintEnds DEF Varint, LengthAt
<1>5. ~(Len(s) < 5) /\ a # 0 /\ b # 0 /\ ~(Len(s) - (5 + a + b) < LengthAt(s, a, b))
  BY <1>1, <1>2
<1> QED BY <1>2, <1>3, <1>4, <1>5, Zenon DEF ReadFrame, FrameRead, PW_MAGIC_BYTE_1, PW_MAGIC_BYTE_2

(* readFrame() on any bytes: more are needed, the magic is wrong, or a     *)
(* frame begins them (StreamClient.php:177-197).                           *)
LEMMA ReadFrameCases ==
  ASSUME NEW s \in Seq(Byte)
  PROVE  \/ ReadFrame(s) = Wait
         \/ ReadFrame(s) = BadMagic /\ Len(s) >= 5 /\ SubSeq(s, 1, 2) # Magic
         \/ \E a, b : FrameAt(s, a, b)
<1>0. Len(s) \in Nat
  BY LenProperties
<1>1. CASE Len(s) < 5
  BY <1>1 DEF ReadFrame
<1>2. CASE Len(s) >= 5 /\ SubSeq(s, 1, 2) # Magic
  <2>1. ~(Len(s) < 5)
    BY <1>0, <1>2
  <2> QED BY <1>2, <2>1 DEF ReadFrame, Magic, PW_MAGIC_BYTE_1, PW_MAGIC_BYTE_2
<1>3. CASE Len(s) >= 5 /\ SubSeq(s, 1, 2) = Magic
  <2> DEFINE id   == ReadVarint(Drop(s, 5))
             len  == ReadVarint(Drop(s, 5 + id.parsed))
             from == 5 + id.parsed + len.parsed
  <2>1. ReadFrame(s) = IF id.parsed = 0 \/ len.parsed = 0 THEN Wait
                       ELSE IF Len(s) - from < len.value THEN Wait
                       ELSE [parsed |-> from + len.value, opcode |-> s[5],
                             payload |-> SubSeq(s, from + 1, from + len.value)]
    <3>1. ~(Len(s) < 5) /\ SubSeq(s, 1, 2) = <<80, 87>>
      BY <1>0, <1>3 DEF Magic
    <3> QED BY <3>1, Zenon DEF ReadFrame, PW_MAGIC_BYTE_1, PW_MAGIC_BYTE_2
  <2>2. 5 \in 0 .. Len(s)
    BY <1>0, <1>3
  <2>3. Drop(s, 5) \in Seq(Byte)
    BY <2>2, DropProperties
  <2>4. CASE id = Wait
    <3>1. id.parsed = 0
      BY <2>4 DEF Wait
    <3> QED BY <2>1, <3>1, Zenon
  <2>5. CASE \E n : EndsAt(Drop(s, 5), n) /\ id = Varint(Drop(s, 5), n)
    <3>1. PICK a : EndsAt(Drop(s, 5), a) /\ id = Varint(Drop(s, 5), a)
      BY <2>5
    <3>2. id.parsed = a
      BY <3>1 DEF Varint
    <3>3. Drop(s, 5 + a) \in Seq(Byte) /\ a \in Nat /\ 5 + a =< Len(s)
      BY <1>3, <3>1, HeaderEnds
    <3>4. len = ReadVarint(Drop(s, 5 + a))
      BY <3>2
    <3> HIDE DEF len, id
    <3>5. CASE len = Wait
      <4>1. len.parsed = 0
        BY <3>5 DEF Wait
      <4> QED BY <2>1, <4>1, Zenon
    <3>6. CASE \E n : EndsAt(Drop(s, 5 + a), n) /\ len = Varint(Drop(s, 5 + a), n)
      <4>1. PICK b : EndsAt(Drop(s, 5 + a), b) /\ len = Varint(Drop(s, 5 + a), b)
        BY <3>6
      <4>2. len.parsed = b /\ len.value = LengthAt(s, a, b)
        BY <4>1 DEF Varint, LengthAt
      <4>3. b \in Nat /\ SubSeq(Drop(s, 5 + a), 1, b) \in Seq(Byte)
        BY <3>3, <4>1, EndsAtType
      <4>4. LengthAt(s, a, b) \in Nat
        BY <4>3, VarintValueType DEF LengthAt
      <4>5. CASE Len(s) - from < len.value
        BY <2>1, <4>5, Zenon
      <4>6. CASE ~(Len(s) - from < len.value)
        <5>1. 5 + a + b + LengthAt(s, a, b) =< Len(s)
          BY <1>0, <3>2, <3>3, <4>2, <4>3, <4>4, <4>6
        <5> QED BY <1>3, <3>1, <4>1, <5>1 DEF FrameAt
      <4> QED BY <4>5, <4>6
    <3> QED BY <3>3, <3>4, <3>5, <3>6, ReadVarintCases
  <2> QED BY <2>3, <2>4, <2>5, ReadVarintCases
<1> QED BY <1>0, <1>1, <1>2, <1>3

(* What a frame is read as does not depend on what comes after it. *)
LEMMA FrameAtFront ==
  ASSUME NEW s \in Seq(Byte), NEW t \in Seq(Byte), NEW a, NEW b, FrameAt(s, a, b)
  PROVE  FrameAt(s \o t, a, b) /\ FrameRead(s \o t, a, b) = FrameRead(s, a, b)
<1>1. /\ a \in Nat /\ b \in Nat /\ a >= 1 /\ b >= 1 /\ LengthAt(s, a, b) \in Nat /\ Len(s) \in Nat
      /\ Drop(s, 5) \in Seq(Byte) /\ Drop(s, 5 + a) \in Seq(Byte) /\ 5 + a =< Len(s)
  BY FrameAtType
<1>2. /\ Len(s) >= 5 /\ SubSeq(s, 1, 2) = Magic
      /\ EndsAt(Drop(s, 5), a) /\ EndsAt(Drop(s, 5 + a), b)
      /\ 5 + a + b + LengthAt(s, a, b) =< Len(s)
  BY DEF FrameAt
<1>3. /\ s \o t \in Seq(Byte) /\ Len(s \o t) = Len(s) + Len(t) /\ Len(t) \in Nat
      /\ \A i \in 1 .. Len(s) : (s \o t)[i] = s[i]
  BY Joined
<1>4. Drop(s \o t, 5) = Drop(s, 5) \o t /\ Drop(s \o t, 5 + a) = Drop(s, 5 + a) \o t
  <2>1. 5 \in 0 .. Len(s) /\ 5 + a \in 0 .. Len(s)
    BY <1>1, <1>2
  <2> QED BY <2>1, DropOfFront
<1>5. /\ EndsAt(Drop(s \o t, 5), a) /\ EndsAt(Drop(s \o t, 5 + a), b)
      /\ LengthAt(s \o t, a, b) = LengthAt(s, a, b)
  <2>1. EndsAt(Drop(s, 5) \o t, a)
    BY <1>1, <1>2, EndsAtFront
  <2>2. /\ EndsAt(Drop(s, 5 + a) \o t, b)
        /\ SubSeq(Drop(s, 5 + a) \o t, 1, b) = SubSeq(Drop(s, 5 + a), 1, b)
    BY <1>1, <1>2, EndsAtFront
  <2> QED BY <1>4, <2>1, <2>2, Zenon DEF LengthAt
<1>6. SubSeq(s \o t, 1, 2) = Magic
  <2>1. SubSeq(s \o t, 1, 2) = SubSeq(s, 1, 2)
    BY <1>1, <1>2, SubSeqOfFront
  <2> QED BY <1>2, <2>1
<1>7. (s \o t)[5] = s[5]
  BY <1>1, <1>2, <1>3
<1> DEFINE from == 5 + a + b
           n == LengthAt(s, a, b)
<1>8. SubSeq(s \o t, from + 1, from + n) = SubSeq(s, from + 1, from + n)
  <2>1. from + 1 \in Nat /\ from + n \in Nat /\ 1 =< from + 1 /\ from + n =< Len(s) /\ from + 1 =< (from + n) + 1
    BY <1>1, <1>2
  <2> HIDE DEF from, n
  <2> QED BY <2>1, SubSeqOfFront
<1>9. Len(s \o t) >= 5 /\ 5 + a + b + LengthAt(s, a, b) =< Len(s \o t)
  BY <1>1, <1>2, <1>3
<1>10. FrameAt(s \o t, a, b)
  BY <1>5, <1>6, <1>9, Zenon DEF FrameAt
<1>11. FrameRead(s \o t, a, b) = FrameRead(s, a, b)
  BY <1>5, <1>7, <1>8, Zenon DEF FrameRead
<1> QED BY <1>10, <1>11

(* A frame that is there is read as the same frame whatever arrives behind *)
(* it.                                                                     *)
LEMMA ReadFrameStable ==
  ASSUME NEW s \in Seq(Byte), NEW t \in Seq(Byte), ReadFrame(s).parsed > 0
  PROVE  /\ ReadFrame(s \o t) = ReadFrame(s)
         /\ ReadFrame(s).parsed \in 1 .. Len(s) /\ ReadFrame(s).parsed \in Nat
         /\ ReadFrame(s).opcode \in Byte /\ ReadFrame(s).payload \in Seq(Byte)
<1>1. ReadFrame(s) # Wait /\ ReadFrame(s) # BadMagic
  BY DEF Wait, BadMagic
<1>2. PICK a, b : FrameAt(s, a, b)
  BY <1>1, ReadFrameCases
<1>3. ReadFrame(s) = FrameRead(s, a, b)
  BY <1>2, ReadFrameAt
<1>4. s \o t \in Seq(Byte)
  BY Joined
<1>5. FrameAt(s \o t, a, b) /\ FrameRead(s \o t, a, b) = FrameRead(s, a, b)
  BY <1>2, FrameAtFront
<1>6. ReadFrame(s \o t) = FrameRead(s \o t, a, b)
  BY <1>4, <1>5, ReadFrameAt
<1> QED BY <1>2, <1>3, <1>5, <1>6, FrameReadType

(* What ReadFrame returns: nothing yet, an error, or a frame. *)
LEMMA ReadFrameParsed ==
  ASSUME NEW s \in Seq(Byte)
  PROVE  \/ ReadFrame(s).parsed = 0
         \/ ReadFrame(s).parsed = -1 /\ Len(s) >= 5 /\ SubSeq(s, 1, 2) # Magic
         \/ /\ ReadFrame(s).parsed > 0 /\ ReadFrame(s).parsed \in 1 .. Len(s)
            /\ ReadFrame(s).opcode \in Byte /\ ReadFrame(s).payload \in Seq(Byte)
<1>1. ASSUME NEW a, NEW b, FrameAt(s, a, b)
      PROVE  /\ ReadFrame(s).parsed > 0 /\ ReadFrame(s).parsed \in 1 .. Len(s)
             /\ ReadFrame(s).opcode \in Byte /\ ReadFrame(s).payload \in Seq(Byte)
  <2>1. ReadFrame(s) = FrameRead(s, a, b)
    BY <1>1, ReadFrameAt
  <2> QED BY <1>1, <2>1, FrameReadType
<1>2. ReadFrame(s) = Wait => ReadFrame(s).parsed = 0
  BY DEF Wait
<1>3. ReadFrame(s) = BadMagic => ReadFrame(s).parsed = -1
  BY DEF BadMagic
<1> QED BY <1>1, <1>2, <1>3, ReadFrameCases
-----------------------------------------------------------------------------
(* Frames of either side. *)

(* A whole frame with this opcode and this payload, as either side writes  *)
(* it: five bytes, the stream id, the length, the payload.                 *)
Framed(w, h, e1, e2, id, opcode, payload) ==
  /\ h \in Seq(Byte) /\ Len(h) = 5 /\ SubSeq(h, 1, 2) = Magic /\ h[5] = opcode
  /\ WellEncoded(e1, id) /\ WellEncoded(e2, Len(payload)) /\ payload \in Seq(Byte)
  /\ w = h \o (e1 \o (e2 \o payload))

IsFrame(w, opcode, payload) == \E h, e1, e2, id : Framed(w, h, e1, e2, id, opcode, payload)

(* Both parsers, on a frame with anything after it. *)
LEMMA Associative ==
  \A r, s, t \in Seq(Byte) : (r \o s) \o t = r \o (s \o t)
<1> SUFFICES ASSUME NEW r \in Seq(Byte), NEW s \in Seq(Byte), NEW t \in Seq(Byte)
             PROVE  (r \o s) \o t = r \o (s \o t)
  OBVIOUS
<1> QED BY SMT

(* s begins with the frame w; the varints of w take m and n bytes. *)
ReadAs(s, w, m, n, id, opcode, payload) ==
  /\ w \in Seq(Byte) /\ Len(w) \in Nat /\ Len(w) >= 7 /\ SubSeq(w, 1, 2) = Magic
  /\ ReadFrame(s) = [parsed |-> Len(w), opcode |-> opcode, payload |-> payload]
  /\ Len(s) >= 5 /\ SubSeq(s, 1, 2) = Magic /\ s[5] = opcode
  /\ DecodeVarint(Drop(s, 5)) = [parsed |-> m, value |-> id]
  /\ DecodeVarint(Drop(s, 5 + m)) = [parsed |-> n, value |-> Len(payload)]
  /\ m \in Nat /\ n \in Nat /\ m >= 1 /\ n >= 1
  /\ 5 + m + n + Len(payload) = Len(w) /\ Len(payload) \in Nat /\ payload \in Seq(Byte)
  /\ SubSeq(s, 5 + m + n + 1, Len(w)) = payload

(* A whole frame is read as what it was made of, by readFrame() and by the *)
(* parts of pw_frame_parse_header, whatever follows it.                    *)
LEMMA FramedRead ==
  ASSUME NEW w, NEW h, NEW e1, NEW e2, NEW id, NEW opcode, NEW payload, NEW t \in Seq(Byte),
         Framed(w, h, e1, e2, id, opcode, payload)
  PROVE  ReadAs(w \o t, w, Len(e1), Len(e2), id, opcode, payload)
<1>1. /\ h \in Seq(Byte) /\ Len(h) = 5 /\ SubSeq(h, 1, 2) = Magic /\ h[5] = opcode
      /\ WellEncoded(e1, id) /\ WellEncoded(e2, Len(payload)) /\ payload \in Seq(Byte)
      /\ w = h \o (e1 \o (e2 \o payload))
  BY DEF Framed
<1>2. /\ e1 \in Seq(Byte) /\ Len(e1) \in Nat /\ Len(e1) >= 1
      /\ e2 \in Seq(Byte) /\ Len(e2) \in Nat /\ Len(e2) >= 1
  <2>1. Len(e1) \in 1 .. 5 /\ Len(e2) \in 1 .. 5 /\ e1 \in Seq(Byte) /\ e2 \in Seq(Byte)
    BY <1>1 DEF WellEncoded, VarintBytes
  <2> QED BY <2>1
<1> DEFINE p2 == e2 \o payload
           p1 == e1 \o p2
<1>3. p2 \in Seq(Byte) /\ Len(p2) = Len(e2) + Len(payload) /\ Len(payload) \in Nat
  BY <1>1, <1>2, Joined
<1>4. p1 \in Seq(Byte) /\ Len(p1) = Len(e1) + Len(p2)
  BY <1>2, <1>3, Joined
<1>5. w = h \o p1 /\ w \in Seq(Byte) /\ Len(w) = Len(h) + Len(p1)
  BY <1>1, <1>4, Joined
<1>6. Len(w) = 5 + Len(e1) + Len(e2) + Len(payload) /\ Len(w) \in Nat /\ Len(w) >= 7
  BY <1>1, <1>2, <1>3, <1>4, <1>5
<1> DEFINE s == w \o t
           q3 == payload \o t
           q2 == e2 \o q3
           q1 == e1 \o q2
<1>7. q3 \in Seq(Byte) /\ q2 \in Seq(Byte) /\ q1 \in Seq(Byte) /\ s \in Seq(Byte)
  BY <1>1, <1>2, <1>5, Joined
<1>8. s = h \o q1
  <2>1. p2 \o t = q2
    BY <1>1, <1>2, Associative, Zenon
  <2>2. p1 \o t = e1 \o (p2 \o t)
    <3> HIDE DEF p2
    <3> QED BY <1>2, <1>3, Associative, Zenon
  <2>3. s = h \o (p1 \o t)
    <3> HIDE DEF p1
    <3>1. (h \o p1) \o t = h \o (p1 \o t)
      BY <1>1, <1>4, Associative
    <3> QED BY <1>5, <3>1, Zenon
  <2> HIDE DEF p1, p2, q2
  <2> QED BY <2>1, <2>2, <2>3
<1> HIDE DEF p1, p2
<1>9. Drop(s, 5) = q1
  <2> HIDE DEF q1, s
  <2> QED BY <1>1, <1>7, <1>8, DropFront
<1> DEFINE k1 == 5 + Len(e1)
           k2 == k1 + Len(e2)
<1>10. Len(s) = Len(w) + Len(t) /\ Len(t) \in Nat
  BY <1>5, Joined
<1>11. Drop(s, k1) = q2
  <2> HIDE DEF q1, q2, s
  <2>1. Drop(Drop(s, 5), Len(e1)) = Drop(s, 5 + Len(e1))
    <3>1. 5 + Len(e1) =< Len(s) /\ 5 \in Nat
      BY <1>2, <1>3, <1>6, <1>10
    <3> QED BY <1>2, <1>7, <3>1, DropDrop
  <2>2. Drop(q1, Len(e1)) = q2
    BY <1>2, <1>7, DropFront DEF q1
  <2> QED BY <1>9, <2>1, <2>2
<1>12. Drop(s, k2) = q3
  <2> HIDE DEF q2, q3, s
  <2>1. Drop(Drop(s, k1), Len(e2)) = Drop(s, k1 + Len(e2))
    <3>1. k1 + Len(e2) =< Len(s) /\ k1 \in Nat
      BY <1>2, <1>3, <1>6, <1>10
    <3> HIDE DEF k1
    <3> QED BY <1>2, <1>7, <3>1, DropDrop
  <2>2. Drop(q2, Len(e2)) = q3
    BY <1>2, <1>7, DropFront DEF q2
  <2> QED BY <1>11, <2>1, <2>2
<1>13. /\ ReadVarint(q1) = [parsed |-> Len(e1), value |-> id]
       /\ DecodeVarint(q1) = [parsed |-> Len(e1), value |-> id]
  <2> HIDE DEF q2
  <2> QED BY <1>1, <1>7, WellEncodedRead
<1>14. /\ ReadVarint(q2) = [parsed |-> Len(e2), value |-> Len(payload)]
       /\ DecodeVarint(q2) = [parsed |-> Len(e2), value |-> Len(payload)]
  <2> HIDE DEF q3
  <2> QED BY <1>1, <1>7, WellEncodedRead
<1>15. SubSeq(s, k2 + 1, k2 + Len(payload)) = payload
  <2>1. SubSeq(Drop(s, k2), 1, Len(payload)) = payload
    BY <1>1, <1>12, FrontOf
  <2>2. SubSeq(Drop(s, k2), 1, Len(payload)) = SubSeq(s, k2 + 1, k2 + Len(payload))
    <3> HIDE DEF s
    <3> DEFINE d == Drop(s, k2)
               a == SubSeq(d, 1, Len(payload))
               b == SubSeq(s, k2 + 1, k2 + Len(payload))
    <3>1. k2 \in Nat /\ k2 \in 0 .. Len(s) /\ k2 + Len(payload) =< Len(s) /\ Len(s) \in Nat
      BY <1>2, <1>3, <1>6, <1>10
    <3> HIDE DEF k2
    <3>2. d \in Seq(Byte) /\ Len(d) = Len(s) - k2 /\ \A i \in 1 .. Len(s) - k2 : d[i] = s[k2 + i]
      BY <1>7, <3>1, DropProperties
    <3> HIDE DEF d
    <3>3. a \in Seq(Byte) /\ Len(a) = Len(payload) /\ \A i \in 1 .. Len(payload) : a[i] = d[i]
      <4>1. Len(payload) \in 0 .. Len(d)
        BY <1>3, <3>1, <3>2
      <4> QED BY <3>2, <4>1, FrontAndRest
    <3>4. /\ b \in Seq(Byte) /\ Len(b) = (k2 + Len(payload)) - (k2 + 1) + 1
          /\ \A i \in 1 .. (k2 + Len(payload)) - (k2 + 1) + 1 : b[i] = s[(k2 + 1) + i - 1]
      <4>1. k2 + 1 \in Nat /\ k2 + Len(payload) \in Nat /\ 1 =< k2 + 1 /\ k2 + 1 =< (k2 + Len(payload)) + 1
        BY <1>3, <3>1
      <4> QED BY <1>7, <3>1, <4>1, SubSeqWithin
    <3>5. (k2 + Len(payload)) - (k2 + 1) + 1 = Len(payload) /\ \A i \in 1 .. Len(payload) : (k2 + 1) + i - 1 = k2 + i
      BY <1>3, <3>1
    <3> HIDE DEF a, b
    <3>6. \A i \in 1 .. Len(a) : a[i] = b[i]
      <4> SUFFICES ASSUME NEW i \in 1 .. Len(payload) PROVE a[i] = b[i]
        BY <3>3
      <4>1. i \in 1 .. Len(s) - k2
        BY <1>3, <3>1
      <4>2. b[i] = s[k2 + i]
        BY <3>4, <3>5
      <4> QED BY <3>2, <3>3, <4>1, <4>2
    <3>7. a = b
      BY <3>3, <3>4, <3>5, <3>6, SeqEqual
    <3> QED BY <3>7 DEF a, b, d
  <2> QED BY <2>1, <2>2
<1>16. Len(s) >= 5 /\ SubSeq(s, 1, 2) = Magic /\ s[5] = opcode
  <2>1. SubSeq(h \o q1, 1, 2) = SubSeq(h, 1, 2) /\ (h \o q1)[5] = h[5]
    <3> HIDE DEF q1
    <3>1. 5 \in 1 .. Len(h) /\ 2 =< Len(h) /\ 1 =< 2 + 1
      BY <1>1
    <3>2. 1 \in Nat /\ 2 \in Nat /\ 1 =< 1
      OBVIOUS
    <3>3. SubSeq(h \o q1, 1, 2) = SubSeq(h, 1, 2)
      BY <1>1, <1>7, <3>1, <3>2, SubSeqOfFront, Zenon
    <3>4. \A i \in 1 .. Len(h) : (h \o q1)[i] = h[i]
      <4>1. h \in Seq(Byte) /\ q1 \in Seq(Byte)
        BY <1>1, <1>7
      <4> QED BY <4>1, Joined, Zenon
    <3> QED BY <3>1, <3>3, <3>4, Zenon
  <2>2. Len(s) >= 5
    BY <1>6, <1>10
  <2> QED BY <1>1, <1>8, <2>1, <2>2
<1>17. SubSeq(w, 1, 2) = Magic
  <2>1. 2 =< Len(h) /\ 1 =< 2 + 1
    BY <1>1
  <2> QED BY <1>1, <1>4, <1>5, <2>1, SubSeqOfFront
<1>18. ReadFrame(s) = [parsed |-> Len(w), opcode |-> opcode, payload |-> payload]
  <2> HIDE DEF s, q1, q2, q3, k1, k2
  <2>1. ReadVarint(Drop(s, 5)).parsed = Len(e1)
    BY <1>9, <1>13
  <2>2. ReadVarint(Drop(s, 5 + Len(e1))).parsed = Len(e2) /\ ReadVarint(Drop(s, 5 + Len(e1))).value = Len(payload)
    BY <1>11, <1>14 DEF k1
  <2>3. ~(Len(s) < 5) /\ SubSeq(s, 1, 2) = <<80, 87>> /\ Len(e1) # 0 /\ Len(e2) # 0
    BY <1>2, <1>6, <1>10, <1>16 DEF Magic
  <2>4. ~(Len(s) - (5 + Len(e1) + Len(e2)) < Len(payload)) /\ 5 + Len(e1) + Len(e2) + Len(payload) = Len(w)
    BY <1>2, <1>3, <1>6, <1>10
  <2>5. SubSeq(s, 5 + Len(e1) + Len(e2) + 1, 5 + Len(e1) + Len(e2) + Len(payload)) = payload
    BY <1>15 DEF k1, k2
  <2>6. ReadFrame(s) = [parsed |-> 5 + Len(e1) + Len(e2) + Len(payload), opcode |-> s[5],
                        payload |-> SubSeq(s, 5 + Len(e1) + Len(e2) + 1, 5 + Len(e1) + Len(e2) + Len(payload))]
    BY <2>1, <2>2, <2>3, <2>4, Zenon DEF ReadFrame, PW_MAGIC_BYTE_1, PW_MAGIC_BYTE_2
  <2> QED BY <1>16, <2>4, <2>5, <2>6, Zenon
<1>19. /\ DecodeVarint(Drop(s, 5)) = [parsed |-> Len(e1), value |-> id]
       /\ DecodeVarint(Drop(s, 5 + Len(e1))) = [parsed |-> Len(e2), value |-> Len(payload)]
  <2> HIDE DEF q1, q2, s
  <2> QED BY <1>9, <1>11, <1>13, <1>14 DEF k1
<1>20. SubSeq(s, 5 + Len(e1) + Len(e2) + 1, Len(w)) = payload
  <2> HIDE DEF s
  <2> QED BY <1>6, <1>15 DEF k1, k2
<1> HIDE DEF k1, k2, q1, q2, q3
<1>21. /\ w \in Seq(Byte) /\ Len(w) \in Nat /\ Len(w) >= 7
       /\ 5 + Len(e1) + Len(e2) + Len(payload) = Len(w)
  BY <1>5, <1>6
<1> HIDE DEF s
<1>22. ReadAs(s, w, Len(e1), Len(e2), id, opcode, payload)
  BY <1>1, <1>2, <1>3, <1>16, <1>17, <1>18, <1>19, <1>20, <1>21, Zenon DEF ReadAs
<1> QED BY <1>22 DEF s
-----------------------------------------------------------------------------
(* Frames one after the other. *)

(* w is what enc makes of fs, one after the other: rest[i] is what is left *)
(* of w behind the first i of them.                                        *)
Chain(w, fs, enc, X) ==
  \E rest \in [0 .. Len(fs) -> Seq(X)] :
    /\ rest[0] = w /\ rest[Len(fs)] = << >>
    /\ \A i \in 1 .. Len(fs) : rest[i - 1] = enc[fs[i]] \o rest[i]

(* A chain is bytes. *)
LEMMA ChainType ==
  ASSUME NEW X, NEW w, NEW fs, NEW enc, Len(fs) \in Nat, Chain(w, fs, enc, X)
  PROVE  w \in Seq(X)
<1>1. PICK rest \in [0 .. Len(fs) -> Seq(X)] : rest[0] = w
  BY DEF Chain
<1>2. 0 \in 0 .. Len(fs)
  OBVIOUS
<1> QED BY <1>1, <1>2

(* Nothing is the chain of no frames ... *)
LEMMA ChainNone ==
  ASSUME NEW X, NEW enc
  PROVE  Chain(<< >>, << >>, enc, X)
<1> DEFINE rest == [i \in 0 .. 0 |-> << >>]
<1>1. Len(<< >>) = 0 /\ << >> \in Seq(X)
  OBVIOUS
<1>2. rest \in [0 .. 0 -> Seq(X)] /\ rest[0] = << >>
  BY <1>1
<1>3. \A i \in 1 .. 0 : rest[i - 1] = enc[<< >>[i]] \o rest[i]
  OBVIOUS
<1> HIDE DEF rest
<1> QED BY <1>1, <1>2, <1>3, Zenon DEF Chain

(* ... and of nothing else. *)
LEMMA ChainOfNone ==
  ASSUME NEW X, NEW w, NEW enc, Chain(w, << >>, enc, X)
  PROVE  w = << >>
<1>1. Len(<< >>) = 0
  OBVIOUS
<1> QED BY <1>1, Zenon DEF Chain

(* The first frame of a chain, and the chain of the others. *)
LEMMA ChainHead ==
  ASSUME NEW X, NEW F, NEW w, NEW fs \in Seq(F), NEW enc, fs # << >>, Chain(w, fs, enc, X)
  PROVE  \E v \in Seq(X) : w = enc[fs[1]] \o v /\ Chain(v, Tail(fs), enc, X)
<1>1. PICK rest \in [0 .. Len(fs) -> Seq(X)] :
        /\ rest[0] = w /\ rest[Len(fs)] = << >>
        /\ \A i \in 1 .. Len(fs) : rest[i - 1] = enc[fs[i]] \o rest[i]
  BY DEF Chain
<1>2. Len(fs) \in Nat /\ Len(fs) >= 1
  BY EmptySeq, LenProperties
<1>3. /\ Tail(fs) \in Seq(F) /\ Len(Tail(fs)) = Len(fs) - 1
      /\ \A i \in 1 .. Len(Tail(fs)) : Tail(fs)[i] = fs[i + 1]
  BY HeadTailProperties
<1> DEFINE t == Tail(fs)
           n == Len(fs) - 1
           tails == [i \in 0 .. n |-> rest[i + 1]]
<1> HIDE DEF t
<1>4. tails \in [0 .. n -> Seq(X)]
  BY <1>2
<1>5. tails[0] = rest[1] /\ tails[n] = << >>
  BY <1>1, <1>2
<1>6. ASSUME NEW i \in 1 .. n PROVE tails[i - 1] = enc[t[i]] \o tails[i]
  <2>1. i + 1 \in 1 .. Len(fs) /\ i - 1 \in 0 .. n /\ i \in 0 .. n /\ (i + 1) - 1 = i /\ (i - 1) + 1 = i
    BY <1>2
  <2>2. t[i] = fs[i + 1]
    BY <1>3 DEF t
  <2>3. rest[(i + 1) - 1] = enc[fs[i + 1]] \o rest[i + 1]
    BY <1>1, <2>1
  <2>4. tails[i - 1] = rest[i] /\ tails[i] = rest[i + 1]
    BY <2>1
  <2> HIDE DEF tails
  <2> QED BY <2>1, <2>2, <2>3, <2>4
<1> HIDE DEF tails, n
<1>7. Len(t) = n
  BY <1>3 DEF t, n
<1>8. Chain(rest[1], t, enc, X)
  BY <1>4, <1>5, <1>6, <1>7, Zenon DEF Chain
<1>9. rest[1] \in Seq(X) /\ w = enc[fs[1]] \o rest[1]
  <2>1. 1 \in 0 .. Len(fs) /\ 1 \in 1 .. Len(fs) /\ 1 - 1 = 0
    BY <1>2
  <2> QED BY <1>1, <2>1
<1> QED BY <1>8, <1>9 DEF t

(* One frame more at the end of a chain. *)
LEMMA ChainAppend ==
  ASSUME NEW X, NEW F, NEW w, NEW fs \in Seq(F), NEW enc \in [F -> Seq(X)], NEW f \in F,
         Chain(w, fs, enc, X)
  PROVE  Chain(w \o enc[f], Append(fs, f), enc, X)
<1>1. PICK rest \in [0 .. Len(fs) -> Seq(X)] :
        /\ rest[0] = w /\ rest[Len(fs)] = << >>
        /\ \A i \in 1 .. Len(fs) : rest[i - 1] = enc[fs[i]] \o rest[i]
  BY DEF Chain
<1> DEFINE e == enc[f]
           t == Append(fs, f)
           n == Len(fs)
           tails == [i \in 0 .. n + 1 |-> IF i =< n THEN rest[i] \o e ELSE << >>]
<1>2. n \in Nat /\ e \in Seq(X)
  BY LenProperties
<1>3. Len(t) = n + 1 /\ (\A i \in 1 .. n : t[i] = fs[i]) /\ t[n + 1] = f
  BY AppendProperties
<1>4. ASSUME NEW i \in 0 .. n PROVE rest[i] \in Seq(X) /\ rest[i] \o e \in Seq(X)
  <2>1. rest[i] \in Seq(X)
    OBVIOUS
  <2> HIDE DEF e
  <2> QED BY <1>2, <2>1, ConcatProperties
<1>5. tails \in [0 .. n + 1 -> Seq(X)]
  <2> SUFFICES ASSUME NEW i \in 0 .. n + 1 PROVE (IF i =< n THEN rest[i] \o e ELSE << >>) \in Seq(X)
    OBVIOUS
  <2>1. i =< n => i \in 0 .. n
    BY <1>2
  <2>2. << >> \in Seq(X)
    OBVIOUS
  <2> HIDE DEF e, n
  <2> QED BY <1>4, <2>1, <2>2
<1>6. (\A i \in 0 .. n : tails[i] = rest[i] \o e) /\ tails[n + 1] = << >>
  BY <1>2
<1>8. tails[0] = w \o e
  BY <1>1, <1>2, <1>6
<1>9. ASSUME NEW i \in 1 .. n + 1 PROVE tails[i - 1] = enc[t[i]] \o tails[i]
  <2> HIDE DEF tails
  <2>1. CASE i =< n
    <3>1. i \in 1 .. n /\ i - 1 \in 0 .. n /\ i \in 0 .. n
      BY <1>2, <2>1
    <3>2. fs[i] \in F
      BY <3>1, ElementOfSeq
    <3>3. enc[fs[i]] \in Seq(X) /\ rest[i] \in Seq(X)
      BY <1>4, <3>1, <3>2
    <3> DEFINE d == enc[fs[i]]
               r == rest[i]
    <3>4. rest[i - 1] = d \o r /\ d \in Seq(X) /\ r \in Seq(X)
      BY <1>1, <3>1, <3>3
    <3>5. tails[i - 1] = rest[i - 1] \o e /\ tails[i] = r \o e /\ enc[t[i]] = d
      BY <1>3, <1>6, <3>1
    <3> HIDE DEF d, r, e
    <3>6. (d \o r) \o e = d \o (r \o e)
      <4>1. \A x, y, z \in Seq(X) : (x \o y) \o z = x \o (y \o z)
        <5> SUFFICES ASSUME NEW x \in Seq(X), NEW y \in Seq(X), NEW z \in Seq(X)
                     PROVE  (x \o y) \o z = x \o (y \o z)
          OBVIOUS
        <5> QED BY SMT
      <4> QED BY <1>2, <3>4, <4>1, Zenon
    <3> QED BY <3>4, <3>5, <3>6
  <2>2. CASE ~(i =< n)
    <3>1. i = n + 1 /\ i - 1 = n /\ n \in 0 .. n
      BY <1>2, <2>2
    <3>2. tails[i - 1] = rest[n] \o e /\ tails[i] = << >> /\ enc[t[i]] = e
      BY <1>3, <1>6, <3>1
    <3>3. rest[n] = << >>
      BY <1>1
    <3> HIDE DEF e, n
    <3>4. << >> \o e = e /\ e \o << >> = e
      BY <1>2, ConcatEmptySeq
    <3> QED BY <3>2, <3>3, <3>4
  <2> QED BY <2>1, <2>2
<1> HIDE DEF tails, e, t, n
<1>10. Chain(w \o e, t, enc, X)
  BY <1>3, <1>5, <1>6, <1>8, <1>9, Zenon DEF Chain
<1> QED BY <1>10 DEF e, t
-----------------------------------------------------------------------------
(* What either side writes. *)

ClientFrame == [opcode : Byte, payload : Seq(Byte)]

(* The AUTH payload, field by field (StreamClient.php:93-95). *)
LEMMA AuthPayloadFacts ==
  /\ token \in Seq(Byte) /\ Len(token) \in Nat
  /\ AuthPayload \in Seq(Byte) /\ Len(AuthPayload) = 5 + Len(token)
  /\ AuthPayload[1] = 1 /\ SubSeq(AuthPayload, 2, 5) = WriteBE(Len(token), 4)
  /\ SubSeq(AuthPayload, 6, 5 + Len(token)) = token
<1> DEFINE b == WriteBE(Len(token), 4)
           c == <<1>> \o b
           a == c \o token
<1>1. token \in Seq(Byte) /\ Len(token) \in Nat
  BY StreamClientAssumption, LenProperties
<1>2. b \in Seq(Byte) /\ Len(b) = 4
  BY <1>1, WriteFour
<1> HIDE DEF b
<1>3. c \in Seq(Byte) /\ Len(c) = 5 /\ c[1] = 1 /\ \A i \in 1 .. 4 : c[1 + i] = b[i]
  <2> DEFINE o == <<1>>
  <2>1. o \in Seq(Byte) /\ Len(o) = 1 /\ o[1] = 1
    BY Bytes
  <2> HIDE DEF o
  <2>2. Follows(o \o b, o, b, 1, 4)
    BY <1>2, <2>1, JoinedFollows
  <2>3. c = o \o b
    BY DEF o
  <2> HIDE DEF c
  <2>4. Follows(c, o, b, 1, 4)
    BY <2>2, <2>3
  <2> QED BY <2>1, <2>4 DEF Follows
<1> HIDE DEF c
<1>4. a = AuthPayload
  BY DEF AuthPayload, a, b, c
<1>5. /\ a \in Seq(Byte) /\ Len(a) = 5 + Len(token) /\ (\A i \in 1 .. 5 : a[i] = c[i])
  <2>1. Follows(a, c, token, 5, Len(token))
    BY <1>1, <1>3, JoinedFollows
  <2> HIDE DEF a
  <2> QED BY <2>1 DEF Follows
<1>6. SubSeq(a, 6, 5 + Len(token)) = token
  <2>1. Drop(a, Len(c)) = token
    BY <1>1, <1>3, DropFront
  <2> HIDE DEF a
  <2> QED BY <1>3, <1>5, <2>1 DEF Drop
<1> HIDE DEF a
<1>7. SubSeq(a, 2, 5) = b
  <2> DEFINE q == SubSeq(a, 2, 5)
  <2>1. q \in Seq(Byte) /\ Len(q) = 5 - 2 + 1 /\ \A i \in 1 .. 5 - 2 + 1 : q[i] = a[2 + i - 1]
    <3>1. 2 \in Nat /\ 5 \in Nat /\ 1 =< 2 /\ 5 =< Len(a) /\ 2 =< 5 + 1
      BY <1>1, <1>5
    <3>2. a \in Seq(Byte)
      BY <1>5
    <3> HIDE DEF a
    <3>3. SubSeq(a, 2, 5) \in Seq(Byte) /\ Len(SubSeq(a, 2, 5)) = 5 - 2 + 1
      BY <3>1, <3>2, SubSeqWithin
    <3>4. \A i \in 1 .. 5 - 2 + 1 : SubSeq(a, 2, 5)[i] = a[2 + i - 1]
      BY <3>1, <3>2, SubSeqWithin
    <3> QED BY <3>3, <3>4
  <2> HIDE DEF q
  <2>2. Len(q) = Len(b) /\ Len(b) = 4
    BY <1>2, <2>1
  <2>3. ASSUME NEW i \in 1 .. 4 PROVE q[i] = b[i]
    <3>1. i \in 1 .. 5 - 2 + 1 /\ 2 + i - 1 = 1 + i /\ 1 + i \in 1 .. 5
      OBVIOUS
    <3>2. q[i] = a[1 + i]
      BY <2>1, <3>1
    <3> QED BY <1>3, <1>5, <3>1, <3>2
  <2>4. q = b
    BY <1>2, <2>1, <2>2, <2>3, SeqEqual
  <2> QED BY <2>4 DEF q
<1>8. a[1] = 1
  BY <1>3, <1>5
<1> QED BY <1>1, <1>4, <1>5, <1>6, <1>7, <1>8 DEF b

(* A frame is bytes, whatever is sent. *)
LEMMA FrameBytesType ==
  ASSUME NEW op \in Byte, NEW p \in Seq(Byte)
  PROVE  FrameBytes(op, p) \in Seq(Byte)
<1>1. Len(p) \in Nat /\ LengthBytes[Len(p)] \in Seq(Byte)
  BY LenProperties, LengthBytesIsEncodeVarint
<1>2. <<80, 87, 1, 128, op, 0>> \in Seq(Byte)
  BY Bytes
<1> DEFINE h == <<80, 87, 1, 128, op, 0>>
           l == LengthBytes[Len(p)]
<1>3. FrameBytes(op, p) = (h \o l) \o p
  BY DEF FrameBytes, PW_MAGIC_BYTE_1, PW_MAGIC_BYTE_2, PW_VERSION_1, FLAG_FIN
<1> HIDE DEF h, l
<1>4. h \in Seq(Byte) /\ l \in Seq(Byte)
  BY <1>1, <1>2 DEF h, l
<1>5. h \o l \in Seq(Byte)
  BY <1>4, Joined
<1>6. (h \o l) \o p \in Seq(Byte)
  BY <1>5, Joined
<1> QED BY <1>3, <1>6

(* Five bytes that begin with the magic. *)
LEMMA FiveBytes ==
  ASSUME NEW a \in Byte, NEW b \in Byte, NEW c \in Byte
  PROVE  LET h == <<80, 87, a, b, c>>
         IN  h \in Seq(Byte) /\ Len(h) = 5 /\ h[5] = c /\ SubSeq(h, 1, 2) = Magic
<1> DEFINE h == <<80, 87, a, b, c>>
           m == <<80, 87>>
           r == <<a, b, c>>
<1>1. h = m \o r /\ m \in Seq(Byte) /\ r \in Seq(Byte) /\ Len(m) = 2 /\ h \in Seq(Byte) /\ Len(h) = 5 /\ h[5] = c
  BY Bytes
<1> HIDE DEF h, m, r
<1>2. SubSeq(m \o r, 1, Len(m)) = m
  BY <1>1, FrontOf
<1>3. SubSeq(h, 1, 2) = m
  BY <1>1, <1>2
<1> QED BY <1>1, <1>3 DEF Magic, h, m

(* What sendFrame() writes is a frame (StreamClient.php:151-175). *)
LEMMA FrameBytesFramed ==
  ASSUME NEW op \in Byte, NEW p \in Seq(Byte), Len(p) \in Word32
  PROVE  IsFrame(FrameBytes(op, p), op, p)
<1> DEFINE h == <<80, 87, 1, 128, op>>
           z == <<0>>
           e == EncodeVarint[Len(p)]
<1>1. h \in Seq(Byte) /\ Len(h) = 5 /\ h[5] = op /\ SubSeq(h, 1, 2) = Magic
  BY Bytes, FiveBytes
<1>2. WellEncoded(z, 0)
  BY SmallWellEncoded
<1>3. WellEncoded(e, Len(p)) /\ LengthBytes[Len(p)] = e
  <2>1. Len(p) \in Nat
    BY LenProperties
  <2> QED BY <2>1, EncodeWellEncoded, LengthBytesIsEncodeVarint
<1>4. FrameBytes(op, p) = (<<80, 87, 1, 128, op, 0>> \o e) \o p
  BY <1>3 DEF FrameBytes, PW_MAGIC_BYTE_1, PW_MAGIC_BYTE_2, PW_VERSION_1, FLAG_FIN
<1>5. <<80, 87, 1, 128, op, 0>> = h \o z
  BY Bytes
<1>6. e \in Seq(Byte) /\ z \in Seq(Byte)
  BY <1>2, <1>3 DEF WellEncoded
<1> HIDE DEF h, z, e
<1>7. FrameBytes(op, p) = ((h \o z) \o e) \o p
  BY <1>4, <1>5
<1>8. h \o z \in Seq(Byte)
  BY <1>1, <1>6, Joined
<1>9. ((h \o z) \o e) \o p = (h \o z) \o (e \o p) /\ e \o p \in Seq(Byte)
  BY <1>6, <1>8, Associative, Joined
<1>10. (h \o z) \o (e \o p) = h \o (z \o (e \o p))
  BY <1>1, <1>6, <1>9, Associative
<1>11. Framed(FrameBytes(op, p), h, z, e, 0, op, p)
  BY <1>1, <1>2, <1>3, <1>7, <1>9, <1>10, Zenon DEF Framed
<1> QED BY <1>11 DEF IsFrame

(* What the peer sends are bytes. *)
LEMMA PeerFrameType ==
  ASSUME NEW f \in PeerFrames
  PROVE  PeerFrame(f) \in Seq(Byte) /\ f.opcode \in Byte /\ f.payload \in Seq(Byte)
<1>1. f.opcode \in Byte /\ f.stream_id \in Nat /\ f.payload \in Seq(Byte) /\ Len(f.payload) \in Nat
  BY StreamClientAssumption, LenProperties
<1> DEFINE h == <<80, 87, 1, 16, f.opcode>>
           e1 == EncodeVarint[f.stream_id]
           e2 == EncodeVarint[Len(f.payload)]
           w == (h \o e1) \o e2
<1>2. h \in Seq(Byte)
  BY <1>1, Bytes
<1>3. e1 \in Seq(Byte) /\ e2 \in Seq(Byte)
  BY <1>1, EncodeVarintStep
<1>4. PeerFrame(f) = Fit(w, 4096) \o f.payload
  BY DEF PeerFrame, SerializeHeader, PW_MAGIC_BYTE_1, PW_MAGIC_BYTE_2, PW_VERSION_1
<1> HIDE DEF h, e1, e2
<1>5. h \o e1 \in Seq(Byte)
  BY <1>2, <1>3, Joined
<1>6. w \in Seq(Byte)
  BY <1>3, <1>5, Joined
<1> HIDE DEF w
<1>7. Fit(w, 4096) \in Seq(Byte)
  BY <1>6 DEF Fit
<1> DEFINE v == Fit(w, 4096)
<1> HIDE DEF v
<1>8. v \o f.payload \in Seq(Byte)
  BY <1>1, <1>7, Joined DEF v
<1> QED BY <1>1, <1>4, <1>8 DEF v

(* What pw_frame_serialize_header and a payload make is a frame            *)
(* (pw_frame.c:24-41).                                                     *)
LEMMA PeerFrameFramed ==
  ASSUME NEW f \in PeerFrames, f.stream_id \in Word32, Len(f.payload) \in Word32
  PROVE  IsFrame(PeerFrame(f), f.opcode, f.payload)
<1>1. f.opcode \in Byte /\ f.stream_id \in Nat /\ f.payload \in Seq(Byte)
  BY StreamClientAssumption
<1> DEFINE h == <<80, 87, 1, 16, f.opcode>>
           e1 == EncodeVarint[f.stream_id]
           e2 == EncodeVarint[Len(f.payload)]
           w == (h \o e1) \o e2
           p == f.payload
<1>2. h \in Seq(Byte) /\ Len(h) = 5 /\ h[5] = f.opcode /\ SubSeq(h, 1, 2) = Magic
  BY <1>1, Bytes, FiveBytes
<1>3. WellEncoded(e1, f.stream_id) /\ WellEncoded(e2, Len(p))
  BY EncodeWellEncoded
<1>4. PeerFrame(f) = Fit(w, 4096) \o p
  BY DEF PeerFrame, SerializeHeader, PW_MAGIC_BYTE_1, PW_MAGIC_BYTE_2, PW_VERSION_1
<1>5. e1 \in Seq(Byte) /\ e2 \in Seq(Byte) /\ Len(e1) \in 1 .. 5 /\ Len(e2) \in 1 .. 5
  BY <1>3 DEF WellEncoded, VarintBytes
<1> HIDE DEF h, e1, e2
<1> DEFINE c == h \o e1
<1>6. c \in Seq(Byte) /\ Len(c) = Len(h) + Len(e1)
  BY <1>2, <1>5, Joined
<1>7. c \o e2 \in Seq(Byte) /\ Len(c \o e2) = Len(c) + Len(e2)
  <2> HIDE DEF c
  <2> QED BY <1>5, <1>6, Joined
<1>8. Len(w) =< 4096
  <2>1. Len(e1) \in Nat /\ Len(e1) =< 5 /\ Len(e2) \in Nat /\ Len(e2) =< 5
    <3>1. \A n \in 1 .. 5 : n \in Nat /\ n =< 5
      OBVIOUS
    <3> QED BY <1>5, <3>1, Zenon
  <2>2. Len(w) = (5 + Len(e1)) + Len(e2)
    BY <1>2, <1>6, <1>7
  <2> HIDE DEF w
  <2> QED BY <2>1, <2>2, SMT
<1>9. PeerFrame(f) = (c \o e2) \o p
  <2>1. w = c \o e2
    OBVIOUS
  <2> DEFINE v == Fit(w, 4096)
  <2> HIDE DEF w, p, c
  <2>2. v = w
    BY <1>8, SMT DEF Fit
  <2>3. PeerFrame(f) = v \o p
    BY <1>4
  <2> HIDE DEF v
  <2>4. PeerFrame(f) = w \o p
    BY <2>2, <2>3
  <2>5. w \o p = (c \o e2) \o p
    BY <2>1
  <2> QED BY <2>4, <2>5
<1> HIDE DEF w, p
<1>10. p \in Seq(Byte)
  BY <1>1 DEF p
<1>11. (c \o e2) \o p = c \o (e2 \o p) /\ e2 \o p \in Seq(Byte)
  <2> HIDE DEF c
  <2> QED BY <1>5, <1>6, <1>10, Associative, Joined
<1>12. c \o (e2 \o p) = h \o (e1 \o (e2 \o p))
  BY <1>2, <1>5, <1>11, Associative
<1> HIDE DEF c
<1>13. PeerFrame(f) = h \o (e1 \o (e2 \o p))
  BY <1>9, <1>11, <1>12
<1>14. Framed(PeerFrame(f), h, e1, e2, f.stream_id, f.opcode, p)
  BY <1>2, <1>3, <1>10, <1>13, Zenon DEF Framed, p
<1> QED BY <1>14 DEF IsFrame, p
-----------------------------------------------------------------------------
(* The codecs read back what they wrote. *)

(* Every 32-bit number that pw_varint_encode32 or sendFrame() encodes is   *)
(* read back by pw_varint_decode32 and by readVarint(), whatever follows   *)
(* it (pw_varint.c:3-36, StreamClient.php:162-170, 199-210).               *)
THEOREM VarintsReadBack ==
  ASSUME NEW v \in Word32, NEW t \in Seq(Byte)
  PROVE  /\ LengthBytes[v] = EncodeVarint[v]
         /\ DecodeVarint(EncodeVarint[v] \o t) = [parsed |-> Len(EncodeVarint[v]), value |-> v]
         /\ ReadVarint(EncodeVarint[v] \o t) = [parsed |-> Len(EncodeVarint[v]), value |-> v]
<1>1. v \in Nat
  BY Word32Facts
<1>2. LengthBytes[v] = EncodeVarint[v]
  BY <1>1, LengthBytesIsEncodeVarint
<1>3. WellEncoded(EncodeVarint[v], v)
  BY EncodeWellEncoded
<1> QED BY <1>2, <1>3, WellEncodedRead

(* The stream client takes the frame the server wrote, and no byte of what *)
(* follows it (StreamClient.php:177-197, pw_frame.c:24-41).                *)
THEOREM FramesReadBack ==
  ASSUME NEW f \in PeerFrames, f.stream_id \in Word32, Len(f.payload) \in Word32, NEW t \in Seq(Byte)
  PROVE  ReadFrame(PeerFrame(f) \o t) =
           [parsed |-> Len(PeerFrame(f)), opcode |-> f.opcode, payload |-> f.payload]
<1> DEFINE w == PeerFrame(f)
           opcode == f.opcode
           payload == f.payload
<1>1. IsFrame(w, opcode, payload)
  BY PeerFrameFramed
<1> HIDE DEF w, opcode, payload
<1>2. PICK h, e1, e2, id : Framed(w, h, e1, e2, id, opcode, payload)
  BY <1>1 DEF IsFrame
<1>3. ReadAs(w \o t, w, Len(e1), Len(e2), id, opcode, payload)
  BY <1>2, FramedRead
<1> QED BY <1>3 DEF ReadAs, w, opcode, payload
-----------------------------------------------------------------------------
(* Types. *)

StreamTypeOK ==
  /\ pc \in {"app", "hello", "auth", "receive"} /\ stream \in {"none", "open"} /\ blocking \in BOOLEAN
  /\ out \in Seq(Byte) /\ sent \in Seq(ClientFrame) /\ got \in Seq(Seq(Byte))
  /\ flight \in Seq(Byte) /\ inq \in Seq(Byte) /\ ended \in BOOLEAN
  /\ status \in {-1} \cup Status /\ said \in Seq(Seq(Byte))
  /\ count \in [sends : Nat, frames : Nat, cuts : Nat]

(* receive() by the opcode of what it has read (StreamClient.php:124-140). *)
LEMMA FrameArrivesCases ==
  ASSUME FrameArrives
  PROVE  LET f == ReadFrame(inq)
         IN  /\ pc = "receive" /\ f.parsed > 0 /\ inq' = Drop(inq, f.parsed)
             /\ UNCHANGED <<blocking, flight, ended, status, said, count>>
             /\ \/ f.opcode = OPCODE_CLOSE /\ CloseStream /\ got' = got
                \/ f.opcode = OPCODE_PING /\ SendFrame(OPCODE_PONG, << >>) /\ pc' = "app" /\ UNCHANGED <<stream, got>>
                \/ /\ f.opcode \in {OPCODE_DATA_TEXT, OPCODE_DATA_BINARY} /\ got' = Append(got, f.payload)
                   /\ pc' = "app" /\ UNCHANGED <<stream, out, sent>>
                \/ /\ f.opcode \notin {OPCODE_DATA_TEXT, OPCODE_DATA_BINARY}
                   /\ pc' = "app" /\ UNCHANGED <<stream, out, sent, got>>
<1> DEFINE f == ReadFrame(inq)
<1>1. /\ pc = "receive" /\ f.parsed > 0 /\ inq' = Drop(inq, f.parsed)
      /\ UNCHANGED <<blocking, flight, ended, status, said, count>>
  BY DEF FrameArrives, peerVars
<1>2. CASE f.opcode = OPCODE_CLOSE
  <2>1. CloseStream /\ got' = got
    BY <1>2 DEF FrameArrives, OPCODE_CLOSE, OPCODE_PING, OPCODE_DATA_TEXT, OPCODE_DATA_BINARY
  <2> QED BY <1>1, <1>2, <2>1
<1>3. CASE f.opcode = OPCODE_PING
  <2>1. SendFrame(OPCODE_PONG, << >>) /\ pc' = "app" /\ UNCHANGED <<stream, got>>
    BY <1>3 DEF FrameArrives, OPCODE_CLOSE, OPCODE_PING, OPCODE_DATA_TEXT, OPCODE_DATA_BINARY
  <2> QED BY <1>1, <1>3, <2>1
<1>4. CASE f.opcode \in {OPCODE_DATA_TEXT, OPCODE_DATA_BINARY}
  <2>1. got' = Append(got, f.payload) /\ pc' = "app" /\ UNCHANGED <<stream, out, sent>>
    BY <1>4 DEF FrameArrives, OPCODE_CLOSE, OPCODE_PING, OPCODE_DATA_TEXT, OPCODE_DATA_BINARY
  <2> QED BY <1>1, <1>4, <2>1
<1>5. CASE /\ f.opcode # OPCODE_CLOSE /\ f.opcode # OPCODE_PING
           /\ f.opcode \notin {OPCODE_DATA_TEXT, OPCODE_DATA_BINARY}
  <2>1. pc' = "app" /\ UNCHANGED <<stream, out, sent, got>>
    BY <1>5 DEF FrameArrives, OPCODE_CLOSE, OPCODE_PING, OPCODE_DATA_TEXT, OPCODE_DATA_BINARY
  <2> QED BY <1>1, <1>5, <2>1
<1> QED BY <1>2, <1>3, <1>4, <1>5

(* What sendFrame() leaves behind, whatever part of the frame was written. *)
LEMMA SendFrameWrites ==
  ASSUME NEW op \in Byte, NEW p \in Seq(Byte), SendFrame(op, p), out \in Seq(Byte), sent \in Seq(ClientFrame)
  PROVE  /\ out' \in Seq(Byte) /\ sent' \in Seq(ClientFrame)
         /\ sent' = Append(sent, [opcode |-> op, payload |-> p])
         /\ \E r \in Seq(Byte) : out' = out \o r
         /\ ~ShortWrites => out' = out \o FrameBytes(op, p)
<1> DEFINE bytes == FrameBytes(op, p)
<1>1. bytes \in Seq(Byte) /\ Len(bytes) \in Nat
  BY FrameBytesType, LenProperties
<1>2. /\ \E n \in (IF ShortWrites /\ ~blocking THEN 0 ELSE Len(bytes)) .. Len(bytes) :
           out' = out \o SubSeq(bytes, 1, n)
      /\ sent' = Append(sent, [opcode |-> op, payload |-> p])
  BY DEF SendFrame
<1> HIDE DEF bytes
<1>3. PICK n \in (IF ShortWrites /\ ~blocking THEN 0 ELSE Len(bytes)) .. Len(bytes) :
        out' = out \o SubSeq(bytes, 1, n)
  BY <1>2
<1>4. n \in 0 .. Len(bytes) /\ (~ShortWrites => n = Len(bytes))
  BY <1>1
<1>5. SubSeq(bytes, 1, n) \in Seq(Byte)
  BY <1>1, <1>4, FrontAndRest
<1> DEFINE r == SubSeq(bytes, 1, n)
<1> HIDE DEF r
<1>6. out \o r \in Seq(Byte)
  BY <1>5, Joined DEF r
<1>7. ~ShortWrites => r = bytes
  BY <1>1, <1>4, SubSeqFull DEF r
<1>8. out' = out \o r
  BY <1>3 DEF r
<1>9. [opcode |-> op, payload |-> p] \in ClientFrame
  BY DEF ClientFrame
<1>10. sent' \in Seq(ClientFrame)
  BY <1>2, <1>9
<1>11. r \in Seq(Byte)
  BY <1>5 DEF r
<1> QED BY <1>2, <1>6, <1>7, <1>8, <1>10, <1>11 DEF bytes

(* The opcodes are bytes, and AUTH is not one of the others that are sent. *)
LEMMA Opcodes ==
  /\ OPCODE_DATA_BINARY \in Byte /\ OPCODE_DATA_TEXT \in Byte /\ OPCODE_CLOSE \in Byte
  /\ OPCODE_PONG \in Byte /\ OPCODE_AUTH \in Byte
  /\ OPCODE_DATA_TEXT # OPCODE_AUTH /\ OPCODE_CLOSE # OPCODE_AUTH /\ OPCODE_PONG # OPCODE_AUTH
BY Bytes DEF OPCODE_DATA_BINARY, OPCODE_DATA_TEXT, OPCODE_CLOSE, OPCODE_PONG, OPCODE_AUTH

(* The empty sequence, as a sequence of each kind. *)
LEMMA EmptyBytes == << >> \in Seq(Byte) /\ << >> \in Seq(ClientFrame) /\ << >> \in Seq(Seq(Byte))
OBVIOUS

(* A count goes up by one. *)
LEMMA CountedType ==
  ASSUME NEW what \in {"sends", "frames", "cuts"}, NEW bound, Counted(what, bound),
         count \in [sends : Nat, frames : Nat, cuts : Nat]
  PROVE  count' \in [sends : Nat, frames : Nat, cuts : Nat] /\ count' = [count EXCEPT ![what] = @ + 1]
BY DEF Counted

(* The types at first ... *)
LEMMA InitTypeOK == Init => StreamTypeOK
<1> SUFFICES ASSUME Init PROVE StreamTypeOK
  OBVIOUS
<1>1. /\ pc \in {"app", "hello", "auth", "receive"} /\ stream \in {"none", "open"} /\ blocking \in BOOLEAN
      /\ ended \in BOOLEAN /\ status \in {-1} \cup Status
  BY DEF Init
<1>2. /\ out \in Seq(Byte) /\ sent \in Seq(ClientFrame) /\ got \in Seq(Seq(Byte))
      /\ flight \in Seq(Byte) /\ inq \in Seq(Byte) /\ said \in Seq(Seq(Byte))
  BY EmptyBytes DEF Init
<1>3. count \in [sends : Nat, frames : Nat, cuts : Nat]
  BY DEF Init, NothingYet
<1> QED BY <1>1, <1>2, <1>3 DEF StreamTypeOK

(* ... and after every step, whatever the peer and the application say. *)
LEMMA TypeOKStep ==
  ASSUME StreamTypeOK, [Next]_vars
  PROVE  StreamTypeOK'
<1>1. CASE Connect
  <2>1. out' \in Seq(Byte)
    BY <1>1, EmptyBytes, HelloFacts DEF Connect
  <2> QED BY <1>1, <2>1, EmptyBytes DEF Connect, StreamTypeOK, NothingYet, Status
<1>2. CASE HelloArrives
  <2>1. inq' \in Seq(Byte)
    <3>1. 42 \in 0 .. Len(inq) /\ inq' = Drop(inq, 42)
      BY <1>2, LenProperties DEF HelloArrives, StreamTypeOK
    <3> QED BY <3>1, DropProperties DEF StreamTypeOK
  <2>2. CASE Throw
    BY <1>2, <2>1, <2>2 DEF HelloArrives, Throw, StreamTypeOK, peerVars
  <2>3. CASE SendFrame(OPCODE_AUTH, AuthPayload) /\ pc' = "auth" /\ UNCHANGED <<stream, blocking, got>>
    <3>1. out' \in Seq(Byte) /\ sent' \in Seq(ClientFrame)
      BY <2>3, Opcodes, AuthPayloadFacts, SendFrameWrites DEF StreamTypeOK
    <3> QED BY <1>2, <2>1, <2>3, <3>1 DEF HelloArrives, StreamTypeOK, peerVars
  <2> QED BY <1>2, <2>2, <2>3 DEF HelloArrives
<1>3. CASE AuthAnswered
  <2> DEFINE f == ReadFrame(inq)
  <2>1. inq' \in Seq(Byte)
    <3>1. inq' = Drop(inq, IF f.parsed = -1 THEN 5 ELSE f.parsed) /\ f.parsed # 0
      BY <1>3 DEF AuthAnswered
    <3>2. inq \in Seq(Byte) /\ Len(inq) \in Nat
      BY LenProperties DEF StreamTypeOK
    <3> HIDE DEF f
    <3>3. (IF f.parsed = -1 THEN 5 ELSE f.parsed) \in 0 .. Len(inq)
      BY <3>1, <3>2, ReadFrameParsed DEF f
    <3> QED BY <3>1, <3>2, <3>3, DropProperties
  <2> QED BY <1>3, <2>1 DEF AuthAnswered, Throw, StreamTypeOK, peerVars
<1>4. CASE ConnectReadFails
  BY <1>4, EmptyBytes DEF ConnectReadFails, Throw, StreamTypeOK, peerVars
<1>5. ASSUME NEW p \in Payloads, Send(p) PROVE StreamTypeOK'
  <2>1. p \in Seq(Byte)
    BY StreamClientAssumption
  <2>2. out' \in Seq(Byte) /\ sent' \in Seq(ClientFrame)
    BY <1>5, <2>1, Opcodes, SendFrameWrites DEF Send, StreamTypeOK
  <2>3. count' \in [sends : Nat, frames : Nat, cuts : Nat]
    BY <1>5, CountedType DEF Send, StreamTypeOK
  <2> QED BY <1>5, <2>2, <2>3 DEF Send, StreamTypeOK, peerVars
<1>6. ASSUME CloseStream PROVE /\ out' \in Seq(Byte) /\ sent' \in Seq(ClientFrame)
                               /\ pc' = "app" /\ stream' = "none"
  <2>1. SendFrame(OPCODE_CLOSE, << >>) /\ pc' = "app" /\ stream' = "none"
    BY <1>6 DEF CloseStream
  <2> QED BY <2>1, Opcodes, EmptyBytes, SendFrameWrites DEF StreamTypeOK
<1>7. CASE Disconnect
  BY <1>6, <1>7 DEF Disconnect, StreamTypeOK, peerVars
<1>8. CASE Receive
  BY <1>8 DEF Receive, StreamTypeOK, peerVars
<1>9. CASE FrameArrives
  <2> DEFINE f == ReadFrame(inq)
  <2>1. f.parsed > 0 /\ inq' = Drop(inq, f.parsed) /\ UNCHANGED <<blocking, flight, ended, status, said, count>>
    BY <1>9, FrameArrivesCases
  <2>2. f.payload \in Seq(Byte) /\ f.parsed \in 1 .. Len(inq) /\ f.parsed \in Nat
    BY <2>1, EmptyBytes, ReadFrameStable DEF StreamTypeOK
  <2>3. inq' \in Seq(Byte)
    <3>1. f.parsed \in 0 .. Len(inq)
      BY <2>2
    <3> HIDE DEF f
    <3> QED BY <2>1, <3>1, DropProperties DEF StreamTypeOK
  <2>4. /\ out' \in Seq(Byte) /\ sent' \in Seq(ClientFrame) /\ got' \in Seq(Seq(Byte))
        /\ pc' = "app" /\ stream' \in {"none", "open"}
    <3>1. CASE CloseStream /\ got' = got
      BY <1>6, <3>1 DEF StreamTypeOK
    <3>2. CASE SendFrame(OPCODE_PONG, << >>) /\ pc' = "app" /\ UNCHANGED <<stream, got>>
      BY <3>2, Opcodes, EmptyBytes, SendFrameWrites DEF StreamTypeOK
    <3>3. CASE got' = Append(got, f.payload) /\ pc' = "app" /\ UNCHANGED <<stream, out, sent>>
      <4> HIDE DEF f
      <4>1. got' \in Seq(Seq(Byte))
        BY <2>2, <3>3, AppendProperties DEF StreamTypeOK
      <4> QED BY <3>3, <4>1 DEF StreamTypeOK
    <3>4. CASE pc' = "app" /\ UNCHANGED <<stream, out, sent, got>>
      BY <3>4 DEF StreamTypeOK
    <3> QED BY <1>9, <3>1, <3>2, <3>3, <3>4, FrameArrivesCases
  <2> QED BY <2>1, <2>3, <2>4 DEF StreamTypeOK
<1>10. CASE FrameBroken
  BY <1>6, <1>10 DEF FrameBroken, StreamTypeOK, peerVars
<1>11. CASE PeerSaysHello
  <2>1. PICK s \in Status : status' = s /\ flight' = flight \o PeerHello(s)
    BY <1>11 DEF PeerSaysHello, Status
  <2>2. flight' \in Seq(Byte)
    <3> DEFINE h == PeerHello(s)
    <3>1. h \in Seq(Byte)
      BY PeerHelloFacts
    <3> HIDE DEF h
    <3>2. flight \o h \in Seq(Byte)
      BY <3>1, Joined DEF StreamTypeOK
    <3> QED BY <2>1, <3>2 DEF h
  <2> QED BY <1>11, <2>1, <2>2 DEF PeerSaysHello, StreamTypeOK, clientVars
<1>12. ASSUME NEW f \in PeerFrames, PeerSaysFrame(f) PROVE StreamTypeOK'
  <2>1. flight' \in Seq(Byte)
    <3> DEFINE h == PeerFrame(f)
    <3>1. h \in Seq(Byte)
      BY PeerFrameType
    <3> HIDE DEF h
    <3>2. flight \o h \in Seq(Byte)
      BY <3>1, Joined DEF StreamTypeOK
    <3> QED BY <1>12, <3>2 DEF h, PeerSaysFrame
  <2>2. said' \in Seq(Seq(Byte))
    BY <1>12, PeerFrameType, AppendProperties DEF PeerSaysFrame, StreamTypeOK
  <2>3. count' \in [sends : Nat, frames : Nat, cuts : Nat]
    BY <1>12, CountedType DEF PeerSaysFrame, StreamTypeOK
  <2> QED BY <1>12, <2>1, <2>2, <2>3 DEF PeerSaysFrame, StreamTypeOK, clientVars
<1>13. CASE PeerCloses
  BY <1>13 DEF PeerCloses, StreamTypeOK, clientVars
<1>14. CASE Arrive
  <2>1. CASE inq' = inq \o flight /\ flight' = << >> /\ UNCHANGED count
    <3>1. inq' \in Seq(Byte)
      BY <2>1, Joined DEF StreamTypeOK
    <3> QED BY <1>14, <2>1, <3>1, EmptyBytes DEF Arrive, StreamTypeOK, clientVars
  <2>2. CASE /\ Counted("cuts", MaxCuts)
             /\ \E n \in 1 .. Len(flight) - 1 : inq' = inq \o SubSeq(flight, 1, n) /\ flight' = Drop(flight, n)
    <3>1. PICK n \in 1 .. Len(flight) - 1 : inq' = inq \o SubSeq(flight, 1, n) /\ flight' = Drop(flight, n)
      BY <2>2
    <3>2. n \in 0 .. Len(flight) /\ flight \in Seq(Byte)
      BY LenProperties DEF StreamTypeOK
    <3>3. SubSeq(flight, 1, n) \in Seq(Byte) /\ Drop(flight, n) \in Seq(Byte)
      BY <3>2, FrontAndRest, DropProperties
    <3>4. inq' \in Seq(Byte)
      <4> DEFINE r == SubSeq(flight, 1, n)
      <4> HIDE DEF r
      <4>1. inq \o r \in Seq(Byte)
        BY <3>3, Joined DEF StreamTypeOK, r
      <4> QED BY <3>1, <4>1 DEF r
    <3>5. count' \in [sends : Nat, frames : Nat, cuts : Nat]
      BY <2>2, CountedType DEF StreamTypeOK
    <3> QED BY <1>14, <3>1, <3>3, <3>4, <3>5 DEF Arrive, StreamTypeOK, clientVars
  <2> QED BY <1>14, <2>1, <2>2 DEF Arrive
<1>15. CASE UNCHANGED vars
  BY <1>15 DEF vars, clientVars, peerVars, StreamTypeOK
<1> QED BY <1>1, <1>2, <1>3, <1>4, <1>5, <1>7, <1>8, <1>9, <1>10, <1>11, <1>12, <1>13, <1>14, <1>15 DEF Next
-----------------------------------------------------------------------------
(* connect(): the hello, the token and the daemon. *)

(* While connect() waits for the hello, what is to be read begins with it. *)
HelloUnread ==
  pc = "hello" =>
    /\ sent = << >>
    /\ status = -1 => inq = << >> /\ flight = << >>
    /\ status # -1 => \E rest \in Seq(Byte) : inq \o flight = PeerHello(status) \o rest

(* A connection that got past the hello was accepted. *)
Connected ==
  /\ pc # "app" => stream = "open"
  /\ pc = "auth" => status = 0
  /\ stream = "open" => \E r \in Seq(Byte) : out = Hello \o r
  /\ stream = "open" /\ ~blocking => status = 0

AuthSent ==
  \A i \in 1 .. Len(sent) :
    sent[i].opcode = OPCODE_AUTH => status = 0 /\ sent[i].payload = AuthPayload

GreetingInv == StreamTypeOK /\ HelloUnread /\ Connected /\ AuthSent

(* Whatever sendFrame() adds, the bytes written begin with the hello. *)
LEMMA StillBeginsWithHello ==
  ASSUME NEW op \in Byte, NEW p \in Seq(Byte), SendFrame(op, p), StreamTypeOK,
         \E r \in Seq(Byte) : out = Hello \o r
  PROVE  \E r \in Seq(Byte) : out' = Hello \o r
<1>1. PICK r \in Seq(Byte) : out = Hello \o r
  OBVIOUS
<1>2. PICK q \in Seq(Byte) : out' = out \o q
  BY SendFrameWrites DEF StreamTypeOK
<1>3. Hello \in Seq(Byte)
  BY HelloFacts
<1> DEFINE h == Hello
<1> HIDE DEF h
<1>4. (h \o r) \o q = h \o (r \o q)
  BY <1>3, Associative DEF h
<1>5. r \o q \in Seq(Byte)
  BY Joined
<1> QED BY <1>1, <1>2, <1>4, <1>5 DEF h

(* One more frame, AUTH only if the hello was accepted. *)
LEMMA StillAuthSent ==
  ASSUME NEW op \in Byte, NEW p \in Seq(Byte), SendFrame(op, p), StreamTypeOK, AuthSent, status' = status,
         op = OPCODE_AUTH => status = 0 /\ p = AuthPayload
  PROVE  AuthSent'
<1> DEFINE f == [opcode |-> op, payload |-> p]
<1>1. sent' = Append(sent, f) /\ sent \in Seq(ClientFrame) /\ f \in ClientFrame
  BY SendFrameWrites DEF StreamTypeOK, ClientFrame
<1>2. f.opcode = op /\ f.payload = p
  OBVIOUS
<1> HIDE DEF f
<1>3. /\ Len(sent') = Len(sent) + 1 /\ Len(sent) \in Nat /\ sent'[Len(sent) + 1] = f
      /\ \A i \in 1 .. Len(sent) : sent'[i] = sent[i]
  BY <1>1, AppendProperties, LenProperties
<1> SUFFICES ASSUME NEW i \in 1 .. Len(sent'), sent'[i].opcode = OPCODE_AUTH
             PROVE  status = 0 /\ sent'[i].payload = AuthPayload
  BY DEF AuthSent
<1>4. CASE i \in 1 .. Len(sent)
  BY <1>3, <1>4 DEF AuthSent
<1>5. CASE i = Len(sent) + 1
  BY <1>2, <1>3, <1>5
<1> QED BY <1>3, <1>4, <1>5

(* Bytes that arrive change places only. *)
LEMMA ArriveMoves ==
  ASSUME Arrive, StreamTypeOK
  PROVE  inq' \o flight' = inq \o flight /\ flight # << >> /\ stream = "open"
         /\ UNCHANGED <<pc, stream, blocking, out, sent, got, ended, status, said>>
         /\ count'.frames = count.frames
<1>1. UNCHANGED <<pc, stream, blocking, out, sent, got, ended, status, said>> /\ flight # << >> /\ stream = "open"
  BY DEF Arrive, clientVars
<1>2. CASE inq' = inq \o flight /\ flight' = << >> /\ UNCHANGED count
  <2>1. inq \o flight \in Seq(Byte)
    BY Joined DEF StreamTypeOK
  <2> DEFINE w == inq \o flight
  <2> HIDE DEF w
  <2>2. w \o << >> = w
    BY <2>1, ConcatEmptySeq DEF w
  <2> QED BY <1>1, <1>2, <2>2 DEF w
<1>3. CASE /\ Counted("cuts", MaxCuts)
           /\ \E n \in 1 .. Len(flight) - 1 : inq' = inq \o SubSeq(flight, 1, n) /\ flight' = Drop(flight, n)
  <2>1. PICK n \in 1 .. Len(flight) - 1 : inq' = inq \o SubSeq(flight, 1, n) /\ flight' = Drop(flight, n)
    BY <1>3
  <2>2. n \in 0 .. Len(flight) /\ flight \in Seq(Byte) /\ inq \in Seq(Byte)
    BY LenProperties DEF StreamTypeOK
  <2> DEFINE a == SubSeq(flight, 1, n)
             b == Drop(flight, n)
  <2>3. a \in Seq(Byte) /\ b \in Seq(Byte) /\ flight = a \o b
    BY <2>2, FrontAndRest, DropProperties
  <2>4. inq' = inq \o a /\ flight' = b
    BY <2>1
  <2> HIDE DEF a, b
  <2>5. (inq \o a) \o b = inq \o (a \o b)
    BY <2>2, <2>3, Associative
  <2>6. count'.frames = count.frames
    BY <1>3, CountedType DEF StreamTypeOK
  <2> QED BY <1>1, <2>3, <2>4, <2>5, <2>6
<1> QED BY <1>2, <1>3 DEF Arrive

(* The hello that connect() has read. *)
LEMMA HelloArrived ==
  ASSUME StreamTypeOK, HelloUnread, pc = "hello", Len(inq) >= 42
  PROVE  /\ status \in Status /\ HelloStatus(inq) = status /\ SubSeq(inq, 1, 2) = Magic
         /\ \E rest \in Seq(Byte) : /\ inq \o flight = PeerHello(status) \o rest
                                    /\ Drop(inq, 42) \o flight = rest
<1>1. inq \in Seq(Byte) /\ flight \in Seq(Byte) /\ Len(inq) \in Nat
  BY LenProperties DEF StreamTypeOK
<1>2. status # -1
  <2> SUFFICES ASSUME status = -1 PROVE FALSE
    OBVIOUS
  <2>1. inq = << >>
    BY DEF HelloUnread
  <2> QED BY <2>1
<1>3. status \in Status
  BY <1>2 DEF StreamTypeOK
<1>4. PICK rest \in Seq(Byte) : inq \o flight = PeerHello(status) \o rest
  BY <1>2 DEF HelloUnread
<1>5. HelloStatus(inq) = status /\ Drop(inq, 42) \o flight = rest /\ SubSeq(inq, 1, 2) = <<80, 87>>
  BY <1>1, <1>3, <1>4, HelloStatusRead
<1> QED BY <1>3, <1>4, <1>5 DEF Magic

(* The invariant of connect() at first ... *)
LEMMA InitGreeting == Init => GreetingInv
<1> SUFFICES ASSUME Init PROVE GreetingInv
  OBVIOUS
<1>1. StreamTypeOK
  BY InitTypeOK
<1>2. HelloUnread /\ Connected
  BY DEF Init, HelloUnread, Connected
<1>3. AuthSent
  BY DEF Init, AuthSent
<1> QED BY <1>1, <1>2, <1>3 DEF GreetingInv

(* ... and after every step. *)
LEMMA GreetingStep ==
  ASSUME GreetingInv, [Next]_vars
  PROVE  GreetingInv'
<1>0. StreamTypeOK /\ StreamTypeOK' /\ HelloUnread /\ Connected /\ AuthSent
  BY TypeOKStep DEF GreetingInv
<1>a. ASSUME UNCHANGED <<sent, status>> PROVE AuthSent'
  BY <1>0, <1>a DEF AuthSent
<1>b. ASSUME pc' # "hello" PROVE HelloUnread'
  BY <1>b DEF HelloUnread
<1>c. ASSUME CloseStream, UNCHANGED <<status, blocking>> PROVE HelloUnread' /\ Connected' /\ AuthSent'
  <2>1. SendFrame(OPCODE_CLOSE, << >>) /\ pc' = "app" /\ stream' = "none"
    BY <1>c DEF CloseStream
  <2>2. AuthSent'
    BY <1>0, <1>c, <2>1, Opcodes, EmptyBytes, StillAuthSent
  <2> QED BY <1>b, <2>1, <2>2 DEF Connected
<1>d. ASSUME UNCHANGED <<pc, stream, blocking, out, status>> PROVE Connected'
  BY <1>0, <1>d DEF Connected
<1>1. CASE Connect
  <2>1. status' = -1 /\ sent' = << >> /\ inq' = << >> /\ flight' = << >>
    BY <1>1 DEF Connect
  <2>2. AuthSent'
    BY <2>1 DEF AuthSent
  <2>3. HelloUnread'
    BY <2>1 DEF HelloUnread
  <2>4. CASE pc' = "hello" /\ stream' = "open" /\ blocking' = TRUE /\ out' = Hello
    <3>1. Hello \o << >> = Hello
      BY HelloFacts, ConcatEmptySeq
    <3>2. \E r \in Seq(Byte) : out' = Hello \o r
      BY <2>4, <3>1, EmptyBytes
    <3> QED BY <1>0, <2>2, <2>3, <2>4, <3>2 DEF GreetingInv, Connected
  <2>5. CASE stream' = "none" /\ pc' = "app"
    BY <1>0, <2>2, <2>3, <2>5 DEF GreetingInv, Connected
  <2> QED BY <1>1, <2>4, <2>5 DEF Connect
<1>2. CASE HelloArrives
  <2>1. pc = "hello" /\ Len(inq) >= 42 /\ status' = status
    BY <1>2 DEF HelloArrives, peerVars
  <2>2. status \in Status /\ HelloStatus(inq) = status
    BY <1>0, <2>1, HelloArrived
  <2>3. CASE Throw
    <3>1. pc' = "app" /\ UNCHANGED <<stream, blocking, out, sent, got>>
      BY <2>3 DEF Throw
    <3> QED BY <1>0, <1>a, <1>b, <2>1, <3>1 DEF GreetingInv, Connected
  <2>4. CASE ~(SubSeq(inq, 1, 2) # <<PW_MAGIC_BYTE_1, PW_MAGIC_BYTE_2>> \/ HelloStatus(inq) # 0)
    <3>1. SendFrame(OPCODE_AUTH, AuthPayload) /\ pc' = "auth" /\ UNCHANGED <<stream, blocking, got>>
      BY <1>2, <2>4 DEF HelloArrives
    <3>2. status = 0
      BY <2>2, <2>4
    <3>3. AuthSent'
      BY <1>0, <2>1, <3>1, <3>2, Opcodes, AuthPayloadFacts, StillAuthSent
    <3>4. stream = "open" /\ \E r \in Seq(Byte) : out = Hello \o r
      BY <1>0, <2>1 DEF Connected
    <3>5. \E r \in Seq(Byte) : out' = Hello \o r
      BY <1>0, <3>1, <3>4, Opcodes, AuthPayloadFacts, StillBeginsWithHello
    <3>6. Connected'
      BY <1>0, <2>1, <3>1, <3>2, <3>4, <3>5 DEF Connected
    <3> QED BY <1>0, <1>b, <3>1, <3>3, <3>6 DEF GreetingInv
  <2> QED BY <1>2, <2>3, <2>4 DEF HelloArrives
<1>3. CASE AuthAnswered
  <2>1. pc = "auth" /\ pc' = "app" /\ UNCHANGED <<stream, out, sent, status>>
    BY <1>3 DEF AuthAnswered, Throw, peerVars
  <2>2. status = 0
    BY <1>0, <2>1 DEF Connected
  <2> QED BY <1>0, <1>a, <1>b, <2>1, <2>2 DEF GreetingInv, Connected
<1>4. CASE ConnectReadFails
  <2>1. pc' = "app" /\ UNCHANGED <<stream, blocking, out, sent, status>>
    BY <1>4 DEF ConnectReadFails, Throw, peerVars
  <2> QED BY <1>0, <1>a, <1>b, <2>1 DEF GreetingInv, Connected
<1>5. ASSUME NEW p \in Payloads, Send(p) PROVE GreetingInv'
  <2>1. /\ pc = "app" /\ stream = "open" /\ SendFrame(OPCODE_DATA_TEXT, p)
        /\ UNCHANGED <<pc, stream, blocking, status>>
    BY <1>5 DEF Send, peerVars
  <2>2. p \in Seq(Byte)
    BY StreamClientAssumption
  <2>3. AuthSent'
    BY <1>0, <2>1, <2>2, Opcodes, StillAuthSent
  <2>4. \E r \in Seq(Byte) : out = Hello \o r
    BY <1>0, <2>1 DEF Connected
  <2>5. \E r \in Seq(Byte) : out' = Hello \o r
    BY <1>0, <2>1, <2>2, <2>4, Opcodes, StillBeginsWithHello
  <2> QED BY <1>0, <1>b, <2>1, <2>3, <2>5 DEF GreetingInv, Connected
<1>6. CASE Disconnect
  <2>1. CloseStream /\ UNCHANGED <<status, blocking>>
    BY <1>6 DEF Disconnect, peerVars
  <2> QED BY <1>0, <1>c, <2>1 DEF GreetingInv
<1>7. CASE Receive
  <2>1. pc' = "receive" /\ stream = "open" /\ UNCHANGED <<stream, blocking, out, sent, status>>
    BY <1>7 DEF Receive, peerVars
  <2> QED BY <1>0, <1>a, <1>b, <2>1 DEF GreetingInv, Connected
<1>8. CASE FrameArrives
  <2>1. pc = "receive" /\ UNCHANGED <<blocking, status>>
    BY <1>8, FrameArrivesCases
  <2>2. stream = "open" /\ \E r \in Seq(Byte) : out = Hello \o r
    BY <1>0, <2>1 DEF Connected
  <2>3. CASE CloseStream
    BY <1>0, <1>c, <2>1, <2>3 DEF GreetingInv
  <2>4. CASE SendFrame(OPCODE_PONG, << >>) /\ pc' = "app" /\ UNCHANGED stream
    <3>1. AuthSent'
      BY <1>0, <2>1, <2>4, Opcodes, EmptyBytes, StillAuthSent
    <3>2. \E r \in Seq(Byte) : out' = Hello \o r
      BY <1>0, <2>2, <2>4, Opcodes, EmptyBytes, StillBeginsWithHello
    <3> QED BY <1>0, <1>b, <2>1, <2>4, <3>1, <3>2 DEF GreetingInv, Connected
  <2>5. CASE pc' = "app" /\ UNCHANGED <<stream, out, sent>>
    BY <1>0, <1>a, <1>b, <2>1, <2>5 DEF GreetingInv, Connected
  <2> QED BY <1>8, <2>3, <2>4, <2>5, FrameArrivesCases
<1>9. CASE FrameBroken
  <2>1. CloseStream /\ UNCHANGED <<status, blocking>>
    BY <1>9 DEF FrameBroken, peerVars
  <2> QED BY <1>0, <1>c, <2>1 DEF GreetingInv
<1>10. CASE PeerSaysHello
  <2>1. status = -1 /\ UNCHANGED <<pc, stream, blocking, out, sent, inq>>
    BY <1>10 DEF PeerSaysHello, clientVars
  <2>2. PICK s \in Status : status' = s /\ flight' = flight \o PeerHello(s)
    BY <1>10 DEF PeerSaysHello, Status
  <2>3. AuthSent'
    BY <1>0, <2>1 DEF AuthSent
  <2>4. Connected'
    BY <1>0, <2>1 DEF Connected
  <2>5. HelloUnread'
    <3> SUFFICES ASSUME pc = "hello"
                 PROVE  sent' = << >> /\ inq' \o flight' = PeerHello(s) \o << >> /\ s # -1
      BY <2>1, <2>2, EmptyBytes DEF HelloUnread
    <3>1. sent = << >> /\ inq = << >> /\ flight = << >>
      BY <1>0, <2>1 DEF HelloUnread
    <3> DEFINE h == PeerHello(s)
    <3>2. h \in Seq(Byte)
      BY PeerHelloFacts
    <3>3. s # -1
      BY DEF Status
    <3> HIDE DEF h
    <3>4. << >> \o h = h /\ h \o << >> = h
      BY <3>2, ConcatEmptySeq
    <3>5. flight' = h /\ inq' = << >>
      BY <2>1, <2>2, <3>1, <3>4 DEF h
    <3> QED BY <2>1, <3>1, <3>3, <3>4, <3>5 DEF h
  <2> QED BY <1>0, <2>3, <2>4, <2>5 DEF GreetingInv
<1>11. ASSUME NEW f \in PeerFrames, PeerSaysFrame(f) PROVE GreetingInv'
  <2>1. status # -1 /\ UNCHANGED <<pc, stream, blocking, out, sent, inq, status>> /\ flight' = flight \o PeerFrame(f)
    BY <1>11 DEF PeerSaysFrame, clientVars
  <2>2. HelloUnread'
    <3> SUFFICES ASSUME pc = "hello"
                 PROVE  sent = << >> /\ \E rest \in Seq(Byte) : inq \o flight' = PeerHello(status) \o rest
      BY <2>1 DEF HelloUnread
    <3>1. sent = << >>
      BY <1>0 DEF HelloUnread
    <3>2. PICK rest \in Seq(Byte) : inq \o flight = PeerHello(status) \o rest
      BY <1>0, <2>1 DEF HelloUnread
    <3> DEFINE g == PeerFrame(f)
               h == PeerHello(status)
    <3>3. g \in Seq(Byte) /\ h \in Seq(Byte) /\ inq \in Seq(Byte) /\ flight \in Seq(Byte)
      BY <1>0, <2>1, PeerFrameType, PeerHelloFacts DEF StreamTypeOK
    <3>4. inq \o flight = h \o rest /\ flight' = flight \o g
      BY <2>1, <3>2
    <3> HIDE DEF g, h
    <3>5. inq \o (flight \o g) = (inq \o flight) \o g
      BY <3>3, Associative
    <3>6. (h \o rest) \o g = h \o (rest \o g) /\ rest \o g \in Seq(Byte)
      BY <3>3, Associative, Joined
    <3> QED BY <3>1, <3>4, <3>5, <3>6 DEF h
  <2> QED BY <1>0, <1>a, <1>d, <2>1, <2>2 DEF GreetingInv
<1>12. CASE PeerCloses
  <2>1. UNCHANGED <<pc, stream, blocking, out, sent, status, inq, flight>>
    BY <1>12 DEF PeerCloses, clientVars
  <2> QED BY <1>0, <1>a, <1>d, <2>1 DEF GreetingInv, HelloUnread
<1>13. CASE Arrive
  <2>1. /\ inq' \o flight' = inq \o flight /\ flight # << >>
        /\ UNCHANGED <<pc, stream, blocking, out, sent, got, ended, status, said>>
    BY <1>0, <1>13, ArriveMoves
  <2>2. HelloUnread'
    BY <1>0, <2>1 DEF HelloUnread
  <2> QED BY <1>0, <1>a, <1>d, <2>1, <2>2 DEF GreetingInv
<1>14. CASE UNCHANGED vars
  BY <1>0, <1>a, <1>d, <1>14 DEF vars, clientVars, peerVars, GreetingInv, HelloUnread
<1> QED BY <1>1, <1>2, <1>3, <1>4, <1>5, <1>6, <1>7, <1>8, <1>9, <1>10, <1>11, <1>12, <1>13, <1>14 DEF Next

(* As long as connect() waits for the hello, what is there and on its way  *)
(* begins with the hello the peer said on this connection, so that the     *)
(* status connect() reads (StreamClient.php:76-89) is the status the peer  *)
(* meant; and it never gets past a hello that refused it.                  *)
THEOREM Greeting == Spec => []GreetingInv
BY InitGreeting, GreetingStep, PTL DEF Spec

(* The variables keep their form (StreamClient.php), the bytes on the      *)
(* stream, read or written, included: every encoder of the client and of   *)
(* the peer yields bytes for every token, payload and frame.               *)
THEOREM StreamTypeCorrect == Spec => []StreamTypeOK
<1>1. GreetingInv => StreamTypeOK
  BY DEF GreetingInv
<1> QED BY <1>1, Greeting, PTL

(* The token is sent only to a peer whose hello on this connection         *)
(* accepted the client (StreamClient.php:84-97), also when an earlier      *)
(* connect() gave up in the middle of a message and the stream is used     *)
(* further.                                                                *)
THEOREM TokenOnlyAfterAcceptance == Spec => []TokenAfterAcceptance
<1>1. GreetingInv => TokenAfterAcceptance
  BY DEF GreetingInv, AuthSent, TokenAfterAcceptance
<1> QED BY <1>1, Greeting, PTL

(* The version the daemon reads in this client's hello. *)
LEMMA DaemonReadsNoVersion ==
  ASSUME NEW r \in Seq(Byte)
  PROVE  DaemonStatus(Hello \o r) = 1002
<1> DEFINE s == Hello \o r
<1>1. Len(s) >= 27 /\ s[3] = 0 /\ s[24] = 0
  <2> DEFINE h == Hello
  <2>1. h \in Seq(Byte) /\ Len(h) = 27 /\ h[3] = 0 /\ h[24] = 0
    BY HelloFacts
  <2> HIDE DEF h
  <2>2. Follows(h \o r, h, r, 27, Len(r)) /\ Len(r) \in Nat
    BY <2>1, JoinedFollows, LenProperties
  <2> DEFINE c == h \o r
  <2> HIDE DEF c
  <2>3. Follows(c, h, r, 27, Len(r))
    BY <2>2 DEF c
  <2>4. Len(c) >= 27 /\ c[3] = h[3] /\ c[24] = h[24]
    BY <2>2, <2>3 DEF Follows
  <2> QED BY <2>1, <2>4 DEF c, h
<1> HIDE DEF s
<1>2. ClientHelloSize = 24
  BY DEF ClientHelloSize, PW_NONCE_SIZE
<1>3. ParseClientHello(s).version = 0
  BY <1>1, <1>2 DEF ParseClientHello
<1>4. PW_VERSION_1 = 1
  BY DEF PW_VERSION_1
<1> QED BY <1>3, <1>4 DEF DaemonStatus, s

(* Whatever the peer, the payloads and the cutting, connect() succeeds     *)
(* only with a peer that answers the hello otherwise than the daemon does: *)
(* the bytes written begin with a hello of which the daemon reads the      *)
(* first byte of a four-byte version (StreamClient.php:64-68,              *)
(* server_main.c:107).                                                     *)
THEOREM NeverUpWithTheDaemon == Spec => []DaemonShutOut
<1>1. ASSUME GreetingInv, stream = "open", ~blocking PROVE status # DaemonStatus(out)
  <2>1. status = 0 /\ \E r \in Seq(Byte) : out = Hello \o r
    BY <1>1 DEF GreetingInv, Connected
  <2>2. DaemonStatus(out) = 1002
    BY <2>1, DaemonReadsNoVersion
  <2> QED BY <2>1, <2>2
<1>2. GreetingInv => DaemonShutOut
  BY <1>1 DEF DaemonShutOut
<1> QED BY <1>2, Greeting, PTL
-----------------------------------------------------------------------------
(* The daemon's parser on what is written. *)

(* pw_frame_parse_header on any bytes (pw_frame.c:43-80): an error,        *)
(* nothing yet, or a header of at least seven bytes.                       *)
LEMMA ParsedHeader ==
  ASSUME NEW s \in Seq(Byte)
  PROVE  LET h == ParseHeader(s)
         IN  \/ h.parsed \in {0, -1}
             \/ h.parsed \in Nat /\ h.parsed >= 7 /\ h.opcode \in Byte /\ h.length \in Nat
<1> DEFINE id  == DecodeVarint(Drop(s, 5))
           len == DecodeVarint(Drop(s, 5 + id.parsed))
<1>1. Len(s) \in Nat
  BY LenProperties
<1>2. CASE Len(s) < 5
  BY <1>2 DEF ParseHeader, Wait
<1>3. CASE ~(Len(s) < 5) /\ SubSeq(s, 1, 2) # Magic
  BY <1>3 DEF ParseHeader, BadMagic, Magic, PW_MAGIC_BYTE_1, PW_MAGIC_BYTE_2
<1>4. CASE ~(Len(s) < 5) /\ SubSeq(s, 1, 2) = Magic
  <2>1. ParseHeader(s) = IF id.parsed = 0 \/ len.parsed = 0 THEN Wait
                         ELSE [parsed |-> 5 + id.parsed + len.parsed,
                               version |-> s[3], flags |-> s[4], opcode |-> s[5],
                               stream_id |-> id.value, length |-> len.value]
    BY <1>4 DEF ParseHeader, Magic, PW_MAGIC_BYTE_1, PW_MAGIC_BYTE_2
  <2>2. Drop(s, 5) \in Seq(Byte) /\ Len(Drop(s, 5)) = Len(s) - 5
    <3>1. 5 \in 0 .. Len(s)
      BY <1>1, <1>4
    <3> QED BY <3>1, DropProperties
  <2>3. id = Wait \/ \E n \in 1 .. Len(Drop(s, 5)) : id = Varint(Drop(s, 5), n)
    BY <2>2, DecodeVarintCases
  <2>4. s[5] \in Byte
    <3>1. 5 \in 1 .. Len(s)
      BY <1>1, <1>4
    <3> QED BY <3>1, ElementOfSeq
  <2>5. CASE id = Wait
    BY <2>1, <2>5 DEF Wait
  <2>6. CASE \E n \in 1 .. Len(Drop(s, 5)) : id = Varint(Drop(s, 5), n)
    <3>1. PICK n \in 1 .. Len(Drop(s, 5)) : id = Varint(Drop(s, 5), n)
      BY <2>6
    <3>2. id.parsed = n
      BY <3>1 DEF Varint
    <3>3. n \in Nat /\ n >= 1 /\ 5 + n \in 0 .. Len(s) /\ 5 + n \in Nat
      BY <1>1, <1>4, <2>2
    <3> DEFINE d == Drop(s, 5 + n)
    <3>4. d \in Seq(Byte) /\ len = DecodeVarint(d)
      BY <3>2, <3>3, DropProperties
    <3> HIDE DEF id, len, d
    <3>5. len = Wait \/ \E m \in 1 .. Len(d) : len = Varint(d, m)
      BY <3>4, DecodeVarintCases
    <3>6. CASE len = Wait
      BY <2>1, <3>6 DEF Wait
    <3>7. CASE \E m \in 1 .. Len(d) : len = Varint(d, m)
      <4>1. PICK m \in 1 .. Len(d) : len = Varint(d, m)
        BY <3>7
      <4>2. m \in Nat /\ m \in 0 .. Len(d) /\ m >= 1
        BY <3>4, LenProperties
      <4>3. SubSeq(d, 1, m) \in Seq(Byte)
        BY <3>4, <4>2, FrontAndRest
      <4>4. VarintValue(SubSeq(d, 1, m)) \in Nat
        BY <4>3, VarintValueType
      <4>5. len.parsed = m /\ len.value \in Nat
        BY <4>1, <4>4 DEF Varint
      <4>6. ParseHeader(s) = [parsed |-> 5 + id.parsed + len.parsed,
                               version |-> s[3], flags |-> s[4], opcode |-> s[5],
                               stream_id |-> id.value, length |-> len.value]
        BY <2>1, <3>2, <3>3, <4>2, <4>5
      <4>7. ParseHeader(s).parsed = 5 + n + m /\ ParseHeader(s).opcode = s[5] /\ ParseHeader(s).length = len.value
        BY <3>2, <4>5, <4>6
      <4> QED BY <2>4, <3>3, <4>2, <4>5, <4>7
    <3> QED BY <3>5, <3>6, <3>7
  <2> QED BY <2>3, <2>5, <2>6
<1> QED BY <1>2, <1>3, <1>4

(* DaemonFrames, one frame at a time. *)
DaemonFrame(s) ==
  LET h == ParseHeader(s)
  IN  [opcode |-> h.opcode, payload |-> SubSeq(s, h.parsed + 1, h.parsed + h.length)]
DaemonFrameEnd(s) == ParseHeader(s).parsed + ParseHeader(s).length
DaemonStep(s, g) ==
  IF s = << >> THEN << >>
  ELSE IF ParseHeader(s).parsed =< 0 THEN <<Wait>>
  ELSE IF Len(s) < DaemonFrameEnd(s) THEN <<Wait>>
  ELSE <<DaemonFrame(s)>> \o g[Drop(s, DaemonFrameEnd(s))]

(* A frame the daemon takes shortens its input. *)
LEMMA DaemonFrameWithin ==
  ASSUME NEW s \in Seq(Byte), ~(ParseHeader(s).parsed =< 0), ~(Len(s) < DaemonFrameEnd(s))
  PROVE  /\ DaemonFrame(s) \in ClientFrame
         /\ Drop(s, DaemonFrameEnd(s)) \in Seq(Byte) /\ Len(Drop(s, DaemonFrameEnd(s))) < Len(s)
<1> DEFINE h == ParseHeader(s)
           m == h.parsed
           n == h.length
<1>1. m \in Nat /\ m >= 7 /\ h.opcode \in Byte /\ n \in Nat
  BY ParsedHeader
<1>2. DaemonFrameEnd(s) = m + n /\ Len(s) \in Nat
  BY LenProperties DEF DaemonFrameEnd
<1>3. DaemonFrame(s) = [opcode |-> h.opcode, payload |-> SubSeq(s, m + 1, m + n)]
  BY DEF DaemonFrame
<1> HIDE DEF h, m, n
<1>4. m + n \in 0 .. Len(s) /\ m + n \in Nat /\ m + 1 \in Nat /\ 1 =< m + 1 /\ m + n =< Len(s) /\ m + 1 =< (m + n) + 1
  BY <1>1, <1>2
<1>5. SubSeq(s, m + 1, m + n) \in Seq(Byte)
  BY <1>4, SubSeqWithin
<1>6. Drop(s, m + n) \in Seq(Byte) /\ Len(Drop(s, m + n)) = Len(s) - (m + n)
  BY <1>4, DropProperties
<1>7. Len(Drop(s, m + n)) < Len(s)
  BY <1>1, <1>2, <1>6
<1> QED BY <1>1, <1>2, <1>3, <1>5, <1>6, <1>7 DEF ClientFrame

(* DaemonFrames, a frame at a time: its recursion ends for all bytes. *)
LEMMA DaemonFramesUnfolds ==
  \A s \in Seq(Byte) : DaemonFrames[s] = DaemonStep(s, DaemonFrames)
<1> DEFINE S == Seq(Byte)
           V == Seq({Wait} \cup ClientFrame)
           F == [S -> V]
           body(f) == [s \in S |-> DaemonStep(s, f)]
           step == [p \in S \X F |-> DaemonStep(p[1], p[2])]
           measure == [s \in S |-> Len(s)]
<1>1. ASSUME NEW s \in S, NEW g \in F PROVE DaemonStep(s, g) \in V
  <2>1. << >> \in V /\ <<Wait>> \in V
    OBVIOUS
  <2>2. CASE ~(ParseHeader(s).parsed =< 0) /\ ~(Len(s) < DaemonFrameEnd(s))
    <3>1. DaemonFrame(s) \in ClientFrame /\ Drop(s, DaemonFrameEnd(s)) \in S
      BY <2>2, DaemonFrameWithin
    <3>2. <<DaemonFrame(s)>> \in V /\ g[Drop(s, DaemonFrameEnd(s))] \in V
      BY <3>1
    <3> HIDE DEF S
    <3>3. <<DaemonFrame(s)>> \o g[Drop(s, DaemonFrameEnd(s))] \in V
      BY <3>2, ConcatProperties
    <3> QED BY <2>1, <3>3, Zenon DEF DaemonStep
  <2> QED BY <2>1, <2>2, Zenon DEF DaemonStep
<1>2. ASSUME NEW s \in S, NEW g \in F, NEW h \in F, \A r \in S : measure[r] < measure[s] => g[r] = h[r]
      PROVE  DaemonStep(s, g) = DaemonStep(s, h)
  <2>1. CASE ~(ParseHeader(s).parsed =< 0) /\ ~(Len(s) < DaemonFrameEnd(s))
    <3> DEFINE d == Drop(s, DaemonFrameEnd(s))
    <3>1. d \in S /\ Len(d) < Len(s)
      BY <2>1, DaemonFrameWithin
    <3> HIDE DEF d
    <3>2. measure[d] < measure[s]
      BY <3>1
    <3>3. g[d] = h[d]
      BY <1>2, <3>1, <3>2
    <3> QED BY <3>3, Zenon DEF DaemonStep, d
  <2> QED BY <2>1, Zenon DEF DaemonStep
<1>3. measure \in [S -> Nat] /\ V # {}
  <2>1. \A s \in S : Len(s) \in Nat
    BY LenProperties
  <2>2. << >> \in V
    OBVIOUS
  <2> QED BY <2>1, <2>2
<1>4. step \in [S \X F -> V]
  <2> HIDE DEF S, V
  <2> QED BY <1>1
<1>5. \A s \in S, g, h \in F :
        (\A r \in S : measure[r] < measure[s] => g[r] = h[r]) => step[<<s, g>>] = step[<<s, h>>]
  <2> SUFFICES ASSUME NEW s \in S, NEW g \in F, NEW h \in F, \A r \in S : measure[r] < measure[s] => g[r] = h[r]
               PROVE  step[<<s, g>>] = step[<<s, h>>]
    BY Zenon
  <2>1. DaemonStep(s, g) = DaemonStep(s, h)
    BY <1>2
  <2> HIDE DEF S, V, measure
  <2> QED BY <2>1
<1>6. PICK f \in F : \A s \in S : f[s] = step[<<s, f>>]
  <2> HIDE DEF step, measure, S, V
  <2>3. Descends(S, V, measure, step)
    BY <1>3, <1>4, <1>5, Zenon DEF Descends
  <2>4. PICK f : Recurs(S, V, step, f)
    BY <2>3, MeasuredRecursion, Zenon
  <2> QED BY <2>4 DEF Recurs
<1>7. f = body(f)
  <2> HIDE DEF S, V
  <2>1. f = [s \in S |-> f[s]]
    OBVIOUS
  <2>2. \A s \in S : f[s] = DaemonStep(s, f)
    BY <1>6
  <2> QED BY <2>1, <2>2
<1>8. DaemonFrames = CHOOSE g : g = body(g)
  BY DEF DaemonFrames, DaemonStep, DaemonFrame, DaemonFrameEnd
<1>9. DaemonFrames = body(DaemonFrames)
  <2> HIDE DEF body
  <2> QED BY <1>7, <1>8
<1> QED BY <1>9

(* The frames whose length a 32-bit varint holds, and their bytes. *)
ClientFrames == {f \in ClientFrame : Len(f.payload) \in Word32}
clientBytes == [f \in ClientFrames |-> FrameBytes(f.opcode, f.payload)]

(* The client's frames and their bytes. *)
LEMMA ClientBytesType ==
  /\ clientBytes \in [ClientFrames -> Seq(Byte)]
  /\ \A f \in ClientFrames : f.opcode \in Byte /\ f.payload \in Seq(Byte) /\ Len(f.payload) \in Word32
                             /\ f = [opcode |-> f.opcode, payload |-> f.payload]
<1>1. ASSUME NEW f \in ClientFrames
      PROVE  /\ f.opcode \in Byte /\ f.payload \in Seq(Byte) /\ Len(f.payload) \in Word32
             /\ f = [opcode |-> f.opcode, payload |-> f.payload]
  BY DEF ClientFrames, ClientFrame
<1>2. \A f \in ClientFrames : FrameBytes(f.opcode, f.payload) \in Seq(Byte)
  BY <1>1, FrameBytesType
<1> QED BY <1>1, <1>2 DEF clientBytes

(* The daemon's parser on one of this client's frames with anything behind it. *)
LEMMA DaemonReadsFrame ==
  ASSUME NEW w, NEW opcode, NEW payload, NEW t \in Seq(Byte), IsFrame(w, opcode, payload)
  PROVE  DaemonFrames[w \o t] = <<[opcode |-> opcode, payload |-> payload]>> \o DaemonFrames[t]
<1>1. PICK h, e1, e2, id : Framed(w, h, e1, e2, id, opcode, payload)
  BY DEF IsFrame
<1> DEFINE s == w \o t
           m == Len(e1)
           n == Len(e2)
<1>a. ReadAs(s, w, m, n, id, opcode, payload)
  BY <1>1, FramedRead
<1> HIDE DEF s, m, n
<1>2. /\ w \in Seq(Byte) /\ Len(w) \in Nat /\ Len(w) >= 7
      /\ Len(s) >= 5 /\ SubSeq(s, 1, 2) = Magic /\ s[5] = opcode
      /\ m \in Nat /\ n \in Nat /\ m >= 1 /\ n >= 1
      /\ 5 + m + n + Len(payload) = Len(w) /\ Len(payload) \in Nat
      /\ SubSeq(s, 5 + m + n + 1, Len(w)) = payload
  BY <1>a DEF ReadAs
<1>b. DecodeVarint(Drop(s, 5)) = [parsed |-> m, value |-> id]
  BY <1>a DEF ReadAs
<1>c. DecodeVarint(Drop(s, 5 + m)) = [parsed |-> n, value |-> Len(payload)]
  BY <1>a DEF ReadAs
<1>3. s \in Seq(Byte) /\ Len(s) = Len(w) + Len(t) /\ Len(t) \in Nat
  BY <1>2, Joined DEF s
<1>4. Drop(s, Len(w)) = t
  BY <1>2, DropFront DEF s
<1>5. ParseHeader(s) = [parsed |-> 5 + m + n, version |-> s[3], flags |-> s[4], opcode |-> s[5],
                        stream_id |-> id, length |-> Len(payload)]
  <2>1. DecodeVarint(Drop(s, 5)).parsed = m /\ DecodeVarint(Drop(s, 5)).value = id
    BY <1>b
  <2>2. DecodeVarint(Drop(s, 5 + m)).parsed = n /\ DecodeVarint(Drop(s, 5 + m)).value = Len(payload)
    BY <1>c
  <2>3. ~(Len(s) < 5) /\ SubSeq(s, 1, 2) = <<80, 87>> /\ m # 0 /\ n # 0
    BY <1>2, <1>3 DEF Magic
  <2> QED BY <2>1, <2>2, <2>3, Zenon DEF ParseHeader, PW_MAGIC_BYTE_1, PW_MAGIC_BYTE_2
<1>6. ParseHeader(s).parsed = 5 + m + n /\ ParseHeader(s).length = Len(payload) /\ ParseHeader(s).opcode = opcode
  BY <1>2, <1>5
<1>7. /\ s # << >> /\ ~(ParseHeader(s).parsed =< 0) /\ DaemonFrameEnd(s) = Len(w) /\ ~(Len(s) < DaemonFrameEnd(s))
      /\ DaemonFrame(s) = [opcode |-> opcode, payload |-> payload]
  <2>1. DaemonFrameEnd(s) = Len(w)
    BY <1>2, <1>6 DEF DaemonFrameEnd
  <2>2. DaemonFrame(s) = [opcode |-> opcode, payload |-> SubSeq(s, 5 + m + n + 1, Len(w))]
    BY <1>2, <1>6 DEF DaemonFrame
  <2>3. ~(ParseHeader(s).parsed =< 0) /\ ~(Len(s) < Len(w))
    BY <1>2, <1>3, <1>6
  <2>4. s # << >>
    BY <1>2, EmptySeq
  <2> QED BY <1>2, <2>1, <2>2, <2>3, <2>4
<1>8. DaemonFrames[s] = <<[opcode |-> opcode, payload |-> payload]>> \o DaemonFrames[t]
  <2>1. DaemonFrames[s] = DaemonStep(s, DaemonFrames)
    BY <1>3, DaemonFramesUnfolds
  <2> QED BY <1>4, <1>7, <2>1, Zenon DEF DaemonStep
<1> QED BY <1>8 DEF s

(* The first of a sequence and the others. *)
LEMMA FirstAndRest ==
  ASSUME NEW X, NEW s \in Seq(X), s # << >>
  PROVE  /\ s = <<s[1]>> \o Tail(s) /\ s[1] \in X /\ Tail(s) \in Seq(X)
         /\ Len(Tail(s)) = Len(s) - 1 /\ Len(s) \in Nat /\ Len(s) >= 1
<1>1. Len(s) \in Nat /\ Len(s) >= 1
  BY EmptySeq, LenProperties
<1>2. Tail(s) \in Seq(X) /\ Len(Tail(s)) = Len(s) - 1 /\ \A i \in 1 .. Len(Tail(s)) : Tail(s)[i] = s[i + 1]
  BY HeadTailProperties
<1>3. s[1] \in X
  <2>1. 1 \in 1 .. Len(s)
    BY <1>1
  <2> QED BY <2>1, ElementOfSeq
<1> DEFINE a == <<s[1]>>
           b == Tail(s)
<1>4. a \in Seq(X) /\ Len(a) = 1 /\ a[1] = s[1]
  BY <1>3
<1> HIDE DEF a, b
<1> DEFINE c == a \o b
<1>5. c \in Seq(X) /\ Len(c) = Len(a) + Len(b) /\ (\A i \in 1 .. Len(a) : c[i] = a[i])
      /\ \A i \in 1 .. Len(b) : c[Len(a) + i] = b[i]
  <2>1. b \in Seq(X)
    BY <1>2 DEF b
  <2>2. c \in Seq(X) /\ Len(c) = Len(a) + Len(b) /\ \A i \in 1 .. Len(a) : c[i] = a[i]
    BY <1>4, <2>1, Joined, Zenon
  <2>3. \A i \in 1 .. Len(b) : c[Len(a) + i] = b[i]
    <3> SUFFICES ASSUME NEW i \in 1 .. Len(b) PROVE c[Len(a) + i] = b[i]
      BY Zenon
    <3>1. a \in Seq(X) /\ Len(a) = 1 /\ Len(b) \in Nat
      BY <1>4, <2>1, LenProperties
    <3>2. \A j \in 1 .. Len(a) + Len(b) : c[j] = IF j <= Len(a) THEN a[j] ELSE b[j - Len(a)]
      BY <2>1, <3>1, ConcatProperties, Zenon
    <3> HIDE DEF c
    <3>3. Len(a) + i \in 1 .. Len(a) + Len(b) /\ ~(Len(a) + i <= Len(a)) /\ (Len(a) + i) - Len(a) = i
      BY <3>1
    <3> QED BY <3>2, <3>3
  <2> QED BY <2>2, <2>3
<1> HIDE DEF c
<1>6. ASSUME NEW i \in 1 .. Len(s) PROVE c[i] = s[i]
  <2>1. CASE i = 1
    BY <1>4, <1>5, <2>1
  <2>2. CASE i # 1
    <3>1. i - 1 \in 1 .. Len(b) /\ 1 + (i - 1) = i /\ (i - 1) + 1 = i
      BY <1>1, <1>2, <2>2 DEF b
    <3> QED BY <1>2, <1>4, <1>5, <3>1 DEF b
  <2> QED BY <2>1, <2>2
<1>7. Len(c) = Len(s)
  BY <1>1, <1>2, <1>4, <1>5 DEF b
<1>8. c = s
  BY <1>5, <1>6, <1>7, SeqEqual
<1> QED BY <1>1, <1>2, <1>3, <1>8 DEF a, b, c

(* ... and on any number of them. *)
LEMMA DaemonReads ==
  ASSUME NEW fs \in Seq(ClientFrames), NEW w, Chain(w, fs, clientBytes, Byte)
  PROVE  DaemonFrames[w] = fs
<1> DEFINE Misread(n, gs, v) == /\ Len(gs) = n /\ Chain(v, gs, clientBytes, Byte) /\ DaemonFrames[v] # gs
           T == {n \in Nat : \E gs \in Seq(ClientFrames), v \in Seq(Byte) : Misread(n, gs, v)}
<1>1. SUFFICES ASSUME T # {} PROVE FALSE
  <2>1. Len(fs) \in Nat /\ w \in Seq(Byte)
    BY LenProperties, ChainType
  <2>2. Len(fs) \notin T => DaemonFrames[w] = fs
    BY <2>1
  <2> HIDE DEF T
  <2> QED BY <2>1, <2>2
<1>2. PICK n \in T : \A m \in T : n =< m
  BY <1>1, NatMin
<1>3. PICK gs \in Seq(ClientFrames), v \in Seq(Byte) : Misread(n, gs, v)
  BY <1>2
<1>4. Len(gs) = n /\ Chain(v, gs, clientBytes, Byte) /\ DaemonFrames[v] # gs
  BY <1>3
<1>5. CASE gs = << >>
  <2>1. v = << >>
    BY <1>4, <1>5, ChainOfNone
  <2>2. DaemonFrames[v] = DaemonStep(v, DaemonFrames)
    BY DaemonFramesUnfolds
  <2>3. DaemonFrames[v] = << >>
    BY <2>1, <2>2, Zenon DEF DaemonStep
  <2> QED BY <1>4, <1>5, <2>3
<1>6. CASE gs # << >>
  <2> DEFINE f == gs[1]
             r == Tail(gs)
  <2>1. gs = <<f>> \o r /\ f \in ClientFrames /\ r \in Seq(ClientFrames) /\ Len(r) = n - 1 /\ n \in Nat /\ n >= 1
    BY <1>4, <1>6, FirstAndRest
  <2>2. PICK u \in Seq(Byte) : v = clientBytes[f] \o u /\ Chain(u, r, clientBytes, Byte)
    BY <1>4, <1>6, ChainHead
  <2> HIDE DEF f, r
  <2>3. n - 1 \in Nat /\ n - 1 \notin T
    <3>1. n - 1 \in Nat /\ ~(n =< n - 1)
      BY <2>1
    <3> HIDE DEF T
    <3> QED BY <1>2, <3>1
  <2>4. DaemonFrames[u] = r
    <3>1. ~Misread(n - 1, r, u)
      <4> HIDE DEF Misread
      <4> QED BY <2>1, <2>3
    <3> QED BY <2>1, <2>2, <3>1
  <2>5. IsFrame(clientBytes[f], f.opcode, f.payload) /\ f = [opcode |-> f.opcode, payload |-> f.payload]
    <3>1. /\ f.opcode \in Byte /\ f.payload \in Seq(Byte) /\ Len(f.payload) \in Word32
          /\ f = [opcode |-> f.opcode, payload |-> f.payload]
      BY <2>1, ClientBytesType
    <3>2. clientBytes[f] = FrameBytes(f.opcode, f.payload)
      BY <2>1 DEF clientBytes
    <3>3. IsFrame(FrameBytes(f.opcode, f.payload), f.opcode, f.payload)
      BY <3>1, FrameBytesFramed
    <3> QED BY <3>1, <3>2, <3>3, Zenon
  <2>6. DaemonFrames[v] = <<f>> \o DaemonFrames[u]
    <3>1. DaemonFrames[clientBytes[f] \o u] = <<[opcode |-> f.opcode, payload |-> f.payload]>> \o DaemonFrames[u]
      BY <2>5, DaemonReadsFrame
    <3> QED BY <2>2, <2>5, <3>1, Zenon
  <2> QED BY <1>4, <2>1, <2>4, <2>6, Zenon
<1> QED BY <1>5, <1>6

(* What the two implementations must agree on: every write is whole, no    *)
(* payload outgrows a 32-bit length, and the token fits into the 4096      *)
(* bytes the native client gives its AUTH payload.                         *)
WholeFrames ==
  /\ ~ShortWrites
  /\ \A p \in Payloads : Len(p) \in Word32
  /\ 5 + Len(token) =< 4096

(* The bytes on the stream are the hello and the frames sent. *)
Written ==
  /\ sent \in Seq(ClientFrames)
  /\ \/ sent = << >> /\ out = << >>
     \/ \E body \in Seq(Byte) : out = Hello \o body /\ Chain(body, sent, clientBytes, Byte)

(* The payloads of the frames that connect(), receive() and disconnect()   *)
(* send fit 32 bits.                                                       *)
LEMMA SmallLengths ==
  ASSUME WholeFrames
  PROVE  Len(AuthPayload) \in Word32 /\ Len(<< >>) \in Word32
<1>1. Len(AuthPayload) \in Nat /\ Len(AuthPayload) =< 4096
  BY AuthPayloadFacts, SMT DEF WholeFrames
<1>2. \A n \in Nat : n =< 4096 => n \in Word32
  BY SMT DEF Word32
<1>3. Len(<< >>) \in Nat /\ Len(<< >>) =< 4096
  BY SMT
<1>4. Len(AuthPayload) \in Word32
  BY <1>1, <1>2
<1>5. Len(<< >>) \in Word32
  BY <1>2, <1>3
<1> QED BY <1>4, <1>5

(* One more frame on the stream, written whole. *)
LEMMA StillWritten ==
  ASSUME NEW op \in Byte, NEW p \in Seq(Byte), Len(p) \in Word32, SendFrame(op, p), StreamTypeOK,
         Written, ~ShortWrites, \E r \in Seq(Byte) : out = Hello \o r
  PROVE  Written'
<1> DEFINE f == [opcode |-> op, payload |-> p]
           h == Hello
           e == clientBytes[f]
<1>1. f \in ClientFrames /\ e = FrameBytes(op, p)
  <2>1. f \in ClientFrames /\ f.opcode = op /\ f.payload = p
    BY DEF ClientFrames, ClientFrame
  <2> HIDE DEF f
  <2> QED BY <2>1 DEF clientBytes
<1>2. sent' = Append(sent, f) /\ out' = out \o e
  BY <1>1, SendFrameWrites DEF StreamTypeOK
<1>3. h \in Seq(Byte) /\ Len(h) = 27 /\ e \in Seq(Byte) /\ sent \in Seq(ClientFrames)
  BY <1>1, HelloFacts, FrameBytesType DEF Written
<1> HIDE DEF f, h, e
<1>4. out # << >>
  <2>1. PICK r \in Seq(Byte) : out = h \o r
    BY DEF h
  <2>2. Len(h \o r) = Len(h) + Len(r) /\ Len(r) \in Nat
    <3>1. h \in Seq(Byte)
      BY <1>3
    <3> QED BY <3>1, Joined, Zenon
  <2>3. Len(out) # 0
    BY <1>3, <2>1, <2>2
  <2> QED BY <2>3, EmptySeq
<1>5. PICK body \in Seq(Byte) : out = h \o body /\ Chain(body, sent, clientBytes, Byte)
  BY <1>4 DEF Written, h
<1>6. out' = h \o (body \o e) /\ body \o e \in Seq(Byte)
  <2>1. (h \o body) \o e = h \o (body \o e)
    BY <1>3, Associative
  <2> QED BY <1>2, <1>3, <1>5, <2>1, Joined
<1>7. Chain(body \o e, Append(sent, f), clientBytes, Byte)
  BY <1>1, <1>3, <1>5, ClientBytesType, ChainAppend DEF e
<1>8. Append(sent, f) \in Seq(ClientFrames)
  BY <1>1, <1>3, AppendProperties
<1> HIDE DEF Chain
<1> QED BY <1>2, <1>6, <1>7, <1>8, Zenon DEF Written, h

(* What is written, at first ... *)
LEMMA InitWritten == Init => Written
<1> SUFFICES ASSUME Init PROVE Written
  OBVIOUS
<1>1. sent = << >> /\ out = << >>
  BY DEF Init
<1>2. << >> \in Seq(ClientFrames)
  OBVIOUS
<1> QED BY <1>1, <1>2, Zenon DEF Written

(* ... and after every step. *)
LEMMA WrittenStep ==
  ASSUME WholeFrames, GreetingInv, Written, [Next]_vars
  PROVE  Written'
<1>0. /\ StreamTypeOK /\ HelloUnread /\ Connected /\ ~ShortWrites
      /\ Len(AuthPayload) \in Word32 /\ Len(<< >>) \in Word32
  BY SmallLengths DEF GreetingInv, WholeFrames
<1>a. ASSUME UNCHANGED <<out, sent>> PROVE Written'
  BY <1>a DEF Written
<1>b. stream = "open" => \E r \in Seq(Byte) : out = Hello \o r
  BY <1>0 DEF Connected
<1>c. ASSUME CloseStream, stream = "open" PROVE Written'
  <2>1. SendFrame(OPCODE_CLOSE, << >>)
    BY <1>c DEF CloseStream
  <2> QED BY <1>0, <1>b, <1>c, <2>1, Opcodes, EmptyBytes, StillWritten
<1>d. pc # "app" => stream = "open"
  BY <1>0 DEF Connected
<1>1. CASE Connect
  <2>1. sent' = << >> /\ (out' = Hello \/ out' = << >>)
    BY <1>1 DEF Connect
  <2>2. << >> \in Seq(ClientFrames)
    OBVIOUS
  <2>3. Hello \o << >> = Hello
    BY HelloFacts, ConcatEmptySeq
  <2>4. Chain(<< >>, << >>, clientBytes, Byte)
    BY ChainNone
  <2> QED BY <2>1, <2>2, <2>3, <2>4, EmptyBytes, Zenon DEF Written
<1>2. CASE HelloArrives
  <2>1. CASE Throw
    BY <1>a, <2>1 DEF Throw
  <2>2. CASE SendFrame(OPCODE_AUTH, AuthPayload)
    <3>1. stream = "open"
      BY <1>2, <1>d DEF HelloArrives
    <3> QED BY <1>0, <1>b, <2>2, <3>1, Opcodes, AuthPayloadFacts, StillWritten
  <2> QED BY <1>2, <2>1, <2>2 DEF HelloArrives
<1>3. CASE AuthAnswered
  BY <1>3, <1>a DEF AuthAnswered, Throw
<1>4. CASE ConnectReadFails
  BY <1>4, <1>a DEF ConnectReadFails, Throw
<1>5. ASSUME NEW p \in Payloads, Send(p) PROVE Written'
  <2>1. stream = "open" /\ SendFrame(OPCODE_DATA_TEXT, p)
    BY <1>5 DEF Send
  <2>2. p \in Seq(Byte) /\ Len(p) \in Word32
    BY StreamClientAssumption DEF WholeFrames
  <2> QED BY <1>0, <1>b, <2>1, <2>2, Opcodes, StillWritten
<1>6. CASE Disconnect
  BY <1>6, <1>c DEF Disconnect
<1>7. CASE Receive
  BY <1>7, <1>a DEF Receive
<1>8. CASE FrameArrives
  <2>1. stream = "open"
    BY <1>8, <1>d, FrameArrivesCases
  <2>2. CASE SendFrame(OPCODE_PONG, << >>)
    BY <1>0, <1>b, <2>1, <2>2, Opcodes, EmptyBytes, StillWritten
  <2> QED BY <1>8, <1>a, <1>c, <2>1, <2>2, FrameArrivesCases
<1>9. CASE FrameBroken
  BY <1>9, <1>c, <1>d DEF FrameBroken
<1>10. CASE PeerSaysHello
  BY <1>10, <1>a DEF PeerSaysHello, clientVars
<1>11. ASSUME NEW f \in PeerFrames, PeerSaysFrame(f) PROVE Written'
  BY <1>11, <1>a DEF PeerSaysFrame, clientVars
<1>12. CASE PeerCloses
  BY <1>12, <1>a DEF PeerCloses, clientVars
<1>13. CASE Arrive
  BY <1>13, <1>a DEF Arrive, clientVars
<1>14. CASE UNCHANGED vars
  BY <1>14, <1>a DEF vars, clientVars
<1> QED BY <1>1, <1>2, <1>3, <1>4, <1>5, <1>6, <1>7, <1>8, <1>9, <1>10, <1>11, <1>12, <1>13, <1>14 DEF Next

(* The native side of AUTH, on this client's payload. *)
LEMMA AuthUnderstood ==
  ASSUME 5 + Len(token) =< 4096
  PROVE  /\ AuthPayload = SerializeAuth([method |-> PW_AUTH_METHOD_BEARER, token |-> token], 4096)
         /\ ValidateBearer(ParseAuth(AuthPayload), token)
<1> DEFINE s == AuthPayload
           n == Len(token)
<1>1. /\ s \in Seq(Byte) /\ Len(s) = 5 + n /\ s[1] = 1 /\ n \in Nat
      /\ SubSeq(s, 2, 5) = WriteBE(n, 4) /\ SubSeq(s, 6, 5 + n) = token
  BY AuthPayloadFacts
<1>2. n \in Word32
  BY <1>1, SMT DEF Word32
<1>3. s = SerializeAuth([method |-> PW_AUTH_METHOD_BEARER, token |-> token], 4096)
  BY <1>1 DEF SerializeAuth, Fit, AuthPayload, PW_AUTH_METHOD_BEARER
<1> HIDE DEF s, n
<1> DEFINE q == SubSeq(s, 2, 5)
           b == WriteBE(n, 4)
           r == ReadBE(q)
<1>4. r = n
  <2>1. ReadBE(b) = n
    BY <1>2, ReadWriteFour
  <2>2. q = b
    BY <1>1
  <2> HIDE DEF q, b
  <2> QED BY <2>1, <2>2
<1>5. ~(Len(s) < 5) /\ ~(Len(s) - 5 < r)
  BY <1>1, <1>4
<1>a. ParseAuth(s) = [parsed |-> 5 + r, method |-> s[1], token |-> SubSeq(s, 6, 5 + r)]
  BY <1>5 DEF ParseAuth
<1> HIDE DEF r
<1>6. ParseAuth(s) = [parsed |-> 5 + n, method |-> s[1], token |-> SubSeq(s, 6, 5 + n)]
  BY <1>4, <1>a
<1>7. ValidateBearer(ParseAuth(s), token)
  BY <1>1, <1>6 DEF ValidateBearer, PW_AUTH_METHOD_BEARER
<1> QED BY <1>3, <1>7 DEF s

(* What is written is read as what was sent. *)
LEMMA WrittenRead ==
  ASSUME Written
  PROVE  DaemonFrames[Drop(out, Len(Hello))] = sent
<1>1. sent \in Seq(ClientFrames)
  BY DEF Written
<1>2. CASE sent = << >> /\ out = << >>
  <2>1. Drop(out, Len(Hello)) = << >>
    <3>1. Len(<< >>) = 0 /\ Len(Hello) = 27
      BY HelloFacts
    <3> QED BY <1>2, <3>1 DEF Drop
  <2>2. DaemonFrames[<< >>] = DaemonStep(<< >>, DaemonFrames)
    BY EmptyBytes, DaemonFramesUnfolds
  <2>3. DaemonFrames[<< >>] = << >>
    BY <2>2, Zenon DEF DaemonStep
  <2> QED BY <1>2, <2>1, <2>3, Zenon
<1>3. CASE \E body \in Seq(Byte) : out = Hello \o body /\ Chain(body, sent, clientBytes, Byte)
  <2>1. PICK body \in Seq(Byte) : out = Hello \o body /\ Chain(body, sent, clientBytes, Byte)
    BY <1>3
  <2>2. Drop(out, Len(Hello)) = body
    <3>1. Hello \in Seq(Byte)
      BY HelloFacts
    <3>2. Drop(Hello \o body, Len(Hello)) = body
      BY <3>1, DropFront
    <3> QED BY <2>1, <3>2, Zenon
  <2>3. DaemonFrames[body] = sent
    BY <1>1, <2>1, DaemonReads
  <2> QED BY <2>2, <2>3, Zenon
<1> QED BY <1>2, <1>3 DEF Written

(* Both parsers of a server hello find the same status                     *)
(* (StreamClient.php:76-89, pw_handshake.c).                               *)
LEMMA HelloUnderstood ==
  ASSUME Len(inq) \in Nat, Len(inq) >= 42
  PROVE  ParseServerHello(inq).parsed = 42 /\ ParseServerHello(inq).status = HelloStatus(inq)
<1>1. ServerHelloSize = 42 /\ 7 + PW_NONCE_SIZE + PW_SESSION_ID_SIZE = 39
  BY DEF ServerHelloSize, PW_NONCE_SIZE, PW_SESSION_ID_SIZE
<1>2. ~(Len(inq) < ServerHelloSize)
  BY <1>1
<1>3. /\ ParseServerHello(inq).parsed = ServerHelloSize
      /\ ParseServerHello(inq).status = ReadBE(SubSeq(inq, (7 + PW_NONCE_SIZE + PW_SESSION_ID_SIZE) + 1,
                                                           (7 + PW_NONCE_SIZE + PW_SESSION_ID_SIZE) + 2))
  BY <1>2 DEF ParseServerHello
<1>4. 39 + 1 = 40 /\ 39 + 2 = 41
  OBVIOUS
<1> QED BY <1>1, <1>3, <1>4 DEF HelloStatus

(* What the client writes behind its hello, if fwrite takes whole frames,  *)
(* the daemon's parser takes apart into exactly the frames that were       *)
(* meant; the AUTH payload is byte for byte the native one and passes its  *)
(* validation; and both sides read the same status from a server's hello   *)
(* (StreamClient.php:76-97, 151-175, pw_frame.c, pw_auth.c,                *)
(* pw_handshake.c): for every token, payload and number of frames.         *)
THEOREM Dialects ==
  ASSUME WholeFrames
  PROVE  Spec => []DialectsAgree
<1>1. GreetingInv /\ Written => DialectsAgree
  <2> SUFFICES ASSUME GreetingInv, Written PROVE DialectsAgree
    OBVIOUS
  <2>1. DaemonFrames[Drop(out, Len(Hello))] = sent
    BY WrittenRead
  <2>2. ASSUME NEW i \in 1 .. Len(sent), sent[i].opcode = OPCODE_AUTH
        PROVE  /\ sent[i].payload = SerializeAuth([method |-> PW_AUTH_METHOD_BEARER, token |-> token], 4096)
               /\ ValidateBearer(ParseAuth(sent[i].payload), token)
    <3>1. sent[i].payload = AuthPayload
      BY <2>2 DEF GreetingInv, AuthSent
    <3>2. /\ AuthPayload = SerializeAuth([method |-> PW_AUTH_METHOD_BEARER, token |-> token], 4096)
          /\ ValidateBearer(ParseAuth(AuthPayload), token)
      BY AuthUnderstood DEF WholeFrames
    <3> QED BY <3>1, <3>2
  <2>3. Len(inq) \in Nat
    BY LenProperties DEF GreetingInv, StreamTypeOK
  <2>4. Len(inq) >= 42 => ParseServerHello(inq).parsed = 42 /\ ParseServerHello(inq).status = HelloStatus(inq)
    BY <2>3, HelloUnderstood
  <2> QED BY <2>1, <2>2, <2>4, Zenon DEF DialectsAgree
<1>2. Init => GreetingInv /\ Written
  BY InitGreeting, InitWritten
<1>3. GreetingInv /\ Written /\ [Next]_vars => GreetingInv' /\ Written'
  BY GreetingStep, WrittenStep
<1> QED BY <1>1, <1>2, <1>3, PTL DEF Spec
-----------------------------------------------------------------------------
(* What the peer says, read by the client. *)

(* A peer whose lengths fit 32 bits and which answers AUTH as              *)
(* server_main.c:136-142 does: on stream 0, with no payload.               *)
PeerAsServer ==
  \A f \in PeerFrames :
    /\ f.stream_id \in Word32 /\ Len(f.payload) \in Word32
    /\ f.opcode \in {7, OPCODE_AUTH_OK} => f.stream_id = 0 /\ f.payload = << >>

peerBytes == [f \in PeerFrames |-> PeerFrame(f)]
dataOf == [f \in PeerFrames |->
             IF f.opcode \in {OPCODE_DATA_TEXT, OPCODE_DATA_BINARY} THEN <<f.payload>> ELSE << >>]

(* The bytes w are the frames fs, and s is g with what these frames bring. *)
Due(g, s, fs) ==
  \E due \in Seq(Seq(Byte)) : Chain(due, fs, dataOf, Seq(Byte)) /\ s = g \o due
Backlog(w, g, s, fs) ==
  fs \in Seq(PeerFrames) /\ Chain(w, fs, peerBytes, Byte) /\ Due(g, s, fs)

(* The peer's frames as bytes and as what they bring. *)
LEMMA PeerBytesType ==
  peerBytes \in [PeerFrames -> Seq(Byte)] /\ dataOf \in [PeerFrames -> Seq(Seq(Byte))]
<1>1. \A f \in PeerFrames : PeerFrame(f) \in Seq(Byte) /\ f.payload \in Seq(Byte)
  BY PeerFrameType
<1>2. ASSUME NEW f \in PeerFrames
      PROVE  (IF f.opcode \in {OPCODE_DATA_TEXT, OPCODE_DATA_BINARY} THEN <<f.payload>> ELSE << >>) \in Seq(Seq(Byte))
  <2>1. f.payload \in Seq(Byte)
    BY <1>1
  <2>2. <<f.payload>> \in Seq(Seq(Byte))
    BY <2>1
  <2> QED BY <2>2, EmptyBytes, Zenon
<1>3. peerBytes \in [PeerFrames -> Seq(Byte)]
  BY <1>1 DEF peerBytes
<1>4. dataOf \in [PeerFrames -> Seq(Seq(Byte))]
  BY <1>2 DEF dataOf
<1> QED BY <1>3, <1>4

(* Payloads, joined three at a time. *)
LEMMA AssociativeSaid ==
  \A r, s, t \in Seq(Seq(Byte)) : (r \o s) \o t = r \o (s \o t)
<1> DEFINE X == Seq(Byte)
<1> HIDE DEF X
<1>1. ASSUME NEW r \in Seq(X), NEW s \in Seq(X), NEW t \in Seq(X)
      PROVE  (r \o s) \o t = r \o (s \o t)
  BY SMT
<1> QED BY <1>1 DEF X

(* No bytes, no frame. *)
LEMMA NothingRead == ReadFrame(<< >>).parsed = 0
<1>1. Len(<< >>) < 5
  OBVIOUS
<1> QED BY <1>1, Zenon DEF ReadFrame, Wait

(* A frame that is read begins with the magic ... *)
LEMMA FrameBegins ==
  ASSUME NEW s \in Seq(Byte), ReadFrame(s).parsed > 0
  PROVE  Len(s) >= 5 /\ SubSeq(s, 1, 2) = Magic
BY ReadFrameCases DEF FrameAt, Wait, BadMagic

(* ... whose first byte is 80. *)
LEMMA MagicBegins ==
  ASSUME NEW s \in Seq(Byte), Len(s) >= 5, SubSeq(s, 1, 2) = Magic
  PROVE  s[1] = 80
<1>1. Len(s) \in Nat /\ 2 \in 0 .. Len(s) /\ 1 \in 1 .. 2
  BY LenProperties
<1>2. SubSeq(s, 1, 2)[1] = s[1]
  BY <1>1, FrontAndRest
<1>3. Magic[1] = 80
  BY DEF Magic
<1> QED BY <1>2, <1>3, Zenon

(* What is read is read of all the bytes that are there or on their way. *)
LEMMA ReadOfAll ==
  ASSUME NEW s \in Seq(Byte), NEW t \in Seq(Byte), ReadFrame(s).parsed > 0
  PROVE  /\ ReadFrame(s \o t) = ReadFrame(s)
         /\ Drop(s, ReadFrame(s).parsed) \o t = Drop(s \o t, ReadFrame(s \o t).parsed)
<1> DEFINE n == ReadFrame(s).parsed
<1>1. ReadFrame(s \o t) = ReadFrame(s) /\ n \in 1 .. Len(s) /\ n \in Nat
  BY ReadFrameStable
<1>2. n \in 0 .. Len(s)
  BY <1>1
<1> HIDE DEF n
<1>3. Drop(s \o t, n) = Drop(s, n) \o t
  BY <1>2, DropOfFront
<1> QED BY <1>1, <1>3 DEF n

(* The next frame of a backlog is what readFrame() returns. *)
LEMMA BacklogHead ==
  ASSUME PeerAsServer, NEW w, NEW g \in Seq(Seq(Byte)), NEW s, NEW fs, Backlog(w, g, s, fs), fs # << >>
  PROVE  /\ fs[1] \in PeerFrames /\ Tail(fs) \in Seq(PeerFrames)
         /\ \E v \in Seq(Byte) :
              /\ w = peerBytes[fs[1]] \o v /\ peerBytes[fs[1]] = PeerFrame(fs[1])
              /\ IsFrame(PeerFrame(fs[1]), fs[1].opcode, fs[1].payload)
              /\ Backlog(v, g \o dataOf[fs[1]], s, Tail(fs))
<1>1. fs \in Seq(PeerFrames) /\ Chain(w, fs, peerBytes, Byte) /\ Due(g, s, fs)
  BY DEF Backlog
<1> DEFINE f == fs[1]
           r == Tail(fs)
<1>2. f \in PeerFrames /\ r \in Seq(PeerFrames)
  BY <1>1, FirstAndRest
<1>3. PICK v \in Seq(Byte) : w = peerBytes[f] \o v /\ Chain(v, r, peerBytes, Byte)
  BY <1>1, ChainHead
<1>4. PICK due \in Seq(Seq(Byte)) : Chain(due, fs, dataOf, Seq(Byte)) /\ s = g \o due
  BY <1>1 DEF Due
<1>5. PICK later \in Seq(Seq(Byte)) : due = dataOf[f] \o later /\ Chain(later, r, dataOf, Seq(Byte))
  BY <1>1, <1>4, ChainHead
<1> HIDE DEF f, r
<1>6. peerBytes[f] = PeerFrame(f) /\ dataOf[f] \in Seq(Seq(Byte))
  BY <1>2, PeerBytesType DEF peerBytes
<1>7. s = (g \o dataOf[f]) \o later
  <2> DEFINE d == dataOf[f]
  <2>1. d \in Seq(Seq(Byte)) /\ s = g \o (d \o later)
    BY <1>4, <1>5, <1>6
  <2> HIDE DEF d
  <2>2. (g \o d) \o later = g \o (d \o later)
    BY <2>1, AssociativeSaid, Zenon
  <2> QED BY <2>1, <2>2 DEF d
<1>8. Due(g \o dataOf[f], s, r)
  BY <1>5, <1>7, Zenon DEF Due
<1>9. IsFrame(PeerFrame(f), f.opcode, f.payload)
  BY <1>2, PeerFrameFramed DEF PeerAsServer
<1>10. Backlog(v, g \o dataOf[f], s, r)
  BY <1>2, <1>3, <1>8, Zenon DEF Backlog
<1> QED BY <1>2, <1>3, <1>6, <1>9, <1>10, Zenon DEF f, r

(* readFrame() on a backlog takes its first frame and leaves the backlog   *)
(* of the others.                                                          *)
LEMMA BacklogRead ==
  ASSUME PeerAsServer, NEW w, NEW g \in Seq(Seq(Byte)), NEW s, NEW fs, Backlog(w, g, s, fs), fs # << >>
  PROVE  /\ ReadFrame(w).parsed > 0
         /\ ReadFrame(w).opcode = fs[1].opcode /\ ReadFrame(w).payload = fs[1].payload
         /\ Backlog(Drop(w, ReadFrame(w).parsed), g \o dataOf[fs[1]], s, Tail(fs))
         /\ Len(w) >= 7 /\ SubSeq(w, 1, 2) = Magic
<1> DEFINE p == PeerFrame(fs[1])
           opcode == fs[1].opcode
           payload == fs[1].payload
<1>0. \E v \in Seq(Byte) :
        /\ w = peerBytes[fs[1]] \o v /\ peerBytes[fs[1]] = PeerFrame(fs[1])
        /\ IsFrame(PeerFrame(fs[1]), fs[1].opcode, fs[1].payload)
        /\ Backlog(v, g \o dataOf[fs[1]], s, Tail(fs))
  BY BacklogHead, Zenon
<1>1. PICK v \in Seq(Byte) : /\ w = p \o v /\ IsFrame(p, opcode, payload)
                             /\ Backlog(v, g \o dataOf[fs[1]], s, Tail(fs))
  BY <1>0, Zenon
<1>2. PICK h, e1, e2, id : Framed(p, h, e1, e2, id, opcode, payload)
  BY <1>1 DEF IsFrame
<1> HIDE DEF p, opcode, payload
<1>3. ReadAs(w, p, Len(e1), Len(e2), id, opcode, payload)
  BY <1>1, <1>2, FramedRead
<1>4. /\ p \in Seq(Byte) /\ Len(p) \in Nat /\ Len(p) >= 7
      /\ ReadFrame(w) = [parsed |-> Len(p), opcode |-> opcode, payload |-> payload]
      /\ SubSeq(w, 1, 2) = Magic
  BY <1>3 DEF ReadAs
<1>5. ReadFrame(w).parsed = Len(p) /\ ReadFrame(w).opcode = opcode /\ ReadFrame(w).payload = payload
  BY <1>4
<1>6. Drop(w, Len(p)) = v
  BY <1>1, <1>4, DropFront
<1>7. Len(w) = Len(p) + Len(v) /\ Len(v) \in Nat
  BY <1>1, <1>4, Joined, Zenon
<1>8. ReadFrame(w).parsed > 0 /\ Len(w) >= 7
  BY <1>4, <1>5, <1>7
<1> QED BY <1>1, <1>4, <1>5, <1>6, <1>8, Zenon DEF p, opcode, payload

(* Where no bytes are left, nothing is due. *)
LEMMA BacklogNone ==
  ASSUME PeerAsServer, NEW g \in Seq(Seq(Byte)), NEW s, NEW fs, Backlog(<< >>, g, s, fs)
  PROVE  fs = << >> /\ s = g
<1>1. fs = << >>
  <2>1. SUFFICES ASSUME fs # << >> PROVE FALSE
    OBVIOUS
  <2>2. ReadFrame(<< >>).parsed > 0
    BY <2>1, BacklogRead
  <2> QED BY <2>2, NothingRead
<1>2. PICK due \in Seq(Seq(Byte)) : Chain(due, fs, dataOf, Seq(Byte)) /\ s = g \o due
  BY DEF Backlog, Due
<1>3. due = << >>
  BY <1>1, <1>2, ChainOfNone
<1>4. g \o << >> = g
  BY ConcatEmptySeq
<1> QED BY <1>1, <1>2, <1>3, <1>4

(* Where no frames are left, no bytes are. *)
LEMMA BacklogEnds ==
  ASSUME NEW w, NEW g, NEW s, Backlog(w, g, s, << >>)
  PROVE  w = << >>
<1>1. Chain(w, << >>, peerBytes, Byte)
  BY DEF Backlog
<1> QED BY <1>1, ChainOfNone

(* A backlog begins empty ... *)
LEMMA BacklogStarts ==
  ASSUME NEW g \in Seq(Seq(Byte))
  PROVE  Backlog(<< >>, g, g, << >>)
<1>1. g \o << >> = g /\ << >> \in Seq(PeerFrames)
  BY ConcatEmptySeq
<1>2. Chain(<< >>, << >>, peerBytes, Byte) /\ Chain(<< >>, << >>, dataOf, Seq(Byte))
  BY ChainNone
<1>3. Due(g, g, << >>)
  BY <1>1, <1>2, EmptyBytes, Zenon DEF Due
<1> QED BY <1>1, <1>2, <1>3, Zenon DEF Backlog

(* ... grows by what the peer says ... *)
LEMMA BacklogGrows ==
  ASSUME NEW w, NEW g \in Seq(Seq(Byte)), NEW s, NEW fs, NEW f \in PeerFrames, Backlog(w, g, s, fs)
  PROVE  Backlog(w \o peerBytes[f], g, s \o dataOf[f], Append(fs, f))
<1>1. fs \in Seq(PeerFrames) /\ Chain(w, fs, peerBytes, Byte) /\ Due(g, s, fs)
  BY DEF Backlog
<1>2. PICK due \in Seq(Seq(Byte)) : Chain(due, fs, dataOf, Seq(Byte)) /\ s = g \o due
  BY <1>1 DEF Due
<1>3. Chain(w \o peerBytes[f], Append(fs, f), peerBytes, Byte)
  BY <1>1, PeerBytesType, ChainAppend
<1>4. Chain(due \o dataOf[f], Append(fs, f), dataOf, Seq(Byte))
  BY <1>1, <1>2, PeerBytesType, ChainAppend
<1> DEFINE d == dataOf[f]
<1>5. d \in Seq(Seq(Byte))
  BY PeerBytesType
<1> HIDE DEF d
<1>6. s \o d = g \o (due \o d) /\ due \o d \in Seq(Seq(Byte))
  <2>1. (g \o due) \o d = g \o (due \o d)
    BY <1>5, AssociativeSaid, Zenon
  <2>2. due \o d \in Seq(Seq(Byte))
    BY <1>5, Joined, Zenon
  <2> QED BY <1>2, <2>1, <2>2, Zenon
<1>7. Due(g, s \o d, Append(fs, f))
  BY <1>4, <1>6, Zenon DEF Due, d
<1>8. Append(fs, f) \in Seq(PeerFrames)
  BY <1>1, AppendProperties
<1> QED BY <1>3, <1>7, <1>8, Zenon DEF Backlog, d

(* ... and what was taken from it begins what was said. *)
LEMMA BacklogPrefix ==
  ASSUME NEW w, NEW g \in Seq(Seq(Byte)), NEW s, NEW fs, Backlog(w, g, s, fs)
  PROVE  IsPrefix(g, s)
<1>1. PICK due \in Seq(Seq(Byte)) : s = g \o due
  BY DEF Backlog, Due
<1>2. SubSeq(g \o due, 1, Len(g)) = g
  BY FrontOf
<1>3. SubSeq(g, 1, Len(g)) = g
  BY SubSeqFull
<1>4. Len(g \o due) = Len(g) + Len(due) /\ Len(g) \in Nat /\ Len(due) \in Nat
  BY Joined, Zenon
<1>5. Len(g) <= Len(s)
  BY <1>1, <1>4
<1> QED BY <1>1, <1>2, <1>3, <1>5, Zenon DEF IsPrefix

OneStart(p) == \A i \in 2 .. Len(p) : p[i] # 80
Midway(t) == t # << >> /\ t[1] # 80

(* The bytes behind a first part of p that was thrown away do not begin a  *)
(* frame.                                                                  *)
LEMMA CutShort ==
  ASSUME NEW s \in Seq(Byte), NEW t \in Seq(Byte), NEW p \in Seq(Byte), NEW v \in Seq(Byte),
         s \o t = p \o v, Len(s) >= 1, Len(s) < Len(p), OneStart(p)
  PROVE  Midway(t)
<1> DEFINE a == s \o t
           b == p \o v
<1>0. Len(s) \in Nat /\ Len(t) \in Nat /\ Len(p) \in Nat /\ Len(v) \in Nat
  BY LenProperties
<1>a. Follows(a, s, t, Len(s), Len(t)) /\ Follows(b, p, v, Len(p), Len(v))
  BY Together
<1>3. a = b
  OBVIOUS
<1> HIDE DEF a, b
<1>1. Len(a) = Len(s) + Len(t) /\ Len(s) \in Nat /\ Len(t) \in Nat /\ \A i \in 1 .. Len(t) : a[Len(s) + i] = t[i]
  BY <1>0, <1>a DEF Follows
<1>2. Len(b) = Len(p) + Len(v) /\ Len(p) \in Nat /\ Len(v) \in Nat /\ \A i \in 1 .. Len(p) : b[i] = p[i]
  BY <1>0, <1>a DEF Follows
<1>4. Len(t) >= 1 /\ 1 \in 1 .. Len(t) /\ Len(s) + 1 \in 1 .. Len(p) /\ Len(s) + 1 \in 2 .. Len(p)
  BY <1>1, <1>2, <1>3
<1>5. a[Len(s) + 1] = t[1] /\ b[Len(s) + 1] = p[Len(s) + 1]
  BY <1>1, <1>2, <1>4
<1>6. t[1] # 80
  BY <1>3, <1>4, <1>5 DEF OneStart
<1> QED BY <1>4, <1>6, EmptySeq DEF Midway

(* The answer to AUTH (server_main.c:136-145): seven bytes, of which only  *)
(* the first could begin a magic.                                          *)
LEMMA AnswerBytes ==
  ASSUME PeerAsServer, NEW f \in PeerFrames, f.opcode \in {7, OPCODE_AUTH_OK}
  PROVE  PeerFrame(f) \in Seq(Byte) /\ Len(PeerFrame(f)) = 7 /\ \A i \in 2 .. 7 : PeerFrame(f)[i] # 80
<1> DEFINE h == <<80, 87, 1, 16, f.opcode>>
           z == <<0>>
           c == h \o z
           w == c \o z
<1>1. f.stream_id = 0 /\ f.payload = << >> /\ f.opcode \in Byte /\ f.opcode # 80
  BY PeerFrameType DEF PeerAsServer, OPCODE_AUTH_OK
<1>2. EncodeVarint[0] = z
  <2>1. 0 \in Nat /\ 0 < 128
    OBVIOUS
  <2> QED BY <2>1, SmallWellEncoded, Zenon
<1>3. PeerFrame(f) = Fit(w, 4096) \o << >>
  <2>1. Len(<< >>) = 0
    OBVIOUS
  <2>2. PeerFrame(f) = Fit(h \o EncodeVarint[0] \o EncodeVarint[0], 4096) \o << >>
    BY <1>1, <2>1 DEF PeerFrame, SerializeHeader, PW_MAGIC_BYTE_1, PW_MAGIC_BYTE_2, PW_VERSION_1
  <2> QED BY <1>2, <2>2
<1>4. /\ h \in Seq(Byte) /\ Len(h) = 5 /\ \A i \in 2 .. 5 : h[i] # 80
      /\ z \in Seq(Byte) /\ Len(z) = 1 /\ z[1] = 0
  BY <1>1, Bytes
<1> HIDE DEF h, z
<1>5. Follows(c, h, z, 5, 1)
  BY <1>4, JoinedFollows
<1>6. c \in Seq(Byte) /\ Len(c) = 6 /\ (\A i \in 1 .. 5 : c[i] = h[i]) /\ c[5 + 1] = z[1]
  <2>1. 1 \in 1 .. 1
    OBVIOUS
  <2> HIDE DEF c
  <2> QED BY <1>5, <2>1 DEF Follows
<1> HIDE DEF c
<1>7. Follows(w, c, z, 6, 1)
  BY <1>4, <1>6, JoinedFollows
<1>8. w \in Seq(Byte) /\ Len(w) = 7 /\ (\A i \in 1 .. 6 : w[i] = c[i]) /\ w[6 + 1] = z[1]
  <2>1. 1 \in 1 .. 1
    OBVIOUS
  <2> HIDE DEF w
  <2> QED BY <1>7, <2>1 DEF Follows
<1> HIDE DEF w
<1>9. PeerFrame(f) = w
  <2>1. Fit(w, 4096) = w
    BY <1>8, SMT DEF Fit
  <2>2. w \o << >> = w
    BY <1>8, ConcatEmptySeq
  <2> QED BY <1>3, <2>1, <2>2
<1>10. ASSUME NEW i \in 2 .. 7 PROVE w[i] # 80
  <2>1. CASE i \in 2 .. 5
    BY <1>4, <1>6, <1>8, <2>1
  <2>2. CASE i = 6
    BY <1>4, <1>6, <1>8, <2>2
  <2>3. CASE i = 7
    BY <1>4, <1>8, <2>3
  <2> QED BY <2>1, <2>2, <2>3
<1> QED BY <1>8, <1>9, <1>10

(* readFrame() takes the first eleven bytes of a hello for a frame. *)
LEMMA HelloAsFrame ==
  ASSUME NEW s \in Status, NEW t \in Seq(Byte)
  PROVE  LET w == PeerHello(s) \o t
         IN  /\ w \in Seq(Byte) /\ ReadFrame(w).parsed = 11 /\ ReadFrame(w).opcode = 0
             /\ Drop(w, 11) # << >> /\ Drop(w, 11)[1] # 80
<1> DEFINE h == PeerHello(s)
<1>1. /\ h \in Seq(Byte) /\ Len(h) = 42 /\ h[1] = 80 /\ h[2] = 87 /\ h[5] = 0 /\ h[6] = 0 /\ h[7] = 4
      /\ \A i \in 2 .. 42 : h[i] # 80
  BY PeerHelloFacts
<1> HIDE DEF h
<1> DEFINE w == h \o t
<1>2. w \in Seq(Byte) /\ Len(w) = 42 + Len(t) /\ Len(t) \in Nat /\ \A i \in 1 .. 42 : w[i] = h[i]
  <2>1. Len(t) \in Nat /\ 42 \in Nat
    BY LenProperties
  <2>2. Follows(w, h, t, 42, Len(t))
    BY <1>1, <2>1, JoinedFollows
  <2> HIDE DEF w
  <2> QED BY <2>1, <2>2 DEF Follows
<1> HIDE DEF w
<1>b. w[1] = 80 /\ w[2] = 87 /\ w[5] = 0 /\ w[6] = 0 /\ w[7] = 4 /\ w[12] # 80
  <2>1. /\ 1 \in 1 .. 42 /\ 2 \in 1 .. 42 /\ 5 \in 1 .. 42 /\ 6 \in 1 .. 42 /\ 7 \in 1 .. 42
        /\ 12 \in 1 .. 42 /\ 12 \in 2 .. 42
    OBVIOUS
  <2>2. w[1] = h[1] /\ w[2] = h[2] /\ w[5] = h[5] /\ w[6] = h[6] /\ w[7] = h[7] /\ w[12] = h[12]
    BY <1>2, <2>1, Zenon
  <2>3. h[12] # 80
    BY <1>1, <2>1, Zenon
  <2> QED BY <1>1, <2>2, <2>3, Zenon
<1>3. /\ Len(w) >= 42 /\ Len(w) \in Nat
      /\ 2 \in 0 .. Len(w) /\ 5 \in 0 .. Len(w) /\ 6 \in 0 .. Len(w) /\ 11 \in 0 .. Len(w)
  BY <1>2
<1>4. SubSeq(w, 1, 2) = Magic
  <2> DEFINE q == SubSeq(w, 1, 2)
  <2>1. q \in Seq(Byte) /\ Len(q) = 2 /\ \A i \in 1 .. 2 : q[i] = w[i]
    BY <1>2, <1>3, FrontAndRest
  <2> HIDE DEF q
  <2>2. q[1] = 80 /\ q[2] = 87
    <3>1. 1 \in 1 .. 2 /\ 2 \in 1 .. 2
      OBVIOUS
    <3> QED BY <1>b, <2>1, <3>1, Zenon
  <2>3. Magic \in Seq(Byte) /\ Len(Magic) = 2 /\ Magic[1] = 80 /\ Magic[2] = 87
    BY Bytes DEF Magic
  <2>4. \A i \in 1 .. Len(q) : q[i] = Magic[i]
    BY <2>1, <2>2, <2>3
  <2>5. q = Magic
    BY <2>1, <2>3, <2>4, SeqEqual
  <2> QED BY <2>5 DEF q
<1> DEFINE d5 == Drop(w, 5)
           d6 == Drop(w, 6)
           v == SubSeq(d6, 1, 1)
<1>5. d5 \in Seq(Byte) /\ Len(d5) = Len(w) - 5 /\ d5[1] = 0
  <2>1. d5 \in Seq(Byte) /\ Len(d5) = Len(w) - 5 /\ \A i \in 1 .. Len(w) - 5 : d5[i] = w[5 + i]
    BY <1>2, <1>3, DropProperties
  <2> HIDE DEF d5
  <2>2. 1 \in 1 .. Len(w) - 5 /\ 5 + 1 = 6
    BY <1>3
  <2>3. d5[1] = w[5 + 1]
    BY <2>1, <2>2
  <2> QED BY <1>b, <2>1, <2>2, <2>3
<1>6. d6 \in Seq(Byte) /\ Len(d6) = Len(w) - 6 /\ d6[1] = 4
  <2>1. d6 \in Seq(Byte) /\ Len(d6) = Len(w) - 6 /\ \A i \in 1 .. Len(w) - 6 : d6[i] = w[6 + i]
    BY <1>2, <1>3, DropProperties
  <2> HIDE DEF d6
  <2>2. 1 \in 1 .. Len(w) - 6 /\ 6 + 1 = 7
    BY <1>3
  <2>3. d6[1] = w[6 + 1]
    BY <2>1, <2>2
  <2> QED BY <1>b, <2>1, <2>2, <2>3
<1> HIDE DEF d5, d6
<1>7. EndsAt(d5, 1) /\ EndsAt(d6, 1)
  BY <1>3, <1>5, <1>6 DEF EndsAt
<1>8. VarintValue(v) = 4
  <2> DEFINE o == <<4>>
  <2>1. o \in Seq(Byte) /\ Len(o) = 1 /\ o[1] = 4
    BY Bytes
  <2>2. VarintValue(o) = 4
    BY SmallWellEncoded DEF WellEncoded
  <2>3. v \in Seq(Byte) /\ Len(v) = 1 /\ v[1] = 4
    <3>1. 1 \in 0 .. Len(d6) /\ 1 \in 1 .. 1
      BY <1>3, <1>6
    <3> QED BY <1>6, <3>1, FrontAndRest
  <2> HIDE DEF o, v
  <2>4. \A i \in 1 .. Len(v) : v[i] = o[i]
    BY <2>1, <2>3
  <2>5. v = o
    BY <2>1, <2>3, <2>4, SeqEqual
  <2> QED BY <2>2, <2>5
<1> HIDE DEF v
<1>9. LengthAt(w, 1, 1) = 4
  <2>1. 5 + 1 = 6
    OBVIOUS
  <2> QED BY <1>8, <2>1, Zenon DEF LengthAt, v, d6
<1>10. FrameAt(w, 1, 1)
  <2>1. Len(w) >= 5 /\ 5 + 1 = 6 /\ 5 + 1 + 1 + LengthAt(w, 1, 1) =< Len(w)
    BY <1>3, <1>9
  <2> QED BY <1>4, <1>7, <2>1, Zenon DEF FrameAt, d5, d6
<1>11. ReadFrame(w).parsed = 11 /\ ReadFrame(w).opcode = 0
  <2>1. ReadFrame(w) = FrameRead(w, 1, 1)
    BY <1>2, <1>10, ReadFrameAt
  <2>2. FrameRead(w, 1, 1).parsed = 11 /\ FrameRead(w, 1, 1).opcode = w[5]
    BY <1>9 DEF FrameRead
  <2>3. w[5] = 0
    BY <1>b
  <2> QED BY <2>1, <2>2, <2>3, Zenon
<1>12. Drop(w, 11) # << >> /\ Drop(w, 11)[1] # 80
  <2> DEFINE d == Drop(w, 11)
  <2>1. d \in Seq(Byte) /\ Len(d) = Len(w) - 11 /\ \A i \in 1 .. Len(w) - 11 : d[i] = w[11 + i]
    BY <1>2, <1>3, DropProperties
  <2> HIDE DEF d
  <2>2. 1 \in 1 .. Len(w) - 11 /\ 11 + 1 = 12 /\ Len(w) - 11 # 0
    <3>1. Len(w) \in Nat /\ Len(w) >= 42
      BY <1>3
    <3>2. \A n \in Nat : n >= 42 => 1 \in 1 .. n - 11 /\ 11 + 1 = 12 /\ n - 11 # 0
      OBVIOUS
    <3> QED BY <3>1, <3>2, Zenon
  <2>3. d[1] = w[11 + 1]
    BY <2>1, <2>2
  <2>4. d # << >>
    BY <2>1, <2>2, EmptySeq
  <2> QED BY <1>b, <2>2, <2>3, <2>4 DEF d
<1> QED BY <1>2, <1>11, <1>12 DEF w, h
-----------------------------------------------------------------------------
(* The invariant of the reading. *)

Unread == inq \o flight

(* Only the answer to AUTH begins what the peer says behind its hello. *)
Connecting(fs) ==
  /\ count.frames = 0 <=> fs = << >>
  /\ fs # << >> => fs[1].opcode \in {7, OPCODE_AUTH_OK}

(* Before the hello; with the hello unread; between two frames; behind a   *)
(* part that was thrown away.                                              *)
Silent ==
  /\ status = -1 /\ got = << >> /\ blocking = TRUE /\ pc # "auth"
  /\ Unread = << >> /\ said = << >> /\ count.frames = 0
Greeted ==
  /\ status # -1 /\ got = << >> /\ blocking = TRUE /\ pc # "auth"
  /\ \E rest, fs :
       /\ rest \in Seq(Byte)
       /\ Unread = PeerHello(status) \o rest /\ Backlog(rest, got, said, fs) /\ Connecting(fs)
Aligned ==
  /\ status # -1 /\ pc # "hello"
  /\ \E fs : /\ Backlog(Unread, got, said, fs)
             /\ pc = "auth" => Connecting(fs) /\ blocking = TRUE /\ got = << >>
Lost ==
  /\ status # -1 /\ got = << >> /\ blocking = TRUE /\ pc \in {"app", "receive"}
  /\ Unread # << >> /\ Unread[1] # 80

Reading == Silent \/ Greeted \/ Aligned \/ Lost

DeliveryInv ==
  /\ stream = "open" => Reading
  /\ stream = "none" => pc = "app" /\ IsPrefix(got, said)

(* What is to be read are bytes. *)
LEMMA UnreadType ==
  ASSUME StreamTypeOK
  PROVE  /\ Unread \in Seq(Byte) /\ inq \in Seq(Byte) /\ flight \in Seq(Byte)
         /\ Unread = << >> <=> inq = << >> /\ flight = << >>
<1>1. inq \in Seq(Byte) /\ flight \in Seq(Byte)
  BY DEF StreamTypeOK
<1>2. Unread \in Seq(Byte)
  BY <1>1, Joined, Zenon DEF Unread
<1>3. inq \o flight = << >> <=> inq = << >> /\ flight = << >>
  BY <1>1, ConcatEqualIffEmpty
<1> QED BY <1>1, <1>2, <1>3 DEF Unread

(* Nothing begins everything. *)
LEMMA NothingIsPrefix ==
  ASSUME NEW s \in Seq(Seq(Byte))
  PROVE  IsPrefix(<< >>, s)
<1>1. << >> \o s = s
  BY ConcatEmptySeq
<1>2. SubSeq(<< >> \o s, 1, Len(<< >>)) = << >> /\ SubSeq(<< >>, 1, Len(<< >>)) = << >>
  BY EmptyBytes, FrontOf, SubSeqFull
<1>3. Len(<< >>) <= Len(s)
  <2>1. Len(<< >>) = 0 /\ Len(s) \in Nat
    BY LenProperties
  <2> QED BY <2>1
<1> QED BY <1>1, <1>2, <1>3, Zenon DEF IsPrefix

(* What receive() has returned begins what was said, wherever the reading  *)
(* is.                                                                     *)
LEMMA ReadingPrefix ==
  ASSUME StreamTypeOK, Reading
  PROVE  IsPrefix(got, said)
<1>1. got \in Seq(Seq(Byte)) /\ said \in Seq(Seq(Byte))
  BY DEF StreamTypeOK
<1>2. CASE got = << >>
  BY <1>1, <1>2, NothingIsPrefix
<1>3. CASE Aligned
  BY <1>1, <1>3, BacklogPrefix DEF Aligned
<1> QED BY <1>2, <1>3 DEF Reading, Silent, Greeted, Lost

(* Steps that neither read nor say anything, as bytes that only arrive. *)
LEMMA StillReading ==
  ASSUME Reading, UNCHANGED <<status, got, said, blocking>>, Unread' = Unread, count'.frames = count.frames,
         pc' = pc \/ pc' \in {"app", "receive"}
  PROVE  Reading'
<1>0. \A fs : Connecting(fs) => Connecting(fs)'
  BY DEF Connecting
<1>1. CASE Silent
  BY <1>1 DEF Silent, Reading
<1>2. CASE Greeted
  <2>1. PICK rest, fs :
          /\ rest \in Seq(Byte)
          /\ Unread = PeerHello(status) \o rest /\ Backlog(rest, got, said, fs) /\ Connecting(fs)
    BY <1>2 DEF Greeted
  <2>2. /\ rest \in Seq(Byte)
        /\ Unread' = PeerHello(status') \o rest /\ Backlog(rest, got', said', fs) /\ Connecting(fs)'
    BY <1>0, <2>1
  <2>3. status' # -1 /\ got' = << >> /\ blocking' = TRUE /\ pc' # "auth"
    BY <1>2 DEF Greeted
  <2>4. Greeted'
    BY <2>2, <2>3 DEF Greeted
  <2> QED BY <2>4 DEF Reading
<1>3. CASE Aligned
  <2>1. PICK fs : /\ Backlog(Unread, got, said, fs)
                  /\ pc = "auth" => Connecting(fs) /\ blocking = TRUE /\ got = << >>
    BY <1>3 DEF Aligned
  <2>2. /\ Backlog(Unread', got', said', fs)
        /\ pc' = "auth" => Connecting(fs)' /\ blocking' = TRUE /\ got' = << >>
    BY <1>0, <2>1
  <2>3. status' # -1 /\ pc' # "hello"
    BY <1>3 DEF Aligned
  <2>4. Aligned'
    BY <2>2, <2>3 DEF Aligned
  <2> QED BY <2>4 DEF Reading
<1>4. CASE Lost
  BY <1>4 DEF Lost, Reading
<1> QED BY <1>1, <1>2, <1>3, <1>4 DEF Reading

(* The peer answers AUTH first (PeerSaysFrame). *)
LEMMA ConnectingGrows ==
  ASSUME NEW fs \in Seq(PeerFrames), Connecting(fs), NEW f \in PeerFrames,
         count.frames \in Nat, count'.frames = count.frames + 1,
         count.frames = 0 <=> f.opcode \in {7, OPCODE_AUTH_OK}
  PROVE  Connecting(Append(fs, f))'
<1> DEFINE gs == Append(fs, f)
<1>1. gs # << >> /\ (fs = << >> => gs[1] = f) /\ (fs # << >> => gs[1] = fs[1])
  <2>1. Len(gs) = Len(fs) + 1 /\ Len(fs) \in Nat /\ (\A i \in 1 .. Len(fs) : gs[i] = fs[i]) /\ gs[Len(fs) + 1] = f
    BY AppendProperties, LenProperties
  <2> HIDE DEF gs
  <2>2. gs # << >>
    BY <2>1
  <2>3. fs = << >> => Len(fs) = 0
    OBVIOUS
  <2>4. fs # << >> => 1 \in 1 .. Len(fs)
    BY EmptySeq, LenProperties
  <2> QED BY <2>1, <2>2, <2>3, <2>4
<1> HIDE DEF gs
<1>2. count'.frames # 0
  OBVIOUS
<1>3. gs[1].opcode \in {7, OPCODE_AUTH_OK}
  BY <1>1 DEF Connecting
<1> QED BY <1>1, <1>2, <1>3 DEF Connecting, gs

(* One more frame of the peer. *)
LEMMA PeerSaysMore ==
  ASSUME NEW f \in PeerFrames, PeerSaysFrame(f), StreamTypeOK, Reading
  PROVE  Reading'
<1>1. /\ status # -1 /\ UNCHANGED <<pc, blocking, got, status, inq>> /\ flight' = flight \o PeerFrame(f)
      /\ count.frames = 0 <=> f.opcode \in {7, OPCODE_AUTH_OK}
  BY DEF PeerSaysFrame, clientVars
<1>2. count.frames \in Nat /\ count'.frames = count.frames + 1
  <2>1. count \in [sends : Nat, frames : Nat, cuts : Nat] /\ count' = [count EXCEPT !["frames"] = @ + 1]
    BY CountedType DEF PeerSaysFrame, StreamTypeOK
  <2> QED BY <2>1
<1>3. said \in Seq(Seq(Byte)) /\ got \in Seq(Seq(Byte)) /\ f.payload \in Seq(Byte)
  BY PeerFrameType DEF StreamTypeOK
<1> DEFINE g == peerBytes[f]
           d == dataOf[f]
<1>4. g = PeerFrame(f) /\ g \in Seq(Byte) /\ d \in Seq(Seq(Byte))
  BY PeerBytesType DEF peerBytes
<1>5. said' = said \o d
  <2>1. CASE f.opcode \in {OPCODE_DATA_TEXT, OPCODE_DATA_BINARY}
    <3> DEFINE p == f.payload
    <3>1. said' = Append(said, p) /\ d = <<p>>
      BY <2>1 DEF PeerSaysFrame, dataOf
    <3> HIDE DEF d, p
    <3>2. Append(said, p) = said \o <<p>>
      BY <1>3, AppendIsConcat DEF p
    <3> QED BY <3>1, <3>2
  <2>2. CASE ~(f.opcode \in {OPCODE_DATA_TEXT, OPCODE_DATA_BINARY})
    <3>1. said' = said /\ d = << >>
      BY <2>2 DEF PeerSaysFrame, dataOf
    <3>2. said \o << >> = said
      BY <1>3, ConcatEmptySeq
    <3> QED BY <3>1, <3>2
  <2> QED BY <2>1, <2>2
<1>6. Unread' = Unread \o g /\ Unread \in Seq(Byte)
  <2>1. inq \in Seq(Byte) /\ flight \in Seq(Byte) /\ Unread \in Seq(Byte)
    BY UnreadType
  <2>2. inq \o (flight \o PeerFrame(f)) = (inq \o flight) \o PeerFrame(f)
    <3> DEFINE p == PeerFrame(f)
    <3>1. p \in Seq(Byte)
      BY <1>4
    <3> HIDE DEF p
    <3>2. inq \o (flight \o p) = (inq \o flight) \o p
      BY <2>1, <3>1, Associative
    <3> QED BY <3>2 DEF p
  <2> QED BY <1>1, <1>4, <2>1, <2>2, Zenon DEF Unread
<1>7. CASE Greeted
  <2>1. PICK rest, fs :
          /\ rest \in Seq(Byte)
          /\ Unread = PeerHello(status) \o rest /\ Backlog(rest, got, said, fs) /\ Connecting(fs)
    BY <1>7 DEF Greeted
  <2>2. Backlog(rest \o g, got, said \o d, Append(fs, f))
    BY <1>3, <2>1, BacklogGrows
  <2>3. Connecting(Append(fs, f))'
    <3>1. fs \in Seq(PeerFrames)
      BY <2>1 DEF Backlog
    <3> QED BY <1>1, <1>2, <2>1, <3>1, ConnectingGrows
  <2>4. Unread' = PeerHello(status) \o (rest \o g) /\ rest \o g \in Seq(Byte)
    <3>0. rest \in Seq(Byte)
      BY <2>1
    <3> DEFINE h == PeerHello(status)
    <3>1. h \in Seq(Byte)
      BY <1>1, PeerHelloFacts DEF StreamTypeOK
    <3> HIDE DEF g, h
    <3>2. (h \o rest) \o g = h \o (rest \o g)
      BY <1>4, <3>0, <3>1, Associative, Zenon
    <3>3. rest \o g \in Seq(Byte)
      BY <1>4, <3>0, Joined, Zenon
    <3> QED BY <1>6, <2>1, <3>2, <3>3, Zenon DEF h
  <2>5. status' # -1 /\ got' = << >> /\ blocking' = TRUE /\ pc' # "auth"
    BY <1>1, <1>7 DEF Greeted
  <2> HIDE DEF g, d
  <2>6. Greeted'
    BY <1>1, <1>5, <2>2, <2>3, <2>4, <2>5, Zenon DEF Greeted
  <2> QED BY <2>6 DEF Reading
<1>8. CASE Aligned
  <2>1. PICK fs : /\ Backlog(Unread, got, said, fs)
                  /\ pc = "auth" => Connecting(fs) /\ blocking = TRUE /\ got = << >>
    BY <1>8 DEF Aligned
  <2>2. Backlog(Unread \o g, got, said \o d, Append(fs, f))
    BY <1>3, <2>1, BacklogGrows
  <2>3. pc = "auth" => Connecting(Append(fs, f))'
    <3>1. fs \in Seq(PeerFrames)
      BY <2>1 DEF Backlog
    <3> QED BY <1>1, <1>2, <2>1, <3>1, ConnectingGrows
  <2>4. status' # -1 /\ pc' # "hello"
    BY <1>1, <1>8 DEF Aligned
  <2> HIDE DEF g, d
  <2>5. /\ Backlog(Unread', got', said', Append(fs, f))
        /\ pc' = "auth" => Connecting(Append(fs, f))' /\ blocking' = TRUE /\ got' = << >>
    BY <1>1, <1>5, <1>6, <2>1, <2>2, <2>3
  <2>6. Aligned'
    BY <2>4, <2>5, Zenon DEF Aligned
  <2> QED BY <2>6 DEF Reading
<1>9. CASE Lost
  <2>1. Unread # << >> /\ Unread[1] # 80
    BY <1>9 DEF Lost
  <2> HIDE DEF g
  <2>2. 1 \in 1 .. Len(Unread)
    BY <1>6, <2>1, EmptySeq, LenProperties
  <2>3. (Unread \o g)[1] = Unread[1]
    BY <1>4, <1>6, <2>2, Joined, Zenon
  <2>4. Unread \o g # << >>
    <3>1. Unread \in Seq(Byte) /\ g \in Seq(Byte)
      BY <1>4, <1>6
    <3>2. Unread \o g = << >> <=> Unread = << >> /\ g = << >>
      BY <3>1, ConcatEqualIffEmpty
    <3> QED BY <2>1, <3>2
  <2>5. Unread' # << >> /\ Unread'[1] # 80
    BY <1>6, <2>1, <2>3, <2>4
  <2>6. Lost'
    BY <1>1, <1>9, <2>5 DEF Lost
  <2> QED BY <2>6 DEF Reading
<1> QED BY <1>1, <1>7, <1>8, <1>9 DEF Reading, Silent

(* The hello is read whole. *)
LEMMA HelloTaken ==
  ASSUME HelloArrives, StreamTypeOK, HelloUnread, Connected, Reading
  PROVE  Aligned' /\ stream' = "open"
<1>1. /\ pc = "hello" /\ Len(inq) >= 42 /\ inq' = Drop(inq, 42)
      /\ UNCHANGED <<flight, status, said, count>>
  BY DEF HelloArrives, peerVars
<1>2. UNCHANGED <<stream, blocking, got>> /\ pc' \in {"app", "auth"}
  BY DEF HelloArrives, Throw
<1>3. PICK more \in Seq(Byte) : inq \o flight = PeerHello(status) \o more /\ Drop(inq, 42) \o flight = more
  BY <1>1, HelloArrived
<1>4. status \in Status
  BY <1>1, HelloArrived
<1>5. Greeted
  BY <1>1, <1>4 DEF Reading, Silent, Aligned, Lost, Status
<1>6. PICK rest, fs :
        /\ rest \in Seq(Byte)
        /\ Unread = PeerHello(status) \o rest /\ Backlog(rest, got, said, fs) /\ Connecting(fs)
  BY <1>5 DEF Greeted
<1>7. rest = more
  <2> DEFINE h == PeerHello(status)
  <2>1. h \in Seq(Byte)
    BY <1>4, PeerHelloFacts
  <2>2. h \o rest = h \o more
    BY <1>3, <1>6 DEF Unread
  <2> HIDE DEF h
  <2>3. Drop(h \o rest, Len(h)) = rest /\ Drop(h \o more, Len(h)) = more
    BY <1>6, <2>1, DropFront
  <2> QED BY <2>2, <2>3
<1>8. Unread' = rest
  BY <1>1, <1>3, <1>7 DEF Unread
<1>9. Connecting(fs)'
  BY <1>1, <1>6 DEF Connecting
<1>10. status' # -1 /\ blocking' = TRUE /\ got' = << >> /\ pc' # "hello"
  BY <1>1, <1>2, <1>5 DEF Greeted
<1>11. Backlog(Unread', got', said', fs)
  BY <1>1, <1>2, <1>6, <1>8
<1>12. stream' = "open"
  BY <1>1, <1>2 DEF Connected
<1> QED BY <1>9, <1>10, <1>11, <1>12, Zenon DEF Aligned

(* The answer to AUTH is read whole; a bad magic does not occur. *)
LEMMA AnswerTaken ==
  ASSUME PeerAsServer, AuthAnswered, StreamTypeOK, Reading
  PROVE  Aligned' /\ UNCHANGED stream
<1> DEFINE r == ReadFrame(inq)
<1>1. /\ pc = "auth" /\ r.parsed # 0 /\ inq' = Drop(inq, IF r.parsed = -1 THEN 5 ELSE r.parsed)
      /\ UNCHANGED <<flight, status, said, count>>
  BY DEF AuthAnswered, peerVars
<1>2. UNCHANGED <<stream, got>> /\ pc' = "app"
  BY DEF AuthAnswered, Throw
<1>3. Aligned
  BY <1>1 DEF Reading, Silent, Greeted, Lost
<1>4. PICK fs : /\ Backlog(Unread, got, said, fs)
                /\ pc = "auth" => Connecting(fs) /\ blocking = TRUE /\ got = << >>
  BY <1>3 DEF Aligned
<1>5. got \in Seq(Seq(Byte)) /\ inq \in Seq(Byte) /\ flight \in Seq(Byte) /\ Unread = inq \o flight
  BY DEF StreamTypeOK, Unread
<1>6. fs # << >>
  <2>1. SUFFICES ASSUME fs = << >> PROVE FALSE
    OBVIOUS
  <2>2. Unread = << >>
    BY <1>4, <2>1, BacklogEnds
  <2>3. inq = << >>
    BY <2>2, UnreadType
  <2> QED BY <1>1, <2>3, NothingRead
<1>7. /\ ReadFrame(Unread).parsed > 0 /\ ReadFrame(Unread).opcode = fs[1].opcode
      /\ Backlog(Drop(Unread, ReadFrame(Unread).parsed), got \o dataOf[fs[1]], said, Tail(fs))
      /\ Len(Unread) >= 7 /\ SubSeq(Unread, 1, 2) = Magic /\ fs[1] \in PeerFrames
  <2>1. /\ ReadFrame(Unread).parsed > 0
        /\ ReadFrame(Unread).opcode = fs[1].opcode /\ ReadFrame(Unread).payload = fs[1].payload
        /\ Backlog(Drop(Unread, ReadFrame(Unread).parsed), got \o dataOf[fs[1]], said, Tail(fs))
        /\ Len(Unread) >= 7 /\ SubSeq(Unread, 1, 2) = Magic
    <3>1. Backlog(Unread, got, said, fs) /\ got \in Seq(Seq(Byte))
      BY <1>4, <1>5
    <3> QED BY <1>6, <3>1, BacklogRead, Zenon
  <2>2. fs[1] \in PeerFrames
    BY <1>4, <1>6, FirstAndRest DEF Backlog
  <2> QED BY <2>1, <2>2, Zenon
<1>8. r.parsed > 0
  <2>1. CASE r.parsed = -1 /\ Len(inq) >= 5 /\ SubSeq(inq, 1, 2) # Magic
    <3>1. 1 \in Nat /\ 2 \in Nat /\ 1 =< 1 /\ 2 =< Len(inq) /\ 1 =< 2 + 1
      BY <1>5, <2>1, LenProperties
    <3>2. SubSeq(inq \o flight, 1, 2) = SubSeq(inq, 1, 2)
      BY <1>5, <3>1, SubSeqOfFront
    <3> QED BY <1>5, <1>7, <2>1, <3>2
  <2> QED BY <1>1, <1>5, <2>1, ReadFrameParsed
<1>9. ReadFrame(Unread) = r /\ Drop(inq, r.parsed) \o flight = Drop(Unread, r.parsed)
  BY <1>5, <1>8, ReadOfAll
<1> HIDE DEF r
<1>10. Unread' = Drop(Unread, r.parsed)
  <2>1. ~(r.parsed = -1)
    BY <1>8
  <2>2. inq' = Drop(inq, r.parsed)
    BY <1>1, <2>1
  <2> QED BY <1>1, <1>9, <2>2 DEF Unread
<1>11. got \o dataOf[fs[1]] = got
  <2>1. fs[1].opcode \in {7, OPCODE_AUTH_OK}
    BY <1>1, <1>4, <1>6 DEF Connecting
  <2>2. ~(fs[1].opcode \in {OPCODE_DATA_TEXT, OPCODE_DATA_BINARY})
    BY <2>1 DEF OPCODE_AUTH_OK, OPCODE_DATA_TEXT, OPCODE_DATA_BINARY
  <2>3. dataOf[fs[1]] = << >>
    BY <1>7, <2>2 DEF dataOf
  <2> QED BY <1>5, <2>3, ConcatEmptySeq
<1>12. Backlog(Unread', got', said', Tail(fs))
  BY <1>1, <1>2, <1>7, <1>9, <1>10, <1>11
<1>13. status' # -1 /\ pc' # "hello" /\ pc' # "auth"
  BY <1>1, <1>2, <1>3 DEF Aligned
<1>14. Aligned'
  BY <1>12, <1>13 DEF Aligned
<1> QED BY <1>2, <1>14

(* What a connect() that gives up throws away. *)
LEMMA GivenUp ==
  ASSUME PeerAsServer, ConnectReadFails, StreamTypeOK, Reading
  PROVE  Reading' /\ UNCHANGED stream
<1>1. /\ pc \in {"hello", "auth"} /\ inq' = << >> /\ pc' = "app"
      /\ UNCHANGED <<stream, blocking, got, flight, status, said, count>>
  BY DEF ConnectReadFails, Throw, peerVars
<1>2. /\ inq \in Seq(Byte) /\ flight \in Seq(Byte) /\ Unread = inq \o flight
      /\ got \in Seq(Seq(Byte)) /\ Len(inq) \in Nat
  BY LenProperties DEF StreamTypeOK, Unread
<1>3. Unread' = flight
  <2>1. << >> \o flight = flight
    BY <1>2, ConcatEmptySeq
  <2> QED BY <1>1, <2>1 DEF Unread
<1>4. CASE inq = << >>
  <2>1. << >> \o flight = flight
    BY <1>2, ConcatEmptySeq
  <2>2. Unread' = Unread
    BY <1>2, <1>3, <1>4, <2>1
  <2> QED BY <1>1, <2>2, StillReading
<1>5. CASE inq # << >>
  <2>1. Len(inq) >= 1 /\ Unread # << >>
    BY <1>2, <1>5, EmptySeq, UnreadType
  <2>2. ASSUME NEW p \in Seq(Byte), NEW v \in Seq(Byte), Unread = p \o v, Len(inq) < Len(p),
               OneStart(p), status # -1, blocking = TRUE, got = << >>
        PROVE  Reading'
    <3>0. /\ inq \o flight = p \o v /\ Len(inq) >= 1 /\ Len(inq) < Len(p)
          /\ OneStart(p)
      BY <1>2, <2>1, <2>2
    <3>a. inq \in Seq(Byte) /\ flight \in Seq(Byte) /\ p \in Seq(Byte) /\ v \in Seq(Byte)
      BY <1>2, <2>2
    <3>1. Midway(flight)
      BY <3>0, <3>a, CutShort, Zenon
    <3>2. Lost'
      BY <1>1, <1>3, <2>2, <3>1 DEF Lost, Midway
    <3> QED BY <3>2 DEF Reading
  <2>3. CASE Greeted
    <3>1. PICK rest \in Seq(Byte) : Unread = PeerHello(status) \o rest
      BY <2>3 DEF Greeted
    <3>2. pc = "hello" /\ Len(inq) < 42
      BY <1>1, <2>3 DEF Greeted, ConnectReadFails
    <3> DEFINE h == PeerHello(status)
    <3>3. h \in Seq(Byte) /\ Len(h) = 42 /\ \A i \in 2 .. 42 : h[i] # 80
      BY <2>3, PeerHelloFacts DEF Greeted, StreamTypeOK
    <3>4. status # -1 /\ blocking = TRUE /\ got = << >>
      BY <2>3 DEF Greeted
    <3>5. Unread = h \o rest
      BY <3>1
    <3> HIDE DEF h
    <3>6. Len(inq) < Len(h) /\ OneStart(h)
      BY <3>2, <3>3 DEF OneStart
    <3>7. Reading'
      BY <2>2, <3>1, <3>3, <3>4, <3>5, <3>6, Zenon
    <3> QED BY <1>1, <3>7
  <2>4. CASE Aligned
    <3>1. PICK fs : /\ Backlog(Unread, got, said, fs)
                    /\ pc = "auth" => Connecting(fs) /\ blocking = TRUE /\ got = << >>
      BY <2>4 DEF Aligned
    <3>2. pc = "auth" /\ ReadFrame(inq).parsed = 0 /\ status # -1
      BY <1>1, <2>4 DEF Aligned, ConnectReadFails
    <3>3. fs # << >>
      BY <2>1, <3>1, BacklogEnds
    <3> DEFINE f == fs[1]
               p == PeerFrame(f)
    <3>4. f \in PeerFrames /\ IsFrame(p, f.opcode, f.payload) /\ \E v \in Seq(Byte) : Unread = p \o v
      <4>1. /\ fs[1] \in PeerFrames
            /\ \E v \in Seq(Byte) :
                 /\ Unread = peerBytes[fs[1]] \o v /\ peerBytes[fs[1]] = PeerFrame(fs[1])
                 /\ IsFrame(PeerFrame(fs[1]), fs[1].opcode, fs[1].payload)
                 /\ Backlog(v, got \o dataOf[fs[1]], said, Tail(fs))
        BY <1>2, <3>1, <3>3, BacklogHead
      <4> QED BY <4>1, Zenon
    <3>5. f.opcode \in {7, OPCODE_AUTH_OK}
      BY <3>1, <3>2, <3>3 DEF Connecting
    <3>6. p \in Seq(Byte) /\ Len(p) = 7 /\ \A i \in 2 .. 7 : p[i] # 80
      BY <3>4, <3>5, AnswerBytes
    <3>7. PICK v \in Seq(Byte) : Unread = p \o v
      BY <3>4
    <3>8. Len(inq) < Len(p)
      <4>1. SUFFICES ASSUME Len(p) =< Len(inq) PROVE FALSE
        BY <1>2, <3>6
      <4> HIDE DEF p, f
      <4>2. Recut(inq, flight, p, v)
        BY <1>2, <3>6, <3>7, <4>1 DEF Recut
      <4> DEFINE t == Drop(inq, Len(p))
      <4>3. inq = p \o t /\ t \in Seq(Byte)
        <5>1. Len(p) \in 0 .. Len(inq)
          BY <4>2, SameFront
        <5> QED BY <1>2, <4>2, <5>1, SameFront, DropProperties
      <4> HIDE DEF t
      <4>4. PICK h, e1, e2, id : Framed(p, h, e1, e2, id, f.opcode, f.payload)
        BY <3>4 DEF IsFrame
      <4>5. ReadAs(p \o t, p, Len(e1), Len(e2), id, f.opcode, f.payload)
        BY <4>3, <4>4, FramedRead
      <4>6. ReadFrame(p \o t) = [parsed |-> Len(p), opcode |-> f.opcode, payload |-> f.payload]
        BY <4>5 DEF ReadAs
      <4>7. ReadFrame(inq).parsed = 7
        BY <3>6, <4>3, <4>6
      <4> QED BY <3>2, <4>7
    <3> HIDE DEF p, f
    <3>9. OneStart(p)
      BY <3>6 DEF OneStart
    <3>10. blocking = TRUE /\ got = << >>
      BY <3>1, <3>2
    <3>11. Reading'
      BY <2>2, <3>2, <3>6, <3>7, <3>8, <3>9, <3>10, Zenon
    <3> QED BY <1>1, <3>11
  <2>5. ~Silent /\ ~Lost
    BY <1>1, <2>1 DEF Silent, Lost
  <2> QED BY <2>3, <2>4, <2>5 DEF Reading
<1> QED BY <1>1, <1>4, <1>5

(* A whole frame is read: the next of the backlog, or, behind a connect()  *)
(* that gave up before the hello was there, the hello taken for a frame.   *)
LEMMA FrameTaken ==
  ASSUME PeerAsServer, FrameArrives, StreamTypeOK, Reading, stream = "open"
  PROVE  DeliveryInv'
<1> DEFINE r == ReadFrame(inq)
<1>1. /\ pc = "receive" /\ r.parsed > 0 /\ inq' = Drop(inq, r.parsed)
      /\ UNCHANGED <<blocking, flight, ended, status, said, count>>
      /\ \/ r.opcode = OPCODE_CLOSE /\ CloseStream /\ got' = got
         \/ r.opcode = OPCODE_PING /\ pc' = "app" /\ UNCHANGED <<stream, got>>
         \/ /\ r.opcode \in {OPCODE_DATA_TEXT, OPCODE_DATA_BINARY} /\ got' = Append(got, r.payload)
            /\ pc' = "app" /\ UNCHANGED stream
         \/ /\ r.opcode \notin {OPCODE_DATA_TEXT, OPCODE_DATA_BINARY}
            /\ pc' = "app" /\ UNCHANGED <<stream, got>>
  BY FrameArrivesCases
<1>2. got \in Seq(Seq(Byte)) /\ inq \in Seq(Byte) /\ flight \in Seq(Byte) /\ status \in {-1} \cup Status
  BY DEF StreamTypeOK
<1>3. ReadFrame(inq \o flight) = r /\ Drop(inq, r.parsed) \o flight = Drop(inq \o flight, r.parsed)
  BY <1>1, <1>2, ReadOfAll
<1>4. ReadFrame(Unread) = r /\ Unread' = Drop(Unread, r.parsed)
  BY <1>1, <1>3, Zenon DEF Unread
<1> HIDE DEF r
<1>5. CASE r.opcode = OPCODE_CLOSE /\ CloseStream /\ got' = got
  <2>1. stream' = "none" /\ pc' = "app" /\ IsPrefix(got', said')
    BY <1>1, <1>5, ReadingPrefix DEF CloseStream
  <2> QED BY <2>1 DEF DeliveryInv
<1>6. ASSUME pc' = "app", UNCHANGED stream,
             \/ r.opcode = OPCODE_PING /\ UNCHANGED got
             \/ r.opcode \in {OPCODE_DATA_TEXT, OPCODE_DATA_BINARY} /\ got' = Append(got, r.payload)
             \/ r.opcode \notin {OPCODE_DATA_TEXT, OPCODE_DATA_BINARY} /\ UNCHANGED got
      PROVE  Reading'
  <2>1. ~Silent
    <3>1. SUFFICES ASSUME Silent PROVE FALSE
      OBVIOUS
    <3>2. Unread = << >>
      BY <3>1 DEF Silent
    <3>3. r.parsed = 0
      BY <1>4, <3>2, NothingRead
    <3> QED BY <1>1, <3>3
  <2>2. ~Lost
    <3>1. Len(inq) >= 5 /\ SubSeq(inq, 1, 2) = Magic
      BY <1>1, <1>2, FrameBegins DEF r
    <3>2. inq[1] = 80 /\ 1 \in 1 .. Len(inq)
      BY <1>2, <3>1, MagicBegins, LenProperties
    <3>a. inq \in Seq(Byte) /\ flight \in Seq(Byte) /\ 1 \in 1 .. Len(inq)
      BY <1>2, <3>2
    <3>3. \A i \in 1 .. Len(inq) : (inq \o flight)[i] = inq[i]
      BY <3>a, Joined
    <3>4. (inq \o flight)[1] = inq[1]
      BY <3>a, <3>3
    <3> QED BY <3>2, <3>4 DEF Lost, Unread
  <2>3. CASE Greeted
    <3>1. PICK rest \in Seq(Byte) : Unread = PeerHello(status) \o rest
      BY <2>3 DEF Greeted
    <3>2. status \in Status /\ status # -1 /\ blocking = TRUE /\ got = << >>
      BY <1>2, <2>3 DEF Greeted
    <3> DEFINE w == PeerHello(status) \o rest
    <3>3. w \in Seq(Byte) /\ ReadFrame(w).parsed = 11 /\ ReadFrame(w).opcode = 0 /\ Midway(Drop(w, 11))
      BY <3>2, HelloAsFrame DEF Midway
    <3>4. Unread = w
      BY <3>1
    <3> HIDE DEF w
    <3>5. r.parsed = 11 /\ r.opcode = 0 /\ Midway(Unread')
      BY <1>4, <3>3, <3>4
    <3>6. got' = got
      BY <1>6, <3>5 DEF OPCODE_PING, OPCODE_DATA_TEXT, OPCODE_DATA_BINARY
    <3>7. Lost'
      BY <1>1, <1>6, <3>2, <3>5, <3>6 DEF Lost, Midway
    <3> QED BY <3>7 DEF Reading
  <2>4. CASE Aligned
    <3>1. PICK fs : Backlog(Unread, got, said, fs)
      BY <2>4 DEF Aligned
    <3>2. fs # << >>
      <4>1. SUFFICES ASSUME fs = << >> PROVE FALSE
        OBVIOUS
      <4>2. Unread = << >>
        BY <3>1, <4>1, BacklogEnds
      <4>3. r.parsed = 0
        BY <1>4, <4>2, NothingRead
      <4> QED BY <1>1, <4>3
    <3>3. /\ ReadFrame(Unread).parsed > 0
          /\ ReadFrame(Unread).opcode = fs[1].opcode /\ ReadFrame(Unread).payload = fs[1].payload
          /\ Backlog(Drop(Unread, ReadFrame(Unread).parsed), got \o dataOf[fs[1]], said, Tail(fs))
          /\ Len(Unread) >= 7 /\ SubSeq(Unread, 1, 2) = Magic
      <4>1. got \in Seq(Seq(Byte))
        BY <1>2
      <4> QED BY <3>1, <3>2, <4>1, BacklogRead, Zenon
    <3>4. fs[1] \in PeerFrames
      BY <3>1, <3>2, FirstAndRest DEF Backlog
    <3>5. got' = got \o dataOf[fs[1]]
      <4> DEFINE f == fs[1]
      <4>1. f \in PeerFrames /\ r.opcode = f.opcode /\ r.payload = f.payload
        BY <1>4, <3>3, <3>4
      <4> HIDE DEF f
      <4>2. CASE f.opcode \in {OPCODE_DATA_TEXT, OPCODE_DATA_BINARY}
        <5> DEFINE p == f.payload
        <5>1. got' = Append(got, p) /\ dataOf[f] = <<p>>
          BY <1>6, <4>1, <4>2 DEF dataOf, OPCODE_PING, OPCODE_DATA_TEXT, OPCODE_DATA_BINARY
        <5>2. p \in Seq(Byte)
          BY <4>1, PeerFrameType
        <5> HIDE DEF p
        <5>3. Append(got, p) = got \o <<p>>
          BY <1>2, <5>2, AppendIsConcat
        <5> QED BY <5>1, <5>3 DEF f
      <4>3. CASE f.opcode \notin {OPCODE_DATA_TEXT, OPCODE_DATA_BINARY}
        <5>1. got' = got /\ dataOf[f] = << >>
          BY <1>6, <4>1, <4>3 DEF dataOf
        <5>2. got \o << >> = got
          BY <1>2, ConcatEmptySeq
        <5> QED BY <5>1, <5>2 DEF f
      <4> QED BY <4>2, <4>3
    <3>6. Backlog(Unread', got', said', Tail(fs))
      BY <1>1, <1>4, <3>3, <3>5
    <3>7. status' # -1 /\ pc' # "hello" /\ pc' # "auth"
      BY <1>1, <1>6, <2>4 DEF Aligned
    <3>8. Aligned'
      BY <3>6, <3>7 DEF Aligned
    <3> QED BY <3>8 DEF Reading
  <2> QED BY <2>1, <2>2, <2>3, <2>4 DEF Reading
<1>7. CASE ~(r.opcode = OPCODE_CLOSE /\ CloseStream /\ got' = got)
  <2>1. pc' = "app" /\ UNCHANGED stream
    BY <1>1, <1>7
  <2>2. Reading'
    BY <1>1, <1>6, <1>7
  <2> QED BY <2>1, <2>2 DEF DeliveryInv
<1> QED BY <1>5, <1>7

(* The hello is said. *)
LEMMA HelloSaid ==
  ASSUME PeerSaysHello, StreamTypeOK, Reading
  PROVE  Reading' /\ UNCHANGED stream
<1>1. PICK s \in {0, 1002} : status' = s /\ flight' = flight \o PeerHello(s)
  BY DEF PeerSaysHello
<1>2. status = -1 /\ UNCHANGED <<stream, pc, blocking, got, said, inq, count>>
  BY DEF PeerSaysHello, clientVars
<1>3. Silent
  BY <1>2 DEF Reading, Greeted, Aligned, Lost
<1>4. inq = << >> /\ flight = << >> /\ said = << >> /\ got = << >> /\ count.frames = 0
  BY <1>3, UnreadType DEF Silent
<1>5. s \in Status
  BY <1>1 DEF Status
<1> DEFINE h == PeerHello(s)
<1>6. h \in Seq(Byte) /\ status' # -1
  <2>1. h \in Seq(Byte)
    BY <1>5, PeerHelloFacts
  <2>2. status' # -1
    BY <1>1
  <2> QED BY <2>1, <2>2
<1> HIDE DEF h
<1>7. << >> \o h = h /\ << >> \o (<< >> \o h) = h /\ h \o << >> = h
  BY <1>6, ConcatEmptySeq
<1>8. Unread' = h \o << >>
  BY <1>1, <1>2, <1>4, <1>7 DEF Unread, h
<1>9. Backlog(<< >>, got', said', << >>)
  BY <1>2, <1>4, BacklogStarts, EmptyBytes
<1>10. Connecting(<< >>)'
  BY <1>2, <1>4 DEF Connecting
<1>11. << >> \in Seq(Byte)
  BY EmptyBytes
<1>12. got' = << >> /\ blocking' = TRUE /\ pc' # "auth"
  BY <1>2, <1>3 DEF Silent
<1>13. Unread' = PeerHello(status') \o << >>
  BY <1>1, <1>8 DEF h
<1>14. Greeted'
  BY <1>6, <1>9, <1>10, <1>11, <1>12, <1>13 DEF Greeted
<1> QED BY <1>2, <1>14 DEF Reading

(* The invariant of the reading at first ... *)
LEMMA InitDelivery == Init => DeliveryInv
<1> SUFFICES ASSUME Init PROVE DeliveryInv
  OBVIOUS
<1>1. stream = "none" /\ pc = "app" /\ got = << >> /\ said = << >>
  BY DEF Init
<1>2. IsPrefix(got, said)
  BY <1>1, EmptyBytes, NothingIsPrefix
<1> QED BY <1>1, <1>2 DEF DeliveryInv

(* ... and after every step. *)
LEMMA DeliveryStep ==
  ASSUME PeerAsServer, GreetingInv, DeliveryInv, [Next]_vars
  PROVE  DeliveryInv'
<1>0. StreamTypeOK /\ HelloUnread /\ Connected
  BY DEF GreetingInv
<1>a. ASSUME stream = "open", Reading => Reading', UNCHANGED stream PROVE DeliveryInv'
  BY <1>a DEF DeliveryInv
<1>b. pc # "app" => stream = "open"
  BY <1>0 DEF Connected
<1>c. ASSUME stream = "open", stream' = "none", pc' = "app", UNCHANGED <<got, said>> PROVE DeliveryInv'
  <2>1. IsPrefix(got, said)
    BY <1>0, <1>c, ReadingPrefix DEF DeliveryInv
  <2> QED BY <1>c, <2>1 DEF DeliveryInv
<1>d. ASSUME stream = "open", UNCHANGED <<stream, status, got, said, blocking, inq, flight>>,
             count'.frames = count.frames, pc' = pc \/ pc' \in {"app", "receive"}
      PROVE  DeliveryInv'
  <2>1. Unread' = Unread
    BY <1>d DEF Unread
  <2>2. Reading => Reading'
    BY <1>d, <2>1, StillReading
  <2> QED BY <1>a, <1>d, <2>2
<1>1. CASE Connect
  <2>1. /\ got' = << >> /\ said' = << >> /\ flight' = << >> /\ inq' = << >> /\ status' = -1
        /\ count'.frames = 0
        /\ \/ pc' = "hello" /\ stream' = "open" /\ blocking' = TRUE
           \/ stream' = "none" /\ pc' = "app"
    BY <1>1 DEF Connect, NothingYet
  <2>2. Unread' = << >>
    <3>1. << >> \o << >> = << >>
      BY EmptyBytes, ConcatEmptySeq
    <3> QED BY <2>1, <3>1 DEF Unread
  <2>3. CASE pc' = "hello" /\ stream' = "open" /\ blocking' = TRUE
    BY <2>1, <2>2, <2>3 DEF Silent, Reading, DeliveryInv
  <2>4. CASE stream' = "none" /\ pc' = "app"
    <3>1. IsPrefix(<< >>, << >>)
      BY EmptyBytes, NothingIsPrefix
    <3> QED BY <2>1, <2>4, <3>1 DEF DeliveryInv
  <2> QED BY <2>1, <2>3, <2>4
<1>2. CASE HelloArrives
  <2>1. pc = "hello"
    BY <1>2 DEF HelloArrives
  <2>2. stream = "open" /\ Reading
    BY <1>b, <2>1 DEF DeliveryInv
  <2> QED BY <1>0, <1>2, <2>2, HelloTaken DEF DeliveryInv, Reading
<1>3. CASE AuthAnswered
  <2>1. pc = "auth"
    BY <1>3 DEF AuthAnswered
  <2>2. stream = "open" /\ Reading
    BY <1>b, <2>1 DEF DeliveryInv
  <2>3. Aligned' /\ UNCHANGED stream
    BY <1>0, <1>3, <2>2, AnswerTaken
  <2> QED BY <1>a, <2>2, <2>3 DEF Reading
<1>4. CASE ConnectReadFails
  <2>1. pc # "app"
    BY <1>4 DEF ConnectReadFails
  <2>2. stream = "open" /\ Reading
    BY <1>b, <2>1 DEF DeliveryInv
  <2>3. Reading' /\ UNCHANGED stream
    BY <1>0, <1>4, <2>2, GivenUp
  <2> QED BY <1>a, <2>2, <2>3
<1>5. ASSUME NEW p \in Payloads, Send(p) PROVE DeliveryInv'
  <2>1. stream = "open" /\ UNCHANGED <<pc, stream, status, got, said, blocking, inq, flight>>
    BY <1>5 DEF Send, peerVars
  <2>2. count'.frames = count.frames
    <3>1. count' = [count EXCEPT !["sends"] = @ + 1] /\ count \in [sends : Nat, frames : Nat, cuts : Nat]
      BY <1>0, <1>5 DEF Send, Counted, StreamTypeOK
    <3> QED BY <3>1
  <2> QED BY <1>d, <2>1, <2>2
<1>6. CASE Disconnect
  <2>1. stream = "open" /\ stream' = "none" /\ pc' = "app" /\ UNCHANGED <<got, said>>
    BY <1>6 DEF Disconnect, CloseStream, peerVars
  <2> QED BY <1>c, <2>1
<1>7. CASE Receive
  <2>1. stream = "open" /\ pc' = "receive" /\ UNCHANGED <<stream, status, got, said, blocking, inq, flight, count>>
    BY <1>7 DEF Receive, peerVars
  <2> QED BY <1>d, <2>1
<1>8. CASE FrameArrives
  <2>1. pc = "receive"
    BY <1>8 DEF FrameArrives
  <2>2. stream = "open" /\ Reading
    BY <1>b, <2>1 DEF DeliveryInv
  <2> QED BY <1>0, <1>8, <2>2, FrameTaken
<1>9. CASE FrameBroken
  <2>1. pc = "receive" /\ stream' = "none" /\ pc' = "app" /\ UNCHANGED <<got, said>>
    BY <1>9 DEF FrameBroken, CloseStream, peerVars
  <2> QED BY <1>b, <1>c, <2>1
<1>10. CASE PeerSaysHello
  <2>1. stream = "open" /\ Reading
    BY <1>10 DEF PeerSaysHello, DeliveryInv
  <2>2. Reading' /\ UNCHANGED stream
    BY <1>0, <1>10, <2>1, HelloSaid
  <2> QED BY <1>a, <2>1, <2>2
<1>11. ASSUME NEW f \in PeerFrames, PeerSaysFrame(f) PROVE DeliveryInv'
  <2>1. stream = "open" /\ Reading /\ UNCHANGED stream
    BY <1>11 DEF PeerSaysFrame, DeliveryInv, clientVars
  <2>2. Reading'
    BY <1>0, <1>11, <2>1, PeerSaysMore
  <2> QED BY <1>a, <2>1, <2>2
<1>12. CASE PeerCloses
  <2>1. stream = "open" /\ UNCHANGED <<pc, stream, status, got, said, blocking, inq, flight, count>>
    BY <1>12 DEF PeerCloses, clientVars
  <2> QED BY <1>d, <2>1
<1>13. CASE Arrive
  <2>1. /\ inq' \o flight' = inq \o flight /\ stream = "open" /\ count'.frames = count.frames
        /\ UNCHANGED <<pc, stream, blocking, got, status, said>>
    BY <1>0, <1>13, ArriveMoves
  <2>2. Unread' = Unread
    BY <2>1 DEF Unread
  <2>3. Reading => Reading'
    BY <2>1, <2>2, StillReading
  <2> QED BY <1>a, <2>1, <2>3
<1>14. CASE UNCHANGED vars
  <2>1. UNCHANGED <<pc, stream, status, got, said, blocking, inq, flight, count>>
    BY <1>14 DEF vars, clientVars, peerVars
  <2>2. CASE stream = "open"
    BY <1>d, <2>1, <2>2
  <2>3. CASE stream # "open"
    BY <2>1, <2>3 DEF DeliveryInv
  <2> QED BY <2>2, <2>3
<1> QED BY <1>1, <1>2, <1>3, <1>4, <1>5, <1>6, <1>7, <1>8, <1>9, <1>10, <1>11, <1>12, <1>13, <1>14
        DEF Next

(* It implies what receive() promises. *)
LEMMA DeliveryShown ==
  ASSUME PeerAsServer, GreetingInv, DeliveryInv
  PROVE  Delivered
<1>0. StreamTypeOK
  BY DEF GreetingInv
<1>1. IsPrefix(got, said)
  BY <1>0, ReadingPrefix DEF DeliveryInv, StreamTypeOK
<1>2. ASSUME stream = "open", ~blocking, inq = << >>, flight = << >>
      PROVE  got = said
  <2>1. Aligned
    BY <1>2 DEF DeliveryInv, Reading, Silent, Greeted, Lost
  <2>2. Unread = << >>
    BY <1>0, <1>2, UnreadType
  <2>3. PICK fs : Backlog(Unread, got, said, fs)
    BY <2>1 DEF Aligned
  <2>4. got \in Seq(Seq(Byte)) /\ Backlog(<< >>, got, said, fs)
    BY <1>0, <2>2, <2>3 DEF StreamTypeOK
  <2>5. said = got
    BY <2>4, BacklogNone
  <2> QED BY <2>5
<1> QED BY <1>1, <1>2 DEF Delivered

(* receive() returns what a peer that numbers and frames like the server   *)
(* sent, in order, each once and unchanged, and leaves nothing behind on a *)
(* connection that is up (StreamClient.php:114-140, 177-197): whatever the *)
(* payloads, however the bytes were cut, and also behind a connect() that  *)
(* gave up in the middle of a message.                                     *)
THEOREM DeliveredInOrder ==
  ASSUME PeerAsServer
  PROVE  Spec => []Delivered
<1>1. GreetingInv /\ DeliveryInv => Delivered
  BY DeliveryShown
<1>2. Init => GreetingInv /\ DeliveryInv
  BY InitGreeting, InitDelivery
<1>3. GreetingInv /\ DeliveryInv /\ [Next]_vars => GreetingInv' /\ DeliveryInv'
  BY GreetingStep, DeliveryStep
<1> QED BY <1>1, <1>2, <1>3, PTL DEF Spec
=============================================================================
