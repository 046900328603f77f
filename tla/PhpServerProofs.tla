-------------------------- MODULE PhpServerProofs --------------------------
(***************************************************************************)
(* Proofs about PhpServer: any set of sessions, quota and timeout, and     *)
(* callbacks that call the server again, return or throw at any depth.     *)
(***************************************************************************)
EXTENDS PhpServer, FiniteSetTheorems, TLAPS

(* No two connections share a key. *)
DistinctKeys == \A s, t \in Session : Id[s] = Id[t] => s = t

(* The registry: every key leads to a session of that key, within the quota. *)
RegistryInv ==
  /\ sessions \in [DOMAIN sessions -> Session] /\ DOMAIN sessions \subseteq Range(Id)
  /\ \A i \in DOMAIN sessions : Id[sessions[i]] = i
  /\ IsFiniteSet(DOMAIN sessions) /\ Cardinality(DOMAIN sessions) =< maxSessions

(* The clock, and what is known about each session. *)
ClockInv ==
  /\ lastActivityMs \in [Session -> -1 .. MaxTime] /\ now \in 0 .. MaxTime
  /\ \A s \in Session : lastActivityMs[s] =< now
  /\ closed \subseteq Session
  /\ told \in [{"connect", "close"} -> [Session -> Nat]]

Frame == [call : {"connect", "close", "error"}, session : Session]
           \cup [call : {"sweep"}, at : 0 .. MaxTime, all : SUBSET Session, todo : SUBSET Session]

(* A stack of at most n calls, with no sweep above the bound. *)
Deep(s, n) ==
  /\ s \in Seq(Frame) /\ Len(s) =< n
  /\ \A i \in 1 .. Len(s) : s[i].call = "sweep" => Len(s) - i < MaxDepth

(* Only the callback of a sweep may be the one call above the bound. *)
StackInv == Deep(stack, MaxDepth + 1)

Inv == RegistryInv /\ ClockInv /\ StackInv
-----------------------------------------------------------------------------
(* What the range of the registry is. *)
LEMMA RegisteredProperties ==
  ASSUME RegistryInv
  PROVE  /\ Registered \subseteq Session
         /\ \A s : s \in Registered <=> \E i \in DOMAIN sessions : sessions[i] = s
         /\ \A s \in Registered : Id[s] \in DOMAIN sessions /\ sessions[Id[s]] = s
BY DEF RegistryInv, Registered, Range

LEMMA AddKeepsRegistry ==
  ASSUME RegistryInv, NEW s \in Session, ~Full,
         sessions' = [i \in DOMAIN sessions \cup {Id[s]} |-> IF i = Id[s] THEN s ELSE sessions[i]]
  PROVE  RegistryInv'
<1>1. DOMAIN sessions' = DOMAIN sessions \cup {Id[s]} /\ sessions' \in [DOMAIN sessions' -> Session]
  BY DEF RegistryInv
<1>2. Id[s] \in Range(Id)
  BY PhpServerAssumption
<1>3. \A i \in DOMAIN sessions' : Id[sessions'[i]] = i
  BY <1>1 DEF RegistryInv
<1>4. IsFiniteSet(DOMAIN sessions) /\ Cardinality(DOMAIN sessions) \in Nat
  BY FS_CardinalityType DEF RegistryInv
<1>5. Cardinality(DOMAIN sessions) < maxSessions
  BY <1>4, PhpServerAssumption DEF Full
<1>6. IsFiniteSet(DOMAIN sessions') /\ Cardinality(DOMAIN sessions') =< Cardinality(DOMAIN sessions) + 1
  BY <1>1, <1>4, FS_AddElement
<1>7. Cardinality(DOMAIN sessions') \in Nat
  BY <1>6, FS_CardinalityType
<1>8. Cardinality(DOMAIN sessions') =< maxSessions
  BY <1>4, <1>5, <1>6, <1>7, PhpServerAssumption
<1> QED BY <1>1, <1>2, <1>3, <1>6, <1>8 DEF RegistryInv

LEMMA RemoveKeepsRegistry ==
  ASSUME RegistryInv, NEW i, sessions' = Restrict(sessions, DOMAIN sessions \ {i})
  PROVE  RegistryInv'
<1>1. /\ DOMAIN sessions' = DOMAIN sessions \ {i}
      /\ \A j \in DOMAIN sessions' : sessions'[j] = sessions[j]
      /\ sessions' \in [DOMAIN sessions' -> Session]
  BY DEF RegistryInv, Restrict
<1>2. IsFiniteSet(DOMAIN sessions) /\ Cardinality(DOMAIN sessions) \in Nat
  BY FS_CardinalityType DEF RegistryInv
<1>3. IsFiniteSet(DOMAIN sessions') /\ Cardinality(DOMAIN sessions') =< Cardinality(DOMAIN sessions)
  BY <1>1, <1>2, FS_Subset
<1>4. Cardinality(DOMAIN sessions') \in Nat
  BY <1>3, FS_CardinalityType
<1>5. Cardinality(DOMAIN sessions') =< maxSessions
  BY <1>2, <1>3, <1>4, PhpServerAssumption DEF RegistryInv
<1> QED BY <1>1, <1>3, <1>5 DEF RegistryInv

(* Every step changes the registry in one of these two ways, or not at all. *)
LEMMA RegistryStep ==
  ASSUME RegistryInv, [Next]_vars
  PROVE  RegistryInv'
<1>1. ASSUME UNCHANGED sessions PROVE RegistryInv'
  BY <1>1 DEF RegistryInv
<1>2. ASSUME NEW i, NEW s, NEW rest, RemoveSession(i, s, rest) PROVE RegistryInv'
  BY <1>1, <1>2, RemoveKeepsRegistry DEF RemoveSession
<1>3. ASSUME NEW s \in Session, AddSession(s) PROVE RegistryInv'
  BY <1>1, <1>3, AddKeepsRegistry DEF AddSession
<1>4. ASSUME NEW s, SweepStep(s) PROVE RegistryInv'
  BY <1>1, <1>2, <1>4 DEF SweepStep
<1>5. ASSUME NEW s \in Session, Construct(s) \/ RecordReceive(s) \/ AppRemoves(s) PROVE RegistryInv'
  BY <1>1, <1>2, <1>5 DEF Construct, RecordReceive, AppRemoves
<1>6. CASE \E only \in SUBSET Session : Broadcast(only)
  BY <1>1, <1>6 DEF Broadcast
<1>7. CASE SweepBegins \/ SweepEnds \/ CallbackReturns \/ CallbackThrows \/ ErrorThrows \/ TimePasses
  BY <1>1, <1>7 DEF SweepBegins, SweepEnds, CallbackReturns, CallbackThrows, ErrorThrows, TimePasses
<1>8. CASE UNCHANGED vars
  BY <1>1, <1>8 DEF vars
<1> QED BY <1>3, <1>4, <1>5, <1>6, <1>7, <1>8 DEF Next, Sweep
-----------------------------------------------------------------------------
(* The stack after a call, and after the end of one. *)
LEMMA Push ==
  ASSUME NEW s \in Seq(Frame), NEW f \in Frame
  PROVE  /\ <<f>> \o s \in Seq(Frame) /\ Len(<<f>> \o s) = Len(s) + 1
         /\ (<<f>> \o s)[1] = f /\ \A i \in 2 .. Len(s) + 1 : (<<f>> \o s)[i] = s[i - 1]
OBVIOUS

LEMMA Pop ==
  ASSUME NEW s \in Seq(Frame), s # << >>
  PROVE  /\ Tail(s) \in Seq(Frame) /\ Head(s) = s[1] /\ s[1] \in Frame
         /\ Len(s) \in Nat /\ Len(s) >= 1 /\ Len(Tail(s)) = Len(s) - 1
         /\ \A i \in 1 .. Len(s) - 1 : Tail(s)[i] = s[i + 1]
<1>1. Len(s) \in Nat /\ Len(s) >= 1
  OBVIOUS
<1> QED BY <1>1

(* What the two kinds of calls on the stack carry. *)
LEMMA FrameKinds ==
  ASSUME NEW f \in Frame
  PROVE  /\ f.call = "sweep" => f.at \in 0 .. MaxTime /\ f.all \subseteq Session /\ f.todo \subseteq Session
         /\ f.call # "sweep" => f.call \in {"connect", "close", "error"} /\ f.session \in Session
BY DEF Frame
-----------------------------------------------------------------------------
LEMMA ClockStep ==
  ASSUME RegistryInv, ClockInv, StackInv, [Next]_vars
  PROVE  ClockInv'
<1> USE DEF ClockInv
<1>1. ASSUME UNCHANGED <<lastActivityMs, now, closed, told>> PROVE ClockInv'
  BY <1>1
<1>2. ASSUME NEW h \in {"connect", "close"}, NEW s \in Session, NEW rest, CallBack(h, s, rest)
      PROVE  told' \in [{"connect", "close"} -> [Session -> Nat]]
  <2> DEFINE row == [told[h] EXCEPT ![s] = @ + 1]
  <2>1. row \in [Session -> Nat] /\ [told EXCEPT ![h][s] = @ + 1] = [told EXCEPT ![h] = row]
    OBVIOUS
  <2>2. told' = [told EXCEPT ![h] = row] \/ told' = told
    BY <1>2, <2>1 DEF CallBack
  <2> HIDE DEF row
  <2> QED BY <2>1, <2>2
<1>3. ASSUME NEW i, NEW s, NEW rest, RemoveSession(i, s, rest)
      PROVE  told' \in [{"connect", "close"} -> [Session -> Nat]]
  BY <1>2, <1>3 DEF RemoveSession, RegistryInv
<1>4. ASSUME NEW s \in Session, AddSession(s) PROVE ClockInv'
  BY <1>2, <1>4 DEF AddSession
<1>5. CASE Sweep
  <2>1. PICK s \in Head(stack).todo : SweepStep(s)
    BY <1>5 DEF Sweep
  <2>2. s \in Session
    BY <1>5, Pop, FrameKinds DEF Sweep, StackInv, Deep
  <2> QED BY <1>3, <2>1, <2>2 DEF SweepStep
<1>6. ASSUME NEW s \in Session, Construct(s) \/ RecordReceive(s) PROVE ClockInv'
  BY <1>6 DEF Construct, RecordReceive
<1>7. ASSUME NEW s \in Session, AppRemoves(s) PROVE ClockInv'
  BY <1>3, <1>7 DEF AppRemoves
<1>8. CASE \E only \in SUBSET Session : Broadcast(only)
  BY <1>8 DEF Broadcast
<1>9. CASE SweepBegins \/ SweepEnds \/ CallbackReturns \/ CallbackThrows \/ ErrorThrows
  BY <1>1, <1>9 DEF SweepBegins, SweepEnds, CallbackReturns, CallbackThrows, ErrorThrows
<1>10. CASE TimePasses
  BY <1>10, PhpServerAssumption DEF TimePasses
<1>11. CASE UNCHANGED vars
  BY <1>1, <1>11 DEF vars
<1> QED BY <1>4, <1>5, <1>6, <1>7, <1>8, <1>9, <1>10, <1>11 DEF Next
-----------------------------------------------------------------------------
LEMMA DeepPush ==
  ASSUME NEW s, NEW n \in Nat, Deep(s, n), NEW f \in Frame, f.call = "sweep" => Len(s) < MaxDepth
  PROVE  Deep(<<f>> \o s, n + 1)
<1>1. s \in Seq(Frame) /\ Len(s) \in Nat
  BY DEF Deep
<1>2. SUFFICES ASSUME NEW i \in 1 .. Len(<<f>> \o s), (<<f>> \o s)[i].call = "sweep"
               PROVE  Len(<<f>> \o s) - i < MaxDepth
  BY <1>1, Push DEF Deep
<1>3. CASE i = 1
  BY <1>1, <1>2, <1>3, Push
<1>4. CASE i # 1
  <2>1. i - 1 \in 1 .. Len(s) /\ s[i - 1].call = "sweep"
    BY <1>1, <1>2, <1>4, Push
  <2> QED BY <1>1, <2>1, Push, PhpServerAssumption DEF Deep
<1> QED BY <1>3, <1>4

LEMMA DeepPop ==
  ASSUME NEW s, NEW n \in Nat, Deep(s, n), s # << >>
  PROVE  Deep(Tail(s), n - 1) /\ (s[1].call = "sweep" => Deep(Tail(s), MaxDepth - 1))
<1>1. s \in Seq(Frame) /\ Len(s) \in Nat
  BY DEF Deep
<1>2. s[1].call = "sweep" => Len(s) =< MaxDepth
  BY <1>1, Pop, PhpServerAssumption DEF Deep
<1>3. ASSUME NEW i \in 1 .. Len(Tail(s)), Tail(s)[i].call = "sweep"
      PROVE  Len(Tail(s)) - i < MaxDepth
  <2>1. i + 1 \in 1 .. Len(s) /\ s[i + 1].call = "sweep"
    BY <1>1, <1>3, Pop
  <2> QED BY <1>1, <2>1, Pop, PhpServerAssumption DEF Deep
<1> QED BY <1>1, <1>2, <1>3, Pop, PhpServerAssumption DEF Deep

LEMMA DeepCallBack ==
  ASSUME NEW h \in {"connect", "close"}, NEW s \in Session, NEW rest,
         Deep(rest, MaxDepth), CallBack(h, s, rest)
  PROVE  StackInv'
<1> DEFINE f == [call |-> h, session |-> s]
<1>1. f \in Frame /\ f.call # "sweep"
  BY DEF Frame
<1>2. stack' = <<f>> \o rest \/ stack' = rest
  BY DEF CallBack
<1> HIDE DEF f
<1>3. Deep(<<f>> \o rest, MaxDepth + 1)
  BY <1>1, DeepPush, PhpServerAssumption
<1>4. Deep(rest, MaxDepth + 1)
  BY PhpServerAssumption DEF Deep
<1> QED BY <1>2, <1>3, <1>4 DEF StackInv, Deep

LEMMA DeepRemove ==
  ASSUME RegistryInv, NEW i, NEW s, NEW rest, Deep(rest, MaxDepth), RemoveSession(i, s, rest)
  PROVE  StackInv'
<1>1. CASE i \in DOMAIN sessions
  BY <1>1, DeepCallBack DEF RemoveSession, RegistryInv
<1>2. CASE i \notin DOMAIN sessions
  BY <1>2, PhpServerAssumption DEF RemoveSession, StackInv, Deep
<1> QED BY <1>1, <1>2

(* The sweep on top, with one session less to look at. *)
LEMMA SweepFrameStep ==
  ASSUME StackInv, stack # << >>, Head(stack).call = "sweep", NEW s
  PROVE  LET rest == <<[Head(stack) EXCEPT !.todo = @ \ {s}]>> \o Tail(stack)
         IN  Deep(rest, MaxDepth)
<1> DEFINE f == [Head(stack) EXCEPT !.todo = @ \ {s}]
<1>1. Deep(Tail(stack), MaxDepth - 1) /\ Head(stack) = stack[1] /\ stack[1] \in Frame
  BY Pop, DeepPop, PhpServerAssumption DEF StackInv, Deep
<1>2. f \in Frame
  BY <1>1 DEF Frame
<1>3. Len(Tail(stack)) < MaxDepth /\ MaxDepth - 1 \in Nat
  BY <1>1, Pop, PhpServerAssumption DEF StackInv, Deep
<1> HIDE DEF f
<1>4. Deep(<<f>> \o Tail(stack), (MaxDepth - 1) + 1)
  BY <1>1, <1>2, <1>3, DeepPush
<1> QED BY <1>4, PhpServerAssumption DEF f

LEMMA StackStep ==
  ASSUME Inv, [Next]_vars
  PROVE  StackInv'
<1> USE DEF Inv
<1>1. ASSUME UNCHANGED stack PROVE StackInv'
  BY <1>1 DEF StackInv, Deep
<1>2. ASSUME CanCall PROVE Deep(stack, MaxDepth) /\ Len(stack) < MaxDepth
  BY <1>2, PhpServerAssumption DEF StackInv, Deep, CanCall
<1>3. ASSUME NEW s \in Session, AddSession(s) PROVE StackInv'
  BY <1>1, <1>2, <1>3, DeepCallBack DEF AddSession
<1>4. ASSUME NEW s \in Session, AppRemoves(s) PROVE StackInv'
  BY <1>2, <1>4, DeepRemove DEF AppRemoves
<1>5. CASE SweepBegins
  <2> DEFINE f == [call |-> "sweep", at |-> now, all |-> Registered, todo |-> Registered]
  <2>1. f \in Frame
    BY RegisteredProperties DEF Frame, ClockInv
  <2>2. stack' = <<f>> \o stack
    BY <1>5 DEF SweepBegins
  <2> HIDE DEF f
  <2>3. Deep(<<f>> \o stack, MaxDepth + 1)
    BY <1>2, <1>5, <2>1, DeepPush, PhpServerAssumption DEF SweepBegins
  <2> QED BY <2>2, <2>3 DEF StackInv, Deep
<1>6. CASE Sweep
  <2>1. PICK s \in Head(stack).todo : SweepStep(s)
    BY <1>6 DEF Sweep
  <2> DEFINE rest == <<[Head(stack) EXCEPT !.todo = @ \ {s}]>> \o Tail(stack)
  <2>2. Deep(rest, MaxDepth)
    BY <1>6, SweepFrameStep DEF Sweep
  <2>3. RemoveSession(Id[s], s, rest) \/ stack' = rest
    BY <2>1 DEF SweepStep
  <2> HIDE DEF rest
  <2> QED BY <2>2, <2>3, DeepRemove, PhpServerAssumption DEF StackInv, Deep
<1>7. ASSUME stack # << >>
      PROVE  Deep(Tail(stack), MaxDepth) /\ Head(stack) = stack[1] /\ stack[1] \in Frame
  <2>1. Deep(Tail(stack), (MaxDepth + 1) - 1)
    BY <1>7, DeepPop, PhpServerAssumption DEF StackInv
  <2> QED BY <1>7, <2>1, Pop, PhpServerAssumption DEF StackInv, Deep
<1>8. ASSUME NEW s, Deep(s, MaxDepth) PROVE Deep(s, MaxDepth + 1)
  BY <1>8, PhpServerAssumption DEF Deep
<1>9. CASE SweepEnds \/ CallbackReturns
  BY <1>7, <1>8, <1>9 DEF SweepEnds, CallbackReturns, StackInv, Deep
<1>10. CASE CallbackThrows
  <2> DEFINE f == [call |-> "error", session |-> Head(stack).session]
  <2>1. stack # << >> /\ Deep(Tail(stack), MaxDepth) /\ f \in Frame /\ f.call # "sweep"
    BY <1>7, <1>10, FrameKinds DEF CallbackThrows, Frame
  <2>2. Deep(<<f>> \o Tail(stack), MaxDepth + 1)
    BY <2>1, DeepPush, PhpServerAssumption
  <2>3. stack' = <<f>> \o Tail(stack) \/ stack' = << >> \o Tail(stack)
    BY <1>10 DEF CallbackThrows
  <2> HIDE DEF f
  <2>4. << >> \o Tail(stack) = Tail(stack)
    BY <2>1 DEF Deep
  <2> QED BY <1>8, <2>1, <2>2, <2>3, <2>4 DEF StackInv, Deep
<1>11. CASE ErrorThrows
  <2>1. stack # << >> /\ Deep(Tail(stack), MaxDepth)
    BY <1>7, <1>11 DEF ErrorThrows
  <2>2. CASE stack' = Tail(stack)
    BY <1>8, <2>1, <2>2 DEF StackInv, Deep
  <2>3. CASE stack' = Tail(Tail(stack)) /\ Tail(stack) # << >>
    <3>1. Deep(Tail(Tail(stack)), MaxDepth - 1)
      BY <2>1, <2>3, DeepPop, PhpServerAssumption
    <3>2. Deep(Tail(Tail(stack)), MaxDepth + 1)
      BY <3>1, PhpServerAssumption DEF Deep
    <3> QED BY <2>3, <3>2 DEF StackInv, Deep
  <2> QED BY <1>11, <2>2, <2>3 DEF ErrorThrows
<1>12. CASE \E s \in Session : Construct(s) \/ RecordReceive(s)
  BY <1>1, <1>12 DEF Construct, RecordReceive
<1>13. CASE (\E only \in SUBSET Session : Broadcast(only)) \/ TimePasses \/ UNCHANGED vars
  BY <1>1, <1>13 DEF Broadcast, TimePasses, vars
<1> QED BY <1>3, <1>4, <1>5, <1>6, <1>9, <1>10, <1>11, <1>12, <1>13 DEF Next
-----------------------------------------------------------------------------
LEMMA InvInit == Init => Inv
<1>1. SUFFICES ASSUME Init PROVE Inv
  OBVIOUS
<1>2. DOMAIN sessions = {} /\ sessions \in [DOMAIN sessions -> Session]
  BY <1>1 DEF Init
<1>3. RegistryInv
  BY <1>2, FS_EmptySet, PhpServerAssumption DEF RegistryInv
<1>4. ClockInv
  BY <1>1, PhpServerAssumption DEF Init, ClockInv
<1>5. StackInv
  BY <1>1, PhpServerAssumption DEF Init, StackInv, Deep
<1> QED BY <1>3, <1>4, <1>5 DEF Inv

LEMMA InvStep == Inv /\ [Next]_vars => Inv'
BY RegistryStep, ClockStep, StackStep DEF Inv

LEMMA InvHolds == Spec => []Inv
BY InvInit, InvStep, PTL DEF Spec

(* Every variable has its type, for all options and depths (Server.php).   *)
THEOREM PhpServerTypeCorrect == Spec => []TypeOK
<1>1. Inv => TypeOK
  BY RegisteredProperties, PhpServerAssumption DEF Inv, RegistryInv, ClockInv, StackInv, Deep, TypeOK
<1> QED BY <1>1, InvHolds, PTL

(* docs/production_readiness.md:63, for every quota: admission control     *)
(* (Server.php:60-66) keeps the number of registered sessions within       *)
(* maxSessions, whatever the callbacks add and remove, and also when a     *)
(* session takes over the key of another one.                              *)
THEOREM QuotaKept == Spec => []QuotaHolds
<1>1. Inv => QuotaHolds
  <2>1. SUFFICES ASSUME RegistryInv PROVE Cardinality(Registered) =< maxSessions
    BY DEF Inv, QuotaHolds
  <2>2. sessions \in Surjection(DOMAIN sessions, Registered)
    BY <2>1, RegisteredProperties DEF Surjection, RegistryInv, Registered, Range
  <2>3. IsFiniteSet(Registered) /\ Cardinality(Registered) =< Cardinality(DOMAIN sessions)
    BY <2>1, <2>2, FS_Surjection DEF RegistryInv
  <2>4. Cardinality(Registered) \in Nat /\ Cardinality(DOMAIN sessions) \in Nat
    BY <2>1, <2>3, FS_CardinalityType DEF RegistryInv
  <2> QED BY <2>1, <2>3, <2>4, PhpServerAssumption DEF RegistryInv
<1> QED BY <1>1, InvHolds, PTL
-----------------------------------------------------------------------------
(* Who is registered after an addition, and after a removal. *)
LEMMA RegisteredAfterAdd ==
  ASSUME RegistryInv, NEW s \in Session, NEW new,
         new = [i \in DOMAIN sessions \cup {Id[s]} |-> IF i = Id[s] THEN s ELSE sessions[i]]
  PROVE  Range(new) = {t \in Registered : Id[t] # Id[s]} \cup {s}
<1>1. DOMAIN new = DOMAIN sessions \cup {Id[s]}
  OBVIOUS
<1>2. ASSUME NEW t \in Range(new) PROVE t \in {u \in Registered : Id[u] # Id[s]} \cup {s}
  <2>1. PICK i \in DOMAIN new : new[i] = t
    BY <1>2 DEF Range
  <2> QED BY <1>1, <2>1, RegisteredProperties DEF RegistryInv
<1>3. ASSUME NEW t \in Registered, Id[t] # Id[s] PROVE t \in Range(new)
  <2>1. Id[t] \in DOMAIN sessions /\ sessions[Id[t]] = t
    BY <1>3, RegisteredProperties
  <2>2. Id[t] \in DOMAIN new /\ new[Id[t]] = t
    BY <1>1, <1>3, <2>1
  <2> QED BY <2>2 DEF Range
<1>4. s \in Range(new)
  BY <1>1 DEF Range
<1> QED BY <1>2, <1>3, <1>4

LEMMA RegisteredAfterRemove ==
  ASSUME RegistryInv, NEW i \in DOMAIN sessions, NEW new, new = Restrict(sessions, DOMAIN sessions \ {i})
  PROVE  Range(new) = Registered \ {sessions[i]}
<1>1. DOMAIN new = DOMAIN sessions \ {i} /\ \A j \in DOMAIN new : new[j] = sessions[j]
  BY DEF Restrict
<1>2. ASSUME NEW t \in Range(new) PROVE t \in Registered \ {sessions[i]}
  <2>1. PICK j \in DOMAIN new : new[j] = t
    BY <1>2 DEF Range
  <2>2. j \in DOMAIN sessions /\ j # i /\ sessions[j] = t
    BY <1>1, <2>1
  <2> QED BY <2>2, RegisteredProperties DEF RegistryInv
<1>3. ASSUME NEW t \in Registered, t # sessions[i] PROVE t \in Range(new)
  <2>1. Id[t] \in DOMAIN sessions /\ sessions[Id[t]] = t
    BY <1>3, RegisteredProperties
  <2>2. Id[t] \in DOMAIN new /\ new[Id[t]] = t
    BY <1>1, <1>3, <2>1
  <2> QED BY <2>2 DEF Range
<1> QED BY <1>2, <1>3
-----------------------------------------------------------------------------
BothTold == DistinctKeys /\ {"connect", "close"} \subseteq Handlers

LEMMA AddKeepsBalance ==
  ASSUME BothTold, Inv, Balanced, NEW s \in Session, AddSession(s), ~Full
  PROVE  Balanced'
<1>1. /\ told["connect"][s] = 0
      /\ sessions' = [i \in DOMAIN sessions \cup {Id[s]} |-> IF i = Id[s] THEN s ELSE sessions[i]]
      /\ told' = [told EXCEPT !["connect"][s] = @ + 1]
  BY DEF AddSession, CallBack, BothTold
<1>2. told["close"][s] \in Nat
  BY DEF Inv, ClockInv
<1>3. s \notin Registered /\ told["close"][s] = 0
  BY <1>1, <1>2 DEF Balanced
<1>4. Registered' = Registered \cup {s}
  <2>1. Registered' = {t \in Registered : Id[t] # Id[s]} \cup {s}
    BY <1>1, RegisteredAfterAdd DEF Inv, Registered
  <2>2. \A t \in Registered : Id[t] # Id[s]
    BY <1>3, RegisteredProperties DEF Inv, BothTold, DistinctKeys
  <2> QED BY <2>1, <2>2
<1>5. ASSUME NEW t \in Session
      PROVE  /\ told'["connect"][t] = (IF t = s THEN told["connect"][t] + 1 ELSE told["connect"][t])
             /\ told'["close"][t] = told["close"][t]
  BY <1>1, "connect" # "close" DEF Inv, ClockInv
<1> QED BY <1>1, <1>3, <1>4, <1>5 DEF Balanced

LEMMA RemoveKeepsBalance ==
  ASSUME BothTold, Inv, Balanced, NEW i, NEW s, NEW rest, RemoveSession(i, s, rest)
  PROVE  Balanced'
<1>1. CASE i \in DOMAIN sessions
  <2> DEFINE gone == sessions[i]
  <2>1. gone \in Session /\ gone \in Registered
    BY <1>1, RegisteredProperties DEF Inv, RegistryInv
  <2>2. Registered' = Registered \ {gone}
    BY <1>1, RegisteredAfterRemove DEF Inv, Registered, RemoveSession
  <2>3. told' = [told EXCEPT !["close"][gone] = @ + 1]
    BY <1>1 DEF RemoveSession, CallBack, BothTold
  <2> HIDE DEF gone
  <2>4. ASSUME NEW t \in Session
        PROVE  /\ told'["connect"][t] = told["connect"][t]
               /\ told'["close"][t] = (IF t = gone THEN told["close"][t] + 1 ELSE told["close"][t])
    BY <2>1, <2>3, "connect" # "close" DEF Inv, ClockInv
  <2>5. \A t \in Session : told["connect"][t] \in Nat /\ told["close"][t] \in Nat
    BY DEF Inv, ClockInv
  <2> QED BY <2>1, <2>2, <2>4, <2>5 DEF Balanced
<1>2. CASE i \notin DOMAIN sessions
  BY <1>2 DEF RemoveSession, Balanced, Registered
<1> QED BY <1>1, <1>2

LEMMA StepKeepsBalance ==
  ASSUME BothTold, Inv, Balanced, [Next]_vars
  PROVE  Balanced'
<1>1. ASSUME UNCHANGED <<sessions, told>> PROVE Balanced'
  BY <1>1 DEF Balanced, Registered
<1>2. ASSUME NEW s \in Session, AddSession(s) PROVE Balanced'
  <2>1. CASE Full
    BY <1>1, <1>2, <2>1 DEF AddSession
  <2> QED BY <1>2, <2>1, AddKeepsBalance
<1>3. ASSUME NEW s \in Session, AppRemoves(s) PROVE Balanced'
  BY <1>3, RemoveKeepsBalance DEF AppRemoves
<1>4. ASSUME NEW s, SweepStep(s) PROVE Balanced'
  BY <1>1, <1>4, RemoveKeepsBalance DEF SweepStep
<1>5. ASSUME NEW s \in Session, Construct(s) \/ RecordReceive(s) PROVE Balanced'
  BY <1>1, <1>5 DEF Construct, RecordReceive
<1>6. CASE (\E only \in SUBSET Session : Broadcast(only)) \/ TimePasses \/ UNCHANGED vars
  BY <1>1, <1>6 DEF Broadcast, TimePasses, vars
<1>7. CASE SweepBegins \/ SweepEnds \/ CallbackReturns \/ CallbackThrows \/ ErrorThrows
  BY <1>1, <1>7 DEF SweepBegins, SweepEnds, CallbackReturns, CallbackThrows, ErrorThrows
<1> QED BY <1>2, <1>3, <1>4, <1>5, <1>6, <1>7 DEF Next, Sweep

(* Server.php:68-73, 85-90: if onConnect and onClose are set and every     *)
(* connection has a key of its own, each is announced once and taken leave *)
(* of exactly when it leaves the registry, however deep the calls nest and *)
(* whichever of the callbacks throws.                                      *)
THEOREM AnnouncementsBalanced ==
  ASSUME DistinctKeys, {"connect", "close"} \subseteq Handlers
  PROVE  Spec => []Balanced
<1>1. Init => Balanced
  BY DEF Init, Balanced, Registered, Range
<1>2. Inv /\ Balanced /\ [Next]_vars => Balanced'
  BY StepKeepsBalance DEF BothTold
<1> QED BY <1>1, <1>2, InvHolds, PTL DEF Spec
-----------------------------------------------------------------------------
(* Server.php:104-108, the action property: with a key of its own for      *)
(* every connection, what leaves the registry while a sweep is at work was *)
(* idle beyond the timeout when the sweep looked at the clock.             *)
THEOREM SweepEvictsOnlyIdle ==
  ASSUME DistinctKeys
  PROVE  Spec => OnlyIdleEvicted
<1> DEFINE Evicts == \A s \in Registered \ Range(sessions') :
                       stack # << >> /\ Head(stack).call = "sweep" =>
                         lastActivityMs[s] + idleTimeoutMs < Head(stack).at
<1>1. ASSUME Inv, Next PROVE Evicts
  <2>1. SUFFICES ASSUME NEW s \in Registered, s \notin Range(sessions'),
                        stack # << >>, Head(stack).call = "sweep"
                 PROVE  lastActivityMs[s] + idleTimeoutMs < Head(stack).at
    OBVIOUS
  <2>2. sessions' # sessions
    BY <2>1 DEF Registered
  <2>3. ~AppRuns
    BY <2>1, PhpServerAssumption DEF AppRuns
  <2>4. Sweep
    BY <1>1, <2>2, <2>3 DEF Next, Construct, RecordReceive, AddSession, AppRemoves, CanCall, Broadcast,
       SweepBegins, SweepEnds, CallbackReturns, CallbackThrows, ErrorThrows, TimePasses
  <2>5. PICK t \in Head(stack).todo : SweepStep(t)
    BY <2>4 DEF Sweep
  <2>6. t \in Session /\ Head(stack).at \in 0 .. MaxTime
    BY <1>1, <2>1, Pop, FrameKinds DEF Inv, StackInv, Deep
  <2>7. Idle(t, Head(stack).at) /\ Id[t] \in DOMAIN sessions
          /\ sessions' = Restrict(sessions, DOMAIN sessions \ {Id[t]})
    BY <2>2, <2>5 DEF SweepStep, RemoveSession
  <2>8. s = sessions[Id[t]] /\ s \in Session
    BY <1>1, <2>1, <2>7, RegisteredAfterRemove, RegisteredProperties DEF Inv
  <2>9. s = t
    BY <1>1, <2>6, <2>7, <2>8 DEF Inv, RegistryInv, DistinctKeys
  <2> QED BY <1>1, <2>6, <2>7, <2>9, PhpServerAssumption DEF Idle, Inv, ClockInv
<1>2. Inv /\ [Next]_vars => [Evicts]_vars
  BY <1>1
<1> QED BY <1>2, InvHolds, PTL DEF Spec, OnlyIdleEvicted
-----------------------------------------------------------------------------
(* What a sweep on the stack has done so far: everything it has looked at  *)
(* is gone from the registry or was not idle, and nothing it has met can   *)
(* come back.                                                              *)
Progress(f, announced, reg, active) ==
  f.call = "sweep" =>
    /\ f.todo \subseteq f.all
    /\ \A s \in f.all : announced["connect"][s] >= 1
    /\ \A s \in (f.all \ f.todo) \cap reg : f.at - active[s] =< idleTimeoutMs

AnnouncedInv == \A s \in Registered : told["connect"][s] >= 1

SweepInv ==
  AnnouncedInv /\ \A i \in 1 .. Len(stack) : Progress(stack[i], told, Registered, lastActivityMs)

(* Announcements and activity only grow, and no announced session is       *)
(* registered anew.                                                        *)
Forward ==
  \A s \in Session :
    /\ told'["connect"][s] >= told["connect"][s]
    /\ lastActivityMs'[s] >= lastActivityMs[s]
    /\ told["connect"][s] >= 1 /\ s \in Registered' => s \in Registered
    /\ s \in Registered' => told'["connect"][s] >= 1

LEMMA RemoveForward ==
  ASSUME Inv, AnnouncedInv, NEW i, NEW s, NEW rest, RemoveSession(i, s, rest), UNCHANGED lastActivityMs
  PROVE  Forward /\ \A t \in Registered : Id[t] = i => t \notin Registered'
<1>1. CASE i \in DOMAIN sessions
  <2> DEFINE gone == sessions[i]
  <2>1. gone \in Session /\ gone \in Registered
    BY <1>1, RegisteredProperties DEF Inv, RegistryInv
  <2>2. Registered' = Registered \ {gone}
    BY <1>1, RegisteredAfterRemove DEF Inv, Registered, RemoveSession
  <2>3. told' = [told EXCEPT !["close"][gone] = @ + 1] \/ told' = told
    BY <1>1 DEF RemoveSession, CallBack
  <2>4. \A t \in Registered : Id[t] = i => t = gone
    BY RegisteredProperties DEF Inv
  <2> HIDE DEF gone
  <2>5. ASSUME NEW t \in Session
        PROVE  /\ told'["connect"][t] = told["connect"][t] /\ told["connect"][t] \in Nat
               /\ lastActivityMs[t] \in Int
    BY <2>1, <2>3, "connect" # "close" DEF Inv, ClockInv
  <2>6. Forward
    BY <2>2, <2>5 DEF Forward, AnnouncedInv
  <2> QED BY <2>2, <2>4, <2>6
<1>2. CASE i \notin DOMAIN sessions
  <2>1. UNCHANGED <<sessions, told>>
    BY <1>2 DEF RemoveSession
  <2>2. \A t \in Session : told["connect"][t] \in Nat /\ lastActivityMs[t] \in Int
    BY DEF Inv, ClockInv
  <2>3. \A t \in Registered : Id[t] # i
    BY <1>2, RegisteredProperties DEF Inv
  <2> QED BY <2>1, <2>2, <2>3 DEF Forward, AnnouncedInv, Registered
<1> QED BY <1>1, <1>2

LEMMA StepForward ==
  ASSUME "connect" \in Handlers, Inv, AnnouncedInv, [Next]_vars
  PROVE  Forward
<1>1. ASSUME NEW s \in Session
      PROVE  told["connect"][s] \in Nat /\ lastActivityMs[s] \in Int /\ now \in Int /\ lastActivityMs[s] =< now
  BY DEF Inv, ClockInv
<1>2. ASSUME UNCHANGED <<sessions, told>>,
             \A s \in Session : lastActivityMs'[s] \in {lastActivityMs[s], now}
      PROVE  Forward
  BY <1>1, <1>2 DEF Forward, AnnouncedInv, Registered
<1>3. ASSUME NEW s \in Session, AddSession(s) PROVE Forward
  <2>1. CASE Full
    BY <1>2, <1>3, <2>1 DEF AddSession
  <2>2. CASE ~Full
    <3>1. /\ sessions' = [i \in DOMAIN sessions \cup {Id[s]} |-> IF i = Id[s] THEN s ELSE sessions[i]]
          /\ told' = [told EXCEPT !["connect"][s] = @ + 1] /\ UNCHANGED lastActivityMs
          /\ told["connect"][s] = 0
      BY <1>3, <2>2 DEF AddSession, CallBack
    <3>2. Registered' = {t \in Registered : Id[t] # Id[s]} \cup {s}
      BY <3>1, RegisteredAfterAdd DEF Inv, Registered
    <3>3. ASSUME NEW t \in Session
          PROVE  told'["connect"][t] = IF t = s THEN told["connect"][t] + 1 ELSE told["connect"][t]
      BY <3>1 DEF Inv, ClockInv
    <3> QED BY <1>1, <3>1, <3>2, <3>3 DEF Forward, AnnouncedInv
  <2> QED BY <2>1, <2>2
<1>4. ASSUME NEW s \in Session, AppRemoves(s) PROVE Forward
  BY <1>4, RemoveForward DEF AppRemoves
<1>5. ASSUME NEW s, SweepStep(s) PROVE Forward
  BY <1>2, <1>5, RemoveForward DEF SweepStep
<1>6. ASSUME NEW s \in Session, Construct(s) \/ RecordReceive(s) PROVE Forward
  <2>1. UNCHANGED <<sessions, told>> /\ lastActivityMs' = [lastActivityMs EXCEPT ![s] = now]
    BY <1>6 DEF Construct, RecordReceive
  <2>2. \A t \in Session : lastActivityMs'[t] \in {lastActivityMs[t], now}
    BY <2>1 DEF Inv, ClockInv
  <2> QED BY <1>2, <2>1, <2>2
<1>7. CASE \E only \in SUBSET Session : Broadcast(only)
  BY <1>2, <1>7 DEF Broadcast
<1>8. CASE SweepBegins \/ SweepEnds \/ CallbackReturns \/ CallbackThrows \/ ErrorThrows \/ TimePasses
  BY <1>2, <1>8 DEF SweepBegins, SweepEnds, CallbackReturns, CallbackThrows, ErrorThrows, TimePasses
<1>9. CASE UNCHANGED vars
  BY <1>2, <1>9 DEF vars
<1> QED BY <1>3, <1>4, <1>5, <1>6, <1>7, <1>8, <1>9 DEF Next, Sweep

(* A sweep further down the stack is not disturbed. *)
LEMMA ForwardKeepsProgress ==
  ASSUME Inv, Inv', Forward, NEW f \in Frame, Progress(f, told, Registered, lastActivityMs)
  PROVE  Progress(f, told', Registered', lastActivityMs')
<1>1. SUFFICES ASSUME f.call = "sweep" PROVE Progress(f, told', Registered', lastActivityMs')
  BY DEF Progress
<1>2. f.all \subseteq Session /\ f.at \in Int
  BY <1>1, FrameKinds
<1>3. \A s \in f.all : told'["connect"][s] >= 1
  <2>1. SUFFICES ASSUME NEW s \in f.all PROVE told'["connect"][s] >= 1
    OBVIOUS
  <2>2. told["connect"][s] \in Nat /\ told'["connect"][s] \in Nat
    BY <1>2 DEF Inv, ClockInv
  <2> QED BY <1>1, <1>2, <2>2 DEF Progress, Forward
<1>4. ASSUME NEW s \in (f.all \ f.todo) \cap Registered'
      PROVE  f.at - lastActivityMs'[s] =< idleTimeoutMs
  <2>1. s \in Session /\ s \in Registered
    BY <1>1, <1>2 DEF Progress, Forward
  <2>2. lastActivityMs'[s] >= lastActivityMs[s] /\ f.at - lastActivityMs[s] =< idleTimeoutMs
    BY <1>1, <2>1 DEF Progress, Forward
  <2>3. lastActivityMs[s] \in Int /\ lastActivityMs'[s] \in Int
    BY <2>1 DEF Inv, ClockInv
  <2> QED BY <1>2, <2>2, <2>3, PhpServerAssumption
<1> QED BY <1>1, <1>3, <1>4 DEF Progress

(* A stack of which every sweep has its progress after the step. *)
Kept(s) ==
  /\ s \in Seq(Frame)
  /\ \A i \in 1 .. Len(s) : Progress(s[i], told', Registered', lastActivityMs')

LEMMA KeptPush ==
  ASSUME NEW s, Kept(s), NEW f \in Frame, Progress(f, told', Registered', lastActivityMs')
  PROVE  Kept(<<f>> \o s)
<1>1. s \in Seq(Frame) /\ Len(s) \in Nat
  BY DEF Kept
<1>2. ASSUME NEW i \in 1 .. Len(<<f>> \o s)
      PROVE  Progress((<<f>> \o s)[i], told', Registered', lastActivityMs')
  <2>1. CASE i = 1
    BY <1>1, <2>1, Push
  <2>2. CASE i # 1
    <3>1. i - 1 \in 1 .. Len(s) /\ (<<f>> \o s)[i] = s[i - 1]
      BY <1>1, <2>2, Push
    <3> QED BY <3>1 DEF Kept
  <2> QED BY <2>1, <2>2
<1> QED BY <1>1, <1>2, Push DEF Kept

LEMMA KeptPop ==
  ASSUME NEW s, Kept(s), s # << >>
  PROVE  Kept(Tail(s))
<1>1. s \in Seq(Frame)
  BY DEF Kept
<1>2. \A i \in 1 .. Len(Tail(s)) : i + 1 \in 1 .. Len(s) /\ Tail(s)[i] = s[i + 1]
  BY <1>1, Pop
<1> QED BY <1>1, <1>2, Pop DEF Kept

(* A callback is no sweep. *)
LEMMA KeptCallBack ==
  ASSUME NEW h \in {"connect", "close"}, NEW s \in Session, NEW rest, Kept(rest), CallBack(h, s, rest)
  PROVE  Kept(stack')
<1> DEFINE f == [call |-> h, session |-> s]
<1>1. f \in Frame /\ Progress(f, told', Registered', lastActivityMs')
  BY DEF Frame, Progress
<1>2. stack' = <<f>> \o rest \/ stack' = rest
  BY DEF CallBack
<1> HIDE DEF f
<1> QED BY <1>1, <1>2, KeptPush

LEMMA KeptRemove ==
  ASSUME RegistryInv, NEW i, NEW s, NEW rest, Kept(rest), RemoveSession(i, s, rest)
  PROVE  Kept(stack')
<1>1. CASE i \in DOMAIN sessions
  BY <1>1, KeptCallBack DEF RemoveSession, RegistryInv
<1>2. CASE i \notin DOMAIN sessions
  BY <1>2 DEF RemoveSession
<1> QED BY <1>1, <1>2

LEMMA SweepInvStep ==
  ASSUME "connect" \in Handlers, Inv, Inv', SweepInv, [Next]_vars
  PROVE  SweepInv'
<1>1. AnnouncedInv /\ Forward
  BY StepForward DEF SweepInv
<1>2. AnnouncedInv'
  <2>1. Registered' \subseteq Session
    BY DEF Inv, RegistryInv, Registered, Range
  <2> QED BY <1>1, <2>1 DEF Forward, AnnouncedInv
<1>3. Kept(stack)
  <2>1. stack \in Seq(Frame)
    BY DEF Inv, StackInv, Deep
  <2>2. ASSUME NEW i \in 1 .. Len(stack) PROVE Progress(stack[i], told', Registered', lastActivityMs')
    BY <1>1, <2>1, ForwardKeepsProgress DEF SweepInv
  <2> QED BY <2>1, <2>2 DEF Kept
<1>4. SUFFICES Kept(stack')
  BY <1>2 DEF SweepInv, Kept
<1>5. ASSUME NEW s \in Session, AddSession(s) PROVE Kept(stack')
  BY <1>3, <1>5, KeptCallBack DEF AddSession
<1>6. ASSUME NEW s \in Session, AppRemoves(s) PROVE Kept(stack')
  BY <1>3, <1>6, KeptRemove DEF AppRemoves, Inv
<1>7. CASE SweepBegins
  <2> DEFINE f == [call |-> "sweep", at |-> now, all |-> Registered, todo |-> Registered]
  <2>1. f \in Frame
    BY RegisteredProperties DEF Frame, Inv, ClockInv
  <2>2. stack' = <<f>> \o stack /\ told' = told
    BY <1>7 DEF SweepBegins
  <2>3. Progress(f, told', Registered', lastActivityMs')
    BY <1>1, <2>2 DEF Progress, AnnouncedInv
  <2> HIDE DEF f
  <2> QED BY <1>3, <2>1, <2>2, <2>3, KeptPush
<1>8. CASE Sweep
  <2>1. PICK s \in Head(stack).todo : SweepStep(s)
    BY <1>8 DEF Sweep
  <2> DEFINE top == Head(stack)
             f == [top EXCEPT !.todo = @ \ {s}]
  <2>2. stack # << >> /\ top \in Frame /\ top.call = "sweep" /\ Kept(Tail(stack))
    BY <1>3, <1>8, Pop, KeptPop DEF Sweep, Kept
  <2>3. Progress(top, told', Registered', lastActivityMs')
    BY <1>3, <2>2, Pop DEF Kept
  <2>4. /\ f \in Frame /\ f.call = "sweep" /\ f.at = top.at /\ f.all = top.all /\ f.todo = top.todo \ {s}
        /\ s \in Session /\ top.at \in 0 .. MaxTime
    BY <2>1, <2>2, FrameKinds DEF Frame
  <2>5. s \in Registered' => top.at - lastActivityMs'[s] =< idleTimeoutMs
    <3>1. CASE Idle(s, top.at)
      <4>1. RemoveSession(Id[s], s, <<f>> \o Tail(stack)) /\ UNCHANGED lastActivityMs
        BY <2>1, <3>1 DEF SweepStep
      <4>2. s \notin Registered => s \notin Registered'
        <5>1. s \in Head(stack).all
          BY <2>1, <2>3, <2>2 DEF Progress
        <5>2. told["connect"][s] >= 1
          BY <2>2, <5>1, Pop DEF SweepInv, Progress, Inv, StackInv, Deep
        <5> QED BY <1>1, <2>4, <5>2 DEF Forward
      <4> QED BY <1>1, <4>1, <4>2, RemoveForward
    <3>2. CASE ~Idle(s, top.at)
      BY <2>1, <2>4, <3>2, PhpServerAssumption DEF SweepStep, Idle, Inv, ClockInv
    <3> QED BY <3>1, <3>2
  <2>6. Progress(f, told', Registered', lastActivityMs')
    BY <2>2, <2>3, <2>4, <2>5 DEF Progress
  <2>7. RemoveSession(Id[s], s, <<f>> \o Tail(stack)) \/ stack' = <<f>> \o Tail(stack)
    BY <2>1 DEF SweepStep
  <2> HIDE DEF f, top
  <2> QED BY <2>2, <2>4, <2>6, <2>7, KeptPush, KeptRemove DEF Inv
<1>9. CASE SweepEnds \/ CallbackReturns
  BY <1>3, <1>9, KeptPop DEF SweepEnds, CallbackReturns
<1>10. CASE CallbackThrows
  <2> DEFINE f == [call |-> "error", session |-> Head(stack).session]
  <2>1. stack # << >> /\ Kept(Tail(stack)) /\ f \in Frame
    BY <1>3, <1>10, Pop, KeptPop, FrameKinds DEF CallbackThrows, Frame, Kept
  <2>2. Progress(f, told', Registered', lastActivityMs')
    BY DEF Progress
  <2>3. stack' = <<f>> \o Tail(stack) \/ stack' = << >> \o Tail(stack)
    BY <1>10 DEF CallbackThrows
  <2> HIDE DEF f
  <2>4. << >> \o Tail(stack) = Tail(stack)
    BY <2>1 DEF Kept
  <2> QED BY <2>1, <2>2, <2>3, <2>4, KeptPush
<1>11. CASE ErrorThrows
  <2>1. stack # << >> /\ Kept(Tail(stack))
    BY <1>3, <1>11, KeptPop DEF ErrorThrows
  <2>2. stack' = Tail(stack) \/ (stack' = Tail(Tail(stack)) /\ Tail(stack) # << >>)
    BY <1>11 DEF ErrorThrows
  <2> QED BY <2>1, <2>2, KeptPop
<1>12. CASE \E s \in Session : Construct(s) \/ RecordReceive(s)
  BY <1>3, <1>12 DEF Construct, RecordReceive
<1>13. CASE (\E only \in SUBSET Session : Broadcast(only)) \/ TimePasses \/ UNCHANGED vars
  BY <1>3, <1>13 DEF Broadcast, TimePasses, vars
<1> QED BY <1>5, <1>6, <1>7, <1>8, <1>9, <1>10, <1>11, <1>12, <1>13 DEF Next

(* Server.php:96-110: if onConnect is set, a sweep that comes to its end   *)
(* leaves none of the sessions it found idle, although its copy of the     *)
(* registry goes stale under callbacks that add, remove and sweep.         *)
THEOREM SweepsAreComplete ==
  ASSUME "connect" \in Handlers
  PROVE  Spec => []SweepComplete
<1>1. Init => SweepInv
  BY DEF Init, SweepInv, AnnouncedInv, Registered, Range
<1>2. Inv /\ Inv' /\ SweepInv /\ [Next]_vars => SweepInv'
  BY SweepInvStep
<1>3. Inv /\ SweepInv => SweepComplete
  BY Pop DEF Inv, StackInv, Deep, SweepInv, Progress, SweepComplete
<1> QED BY <1>1, <1>2, <1>3, InvHolds, PTL DEF Spec
=============================================================================
