------------------------- MODULE AsyncClientProofs -------------------------
(***************************************************************************)
(* Proofs about AsyncClient: what holds for every policy, stack depth and  *)
(* duration of the callbacks.                                              *)
(***************************************************************************)
EXTENDS AsyncClient, TLAPS

BothSet == Handlers = {"connect", "close"}

(* What the alternation rests on: open follows wasConnected. *)
AlternationInv == wasConnected \in BOOLEAN /\ open = (IF wasConnected THEN 1 ELSE 0)

(* A step that is neither end of a connection leaves both alone. *)
LEMMA OthersKeepAlternation ==
  ASSUME AlternationInv, UNCHANGED <<wasConnected, open>>
  PROVE  AlternationInv'
BY DEF AlternationInv

LEMMA TickLostKeepsAlternation ==
  ASSUME BothSet, AlternationInv, TickLost
  PROVE  AlternationInv'
<1>1. CASE wasConnected
  <2>1. open = 1
    BY <1>1 DEF AlternationInv
  <2>2. open' = open + (IF "close" = "connect" THEN 1 ELSE -1)
    BY <1>1 DEF TickLost, CallBack, BothSet
  <2>3. open' = 0 /\ wasConnected' = FALSE
    BY <2>1, <2>2 DEF TickLost
  <2> QED BY <2>3 DEF AlternationInv
<1>2. CASE ~wasConnected
  <2>1. open' = open /\ wasConnected' = FALSE
    BY <1>2 DEF TickLost
  <2> QED BY <1>2, <2>1 DEF AlternationInv
<1> QED BY <1>1, <1>2

LEMMA TickReadyKeepsAlternation ==
  ASSUME BothSet, AlternationInv, TickReady
  PROVE  AlternationInv'
<1>1. CASE wasConnected
  <2>1. UNCHANGED <<wasConnected, open>>
    BY <1>1 DEF TickReady, clientVars
  <2> QED BY <2>1, OthersKeepAlternation
<1>2. CASE ~wasConnected
  <2>1. open = 0
    BY <1>2 DEF AlternationInv
  <2>2. open' = open + (IF "connect" = "connect" THEN 1 ELSE -1) /\ wasConnected' = TRUE
    BY <1>2 DEF TickReady, CallBack, BothSet
  <2>3. open' = 1
    BY <2>1, <2>2
  <2> QED BY <2>2, <2>3 DEF AlternationInv
<1> QED BY <1>1, <1>2

LEMMA StepKeepsAlternation ==
  ASSUME BothSet, AlternationInv, [Next]_vars
  PROVE  AlternationInv'
<1>1. CASE TickLost
  BY <1>1, TickLostKeepsAlternation
<1>2. CASE TickReady
  BY <1>2, TickReadyKeepsAlternation
<1>3. CASE Tick \/ TickRetry \/ TickElse \/ CallbackEnds
  <2>1. UNCHANGED <<wasConnected, open>>
    BY <1>3 DEF Tick, TickRetry, TickElse, CallbackEnds, CallbackReturns, CallbackThrows, clientVars
  <2> QED BY <2>1, OthersKeepAlternation
<1>4. CASE Connect \/ Disconnect \/ Free \/ NativeMoves \/ TimePasses \/ UNCHANGED vars
  <2>1. UNCHANGED <<wasConnected, open>>
    BY <1>4 DEF Connect, Disconnect, Free, NativeMoves, TimePasses, vars, clientVars
  <2> QED BY <2>1, OthersKeepAlternation
<1> QED BY <1>1, <1>2, <1>3, <1>4 DEF Next, TickGoesOn

(* docs/production_readiness.md:28, for every policy and however the       *)
(* callbacks nest, throw or take their time: onConnect and onClose         *)
(* alternate, beginning with onConnect (AsyncClient.php:70-75, 102-110).   *)
THEOREM AsyncCallbacksAlternate == Spec => []CallbacksAlternate
<1>1. CASE BothSet
  <2>1. Init => AlternationInv
    BY DEF Init, AlternationInv
  <2>2. AlternationInv /\ [Next]_vars => AlternationInv'
    BY <1>1, StepKeepsAlternation
  <2>3. AlternationInv => CallbacksAlternate
    BY DEF AlternationInv, CallbacksAlternate
  <2> QED BY <2>1, <2>2, <2>3, PTL DEF Spec
<1>2. CASE ~BothSet
  <2>1. CallbacksAlternate
    BY <1>2 DEF BothSet, CallbacksAlternate
  <2> QED BY <2>1, PTL
<1> QED BY <1>1, <1>2
-----------------------------------------------------------------------------
Frame == [call : {"tick", "retry", "connect", "close"}, seen : State, age : Int]

(* No call in s is in the middle of a loss. *)
Settled(s) == \A i \in 1 .. Len(s) : s[i].call \notin {"close", "retry"}

(* A tick that has yet to come to its reconnect logic is on top of the     *)
(* stack, or right under its own onClose.                                  *)
Shape(s) ==
  \/ Settled(s)
  \/ Len(s) >= 1 /\ s[1].call = "retry" /\ Settled(Tail(s))
  \/ Len(s) >= 2 /\ s[1].call = "close" /\ s[2].call = "retry" /\ Settled(Tail(Tail(s)))

StackInv ==
  /\ state \in State /\ stack \in Seq(Frame) /\ Shape(stack)
  /\ wasConnected => Settled(stack)

ScheduleInv == StackInv /\ wasConnected \in BOOLEAN /\ ScheduleDropped

LEMMA Push ==
  ASSUME NEW s \in Seq(Frame), NEW f \in Frame
  PROVE  /\ <<f>> \o s \in Seq(Frame) /\ Len(<<f>> \o s) >= 1
         /\ (<<f>> \o s)[1] = f /\ Tail(<<f>> \o s) = s
         /\ Settled(s) /\ f.call \notin {"close", "retry"} => Settled(<<f>> \o s)
<1> DEFINE r == <<f>> \o s
<1>1. r \in Seq(Frame) /\ Len(r) = Len(s) + 1 /\ r[1] = f
  OBVIOUS
<1>2. \A i \in 2 .. Len(r) : r[i] = s[i - 1]
  OBVIOUS
<1>3. Tail(r) \in Seq(Frame) /\ Len(Tail(r)) = Len(s)
  BY <1>1
<1>4. \A i \in 1 .. Len(s) : Tail(r)[i] = s[i]
  BY <1>1, <1>2
<1>5. Tail(r) = s
  BY <1>3, <1>4
<1>6. ASSUME Settled(s), f.call \notin {"close", "retry"}
      PROVE  Settled(r)
  <2>1. SUFFICES ASSUME NEW i \in 1 .. Len(r) PROVE r[i].call \notin {"close", "retry"}
    BY DEF Settled
  <2>2. CASE i = 1
    BY <1>1, <1>6, <2>2
  <2>3. CASE i # 1
    BY <1>1, <1>2, <1>6, <2>3 DEF Settled
  <2> QED BY <2>2, <2>3
<1> QED BY <1>1, <1>5, <1>6

LEMMA Pop ==
  ASSUME NEW s \in Seq(Frame), s # << >>
  PROVE  /\ Tail(s) \in Seq(Frame) /\ Head(s) = s[1] /\ s[1] \in Frame /\ Len(s) >= 1
         /\ Settled(s) => Settled(Tail(s))
<1>1. Len(s) \in Nat /\ Len(s) >= 1
  OBVIOUS
<1>2. Tail(s) \in Seq(Frame) /\ Head(s) = s[1] /\ s[1] \in Frame /\ Len(Tail(s)) = Len(s) - 1
  BY <1>1
<1>3. \A i \in 1 .. Len(Tail(s)) : Tail(s)[i] = s[i + 1] /\ i + 1 \in 1 .. Len(s)
  BY <1>1, <1>2
<1>4. Settled(s) => Settled(Tail(s))
  BY <1>3 DEF Settled
<1> QED BY <1>1, <1>2, <1>4

(* When neither a reconnect logic nor an onClose is on top, none is below. *)
LEMMA SettledByTop ==
  ASSUME NEW s \in Seq(Frame), Shape(s), s # << >>, s[1].call \notin {"close", "retry"}
  PROVE  Settled(s)
BY DEF Shape

(* Below a reconnect logic on top, nothing is in the middle of a loss. *)
LEMMA SettledBelow ==
  ASSUME NEW s \in Seq(Frame), Shape(s), s # << >>, s[1].call # "close"
  PROVE  Settled(Tail(s))
BY Pop, SettledByTop DEF Shape

LEMMA EmptySettled == Settled(<< >>)
BY DEF Settled
-----------------------------------------------------------------------------
LEMMA TickKeeps ==
  ASSUME "close" \notin Ticking, ScheduleInv, Tick
  PROVE  ScheduleInv'
<1> DEFINE f == [call |-> "tick", seen |-> state, age |-> 0]
<1>1. f \in Frame /\ f.call \notin {"close", "retry"}
  BY DEF Frame, ScheduleInv, StackInv
<1>2. stack' = <<f>> \o stack /\ UNCHANGED <<state, wasConnected, nextReconnectTime, reconnectAttempts>>
  BY DEF Tick, clientVars
<1>3. Settled(stack)
  <2>1. CASE stack = << >>
    BY <2>1, EmptySettled
  <2>2. CASE stack # << >>
    <3>1. Head(stack).call \in Ticking /\ Head(stack).call \in {"connect", "close"}
      BY <2>2, AsyncClientAssumption DEF Tick, AppRuns
    <3>2. stack[1].call \notin {"close", "retry"}
      BY <2>2, <3>1, Pop DEF ScheduleInv, StackInv
    <3> QED BY <2>2, <3>2, SettledByTop DEF ScheduleInv, StackInv
  <2> QED BY <2>1, <2>2
<1>4. stack' \in Seq(Frame) /\ Settled(stack')
  BY <1>1, <1>2, <1>3, Push DEF ScheduleInv, StackInv
<1> QED BY <1>2, <1>4 DEF ScheduleInv, StackInv, Shape, ScheduleDropped

LEMMA TickLostKeeps ==
  ASSUME ScheduleInv, TickLost
  PROVE  ScheduleInv'
<1> DEFINE f == [Head(stack) EXCEPT !.call = "retry"]
           rest == <<f>> \o Tail(stack)
           g == [call |-> "close", seen |-> state, age |-> 0]
<1>1. stack \in Seq(Frame) /\ stack # << >> /\ Head(stack).call = "tick" /\ Shape(stack)
  BY DEF ScheduleInv, StackInv, TickLost, Top
<1>2. Tail(stack) \in Seq(Frame) /\ Settled(Tail(stack)) /\ Head(stack) \in Frame
  BY <1>1, Pop, SettledBelow
<1>3. f \in Frame /\ f.call = "retry"
  BY <1>2 DEF Frame
<1>4. rest \in Seq(Frame) /\ Len(rest) >= 1 /\ rest[1] = f /\ Tail(rest) = Tail(stack)
  BY <1>2, <1>3, Push
<1>5. Shape(rest)
  BY <1>2, <1>3, <1>4 DEF Shape
<1>6. g \in Frame /\ g.call = "close"
  BY DEF Frame, ScheduleInv, StackInv
<1>7. /\ <<g>> \o rest \in Seq(Frame) /\ (<<g>> \o rest)[1] = g /\ Tail(<<g>> \o rest) = rest
  BY <1>4, <1>6, Push
<1>8. Len(<<g>> \o rest) >= 2 /\ (<<g>> \o rest)[2] = f
  BY <1>4
<1>9. Shape(<<g>> \o rest)
  BY <1>2, <1>3, <1>4, <1>6, <1>7, <1>8 DEF Shape
<1>10. stack' = rest \/ stack' = <<g>> \o rest
  BY DEF TickLost, CallBack
<1>11. stack' \in Seq(Frame) /\ Shape(stack')
  BY <1>4, <1>5, <1>7, <1>9, <1>10
<1>12. wasConnected' = FALSE /\ UNCHANGED state
  BY DEF TickLost
<1> QED BY <1>11, <1>12 DEF ScheduleInv, StackInv, ScheduleDropped

LEMMA TickRetryKeeps ==
  ASSUME ScheduleInv, TickRetry
  PROVE  ScheduleInv'
<1>1. stack \in Seq(Frame) /\ stack # << >> /\ Head(stack).call = "retry" /\ Shape(stack)
  BY DEF ScheduleInv, StackInv, TickRetry, Top
<1>2. Tail(stack) \in Seq(Frame) /\ Settled(Tail(stack)) /\ stack[1].call = "retry" /\ Len(stack) >= 1
  BY <1>1, Pop, SettledBelow
<1>3. ~Settled(stack)
  BY <1>1, <1>2 DEF Settled
<1>4. ~wasConnected /\ wasConnected \in BOOLEAN
  BY <1>3 DEF ScheduleInv, StackInv
<1>5. stack' = Tail(stack) /\ UNCHANGED <<state, wasConnected>>
  BY DEF TickRetry
<1> QED BY <1>2, <1>4, <1>5 DEF ScheduleInv, StackInv, ScheduleDropped, Shape

LEMMA TickReadyKeeps ==
  ASSUME ScheduleInv, TickReady
  PROVE  ScheduleInv'
<1> DEFINE g == [call |-> "connect", seen |-> state, age |-> 0]
<1>1. stack \in Seq(Frame) /\ stack # << >> /\ Head(stack).call = "tick" /\ Shape(stack)
  BY DEF ScheduleInv, StackInv, TickReady, Top
<1>2. Tail(stack) \in Seq(Frame) /\ Settled(Tail(stack))
  BY <1>1, Pop, SettledBelow
<1>3. g \in Frame /\ g.call \notin {"close", "retry"}
  BY DEF Frame, ScheduleInv, StackInv
<1>4. <<g>> \o Tail(stack) \in Seq(Frame) /\ Settled(<<g>> \o Tail(stack))
  BY <1>2, <1>3, Push
<1>5. stack' = Tail(stack) \/ stack' = <<g>> \o Tail(stack)
  BY DEF TickReady, CallBack
<1>6. stack' \in Seq(Frame) /\ Settled(stack')
  BY <1>2, <1>4, <1>5
<1>7. UNCHANGED state /\ wasConnected' \in BOOLEAN /\ ScheduleDropped'
  BY DEF TickReady, clientVars, ScheduleInv, ScheduleDropped
<1> QED BY <1>6, <1>7 DEF ScheduleInv, StackInv, Shape

LEMMA TickElseKeeps ==
  ASSUME ScheduleInv, TickElse
  PROVE  ScheduleInv'
<1>1. stack \in Seq(Frame) /\ stack # << >> /\ Head(stack).call = "tick" /\ Shape(stack)
  BY DEF ScheduleInv, StackInv, TickElse, Top
<1>2. Tail(stack) \in Seq(Frame) /\ Settled(Tail(stack))
  BY <1>1, Pop, SettledBelow
<1>3. stack' = Tail(stack) /\ UNCHANGED <<state, wasConnected, reconnectAttempts, nextReconnectTime>>
  BY DEF TickElse, clientVars
<1> QED BY <1>2, <1>3 DEF ScheduleInv, StackInv, Shape, ScheduleDropped

LEMMA CallbackEndsKeeps ==
  ASSUME ScheduleInv, CallbackEnds
  PROVE  ScheduleInv'
<1>1. stack \in Seq(Frame) /\ stack # << >> /\ Head(stack).call \in {"connect", "close"} /\ Shape(stack)
  BY AsyncClientAssumption DEF ScheduleInv, StackInv, CallbackEnds, CallbackReturns, CallbackThrows
<1>2. UNCHANGED <<state, wasConnected, reconnectAttempts, nextReconnectTime>>
  BY DEF CallbackEnds, CallbackReturns, CallbackThrows, clientVars
<1>3. Tail(stack) \in Seq(Frame) /\ stack[1] = Head(stack) /\ Len(stack) >= 1
  BY <1>1, Pop
<1>4. CASE Head(stack).call = "connect"
  <2>1. stack' = Tail(stack)
    BY <1>4 DEF CallbackEnds, CallbackReturns, CallbackThrows
  <2>2. Settled(Tail(stack))
    BY <1>1, <1>3, <1>4, SettledBelow
  <2> QED BY <1>2, <1>3, <2>1, <2>2 DEF ScheduleInv, StackInv, Shape, ScheduleDropped
<1>5. CASE Head(stack).call = "close"
  <2>1. ~Settled(stack)
    BY <1>3, <1>5 DEF Settled
  <2>2. ~wasConnected /\ wasConnected \in BOOLEAN
    BY <2>1 DEF ScheduleInv, StackInv
  <2>3. Len(stack) >= 2 /\ stack[2].call = "retry" /\ Settled(Tail(Tail(stack)))
    BY <1>1, <1>3, <1>5, <2>1 DEF Shape
  <2>4. Tail(stack) # << >> /\ Tail(stack)[1] = stack[2] /\ Len(Tail(stack)) >= 1
    <3>1. Len(stack) \in Nat /\ Len(Tail(stack)) = Len(stack) - 1
      BY <1>1
    <3>2. 1 \in 1 .. Len(stack) - 1
      BY <2>3, <3>1
    <3>3. Tail(stack)[1] = stack[1 + 1]
      BY <1>1, <3>1, <3>2
    <3> QED BY <1>3, <2>3, <3>1, <3>3
  <2>5. Tail(Tail(stack)) \in Seq(Frame)
    BY <1>3, <2>4, Pop
  <2>6. Shape(Tail(stack)) /\ Shape(Tail(Tail(stack)))
    BY <2>3, <2>4 DEF Shape
  <2>7. stack' = Tail(stack) \/ stack' = Tail(Tail(stack))
    BY DEF CallbackEnds, CallbackReturns, CallbackThrows
  <2> QED BY <1>2, <1>3, <2>2, <2>5, <2>6, <2>7 DEF ScheduleInv, StackInv, ScheduleDropped
<1> QED BY <1>1, <1>4, <1>5

(* The methods of the extension's object stay within the life cycle. *)
LEMMA TransitionInState ==
  ASSUME NEW s \in State, NEW new \in State
  PROVE  Transition(s, new) \in State
BY DEF Transition

LEMMA MethodsKeep ==
  ASSUME ScheduleInv, Connect \/ Disconnect \/ Free \/ NativeMoves
  PROVE  ScheduleInv'
<1>1. state \in State
  BY DEF ScheduleInv, StackInv
<1>2. ConnectMethod(state) \in State /\ DisconnectMethod(state) \in State /\ FreeObject(state) \in State
  <2>1. {"CONNECTING", "CLOSING", "CLOSED"} \subseteq State
    BY DEF State
  <2> QED BY <1>1, <2>1, TransitionInState DEF ConnectMethod, DisconnectMethod, FreeObject
<1>3. Allowed[state] \subseteq State
  BY <1>1 DEF Allowed, State
<1>4. state' \in State
  BY <1>2, <1>3 DEF Connect, Disconnect, Free, NativeMoves
<1>5. UNCHANGED <<stack, wasConnected, reconnectAttempts, nextReconnectTime>>
  BY DEF Connect, Disconnect, Free, NativeMoves, clientVars
<1> QED BY <1>4, <1>5 DEF ScheduleInv, StackInv, ScheduleDropped

LEMMA TimePassesKeeps ==
  ASSUME ScheduleInv, TimePasses
  PROVE  ScheduleInv'
<1> DEFINE older(s) == [i \in 1 .. Len(s) |-> [s[i] EXCEPT !.age = @ + 1]]
<1>1. ASSUME NEW s \in Seq(Frame)
      PROVE  /\ older(s) \in Seq(Frame) /\ Len(older(s)) = Len(s)
             /\ \A i \in 1 .. Len(s) : older(s)[i].call = s[i].call
  <2>1. \A i \in 1 .. Len(s) : s[i] \in Frame
    BY <1>1
  <2>2. \A i \in 1 .. Len(s) : older(s)[i] \in Frame /\ older(s)[i].call = s[i].call
    BY <2>1 DEF Frame
  <2>3. Len(s) \in Nat
    BY <1>1
  <2> QED BY <2>2, <2>3
<1>2. stack \in Seq(Frame) /\ Shape(stack) /\ stack' = older(stack)
  BY DEF ScheduleInv, StackInv, TimePasses
<1>3. /\ stack' \in Seq(Frame) /\ Len(stack') = Len(stack)
      /\ \A i \in 1 .. Len(stack) : stack'[i].call = stack[i].call
  BY <1>1, <1>2
<1>4. Settled(stack) => Settled(stack')
  BY <1>3 DEF Settled
<1>5. Shape(stack')
  <2>1. CASE Settled(stack)
    BY <1>4, <2>1 DEF Shape
  <2>2. CASE Len(stack) >= 1 /\ stack[1].call = "retry" /\ Settled(Tail(stack))
    <3>1. /\ Len(Tail(stack)) = Len(stack) - 1 /\ Len(Tail(stack')) = Len(stack) - 1
          /\ \A i \in 1 .. Len(stack) - 1 : Tail(stack)[i] = stack[i + 1] /\ Tail(stack')[i] = stack'[i + 1]
      BY <1>2, <1>3, <2>2
    <3>2. Settled(Tail(stack'))
      BY <1>2, <1>3, <2>2, <3>1 DEF Settled
    <3> QED BY <1>2, <1>3, <2>2, <3>2 DEF Shape
  <2>3. CASE Len(stack) >= 2 /\ stack[1].call = "close" /\ stack[2].call = "retry" /\ Settled(Tail(Tail(stack)))
    <3>1. /\ Tail(stack) \in Seq(Frame) /\ Tail(stack') \in Seq(Frame)
          /\ Len(Tail(stack)) = Len(stack) - 1 /\ Len(Tail(stack')) = Len(stack) - 1
          /\ \A i \in 1 .. Len(stack) - 1 : Tail(stack)[i] = stack[i + 1] /\ Tail(stack')[i] = stack'[i + 1]
      BY <1>2, <1>3, <2>3
    <3>2. /\ Len(Tail(Tail(stack))) = Len(stack) - 2 /\ Len(Tail(Tail(stack'))) = Len(stack) - 2
          /\ \A i \in 1 .. Len(stack) - 2 : /\ Tail(Tail(stack))[i] = Tail(stack)[i + 1]
                                           /\ Tail(Tail(stack'))[i] = Tail(stack')[i + 1]
      BY <1>2, <2>3, <3>1
    <3>3. ASSUME NEW i \in 1 .. Len(stack) - 2
          PROVE  Tail(Tail(stack'))[i].call = Tail(Tail(stack))[i].call
      <4>1. Len(stack) \in Nat
        BY <1>2
      <4>2. i + 1 \in 1 .. Len(stack) - 1 /\ (i + 1) + 1 \in 1 .. Len(stack)
        BY <4>1
      <4>3. Tail(Tail(stack))[i] = stack[(i + 1) + 1] /\ Tail(Tail(stack'))[i] = stack'[(i + 1) + 1]
        BY <3>1, <3>2, <4>2
      <4> QED BY <1>3, <4>2, <4>3
    <3>4. Settled(Tail(Tail(stack')))
      BY <2>3, <3>2, <3>3 DEF Settled
    <3> QED BY <1>2, <1>3, <2>3, <3>4 DEF Shape
  <2> QED BY <1>2, <2>1, <2>2, <2>3 DEF Shape
<1>6. UNCHANGED <<state, wasConnected, reconnectAttempts>>
  BY DEF TimePasses
<1>7. nextReconnectTime = << >> => nextReconnectTime' = << >>
  BY DEF TimePasses
<1> QED BY <1>3, <1>4, <1>5, <1>6, <1>7 DEF ScheduleInv, StackInv, ScheduleDropped

LEMMA StepKeepsSchedule ==
  ASSUME "close" \notin Ticking, ScheduleInv, [Next]_vars
  PROVE  ScheduleInv'
<1>1. CASE Tick
  BY <1>1, TickKeeps
<1>2. CASE TickGoesOn
  BY <1>2, TickLostKeeps, TickRetryKeeps, TickReadyKeeps, TickElseKeeps DEF TickGoesOn
<1>3. CASE CallbackEnds
  BY <1>3, CallbackEndsKeeps
<1>4. CASE Connect \/ Disconnect \/ Free \/ NativeMoves
  BY <1>4, MethodsKeep
<1>5. CASE TimePasses
  BY <1>5, TimePassesKeeps
<1>6. CASE UNCHANGED vars
  BY <1>6 DEF vars, clientVars, ScheduleInv, StackInv, ScheduleDropped
<1> QED BY <1>1, <1>2, <1>3, <1>4, <1>5, <1>6 DEF Next

LEMMA ScheduleInvHolds ==
  ASSUME "close" \notin Ticking
  PROVE  Spec => []ScheduleInv
<1>1. Init => ScheduleInv
  <2>1. ConnectionInit \in State
    BY DEF ConnectionInit, State
  <2>2. << >> \in Seq(Frame)
    OBVIOUS
  <2> QED BY <2>1, <2>2, EmptySettled
          DEF Init, CreateObject, ScheduleInv, StackInv, Shape, ScheduleDropped
<1>2. ScheduleInv /\ [Next]_vars => ScheduleInv'
  BY StepKeepsSchedule
<1> QED BY <1>1, <1>2, PTL DEF Spec

(* AsyncClient.php:105, for every policy and as long as onClose does not   *)
(* call tick() itself: while the connection is known to be up nothing is   *)
(* scheduled and no attempt counted, although tick() goes by a state it    *)
(* read before its callbacks ran.                                          *)
THEOREM AsyncScheduleDropped ==
  ASSUME "close" \notin Ticking
  PROVE  Spec => []ScheduleDropped
<1>1. ScheduleInv => ScheduleDropped
  BY DEF ScheduleInv
<1> QED BY <1>1, ScheduleInvHolds, PTL
-----------------------------------------------------------------------------
(* No delay of the policy is beyond the range of a PHP int. *)
DelaysFit == \A n \in 0 .. maxReconnectAttempts : Delay(n) \in 0 .. (WORD \div 2) - 1

(* Then the cast is harmless, and calculateBackoff computes what the       *)
(* policy asks for.                                                        *)
LEMMA BackoffIsPolicy ==
  ASSUME DelaysFit, NEW n \in 0 .. maxReconnectAttempts
  PROVE  Backoff(n) = PolicyDelay(n) /\ Backoff(n) \in 0 .. maxBackoffMs
<1> DEFINE half == WORD \div 2
           d == Delay(n)
<1>1. d \in 0 .. half - 1
  BY DEF DelaysFit
<1>2. half \in Nat /\ WORD \in Nat \ {0} /\ maxBackoffMs \in Nat
  BY AsyncClientAssumption
<1>3. ((d + half) % WORD) - half = d
  <2> HIDE DEF d
  <2> QED BY <1>1, <1>2
<1>4. Backoff(n) = (IF d < maxBackoffMs THEN d ELSE maxBackoffMs)
  BY <1>3 DEF Backoff
<1>5. PolicyDelay(n) = (IF d < maxBackoffMs THEN d ELSE maxBackoffMs)
  BY DEF PolicyDelay
<1> HIDE DEF d, half
<1> QED BY <1>1, <1>2, <1>4, <1>5
-----------------------------------------------------------------------------
(* A stack of calls that may last so long, onClose never at the bottom. *)
Calls(s) ==
  /\ s \in Seq(Frame)
  /\ \A i \in 1 .. Len(s) : s[i].age \in 0 .. MaxCallback
  /\ s # << >> => s[Len(s)].call # "close"

TypeInv ==
  /\ state \in State /\ alive \in BOOLEAN /\ wasConnected \in BOOLEAN
  /\ reconnectAttempts \in 0 .. maxReconnectAttempts
  /\ nextReconnectTime \in {<< >>} \cup {<<d>> : d \in -Horizon .. maxBackoffMs}
  /\ Calls(stack)
  /\ open \in Int /\ quiet \in 0 .. Horizon

LEMMA CallsPush ==
  ASSUME NEW s, Calls(s), NEW f \in Frame, f.age \in 0 .. MaxCallback, s = << >> => f.call # "close"
  PROVE  Calls(<<f>> \o s)
<1> DEFINE r == <<f>> \o s
<1>1. s \in Seq(Frame) /\ Len(s) \in Nat
  BY DEF Calls
<1>2. r \in Seq(Frame) /\ Len(r) = Len(s) + 1 /\ r[1] = f /\ \A i \in 2 .. Len(r) : r[i] = s[i - 1]
  BY <1>1
<1> HIDE DEF r
<1>3. ASSUME NEW i \in 1 .. Len(r) PROVE r[i].age \in 0 .. MaxCallback
  <2>1. CASE i = 1
    BY <1>2, <2>1
  <2>2. CASE i # 1
    <3>1. i - 1 \in 1 .. Len(s) /\ r[i] = s[i - 1]
      BY <1>1, <1>2, <2>2
    <3> QED BY <3>1 DEF Calls
  <2> QED BY <2>1, <2>2
<1>4. r[Len(r)].call # "close"
  <2>1. CASE s = << >>
    BY <1>2, <2>1
  <2>2. CASE s # << >>
    <3>1. Len(s) >= 1 /\ Len(r) \in 2 .. Len(r)
      BY <1>1, <1>2, <2>2
    <3>2. r[Len(r)] = s[Len(r) - 1] /\ Len(r) - 1 = Len(s)
      BY <1>1, <1>2, <3>1
    <3> QED BY <2>2, <3>2 DEF Calls
  <2> QED BY <2>1, <2>2
<1> QED BY <1>2, <1>3, <1>4 DEF Calls, r

LEMMA TailFacts ==
  ASSUME NEW s \in Seq(Frame), s # << >>
  PROVE  /\ Head(s) = s[1] /\ Tail(s) \in Seq(Frame) /\ Len(Tail(s)) = Len(s) - 1 /\ Len(s) \in Nat \ {0}
         /\ \A i \in 1 .. Len(Tail(s)) : i + 1 \in 1 .. Len(s) /\ Tail(s)[i] = s[i + 1]
         /\ Tail(s) = << >> => Len(s) = 1
         /\ Tail(s) # << >> => Tail(s)[Len(Tail(s))] = s[Len(s)]
<1>1. Head(s) = s[1] /\ Tail(s) \in Seq(Frame) /\ Len(Tail(s)) = Len(s) - 1 /\ Len(s) \in Nat \ {0}
  OBVIOUS
<1>2. \A i \in 1 .. Len(Tail(s)) : i + 1 \in 1 .. Len(s) /\ Tail(s)[i] = s[i + 1]
  OBVIOUS
<1>3. Tail(s) = << >> => Len(Tail(s)) = 0
  <2>1. Len(<< >>) = 0
    OBVIOUS
  <2> QED BY <2>1, Zenon
<1> DEFINE n == Len(s)
           t == Tail(s)
           m == Len(t)
<1>4. m = n - 1 /\ n \in Nat \ {0} /\ (t = << >> => m = 0) /\ (t # << >> => m # 0)
  BY <1>1, <1>3
<1>5. \A i \in 1 .. m : t[i] = s[i + 1]
  BY <1>2
<1> HIDE DEF n, m, t
<1>6. t = << >> => n = 1
  BY <1>4
<1>7. t # << >> => m \in 1 .. m /\ m + 1 = n
  BY <1>4
<1>8. t # << >> => t[m] = s[n]
  BY <1>5, <1>7
<1> QED BY <1>1, <1>2, <1>6, <1>8 DEF n, m, t

LEMMA CallsPop ==
  ASSUME NEW s, Calls(s), s # << >>
  PROVE  /\ Calls(Tail(s)) /\ Head(s) = s[1] /\ s[1] \in Frame /\ s[1].age \in 0 .. MaxCallback
         /\ s[1].call = "close" => Tail(s) # << >>
<1>1. s \in Seq(Frame) /\ s # << >>
  BY DEF Calls
<1>2. /\ Head(s) = s[1] /\ Tail(s) \in Seq(Frame) /\ Len(s) \in Nat \ {0}
      /\ \A i \in 1 .. Len(Tail(s)) : i + 1 \in 1 .. Len(s) /\ Tail(s)[i] = s[i + 1]
      /\ Tail(s) = << >> => Len(s) = 1
      /\ Tail(s) # << >> => Tail(s)[Len(Tail(s))] = s[Len(s)]
  BY <1>1, TailFacts
<1>3. s[Len(s)].call # "close" /\ \A i \in 1 .. Len(s) : s[i].age \in 0 .. MaxCallback
  BY DEF Calls
<1>4. \A i \in 1 .. Len(Tail(s)) : Tail(s)[i].age \in 0 .. MaxCallback
  BY <1>2, <1>3
<1>5. s[1] \in Frame /\ s[1].age \in 0 .. MaxCallback
  BY <1>1, <1>2, <1>3
<1>6. Calls(Tail(s))
  BY <1>2, <1>3, <1>4 DEF Calls
<1>7. s[1].call = "close" => Tail(s) # << >>
  BY <1>2, <1>3
<1> QED BY <1>2, <1>5, <1>6, <1>7

LEMMA CallsCallBack ==
  ASSUME NEW h \in {"connect", "close"}, NEW rest, Calls(rest), h = "close" => rest # << >>,
         state \in State, open \in Int, CallBack(h, rest)
  PROVE  Calls(stack') /\ open' \in Int
<1> DEFINE f == [call |-> h, seen |-> state, age |-> 0]
<1>1. f \in Frame /\ f.age \in 0 .. MaxCallback /\ f.call = h
  BY AsyncClientAssumption DEF Frame
<1>2. stack' = <<f>> \o rest \/ stack' = rest
  BY DEF CallBack
<1>3. open' \in Int
  BY DEF CallBack
<1> HIDE DEF f
<1>4. Calls(<<f>> \o rest)
  BY <1>1, CallsPush
<1> QED BY <1>2, <1>3, <1>4
-----------------------------------------------------------------------------
LEMMA CallsOlder ==
  ASSUME NEW s, Calls(s), \A i \in 1 .. Len(s) : s[i].age < MaxCallback
  PROVE  LET r == [i \in 1 .. Len(s) |-> [s[i] EXCEPT !.age = @ + 1]]
         IN  /\ Calls(r) /\ Len(r) = Len(s)
             /\ \A i \in 1 .. Len(s) : r[i].call = s[i].call /\ r[i].age = s[i].age + 1
<1> DEFINE r == [i \in 1 .. Len(s) |-> [s[i] EXCEPT !.age = @ + 1]]
<1>1. s \in Seq(Frame) /\ Len(s) \in Nat
  BY DEF Calls
<1>2. ASSUME NEW i \in 1 .. Len(s)
      PROVE  /\ r[i] \in Frame /\ r[i].call = s[i].call /\ r[i].age = s[i].age + 1
             /\ r[i].age \in 0 .. MaxCallback
  <2>1. s[i] \in Frame /\ s[i].age \in 0 .. MaxCallback /\ s[i].age < MaxCallback
    BY <1>1, <1>2 DEF Calls
  <2>2. r[i] = [s[i] EXCEPT !.age = @ + 1]
    BY <1>2
  <2> QED BY <2>1, <2>2, AsyncClientAssumption DEF Frame
<1>3. r \in Seq(Frame) /\ Len(r) = Len(s)
  BY <1>1, <1>2
<1>4. r # << >> => r[Len(r)].call # "close"
  <2>1. SUFFICES ASSUME r # << >> PROVE r[Len(r)].call # "close"
    OBVIOUS
  <2>2. s # << >> /\ Len(s) \in 1 .. Len(s)
    BY <1>1, <1>3, <2>1
  <2> QED BY <1>2, <1>3, <2>2 DEF Calls
<1> HIDE DEF r
<1>5. Calls(r)
  BY <1>2, <1>3, <1>4 DEF Calls
<1> QED BY <1>2, <1>3, <1>5 DEF r

(* Time only brings a retry nearer, and not further than the horizon. *)
LEMMA NextOlder ==
  ASSUME nextReconnectTime \in {<< >>} \cup {<<d>> : d \in -Horizon .. maxBackoffMs}, TimePasses
  PROVE  /\ nextReconnectTime' \in {<< >>} \cup {<<d>> : d \in -Horizon .. maxBackoffMs}
         /\ nextReconnectTime = << >> <=> nextReconnectTime' = << >>
         /\ nextReconnectTime # << >> => /\ nextReconnectTime[1] \in -Horizon .. maxBackoffMs
                                         /\ nextReconnectTime'[1] = Later(nextReconnectTime[1])
<1>1. Horizon \in Nat
  BY AsyncClientAssumption DEF Horizon
<1>2. CASE nextReconnectTime = << >>
  BY <1>2 DEF TimePasses
<1>3. CASE nextReconnectTime # << >>
  <2>1. PICK d \in -Horizon .. maxBackoffMs : nextReconnectTime = <<d>>
    BY <1>3
  <2>2. nextReconnectTime' = [i \in 1 .. 1 |-> Later(<<d>>[i])]
    BY <2>1 DEF TimePasses
  <2>3. nextReconnectTime' = <<Later(d)>>
    BY <2>2
  <2>4. Later(d) \in -Horizon .. maxBackoffMs
    BY <1>1, AsyncClientAssumption DEF Later
  <2> QED BY <1>3, <2>1, <2>3, <2>4
<1> QED BY <1>2, <1>3

(* What the reconnect logic does to the schedule. *)
LEMMA RetryTypes ==
  ASSUME DelaysFit, TypeInv, Top("retry"), reconnectAttempts < maxReconnectAttempts, Retry
  PROVE  /\ reconnectAttempts' \in 0 .. maxReconnectAttempts
         /\ nextReconnectTime' \in {<< >>} \cup {<<d>> : d \in -Horizon .. maxBackoffMs}
         /\ quiet' \in 0 .. Horizon
<1>1. Head(stack).age \in 0 .. MaxCallback
  BY CallsPop DEF Top, TypeInv
<1>2. reconnectAttempts \in 0 .. maxReconnectAttempts /\ quiet \in 0 .. Horizon
  BY DEF TypeInv
<1>3. Backoff(reconnectAttempts) \in 0 .. maxBackoffMs
  BY <1>2, BackoffIsPolicy
<1>4. Backoff(reconnectAttempts) - Head(stack).age \in -Horizon .. maxBackoffMs
  BY <1>1, <1>3, AsyncClientAssumption DEF Horizon
<1>5. Head(stack).age \in 0 .. Horizon
  BY <1>1, AsyncClientAssumption DEF Horizon
<1> QED BY <1>2, <1>4, <1>5, AsyncClientAssumption DEF Retry, Attempt, TypeInv

LEMMA StepKeepsTypes ==
  ASSUME DelaysFit, TypeInv, [Next]_vars
  PROVE  TypeInv'
<1>1. Calls(stack) /\ state \in State /\ open \in Int /\ Horizon \in Nat
  BY AsyncClientAssumption DEF TypeInv, Horizon
<1>2. CASE Tick
  <2> DEFINE f == [call |-> "tick", seen |-> state, age |-> 0]
  <2>1. f \in Frame /\ f.age \in 0 .. MaxCallback /\ f.call # "close"
    BY <1>1, AsyncClientAssumption DEF Frame
  <2>2. stack' = <<f>> \o stack /\ UNCHANGED <<state, alive, clientVars, open, quiet>>
    BY <1>2 DEF Tick
  <2> HIDE DEF f
  <2>3. Calls(stack')
    BY <1>1, <2>1, <2>2, CallsPush
  <2> QED BY <2>2, <2>3 DEF TypeInv, clientVars
<1>3. CASE TickLost
  <2> DEFINE f == [Head(stack) EXCEPT !.call = "retry"]
             rest == <<f>> \o Tail(stack)
  <2>1. Calls(Tail(stack)) /\ Head(stack) \in Frame /\ Head(stack).age \in 0 .. MaxCallback
    BY <1>1, <1>3, CallsPop DEF TickLost, Top
  <2>2. f \in Frame /\ f.age \in 0 .. MaxCallback /\ f.call # "close"
    BY <2>1 DEF Frame
  <2>3. \/ CallBack("close", rest) /\ quiet' = Head(stack).age
        \/ stack' = rest /\ UNCHANGED <<open, quiet>>
    BY <1>3 DEF TickLost
  <2>4. wasConnected' = FALSE /\ UNCHANGED <<state, alive, reconnectAttempts, nextReconnectTime>>
    BY <1>3 DEF TickLost
  <2> HIDE DEF f
  <2>5. Calls(rest) /\ rest # << >>
    <3>1. Calls(rest)
      BY <2>1, <2>2, CallsPush
    <3>2. Tail(stack) \in Seq(Frame)
      BY <2>1 DEF Calls
    <3>3. Len(rest) = Len(Tail(stack)) + 1 /\ Len(Tail(stack)) \in Nat
      BY <2>2, <3>2
    <3>4. rest # << >>
      BY <3>3
    <3> QED BY <3>1, <3>4
  <2> HIDE DEF rest
  <2>6. Calls(stack') /\ open' \in Int
    BY <1>1, <2>3, <2>5, CallsCallBack
  <2>7. quiet' \in 0 .. Horizon
    BY <2>1, <2>3, AsyncClientAssumption DEF TypeInv, Horizon
  <2> QED BY <2>4, <2>6, <2>7 DEF TypeInv
<1>4. CASE TickRetry
  <2>1. Calls(stack') /\ UNCHANGED <<state, alive, wasConnected, open>>
    BY <1>1, <1>4, CallsPop DEF TickRetry, Top
  <2>2. CASE autoReconnect /\ reconnectAttempts < maxReconnectAttempts
    BY <1>4, <2>1, <2>2, RetryTypes DEF TickRetry, TypeInv
  <2>3. CASE ~(autoReconnect /\ reconnectAttempts < maxReconnectAttempts)
    BY <1>4, <2>1, <2>3 DEF TickRetry, TypeInv
  <2> QED BY <2>2, <2>3
<1>5. CASE TickReady
  <2>1. Calls(Tail(stack))
    BY <1>1, <1>5, CallsPop DEF TickReady, Top
  <2>2. CASE wasConnected
    BY <1>5, <2>1, <2>2 DEF TickReady, TypeInv, clientVars
  <2>3. CASE ~wasConnected
    <3>1. CallBack("connect", Tail(stack)) /\ UNCHANGED <<state, alive, quiet>>
          /\ wasConnected' = TRUE /\ reconnectAttempts' = 0 /\ nextReconnectTime' = << >>
      BY <1>5, <2>3 DEF TickReady
    <3>2. Calls(stack') /\ open' \in Int
      BY <1>1, <2>1, <3>1, CallsCallBack
    <3> QED BY <3>1, <3>2, AsyncClientAssumption DEF TypeInv
  <2> QED BY <2>2, <2>3
<1>6. CASE TickElse
  BY <1>1, <1>6, CallsPop DEF TickElse, Top, TypeInv, clientVars
<1>7. CASE CallbackEnds
  <2>1. stack # << >> /\ UNCHANGED <<state, alive, clientVars, open, quiet>>
    BY <1>7 DEF CallbackEnds, CallbackReturns, CallbackThrows
  <2>2. stack' = Tail(stack) \/ (Head(stack).call = "close" /\ stack' = Tail(Tail(stack)))
    BY <1>7 DEF CallbackEnds, CallbackReturns, CallbackThrows
  <2>3. Calls(stack')
    BY <1>1, <2>1, <2>2, CallsPop
  <2> QED BY <2>1, <2>3 DEF TypeInv, clientVars
<1>8. CASE Connect \/ Disconnect \/ Free \/ NativeMoves
  <2>1. ConnectMethod(state) \in State /\ DisconnectMethod(state) \in State /\ FreeObject(state) \in State
    <3>1. {"CONNECTING", "CLOSING", "CLOSED"} \subseteq State
      BY DEF State
    <3> QED BY <1>1, <3>1, TransitionInState DEF ConnectMethod, DisconnectMethod, FreeObject
  <2>2. Allowed[state] \subseteq State
    BY <1>1 DEF Allowed, State
  <2>3. state' \in State /\ alive' \in BOOLEAN /\ UNCHANGED <<clientVars, stack, open, quiet>>
    BY <1>8, <2>1, <2>2 DEF Connect, Disconnect, Free, NativeMoves, TypeInv
  <2> QED BY <2>3 DEF TypeInv, clientVars, Calls
<1>9. CASE TimePasses
  <2>1. Calls(stack')
    BY <1>1, <1>9, CallsOlder DEF TimePasses
  <2>2. nextReconnectTime' \in {<< >>} \cup {<<d>> : d \in -Horizon .. maxBackoffMs}
    BY <1>9, NextOlder DEF TypeInv
  <2>3. quiet' \in 0 .. Horizon
    BY <1>1, <1>9 DEF TimePasses, TypeInv
  <2>4. UNCHANGED <<state, alive, reconnectAttempts, wasConnected, open>>
    BY <1>9 DEF TimePasses
  <2> QED BY <2>1, <2>2, <2>3, <2>4 DEF TypeInv
<1>10. CASE UNCHANGED vars
  BY <1>10 DEF vars, clientVars, TypeInv, Calls
<1> QED BY <1>2, <1>3, <1>4, <1>5, <1>6, <1>7, <1>8, <1>9, <1>10 DEF Next, TickGoesOn

LEMMA TypeInvHolds ==
  ASSUME DelaysFit
  PROVE  Spec => []TypeInv
<1>1. Init => TypeInv
  <2>1. ConnectionInit \in State /\ Horizon \in Nat
    BY AsyncClientAssumption DEF ConnectionInit, State, Horizon
  <2>2. Calls(<< >>)
    <3>1. << >> \in Seq(Frame) /\ Len(<< >>) = 0
      OBVIOUS
    <3> QED BY <3>1 DEF Calls
  <2>3. SUFFICES ASSUME Init PROVE TypeInv
    OBVIOUS
  <2>4. Calls(stack)
    BY <2>2, <2>3 DEF Init
  <2>5. state \in State
    BY <2>1, <2>3 DEF Init, CreateObject
  <2>6. 0 \in 0 .. maxReconnectAttempts /\ Horizon \in 0 .. Horizon /\ 0 \in Int
    BY <2>1, AsyncClientAssumption
  <2>7. reconnectAttempts \in 0 .. maxReconnectAttempts /\ quiet \in 0 .. Horizon /\ open \in Int
    BY <2>3, <2>6, Zenon DEF Init
  <2>8. /\ nextReconnectTime \in {<< >>} \cup {<<d>> : d \in -Horizon .. maxBackoffMs}
        /\ alive \in BOOLEAN /\ wasConnected \in BOOLEAN
    BY <2>3, Zenon DEF Init
  <2> QED BY <2>4, <2>5, <2>7, <2>8 DEF TypeInv
<1>2. TypeInv /\ [Next]_vars => TypeInv'
  BY StepKeepsTypes
<1> QED BY <1>1, <1>2, PTL DEF Spec

(* AsyncClient.php, for every policy whose delays fit an int: attempts     *)
(* stay within maxReconnectAttempts and no retry is scheduled further off  *)
(* than maxBackoffMs (AsyncClient.php:56-60, 79-95).                       *)
THEOREM AsyncTypeCorrect ==
  ASSUME DelaysFit
  PROVE  Spec => []TypeOK
<1>1. TypeInv => TypeOK
  <2>1. SUFFICES ASSUME TypeInv PROVE TypeOK
    OBVIOUS
  <2>2. ASSUME NEW i \in 1 .. Len(stack)
        PROVE  /\ stack[i].call \in {"tick", "retry", "connect", "close"}
               /\ stack[i].seen \in State /\ stack[i].age \in 0 .. MaxCallback
    <3>1. stack[i] \in Frame /\ stack[i].age \in 0 .. MaxCallback
      BY <2>1, <2>2 DEF TypeInv, Calls
    <3> QED BY <3>1 DEF Frame
  <2> QED BY <2>1, <2>2 DEF TypeInv, TypeOK
<1> QED BY <1>1, TypeInvHolds, PTL
-----------------------------------------------------------------------------
(* Calls of onConnect only: nothing behind them is left to do. *)
Passive(s) == \A i \in 1 .. Len(s) : s[i].call = "connect"

(* The only call with work left is the innermost one, or the one that      *)
(* called onClose, and it began no earlier than quiet is measured from.    *)
Pace(s, q) ==
  \/ Passive(s)
  \/ s # << >> /\ Head(s).call \in {"tick", "retry"} /\ Head(s).age =< q /\ Passive(Tail(s))
  \/ /\ s # << >> /\ Head(s).call = "close"
     /\ Tail(s) # << >> /\ Head(Tail(s)).call = "retry" /\ Head(Tail(s)).age =< q
     /\ Passive(Tail(Tail(s)))

(* A retry is scheduled for a time when the backoff has been waited for. *)
Due(next, q, n) ==
  next # << >> => q = Horizon \/ q + next[1] >= Backoff(n)

PaceInv == TypeInv /\ ScheduleDropped /\ Pace(stack, quiet) /\ Due(nextReconnectTime, quiet, reconnectAttempts)

LEMMA PassivePush ==
  ASSUME NEW s \in Seq(Frame), Passive(s), NEW f \in Frame, f.call = "connect"
  PROVE  Passive(<<f>> \o s)
<1> DEFINE r == <<f>> \o s
<1>1. Len(r) = Len(s) + 1 /\ Len(s) \in Nat /\ r[1] = f /\ \A i \in 2 .. Len(r) : r[i] = s[i - 1]
  OBVIOUS
<1> HIDE DEF r
<1>2. ASSUME NEW i \in 1 .. Len(r) PROVE r[i].call = "connect"
  <2>1. CASE i = 1
    BY <1>1, <2>1
  <2>2. CASE i # 1
    <3>1. i - 1 \in 1 .. Len(s) /\ r[i] = s[i - 1]
      BY <1>1, <2>2
    <3> QED BY <3>1 DEF Passive
  <2> QED BY <2>1, <2>2
<1>3. Passive(r)
  BY <1>2 DEF Passive
<1> QED BY <1>3 DEF r

LEMMA PassivePop ==
  ASSUME NEW s \in Seq(Frame), s # << >>, Passive(s)
  PROVE  Passive(Tail(s)) /\ Head(s).call = "connect"
<1>1. \A i \in 1 .. Len(Tail(s)) : i + 1 \in 1 .. Len(s) /\ Tail(s)[i] = s[i + 1]
  BY TailFacts
<1>2. Head(s) = s[1] /\ 1 \in 1 .. Len(s)
  BY TailFacts
<1> QED BY <1>1, <1>2 DEF Passive

LEMMA PushFacts ==
  ASSUME NEW s \in Seq(Frame), NEW f \in Frame
  PROVE  LET r == <<f>> \o s IN r \in Seq(Frame) /\ r # << >> /\ Head(r) = f /\ Tail(r) = s
<1> DEFINE r == <<f>> \o s
<1>1. r \in Seq(Frame) /\ Len(r) = Len(s) + 1 /\ Len(s) \in Nat /\ r[1] = f
  OBVIOUS
<1>2. r # << >> /\ Head(r) = r[1]
  BY <1>1
<1>3. Tail(r) = s
  BY Push
<1> QED BY <1>1, <1>2, <1>3

(* What is below the innermost call has nothing left to do, unless that    *)
(* call is an onClose.                                                     *)
LEMMA PassiveBelow ==
  ASSUME NEW s \in Seq(Frame), s # << >>, NEW q, Pace(s, q), Head(s).call # "close"
  PROVE  Passive(Tail(s))
BY PassivePop DEF Pace

LEMMA TickKeepsPace ==
  ASSUME "close" \notin Ticking, PaceInv, Tick
  PROVE  Pace(stack', quiet')
<1> DEFINE f == [call |-> "tick", seen |-> state, age |-> 0]
<1>1. stack \in Seq(Frame) /\ state \in State /\ quiet \in Nat /\ Pace(stack, quiet)
  BY AsyncClientAssumption DEF PaceInv, TypeInv, Calls, Horizon
<1>2. f \in Frame /\ f.call = "tick" /\ f.age =< quiet
  BY <1>1 DEF Frame
<1>3. stack' = <<f>> \o stack /\ quiet' = quiet
  BY DEF Tick
<1>4. Passive(stack)
  <2>1. CASE stack = << >>
    BY <2>1 DEF Passive
  <2>2. CASE stack # << >>
    <3>1. Head(stack).call = "connect"
      BY <2>2, AsyncClientAssumption DEF Tick, AppRuns
    <3> QED BY <1>1, <3>1 DEF Pace
  <2> QED BY <2>1, <2>2
<1> HIDE DEF f
<1>5. stack' # << >> /\ Head(stack') = f /\ Tail(stack') = stack
  BY <1>1, <1>2, <1>3, PushFacts
<1> QED BY <1>2, <1>3, <1>4, <1>5 DEF Pace

LEMMA TickLostKeepsPace ==
  ASSUME PaceInv, TickLost
  PROVE  Pace(stack', quiet') /\ Due(nextReconnectTime', quiet', reconnectAttempts')
<1> DEFINE f == [Head(stack) EXCEPT !.call = "retry"]
           rest == <<f>> \o Tail(stack)
           g == [call |-> "close", seen |-> state, age |-> 0]
<1>1. stack \in Seq(Frame) /\ stack # << >> /\ Head(stack).call = "tick" /\ Pace(stack, quiet)
  BY DEF PaceInv, TypeInv, Calls, TickLost, Top
<1>2. Tail(stack) \in Seq(Frame) /\ Head(stack) \in Frame /\ Passive(Tail(stack))
  BY <1>1, Pop, PassiveBelow
<1>3. Head(stack).age =< quiet
  BY <1>1, PassivePop DEF Pace
<1>4. f \in Frame /\ f.call = "retry" /\ f.age = Head(stack).age
  BY <1>2 DEF Frame
<1>5. g \in Frame /\ g.call = "close"
  BY DEF Frame, PaceInv, TypeInv
<1>6. UNCHANGED <<reconnectAttempts, nextReconnectTime>>
  BY DEF TickLost
<1>7. CASE wasConnected /\ "close" \in Handlers
  <2>1. stack' = <<g>> \o rest /\ quiet' = Head(stack).age
    BY <1>7 DEF TickLost, CallBack
  <2> HIDE DEF f, g
  <2>2. rest \in Seq(Frame) /\ rest # << >> /\ Head(rest) = f /\ Tail(rest) = Tail(stack)
    BY <1>2, <1>4, PushFacts
  <2> HIDE DEF rest
  <2>3. stack' # << >> /\ Head(stack') = g /\ Tail(stack') = rest
    BY <1>5, <2>1, <2>2, PushFacts
  <2>4. Head(Tail(stack')).age =< quiet'
    <3>1. Head(stack).age \in Int
      BY <1>2 DEF Frame
    <3> QED BY <1>4, <2>1, <2>2, <2>3, <3>1
  <2>5. Pace(stack', quiet')
    BY <1>2, <1>4, <1>5, <2>2, <2>3, <2>4 DEF Pace
  <2>6. nextReconnectTime' = << >>
    BY <1>6, <1>7 DEF PaceInv, ScheduleDropped
  <2> QED BY <2>5, <2>6 DEF Due
<1>8. CASE ~(wasConnected /\ "close" \in Handlers)
  <2>1. stack' = rest /\ (quiet' = Head(stack).age \/ quiet' = quiet)
    BY <1>8 DEF TickLost, CallBack
  <2> HIDE DEF f
  <2>2. stack' # << >> /\ Head(stack') = f /\ Tail(stack') = Tail(stack)
    BY <1>2, <1>4, <2>1, PushFacts
  <2>3. Head(stack').age =< quiet'
    <3>1. Head(stack).age \in Int
      BY <1>2 DEF Frame
    <3> QED BY <1>3, <1>4, <2>1, <2>2, <3>1
  <2>4. Pace(stack', quiet')
    BY <1>2, <1>4, <2>2, <2>3 DEF Pace
  <2>5. Due(nextReconnectTime', quiet', reconnectAttempts')
    <3>1. CASE wasConnected
      BY <1>6, <3>1 DEF PaceInv, ScheduleDropped, Due
    <3>2. CASE ~wasConnected
      BY <1>6, <3>2 DEF PaceInv, TickLost, Due
    <3> QED BY <3>1, <3>2
  <2> QED BY <2>4, <2>5
<1> QED BY <1>7, <1>8

(* A retry is made no sooner than the policy asks for, and it is scheduled *)
(* for a time when that has been waited for.                               *)
LEMMA RetryKeepsPace ==
  ASSUME DelaysFit, PaceInv, TickRetry
  PROVE  /\ Pace(stack', quiet') /\ Due(nextReconnectTime', quiet', reconnectAttempts')
         /\ reconnectAttempts' > reconnectAttempts =>
              quiet - Head(stack).age >= PolicyDelay(reconnectAttempts)
<1> DEFINE n == reconnectAttempts
           age == Head(stack).age
<1>1. stack \in Seq(Frame) /\ stack # << >> /\ Head(stack).call = "retry" /\ Pace(stack, quiet)
  BY DEF PaceInv, TypeInv, Calls, TickRetry, Top
<1>2. Passive(Tail(stack)) /\ age =< quiet
  BY <1>1, PassiveBelow, PassivePop DEF Pace
<1>3. Pace(stack', quiet')
  BY <1>2 DEF TickRetry, Pace
<1>4. /\ n \in 0 .. maxReconnectAttempts /\ quiet \in 0 .. Horizon
      /\ nextReconnectTime \in {<< >>} \cup {<<d>> : d \in -Horizon .. maxBackoffMs}
  BY DEF PaceInv, TypeInv
<1>5. age \in 0 .. MaxCallback
  BY <1>1, CallsPop DEF PaceInv, TypeInv
<1>6. Backoff(n) = PolicyDelay(n) /\ Backoff(n) \in 0 .. maxBackoffMs
  BY <1>4, BackoffIsPolicy
<1>7. Horizon \in Nat /\ Horizon = MaxCallback + maxBackoffMs + 1 /\ MaxCallback \in Nat /\ maxBackoffMs \in Nat
  BY AsyncClientAssumption DEF Horizon
<1>8. Due(nextReconnectTime, quiet, n)
  BY DEF PaceInv
<1>9. CASE UNCHANGED <<reconnectAttempts, nextReconnectTime, quiet>>
  BY <1>3, <1>4, <1>8, <1>9
<1>10. CASE /\ nextReconnectTime' = <<Backoff(n) - age>>
            /\ UNCHANGED <<reconnectAttempts, quiet>>
  <2>1. nextReconnectTime'[1] = Backoff(n) - age
    BY <1>10
  <2>2. quiet + (Backoff(n) - age) >= Backoff(n)
    BY <1>2, <1>4, <1>5, <1>6
  <2>3. Due(nextReconnectTime', quiet', reconnectAttempts')
    BY <1>10, <2>1, <2>2 DEF Due
  <2> QED BY <1>3, <1>4, <1>10, <2>3
<1>11. CASE nextReconnectTime # << >> /\ nextReconnectTime[1] + age =< 0 /\ Attempt
  <2>1. nextReconnectTime[1] \in -Horizon .. maxBackoffMs
    BY <1>4, <1>11
  <2>2. quiet = Horizon \/ quiet + nextReconnectTime[1] >= Backoff(n)
    BY <1>8, <1>11 DEF Due
  <2>3. quiet - age >= Backoff(n)
    BY <1>4, <1>5, <1>6, <1>7, <1>11, <2>1, <2>2
  <2>4. nextReconnectTime' = << >>
    BY <1>11 DEF Attempt
  <2> QED BY <1>3, <1>6, <2>3, <2>4 DEF Due
<1>12. \/ UNCHANGED <<reconnectAttempts, nextReconnectTime, quiet>>
       \/ nextReconnectTime' = <<Backoff(n) - age>> /\ UNCHANGED <<reconnectAttempts, quiet>>
       \/ nextReconnectTime # << >> /\ nextReconnectTime[1] + age =< 0 /\ Attempt
  BY DEF TickRetry, Retry
<1> QED BY <1>9, <1>10, <1>11, <1>12

LEMMA PopKeepsPace ==
  ASSUME PaceInv, TickReady \/ TickElse \/ CallbackEnds
  PROVE  Pace(stack', quiet')
<1> DEFINE g == [call |-> "connect", seen |-> state, age |-> 0]
<1>1. stack \in Seq(Frame) /\ Pace(stack, quiet) /\ stack # << >> /\ state \in State
  BY DEF PaceInv, TypeInv, Calls, TickReady, TickElse, Top, CallbackEnds, CallbackReturns, CallbackThrows
<1>2. quiet' = quiet
  BY DEF TickReady, TickElse, CallbackEnds, CallbackReturns, CallbackThrows
<1>3. Tail(stack) \in Seq(Frame)
  BY <1>1, Pop
<1>4. g \in Frame /\ g.call = "connect"
  BY <1>1 DEF Frame
<1>5. CASE Head(stack).call # "close"
  <2>1. Passive(Tail(stack))
    BY <1>1, <1>5, PassiveBelow
  <2>2. stack' = Tail(stack) \/ stack' = <<g>> \o Tail(stack)
    BY <1>5 DEF TickReady, TickElse, CallBack, CallbackEnds, CallbackReturns, CallbackThrows
  <2> HIDE DEF g
  <2>3. Passive(stack')
    BY <1>3, <1>4, <2>1, <2>2, PassivePush
  <2> QED BY <2>3 DEF Pace
<1>6. CASE Head(stack).call = "close"
  <2>1. stack' = Tail(stack) \/ stack' = Tail(Tail(stack))
    BY <1>6 DEF TickReady, TickElse, Top, CallbackEnds, CallbackReturns, CallbackThrows
  <2>2. ~Passive(stack)
    BY <1>1, <1>6, PassivePop
  <2>3. /\ Tail(stack) # << >> /\ Head(Tail(stack)).call = "retry" /\ Head(Tail(stack)).age =< quiet
        /\ Passive(Tail(Tail(stack)))
    BY <1>1, <1>6, <2>2 DEF Pace
  <2> QED BY <1>2, <2>1, <2>3 DEF Pace
<1> QED BY <1>5, <1>6

LEMMA TimeKeepsPace ==
  ASSUME DelaysFit, PaceInv, TimePasses
  PROVE  Pace(stack', quiet') /\ Due(nextReconnectTime', quiet', reconnectAttempts')
<1>1. /\ Calls(stack) /\ Pace(stack, quiet) /\ quiet \in 0 .. Horizon
      /\ nextReconnectTime \in {<< >>} \cup {<<d>> : d \in -Horizon .. maxBackoffMs}
      /\ reconnectAttempts' = reconnectAttempts
  BY DEF PaceInv, TypeInv, TimePasses
<1>2. /\ Calls(stack') /\ Len(stack') = Len(stack)
      /\ \A i \in 1 .. Len(stack) : stack'[i].call = stack[i].call /\ stack'[i].age = stack[i].age + 1
  BY <1>1, CallsOlder DEF TimePasses
<1>3. stack \in Seq(Frame) /\ stack' \in Seq(Frame)
  BY <1>1, <1>2 DEF Calls
<1>4. Horizon \in Nat /\ MaxCallback < Horizon
  BY AsyncClientAssumption DEF Horizon
<1>5. quiet' = IF quiet < Horizon THEN quiet + 1 ELSE quiet
  BY DEF TimePasses
<1>6. ASSUME NEW i \in 1 .. Len(stack), stack[i].age =< quiet PROVE stack'[i].age =< quiet'
  <2>1. stack[i].age \in 0 .. MaxCallback /\ stack'[i].age \in 0 .. MaxCallback
    BY <1>1, <1>2, <1>6 DEF Calls
  <2>2. stack'[i].age = stack[i].age + 1
    BY <1>2, <1>6
  <2> DEFINE a == stack[i].age
             b == stack'[i].age
  <2>3. a \in Int /\ b \in Int /\ b = a + 1 /\ b =< MaxCallback /\ a =< quiet /\ MaxCallback \in Int
    BY <1>6, <2>1, <2>2, AsyncClientAssumption
  <2> HIDE DEF a, b
  <2>4. b =< quiet'
    BY <1>1, <1>4, <1>5, <2>3
  <2> QED BY <2>4 DEF b
<1>7. Passive(stack) => Passive(stack')
  BY <1>2 DEF Passive
<1>8. Pace(stack', quiet')
  <2>1. CASE Passive(stack)
    BY <1>7, <2>1 DEF Pace
  <2>2. CASE ~Passive(stack)
    <3>1. stack # << >> /\ stack' # << >>
      BY <1>1, <1>2, <1>3, <2>2 DEF Pace
    <3>2. /\ Head(stack) = stack[1] /\ Head(stack') = stack'[1] /\ 1 \in 1 .. Len(stack)
          /\ Tail(stack) \in Seq(Frame) /\ Tail(stack') \in Seq(Frame)
          /\ Len(Tail(stack)) = Len(stack) - 1 /\ Len(Tail(stack')) = Len(stack) - 1
      BY <1>2, <1>3, <3>1, TailFacts
    <3>3. \A i \in 1 .. Len(Tail(stack)) : /\ i + 1 \in 1 .. Len(stack)
                                           /\ Tail(stack)[i] = stack[i + 1] /\ Tail(stack')[i] = stack'[i + 1]
      BY <1>2, <1>3, <3>1, <3>2, TailFacts
    <3>4. \A i \in 1 .. Len(Tail(stack)) : Tail(stack')[i].call = Tail(stack)[i].call
      BY <1>2, <3>3
    <3>5. CASE Head(stack).call \in {"tick", "retry"} /\ Head(stack).age =< quiet /\ Passive(Tail(stack))
      <4>1. Passive(Tail(stack'))
        BY <3>2, <3>4, <3>5 DEF Passive
      <4>2. Head(stack').call = Head(stack).call /\ Head(stack').age =< quiet'
        BY <1>2, <1>6, <3>2, <3>5
      <4> QED BY <3>1, <3>5, <4>1, <4>2 DEF Pace
    <3>6. CASE /\ Head(stack).call = "close" /\ Tail(stack) # << >>
               /\ Head(Tail(stack)).call = "retry" /\ Head(Tail(stack)).age =< quiet
               /\ Passive(Tail(Tail(stack)))
      <4>1. Len(Tail(stack)) \in Nat \ {0} /\ Tail(stack') # << >>
        <5>1. Len(Tail(stack)) \in Nat \ {0}
          BY <3>2, <3>6
        <5> QED BY <3>2, <5>1
      <4>2. /\ Head(Tail(stack)) = Tail(stack)[1] /\ Head(Tail(stack')) = Tail(stack')[1]
            /\ 1 \in 1 .. Len(Tail(stack))
            /\ Len(Tail(Tail(stack))) = Len(Tail(stack)) - 1
            /\ Len(Tail(Tail(stack'))) = Len(Tail(stack)) - 1
        BY <3>2, <3>6, <4>1, TailFacts
      <4>3. \A i \in 1 .. Len(Tail(Tail(stack))) :
              /\ i + 1 \in 1 .. Len(Tail(stack)) /\ Tail(Tail(stack))[i] = Tail(stack)[i + 1]
              /\ Tail(Tail(stack'))[i] = Tail(stack')[i + 1]
        BY <3>2, <3>6, <4>1, <4>2, TailFacts
      <4>4. Passive(Tail(Tail(stack')))
        <5>1. SUFFICES ASSUME NEW i \in 1 .. Len(Tail(Tail(stack'))) PROVE Tail(Tail(stack'))[i].call = "connect"
          BY DEF Passive
        <5>2. i \in 1 .. Len(Tail(Tail(stack)))
          BY <4>2
        <5>3. Tail(Tail(stack'))[i].call = Tail(Tail(stack))[i].call
          BY <3>4, <4>3, <5>2
        <5> QED BY <3>6, <5>2, <5>3 DEF Passive
      <4>5. Head(Tail(stack')).call = "retry" /\ Head(stack').call = "close"
        BY <1>2, <3>2, <3>4, <3>6, <4>2
      <4>6. Head(Tail(stack')).age =< quiet'
        <5>1. Tail(stack)[1] = stack[1 + 1] /\ Tail(stack')[1] = stack'[1 + 1] /\ 1 + 1 \in 1 .. Len(stack)
          BY <3>3, <4>2
        <5> QED BY <1>6, <3>6, <4>2, <5>1
      <4> QED BY <3>1, <4>1, <4>4, <4>5, <4>6 DEF Pace
    <3> QED BY <1>1, <2>2, <3>5, <3>6 DEF Pace
  <2> QED BY <2>1, <2>2
<1>9. Due(nextReconnectTime', quiet', reconnectAttempts')
  <2>1. SUFFICES ASSUME nextReconnectTime' # << >>
                 PROVE  quiet' = Horizon \/ quiet' + nextReconnectTime'[1] >= Backoff(reconnectAttempts)
    BY <1>1 DEF Due
  <2>2. /\ nextReconnectTime[1] \in -Horizon .. maxBackoffMs
        /\ nextReconnectTime'[1] = Later(nextReconnectTime[1]) /\ nextReconnectTime # << >>
    BY <1>1, <2>1, NextOlder
  <2>3. quiet = Horizon \/ quiet + nextReconnectTime[1] >= Backoff(reconnectAttempts)
    BY <2>2 DEF PaceInv, Due
  <2>4. nextReconnectTime'[1] >= nextReconnectTime[1] - 1 /\ nextReconnectTime'[1] \in Int
    BY <1>4, <2>2 DEF Later
  <2>5. CASE quiet = Horizon
    BY <1>4, <1>5, <2>5
  <2>6. CASE quiet # Horizon
    <3>1. quiet' = quiet + 1
      BY <1>1, <1>4, <1>5, <2>6
    <3>2. quiet' + nextReconnectTime'[1] >= quiet + nextReconnectTime[1]
      BY <1>1, <1>4, <2>2, <2>4, <3>1
    <3>3. Backoff(reconnectAttempts) \in Int
      BY BackoffIsPolicy DEF PaceInv, TypeInv
    <3> QED BY <1>1, <1>4, <2>2, <2>3, <2>4, <2>6, <3>1, <3>2, <3>3
  <2> QED BY <2>5, <2>6
<1> QED BY <1>8, <1>9

LEMMA StepKeepsPace ==
  ASSUME DelaysFit, "close" \notin Ticking, PaceInv, [Next]_vars
  PROVE  Pace(stack', quiet') /\ Due(nextReconnectTime', quiet', reconnectAttempts')
<1>1. Pace(stack, quiet) /\ Due(nextReconnectTime, quiet, reconnectAttempts)
  BY DEF PaceInv
<1>2. CASE Tick
  BY <1>1, <1>2, TickKeepsPace DEF Tick, clientVars
<1>3. CASE TickLost
  BY <1>3, TickLostKeepsPace
<1>4. CASE TickRetry
  BY <1>4, RetryKeepsPace
<1>5. CASE TickReady
  <2>1. Pace(stack', quiet')
    BY <1>5, PopKeepsPace
  <2>2. nextReconnectTime' = << >> \/ UNCHANGED <<nextReconnectTime, quiet, reconnectAttempts>>
    BY <1>5 DEF TickReady, clientVars
  <2> QED BY <1>1, <2>1, <2>2 DEF Due
<1>6. CASE TickElse \/ CallbackEnds
  <2>1. Pace(stack', quiet')
    BY <1>6, PopKeepsPace
  <2>2. UNCHANGED <<nextReconnectTime, quiet, reconnectAttempts>>
    BY <1>6 DEF TickElse, CallbackEnds, CallbackReturns, CallbackThrows, clientVars
  <2> QED BY <1>1, <2>1, <2>2
<1>7. CASE Connect \/ Disconnect \/ Free \/ NativeMoves \/ UNCHANGED vars
  <2>1. UNCHANGED <<stack, nextReconnectTime, quiet, reconnectAttempts>>
    BY <1>7 DEF Connect, Disconnect, Free, NativeMoves, vars, clientVars
  <2> QED BY <1>1, <2>1
<1>8. CASE TimePasses
  BY <1>8, TimeKeepsPace
<1> QED BY <1>2, <1>3, <1>4, <1>5, <1>6, <1>7, <1>8 DEF Next, TickGoesOn

(* Only the reconnect logic counts an attempt. *)
LEMMA StepBacksOff ==
  ASSUME DelaysFit, PaceInv, [Next]_vars, reconnectAttempts' > reconnectAttempts
  PROVE  quiet - Head(stack).age >= PolicyDelay(reconnectAttempts)
<1>1. reconnectAttempts \in Nat
  BY AsyncClientAssumption DEF PaceInv, TypeInv
<1>2. CASE TickRetry
  BY <1>2, RetryKeepsPace
<1>3. CASE [Next]_vars /\ ~TickRetry
  <2>1. reconnectAttempts' = reconnectAttempts \/ reconnectAttempts' = 0
    BY <1>3 DEF Next, TickGoesOn, CallbackEnds, Tick, TickLost, TickReady, TickElse, CallbackReturns,
                CallbackThrows, Connect, Disconnect, Free, NativeMoves, TimePasses, vars, clientVars
  <2> QED BY <1>1, <2>1
<1> QED BY <1>2, <1>3

(* docs/production_readiness.md:29, for every policy whose delays fit an   *)
(* int, every length of the callbacks and every interleaving of theirs, as *)
(* long as onClose does not call tick() itself: an attempt comes no sooner *)
(* after the one before it, or the loss noticed after it, than the policy  *)
(* asks for (AsyncClient.php:56-60, 79-95).                                *)
THEOREM AsyncBacksOff ==
  ASSUME DelaysFit, "close" \notin Ticking
  PROVE  Spec => BackoffHolds
<1> DEFINE Inv == TypeInv /\ ScheduleInv
           Paced == Pace(stack, quiet) /\ Due(nextReconnectTime, quiet, reconnectAttempts)
<1>1. Init => Paced
  BY DEF Init, Pace, Passive, Due
<1>2. Inv /\ Paced => PaceInv
  BY DEF PaceInv, ScheduleInv
<1>3. Inv /\ Paced /\ [Next]_vars => Paced'
  BY <1>2, StepKeepsPace
<1>4. Inv /\ Paced /\ [Next]_vars =>
        [reconnectAttempts' > reconnectAttempts =>
           quiet - Head(stack).age >= PolicyDelay(reconnectAttempts)]_vars
  BY <1>2, StepBacksOff
<1>5. Spec => []TypeInv
  BY TypeInvHolds
<1>6. Spec => []ScheduleInv
  BY ScheduleInvHolds
<1> HIDE DEF Paced
<1> QED BY <1>1, <1>3, <1>4, <1>5, <1>6, PTL DEF Spec, BackoffHolds
=============================================================================
