-------------------------- MODULE PwLibraryProofs --------------------------
(***************************************************************************)
(* The two units of the library that an application calls by itself.  Flow *)
(* control for every word size and every set of limits, provided that a    *)
(* limit and a request together fit the word; the heartbeat for all        *)
(* intervals, timeouts, timer periods and round trips, as long as no sum   *)
(* of a time and a configured span wraps around.                           *)
(***************************************************************************)
EXTENDS PwFlow, PwHeartbeat, TLAPS

(* No sum that pw_flow_can_send forms wraps around. *)
NoFlowWrap == \A m \in Limits : m + MaxRequest < UINT32

(* Inductive: the limit only holds because the counter is the truth. *)
FlowInv == FlowTypeOK /\ Accounted /\ LimitHolds

(* Within the word the remainder is the sum itself. *)
LEMMA NoFlowRemainder == \A x \in 0 .. (UINT32 - 1) : x % UINT32 = x
BY Uint32Assumption, SMTT(60)

LEMMA RemainderInWord == \A x \in Nat : x % UINT32 \in 0 .. (UINT32 - 1)
BY Uint32Assumption, SMTT(60)

(* The limits and the requests are numbers. *)
LEMMA ConstantTypes == UINT32 \in Nat /\ MaxRequest \in Nat /\ \A m \in Limits : m \in Nat
<1>1. UINT32 \in Nat /\ MaxRequest \in Nat
  BY Uint32Assumption, MaxRequestAssumption
<1>2. ASSUME NEW m \in Limits PROVE m \in Nat
  <2>1. m \in 0 .. (UINT32 - 1)
    BY LimitsAssumption
  <2> QED BY <1>1, <2>1
<1> QED BY <1>1, <1>2

LEMMA InitFlowInv == FlowInit => FlowInv
<1> SUFFICES ASSUME FlowInit PROVE FlowInv
  OBVIOUS
<1>1. \A d \in Direction : current[d] = 0 /\ held[d] = 0 /\ max[d] \in Nat
  <2>1. \A d \in Direction : max[d] \in Limits
    BY DEF FlowInit
  <2> QED BY <2>1, ConstantTypes DEF FlowInit
<1>2. FlowTypeOK
  BY Uint32Assumption DEF FlowInit, FlowTypeOK
<1> QED BY <1>1, <1>2 DEF FlowInv, Accounted, LimitHolds

(* A permitted request under a limit is counted exactly. *)
LEMMA PermittedSum ==
  ASSUME NoFlowWrap, FlowInv, NEW d \in Direction, NEW n \in 1 .. MaxRequest, Permits(d, n)
  PROVE  /\ Added(d, n) \in 0 .. (UINT32 - 1)
         /\ max[d] # 0 => Added(d, n) = held[d] + n /\ held[d] + n =< max[d]
<1>1. /\ max[d] \in Limits /\ max[d] \in Nat /\ current[d] \in 0 .. (UINT32 - 1) /\ held[d] \in Nat
      /\ n \in Nat /\ MaxRequest \in Nat /\ UINT32 \in Nat
  <2>1. max[d] \in Limits /\ current[d] \in 0 .. (UINT32 - 1) /\ held[d] \in Nat
    BY DEF FlowInv, FlowTypeOK
  <2> QED BY <2>1, ConstantTypes
<1>2. current[d] + n \in Nat
  BY <1>1
<1>3. Added(d, n) \in 0 .. (UINT32 - 1)
  BY <1>2, RemainderInWord DEF Added
<1>4. ASSUME max[d] # 0 PROVE Added(d, n) = held[d] + n /\ held[d] + n =< max[d]
  <2>1. current[d] = held[d] /\ held[d] =< max[d]
    BY <1>4 DEF FlowInv, Accounted, LimitHolds
  <2>2. max[d] + MaxRequest < UINT32
    BY <1>1 DEF NoFlowWrap
  <2>3. current[d] + n \in 0 .. (UINT32 - 1)
    BY <1>1, <2>1, <2>2
  <2>4. (current[d] + n) % UINT32 = current[d] + n
    BY <2>3, NoFlowRemainder
  <2>5. current[d] + n =< max[d]
    BY <1>4, <2>4 DEF Permits
  <2> QED BY <2>1, <2>4, <2>5 DEF Added
<1> QED BY <1>3, <1>4

LEMMA PutKeepsFlowInv ==
  ASSUME NoFlowWrap, FlowInv, NEW d \in Direction, NEW n \in 1 .. MaxRequest, Put(d, n)
  PROVE  FlowInv'
<1>1. /\ max' = max /\ current' = [current EXCEPT ![d] = Added(d, n)]
      /\ held' = [held EXCEPT ![d] = held[d] + n]
  BY DEF Put
<1>2. /\ Added(d, n) \in 0 .. (UINT32 - 1)
      /\ max[d] # 0 => Added(d, n) = held[d] + n /\ held[d] + n =< max[d]
  BY PermittedSum DEF Put
<1>3. held \in [Direction -> Nat] /\ n \in Nat /\ current \in [Direction -> 0 .. (UINT32 - 1)]
  BY MaxRequestAssumption DEF FlowInv, FlowTypeOK
<1>4. FlowTypeOK'
  BY <1>1, <1>2, <1>3 DEF FlowInv, FlowTypeOK
<1>5. Accounted'
  BY <1>1, <1>2, <1>3 DEF FlowInv, Accounted
<1>6. LimitHolds'
  BY <1>1, <1>2, <1>3 DEF FlowInv, LimitHolds
<1> QED BY <1>4, <1>5, <1>6 DEF FlowInv

LEMMA TakeKeepsFlowInv ==
  ASSUME FlowInv, NEW d \in Direction, NEW n \in 1 .. MaxRequest, Take(d, n)
  PROVE  FlowInv'
<1>1. /\ max' = max /\ current' = [current EXCEPT ![d] = Removed(d, n)]
      /\ held' = [held EXCEPT ![d] = held[d] - n] /\ n =< held[d]
  BY DEF Take
<1>2. /\ held \in [Direction -> Nat] /\ n \in Nat /\ current \in [Direction -> 0 .. (UINT32 - 1)]
      /\ \A e \in Direction : max[e] \in Nat
  <2>1. /\ held \in [Direction -> Nat] /\ current \in [Direction -> 0 .. (UINT32 - 1)]
        /\ \A e \in Direction : max[e] \in Limits
    BY DEF FlowInv, FlowTypeOK
  <2> QED BY <2>1, ConstantTypes
<1>3. /\ Removed(d, n) \in 0 .. (UINT32 - 1) /\ held[d] - n \in Nat
      /\ max[d] # 0 => Removed(d, n) = held[d] - n /\ held[d] - n =< max[d]
  BY <1>1, <1>2, Uint32Assumption DEF FlowInv, Accounted, LimitHolds, Removed
<1>4. FlowTypeOK'
  BY <1>1, <1>2, <1>3 DEF FlowInv, FlowTypeOK
<1>5. Accounted'
  BY <1>1, <1>2, <1>3 DEF FlowInv, Accounted
<1>6. LimitHolds'
  BY <1>1, <1>2, <1>3 DEF FlowInv, LimitHolds
<1> QED BY <1>4, <1>5, <1>6 DEF FlowInv

(* With the counter at the truth, an empty queue takes any request up to the limit. *)
LEMMA EmptyAccepts == ASSUME NoFlowWrap, FlowInv PROVE EmptyQueueAccepts
<1> SUFFICES ASSUME NEW d \in Direction, NEW n \in 1 .. MaxRequest, held[d] = 0, n =< max[d]
             PROVE  Permits(d, n)
  BY DEF EmptyQueueAccepts
<1>1. max[d] \in Limits /\ max[d] \in Nat /\ n \in Nat /\ n > 0 /\ MaxRequest \in Nat /\ UINT32 \in Nat
  <2>1. max[d] \in Limits
    BY DEF FlowInv, FlowTypeOK
  <2> QED BY <2>1, ConstantTypes
<1>2. current[d] = 0
  BY <1>1 DEF FlowInv, Accounted
<1>3. max[d] + MaxRequest < UINT32
  BY <1>1 DEF NoFlowWrap
<1>4. current[d] + n = n /\ n \in 0 .. (UINT32 - 1)
  BY <1>1, <1>2, <1>3
<1>5. (current[d] + n) % UINT32 = n
  BY <1>4, NoFlowRemainder
<1> QED BY <1>5 DEF Permits

(* Backpressure works for every word size and all limits, after any        *)
(* sequence of calls, when limit + request fits the word: a limited queue  *)
(* never outgrows its limit, its counter is exact, and once empty it takes *)
(* any request up to the limit (pw_flow.c:12-52).                          *)
THEOREM BackpressureCorrect ==
  ASSUME NoFlowWrap
  PROVE  FlowSpec => [](FlowTypeOK /\ LimitHolds /\ Accounted /\ EmptyQueueAccepts)
<1>1. FlowInv /\ [FlowNext]_flowVars => FlowInv'
  <2> SUFFICES ASSUME FlowInv, [FlowNext]_flowVars PROVE FlowInv'
    OBVIOUS
  <2>1. CASE UNCHANGED flowVars
    BY <2>1 DEF flowVars, FlowInv, FlowTypeOK, Accounted, LimitHolds
  <2>2. CASE FlowNext
    BY <2>2, PutKeepsFlowInv, TakeKeepsFlowInv DEF FlowNext
  <2> QED BY <2>1, <2>2
<1>2. FlowInv => FlowTypeOK /\ LimitHolds /\ Accounted /\ EmptyQueueAccepts
  BY EmptyAccepts DEF FlowInv
<1> QED BY InitFlowInv, <1>1, <1>2, PTL DEF FlowSpec
-----------------------------------------------------------------------------
(* No deadline that the code computes exceeds the word. *)
NoWrap == MaxTime + Interval < UINT64 /\ MaxTime + Timeout < UINT64

(* The timeout leaves room for an interval, a timer period and an answer. *)
RoomForAnswer == Interval # 0 /\ Interval + TickPeriod + RoundTrip =< Timeout

(* What the timer and the clock know of each other while the connection is *)
(* open: the timer is at most a period old; it left neither an idle peer   *)
(* without a ping nor a silent one open.                                   *)
TimerInv ==
  /\ now =< MaxTime
  /\ heard =< now /\ last_recv_time = heard
  /\ open => /\ tick =< now /\ now =< tick + TickPeriod
             /\ Timeout # 0 => tick < heard + Timeout
             /\ Interval # 0 /\ ~waiting_for_pong => tick < heard + Interval

(* The one unanswered ping was sent soon after the last message, and a     *)
(* live peer still has time to answer it.                                  *)
PingInv ==
  \A i \in 1 .. Len(pings) :
    /\ pings[i] < heard + Interval + TickPeriod
    /\ open /\ alive => now =< pings[i] + RoundTrip

HeartbeatInv == TypeOK /\ OnePing /\ TimerInv /\ PingInv

LEMMA NoRemainder == \A x \in 0 .. (UINT64 - 1) : x % UINT64 = x
BY HeartbeatAssumption, SMTT(60)

(* Within the word the code's deadlines are the true sums. *)
LEMMA Deadlines ==
  ASSUME NoWrap, HeartbeatInv
  PROVE  /\ (last_recv_time + Interval) % UINT64 = heard + Interval
         /\ (last_recv_time + Timeout) % UINT64 = heard + Timeout
<1>1. heard \in Nat /\ now \in Nat /\ heard =< now /\ now =< MaxTime /\ last_recv_time = heard
  BY DEF HeartbeatInv, TypeOK, TimerInv
<1>2. heard + Interval \in 0 .. (UINT64 - 1) /\ heard + Timeout \in 0 .. (UINT64 - 1)
  BY <1>1, HeartbeatAssumption DEF NoWrap
<1> QED BY <1>1, <1>2, NoRemainder

LEMMA InitHeartbeatInv == Init => HeartbeatInv
<1> SUFFICES ASSUME Init PROVE HeartbeatInv
  OBVIOUS
<1> USE HeartbeatAssumption DEF Init
<1>1. TypeOK
  <2>1. pings \in Seq(Nat)
    OBVIOUS
  <2>2. waiting_for_pong \in BOOLEAN /\ open \in BOOLEAN /\ alive \in BOOLEAN
    OBVIOUS
  <2> QED BY <2>1, <2>2 DEF TypeOK
<1>2. OnePing
  BY DEF OnePing
<1>3. TimerInv
  BY DEF TimerInv
<1>4. PingInv
  BY DEF PingInv
<1> QED BY <1>1, <1>2, <1>3, <1>4 DEF HeartbeatInv

LEMMA AdvanceKeeps == ASSUME HeartbeatInv, Advance PROVE HeartbeatInv'
<1> USE HeartbeatAssumption DEF HeartbeatInv, Advance, hb
<1>1. TypeOK'
  BY DEF TypeOK
<1>2. OnePing'
  BY DEF OnePing
<1>3. TimerInv'
  BY DEF TimerInv, TypeOK
<1>4. PingInv'
  <2> SUFFICES ASSUME NEW i \in 1 .. Len(pings)
               PROVE  /\ pings[i] < heard + Interval + TickPeriod
                      /\ open /\ alive => now + 1 =< pings[i] + RoundTrip
    BY DEF PingInv
  <2>1. pings[i] \in Nat
    BY DEF TypeOK
  <2> QED BY <2>1 DEF PingInv, TypeOK
<1> QED BY <1>1, <1>2, <1>3, <1>4

LEMMA TickGivesUpKeeps == ASSUME HeartbeatInv, TickGivesUp PROVE HeartbeatInv'
<1> USE HeartbeatAssumption DEF HeartbeatInv, TickGivesUp, hb
<1>1. TypeOK'
  BY DEF TypeOK
<1>2. OnePing'
  BY DEF OnePing
<1>3. TimerInv'
  BY DEF TimerInv
<1>4. PingInv'
  BY DEF PingInv
<1> QED BY <1>1, <1>2, <1>3, <1>4

LEMMA TickPingsKeeps == ASSUME NoWrap, HeartbeatInv, TickPings PROVE HeartbeatInv'
<1>1. /\ open /\ ~waiting_for_pong /\ Interval # 0
      /\ Timeout # 0 => ~(now >= heard + Timeout)
  BY Deadlines DEF TickPings, IsTimedOut, ShouldPing
<1>2. /\ now' = now /\ heard' = heard /\ open' = open /\ alive' = alive /\ tick' = now
      /\ waiting_for_pong' = TRUE /\ last_send_time' = now /\ last_recv_time' = last_recv_time
      /\ pings' = Append(pings, now)
  BY DEF TickPings, OnPingSent
<1>3. pings \in Seq(Nat) /\ Len(pings) = 0
  BY <1>1 DEF HeartbeatInv, TypeOK, OnePing
<1>4. pings' \in Seq(Nat) /\ Len(pings') = 1 /\ pings'[1] = now
  BY <1>2, <1>3 DEF HeartbeatInv, TypeOK
<1>5. /\ now \in Nat /\ tick \in Nat /\ heard \in Nat /\ heard =< now /\ now =< tick + TickPeriod
      /\ tick < heard + Interval /\ now =< MaxTime /\ last_recv_time = heard
  BY <1>1 DEF HeartbeatInv, TimerInv, TypeOK
<1>6. TypeOK'
  BY <1>2, <1>4 DEF HeartbeatInv, TypeOK
<1>7. OnePing'
  BY <1>2, <1>4 DEF OnePing
<1>8. TimerInv'
  BY <1>1, <1>2, <1>5, HeartbeatAssumption DEF TimerInv
<1>9. PingInv'
  BY <1>2, <1>4, <1>5, HeartbeatAssumption DEF PingInv
<1> QED BY <1>6, <1>7, <1>8, <1>9 DEF HeartbeatInv

LEMMA TickIdleKeeps == ASSUME NoWrap, HeartbeatInv, TickIdle PROVE HeartbeatInv'
<1>1. /\ Timeout # 0 => ~(now >= heard + Timeout)
      /\ Interval # 0 /\ ~waiting_for_pong => ~(now >= heard + Interval)
  BY Deadlines DEF TickIdle, IsTimedOut, ShouldPing
<1>2. /\ now' = now /\ heard' = heard /\ open' = open /\ alive' = alive /\ tick' = now
      /\ waiting_for_pong' = waiting_for_pong /\ last_send_time' = last_send_time
      /\ last_recv_time' = last_recv_time /\ pings' = pings
  BY DEF TickIdle, hb
<1>3. TypeOK'
  BY <1>2 DEF HeartbeatInv, TypeOK
<1>4. OnePing' /\ PingInv'
  BY <1>2 DEF HeartbeatInv, OnePing, PingInv
<1>5. TimerInv'
  BY <1>1, <1>2, HeartbeatAssumption DEF HeartbeatInv, TypeOK, TimerInv
<1> QED BY <1>3, <1>4, <1>5 DEF HeartbeatInv

LEMMA ReceivePongKeeps == ASSUME HeartbeatInv, ReceivePong PROVE HeartbeatInv'
<1>1. /\ now' = now /\ heard' = now /\ open' = open /\ alive' = alive /\ tick' = tick
      /\ waiting_for_pong' = FALSE /\ last_send_time' = last_send_time
      /\ last_recv_time' = now /\ pings' = Tail(pings) /\ pings # << >>
  BY DEF ReceivePong, OnPong
<1>2. pings \in Seq(Nat) /\ Len(pings) \in {0, 1}
  BY DEF HeartbeatInv, TypeOK, OnePing
<1>3. pings' \in Seq(Nat) /\ Len(pings') = 0
  BY <1>1, <1>2
<1>4. TypeOK'
  BY <1>1, <1>3 DEF HeartbeatInv, TypeOK
<1>5. OnePing' /\ PingInv'
  BY <1>1, <1>3 DEF OnePing, PingInv
<1>6. TimerInv'
  BY <1>1, HeartbeatAssumption DEF HeartbeatInv, TypeOK, TimerInv
<1> QED BY <1>4, <1>5, <1>6 DEF HeartbeatInv

LEMMA ReceiveDataKeeps == ASSUME HeartbeatInv, ReceiveData PROVE HeartbeatInv'
<1>1. /\ now' = now /\ heard' = now /\ open' = open /\ alive' = alive /\ tick' = tick
      /\ waiting_for_pong' = waiting_for_pong /\ last_send_time' = last_send_time
      /\ last_recv_time' = now /\ pings' = pings
  BY DEF ReceiveData, OnRecv
<1>2. TypeOK'
  BY <1>1 DEF HeartbeatInv, TypeOK
<1>3. OnePing'
  BY <1>1 DEF HeartbeatInv, OnePing
<1>4. TimerInv'
  BY <1>1, HeartbeatAssumption DEF HeartbeatInv, TypeOK, TimerInv
<1>5. PingInv'
  <2> SUFFICES ASSUME NEW i \in 1 .. Len(pings)
               PROVE  /\ pings[i] < now + Interval + TickPeriod
                      /\ open /\ alive => now =< pings[i] + RoundTrip
    BY <1>1 DEF PingInv
  <2>1. pings[i] \in Nat /\ heard \in Nat /\ now \in Nat /\ heard =< now
    BY DEF HeartbeatInv, TypeOK, TimerInv
  <2> QED BY <2>1, HeartbeatAssumption DEF HeartbeatInv, PingInv
<1> QED BY <1>2, <1>3, <1>4, <1>5 DEF HeartbeatInv

LEMMA SendDataKeeps == ASSUME HeartbeatInv, SendData PROVE HeartbeatInv'
BY DEF SendData, OnSend, HeartbeatInv, TypeOK, OnePing, TimerInv, PingInv

LEMMA PeerFallsSilentKeeps == ASSUME HeartbeatInv, PeerFallsSilent PROVE HeartbeatInv'
BY DEF PeerFallsSilent, hb, HeartbeatInv, TypeOK, OnePing, TimerInv, PingInv

LEMMA StepKeepsHeartbeatInv == ASSUME NoWrap, HeartbeatInv, [Next]_vars PROVE HeartbeatInv'
<1>1. CASE UNCHANGED vars
  BY <1>1 DEF vars, hb, HeartbeatInv, TypeOK, OnePing, TimerInv, PingInv
<1>2. CASE Next
  BY <1>2, AdvanceKeeps, TickGivesUpKeeps, TickPingsKeeps, TickIdleKeeps, ReceivePongKeeps,
     ReceiveDataKeeps, SendDataKeeps, PeerFallsSilentKeeps DEF Next
<1> QED BY <1>1, <1>2

(* For all spans: at most one ping is unanswered, a silent peer is given   *)
(* up in time, and an idle one has been pinged (pw_heartbeat.c:25-53).     *)
THEOREM HeartbeatCorrect ==
  ASSUME NoWrap
  PROVE  Spec => [](TypeOK /\ OnePing /\ SilentPeerGivenUp /\ IdlePeerPinged)
<1>1. HeartbeatInv => SilentPeerGivenUp /\ IdlePeerPinged
  BY HeartbeatAssumption DEF HeartbeatInv, TypeOK, TimerInv, SilentPeerGivenUp, IdlePeerPinged
<1>2. HeartbeatInv => TypeOK /\ OnePing
  BY DEF HeartbeatInv
<1>3. HeartbeatInv /\ [Next]_vars => HeartbeatInv'
  BY StepKeepsHeartbeatInv
<1> QED BY InitHeartbeatInv, <1>1, <1>2, <1>3, PTL DEF Spec

(* A live peer is not timed out. *)
LEMMA LiveIsNotTimedOut ==
  ASSUME NoWrap, RoomForAnswer, HeartbeatInv, open, alive
  PROVE  ~IsTimedOut
<1>1. /\ now \in Nat /\ heard \in Nat /\ tick \in Nat /\ now =< tick + TickPeriod
      /\ ~waiting_for_pong => tick < heard + Interval
  BY DEF HeartbeatInv, TypeOK, TimerInv, RoomForAnswer
<1>2. now < heard + Timeout
  <2>1. CASE ~waiting_for_pong
    BY <1>1, <2>1, HeartbeatAssumption DEF RoomForAnswer
  <2>2. CASE waiting_for_pong
    <3>1. Len(pings) = 1 /\ pings \in Seq(Nat)
      BY <2>2 DEF HeartbeatInv, OnePing, TypeOK
    <3>2. pings[1] \in Nat /\ pings[1] < heard + Interval + TickPeriod /\ now =< pings[1] + RoundTrip
      BY <3>1 DEF HeartbeatInv, PingInv
    <3> QED BY <1>1, <3>2, HeartbeatAssumption DEF RoomForAnswer
  <2> QED BY <2>1, <2>2
<1> QED BY <1>1, <1>2, Deadlines, HeartbeatAssumption DEF IsTimedOut

(* For all spans that leave room for an answer: a live peer is never given *)
(* up, however long it stays idle (pw_heartbeat.c:32, 38).                 *)
THEOREM LivePeerIsKept ==
  ASSUME NoWrap, RoomForAnswer
  PROVE  Spec => []LivePeerKept
<1> DEFINE Inv == HeartbeatInv /\ LivePeerKept
<1>1. Init => Inv
  BY InitHeartbeatInv DEF Init, LivePeerKept
<1>2. Inv /\ [Next]_vars => Inv'
  <2> SUFFICES ASSUME HeartbeatInv, LivePeerKept, [Next]_vars PROVE Inv'
    OBVIOUS
  <2>1. HeartbeatInv'
    BY StepKeepsHeartbeatInv
  <2>2. ~(alive /\ TickGivesUp)
    BY LiveIsNotTimedOut DEF TickGivesUp
  <2>3. LivePeerKept'
    BY <2>2 DEF LivePeerKept, Next, vars, hb, Advance, TickGivesUp, TickPings, TickIdle,
       ReceivePong, ReceiveData, SendData, PeerFallsSilent
  <2> QED BY <2>1, <2>3
<1> QED BY <1>1, <1>2, PTL DEF Spec

(* For all spans: a ping goes out only after an interval without a message *)
(* (pw_heartbeat.c:31-32).                                                 *)
THEOREM NoNeedlessPings ==
  ASSUME NoWrap
  PROVE  Spec => PingsOnlyWhenIdle
<1>1. HeartbeatInv /\ [Next]_vars => [Len(pings') > Len(pings) => now >= heard + Interval]_vars
  <2> SUFFICES ASSUME HeartbeatInv, Next, Len(pings') > Len(pings)
               PROVE  now >= heard + Interval
    OBVIOUS
  <2>1. pings \in Seq(Nat)
    BY DEF HeartbeatInv, TypeOK
  <2>2. pings' # pings
    <3>1. Len(pings) \in Nat
      BY <2>1
    <3> QED BY <3>1
  <2>3. ~ReceivePong
    <3> SUFFICES ASSUME pings # << >>, pings' = Tail(pings) PROVE FALSE
      BY DEF ReceivePong
    <3>1. Len(pings') = Len(pings) - 1 /\ Len(pings) \in Nat
      BY <2>1
    <3> QED BY <3>1
  <2>4. TickPings
    BY <2>2, <2>3 DEF Next, Advance, TickGivesUp, TickIdle, ReceiveData, SendData, PeerFallsSilent
  <2> QED BY <2>4, Deadlines DEF TickPings, ShouldPing
<1>2. HeartbeatInv /\ [Next]_vars => HeartbeatInv'
  BY StepKeepsHeartbeatInv
<1> QED BY InitHeartbeatInv, <1>1, <1>2, PTL DEF Spec, PingsOnlyWhenIdle
=============================================================================
