---------------------------- MODULE PwHeartbeat ----------------------------
(***************************************************************************)
(* The heartbeat of native/src/pw_heartbeat.c and one connection that uses *)
(* it the way native/tests/test_heartbeat.c does: both times are set when  *)
(* the connection is up, and a timer that fires at least every TickPeriod  *)
(* asks is_timed_out, then should_ping.  The peer answers pings in order,  *)
(* may send data at any time, and may fall silent for good.                *)
(***************************************************************************)
EXTENDS Integers, Sequences

CONSTANTS UINT64,       \* number of values of uint64_t (2^64 in the build)
          Interval,     \* ping_interval_ms
          Timeout,      \* timeout_ms
          TickPeriod,   \* the timer fires at least this often
          RoundTrip,    \* a live peer's PONG is back within this time
          Start,        \* the clock when the connection comes up
          MaxTime       \* bound: the clock stops here

ASSUME HeartbeatAssumption ==
  /\ UINT64 \in Nat \ {0}
  /\ Interval \in Nat /\ Timeout \in Nat
  /\ TickPeriod \in Nat \ {0} /\ RoundTrip \in Nat
  /\ Start \in Nat /\ MaxTime \in Nat /\ Start =< MaxTime /\ MaxTime < UINT64

VARIABLES last_recv_time, last_send_time, waiting_for_pong,  \* pw_heartbeat_t
          now,      \* the clock
          tick,     \* when the timer last fired
          open,     \* the connection has not been given up
          alive,    \* the peer is there
          heard,    \* when something last came from the peer
          pings     \* the times at which the unanswered pings were sent

hb   == <<last_recv_time, last_send_time, waiting_for_pong>>
vars == <<hb, now, tick, open, alive, heard, pings>>

(* pw_heartbeat_init, then on_recv and on_send at the time of connection. *)
Init == /\ last_recv_time = Start /\ last_send_time = Start
        /\ waiting_for_pong = FALSE
        /\ now = Start /\ tick = Start /\ heard = Start
        /\ open = TRUE /\ alive = TRUE /\ pings = << >>
-----------------------------------------------------------------------------
(* Mutant of ShouldPing: an unanswered ping does not hold back the next. *)
ShouldPingAgain == Interval # 0 /\ now >= (last_recv_time + Interval) % UINT64

(* Mutant of ShouldPing: counted from what was sent last. *)
ShouldPingSinceSend ==
  /\ Interval # 0 /\ ~waiting_for_pong
  /\ now >= (last_send_time + Interval) % UINT64

(* pw_heartbeat_should_ping *)
ShouldPing ==
  /\ Interval # 0
  /\ ~waiting_for_pong
  /\ now >= (last_recv_time + Interval) % UINT64

(* Mutant of IsTimedOut: not while a ping is unanswered. *)
IsTimedOutUnlessWaiting ==
  Timeout # 0 /\ ~waiting_for_pong /\ now >= (last_recv_time + Timeout) % UINT64

(* pw_heartbeat_is_timed_out *)
IsTimedOut == Timeout # 0 /\ now >= (last_recv_time + Timeout) % UINT64

(* pw_heartbeat_on_recv *)
OnRecv == last_recv_time' = now /\ UNCHANGED <<last_send_time, waiting_for_pong>>

(* pw_heartbeat_on_send *)
OnSend == last_send_time' = now /\ UNCHANGED <<last_recv_time, waiting_for_pong>>

(* Mutant of OnPong: the flag stays up. *)
OnPongKeepsWaiting == last_recv_time' = now /\ UNCHANGED <<last_send_time, waiting_for_pong>>

(* pw_heartbeat_on_pong *)
OnPong == /\ waiting_for_pong' = FALSE /\ last_recv_time' = now
          /\ UNCHANGED last_send_time

(* pw_heartbeat_on_ping_sent *)
OnPingSent == /\ waiting_for_pong' = TRUE /\ last_send_time' = now
              /\ UNCHANGED last_recv_time
-----------------------------------------------------------------------------
(* Time passes, but not past the next firing of the timer, nor past the    *)
(* time by which a live peer has answered.                                 *)
Advance ==
  /\ now < MaxTime
  /\ open => now < tick + TickPeriod
  /\ open /\ alive => \A i \in 1 .. Len(pings) : now < pings[i] + RoundTrip
  /\ now' = now + 1
  /\ UNCHANGED <<hb, tick, open, alive, heard, pings>>

(* The timer finds the connection dead. *)
TickGivesUp ==
  /\ open /\ IsTimedOut
  /\ open' = FALSE /\ tick' = now
  /\ UNCHANGED <<hb, now, alive, heard, pings>>

(* The timer sends a PING. *)
TickPings ==
  /\ open /\ ~IsTimedOut /\ ShouldPing
  /\ OnPingSent
  /\ pings' = Append(pings, now) /\ tick' = now
  /\ UNCHANGED <<now, open, alive, heard>>

(* The timer has nothing to do. *)
TickIdle ==
  /\ open /\ ~IsTimedOut /\ ~ShouldPing
  /\ tick' = now
  /\ UNCHANGED <<hb, now, open, alive, heard, pings>>

(* The PONG for the oldest ping arrives, possibly after the peer's death. *)
ReceivePong ==
  /\ open /\ pings # << >>
  /\ OnPong
  /\ pings' = Tail(pings) /\ heard' = now
  /\ UNCHANGED <<now, tick, open, alive>>

ReceiveData ==
  /\ open /\ alive
  /\ OnRecv /\ heard' = now
  /\ UNCHANGED <<now, tick, open, alive, pings>>

SendData ==
  /\ open
  /\ OnSend
  /\ UNCHANGED <<now, tick, open, alive, heard, pings>>

PeerFallsSilent ==
  /\ alive /\ alive' = FALSE
  /\ UNCHANGED <<hb, now, tick, open, heard, pings>>

Next == \/ Advance
        \/ TickGivesUp \/ TickPings \/ TickIdle
        \/ ReceivePong \/ ReceiveData \/ SendData
        \/ PeerFallsSilent

Spec == Init /\ [][Next]_vars
-----------------------------------------------------------------------------
(* Every variable has its type. *)
TypeOK == /\ last_recv_time \in Nat /\ last_send_time \in Nat
          /\ waiting_for_pong \in BOOLEAN
          /\ now \in Nat /\ tick \in Nat /\ heard \in Nat
          /\ open \in BOOLEAN /\ alive \in BOOLEAN
          /\ pings \in Seq(Nat)

(* pw_heartbeat.c:28-29: however data, pongs and the timer interleave, at  *)
(* most one ping is unanswered, and the flag says whether one is.          *)
OnePing == Len(pings) = IF waiting_for_pong THEN 1 ELSE 0

(* A live peer that answers every ping in time is never given up, however  *)
(* idle it is, when timeout_ms leaves room for a ping interval, a timer    *)
(* period and a round trip (pw_heartbeat.c:32, 38).                        *)
LivePeerKept == alive => open

(* A peer that is not heard from is given up no later than timeout_ms and  *)
(* one timer period after its last message, whatever is sent to it.        *)
SilentPeerGivenUp == Timeout # 0 /\ open => now =< heard + Timeout + TickPeriod

(* A connection is never pinged while messages keep coming within the      *)
(* interval: a ping goes out only after that long without any.             *)
PingsOnlyWhenIdle == [][Len(pings') > Len(pings) => now >= heard + Interval]_vars

(* ... and an idle peer has been pinged within an interval and a period.   *)
IdlePeerPinged ==
  open /\ Interval # 0 /\ now > heard + Interval + TickPeriod => waiting_for_pong
=============================================================================
