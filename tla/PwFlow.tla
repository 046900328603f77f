------------------------------- MODULE PwFlow -------------------------------
(***************************************************************************)
(* Flow control of native/src/pw_flow.c: a limit and a counter of bytes    *)
(* for each direction, all uint32_t.  A user asks can_send (can_receive),  *)
(* and if allowed records on_enqueued (on_received); what leaves the queue *)
(* is recorded with on_sent (on_consumed).  The counters are compared with *)
(* the bytes that are really there.                                        *)
(***************************************************************************)
EXTENDS Integers

CONSTANTS UINT32,       \* number of values of uint32_t (2^32 in the build)
          Limits,       \* the limits pw_flow_init may be given
          MaxRequest,   \* bound: the largest number of bytes in one call
          MaxHeld       \* bound: bytes in an unlimited queue

ASSUME Uint32Assumption == UINT32 \in Nat \ {0}
ASSUME LimitsAssumption == Limits \subseteq 0 .. (UINT32 - 1)
ASSUME MaxRequestAssumption == MaxRequest \in 0 .. (UINT32 - 1)
ASSUME MaxHeldAssumption == MaxHeld \in Nat

Direction == {"outbound", "inbound"}

VARIABLES max,       \* max[d]: max_outbound_bytes, max_inbound_bytes
          current,   \* current[d]: current_outbound_bytes, current_inbound_bytes
          held       \* held[d]: the bytes that really are in the queue of direction d

flowVars == <<max, current, held>>

(* pw_flow_init *)
FlowInit == /\ max \in [Direction -> Limits]
            /\ current = [d \in Direction |-> 0]
            /\ held = [d \in Direction |-> 0]

(* Mutant of Permits: one byte more than the limit. *)
PermitsOneMore(d, n) == max[d] = 0 \/ (current[d] + n) % UINT32 =< max[d] + 1

(* Mutant of Permits: the limit itself is refused. *)
PermitsOneLess(d, n) == max[d] = 0 \/ (current[d] + n) % UINT32 < max[d]

(* pw_flow_can_send, pw_flow_can_receive: a limit of 0 means none.  The    *)
(* sum is a uint32_t.                                                      *)
Permits(d, n) == max[d] = 0 \/ (current[d] + n) % UINT32 =< max[d]

(* pw_flow_on_enqueued, pw_flow_on_received *)
Added(d, n) == (current[d] + n) % UINT32

(* Mutant of Removed: the bytes stay accounted for. *)
RemovedNothing(d, n) == current[d]

(* pw_flow_on_sent, pw_flow_on_consumed: never below 0. *)
Removed(d, n) == IF current[d] >= n THEN current[d] - n ELSE 0

(* The user asks, and queues n bytes when it may. *)
Put(d, n) ==
  /\ Permits(d, n)
  /\ max[d] = 0 => held[d] + n =< MaxHeld
  /\ current' = [current EXCEPT ![d] = Added(d, n)]
  /\ held' = [held EXCEPT ![d] = @ + n]
  /\ UNCHANGED max

(* n of the queued bytes go out. *)
Take(d, n) ==
  /\ n =< held[d]
  /\ current' = [current EXCEPT ![d] = Removed(d, n)]
  /\ held' = [held EXCEPT ![d] = @ - n]
  /\ UNCHANGED max

FlowNext == \E d \in Direction, n \in 1 .. MaxRequest : Put(d, n) \/ Take(d, n)

FlowSpec == FlowInit /\ [][FlowNext]_flowVars
-----------------------------------------------------------------------------
(* Every variable has its type; the counters fit their word. *)
FlowTypeOK == /\ max \in [Direction -> Limits]
              /\ current \in [Direction -> 0 .. (UINT32 - 1)]
              /\ held \in [Direction -> Nat]

(* docs/production_readiness.md:13: a limited queue never holds more bytes *)
(* than its limit.                                                         *)
LimitHolds == \A d \in Direction : max[d] # 0 => held[d] =< max[d]

(* Under a limit the counter is the true number of bytes, after any        *)
(* sequence of requests (pw_flow.c:19, 25-29).                             *)
Accounted == \A d \in Direction : max[d] # 0 => current[d] = held[d]

(* Flow control never locks a user out for good: whatever was refused      *)
(* before, an empty queue takes any request up to the limit.               *)
EmptyQueueAccepts ==
  \A d \in Direction, n \in 1 .. MaxRequest :
    held[d] = 0 /\ n =< max[d] => Permits(d, n)
=============================================================================
