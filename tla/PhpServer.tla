----------------------------- MODULE PhpServer -----------------------------
(***************************************************************************)
(* The session registry of php/src/PhoenixWire/Server.php, with the        *)
(* activity times of Session.php.  Callbacks are application code that     *)
(* runs inside addSession and removeSession: it may call the server again, *)
(* return, or throw.  The call stack is a sequence, innermost call first;  *)
(* application code runs when it is empty or a callback is on top.         *)
(***************************************************************************)
EXTENDS Integers, Sequences, FiniteSets, Functions

CONSTANTS Session,       \* the session objects; each stands for one connection
          Id,            \* Id[s]: the key of session s
          maxSessions, idleTimeoutMs,   \* ServerOptions
          Handlers,      \* the callbacks that are set, among "connect", "close", "error"
          MaxTime,       \* bound: the clock stops here
          MaxDepth       \* bound: calls on the stack

ASSUME PhpServerAssumption ==
  /\ Id \in [Session -> Range(Id)]
  /\ maxSessions \in Nat /\ idleTimeoutMs \in Nat
  /\ Handlers \subseteq {"connect", "close", "error"}
  /\ MaxTime \in Nat /\ MaxDepth \in Nat

VARIABLES sessions,         \* $sessions: a function from some of the keys to sessions
          lastActivityMs,   \* of each session; -1 before it is constructed
          closed,           \* the sessions on which close() was called
          stack,            \* the calls in progress
          now,              \* the clock, in milliseconds
          told              \* told[h][s]: how often callback h was called for s

vars == <<sessions, lastActivityMs, closed, stack, now, told>>

Registered == Range(sessions)

Init == /\ sessions = << >> /\ closed = {} /\ stack = << >> /\ now = 0
        /\ lastActivityMs = [s \in Session |-> -1]
        /\ told = [h \in {"connect", "close"} |-> [s \in Session |-> 0]]

(* Application code has control. *)
AppRuns == stack # << >> => Head(stack).call \in Handlers
CanCall == AppRuns /\ Len(stack) < MaxDepth

(* Callback h, if it is set, is called for s: above the calls in rest. *)
CallBack(h, s, rest) ==
  IF h \in Handlers
  THEN /\ stack' = <<[call |-> h, session |-> s]>> \o rest
       /\ told' = [told EXCEPT ![h][s] = @ + 1]
  ELSE stack' = rest /\ UNCHANGED told
-----------------------------------------------------------------------------
(* new Session() *)
Construct(s) ==
  /\ AppRuns /\ lastActivityMs[s] = -1
  /\ lastActivityMs' = [lastActivityMs EXCEPT ![s] = now]
  /\ UNCHANGED <<sessions, closed, stack, now, told>>

(* recordReceive *)
RecordReceive(s) ==
  /\ AppRuns /\ s \in Registered
  /\ lastActivityMs' = [lastActivityMs EXCEPT ![s] = now]
  /\ UNCHANGED <<sessions, closed, stack, now, told>>

(* Mutant of Broadcast: the time is scaled to milliseconds twice. *)
BroadcastScaledTwice(only) ==
  /\ AppRuns
  /\ lastActivityMs' = [s \in Session |-> IF s \in Registered \cap only THEN now * 1000
                                          ELSE lastActivityMs[s]]
  /\ UNCHANGED <<sessions, closed, stack, now, told>>

(* broadcast, with a filter that lets the sessions of only through: a send *)
(* counts as activity.                                                     *)
Broadcast(only) ==
  /\ AppRuns
  /\ lastActivityMs' = [s \in Session |-> IF s \in Registered \cap only THEN now
                                          ELSE lastActivityMs[s]]
  /\ UNCHANGED <<sessions, closed, stack, now, told>>

(* Mutant of Full: one more. *)
FullAtOneMore == Cardinality(DOMAIN sessions) > maxSessions

(* Admission control. *)
Full == Cardinality(DOMAIN sessions) >= maxSessions

(* addSession.  A connection is not added again after it was registered. *)
AddSession(s) ==
  /\ CanCall /\ lastActivityMs[s] # -1 /\ told["connect"][s] = 0
  /\ IF Full
     THEN closed' = closed \cup {s} /\ UNCHANGED <<sessions, stack, told>>
     ELSE /\ sessions' = [i \in DOMAIN sessions \cup {Id[s]} |->
                            IF i = Id[s] THEN s ELSE sessions[i]]
          /\ CallBack("connect", s, stack) /\ UNCHANGED closed
  /\ UNCHANGED <<lastActivityMs, now>>

(* Mutant of RemoveSession: the callback comes whether the key is known or not. *)
RemoveSessionUnknown(i, s, rest) ==
  /\ sessions' = Restrict(sessions, DOMAIN sessions \ {i})
  /\ CallBack("close", s, rest)

(* removeSession: the effect of removing key i, above the calls in rest.   *)
(* s is the session the caller means; the code looks only at the key.      *)
RemoveSession(i, s, rest) ==
  IF i \in DOMAIN sessions
  THEN /\ sessions' = Restrict(sessions, DOMAIN sessions \ {i})
       /\ CallBack("close", sessions[i], rest)
  ELSE stack' = rest /\ UNCHANGED <<sessions, told>>

AppRemoves(s) ==
  /\ CanCall /\ lastActivityMs[s] # -1
  /\ RemoveSession(Id[s], s, stack)
  /\ UNCHANGED <<lastActivityMs, closed, now>>

(* sweepIdleSessions(now) begins: foreach walks a copy of the array. *)
SweepBegins ==
  /\ CanCall
  /\ stack' = <<[call |-> "sweep", at |-> now, all |-> Registered, todo |-> Registered]>> \o stack
  /\ UNCHANGED <<sessions, lastActivityMs, closed, now, told>>

(* Mutant of Idle: evicted a millisecond early. *)
IdleAtTimeout(s, at) == at - lastActivityMs[s] >= idleTimeoutMs

(* Mutant of Idle: evicted a millisecond late. *)
IdleLate(s, at) == at - lastActivityMs[s] > idleTimeoutMs + 1

(* The test of the sweep, on the session's state at that moment. *)
Idle(s, at) == at - lastActivityMs[s] > idleTimeoutMs

(* The sweep looks at its next session: closes and removes it, or goes on. *)
SweepStep(s) ==
  LET top  == Head(stack)
      rest == <<[top EXCEPT !.todo = @ \ {s}]>> \o Tail(stack)
  IN  /\ IF Idle(s, top.at)
         THEN closed' = closed \cup {s} /\ RemoveSession(Id[s], s, rest)
         ELSE stack' = rest /\ UNCHANGED <<sessions, closed, told>>
      /\ UNCHANGED <<lastActivityMs, now>>

SweepEnds ==
  /\ stack # << >> /\ Head(stack).call = "sweep" /\ Head(stack).todo = {}
  /\ stack' = Tail(stack)
  /\ UNCHANGED <<sessions, lastActivityMs, closed, now, told>>

(* A callback returns to the call it was made from. *)
CallbackReturns ==
  /\ stack # << >> /\ Head(stack).call \in Handlers
  /\ stack' = Tail(stack)
  /\ UNCHANGED <<sessions, lastActivityMs, closed, now, told>>

(* onConnect or onClose throws: the exception goes to onError, if set, and *)
(* is lost otherwise.                                                      *)
CallbackThrows ==
  /\ stack # << >> /\ Head(stack).call \in {"connect", "close"}
  /\ stack' = (IF "error" \in Handlers THEN <<[call |-> "error", session |-> Head(stack).session]>>
                ELSE << >>) \o Tail(stack)
  /\ UNCHANGED <<sessions, lastActivityMs, closed, now, told>>

(* onError throws: nothing catches it here, and a sweep it was called from *)
(* is abandoned.  The application below may catch it, or throw in turn.    *)
ErrorThrows ==
  /\ stack # << >> /\ Head(stack).call = "error"
  /\ LET rest == Tail(stack)
     IN  stack' = IF rest # << >> /\ Head(rest).call = "sweep" THEN Tail(rest) ELSE rest
  /\ UNCHANGED <<sessions, lastActivityMs, closed, now, told>>

TimePasses ==
  /\ now < MaxTime /\ now' = now + 1
  /\ UNCHANGED <<sessions, lastActivityMs, closed, stack, told>>

Sweep == /\ stack # << >> /\ Head(stack).call = "sweep"
         /\ \E s \in Head(stack).todo : SweepStep(s)

Next == \/ \E s \in Session : Construct(s) \/ RecordReceive(s) \/ AddSession(s) \/ AppRemoves(s)
        \/ \E only \in SUBSET Session : Broadcast(only)
        \/ SweepBegins \/ Sweep \/ SweepEnds
        \/ CallbackReturns \/ CallbackThrows \/ ErrorThrows
        \/ TimePasses

Spec == Init /\ [][Next]_vars
-----------------------------------------------------------------------------
(* Every variable has its type. *)
TypeOK ==
  /\ DOMAIN sessions \subseteq Range(Id) /\ Registered \subseteq Session
  /\ lastActivityMs \in [Session -> -1 .. MaxTime]
  /\ closed \subseteq Session /\ now \in 0 .. MaxTime
  /\ Len(stack) =< 2 * MaxDepth + 1

(* docs/production_readiness.md:63: the quota holds at every moment, also  *)
(* while callbacks add and remove sessions inside each other.              *)
QuotaHolds == Cardinality(Registered) =< maxSessions

(* Every session is announced once, and taken leave of exactly once, when  *)
(* it leaves the registry: however calls nest, whoever throws, and when a  *)
(* sweep walks a copy that callbacks have made stale (Server.php:85-90).   *)
Balanced ==
  \A s \in Session : told["connect"][s] - told["close"][s] = IF s \in Registered THEN 1 ELSE 0

(* What a sweep takes out of the registry was idle for longer than the     *)
(* timeout, although the sweep judges the session in its copy and removes  *)
(* by key whatever the registry holds by then (Server.php:104-108).        *)
OnlyIdleEvicted ==
  [][\A s \in Registered \ Range(sessions') :
       stack # << >> /\ Head(stack).call = "sweep" =>
         lastActivityMs[s] + idleTimeoutMs < Head(stack).at]_vars

(* A sweep that ends, and was not abandoned, has left none of the sessions *)
(* it found idle, whatever the callbacks did meanwhile.                    *)
SweepComplete ==
  stack # << >> /\ Head(stack).call = "sweep" /\ Head(stack).todo = {} =>
    \A s \in Head(stack).all \cap Registered : Head(stack).at - lastActivityMs[s] =< idleTimeoutMs
=============================================================================
