---------------------------- MODULE AsyncClient ----------------------------
(***************************************************************************)
(* php/src/PhoenixWire/AsyncClient.php on top of the extension's client.   *)
(* The application calls tick() in a loop; tick() calls onConnect and      *)
(* onClose in the middle of its work, and they may call the client again,  *)
(* return or throw.  The call stack is a sequence, innermost call first.   *)
(*                                                                         *)
(* Times are kept relative to the clock, so that it may run for ever: a    *)
(* call on the stack carries its age, nextReconnectTime is << >> for 0.0   *)
(* and otherwise <<d>>, d milliseconds from now.                           *)
(***************************************************************************)
EXTENDS Integers, Sequences, ExtClient

CONSTANTS autoReconnect,                        \* ClientOptions
          maxReconnectAttempts, initialBackoffMs, maxBackoffMs,   \* Policy
          MultNum, MultDen,                     \* backoffMultiplier = MultNum / MultDen
          WORD,                                 \* the values of a PHP int: 2^64
          Handlers,                             \* the callbacks that are set, among "connect", "close"
          Ticking,                              \* the callbacks that may call tick()
          MaxDepth,                             \* bound: calls on the stack
          MaxCallback                           \* bound: how long a call lasts, in milliseconds

ASSUME AsyncClientAssumption ==
  /\ autoReconnect \in BOOLEAN
  /\ maxReconnectAttempts \in Nat /\ initialBackoffMs \in Nat /\ maxBackoffMs \in Nat
  /\ MultNum \in Nat /\ MultDen \in Nat \ {0} /\ WORD \in Nat \ {0}
  /\ Handlers \subseteq {"connect", "close"} /\ Ticking \subseteq Handlers
  /\ MaxDepth \in Nat /\ MaxCallback \in Nat

VARIABLES state,               \* of the extension's object
          alive,               \* the object has not been freed
          reconnectAttempts, wasConnected, nextReconnectTime,
          stack,               \* the calls in progress
          open,                \* history: onConnect calls minus onClose calls
          quiet                \* history: since the last attempt, or the loss noticed after it

clientVars == <<reconnectAttempts, wasConnected, nextReconnectTime>>
vars == <<state, alive, clientVars, stack, open, quiet>>

(* Times further away than this make no difference. *)
Horizon == MaxCallback + maxBackoffMs + 1

Init == /\ state = CreateObject /\ alive = TRUE
        /\ reconnectAttempts = 0 /\ wasConnected = FALSE /\ nextReconnectTime = << >>
        /\ stack = << >> /\ open = 0 /\ quiet = Horizon

(* The delay in unbounded arithmetic: initialBackoffMs * multiplier ^ attempts. *)
Delay(attempts) == (initialBackoffMs * MultNum ^ attempts) \div MultDen ^ attempts

(* Mutant of Backoff: the cap is forgotten. *)
BackoffUncapped(attempts) == Delay(attempts)

(* calculateBackoff(): a float product cast to int, which wraps around,    *)
(* and capped.                                                             *)
Backoff(attempts) ==
  LET half == WORD \div 2
      int  == ((Delay(attempts) + half) % WORD) - half
  IN  IF int < maxBackoffMs THEN int ELSE maxBackoffMs
-----------------------------------------------------------------------------
Top(call) == stack # << >> /\ Head(stack).call = call

(* Application code has control. *)
AppRuns == alive /\ (stack # << >> => Head(stack).call \in Handlers)

(* Callback h, if it is set, is called above the calls in rest. *)
CallBack(h, rest) ==
  IF h \in Handlers
  THEN /\ stack' = <<[call |-> h, seen |-> state, age |-> 0]>> \o rest
       /\ open' = open + (IF h = "connect" THEN 1 ELSE -1)
  ELSE stack' = rest /\ UNCHANGED open

(* tick() begins: it reads the state and the clock, and goes by them to its end. *)
Tick ==
  /\ AppRuns /\ Len(stack) < MaxDepth
  /\ stack # << >> => Head(stack).call \in Ticking
  /\ stack' = <<[call |-> "tick", seen |-> state, age |-> 0]>> \o stack
  /\ UNCHANGED <<state, alive, clientVars, open, quiet>>

(* The connection was found lost: onClose, if it had been up. *)
TickLost ==
  /\ Top("tick") /\ Head(stack).seen \in Lost
  /\ LET rest == <<[Head(stack) EXCEPT !.call = "retry"]>> \o Tail(stack)
     IN  IF wasConnected THEN CallBack("close", rest) /\ quiet' = Head(stack).age
         ELSE stack' = rest /\ UNCHANGED <<open, quiet>>
  /\ wasConnected' = FALSE
  /\ UNCHANGED <<state, alive, reconnectAttempts, nextReconnectTime>>

(* The reconnect branch counts an attempt: the call of connect() at        *)
(* AsyncClient.php:93 is commented out.                                    *)
Attempt ==
  /\ reconnectAttempts' = reconnectAttempts + 1 /\ nextReconnectTime' = << >>
  /\ quiet' = Head(stack).age

(* Mutant of Retry: the retry is put off as long as it is not due. *)
RetryPutOff ==
  LET age == Head(stack).age
  IN  IF nextReconnectTime # << >> /\ nextReconnectTime[1] + age =< 0 THEN Attempt
      ELSE /\ nextReconnectTime' = <<Backoff(reconnectAttempts) - age>>
           /\ UNCHANGED <<reconnectAttempts, quiet>>

(* Mutant of Retry: an attempt without waiting for the time. *)
RetryAtOnce ==
  LET age == Head(stack).age
  IN  IF nextReconnectTime = << >>
      THEN /\ nextReconnectTime' = <<Backoff(reconnectAttempts) - age>>
           /\ UNCHANGED <<reconnectAttempts, quiet>>
      ELSE Attempt

(* A retry is scheduled, made when its time has come, or waited for. *)
Retry ==
  LET age == Head(stack).age
  IN  IF nextReconnectTime = << >>
      THEN /\ nextReconnectTime' = <<Backoff(reconnectAttempts) - age>>
           /\ UNCHANGED <<reconnectAttempts, quiet>>
      ELSE IF nextReconnectTime[1] + age =< 0 THEN Attempt
      ELSE UNCHANGED <<reconnectAttempts, nextReconnectTime, quiet>>

TickRetry ==
  /\ Top("retry")
  /\ IF autoReconnect /\ reconnectAttempts < maxReconnectAttempts THEN Retry
     ELSE UNCHANGED <<reconnectAttempts, nextReconnectTime, quiet>>
  /\ stack' = Tail(stack)
  /\ UNCHANGED <<state, alive, wasConnected, open>>

(* Mutant of TickReady: wasConnected is not set before the callback. *)
TickReadyUnmarked ==
  /\ Top("tick") /\ Head(stack).seen = "READY"
  /\ IF wasConnected THEN stack' = Tail(stack) /\ UNCHANGED <<clientVars, open>>
     ELSE /\ reconnectAttempts' = 0 /\ nextReconnectTime' = << >>
          /\ CallBack("connect", Tail(stack)) /\ UNCHANGED wasConnected
  /\ UNCHANGED <<state, alive, quiet>>

(* Mutant of TickReady: the schedule of the outage is kept. *)
TickReadyKeepsSchedule ==
  /\ Top("tick") /\ Head(stack).seen = "READY"
  /\ IF wasConnected THEN stack' = Tail(stack) /\ UNCHANGED <<clientVars, open>>
     ELSE /\ wasConnected' = TRUE /\ reconnectAttempts' = 0
          /\ CallBack("connect", Tail(stack)) /\ UNCHANGED nextReconnectTime
  /\ UNCHANGED <<state, alive, quiet>>

(* Mutant of TickReady: a connection that came back is not announced. *)
TickReadyFirstOnly ==
  /\ Top("tick") /\ Head(stack).seen = "READY"
  /\ IF wasConnected \/ reconnectAttempts > 0 THEN stack' = Tail(stack) /\ UNCHANGED <<clientVars, open>>
     ELSE /\ wasConnected' = TRUE /\ nextReconnectTime' = << >>
          /\ CallBack("connect", Tail(stack)) /\ UNCHANGED reconnectAttempts
  /\ UNCHANGED <<state, alive, quiet>>

(* The connection was found up: everything is reset and onConnect called.  *)
(* Nothing is left to do behind the callback.                              *)
TickReady ==
  /\ Top("tick") /\ Head(stack).seen = "READY"
  /\ IF wasConnected THEN stack' = Tail(stack) /\ UNCHANGED <<clientVars, open>>
     ELSE /\ wasConnected' = TRUE /\ reconnectAttempts' = 0 /\ nextReconnectTime' = << >>
          /\ CallBack("connect", Tail(stack))
  /\ UNCHANGED <<state, alive, quiet>>

(* Any other state: nothing happens. *)
TickElse ==
  /\ Top("tick") /\ Head(stack).seen \notin Lost \cup {"READY"}
  /\ stack' = Tail(stack)
  /\ UNCHANGED <<state, alive, clientVars, open, quiet>>

CallbackReturns ==
  /\ stack # << >> /\ Head(stack).call \in Handlers
  /\ stack' = Tail(stack)
  /\ UNCHANGED <<state, alive, clientVars, open, quiet>>

(* Nothing in tick() catches it: the tick that called onClose is abandoned. *)
CallbackThrows ==
  /\ stack # << >> /\ Head(stack).call \in Handlers
  /\ stack' = IF Head(stack).call = "close" THEN Tail(Tail(stack)) ELSE Tail(stack)
  /\ UNCHANGED <<state, alive, clientVars, open, quiet>>
-----------------------------------------------------------------------------
(* The methods of the extension's object, called by the application. *)
Connect    == AppRuns /\ state' = ConnectMethod(state) /\ UNCHANGED <<alive, clientVars, stack, open, quiet>>
Disconnect == AppRuns /\ state' = DisconnectMethod(state) /\ UNCHANGED <<alive, clientVars, stack, open, quiet>>

(* The last reference to the object goes away. *)
Free ==
  /\ alive /\ stack = << >>
  /\ alive' = FALSE /\ state' = FreeObject(state)
  /\ UNCHANGED <<clientVars, stack, open, quiet>>

(* The native layer takes the connection along its life cycle, to READY,   *)
(* to its loss, and back to a fresh struct; it never begins a connection.  *)
NativeMoves ==
  /\ AppRuns /\ state # "DISCONNECTED"
  /\ state' \in Allowed[state]
  /\ UNCHANGED <<alive, clientVars, stack, open, quiet>>

Later(d) == IF d > -Horizon THEN d - 1 ELSE d

TimePasses ==
  /\ \A i \in 1 .. Len(stack) : stack[i].age < MaxCallback
  /\ stack' = [i \in 1 .. Len(stack) |-> [stack[i] EXCEPT !.age = @ + 1]]
  /\ nextReconnectTime' = [i \in 1 .. Len(nextReconnectTime) |-> Later(nextReconnectTime[i])]
  /\ quiet' = IF quiet < Horizon THEN quiet + 1 ELSE quiet
  /\ UNCHANGED <<state, alive, reconnectAttempts, wasConnected, open>>

TickGoesOn == TickLost \/ TickRetry \/ TickReady \/ TickElse
CallbackEnds == CallbackReturns \/ CallbackThrows

Next == \/ Tick \/ TickGoesOn \/ CallbackEnds
        \/ Connect \/ Disconnect \/ Free \/ NativeMoves \/ TimePasses

Spec == Init /\ [][Next]_vars

(* The application runs its tick loop, every callback ends, however often  *)
(* it ticks itself, and the clock goes on.  What the native layer does and *)
(* which other calls the application makes is owed to nobody.              *)
FairSpec == /\ Spec
            /\ WF_vars(Tick) /\ WF_vars(TickGoesOn) /\ SF_vars(CallbackEnds)
            /\ WF_vars(TimePasses)
-----------------------------------------------------------------------------
(* Every variable has its type, and no retry is further off than the cap. *)
TypeOK ==
  /\ state \in State /\ alive \in BOOLEAN /\ wasConnected \in BOOLEAN
  /\ reconnectAttempts \in 0 .. maxReconnectAttempts
  /\ nextReconnectTime \in {<< >>} \cup {<<d>> : d \in -Horizon .. maxBackoffMs}
  /\ \A i \in 1 .. Len(stack) : /\ stack[i].call \in {"tick", "retry", "connect", "close"}
                                /\ stack[i].seen \in State /\ stack[i].age \in 0 .. MaxCallback
  /\ open \in Int /\ quiet \in 0 .. Horizon

(* docs/production_readiness.md:28: onConnect and onClose alternate,       *)
(* beginning with onConnect, although a callback may tick again, throw, or *)
(* find the connection in another state than the tick that called it saw   *)
(* (AsyncClient.php:70-75, 102-110).                                       *)
CallbacksAlternate ==
  Handlers = {"connect", "close"} => open = IF wasConnected THEN 1 ELSE 0

(* The delay the policy asks for, in unbounded arithmetic. *)
PolicyDelay(attempts) == IF Delay(attempts) < maxBackoffMs THEN Delay(attempts) ELSE maxBackoffMs

(* docs/production_readiness.md:29: an attempt comes no sooner after the   *)
(* attempt before it, or after the loss that was noticed, than the policy  *)
(* asks for, measured by the clock readings of the ticks that made them    *)
(* (AsyncClient.php:58-59, 81-87).                                         *)
BackoffHolds ==
  [][reconnectAttempts' > reconnectAttempts =>
       quiet - Head(stack).age >= PolicyDelay(reconnectAttempts)]_vars

(* A retry that was scheduled for an outage is not carried over into the   *)
(* next one (AsyncClient.php:105): while the connection is known to be up  *)
(* nothing is scheduled, although the tick that schedules goes by a state  *)
(* it read before onClose ran.                                             *)
ScheduleDropped == wasConnected => nextReconnectTime = << >> /\ reconnectAttempts = 0

(* The application is told in the end: about a connection that stays up,   *)
(* and about one that stays lost, whatever its callbacks throw.            *)
ToldInTheEnd ==
  Handlers = {"connect", "close"} =>
    /\ <>[](alive /\ state = "READY") => <>[](open = 1)
    /\ <>[](alive /\ state \in Lost) => <>[](open = 0)

(* The schedule never stalls: while a connection stays lost, the attempts  *)
(* go on until they are used up (AsyncClient.php:79-87).                   *)
RetriesRunOut ==
  autoReconnect /\ <>[](alive /\ state \in Lost) => <>(reconnectAttempts = maxReconnectAttempts)

(* docs/php_usage.md:99, "Automatically reconnect on transport loss": a    *)
(* lost connection that is announced is connected again.                   *)
LossRepaired ==
  autoReconnect /\ maxReconnectAttempts > 0 =>
    [](Top("close") /\ alive => <>(state = "CONNECTING" \/ ~alive))
=============================================================================
