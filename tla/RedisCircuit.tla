---------------------------- MODULE RedisCircuit ----------------------------
(***************************************************************************)
(* The circuit breaker of RedisService: executeWithCircuit around every    *)
(* operation of one process.  An operation is sent in one step and ends in *)
(* a later one; in between the circuit may open, or be probed and closed.  *)
(* Time passes in ticks.  Each command of an operation ends within         *)
(* commandTimeout, but an operation may be a loop of commands, and the     *)
(* open period may be set shorter than a command: nothing here relates     *)
(* Longest, how long an operation lasts in the model, to OpenTicks.        *)
(***************************************************************************)
EXTENDS Naturals, FiniteSets

CONSTANTS
    Caller,        \* callers of the service, each with one operation at a time
    Gated,         \* those that ask isRedisAvailable first
    Threshold,     \* REDIS_CIRCUIT_BREAKER_FAILURE_THRESHOLD
    OpenTicks,     \* REDIS_CIRCUIT_BREAKER_OPEN_MS
    Longest        \* bound: how long an operation lasts at most

VARIABLES
    circuitState,
    failures,      \* consecutiveFailures, counted up to Threshold
    openFor,       \* ticks since circuitOpenedAt, counted up to OpenTicks
    probing,       \* halfOpenProbeInFlight
    call,          \* the operation of a caller: "idle", "sent", or "probe"
    age,           \* how long it has been in flight
    healthy        \* Redis answers

circuitVars == <<circuitState, failures, openFor, probing, call, age, healthy>>

ASSUME CircuitAssumption ==
    /\ Gated \subseteq Caller /\ IsFiniteSet(Caller)
    /\ Threshold \in Nat \ {0} /\ OpenTicks \in Nat \ {0} /\ Longest \in Nat \ {0}

InFlight(c) == call[c] # "idle"

\* The open period is over.
CooledDown == openFor >= OpenTicks

\* Mutant: the half-open state lets every operation pass.
PassesAll == circuitState # "open" \/ CooledDown
\* shouldShortCircuit lets an operation pass.
Passes ==
    \/ circuitState = "closed"
    \/ circuitState = "half-open" /\ ~probing
    \/ circuitState = "open" /\ CooledDown

\* isRedisAvailable says no.
TurnedAway(c) == c \in Gated /\ circuitState = "open"

\* Mutant: the open period starts again with every operation that is skipped.
Restart == 0
\* openFor after an operation was skipped: circuitOpenedAt stays what it was.
AfterSkip == openFor

\* halfOpenProbeInFlight once an operation has passed
Flags == circuitState # "closed" \/ probing

\* executeWithCircuit up to the await.
Send(c) ==
    /\ ~InFlight(c) /\ ~TurnedAway(c)
    /\ IF Passes
       THEN /\ call' = [call EXCEPT ![c] = IF circuitState = "closed" THEN "sent" ELSE "probe"]
            /\ age' = [age EXCEPT ![c] = 0]
            /\ circuitState' = IF circuitState = "open" THEN "half-open" ELSE circuitState
            /\ probing' = Flags
            /\ UNCHANGED openFor
       ELSE /\ openFor' = AfterSkip
            /\ UNCHANGED <<circuitState, probing, call, age>>
    /\ UNCHANGED <<failures, healthy>>

\* The finally block.
Settle(c) ==
    /\ call' = [call EXCEPT ![c] = "idle"]
    /\ age' = [age EXCEPT ![c] = 0]
    /\ probing' = (probing /\ call[c] # "probe")

\* Mutant: only a probe clears the count.
KeptCount(c) == IF call[c] = "probe" THEN 0 ELSE failures
\* consecutiveFailures after a success
ClearedCount(c) == 0

\* onOperationSuccess, also of an operation sent before the circuit opened.
Succeed(c) ==
    /\ InFlight(c)
    /\ healthy
    /\ circuitState' = "closed"
    /\ failures' = ClearedCount(c)
    /\ openFor' = 0
    /\ Settle(c)
    /\ UNCHANGED healthy

\* shouldOpen
ShouldOpen(n) == circuitState = "half-open" \/ n >= Threshold

\* onOperationFailure: a failure in the half-open state opens the circuit whichever
\* operation it belongs to.
Fail(c) ==
    /\ InFlight(c)
    /\ ~healthy
    /\ failures' = IF failures < Threshold THEN failures + 1 ELSE failures
    /\ IF ShouldOpen(failures + 1)
       THEN circuitState' = "open" /\ openFor' = 0
       ELSE UNCHANGED <<circuitState, openFor>>
    /\ Settle(c)
    /\ UNCHANGED healthy

\* No operation outlasts its time.
Tick ==
    /\ \A c \in Caller : InFlight(c) => age[c] < Longest
    /\ age' = [c \in Caller |-> IF InFlight(c) THEN age[c] + 1 ELSE 0]
    /\ openFor' = IF circuitState = "closed" \/ CooledDown THEN openFor ELSE openFor + 1
    /\ UNCHANGED <<circuitState, failures, probing, call, healthy>>

\* Redis goes away and comes back.
Turn == healthy' = ~healthy /\ UNCHANGED <<circuitState, failures, openFor, probing, call, age>>

CircuitInit ==
    /\ circuitState = "closed" /\ failures = 0 /\ openFor = 0 /\ probing = FALSE
    /\ call = [c \in Caller |-> "idle"] /\ age = [c \in Caller |-> 0]
    /\ healthy \in BOOLEAN

Answer(c) == Succeed(c) \/ Fail(c)

CircuitNext ==
    \/ \E c \in Caller : Send(c) \/ Answer(c)
    \/ Tick \/ Turn

CircuitSpec == CircuitInit /\ [][CircuitNext]_circuitVars

\* Time goes on, an operation ends, and a caller that is not gated keeps calling.
FairCircuitSpec ==
    /\ CircuitSpec
    /\ WF_circuitVars(Tick)
    /\ \A c \in Caller : WF_circuitVars(Answer(c))
    /\ \A c \in Caller \ Gated : WF_circuitVars(Send(c))

-----------------------------------------------------------------------------
\* Properties

Probes == {c \in Caller : call[c] = "probe"}

\* Enough failures in a row, of whatever operations in whatever order they end, leave
\* the circuit open or being probed.
FailuresOpen == failures >= Threshold => circuitState # "closed"

\* Two durations at least an open period apart
Apart(s, t) == s >= t + OpenTicks \/ t >= s + OpenTicks

\* "Redis circuit half-open probe already in flight, operation skipped": a Redis that
\* may be down is asked by one operation per open period.  A probe may outlast the
\* period and another one start beside it, but two probes in flight have always been
\* sent a whole open period apart, whatever else ends or fails in between; and the flag
\* tells the truth: up in every half-open state, and down when there is no probe, since
\* a stale one would turn every caller away for good.
ProbesApart ==
    /\ \A c, d \in Probes : c # d => Apart(age[c], age[d])
    /\ circuitState = "half-open" => probing
    /\ probing => Probes # {}

\* A caller that finds an open circuit after its cool-down closes it again when Redis
\* is back for good.
Recovers == <>[]healthy => <>[](circuitState = "closed")
-----------------------------------------------------------------------------
\* The inductive invariant of the proofs

CircuitTypes ==
    /\ circuitState \in {"closed", "open", "half-open"}
    /\ failures \in 0 .. Threshold
    /\ openFor \in 0 .. OpenTicks
    /\ probing \in BOOLEAN
    /\ call \in [Caller -> {"idle", "sent", "probe"}]
    /\ age \in [Caller -> 0 .. Longest]
    /\ healthy \in BOOLEAN

\* A probe that outlived its half-open period has been in flight for as long as the
\* circuit has been open again.
ProbesAge == circuitState = "open" => \A c \in Probes : openFor <= age[c]

CountInv == CircuitTypes /\ FailuresOpen
CircuitInv == CountInv /\ ProbesAge /\ ProbesApart
=============================================================================
