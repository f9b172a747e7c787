---------------------------- MODULE CircuitBreaker ----------------------------
(***************************************************************************)
(* The closed / open / half-open breaker of src/src/circuit-breaker.js.     *)
(*                                                                         *)
(* JavaScript runs one turn at a time, so each action is one turn: either   *)
(* the synchronous part of call(fn) up to `await fn()`, or the continuation *)
(* after fn settles.  Between the two any other call may run.  A call       *)
(* remembers only which of the two try blocks it is awaiting in.            *)
(*                                                                         *)
(* Date.now() - lastFailureTime is only ever compared with `timeout`, so    *)
(* the model keeps that difference, saturated at Timeout, in `elapsed`.     *)
(***************************************************************************)
EXTENDS Integers, FiniteSets

CONSTANTS
    Calls,        \* concurrent invocations of call(fn)
    Threshold,    \* options.threshold
    Timeout,      \* options.timeout, in ticks
    HalfOpenMax,  \* options.halfOpenMax
    MaxDrift      \* bound: how far below 0 halfOpenActive is followed

ASSUME BreakerAssumption ==
    /\ IsFiniteSet(Calls)
    /\ Threshold \in Nat \ {0}
    /\ Timeout \in Nat
    /\ HalfOpenMax \in Nat \ {0}
    /\ MaxDrift \in Nat

VARIABLES
    state,            \* "closed", "open" or "half-open"
    failureCount,
    elapsed,          \* ticks since lastFailureTime, saturated at Timeout
    halfOpenActive,
    awaiting          \* call -> "idle", "closed" or "probe": where it awaits fn()

breakerVars == <<state, failureCount, elapsed, halfOpenActive, awaiting>>

Probes == {c \in Calls : awaiting[c] = "probe"}

BreakerInit ==
    /\ state = "closed"
    /\ failureCount = 0
    /\ elapsed = Timeout        \* lastFailureTime = 0, the epoch
    /\ halfOpenActive = 0
    /\ awaiting = [c \in Calls |-> "idle"]

-----------------------------------------------------------------------------
\* trip(): a no-op when already open, otherwise open and stamp the time.
trip ==
    /\ state' = "open"
    /\ elapsed' = IF state = "open" THEN elapsed ELSE 0

\* reset(): clear both counters and close.
reset ==
    /\ failureCount' = 0
    /\ halfOpenActive' = 0
    /\ state' = "closed"
    /\ UNCHANGED elapsed

\* The guard of tryHalfOpen().
MayProbe ==
    /\ state = "open"
    /\ elapsed >= Timeout
    /\ halfOpenActive < HalfOpenMax

-----------------------------------------------------------------------------
\* call(fn) in the closed state: start fn.
CallClosed(c) ==
    /\ awaiting[c] = "idle"
    /\ state = "closed"
    /\ awaiting' = [awaiting EXCEPT ![c] = "closed"]
    /\ UNCHANGED <<state, failureCount, elapsed, halfOpenActive>>

\* call(fn) in the open state, tryHalfOpen() refuses: CircuitOpenError.
CallRejected(c) ==
    /\ awaiting[c] = "idle"
    /\ state = "open"
    /\ ~MayProbe
    /\ UNCHANGED breakerVars

\* call(fn) in the open state, tryHalfOpen() accepts: the first probe.
CallProbe(c) ==
    /\ awaiting[c] = "idle"
    /\ MayProbe
    /\ state' = "half-open"
    /\ halfOpenActive' = halfOpenActive + 1
    /\ awaiting' = [awaiting EXCEPT ![c] = "probe"]
    /\ UNCHANGED <<failureCount, elapsed>>

\* call(fn) in the half-open state: neither `if` applies, fn is started
\* without consulting or changing halfOpenActive.
CallHalfOpen(c) ==
    /\ awaiting[c] = "idle"
    /\ state = "half-open"
    /\ awaiting' = [awaiting EXCEPT ![c] = "probe"]
    /\ UNCHANGED <<state, failureCount, elapsed, halfOpenActive>>

-----------------------------------------------------------------------------
\* Mutant: a success pays back one failure instead of clearing the count.
ClosedOkDecays(c) ==
    /\ awaiting[c] = "closed"
    /\ failureCount' = failureCount - 1
    /\ awaiting' = [awaiting EXCEPT ![c] = "idle"]
    /\ UNCHANGED <<state, elapsed, halfOpenActive>>

\* fn resolves for a call that started in the closed state.
ClosedOk(c) ==
    /\ awaiting[c] = "closed"
    /\ failureCount' = 0
    /\ awaiting' = [awaiting EXCEPT ![c] = "idle"]
    /\ UNCHANGED <<state, elapsed, halfOpenActive>>

\* Mutant: the threshold comparison is off by one.
ClosedFailLate(c, counts) ==
    /\ awaiting[c] = "closed"
    /\ awaiting' = [awaiting EXCEPT ![c] = "idle"]
    /\ failureCount' = IF counts THEN failureCount + 1 ELSE failureCount
    /\ IF counts /\ failureCount' > Threshold
       THEN trip
       ELSE UNCHANGED <<state, elapsed>>
    /\ UNCHANGED halfOpenActive

\* fn rejects for a call that started in the closed state; counts is what
\* isFailure(err) answers.
ClosedFail(c, counts) ==
    /\ awaiting[c] = "closed"
    /\ awaiting' = [awaiting EXCEPT ![c] = "idle"]
    /\ failureCount' = IF counts THEN failureCount + 1 ELSE failureCount
    /\ IF counts /\ failureCount' >= Threshold
       THEN trip
       ELSE UNCHANGED <<state, elapsed>>
    /\ UNCHANGED halfOpenActive

\* fn resolves for a probe.
ProbeOk(c) ==
    /\ awaiting[c] = "probe"
    /\ awaiting' = [awaiting EXCEPT ![c] = "idle"]
    /\ reset

\* Mutant: the failed probe is not given back.
ProbeFailLeaks(c, counts) ==
    /\ awaiting[c] = "probe"
    /\ awaiting' = [awaiting EXCEPT ![c] = "idle"]
    /\ trip
    /\ UNCHANGED <<failureCount, halfOpenActive>>

\* fn rejects for a probe.  isFailure is not consulted on this path, so
\* counts is unused.  A probe that CallHalfOpen admitted was never counted, so
\* every such failure moves halfOpenActive one further below 0: MaxDrift bounds
\* how far the model follows it.
ProbeFail(c, counts) ==
    /\ awaiting[c] = "probe"
    /\ halfOpenActive > -MaxDrift
    /\ awaiting' = [awaiting EXCEPT ![c] = "idle"]
    /\ halfOpenActive' = halfOpenActive - 1
    /\ trip
    /\ UNCHANGED failureCount

-----------------------------------------------------------------------------
\* The breaker's public trip() and reset().
ManualTrip ==
    /\ trip
    /\ UNCHANGED <<failureCount, halfOpenActive, awaiting>>

ManualReset ==
    /\ reset
    /\ UNCHANGED awaiting

Tick ==
    /\ elapsed < Timeout
    /\ elapsed' = elapsed + 1
    /\ UNCHANGED <<state, failureCount, halfOpenActive, awaiting>>

BreakerNext ==
    \/ \E c \in Calls :
        \/ CallClosed(c) \/ CallRejected(c) \/ CallProbe(c) \/ CallHalfOpen(c)
        \/ ClosedOk(c) \/ ProbeOk(c)
        \/ \E counts \in BOOLEAN : ClosedFail(c, counts) \/ ProbeFail(c, counts)
    \/ ManualTrip \/ ManualReset \/ Tick

BreakerSpec == BreakerInit /\ [][BreakerNext]_breakerVars

-----------------------------------------------------------------------------
\* The types of the five pieces of breaker state.
BreakerTypeOK ==
    /\ state \in {"closed", "open", "half-open"}
    /\ failureCount \in Nat
    /\ elapsed \in 0..Timeout
    /\ halfOpenActive \in Int
    /\ awaiting \in [Calls -> {"idle", "closed", "probe"}]

(* A closed breaker has always seen fewer than `threshold` failures since   *)
(* the last success or reset, whatever late results of calls from earlier   *)
(* closed periods arrive (circuit-breaker.js:97-108 against reset, 57-66).  *)
ClosedBelowThreshold == state = "closed" => failureCount < Threshold

(* halfOpenActive never exceeds the probes really in flight, so an open     *)
(* breaker whose probes have all settled admits the next call after the     *)
(* timeout: concurrent probes, manual trips and resets cannot wedge it open *)
(* (circuit-breaker.js:71 against 79, 59 and 124).                          *)
ProbeAccounting == halfOpenActive <= Cardinality(Probes)

(* The doc of options.halfOpenMax (circuit-breaker.js:23): "Max concurrent  *)
(* requests in half-open state".                                            *)
HalfOpenLimit == state = "half-open" => Cardinality(Probes) <= HalfOpenMax

(* The doc of options.isFailure (circuit-breaker.js:27): "Custom failure    *)
(* detection (default: any thrown error)": an error it does not count as a  *)
(* failure does not open the circuit.                                       *)
NonFailureNeverTrips ==
    [][\A c \in Calls :
          ClosedFail(c, FALSE) \/ ProbeFail(c, FALSE)
            => (state' = "open" => state = "open")]_breakerVars
=============================================================================
