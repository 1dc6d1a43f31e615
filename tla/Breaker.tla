------------------------------ MODULE Breaker ------------------------------
(***************************************************************************)
(* The circuit breaker of python/src/resolveagent/resilience.py as         *)
(* operators on its state.  Every critical section of the class runs under *)
(* an asyncio.Lock and awaits nothing inside, so each is one atomic        *)
(* function of the state; CircuitBreaker.tla runs them for one breaker     *)
(* with concurrent calls, ResilientSelector.tla for one breaker per route. *)
(*                                                                         *)
(* Time is abstracted to the one question the code asks of the clock:      *)
(* `rested` says that reset_timeout has passed since the last failure.     *)
(***************************************************************************)
EXTENDS Integers

CONSTANTS
  FailureThreshold,   \* failure_threshold
  HalfOpenMaxCalls    \* half_open_max_calls

ASSUME ThresholdAssumption == FailureThreshold \in Nat \ {0}
ASSUME HalfOpenAssumption  == HalfOpenMaxCalls \in Nat \ {0}

CircuitState == {"closed", "open", "half_open"}

\* The fields of the dataclass; _last_failure_time is `rested`.
BreakerRecord ==
  [state : CircuitState, failures : Nat, probes : Nat, rested : BOOLEAN]

\* A breaker is built closed with zeroed counters.  _last_failure_time is 0.0,
\* long before now, so the reset timeout has passed since "the last failure".
NewBreaker == [state |-> "closed", failures |-> 0, probes |-> 0, rested |-> TRUE]

-----------------------------------------------------------------------------
(* The locked section that opens call(): does this call go through?        *)

\* OPEN and _should_attempt_reset(): the section first moves to half-open.
StartsTrial(b) == b.state = "open" /\ b.rested

\* A plausible bug: one call too many in a trial.
AdmitsOneMore(b) ==
  \/ b.state = "closed"
  \/ StartsTrial(b)
  \/ b.state = "half_open" /\ b.probes <= HalfOpenMaxCalls

Admits(b) ==
  \/ b.state = "closed"
  \/ StartsTrial(b)
  \/ b.state = "half_open" /\ b.probes < HalfOpenMaxCalls

\* The breaker after letting a call through.
Admitted(b) ==
  IF b.state = "closed" THEN b
  ELSE [b EXCEPT !.state  = "half_open",
                 !.probes = (IF b.state = "open" THEN 0 ELSE @) + 1]

-----------------------------------------------------------------------------
(* _on_success, _on_failure and reset.                                     *)

\* A plausible bug: any success decays the count, also one that arrives while the circuit is open.
AfterSuccessDecaysAlways(b) ==
  IF b.state = "half_open" THEN [b EXCEPT !.state = "closed", !.failures = 0]
  ELSE [b EXCEPT !.failures = IF @ = 0 THEN 0 ELSE @ - 1]

AfterSuccess(b) ==
  CASE b.state = "half_open" -> [b EXCEPT !.state = "closed", !.failures = 0]
    [] b.state = "closed"    -> [b EXCEPT !.failures = IF @ = 0 THEN 0 ELSE @ - 1]
    [] OTHER                 -> b

\* A plausible bug: the circuit opens one failure too late.
AfterFailureOffByOne(b) ==
  LET count == b.failures + 1
  IN  [b EXCEPT !.failures = count,
                !.rested   = FALSE,
                !.state    = IF count > FailureThreshold THEN "open" ELSE @]

AfterFailure(b) ==
  LET count == b.failures + 1
  IN  [b EXCEPT !.failures = count,
                !.rested   = FALSE,
                !.state    = IF count >= FailureThreshold THEN "open" ELSE @]

AfterReset(b) == [b EXCEPT !.state = "closed", !.failures = 0, !.probes = 0]

AfterTimeout(b) == [b EXCEPT !.rested = TRUE]
=============================================================================
