-------------------------- MODULE BreakerContract --------------------------
(***************************************************************************)
(* What a circuit breaker promises, whichever counters it keeps: the       *)
(* three-state machine drawn in the header of pkg/circuitbreaker/breaker.go*)
(* and described by the docstring of resilience.CircuitBreaker.  Both      *)
(* implementations are shown to refine it.                                 *)
(*                                                                         *)
(*   - the circuit trips only after Threshold failures since it was last   *)
(*     closed, and a failure reported in a trial always ends the trial;    *)
(*   - a trial starts only when the circuit has rested (no failure for the *)
(*     reset timeout) and lets at most MaxTrial calls through;             *)
(*   - the circuit closes when a trial succeeds, or by hand: an open circuit *)
(*     never closes by itself.                                             *)
(***************************************************************************)
EXTENDS Integers

CONSTANTS Threshold, MaxTrial

VARIABLES
  mode,     \* "closed", "open" or "half_open"
  fails,    \* failures reported since the circuit was last closed
  trial,    \* calls let through by the current trial
  rested,   \* the reset timeout has passed since the last failure
  resets    \* how often the circuit was closed by hand

cvars == <<mode, fails, trial, rested, resets>>

Init ==
  /\ mode = "closed" /\ fails = 0 /\ trial = 0 /\ rested = TRUE /\ resets = 0

\* A failure that leaves the circuit as it is.
Note ==
  /\ mode \in {"closed", "open"}
  /\ fails' = fails + 1 /\ rested' = FALSE
  /\ UNCHANGED <<mode, trial, resets>>

\* A failure that opens the circuit, from normal operation or from a trial.
Trip ==
  /\ mode \in {"closed", "half_open"}
  /\ fails + 1 >= Threshold
  /\ mode' = "open" /\ fails' = fails + 1 /\ trial' = 0 /\ rested' = FALSE
  /\ UNCHANGED resets

StartTrial ==
  /\ mode = "open" /\ rested
  /\ mode' = "half_open" /\ trial' = 1
  /\ UNCHANGED <<fails, rested, resets>>

Probe ==
  /\ mode = "half_open" /\ trial < MaxTrial
  /\ trial' = trial + 1
  /\ UNCHANGED <<mode, fails, rested, resets>>

Recover ==
  /\ mode = "half_open"
  /\ mode' = "closed" /\ fails' = 0 /\ trial' = 0
  /\ UNCHANGED <<rested, resets>>

CloseByHand ==
  /\ mode' = "closed" /\ fails' = 0 /\ trial' = 0 /\ resets' = resets + 1
  /\ UNCHANGED rested

Rest ==
  /\ rested' = TRUE
  /\ UNCHANGED <<mode, fails, trial, resets>>

Next == Note \/ Trip \/ StartTrial \/ Probe \/ Recover \/ CloseByHand \/ Rest

Spec == Init /\ [][Next]_cvars
=============================================================================
