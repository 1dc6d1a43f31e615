--------------------------- MODULE CircuitBreaker ---------------------------
(***************************************************************************)
(* One resilience.CircuitBreaker with concurrent calls.  call() decides    *)
(* under the lock whether the call goes through, releases the lock, awaits *)
(* the protected function, and takes the lock again to report the outcome: *)
(* between the two, any other call may enter, end, trip or close the       *)
(* circuit, and the late outcome is applied to whatever state it finds.    *)
(* A cancelled call (asyncio.CancelledError is a BaseException, the code   *)
(* catches Exception) reports nothing at all.                              *)
(***************************************************************************)
EXTENDS Breaker, FiniteSets

CONSTANTS
  Calls,        \* the calls ever made to the breaker, each once
  ResetBound    \* bound on manual resets

ASSUME ResetBoundAssumption == ResetBound \in Nat

VARIABLES
  breaker,   \* the breaker's fields
  call,      \* where each call is
  trial,     \* history: calls let through in the current half-open period
  fails,     \* history: failures reported since the circuit was last closed
  resets     \* history: manual resets

breakerVars == <<breaker, call, trial, fails, resets>>

Status == {"idle", "running", "succeeded", "failed", "cancelled", "rejected"}

BreakerInit ==
  /\ breaker = NewBreaker
  /\ call = [c \in Calls |-> "idle"]
  /\ trial = {}
  /\ fails = 0
  /\ resets = 0

-----------------------------------------------------------------------------

\* The locked section lets the call through to the protected function.
LetThrough(c) ==
  /\ call[c] = "idle"
  /\ Admits(breaker)
  /\ breaker' = Admitted(breaker)
  /\ call' = [call EXCEPT ![c] = "running"]
  /\ trial' = IF breaker'.state = "closed" THEN {}
              ELSE (IF breaker.state = "open" THEN {} ELSE trial) \cup {c}
  /\ UNCHANGED <<fails, resets>>

\* The locked section raises CircuitOpenError.
FailFast(c) ==
  /\ call[c] = "idle"
  /\ ~ Admits(breaker)
  /\ call' = [call EXCEPT ![c] = "rejected"]
  /\ UNCHANGED <<breaker, trial, fails, resets>>

\* The function returned: _on_success.
Succeed(c) ==
  /\ call[c] = "running"
  /\ breaker' = AfterSuccess(breaker)
  /\ call' = [call EXCEPT ![c] = "succeeded"]
  /\ trial' = IF breaker.state = "half_open" THEN {} ELSE trial
  /\ fails' = IF breaker.state = "half_open" THEN 0 ELSE fails
  /\ UNCHANGED resets

\* A failure forgotten when the circuit is in a trial.
FailUnreported(c) ==
  /\ call[c] = "running"
  /\ breaker' = IF breaker.state = "half_open" THEN breaker ELSE AfterFailure(breaker)
  /\ call' = [call EXCEPT ![c] = "failed"]
  /\ trial' = IF breaker'.state = "half_open" THEN trial ELSE {}
  /\ fails' = fails + 1
  /\ UNCHANGED resets

\* The function raised an Exception: _on_failure, then the exception is re-raised.
Fail(c) ==
  /\ call[c] = "running"
  /\ breaker' = AfterFailure(breaker)
  /\ call' = [call EXCEPT ![c] = "failed"]
  /\ trial' = IF breaker'.state = "half_open" THEN trial ELSE {}
  /\ fails' = fails + 1
  /\ UNCHANGED resets

\* The task running the call is cancelled while it awaits the function.
Cancel(c) ==
  /\ call[c] = "running"
  /\ call' = [call EXCEPT ![c] = "cancelled"]
  /\ UNCHANGED <<breaker, trial, fails, resets>>

\* reset(), which takes no lock and awaits nothing.
Reset ==
  /\ resets < ResetBound
  /\ breaker' = AfterReset(breaker)
  /\ trial' = {}
  /\ fails' = 0
  /\ resets' = resets + 1
  /\ UNCHANGED call

\* The clock passes reset_timeout after the last failure.
BreakerRests ==
  /\ ~ breaker.rested
  /\ breaker' = AfterTimeout(breaker)
  /\ UNCHANGED <<call, trial, fails, resets>>

CallEnds(c) == Succeed(c) \/ Fail(c) \/ Cancel(c)

BreakerNext ==
  \/ \E c \in Calls : LetThrough(c) \/ FailFast(c) \/ CallEnds(c)
  \/ Reset
  \/ BreakerRests

BreakerSpec == BreakerInit /\ [][BreakerNext]_breakerVars

\* The event loop runs every task: a call that went through ends one way or another.
FairSpec == BreakerSpec /\ \A c \in Calls : WF_breakerVars(CallEnds(c))

-----------------------------------------------------------------------------

BreakerTypeOK ==
  /\ breaker \in BreakerRecord
  /\ call \in [Calls -> Status]
  /\ trial \subseteq Calls
  /\ fails \in Nat
  /\ resets \in Nat

\* The circuit is away from closed exactly when the failure count has reached the
\* threshold.  _on_failure never looks at the state, so this is all that makes a
\* failed probe reopen the circuit, however many stale successes and failures of
\* calls admitted earlier were applied in between.
TrippedAtThreshold ==
  breaker.state = "closed" <=> breaker.failures < FailureThreshold

\* The breaker keeps the promises of the three-state machine, with the calls
\* actually let through as the trial: the counter half_open_calls, which is left
\* stale whenever the circuit closes, never lets one call too many through.
Contract ==
  INSTANCE BreakerContract WITH
    Threshold <- FailureThreshold, MaxTrial <- HalfOpenMaxCalls,
    mode <- breaker.state, fails <- fails, trial <- Cardinality(trial),
    rested <- breaker.rested, resets <- resets

ImplementsContract == Contract!Spec

\* A half-open period ends, unless one of the calls it let through was cancelled.
TrialResolves ==
  breaker.state = "half_open" ~>
    (breaker.state # "half_open" \/ \E c \in trial : call[c] = "cancelled")
=============================================================================
