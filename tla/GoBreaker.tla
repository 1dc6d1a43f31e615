----------------------------- MODULE GoBreaker -----------------------------
(***************************************************************************)
(* pkg/circuitbreaker.Breaker: goroutines run Execute concurrently.        *)
(* beforeRequest, afterRequest and Reset change the state under b.mu, then *)
(* release it and call notify, which reads and clears b.pending without    *)
(* the lock.  notify is therefore three kinds of steps here: taking the    *)
(* pending changes, clearing the list, and each call of the observer.      *)
(***************************************************************************)
EXTENDS Integers, FiniteSets

CONSTANTS
  Calls,              \* the calls of Execute ever made, each once
  Operators,          \* the calls of Reset ever made, each once
  FailureThreshold,   \* cfg.FailureThreshold, after New's defaulting
  HalfOpenMaxCalls    \* cfg.HalfOpenMaxCalls, after New's defaulting

ASSUME ThresholdAssumption == FailureThreshold \in Nat \ {0}
ASSUME HalfOpenAssumption  == HalfOpenMaxCalls \in Nat \ {0}
ASSUME DisjointAssumption  == Calls \cap Operators = {}

VARIABLES
  state,           \* b.state
  failures,        \* b.failures
  halfOpenCalls,   \* b.halfOpenCalls
  rested,          \* RecoveryTimeout has passed since b.lastFailureTime
  pending,         \* len(b.pending)
  pc,              \* where each goroutine is
  mine,            \* how many changes each goroutine has yet to deliver
  trial,           \* history: calls let through in the current half-open period
  fails,           \* history: failures recorded since the circuit was last closed
  resets,          \* history: calls of Reset
  copied,          \* history: how many of b.pending some goroutine took
  missed           \* history: a change was dropped from b.pending that none took

core == <<state, failures, halfOpenCalls, rested, trial, fails, resets>>
vars == <<core, pending, pc, mine, copied, missed>>

States == {"CLOSED", "OPEN", "HALF_OPEN"}

Goroutines == Calls \cup Operators

\* After its locked section a goroutine takes, clears and delivers, and then runs
\* the function, returns ErrCircuitOpen, or returns.
Stages == {"take", "clear", "deliver"}
Goals  == {"none", "running", "rejected", "returned"}

At(stage, goal) == [stage |-> stage, goal |-> goal]

\* c was let through, has left notify and is running the protected function.
InFunction(c) == pc[c] = At("settled", "running")

Init ==
  /\ state = "CLOSED" /\ failures = 0 /\ halfOpenCalls = 0
  /\ rested = TRUE   \* lastFailureTime is the zero time
  /\ pending = 0
  /\ pc = [g \in Goroutines |-> At("idle", "none")]
  /\ mine = [g \in Goroutines |-> 0]
  /\ trial = {} /\ fails = 0 /\ resets = 0 /\ copied = 0 /\ missed = FALSE

-----------------------------------------------------------------------------

\* transitionTo under the lock: the change is queued for the observer.
TransitionTo(s) ==
  /\ state' = s
  /\ pending' = pending + 1

StaysPut == UNCHANGED <<state, pending>>

\* End of a locked section of g, which goes on to notify.
ThenNotify(g, goal) == pc' = [pc EXCEPT ![g] = At("take", goal)] /\ UNCHANGED <<mine, copied, missed>>

\* beforeRequest lets the call through.
BeforeRequest(c) ==
  /\ pc[c] = At("idle", "none")
  /\ \/ state = "CLOSED" /\ StaysPut /\ UNCHANGED <<halfOpenCalls, trial>>
     \/ /\ state = "OPEN" /\ rested
        /\ TransitionTo("HALF_OPEN") /\ halfOpenCalls' = 1 /\ trial' = {c}
     \/ /\ state = "HALF_OPEN" /\ halfOpenCalls < HalfOpenMaxCalls
        /\ halfOpenCalls' = halfOpenCalls + 1 /\ trial' = trial \cup {c} /\ StaysPut
  /\ ThenNotify(c, "running")
  /\ UNCHANGED <<failures, rested, fails, resets>>

\* beforeRequest returns ErrCircuitOpen, having called notify all the same.
Reject(c) ==
  /\ pc[c] = At("idle", "none")
  /\ \/ state = "OPEN" /\ ~ rested
     \/ state = "HALF_OPEN" /\ halfOpenCalls >= HalfOpenMaxCalls
  /\ ThenNotify(c, "rejected")
  /\ UNCHANGED <<core, pending>>

\* Plausible bug: a success during a trial clears the count but leaves it open.
SucceedStayingOpen(c) ==
  /\ InFunction(c)
  /\ failures' = 0
  /\ StaysPut
  /\ ThenNotify(c, "returned")
  /\ UNCHANGED <<halfOpenCalls, rested, resets, trial, fails>>

\* Plausible bug: any success closes the circuit, also one of a call let through
\* before it opened.
SucceedAlwaysCloses(c) ==
  /\ InFunction(c)
  /\ failures' = 0
  /\ IF state # "CLOSED"
     THEN TransitionTo("CLOSED") /\ trial' = {} /\ fails' = 0
     ELSE StaysPut /\ UNCHANGED <<trial, fails>>
  /\ ThenNotify(c, "returned")
  /\ UNCHANGED <<halfOpenCalls, rested, resets>>

\* afterRequest(nil).
Succeed(c) ==
  /\ InFunction(c)
  /\ failures' = 0
  /\ IF state = "HALF_OPEN"
     THEN TransitionTo("CLOSED") /\ trial' = {} /\ fails' = 0
     ELSE StaysPut /\ UNCHANGED <<trial, fails>>
  /\ ThenNotify(c, "returned")
  /\ UNCHANGED <<halfOpenCalls, rested, resets>>

\* afterRequest(err).
Fail(c) ==
  /\ InFunction(c)
  /\ failures' = failures + 1 /\ fails' = fails + 1 /\ rested' = FALSE
  /\ IF (state = "CLOSED" /\ failures' >= FailureThreshold) \/ state = "HALF_OPEN"
     THEN TransitionTo("OPEN") /\ trial' = {}
     ELSE StaysPut /\ UNCHANGED trial
  /\ ThenNotify(c, "returned")
  /\ UNCHANGED <<halfOpenCalls, resets>>

\* The function panics: afterRequest is not deferred, so it never runs.
Panic(c) ==
  /\ InFunction(c)
  /\ pc' = [pc EXCEPT ![c] = At("panicked", "none")]
  /\ UNCHANGED <<core, pending, mine, copied, missed>>

Reset(o) ==
  /\ pc[o] = At("idle", "none")
  /\ failures' = 0 /\ halfOpenCalls' = 0
  /\ IF state # "CLOSED" THEN TransitionTo("CLOSED") ELSE StaysPut
  /\ trial' = {} /\ fails' = 0 /\ resets' = resets + 1
  /\ ThenNotify(o, "returned")
  /\ UNCHANGED rested

RecoveryTimeoutElapses ==
  /\ ~ rested
  /\ rested' = TRUE
  /\ UNCHANGED <<state, failures, halfOpenCalls, trial, fails, resets,
                 pending, pc, mine, copied, missed>>

-----------------------------------------------------------------------------
(* notify, without the lock.                                               *)

\* The length check and the copy of the slice.
Take(g) ==
  /\ pc[g].stage = "take"
  /\ mine' = [mine EXCEPT ![g] = pending]
  /\ copied' = pending
  /\ pc' = [pc EXCEPT ![g].stage = "clear"]
  /\ UNCHANGED <<core, pending, missed>>

\* b.pending = nil, on both paths.
Clear(g) ==
  /\ pc[g].stage = "clear"
  /\ pending' = 0 /\ copied' = 0
  /\ missed' = (missed \/ copied < pending)
  /\ pc' = [pc EXCEPT ![g].stage = IF mine[g] = 0 THEN "settled" ELSE "deliver"]
  /\ UNCHANGED <<core, mine>>

\* One call of OnStateChange.
Deliver(g) ==
  /\ pc[g].stage = "deliver"
  /\ mine' = [mine EXCEPT ![g] = @ - 1]
  /\ pc' = [pc EXCEPT ![g].stage = IF mine[g] = 1 THEN "settled" ELSE "deliver"]
  /\ UNCHANGED <<core, pending, copied, missed>>

Notify(g) == Take(g) \/ Clear(g) \/ Deliver(g)

End(c) == Succeed(c) \/ Fail(c) \/ Panic(c)

Next ==
  \/ \E c \in Calls : BeforeRequest(c) \/ Reject(c) \/ End(c)
  \/ \E o \in Operators : Reset(o)
  \/ \E g \in Goroutines : Notify(g)
  \/ RecoveryTimeoutElapses

Spec == Init /\ [][Next]_vars

\* Goroutines are scheduled, the protected functions end, the observer returns.
FairSpec ==
  /\ Spec
  /\ \A c \in Calls : WF_vars(End(c))
  /\ \A g \in Goroutines : WF_vars(Notify(g))

-----------------------------------------------------------------------------

TypeOK ==
  /\ state \in States
  /\ failures \in Nat /\ fails \in Nat /\ resets \in Nat
  /\ halfOpenCalls \in 0..HalfOpenMaxCalls
  /\ rested \in BOOLEAN
  /\ pending \in Nat /\ copied \in 0..pending /\ missed \in BOOLEAN
  /\ mine \in [Goroutines -> Nat]
  /\ trial \subseteq Calls
  /\ pc \in [Goroutines -> [stage : Stages \cup {"idle", "settled", "panicked"}, goal : Goals]]

\* The breaker keeps the promises of its state machine, with the calls actually let
\* through as the trial.  A success that arrives while the circuit is open clears
\* b.failures, so the count says nothing of a trial: only the HALF_OPEN case of
\* afterRequest makes its failed probe reopen the circuit.
Mode == CASE state = "CLOSED" -> "closed"
          [] state = "OPEN" -> "open"
          [] OTHER -> "half_open"

Contract ==
  INSTANCE BreakerContract WITH
    Threshold <- FailureThreshold, MaxTrial <- HalfOpenMaxCalls,
    mode <- Mode, fails <- fails, trial <- Cardinality(trial),
    rested <- rested, resets <- resets

ImplementsContract == Contract!Spec

\* A half-open period ends, unless one of the calls it let through panicked.
TrialResolves ==
  state = "HALF_OPEN" ~>
    (state # "HALF_OPEN" \/ \E c \in trial : pc[c].stage = "panicked")

\* The observer is told of every change: none leaves b.pending before a goroutine has
\* taken it.  It does not hold: a change queued between another goroutine's Take and
\* Clear is dropped.
EveryChangeHeard == ~ missed
=============================================================================
