-------------------------- MODULE ResilienceProofs --------------------------
(***************************************************************************)
(* Theorems of CircuitBreaker, for any number of calls, any threshold and  *)
(* any limit of calls in a trial: BreakerTypeOK, TrippedAtThreshold and    *)
(* the refinement of BreakerContract.  TrialResolves needs fairness and is *)
(* model-checked only.                                                     *)
(*                                                                         *)
(* Theorems of ResilientSelector, which keeps one such breaker per route,  *)
(* for any set of clients, any priority list, any number of retries and    *)
(* clarifications and any threshold: TypeOK, NoRouteTwice, LastResort,     *)
(* LateCallsBounded and FailingRouteIsShielded.                            *)
(***************************************************************************)
EXTENDS CircuitBreaker, ResilientSelector, FiniteSetTheorems, TLAPS

-----------------------------------------------------------------------------
(* The breaker record: what every operation on one preserves.              *)

\* The circuit is away from closed exactly when the count has reached the threshold.
Tripped(b) == b.state = "closed" <=> b.failures < FailureThreshold

\* Every locked section of resilience.CircuitBreaker turns a breaker into a breaker.
LEMMA BreakerTyped ==
  ASSUME NEW b \in BreakerRecord
  PROVE  /\ NewBreaker \in BreakerRecord
         /\ Admitted(b) \in BreakerRecord
         /\ AfterSuccess(b) \in BreakerRecord
         /\ AfterFailure(b) \in BreakerRecord
         /\ AfterReset(b) \in BreakerRecord
         /\ AfterTimeout(b) \in BreakerRecord
<1>1. NewBreaker \in BreakerRecord
  BY DEF NewBreaker, BreakerRecord, CircuitState
<1>2. Admitted(b) \in BreakerRecord
  <2> DEFINE n == (IF b.state = "open" THEN 0 ELSE b.probes) + 1
  <2>1. n \in Nat
    BY DEF BreakerRecord
  <2>2. [b EXCEPT !.state = "half_open", !.probes = n] \in BreakerRecord
    <3> HIDE DEF n
    <3> QED BY <2>1 DEF BreakerRecord, CircuitState
  <2> QED BY <2>2 DEF Admitted
<1>3. AfterSuccess(b) \in BreakerRecord
  <2>1. CASE b.state = "half_open"
    BY <2>1 DEF AfterSuccess, BreakerRecord, CircuitState
  <2>2. CASE b.state = "closed"
    <3>1. AfterSuccess(b) = [b EXCEPT !.failures = IF @ = 0 THEN 0 ELSE @ - 1]
      BY <2>2 DEF AfterSuccess
    <3> QED BY <3>1 DEF BreakerRecord
  <2>3. CASE b.state = "open"
    BY <2>3 DEF AfterSuccess
  <2> QED BY <2>1, <2>2, <2>3 DEF BreakerRecord, CircuitState
<1>4. AfterFailure(b) \in BreakerRecord
  <2> DEFINE s == IF b.failures + 1 >= FailureThreshold THEN "open" ELSE b.state
  <2>1. s \in CircuitState /\ b.failures + 1 \in Nat
    BY DEF BreakerRecord, CircuitState
  <2>2. [b EXCEPT !.failures = b.failures + 1, !.rested = FALSE, !.state = s]
          \in BreakerRecord
    <3> HIDE DEF s
    <3> QED BY <2>1 DEF BreakerRecord
  <2> QED BY <2>2 DEF AfterFailure
<1>5. AfterReset(b) \in BreakerRecord /\ AfterTimeout(b) \in BreakerRecord
  BY DEF AfterReset, AfterTimeout, BreakerRecord, CircuitState
<1> QED BY <1>1, <1>2, <1>3, <1>4, <1>5

\* A new breaker is tripped by nothing, and no operation separates the state from
\* the count: admissions never move a closed circuit, a success lowers the count of
\* a closed circuit only, and a failure opens it exactly at the threshold.
LEMMA BreakerTripped ==
  ASSUME NEW b \in BreakerRecord, Tripped(b)
  PROVE  /\ Tripped(NewBreaker)
         /\ Admits(b) => Tripped(Admitted(b))
         /\ Tripped(AfterSuccess(b))
         /\ Tripped(AfterFailure(b))
         /\ Tripped(AfterReset(b))
         /\ Tripped(AfterTimeout(b))
<1> USE ThresholdAssumption
<1>1. Tripped(NewBreaker)
  BY DEF NewBreaker, Tripped
<1>2. Admits(b) => Tripped(Admitted(b))
  BY DEF Admits, StartsTrial, Admitted, Tripped, BreakerRecord, CircuitState
<1>3. Tripped(AfterSuccess(b))
  BY DEF AfterSuccess, Tripped, BreakerRecord, CircuitState
<1>4. Tripped(AfterFailure(b))
  BY DEF AfterFailure, Tripped, BreakerRecord, CircuitState
<1>5. Tripped(AfterReset(b)) /\ Tripped(AfterTimeout(b))
  BY DEF AfterReset, AfterTimeout, Tripped, BreakerRecord, CircuitState
<1> QED BY <1>1, <1>2, <1>3, <1>4, <1>5

-----------------------------------------------------------------------------
(* Types                                                                   *)

LEMMA BreakerTypeInit == BreakerInit => BreakerTypeOK
  BY BreakerTyped DEF BreakerInit, BreakerTypeOK, Status, NewBreaker, BreakerRecord, CircuitState

LEMMA BreakerTypeNext == BreakerTypeOK /\ [BreakerNext]_breakerVars => BreakerTypeOK'
<1> SUFFICES ASSUME BreakerTypeOK, [BreakerNext]_breakerVars PROVE BreakerTypeOK'
  OBVIOUS
<1> USE DEF BreakerTypeOK, Status
<1>1. CASE UNCHANGED breakerVars
  BY <1>1 DEF breakerVars
<1>2. ASSUME NEW c \in Calls, LetThrough(c) PROVE BreakerTypeOK'
  <2>1. breaker' \in BreakerRecord
    BY <1>2, BreakerTyped DEF LetThrough
  <2>2. trial' \subseteq Calls
    BY <1>2 DEF LetThrough
  <2> QED BY <1>2, <2>1, <2>2 DEF LetThrough
<1>3. ASSUME NEW c \in Calls, FailFast(c) PROVE BreakerTypeOK'
  BY <1>3 DEF FailFast
<1>4. ASSUME NEW c \in Calls, Succeed(c) PROVE BreakerTypeOK'
  BY <1>4, BreakerTyped DEF Succeed
<1>5. ASSUME NEW c \in Calls, Fail(c) PROVE BreakerTypeOK'
  BY <1>5, BreakerTyped DEF Fail
<1>6. ASSUME NEW c \in Calls, Cancel(c) PROVE BreakerTypeOK'
  BY <1>6 DEF Cancel
<1>7. CASE Reset
  BY <1>7, BreakerTyped DEF Reset
<1>8. CASE BreakerRests
  BY <1>8, BreakerTyped DEF BreakerRests
<1> QED BY <1>1, <1>2, <1>3, <1>4, <1>5, <1>6, <1>7, <1>8 DEF BreakerNext, CallEnds

\* Every reachable state of the breaker is well typed.
THEOREM BreakerTypeCorrect == BreakerSpec => []BreakerTypeOK
<1>1. BreakerInit => BreakerTypeOK
  BY BreakerTypeInit
<1>2. BreakerTypeOK /\ [BreakerNext]_breakerVars => BreakerTypeOK'
  BY BreakerTypeNext
<1> QED BY <1>1, <1>2, PTL DEF BreakerSpec

-----------------------------------------------------------------------------
(* The state follows the count.                                            *)

LEMMA TrippedInit == BreakerInit => TrippedAtThreshold
  BY ThresholdAssumption DEF BreakerInit, NewBreaker, TrippedAtThreshold

LEMMA TrippedNext == BreakerTypeOK /\ TrippedAtThreshold /\ [BreakerNext]_breakerVars => TrippedAtThreshold'
<1> SUFFICES ASSUME BreakerTypeOK, Tripped(breaker), [BreakerNext]_breakerVars PROVE Tripped(breaker')
  BY DEF Tripped, TrippedAtThreshold
<1>1. breaker \in BreakerRecord
  BY DEF BreakerTypeOK
<1>2. ASSUME NEW c \in Calls, LetThrough(c) PROVE Tripped(breaker')
  BY <1>1, <1>2, BreakerTripped DEF LetThrough
<1>3. ASSUME NEW c \in Calls, Succeed(c) PROVE Tripped(breaker')
  BY <1>1, <1>3, BreakerTripped DEF Succeed
<1>4. ASSUME NEW c \in Calls, Fail(c) PROVE Tripped(breaker')
  BY <1>1, <1>4, BreakerTripped DEF Fail
<1>5. CASE Reset
  BY <1>1, <1>5, BreakerTripped DEF Reset
<1>6. CASE BreakerRests
  BY <1>1, <1>6, BreakerTripped DEF BreakerRests
<1>7. ASSUME NEW c \in Calls, FailFast(c) \/ Cancel(c) PROVE Tripped(breaker')
  BY <1>7 DEF FailFast, Cancel
<1>8. CASE UNCHANGED breakerVars
  BY <1>8 DEF breakerVars
<1> QED BY <1>2, <1>3, <1>4, <1>5, <1>6, <1>7, <1>8 DEF BreakerNext, CallEnds

\* The circuit is away from closed exactly when the failure count has reached the
\* threshold, whatever late outcomes were applied in between.
THEOREM Trips == BreakerSpec => []TrippedAtThreshold
<1>1. BreakerInit => TrippedAtThreshold
  BY TrippedInit
<1>2. BreakerTypeOK /\ TrippedAtThreshold /\ [BreakerNext]_breakerVars => TrippedAtThreshold'
  BY TrippedNext
<1> QED BY <1>1, <1>2, BreakerTypeCorrect, PTL DEF BreakerSpec

-----------------------------------------------------------------------------
(* Refinement of BreakerContract.                                          *)

\* The counter of a trial is the number of calls it let through, which is what the
\* code never says: half_open_calls is stale whenever the circuit is not half-open.
TrialCounted ==
  /\ breaker.state = "half_open" =>
       IsFiniteSet(trial) /\ Cardinality(trial) = breaker.probes
  /\ breaker.state # "half_open" => trial = {}
  /\ \A c \in trial : call[c] # "idle"

\* Successes lower the count of the breaker and never the failures reported.
FailuresCounted == breaker.failures <= fails

BreakerInv == BreakerTypeOK /\ TrippedAtThreshold /\ TrialCounted /\ FailuresCounted

LEMMA CountedInit == BreakerInit => TrialCounted /\ FailuresCounted
  BY DEF BreakerInit, NewBreaker, TrialCounted, FailuresCounted

LEMMA CountedNext == BreakerInv /\ [BreakerNext]_breakerVars => TrialCounted' /\ FailuresCounted'
<1> SUFFICES ASSUME BreakerInv, [BreakerNext]_breakerVars PROVE TrialCounted' /\ FailuresCounted'
  OBVIOUS
<1> USE DEF BreakerInv, TrialCounted, FailuresCounted
<1>1. breaker \in BreakerRecord /\ fails \in Nat /\ call \in [Calls -> Status]
      /\ trial \subseteq Calls
  BY DEF BreakerTypeOK
<1>2. ASSUME NEW c \in Calls, LetThrough(c) PROVE TrialCounted' /\ FailuresCounted'
  <2>1. c \notin trial
    BY <1>2 DEF LetThrough
  <2>2. CASE breaker.state = "closed"
    BY <1>1, <1>2, <2>2 DEF LetThrough, Admitted
  <2>3. CASE breaker.state = "open"
    <3>1. breaker'.state = "half_open" /\ breaker'.probes = 1
          /\ breaker'.failures = breaker.failures
      BY <1>1, <1>2, <2>3 DEF LetThrough, Admitted, BreakerRecord
    <3>2. trial' = {c}
      BY <1>2, <2>3, <3>1 DEF LetThrough
    <3>3. IsFiniteSet(trial') /\ Cardinality(trial') = 1
      BY <3>2, FS_Singleton
    <3> QED BY <1>1, <1>2, <3>1, <3>2, <3>3 DEF LetThrough, Status
  <2>4. CASE breaker.state = "half_open"
    <3>1. breaker'.state = "half_open" /\ breaker'.probes = breaker.probes + 1
          /\ breaker'.failures = breaker.failures
      BY <1>1, <1>2, <2>4 DEF LetThrough, Admitted, BreakerRecord
    <3>2. trial' = trial \cup {c}
      BY <1>2, <2>4, <3>1 DEF LetThrough
    <3>3. IsFiniteSet(trial') /\ Cardinality(trial') = breaker'.probes
      BY <2>1, <2>4, <3>1, <3>2, FS_AddElement
    <3> QED BY <1>1, <1>2, <3>1, <3>2, <3>3 DEF LetThrough, Status
  <2> QED BY <1>1, <2>2, <2>3, <2>4 DEF BreakerRecord, CircuitState
<1>3. ASSUME NEW c \in Calls, Succeed(c) PROVE TrialCounted' /\ FailuresCounted'
  <2>1. breaker'.state # "half_open" /\ trial' = {}
    BY <1>1, <1>3 DEF Succeed, AfterSuccess, BreakerRecord, CircuitState
  <2>2. FailuresCounted'
    BY <1>1, <1>3 DEF Succeed, AfterSuccess, BreakerRecord, CircuitState
  <2> QED BY <2>1, <2>2
<1>4. ASSUME NEW c \in Calls, Fail(c) PROVE TrialCounted' /\ FailuresCounted'
  <2>1. breaker'.state # "half_open"
    BY <1>1, <1>4, ThresholdAssumption
       DEF Fail, AfterFailure, TrippedAtThreshold, BreakerRecord, CircuitState
  <2>2. FailuresCounted'
    BY <1>1, <1>4 DEF Fail, AfterFailure, BreakerRecord
  <2> QED BY <1>4, <2>1, <2>2 DEF Fail
<1>5. ASSUME NEW c \in Calls, FailFast(c) \/ Cancel(c)
      PROVE  TrialCounted' /\ FailuresCounted'
  BY <1>1, <1>5 DEF FailFast, Cancel, Status
<1>6. CASE Reset
  BY <1>1, <1>6 DEF Reset, AfterReset, BreakerRecord
<1>7. CASE BreakerRests
  BY <1>1, <1>7 DEF BreakerRests, AfterTimeout, BreakerRecord
<1>8. CASE UNCHANGED breakerVars
  BY <1>8 DEF breakerVars
<1> QED BY <1>2, <1>3, <1>4, <1>5, <1>6, <1>7, <1>8 DEF BreakerNext, CallEnds

LEMMA BreakerInductive == BreakerSpec => []BreakerInv
<1>1. BreakerInit => BreakerInv
  BY BreakerTypeInit, TrippedInit, CountedInit DEF BreakerInv
<1>2. BreakerInv /\ [BreakerNext]_breakerVars => BreakerInv'
  BY BreakerTypeNext, TrippedNext, CountedNext DEF BreakerInv
<1> QED BY <1>1, <1>2, PTL DEF BreakerSpec

LEMMA ContractInit == BreakerInit => Contract!Init
  BY FS_EmptySet DEF BreakerInit, NewBreaker, Contract!Init

LEMMA ContractNext == BreakerInv /\ BreakerInv' /\ [BreakerNext]_breakerVars => [Contract!Next]_(Contract!cvars)
<1> SUFFICES ASSUME BreakerInv, BreakerInv', [BreakerNext]_breakerVars
             PROVE  Contract!Next \/ UNCHANGED Contract!cvars
  OBVIOUS
<1> USE DEF Contract!cvars
<1>1. breaker \in BreakerRecord /\ fails \in Nat
  BY DEF BreakerInv, BreakerTypeOK
<1>2. breaker.state # "half_open" => trial = {} /\ Cardinality(trial) = 0
  BY FS_EmptySet DEF BreakerInv, TrialCounted
<1>3. breaker'.state # "half_open" => trial' = {} /\ Cardinality(trial') = 0
  BY FS_EmptySet DEF BreakerInv, TrialCounted
<1>4. breaker.state = "half_open" => Cardinality(trial) = breaker.probes
  BY DEF BreakerInv, TrialCounted
<1>5. breaker'.state = "half_open" => Cardinality(trial') = breaker'.probes
  BY DEF BreakerInv, TrialCounted
<1>6. ASSUME NEW c \in Calls, LetThrough(c)
      PROVE  Contract!Next \/ UNCHANGED Contract!cvars
  <2>1. CASE breaker.state = "closed"
    BY <1>1, <1>2, <1>3, <1>6, <2>1 DEF LetThrough, Admitted
  <2>2. CASE breaker.state = "open"
    <3>1. breaker'.state = "half_open" /\ breaker'.probes = 1
          /\ breaker'.rested = breaker.rested /\ breaker.rested
      BY <1>1, <1>6, <2>2 DEF LetThrough, Admits, StartsTrial, Admitted, BreakerRecord
    <3>2. Contract!StartTrial
      BY <1>5, <1>6, <2>2, <3>1 DEF LetThrough, Contract!StartTrial
    <3> QED BY <3>2 DEF Contract!Next
  <2>3. CASE breaker.state = "half_open"
    <3>1. breaker'.state = "half_open" /\ breaker'.probes = breaker.probes + 1
          /\ breaker'.rested = breaker.rested /\ breaker.probes < HalfOpenMaxCalls
      BY <1>1, <1>6, <2>3 DEF LetThrough, Admits, StartsTrial, Admitted, BreakerRecord
    <3>2. Contract!Probe
      BY <1>4, <1>5, <1>6, <2>3, <3>1 DEF LetThrough, Contract!Probe
    <3> QED BY <3>2 DEF Contract!Next
  <2> QED BY <1>1, <2>1, <2>2, <2>3 DEF BreakerRecord, CircuitState
<1>7. ASSUME NEW c \in Calls, Succeed(c)
      PROVE  Contract!Next \/ UNCHANGED Contract!cvars
  <2>1. CASE breaker.state = "half_open"
    <3>1. breaker'.state = "closed" /\ breaker'.rested = breaker.rested
      BY <1>1, <1>7, <2>1 DEF Succeed, AfterSuccess, BreakerRecord
    <3>2. Contract!Recover
      BY <1>3, <1>7, <2>1, <3>1 DEF Succeed, Contract!Recover
    <3> QED BY <3>2 DEF Contract!Next
  <2>2. CASE breaker.state # "half_open"
    <3>1. breaker'.state = breaker.state /\ breaker'.rested = breaker.rested
      BY <1>1, <1>7, <2>2 DEF Succeed, AfterSuccess, BreakerRecord
    <3> QED BY <1>7, <2>2, <3>1 DEF Succeed
  <2> QED BY <2>1, <2>2
<1>8. ASSUME NEW c \in Calls, Fail(c)
      PROVE  Contract!Next \/ UNCHANGED Contract!cvars
  <2>1. breaker'.failures = breaker.failures + 1 /\ breaker'.rested = FALSE
    BY <1>1, <1>8 DEF Fail, AfterFailure, BreakerRecord
  <2>2. breaker'.state # "half_open"
    BY <1>1, <1>8, ThresholdAssumption
       DEF Fail, AfterFailure, BreakerInv, TrippedAtThreshold, BreakerRecord, CircuitState
  <2>3. CASE breaker'.state = breaker.state
    <3>1. Contract!Note
      BY <1>1, <1>2, <1>3, <1>8, <2>1, <2>2, <2>3
         DEF Fail, Contract!Note, BreakerRecord, CircuitState
    <3> QED BY <3>1 DEF Contract!Next
  <2>4. CASE breaker'.state # breaker.state
    <3>1. /\ breaker'.state = "open" /\ breaker.failures + 1 >= FailureThreshold
          /\ breaker.state \in {"closed", "half_open"}
      BY <1>1, <1>8, <2>4 DEF Fail, AfterFailure, BreakerRecord, CircuitState
    <3>2. fails + 1 >= FailureThreshold
      BY <1>1, <3>1, ThresholdAssumption DEF BreakerInv, FailuresCounted, BreakerRecord
    <3>3. Contract!Trip
      BY <1>3, <1>8, <2>1, <3>1, <3>2 DEF Fail, Contract!Trip
    <3> QED BY <3>3 DEF Contract!Next
  <2> QED BY <2>3, <2>4
<1>9. ASSUME NEW c \in Calls, FailFast(c) \/ Cancel(c)
      PROVE  Contract!Next \/ UNCHANGED Contract!cvars
  BY <1>9 DEF FailFast, Cancel
<1>10. ASSUME Reset PROVE Contract!CloseByHand
  <2>1. breaker'.state = "closed" /\ breaker'.rested = breaker.rested
    BY <1>1, <1>10 DEF Reset, AfterReset, BreakerRecord
  <2> QED BY <1>3, <1>10, <2>1 DEF Reset, Contract!CloseByHand
<1>11. ASSUME BreakerRests PROVE Contract!Rest
  <2>1. breaker'.state = breaker.state /\ breaker'.rested = TRUE
    BY <1>1, <1>11 DEF BreakerRests, AfterTimeout, BreakerRecord
  <2> QED BY <1>11, <2>1 DEF BreakerRests, Contract!Rest
<1>12. CASE UNCHANGED breakerVars
  BY <1>12 DEF breakerVars
<1> QED
  BY <1>6, <1>7, <1>8, <1>9, <1>10, <1>11, <1>12 DEF BreakerNext, CallEnds, Contract!Next

\* The breaker of resilience.py, with the calls it really let through as the trial,
\* implements the abstract circuit breaker.
THEOREM Implements == BreakerSpec => ImplementsContract
<1>1. BreakerInit => Contract!Init
  BY ContractInit
<1>2. BreakerInv /\ BreakerInv' /\ [BreakerNext]_breakerVars => [Contract!Next]_(Contract!cvars)
  BY ContractNext
<1> QED BY <1>1, <1>2, BreakerInductive, PTL DEF BreakerSpec, ImplementsContract, Contract!Spec

-----------------------------------------------------------------------------
(* The selector: sessions that share a breaker per route.                  *)

CA == "code_analysis"

-----------------------------------------------------------------------------
(* What a session keeps on record.                                         *)

\* Every attempt made, but the `open` one of a running session, is of a route of its
\* own, which was run or refused.
Account(ses, open) ==
  /\ IsFiniteSet(ses.ran) /\ IsFiniteSet(ses.refused)
  /\ ses.ran \cap ses.refused = {}
  /\ ses.attempts = Cardinality(ses.refused) + Cardinality(ses.ran) - open

\* A session never called the executor late before its timeout.
Punctual(ses) == ~ ses.expired => ses.late = 0

\* Between two turns of the loop: as many routes were tried as attempts were made.
Routing(ses) ==
  /\ ~ ses.fallback /\ ses.tried = ses.ran \cup ses.refused
  /\ Cardinality(ses.tried) = ses.attempt /\ ses.late = 0

\* The route r was just attempted, in the loop or as the final fallback, and is the
\* only one that the tried routes do not hold yet.
Attempted(ses, r) ==
  /\ canonical(r) \notin ses.tried
  /\ ses.ran \cup ses.refused = ses.tried \cup {canonical(r)}
  /\ ses.fallback => r = CA
  /\ ~ ses.fallback => Cardinality(ses.tried) = ses.attempt /\ ses.late <= 1
  /\ Punctual(ses)

\* The failed attempt is recorded; what comes next is not decided.
Settled(ses) ==
  /\ ses \in SessionRecord /\ Account(ses, 0) /\ Punctual(ses) /\ ses.late <= 1
  /\ ~ ses.fallback /\ ses.tried = ses.ran \cup ses.refused
  /\ Cardinality(ses.tried) = ses.attempt + 1

SessionOK(ses) ==
  /\ ses \in SessionRecord
  /\ Account(ses, IF ses.pc = "running" THEN 1 ELSE 0)
  /\ ses.late <= 2
  /\ ses.pc = "routing" => Routing(ses)
  /\ ses.pc = "running" => Attempted(ses, ses.route) /\ canonical(ses.route) \in ses.ran
  /\ ses.pc = "failed" => CA \in ses.ran \cup ses.refused

LEMMA RoutesTyped ==
  /\ CA \in RouteTypes /\ canonical(CA) = CA
  /\ Priority \subseteq RouteTypes /\ Decisions \subseteq RouteTypes
  /\ \A r \in RouteTypes : canonical(r) \in Routes
  /\ \A r \in Priority : canonical(r) = r
  BY PriorityAssumption DEF CA, RouteTypes, Routes, canonical

LEMMA FreshOK ==
  ASSUME NEW n \in 0..MaxClarifications
  PROVE  SessionOK(Fresh(n)) /\ SessionOK([Fresh(n) EXCEPT !.pc = "idle"])
<1>1. 0 \in 0..MaxRetries
  BY BoundsAssumption
<1>2. Fresh(n) \in SessionRecord
  BY <1>1, RoutesTyped DEF Fresh, SessionRecord, CA
<1>3. [Fresh(n) EXCEPT !.pc = "idle"] \in SessionRecord
  BY <1>2 DEF SessionRecord
<1>4. ASSUME NEW x \in SessionRecord, x.pc \in {"routing", "idle"}, x.ran = {},
             x.refused = {}, x.tried = {}, x.attempts = 0, x.attempt = 0, x.late = 0,
             ~ x.fallback
      PROVE  SessionOK(x)
  BY <1>4, FS_EmptySet DEF SessionOK, Account, Routing
<1>5. SessionOK(Fresh(n))
  BY <1>2, <1>4 DEF Fresh
<1>6. SessionOK([Fresh(n) EXCEPT !.pc = "idle"])
  BY <1>3, <1>4 DEF Fresh
<1> QED BY <1>5, <1>6

\* The executor is called for a route that was not tried.
LEMMA ExecutingOK ==
  ASSUME NEW ses \in SessionRecord, NEW r \in RouteTypes, Account(ses, 0),
         ses.tried = ses.ran \cup ses.refused, canonical(r) \notin ses.tried,
         ses.fallback => r = CA, ses.late <= 1,
         ~ ses.fallback => Cardinality(ses.tried) = ses.attempt /\ ses.late = 0,
         Punctual(ses)
  PROVE  SessionOK(Executing(ses, r))
<1> DEFINE late == IF ses.expired THEN ses.late + 1 ELSE ses.late
           x == [ses EXCEPT !.pc = "running", !.route = r,
                            !.ran = ses.ran \cup {canonical(r)}, !.late = late]
<1>1. Executing(ses, r) = x
  BY DEF Executing
<1>2. /\ late \in Nat /\ late <= ses.late + 1 /\ (~ ses.expired => late = 0)
  BY DEF SessionRecord, Punctual
<1>3. canonical(r) \in Routes
  BY RoutesTyped
<1> HIDE DEF late
<1>4. x \in SessionRecord
  BY <1>2, <1>3 DEF SessionRecord
<1>5. /\ x.pc = "running" /\ x.route = r /\ x.ran = ses.ran \cup {canonical(r)}
      /\ x.late = late /\ x.refused = ses.refused /\ x.tried = ses.tried
      /\ x.attempts = ses.attempts /\ x.attempt = ses.attempt
      /\ x.fallback = ses.fallback /\ x.expired = ses.expired
  BY DEF SessionRecord
<1> HIDE DEF x
<1>6. canonical(r) \notin ses.ran /\ canonical(r) \notin ses.refused
  OBVIOUS
<1>7. IsFiniteSet(x.ran) /\ Cardinality(x.ran) = Cardinality(ses.ran) + 1
  BY <1>5, <1>6, FS_AddElement, SMTT(20) DEF Account
<1>8. Cardinality(ses.ran) \in Nat /\ Cardinality(ses.refused) \in Nat
  BY FS_CardinalityType DEF Account
<1>9. Account(x, 1)
  BY <1>5, <1>6, <1>7, <1>8 DEF Account
<1>10. Attempted(x, r)
  <2>1. x.ran \cup x.refused = x.tried \cup {canonical(r)}
    BY <1>5
  <2>2. ~ x.fallback => Cardinality(x.tried) = x.attempt /\ x.late <= 1
    BY <1>2, <1>5 DEF SessionRecord
  <2> QED BY <1>2, <1>5, <2>1, <2>2 DEF Attempted, Punctual
<1>11. x.late <= 2
  BY <1>2, <1>5 DEF SessionRecord
<1> QED BY <1>1, <1>4, <1>5, <1>9, <1>10, <1>11 DEF SessionOK

\* A breaker refuses a route that was not tried.
LEMMA RefusedOK ==
  ASSUME NEW ses \in SessionRecord, NEW r \in RouteTypes, Account(ses, 0),
         ses.tried = ses.ran \cup ses.refused, canonical(r) \notin ses.tried,
         ses.fallback => r = CA, ses.late <= 1,
         ~ ses.fallback => Cardinality(ses.tried) = ses.attempt, Punctual(ses)
  PROVE  LET x == Refused(ses, r)
         IN  x \in SessionRecord /\ Account(x, 0) /\ Attempted(x, r) /\ x.late <= 1
<1> DEFINE x == Refused(ses, r)
<1>1. ses.attempts + 1 \in Nat /\ ses.refused \cup {canonical(r)} \subseteq Routes
  BY RoutesTyped DEF SessionRecord
<1>2. x \in SessionRecord
  BY <1>1 DEF Refused, SessionRecord
<1>3. /\ x.ran = ses.ran /\ x.late = ses.late /\ x.refused = ses.refused \cup {canonical(r)}
      /\ x.tried = ses.tried /\ x.attempts = ses.attempts + 1 /\ x.attempt = ses.attempt
      /\ x.fallback = ses.fallback /\ x.expired = ses.expired
  BY DEF Refused, SessionRecord
<1> HIDE DEF x
<1>4. canonical(r) \notin ses.ran /\ canonical(r) \notin ses.refused
  OBVIOUS
<1>5. IsFiniteSet(x.refused) /\ Cardinality(x.refused) = Cardinality(ses.refused) + 1
  BY <1>3, <1>4, FS_AddElement DEF Account
<1>6. Cardinality(ses.ran) \in Nat /\ Cardinality(ses.refused) \in Nat
  BY FS_CardinalityType DEF Account
<1>7. Account(x, 0)
  BY <1>3, <1>4, <1>5, <1>6 DEF Account
<1>8. Attempted(x, r)
  <2>1. x.ran \cup x.refused = x.tried \cup {canonical(r)}
    BY <1>3
  <2> QED BY <1>3, <2>1 DEF Attempted, Punctual
<1> QED BY <1>2, <1>3, <1>7, <1>8 DEF x

LEMMA EndedOK ==
  ASSUME NEW ses \in SessionRecord, Account(ses, 0), ses.late <= 2,
         NEW outcome \in {"solved", "failed"},
         outcome = "failed" => CA \in ses.ran \cup ses.refused
  PROVE  SessionOK(Ended(ses, outcome))
<1> DEFINE x == Ended(ses, outcome)
<1>1. Fresh(ses.rounds) \in SessionRecord
  BY FreshOK DEF SessionRecord, SessionOK
<1>2. x \in SessionRecord
  BY <1>1 DEF Ended, SessionRecord
<1>3. /\ x.pc = outcome /\ x.ran = ses.ran /\ x.refused = ses.refused
      /\ x.attempts = ses.attempts /\ x.late = ses.late
  BY <1>1 DEF Ended, SessionRecord
<1> HIDE DEF x
<1>4. SessionOK(x)
  BY <1>2, <1>3 DEF SessionOK, Account
<1> QED BY <1>4 DEF x

LEMMA RecordedOK ==
  ASSUME NEW ses \in SessionRecord, NEW r \in RouteTypes, NEW e \in Errors,
         Account(ses, 0), Attempted(ses, r), ~ ses.fallback
  PROVE  Settled(Recorded(ses, r, e))
<1> DEFINE prefs == IF ses.attempt < MaxRetries
                    THEN ses.prefs \cup AddedPrefs(ses.errors \cup {e}, ses.failed \cup {r}, r, e)
                    ELSE ses.prefs
           x == [ses EXCEPT !.tried = ses.tried \cup {canonical(r)},
                            !.failed = ses.failed \cup {r},
                            !.errors = ses.errors \cup {e}, !.prefs = prefs]
<1>1. Recorded(ses, r, e) = x
  BY DEF Recorded
<1>2. prefs \in SUBSET Prefs
  BY DEF AddedPrefs, SessionRecord
<1>3. canonical(r) \in Routes
  BY RoutesTyped
<1> HIDE DEF prefs
<1>4. x \in SessionRecord
  BY <1>2, <1>3 DEF SessionRecord
<1>5. /\ x.ran = ses.ran /\ x.late = ses.late /\ x.refused = ses.refused
      /\ x.tried = ses.tried \cup {canonical(r)} /\ x.attempts = ses.attempts
      /\ x.attempt = ses.attempt /\ x.fallback = ses.fallback /\ x.expired = ses.expired
  BY DEF SessionRecord
<1> HIDE DEF x
<1>6. x.tried = x.ran \cup x.refused
  BY <1>5 DEF Attempted
<1>7. IsFiniteSet(ses.tried)
  <2>1. IsFiniteSet(ses.ran \cup ses.refused)
    BY FS_Union DEF Account
  <2>2. ses.tried \subseteq ses.ran \cup ses.refused
    BY DEF Attempted
  <2> QED BY <2>1, <2>2, FS_Subset
<1>8. Cardinality(x.tried) = x.attempt + 1
  BY <1>5, <1>7, FS_AddElement, ZenonT(40) DEF Attempted
<1> QED
  BY <1>1, <1>4, <1>5, <1>6, <1>8 DEF Settled, Account, Attempted, Punctual

\* The loop turns only before the timeout and with retries left; the final fallback
\* is for sessions that have not tried code analysis.
LEMMA ProceedOK ==
  ASSUME NEW ses, NEW b, Settled(ses)
  PROVE  SessionOK(Proceed(ses, b).ses)
<1> USE DEF Settled
<1>1. CASE Loops(ses)
  <2> DEFINE x == [ses EXCEPT !.pc = "routing", !.attempt = ses.attempt + 1]
  <2>1. Proceed(ses, b).ses = x
    BY <1>1 DEF Proceed
  <2>2. ses.attempt + 1 \in 0..MaxRetries /\ ses.late = 0
    BY <1>1, BoundsAssumption DEF Loops, SessionRecord, Punctual
  <2>3. x \in SessionRecord
    BY <2>2 DEF SessionRecord
  <2>4. /\ x.pc = "routing" /\ x.attempt = ses.attempt + 1 /\ x.ran = ses.ran
        /\ x.refused = ses.refused /\ x.tried = ses.tried /\ x.late = ses.late
        /\ x.attempts = ses.attempts /\ x.fallback = ses.fallback
    BY DEF SessionRecord
  <2> HIDE DEF x
  <2> QED BY <2>1, <2>2, <2>3, <2>4 DEF SessionOK, Routing, Account
<1>2. CASE ~ Loops(ses) /\ CA \in ses.tried
  <2>1. Proceed(ses, b).ses = Ended(ses, "failed")
    BY <1>2 DEF Proceed, CA
  <2>2. ses.late <= 2
    BY DEF SessionRecord
  <2> QED BY <1>2, <2>1, <2>2, EndedOK
<1>3. CASE ~ Loops(ses) /\ CA \notin ses.tried
  <2> DEFINE y == [ses EXCEPT !.fallback = TRUE]
  <2>1. y \in SessionRecord
    BY DEF SessionRecord
  <2>2. /\ y.fallback /\ y.tried = ses.tried /\ y.ran = ses.ran /\ y.refused = ses.refused
        /\ y.attempts = ses.attempts /\ y.late = ses.late /\ y.expired = ses.expired
    BY DEF SessionRecord
  <2>3. CA \in RouteTypes /\ canonical(CA) = CA
    BY RoutesTyped
  <2>4. CASE Refuses(b, CA)
    <3>1. Proceed(ses, b).ses = Ended(Refused(ses, CA), "failed")
      BY <1>3, <2>4 DEF Proceed, CA
    <3> DEFINE x == Refused(ses, CA)
    <3>2. /\ x.ran = ses.ran /\ x.refused = ses.refused \cup {CA}
          /\ x.attempts = ses.attempts + 1 /\ x.late = ses.late
      BY <2>3 DEF Refused, SessionRecord
    <3>3. x \in SessionRecord
      <4>1. ses.attempts + 1 \in Nat /\ ses.refused \cup {canonical(CA)} \subseteq Routes
        BY <2>3, RoutesTyped DEF SessionRecord
      <4> QED BY <4>1 DEF Refused, SessionRecord
    <3> HIDE DEF x
    <3>4. CA \notin ses.ran /\ CA \notin ses.refused
      BY <1>3
    <3>5. IsFiniteSet(x.refused) /\ Cardinality(x.refused) = Cardinality(ses.refused) + 1
      BY <3>2, <3>4, FS_AddElement, SMTT(20) DEF Account
    <3>6. Cardinality(ses.ran) \in Nat /\ Cardinality(ses.refused) \in Nat
      BY FS_CardinalityType DEF Account
    <3>7. Account(x, 0) /\ CA \in x.ran \cup x.refused
      BY <3>2, <3>4, <3>5, <3>6 DEF Account
    <3>8. x.late <= 2
      BY <3>2 DEF SessionRecord
    <3>9. SessionOK(Ended(x, "failed"))
      BY <3>3, <3>7, <3>8, EndedOK
    <3> QED BY <3>1, <3>9 DEF x
  <2>5. CASE ~ Refuses(b, CA)
    <3>1. Proceed(ses, b).ses = Executing(y, CA)
      BY <1>3, <2>5 DEF Proceed, CA
    <3> HIDE DEF y
    <3>2. Account(y, 0) /\ Punctual(y)
      BY <2>2 DEF Account, Punctual
    <3>3. SessionOK(Executing(y, CA))
      BY <1>3, <2>1, <2>2, <2>3, <3>2, ExecutingOK
    <3> QED BY <3>1, <3>3
  <2> QED BY <2>4, <2>5
<1> QED BY <1>1, <1>2, <1>3

LEMMA FailedOK ==
  ASSUME NEW ses \in SessionRecord, NEW b, NEW r \in RouteTypes, NEW e \in Errors,
         Account(ses, 0), Attempted(ses, r), ses.late <= 2
  PROVE  SessionOK(Failed(ses, b, r, e).ses)
<1>1. CASE ses.fallback
  <2>1. Failed(ses, b, r, e).ses = Ended(ses, "failed")
    BY <1>1 DEF Failed
  <2>2. CA \in ses.ran \cup ses.refused
    BY <1>1, RoutesTyped DEF Attempted
  <2> QED BY <2>1, <2>2, EndedOK
<1>2. CASE ~ ses.fallback
  <2>1. Failed(ses, b, r, e).ses = Proceed(Recorded(ses, r, e), b).ses
    BY <1>2 DEF Failed
  <2>2. Settled(Recorded(ses, r, e))
    BY <1>2, RecordedOK
  <2> QED BY <2>1, <2>2, ProceedOK
<1> QED BY <1>1, <1>2

\* The selector may answer a route that was tried: what is executed was not.  There
\* are more routes in the list than attempts, so one is always left.
LEMMA AlternativesOK ==
  ASSUME NEW ses, SessionOK(ses), ses.pc = "routing", NEW r \in Decisions,
         NEW q \in Alternatives(ses, r)
  PROVE  q \in RouteTypes /\ canonical(q) \notin ses.tried
<1> USE DEF SessionOK, Routing
<1>1. CASE canonical(r) \in ses.tried /\ ses.attempt > 0 /\ ~ Priority \subseteq ses.tried
  <2>1. q \in Priority \ ses.tried
    BY <1>1 DEF Alternatives, ForcedFrom
  <2> QED BY <2>1, RoutesTyped
<1>2. CASE ~ (canonical(r) \in ses.tried /\ ses.attempt > 0 /\ ~ Priority \subseteq ses.tried)
  <2>1. q = r /\ r \in RouteTypes
    BY <1>2, RoutesTyped DEF Alternatives
  <2>2. IsFiniteSet(ses.tried)
    BY FS_Union DEF Account
  <2>3. ses.attempt = 0 => ses.tried = {}
    BY <2>2, FS_EmptySet
  <2>4. ~ Priority \subseteq ses.tried
    <3> SUFFICES ASSUME Priority \subseteq ses.tried PROVE FALSE
      OBVIOUS
    <3>1. IsFiniteSet(Priority) /\ Cardinality(Priority) <= Cardinality(ses.tried)
      BY <2>2, FS_Subset
    <3>2. Cardinality(Priority) \in Nat
      BY <3>1, FS_CardinalityType
    <3> QED BY <3>1, <3>2, BoundsAssumption DEF SessionRecord
  <2>5. ses.attempt = 0 \/ ses.attempt > 0
    BY BoundsAssumption DEF SessionRecord
  <2> QED BY <1>2, <2>1, <2>3, <2>4, <2>5
<1> QED BY <1>1, <1>2

\* The executor is back: the open attempt counts.
LEMMA ReturnedOK ==
  ASSUME NEW ses, SessionOK(ses), ses.pc = "running"
  PROVE  LET x == [ses EXCEPT !.attempts = ses.attempts + 1]
         IN  /\ x \in SessionRecord /\ Account(x, 0) /\ Attempted(x, ses.route)
             /\ x.late <= 2 /\ ses.route \in RouteTypes
<1> DEFINE x == [ses EXCEPT !.attempts = ses.attempts + 1]
<1>1. ses \in SessionRecord /\ Account(ses, 1) /\ Attempted(ses, ses.route) /\ ses.late <= 2
  BY DEF SessionOK
<1>2. x \in SessionRecord /\ ses.route \in RouteTypes
  BY <1>1 DEF SessionRecord
<1>3. /\ x.ran = ses.ran /\ x.late = ses.late /\ x.refused = ses.refused
      /\ x.tried = ses.tried /\ x.attempts = ses.attempts + 1 /\ x.attempt = ses.attempt
      /\ x.fallback = ses.fallback /\ x.expired = ses.expired
  BY <1>1 DEF SessionRecord
<1> HIDE DEF x
<1>4. Cardinality(ses.ran) \in Nat /\ Cardinality(ses.refused) \in Nat
  BY <1>1, FS_CardinalityType DEF Account
<1>5. Account(x, 0)
  BY <1>1, <1>3, <1>4 DEF Account
<1>6. Attempted(x, ses.route) /\ x.late <= 2
  BY <1>1, <1>3 DEF Attempted, Punctual
<1> QED BY <1>2, <1>5, <1>6 DEF x

LEMMA ExpiredOK ==
  ASSUME NEW ses, SessionOK(ses)
  PROVE  SessionOK([ses EXCEPT !.expired = TRUE])
<1> DEFINE x == [ses EXCEPT !.expired = TRUE]
<1>1. x \in SessionRecord
  BY DEF SessionOK, SessionRecord
<1>2. /\ x.ran = ses.ran /\ x.late = ses.late /\ x.refused = ses.refused /\ x.pc = ses.pc
      /\ x.tried = ses.tried /\ x.attempts = ses.attempts /\ x.attempt = ses.attempt
      /\ x.fallback = ses.fallback /\ x.route = ses.route /\ x.expired
  BY DEF SessionOK, SessionRecord
<1> HIDE DEF x
<1>3. SessionOK(x)
  BY <1>1, <1>2 DEF SessionOK, Account, Routing, Attempted, Punctual
<1> QED BY <1>3 DEF x

-----------------------------------------------------------------------------
(* What the breakers keep.                                                 *)

Guards(b) ==
  /\ b \in [Priority -> BreakerRecord]
  /\ \A r \in Priority : Tripped(b[r])

\* A breaker has counted every exception in a row of its route; fta is left out
\* because exceptions of workflow, the same route, reach no breaker.
Shield(b, count) ==
  /\ Guards(b)
  /\ \A r \in Priority \ {"fta"} : count[r] <= b[r].failures

LEMMA EnterKeeps ==
  ASSUME NEW b, Guards(b), NEW r, ~ Refuses(b, r)
  PROVE  /\ Guards(Enter(b, r))
         /\ \A q \in Priority : Enter(b, r)[q].failures = b[q].failures
<1>1. CASE Guarded(r)
  <2>1. r \in Priority /\ Admits(b[r]) /\ Enter(b, r) = [b EXCEPT ![r] = Admitted(b[r])]
    BY <1>1 DEF Guarded, Refuses, Enter
  <2>2. b[r] \in BreakerRecord /\ Tripped(b[r])
    BY <2>1 DEF Guards
  <2>3. Admitted(b[r]) \in BreakerRecord /\ Tripped(Admitted(b[r]))
    BY <2>1, <2>2, BreakerTyped, BreakerTripped
  <2>4. Admitted(b[r]).failures = b[r].failures
    BY <2>2 DEF Admitted, BreakerRecord
  <2> QED BY <2>1, <2>3, <2>4 DEF Guards
<1>2. CASE ~ Guarded(r)
  BY <1>2 DEF Enter
<1> QED BY <1>1, <1>2

LEMMA EnterShields ==
  ASSUME NEW b, NEW count, Shield(b, count), NEW r, ~ Refuses(b, r)
  PROVE  Shield(Enter(b, r), count)
  BY EnterKeeps DEF Shield

LEMMA FailedShields ==
  ASSUME NEW b, NEW count, Shield(b, count), NEW ses, NEW r, NEW e
  PROVE  Shield(Failed(ses, b, r, e).cb, count)
<1>1. ASSUME NEW x PROVE Shield(Proceed(x, b).cb, count)
  <2>1. Proceed(x, b).cb = b
        \/ (~ Refuses(b, CA) /\ Proceed(x, b).cb = Enter(b, CA))
    BY DEF Proceed, CA
  <2> QED BY <2>1, EnterShields
<1>2. Failed(ses, b, r, e).cb = b
      \/ Failed(ses, b, r, e).cb = Proceed(Recorded(ses, r, e), b).cb
  BY DEF Failed
<1> QED BY <1>1, <1>2

\* The executor returned: the route has no exception in a row any more.
LEMMA ReturnShields ==
  ASSUME raised \in [Routes -> Nat], Shield(cb, raised), NEW r \in RouteTypes,
         raised' = [raised EXCEPT ![canonical(r)] = 0]
  PROVE  Shield(Reported(r, TRUE), raised') /\ raised' \in [Routes -> Nat]
<1> DEFINE b == Reported(r, TRUE)
<1>1. canonical(r) \in Routes /\ raised' \in [Routes -> Nat] /\ Priority \subseteq Routes
  BY RoutesTyped
<1>2. Guards(b) /\ \A q \in Priority : q # r => b[q] = cb[q]
  <2>1. CASE r \in Priority
    <3>1. b = [cb EXCEPT ![r] = AfterSuccess(cb[r])]
      BY <2>1 DEF Reported, Guarded
    <3>2. AfterSuccess(cb[r]) \in BreakerRecord /\ Tripped(AfterSuccess(cb[r]))
      BY <2>1, BreakerTyped, BreakerTripped DEF Shield, Guards
    <3> HIDE DEF b
    <3> QED BY <3>1, <3>2 DEF Shield, Guards
  <2>2. CASE r \notin Priority
    BY <2>2 DEF Reported, Guarded, Shield
  <2> QED BY <2>1, <2>2
<1> HIDE DEF b
<1>3. ASSUME NEW q \in Priority \ {"fta"} PROVE raised'[q] <= b[q].failures
  <2>1. CASE q = canonical(r)
    <3>1. raised'[q] = 0 /\ b[q].failures \in Nat
      BY <1>1, <1>2, <2>1 DEF Guards, BreakerRecord
    <3> QED BY <3>1
  <2>2. CASE q # canonical(r)
    <3>1. q # r
      BY <2>2, RoutesTyped
    <3> QED BY <1>1, <1>2, <2>2, <3>1 DEF Shield
  <2> QED BY <2>1, <2>2
<1> QED BY <1>1, <1>2, <1>3 DEF Shield, b

\* The executor raised.
LEMMA RaiseShields ==
  ASSUME raised \in [Routes -> Nat], Shield(cb, raised), NEW r \in RouteTypes,
         raised' = [raised EXCEPT ![canonical(r)] = IF @ < FailureThreshold THEN @ + 1 ELSE @]
  PROVE  Shield(Reported(r, FALSE), raised') /\ raised' \in [Routes -> Nat]
<1> DEFINE b == Reported(r, FALSE)
           c == canonical(r)
           n == IF raised[c] < FailureThreshold THEN raised[c] + 1 ELSE raised[c]
<1>1. c \in Routes /\ Priority \subseteq Routes
  BY RoutesTyped
<1>2. n \in Nat /\ n <= raised[c] + 1
  BY <1>1
<1>3. raised' = [raised EXCEPT ![c] = n]
  OBVIOUS
<1> HIDE DEF n
<1>4. raised' \in [Routes -> Nat]
  BY <1>1, <1>2, <1>3
<1>5. /\ Guards(b)
      /\ \A q \in Priority : b[q].failures = IF q = r THEN cb[q].failures + 1 ELSE cb[q].failures
  <2>1. CASE r \in Priority
    <3>1. b = [cb EXCEPT ![r] = AfterFailure(cb[r])]
      BY <2>1 DEF Reported, Guarded
    <3>2. cb[r] \in BreakerRecord /\ Tripped(cb[r])
      BY <2>1 DEF Shield, Guards
    <3>3. AfterFailure(cb[r]) \in BreakerRecord /\ Tripped(AfterFailure(cb[r]))
      BY <3>2, BreakerTyped, BreakerTripped
    <3>4. AfterFailure(cb[r]).failures = cb[r].failures + 1
      BY <3>2 DEF AfterFailure, BreakerRecord
    <3> HIDE DEF b
    <3> QED BY <3>1, <3>3, <3>4 DEF Shield, Guards
  <2>2. CASE r \notin Priority
    BY <2>2 DEF Reported, Guarded, Shield
  <2> QED BY <2>1, <2>2
<1> HIDE DEF b
<1>6. ASSUME NEW q \in Priority \ {"fta"} PROVE raised'[q] <= b[q].failures
  <2>1. cb[q].failures \in Nat /\ raised[q] \in Nat /\ raised[q] <= cb[q].failures
    BY <1>1 DEF Shield, Guards, BreakerRecord
  <2>2. q = c => q = r
    BY DEF canonical
  <2>3. q # c => q # r
    BY RoutesTyped
  <2> QED BY <1>1, <1>2, <1>3, <1>5, <2>1, <2>2, <2>3
<1> QED BY <1>4, <1>5, <1>6 DEF Shield, b

-----------------------------------------------------------------------------
(* The inductive invariant.                                                *)

SessionsOK ==
  session \in [Clients -> SessionRecord] /\ \A s \in Clients : SessionOK(session[s])

IInv ==
  /\ SessionsOK /\ sessions \in Nat
  /\ raised \in [Routes -> Nat] /\ Shield(cb, raised)

LEMMA SelectorInit == Init => IInv
<1> SUFFICES ASSUME Init PROVE IInv
  OBVIOUS
<1>1. 0 \in 0..MaxClarifications
  BY BoundsAssumption
<1>2. SessionOK([Fresh(0) EXCEPT !.pc = "idle"])
  BY <1>1, FreshOK
<1>3. SessionsOK
  BY <1>2 DEF Init, SessionsOK, SessionOK
<1>4. NewBreaker \in BreakerRecord /\ Tripped(NewBreaker) /\ NewBreaker.failures = 0
  BY ThresholdAssumption DEF NewBreaker, BreakerRecord, CircuitState, Tripped
<1>5. raised \in [Routes -> Nat] /\ \A r \in Priority : r \in Routes /\ raised[r] = 0
  BY RoutesTyped DEF Init
<1>6. Shield(cb, raised)
  <2>1. cb \in [Priority -> BreakerRecord] /\ \A r \in Priority : cb[r] = NewBreaker
    BY <1>4 DEF Init
  <2> QED BY <1>4, <1>5, <2>1 DEF Shield, Guards
<1> QED BY <1>3, <1>5, <1>6 DEF Init, IInv

\* A step changes one session.
LEMMA SessionsKept ==
  ASSUME SessionsOK, NEW s \in Clients, NEW x, SessionOK(x),
         session' = [session EXCEPT ![s] = x]
  PROVE  SessionsOK'
<1>1. x \in SessionRecord
  BY DEF SessionOK
<1>2. \A t \in Clients : session'[t] = IF t = s THEN x ELSE session[t]
  BY DEF SessionsOK
<1> QED BY <1>1, <1>2 DEF SessionsOK

LEMMA RouteKeeps ==
  ASSUME IInv, NEW s \in Clients, Route(s)
  PROVE  SessionsOK' /\ Shield(cb', raised)
<1> DEFINE ses == session[s]
<1>1. SessionOK(ses) /\ ses.pc = "routing" /\ ses \in SessionRecord
  BY DEF IInv, SessionsOK, Route
<1>2. PICK r \in Decisions : \E q \in Alternatives(ses, r) :
        Moves(s, IF Refuses(cb, q)
                 THEN Failed(Refused(ses, q), cb, q, "unknown")
                 ELSE [ses |-> Executing(ses, q), cb |-> Enter(cb, q)])
  BY DEF Route
<1>3. PICK q \in Alternatives(ses, r) :
        Moves(s, IF Refuses(cb, q)
                 THEN Failed(Refused(ses, q), cb, q, "unknown")
                 ELSE [ses |-> Executing(ses, q), cb |-> Enter(cb, q)])
  BY <1>2
<1>4. q \in RouteTypes /\ canonical(q) \notin ses.tried
  BY <1>1, AlternativesOK
<1>5. /\ Account(ses, 0) /\ ses.tried = ses.ran \cup ses.refused /\ ~ ses.fallback
      /\ Cardinality(ses.tried) = ses.attempt /\ ses.late = 0 /\ ses.late <= 1
      /\ Punctual(ses)
  BY <1>1 DEF SessionOK, Routing, Punctual
<1> HIDE DEF ses
<1>6. CASE Refuses(cb, q)
  <2> DEFINE x == Refused(ses, q)
             next == Failed(x, cb, q, "unknown")
  <2>1. x \in SessionRecord /\ Account(x, 0) /\ Attempted(x, q) /\ x.late <= 1
    BY <1>1, <1>4, <1>5, RefusedOK
  <2>2. x.late <= 2
    BY <2>1 DEF SessionRecord
  <2>3. session' = [session EXCEPT ![s] = next.ses] /\ cb' = next.cb
    BY <1>3, <1>6 DEF Moves
  <2> HIDE DEF x
  <2>4. SessionOK(next.ses)
    BY <1>4, <2>1, <2>2, FailedOK, ErrorsAssumption
  <2>5. Shield(next.cb, raised)
    BY FailedShields DEF IInv
  <2> HIDE DEF next
  <2> QED BY <2>3, <2>4, <2>5, SessionsKept DEF IInv
<1>7. CASE ~ Refuses(cb, q)
  <2>1. session' = [session EXCEPT ![s] = Executing(ses, q)] /\ cb' = Enter(cb, q)
    BY <1>3, <1>7 DEF Moves
  <2>2. SessionOK(Executing(ses, q))
    BY <1>1, <1>4, <1>5, ExecutingOK
  <2>3. Shield(Enter(cb, q), raised)
    BY <1>7, EnterShields DEF IInv
  <2> QED BY <2>1, <2>2, <2>3, SessionsKept DEF IInv
<1> QED BY <1>6, <1>7

\* A failed execution, reported to breakers b: the session goes on from there.
LEMMA FailureKeeps ==
  ASSUME IInv, NEW s \in Clients, session[s].pc = "running", NEW e \in Errors,
         NEW b, NEW count, Shield(b, count),
         Moves(s, Failed([session[s] EXCEPT !.attempts = @ + 1], b, session[s].route, e))
  PROVE  SessionsOK' /\ Shield(cb', count)
<1> DEFINE r == session[s].route
           x == [session[s] EXCEPT !.attempts = session[s].attempts + 1]
           next == Failed(x, b, r, e)
<1>1. SessionOK(session[s])
  BY DEF IInv, SessionsOK
<1>2. x \in SessionRecord /\ Account(x, 0) /\ Attempted(x, r) /\ x.late <= 2
      /\ r \in RouteTypes
  BY <1>1, ReturnedOK
<1>3. session' = [session EXCEPT ![s] = next.ses] /\ cb' = next.cb
  BY DEF Moves
<1> HIDE DEF x, r
<1>4. SessionOK(next.ses)
  BY <1>2, FailedOK
<1>5. Shield(next.cb, count)
  BY FailedShields
<1> HIDE DEF next
<1> QED BY <1>3, <1>4, <1>5, SessionsKept DEF IInv

LEMMA SelectorNext == IInv /\ [Next]_vars => IInv'
<1> SUFFICES ASSUME IInv, [Next]_vars PROVE IInv'
  OBVIOUS
<1>1. ASSUME NEW s \in Clients, Start(s) \/ Clarify(s) PROVE IInv'
  <2>1. session[s].rounds \in 0..MaxClarifications
    BY DEF IInv, SessionsOK, SessionRecord
  <2>2. \E n \in 0..MaxClarifications : session' = [session EXCEPT ![s] = Fresh(n)]
    BY <1>1, <2>1, BoundsAssumption DEF Start, Clarify
  <2>3. SessionsOK'
    BY <2>2, FreshOK, SessionsKept DEF IInv
  <2> QED BY <1>1, <2>3 DEF Start, Clarify, IInv
<1>2. ASSUME NEW s \in Clients, Route(s) PROVE IInv'
  BY <1>2, RouteKeeps DEF Route, IInv
<1>3. ASSUME NEW s \in Clients, Solve(s) PROVE IInv'
  <2> DEFINE r == session[s].route
             x == [session[s] EXCEPT !.attempts = session[s].attempts + 1]
  <2>1. SessionOK(session[s]) /\ session[s].pc = "running"
    BY <1>3 DEF IInv, SessionsOK, Solve
  <2>2. x \in SessionRecord /\ Account(x, 0) /\ x.late <= 2 /\ r \in RouteTypes
    BY <2>1, ReturnedOK
  <2>3. /\ session' = [session EXCEPT ![s] = Ended(x, "solved")] /\ cb' = Reported(r, TRUE)
        /\ raised' = [raised EXCEPT ![canonical(r)] = 0]
    BY <1>3 DEF Solve
  <2> HIDE DEF x, r
  <2>4. SessionOK(Ended(x, "solved"))
    BY <2>2, EndedOK
  <2>5. SessionsOK'
    BY <2>3, <2>4, SessionsKept DEF IInv
  <2>6. Shield(cb', raised') /\ raised' \in [Routes -> Nat]
    BY <2>2, <2>3, ReturnShields DEF IInv
  <2> QED BY <1>3, <2>5, <2>6 DEF Solve, IInv
<1>4. ASSUME NEW s \in Clients, SoftFail(s) PROVE IInv'
  <2>1. session[s].route \in RouteTypes
    BY DEF IInv, SessionsOK, SessionRecord
  <2>2. Shield(Reported(session[s].route, TRUE), raised') /\ raised' \in [Routes -> Nat]
    BY <1>4, <2>1, ReturnShields DEF SoftFail, IInv
  <2>3. PICK e \in Errors :
          Moves(s, Failed([session[s] EXCEPT !.attempts = @ + 1],
                          Reported(session[s].route, TRUE), session[s].route, e))
    BY <1>4 DEF SoftFail
  <2>4. SessionsOK' /\ Shield(cb', raised')
    BY <1>4, <2>2, <2>3, FailureKeeps DEF SoftFail
  <2> QED BY <1>4, <2>2, <2>4 DEF SoftFail, IInv
<1>5. ASSUME NEW s \in Clients, Raise(s) PROVE IInv'
  <2>1. session[s].route \in RouteTypes
    BY DEF IInv, SessionsOK, SessionRecord
  <2>2. Shield(Reported(session[s].route, FALSE), raised') /\ raised' \in [Routes -> Nat]
    BY <1>5, <2>1, RaiseShields DEF Raise, IInv
  <2>3. PICK e \in Errors :
          Moves(s, Failed([session[s] EXCEPT !.attempts = @ + 1],
                          Reported(session[s].route, FALSE), session[s].route, e))
    BY <1>5 DEF Raise
  <2>4. SessionsOK' /\ Shield(cb', raised')
    BY <1>5, <2>2, <2>3, FailureKeeps DEF Raise
  <2> QED BY <1>5, <2>2, <2>4 DEF Raise, IInv
<1>6. ASSUME NEW s \in Clients, Expire(s) PROVE IInv'
  <2>1. SessionOK(session[s])
    BY DEF IInv, SessionsOK
  <2>2. session' = [session EXCEPT ![s] = [session[s] EXCEPT !.expired = TRUE]]
    BY <1>6 DEF Expire
  <2>3. SessionsOK'
    BY <2>1, <2>2, ExpiredOK, SessionsKept DEF IInv
  <2> QED BY <1>6, <2>3 DEF Expire, IInv
<1>7. ASSUME NEW r \in Priority, ResetTimeoutElapses(r) PROVE IInv'
  <2>1. cb[r] \in BreakerRecord /\ Tripped(cb[r])
    BY DEF IInv, Shield, Guards
  <2>2. /\ AfterTimeout(cb[r]) \in BreakerRecord /\ Tripped(AfterTimeout(cb[r]))
        /\ AfterTimeout(cb[r]).failures = cb[r].failures
    BY <2>1, BreakerTyped, BreakerTripped DEF AfterTimeout, BreakerRecord
  <2>3. cb' = [cb EXCEPT ![r] = AfterTimeout(cb[r])]
    BY <1>7 DEF ResetTimeoutElapses
  <2>4. Shield(cb', raised)
    BY <2>2, <2>3 DEF IInv, Shield, Guards
  <2> QED BY <1>7, <2>4 DEF ResetTimeoutElapses, IInv, SessionsOK
<1>8. CASE UNCHANGED vars
  BY <1>8 DEF vars, IInv, SessionsOK
<1> QED BY <1>1, <1>2, <1>3, <1>4, <1>5, <1>6, <1>7, <1>8 DEF Next, End

LEMMA Inductive == Spec => []IInv
<1>1. IInv /\ [Next]_vars => IInv'
  BY SelectorNext
<1> QED BY <1>1, SelectorInit, PTL DEF Spec

-----------------------------------------------------------------------------

\* Every reachable state of the sessions and the breakers is well typed.
THEOREM TypeCorrect == Spec => []TypeOK
<1>1. IInv => TypeOK
  BY DEF IInv, SessionsOK, Shield, Guards, TypeOK
<1> QED BY <1>1, Inductive, PTL

LEMMA CountApart ==
  ASSUME NEW S, IsFiniteSet(S), NEW T, IsFiniteSet(T), T \cap S = {}
  PROVE  Cardinality(S \cup T) = Cardinality(S) + Cardinality(T)
<1> DEFINE m == Cardinality(S)
           n == Cardinality(T)
           both == Cardinality(S \cap T)
<1>1. S \cap T = {}
  OBVIOUS
<1>2. both = 0
  BY <1>1, FS_EmptySet, Zenon
<1>3. m \in Nat /\ n \in Nat
  BY FS_CardinalityType
<1>4. Cardinality(S \cup T) = m + n - both
  BY FS_Union
<1> HIDE DEF m, n, both
<1>5. m + n - both = m + n
  BY <1>2, <1>3
<1>6. Cardinality(S \cup T) = m + n
  BY <1>4, <1>5, Zenon
<1> QED BY <1>6 DEF m, n

\* The routes run and the routes refused are apart: one count of them all.
LEMMA RoutesCounted ==
  ASSUME NEW ses, NEW open \in Nat, Account(ses, open)
  PROVE  ses.attempts = Cardinality(ses.refused \cup ses.ran) - open
<1>1. Cardinality(ses.refused \cup ses.ran) = Cardinality(ses.refused) + Cardinality(ses.ran)
  BY CountApart, ZenonT(40) DEF Account
<1>2. Cardinality(ses.refused) \in Nat /\ Cardinality(ses.ran) \in Nat
  BY FS_CardinalityType DEF Account
<1> QED BY <1>1, <1>2 DEF Account

\* For any list of routes longer than the retries, no session attempts a route twice,
\* whatever the selector answers and the breakers refuse: not to run it again, nor to
\* run what was refused before or the other way round.
THEOREM EachRouteOnce == Spec => []NoRouteTwice
<1>1. IInv => NoRouteTwice
  <2> SUFFICES ASSUME IInv, NEW s \in Clients
               PROVE  session[s].attempts = Cardinality(session[s].refused \cup session[s].ran)
                                             - (IF session[s].pc = "running" THEN 1 ELSE 0)
    BY DEF NoRouteTwice
  <2>1. Account(session[s], IF session[s].pc = "running" THEN 1 ELSE 0)
    BY DEF IInv, SessionsOK, SessionOK
  <2> QED BY <2>1, RoutesCounted
<1> QED BY <1>1, Inductive, PTL

\* A session that gives up has attempted code analysis.
THEOREM GivesUpLast == Spec => []LastResort
<1>1. IInv => LastResort
  BY DEF IInv, SessionsOK, SessionOK, LastResort, CA
<1> QED BY <1>1, Inductive, PTL

\* However many retries are configured, at most two executor calls start late.
THEOREM LateCalls == Spec => []LateCallsBounded
<1>1. IInv => LateCallsBounded
  BY DEF IInv, SessionsOK, SessionOK, LateCallsBounded
<1> QED BY <1>1, Inductive, PTL

\* Whatever other sessions report in between, FailureThreshold exceptions in a row
\* leave no breaker but that of fta closed.
THEOREM Shielded == Spec => []FailingRouteIsShielded
<1>1. IInv => FailingRouteIsShielded
  <2> SUFFICES ASSUME IInv, NEW r \in Priority \ {"fta"}, raised[r] >= FailureThreshold
               PROVE  cb[r].state # "closed"
    BY DEF FailingRouteIsShielded
  <2>1. raised[r] \in Nat /\ cb[r].failures \in Nat /\ raised[r] <= cb[r].failures
    BY RoutesTyped DEF IInv, Shield, Guards, BreakerRecord
  <2> QED BY <2>1, ThresholdAssumption DEF IInv, Shield, Guards, Tripped
<1> QED BY <1>1, Inductive, PTL
=============================================================================
