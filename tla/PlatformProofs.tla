---------------------------- MODULE PlatformProofs ----------------------------
(***************************************************************************)
(* Theorems of the components of the Go platform.                          *)
(*                                                                         *)
(* GoBreaker, for any number of goroutines, any threshold and any limit of *)
(* probes: TypeOK and the refinement of BreakerContract.                   *)
(*                                                                         *)
(* FeedbackLoop, for any number of emitters, evaluators, sources and       *)
(* signals: the cooldown of alerts, that the aggregator never prunes a     *)
(* signal of its window, and that the ring buffer holds the latest signals *)
(* whatever its size.                                                      *)
(***************************************************************************)
EXTENDS GoBreaker, FeedbackLoop, FiniteSetTheorems, WellFoundedInduction, TLAPS

-----------------------------------------------------------------------------
(* GoBreaker: types                                                        *)

PcRecord == [stage : Stages \cup {"idle", "settled", "panicked"}, goal : Goals]

LEMMA PcTyped ==
  ASSUME NEW p \in PcRecord, NEW s \in Stages \cup {"idle", "settled", "panicked"}
  PROVE  [p EXCEPT !.stage = s] \in PcRecord
  BY DEF PcRecord

\* The part of TypeOK that speaks of the breaker, and the part about notify.
CoreOK ==
  /\ state \in States /\ failures \in Nat /\ fails \in Nat /\ resets \in Nat
  /\ halfOpenCalls \in 0..HalfOpenMaxCalls /\ rested \in BOOLEAN
  /\ trial \subseteq Calls

NotifyOK ==
  /\ pending \in Nat /\ copied \in 0..pending /\ missed \in BOOLEAN
  /\ mine \in [Goroutines -> Nat]
  /\ pc \in [Goroutines -> PcRecord]

\* Changes a goroutine still has to deliver: at least one while it delivers.
DeliversSome == \A g \in Goroutines : pc[g].stage = "deliver" => mine[g] > 0

TypeInv == CoreOK /\ NotifyOK /\ DeliversSome

LEMMA TypeInvTypeOK == TypeInv => TypeOK
  BY DEF TypeInv, CoreOK, NotifyOK, TypeOK, PcRecord

LEMMA TypeInit == Init => TypeInv
<1> SUFFICES ASSUME Init PROVE TypeInv
  OBVIOUS
<1>1. CoreOK
  BY HalfOpenAssumption DEF Init, CoreOK, States
<1>2. At("idle", "none") \in PcRecord /\ At("idle", "none").stage # "deliver"
  BY DEF At, PcRecord, Goals
<1>3. NotifyOK
  <2>1. pending \in Nat /\ copied \in 0..pending
    BY DEF Init
  <2>3. missed \in BOOLEAN
    BY Zenon DEF Init
  <2>2. mine \in [Goroutines -> Nat] /\ pc \in [Goroutines -> PcRecord]
    BY <1>2 DEF Init
  <2> QED BY <2>1, <2>2, <2>3 DEF NotifyOK
<1>4. DeliversSome
  BY <1>2 DEF Init, DeliversSome
<1> QED BY <1>1, <1>3, <1>4 DEF TypeInv

\* Leaving a locked section for notify keeps what notify relies on.
LEMMA ThenNotifyTyped ==
  ASSUME NotifyOK, DeliversSome, NEW g \in Goroutines, NEW goal \in Goals,
         ThenNotify(g, goal), pending' \in {pending, pending + 1}
  PROVE  NotifyOK' /\ DeliversSome'
<1>1. At("take", goal) \in PcRecord
  BY DEF At, PcRecord, Stages
<1>2. pc' \in [Goroutines -> PcRecord]
  BY <1>1 DEF ThenNotify, NotifyOK
<1>3. NotifyOK'
  BY <1>2 DEF ThenNotify, NotifyOK
<1>4. DeliversSome'
  BY DEF ThenNotify, NotifyOK, DeliversSome, At
<1> QED BY <1>3, <1>4

LEMMA TypeNext == TypeInv /\ [Next]_vars => TypeInv'
<1> SUFFICES ASSUME TypeInv, [Next]_vars PROVE TypeInv'
  OBVIOUS
<1> USE HalfOpenAssumption DEF TypeInv
<1>1. ASSUME NEW c \in Calls, BeforeRequest(c) PROVE TypeInv'
  <2>1. CoreOK' /\ pending' \in {pending, pending + 1}
    BY <1>1 DEF BeforeRequest, TransitionTo, StaysPut, CoreOK, States
  <2>2. NotifyOK' /\ DeliversSome'
    BY <1>1, <2>1, ThenNotifyTyped DEF BeforeRequest, Goroutines, Goals
  <2> QED BY <2>1, <2>2
<1>2. ASSUME NEW c \in Calls, Reject(c) PROVE TypeInv'
  <2>1. CoreOK' /\ pending' = pending
    BY <1>2 DEF Reject, core, CoreOK
  <2>2. NotifyOK' /\ DeliversSome'
    BY <1>2, <2>1, ThenNotifyTyped DEF Reject, Goroutines, Goals
  <2> QED BY <2>1, <2>2
<1>3. ASSUME NEW c \in Calls, Succeed(c) PROVE TypeInv'
  <2>1. CoreOK' /\ pending' \in {pending, pending + 1}
    BY <1>3 DEF Succeed, TransitionTo, StaysPut, CoreOK, States
  <2>2. NotifyOK' /\ DeliversSome'
    BY <1>3, <2>1, ThenNotifyTyped DEF Succeed, Goroutines, Goals
  <2> QED BY <2>1, <2>2
<1>4. ASSUME NEW c \in Calls, Fail(c) PROVE TypeInv'
  <2>1. failures' \in Nat /\ fails' \in Nat /\ rested' = FALSE
        /\ halfOpenCalls' = halfOpenCalls /\ resets' = resets
    BY <1>4 DEF Fail, CoreOK
  <2>2. /\ state' \in States /\ trial' \subseteq Calls
        /\ pending' \in {pending, pending + 1}
    <3>1. CASE TransitionTo("OPEN") /\ trial' = {}
      BY <3>1 DEF TransitionTo, States
    <3>2. CASE StaysPut /\ UNCHANGED trial
      BY <3>2 DEF StaysPut, CoreOK
    <3> QED BY <1>4, <3>1, <3>2 DEF Fail
  <2>3. CoreOK'
    BY <2>1, <2>2 DEF CoreOK
  <2>4. NotifyOK' /\ DeliversSome'
    BY <1>4, <2>2, ThenNotifyTyped DEF Fail, Goroutines, Goals
  <2> QED BY <2>3, <2>4
<1>5. ASSUME NEW c \in Calls, Panic(c) PROVE TypeInv'
  <2>1. CoreOK'
    BY <1>5 DEF Panic, core, CoreOK
  <2>2. At("panicked", "none") \in PcRecord
    BY DEF At, PcRecord, Goals
  <2>3. NotifyOK'
    BY <1>5, <2>2 DEF Panic, NotifyOK
  <2>4. DeliversSome'
    BY <1>5 DEF Panic, NotifyOK, DeliversSome, At
  <2> QED BY <2>1, <2>3, <2>4
<1>6. ASSUME NEW o \in Operators, Reset(o) PROVE TypeInv'
  <2>1. CoreOK' /\ pending' \in {pending, pending + 1}
    BY <1>6 DEF Reset, TransitionTo, StaysPut, CoreOK, States
  <2>2. NotifyOK' /\ DeliversSome'
    BY <1>6, <2>1, ThenNotifyTyped DEF Reset, Goroutines, Goals
  <2> QED BY <2>1, <2>2
<1>7. ASSUME NEW g \in Goroutines, Take(g) PROVE TypeInv'
  <2>1. CoreOK'
    BY <1>7 DEF Take, core, CoreOK
  <2>2. pc' \in [Goroutines -> PcRecord]
    BY <1>7, PcTyped DEF Take, NotifyOK, Stages
  <2>3. NotifyOK'
    BY <1>7, <2>2 DEF Take, NotifyOK
  <2>4. DeliversSome'
    BY <1>7 DEF Take, NotifyOK, DeliversSome, PcRecord
  <2> QED BY <2>1, <2>3, <2>4
<1>8. ASSUME NEW g \in Goroutines, Clear(g) PROVE TypeInv'
  <2>1. CoreOK'
    BY <1>8 DEF Clear, core, CoreOK
  <2> DEFINE s == IF mine[g] = 0 THEN "settled" ELSE "deliver"
  <2>2. pc' \in [Goroutines -> PcRecord]
    <3>1. s \in Stages \cup {"idle", "settled", "panicked"}
      BY DEF Stages
    <3>2. pc' = [pc EXCEPT ![g] = [pc[g] EXCEPT !.stage = s]]
      BY <1>8 DEF Clear, NotifyOK
    <3> HIDE DEF s
    <3> QED BY <3>1, <3>2, PcTyped DEF NotifyOK
  <2>3. missed' \in BOOLEAN
    BY <1>8 DEF Clear
  <2>4. NotifyOK'
    BY <1>8, <2>2, <2>3 DEF Clear, NotifyOK
  <2>5. DeliversSome'
    BY <1>8 DEF Clear, NotifyOK, DeliversSome, PcRecord
  <2> QED BY <2>1, <2>4, <2>5
<1>9. ASSUME NEW g \in Goroutines, Deliver(g) PROVE TypeInv'
  <2>1. CoreOK'
    BY <1>9 DEF Deliver, core, CoreOK
  <2> DEFINE s == IF mine[g] = 1 THEN "settled" ELSE "deliver"
  <2>2. pc' \in [Goroutines -> PcRecord]
    <3>1. s \in Stages \cup {"idle", "settled", "panicked"}
      BY DEF Stages
    <3>2. pc' = [pc EXCEPT ![g] = [pc[g] EXCEPT !.stage = s]]
      BY <1>9 DEF Deliver, NotifyOK
    <3> HIDE DEF s
    <3> QED BY <3>1, <3>2, PcTyped DEF NotifyOK
  <2>3. mine[g] \in Nat /\ mine[g] > 0
    BY <1>9 DEF Deliver, DeliversSome, NotifyOK
  <2>4. mine' \in [Goroutines -> Nat]
    BY <1>9, <2>3 DEF Deliver, NotifyOK
  <2>5. NotifyOK'
    BY <1>9, <2>2, <2>4 DEF Deliver, NotifyOK
  <2>6. DeliversSome'
    BY <1>9, <2>3 DEF Deliver, NotifyOK, DeliversSome, PcRecord
  <2> QED BY <2>1, <2>5, <2>6
<1>10. CASE RecoveryTimeoutElapses
  BY <1>10 DEF RecoveryTimeoutElapses, CoreOK, NotifyOK, DeliversSome
<1>11. CASE UNCHANGED vars
  BY <1>11 DEF vars, core, CoreOK, NotifyOK, DeliversSome
<1> QED
  BY <1>1, <1>2, <1>3, <1>4, <1>5, <1>6, <1>7, <1>8, <1>9, <1>10, <1>11
     DEF Next, End, Notify

LEMMA TypeInvariant == Spec => []TypeInv
<1>1. TypeInv /\ [Next]_vars => TypeInv'
  BY TypeNext
<1> QED BY <1>1, TypeInit, PTL DEF Spec

\* Every reachable state is well typed: no more probes are counted than configured,
\* whatever calls end, trip, close or reset the breaker meanwhile.
THEOREM TypeCorrect == Spec => []TypeOK
  BY TypeInvariant, TypeInvTypeOK, PTL

-----------------------------------------------------------------------------
(* GoBreaker: refinement of BreakerContract.                               *)

\* The counter of a half-open period is the number of calls it let through: it is
\* stale whenever the circuit is not half-open, which is when nobody reads it.
TrialCounted ==
  /\ state = "HALF_OPEN" => IsFiniteSet(trial) /\ Cardinality(trial) = halfOpenCalls
  /\ state # "HALF_OPEN" => trial = {}
  /\ \A c \in trial : pc[c] # At("idle", "none")

\* Successes clear b.failures and never the failures recorded; and what has been
\* recorded keeps the circuit away from closed only past the threshold, although
\* b.failures may be back at 0 by then.
FailuresCounted ==
  /\ failures <= fails
  /\ state # "CLOSED" => fails >= FailureThreshold

Counted == TrialCounted /\ FailuresCounted

IInv == TypeInv /\ Counted

LEMMA CountedInit == Init => Counted
  BY DEF Init, Counted, TrialCounted, FailuresCounted

\* A step of one goroutine that leaves the breaker alone and does not put the
\* goroutine back at its beginning.
LEMMA CountedElsewhere ==
  ASSUME IInv, UNCHANGED core, NEW g \in Goroutines, NEW p, p # At("idle", "none"),
         pc' = [pc EXCEPT ![g] = p]
  PROVE  Counted'
<1>1. \A c \in trial : pc'[c] # At("idle", "none")
  BY DEF IInv, TypeInv, CoreOK, NotifyOK, Counted, TrialCounted, Goroutines
<1> QED
  BY <1>1 DEF IInv, Counted, TrialCounted, FailuresCounted, core

\* No call in notify, or let through, is a call that has not begun.
LEMMA StagesApart ==
  /\ \A goal : At("take", goal) # At("idle", "none") /\ At("panicked", goal) # At("idle", "none")
  /\ \A p \in PcRecord, s \in Stages \cup {"settled"} :
       [p EXCEPT !.stage = s] # At("idle", "none")
<1>1. \A goal : At("take", goal).stage = "take" /\ At("panicked", goal).stage = "panicked"
             /\ At("idle", "none").stage = "idle"
  BY DEF At
<1>2. \A p \in PcRecord, s \in Stages \cup {"settled"} : [p EXCEPT !.stage = s].stage = s
  BY DEF PcRecord
<1> QED BY <1>1, <1>2 DEF Stages

LEMMA CountedNext == IInv /\ [Next]_vars => Counted'
<1> SUFFICES ASSUME IInv, [Next]_vars PROVE Counted'
  OBVIOUS
<1> USE DEF IInv, TypeInv
<1>t. /\ state \in States /\ failures \in Nat /\ fails \in Nat /\ trial \subseteq Calls
      /\ halfOpenCalls \in Nat /\ pc \in [Goroutines -> PcRecord] /\ Calls \subseteq Goroutines
  BY DEF CoreOK, NotifyOK, Goroutines
<1>1. ASSUME NEW c \in Calls, BeforeRequest(c) PROVE Counted'
  <2>1. c \notin trial
    BY <1>1 DEF BeforeRequest, Counted, TrialCounted
  <2>2. failures' = failures /\ fails' = fails
    BY <1>1 DEF BeforeRequest
  <2>3. pc' = [pc EXCEPT ![c] = At("take", "running")]
    BY <1>1 DEF BeforeRequest, ThenNotify
  <2>4. \A d \in trial \cup {c} : pc'[d] # At("idle", "none")
    BY <1>t, <2>3, StagesApart DEF Counted, TrialCounted
  <2>5. CASE state = "CLOSED" /\ StaysPut /\ UNCHANGED <<halfOpenCalls, trial>>
    BY <2>2, <2>4, <2>5 DEF StaysPut, Counted, TrialCounted, FailuresCounted
  <2>6. CASE state = "OPEN" /\ TransitionTo("HALF_OPEN") /\ halfOpenCalls' = 1 /\ trial' = {c}
    <3>1. IsFiniteSet(trial') /\ Cardinality(trial') = halfOpenCalls'
      BY <2>6, FS_Singleton
    <3> QED
      BY <2>2, <2>4, <2>6, <3>1 DEF TransitionTo, Counted, TrialCounted, FailuresCounted
  <2>7. CASE /\ state = "HALF_OPEN" /\ halfOpenCalls' = halfOpenCalls + 1
             /\ trial' = trial \cup {c} /\ StaysPut
    <3>1. IsFiniteSet(trial') /\ Cardinality(trial') = halfOpenCalls'
      BY <2>1, <2>7, FS_AddElement DEF Counted, TrialCounted
    <3> QED
      BY <2>2, <2>4, <2>7, <3>1 DEF StaysPut, Counted, TrialCounted, FailuresCounted
  <2> QED BY <1>1, <2>5, <2>6, <2>7 DEF BeforeRequest
<1>2. ASSUME NEW c \in Calls, Reject(c) PROVE Counted'
  <2>1. UNCHANGED core /\ pc' = [pc EXCEPT ![c] = At("take", "rejected")]
    BY <1>2 DEF Reject, ThenNotify
  <2> QED BY <1>t, <2>1, CountedElsewhere, StagesApart
<1>3. ASSUME NEW c \in Calls, Succeed(c) PROVE Counted'
  <2>1. pc' = [pc EXCEPT ![c] = At("take", "returned")] /\ failures' = 0
        /\ halfOpenCalls' = halfOpenCalls
    BY <1>3 DEF Succeed, ThenNotify
  <2>2. CASE state = "HALF_OPEN"
    <3>1. state' = "CLOSED" /\ trial' = {} /\ fails' = 0
      BY <1>3, <2>2 DEF Succeed, TransitionTo
    <3> QED BY <2>1, <3>1 DEF Counted, TrialCounted, FailuresCounted
  <2>3. CASE state # "HALF_OPEN"
    <3>1. state' = state /\ trial' = trial /\ fails' = fails
      BY <1>3, <2>3 DEF Succeed, StaysPut
    <3> QED BY <1>t, <2>1, <2>3, <3>1 DEF Counted, TrialCounted, FailuresCounted
  <2> QED BY <2>2, <2>3
<1>4. ASSUME NEW c \in Calls, Fail(c) PROVE Counted'
  <2>1. failures' = failures + 1 /\ fails' = fails + 1
    BY <1>4 DEF Fail
  <2>2. state' # "HALF_OPEN" /\ trial' = {}
    BY <1>t, <1>4 DEF Fail, TransitionTo, StaysPut, States, Counted, TrialCounted
  <2>3. state' # "CLOSED" => fails' >= FailureThreshold
    BY <1>t, <1>4, ThresholdAssumption
       DEF Fail, TransitionTo, StaysPut, States, Counted, FailuresCounted
  <2>4. failures' <= fails'
    BY <1>t, <2>1 DEF Counted, FailuresCounted
  <2> QED BY <2>2, <2>3, <2>4 DEF Counted, TrialCounted, FailuresCounted
<1>5. ASSUME NEW c \in Calls, Panic(c) PROVE Counted'
  <2>1. UNCHANGED core /\ pc' = [pc EXCEPT ![c] = At("panicked", "none")]
    BY <1>5 DEF Panic
  <2> QED BY <1>t, <2>1, CountedElsewhere, StagesApart
<1>6. ASSUME NEW o \in Operators, Reset(o) PROVE Counted'
  <2>1. state' = "CLOSED" /\ trial' = {} /\ failures' = 0 /\ fails' = 0
    BY <1>6 DEF Reset, TransitionTo, StaysPut
  <2> QED BY <2>1 DEF Counted, TrialCounted, FailuresCounted
<1>7. ASSUME NEW g \in Goroutines, Notify(g) PROVE Counted'
  <2>1. UNCHANGED core
        /\ \E s \in Stages \cup {"settled"} : pc' = [pc EXCEPT ![g] = [pc[g] EXCEPT !.stage = s]]
    <3>1. CASE Take(g)
      BY <1>t, <3>1 DEF Take, Stages
    <3>2. CASE Clear(g)
      BY <1>t, <3>2 DEF Clear, Stages
    <3>3. CASE Deliver(g)
      BY <1>t, <3>3 DEF Deliver, Stages
    <3> QED BY <1>7, <3>1, <3>2, <3>3 DEF Notify
  <2>2. pc[g] \in PcRecord
    BY <1>t
  <2> QED BY <2>1, <2>2, CountedElsewhere, StagesApart
<1>8. CASE RecoveryTimeoutElapses
  BY <1>8 DEF RecoveryTimeoutElapses, Counted, TrialCounted, FailuresCounted
<1>9. CASE UNCHANGED vars
  BY <1>9 DEF vars, core, Counted, TrialCounted, FailuresCounted
<1> QED
  BY <1>1, <1>2, <1>3, <1>4, <1>5, <1>6, <1>7, <1>8, <1>9 DEF Next, End

LEMMA Inductive == Spec => []IInv
<1>1. Init => IInv
  BY TypeInit, CountedInit DEF IInv
<1>2. IInv /\ [Next]_vars => IInv'
  BY TypeNext, CountedNext DEF IInv
<1> QED BY <1>1, <1>2, PTL DEF Spec

LEMMA ContractInit == Init => Contract!Init
  BY FS_EmptySet DEF Init, Mode, Contract!Init

LEMMA ContractNext == IInv /\ IInv' /\ [Next]_vars => [Contract!Next]_(Contract!cvars)
<1> SUFFICES ASSUME IInv, IInv', [Next]_vars
             PROVE  Contract!Next \/ UNCHANGED Contract!cvars
  OBVIOUS
<1> USE DEF Contract!cvars
<1>t. state \in States /\ state' \in States /\ failures \in Nat /\ fails \in Nat
      /\ halfOpenCalls \in Nat
  BY DEF IInv, TypeInv, CoreOK
<1>m. /\ state = "CLOSED" => Mode = "closed"
      /\ state = "OPEN" => Mode = "open"
      /\ state = "HALF_OPEN" => Mode = "half_open"
  BY DEF Mode
<1>n. /\ state' = "CLOSED" => Mode' = "closed"
      /\ state' = "OPEN" => Mode' = "open"
      /\ state' = "HALF_OPEN" => Mode' = "half_open"
  BY DEF Mode
<1>0. Cardinality({}) = 0
  BY FS_EmptySet
<1>c. /\ state = "HALF_OPEN" => Cardinality(trial) = halfOpenCalls
      /\ state' = "HALF_OPEN" => Cardinality(trial') = halfOpenCalls'
      /\ state # "HALF_OPEN" => trial = {}
      /\ state' # "HALF_OPEN" => trial' = {}
  BY DEF IInv, Counted, TrialCounted
<1>u. ASSUME UNCHANGED core PROVE UNCHANGED Contract!cvars
  BY <1>u DEF core, Mode
<1>1. ASSUME NEW c \in Calls, BeforeRequest(c)
      PROVE  Contract!Next \/ UNCHANGED Contract!cvars
  <2>1. fails' = fails /\ rested' = rested /\ resets' = resets
    BY <1>1 DEF BeforeRequest
  <2>2. CASE state = "CLOSED" /\ StaysPut /\ UNCHANGED <<halfOpenCalls, trial>>
    BY <1>m, <1>n, <2>1, <2>2 DEF StaysPut
  <2>3. CASE state = "OPEN" /\ rested /\ TransitionTo("HALF_OPEN") /\ halfOpenCalls' = 1
    <3>1. Contract!StartTrial
      BY <1>m, <1>n, <1>c, <2>1, <2>3 DEF TransitionTo, Contract!StartTrial
    <3> QED BY <3>1 DEF Contract!Next
  <2>4. CASE /\ state = "HALF_OPEN" /\ halfOpenCalls < HalfOpenMaxCalls
             /\ halfOpenCalls' = halfOpenCalls + 1 /\ StaysPut
    <3>1. Contract!Probe
      BY <1>m, <1>n, <1>c, <2>1, <2>4 DEF StaysPut, Contract!Probe
    <3> QED BY <3>1 DEF Contract!Next
  <2> QED BY <1>1, <2>2, <2>3, <2>4 DEF BeforeRequest
<1>2. ASSUME NEW c \in Calls, Reject(c) \/ Panic(c)
      PROVE  UNCHANGED Contract!cvars
  BY <1>2, <1>u DEF Reject, Panic
<1>3. ASSUME NEW c \in Calls, Succeed(c)
      PROVE  Contract!Next \/ UNCHANGED Contract!cvars
  <2>1. rested' = rested /\ resets' = resets
    BY <1>3 DEF Succeed
  <2>2. CASE state = "HALF_OPEN"
    <3>1. state' = "CLOSED" /\ trial' = {} /\ fails' = 0
      BY <1>3, <2>2 DEF Succeed, TransitionTo
    <3>2. Contract!Recover
      BY <1>m, <1>n, <1>0, <2>1, <2>2, <3>1 DEF Contract!Recover
    <3> QED BY <3>2 DEF Contract!Next
  <2>3. CASE state # "HALF_OPEN"
    <3>1. state' = state /\ trial' = trial /\ fails' = fails
      BY <1>3, <2>3 DEF Succeed, StaysPut
    <3> QED BY <2>1, <3>1 DEF Mode
  <2> QED BY <2>2, <2>3
<1>4. ASSUME NEW c \in Calls, Fail(c)
      PROVE  Contract!Next
  <2>1. failures' = failures + 1 /\ fails' = fails + 1 /\ rested' = FALSE /\ resets' = resets
    BY <1>4 DEF Fail
  <2>2. CASE TransitionTo("OPEN") /\ state \in {"CLOSED", "HALF_OPEN"}
    <3>1. state' = "OPEN" /\ fails + 1 >= FailureThreshold
      BY <1>t, <2>1, <2>2, ThresholdAssumption
         DEF TransitionTo, IInv, Counted, FailuresCounted
    <3>2. Contract!Trip
      BY <1>m, <1>n, <1>0, <1>c, <2>1, <2>2, <3>1 DEF Contract!Trip
    <3> QED BY <3>2 DEF Contract!Next
  <2>3. CASE StaysPut /\ UNCHANGED trial /\ state # "HALF_OPEN"
    <3>1. Contract!Note
      BY <1>t, <1>m, <1>n, <2>1, <2>3 DEF StaysPut, States, Contract!Note
    <3> QED BY <3>1 DEF Contract!Next
  <2> QED BY <1>4, <2>2, <2>3 DEF Fail
<1>5. ASSUME NEW o \in Operators, Reset(o) PROVE Contract!CloseByHand
  <2>1. state' = "CLOSED"
    BY <1>5 DEF Reset, TransitionTo, StaysPut
  <2> QED BY <1>n, <1>0, <1>5, <2>1 DEF Reset, Contract!CloseByHand
<1>6. ASSUME NEW g \in Goroutines, Notify(g) PROVE UNCHANGED Contract!cvars
  BY <1>6, <1>u DEF Notify, Take, Clear, Deliver
<1>7. ASSUME RecoveryTimeoutElapses PROVE Contract!Rest
  BY <1>7 DEF RecoveryTimeoutElapses, Mode, Contract!Rest
<1>8. CASE UNCHANGED vars
  BY <1>8, <1>u DEF vars
<1> QED
  BY <1>1, <1>2, <1>3, <1>4, <1>5, <1>6, <1>7, <1>8 DEF Next, End, Contract!Next

\* The breaker of pkg/circuitbreaker, with the calls it really let through as the
\* trial, implements the abstract circuit breaker: also when late outcomes of calls
\* let through before it opened are applied in the middle of a half-open period, and
\* for every number of goroutines inside notify.
THEOREM Implements == Spec => ImplementsContract
<1>1. Init => Contract!Init
  BY ContractInit
<1>2. IInv /\ IInv' /\ [Next]_vars => [Contract!Next]_(Contract!cvars)
  BY ContractNext
<1> QED BY <1>1, <1>2, Inductive, PTL DEF Spec, ImplementsContract, Contract!Spec

-----------------------------------------------------------------------------
(* FeedbackLoop: the cooldown of alerts.                                   *)

(* Why the cooldown holds: as long as a rule that fired was not found clear*)
(* and evaluations did not overlap, the rule stays marked, only one        *)
(* evaluation is under way, and it found the rule triggered if it got that *)
(* far.                                                                    *)
Quiet == ~cleared /\ ~overlap

CooldownInv ==
  /\ DOMAIN eval = Evaluators
  /\ Quiet =>
       /\ fired = TRUE
       /\ \A e, f \in Evaluators : eval[e].pc # "idle" /\ eval[f].pc # "idle" => e = f
       /\ \A e \in Evaluators : eval[e].pc = "evaluated" => eval[e].triggered = TRUE

LEMMA InitCooldown == LoopInit => CooldownInv
BY DEF LoopInit, CooldownInv, Quiet

LEMMA StepCooldown ==
  ASSUME CooldownInv, [LoopNext]_loopVars
  PROVE  CooldownInv'
<1>1. CASE UNCHANGED evalVars
  BY <1>1 DEF CooldownInv, Quiet, evalVars
<1>2. ASSUME NEW e \in Evaluators, Begin(e)
      PROVE  CooldownInv'
  BY <1>2 DEF Begin, AtEval, Others, CooldownInv, Quiet
<1>3. ASSUME NEW e \in Evaluators, Stats(e)
      PROVE  CooldownInv'
  <2>1. PICK kept : \E triggered \in Verdicts(kept) :
          /\ eval' = [eval EXCEPT ![e] =
                       [pc |-> "evaluated", now |-> eval[e].now, triggered |-> triggered]]
          /\ cleared' = (cleared \/ ~triggered)
    BY <1>3 DEF Stats
  <2>2. Verdicts(kept) \subseteq BOOLEAN
    BY DEF Verdicts
  <2>3. PICK triggered \in BOOLEAN :
          /\ eval' = [eval EXCEPT ![e] =
                       [pc |-> "evaluated", now |-> eval[e].now, triggered |-> triggered]]
          /\ cleared' = (cleared \/ ~triggered)
    BY <2>1, <2>2
  <2>4. UNCHANGED <<fired, overlap>> /\ eval[e].pc = "begun"
    BY <1>3 DEF Stats, AtEval
  <2>5. CASE triggered = TRUE
    BY <2>3, <2>4, <2>5 DEF CooldownInv, Quiet
  <2>6. CASE triggered = FALSE
    BY <2>3, <2>4, <2>6 DEF CooldownInv, Quiet
  <2> QED
    BY <2>5, <2>6
<1>4. ASSUME NEW e \in Evaluators, Decide(e)
      PROVE  CooldownInv'
  <2>1. CASE Fires(e)
    BY <1>4, <2>1 DEF Decide, Fires, Marked, AtEval, Others, CooldownInv, Quiet
  <2>2. CASE ~Fires(e)
    BY <1>4, <2>2 DEF Decide, Fires, Marked, AtEval, Others, CooldownInv, Quiet
  <2> QED
    BY <2>1, <2>2
<1>5. CASE UNCHANGED loopVars
  BY <1>5, <1>1 DEF loopVars
<1>6. LoopNext => \/ UNCHANGED evalVars
              \/ \E e \in Evaluators : Begin(e) \/ Stats(e) \/ Decide(e)
  BY DEF LoopNext, Tick, Close, Accept, Push, Record, EmitUnchanged
<1> QED
  BY <1>1, <1>2, <1>3, <1>4, <1>5, <1>6

(* A rule that fired does not fire again before an evaluation found it     *)
(* clear, unless evaluations overlapped (AlertEngine.Evaluate's cooldown). *)
THEOREM CooldownHolds == LoopSpec => Cooldown
<1>1. LoopSpec => []CooldownInv
  BY InitCooldown, StepCooldown, PTL DEF LoopSpec
<1>2. CooldownInv /\ [LoopNext]_loopVars =>
        [\A e \in Evaluators : Fires(e) /\ Decide(e) => cleared \/ overlap]_loopVars
  BY DEF CooldownInv, Quiet, Fires
<1> QED
  BY <1>1, <1>2, PTL DEF LoopSpec, Cooldown

-----------------------------------------------------------------------------
(* FeedbackLoop: the window of the aggregator.                             *)

LEMMA SmallestExists ==
  ASSUME NEW S \in SUBSET Nat, S # {}
  PROVE  \E i \in S : \A j \in S : i <= j
<1> DEFINE R == {p \in Nat \X Nat : p[1] < p[2]}
<1>1. R = OpToRel(<, Nat)
  BY Zenon DEF OpToRel
<1>2. IsWellFoundedOn(R, Nat)
  BY <1>1, NatLessThanWellFounded, Zenon
<1>3. PICK i \in S : \A j \in S : ~(<<j, i>> \in R)
  BY <1>2, WFMin, Zenon
<1>4. ASSUME NEW j \in S
      PROVE  i <= j
  <2>1. ~(<<j, i>> \in R)
    BY <1>3
  <2>2. i \in Nat /\ j \in Nat
    OBVIOUS
  <2>3. ~(j < i)
    BY <2>1, <2>2
  <2> QED
    BY <2>2, <2>3
<1> QED
  BY <1>4

(* A signal, with the number 0 as long as it is not in the ring buffer.    *)
Entry == [n : Nat, source : Sources, severity : 0..1, ts : Int]

(* Pruning keeps every entry that is not expired.                          *)
LEMMA PrunedKeeps ==
  ASSUME NEW s \in Seq(Entry), NEW cutoff \in Int
  PROVE  /\ Pruned(s, cutoff) \in Seq(Entry)
         /\ \A i \in DOMAIN s : s[i].ts >= cutoff =>
              \E j \in DOMAIN Pruned(s, cutoff) : Pruned(s, cutoff)[j] = s[i]
<1> DEFINE live == {i \in DOMAIN s : s[i].ts >= cutoff}
           first == CHOOSE i \in live : \A j \in live : i <= j
<1>1. CASE live = {}
  BY <1>1 DEF Pruned
<1>2. CASE live # {}
  <2>1. live \in SUBSET Nat
    OBVIOUS
  <2>2. first \in live /\ \A j \in live : first <= j
    BY <1>2, <2>1, SmallestExists
  <2>3. first \in 1..Len(s)
    BY <2>2
  <2>4. Pruned(s, cutoff) = SubSeq(s, first, Len(s))
    BY <1>2 DEF Pruned
  <2> HIDE DEF first
  <2>5. /\ Pruned(s, cutoff) \in Seq(Entry)
        /\ Len(Pruned(s, cutoff)) = Len(s) - first + 1
        /\ \A k \in 1..(Len(s) - first + 1) : Pruned(s, cutoff)[k] = s[first + k - 1]
    BY <2>3, <2>4
  <2>6. ASSUME NEW i \in DOMAIN s, s[i].ts >= cutoff
        PROVE  \E j \in DOMAIN Pruned(s, cutoff) : Pruned(s, cutoff)[j] = s[i]
    <3>1. first <= i /\ i \in 1..Len(s)
      BY <2>2, <2>6
    <3>2. i - first + 1 \in 1..(Len(s) - first + 1)
      BY <3>1, <2>3
    <3>3. Pruned(s, cutoff)[i - first + 1] = s[i]
      BY <3>1, <3>2, <2>3, <2>5
    <3>4. DOMAIN Pruned(s, cutoff) = 1..(Len(s) - first + 1)
      BY <2>3, <2>5
    <3> QED
      BY <3>2, <3>3, <3>4
  <2> QED
    BY <2>5, <2>6
<1> QED
  BY <1>1, <1>2

LEMMA PrunedKeepsSet ==
  ASSUME NEW s \in Seq(Entry), NEW cutoff \in Int, NEW x \in ToSet(s), x.ts >= cutoff
  PROVE  x \in ToSet(Pruned(s, cutoff))
<1>1. PICK i \in DOMAIN s : s[i] = x
  BY DEF ToSet
<1>2. \E j \in DOMAIN Pruned(s, cutoff) : Pruned(s, cutoff)[j] = x
  BY <1>1, PrunedKeeps
<1> QED
  BY <1>2 DEF ToSet

(* Types, as far as they are needed, and clocks that evaluations read      *)
(* earlier.                                                                *)
SignalsInv ==
  /\ clock \in Nat
  /\ pushed \in Seq(Entry)
  /\ DOMAIN emit = Emitters
  /\ \A e \in Emitters : emit[e].pc # "idle" => emit[e].sig \in Entry
  /\ entries \in [Sources -> Seq(Entry)]
  /\ severity \in [Sources -> 0..1]
  /\ recorded \subseteq Entry
  /\ DOMAIN eval = Evaluators
  /\ \A e \in Evaluators : eval[e].now \in Int /\ eval[e].now <= clock

LEMMA InitSignals == LoopInit => SignalsInv /\ WindowKept
BY DEF LoopInit, SignalsInv, WindowKept, HighestSeverity

LEMMA HighestSeverityType ==
  ASSUME NEW s
  PROVE  HighestSeverity(s) \in 0..1
BY DEF HighestSeverity

LEMMA AcceptSignals ==
  ASSUME SignalsInv, WindowKept, NEW e \in Emitters, NEW source \in Sources, NEW sev \in 0..1,
         Accept(e, source, sev)
  PROVE  SignalsInv' /\ WindowKept'
<1> DEFINE sig == [n |-> 0, source |-> source, severity |-> sev, ts |-> clock]
<1>1. sig \in Entry
  BY DEF SignalsInv, Entry
<1> HIDE DEF sig
<1>2. /\ emit' = [emit EXCEPT ![e] = [pc |-> "accepted", sig |-> sig]]
      /\ UNCHANGED <<clock, pushed, entries, severity, recorded, eval>>
  BY DEF Accept, EmitUnchanged, aggVars, evalVars, sig
<1>3. SignalsInv'
  BY <1>1, <1>2 DEF SignalsInv
<1>4. WindowKept'
  BY <1>2 DEF WindowKept
<1> QED
  BY <1>3, <1>4

LEMMA PushSignals ==
  ASSUME SignalsInv, WindowKept, NEW e \in Emitters, Push(e)
  PROVE  SignalsInv' /\ WindowKept'
<1> DEFINE sig == [emit[e].sig EXCEPT !.n = Len(pushed) + 1]
<1>1. Len(pushed) + 1 \in Nat
  BY DEF SignalsInv
<1>2. emit[e].sig \in Entry
  BY DEF SignalsInv, Push, Stands
<1>3. sig \in Entry
  BY <1>1, <1>2 DEF Entry
<1> HIDE DEF sig
<1>4. /\ emit' = [emit EXCEPT ![e] = [pc |-> "stored", sig |-> sig]]
      /\ pushed' = Append(pushed, sig)
      /\ UNCHANGED <<clock, entries, severity, recorded, eval>>
  BY DEF Push, EmitUnchanged, aggVars, evalVars, sig
<1>5. pushed' \in Seq(Entry)
  BY <1>3, <1>4 DEF SignalsInv
<1>6. SignalsInv'
  BY <1>3, <1>4, <1>5 DEF SignalsInv
<1>7. WindowKept'
  BY <1>4 DEF WindowKept
<1> QED
  BY <1>6, <1>7

(* An appended entry raises the highest severity to its own, or not.       *)
LEMMA AppendSeverity ==
  ASSUME NEW s \in Seq(Entry), NEW sig \in Entry
  PROVE  /\ HighestSeverity(Append(s, sig)) =
              (IF sig.severity > HighestSeverity(s) THEN sig.severity ELSE HighestSeverity(s))
         /\ ToSet(Append(s, sig)) = ToSet(s) \cup {sig}
<1>1. /\ DOMAIN Append(s, sig) = 1..(Len(s) + 1) /\ DOMAIN s = 1..Len(s)
      /\ \A i \in 1..Len(s) : Append(s, sig)[i] = s[i]
      /\ Append(s, sig)[Len(s) + 1] = sig
      /\ Len(s) \in Nat
  OBVIOUS
<1>2. sig.severity \in {0, 1}
  BY DEF Entry
<1>3. (\E i \in DOMAIN Append(s, sig) : Append(s, sig)[i].severity = 1)
        <=> (\E i \in DOMAIN s : s[i].severity = 1) \/ sig.severity = 1
  BY <1>1
<1>4. ToSet(Append(s, sig)) = ToSet(s) \cup {sig}
  BY <1>1 DEF ToSet
<1> QED
  BY <1>2, <1>3, <1>4 DEF HighestSeverity

LEMMA RecordSignals ==
  ASSUME SignalsInv, WindowKept, NEW e \in Emitters, Record(e)
  PROVE  SignalsInv' /\ WindowKept'
<1> DEFINE sig == emit[e].sig
           src == sig.source
<1>1. sig \in Entry /\ src \in Sources
  BY DEF SignalsInv, Record, Stands, Entry
<1>2. /\ entries' = [entries EXCEPT ![src] = Append(entries[src], sig)]
      /\ severity' = [severity EXCEPT ![src] =
                        IF sig.severity > severity[src] THEN sig.severity ELSE severity[src]]
      /\ recorded' = recorded \cup {sig}
      /\ emit' = [emit EXCEPT ![e] = [pc |-> "idle", sig |-> None]]
      /\ UNCHANGED <<clock, pushed, eval>>
  BY DEF Record, EmitUnchanged, evalVars
<1> HIDE DEF sig, src
<1>3. entries[src] \in Seq(Entry) /\ severity[src] = HighestSeverity(entries[src])
  BY <1>1 DEF SignalsInv, WindowKept
<1>4. sig.severity \in 0..1
  BY <1>1 DEF Entry
<1>5. entries' \in [Sources -> Seq(Entry)]
  BY <1>1, <1>2 DEF SignalsInv
<1>6. severity' \in [Sources -> 0..1]
  BY <1>2, <1>4 DEF SignalsInv
<1>7. recorded' \subseteq Entry
  BY <1>1, <1>2 DEF SignalsInv
<1>8. SignalsInv'
  BY <1>2, <1>5, <1>6, <1>7 DEF SignalsInv
<1>9. ASSUME NEW s \in Sources
      PROVE  /\ severity'[s] = HighestSeverity(entries'[s])
             /\ ToSet(entries[s]) \subseteq ToSet(entries'[s])
  <2>1. CASE s = src
    BY <1>1, <1>2, <1>3, <2>1, AppendSeverity DEF SignalsInv
  <2>2. CASE s # src
    BY <1>2, <2>2 DEF SignalsInv, WindowKept
  <2> QED
    BY <2>1, <2>2
<1>10. sig \in ToSet(entries'[src])
  BY <1>1, <1>2, <1>3, AppendSeverity DEF SignalsInv
<1>11. \A r \in recorded : r.source \in Sources
  BY DEF SignalsInv, Entry
<1>12. ASSUME NEW r \in recorded', r.ts >= clock' - Window
       PROVE  r \in ToSet(entries'[r.source])
  <2>1. CASE r = sig
    BY <1>10, <2>1 DEF src
  <2>2. CASE r \in recorded
    BY <1>2, <1>9, <1>11, <1>12, <2>2 DEF WindowKept
  <2> QED
    BY <1>2, <2>1, <2>2
<1>13. WindowKept'
  BY <1>9, <1>12 DEF WindowKept
<1> QED
  BY <1>8, <1>13

LEMMA StatsSignals ==
  ASSUME SignalsInv, WindowKept, NEW e \in Evaluators, Stats(e)
  PROVE  SignalsInv' /\ WindowKept'
<1> DEFINE cutoff == eval[e].now - Window
           kept == [s \in Sources |-> Pruned(entries[s], cutoff)]
<1>1. /\ entries' = kept
      /\ severity' = [s \in Sources |-> IF kept[s] = entries[s] THEN severity[s]
                                        ELSE HighestSeverity(kept[s])]
      /\ UNCHANGED <<clock, pushed, emit, recorded>>
      /\ \E triggered : eval' = [eval EXCEPT ![e] =
           [pc |-> "evaluated", now |-> eval[e].now, triggered |-> triggered]]
  BY DEF Stats, emitVars
<1>2. cutoff \in Int /\ cutoff <= clock - Window /\ Window \in Int /\ clock \in Int
  BY LoopAssumption DEF SignalsInv
<1> HIDE DEF cutoff
<1>3. \A s \in Sources : entries[s] \in Seq(Entry)
  BY DEF SignalsInv
<1>4. \A s \in Sources : kept[s] \in Seq(Entry)
  BY <1>2, <1>3, PrunedKeeps
<1>5. entries' \in [Sources -> Seq(Entry)]
  BY <1>1, <1>4
<1>6. \A s \in Sources : severity'[s] = HighestSeverity(entries'[s])
  BY <1>1 DEF WindowKept
<1>7. severity' \in [Sources -> 0..1]
  BY <1>1, HighestSeverityType DEF SignalsInv
<1>8. DOMAIN eval' = Evaluators /\ \A f \in Evaluators : eval'[f].now = eval[f].now
  BY <1>1 DEF SignalsInv
<1>9. SignalsInv'
  BY <1>1, <1>5, <1>7, <1>8 DEF SignalsInv
<1>10. ASSUME NEW r \in recorded', r.ts >= clock' - Window
       PROVE  r \in ToSet(entries'[r.source])
  <2>1. r \in recorded /\ r \in Entry /\ r.source \in Sources /\ r.ts \in Int
    BY <1>1 DEF SignalsInv, Entry
  <2>2. r.ts >= clock - Window
    BY <1>1, <1>10
  <2>3. r \in ToSet(entries[r.source])
    BY <2>1, <2>2 DEF WindowKept
  <2>4. r.ts >= cutoff
    BY <1>2, <2>1, <2>2
  <2>5. r \in ToSet(Pruned(entries[r.source], cutoff))
    BY <1>2, <1>3, <2>1, <2>3, <2>4, PrunedKeepsSet
  <2> QED
    BY <1>1, <2>1, <2>5
<1>11. WindowKept'
  BY <1>6, <1>10 DEF WindowKept
<1> QED
  BY <1>9, <1>11

LEMMA StepSignals ==
  ASSUME SignalsInv, WindowKept, [LoopNext]_loopVars
  PROVE  SignalsInv' /\ WindowKept'
<1>1. CASE Tick
  <2>1. clock' = clock + 1 /\ UNCHANGED <<emit, pushed, entries, severity, recorded, eval>>
    BY <1>1 DEF Tick, emitVars, aggVars, evalVars
  <2>2. clock \in Nat /\ clock' \in Nat /\ Window \in Int
    BY <2>1, LoopAssumption DEF SignalsInv
  <2>3. \A e \in Evaluators : eval'[e].now \in Int /\ eval'[e].now <= clock'
    BY <2>1, <2>2 DEF SignalsInv
  <2>4. SignalsInv'
    BY <2>1, <2>2, <2>3 DEF SignalsInv
  <2>5. ASSUME NEW r \in recorded, r.ts >= clock' - Window
        PROVE  r.ts >= clock - Window
    <3>1. r.ts \in Int
      BY DEF SignalsInv, Entry
    <3> QED
      BY <2>1, <2>2, <2>5, <3>1
  <2>6. \A r \in recorded' : r.ts >= clock' - Window => r \in ToSet(entries'[r.source])
    BY <2>1, <2>5 DEF WindowKept
  <2>7. \A s \in Sources : severity'[s] = HighestSeverity(entries'[s])
    BY <2>1 DEF WindowKept
  <2> QED
    BY <2>4, <2>6, <2>7 DEF WindowKept
<1>2. CASE Close
  BY <1>2 DEF Close, EmitUnchanged, aggVars, evalVars, SignalsInv, WindowKept
<1>3. ASSUME NEW e \in Evaluators, Begin(e)
      PROVE  SignalsInv' /\ WindowKept'
  BY <1>3 DEF Begin, emitVars, aggVars, SignalsInv, WindowKept
<1>4. ASSUME NEW e \in Evaluators, Decide(e)
      PROVE  SignalsInv' /\ WindowKept'
  <2>1. /\ UNCHANGED <<clock, emit, pushed, entries, severity, recorded>>
        /\ eval' = [eval EXCEPT ![e] = [pc |-> "idle", now |-> 0, triggered |-> FALSE]]
    BY <1>4 DEF Decide, emitVars, aggVars
  <2>2. SignalsInv'
    BY <2>1 DEF SignalsInv
  <2> QED
    BY <2>1, <2>2 DEF WindowKept
<1>5. CASE UNCHANGED loopVars
  BY <1>5 DEF loopVars, emitVars, aggVars, evalVars, SignalsInv, WindowKept
<1> QED
  BY <1>1, <1>2, <1>3, <1>4, <1>5, AcceptSignals, PushSignals, RecordSignals, StatsSignals
  DEF LoopNext

(* Whatever the order signals are recorded in, and however late the cutoff *)
(* of a Stats call is used, the aggregator keeps every signal of its       *)
(* window, and each bucket's severity is the highest of its entries.       *)
THEOREM WindowAlwaysKept == LoopSpec => []WindowKept
<1>1. LoopSpec => [](SignalsInv /\ WindowKept)
  BY InitSignals, StepSignals, PTL DEF LoopSpec
<1> QED
  BY <1>1, PTL

-----------------------------------------------------------------------------
(* The ring buffer. *)

(* The slot of the k-th latest signal: k before the head, around the ring. *)
Back(k) == IF k <= head THEN head - k ELSE head - k + Cap

(* Why Snapshot is right: walking back from the head, the slots hold the   *)
(* pushed signals from the last one on.                                    *)
RingInv ==
  /\ pushed \in Seq(Entry)
  /\ head \in 0..(Cap - 1)
  /\ size = IF Len(pushed) < Cap THEN Len(pushed) ELSE Cap
  /\ DOMAIN buf = 0..(Cap - 1)
  /\ \A k \in 1..size : buf[Back(k)] = pushed[Len(pushed) + 1 - k]

LEMMA InitRing == LoopInit => RingInv
BY LoopAssumption DEF LoopInit, RingInv, None

LEMMA PushRing ==
  ASSUME RingInv, SignalsInv, NEW e \in Emitters, Push(e)
  PROVE  RingInv'
<1> DEFINE sig == [emit[e].sig EXCEPT !.n = Len(pushed) + 1]
           n == Len(pushed)
<1>1. sig \in Entry
  <2>1. emit[e].sig \in Entry
    BY DEF SignalsInv, Push, Stands
  <2>2. Len(pushed) + 1 \in Nat
    BY DEF SignalsInv
  <2> QED
    BY <2>1, <2>2 DEF Entry
<1> HIDE DEF sig
<1>2. /\ buf' = [i \in DOMAIN buf |-> IF i = head THEN sig ELSE buf[i]]
      /\ pushed' = Append(pushed, sig)
      /\ head' = (head + 1) % Cap
      /\ size' = IF size < Cap THEN size + 1 ELSE size
  BY DEF Push, NextHead, sig
<1>3. /\ Cap \in Nat \ {0} /\ head \in 0..(Cap - 1) /\ n \in Nat
      /\ size = IF n < Cap THEN n ELSE Cap
      /\ DOMAIN buf = 0..(Cap - 1)
  BY LoopAssumption DEF RingInv
<1> HIDE DEF n
<1>4. head' = IF head + 1 < Cap THEN head + 1 ELSE 0
  <2>1. CASE head + 1 < Cap
    BY <1>2, <1>3, <2>1
  <2>2. CASE head + 1 = Cap
    BY <1>2, <1>3, <2>2
  <2> QED
    BY <1>3, <2>1, <2>2
<1>5. /\ pushed' \in Seq(Entry) /\ Len(pushed') = n + 1
      /\ pushed'[n + 1] = sig
      /\ \A i \in 1..n : pushed'[i] = pushed[i]
  BY <1>1, <1>2 DEF RingInv, n
<1>6. size' = IF n + 1 < Cap THEN n + 1 ELSE Cap
  BY <1>2, <1>3
<1>7. ASSUME NEW k \in 1..size'
      PROVE  buf'[Back(k)'] = pushed'[Len(pushed') + 1 - k]
  <2>1. CASE k = 1
    <3>1. Back(k)' = head
      BY <1>3, <1>4, <2>1 DEF Back
    <3> QED
      BY <1>2, <1>3, <1>5, <2>1, <3>1
  <2>2. CASE k > 1
    <3>1. k - 1 \in 1..size /\ k - 1 \in 1..n /\ k - 1 < Cap
      BY <1>3, <1>6, <2>2
    <3>2. /\ Back(k)' = Back(k - 1)
          /\ Back(k - 1) \in 0..(Cap - 1) /\ Back(k - 1) # head
      BY <1>3, <1>4, <3>1 DEF Back
    <3>3. buf'[Back(k)'] = buf[Back(k - 1)]
      BY <1>2, <1>3, <3>2
    <3>4. buf[Back(k - 1)] = pushed[n + 1 - (k - 1)]
      BY <3>1 DEF RingInv, n
    <3>5. Len(pushed') + 1 - k = n + 1 - (k - 1) /\ n + 1 - (k - 1) \in 1..n
      BY <1>3, <1>5, <3>1
    <3> QED
      BY <1>5, <3>3, <3>4, <3>5
  <2> QED
    BY <2>1, <2>2
<1>8. head' \in 0..(Cap - 1) /\ DOMAIN buf' = 0..(Cap - 1)
  BY <1>2, <1>3, <1>4
<1> QED
  BY <1>5, <1>6, <1>7, <1>8 DEF RingInv

LEMMA StepRing ==
  ASSUME RingInv, SignalsInv, [LoopNext]_loopVars
  PROVE  RingInv'
<1>1. LoopNext => \/ \E e \in Emitters : Push(e)
              \/ UNCHANGED <<pushed, head, size, buf>>
  BY DEF LoopNext, Tick, Close, Accept, Record, Begin, Stats, Decide, emitVars
<1>2. CASE UNCHANGED <<pushed, head, size, buf>>
  BY <1>2 DEF RingInv, Back
<1>3. CASE UNCHANGED loopVars
  BY <1>2, <1>3 DEF loopVars, emitVars
<1> QED
  BY <1>1, <1>2, <1>3, PushRing

LEMMA RingHoldsLatest ==
  ASSUME RingInv
  PROVE  BufferHoldsLatest
<1> DEFINE n == Len(pushed)
           start == (head - size + Cap) % Cap
           first == (IF n > Cap THEN n - Cap ELSE 0) + 1
<1>1. /\ Cap \in Nat \ {0} /\ head \in 0..(Cap - 1) /\ n \in Nat
      /\ size = IF n < Cap THEN n ELSE Cap
      /\ size \in Nat /\ size <= Cap /\ size <= n
      /\ Snapshot = [i \in 1..size |-> buf[(start + i - 1) % Cap]]
  BY LoopAssumption DEF RingInv, Snapshot
<1> HIDE DEF n
<1>2. head - size + Cap \in Nat /\ head - size + Cap < Cap + Cap
  BY <1>1
<1>3. start = IF head - size + Cap < Cap THEN head - size + Cap ELSE head - size
  <2> DEFINE x == head - size + Cap
  <2>1. x \in Nat /\ x < Cap + Cap /\ Cap \in Nat \ {0} /\ x - Cap = head - size
    BY <1>1, <1>2
  <2> HIDE DEF x
  <2>2. x < Cap => x % Cap = x
    BY <2>1
  <2>3. x >= Cap => x % Cap = x - Cap
    BY <2>1
  <2>4. x % Cap = IF x < Cap THEN x ELSE head - size
    BY <2>1, <2>2, <2>3
  <2> QED
    BY <2>4 DEF x
<1> HIDE DEF start
<1>4. ASSUME NEW i \in 1..size
      PROVE  (start + i - 1) % Cap = Back(size + 1 - i)
  <2>1. start \in 0..(Cap - 1)
    BY <1>1, <1>3
  <2> DEFINE x == start + i - 1
  <2>2. x \in Nat /\ x < Cap + Cap /\ Cap \in Nat \ {0}
    BY <1>1, <2>1
  <2> HIDE DEF x
  <2>3. x < Cap => x % Cap = x
    BY <2>2
  <2>4. x >= Cap => x % Cap = x - Cap
    BY <2>2
  <2>5. x % Cap = Back(size + 1 - i)
    BY <1>1, <1>3, <2>2, <2>3, <2>4 DEF Back, x
  <2> QED
    BY <2>5 DEF x
<1>5. first = n - size + 1 /\ first \in 1..(n + 1)
  BY <1>1
<1> HIDE DEF first
<1>6. ASSUME NEW i \in 1..size
      PROVE  buf[(start + i - 1) % Cap] = pushed[first + i - 1]
  <2>1. size + 1 - i \in 1..size
    BY <1>1
  <2>2. buf[Back(size + 1 - i)] = pushed[n + 1 - (size + 1 - i)]
    BY <2>1 DEF RingInv, n
  <2>3. n + 1 - (size + 1 - i) = first + i - 1
    BY <1>1, <1>5
  <2> QED
    BY <1>4, <2>2, <2>3
<1>7. SubSeq(pushed, first, n) = [i \in 1..size |-> pushed[first + i - 1]]
  <2>1. /\ first \in Int /\ n \in Int /\ n - first + 1 = size
        /\ first \in 1..(n + 1)
    BY <1>1, <1>5
  <2> pushed \in Seq(Entry) /\ Len(pushed) = n
    BY DEF RingInv, n
  <2>2. /\ SubSeq(pushed, first, n) \in Seq(Entry)
        /\ Len(SubSeq(pushed, first, n)) = size
        /\ \A i \in 1..size : SubSeq(pushed, first, n)[i] = pushed[first + i - 1]
    BY <1>1, <2>1
  <2> QED
    BY <2>2
<1>8. Snapshot = SubSeq(pushed, first, n)
  BY <1>1, <1>6, <1>7
<1> QED
  BY <1>8 DEF n, BufferHoldsLatest, first

(* RingBuffer.Snapshot returns the last signals pushed, as many as there is*)
(* room for and in the order of the pushes, for every RingBufferSize and   *)
(* however often the head went around.                                     *)
THEOREM LatestKept == LoopSpec => []BufferHoldsLatest
<1>1. LoopSpec => [](SignalsInv /\ WindowKept)
  BY InitSignals, StepSignals, PTL DEF LoopSpec
<1>2. SignalsInv /\ RingInv /\ [LoopNext]_loopVars => RingInv'
  BY StepRing
<1>3. RingInv => BufferHoldsLatest
  BY RingHoldsLatest
<1> QED
  BY <1>1, <1>2, <1>3, InitRing, PTL DEF LoopSpec
=============================================================================
