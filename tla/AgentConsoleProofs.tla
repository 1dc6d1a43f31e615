------------------------- MODULE AgentConsoleProofs -------------------------
(***************************************************************************)
(* Proofs about the pages of an agent, for any configurations, number of   *)
(* replicas and writes under way: the verdict on the backend expires, a    *)
(* build without mocks is honest, the deployment page does not stay        *)
(* outdated, and the edit page keeps what was typed.                       *)
(***************************************************************************)
EXTENDS AgentConsole, TLAPS

Writes == Scaling \cup {"updateAgent", "updateAgentDeploymentConfig"}

(* What each slot calls: fetches their key, mutations something that writes. *)
MethodsOf(s) ==
  IF s = "agent" THEN {"getAgent"}
  ELSE IF s = "deployment" THEN {"getAgentDeployment"} ELSE Writes

Fields == {"method", "arg", "mounted", "state"}

(* A call under way: only with mocks does it wait for the probe or reach   *)
(* the mock store, and the server answers only what it has routes for.     *)
Underway(s, r) ==
  /\ DOMAIN r = Fields
  /\ r.method \in MethodsOf(s)
  /\ r.state \in {"checking", "requesting", "answered", "mocking"}
  /\ r.state \in {"checking", "mocking"} => mocks
  /\ r.state = "answered" => r.method \in Routed

SlotOK(s, r) == r = NoCall \/ Underway(s, r)

CallsOK(c) == DOMAIN c = Slots /\ \A s \in Slots : SlotOK(s, c[s])

Verdicts == {"unknown", "up", "down"}

StoresOK ==
  /\ DOMAIN cache = Keys
  /\ \A k \in Keys : DOMAIN cache[k] = {"data", "stale", "from"}
  /\ DOMAIN mock = {"conf", "depl"}

(* Without mocks the stores of the page stay as they were.                 *)
StoresHonest ==
  ~mocks =>
    /\ \A k \in Keys : cache[k].from \in {None, "server"}
    /\ mock.depl = InitialMock(server).depl /\ Shown = None

ConsoleInv ==
  /\ CallsOK(call) /\ StoresOK /\ verdict \in Verdicts
  /\ VerdictExpires /\ StoresHonest /\ DeploymentCurrent

-----------------------------------------------------------------------------
(* Calls that wait do so for a verdict that is not known. *)
Waits(c) == \A s \in Slots : c[s].state = "checking" => verdict = "unknown"

LEMMA EnteredOK ==
  ASSUME verdict \in Verdicts,
         NEW s \in Slots, NEW method \in MethodsOf(s), NEW arg
  PROVE  /\ Underway(s, Entered(method, arg))
         /\ Entered(method, arg).state = "checking" => verdict = "unknown"
         /\ Entered(method, arg).state # "idle"
<1> DEFINE state == IF ~mocks \/ verdict = "up" THEN "requesting"
                    ELSE IF verdict = "down" THEN "mocking" ELSE "checking"
           r == [method |-> method, arg |-> arg, mounted |-> TRUE, state |-> state]
<1>1. /\ state \in {"checking", "requesting", "mocking"}
      /\ state \in {"checking", "mocking"} => mocks
      /\ state = "checking" => verdict = "unknown"
  BY DEF Verdicts
<1>2. Entered(method, arg) = r
  BY DEF Entered
<1> HIDE DEF state
<1>3. DOMAIN r = Fields /\ r.method = method /\ r.state = state
  BY DEF Fields
<1> QED
  BY <1>1, <1>2, <1>3 DEF Underway

LEMMA WithFetchesOK ==
  ASSUME verdict \in Verdicts,
         NEW c, CallsOK(c), Waits(c), NEW K \in SUBSET Keys
  PROVE  /\ CallsOK(WithFetches(c, K)) /\ Waits(WithFetches(c, K))
         /\ \A k \in K : WithFetches(c, K)[k].state # "idle"
         /\ \A s \in Slots \ K : WithFetches(c, K)[s] = c[s]
<1>1. Keys \subseteq Slots
  BY ConsoleAssumption DEF Keys
<1>2. ASSUME NEW k \in K
      PROVE  /\ Underway(k, Fetch(k)) /\ Fetch(k).state # "idle"
             /\ Fetch(k).state = "checking" => verdict = "unknown"
  <2>1. CASE k = "agent"
    BY <1>1, <2>1, EnteredOK DEF Fetch, MethodsOf
  <2>2. CASE k = "deployment"
    BY <1>1, <2>2, EnteredOK DEF Fetch, MethodsOf
  <2> QED
    BY <2>1, <2>2 DEF Keys
<1>3. \A s \in Slots : WithFetches(c, K)[s] = IF s \in K THEN Fetch(s) ELSE c[s]
  BY DEF WithFetches
<1>4. DOMAIN WithFetches(c, K) = Slots
  BY DEF WithFetches
<1> QED
  BY <1>1, <1>2, <1>3, <1>4 DEF CallsOK, SlotOK, Waits

(* Changes of one call. *)
LEMMA Unmounting ==
  ASSUME NEW s, NEW r, Underway(s, r)
  PROVE  /\ Underway(s, [r EXCEPT !.mounted = FALSE])
         /\ [r EXCEPT !.mounted = FALSE].state = r.state
BY DEF Underway, Fields

LEMMA Moving ==
  ASSUME NEW s, NEW r, Underway(s, r),
         NEW state \in {"checking", "requesting", "answered", "mocking"},
         state \in {"checking", "mocking"} => mocks,
         state = "answered" => r.method \in Routed
  PROVE  /\ Underway(s, [r EXCEPT !.state = state])
         /\ [r EXCEPT !.state = state].state = state
BY DEF Underway, Fields

(* Starting calls keeps what is promised of the probe and its verdict.     *)
LEMMA CallsStart ==
  ASSUME NEW c, CallsOK(c), Waits(c), Calls(c), VerdictExpires, UNCHANGED <<mocks, verdict, timer>>
  PROVE  CallsOK(call)' /\ VerdictExpires'
<1>1. VerdictExpires'
  BY DEF Waits, Calls, VerdictExpires
<1>2. CallsOK(call)'
  BY DEF Calls, CallsOK, SlotOK, Underway
<1> QED
  BY <1>1, <1>2

LEMMA WaitsNow ==
  ASSUME VerdictExpires
  PROVE  Waits(call)
BY DEF VerdictExpires, Waits

(* A page that opens fetches the deployment if it wants to, and stops no   *)
(* fetch of it.                                                            *)
LEMMA OpensOK ==
  ASSUME verdict \in Verdicts, VerdictExpires, NEW p \in Pages,
         NEW c, CallsOK(c), Waits(c), Opens(p, c), UNCHANGED <<mocks, verdict, timer>>
  PROVE  /\ CallsOK(call)' /\ VerdictExpires' /\ page' = p
         /\ c["deployment"].state # "idle" \/ "deployment" \in Wanted(p, c)
              => Active("deployment")'
<1> DEFINE unmounted == [s \in Slots |-> IF s \in Mutations /\ c[s].state # "idle"
                                        THEN [c[s] EXCEPT !.mounted = FALSE] ELSE c[s]]
<1>1. ASSUME NEW s \in Slots
      PROVE  SlotOK(s, unmounted[s]) /\ unmounted[s].state = c[s].state
  <2>1. CASE s \in Mutations /\ c[s].state # "idle"
    <3>1. Underway(s, c[s])
      BY <2>1 DEF CallsOK, SlotOK, NoCall
    <3> QED
      BY <2>1, <3>1, Unmounting DEF SlotOK
  <2>2. CASE ~(s \in Mutations /\ c[s].state # "idle")
    BY <2>2 DEF CallsOK
  <2> QED
    BY <2>1, <2>2
<1>2. CallsOK(unmounted) /\ Waits(unmounted)
  BY <1>1 DEF CallsOK, Waits
<1>3. Wanted(p, c) \in SUBSET Keys
  BY DEF Wanted, InView, Keys
<1>4. "deployment" \in Slots
  BY ConsoleAssumption
<1>5. Calls(WithFetches(unmounted, Wanted(p, c))) /\ page' = p
  BY DEF Opens
<1>6. unmounted["deployment"].state = c["deployment"].state
  BY <1>1, <1>4
<1> HIDE DEF unmounted
<1>7. /\ CallsOK(WithFetches(unmounted, Wanted(p, c)))
      /\ Waits(WithFetches(unmounted, Wanted(p, c)))
      /\ \A k \in Wanted(p, c) : WithFetches(unmounted, Wanted(p, c))[k].state # "idle"
      /\ \A s \in Slots \ Wanted(p, c) : WithFetches(unmounted, Wanted(p, c))[s] = unmounted[s]
  BY <1>2, <1>3, WithFetchesOK
<1>8. call' = WithFetches(unmounted, Wanted(p, c))
  BY <1>5 DEF Calls
<1>9. c["deployment"].state # "idle" \/ "deployment" \in Wanted(p, c) => Active("deployment")'
  BY <1>4, <1>6, <1>7, <1>8 DEF Active
<1> QED
  BY <1>5, <1>7, <1>9, CallsStart

-----------------------------------------------------------------------------
(* The invariant, action by action. *)

LEMMA InitOK == Init => ConsoleInv
<1> SUFFICES ASSUME Init
             PROVE  ConsoleInv
  OBVIOUS
<1>1. CallsOK(call)
  BY DEF Init, ProxyInit, CallsOK, SlotOK
<1>2. StoresOK
  BY DEF Init, StoresOK, InitialMock
<1>3. verdict \in Verdicts /\ VerdictExpires
  BY DEF Init, ProxyInit, Verdicts, VerdictExpires, NoCall
<1>4. Shown = None /\ StoresHonest
  BY DEF Init, StoresHonest, Shown, Keys, InitialMock
<1>5. DeploymentCurrent
  BY <1>4 DEF DeploymentCurrent
<1> QED
  BY <1>1, <1>2, <1>3, <1>4, <1>5 DEF ConsoleInv

(* Steps that leave the stores alone and no fetch of the deployment behind.*)
LEMMA StoresKept ==
  ASSUME ConsoleInv, UNCHANGED <<mocks, mock, cache>>
  PROVE  StoresOK' /\ StoresHonest'
BY DEF ConsoleInv, StoresOK, StoresHonest, Shown, InitialMock

LEMMA DeploymentKept ==
  ASSUME ConsoleInv, UNCHANGED <<mock, cache, page>>, Active("deployment") => Active("deployment")'
  PROVE  DeploymentCurrent'
BY DEF ConsoleInv, DeploymentCurrent, Shown

LEMMA StepProbe ==
  ASSUME ConsoleInv, NEW healthy \in BOOLEAN, ProbeEnds(healthy), PageUnchanged
  PROVE  ConsoleInv'
<1> DEFINE state == IF healthy THEN "requesting" ELSE "mocking"
<1>1. ASSUME NEW s \in Slots
      PROVE  /\ SlotOK(s, call[s])' /\ call'[s].state # "checking"
             /\ Active(s) => Active(s)'
  <2>1. CASE call[s].state = "checking"
    <3>1. Underway(s, call[s]) /\ mocks
      BY <2>1 DEF ConsoleInv, CallsOK, SlotOK, Underway, NoCall
    <3>2. call'[s] = [call[s] EXCEPT !.state = state]
      BY <2>1 DEF ProbeEnds, Wake
    <3>3. state \in {"requesting", "mocking"}
      OBVIOUS
    <3> HIDE DEF state
    <3>4. /\ state \in {"checking", "requesting", "answered", "mocking"}
          /\ state \in {"checking", "mocking"} => mocks
          /\ state = "answered" => call[s].method \in Routed
      BY <3>1, <3>3
    <3>5. /\ Underway(s, [call[s] EXCEPT !.state = state])
          /\ [call[s] EXCEPT !.state = state].state = state
      BY <3>1, <3>4, Moving, ZenonT(40)
    <3>6. call'[s].state \notin {"checking", "idle"} /\ mocks' = mocks
      BY <3>2, <3>3, <3>5 DEF ProbeEnds
    <3> QED
      BY <3>2, <3>5, <3>6 DEF SlotOK, Underway, Active
  <2>2. CASE call[s].state # "checking"
    <3>1. call'[s] = call[s] /\ mocks' = mocks
      BY <2>2 DEF ProbeEnds, Wake
    <3> QED
      BY <2>2, <3>1 DEF ConsoleInv, CallsOK, SlotOK, Underway, Active
  <2> QED
    BY <2>1, <2>2
<1>2. CallsOK(call)'
  BY <1>1 DEF CallsOK, ProbeEnds, Wake
<1>3. VerdictExpires' /\ verdict' \in Verdicts
  BY <1>1 DEF ProbeEnds, VerdictExpires, Verdicts
<1>4. StoresOK' /\ StoresHonest'
  BY StoresKept DEF ProbeEnds, PageUnchanged
<1>5. DeploymentCurrent'
  BY <1>1, DeploymentKept, ConsoleAssumption DEF PageUnchanged
<1> QED
  BY <1>2, <1>3, <1>4, <1>5 DEF ConsoleInv

LEMMA StepTimer ==
  ASSUME ConsoleInv, Timer
  PROVE  ConsoleInv'
<1>1. CallsOK(call)'
  BY DEF ConsoleInv, CallsOK, SlotOK, Underway, Timer, VerdictForgotten
<1>2. VerdictExpires' /\ verdict' \in Verdicts
  BY DEF ConsoleInv, Timer, VerdictForgotten, VerdictExpires, Verdicts
<1>3. StoresOK' /\ StoresHonest'
  BY StoresKept DEF Timer, VerdictForgotten, PageUnchanged
<1>4. DeploymentCurrent'
  BY DeploymentKept DEF Timer, VerdictForgotten, PageUnchanged, Active
<1> QED
  BY <1>1, <1>2, <1>3, <1>4 DEF ConsoleInv

LEMMA StepFocus ==
  ASSUME ConsoleInv, Focus
  PROVE  ConsoleInv'
<1> DEFINE W == Wanted(page, call)
<1>1. W \in SUBSET Keys
  BY DEF Wanted, InView, Keys
<1>2. Waits(call) /\ CallsOK(call) /\ verdict \in Verdicts /\ VerdictExpires
  BY WaitsNow DEF ConsoleInv
<1>3. Calls(WithFetches(call, W)) /\ UNCHANGED <<mocks, verdict, timer>>
  BY DEF Focus
<1>4. call' = WithFetches(call, W) /\ UNCHANGED <<mocks, verdict, timer, mock, cache, page>>
  BY <1>3 DEF Calls, Focus
<1> HIDE DEF W
<1>5. /\ CallsOK(WithFetches(call, W)) /\ Waits(WithFetches(call, W))
      /\ \A k \in W : WithFetches(call, W)[k].state # "idle"
      /\ \A s \in Slots \ W : WithFetches(call, W)[s] = call[s]
  BY <1>1, <1>2, WithFetchesOK
<1>6. CallsOK(call)' /\ VerdictExpires' /\ verdict' \in Verdicts
  BY <1>2, <1>3, <1>5, CallsStart
<1>7. Active("deployment") => Active("deployment")'
  BY <1>4, <1>5, ConsoleAssumption DEF Active
<1> QED
  BY <1>4, <1>6, <1>7, StoresKept, DeploymentKept DEF ConsoleInv

LEMMA StepNavigate ==
  ASSUME ConsoleInv, NEW p \in Pages, Navigate(p)
  PROVE  ConsoleInv'
<1>1. Waits(call) /\ CallsOK(call) /\ verdict \in Verdicts /\ VerdictExpires
  BY WaitsNow DEF ConsoleInv
<1>2. Opens(p, call) /\ UNCHANGED <<mocks, verdict, timer, mock, cache>> /\ p # page
  BY DEF Navigate
<1>3. /\ CallsOK(call)' /\ VerdictExpires' /\ page' = p
      /\ Active("deployment") \/ "deployment" \in Wanted(p, call) => Active("deployment")'
  BY <1>1, <1>2, OpensOK DEF Active
<1>4. DeploymentCurrent'
  <2>1. CASE p = "deployment" /\ cache["deployment"].stale
    <3>1. Active("deployment") \/ "deployment" \in Wanted(p, call)
      BY <2>1 DEF Active, Wanted, InView, Keys
    <3> QED
      BY <1>3, <3>1 DEF DeploymentCurrent
  <2>2. CASE ~(p = "deployment" /\ cache["deployment"].stale)
    BY <1>2, <1>3, <2>2 DEF ConsoleInv, DeploymentCurrent, Shown
  <2> QED
    BY <2>1, <2>2
<1> QED
  BY <1>1, <1>2, <1>3, <1>4, StoresKept DEF ConsoleInv

LEMMA StepGoesStale ==
  ASSUME ConsoleInv, NEW k \in Keys, GoesStale(k)
  PROVE  ConsoleInv'
<1>1. UNCHANGED <<mocks, verdict, probing, timer, call, mock, page>>
  BY DEF GoesStale, proxyVars
<1>2. /\ DOMAIN cache' = Keys
      /\ \A j \in Keys : /\ DOMAIN cache'[j] = {"data", "stale", "from"}
                         /\ cache'[j].data = cache[j].data /\ cache'[j].from = cache[j].from
                         /\ cache[j].stale => cache'[j].stale
  BY DEF GoesStale, ConsoleInv, StoresOK
<1>3. StoresOK' /\ StoresHonest'
  BY <1>1, <1>2 DEF ConsoleInv, StoresOK, StoresHonest, Shown, Keys, InitialMock
<1>4. DeploymentCurrent'
  BY <1>1, <1>2 DEF ConsoleInv, DeploymentCurrent, Shown, Keys, Active
<1>5. CallsOK(call)' /\ VerdictExpires' /\ verdict' \in Verdicts
  BY <1>1 DEF ConsoleInv, CallsOK, SlotOK, Underway, VerdictExpires
<1> QED
  BY <1>3, <1>4, <1>5 DEF ConsoleInv

LEMMA StepServe ==
  ASSUME ConsoleInv, NEW s \in Slots, Serve(s)
  PROVE  ConsoleInv'
<1>1. UNCHANGED <<mocks, verdict, probing, timer, mock, cache, page>>
  BY DEF Serve
<1>2. Underway(s, call[s]) /\ call[s].state = "requesting"
  BY DEF Serve, ConsoleInv, CallsOK, SlotOK, NoCall
<1>3. /\ Underway(s, call'[s]) /\ call'[s].state = "answered"
      /\ \A z \in Slots \ {s} : call'[z] = call[z]
      /\ DOMAIN call' = Slots
  BY <1>2 DEF Serve, ConsoleInv, CallsOK, Underway, Fields
<1>4. CallsOK(call)'
  BY <1>1, <1>3 DEF ConsoleInv, CallsOK, SlotOK, Underway
<1>5. \A z \in Slots : Active(z) => Active(z)'
  BY <1>3 DEF Active
<1>6. VerdictExpires' /\ verdict' \in Verdicts
  BY <1>1, <1>3 DEF ConsoleInv, VerdictExpires
<1>7. "deployment" \in Slots
  BY ConsoleAssumption
<1> QED
  BY <1>1, <1>4, <1>5, <1>6, <1>7, StoresKept, DeploymentKept DEF ConsoleInv

(* A call that moves to the mock store, or ends without an answer.         *)
LEMMA Ended ==
  ASSUME ConsoleInv, NEW s \in Slots
  PROVE  LET c == [call EXCEPT ![s] = NoCall]
         IN  /\ CallsOK(c) /\ Waits(c)
             /\ \A z \in Slots \ {s} : c[z] = call[z]
BY WaitsNow DEF ConsoleInv, CallsOK, SlotOK, Waits, NoCall

LEMMA StepFallsBack ==
  ASSUME ConsoleInv, NEW s \in Slots, FallsBack(s)
  PROVE  ConsoleInv'
<1>1. UNCHANGED <<mocks, verdict, probing, timer, mock, cache, page>> /\ mocks
  BY DEF FallsBack, FallBack
<1>2. Underway(s, call[s])
  BY DEF FallsBack, FallBack, ConsoleInv, CallsOK, SlotOK, NoCall
<1>3. /\ Underway(s, [call[s] EXCEPT !.state = "mocking"])
      /\ [call[s] EXCEPT !.state = "mocking"].state = "mocking"
  BY <1>1, <1>2, Moving
<1>4. /\ Underway(s, call'[s]) /\ call'[s].state = "mocking"
      /\ \A z \in Slots \ {s} : call'[z] = call[z]
      /\ DOMAIN call' = Slots
  BY <1>3 DEF FallsBack, FallBack, ConsoleInv, CallsOK
<1>5. CallsOK(call)'
  BY <1>1, <1>4 DEF ConsoleInv, CallsOK, SlotOK, Underway
<1>6. \A z \in Slots : Active(z) => Active(z)'
  BY <1>4 DEF Active
<1>7. VerdictExpires' /\ verdict' \in Verdicts
  BY <1>1, <1>4 DEF ConsoleInv, VerdictExpires
<1>8. "deployment" \in Slots
  BY ConsoleAssumption
<1> QED
  BY <1>1, <1>5, <1>6, <1>7, <1>8, StoresKept, DeploymentKept DEF ConsoleInv

(* Without mocks the deployment page shows nothing, whatever fails.        *)
LEMMA StepThrows ==
  ASSUME ConsoleInv, NEW s \in Slots, Throws(s)
  PROVE  ConsoleInv'
<1>1. UNCHANGED <<mocks, verdict, probing, timer, mock, cache, page>> /\ ~mocks
  BY DEF Throws
<1>2. CallsOK(call') /\ \A z \in Slots : call'[z].state = "checking" => call[z].state = "checking"
  BY Ended DEF Throws, NoCall, CallsOK, ConsoleInv
<1>3. CallsOK(call)'
  BY <1>1, <1>2 DEF CallsOK, SlotOK, Underway
<1>4. VerdictExpires' /\ verdict' \in Verdicts
  BY <1>1, <1>2 DEF ConsoleInv, VerdictExpires
<1>5. StoresOK' /\ StoresHonest'
  BY <1>1, StoresKept
<1>6. DeploymentCurrent'
  BY <1>1, <1>5 DEF DeploymentCurrent, StoresHonest
<1> QED
  BY <1>3, <1>4, <1>5, <1>6 DEF ConsoleInv

LEMMA WriteOK ==
  ASSUME ConsoleInv, NEW m \in Mutations, NEW method \in Writes, NEW arg, Write(m, method, arg)
  PROVE  ConsoleInv'
<1> DEFINE c == [call EXCEPT ![m] = Entered(method, arg)]
<1>1. m \in Slots /\ m \notin {"agent", "deployment"} /\ "deployment" \in Slots
  BY ConsoleAssumption
<1>2. UNCHANGED <<mocks, verdict, timer, mock, cache, page>> /\ Calls(c)
  BY DEF Write
<1>3. method \in MethodsOf(m) /\ verdict \in Verdicts
  BY <1>1 DEF MethodsOf, ConsoleInv
<1>4. /\ Underway(m, Entered(method, arg))
      /\ Entered(method, arg).state = "checking" => verdict = "unknown"
  BY <1>1, <1>3, EnteredOK
<1>5. /\ DOMAIN c = Slots /\ c[m] = Entered(method, arg)
      /\ \A z \in Slots \ {m} : c[z] = call[z]
  BY <1>1 DEF ConsoleInv, CallsOK
<1> HIDE DEF c
<1>6. CallsOK(c) /\ Waits(c)
  BY <1>4, <1>5, WaitsNow DEF ConsoleInv, CallsOK, SlotOK, Waits
<1>7. CallsOK(call)' /\ VerdictExpires' /\ verdict' \in Verdicts
  BY <1>2, <1>6, CallsStart DEF ConsoleInv
<1>8. Active("deployment") => Active("deployment")'
  BY <1>1, <1>2, <1>5 DEF Calls, Active
<1> QED
  BY <1>2, <1>7, <1>8, StoresKept, DeploymentKept DEF ConsoleInv

(* The user's writes, each calling something that writes.                  *)
LEMMA StepWrites ==
  ASSUME ConsoleInv, NEW m \in Mutations, NEW n \in 0..(MaxReplicas + 1),
         Save(m) \/ Deploy(m) \/ Undeploy(m) \/ Scale(m, n) \/ ToggleAutoScale(m)
  PROVE  ConsoleInv'
<1>1. CASE Save(m)
  BY <1>1, WriteOK DEF Save, Writes
<1>2. CASE Deploy(m)
  BY <1>2, WriteOK DEF Deploy, Writes, Scaling
<1>3. CASE Undeploy(m)
  BY <1>3, WriteOK DEF Undeploy, Writes, Scaling
<1>4. CASE Scale(m, n)
  BY <1>4, WriteOK DEF Scale, Writes, Scaling
<1>5. CASE ToggleAutoScale(m)
  BY <1>5, WriteOK DEF ToggleAutoScale, Writes
<1> QED
  BY <1>1, <1>2, <1>3, <1>4, <1>5

LEMMA Idle ==
  ASSUME ConsoleInv, UNCHANGED <<proxyVars, mock, cache, page>>
  PROVE  ConsoleInv'
BY DEF ConsoleInv, proxyVars, CallsOK, SlotOK, Underway, StoresOK, VerdictExpires,
       StoresHonest, DeploymentCurrent, Shown, InitialMock, Active

(* An answer that enters the cache leaves the deployment shown current if  *)
(* it is the deployment the store has now.                                 *)
LEMMA FetchAnswered ==
  ASSUME ConsoleInv, NEW s \in Keys, NEW data, NEW from, Succeeds(s, data, from),
         UNCHANGED <<mocks, verdict, timer>>, StoresOK => DOMAIN mock' = {"conf", "depl"},
         ~mocks => mock' = mock /\ from = "server" /\ s # "deployment",
         mock'.depl = mock.depl, s = "deployment" => data = mock.depl
  PROVE  ConsoleInv'
<1> DEFINE c == [call EXCEPT ![s] = NoCall]
<1>1. s \in Slots /\ "deployment" \in Slots
  BY ConsoleAssumption DEF Keys
<1>2. CallsOK(c) /\ Waits(c) /\ \A z \in Slots \ {s} : c[z] = call[z]
  BY <1>1, Ended
<1>3. /\ cache' = [cache EXCEPT ![s] = [data |-> data, stale |-> FALSE, from |-> from]]
      /\ Calls(c) /\ page' = page
  BY DEF Succeeds
<1>4. /\ DOMAIN cache' = Keys
      /\ cache'[s] = [data |-> data, stale |-> FALSE, from |-> from]
      /\ \A k \in Keys \ {s} : cache'[k] = cache[k]
  BY <1>3 DEF ConsoleInv, StoresOK
<1> HIDE DEF c
<1>5. CallsOK(call)' /\ VerdictExpires' /\ verdict' \in Verdicts
  BY <1>2, <1>3, CallsStart DEF ConsoleInv
<1>6. StoresOK'
  BY <1>4 DEF ConsoleInv, StoresOK
<1>7. StoresHonest'
  BY <1>4 DEF ConsoleInv, StoresHonest, Shown, InitialMock, Keys
<1>8. DeploymentCurrent'
  <2>1. CASE s = "deployment"
    BY <1>4, <2>1 DEF DeploymentCurrent, Shown
  <2>2. CASE s # "deployment"
    <3>1. cache'["deployment"] = cache["deployment"] /\ page' = page /\ call' = c
      BY <1>3, <1>4, <2>2 DEF Keys, Calls
    <3>2. Active("deployment") => Active("deployment")'
      BY <1>1, <1>2, <2>2, <3>1 DEF Active
    <3> QED
      BY <3>1, <3>2 DEF ConsoleInv, DeploymentCurrent, Shown
  <2> QED
    BY <2>1, <2>2
<1> QED
  BY <1>5, <1>6, <1>7, <1>8 DEF ConsoleInv

(* A save that succeeds touches no deployment; it may open another page.   *)
LEMMA SaveAnswered ==
  ASSUME ConsoleInv, NEW m \in Mutations, call[m].method = "updateAgent",
         NEW data, NEW from, Succeeds(m, data, from),
         UNCHANGED <<mocks, verdict, timer>>, StoresOK => DOMAIN mock' = {"conf", "depl"},
         ~mocks => mock' = mock, mock'.depl = mock.depl
  PROVE  ConsoleInv'
<1> DEFINE c == [call EXCEPT ![m] = NoCall]
<1>1. m \in Slots /\ m \notin Keys /\ "deployment" \in Slots /\ m # "deployment"
  BY ConsoleAssumption DEF Keys
<1>2. CallsOK(c) /\ Waits(c) /\ c["deployment"] = call["deployment"]
  BY <1>1, Ended
<1>3. /\ cache' = cache
      /\ \/ Calls(c) /\ page' = page
         \/ Opens("detail", c)
  BY <1>1 DEF Succeeds
<1> HIDE DEF c
<1>4. verdict \in Verdicts /\ VerdictExpires /\ "detail" \in Pages
  BY DEF ConsoleInv, Pages
<1>5. /\ CallsOK(call)' /\ VerdictExpires' /\ page' \in {page, "detail"}
      /\ Active("deployment") => Active("deployment")'
  <2>1. CASE Calls(c) /\ page' = page
    BY <1>2, <1>4, <2>1, CallsStart DEF Calls, Active
  <2>2. CASE Opens("detail", c)
    BY <1>2, <1>4, <2>2, OpensOK DEF Active
  <2> QED
    BY <1>3, <2>1, <2>2
<1>6. StoresOK' /\ StoresHonest'
  BY <1>3 DEF ConsoleInv, StoresOK, StoresHonest, Shown, InitialMock
<1>7. DeploymentCurrent'
  BY <1>3, <1>5 DEF ConsoleInv, DeploymentCurrent, Shown
<1> QED
  BY <1>4, <1>5, <1>6, <1>7 DEF ConsoleInv

(* Every other write makes the deployment stale, and fetched again while   *)
(* it is in view: what is shown is no longer taken for current.            *)
LEMMA OperationAnswered ==
  ASSUME ConsoleInv, NEW m \in Mutations,
         call[m].method \in Scaling \cup {"updateAgentDeploymentConfig"},
         NEW data, NEW from, Succeeds(m, data, from),
         UNCHANGED <<mocks, verdict, timer>>, StoresOK => DOMAIN mock' = {"conf", "depl"}, mocks
  PROVE  ConsoleInv'
<1> DEFINE c == [call EXCEPT ![m] = NoCall]
           K == StaleAfter(call[m].method)
           V == K \cap InView(page)
<1>1. m \in Slots /\ m \notin Keys /\ "deployment" \in Slots
  BY ConsoleAssumption DEF Keys
<1>2. CallsOK(c) /\ Waits(c)
  BY <1>1, Ended
<1>3. K \subseteq Keys /\ "deployment" \in K /\ call[m].method # "updateAgent"
  BY DEF StaleAfter, Keys, Scaling
<1>4. /\ cache' = [k \in Keys |-> IF k \in K THEN [cache[k] EXCEPT !.stale = TRUE] ELSE cache[k]]
      /\ Calls(WithFetches(c, V)) /\ page' = page
  BY <1>1, <1>3 DEF Succeeds, Invalidates
<1>5. page = "deployment" => "deployment" \in V
  BY <1>3 DEF InView, Keys
<1>6. V \in SUBSET Keys
  BY <1>3
<1> HIDE DEF c, K, V
<1>7. verdict \in Verdicts /\ VerdictExpires
  BY DEF ConsoleInv
<1>8. /\ CallsOK(WithFetches(c, V)) /\ Waits(WithFetches(c, V))
      /\ \A k \in V : WithFetches(c, V)[k].state # "idle"
  BY <1>2, <1>6, <1>7, WithFetchesOK
<1>9. CallsOK(call)' /\ VerdictExpires'
  BY <1>4, <1>7, <1>8, CallsStart
<1>10. /\ DOMAIN cache' = Keys
       /\ \A k \in Keys : DOMAIN cache'[k] = {"data", "stale", "from"}
       /\ cache'["deployment"].stale
  BY <1>3, <1>4 DEF ConsoleInv, StoresOK, Keys
<1>11. StoresOK' /\ StoresHonest'
  BY <1>10 DEF ConsoleInv, StoresOK, StoresHonest
<1>12. DeploymentCurrent'
  BY <1>4, <1>5, <1>8, <1>10 DEF DeploymentCurrent, Active, Calls
<1> QED
  BY <1>7, <1>9, <1>11, <1>12 DEF ConsoleInv

LEMMA StepAnswer ==
  ASSUME ConsoleInv, NEW s \in Slots, Answer(s)
  PROVE  ConsoleInv'
<1>1. /\ Succeeds(s, call[s].arg, "server") /\ UNCHANGED <<mocks, verdict, timer, mock>>
      /\ call[s].method \in MethodsOf(s) \cap Routed
  BY DEF Answer, ConsoleInv, CallsOK, SlotOK, Underway, NoCall
<1>2. s # "deployment"
  BY <1>1 DEF MethodsOf, Routed
<1>3. DOMAIN mock = {"conf", "depl"}
  BY DEF ConsoleInv, StoresOK
<1>4. CASE s = "agent"
  BY <1>1, <1>2, <1>3, <1>4, FetchAnswered DEF Keys
<1>5. CASE s # "agent"
  <2>1. s \in Mutations /\ call[s].method = "updateAgent"
    BY <1>1, <1>2, <1>5, ConsoleAssumption DEF MethodsOf, Routed, Writes, Scaling
  <2> QED
    BY <1>1, <1>3, <2>1, SaveAnswered
<1> QED
  BY <1>4, <1>5

LEMMA MockAppliedOK ==
  ASSUME StoresOK, NEW method, NEW arg
  PROVE  /\ DOMAIN MockApplied(method, arg) = {"conf", "depl"}
         /\ method \notin Scaling \cup {"updateAgentDeploymentConfig"}
              => MockApplied(method, arg).depl = mock.depl
<1>1. CASE method = "updateAgent"
  BY <1>1 DEF MockApplied, StoresOK
<1>2. CASE method = "deployAgent"
  BY <1>2 DEF MockApplied, StoresOK, Scaling
<1>3. CASE method = "undeployAgent"
  BY <1>3 DEF MockApplied, StoresOK, Scaling
<1>4. CASE method = "scaleAgent"
  BY <1>4 DEF MockApplied, StoresOK, Scaling
<1>5. CASE method = "updateAgentDeploymentConfig"
  BY <1>5 DEF MockApplied, StoresOK
<1>6. CASE method \notin Scaling \cup {"updateAgent", "updateAgentDeploymentConfig"}
  BY <1>6 DEF MockApplied, StoresOK, Scaling
<1> QED
  BY <1>1, <1>2, <1>3, <1>4, <1>5, <1>6 DEF Scaling

LEMMA StepMockAnswers ==
  ASSUME ConsoleInv, NEW s \in Slots, MockAnswers(s)
  PROVE  ConsoleInv'
<1> DEFINE data == IF s = "agent" THEN mock'.conf ELSE mock'.depl
<1>1. /\ Succeeds(s, data, "mock") /\ UNCHANGED <<mocks, verdict, timer>>
      /\ mock' = MockApplied(call[s].method, call[s].arg)
  BY DEF MockAnswers
<1>2. mocks /\ call[s].method \in MethodsOf(s)
  BY DEF MockAnswers, ConsoleInv, CallsOK, SlotOK, Underway, NoCall
<1>3. /\ DOMAIN mock' = {"conf", "depl"}
      /\ call[s].method \notin Scaling \cup {"updateAgentDeploymentConfig"}
           => mock'.depl = mock.depl
  BY <1>1, MockAppliedOK DEF ConsoleInv
<1>4. CASE s \in Keys
  <2>1. call[s].method \notin Scaling \cup {"updateAgentDeploymentConfig"}
    BY <1>2, <1>4 DEF MethodsOf, Keys, Scaling
  <2>2. mock'.depl = mock.depl /\ (s = "deployment" => data = mock.depl)
    BY <1>3, <2>1
  <2> HIDE DEF data
  <2> QED
    BY <1>1, <1>2, <1>3, <1>4, <2>2, FetchAnswered
<1>5. CASE s \notin Keys
  <2>1. s \in Mutations /\ call[s].method \in Writes
    BY <1>2, <1>5, ConsoleAssumption DEF MethodsOf, Keys
  <2> HIDE DEF data
  <2>2. CASE call[s].method = "updateAgent"
    <3>1. mock'.depl = mock.depl
      BY <1>3, <2>2 DEF Scaling
    <3> QED
      BY <1>1, <1>2, <1>3, <2>1, <2>2, <3>1, SaveAnswered
  <2>3. CASE call[s].method # "updateAgent"
    <3>1. call[s].method \in Scaling \cup {"updateAgentDeploymentConfig"}
      BY <2>1, <2>3 DEF Writes
    <3> QED
      BY <1>1, <1>2, <1>3, <2>1, <3>1, OperationAnswered
  <2> QED
    BY <2>2, <2>3
<1> QED
  BY <1>4, <1>5

LEMMA Step == ConsoleInv /\ [Next]_vars => ConsoleInv'
<1> SUFFICES ASSUME ConsoleInv, [Next]_vars
             PROVE  ConsoleInv'
  OBVIOUS
<1>1. CASE Probe
  BY <1>1, StepProbe DEF Probe
<1>2. CASE Timer
  BY <1>2, StepTimer
<1>3. CASE Focus
  BY <1>3, StepFocus
<1>4. CASE \E p \in Pages : Navigate(p)
  BY <1>4, StepNavigate
<1>5. CASE \E k \in Keys : GoesStale(k)
  BY <1>5, StepGoesStale
<1>6. ASSUME NEW s \in Slots,
             Serve(s) \/ Answer(s) \/ MockAnswers(s) \/ FallsBack(s) \/ Throws(s)
      PROVE  ConsoleInv'
  BY <1>6, StepServe, StepAnswer, StepMockAnswers, StepFallsBack, StepThrows
<1>7. ASSUME NEW m \in Mutations,
             \/ Save(m) \/ Deploy(m) \/ Undeploy(m) \/ ToggleAutoScale(m)
             \/ \E n \in 0..(MaxReplicas + 1) : Scale(m, n)
      PROVE  ConsoleInv'
  <2>1. 0 \in 0..(MaxReplicas + 1)
    BY ConsoleAssumption
  <2> QED
    BY <1>7, <2>1, StepWrites
<1>8. CASE (\E c \in Confs \cup {Blank} : Edit(c)) \/ (\E c \in Confs : OthersWrite(c))
  BY <1>8, Idle DEF Edit, OthersWrite
<1>9. CASE UNCHANGED vars
  BY <1>9, Idle DEF vars
<1> QED
  BY <1>1, <1>2, <1>3, <1>4, <1>5, <1>6, <1>7, <1>8, <1>9 DEF Next

(* The invariant that the others rest on, of every run of the console.     *)
THEOREM Inductive == Spec => []ConsoleInv
<1> QED
  BY InitOK, Step, PTL DEF Spec

-----------------------------------------------------------------------------
(* checkBackend: no call waits without a probe, and no verdict is kept     *)
(* without a timer that forgets it.                                        *)
THEOREM VerdictsExpire == Spec => []VerdictExpires
<1>1. ConsoleInv => VerdictExpires
  BY DEF ConsoleInv
<1> QED
  BY <1>1, Inductive, PTL

(* With mocks disabled the page shows only what the server answered,       *)
(* whatever fails.                                                         *)
THEOREM Honest == Spec => []HonestWithoutMocks
<1>1. ConsoleInv => HonestWithoutMocks
  <2> SUFFICES ASSUME ConsoleInv, ~mocks
               PROVE  HonestWithoutMocks
    BY DEF HonestWithoutMocks
  <2>1. \A s \in Slots : Active(s) => call[s].state \in {"requesting", "answered"}
    BY DEF ConsoleInv, CallsOK, SlotOK, Underway, Active, NoCall
  <2> QED
    BY <2>1 DEF ConsoleInv, StoresHonest, HonestWithoutMocks
<1> QED
  BY <1>1, Inductive, PTL

(* However many operations overlap, the deployment page does not stay      *)
(* outdated: invalidateQueries reaches it in time.                         *)
THEOREM Current == Spec => []DeploymentCurrent
<1>1. ConsoleInv => DeploymentCurrent
  BY DEF ConsoleInv
<1> QED
  BY <1>1, Inductive, PTL

-----------------------------------------------------------------------------
(* What was read of the agent and not rewritten since is what the store it *)
(* was read of has.                                                        *)
ReadsKept ==
  /\ "shown" \notin rewritten => /\ cache["agent"].from = "server" => cache["agent"].data = server
                                 /\ cache["agent"].from = "mock" => cache["agent"].data = mock.conf
  /\ call["agent"].state = "answered" =>
       /\ "answer" \notin rewritten => call["agent"].arg = server
       /\ "shown" \notin rewritten /\ cache["agent"].from = "server" => call["agent"].arg = server

(* Data of the agent, and an answer about it, that a step leaves alone.    *)
SameReads ==
  /\ UNCHANGED <<server, rewritten>> /\ mock'.conf = mock.conf
  /\ cache'["agent"].data = cache["agent"].data /\ cache'["agent"].from = cache["agent"].from
  /\ call'["agent"].state = "answered" => call'["agent"] = call["agent"]

LEMMA SameReadsKeep == ReadsKept /\ SameReads => ReadsKept'
BY DEF ReadsKept, SameReads

(* The fetch of the agent after calls start: as it was, or new.            *)
LEMMA FetchesNotAnswered ==
  ASSUME ConsoleInv, NEW c, NEW K \in SUBSET Keys, c["agent"] \in {call["agent"], NoCall},
         Calls(WithFetches(c, K))
  PROVE  call'["agent"].state = "answered" => call'["agent"] = call["agent"]
<1>1. "agent" \in Slots
  BY ConsoleAssumption
<1>2. call'["agent"] = IF "agent" \in K THEN Fetch("agent") ELSE c["agent"]
  BY <1>1 DEF Calls, WithFetches
<1>3. Fetch("agent").state # "answered"
  BY DEF Fetch, Entered
<1> QED
  BY <1>2, <1>3 DEF NoCall

LEMMA OpensNotAnswered ==
  ASSUME ConsoleInv, NEW p \in Pages, NEW c, c["agent"] \in {call["agent"], NoCall}, Opens(p, c)
  PROVE  call'["agent"].state = "answered" => call'["agent"] = call["agent"]
<1> DEFINE unmounted == [s \in Slots |-> IF s \in Mutations /\ c[s].state # "idle"
                                        THEN [c[s] EXCEPT !.mounted = FALSE] ELSE c[s]]
<1>1. unmounted["agent"] = c["agent"]
  BY ConsoleAssumption
<1>2. Calls(WithFetches(unmounted, Wanted(p, c)))
  BY DEF Opens
<1>3. Wanted(p, c) \in SUBSET Keys
  BY DEF Wanted, InView, Keys
<1> HIDE DEF unmounted
<1> QED
  BY <1>1, <1>2, <1>3, FetchesNotAnswered

(* What an answer does that is not of the fetch of the agent.              *)
LEMMA OtherAnswers ==
  ASSUME ConsoleInv, NEW s \in Slots \ {"agent"}, NEW data, NEW from, Succeeds(s, data, from)
  PROVE  /\ cache'["agent"].data = cache["agent"].data
         /\ cache'["agent"].from = cache["agent"].from
         /\ call'["agent"].state = "answered" => call'["agent"] = call["agent"]
         /\ page' = "edit" => form' = form
<1> DEFINE c == [call EXCEPT ![s] = NoCall]
<1>1. c["agent"] = call["agent"]
  BY ConsoleAssumption DEF ConsoleInv, CallsOK
<1>2. CASE s \in Keys
  <2>1. /\ cache' = [cache EXCEPT ![s] = [data |-> data, stale |-> FALSE, from |-> from]]
        /\ form' = form /\ call' = c
    BY <1>2 DEF Succeeds, Calls, Keys
  <2> QED
    BY <1>1, <2>1 DEF ConsoleInv, StoresOK, Keys
<1>3. CASE s \notin Keys /\ call[s].method = "updateAgent"
  <2>1. cache' = cache
    BY <1>3 DEF Succeeds
  <2>2. CASE page = "detail"
    BY <1>1, <1>3, <2>1, <2>2 DEF Succeeds, Calls
  <2>3. CASE page # "detail"
    <3>1. Opens("detail", c)
      BY <1>3, <2>3 DEF Succeeds
    <3>2. page' = "detail" /\ "detail" \in Pages
      BY <3>1 DEF Opens, Pages
    <3> HIDE DEF c
    <3> QED
      BY <1>1, <2>1, <3>1, <3>2, OpensNotAnswered
  <2> QED
    BY <2>2, <2>3
<1>4. CASE s \notin Keys /\ call[s].method # "updateAgent"
  <2> DEFINE K == StaleAfter(call[s].method)
  <2>1. Invalidates(K, c) /\ form' = form
    BY <1>4 DEF Succeeds
  <2>2. K \cap InView(page) \in SUBSET Keys
    BY DEF InView, Keys
  <2> HIDE DEF c, K
  <2>3. Calls(WithFetches(c, K \cap InView(page)))
    BY <2>1 DEF Invalidates
  <2>4. call'["agent"].state = "answered" => call'["agent"] = call["agent"]
    BY <1>1, <2>2, <2>3, FetchesNotAnswered
  <2>5. /\ cache'["agent"].data = cache["agent"].data
        /\ cache'["agent"].from = cache["agent"].from
    BY <2>1 DEF Invalidates, ConsoleInv, StoresOK, Keys
  <2> QED
    BY <2>1, <2>4, <2>5
<1> QED
  BY <1>2, <1>3, <1>4

LEMMA AgentAnswers ==
  ASSUME ConsoleInv, NEW data, NEW from, Succeeds("agent", data, from)
  PROVE  /\ cache'["agent"].data = data /\ cache'["agent"].from = from
         /\ call'["agent"].state # "answered"
         /\ form' = Refilled(data) /\ page' = page
<1>1. "agent" \in Slots /\ "agent" \in Keys
  BY ConsoleAssumption DEF Keys
<1>2. /\ cache' = [cache EXCEPT !["agent"] = [data |-> data, stale |-> FALSE, from |-> from]]
      /\ form' = Refilled(data) /\ page' = page
      /\ call' = [call EXCEPT !["agent"] = NoCall]
  BY <1>1 DEF Succeeds, Calls
<1> QED
  BY <1>1, <1>2 DEF ConsoleInv, CallsOK, StoresOK, NoCall

(* A store that is written rewrites what was read of it.                   *)
LEMMA WritesRewrite ==
  ASSUME ReadsKept, NEW store \in {"server", "mock"}, NEW changed \in BOOLEAN,
         rewritten' = rewritten \cup RewrittenBy(store, changed),
         ~(changed /\ store = "server") => server' = server,
         ~(changed /\ store = "mock") => mock'.conf = mock.conf,
         cache'["agent"].data = cache["agent"].data, cache'["agent"].from = cache["agent"].from,
         call'["agent"].state = "answered" => call'["agent"] = call["agent"]
  PROVE  ReadsKept'
BY DEF ReadsKept, RewrittenBy

-----------------------------------------------------------------------------
(* Steps that keep the reads, and steps that read or write a store.        *)

LEMMA ServeReads ==
  ASSUME ConsoleInv, ReadsKept, NEW s \in Slots, Serve(s)
  PROVE  ReadsKept'
<1>1. /\ UNCHANGED <<mock, cache>>
      /\ call' = [call EXCEPT ![s].state = "answered", ![s].arg = server']
      /\ Underway(s, call[s])
  BY DEF Serve, ConsoleInv, CallsOK, SlotOK, NoCall
<1>2. "agent" \in Slots
  BY ConsoleAssumption
<1>3. CASE s = "agent"
  <2>1. call[s].method = "getAgent"
    BY <1>1, <1>3 DEF Underway, MethodsOf
  <2>2. server' = server /\ rewritten' = rewritten \ {"answer"}
    BY <1>3, <2>1 DEF Serve
  <2>3. call'["agent"].arg = server
    BY <1>1, <1>2, <1>3, <2>2 DEF ConsoleInv, CallsOK, Underway, Fields
  <2> QED
    BY <1>1, <2>2, <2>3 DEF ReadsKept
<1>4. CASE s # "agent"
  <2>1. call'["agent"] = call["agent"]
    BY <1>1, <1>2, <1>4 DEF ConsoleInv, CallsOK
  <2>2. rewritten' = rewritten \cup RewrittenBy("server", server' # server)
    BY <1>4 DEF Serve
  <2>3. (server' # server) \in BOOLEAN /\ "server" \in {"server", "mock"}
    OBVIOUS
  <2> QED
    BY <1>1, <2>1, <2>2, <2>3, WritesRewrite
<1> QED
  BY <1>3, <1>4

LEMMA AnswerReads ==
  ASSUME ConsoleInv, ReadsKept, NEW s \in Slots, Answer(s)
  PROVE  ReadsKept'
<1>1. Succeeds(s, call[s].arg, "server") /\ UNCHANGED <<server, mock>>
  BY DEF Answer
<1>2. CASE s = "agent"
  <2>1. /\ cache'["agent"].data = call["agent"].arg /\ cache'["agent"].from = "server"
        /\ call'["agent"].state # "answered"
    BY <1>1, <1>2, AgentAnswers
  <2>2. /\ "shown" \notin rewritten' => "answer" \notin rewritten
        /\ call["agent"].state = "answered"
    BY <1>2 DEF Answer
  <2> QED
    BY <1>1, <2>1, <2>2 DEF ReadsKept
<1>3. CASE s # "agent"
  <2>1. rewritten' = rewritten
    BY <1>3 DEF Answer
  <2> QED
    BY <1>1, <1>3, <2>1, OtherAnswers, SameReadsKeep DEF SameReads
<1> QED
  BY <1>2, <1>3

LEMMA MockReads ==
  ASSUME ConsoleInv, ReadsKept, NEW s \in Slots, MockAnswers(s)
  PROVE  ReadsKept'
<1> DEFINE data == IF s = "agent" THEN mock'.conf ELSE mock'.depl
<1>1. Succeeds(s, data, "mock") /\ server' = server
  BY DEF MockAnswers
<1>2. CASE s = "agent"
  <2>1. /\ cache'["agent"].data = mock'.conf /\ cache'["agent"].from = "mock"
        /\ call'["agent"].state # "answered"
    BY <1>1, <1>2, AgentAnswers
  <2> QED
    BY <2>1 DEF ReadsKept
<1>3. CASE s # "agent"
  <2>1. rewritten' = rewritten \cup RewrittenBy("mock", mock'.conf # mock.conf)
    BY <1>3 DEF MockAnswers
  <2>2. (mock'.conf # mock.conf) \in BOOLEAN /\ "mock" \in {"server", "mock"}
    OBVIOUS
  <2> HIDE DEF data
  <2>3. /\ cache'["agent"].data = cache["agent"].data
        /\ cache'["agent"].from = cache["agent"].from
        /\ call'["agent"].state = "answered" => call'["agent"] = call["agent"]
    BY <1>1, <1>3, OtherAnswers
  <2> QED
    BY <1>1, <2>1, <2>2, <2>3, WritesRewrite
<1> QED
  BY <1>2, <1>3

(* The steps that neither answer nor serve a call.                         *)
LEMMA QuietReads ==
  ASSUME ConsoleInv,
         \/ Probe \/ Timer \/ Focus \/ (\E p \in Pages : Navigate(p))
         \/ (\E k \in Keys : GoesStale(k))
         \/ (\E s \in Slots : FallsBack(s) \/ Throws(s))
         \/ (\E c \in Confs \cup {Blank} : Edit(c))
  PROVE  SameReads
<1>1. "agent" \in Slots
  BY ConsoleAssumption
<1>2. CASE Probe
  <2>1. call'["agent"].state = "answered" => call'["agent"] = call["agent"]
    <3>1. PICK healthy \in BOOLEAN : ProbeEnds(healthy)
      BY <1>2 DEF Probe
    <3> DEFINE state == IF healthy THEN "requesting" ELSE "mocking"
    <3>2. call'["agent"] = IF call["agent"].state = "checking"
                           THEN [call["agent"] EXCEPT !.state = state] ELSE call["agent"]
      BY <1>1, <3>1 DEF ProbeEnds, Wake
    <3>3. state # "answered"
      OBVIOUS
    <3>4. CASE call["agent"].state = "checking"
      <4>1. Underway("agent", call["agent"])
        BY <1>1, <3>4 DEF ConsoleInv, CallsOK, SlotOK, NoCall
      <4> HIDE DEF state
      <4>2. [call["agent"] EXCEPT !.state = state].state = state
        BY <4>1 DEF Underway, Fields
      <4> QED
        BY <3>2, <3>3, <3>4, <4>2
    <3>5. CASE call["agent"].state # "checking"
      BY <3>2, <3>5
    <3> QED
      BY <3>4, <3>5
  <2> QED
    BY <1>2, <2>1 DEF Probe, PageUnchanged, SameReads
<1>3. CASE Timer
  BY <1>3 DEF Timer, VerdictForgotten, PageUnchanged, SameReads
<1>4. CASE Focus
  <2>1. Wanted(page, call) \in SUBSET Keys /\ Calls(WithFetches(call, Wanted(page, call)))
    BY <1>4 DEF Focus, Wanted, InView, Keys
  <2>2. call'["agent"].state = "answered" => call'["agent"] = call["agent"]
    BY <2>1, FetchesNotAnswered
  <2> QED
    BY <1>4, <2>2 DEF Focus, SameReads
<1>5. CASE \E p \in Pages : Navigate(p)
  <2>1. PICK p \in Pages : Navigate(p)
    BY <1>5
  <2>2. call'["agent"].state = "answered" => call'["agent"] = call["agent"]
    BY <2>1, OpensNotAnswered DEF Navigate
  <2> QED
    BY <2>1, <2>2 DEF Navigate, SameReads
<1>6. CASE \E k \in Keys : GoesStale(k)
  BY <1>6 DEF GoesStale, proxyVars, SameReads, ConsoleInv, StoresOK, Keys
<1>7. ASSUME NEW s \in Slots, FallsBack(s)
      PROVE  SameReads
  <2>1. call' = [call EXCEPT ![s].state = "mocking"] /\ Underway(s, call[s])
    BY <1>7 DEF FallsBack, FallBack, ConsoleInv, CallsOK, SlotOK, NoCall
  <2>2. call'[s].state = "mocking" /\ \A z \in Slots \ {s} : call'[z] = call[z]
    BY <2>1 DEF ConsoleInv, CallsOK, Underway, Fields
  <2> QED
    BY <1>1, <1>7, <2>2 DEF FallsBack, SameReads
<1>8. ASSUME NEW s \in Slots, Throws(s)
      PROVE  SameReads
  BY <1>1, <1>8 DEF Throws, SameReads, NoCall, ConsoleInv, CallsOK
<1>9. ASSUME NEW c, Edit(c)
      PROVE  SameReads
  BY <1>9 DEF Edit, proxyVars, SameReads
<1> QED
  BY <1>2, <1>3, <1>4, <1>5, <1>6, <1>7, <1>8, <1>9

LEMMA WritesReads ==
  ASSUME ConsoleInv, NEW m \in Mutations,
         \/ Save(m) \/ Deploy(m) \/ Undeploy(m) \/ ToggleAutoScale(m)
         \/ \E n \in 0..(MaxReplicas + 1) : Scale(m, n)
  PROVE  SameReads
<1>1. \E method, arg : Write(m, method, arg)
  BY DEF Save, Deploy, Undeploy, ToggleAutoScale, Scale
<1>2. PICK method, arg : Write(m, method, arg)
  BY <1>1
<1>3. call'["agent"] = call["agent"]
  BY <1>2, ConsoleAssumption DEF Write, Calls, ConsoleInv, CallsOK
<1> QED
  BY <1>2, <1>3 DEF Write, SameReads

LEMMA StepReads == ConsoleInv /\ ReadsKept /\ [Next]_vars => ReadsKept'
<1> SUFFICES ASSUME ConsoleInv, ReadsKept, [Next]_vars
             PROVE  ReadsKept'
  OBVIOUS
<1>1. CASE \/ Probe \/ Timer \/ Focus \/ (\E p \in Pages : Navigate(p))
           \/ (\E k \in Keys : GoesStale(k))
           \/ (\E s \in Slots : FallsBack(s) \/ Throws(s))
           \/ (\E c \in Confs \cup {Blank} : Edit(c))
  BY <1>1, QuietReads, SameReadsKeep
<1>2. ASSUME NEW s \in Slots, Serve(s) \/ Answer(s) \/ MockAnswers(s)
      PROVE  ReadsKept'
  BY <1>2, ServeReads, AnswerReads, MockReads
<1>3. ASSUME NEW m \in Mutations,
             \/ Save(m) \/ Deploy(m) \/ Undeploy(m) \/ ToggleAutoScale(m)
             \/ \E n \in 0..(MaxReplicas + 1) : Scale(m, n)
      PROVE  ReadsKept'
  BY <1>3, WritesReads, SameReadsKeep
<1>4. ASSUME NEW c \in Confs, OthersWrite(c)
      PROVE  ReadsKept'
  <2>1. UNCHANGED <<call, mock, cache>> /\ rewritten' = rewritten \cup RewrittenBy("server", TRUE)
    BY <1>4 DEF OthersWrite, proxyVars
  <2>2. "server" \in {"server", "mock"} /\ TRUE \in BOOLEAN
    OBVIOUS
  <2> QED
    BY <2>1, <2>2, WritesRewrite
<1>5. CASE UNCHANGED vars
  BY <1>5 DEF vars, proxyVars, ReadsKept
<1> QED
  BY <1>1, <1>2, <1>3, <1>4, <1>5 DEF Next

(* However fetches, fallbacks and writes overlap, what was read of the     *)
(* agent and not rewritten since is what its store has.                    *)
THEOREM ReadsStay == Spec => []ReadsKept
<1>1. Init => ReadsKept
  BY ConsoleAssumption DEF Init, ProxyInit, ReadsKept, Keys, NoCall
<1> QED
  BY <1>1, Inductive, StepReads, PTL DEF Spec

-----------------------------------------------------------------------------
(* What may change the form while the edit page stays. *)
KeptNow ==
  page = "edit" /\ page' = "edit" /\ call' # call /\ form' # form
    => \/ cache["agent"].from # cache'["agent"].from
       \/ "shown" \in rewritten

LEMMA AnswersKeepForm ==
  ASSUME ConsoleInv, ReadsKept, NEW s \in Slots, Answer(s) \/ MockAnswers(s)
  PROVE  KeptNow
<1>1. CASE s # "agent"
  <2>1. \E data, from : Succeeds(s, data, from)
    BY DEF Answer, MockAnswers
  <2> QED
    BY <1>1, <2>1, OtherAnswers DEF KeptNow
<1>2. CASE s = "agent" /\ Answer(s)
  <2>1. Succeeds("agent", call["agent"].arg, "server") /\ call["agent"].state = "answered"
    BY <1>2 DEF Answer
  <2>2. form' = Refilled(call["agent"].arg) /\ cache'["agent"].from = "server"
    BY <2>1, AgentAnswers
  <2> QED
    BY <2>1, <2>2 DEF ReadsKept, Refilled, KeptNow
<1>3. CASE s = "agent" /\ MockAnswers(s)
  <2>1. call["agent"].method = "getAgent"
    BY <1>3 DEF MockAnswers, ConsoleInv, CallsOK, SlotOK, Underway, NoCall, MethodsOf
  <2>2. mock' = mock
    BY <1>3, <2>1 DEF MockAnswers, MockApplied
  <2>3. Succeeds("agent", mock.conf, "mock")
    BY <1>3, <2>2 DEF MockAnswers
  <2>4. form' = Refilled(mock.conf) /\ cache'["agent"].from = "mock"
    BY <2>3, AgentAnswers
  <2> QED
    BY <2>4 DEF ReadsKept, Refilled, KeptNow
<1> QED
  BY <1>1, <1>2, <1>3

(* No fetch in the background takes away what the user typed into the edit *)
(* page, unless the agent was rewritten since the data shown were read, or *)
(* another store answers than the one they are of.                         *)
THEOREM FormStays == Spec => FormKept
<1>1. ASSUME ConsoleInv, ReadsKept, [Next]_vars
      PROVE  [KeptNow]_vars
  <2>1. ASSUME NEW s \in Slots,
               Serve(s) \/ Answer(s) \/ MockAnswers(s) \/ FallsBack(s) \/ Throws(s)
        PROVE  KeptNow
    BY <1>1, <2>1, AnswersKeepForm DEF Serve, FallsBack, Throws, KeptNow
  <2>2. ASSUME NEW m \in Mutations,
               \/ Save(m) \/ Deploy(m) \/ Undeploy(m) \/ ToggleAutoScale(m)
               \/ \E n \in 0..(MaxReplicas + 1) : Scale(m, n)
        PROVE  KeptNow
    BY <2>2 DEF Save, Deploy, Undeploy, Scale, ToggleAutoScale, Write, KeptNow
  <2>3. CASE (\E c \in Confs \cup {Blank} : Edit(c)) \/ (\E c \in Confs : OthersWrite(c))
    BY <2>3 DEF Edit, OthersWrite, proxyVars, KeptNow
  <2>4. CASE Probe \/ Timer \/ Focus \/ (\E k \in Keys : GoesStale(k))
    BY <2>4 DEF Probe, Timer, Focus, GoesStale, PageUnchanged, KeptNow
  <2>5. CASE \E p \in Pages : Navigate(p)
    BY <2>5 DEF Navigate, Opens, KeptNow
  <2>6. CASE UNCHANGED vars
    BY <2>6
  <2> QED
    BY <1>1, <2>1, <2>2, <2>3, <2>4, <2>5, <2>6 DEF Next
<1> QED
  BY <1>1, Inductive, ReadsStay, PTL DEF Spec, FormKept, KeptNow
=============================================================================
