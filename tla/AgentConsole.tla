---------------------------- MODULE AgentConsole ----------------------------
(***************************************************************************)
(* The pages of one agent in the console: detail, edit and deployment,     *)
(* each reading through the query cache (hooks/useAgents.ts over           *)
(* react-query) and calling the platform through ApiProxy.  The Go server  *)
(* keeps the agent's configuration but has no deployment endpoints; the    *)
(* mock store (api/mock.ts) keeps both.                                    *)
(*                                                                         *)
(* A configuration is a member of Confs, the part of it that both stores   *)
(* keep.  Of react-query (external) the model has what the hooks rely on:  *)
(* one fetch per key at a time, data that is stale after 30 s, refetching  *)
(* of stale data when a page opens or the window gets the focus, and       *)
(* invalidation, which starts the fetch again for keys in view.  Data that *)
(* nobody views is kept for as long as the console is open.                *)
(***************************************************************************)
EXTENDS ApiProxy

CONSTANTS
  Confs,        \* configurations of the agent
  Blank,        \* what the edit form holds before it was ever filled: no name
  None,
  Mutations,    \* writes that can be under way at a time
  MaxReplicas,  \* 10 in the page
  WriteBound    \* bound on the writes of the console and of others

ASSUME ConsoleAssumption ==
  /\ {None, Blank} \cap Confs = {} /\ None \notin {Blank, "server", "mock"}
  /\ Slots = Mutations \cup {"agent", "deployment"}
  /\ Mutations \cap {"agent", "deployment"} = {}
  /\ Methods = {"getAgent", "updateAgent", "getAgentDeployment", "deployAgent",
                "undeployAgent", "scaleAgent", "updateAgentDeploymentConfig"}
  /\ MaxReplicas \in Nat \ {0} /\ WriteBound \in Nat

VARIABLES
  server,   \* the configuration the Go server has
  mock,     \* [conf, depl], the mock store
  cache,    \* [{"agent", "deployment"} -> [data, stale, from]]
  page,     \* the page shown
  form,     \* the form of the edit page; None on the other pages
  writes,
  rewritten \* history: what was read of the agent before its configuration in
            \* that store changed: what is "shown", the "answer" on its way

vars == <<proxyVars, server, mock, cache, page, form, writes, rewritten>>

Keys == {"agent", "deployment"}
Pages == {"list", "detail", "edit", "deployment"}

Routed == {"getAgent", "updateAgent"}     \* what the Go server has routes for

Scaling == {"deployAgent", "undeployAgent", "scaleAgent"}

InitialMock(c) ==
  [conf |-> c, depl |-> [state |-> "deployed", replicas |-> 1, auto |-> FALSE]]

Init ==
  /\ ProxyInit
  /\ server \in Confs
  /\ mock = InitialMock(server)
  /\ cache = [k \in Keys |-> [data |-> None, stale |-> FALSE, from |-> None]]
  /\ page = "list" /\ form = None
  /\ writes = 0
  /\ rewritten = {}

-----------------------------------------------------------------------------
(* The mock store. *)

Deployed(d) == [d EXCEPT !.state = "deployed",
                         !.replicas = IF d.replicas = 0 THEN 1 ELSE d.replicas]

MockApplied(method, arg) ==
  LET d == mock.depl
  IN  CASE method = "updateAgent"   -> [mock EXCEPT !.conf = arg]
        [] method = "deployAgent"   -> [mock EXCEPT !.depl = Deployed(d)]
        [] method = "undeployAgent" -> [mock EXCEPT !.depl = [d EXCEPT !.state = "undeployed",
                                                                       !.replicas = 0]]
        [] method = "scaleAgent"    -> [mock EXCEPT !.depl = [d EXCEPT !.state = "deployed",
                                                                       !.replicas = arg]]
        [] method = "updateAgentDeploymentConfig" -> [mock EXCEPT !.depl.auto = arg]
        [] OTHER -> mock

-----------------------------------------------------------------------------
(* The query cache and the pages. *)

InView(p) == IF p = "list" THEN {} ELSE IF p = "deployment" THEN Keys ELSE {"agent"}

Fetch(k) == Entered(IF k = "agent" THEN "getAgent" ELSE "getAgentDeployment", None)

WithFetches(c, K) == [s \in Slots |-> IF s \in K THEN Fetch(s) ELSE c[s]]

(* Keys a page has to fetch when it opens, c being the calls under way.    *)
Wanted(p, c) ==
  {k \in InView(p) : (cache[k].data = None \/ cache[k].stale) /\ c[k].state = "idle"}

(* Another page opens: components of the old one no longer follow their    *)
(* mutations, stale data is fetched, an edit form takes what is cached and *)
(* is blank if there is nothing.                                           *)
Opens(p, c) ==
  LET unmounted == [s \in Slots |-> IF s \in Mutations /\ c[s].state # "idle"
                                    THEN [c[s] EXCEPT !.mounted = FALSE] ELSE c[s]]
  IN  /\ page' = p
      /\ form' = IF p # "edit" THEN None
                 ELSE IF cache["agent"].data = None THEN Blank ELSE cache["agent"].data
      /\ Calls(WithFetches(unmounted, Wanted(p, c)))

Navigate(p) ==
  /\ p # page
  /\ Opens(p, call)
  /\ UNCHANGED <<mocks, verdict, timer, server, mock, cache, writes, rewritten>>

(* The 30 s of staleTime are over; or the window gets the focus again.     *)
GoesStale(k) ==
  /\ cache[k].data # None /\ ~cache[k].stale
  /\ cache' = [cache EXCEPT ![k].stale = TRUE]
  /\ UNCHANGED <<proxyVars, server, mock, page, form, writes, rewritten>>

Focus ==
  /\ Wanted(page, call) # {}
  /\ Calls(WithFetches(call, Wanted(page, call)))
  /\ UNCHANGED <<mocks, verdict, timer, server, mock, cache, page, form, writes, rewritten>>

(* invalidateQueries: the keys are stale, and those in view fetched again, *)
(* the answer of a fetch under way being ignored.                          *)
Invalidates(K, c) ==
  /\ cache' = [k \in Keys |-> IF k \in K THEN [cache[k] EXCEPT !.stale = TRUE] ELSE cache[k]]
  /\ Calls(WithFetches(c, K \cap InView(page)))

\* A plausible bug: the form is filled again by every fetch.
RefilledAlways(data) == IF page = "edit" THEN data ELSE form

(* The edit page fills its form when the agent it is shown changes; data   *)
(* equal to the old is the old object to react-query.                      *)
Refilled(data) ==
  IF page = "edit" /\ data # cache["agent"].data THEN data ELSE form

\* A plausible bug: scaling and configuring invalidate nothing.
StaleAfterDeployOnly(method) == IF method \in {"deployAgent", "undeployAgent"} THEN Keys ELSE {}

(* The keys the hooks invalidate after a write; ['agents'] is a prefix of  *)
(* all of them.  The edit page calls api.updateAgent itself and            *)
(* invalidates nothing.                                                    *)
StaleAfter(method) ==
  IF method \in {"deployAgent", "undeployAgent"} THEN Keys
  ELSE IF method = "updateAgent" THEN {} ELSE {"deployment"}

(* A call comes back with data: it enters the cache, or a mutation         *)
(* invalidates, or a save takes the user to the detail page.               *)
Succeeds(s, data, from) ==
  LET c == [call EXCEPT ![s] = NoCall]
  IN  IF s \in Keys
      THEN /\ cache' = [cache EXCEPT ![s] = [data |-> data, stale |-> FALSE, from |-> from]]
           /\ form' = IF s = "agent" THEN Refilled(data) ELSE form
           /\ Calls(c)
           /\ UNCHANGED page
      ELSE IF call[s].method = "updateAgent"
           THEN /\ IF page = "detail" THEN Calls(c) /\ UNCHANGED <<page, form>>
                                      ELSE Opens("detail", c)
                /\ UNCHANGED cache
           ELSE Invalidates(StaleAfter(call[s].method), c) /\ UNCHANGED <<page, form>>

-----------------------------------------------------------------------------
(* Where calls end. *)

\* What was read of a store before the agent there changed.
RewrittenBy(store, changed) ==
  IF ~changed THEN {}
  ELSE (IF cache["agent"].from = store THEN {"shown"} ELSE {})
         \cup (IF store = "server" /\ call["agent"].state = "answered" THEN {"answer"} ELSE {})

(* The Go server acts on a request; its answer is on the way.              *)
Serve(s) ==
  /\ call[s].state = "requesting" /\ call[s].method \in Routed
  /\ server' = IF call[s].method = "updateAgent" THEN call[s].arg ELSE server
  /\ call' = [call EXCEPT ![s].state = "answered", ![s].arg = server']
  /\ rewritten' = IF s = "agent" THEN rewritten \ {"answer"}
                  ELSE rewritten \cup RewrittenBy("server", server' # server)
  /\ UNCHANGED <<mocks, verdict, probing, timer,
                 mock, cache, page, form, writes>>

Answer(s) ==
  /\ call[s].state = "answered"
  /\ Succeeds(s, call[s].arg, "server")
  /\ rewritten' = IF s # "agent" THEN rewritten
                  ELSE IF "answer" \in rewritten THEN {"shown"} ELSE {}
  /\ UNCHANGED <<mocks, verdict, timer, server, mock, writes>>

(* The mock acts when its delay is over, and answers at once.              *)
MockAnswers(s) ==
  /\ call[s].state = "mocking"
  /\ mock' = MockApplied(call[s].method, call[s].arg)
  /\ Succeeds(s, IF s = "agent" THEN mock'.conf ELSE mock'.depl, "mock")
  /\ rewritten' = IF s = "agent" THEN {}
                  ELSE rewritten \cup RewrittenBy("mock", mock'.conf # mock.conf)
  /\ UNCHANGED <<mocks, verdict, timer, server, writes>>

\* A plausible bug: the catch looks for a mock also when mocks are disabled.
FallsBackAlways(s) ==
  /\ call[s].state \in {"requesting", "answered"}
  /\ call' = [call EXCEPT ![s].state = "mocking"]
  /\ UNCHANGED <<mocks, verdict, probing, timer,
                 server, mock, cache, page, form, writes, rewritten>>

FallsBack(s) ==
  /\ FallBack(s)
  /\ UNCHANGED <<server, mock, cache, page, form, writes, rewritten>>

(* Without a mock the page gets the error: a fetch keeps the old data (its *)
(* one retry failed as well), a write is reported as failed.               *)
Throws(s) ==
  /\ call[s].state \in {"requesting", "answered"}
  /\ ~mocks
  /\ call' = [call EXCEPT ![s] = NoCall]
  /\ UNCHANGED <<mocks, verdict, probing, timer,
                 server, mock, cache, page, form, writes, rewritten>>

-----------------------------------------------------------------------------
(* What the user does on the pages, and others elsewhere. *)

Write(m, method, arg) ==
  /\ ~Active(m) /\ writes < WriteBound
  /\ writes' = writes + 1
  /\ Calls([call EXCEPT ![m] = Entered(method, arg)])
  /\ UNCHANGED <<mocks, verdict, timer, server, mock, cache, page, form, rewritten>>

Pending(M) == \E m \in Mutations : Active(m) /\ call[m].mounted /\ call[m].method \in M

(* A skeleton is shown while an agent never read is fetched.  When that    *)
(* fetch fails the form is there to be filled, blank as it is.             *)
isLoading == cache["agent"].data = None /\ Active("agent")

Edit(c) ==
  /\ page = "edit" /\ ~isLoading /\ form # c
  /\ form' = c
  /\ UNCHANGED <<proxyVars, server, mock, cache, page, writes, rewritten>>

(* handleSave; its button is disabled for an agent without a name.         *)
Save(m) ==
  /\ page = "edit" /\ ~isLoading /\ form # Blank
  /\ ~Pending({"updateAgent"})
  /\ Write(m, "updateAgent", form)

Shown == cache["deployment"].data

(* handleDeploy, handleUndeploy, handleScale: the buttons are disabled     *)
(* while an operation of this visit of the page is pending.                *)
CanOperate == page = "deployment" /\ Shown # None /\ ~Pending(Scaling)

Deploy(m) ==
  CanOperate /\ Shown.state = "undeployed" /\ Write(m, "deployAgent", None)

Undeploy(m) ==
  CanOperate /\ Shown.state = "deployed" /\ Write(m, "undeployAgent", None)

InReplicaRange(n) == n \in 1..MaxReplicas

Scale(m, n) ==
  /\ CanOperate /\ Shown.state = "deployed"
  /\ n \in {Shown.replicas - 1, Shown.replicas + 1} /\ InReplicaRange(n)
  /\ Write(m, "scaleAgent", n)

(* handleToggleAutoScale *)
ToggleAutoScale(m) ==
  /\ page = "deployment" /\ Shown # None
  /\ ~Pending({"updateAgentDeploymentConfig"})
  /\ Write(m, "updateAgentDeploymentConfig", ~Shown.auto)

(* Somebody else changes the agent on the server.                          *)
OthersWrite(c) ==
  /\ c # server /\ writes < WriteBound
  /\ server' = c /\ writes' = writes + 1
  /\ rewritten' = rewritten \cup RewrittenBy("server", TRUE)
  /\ UNCHANGED <<proxyVars, mock, cache, page, form>>

-----------------------------------------------------------------------------
PageUnchanged == UNCHANGED <<server, mock, cache, page, form, writes, rewritten>>

Probe == \E healthy \in BOOLEAN : ProbeEnds(healthy) /\ PageUnchanged

Timer == VerdictForgotten /\ PageUnchanged

Next ==
  \/ Probe
  \/ Timer
  \/ Focus
  \/ \E p \in Pages : Navigate(p)
  \/ \E k \in Keys : GoesStale(k)
  \/ \E s \in Slots : Serve(s) \/ Answer(s) \/ MockAnswers(s) \/ FallsBack(s) \/ Throws(s)
  \/ \E m \in Mutations :
       \/ Save(m)
       \/ Deploy(m)
       \/ Undeploy(m)
       \/ \E n \in 0..(MaxReplicas + 1) : Scale(m, n)
       \/ ToggleAutoScale(m)
  \/ \E c \in Confs \cup {Blank} : Edit(c)
  \/ \E c \in Confs : OthersWrite(c)

Spec == Init /\ [][Next]_vars

-----------------------------------------------------------------------------
(* In a build without mocks everything shown is what the server answered,  *)
(* no write goes to the mock store, and the deployment page, for which the *)
(* server has no routes, shows nothing and offers no operation.            *)
HonestWithoutMocks ==
  ~mocks =>
    /\ \A k \in Keys : cache[k].from \in {None, "server"}
    /\ mock.depl = InitialMock(server).depl /\ Shown = None
    /\ \A s \in Slots : Active(s) => call[s].state \in {"requesting", "answered"}

(* checkBackend: a call that waits has a probe to wake it, no probe runs   *)
(* while a verdict holds, and every verdict has a timer to forget it, so   *)
(* that a backend that comes back is found again.                          *)
VerdictExpires ==
  /\ (\E s \in Slots : call[s].state = "checking") => probing
  /\ probing => verdict = "unknown"
  /\ verdict # "unknown" <=> timer

(* Whatever operations overlap, leave their page, or end while a fetch is  *)
(* under way: what the deployment page shows is what the store has, unless *)
(* it is being fetched again; and outdated data left behind by another     *)
(* page is marked stale, so that the page fetches it when it opens.        *)
DeploymentCurrent ==
  Shown \in {None, mock.depl}
    \/ Active("deployment")
    \/ (page # "deployment" /\ cache["deployment"].stale)

(* While the user stays on the edit page, no fetch in the background takes *)
(* away what was typed, however late its answer is, unless the agent was   *)
(* really rewritten, by this user or another, since the data shown had     *)
(* been read; or those data are not of the store that answers now: a fetch *)
(* had failed before there were any, or the server is back or gone.        *)
FormKept ==
  [][page = "edit" /\ page' = "edit" /\ call' # call /\ form' # form
       => \/ cache["agent"].from # cache'["agent"].from
          \/ "shown" \in rewritten]_vars
=============================================================================
