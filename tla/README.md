# Verification of ResolveAgent

TLA+ models of the parts of ResolveAgent in which concurrency, failure and ordering
decide correctness, TLC configurations that model-check them on small instances, and
TLAPS proofs of the properties that hold for every value of the constants. Every
definition is translated from the source; `PROJECT.json` maps each one to its lines,
lists the hazards of the code at theirs, and says which property would catch which.

Run from this directory: `tlc -config MCx.cfg MCx`, `tlapm XProofs.tla`.

## 1. The system

ResolveAgent is a Go platform service (`pkg/`: registries, stores, HTTP server, gateway
synchronisation, feedback loop), a Python agent runtime (`python/src/resolveagent/`:
selector, agents, fault trees, memory, planner, message bus, documents, skills) and a web
console (`web/src/`: React pages over an API proxy with a mock store behind it). A request
of the console reaches the Go server, which forwards it to the runtime; there the selector
decides on a route (skill, rag, workflow, code_analysis, direct) and an agent executes it.
Around that path sit the resilience parts: circuit breakers in both languages, a selector
that retries over other routes, a retry helper, health checks and a feedback loop with
alerts. The console talks to whatever answers: the server, or the mock store in the page.

| Component | State it keeps | Operations | Interacts with |
|---|---|---|---|
| Circuit breaker, Python (`resilience.py`) | state, failure count, time of last failure, calls of the trial | `call`, `_on_success`, `_on_failure`, `reset` | wraps any coroutine; one per route in the resilient selector |
| Circuit breaker, Go (`pkg/circuitbreaker`) | the same and a list of pending changes | `Execute`, `Reset`, `notify` | calls a `StateObserver` |
| Resilient selector | breakers, weights, a session per request | `route_and_execute`, with clarification | selector, executor, breakers |
| Message bus | queue, worker task, subscriptions, pending requests | `publish`, `request`, `subscribe`, `unsubscribe`, `start`, `stop` | callbacks of agents, which may call the bus |
| Feedback loop (Go) | ring buffer, subscribers, buckets, fired alerts | `Emit`, `Record`, `Stats`, `Evaluate`, `Close` | health, retry, dispatchers |
| API proxy (`api/client.ts`) | the verdict on the backend, its timer, the pending probe | every method of the API | Go server, mock store (`api/mock.ts`) |
| Agent pages | query cache, forms, mutations under way | navigate, edit, save, deploy, scale, delete, create | API proxy, react-query |
| Playground | messages, conversation, history, localStorage | send, switch, open, delete, reload | agents, other tabs through localStorage |
| Fault tree editor | diagram, history, dirty flag | connect, drag, delete, layout, undo, redo, save | workflow pages, others who save |
| Workflow, solution, code analysis, execution, demo, home, database pages | lists, filters, dialogs, timers | see section 2 | mock store, react-query, the browser's visibility |
| Corpus generator | none | chains to documents | the call chain page |
| Health, retry (Go) | previous status; none | `Run`; `Do` | feedback |
| Planner | plan, step statuses | `execute_plan`, `replan` | executor of steps |
| Memory | working list, Redis hash, vectors | `add`, `store`, `load`, `promote` | Redis, Milvus |
| Fault trees (runtime) | event and gate values, caches | `execute`, `evaluate_tree`, cut sets | skills, RAG, LLM |
| Document sync | files, snapshots, review queue | `sync` | the file system, editors |
| Runtime engine | agent pool, conversations | `execute`, `_load_agent` | registry, agents, hooks |
| Selector, hooks | route cache, hook table | `route` | LLM, registries |
| Gateway sync (Go) | none of its own | `Sync` | registries, Higress |

`PROJECT.json` lists every component with its files, the ones left out as well, with the
reason. What is hard about those that are modelled, and correct about them:

* **Breakers.** The lock (`asyncio.Lock`, `sync.Mutex`) is held to decide whether a call
  goes through and again to report its outcome, never in between. Calls admitted before
  the circuit opened report into a breaker that has since opened, started a trial, closed
  or been reset. Correct: the circuit trips only after enough failures, a trial starts
  only after the timeout and lets at most the configured number of calls through, a failed
  probe reopens, only a successful probe (or an operator) closes; a trial ends.
* **Resilient selector.** Sessions interleave at two awaits per attempt and share
  breakers. Correct: a session tries no route twice, gives up only after code analysis was
  attempted, stops soon after its timeout, and failing routes are shielded.
* **Message bus.** One worker delivers one message at a time and awaits the callback;
  requests race their timeouts; replies come late, twice or never. Correct: requests leave
  nothing behind, answers reach who asked, the queue drains.
* **Feedback loop.** Emitters hold three locks one after the other, evaluators two, and the
  clock moves in between. Correct: the buffer has the latest signals in their order, no
  signal of the window is pruned, an alert fires once per episode.
* **API proxy and agent pages.** Calls share one probe and a verdict that a timer forgets; a
  request that fails falls back to another store, perhaps after the server acted on it; pages
  are left while their writes are under way. Correct: a recovered backend is found again,
  without mocks nothing but the server's data is shown, caches end up current, typing is kept.
* **Playground.** Answers arrive when the user is elsewhere, deletions run 200 ms late, and
  tabs overwrite each other's history. Correct: no question is lost, no conversation is
  continued with another agent, answers stand under their questions, spinners end.
* **Fault tree editor.** A tree is read back from a drawing, by heights. Correct: no cycle is
  saved, layout and reloading keep the tree, and an editor that says it is clean is.
* **Other pages.** Loads, writes and timers overtake each other and outlive their page.
  Correct: what is shown in the end is what is stored.

## 2. Modules

| Module | Models | Extends / instantiates |
|---|---|---|
| `BreakerContract` | what a circuit breaker promises: the abstract state machine | |
| `Breaker` | the operations of the Python breaker, as operators on its record | |
| `CircuitBreaker` | one Python breaker with concurrent calls | `Breaker`; refines `BreakerContract` |
| `ResilientSelector` | concurrent sessions over one breaker per route | `Breaker` |
| `GoBreaker` | the Go breaker with goroutines and its unlocked `notify` | refines `BreakerContract` |
| `MessageBus` | the bus, its worker, requests and callbacks | |
| `FeedbackLoop` | collector, ring buffer, aggregator and alert engine | |
| `ApiProxy` | `checkBackend` and the fallback of every API call | |
| `AgentConsole` | the detail, edit and deployment pages of one agent | `ApiProxy` |
| `Playground` | the conversation page in several tabs | |
| `TreeDiagrams` | fault trees as drawings: to flow, back, layout | |
| `TreeEditor` | the editor with its history, saves and other writers | `TreeDiagrams` |
| `FaultTrees`, `WorkflowPages` | shipped trees; list, designer, editor and executions | `TreeDiagrams` |
| `AgentStore`, `AgentsPages` | agents of the mock store; list, creation, memory pages | |
| `ExecutionTraces`, `ExecutionPages` | traces derived for executions; the pages that show them | |
| `SolutionStore`, `SolutionsPage` | solutions and filters; list, dialogs, detail | |
| `CodeAnalysisMocks`, `GraphPages` | call and traffic graphs; their tabs | |
| `K8sCorpus`, `RagCorpus`, `CorpusPage` | call chains; generated documents; the page of a chain | |
| `DemoPage` | scripted scenarios on timers | |
| `RoutingDemo` | the routing decisions the home page cycles through | |
| `DatabasePage` | the shipped schema; its tabs of definitions, relationships and sample rows | |
| `WebPages` | one of the nine groups of pages above, from `WorkflowPages` to here | instantiates them |
| `*Proofs` | lemmas and theorems of the module they are named after; `ResilienceProofs`, of `CircuitBreaker` and `ResilientSelector`; `PlatformProofs`, of `GoBreaker` and `FeedbackLoop`; `PageDiagramProofs`, the diagrams of `WebPages` | that module |
| `MC*` | TLC instances | the module they are named after |

**Breaker and CircuitBreaker.** Each section of the class that runs under the lock awaits
nothing, so it is one atomic step: `LetThrough`/`FailFast` for the section that opens
`call`, `Succeed`/`Fail` for the outcome. `Cancel` is a task cancelled inside the function:
`CancelledError` is no `Exception`, so nothing is reported. Time is the one question the
code asks of it: `rested` says that `reset_timeout` has passed since the last failure.
`trial`, `fails` and `resets` are histories that the code does not keep and the contract
is stated over.

**ResilientSelector.** Everything between two awaits of a session is one action: `Start`
and `Clarify` create a session, `Route` is the answer of `selector.route` up to the
executor call or, when a breaker refuses, on to the next await; `Solve`, `SoftFail` and
`Raise` are the ends of the executor call, each with the recording, re-enrichment, next
turn, final fallback or return that follows in the code. `Expire` is the clock passing the
total timeout. The selector may answer any type it can emit (never `fta`, which its
boundary renames to `workflow`), the executor may fail with any error class, and the
preferences that the classes lead to are computed as in `_compute_preferences`. Left open:
which untried route weighs most.

**GoBreaker.** A goroutine's locked section is one step; `notify`, which runs after the
unlock, is three: `Take` (length check and copy), `Clear` (`b.pending = nil`) and one
`Deliver` per change. `b.pending` is modelled by its length and by how many of its entries
were copied. The copy of the slice header is taken to be atomic; the data race also permits
a torn header, which could only make `EveryChangeHeard` worse. `Panic` is a panic of the
function, after which `afterRequest` never runs because it is not deferred.

**MessageBus.** `Issue` is `request` up to its await (nothing before it suspends), `Return`
and `TimeOut` are its two ways to the `finally` block, `TakeRequest`, `TakeReply` and
`CallbackEnds` are the worker. What a callback does is left open: reply with or without the
correlation id, reply later from another task, not at all, or first await a request of its
own (`CallInside`). A service that is not subscribed loses the message. Correlation ids are
unique, as the uuid drawn by `request` is. The documented wildcard channels, priorities and
message ttl are not implemented in the code and so not in the model.

**FeedbackLoop.** `Emit` is three steps, one per lock: `Accept` (the closed flag, the stamp),
`Push` (the ring buffer, with wrap-around) and `Record` (the aggregator, subscribed to all
sources). An evaluation is `Begin` (`Stats` reads the clock before it waits for the lock),
`Stats` (prunes every bucket and evaluates the condition) and `Decide` (marks, fires or
clears). The metric of a rule is keyed by event while totals are keyed by source and event,
so which source's total it holds is left open. `pushed`, `recorded`, `cleared` and `overlap`
are histories.

**ApiProxy and AgentConsole.** A call is `checking` (waits for the shared probe),
`requesting`, `answered` (the server acted, its answer is on the way) or `mocking`. `Wake`
moves all that wait when the probe ends; `FallBack` is a request that fails, before or after
the server acted; `VerdictForgotten` is the timer of 30 s. Whether mocks are enabled is a
choice of the build, made in the initial state. The console adds react-query's cache with
one entry per key (`GoesStale`, `Focus`, `Invalidates`), the form of the edit page, and
writes that outlive the page (`mounted`). The form is `Blank` until it is filled: nobody sees it
so while the first fetch runs (`isLoading`), but when that fails the blank form can be edited,
and saved once it has a name (`Edit`, `Save`). `rewritten` is a history: what was read of the
agent before its configuration changed in that store. The Go server has no deployment routes
(`Routed`), so deployments live in the mock store.

**Playground.** A handler or a continuation is one action with its rendering and effects:
`Keep` ends each with the automatic save and the write to localStorage (`Store`, which may
fail). `Send`, `Settle`, `NewConversation`, `SelectAgent`, `Open`, `ClickDelete` and
`FireDelete` (the timer, with the conversation its closure remembers), `Reload`. `dropped`,
`full`, `moved` and `writer` are histories over which the exceptions are stated.

**TreeDiagrams and TreeEditor.** A drawing is nodes with heights and edges; `Flow` is
`faultTreeToFlow`, `Saved` is `flowToFaultTree` with its choice of output by height, `LaidOut`
the automatic layout. The editor's actions are the handlers of the component; a tree that
arrives replaces the drawing (`Loaded`). Columns, names, gate types and evaluators are left out.

**The groups of pages** are over the mock store of a build without a backend: an answer
reads the store when its delay ends, and requests do not fail except where the mocks have
scenarios that do (code analysis). Each has its store module, with the shipped data as far as
it decides what happens, and a page module whose actions are the clicks, the answers and the
ends of writes. *Workflows:* the trees the repository ships are in `FaultTrees` with their
gates, events and order; the designer's `buildFlowData` is `Levels` and `GatePlace`; a look at
the executions tab unmounts the editor, which loses its edits. *Agents:* the list, the form of
a new agent (prefilled from a template or another agent), and the memory page. *Executions:*
`ExecutionTraces` derives route, chain, hooks, stamps and times of an execution as the mock
store does, `ExecutionPages` what each card shows of them. *Solutions:* a load asks for the
filters of the page, or of the click whose write it follows (`Reloaded`); whichever answers last
is shown, from the store at that moment, as the mock waits first and reads then (`mock.ts:499`). A
load is `outdated`, a history, when a later one answered before it or the filters were others by
the time it was asked for. *Graphs:* cards, dialogs and deletions with
the queries they invalidate. *Corpus:* `RagCorpus` generates the documents of a chain in the
order and with the ids of the source, `CorpusPage` filters them and lays the files out by the
topological order of their calls: `Placed` is the loop over the children of a file, `HandedOn` one
turn of the loop over the queue, `Drained` that loop. `IsChain` says what the chains are like:
files, components, calls and the functions of a file are listed once, and calls are between files
of the chain, which TLC checks of the shipped ones. *Demo:* each `runDemo` keeps its timers after its scenario
was left. *Home:* the change of scenario that the interval begins is one chain of timers
(`Tick`, `CycleGoesOn`), that of a click another (`selectScenario`, `ChoiceGoesOn`,
`ChoiceResumes`); `live` counts the intervals that run, `held` says whether `timerRef` has one.
*Database:* tables, groups and foreign keys are the shipped ones, with the numbers of their
columns and rows; opening the relationships throws (`failed`), so that its diagram is never drawn.
No property is stated of this page: it keeps nothing but what was clicked.

`WebPages` puts them together: they share no state, so a behaviour is about one of them and
the others stay as they begin.

## 3. Runs

| Run | Instance | Shows |
|---|---|---|
| `circuit_breaker` | 5 calls, threshold 2, 1 probe, 1 reset | `TrippedAtThreshold`, `ImplementsContract`, `TrialResolves` |
| `resilient_selector` | 2 clients, routes rag, fta, code_analysis, answers rag, workflow, 2 retries, 2 sessions, 1 clarification, threshold 1 | `NoRouteTwice`, `LastResort`, `LateCallsBounded`, `FailingRouteIsShielded` |
| `fta_unshielded` | 1 client, threshold 3, 3 sessions | `FtaIsShielded` is violated |
| `go_breaker` | 3 goroutines, 1 operator, threshold 1, 1 probe | `ImplementsContract`, `TrialResolves` |
| `go_observer` | 3 goroutines, threshold 1 | `EveryChangeHeard` is violated |
| `message_bus` | 3 requests of 2 senders to a service, 1 inner request, 1 stop | `NothingLeftBehind`, `AnswersStayWithSender`, `InnerRequestsStarve`, `QueueDrains` |
| `bus_correlation` | the same without stop | `AnswersCorrelate` is violated |
| `feedback_loop` | 2 emitters, 2 evaluators, 2 sources, 3 signals, a buffer of 2, a window of 1 tick, threshold 2, 3 evaluations | `BufferHoldsLatest`, `WindowKept`, `Cooldown` |
| `agent_console` | 2 configurations, 2 writes at a time and 3 in all, 2 replicas, with and without mocks | `HonestWithoutMocks`, `VerdictExpires`, `DeploymentCurrent`, `FormKept` |
| `playground` | 2 tabs, 2 agents, 2 questions, a history of 2, 4 conversation ids, 1 upset | `QuestionsKept`, `OneAgentPerConversation`, `AnswerUnderItsQuestion`, `SpinnerMeansWaiting` |
| `tree_editor` | 3 events, 2 gates, heights 0 and 3, 2 edits, 1 undo, other writers | `SavedAcyclic`, `RoundTrip`, `LayoutKeepsTree`, `CleanMeansSaved` |
| `web_pages` | the shipped data; 2 writes per group, 2 loads or demo runs at a time | the 12 properties of `WebPages` |

The bounds, and why they are enough. *Breakers:* a trial with a stale outcome needs a call
that trips the circuit, one that stays in flight, a probe and a call that is refused; with
threshold 2 a second failure, hence five calls. The Go instance has threshold 1 and three
calls because each of its calls takes nine steps; refinement there is checked for one probe.
`ResetBound` and `Operators` bound resets by hand. *Selector:* two retries over three routes
is the shape of the default configuration (three retries over four): as many attempts as
routes to try. `SessionBound` bounds the sessions ever started, two of which run at once.
*Bus:* two requests of one sender share a reply channel, a third belongs to another sender
and its callback awaits a fourth; each request is made once, `StopBound` bounds the stops.
*Feedback:* a buffer of two wraps with three signals, and three evaluations are one that
fires, one that overlaps it and one after; `MaxTime` bounds the clock at two windows.
*Console:* two overlapping writes of a page and one of somebody else (`WriteBound`).
*Playground:* a history of two is full with the third conversation, a switch and a late
deletion need two questions and up to four ids (`ConvBound`); one reload, deletion or failed
write (`UpsetBound`) each way. *Editor:* three events and two gates make a chain, a fork and
an event shared between levels; `Heights` are the row of the top event and a lower one,
`EditBound` edits fill a history of `MaxPast`. *Pages:* with two of them writes, loads and runs overtake each
other (`MaxWrites`, `MaxCalls`, `MaxLoads`, `MaxDeletions`, `MaxRuns`, `MaxTreeSaves`,
`MaxChoices`, with clicks on three scenarios, `Chosen`); `Hits` gives what some searches find; `MaxExpanded`
bounds the open cards of the corpus. Chains of three files have every graph of calls that
contains one given call, cycles included, chains of four every one without a cycle. Every
shipped fault tree and every agent with executions is an initial state.

Deadlock checking is on for `agent_console` and `tree_editor`, where something can always
happen. It is off in the other runs: their models end when the calls, sessions, requests,
signals, questions or writes are used up, and a stopped bus may stay stopped.

Symmetry is used for the clients of `resilient_selector` and `fta_unshielded`, the goroutines
and sources of `feedback_loop`, the tabs and questions of `playground`, the configurations
and writes of `agent_console`; those runs check invariants and action properties only. The
runs with liveness or refinement use none.

**Fairness.** `CircuitBreaker`: `WF(CallEnds(c))` for each call, as the event loop runs every
task and a protected call returns, raises or is cancelled. Nothing forces a call to be made,
the clock or an operator. `GoBreaker`: the same for the protected function (which may
panic) and `WF(Notify(g))`, as the scheduler runs every goroutine and observers return.
`MessageBus`: `WF(Deliver)` while the worker runs, and weak fairness of each request's
waiting task and timer; callbacks end once the request they await has. No service is
assumed to reply, and nobody is assumed to start or stop the bus. The feedback loop and the
pages have no liveness property: what must come about is stated of the states in which
nothing is under way (`DemoSettles`, `ListIsStored`, ...), or as the
presence of what will bring it about (`VerdictExpires`, `SpinnerMeansWaiting`).

**What the violations show.** They are stated in `PROJECT.json` under "findings":
decisions renamed to `workflow` have no circuit breaker; `notify` drops a change queued
while another goroutine is between reading and clearing the list; a reply on a sender's
reply channel answers every outstanding request of that sender, whatever its correlation id.

**Exceptions the properties of the pages state.** They are behaviours of the code that
nothing in the repository rules out, so they are no findings, but they are worth knowing:

* An answer that arrives after the user moved on joins the conversation then on display, and
  each tab writes its whole history over that of others (`Playground`).
* A tree whose events are shared between levels or unreachable may be changed by saving it
  unchanged; edits made while a save is under way, or saved by a save that fails, are lost
  while the editor says it is clean (`TreeEditor`).
* A write that is confirmed after its list was left does not reload the next list
  (`SolutionsPage`, `AgentsPages`).
* The list of solutions shows the answer that comes last. When answers to two choices of filters
  cross, or the filters are changed while a write is under way, which reloads with those of its
  click (`SolutionList.tsx:213`, `228`), it stays under other filters than the page's (`astray` in
  `SolutionsPage`).
* What is typed into the form of an agent is overwritten when that agent was rewritten since it was
  read, by this user or another, and when another store answers than the one the data shown are
  of: the first success after a failed fetch, or a switch between server and mock store
  (`FormKept` in `AgentConsole`).
* After its tab was closed and opened again a graph can be deleted twice (`GraphPages`).
* The designer draws gates 3 and 4 of the pod tree, some of whose events are shared, on one
  place (`WorkflowPages`); the prefetch hook of short executions is stamped after hooks that follow
  it (`ExecutionPages`).
* The tab of the relationships has positions for six of the seven groups of tables, so that
  opening it throws and, without an error boundary, takes the page down (`DatabasePage`,
  `RelationshipTab.tsx:113`). The page also states 7 migrations where `dbSchema.ts:3` has 8.
* On the home page the resumption of an earlier click cuts a later pause short, and a change the
  interval had begun replaces the scenario just clicked (`RoutingDemo`).
* Overlapping evaluations can fire an alert twice (`FeedbackLoop`).

**Mutants.** Next to the definitions stand operators that a plausible bug would put in
their place (`AdmitsOneMore`, `TimeOutUnclean`, ...); each property is violated when one of
them replaces the definition it is named after.

## 4. Proofs

Everything here is proved by TLAPS for every value of the constants. The assumptions on them
are that thresholds and limits of probes are positive, as the defaults and every caller in
the repository have them, that calls and resets are made by different goroutines, that each
request has a sender and a service, that the route list is longer than the number of
retries (`BoundsAssumption`, as in the default configuration), that a ring buffer has
room and a window has a length, and that `Slots` holds the two fetches of the console next to
its writes (`ConsoleAssumption`). Of the groups of pages (`PagesAssumption`) they are that what
is clicked exists or is new, and that the names of routes (`list`, `none`) are no ids. Of the
fault trees others store (`EditorAssumption`) it is that no two events and no two gates share an
id, that the gates join events of the tree, and that one of these is the top event unless the
tree is empty (`WellFormed`), which is true of every tree the editor saves and of those shipped.
Type invariants are proved and not checked by the runs.

`ResilienceProofs` has the theorems of both Python components, which share the lemmas about
the breaker record. Of `CircuitBreaker`, for any number of calls, any threshold and any limit of
probes:

* `BreakerTypeCorrect`: `BreakerSpec => []BreakerTypeOK`.
* `Trips`: `BreakerSpec => []TrippedAtThreshold`. The lemma `BreakerTripped` shows that no operation
  on the record separates state and count, so the invariant is inductive given the types.
* `Implements`: `BreakerSpec => ImplementsContract`. The refinement needs more than the types: that
  `probes` counts the calls really let through while the circuit is half-open
  (`TrialCounted`; a call joins a trial only from idle, so it is counted once), that the
  failures reported are never fewer than the breaker's count, which successes lower
  (`FailuresCounted`), and `TrippedAtThreshold`, without which a failed probe would leave the
  trial open. `BreakerInv` is their conjunction; each action then maps to one abstract action or
  to a stutter.

Of `ResilientSelector`, for any clients, route list, retries, clarifications and threshold:

* `TypeCorrect`, `EachRouteOnce`, `GivesUpLast`, `LateCalls`: `Spec => []` of `TypeOK`,
  `NoRouteTwice`, `LastResort`, `LateCallsBounded`. `NoRouteTwice` counts the union of the routes
  run and refused, so it needs that the two are apart (`RoutesCounted`). They are properties of one session, and
  their invariant `SessionOK` says how its locals relate at each await: the tried routes are
  those run or refused, but for the one being attempted (`Attempted`), and while the loop
  turns there are as many as attempts (`Routing`). As the list is longer than the number of
  attempts, an untried route is always left (`AlternativesOK`), which is why a decision that
  repeats a route can be replaced. Each operator between two awaits has a lemma
  (`RefusedOK`, `RecordedOK`, `ProceedOK`, ...).
* `Shielded`: `Spec => []FailingRouteIsShielded`. What sessions share is the breakers, and the
  invariant over them (`Shield`) is that each breaker has counted at least the exceptions in
  a row of its route; with `BreakerTripped` the count moves the state.

`PlatformProofs`, of `GoBreaker`, for any number of goroutines and resets as well:

* `TypeCorrect`: `Spec => []TypeOK`, from `TypeInv`, which adds that a goroutine in the middle
  of delivering has something left to deliver.
* `Implements`: `Spec => ImplementsContract`. The count of this breaker does not follow its
  state (a success that arrives late clears `b.failures` while the circuit is open), so
  `FailuresCounted` speaks of the failures recorded since it was last closed, which reach the
  threshold whenever it is not closed. `TrialCounted` is as above. No step of `notify` touches
  what the contract is stated over, so those steps stutter (`CountedElsewhere`).

`MessageBusProofs`, for any requests, senders and services and any nesting:

* `TypeCorrect`: `Spec => []TypeOK`.
* `Cleanup`, `Replies` and `Starvation`: `Spec => []` of `NothingLeftBehind`,
  `AnswersStayWithSender` and `InnerRequestsStarve`. None is inductive. `Registered` says
  that only requests being awaited are registered, each handler with the sender of its
  request, although the `finally` block of one request drops the handlers of others; `Held`
  says that a nested request is awaited only while the worker is inside the callback that
  made it, when it can take no reply.

`PlatformProofs`, of `FeedbackLoop`, for any goroutines, sources, window, threshold and number of signals:

* `CooldownHolds`: `Spec => Cooldown`. The action property needs to know what an evaluation
  that fires may find. `CooldownInv` says it of the time since the last firing, as long as no
  evaluation found the rule clear and none overlapped (`Quiet`): the rule is marked, at most
  one evaluation is under way, and one that was evaluated found the rule triggered.
* `LatestKept`: `Spec => []BufferHoldsLatest`. `RingInv` says that walking back from the head,
  around the end of the array (`Back`), one meets the signals pushed from the last one on.
  `PushRing` is the one step that moves the head; `Snapshot` reads the same slots forwards,
  from `size` behind the head.
* `WindowAlwaysKept`: `Spec => []WindowKept`. `SignalsInv` adds the types of the buckets and
  that no evaluation works with a clock from the future, so that a cutoff is never newer than
  the window. The lemma `PrunedKeeps` is about `pruneBucket` alone: whatever the order of the
  entries, those at or after the cutoff survive a prune. It needs the first live position,
  which exists as the natural numbers are well-founded (`SmallestExists`).

`AgentConsoleProofs`, for any configurations, replicas and number of writes under way:

* `VerdictsExpire`, `Honest` and `Current`: `Spec => []` of `VerdictExpires`,
  `HonestWithoutMocks` and `DeploymentCurrent`. Their invariant `ConsoleInv` adds what a call
  under way can be (`Underway`): only with mocks does it wait for the probe or reach the mock
  store, fetches call their own method and mutations one that writes, and the server answers
  only what it has routes for. From that follows that a deployment is only ever shown out of
  the mock store, and that whatever changes the store invalidates it. `CallsStart` and
  `OpensOK` say once what starting calls and opening a page keep; answers are split into
  fetches (`FetchAnswered`), saves (`SaveAnswered`) and operations (`OperationAnswered`).
* `FormStays`: `Spec => FormKept`. It rests on `ReadsStay`: as long as the agent is not rewritten,
  what the page shows of it, and an answer about it that is on its way, are what the store it was
  read of has (`ReadsKept`), so that an answer of the same store brings no other data.

`PlaygroundProofs`, for any number of tabs, agents, questions and records of a history:

* `QuestionsAlwaysKept`, `AlwaysOneAgent`, `AnswersUnderQuestions` and `SpinnerAlwaysWaits`:
  `Spec => []` of `QuestionsKept`, `OneAgentPerConversation`, `AnswerUnderItsQuestion` and
  `SpinnerMeansWaiting`. Only the last is inductive. `PageInv` has five parts besides it.
  `HistoryInv`: a history names no conversation twice, and localStorage is the history of the
  tab that wrote it last. `IdsInv`: wherever a conversation is named with an agent (`Names`:
  questions, tabs, histories, localStorage), it is the agent it was given when its id was
  drawn. `QuestionsInv`: a question to be kept is in the history *and*, while its conversation
  is shown, among the messages shown, as the next automatic save replaces the record by those.
  `MessagesInv`: a question the user waits for is shown, so that its answer joins it. Every
  handler changes one tab and ends in the same save, so each part has one lemma about such
  a change (`KeepShows`, `ShownIds`, ...), and a handler shows what its page is made of.

`TreeEditorProofs`, for any events, gates, trees, heights, history and number of edits:

* `EditorIsTyped`: `Spec => []EditorTypeOK`. Every handler turns a diagram into a diagram, every
  diagram is saved as a well-formed tree (`SavedIsWellFormed`), and every
  such tree is drawn as a diagram (`FlowIsDiagram`), so the way around through the server keeps
  the types. It says, too, that no two nodes of a diagram share an id, shown or in the history:
  the ids are among the used ones (`DiagramOf`), and what is dropped has a fresh one; and edges
  join events and gates that are shown. The recursions on the way (the filter `Only`,
  `FlattenSeq`, the search `Depths`) are functions on an interval, which `StepsMakeFunction`
  shows to exist; of the search only that depths are bounded is needed here (`DepthIsNatural`).
* `SavedTreesEnd`: `Spec => []SavedAcyclic`, from the types. `SavedGateByHeights`: a gate's output
  was left above the gate and its inputs were not, so along `Feeds` the heights increase, and
  the heights in one diagram are bounded (`HeightsAreBounded`).
* `TreesComeBack`: `Spec => []RoundTrip`, from the types. `TreeComesBack` is about one tree: in
  levels, an output is drawn above its gate and the inputs below (`HeightsInLevels`), each event
  and gate is found by its id in its place (`OnlyOfFlattened`), and a gate finds its own edges,
  in their order, among those of all (`JoinedOfFlow`).
* `LayoutsKeepTrees`: `Spec => []LayoutKeepsTree`, from the types. `LayoutKeepsTheTree` is about
  one diagram. Heights decide only which of the events joined to a gate is above it
  (`LayoutSavesAlike`). In a tree in levels, the one edge into a gate is from its output, each
  edge from it leads one level down, and something leads to every node but the top event
  (`EdgesJoinLevels`, `LayoutStartsAtTop`), so that the search from there finds the levels:
  `SearchWidens` says what its n-th round has reached, `LevelsAreFound` that this is all up to
  level n.
* `CleanIsSaved`: `Spec => []CleanMeansSaved`, inductive given the types; `LoadedKeepsClean` is
  the step where a tree arrives while another is shown.

`WebPagesProofs`, for any agents, solutions, workflows, graphs, scenarios and number of requests,
saves, deletions and timers under way; `GroupsApart` shows that the steps of one group leave the
state of the others alone, so each theorem is about its group:

* `ListEndsAsStored`, `AgentsEndListed`, `DemoAlwaysSettles`: `Spec => []` of `ListIsStored`,
  `AgentsListed`, `DemoSettles`. What the page shows at rest is, in every state, there already or
  brought by something under way: of the solutions, the load that was asked for last is outdated
  or has the filters of the page (`SolutionsInv`), and answers of others leave it the last
  (`OvertakenLoads`); the loads of `AgentsInv`; the run that has yet to end a step (`Coming` in
  `DemoInv`). Requests under way are sequences whose
  order matters; `ListAppended`, `ListRemoved` and `OthersGoOn` say what starting and ending one
  leaves of the others.
* `MemoriesStayForgotten` and `TreesStayAsStored`: `Spec => []` of `MemoriesForgotten` and
  `TreesAsStored`. `Forgotten` lets a cache have a deleted memory only while it is being fetched,
  or stale with its page closed, which fetches when it opens. `TreesInv` is stronger than it
  looks: a save writes store and cache in one step, so the cache has the tree of the store at all
  times, not only at rest, and the property says so.
* `GraphsStayCurrent`: `Spec => []GraphsCurrent`. `QueryInv` is the promise of the query cache: a
  key has what it is to show or is stale, and in view it is then fetched or shows an error. What
  is in view depends on what the list shows (`SameView`), so a fetch of the list can bring a
  dialog back into view, whose stale data is then fetched in the same step.
* `DeletionsFindTheirGraph`: `Spec => []DeletesWhatIsThere`, from `DeletionsInv`: what the list
  shows is there, unless it shows an error or the one deletion under way waits for its fetch,
  during which the buttons are disabled. Closing the tab breaks the chain (`reopened`).
* `RoutingStaysSteady`: `Spec => []RoutingDemoSteady`. `IntervalInv` counts the intervals that run
  (one exactly when `timerRef` has one); `DecisionInv` and `ChosenInv` name, for each part of the
  panel that is not final, the chain of timers that will complete it.
* `PagesAlwaysExplain`: `Spec => []PagesExplain`, from `ExecutionsInv`: a query has the answer to
  what its key asks (`AnswersTo`), no two pages have the same key for different things
  (`QueryKeysApart`), and the page that is open has mounted its own (`QueriesMounted`); this part is
  about the behaviour of the pages. That the answer explains the execution is a fact about the data
  the mock derives, computed for every execution the repository ships: its runs are told apart, and
  timings and stamps follow from the route and the outcome. The hooks are in the order of their
  stamps except for rag and multi runs of less than 1.5 s (`PrefetchOutlasts`).
* `CorpusAlwaysShown`, in `PageDiagramProofs`: `Spec => []CorpusShown`, for any chains.
  `LayoutInv` is the invariant of the loop over the queue, of the files that have left it and
  the calls handed on: what a file still waits for are the calls not handed on, it has been
  queued once there are none, and is one row below the deepest caller so far. When the queue
  is empty, the files left wait for each other, those on cycles or below one
  (`LayoutOfChain`), and the depths are lengths of longest paths; each row counts its files in
  order, so no two share a place (`PlacesOfFilesApart`). The documents are joined from
  thirteen parts, told apart by the first words of their ids (`PartOf`, `PartsSound`), so that
  no id comes twice (`DocumentsListed`) and a filter lists its part (`DocsOfType`), without
  the steps of the flow. `CorpusInv` says that the panel has the documents of the selected
  chain or none, and a filter only with a count above zero.
* `ShippedTreesStay`, in `PageDiagramProofs`: `Spec => []ShippedTreesKept`, for any workflows,
  deletions and number of saves. That a tree comes back is a lemma of `TreeEditorProofs` about
  any tree in levels whose top event is its first and reaches the output of every other gate
  (`Drawable`, `DrawableIsKept`): drawn or laid out, a gate's inputs lie no higher than the
  gate and its output above. `ShippedTree` shows that each of the nineteen trees is one, gate
  by gate (`GatesUpTo`, `TwoLevelTree`), also those that share events or have some out of
  reach. `ShippedInv` is about the rest: what is stored, in the cache, being saved or drawn of
  a shipped tree is that tree, its diagram as it was drawn or laid out, or lacks an event or a
  gate (`TreeKept`, `DiagramKept`). `ShippedTreesKept` alone is not inductive: a tree saved
  without a node could otherwise come back with one from elsewhere. What lacks a node goes on
  lacking it: laying out, saving and drawing keep the nodes (`LayoutKept`, `SaveKept`,
  `DrawnKept`), and what is dropped is no node of a shipped tree (`DropKept`).

Of the models, memories, graphs and their nodes and edges are sets: the code reads no order of
them, and what it does keep in order (loads, calls, saves, runs, clicks) are sequences.

Definitions by recursion are functions over an interval of numbers (`TimeIn` of the traces,
`Only`, `Drained` and `HandedOn` of the corpus, `FlattenSeq` of the community modules). No
induction theorem of the library can be cited (they take an operator), so the lemmas argue by
the least number: the naturals are well founded (`LeastNumber`), and at the first step where a
claim fails the step before refutes it. `StepsMakeFunction` shows that there is a function with
given steps, hence that a recursive definition has the value it says; `FlattenJoins` and
`OnlyKeeps` are its uses for joining and filtering lists.

Model-checked only: everything under fairness (`TrialResolves`, `QueueDrains`), which is out
of the prover's reach, as is `ENABLED`; and `GatesDrawnApart`, whose rows and columns are folds
over lists of lists. TLC goes through every tree that is shipped, as it is, saved, and without a
node; for any tree one would first have to say which trees have gates that do not cross.

## 5. Not modelled

Parts without interacting state (configuration, handlers, clients, batch imports, pages that
only display) are listed in `PROJECT.json` with the reason. Planned components (section 6)
are there as well. Abstracted inside the models: wording of errors, questions and documents,
latencies and clock values (only whether a timeout has passed, or ticks), confidence decay,
adaptive weights, identity of services behind a route, columns and colours of drawings. Of
react-query, which is external, the models have what the hooks rely on: one fetch per key,
staleness, refetching on mount and focus, invalidation; not its garbage collection of
queries that nobody views, nor that it pauses while the browser is offline.

## 6. Plan

Done: breakers in both languages and their contract, the resilient selector, the message
bus, the feedback loop, the API proxy and the console's pages that change state, and the
proofs above. Next, in this order:

1. `Health` and `Retry`: `Run` of `pkg/health/health.go` with its shared `prevStat` and the
   signals emitted after unlocking; `Do` of `pkg/retry/retry.go` with cancellation during the
   back-off and what the observer hears.
2. `FaultTree`: evaluation order of `get_gates_bottom_up`, the parallel evaluator with its
   caches over several evaluations, minimal cut sets against the reference definition
   (minimal sets of basic events that make the tree true).
3. `Planner`: `execute_plan` with replanning; what "completed" means for the original plan,
   and termination.
4. `Memory`: background persistence of snapshots and what a later load may return.
5. `DocSync`: two files, an editor, crashes between write and snapshot; abstract promise: no
   edit is lost without a conflict being reported.

Reserve, each a small module: agent pool and load race, route cache, hook installation,
gateway synchronisation.

Theorems still worth proving: that the designer places the gates of any tree whose gates do not
cross apart, of which `GatesDrawnApart` checks the shipped ones.
