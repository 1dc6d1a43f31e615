-------------------------- MODULE CodeAnalysisMocks --------------------------
(***************************************************************************)
(* The call graphs and traffic graphs that the web interface ships for     *)
(* builds without a backend, mocks/codeAnalysis: the records, the checks   *)
(* every answer passes, and the scenarios that a developer can select in   *)
(* the browser's storage.  A call graph has counts, a traffic graph its    *)
(* nodes and edges; texts, measurements and orders are left out.           *)
(***************************************************************************)
EXTENDS Naturals

AnalysisStatus == {"pending", "running", "completed", "error", "analyzed"}
CodeAnalysisMockScenario == {"default", "empty", "error", "invalid"}

CallGraph(id, node_count, edge_count, max_depth, status) ==
  [id |-> id, node_count |-> node_count, edge_count |-> edge_count, max_depth |-> max_depth,
   status |-> status]

checkoutService == CallGraph("cg-checkout-service", 128, 246, 12, "completed")

defaultCallGraphItems == {
  checkoutService,
  CallGraph("cg-payment-worker", 84, 153, 9, "completed"),
  CallGraph("cg-ingress-gateway", 173, 327, 15, "running"),
  CallGraph("cg-order-aggregator", 211, 451, 18, "error") }

TrafficGraph(id, nodes, edges, priorities, status) ==
  [id |-> id, nodes |-> nodes, edges |-> edges, priorities |-> priorities, status |-> status]

checkoutCriticalPath ==
  TrafficGraph("tg-checkout-critical-path",
    {"api-gateway", "checkout-service", "payment-service", "risk-engine"},
    {<<"api-gateway", "checkout-service">>, <<"checkout-service", "payment-service">>,
     <<"checkout-service", "risk-engine">>},
    {"high", "medium"}, "analyzed")

observabilityMesh ==
  TrafficGraph("tg-observability-mesh",
    {"otel-collector", "metrics-writer", "trace-store"},
    {<<"otel-collector", "metrics-writer">>, <<"metrics-writer", "trace-store">>},
    {"low"}, "completed")

trafficReplay ==
  TrafficGraph("tg-traffic-replay", {"replay-gateway", "feature-flag-service"},
    {<<"replay-gateway", "feature-flag-service">>}, {}, "running")

trafficGraphItems == {checkoutCriticalPath, observabilityMesh, trafficReplay}

-----------------------------------------------------------------------------
(* The answers' checks; those of texts and numbers have no counterpart.    *)

validateCallGraphInfo(graph) == graph.status \in AnalysisStatus

validateTrafficGraphInfo(graph) ==
  /\ graph.status \in AnalysisStatus
  /\ graph.priorities \subseteq {"high", "medium", "low"}

Valid(kind, graph) ==
  IF kind = "call" THEN validateCallGraphInfo(graph) ELSE validateTrafficGraphInfo(graph)

(* The invalid scenarios: a first record with a status, or with a priority,*)
(* that the checks do not know.                                            *)
InvalidCallGraph == [checkoutService EXCEPT !.status = "broken"]
InvalidTrafficGraph == [checkoutCriticalPath EXCEPT !.priorities = {"urgent"}]

Items(kind) == IF kind = "call" THEN defaultCallGraphItems ELSE trafficGraphItems

(* getScenarioPayload; current is the payload that deletions change.       *)
PayloadList(kind, scenario, current) ==
  CASE scenario = "empty"   -> {}
    [] scenario = "invalid" -> IF kind = "call" THEN {InvalidCallGraph} ELSE {InvalidTrafficGraph}
    [] OTHER                -> current

PayloadDetails(scenario, current) == IF scenario = "default" THEN current ELSE {}

Has(list, id) == \E g \in list : g.id = id

ListAnswers(kind, scenario, current) ==
  /\ scenario # "error"
  /\ \A g \in PayloadList(kind, scenario, current) : Valid(kind, g)

GetAnswers(kind, scenario, current, id) ==
  /\ scenario # "error" /\ Has(PayloadDetails(scenario, current), id)
  /\ \A g \in current : g.id = id => Valid(kind, g)

(* deleteCallGraphMock and deleteTrafficGraphMock; the scenario is ignored.*)
Without(current, id) == {g \in current : g.id # id}
=============================================================================
