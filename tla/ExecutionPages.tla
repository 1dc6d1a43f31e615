--------------------------- MODULE ExecutionPages ---------------------------
(***************************************************************************)
(* The page of an agent with its four tabs (AgentDetail.tsx) and the page  *)
(* of one execution that its history links to (ExecutionDetail.tsx), over  *)
(* the mock store.  The queries are cached by react-query (external) under *)
(* keys that are paths; as nothing here changes what is stored, a query    *)
(* that is fetched again gives what it gave.  What a page shows is left    *)
(* out down to whose it is and which parts there are.                      *)
(***************************************************************************)
EXTENDS ExecutionTraces

CONSTANTS
  Visits,   \* sets of agents, shipped or created since, one of which is looked at
  Deleted   \* of these, the ones deleted before

VisitsAssumption == Deleted \subseteq UNION Visits

VARIABLES
  visited,
  route,   \* <<>> is elsewhere, <<agent>> and <<agent, execution>> the pages
  tab,
  queries  \* from keys to what is known of their answers

vars == <<visited, route, tab, queries>>

Tabs == {"overview", "harness", "status", "history"}

Init == visited \in Visits /\ route = <<>> /\ tab = "overview" /\ queries = <<>>

-----------------------------------------------------------------------------
(* The queries. *)

AgentKey(id) == <<"agents", id>>
StatusKey(id) == <<"agents", id, "status">>
ExecutionsKey(id) == <<"agents", id, "executions">>

\* A plausible bug: the executions of an agent share one entry of the cache.
SharedDetailKey(id, execId) == <<"agents", id, "executions", "detail">>

DetailKey(id, execId) == <<"agents", id, "executions", execId>>

Pending(asked) == [status |-> "pending", data |-> <<>>, asked |-> asked]

Query(queryKey, asked) == [queryKey |-> queryKey, asked |-> asked]

(* What a page that opens asks for: what is not known, or failed.          *)
Mounted(mounting) ==
  LET keys == {q.queryKey : q \in mounting}
      Asked(k) == (CHOOSE q \in mounting : q.queryKey = k).asked
  IN  [k \in DOMAIN queries \cup keys |->
         IF k \in DOMAIN queries /\ (k \notin keys \/ queries[k].status # "error")
         THEN queries[k] ELSE Pending(Asked(k))]

(* The store throws for an agent that is gone and a status it has not; it  *)
(* keeps the status and the executions of an agent that is deleted.        *)
Answer(asked) ==
  LET id == asked[2]
      answered(found, data) ==
        [status |-> IF found THEN "success" ELSE "error", data |-> IF found THEN data ELSE <<>>,
         asked |-> asked]
  IN  CASE asked[1] = "agent" -> answered(id \notin Deleted, <<id>>)
        [] asked[1] = "status" -> answered(id \in DOMAIN mockAgentStatuses, <<id>>)
        [] asked[1] = "executions" -> answered(TRUE, getAgentExecutions(id))
        [] asked[1] = "detail" -> answered(TRUE, <<getAgentExecutionDetail(asked[3])>>)

Answered(k) ==
  /\ queries[k].status = "pending"
  /\ queries' = [queries EXCEPT ![k] = Answer(@.asked)]
  /\ UNCHANGED <<visited, route, tab>>

-----------------------------------------------------------------------------
(* Going from page to page. *)

OpenAgent(id) ==
  /\ Len(route) = 0 \/ (Len(route) = 2 /\ route[1] = id)
  /\ route' = <<id>> /\ tab' = "overview"
  /\ queries' = Mounted({Query(AgentKey(id), <<"agent", id>>),
                         Query(StatusKey(id), <<"status", id>>),
                         Query(ExecutionsKey(id), <<"executions", id>>)})
  /\ UNCHANGED visited

Leave == route # <<>> /\ route' = <<>> /\ tab' = "overview" /\ UNCHANGED <<visited, queries>>

ChooseTab(t) ==
  /\ Len(route) = 1 /\ tab # t /\ tab' = t
  /\ UNCHANGED <<visited, route, queries>>

OpenExecution(execution) ==
  LET id == route[1]
  IN  /\ Len(route) = 1 /\ tab = "history"
      /\ execution \in ToSet(queries[ExecutionsKey(id)].data)
      /\ route' = <<id, execution.id>> /\ tab' = "overview"
      /\ queries' = Mounted({Query(AgentKey(id), <<"agent", id>>),
                             Query(DetailKey(id, execution.id), <<"detail", id, execution.id>>)})
      /\ UNCHANGED visited

Next ==
  \/ \E id \in visited : OpenAgent(id)
  \/ Leave
  \/ \E t \in Tabs : ChooseTab(t)
  \/ \E e \in allExecutions : OpenExecution(e)
  \/ \E k \in DOMAIN queries : Answered(k)

Spec == Init /\ [][Next]_vars

-----------------------------------------------------------------------------
(* What the pages show. *)

Skeleton == [kind |-> "skeleton"]
Nothing == [kind |-> "nothing"]

Shown(query, body) ==
  IF query.status = "pending" THEN Skeleton
  ELSE IF query.status = "error" THEN Nothing
  ELSE [kind |-> "shown", body |-> body]

allSkills == {<<"skill", "004">>, <<"custom", "005">>}

(* The strategy, stages and targets of the selector, if the mode is that.  *)
SelectorCard(id) == IF id \in allSkills THEN {} ELSE {"selector"}

HarnessCards(id) ==
  {"prompt", "tools", "hooks", "memory", "sandbox"} \cup SelectorCard(id)

Days(seconds) == seconds \div 86400
Hours(seconds) == (seconds % 86400) \div 3600

(* Days and hours, or hours and minutes if there is no day.                *)
formatUptime(seconds) ==
  IF Days(seconds) > 0 THEN <<Days(seconds), Hours(seconds)>>
  ELSE <<Hours(seconds), (seconds % 3600) \div 60>>

Overview ==
  LET query == queries[AgentKey(route[1])]
      id == query.data[1]
  IN  Shown(query, [id |-> id, type |-> id[1]])

Harness ==
  LET query == queries[AgentKey(route[1])]
  IN  Shown(query, [id |-> query.data[1], cards |-> HarnessCards(query.data[1])])

RuntimeStatus ==
  LET query == queries[StatusKey(route[1])]
      id == query.data[1]
  IN  Shown(query, [id |-> id, uptime |-> formatUptime(mockAgentStatuses[id])])

History ==
  LET query == queries[ExecutionsKey(route[1])]
  IN  Shown(query, query.data)

(* The cards of an execution: of the bars, their lengths; of the hooks,    *)
(* their types and stamps; that of the messages in the context, of a chain *)
(* and of an error are there if there are any.                             *)
Bars(timing) ==
  <<timing.selector_ms, timing.pre_hook_ms, timing.llm_inference_ms, timing.post_hook_ms>>

HookRows(hook_logs) ==
  [i \in DOMAIN hook_logs |-> [type |-> hook_logs[i].hook_type, at |-> hook_logs[i].timestamp]]

ChainCard(detail) == IF detail.pipeline_trace.decision.chain # <<>> THEN {"chain"} ELSE {}
MemoryCard(detail) == IF detail.memory_context # <<>> THEN {"memory"} ELSE {}
ErrorCard(detail) == IF detail.error_detail THEN {"error"} ELSE {}

ExecutionShown ==
  LET query == queries[DetailKey(route[1], route[2])]
      detail == query.data[1]
  IN  Shown(query,
            [execution |-> detail, bars |-> Bars(detail.timing_breakdown),
             hooks |-> HookRows(detail.hook_logs),
             cards |-> {"input", "trace", "timing", "hooks"}
                         \cup ChainCard(detail) \cup MemoryCard(detail) \cup ErrorCard(detail)])

-----------------------------------------------------------------------------
AgentExplained ==
  Len(route) = 1 =>
    /\ Overview.kind = "shown" => Overview.body.id = route[1]
    /\ Harness.kind = "shown" => Harness.body.id = route[1]
    /\ RuntimeStatus.kind = "shown" => RuntimeStatus.body.id = route[1]
    /\ History.kind = "shown" =>
         /\ \A i \in DOMAIN History.body : History.body[i].agent_id = route[1]
         /\ History.body # <<>> => RuntimeStatus # Nothing

(* A stamp that is before an earlier one: the prefetch ends at a second of *)
(* its own, which a run of less than 1.5 s does not last until.            *)
PrefetchOutlasts(execution) ==
  execution.route_type \in {"rag", "multi"} /\ execution.duration_ms < 1500

ExecutionExplained ==
  LET shown == ExecutionShown
      execution == shown.body.execution
      hooks == shown.body.hooks
      bars == shown.body.bars
  IN  Len(route) = 2 =>
        /\ shown # Nothing
        /\ shown.kind = "shown" =>
             /\ execution.id = route[2] /\ execution.agent_id = route[1]
             /\ ("chain" \in shown.body.cards) <=> (execution.route_type = "multi")
             /\ ("error" \in shown.body.cards)
                  <=> (\E i \in DOMAIN hooks : hooks[i].type = "on_error")
             /\ bars[1] + bars[2] + bars[3] + bars[4] = execution.duration_ms
             /\ \A i, j \in DOMAIN hooks :
                  i < j /\ ~PrefetchOutlasts(execution) => hooks[i].at <= hooks[j].at

(* Whatever was opened before and whenever its answer came, the page of an *)
(* agent shows nothing of another one, and that of an execution, which is  *)
(* found, shows the one that was clicked.  What it shows of it is the data *)
(* of the mock, and explains it: parts of its route and outcome, bars that *)
(* add up to how long it took, and, except for the short runs above, hooks *)
(* in the order of their stamps.                                           *)
PagesExplain == AgentExplained /\ ExecutionExplained
=============================================================================
