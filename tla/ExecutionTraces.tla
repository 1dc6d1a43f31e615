--------------------------- MODULE ExecutionTraces ---------------------------
(***************************************************************************)
(* The executions of agents that the mock store ships and how it explains  *)
(* one (api/mock/ops.ts): the route the selector took, the hooks that ran, *)
(* the memory that was used and where the time went.  Of an input there    *)
(* are the keywords in it, of an output nothing; confidences and reasons   *)
(* are left out.  Times count seconds from the start of the execution.     *)
(***************************************************************************)
EXTENDS Integers, SequencesExt

Execution(agent_id, id, route_type, status, duration_ms, mentions) ==
  [agent_id |-> agent_id, id |-> id, route_type |-> route_type, status |-> status,
   duration_ms |-> duration_ms, mentions |-> mentions]

megaAgent == <<"mega", "001">>
ftaAgent == <<"fta", "002">>
ragAgent == <<"rag", "003">>
skillAgent == <<"skill", "004">>
rdsAgent == <<"fta", "007">>

megaExecutions == <<
  Execution(megaAgent, "aexec-001", "multi", "completed", 1230, {"ACK", "scale-out"}),
  Execution(megaAgent, "aexec-002", "multi", "completed", 1540, {}),
  Execution(megaAgent, "aexec-003", "direct", "completed", 890, {"etcd"}),
  Execution(megaAgent, "aexec-004", "direct", "completed", 1100, {"HPA"}) >>

ftaExecutions == <<
  Execution(ftaAgent, "aexec-005", "fta", "completed", 12340, {"NotReady"}),
  Execution(ftaAgent, "aexec-006", "fta", "completed", 18200, {"NotReady"}),
  Execution(ftaAgent, "aexec-007", "fta", "failed", 30000, {"NotReady"}) >>

ragExecutions == <<
  Execution(ragAgent, "aexec-008", "rag", "completed", 650, {"RDS", "MySQL", "replication-lag"}),
  Execution(ragAgent, "aexec-009", "rag", "completed", 480, {"ACK", "Ingress", "HTTPS"}),
  Execution(ragAgent, "aexec-010", "rag", "completed", 520, {"ECS", "disk", "scale-out"}) >>

skillExecutions == <<
  Execution(skillAgent, "aexec-011", "skill", "completed", 820, {"INC-2026-0891", "ECS", "CPU"}),
  Execution(skillAgent, "aexec-012", "skill", "completed", 750, {"INC-2026-0890", "SLB"}),
  Execution(skillAgent, "aexec-013", "skill", "completed", 680,
            {"INC-2026-0885", "security-group"}) >>

rdsExecutions == <<
  Execution(rdsAgent, "aexec-014", "fta", "completed", 25100, {"RDS", "replication-lag"}),
  Execution(rdsAgent, "aexec-015", "fta", "completed", 15200, {"RDS", "replication-lag"}) >>

mockAgentExecutions ==
  [agent_id \in {megaAgent, ftaAgent, ragAgent, skillAgent, rdsAgent} |->
     CASE agent_id = megaAgent -> megaExecutions
       [] agent_id = ftaAgent -> ftaExecutions
       [] agent_id = ragAgent -> ragExecutions
       [] agent_id = skillAgent -> skillExecutions
       [] agent_id = rdsAgent -> rdsExecutions]

getAgentExecutions(agent_id) ==
  IF agent_id \in DOMAIN mockAgentExecutions THEN mockAgentExecutions[agent_id] ELSE <<>>

allExecutions == UNION {ToSet(mockAgentExecutions[a]) : a \in DOMAIN mockAgentExecutions}

(* The agents with a runtime status, and for how many days they are up.    *)
mockAgentStatuses ==
  [agent_id \in {megaAgent, ftaAgent, ragAgent, skillAgent, rdsAgent,
                 <<"custom", "005">>, <<"mega", "006">>} |->
     CASE agent_id = <<"custom", "005">> -> 0
       [] agent_id = <<"mega", "006">> -> 3600
       [] OTHER -> 172800]

-----------------------------------------------------------------------------
(* What the selector made of an execution's input. *)

EXEC_KEYWORDS == <<"ACK", "RDS", "ECS", "SLB", "etcd", "HPA", "NotReady", "OOM",
  "CrashLoopBackOff", "NetworkPolicy", "Ingress", "HTTPS", "scale-out", "replication-lag",
  "disk", "security-group", "CPU">>

tickets == <<"INC-2026-0885", "INC-2026-0890", "INC-2026-0891">>

(* The ticket first, then the keywords in their order, six at most.        *)
extractExecEntities(base) ==
  LET hits == SelectSeq(tickets \o EXEC_KEYWORDS, LAMBDA k : k \in base.mentions)
  IN  SubSeq(hits, 1, IF Len(hits) < 6 THEN Len(hits) ELSE 6)

pickRagCorpora(base) ==
  LET mentions(K) == base.mentions \cap K # {}
  IN  IF mentions({"RDS", "replication-lag", "MySQL"}) THEN <<"rds", "fta">>
      ELSE IF mentions({"Ingress", "HTTPS"}) THEN <<"ack", "k8s">>
      ELSE IF mentions({"ECS", "disk", "scale-out"}) THEN <<"ecs", "k8s">>
      ELSE <<"k8s", "fta">>

(* The language in which code was found in the input, if any.              *)
buildCodeContext(base) ==
  IF "HPA" \in base.mentions THEN "yaml" ELSE IF "etcd" \in base.mentions THEN "shell" ELSE ""

FTA_TREE_TARGET(agent_id) ==
  IF agent_id = rdsAgent THEN "ft-rds-replication-delay" ELSE "ft-k8s-node-notready"

strategy(base) ==
  CASE base.route_type = "skill" -> "llm"
    [] base.route_type \in {"rag", "multi"} -> "hybrid"
    [] OTHER -> "rule"

pipeline_latency_ms(base) ==
  CASE strategy(base) = "rule" -> 14 [] strategy(base) = "llm" -> 96 [] OTHER -> 46

route_target(base) ==
  CASE base.route_type = "multi" -> "wf-composite-diagnosis"
    [] base.route_type = "fta" -> FTA_TREE_TARGET(base.agent_id)
    [] base.route_type = "rag" -> "kb-ops-corpus"
    [] base.route_type = "skill" -> "skill-ticket-triage"
    [] OTHER -> "llm-direct-infer"

chain(base) ==
  IF base.route_type # "multi" THEN <<>> ELSE
  << [route_type |-> "rag", route_target |-> "kb-ops-corpus"],
     [route_type |-> "fta", route_target |-> "ft-k8s-node-notready"],
     [route_type |-> "skill", route_target |-> "skill-ticket-triage"] >>

(* Of the parameters, those that name a tree or a ticket.                  *)
parameters(base) ==
  LET ticket == SelectSeq(extractExecEntities(base), LAMBDA e : e \in ToSet(tickets))
  IN  CASE base.route_type = "fta" -> <<FTA_TREE_TARGET(base.agent_id)>>
        [] base.route_type = "skill" -> IF ticket = <<>> THEN <<"INC-2026-0891">> ELSE ticket
        [] OTHER -> <<>>

buildPipelineTrace(base) ==
  [strategy |-> strategy(base),
   intent |-> [entities |-> extractExecEntities(base),
               intent_type |-> IF base.route_type = "fta" THEN "workflow" ELSE base.route_type,
               sub_intents |-> IF base.route_type = "multi" THEN <<"rag", "workflow", "skill">>
                               ELSE <<>>],
   available_skills |->
     (IF base.route_type \in {"skill", "multi"} THEN {"ticket-triage"} ELSE {})
       \cup {"log-analyzer", "metric-alerter"},
   active_workflows |->
     (IF base.route_type \in {"multi", "fta"} THEN {"wf-composite-diagnosis"} ELSE {})
       \cup {"wf-001"},
   rag_collections |->
     CASE base.route_type = "rag" -> pickRagCorpora(base)
       [] base.route_type = "multi" -> <<"k8s", "fta">>
       [] OTHER -> <<>>,
   code_context |-> buildCodeContext(base),
   decision |-> [route_type |-> base.route_type, route_target |-> route_target(base),
                 parameters |-> parameters(base), chain |-> chain(base)],
   pipeline_latency_ms |-> pipeline_latency_ms(base)]

-----------------------------------------------------------------------------
(* The hooks that ran, the messages in the context, and the times.         *)

(* Math.round(duration_ms / 1000) *)
Seconds(ms) == (ms + 500) \div 1000

Hook(hook_name, hook_type, status, duration_ms, timestamp) ==
  [hook_name |-> hook_name, hook_type |-> hook_type, status |-> status,
   duration_ms |-> duration_ms, timestamp |-> timestamp]

buildHookLogs(base) ==
  LET end == Seconds(base.duration_ms)
      before == << Hook("compaction", "pre_execution", "success", 12, 0),
                   Hook("quota-check", "pre_execution", "success", 8, 1) >>
      prefetched == IF base.route_type \in {"rag", "multi"}
                    THEN Append(before, Hook("prefetch", "pre_execution", "success", 15, 2))
                    ELSE before
      ended == Append(prefetched, IF base.status = "failed"
                                  THEN Hook("error-report", "on_error", "failed", 120, end)
                                  ELSE Hook("log", "post_execution", "success", 6, end))
  IN  Append(ended, Hook("memory", "post_execution", "success", 9, end + 1))

buildMemoryContext(base) == <<
  [role |-> "system", created_at |-> -300],
  [role |-> "user", created_at |-> 0],
  [role |-> "assistant", created_at |-> Seconds(base.duration_ms)] >>

(* The sum of the times of the hooks of these types.                       *)
TimeIn(hooks, types) ==
  LET sum[n \in 0..Len(hooks)] ==
        IF n = 0 THEN 0
        ELSE sum[n - 1] + (IF hooks[n].hook_type \in types THEN hooks[n].duration_ms ELSE 0)
  IN  sum[Len(hooks)]

(* What is left of the total is the model's, but at least 50.              *)
buildTiming(base, trace, hooks) ==
  LET pre  == TimeIn(hooks, {"pre_execution"})
      post == TimeIn(hooks, {"post_execution", "on_error"})
      rest == base.duration_ms - trace.pipeline_latency_ms - pre - post
  IN  [selector_ms |-> trace.pipeline_latency_ms, pre_hook_ms |-> pre, post_hook_ms |-> post,
       llm_inference_ms |-> IF rest < 50 THEN 50 ELSE rest, total_ms |-> base.duration_ms]

(* getAgentExecutionDetail finds an execution by its own id alone.         *)
getAgentExecutionDetail(execId) ==
  LET base == CHOOSE e \in allExecutions : e.id = execId
      pipeline_trace == buildPipelineTrace(base)
      hook_logs == buildHookLogs(base)
  IN  [agent_id |-> base.agent_id, id |-> base.id, route_type |-> base.route_type,
       status |-> base.status, duration_ms |-> base.duration_ms,
       pipeline_trace |-> pipeline_trace, hook_logs |-> hook_logs,
       memory_context |-> buildMemoryContext(base),
       error_detail |-> base.status = "failed",
       timing_breakdown |-> buildTiming(base, pipeline_trace, hook_logs)]
=============================================================================
