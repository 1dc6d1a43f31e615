---------------------------- MODULE MCWebPages -----------------------------
(* Two agents whose menus are used, and the call chains of the page: the   *)
(* two that are shipped, or two small ones, one of a single call and one   *)
(* with that of a to b and any among three files, or any without a cycle   *)
(* among four.  Each workflow with a tree, two of them also beside one     *)
(* without; each agent with executions, one without and one created since. *)
EXTENDS WebPages, Integers, Sequences

K8s == INSTANCE K8sCorpus
Trees == INSTANCE FaultTrees
Traces == INSTANCE ExecutionTraces

Files == <<"a", "b", "c", "d">>

(* All calls between two of the files, except for those that begin in d.   *)
FileCalls == <<
  <<"a", "b">>, <<"a", "c">>, <<"b", "c">>, <<"b", "a">>, <<"c", "a">>, <<"c", "b">>,
  <<"a", "d">>, <<"b", "d">>, <<"c", "d">> >>

Small(id, n, of) ==
  K8s!Chain(id, <<"c1", "c2", "c3">>,
    [i \in 1..n |-> K8s!SourceFile(Files[i], IF i < 3 THEN "c1" ELSE "c2",
                                   IF i = 1 THEN "critical" ELSE "medium",
                                   IF i = 2 THEN <<>> ELSE <<"run">>)],
    LET s == SelectSeq(FileCalls, LAMBDA c : c \in of)
    IN  [i \in DOMAIN s |-> K8s!ChainEdge(i, s[i][1], s[i][2])],
    n - 2)

SmallChains ==
  LET With(ids) == {{FileCalls[i] : i \in {1} \cup more} : more \in SUBSET ids}
  IN  {Small("small", 3, of) : of \in With(2..6)}
        \cup {Small("small", 4, of) : of \in With({2, 3, 7, 8, 9})}

MCCorpora == {K8s!K8S_CORPUS} \cup {<<Small("other", 3, {<<"b", "c">>}), chain>> : chain \in SmallChains}
MCOpenings ==
  {{w} : w \in DOMAIN Trees!mockFaultTrees}
    \cup {{w, "wf-003"} : w \in {"wf-002", "wf-kudig-pod"}}
MCDeletable == {Trees!Mid(1)}

MCVisits ==
  {{a} : a \in DOMAIN Traces!mockAgentExecutions}
    \cup {{<<"custom", "005">>, <<"mega", "1234">>}}
MCDeleted == {<<"rag", "003">>}

(* What matchesSearch finds of these texts in the tables and their columns.*)
MCHits ==
  [text \in {"embedding", "execution", "workflow", "cron"} |->
     CASE text = "embedding" -> {"memory_long_term"}
       [] text = "execution" -> {"workflow_executions", "hooks", "hook_executions",
                                 "fta_analysis_results", "solution_executions"}
       [] text = "workflow" -> {"workflows", "workflow_executions", "fta_documents",
                                "troubleshooting_solutions"}
       [] text = "cron" -> {}]

MCAgents == {<<"mega", "001">>, <<"rag", "003">>}
=============================================================================
