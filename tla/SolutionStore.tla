---------------------------- MODULE SolutionStore ----------------------------
(***************************************************************************)
(* The troubleshooting solutions of the mock store (api/mock.ts, with the  *)
(* records of api/mock/ops.ts): the list, and its handlers as functions of *)
(* the list.  Of a solution the model has what the list filters by; words  *)
(* are the search keywords, of those the page is used with, that occur in  *)
(* its title, symptoms or keywords.                                        *)
(***************************************************************************)
EXTENDS Naturals, Sequences, SequencesExt

SolutionSeverity == {"critical", "high", "medium", "low"}
SolutionStatus == {"active", "draft", "archived"}

Solution(id, domain, severity, status, words) ==
  [id |-> id, domain |-> domain, severity |-> severity, status |-> status, words |-> words]

systemSolutions == <<
  Solution("sol-001", "kubernetes", "high", "active", {"oom"}),
  Solution("sol-002", "database", "high", "active", {}),
  Solution("sol-003", "network", "medium", "active", {}) >>

kudigSolutions == <<
  Solution("sol-kudig-001", "kubernetes", "high", "active", {"etcd"}),
  Solution("sol-kudig-002", "kubernetes", "high", "active", {"etcd"}),
  Solution("sol-kudig-003", "kubernetes", "medium", "active", {"oom"}),
  Solution("sol-kudig-004", "kubernetes", "medium", "active", {}),
  Solution("sol-kudig-005", "kubernetes", "medium", "active", {}) >>

laterSolutions == <<
  Solution("sol-004", "database", "critical", "active", {"redis"}),
  Solution("sol-005", "network", "medium", "draft", {}),
  Solution("sol-006", "kubernetes", "low", "archived", {}) >>

mockSolutions == systemSolutions \o kudigSolutions \o laterSolutions

(* The solution and the executor of each recorded execution.               *)
mockSolutionExecutions == {
  <<"sol-001", "agent-mega-001">>, <<"sol-002", "agent-rag-003">>, <<"sol-002", "agent-mega-001">>,
  <<"sol-003", "agent-fta-002">>, <<"sol-004", "agent-skill-004">> }

-----------------------------------------------------------------------------
(* What the page can ask for: a choice of "all" filters nothing.           *)
Filters(keyword, severity, domain, status) ==
  [keyword |-> keyword, severity |-> severity, domain |-> domain, status |-> status]

NoFilters == Filters("", "all", "all", "all")

Selects(choice, value) == choice \in {"all", value}

(* searchSolutions with a keyword, listSolutions without one.              *)
Matches(f, solution) ==
  /\ Selects(f.domain, solution.domain)
  /\ Selects(f.severity, solution.severity)
  /\ Selects(f.status, solution.status)
  /\ f.keyword = "" \/ f.keyword \in solution.words

Matching(list, f) == SelectSeq(list, LAMBDA solution : Matches(f, solution))

Has(list, id) == \E i \in DOMAIN list : list[i].id = id

(* findIndex: ids made of the clock's last six digits may repeat.          *)
IndexOf(list, id) ==
  CHOOSE i \in DOMAIN list : list[i].id = id /\ \A j \in 1..(i - 1) : list[j].id # id

getSolution(list, id) == list[IndexOf(list, id)]

createSolution(list, solution) == <<solution>> \o list

updateSolution(list, solution) == ReplaceAt(list, IndexOf(list, solution.id), solution)

(* The id may be gone already.                                             *)
deleteSolution(list, id) == IF Has(list, id) THEN RemoveAt(list, IndexOf(list, id)) ELSE list

listSolutionExecutions(id) == {e \in mockSolutionExecutions : e[1] = id}
=============================================================================
