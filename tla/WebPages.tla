------------------------------ MODULE WebPages ------------------------------
(***************************************************************************)
(* The pages of the web interface that work on what it ships: solutions,   *)
(* agents and their executions, workflows, demos, code analysis graphs,    *)
(* call chains and the database schema.  They share no state, and a page   *)
(* that is left drops its own, so that a behaviour is about one of them and*)
(* the others stay as they begin.                                          *)
(***************************************************************************)

CONSTANTS
  Keywords, Severities, Domains, Statuses, NewIds, TouchedSolutions, MaxLoads, MaxWrites,
  Digits, TouchedAgents, Typed, Used, MaxCalls,
  Played, MaxRuns,
  Viewed, MaxDeletions,
  Corpora, MaxExpanded,
  Openings, Deletable, MaxTreeSaves,
  Visits, Deleted,
  Chosen, MaxChoices,
  Hits

VARIABLES
  page,
  stored, solutionsRoute, solutions, solutionsLoading, filters, solutionToDelete, formOpen, form,
  solutionLoads, writing, astray, overtaken, detail, solutionWrites,
  mockAgents, deletedLtmIds, agentsRoute, agents, agentsLoading, agentToDelete, deleting,
  agentLoads, behind, name, type, prefilling, submitting, selectedConv, memoryQueries, calls,
  confirmed, agentWrites,
  running, activeScenario, currentStep, completedSteps, showResponse, selectorReveal,
  selectorWinner, runs,
  kind, scenario, currentPayload, graphQueries, shownTab, selectedId, deletions, reopened, asked,
  chains, selectedChainId, selectedFileId, positions, corpus, activeType, expanded,
  opened, faultTrees, workflowsRoute, treeQueries, drawn, dirty, saves, treeSaves,
  shownPart, records, selected,
  visited, executionsRoute, tab, queries,
  activeIndex, isAnimating, isPaused, phase, hidden, live, held, cycle, choices, chosen,
  databaseTab, searchQuery, selectedGroup, selectedTable, failed

Solutions == INSTANCE SolutionsPage WITH
  Touched <- TouchedSolutions, route <- solutionsRoute, loading <- solutionsLoading,
  deleteTarget <- solutionToDelete, loads <- solutionLoads

Agents == INSTANCE AgentsPages WITH
  Touched <- TouchedAgents, route <- agentsRoute, loading <- agentsLoading,
  deleteTarget <- agentToDelete, loads <- agentLoads

Demo == INSTANCE DemoPage
Graphs == INSTANCE GraphPages
Corpus == INSTANCE CorpusPage
Workflows == INSTANCE WorkflowPages WITH route <- workflowsRoute
Executions == INSTANCE ExecutionPages WITH route <- executionsRoute
Home == INSTANCE RoutingDemo
Database == INSTANCE DatabasePage WITH tab <- databaseTab

ASSUME PagesAssumption ==
  /\ Solutions!SolutionsAssumption
  /\ Agents!AgentsAssumption
  /\ Demo!DemoAssumption
  /\ Graphs!GraphsAssumption
  /\ Corpus!CorporaAssumption
  /\ Workflows!WorkflowsAssumption
  /\ Executions!VisitsAssumption
  /\ Home!ChoicesAssumption
  /\ Database!HitsAssumption

solutionsVars ==
  <<stored, solutionsRoute, solutions, solutionsLoading, filters, solutionToDelete, formOpen, form,
    solutionLoads, writing, astray, overtaken, detail, solutionWrites>>
agentsVars ==
  <<mockAgents, deletedLtmIds, agentsRoute, agents, agentsLoading, agentToDelete, deleting,
    agentLoads, behind, name, type, prefilling, submitting, selectedConv, memoryQueries, calls,
    confirmed, agentWrites>>
demoVars ==
  <<running, activeScenario, currentStep, completedSteps, showResponse, selectorReveal,
    selectorWinner, runs>>
graphsVars ==
  <<kind, scenario, currentPayload, graphQueries, shownTab, selectedId, deletions, reopened, asked>>
corpusVars ==
  <<chains, selectedChainId, selectedFileId, positions, corpus, activeType, expanded>>
workflowsVars ==
  <<opened, faultTrees, workflowsRoute, treeQueries, drawn, dirty, saves, treeSaves,
    shownPart, records, selected>>
executionsVars == <<visited, executionsRoute, tab, queries>>
homeVars ==
  <<activeIndex, isAnimating, isPaused, phase, hidden, live, held, cycle, choices, chosen>>
databaseVars == <<databaseTab, searchQuery, selectedGroup, selectedTable, failed>>

vars ==
  <<page, solutionsVars, agentsVars, demoVars, graphsVars, corpusVars, workflowsVars,
    executionsVars, homeVars, databaseVars>>

Init ==
  /\ page \in {"solutions", "agents", "demo", "graphs", "corpus", "workflows", "executions",
              "home", "database"}
  /\ Solutions!Init /\ Agents!Init /\ Demo!Init /\ Home!Init /\ Database!Init
  /\ Graphs!Init /\ (page # "graphs" => kind = "call" /\ scenario = "default")
  /\ Corpus!Init /\ (page # "corpus" => chains = CHOOSE c \in Corpora : TRUE)
  /\ Workflows!Init /\ (page # "workflows" => opened = CHOOSE O \in Openings : TRUE)
  /\ Executions!Init /\ (page # "executions" => visited = CHOOSE V \in Visits : TRUE)

Next ==
  /\ UNCHANGED page
  /\ \/ /\ page = "solutions" /\ Solutions!Next
        /\ UNCHANGED <<agentsVars, demoVars, graphsVars, corpusVars, workflowsVars,
                       executionsVars, homeVars, databaseVars>>
     \/ /\ page = "agents" /\ Agents!Next
        /\ UNCHANGED <<solutionsVars, demoVars, graphsVars, corpusVars, workflowsVars,
                       executionsVars, homeVars, databaseVars>>
     \/ /\ page = "demo" /\ Demo!Next
        /\ UNCHANGED <<solutionsVars, agentsVars, graphsVars, corpusVars, workflowsVars,
                       executionsVars, homeVars, databaseVars>>
     \/ /\ page = "graphs" /\ Graphs!Next
        /\ UNCHANGED <<solutionsVars, agentsVars, demoVars, corpusVars, workflowsVars,
                       executionsVars, homeVars, databaseVars>>
     \/ /\ page = "corpus" /\ Corpus!Next
        /\ UNCHANGED <<solutionsVars, agentsVars, demoVars, graphsVars, workflowsVars,
                       executionsVars, homeVars, databaseVars>>
     \/ /\ page = "workflows" /\ Workflows!Next
        /\ UNCHANGED <<solutionsVars, agentsVars, demoVars, graphsVars, corpusVars,
                       executionsVars, homeVars, databaseVars>>
     \/ /\ page = "executions" /\ Executions!Next
        /\ UNCHANGED <<solutionsVars, agentsVars, demoVars, graphsVars, corpusVars,
                       workflowsVars, homeVars, databaseVars>>
     \/ /\ page = "home" /\ Home!Next
        /\ UNCHANGED <<solutionsVars, agentsVars, demoVars, graphsVars, corpusVars,
                       workflowsVars, executionsVars, databaseVars>>
     \/ /\ page = "database" /\ Database!Next
        /\ UNCHANGED <<solutionsVars, agentsVars, demoVars, graphsVars, corpusVars,
                       workflowsVars, executionsVars, homeVars>>

Spec == Init /\ [][Next]_vars

-----------------------------------------------------------------------------
(* Properties of the pages, stated in their modules. *)

(* Solutions: however loads and writes overtake each other, the list ends  *)
(* as what the store has under the filters of the page, with the exception *)
(* of outdated answers.                                                    *)
ListIsStored == page = "solutions" => Solutions!ListIsStored

(* Agents: however loads, deletions and creations overtake each other, the *)
(* list ends as what the store has.                                        *)
AgentsListed == page = "agents" => Agents!AgentsListed

(* Agents: a memory page shows nothing that was deleted on it.             *)
MemoriesForgotten == page = "agents" => Agents!MemoriesForgotten

(* Demo: whichever runs were left, the page ends on a finished scenario.   *)
DemoSettles == page = "demo" => Demo!DemoSettles

(* Code analysis: cards and dialogs end as the graphs that are left.       *)
GraphsCurrent == page = "graphs" => Graphs!GraphsCurrent

(* Code analysis: no click deletes a graph that is gone.                   *)
DeletesWhatIsThere == page = "graphs" => Graphs!DeletesWhatIsThere

(* Call chains: the document list has as many as its filter counts, and    *)
(* the rows of the graph are the lengths of the longest paths of calls.    *)
CorpusShown == page = "corpus" => Corpus!ListAsCounted /\ Corpus!LayoutByLongestPath

(* Workflows: the cache never has a tree other than the stored one.        *)
TreesAsStored == page = "workflows" => Workflows!TreesAsStored

(* Workflows: a shipped tree that is opened and saved stays as it was.     *)
ShippedTreesKept == page = "workflows" => Workflows!ShippedTreesKept

(* Workflows: the designer draws no two gates at the same place.           *)
GatesDrawnApart == page = "workflows" => Workflows!GatesApart

(* Executions: pages show what is of their URL, and explain it, save for   *)
(* the stamps of hooks of short runs.                                      *)
PagesExplain == page = "executions" => Executions!PagesExplain

(* Home: the cycle of scenarios neither stops nor doubles, a scenario that *)
(* was clicked stands, and every change ends on a complete decision.       *)
RoutingDemoSteady ==
  page = "home" => Home!CycleKept /\ Home!ChoiceStands /\ Home!RestsOnDecision
=============================================================================
