---------------------------- MODULE DatabasePage ----------------------------
(***************************************************************************)
(* The page of the database schema, pages/Database: a list of tables under *)
(* a search and a group with the definition of one, the diagram of the     *)
(* relationships, and the sample rows of a table.  A tab that is not shown *)
(* is unmounted and forgets its table; search and group belong to the page.*)
(* The schema it shows is data/dbSchema.ts: for each table its migration,  *)
(* the numbers of its columns, indexes and sample rows, and its foreign    *)
(* keys; columns and rows themselves are left out.                         *)
(***************************************************************************)
EXTENDS Naturals, Sequences, SequencesExt

CONSTANT Hits   \* for each word that is searched for, the tables it is found in

VARIABLES
  tab, searchQuery, selectedGroup,
  selectedTable,   \* of the tab shown
  failed           \* rendering threw: there is no error boundary, the page is gone

vars == <<tab, searchQuery, selectedGroup, selectedTable, failed>>

-----------------------------------------------------------------------------
(* The schema *)

TableDef(name, migration, columns, mockRows, indexes, foreignKeys) ==
  [name |-> name, migration |-> migration, columns |-> columns, mockRows |-> mockRows,
   indexes |-> indexes, foreignKeys |-> foreignKeys]

ForeignKeyDef(column, referencesTable, onDelete) ==
  [column |-> column, referencesTable |-> referencesTable, onDelete |-> onDelete]

agents == TableDef("agents", "001_init", 10, 3, 2, <<>>)
skills == TableDef("skills", "001_init", 13, 20, 4, <<>>)
workflows == TableDef("workflows", "001_init", 10, 38, 2, <<>>)
workflowExecutions == TableDef("workflow_executions", "001_init", 9, 44, 2,
  <<ForeignKeyDef("workflow_id", "workflows", "CASCADE")>>)
models == TableDef("models", "001_init", 10, 3, 1, <<>>)
auditLog == TableDef("audit_log", "001_init", 7, 3, 2, <<>>)

hooks == TableDef("hooks", "002_hooks", 13, 2, 0, <<>>)
hookExecutions == TableDef("hook_executions", "002_hooks", 12, 2, 0,
  <<ForeignKeyDef("hook_id", "hooks", "CASCADE")>>)

ragDocuments == TableDef("rag_documents", "003_rag_documents", 13, 2, 0, <<>>)
ragIngestionHistory == TableDef("rag_ingestion_history", "003_rag_documents", 11, 2, 0,
  <<ForeignKeyDef("document_id", "rag_documents", "SET_NULL")>>)

ftaDocuments == TableDef("fta_documents", "004_fta_documents", 12, 40, 0, <<>>)
ftaAnalysisResults == TableDef("fta_analysis_results", "004_fta_documents", 12, 1, 0,
  <<ForeignKeyDef("document_id", "fta_documents", "CASCADE")>>)

codeAnalyses == TableDef("code_analyses", "005_code_analysis", 17, 1, 0, <<>>)
codeAnalysisFindings == TableDef("code_analysis_findings", "005_code_analysis", 15, 2, 0,
  <<ForeignKeyDef("analysis_id", "code_analyses", "CASCADE")>>)

memoryShortTerm == TableDef("memory_short_term", "006_memory", 9, 3, 0, <<>>)
memoryLongTerm == TableDef("memory_long_term", "006_memory", 14, 6, 0, <<>>)

troubleshootingSolutions ==
  TableDef("troubleshooting_solutions", "008_troubleshooting_solutions", 22, 3, 5, <<>>)
solutionExecutions == TableDef("solution_executions", "008_troubleshooting_solutions", 11, 1, 2,
  <<ForeignKeyDef("solution_id", "troubleshooting_solutions", "CASCADE")>>)

TableGroup(label, tables) == [label |-> label, tables |-> tables]

tableGroups == <<
  TableGroup("core", <<agents, skills, workflows, workflowExecutions, models, auditLog>>),
  TableGroup("hooks", <<hooks, hookExecutions>>),
  TableGroup("rag", <<ragDocuments, ragIngestionHistory>>),
  TableGroup("fta", <<ftaDocuments, ftaAnalysisResults>>),
  TableGroup("code", <<codeAnalyses, codeAnalysisFindings>>),
  TableGroup("memory", <<memoryShortTerm, memoryLongTerm>>),
  TableGroup("solutions", <<troubleshootingSolutions, solutionExecutions>>) >>

allTables == FlattenSeq([g \in DOMAIN tableGroups |-> tableGroups[g].tables])

TableNames == {t.name : t \in ToSet(allTables)}

TableNamed(name) == CHOOSE t \in ToSet(allTables) : t.name = name

getTableGroup(name) ==
  CHOOSE g \in ToSet(tableGroups) : \E t \in ToSet(g.tables) : t.name = name

-----------------------------------------------------------------------------
(* The page *)

HitsAssumption == \A text \in DOMAIN Hits : text # "" /\ Hits[text] \subseteq TableNames

Labels == {g.label : g \in ToSet(tableGroups)}

FirstTable == allTables[1].name

Init ==
  /\ tab = "schema" /\ searchQuery = "" /\ selectedGroup = "all"
  /\ selectedTable = FirstTable /\ failed = FALSE

(* The diagram looks up a position for each group, of which there are six: *)
(* building its nodes throws, and the tab that is opened draws nothing.    *)
groupPositions == 1..6

buildNodesThrows == ~(DOMAIN tableGroups \subseteq groupPositions)

-----------------------------------------------------------------------------
(* Clicks *)

ShowTab(t) ==
  /\ ~failed /\ t # tab
  /\ tab' = t /\ selectedTable' = FirstTable
  /\ failed' = (t = "relationships" /\ buildNodesThrows)
  /\ UNCHANGED <<searchQuery, selectedGroup>>

matchesSearch(table) == searchQuery = "" \/ table.name \in Hits[searchQuery]

(* The tables in the list of the schema tab.                               *)
Listed ==
  {t \in ToSet(allTables) :
     /\ selectedGroup \in {"all", getTableGroup(t.name).label}
     /\ matchesSearch(t)}

Search(query) ==
  /\ ~failed /\ tab = "schema" /\ searchQuery' = query
  /\ UNCHANGED <<tab, selectedGroup, selectedTable, failed>>

SelectGroup(label) ==
  /\ ~failed /\ tab = "schema" /\ selectedGroup' = label
  /\ UNCHANGED <<tab, searchQuery, selectedTable, failed>>

(* The tab of sample rows has a button for every table.                    *)
SelectTable(t) ==
  /\ ~failed
  /\ tab = "schema" => t \in Listed
  /\ tab \in {"schema", "mockdata"}
  /\ selectedTable' = t.name
  /\ UNCHANGED <<tab, searchQuery, selectedGroup, failed>>

Reload ==
  /\ tab' = "schema" /\ searchQuery' = "" /\ selectedGroup' = "all"
  /\ selectedTable' = FirstTable /\ failed' = FALSE

Next ==
  \/ \E t \in {"schema", "relationships", "mockdata"} : ShowTab(t)
  \/ \E query \in DOMAIN Hits \cup {""} : Search(query)
  \/ \E label \in Labels \cup {"all"} : SelectGroup(label)
  \/ \E t \in ToSet(allTables) : SelectTable(t)
  \/ Reload

Spec == Init /\ [][Next]_vars

-----------------------------------------------------------------------------
(* What the page shows of a table.                                         *)

TableDetail ==
  LET t == TableNamed(selectedTable)
  IN  [group |-> getTableGroup(t.name).label, columns |-> t.columns, indexes |-> t.indexes,
       foreignKeys |-> t.foreignKeys]

MockRowsShown == TableNamed(selectedTable).mockRows

Total(counts) ==
  LET sum[n \in 0..Len(counts)] == IF n = 0 THEN 0 ELSE sum[n - 1] + counts[n]
  IN  sum[Len(counts)]

stats ==
  [tables |-> Len(allTables),
   columns |-> Total([i \in DOMAIN allTables |-> allTables[i].columns]),
   foreignKeys |-> Total([i \in DOMAIN allTables |-> Len(allTables[i].foreignKeys)]),
   migrations |-> 7]
=============================================================================
