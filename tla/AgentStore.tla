----------------------------- MODULE AgentStore -----------------------------
(***************************************************************************)
(* The agents, templates, conversations and long-term memories that the    *)
(* mock store (api/mock.ts) keeps for a build without a backend.  An id is *)
(* made of a type and digits, 'agent-mega-001'; names, prompts and the     *)
(* parts of the harness other than its memory are left out.                *)
(***************************************************************************)
EXTENDS Sequences, SequencesExt

Agent(type, digits, status, memory_enabled) ==
  [id |-> <<type, digits>>, type |-> type, status |-> status, memory_enabled |-> memory_enabled]

initialAgents == <<
  Agent("mega", "001", "active", TRUE),
  Agent("fta", "002", "active", TRUE),
  Agent("rag", "003", "active", TRUE),
  Agent("skill", "004", "active", FALSE),
  Agent("custom", "005", "inactive", FALSE),
  Agent("mega", "006", "error", TRUE),
  Agent("fta", "007", "active", TRUE) >>

HasAgent(agents, id) == \E i \in DOMAIN agents : agents[i].id = id

getAgent(agents, id) == agents[CHOOSE i \in DOMAIN agents : agents[i].id = id]

(* The digits are the last four of the clock, which repeat.                *)
createAgent(agents, type, digits) == <<Agent(type, digits, "active", TRUE)>> \o agents

deleteAgent(agents, id) == SelectSeq(agents, LAMBDA a : a.id # id)

agentTypes == {"mega", "skill", "fta", "rag", "custom"}

templates == [id \in {"tpl-001", "tpl-002", "tpl-003", "tpl-004"} |->
  CASE id = "tpl-001" -> "mega"
    [] id = "tpl-002" -> "fta"
    [] id = "tpl-003" -> "rag"
    [] id = "tpl-004" -> "skill"]

conversations == {"conv-001", "conv-002", "conv-003"}

(* Each agent has the same ones; a deletion is for all of them.            *)
longTermMemories == {"ltm-001", "ltm-002", "ltm-003", "ltm-004"}

searchLongTermMemory(deleted) == longTermMemories \ deleted
=============================================================================
