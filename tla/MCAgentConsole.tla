--------------------------- MODULE MCAgentConsole ---------------------------
(* Two configurations of the agent, two writes under way at a time.         *)
EXTENDS AgentConsole, TLC

CONSTANTS c1, c2, m1, m2

MCSlots == {"agent", "deployment", m1, m2}

MCMethods ==
  {"getAgent", "updateAgent", "getAgentDeployment", "deployAgent",
   "undeployAgent", "scaleAgent", "updateAgentDeploymentConfig"}

Interchangeable == Permutations({c1, c2}) \cup Permutations({m1, m2})
=============================================================================
