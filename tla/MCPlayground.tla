---------------------------- MODULE MCPlayground ----------------------------
(* Two tabs, two agents, two questions, a history of two conversations: a   *)
(* third one evicts the oldest.  Tabs and questions are interchangeable,    *)
(* the first agent is not.                                                  *)
EXTENDS Playground

CONSTANTS t1, t2, a1, a2, q1, q2

TabAndAskSymmetry == Permutations({t1, t2}) \cup Permutations({q1, q2})
=============================================================================
