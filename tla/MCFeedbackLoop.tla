--------------------------- MODULE MCFeedbackLoop ---------------------------
(* Two emitters, two evaluators, two sources, three signals in a buffer of  *)
(* two, and a window of one tick.                                           *)
EXTENDS FeedbackLoop

CONSTANTS e1, e2, v1, v2, s1, s2

Interchangeable == Permutations({e1, e2}) \cup Permutations({v1, v2}) \cup Permutations({s1, s2})
=============================================================================
