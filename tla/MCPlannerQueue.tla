--------------------------- MODULE MCPlannerQueue ---------------------------
(* Small instances of PlannerQueue: a hash for each interval a request may  *)
(* have, and one for a conflict on it.                                      *)
EXTENDS PlannerQueue, TLC

CONSTANTS r1, r2, clear, clash

RequestSymmetry == Permutations(Request)
=============================================================================
