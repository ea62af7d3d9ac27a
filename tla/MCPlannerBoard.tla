--------------------------- MODULE MCPlannerBoard ---------------------------
(* Small instances of PlannerBoard: two windows of one dock that overlap,   *)
(* one that begins where the first ends; options on the board, after its    *)
(* horizon and on another facility's dock.                                  *)
EXTENDS PlannerBoard, TLC

CONSTANTS b1, b2, run1, run2, d1, d2, dock, elsewhere

Span(k, from, to) == [dock |-> k, start |-> from, end |-> to]
SomeWindows == {Span(dock, 1, 3), Span(dock, 2, 4)}
SomeSlots == {Span(dock, 1, 2), Span(dock, 2, 3), Span(elsewhere, 1, 2)}

Symmetry == Permutations(Block) \cup Permutations(Run) \cup Permutations(Digest)
=============================================================================
