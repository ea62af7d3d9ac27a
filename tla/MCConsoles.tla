----------------------------- MODULE MCConsoles -----------------------------
(* Small instances of Consoles.  Only one screen is mounted, so the model   *)
(* values of one serve for the sets of the others too.                      *)
EXTENDS Consoles, TLC

CONSTANTS x1, x2, y1, y2, z1, z2, live0, fair, invalid, all, delayed, depot

Symmetry == Permutations({x1, x2}) \cup Permutations({y1, y2}) \cup Permutations({z1, z2})
=============================================================================
