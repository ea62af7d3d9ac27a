------------------------------ MODULE MCSession -----------------------------
(* A small instance of Session: two people who may sign in.                 *)
EXTENDS Session, TLC

CONSTANTS u1, u2, yard

Symmetry == Permutations(User)
=============================================================================
