-------------------------- MODULE MCOperatorBinding --------------------------
(* A small instance of OperatorBinding for TLC.                            *)
EXTENDS OperatorBinding, TLC

CONSTANTS p1, p2, a1, a2, r1, r2

(* The second deployment has another plan and a window that closes later.  *)
TwoConfigs == {[plan |-> p1, window |-> 2], [plan |-> p2, window |-> 3]}

Symmetry == Permutations(Admins) \cup Permutations(Requests)
=============================================================================
