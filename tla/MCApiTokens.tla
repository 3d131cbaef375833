----------------------------- MODULE MCApiTokens -----------------------------
(* A small instance of ApiTokens for TLC.                                  *)
EXTENDS ApiTokens, TLC

CONSTANTS read, issue, k1, t1, r1, r2

(* One intent with everything, and one with less for longer.               *)
TwoIntents == {[ceiling |-> {read, issue}, expires |-> 1], [ceiling |-> {read}, expires |-> 2]}

Symmetry == Permutations(Requests)
=============================================================================
