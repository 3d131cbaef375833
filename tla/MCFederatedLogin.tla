--------------------------- MODULE MCFederatedLogin ---------------------------
(* A small instance of FederatedLogin for TLC.                             *)
EXTENDS FederatedLogin, TLC

CONSTANTS f1, f2, c1, c2, k1, k2, u1, u2, r1, r2

Symmetry == Permutations(Flows) \cup Permutations(Codes) \cup Permutations(Sessions)
              \cup Permutations(People) \cup Permutations(Requests)
=============================================================================
