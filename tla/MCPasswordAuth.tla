--------------------------- MODULE MCPasswordAuth ---------------------------
(* Small instances of PasswordAuth for TLC.                                *)
EXTENDS PasswordAuth, TLC

CONSTANTS i1, i2, p1, p2, r1, r2, r3, k1, k2, k3

Symmetry == Permutations(Identifiers) \cup Permutations(Passwords)
              \cup Permutations(Requests) \cup Permutations(Slots)
=============================================================================
