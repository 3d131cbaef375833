------------------------------ MODULE MCPhoneOtp ------------------------------
(* A small instance of PhoneOtp for TLC.                                   *)
EXTENDS PhoneOtp, TLC

CONSTANTS p1, p2, s1, s2, c1, c2, r1, r2

Symmetry == Permutations(Phones) \cup Permutations(Sources) \cup Permutations(Challenges) \cup Permutations(Requests)
=============================================================================
