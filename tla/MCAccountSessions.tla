------------------------- MODULE MCAccountSessions -------------------------
(* Small instances of AccountSessions for TLC.                             *)
EXTENDS AccountSessions, TLC

CONSTANTS u1, u2, s1, s2, s3, d1, d2, d3, d4, r1, r2, r3

(* Two successive deployments: the second narrows the idle and absolute    *)
(* timeouts of the first.                                                  *)
Wide   == [absolute |-> 4, idle |-> 3, interval |-> 1]
Narrow == [absolute |-> 3, idle |-> 2, interval |-> 1]
OneDeployment  == {Wide}
TwoDeployments == {Wide, Narrow}
Legacy         == {NoPolicy}
ManagedOnOff   == {NoPolicy, Narrow}

Symmetry == Permutations(Subjects) \cup Permutations(Sessions)
              \cup Permutations(Digests) \cup Permutations(Requests)
=============================================================================
