-------------------------- MODULE MCAgentConnection --------------------------
(* A small instance of AgentConnection for TLC.                            *)
EXTENDS AgentConnection, TLC

CONSTANTS i1, i2, i3, n1, n2, c1, c2, g1, g2, r1, r2

Symmetry == Permutations(Ids) \cup Permutations(Nonces) \cup Permutations(Users)
              \cup Permutations(Grants) \cup Permutations(Requests)
=============================================================================
