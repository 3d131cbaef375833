------------------------------- MODULE OneShot --------------------------------
(***************************************************************************)
(* What the state of a login and an authorization code promise: each is    *)
(* handed out once, to one caller, or revoked; and neither comes back.     *)
(***************************************************************************)
EXTENDS Naturals

CONSTANT Tickets

VARIABLES state, won

vars == <<state, won>>

Init == state = [t \in Tickets |-> "absent"] /\ won = [t \in Tickets |-> 0]

Move(t, from, to) == state[t] = from /\ state' = [state EXCEPT ![t] = to]

Create(t)  == Move(t, "absent", "available") /\ UNCHANGED won
Consume(t) == Move(t, "available", "consumed") /\ won' = [won EXCEPT ![t] = @ + 1]
Revoke(t)  == Move(t, "available", "revoked") /\ UNCHANGED won

Next == \E t \in Tickets : Create(t) \/ Consume(t) \/ Revoke(t)

Spec == Init /\ [][Next]_vars
=============================================================================
