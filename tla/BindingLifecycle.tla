-------------------------- MODULE BindingLifecycle --------------------------
(***************************************************************************)
(* What an operator binding promises to whoever reads it: it is prepared   *)
(* once, its plan is fixed once, it becomes active at most once and only   *)
(* with a fixed plan, and a denial is for good.                            *)
(***************************************************************************)
CONSTANTS Intents, None

VARIABLES phase, intent

vars == <<phase, intent>>

Init == phase = "absent" /\ intent = None

Prepare  == phase = "absent"  /\ phase' = "pending" /\ UNCHANGED intent
Fix      == phase = "pending" /\ intent = None /\ intent' \in Intents /\ UNCHANGED phase
Activate == phase = "pending" /\ intent # None /\ phase' = "active" /\ UNCHANGED intent
Deny     == phase \in {"pending", "active"} /\ phase' = "denied" /\ UNCHANGED intent
Settle   == phase = "denied" /\ phase' = "settled" /\ UNCHANGED intent

Next == Prepare \/ Fix \/ Activate \/ Deny \/ Settle

Spec == Init /\ [][Next]_vars
=============================================================================
