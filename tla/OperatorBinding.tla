--------------------------- MODULE OperatorBinding ---------------------------
(***************************************************************************)
(* The operator binding of one source subject: its row in the Account      *)
(* (operator_binding.rs) and the workflow that drives it                   *)
(* (lenso-auth-operator-session-plugin), across the Account, Access        *)
(* Control and Audit. There is no transaction over the three.              *)
(*                                                                         *)
(* One SQL statement with the read that follows it is one step, and so is  *)
(* one call of another plugin. Access Control, Audit and the source        *)
(* Account are external. A call that fails, a source assertion that        *)
(* expires or a caller that goes away ends the handler (Abandon).          *)
(***************************************************************************)
EXTENDS Integers, Sequences

CONSTANTS
  Configs,      \* configurations a deployment may have: a plan and a window
  Plans,        \* the business permissions a configuration can name
  Admins,       \* operators that may revoke
  Requests,     \* the handlers that can be in progress at once
  None,
  ControlTtl,   \* the life of a control assertion: five seconds
  MaxEvents,    \* the bound on the audit log
  MaxTime       \* the bound on the clock

ASSUME ConfigAssumption == Configs \subseteq [plan : Plans, window : Nat]

ASSUME BoundAssumption ==
  ControlTtl \in Nat \ {0} /\ MaxEvents \in Nat /\ MaxTime \in Nat

VARIABLES
  now,
  config,    \* the configuration of the running deployment
  binding,   \* the row of auth_operator_bindings
  access,    \* Access Control: management authority, the role and its holder
  log,       \* Audit: the applied and revoked events
  source,    \* whether the source and the operator subject are active
  sessions,  \* the claims of the operator sessions issued
  cleaned,   \* whether the role was removed since the denial
  req        \* the handlers in progress

vars == <<now, config, binding, access, log, source, sessions, cleaned, req>>

Intents == [plan : Plans, at : Nat]
Ids     == 1 .. MaxEvents

Row == [status : {"absent", "pending", "active", "revoked"}, revision : 0 .. 2,
        intent : Intents \cup {None}, audit : Ids \cup {None},
        revocation : {"none", "pending", "complete"},
        by : Admins \cup {None}, receipt : Ids \cup {None}]
NoRow == [status |-> "absent", revision |-> 0, intent |-> None, audit |-> None,
          revocation |-> "none", by |-> None, receipt |-> None]

Access == [managed : BOOLEAN, role : BOOLEAN, plan : Plans \cup {None}, assigned : BOOLEAN]
Event  == [action : {"applied", "revoked"}, intent : Intents \cup {None},
           by : Admins \cup {None}]

Stages == {"resume", "create", "set", "assign", "check", "recheck", "receipt"}

ASSUME AbsentAssumption == None \notin Nat \cup Stages

Steps  == {"idle", "prepare", "scope", "read", "mint", "act", "audit", "activate", "write", "reread",
           "confirm", "told", "cleanup", "log", "complete", "permit", "claim", "admit",
           "source", "insert", "honoured"}

Request == [step : Steps, stage : Stages \cup {None}, row : Row, mint : Nat,
            intent : Intents \cup {None}, audit : Ids \cup {None}, ok : BOOLEAN,
            kind : {"recover", "revoke", "issue", "authenticate", "none"}, late : BOOLEAN]
Blank == [step |-> "idle", stage |-> None, row |-> NoRow, mint |-> 0, intent |-> None,
          audit |-> None, ok |-> FALSE, kind |-> "none", late |-> FALSE]

(* Well typed, and the row has no third revision: it is denied once.       *)
TypeOK ==
  /\ now \in 0 .. MaxTime
  /\ config \in Configs
  /\ binding \in Row
  /\ access \in Access
  /\ log \in Seq(Event) /\ Len(log) <= MaxEvents
  /\ source \in BOOLEAN
  /\ sessions \subseteq {1, 2}
  /\ cleaned \in BOOLEAN
  /\ req \in [Requests -> Request]

Init ==
  /\ now = 0
  /\ config \in Configs
  /\ binding = NoRow
  /\ access = [managed |-> FALSE, role |-> FALSE, plan |-> None, assigned |-> FALSE]
  /\ log = <<>>
  /\ source = TRUE
  /\ sessions = {}
  /\ cleaned = FALSE
  /\ req = [r \in Requests |-> Blank]

-----------------------------------------------------------------------------
At(r, step)    == req[r].step = step
On(r, stages)  == At(r, "act") /\ req[r].stage \in stages
Goto(r, step)  == req' = [req EXCEPT ![r].step = step]
Enter(r, stage) == req' = [req EXCEPT ![r].stage = stage, ![r].step = "read"]
End(r)         == req' = [req EXCEPT ![r] = Blank]
Open           == now < config.window
Least(a, b)    == IF a < b THEN a ELSE b

Others == <<now, config, source>>

(* What require_business_permissions asks of Access Control.               *)
Permitted == access.assigned /\ access.plan = config.plan

-----------------------------------------------------------------------------
(* bootstrap: while the window is open, prepare the row, if there is none, *)
(* which may come after the window, and the protected role of the scope.   *)
(* resume: take up the row as it is.                                       *)

Bootstrap(r) ==
  /\ At(r, "idle")
  /\ Open /\ source
  /\ req' = [req EXCEPT ![r] = [Blank EXCEPT !.step = "prepare"]]
  /\ UNCHANGED <<Others, binding, access, log, sessions, cleaned>>

Prepared(row) ==
  IF row.status = "absent" THEN [NoRow EXCEPT !.status = "pending", !.revision = 1] ELSE row

Prepare(r) ==
  /\ At(r, "prepare")
  /\ binding' = Prepared(binding)
  /\ IF binding'.status = "pending"
     THEN req' = [req EXCEPT ![r] = [Blank EXCEPT !.step = "scope", !.row = binding']]
     ELSE End(r)
  /\ UNCHANGED <<Others, access, log, sessions, cleaned>>

BootstrapScope(r) ==
  /\ At(r, "scope")
  /\ access' = [access EXCEPT !.managed = TRUE]
  /\ Enter(r, "create")
  /\ UNCHANGED <<Others, binding, log, sessions, cleaned>>

Resume(r) ==
  /\ At(r, "idle")
  /\ binding.status \in {"pending", "active"}
  /\ req' = [req EXCEPT ![r] = [Blank EXCEPT !.step = "read", !.stage = "resume",
                                             !.row = binding]]
  /\ UNCHANGED <<Others, binding, access, log, sessions, cleaned>>

(* activation_snapshot, in two steps around the reads of the two           *)
(* directories: read the row, then fix the intent if there is none, and    *)
(* mint a control assertion.                                               *)

Matches(row, r) == row.status \in {"pending", "active"} /\ row.revision = req[r].row.revision

SnapshotRead(r) ==
  /\ At(r, "read")
  /\ IF access.managed /\ Open /\ Matches(binding, r)
     THEN req' = [req EXCEPT ![r].row = binding, ![r].step = "mint"]
     ELSE End(r)
  /\ UNCHANGED <<Others, binding, access, log, sessions, cleaned>>

(* prepare_activation_intent.                                              *)
Fixed(row) ==
  IF row.status = "pending" /\ row.intent = None
  THEN [row EXCEPT !.intent = [plan |-> config.plan, at |-> now]] ELSE row

(* Mutant: a control assertion is not cut off at the end of the window.    *)
MintPastWindow(t) == t + ControlTtl

Mint(t) == Least(t + ControlTtl, config.window)

(* Where a snapshot leads: to the next call of its stage, to the receipt   *)
(* of a binding that is active already, or nowhere.                        *)
Snapshot(r, row) ==
  LET stage == req[r].stage
      held  == [req[r] EXCEPT !.row = row, !.step = "act", !.mint = Mint(now)]
  IN IF row.status = "active"
     THEN IF \/ stage \in {"create", "set", "assign"}
             \/ stage = "receipt" /\ row.audit # req[r].audit
          THEN Blank ELSE [held EXCEPT !.step = "confirm"]
     ELSE IF stage = "resume" THEN [held EXCEPT !.stage = "create", !.step = "read"]
     ELSE IF stage = "receipt" THEN Blank
     ELSE held

SnapshotMint(r) ==
  /\ At(r, "mint")
  /\ IF source
     THEN LET asked == req[r].row.status = "pending" /\ req[r].row.intent = None
              row   == IF asked THEN Fixed(binding) ELSE req[r].row
          IN /\ binding' = IF asked THEN Fixed(binding) ELSE binding
             /\ IF Open /\ Matches(row, r) /\ row.intent # None /\ row.intent.plan = config.plan
                THEN req' = [req EXCEPT ![r] = Snapshot(r, row)]
                ELSE End(r)
     ELSE End(r) /\ UNCHANGED binding
  /\ UNCHANGED <<Others, access, log, sessions, cleaned>>

(* grant_role: create the role, set its permissions, assign it, each with  *)
(* an assertion of its own.                                                *)
Granted(r) ==
  CASE req[r].stage = "create" -> [access EXCEPT !.role = TRUE]
    [] req[r].stage = "set"    -> [access EXCEPT !.plan = req[r].row.intent.plan]
    [] req[r].stage = "assign" -> [access EXCEPT !.assigned = TRUE]

After == [create |-> "set", set |-> "assign", assign |-> "check"]

GrantRole(r) ==
  /\ On(r, DOMAIN After)
  /\ IF now < req[r].mint
     THEN /\ access' = Granted(r)
          /\ req' = [req EXCEPT ![r].stage = After[req[r].stage], ![r].step = "read",
                                ![r].intent = req[r].row.intent]
     ELSE End(r) /\ UNCHANGED access
  /\ UNCHANGED <<Others, binding, log, sessions, cleaned>>

(* finish_activation: check, audit, check again, activate.                 *)
Check(r) ==
  /\ On(r, {"check", "recheck"})
  /\ IF Permitted /\ (req[r].stage = "check" => req[r].row.intent = req[r].intent)
     THEN Goto(r, IF req[r].stage = "check" THEN "audit" ELSE "activate")
     ELSE End(r)
  /\ UNCHANGED <<Others, binding, access, log, sessions, cleaned>>

Applied == {i \in DOMAIN log : log[i].action = "applied"}

(* Mutant: the applied event is appended without its idempotency key.      *)
AuditAppliedAnew(r) ==
  /\ At(r, "audit")
  /\ Len(log) < MaxEvents
  /\ log' = Append(log, [action |-> "applied", intent |-> req[r].row.intent, by |-> None])
  /\ req' = [req EXCEPT ![r].audit = Len(log'), ![r].stage = "recheck", ![r].step = "read"]
  /\ UNCHANGED <<Others, binding, access, sessions, cleaned>>

(* append_event with the stable key: Audit answers with the event it has.  *)
AuditApplied(r) ==
  /\ At(r, "audit")
  /\ IF Applied = {}
     THEN /\ Len(log) < MaxEvents
          /\ log' = Append(log, [action |-> "applied", intent |-> req[r].row.intent,
                                 by |-> None])
     ELSE UNCHANGED log
  /\ \E i \in DOMAIN log' :
       /\ log'[i].action = "applied"
       /\ req' = [req EXCEPT ![r].audit = i, ![r].stage = "recheck", ![r].step = "read"]
  /\ UNCHANGED <<Others, binding, access, sessions, cleaned>>

(* activate_binding, up to its update. Whatever it is refused for, another *)
(* snapshot has to show the receipt.                                       *)
ActivateRead(r) ==
  /\ At(r, "activate")
  /\ IF Open /\ Matches(binding, r) /\ source THEN Goto(r, "write") ELSE Enter(r, "receipt")
  /\ UNCHANGED <<Others, binding, access, log, sessions, cleaned>>

(* Mutant: the update names the binding only, not its revision and status. *)
ActivateBlindly(r) ==
  /\ At(r, "write")
  /\ binding' = [binding EXCEPT !.status = "active", !.audit = req[r].audit]
  /\ Goto(r, "reread")
  /\ UNCHANGED <<Others, access, log, sessions, cleaned>>

(* activate: compare and set.                                              *)
ActivateWrite(r) ==
  /\ At(r, "write")
  /\ binding' = IF binding.revision = req[r].row.revision /\ binding.status = "pending"
                THEN [binding EXCEPT !.status = "active", !.audit = req[r].audit]
                ELSE binding
  /\ Goto(r, "reread")
  /\ UNCHANGED <<Others, access, log, sessions, cleaned>>

(* complete_activation: the answer shows the exact receipt, or another     *)
(* snapshot must. Two attempts may differ in the policy revision, which is *)
(* not modelled, so that even the exact audit event may not settle it.     *)
ActivateReread(r) ==
  /\ At(r, "reread")
  /\ \/ /\ binding.status = "active" /\ binding.audit = req[r].audit
        /\ Goto(r, "told")
     \/ Enter(r, "receipt")
  /\ UNCHANGED <<Others, binding, access, log, sessions, cleaned>>

(* applied_receipt.                                                        *)
Confirm(r) ==
  /\ At(r, "confirm")
  /\ IF req[r].row.audit # None /\ Permitted THEN Goto(r, "told") ELSE End(r)
  /\ UNCHANGED <<Others, binding, access, log, sessions, cleaned>>

-----------------------------------------------------------------------------
(* revoke: the durable denial comes first, then the role is removed, the   *)
(* revocation audited and completed. recover takes up the last three.      *)

Denied(row, a) ==
  IF row.status = "revoked" THEN row
  ELSE [row EXCEPT !.status = "revoked", !.revision = row.revision + 1,
                   !.revocation = "pending", !.by = a]

Revoke(r, a) ==
  /\ At(r, "idle")
  /\ binding.status # "absent"
  /\ binding' = Denied(binding, a)
  /\ req' = [req EXCEPT ![r] = [Blank EXCEPT !.step = "cleanup", !.kind = "revoke",
                                             !.row = binding']]
  /\ UNCHANGED <<Others, access, log, sessions, cleaned>>

Recover(r) ==
  /\ At(r, "idle")
  /\ source
  /\ binding.status = "revoked" /\ binding.revocation = "pending"
  /\ req' = [req EXCEPT ![r] = [Blank EXCEPT !.step = "cleanup", !.kind = "recover",
                                             !.row = binding]]
  /\ UNCHANGED <<Others, binding, access, log, sessions, cleaned>>

(* revoke_role: an absent role counts as removed. Access Control refuses   *)
(* to leave a scope without an administrator; a revocation then still      *)
(* audits what it did.                                                     *)
RevokeRole(r) ==
  /\ At(r, "cleanup")
  /\ \/ /\ access' = [access EXCEPT !.assigned = FALSE]
        /\ cleaned' = TRUE
        /\ req' = [req EXCEPT ![r].ok = TRUE, ![r].step = "log"]
     \/ /\ req[r].kind = "revoke"
        /\ Goto(r, "log")
        /\ UNCHANGED <<access, cleaned>>
  /\ UNCHANGED <<Others, binding, log, sessions>>

(* Mutant: the revocation goes on though the role is still there.          *)
AuditRevokedAnyway(r) ==
  /\ At(r, "log")
  /\ Len(log) < MaxEvents
  /\ log' = Append(log, [action |-> "revoked", intent |-> None, by |-> req[r].row.by])
  /\ req' = [req EXCEPT ![r].audit = Len(log'), ![r].step = "complete"]
  /\ UNCHANGED <<Others, binding, access, sessions, cleaned>>

AuditRevoked(r) ==
  /\ At(r, "log")
  /\ Len(log) < MaxEvents
  /\ log' = Append(log, [action |-> "revoked", intent |-> None, by |-> req[r].row.by])
  /\ IF req[r].ok
     THEN req' = [req EXCEPT ![r].audit = Len(log'), ![r].step = "complete"]
     ELSE End(r)
  /\ UNCHANGED <<Others, binding, access, sessions, cleaned>>

CompleteRevocation(r) ==
  /\ At(r, "complete")
  /\ binding' = IF /\ binding.revision = req[r].row.revision
                   /\ binding.status = "revoked" /\ binding.revocation = "pending"
                THEN [binding EXCEPT !.revocation = "complete", !.receipt = req[r].audit]
                ELSE binding
  /\ End(r)
  /\ UNCHANGED <<Others, access, log, sessions, cleaned>>

-----------------------------------------------------------------------------
(* exchange: an operator session for the source subject, issued by the     *)
(* operators' Account, which puts the revision of the binding in its       *)
(* claims and looks at the binding once more (admit_issue).                *)

Exchange(r) ==
  /\ At(r, "idle")
  /\ source
  /\ binding.status = "active"
  /\ req' = [req EXCEPT ![r] = [Blank EXCEPT !.step = "permit", !.kind = "issue"]]
  /\ UNCHANGED <<Others, binding, access, log, sessions, cleaned>>

Permit(r) ==
  /\ At(r, "permit")
  /\ IF access.assigned THEN Goto(r, "claim") ELSE End(r)
  /\ UNCHANGED <<Others, binding, access, log, sessions, cleaned>>

Claim(r) ==
  /\ At(r, "claim")
  /\ IF binding.status = "active"
     THEN req' = [req EXCEPT ![r].row = binding, ![r].step = "admit"]
     ELSE End(r)
  /\ UNCHANGED <<Others, binding, access, log, sessions, cleaned>>

(* authenticate of an operator session: late notes that it began after the *)
(* denial. The claim it carries is in the revision of its row.             *)
Authenticate(r, claim) ==
  /\ At(r, "idle")
  /\ claim \in sessions
  /\ req' = [req EXCEPT ![r] = [Blank EXCEPT !.step = "admit", !.kind = "authenticate",
                !.row = [NoRow EXCEPT !.revision = claim],
                !.late = (binding.status = "revoked")]]
  /\ UNCHANGED <<Others, binding, access, log, sessions, cleaned>>

(* session_admitted: the row is read, then the status of the source.       *)
(* Mutant: a session is admitted by its claim alone.                       *)
AdmitByClaim(r) ==
  /\ At(r, "admit")
  /\ Goto(r, "source")
  /\ UNCHANGED <<Others, binding, access, log, sessions, cleaned>>

Admit(r) ==
  /\ At(r, "admit")
  /\ IF binding.status = "active" /\ binding.revision = req[r].row.revision
     THEN Goto(r, "source") ELSE End(r)
  /\ UNCHANGED <<Others, binding, access, log, sessions, cleaned>>

AdmitSource(r) ==
  /\ At(r, "source")
  /\ IF source THEN Goto(r, IF req[r].kind = "issue" THEN "insert" ELSE "honoured")
               ELSE End(r)
  /\ UNCHANGED <<Others, binding, access, log, sessions, cleaned>>

Insert(r) ==
  /\ At(r, "insert")
  /\ sessions' = sessions \cup {req[r].row.revision}
  /\ End(r)
  /\ UNCHANGED <<Others, binding, access, log, cleaned>>

-----------------------------------------------------------------------------
(* A handler that failed, was answered or lost its caller; another         *)
(* deployment; the administrators of Access Control and of the sources.    *)

Abandon(r) ==
  /\ ~At(r, "idle")
  /\ End(r)
  /\ UNCHANGED <<Others, binding, access, log, sessions, cleaned>>

Restart ==
  /\ config' \in Configs
  /\ req' = [r \in Requests |-> Blank]
  /\ UNCHANGED <<now, binding, access, log, source, sessions, cleaned>>

Unassign ==
  /\ access' = [access EXCEPT !.assigned = FALSE]
  /\ UNCHANGED <<Others, binding, log, sessions, cleaned, req>>

SetSource ==
  /\ source' = ~source
  /\ UNCHANGED <<now, config, binding, access, log, sessions, cleaned, req>>

Tick ==
  /\ now < MaxTime
  /\ now' = now + 1
  /\ UNCHANGED <<config, source, binding, access, log, sessions, cleaned, req>>

Activation(r) ==
  \/ Bootstrap(r) \/ Prepare(r) \/ BootstrapScope(r) \/ Resume(r)
  \/ SnapshotRead(r) \/ SnapshotMint(r) \/ GrantRole(r)
  \/ Check(r) \/ AuditApplied(r)
  \/ ActivateRead(r) \/ ActivateWrite(r) \/ ActivateReread(r) \/ Confirm(r)

Revocation(r) ==
  \/ \E a \in Admins : Revoke(r, a)
  \/ Recover(r) \/ RevokeRole(r) \/ AuditRevoked(r) \/ CompleteRevocation(r)

Sessions(r) ==
  \/ Exchange(r) \/ Permit(r) \/ Claim(r)
  \/ \E claim \in sessions : Authenticate(r, claim)
  \/ Admit(r) \/ AdmitSource(r) \/ Insert(r)

Next ==
  \/ \E r \in Requests : Activation(r) \/ Revocation(r) \/ Sessions(r) \/ Abandon(r)
  \/ Restart \/ Unassign \/ SetSource \/ Tick

Spec == Init /\ [][Next]_vars

-----------------------------------------------------------------------------
(* A binding is active only with an applied event in the audit log, the    *)
(* one there is, which shows the intent the row has kept since the first   *)
(* attempt; whoever was told that it is active can rely on that event.     *)
ActiveIsAudited ==
  /\ \A i, j \in Applied : i = j
  /\ binding.status = "active" =>
       binding.audit \in Applied /\ log[binding.audit].intent = binding.intent
  /\ \A r \in Requests : At(r, "told") => binding.audit \in Applied

(* A revocation is complete only when the role was removed after the       *)
(* denial and an event in the audit log names the operator who denied,     *)
(* whoever finished the work.                                              *)
SettledHonestly ==
  binding.revocation = "complete" =>
    /\ cleaned
    /\ binding.receipt \in DOMAIN log
    /\ log[binding.receipt].action = "revoked" /\ log[binding.receipt].by = binding.by

(* No authentication that begins after the denial honours an operator      *)
(* session, also one whose issue was in progress during the denial.        *)
NoneHonouredAfterDenial ==
  \A r \in Requests : At(r, "honoured") => ~req[r].late

(* An activation in progress may give the role back to a denied operator,  *)
(* but not after the window: from then on the role stays removed.          *)
CleanStaysClean ==
  [][binding.status = "revoked" /\ ~Open /\ ~access.assigned => ~access'.assigned]_vars

(* The row keeps the promises of BindingLifecycle.                         *)
Phase ==
  CASE binding.revocation = "complete" -> "settled"
    [] binding.revocation = "pending"  -> "denied"
    [] OTHER                           -> binding.status

Lifecycle == INSTANCE BindingLifecycle WITH phase <- Phase, intent <- binding.intent
ImplementsLifecycle == Lifecycle!Spec
=============================================================================
