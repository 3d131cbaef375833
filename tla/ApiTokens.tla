------------------------------ MODULE ApiTokens ------------------------------
(***************************************************************************)
(* API tokens (lenso-auth-api-token-plugin over PostgreSQL) and the plugin *)
(* with which a person issues them to himself                              *)
(* (lenso-auth-human-api-token-plugin): his session is inspected, Access   *)
(* Control is asked for one permission after the other, the session is     *)
(* inspected again, and the token is issued under an idempotency key.      *)
(*                                                                         *)
(* The person's session is in the Account, and Access Control may allow or *)
(* refuse whatever it is asked; both are external. The ceiling signed into *)
(* his assertion is one his session had, and sessions are only ever        *)
(* narrowed, so that the test against the current ceiling implies the one  *)
(* against the signed.                                                     *)
(***************************************************************************)
EXTENDS Integers, FiniteSets

CONSTANTS
  Permissions,   \* what a ceiling can hold
  Issue,         \* auth.pat.issue, one of them
  Asked,         \* the intents that are asked for: a ceiling and a deadline
  Keys,          \* idempotency keys of the person
  Tokens,        \* token identifiers, random and never drawn twice
  Requests,      \* the handlers that can be in progress at once
  None,
  Never,         \* a time that is not set
  MaxTtl,        \* maximum_token_ttl_seconds
  AssertionTtl,  \* assertion_ttl_seconds
  MaxTime        \* the bound on the clock

ASSUME IntentAssumption ==
  /\ Issue \in Permissions
  /\ Asked \subseteq [ceiling : (SUBSET Permissions) \ {{}}, expires : Nat]

ASSUME BoundAssumption ==
  MaxTtl \in Nat \ {0} /\ AssertionTtl \in Nat \ {0} /\ MaxTime \in Nat

ASSUME AbsentAssumption == None \notin Tokens \cup Keys /\ Never \notin Nat

VARIABLES
  now,
  parent,    \* the person's session: its ceiling, and whether it lives
  token,     \* auth_sessions joined with api_tokens
  issuance,  \* management_token_issuances: the intent and the token of a key
  answers,   \* what was answered: key, intent, token, and whether with the secret
  req        \* the handlers in progress

vars == <<now, parent, token, issuance, answers, req>>

NoIntent == [ceiling |-> {}, expires |-> 0]

Token == [state : {"absent", "issued"}, key : Keys \cup {None}, ceiling : SUBSET Permissions,
          expires : Nat, revoked : BOOLEAN, ended : BOOLEAN, used : Nat \cup {Never},
          current : BOOLEAN]
NoToken == [state |-> "absent", key |-> None, ceiling |-> {}, expires |-> 0,
            revoked |-> FALSE, ended |-> FALSE, used |-> Never, current |-> FALSE]

Issuance == [intent : Asked \cup {NoIntent}, token : Tokens \cup {None}]
NoIssuance == [intent |-> NoIntent, token |-> None]

Answer == [key : Keys, intent : Asked, token : Tokens, secret : BOOLEAN]

Steps == {"idle", "may", "check", "maystill", "lock", "lookup", "commit",
          "answer", "clock", "record", "accepted"}
Row     == [live : BOOLEAN, expires : Nat]
NoRow   == [live |-> FALSE, expires |-> 0]
Request == [step : Steps, key : Keys \cup {None}, intent : Asked \cup {NoIntent},
            left : SUBSET Permissions, current : BOOLEAN, token : Tokens \cup {None},
            row : Row, from : Nat, until : Nat, late : BOOLEAN]
Blank == [step |-> "idle", key |-> None, intent |-> NoIntent, left |-> {}, current |-> FALSE,
          token |-> None, row |-> NoRow, from |-> 0, until |-> 0, late |-> FALSE]

(* Well typed, and the record of an issue is there exactly if its token is. *)
TypeOK ==
  /\ now \in 0 .. MaxTime
  /\ parent \in [ceiling : SUBSET Permissions, live : BOOLEAN]
  /\ token \in [Tokens -> Token]
  /\ issuance \in [Keys -> Issuance]
  /\ answers \subseteq Answer
  /\ req \in [Requests -> Request]
  /\ \A k \in Keys, t \in Tokens : issuance[k].token = t <=> token[t].key = k

Init ==
  /\ now = 0
  /\ parent = [ceiling |-> Permissions, live |-> TRUE]
  /\ token = [t \in Tokens |-> NoToken]
  /\ issuance = [k \in Keys |-> NoIssuance]
  /\ answers = {}
  /\ req = [r \in Requests |-> Blank]

-----------------------------------------------------------------------------
At(r, step)   == req[r].step = step
Goto(r, step) == req' = [req EXCEPT ![r].step = step]
End(r)        == req' = [req EXCEPT ![r] = Blank]

External == <<now, parent>>
Tables   == <<token, issuance, answers>>

Least(a, b)  == IF a < b THEN a ELSE b
Later(t, at) == IF t = Never \/ t < at THEN at ELSE t

-----------------------------------------------------------------------------
(* The issue of the human plugin. current_user inspects the session, and   *)
(* then asks whether the person may issue tokens at all.                   *)

Inspected(c) == parent.live /\ Issue \in parent.ceiling /\ c \subseteq parent.ceiling

HumanIssue(r, k, intent) ==
  /\ At(r, "idle")
  /\ Inspected(intent.ceiling)
  /\ req' = [req EXCEPT ![r] = [Blank EXCEPT !.step = "may", !.key = k, !.intent = intent,
                                             !.left = intent.ceiling]]
  /\ UNCHANGED <<External, Tables>>

MayIssue(r) ==
  /\ At(r, "may")
  /\ \E allowed \in BOOLEAN :
       IF allowed /\ req[r].intent.expires <= now + MaxTtl THEN Goto(r, "check") ELSE End(r)
  /\ UNCHANGED <<External, Tables>>

CheckPermission(r) ==
  /\ At(r, "check")
  /\ req[r].left # {}
  /\ \E p \in req[r].left :
       \E allowed \in BOOLEAN :
         IF allowed THEN req' = [req EXCEPT ![r].left = @ \ {p}] ELSE End(r)
  /\ UNCHANGED <<External, Tables>>

(* Mutant: the session is not inspected again after the policy reads.      *)
ReinspectNothing(r) ==
  /\ At(r, "check")
  /\ req[r].left = {}
  /\ req' = [req EXCEPT ![r].step = "maystill", ![r].current = TRUE]
  /\ UNCHANGED <<External, Tables>>

Reinspect(r) ==
  /\ At(r, "check")
  /\ req[r].left = {}
  /\ IF Inspected(req[r].intent.ceiling)
     THEN req' = [req EXCEPT ![r].step = "maystill", ![r].current = TRUE]
     ELSE End(r)
  /\ UNCHANGED <<External, Tables>>

MayStillIssue(r) ==
  /\ At(r, "maystill")
  /\ \E allowed \in BOOLEAN : IF allowed THEN Goto(r, "lock") ELSE End(r)
  /\ UNCHANGED <<External, Tables>>

-----------------------------------------------------------------------------
(* The issue of the API token plugin: one transaction, which holds an      *)
(* advisory lock on its key from its first statement to its end.           *)

Holds(r, k) == req[r].step \in {"lookup", "commit"} /\ req[r].key = k

(* Mutant: the transaction does not take the lock.                         *)
TakeNoLock(r) ==
  /\ At(r, "lock")
  /\ Goto(r, "lookup")
  /\ UNCHANGED <<External, Tables>>

TakeLock(r) ==
  /\ At(r, "lock")
  /\ \A q \in Requests : ~Holds(q, req[r].key)
  /\ Goto(r, "lookup")
  /\ UNCHANGED <<External, Tables>>

Reply(r, t, secret) ==
  answers' = answers \cup
    {[key |-> req[r].key, intent |-> req[r].intent, token |-> t, secret |-> secret]}

Lookup(r) ==
  LET previous == issuance[req[r].key]
  IN /\ At(r, "lookup")
     /\ IF previous.token = None
        THEN Goto(r, "commit") /\ UNCHANGED answers
        ELSE /\ IF previous.intent = req[r].intent
                THEN Reply(r, previous.token, FALSE) ELSE UNCHANGED answers
             /\ End(r)
     /\ UNCHANGED <<External, token, issuance>>

(* The three rows appear together, unless the deadline has passed, or the  *)
(* primary key of the issuances refuses.                                   *)
Commit(r) ==
  LET k == req[r].key
      i == req[r].intent
  IN /\ At(r, "commit")
     /\ IF i.expires > now /\ issuance[k].token = None
        THEN \E t \in Tokens :
               /\ token[t].state = "absent"
               /\ token' = [token EXCEPT ![t] =
                    [NoToken EXCEPT !.state = "issued", !.key = k, !.ceiling = i.ceiling,
                                    !.expires = i.expires, !.current = req[r].current]]
               /\ issuance' = [issuance EXCEPT ![k] = [intent |-> i, token |-> t]]
               /\ req' = [req EXCEPT ![r].step = "answer", ![r].token = t, ![r].current = FALSE]
        ELSE End(r) /\ UNCHANGED <<token, issuance>>
     /\ UNCHANGED <<External, answers>>

(* The secret is told once: if the answer is lost, so is the secret.       *)
Disclose(r) ==
  /\ At(r, "answer")
  /\ Reply(r, req[r].token, TRUE)
  /\ End(r)
  /\ UNCHANGED <<External, token, issuance>>

(* The operator's command line issues a token without a key.               *)
OperatorIssue(t, intent) ==
  /\ token[t].state = "absent"
  /\ intent.expires > now
  /\ token' = [token EXCEPT ![t] = [NoToken EXCEPT !.state = "issued",
                 !.ceiling = intent.ceiling, !.expires = intent.expires]]
  /\ UNCHANGED <<External, issuance, answers, req>>

-----------------------------------------------------------------------------
(* authenticate: the row is loaded, then the clock is read, then the use   *)
(* of the token is recorded, if it is still live. `late` keeps whether the *)
(* token was already revoked at the time the clock was read.               *)

Live(t) == ~token[t].revoked /\ ~token[t].ended

AuthLoad(r, t) ==
  /\ At(r, "idle")
  /\ token[t].state = "issued"
  /\ req' = [req EXCEPT ![r] = [Blank EXCEPT !.step = "clock", !.token = t,
               !.row = [live |-> Live(t), expires |-> token[t].expires]]]
  /\ UNCHANGED <<External, Tables>>

AuthClock(r) ==
  LET row == req[r].row
  IN /\ At(r, "clock")
     /\ IF row.live /\ row.expires > now
        THEN req' = [req EXCEPT ![r].step = "record", ![r].row = NoRow, ![r].from = now,
                                ![r].late = ~Live(req[r].token),
                                ![r].until = Least(row.expires, now + AssertionTtl)]
        ELSE End(r)
     /\ UNCHANGED <<External, Tables>>

(* Mutant: the use of a token is recorded whatever became of it meanwhile. *)
RecordAlways(r) ==
  LET t == req[r].token
  IN /\ At(r, "record")
     /\ token' = [token EXCEPT ![t].used = Later(token[t].used, req[r].from)]
     /\ Goto(r, "accepted")
     /\ UNCHANGED <<External, issuance, answers>>

AuthRecord(r) ==
  LET t == req[r].token
  IN /\ At(r, "record")
     /\ IF Live(t) /\ token[t].expires > req[r].from
        THEN /\ token' = [token EXCEPT ![t].used = Later(token[t].used, req[r].from)]
             /\ Goto(r, "accepted")
        ELSE End(r) /\ UNCHANGED token
     /\ UNCHANGED <<External, issuance, answers>>

-----------------------------------------------------------------------------
(* Management: a token is revoked, or the session it belongs to; or its    *)
(* ceiling is narrowed under a row lock.                                   *)

RevokeToken(t) ==
  /\ token[t].state = "issued"
  /\ token' = [token EXCEPT ![t].revoked = TRUE]
  /\ UNCHANGED <<External, issuance, answers, req>>

RevokeSession(t) ==
  /\ token[t].state = "issued"
  /\ token' = [token EXCEPT ![t].ended = TRUE]
  /\ UNCHANGED <<External, issuance, answers, req>>

Attenuate(t, c) ==
  /\ token[t].state = "issued" /\ Live(t) /\ token[t].expires > now
  /\ c # {} /\ c \subseteq token[t].ceiling /\ c # token[t].ceiling
  /\ token' = [token EXCEPT ![t].ceiling = c]
  /\ UNCHANGED <<External, issuance, answers, req>>

-----------------------------------------------------------------------------
(* The Account narrows or ends the person's session. A handler whose       *)
(* caller is gone, or which was answered, is over, and its transaction     *)
(* rolled back; so is every one after a restart. `current` keeps whether   *)
(* the session is as it was when it was inspected last.                    *)

Outdate ==
  /\ token' = [t \in Tokens |-> [token[t] EXCEPT !.current = FALSE]]
  /\ req' = [r \in Requests |-> [req[r] EXCEPT !.current = FALSE]]

NarrowParent(c) ==
  /\ c \subseteq parent.ceiling /\ c # parent.ceiling
  /\ parent' = [parent EXCEPT !.ceiling = c]
  /\ Outdate
  /\ UNCHANGED <<now, issuance, answers>>

EndParent ==
  /\ parent.live
  /\ parent' = [parent EXCEPT !.live = FALSE]
  /\ Outdate
  /\ UNCHANGED <<now, issuance, answers>>

Abandon(r) ==
  /\ ~At(r, "idle")
  /\ End(r)
  /\ UNCHANGED <<External, Tables>>

Restart ==
  /\ req' = [r \in Requests |-> Blank]
  /\ UNCHANGED <<External, Tables>>

Tick ==
  /\ now < MaxTime
  /\ now' = now + 1
  /\ UNCHANGED <<parent, Tables, req>>

Issuing(r) ==
  \/ \E k \in Keys, i \in Asked : HumanIssue(r, k, i)
  \/ MayIssue(r) \/ CheckPermission(r) \/ Reinspect(r) \/ MayStillIssue(r)
  \/ TakeLock(r) \/ Lookup(r) \/ Commit(r) \/ Disclose(r)

Authenticating(r) ==
  \/ \E t \in Tokens : AuthLoad(r, t)
  \/ AuthClock(r) \/ AuthRecord(r)

Management(t) ==
  \/ \E i \in Asked : OperatorIssue(t, i)
  \/ RevokeToken(t) \/ RevokeSession(t)
  \/ \E c \in SUBSET Permissions : Attenuate(t, c)

Next ==
  \/ \E r \in Requests : Issuing(r) \/ Authenticating(r) \/ Abandon(r)
  \/ \E t \in Tokens : Management(t)
  \/ \E c \in SUBSET Permissions : NarrowParent(c)
  \/ EndParent \/ Restart \/ Tick

Spec == Init /\ [][Next]_vars

-----------------------------------------------------------------------------
(* A key is worth one token, however often and however concurrently it is  *)
(* used: every answer names the token that was issued for the very intent  *)
(* that is asked for, and a retry never runs into the primary key, which   *)
(* would fail it instead of answering it.                                  *)
OneTokenPerKey ==
  /\ \A a \in answers : issuance[a.key] = [intent |-> a.intent, token |-> a.token]
  /\ \A r \in Requests : At(r, "commit") => issuance[req[r].key].token = None

(* A token that a person issued to himself has no more than his session    *)
(* has, if the session has not changed since it was inspected after the    *)
(* last of the policy reads.                                               *)
WithinSession ==
  \A t \in Tokens :
    token[t].current =>
      parent.live /\ token[t].ceiling \subseteq parent.ceiling

(* An assertion begins while the token and its session live, it ends no    *)
(* later than the token, and its use is on record.                         *)
AcceptedWhileLive ==
  \A r \in Requests : At(r, "accepted") =>
    LET t == token[req[r].token]
    IN /\ ~req[r].late
       /\ req[r].until <= t.expires
       /\ t.used # Never /\ t.used >= req[r].from
=============================================================================
