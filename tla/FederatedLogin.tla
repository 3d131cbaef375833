---------------------------- MODULE FederatedLogin ----------------------------
(***************************************************************************)
(* A login with an identity provider, from end to end: the web session     *)
(* endpoints, the OIDC client and the federated plugin behind them, the    *)
(* OAuth flow store that both share, and, as the provider of the OIDC      *)
(* client, the OIDC plugin with its authorization codes.                   *)
(*                                                                         *)
(* HTTP, directory, issuer and the provider of the federated plugin are    *)
(* external. The state, the verifier and the nonce of a flow are random    *)
(* and told apart by the flow; a person stands for the subject bound to    *)
(* him. A handler whose caller is gone is over (Abandon), except that the  *)
(* provider does not learn that the client hung up.                        *)
(***************************************************************************)
EXTENDS Integers, FiniteSets

CONSTANTS
  Flows, Codes, Sessions,  \* random identifiers, never drawn twice
  People,
  Requests,                \* the handlers that can be in progress at once
  Oidc,                    \* the provider name of the OIDC client
  OAuth,                   \* and that of the federated plugin
  None,
  FlowTtl,                 \* flow_ttl_seconds
  CodeTtl,                 \* code_ttl_seconds
  MaxTime                  \* the bound on the clock

ASSUME BoundAssumption ==
  FlowTtl \in Nat \ {0} /\ CodeTtl \in Nat \ {0} /\ MaxTime \in Nat

ASSUME DistinctAssumption ==
  /\ Flows \cap Codes = {} /\ Oidc # OAuth
  /\ None \notin Flows \cup Codes \cup Sessions \cup People \cup {Oidc, OAuth}

VARIABLES
  now,
  flow,      \* oauth_flows
  code,      \* oidc_authorization_codes
  won,       \* how often a flow or a code was handed out
  session,   \* the sessions that completed logins were given
  req        \* the handlers in progress

vars == <<now, flow, code, won, session, req>>

Providers == {Oidc, OAuth}
States    == {"absent", "available", "consumed", "revoked"}

Flow   == [state : States, provider : Providers \cup {None}, expires : Nat]
NoFlow == [state |-> "absent", provider |-> None, expires |-> 0]

Code   == [state : States \ {"revoked"}, subject : People \cup {None},
           flow : Flows \cup {None}, expires : Nat]
NoCode == [state |-> "absent", subject |-> None, flow |-> None, expires |-> 0]

Session   == [state : {"absent", "issued", "kept", "refused"}, live : BOOLEAN,
              subject : People \cup {None}, flow : Flows \cup {None}, code : Codes \cup {None}]
NoSession == [state |-> "absent", live |-> FALSE, subject |-> None, flow |-> None, code |-> None]

Steps == {"idle", "create", "mint", "lockrevoke", "revoke", "lockflow", "useflow", "profile",
          "lockcode", "usecode", "access", "sign", "jwks", "ensure", "issue", "finish",
          "rollback"}
Request == [step : Steps, flow : Flows \cup {None}, code : Codes \cup {None},
            provider : Providers \cup {None}, expires : Nat, row : States,
            subject : People \cup {None}, nonce : Flows \cup {None},
            session : Sessions \cup {None}, gone : BOOLEAN]
Blank == [step |-> "idle", flow |-> None, code |-> None, provider |-> None, expires |-> 0,
          row |-> "absent", subject |-> None, nonce |-> None, session |-> None, gone |-> FALSE]

(* Well typed.                                                             *)
TypeOK ==
  /\ now \in 0 .. MaxTime
  /\ flow \in [Flows -> Flow]
  /\ code \in [Codes -> Code]
  /\ won \in [Flows \cup Codes -> Nat]
  /\ session \in [Sessions -> Session]
  /\ req \in [Requests -> Request]

Init ==
  /\ now = 0
  /\ flow = [f \in Flows |-> NoFlow]
  /\ code = [c \in Codes |-> NoCode]
  /\ won = [t \in Flows \cup Codes |-> 0]
  /\ session = [k \in Sessions |-> NoSession]
  /\ req = [r \in Requests |-> Blank]

-----------------------------------------------------------------------------
At(r, step)   == req[r].step = step
Goto(r, step) == req' = [req EXCEPT ![r].step = step]
End(r)        == req' = [req EXCEPT ![r] = Blank]

-----------------------------------------------------------------------------
(* start: the deadline is fixed, then the flow is created, and the person  *)
(* is sent to the provider with its challenge and its nonce.               *)

Start(r, p) ==
  /\ At(r, "idle")
  /\ req' = [req EXCEPT ![r] = [Blank EXCEPT !.step = "create", !.provider = p,
                                             !.expires = now + FlowTtl]]
  /\ UNCHANGED <<now, flow, code, won, session>>

CreateFlow(r) ==
  /\ At(r, "create")
  /\ IF req[r].expires > now
     THEN \E f \in Flows :
            /\ flow[f].state = "absent"
            /\ flow' = [flow EXCEPT ![f] = [state |-> "available", provider |-> req[r].provider,
                                            expires |-> req[r].expires]]
     ELSE UNCHANGED flow
  /\ End(r)
  /\ UNCHANGED <<now, code, won, session>>

(* authorize of the OIDC plugin: the status of the person is read, then    *)
(* the code is inserted.                                                   *)
Authorize(r, u, f) ==
  /\ At(r, "idle")
  /\ flow[f].state # "absent" /\ flow[f].provider = Oidc
  /\ req' = [req EXCEPT ![r] = [Blank EXCEPT !.step = "mint", !.subject = u, !.flow = f]]
  /\ UNCHANGED <<now, flow, code, won, session>>

MintCode(r) ==
  /\ At(r, "mint")
  /\ \E c \in Codes :
       /\ code[c].state = "absent"
       /\ code' = [code EXCEPT ![c] = [state |-> "available", subject |-> req[r].subject,
                                       flow |-> req[r].flow, expires |-> now + CodeTtl]]
  /\ End(r)
  /\ UNCHANGED <<now, flow, won, session>>

-----------------------------------------------------------------------------
(* The flow store: consume and revoke lock the row, then read the clock.   *)

Holds(r, f) == req[r].step \in {"useflow", "revoke"} /\ req[r].flow = f

Revoke(r, p, f) ==
  /\ At(r, "idle")
  /\ req' = [req EXCEPT ![r] = [Blank EXCEPT !.step = "lockrevoke", !.provider = p, !.flow = f]]
  /\ UNCHANGED <<now, flow, code, won, session>>

(* A callback carries whatever code and state the browser was sent with.   *)
Callback(r, p, f, c) ==
  /\ At(r, "idle")
  /\ p = Oidc => code[c].state # "absent"
  /\ req' = [req EXCEPT ![r] = [Blank EXCEPT !.step = "lockflow", !.provider = p, !.flow = f,
                                             !.code = IF p = Oidc THEN c ELSE None]]
  /\ UNCHANGED <<now, flow, code, won, session>>

(* Mutant: the row is read without FOR UPDATE.                             *)
ReadFlow(r) ==
  /\ req[r].step \in {"lockflow", "lockrevoke"}
  /\ req' = [req EXCEPT ![r].step = IF @ = "lockflow" THEN "useflow" ELSE "revoke",
                        ![r].row = flow[req[r].flow].state]
  /\ UNCHANGED <<now, flow, code, won, session>>

LockFlow(r) ==
  /\ req[r].step \in {"lockflow", "lockrevoke"}
  /\ \A q \in Requests : ~Holds(q, req[r].flow)
  /\ req' = [req EXCEPT ![r].step = IF @ = "lockflow" THEN "useflow" ELSE "revoke",
                        ![r].row = flow[req[r].flow].state]
  /\ UNCHANGED <<now, flow, code, won, session>>

(* What both validate, in the row that was read.                           *)
Usable(r) ==
  LET f == req[r].flow
  IN /\ flow[f].provider = req[r].provider
     /\ req[r].row = "available"
     /\ flow[f].expires > now

RevokeFlow(r) ==
  /\ At(r, "revoke")
  /\ IF Usable(r)
     THEN flow' = [flow EXCEPT ![req[r].flow].state = "revoked"] ELSE UNCHANGED flow
  /\ End(r)
  /\ UNCHANGED <<now, code, won, session>>

UseFlow(r) ==
  LET f == req[r].flow
  IN /\ At(r, "useflow")
     /\ IF Usable(r)
        THEN /\ flow' = [flow EXCEPT ![f].state = "consumed"]
             /\ won' = [won EXCEPT ![f] = @ + 1]
             /\ req' = [req EXCEPT ![r].row = "absent", ![r].step =
                          IF req[r].provider = Oidc THEN "lockcode" ELSE "profile"]
        ELSE End(r) /\ UNCHANGED <<flow, won>>
     /\ UNCHANGED <<now, code, session>>

(* The federated plugin exchanges the code for a token and the token for a *)
(* profile; both answers come from outside.                                *)
LoadProfile(r) ==
  /\ At(r, "profile")
  /\ \/ \E u \in People :
          req' = [req EXCEPT ![r].step = "ensure", ![r].subject = u]
     \/ End(r)
  /\ UNCHANGED <<now, flow, code, won, session>>

-----------------------------------------------------------------------------
(* exchange of the OIDC plugin, for the OIDC client: the code is consumed, *)
(* a session is issued, and the identity token is signed.                  *)

LockCode(r) ==
  /\ At(r, "lockcode")
  /\ \A q \in Requests : ~(At(q, "usecode") /\ req[q].code = req[r].code)
  /\ req' = [req EXCEPT ![r].step = "usecode", ![r].row = code[req[r].code].state]
  /\ UNCHANGED <<now, flow, code, won, session>>

(* Mutant: the verifier is not compared with the challenge of the code.    *)
UseCodeUnproved(r) ==
  LET c == req[r].code
  IN /\ At(r, "usecode")
     /\ IF req[r].row = "available" /\ code[c].expires > now
        THEN /\ code' = [code EXCEPT ![c].state = "consumed"]
             /\ won' = [won EXCEPT ![c] = @ + 1]
             /\ req' = [req EXCEPT ![r].row = "absent", ![r].step = "access"]
        ELSE End(r) /\ UNCHANGED <<code, won>>
     /\ UNCHANGED <<now, flow, session>>

UseCode(r) ==
  LET c == req[r].code
  IN /\ At(r, "usecode")
     /\ IF req[r].row = "available" /\ code[c].expires > now /\ code[c].flow = req[r].flow
        THEN /\ code' = [code EXCEPT ![c].state = "consumed"]
             /\ won' = [won EXCEPT ![c] = @ + 1]
             /\ req' = [req EXCEPT ![r].row = "absent", ![r].step = "access"]
        ELSE End(r) /\ UNCHANGED <<code, won>>
     /\ UNCHANGED <<now, flow, session>>

IssueAccess(r) ==
  /\ At(r, "access")
  /\ \E active \in BOOLEAN : IF active THEN Goto(r, "sign") ELSE End(r)
  /\ UNCHANGED <<now, flow, code, won, session>>

SignToken(r) ==
  /\ At(r, "sign")
  /\ \E signed \in BOOLEAN :
       IF signed /\ ~req[r].gone
       THEN req' = [req EXCEPT ![r].step = "jwks", ![r].subject = code[req[r].code].subject,
                               ![r].nonce = code[req[r].code].flow]
       ELSE End(r)
  /\ UNCHANGED <<now, flow, code, won, session>>

(* The client hangs up on the provider, which goes on.                     *)
HangUp(r) ==
  /\ req[r].step \in {"usecode", "access", "sign"}
  /\ ~req[r].gone
  /\ req' = [req EXCEPT ![r].gone = TRUE]
  /\ UNCHANGED <<now, flow, code, won, session>>

-----------------------------------------------------------------------------
(* The rest of complete: the token is validated, the identity ensured, and *)
(* a session issued.                                                       *)

ValidateToken(r) ==
  /\ At(r, "jwks")
  /\ IF req[r].nonce = req[r].flow
     THEN req' = [req EXCEPT ![r].step = "ensure", ![r].nonce = None] ELSE End(r)
  /\ UNCHANGED <<now, flow, code, won, session>>

EnsureIdentity(r) ==
  /\ At(r, "ensure")
  /\ \E active \in BOOLEAN : IF active THEN Goto(r, "issue") ELSE End(r)
  /\ UNCHANGED <<now, flow, code, won, session>>

IssueSession(r) ==
  /\ At(r, "issue")
  /\ \E k \in Sessions :
       /\ session[k].state = "absent"
       /\ session' = [session EXCEPT ![k] = [state |-> "issued", live |-> TRUE,
                                             subject |-> req[r].subject, flow |-> req[r].flow,
                                             code |-> req[r].code]]
       /\ req' = [req EXCEPT ![r] = [Blank EXCEPT !.step = "finish", !.session = k]]
  /\ UNCHANGED <<now, flow, code, won>>

(* callback: the cookies are set, or, if the expiry, the return target or  *)
(* the credential is unfit, the session is revoked again and the login     *)
(* refused. A revocation that fails is not answered as a refusal.          *)
Finish(r) ==
  /\ At(r, "finish")
  /\ \/ /\ session' = [session EXCEPT ![req[r].session].state = "kept"]
        /\ End(r)
     \/ Goto(r, "rollback") /\ UNCHANGED session
  /\ UNCHANGED <<now, flow, code, won>>

Rollback(r) ==
  /\ At(r, "rollback")
  /\ \E revoked \in BOOLEAN :
       session' = IF revoked THEN [session EXCEPT ![req[r].session].state = "refused",
                                               ![req[r].session].live = FALSE]
                  ELSE session
  /\ End(r)
  /\ UNCHANGED <<now, flow, code, won>>

Logout(k) ==
  /\ session[k].state = "kept"
  /\ session' = [session EXCEPT ![k].live = FALSE]
  /\ UNCHANGED <<now, flow, code, won, req>>

-----------------------------------------------------------------------------
Abandon(r) ==
  /\ ~At(r, "idle")
  /\ End(r)
  /\ UNCHANGED <<now, flow, code, won, session>>

Restart ==
  /\ req' = [r \in Requests |-> Blank]
  /\ UNCHANGED <<now, flow, code, won, session>>

Tick ==
  /\ now < MaxTime
  /\ now' = now + 1
  /\ UNCHANGED <<flow, code, won, session, req>>

FlowStore(r) ==
  \/ \E p \in Providers, f \in Flows : Revoke(r, p, f)
  \/ CreateFlow(r) \/ LockFlow(r) \/ RevokeFlow(r) \/ UseFlow(r)

Provider(r) ==
  \/ \E u \in People, f \in Flows : Authorize(r, u, f)
  \/ MintCode(r) \/ LockCode(r) \/ UseCode(r) \/ IssueAccess(r) \/ SignToken(r)

Client(r) ==
  \/ \E p \in Providers : Start(r, p)
  \/ \E p \in Providers, f \in Flows, c \in Codes : Callback(r, p, f, c)
  \/ HangUp(r) \/ LoadProfile(r) \/ ValidateToken(r)
  \/ EnsureIdentity(r) \/ IssueSession(r) \/ Finish(r) \/ Rollback(r)

Next ==
  \/ \E r \in Requests : FlowStore(r) \/ Provider(r) \/ Client(r) \/ Abandon(r)
  \/ \E k \in Sessions : Logout(k)
  \/ Restart \/ Tick

Spec == Init /\ [][Next]_vars

-----------------------------------------------------------------------------
(* A flow leads to one login at most. With the OIDC client it is that of   *)
(* the person who authorized this very flow, and his code was spent for    *)
(* it; no other callback, however flows and codes are mixed up, spends the *)
(* code. A login that was refused in the end has left no session behind.   *)
LoginIsOwn ==
  /\ \A k \in Sessions : session[k].state # "absent" =>
       LET f == session[k].flow
           c == session[k].code
       IN /\ flow[f].state = "consumed"
          /\ \A j \in Sessions : session[j].flow = f => j = k
          /\ flow[f].provider = Oidc =>
               /\ code[c].state = "consumed"
               /\ code[c].flow = f /\ code[c].subject = session[k].subject
          /\ session[k].state = "refused" => ~session[k].live
  /\ \A c \in Codes : code[c].state = "consumed" => flow[code[c].flow].state = "consumed"

(* Flows and codes keep the promises of OneShot, whatever fails or is      *)
(* retried after they were handed out.                                     *)
Ticket == [t \in Flows \cup Codes |-> IF t \in Flows THEN flow[t].state ELSE code[t].state]

Once == INSTANCE OneShot WITH Tickets <- Flows \cup Codes, state <- Ticket
ImplementsOneShot == Once!Spec
=============================================================================
