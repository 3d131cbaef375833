------------------------- MODULE FederatedLoginProofs -------------------------
(***************************************************************************)
(* Proofs about FederatedLogin, for all sets of flows, codes, sessions,    *)
(* people and handlers and all lifetimes.                                  *)
(***************************************************************************)
EXTENDS FederatedLogin, TLAPS

-----------------------------------------------------------------------------
(* The inductive invariant.                                                *)

(* The steps of a login after its flow was handed to it, and those after   *)
(* its code was spent.                                                     *)
Past == {"profile", "lockcode", "usecode", "access", "sign", "jwks", "ensure", "issue"}
Spent(r) == \/ req[r].step \in {"access", "sign", "jwks"}
            \/ req[r].step \in {"ensure", "issue"} /\ req[r].provider = Oidc
Holding(r) == req[r].step \in {"useflow", "revoke"}
Exchanging == {"lockcode", "usecode", "access", "sign", "jwks"}

(* What a handler knows at each of its steps.                              *)
Handlers ==
  \A r \in Requests :
    /\ req[r].step \in Past \cup {"lockrevoke", "revoke", "lockflow", "useflow"} =>
         req[r].flow \in Flows /\ req[r].provider \in Providers
    /\ req[r].step \in Past \cup {"lockflow", "useflow"} /\ req[r].provider = Oidc =>
         req[r].code \in Codes
    /\ req[r].step \in Exchanging => req[r].provider = Oidc
    /\ req[r].step = "profile" => req[r].provider # Oidc
    /\ req[r].step = "create" => req[r].provider \in Providers
    /\ req[r].step = "mint" => req[r].flow \in Flows /\ req[r].subject \in People
    /\ req[r].step \in {"finish", "rollback"} =>
         req[r].session \in Sessions /\ session[req[r].session].state # "absent"

(* Row locks: one holder, and what he read as available still is.          *)
Locks ==
  \A r \in Requests :
    /\ Holding(r) => /\ \A q \in Requests : Holding(q) /\ req[q].flow = req[r].flow => q = r
                     /\ req[r].row = "available" => flow[req[r].flow].state = "available"
    /\ At(r, "usecode") =>
         /\ \A q \in Requests : At(q, "usecode") /\ req[q].code = req[r].code => q = r
         /\ req[r].row = "available" => code[req[r].code].state = "available"

(* A flow that was handed out belongs to one login.                        *)
Winners ==
  \A r \in Requests :
    req[r].step \in Past =>
      /\ flow[req[r].flow].state = "consumed"
      /\ flow[req[r].flow].provider = req[r].provider
      /\ \A q \in Requests : req[q].step \in Past /\ req[q].flow = req[r].flow => q = r
      /\ \A k \in Sessions : session[k].flow # req[r].flow

(* A code that was spent was spent for the flow it was authorized for, and *)
(* the login goes on as the person who authorized it.                      *)
Spenders ==
  \A r \in Requests :
    /\ Spent(r) => /\ code[req[r].code].state = "consumed"
                   /\ code[req[r].code].flow = req[r].flow
    /\ Spent(r) /\ req[r].step \in {"jwks", "ensure", "issue"} =>
         req[r].subject = code[req[r].code].subject

Known ==
  /\ \A c \in Codes : code[c].state # "absent" =>
       code[c].flow \in Flows /\ code[c].subject \in People
  /\ \A k \in Sessions : session[k].state # "absent" => session[k].flow \in Flows
  /\ \A k \in Sessions : session[k].state = "absent" => session[k].flow = None

Own(k) ==
  LET f == session[k].flow
      c == session[k].code
  IN /\ flow[f].state = "consumed"
     /\ \A j \in Sessions : session[j].flow = f => j = k
     /\ flow[f].provider = Oidc =>
          /\ c \in Codes
          /\ code[c].state = "consumed"
          /\ code[c].flow = f /\ code[c].subject = session[k].subject
     /\ session[k].state = "refused" => ~session[k].live
Owned == \A k \in Sessions : session[k].state # "absent" => Own(k)
Matched == \A c \in Codes : code[c].state = "consumed" => flow[code[c].flow].state = "consumed"

Inv == TypeOK /\ Handlers /\ Locks /\ Winners /\ Spenders /\ Known /\ Owned /\ Matched

LEMMA BlankTyped == Blank \in Request
BY DEF Blank, Request, Steps, States

-----------------------------------------------------------------------------
(* Each action keeps the invariant.                                        *)

LEMMA SessionsKept ==
  ASSUME Inv, UNCHANGED <<flow, code>>,
         session' \in [Sessions -> Session],
         \A j \in Sessions : session'[j].flow = session[j].flow /\ session'[j].code = session[j].code /\ session'[j].subject = session[j].subject,
         \A j \in Sessions : session'[j].state = "absent" <=> session[j].state = "absent",
         \A j \in Sessions : session'[j].state = "refused" =>
           ~session'[j].live \/ (session[j].state = "refused" /\ session'[j] = session[j])
  PROVE  Owned'
<1> SUFFICES ASSUME NEW k \in Sessions, session'[k].state # "absent" PROVE Own(k)'
  BY DEF Owned
<1>1. Own(k)  BY DEF Inv, Owned
<1> QED  BY <1>1 DEF Own

LEMMA StartKeeps ==
  ASSUME Inv,
         NEW r \in Requests,
         NEW p \in Providers,
         Start(r, p)
  PROVE  Inv'
<1> USE DEF Start, At, Goto, End, Holding, Past, Exchanging, Spent
<1>0. TypeOK /\ Handlers  BY DEF Inv
<1>n. now + FlowTtl \in Nat  BY <1>0, BoundAssumption DEF TypeOK
<1>q. /\ \A q \in Requests : q # r => req'[q] = req[q]
      /\ req' \in [Requests -> Request]
      /\ req[r] \in Request
      /\ req'[r].step = "create" /\ req'[r].provider = p
  BY <1>0, <1>n, BlankTyped DEF TypeOK, Handlers, Blank, Request, Steps, States
<1>1. TypeOK'
  BY <1>0, <1>q, BlankTyped, BoundAssumption
  DEF Inv, TypeOK, Handlers, Request, Steps, States, Flow, Code, Session, Providers
<1>2. Handlers'
  BY <1>0, <1>q, DistinctAssumption
  DEF Inv, TypeOK, Handlers, Blank, Request, Providers, Code
<1>3. Locks'
  BY <1>0, <1>q, DistinctAssumption
  DEF Inv, TypeOK, Handlers, Locks, Blank, Request, Providers
<1>4. Winners'
  BY <1>0, <1>q, DistinctAssumption
  DEF Inv, TypeOK, Handlers, Winners, Blank, Request, Providers, Flow, Session, Known
<1>5. Spenders'
  BY <1>0, <1>q, DistinctAssumption
  DEF Inv, TypeOK, Handlers, Spenders, Blank, Request, Providers, Locks, Winners
<1>6. Known'
  BY <1>0, <1>q, DistinctAssumption
  DEF Inv, TypeOK, Handlers, Known, Code, Session, Winners
<1>7. Owned'
  BY <1>0, <1>q, DistinctAssumption
  DEF Inv, TypeOK, Handlers, Owned, Own, Winners, Spenders, Locks, Known, Flow, Session, Providers
<1>8. Matched'
  BY <1>0, <1>q, DistinctAssumption
  DEF Inv, TypeOK, Handlers, Matched, Winners, Locks, Known
<1> QED  BY <1>1, <1>2, <1>3, <1>4, <1>5, <1>6, <1>7, <1>8 DEF Inv

LEMMA CreateFlowKeeps ==
  ASSUME Inv,
         NEW r \in Requests,
         CreateFlow(r)
  PROVE  Inv'
<1> USE DEF CreateFlow, At, Goto, End, Holding, Past, Exchanging, Spent
<1>0. TypeOK /\ Handlers  BY DEF Inv
<1>q. /\ \A q \in Requests : q # r => req'[q] = req[q]
      /\ req' \in [Requests -> Request]
      /\ req[r] \in Request
      /\ req'[r].step = "idle"
      /\ \A f \in Flows : flow[f].state # "absent" => flow'[f] = flow[f]
      /\ flow' \in [Flows -> Flow]
  BY <1>0, BlankTyped DEF TypeOK, Handlers, Blank, Request, Flow, States
<1>1. TypeOK'
  BY <1>0, <1>q, BlankTyped, BoundAssumption
  DEF Inv, TypeOK, Handlers, Request, Steps, States, Flow, Code, Session, Providers
<1>2. Handlers'
  BY <1>0, <1>q, DistinctAssumption
  DEF Inv, TypeOK, Handlers, Blank, Request, Providers, Code
<1>3. Locks'
  BY <1>0, <1>q, DistinctAssumption
  DEF Inv, TypeOK, Handlers, Locks, Blank, Request, Providers
<1>4. Winners'
  BY <1>0, <1>q, DistinctAssumption
  DEF Inv, TypeOK, Handlers, Winners, Blank, Request, Providers, Flow, Session, Known
<1>5. Spenders'
  BY <1>0, <1>q, DistinctAssumption
  DEF Inv, TypeOK, Handlers, Spenders, Blank, Request, Providers, Locks, Winners
<1>6. Known'
  BY <1>0, <1>q, DistinctAssumption
  DEF Inv, TypeOK, Handlers, Known, Code, Session, Winners
<1>7. Owned'
  BY <1>0, <1>q, DistinctAssumption
  DEF Inv, TypeOK, Handlers, Owned, Own, Winners, Spenders, Locks, Known, Flow, Session, Providers
<1>8. Matched'
  BY <1>0, <1>q, DistinctAssumption
  DEF Inv, TypeOK, Handlers, Matched, Winners, Locks, Known
<1> QED  BY <1>1, <1>2, <1>3, <1>4, <1>5, <1>6, <1>7, <1>8 DEF Inv

LEMMA AuthorizeKeeps ==
  ASSUME Inv,
         NEW r \in Requests,
         NEW u \in People,
         NEW f \in Flows,
         Authorize(r, u, f)
  PROVE  Inv'
<1> USE DEF Authorize, At, Goto, End, Holding, Past, Exchanging, Spent
<1>0. TypeOK /\ Handlers  BY DEF Inv
<1>q. /\ \A q \in Requests : q # r => req'[q] = req[q]
      /\ req' \in [Requests -> Request]
      /\ req[r] \in Request
      /\ req'[r].step = "mint" /\ req'[r].subject = u /\ req'[r].flow = f
  BY <1>0, BlankTyped DEF TypeOK, Handlers, Blank, Request, Steps, States
<1>1. TypeOK'
  BY <1>0, <1>q, BlankTyped, BoundAssumption
  DEF Inv, TypeOK, Handlers, Request, Steps, States, Flow, Code, Session, Providers
<1>2. Handlers'
  BY <1>0, <1>q, DistinctAssumption
  DEF Inv, TypeOK, Handlers, Blank, Request, Providers, Code
<1>3. Locks'
  BY <1>0, <1>q, DistinctAssumption
  DEF Inv, TypeOK, Handlers, Locks, Blank, Request, Providers
<1>4. Winners'
  BY <1>0, <1>q, DistinctAssumption
  DEF Inv, TypeOK, Handlers, Winners, Blank, Request, Providers, Flow, Session, Known
<1>5. Spenders'
  BY <1>0, <1>q, DistinctAssumption
  DEF Inv, TypeOK, Handlers, Spenders, Blank, Request, Providers, Locks, Winners
<1>6. Known'
  BY <1>0, <1>q, DistinctAssumption
  DEF Inv, TypeOK, Handlers, Known, Code, Session, Winners
<1>7. Owned'
  BY <1>0, <1>q, DistinctAssumption
  DEF Inv, TypeOK, Handlers, Owned, Own, Winners, Spenders, Locks, Known, Flow, Session, Providers
<1>8. Matched'
  BY <1>0, <1>q, DistinctAssumption
  DEF Inv, TypeOK, Handlers, Matched, Winners, Locks, Known
<1> QED  BY <1>1, <1>2, <1>3, <1>4, <1>5, <1>6, <1>7, <1>8 DEF Inv

LEMMA MintCodeKeeps ==
  ASSUME Inv,
         NEW r \in Requests,
         MintCode(r)
  PROVE  Inv'
<1> USE DEF MintCode, At, Goto, End, Holding, Past, Exchanging, Spent
<1>0. TypeOK /\ Handlers  BY DEF Inv
<1>q. /\ \A q \in Requests : q # r => req'[q] = req[q]
      /\ req' \in [Requests -> Request]
      /\ req[r] \in Request
      /\ req'[r].step = "idle"
      /\ \A c \in Codes : code[c].state # "absent" => code'[c] = code[c]
      /\ \A c \in Codes : code'[c] # code[c] => code'[c].state = "available" /\ code'[c].flow \in Flows /\ code'[c].subject \in People
  BY <1>0, BlankTyped DEF TypeOK, Handlers, Blank, Request, Code
<1>1. TypeOK'
  BY <1>0, <1>q, BlankTyped, BoundAssumption
  DEF Inv, TypeOK, Handlers, Request, Steps, States, Flow, Code, Session, Providers
<1>2. Handlers'
  BY <1>0, <1>q, DistinctAssumption
  DEF Inv, TypeOK, Handlers, Blank, Request, Providers, Code
<1>3. Locks'
  BY <1>0, <1>q, DistinctAssumption
  DEF Inv, TypeOK, Handlers, Locks, Blank, Request, Providers
<1>4. Winners'
  BY <1>0, <1>q, DistinctAssumption
  DEF Inv, TypeOK, Handlers, Winners, Blank, Request, Providers, Flow, Session, Known
<1>5. Spenders'
  BY <1>0, <1>q, DistinctAssumption
  DEF Inv, TypeOK, Handlers, Spenders, Blank, Request, Providers, Locks, Winners
<1>6. Known'
  BY <1>0, <1>q, DistinctAssumption
  DEF Inv, TypeOK, Handlers, Known, Code, Session, Winners
<1>7. Owned'
  BY <1>0, <1>q, DistinctAssumption
  DEF Inv, TypeOK, Handlers, Owned, Own, Winners, Spenders, Locks, Known, Flow, Session, Providers
<1>8. Matched'
  BY <1>0, <1>q, DistinctAssumption
  DEF Inv, TypeOK, Handlers, Matched, Winners, Locks, Known
<1> QED  BY <1>1, <1>2, <1>3, <1>4, <1>5, <1>6, <1>7, <1>8 DEF Inv

LEMMA RevokeKeeps ==
  ASSUME Inv,
         NEW r \in Requests,
         NEW p \in Providers,
         NEW f \in Flows,
         Revoke(r, p, f)
  PROVE  Inv'
<1> USE DEF Revoke, At, Goto, End, Holding, Past, Exchanging, Spent
<1>0. TypeOK /\ Handlers  BY DEF Inv
<1>q. /\ \A q \in Requests : q # r => req'[q] = req[q]
      /\ req' \in [Requests -> Request]
      /\ req[r] \in Request
      /\ req'[r].step = "lockrevoke" /\ req'[r].provider = p /\ req'[r].flow = f
  BY <1>0, BlankTyped DEF TypeOK, Handlers, Blank, Request, Steps, States
<1>1. TypeOK'
  BY <1>0, <1>q, BlankTyped, BoundAssumption
  DEF Inv, TypeOK, Handlers, Request, Steps, States, Flow, Code, Session, Providers
<1>2. Handlers'
  BY <1>0, <1>q, DistinctAssumption
  DEF Inv, TypeOK, Handlers, Blank, Request, Providers, Code
<1>3. Locks'
  BY <1>0, <1>q, DistinctAssumption
  DEF Inv, TypeOK, Handlers, Locks, Blank, Request, Providers
<1>4. Winners'
  BY <1>0, <1>q, DistinctAssumption
  DEF Inv, TypeOK, Handlers, Winners, Blank, Request, Providers, Flow, Session, Known
<1>5. Spenders'
  BY <1>0, <1>q, DistinctAssumption
  DEF Inv, TypeOK, Handlers, Spenders, Blank, Request, Providers, Locks, Winners
<1>6. Known'
  BY <1>0, <1>q, DistinctAssumption
  DEF Inv, TypeOK, Handlers, Known, Code, Session, Winners
<1>7. Owned'
  BY <1>0, <1>q, DistinctAssumption
  DEF Inv, TypeOK, Handlers, Owned, Own, Winners, Spenders, Locks, Known, Flow, Session, Providers
<1>8. Matched'
  BY <1>0, <1>q, DistinctAssumption
  DEF Inv, TypeOK, Handlers, Matched, Winners, Locks, Known
<1> QED  BY <1>1, <1>2, <1>3, <1>4, <1>5, <1>6, <1>7, <1>8 DEF Inv

LEMMA CallbackKeeps ==
  ASSUME Inv,
         NEW r \in Requests,
         NEW p \in Providers,
         NEW f \in Flows,
         NEW c \in Codes,
         Callback(r, p, f, c)
  PROVE  Inv'
<1> USE DEF Callback, At, Goto, End, Holding, Past, Exchanging, Spent
<1>0. TypeOK /\ Handlers  BY DEF Inv
<1>q. /\ \A q \in Requests : q # r => req'[q] = req[q]
      /\ req' \in [Requests -> Request]
      /\ req[r] \in Request
      /\ req'[r].step = "lockflow" /\ req'[r].provider = p /\ req'[r].flow = f
      /\ p = Oidc => req'[r].code = c
  BY ZenonT(60), <1>0, BlankTyped DEF TypeOK, Handlers, Blank, Request, Steps, States
<1>1. TypeOK'
  BY <1>0, <1>q, BlankTyped, BoundAssumption
  DEF Inv, TypeOK, Handlers, Request, Steps, States, Flow, Code, Session, Providers
<1>2. Handlers'
  BY <1>0, <1>q, DistinctAssumption
  DEF Inv, TypeOK, Handlers, Blank, Request, Providers, Code
<1>3. Locks'
  BY <1>0, <1>q, DistinctAssumption
  DEF Inv, TypeOK, Handlers, Locks, Blank, Request, Providers
<1>4. Winners'
  BY <1>0, <1>q, DistinctAssumption
  DEF Inv, TypeOK, Handlers, Winners, Blank, Request, Providers, Flow, Session, Known
<1>5. Spenders'
  BY <1>0, <1>q, DistinctAssumption
  DEF Inv, TypeOK, Handlers, Spenders, Blank, Request, Providers, Locks, Winners
<1>6. Known'
  BY <1>0, <1>q, DistinctAssumption
  DEF Inv, TypeOK, Handlers, Known, Code, Session, Winners
<1>7. Owned'
  BY <1>0, <1>q, DistinctAssumption
  DEF Inv, TypeOK, Handlers, Owned, Own, Winners, Spenders, Locks, Known, Flow, Session, Providers
<1>8. Matched'
  BY <1>0, <1>q, DistinctAssumption
  DEF Inv, TypeOK, Handlers, Matched, Winners, Locks, Known
<1> QED  BY <1>1, <1>2, <1>3, <1>4, <1>5, <1>6, <1>7, <1>8 DEF Inv

LEMMA LockConsumeKeeps ==
  ASSUME Inv,
         NEW r \in Requests,
         LockFlow(r),
         At(r, "lockflow")
  PROVE  Inv'
<1> USE DEF LockFlow, Holds, At, Goto, End, Holding, Past, Exchanging, Spent
<1>0. TypeOK /\ Handlers  BY DEF Inv
<1>q. /\ \A q \in Requests : q # r => req'[q] = req[q]
      /\ req' \in [Requests -> Request]
      /\ req[r] \in Request
      /\ req'[r].step = "useflow" /\ req'[r].flow = req[r].flow /\ req'[r].provider = req[r].provider /\ req'[r].code = req[r].code
      /\ req'[r].row = flow[req[r].flow].state /\ req'[r].subject = req[r].subject /\ req'[r].session = req[r].session
  <2> DEFINE v == [[req[r] EXCEPT !.step = "useflow"] EXCEPT !.row = flow[req[r].flow].state]
  <2>1. req \in [Requests -> Request] /\ req[r] \in Request /\ flow[req[r].flow].state \in States
    BY <1>0 DEF TypeOK, Handlers, Providers, Code, Flow
  <2>2. /\ v \in Request
        /\ v.step = "useflow" /\ v.flow = req[r].flow /\ v.provider = req[r].provider /\ v.code = req[r].code
        /\ v.row = flow[req[r].flow].state /\ v.subject = req[r].subject /\ v.session = req[r].session
    BY <2>1 DEF Request, Steps, States
  <2>3. req' = [req EXCEPT ![r] = v]
    BY <2>1 DEF Request
  <2> HIDE DEF v
  <2> QED  BY <2>1, <2>2, <2>3
<1>1. TypeOK'
  BY <1>0, <1>q DEF TypeOK
<1>2. Handlers'
  BY <1>0, <1>q DEF Handlers
<1>3. Locks'
  BY <1>q DEF Inv, Locks
<1>4. Winners'
  BY <1>q DEF Inv, Winners
<1>5. Spenders'
  BY <1>q DEF Inv, Spenders
<1>6. Known'
  BY <1>0, <1>q, DistinctAssumption
  DEF Inv, TypeOK, Handlers, Known, Code, Session, Winners
<1>7. Owned'
  BY <1>0, <1>q, DistinctAssumption
  DEF Inv, TypeOK, Handlers, Owned, Own, Winners, Spenders, Locks, Known, Flow, Session, Providers
<1>8. Matched'
  BY <1>0, <1>q, DistinctAssumption
  DEF Inv, TypeOK, Handlers, Matched, Winners, Locks, Known
<1> QED  BY <1>1, <1>2, <1>3, <1>4, <1>5, <1>6, <1>7, <1>8 DEF Inv

LEMMA LockRevokeKeeps ==
  ASSUME Inv,
         NEW r \in Requests,
         LockFlow(r),
         At(r, "lockrevoke")
  PROVE  Inv'
<1> USE DEF LockFlow, Holds, At, Goto, End, Holding, Past, Exchanging, Spent
<1>0. TypeOK /\ Handlers  BY DEF Inv
<1>q. /\ \A q \in Requests : q # r => req'[q] = req[q]
      /\ req' \in [Requests -> Request]
      /\ req[r] \in Request
      /\ req'[r].step = "revoke" /\ req'[r].flow = req[r].flow /\ req'[r].provider = req[r].provider /\ req'[r].code = req[r].code
      /\ req'[r].row = flow[req[r].flow].state /\ req'[r].subject = req[r].subject /\ req'[r].session = req[r].session
  <2> DEFINE v == [[req[r] EXCEPT !.step = "revoke"] EXCEPT !.row = flow[req[r].flow].state]
  <2>1. req \in [Requests -> Request] /\ req[r] \in Request /\ flow[req[r].flow].state \in States
    BY <1>0 DEF TypeOK, Handlers, Providers, Code, Flow
  <2>2. /\ v \in Request
        /\ v.step = "revoke" /\ v.flow = req[r].flow /\ v.provider = req[r].provider /\ v.code = req[r].code
        /\ v.row = flow[req[r].flow].state /\ v.subject = req[r].subject /\ v.session = req[r].session
    BY <2>1 DEF Request, Steps, States
  <2>3. req' = [req EXCEPT ![r] = v]
    BY <2>1 DEF Request
  <2> HIDE DEF v
  <2> QED  BY <2>1, <2>2, <2>3
<1>1. TypeOK'
  BY <1>0, <1>q DEF TypeOK
<1>2. Handlers'
  BY <1>0, <1>q DEF Handlers
<1>3. Locks'
  BY <1>q DEF Inv, Locks
<1>4. Winners'
  BY <1>q DEF Inv, Winners
<1>5. Spenders'
  BY <1>q DEF Inv, Spenders
<1>6. Known'
  BY <1>0, <1>q, DistinctAssumption
  DEF Inv, TypeOK, Handlers, Known, Code, Session, Winners
<1>7. Owned'
  BY <1>0, <1>q, DistinctAssumption
  DEF Inv, TypeOK, Handlers, Owned, Own, Winners, Spenders, Locks, Known, Flow, Session, Providers
<1>8. Matched'
  BY <1>0, <1>q, DistinctAssumption
  DEF Inv, TypeOK, Handlers, Matched, Winners, Locks, Known
<1> QED  BY <1>1, <1>2, <1>3, <1>4, <1>5, <1>6, <1>7, <1>8 DEF Inv

LEMMA RevokeFlowKeeps ==
  ASSUME Inv,
         NEW r \in Requests,
         RevokeFlow(r)
  PROVE  Inv'
<1> USE DEF RevokeFlow, Usable, At, Goto, End, Holding, Past, Exchanging, Spent
<1>0. TypeOK /\ Handlers  BY DEF Inv
<1>q. /\ \A q \in Requests : q # r => req'[q] = req[q]
      /\ req' \in [Requests -> Request]
      /\ req[r] \in Request
      /\ req'[r].step = "idle"
      /\ \A f \in Flows : f # req[r].flow => flow'[f] = flow[f]
      /\ \A f \in Flows : flow'[f].provider = flow[f].provider
      /\ flow' # flow => flow[req[r].flow].state = "available"
  BY <1>0, BlankTyped DEF TypeOK, Handlers, Blank, Inv, Locks, Request, Flow
<1>1. TypeOK'
  BY <1>0, BlankTyped DEF Inv, TypeOK, States, Flow, Code, Session
<1>2. Handlers'
  BY <1>0, <1>q, DistinctAssumption
  DEF Inv, TypeOK, Handlers, Blank, Request, Providers, Code
<1>3. Locks'
  BY <1>0, <1>q, DistinctAssumption
  DEF Inv, TypeOK, Handlers, Locks, Blank, Request, Providers
<1>4. Winners'
  BY <1>0, <1>q, DistinctAssumption
  DEF Inv, TypeOK, Handlers, Winners, Blank, Request, Providers, Flow, Session, Known
<1>5. Spenders'
  BY <1>0, <1>q, DistinctAssumption
  DEF Inv, TypeOK, Handlers, Spenders, Blank, Request, Providers, Locks, Winners
<1>6. Known'
  BY <1>0, <1>q, DistinctAssumption
  DEF Inv, TypeOK, Handlers, Known, Code, Session, Winners
<1>7. Owned'
  BY <1>0, <1>q, DistinctAssumption
  DEF Inv, TypeOK, Handlers, Owned, Own, Winners, Spenders, Locks, Known, Flow, Session, Providers
<1>8. Matched'
  BY <1>0, <1>q, DistinctAssumption
  DEF Inv, TypeOK, Handlers, Matched, Winners, Locks, Known
<1> QED  BY <1>1, <1>2, <1>3, <1>4, <1>5, <1>6, <1>7, <1>8 DEF Inv

LEMMA FlowUsedKeeps ==
  ASSUME Inv,
         NEW r \in Requests,
         At(r, "useflow"),
         Usable(r),
         flow' = [flow EXCEPT ![req[r].flow].state = "consumed"],
         won' = [won EXCEPT ![req[r].flow] = @ + 1],
         req' = [req EXCEPT ![r].row = "absent", ![r].step = IF req[r].provider = Oidc THEN "lockcode" ELSE "profile"],
         UNCHANGED <<now, code, session>>
  PROVE  Inv'
<1> USE DEF Usable, At, Goto, End, Holding, Past, Exchanging, Spent
<1>0. TypeOK /\ Handlers  BY DEF Inv
<1>q. /\ \A q \in Requests : q # r => req'[q] = req[q]
      /\ req' \in [Requests -> Request]
      /\ req[r] \in Request
      /\ req'[r].step = IF req[r].provider = Oidc THEN "lockcode" ELSE "profile"
      /\ req'[r].flow = req[r].flow /\ req'[r].provider = req[r].provider /\ req'[r].code = req[r].code
      /\ \A f \in Flows : f # req[r].flow => flow'[f] = flow[f]
      /\ \A f \in Flows : flow'[f].provider = flow[f].provider
      /\ flow[req[r].flow].state = "available" /\ flow'[req[r].flow].state = "consumed"
  BY <1>0 DEF TypeOK, Request
<1>1. TypeOK'
  BY <1>0, <1>q, BlankTyped, BoundAssumption
  DEF Inv, TypeOK, Handlers, Request, Steps, States, Flow, Code, Session, Providers
<1>2. Handlers'
  BY <1>0, <1>q, DistinctAssumption
  DEF Inv, TypeOK, Handlers, Blank, Request, Providers, Code
<1>3. Locks'
  BY <1>0, <1>q, DistinctAssumption
  DEF Inv, TypeOK, Handlers, Locks, Blank, Request, Providers
<1>4. Winners'
  BY <1>0, <1>q, DistinctAssumption
  DEF Inv, TypeOK, Handlers, Winners, Blank, Request, Providers, Flow, Session, Known
<1>5. Spenders'
  BY <1>0, <1>q, DistinctAssumption
  DEF Inv, TypeOK, Handlers, Spenders, Blank, Request, Providers, Locks, Winners
<1>6. Known'
  BY <1>0, <1>q, DistinctAssumption
  DEF Inv, TypeOK, Handlers, Known, Code, Session, Winners
<1>7. Owned'
  BY <1>0, <1>q, DistinctAssumption
  DEF Inv, TypeOK, Handlers, Owned, Own, Winners, Spenders, Locks, Known, Flow, Session, Providers
<1>8. Matched'
  BY <1>0, <1>q, DistinctAssumption
  DEF Inv, TypeOK, Handlers, Matched, Winners, Locks, Known
<1> QED  BY <1>1, <1>2, <1>3, <1>4, <1>5, <1>6, <1>7, <1>8 DEF Inv

LEMMA EndKeeps ==
  ASSUME Inv,
         NEW r \in Requests,
         End(r),
         UNCHANGED <<now, flow, code, won, session>>
  PROVE  Inv'
<1> USE DEF At, Goto, End, Holding, Past, Exchanging, Spent
<1>0. TypeOK /\ Handlers  BY DEF Inv
<1>q. /\ \A q \in Requests : q # r => req'[q] = req[q]
      /\ req' \in [Requests -> Request]
      /\ req[r] \in Request
      /\ req'[r].step = "idle"
  BY <1>0, BlankTyped DEF TypeOK, Handlers, Blank, Request, Steps, States
<1>1. TypeOK'
  BY <1>0, <1>q, BlankTyped, BoundAssumption
  DEF Inv, TypeOK, Handlers, Request, Steps, States, Flow, Code, Session, Providers
<1>2. Handlers'
  BY <1>0, <1>q, DistinctAssumption
  DEF Inv, TypeOK, Handlers, Blank, Request, Providers, Code
<1>3. Locks'
  BY <1>0, <1>q, DistinctAssumption
  DEF Inv, TypeOK, Handlers, Locks, Blank, Request, Providers
<1>4. Winners'
  BY <1>0, <1>q, DistinctAssumption
  DEF Inv, TypeOK, Handlers, Winners, Blank, Request, Providers, Flow, Session, Known
<1>5. Spenders'
  BY <1>0, <1>q, DistinctAssumption
  DEF Inv, TypeOK, Handlers, Spenders, Blank, Request, Providers, Locks, Winners
<1>6. Known'
  BY <1>0, <1>q, DistinctAssumption
  DEF Inv, TypeOK, Handlers, Known, Code, Session, Winners
<1>7. Owned'
  BY <1>0, <1>q, DistinctAssumption
  DEF Inv, TypeOK, Handlers, Owned, Own, Winners, Spenders, Locks, Known, Flow, Session, Providers
<1>8. Matched'
  BY <1>0, <1>q, DistinctAssumption
  DEF Inv, TypeOK, Handlers, Matched, Winners, Locks, Known
<1> QED  BY <1>1, <1>2, <1>3, <1>4, <1>5, <1>6, <1>7, <1>8 DEF Inv

LEMMA ProfileKeeps ==
  ASSUME Inv,
         NEW r \in Requests,
         NEW u \in People,
         At(r, "profile"),
         req' = [req EXCEPT ![r].step = "ensure", ![r].subject = u],
         UNCHANGED <<now, flow, code, won, session>>
  PROVE  Inv'
<1> USE DEF At, Goto, End, Holding, Past, Exchanging, Spent
<1>0. TypeOK /\ Handlers  BY DEF Inv
<1>q. /\ \A q \in Requests : q # r => req'[q] = req[q]
      /\ req' \in [Requests -> Request]
      /\ req[r] \in Request
      /\ req'[r].step = "ensure" /\ req'[r].flow = req[r].flow /\ req'[r].provider = req[r].provider /\ req'[r].code = req[r].code
      /\ req'[r].row = req[r].row /\ req'[r].subject = u /\ req'[r].session = req[r].session
  <2> DEFINE v == [[req[r] EXCEPT !.step = "ensure"] EXCEPT !.subject = u]
  <2>1. req \in [Requests -> Request] /\ req[r] \in Request
    BY <1>0 DEF TypeOK, Handlers, Providers, Code, Flow
  <2>2. /\ v \in Request
        /\ v.step = "ensure" /\ v.flow = req[r].flow /\ v.provider = req[r].provider /\ v.code = req[r].code
        /\ v.row = req[r].row /\ v.subject = u /\ v.session = req[r].session
    BY <2>1 DEF Request, Steps, States
  <2>3. req' = [req EXCEPT ![r] = v]
    BY <2>1 DEF Request
  <2> HIDE DEF v
  <2> QED  BY <2>1, <2>2, <2>3
<1>1. TypeOK'
  BY <1>0, <1>q, BlankTyped, BoundAssumption
  DEF Inv, TypeOK, Handlers, Request, Steps, States, Flow, Code, Session, Providers
<1>2. Handlers'
  BY <1>0, <1>q, DistinctAssumption
  DEF Inv, TypeOK, Handlers, Blank, Request, Providers, Code
<1>3. Locks'
  BY <1>0, <1>q, DistinctAssumption
  DEF Inv, TypeOK, Handlers, Locks, Blank, Request, Providers
<1>4. Winners'
  BY <1>0, <1>q, DistinctAssumption
  DEF Inv, TypeOK, Handlers, Winners, Blank, Request, Providers, Flow, Session, Known
<1>5. Spenders'
  BY <1>0, <1>q, DistinctAssumption
  DEF Inv, TypeOK, Handlers, Spenders, Blank, Request, Providers, Locks, Winners
<1>6. Known'
  BY <1>0, <1>q, DistinctAssumption
  DEF Inv, TypeOK, Handlers, Known, Code, Session, Winners
<1>7. Owned'
  BY <1>0, <1>q, DistinctAssumption
  DEF Inv, TypeOK, Handlers, Owned, Own, Winners, Spenders, Locks, Known, Flow, Session, Providers
<1>8. Matched'
  BY <1>0, <1>q, DistinctAssumption
  DEF Inv, TypeOK, Handlers, Matched, Winners, Locks, Known
<1> QED  BY <1>1, <1>2, <1>3, <1>4, <1>5, <1>6, <1>7, <1>8 DEF Inv

LEMMA LockCodeKeeps ==
  ASSUME Inv,
         NEW r \in Requests,
         LockCode(r)
  PROVE  Inv'
<1> USE DEF LockCode, At, Goto, End, Holding, Past, Exchanging, Spent
<1>0. TypeOK /\ Handlers  BY DEF Inv
<1>q. /\ \A q \in Requests : q # r => req'[q] = req[q]
      /\ req' \in [Requests -> Request]
      /\ req[r] \in Request
      /\ req'[r].step = "usecode" /\ req'[r].flow = req[r].flow /\ req'[r].provider = req[r].provider /\ req'[r].code = req[r].code
      /\ req'[r].row = code[req[r].code].state /\ req'[r].subject = req[r].subject /\ req'[r].session = req[r].session
  <2> DEFINE v == [[req[r] EXCEPT !.step = "usecode"] EXCEPT !.row = code[req[r].code].state]
  <2>1. req \in [Requests -> Request] /\ req[r] \in Request /\ code[req[r].code].state \in States
    BY <1>0 DEF TypeOK, Handlers, Providers, Code, Flow
  <2>2. /\ v \in Request
        /\ v.step = "usecode" /\ v.flow = req[r].flow /\ v.provider = req[r].provider /\ v.code = req[r].code
        /\ v.row = code[req[r].code].state /\ v.subject = req[r].subject /\ v.session = req[r].session
    BY <2>1 DEF Request, Steps, States
  <2>3. req' = [req EXCEPT ![r] = v]
    BY <2>1 DEF Request
  <2> HIDE DEF v
  <2> QED  BY <2>1, <2>2, <2>3
<1>1. TypeOK'
  BY <1>0, <1>q, BlankTyped, BoundAssumption
  DEF Inv, TypeOK, Handlers, Request, Steps, States, Flow, Code, Session, Providers
<1>2. Handlers'
  BY <1>0, <1>q DEF Handlers
<1>3. Locks'
  BY <1>q DEF Inv, Locks
<1>4. Winners'
  BY SMTT(30), <1>q DEF Inv, Winners
<1>5. Spenders'
  BY <1>0, <1>q, DistinctAssumption
  DEF Inv, TypeOK, Handlers, Spenders, Blank, Request, Providers, Locks, Winners
<1>6. Known'
  BY <1>0, <1>q, DistinctAssumption
  DEF Inv, TypeOK, Handlers, Known, Code, Session, Winners
<1>7. Owned'
  BY <1>0, <1>q, DistinctAssumption
  DEF Inv, TypeOK, Handlers, Owned, Own, Winners, Spenders, Locks, Known, Flow, Session, Providers
<1>8. Matched'
  BY <1>0, <1>q, DistinctAssumption
  DEF Inv, TypeOK, Handlers, Matched, Winners, Locks, Known
<1> QED  BY <1>1, <1>2, <1>3, <1>4, <1>5, <1>6, <1>7, <1>8 DEF Inv

LEMMA CodeUsedKeeps ==
  ASSUME Inv,
         NEW r \in Requests,
         At(r, "usecode"),
         req[r].row = "available",
         code[req[r].code].flow = req[r].flow,
         code' = [code EXCEPT ![req[r].code].state = "consumed"],
         won' = [won EXCEPT ![req[r].code] = @ + 1],
         req' = [req EXCEPT ![r].row = "absent", ![r].step = "access"],
         UNCHANGED <<now, flow, session>>
  PROVE  Inv'
<1> USE DEF At, Goto, End, Holding, Past, Exchanging, Spent
<1>0. TypeOK /\ Handlers  BY DEF Inv
<1>q. /\ \A q \in Requests : q # r => req'[q] = req[q]
      /\ req' \in [Requests -> Request]
      /\ req[r] \in Request
      /\ req'[r].step = "access"
      /\ req'[r].flow = req[r].flow /\ req'[r].provider = req[r].provider /\ req'[r].code = req[r].code
      /\ \A c \in Codes : c # req[r].code => code'[c] = code[c]
      /\ \A c \in Codes : code'[c].flow = code[c].flow /\ code'[c].subject = code[c].subject
      /\ code[req[r].code].state = "available" /\ code'[req[r].code].state = "consumed"
  BY <1>0, BlankTyped DEF TypeOK, Handlers, Blank, Inv, Locks, Request, Code, Steps, States
<1>1. TypeOK'
  BY <1>0, <1>q, BlankTyped, BoundAssumption
  DEF Inv, TypeOK, Handlers, Request, Steps, States, Flow, Code, Session, Providers
<1>2. Handlers'
  BY <1>0, <1>q, DistinctAssumption
  DEF Inv, TypeOK, Handlers, Blank, Request, Providers, Code
<1>3. Locks'
  BY <1>0, <1>q, DistinctAssumption
  DEF Inv, TypeOK, Handlers, Locks, Blank, Request, Providers
<1>4. Winners'
  BY <1>0, <1>q, DistinctAssumption
  DEF Inv, TypeOK, Handlers, Winners, Blank, Request, Providers, Flow, Session, Known
<1>5. Spenders'
  BY <1>0, <1>q, DistinctAssumption
  DEF Inv, TypeOK, Handlers, Spenders, Blank, Request, Providers, Locks, Winners
<1>6. Known'
  BY <1>0, <1>q, DistinctAssumption
  DEF Inv, TypeOK, Handlers, Known, Code, Session, Winners
<1>7. Owned'
  BY <1>0, <1>q, DistinctAssumption
  DEF Inv, TypeOK, Handlers, Owned, Own, Winners, Spenders, Locks, Known, Flow, Session, Providers
<1>8. Matched'
  BY <1>0, <1>q, DistinctAssumption
  DEF Inv, TypeOK, Handlers, Matched, Winners, Locks, Known
<1> QED  BY <1>1, <1>2, <1>3, <1>4, <1>5, <1>6, <1>7, <1>8 DEF Inv

LEMMA AccessKeeps ==
  ASSUME Inv,
         NEW r \in Requests,
         At(r, "access"),
         Goto(r, "sign"),
         UNCHANGED <<now, flow, code, won, session>>
  PROVE  Inv'
<1> USE DEF At, Goto, End, Holding, Past, Exchanging, Spent
<1>0. TypeOK /\ Handlers  BY DEF Inv
<1>q. /\ \A q \in Requests : q # r => req'[q] = req[q]
      /\ req' \in [Requests -> Request]
      /\ req[r] \in Request
      /\ req'[r].step = "sign" /\ req'[r].flow = req[r].flow /\ req'[r].provider = req[r].provider /\ req'[r].code = req[r].code
      /\ req'[r].row = req[r].row /\ req'[r].subject = req[r].subject /\ req'[r].session = req[r].session
  <2> DEFINE v == [req[r] EXCEPT !.step = "sign"]
  <2>1. req \in [Requests -> Request] /\ req[r] \in Request
    BY <1>0 DEF TypeOK, Handlers, Providers, Code, Flow
  <2>2. /\ v \in Request
        /\ v.step = "sign" /\ v.flow = req[r].flow /\ v.provider = req[r].provider /\ v.code = req[r].code
        /\ v.row = req[r].row /\ v.subject = req[r].subject /\ v.session = req[r].session
    BY <2>1 DEF Request, Steps, States
  <2>3. req' = [req EXCEPT ![r] = v]
    BY <2>1 DEF Request
  <2> HIDE DEF v
  <2> QED  BY <2>1, <2>2, <2>3
<1>1. TypeOK'
  BY <1>0, <1>q, BlankTyped, BoundAssumption
  DEF Inv, TypeOK, Handlers, Request, Steps, States, Flow, Code, Session, Providers
<1>2. Handlers'
  BY <1>0, <1>q, DistinctAssumption
  DEF Inv, TypeOK, Handlers, Blank, Request, Providers, Code
<1>3. Locks'
  BY <1>0, <1>q, DistinctAssumption
  DEF Inv, TypeOK, Handlers, Locks, Blank, Request, Providers
<1>4. Winners'
  BY <1>0, <1>q, DistinctAssumption
  DEF Inv, TypeOK, Handlers, Winners, Blank, Request, Providers, Flow, Session, Known
<1>5. Spenders'
  BY <1>0, <1>q, DistinctAssumption
  DEF Inv, TypeOK, Handlers, Spenders, Blank, Request, Providers, Locks, Winners
<1>6. Known'
  BY <1>0, <1>q, DistinctAssumption
  DEF Inv, TypeOK, Handlers, Known, Code, Session, Winners
<1>7. Owned'
  BY <1>0, <1>q, DistinctAssumption
  DEF Inv, TypeOK, Handlers, Owned, Own, Winners, Spenders, Locks, Known, Flow, Session, Providers
<1>8. Matched'
  BY <1>0, <1>q, DistinctAssumption
  DEF Inv, TypeOK, Handlers, Matched, Winners, Locks, Known
<1> QED  BY <1>1, <1>2, <1>3, <1>4, <1>5, <1>6, <1>7, <1>8 DEF Inv

Signing(r) == req' = [req EXCEPT ![r].step = "jwks", ![r].subject = code[req[r].code].subject,
                                 ![r].nonce = code[req[r].code].flow]

LEMMA TokenSignedKeeps ==
  ASSUME Inv,
         NEW r \in Requests,
         At(r, "sign"),
         Signing(r),
         UNCHANGED <<now, flow, code, won, session>>
  PROVE  Inv'
<1> USE DEF At, Goto, End, Holding, Past, Exchanging, Spent
<1>0. TypeOK /\ Handlers  BY DEF Inv
<1>q. /\ \A q \in Requests : q # r => req'[q] = req[q]
      /\ req' \in [Requests -> Request]
      /\ req[r] \in Request
      /\ req'[r].step = "jwks" /\ req'[r].flow = req[r].flow /\ req'[r].provider = req[r].provider /\ req'[r].code = req[r].code
      /\ req'[r].row = req[r].row /\ req'[r].subject = code[req[r].code].subject /\ req'[r].session = req[r].session
  <2> DEFINE v == [[[req[r] EXCEPT !.step = "jwks"] EXCEPT !.subject = code[req[r].code].subject]
                    EXCEPT !.nonce = code[req[r].code].flow]
  <2>1. req \in [Requests -> Request] /\ req[r] \in Request
        /\ code[req[r].code].subject \in People \cup {None} /\ code[req[r].code].flow \in Flows \cup {None}
    BY <1>0 DEF TypeOK, Handlers, Providers, Code, Flow
  <2>2. /\ v \in Request
        /\ v.step = "jwks" /\ v.flow = req[r].flow /\ v.provider = req[r].provider /\ v.code = req[r].code
        /\ v.row = req[r].row /\ v.subject = code[req[r].code].subject /\ v.session = req[r].session
    BY <2>1 DEF Request, Steps, States
  <2>3. req' = [req EXCEPT ![r] = v]
    BY <2>1 DEF Request, Signing
  <2> HIDE DEF v
  <2> QED  BY <2>1, <2>2, <2>3
<1>1. TypeOK'
  BY <1>0, <1>q, BlankTyped, BoundAssumption
  DEF Inv, TypeOK, Handlers, Request, Steps, States, Flow, Code, Session, Providers
<1>2. Handlers'
  BY <1>0, <1>q, DistinctAssumption
  DEF Inv, TypeOK, Handlers, Blank, Request, Providers, Code
<1>3. Locks'
  BY <1>q DEF Inv, Handlers, Locks
<1>4. Winners'
  <2>1. \A q \in Requests : req'[q].step \in Past =>
          req[q].step \in Past /\ req'[q].flow = req[q].flow /\ req'[q].provider = req[q].provider
    BY <1>q
  <2> QED  BY <1>q, <2>1 DEF Inv, Winners
<1>5. Spenders'
  BY <1>0, <1>q, DistinctAssumption
  DEF Inv, TypeOK, Handlers, Spenders, Blank, Request, Providers, Locks, Winners
<1>6. Known'
  BY <1>0, <1>q, DistinctAssumption
  DEF Inv, TypeOK, Handlers, Known, Code, Session, Winners
<1>7. Owned'
  BY <1>0, <1>q, DistinctAssumption
  DEF Inv, TypeOK, Handlers, Owned, Own, Winners, Spenders, Locks, Known, Flow, Session, Providers
<1>8. Matched'
  BY <1>0, <1>q, DistinctAssumption
  DEF Inv, TypeOK, Handlers, Matched, Winners, Locks, Known
<1> QED  BY <1>1, <1>2, <1>3, <1>4, <1>5, <1>6, <1>7, <1>8 DEF Inv

LEMMA HangUpKeeps ==
  ASSUME Inv,
         NEW r \in Requests,
         HangUp(r)
  PROVE  Inv'
<1> USE DEF HangUp, At, Goto, End, Holding, Past, Exchanging, Spent
<1>0. TypeOK /\ Handlers  BY DEF Inv
<1>q. /\ \A q \in Requests : q # r => req'[q] = req[q]
      /\ req' \in [Requests -> Request]
      /\ req[r] \in Request
      /\ req'[r].step = req[r].step /\ req'[r].flow = req[r].flow /\ req'[r].provider = req[r].provider /\ req'[r].code = req[r].code
      /\ req'[r].row = req[r].row /\ req'[r].subject = req[r].subject /\ req'[r].session = req[r].session
  <2> DEFINE v == [req[r] EXCEPT !.gone = TRUE]
  <2>1. req \in [Requests -> Request] /\ req[r] \in Request
    BY <1>0 DEF TypeOK, Handlers, Providers, Code, Flow
  <2>2. /\ v \in Request
        /\ v.step = req[r].step /\ v.flow = req[r].flow /\ v.provider = req[r].provider /\ v.code = req[r].code
        /\ v.row = req[r].row /\ v.subject = req[r].subject /\ v.session = req[r].session
    BY <2>1 DEF Request, Steps, States
  <2>3. req' = [req EXCEPT ![r] = v]
    BY <2>1 DEF Request
  <2> HIDE DEF v
  <2> QED  BY <2>1, <2>2, <2>3
<1>1. TypeOK'
  BY <1>0, <1>q, BlankTyped, BoundAssumption
  DEF Inv, TypeOK, Handlers, Request, Steps, States, Flow, Code, Session, Providers
<1>2. Handlers'
  BY <1>0, <1>q, DistinctAssumption
  DEF Inv, TypeOK, Handlers, Blank, Request, Providers, Code
<1>3. Locks'
  BY <1>0, <1>q, DistinctAssumption
  DEF Inv, TypeOK, Handlers, Locks, Blank, Request, Providers
<1>4. Winners'
  BY <1>0, <1>q, DistinctAssumption
  DEF Inv, TypeOK, Handlers, Winners, Blank, Request, Providers, Flow, Session, Known
<1>5. Spenders'
  BY <1>0, <1>q, DistinctAssumption
  DEF Inv, TypeOK, Handlers, Spenders, Blank, Request, Providers, Locks, Winners
<1>6. Known'
  BY <1>0, <1>q, DistinctAssumption
  DEF Inv, TypeOK, Handlers, Known, Code, Session, Winners
<1>7. Owned'
  BY <1>0, <1>q, DistinctAssumption
  DEF Inv, TypeOK, Handlers, Owned, Own, Winners, Spenders, Locks, Known, Flow, Session, Providers
<1>8. Matched'
  BY <1>0, <1>q, DistinctAssumption
  DEF Inv, TypeOK, Handlers, Matched, Winners, Locks, Known
<1> QED  BY <1>1, <1>2, <1>3, <1>4, <1>5, <1>6, <1>7, <1>8 DEF Inv

LEMMA TokenValidKeeps ==
  ASSUME Inv,
         NEW r \in Requests,
         At(r, "jwks"),
         req' = [req EXCEPT ![r].step = "ensure", ![r].nonce = None],
         UNCHANGED <<now, flow, code, won, session>>
  PROVE  Inv'
<1> USE DEF At, Goto, End, Holding, Past, Exchanging, Spent
<1>0. TypeOK /\ Handlers  BY DEF Inv
<1>q. /\ \A q \in Requests : q # r => req'[q] = req[q]
      /\ req' \in [Requests -> Request]
      /\ req[r] \in Request
      /\ req'[r].step = "ensure" /\ req'[r].flow = req[r].flow /\ req'[r].provider = req[r].provider /\ req'[r].code = req[r].code
      /\ req'[r].row = req[r].row /\ req'[r].subject = req[r].subject /\ req'[r].session = req[r].session
  <2> DEFINE v == [[req[r] EXCEPT !.step = "ensure"] EXCEPT !.nonce = None]
  <2>1. req \in [Requests -> Request] /\ req[r] \in Request
    BY <1>0 DEF TypeOK, Handlers, Providers, Code, Flow
  <2>2. /\ v \in Request
        /\ v.step = "ensure" /\ v.flow = req[r].flow /\ v.provider = req[r].provider /\ v.code = req[r].code
        /\ v.row = req[r].row /\ v.subject = req[r].subject /\ v.session = req[r].session
    BY <2>1 DEF Request, Steps, States
  <2>3. req' = [req EXCEPT ![r] = v]
    BY <2>1 DEF Request
  <2> HIDE DEF v
  <2> QED  BY <2>1, <2>2, <2>3
<1>1. TypeOK'
  BY <1>0, <1>q, BlankTyped, BoundAssumption
  DEF Inv, TypeOK, Handlers, Request, Steps, States, Flow, Code, Session, Providers
<1>2. Handlers'
  BY <1>0, <1>q, DistinctAssumption
  DEF Inv, TypeOK, Handlers, Blank, Request, Providers, Code
<1>3. Locks'
  BY <1>0, <1>q, DistinctAssumption
  DEF Inv, TypeOK, Handlers, Locks, Blank, Request, Providers
<1>4. Winners'
  BY <1>0, <1>q, DistinctAssumption
  DEF Inv, TypeOK, Handlers, Winners, Blank, Request, Providers, Flow, Session, Known
<1>5. Spenders'
  BY <1>0, <1>q, DistinctAssumption
  DEF Inv, TypeOK, Handlers, Spenders, Blank, Request, Providers, Locks, Winners
<1>6. Known'
  BY <1>0, <1>q, DistinctAssumption
  DEF Inv, TypeOK, Handlers, Known, Code, Session, Winners
<1>7. Owned'
  BY <1>0, <1>q, DistinctAssumption
  DEF Inv, TypeOK, Handlers, Owned, Own, Winners, Spenders, Locks, Known, Flow, Session, Providers
<1>8. Matched'
  BY <1>0, <1>q, DistinctAssumption
  DEF Inv, TypeOK, Handlers, Matched, Winners, Locks, Known
<1> QED  BY <1>1, <1>2, <1>3, <1>4, <1>5, <1>6, <1>7, <1>8 DEF Inv

LEMMA EnsuredKeeps ==
  ASSUME Inv,
         NEW r \in Requests,
         At(r, "ensure"),
         Goto(r, "issue"),
         UNCHANGED <<now, flow, code, won, session>>
  PROVE  Inv'
<1> USE DEF At, Goto, End, Holding, Past, Exchanging, Spent
<1>0. TypeOK /\ Handlers  BY DEF Inv
<1>q. /\ \A q \in Requests : q # r => req'[q] = req[q]
      /\ req' \in [Requests -> Request]
      /\ req[r] \in Request
      /\ req'[r].step = "issue" /\ req'[r].flow = req[r].flow /\ req'[r].provider = req[r].provider /\ req'[r].code = req[r].code
      /\ req'[r].row = req[r].row /\ req'[r].subject = req[r].subject /\ req'[r].session = req[r].session
  <2> DEFINE v == [req[r] EXCEPT !.step = "issue"]
  <2>1. req \in [Requests -> Request] /\ req[r] \in Request
    BY <1>0 DEF TypeOK, Handlers, Providers, Code, Flow
  <2>2. /\ v \in Request
        /\ v.step = "issue" /\ v.flow = req[r].flow /\ v.provider = req[r].provider /\ v.code = req[r].code
        /\ v.row = req[r].row /\ v.subject = req[r].subject /\ v.session = req[r].session
    BY <2>1 DEF Request, Steps, States
  <2>3. req' = [req EXCEPT ![r] = v]
    BY <2>1 DEF Request
  <2> HIDE DEF v
  <2> QED  BY <2>1, <2>2, <2>3
<1>1. TypeOK'
  BY <1>0, <1>q, BlankTyped, BoundAssumption
  DEF Inv, TypeOK, Handlers, Request, Steps, States, Flow, Code, Session, Providers
<1>2. Handlers'
  BY <1>0, <1>q, DistinctAssumption
  DEF Inv, TypeOK, Handlers, Blank, Request, Providers, Code
<1>3. Locks'
  BY <1>0, <1>q, DistinctAssumption
  DEF Inv, TypeOK, Handlers, Locks, Blank, Request, Providers
<1>4. Winners'
  BY <1>0, <1>q, DistinctAssumption
  DEF Inv, TypeOK, Handlers, Winners, Blank, Request, Providers, Flow, Session, Known
<1>5. Spenders'
  BY <1>0, <1>q, DistinctAssumption
  DEF Inv, TypeOK, Handlers, Spenders, Blank, Request, Providers, Locks, Winners
<1>6. Known'
  BY <1>0, <1>q, DistinctAssumption
  DEF Inv, TypeOK, Handlers, Known, Code, Session, Winners
<1>7. Owned'
  BY <1>0, <1>q, DistinctAssumption
  DEF Inv, TypeOK, Handlers, Owned, Own, Winners, Spenders, Locks, Known, Flow, Session, Providers
<1>8. Matched'
  BY <1>0, <1>q, DistinctAssumption
  DEF Inv, TypeOK, Handlers, Matched, Winners, Locks, Known
<1> QED  BY <1>1, <1>2, <1>3, <1>4, <1>5, <1>6, <1>7, <1>8 DEF Inv

LEMMA IssuedKeeps ==
  ASSUME Inv,
         NEW r \in Requests,
         NEW k \in Sessions,
         At(r, "issue"),
         session[k].state = "absent",
         session' = [session EXCEPT ![k] = [state |-> "issued", live |-> TRUE, subject |-> req[r].subject,
                                           flow |-> req[r].flow, code |-> req[r].code]],
         req' = [req EXCEPT ![r] = [Blank EXCEPT !.step = "finish", !.session = k]],
         UNCHANGED <<now, flow, code, won>>
  PROVE  Inv'
<1> USE DEF At, Goto, End, Holding, Past, Exchanging, Spent
<1>0. TypeOK /\ Handlers  BY DEF Inv
<1>q. /\ \A q \in Requests : q # r => req'[q] = req[q]
      /\ req' \in [Requests -> Request]
      /\ req[r] \in Request
      /\ req'[r].step = "finish" /\ req'[r].session = k
      /\ \A j \in Sessions : j # k => session'[j] = session[j]
      /\ session'[k] = [state |-> "issued", live |-> TRUE, subject |-> req[r].subject, flow |-> req[r].flow, code |-> req[r].code]
      /\ session' \in [Sessions -> Session]
  BY ZenonT(60), <1>0, BlankTyped DEF TypeOK, Handlers, Blank, Request, Steps, States, Session
<1>1. TypeOK'
  BY <1>0, <1>q, BlankTyped, BoundAssumption
  DEF Inv, TypeOK, Handlers, Request, Steps, States, Flow, Code, Session, Providers
<1>2. Handlers'
  BY <1>0, <1>q, DistinctAssumption
  DEF Inv, TypeOK, Handlers, Blank, Request, Providers, Code
<1>3. Locks'
  BY <1>0, <1>q, DistinctAssumption
  DEF Inv, TypeOK, Handlers, Locks, Blank, Request, Providers
<1>4. Winners'
  BY <1>0, <1>q, DistinctAssumption
  DEF Inv, TypeOK, Handlers, Winners, Blank, Request, Providers, Flow, Session, Known
<1>5. Spenders'
  BY <1>0, <1>q, DistinctAssumption
  DEF Inv, TypeOK, Handlers, Spenders, Blank, Request, Providers, Locks, Winners
<1>6. Known'
  BY <1>0, <1>q, DistinctAssumption
  DEF Inv, TypeOK, Handlers, Known, Code, Session, Winners
<1>7. Owned'
  BY <1>0, <1>q, DistinctAssumption
  DEF Inv, TypeOK, Handlers, Owned, Own, Winners, Spenders, Locks, Known, Flow, Session, Providers
<1>8. Matched'
  BY <1>0, <1>q, DistinctAssumption
  DEF Inv, TypeOK, Handlers, Matched, Winners, Locks, Known
<1> QED  BY <1>1, <1>2, <1>3, <1>4, <1>5, <1>6, <1>7, <1>8 DEF Inv

LEMMA KeptKeeps ==
  ASSUME Inv,
         NEW r \in Requests,
         At(r, "finish"),
         session' = [session EXCEPT ![req[r].session].state = "kept"],
         End(r),
         UNCHANGED <<now, flow, code, won>>
  PROVE  Inv'
<1> USE DEF At, Goto, End, Holding, Past, Exchanging, Spent
<1>0. TypeOK /\ Handlers  BY DEF Inv
<1>q. /\ \A q \in Requests : q # r => req'[q] = req[q]
      /\ req' \in [Requests -> Request]
      /\ req[r] \in Request
      /\ req'[r].step = "idle"
      /\ session' \in [Sessions -> Session]
      /\ \A j \in Sessions : session'[j].flow = session[j].flow /\ session'[j].code = session[j].code /\ session'[j].subject = session[j].subject
      /\ \A j \in Sessions : session'[j].state = "absent" <=> session[j].state = "absent"
      /\ \A j \in Sessions : session'[j].state = "refused" =>
           ~session'[j].live \/ (session[j].state = "refused" /\ session'[j] = session[j])
  BY <1>0, BlankTyped DEF TypeOK, Handlers, Blank, Request, Session
<1>1. TypeOK'
  BY <1>0, <1>q, BlankTyped, BoundAssumption
  DEF Inv, TypeOK, Handlers, Request, Steps, States, Flow, Code, Session, Providers
<1>2. Handlers'
  BY <1>0, <1>q, DistinctAssumption
  DEF Inv, TypeOK, Handlers, Blank, Request, Providers, Code
<1>3. Locks'
  BY <1>0, <1>q, DistinctAssumption
  DEF Inv, TypeOK, Handlers, Locks, Blank, Request, Providers
<1>4. Winners'
  BY <1>0, <1>q, DistinctAssumption
  DEF Inv, TypeOK, Handlers, Winners, Blank, Request, Providers, Flow, Session, Known
<1>5. Spenders'
  BY <1>0, <1>q, DistinctAssumption
  DEF Inv, TypeOK, Handlers, Spenders, Blank, Request, Providers, Locks, Winners
<1>6. Known'
  BY <1>0, <1>q, DistinctAssumption
  DEF Inv, TypeOK, Handlers, Known, Code, Session, Winners
<1>7. Owned'
  BY <1>q, SessionsKept
<1>8. Matched'
  BY <1>0, <1>q, DistinctAssumption
  DEF Inv, TypeOK, Handlers, Matched, Winners, Locks, Known
<1> QED  BY <1>1, <1>2, <1>3, <1>4, <1>5, <1>6, <1>7, <1>8 DEF Inv

LEMMA RefusingKeeps ==
  ASSUME Inv,
         NEW r \in Requests,
         At(r, "finish"),
         Goto(r, "rollback"),
         UNCHANGED <<now, flow, code, won, session>>
  PROVE  Inv'
<1> USE DEF At, Goto, End, Holding, Past, Exchanging, Spent
<1>0. TypeOK /\ Handlers  BY DEF Inv
<1>q. /\ \A q \in Requests : q # r => req'[q] = req[q]
      /\ req' \in [Requests -> Request]
      /\ req[r] \in Request
      /\ req'[r].step = "rollback" /\ req'[r].flow = req[r].flow /\ req'[r].provider = req[r].provider /\ req'[r].code = req[r].code
      /\ req'[r].row = req[r].row /\ req'[r].subject = req[r].subject /\ req'[r].session = req[r].session
  <2> DEFINE v == [req[r] EXCEPT !.step = "rollback"]
  <2>1. req \in [Requests -> Request] /\ req[r] \in Request
    BY <1>0 DEF TypeOK, Handlers, Providers, Code, Flow
  <2>2. /\ v \in Request
        /\ v.step = "rollback" /\ v.flow = req[r].flow /\ v.provider = req[r].provider /\ v.code = req[r].code
        /\ v.row = req[r].row /\ v.subject = req[r].subject /\ v.session = req[r].session
    BY <2>1 DEF Request, Steps, States
  <2>3. req' = [req EXCEPT ![r] = v]
    BY <2>1 DEF Request
  <2> HIDE DEF v
  <2> QED  BY <2>1, <2>2, <2>3
<1>1. TypeOK'
  BY <1>0, <1>q, BlankTyped, BoundAssumption
  DEF Inv, TypeOK, Handlers, Request, Steps, States, Flow, Code, Session, Providers
<1>2. Handlers'
  BY <1>0, <1>q, DistinctAssumption
  DEF Inv, TypeOK, Handlers, Blank, Request, Providers, Code
<1>3. Locks'
  BY <1>0, <1>q, DistinctAssumption
  DEF Inv, TypeOK, Handlers, Locks, Blank, Request, Providers
<1>4. Winners'
  BY <1>0, <1>q, DistinctAssumption
  DEF Inv, TypeOK, Handlers, Winners, Blank, Request, Providers, Flow, Session, Known
<1>5. Spenders'
  BY <1>0, <1>q, DistinctAssumption
  DEF Inv, TypeOK, Handlers, Spenders, Blank, Request, Providers, Locks, Winners
<1>6. Known'
  BY <1>0, <1>q, DistinctAssumption
  DEF Inv, TypeOK, Handlers, Known, Code, Session, Winners
<1>7. Owned'
  BY <1>0, <1>q, DistinctAssumption
  DEF Inv, TypeOK, Handlers, Owned, Own, Winners, Spenders, Locks, Known, Flow, Session, Providers
<1>8. Matched'
  BY <1>0, <1>q, DistinctAssumption
  DEF Inv, TypeOK, Handlers, Matched, Winners, Locks, Known
<1> QED  BY <1>1, <1>2, <1>3, <1>4, <1>5, <1>6, <1>7, <1>8 DEF Inv

LEMMA RollbackKeeps ==
  ASSUME Inv,
         NEW r \in Requests,
         Rollback(r)
  PROVE  Inv'
<1> USE DEF Rollback, At, Goto, End, Holding, Past, Exchanging, Spent
<1>0. TypeOK /\ Handlers  BY DEF Inv
<1>q. /\ \A q \in Requests : q # r => req'[q] = req[q]
      /\ req' \in [Requests -> Request]
      /\ req[r] \in Request
      /\ req'[r].step = "idle"
      /\ session' \in [Sessions -> Session]
      /\ \A j \in Sessions : session'[j].flow = session[j].flow /\ session'[j].code = session[j].code /\ session'[j].subject = session[j].subject
      /\ \A j \in Sessions : session'[j].state = "absent" <=> session[j].state = "absent"
      /\ \A j \in Sessions : session'[j].state = "refused" =>
           ~session'[j].live \/ (session[j].state = "refused" /\ session'[j] = session[j])
  <2>1. /\ \A q \in Requests : q # r => req'[q] = req[q]
        /\ req' \in [Requests -> Request]
        /\ req[r] \in Request
        /\ req'[r].step = "idle"
    BY <1>0, BlankTyped DEF TypeOK, Handlers, Blank
  <2>2. session' \in [Sessions -> Session]
    <3>1. CASE session' = session  BY <1>0, <3>1 DEF TypeOK
    <3>2. CASE session' = [session EXCEPT ![req[r].session].state = "refused",
                                          ![req[r].session].live = FALSE]
      <4>1. PICK k : k = req[r].session  OBVIOUS
      <4>2. PICK s : s = [session EXCEPT ![k].state = "refused"]  OBVIOUS
      <4>3. s \in [Sessions -> Session]  BY ZenonT(60), <1>0, <4>2 DEF TypeOK, Session
      <4>4. session' = [s EXCEPT ![k].live = FALSE]  BY <3>2, <4>1, <4>2
      <4> QED  BY <4>3, <4>4 DEF Session
    <3> QED  BY <3>1, <3>2
  <2>3. ASSUME NEW j \in Sessions
        PROVE  /\ session'[j].flow = session[j].flow /\ session'[j].code = session[j].code
               /\ session'[j].subject = session[j].subject
               /\ session'[j].state = "absent" <=> session[j].state = "absent"
               /\ session'[j].state = "refused" =>
                    ~session'[j].live \/ (session[j].state = "refused" /\ session'[j] = session[j])
    BY <1>0 DEF TypeOK, Handlers, Session
  <2> QED  BY <2>1, <2>2, <2>3
<1>1. TypeOK'
  BY <1>0, <1>q, BlankTyped, BoundAssumption
  DEF Inv, TypeOK, Handlers, Request, Steps, States, Flow, Code, Session, Providers
<1>2. Handlers'
  BY <1>0, <1>q, DistinctAssumption
  DEF Inv, TypeOK, Handlers, Blank, Request, Providers, Code
<1>3. Locks'
  BY <1>0, <1>q, DistinctAssumption
  DEF Inv, TypeOK, Handlers, Locks, Blank, Request, Providers
<1>4. Winners'
  BY <1>0, <1>q, DistinctAssumption
  DEF Inv, TypeOK, Handlers, Winners, Blank, Request, Providers, Flow, Session, Known
<1>5. Spenders'
  BY <1>0, <1>q, DistinctAssumption
  DEF Inv, TypeOK, Handlers, Spenders, Blank, Request, Providers, Locks, Winners
<1>6. Known'
  BY <1>0, <1>q, DistinctAssumption
  DEF Inv, TypeOK, Handlers, Known, Code, Session, Winners
<1>7. Owned'
  BY <1>q, SessionsKept
<1>8. Matched'
  BY <1>0, <1>q, DistinctAssumption
  DEF Inv, TypeOK, Handlers, Matched, Winners, Locks, Known
<1> QED  BY <1>1, <1>2, <1>3, <1>4, <1>5, <1>6, <1>7, <1>8 DEF Inv

LEMMA LogoutKeeps ==
  ASSUME Inv,
         NEW k \in Sessions,
         Logout(k)
  PROVE  Inv'
<1> USE DEF Logout, At, Goto, End, Holding, Past, Exchanging, Spent
<1>0. TypeOK /\ Handlers  BY DEF Inv
<1>q. /\ session' \in [Sessions -> Session]
      /\ \A j \in Sessions : session'[j].flow = session[j].flow /\ session'[j].code = session[j].code /\ session'[j].subject = session[j].subject
      /\ \A j \in Sessions : session'[j].state = "absent" <=> session[j].state = "absent"
      /\ \A j \in Sessions : session'[j].state = "refused" =>
           ~session'[j].live \/ (session[j].state = "refused" /\ session'[j] = session[j])
  BY <1>0 DEF TypeOK, Session
<1>1. TypeOK'
  BY <1>0, <1>q, BlankTyped, BoundAssumption
  DEF Inv, TypeOK, Handlers, Request, Steps, States, Flow, Code, Session, Providers
<1>2. Handlers'
  BY <1>0, <1>q, DistinctAssumption
  DEF Inv, TypeOK, Handlers, Blank, Request, Providers, Code
<1>3. Locks'
  BY <1>0, <1>q, DistinctAssumption
  DEF Inv, TypeOK, Handlers, Locks, Blank, Request, Providers
<1>4. Winners'
  BY <1>0, <1>q, DistinctAssumption
  DEF Inv, TypeOK, Handlers, Winners, Blank, Request, Providers, Flow, Session, Known
<1>5. Spenders'
  BY <1>0, <1>q, DistinctAssumption
  DEF Inv, TypeOK, Handlers, Spenders, Blank, Request, Providers, Locks, Winners
<1>6. Known'
  BY <1>0, <1>q, DistinctAssumption
  DEF Inv, TypeOK, Handlers, Known, Code, Session, Winners
<1>7. Owned'
  BY <1>q, SessionsKept
<1>8. Matched'
  BY <1>0, <1>q, DistinctAssumption
  DEF Inv, TypeOK, Handlers, Matched, Winners, Locks, Known
<1> QED  BY <1>1, <1>2, <1>3, <1>4, <1>5, <1>6, <1>7, <1>8 DEF Inv

LEMMA RestartKeeps ==
  ASSUME Inv,
         Restart
  PROVE  Inv'
<1> USE DEF Restart, At, Goto, End, Holding, Past, Exchanging, Spent
<1>0. TypeOK /\ Handlers  BY DEF Inv
<1>1. TypeOK'
  BY <1>0, BlankTyped, BoundAssumption
  DEF Inv, TypeOK, Handlers, Request, Steps, States, Flow, Code, Session, Providers
<1>2. Handlers'
  BY <1>0, DistinctAssumption
  DEF Inv, TypeOK, Handlers, Blank, Request, Providers, Code
<1>3. Locks'
  BY <1>0, DistinctAssumption
  DEF Inv, TypeOK, Handlers, Locks, Blank, Request, Providers
<1>4. Winners'
  BY <1>0, DistinctAssumption
  DEF Inv, TypeOK, Handlers, Winners, Blank, Request, Providers, Flow, Session, Known
<1>5. Spenders'
  BY <1>0, DistinctAssumption
  DEF Inv, TypeOK, Handlers, Spenders, Blank, Request, Providers, Locks, Winners
<1>6. Known'
  BY <1>0, DistinctAssumption
  DEF Inv, TypeOK, Handlers, Known, Code, Session, Winners
<1>7. Owned'
  BY <1>0, DistinctAssumption
  DEF Inv, TypeOK, Handlers, Owned, Own, Winners, Spenders, Locks, Known, Flow, Session, Providers
<1>8. Matched'
  BY <1>0, DistinctAssumption
  DEF Inv, TypeOK, Handlers, Matched, Winners, Locks, Known
<1> QED  BY <1>1, <1>2, <1>3, <1>4, <1>5, <1>6, <1>7, <1>8 DEF Inv

LEMMA TickKeeps ==
  ASSUME Inv,
         Tick
  PROVE  Inv'
<1> USE DEF Tick, At, Goto, End, Holding, Past, Exchanging, Spent
<1>0. TypeOK /\ Handlers  BY DEF Inv
<1>1. TypeOK'
  BY <1>0, BlankTyped, BoundAssumption
  DEF Inv, TypeOK, Handlers, Request, Steps, States, Flow, Code, Session, Providers
<1>2. Handlers'
  BY <1>0, DistinctAssumption
  DEF Inv, TypeOK, Handlers, Blank, Request, Providers, Code
<1>3. Locks'
  BY <1>0, DistinctAssumption
  DEF Inv, TypeOK, Handlers, Locks, Blank, Request, Providers
<1>4. Winners'
  BY <1>0, DistinctAssumption
  DEF Inv, TypeOK, Handlers, Winners, Blank, Request, Providers, Flow, Session, Known
<1>5. Spenders'
  BY <1>0, DistinctAssumption
  DEF Inv, TypeOK, Handlers, Spenders, Blank, Request, Providers, Locks, Winners
<1>6. Known'
  BY <1>0, DistinctAssumption
  DEF Inv, TypeOK, Handlers, Known, Code, Session, Winners
<1>7. Owned'
  BY <1>0, DistinctAssumption
  DEF Inv, TypeOK, Handlers, Owned, Own, Winners, Spenders, Locks, Known, Flow, Session, Providers
<1>8. Matched'
  BY <1>0, DistinctAssumption
  DEF Inv, TypeOK, Handlers, Matched, Winners, Locks, Known
<1> QED  BY <1>1, <1>2, <1>3, <1>4, <1>5, <1>6, <1>7, <1>8 DEF Inv

LEMMA StutterKeeps ==
  ASSUME Inv,
         UNCHANGED vars
  PROVE  Inv'
<1> USE DEF vars, At, Goto, End, Holding, Past, Exchanging, Spent
<1>0. TypeOK /\ Handlers  BY DEF Inv
<1>1. TypeOK'
  BY <1>0, BlankTyped, BoundAssumption
  DEF Inv, TypeOK, Handlers, Request, Steps, States, Flow, Code, Session, Providers
<1>2. Handlers'
  BY <1>0, DistinctAssumption
  DEF Inv, TypeOK, Handlers, Blank, Request, Providers, Code
<1>3. Locks'
  BY <1>0, DistinctAssumption
  DEF Inv, TypeOK, Handlers, Locks, Blank, Request, Providers
<1>4. Winners'
  BY <1>0, DistinctAssumption
  DEF Inv, TypeOK, Handlers, Winners, Blank, Request, Providers, Flow, Session, Known
<1>5. Spenders'
  BY <1>0, DistinctAssumption
  DEF Inv, TypeOK, Handlers, Spenders, Blank, Request, Providers, Locks, Winners
<1>6. Known'
  BY <1>0, DistinctAssumption
  DEF Inv, TypeOK, Handlers, Known, Code, Session, Winners
<1>7. Owned'
  BY <1>0, DistinctAssumption
  DEF Inv, TypeOK, Handlers, Owned, Own, Winners, Spenders, Locks, Known, Flow, Session, Providers
<1>8. Matched'
  BY <1>0, DistinctAssumption
  DEF Inv, TypeOK, Handlers, Matched, Winners, Locks, Known
<1> QED  BY <1>1, <1>2, <1>3, <1>4, <1>5, <1>6, <1>7, <1>8 DEF Inv

LEMMA InvInit == Init => Inv
BY BoundAssumption, DistinctAssumption
DEF Init, Inv, TypeOK, Handlers, Locks, Winners, Spenders, Known, Owned, Matched, Blank, Request, Steps, States,
    Flow, NoFlow, Code, NoCode, Session, NoSession, At, Holding, Past, Exchanging, Spent

LEMMA InvNext == Inv /\ [Next]_vars => Inv'
<1> SUFFICES ASSUME Inv, [Next]_vars PROVE Inv'  OBVIOUS
<1>1. ASSUME NEW r \in Requests, UseFlow(r) PROVE Inv'
  BY <1>1, FlowUsedKeeps, EndKeeps DEF UseFlow
<1>2. ASSUME NEW r \in Requests, UseCode(r) PROVE Inv'
  BY <1>2, CodeUsedKeeps, EndKeeps DEF UseCode
<1>3. ASSUME NEW r \in Requests, SignToken(r) PROVE Inv'
  BY <1>3, TokenSignedKeeps, EndKeeps DEF SignToken, Signing
<1>4. ASSUME NEW r \in Requests, ValidateToken(r) PROVE Inv'
  BY <1>4, TokenValidKeeps, EndKeeps DEF ValidateToken
<1>5. ASSUME NEW r \in Requests, IssueSession(r) PROVE Inv'
  BY <1>5, IssuedKeeps DEF IssueSession
<1>6. ASSUME NEW r \in Requests, Abandon(r) PROVE Inv'
  BY <1>6, EndKeeps DEF Abandon
<1>a. ASSUME NEW r \in Requests, LoadProfile(r) \/ IssueAccess(r) \/ EnsureIdentity(r) PROVE Inv'
  BY <1>a, ProfileKeeps, AccessKeeps, EnsuredKeeps, EndKeeps DEF LoadProfile, IssueAccess, EnsureIdentity
<1>b. ASSUME NEW r \in Requests, Finish(r) PROVE Inv'
  BY <1>b, KeptKeeps, RefusingKeeps DEF Finish
<1>c. ASSUME NEW r \in Requests, LockFlow(r) PROVE Inv'
  BY <1>c, LockConsumeKeeps, LockRevokeKeeps DEF LockFlow, At
<1>7. ASSUME NEW r \in Requests, FlowStore(r) PROVE Inv'
  BY <1>1, <1>7, <1>c, RevokeKeeps, CreateFlowKeeps, RevokeFlowKeeps DEF FlowStore
<1>8. ASSUME NEW r \in Requests, Provider(r) PROVE Inv'
  BY <1>2, <1>3, <1>8, <1>a, AuthorizeKeeps, MintCodeKeeps, LockCodeKeeps DEF Provider
<1>9. ASSUME NEW r \in Requests, Client(r) PROVE Inv'
  BY <1>4, <1>5, <1>9, <1>a, <1>b, StartKeeps, CallbackKeeps, HangUpKeeps, RollbackKeeps DEF Client
<1> QED
  BY <1>6, <1>7, <1>8, <1>9, LogoutKeeps, RestartKeeps, TickKeeps, StutterKeeps DEF Next

LEMMA InvAlways == Spec => []Inv
BY InvInit, InvNext, PTL DEF Spec

(* The state of flows, codes, sessions and handlers stays well typed.      *)
THEOREM TypesHold == Spec => []TypeOK
<1>1. Inv => TypeOK  BY DEF Inv
<1> QED  BY <1>1, InvAlways, PTL

(* A login is that of the person who authorized its flow, it is the only   *)
(* one of the flow, and a refused one leaves no session.                   *)
THEOREM LoginIsOwnHolds == Spec => []LoginIsOwn
<1>1. Inv => LoginIsOwn  BY DEF Inv, LoginIsOwn, Owned, Own, Matched
<1> QED  BY <1>1, InvAlways, PTL

-----------------------------------------------------------------------------
(* Flows and codes implement OneShot.                                      *)

Tickets == Flows \cup Codes

LEMMA TicketOf ==
  /\ \A f \in Flows : Ticket[f] = flow[f].state
  /\ \A c \in Codes : Ticket[c] = code[c].state
  /\ DOMAIN Ticket = Tickets
BY DistinctAssumption DEF Ticket, Tickets

LEMMA OnceInit == Init => Once!Init
BY DEF Init, Once!Init, Ticket, NoFlow, NoCode

(* One row moves from one state to another, and all others stay.           *)
LEMMA FlowMoves ==
  ASSUME TypeOK, NEW f \in Flows, NEW from, NEW to, flow[f].state = from,
         flow' \in [Flows -> Flow], flow'[f].state = to,
         \A g \in Flows : g # f => flow'[g] = flow[g], UNCHANGED code
  PROVE  Once!Move(f, from, to)
<1>1. \A t \in Flows \cup Codes : Ticket'[t] = IF t = f THEN to ELSE Ticket[t]
  BY DistinctAssumption DEF Ticket
<1> QED  BY <1>1 DEF Once!Move, Ticket

LEMMA CodeMoves ==
  ASSUME TypeOK, NEW c \in Codes, NEW from, NEW to, code[c].state = from,
         code' \in [Codes -> Code], code'[c].state = to,
         \A d \in Codes : d # c => code'[d] = code[d], UNCHANGED flow
  PROVE  Once!Move(c, from, to)
<1>1. \A t \in Flows \cup Codes : Ticket'[t] = IF t = c THEN to ELSE Ticket[t]
  BY DistinctAssumption DEF Ticket
<1> QED  BY <1>1, DistinctAssumption DEF Once!Move, Ticket

LEMMA Stays ==
  ASSUME UNCHANGED <<flow, code, won>>
  PROVE  UNCHANGED Once!vars
BY DEF Once!vars, Ticket

LEMMA OnceNext == Inv /\ [Next]_vars => [Once!Next]_Once!vars
<1> SUFFICES ASSUME Inv, [Next]_vars PROVE [Once!Next]_Once!vars  OBVIOUS
<1>0. TypeOK /\ Handlers /\ Locks  BY DEF Inv
<1>1. ASSUME NEW r \in Requests, CreateFlow(r) PROVE [Once!Next]_Once!vars
  <2>1. CASE flow' = flow  BY <1>1, <2>1, Stays DEF CreateFlow
  <2>2. CASE flow' # flow
    <3>1. PICK f \in Flows :
            /\ flow[f].state = "absent"
            /\ flow' = [flow EXCEPT ![f] = [state |-> "available", provider |-> req[r].provider,
                                            expires |-> req[r].expires]]
      BY <1>1, <2>2 DEF CreateFlow
    <3>2. flow' \in [Flows -> Flow]
      BY <1>0, <1>1, <3>1, CreateFlowKeeps DEF Inv, TypeOK
    <3>3. Once!Move(f, "absent", "available")
      BY <1>0, <1>1, <3>1, <3>2, FlowMoves DEF CreateFlow, TypeOK
    <3> QED  BY <1>1, <3>3 DEF CreateFlow, Once!Next, Once!Create
  <2> QED  BY <2>1, <2>2
<1>2. ASSUME NEW r \in Requests, MintCode(r) PROVE [Once!Next]_Once!vars
  <2>1. PICK c \in Codes :
          /\ code[c].state = "absent"
          /\ code' = [code EXCEPT ![c] = [state |-> "available", subject |-> req[r].subject,
                                          flow |-> req[r].flow, expires |-> now + CodeTtl]]
    BY <1>2 DEF MintCode
  <2>2. code' \in [Codes -> Code]
    BY <1>2, MintCodeKeeps DEF Inv, TypeOK
  <2>3. Once!Move(c, "absent", "available")
    BY <1>0, <1>2, <2>1, <2>2, CodeMoves DEF MintCode, TypeOK
  <2> QED  BY <1>2, <2>3 DEF MintCode, Once!Next, Once!Create
<1>3. ASSUME NEW r \in Requests, RevokeFlow(r) PROVE [Once!Next]_Once!vars
  <2>1. CASE ~Usable(r)  BY <1>3, <2>1, Stays DEF RevokeFlow
  <2>2. CASE Usable(r)
    <3> DEFINE f == req[r].flow
    <3>1. f \in Flows /\ flow[f].state = "available"
      BY <1>0, <1>3, <2>2 DEF RevokeFlow, Usable, Handlers, Locks, Holding, At
    <3>2. flow' = [flow EXCEPT ![f].state = "revoked"]
      BY <1>3, <2>2 DEF RevokeFlow
    <3>3. flow' \in [Flows -> Flow]
      BY <1>3, RevokeFlowKeeps DEF Inv, TypeOK
    <3>4. Once!Move(f, "available", "revoked")
      BY <1>0, <1>3, <3>1, <3>2, <3>3, FlowMoves DEF RevokeFlow, TypeOK, Flow
    <3> QED  BY <1>3, <3>1, <3>4 DEF RevokeFlow, Once!Next, Once!Revoke
  <2> QED  BY <2>1, <2>2
<1>4. ASSUME NEW r \in Requests, UseFlow(r) PROVE [Once!Next]_Once!vars
  <2>1. CASE ~Usable(r)  BY <1>4, <2>1, Stays DEF UseFlow
  <2>2. CASE Usable(r)
    <3> DEFINE f == req[r].flow
    <3>1. f \in Flows /\ flow[f].state = "available"
      BY <1>0, <1>4, <2>2 DEF UseFlow, Usable, Handlers, Locks, Holding, At
    <3>2. flow' = [flow EXCEPT ![f].state = "consumed"]
      BY <1>4, <2>2 DEF UseFlow
    <3>3. flow' \in [Flows -> Flow]
      BY <1>0, <3>2 DEF TypeOK, Flow, States
    <3>4. Once!Move(f, "available", "consumed")
      BY <1>0, <1>4, <3>1, <3>2, <3>3, FlowMoves DEF UseFlow, TypeOK, Flow
    <3>5. won' = [won EXCEPT ![f] = @ + 1]  BY <1>4, <2>2 DEF UseFlow
    <3> QED  BY <3>1, <3>4, <3>5 DEF Once!Next, Once!Consume
  <2> QED  BY <2>1, <2>2
<1>5. ASSUME NEW r \in Requests, UseCode(r) PROVE [Once!Next]_Once!vars
  <2> DEFINE c == req[r].code
             Fit == req[r].row = "available" /\ code[c].expires > now /\ code[c].flow = req[r].flow
  <2>1. CASE ~Fit  BY <1>5, <2>1, Stays DEF UseCode
  <2>2. CASE Fit
    <3>1. c \in Codes /\ code[c].state = "available"
      BY <1>0, <1>5, <2>2 DEF UseCode, Handlers, Locks, At, Past, Exchanging
    <3>2. code' = [code EXCEPT ![c].state = "consumed"]
      BY <1>5, <2>2 DEF UseCode
    <3>3. code' \in [Codes -> Code]
      BY <1>0, <3>2 DEF TypeOK, Code, States
    <3>4. Once!Move(c, "available", "consumed")
      BY <1>0, <1>5, <3>1, <3>2, <3>3, CodeMoves DEF UseCode, TypeOK, Code
    <3>5. won' = [won EXCEPT ![c] = @ + 1]  BY <1>5, <2>2 DEF UseCode
    <3> QED  BY <3>1, <3>4, <3>5 DEF Once!Next, Once!Consume
  <2> QED  BY <2>1, <2>2
<1>6. CASE UNCHANGED <<flow, code, won>>  BY SMTT(40), <1>6, Stays
<1>7. \/ UNCHANGED <<flow, code, won>>
      \/ \E r \in Requests :
           CreateFlow(r) \/ MintCode(r) \/ RevokeFlow(r) \/ UseFlow(r) \/ UseCode(r)
  BY ZenonT(60) DEF Next, FlowStore, Provider, Client, Start, Authorize, Revoke, Callback, LockFlow, LoadProfile,
         LockCode, IssueAccess, SignToken, HangUp, ValidateToken, EnsureIdentity, IssueSession,
         Finish, Rollback, Logout, Abandon, Restart, Tick, vars
<1> QED  BY <1>1, <1>2, <1>3, <1>4, <1>5, <1>6, <1>7

(* Each flow and each code is handed out once or revoked, to one caller,   *)
(* whatever fails around it.                                               *)
THEOREM OneShotImplemented == Spec => ImplementsOneShot
BY InvAlways, OnceInit, OnceNext, PTL DEF Spec, ImplementsOneShot, Once!Spec
=============================================================================
