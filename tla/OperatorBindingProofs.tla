------------------------- MODULE OperatorBindingProofs -------------------------
(***************************************************************************)
(* Proofs about OperatorBinding, for all configurations, operators and     *)
(* handlers, for any life of a control assertion and any length of the     *)
(* audit log.                                                              *)
(***************************************************************************)
EXTENDS OperatorBinding, TLAPS

-----------------------------------------------------------------------------
(* The inductive invariant: the shape of the row, what the audit log says  *)
(* of it, and what a handler knows at each of its steps.                   *)

RowShape ==
  /\ binding.status = "absent" => binding.revision = 0 /\ binding.intent = None
  /\ binding.status \in {"pending", "active"} => binding.revision = 1
  /\ binding.status = "revoked" <=> binding.revocation # "none"
  /\ binding.status \in {"absent", "pending"} => binding.audit = None
  /\ binding.status = "active" => binding.audit # None /\ binding.intent # None

LogShape ==
  /\ \A i, j \in Applied : i = j
  /\ \A i \in Applied : log[i].intent = binding.intent /\ binding.intent # None
  /\ binding.audit # None => binding.audit \in Applied

(* An intent and an audit event that a handler has read are for good; the  *)
(* operator whom a revocation names is the one who denied; a session that  *)
(* was presented after the denial gets no further than the row; and a      *)
(* control assertion ends with the window.                                 *)
Knows(q) ==
  /\ q.row.intent # None => binding.intent = q.row.intent
  /\ q.row.audit # None => binding.audit = q.row.audit
  /\ q.step \in {"act", "audit", "activate", "write"} => q.row.intent # None
  /\ q.step \in {"activate", "write", "reread"} => q.stage = "recheck"
  /\ q.stage \in {"recheck", "receipt"} => q.audit \in Applied
  /\ q.step = "told" => binding.audit \in Applied
  /\ q.step \in {"cleanup", "log", "complete"} =>
       q.stage = None /\ binding.status = "revoked" /\ q.row.by = binding.by
  /\ q.ok => cleaned
  /\ q.step = "complete" =>
       /\ cleaned /\ q.audit \in DOMAIN log
       /\ log[q.audit].action = "revoked" /\ log[q.audit].by = q.row.by
  /\ q.step \in {"source", "insert"} => q.row.revision = 1
  /\ q.late => q.step = "admit" /\ binding.status = "revoked"
  /\ q.mint <= config.window

Handlers == \A r \in Requests : Knows(req[r])

World == RowShape /\ LogShape /\ SettledHonestly

Inv == TypeOK /\ World /\ Handlers

-----------------------------------------------------------------------------
(* What every step but a restart keeps, and so what a handler knows keeps. *)

Kept ==
  /\ binding.intent # None => binding'.intent = binding.intent
  /\ binding.audit # None => binding'.audit = binding.audit
  /\ binding.status = "revoked" => binding'.status = "revoked" /\ binding'.by = binding.by
  /\ \A i \in DOMAIN log : i \in DOMAIN log' /\ log'[i] = log[i]
  /\ cleaned => cleaned'
  /\ config' = config

LEMMA WindowIsTime == ASSUME TypeOK PROVE config.window \in Nat /\ config.plan \in Plans
BY ConfigAssumption DEF TypeOK

LEMMA BlankTyped == Blank \in Request /\ NoRow \in Row
BY DEF Blank, Request, Steps, Stages, NoRow, Row

LEMMA BlankKnows == ASSUME TypeOK PROVE Knows(Blank)
<1>1. config.window \in Nat  BY WindowIsTime
<1>2. /\ Blank.row.intent = None /\ Blank.row.audit = None /\ Blank.step = "idle"
      /\ Blank.stage = None /\ Blank.late = FALSE /\ Blank.mint = 0 /\ Blank.ok = FALSE
  BY DEF Blank, NoRow
<1>3. Blank.stage \notin {"recheck", "receipt"}  BY <1>2, AbsentAssumption DEF Stages
<1> QED  BY <1>1, <1>2, <1>3 DEF Knows

LEMMA KnowsLasts ==
  ASSUME Inv, Kept, NEW q \in Request, Knows(q)
  PROVE  Knows(q)'
<1>1. \A i \in Applied : i \in Applied'  BY DEF Kept, Applied
<1>2. binding.audit \in Applied => binding.audit # None
  <2>1. log \in Seq(Event)  BY DEF Inv, TypeOK
  <2>2. Applied \subseteq Nat  BY <2>1 DEF Applied
  <2> QED  BY <2>2, AbsentAssumption
<1> QED  BY <1>1, <1>2 DEF Kept, Knows

LEMMA HandlersKeep ==
  ASSUME Inv, Kept, NEW r \in Requests, NEW v \in Request, Knows(v)',
         req' = [req EXCEPT ![r] = v]
  PROVE  req' \in [Requests -> Request] /\ Handlers'
<1>1. req \in [Requests -> Request]  BY DEF Inv, TypeOK
<1>2. req' \in [Requests -> Request]  BY <1>1
<1>3. ASSUME NEW p \in Requests, NEW w, w = req'[p] PROVE Knows(w)'
  <2>1. CASE p = r  BY <1>1, <1>3, <2>1
  <2>2. CASE p # r
    <3>1. w = req[p] /\ w \in Request  BY <1>1, <1>3, <2>2
    <3>2. Knows(w)  BY <3>1 DEF Inv, Handlers
    <3> QED  BY <3>1, <3>2, KnowsLasts
  <2> QED  BY <2>1, <2>2
<1>4. Handlers'  BY <1>3 DEF Handlers, Knows
<1> QED  BY <1>2, <1>4

(* A step of one handler that writes neither the row nor the log.          *)
Aside == UNCHANGED <<now, config, binding, log, cleaned>>

LEMMA WorldAside ==
  ASSUME Inv, Aside
  PROVE  Kept /\ World'
BY DEF Inv, Aside, Kept, World, RowShape, LogShape, SettledHonestly, Applied

LEMMA AsideKeeps ==
  ASSUME Inv, Aside, NEW r \in Requests, NEW v \in Request, Knows(v),
         req' = [req EXCEPT ![r] = v],
         access' \in Access, source' \in BOOLEAN, sessions' \subseteq {1, 2}
  PROVE  Inv'
<1>1. Kept /\ World'  BY WorldAside
<1>2. Knows(v)'  BY DEF Aside, Knows, Applied
<1>3. req' \in [Requests -> Request] /\ Handlers'  BY <1>1, <1>2, HandlersKeep
<1>4. TypeOK'  BY <1>3 DEF Inv, TypeOK, Aside
<1> QED  BY <1>1, <1>3, <1>4 DEF Inv

LEMMA EndKeeps ==
  ASSUME Inv, Aside, NEW r \in Requests, End(r),
         access' \in Access, source' \in BOOLEAN, sessions' \subseteq {1, 2}
  PROVE  Inv'
<1>1. Knows(Blank) /\ Blank \in Request  BY BlankKnows, BlankTyped DEF Inv
<1> QED  BY <1>1, AsideKeeps DEF End

-----------------------------------------------------------------------------
(* Each action keeps the invariant.                                        *)

LEMMA BootstrapKeeps ==
  ASSUME Inv, NEW r \in Requests, Bootstrap(r)
  PROVE  Inv'
<1>0. TypeOK /\ Knows(Blank) /\ config.window \in Nat
  BY WindowIsTime, BlankKnows DEF Inv
<1>1. PICK v : v = [Blank EXCEPT !.step = "prepare"]  OBVIOUS
<1>2. /\ v \in Request /\ v.step = "prepare"
      /\ v.row = NoRow /\ v.stage = None /\ v.audit = None
      /\ v.ok = FALSE /\ v.late = FALSE /\ v.mint = 0
  BY ZenonT(60), <1>1, BlankTyped DEF Blank, Request, Steps
<1>3. Knows(v)  BY <1>0, <1>2, AbsentAssumption DEF Knows, Stages, NoRow
<1>4. req' = [req EXCEPT ![r] = v]  BY <1>1 DEF Bootstrap
<1> QED  BY <1>0, <1>2, <1>3, <1>4, AsideKeeps DEF Bootstrap, Aside, TypeOK, Others

LEMMA BootstrapScopeKeeps ==
  ASSUME Inv,
         NEW r \in Requests,
         BootstrapScope(r)
  PROVE  Inv'
<1> USE DEF At, On, Goto, Enter
<1>0. /\ TypeOK /\ req[r] \in Request /\ Knows(req[r]) /\ req[r].row \in Row
      /\ config.window \in Nat /\ config.plan \in Plans /\ now \in Nat
      /\ RowShape /\ LogShape
  BY WindowIsTime, BoundAssumption DEF Inv, World, TypeOK, Handlers, Request
<1>1. PICK v : v = [[req[r] EXCEPT !.stage = "create"] EXCEPT !.step = "read"]
  OBVIOUS
<1>2. /\ v \in Request
      /\ v.step = "read" /\ v.stage = "create" /\ v.row = req[r].row
      /\ v.mint = req[r].mint /\ v.intent = req[r].intent /\ v.audit = req[r].audit
      /\ v.ok = req[r].ok /\ v.kind = req[r].kind /\ v.late = req[r].late
  BY <1>0, <1>1, BlankTyped DEF Request, Steps, Stages
<1>3. req' = [req EXCEPT ![r] = v]
  BY <1>0, <1>1 DEF TypeOK, Request, BootstrapScope
<1>4. Knows(v)
  BY <1>0, <1>2, AbsentAssumption DEF Knows, Stages, NoRow, BootstrapScope
<1> QED  BY <1>0, <1>2, <1>3, <1>4, AsideKeeps DEF BootstrapScope, Aside, TypeOK, Others, Access

LEMMA ResumeKeeps ==
  ASSUME Inv,
         NEW r \in Requests,
         Resume(r)
  PROVE  Inv'
<1> USE DEF At, On, Goto, Enter
<1>0. /\ TypeOK /\ req[r] \in Request /\ Knows(req[r]) /\ req[r].row \in Row
      /\ config.window \in Nat /\ config.plan \in Plans /\ now \in Nat
      /\ RowShape /\ LogShape
  BY WindowIsTime, BoundAssumption DEF Inv, World, TypeOK, Handlers, Request
<1>1. PICK v : v = [Blank EXCEPT !.step = "read", !.stage = "resume", !.row = binding]
  OBVIOUS
<1>2. /\ v \in Request
      /\ v.stage = "resume" /\ v.mint = 0 /\ v.intent = None
      /\ v.audit = None /\ v.ok = FALSE /\ v.kind = "none"
      /\ v.late = FALSE /\ v.step = "read" /\ v.row = binding
  BY <1>0, <1>1, BlankTyped DEF Request, Steps, Stages, Blank, TypeOK
<1>3. req' = [req EXCEPT ![r] = v]
  BY <1>0, <1>1 DEF TypeOK, Request, Resume
<1>4. Knows(v)
  BY <1>0, <1>2, AbsentAssumption DEF Knows, Stages, NoRow, Resume
<1> QED  BY <1>0, <1>2, <1>3, <1>4, AsideKeeps DEF Resume, Aside, TypeOK, Others

LEMMA SnapshotReadKeeps ==
  ASSUME Inv,
         NEW r \in Requests,
         SnapshotRead(r)
  PROVE  Inv'
<1> USE DEF At, On, Goto, Enter
<1>0. /\ TypeOK /\ req[r] \in Request /\ Knows(req[r]) /\ req[r].row \in Row
      /\ config.window \in Nat /\ config.plan \in Plans /\ now \in Nat
      /\ RowShape /\ LogShape
  BY WindowIsTime, BoundAssumption DEF Inv, World, TypeOK, Handlers, Request
<1>1. CASE access.managed /\ Open /\ Matches(binding, r)
  <2>1. PICK v : v = [[req[r] EXCEPT !.row = binding] EXCEPT !.step = "mint"]
    OBVIOUS
  <2>2. /\ v \in Request
        /\ v.step = "mint" /\ v.stage = req[r].stage /\ v.row = binding
        /\ v.mint = req[r].mint /\ v.intent = req[r].intent /\ v.audit = req[r].audit
        /\ v.ok = req[r].ok /\ v.kind = req[r].kind /\ v.late = req[r].late
    BY <1>0, <2>1, BlankTyped DEF Request, Steps, Stages, TypeOK
  <2>3. req' = [req EXCEPT ![r] = v]
    BY <1>0, <2>1, <1>1 DEF TypeOK, Request, SnapshotRead
  <2>4. Knows(v)
    BY <1>0, <2>2, <1>1, AbsentAssumption DEF Knows, Stages, NoRow, SnapshotRead
  <2> QED  BY <1>0, <2>2, <2>3, <2>4, AsideKeeps, <1>1 DEF SnapshotRead, Aside, TypeOK, Others
<1>2. CASE ~(access.managed /\ Open /\ Matches(binding, r))
  BY <1>0, <1>2, EndKeeps DEF SnapshotRead, Aside, Others, TypeOK
<1> QED  BY <1>1, <1>2

LEMMA CheckKeeps ==
  ASSUME Inv,
         NEW r \in Requests,
         Check(r)
  PROVE  Inv'
<1> USE DEF At, On, Goto, Enter
<1>0. /\ TypeOK /\ req[r] \in Request /\ Knows(req[r]) /\ req[r].row \in Row
      /\ config.window \in Nat /\ config.plan \in Plans /\ now \in Nat
      /\ RowShape /\ LogShape
  BY WindowIsTime, BoundAssumption DEF Inv, World, TypeOK, Handlers, Request
<1>1. CASE Permitted /\ (req[r].stage = "check" => req[r].row.intent = req[r].intent) /\ req[r].stage = "check"
  <2>1. PICK v : v = [req[r] EXCEPT !.step = "audit"]
    OBVIOUS
  <2>2. /\ v \in Request
        /\ v.step = "audit" /\ v.stage = req[r].stage /\ v.row = req[r].row
        /\ v.mint = req[r].mint /\ v.intent = req[r].intent /\ v.audit = req[r].audit
        /\ v.ok = req[r].ok /\ v.kind = req[r].kind /\ v.late = req[r].late
    BY <1>0, <2>1, BlankTyped DEF Request, Steps, Stages
  <2>3. req' = [req EXCEPT ![r] = v]
    BY <1>0, <2>1, <1>1 DEF TypeOK, Request, Check
  <2>4. Knows(v)
    BY <1>0, <2>2, <1>1, AbsentAssumption DEF Knows, Stages, NoRow, Check
  <2> QED  BY <1>0, <2>2, <2>3, <2>4, AsideKeeps, <1>1 DEF Check, Aside, TypeOK, Others
<1>2. CASE Permitted /\ (req[r].stage = "check" => req[r].row.intent = req[r].intent) /\ req[r].stage # "check"
  <2>1. PICK v : v = [req[r] EXCEPT !.step = "activate"]
    OBVIOUS
  <2>2. /\ v \in Request
        /\ v.step = "activate" /\ v.stage = req[r].stage /\ v.row = req[r].row
        /\ v.mint = req[r].mint /\ v.intent = req[r].intent /\ v.audit = req[r].audit
        /\ v.ok = req[r].ok /\ v.kind = req[r].kind /\ v.late = req[r].late
    BY <1>0, <2>1, BlankTyped DEF Request, Steps, Stages
  <2>3. req' = [req EXCEPT ![r] = v]
    BY <1>0, <2>1, <1>2 DEF TypeOK, Request, Check
  <2>4. Knows(v)
    BY <1>0, <2>2, <1>2, AbsentAssumption DEF Knows, Stages, NoRow, Check
  <2> QED  BY <1>0, <2>2, <2>3, <2>4, AsideKeeps, <1>2 DEF Check, Aside, TypeOK, Others
<1>3. CASE ~(Permitted /\ (req[r].stage = "check" => req[r].row.intent = req[r].intent))
  BY <1>0, <1>3, EndKeeps DEF Check, Aside, Others, TypeOK
<1> QED  BY <1>1, <1>2, <1>3

LEMMA ActivateReadKeeps ==
  ASSUME Inv,
         NEW r \in Requests,
         ActivateRead(r)
  PROVE  Inv'
<1> USE DEF At, On, Goto, Enter
<1>0. /\ TypeOK /\ req[r] \in Request /\ Knows(req[r]) /\ req[r].row \in Row
      /\ config.window \in Nat /\ config.plan \in Plans /\ now \in Nat
      /\ RowShape /\ LogShape
  BY WindowIsTime, BoundAssumption DEF Inv, World, TypeOK, Handlers, Request
<1>1. CASE Open /\ Matches(binding, r) /\ source
  <2>1. PICK v : v = [req[r] EXCEPT !.step = "write"]
    OBVIOUS
  <2>2. /\ v \in Request
        /\ v.step = "write" /\ v.stage = req[r].stage /\ v.row = req[r].row
        /\ v.mint = req[r].mint /\ v.intent = req[r].intent /\ v.audit = req[r].audit
        /\ v.ok = req[r].ok /\ v.kind = req[r].kind /\ v.late = req[r].late
    BY <1>0, <2>1, BlankTyped DEF Request, Steps, Stages
  <2>3. req' = [req EXCEPT ![r] = v]
    BY <1>0, <2>1, <1>1 DEF TypeOK, Request, ActivateRead
  <2>4. Knows(v)
    BY <1>0, <2>2, <1>1, AbsentAssumption DEF Knows, Stages, NoRow, ActivateRead
  <2> QED  BY <1>0, <2>2, <2>3, <2>4, AsideKeeps, <1>1 DEF ActivateRead, Aside, TypeOK, Others
<1>2. CASE ~(Open /\ Matches(binding, r) /\ source)
  <2>1. PICK v : v = [[req[r] EXCEPT !.stage = "receipt"] EXCEPT !.step = "read"]
    OBVIOUS
  <2>2. /\ v \in Request
        /\ v.step = "read" /\ v.stage = "receipt" /\ v.row = req[r].row
        /\ v.mint = req[r].mint /\ v.intent = req[r].intent /\ v.audit = req[r].audit
        /\ v.ok = req[r].ok /\ v.kind = req[r].kind /\ v.late = req[r].late
    BY <1>0, <2>1, BlankTyped DEF Request, Steps, Stages
  <2>3. req' = [req EXCEPT ![r] = v]
    BY <1>0, <2>1, <1>2 DEF TypeOK, Request, ActivateRead
  <2>4. Knows(v)
    BY <1>0, <2>2, <1>2, AbsentAssumption DEF Knows, Stages, NoRow, ActivateRead
  <2> QED  BY <1>0, <2>2, <2>3, <2>4, AsideKeeps, <1>2 DEF ActivateRead, Aside, TypeOK, Others
<1> QED  BY <1>1, <1>2

LEMMA ActivateRereadKeeps ==
  ASSUME Inv,
         NEW r \in Requests,
         ActivateReread(r)
  PROVE  Inv'
<1> USE DEF At, On, Goto, Enter
<1>0. /\ TypeOK /\ req[r] \in Request /\ Knows(req[r]) /\ req[r].row \in Row
      /\ config.window \in Nat /\ config.plan \in Plans /\ now \in Nat
      /\ RowShape /\ LogShape
  BY WindowIsTime, BoundAssumption DEF Inv, World, TypeOK, Handlers, Request
<1>1. CASE binding.status = "active" /\ binding.audit = req[r].audit /\ Goto(r, "told")
  <2>1. PICK v : v = [req[r] EXCEPT !.step = "told"]
    OBVIOUS
  <2>2. /\ v \in Request
        /\ v.step = "told" /\ v.stage = req[r].stage /\ v.row = req[r].row
        /\ v.mint = req[r].mint /\ v.intent = req[r].intent /\ v.audit = req[r].audit
        /\ v.ok = req[r].ok /\ v.kind = req[r].kind /\ v.late = req[r].late
    BY <1>0, <2>1, BlankTyped DEF Request, Steps, Stages
  <2>3. req' = [req EXCEPT ![r] = v]
    BY <1>0, <2>1, <1>1 DEF TypeOK, Request, ActivateReread
  <2>4. Knows(v)
    BY <1>0, <2>2, <1>1, AbsentAssumption DEF Knows, Stages, NoRow, ActivateReread
  <2> QED  BY <1>0, <2>2, <2>3, <2>4, AsideKeeps, <1>1 DEF ActivateReread, Aside, TypeOK, Others
<1>2. CASE Enter(r, "receipt")
  <2>1. PICK v : v = [[req[r] EXCEPT !.stage = "receipt"] EXCEPT !.step = "read"]
    OBVIOUS
  <2>2. /\ v \in Request
        /\ v.step = "read" /\ v.stage = "receipt" /\ v.row = req[r].row
        /\ v.mint = req[r].mint /\ v.intent = req[r].intent /\ v.audit = req[r].audit
        /\ v.ok = req[r].ok /\ v.kind = req[r].kind /\ v.late = req[r].late
    BY <1>0, <2>1, BlankTyped DEF Request, Steps, Stages
  <2>3. req' = [req EXCEPT ![r] = v]
    BY <1>0, <2>1, <1>2 DEF TypeOK, Request, ActivateReread
  <2>4. Knows(v)
    BY <1>0, <2>2, <1>2, AbsentAssumption DEF Knows, Stages, NoRow, ActivateReread
  <2> QED  BY <1>0, <2>2, <2>3, <2>4, AsideKeeps, <1>2 DEF ActivateReread, Aside, TypeOK, Others
<1> QED  BY <1>1, <1>2 DEF ActivateReread

LEMMA ConfirmKeeps ==
  ASSUME Inv,
         NEW r \in Requests,
         Confirm(r)
  PROVE  Inv'
<1> USE DEF At, On, Goto, Enter
<1>0. /\ TypeOK /\ req[r] \in Request /\ Knows(req[r]) /\ req[r].row \in Row
      /\ config.window \in Nat /\ config.plan \in Plans /\ now \in Nat
      /\ RowShape /\ LogShape
  BY WindowIsTime, BoundAssumption DEF Inv, World, TypeOK, Handlers, Request
<1>1. CASE req[r].row.audit # None /\ Permitted
  <2>1. PICK v : v = [req[r] EXCEPT !.step = "told"]
    OBVIOUS
  <2>2. /\ v \in Request
        /\ v.step = "told" /\ v.stage = req[r].stage /\ v.row = req[r].row
        /\ v.mint = req[r].mint /\ v.intent = req[r].intent /\ v.audit = req[r].audit
        /\ v.ok = req[r].ok /\ v.kind = req[r].kind /\ v.late = req[r].late
    BY <1>0, <2>1, BlankTyped DEF Request, Steps, Stages
  <2>3. req' = [req EXCEPT ![r] = v]
    BY <1>0, <2>1, <1>1 DEF TypeOK, Request, Confirm
  <2>4. Knows(v)
    BY <1>0, <2>2, <1>1, AbsentAssumption DEF Knows, Stages, NoRow, Confirm, LogShape
  <2> QED  BY <1>0, <2>2, <2>3, <2>4, AsideKeeps, <1>1 DEF Confirm, Aside, TypeOK, Others
<1>2. CASE ~(req[r].row.audit # None /\ Permitted)
  BY <1>0, <1>2, EndKeeps DEF Confirm, Aside, Others, TypeOK
<1> QED  BY <1>1, <1>2

LEMMA RecoverKeeps ==
  ASSUME Inv,
         NEW r \in Requests,
         Recover(r)
  PROVE  Inv'
<1> USE DEF At, On, Goto, Enter
<1>0. /\ TypeOK /\ req[r] \in Request /\ Knows(req[r]) /\ req[r].row \in Row
      /\ config.window \in Nat /\ config.plan \in Plans /\ now \in Nat
      /\ RowShape /\ LogShape
  BY WindowIsTime, BoundAssumption DEF Inv, World, TypeOK, Handlers, Request
<1>1. PICK v : v = [Blank EXCEPT !.step = "cleanup", !.kind = "recover", !.row = binding]
  OBVIOUS
<1>2. /\ v \in Request
      /\ v.stage = None /\ v.mint = 0 /\ v.intent = None
      /\ v.audit = None /\ v.ok = FALSE /\ v.kind = "recover"
      /\ v.late = FALSE /\ v.step = "cleanup" /\ v.row = binding
  BY <1>0, <1>1, BlankTyped DEF Request, Steps, Stages, Blank, TypeOK
<1>3. req' = [req EXCEPT ![r] = v]
  BY <1>0, <1>1 DEF TypeOK, Request, Recover
<1>4. Knows(v)
  BY <1>0, <1>2, AbsentAssumption DEF Knows, Stages, NoRow, Recover
<1> QED  BY <1>0, <1>2, <1>3, <1>4, AsideKeeps DEF Recover, Aside, TypeOK, Others

LEMMA ExchangeKeeps ==
  ASSUME Inv,
         NEW r \in Requests,
         Exchange(r)
  PROVE  Inv'
<1> USE DEF At, On, Goto, Enter
<1>0. /\ TypeOK /\ req[r] \in Request /\ Knows(req[r]) /\ req[r].row \in Row
      /\ config.window \in Nat /\ config.plan \in Plans /\ now \in Nat
      /\ RowShape /\ LogShape
  BY WindowIsTime, BoundAssumption DEF Inv, World, TypeOK, Handlers, Request
<1>1. PICK v : v = [Blank EXCEPT !.step = "permit", !.kind = "issue"]
  OBVIOUS
<1>2. /\ v \in Request
      /\ v.stage = None /\ v.mint = 0 /\ v.intent = None
      /\ v.audit = None /\ v.ok = FALSE /\ v.kind = "issue"
      /\ v.late = FALSE /\ v.step = "permit" /\ v.row = NoRow
  BY <1>0, <1>1, BlankTyped DEF Request, Steps, Stages, Blank
<1>3. req' = [req EXCEPT ![r] = v]
  BY <1>0, <1>1 DEF TypeOK, Request, Exchange
<1>4. Knows(v)
  BY <1>0, <1>2, AbsentAssumption DEF Knows, Stages, NoRow, Exchange
<1> QED  BY <1>0, <1>2, <1>3, <1>4, AsideKeeps DEF Exchange, Aside, TypeOK, Others

LEMMA PermitKeeps ==
  ASSUME Inv,
         NEW r \in Requests,
         Permit(r)
  PROVE  Inv'
<1> USE DEF At, On, Goto, Enter
<1>0. /\ TypeOK /\ req[r] \in Request /\ Knows(req[r]) /\ req[r].row \in Row
      /\ config.window \in Nat /\ config.plan \in Plans /\ now \in Nat
      /\ RowShape /\ LogShape
  BY WindowIsTime, BoundAssumption DEF Inv, World, TypeOK, Handlers, Request
<1>1. CASE access.assigned
  <2>1. PICK v : v = [req[r] EXCEPT !.step = "claim"]
    OBVIOUS
  <2>2. /\ v \in Request
        /\ v.step = "claim" /\ v.stage = req[r].stage /\ v.row = req[r].row
        /\ v.mint = req[r].mint /\ v.intent = req[r].intent /\ v.audit = req[r].audit
        /\ v.ok = req[r].ok /\ v.kind = req[r].kind /\ v.late = req[r].late
    BY <1>0, <2>1, BlankTyped DEF Request, Steps, Stages
  <2>3. req' = [req EXCEPT ![r] = v]
    BY <1>0, <2>1, <1>1 DEF TypeOK, Request, Permit
  <2>4. Knows(v)
    BY <1>0, <2>2, <1>1, AbsentAssumption DEF Knows, Stages, NoRow, Permit
  <2> QED  BY <1>0, <2>2, <2>3, <2>4, AsideKeeps, <1>1 DEF Permit, Aside, TypeOK, Others
<1>2. CASE ~(access.assigned)
  BY <1>0, <1>2, EndKeeps DEF Permit, Aside, Others, TypeOK
<1> QED  BY <1>1, <1>2

LEMMA ClaimKeeps ==
  ASSUME Inv,
         NEW r \in Requests,
         Claim(r)
  PROVE  Inv'
<1> USE DEF At, On, Goto, Enter
<1>0. /\ TypeOK /\ req[r] \in Request /\ Knows(req[r]) /\ req[r].row \in Row
      /\ config.window \in Nat /\ config.plan \in Plans /\ now \in Nat
      /\ RowShape /\ LogShape
  BY WindowIsTime, BoundAssumption DEF Inv, World, TypeOK, Handlers, Request
<1>1. CASE binding.status = "active"
  <2>1. PICK v : v = [[req[r] EXCEPT !.row = binding] EXCEPT !.step = "admit"]
    OBVIOUS
  <2>2. /\ v \in Request
        /\ v.step = "admit" /\ v.stage = req[r].stage /\ v.row = binding
        /\ v.mint = req[r].mint /\ v.intent = req[r].intent /\ v.audit = req[r].audit
        /\ v.ok = req[r].ok /\ v.kind = req[r].kind /\ v.late = req[r].late
    BY <1>0, <2>1, BlankTyped DEF Request, Steps, Stages, TypeOK
  <2>3. req' = [req EXCEPT ![r] = v]
    BY <1>0, <2>1, <1>1 DEF TypeOK, Request, Claim
  <2>4. Knows(v)
    BY <1>0, <2>2, <1>1, AbsentAssumption DEF Knows, Stages, NoRow, Claim
  <2> QED  BY <1>0, <2>2, <2>3, <2>4, AsideKeeps, <1>1 DEF Claim, Aside, TypeOK, Others
<1>2. CASE ~(binding.status = "active")
  BY <1>0, <1>2, EndKeeps DEF Claim, Aside, Others, TypeOK
<1> QED  BY <1>1, <1>2

LEMMA AuthenticateKeeps ==
  ASSUME Inv,
         NEW r \in Requests,
         NEW claim \in sessions,
         Authenticate(r, claim)
  PROVE  Inv'
<1> USE DEF At, On, Goto, Enter
<1>0. /\ TypeOK /\ req[r] \in Request /\ Knows(req[r]) /\ req[r].row \in Row
      /\ config.window \in Nat /\ config.plan \in Plans /\ now \in Nat
      /\ RowShape /\ LogShape
  BY WindowIsTime, BoundAssumption DEF Inv, World, TypeOK, Handlers, Request
<1>a. PICK late \in BOOLEAN : late <=> binding.status = "revoked"  OBVIOUS
<1>b. PICK row : row = [NoRow EXCEPT !.revision = claim]  OBVIOUS
<1>c. row \in Row /\ row.intent = None /\ row.audit = None
  BY <1>0, <1>b, BlankTyped DEF NoRow, Row, TypeOK
<1>1. PICK v : v = [Blank EXCEPT !.step = "admit", !.kind = "authenticate", !.row = row, !.late = late]
  OBVIOUS
<1>2. /\ v \in Request
      /\ v.stage = None /\ v.mint = 0 /\ v.intent = None
      /\ v.audit = None /\ v.ok = FALSE /\ v.kind = "authenticate"
      /\ v.late = late /\ v.step = "admit" /\ v.row = row
  BY <1>0, <1>1, BlankTyped, <1>c DEF Request, Steps, Stages, Blank
<1>3. req' = [req EXCEPT ![r] = v]
  BY <1>0, <1>1, <1>a, <1>b, <1>c DEF TypeOK, Request, Authenticate
<1>4. Knows(v)
  BY <1>0, <1>2, <1>a, <1>b, <1>c, AbsentAssumption DEF Knows, Stages, NoRow, Authenticate
<1> QED  BY <1>0, <1>2, <1>3, <1>4, AsideKeeps, <1>a, <1>b, <1>c DEF Authenticate, Aside, TypeOK, Others

LEMMA AdmitKeeps ==
  ASSUME Inv,
         NEW r \in Requests,
         Admit(r)
  PROVE  Inv'
<1> USE DEF At, On, Goto, Enter
<1>0. /\ TypeOK /\ req[r] \in Request /\ Knows(req[r]) /\ req[r].row \in Row
      /\ config.window \in Nat /\ config.plan \in Plans /\ now \in Nat
      /\ RowShape /\ LogShape
  BY WindowIsTime, BoundAssumption DEF Inv, World, TypeOK, Handlers, Request
<1>1. CASE binding.status = "active" /\ binding.revision = req[r].row.revision
  <2>1. PICK v : v = [req[r] EXCEPT !.step = "source"]
    OBVIOUS
  <2>2. /\ v \in Request
        /\ v.step = "source" /\ v.stage = req[r].stage /\ v.row = req[r].row
        /\ v.mint = req[r].mint /\ v.intent = req[r].intent /\ v.audit = req[r].audit
        /\ v.ok = req[r].ok /\ v.kind = req[r].kind /\ v.late = req[r].late
    BY <1>0, <2>1, BlankTyped DEF Request, Steps, Stages
  <2>3. req' = [req EXCEPT ![r] = v]
    BY <1>0, <2>1, <1>1 DEF TypeOK, Request, Admit
  <2>4. Knows(v)
    BY <1>0, <2>2, <1>1, AbsentAssumption DEF Knows, Stages, NoRow, Admit, RowShape
  <2> QED  BY <1>0, <2>2, <2>3, <2>4, AsideKeeps, <1>1 DEF Admit, Aside, TypeOK, Others
<1>2. CASE ~(binding.status = "active" /\ binding.revision = req[r].row.revision)
  BY <1>0, <1>2, EndKeeps DEF Admit, Aside, Others, TypeOK
<1> QED  BY <1>1, <1>2

LEMMA AdmitSourceKeeps ==
  ASSUME Inv,
         NEW r \in Requests,
         AdmitSource(r)
  PROVE  Inv'
<1> USE DEF At, On, Goto, Enter
<1>0. /\ TypeOK /\ req[r] \in Request /\ Knows(req[r]) /\ req[r].row \in Row
      /\ config.window \in Nat /\ config.plan \in Plans /\ now \in Nat
      /\ RowShape /\ LogShape
  BY WindowIsTime, BoundAssumption DEF Inv, World, TypeOK, Handlers, Request
<1>1. CASE source /\ req[r].kind = "issue"
  <2>1. PICK v : v = [req[r] EXCEPT !.step = "insert"]
    OBVIOUS
  <2>2. /\ v \in Request
        /\ v.step = "insert" /\ v.stage = req[r].stage /\ v.row = req[r].row
        /\ v.mint = req[r].mint /\ v.intent = req[r].intent /\ v.audit = req[r].audit
        /\ v.ok = req[r].ok /\ v.kind = req[r].kind /\ v.late = req[r].late
    BY <1>0, <2>1, BlankTyped DEF Request, Steps, Stages
  <2>3. req' = [req EXCEPT ![r] = v]
    BY <1>0, <2>1, <1>1 DEF TypeOK, Request, AdmitSource
  <2>4. Knows(v)
    BY <1>0, <2>2, <1>1, AbsentAssumption DEF Knows, Stages, NoRow, AdmitSource
  <2> QED  BY <1>0, <2>2, <2>3, <2>4, AsideKeeps, <1>1 DEF AdmitSource, Aside, TypeOK, Others
<1>2. CASE source /\ req[r].kind # "issue"
  <2>1. PICK v : v = [req[r] EXCEPT !.step = "honoured"]
    OBVIOUS
  <2>2. /\ v \in Request
        /\ v.step = "honoured" /\ v.stage = req[r].stage /\ v.row = req[r].row
        /\ v.mint = req[r].mint /\ v.intent = req[r].intent /\ v.audit = req[r].audit
        /\ v.ok = req[r].ok /\ v.kind = req[r].kind /\ v.late = req[r].late
    BY <1>0, <2>1, BlankTyped DEF Request, Steps, Stages
  <2>3. req' = [req EXCEPT ![r] = v]
    BY <1>0, <2>1, <1>2 DEF TypeOK, Request, AdmitSource
  <2>4. Knows(v)
    BY <1>0, <2>2, <1>2, AbsentAssumption DEF Knows, Stages, NoRow, AdmitSource
  <2> QED  BY <1>0, <2>2, <2>3, <2>4, AsideKeeps, <1>2 DEF AdmitSource, Aside, TypeOK, Others
<1>3. CASE ~source
  BY <1>0, <1>3, EndKeeps DEF AdmitSource, Aside, Others, TypeOK
<1> QED  BY <1>1, <1>2, <1>3

LEMMA InsertKeeps ==
  ASSUME Inv,
         NEW r \in Requests,
         Insert(r)
  PROVE  Inv'
<1> USE DEF At, On, Goto, Enter
<1>0. /\ TypeOK /\ req[r] \in Request /\ Knows(req[r]) /\ req[r].row \in Row
      /\ config.window \in Nat /\ config.plan \in Plans /\ now \in Nat
      /\ RowShape /\ LogShape
  BY WindowIsTime, BoundAssumption DEF Inv, World, TypeOK, Handlers, Request
<1>1. sessions' \subseteq {1, 2}  BY <1>0 DEF Insert, Knows, TypeOK
<1> QED  BY <1>0, <1>1, EndKeeps DEF Insert, Aside, Others, TypeOK

LEMMA AbandonKeeps ==
  ASSUME Inv,
         NEW r \in Requests,
         Abandon(r)
  PROVE  Inv'
<1> USE DEF At, On, Goto, Enter
<1>0. /\ TypeOK /\ req[r] \in Request /\ Knows(req[r]) /\ req[r].row \in Row
      /\ config.window \in Nat /\ config.plan \in Plans /\ now \in Nat
      /\ RowShape /\ LogShape
  BY WindowIsTime, BoundAssumption DEF Inv, World, TypeOK, Handlers, Request
<1> QED  BY <1>0, EndKeeps DEF Abandon, Aside, Others, TypeOK

LEMMA GrantRoleKeeps ==
  ASSUME Inv,
         NEW r \in Requests,
         GrantRole(r)
  PROVE  Inv'
<1> USE DEF At, On, Goto, Enter
<1>0. /\ TypeOK /\ req[r] \in Request /\ Knows(req[r]) /\ req[r].row \in Row
      /\ config.window \in Nat /\ config.plan \in Plans /\ now \in Nat
      /\ RowShape /\ LogShape
  BY WindowIsTime, BoundAssumption DEF Inv, World, TypeOK, Handlers, Request
<1>1. CASE now < req[r].mint
  <2>a. access' \in Access
    <3>1. req[r].row.intent.plan \in Plans
      BY <1>0 DEF GrantRole, Knows, Row, Intents
    <3>2. access \in Access  BY <1>0 DEF TypeOK
    <3>3. /\ req[r].stage \in {"create", "set", "assign"}
          /\ access' = Granted(r)
      BY <1>1 DEF GrantRole, After
    <3>4. CASE req[r].stage = "create"
      <4>1. access' = [access EXCEPT !.role = TRUE]  BY <3>3, <3>4 DEF Granted
      <4> QED  BY <3>2, <4>1 DEF Access
    <3>5. CASE req[r].stage = "set"
      <4>1. access' = [access EXCEPT !.plan = req[r].row.intent.plan]  BY <3>3, <3>5 DEF Granted
      <4> QED  BY <3>1, <3>2, <4>1 DEF Access
    <3>6. CASE req[r].stage = "assign"
      <4>1. access' = [access EXCEPT !.assigned = TRUE]  BY <3>3, <3>6 DEF Granted
      <4> QED  BY <3>2, <4>1 DEF Access
    <3> QED  BY <3>3, <3>4, <3>5, <3>6
  <2>b. PICK s \in {"set", "assign", "check"} : s = After[req[r].stage]
    BY DEF GrantRole, After
  <2>c. req[r].row.intent \in Intents \cup {None}  BY <1>0 DEF Row
  <2>1. PICK v : v = [[[req[r] EXCEPT !.stage = s] EXCEPT !.step = "read"] EXCEPT !.intent = req[r].row.intent]
    OBVIOUS
  <2>2. /\ v \in Request
        /\ v.step = "read" /\ v.stage = s /\ v.row = req[r].row
        /\ v.mint = req[r].mint /\ v.intent = req[r].row.intent /\ v.audit = req[r].audit
        /\ v.ok = req[r].ok /\ v.kind = req[r].kind /\ v.late = req[r].late
    BY ZenonT(60), <1>0, <2>1, BlankTyped, <2>b, <2>c DEF Request, Steps, Stages
  <2>3. req' = [req EXCEPT ![r] = v]
    BY <1>0, <2>1, <1>1, <2>a, <2>b DEF TypeOK, Request, GrantRole
  <2>4. Knows(v)
    BY <1>0, <2>2, <1>1, <2>a, <2>b, AbsentAssumption DEF Knows, Stages, NoRow, GrantRole
  <2> QED  BY <1>0, <2>2, <2>3, <2>4, AsideKeeps, <1>1, <2>a, <2>b DEF GrantRole, Aside, TypeOK, Others
<1>2. CASE ~(now < req[r].mint)
  BY <1>0, <1>2, EndKeeps DEF GrantRole, Aside, Others, TypeOK
<1> QED  BY <1>1, <1>2

-----------------------------------------------------------------------------
(* The steps that write the row.                                           *)

LEMMA RowKeeps ==
  ASSUME Inv, NEW r \in Requests, NEW b \in Row, NEW v \in Request,
         binding' = b, Kept, World', Knows(v)', req' = [req EXCEPT ![r] = v],
         UNCHANGED <<now, config, access, log, source, sessions, cleaned>>
  PROVE  Inv'
<1>1. req' \in [Requests -> Request] /\ Handlers'  BY HandlersKeep
<1>2. TypeOK'  BY <1>1 DEF Inv, TypeOK
<1> QED  BY <1>1, <1>2 DEF Inv

LEMMA PrepareKeeps ==
  ASSUME Inv, NEW r \in Requests, Prepare(r)
  PROVE  Inv'
<1>0. /\ TypeOK /\ RowShape /\ LogShape /\ config.window \in Nat /\ Knows(Blank)
  BY WindowIsTime, BlankKnows DEF Inv, World
<1>1. PICK b : b = Prepared(binding)  OBVIOUS
<1>2. binding' = b /\ UNCHANGED <<now, config, access, log, source, sessions, cleaned>>
  BY <1>1 DEF Prepare, Others
<1>a. CASE b.status # "pending"
  <2>1. binding.status # "absent"  BY <1>1, <1>a DEF Prepared, NoRow
  <2>2. UNCHANGED binding /\ End(r)  BY <1>1, <1>2, <1>a, <2>1 DEF Prepare, Prepared
  <2> QED  BY <1>0, <1>2, <2>2, EndKeeps DEF Aside, TypeOK
<1>b. CASE b.status = "pending"
  <2> PICK v : v = [Blank EXCEPT !.step = "scope", !.row = b]  OBVIOUS
  <2>1. b \in Row /\ b.audit = None /\ b.revision = 1 /\ b.revocation = "none"
    <3>1. CASE binding.status = "absent"
      <4>1. b = [NoRow EXCEPT !.status = "pending", !.revision = 1]  BY <1>1, <3>1 DEF Prepared
      <4>2. PICK b1 : b1 = [NoRow EXCEPT !.status = "pending"]  OBVIOUS
      <4>3. b1 \in Row  BY <4>2, BlankTyped DEF Row
      <4>4. b = [b1 EXCEPT !.revision = 1]  BY <4>1, <4>2
      <4>5. b \in Row  BY <4>3, <4>4 DEF Row
      <4> QED  BY <4>1, <4>5 DEF NoRow
    <3>2. CASE binding.status # "absent"
      <4>1. b = binding /\ b \in Row  BY <1>0, <1>1, <3>2 DEF TypeOK, Prepared
      <4> QED  BY <1>0, <1>b, <4>1 DEF RowShape, Row
    <3> QED  BY <3>1, <3>2
  <2>2. binding.status \in {"absent", "pending"} /\ b.intent = binding.intent
    BY <1>0, <1>1, <1>b DEF NoRow, RowShape, Prepared
  <2>3. /\ v \in Request
        /\ v.step = "scope" /\ v.row = b /\ v.stage = None /\ v.audit = None
        /\ v.ok = FALSE /\ v.late = FALSE /\ v.mint = 0
    BY ZenonT(60), <2>1, BlankTyped DEF Blank, Request, Steps
  <2>4. Kept  BY <1>0, <1>2, <2>2 DEF Kept, RowShape
  <2>5. World'
    BY <1>0, <1>2, <1>b, <2>1, <2>2
    DEF World, RowShape, LogShape, SettledHonestly, Applied
  <2>6. Knows(v)'
    BY <1>0, <1>2, <1>b, <2>1, <2>3, AbsentAssumption DEF Knows, Stages
  <2>7. req' = [req EXCEPT ![r] = v]  BY <1>2, <1>b DEF Prepare
  <2> QED  BY <1>2, <2>1, <2>3, <2>4, <2>5, <2>6, <2>7, RowKeeps
<1> QED  BY <1>a, <1>b

LEMMA FixedRow ==
  ASSUME TypeOK, NEW b, b = binding \/ b = Fixed(binding)
  PROVE  /\ b \in Row
         /\ b.status = binding.status /\ b.revision = binding.revision /\ b.audit = binding.audit
         /\ b.revocation = binding.revocation /\ b.by = binding.by /\ b.receipt = binding.receipt
         /\ binding.intent # None => b.intent = binding.intent
         /\ binding.status # "pending" => b.intent = binding.intent
<1>1. binding \in Row  BY DEF TypeOK
<1>2. CASE b = binding  BY <1>1, <1>2
<1>3. CASE b = Fixed(binding) /\ binding.status = "pending" /\ binding.intent = None
  <2>1. PICK intent : intent = [plan |-> config.plan, at |-> now]  OBVIOUS
  <2>2. intent \in Intents
    BY <2>1, WindowIsTime, BoundAssumption DEF TypeOK, Intents
  <2>3. b = [binding EXCEPT !.intent = intent]  BY <1>3, <2>1 DEF Fixed
  <2> QED  BY <1>1, <1>3, <2>2, <2>3 DEF Row
<1>4. CASE b = Fixed(binding) /\ ~(binding.status = "pending" /\ binding.intent = None)
  BY <1>1, <1>4 DEF Fixed
<1> QED  BY <1>2, <1>3, <1>4

LEMMA FixedKeeps ==
  ASSUME Inv, NEW b, b = binding \/ b = Fixed(binding), binding' = b,
         UNCHANGED <<config, log, cleaned>>
  PROVE  b \in Row /\ Kept /\ World'
<1>0. TypeOK /\ RowShape /\ LogShape /\ SettledHonestly  BY DEF Inv, World
<1>1. /\ b \in Row
      /\ b.status = binding.status /\ b.revision = binding.revision /\ b.audit = binding.audit
      /\ b.revocation = binding.revocation /\ b.by = binding.by /\ b.receipt = binding.receipt
      /\ binding.intent # None => b.intent = binding.intent
      /\ binding.status # "pending" => b.intent = binding.intent
  BY <1>0, FixedRow
<1>2. Kept  BY <1>1 DEF Kept
<1>3. World'
  BY <1>0, <1>1 DEF World, RowShape, LogShape, SettledHonestly, Applied
<1> QED  BY <1>1, <1>2, <1>3

(* A snapshot is the end of the handler, or its row with a fresh control   *)
(* assertion at one of three steps.                                        *)
LEMMA SnapshotShape ==
  ASSUME TypeOK, NEW r \in Requests, NEW row \in Row, NEW v, v = Snapshot(r, row)
  PROVE  \/ v = Blank
         \/ /\ v \in Request
            /\ v.row = row /\ v.audit = req[r].audit /\ v.ok = req[r].ok /\ v.late = req[r].late
            /\ v.step \in {"confirm", "read", "act"}
            /\ v.stage \in {req[r].stage, "create"}
            /\ v.mint <= config.window
<1>1. req[r] \in Request /\ now \in Nat /\ config.window \in Nat
  BY WindowIsTime, BoundAssumption DEF TypeOK
<1>2. PICK m : m = Mint(now)  OBVIOUS
<1>3. m \in Nat /\ m <= config.window
  BY <1>1, <1>2, BoundAssumption DEF Mint, Least
<1>4. PICK held : held = [req[r] EXCEPT !.row = row, !.step = "act", !.mint = m]  OBVIOUS
<1>5. \/ v = Blank
      \/ v = held
      \/ v = [held EXCEPT !.step = "confirm"]
      \/ v = [held EXCEPT !.stage = "create", !.step = "read"]
  BY <1>2, <1>4 DEF Snapshot
<1>6. /\ held \in Request
      /\ held.row = row /\ held.audit = req[r].audit /\ held.ok = req[r].ok /\ held.late = req[r].late
      /\ held.step = "act" /\ held.stage = req[r].stage /\ held.mint = m
  BY <1>1, <1>3, <1>4 DEF Request, Steps
<1>7. CASE v = held  BY <1>3, <1>6, <1>7
<1>8. CASE v = [held EXCEPT !.step = "confirm"]
  BY <1>3, <1>6, <1>8 DEF Request, Steps
<1>9. CASE v = [held EXCEPT !.stage = "create", !.step = "read"]
  BY <1>3, <1>6, <1>9 DEF Request, Steps, Stages
<1> QED  BY <1>5, <1>7, <1>8, <1>9

LEMMA SnapshotMintKeeps ==
  ASSUME Inv, NEW r \in Requests, SnapshotMint(r)
  PROVE  Inv'
<1>0. /\ TypeOK /\ req[r] \in Request /\ Knows(req[r]) /\ Knows(Blank) /\ req[r].row \in Row
      /\ req[r].step = "mint"
  BY BlankKnows DEF Inv, TypeOK, Handlers, Request, SnapshotMint, At
<1>1. CASE ~source
  BY <1>0, <1>1, EndKeeps DEF SnapshotMint, Aside, Others, TypeOK
<1>2. CASE source
  <2>1. PICK asked : asked = (req[r].row.status = "pending" /\ req[r].row.intent = None)  OBVIOUS
  <2>2. PICK row : row = IF asked THEN Fixed(binding) ELSE req[r].row  OBVIOUS
  <2>3. PICK b : b = IF asked THEN Fixed(binding) ELSE binding  OBVIOUS
  <2>4. /\ binding' = b /\ UNCHANGED <<now, config, source, access, log, sessions, cleaned>>
        /\ \/ End(r)
           \/ row.intent # None /\ req' = [req EXCEPT ![r] = Snapshot(r, row)]
    BY <1>2, <2>1, <2>2, <2>3 DEF SnapshotMint, Others
  <2>5. b \in Row /\ Kept /\ World'  BY <2>3, <2>4, FixedKeeps
  <2>6. /\ row \in Row
        /\ row.intent # None => b.intent = row.intent
        /\ row.audit # None => b.audit = row.audit
    <3>1. CASE asked
      BY <2>2, <2>3, <2>5, <3>1
    <3>2. CASE ~asked
      BY <1>0, <2>2, <2>3, <3>2 DEF Knows
    <3> QED  BY <3>1, <3>2
  <2>7. Knows(Blank)' /\ Blank \in Request
    BY <1>0, <2>5, BlankTyped, KnowsLasts
  <2>8. CASE End(r)
    BY <2>4, <2>5, <2>7, <2>8, RowKeeps DEF End
  <2>9. CASE row.intent # None /\ req' = [req EXCEPT ![r] = Snapshot(r, row)]
    <3>1. PICK v : v = Snapshot(r, row)  OBVIOUS
    <3>2. CASE v = Blank
      BY <2>4, <2>5, <2>7, <2>9, <3>1, <3>2, RowKeeps
    <3>3. CASE v # Blank
      <4>1. /\ v \in Request
            /\ v.row = row /\ v.audit = req[r].audit /\ v.ok = req[r].ok /\ v.late = req[r].late
            /\ v.step \in {"confirm", "read", "act"}
            /\ v.stage \in {req[r].stage, "create"}
            /\ v.mint <= config.window
        BY <1>0, <2>6, <3>1, <3>3, SnapshotShape
      <4>2. Knows(v)'
        BY <1>0, <2>4, <2>6, <2>9, <4>1 DEF Knows, Applied
      <4> QED  BY <2>4, <2>5, <2>9, <3>1, <4>1, <4>2, RowKeeps
    <3> QED  BY <3>2, <3>3
  <2> QED  BY <2>4, <2>8, <2>9
<1> QED  BY <1>1, <1>2

LEMMA ActivateWriteKeeps ==
  ASSUME Inv, NEW r \in Requests, ActivateWrite(r)
  PROVE  Inv'
<1>0. /\ TypeOK /\ req[r] \in Request /\ Knows(req[r]) /\ RowShape /\ LogShape /\ SettledHonestly
      /\ req[r].step = "write" /\ binding \in Row
  BY DEF Inv, World, TypeOK, Handlers, ActivateWrite, At
<1>1. PICK v : v = [req[r] EXCEPT !.step = "reread"]  OBVIOUS
<1>2. /\ v \in Request
      /\ v.step = "reread" /\ v.stage = req[r].stage /\ v.row = req[r].row /\ v.mint = req[r].mint
      /\ v.audit = req[r].audit /\ v.ok = req[r].ok /\ v.late = req[r].late
  BY <1>0, <1>1 DEF Request, Steps
<1>3. req' = [req EXCEPT ![r] = v]  BY <1>0, <1>1 DEF ActivateWrite, Goto, TypeOK
<1>4. Knows(v)  BY <1>0, <1>2 DEF Knows
<1>5. CASE binding.revision = req[r].row.revision /\ binding.status = "pending"
  <2>1. PICK b : b = [binding EXCEPT !.status = "active", !.audit = req[r].audit]  OBVIOUS
  <2>2. binding' = b  BY <1>5, <2>1 DEF ActivateWrite
  <2>3. req[r].audit \in Applied /\ req[r].audit \in Ids \cup {None}
    BY <1>0 DEF Knows, Request
  <2>4. req[r].audit # None
    <3>1. log \in Seq(Event)  BY <1>0 DEF TypeOK
    <3>2. Applied \subseteq Nat  BY <3>1 DEF Applied
    <3> QED  BY <2>3, <3>2, AbsentAssumption
  <2>5. /\ b \in Row
        /\ b.status = "active" /\ b.audit = req[r].audit /\ b.revision = binding.revision
        /\ b.intent = binding.intent /\ b.revocation = binding.revocation
        /\ b.by = binding.by /\ b.receipt = binding.receipt
    BY <1>0, <2>1, <2>3 DEF Row
  <2>6. binding.intent # None  BY <1>0, <2>3 DEF LogShape
  <2>7. Kept  BY <1>0, <1>5, <2>2, <2>5 DEF Kept, RowShape, ActivateWrite, Others
  <2>8. World'
    BY <1>0, <1>5, <2>2, <2>3, <2>4, <2>5, <2>6
    DEF World, RowShape, LogShape, SettledHonestly, Applied, ActivateWrite, Others
  <2>9. Knows(v)'  BY <1>2, <1>4, <2>7, KnowsLasts
  <2> QED  BY <1>2, <1>3, <2>2, <2>5, <2>7, <2>8, <2>9, RowKeeps DEF ActivateWrite, Others
<1>6. CASE ~(binding.revision = req[r].row.revision /\ binding.status = "pending")
  BY <1>0, <1>2, <1>3, <1>4, <1>6, AsideKeeps DEF ActivateWrite, Aside, Others, TypeOK
<1> QED  BY <1>5, <1>6

LEMMA RevokeKeeps ==
  ASSUME Inv, NEW r \in Requests, NEW a \in Admins, Revoke(r, a)
  PROVE  Inv'
<1>0. /\ TypeOK /\ RowShape /\ LogShape /\ binding \in Row /\ config.window \in Nat
      /\ binding.status # "absent" /\ Knows(Blank)
  BY WindowIsTime, BlankKnows DEF Inv, World, TypeOK, Revoke
<1>1. PICK b : b = Denied(binding, a)  OBVIOUS
<1>2. binding' = b  BY <1>1 DEF Revoke
<1>3. /\ b \in Row
      /\ b.status = "revoked" /\ b.revocation # "none" /\ b.intent = binding.intent
      /\ b.audit = binding.audit
      /\ binding.status = "revoked" => b = binding
      /\ binding.status # "revoked" => b.revocation = "pending"
  <2>1. CASE binding.status = "revoked"
    BY <1>0, <1>1, <2>1 DEF Denied, RowShape
  <2>2. CASE binding.status # "revoked"
    <3>1. binding.revision = 1  BY <1>0, <2>2 DEF RowShape, Row
    <3>2. b = [binding EXCEPT !.status = "revoked", !.revision = 2, !.revocation = "pending", !.by = a]
      BY <1>1, <2>2, <3>1 DEF Denied
    <3>3. /\ b.status = "revoked" /\ b.revision = 2 /\ b.revocation = "pending" /\ b.by = a
          /\ b.intent = binding.intent /\ b.audit = binding.audit /\ b.receipt = binding.receipt
      BY <1>0, <3>2 DEF Row
    <3>4. b \in Row
      <4>1. PICK b1 : b1 = [binding EXCEPT !.status = "revoked"]  OBVIOUS
      <4>2. b1 \in Row  BY <1>0, <4>1 DEF Row
      <4>3. PICK b2 : b2 = [b1 EXCEPT !.revision = 2]  OBVIOUS
      <4>4. b2 \in Row  BY <4>2, <4>3 DEF Row
      <4>5. PICK b3 : b3 = [b2 EXCEPT !.revocation = "pending"]  OBVIOUS
      <4>6. b3 \in Row  BY <4>4, <4>5 DEF Row
      <4>7. b = [b3 EXCEPT !.by = a]  BY <3>2, <4>1, <4>3, <4>5
      <4> QED  BY <4>6, <4>7 DEF Row
    <3> QED  BY <2>2, <3>3, <3>4
  <2> QED  BY <2>1, <2>2
<1>4. PICK v : v = [Blank EXCEPT !.step = "cleanup", !.kind = "revoke", !.row = b]  OBVIOUS
<1>5. /\ v \in Request
      /\ v.step = "cleanup" /\ v.row = b /\ v.stage = None /\ v.audit = None
      /\ v.ok = FALSE /\ v.late = FALSE /\ v.mint = 0
  BY <1>3, <1>4, BlankTyped DEF Blank, Request, Steps
<1>6. req' = [req EXCEPT ![r] = v]  BY <1>2, <1>4 DEF Revoke
<1>7. Kept  BY <1>2, <1>3 DEF Kept, Revoke, Others
<1>8. World'
  BY <1>0, <1>2, <1>3
  DEF Inv, World, RowShape, LogShape, SettledHonestly, Applied, Revoke, Others
<1>9. Knows(v)'
  BY <1>0, <1>2, <1>3, <1>5, AbsentAssumption DEF Knows, Stages, Revoke, Others
<1> QED  BY <1>2, <1>3, <1>5, <1>6, <1>7, <1>8, <1>9, RowKeeps DEF Revoke, Others

LEMMA CompleteRevocationKeeps ==
  ASSUME Inv, NEW r \in Requests, CompleteRevocation(r)
  PROVE  Inv'
<1>0. /\ TypeOK /\ req[r] \in Request /\ Knows(req[r]) /\ RowShape /\ LogShape
      /\ req[r].step = "complete" /\ binding \in Row /\ Knows(Blank)
  BY BlankKnows DEF Inv, World, TypeOK, Handlers, CompleteRevocation, At
<1>1. CASE ~( /\ binding.revision = req[r].row.revision
              /\ binding.status = "revoked" /\ binding.revocation = "pending")
  BY <1>0, <1>1, EndKeeps DEF CompleteRevocation, Aside, Others, TypeOK
<1>2. CASE /\ binding.revision = req[r].row.revision
           /\ binding.status = "revoked" /\ binding.revocation = "pending"
  <2>1. PICK b : b = [binding EXCEPT !.revocation = "complete", !.receipt = req[r].audit]  OBVIOUS
  <2>2. binding' = b  BY <1>2, <2>1 DEF CompleteRevocation
  <2>3. /\ b \in Row
        /\ b.status = binding.status /\ b.revision = binding.revision /\ b.intent = binding.intent
        /\ b.audit = binding.audit /\ b.by = binding.by
        /\ b.revocation = "complete" /\ b.receipt = req[r].audit
    BY <1>0, <2>1 DEF Row, Request
  <2>4. Kept  BY <2>2, <2>3 DEF Kept, CompleteRevocation, Others
  <2>5. World'
    BY <1>0, <1>2, <2>2, <2>3
    DEF World, RowShape, LogShape, SettledHonestly, Applied, Knows, CompleteRevocation, Others
  <2>6. Knows(Blank)' /\ Blank \in Request  BY <1>0, <2>4, BlankTyped, KnowsLasts
  <2> QED  BY <2>2, <2>3, <2>4, <2>5, <2>6, RowKeeps DEF CompleteRevocation, End, Others
<1> QED  BY <1>1, <1>2

-----------------------------------------------------------------------------
(* The steps that write the audit log, and the clean-up.                   *)

LEMMA LogKeeps ==
  ASSUME Inv, NEW r \in Requests, NEW v \in Request,
         Kept, World', Knows(v)', req' = [req EXCEPT ![r] = v],
         log' \in Seq(Event), Len(log') <= MaxEvents, cleaned' \in BOOLEAN, access' \in Access,
         UNCHANGED <<now, config, binding, source, sessions>>
  PROVE  Inv'
<1>1. req' \in [Requests -> Request] /\ Handlers'  BY HandlersKeep
<1>2. TypeOK'  BY <1>1 DEF Inv, TypeOK
<1> QED  BY <1>1, <1>2 DEF Inv

LEMMA Appended ==
  ASSUME TypeOK, NEW e \in Event, Len(log) < MaxEvents, log' = Append(log, e)
  PROVE  /\ log' \in Seq(Event) /\ Len(log') = Len(log) + 1 /\ Len(log') <= MaxEvents
         /\ Len(log) \in Nat /\ DOMAIN log = 1 .. Len(log) /\ DOMAIN log' = 1 .. Len(log')
         /\ \A i \in DOMAIN log : i \in DOMAIN log' /\ log'[i] = log[i]
         /\ log'[Len(log')] = e
BY BoundAssumption DEF TypeOK

LEMMA AuditAppliedKeeps ==
  ASSUME Inv, NEW r \in Requests, AuditApplied(r)
  PROVE  Inv'
<1>0. /\ TypeOK /\ req[r] \in Request /\ Knows(req[r]) /\ RowShape /\ LogShape /\ SettledHonestly
      /\ req[r].step = "audit" /\ log \in Seq(Event) /\ req[r].row \in Row
  BY DEF Inv, World, TypeOK, Handlers, Request, AuditApplied, At
<1>1. req[r].row.intent # None /\ binding.intent = req[r].row.intent  BY <1>0 DEF Knows
<1>2. PICK i \in DOMAIN log' :
        /\ log'[i].action = "applied"
        /\ req' = [req EXCEPT ![r].audit = i, ![r].stage = "recheck", ![r].step = "read"]
  BY DEF AuditApplied
<1>3. /\ log' \in Seq(Event) /\ Len(log') <= MaxEvents
      /\ \A j \in DOMAIN log : j \in DOMAIN log' /\ log'[j] = log[j]
      /\ LogShape'
  <2>1. CASE Applied = {}
    <3>1. PICK e : e = [action |-> "applied", intent |-> req[r].row.intent, by |-> None]  OBVIOUS
    <3>2. e \in Event /\ e.intent = req[r].row.intent  BY <1>0, <3>1 DEF Event, Row
    <3>3. Len(log) < MaxEvents /\ log' = Append(log, e)  BY <2>1, <3>1 DEF AuditApplied
    <3>4. /\ log' \in Seq(Event) /\ Len(log') = Len(log) + 1 /\ Len(log') <= MaxEvents
          /\ Len(log) \in Nat /\ DOMAIN log = 1 .. Len(log) /\ DOMAIN log' = 1 .. Len(log')
          /\ \A j \in DOMAIN log : j \in DOMAIN log' /\ log'[j] = log[j]
          /\ log'[Len(log')] = e
      BY <1>0, <3>2, <3>3, Appended
    <3>5. \A j \in Applied' : j = Len(log')  BY <2>1, <3>4 DEF Applied
    <3>6. LogShape'
      BY <1>0, <1>1, <2>1, <3>2, <3>4, <3>5 DEF LogShape, AuditApplied
    <3> QED  BY <3>4, <3>6
  <2>2. CASE Applied # {}
    <3>1. log' = log /\ binding' = binding  BY <2>2 DEF AuditApplied
    <3> QED  BY <1>0, <3>1 DEF TypeOK, LogShape, Applied
  <2> QED  BY <2>1, <2>2
<1>4. Kept  BY <1>3 DEF Kept, AuditApplied, Others
<1>5. World'
  BY <1>0, <1>3 DEF World, RowShape, SettledHonestly, AuditApplied
<1>6. PICK v : v = [[[req[r] EXCEPT !.audit = i] EXCEPT !.stage = "recheck"] EXCEPT !.step = "read"]
  OBVIOUS
<1>7. i \in Ids /\ i \in Applied'
  BY <1>2, <1>3, BoundAssumption DEF Applied, Ids
<1>8. /\ v \in Request
      /\ v.step = "read" /\ v.stage = "recheck" /\ v.row = req[r].row /\ v.mint = req[r].mint
      /\ v.audit = i /\ v.ok = req[r].ok /\ v.late = req[r].late
  BY <1>0, <1>6, <1>7 DEF Request, Steps, Stages
<1>9. req' = [req EXCEPT ![r] = v]  BY <1>0, <1>2, <1>6 DEF TypeOK, Request
<1>10. Knows(v)'
  BY <1>0, <1>7, <1>8 DEF Knows, AuditApplied, Others
<1> QED
  BY <1>0, <1>3, <1>4, <1>5, <1>8, <1>9, <1>10, LogKeeps DEF AuditApplied, Others, TypeOK

LEMMA AuditRevokedKeeps ==
  ASSUME Inv, NEW r \in Requests, AuditRevoked(r)
  PROVE  Inv'
<1>0. /\ TypeOK /\ req[r] \in Request /\ Knows(req[r]) /\ RowShape /\ LogShape /\ SettledHonestly
      /\ req[r].step = "log" /\ log \in Seq(Event) /\ req[r].row \in Row /\ Knows(Blank)
  BY BlankKnows DEF Inv, World, TypeOK, Handlers, Request, AuditRevoked, At
<1>1. PICK e : e = [action |-> "revoked", intent |-> None, by |-> req[r].row.by]  OBVIOUS
<1>2. e \in Event /\ e.action = "revoked" /\ e.by = req[r].row.by
  BY <1>0, <1>1 DEF Event, Row
<1>3. Len(log) < MaxEvents /\ log' = Append(log, e)  BY <1>1 DEF AuditRevoked
<1>4. /\ log' \in Seq(Event) /\ Len(log') = Len(log) + 1 /\ Len(log') <= MaxEvents
      /\ Len(log) \in Nat /\ DOMAIN log = 1 .. Len(log) /\ DOMAIN log' = 1 .. Len(log')
      /\ \A j \in DOMAIN log : j \in DOMAIN log' /\ log'[j] = log[j]
      /\ log'[Len(log')] = e
  BY <1>0, <1>2, <1>3, Appended
<1>5. Kept  BY <1>4 DEF Kept, AuditRevoked, Others
<1>6. Applied' = Applied  BY <1>2, <1>4 DEF Applied
<1>7. LogShape'
  BY <1>0, <1>4, <1>6 DEF LogShape, Applied, AuditRevoked
<1>8. World'
  BY <1>0, <1>4, <1>7 DEF World, RowShape, SettledHonestly, AuditRevoked
<1>9. CASE req[r].ok
  <2>1. PICK n : n = Len(log')  OBVIOUS
  <2>2. n \in Ids /\ n \in DOMAIN log' /\ log'[n] = e  BY <1>4, <2>1, BoundAssumption DEF Ids
  <2>3. PICK v : v = [[req[r] EXCEPT !.audit = n] EXCEPT !.step = "complete"]  OBVIOUS
  <2>4. /\ v \in Request
        /\ v.step = "complete" /\ v.stage = req[r].stage /\ v.row = req[r].row /\ v.mint = req[r].mint
        /\ v.audit = n /\ v.ok = req[r].ok /\ v.late = req[r].late
    BY <1>0, <2>2, <2>3 DEF Request, Steps
  <2>5. req' = [req EXCEPT ![r] = v]
    BY <1>0, <1>9, <2>1, <2>3 DEF TypeOK, Request, AuditRevoked
  <2>6. Knows(v)'
    BY <1>0, <1>2, <1>9, <2>2, <2>4, AbsentAssumption DEF Knows, Stages, AuditRevoked, Others
  <2> QED
    BY <1>0, <1>4, <1>5, <1>8, <2>4, <2>5, <2>6, LogKeeps DEF AuditRevoked, Others, TypeOK
<1>10. CASE ~req[r].ok
  <2>1. Knows(Blank)' /\ Blank \in Request  BY <1>0, <1>5, BlankTyped, KnowsLasts
  <2> QED
    BY <1>0, <1>4, <1>5, <1>8, <1>10, <2>1, LogKeeps DEF AuditRevoked, End, Others, TypeOK
<1> QED  BY <1>9, <1>10

LEMMA RevokeRoleKeeps ==
  ASSUME Inv, NEW r \in Requests, RevokeRole(r)
  PROVE  Inv'
<1>0. /\ TypeOK /\ req[r] \in Request /\ Knows(req[r]) /\ RowShape /\ LogShape /\ SettledHonestly
      /\ req[r].step = "cleanup"
  BY DEF Inv, World, TypeOK, Handlers, RevokeRole, At
<1>1. CASE /\ access' = [access EXCEPT !.assigned = FALSE] /\ cleaned' = TRUE
           /\ req' = [req EXCEPT ![r].ok = TRUE, ![r].step = "log"]
  <2>1. PICK v : v = [[req[r] EXCEPT !.ok = TRUE] EXCEPT !.step = "log"]  OBVIOUS
  <2>2. /\ v \in Request
        /\ v.step = "log" /\ v.stage = req[r].stage /\ v.row = req[r].row /\ v.mint = req[r].mint
        /\ v.audit = req[r].audit /\ v.ok = TRUE /\ v.late = req[r].late
    BY <1>0, <2>1 DEF Request, Steps
  <2>3. req' = [req EXCEPT ![r] = v]  BY <1>0, <1>1, <2>1 DEF TypeOK, Request
  <2>4. access' \in Access  BY <1>0, <1>1 DEF TypeOK, Access
  <2>5. Kept  BY <1>1 DEF Kept, RevokeRole, Others
  <2>6. World'
    BY <1>0, <1>1 DEF World, RowShape, LogShape, SettledHonestly, Applied, RevokeRole
  <2>7. Knows(v)'
    BY <1>0, <1>1, <2>2 DEF Knows, Applied, RevokeRole, Others
  <2> QED
    BY <1>0, <1>1, <2>2, <2>3, <2>4, <2>5, <2>6, <2>7, LogKeeps DEF RevokeRole, Others, TypeOK
<1>2. CASE Goto(r, "log") /\ UNCHANGED <<access, cleaned>>
  <2>1. PICK v : v = [req[r] EXCEPT !.step = "log"]  OBVIOUS
  <2>2. /\ v \in Request
        /\ v.step = "log" /\ v.stage = req[r].stage /\ v.row = req[r].row /\ v.mint = req[r].mint
        /\ v.audit = req[r].audit /\ v.ok = req[r].ok /\ v.late = req[r].late
    BY <1>0, <2>1 DEF Request, Steps
  <2>3. req' = [req EXCEPT ![r] = v]  BY <1>0, <1>2, <2>1 DEF TypeOK, Goto
  <2>4. Knows(v)  BY <1>0, <2>2 DEF Knows
  <2> QED  BY <1>0, <1>2, <2>2, <2>3, <2>4, AsideKeeps DEF RevokeRole, Aside, Others, TypeOK
<1> QED  BY <1>1, <1>2 DEF RevokeRole

-----------------------------------------------------------------------------
(* The steps of nobody's handler.                                          *)

LEMMA RestartKeeps ==
  ASSUME Inv, Restart
  PROVE  Inv'
<1>0. TypeOK /\ World  BY DEF Inv
<1>1. World'
  BY <1>0 DEF World, RowShape, LogShape, SettledHonestly, Applied, Restart
<1>2. TypeOK'  BY <1>0, BlankTyped DEF TypeOK, Restart
<1>3. config'.window \in Nat  BY ConfigAssumption DEF Restart
<1>4. /\ Blank.row.intent = None /\ Blank.row.audit = None /\ Blank.step = "idle"
      /\ Blank.stage = None /\ Blank.late = FALSE /\ Blank.mint = 0 /\ Blank.ok = FALSE
  BY DEF Blank, NoRow
<1>5. Knows(Blank)'  BY <1>3, <1>4, AbsentAssumption DEF Knows, Stages
<1>6. Handlers'  BY <1>5 DEF Handlers, Restart, Knows
<1> QED  BY <1>1, <1>2, <1>6 DEF Inv

(* Access Control, the sources, the clock.                                 *)
LEMMA OutsideKeeps ==
  ASSUME Inv, Unassign \/ SetSource \/ Tick \/ UNCHANGED vars
  PROVE  Inv'
<1>0. TypeOK /\ World /\ Handlers  BY DEF Inv
<1>1. UNCHANGED <<config, binding, log, sessions, cleaned, req>>
  BY DEF Unassign, SetSource, Tick, vars, Others
<1>2. World'
  BY <1>0, <1>1 DEF World, RowShape, LogShape, SettledHonestly, Applied
<1>3. Handlers'  BY <1>0, <1>1 DEF Handlers, Knows, Applied
<1>4. access' \in Access
  BY <1>0 DEF TypeOK, Access, Unassign, SetSource, Tick, vars
<1>5. source' \in BOOLEAN /\ now' \in 0 .. MaxTime
  <2>1. source \in BOOLEAN /\ now \in 0 .. MaxTime /\ MaxTime \in Nat
    BY <1>0, BoundAssumption DEF TypeOK
  <2>2. CASE Unassign  BY <2>1, <2>2 DEF Unassign, Others
  <2>3. CASE SetSource
    <3>1. source' \in BOOLEAN  BY <2>3 DEF SetSource
    <3> QED  BY <2>1, <2>3, <3>1 DEF SetSource
  <2>4. CASE Tick
    <3>1. now' \in 0 .. MaxTime  BY <2>1, <2>4 DEF Tick
    <3>2. source' = source  BY <2>4 DEF Tick
    <3> QED  BY <2>1, <3>1, <3>2
  <2>5. CASE UNCHANGED vars  BY <2>1, <2>5 DEF vars
  <2> QED  BY <2>2, <2>3, <2>4, <2>5
<1>6. TypeOK'  BY <1>0, <1>1, <1>4, <1>5 DEF TypeOK
<1> QED  BY <1>2, <1>3, <1>6 DEF Inv

LEMMA InvInit == Init => Inv
<1> SUFFICES ASSUME Init PROVE Inv  OBVIOUS
<1>1. Len(log) = 0 /\ log \in Seq(Event) /\ Applied = {}  BY DEF Init, Applied
<1>2. TypeOK
  <2>1. now \in 0 .. MaxTime /\ Len(log) <= MaxEvents  BY <1>1, BoundAssumption DEF Init
  <2>2. access \in Access  BY DEF Init, Access
  <2>3. binding \in Row /\ req \in [Requests -> Request]  BY BlankTyped DEF Init
  <2>4. source \in BOOLEAN /\ cleaned \in BOOLEAN  BY DEF Init
  <2> QED  BY <1>1, <2>1, <2>2, <2>3, <2>4 DEF Init, TypeOK
<1>3. Handlers  BY <1>2, BlankKnows DEF Init, Handlers
<1>4. World  BY <1>1, AbsentAssumption DEF Init, World, RowShape, LogShape, SettledHonestly, NoRow
<1> QED  BY <1>2, <1>3, <1>4 DEF Inv

LEMMA InvNext == Inv /\ [Next]_vars => Inv'
<1> SUFFICES ASSUME Inv, [Next]_vars PROVE Inv'  OBVIOUS
<1>1. ASSUME NEW r \in Requests, Activation(r) PROVE Inv'
  BY <1>1, BootstrapKeeps, PrepareKeeps, BootstrapScopeKeeps, ResumeKeeps, SnapshotReadKeeps, SnapshotMintKeeps,
     GrantRoleKeeps, CheckKeeps, AuditAppliedKeeps, ActivateReadKeeps, ActivateWriteKeeps,
     ActivateRereadKeeps, ConfirmKeeps DEF Activation
<1>2. ASSUME NEW r \in Requests, Revocation(r) PROVE Inv'
  BY <1>2, RevokeKeeps, RecoverKeeps, RevokeRoleKeeps, AuditRevokedKeeps, CompleteRevocationKeeps
  DEF Revocation
<1>3. ASSUME NEW r \in Requests, Sessions(r) PROVE Inv'
  BY <1>3, ExchangeKeeps, PermitKeeps, ClaimKeeps, AuthenticateKeeps, AdmitKeeps, AdmitSourceKeeps,
     InsertKeeps DEF Sessions
<1> QED  BY <1>1, <1>2, <1>3, AbandonKeeps, RestartKeeps, OutsideKeeps DEF Next

LEMMA InvAlways == Spec => []Inv
BY InvInit, InvNext, PTL DEF Spec

(* The state is well typed, and the row has no third revision.             *)
THEOREM TypesHold == Spec => []TypeOK
<1>1. Inv => TypeOK  BY DEF Inv
<1> QED  BY <1>1, InvAlways, PTL

(* A binding that is active, or was said to be, rests on the one applied   *)
(* event of the audit log, and that event shows its intent.                *)
THEOREM ActiveIsAuditedHolds == Spec => []ActiveIsAudited
<1>1. Inv => ActiveIsAudited
  BY DEF Inv, World, RowShape, LogShape, Handlers, Knows, ActiveIsAudited, At
<1> QED  BY <1>1, InvAlways, PTL

(* A complete revocation has removed the role, and names who denied.       *)
THEOREM SettledHonestlyHolds == Spec => []SettledHonestly
<1>1. Inv => SettledHonestly  BY DEF Inv, World
<1> QED  BY <1>1, InvAlways, PTL

(* No authentication that begins after the denial honours a session.       *)
THEOREM NoneHonouredHolds == Spec => []NoneHonouredAfterDenial
<1>1. Inv => NoneHonouredAfterDenial
  BY DEF Inv, Handlers, Knows, NoneHonouredAfterDenial, At
<1> QED  BY <1>1, InvAlways, PTL

-----------------------------------------------------------------------------
(* After the window, no control assertion is left that could give a role.  *)

LEMMA CleanNext ==
  ASSUME Inv, [Next]_vars, binding.status = "revoked", ~Open, ~access.assigned
  PROVE  ~access'.assigned
<1>0. access \in Access /\ now \in Nat /\ config.window \in Nat
  BY WindowIsTime, BoundAssumption DEF Inv, TypeOK
<1>1. ASSUME NEW r \in Requests, GrantRole(r) PROVE ~access'.assigned
  <2>1. req[r] \in Request /\ req[r].mint <= config.window
    BY DEF Inv, TypeOK, Handlers, Knows
  <2>2. ~(now < req[r].mint)  BY <1>0, <2>1 DEF Open, Request
  <2> QED  BY <1>1, <2>2 DEF GrantRole
<1>2. ASSUME NEW r \in Requests, BootstrapScope(r) PROVE ~access'.assigned
  BY <1>0, <1>2 DEF BootstrapScope, Access
<1>3. ASSUME NEW r \in Requests, RevokeRole(r) PROVE ~access'.assigned
  BY <1>0, <1>3 DEF RevokeRole, Access
<1>4. CASE Unassign  BY <1>0, <1>4 DEF Unassign, Access
<1>5. ASSUME NEW r \in Requests, Activation(r) PROVE ~access'.assigned
  BY <1>1, <1>2, <1>5
  DEF Activation, Bootstrap, Prepare, Resume, SnapshotRead, SnapshotMint, Check, AuditApplied,
      ActivateRead, ActivateWrite, ActivateReread, Confirm
<1>6. ASSUME NEW r \in Requests, Revocation(r) PROVE ~access'.assigned
  BY <1>3, <1>6 DEF Revocation, Revoke, Recover, AuditRevoked, CompleteRevocation
<1>7. ASSUME NEW r \in Requests, Sessions(r) PROVE ~access'.assigned
  BY <1>7 DEF Sessions, Exchange, Permit, Claim, Authenticate, Admit, AdmitSource, Insert
<1> QED
  BY <1>4, <1>5, <1>6, <1>7 DEF Next, Abandon, Restart, SetSource, Tick, vars

(* Once a denied binding is without its role and its window has passed, no *)
(* activation that is still in progress gives the role back.               *)
THEOREM CleanStaysCleanHolds == Spec => CleanStaysClean
<1>1. Inv /\ [Next]_vars =>
        [binding.status = "revoked" /\ ~Open /\ ~access.assigned => ~access'.assigned]_vars
  BY CleanNext
<1> QED  BY <1>1, InvAlways, PTL DEF Spec, CleanStaysClean

-----------------------------------------------------------------------------
(* The row implements its lifecycle.                                       *)

LEMMA LifecycleInit == Init => Lifecycle!Init
BY DEF Init, Lifecycle!Init, NoRow, Phase

LEMMA LifecycleStays ==
  ASSUME UNCHANGED binding
  PROVE  [Lifecycle!Next]_Lifecycle!vars
BY DEF Lifecycle!vars, Phase

LEMMA LifecycleNext ==
  ASSUME Inv, [Next]_vars
  PROVE  [Lifecycle!Next]_Lifecycle!vars
<1>0. TypeOK /\ RowShape /\ LogShape /\ binding \in Row  BY DEF Inv, World, TypeOK
<1> USE DEF Lifecycle!Next, Lifecycle!vars, Lifecycle!Prepare, Lifecycle!Fix, Lifecycle!Activate,
            Lifecycle!Deny, Lifecycle!Settle
<1>1. ASSUME NEW r \in Requests, Prepare(r) PROVE [Lifecycle!Next]_Lifecycle!vars
  <2>1. CASE binding.status = "absent"
    <3>1. /\ binding'.status = "pending" /\ binding'.revocation = "none" /\ binding'.intent = None
      BY <1>1, <2>1 DEF Prepare, Prepared, NoRow
    <3>2. binding.revocation = "none" /\ binding.intent = None  BY <1>0, <2>1 DEF RowShape
    <3>3. Phase = "absent" /\ Phase' = "pending"  BY <2>1, <3>1, <3>2 DEF Phase
    <3> QED  BY <3>1, <3>2, <3>3
  <2>2. CASE binding.status # "absent"
    <3>1. UNCHANGED binding  BY <1>1, <2>2 DEF Prepare, Prepared
    <3> QED  BY <3>1, LifecycleStays
  <2> QED  BY <2>1, <2>2
<1>2. ASSUME NEW r \in Requests, SnapshotMint(r) PROVE [Lifecycle!Next]_Lifecycle!vars
  <2>1. PICK b : binding' = b /\ (b = binding \/ b = Fixed(binding))
    BY <1>2 DEF SnapshotMint
  <2>2. /\ b \in Row
        /\ b.status = binding.status /\ b.revocation = binding.revocation
        /\ binding.intent # None => b.intent = binding.intent
        /\ binding.status # "pending" => b.intent = binding.intent
    BY <1>0, <2>1, FixedRow
  <2>3. Phase' = Phase  BY <2>1, <2>2 DEF Phase
  <2>4. CASE b.intent = binding.intent  BY <2>1, <2>3, <2>4
  <2>5. CASE b.intent # binding.intent
    <3>1. binding.status = "pending" /\ binding.intent = None  BY <2>2, <2>5
    <3>2. Phase = "pending"  BY <1>0, <3>1 DEF Phase, RowShape
    <3>3. b.intent \in Intents  BY <2>2, <2>5, <3>1 DEF Row
    <3> QED  BY <2>1, <2>3, <3>1, <3>2, <3>3
  <2> QED  BY <2>4, <2>5
<1>3. ASSUME NEW r \in Requests, ActivateWrite(r) PROVE [Lifecycle!Next]_Lifecycle!vars
  <2>1. CASE binding.revision = req[r].row.revision /\ binding.status = "pending"
    <3>1. binding' = [binding EXCEPT !.status = "active", !.audit = req[r].audit]
      BY <1>3, <2>1 DEF ActivateWrite
    <3>2. binding'.status = "active" /\ binding'.intent = binding.intent
          /\ binding'.revocation = binding.revocation
      BY <1>0, <3>1 DEF Row
    <3>3. binding.intent # None
      <4>1. Knows(req[r]) /\ req[r].step = "write"  BY <1>3 DEF Inv, Handlers, ActivateWrite, At
      <4> QED  BY <4>1 DEF Knows
    <3>4. Phase = "pending" /\ Phase' = "active"  BY <1>0, <2>1, <3>2 DEF Phase, RowShape
    <3> QED  BY <3>2, <3>3, <3>4
  <2>2. CASE ~(binding.revision = req[r].row.revision /\ binding.status = "pending")
    <3>1. UNCHANGED binding  BY <1>3, <2>2 DEF ActivateWrite
    <3> QED  BY <3>1, LifecycleStays
  <2> QED  BY <2>1, <2>2
<1>4. ASSUME NEW r \in Requests, NEW a \in Admins, Revoke(r, a)
      PROVE  [Lifecycle!Next]_Lifecycle!vars
  <2>1. CASE binding.status = "revoked"
    <3>1. UNCHANGED binding  BY <1>4, <2>1 DEF Revoke, Denied
    <3> QED  BY <3>1, LifecycleStays
  <2>2. CASE binding.status # "revoked"
    <3>1. binding' = [binding EXCEPT !.status = "revoked", !.revision = binding.revision + 1,
                                     !.revocation = "pending", !.by = a]
      BY <1>4, <2>2 DEF Revoke, Denied
    <3>2. binding'.status = "revoked" /\ binding'.intent = binding.intent
          /\ binding'.revocation = "pending"
      BY <1>0, <3>1 DEF Row
    <3>3. binding.status \in {"pending", "active"}  BY <1>0, <1>4, <2>2 DEF Revoke, Row
    <3>4. Phase \in {"pending", "active"} /\ Phase' = "denied"
      BY <1>0, <2>2, <3>2, <3>3 DEF Phase, RowShape
    <3> QED  BY <3>2, <3>4
  <2> QED  BY <2>1, <2>2
<1>5. ASSUME NEW r \in Requests, CompleteRevocation(r) PROVE [Lifecycle!Next]_Lifecycle!vars
  <2>1. CASE UNCHANGED binding  BY <2>1, LifecycleStays
  <2>2. CASE ~UNCHANGED binding
    <3>1. /\ binding.revocation = "pending"
          /\ binding' = [binding EXCEPT !.revocation = "complete", !.receipt = req[r].audit]
      BY <1>5, <2>2 DEF CompleteRevocation
    <3>2. binding'.intent = binding.intent /\ binding'.revocation = "complete"
      BY <1>0, <3>1 DEF Row
    <3>3. Phase = "denied" /\ Phase' = "settled"  BY <3>1, <3>2 DEF Phase
    <3> QED  BY <3>2, <3>3
  <2> QED  BY <2>1, <2>2
<1>6. CASE UNCHANGED binding  BY Zenon, <1>6, LifecycleStays
<1>7. \/ UNCHANGED binding
      \/ \E r \in Requests :
           \/ Prepare(r) \/ SnapshotMint(r) \/ ActivateWrite(r) \/ CompleteRevocation(r)
           \/ \E a \in Admins : Revoke(r, a)
  BY DEF Next, Activation, Revocation, Sessions, Bootstrap, BootstrapScope, Resume, SnapshotRead, GrantRole, Check,
         AuditApplied, ActivateRead, ActivateReread, Confirm, Recover, RevokeRole, AuditRevoked,
         Exchange, Permit, Claim, Authenticate, Admit, AdmitSource, Insert, Abandon, Restart,
         Unassign, SetSource, Tick, vars
<1> QED  BY <1>1, <1>2, <1>3, <1>4, <1>5, <1>6, <1>7

(* The row becomes active at most once, with one intent, and a denial is   *)
(* for good: whatever is in progress, the binding implements its lifecycle.*)
THEOREM LifecycleImplemented == Spec => ImplementsLifecycle
BY InvAlways, LifecycleInit, LifecycleNext, PTL DEF Spec, ImplementsLifecycle, Lifecycle!Spec
================================================================================
