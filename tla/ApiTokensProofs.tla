---------------------------- MODULE ApiTokensProofs ----------------------------
(***************************************************************************)
(* Proofs about ApiTokens, for all sets of permissions, intents, keys,     *)
(* tokens and handlers, and for any lifetimes.                             *)
(***************************************************************************)
EXTENDS ApiTokens, TLAPS

-----------------------------------------------------------------------------
(* The inductive invariant.                                                *)

Locked   == {"lookup", "commit"}
Intended == {"may", "check", "maystill", "lock", "answer"} \cup Locked
Holding  == {"answer", "clock", "record", "accepted"}

(* What a handler knows at each of its steps.                              *)
Handlers ==
  \A r \in Requests :
    /\ req[r].step \in Intended => req[r].key \in Keys /\ req[r].intent \in Asked
    /\ req[r].step \in Holding => req[r].token \in Tokens /\ token[req[r].token].state = "issued"

(* The advisory lock of a key is held by one transaction.                  *)
KeyLock ==
  \A r \in Requests, q \in Requests :
    req[r].step \in Locked /\ req[q].step \in Locked /\ req[r].key = req[q].key => r = q

Unissued == \A t \in Tokens : token[t].state = "absent" => token[t].key = None /\ ~token[t].current

(* An answer that is on its way is the record of the issue.                *)
Answering ==
  \A r \in Requests : At(r, "answer") =>
    issuance[req[r].key] = [intent |-> req[r].intent, token |-> req[r].token]

(* What was inspected last still holds, if nothing has changed since.      *)
Inspection ==
  \A r \in Requests : req[r].current => parent.live /\ req[r].intent.ceiling \subseteq parent.ceiling

(* What was read of a token: its deadline never moves, and what ended it   *)
(* never heals.                                                            *)
Authentication ==
  \A r \in Requests :
    /\ At(r, "clock") => req[r].row.expires = token[req[r].token].expires
    /\ At(r, "record") => /\ req[r].until <= token[req[r].token].expires
                          /\ req[r].late => ~Live(req[r].token)

Inv == /\ TypeOK /\ Handlers /\ KeyLock /\ Unissued /\ Answering /\ Inspection /\ Authentication
       /\ OneTokenPerKey /\ WithinSession /\ AcceptedWhileLive

-----------------------------------------------------------------------------
(* Each action keeps the invariant.                                        *)

LEMMA BlankTyped == Blank \in Request /\ NoToken \in Token
BY DEF Blank, Request, Steps, NoIntent, NoRow, Row, NoToken, Token

LEMMA EndKeeps ==
  ASSUME Inv,
         NEW r \in Requests,
         End(r),
         UNCHANGED <<External, Tables>>
  PROVE  Inv'
<1> USE DEF At, Goto, End, External, Tables, Locked, Intended, Holding
<1>0. TypeOK /\ Handlers  BY DEF Inv
<1>q. /\ \A q \in Requests : q # r => req'[q] = req[q]
      /\ req' \in [Requests -> Request]
      /\ req[r] \in Request
      /\ req'[r] = Blank /\ Blank.step = "idle" /\ Blank.current = FALSE
  BY <1>0, BlankTyped DEF TypeOK, Handlers, Blank, Request, Steps
<1>1. TypeOK'
  BY <1>0, <1>q, BoundAssumption, AbsentAssumption, BlankTyped
  DEF Inv, TypeOK, Handlers, Request, Token, Issuance
<1>2. Handlers'
  BY <1>0, <1>q
  DEF Inv, TypeOK, Handlers, Blank
<1>3. KeyLock'
  BY <1>0, <1>q
  DEF Inv, TypeOK, Handlers, KeyLock, Blank
<1>4. Unissued'
  BY <1>0, <1>q
  DEF Inv, TypeOK, Handlers, Unissued
<1>5. Answering'
  BY <1>0, <1>q
  DEF Inv, TypeOK, Handlers, Answering, Blank
<1>6. Inspection'
  BY <1>0, <1>q
  DEF Inv, TypeOK, Handlers, Inspection, Blank
<1>7. Authentication'
  BY <1>0, <1>q
  DEF Inv, TypeOK, Handlers, Authentication, Blank, Live
<1>8. OneTokenPerKey'
  BY <1>0, <1>q, AbsentAssumption
  DEF Inv, TypeOK, Handlers, OneTokenPerKey, Blank, Answer
<1>9. WithinSession'
  BY <1>0, <1>q
  DEF Inv, TypeOK, Handlers, WithinSession, Token
<1>10. AcceptedWhileLive'
  BY <1>0, <1>q
  DEF Inv, TypeOK, Handlers, AcceptedWhileLive, Blank
<1> QED
  BY <1>1, <1>2, <1>3, <1>4, <1>5, <1>6, <1>7, <1>8, <1>9, <1>10 DEF Inv

LEMMA HumanIssueKeeps ==
  ASSUME Inv,
         NEW r \in Requests,
         NEW k \in Keys,
         NEW intent \in Asked,
         HumanIssue(r, k, intent)
  PROVE  Inv'
<1> USE DEF HumanIssue, At, Goto, End, External, Tables, Locked, Intended, Holding
<1>0. TypeOK /\ Handlers  BY DEF Inv
<1>q. /\ \A q \in Requests : q # r => req'[q] = req[q]
      /\ req' \in [Requests -> Request]
      /\ req[r] \in Request
      /\ req'[r].step = "may" /\ req'[r].key = k /\ req'[r].intent = intent
      /\ req'[r].current = FALSE
  <2> DEFINE v == [Blank EXCEPT !.step = "may", !.key = k, !.intent = intent, !.left = intent.ceiling]
  <2>1. req \in [Requests -> Request] /\ req[r] \in Request /\ intent.ceiling \in SUBSET Permissions
    BY <1>0, IntentAssumption DEF TypeOK, Handlers
  <2>2. /\ v \in Request
        /\ v.step = "may" /\ v.key = k /\ v.intent = intent
        /\ v.current = FALSE
    BY <2>1, BlankTyped, IntentAssumption DEF Blank, Request, Steps
  <2>3. req' = [req EXCEPT ![r] = v]
    BY <2>1 DEF Request
  <2> HIDE DEF v
  <2> QED  BY <2>1, <2>2, <2>3
<1>1. TypeOK'
  BY <1>0, <1>q, BoundAssumption, AbsentAssumption, BlankTyped
  DEF Inv, TypeOK, Handlers, Request, Token, Issuance
<1>2. Handlers'
  BY <1>0, <1>q
  DEF Inv, TypeOK, Handlers, Blank
<1>3. KeyLock'
  BY <1>0, <1>q
  DEF Inv, TypeOK, Handlers, KeyLock, Blank
<1>4. Unissued'
  BY <1>0, <1>q
  DEF Inv, TypeOK, Handlers, Unissued
<1>5. Answering'
  BY <1>0, <1>q
  DEF Inv, TypeOK, Handlers, Answering, Blank
<1>6. Inspection'
  BY <1>0, <1>q
  DEF Inv, TypeOK, Handlers, Inspection, Blank
<1>7. Authentication'
  BY <1>0, <1>q
  DEF Inv, TypeOK, Handlers, Authentication, Blank, Live
<1>8. OneTokenPerKey'
  BY <1>0, <1>q, AbsentAssumption
  DEF Inv, TypeOK, Handlers, OneTokenPerKey, Blank, Answer
<1>9. WithinSession'
  BY <1>0, <1>q
  DEF Inv, TypeOK, Handlers, WithinSession, Token
<1>10. AcceptedWhileLive'
  BY <1>0, <1>q
  DEF Inv, TypeOK, Handlers, AcceptedWhileLive, Blank
<1> QED
  BY <1>1, <1>2, <1>3, <1>4, <1>5, <1>6, <1>7, <1>8, <1>9, <1>10 DEF Inv

LEMMA MayKeeps ==
  ASSUME Inv,
         NEW r \in Requests,
         At(r, "may"),
         Goto(r, "check"),
         UNCHANGED <<External, Tables>>
  PROVE  Inv'
<1> USE DEF At, Goto, End, External, Tables, Locked, Intended, Holding
<1>0. TypeOK /\ Handlers  BY DEF Inv
<1>q. /\ \A q \in Requests : q # r => req'[q] = req[q]
      /\ req' \in [Requests -> Request]
      /\ req[r] \in Request
      /\ req'[r].step = "check" /\ req'[r].key = req[r].key /\ req'[r].intent = req[r].intent
      /\ req'[r].left = req[r].left /\ req'[r].current = req[r].current /\ req'[r].token = req[r].token
      /\ req'[r].row = req[r].row /\ req'[r].from = req[r].from /\ req'[r].until = req[r].until
      /\ req'[r].late = req[r].late
  <2> DEFINE v == [req[r] EXCEPT !.step = "check"]
  <2>1. req \in [Requests -> Request] /\ req[r] \in Request
    BY <1>0 DEF TypeOK, Handlers
  <2>2. /\ v \in Request
        /\ v.step = "check" /\ v.key = req[r].key /\ v.intent = req[r].intent
        /\ v.left = req[r].left /\ v.current = req[r].current /\ v.token = req[r].token
        /\ v.row = req[r].row /\ v.from = req[r].from /\ v.until = req[r].until
        /\ v.late = req[r].late
    BY <2>1, BlankTyped DEF Request, Steps
  <2>3. req' = [req EXCEPT ![r] = v]
    BY <2>1 DEF Request
  <2> HIDE DEF v
  <2> QED  BY <2>1, <2>2, <2>3
<1>1. TypeOK'
  BY <1>0, <1>q DEF TypeOK, Handlers
<1>2. Handlers'
  BY <1>0, <1>q
  DEF Inv, TypeOK, Handlers, Blank
<1>3. KeyLock'
  BY <1>0, <1>q
  DEF Inv, TypeOK, Handlers, KeyLock, Blank
<1>4. Unissued'
  BY <1>0, <1>q
  DEF Inv, TypeOK, Handlers, Unissued
<1>5. Answering'
  BY <1>0, <1>q
  DEF Inv, TypeOK, Handlers, Answering, Blank
<1>6. Inspection'
  BY <1>0, <1>q
  DEF Inv, TypeOK, Handlers, Inspection, Blank
<1>7. Authentication'
  BY <1>0, <1>q
  DEF Inv, TypeOK, Handlers, Authentication, Blank, Live
<1>8. OneTokenPerKey'
  BY <1>0, <1>q, AbsentAssumption
  DEF Inv, TypeOK, Handlers, OneTokenPerKey, Blank, Answer
<1>9. WithinSession'
  BY <1>0, <1>q
  DEF Inv, TypeOK, Handlers, WithinSession, Token
<1>10. AcceptedWhileLive'
  BY <1>0, <1>q
  DEF Inv, TypeOK, Handlers, AcceptedWhileLive, Blank
<1> QED
  BY <1>1, <1>2, <1>3, <1>4, <1>5, <1>6, <1>7, <1>8, <1>9, <1>10 DEF Inv

LEMMA CheckedKeeps ==
  ASSUME Inv,
         NEW r \in Requests,
         At(r, "check"),
         NEW p \in req[r].left,
         req' = [req EXCEPT ![r].left = @ \ {p}],
         UNCHANGED <<External, Tables>>
  PROVE  Inv'
<1> USE DEF At, Goto, End, External, Tables, Locked, Intended, Holding
<1>0. TypeOK /\ Handlers  BY DEF Inv
<1>q. /\ \A q \in Requests : q # r => req'[q] = req[q]
      /\ req' \in [Requests -> Request]
      /\ req[r] \in Request
      /\ req'[r].step = req[r].step /\ req'[r].key = req[r].key /\ req'[r].intent = req[r].intent
      /\ req'[r].left = req[r].left \ {p} /\ req'[r].current = req[r].current /\ req'[r].token = req[r].token
      /\ req'[r].row = req[r].row /\ req'[r].from = req[r].from /\ req'[r].until = req[r].until
      /\ req'[r].late = req[r].late
  <2> DEFINE v == [req[r] EXCEPT !.left = @ \ {p}]
  <2>1. req \in [Requests -> Request] /\ req[r] \in Request
    BY <1>0 DEF TypeOK, Handlers
  <2>2. /\ v \in Request
        /\ v.step = req[r].step /\ v.key = req[r].key /\ v.intent = req[r].intent
        /\ v.left = req[r].left \ {p} /\ v.current = req[r].current /\ v.token = req[r].token
        /\ v.row = req[r].row /\ v.from = req[r].from /\ v.until = req[r].until
        /\ v.late = req[r].late
    BY <2>1, BlankTyped DEF Request, Steps
  <2>3. req' = [req EXCEPT ![r] = v]
    BY <2>1 DEF Request
  <2> HIDE DEF v
  <2> QED  BY <2>1, <2>2, <2>3
<1>1. TypeOK'
  BY <1>0, <1>q, BoundAssumption, AbsentAssumption, BlankTyped
  DEF Inv, TypeOK, Handlers, Request, Token, Issuance
<1>2. Handlers'
  BY <1>0, <1>q
  DEF Inv, TypeOK, Handlers, Blank
<1>3. KeyLock'
  BY <1>0, <1>q
  DEF Inv, TypeOK, Handlers, KeyLock, Blank
<1>4. Unissued'
  BY <1>0, <1>q
  DEF Inv, TypeOK, Handlers, Unissued
<1>5. Answering'
  BY <1>0, <1>q
  DEF Inv, TypeOK, Handlers, Answering, Blank
<1>6. Inspection'
  BY <1>0, <1>q
  DEF Inv, TypeOK, Handlers, Inspection, Blank
<1>7. Authentication'
  BY <1>0, <1>q
  DEF Inv, TypeOK, Handlers, Authentication, Blank, Live
<1>8. OneTokenPerKey'
  BY <1>0, <1>q, AbsentAssumption
  DEF Inv, TypeOK, Handlers, OneTokenPerKey, Blank, Answer
<1>9. WithinSession'
  BY <1>0, <1>q
  DEF Inv, TypeOK, Handlers, WithinSession, Token
<1>10. AcceptedWhileLive'
  BY <1>0, <1>q
  DEF Inv, TypeOK, Handlers, AcceptedWhileLive, Blank
<1> QED
  BY <1>1, <1>2, <1>3, <1>4, <1>5, <1>6, <1>7, <1>8, <1>9, <1>10 DEF Inv

LEMMA InspectedKeeps ==
  ASSUME Inv,
         NEW r \in Requests,
         At(r, "check"),
         Inspected(req[r].intent.ceiling),
         req' = [req EXCEPT ![r].step = "maystill", ![r].current = TRUE],
         UNCHANGED <<External, Tables>>
  PROVE  Inv'
<1> USE DEF Inspected, At, Goto, End, External, Tables, Locked, Intended, Holding
<1>0. TypeOK /\ Handlers  BY DEF Inv
<1>q. /\ \A q \in Requests : q # r => req'[q] = req[q]
      /\ req' \in [Requests -> Request]
      /\ req[r] \in Request
      /\ req'[r].step = "maystill" /\ req'[r].key = req[r].key /\ req'[r].intent = req[r].intent
      /\ req'[r].left = req[r].left /\ req'[r].current = TRUE /\ req'[r].token = req[r].token
      /\ req'[r].row = req[r].row /\ req'[r].from = req[r].from /\ req'[r].until = req[r].until
      /\ req'[r].late = req[r].late
  <2> DEFINE v == [[req[r] EXCEPT !.step = "maystill"] EXCEPT !.current = TRUE]
  <2>1. req \in [Requests -> Request] /\ req[r] \in Request
    BY <1>0 DEF TypeOK, Handlers
  <2>2. /\ v \in Request
        /\ v.step = "maystill" /\ v.key = req[r].key /\ v.intent = req[r].intent
        /\ v.left = req[r].left /\ v.current = TRUE /\ v.token = req[r].token
        /\ v.row = req[r].row /\ v.from = req[r].from /\ v.until = req[r].until
        /\ v.late = req[r].late
    BY <2>1, BlankTyped DEF Request, Steps
  <2>3. req' = [req EXCEPT ![r] = v]
    BY <2>1 DEF Request
  <2> HIDE DEF v
  <2> QED  BY <2>1, <2>2, <2>3
<1>1. TypeOK'
  BY <1>0, <1>q, BoundAssumption, AbsentAssumption, BlankTyped
  DEF Inv, TypeOK, Handlers, Request, Token, Issuance
<1>2. Handlers'
  BY <1>0, <1>q
  DEF Inv, TypeOK, Handlers, Blank
<1>3. KeyLock'
  BY <1>0, <1>q
  DEF Inv, TypeOK, Handlers, KeyLock, Blank
<1>4. Unissued'
  BY <1>0, <1>q
  DEF Inv, TypeOK, Handlers, Unissued
<1>5. Answering'
  BY <1>0, <1>q
  DEF Inv, TypeOK, Handlers, Answering, Blank
<1>6. Inspection'
  BY <1>0, <1>q
  DEF Inv, TypeOK, Handlers, Inspection, Blank
<1>7. Authentication'
  BY <1>0, <1>q
  DEF Inv, TypeOK, Handlers, Authentication, Blank, Live
<1>8. OneTokenPerKey'
  BY <1>0, <1>q, AbsentAssumption
  DEF Inv, TypeOK, Handlers, OneTokenPerKey, Blank, Answer
<1>9. WithinSession'
  BY <1>0, <1>q
  DEF Inv, TypeOK, Handlers, WithinSession, Token
<1>10. AcceptedWhileLive'
  BY <1>0, <1>q
  DEF Inv, TypeOK, Handlers, AcceptedWhileLive, Blank
<1> QED
  BY <1>1, <1>2, <1>3, <1>4, <1>5, <1>6, <1>7, <1>8, <1>9, <1>10 DEF Inv

LEMMA MayStillKeeps ==
  ASSUME Inv,
         NEW r \in Requests,
         At(r, "maystill"),
         Goto(r, "lock"),
         UNCHANGED <<External, Tables>>
  PROVE  Inv'
<1> USE DEF At, Goto, End, External, Tables, Locked, Intended, Holding
<1>0. TypeOK /\ Handlers  BY DEF Inv
<1>q. /\ \A q \in Requests : q # r => req'[q] = req[q]
      /\ req' \in [Requests -> Request]
      /\ req[r] \in Request
      /\ req'[r].step = "lock" /\ req'[r].key = req[r].key /\ req'[r].intent = req[r].intent
      /\ req'[r].left = req[r].left /\ req'[r].current = req[r].current /\ req'[r].token = req[r].token
      /\ req'[r].row = req[r].row /\ req'[r].from = req[r].from /\ req'[r].until = req[r].until
      /\ req'[r].late = req[r].late
  <2> DEFINE v == [req[r] EXCEPT !.step = "lock"]
  <2>1. req \in [Requests -> Request] /\ req[r] \in Request
    BY <1>0 DEF TypeOK, Handlers
  <2>2. /\ v \in Request
        /\ v.step = "lock" /\ v.key = req[r].key /\ v.intent = req[r].intent
        /\ v.left = req[r].left /\ v.current = req[r].current /\ v.token = req[r].token
        /\ v.row = req[r].row /\ v.from = req[r].from /\ v.until = req[r].until
        /\ v.late = req[r].late
    BY <2>1, BlankTyped DEF Request, Steps
  <2>3. req' = [req EXCEPT ![r] = v]
    BY <2>1 DEF Request
  <2> HIDE DEF v
  <2> QED  BY <2>1, <2>2, <2>3
<1>1. TypeOK'
  BY <1>0, <1>q DEF TypeOK, Handlers
<1>2. Handlers'
  BY <1>0, <1>q
  DEF Inv, TypeOK, Handlers, Blank
<1>3. KeyLock'
  BY <1>0, <1>q
  DEF Inv, TypeOK, Handlers, KeyLock, Blank
<1>4. Unissued'
  BY <1>0, <1>q
  DEF Inv, TypeOK, Handlers, Unissued
<1>5. Answering'
  BY <1>0, <1>q
  DEF Inv, TypeOK, Handlers, Answering, Blank
<1>6. Inspection'
  BY <1>0, <1>q
  DEF Inv, TypeOK, Handlers, Inspection, Blank
<1>7. Authentication'
  BY <1>0, <1>q
  DEF Inv, TypeOK, Handlers, Authentication, Blank, Live
<1>8. OneTokenPerKey'
  BY <1>0, <1>q, AbsentAssumption
  DEF Inv, TypeOK, Handlers, OneTokenPerKey, Blank, Answer
<1>9. WithinSession'
  BY <1>0, <1>q
  DEF Inv, TypeOK, Handlers, WithinSession, Token
<1>10. AcceptedWhileLive'
  BY <1>0, <1>q
  DEF Inv, TypeOK, Handlers, AcceptedWhileLive, Blank
<1> QED
  BY <1>1, <1>2, <1>3, <1>4, <1>5, <1>6, <1>7, <1>8, <1>9, <1>10 DEF Inv

LEMMA TakeLockKeeps ==
  ASSUME Inv,
         NEW r \in Requests,
         TakeLock(r)
  PROVE  Inv'
<1> USE DEF TakeLock, Holds, At, Goto, End, External, Tables, Locked, Intended, Holding
<1>0. TypeOK /\ Handlers  BY DEF Inv
<1>q. /\ \A q \in Requests : q # r => req'[q] = req[q]
      /\ req' \in [Requests -> Request]
      /\ req[r] \in Request
      /\ req'[r].step = "lookup" /\ req'[r].key = req[r].key /\ req'[r].intent = req[r].intent
      /\ req'[r].left = req[r].left /\ req'[r].current = req[r].current /\ req'[r].token = req[r].token
      /\ req'[r].row = req[r].row /\ req'[r].from = req[r].from /\ req'[r].until = req[r].until
      /\ req'[r].late = req[r].late
  <2> DEFINE v == [req[r] EXCEPT !.step = "lookup"]
  <2>1. req \in [Requests -> Request] /\ req[r] \in Request
    BY <1>0 DEF TypeOK, Handlers
  <2>2. /\ v \in Request
        /\ v.step = "lookup" /\ v.key = req[r].key /\ v.intent = req[r].intent
        /\ v.left = req[r].left /\ v.current = req[r].current /\ v.token = req[r].token
        /\ v.row = req[r].row /\ v.from = req[r].from /\ v.until = req[r].until
        /\ v.late = req[r].late
    BY <2>1, BlankTyped DEF Request, Steps
  <2>3. req' = [req EXCEPT ![r] = v]
    BY <2>1 DEF Request
  <2> HIDE DEF v
  <2> QED  BY <2>1, <2>2, <2>3
<1>1. TypeOK'
  BY <1>q DEF Inv, TypeOK, Handlers
<1>2. Handlers'
  BY <1>0, <1>q
  DEF Inv, TypeOK, Handlers, Blank
<1>3. KeyLock'
  BY <1>0, <1>q
  DEF Inv, TypeOK, Handlers, KeyLock, Blank
<1>4. Unissued'
  BY <1>0, <1>q
  DEF Inv, TypeOK, Handlers, Unissued
<1>5. Answering'
  BY <1>0, <1>q
  DEF Inv, TypeOK, Handlers, Answering, Blank
<1>6. Inspection'
  BY <1>0, <1>q
  DEF Inv, TypeOK, Handlers, Inspection, Blank
<1>7. Authentication'
  BY <1>0, <1>q
  DEF Inv, TypeOK, Handlers, Authentication, Blank, Live
<1>8. OneTokenPerKey'
  BY <1>0, <1>q, AbsentAssumption
  DEF Inv, TypeOK, Handlers, OneTokenPerKey, Blank, Answer
<1>9. WithinSession'
  BY <1>0, <1>q
  DEF Inv, TypeOK, Handlers, WithinSession, Token
<1>10. AcceptedWhileLive'
  BY <1>0, <1>q
  DEF Inv, TypeOK, Handlers, AcceptedWhileLive, Blank
<1> QED
  BY <1>1, <1>2, <1>3, <1>4, <1>5, <1>6, <1>7, <1>8, <1>9, <1>10 DEF Inv

LEMMA LookedUpKeeps ==
  ASSUME Inv,
         NEW r \in Requests,
         At(r, "lookup"),
         Goto(r, "commit"),
         issuance[req[r].key].token = None,
         UNCHANGED <<External, Tables>>
  PROVE  Inv'
<1> USE DEF At, Goto, End, External, Tables, Locked, Intended, Holding
<1>0. TypeOK /\ Handlers  BY DEF Inv
<1>q. /\ \A q \in Requests : q # r => req'[q] = req[q]
      /\ req' \in [Requests -> Request]
      /\ req[r] \in Request
      /\ req'[r].step = "commit" /\ req'[r].key = req[r].key /\ req'[r].intent = req[r].intent
      /\ req'[r].left = req[r].left /\ req'[r].current = req[r].current /\ req'[r].token = req[r].token
      /\ req'[r].row = req[r].row /\ req'[r].from = req[r].from /\ req'[r].until = req[r].until
      /\ req'[r].late = req[r].late
  <2> DEFINE v == [req[r] EXCEPT !.step = "commit"]
  <2>1. req \in [Requests -> Request] /\ req[r] \in Request
    BY <1>0 DEF TypeOK, Handlers
  <2>2. /\ v \in Request
        /\ v.step = "commit" /\ v.key = req[r].key /\ v.intent = req[r].intent
        /\ v.left = req[r].left /\ v.current = req[r].current /\ v.token = req[r].token
        /\ v.row = req[r].row /\ v.from = req[r].from /\ v.until = req[r].until
        /\ v.late = req[r].late
    BY <2>1, BlankTyped DEF Request, Steps
  <2>3. req' = [req EXCEPT ![r] = v]
    BY <2>1 DEF Request
  <2> HIDE DEF v
  <2> QED  BY <2>1, <2>2, <2>3
<1>1. TypeOK'
  BY <1>0, <1>q DEF TypeOK, Handlers
<1>2. Handlers'
  BY <1>0, <1>q
  DEF Inv, TypeOK, Handlers, Blank
<1>3. KeyLock'
  BY <1>0, <1>q
  DEF Inv, TypeOK, Handlers, KeyLock, Blank
<1>4. Unissued'
  BY <1>0, <1>q
  DEF Inv, TypeOK, Handlers, Unissued
<1>5. Answering'
  BY <1>0, <1>q
  DEF Inv, TypeOK, Handlers, Answering, Blank
<1>6. Inspection'
  BY <1>0, <1>q
  DEF Inv, TypeOK, Handlers, Inspection, Blank
<1>7. Authentication'
  BY <1>0, <1>q
  DEF Inv, TypeOK, Handlers, Authentication, Blank, Live
<1>8. OneTokenPerKey'
  BY <1>0, <1>q, AbsentAssumption
  DEF Inv, TypeOK, Handlers, OneTokenPerKey, Blank, Answer
<1>9. WithinSession'
  BY <1>0, <1>q
  DEF Inv, TypeOK, Handlers, WithinSession, Token
<1>10. AcceptedWhileLive'
  BY <1>0, <1>q
  DEF Inv, TypeOK, Handlers, AcceptedWhileLive, Blank
<1> QED
  BY <1>1, <1>2, <1>3, <1>4, <1>5, <1>6, <1>7, <1>8, <1>9, <1>10 DEF Inv

LEMMA RetriedKeeps ==
  ASSUME Inv,
         NEW r \in Requests,
         At(r, "lookup"),
         issuance[req[r].key].token # None,
         issuance[req[r].key].intent = req[r].intent,
         Reply(r, issuance[req[r].key].token, FALSE),
         End(r),
         UNCHANGED <<External, token, issuance>>
  PROVE  Inv'
<1> USE DEF At, Goto, End, External, Tables, Locked, Intended, Holding
<1>0. TypeOK /\ Handlers  BY DEF Inv
<1>a. /\ req[r].key \in Keys /\ req[r].intent \in Asked /\ issuance[req[r].key].token \in Tokens
      /\ issuance[req[r].key] = [intent |-> req[r].intent, token |-> issuance[req[r].key].token]
  BY <1>0, AbsentAssumption DEF Inv, TypeOK, Handlers, Issuance, Answering
<1>b. answers' \subseteq Answer /\ \A a \in answers' : issuance[a.key] = [intent |-> a.intent, token |-> a.token]
  <2> DEFINE n == [key |-> req[r].key, intent |-> req[r].intent, token |-> issuance[req[r].key].token, secret |-> FALSE]
  <2>1. n \in Answer /\ n.key = req[r].key /\ n.intent = req[r].intent /\ n.token = issuance[req[r].key].token
    BY <1>a DEF Answer
  <2>2. answers' = answers \cup {n}  BY DEF Reply
  <2>3. /\ answers \subseteq Answer
        /\ \A a \in answers : issuance[a.key] = [intent |-> a.intent, token |-> a.token]
    BY <1>0 DEF Inv, TypeOK, OneTokenPerKey
  <2> HIDE DEF n
  <2> QED  BY <1>a, <2>1, <2>2, <2>3
<1>q. /\ \A q \in Requests : q # r => req'[q] = req[q]
      /\ req' \in [Requests -> Request]
      /\ req[r] \in Request
      /\ req'[r] = Blank /\ Blank.step = "idle" /\ Blank.current = FALSE
  BY <1>0, BlankTyped DEF TypeOK, Handlers, Blank, Request, Steps
<1>1. TypeOK'
  BY <1>0, <1>a, <1>b, <1>q DEF TypeOK
<1>2. Handlers'
  BY <1>0, <1>a, <1>b, <1>q
  DEF Inv, TypeOK, Handlers, Blank
<1>3. KeyLock'
  BY <1>0, <1>a, <1>b, <1>q
  DEF Inv, TypeOK, Handlers, KeyLock, Blank
<1>4. Unissued'
  BY <1>0, <1>a, <1>b, <1>q
  DEF Inv, TypeOK, Handlers, Unissued
<1>5. Answering'
  BY <1>0, <1>a, <1>b, <1>q
  DEF Inv, TypeOK, Handlers, Answering, Blank
<1>6. Inspection'
  BY <1>0, <1>a, <1>b, <1>q
  DEF Inv, TypeOK, Handlers, Inspection, Blank
<1>7. Authentication'
  BY <1>0, <1>a, <1>b, <1>q
  DEF Inv, TypeOK, Handlers, Authentication, Blank, Live
<1>8. OneTokenPerKey'
  BY <1>0, <1>a, <1>b, <1>q DEF Inv, OneTokenPerKey, Blank
<1>9. WithinSession'
  BY <1>0, <1>a, <1>b, <1>q
  DEF Inv, TypeOK, Handlers, WithinSession, Token
<1>10. AcceptedWhileLive'
  BY <1>0, <1>a, <1>b, <1>q
  DEF Inv, TypeOK, Handlers, AcceptedWhileLive, Blank
<1> QED
  BY <1>1, <1>2, <1>3, <1>4, <1>5, <1>6, <1>7, <1>8, <1>9, <1>10 DEF Inv

LEMMA DiscloseKeeps ==
  ASSUME Inv,
         NEW r \in Requests,
         Disclose(r)
  PROVE  Inv'
<1> USE DEF Disclose, At, Goto, End, External, Tables, Locked, Intended, Holding
<1>0. TypeOK /\ Handlers  BY DEF Inv
<1>a. /\ req[r].key \in Keys /\ req[r].intent \in Asked /\ req[r].token \in Tokens
      /\ issuance[req[r].key] = [intent |-> req[r].intent, token |-> req[r].token]
  BY <1>0, AbsentAssumption DEF Inv, TypeOK, Handlers, Issuance, Answering
<1>b. answers' \subseteq Answer /\ \A a \in answers' : issuance[a.key] = [intent |-> a.intent, token |-> a.token]
  <2> DEFINE n == [key |-> req[r].key, intent |-> req[r].intent, token |-> req[r].token, secret |-> TRUE]
  <2>1. n \in Answer /\ n.key = req[r].key /\ n.intent = req[r].intent /\ n.token = req[r].token
    BY <1>a DEF Answer
  <2>2. answers' = answers \cup {n}  BY DEF Reply
  <2>3. /\ answers \subseteq Answer
        /\ \A a \in answers : issuance[a.key] = [intent |-> a.intent, token |-> a.token]
    BY <1>0 DEF Inv, TypeOK, OneTokenPerKey
  <2> HIDE DEF n
  <2> QED  BY <1>a, <2>1, <2>2, <2>3
<1>q. /\ \A q \in Requests : q # r => req'[q] = req[q]
      /\ req' \in [Requests -> Request]
      /\ req[r] \in Request
      /\ req'[r] = Blank /\ Blank.step = "idle" /\ Blank.current = FALSE
  BY <1>0, BlankTyped DEF TypeOK, Handlers, Blank, Request, Steps
<1>1. TypeOK'
  BY <1>0, <1>a, <1>b, <1>q DEF TypeOK
<1>2. Handlers'
  BY <1>0, <1>a, <1>b, <1>q
  DEF Inv, TypeOK, Handlers, Blank
<1>3. KeyLock'
  BY <1>0, <1>a, <1>b, <1>q
  DEF Inv, TypeOK, Handlers, KeyLock, Blank
<1>4. Unissued'
  BY <1>0, <1>a, <1>b, <1>q
  DEF Inv, TypeOK, Handlers, Unissued
<1>5. Answering'
  BY <1>0, <1>a, <1>b, <1>q
  DEF Inv, TypeOK, Handlers, Answering, Blank
<1>6. Inspection'
  BY <1>0, <1>a, <1>b, <1>q
  DEF Inv, TypeOK, Handlers, Inspection, Blank
<1>7. Authentication'
  BY <1>0, <1>a, <1>b, <1>q
  DEF Inv, TypeOK, Handlers, Authentication, Blank, Live
<1>8. OneTokenPerKey'
  BY <1>0, <1>a, <1>b, <1>q DEF Inv, OneTokenPerKey, Blank
<1>9. WithinSession'
  BY <1>0, <1>a, <1>b, <1>q
  DEF Inv, TypeOK, Handlers, WithinSession, Token
<1>10. AcceptedWhileLive'
  BY <1>0, <1>a, <1>b, <1>q
  DEF Inv, TypeOK, Handlers, AcceptedWhileLive, Blank
<1> QED
  BY <1>1, <1>2, <1>3, <1>4, <1>5, <1>6, <1>7, <1>8, <1>9, <1>10 DEF Inv

(* The transaction of an issue, for a token that is still to be drawn.     *)
Committed(r, t) ==
  /\ At(r, "commit")
  /\ issuance[req[r].key].token = None
  /\ token[t].state = "absent"
  /\ token' = [token EXCEPT ![t] =
       [NoToken EXCEPT !.state = "issued", !.key = req[r].key, !.ceiling = req[r].intent.ceiling,
                       !.expires = req[r].intent.expires, !.current = req[r].current]]
  /\ issuance' = [issuance EXCEPT ![req[r].key] = [intent |-> req[r].intent, token |-> t]]
  /\ req' = [req EXCEPT ![r].step = "answer", ![r].token = t, ![r].current = FALSE]
  /\ UNCHANGED <<External, answers>>

LEMMA CommittedKeeps ==
  ASSUME Inv,
         NEW r \in Requests,
         NEW t \in Tokens,
         Committed(r, t)
  PROVE  Inv'
<1> USE DEF Committed, At, Goto, End, External, Tables, Locked, Intended, Holding
<1>0. TypeOK /\ Handlers  BY DEF Inv
<1>a. /\ req[r].key \in Keys /\ req[r].intent \in Asked /\ req[r] \in Request
      /\ req[r].intent.ceiling \in SUBSET Permissions /\ req[r].intent.expires \in Nat
      /\ token[t].key = None
  BY <1>0, IntentAssumption DEF TypeOK, Handlers, Inv, Unissued
<1>t. /\ token' \in [Tokens -> Token]
      /\ \A u \in Tokens : u # t => token'[u] = token[u]
      /\ token'[t].state = "issued" /\ token'[t].key = req[r].key
      /\ token'[t].ceiling = req[r].intent.ceiling /\ token'[t].expires = req[r].intent.expires
      /\ token'[t].revoked = FALSE /\ token'[t].ended = FALSE
      /\ token'[t].used = Never /\ token'[t].current = req[r].current
  <2> DEFINE w == [NoToken EXCEPT !.state = "issued", !.key = req[r].key, !.ceiling = req[r].intent.ceiling,
                               !.expires = req[r].intent.expires, !.current = req[r].current]
  <2>1. token \in [Tokens -> Token] /\ t \in Tokens /\ token[t] \in Token  BY <1>0 DEF TypeOK, Handlers
  <2>2. /\ w \in Token
        /\ w.state = "issued" /\ w.key = req[r].key
        /\ w.ceiling = req[r].intent.ceiling /\ w.expires = req[r].intent.expires
        /\ w.revoked = FALSE /\ w.ended = FALSE
        /\ w.used = Never /\ w.current = req[r].current
    BY <2>1, <1>0, BlankTyped, <1>a DEF Token, NoToken, Request
  <2>3. token' = [token EXCEPT ![t] = w]
    BY <2>1 DEF Token
  <2> HIDE DEF w
  <2> QED  BY <2>1, <2>2, <2>3
<1>i. /\ issuance' \in [Keys -> Issuance]
      /\ issuance'[req[r].key] = [intent |-> req[r].intent, token |-> t]
      /\ \A k \in Keys : k # req[r].key => issuance'[k] = issuance[k]
  BY <1>0, <1>a DEF TypeOK, Issuance
<1>q. /\ \A q \in Requests : q # r => req'[q] = req[q]
      /\ req' \in [Requests -> Request]
      /\ req[r] \in Request
      /\ req'[r].step = "answer" /\ req'[r].key = req[r].key /\ req'[r].intent = req[r].intent
      /\ req'[r].left = req[r].left /\ req'[r].current = FALSE /\ req'[r].token = t
      /\ req'[r].row = req[r].row /\ req'[r].from = req[r].from /\ req'[r].until = req[r].until
      /\ req'[r].late = req[r].late
  <2> DEFINE v == [[[req[r] EXCEPT !.step = "answer"] EXCEPT !.token = t] EXCEPT !.current = FALSE]
  <2>1. req \in [Requests -> Request] /\ req[r] \in Request
    BY <1>0 DEF TypeOK, Handlers
  <2>2. /\ v \in Request
        /\ v.step = "answer" /\ v.key = req[r].key /\ v.intent = req[r].intent
        /\ v.left = req[r].left /\ v.current = FALSE /\ v.token = t
        /\ v.row = req[r].row /\ v.from = req[r].from /\ v.until = req[r].until
        /\ v.late = req[r].late
    BY <2>1, BlankTyped DEF Request, Steps
  <2>3. req' = [req EXCEPT ![r] = v]
    BY <2>1 DEF Request
  <2> HIDE DEF v
  <2> QED  BY ZenonT(60), <2>1, <2>2, <2>3
<1>1. TypeOK'
  <2>1. \A k \in Keys, u \in Tokens : issuance'[k].token = u <=> token'[u].key = k
    BY <1>0, <1>a, <1>t, <1>i, <1>q, AbsentAssumption DEF TypeOK, NoToken
  <2> QED  BY <1>0, <1>a, <1>t, <1>i, <1>q, <2>1 DEF TypeOK
<1>2. Handlers'
  BY <1>0, <1>a, <1>t, <1>i, <1>q
  DEF Inv, TypeOK, Handlers, Blank
<1>3. KeyLock'
  BY <1>0, <1>a, <1>t, <1>i, <1>q
  DEF Inv, TypeOK, Handlers, KeyLock, Blank
<1>4. Unissued'
  BY <1>0, <1>a, <1>t, <1>i, <1>q
  DEF Inv, TypeOK, Handlers, Unissued
<1>5. Answering'
  <2> SUFFICES ASSUME NEW p \in Requests, req'[p].step = "answer"
               PROVE  issuance'[req'[p].key] = [intent |-> req'[p].intent, token |-> req'[p].token]
    BY DEF Answering
  <2>1. CASE p = r  BY <1>i, <1>q, <2>1
  <2>2. CASE p # r
    <3>1. /\ req'[p] = req[p] /\ req[p].key \in Keys /\ req[p].token \in Tokens
          /\ issuance[req[p].key] = [intent |-> req[p].intent, token |-> req[p].token]
      BY <1>0, <1>q, <2>2 DEF Handlers, Inv, Answering
    <3>2. req[p].key # req[r].key  BY <3>1, AbsentAssumption
    <3> QED  BY <1>i, <3>1, <3>2
  <2> QED  BY <2>1, <2>2
<1>6. Inspection'
  BY <1>0, <1>a, <1>t, <1>i, <1>q
  DEF Inv, TypeOK, Handlers, Inspection, Blank
<1>7. Authentication'
  BY <1>0, <1>a, <1>t, <1>i, <1>q
  DEF Inv, TypeOK, Handlers, Authentication, Blank, Live
<1>8. OneTokenPerKey'
  <2>1. ASSUME NEW a \in answers
        PROVE  issuance'[a.key] = [intent |-> a.intent, token |-> a.token]
    <3>1. /\ a.key \in Keys /\ a.token \in Tokens
          /\ issuance[a.key] = [intent |-> a.intent, token |-> a.token]
      BY <1>0 DEF TypeOK, Answer, Inv, OneTokenPerKey
    <3>2. a.key # req[r].key  BY <3>1, AbsentAssumption
    <3> QED  BY <1>i, <3>1, <3>2
  <2>2. ASSUME NEW p \in Requests, req'[p].step = "commit"
        PROVE  issuance'[req'[p].key].token = None
    <3>1. p # r  BY <1>q, <2>2
    <3>2. /\ req'[p] = req[p] /\ req[p].key \in Keys /\ issuance[req[p].key].token = None
      BY <1>0, <1>q, <2>2, <3>1 DEF Handlers, Inv, OneTokenPerKey
    <3>3. req[p].key # req[r].key  BY <2>2, <3>1, <3>2 DEF Inv, KeyLock
    <3> QED  BY <1>i, <3>2, <3>3
  <2> QED  BY <2>1, <2>2 DEF OneTokenPerKey
<1>9. WithinSession'
  <2> SUFFICES ASSUME NEW u \in Tokens, token'[u].current
               PROVE  parent.live /\ token'[u].ceiling \subseteq parent.ceiling
    BY DEF WithinSession
  <2>1. CASE u = t  BY <1>t, <2>1 DEF Inv, Inspection
  <2>2. CASE u # t  BY <1>t, <2>2 DEF Inv, WithinSession
  <2> QED  BY <2>1, <2>2
<1>10. AcceptedWhileLive'
  BY <1>0, <1>a, <1>t, <1>i, <1>q
  DEF Inv, TypeOK, Handlers, AcceptedWhileLive, Blank
<1> QED
  BY <1>1, <1>2, <1>3, <1>4, <1>5, <1>6, <1>7, <1>8, <1>9, <1>10 DEF Inv

LEMMA OperatorIssueKeeps ==
  ASSUME Inv,
         NEW t \in Tokens,
         NEW intent \in Asked,
         OperatorIssue(t, intent)
  PROVE  Inv'
<1> USE DEF OperatorIssue, At, Goto, End, External, Tables, Locked, Intended, Holding
<1>0. TypeOK /\ Handlers  BY DEF Inv
<1>a. /\ intent.ceiling \in SUBSET Permissions /\ intent.expires \in Nat /\ token[t].key = None
      /\ req \in [Requests -> Request]
  BY <1>0, IntentAssumption DEF TypeOK, Inv, Unissued
<1>t. /\ token' \in [Tokens -> Token]
      /\ \A u \in Tokens : u # t => token'[u] = token[u]
      /\ token'[t].state = "issued" /\ token'[t].key = None
      /\ token'[t].ceiling = intent.ceiling /\ token'[t].expires = intent.expires
      /\ token'[t].revoked = FALSE /\ token'[t].ended = FALSE
      /\ token'[t].used = Never /\ token'[t].current = FALSE
  <2> DEFINE w == [NoToken EXCEPT !.state = "issued", !.ceiling = intent.ceiling, !.expires = intent.expires]
  <2>1. token \in [Tokens -> Token] /\ t \in Tokens /\ token[t] \in Token  BY <1>0 DEF TypeOK, Handlers
  <2>2. /\ w \in Token
        /\ w.state = "issued" /\ w.key = None
        /\ w.ceiling = intent.ceiling /\ w.expires = intent.expires
        /\ w.revoked = FALSE /\ w.ended = FALSE
        /\ w.used = Never /\ w.current = FALSE
    BY <2>1, <1>0, BlankTyped, <1>a DEF Token, NoToken
  <2>3. token' = [token EXCEPT ![t] = w]
    BY <2>1 DEF Token
  <2> HIDE DEF w
  <2> QED  BY <2>1, <2>2, <2>3
<1>1. TypeOK'
  <2>1. \A k \in Keys, u \in Tokens : issuance'[k].token = u <=> token'[u].key = k
    BY <1>0, <1>a, <1>t, AbsentAssumption DEF TypeOK, NoToken
  <2> QED  BY <1>0, <1>a, <1>t, <2>1 DEF TypeOK
<1>2. Handlers'
  BY <1>0, <1>a, <1>t
  DEF Inv, TypeOK, Handlers, Blank
<1>3. KeyLock'
  BY <1>0, <1>a, <1>t
  DEF Inv, TypeOK, Handlers, KeyLock, Blank
<1>4. Unissued'
  BY <1>0, <1>a, <1>t
  DEF Inv, TypeOK, Handlers, Unissued
<1>5. Answering'
  BY <1>0, <1>a, <1>t
  DEF Inv, TypeOK, Handlers, Answering, Blank
<1>6. Inspection'
  BY <1>0, <1>a, <1>t
  DEF Inv, TypeOK, Handlers, Inspection, Blank
<1>7. Authentication'
  BY <1>0, <1>a, <1>t
  DEF Inv, TypeOK, Handlers, Authentication, Blank, Live
<1>8. OneTokenPerKey'
  BY <1>0, <1>a, <1>t, AbsentAssumption
  DEF Inv, TypeOK, Handlers, OneTokenPerKey, Blank, Answer
<1>9. WithinSession'
  BY <1>0, <1>a, <1>t
  DEF Inv, TypeOK, Handlers, WithinSession, Token
<1>10. AcceptedWhileLive'
  BY <1>0, <1>a, <1>t
  DEF Inv, TypeOK, Handlers, AcceptedWhileLive, Blank
<1> QED
  BY <1>1, <1>2, <1>3, <1>4, <1>5, <1>6, <1>7, <1>8, <1>9, <1>10 DEF Inv

LEMMA AuthLoadKeeps ==
  ASSUME Inv,
         NEW r \in Requests,
         NEW t \in Tokens,
         AuthLoad(r, t)
  PROVE  Inv'
<1> USE DEF AuthLoad, At, Goto, End, External, Tables, Locked, Intended, Holding
<1>0. TypeOK /\ Handlers  BY DEF Inv
<1>a. [live |-> Live(t), expires |-> token[t].expires] \in Row
  BY <1>0 DEF TypeOK, Token, Row, Live
<1>q. /\ \A q \in Requests : q # r => req'[q] = req[q]
      /\ req' \in [Requests -> Request]
      /\ req[r] \in Request
      /\ req'[r].step = "clock" /\ req'[r].current = FALSE /\ req'[r].token = t
      /\ req'[r].row = [live |-> Live(t), expires |-> token[t].expires]
  <2> DEFINE v == [Blank EXCEPT !.step = "clock", !.token = t, !.row = [live |-> Live(t), expires |-> token[t].expires]]
  <2>1. req \in [Requests -> Request] /\ req[r] \in Request
    BY <1>0, <1>a DEF TypeOK, Handlers
  <2>2. /\ v \in Request
        /\ v.step = "clock" /\ v.current = FALSE /\ v.token = t
        /\ v.row = [live |-> Live(t), expires |-> token[t].expires]
    BY <2>1, BlankTyped, <1>a DEF Blank, Request, Steps
  <2>3. req' = [req EXCEPT ![r] = v]
    BY <2>1 DEF Request
  <2> HIDE DEF v
  <2> QED  BY <2>1, <2>2, <2>3
<1>1. TypeOK'
  BY <1>0, <1>a, <1>q, BoundAssumption, AbsentAssumption, BlankTyped
  DEF Inv, TypeOK, Handlers, Request, Token, Issuance
<1>2. Handlers'
  BY <1>0, <1>a, <1>q
  DEF Inv, TypeOK, Handlers, Blank
<1>3. KeyLock'
  BY <1>0, <1>a, <1>q
  DEF Inv, TypeOK, Handlers, KeyLock, Blank
<1>4. Unissued'
  BY <1>0, <1>a, <1>q
  DEF Inv, TypeOK, Handlers, Unissued
<1>5. Answering'
  BY <1>0, <1>a, <1>q
  DEF Inv, TypeOK, Handlers, Answering, Blank
<1>6. Inspection'
  BY <1>0, <1>a, <1>q
  DEF Inv, TypeOK, Handlers, Inspection, Blank
<1>7. Authentication'
  BY <1>0, <1>a, <1>q
  DEF Inv, TypeOK, Handlers, Authentication, Blank, Live
<1>8. OneTokenPerKey'
  BY <1>0, <1>a, <1>q, AbsentAssumption
  DEF Inv, TypeOK, Handlers, OneTokenPerKey, Blank, Answer
<1>9. WithinSession'
  BY <1>0, <1>a, <1>q
  DEF Inv, TypeOK, Handlers, WithinSession, Token
<1>10. AcceptedWhileLive'
  BY <1>0, <1>a, <1>q
  DEF Inv, TypeOK, Handlers, AcceptedWhileLive, Blank
<1> QED
  BY <1>1, <1>2, <1>3, <1>4, <1>5, <1>6, <1>7, <1>8, <1>9, <1>10 DEF Inv

(* The clock is read, and the token was live and not yet over when it was  *)
(* loaded.                                                                 *)
Clocked(r, late, until) ==
  /\ At(r, "clock")
  /\ late => ~Live(req[r].token)
  /\ until <= req[r].row.expires
  /\ req' = [req EXCEPT ![r].step = "record", ![r].row = NoRow, ![r].from = now,
                        ![r].late = late, ![r].until = until]
  /\ UNCHANGED <<External, Tables>>

LEMMA ClockedKeeps ==
  ASSUME Inv,
         NEW r \in Requests,
         NEW late \in BOOLEAN,
         NEW until \in Nat,
         Clocked(r, late, until)
  PROVE  Inv'
<1> USE DEF Clocked, At, Goto, End, External, Tables, Locked, Intended, Holding
<1>0. TypeOK /\ Handlers  BY DEF Inv
<1>a. now \in Nat /\ NoRow \in Row /\ req[r].row.expires \in Nat
  BY <1>0, BoundAssumption DEF TypeOK, Row, NoRow, Request
<1>q. /\ \A q \in Requests : q # r => req'[q] = req[q]
      /\ req' \in [Requests -> Request]
      /\ req[r] \in Request
      /\ req'[r].step = "record" /\ req'[r].key = req[r].key /\ req'[r].intent = req[r].intent
      /\ req'[r].left = req[r].left /\ req'[r].current = req[r].current /\ req'[r].token = req[r].token
      /\ req'[r].row = NoRow /\ req'[r].from = now /\ req'[r].until = until
      /\ req'[r].late = late
  <2> DEFINE v == [[[[[req[r] EXCEPT !.step = "record"] EXCEPT !.row = NoRow] EXCEPT !.from = now]
                EXCEPT !.late = late] EXCEPT !.until = until]
  <2>1. req \in [Requests -> Request] /\ req[r] \in Request
    BY <1>0, <1>a DEF TypeOK, Handlers
  <2>2. /\ v \in Request
        /\ v.step = "record" /\ v.key = req[r].key /\ v.intent = req[r].intent
        /\ v.left = req[r].left /\ v.current = req[r].current /\ v.token = req[r].token
        /\ v.row = NoRow /\ v.from = now /\ v.until = until
        /\ v.late = late
    BY <2>1, BlankTyped, <1>a DEF Request, Steps
  <2>3. req' = [req EXCEPT ![r] = v]
    BY <2>1 DEF Request
  <2> HIDE DEF v, Clocked
  <2> QED  BY <2>1, <2>2, <2>3
<1>1. TypeOK'
  BY <1>0, <1>q DEF TypeOK
<1>2. Handlers'
  BY <1>0, <1>a, <1>q
  DEF Inv, TypeOK, Handlers, Blank
<1>3. KeyLock'
  BY <1>0, <1>a, <1>q
  DEF Inv, TypeOK, Handlers, KeyLock, Blank
<1>4. Unissued'
  BY <1>0, <1>a, <1>q
  DEF Inv, TypeOK, Handlers, Unissued
<1>5. Answering'
  BY <1>q DEF Inv, Answering
<1>6. Inspection'
  BY <1>q DEF Inv, Inspection
<1>7. Authentication'
  BY SMTT(30), <1>q DEF Inv, Authentication, Live
<1>8. OneTokenPerKey'
  BY <1>q DEF Inv, OneTokenPerKey
<1>9. WithinSession'
  BY SMTT(30), <1>0, <1>a, <1>q
  DEF Inv, TypeOK, Handlers, WithinSession, Token
<1>10. AcceptedWhileLive'
  BY <1>0, <1>a, <1>q
  DEF Inv, TypeOK, Handlers, AcceptedWhileLive, Blank
<1> QED
  BY <1>1, <1>2, <1>3, <1>4, <1>5, <1>6, <1>7, <1>8, <1>9, <1>10 DEF Inv

(* The use of a token that is still live is on record.                     *)
Recorded(r) ==
  /\ At(r, "record") /\ Live(req[r].token)
  /\ token' = [token EXCEPT ![req[r].token].used = Later(token[req[r].token].used, req[r].from)]
  /\ Goto(r, "accepted")
  /\ UNCHANGED <<External, issuance, answers>>

LEMMA RecordedKeeps ==
  ASSUME Inv,
         NEW r \in Requests,
         Recorded(r)
  PROVE  Inv'
<1> USE DEF Recorded, At, Goto, End, External, Tables, Locked, Intended, Holding
<1>0. TypeOK /\ Handlers  BY DEF Inv
<1>a. /\ req[r] \in Request /\ req[r].from \in Nat /\ req[r].token \in Tokens /\ token[req[r].token] \in Token
  BY <1>0 DEF TypeOK, Handlers, Request
<1>b. /\ Later(token[req[r].token].used, req[r].from) \in Nat
      /\ Later(token[req[r].token].used, req[r].from) >= req[r].from
      /\ token[req[r].token].used # Never =>
           Later(token[req[r].token].used, req[r].from) >= token[req[r].token].used
  BY <1>a DEF Token, Later
<1>t. /\ token' \in [Tokens -> Token]
      /\ \A u \in Tokens : u # req[r].token => token'[u] = token[u]
      /\ token'[req[r].token].state = token[req[r].token].state /\ token'[req[r].token].key = token[req[r].token].key
      /\ token'[req[r].token].ceiling = token[req[r].token].ceiling /\ token'[req[r].token].expires = token[req[r].token].expires
      /\ token'[req[r].token].revoked = token[req[r].token].revoked /\ token'[req[r].token].ended = token[req[r].token].ended
      /\ token'[req[r].token].used = Later(token[req[r].token].used, req[r].from) /\ token'[req[r].token].current = token[req[r].token].current
  <2> DEFINE w == [token[req[r].token] EXCEPT !.used = Later(token[req[r].token].used, req[r].from)]
  <2>1. token \in [Tokens -> Token] /\ req[r].token \in Tokens /\ token[req[r].token] \in Token
    BY <1>0, <1>a DEF TypeOK
  <2>2. /\ w \in Token
        /\ w.state = token[req[r].token].state /\ w.key = token[req[r].token].key
        /\ w.ceiling = token[req[r].token].ceiling /\ w.expires = token[req[r].token].expires
        /\ w.revoked = token[req[r].token].revoked /\ w.ended = token[req[r].token].ended
        /\ w.used = Later(token[req[r].token].used, req[r].from) /\ w.current = token[req[r].token].current
    BY <2>1, <1>0, BlankTyped, <1>a, <1>b DEF Token
  <2>3. token' = [token EXCEPT ![req[r].token] = w]
    BY <2>1 DEF Token
  <2> HIDE DEF w
  <2> QED  BY <2>1, <2>2, <2>3
<1>q. /\ \A q \in Requests : q # r => req'[q] = req[q]
      /\ req' \in [Requests -> Request]
      /\ req[r] \in Request
      /\ req'[r].step = "accepted" /\ req'[r].key = req[r].key /\ req'[r].intent = req[r].intent
      /\ req'[r].left = req[r].left /\ req'[r].current = req[r].current /\ req'[r].token = req[r].token
      /\ req'[r].row = req[r].row /\ req'[r].from = req[r].from /\ req'[r].until = req[r].until
      /\ req'[r].late = req[r].late
  <2> DEFINE v == [req[r] EXCEPT !.step = "accepted"]
  <2>1. req \in [Requests -> Request] /\ req[r] \in Request
    BY <1>0 DEF TypeOK, Handlers
  <2>2. /\ v \in Request
        /\ v.step = "accepted" /\ v.key = req[r].key /\ v.intent = req[r].intent
        /\ v.left = req[r].left /\ v.current = req[r].current /\ v.token = req[r].token
        /\ v.row = req[r].row /\ v.from = req[r].from /\ v.until = req[r].until
        /\ v.late = req[r].late
    BY <2>1, BlankTyped DEF Request, Steps
  <2>3. req' = [req EXCEPT ![r] = v]
    BY <2>1 DEF Request
  <2> HIDE DEF v
  <2> QED  BY <2>1, <2>2, <2>3
<1>1. TypeOK'
  <2>1. \A u \in Tokens : token'[u].key = token[u].key  BY <1>t
  <2>2. \A k \in Keys, u \in Tokens : issuance'[k].token = u <=> token'[u].key = k
    BY <1>0, <2>1 DEF TypeOK
  <2> QED  BY <1>0, <1>a, <1>b, <1>t, <1>q, <2>2 DEF TypeOK
<1>2. Handlers'
  BY <1>0, <1>a, <1>b, <1>t, <1>q
  DEF Inv, TypeOK, Handlers, Blank
<1>3. KeyLock'
  BY <1>0, <1>a, <1>b, <1>t, <1>q
  DEF Inv, TypeOK, Handlers, KeyLock, Blank
<1>4. Unissued'
  BY <1>0, <1>a, <1>b, <1>t, <1>q
  DEF Inv, TypeOK, Handlers, Unissued
<1>5. Answering'
  BY <1>0, <1>a, <1>b, <1>t, <1>q
  DEF Inv, TypeOK, Handlers, Answering, Blank
<1>6. Inspection'
  BY DEF Inv, Inspection
<1>7. Authentication'
  BY <1>0, <1>a, <1>b, <1>t, <1>q
  DEF Inv, TypeOK, Handlers, Authentication, Blank, Live
<1>8. OneTokenPerKey'
  BY DEF Inv, OneTokenPerKey
<1>9. WithinSession'
  BY DEF Inv, WithinSession
<1>10. AcceptedWhileLive'
  <2> SUFFICES ASSUME NEW p \in Requests, req'[p].step = "accepted"
               PROVE  /\ ~req'[p].late /\ req'[p].until <= token'[req'[p].token].expires
                      /\ token'[req'[p].token].used # Never
                      /\ token'[req'[p].token].used >= req'[p].from
    BY DEF AcceptedWhileLive
  <2>1. req[p] \in Request /\ req[p].from \in Nat  BY <1>0 DEF TypeOK, Request
  <2>2. CASE p = r
    BY <1>0, <1>a, <1>b, <1>t, <1>q, <2>2, AbsentAssumption DEF Inv, Authentication, Live, TypeOK, Request
  <2>3. CASE p # r
    <3>0. req'[p] = req[p] /\ req[p].step = "accepted"  BY <1>q, <2>3
    <3>1. /\ ~req[p].late /\ req[p].until <= token[req[p].token].expires
          /\ token[req[p].token].used # Never /\ token[req[p].token].used >= req[p].from
          /\ req[p].token \in Tokens /\ token[req[p].token] \in Token
      BY <1>0, <3>0 DEF Inv, AcceptedWhileLive, TypeOK, Handlers
    <3>2. token[req[p].token].used \in Nat  BY <3>1 DEF Token
    <3>3. CASE req[p].token = req[r].token
      <4>1. token'[req[r].token].used >= token[req[r].token].used /\ token'[req[r].token].used \in Nat
        BY <1>b, <1>t, <3>1, <3>3
      <4> QED  BY <1>q, <1>t, <2>1, <2>3, <3>1, <3>2, <3>3, <4>1, AbsentAssumption
    <3>4. CASE req[p].token # req[r].token
      BY <1>q, <1>t, <2>1, <2>3, <3>1, <3>2, <3>4
    <3> QED  BY <3>3, <3>4
  <2> QED  BY <2>2, <2>3
<1> QED
  BY <1>1, <1>2, <1>3, <1>4, <1>5, <1>6, <1>7, <1>8, <1>9, <1>10 DEF Inv

LEMMA RevokeTokenKeeps ==
  ASSUME Inv,
         NEW t \in Tokens,
         RevokeToken(t)
  PROVE  Inv'
<1> USE DEF RevokeToken, At, Goto, End, External, Tables, Locked, Intended, Holding
<1>0. TypeOK /\ Handlers  BY DEF Inv
<1>t. /\ token' \in [Tokens -> Token]
      /\ \A u \in Tokens : u # t => token'[u] = token[u]
      /\ token'[t].state = token[t].state /\ token'[t].key = token[t].key
      /\ token'[t].ceiling = token[t].ceiling /\ token'[t].expires = token[t].expires
      /\ token'[t].revoked = TRUE /\ token'[t].ended = token[t].ended
      /\ token'[t].used = token[t].used /\ token'[t].current = token[t].current
  <2> DEFINE w == [token[t] EXCEPT !.revoked = TRUE]
  <2>1. token \in [Tokens -> Token] /\ t \in Tokens /\ token[t] \in Token  BY <1>0 DEF TypeOK, Handlers
  <2>2. /\ w \in Token
        /\ w.state = token[t].state /\ w.key = token[t].key
        /\ w.ceiling = token[t].ceiling /\ w.expires = token[t].expires
        /\ w.revoked = TRUE /\ w.ended = token[t].ended
        /\ w.used = token[t].used /\ w.current = token[t].current
    BY <2>1, <1>0, BlankTyped DEF Token
  <2>3. token' = [token EXCEPT ![t] = w]
    BY <2>1 DEF Token
  <2> HIDE DEF w
  <2> QED  BY <2>1, <2>2, <2>3
<1>1. TypeOK'
  <2>1. \A u \in Tokens : token'[u].key = token[u].key  BY <1>t
  <2>2. \A k \in Keys, u \in Tokens : issuance'[k].token = u <=> token'[u].key = k
    BY <1>0, <2>1 DEF TypeOK
  <2> QED  BY <1>0, <1>t, <2>2 DEF TypeOK
<1>2. Handlers'
  BY <1>0, <1>t
  DEF Inv, TypeOK, Handlers, Blank
<1>3. KeyLock'
  BY <1>0, <1>t
  DEF Inv, TypeOK, Handlers, KeyLock, Blank
<1>4. Unissued'
  BY <1>0, <1>t
  DEF Inv, TypeOK, Handlers, Unissued
<1>5. Answering'
  BY <1>0, <1>t
  DEF Inv, TypeOK, Handlers, Answering, Blank
<1>6. Inspection'
  BY <1>0, <1>t
  DEF Inv, TypeOK, Handlers, Inspection, Blank
<1>7. Authentication'
  BY <1>0, <1>t
  DEF Inv, TypeOK, Handlers, Authentication, Blank, Live
<1>8. OneTokenPerKey'
  BY <1>0, <1>t, AbsentAssumption
  DEF Inv, TypeOK, Handlers, OneTokenPerKey, Blank, Answer
<1>9. WithinSession'
  BY <1>0, <1>t
  DEF Inv, TypeOK, Handlers, WithinSession, Token
<1>10. AcceptedWhileLive'
  BY <1>0, <1>t
  DEF Inv, TypeOK, Handlers, AcceptedWhileLive, Blank
<1> QED
  BY <1>1, <1>2, <1>3, <1>4, <1>5, <1>6, <1>7, <1>8, <1>9, <1>10 DEF Inv

LEMMA RevokeSessionKeeps ==
  ASSUME Inv,
         NEW t \in Tokens,
         RevokeSession(t)
  PROVE  Inv'
<1> USE DEF RevokeSession, At, Goto, End, External, Tables, Locked, Intended, Holding
<1>0. TypeOK /\ Handlers  BY DEF Inv
<1>t. /\ token' \in [Tokens -> Token]
      /\ \A u \in Tokens : u # t => token'[u] = token[u]
      /\ token'[t].state = token[t].state /\ token'[t].key = token[t].key
      /\ token'[t].ceiling = token[t].ceiling /\ token'[t].expires = token[t].expires
      /\ token'[t].revoked = token[t].revoked /\ token'[t].ended = TRUE
      /\ token'[t].used = token[t].used /\ token'[t].current = token[t].current
  <2> DEFINE w == [token[t] EXCEPT !.ended = TRUE]
  <2>1. token \in [Tokens -> Token] /\ t \in Tokens /\ token[t] \in Token  BY <1>0 DEF TypeOK, Handlers
  <2>2. /\ w \in Token
        /\ w.state = token[t].state /\ w.key = token[t].key
        /\ w.ceiling = token[t].ceiling /\ w.expires = token[t].expires
        /\ w.revoked = token[t].revoked /\ w.ended = TRUE
        /\ w.used = token[t].used /\ w.current = token[t].current
    BY <2>1, <1>0, BlankTyped DEF Token
  <2>3. token' = [token EXCEPT ![t] = w]
    BY <2>1 DEF Token
  <2> HIDE DEF w
  <2> QED  BY <2>1, <2>2, <2>3
<1>1. TypeOK'
  <2>1. \A u \in Tokens : token'[u].key = token[u].key  BY <1>t
  <2>2. \A k \in Keys, u \in Tokens : issuance'[k].token = u <=> token'[u].key = k
    BY <1>0, <2>1 DEF TypeOK
  <2> QED  BY <1>0, <1>t, <2>2 DEF TypeOK
<1>2. Handlers'
  BY <1>0, <1>t
  DEF Inv, TypeOK, Handlers, Blank
<1>3. KeyLock'
  BY <1>0, <1>t
  DEF Inv, TypeOK, Handlers, KeyLock, Blank
<1>4. Unissued'
  BY <1>0, <1>t
  DEF Inv, TypeOK, Handlers, Unissued
<1>5. Answering'
  BY <1>0, <1>t
  DEF Inv, TypeOK, Handlers, Answering, Blank
<1>6. Inspection'
  BY <1>0, <1>t
  DEF Inv, TypeOK, Handlers, Inspection, Blank
<1>7. Authentication'
  BY <1>0, <1>t
  DEF Inv, TypeOK, Handlers, Authentication, Blank, Live
<1>8. OneTokenPerKey'
  BY <1>0, <1>t, AbsentAssumption
  DEF Inv, TypeOK, Handlers, OneTokenPerKey, Blank, Answer
<1>9. WithinSession'
  BY <1>0, <1>t
  DEF Inv, TypeOK, Handlers, WithinSession, Token
<1>10. AcceptedWhileLive'
  BY <1>0, <1>t
  DEF Inv, TypeOK, Handlers, AcceptedWhileLive, Blank
<1> QED
  BY <1>1, <1>2, <1>3, <1>4, <1>5, <1>6, <1>7, <1>8, <1>9, <1>10 DEF Inv

LEMMA AttenuateKeeps ==
  ASSUME Inv,
         NEW t \in Tokens,
         NEW c \in SUBSET Permissions,
         Attenuate(t, c)
  PROVE  Inv'
<1> USE DEF Attenuate, At, Goto, End, External, Tables, Locked, Intended, Holding
<1>0. TypeOK /\ Handlers  BY DEF Inv
<1>t. /\ token' \in [Tokens -> Token]
      /\ \A u \in Tokens : u # t => token'[u] = token[u]
      /\ token'[t].state = token[t].state /\ token'[t].key = token[t].key
      /\ token'[t].ceiling = c /\ token'[t].expires = token[t].expires
      /\ token'[t].revoked = token[t].revoked /\ token'[t].ended = token[t].ended
      /\ token'[t].used = token[t].used /\ token'[t].current = token[t].current
  <2> DEFINE w == [token[t] EXCEPT !.ceiling = c]
  <2>1. token \in [Tokens -> Token] /\ t \in Tokens /\ token[t] \in Token  BY <1>0 DEF TypeOK, Handlers
  <2>2. /\ w \in Token
        /\ w.state = token[t].state /\ w.key = token[t].key
        /\ w.ceiling = c /\ w.expires = token[t].expires
        /\ w.revoked = token[t].revoked /\ w.ended = token[t].ended
        /\ w.used = token[t].used /\ w.current = token[t].current
    BY <2>1, <1>0, BlankTyped DEF Token
  <2>3. token' = [token EXCEPT ![t] = w]
    BY <2>1 DEF Token
  <2> HIDE DEF w
  <2> QED  BY <2>1, <2>2, <2>3
<1>1. TypeOK'
  BY <1>0, <1>t, BoundAssumption, AbsentAssumption, BlankTyped
  DEF Inv, TypeOK, Handlers, Request, Token, Issuance
<1>2. Handlers'
  BY <1>0, <1>t
  DEF Inv, TypeOK, Handlers, Blank
<1>3. KeyLock'
  BY <1>0, <1>t
  DEF Inv, TypeOK, Handlers, KeyLock, Blank
<1>4. Unissued'
  BY <1>0, <1>t
  DEF Inv, TypeOK, Handlers, Unissued
<1>5. Answering'
  BY <1>0, <1>t
  DEF Inv, TypeOK, Handlers, Answering, Blank
<1>6. Inspection'
  BY <1>0, <1>t
  DEF Inv, TypeOK, Handlers, Inspection, Blank
<1>7. Authentication'
  BY <1>0, <1>t
  DEF Inv, TypeOK, Handlers, Authentication, Blank, Live
<1>8. OneTokenPerKey'
  BY <1>0, <1>t, AbsentAssumption
  DEF Inv, TypeOK, Handlers, OneTokenPerKey, Blank, Answer
<1>9. WithinSession'
  BY <1>0, <1>t
  DEF Inv, TypeOK, Handlers, WithinSession, Token
<1>10. AcceptedWhileLive'
  BY <1>0, <1>t
  DEF Inv, TypeOK, Handlers, AcceptedWhileLive, Blank
<1> QED
  BY <1>1, <1>2, <1>3, <1>4, <1>5, <1>6, <1>7, <1>8, <1>9, <1>10 DEF Inv

LEMMA NarrowParentKeeps ==
  ASSUME Inv,
         NEW c \in SUBSET Permissions,
         NarrowParent(c)
  PROVE  Inv'
<1> USE DEF NarrowParent, At, Goto, End, External, Tables, Locked, Intended, Holding
<1>0. TypeOK /\ Handlers  BY DEF Inv
<1>q. /\ req' \in [Requests -> Request]
      /\ \A p \in Requests : /\ ~req'[p].current /\ req'[p].step = req[p].step /\ req'[p].key = req[p].key
                             /\ req'[p].intent = req[p].intent /\ req'[p].token = req[p].token
                             /\ req'[p].row = req[p].row /\ req'[p].from = req[p].from
                             /\ req'[p].until = req[p].until /\ req'[p].late = req[p].late
  <2>1. ASSUME NEW p \in Requests
        PROVE  /\ req'[p] \in Request
               /\ ~req'[p].current /\ req'[p].step = req[p].step /\ req'[p].key = req[p].key
               /\ req'[p].intent = req[p].intent /\ req'[p].token = req[p].token
               /\ req'[p].row = req[p].row /\ req'[p].from = req[p].from
               /\ req'[p].until = req[p].until /\ req'[p].late = req[p].late
    <3>1. req'[p] = [req[p] EXCEPT !.current = FALSE] /\ req[p] \in Request
      BY <1>0 DEF Outdate, TypeOK
    <3> QED  BY <3>1 DEF Request
  <2>2. req' = [p \in Requests |-> req'[p]]  BY DEF Outdate
  <2> QED  BY <2>1, <2>2
<1>t. /\ token' \in [Tokens -> Token]
      /\ \A t \in Tokens : /\ ~token'[t].current /\ token'[t].state = token[t].state
                           /\ token'[t].key = token[t].key /\ token'[t].expires = token[t].expires
                           /\ token'[t].revoked = token[t].revoked /\ token'[t].ended = token[t].ended
                           /\ token'[t].used = token[t].used
  <2>1. ASSUME NEW t \in Tokens
        PROVE  /\ token'[t] \in Token
               /\ ~token'[t].current /\ token'[t].state = token[t].state
               /\ token'[t].key = token[t].key /\ token'[t].expires = token[t].expires
               /\ token'[t].revoked = token[t].revoked /\ token'[t].ended = token[t].ended
               /\ token'[t].used = token[t].used
    <3>1. token'[t] = [token[t] EXCEPT !.current = FALSE] /\ token[t] \in Token
      BY <1>0 DEF Outdate, TypeOK
    <3> QED  BY <3>1 DEF Token
  <2>2. token' = [t \in Tokens |-> token'[t]]  BY DEF Outdate
  <2> QED  BY <2>1, <2>2
<1>1. TypeOK'
  <2>1. \A u \in Tokens : token'[u].key = token[u].key  BY <1>t
  <2>2. \A k \in Keys, u \in Tokens : issuance'[k].token = u <=> token'[u].key = k
    BY <1>0, <2>1 DEF TypeOK
  <2> QED  BY <1>0, <1>q, <1>t, <2>2 DEF TypeOK
<1>2. Handlers'
  BY <1>0, <1>q, <1>t
  DEF Inv, TypeOK, Handlers, Blank
<1>3. KeyLock'
  BY <1>0, <1>q, <1>t
  DEF Inv, TypeOK, Handlers, KeyLock, Blank
<1>4. Unissued'
  BY <1>0, <1>q, <1>t
  DEF Inv, TypeOK, Handlers, Unissued
<1>5. Answering'
  BY <1>0, <1>q, <1>t
  DEF Inv, TypeOK, Handlers, Answering, Blank
<1>6. Inspection'
  BY <1>0, <1>q, <1>t
  DEF Inv, TypeOK, Handlers, Inspection, Blank
<1>7. Authentication'
  BY <1>0, <1>q, <1>t
  DEF Inv, TypeOK, Handlers, Authentication, Blank, Live
<1>8. OneTokenPerKey'
  BY <1>0, <1>q, <1>t, AbsentAssumption
  DEF Inv, TypeOK, Handlers, OneTokenPerKey, Blank, Answer
<1>9. WithinSession'
  BY <1>0, <1>q, <1>t
  DEF Inv, TypeOK, Handlers, WithinSession, Token
<1>10. AcceptedWhileLive'
  BY <1>0, <1>q, <1>t
  DEF Inv, TypeOK, Handlers, AcceptedWhileLive, Blank
<1> QED
  BY <1>1, <1>2, <1>3, <1>4, <1>5, <1>6, <1>7, <1>8, <1>9, <1>10 DEF Inv

LEMMA EndParentKeeps ==
  ASSUME Inv,
         EndParent
  PROVE  Inv'
<1> USE DEF EndParent, At, Goto, End, External, Tables, Locked, Intended, Holding
<1>0. TypeOK /\ Handlers  BY DEF Inv
<1>q. /\ req' \in [Requests -> Request]
      /\ \A p \in Requests : /\ ~req'[p].current /\ req'[p].step = req[p].step /\ req'[p].key = req[p].key
                             /\ req'[p].intent = req[p].intent /\ req'[p].token = req[p].token
                             /\ req'[p].row = req[p].row /\ req'[p].from = req[p].from
                             /\ req'[p].until = req[p].until /\ req'[p].late = req[p].late
  <2>1. ASSUME NEW p \in Requests
        PROVE  /\ req'[p] \in Request
               /\ ~req'[p].current /\ req'[p].step = req[p].step /\ req'[p].key = req[p].key
               /\ req'[p].intent = req[p].intent /\ req'[p].token = req[p].token
               /\ req'[p].row = req[p].row /\ req'[p].from = req[p].from
               /\ req'[p].until = req[p].until /\ req'[p].late = req[p].late
    <3>1. req'[p] = [req[p] EXCEPT !.current = FALSE] /\ req[p] \in Request
      BY <1>0 DEF Outdate, TypeOK
    <3> QED  BY ZenonT(60), <3>1 DEF Request
  <2>2. req' = [p \in Requests |-> req'[p]]  BY DEF Outdate
  <2> QED  BY <2>1, <2>2
<1>t. /\ token' \in [Tokens -> Token]
      /\ \A t \in Tokens : /\ ~token'[t].current /\ token'[t].state = token[t].state
                           /\ token'[t].key = token[t].key /\ token'[t].expires = token[t].expires
                           /\ token'[t].revoked = token[t].revoked /\ token'[t].ended = token[t].ended
                           /\ token'[t].used = token[t].used
  <2>1. ASSUME NEW t \in Tokens
        PROVE  /\ token'[t] \in Token
               /\ ~token'[t].current /\ token'[t].state = token[t].state
               /\ token'[t].key = token[t].key /\ token'[t].expires = token[t].expires
               /\ token'[t].revoked = token[t].revoked /\ token'[t].ended = token[t].ended
               /\ token'[t].used = token[t].used
    <3>1. token'[t] = [token[t] EXCEPT !.current = FALSE] /\ token[t] \in Token
      BY <1>0 DEF Outdate, TypeOK
    <3> QED  BY ZenonT(60), <3>1 DEF Token
  <2>2. token' = [t \in Tokens |-> token'[t]]  BY DEF Outdate
  <2> QED  BY <2>1, <2>2
<1>1. TypeOK'
  <2>1. \A u \in Tokens : token'[u].key = token[u].key  BY <1>t
  <2>2. \A k \in Keys, u \in Tokens : issuance'[k].token = u <=> token'[u].key = k
    BY <1>0, <2>1 DEF TypeOK
  <2> QED  BY <1>0, <1>q, <1>t, <2>2 DEF TypeOK
<1>2. Handlers'
  BY <1>0, <1>q, <1>t
  DEF Inv, TypeOK, Handlers, Blank
<1>3. KeyLock'
  BY <1>0, <1>q, <1>t
  DEF Inv, TypeOK, Handlers, KeyLock, Blank
<1>4. Unissued'
  BY <1>0, <1>q, <1>t
  DEF Inv, TypeOK, Handlers, Unissued
<1>5. Answering'
  BY <1>0, <1>q, <1>t
  DEF Inv, TypeOK, Handlers, Answering, Blank
<1>6. Inspection'
  BY <1>0, <1>q, <1>t
  DEF Inv, TypeOK, Handlers, Inspection, Blank
<1>7. Authentication'
  BY <1>0, <1>q, <1>t
  DEF Inv, TypeOK, Handlers, Authentication, Blank, Live
<1>8. OneTokenPerKey'
  BY <1>0, <1>q, <1>t, AbsentAssumption
  DEF Inv, TypeOK, Handlers, OneTokenPerKey, Blank, Answer
<1>9. WithinSession'
  BY <1>0, <1>q, <1>t
  DEF Inv, TypeOK, Handlers, WithinSession, Token
<1>10. AcceptedWhileLive'
  BY <1>0, <1>q, <1>t
  DEF Inv, TypeOK, Handlers, AcceptedWhileLive, Blank
<1> QED
  BY <1>1, <1>2, <1>3, <1>4, <1>5, <1>6, <1>7, <1>8, <1>9, <1>10 DEF Inv

LEMMA RestartKeeps ==
  ASSUME Inv,
         Restart
  PROVE  Inv'
<1> USE DEF Restart, At, Goto, End, External, Tables, Locked, Intended, Holding
<1>0. TypeOK /\ Handlers  BY DEF Inv
<1>q. \A p \in Requests : req'[p] = Blank /\ Blank.step = "idle" /\ Blank.current = FALSE
  BY DEF Blank
<1>1. TypeOK'
  BY <1>0, <1>q, BoundAssumption, AbsentAssumption, BlankTyped
  DEF Inv, TypeOK, Handlers, Request, Token, Issuance
<1>2. Handlers'
  BY <1>0, <1>q
  DEF Inv, TypeOK, Handlers, Blank
<1>3. KeyLock'
  BY <1>0, <1>q
  DEF Inv, TypeOK, Handlers, KeyLock, Blank
<1>4. Unissued'
  BY <1>0, <1>q
  DEF Inv, TypeOK, Handlers, Unissued
<1>5. Answering'
  BY <1>0, <1>q
  DEF Inv, TypeOK, Handlers, Answering, Blank
<1>6. Inspection'
  BY <1>0, <1>q
  DEF Inv, TypeOK, Handlers, Inspection, Blank
<1>7. Authentication'
  BY <1>0, <1>q
  DEF Inv, TypeOK, Handlers, Authentication, Blank, Live
<1>8. OneTokenPerKey'
  BY <1>0, <1>q, AbsentAssumption
  DEF Inv, TypeOK, Handlers, OneTokenPerKey, Blank, Answer
<1>9. WithinSession'
  BY <1>0, <1>q
  DEF Inv, TypeOK, Handlers, WithinSession, Token
<1>10. AcceptedWhileLive'
  BY <1>0, <1>q
  DEF Inv, TypeOK, Handlers, AcceptedWhileLive, Blank
<1> QED
  BY <1>1, <1>2, <1>3, <1>4, <1>5, <1>6, <1>7, <1>8, <1>9, <1>10 DEF Inv

LEMMA TickKeeps ==
  ASSUME Inv,
         Tick
  PROVE  Inv'
<1> USE DEF Tick, At, Goto, End, External, Tables, Locked, Intended, Holding
<1>0. TypeOK /\ Handlers  BY DEF Inv
<1>1. TypeOK'
  BY <1>0, BoundAssumption, AbsentAssumption, BlankTyped
  DEF Inv, TypeOK, Handlers, Request, Token, Issuance
<1>2. Handlers'
  BY <1>0
  DEF Inv, TypeOK, Handlers, Blank
<1>3. KeyLock'
  BY <1>0
  DEF Inv, TypeOK, Handlers, KeyLock, Blank
<1>4. Unissued'
  BY <1>0
  DEF Inv, TypeOK, Handlers, Unissued
<1>5. Answering'
  BY <1>0
  DEF Inv, TypeOK, Handlers, Answering, Blank
<1>6. Inspection'
  BY <1>0
  DEF Inv, TypeOK, Handlers, Inspection, Blank
<1>7. Authentication'
  BY <1>0
  DEF Inv, TypeOK, Handlers, Authentication, Blank, Live
<1>8. OneTokenPerKey'
  BY <1>0, AbsentAssumption
  DEF Inv, TypeOK, Handlers, OneTokenPerKey, Blank, Answer
<1>9. WithinSession'
  BY <1>0
  DEF Inv, TypeOK, Handlers, WithinSession, Token
<1>10. AcceptedWhileLive'
  BY <1>0
  DEF Inv, TypeOK, Handlers, AcceptedWhileLive, Blank
<1> QED
  BY <1>1, <1>2, <1>3, <1>4, <1>5, <1>6, <1>7, <1>8, <1>9, <1>10 DEF Inv

LEMMA StutterKeeps ==
  ASSUME Inv,
         UNCHANGED vars
  PROVE  Inv'
<1> USE DEF vars, At, Goto, End, External, Tables, Locked, Intended, Holding
<1>0. TypeOK /\ Handlers  BY DEF Inv
<1>1. TypeOK'
  BY <1>0, BoundAssumption, AbsentAssumption, BlankTyped
  DEF Inv, TypeOK, Handlers, Request, Token, Issuance
<1>2. Handlers'
  BY <1>0
  DEF Inv, TypeOK, Handlers, Blank
<1>3. KeyLock'
  BY <1>0
  DEF Inv, TypeOK, Handlers, KeyLock, Blank
<1>4. Unissued'
  BY <1>0
  DEF Inv, TypeOK, Handlers, Unissued
<1>5. Answering'
  BY <1>0
  DEF Inv, TypeOK, Handlers, Answering, Blank
<1>6. Inspection'
  BY <1>0
  DEF Inv, TypeOK, Handlers, Inspection, Blank
<1>7. Authentication'
  BY <1>0
  DEF Inv, TypeOK, Handlers, Authentication, Blank, Live
<1>8. OneTokenPerKey'
  BY <1>0, AbsentAssumption
  DEF Inv, TypeOK, Handlers, OneTokenPerKey, Blank, Answer
<1>9. WithinSession'
  BY <1>0
  DEF Inv, TypeOK, Handlers, WithinSession, Token
<1>10. AcceptedWhileLive'
  BY <1>0
  DEF Inv, TypeOK, Handlers, AcceptedWhileLive, Blank
<1> QED
  BY <1>1, <1>2, <1>3, <1>4, <1>5, <1>6, <1>7, <1>8, <1>9, <1>10 DEF Inv

LEMMA InvInit == Init => Inv
<1> SUFFICES ASSUME Init PROVE Inv  OBVIOUS
<1>1. TypeOK
  BY BoundAssumption, AbsentAssumption, BlankTyped
  DEF Init, TypeOK, NoToken, Issuance, NoIssuance, NoIntent
<1> QED
  BY <1>1
  DEF Init, Inv, Handlers, KeyLock, Unissued, Answering, Inspection, Authentication, OneTokenPerKey,
      WithinSession, AcceptedWhileLive, Blank, NoToken, At, Locked, Intended, Holding

LEMMA InvNext == Inv /\ [Next]_vars => Inv'
<1> SUFFICES ASSUME Inv, [Next]_vars PROVE Inv'  OBVIOUS
<1>1. ASSUME NEW r \in Requests, Lookup(r) PROVE Inv'
  <2>1. CASE issuance[req[r].key].token = None
    BY <1>1, <2>1, LookedUpKeeps DEF Lookup, Tables
  <2>2. CASE issuance[req[r].key].token # None /\ issuance[req[r].key].intent = req[r].intent
    BY <1>1, <2>2, RetriedKeeps DEF Lookup
  <2>3. CASE issuance[req[r].key].token # None /\ issuance[req[r].key].intent # req[r].intent
    BY <1>1, <2>3, EndKeeps DEF Lookup, Tables
  <2> QED  BY <2>1, <2>2, <2>3
<1>2. ASSUME NEW r \in Requests, Commit(r) PROVE Inv'
  <2>1. CASE req[r].intent.expires > now /\ issuance[req[r].key].token = None
    <3>1. PICK t \in Tokens : Committed(r, t)
      BY <1>2, <2>1 DEF Commit, Committed
    <3> QED  BY <3>1, CommittedKeeps
  <2>2. CASE ~(req[r].intent.expires > now /\ issuance[req[r].key].token = None)
    BY <1>2, <2>2, EndKeeps DEF Commit, Tables
  <2> QED  BY <2>1, <2>2
<1>3. ASSUME NEW r \in Requests, AuthClock(r) PROVE Inv'
  <2>1. CASE req[r].row.live /\ req[r].row.expires > now
    <3>1. PICK late \in BOOLEAN : late <=> ~Live(req[r].token)  OBVIOUS
    <3>2. PICK until : until = Least(req[r].row.expires, now + AssertionTtl)  OBVIOUS
    <3>3. late = ~Live(req[r].token)  BY <3>1 DEF Live
    <3>4. until \in Nat /\ until <= req[r].row.expires
      <4>1. TypeOK  BY DEF Inv
      <4>2. req[r].row.expires \in Nat  BY <4>1 DEF TypeOK, Request, Row
      <4>3. now + AssertionTtl \in Nat  BY <4>1, BoundAssumption DEF TypeOK
      <4> QED  BY <3>2, <4>2, <4>3 DEF Least
    <3>5. Clocked(r, late, until)  BY <1>3, <2>1, <3>1, <3>2, <3>3, <3>4 DEF AuthClock, Clocked
    <3> QED  BY <3>4, <3>5, ClockedKeeps
  <2>2. CASE ~(req[r].row.live /\ req[r].row.expires > now)
    BY <1>3, <2>2, EndKeeps DEF AuthClock
  <2> QED  BY <2>1, <2>2
<1>4. ASSUME NEW r \in Requests, AuthRecord(r) PROVE Inv'
  BY <1>4, EndKeeps, RecordedKeeps DEF AuthRecord, Recorded, Tables
<1>5. ASSUME NEW r \in Requests, MayIssue(r) \/ CheckPermission(r) \/ Reinspect(r) \/ MayStillIssue(r)
      PROVE  Inv'
  <2>1. CASE MayIssue(r)
    BY <2>1, EndKeeps, MayKeeps DEF MayIssue
  <2>2. CASE CheckPermission(r)
    BY <2>2, EndKeeps, CheckedKeeps DEF CheckPermission
  <2>3. CASE Reinspect(r)
    BY <2>3, EndKeeps, InspectedKeeps DEF Reinspect
  <2>4. CASE MayStillIssue(r)
    BY <2>4, EndKeeps, MayStillKeeps DEF MayStillIssue
  <2> QED  BY <1>5, <2>1, <2>2, <2>3, <2>4
<1>6. ASSUME NEW r \in Requests, Issuing(r) PROVE Inv'
  BY <1>1, <1>2, <1>5, <1>6, HumanIssueKeeps, TakeLockKeeps, DiscloseKeeps DEF Issuing
<1>7. ASSUME NEW r \in Requests, Authenticating(r) PROVE Inv'
  BY <1>3, <1>4, <1>7, AuthLoadKeeps DEF Authenticating
<1>8. ASSUME NEW r \in Requests, Abandon(r) PROVE Inv'
  BY <1>8, EndKeeps DEF Abandon
<1>9. ASSUME NEW t \in Tokens, Management(t) PROVE Inv'
  BY <1>9, OperatorIssueKeeps, RevokeTokenKeeps, RevokeSessionKeeps, AttenuateKeeps DEF Management
<1> QED
  BY <1>6, <1>7, <1>8, <1>9, NarrowParentKeeps, EndParentKeeps, RestartKeeps, TickKeeps, StutterKeeps
  DEF Next

LEMMA InvAlways == Spec => []Inv
BY InvInit, InvNext, PTL DEF Spec

(* The state is well typed, and a key has a record exactly if a token was  *)
(* issued under it: the rows of an issue appear together.                  *)
THEOREM TypesHold == Spec => []TypeOK
<1>1. Inv => TypeOK  BY DEF Inv
<1> QED  BY <1>1, InvAlways, PTL

(* An idempotency key is worth one token, whoever retries, and however     *)
(* many of its requests are in progress at once.                           *)
THEOREM OneTokenPerKeyHolds == Spec => []OneTokenPerKey
<1>1. Inv => OneTokenPerKey  BY DEF Inv
<1> QED  BY <1>1, InvAlways, PTL

(* What a person issues to himself is within what his session has, for as  *)
(* long as the session is as it was when it was inspected last.            *)
THEOREM WithinSessionHolds == Spec => []WithinSession
<1>1. Inv => WithinSession  BY DEF Inv
<1> QED  BY <1>1, InvAlways, PTL

(* An assertion was begun while the token lived, ends no later than the    *)
(* token, and the use it stands for is on record.                          *)
THEOREM AcceptedWhileLiveHolds == Spec => []AcceptedWhileLive
<1>1. Inv => AcceptedWhileLive  BY DEF Inv
<1> QED  BY <1>1, InvAlways, PTL
================================================================================
