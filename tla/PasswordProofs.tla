--------------------------- MODULE PasswordProofs ---------------------------
(***************************************************************************)
(* Proofs about PasswordAuth, for every number of identifiers, passwords   *)
(* and requests, every window, limit, pool and batch. The rows and the     *)
(* requests are finite sets, because they are counted.                     *)
(***************************************************************************)
EXTENDS PasswordAuth, FiniteSetTheorems, TLAPS

-----------------------------------------------------------------------------
(* Typing, without the upper bounds on permits and orphans: those follow   *)
(* from PermitsConserved.                                                  *)

Loose ==
  /\ now \in 0 .. MaxTime
  /\ account \in [Identifiers -> {"unknown", "active", "disabled"}]
  /\ credential \in [Identifiers -> Passwords \cup {None}]
  /\ failures \in [Slots -> Failure]
  /\ permits \in Nat
  /\ orphans \in Nat
  /\ req \in [Requests -> Request]

(* Who a request is for is known from its start.                           *)
Named == \A r \in Requests :
  req[r].step # "idle" => req[r].id \in Identifiers /\ req[r].password \in Passwords

Typed == Loose /\ Named

LEMMA RowsTyped ==
  ASSUME Loose, NEW S
  PROVE  Without(S) \in [Slots -> Failure]
BY DEF Loose, Without, NoFailure, Failure

LEMMA BlankTyped == Blank \in Request
BY DEF Blank, Request, Steps, JobSteps, Outcomes

LEMMA GotoTyped ==
  ASSUME Loose, NEW r \in Requests, NEW step \in Steps, Goto(r, step)
  PROVE  /\ req' \in [Requests -> Request]
         /\ req' = [req EXCEPT ![r] = [req[r] EXCEPT !.step = step]]
<1>1. req[r] \in Request  BY DEF Loose
<1>2. [req[r] EXCEPT !.step = step] \in Request  BY <1>1 DEF Request
<1> QED  BY <1>2 DEF Loose, Goto

LEMMA ReplyTyped ==
  ASSUME Loose, NEW r \in Requests, NEW answer \in Outcomes, Reply(r, answer)
  PROVE  /\ req' \in [Requests -> Request]
         /\ req'[r].step = "idle"
<1>1. req[r] \in Request  BY DEF Loose
<1>2. [Blank EXCEPT !.op = req[r].op, !.id = req[r].id,
                    !.password = req[r].password, !.outcome = answer] \in Request
  BY <1>1 DEF Request, Blank, Steps, JobSteps
<1> QED  BY <1>2 DEF Loose, Reply, Blank

(* What a handler's step does to its own request, and that it leaves the   *)
(* others alone.                                                           *)
Own(r) == \E v \in Request : req' = [req EXCEPT ![r] = v]

LEMMA GotoOwn ==
  ASSUME Loose, NEW r \in Requests, NEW step \in Steps, Goto(r, step)
  PROVE  /\ Own(r) /\ req'[r].step = step
         /\ req'[r].op = req[r].op /\ req'[r].id = req[r].id
         /\ req'[r].password = req[r].password /\ req'[r].hash = req[r].hash
         /\ req'[r].outcome = req[r].outcome /\ req'[r].start = req[r].start
<1>1. req[r] \in Request  BY DEF Loose
<1>2. [req[r] EXCEPT !.step = step] \in Request  BY <1>1 DEF Request
<1> QED  BY <1>1, <1>2, GotoTyped DEF Own, Loose, Request

LEMMA ReplyOwn ==
  ASSUME Loose, NEW r \in Requests, NEW answer \in Outcomes, Reply(r, answer)
  PROVE  /\ Own(r) /\ req'[r].step = "idle" /\ req'[r].outcome = answer
         /\ req'[r].op = req[r].op /\ req'[r].id = req[r].id
         /\ req'[r].password = req[r].password /\ req'[r].hash = None
         /\ req'[r].start = 0
<1>1. req[r] \in Request  BY DEF Loose
<1>2. [Blank EXCEPT !.op = req[r].op, !.id = req[r].id,
                    !.password = req[r].password, !.outcome = answer] \in Request
  BY <1>1 DEF Request, Blank, Steps, JobSteps
<1> QED  BY <1>1, <1>2 DEF Loose, Reply, Blank, Own, Request

LEMMA StartOwn ==
  ASSUME Loose, NEW r \in Requests, NEW v \in Request, req' = [req EXCEPT ![r] = v]
  PROVE  Own(r) /\ req'[r] = v
BY DEF Loose, Own

LEMMA RegisterRecord ==
  ASSUME NEW i \in Identifiers, NEW p \in Passwords,
         NEW step \in {"idle", "hashing"}, NEW answer \in {"none", "failed"}
  PROVE  [Blank EXCEPT !.op = "register", !.id = i, !.password = p,
                       !.step = step, !.outcome = answer] \in Request
BY DEF Blank, Request, Steps, JobSteps, Outcomes

LEMMA LoginRecord ==
  ASSUME Loose, NEW i \in Identifiers, NEW p \in Passwords
  PROVE  [Blank EXCEPT !.op = "login", !.step = "prune",
                       !.id = i, !.password = p, !.start = now] \in Request
<1>1. now \in Nat  BY LimitAssumption DEF Loose
<1> QED  BY <1>1 DEF Blank, Request, Steps, JobSteps, Outcomes

-----------------------------------------------------------------------------
(* What is known of a request at each of its steps.                        *)

RegisterSteps == {"hashing", "ensure", "insert"}
LoginSteps    == {"prune", "check", "load", "verify", "verifying", "record",
                  "recording", "clear"}
Entitled(r)   == /\ req[r].id \in Identifiers /\ req[r].password \in Passwords
                 /\ credential[req[r].id] = req[r].password

Sound(r) ==
  /\ req[r].step # "idle" =>
       /\ req[r].id \in Identifiers /\ req[r].password \in Passwords
       /\ req[r].outcome = "none"
  /\ req[r].start <= now
  /\ req[r].hash # None => req[r].id \in Identifiers /\ credential[req[r].id] = req[r].hash
  /\ req[r].step \in RegisterSteps => req[r].op = "register"
  /\ req[r].step \in LoginSteps => req[r].op = "login"
  /\ req[r].step \in {"clear", "issue"} => Entitled(r)
  /\ req[r].outcome \in {"registered", "signed_in"} => Entitled(r)
  /\ req[r].outcome = "registered" => req[r].op = "register"

(* A sign-up that stored its credential.                                   *)
Winner(r) == \/ req[r].step = "issue" /\ req[r].op = "register"
             \/ req[r].outcome = "registered"
Unique    == \A q, r \in Requests :
               Winner(q) /\ Winner(r) /\ req[q].id = req[r].id => q = r

(* Everything that is proved of the requests and the rows together.        *)
RowsBounded == \A i \in Identifiers : Cardinality(Rows(i)) <= MaxFailures
Inv == /\ Loose
       /\ \A r \in Requests : Sound(r)
       /\ Unique
       /\ RowsBounded
       /\ PermitsConserved

(* No step takes a credential away.                                        *)
Kept == /\ credential' \in [Identifiers -> Passwords \cup {None}]
        /\ \A i \in Identifiers : credential[i] # None => credential'[i] = credential[i]

LEMMA OthersSound ==
  ASSUME Loose, NEW q \in Requests, Sound(q), req'[q] = req[q], Kept,
         now' \in Nat, now' >= now
  PROVE  Sound(q)'
<1>1. req[q] \in Request /\ now \in Nat /\ req[q].start \in Nat
  BY DEF Loose, Request
<1>2. Entitled(q) => Entitled(q)'  BY AbsentAssumption DEF Entitled, Kept
<1> QED  BY <1>1, <1>2 DEF Sound, Kept, RegisterSteps, LoginSteps

(* A handler's step, once its own request is known to be sound after it.   *)
LEMMA AllSound ==
  ASSUME Loose, NEW r \in Requests, Own(r), \A q \in Requests : Sound(q), Kept,
         UNCHANGED now, Sound(r)'
  PROVE  \A q \in Requests : Sound(q)'
<1> SUFFICES ASSUME NEW q \in Requests  PROVE Sound(q)'  OBVIOUS
<1>1. CASE q = r  BY <1>1
<1>2. CASE q # r
  <2>1. req'[q] = req[q]  BY <1>2 DEF Own, Loose
  <2>2. now' \in Nat /\ now' >= now  BY DEF Loose
  <2> QED  BY <2>1, <2>2, OthersSound
<1> QED  BY <1>1, <1>2

LEMMA StillUnique ==
  ASSUME Loose, NEW r \in Requests, Own(r), Unique,
         Winner(r)' => Winner(r) /\ req'[r].id = req[r].id
  PROVE  Unique'
<1>1. \A q \in Requests : q # r => req'[q] = req[q]  BY DEF Own, Loose
<1>2. \A q \in Requests : Winner(q)' => Winner(q) /\ req'[q].id = req[q].id
  BY <1>1 DEF Winner
<1> QED  BY <1>2 DEF Unique

-----------------------------------------------------------------------------
(* Each step of a handler: its own request stays sound, no credential is   *)
(* lost, the tables stay typed, and only a sign-up that stores its         *)
(* credential becomes a winner.                                            *)

Tables == /\ failures' \in [Slots -> Failure]
          /\ account' \in [Identifiers -> {"unknown", "active", "disabled"}]
          /\ permits' \in Nat /\ orphans' \in Nat
          /\ now' = now

Step(r) == Own(r) /\ Sound(r)' /\ Kept /\ Tables

NoWinner(r) == Winner(r)' => Winner(r) /\ req'[r].id = req[r].id

LEMMA CredentialKept ==
  ASSUME Loose, UNCHANGED credential
  PROVE  Kept
BY DEF Loose, Kept

(* Begin.                                                                  *)
LEMMA RegisterBeginStep ==
  ASSUME Inv, NEW r \in Requests, NEW i \in Identifiers, NEW p \in Passwords,
         RegisterBegin(r, i, p)
  PROVE  Step(r) /\ NoWinner(r)
<1> DEFINE v == [Blank EXCEPT !.op = "register", !.id = i, !.password = p,
                   !.step = IF permits = 0 THEN "idle" ELSE "hashing",
                   !.outcome = IF permits = 0 THEN "failed" ELSE "none"]
<1>1. v \in Request  BY RegisterRecord
<1>2. Own(r) /\ req'[r] = v  BY <1>1, StartOwn DEF RegisterBegin, Inv
<1>3. /\ v.start = 0 /\ v.hash = None /\ v.id = i /\ v.password = p /\ v.op = "register"
      /\ v.step \in {"idle", "hashing"} /\ v.outcome \in {"none", "failed"}
      /\ v.step = "hashing" => v.outcome = "none"
  BY DEF Blank
<1>n. now \in Nat /\ now' = now  BY LimitAssumption DEF Inv, Loose, RegisterBegin
<1> HIDE DEF v
<1>4. Sound(r)' /\ NoWinner(r)
  BY <1>2, <1>3, <1>n DEF Sound, RegisterSteps, LoginSteps, NoWinner, Winner
<1>5. Kept /\ Tables  BY CredentialKept DEF RegisterBegin, Tables, Inv, Loose
<1> QED  BY Zenon, <1>2, <1>4, <1>5 DEF Step

LEMMA LoginBeginStep ==
  ASSUME Inv, NEW r \in Requests, NEW i \in Identifiers, NEW p \in Passwords,
         LoginBegin(r, i, p)
  PROVE  Step(r) /\ NoWinner(r)
<1> DEFINE v == [Blank EXCEPT !.op = "login", !.step = "prune",
                   !.id = i, !.password = p, !.start = now]
<1>1. v \in Request  BY LoginRecord DEF Inv
<1>2. Own(r) /\ req'[r] = v  BY <1>1, StartOwn DEF LoginBegin, Inv
<1>3. /\ v.start = now /\ v.hash = None /\ v.id = i /\ v.password = p /\ v.op = "login"
      /\ v.step = "prune" /\ v.outcome = "none"
  BY DEF Blank
<1>n. now \in Nat /\ now' = now  BY LimitAssumption DEF Inv, Loose, LoginBegin
<1> HIDE DEF v
<1>4. Sound(r)' /\ NoWinner(r)
  BY <1>2, <1>3, <1>n DEF Sound, RegisterSteps, LoginSteps, NoWinner, Winner
<1>5. Kept /\ Tables  BY CredentialKept DEF LoginBegin, Tables, Inv, Loose
<1> QED  BY <1>2, <1>4, <1>5 DEF Step

(* Moving on and answering, where the credentials do not change.           *)
Forward == {<<"hashing", "ensure">>, <<"ensure", "insert">>, <<"prune", "check">>,
            <<"check", "load">>, <<"verify", "verifying">>, <<"verifying", "record">>,
            <<"clear", "issue">>}

LEMMA GotoStep ==
  ASSUME Inv, NEW r \in Requests, NEW from \in Steps, NEW to \in Steps,
         <<from, to>> \in Forward, At(r, from), Goto(r, to),
         UNCHANGED <<now, credential>>, Tables
  PROVE  Step(r) /\ NoWinner(r)
<1>1. Loose /\ Sound(r)  BY DEF Inv
<1>2. /\ Own(r) /\ req'[r].step = to
      /\ req'[r].op = req[r].op /\ req'[r].id = req[r].id
      /\ req'[r].password = req[r].password /\ req'[r].hash = req[r].hash
      /\ req'[r].outcome = req[r].outcome /\ req'[r].start = req[r].start
  BY <1>1, GotoOwn
<1>3. from \in RegisterSteps \/ from \in LoginSteps
  BY DEF Forward, RegisterSteps, LoginSteps
<1>4. /\ to # "idle" /\ from # "idle" /\ from # "issue"
      /\ to \in RegisterSteps => from \in RegisterSteps
      /\ to \in LoginSteps => from \in LoginSteps
      /\ to \in {"clear", "issue"} => from = "clear"
  BY DEF Forward, RegisterSteps, LoginSteps
<1>5. Sound(r)'  BY <1>1, <1>2, <1>4 DEF Sound, Entitled, At
<1>6. NoWinner(r)
  BY <1>1, <1>2, <1>4 DEF NoWinner, Winner, Sound, At, LoginSteps
<1> QED  BY <1>1, <1>2, <1>5, <1>6, CredentialKept DEF Step

LEMMA ReplyStep ==
  ASSUME Inv, NEW r \in Requests, NEW answer \in Outcomes \ {"registered", "signed_in"},
         ~At(r, "idle"), Reply(r, answer), UNCHANGED <<now, credential>>, Tables
  PROVE  Step(r) /\ NoWinner(r)
<1>1. Loose /\ Sound(r)  BY DEF Inv
<1>2. /\ Own(r) /\ req'[r].step = "idle" /\ req'[r].outcome = answer
      /\ req'[r].op = req[r].op /\ req'[r].hash = None /\ req'[r].start = 0
  BY <1>1, ReplyOwn
<1>3. now' \in Nat  BY <1>1, LimitAssumption DEF Loose
<1>4. Sound(r)'  BY <1>1, <1>2, <1>3 DEF Sound, RegisterSteps, LoginSteps
<1>5. NoWinner(r)  BY <1>1, <1>2 DEF NoWinner, Winner
<1> QED  BY <1>1, <1>2, <1>4, <1>5, CredentialKept DEF Step

(* The steps that write more than their step, or rely on what was read.    *)
LEMMA LoadStep ==
  ASSUME Inv, NEW r \in Requests, Load(r)
  PROVE  Step(r) /\ NoWinner(r)
<1>1. Loose /\ Sound(r) /\ req[r] \in Request  BY DEF Inv, Loose
<1>2. req[r].step = "load" /\ req[r].id \in Identifiers  BY <1>1 DEF Load, At, Sound
<1> DEFINE v == [req[r] EXCEPT !.step = "verify", !.hash = credential[req[r].id]]
<1>3. v \in Request  BY <1>1, <1>2 DEF Request, Steps, Loose
<1>4. req' = [req EXCEPT ![r] = v]  BY <1>1 DEF Load, Loose
<1>5. Own(r) /\ req'[r] = v  BY <1>1, <1>3, <1>4, StartOwn
<1>6. /\ v.step = "verify" /\ v.hash = credential[req[r].id] /\ v.op = req[r].op
      /\ v.id = req[r].id /\ v.password = req[r].password
      /\ v.outcome = req[r].outcome /\ v.start = req[r].start
  BY <1>1 DEF Request
<1> HIDE DEF v
<1>7. Sound(r)' /\ NoWinner(r)
  BY <1>1, <1>2, <1>5, <1>6
     DEF Load, Sound, RegisterSteps, LoginSteps, NoWinner, Winner, Entitled
<1>8. Kept /\ Tables  BY <1>1, CredentialKept DEF Load, Tables, Loose
<1> QED  BY <1>5, <1>7, <1>8 DEF Step

LEMMA RecordBeginStep ==
  ASSUME Inv, NEW r \in Requests, RecordBegin(r)
  PROVE  Step(r) /\ NoWinner(r)
<1>1. Loose /\ Sound(r) /\ req[r] \in Request  BY DEF Inv, Loose
<1>n. now \in Nat  BY <1>1, LimitAssumption DEF Loose
<1> DEFINE v == [req[r] EXCEPT !.step = "recording", !.stamp = now]
<1>3. v \in Request  BY <1>1, <1>n DEF Request, Steps
<1>4. req' = [req EXCEPT ![r] = v]  BY <1>1 DEF RecordBegin, Loose
<1>5. Own(r) /\ req'[r] = v  BY <1>1, <1>3, <1>4, StartOwn
<1>6. /\ v.step = "recording" /\ v.hash = req[r].hash /\ v.op = req[r].op
      /\ v.id = req[r].id /\ v.password = req[r].password
      /\ v.outcome = req[r].outcome /\ v.start = req[r].start
  BY <1>1 DEF Request
<1> HIDE DEF v
<1>7. Sound(r)' /\ NoWinner(r)
  BY <1>1, <1>5, <1>6
     DEF RecordBegin, At, Sound, RegisterSteps, LoginSteps, NoWinner, Winner, Entitled
<1>8. Kept /\ Tables  BY <1>1, CredentialKept DEF RecordBegin, Tables, Loose
<1> QED  BY <1>5, <1>7, <1>8 DEF Step

LEMMA EndVerifyStep ==
  ASSUME Inv, NEW r \in Requests, EndVerify(r)
  PROVE  Step(r) /\ NoWinner(r)
<1>1. Loose /\ Sound(r) /\ At(r, "verifying")  BY DEF Inv, EndVerify
<1>2. Tables  BY <1>1 DEF EndVerify, Tables, Loose
<1>3. CASE ~Valid(r)
  BY <1>2, <1>3, GotoStep DEF EndVerify, Forward, Steps, JobSteps
<1>4. CASE Valid(r)
  <2>1. Goto(r, "clear") /\ UNCHANGED <<now, credential>>  BY <1>4 DEF EndVerify
  <2>2. Entitled(r)  BY <1>1, <1>4 DEF Valid, Sound, Entitled, At
  <2>3. /\ Own(r) /\ req'[r].step = "clear"
        /\ req'[r].op = req[r].op /\ req'[r].id = req[r].id
        /\ req'[r].password = req[r].password /\ req'[r].hash = req[r].hash
        /\ req'[r].outcome = req[r].outcome /\ req'[r].start = req[r].start
    BY <1>1, <2>1, GotoOwn DEF Steps
  <2>4. Sound(r)' /\ NoWinner(r)
    BY <1>1, <2>1, <2>2, <2>3
       DEF Sound, RegisterSteps, LoginSteps, At, Entitled, NoWinner, Winner
  <2> QED  BY <1>1, <1>2, <2>1, <2>3, <2>4, CredentialKept DEF Step
<1> QED  BY <1>3, <1>4

LEMMA IssueStep ==
  ASSUME Inv, NEW r \in Requests, Issue(r)
  PROVE  Step(r) /\ NoWinner(r)
<1>1. Loose /\ Sound(r) /\ At(r, "issue")  BY DEF Inv, Issue
<1>2. Tables /\ Kept  BY <1>1, CredentialKept DEF Issue, Tables, Loose
<1>3. PICK answer \in {"disabled", "registered", "signed_in"} :
        Reply(r, answer) /\ (answer = "registered" => req[r].op = "register")
  BY DEF Issue
<1>4. /\ Own(r) /\ req'[r].step = "idle" /\ req'[r].outcome = answer
      /\ req'[r].op = req[r].op /\ req'[r].id = req[r].id
      /\ req'[r].password = req[r].password /\ req'[r].hash = None
      /\ req'[r].start = 0
  BY <1>1, <1>3, ReplyOwn DEF Outcomes
<1>5. now' \in Nat  BY <1>1, <1>2, LimitAssumption DEF Loose, Tables
<1>6. Sound(r)'
  BY <1>1, <1>3, <1>4, <1>5 DEF Sound, RegisterSteps, LoginSteps, At, Entitled, Issue
<1>7. NoWinner(r)  BY <1>1, <1>3, <1>4 DEF NoWinner, Winner, At
<1> QED  BY <1>2, <1>4, <1>6, <1>7 DEF Step

(* A sign-up that stores its credential is the first: those before it      *)
(* stored one too.                                                         *)
LEMMA InsertStep ==
  ASSUME Inv, NEW r \in Requests, Insert(r)
  PROVE  Step(r) /\ Unique'
<1>1. Loose /\ Sound(r) /\ At(r, "insert")  BY DEF Inv, Insert
<1>2. req[r].id \in Identifiers /\ req[r].password \in Passwords /\ req[r].op = "register"
  BY <1>1 DEF Sound, At, RegisterSteps
<1>3. Tables  BY <1>1 DEF Insert, Tables, Loose
<1>4. CASE credential[req[r].id] # None
  <2>1. Step(r) /\ NoWinner(r)
    BY <1>1, <1>3, <1>4, ReplyStep DEF Insert, Outcomes, At
  <2> QED  BY <1>1, <2>1, StillUnique DEF Inv, Step, NoWinner
<1>5. CASE credential[req[r].id] = None
  <2>1. /\ credential' = [credential EXCEPT ![req[r].id] = req[r].password]
        /\ Goto(r, "issue") /\ now' = now
    BY <1>5 DEF Insert
  <2>2. /\ Own(r) /\ req'[r].step = "issue"
        /\ req'[r].op = req[r].op /\ req'[r].id = req[r].id
        /\ req'[r].password = req[r].password /\ req'[r].hash = req[r].hash
        /\ req'[r].outcome = req[r].outcome /\ req'[r].start = req[r].start
    BY <1>1, <2>1, GotoOwn DEF Steps
  <2>3. Kept  BY <1>1, <1>2, <1>5, <2>1 DEF Kept, Loose
  <2>4. Entitled(r)'  BY <1>1, <1>2, <2>1, <2>2 DEF Entitled, Loose
  <2>5. Sound(r)'
    BY <1>1, <1>2, <1>5, <2>1, <2>2, <2>4
       DEF Sound, RegisterSteps, LoginSteps, At
  <2>6. \A q \in Requests : q # r => req'[q] = req[q]  BY <1>1, <2>2 DEF Own, Loose
  <2>7. ASSUME NEW q \in Requests, q # r, Winner(q)'  PROVE req'[q].id # req'[r].id
    <3>1. Winner(q) /\ Sound(q)  BY <2>6, <2>7 DEF Winner, Inv
    <3>2. Entitled(q)  BY <3>1 DEF Winner, Sound
    <3> QED  BY <1>5, <2>2, <2>6, <2>7, <3>2, AbsentAssumption DEF Entitled
  <2>8. ASSUME NEW p \in Requests, NEW q \in Requests, p # r, q # r,
               Winner(p)', Winner(q)', req'[p].id = req'[q].id
        PROVE  p = q
    BY <2>6, <2>8 DEF Winner, Inv, Unique
  <2>9. Unique'  BY <2>7, <2>8 DEF Unique
  <2> QED  BY <1>3, <2>2, <2>3, <2>5, <2>9 DEF Step
<1> QED  BY <1>4, <1>5

(* Any other step of a handler.                                            *)
LEMMA OtherStep ==
  ASSUME Inv, NEW r \in Requests,
         \/ EndHash(r) \/ Ensure(r) \/ PruneStale(r) \/ Check(r) \/ Verify(r)
         \/ Record(r) \/ Clear(r) \/ Abandon(r)
  PROVE  Step(r) /\ NoWinner(r)
<1>0. Loose /\ req[r] \in Request /\ permits \in Nat /\ orphans \in Nat
  BY DEF Inv, Loose
<1> USE DEF At
<1>1. CASE EndHash(r)
  <2>1. Tables  BY <1>0, <1>1 DEF EndHash, Tables, Loose
  <2> QED  BY <1>1, <2>1, GotoStep DEF EndHash, Forward, Steps, JobSteps
<1>2. CASE Ensure(r)
  <2>1. Tables  BY <1>0, <1>2 DEF Ensure, Tables, Loose
  <2>2. CASE account[req[r].id] = "disabled"
    BY <1>2, <2>1, <2>2, ReplyStep DEF Ensure, Outcomes
  <2>3. CASE account[req[r].id] # "disabled"
    BY <1>2, <2>1, <2>3, GotoStep DEF Ensure, Forward, Steps
  <2> QED  BY <2>2, <2>3
<1>3. CASE PruneStale(r)
  <2>1. Tables  BY <1>0, <1>3, RowsTyped DEF PruneStale, Tables, Loose
  <2> QED  BY <1>3, <2>1, GotoStep DEF PruneStale, Forward, Steps
<1>4. CASE Check(r)
  <2>1. Tables  BY <1>0, <1>4, RowsTyped DEF Check, Tables, Loose
  <2>2. CASE Cardinality(Counted(r)) >= MaxFailures
    BY <1>4, <2>1, <2>2, ReplyStep DEF Check, Outcomes
  <2>3. CASE ~(Cardinality(Counted(r)) >= MaxFailures)
    BY <1>4, <2>1, <2>3, GotoStep DEF Check, Forward, Steps
  <2> QED  BY <2>2, <2>3
<1>5. CASE Verify(r)
  <2>1. Tables  BY <1>0, <1>5 DEF Verify, Tables, Loose
  <2>2. CASE permits = 0  BY <1>5, <2>1, <2>2, ReplyStep DEF Verify, Outcomes
  <2>3. CASE permits # 0
    BY <1>5, <2>1, <2>3, GotoStep DEF Verify, Forward, Steps, JobSteps
  <2> QED  BY <2>2, <2>3
<1>6. CASE Record(r)
  <2>1. CASE Cardinality(Counted(r)) < MaxFailures
    <3>1. PICK k \in Slots : failures' = Recorded(r, k)  BY <1>6, <2>1 DEF Record
    <3>2. [id |-> req[r].id, at |-> req[r].stamp] \in Failure
      BY <1>0 DEF Request, Failure
    <3>3. failures' \in [Slots -> Failure]
      BY <1>0, <3>1, <3>2, RowsTyped DEF Recorded
    <3>4. Tables  BY <1>0, <1>6, <3>3 DEF Record, Tables, Loose
    <3> QED  BY <1>6, <2>1, <3>4, ReplyStep DEF Record, Outcomes
  <2>2. CASE ~(Cardinality(Counted(r)) < MaxFailures)
    <3>1. Tables  BY <1>0, <1>6, <2>2, RowsTyped DEF Record, Tables, Loose
    <3> QED  BY <1>6, <2>2, <3>1, ReplyStep DEF Record, Outcomes
  <2> QED  BY <2>1, <2>2
<1>7. CASE Clear(r)
  <2>1. Tables  BY <1>0, <1>7, RowsTyped DEF Clear, Tables, Loose
  <2> QED  BY <1>7, <2>1, GotoStep DEF Clear, Forward, Steps
<1>8. CASE Abandon(r)
  <2>1. Tables  BY <1>0, <1>8 DEF Abandon, Tables, Loose
  <2> QED  BY <1>8, <2>1, ReplyStep DEF Abandon, Outcomes
<1> QED  BY <1>1, <1>2, <1>3, <1>4, <1>5, <1>6, <1>7, <1>8

-----------------------------------------------------------------------------
(* The rows of an identifier.                                              *)

LEMMA RowsFinite ==
  ASSUME NEW i
  PROVE  IsFiniteSet(Rows(i)) /\ Cardinality(Rows(i)) \in Nat
<1>1. Rows(i) \in SUBSET Slots  BY DEF Rows
<1> QED  BY <1>1, FiniteAssumption, FS_Subset, FS_CardinalityType

(* Taking rows away leaves no identifier with more of them.                *)
LEMMA RowsTakenAway ==
  ASSUME Loose, RowsBounded, NEW S, failures' = Without(S)
  PROVE  RowsBounded'
<1> SUFFICES ASSUME NEW i \in Identifiers
             PROVE  Cardinality(Rows(i)') <= MaxFailures
  BY DEF RowsBounded
<1>1. Rows(i)' \in SUBSET Rows(i)
  BY AbsentAssumption DEF Rows, Without, NoFailure
<1>2. Cardinality(Rows(i)') <= Cardinality(Rows(i))
  BY <1>1, RowsFinite, FS_Subset
<1>3. IsFiniteSet(Rows(i)')  BY <1>1, RowsFinite, FS_Subset
<1>4. Cardinality(Rows(i)') \in Nat  BY <1>3, FS_CardinalityType
<1> QED  BY <1>2, <1>4, RowsFinite, LimitAssumption DEF RowsBounded

(* Recording adds one row, to those counted under the lock.                *)
LEMMA RowAdded ==
  ASSUME Loose, RowsBounded, NEW r \in Requests, NEW k \in Slots,
         req[r].id \in Identifiers, failures[k] = NoFailure,
         Cardinality(Counted(r)) < MaxFailures, failures' = Recorded(r, k)
  PROVE  RowsBounded'
<1> SUFFICES ASSUME NEW i \in Identifiers
             PROVE  Cardinality(Rows(i)') <= MaxFailures
  BY DEF RowsBounded
<1>0. failures[k].id = None  BY DEF NoFailure
<1>1. CASE i = req[r].id
  <2>1. Rows(i)' = Counted(r) \cup {k}
    BY <1>0, <1>1, AbsentAssumption DEF Rows, Recorded, Counted, Without, NoFailure
  <2>2. Counted(r) \in SUBSET Rows(i)  BY <1>1 DEF Counted
  <2>3. IsFiniteSet(Counted(r))  BY <2>2, RowsFinite, FS_Subset
  <2>4. k \notin Counted(r)  BY <1>0, AbsentAssumption DEF Counted, Rows
  <2>5. Cardinality(Rows(i)') = Cardinality(Counted(r)) + 1
    BY <2>1, <2>3, <2>4, FS_AddElement
  <2>6. Cardinality(Counted(r)) \in Nat  BY <2>3, FS_CardinalityType
  <2> QED  BY <2>5, <2>6, LimitAssumption
<1>2. CASE i # req[r].id
  <2>1. Rows(i)' \in SUBSET Rows(i)
    BY <1>2, AbsentAssumption DEF Rows, Recorded, Without, NoFailure
  <2>2. Cardinality(Rows(i)') <= Cardinality(Rows(i))
    BY <2>1, RowsFinite, FS_Subset
  <2>3. IsFiniteSet(Rows(i)')  BY <2>1, RowsFinite, FS_Subset
  <2>4. Cardinality(Rows(i)') \in Nat  BY <2>3, FS_CardinalityType
  <2> QED  BY <2>2, <2>4, RowsFinite, LimitAssumption DEF RowsBounded
<1> QED  BY <1>1, <1>2

LEMMA RowsStay ==
  ASSUME RowsBounded, UNCHANGED failures
  PROVE  RowsBounded'
<1>1. \A i \in Identifiers : Rows(i)' = Rows(i)  BY DEF Rows
<1> QED  BY <1>1 DEF RowsBounded

LEMMA RowsStep ==
  ASSUME Inv, Next
  PROVE  RowsBounded'
<1>0. Loose /\ RowsBounded  BY DEF Inv
<1>1. ASSUME NEW r \in Requests, PruneStale(r)  PROVE RowsBounded'
  BY <1>0, <1>1, RowsTakenAway DEF PruneStale
<1>2. ASSUME NEW r \in Requests, Check(r)  PROVE RowsBounded'
  BY <1>0, <1>2, RowsTakenAway DEF Check
<1>3. ASSUME NEW r \in Requests, Record(r)  PROVE RowsBounded'
  <2>1. req[r].id \in Identifiers  BY <1>3 DEF Inv, Sound, Record, At
  <2>2. CASE Cardinality(Counted(r)) < MaxFailures
    <3>1. PICK k \in Slots : failures[k] = NoFailure /\ failures' = Recorded(r, k)
      BY <1>3, <2>2 DEF Record
    <3> QED  BY <1>0, <2>1, <2>2, <3>1, RowAdded
  <2>3. CASE ~(Cardinality(Counted(r)) < MaxFailures)
    BY <1>0, <1>3, <2>3, RowsTakenAway DEF Record
  <2> QED  BY <2>2, <2>3
<1>4. ASSUME NEW r \in Requests, Clear(r)  PROVE RowsBounded'
  BY <1>0, <1>4, RowsTakenAway DEF Clear
<1>5. CASE UNCHANGED failures  BY <1>0, <1>5, RowsStay
<1> QED
  BY <1>1, <1>2, <1>3, <1>4, <1>5
     DEF Next, Register, Login, RegisterBegin, LoginBegin, EndHash, Ensure, Insert, Load,
         Verify, EndVerify, RecordBegin, Issue, Abandon, EndOrphan, Restart, Tick, SetAccount

-----------------------------------------------------------------------------
(* The permits.                                                            *)

LEMMA JobsFinite == IsFiniteSet(Jobs) /\ Cardinality(Jobs) \in Nat
<1>1. Jobs \in SUBSET Requests  BY DEF Jobs
<1> QED  BY <1>1, FiniteAssumption, FS_Subset, FS_CardinalityType

(* A handler's step adds its job, ends it, or leaves the jobs alone.       *)
LEMMA JobsMove ==
  ASSUME Loose, NEW r \in Requests, Own(r)
  PROVE  /\ r \notin Jobs /\ req'[r].step \in JobSteps =>
              Cardinality(Jobs') = Cardinality(Jobs) + 1
         /\ r \in Jobs /\ req'[r].step \notin JobSteps =>
              Cardinality(Jobs') = Cardinality(Jobs) - 1
         /\ r \notin Jobs /\ req'[r].step \notin JobSteps => Jobs' = Jobs
<1>1. \A q \in Requests : q # r => req'[q] = req[q]  BY DEF Own, Loose
<1>2. req'[r].step \in JobSteps => Jobs' = Jobs \cup {r}  BY <1>1 DEF Jobs
<1>3. req'[r].step \notin JobSteps => Jobs' = Jobs \ {r}  BY <1>1 DEF Jobs
<1>4. Cardinality(Jobs \cup {r}) = IF r \in Jobs THEN Cardinality(Jobs)
                                     ELSE Cardinality(Jobs) + 1
  BY JobsFinite, FS_AddElement
<1>5. Cardinality(Jobs \ {r}) = IF r \in Jobs THEN Cardinality(Jobs) - 1
                                  ELSE Cardinality(Jobs)
  BY JobsFinite, FS_RemoveElement
<1>6. r \notin Jobs => Jobs \ {r} = Jobs  OBVIOUS
<1> QED  BY <1>2, <1>3, <1>4, <1>5, <1>6

(* A step that neither starts nor ends a job nor touches a permit.         *)
LEMMA PermitsStay ==
  ASSUME Loose, PermitsConserved, NEW r \in Requests, Own(r),
         r \notin Jobs, req'[r].step \notin JobSteps, UNCHANGED <<permits, orphans>>
  PROVE  PermitsConserved'
<1>1. Jobs' = Jobs  BY JobsMove
<1> QED  BY <1>1 DEF PermitsConserved

LEMMA PermitTaken ==
  ASSUME Loose, PermitsConserved, NEW r \in Requests, Own(r), r \notin Jobs,
         req'[r].step \in JobSteps, permits' = permits - 1, UNCHANGED orphans
  PROVE  PermitsConserved'
<1>1. Cardinality(Jobs') = Cardinality(Jobs) + 1  BY JobsMove
<1>2. permits \in Nat /\ orphans \in Nat /\ Cardinality(Jobs) \in Nat
  BY JobsFinite DEF Loose
<1> QED  BY <1>1, <1>2 DEF PermitsConserved

LEMMA PermitReturned ==
  ASSUME Loose, PermitsConserved, NEW r \in Requests, Own(r), r \in Jobs,
         req'[r].step \notin JobSteps,
         \/ permits' = permits + 1 /\ orphans' = orphans
         \/ permits' = permits /\ orphans' = orphans + 1
  PROVE  PermitsConserved'
<1>1. Cardinality(Jobs') = Cardinality(Jobs) - 1  BY JobsMove
<1>2. permits \in Nat /\ orphans \in Nat /\ Cardinality(Jobs) \in Nat
  BY JobsFinite DEF Loose
<1> QED  BY <1>1, <1>2 DEF PermitsConserved

(* The handler's steps that run no job.                                    *)
LEMMA QuietStep ==
  ASSUME Inv, NEW r \in Requests,
         \/ Ensure(r) \/ Insert(r) \/ PruneStale(r) \/ Check(r) \/ Load(r)
         \/ RecordBegin(r) \/ Record(r) \/ Clear(r) \/ Issue(r)
  PROVE  PermitsConserved'
<1>1. Own(r)
  BY OtherStep, InsertStep, LoadStep, RecordBeginStep, IssueStep DEF Step
<1>2. Loose /\ req[r] \in Request  BY DEF Inv, Loose
<1>3. r \notin Jobs
  BY DEF Jobs, JobSteps, At, Ensure, Insert, PruneStale, Check, Load, RecordBegin, Record,
         Clear, Issue
<1>4. ASSUME NEW step \in Steps \ JobSteps, Goto(r, step)
      PROVE  req'[r].step \notin JobSteps
  BY <1>2, <1>4, GotoOwn
<1>5. ASSUME NEW answer \in Outcomes, Reply(r, answer)
      PROVE  req'[r].step \notin JobSteps
  BY <1>2, <1>5, ReplyOwn DEF JobSteps
<1>6. /\ {"ensure", "insert", "check", "load", "issue"} \subseteq Steps \ JobSteps
      /\ {"registered", "signed_in", "taken", "disabled", "invalid", "rate_limited"}
           \subseteq Outcomes
  BY DEF Steps, JobSteps, Outcomes
<1>7. ASSUME Load(r) \/ RecordBegin(r)  PROVE req'[r].step \notin JobSteps
  BY <1>2, <1>7 DEF Load, RecordBegin, Loose, Request, JobSteps
<1>8. ASSUME Issue(r)  PROVE req'[r].step \notin JobSteps
  BY <1>5, <1>6, <1>8 DEF Issue
<1>9. ASSUME Ensure(r) \/ Insert(r) \/ PruneStale(r) \/ Check(r) \/ Record(r) \/ Clear(r)
      PROVE  req'[r].step \notin JobSteps
  BY <1>4, <1>5, <1>6, <1>9 DEF Ensure, Insert, PruneStale, Check, Record, Clear
<1>10. req'[r].step \notin JobSteps  BY <1>7, <1>8, <1>9
<1>11. UNCHANGED <<permits, orphans>>
  BY DEF Ensure, Insert, PruneStale, Check, Load, RecordBegin, Record, Clear, Issue
<1> QED  BY <1>1, <1>2, <1>3, <1>10, <1>11, PermitsStay DEF Inv

LEMMA PermitsStep ==
  ASSUME Inv, Next
  PROVE  PermitsConserved'
<1>0. /\ Loose /\ PermitsConserved
      /\ permits \in Nat /\ orphans \in Nat /\ Cardinality(Jobs) \in Nat
      /\ MaxJobs \in Nat
  BY JobsFinite, LimitAssumption DEF Inv, Loose
<1>1. ASSUME NEW r \in Requests, NEW i \in Identifiers, NEW p \in Passwords,
             RegisterBegin(r, i, p)
      PROVE  PermitsConserved'
  <2>1. Own(r)  BY <1>1, RegisterBeginStep DEF Step
  <2>2. req'[r].step = IF permits = 0 THEN "idle" ELSE "hashing"
    BY <1>0, <1>1 DEF RegisterBegin, Loose, Blank
  <2>3. r \notin Jobs  BY <1>1 DEF RegisterBegin, At, Jobs, JobSteps
  <2>4. CASE permits = 0
    BY <1>0, <1>1, <2>1, <2>2, <2>3, <2>4, PermitsStay DEF RegisterBegin, JobSteps
  <2>5. CASE permits # 0
    BY <1>0, <1>1, <2>1, <2>2, <2>3, <2>5, PermitTaken DEF RegisterBegin, JobSteps
  <2> QED  BY <2>4, <2>5
<1>2. ASSUME NEW r \in Requests, NEW i \in Identifiers, NEW p \in Passwords,
             LoginBegin(r, i, p)
      PROVE  PermitsConserved'
  <2>1. Own(r)  BY <1>2, LoginBeginStep DEF Step
  <2>2. req'[r].step = "prune"  BY <1>0, <1>2 DEF LoginBegin, Loose, Blank
  <2>3. r \notin Jobs  BY <1>2 DEF LoginBegin, At, Jobs, JobSteps
  <2> QED  BY <1>0, <1>2, <2>1, <2>2, <2>3, PermitsStay DEF LoginBegin, JobSteps
<1>3. ASSUME NEW r \in Requests, EndHash(r) \/ EndVerify(r)  PROVE PermitsConserved'
  <2>1. Own(r)  BY <1>3, OtherStep, EndVerifyStep DEF Step
  <2>2. PICK step \in {"ensure", "clear", "record"} : Goto(r, step)
    BY <1>3 DEF EndHash, EndVerify
  <2>3. req'[r].step \notin JobSteps
    BY <1>0, <2>2, GotoOwn DEF Steps, JobSteps
  <2>4. r \in Jobs  BY <1>3 DEF EndHash, EndVerify, At, Jobs, JobSteps
  <2> QED  BY <1>0, <1>3, <2>1, <2>3, <2>4, PermitReturned DEF EndHash, EndVerify
<1>4. ASSUME NEW r \in Requests, Verify(r)  PROVE PermitsConserved'
  <2>1. Own(r)  BY <1>4, OtherStep DEF Step
  <2>2. r \notin Jobs  BY <1>4 DEF Verify, At, Jobs, JobSteps
  <2>3. CASE permits = 0
    <3>1. req'[r].step = "idle"
      BY <1>0, <1>4, <2>3, ReplyOwn DEF Verify, Outcomes
    <3> QED  BY <1>0, <1>4, <2>1, <2>2, <2>3, <3>1, PermitsStay DEF Verify, JobSteps
  <2>4. CASE permits # 0
    <3>1. req'[r].step = "verifying"
      BY <1>0, <1>4, <2>4, GotoOwn DEF Verify, Steps, JobSteps
    <3> QED  BY <1>0, <1>4, <2>1, <2>2, <2>4, <3>1, PermitTaken DEF Verify, JobSteps
  <2> QED  BY <2>3, <2>4
<1>5. ASSUME NEW r \in Requests, Abandon(r)  PROVE PermitsConserved'
  <2>1. Own(r)  BY <1>5, OtherStep DEF Step
  <2>2. req'[r].step \notin JobSteps
    BY <1>0, <1>5, ReplyOwn DEF Abandon, Outcomes, JobSteps
  <2>3. CASE r \in Jobs
    BY <1>0, <1>5, <2>1, <2>2, <2>3, PermitReturned DEF Abandon
  <2>4. CASE r \notin Jobs
    BY <1>0, <1>5, <2>1, <2>2, <2>4, PermitsStay DEF Abandon
  <2> QED  BY <2>3, <2>4
<1>6. CASE EndOrphan
  <2>1. Jobs' = Jobs  BY <1>6 DEF EndOrphan, Jobs
  <2> QED  BY <1>0, <1>6, <2>1 DEF EndOrphan, PermitsConserved
<1>7. CASE Restart
  <2>1. Jobs' = {}  BY <1>7 DEF Restart, Jobs, Blank, JobSteps
  <2> QED  BY <1>0, <1>7, <2>1, FS_EmptySet DEF Restart, PermitsConserved
<1>8. ASSUME UNCHANGED <<permits, orphans, req>>  PROVE PermitsConserved'
  <2>1. Jobs' = Jobs  BY <1>8 DEF Jobs
  <2> QED  BY <1>0, <1>8, <2>1 DEF PermitsConserved
<1>9. CASE Tick  BY <1>8, <1>9 DEF Tick
<1>10. ASSUME NEW i \in Identifiers, NEW status, SetAccount(i, status)
       PROVE  PermitsConserved'
  BY <1>8, <1>10 DEF SetAccount
<1> QED
  BY <1>1, <1>2, <1>3, <1>4, <1>5, <1>6, <1>7, <1>9, <1>10, QuietStep
     DEF Next, Register, Login

-----------------------------------------------------------------------------
(* The invariant holds at first and is kept by every step.                 *)

LEMMA InvInit == Init => Inv
<1> SUFFICES ASSUME Init  PROVE Inv  OBVIOUS
<1>1. Loose
  BY BlankTyped, LimitAssumption DEF Init, Loose, NoFailure, Failure
<1>2. \A r \in Requests : req[r] = Blank  BY DEF Init
<1>3. \A r \in Requests : Sound(r)
  BY <1>2 DEF Init, Sound, Blank, RegisterSteps, LoginSteps
<1>4. Unique  BY <1>2 DEF Unique, Winner, Blank
<1>5. RowsBounded
  <2>1. \A i \in Identifiers : Rows(i) = {}
    BY AbsentAssumption DEF Init, Rows, NoFailure
  <2> QED  BY <2>1, FS_EmptySet, LimitAssumption DEF RowsBounded
<1>6. PermitsConserved
  <2>1. Jobs = {}  BY <1>2 DEF Jobs, Blank, JobSteps
  <2> QED  BY <2>1, FS_EmptySet, LimitAssumption DEF Init, PermitsConserved
<1> QED  BY <1>1, <1>3, <1>4, <1>5, <1>6 DEF Inv

LEMMA StepKeeps ==
  ASSUME Inv, NEW r \in Requests, Step(r), NoWinner(r) \/ Unique'
  PROVE  Loose' /\ (\A q \in Requests : Sound(q)') /\ Unique'
<1>1. Loose'
  BY DEF Inv, Loose, Step, Own, Kept, Tables
<1>2. \A q \in Requests : Sound(q)'  BY AllSound DEF Inv, Step, Tables
<1>3. Unique'  BY StillUnique DEF Inv, Step, NoWinner
<1> QED  BY <1>1, <1>2, <1>3

LEMMA RequestsStep ==
  ASSUME Inv, Next
  PROVE  Loose' /\ (\A q \in Requests : Sound(q)') /\ Unique'
<1>0. Loose /\ now \in Nat /\ orphans \in Nat /\ permits \in Nat
  BY LimitAssumption DEF Inv, Loose
<1>1. ASSUME NEW r \in Requests,
             \/ \E i \in Identifiers, p \in Passwords :
                  RegisterBegin(r, i, p) \/ LoginBegin(r, i, p)
             \/ Register(r) \/ Login(r) \/ Issue(r) \/ Abandon(r)
      PROVE  Step(r) /\ (NoWinner(r) \/ Unique')
  BY <1>1, RegisterBeginStep, LoginBeginStep, LoadStep, RecordBeginStep, EndVerifyStep,
     IssueStep, InsertStep, OtherStep DEF Register, Login
<1>2. ASSUME req' = req, credential' = credential, now' \in Nat, now' >= now
      PROVE  (\A q \in Requests : Sound(q)') /\ Unique'
  <2>1. \A q \in Requests : Sound(q)'
    BY <1>0, <1>2, OthersSound, CredentialKept DEF Inv
  <2>2. Unique'  BY <1>2 DEF Inv, Unique, Winner
  <2> QED  BY <2>1, <2>2
<1>3. CASE EndOrphan
  <2>1. Loose'  BY <1>0, <1>3 DEF EndOrphan, Loose
  <2> QED  BY <1>0, <1>2, <1>3, <2>1 DEF EndOrphan
<1>4. CASE Restart
  <2>1. Loose'  BY <1>0, <1>4, BlankTyped, LimitAssumption DEF Restart, Loose
  <2>2. \A r \in Requests : req'[r] = Blank  BY <1>4 DEF Restart
  <2>3. \A r \in Requests : Sound(r)'
    BY <1>0, <1>4, <2>2 DEF Restart, Sound, Blank, RegisterSteps, LoginSteps
  <2>4. Unique'  BY <2>2 DEF Unique, Winner, Blank
  <2> QED  BY <2>1, <2>3, <2>4
<1>5. CASE Tick
  <2>1. Loose'  BY <1>0, <1>5, LimitAssumption DEF Tick, Loose
  <2> QED  BY <1>0, <1>2, <1>5, <2>1 DEF Tick
<1>6. ASSUME NEW i \in Identifiers, NEW status \in {"active", "disabled"},
             SetAccount(i, status)
      PROVE  Loose' /\ (\A q \in Requests : Sound(q)') /\ Unique'
  <2>1. Loose'  BY <1>0, <1>6 DEF SetAccount, Loose
  <2> QED  BY <1>0, <1>2, <1>6, <2>1 DEF SetAccount
<1> QED  BY <1>1, <1>3, <1>4, <1>5, <1>6, StepKeeps DEF Next

THEOREM InvAlways == Spec => []Inv
<1>1. Inv /\ [Next]_vars => Inv'
  <2>1. ASSUME Inv, Next  PROVE Inv'
    BY <2>1, RequestsStep, RowsStep, PermitsStep DEF Inv
  <2>2. ASSUME Inv, UNCHANGED vars  PROVE Inv'
    BY <2>2 DEF vars, Inv, Loose, Sound, Entitled, Unique, Winner, RowsBounded, Rows,
                PermitsConserved, Jobs
  <2> QED  BY <2>1, <2>2
<1> QED  BY InvInit, <1>1, PTL DEF Spec

-----------------------------------------------------------------------------
(* What follows.                                                           *)

(* Every permit is free or held by a job that runs, whoever goes away.     *)
THEOREM PermitsNeverLost == Spec => []PermitsConserved
<1>1. Inv => PermitsConserved  BY DEF Inv
<1> QED  BY <1>1, InvAlways, PTL

(* The state is well typed; that permits and orphans stay within the pool  *)
(* is a consequence of PermitsConserved.                                   *)
THEOREM Typing == Spec => []TypeOK
<1>1. Inv => TypeOK
  <2> SUFFICES ASSUME Inv  PROVE TypeOK  OBVIOUS
  <2>1. /\ permits \in Nat /\ orphans \in Nat /\ Cardinality(Jobs) \in Nat /\ MaxJobs \in Nat
        /\ permits + orphans + Cardinality(Jobs) = MaxJobs
    BY JobsFinite, LimitAssumption DEF Inv, Loose, PermitsConserved
  <2>2. permits \in 0 .. MaxJobs /\ orphans \in 0 .. MaxJobs  BY <2>1
  <2> QED  BY <2>2 DEF Inv, Loose, TypeOK
<1> QED  BY <1>1, InvAlways, PTL

(* The window of an identifier never holds more than max_failures.         *)
THEOREM LimitHolds == Spec => []FailureLimit
<1>1. Inv => FailureLimit
  <2> SUFFICES ASSUME Inv, NEW i \in Identifiers
               PROVE  Cardinality(InWindow(i)) <= MaxFailures
    BY DEF FailureLimit
  <2>1. InWindow(i) \in SUBSET Rows(i)  BY DEF InWindow
  <2>2. /\ Cardinality(InWindow(i)) <= Cardinality(Rows(i))
        /\ IsFiniteSet(InWindow(i))
    BY <2>1, RowsFinite, FS_Subset
  <2>3. Cardinality(InWindow(i)) \in Nat  BY <2>2, FS_CardinalityType
  <2>4. Cardinality(Rows(i)) <= MaxFailures  BY DEF Inv, RowsBounded
  <2> QED  BY <2>2, <2>3, <2>4, RowsFinite, LimitAssumption
<1> QED  BY <1>1, InvAlways, PTL

(* Of concurrent sign-ups one wins, and only its password signs in.        *)
THEOREM RegistrantIsOne == Spec => []OneRegistrant
<1>1. Inv => OneRegistrant
  BY DEF Inv, Sound, Entitled, Unique, Winner, OneRegistrant
<1> QED  BY <1>1, InvAlways, PTL

(* A row goes only when it is stale or its identifier signed in.           *)
Justified(k) ==
  failures[k] # NoFailure /\ failures'[k] # failures[k] =>
    \/ failures[k].at < now - Window
    \/ \E r \in Requests : /\ At(r, "clear") /\ req[r].id = failures[k].id
                           /\ credential[req[r].id] = req[r].password

LEMMA PrunedIsStale ==
  ASSUME Inv, NEW r \in Requests, NEW k \in Slots, k \in Before(Since(r))
  PROVE  failures[k].at < now - Window
<1>1. /\ failures[k].at \in Nat /\ req[r].start \in Nat /\ now \in Nat /\ Window \in Nat
      /\ req[r].start <= now
  BY LimitAssumption DEF Inv, Loose, Failure, Request, Sound
<1> QED  BY <1>1 DEF Before, Since

THEOREM NothingForgotten == Spec => NoForgetting
<1>1. ASSUME Inv, Next, NEW k \in Slots  PROVE Justified(k)
  <2>1. ASSUME NEW r \in Requests, NEW S \in SUBSET Before(Since(r)),
               failures' = Without(S)
        PROVE  Justified(k)
    BY <1>1, <2>1, PrunedIsStale DEF Without, Justified
  <2>2. ASSUME NEW r \in Requests, PruneStale(r)  PROVE Justified(k)
    BY <2>1, <2>2 DEF PruneStale
  <2>3. ASSUME NEW r \in Requests, Check(r)  PROVE Justified(k)
    BY <2>1, <2>3 DEF Check
  <2>4. ASSUME NEW r \in Requests, Record(r)  PROVE Justified(k)
    <3>1. CASE Cardinality(Counted(r)) < MaxFailures
      <4>1. PICK n \in Slots : failures[n] = NoFailure /\ failures' = Recorded(r, n)
        BY <2>4, <3>1 DEF Record
      <4> QED  BY <1>1, <4>1, PrunedIsStale DEF Recorded, Without, Justified
    <3>2. CASE ~(Cardinality(Counted(r)) < MaxFailures)
      BY <2>1, <2>4, <3>2 DEF Record
    <3> QED  BY <3>1, <3>2
  <2>5. ASSUME NEW r \in Requests, Clear(r)  PROVE Justified(k)
    <3>1. Entitled(r) /\ At(r, "clear")  BY <1>1, <2>5 DEF Inv, Sound, Clear, At
    <3> QED  BY <2>5, <3>1 DEF Clear, Without, Rows, Entitled, Justified
  <2>6. CASE UNCHANGED failures  BY <2>6 DEF Justified
  <2> QED
    BY <1>1, <2>2, <2>3, <2>4, <2>5, <2>6
       DEF Next, Register, Login, RegisterBegin, LoginBegin, EndHash, Ensure, Insert, Load,
           Verify, EndVerify, RecordBegin, Issue, Abandon, EndOrphan, Restart, Tick,
           SetAccount
<1>2. Inv /\ [Next]_vars =>
        [\A k \in Slots : failures[k] # NoFailure /\ failures'[k] # failures[k] =>
           \/ failures[k].at < now - Window
           \/ \E r \in Requests : /\ At(r, "clear") /\ req[r].id = failures[k].id
                                  /\ credential[req[r].id] = req[r].password]_vars
  BY Zenon, <1>1 DEF Justified
<1> QED  BY <1>2, InvAlways, PTL DEF Spec, NoForgetting
=============================================================================
