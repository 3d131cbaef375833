------------------------ MODULE AccountSessionsProofs ------------------------
(***************************************************************************)
(* Proofs about AccountSessions, for every number of subjects, sessions,   *)
(* digests, requests, policies and every bound.                            *)
(*                                                                         *)
(* Typing comes first. Then a summary of what a step can do to the tables  *)
(* (TableStep), from which the invariants of the tables follow in seven    *)
(* cases. The rest needs the tables and the requests in progress: first    *)
(* what becomes of credentials (no revival, a single winner of each        *)
(* rotation, no handed-out credential called invalid, the refinement of    *)
(* CredentialChain), then of identities and of the assertions for them.    *)
(***************************************************************************)
EXTENDS AccountSessions, TLAPS

-----------------------------------------------------------------------------
(* Operators.                                                              *)

LEMMA LeastFacts ==
  ASSUME NEW a \in Nat, NEW b \in Nat
  PROVE  Least(a, b) \in Nat /\ Least(a, b) <= a /\ Least(a, b) <= b
BY DEF Least

LEMMA HolderOwns ==
  ASSUME NEW d, Known(d)
  PROVE  Holder(d) \in Sessions /\ Owns(Holder(d), d)
BY DEF Known, Holder

LEMMA PolicyFacts ==
  ASSUME policy \in Policies, policy # NoPolicy
  PROVE  policy.absolute \in Nat /\ policy.idle \in Nat /\ policy.interval \in Nat
BY PolicyAssumption DEF Policy

LEMMA BoundFacts ==
  ASSUME TypeOK, policy # NoPolicy, NEW s \in Sessions
  PROVE  /\ IdleBound(s, policy) \in Nat
         /\ IdleBound(s, policy) <= session[s].expires
         /\ AbsoluteBound(s, policy) \in Nat
         /\ AbsoluteBound(s, policy) <= session[s].absolute
         /\ PolicyBound(s, policy) \in Nat
         /\ PolicyBound(s, policy) <= session[s].expires
         /\ PolicyBound(s, policy) <= session[s].absolute
<1>1. session[s] \in SessionRow  BY DEF TypeOK
<1>2. /\ session[s].expires \in Nat /\ session[s].lastRenew \in Nat
      /\ session[s].idle \in Nat /\ session[s].absolute \in Nat
      /\ session[s].issuedAt \in Nat
  BY <1>1 DEF SessionRow
<1>3. policy.absolute \in Nat /\ policy.idle \in Nat  BY PolicyFacts DEF TypeOK
<1> QED  BY <1>2, <1>3 DEF IdleBound, AbsoluteBound, PolicyBound, Least

LEMMA RowBoundFacts ==
  ASSUME TypeOK, NEW s \in Sessions
  PROVE  RowBound(s) \in Nat /\ RowBound(s) <= session[s].expires
<1>1. session[s].expires \in Nat  BY DEF TypeOK, SessionRow
<1> QED  BY <1>1, BoundFacts DEF RowBound

LEMMA EffectiveFacts ==
  ASSUME TypeOK, NEW s \in Sessions
  PROVE  /\ EffectiveExpiry(s) \in Nat
         /\ EffectiveExpiry(s) <= RowBound(s)
<1>1. session[s].parent \in Sessions \cup {None}  BY DEF TypeOK, SessionRow
<1>2. CASE HasParent(s)
  <2>1. session[s].parent \in Sessions  BY <1>1, <1>2 DEF HasParent
  <2> QED  BY <1>2, <2>1, RowBoundFacts DEF EffectiveExpiry, Least
<1>3. CASE ~HasParent(s)
  BY <1>3, RowBoundFacts DEF EffectiveExpiry
<1> QED  BY <1>2, <1>3

LEMMA LoadedFacts ==
  ASSUME TypeOK, NEW s \in Sessions
  PROVE  LoadedExpiry(s) \in Nat /\ LoadedExpiry(s) <= session[s].expires
<1>1. session[s] \in SessionRow  BY DEF TypeOK
<1>2. session[s].expires \in Nat /\ session[s].parent \in Sessions \cup {None}
  BY <1>1 DEF SessionRow
<1>3. CASE HasParent(s)
  <2>1. session[s].parent \in Sessions  BY <1>2, <1>3 DEF HasParent
  <2>2. session[session[s].parent].expires \in Nat  BY <2>1 DEF TypeOK, SessionRow
  <2> QED  BY <1>2, <1>3, <2>2 DEF LoadedExpiry, Least
<1>4. CASE ~HasParent(s)
  BY <1>2, <1>4 DEF LoadedExpiry
<1> QED  BY <1>3, <1>4

(* The answers of the two classifications.                                 *)
LEMMA MetadataAnswers ==
  ASSUME NEW d
  PROVE  /\ Metadata(d) \in {"invalid", "revoked", "stale", "unsupported", "expired", "ok"}
         /\ Metadata(d) = "invalid" <=> ~Known(d)
         /\ RenewVerdict(d) \in {"invalid", "revoked", "stale", "unsupported", "expired",
                                 "too_early", "rotated"}
         /\ RenewVerdict(d) = "invalid" <=> ~Known(d)
BY DEF Metadata, RenewVerdict

LEMMA RotatedMeans ==
  ASSUME NEW d, RenewVerdict(d) = "rotated"
  PROVE  LET s == Holder(d)
         IN /\ Known(d) /\ s \in Sessions /\ Owns(s, d)
            /\ ~session[s].revoked /\ ~Disabled(session[s].owner)
            /\ session[s].digest = d
            /\ session[s].managed /\ ~HasParent(s)
            /\ ~(IdleBound(s, policy) <= now) /\ ~(AbsoluteBound(s, policy) <= now)
<1>1. Metadata(d) \notin {"invalid", "revoked", "stale", "unsupported"}
  BY DEF RenewVerdict, Metadata
<1>2. Known(d)  BY <1>1 DEF Metadata
<1>3. Holder(d) \in Sessions /\ Owns(Holder(d), d)  BY <1>2, HolderOwns
<1> QED  BY <1>1, <1>2, <1>3 DEF RenewVerdict, Metadata

-----------------------------------------------------------------------------
(* Typing. A request at a step has what that step reads: Ready is the      *)
(* strengthening that makes TypeOK inductive.                              *)

Ready(q, p) ==
  /\ q.step \in {"ensure_insert", "ensure_reread"} => q.ext \in Externals
  /\ q.step = "issue_insert" =>
       q.subj \in Subjects /\ (q.op = "issue_managed" => p # NoPolicy)
  /\ q.step \in {"renew_load", "renew_classify", "renew_tx"} =>
       q.op = "renew" /\ q.cred \in Digests /\ p # NoPolicy
  /\ q.step \in {"auth_clock", "auth_metadata", "auth_policy"} =>
       q.op = "authenticate" /\ q.cred \in Digests /\ q.sess \in Sessions
  /\ q.step \in {"auth_metadata", "auth_policy"} => p # NoPolicy
  /\ q.step = "grant_insert" => q.op = "grant" /\ q.cred \in Digests

Typed == TypeOK /\ \A r \in Requests : Ready(req[r], policy)

LEMMA BlankIsReady ==
  ASSUME NEW p
  PROVE  Blank \in Request /\ Ready(Blank, p)
BY DEF Blank, Request, Operations, Steps, Outcomes, Ready

(* A request changed to one that is well formed keeps requests well formed.*)
LEMMA RequestUpdate ==
  ASSUME Typed, NEW r \in Requests, NEW q \in Request, Ready(q, policy),
         req' = [req EXCEPT ![r] = q], policy' = policy
  PROVE  req' \in [Requests -> Request] /\ \A w \in Requests : Ready(req'[w], policy')
BY DEF Typed, TypeOK

LEMMA ReplyIsReady ==
  ASSUME Typed, NEW r \in Requests, NEW answer \in Outcomes,
         Reply(r, answer), policy' = policy
  PROVE  req' \in [Requests -> Request] /\ \A w \in Requests : Ready(req'[w], policy')
<1> DEFINE q == [Asked(req[r].op, "idle") EXCEPT
                   !.outcome = answer, !.cred = req[r].cred, !.known = req[r].known]
<1>1. req[r] \in Request  BY DEF Typed, TypeOK
<1>2. q \in Request
  BY <1>1 DEF Asked, Blank, Request, Steps
<1>3. Ready(q, policy)  BY DEF Asked, Blank, Ready
<1>4. req' = [req EXCEPT ![r] = q]  BY DEF Reply
<1> QED  BY <1>2, <1>3, <1>4, RequestUpdate

LEMMA SignIsReady ==
  ASSUME Typed, NEW r \in Requests, NEW expires \in Nat, NEW stamp \in Nat,
         NEW open \in BOOLEAN, Sign(r, expires, stamp, open), policy' = policy
  PROVE  req' \in [Requests -> Request] /\ \A w \in Requests : Ready(req'[w], policy')
<1> DEFINE bound  == Least(expires, stamp + AssertionTtl)
           answer == IF expires <= stamp THEN "expired" ELSE "accepted"
           q      == [req[r] EXCEPT !.step = "idle", !.stamp = stamp, !.open = open,
                        !.bound = bound, !.outcome = answer]
<1>1. req[r] \in Request  BY DEF Typed, TypeOK
<1>2. bound \in Nat /\ answer \in Outcomes
  BY NumberAssumption DEF Least, Outcomes
<1>3. req' = [req EXCEPT ![r] = q]  BY <1>1 DEF Sign, Typed, TypeOK
<1> HIDE DEF bound, answer
<1>4. q \in Request  BY <1>1, <1>2 DEF Request, Steps
<1>5. Ready(q, policy)  BY <1>1 DEF Request, Ready
<1> QED  BY <1>3, <1>4, <1>5, RequestUpdate

LEMMA GotoIsReady ==
  ASSUME Typed, NEW r \in Requests, NEW step \in Steps, Goto(r, step), policy' = policy,
         Ready([req[r] EXCEPT !.step = step], policy)
  PROVE  req' \in [Requests -> Request] /\ \A w \in Requests : Ready(req'[w], policy')
<1>1. req[r] \in Request  BY DEF Typed, TypeOK
<1>2. [req[r] EXCEPT !.step = step] \in Request  BY <1>1 DEF Request
<1>3. req' = [req EXCEPT ![r] = [req[r] EXCEPT !.step = step]]
  BY DEF Goto, Typed, TypeOK
<1> QED  BY <1>2, <1>3, RequestUpdate

(* A new request is well formed.                                           *)
LEMMA StartIsReady ==
  ASSUME Typed, NEW r \in Requests, NEW q \in Request, Start(r, q), Ready(q, policy),
         UNCHANGED <<now, policy, tables>>
  PROVE  Typed'
BY RequestUpdate DEF Start, Typed, TypeOK, tables

LEMMA CallTyped ==
  ASSUME Typed, NEW r \in Requests, Call(r)
  PROVE  Typed'
<1>0. /\ policy \in Policies /\ now \in Nat
      /\ \A l \in Lifetimes : now + l \in Nat
      /\ \A x \in Externals : binding[x] \in Subjects \cup {None}
  BY NumberAssumption DEF Typed, TypeOK
<1>1. ASSUME NEW x \in Externals, EnsureRead(r, x)  PROVE Typed'
  <2> DEFINE found == [Asked("ensure", "idle") EXCEPT !.ext = x,
                         !.outcome = Identity(x).outcome, !.subj = binding[x]]
             ask   == [Asked("ensure", "ensure_insert") EXCEPT !.ext = x]
  <2>1. Identity(x).outcome \in {"identity", "disabled"}  BY DEF Identity
  <2>2. found \in Request /\ Ready(found, policy)
    BY <1>0, <2>1 DEF Asked, Blank, Request, Ready, Operations, Steps, Outcomes
  <2>3. ask \in Request /\ Ready(ask, policy)
    BY DEF Asked, Blank, Request, Ready, Operations, Steps, Outcomes
  <2> QED  BY <1>1, <2>2, <2>3, StartIsReady DEF EnsureRead
<1>2. ASSUME NEW u \in Subjects, NEW l \in Lifetimes, IssueCheck(r, u, l)  PROVE Typed'
  <2> DEFINE q == [Asked("issue", IF l = 0 THEN "idle" ELSE "issue_insert") EXCEPT
                     !.subj = u, !.bound = now + l,
                     !.outcome = IF l = 0 THEN "expired" ELSE "none"]
  <2>1. q \in Request
    BY <1>0 DEF Asked, Blank, Request, Operations, Steps, Outcomes
  <2>2. Ready(q, policy)  BY DEF Asked, Blank, Ready
  <2> QED  BY <1>2, <2>1, <2>2, StartIsReady DEF IssueCheck
<1>3. ASSUME NEW u \in Subjects, IssueManagedCheck(r, u)  PROVE Typed'
  <2> DEFINE q == [Asked("issue_managed", "issue_insert") EXCEPT
                     !.subj = u, !.stamp = now]
  <2>1. q \in Request
    BY <1>0 DEF Asked, Blank, Request, Operations, Steps, Outcomes
  <2>2. Ready(q, policy)  BY <1>3 DEF Asked, Blank, Ready, IssueManagedCheck
  <2> QED  BY <1>3, <2>1, <2>2, StartIsReady DEF IssueManagedCheck
<1>4. ASSUME NEW d \in Digests, RenewMetadata(r, d)  PROVE Typed'
  <2> DEFINE answer == Metadata(d)
             known == d \in issued
             q == [Asked("renew", IF answer = "ok" THEN "renew_load" ELSE "idle") EXCEPT
                     !.cred = d, !.known = known,
                     !.outcome = IF answer = "ok" THEN "none" ELSE answer]
  <2>1. answer \in {"invalid", "revoked", "stale", "unsupported", "expired", "ok"}
    BY MetadataAnswers
  <2>2. Start(r, q)  BY <1>4 DEF RenewMetadata
  <2>0. known \in BOOLEAN  OBVIOUS
  <2> HIDE DEF answer, known
  <2>3. q \in Request
    BY <2>0, <2>1 DEF Asked, Blank, Request, Operations, Steps, Outcomes
  <2>4. Ready(q, policy)  BY <1>4 DEF Asked, Blank, Ready, RenewMetadata
  <2> QED  BY <1>4, <2>2, <2>3, <2>4, StartIsReady DEF RenewMetadata
<1>5. ASSUME NEW d \in Digests, AuthLoad(r, d)  PROVE Typed'
  <2> DEFINE s == CHOOSE s \in Sessions : session[s].digest = d
             answer == IF \A w \in Sessions : session[w].digest # d THEN "invalid"
                       ELSE IF Disabled(session[s].owner) \/ LoadedRevoked(s)
                            THEN "revoked" ELSE "none"
             ask  == [Asked("authenticate", "auth_clock") EXCEPT
                        !.cred = d, !.sess = s, !.bound = LoadedExpiry(s)]
             told == [Asked("authenticate", "idle") EXCEPT !.cred = d, !.outcome = answer]
  <2>1. Start(r, IF answer = "none" THEN ask ELSE told)  BY <1>5 DEF AuthLoad
  <2>2. answer \in {"invalid", "revoked", "none"}  OBVIOUS
  <2>3. CASE answer = "none"
    <3>1. s \in Sessions  BY <2>3
    <3>2. LoadedExpiry(s) \in Nat  BY <3>1, LoadedFacts DEF Typed
    <3> HIDE DEF s, answer
    <3>3. ask \in Request /\ Ready(ask, policy)
      BY <3>1, <3>2 DEF Asked, Blank, Request, Ready, Operations, Steps, Outcomes
    <3> QED  BY <1>5, <2>1, <2>3, <3>3, StartIsReady DEF AuthLoad
  <2>4. CASE answer # "none"
    <3> HIDE DEF s, answer
    <3>1. told \in Request /\ Ready(told, policy)
      BY <2>2 DEF Asked, Blank, Request, Ready, Operations, Steps, Outcomes
    <3> QED  BY <1>5, <2>1, <2>4, <3>1, StartIsReady DEF AuthLoad
  <2> QED  BY <2>3, <2>4
<1>6. ASSUME NEW s \in Sessions, RevokeRead(r, s)  PROVE Typed'
  <2> DEFINE ask  == [Asked("revoke", "revoke_write") EXCEPT !.sess = s]
             answer == IF Stored(s) THEN "unchanged" ELSE "not_found"
             told == [Asked("revoke", "idle") EXCEPT !.sess = s, !.outcome = answer]
  <2>1. Start(r, IF Stored(s) /\ ~session[s].revoked THEN ask ELSE told)
    BY <1>6 DEF RevokeRead
  <2>2. ask \in Request /\ Ready(ask, policy)
    BY DEF Asked, Blank, Request, Ready, Operations, Steps, Outcomes
  <2>3. told \in Request /\ Ready(told, policy)
    BY DEF Asked, Blank, Request, Ready, Operations, Steps, Outcomes
  <2> QED  BY <1>6, <2>1, <2>2, <2>3, StartIsReady DEF RevokeRead
<1>7. ASSUME NEW d \in Digests, NEW l \in Lifetimes, GrantCheck(r, d, l)  PROVE Typed'
  <2> DEFINE answer == IF l = 0 THEN "expired"
                       ELSE IF l > GrantLimit THEN "invalid_scope" ELSE "none"
             q == [Asked("grant", IF answer = "none" THEN "grant_insert" ELSE "idle") EXCEPT
                     !.cred = d, !.bound = now + l, !.outcome = answer]
  <2>1. answer \in {"expired", "invalid_scope", "none"}  OBVIOUS
  <2>2. Start(r, q)  BY <1>7 DEF GrantCheck
  <2> HIDE DEF answer
  <2>3. q \in Request /\ Ready(q, policy)
    BY <1>0, <2>1 DEF Asked, Blank, Request, Ready, Operations, Steps, Outcomes
  <2> QED  BY <1>7, <2>2, <2>3, StartIsReady DEF GrantCheck
<1> QED  BY <1>1, <1>2, <1>3, <1>4, <1>5, <1>6, <1>7 DEF Call

LEMMA PlainRowType ==
  ASSUME NEW u \in Subjects \cup {None}, NEW d \in Digests, NEW e \in Nat
  PROVE  PlainRow(u, d, e) \in SessionRow
BY DEF PlainRow, NoRow, SessionRow

LEMMA ChildRowType ==
  ASSUME NEW u \in Subjects \cup {None}, NEW d \in Digests, NEW e \in Nat,
         NEW p \in Sessions
  PROVE  [PlainRow(u, d, e) EXCEPT !.parent = p] \in SessionRow
<1>1. PlainRow(u, d, e) \in SessionRow  BY PlainRowType
<1> QED  BY <1>1 DEF SessionRow

LEMMA ManagedRowType ==
  ASSUME TypeOK, policy # NoPolicy,
         NEW u \in Subjects, NEW d \in Digests, NEW stamp \in Nat
  PROVE  ManagedRow(u, d, stamp) \in SessionRow
<1> DEFINE e   == stamp + policy.idle
           a   == stamp + policy.absolute
           row == PlainRow(u, d, e)
           yes == TRUE
<1>1. policy.absolute \in Nat /\ policy.idle \in Nat /\ policy.interval \in Nat
  BY PolicyFacts DEF TypeOK
<1>2. e \in Nat /\ a \in Nat  BY <1>1
<1>3. row \in SessionRow  BY <1>2, PlainRowType
<1>4. ManagedRow(u, d, stamp) =
        [row EXCEPT !.managed = yes, !.issuedAt = stamp, !.lastRenew = stamp,
                    !.absolute = a, !.idle = policy.idle, !.interval = policy.interval]
  BY DEF ManagedRow
<1> HIDE DEF e, a, row
<1> QED  BY <1>1, <1>2, <1>3, <1>4 DEF SessionRow

LEMMA RevokeType ==
  ASSUME TypeOK, NEW S, Revoke(S)
  PROVE  session' \in [Sessions -> SessionRow]
<1>1. ASSUME NEW s \in Sessions
      PROVE  [session[s] EXCEPT !.revoked = TRUE] \in SessionRow
  BY DEF TypeOK, SessionRow
<1> QED  BY <1>1 DEF Revoke, TypeOK

LEMMA RotateType ==
  ASSUME TypeOK, policy # NoPolicy, NEW s \in Sessions, NEW d \in Digests,
         NEW fresh \in Digests, Rotate(s, d, fresh)
  PROVE  /\ session' \in [Sessions -> SessionRow]
         /\ rotation' \in [Digests -> Sessions \cup {None}]
         /\ issued' \subseteq Digests
<1> DEFINE e == Least(AbsoluteBound(s, policy), now + Least(session[s].idle, policy.idle))
           row == [session[s] EXCEPT !.digest = fresh, !.lastRenew = now, !.expires = e]
<1>1. session[s] \in SessionRow  BY DEF TypeOK
<1>2. e \in Nat
  <2>1. session[s].idle \in Nat /\ policy.idle \in Nat /\ now \in Nat
    BY <1>1, PolicyFacts DEF TypeOK, SessionRow
  <2> QED  BY <2>1, BoundFacts DEF Least
<1>3. session' = [session EXCEPT ![s] = row]
  BY DEF Rotate, TypeOK
<1> HIDE DEF e
<1>4. now \in Nat  BY DEF TypeOK
<1>5. row \in SessionRow  BY <1>1, <1>2, <1>4 DEF SessionRow
<1> QED  BY <1>3, <1>5 DEF Rotate, TypeOK

LEMMA HandlerTyped ==
  ASSUME Typed, NEW r \in Requests, Handler(r)
  PROVE  Typed'
<1> USE DEF Typed
<1>0. /\ policy \in Policies /\ now \in Nat
      /\ req[r] \in Request /\ Ready(req[r], policy)
  BY DEF TypeOK
<1>q. ASSUME req' \in [Requests -> Request] /\ \A w \in Requests : Ready(req'[w], policy'),
             UNCHANGED <<now, policy, tables>>
      PROVE  Typed'
  BY <1>q DEF TypeOK, tables
<1>1. ASSUME EnsureInsert(r)  PROVE Typed'
  <2> DEFINE x == req[r].ext
  <2>1. x \in Externals  BY <1>0, <1>1 DEF EnsureInsert, At, Ready
  <2>2. CASE binding[x] = None
    <3>1. PICK u \in Subjects :
            /\ subject' = [subject EXCEPT ![u].status = "active"]
            /\ binding' = [binding EXCEPT ![x] = u]
            /\ req' = [req EXCEPT ![r].step = "idle", ![r].outcome = "identity",
                                  ![r].subj = u]
      BY <1>1, <2>2 DEF EnsureInsert
    <3> DEFINE q == [req[r] EXCEPT !.step = "idle", !.outcome = "identity", !.subj = u]
    <3>a. q \in Request  BY <1>0 DEF Request, Steps, Outcomes
    <3>b. q.step = "idle"  BY <1>0 DEF Request
    <3>2. q \in Request /\ Ready(q, policy)
      BY <3>a, <3>b DEF Ready
    <3>3. req' = [req EXCEPT ![r] = q]  BY <3>1 DEF TypeOK
    <3>4. req' \in [Requests -> Request] /\ \A w \in Requests : Ready(req'[w], policy')
      BY <1>1, <3>2, <3>3, RequestUpdate DEF EnsureInsert
    <3>5. subject' \in [Subjects -> SubjectRow]
      BY <3>1 DEF TypeOK, SubjectRow
    <3>6. binding' \in [Externals -> Subjects \cup {None}]
      BY <3>1, <2>1 DEF TypeOK
    <3> QED  BY <1>1, <3>4, <3>5, <3>6 DEF EnsureInsert, TypeOK
  <2>3. CASE binding[x] # None
    <3>1. Goto(r, "ensure_reread") /\ UNCHANGED <<now, policy, tables>>
      BY <1>1, <2>3 DEF EnsureInsert, tables
    <3>2. Ready([req[r] EXCEPT !.step = "ensure_reread"], policy)
      BY <1>0, <2>1 DEF Ready, Request
    <3> QED  BY <1>q, <3>1, <3>2, GotoIsReady DEF Steps
  <2> QED  BY <2>2, <2>3
<1>2. ASSUME EnsureReread(r)  PROVE Typed'
  <2> DEFINE answer == Identity(req[r].ext).outcome
             q == [req[r] EXCEPT !.step = "idle", !.outcome = answer,
                                 !.subj = binding[req[r].ext]]
  <2>1. req[r].ext \in Externals  BY <1>0, <1>2 DEF EnsureReread, At, Ready
  <2>2. answer \in Outcomes  BY DEF Identity, Outcomes
  <2>3. req' = [req EXCEPT ![r] = q]  BY <1>2 DEF EnsureReread, TypeOK
  <2>4. binding[req[r].ext] \in Subjects \cup {None}  BY <2>1 DEF TypeOK
  <2> HIDE DEF answer
  <2>a. "idle" \in Steps  BY DEF Steps
  <2>b. q \in Request  BY <1>0, <2>2, <2>4, <2>a DEF Request
  <2>c. q.step = "idle"  BY <1>0 DEF Request
  <2>d. Ready(q, policy)  BY <2>c DEF Ready
  <2>5. q \in Request /\ Ready(q, policy)  BY <2>b, <2>d
  <2> QED  BY <1>2, <1>q, <2>3, <2>5, RequestUpdate DEF EnsureReread
<1>3. ASSUME IssueInsert(r)  PROVE Typed'
  <2> DEFINE u == req[r].subj
  <2>1. /\ u \in Subjects /\ req[r].stamp \in Nat /\ req[r].bound \in Nat
        /\ req[r].op = "issue_managed" => policy # NoPolicy
    BY <1>0, <1>3 DEF IssueInsert, At, Ready, Request
  <2>2. CASE Active(u) /\ now < IssueDeadline(r)
    <3>1. PICK s \in Sessions, d \in Fresh :
            /\ session' = [session EXCEPT ![s] =
                 IF req[r].op = "issue_managed" THEN ManagedRow(u, d, req[r].stamp)
                                                ELSE PlainRow(u, d, req[r].bound)]
            /\ issued' = issued \cup {d}
            /\ Reply(r, "issued")
      BY <1>3, <2>2 DEF IssueInsert
    <3>2. session' \in [Sessions -> SessionRow]
      BY <2>1, <3>1, PlainRowType, ManagedRowType DEF TypeOK, Fresh
    <3>3. req' \in [Requests -> Request] /\ \A w \in Requests : Ready(req'[w], policy')
      BY <1>3, <3>1, ReplyIsReady DEF IssueInsert, Outcomes
    <3> QED  BY <1>3, <3>1, <3>2, <3>3 DEF IssueInsert, TypeOK, Fresh
  <2>3. CASE ~(Active(u) /\ now < IssueDeadline(r))
    <3>1. /\ Reply(r, IF Active(u) THEN "failed" ELSE IF Disabled(u) THEN "disabled"
                       ELSE "invalid")
          /\ UNCHANGED <<now, policy, tables>>
      BY <1>3, <2>3 DEF IssueInsert, tables
    <3> QED  BY <1>q, <3>1, ReplyIsReady DEF Outcomes
  <2> QED  BY <2>2, <2>3
<1>4. ASSUME RenewLoad(r)  PROVE Typed'
  <2> DEFINE step == IF \E s \in Sessions : session[s].digest = req[r].cred
                     THEN "renew_tx" ELSE "renew_classify"
  <2>1. step \in {"renew_tx", "renew_classify"}  OBVIOUS
  <2>2. Goto(r, step)  BY <1>4 DEF RenewLoad
  <2> HIDE DEF step
  <2>3. Ready([req[r] EXCEPT !.step = step], policy) /\ step \in Steps
    BY <1>0, <1>4, <2>1 DEF RenewLoad, At, Ready, Request, Steps
  <2> QED  BY <1>4, <1>q, <2>2, <2>3, GotoIsReady DEF RenewLoad
<1>5. ASSUME RenewClassify(r)  PROVE Typed'
  <2> DEFINE answer == Metadata(req[r].cred)
             told == IF answer \in {"stale", "expired", "revoked"} THEN answer ELSE "invalid"
  <2>1. told \in Outcomes  BY MetadataAnswers DEF Outcomes
  <2> QED  BY <1>5, <1>q, <2>1, ReplyIsReady DEF RenewClassify
<1>6. ASSUME RenewTransaction(r)  PROVE Typed'
  <2> DEFINE d == req[r].cred
  <2>1. d \in Digests /\ policy # NoPolicy
    BY <1>0, <1>6 DEF RenewTransaction, At, Ready
  <2>2. CASE RenewVerdict(d) = "rotated"
    <3>1. PICK fresh \in Fresh : Rotate(Holder(d), d, fresh) /\ Reply(r, "rotated")
      BY <1>6, <2>2 DEF RenewTransaction
    <3>2. Holder(d) \in Sessions  BY <2>2, RotatedMeans
    <3>3. req' \in [Requests -> Request] /\ \A w \in Requests : Ready(req'[w], policy')
      BY <1>6, <3>1, ReplyIsReady DEF RenewTransaction, Outcomes
    <3>4. /\ session' \in [Sessions -> SessionRow]
          /\ rotation' \in [Digests -> Sessions \cup {None}]
          /\ issued' \subseteq Digests
      BY <2>1, <3>1, <3>2, RotateType DEF Fresh
    <3> QED  BY <1>6, <3>3, <3>4 DEF RenewTransaction, TypeOK
  <2>3. CASE RenewVerdict(d) # "rotated"
    <3>1. Reply(r, RenewVerdict(d)) /\ UNCHANGED <<now, policy, tables>>
      BY <1>6, <2>3 DEF RenewTransaction, tables
    <3>2. RenewVerdict(d) \in Outcomes  BY MetadataAnswers DEF Outcomes
    <3> QED  BY <1>q, <3>1, <3>2, ReplyIsReady
  <2> QED  BY <2>2, <2>3
<1>7. ASSUME AuthClock(r)  PROVE Typed'
  <2>1. req[r].bound \in Nat  BY <1>0 DEF Request
  <2> DEFINE open == OpenNow(r)
  <2>o. open \in BOOLEAN  BY DEF OpenNow
  <2>2. CASE policy = NoPolicy
    <3>1. Sign(r, req[r].bound, now, open)  BY <1>7, <2>2 DEF AuthClock
    <3> HIDE DEF open
    <3> QED  BY <1>0, <1>7, <1>q, <2>1, <2>o, <3>1, SignIsReady DEF AuthClock
  <2>3. CASE policy # NoPolicy
    <3> DEFINE q == [req[r] EXCEPT !.step = "auth_metadata", !.stamp = now, !.open = open]
    <3>1. req' = [req EXCEPT ![r] = q]  BY <1>7, <2>3 DEF AuthClock, TypeOK
    <3> HIDE DEF open
    <3>2. q \in Request  BY <1>0, <2>o DEF Request, Steps
    <3>3. Ready(q, policy)  BY <1>0, <1>7, <2>3 DEF Ready, Request, AuthClock, At
    <3> QED  BY <1>7, <1>q, <3>1, <3>2, <3>3, RequestUpdate DEF AuthClock
  <2> QED  BY <2>2, <2>3
<1>8. ASSUME AuthMetadata(r)  PROVE Typed'
  <2> DEFINE answer == Metadata(req[r].cred)
             s == Holder(req[r].cred)
  <2>1. /\ req[r].bound \in Nat /\ req[r].stamp \in Nat /\ req[r].open \in BOOLEAN
        /\ policy # NoPolicy
    BY <1>0, <1>8 DEF AuthMetadata, At, Ready, Request
  <2>2. answer \in {"invalid", "revoked", "stale", "unsupported", "expired", "ok"}
    BY MetadataAnswers
  <2>3. CASE answer = "ok"
    <3>1. s \in Sessions  BY <2>3, MetadataAnswers, HolderOwns
    <3>2. PolicyBound(s, policy) \in Nat  BY <2>1, <3>1, BoundFacts
    <3>3. Least(req[r].bound, PolicyBound(s, policy)) \in Nat  BY <2>1, <3>2 DEF Least
    <3>4. Sign(r, Least(req[r].bound, PolicyBound(s, policy)), req[r].stamp, req[r].open)
      BY <1>8, <2>3 DEF AuthMetadata
    <3> QED  BY <1>8, <1>q, <2>1, <3>3, <3>4, SignIsReady DEF AuthMetadata
  <2>4. CASE answer = "unsupported"
    <3>1. Goto(r, "auth_policy")  BY <1>8, <2>4 DEF AuthMetadata
    <3>2. Ready([req[r] EXCEPT !.step = "auth_policy"], policy)
      BY <1>0, <1>8 DEF AuthMetadata, At, Ready, Request
    <3> QED  BY <1>8, <1>q, <3>1, <3>2, GotoIsReady DEF AuthMetadata, Steps
  <2>5. CASE answer \in {"expired", "revoked"}
    <3>1. Reply(r, answer)  BY <1>8, <2>5 DEF AuthMetadata
    <3> QED  BY <1>8, <1>q, <2>5, <3>1, ReplyIsReady DEF AuthMetadata, Outcomes
  <2>6. CASE answer \in {"invalid", "stale"}
    <3>1. Reply(r, "invalid")  BY <1>8, <2>6 DEF AuthMetadata
    <3> QED  BY <1>8, <1>q, <3>1, ReplyIsReady DEF AuthMetadata, Outcomes
  <2> QED  BY <2>2, <2>3, <2>4, <2>5, <2>6
<1>9. ASSUME AuthPolicy(r)  PROVE Typed'
  <2>1. /\ req[r].bound \in Nat /\ req[r].stamp \in Nat /\ req[r].sess \in Sessions
        /\ req[r].open \in BOOLEAN
    BY <1>0, <1>9 DEF AuthPolicy, At, Ready, Request
  <2>2. Least(req[r].bound, EffectiveExpiry(req[r].sess)) \in Nat
    BY <2>1, EffectiveFacts DEF Least
  <2> QED  BY <1>9, <1>q, <2>1, <2>2, SignIsReady DEF AuthPolicy
<1>10. ASSUME RevokeWrite(r)  PROVE Typed'
  <2>1. session' \in [Sessions -> SessionRow]  BY <1>10, RevokeType DEF RevokeWrite
  <2>2. req' \in [Requests -> Request] /\ \A w \in Requests : Ready(req'[w], policy')
    BY <1>10, ReplyIsReady DEF RevokeWrite, Outcomes
  <2> QED  BY <1>10, <2>1, <2>2 DEF RevokeWrite, TypeOK
<1>11. ASSUME GrantInsert(r)  PROVE Typed'
  <2> DEFINE d == req[r].cred
             parents == {p \in Sessions : session[p].digest = d}
             p == CHOOSE p \in parents : TRUE
             answer == IF parents = {} THEN "invalid" ELSE GrantVerdict(p, req[r].bound)
             row(fresh) == [PlainRow(session[p].owner, fresh,
                              Least(req[r].bound, EffectiveExpiry(p))) EXCEPT !.parent = p]
  <2>1. req[r].bound \in Nat  BY <1>0 DEF Request
  <2>2. CASE answer = "granted"
    <3>1. PICK s \in Sessions, fresh \in Fresh :
            /\ session' = [session EXCEPT ![s] = row(fresh)]
            /\ issued' = issued \cup {fresh}
            /\ Reply(r, "granted")
      BY <1>11, <2>2 DEF GrantInsert
    <3>2. p \in Sessions  BY <2>2
    <3> HIDE DEF p
    <3>3. session[p].owner \in Subjects \cup {None}  BY <3>2 DEF TypeOK, SessionRow
    <3>4. Least(req[r].bound, EffectiveExpiry(p)) \in Nat
      BY <2>1, <3>2, EffectiveFacts DEF Least
    <3>5. fresh \in Digests  BY DEF Fresh
    <3>6. row(fresh) \in SessionRow  BY <3>2, <3>3, <3>4, <3>5, ChildRowType
    <3>7. req' \in [Requests -> Request] /\ \A w \in Requests : Ready(req'[w], policy')
      BY <1>11, <3>1, ReplyIsReady DEF GrantInsert, Outcomes
    <3> QED  BY <1>11, <3>1, <3>5, <3>6, <3>7 DEF GrantInsert, TypeOK
  <2>3. CASE answer # "granted"
    <3>1. Reply(r, answer) /\ UNCHANGED <<now, policy, tables>>
      BY <1>11, <2>3 DEF GrantInsert, tables
    <3>2. answer \in Outcomes  BY DEF GrantVerdict, Outcomes
    <3> QED  BY <1>q, <3>1, <3>2, ReplyIsReady
  <2> QED  BY <2>2, <2>3
<1> QED
  BY <1>1, <1>2, <1>3, <1>4, <1>5, <1>6, <1>7, <1>8, <1>9, <1>10, <1>11 DEF Handler

LEMMA AdministerTyped ==
  ASSUME Typed, Administer
  PROVE  Typed'
<1>0. now \in Nat /\ \A l \in Lifetimes : now + l \in Nat
  BY NumberAssumption DEF Typed, TypeOK
<1>r. ASSUME NEW S, Revoke(S)  PROVE session' \in [Sessions -> SessionRow]
  BY <1>r, RevokeType DEF Typed
<1>1. ASSUME NEW d \in Digests, RevokeCredential(d)  PROVE Typed'
  BY <1>1, <1>r DEF RevokeCredential, Typed, TypeOK
<1>2. ASSUME NEW u \in Subjects, Activate(u)  PROVE Typed'
  BY <1>2 DEF Activate, Typed, TypeOK, SubjectRow
<1>3. ASSUME NEW u \in Subjects, DisableSubject(u)  PROVE Typed'
  <2>1. subject' \in [Subjects -> SubjectRow]
    BY <1>3 DEF DisableSubject, Typed, TypeOK, SubjectRow
  <2> QED  BY <1>3, <1>r, <2>1 DEF DisableSubject, Typed, TypeOK
<1>4. ASSUME NEW u \in Subjects, NEW until \in {None} \cup {now + l : l \in Lifetimes},
             Disable(u, until)
      PROVE  Typed'
  <2>1. until \in Nat \cup {None}  BY <1>0
  <2>2. subject' \in [Subjects -> SubjectRow]
    BY <1>4, <2>1 DEF Disable, Typed, TypeOK, SubjectRow
  <2> QED  BY <1>4, <1>r, <2>2 DEF Disable, Typed, TypeOK
<1> QED  BY <1>1, <1>2, <1>3, <1>4 DEF Administer

LEMMA InitTyped == Init => Typed
<1> SUFFICES ASSUME Init PROVE Typed  OBVIOUS
<1>1. NoRow \in SessionRow  BY DEF NoRow, SessionRow
<1>2. \A r \in Requests : Ready(req[r], policy)  BY BlankIsReady DEF Init
<1> QED  BY <1>1, <1>2, BlankIsReady, NumberAssumption DEF Init, Typed, TypeOK, SubjectRow

LEMMA StepTyped == Typed /\ [Next]_vars => Typed'
<1> SUFFICES ASSUME Typed, [Next]_vars PROVE Typed'  OBVIOUS
<1>1. CASE Tick
  BY <1>1, NumberAssumption DEF Tick, Typed, TypeOK, tables
<1>2. CASE Restart
  BY <1>2, BlankIsReady DEF Restart, Typed, TypeOK, tables
<1>3. CASE UNCHANGED vars
  BY <1>3 DEF vars, Typed, TypeOK
<1> QED  BY <1>1, <1>2, <1>3, CallTyped, HandlerTyped, AdministerTyped DEF Next

(* Every variable keeps its type, and a request never reaches a step       *)
(* without what the step reads.                                            *)
THEOREM TypeCorrect == Spec => []TypeOK
<1>1. Typed => TypeOK  BY DEF Typed
<1> QED  BY <1>1, InitTyped, StepTyped, PTL DEF Spec

-----------------------------------------------------------------------------
(* What a step can do to the tables.                                       *)

Still == UNCHANGED tables /\ (now' = now \/ now' = now + 1)

Enrolled(u, x) ==
  /\ subject[u].status = "absent" /\ binding[x] = None
  /\ subject' = [subject EXCEPT ![u].status = "active"]
  /\ binding' = [binding EXCEPT ![x] = u]
  /\ UNCHANGED <<now, policy, session, rotation, issued>>

Restated(u, row) ==
  /\ subject[u].status # "absent" /\ row.status \in {"active", "disabled"}
  /\ subject' = [subject EXCEPT ![u] = row]
  /\ IF row.status = "active" THEN UNCHANGED session ELSE Revoke(OwnedBy(u))
  /\ UNCHANGED <<now, policy, binding, rotation, issued>>

Inserted(s, d, row) ==
  /\ ~Stored(s) /\ d \in Fresh /\ row.digest = d /\ ~row.revoked
  /\ ~Disabled(row.owner)
  /\ session' = [session EXCEPT ![s] = row]
  /\ issued' = issued \cup {d}
  /\ UNCHANGED <<now, policy, subject, binding, rotation>>

InsertedRoot(s, d, row) ==
  /\ Inserted(s, d, row) /\ row.parent = None /\ row.owner \in Subjects
  /\ row.managed => row.expires <= row.absolute /\ row.expires <= row.lastRenew + row.idle

InsertedChild(s, d, row) ==
  /\ Inserted(s, d, row) /\ ~row.managed
  /\ LET p == row.parent
     IN /\ p \in Sessions /\ Stored(p) /\ ~HasParent(p) /\ row.owner = session[p].owner
        /\ Live(p) /\ session[p].expires > now
        /\ row.expires <= RowBound(p)

Rotated(s, d, fresh) ==
  /\ RenewVerdict(d) = "rotated" /\ s = Holder(d) /\ fresh \in Fresh /\ policy # NoPolicy
  /\ Rotate(s, d, fresh)
  /\ UNCHANGED <<now, policy, subject, binding>>

Revoked(S) ==
  /\ \A s \in S : Stored(s)
  /\ Revoke(S)
  /\ UNCHANGED <<now, policy, subject, binding, rotation, issued>>

TableStep ==
  \/ Still
  \/ \E u \in Subjects, x \in Externals : Enrolled(u, x)
  \/ \E u \in Subjects, row \in SubjectRow : Restated(u, row)
  \/ \E s \in Sessions, d \in Digests, row \in SessionRow : InsertedRoot(s, d, row)
  \/ \E s \in Sessions, d \in Digests, row \in SessionRow : InsertedChild(s, d, row)
  \/ \E s \in Sessions, d, fresh \in Digests : Rotated(s, d, fresh)
  \/ \E S \in SUBSET Sessions : Revoked(S)

(* The one fact about requests that the summary needs: what revoke_write   *)
(* updates is stored.                                                      *)
RevokeTargetStored ==
  \A r \in Requests : req[r].step = "revoke_write" =>
    req[r].sess \in Sessions /\ Stored(req[r].sess)

LEMMA IssueIsInsert ==
  ASSUME Typed, NEW r \in Requests, IssueInsert(r)
  PROVE  TableStep
<1> DEFINE u == req[r].subj
<1>1. req[r] \in Request /\ Ready(req[r], policy)  BY DEF Typed, TypeOK
<1>2. /\ u \in Subjects /\ req[r].stamp \in Nat /\ req[r].bound \in Nat
      /\ req[r].op = "issue_managed" => policy # NoPolicy
  BY <1>1 DEF IssueInsert, At, Ready, Request
<1>3. CASE ~(Active(u) /\ now < IssueDeadline(r))
  BY <1>3 DEF IssueInsert, TableStep, Still, tables
<1>4. CASE Active(u) /\ now < IssueDeadline(r)
  <2> DEFINE row(d) == IF req[r].op = "issue_managed" THEN ManagedRow(u, d, req[r].stamp)
                                                     ELSE PlainRow(u, d, req[r].bound)
  <2>1. PICK s \in Sessions, d \in Fresh :
          /\ ~Stored(s)
          /\ session' = [session EXCEPT ![s] = row(d)]
          /\ issued' = issued \cup {d}
          /\ Reply(r, "issued")
    BY <1>3, <1>4 DEF IssueInsert
  <2>2. d \in Digests  BY DEF Fresh
  <2>3. row(d) \in SessionRow
    BY <1>2, <2>2, PlainRowType, ManagedRowType DEF Typed
  <2>4. CASE req[r].op = "issue_managed"
    <3>1. policy \in Policies \ {NoPolicy}  BY <1>2, <2>4 DEF Typed, TypeOK
    <3>2. policy.idle \in Nat /\ policy.absolute \in Nat /\ policy.idle <= policy.absolute
      BY <3>1, PolicyFacts, PolicyAssumption
    <3>3. /\ row(d).digest = d /\ ~row(d).revoked /\ row(d).owner = u
          /\ row(d).parent = None
          /\ row(d).expires = req[r].stamp + policy.idle
          /\ row(d).absolute = req[r].stamp + policy.absolute
          /\ row(d).lastRenew = req[r].stamp /\ row(d).idle = policy.idle
      BY <2>4 DEF ManagedRow, PlainRow, NoRow
    <3>4. row(d).expires <= row(d).absolute /\ row(d).expires <= row(d).lastRenew + row(d).idle
      BY <1>2, <3>2, <3>3
    <3>5. InsertedRoot(s, d, row(d))
      BY <1>2, <1>4, <2>1, <3>3, <3>4 DEF IssueInsert, InsertedRoot, Inserted, Active
    <3> QED  BY <2>2, <2>3, <3>5 DEF TableStep
  <2>5. CASE req[r].op # "issue_managed"
    <3>1. /\ row(d).digest = d /\ ~row(d).revoked /\ row(d).owner = u
          /\ row(d).parent = None /\ ~row(d).managed
      BY <2>5 DEF PlainRow, NoRow
    <3>2. InsertedRoot(s, d, row(d))
      BY <1>2, <1>4, <2>1, <3>1 DEF IssueInsert, InsertedRoot, Inserted, Active
    <3> QED  BY <2>2, <2>3, <3>2 DEF TableStep
  <2> QED  BY <2>4, <2>5
<1> QED  BY <1>3, <1>4

LEMMA GrantIsInsert ==
  ASSUME Typed, NEW r \in Requests, GrantInsert(r)
  PROVE  TableStep
<1> DEFINE d == req[r].cred
           parents == {p \in Sessions : session[p].digest = d}
           p == CHOOSE p \in parents : TRUE
           bound == req[r].bound
           answer == IF parents = {} THEN "invalid" ELSE GrantVerdict(p, bound)
           row(fresh) == [PlainRow(session[p].owner, fresh,
                            Least(bound, EffectiveExpiry(p))) EXCEPT !.parent = p]
<1>1. req[r] \in Request /\ Ready(req[r], policy)  BY DEF Typed, TypeOK
<1>2. d \in Digests /\ bound \in Nat
  BY <1>1 DEF GrantInsert, At, Ready, Request
<1>3. CASE answer # "granted"
  BY <1>3 DEF GrantInsert, TableStep, Still, tables
<1>4. CASE answer = "granted"
  <2>1. PICK s \in Sessions, fresh \in Fresh :
          /\ ~Stored(s)
          /\ session' = [session EXCEPT ![s] = row(fresh)]
          /\ issued' = issued \cup {fresh}
          /\ Reply(r, "granted")
    BY <1>4 DEF GrantInsert
  <2>2. p \in Sessions /\ session[p].digest = d /\ GrantVerdict(p, bound) = "granted"
    BY <1>4
  <2>3. fresh \in Digests  BY DEF Fresh
  <2> HIDE DEF p, d, bound
  <2>4. /\ Stored(p) /\ ~HasParent(p) /\ ~Disabled(session[p].owner)
        /\ Live(p) /\ session[p].expires > now
    <3>1. Stored(p) /\ now \in Nat /\ session[p].expires \in Nat
      BY <1>2, <2>2, NoneAssumption DEF Stored, Typed, TypeOK, SessionRow
    <3> QED  BY <2>2, <3>1 DEF GrantVerdict, Live
  <2>5. session[p].owner \in Subjects \cup {None}  BY <2>2 DEF Typed, TypeOK, SessionRow
  <2>6. /\ EffectiveExpiry(p) \in Nat /\ EffectiveExpiry(p) <= RowBound(p)
        /\ RowBound(p) \in Nat
    BY <2>2, EffectiveFacts, RowBoundFacts DEF Typed
  <2> DEFINE e == Least(bound, EffectiveExpiry(p))
  <2>7. e \in Nat /\ e <= RowBound(p)
    BY <1>2, <2>6 DEF Least
  <2>8. row(fresh) \in SessionRow  BY <2>2, <2>3, <2>5, <2>7, ChildRowType
  <2>9. /\ row(fresh).digest = fresh /\ ~row(fresh).revoked
        /\ row(fresh).owner = session[p].owner /\ row(fresh).parent = p
        /\ ~row(fresh).managed /\ row(fresh).expires = e
    BY DEF PlainRow, NoRow
  <2>10. UNCHANGED <<now, policy, subject, binding, rotation>>  BY DEF GrantInsert
  <2> HIDE DEF row, e
  <2>11. InsertedChild(s, fresh, row(fresh))
    BY <2>1, <2>2, <2>4, <2>7, <2>9, <2>10 DEF InsertedChild, Inserted
  <2> QED  BY <2>3, <2>8, <2>11 DEF TableStep
<1> QED  BY <1>3, <1>4

-----------------------------------------------------------------------------
(* The invariant of the tables. RowsWhole and HistoryStored strengthen     *)
(* CredentialLedger: nothing refers to a session that is not stored.       *)

RowsWhole     == \A s \in Sessions : IF Stored(s) THEN session[s].owner \in Subjects
                                                  ELSE session[s] = NoRow
HistoryStored == \A d \in Digests, s \in Sessions : rotation[d] = s => Stored(s)

Tables ==
  /\ Typed
  /\ RowsWhole /\ HistoryStored /\ RevokeTargetStored
  /\ CredentialLedger
  /\ DisabledMeansRevoked
  /\ ManagedEnvelope
  /\ NarrowRows

LEMMA NextIsTableStep ==
  ASSUME Tables, Next
  PROVE  TableStep
<1>0. Typed /\ TypeOK  BY DEF Tables, Typed
<1>1. ASSUME NEW r \in Requests, Call(r)  PROVE TableStep
  BY <1>1 DEF Call, EnsureRead, IssueCheck, IssueManagedCheck, RenewMetadata, AuthLoad,
              RevokeRead, GrantCheck, TableStep, Still, tables
<1>2. ASSUME NEW r \in Requests, Handler(r)  PROVE TableStep
  <2>0. req[r] \in Request /\ Ready(req[r], policy)  BY <1>0 DEF Typed, TypeOK
  <2>1. CASE EnsureInsert(r)
    <3>1. req[r].ext \in Externals  BY <2>0, <2>1 DEF EnsureInsert, At, Ready
    <3>2. CASE binding[req[r].ext] = None
      <4>1. \E u \in Subjects : Enrolled(u, req[r].ext)
        BY <2>1, <3>2 DEF EnsureInsert, Enrolled
      <4> QED  BY <3>1, <4>1 DEF TableStep
    <3>3. CASE binding[req[r].ext] # None
      BY <2>1, <3>3 DEF EnsureInsert, TableStep, Still, tables
    <3> QED  BY <3>2, <3>3
  <2>2. CASE RenewTransaction(r)
    <3> DEFINE d == req[r].cred
    <3>1. d \in Digests /\ policy # NoPolicy
      BY <2>0, <2>2 DEF RenewTransaction, At, Ready
    <3>2. CASE RenewVerdict(d) = "rotated"
      <4>1. PICK fresh \in Fresh : Rotate(Holder(d), d, fresh)
        BY <2>2, <3>2 DEF RenewTransaction
      <4>2. Holder(d) \in Sessions /\ fresh \in Digests
        BY <3>2, RotatedMeans DEF Fresh
      <4>3. Rotated(Holder(d), d, fresh)
        BY <2>2, <3>1, <3>2, <4>1 DEF Rotated, RenewTransaction
      <4> QED  BY <3>1, <4>2, <4>3 DEF TableStep
    <3>3. CASE RenewVerdict(d) # "rotated"
      BY <2>2, <3>3 DEF RenewTransaction, TableStep, Still, tables
    <3> QED  BY <3>2, <3>3
  <2>3. CASE RevokeWrite(r)
    <3>1. req[r].sess \in Sessions /\ Stored(req[r].sess)
      BY <2>3 DEF RevokeWrite, At, Tables, RevokeTargetStored
    <3>2. Revoked({req[r].sess})  BY <2>3, <3>1 DEF RevokeWrite, Revoked
    <3>3. {req[r].sess} \in SUBSET Sessions  BY <3>1
    <3> QED  BY <3>2, <3>3 DEF TableStep
  <2>4. CASE EnsureReread(r) \/ RenewLoad(r) \/ RenewClassify(r)
    BY <2>4 DEF EnsureReread, RenewLoad, RenewClassify, TableStep, Still, tables
  <2>5. CASE AuthClock(r) \/ AuthMetadata(r) \/ AuthPolicy(r)
    BY <2>5 DEF AuthClock, AuthMetadata, AuthPolicy, TableStep, Still, tables
  <2> QED
    BY <1>0, <1>2, <2>1, <2>2, <2>3, <2>4, <2>5, IssueIsInsert, GrantIsInsert DEF Handler
<1>3. ASSUME Administer  PROVE TableStep
  <2>0. now \in Nat /\ \A l \in Lifetimes : now + l \in Nat
    BY <1>0, NumberAssumption DEF TypeOK
  <2>1. ASSUME NEW d \in Digests, RevokeCredential(d)  PROVE TableStep
    <3>1. Holder(d) \in Sessions /\ Owns(Holder(d), d)
      BY <2>1, HolderOwns DEF RevokeCredential
    <3>2. Stored(Holder(d))
      BY <3>1, NoneAssumption DEF Owns, Stored, Tables, HistoryStored
    <3>3. Revoked({Holder(d)})  BY <2>1, <3>2 DEF RevokeCredential, Revoked
    <3>4. {Holder(d)} \in SUBSET Sessions  BY <3>1
    <3> QED  BY <3>3, <3>4 DEF TableStep
  <2>2. ASSUME NEW u \in Subjects, Activate(u)  PROVE TableStep
    <3> DEFINE row == [status |-> "active", until |-> None]
    <3>1. row \in SubjectRow /\ row.status = "active"  BY DEF SubjectRow
    <3>2. Restated(u, row)  BY <2>2, <3>1 DEF Activate, Restated
    <3> QED  BY <3>1, <3>2 DEF TableStep
  <2>3. ASSUME NEW u \in Subjects, DisableSubject(u)  PROVE TableStep
    <3> DEFINE row == [subject[u] EXCEPT !.status = "disabled"]
    <3>1. row \in SubjectRow /\ row.status = "disabled"
      BY <1>0 DEF TypeOK, SubjectRow
    <3>2. subject' = [subject EXCEPT ![u] = row]
      BY <1>0, <2>3 DEF DisableSubject, TypeOK
    <3> HIDE DEF row
    <3>3. Restated(u, row)  BY <2>3, <3>1, <3>2 DEF DisableSubject, Restated
    <3> QED  BY <3>1, <3>3 DEF TableStep
  <2>4. ASSUME NEW u \in Subjects, NEW until \in {None} \cup {now + l : l \in Lifetimes},
               Disable(u, until)
        PROVE  TableStep
    <3> DEFINE row == [status |-> "disabled", until |-> until]
    <3>1. row \in SubjectRow /\ row.status = "disabled"  BY <2>0 DEF SubjectRow
    <3>2. Restated(u, row)  BY <2>4, <3>1 DEF Disable, Restated
    <3> QED  BY <3>1, <3>2 DEF TableStep
  <2> QED  BY <1>3, <2>1, <2>2, <2>3, <2>4 DEF Administer
<1>4. CASE Tick  BY <1>4 DEF Tick, TableStep, Still
<1>5. CASE Restart  BY <1>5 DEF Restart, TableStep, Still
<1> QED  BY <1>1, <1>2, <1>3, <1>4, <1>5 DEF Next

(* What a stored session keeps for ever, and a revoked one.                *)
Kept(s) ==
  /\ session'[s].digest # None
  /\ session'[s].owner = session[s].owner /\ session'[s].parent = session[s].parent
  /\ session'[s].managed = session[s].managed /\ session'[s].absolute = session[s].absolute
  /\ session'[s].idle = session[s].idle
  /\ ~session[s].managed => session'[s].expires = session[s].expires
  /\ session[s].revoked => session'[s] = session[s]

LEMMA RevokeKeeps ==
  ASSUME TypeOK, NEW S, Revoke(S), NEW s \in Sessions
  PROVE  /\ session'[s].digest = session[s].digest
         /\ session'[s].owner = session[s].owner /\ session'[s].parent = session[s].parent
         /\ session'[s].managed = session[s].managed
         /\ session'[s].absolute = session[s].absolute
         /\ session'[s].expires = session[s].expires
         /\ session'[s].idle = session[s].idle
         /\ session'[s].lastRenew = session[s].lastRenew
         /\ session[s].revoked => session'[s] = session[s]
         /\ s \notin S => session'[s] = session[s]
         /\ s \in S => session'[s].revoked
<1>1. session[s] \in SessionRow  BY DEF TypeOK
<1>3. session'[s] = IF s \in S /\ ~session[s].revoked
                    THEN [session[s] EXCEPT !.revoked = TRUE] ELSE session[s]
  BY DEF Revoke
<1>4. CASE s \in S /\ ~session[s].revoked
  BY <1>1, <1>3, <1>4 DEF SessionRow
<1>5. CASE ~(s \in S /\ ~session[s].revoked)
  BY <1>3, <1>5
<1> QED  BY <1>4, <1>5

LEMMA RotateKeeps ==
  ASSUME Tables, NEW s \in Sessions, NEW d \in Digests, NEW fresh \in Digests,
         Rotated(s, d, fresh), NEW t \in Sessions
  PROVE  /\ t # s => session'[t] = session[t]
         /\ session[s].digest = d /\ session[s].managed /\ ~HasParent(s)
         /\ ~session[s].revoked /\ ~Disabled(session[s].owner)
         /\ session[s].expires > now
         /\ session'[s].digest = fresh
         /\ session'[s].owner = session[s].owner /\ session'[s].parent = session[s].parent
         /\ session'[s].managed = session[s].managed
         /\ session'[s].revoked = session[s].revoked
         /\ session'[s].absolute = session[s].absolute
         /\ session'[s].idle = session[s].idle
         /\ session'[s].lastRenew = now
         /\ session'[s].expires <= session[s].absolute
         /\ session'[s].expires <= now + session[s].idle
<1> DEFINE e == Least(AbsoluteBound(s, policy), now + Least(session[s].idle, policy.idle))
<1>1. session[s] \in SessionRow /\ TypeOK /\ policy # NoPolicy
  BY DEF Tables, Typed, TypeOK, Rotated
<1>2. session'[s] = [session[s] EXCEPT !.digest = fresh, !.lastRenew = now, !.expires = e]
  BY <1>1 DEF Rotated, Rotate, TypeOK
<1>3. t # s => session'[t] = session[t]
  BY <1>1 DEF Rotated, Rotate, TypeOK
<1>4. e <= session[s].absolute /\ e <= now + session[s].idle
  <2>1. /\ session[s].idle \in Nat /\ policy.idle \in Nat /\ now \in Nat
        /\ session[s].absolute \in Nat
    BY <1>1, PolicyFacts DEF TypeOK, SessionRow
  <2> QED  BY <1>1, <2>1, BoundFacts DEF Least
<1>5. /\ session[s].digest = d /\ session[s].managed /\ ~HasParent(s)
      /\ ~session[s].revoked /\ ~Disabled(session[s].owner)
      /\ ~(IdleBound(s, policy) <= now)
  BY RotatedMeans DEF Rotated
<1>6. session[s].expires > now
  <2>1. now \in Nat /\ session[s].expires \in Nat  BY <1>1 DEF TypeOK, SessionRow
  <2> QED  BY <1>1, <1>5, <2>1, BoundFacts
<1> HIDE DEF e
<1>7. /\ session'[s].owner = session[s].owner /\ session'[s].digest = fresh
      /\ session'[s].parent = session[s].parent /\ session'[s].managed = session[s].managed
      /\ session'[s].revoked = session[s].revoked
      /\ session'[s].absolute = session[s].absolute /\ session'[s].idle = session[s].idle
      /\ session'[s].lastRenew = now /\ session'[s].expires = e
  BY <1>1, <1>2 DEF SessionRow
<1> QED  BY <1>3, <1>4, <1>5, <1>6, <1>7

LEMMA InsertKeeps ==
  ASSUME Tables, NEW s \in Sessions, NEW d, NEW row, Inserted(s, d, row),
         NEW t \in Sessions
  PROVE  /\ t # s => session'[t] = session[t]
         /\ session'[s] = row /\ session[s] = NoRow
BY DEF Inserted, Tables, Typed, TypeOK, RowsWhole

LEMMA StoredKept ==
  ASSUME Tables, TableStep, NEW s \in Sessions, Stored(s)
  PROVE  Kept(s)
<1>0. TypeOK  BY DEF Tables, Typed
<1>1. CASE Still  BY <1>1 DEF Still, tables, Kept, Stored
<1>2. ASSUME NEW u \in Subjects, NEW x \in Externals, Enrolled(u, x)  PROVE Kept(s)
  BY <1>2 DEF Enrolled, Kept, Stored
<1>3. ASSUME NEW u \in Subjects, NEW row \in SubjectRow, Restated(u, row)  PROVE Kept(s)
  BY <1>0, <1>3, RevokeKeeps DEF Restated, Kept, Stored
<1>4. ASSUME NEW t \in Sessions, NEW d \in Digests, NEW row \in SessionRow,
             InsertedRoot(t, d, row) \/ InsertedChild(t, d, row)
      PROVE  Kept(s)
  <2>1. Inserted(t, d, row) /\ s # t
    BY <1>4 DEF InsertedRoot, InsertedChild, Inserted
  <2> QED  BY <2>1, InsertKeeps DEF Kept, Stored
<1>5. ASSUME NEW t \in Sessions, NEW d \in Digests, NEW fresh \in Digests,
             Rotated(t, d, fresh)
      PROVE  Kept(s)
  BY <1>5, RotateKeeps, NoneAssumption DEF Kept, Stored
<1>6. ASSUME NEW S \in SUBSET Sessions, Revoked(S)  PROVE Kept(s)
  BY <1>0, <1>6, RevokeKeeps DEF Revoked, Kept, Stored
<1> QED  BY <1>1, <1>2, <1>3, <1>4, <1>5, <1>6 DEF TableStep

LEMMA RowsWholeStep ==
  ASSUME Tables, TableStep
  PROVE  RowsWhole'
<1>0. TypeOK /\ RowsWhole  BY DEF Tables, Typed
<1> SUFFICES ASSUME NEW s \in Sessions
             PROVE  IF Stored(s)' THEN session'[s].owner \in Subjects
                                  ELSE session'[s] = NoRow
  BY DEF RowsWhole
<1>1. CASE Stored(s)
  BY <1>0, <1>1, StoredKept DEF Kept, RowsWhole, Stored
<1>2. CASE ~Stored(s)
  <2>0. session[s] = NoRow  BY <1>0, <1>2 DEF RowsWhole
  <2>1. CASE Still  BY <1>2, <2>0, <2>1 DEF Still, tables, Stored
  <2>2. ASSUME NEW u \in Subjects, NEW x \in Externals, Enrolled(u, x)
        PROVE  session'[s] = session[s]
    BY <2>2 DEF Enrolled
  <2>3. ASSUME NEW u \in Subjects, NEW row \in SubjectRow, Restated(u, row)
        PROVE  session'[s] = session[s]
    <3>1. s \notin OwnedBy(u)  BY <1>2 DEF OwnedBy
    <3> QED  BY <1>0, <2>3, <3>1, RevokeKeeps DEF Restated
  <2>4. ASSUME NEW t \in Sessions, NEW d \in Digests, NEW row \in SessionRow,
               InsertedRoot(t, d, row) \/ InsertedChild(t, d, row)
        PROVE  IF Stored(s)' THEN session'[s].owner \in Subjects ELSE session'[s] = NoRow
    <3>1. Inserted(t, d, row)  BY <2>4 DEF InsertedRoot, InsertedChild
    <3>2. row.owner \in Subjects
      BY <1>0, <2>4 DEF InsertedRoot, InsertedChild, RowsWhole
    <3>3. row.digest # None  BY <3>1, NoneAssumption DEF Inserted
    <3> QED  BY <1>2, <2>0, <3>1, <3>2, <3>3, InsertKeeps DEF Stored
  <2>5. ASSUME NEW t \in Sessions, NEW d \in Digests, NEW fresh \in Digests,
               Rotated(t, d, fresh)
        PROVE  session'[s] = session[s]
    BY <1>2, <2>5, RotateKeeps, NoneAssumption DEF Stored
  <2>6. ASSUME NEW S \in SUBSET Sessions, Revoked(S)
        PROVE  session'[s] = session[s]
    BY <1>0, <1>2, <2>6, RevokeKeeps DEF Revoked
  <2> QED
    BY <1>2, <2>0, <2>1, <2>2, <2>3, <2>4, <2>5, <2>6 DEF TableStep, Stored
<1> QED  BY <1>1, <1>2

LEMMA HistoryStoredStep ==
  ASSUME Tables, TableStep
  PROVE  HistoryStored'
<1>0. TypeOK /\ HistoryStored  BY DEF Tables, Typed
<1> SUFFICES ASSUME NEW e \in Digests, NEW s \in Sessions, rotation'[e] = s
             PROVE  Stored(s)'
  BY DEF HistoryStored
<1>1. CASE rotation[e] = s
  BY <1>0, <1>1, StoredKept DEF HistoryStored, Kept, Stored
<1>2. CASE rotation[e] # s
  <2>1. PICK t \in Sessions, d \in Digests, fresh \in Digests : Rotated(t, d, fresh)
    BY <1>2 DEF TableStep, Still, Enrolled, Restated, InsertedRoot, InsertedChild,
                Inserted, Revoked, tables
  <2>2. rotation' = [rotation EXCEPT ![d] = t]  BY <2>1 DEF Rotated, Rotate
  <2>3. s = t  BY <1>0, <1>2, <2>2 DEF TypeOK
  <2>4. Stored(s)  BY <2>1, <2>3, RotateKeeps, NoneAssumption DEF Stored
  <2> QED  BY <2>4, StoredKept DEF Kept, Stored
<1> QED  BY <1>1, <1>2

LEMMA DisabledMeansRevokedStep ==
  ASSUME Tables, TableStep
  PROVE  DisabledMeansRevoked'
<1>0. TypeOK /\ RowsWhole /\ DisabledMeansRevoked  BY DEF Tables, Typed
<1> SUFFICES ASSUME NEW s \in Sessions, Live(s)'
             PROVE  ~Disabled(session[s].owner)'
  BY DEF DisabledMeansRevoked
<1> DEFINE o == session[s].owner
<1>i. ASSUME Stored(s)
      PROVE  /\ o \in Subjects /\ session'[s].owner = o
             /\ ~session[s].revoked /\ Live(s) /\ ~Disabled(o)
  <2>1. Kept(s)  BY <1>i, StoredKept
  <2>2. ~session[s].revoked  BY <2>1 DEF Kept, Live
  <2> QED  BY <1>0, <1>i, <2>1, <2>2 DEF RowsWhole, Kept, Live, DisabledMeansRevoked
<1>1. CASE Still
  <2>1. Stored(s)  BY <1>1 DEF Still, tables, Live, Stored
  <2>2. subject[o] \in SubjectRow /\ now \in Nat  BY <1>0, <1>i, <2>1 DEF TypeOK
  <2>3. subject[o].until \in Nat \cup {None}  BY <2>2 DEF SubjectRow
  <2> QED  BY <1>1, <1>i, <2>1, <2>2, <2>3, NoneAssumption DEF Still, tables, Disabled
<1>2. ASSUME NEW u \in Subjects, NEW x \in Externals, Enrolled(u, x)
      PROVE  ~Disabled(session[s].owner)'
  <2>1. Stored(s)  BY <1>2 DEF Enrolled, Live, Stored
  <2> QED  BY <1>0, <1>2, <1>i, <2>1 DEF Enrolled, Disabled, TypeOK, SubjectRow
<1>3. ASSUME NEW u \in Subjects, NEW row \in SubjectRow, Restated(u, row)
      PROVE  ~Disabled(session[s].owner)'
  <2>1. Stored(s)
    BY <1>0, <1>3, RevokeKeeps DEF Restated, Live, Stored
  <2>2. CASE o = u
    <3>1. row.status = "active"
      <4>1. SUFFICES ASSUME row.status # "active" PROVE FALSE  OBVIOUS
      <4>2. Revoke(OwnedBy(u)) /\ s \in OwnedBy(u)
        BY <1>3, <2>1, <2>2, <4>1 DEF Restated, OwnedBy
      <4> QED  BY <1>0, <4>2, RevokeKeeps DEF Live
    <3> QED  BY <1>0, <1>3, <1>i, <2>1, <2>2, <3>1 DEF Restated, Disabled, TypeOK
  <2>3. CASE o # u
    BY <1>0, <1>3, <1>i, <2>1, <2>3 DEF Restated, Disabled, TypeOK
  <2> QED  BY <2>2, <2>3
<1>4. ASSUME NEW t \in Sessions, NEW d \in Digests, NEW row \in SessionRow,
             InsertedRoot(t, d, row) \/ InsertedChild(t, d, row)
      PROVE  ~Disabled(session[s].owner)'
  <2>1. Inserted(t, d, row)  BY <1>4 DEF InsertedRoot, InsertedChild
  <2>2. CASE s = t
    <3>1. session'[s] = row  BY <2>1, <2>2, InsertKeeps
    <3>2. ~Disabled(row.owner) /\ subject' = subject /\ now' = now
      BY <2>1 DEF Inserted
    <3> QED  BY <3>1, <3>2 DEF Disabled
  <2>3. CASE s # t
    <3>1. session'[s] = session[s]  BY <2>1, <2>3, InsertKeeps
    <3>2. Stored(s)  BY <3>1 DEF Live, Stored
    <3> QED  BY <1>i, <2>1, <3>2 DEF Inserted, Disabled
  <2> QED  BY <2>2, <2>3
<1>5. ASSUME NEW t \in Sessions, NEW d \in Digests, NEW fresh \in Digests,
             Rotated(t, d, fresh)
      PROVE  ~Disabled(session[s].owner)'
  <2>1. Stored(s)  BY <1>5, RotateKeeps, NoneAssumption DEF Live, Stored
  <2> QED  BY <1>5, <1>i, <2>1 DEF Rotated, Disabled
<1>6. ASSUME NEW S \in SUBSET Sessions, Revoked(S)
      PROVE  ~Disabled(session[s].owner)'
  <2>1. Stored(s)  BY <1>0, <1>6, RevokeKeeps DEF Revoked, Live, Stored
  <2> QED  BY <1>6, <1>i, <2>1 DEF Revoked, Disabled
<1> QED  BY <1>1, <1>2, <1>3, <1>4, <1>5, <1>6 DEF TableStep

LEMMA ManagedEnvelopeStep ==
  ASSUME Tables, TableStep
  PROVE  ManagedEnvelope'
<1>0. TypeOK /\ ManagedEnvelope  BY DEF Tables, Typed
<1> DEFINE Within(row) == row.managed =>
             row.expires <= row.absolute /\ row.expires <= row.lastRenew + row.idle
<1> SUFFICES ASSUME NEW s \in Sessions PROVE Within(session'[s])
  BY DEF ManagedEnvelope
<1>u. ASSUME session'[s] = session[s]  PROVE Within(session'[s])
  BY <1>0, <1>u DEF ManagedEnvelope
<1>1. CASE Still  BY <1>1, <1>u DEF Still, tables
<1>2. ASSUME NEW u \in Subjects, NEW x \in Externals, Enrolled(u, x)
      PROVE  Within(session'[s])
  BY <1>2, <1>u DEF Enrolled
<1>r. ASSUME NEW S, Revoke(S)  PROVE Within(session'[s])
  BY <1>0, <1>r, RevokeKeeps DEF ManagedEnvelope
<1>3. ASSUME NEW u \in Subjects, NEW row \in SubjectRow, Restated(u, row)
      PROVE  Within(session'[s])
  BY <1>3, <1>u, <1>r DEF Restated
<1>4. ASSUME NEW t \in Sessions, NEW d \in Digests, NEW row \in SessionRow,
             InsertedRoot(t, d, row) \/ InsertedChild(t, d, row)
      PROVE  Within(session'[s])
  <2>1. Inserted(t, d, row) /\ Within(row)  BY <1>4 DEF InsertedRoot, InsertedChild
  <2> HIDE DEF Within
  <2> QED  BY <1>u, <2>1, InsertKeeps
<1>5. ASSUME NEW t \in Sessions, NEW d \in Digests, NEW fresh \in Digests,
             Rotated(t, d, fresh)
      PROVE  Within(session'[s])
  <2>1. CASE s = t  BY <1>5, <2>1, RotateKeeps
  <2>2. CASE s # t  BY <1>5, <1>u, <2>2, RotateKeeps
  <2> QED  BY <2>1, <2>2
<1>6. ASSUME NEW S \in SUBSET Sessions, Revoked(S)  PROVE Within(session'[s])
  BY <1>6, <1>r DEF Revoked
<1> QED  BY <1>1, <1>2, <1>3, <1>4, <1>5, <1>6 DEF TableStep

LEMMA RowBoundCeiling ==
  ASSUME Tables, NEW s \in Sessions
  PROVE  RowBound(s) <= Ceiling(s) /\ session[s].expires <= Ceiling(s)
<1>1. TypeOK /\ ManagedEnvelope  BY DEF Tables, Typed
<1>2. session[s].expires \in Nat /\ session[s].absolute \in Nat
  BY <1>1 DEF TypeOK, SessionRow
<1> QED  BY <1>1, <1>2, BoundFacts DEF RowBound, Ceiling, ManagedEnvelope

(* The ceiling of a stored session never moves.                            *)
LEMMA CeilingKept ==
  ASSUME NEW s, Kept(s)
  PROVE  Ceiling(s)' = Ceiling(s)
BY DEF Kept, Ceiling

LEMMA DelegationStep ==
  ASSUME Tables, TableStep
  PROVE  NarrowRows'
<1>0. TypeOK /\ RowsWhole /\ NarrowRows  BY DEF Tables, Typed
<1> SUFFICES ASSUME NEW s \in Sessions, HasParent(s)', NEW p, p = session'[s].parent
             PROVE  /\ Stored(p)' /\ ~HasParent(p)'
                    /\ session'[p].owner = session'[s].owner
                    /\ ~session'[s].managed
                    /\ session'[s].expires <= Ceiling(p)'
  BY DEF NarrowRows, Stored, HasParent, Ceiling
<1>1. CASE Stored(s)
  <2>1. Kept(s)  BY <1>1, StoredKept
  <2>2. HasParent(s) /\ session[s].parent = p  BY <2>1 DEF Kept, HasParent
  <2>3. p \in Sessions  BY <1>0, <2>2 DEF TypeOK, SessionRow, HasParent
  <2>4. /\ Stored(p) /\ ~HasParent(p) /\ session[p].owner = session[s].owner
        /\ ~session[s].managed /\ session[s].expires <= Ceiling(p)
    BY <1>0, <2>2 DEF NarrowRows
  <2>5. Kept(p) /\ Ceiling(p)' = Ceiling(p)  BY <2>3, <2>4, StoredKept, CeilingKept
  <2> QED  BY <2>1, <2>4, <2>5 DEF Kept, Stored, HasParent
<1>2. CASE ~Stored(s)
  <2>0. session[s] = NoRow  BY <1>0, <1>2 DEF RowsWhole
  <2>1. session'[s] # session[s]
    BY <2>0 DEF NoRow, HasParent
  <2>2. PICK t \in Sessions, d \in Digests, row \in SessionRow :
          InsertedRoot(t, d, row) \/ InsertedChild(t, d, row)
    <3>1. ASSUME NEW S, Revoke(S)  PROVE session'[s].parent = None
      BY <1>0, <2>0, <3>1, RevokeKeeps DEF NoRow
    <3>2. ASSUME NEW t \in Sessions, NEW d \in Digests, NEW fresh \in Digests,
                 Rotated(t, d, fresh)
          PROVE  session'[s] = session[s]
      BY <1>2, <3>2, RotateKeeps, NoneAssumption DEF Stored
    <3> QED
      BY <2>1, <3>1, <3>2 DEF TableStep, Still, tables, Enrolled, Restated, Revoked, HasParent
  <2>3. Inserted(t, d, row)  BY <2>2 DEF InsertedRoot, InsertedChild
  <2>4. s = t /\ session'[s] = row  BY <2>1, <2>3, InsertKeeps
  <2>5. InsertedChild(t, d, row)  BY <2>2, <2>4 DEF InsertedRoot, HasParent
  <2>6. /\ p \in Sessions /\ Stored(p) /\ ~HasParent(p) /\ row.owner = session[p].owner
        /\ ~row.managed /\ row.expires <= RowBound(p)
    BY <2>4, <2>5 DEF InsertedChild
  <2>7. Kept(p) /\ Ceiling(p)' = Ceiling(p)  BY <2>6, StoredKept, CeilingKept
  <2>8. row.expires <= Ceiling(p)
    <3>1. RowBound(p) \in Nat /\ row.expires \in Nat /\ Ceiling(p) \in Nat
      BY <1>0, <2>6, RowBoundFacts DEF SessionRow, TypeOK, Ceiling
    <3> QED  BY <2>6, <3>1, RowBoundCeiling
  <2> QED  BY <2>4, <2>6, <2>7, <2>8 DEF Kept, Stored, HasParent
<1> QED  BY <1>1, <1>2

-----------------------------------------------------------------------------
(* The ledger of credentials. Only an insert and a rotation change it, and *)
(* both bring in a digest that no session owns.                            *)

LEMMA FreshIsUnknown ==
  ASSUME Tables, NEW d \in Digests, d \in Fresh
  PROVE  /\ d \notin issued /\ rotation[d] = None
         /\ \A s \in Sessions : session[s].digest # d /\ rotation[d] # s
<1>1. d \notin issued /\ ~Known(d)  BY DEF Fresh, Tables, CredentialLedger
<1>2. rotation[d] \in Sessions \cup {None}  BY DEF Tables, Typed, TypeOK
<1> QED  BY <1>1, <1>2 DEF Known, Owns

LEMMA SameLedger ==
  ASSUME Tables, UNCHANGED <<rotation, issued>>,
         \A s \in Sessions : session'[s].digest = session[s].digest
  PROVE  CredentialLedger'
BY DEF Tables, CredentialLedger, Known, Owns, Spent

LEMMA InsertedLedger ==
  ASSUME Tables, NEW t \in Sessions, NEW d \in Digests, NEW row, Inserted(t, d, row)
  PROVE  CredentialLedger'
<1>0. CredentialLedger  BY DEF Tables
<1>1. /\ d \notin issued /\ rotation[d] = None
      /\ \A s \in Sessions : session[s].digest # d /\ rotation[d] # s
  BY FreshIsUnknown DEF Inserted
<1>2. /\ session'[t].digest = d
      /\ \A s \in Sessions : s # t => session'[s] = session[s]
      /\ session[t].digest = None
  <2>1. \A s \in Sessions : s # t => session'[s] = session[s]  BY InsertKeeps
  <2>2. session'[t] = row /\ session[t] = NoRow  BY InsertKeeps
  <2>3. row.digest = d  BY DEF Inserted
  <2> QED  BY <2>1, <2>2, <2>3 DEF NoRow
<1>3. issued' = issued \cup {d} /\ rotation' = rotation  BY DEF Inserted
<1>4. \A e \in Digests, s \in Sessions :
        Owns(s, e)' <=> Owns(s, e) \/ (s = t /\ e = d)
  BY <1>1, <1>2, <1>3, NoneAssumption DEF Owns
<1>5. \A e \in Digests : e \in issued' <=> Known(e)'
  BY <1>0, <1>1, <1>3, <1>4 DEF CredentialLedger, Known
<1>6. \A e \in Digests, a, b \in Sessions : Owns(a, e)' /\ Owns(b, e)' => a = b
  BY <1>0, <1>1, <1>4 DEF CredentialLedger, Owns
<1>7. \A e \in Digests, s \in Sessions : session'[s].digest = e => ~Spent(e)'
  BY <1>0, <1>1, <1>2, <1>3 DEF CredentialLedger, Spent
<1> QED  BY <1>5, <1>6, <1>7 DEF CredentialLedger

LEMMA RotatedLedger ==
  ASSUME Tables, NEW t \in Sessions, NEW d \in Digests, NEW fresh \in Digests,
         Rotated(t, d, fresh)
  PROVE  CredentialLedger'
<1>0. CredentialLedger /\ TypeOK  BY DEF Tables, Typed
<1>1. /\ fresh \notin issued /\ rotation[fresh] = None
      /\ \A s \in Sessions : session[s].digest # fresh /\ rotation[fresh] # s
  BY FreshIsUnknown DEF Rotated
<1>2. /\ session[t].digest = d /\ session'[t].digest = fresh
      /\ \A s \in Sessions : s # t => session'[s] = session[s]
  BY RotateKeeps
<1>3. issued' = issued \cup {fresh} /\ d # fresh  BY <1>1, <1>2 DEF Rotated, Rotate
<1>4. rotation' = [rotation EXCEPT ![d] = t]  BY DEF Rotated, Rotate
<1>5. rotation'[d] = t /\ \A e \in Digests : e # d => rotation'[e] = rotation[e]
  BY <1>0, <1>4 DEF TypeOK
<1>6. rotation[d] = None /\ \A s \in Sessions : session[s].digest = d => s = t
  BY <1>0, <1>2 DEF CredentialLedger, Spent, Owns
<1>7. \A e \in Digests, s \in Sessions :
        Owns(s, e)' <=> Owns(s, e) \/ (s = t /\ e = fresh)
  <2> SUFFICES ASSUME NEW e \in Digests, NEW s \in Sessions
               PROVE  Owns(s, e)' <=> Owns(s, e) \/ (s = t /\ e = fresh)
    OBVIOUS
  <2>1. CASE e = d  BY <1>2, <1>3, <1>5, <1>6, <2>1, NoneAssumption DEF Owns
  <2>2. CASE e # d /\ s = t  BY <1>1, <1>2, <1>5, <2>2 DEF Owns
  <2>3. CASE e # d /\ s # t  BY <1>2, <1>5, <2>3 DEF Owns
  <2> QED  BY <2>1, <2>2, <2>3
<1>8. \A e \in Digests : e \in issued' <=> Known(e)'
  BY <1>0, <1>3, <1>7 DEF CredentialLedger, Known
<1>9. \A e \in Digests, a, b \in Sessions : Owns(a, e)' /\ Owns(b, e)' => a = b
  BY <1>0, <1>1, <1>7 DEF CredentialLedger, Owns
<1>10. \A e \in Digests, s \in Sessions : session'[s].digest = e => ~Spent(e)'
  BY <1>0, <1>1, <1>2, <1>3, <1>5, <1>6 DEF CredentialLedger, Spent
<1> QED  BY <1>8, <1>9, <1>10 DEF CredentialLedger

LEMMA CredentialLedgerStep ==
  ASSUME Tables, TableStep
  PROVE  CredentialLedger'
<1>0. TypeOK  BY DEF Tables, Typed
<1>r. ASSUME NEW S, Revoke(S), UNCHANGED <<rotation, issued>>  PROVE CredentialLedger'
  <2>1. \A s \in Sessions : session'[s].digest = session[s].digest
    BY <1>0, <1>r, RevokeKeeps
  <2> QED  BY <1>r, <2>1, SameLedger
<1>1. CASE Still  BY <1>1, SameLedger DEF Still, tables
<1>2. ASSUME NEW u \in Subjects, NEW x \in Externals, Enrolled(u, x)
      PROVE  CredentialLedger'
  BY <1>2, SameLedger DEF Enrolled
<1>3. ASSUME NEW u \in Subjects, NEW row \in SubjectRow, Restated(u, row)
      PROVE  CredentialLedger'
  BY <1>3, <1>r, SameLedger DEF Restated
<1>4. ASSUME NEW t \in Sessions, NEW d \in Digests, NEW row \in SessionRow,
             InsertedRoot(t, d, row) \/ InsertedChild(t, d, row)
      PROVE  CredentialLedger'
  BY <1>4, InsertedLedger DEF InsertedRoot, InsertedChild
<1>5. ASSUME NEW S \in SUBSET Sessions, Revoked(S)  PROVE CredentialLedger'
  BY <1>5, <1>r DEF Revoked
<1> QED  BY <1>1, <1>2, <1>3, <1>4, <1>5, RotatedLedger DEF TableStep

-----------------------------------------------------------------------------
(* What a step does to the requests: a handler answers or moves on its own *)
(* request and no other.                                                   *)

LEMMA OthersKeep ==
  ASSUME TypeOK, NEW r \in Requests, Call(r) \/ Handler(r), NEW w \in Requests, w # r
  PROVE  req'[w] = req[w]
<1>s. ASSUME NEW asked, Start(r, asked)  PROVE req'[w] = req[w]
  BY <1>s DEF Start, TypeOK
<1>g. ASSUME NEW step, Goto(r, step)  PROVE req'[w] = req[w]
  BY <1>g DEF Goto, TypeOK
<1>a. ASSUME NEW answer, Reply(r, answer)  PROVE req'[w] = req[w]
  BY <1>a DEF Reply, TypeOK
<1>n. ASSUME NEW e, NEW stamp, NEW open, Sign(r, e, stamp, open)  PROVE req'[w] = req[w]
  BY <1>n DEF Sign, TypeOK
<1>1. CASE Call(r)
  <2>1. ASSUME NEW x \in Externals, EnsureRead(r, x)  PROVE req'[w] = req[w]
    BY <1>s, <2>1 DEF EnsureRead
  <2>2. ASSUME NEW u \in Subjects, NEW l \in Lifetimes, IssueCheck(r, u, l)
        PROVE  req'[w] = req[w]
    BY <1>s, <2>2 DEF IssueCheck
  <2>3. ASSUME NEW u \in Subjects, IssueManagedCheck(r, u)  PROVE req'[w] = req[w]
    BY <1>s, <2>3 DEF IssueManagedCheck
  <2>4. ASSUME NEW d \in Digests, RenewMetadata(r, d)  PROVE req'[w] = req[w]
    BY <1>s, <2>4 DEF RenewMetadata
  <2>5. ASSUME NEW d \in Digests, AuthLoad(r, d)  PROVE req'[w] = req[w]
    BY <1>s, <2>5 DEF AuthLoad
  <2>6. ASSUME NEW s \in Sessions, RevokeRead(r, s)  PROVE req'[w] = req[w]
    BY <1>s, <2>6 DEF RevokeRead
  <2>7. ASSUME NEW d \in Digests, NEW l \in Lifetimes, GrantCheck(r, d, l)
        PROVE  req'[w] = req[w]
    BY <1>s, <2>7 DEF GrantCheck
  <2> QED  BY <1>1, <2>1, <2>2, <2>3, <2>4, <2>5, <2>6, <2>7 DEF Call
<1>2. CASE EnsureInsert(r)  BY <1>2, <1>g DEF EnsureInsert, TypeOK
<1>3. CASE EnsureReread(r)  BY <1>3 DEF EnsureReread, TypeOK
<1>4. CASE IssueInsert(r)  BY <1>4, <1>a DEF IssueInsert
<1>5. CASE RenewLoad(r) \/ RenewClassify(r)  BY <1>5, <1>g, <1>a DEF RenewLoad, RenewClassify
<1>6. CASE RenewTransaction(r)  BY <1>6, <1>a DEF RenewTransaction
<1>7. CASE AuthClock(r)  BY <1>7, <1>n DEF AuthClock, TypeOK
<1>8. CASE AuthMetadata(r)
  BY <1>8, <1>n, <1>g, <1>a, MetadataAnswers DEF AuthMetadata
<1>9. CASE AuthPolicy(r)  BY <1>9, <1>n DEF AuthPolicy
<1>10. CASE RevokeWrite(r)  BY <1>10, <1>a DEF RevokeWrite
<1>11. CASE GrantInsert(r)  BY <1>11, <1>a DEF GrantInsert
<1> QED  BY <1>1, <1>2, <1>3, <1>4, <1>5, <1>6, <1>7, <1>8, <1>9, <1>10, <1>11 DEF Handler

LEMMA ReplyGives ==
  ASSUME TypeOK, NEW r \in Requests, NEW answer, Reply(r, answer)
  PROVE  /\ req'[r].step = "idle" /\ req'[r].outcome = answer /\ req'[r].op = req[r].op
         /\ req'[r].cred = req[r].cred /\ req'[r].known = req[r].known
         /\ req'[r].sess = None
BY DEF Reply, Asked, Blank, TypeOK

LEMMA GotoGives ==
  ASSUME TypeOK, NEW r \in Requests, NEW step, Goto(r, step)
  PROVE  /\ req'[r].step = step /\ req'[r].outcome = req[r].outcome
         /\ req'[r].op = req[r].op /\ req'[r].cred = req[r].cred
         /\ req'[r].known = req[r].known /\ req'[r].sess = req[r].sess
BY DEF Goto, TypeOK, Request

LEMMA SignGives ==
  ASSUME TypeOK, NEW r \in Requests, NEW expires, NEW stamp, NEW open,
         Sign(r, expires, stamp, open)
  PROVE  /\ req'[r].step = "idle"
         /\ req'[r].outcome = IF expires <= stamp THEN "expired" ELSE "accepted"
         /\ req'[r].op = req[r].op /\ req'[r].cred = req[r].cred
         /\ req'[r].known = req[r].known /\ req'[r].sess = req[r].sess
         /\ req'[r].stamp = stamp /\ req'[r].bound = Least(expires, stamp + AssertionTtl)
         /\ req'[r].open = open
BY DEF Sign, TypeOK, Request

(* The target of a revocation in progress is still stored.                 *)
LEMMA RevokeTargetStep ==
  ASSUME Tables, Next
  PROVE  RevokeTargetStored'
<1>0. TypeOK /\ RevokeTargetStored /\ TableStep  BY NextIsTableStep DEF Tables, Typed
<1> SUFFICES ASSUME NEW w \in Requests, req'[w].step = "revoke_write", NEW s, s = req'[w].sess
             PROVE  s \in Sessions /\ Stored(s)'
  BY DEF RevokeTargetStored, Stored
<1>k. ASSUME req'[w] = req[w]  PROVE s \in Sessions /\ Stored(s)'
  <2>1. s \in Sessions /\ Stored(s)  BY <1>0, <1>k DEF RevokeTargetStored
  <2> QED  BY <1>0, <2>1, StoredKept DEF Kept, Stored
<1>a. ASSUME NEW answer, Reply(w, answer)  PROVE FALSE
  BY <1>0, <1>a, ReplyGives
<1>g. ASSUME NEW step, Goto(w, step)  PROVE step = "revoke_write"
  BY <1>0, <1>g, GotoGives
<1>n. ASSUME NEW e, NEW stamp, NEW open, Sign(w, e, stamp, open)  PROVE FALSE
  BY <1>0, <1>n, SignGives
<1>s. ASSUME NEW asked, Start(w, asked)  PROVE req'[w] = asked
  BY <1>0, <1>s DEF Start, TypeOK
<1>1. ASSUME Call(w)  PROVE s \in Sessions /\ Stored(s)'
  <2>1. ASSUME NEW t \in Sessions, RevokeRead(w, t)  PROVE s \in Sessions /\ Stored(s)'
    <3>1. req'[w] = IF Stored(t) /\ ~session[t].revoked
                    THEN [Asked("revoke", "revoke_write") EXCEPT !.sess = t]
                    ELSE [Asked("revoke", "idle") EXCEPT !.sess = t,
                            !.outcome = IF Stored(t) THEN "unchanged" ELSE "not_found"]
      BY <1>s, <2>1 DEF RevokeRead
    <3>2. Stored(t) /\ s = t  BY <3>1 DEF Asked, Blank
    <3> QED  BY <2>1, <3>2 DEF RevokeRead, Stored, tables
  <2>2. ASSUME NEW x \in Externals, EnsureRead(w, x)  PROVE FALSE
    BY <1>s, <2>2 DEF EnsureRead, Asked, Blank
  <2>3. ASSUME NEW u \in Subjects, NEW l \in Lifetimes, IssueCheck(w, u, l)  PROVE FALSE
    BY <1>s, <2>3 DEF IssueCheck, Asked, Blank
  <2>4. ASSUME NEW u \in Subjects, IssueManagedCheck(w, u)  PROVE FALSE
    BY <1>s, <2>4 DEF IssueManagedCheck, Asked, Blank
  <2>5. ASSUME NEW d \in Digests, RenewMetadata(w, d) \/ AuthLoad(w, d)  PROVE FALSE
    BY <1>s, <2>5 DEF RenewMetadata, AuthLoad, Asked, Blank
  <2>6. ASSUME NEW d \in Digests, NEW l \in Lifetimes, GrantCheck(w, d, l)  PROVE FALSE
    BY <1>s, <2>6 DEF GrantCheck, Asked, Blank
  <2> QED  BY <1>1, <2>1, <2>2, <2>3, <2>4, <2>5, <2>6 DEF Call
<1>2. ASSUME Handler(w)  PROVE FALSE
  <2>1. CASE EnsureInsert(w)
    <3>1. req[w] \in Request /\ req[w].step = "ensure_insert"
      BY <1>0, <2>1 DEF TypeOK, EnsureInsert, At
    <3> QED  BY <1>0, <1>g, <2>1, <3>1 DEF EnsureInsert, TypeOK, Request
  <2>2. CASE EnsureReread(w)  BY <1>0, <2>2 DEF EnsureReread, TypeOK, Request
  <2>3. CASE AuthClock(w)
    BY <1>0, <1>n, <2>3 DEF AuthClock, TypeOK, Request
  <2>4. CASE AuthMetadata(w)
    BY <1>a, <1>g, <1>n, <2>4, MetadataAnswers DEF AuthMetadata
  <2>5. CASE AuthPolicy(w)  BY <1>n, <2>5 DEF AuthPolicy
  <2>6. CASE RenewLoad(w)  BY <1>g, <2>6 DEF RenewLoad
  <2>7. CASE \/ IssueInsert(w) \/ RenewClassify(w) \/ RenewTransaction(w)
             \/ RevokeWrite(w) \/ GrantInsert(w)
    BY <1>a, <2>7 DEF IssueInsert, RenewClassify, RenewTransaction, RevokeWrite, GrantInsert
  <2> QED  BY <1>2, <2>1, <2>2, <2>3, <2>4, <2>5, <2>6, <2>7 DEF Handler
<1>3. CASE \E r \in Requests : Call(r) \/ Handler(r)
  BY <1>0, <1>1, <1>2, <1>3, <1>k, OthersKeep
<1>4. CASE Administer
  BY <1>4, <1>k DEF Administer, RevokeCredential, Activate, DisableSubject, Disable
<1>5. CASE Tick  BY <1>5, <1>k DEF Tick
<1>6. CASE Restart  BY <1>6 DEF Restart, Blank
<1> QED  BY <1>3, <1>4, <1>5, <1>6 DEF Next

-----------------------------------------------------------------------------
(* Together the invariants of the tables are inductive.                    *)

LEMMA InitTables == Init => Tables
<1> SUFFICES ASSUME Init PROVE Tables  OBVIOUS
<1>1. \A s \in Sessions : session[s] = NoRow  BY DEF Init
<1>2. \A d \in Digests : rotation[d] = None  BY DEF Init
<1>3. RowsWhole /\ HistoryStored
  <2>1. NoRow.digest = None  BY DEF NoRow
  <2>2. RowsWhole  BY <1>1, <2>1 DEF RowsWhole, Stored
  <2>3. HistoryStored  BY <1>2, NoneAssumption DEF HistoryStored
  <2> QED  BY <2>2, <2>3
<1>4. CredentialLedger
  <2>1. \A d \in Digests : \A s \in Sessions : ~Owns(s, d)
    BY <1>1, <1>2, NoneAssumption DEF Owns, NoRow
  <2>2. \A d \in Digests : ~Spent(d) /\ ~Known(d)  BY <1>2, <2>1 DEF Spent, Known
  <2> QED  BY <2>1, <2>2 DEF Init, CredentialLedger
<1>5. DisabledMeansRevoked /\ ManagedEnvelope /\ NarrowRows
  BY <1>1 DEF DisabledMeansRevoked, ManagedEnvelope, NarrowRows, Live, Stored,
              HasParent, NoRow
<1>6. RevokeTargetStored  BY DEF Init, RevokeTargetStored, Blank
<1> QED  BY <1>3, <1>4, <1>5, <1>6, InitTyped DEF Tables

LEMMA StepTables == Tables /\ [Next]_vars => Tables'
<1> SUFFICES ASSUME Tables, [Next]_vars PROVE Tables'  OBVIOUS
<1>1. Typed'  BY StepTyped DEF Tables
<1>2. CASE Next
  <2>1. TableStep  BY <1>2, NextIsTableStep
  <2> QED
    BY <1>1, <1>2, <2>1, RowsWholeStep, HistoryStoredStep, RevokeTargetStep,
       CredentialLedgerStep, DisabledMeansRevokedStep, ManagedEnvelopeStep, DelegationStep
       DEF Tables
<1>3. CASE UNCHANGED vars
  <2>1. TableStep  BY <1>3 DEF vars, TableStep, Still, tables
  <2>2. RevokeTargetStored'
    BY <1>3 DEF vars, Tables, RevokeTargetStored, Stored
  <2> QED
    BY <1>1, <2>1, <2>2, RowsWholeStep, HistoryStoredStep, CredentialLedgerStep,
       DisabledMeansRevokedStep, ManagedEnvelopeStep, DelegationStep DEF Tables
<1> QED  BY <1>2, <1>3

LEMMA TablesAlways == Spec => []Tables
BY InitTables, StepTables, PTL DEF Spec

(* Every credential handed out belongs to one session for ever, current or *)
(* in its rotation history.                                                *)
THEOREM LedgerHolds == Spec => []CredentialLedger
<1>1. Tables => CredentialLedger  BY DEF Tables
<1> QED  BY <1>1, TablesAlways, PTL

(* However an issue, a grant or a renewal interleaves with the disabling   *)
(* of its subject, no session of a disabled subject stays live.            *)
THEOREM DisabledHolds == Spec => []DisabledMeansRevoked
<1>1. Tables => DisabledMeansRevoked  BY DEF Tables
<1> QED  BY <1>1, TablesAlways, PTL

(* No renewal, under any sequence of policies, leaves the envelope.        *)
THEOREM EnvelopeHolds == Spec => []ManagedEnvelope
<1>1. Tables => ManagedEnvelope  BY DEF Tables
<1> QED  BY <1>1, TablesAlways, PTL

(* Only the insert of a grant makes a row a child, and it does so of a     *)
(* parent that is live and not expired when the row is written.            *)
LEMMA ChildOfLive ==
  ASSUME Tables, TableStep, NEW s \in Sessions, ~HasParent(s), HasParent(s)'
  PROVE  Live(session'[s].parent) /\ session[session'[s].parent].expires > now
<1>0. TypeOK /\ RowsWhole  BY DEF Tables, Typed
<1>1. session'[s].parent # None /\ session[s].parent = None  BY DEF HasParent
<1>2. ~Stored(s)  BY <1>1, StoredKept DEF Kept
<1>3. session[s] = NoRow  BY <1>0, <1>2 DEF RowsWhole
<1>4. session'[s] # session[s]  BY <1>1
<1>5. PICK t \in Sessions, d \in Digests, row \in SessionRow :
        InsertedRoot(t, d, row) \/ InsertedChild(t, d, row)
  <2>1. ASSUME NEW S, Revoke(S)  PROVE session'[s].parent = None
    BY <1>0, <1>3, <2>1, RevokeKeeps DEF NoRow
  <2>2. ASSUME NEW t \in Sessions, NEW d \in Digests, NEW fresh \in Digests,
               Rotated(t, d, fresh)
        PROVE  session'[s] = session[s]
    BY <1>2, <2>2, RotateKeeps, NoneAssumption DEF Stored
  <2> QED
    BY <1>1, <1>4, <2>1, <2>2 DEF TableStep, Still, tables, Enrolled, Restated, Revoked
<1>6. Inserted(t, d, row)  BY <1>5 DEF InsertedRoot, InsertedChild
<1>7. s = t /\ session'[s] = row  BY <1>4, <1>6, InsertKeeps
<1>8. InsertedChild(t, d, row)  BY <1>1, <1>5, <1>7 DEF InsertedRoot
<1> QED  BY <1>7, <1>8 DEF InsertedChild

(* A delegated session is one level deep and bounded by its parent, and    *)
(* none is made of a parent that was revoked or expired meanwhile.         *)
THEOREM DelegationHolds == Spec => DelegationIsNarrow
<1>1. Tables => NarrowRows  BY DEF Tables
<1>2. Tables /\ [Next]_vars =>
        [\A s \in Sessions : ~HasParent(s) /\ HasParent(s)' =>
           LET p == session'[s].parent IN Live(p) /\ session[p].expires > now]_vars
  <2> SUFFICES ASSUME Tables, Next, NEW s \in Sessions, ~HasParent(s), HasParent(s)'
               PROVE  Live(session'[s].parent) /\ session[session'[s].parent].expires > now
    OBVIOUS
  <2> QED  BY NextIsTableStep, ChildOfLive
<1> QED  BY <1>1, <1>2, TablesAlways, PTL DEF Spec, DelegationIsNarrow

-----------------------------------------------------------------------------
(* A dead credential stays dead.                                           *)

LEMMA DeadStays ==
  ASSUME Tables, TableStep, NEW d \in Digests, Dead(d)
  PROVE  Dead(d)'
<1>0. TypeOK /\ CredentialLedger  BY DEF Tables, Typed
<1>1. d \in issued'
  BY DEF Dead, TableStep, Still, tables, Enrolled, Restated, InsertedRoot, InsertedChild,
         Inserted, Rotated, Rotate, Revoked
<1> SUFFICES ASSUME NEW s \in Sessions, session'[s].digest = d, Live(s)'
             PROVE  session'[s].expires <= now'
  BY <1>1 DEF Dead
<1>t. ASSUME session[s].digest = d, ~session[s].revoked
      PROVE  session[s].expires <= now
  BY <1>0, <1>t, NoneAssumption DEF Dead, Live, Stored
<1>n. now \in Nat /\ session[s].expires \in Nat  BY <1>0 DEF TypeOK, SessionRow
<1>r. ASSUME NEW S, Revoke(S), now' = now  PROVE session'[s].expires <= now'
  <2>1. session[s].digest = d /\ session'[s].expires = session[s].expires
    BY <1>0, <1>r, RevokeKeeps
  <2>2. ~session[s].revoked
    BY <1>0, <1>r, RevokeKeeps DEF Live
  <2> QED  BY <1>r, <1>t, <2>1, <2>2
<1>u. ASSUME session'[s] = session[s]  PROVE session[s].expires <= now
  BY <1>t, <1>u DEF Live
<1>1a. CASE Still
  <2>1. session' = session  BY <1>1a DEF Still, tables
  <2> QED  BY <1>1a, <1>n, <1>u, <2>1 DEF Still
<1>2. ASSUME NEW u \in Subjects, NEW x \in Externals, Enrolled(u, x)
      PROVE  session'[s].expires <= now'
  BY <1>2, <1>u DEF Enrolled
<1>3. ASSUME NEW u \in Subjects, NEW row \in SubjectRow, Restated(u, row)
      PROVE  session'[s].expires <= now'
  BY <1>3, <1>u, <1>r DEF Restated
<1>4. ASSUME NEW t \in Sessions, NEW e \in Digests, NEW row \in SessionRow,
             InsertedRoot(t, e, row) \/ InsertedChild(t, e, row)
      PROVE  session'[s].expires <= now'
  <2>1. Inserted(t, e, row)  BY <1>4 DEF InsertedRoot, InsertedChild
  <2>2. session'[t] = row /\ row.digest = e /\ e \in Fresh  BY <2>1, InsertKeeps DEF Inserted
  <2>3. s # t  BY <2>2 DEF Dead, Fresh
  <2> QED  BY <1>u, <2>1, <2>3, InsertKeeps DEF Inserted
<1>5. ASSUME NEW t \in Sessions, NEW e \in Digests, NEW fresh \in Digests,
             Rotated(t, e, fresh)
      PROVE  session'[s].expires <= now'
  <2>1. s # t  BY <1>5, RotateKeeps DEF Dead, Rotated, Fresh
  <2> QED  BY <1>5, <1>u, <2>1, RotateKeeps DEF Rotated
<1>6. ASSUME NEW S \in SUBSET Sessions, Revoked(S)  PROVE session'[s].expires <= now'
  BY <1>6, <1>r DEF Revoked
<1> QED  BY <1>1a, <1>2, <1>3, <1>4, <1>5, <1>6 DEF TableStep

LEMMA BoxTableStep == Tables /\ [Next]_vars => TableStep
<1>1. CASE Next  BY <1>1, NextIsTableStep
<1>2. CASE UNCHANGED vars  BY <1>2 DEF vars, TableStep, Still, tables
<1> QED  BY <1>1, <1>2

(* A dead credential is not exchanged: the renewal that would has found    *)
(* its session live and unexpired.                                         *)
LEMMA DeadIsNotSpent ==
  ASSUME Tables, TableStep, NEW d \in Digests, Dead(d)
  PROVE  rotation'[d] = rotation[d]
<1>0. TypeOK  BY DEF Tables, Typed
<1>1. ASSUME NEW t \in Sessions, NEW e \in Digests, NEW fresh \in Digests,
             Rotated(t, e, fresh)
      PROVE  rotation'[d] = rotation[d]
  <2>1. /\ session[t].digest = e /\ ~session[t].revoked
        /\ session[t].expires > now
    BY <1>1, RotateKeeps
  <2>2. now \in Nat /\ session[t].expires \in Nat  BY <1>0 DEF TypeOK, SessionRow
  <2>3. Live(t)  BY <2>1, NoneAssumption DEF Live, Stored
  <2>4. d # e  BY <2>1, <2>2, <2>3 DEF Dead
  <2>5. rotation' = [rotation EXCEPT ![e] = t]  BY <1>1 DEF Rotated, Rotate
  <2> QED  BY <1>0, <2>4, <2>5 DEF TypeOK
<1>2. ASSUME ~\E t \in Sessions, e, fresh \in Digests : Rotated(t, e, fresh)
      PROVE  rotation' = rotation
  BY <1>2 DEF TableStep, Still, tables, Enrolled, Restated, InsertedRoot, InsertedChild,
              Inserted, Revoked
<1> QED  BY <1>1, <1>2

(* No interleaving of renewals, revocations, status changes and restarts   *)
(* makes a spent, revoked or expired credential usable again.              *)
THEOREM RevivalNever == Spec => NoRevival
<1>1. Tables /\ [Next]_vars =>
        [\A d \in Digests : Dead(d) => Dead(d)' /\ rotation'[d] = rotation[d]]_vars
  BY BoxTableStep, DeadStays, DeadIsNotSpent
<1> QED  BY <1>1, TablesAlways, PTL DEF Spec, NoRevival

-----------------------------------------------------------------------------
(* The tables implement the chain of credentials.                          *)

LEMMA ChainStart == Init => Chain!ChainInit
BY NoneAssumption DEF Init, Chain!ChainInit, NoRow

LEMMA SameChain ==
  ASSUME TypeOK, rotation' = rotation,
         \A s \in Sessions : /\ session'[s].digest = session[s].digest
                             /\ session'[s].revoked = session[s].revoked
  PROVE  UNCHANGED Chain!chainVars
BY DEF Chain!chainVars

LEMMA ChainClose ==
  ASSUME TypeOK, rotation' = rotation, NEW S \in SUBSET Sessions, Revoke(S),
         \A s \in S : Stored(s)
  PROVE  Chain!ChainNext
<1>1. [s \in Sessions |-> session'[s].digest] = [s \in Sessions |-> session[s].digest]
  BY RevokeKeeps
<1>2. \A s \in Sessions : session'[s].revoked <=>
                          session[s].revoked \/ s \in S
  BY RevokeKeeps
<1>3. {s \in Sessions : session'[s].revoked} =
      {s \in Sessions : session[s].revoked} \cup S
  BY <1>2
<1>4. Chain!Close(S)  BY <1>1, <1>3 DEF Chain!Close, Stored
<1> QED  BY <1>4 DEF Chain!ChainNext

LEMMA ChainOpen ==
  ASSUME Tables, NEW t \in Sessions, NEW d \in Digests, NEW row, Inserted(t, d, row)
  PROVE  Chain!ChainNext
<1>1. \A s \in Sessions : s # t => session'[s] = session[s]  BY InsertKeeps
<1>2. session'[t] = row /\ session[t] = NoRow  BY InsertKeeps
<1>3. row.digest = d /\ ~row.revoked  BY DEF Inserted
<1>4. [s \in Sessions |-> session'[s].digest] =
      [[s \in Sessions |-> session[s].digest] EXCEPT ![t] = d]
  BY <1>1, <1>2, <1>3
<1>5. {s \in Sessions : session'[s].revoked} =
      {s \in Sessions : session[s].revoked}
  BY <1>1, <1>2, <1>3 DEF NoRow
<1>6. Chain!Unused(d)  BY FreshIsUnknown DEF Chain!Unused, Inserted
<1>7. Chain!Open(t, d)
  BY <1>2, <1>4, <1>5, <1>6 DEF Chain!Open, Inserted, NoRow
<1> QED  BY <1>7 DEF Chain!ChainNext

LEMMA ChainExchange ==
  ASSUME Tables, NEW t \in Sessions, NEW d \in Digests, NEW fresh \in Digests,
         Rotated(t, d, fresh)
  PROVE  Chain!ChainNext
<1>1. \A s \in Sessions : s # t => session'[s] = session[s]  BY RotateKeeps
<1>2. /\ session[t].digest = d /\ ~session[t].revoked
      /\ session'[t].digest = fresh /\ ~session'[t].revoked
  BY RotateKeeps
<1>3. [s \in Sessions |-> session'[s].digest] =
      [[s \in Sessions |-> session[s].digest] EXCEPT ![t] = fresh]
  BY <1>1, <1>2
<1>4. {s \in Sessions : session'[s].revoked} =
      {s \in Sessions : session[s].revoked}
  BY <1>1, <1>2
<1>5. rotation' = [rotation EXCEPT ![d] = t]  BY DEF Rotated, Rotate
<1>6. Chain!Unused(fresh)  BY FreshIsUnknown DEF Chain!Unused, Rotated
<1>7. d # None /\ t \notin {s \in Sessions : session[s].revoked}
  BY <1>2, NoneAssumption
<1>8. Chain!Exchange(t, fresh)
  BY <1>2, <1>3, <1>4, <1>5, <1>6, <1>7 DEF Chain!Exchange
<1> QED  BY <1>8 DEF Chain!ChainNext

LEMMA ChainStep ==
  ASSUME Tables, TableStep
  PROVE  [Chain!ChainNext]_(Chain!chainVars)
<1>0. TypeOK  BY DEF Tables, Typed
<1>1. CASE Still  BY <1>0, <1>1, SameChain DEF Still, tables
<1>2. ASSUME NEW u \in Subjects, NEW x \in Externals, Enrolled(u, x)
      PROVE  UNCHANGED Chain!chainVars
  BY <1>0, <1>2, SameChain DEF Enrolled
<1>3. ASSUME NEW u \in Subjects, NEW row \in SubjectRow, Restated(u, row)
      PROVE  [Chain!ChainNext]_(Chain!chainVars)
  <2>1. CASE row.status = "active"
    BY <1>0, <1>3, <2>1, SameChain DEF Restated
  <2>2. CASE row.status # "active"
    <3>1. OwnedBy(u) \in SUBSET Sessions /\ \A s \in OwnedBy(u) : Stored(s)
      BY DEF OwnedBy
    <3> QED  BY <1>0, <1>3, <2>2, <3>1, ChainClose DEF Restated
  <2> QED  BY <2>1, <2>2
<1>4. ASSUME NEW t \in Sessions, NEW d \in Digests, NEW row \in SessionRow,
             InsertedRoot(t, d, row) \/ InsertedChild(t, d, row)
      PROVE  Chain!ChainNext
  BY <1>4, ChainOpen DEF InsertedRoot, InsertedChild
<1>5. ASSUME NEW S \in SUBSET Sessions, Revoked(S)  PROVE Chain!ChainNext
  BY <1>0, <1>5, ChainClose DEF Revoked
<1> QED  BY <1>1, <1>2, <1>3, <1>4, <1>5, ChainExchange DEF TableStep

(* Every behaviour of the Account is a behaviour of CredentialChain: each  *)
(* credential is exchanged at most once and only while its session is open.*)
THEOREM ChainRefined == Spec => ImplementsChain
<1>1. Tables /\ [Next]_vars => [Chain!ChainNext]_(Chain!chainVars)
  BY BoxTableStep, ChainStep
<1> QED  BY <1>1, ChainStart, TablesAlways, PTL DEF Spec, ImplementsChain, Chain!ChainSpec

-----------------------------------------------------------------------------
(* Renewals in progress. What a renewal has classified as a credential of  *)
(* a session stays one (issued only grows), and what it has found rotated  *)
(* away stays spent.                                                       *)

Renewal(q) ==
  /\ q.op = "renew" => q.step \in {"idle", "renew_load", "renew_classify", "renew_tx"}
  /\ q.step \in {"renew_load", "renew_classify", "renew_tx"} => q.cred \in issued
  /\ q.step = "renew_classify" => Spent(q.cred)
  /\ q.op = "renew" /\ q.outcome = "rotated" => q.cred \in Digests /\ Spent(q.cred)
  /\ q.op = "renew" /\ q.known => q.outcome # "invalid"

Renewals == Tables /\ (\A r \in Requests : Renewal(req[r])) /\ SingleWinner

LEMMA LedgerGrows ==
  ASSUME Tables, TableStep
  PROVE  /\ issued \subseteq issued'
         /\ \A d \in Digests : Spent(d) => Spent(d)'
<1>1. CASE \E t \in Sessions, d, fresh \in Digests : Rotated(t, d, fresh)
  <2>1. PICK t \in Sessions, d \in Digests, fresh \in Digests : Rotated(t, d, fresh)
    BY <1>1
  <2>2. rotation' = [rotation EXCEPT ![d] = t] /\ issued' = issued \cup {fresh}
    BY <2>1 DEF Rotated, Rotate
  <2> QED  BY <2>2, NoneAssumption DEF Spent, Tables, Typed, TypeOK
<1>2. CASE ~\E t \in Sessions, d, fresh \in Digests : Rotated(t, d, fresh)
  <2>1. rotation' = rotation /\ issued \subseteq issued'
    BY <1>2 DEF TableStep, Still, tables, Enrolled, Restated, InsertedRoot, InsertedChild,
                Inserted, Revoked
  <2> QED  BY <2>1 DEF Spent
<1> QED  BY <1>1, <1>2

(* A credential in a rotation history is classified as revoked or stale.   *)
LEMMA SpentIsKnown ==
  ASSUME Tables, NEW d \in Digests, Spent(d)
  PROVE  Metadata(d) \in {"revoked", "stale"}
<1>1. rotation[d] \in Sessions  BY DEF Tables, Typed, TypeOK, Spent
<1>2. Known(d)  BY <1>1 DEF Known, Owns
<1>3. Holder(d) \in Sessions  BY <1>2, HolderOwns
<1>4. session[Holder(d)].digest # d  BY <1>3 DEF Tables, CredentialLedger
<1> QED  BY <1>2, <1>4 DEF Metadata

(* The credential of a request that is being renewed, in the next state.   *)
LEMMA RenewalStays ==
  ASSUME Tables, TableStep, NEW w \in Requests, Renewal(req[w]),
         NEW q, q.cred = req[w].cred, q.step = req[w].step, q.op = req[w].op,
         q.outcome = req[w].outcome, q.known = req[w].known
  PROVE  Renewal(q)'
<1>1. req[w].step = "renew_classify" => req[w].cred \in Digests
  BY DEF Tables, Typed, Ready
<1> QED  BY <1>1, LedgerGrows DEF Renewal

(* A request to revoke a session as it starts.                             *)
LEMMA RevokeAsks ==
  ASSUME NEW w \in Requests, NEW s \in Sessions, RevokeRead(w, s)
  PROVE  \E asked : /\ Start(w, asked) /\ asked.op = "revoke"
                    /\ asked.step \in {"revoke_write", "idle"}
                    /\ asked.outcome \in {"none", "unchanged", "not_found"}
<1> DEFINE found  == Stored(s) /\ ~session[s].revoked
           answer == IF Stored(s) THEN "unchanged" ELSE "not_found"
           ask    == [Asked("revoke", "revoke_write") EXCEPT !.sess = s]
           told   == [Asked("revoke", "idle") EXCEPT !.sess = s, !.outcome = answer]
<1>1. answer \in {"unchanged", "not_found"}  OBVIOUS
<1>2. Start(w, IF found THEN ask ELSE told)  BY DEF RevokeRead
<1> HIDE DEF found, answer
<1>3. CASE found
  <2>1. Start(w, ask)  BY <1>2, <1>3
  <2>2. ask.op = "revoke" /\ ask.step = "revoke_write" /\ ask.outcome = "none"
    BY DEF Asked, Blank
  <2> QED  BY <2>1, <2>2
<1>4. CASE ~found
  <2>1. Start(w, told)  BY <1>2, <1>4
  <2>2. told.op = "revoke" /\ told.step = "idle" /\ told.outcome = answer
    BY DEF Asked, Blank
  <2> QED  BY <1>1, <2>1, <2>2
<1> QED  BY <1>3, <1>4

LEMMA RenewalStep ==
  ASSUME Renewals, NEW w \in Requests, Call(w) \/ Handler(w), TableStep, NEW q, q = req'[w],
         NEW d, d = req[w].cred
  PROVE  /\ Renewal(q)'
         /\ q.op = "renew" /\ q.outcome = "rotated" =>
              \/ req[w].op = "renew" /\ req[w].outcome = "rotated" /\ d = q.cred
              \/ ~Spent(q.cred) /\ q.cred \in Digests
<1> DEFINE Fine == /\ Renewal(q)'
                   /\ q.op = "renew" /\ q.outcome = "rotated" =>
                        \/ req[w].op = "renew" /\ req[w].outcome = "rotated" /\ d = q.cred
                        \/ ~Spent(q.cred) /\ q.cred \in Digests
<1>0. /\ TypeOK /\ Tables /\ Typed /\ CredentialLedger /\ req[w] \in Request
      /\ Ready(req[w], policy) /\ Renewal(req[w])
  BY DEF Renewals, Tables, Typed, TypeOK
<1>o. ASSUME q.op # "renew", q.step \notin {"renew_load", "renew_classify", "renew_tx"}
      PROVE  Fine
  BY <1>o DEF Renewal
<1>s. ASSUME NEW asked, Start(w, asked)  PROVE q = asked
  BY <1>0, <1>s DEF Start, TypeOK
<1>1. ASSUME Call(w)  PROVE Fine
  <2>1. ASSUME NEW x \in Externals, EnsureRead(w, x)  PROVE Fine
    BY ZenonT(60), <1>o, <1>s, <2>1 DEF EnsureRead, Asked, Blank
  <2>2. ASSUME NEW u \in Subjects, NEW l \in Lifetimes, IssueCheck(w, u, l)  PROVE Fine
    BY ZenonT(60), <1>o, <1>s, <2>2 DEF IssueCheck, Asked, Blank
  <2>3. ASSUME NEW u \in Subjects, IssueManagedCheck(w, u)  PROVE Fine
    BY <1>o, <1>s, <2>3 DEF IssueManagedCheck, Asked, Blank
  <2>4. ASSUME NEW e \in Digests, AuthLoad(w, e)  PROVE Fine
    <3>1. /\ q.op = "authenticate"
          /\ q.step \in {"auth_clock", "idle"}
      BY ZenonT(60), <1>s, <2>4 DEF AuthLoad, Asked, Blank
    <3> QED  BY <1>o, <3>1
  <2>5. ASSUME NEW s \in Sessions, RevokeRead(w, s)  PROVE Fine
    <3>1. q.op = "revoke" /\ q.step \in {"revoke_write", "idle"}
      BY <1>s, <2>5, RevokeAsks
    <3> QED  BY <1>o, <3>1
  <2>6. ASSUME NEW e \in Digests, NEW l \in Lifetimes, GrantCheck(w, e, l)  PROVE Fine
    <3>1. q.op = "grant" /\ q.step \in {"grant_insert", "idle"}
      BY ZenonT(60), <1>s, <2>6 DEF GrantCheck, Asked, Blank
    <3> QED  BY <1>o, <3>1
  <2>7. ASSUME NEW e \in Digests, RenewMetadata(w, e)  PROVE Fine
    <3> DEFINE answer == Metadata(e)
               known == (e \in issued)
    <3>0. known \in BOOLEAN  OBVIOUS
    <3>1. q = [Asked("renew", IF answer = "ok" THEN "renew_load" ELSE "idle") EXCEPT
                 !.cred = e, !.known = known,
                 !.outcome = IF answer = "ok" THEN "none" ELSE answer]
      BY <1>s, <2>7 DEF RenewMetadata
    <3>2. answer \in {"invalid", "revoked", "stale", "unsupported", "expired", "ok"}
          /\ (answer = "invalid" <=> ~known)
      BY <1>0, MetadataAnswers DEF CredentialLedger
    <3>3. issued' = issued  BY <2>7 DEF RenewMetadata, tables
    <3>4. answer = "ok" => e \in issued'  BY <3>2, <3>3
    <3> HIDE DEF known, answer
    <3>5. /\ q.step = (IF answer = "ok" THEN "renew_load" ELSE "idle")
          /\ q.cred = e /\ q.known = known
          /\ q.outcome = IF answer = "ok" THEN "none" ELSE answer
      BY <3>1 DEF Asked, Blank
    <3> QED  BY <3>2, <3>4, <3>5 DEF Renewal
  <2> QED  BY <1>1, <2>1, <2>2, <2>3, <2>4, <2>5, <2>6, <2>7 DEF Call
<1>a. ASSUME NEW answer, Reply(w, answer)
      PROVE  /\ q.op = req[w].op /\ q.step = "idle" /\ q.outcome = answer
             /\ q.cred = d /\ q.known = req[w].known
  BY <1>0, <1>a, ReplyGives
<1>g. ASSUME NEW step, Goto(w, step)
      PROVE  /\ q.op = req[w].op /\ q.step = step /\ q.outcome = req[w].outcome
             /\ q.cred = d /\ q.known = req[w].known
  BY <1>0, <1>g, GotoGives
<1>2. CASE EnsureInsert(w) \/ EnsureReread(w) \/ IssueInsert(w) \/ AuthClock(w)
           \/ AuthMetadata(w) \/ AuthPolicy(w) \/ RevokeWrite(w) \/ GrantInsert(w)
  <2>1. req[w].op # "renew"
    BY <1>0, <1>2 DEF Renewal, At, EnsureInsert, EnsureReread, IssueInsert, AuthClock,
                      AuthMetadata, AuthPolicy, RevokeWrite, GrantInsert
  <2>2. CASE EnsureInsert(w) \/ EnsureReread(w)
    <3>1. q.op = req[w].op /\ q.step \in {"idle", "ensure_reread"}
      BY <1>0, <1>g, <2>2 DEF EnsureInsert, EnsureReread, TypeOK, Request
    <3> QED  BY <1>o, <2>1, <3>1
  <2>3. CASE AuthClock(w) \/ AuthMetadata(w) \/ AuthPolicy(w)
    <3>n. ASSUME NEW e, NEW stamp, NEW open, Sign(w, e, stamp, open)
          PROVE  q.op = req[w].op /\ q.step = "idle"
      BY <1>0, <3>n, SignGives
    <3>1. q.op = req[w].op /\ q.step \in {"idle", "auth_metadata", "auth_policy"}
      <4>1. CASE AuthClock(w)
        BY <1>0, <3>n, <4>1 DEF AuthClock, TypeOK, Request
      <4>2. CASE AuthMetadata(w)
        BY <1>a, <1>g, <3>n, <4>2, MetadataAnswers DEF AuthMetadata
      <4>3. CASE AuthPolicy(w)  BY <3>n, <4>3 DEF AuthPolicy
      <4> QED  BY <2>3, <4>1, <4>2, <4>3
    <3> QED  BY <1>o, <2>1, <3>1
  <2>4. CASE IssueInsert(w) \/ RevokeWrite(w) \/ GrantInsert(w)
    <3>1. q.op = req[w].op /\ q.step = "idle"
      BY <1>a, <2>4 DEF IssueInsert, RevokeWrite, GrantInsert
    <3> QED  BY <1>o, <2>1, <3>1
  <2> QED  BY <1>2, <2>2, <2>3, <2>4
<1>c. req[w].step \in {"renew_load", "renew_classify", "renew_tx"} =>
        /\ req[w].op = "renew" /\ d \in Digests /\ d \in issued /\ Known(d) /\ d \in issued'
  BY <1>0, LedgerGrows DEF Ready, Renewal, CredentialLedger
<1>3. CASE RenewLoad(w)
  <2>1. /\ d \in Digests /\ Known(d) /\ d \in issued' /\ req[w].op = "renew"
        /\ rotation' = rotation
    BY <1>3, <1>c DEF RenewLoad, At, tables
  <2>2. /\ q.op = "renew" /\ q.step \in {"renew_tx", "renew_classify"} /\ q.cred = d
        /\ q.outcome = req[w].outcome /\ q.known = req[w].known
        /\ q.step = "renew_classify" => \A s \in Sessions : session[s].digest # d
    BY <1>3, <1>g, <2>1 DEF RenewLoad
  <2>3. q.step = "renew_classify" => Spent(d)
    BY <2>1, <2>2, NoneAssumption DEF Known, Owns, Spent
  <2>4. Spent(d) => Spent(d)'  BY <2>1 DEF Spent
  <2>5. q.cred = d  BY <2>2
  <2>6. /\ q.known => q.outcome # "invalid"
        /\ q.outcome = "rotated" => Spent(d)
    BY <1>0, <2>1, <2>2 DEF Renewal
  <2> QED  BY <2>1, <2>2, <2>3, <2>4, <2>5, <2>6 DEF Renewal
<1>4. CASE RenewClassify(w)
  <2>1. d \in Digests /\ Spent(d)  BY <1>0, <1>4, <1>c DEF RenewClassify, At, Renewal
  <2>a. Metadata(d) \in {"revoked", "stale"}  BY <1>0, <2>1, SpentIsKnown
  <2>2. Reply(w, Metadata(d)) /\ Metadata(d) \in {"revoked", "stale"}
    BY <1>4, <2>a DEF RenewClassify
  <2>3. q.step = "idle" /\ q.outcome = Metadata(d)  BY <1>a, <2>2
  <2>4. q.step = "idle" /\ q.outcome # "rotated" /\ q.outcome # "invalid"
    BY <2>2, <2>3
  <2> QED  BY <2>4 DEF Renewal
<1>5. CASE RenewTransaction(w)
  <2>1. d \in Digests /\ Known(d)  BY <1>5, <1>c DEF RenewTransaction, At
  <2>2. CASE RenewVerdict(d) = "rotated"
    <3>1. PICK fresh \in Fresh : Rotate(Holder(d), d, fresh) /\ Reply(w, "rotated")
      BY <1>5, <2>2 DEF RenewTransaction
    <3>2. Holder(d) \in Sessions /\ session[Holder(d)].digest = d  BY <2>2, RotatedMeans
    <3>3. ~Spent(d)  BY <1>0, <2>1, <3>2 DEF CredentialLedger
    <3>4. rotation' = [rotation EXCEPT ![d] = Holder(d)]  BY <3>1 DEF Rotate
    <3>5. Spent(d)'  BY <1>0, <2>1, <3>2, <3>4, NoneAssumption DEF Spent, TypeOK
    <3>6. q.step = "idle" /\ q.outcome = "rotated" /\ q.cred = d  BY <1>a, <3>1
    <3> QED  BY <2>1, <3>3, <3>5, <3>6 DEF Renewal
  <2>3. CASE RenewVerdict(d) # "rotated"
    <3>1. Reply(w, RenewVerdict(d)) /\ RenewVerdict(d) # "invalid"
      BY <1>5, <2>1, <2>3, MetadataAnswers DEF RenewTransaction
    <3>2. q.step = "idle" /\ q.outcome # "rotated" /\ q.outcome # "invalid"
      BY <1>a, <2>3, <3>1
    <3> QED  BY <3>2 DEF Renewal
  <2> QED  BY <2>2, <2>3
<1> QED  BY <1>1, <1>2, <1>3, <1>4, <1>5 DEF Handler

LEMMA InitRenewals == Init => Renewals
<1> SUFFICES ASSUME Init PROVE Renewals  OBVIOUS
<1>1. \A r \in Requests : req[r] = Blank  BY DEF Init
<1>2. Blank.op = "none" /\ Blank.step = "idle"  BY DEF Blank
<1>3. \A r \in Requests : Renewal(req[r])  BY <1>1, <1>2 DEF Renewal
<1>4. SingleWinner  BY <1>1, <1>2 DEF SingleWinner
<1> QED  BY <1>3, <1>4, InitTables DEF Renewals

LEMMA StepRenewals == Renewals /\ [Next]_vars => Renewals'
<1> SUFFICES ASSUME Renewals, [Next]_vars PROVE Renewals'  OBVIOUS
<1>0. Tables /\ TableStep /\ Tables' /\ TypeOK /\ SingleWinner
  BY BoxTableStep, StepTables DEF Renewals, Tables, Typed
<1>q. ASSUME NEW r \in Requests, req'[r] = req[r]  PROVE Renewal(req[r])'
  <2>1. PICK q : q = req[r]  OBVIOUS
  <2>2. Renewal(q)'  BY <1>0, <2>1, RenewalStays DEF Renewals
  <2> QED  BY <1>q, <2>1, <2>2 DEF Renewal
<1>k. ASSUME req' = req  PROVE Renewals'
  <2>1. \A r \in Requests : Renewal(req[r])'  BY <1>k, <1>q
  <2>2. SingleWinner'  BY <1>0, <1>k DEF SingleWinner
  <2> QED  BY <1>0, <2>1, <2>2 DEF Renewals
<1>1. ASSUME NEW w \in Requests, Call(w) \/ Handler(w)  PROVE Renewals'
  <2>1. \A r \in Requests : r # w => req'[r] = req[r]  BY <1>0, <1>1, OthersKeep
  <2>2. PICK q : q = req'[w]  OBVIOUS
  <2>3. /\ Renewal(q)'
        /\ q.op = "renew" /\ q.outcome = "rotated" =>
             \/ req[w].op = "renew" /\ req[w].outcome = "rotated" /\ req[w].cred = q.cred
             \/ ~Spent(q.cred) /\ q.cred \in Digests
    BY <1>0, <1>1, <2>2, RenewalStep
  <2>4. Renewal(req[w])'  BY <2>2, <2>3 DEF Renewal
  <2>5. \A r \in Requests : Renewal(req[r])'  BY <1>q, <2>1, <2>4
  <2>6. \A r \in Requests : req[r].op = "renew" /\ req[r].outcome = "rotated" =>
          Spent(req[r].cred)
    BY DEF Renewals, Renewal
  <2>7. ASSUME NEW r \in Requests, r # w,
               q.op = "renew", q.outcome = "rotated",
               req[r].op = "renew", req[r].outcome = "rotated", req[r].cred = q.cred
        PROVE  FALSE
    <3>1. Spent(q.cred)  BY <2>6, <2>7
    <3> QED  BY <1>0, <2>3, <2>7, <3>1 DEF SingleWinner
  <2>8. SingleWinner'  BY <1>0, <2>1, <2>2, <2>7 DEF SingleWinner
  <2> QED  BY <1>0, <2>5, <2>8 DEF Renewals
<1>2. CASE Restart
  <2>1. \A r \in Requests : req'[r] = Blank  BY <1>2 DEF Restart
  <2>2. Blank.op = "none" /\ Blank.step = "idle"  BY DEF Blank
  <2>3. \A r \in Requests : Renewal(req[r])'  BY <2>1, <2>2 DEF Renewal
  <2>4. SingleWinner'  BY <2>1, <2>2 DEF SingleWinner
  <2> QED  BY <1>0, <2>3, <2>4 DEF Renewals
<1>3. CASE Administer
  BY <1>3, <1>k DEF Administer, RevokeCredential, Activate, DisableSubject, Disable
<1>4. CASE Tick  BY <1>4, <1>k DEF Tick
<1>5. CASE UNCHANGED vars  BY <1>5, <1>k DEF vars
<1> QED  BY <1>1, <1>2, <1>3, <1>4, <1>5 DEF Next

LEMMA RenewalsAlways == Spec => []Renewals
BY InitRenewals, StepRenewals, PTL DEF Spec

(* Of all the requests that present one credential, at most one rotates it.*)
THEOREM OneWinner == Spec => []SingleWinner
<1>1. Renewals => SingleWinner  BY DEF Renewals
<1> QED  BY <1>1, RenewalsAlways, PTL

(* No renewal calls a credential invalid that the Account handed out.      *)
THEOREM NeverInvalid == Spec => []KnownNeverInvalid
<1>1. Renewals => KnownNeverInvalid  BY DEF Renewals, Renewal, KnownNeverInvalid
<1> QED  BY <1>1, RenewalsAlways, PTL

-----------------------------------------------------------------------------
(* What a grant answers.                                                   *)
GrantAnswer == {"invalid", "revoked", "expired", "invalid_scope", "nested", "failed",
                "granted"}

LEMMA GrantReplies ==
  ASSUME NEW w \in Requests, GrantInsert(w)
  PROVE  \E answer \in GrantAnswer : Reply(w, answer)
<1> DEFINE parents == {p \in Sessions : session[p].digest = req[w].cred}
           p == CHOOSE p \in parents : TRUE
           answer == IF parents = {} THEN "invalid" ELSE GrantVerdict(p, req[w].bound)
<1>1. \A t, e : GrantVerdict(t, e) \in GrantAnswer  BY DEF GrantVerdict, GrantAnswer
<1>2. answer \in GrantAnswer  BY <1>1 DEF GrantAnswer
<1>3. Reply(w, answer)  BY DEF GrantInsert
<1> QED  BY <1>2, <1>3

(* Only ensure_identity tells of an identity when it starts, and only      *)
(* authenticate begins to make an assertion.                               *)
LEMMA OtherCalls ==
  ASSUME TypeOK, NEW w \in Requests, Call(w), NEW q, q = req'[w]
  PROVE  \/ \E x \in Externals : EnsureRead(w, x)
         \/ \E d \in Digests : AuthLoad(w, d)
         \/ /\ q.step \in {"idle", "issue_insert", "renew_load", "revoke_write",
                           "grant_insert"}
            /\ q.outcome \notin {"identity", "accepted"}
<1> DEFINE Other == /\ q.step \in {"idle", "issue_insert", "renew_load", "revoke_write",
                                  "grant_insert"}
                    /\ q.outcome \notin {"identity", "accepted"}
<1>s. ASSUME NEW asked, Start(w, asked)  PROVE q = asked
  BY <1>s DEF Start, TypeOK
<1>1. ASSUME NEW u \in Subjects, NEW l \in Lifetimes, IssueCheck(w, u, l)  PROVE Other
  <2>1. q.step \in {"issue_insert", "idle"} /\ q.outcome \in {"none", "expired"}
    BY ZenonT(60), <1>s, <1>1 DEF IssueCheck, Asked, Blank
  <2> QED  BY <2>1
<1>2. ASSUME NEW u \in Subjects, IssueManagedCheck(w, u)  PROVE Other
  <2>1. q.step = "issue_insert" /\ q.outcome = "none"
    BY <1>s, <1>2 DEF IssueManagedCheck, Asked, Blank
  <2> QED  BY <2>1
<1>3. ASSUME NEW s \in Sessions, RevokeRead(w, s)  PROVE Other
  <2>1. /\ q.step \in {"revoke_write", "idle"}
        /\ q.outcome \in {"none", "unchanged", "not_found"}
    BY <1>s, <1>3, RevokeAsks
  <2> QED  BY <2>1
<1>4. ASSUME NEW d \in Digests, NEW l \in Lifetimes, GrantCheck(w, d, l)  PROVE Other
  <2>1. /\ q.step \in {"grant_insert", "idle"}
        /\ q.outcome \in {"none", "expired", "invalid_scope"}
    BY ZenonT(60), <1>s, <1>4 DEF GrantCheck, Asked, Blank
  <2> QED  BY <2>1
<1>5. ASSUME NEW d \in Digests, RenewMetadata(w, d)  PROVE Other
  <2> DEFINE answer == Metadata(d)
  <2>1. q = [Asked("renew", IF answer = "ok" THEN "renew_load" ELSE "idle") EXCEPT
               !.cred = d, !.known = (d \in issued),
               !.outcome = IF answer = "ok" THEN "none" ELSE answer]
    BY <1>s, <1>5 DEF RenewMetadata
  <2>2. answer \notin {"identity", "accepted"}  BY MetadataAnswers
  <2> HIDE DEF answer
  <2> QED  BY <2>1, <2>2 DEF Asked, Blank
<1> QED  BY <1>1, <1>2, <1>3, <1>4, <1>5 DEF Call

-----------------------------------------------------------------------------
(* What a request was told about an identity stays so: a binding is never  *)
(* moved, and only the request that enrols a subject binds it.             *)

IdentityTables ==
  /\ \A x \in Externals : binding[x] # None => subject[binding[x]].status # "absent"
  /\ \A u \in Subjects : subject[u].status # "absent" => \E x \in Externals : binding[x] = u
  /\ \A x, y \in Externals : binding[x] = binding[y] /\ binding[x] # None => x = y

ToldIdentity(q) ==
  /\ q.step = "ensure_reread" => binding[q.ext] # None
  /\ q.outcome = "identity" =>
       q.ext \in Externals /\ binding[q.ext] # None /\ q.subj = binding[q.ext]

LEMMA IdentityTablesStep ==
  ASSUME Tables, TableStep, IdentityTables
  PROVE  /\ IdentityTables'
         /\ \A x \in Externals : binding[x] # None => binding'[x] = binding[x]
<1>0. /\ subject \in [Subjects -> SubjectRow]
      /\ binding \in [Externals -> Subjects \cup {None}]
      /\ None \notin Subjects
  BY NoneAssumption DEF Tables, Typed, TypeOK
<1> DEFINE Fine == /\ IdentityTables'
                   /\ \A x \in Externals : binding[x] # None => binding'[x] = binding[x]
<1>1. ASSUME NEW u \in Subjects, NEW x \in Externals, Enrolled(u, x)  PROVE Fine
  <2>1. /\ subject[u].status = "absent" /\ binding[x] = None
        /\ binding' = [binding EXCEPT ![x] = u]
        /\ subject' = [subject EXCEPT ![u].status = "active"]
    BY <1>1 DEF Enrolled
  <2>2. /\ \A y \in Externals : binding'[y] = IF y = x THEN u ELSE binding[y]
        /\ \A v \in Subjects : subject'[v].status =
             IF v = u THEN "active" ELSE subject[v].status
    BY <1>0, <2>1 DEF SubjectRow
  <2>3. \A y \in Externals : binding[y] # u
    BY <1>0, <2>1 DEF IdentityTables
  <2>4. \A y \in Externals : binding[y] # None => binding'[y] = binding[y]
    BY <2>1, <2>2
  <2>5. \A y \in Externals : binding'[y] # None => subject'[binding'[y]].status # "absent"
    BY <1>0, <2>2 DEF IdentityTables
  <2>6. \A v \in Subjects : subject'[v].status # "absent" =>
          \E y \in Externals : binding'[y] = v
    BY <1>0, <2>1, <2>2 DEF IdentityTables
  <2>7. \A y, z \in Externals : binding'[y] = binding'[z] /\ binding'[y] # None => y = z
    BY <2>2, <2>3 DEF IdentityTables
  <2> QED  BY <2>4, <2>5, <2>6, <2>7 DEF IdentityTables
<1>2. ASSUME NEW u \in Subjects, NEW row \in SubjectRow, Restated(u, row)  PROVE Fine
  <2>1. /\ binding' = binding
        /\ \A v \in Subjects : subject'[v].status = "absent" <=> subject[v].status = "absent"
    BY <1>0, <1>2 DEF Restated
  <2> QED  BY <1>0, <2>1 DEF IdentityTables
<1>3. ASSUME UNCHANGED <<subject, binding>>  PROVE Fine
  BY <1>3 DEF IdentityTables
<1> QED
  BY <1>1, <1>2, <1>3 DEF TableStep, Still, tables, InsertedRoot, InsertedChild, Inserted,
                          Rotated, Revoked

LEMMA ToldStays ==
  ASSUME Tables, TableStep, IdentityTables, NEW q \in Request, Ready(q, policy),
         ToldIdentity(q), NEW b, b = q
  PROVE  ToldIdentity(b)'
BY IdentityTablesStep DEF ToldIdentity, Ready

LEMMA ToldStep ==
  ASSUME Tables, IdentityTables, NEW w \in Requests, ToldIdentity(req[w]), TableStep,
         Call(w) \/ Handler(w), NEW q, q = req'[w]
  PROVE  ToldIdentity(q)'
<1>0. /\ TypeOK /\ req[w] \in Request /\ Ready(req[w], policy)
      /\ \A x \in Externals : binding[x] # None => binding'[x] = binding[x]
  BY IdentityTablesStep DEF Tables, Typed, TypeOK
<1>i. ASSUME q.step # "ensure_reread", q.outcome # "identity"  PROVE ToldIdentity(q)'
  BY <1>i DEF ToldIdentity
<1>s. ASSUME NEW asked, Start(w, asked)  PROVE q = asked
  BY <1>0, <1>s DEF Start, TypeOK
<1>a. ASSUME NEW answer, Reply(w, answer), answer # "identity"  PROVE ToldIdentity(q)'
  BY <1>0, <1>a, <1>i, ReplyGives
<1>n. ASSUME NEW e, NEW stamp, NEW open, Sign(w, e, stamp, open)  PROVE ToldIdentity(q)'
  BY <1>0, <1>i, <1>n, SignGives
<1>g. ASSUME NEW step, Goto(w, step)
      PROVE  q.step = step /\ q.outcome = req[w].outcome /\ q.ext = req[w].ext
             /\ q.subj = req[w].subj
  BY <1>0, <1>g DEF Goto, TypeOK, Request
<1>m. ASSUME NEW step, Goto(w, step), step # "ensure_reread"  PROVE ToldIdentity(q)'
  BY <1>0, <1>g, <1>m DEF ToldIdentity
<1>1. ASSUME Call(w)  PROVE ToldIdentity(q)'
  <2>1. ASSUME NEW x \in Externals, EnsureRead(w, x)  PROVE ToldIdentity(q)'
    <3>1. CASE binding[x] = None
      <4>1. q = [Asked("ensure", "ensure_insert") EXCEPT !.ext = x]
        BY <1>s, <2>1, <3>1 DEF EnsureRead
      <4> QED  BY <1>i, <4>1 DEF Asked, Blank
    <3>2. CASE binding[x] # None
      <4> DEFINE answer == Identity(x).outcome
      <4>1. q = [Asked("ensure", "idle") EXCEPT !.ext = x, !.outcome = answer,
                                                 !.subj = binding[x]]
        BY <1>s, <2>1, <3>2 DEF EnsureRead
      <4>2. q.ext = x /\ q.subj = binding[x] /\ q.step = "idle"
        BY <4>1 DEF Asked, Blank
      <4> QED  BY <1>0, <3>2, <4>2 DEF ToldIdentity
    <3> QED  BY <3>1, <3>2
  <2>2. ASSUME NEW d \in Digests, AuthLoad(w, d)  PROVE ToldIdentity(q)'
    <3>1. /\ q.step \in {"auth_clock", "idle"}
          /\ q.outcome \in {"none", "invalid", "revoked"}
      BY ZenonT(60), <1>s, <2>2 DEF AuthLoad, Asked, Blank
    <3> QED  BY <1>i, <3>1
  <2> QED  BY <1>0, <1>1, <1>i, <2>1, <2>2, OtherCalls
<1>2. CASE EnsureInsert(w)
  <2> DEFINE x == req[w].ext
  <2>1. x \in Externals  BY <1>0, <1>2 DEF EnsureInsert, At, Ready
  <2>2. CASE binding[x] # None
    <3>1. Goto(w, "ensure_reread")  BY <1>2, <2>2 DEF EnsureInsert
    <3>2. q.ext = x /\ q.outcome = req[w].outcome /\ q.subj = req[w].subj
      BY <1>g, <3>1
    <3> QED  BY <1>0, <2>1, <2>2, <3>2 DEF ToldIdentity
  <2>3. CASE binding[x] = None
    <3>1. PICK u \in Subjects :
            /\ binding' = [binding EXCEPT ![x] = u]
            /\ req' = [req EXCEPT ![w].step = "idle", ![w].outcome = "identity",
                                  ![w].subj = u]
      BY <1>2, <2>3 DEF EnsureInsert
    <3>2. q.step = "idle" /\ q.subj = u /\ q.ext = x
      BY <1>0, <3>1 DEF TypeOK, Request
    <3>3. binding'[x] = u /\ u # None  BY <1>0, <2>1, <3>1, NoneAssumption DEF TypeOK
    <3> QED  BY <2>1, <3>2, <3>3 DEF ToldIdentity
  <2> QED  BY <2>2, <2>3
<1>3. CASE EnsureReread(w)
  <2> DEFINE x == req[w].ext
  <2>1. x \in Externals /\ binding[x] # None
    BY <1>0, <1>3 DEF EnsureReread, At, Ready, ToldIdentity
  <2>2. q.step = "idle" /\ q.subj = binding[x] /\ q.ext = x
    BY <1>0, <1>3 DEF EnsureReread, TypeOK, Request
  <2> QED  BY <1>0, <2>1, <2>2 DEF ToldIdentity
<1>4. CASE IssueInsert(w) \/ RevokeWrite(w)
  BY <1>4, <1>a DEF IssueInsert, RevokeWrite
<1>5. CASE GrantInsert(w)
  <2>1. PICK answer \in GrantAnswer : Reply(w, answer)  BY <1>5, GrantReplies
  <2> QED  BY <1>a, <2>1 DEF GrantAnswer
<1>6. CASE RenewLoad(w)  BY <1>6, <1>m DEF RenewLoad
<1>7. CASE RenewClassify(w)  BY <1>7, <1>a DEF RenewClassify
<1>8. CASE RenewTransaction(w)  BY <1>8, <1>a, MetadataAnswers DEF RenewTransaction
<1>9. CASE AuthClock(w)
  <2>1. CASE policy = NoPolicy  BY <1>9, <1>n, <2>1 DEF AuthClock
  <2>2. CASE policy # NoPolicy
    <3>1. /\ q.step = "auth_metadata" /\ q.outcome = req[w].outcome
          /\ q.ext = req[w].ext /\ q.subj = req[w].subj
      BY <1>0, <1>9, <2>2 DEF AuthClock, TypeOK, Request
    <3> QED  BY <1>0, <3>1 DEF ToldIdentity
  <2> QED  BY <2>1, <2>2
<1>10. CASE AuthMetadata(w)
  BY <1>10, <1>a, <1>m, <1>n, MetadataAnswers DEF AuthMetadata
<1>11. CASE AuthPolicy(w)  BY <1>11, <1>n DEF AuthPolicy
<1> QED  BY <1>1, <1>2, <1>3, <1>4, <1>5, <1>6, <1>7, <1>8, <1>9, <1>10, <1>11 DEF Handler


-----------------------------------------------------------------------------
(* Assertions in the making. BoundBy is what AssertionBounded says of a    *)
(* deadline; it holds from the first read on, because the ceiling of a     *)
(* stored session never moves. Of a session that was already revoked when  *)
(* the clock was read, the handler will find that out at its next read.    *)

Authenticating == {"auth_clock", "auth_metadata", "auth_policy"}

BoundBy(q) ==
  LET s == q.sess
  IN /\ s \in Sessions /\ Stored(s) /\ q.bound <= Ceiling(s)
     /\ HasParent(s) => q.bound <= Ceiling(session[s].parent)

Begun(q) == q.open \/ session[q.sess].revoked

Assertion(q) ==
  /\ q.step # "idle" => q.outcome # "accepted"
  /\ q.step \in Authenticating => BoundBy(q) /\ Owns(q.sess, q.cred)
  /\ q.step = "auth_metadata" => Begun(q)
  /\ q.step = "auth_policy" => q.open
  /\ q.outcome = "accepted" =>
       /\ BoundBy(q) /\ q.stamp < q.bound
       /\ policy # NoPolicy => q.open

(* A stored session's digests stay its own, and its revocation stands.     *)
LEMMA OwnsKept ==
  ASSUME Tables, TableStep, NEW s \in Sessions, NEW d \in Digests, Owns(s, d)
  PROVE  Owns(s, d)'
<1>0. TypeOK /\ HistoryStored /\ CredentialLedger /\ d # None
  BY NoneAssumption DEF Tables, Typed
<1>1. Stored(s)  BY <1>0 DEF Owns, Stored, HistoryStored
<1>r. ASSUME NEW S, Revoke(S), rotation' = rotation  PROVE Owns(s, d)'
  BY <1>0, <1>r, RevokeKeeps DEF Owns
<1>u. ASSUME session'[s] = session[s], rotation' = rotation  PROVE Owns(s, d)'
  BY <1>u DEF Owns
<1>2. ASSUME NEW t \in Sessions, NEW e \in Digests, NEW row \in SessionRow,
             InsertedRoot(t, e, row) \/ InsertedChild(t, e, row)
      PROVE  Owns(s, d)'
  <2>1. Inserted(t, e, row) /\ s # t
    BY <1>1, <1>2 DEF InsertedRoot, InsertedChild, Inserted
  <2> QED  BY <1>u, <2>1, InsertKeeps DEF Inserted
<1>3. ASSUME NEW t \in Sessions, NEW e \in Digests, NEW fresh \in Digests,
             Rotated(t, e, fresh)
      PROVE  Owns(s, d)'
  <2>1. /\ session[t].digest = e
        /\ s # t => session'[s] = session[s]
    BY <1>3, RotateKeeps
  <2>2. rotation'[e] = t /\ \A c \in Digests : c # e => rotation'[c] = rotation[c]
    BY <1>0, <1>3 DEF Rotated, Rotate, TypeOK
  <2>3. CASE d = e
    <3>1. s = t  BY <1>0, <2>1, <2>3 DEF CredentialLedger, Owns
    <3> QED  BY <2>2, <2>3, <3>1 DEF Owns
  <2>4. CASE d # e  BY <2>1, <2>2, <2>4 DEF Owns
  <2> QED  BY <2>3, <2>4
<1>4. ASSUME NEW S \in SUBSET Sessions, Revoked(S)  PROVE Owns(s, d)'
  BY <1>4, <1>r DEF Revoked
<1>5. ASSUME NEW u \in Subjects, NEW row \in SubjectRow, Restated(u, row)
      PROVE  Owns(s, d)'
  BY <1>5, <1>r, <1>u DEF Restated
<1> QED  BY <1>u, <1>2, <1>3, <1>4, <1>5 DEF TableStep, Still, tables, Enrolled

LEMMA RevocationStands ==
  ASSUME Tables, TableStep, NEW s \in Sessions, Stored(s), session[s].revoked
  PROVE  session'[s].revoked
<1>1. Kept(s)  BY StoredKept
<1> QED  BY <1>1 DEF Kept

LEMMA BoundKept ==
  ASSUME Tables, TableStep, NEW q \in Request, BoundBy(q)
  PROVE  BoundBy(q)'
<1> DEFINE s == q.sess
<1>0. TypeOK /\ NarrowRows  BY DEF Tables, Typed
<1>1. s \in Sessions /\ Stored(s) /\ q.bound <= Ceiling(s)  BY DEF BoundBy
<1>2. Kept(s) /\ Ceiling(s)' = Ceiling(s)  BY <1>1, StoredKept, CeilingKept
<1>3. ASSUME HasParent(s)'
      PROVE  q.bound <= Ceiling(session[s].parent)'
  <2>1. session'[s].parent = session[s].parent /\ HasParent(s)
    BY <1>2, <1>3 DEF Kept, HasParent
  <2>2. session[s].parent \in Sessions
    BY <1>0, <1>1, <2>1 DEF TypeOK, SessionRow, HasParent
  <2>3. Stored(session[s].parent)  BY <1>0, <1>1, <2>1 DEF NarrowRows
  <2>4. PICK p \in Sessions : p = session[s].parent  BY <2>2
  <2>5. Ceiling(p)' = Ceiling(p)  BY <2>3, <2>4, StoredKept, CeilingKept
  <2>6. q.bound <= Ceiling(p)  BY <2>1, <2>4 DEF BoundBy
  <2> QED  BY <2>1, <2>4, <2>5, <2>6 DEF Ceiling
<1> QED  BY <1>1, <1>2, <1>3 DEF BoundBy, Kept, Stored

LEMMA BegunKept ==
  ASSUME Tables, TableStep, NEW q \in Request, BoundBy(q), Begun(q)
  PROVE  Begun(q)'
BY RevocationStands DEF BoundBy, Begun

LEMMA AssertionStays ==
  ASSUME Tables, TableStep, policy' = policy, NEW q \in Request, Ready(q, policy),
         Assertion(q), NEW b, b = q
  PROVE  Assertion(b)'
<1>1. q.step \in Authenticating => q.sess \in Sessions /\ q.cred \in Digests
  BY DEF Ready, Authenticating
<1>2. q.step \in Authenticating => BoundBy(q)' /\ Owns(q.sess, q.cred)'
  BY <1>1, BoundKept, OwnsKept DEF Assertion
<1>3. q.step = "auth_metadata" => Begun(q)'
  BY BegunKept DEF Assertion, Authenticating
<1>4. q.step = "auth_policy" => q.open
  BY DEF Assertion
<1>5. q.outcome = "accepted" =>
        BoundBy(q)' /\ q.stamp < q.bound /\ (policy' # NoPolicy => q.open)
  BY BoundKept DEF Assertion
<1>6. q.step # "idle" => q.outcome # "accepted"  BY DEF Assertion
<1> QED  BY <1>2, <1>3, <1>4, <1>5, <1>6 DEF Assertion

(* The credential of an authentication is its session's, so what the       *)
(* second classification says is about that session.                       *)
LEMMA MetadataOfOwner ==
  ASSUME Tables, NEW s \in Sessions, NEW d \in Digests, Owns(s, d)
  PROVE  /\ Holder(d) = s
         /\ Metadata(d) \in {"ok", "unsupported"} => ~session[s].revoked
<1>1. Known(d)  BY DEF Known
<1>2. Holder(d) = s  BY <1>1, HolderOwns DEF Tables, CredentialLedger
<1> QED  BY <1>2 DEF Metadata

LEMMA SignAsserts ==
  ASSUME Tables, NEW w \in Requests, req[w].step \in Authenticating, Assertion(req[w]),
         NEW e \in Nat, NEW stamp \in Nat, NEW open, Sign(w, e, stamp, open),
         UNCHANGED <<now, policy, tables>>, e <= req[w].bound,
         policy # NoPolicy => open, NEW q, q = req'[w]
  PROVE  Assertion(q)'
<1> DEFINE s == req[w].sess
<1>0. TypeOK /\ req[w] \in Request  BY DEF Tables, Typed, TypeOK
<1>1. /\ q.step = "idle" /\ q.sess = s /\ q.stamp = stamp
      /\ q.outcome = IF e <= stamp THEN "expired" ELSE "accepted"
      /\ q.bound = Least(e, stamp + AssertionTtl) /\ q.open = open
  BY <1>0, SignGives
<1>2. s \in Sessions /\ BoundBy(req[w])  BY DEF Assertion, BoundBy
<1>3. AssertionTtl \in Nat \ {0}  BY NumberAssumption
<1>4. q.bound \in Nat /\ q.bound <= e /\ (~(e <= stamp) => stamp < q.bound)
  BY <1>1, <1>3 DEF Least
<1>5. Ceiling(s) \in Nat /\ req[w].bound \in Nat
      /\ (HasParent(s) => Ceiling(session[s].parent) \in Nat)
  BY <1>0, <1>2 DEF TypeOK, SessionRow, Ceiling, HasParent, Request
<1>6. q.bound <= Ceiling(s) /\ (HasParent(s) => q.bound <= Ceiling(session[s].parent))
  BY <1>2, <1>4, <1>5 DEF BoundBy
<1>7. session' = session /\ now' = now /\ policy' = policy  BY DEF tables
<1>8. BoundBy(q)'
  BY <1>1, <1>2, <1>6, <1>7 DEF BoundBy, Stored, Ceiling, HasParent
<1>9. policy' # NoPolicy => q.open
  BY <1>1, <1>7
<1> QED  BY <1>1, <1>4, <1>8, <1>9 DEF Assertion, Authenticating

LEMMA LoadAsserts ==
  ASSUME Tables, NEW w \in Requests, NEW d \in Digests, AuthLoad(w, d),
         NEW q, q = req'[w]
  PROVE  Assertion(q)'
<1>0. TypeOK /\ NarrowRows /\ req[w] \in Request  BY DEF Tables, Typed, TypeOK
<1> DEFINE s == CHOOSE s \in Sessions : session[s].digest = d
           answer == IF \A t \in Sessions : session[t].digest # d THEN "invalid"
                     ELSE IF Disabled(session[s].owner) \/ LoadedRevoked(s)
                          THEN "revoked" ELSE "none"
           ask  == [Asked("authenticate", "auth_clock") EXCEPT
                      !.cred = d, !.sess = s, !.bound = LoadedExpiry(s)]
           told == [Asked("authenticate", "idle") EXCEPT !.cred = d, !.outcome = answer]
<1>1. Start(w, IF answer = "none" THEN ask ELSE told) /\ UNCHANGED <<now, policy, tables>>
  BY DEF AuthLoad
<1>2. q = IF answer = "none" THEN ask ELSE told
  BY <1>0, <1>1 DEF Start, TypeOK
<1>3. answer \in {"none", "invalid", "revoked"}  OBVIOUS
<1>4. CASE answer = "none"
  <2>1. s \in Sessions /\ session[s].digest = d  BY <1>4
  <2> HIDE DEF s, answer
  <2>2. q = ask  BY <1>2, <1>4
  <2>3. /\ q.step = "auth_clock" /\ q.outcome = "none" /\ q.cred = d
        /\ q.sess = s /\ q.bound = LoadedExpiry(s)
    BY <2>2 DEF Asked, Blank
  <2>4. LoadedExpiry(s) \in Nat /\ LoadedExpiry(s) <= session[s].expires
    BY <1>0, <2>1, LoadedFacts
  <2>5. session[s].expires \in Nat /\ Ceiling(s) \in Nat
    BY <1>0, <2>1 DEF TypeOK, SessionRow, Ceiling
  <2>6. LoadedExpiry(s) <= Ceiling(s)  BY <2>1, <2>4, <2>5, RowBoundCeiling
  <2>7. ASSUME HasParent(s)  PROVE LoadedExpiry(s) <= Ceiling(session[s].parent)
    <3>1. PICK p \in Sessions : p = session[s].parent
      BY <1>0, <2>1, <2>7 DEF TypeOK, SessionRow, HasParent
    <3>2. session[p].expires \in Nat /\ Ceiling(p) \in Nat
      BY <1>0 DEF TypeOK, SessionRow, Ceiling
    <3>3. LoadedExpiry(s) <= session[p].expires
      BY <2>5, <2>7, <3>1, <3>2 DEF LoadedExpiry, Least
    <3> QED  BY <2>4, <3>1, <3>2, <3>3, RowBoundCeiling
  <2>8. Stored(s)  BY <2>1, NoneAssumption DEF Stored
  <2>9. session' = session  BY <1>1 DEF tables
  <2>10. BoundBy(q)'
    BY <2>1, <2>3, <2>6, <2>7, <2>8, <2>9 DEF BoundBy, Stored, Ceiling, HasParent
  <2>11. Owns(q.sess, q.cred)'  BY <2>1, <2>3, <2>9 DEF Owns
  <2> QED  BY <2>3, <2>10, <2>11 DEF Assertion
<1>5. CASE answer # "none"
  <2> HIDE DEF s, answer
  <2>1. q.step = "idle" /\ q.outcome = answer  BY <1>2, <1>5 DEF Asked, Blank
  <2> QED  BY <1>3, <2>1 DEF Assertion, Authenticating
<1> QED  BY <1>4, <1>5

LEMMA PolicyStays ==
  ASSUME NEW w \in Requests, Call(w) \/ Handler(w)
  PROVE  policy' = policy
<1>1. CASE Call(w)
  <2>1. ASSUME NEW x \in Externals, EnsureRead(w, x)  PROVE policy' = policy
    BY <2>1 DEF EnsureRead
  <2>2. ASSUME NEW u \in Subjects, NEW l \in Lifetimes, IssueCheck(w, u, l)
        PROVE  policy' = policy
    BY <2>2 DEF IssueCheck
  <2>3. ASSUME NEW u \in Subjects, IssueManagedCheck(w, u)  PROVE policy' = policy
    BY <2>3 DEF IssueManagedCheck
  <2>4. ASSUME NEW d \in Digests, RenewMetadata(w, d) \/ AuthLoad(w, d)
        PROVE  policy' = policy
    BY <2>4 DEF RenewMetadata, AuthLoad
  <2>5. ASSUME NEW s \in Sessions, RevokeRead(w, s)  PROVE policy' = policy
    BY <2>5 DEF RevokeRead
  <2>6. ASSUME NEW d \in Digests, NEW l \in Lifetimes, GrantCheck(w, d, l)
        PROVE  policy' = policy
    BY <2>6 DEF GrantCheck
  <2> QED  BY <1>1, <2>1, <2>2, <2>3, <2>4, <2>5, <2>6 DEF Call
<1>2. CASE Handler(w)
  <2>1. CASE EnsureInsert(w) \/ EnsureReread(w) \/ IssueInsert(w) \/ RenewLoad(w)
    BY <2>1 DEF EnsureInsert, EnsureReread, IssueInsert, RenewLoad
  <2>2. CASE RenewClassify(w) \/ RenewTransaction(w) \/ RevokeWrite(w) \/ GrantInsert(w)
    BY <2>2 DEF RenewClassify, RenewTransaction, RevokeWrite, GrantInsert
  <2>3. CASE AuthClock(w) \/ AuthMetadata(w) \/ AuthPolicy(w)
    BY <2>3 DEF AuthClock, AuthMetadata, AuthPolicy
  <2> QED  BY <1>2, <2>1, <2>2, <2>3 DEF Handler
<1> QED  BY <1>1, <1>2

LEMMA AssertionStep ==
  ASSUME Tables, NEW w \in Requests, Assertion(req[w]), Call(w) \/ Handler(w), TableStep,
         NEW q, q = req'[w]
  PROVE  Assertion(q)'
<1>0. /\ TypeOK /\ req[w] \in Request /\ Ready(req[w], policy)
  BY DEF Tables, Typed, TypeOK
<1>i. ASSUME q.step \notin Authenticating, q.outcome # "accepted"  PROVE Assertion(q)'
  BY <1>i DEF Assertion, Authenticating
<1>s. ASSUME NEW asked, Start(w, asked)  PROVE q = asked
  BY <1>0, <1>s DEF Start, TypeOK
<1>a. ASSUME NEW answer, Reply(w, answer), answer # "accepted"  PROVE Assertion(q)'
  BY <1>0, <1>a, <1>i, ReplyGives DEF Authenticating
<1>g. ASSUME NEW step, Goto(w, step)
      PROVE  /\ q.step = step /\ q.outcome = req[w].outcome /\ q.cred = req[w].cred
             /\ q.sess = req[w].sess /\ q.stamp = req[w].stamp /\ q.bound = req[w].bound
             /\ q.open = req[w].open
  BY <1>0, <1>g DEF Goto, TypeOK, Request
<1>1. ASSUME Call(w)  PROVE Assertion(q)'
  <2>1. ASSUME NEW x \in Externals, EnsureRead(w, x)  PROVE Assertion(q)'
    <3>1. q.step \in {"ensure_insert", "idle"} /\ q.outcome \in {"none", "identity", "disabled"}
      BY ZenonT(60), <1>s, <2>1 DEF EnsureRead, Asked, Blank, Identity
    <3> QED  BY <1>i, <3>1 DEF Authenticating
  <2>2. ASSUME NEW d \in Digests, AuthLoad(w, d)  PROVE Assertion(q)'
    BY <2>2, LoadAsserts
  <2> QED  BY <1>0, <1>1, <1>i, <2>1, <2>2, OtherCalls DEF Authenticating
<1>2. ASSUME NEW step, Goto(w, step), step \notin Authenticating, req[w].step # "idle"
      PROVE  Assertion(q)'
  <2>1. req[w].outcome # "accepted"  BY <1>2 DEF Assertion
  <2> QED  BY <1>g, <1>i, <1>2, <2>1
<1>3. CASE EnsureInsert(w)
  <2>1. CASE Goto(w, "ensure_reread")
    BY <1>2, <1>3, <2>1 DEF EnsureInsert, At, Authenticating
  <2>2. CASE ~Goto(w, "ensure_reread")
    <3>1. PICK u \in Subjects :
            req' = [req EXCEPT ![w].step = "idle", ![w].outcome = "identity", ![w].subj = u]
      BY <1>3, <2>2 DEF EnsureInsert
    <3>2. q.step = "idle" /\ q.outcome = "identity"
      BY <1>0, <3>1 DEF TypeOK, Request
    <3> QED  BY <1>i, <3>2 DEF Authenticating
  <2> QED  BY <2>1, <2>2
<1>12. CASE EnsureReread(w)
  <2> DEFINE answer == Identity(req[w].ext).outcome
  <2>1. answer \in {"identity", "disabled"}  BY DEF Identity
  <2>2. req' = [req EXCEPT ![w].step = "idle", ![w].outcome = answer,
                           ![w].subj = binding[req[w].ext]]
    BY <1>12 DEF EnsureReread
  <2> HIDE DEF answer
  <2>3. q.step = "idle" /\ q.outcome = answer
    BY <1>0, <2>2 DEF TypeOK, Request
  <2> QED  BY <1>i, <2>1, <2>3 DEF Authenticating
<1>4. CASE IssueInsert(w) \/ RevokeWrite(w)
  BY <1>4, <1>a DEF IssueInsert, RevokeWrite
<1>5. CASE GrantInsert(w)
  <2>1. PICK answer \in GrantAnswer : Reply(w, answer)  BY <1>5, GrantReplies
  <2> QED  BY <1>a, <2>1 DEF GrantAnswer
<1>6. CASE RenewLoad(w)
  BY <1>2, <1>6 DEF RenewLoad, At, Authenticating
<1>7. CASE RenewClassify(w)  BY <1>7, <1>a DEF RenewClassify
<1>8. CASE RenewTransaction(w)  BY <1>8, <1>a, MetadataAnswers DEF RenewTransaction
<1>c. req[w].step \in Authenticating =>
        /\ req[w].sess \in Sessions /\ req[w].cred \in Digests
        /\ req[w].bound \in Nat /\ req[w].stamp \in Nat /\ now \in Nat
        /\ BoundBy(req[w]) /\ Owns(req[w].sess, req[w].cred)
        /\ req[w].outcome # "accepted"
  BY <1>0 DEF Assertion, Ready, Request, TypeOK, Authenticating
<1>9. CASE AuthClock(w)
  <2>0. req[w].step \in Authenticating /\ UNCHANGED <<now, policy, tables>>
    BY <1>9 DEF AuthClock, At, Authenticating
  <2>1. CASE policy = NoPolicy
    <3>1. Sign(w, req[w].bound, now, OpenNow(w))  BY <1>9, <2>1 DEF AuthClock
    <3> QED  BY <1>c, <2>0, <2>1, <3>1, SignAsserts
  <2>2. CASE policy # NoPolicy
    <3>1. /\ q.step = "auth_metadata" /\ q.outcome = req[w].outcome /\ q.stamp = now
          /\ q.sess = req[w].sess /\ q.cred = req[w].cred /\ q.bound = req[w].bound
          /\ q.open = OpenNow(w)
      BY <1>0, <1>9, <2>2 DEF AuthClock, TypeOK, Request
    <3>a. Begun(q)'
      BY <2>0, <3>1 DEF Begun, OpenNow, tables
    <3>2. BoundBy(q)' /\ Owns(q.sess, q.cred)'
      BY <1>c, <2>0, <3>1 DEF BoundBy, Owns, Stored, Ceiling, HasParent, tables
    <3> QED  BY <1>c, <2>0, <3>1, <3>a, <3>2 DEF Assertion
  <2> QED  BY <2>1, <2>2
<1>10. CASE AuthMetadata(w)
  <2> DEFINE d == req[w].cred
             s == req[w].sess
  <2>0. /\ req[w].step \in Authenticating /\ UNCHANGED <<now, policy, tables>>
        /\ Begun(req[w]) /\ policy # NoPolicy
    BY <1>0, <1>10 DEF AuthMetadata, At, Authenticating, Assertion, Ready
  <2>1. /\ Holder(d) = s
        /\ Metadata(d) \in {"ok", "unsupported"} => ~session[s].revoked
    BY <1>c, <2>0, MetadataOfOwner
  <2>2. CASE Metadata(d) = "ok"
    <3> DEFINE e == Least(req[w].bound, PolicyBound(s, policy))
    <3>1. Sign(w, e, req[w].stamp, req[w].open)  BY <1>10, <2>1, <2>2 DEF AuthMetadata
    <3>o. req[w].open  BY <2>0, <2>1, <2>2 DEF Begun
    <3>2. PolicyBound(s, policy) \in Nat  BY <1>0, <1>c, <2>0, BoundFacts
    <3>3. e \in Nat /\ e <= req[w].bound  BY <1>c, <2>0, <3>2, LeastFacts
    <3> QED  BY <1>c, <2>0, <3>1, <3>3, <3>o, SignAsserts
  <2>3. CASE Metadata(d) = "unsupported"
    <3>1. Goto(w, "auth_policy")  BY <1>10, <2>3 DEF AuthMetadata
    <3>2. /\ q.step = "auth_policy" /\ q.outcome = req[w].outcome /\ q.sess = s
          /\ q.stamp = req[w].stamp /\ q.cred = d /\ q.bound = req[w].bound
          /\ q.open = req[w].open
      BY <1>g, <3>1
    <3>3. BoundBy(q)' /\ Owns(q.sess, q.cred)'
      BY <1>c, <2>0, <3>2 DEF BoundBy, Owns, Stored, Ceiling, HasParent, tables
    <3>4. q.open
      BY <2>0, <2>1, <2>3, <3>2 DEF Begun
    <3> QED  BY <1>c, <2>0, <3>2, <3>3, <3>4 DEF Assertion
  <2>4. CASE Metadata(d) \notin {"ok", "unsupported"}
    BY <1>10, <1>a, <2>4, MetadataAnswers DEF AuthMetadata
  <2> QED  BY <2>2, <2>3, <2>4
<1>11. CASE AuthPolicy(w)
  <2> DEFINE e == Least(req[w].bound, EffectiveExpiry(req[w].sess))
  <2>0. /\ req[w].step \in Authenticating /\ UNCHANGED <<now, policy, tables>>
        /\ req[w].open
    BY <1>11 DEF AuthPolicy, At, Authenticating, Assertion
  <2>1. Sign(w, e, req[w].stamp, req[w].open)  BY <1>11 DEF AuthPolicy
  <2>2. EffectiveExpiry(req[w].sess) \in Nat  BY <1>0, <1>c, <2>0, EffectiveFacts
  <2>3. e \in Nat /\ e <= req[w].bound  BY <1>c, <2>0, <2>2, LeastFacts
  <2> QED  BY <1>c, <2>0, <2>1, <2>3, SignAsserts
<1> QED
  BY <1>1, <1>3, <1>4, <1>5, <1>6, <1>7, <1>8, <1>9, <1>10, <1>11, <1>12 DEF Handler

-----------------------------------------------------------------------------
(* Together they are inductive.                                            *)

Dealings ==
  /\ Tables /\ IdentityTables
  /\ \A r \in Requests : ToldIdentity(req[r]) /\ Assertion(req[r])

LEMMA BlankDealing ==
  ASSUME NEW q, q = Blank
  PROVE  ToldIdentity(q)' /\ Assertion(q)' /\ ToldIdentity(q) /\ Assertion(q)
<1>1. q.step = "idle" /\ q.outcome = "none"  BY DEF Blank
<1> QED  BY <1>1 DEF ToldIdentity, Assertion, Authenticating

LEMMA InitDealings == Init => Dealings
<1> SUFFICES ASSUME Init PROVE Dealings  OBVIOUS
<1>1. \A x \in Externals : binding[x] = None  BY DEF Init
<1>2. \A u \in Subjects : subject[u].status = "absent"  BY DEF Init
<1>3. IdentityTables  BY <1>1, <1>2 DEF IdentityTables
<1>4. ASSUME NEW r \in Requests  PROVE ToldIdentity(req[r]) /\ Assertion(req[r])
  <2>1. PICK q : q = req[r]  OBVIOUS
  <2>2. q = Blank  BY <2>1 DEF Init
  <2> QED  BY <2>1, <2>2, BlankDealing
<1> QED  BY <1>3, <1>4, InitTables DEF Dealings

LEMMA StepDealings == Dealings /\ [Next]_vars => Dealings'
<1> SUFFICES ASSUME Dealings, [Next]_vars PROVE Dealings'  OBVIOUS
<1>0. /\ Tables /\ TableStep /\ Tables' /\ TypeOK /\ IdentityTables /\ IdentityTables'
      /\ \A r \in Requests : req[r] \in Request /\ Ready(req[r], policy)
  BY BoxTableStep, StepTables, IdentityTablesStep DEF Dealings, Tables, Typed, TypeOK
<1>q. ASSUME NEW r \in Requests, req'[r] = req[r], policy' = policy
      PROVE  ToldIdentity(req[r])' /\ Assertion(req[r])'
  <2>1. PICK q : q = req[r]  OBVIOUS
  <2>2. q \in Request /\ Ready(q, policy) /\ ToldIdentity(q) /\ Assertion(q)
    BY <1>0, <2>1 DEF Dealings
  <2>3. ToldIdentity(q)'  BY <1>0, <2>2, ToldStays
  <2>4. Assertion(q)'  BY <1>0, <1>q, <2>2, AssertionStays
  <2>5. ToldIdentity(req[r])'  BY <1>q, <2>1, <2>3 DEF ToldIdentity
  <2>6. Assertion(req[r])'
    BY <1>q, <2>1, <2>4 DEF Assertion, Authenticating, BoundBy, Begun
  <2> QED  BY <2>5, <2>6
<1>k. ASSUME req' = req, policy' = policy  PROVE Dealings'
  BY <1>0, <1>k, <1>q DEF Dealings
<1>1. ASSUME NEW w \in Requests, Call(w) \/ Handler(w)  PROVE Dealings'
  <2>0. policy' = policy  BY <1>1, PolicyStays
  <2>1. \A r \in Requests : r # w => req'[r] = req[r]  BY <1>0, <1>1, OthersKeep
  <2>2. PICK q : q = req'[w]  OBVIOUS
  <2>3. ToldIdentity(q)' /\ Assertion(q)'
    BY <1>0, <1>1, <2>2, ToldStep, AssertionStep DEF Dealings
  <2>4. ToldIdentity(req[w])'  BY <2>2, <2>3 DEF ToldIdentity
  <2>5. Assertion(req[w])'
    BY <2>2, <2>3 DEF Assertion, Authenticating, BoundBy, Begun
  <2> QED  BY <1>0, <1>q, <2>0, <2>1, <2>4, <2>5 DEF Dealings
<1>2. CASE Restart
  <2>1. ASSUME NEW r \in Requests  PROVE ToldIdentity(req[r])' /\ Assertion(req[r])'
    <3>1. PICK q : q = req'[r]  OBVIOUS
    <3>2. q = Blank  BY <1>2, <3>1 DEF Restart
    <3>3. ToldIdentity(q)' /\ Assertion(q)'  BY <3>2, BlankDealing
    <3>4. ToldIdentity(req[r])'  BY <3>1, <3>3 DEF ToldIdentity
    <3>5. Assertion(req[r])'
      BY <3>1, <3>3 DEF Assertion, Authenticating, BoundBy, Begun
    <3> QED  BY <3>4, <3>5
  <2> QED  BY <1>0, <2>1 DEF Dealings
<1>3. CASE Administer
  BY <1>3, <1>k DEF Administer, RevokeCredential, Activate, DisableSubject, Disable
<1>4. CASE Tick  BY <1>4, <1>k DEF Tick
<1>5. CASE UNCHANGED vars  BY <1>5, <1>k DEF vars
<1> QED  BY <1>1, <1>2, <1>3, <1>4, <1>5 DEF Next

LEMMA DealingsAlways == Spec => []Dealings
BY InitDealings, StepDealings, PTL DEF Spec

(* However first logins of one identity race, all are told one subject,    *)
(* no subject is left without an identity, and none has two.               *)
THEOREM OneSubject == Spec => []OneSubjectPerIdentity
<1>1. Dealings => OneSubjectPerIdentity
  <2> SUFFICES ASSUME Dealings PROVE OneSubjectPerIdentity  OBVIOUS
  <2>1. \A r \in Requests : req[r].outcome = "identity" => req[r].subj = binding[req[r].ext]
    BY DEF Dealings, ToldIdentity
  <2> QED  BY <2>1 DEF Dealings, IdentityTables, OneSubjectPerIdentity
<1> QED  BY <1>1, DealingsAlways, PTL

(* No assertion outlives its session's ceiling or that of the parent,      *)
(* whatever is renewed or reconfigured while it is made.                   *)
THEOREM AssertionsStayBounded == Spec => []AssertionBounded
<1>1. Dealings => AssertionBounded
  BY DEF Dealings, Assertion, BoundBy, AssertionBounded
<1> QED  BY <1>1, DealingsAlways, PTL

(* With managed sessions on, no assertion begins after its session was     *)
(* revoked: the clock is read before the row is read again.                *)
THEOREM NoneAfterRevocation == Spec => []NoAssertionAfterRevocation
<1>1. Dealings => NoAssertionAfterRevocation
  BY DEF Dealings, Assertion, Begun, NoAssertionAfterRevocation
<1> QED  BY <1>1, DealingsAlways, PTL
=============================================================================
