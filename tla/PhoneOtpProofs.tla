---------------------------- MODULE PhoneOtpProofs ----------------------------
(***************************************************************************)
(* Proofs about PhoneOtp, for all sets of phones, sources and handlers,    *)
(* any limits and any window. The challenges that can be drawn are a       *)
(* finite set, because they are counted.                                   *)
(***************************************************************************)
EXTENDS PhoneOtp, FiniteSetTheorems, TLAPS

-----------------------------------------------------------------------------
(* The inductive invariant.                                                *)

Counting == {"count", "insert"}
Past     == {"ensure", "bind", "issue"}

(* What a handler knows at each of its steps.                              *)
Handlers ==
  \A r \in Requests :
    /\ req[r].step \in {"begin", "phone", "source"} \cup Counting =>
         req[r].phone \in Phones /\ req[r].source \in Sources /\ req[r].from <= now
    /\ req[r].step \in {"phone", "source"} \cup Counting =>
         req[r].from <= req[r].at /\ req[r].at <= now
    /\ req[r].step \in {"send", "delete", "consume", "verify"} \cup Past => req[r].id \in Challenges
    /\ req[r].step \in {"consume", "verify"} => req[r].at <= now
    /\ req[r].step \in Past => req[r].phone \in Phones

Rows ==
  \A c \in Challenges :
    /\ c \in Stored => challenge[c].phone \in Phones
    /\ challenge[c].consumed # Never => challenge[c].consumed < challenge[c].expires

(* The lock of a source: one start counts at a time.                       *)
SourceLock ==
  \A r \in Requests, q \in Requests :
    req[r].step \in Counting /\ req[q].step \in Counting /\ req[r].source = req[q].source => r = q

(* The lock of a row: one verification decides at a time, on what is there.*)
RowLock ==
  \A r \in Requests : At(r, "verify") =>
    /\ \A q \in Requests : At(q, "verify") /\ req[q].id = req[r].id => q = r
    /\ req[r].id \in Stored /\ req[r].row = challenge[req[r].id]

(* Between its count and its insertion, the count of a start still holds.  *)
Counted ==
  \A r \in Requests : At(r, "insert") =>
    Cardinality(Recent(req[r].source, req[r].from - Window)) < MaxStarts

(* A challenge that was passed or was worth its session is shut.           *)
Shut(c) == challenge[c].state = "deleted" \/ challenge[c].consumed # Never

PassedOnce ==
  /\ \A r \in Requests : req[r].step \in Past =>
       /\ Shut(req[r].id) /\ challenge[req[r].id].state # "absent" /\ issued[req[r].id] = 0
       /\ \A q \in Requests : req[q].step \in Past /\ req[q].id = req[r].id => q = r
  /\ \A c \in Challenges :
       issued[c] # 0 => issued[c] = 1 /\ Shut(c) /\ challenge[c].state # "absent"

Inv == TypeOK /\ Handlers /\ Rows /\ SourceLock /\ RowLock /\ Counted /\ PassedOnce /\ StartLimit

-----------------------------------------------------------------------------
(* Counting.                                                               *)

Started(s, from) == {c \in Recent(s, from) : challenge[c].created <= from + Window}

LEMMA BlankTyped == Blank \in Request
BY DEF Blank, Request, Steps, NoChallenge, Challenge

LEMMA RecentFinite ==
  ASSUME NEW s, NEW w
  PROVE  IsFiniteSet(Recent(s, w)) /\ Cardinality(Recent(s, w)) \in Nat
<1>1. Recent(s, w) \subseteq Challenges  BY DEF Recent, Stored
<1> QED  BY <1>1, FiniteAssumption, FS_Subset, FS_CardinalityType

LEMMA StartedFinite ==
  ASSUME NEW s, NEW w
  PROVE  IsFiniteSet(Started(s, w)) /\ Cardinality(Started(s, w)) \in Nat
<1>1. Started(s, w) \subseteq Challenges  BY DEF Started, Recent, Stored
<1> QED  BY <1>1, FiniteAssumption, FS_Subset, FS_CardinalityType

(* No step but an insertion adds to what is counted.                       *)
Fewer ==
  \A c \in Challenges : c \in Stored' =>
    c \in Stored /\ challenge'[c].created = challenge[c].created /\ challenge'[c].source = challenge[c].source

LEMMA FewerRecent ==
  ASSUME Fewer, NEW s, NEW w
  PROVE  Cardinality(Recent(s, w)') <= Cardinality(Recent(s, w)) /\ Cardinality(Recent(s, w)') \in Nat
<1>1. Recent(s, w)' \subseteq Recent(s, w)  BY DEF Fewer, Recent, Stored
<1>2. IsFiniteSet(Recent(s, w))  BY RecentFinite
<1>3. IsFiniteSet(Recent(s, w)') /\ Cardinality(Recent(s, w)') <= Cardinality(Recent(s, w))
  BY <1>1, <1>2, FS_Subset
<1> QED  BY <1>3, FS_CardinalityType

LEMMA FewerStarted ==
  ASSUME Fewer, StartLimit
  PROVE  StartLimit'
<1> SUFFICES ASSUME NEW s \in Sources, NEW w \in -Window .. MaxTime
             PROVE  Cardinality(Started(s, w)') <= MaxStarts
  BY DEF StartLimit, Started
<1>1. Started(s, w)' \subseteq Started(s, w)  BY DEF Fewer, Started, Recent, Stored
<1>2. IsFiniteSet(Started(s, w)) /\ Cardinality(Started(s, w)) \in Nat  BY StartedFinite
<1>3. IsFiniteSet(Started(s, w)') /\ Cardinality(Started(s, w)') <= Cardinality(Started(s, w))
  BY <1>1, <1>2, FS_Subset
<1>4. Cardinality(Started(s, w)') \in Nat  BY <1>3, FS_CardinalityType
<1>5. Cardinality(Started(s, w)) <= MaxStarts  BY DEF StartLimit, Started
<1> QED  BY <1>2, <1>3, <1>4, <1>5, LimitAssumption

LEMMA FewerCounted ==
  ASSUME Inv, Fewer,
         \A p \in Requests : req'[p].step = "insert" =>
           req[p].step = "insert" /\ req'[p].source = req[p].source /\ req'[p].from = req[p].from
  PROVE  Counted'
<1> SUFFICES ASSUME NEW p \in Requests, NEW s, NEW w, req'[p].step = "insert",
                    s = req'[p].source, w = req'[p].from - Window
             PROVE  Cardinality(Recent(s, w)') < MaxStarts
  BY DEF Counted, At, Recent
<1>1. Cardinality(Recent(s, w)) < MaxStarts  BY DEF Inv, Counted, At
<1>2. Cardinality(Recent(s, w)) \in Nat  BY RecentFinite
<1>3. Cardinality(Recent(s, w)') <= Cardinality(Recent(s, w)) /\ Cardinality(Recent(s, w)') \in Nat
  BY FewerRecent
<1> QED  BY <1>1, <1>2, <1>3, LimitAssumption

-----------------------------------------------------------------------------
(* Each action keeps the invariant.                                        *)

LEMMA StartOtpKeeps ==
  ASSUME Inv,
         NEW r \in Requests,
         NEW p \in Phones,
         NEW s \in Sources,
         StartOtp(r, p, s)
  PROVE  Inv'
<1> USE DEF StartOtp, At, Goto, End, Counting, Past
<1>0. TypeOK /\ Handlers  BY DEF Inv
<1>n. now \in Nat  BY <1>0, LimitAssumption DEF TypeOK
<1>q. /\ \A q \in Requests : q # r => req'[q] = req[q]
      /\ req' \in [Requests -> Request]
      /\ req[r] \in Request
      /\ req'[r].step = "begin" /\ req'[r].phone = p /\ req'[r].source = s /\ req'[r].from = now
      /\ now \in Nat
  BY <1>0, BlankTyped, <1>n, LimitAssumption DEF TypeOK, Handlers, Blank, Request, Steps
<1>f. Fewer
  BY <1>0, <1>q DEF Fewer, Stored, TypeOK
<1>1. TypeOK'
  BY <1>0, <1>q, LimitAssumption, BlankTyped
  DEF Inv, TypeOK, Handlers, Request, Steps, Challenge
<1>2. Handlers'
  BY <1>0, <1>q
  DEF Inv, TypeOK, Handlers, Blank, Request
<1>3. Rows'
  BY <1>0, <1>q
  DEF Inv, TypeOK, Handlers, Rows, Stored
<1>4. SourceLock'
  BY <1>0, <1>q
  DEF Inv, TypeOK, Handlers, SourceLock, Blank
<1>5. RowLock'
  BY <1>0, <1>q
  DEF Inv, TypeOK, Handlers, RowLock, Blank, Stored
<1>6. Counted'
  <2>1. \A h \in Requests : req'[h].step = "insert" =>
          req[h].step = "insert" /\ req'[h].source = req[h].source /\ req'[h].from = req[h].from
    BY <1>0, <1>q DEF TypeOK, Blank
  <2> QED  BY <1>f, <2>1, FewerCounted
<1>7. PassedOnce'
  BY <1>0, <1>q
  DEF Inv, TypeOK, Handlers, PassedOnce, Blank, Shut, Stored
<1>8. StartLimit'
  BY <1>f, FewerStarted DEF Inv
<1> QED  BY <1>1, <1>2, <1>3, <1>4, <1>5, <1>6, <1>7, <1>8 DEF Inv

LEMMA BeginKeeps ==
  ASSUME Inv,
         NEW r \in Requests,
         Begin(r)
  PROVE  Inv'
<1> USE DEF Begin, At, Goto, End, Counting, Past
<1>0. TypeOK /\ Handlers  BY DEF Inv
<1>q. /\ \A q \in Requests : q # r => req'[q] = req[q]
      /\ req' \in [Requests -> Request]
      /\ req[r] \in Request
      /\ req'[r].step = "phone" /\ req'[r].phone = req[r].phone /\ req'[r].source = req[r].source /\ req'[r].id = req[r].id
      /\ req'[r].from = req[r].from /\ req'[r].at = now /\ req'[r].right = req[r].right /\ req'[r].row = req[r].row
  <2> DEFINE v == [[req[r] EXCEPT !.step = "phone"] EXCEPT !.at = now]
  <2>1. req \in [Requests -> Request] /\ req[r] \in Request /\ now \in Nat
    BY <1>0, LimitAssumption DEF TypeOK, Handlers
  <2>2. /\ v \in Request
        /\ v.step = "phone" /\ v.phone = req[r].phone /\ v.source = req[r].source /\ v.id = req[r].id
        /\ v.from = req[r].from /\ v.at = now /\ v.right = req[r].right /\ v.row = req[r].row
    BY <2>1 DEF Request, Steps
  <2>3. req' = [req EXCEPT ![r] = v]
    BY <2>1 DEF Request
  <2> HIDE DEF v
  <2> QED  BY <2>1, <2>2, <2>3
<1>f. Fewer
  BY <1>0, <1>q DEF Fewer, Stored, TypeOK
<1>1. TypeOK'
  BY <1>0, <1>q, LimitAssumption, BlankTyped
  DEF Inv, TypeOK, Handlers, Request, Steps, Challenge
<1>2. Handlers'
  BY <1>0, <1>q
  DEF Inv, TypeOK, Handlers, Blank, Request
<1>3. Rows'
  BY <1>0, <1>q
  DEF Inv, TypeOK, Handlers, Rows, Stored
<1>4. SourceLock'
  BY <1>0, <1>q
  DEF Inv, TypeOK, Handlers, SourceLock, Blank
<1>5. RowLock'
  BY <1>0, <1>q
  DEF Inv, TypeOK, Handlers, RowLock, Blank, Stored
<1>6. Counted'
  <2>1. \A p \in Requests : req'[p].step = "insert" =>
          req[p].step = "insert" /\ req'[p].source = req[p].source /\ req'[p].from = req[p].from
    BY <1>0, <1>q DEF TypeOK, Blank
  <2> QED  BY <1>f, <2>1, FewerCounted
<1>7. PassedOnce'
  BY <1>0, <1>q
  DEF Inv, TypeOK, Handlers, PassedOnce, Blank, Shut, Stored
<1>8. StartLimit'
  BY <1>f, FewerStarted DEF Inv
<1> QED  BY <1>1, <1>2, <1>3, <1>4, <1>5, <1>6, <1>7, <1>8 DEF Inv

LEMMA LockPhoneKeeps ==
  ASSUME Inv,
         NEW r \in Requests,
         LockPhone(r)
  PROVE  Inv'
<1> USE DEF LockPhone, At, Goto, End, Counting, Past
<1>0. TypeOK /\ Handlers  BY DEF Inv
<1>q. /\ \A q \in Requests : q # r => req'[q] = req[q]
      /\ req' \in [Requests -> Request]
      /\ req[r] \in Request
      /\ req'[r].step = "source" /\ req'[r].phone = req[r].phone /\ req'[r].source = req[r].source /\ req'[r].id = req[r].id
      /\ req'[r].from = req[r].from /\ req'[r].at = req[r].at /\ req'[r].right = req[r].right /\ req'[r].row = req[r].row
  <2> DEFINE v == [req[r] EXCEPT !.step = "source"]
  <2>1. req \in [Requests -> Request] /\ req[r] \in Request
    BY <1>0 DEF TypeOK, Handlers
  <2>2. /\ v \in Request
        /\ v.step = "source" /\ v.phone = req[r].phone /\ v.source = req[r].source /\ v.id = req[r].id
        /\ v.from = req[r].from /\ v.at = req[r].at /\ v.right = req[r].right /\ v.row = req[r].row
    BY <2>1 DEF Request, Steps
  <2>3. req' = [req EXCEPT ![r] = v]
    BY <2>1 DEF Request
  <2> HIDE DEF v
  <2> QED  BY <2>1, <2>2, <2>3
<1>f. Fewer
  BY <1>0, <1>q DEF Fewer, Stored, TypeOK
<1>1. TypeOK'
  BY <1>0, <1>q, LimitAssumption, BlankTyped
  DEF Inv, TypeOK, Handlers, Request, Steps, Challenge
<1>2. Handlers'
  BY <1>0, <1>q
  DEF Inv, TypeOK, Handlers, Blank, Request
<1>3. Rows'
  BY <1>0, <1>q
  DEF Inv, TypeOK, Handlers, Rows, Stored
<1>4. SourceLock'
  BY <1>0, <1>q
  DEF Inv, TypeOK, Handlers, SourceLock, Blank
<1>5. RowLock'
  BY <1>0, <1>q
  DEF Inv, TypeOK, Handlers, RowLock, Blank, Stored
<1>6. Counted'
  <2>1. \A p \in Requests : req'[p].step = "insert" =>
          req[p].step = "insert" /\ req'[p].source = req[p].source /\ req'[p].from = req[p].from
    BY <1>0, <1>q DEF TypeOK, Blank
  <2> QED  BY <1>f, <2>1, FewerCounted
<1>7. PassedOnce'
  BY <1>0, <1>q
  DEF Inv, TypeOK, Handlers, PassedOnce, Blank, Shut, Stored
<1>8. StartLimit'
  BY <1>f, FewerStarted DEF Inv
<1> QED  BY <1>1, <1>2, <1>3, <1>4, <1>5, <1>6, <1>7, <1>8 DEF Inv

LEMMA LockSourceKeeps ==
  ASSUME Inv,
         NEW r \in Requests,
         LockSource(r)
  PROVE  Inv'
<1> USE DEF LockSource, At, Goto, End, Counting, Past
<1>0. TypeOK /\ Handlers  BY DEF Inv
<1>q. /\ \A q \in Requests : q # r => req'[q] = req[q]
      /\ req' \in [Requests -> Request]
      /\ req[r] \in Request
      /\ req'[r].step = "count" /\ req'[r].phone = req[r].phone /\ req'[r].source = req[r].source /\ req'[r].id = req[r].id
      /\ req'[r].from = req[r].from /\ req'[r].at = req[r].at /\ req'[r].right = req[r].right /\ req'[r].row = req[r].row
  <2> DEFINE v == [req[r] EXCEPT !.step = "count"]
  <2>1. req \in [Requests -> Request] /\ req[r] \in Request
    BY <1>0 DEF TypeOK, Handlers
  <2>2. /\ v \in Request
        /\ v.step = "count" /\ v.phone = req[r].phone /\ v.source = req[r].source /\ v.id = req[r].id
        /\ v.from = req[r].from /\ v.at = req[r].at /\ v.right = req[r].right /\ v.row = req[r].row
    BY <2>1 DEF Request, Steps
  <2>3. req' = [req EXCEPT ![r] = v]
    BY <2>1 DEF Request
  <2> HIDE DEF v
  <2> QED  BY <2>1, <2>2, <2>3
<1>f. Fewer
  BY <1>0, <1>q DEF Fewer, Stored, TypeOK
<1>1. TypeOK'
  BY <1>0, <1>q, LimitAssumption, BlankTyped
  DEF Inv, TypeOK, Handlers, Request, Steps, Challenge
<1>2. Handlers'
  BY <1>0, <1>q
  DEF Inv, TypeOK, Handlers, Blank, Request
<1>3. Rows'
  BY <1>0, <1>q
  DEF Inv, TypeOK, Handlers, Rows, Stored
<1>4. SourceLock'
  BY <1>0, <1>q
  DEF Inv, TypeOK, Handlers, SourceLock, Blank
<1>5. RowLock'
  BY <1>0, <1>q
  DEF Inv, TypeOK, Handlers, RowLock, Blank, Stored
<1>6. Counted'
  <2>1. \A p \in Requests : req'[p].step = "insert" =>
          req[p].step = "insert" /\ req'[p].source = req[p].source /\ req'[p].from = req[p].from
    BY <1>0, <1>q DEF TypeOK, Blank
  <2> QED  BY <1>f, <2>1, FewerCounted
<1>7. PassedOnce'
  BY <1>0, <1>q
  DEF Inv, TypeOK, Handlers, PassedOnce, Blank, Shut, Stored
<1>8. StartLimit'
  BY <1>f, FewerStarted DEF Inv
<1> QED  BY <1>1, <1>2, <1>3, <1>4, <1>5, <1>6, <1>7, <1>8 DEF Inv

LEMMA CountedKeeps ==
  ASSUME Inv,
         NEW r \in Requests,
         At(r, "count"),
         Goto(r, "insert"),
         Cardinality(Recent(req[r].source, req[r].from - Window)) < MaxStarts,
         UNCHANGED <<now, challenge, identities, issued>>
  PROVE  Inv'
<1> USE DEF At, Goto, End, Counting, Past
<1>0. TypeOK /\ Handlers  BY DEF Inv
<1>q. /\ \A q \in Requests : q # r => req'[q] = req[q]
      /\ req' \in [Requests -> Request]
      /\ req[r] \in Request
      /\ req'[r].step = "insert" /\ req'[r].phone = req[r].phone /\ req'[r].source = req[r].source /\ req'[r].id = req[r].id
      /\ req'[r].from = req[r].from /\ req'[r].at = req[r].at /\ req'[r].right = req[r].right /\ req'[r].row = req[r].row
  <2> DEFINE v == [req[r] EXCEPT !.step = "insert"]
  <2>1. req \in [Requests -> Request] /\ req[r] \in Request
    BY <1>0 DEF TypeOK, Handlers
  <2>2. /\ v \in Request
        /\ v.step = "insert" /\ v.phone = req[r].phone /\ v.source = req[r].source /\ v.id = req[r].id
        /\ v.from = req[r].from /\ v.at = req[r].at /\ v.right = req[r].right /\ v.row = req[r].row
    BY <2>1 DEF Request, Steps
  <2>3. req' = [req EXCEPT ![r] = v]
    BY <2>1 DEF Request
  <2> HIDE DEF v
  <2> QED  BY <2>1, <2>2, <2>3
<1>f. Fewer
  BY <1>0, <1>q DEF Fewer, Stored, TypeOK
<1>1. TypeOK'
  BY <1>0, <1>q, LimitAssumption, BlankTyped
  DEF Inv, TypeOK, Handlers, Request, Steps, Challenge
<1>2. Handlers'
  BY <1>0, <1>q
  DEF Inv, TypeOK, Handlers, Blank, Request
<1>3. Rows'
  BY <1>0, <1>q
  DEF Inv, TypeOK, Handlers, Rows, Stored
<1>4. SourceLock'
  BY <1>0, <1>q
  DEF Inv, TypeOK, Handlers, SourceLock, Blank
<1>5. RowLock'
  BY <1>0, <1>q
  DEF Inv, TypeOK, Handlers, RowLock, Blank, Stored
<1>6. Counted'
  <2> SUFFICES ASSUME NEW p \in Requests, req'[p].step = "insert",
                      NEW s, s = req'[p].source, NEW w, w = req'[p].from - Window
               PROVE  Cardinality(Recent(s, w)') < MaxStarts
    BY DEF Counted, Recent
  <2>1. Recent(s, w)' = Recent(s, w)  BY DEF Recent, Stored
  <2>2. CASE p = r  BY <1>q, <2>1, <2>2
  <2>3. CASE p # r  BY <1>q, <2>1, <2>3 DEF Inv, Counted
  <2> QED  BY <2>2, <2>3
<1>7. PassedOnce'
  BY <1>0, <1>q
  DEF Inv, TypeOK, Handlers, PassedOnce, Blank, Shut, Stored
<1>8. StartLimit'
  BY <1>f, FewerStarted DEF Inv
<1> QED  BY <1>1, <1>2, <1>3, <1>4, <1>5, <1>6, <1>7, <1>8 DEF Inv

LEMMA EndKeeps ==
  ASSUME Inv,
         NEW r \in Requests,
         End(r),
         UNCHANGED <<now, challenge, identities, issued>>
  PROVE  Inv'
<1> USE DEF At, Goto, End, Counting, Past
<1>0. TypeOK /\ Handlers  BY DEF Inv
<1>q. /\ \A q \in Requests : q # r => req'[q] = req[q]
      /\ req' \in [Requests -> Request]
      /\ req[r] \in Request
      /\ req'[r].step = "idle"
  BY <1>0, BlankTyped DEF TypeOK, Handlers, Blank, Request, Steps
<1>f. Fewer
  BY <1>0, <1>q DEF Fewer, Stored, TypeOK
<1>1. TypeOK'
  BY <1>0, <1>q, LimitAssumption, BlankTyped
  DEF Inv, TypeOK, Handlers, Request, Steps, Challenge
<1>2. Handlers'
  BY <1>0, <1>q
  DEF Inv, TypeOK, Handlers, Blank, Request
<1>3. Rows'
  BY <1>0, <1>q
  DEF Inv, TypeOK, Handlers, Rows, Stored
<1>4. SourceLock'
  BY <1>0, <1>q
  DEF Inv, TypeOK, Handlers, SourceLock, Blank
<1>5. RowLock'
  BY <1>0, <1>q
  DEF Inv, TypeOK, Handlers, RowLock, Blank, Stored
<1>6. Counted'
  <2>1. \A p \in Requests : req'[p].step = "insert" =>
          req[p].step = "insert" /\ req'[p].source = req[p].source /\ req'[p].from = req[p].from
    BY <1>0, <1>q DEF TypeOK, Blank
  <2> QED  BY <1>f, <2>1, FewerCounted
<1>7. PassedOnce'
  BY <1>0, <1>q
  DEF Inv, TypeOK, Handlers, PassedOnce, Blank, Shut, Stored
<1>8. StartLimit'
  BY <1>f, FewerStarted DEF Inv
<1> QED  BY <1>1, <1>2, <1>3, <1>4, <1>5, <1>6, <1>7, <1>8 DEF Inv

(* An insertion: the windows the new challenge falls into were counted by  *)
(* its start, and nobody else counts for its source meanwhile.             *)
LEMMA InsertedKeeps ==
  ASSUME Inv, NEW r \in Requests, NEW c \in Challenges, At(r, "insert"), challenge[c].state = "absent",
         challenge' = [challenge EXCEPT ![c] =
           [NoChallenge EXCEPT !.state = "stored", !.phone = req[r].phone,
              !.source = req[r].source, !.created = req[r].at,
              !.expires = req[r].from + Ttl, !.resend = req[r].from + Cooldown]],
         req' = [req EXCEPT ![r] = [Blank EXCEPT !.step = "send", !.id = c]],
         UNCHANGED <<now, identities, issued>>
  PROVE  Inv'
<1> DEFINE s == req[r].source
           t == req[r].at
           n == [NoChallenge EXCEPT !.state = "stored", !.phone = req[r].phone,
                   !.source = req[r].source, !.created = req[r].at,
                   !.expires = req[r].from + Ttl, !.resend = req[r].from + Cooldown]
<1> USE DEF At, Counting, Past
<1>0. TypeOK /\ Handlers  BY DEF Inv
<1>q. /\ \A q \in Requests : q # r => req'[q] = req[q]
      /\ req' \in [Requests -> Request] /\ req'[r].step = "send" /\ req'[r].id = c
  BY <1>0, BlankTyped DEF TypeOK, Handlers, Blank, Request, Steps
<1>h. /\ s \in Sources /\ req[r].phone \in Phones
      /\ t \in Nat /\ req[r].from \in Nat /\ req[r].from <= t /\ t <= now /\ now \in Nat
  BY <1>0, LimitAssumption DEF TypeOK, Handlers, Request
<1>n. /\ n \in Challenge
      /\ n.state = "stored" /\ n.phone = req[r].phone /\ n.source = s /\ n.created = t
      /\ n.attempts = 0 /\ n.consumed = Never
  <2>1. req[r].from + Ttl \in Nat /\ req[r].from + Cooldown \in Nat
    BY <1>h, LimitAssumption
  <2>2. n \in Challenge
    <3>1. NoChallenge \in Challenge  BY DEF NoChallenge, Challenge
    <3> QED  BY <1>h, <2>1, <3>1 DEF Challenge
  <2>3. /\ n.state = "stored" /\ n.phone = req[r].phone /\ n.source = s /\ n.created = t
        /\ n.attempts = 0 /\ n.consumed = Never
    BY DEF NoChallenge
  <2> QED  BY <2>2, <2>3
<1>c. /\ challenge' \in [Challenges -> Challenge]
      /\ challenge'[c] = n
      /\ \A d \in Challenges : d # c => challenge'[d] = challenge[d]
  BY <1>0, <1>n DEF TypeOK
<1> HIDE DEF n, s, t
<1>1. TypeOK'
  <2>1. \A d \in Challenges : challenge'[d].attempts <= MaxAttempts
    <3>1. 0 <= MaxAttempts  BY LimitAssumption
    <3> QED  BY <1>0, <1>n, <1>c, <3>1 DEF TypeOK
  <2> QED  BY <1>0, <1>q, <1>c, <2>1 DEF TypeOK
<1>2. Handlers'
  BY <1>0, <1>q DEF Handlers
<1>3. Rows'
  BY <1>h, <1>n, <1>c DEF Inv, Rows, Stored
<1>4. SourceLock'
  BY <1>q DEF Inv, SourceLock
<1>5. RowLock'
  BY <1>q, <1>c DEF Inv, RowLock, Stored
<1>6. Counted'
  <2> SUFFICES ASSUME NEW p \in Requests, req'[p].step = "insert",
                      NEW x, x = req'[p].source, NEW w, w = req'[p].from - Window
               PROVE  Cardinality(Recent(x, w)') < MaxStarts
    BY DEF Counted, Recent
  <2>1. p # r /\ req'[p] = req[p]  BY <1>q
  <2>2. x # s  BY <2>1 DEF Inv, SourceLock, s
  <2>3. Recent(x, w)' = Recent(x, w)
    BY <1>n, <1>c, <2>2 DEF Recent, Stored
  <2> QED  BY <2>1, <2>3 DEF Inv, Counted
<1>7. PassedOnce'
  BY <1>q, <1>n, <1>c DEF Inv, PassedOnce, Shut
<1>8. StartLimit'
  <2> SUFFICES ASSUME NEW x \in Sources, NEW w \in -Window .. MaxTime
               PROVE  Cardinality(Started(x, w)') <= MaxStarts
    BY DEF StartLimit, Started
  <2>1. Cardinality(Started(x, w)) <= MaxStarts  BY DEF Inv, StartLimit, Started
  <2>2. IsFiniteSet(Started(x, w)) /\ Cardinality(Started(x, w)) \in Nat  BY StartedFinite
  <2>3. \A d \in Challenges : d # c => (d \in Started(x, w)' <=> d \in Started(x, w))
    BY <1>c DEF Started, Recent, Stored
  <2>4. Started(x, w)' \subseteq Challenges  BY DEF Started, Recent, Stored
  <2>5. CASE c \notin Started(x, w)'
    <3>1. Started(x, w)' \subseteq Started(x, w)  BY <2>3, <2>4, <2>5
    <3>2. IsFiniteSet(Started(x, w)') /\ Cardinality(Started(x, w)') <= Cardinality(Started(x, w))
      BY <2>2, <3>1, FS_Subset
    <3>3. Cardinality(Started(x, w)') \in Nat  BY <3>2, FS_CardinalityType
    <3> QED  BY <2>1, <2>2, <3>2, <3>3, LimitAssumption
  <2>6. CASE c \in Started(x, w)'
    <3> DEFINE Room == Recent(s, req[r].from - Window)
    <3>1. x = s /\ w <= t /\ t <= w + Window
      BY <1>n, <1>c, <2>6 DEF Started, Recent, Stored
    <3>2. w >= req[r].from - Window
      BY <1>h, <3>1, LimitAssumption
    <3>3. Started(x, w)' \subseteq Room \cup {c}
      <4> SUFFICES ASSUME NEW d \in Started(x, w)', d # c PROVE d \in Room  OBVIOUS
      <4>1. d \in Challenges /\ d \in Started(x, w)  BY <2>3, <2>4
      <4>2. d \in Stored /\ challenge[d].source = s /\ challenge[d].created >= w /\ challenge[d].created \in Nat
        BY <1>0, <3>1, <4>1 DEF Started, Recent, TypeOK, Challenge
      <4> QED  BY <1>h, <3>2, <4>2, LimitAssumption DEF Recent
    <3> HIDE DEF Room
    <3>4. IsFiniteSet(Room) /\ Cardinality(Room) \in Nat  BY RecentFinite DEF Room
    <3>5. Cardinality(Room) < MaxStarts  BY DEF Inv, Counted, Room, s
    <3>6. IsFiniteSet(Room \cup {c})
          /\ (Cardinality(Room \cup {c}) = Cardinality(Room) \/ Cardinality(Room \cup {c}) = Cardinality(Room) + 1)
      BY <3>4, FS_AddElement
    <3>7. IsFiniteSet(Started(x, w)') /\ Cardinality(Started(x, w)') <= Cardinality(Room \cup {c})
      BY <3>3, <3>6, FS_Subset
    <3>8. Cardinality(Started(x, w)') \in Nat  BY <3>7, FS_CardinalityType
    <3> QED  BY <3>4, <3>5, <3>6, <3>7, <3>8, LimitAssumption
  <2> QED  BY <2>5, <2>6
<1> QED  BY <1>1, <1>2, <1>3, <1>4, <1>5, <1>6, <1>7, <1>8 DEF Inv

LEMMA RefusedKeeps ==
  ASSUME Inv,
         NEW r \in Requests,
         At(r, "send"),
         Goto(r, "delete"),
         UNCHANGED <<now, challenge, identities, issued>>
  PROVE  Inv'
<1> USE DEF At, Goto, End, Counting, Past
<1>0. TypeOK /\ Handlers  BY DEF Inv
<1>q. /\ \A q \in Requests : q # r => req'[q] = req[q]
      /\ req' \in [Requests -> Request]
      /\ req[r] \in Request
      /\ req'[r].step = "delete" /\ req'[r].phone = req[r].phone /\ req'[r].source = req[r].source /\ req'[r].id = req[r].id
      /\ req'[r].from = req[r].from /\ req'[r].at = req[r].at /\ req'[r].right = req[r].right /\ req'[r].row = req[r].row
  <2> DEFINE v == [req[r] EXCEPT !.step = "delete"]
  <2>1. req \in [Requests -> Request] /\ req[r] \in Request
    BY <1>0 DEF TypeOK, Handlers
  <2>2. /\ v \in Request
        /\ v.step = "delete" /\ v.phone = req[r].phone /\ v.source = req[r].source /\ v.id = req[r].id
        /\ v.from = req[r].from /\ v.at = req[r].at /\ v.right = req[r].right /\ v.row = req[r].row
    BY <2>1 DEF Request, Steps
  <2>3. req' = [req EXCEPT ![r] = v]
    BY <2>1 DEF Request
  <2> HIDE DEF v
  <2> QED  BY <2>1, <2>2, <2>3
<1>f. Fewer
  BY <1>0, <1>q DEF Fewer, Stored, TypeOK
<1>1. TypeOK'
  BY <1>0, <1>q, LimitAssumption, BlankTyped
  DEF Inv, TypeOK, Handlers, Request, Steps, Challenge
<1>2. Handlers'
  BY <1>0, <1>q
  DEF Inv, TypeOK, Handlers, Blank, Request
<1>3. Rows'
  BY <1>0, <1>q
  DEF Inv, TypeOK, Handlers, Rows, Stored
<1>4. SourceLock'
  BY <1>0, <1>q
  DEF Inv, TypeOK, Handlers, SourceLock, Blank
<1>5. RowLock'
  BY <1>0, <1>q
  DEF Inv, TypeOK, Handlers, RowLock, Blank, Stored
<1>6. Counted'
  <2>1. \A p \in Requests : req'[p].step = "insert" =>
          req[p].step = "insert" /\ req'[p].source = req[p].source /\ req'[p].from = req[p].from
    BY <1>0, <1>q DEF TypeOK, Blank
  <2> QED  BY <1>f, <2>1, FewerCounted
<1>7. PassedOnce'
  BY <1>0, <1>q
  DEF Inv, TypeOK, Handlers, PassedOnce, Blank, Shut, Stored
<1>8. StartLimit'
  BY <1>f, FewerStarted DEF Inv
<1> QED  BY <1>1, <1>2, <1>3, <1>4, <1>5, <1>6, <1>7, <1>8 DEF Inv

LEMMA DeleteChallengeKeeps ==
  ASSUME Inv,
         NEW r \in Requests,
         DeleteChallenge(r)
  PROVE  Inv'
<1> USE DEF DeleteChallenge, Locked, At, Goto, End, Counting, Past
<1>0. TypeOK /\ Handlers  BY DEF Inv
<1>q. /\ \A q \in Requests : q # r => req'[q] = req[q]
      /\ req' \in [Requests -> Request]
      /\ req[r] \in Request
      /\ req'[r].step = "idle"
      /\ req[r].id \in Challenges
      /\ challenge' \in [Challenges -> Challenge]
      /\ challenge'[req[r].id].state = "deleted" /\ challenge'[req[r].id].attempts = 0
      /\ challenge'[req[r].id].consumed = Never
      /\ \A c \in Challenges : c # req[r].id => challenge'[c] = challenge[c]
      /\ \A q \in Requests : At(q, "verify") => req[q].id # req[r].id
  BY <1>0, BlankTyped DEF TypeOK, Handlers, Blank, Request, Challenge, NoChallenge
<1>f. Fewer
  BY <1>0, <1>q DEF Fewer, Stored, TypeOK
<1>1. TypeOK'
  BY <1>0, <1>q, LimitAssumption, BlankTyped
  DEF Inv, TypeOK, Handlers, Request, Steps, Challenge
<1>2. Handlers'
  BY <1>0, <1>q
  DEF Inv, TypeOK, Handlers, Blank, Request
<1>3. Rows'
  BY <1>0, <1>q
  DEF Inv, TypeOK, Handlers, Rows, Stored
<1>4. SourceLock'
  BY <1>0, <1>q
  DEF Inv, TypeOK, Handlers, SourceLock, Blank
<1>5. RowLock'
  BY <1>0, <1>q
  DEF Inv, TypeOK, Handlers, RowLock, Blank, Stored
<1>6. Counted'
  <2>1. \A p \in Requests : req'[p].step = "insert" =>
          req[p].step = "insert" /\ req'[p].source = req[p].source /\ req'[p].from = req[p].from
    BY <1>0, <1>q DEF TypeOK, Blank
  <2> QED  BY <1>f, <2>1, FewerCounted
<1>7. PassedOnce'
  BY <1>0, <1>q
  DEF Inv, TypeOK, Handlers, PassedOnce, Blank, Shut, Stored
<1>8. StartLimit'
  BY <1>f, FewerStarted DEF Inv
<1> QED  BY <1>1, <1>2, <1>3, <1>4, <1>5, <1>6, <1>7, <1>8 DEF Inv

LEMMA VerifyOtpKeeps ==
  ASSUME Inv,
         NEW r \in Requests,
         NEW c \in Challenges,
         NEW right \in BOOLEAN,
         VerifyOtp(r, c, right)
  PROVE  Inv'
<1> USE DEF VerifyOtp, At, Goto, End, Counting, Past
<1>0. TypeOK /\ Handlers  BY DEF Inv
<1>n. now \in Nat  BY <1>0, LimitAssumption DEF TypeOK
<1>q. /\ \A q \in Requests : q # r => req'[q] = req[q]
      /\ req' \in [Requests -> Request]
      /\ req[r] \in Request
      /\ req'[r].step = "consume" /\ req'[r].id = c /\ req'[r].at = now
      /\ now \in Nat
  BY <1>0, BlankTyped, <1>n, LimitAssumption DEF TypeOK, Handlers, Blank, Request, Steps
<1>f. Fewer
  BY <1>0, <1>q DEF Fewer, Stored, TypeOK
<1>1. TypeOK'
  BY <1>0, <1>q, LimitAssumption, BlankTyped
  DEF Inv, TypeOK, Handlers, Request, Steps, Challenge
<1>2. Handlers'
  BY <1>0, <1>q
  DEF Inv, TypeOK, Handlers, Blank, Request
<1>3. Rows'
  BY <1>0, <1>q
  DEF Inv, TypeOK, Handlers, Rows, Stored
<1>4. SourceLock'
  BY <1>0, <1>q
  DEF Inv, TypeOK, Handlers, SourceLock, Blank
<1>5. RowLock'
  BY <1>0, <1>q
  DEF Inv, TypeOK, Handlers, RowLock, Blank, Stored
<1>6. Counted'
  <2>1. \A p \in Requests : req'[p].step = "insert" =>
          req[p].step = "insert" /\ req'[p].source = req[p].source /\ req'[p].from = req[p].from
    BY <1>0, <1>q DEF TypeOK, Blank
  <2> QED  BY <1>f, <2>1, FewerCounted
<1>7. PassedOnce'
  BY <1>0, <1>q
  DEF Inv, TypeOK, Handlers, PassedOnce, Blank, Shut, Stored
<1>8. StartLimit'
  BY <1>f, FewerStarted DEF Inv
<1> QED  BY <1>1, <1>2, <1>3, <1>4, <1>5, <1>6, <1>7, <1>8 DEF Inv

LEMMA LockedKeeps ==
  ASSUME Inv,
         NEW r \in Requests,
         At(r, "consume"),
         ~Locked(req[r].id),
         req[r].id \in Stored,
         req' = [req EXCEPT ![r].step = "verify", ![r].row = challenge[req[r].id]],
         UNCHANGED <<now, challenge, identities, issued>>
  PROVE  Inv'
<1> USE DEF Locked, At, Goto, End, Counting, Past
<1>0. TypeOK /\ Handlers  BY DEF Inv
<1>q. /\ \A q \in Requests : q # r => req'[q] = req[q]
      /\ req' \in [Requests -> Request]
      /\ req[r] \in Request
      /\ req'[r].step = "verify" /\ req'[r].phone = req[r].phone /\ req'[r].source = req[r].source /\ req'[r].id = req[r].id
      /\ req'[r].from = req[r].from /\ req'[r].at = req[r].at /\ req'[r].right = req[r].right /\ req'[r].row = challenge[req[r].id]
  <2> DEFINE v == [[req[r] EXCEPT !.step = "verify"] EXCEPT !.row = challenge[req[r].id]]
  <2>1. req \in [Requests -> Request] /\ req[r] \in Request /\ challenge[req[r].id] \in Challenge
    BY <1>0 DEF TypeOK, Handlers
  <2>2. /\ v \in Request
        /\ v.step = "verify" /\ v.phone = req[r].phone /\ v.source = req[r].source /\ v.id = req[r].id
        /\ v.from = req[r].from /\ v.at = req[r].at /\ v.right = req[r].right /\ v.row = challenge[req[r].id]
    BY <2>1 DEF Request, Steps
  <2>3. req' = [req EXCEPT ![r] = v]
    BY <2>1 DEF Request
  <2> HIDE DEF v
  <2> QED  BY <2>1, <2>2, <2>3
<1>f. Fewer
  BY <1>0, <1>q DEF Fewer, Stored, TypeOK
<1>1. TypeOK'
  BY <1>0, <1>q, LimitAssumption, BlankTyped
  DEF Inv, TypeOK, Handlers, Request, Steps, Challenge
<1>2. Handlers'
  BY <1>0, <1>q
  DEF Inv, TypeOK, Handlers, Blank, Request
<1>3. Rows'
  BY <1>0, <1>q
  DEF Inv, TypeOK, Handlers, Rows, Stored
<1>4. SourceLock'
  BY <1>0, <1>q
  DEF Inv, TypeOK, Handlers, SourceLock, Blank
<1>5. RowLock'
  BY <1>0, <1>q
  DEF Inv, TypeOK, Handlers, RowLock, Blank, Stored
<1>6. Counted'
  <2>1. \A p \in Requests : req'[p].step = "insert" =>
          req[p].step = "insert" /\ req'[p].source = req[p].source /\ req'[p].from = req[p].from
    BY <1>0, <1>q DEF TypeOK, Blank
  <2> QED  BY <1>f, <2>1, FewerCounted
<1>7. PassedOnce'
  BY <1>0, <1>q
  DEF Inv, TypeOK, Handlers, PassedOnce, Blank, Shut, Stored
<1>8. StartLimit'
  BY <1>f, FewerStarted DEF Inv
<1> QED  BY <1>1, <1>2, <1>3, <1>4, <1>5, <1>6, <1>7, <1>8 DEF Inv

LEMMA WrongKeeps ==
  ASSUME Inv,
         NEW r \in Requests,
         At(r, "verify"),
         Open(req[r].row),
         challenge' = [challenge EXCEPT ![req[r].id].attempts = @ + 1],
         End(r),
         UNCHANGED <<now, identities, issued>>
  PROVE  Inv'
<1> USE DEF Open, At, Goto, End, Counting, Past
<1>0. TypeOK /\ Handlers  BY DEF Inv
<1>q. /\ \A q \in Requests : q # r => req'[q] = req[q]
      /\ req' \in [Requests -> Request]
      /\ req[r] \in Request
      /\ req'[r].step = "idle"
      /\ req[r].id \in Challenges /\ req[r].row = challenge[req[r].id] /\ req[r].id \in Stored
      /\ \A c \in Challenges : c # req[r].id => challenge'[c] = challenge[c]
      /\ challenge' \in [Challenges -> Challenge]
      /\ \A c \in Challenges : challenge'[c].state = challenge[c].state /\ challenge'[c].phone = challenge[c].phone
      /\ \A c \in Challenges : challenge'[c].created = challenge[c].created /\ challenge'[c].source = challenge[c].source
      /\ \A c \in Challenges : challenge'[c].expires = challenge[c].expires
      /\ challenge'[req[r].id].attempts = challenge[req[r].id].attempts + 1
      /\ \A c \in Challenges : challenge'[c].consumed = challenge[c].consumed
  BY BlankTyped DEF TypeOK, Handlers, Blank, Inv, RowLock, Challenge
<1>f. Fewer
  BY <1>0, <1>q DEF Fewer, Stored, TypeOK
<1>1. TypeOK'
  <2>1. \A c \in Challenges : challenge[c] \in Challenge /\ challenge[c].attempts <= MaxAttempts
    BY <1>0 DEF TypeOK
  <2>2. req[r].row.attempts < MaxAttempts  OBVIOUS
  <2>3. challenge[req[r].id].attempts \in Nat /\ MaxAttempts \in Nat
    BY <1>q, <2>1, LimitAssumption DEF Challenge
  <2>4. challenge'[req[r].id].attempts <= MaxAttempts
    BY <1>q, <2>2, <2>3
  <2>5. \A c \in Challenges : challenge'[c].attempts <= MaxAttempts
    BY <1>q, <2>1, <2>4
  <2> QED  BY <1>0, <1>q, <2>5 DEF TypeOK
<1>2. Handlers'
  BY <1>0, <1>q
  DEF Inv, TypeOK, Handlers, Blank, Request
<1>3. Rows'
  BY <1>0, <1>q
  DEF Inv, TypeOK, Handlers, Rows, Stored
<1>4. SourceLock'
  BY <1>0, <1>q
  DEF Inv, TypeOK, Handlers, SourceLock, Blank
<1>5. RowLock'
  BY <1>0, <1>q
  DEF Inv, TypeOK, Handlers, RowLock, Blank, Stored
<1>6. Counted'
  <2>1. \A p \in Requests : req'[p].step = "insert" =>
          req[p].step = "insert" /\ req'[p].source = req[p].source /\ req'[p].from = req[p].from
    BY <1>q
  <2> QED  BY <1>f, <2>1, FewerCounted
<1>7. PassedOnce'
  BY <1>0, <1>q
  DEF Inv, TypeOK, Handlers, PassedOnce, Blank, Shut, Stored
<1>8. StartLimit'
  BY <1>f, FewerStarted DEF Inv
<1> QED  BY <1>1, <1>2, <1>3, <1>4, <1>5, <1>6, <1>7, <1>8 DEF Inv

LEMMA RightKeeps ==
  ASSUME Inv,
         NEW r \in Requests,
         At(r, "verify"),
         Open(req[r].row),
         challenge' = [challenge EXCEPT ![req[r].id].consumed = req[r].at],
         req' = [req EXCEPT ![r] = [Blank EXCEPT !.step = "ensure", !.id = req[r].id, !.phone = req[r].row.phone]],
         UNCHANGED <<now, identities, issued>>
  PROVE  Inv'
<1> USE DEF Open, At, Goto, End, Counting, Past
<1>0. TypeOK /\ Handlers  BY DEF Inv
<1>a. /\ req[r].id \in Challenges /\ req[r].row = challenge[req[r].id] /\ req[r].id \in Stored
      /\ req[r].at \in Nat /\ req[r].at <= now /\ req[r] \in Request
  BY <1>0 DEF TypeOK, Handlers, Inv, RowLock, Request
<1>b. /\ req[r].row.phone \in Phones /\ req[r].at # Never
      /\ req[r].row.expires > now /\ req[r].row.consumed = Never
  BY <1>a, AbsentAssumption DEF Inv, Rows
<1>q. /\ \A q \in Requests : q # r => req'[q] = req[q]
      /\ req' \in [Requests -> Request]
      /\ req[r] \in Request
      /\ \A c \in Challenges : c # req[r].id => challenge'[c] = challenge[c]
      /\ challenge' \in [Challenges -> Challenge]
      /\ \A c \in Challenges : challenge'[c].state = challenge[c].state /\ challenge'[c].phone = challenge[c].phone
      /\ \A c \in Challenges : challenge'[c].created = challenge[c].created /\ challenge'[c].source = challenge[c].source
      /\ \A c \in Challenges : challenge'[c].expires = challenge[c].expires
      /\ req'[r].step = "ensure" /\ req'[r].id = req[r].id /\ req'[r].phone = req[r].row.phone
      /\ \A c \in Challenges : challenge'[c].attempts = challenge[c].attempts
      /\ challenge'[req[r].id].consumed = req[r].at
  <2> DEFINE v == [Blank EXCEPT !.step = "ensure", !.id = req[r].id, !.phone = req[r].row.phone]
             w == [challenge[req[r].id] EXCEPT !.consumed = req[r].at]
  <2>1. /\ v \in Request
        /\ v.step = "ensure" /\ v.id = req[r].id /\ v.phone = req[r].row.phone
    BY <1>a, <1>b, BlankTyped DEF Blank, Request, Steps
  <2>2. challenge[req[r].id] \in Challenge  BY <1>0, <1>a DEF TypeOK
  <2>3. /\ w \in Challenge
        /\ w.state = challenge[req[r].id].state /\ w.phone = challenge[req[r].id].phone
        /\ w.created = challenge[req[r].id].created /\ w.source = challenge[req[r].id].source
        /\ w.expires = challenge[req[r].id].expires /\ w.attempts = challenge[req[r].id].attempts
        /\ w.consumed = req[r].at
    BY <1>a, <2>2 DEF Challenge
  <2>4. challenge' = [challenge EXCEPT ![req[r].id] = w] /\ req' = [req EXCEPT ![r] = v]
    BY <1>0 DEF TypeOK
  <2> HIDE DEF v, w
  <2> QED  BY <1>0, <1>a, <2>1, <2>3, <2>4 DEF TypeOK
<1>f. Fewer
  BY <1>0, <1>q, <1>a, <1>b DEF Fewer, Stored, TypeOK
<1>1. TypeOK'
  BY <1>0, <1>q DEF TypeOK
<1>2. Handlers'
  BY <1>0, <1>q, <1>a, <1>b
  DEF Inv, TypeOK, Handlers, Blank, Request
<1>3. Rows'
  BY <1>0, <1>a, <1>b, <1>q, LimitAssumption DEF Inv, TypeOK, Rows, Stored, Challenge
<1>4. SourceLock'
  BY <1>0, <1>q, <1>a, <1>b
  DEF Inv, TypeOK, Handlers, SourceLock, Blank
<1>5. RowLock'
  BY <1>0, <1>q, <1>a, <1>b
  DEF Inv, TypeOK, Handlers, RowLock, Blank, Stored
<1>6. Counted'
  <2>1. \A p \in Requests : req'[p].step = "insert" =>
          req[p].step = "insert" /\ req'[p].source = req[p].source /\ req'[p].from = req[p].from
    BY <1>b
  <2> QED  BY <1>f, <2>1, FewerCounted
<1>7. PassedOnce'
  BY <1>0, <1>q, <1>a, <1>b
  DEF Inv, TypeOK, Handlers, PassedOnce, Blank, Shut, Stored
<1>8. StartLimit'
  BY <1>f, FewerStarted DEF Inv
<1> QED  BY <1>1, <1>2, <1>3, <1>4, <1>5, <1>6, <1>7, <1>8 DEF Inv

LEMMA EnsuredKeeps ==
  ASSUME Inv,
         NEW r \in Requests,
         At(r, "ensure"),
         Goto(r, "bind"),
         UNCHANGED <<now, challenge, identities, issued>>
  PROVE  Inv'
<1> USE DEF At, Goto, End, Counting, Past
<1>0. TypeOK /\ Handlers  BY DEF Inv
<1>q. /\ \A q \in Requests : q # r => req'[q] = req[q]
      /\ req' \in [Requests -> Request]
      /\ req[r] \in Request
      /\ req'[r].step = "bind" /\ req'[r].phone = req[r].phone /\ req'[r].source = req[r].source /\ req'[r].id = req[r].id
      /\ req'[r].from = req[r].from /\ req'[r].at = req[r].at /\ req'[r].right = req[r].right /\ req'[r].row = req[r].row
  <2> DEFINE v == [req[r] EXCEPT !.step = "bind"]
  <2>1. req \in [Requests -> Request] /\ req[r] \in Request
    BY <1>0 DEF TypeOK, Handlers
  <2>2. /\ v \in Request
        /\ v.step = "bind" /\ v.phone = req[r].phone /\ v.source = req[r].source /\ v.id = req[r].id
        /\ v.from = req[r].from /\ v.at = req[r].at /\ v.right = req[r].right /\ v.row = req[r].row
    BY <2>1 DEF Request, Steps
  <2>3. req' = [req EXCEPT ![r] = v]
    BY <2>1 DEF Request
  <2> HIDE DEF v
  <2> QED  BY <2>1, <2>2, <2>3
<1>f. Fewer
  BY <1>0, <1>q DEF Fewer, Stored, TypeOK
<1>1. TypeOK'
  BY <1>0, <1>q, LimitAssumption, BlankTyped
  DEF Inv, TypeOK, Handlers, Request, Steps, Challenge
<1>2. Handlers'
  BY <1>0, <1>q
  DEF Inv, TypeOK, Handlers, Blank, Request
<1>3. Rows'
  BY <1>0, <1>q
  DEF Inv, TypeOK, Handlers, Rows, Stored
<1>4. SourceLock'
  BY <1>0, <1>q
  DEF Inv, TypeOK, Handlers, SourceLock, Blank
<1>5. RowLock'
  BY <1>0, <1>q
  DEF Inv, TypeOK, Handlers, RowLock, Blank, Stored
<1>6. Counted'
  <2>1. \A p \in Requests : req'[p].step = "insert" =>
          req[p].step = "insert" /\ req'[p].source = req[p].source /\ req'[p].from = req[p].from
    BY <1>0, <1>q DEF TypeOK, Blank
  <2> QED  BY <1>f, <2>1, FewerCounted
<1>7. PassedOnce'
  BY <1>0, <1>q
  DEF Inv, TypeOK, Handlers, PassedOnce, Blank, Shut, Stored
<1>8. StartLimit'
  BY <1>f, FewerStarted DEF Inv
<1> QED  BY <1>1, <1>2, <1>3, <1>4, <1>5, <1>6, <1>7, <1>8 DEF Inv

LEMMA BindIdentityKeeps ==
  ASSUME Inv,
         NEW r \in Requests,
         BindIdentity(r)
  PROVE  Inv'
<1> USE DEF BindIdentity, At, Goto, End, Counting, Past
<1>0. TypeOK /\ Handlers  BY DEF Inv
<1>q. /\ \A q \in Requests : q # r => req'[q] = req[q]
      /\ req' \in [Requests -> Request]
      /\ req[r] \in Request
      /\ req'[r].step = "issue" /\ req'[r].phone = req[r].phone /\ req'[r].source = req[r].source /\ req'[r].id = req[r].id
      /\ req'[r].from = req[r].from /\ req'[r].at = req[r].at /\ req'[r].right = req[r].right /\ req'[r].row = req[r].row
  <2> DEFINE v == [req[r] EXCEPT !.step = "issue"]
  <2>1. req \in [Requests -> Request] /\ req[r] \in Request
    BY <1>0 DEF TypeOK, Handlers
  <2>2. /\ v \in Request
        /\ v.step = "issue" /\ v.phone = req[r].phone /\ v.source = req[r].source /\ v.id = req[r].id
        /\ v.from = req[r].from /\ v.at = req[r].at /\ v.right = req[r].right /\ v.row = req[r].row
    BY <2>1 DEF Request, Steps
  <2>3. req' = [req EXCEPT ![r] = v]
    BY <2>1 DEF Request
  <2> HIDE DEF v
  <2> QED  BY <2>1, <2>2, <2>3
<1>f. Fewer
  BY <1>0, <1>q DEF Fewer, Stored, TypeOK
<1>1. TypeOK'
  BY <1>0, <1>q, LimitAssumption, BlankTyped
  DEF Inv, TypeOK, Handlers, Request, Steps, Challenge
<1>2. Handlers'
  BY <1>0, <1>q
  DEF Inv, TypeOK, Handlers, Blank, Request
<1>3. Rows'
  BY <1>0, <1>q
  DEF Inv, TypeOK, Handlers, Rows, Stored
<1>4. SourceLock'
  BY <1>0, <1>q
  DEF Inv, TypeOK, Handlers, SourceLock, Blank
<1>5. RowLock'
  BY <1>0, <1>q
  DEF Inv, TypeOK, Handlers, RowLock, Blank, Stored
<1>6. Counted'
  <2>1. \A p \in Requests : req'[p].step = "insert" =>
          req[p].step = "insert" /\ req'[p].source = req[p].source /\ req'[p].from = req[p].from
    BY <1>0, <1>q DEF TypeOK, Blank
  <2> QED  BY <1>f, <2>1, FewerCounted
<1>7. PassedOnce'
  BY <1>0, <1>q
  DEF Inv, TypeOK, Handlers, PassedOnce, Blank, Shut, Stored
<1>8. StartLimit'
  BY <1>f, FewerStarted DEF Inv
<1> QED  BY <1>1, <1>2, <1>3, <1>4, <1>5, <1>6, <1>7, <1>8 DEF Inv

LEMMA IssueSessionKeeps ==
  ASSUME Inv,
         NEW r \in Requests,
         IssueSession(r)
  PROVE  Inv'
<1> USE DEF IssueSession, At, Goto, End, Counting, Past
<1>0. TypeOK /\ Handlers  BY DEF Inv
<1>q. /\ \A q \in Requests : q # r => req'[q] = req[q]
      /\ req' \in [Requests -> Request]
      /\ req[r] \in Request
      /\ req'[r].step = "idle"
      /\ req[r].id \in Challenges
      /\ issued'[req[r].id] = issued[req[r].id] + 1
      /\ \A c \in Challenges : c # req[r].id => issued'[c] = issued[c]
  BY <1>0, BlankTyped DEF TypeOK, Handlers, Blank, Request, Steps
<1>f. Fewer
  BY <1>0, <1>q DEF Fewer, Stored, TypeOK
<1>1. TypeOK'
  BY <1>0, <1>q, LimitAssumption, BlankTyped
  DEF Inv, TypeOK, Handlers, Request, Steps, Challenge
<1>2. Handlers'
  BY <1>0, <1>q
  DEF Inv, TypeOK, Handlers, Blank, Request
<1>3. Rows'
  BY <1>0, <1>q
  DEF Inv, TypeOK, Handlers, Rows, Stored
<1>4. SourceLock'
  BY <1>0, <1>q
  DEF Inv, TypeOK, Handlers, SourceLock, Blank
<1>5. RowLock'
  BY <1>0, <1>q
  DEF Inv, TypeOK, Handlers, RowLock, Blank, Stored
<1>6. Counted'
  <2>1. \A p \in Requests : req'[p].step = "insert" =>
          req[p].step = "insert" /\ req'[p].source = req[p].source /\ req'[p].from = req[p].from
    BY <1>0, <1>q DEF TypeOK, Blank
  <2> QED  BY <1>f, <2>1, FewerCounted
<1>7. PassedOnce'
  BY <1>0, <1>q
  DEF Inv, TypeOK, Handlers, PassedOnce, Blank, Shut, Stored
<1>8. StartLimit'
  BY <1>f, FewerStarted DEF Inv
<1> QED  BY <1>1, <1>2, <1>3, <1>4, <1>5, <1>6, <1>7, <1>8 DEF Inv

LEMMA RestartKeeps ==
  ASSUME Inv,
         Restart
  PROVE  Inv'
<1> USE DEF Restart, At, Goto, End, Counting, Past
<1>0. TypeOK /\ Handlers  BY DEF Inv
<1>f. Fewer
  BY <1>0 DEF Fewer, Stored, TypeOK
<1>1. TypeOK'
  BY <1>0, LimitAssumption, BlankTyped
  DEF Inv, TypeOK, Handlers, Request, Steps, Challenge
<1>2. Handlers'
  BY <1>0
  DEF Inv, TypeOK, Handlers, Blank, Request
<1>3. Rows'
  BY <1>0
  DEF Inv, TypeOK, Handlers, Rows, Stored
<1>4. SourceLock'
  BY <1>0
  DEF Inv, TypeOK, Handlers, SourceLock, Blank
<1>5. RowLock'
  BY <1>0
  DEF Inv, TypeOK, Handlers, RowLock, Blank, Stored
<1>6. Counted'
  <2>1. \A p \in Requests : req'[p].step = "insert" =>
          req[p].step = "insert" /\ req'[p].source = req[p].source /\ req'[p].from = req[p].from
    BY <1>0 DEF TypeOK, Blank
  <2> QED  BY <1>f, <2>1, FewerCounted
<1>7. PassedOnce'
  BY <1>0
  DEF Inv, TypeOK, Handlers, PassedOnce, Blank, Shut, Stored
<1>8. StartLimit'
  BY <1>f, FewerStarted DEF Inv
<1> QED  BY <1>1, <1>2, <1>3, <1>4, <1>5, <1>6, <1>7, <1>8 DEF Inv

LEMMA TickKeeps ==
  ASSUME Inv,
         Tick
  PROVE  Inv'
<1> USE DEF Tick, At, Goto, End, Counting, Past
<1>0. TypeOK /\ Handlers  BY DEF Inv
<1>q. now \in Nat /\ now < now' /\ \A p \in Requests : req[p].from \in Nat /\ req[p].at \in Nat
  BY <1>0, LimitAssumption DEF TypeOK, Request
<1>f. Fewer
  BY <1>0, <1>q DEF Fewer, Stored, TypeOK
<1>1. TypeOK'
  BY <1>0, <1>q, LimitAssumption, BlankTyped
  DEF Inv, TypeOK, Handlers, Request, Steps, Challenge
<1>2. Handlers'
  BY <1>0, <1>q
  DEF Inv, TypeOK, Handlers, Blank, Request
<1>3. Rows'
  BY <1>0, <1>q
  DEF Inv, TypeOK, Handlers, Rows, Stored
<1>4. SourceLock'
  BY <1>0, <1>q
  DEF Inv, TypeOK, Handlers, SourceLock, Blank
<1>5. RowLock'
  BY <1>0, <1>q
  DEF Inv, TypeOK, Handlers, RowLock, Blank, Stored
<1>6. Counted'
  <2>1. \A p \in Requests : req'[p].step = "insert" =>
          req[p].step = "insert" /\ req'[p].source = req[p].source /\ req'[p].from = req[p].from
    BY <1>0, <1>q DEF TypeOK, Blank
  <2> QED  BY <1>f, <2>1, FewerCounted
<1>7. PassedOnce'
  BY <1>0, <1>q
  DEF Inv, TypeOK, Handlers, PassedOnce, Blank, Shut, Stored
<1>8. StartLimit'
  BY <1>f, FewerStarted DEF Inv
<1> QED  BY <1>1, <1>2, <1>3, <1>4, <1>5, <1>6, <1>7, <1>8 DEF Inv

LEMMA StutterKeeps ==
  ASSUME Inv,
         UNCHANGED vars
  PROVE  Inv'
<1> USE DEF vars, At, Goto, End, Counting, Past
<1>0. TypeOK /\ Handlers  BY DEF Inv
<1>f. Fewer
  BY <1>0 DEF Fewer, Stored, TypeOK
<1>1. TypeOK'
  BY <1>0, LimitAssumption, BlankTyped
  DEF Inv, TypeOK, Handlers, Request, Steps, Challenge
<1>2. Handlers'
  BY <1>0
  DEF Inv, TypeOK, Handlers, Blank, Request
<1>3. Rows'
  BY <1>0
  DEF Inv, TypeOK, Handlers, Rows, Stored
<1>4. SourceLock'
  BY <1>0
  DEF Inv, TypeOK, Handlers, SourceLock, Blank
<1>5. RowLock'
  BY <1>0
  DEF Inv, TypeOK, Handlers, RowLock, Blank, Stored
<1>6. Counted'
  <2>1. \A p \in Requests : req'[p].step = "insert" =>
          req[p].step = "insert" /\ req'[p].source = req[p].source /\ req'[p].from = req[p].from
    BY <1>0 DEF TypeOK, Blank
  <2> QED  BY <1>f, <2>1, FewerCounted
<1>7. PassedOnce'
  BY <1>0
  DEF Inv, TypeOK, Handlers, PassedOnce, Blank, Shut, Stored
<1>8. StartLimit'
  BY <1>f, FewerStarted DEF Inv
<1> QED  BY <1>1, <1>2, <1>3, <1>4, <1>5, <1>6, <1>7, <1>8 DEF Inv

LEMMA InvInit == Init => Inv
<1> SUFFICES ASSUME Init PROVE Inv  OBVIOUS
<1>1. TypeOK
  BY LimitAssumption, BlankTyped DEF Init, TypeOK, NoChallenge, Challenge
<1>2. StartLimit
  <2> SUFFICES ASSUME NEW s \in Sources, NEW w \in -Window .. MaxTime
               PROVE  Cardinality(Started(s, w)) <= MaxStarts
    BY DEF StartLimit, Started
  <2>1. Started(s, w) = {}  BY DEF Init, Started, Recent, Stored, NoChallenge
  <2> QED  BY <2>1, FS_EmptySet, LimitAssumption
<1> QED
  BY <1>1, <1>2
  DEF Init, Inv, Handlers, Rows, SourceLock, RowLock, Counted, PassedOnce, Shut, Blank, NoChallenge,
      Stored, At, Counting, Past

LEMMA InvNext == Inv /\ [Next]_vars => Inv'
<1> SUFFICES ASSUME Inv, [Next]_vars PROVE Inv'  OBVIOUS
<1>1. ASSUME NEW r \in Requests, Count(r) PROVE Inv'
  <2>1. CASE Cardinality(Recent(req[r].source, req[r].from - Window)) >= MaxStarts
    BY <1>1, <2>1, EndKeeps DEF Count
  <2>2. CASE ~(Cardinality(Recent(req[r].source, req[r].from - Window)) >= MaxStarts)
    <3>1. Cardinality(Recent(req[r].source, req[r].from - Window)) < MaxStarts
      BY <2>2, RecentFinite, LimitAssumption
    <3>2. End(r) \/ Goto(r, "insert")  BY <1>1, <2>2 DEF Count
    <3> QED  BY <1>1, <3>1, <3>2, EndKeeps, CountedKeeps DEF Count
  <2> QED  BY <2>1, <2>2
<1>2. ASSUME NEW r \in Requests, Insert(r) PROVE Inv'
  <2>1. CASE req[r].from + Ttl > req[r].at
    BY <1>2, <2>1, InsertedKeeps DEF Insert
  <2>2. CASE ~(req[r].from + Ttl > req[r].at)
    BY <1>2, <2>2, EndKeeps DEF Insert
  <2> QED  BY <2>1, <2>2
<1>3. ASSUME NEW r \in Requests, Send(r) PROVE Inv'
  BY <1>3, EndKeeps, RefusedKeeps DEF Send
<1>4. ASSUME NEW r \in Requests, LockChallenge(r) PROVE Inv'
  BY <1>4, EndKeeps, LockedKeeps DEF LockChallenge
<1>5. ASSUME NEW r \in Requests, Consume(r) PROVE Inv'
  <2>1. CASE ~Open(req[r].row)  BY <1>5, <2>1, EndKeeps DEF Consume
  <2>2. CASE Open(req[r].row) /\ ~req[r].right  BY <1>5, <2>2, WrongKeeps DEF Consume
  <2>3. CASE Open(req[r].row) /\ req[r].right  BY <1>5, <2>3, RightKeeps DEF Consume
  <2> QED  BY <2>1, <2>2, <2>3
<1>6. ASSUME NEW r \in Requests, EnsureIdentity(r) PROVE Inv'
  BY <1>6, EndKeeps, EnsuredKeeps DEF EnsureIdentity
<1>7. ASSUME NEW r \in Requests, Abandon(r) PROVE Inv'
  BY <1>7, EndKeeps DEF Abandon
<1>8. ASSUME NEW r \in Requests, Starting(r) PROVE Inv'
  BY <1>1, <1>2, <1>3, <1>8, StartOtpKeeps, BeginKeeps, LockPhoneKeeps, LockSourceKeeps,
     DeleteChallengeKeeps DEF Starting
<1>9. ASSUME NEW r \in Requests, Verifying(r) PROVE Inv'
  BY <1>4, <1>5, <1>6, <1>9, VerifyOtpKeeps, BindIdentityKeeps, IssueSessionKeeps DEF Verifying
<1> QED
  BY <1>7, <1>8, <1>9, RestartKeeps, TickKeeps, StutterKeeps DEF Next

LEMMA InvAlways == Spec => []Inv
BY InvInit, InvNext, PTL DEF Spec

(* The state is well typed, and a code is never guessed at more often than *)
(* otp_max_attempts.                                                       *)
THEOREM TypesHold == Spec => []TypeOK
<1>1. Inv => TypeOK  BY DEF Inv
<1> QED  BY <1>1, InvAlways, PTL

(* No window holds more challenges of a source than max_starts_per_ip,     *)
(* however long starts wait for their locks.                               *)
THEOREM StartLimitHolds == Spec => []StartLimit
<1>1. Inv => StartLimit  BY DEF Inv
<1> QED  BY <1>1, InvAlways, PTL

(* A challenge is worth one session, and was consumed before it expired.   *)
THEOREM OtpOnceHolds == Spec => []OtpOnce
<1>1. Inv => OtpOnce
  <2> SUFFICES ASSUME Inv, NEW c \in Challenges
               PROVE  /\ issued[c] + Cardinality(Passed(c)) <= 1
                      /\ challenge[c].consumed # Never => challenge[c].consumed < challenge[c].expires
    BY DEF OtpOnce
  <2>1. issued[c] \in Nat  BY DEF Inv, TypeOK
  <2>2. CASE Passed(c) = {}
    <3>1. Cardinality(Passed(c)) = 0  BY <2>2, FS_EmptySet
    <3> QED  BY <2>1, <3>1 DEF Inv, PassedOnce, Rows
  <2>3. CASE Passed(c) # {}
    <3>1. PICK r \in Passed(c) : TRUE  BY <2>3
    <3>2. r \in Requests /\ req[r].step \in Past /\ req[r].id = c  BY <3>1 DEF Passed, Past
    <3>3. Passed(c) = {r}  BY <3>2 DEF Inv, PassedOnce, Passed, Past
    <3>4. Cardinality(Passed(c)) = 1  BY <3>3, FS_Singleton
    <3>5. issued[c] = 0  BY <3>2 DEF Inv, PassedOnce
    <3> QED  BY <3>4, <3>5 DEF Inv, Rows
  <2> QED  BY <2>2, <2>3
<1> QED  BY <1>1, InvAlways, PTL
===============================================================================
