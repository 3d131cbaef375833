------------------------ MODULE AgentConnectionProofs ------------------------
(***************************************************************************)
(* Proofs about AgentConnection, for all sets of attempts, pages, users,   *)
(* grants and handlers. The attempts that can be drawn are a finite set,   *)
(* because those present are counted.                                      *)
(***************************************************************************)
EXTENDS AgentConnection, FiniteSetTheorems, TLAPS

-----------------------------------------------------------------------------
(* The inductive invariant.                                                *)

Loose ==
  /\ now \in 0 .. MaxTime
  /\ attempts \in [Ids -> Attempt]
  /\ deadline \in [Ids -> Nat \cup {None}]
  /\ pages \subseteq Page
  /\ grants \in [Grants -> Grant]
  /\ told \in [Ids -> Grants \cup {None}]
  /\ lost \subseteq Ids
  /\ req \in [Requests -> Request]

Bounded == Cardinality(Present) <= MaxAttempts

(* Who a handler acts for, and which grant it brings back.                 *)
Named ==
  \A r \in Requests :
    /\ ~At(r, "idle") => req[r].id \in Ids /\ req[r].user \in Users
    /\ ~At(r, "finish") => req[r].grant = None
    /\ req[r].grant # None => grants[req[r].grant].id = req[r].id

Approving(r) == req[r].step \in {"granting", "finish"}
Shown(i, u)  == \E p \in pages : p.id = i /\ p.user = u

(* What an entry of the table stands for.                                  *)
Entries ==
  \A i \in Ids :
    /\ attempts[i].state # "absent" => deadline[i] = attempts[i].expires
    /\ attempts[i].nonce # None => Shown(i, attempts[i].user)
    /\ attempts[i].state = "ready" =>
         attempts[i].grant \in Grants /\ grants[attempts[i].grant].id = i
    /\ told[i] # None => grants[told[i]].id = i

(* The approval of an attempt is taken once: before it, nothing was granted*)
(* and nobody approves; while one handler approves, no other does; and     *)
(* until the grant is made there is none.                                  *)
Open(i) == deadline[i] = None \/ attempts[i].state = "pending"

Taken ==
  /\ \A i \in Ids : Open(i) =>
       /\ \A r \in Requests : Approving(r) => req[r].id # i
       /\ \A g \in Grants : grants[g].id # i
  /\ \A r \in Requests, q \in Requests :
       Approving(r) /\ Approving(q) /\ req[r].id = req[q].id => r = q
  /\ \A r \in Requests : At(r, "granting") => \A g \in Grants : grants[g].id # req[r].id

Shows == \A r \in Requests : Approving(r) => Shown(req[r].id, req[r].user)

(* The attempt of an approval that is not lost is there until it expires.  *)
Waiting ==
  \A r \in Requests :
    Approving(r) /\ req[r].id \notin lost /\ now < deadline[req[r].id] =>
      attempts[req[r].id].state = "issuing"

Inv ==
  /\ Loose /\ Bounded /\ Named /\ Entries /\ Taken /\ Shows /\ Waiting
  /\ OneGrant /\ ConsentedGrant /\ GrantDeliverable

-----------------------------------------------------------------------------
(* Forgetting what has expired.                                            *)

LEMMA PrunedTyped ==
  ASSUME Loose
  PROVE  /\ Pruned \in [Ids -> Attempt]
         /\ \A i \in Ids : Pruned[i] = IF Live(i) THEN attempts[i] ELSE NoAttempt
BY DEF Loose, Pruned, Attempt, NoAttempt

LEMMA BlankTyped == Blank \in Request
BY DEF Blank, Request

(* The entries of a pruned table are entries of the table.                 *)
LEMMA SubsetBounded ==
  ASSUME Loose, Bounded, Present' \subseteq Present
  PROVE  Bounded'
<1>1. IsFiniteSet(Present)
  BY FiniteAssumption, FS_Subset DEF Present
<1>2. Cardinality(Present') <= Cardinality(Present)
  BY <1>1, FS_Subset
<1>3. Cardinality(Present') \in Nat /\ Cardinality(Present) \in Nat
  BY <1>1, FS_Subset, FS_CardinalityType
<1> QED  BY <1>2, <1>3, BoundAssumption DEF Bounded

-----------------------------------------------------------------------------
(* Each action keeps the invariant.                                        *)

LEMMA BegunKeeps ==
  ASSUME Inv,
         NEW i \in Ids,
         deadline[i] = None,
         ~(Cardinality({j \in Ids : Live(j)}) >= MaxAttempts),
         attempts' = [Pruned EXCEPT ![i] = [NoAttempt EXCEPT !.state = "pending", !.expires = now + Ttl]],
         deadline' = [deadline EXCEPT ![i] = now + Ttl],
         UNCHANGED <<now, pages, grants, told, lost, req>>
  PROVE  Inv'
<1> USE DEF Loose, Named, Entries, Taken, Shows, Waiting, OneGrant, ConsentedGrant, GrantDeliverable,
            At, End, Live, Pending, Approving, Shown, Open, Made, history
<1>0. Loose /\ Bounded  BY DEF Inv
<1>p. /\ Pruned \in [Ids -> Attempt]
      /\ \A j \in Ids : Pruned[j] = IF Live(j) THEN attempts[j] ELSE NoAttempt
  BY <1>0, PrunedTyped
<1>q. /\ \A j \in Ids : attempts'[j] = IF j = i THEN [NoAttempt EXCEPT !.state = "pending", !.expires = now + Ttl]
                                          ELSE Pruned[j]
      /\ now + Ttl \in Nat
  BY <1>0, <1>p, BoundAssumption
<1>1. Loose'
  BY <1>0, <1>p, <1>q, BlankTyped, BoundAssumption DEF Inv, Request, Attempt, NoAttempt, Page, Grant
<1>2. Bounded'
  <2> DEFINE L == {j \in Ids : Live(j)}
  <2>1. IsFiniteSet(L) /\ Cardinality(L) \in Nat
    BY FiniteAssumption, FS_Subset, FS_CardinalityType
  <2>2. Present' \subseteq L \cup {i}
    BY <1>p, <1>q DEF Present, NoAttempt
  <2> HIDE DEF L
  <2>3. IsFiniteSet(L \cup {i}) /\ Cardinality(L \cup {i}) <= Cardinality(L) + 1
    <3>1. Cardinality(L \cup {i}) = Cardinality(L) \/ Cardinality(L \cup {i}) = Cardinality(L) + 1
      BY <2>1, FS_AddElement
    <3> QED  BY <2>1, <3>1, FS_AddElement
  <2>4. IsFiniteSet(Present') /\ Cardinality(Present') <= Cardinality(L \cup {i})
    BY <2>2, <2>3, FS_Subset
  <2>5. Cardinality(Present') \in Nat /\ Cardinality(L \cup {i}) \in Nat
    BY <2>3, <2>4, FS_CardinalityType
  <2>6. Cardinality(L) < MaxAttempts
    BY <2>1, BoundAssumption DEF L
  <2> QED  BY <2>1, <2>3, <2>4, <2>5, <2>6, BoundAssumption DEF Bounded
<1>3. Named'
  BY <1>0, <1>p, <1>q, AbsentAssumption DEF Inv, Blank, Request, NoGrant
<1>4. Entries'
  BY <1>0, <1>p, <1>q, AbsentAssumption DEF Inv, NoAttempt, Attempt, Request, NoGrant, Page
<1>5. Taken'
  BY <1>0, <1>p, <1>q, AbsentAssumption DEF Inv, NoAttempt, Attempt, Blank, NoGrant, Request
<1>6. Shows'
  BY <1>0, <1>p, <1>q, AbsentAssumption DEF Inv, Blank, Request, Attempt
<1>7. Waiting'
  BY <1>0, <1>p, <1>q, AbsentAssumption DEF Inv, NoAttempt, Attempt, Blank, Request
<1>8. OneGrant'
  BY <1>0, <1>p, <1>q, AbsentAssumption DEF Inv, NoGrant, Grant, Request
<1>9. ConsentedGrant'
  BY <1>0, <1>p, <1>q, AbsentAssumption DEF Inv, NoGrant, Grant, Request
<1>10. GrantDeliverable'
  BY <1>0, <1>p, <1>q, AbsentAssumption DEF Inv, NoAttempt, Attempt, NoGrant, Grant, Blank, Request
<1> QED  BY <1>1, <1>2, <1>3, <1>4, <1>5, <1>6, <1>7, <1>8, <1>9, <1>10 DEF Inv

LEMMA PrunedKeeps ==
  ASSUME Inv,
         attempts' = Pruned,
         UNCHANGED <<now, history, req>>
  PROVE  Inv'
<1> USE DEF Loose, Named, Entries, Taken, Shows, Waiting, OneGrant, ConsentedGrant, GrantDeliverable,
            At, End, Live, Pending, Approving, Shown, Open, Made, history
<1>0. Loose /\ Bounded  BY DEF Inv
<1>p. /\ Pruned \in [Ids -> Attempt]
      /\ \A j \in Ids : Pruned[j] = IF Live(j) THEN attempts[j] ELSE NoAttempt
  BY <1>0, PrunedTyped
<1>1. Loose'
  BY <1>0, <1>p, BlankTyped, BoundAssumption DEF Inv, Request, Attempt, NoAttempt, Page, Grant
<1>2. Bounded'
  <2>1. Present' \subseteq Present  BY <1>0, <1>p DEF Present, NoAttempt, Attempt
  <2> QED  BY <1>0, <2>1, SubsetBounded
<1>3. Named'
  BY <1>0, <1>p, AbsentAssumption DEF Inv, Blank, Request, NoGrant
<1>4. Entries'
  BY <1>0, <1>p, AbsentAssumption DEF Inv, NoAttempt, Attempt, Request, NoGrant, Page
<1>5. Taken'
  BY <1>0, <1>p, AbsentAssumption DEF Inv, NoAttempt, Attempt, Blank, NoGrant, Request
<1>6. Shows'
  BY <1>0, <1>p, AbsentAssumption DEF Inv, Blank, Request, Attempt
<1>7. Waiting'
  BY <1>0, <1>p, AbsentAssumption DEF Inv, NoAttempt, Attempt, Blank, Request
<1>8. OneGrant'
  BY <1>0, <1>p, AbsentAssumption DEF Inv, NoGrant, Grant, Request
<1>9. ConsentedGrant'
  BY <1>0, <1>p, AbsentAssumption DEF Inv, NoGrant, Grant, Request
<1>10. GrantDeliverable'
  BY <1>0, <1>p, AbsentAssumption DEF Inv, NoAttempt, Attempt, NoGrant, Grant, Blank, Request
<1> QED  BY <1>1, <1>2, <1>3, <1>4, <1>5, <1>6, <1>7, <1>8, <1>9, <1>10 DEF Inv

LEMMA PolledKeeps ==
  ASSUME Inv,
         NEW i \in Ids,
         Poll(i)
  PROVE  Inv'
<1> USE DEF Loose, Named, Entries, Taken, Shows, Waiting, OneGrant, ConsentedGrant, GrantDeliverable,
            Poll, At, End, Live, Pending, Approving, Shown, Open, Made, history
<1>0. Loose /\ Bounded  BY DEF Inv
<1>p. /\ Pruned \in [Ids -> Attempt]
      /\ \A j \in Ids : Pruned[j] = IF Live(j) THEN attempts[j] ELSE NoAttempt
  BY <1>0, PrunedTyped
<1>1. Loose'
  BY <1>0, <1>p, BlankTyped, BoundAssumption DEF Inv, Request, Attempt, NoAttempt, Page, Grant
<1>2. Bounded'
  <2>1. Present' \subseteq Present  BY <1>0, <1>p DEF Present, NoAttempt, Attempt
  <2> QED  BY <1>0, <2>1, SubsetBounded
<1>3. Named'
  BY <1>0, <1>p, AbsentAssumption DEF Inv, Blank, Request, NoGrant
<1>4. Entries'
  BY <1>0, <1>p, AbsentAssumption DEF Inv, NoAttempt, Attempt, Request, NoGrant, Page
<1>5. Taken'
  BY <1>0, <1>p, AbsentAssumption DEF Inv, NoAttempt, Attempt, Blank, NoGrant, Request
<1>6. Shows'
  BY <1>0, <1>p, AbsentAssumption DEF Inv, Blank, Request, Attempt
<1>7. Waiting'
  BY <1>0, <1>p, AbsentAssumption DEF Inv, NoAttempt, Attempt, Blank, Request
<1>8. OneGrant'
  BY <1>0, <1>p, AbsentAssumption DEF Inv, NoGrant, Grant, Request
<1>9. ConsentedGrant'
  BY <1>0, <1>p, AbsentAssumption DEF Inv, NoGrant, Grant, Request
<1>10. GrantDeliverable'
  BY <1>p DEF Inv, NoAttempt, Grant
<1> QED  BY <1>1, <1>2, <1>3, <1>4, <1>5, <1>6, <1>7, <1>8, <1>9, <1>10 DEF Inv

LEMMA AuthorizeKeeps ==
  ASSUME Inv,
         NEW r \in Requests,
         NEW i \in Ids,
         NEW u \in Users,
         Authorize(r, i, u)
  PROVE  Inv'
<1> USE DEF Loose, Named, Entries, Taken, Shows, Waiting, OneGrant, ConsentedGrant, GrantDeliverable,
            Authorize, At, End, Live, Pending, Approving, Shown, Open, Made, history
<1>0. Loose /\ Bounded  BY DEF Inv
<1>p. /\ Pruned \in [Ids -> Attempt]
      /\ \A j \in Ids : Pruned[j] = IF Live(j) THEN attempts[j] ELSE NoAttempt
  BY <1>0, PrunedTyped
<1>1. Loose'
  BY <1>0, <1>p, BlankTyped, BoundAssumption DEF Inv, Request, Attempt, NoAttempt, Page, Grant
<1>2. Bounded'
  <2>1. Present' \subseteq Present  BY <1>0, <1>p DEF Present, NoAttempt, Attempt
  <2> QED  BY <1>0, <2>1, SubsetBounded
<1>3. Named'
  BY <1>0, <1>p, AbsentAssumption DEF Inv, Blank, Request, NoGrant
<1>4. Entries'
  BY <1>0, <1>p, AbsentAssumption DEF Inv, NoAttempt, Attempt, Request, NoGrant, Page
<1>5. Taken'
  BY <1>0, <1>p, AbsentAssumption DEF Inv, NoAttempt, Attempt, Blank, NoGrant, Request
<1>6. Shows'
  BY <1>0, <1>p, AbsentAssumption DEF Inv, Blank, Request, Attempt
<1>7. Waiting'
  BY <1>0, <1>p, AbsentAssumption DEF Inv, NoAttempt, Attempt, Blank, Request
<1>8. OneGrant'
  BY <1>0, <1>p, AbsentAssumption DEF Inv, NoGrant, Grant, Request
<1>9. ConsentedGrant'
  BY <1>0, <1>p, AbsentAssumption DEF Inv, NoGrant, Grant, Request
<1>10. GrantDeliverable'
  BY <1>0, <1>p, AbsentAssumption DEF Inv, NoAttempt, Attempt, NoGrant, Grant, Blank, Request
<1> QED  BY <1>1, <1>2, <1>3, <1>4, <1>5, <1>6, <1>7, <1>8, <1>9, <1>10 DEF Inv

LEMMA NotShownKeeps ==
  ASSUME Inv,
         NEW r \in Requests,
         At(r, "consent"),
         attempts' = Pruned,
         End(r),
         UNCHANGED <<now, history>>
  PROVE  Inv'
<1> USE DEF Loose, Named, Entries, Taken, Shows, Waiting, OneGrant, ConsentedGrant, GrantDeliverable,
            At, End, Live, Pending, Approving, Shown, Open, Made, history
<1>0. Loose /\ Bounded  BY DEF Inv
<1>p. /\ Pruned \in [Ids -> Attempt]
      /\ \A j \in Ids : Pruned[j] = IF Live(j) THEN attempts[j] ELSE NoAttempt
  BY <1>0, PrunedTyped
<1>q. /\ \A q \in Requests : Approving(q)' => Approving(q) /\ q # r /\ req'[q] = req[q]
      /\ \A j \in Ids : Open(j)' => Open(j)
  BY <1>0, <1>p DEF Blank, NoAttempt
<1>1. Loose'
  BY <1>0, <1>p, <1>q, BlankTyped, BoundAssumption DEF Inv, Request, Attempt, NoAttempt, Page, Grant
<1>2. Bounded'
  <2>1. Present' \subseteq Present  BY <1>0, <1>p, <1>q DEF Present, NoAttempt, Attempt
  <2> QED  BY <1>0, <2>1, SubsetBounded
<1>3. Named'
  BY <1>0, <1>p, <1>q, AbsentAssumption DEF Inv, Blank, Request, NoGrant
<1>4. Entries'
  BY <1>0, <1>p, <1>q, AbsentAssumption DEF Inv, NoAttempt, Attempt, Request, NoGrant, Page
<1>5. Taken'
  BY <1>0, <1>p, <1>q, AbsentAssumption DEF Inv, NoAttempt, Attempt, Blank, NoGrant, Request
<1>6. Shows'
  BY <1>0, <1>p, <1>q, AbsentAssumption DEF Inv, Blank, Request, Attempt
<1>7. Waiting'
  BY <1>0, <1>p, <1>q DEF Inv
<1>8. OneGrant'
  BY <1>0, <1>p, <1>q, AbsentAssumption DEF Inv, NoGrant, Grant, Request
<1>9. ConsentedGrant'
  BY <1>0, <1>p, <1>q, AbsentAssumption DEF Inv, NoGrant, Grant, Request
<1>10. GrantDeliverable'
  BY <1>0, <1>p, <1>q, AbsentAssumption DEF Inv, NoAttempt, Attempt, NoGrant, Grant, Blank, Request
<1> QED  BY <1>1, <1>2, <1>3, <1>4, <1>5, <1>6, <1>7, <1>8, <1>9, <1>10 DEF Inv

Rewritten(i, n, u) == attempts' = [Pruned EXCEPT ![i].nonce = n, ![i].user = u]

LEMMA ShownTable ==
  ASSUME Loose, NEW i \in Ids, NEW n \in Nonces, NEW u \in Users, Live(i), Rewritten(i, n, u)
  PROVE  /\ attempts' \in [Ids -> Attempt]
         /\ \A j \in Ids : j # i => attempts'[j] = Pruned[j]
         /\ attempts'[i].state = attempts[i].state /\ attempts'[i].expires = attempts[i].expires
         /\ attempts'[i].grant = attempts[i].grant
         /\ attempts'[i].nonce = n /\ attempts'[i].user = u
<1> DEFINE a == [[attempts[i] EXCEPT !.nonce = n] EXCEPT !.user = u]
<1>1. Pruned \in [Ids -> Attempt] /\ Pruned[i] = attempts[i] /\ attempts[i] \in Attempt
  BY PrunedTyped DEF Loose
<1>2. attempts' = [Pruned EXCEPT ![i] = a]
  BY <1>1 DEF Attempt, Rewritten
<1>3. a \in Attempt
  BY <1>1 DEF Attempt
<1>4. /\ a.state = attempts[i].state /\ a.expires = attempts[i].expires
      /\ a.grant = attempts[i].grant /\ a.nonce = n /\ a.user = u
  BY <1>1 DEF Attempt
<1> HIDE DEF a
<1> QED  BY <1>1, <1>2, <1>3, <1>4

LEMMA ShownKeeps ==
  ASSUME Inv,
         NEW r \in Requests,
         NEW i \in Ids,
         NEW n \in Nonces,
         NEW u \in Users,
         At(r, "consent"),
         req[r].id = i,
         Pending(i),
         attempts' \in [Ids -> Attempt],
         \A j \in Ids : j # i => attempts'[j] = Pruned[j],
         attempts'[i].state = attempts[i].state,
         attempts'[i].expires = attempts[i].expires,
         attempts'[i].grant = attempts[i].grant,
         attempts'[i].nonce = n,
         attempts'[i].user = u,
         pages' = pages \cup {[id |-> i, nonce |-> n, user |-> u]},
         End(r),
         UNCHANGED <<now, deadline, grants, told, lost>>
  PROVE  Inv'
<1> USE DEF Loose, Named, Entries, Taken, Shows, Waiting, OneGrant, ConsentedGrant, GrantDeliverable,
            At, End, Live, Pending, Approving, Shown, Open, Made, history
<1>0. Loose /\ Bounded  BY DEF Inv
<1>p. /\ Pruned \in [Ids -> Attempt]
      /\ \A j \in Ids : Pruned[j] = IF Live(j) THEN attempts[j] ELSE NoAttempt
  BY <1>0, PrunedTyped
<1>q. /\ ~Approving(r)
      /\ [id |-> i, nonce |-> n, user |-> u] \in Page
      /\ Blank \in Request
      /\ \A q \in Requests : req'[q] = IF q = r THEN Blank ELSE req[q]
      /\ \A j \in Ids : attempts'[j].state # "absent" =>
           attempts[j].state = attempts'[j].state /\ attempts[j].expires = attempts'[j].expires
           /\ attempts[j].grant = attempts'[j].grant
      /\ \A j \in Ids : attempts'[j].nonce # None /\ j # i => attempts'[j] = attempts[j]
  <2>1. \A q \in Requests : req'[q] = IF q = r THEN Blank ELSE req[q]  BY <1>0
  <2>2. \A j \in Ids \ {i} : attempts'[j].state # "absent" => attempts'[j] = attempts[j]
    BY <1>p DEF NoAttempt
  <2>3. \A j \in Ids \ {i} : attempts'[j].nonce # None => attempts'[j] = attempts[j]
    BY <1>p DEF NoAttempt
  <2> QED  BY <1>0, <2>1, <2>2, <2>3, BlankTyped DEF Page
<1>1. Loose'
  BY <1>0, <1>p, <1>q, BlankTyped, BoundAssumption DEF Inv, Request, Attempt, NoAttempt, Page, Grant
<1>2. Bounded'
  <2>1. Present' \subseteq Present  BY <1>0, <1>p, <1>q DEF Present, NoAttempt, Attempt
  <2> QED  BY <1>0, <2>1, SubsetBounded
<1>3. Named'
  BY <1>0, <1>p, <1>q, AbsentAssumption DEF Inv, Blank, Request, NoGrant
<1>4. Entries'
  <2> SUFFICES ASSUME NEW j \in Ids PROVE
        /\ attempts'[j].state # "absent" => deadline'[j] = attempts'[j].expires
        /\ attempts'[j].nonce # None => Shown(j, attempts[j].user)'
        /\ attempts'[j].state = "ready" =>
             attempts'[j].grant \in Grants /\ grants'[attempts'[j].grant].id = j
        /\ told'[j] # None => grants'[told'[j]].id = j
    OBVIOUS
  <2>1. attempts'[j].nonce # None => Shown(j, attempts[j].user)'
    <3>1. CASE j = i
      <4>1. [id |-> i, nonce |-> n, user |-> u] \in pages'  OBVIOUS
      <4>2. attempts'[j].user = u  BY <3>1
      <4> QED  BY <3>1, <4>1, <4>2
    <3>2. CASE j # i
      <4>1. SUFFICES ASSUME attempts'[j].nonce # None PROVE Shown(j, attempts[j].user)'  OBVIOUS
      <4>2. attempts'[j] = attempts[j]  BY <1>q, <3>2, <4>1
      <4>3. PICK p \in pages : p.id = j /\ p.user = attempts[j].user  BY <4>1, <4>2 DEF Inv
      <4> QED  BY <4>2, <4>3
    <3> QED  BY <3>1, <3>2
  <2>2. attempts'[j].state # "absent" => deadline'[j] = attempts'[j].expires
    BY <1>q DEF Inv
  <2>3. attempts'[j].state = "ready" =>
          attempts'[j].grant \in Grants /\ grants'[attempts'[j].grant].id = j
    BY <1>q DEF Inv
  <2>4. told'[j] # None => grants'[told'[j]].id = j
    BY DEF Inv
  <2> QED  BY <2>1, <2>2, <2>3, <2>4
<1>5. Taken'
  BY <1>0, <1>p, <1>q, AbsentAssumption DEF Inv, NoAttempt, Attempt, Blank, NoGrant, Request
<1>6. Shows'
  BY <1>0, <1>p, <1>q, AbsentAssumption DEF Inv, Blank, Request, Attempt
<1>7. Waiting'
  BY <1>p DEF Inv, Blank, Request
<1>8. OneGrant'
  BY <1>0, <1>p, <1>q, AbsentAssumption DEF Inv, NoGrant, Grant, Request
<1>9. ConsentedGrant'
  BY <1>0, <1>p, <1>q, AbsentAssumption DEF Inv, NoGrant, Grant, Request
<1>10. GrantDeliverable'
  BY SMTT(30), <1>p, <1>q DEF Inv, Grant
<1> QED  BY <1>1, <1>2, <1>3, <1>4, <1>5, <1>6, <1>7, <1>8, <1>9, <1>10 DEF Inv

LEMMA ClaimedKeeps ==
  ASSUME Inv,
         NEW r \in Requests,
         NEW i \in Ids,
         NEW n \in Nonces,
         NEW u \in Users,
         At(r, "idle"),
         Pending(i),
         attempts[i].nonce = n,
         attempts[i].user = u,
         Claimed(r, i, u),
         UNCHANGED <<now, history>>
  PROVE  Inv'
<1> USE DEF Loose, Named, Entries, Taken, Shows, Waiting, OneGrant, ConsentedGrant, GrantDeliverable,
            Claimed, At, End, Live, Pending, Approving, Shown, Open, Made, history
<1>0. Loose /\ Bounded  BY DEF Inv
<1>p. /\ Pruned \in [Ids -> Attempt]
      /\ \A j \in Ids : Pruned[j] = IF Live(j) THEN attempts[j] ELSE NoAttempt
  BY <1>0, PrunedTyped
<1>q. /\ \A j \in Ids : attempts'[j] =
            IF j = i THEN [attempts[i] EXCEPT !.state = "issuing", !.nonce = None, !.user = None] ELSE Pruned[j]
      /\ [Blank EXCEPT !.step = "granting", !.id = i, !.user = u] \in Request
      /\ \A q \in Requests : req'[q] =
            IF q = r THEN [step |-> "granting", id |-> i, user |-> u, grant |-> None] ELSE req[q]
      /\ Shown(i, u) /\ deadline[i] # None
      /\ [attempts[i] EXCEPT !.state = "issuing", !.nonce = None, !.user = None] \in Attempt
  BY <1>p, AbsentAssumption DEF Request, Attempt
<1>1. Loose'
  BY <1>0, <1>p, <1>q, BlankTyped, BoundAssumption DEF Inv, Request, Attempt, NoAttempt, Page, Grant
<1>2. Bounded'
  <2>1. Present' \subseteq Present  BY <1>0, <1>p, <1>q DEF Present, NoAttempt, Attempt
  <2> QED  BY <1>0, <2>1, SubsetBounded
<1>3. Named'
  BY <1>0, <1>p, <1>q, AbsentAssumption DEF Inv, Blank, Request, NoGrant
<1>4. Entries'
  BY <1>0, <1>p, <1>q, AbsentAssumption DEF Inv, NoAttempt, Attempt, Request, NoGrant, Page
<1>5. Taken'
  BY <1>0, <1>p, <1>q, AbsentAssumption DEF Inv, NoAttempt, Attempt, Blank, NoGrant, Request
<1>6. Shows'
  BY <1>0, <1>p, <1>q, AbsentAssumption DEF Inv, Blank, Request, Attempt
<1>7. Waiting'
  BY <1>0, <1>p, <1>q, AbsentAssumption DEF Inv, NoAttempt, Attempt, Blank, Request
<1>8. OneGrant'
  BY <1>0, <1>p, <1>q, AbsentAssumption DEF Inv, NoGrant, Grant, Request
<1>9. ConsentedGrant'
  BY <1>0, <1>p, <1>q, AbsentAssumption DEF Inv, NoGrant, Grant, Request
<1>10. GrantDeliverable'
  BY <1>0, <1>p, <1>q, AbsentAssumption DEF Inv, NoAttempt, Attempt, NoGrant, Grant, Blank, Request
<1> QED  BY <1>1, <1>2, <1>3, <1>4, <1>5, <1>6, <1>7, <1>8, <1>9, <1>10 DEF Inv

LEMMA RequestSet ==
  ASSUME Loose, NEW r \in Requests, NEW step, NEW g,
         req' = [req EXCEPT ![r].step = step, ![r].grant = g]
  PROVE  req' = [req EXCEPT ![r] = [[req[r] EXCEPT !.step = step] EXCEPT !.grant = g]]
BY DEF Loose

LEMMA GrantedKeeps ==
  ASSUME Inv,
         NEW r \in Requests,
         NEW g \in Grants,
         At(r, "granting"),
         grants[g] = NoGrant,
         grants' = [grants EXCEPT ![g] = [id |-> req[r].id, user |-> req[r].user]],
         req' = [req EXCEPT ![r].step = "finish", ![r].grant = g],
         UNCHANGED <<now, attempts, deadline, pages, told, lost>>
  PROVE  Inv'
<1> USE DEF Loose, Named, Entries, Taken, Shows, Waiting, OneGrant, ConsentedGrant, GrantDeliverable,
            At, End, Live, Pending, Approving, Shown, Open, Made, history
<1>0. Loose /\ Bounded  BY DEF Inv
<1>p. /\ Pruned \in [Ids -> Attempt]
      /\ \A j \in Ids : Pruned[j] = IF Live(j) THEN attempts[j] ELSE NoAttempt
  BY <1>0, PrunedTyped
<1>q. /\ req[r].id \in Ids /\ req[r].user \in Users /\ req[r].grant = None
      /\ \A h \in Grants : grants'[h] = IF h = g THEN [id |-> req[r].id, user |-> req[r].user] ELSE grants[h]
      /\ \A q \in Requests : q # r => req'[q] = req[q]
      /\ req' \in [Requests -> Request]
      /\ req'[r].step = "finish" /\ req'[r].id = req[r].id
      /\ req'[r].user = req[r].user /\ req'[r].grant = g
      /\ grants[g].id = None
  <2> DEFINE a == [[req[r] EXCEPT !.step = "finish"] EXCEPT !.grant = g]
  <2>1. req[r] \in Request /\ req[r].grant = None  BY <1>0 DEF Inv
  <2>2. /\ a \in Request
        /\ a.step = "finish" /\ a.id = req[r].id /\ a.user = req[r].user /\ a.grant = g
    BY <2>1 DEF Request
  <2>3. req' = [req EXCEPT ![r] = a]
    BY <1>0, RequestSet
  <2> HIDE DEF a
  <2>4. /\ \A q \in Requests : q # r => req'[q] = req[q]
        /\ req' \in [Requests -> Request]
        /\ req'[r] = a
    BY <1>0, <2>2, <2>3
  <2>5. grants[g].id = None /\ grants \in [Grants -> Grant]  BY <1>0 DEF NoGrant
  <2>6. req[r].id \in Ids /\ req[r].user \in Users  BY DEF Inv
  <2> QED  BY <2>1, <2>2, <2>4, <2>5, <2>6
<1>1. Loose'
  BY <1>0, <1>p, <1>q, BlankTyped, BoundAssumption DEF Inv, Request, Attempt, NoAttempt, Page, Grant
<1>2. Bounded'
  <2>1. Present' \subseteq Present  BY <1>0, <1>p, <1>q DEF Present, NoAttempt, Attempt
  <2> QED  BY <1>0, <2>1, SubsetBounded
<1>3. Named'
  BY <1>0, <1>p, <1>q, AbsentAssumption DEF Inv, Blank, Request, NoGrant
<1>4. Entries'
  BY <1>0, <1>p, <1>q, AbsentAssumption DEF Inv, NoAttempt, Attempt, Request, NoGrant, Page
<1>5. Taken'
  BY <1>0, <1>p, <1>q, AbsentAssumption DEF Inv, NoAttempt, Attempt, Blank, NoGrant, Request
<1>6. Shows'
  BY <1>0, <1>p, <1>q, AbsentAssumption DEF Inv, Blank, Request, Attempt
<1>7. Waiting'
  BY <1>0, <1>p, <1>q, AbsentAssumption DEF Inv, NoAttempt, Attempt, Blank, Request
<1>8. OneGrant'
  BY <1>0, <1>p, <1>q, AbsentAssumption DEF Inv, NoGrant, Grant, Request
<1>9. ConsentedGrant'
  BY <1>0, <1>p, <1>q, AbsentAssumption DEF Inv, NoGrant, Grant, Request
<1>10. GrantDeliverable'
  BY <1>0, <1>p, <1>q, AbsentAssumption DEF Inv, NoAttempt, Attempt, NoGrant, Grant, Blank, Request
<1> QED  BY <1>1, <1>2, <1>3, <1>4, <1>5, <1>6, <1>7, <1>8, <1>9, <1>10 DEF Inv

LEMMA RefuseGrantKeeps ==
  ASSUME Inv,
         NEW r \in Requests,
         RefuseGrant(r)
  PROVE  Inv'
<1> USE DEF Loose, Named, Entries, Taken, Shows, Waiting, OneGrant, ConsentedGrant, GrantDeliverable,
            RefuseGrant, At, End, Live, Pending, Approving, Shown, Open, Made, history
<1>0. Loose /\ Bounded  BY DEF Inv
<1>p. /\ Pruned \in [Ids -> Attempt]
      /\ \A j \in Ids : Pruned[j] = IF Live(j) THEN attempts[j] ELSE NoAttempt
  BY <1>0, PrunedTyped
<1>1. Loose'
  BY <1>0, <1>p, BlankTyped, BoundAssumption DEF Inv, Request, Attempt, NoAttempt, Page, Grant
<1>2. Bounded'
  <2>1. Present' \subseteq Present  BY <1>0, <1>p DEF Present, NoAttempt, Attempt
  <2> QED  BY <1>0, <2>1, SubsetBounded
<1>3. Named'
  BY <1>0, <1>p, AbsentAssumption DEF Inv, Blank, Request, NoGrant
<1>4. Entries'
  BY <1>0, <1>p, AbsentAssumption DEF Inv, NoAttempt, Attempt, Request, NoGrant, Page
<1>5. Taken'
  BY <1>0, <1>p, AbsentAssumption DEF Inv, NoAttempt, Attempt, Blank, NoGrant, Request
<1>6. Shows'
  BY <1>0, <1>p, AbsentAssumption DEF Inv, Blank, Request, Attempt
<1>7. Waiting'
  BY <1>0, <1>p, AbsentAssumption DEF Inv, NoAttempt, Attempt, Blank, Request
<1>8. OneGrant'
  BY <1>0, <1>p, AbsentAssumption DEF Inv, NoGrant, Grant, Request
<1>9. ConsentedGrant'
  BY <1>0, <1>p, AbsentAssumption DEF Inv, NoGrant, Grant, Request
<1>10. GrantDeliverable'
  <2>1. ASSUME NEW q \in Requests, req[q].step = "finish"
        PROVE  req'[q].step = "finish" /\ req'[q].grant = req[q].grant
    BY <1>0, <2>1 DEF Request
  <2>2. GrantDeliverable  BY Zenon DEF Inv
  <2> QED  BY <2>1, <2>2
<1> QED  BY <1>1, <1>2, <1>3, <1>4, <1>5, <1>6, <1>7, <1>8, <1>9, <1>10 DEF Inv

LEMMA FinishKeeps ==
  ASSUME Inv,
         NEW r \in Requests,
         Finish(r)
  PROVE  Inv'
<1> USE DEF Loose, Named, Entries, Taken, Shows, Waiting, OneGrant, ConsentedGrant, GrantDeliverable,
            Finish, At, End, Live, Pending, Approving, Shown, Open, Made, history
<1>0. Loose /\ Bounded  BY DEF Inv
<1>p. /\ Pruned \in [Ids -> Attempt]
      /\ \A j \in Ids : Pruned[j] = IF Live(j) THEN attempts[j] ELSE NoAttempt
  BY <1>0, PrunedTyped
<1>q. /\ req[r].id \in Ids /\ req[r] \in Request
      /\ attempts' \in [Ids -> Attempt]
      /\ req' \in [Requests -> Request]
      /\ \A j \in Ids \ {req[r].id} : attempts'[j] = Pruned[j]
  <2>1. req[r].id \in Ids /\ req[r].grant \in Grants \cup {None} /\ req[r] \in Request
    BY <1>0 DEF Inv, Request
  <2>2. req' \in [Requests -> Request]  BY <1>0, BlankTyped
  <2>3. attempts' \in [Ids -> Attempt]  BY <1>p, <2>1 DEF Attempt
  <2>4. \A j \in Ids \ {req[r].id} : attempts'[j] = Pruned[j]  BY <1>p, <2>1
  <2> QED  BY <2>1, <2>2, <2>3, <2>4
<1>1. Loose'
  BY <1>0, <1>p, <1>q, BlankTyped, BoundAssumption DEF Inv, Request, Attempt, NoAttempt, Page, Grant
<1>2. Bounded'
  <2>1. Present' \subseteq Present  BY <1>0, <1>p, <1>q DEF Present, NoAttempt, Attempt
  <2> QED  BY <1>0, <2>1, SubsetBounded
<1>3. Named'
  BY <1>0, <1>p, <1>q, AbsentAssumption DEF Inv, Blank, Request, NoGrant
<1>4. Entries'
  BY <1>p DEF Inv, NoAttempt, Request
<1>5. Taken'
  BY <1>p DEF Inv, NoAttempt, Blank
<1>6. Shows'
  BY <1>0, <1>p, <1>q, AbsentAssumption DEF Inv, Blank, Request, Attempt
<1>7. Waiting'
  BY <1>0, <1>p, <1>q, AbsentAssumption DEF Inv, NoAttempt, Attempt, Blank, Request
<1>8. OneGrant'
  BY <1>0, <1>p, <1>q, AbsentAssumption DEF Inv, NoGrant, Grant, Request
<1>9. ConsentedGrant'
  BY <1>0, <1>p, <1>q, AbsentAssumption DEF Inv, NoGrant, Grant, Request
<1>10. GrantDeliverable'
  BY <1>0, <1>p, <1>q, AbsentAssumption DEF Inv, NoAttempt, Attempt, NoGrant, Grant, Blank, Request
<1> QED  BY <1>1, <1>2, <1>3, <1>4, <1>5, <1>6, <1>7, <1>8, <1>9, <1>10 DEF Inv

LEMMA LoseAnswerKeeps ==
  ASSUME Inv,
         NEW r \in Requests,
         LoseAnswer(r)
  PROVE  Inv'
<1> USE DEF Loose, Named, Entries, Taken, Shows, Waiting, OneGrant, ConsentedGrant, GrantDeliverable,
            LoseAnswer, At, End, Live, Pending, Approving, Shown, Open, Made, history
<1>0. Loose /\ Bounded  BY DEF Inv
<1>p. /\ Pruned \in [Ids -> Attempt]
      /\ \A j \in Ids : Pruned[j] = IF Live(j) THEN attempts[j] ELSE NoAttempt
  BY <1>0, PrunedTyped
<1>q. req[r].id \in Ids  BY <1>0 DEF Inv
<1>1. Loose'
  BY <1>0, <1>p, <1>q, BlankTyped, BoundAssumption DEF Inv, Request, Attempt, NoAttempt, Page, Grant
<1>2. Bounded'
  <2>1. Present' \subseteq Present  BY <1>0, <1>p, <1>q DEF Present, NoAttempt, Attempt
  <2> QED  BY <1>0, <2>1, SubsetBounded
<1>3. Named'
  BY <1>0, <1>p, <1>q, AbsentAssumption DEF Inv, Blank, Request, NoGrant
<1>4. Entries'
  BY <1>0, <1>p, <1>q, AbsentAssumption DEF Inv, NoAttempt, Attempt, Request, NoGrant, Page
<1>5. Taken'
  BY <1>0, <1>p, <1>q, AbsentAssumption DEF Inv, NoAttempt, Attempt, Blank, NoGrant, Request
<1>6. Shows'
  BY <1>0, <1>p, <1>q, AbsentAssumption DEF Inv, Blank, Request, Attempt
<1>7. Waiting'
  BY <1>0, <1>p, <1>q, AbsentAssumption DEF Inv, NoAttempt, Attempt, Blank, Request
<1>8. OneGrant'
  BY <1>0, <1>p, <1>q, AbsentAssumption DEF Inv, NoGrant, Grant, Request
<1>9. ConsentedGrant'
  BY <1>0, <1>p, <1>q, AbsentAssumption DEF Inv, NoGrant, Grant, Request
<1>10. GrantDeliverable'
  BY <1>0, <1>p, <1>q, AbsentAssumption DEF Inv, NoAttempt, Attempt, NoGrant, Grant, Blank, Request
<1> QED  BY <1>1, <1>2, <1>3, <1>4, <1>5, <1>6, <1>7, <1>8, <1>9, <1>10 DEF Inv

LEMMA AbandonKeeps ==
  ASSUME Inv,
         NEW r \in Requests,
         Abandon(r)
  PROVE  Inv'
<1> USE DEF Loose, Named, Entries, Taken, Shows, Waiting, OneGrant, ConsentedGrant, GrantDeliverable,
            Abandon, At, End, Live, Pending, Approving, Shown, Open, Made, history
<1>0. Loose /\ Bounded  BY DEF Inv
<1>p. /\ Pruned \in [Ids -> Attempt]
      /\ \A j \in Ids : Pruned[j] = IF Live(j) THEN attempts[j] ELSE NoAttempt
  BY <1>0, PrunedTyped
<1>q. req[r].id \in Ids  BY <1>0 DEF Inv
<1>1. Loose'
  BY <1>0, <1>p, <1>q, BlankTyped, BoundAssumption DEF Inv, Request, Attempt, NoAttempt, Page, Grant
<1>2. Bounded'
  <2>1. Present' \subseteq Present  BY <1>0, <1>p, <1>q DEF Present, NoAttempt, Attempt
  <2> QED  BY <1>0, <2>1, SubsetBounded
<1>3. Named'
  BY <1>0, <1>p, <1>q, AbsentAssumption DEF Inv, Blank, Request, NoGrant
<1>4. Entries'
  BY <1>0, <1>p, <1>q, AbsentAssumption DEF Inv, NoAttempt, Attempt, Request, NoGrant, Page
<1>5. Taken'
  BY <1>0, <1>p, <1>q, AbsentAssumption DEF Inv, NoAttempt, Attempt, Blank, NoGrant, Request
<1>6. Shows'
  BY <1>0, <1>p, <1>q, AbsentAssumption DEF Inv, Blank, Request, Attempt
<1>7. Waiting'
  BY <1>0, <1>p, <1>q, AbsentAssumption DEF Inv, NoAttempt, Attempt, Blank, Request
<1>8. OneGrant'
  BY <1>0, <1>p, <1>q, AbsentAssumption DEF Inv, NoGrant, Grant, Request
<1>9. ConsentedGrant'
  BY <1>0, <1>p, <1>q, AbsentAssumption DEF Inv, NoGrant, Grant, Request
<1>10. GrantDeliverable'
  BY <1>0, <1>p, <1>q, AbsentAssumption DEF Inv, NoAttempt, Attempt, NoGrant, Grant, Blank, Request
<1> QED  BY <1>1, <1>2, <1>3, <1>4, <1>5, <1>6, <1>7, <1>8, <1>9, <1>10 DEF Inv

LEMMA RestartKeeps ==
  ASSUME Inv,
         Restart
  PROVE  Inv'
<1> USE DEF Loose, Named, Entries, Taken, Shows, Waiting, OneGrant, ConsentedGrant, GrantDeliverable,
            Restart, At, End, Live, Pending, Approving, Shown, Open, Made, history
<1>0. Loose /\ Bounded  BY DEF Inv
<1>p. /\ Pruned \in [Ids -> Attempt]
      /\ \A j \in Ids : Pruned[j] = IF Live(j) THEN attempts[j] ELSE NoAttempt
  BY <1>0, PrunedTyped
<1>1. Loose'
  BY <1>0, <1>p, BlankTyped, BoundAssumption DEF Inv, Request, Attempt, NoAttempt, Page, Grant
<1>2. Bounded'
  <2>1. Present' \subseteq Present  BY <1>0, <1>p DEF Present, NoAttempt, Attempt
  <2> QED  BY <1>0, <2>1, SubsetBounded
<1>3. Named'
  BY <1>0, <1>p, AbsentAssumption DEF Inv, Blank, Request, NoGrant
<1>4. Entries'
  BY <1>0, <1>p, AbsentAssumption DEF Inv, NoAttempt, Attempt, Request, NoGrant, Page
<1>5. Taken'
  BY <1>0, <1>p, AbsentAssumption DEF Inv, NoAttempt, Attempt, Blank, NoGrant, Request
<1>6. Shows'
  BY <1>0, <1>p, AbsentAssumption DEF Inv, Blank, Request, Attempt
<1>7. Waiting'
  BY <1>0, <1>p, AbsentAssumption DEF Inv, NoAttempt, Attempt, Blank, Request
<1>8. OneGrant'
  BY <1>0, <1>p, AbsentAssumption DEF Inv, NoGrant, Grant, Request
<1>9. ConsentedGrant'
  BY <1>0, <1>p, AbsentAssumption DEF Inv, NoGrant, Grant, Request
<1>10. GrantDeliverable'
  BY <1>0, <1>p, AbsentAssumption DEF Inv, NoAttempt, Attempt, NoGrant, Grant, Blank, Request
<1> QED  BY <1>1, <1>2, <1>3, <1>4, <1>5, <1>6, <1>7, <1>8, <1>9, <1>10 DEF Inv

LEMMA TickKeeps ==
  ASSUME Inv,
         Tick
  PROVE  Inv'
<1> USE DEF Loose, Named, Entries, Taken, Shows, Waiting, OneGrant, ConsentedGrant, GrantDeliverable,
            Tick, At, End, Live, Pending, Approving, Shown, Open, Made, history
<1>0. Loose /\ Bounded  BY DEF Inv
<1>p. /\ Pruned \in [Ids -> Attempt]
      /\ \A j \in Ids : Pruned[j] = IF Live(j) THEN attempts[j] ELSE NoAttempt
  BY <1>0, PrunedTyped
<1>1. Loose'
  BY <1>0, <1>p, BlankTyped, BoundAssumption DEF Inv, Request, Attempt, NoAttempt, Page, Grant
<1>2. Bounded'
  <2>1. Present' \subseteq Present  BY <1>0, <1>p DEF Present, NoAttempt, Attempt
  <2> QED  BY <1>0, <2>1, SubsetBounded
<1>3. Named'
  BY <1>0, <1>p, AbsentAssumption DEF Inv, Blank, Request, NoGrant
<1>4. Entries'
  BY <1>0, <1>p, AbsentAssumption DEF Inv, NoAttempt, Attempt, Request, NoGrant, Page
<1>5. Taken'
  BY <1>0, <1>p, AbsentAssumption DEF Inv, NoAttempt, Attempt, Blank, NoGrant, Request
<1>6. Shows'
  BY <1>0, <1>p, AbsentAssumption DEF Inv, Blank, Request, Attempt
<1>7. Waiting'
  BY <1>0, <1>p, AbsentAssumption DEF Inv, NoAttempt, Attempt, Blank, Request
<1>8. OneGrant'
  BY <1>0, <1>p, AbsentAssumption DEF Inv, NoGrant, Grant, Request
<1>9. ConsentedGrant'
  BY <1>0, <1>p, AbsentAssumption DEF Inv, NoGrant, Grant, Request
<1>10. GrantDeliverable'
  BY <1>0, <1>p, AbsentAssumption DEF Inv, NoAttempt, Attempt, NoGrant, Grant, Blank, Request
<1> QED  BY <1>1, <1>2, <1>3, <1>4, <1>5, <1>6, <1>7, <1>8, <1>9, <1>10 DEF Inv

LEMMA StutterKeeps ==
  ASSUME Inv,
         UNCHANGED vars
  PROVE  Inv'
<1> USE DEF Loose, Named, Entries, Taken, Shows, Waiting, OneGrant, ConsentedGrant, GrantDeliverable,
            vars, At, End, Live, Pending, Approving, Shown, Open, Made, history
<1>0. Loose /\ Bounded  BY DEF Inv
<1>p. /\ Pruned \in [Ids -> Attempt]
      /\ \A j \in Ids : Pruned[j] = IF Live(j) THEN attempts[j] ELSE NoAttempt
  BY <1>0, PrunedTyped
<1>1. Loose'
  BY <1>0, <1>p, BlankTyped, BoundAssumption DEF Inv, Request, Attempt, NoAttempt, Page, Grant
<1>2. Bounded'
  <2>1. Present' \subseteq Present  BY <1>0, <1>p DEF Present, NoAttempt, Attempt
  <2> QED  BY <1>0, <2>1, SubsetBounded
<1>3. Named'
  BY <1>0, <1>p, AbsentAssumption DEF Inv, Blank, Request, NoGrant
<1>4. Entries'
  BY <1>0, <1>p, AbsentAssumption DEF Inv, NoAttempt, Attempt, Request, NoGrant, Page
<1>5. Taken'
  BY <1>0, <1>p, AbsentAssumption DEF Inv, NoAttempt, Attempt, Blank, NoGrant, Request
<1>6. Shows'
  BY <1>0, <1>p, AbsentAssumption DEF Inv, Blank, Request, Attempt
<1>7. Waiting'
  BY <1>0, <1>p, AbsentAssumption DEF Inv, NoAttempt, Attempt, Blank, Request
<1>8. OneGrant'
  BY <1>0, <1>p, AbsentAssumption DEF Inv, NoGrant, Grant, Request
<1>9. ConsentedGrant'
  BY <1>0, <1>p, AbsentAssumption DEF Inv, NoGrant, Grant, Request
<1>10. GrantDeliverable'
  BY <1>0, <1>p, AbsentAssumption DEF Inv, NoAttempt, Attempt, NoGrant, Grant, Blank, Request
<1> QED  BY <1>1, <1>2, <1>3, <1>4, <1>5, <1>6, <1>7, <1>8, <1>9, <1>10 DEF Inv

LEMMA InvInit == Init => Inv
<1> SUFFICES ASSUME Init PROVE Inv  OBVIOUS
<1>1. Present = {}
  BY DEF Init, Present, NoAttempt
<1>2. Bounded
  BY <1>1, FS_EmptySet, BoundAssumption DEF Bounded
<1>3. Loose
  BY BoundAssumption DEF Init, Loose, NoAttempt, Attempt, NoGrant, Grant, Blank, Request
<1> QED
  BY <1>2, <1>3, AbsentAssumption
  DEF Init, Inv, Named, Entries, Taken, Shows, Waiting, OneGrant, ConsentedGrant, GrantDeliverable,
      NoAttempt, NoGrant, Blank, At, Approving, Open, Made

LEMMA InvNext == Inv /\ [Next]_vars => Inv'
<1> SUFFICES ASSUME Inv, [Next]_vars PROVE Inv'  OBVIOUS
<1>0. Loose  BY DEF Inv
<1>1. ASSUME NEW i \in Ids, Begin(i) PROVE Inv'
  BY <1>1, BegunKeeps, PrunedKeeps DEF Begin, history
<1>2. ASSUME NEW r \in Requests, Consent(r) PROVE Inv'
  <2>1. PICK i \in Ids, u \in Users : req[r].id = i /\ req[r].user = u
    BY <1>2 DEF Consent, Inv, Named, At
  <2>2. CASE Pending(i)
    <3>1. PICK n \in Nonces :
            /\ Rewritten(i, n, u)
            /\ pages' = pages \cup {[id |-> i, nonce |-> n, user |-> u]}
      BY <1>2, <2>1, <2>2 DEF Consent, FreshNonces, Rewritten
    <3>2. Live(i)  BY <2>2 DEF Pending, Live
    <3>3. At(r, "consent") /\ End(r) /\ UNCHANGED <<now, deadline, grants, told, lost>>
      BY <1>2 DEF Consent
    <3>4. /\ attempts' \in [Ids -> Attempt]
          /\ \A j \in Ids : j # i => attempts'[j] = Pruned[j]
          /\ attempts'[i].state = attempts[i].state /\ attempts'[i].expires = attempts[i].expires
          /\ attempts'[i].grant = attempts[i].grant
          /\ attempts'[i].nonce = n /\ attempts'[i].user = u
      BY <1>0, <3>1, <3>2, ShownTable
    <3> QED  BY <2>1, <2>2, <3>1, <3>3, <3>4, ShownKeeps
  <2> QED  BY <1>2, <2>1, <2>2, NotShownKeeps DEF Consent, history
<1>3. ASSUME NEW r \in Requests, NEW i \in Ids, NEW n \in Nonces, NEW u \in Users, Claim(r, i, n, u)
      PROVE Inv'
  BY <1>3, ClaimedKeeps, PrunedKeeps DEF Claim
<1>4. ASSUME NEW r \in Requests, MakeGrant(r) PROVE Inv'
  BY <1>4, GrantedKeeps DEF MakeGrant
<1> QED
  BY <1>1, <1>2, <1>3, <1>4, PolledKeeps, AuthorizeKeeps, RefuseGrantKeeps, LoseAnswerKeeps,
     FinishKeeps, AbandonKeeps, RestartKeeps, TickKeeps, StutterKeeps DEF Next

LEMMA InvAlways == Spec => []Inv
BY InvInit, InvNext, PTL DEF Spec

(* The table is well typed and never holds more than MaxAttempts entries,  *)
(* whatever expires, is polled or is restarted.                            *)
THEOREM TypesHold == Spec => []TypeOK
<1>1. Inv => TypeOK  BY DEF Inv, Loose, Bounded, TypeOK
<1> QED  BY <1>1, InvAlways, PTL

(* An attempt is worth one grant, for any number of pages and approvals.   *)
THEOREM OneGrantHolds == Spec => []OneGrant
<1>1. Inv => OneGrant  BY DEF Inv
<1> QED  BY <1>1, InvAlways, PTL

(* Every grant was made with the credential of a user who was shown the    *)
(* page of its attempt.                                                    *)
THEOREM ConsentHolds == Spec => []ConsentedGrant
<1>1. Inv => ConsentedGrant  BY DEF Inv
<1> QED  BY <1>1, InvAlways, PTL

(* A grant can be polled until its attempt expires, unless its approval    *)
(* was dropped or was told that the call that made it had failed.          *)
THEOREM DeliverableHolds == Spec => []GrantDeliverable
<1>1. Inv => GrantDeliverable  BY DEF Inv
<1> QED  BY <1>1, InvAlways, PTL

(* A poll delivers the grant of the polled attempt only, before the        *)
(* attempt expires, and always the same.                                   *)
THEOREM DeliveredOwnHolds == Spec => DeliveredOwn
<1>1. Inv /\ [Next]_vars =>
        [\A i \in Ids : told'[i] # told[i] =>
           told[i] = None /\ grants[told'[i]].id = i /\ now < deadline[i]]_vars
  <2> SUFFICES ASSUME Inv, Next, NEW i \in Ids, told'[i] # told[i]
               PROVE  told[i] = None /\ grants[told'[i]].id = i /\ now < deadline[i]
    BY DEF vars
  <2>1. told # told'  BY SMTT(40)
  <2>2. PICK j \in Ids : Poll(j)
    BY <2>1 DEF Next, Begin, Authorize, Claim, Consent, MakeGrant, RefuseGrant, LoseAnswer, Finish,
                Abandon, Restart, Tick, history
  <2>3. i = j /\ Live(i) /\ attempts[i].state = "ready" /\ told'[i] = attempts[i].grant
    BY <2>2 DEF Poll, Inv, Loose
  <2>4. attempts[i].grant \in Grants /\ grants[attempts[i].grant].id = i /\ deadline[i] = attempts[i].expires
    BY <2>3 DEF Inv, Entries
  <2>5. told[i] \in Grants => told[i] = attempts[i].grant
    BY <2>4, AbsentAssumption DEF Inv, Entries, OneGrant, Made
  <2>6. told[i] \in Grants \cup {None} /\ attempts[i].expires \in Nat /\ now \in Nat
    BY BoundAssumption DEF Inv, Loose, Attempt
  <2> QED  BY <2>3, <2>4, <2>5, <2>6 DEF Live
<1> QED  BY <1>1, InvAlways, PTL DEF Spec, DeliveredOwn
=============================================================================
