--------------------------- MODULE AgentConnection ---------------------------
(***************************************************************************)
(* The Agent Connection plugin (lenso-auth-agent-connection-plugin): an    *)
(* agent begins an attempt, a signed-in user is shown a consent page for   *)
(* it and approves, the plugin asks the Account for a delegated grant, and *)
(* the agent polls for it.                                                 *)
(*                                                                         *)
(* The attempts live in memory and each method of Attempts is one step.    *)
(* The handlers of the consent page and of the approval await another      *)
(* plugin in between. The Account is external: it authenticates the user,  *)
(* and makes the grant or refuses it; its answer may be lost.              *)
(*                                                                         *)
(* Only the agent knows the secret of its attempt: a poll with a wrong one *)
(* is a poll of an unknown attempt.                                        *)
(***************************************************************************)
EXTENDS Integers, FiniteSets

CONSTANTS
  Ids, Nonces,   \* attempts and consent pages, random and never drawn twice
  Users,         \* the session credentials that browsers present
  Grants,        \* the delegated grants the Account can make
  Requests,      \* the handlers that can be in progress at once
  None,
  Ttl,           \* ATTEMPT_TTL
  MaxAttempts,   \* MAX_ATTEMPTS
  MaxTime        \* the bound on the clock

ASSUME BoundAssumption ==
  Ttl \in Nat \ {0} /\ MaxAttempts \in Nat \ {0} /\ MaxTime \in Nat

ASSUME FiniteAssumption == IsFiniteSet(Ids)

ASSUME AbsentAssumption == None \notin Ids \cup Nonces \cup Users \cup Grants

VARIABLES
  now,
  attempts,   \* the entries of Attempts, or NoAttempt
  deadline,   \* when an attempt that was begun expires, or None
  pages,      \* the consent pages shown: attempt, nonce and the user's credential
  grants,     \* what the Account granted: the attempt and the parent credential
  told,       \* the grant that polls of an attempt delivered, or None
  lost,       \* the attempts whose approval was dropped, or saw the call fail
              \* that had made its grant
  req         \* the handlers in progress

history == <<deadline, pages, grants, told, lost>>
vars    == <<now, attempts, history, req>>

NoAttempt == [state |-> "absent", expires |-> 0, nonce |-> None, user |-> None,
              grant |-> None]
Attempt ==
  [state : {"absent", "pending", "issuing", "ready", "failed"}, expires : Nat,
   nonce : Nonces \cup {None}, user : Users \cup {None}, grant : Grants \cup {None}]

Page    == [id : Ids, nonce : Nonces, user : Users]
NoGrant == [id |-> None, user |-> None]
Grant   == [id : Ids \cup {None}, user : Users \cup {None}]

Request == [step : {"idle", "consent", "granting", "finish"}, id : Ids \cup {None},
            user : Users \cup {None}, grant : Grants \cup {None}]
Blank   == [step |-> "idle", id |-> None, user |-> None, grant |-> None]

Present == {i \in Ids : attempts[i].state # "absent"}

(* Well typed, and never more attempts than the table may hold.            *)
TypeOK ==
  /\ now \in 0 .. MaxTime
  /\ attempts \in [Ids -> Attempt]
  /\ deadline \in [Ids -> Nat \cup {None}]
  /\ pages \subseteq Page
  /\ grants \in [Grants -> Grant]
  /\ told \in [Ids -> Grants \cup {None}]
  /\ lost \subseteq Ids
  /\ req \in [Requests -> Request]
  /\ Cardinality(Present) <= MaxAttempts

Init ==
  /\ now = 0
  /\ attempts = [i \in Ids |-> NoAttempt]
  /\ deadline = [i \in Ids |-> None]
  /\ pages = {}
  /\ grants = [g \in Grants |-> NoGrant]
  /\ told = [i \in Ids |-> None]
  /\ lost = {}
  /\ req = [r \in Requests |-> Blank]

-----------------------------------------------------------------------------
(* The methods of Attempts. Each first forgets what has expired.           *)

Live(i) == attempts[i].state # "absent" /\ attempts[i].expires > now
Pruned  == [i \in Ids |-> IF Live(i) THEN attempts[i] ELSE NoAttempt]
Pending(i) == Live(i) /\ attempts[i].state = "pending"

At(r, step) == req[r].step = step
End(r)      == req' = [req EXCEPT ![r] = Blank]

(* Mutant: the bound admits one too many.                                  *)
BeginOneMore(i) ==
  /\ deadline[i] = None
  /\ IF Cardinality({j \in Ids : Live(j)}) > MaxAttempts
     THEN attempts' = Pruned /\ UNCHANGED deadline
     ELSE /\ attempts' = [Pruned EXCEPT ![i] =
               [NoAttempt EXCEPT !.state = "pending", !.expires = now + Ttl]]
          /\ deadline' = [deadline EXCEPT ![i] = now + Ttl]
  /\ UNCHANGED <<now, pages, grants, told, lost, req>>

Begin(i) ==
  /\ deadline[i] = None
  /\ IF Cardinality({j \in Ids : Live(j)}) >= MaxAttempts
     THEN attempts' = Pruned /\ UNCHANGED deadline
     ELSE /\ attempts' = [Pruned EXCEPT ![i] =
               [NoAttempt EXCEPT !.state = "pending", !.expires = now + Ttl]]
          /\ deadline' = [deadline EXCEPT ![i] = now + Ttl]
  /\ UNCHANGED <<now, pages, grants, told, lost, req>>

(* authorize: the user's credential is authenticated, then a page with a   *)
(* new nonce is shown, which replaces any page shown before.               *)
Authorize(r, i, u) ==
  /\ At(r, "idle")
  /\ req' = [req EXCEPT ![r] = [Blank EXCEPT !.step = "consent", !.id = i, !.user = u]]
  /\ UNCHANGED <<now, attempts, history>>

FreshNonces == {n \in Nonces : \A p \in pages : p.nonce # n}

Consent(r) ==
  LET i == req[r].id
  IN /\ At(r, "consent")
     /\ IF Pending(i)
        THEN \E n \in FreshNonces :
               /\ attempts' = [Pruned EXCEPT ![i].nonce = n, ![i].user = req[r].user]
               /\ pages' = pages \cup {[id |-> i, nonce |-> n, user |-> req[r].user]}
        ELSE attempts' = Pruned /\ UNCHANGED pages
     /\ End(r)
     /\ UNCHANGED <<now, deadline, grants, told, lost>>

(* approve: claim the attempt for the page and the credential, have the    *)
(* Account make the grant, and finish the attempt.                         *)

Claimed(r, i, u) ==
  /\ attempts' = [Pruned EXCEPT ![i].state = "issuing", ![i].nonce = None, ![i].user = None]
  /\ req' = [req EXCEPT ![r] = [Blank EXCEPT !.step = "granting", !.id = i, !.user = u]]

(* Mutants: the claim leaves the attempt pending; or it looks at the nonce *)
(* only.                                                                   *)
ClaimKeepingPending(r, i, n, u) ==
  /\ At(r, "idle")
  /\ IF Pending(i) /\ attempts[i].nonce = n /\ attempts[i].user = u
     THEN /\ attempts' = Pruned
          /\ req' = [req EXCEPT ![r] =
               [Blank EXCEPT !.step = "granting", !.id = i, !.user = u]]
     ELSE attempts' = Pruned /\ UNCHANGED req
  /\ UNCHANGED <<now, history>>
ClaimAnyUser(r, i, n, u) ==
  /\ At(r, "idle")
  /\ IF Pending(i) /\ attempts[i].nonce = n
     THEN Claimed(r, i, u)
     ELSE attempts' = Pruned /\ UNCHANGED req
  /\ UNCHANGED <<now, history>>

Claim(r, i, n, u) ==
  /\ At(r, "idle")
  /\ IF Pending(i) /\ attempts[i].nonce = n /\ attempts[i].user = u
     THEN Claimed(r, i, u)
     ELSE attempts' = Pruned /\ UNCHANGED req
  /\ UNCHANGED <<now, history>>

MakeGrant(r) ==
  /\ At(r, "granting")
  /\ \E g \in Grants :
       /\ grants[g] = NoGrant
       /\ grants' = [grants EXCEPT ![g] = [id |-> req[r].id, user |-> req[r].user]]
       /\ req' = [req EXCEPT ![r].step = "finish", ![r].grant = g]
  /\ UNCHANGED <<now, attempts, deadline, pages, told, lost>>

(* The Account made no grant: it refused, or the call failed before.       *)
RefuseGrant(r) ==
  /\ At(r, "granting")
  /\ req' = [req EXCEPT ![r].step = "finish"]
  /\ UNCHANGED <<now, attempts, history>>

(* The Account made the grant but the call failed for its caller (a        *)
(* timeout, a commit whose answer was lost), which treats it as a refusal. *)
LoseAnswer(r) ==
  /\ At(r, "finish") /\ req[r].grant # None
  /\ req' = [req EXCEPT ![r].grant = None]
  /\ lost' = lost \cup {req[r].id}
  /\ UNCHANGED <<now, attempts, deadline, pages, grants, told>>

Finish(r) ==
  LET i == req[r].id
  IN /\ At(r, "finish")
     /\ attempts' = IF Live(i) /\ attempts[i].state = "issuing"
                    THEN [Pruned EXCEPT
                            ![i].state = IF req[r].grant = None THEN "failed" ELSE "ready",
                            ![i].grant = req[r].grant]
                    ELSE Pruned
     /\ End(r)
     /\ UNCHANGED <<now, history>>

(* Mutant: a poll answers from an entry that has expired.                  *)
PollWithoutPrune(i) ==
  /\ attempts[i].state # "absent"
  /\ told' = [told EXCEPT ![i] = IF attempts[i].state = "ready" THEN attempts[i].grant
                                                                ELSE told[i]]
  /\ UNCHANGED <<now, attempts, deadline, pages, grants, lost, req>>

Poll(i) ==
  /\ attempts' = Pruned
  /\ told' = [told EXCEPT ![i] = IF Live(i) /\ attempts[i].state = "ready"
                                 THEN attempts[i].grant ELSE told[i]]
  /\ UNCHANGED <<now, deadline, pages, grants, lost, req>>

-----------------------------------------------------------------------------
(* A caller that goes away ends its handler; an approval stays "issuing"   *)
(* until it expires. A restart forgets every attempt.                      *)

Abandon(r) ==
  /\ ~At(r, "idle")
  /\ End(r)
  /\ lost' = IF At(r, "consent") THEN lost ELSE lost \cup {req[r].id}
  /\ UNCHANGED <<now, attempts, deadline, pages, grants, told>>

Restart ==
  /\ attempts' = [i \in Ids |-> NoAttempt]
  /\ req' = [r \in Requests |-> Blank]
  /\ lost' = {i \in Ids : deadline[i] # None}
  /\ UNCHANGED <<now, deadline, pages, grants, told>>

Tick ==
  /\ now < MaxTime
  /\ now' = now + 1
  /\ UNCHANGED <<attempts, history, req>>

Next ==
  \/ \E i \in Ids : Begin(i) \/ Poll(i)
  \/ \E r \in Requests :
       \/ \E i \in Ids, u \in Users : Authorize(r, i, u)
       \/ \E i \in Ids, n \in Nonces, u \in Users : Claim(r, i, n, u)
       \/ Consent(r) \/ MakeGrant(r) \/ RefuseGrant(r) \/ LoseAnswer(r) \/ Finish(r)
       \/ Abandon(r)
  \/ Restart
  \/ Tick

Spec == Init /\ [][Next]_vars

-----------------------------------------------------------------------------
Made(g) == grants[g].id # None

(* An attempt is worth one grant, however often its page is submitted and  *)
(* however many pages were shown for it.                                   *)
OneGrant ==
  \A g, h \in Grants : Made(g) /\ Made(h) /\ grants[g].id = grants[h].id => g = h

(* A grant is made with the credential of a user who was shown the consent *)
(* page of that attempt: a browser that changes users between the page and *)
(* its submission grants nothing.                                          *)
ConsentedGrant ==
  \A g \in Grants : Made(g) =>
    \E p \in pages : p.id = grants[g].id /\ p.user = grants[g].user

(* Polling delivers the grant of the attempt that is polled, only before   *)
(* the attempt expires, and never two different ones.                      *)
DeliveredOwn ==
  [][\A i \in Ids : told'[i] # told[i] =>
       told[i] = None /\ grants[told'[i]].id = i /\ now < deadline[i]]_vars

(* A grant that was made reaches its attempt: until the attempt expires it *)
(* is there to be polled, or an approval is about to put it there. A grant *)
(* that nobody can collect is left only by an approval that was dropped or *)
(* restarted away, or that was told of a failure although the Account made *)
(* the grant; expiry of another page, a second approval and the pruning by *)
(* other attempts leave none.                                              *)
GrantDeliverable ==
  \A g \in Grants :
    LET i == grants[g].id
    IN Made(g) /\ i \notin lost /\ now < deadline[i] =>
         \/ attempts[i].state = "ready" /\ attempts[i].grant = g
         \/ \E r \in Requests : At(r, "finish") /\ req[r].grant = g
=============================================================================
