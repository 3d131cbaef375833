--------------------------- MODULE AccountSessions ---------------------------
(***************************************************************************)
(* The Account plugin: identities, sessions, managed renewal and           *)
(* delegation, over the tables of its PostgreSQL store                     *)
(* (src/crates/lenso-auth-account-plugin).                                 *)
(*                                                                         *)
(* Every SQL transaction is one step, because its row locks make it        *)
(* serialisable: identity before session, as postgres_managed.rs:1 says.   *)
(* A handler that issues several transactions or statements is a request   *)
(* that takes several steps, with anything in between: other requests, the *)
(* clock, and a restart that loses it.                                     *)
(*                                                                         *)
(* One clock stands for the host's and the database's. A credential is its *)
(* digest (lib.rs derives one from the other by a keyed hash).             *)
(***************************************************************************)
EXTENDS Integers, FiniteSets

CONSTANTS
  Subjects, Externals,   \* subject identifiers, and (provider, external subject) pairs
  Sessions, Digests,     \* session identifiers, and digests of the random tokens
  Requests,              \* the handlers that can be in progress at once
  Calls,                 \* the operations that clients call in this instance
  Policies,              \* the managed-session configurations of successive deployments
  NoPolicy,              \* the member of Policies that has managed sessions off
  None,                  \* an SQL NULL
  Lifetimes,             \* what callers ask for: session expiries and disable periods
  AssertionTtl,          \* assertion_ttl_seconds
  GrantLimit,            \* the longest delegation, one hour
  MaxTime                \* the bound on the clock

Operations == {"ensure", "issue", "issue_managed", "renew", "authenticate",
               "revoke", "grant"}

(* What ManagedSessionConfig::validate admits.                             *)
Policy == [absolute : Nat \ {0}, idle : Nat \ {0}, interval : Nat \ {0}]

ASSUME PolicyAssumption ==
  /\ NoPolicy \notin Policy
  /\ Policies \subseteq Policy \cup {NoPolicy}
  /\ \A p \in Policies \ {NoPolicy} : p.idle <= p.absolute /\ 2 * p.interval <= p.idle

ASSUME CallsAssumption == Calls \subseteq Operations

ASSUME NumberAssumption ==
  /\ Lifetimes \subseteq Nat
  /\ AssertionTtl \in Nat \ {0}
  /\ GrantLimit \in Nat
  /\ MaxTime \in Nat

ASSUME NoneAssumption ==
  None \notin Subjects \cup Externals \cup Sessions \cup Digests \cup Nat

VARIABLES
  now,       \* the clock
  policy,    \* the managed-session configuration of the running deployment
  subject,   \* identity_subjects: stored status, and disabled_until
  binding,   \* identity_bindings: external identity -> subject, or None
  session,   \* auth_sessions with auth_managed_sessions and auth_session_delegations
  rotation,  \* auth_session_rotations: spent digest -> session, or None
  issued,    \* the digests of the random tokens drawn so far
  req        \* the handlers in progress and the replies they gave

tables == <<subject, binding, session, rotation, issued>>
vars   == <<now, policy, subject, binding, session, rotation, issued, req>>

SubjectRow == [status : {"absent", "active", "disabled"}, until : Nat \cup {None}]

(* A row with digest None is not in the table. The managed columns of a    *)
(* plain session are never read. Of revoked_at the code only asks whether  *)
(* it is null; the date in it, often the beginning of a transaction that   *)
(* then waited for a lock, is read by nothing and left out.                *)
SessionRow ==
  [owner : Subjects \cup {None}, digest : Digests \cup {None}, expires : Nat,
   revoked : BOOLEAN, parent : Sessions \cup {None}, managed : BOOLEAN,
   issuedAt : Nat, absolute : Nat, idle : Nat, interval : Nat, lastRenew : Nat]

NoRow ==
  [owner |-> None, digest |-> None, expires |-> 0, revoked |-> FALSE,
   parent |-> None, managed |-> FALSE,
   issuedAt |-> 0, absolute |-> 0, idle |-> 0, interval |-> 0, lastRenew |-> 0]

Steps == {"idle", "ensure_insert", "ensure_reread", "issue_insert", "renew_load",
          "renew_classify", "renew_tx", "auth_clock", "auth_metadata", "auth_policy",
          "revoke_write", "grant_insert"}

Outcomes == {"none", "identity", "issued", "rotated", "accepted", "changed", "unchanged",
             "granted", "disabled", "expired", "invalid", "revoked", "stale",
             "too_early", "unsupported", "invalid_scope", "nested", "not_found",
             "failed"}

(* The last two fields remember, for the properties, what was so when the  *)
(* handler began (renew: the credential had been handed out) or read the   *)
(* clock (authenticate: the session was not revoked).                      *)
Request ==
  [op : Operations \cup {"none"}, step : Steps, outcome : Outcomes,
   ext : Externals \cup {None}, subj : Subjects \cup {None},
   cred : Digests \cup {None}, sess : Sessions \cup {None},
   stamp : Nat, bound : Nat, known : BOOLEAN, open : BOOLEAN]

Blank == [op |-> "none", step |-> "idle", outcome |-> "none", ext |-> None,
          subj |-> None, cred |-> None, sess |-> None, stamp |-> 0, bound |-> 0,
          known |-> FALSE, open |-> FALSE]

TypeOK ==
  /\ now \in 0 .. MaxTime
  /\ policy \in Policies
  /\ subject \in [Subjects -> SubjectRow]
  /\ binding \in [Externals -> Subjects \cup {None}]
  /\ session \in [Sessions -> SessionRow]
  /\ rotation \in [Digests -> Sessions \cup {None}]
  /\ issued \subseteq Digests
  /\ req \in [Requests -> Request]

-----------------------------------------------------------------------------
(* Reading the tables.                                                     *)

Least(a, b)    == IF a <= b THEN a ELSE b
Greatest(a, b) == IF a <= b THEN b ELSE a

Stored(s)     == session[s].digest # None
Disabled(u)   == /\ subject[u].status = "disabled"
                 /\ subject[u].until = None \/ subject[u].until > now
Active(u)     == subject[u].status # "absent" /\ ~Disabled(u)

(* A digest names a session while it is current and, for renewal and       *)
(* logout, after it has been rotated away.                                 *)
Owns(s, d)    == session[s].digest = d \/ rotation[d] = s
Known(d)      == \E s \in Sessions : Owns(s, d)
Holder(d)     == CHOOSE s \in Sessions : Owns(s, d)

(* The idle deadline of a managed session: the stored one, or the one the  *)
(* current policy would have set, whichever is earlier; and its absolute   *)
(* deadline likewise.                                                      *)
IdleBound(s, p) ==
  Least(session[s].expires, session[s].lastRenew + Least(session[s].idle, p.idle))
AbsoluteBound(s, p) == Least(session[s].absolute, session[s].issuedAt + p.absolute)
PolicyBound(s, p)   == Least(IdleBound(s, p), AbsoluteBound(s, p))

(* load_session and inspect_session: a delegated session is no better than *)
(* its parent.                                                             *)
HasParent(s) == session[s].parent # None
LoadedExpiry(s) ==
  IF HasParent(s) THEN Least(session[s].expires, session[session[s].parent].expires)
                  ELSE session[s].expires
LoadedRevoked(s) ==
  \/ session[s].revoked
  \/ HasParent(s) /\ session[session[s].parent].revoked

(* Mutants: a classification that does not look for revocations, and one   *)
(* that takes a rotated digest for the current one.                        *)
MetadataIgnoringRevocation(d) ==
  LET s == Holder(d)
  IN IF ~Known(d) THEN "invalid"
     ELSE IF session[s].digest # d THEN "stale"
     ELSE IF ~session[s].managed \/ HasParent(s) THEN "unsupported"
     ELSE IF PolicyBound(s, policy) <= now THEN "expired"
     ELSE "ok"
MetadataAcceptingStale(d) ==
  LET s == Holder(d)
  IN IF ~Known(d) THEN "invalid"
     ELSE IF session[s].revoked \/ Disabled(session[s].owner) THEN "revoked"
     ELSE IF ~session[s].managed \/ HasParent(s) THEN "unsupported"
     ELSE IF PolicyBound(s, policy) <= now THEN "expired"
     ELSE "ok"

(* session_metadata, in the order of its tests.                            *)
Metadata(d) ==
  LET s == Holder(d)
  IN IF ~Known(d) THEN "invalid"
     ELSE IF session[s].revoked \/ Disabled(session[s].owner) THEN "revoked"
     ELSE IF session[s].digest # d THEN "stale"
     ELSE IF ~session[s].managed \/ HasParent(s) THEN "unsupported"
     ELSE IF PolicyBound(s, policy) <= now THEN "expired"
     ELSE "ok"

(* Mutant: renewal does not look at the deadlines again.                   *)
RenewVerdictIgnoringExpiry(d) ==
  LET s == Holder(d)
  IN IF Metadata(d) \in {"invalid", "revoked", "stale", "unsupported"} THEN Metadata(d)
     ELSE IF now < session[s].lastRenew + Greatest(session[s].interval, policy.interval)
          THEN "too_early"
     ELSE "rotated"

(* renew_session, in the order of its tests.                               *)
RenewVerdict(d) ==
  LET s == Holder(d)
  IN IF Metadata(d) \in {"invalid", "revoked", "stale", "unsupported"} THEN Metadata(d)
     ELSE IF IdleBound(s, policy) <= now \/ AbsoluteBound(s, policy) <= now THEN "expired"
     ELSE IF now < session[s].lastRenew + Greatest(session[s].interval, policy.interval)
          THEN "too_early"
     ELSE "rotated"

(* policy_expiry and effective_delegation_expiry: every bound on a session  *)
(* and on its parent, under the current policy.                            *)
RowBound(s) == IF policy # NoPolicy /\ session[s].managed
               THEN PolicyBound(s, policy) ELSE session[s].expires
EffectiveExpiry(s) ==
  IF HasParent(s) THEN Least(RowBound(s), RowBound(session[s].parent)) ELSE RowBound(s)

-----------------------------------------------------------------------------
Init ==
  /\ now = 0
  /\ policy \in Policies
  /\ subject = [u \in Subjects |-> [status |-> "absent", until |-> None]]
  /\ binding = [x \in Externals |-> None]
  /\ session = [s \in Sessions |-> NoRow]
  /\ rotation = [d \in Digests |-> None]
  /\ issued = {}
  /\ req = [r \in Requests |-> Blank]

(* How a handler starts, moves on and answers. An answered request keeps   *)
(* the credential it presented and what it was told until the slot is used *)
(* again.                                                                  *)
Asked(op, step)  == [Blank EXCEPT !.op = op, !.step = step]
Start(r, asked)  == /\ asked.op \in Calls
                    /\ req[r].step = "idle"
                    /\ req' = [req EXCEPT ![r] = asked]
At(r, step)      == req[r].step = step
Goto(r, step)    == req' = [req EXCEPT ![r].step = step]
Reply(r, answer) ==
  req' = [req EXCEPT ![r] = [Asked(req[r].op, "idle") EXCEPT
            !.outcome = answer, !.cred = req[r].cred, !.known = req[r].known]]

-----------------------------------------------------------------------------
(* ensure_identity: find the binding, else create a subject and a binding  *)
(* in one transaction. A binding committed meanwhile turns the insert into *)
(* a rollback and a second read.                                           *)

Identity(x) == [outcome |-> IF Disabled(binding[x]) THEN "disabled" ELSE "identity",
                subj |-> binding[x]]

EnsureRead(r, x) ==
  /\ Start(r, IF binding[x] = None
              THEN [Asked("ensure", "ensure_insert") EXCEPT !.ext = x]
              ELSE [Asked("ensure", "idle") EXCEPT !.ext = x,
                      !.outcome = Identity(x).outcome, !.subj = binding[x]])
  /\ UNCHANGED <<now, policy, tables>>

(* Mutant: the insert overwrites a binding committed meanwhile.            *)
EnsureInsertOverwriting(r) ==
  LET x == req[r].ext
  IN /\ At(r, "ensure_insert")
     /\ \E u \in Subjects :
          /\ subject[u].status = "absent"
          /\ subject' = [subject EXCEPT ![u].status = "active"]
          /\ binding' = [binding EXCEPT ![x] = u]
          /\ req' = [req EXCEPT ![r].step = "idle", ![r].outcome = "identity",
                                ![r].subj = u]
     /\ UNCHANGED <<now, policy, session, rotation, issued>>

EnsureInsert(r) ==
  LET x == req[r].ext
  IN /\ At(r, "ensure_insert")
     /\ IF binding[x] = None
        THEN \E u \in Subjects :
               /\ subject[u].status = "absent"
               /\ subject' = [subject EXCEPT ![u].status = "active"]
               /\ binding' = [binding EXCEPT ![x] = u]
               /\ req' = [req EXCEPT ![r].step = "idle", ![r].outcome = "identity",
                                     ![r].subj = u]
        ELSE Goto(r, "ensure_reread") /\ UNCHANGED <<subject, binding>>
     /\ UNCHANGED <<now, policy, session, rotation, issued>>

EnsureReread(r) ==
  /\ At(r, "ensure_reread")
  /\ req' = [req EXCEPT ![r].step = "idle", ![r].outcome = Identity(req[r].ext).outcome,
                        ![r].subj = binding[req[r].ext]]
  /\ UNCHANGED <<now, policy, tables>>

-----------------------------------------------------------------------------
(* issue and issue_managed: fix the deadlines by the host clock, then      *)
(* insert in a transaction that locks the subject and fails (the table     *)
(* constraint expires_at > created_at) when the deadline passed meanwhile. *)
(* IssueHorizon bounds the model: no session is asked for whose deadlines  *)
(* lie beyond the clock.                                                   *)

IssueHorizon(lifetime) == now + lifetime <= MaxTime

IssueCheck(r, u, lifetime) ==
  /\ IssueHorizon(lifetime)
  /\ Start(r, [Asked("issue", IF lifetime = 0 THEN "idle" ELSE "issue_insert") EXCEPT
                 !.subj = u, !.bound = now + lifetime,
                 !.outcome = IF lifetime = 0 THEN "expired" ELSE "none"])
  /\ UNCHANGED <<now, policy, tables>>

IssueManagedCheck(r, u) ==
  /\ policy # NoPolicy
  /\ IssueHorizon(policy.absolute)
  /\ Start(r, [Asked("issue_managed", "issue_insert") EXCEPT
                 !.subj = u, !.stamp = now])
  /\ UNCHANGED <<now, policy, tables>>

PlainRow(u, d, expires) == [NoRow EXCEPT !.owner = u, !.digest = d, !.expires = expires]
ManagedRow(u, d, stamp) ==
  [PlainRow(u, d, stamp + policy.idle) EXCEPT
     !.managed = TRUE, !.issuedAt = stamp, !.lastRenew = stamp,
     !.absolute = stamp + policy.absolute, !.idle = policy.idle,
     !.interval = policy.interval]

(* A random token: one that was never drawn before.                        *)
Fresh == Digests \ issued

IssueDeadline(r) ==
  IF req[r].op = "issue_managed" THEN req[r].stamp + policy.idle ELSE req[r].bound

(* Mutant: the subject is checked before the transaction only.             *)
IssueInsertUnlocked(r) ==
  LET u == req[r].subj
  IN /\ At(r, "issue_insert") /\ subject[u].status # "absent"
     /\ now < IssueDeadline(r)
     /\ \E s \in Sessions, d \in Fresh :
          /\ ~Stored(s)
          /\ session' = [session EXCEPT ![s] =
               IF req[r].op = "issue_managed" THEN ManagedRow(u, d, req[r].stamp)
                                              ELSE PlainRow(u, d, req[r].bound)]
          /\ issued' = issued \cup {d}
          /\ Reply(r, "issued")
     /\ UNCHANGED <<now, policy, subject, binding, rotation>>

IssueInsert(r) ==
  LET u == req[r].subj
  IN /\ At(r, "issue_insert")
     /\ IF Active(u) /\ now < IssueDeadline(r)
        THEN \E s \in Sessions, d \in Fresh :
               /\ ~Stored(s)
               /\ session' = [session EXCEPT ![s] =
                    IF req[r].op = "issue_managed" THEN ManagedRow(u, d, req[r].stamp)
                                                   ELSE PlainRow(u, d, req[r].bound)]
               /\ issued' = issued \cup {d}
               /\ Reply(r, "issued")
        ELSE /\ Reply(r, IF Active(u) THEN "failed" ELSE IF Disabled(u) THEN "disabled"
                         ELSE "invalid")
             /\ UNCHANGED <<session, issued>>
     /\ UNCHANGED <<now, policy, subject, binding, rotation>>

-----------------------------------------------------------------------------
(* renew: classify the credential, load its session, and rotate in one     *)
(* transaction that decides everything again under its locks. A credential *)
(* rotated away between the first two reads is classified once more.       *)

RenewMetadata(r, d) ==
  /\ policy # NoPolicy
  /\ LET answer == Metadata(d)
     IN Start(r, [Asked("renew", IF answer = "ok" THEN "renew_load" ELSE "idle") EXCEPT
                    !.cred = d, !.known = (d \in issued),
                    !.outcome = IF answer = "ok" THEN "none" ELSE answer])
  /\ UNCHANGED <<now, policy, tables>>

RenewLoad(r) ==
  /\ At(r, "renew_load")
  /\ Goto(r, IF \E s \in Sessions : session[s].digest = req[r].cred
             THEN "renew_tx" ELSE "renew_classify")
  /\ UNCHANGED <<now, policy, tables>>

(* Mutant: a session that is gone at the second read is unknown.           *)
RenewClassifyUnknown(r) ==
  At(r, "renew_classify") /\ Reply(r, "invalid") /\ UNCHANGED <<now, policy, tables>>

RenewClassify(r) ==
  /\ At(r, "renew_classify")
  /\ LET answer == Metadata(req[r].cred)
     IN Reply(r, IF answer \in {"stale", "expired", "revoked"} THEN answer ELSE "invalid")
  /\ UNCHANGED <<now, policy, tables>>

(* Mutants: a rotation that records no history, and one that forgets the   *)
(* absolute deadline.                                                      *)
RotateForgetting(s, d, fresh) ==
  /\ session' = [session EXCEPT
       ![s].digest = fresh, ![s].lastRenew = now,
       ![s].expires = Least(AbsoluteBound(s, policy),
                            now + Least(session[s].idle, policy.idle))]
  /\ issued' = issued \cup {fresh}
  /\ UNCHANGED rotation
RotateUnbounded(s, d, fresh) ==
  /\ rotation' = [rotation EXCEPT ![d] = s]
  /\ session' = [session EXCEPT
       ![s].digest = fresh, ![s].lastRenew = now,
       ![s].expires = now + Least(session[s].idle, policy.idle)]
  /\ issued' = issued \cup {fresh}

Rotate(s, d, fresh) ==
  /\ rotation' = [rotation EXCEPT ![d] = s]
  /\ session' = [session EXCEPT
       ![s].digest = fresh, ![s].lastRenew = now,
       ![s].expires = Least(AbsoluteBound(s, policy),
                            now + Least(session[s].idle, policy.idle))]
  /\ issued' = issued \cup {fresh}

RenewTransaction(r) ==
  LET d == req[r].cred
  IN /\ At(r, "renew_tx")
     /\ IF RenewVerdict(d) = "rotated"
        THEN \E fresh \in Fresh :
               /\ Rotate(Holder(d), d, fresh)
               /\ Reply(r, "rotated")
        ELSE Reply(r, RenewVerdict(d)) /\ UNCHANGED <<session, rotation, issued>>
     /\ UNCHANGED <<now, policy, subject, binding>>

-----------------------------------------------------------------------------
(* authenticate: load the session, read the clock, and with managed        *)
(* sessions on read the current bounds, before an assertion is signed that *)
(* is valid from the clock reading (stamp) until `bound`.                  *)

(* Mutant: the assertion lives for its whole lifetime.                     *)
SignForWholeLifetime(r, expires, stamp, open) ==
  req' = [req EXCEPT ![r].step = "idle", ![r].stamp = stamp, ![r].open = open,
            ![r].bound = stamp + AssertionTtl,
            ![r].outcome = IF expires <= stamp THEN "expired" ELSE "accepted"]

(* The last test and the validity of the assertion.                        *)
Sign(r, expires, stamp, open) ==
  req' = [req EXCEPT ![r].step = "idle", ![r].stamp = stamp, ![r].open = open,
            ![r].bound = Least(expires, stamp + AssertionTtl),
            ![r].outcome = IF expires <= stamp THEN "expired" ELSE "accepted"]

AuthLoad(r, d) ==
  LET s == CHOOSE s \in Sessions : session[s].digest = d
      answer == IF \A t \in Sessions : session[t].digest # d THEN "invalid"
                ELSE IF Disabled(session[s].owner) \/ LoadedRevoked(s) THEN "revoked"
                ELSE "none"
  IN /\ Start(r, IF answer = "none"
                 THEN [Asked("authenticate", "auth_clock") EXCEPT
                         !.cred = d, !.sess = s, !.bound = LoadedExpiry(s)]
                 ELSE [Asked("authenticate", "idle") EXCEPT !.cred = d, !.outcome = answer])
     /\ UNCHANGED <<now, policy, tables>>

OpenNow(r) == ~session[req[r].sess].revoked

(* Mutant: managed sessions are not read again before signing.             *)
AuthClockOnce(r) ==
  /\ At(r, "auth_clock")
  /\ Sign(r, req[r].bound, now, OpenNow(r))
  /\ UNCHANGED <<now, policy, tables>>

AuthClock(r) ==
  /\ At(r, "auth_clock")
  /\ IF policy = NoPolicy THEN Sign(r, req[r].bound, now, OpenNow(r))
     ELSE req' = [req EXCEPT ![r].step = "auth_metadata", ![r].stamp = now,
                             ![r].open = OpenNow(r)]
  /\ UNCHANGED <<now, policy, tables>>

AuthMetadata(r) ==
  /\ At(r, "auth_metadata")
  /\ LET answer == Metadata(req[r].cred)
         s == Holder(req[r].cred)
     IN CASE answer = "ok" ->
               Sign(r, Least(req[r].bound, PolicyBound(s, policy)), req[r].stamp,
                    req[r].open)
          [] answer = "unsupported" -> Goto(r, "auth_policy")
          [] answer \in {"expired", "revoked"} -> Reply(r, answer)
          [] answer \in {"invalid", "stale"} -> Reply(r, "invalid")
  /\ UNCHANGED <<now, policy, tables>>

AuthPolicy(r) ==
  /\ At(r, "auth_policy")
  /\ Sign(r, Least(req[r].bound, EffectiveExpiry(req[r].sess)), req[r].stamp, req[r].open)
  /\ UNCHANGED <<now, policy, tables>>

-----------------------------------------------------------------------------
(* revoke reads the session and then updates it, in two statements;        *)
(* revoke_credential does both in one and takes a rotated digest as well.  *)

Revoke(S) == session' = [s \in Sessions |->
  IF s \in S /\ ~session[s].revoked THEN [session[s] EXCEPT !.revoked = TRUE]
                                  ELSE session[s]]

RevokeRead(r, s) ==
  /\ Start(r, IF Stored(s) /\ ~session[s].revoked
              THEN [Asked("revoke", "revoke_write") EXCEPT !.sess = s]
              ELSE [Asked("revoke", "idle") EXCEPT !.sess = s,
                      !.outcome = IF Stored(s) THEN "unchanged" ELSE "not_found"])
  /\ UNCHANGED <<now, policy, tables>>

RevokeWrite(r) ==
  /\ At(r, "revoke_write")
  /\ Revoke({req[r].sess})
  /\ Reply(r, "changed")
  /\ UNCHANGED <<now, policy, subject, binding, rotation, issued>>

RevokeCredential(d) ==
  /\ Known(d)
  /\ Revoke({Holder(d)})
  /\ UNCHANGED <<now, policy, subject, binding, rotation, issued, req>>

-----------------------------------------------------------------------------
(* set_subject_status, and the schema operator's disable_subject, which    *)
(* writes the status only of a subject whose stored status is not already  *)
(* disabled.                                                               *)

OwnedBy(u) == {s \in Sessions : Stored(s) /\ session[s].owner = u}

Activate(u) ==
  /\ subject[u].status # "absent"
  /\ subject' = [subject EXCEPT ![u] = [status |-> "active", until |-> None]]
  /\ UNCHANGED <<now, policy, binding, session, rotation, issued, req>>

Disable(u, until) ==
  /\ subject[u].status # "absent"
  /\ subject' = [subject EXCEPT ![u] = [status |-> "disabled", until |-> until]]
  /\ Revoke(OwnedBy(u))
  /\ UNCHANGED <<now, policy, binding, rotation, issued, req>>

DisableSubject(u) ==
  /\ subject[u].status # "absent"
  /\ subject' = [subject EXCEPT ![u].status = "disabled"]
  /\ Revoke(OwnedBy(u))
  /\ UNCHANGED <<now, policy, binding, rotation, issued, req>>

-----------------------------------------------------------------------------
(* grant: check the requested lifetime by the host clock, then create the  *)
(* child in a transaction that share-locks the parent and its subject.     *)

GrantCheck(r, d, lifetime) ==
  LET answer == IF lifetime = 0 THEN "expired"
                ELSE IF lifetime > GrantLimit THEN "invalid_scope" ELSE "none"
  IN /\ Start(r, [Asked("grant", IF answer = "none" THEN "grant_insert" ELSE "idle") EXCEPT
                    !.cred = d, !.bound = now + lifetime, !.outcome = answer])
     /\ UNCHANGED <<now, policy, tables>>

(* Mutant: a grant does not look whether its parent was revoked.           *)
GrantVerdictUnaware(p, expires) ==
  IF Disabled(session[p].owner) THEN "revoked"
  ELSE IF session[p].expires <= now THEN "expired"
  ELSE IF expires > session[p].expires THEN "invalid_scope"
  ELSE IF HasParent(p) THEN "nested"
  ELSE IF policy # NoPolicy /\ (EffectiveExpiry(p) <= now \/ expires <= now) THEN "expired"
  ELSE IF expires <= now THEN "failed"
  ELSE "granted"

(* validate_grant, the policy tests after it and the constraint on the     *)
(* inserted row, in their order.                                           *)
GrantVerdict(p, expires) ==
  IF session[p].revoked \/ Disabled(session[p].owner) THEN "revoked"
  ELSE IF session[p].expires <= now THEN "expired"
  ELSE IF expires > session[p].expires THEN "invalid_scope"
  ELSE IF HasParent(p) THEN "nested"
  ELSE IF policy # NoPolicy /\ (EffectiveExpiry(p) <= now \/ expires <= now) THEN "expired"
  ELSE IF expires <= now THEN "failed"
  ELSE "granted"

GrantInsert(r) ==
  LET d == req[r].cred
      parents == {p \in Sessions : session[p].digest = d}
      p == CHOOSE p \in parents : TRUE
      answer == IF parents = {} THEN "invalid" ELSE GrantVerdict(p, req[r].bound)
  IN /\ At(r, "grant_insert")
     /\ IF answer = "granted"
        THEN \E s \in Sessions, fresh \in Fresh :
               /\ ~Stored(s)
               /\ session' = [session EXCEPT ![s] =
                    [PlainRow(session[p].owner, fresh,
                              Least(req[r].bound, EffectiveExpiry(p))) EXCEPT !.parent = p]]
               /\ issued' = issued \cup {fresh}
               /\ Reply(r, "granted")
        ELSE Reply(r, answer) /\ UNCHANGED <<session, issued>>
     /\ UNCHANGED <<now, policy, subject, binding, rotation>>

-----------------------------------------------------------------------------
(* Time passes; and the Account is restarted, perhaps with another managed *)
(* configuration, losing the handlers in progress.                         *)

Tick ==
  /\ now < MaxTime
  /\ now' = now + 1
  /\ UNCHANGED <<policy, tables, req>>

Restart ==
  /\ policy' \in Policies
  /\ req' = [r \in Requests |-> Blank]
  /\ UNCHANGED <<now, tables>>

Handler(r) ==
  \/ EnsureInsert(r) \/ EnsureReread(r)
  \/ IssueInsert(r)
  \/ RenewLoad(r) \/ RenewClassify(r) \/ RenewTransaction(r)
  \/ AuthClock(r) \/ AuthMetadata(r) \/ AuthPolicy(r)
  \/ RevokeWrite(r)
  \/ GrantInsert(r)

Call(r) ==
  \/ \E x \in Externals : EnsureRead(r, x)
  \/ \E u \in Subjects, l \in Lifetimes : IssueCheck(r, u, l)
  \/ \E u \in Subjects : IssueManagedCheck(r, u)
  \/ \E d \in Digests : RenewMetadata(r, d) \/ AuthLoad(r, d)
  \/ \E s \in Sessions : RevokeRead(r, s)
  \/ \E d \in Digests, l \in Lifetimes : GrantCheck(r, d, l)

Administer ==
  \/ \E d \in Digests : RevokeCredential(d)
  \/ \E u \in Subjects : Activate(u) \/ DisableSubject(u)
  \/ \E u \in Subjects : \E until \in {None} \cup {now + l : l \in Lifetimes} :
       Disable(u, until)

Next ==
  \/ \E r \in Requests : Call(r) \/ Handler(r)
  \/ Administer
  \/ Tick
  \/ Restart

Spec == Init /\ [][Next]_vars

(* Handlers may be lost and clients may stop: only the clock is fair.      *)
FairSpec == Spec /\ WF_vars(Tick)

-----------------------------------------------------------------------------
(* What the Account promises.                                              *)

Live(s)     == Stored(s) /\ ~session[s].revoked
Spent(d)    == rotation[d] # None

(* Every credential handed out belongs to exactly one session for ever: it *)
(* is that session's current one or is in its rotation history, never      *)
(* both, so that logout and renewal can always tell a stale credential     *)
(* from an unknown one, and no renewal loses the credential of another.    *)
CredentialLedger ==
  /\ \A d \in Digests : d \in issued <=> Known(d)
  /\ \A d \in Digests, s, t \in Sessions : Owns(s, d) /\ Owns(t, d) => s = t
  /\ \A d \in Digests, s \in Sessions : session[s].digest = d => ~Spent(d)

(* No session of a disabled subject is live, whichever way an issue, a     *)
(* grant or a renewal that was in progress interleaves with the disabling. *)
DisabledMeansRevoked ==
  \A s \in Sessions : Live(s) => ~Disabled(session[s].owner)

(* Renewal never extends a session beyond the envelope it was issued in,   *)
(* under whatever policies it was renewed (docs/managed-sessions.md:54).   *)
ManagedEnvelope ==
  \A s \in Sessions : session[s].managed =>
    /\ session[s].expires <= session[s].absolute
    /\ session[s].expires <= session[s].lastRenew + session[s].idle

Ceiling(s) == IF session[s].managed THEN session[s].absolute ELSE session[s].expires

(* What every delegated row is, all its life: one level deep, for the same *)
(* subject, not managed, and within the longest life of its parent.        *)
NarrowRows ==
  \A s \in Sessions : HasParent(s) =>
    LET p == session[s].parent
    IN /\ Stored(p) /\ ~HasParent(p) /\ session[p].owner = session[s].owner
       /\ ~session[s].managed
       /\ session[s].expires <= Ceiling(p)

(* A delegated session is a child of a session that is not delegated, acts *)
(* for the same subject, cannot be renewed, and never outlives the longest *)
(* life its parent can reach (storage/postgres.rs:425-520). And a grant    *)
(* that was on its way when its parent was revoked or expired makes no     *)
(* child of it.                                                            *)
DelegationIsNarrow ==
  /\ []NarrowRows
  /\ [][\A s \in Sessions : ~HasParent(s) /\ HasParent(s)' =>
          LET p == session'[s].parent IN Live(p) /\ session[p].expires > now]_vars

(* Of any number of requests that present one credential, at most one      *)
(* rotates it (docs/managed-sessions.md:58).                               *)
SingleWinner ==
  \A q, r \in Requests :
    /\ req[q].op = "renew" /\ req[q].outcome = "rotated"
    /\ req[r].op = "renew" /\ req[r].outcome = "rotated"
    /\ req[q].cred = req[r].cred
    => q = r

(* Renewal never calls a credential invalid that the Account handed out,   *)
(* although it may be rotated or revoked between the handler's reads: the  *)
(* browser may retry a stale credential, but must log in again after an    *)
(* invalid one.                                                            *)
KnownNeverInvalid ==
  \A r \in Requests :
    req[r].op = "renew" /\ req[r].known => req[r].outcome # "invalid"

(* An accepted assertion never outlives the session it was made from, nor  *)
(* the absolute deadline of that session's parent, however the session is  *)
(* renewed and the policy changed while it is being made.                  *)
AssertionBounded ==
  \A r \in Requests : req[r].outcome = "accepted" =>
    LET s == req[r].sess
    IN /\ req[r].stamp < req[r].bound
       /\ req[r].bound <= Ceiling(s)
       /\ HasParent(s) => req[r].bound <= Ceiling(session[s].parent)

(* With managed sessions on, no assertion begins after the revocation of   *)
(* its session: whoever reads the clock when the revocation is committed   *)
(* is not answered with an assertion, although the session was loaded      *)
(* before. A session whose parent alone was revoked is not read again.     *)
NoAssertionAfterRevocation ==
  \A r \in Requests :
    req[r].op = "authenticate" /\ req[r].outcome = "accepted" /\ policy # NoPolicy
    => req[r].open

(* A credential that is spent, revoked or past its stored expiry is never  *)
(* honoured again: no interleaving of renewal, revocation, status change   *)
(* and restart brings it back, and no renewal in progress exchanges it.    *)
Dead(d) ==
  d \in issued /\ \A s \in Sessions :
    session[s].digest = d => ~Live(s) \/ session[s].expires <= now
NoRevival ==
  [][\A d \in Digests : Dead(d) => Dead(d)' /\ rotation'[d] = rotation[d]]_vars

(* Concurrent first logins of one external identity are all told the same  *)
(* subject, and the losers leave no subject behind.                        *)
OneSubjectPerIdentity ==
  /\ \A r \in Requests : req[r].op = "ensure" /\ req[r].outcome = "identity" =>
       req[r].subj = binding[req[r].ext]
  /\ \A u \in Subjects : subject[u].status # "absent" =>
       \E x \in Externals : binding[x] = u
  /\ \A x, y \in Externals : binding[x] = binding[y] /\ binding[x] # None => x = y

(* However often it is renewed, a managed session comes to an end.         *)
ManagedSessionsEnd ==
  \A s \in Sessions :
    session[s].managed ~> ~Live(s) \/ session[s].expires <= now

(* The tables implement the abstract chain of credentials: each credential *)
(* is exchanged once, only while its session is open, for an unused one.   *)
Chain == INSTANCE CredentialChain WITH
  current <- [s \in Sessions |-> session[s].digest],
  spent   <- rotation,
  closed  <- {s \in Sessions : session[s].revoked}
ImplementsChain == Chain!ChainSpec

(* operator.rs:152 says of disable_subject that it disables an identity.   *)
DisableSubjectDisables ==
  [][\A u \in Subjects : DisableSubject(u) => Disabled(u)']_vars
=============================================================================
