------------------------------- MODULE PhoneOtp -------------------------------
(***************************************************************************)
(* One-time codes of the phone plugin (lenso-auth-phone-plugin) over       *)
(* PostgreSQL: a start reserves a challenge under two advisory locks and   *)
(* sends the code by SMS; a verification consumes the challenge under its  *)
(* row lock, ensures the identity of the phone and issues a session.       *)
(*                                                                         *)
(* SMS, the directory and the issuer are external. A phone stands for the  *)
(* subject the directory binds to it. A call that fails or a caller that   *)
(* goes away ends the handler (Abandon) and rolls its transaction back.    *)
(***************************************************************************)
EXTENDS Integers, FiniteSets

CONSTANTS
  Phones,       \* phone numbers
  Sources,      \* client addresses, the missing one among them
  Challenges,   \* challenge identifiers, random and never drawn twice
  Requests,     \* the handlers that can be in progress at once
  None,
  Never,        \* a time that is not set
  Ttl,          \* otp_ttl_seconds
  Cooldown,     \* resend_cooldown_seconds
  Window,       \* start_window_seconds
  MaxStarts,    \* max_starts_per_ip
  MaxAttempts,  \* otp_max_attempts
  MaxTime       \* the bound on the clock

(* What the configuration's validation admits; the cooldown may be 0.      *)
ASSUME LimitAssumption ==
  /\ Ttl \in Nat \ {0} /\ Cooldown \in Nat /\ Window \in Nat \ {0}
  /\ MaxStarts \in Nat \ {0} /\ MaxAttempts \in Nat \ {0} /\ MaxTime \in Nat

ASSUME FiniteAssumption == IsFiniteSet(Challenges) /\ IsFiniteSet(Requests)

ASSUME AbsentAssumption == None \notin Phones \cup Sources \cup Challenges /\ Never \notin Int

VARIABLES
  now,
  challenge,   \* phone_otp_challenges
  identities,  \* phone_identities: the phones that are bound to their subject
  issued,      \* the number of sessions a challenge was worth
  req          \* the handlers in progress

vars == <<now, challenge, identities, issued, req>>

Challenge == [state : {"absent", "stored", "deleted"}, phone : Phones \cup {None},
              source : Sources \cup {None}, attempts : Nat, expires : Nat, resend : Nat,
              created : Nat, consumed : Nat \cup {Never}]
NoChallenge == [state |-> "absent", phone |-> None, source |-> None, attempts |-> 0,
                expires |-> 0, resend |-> 0, created |-> 0, consumed |-> Never]

Steps == {"idle", "begin", "phone", "source", "count", "insert", "send", "delete",
          "consume", "verify", "ensure", "bind", "issue"}
Request == [step : Steps, phone : Phones \cup {None}, source : Sources \cup {None},
            id : Challenges \cup {None}, from : Nat, at : Nat, right : BOOLEAN,
            row : Challenge]
Blank == [step |-> "idle", phone |-> None, source |-> None, id |-> None,
          from |-> 0, at |-> 0, right |-> FALSE, row |-> NoChallenge]

(* Well typed, and no code is guessed at more often than allowed.          *)
TypeOK ==
  /\ now \in 0 .. MaxTime
  /\ challenge \in [Challenges -> Challenge]
  /\ identities \subseteq Phones
  /\ issued \in [Challenges -> Nat]
  /\ req \in [Requests -> Request]
  /\ \A c \in Challenges : challenge[c].attempts <= MaxAttempts

Init ==
  /\ now = 0
  /\ challenge = [c \in Challenges |-> NoChallenge]
  /\ identities = {}
  /\ issued = [c \in Challenges |-> 0]
  /\ req = [r \in Requests |-> Blank]

-----------------------------------------------------------------------------
At(r, step)   == req[r].step = step
Goto(r, step) == req' = [req EXCEPT ![r].step = step]
End(r)        == req' = [req EXCEPT ![r] = Blank]
Stored        == {c \in Challenges : challenge[c].state = "stored"}

-----------------------------------------------------------------------------
(* start_otp: the clock is read, a transaction begins, and it takes the    *)
(* lock of the phone and then the lock of the source until its end.        *)

StartOtp(r, p, s) ==
  /\ At(r, "idle")
  /\ req' = [req EXCEPT ![r] = [Blank EXCEPT !.step = "begin", !.phone = p,
                                             !.source = s, !.from = now]]
  /\ UNCHANGED <<now, challenge, identities, issued>>

Begin(r) ==
  /\ At(r, "begin")
  /\ req' = [req EXCEPT ![r].step = "phone", ![r].at = now]
  /\ UNCHANGED <<now, challenge, identities, issued>>

LockPhone(r) ==
  /\ At(r, "phone")
  /\ \A q \in Requests :
       req[q].step \in {"source", "count", "insert"} => req[q].phone # req[r].phone
  /\ Goto(r, "source")
  /\ UNCHANGED <<now, challenge, identities, issued>>

(* Mutant: starts are serialised by phone only.                            *)
LockNoSource(r) ==
  /\ At(r, "source")
  /\ Goto(r, "count")
  /\ UNCHANGED <<now, challenge, identities, issued>>

LockSource(r) ==
  /\ At(r, "source")
  /\ \A q \in Requests :
       req[q].step \in {"count", "insert"} => req[q].source # req[r].source
  /\ Goto(r, "count")
  /\ UNCHANGED <<now, challenge, identities, issued>>

Recent(s, since) ==
  {c \in Stored : challenge[c].source = s /\ challenge[c].created >= since}

(* The latest challenge of the phone, or one of the latest.                *)
Latest(p) ==
  LET own == {c \in Stored : challenge[c].phone = p}
  IN {c \in own : \A d \in own : challenge[d].created <= challenge[c].created}

Count(r) ==
  /\ At(r, "count")
  /\ IF Cardinality(Recent(req[r].source, req[r].from - Window)) >= MaxStarts
     THEN End(r)
     ELSE \/ Latest(req[r].phone) = {} /\ Goto(r, "insert")
          \/ \E c \in Latest(req[r].phone) :
               IF challenge[c].resend > req[r].from THEN End(r) ELSE Goto(r, "insert")
  /\ UNCHANGED <<now, challenge, identities, issued>>

(* A row that would expire before it was created is refused.               *)
Insert(r) ==
  /\ At(r, "insert")
  /\ IF req[r].from + Ttl > req[r].at
     THEN \E c \in Challenges :
            /\ challenge[c].state = "absent"
            /\ challenge' = [challenge EXCEPT ![c] =
                 [NoChallenge EXCEPT !.state = "stored", !.phone = req[r].phone,
                    !.source = req[r].source, !.created = req[r].at,
                    !.expires = req[r].from + Ttl, !.resend = req[r].from + Cooldown]]
            /\ req' = [req EXCEPT ![r] = [Blank EXCEPT !.step = "send", !.id = c]]
     ELSE End(r) /\ UNCHANGED challenge
  /\ UNCHANGED <<now, identities, issued>>

(* A message that was not accepted costs the challenge, even if it came    *)
(* through and its code is already being verified.                         *)
Send(r) ==
  /\ At(r, "send")
  /\ \E accepted \in BOOLEAN : IF accepted THEN End(r) ELSE Goto(r, "delete")
  /\ UNCHANGED <<now, challenge, identities, issued>>

Locked(c) == \E q \in Requests : At(q, "verify") /\ req[q].id = c

DeleteChallenge(r) ==
  /\ At(r, "delete")
  /\ ~Locked(req[r].id)
  /\ challenge' = [challenge EXCEPT ![req[r].id] = [NoChallenge EXCEPT !.state = "deleted"]]
  /\ End(r)
  /\ UNCHANGED <<now, identities, issued>>

-----------------------------------------------------------------------------
(* verify_otp: consume, which locks the row of the challenge, then reads   *)
(* the clock and decides; then the identity, its binding and the session.  *)

VerifyOtp(r, c, right) ==
  /\ At(r, "idle")
  /\ req' = [req EXCEPT ![r] = [Blank EXCEPT !.step = "consume", !.id = c,
                                             !.right = right, !.at = now]]
  /\ UNCHANGED <<now, challenge, identities, issued>>

(* Mutant: the row is read without FOR UPDATE.                             *)
ReadChallenge(r) ==
  LET c == req[r].id
  IN /\ At(r, "consume")
     /\ IF c \in Stored
        THEN req' = [req EXCEPT ![r].step = "verify", ![r].row = challenge[c]]
        ELSE End(r)
     /\ UNCHANGED <<now, challenge, identities, issued>>

LockChallenge(r) ==
  LET c == req[r].id
  IN /\ At(r, "consume")
     /\ ~Locked(c)
     /\ IF c \in Stored
        THEN req' = [req EXCEPT ![r].step = "verify", ![r].row = challenge[c]]
        ELSE End(r)
     /\ UNCHANGED <<now, challenge, identities, issued>>

(* Mutant: one attempt too many.                                           *)
OpenOnceMore(row) ==
  row.consumed = Never /\ row.attempts <= MaxAttempts /\ row.expires > now

Open(row) ==
  row.consumed = Never /\ row.attempts < MaxAttempts /\ row.expires > now

Consume(r) ==
  LET c == req[r].id
  IN /\ At(r, "verify")
     /\ CASE ~Open(req[r].row) -> End(r) /\ UNCHANGED challenge
          [] Open(req[r].row) /\ ~req[r].right ->
               /\ challenge' = [challenge EXCEPT ![c].attempts = @ + 1]
               /\ End(r)
          [] Open(req[r].row) /\ req[r].right ->
               /\ challenge' = [challenge EXCEPT ![c].consumed = req[r].at]
               /\ req' = [req EXCEPT ![r] = [Blank EXCEPT !.step = "ensure", !.id = c,
                                              !.phone = req[r].row.phone]]
     /\ UNCHANGED <<now, identities, issued>>

EnsureIdentity(r) ==
  /\ At(r, "ensure")
  /\ \E active \in BOOLEAN : IF active THEN Goto(r, "bind") ELSE End(r)
  /\ UNCHANGED <<now, challenge, identities, issued>>

BindIdentity(r) ==
  /\ At(r, "bind")
  /\ identities' = identities \cup {req[r].phone}
  /\ Goto(r, "issue")
  /\ UNCHANGED <<now, challenge, issued>>

IssueSession(r) ==
  /\ At(r, "issue")
  /\ issued' = [issued EXCEPT ![req[r].id] = @ + 1]
  /\ End(r)
  /\ UNCHANGED <<now, challenge, identities>>

-----------------------------------------------------------------------------
Abandon(r) ==
  /\ ~At(r, "idle")
  /\ End(r)
  /\ UNCHANGED <<now, challenge, identities, issued>>

Restart ==
  /\ req' = [r \in Requests |-> Blank]
  /\ UNCHANGED <<now, challenge, identities, issued>>

Tick ==
  /\ now < MaxTime
  /\ now' = now + 1
  /\ UNCHANGED <<challenge, identities, issued, req>>

Starting(r) ==
  \/ \E p \in Phones, s \in Sources : StartOtp(r, p, s)
  \/ Begin(r) \/ LockPhone(r) \/ LockSource(r) \/ Count(r) \/ Insert(r)
  \/ Send(r) \/ DeleteChallenge(r)

Verifying(r) ==
  \/ \E c \in Challenges, right \in BOOLEAN : VerifyOtp(r, c, right)
  \/ LockChallenge(r) \/ Consume(r)
  \/ EnsureIdentity(r) \/ BindIdentity(r) \/ IssueSession(r)

Next ==
  \/ \E r \in Requests : Starting(r) \/ Verifying(r) \/ Abandon(r)
  \/ Restart \/ Tick

Spec == Init /\ [][Next]_vars

-----------------------------------------------------------------------------
(* However starts from one source interleave, and however long each waits  *)
(* for its locks, no window holds more of their challenges than allowed.   *)
StartLimit ==
  \A s \in Sources, from \in -Window .. MaxTime :
    Cardinality({c \in Recent(s, from) : challenge[c].created <= from + Window}) <= MaxStarts

(* A challenge is worth one session, whoever verifies it concurrently and  *)
(* whatever fails after it was consumed; it was consumed before it expired.*)
Passed(c) == {r \in Requests : req[r].step \in {"ensure", "bind", "issue"} /\ req[r].id = c}

OtpOnce ==
  \A c \in Challenges :
    /\ issued[c] + Cardinality(Passed(c)) <= 1
    /\ challenge[c].consumed # Never => challenge[c].consumed < challenge[c].expires
=============================================================================
