---------------------------- MODULE PasswordAuth ----------------------------
(***************************************************************************)
(* The Password plugin (src/crates/lenso-auth-password-plugin): sign-up,   *)
(* sign-in, the window of failed sign-ins kept for each identifier, and    *)
(* the permits that bound the password hashing done at once.               *)
(*                                                                         *)
(* A handler awaits between any two of its steps. An SQL statement, or a   *)
(* transaction under the advisory lock of its identifier, is one step,     *)
(* except that the time a failure is stamped with is the time its          *)
(* transaction begins, which may be before the lock is granted.            *)
(*                                                                         *)
(* A stored hash is the password it was made from. The Account plugin is   *)
(* external: it knows a subject for each identifier, active or disabled.   *)
(***************************************************************************)
EXTENDS Integers, FiniteSets

CONSTANTS
  Identifiers, Passwords,
  Requests,      \* the handlers that can be in progress at once
  Slots,         \* the rows that password_login_failures has room for
  None,          \* an SQL NULL, and a row that is not there
  Window,        \* failure_window_seconds
  MaxFailures,   \* max_failures
  MaxJobs,       \* MAX_PASSWORD_WORK_JOBS
  Batch,         \* STALE_FAILURE_PRUNE_BATCH
  MaxTime        \* the bound on the clock

ASSUME LimitAssumption ==
  /\ Window \in Nat \ {0}
  /\ MaxFailures \in Nat \ {0}
  /\ MaxJobs \in Nat \ {0}
  /\ Batch \in Nat \ {0}
  /\ MaxTime \in Nat

ASSUME FiniteAssumption == IsFiniteSet(Slots) /\ IsFiniteSet(Requests)

ASSUME AbsentAssumption == None \notin Identifiers \cup Passwords

VARIABLES
  now,         \* the clock of the host and of the database
  account,     \* the Account plugin's view of the subject of each identifier
  credential,  \* password_credentials: identifier -> hash, or None
  failures,    \* password_login_failures: the rows, each a failure or NoFailure
  permits,     \* the permits left in PasswordWork
  orphans,     \* hashing jobs still running whose caller went away
  req          \* the handlers in progress and the answers they gave

vars == <<now, account, credential, failures, permits, orphans, req>>

NoFailure == [id |-> None, at |-> 0]
Failure   == [id : Identifiers \cup {None}, at : Nat]

JobSteps == {"hashing", "verifying"}
Steps    == {"idle", "ensure", "insert", "prune", "check", "load", "verify",
             "record", "recording", "clear", "issue"} \cup JobSteps
Outcomes == {"none", "registered", "signed_in", "taken", "disabled", "invalid",
             "rate_limited", "failed"}

Request ==
  [op : {"none", "register", "login"}, step : Steps, outcome : Outcomes,
   id : Identifiers \cup {None}, password : Passwords \cup {None},
   hash : Passwords \cup {None}, start : Nat, stamp : Nat]

Blank == [op |-> "none", step |-> "idle", outcome |-> "none", id |-> None,
          password |-> None, hash |-> None, start |-> 0, stamp |-> 0]

TypeOK ==
  /\ now \in 0 .. MaxTime
  /\ account \in [Identifiers -> {"unknown", "active", "disabled"}]
  /\ credential \in [Identifiers -> Passwords \cup {None}]
  /\ failures \in [Slots -> Failure]
  /\ permits \in 0 .. MaxJobs
  /\ orphans \in 0 .. MaxJobs
  /\ req \in [Requests -> Request]

-----------------------------------------------------------------------------
Rows(i)         == {k \in Slots : failures[k].id = i}
InWindow(i)     == {k \in Rows(i) : failures[k].at >= now - Window}
Before(t)       == {k \in Slots : failures[k].id # None /\ failures[k].at < t}
Without(S)      == [k \in Slots |-> IF k \in S THEN NoFailure ELSE failures[k]]
Jobs            == {r \in Requests : req[r].step \in JobSteps}

(* What a login looks back at: fixed when it starts.                       *)
Since(r)        == req[r].start - Window

At(r, step)      == req[r].step = step
Goto(r, step)    == req' = [req EXCEPT ![r].step = step]
Reply(r, answer) ==
  req' = [req EXCEPT ![r] = [Blank EXCEPT !.op = req[r].op, !.id = req[r].id,
                               !.password = req[r].password, !.outcome = answer]]

Init ==
  /\ now = 0
  /\ account = [i \in Identifiers |-> "unknown"]
  /\ credential = [i \in Identifiers |-> None]
  /\ failures = [k \in Slots |-> NoFailure]
  /\ permits = MaxJobs
  /\ orphans = 0
  /\ req = [r \in Requests |-> Blank]

-----------------------------------------------------------------------------
(* register: hash the password, ensure the identity, insert the credential *)
(* unless there is one, and issue a session.                               *)

RegisterBegin(r, i, p) ==
  /\ At(r, "idle")
  /\ req' = [req EXCEPT ![r] = [Blank EXCEPT
               !.op = "register", !.id = i, !.password = p,
               !.step = IF permits = 0 THEN "idle" ELSE "hashing",
               !.outcome = IF permits = 0 THEN "failed" ELSE "none"]]
  /\ permits' = IF permits = 0 THEN 0 ELSE permits - 1
  /\ UNCHANGED <<now, account, credential, failures, orphans>>

EndHash(r) ==
  /\ At(r, "hashing")
  /\ Goto(r, "ensure")
  /\ permits' = permits + 1
  /\ UNCHANGED <<now, account, credential, failures, orphans>>

Ensure(r) ==
  LET i == req[r].id
  IN /\ At(r, "ensure")
     /\ IF account[i] = "disabled"
        THEN Reply(r, "disabled") /\ UNCHANGED account
        ELSE Goto(r, "insert") /\ account' = [account EXCEPT ![i] = "active"]
     /\ UNCHANGED <<now, credential, failures, permits, orphans>>

(* Mutant: the insert overwrites the credential of an earlier sign-up.     *)
InsertOverwriting(r) ==
  /\ At(r, "insert")
  /\ credential' = [credential EXCEPT ![req[r].id] = req[r].password]
  /\ Goto(r, "issue")
  /\ UNCHANGED <<now, account, failures, permits, orphans>>

Insert(r) ==
  LET i == req[r].id
  IN /\ At(r, "insert")
     /\ IF credential[i] = None
        THEN credential' = [credential EXCEPT ![i] = req[r].password] /\ Goto(r, "issue")
        ELSE Reply(r, "taken") /\ UNCHANGED credential
     /\ UNCHANGED <<now, account, failures, permits, orphans>>

(* The session itself is the Account plugin's.                             *)
Issue(r) ==
  /\ At(r, "issue")
  /\ Reply(r, IF account[req[r].id] = "disabled" THEN "disabled"
              ELSE IF req[r].op = "register" THEN "registered" ELSE "signed_in")
  /\ UNCHANGED <<now, account, credential, failures, permits, orphans>>

-----------------------------------------------------------------------------
(* login: prune, refuse when the window is full, verify, then either       *)
(* record the failure, if the window still has room, or clear the window   *)
(* and issue a session.                                                    *)

LoginBegin(r, i, p) ==
  /\ At(r, "idle")
  /\ req' = [req EXCEPT ![r] = [Blank EXCEPT !.op = "login", !.step = "prune",
               !.id = i, !.password = p, !.start = now]]
  /\ UNCHANGED <<now, account, credential, failures, permits, orphans>>

(* Mutant: the batch takes every row that is older than the login.         *)
PruneStaleRecent(r) ==
  /\ At(r, "prune")
  /\ \E S \in SUBSET Before(req[r].start) :
       /\ Cardinality(S) <= Batch
       /\ failures' = Without(S)
  /\ Goto(r, "check")
  /\ UNCHANGED <<now, account, credential, permits, orphans>>

(* At most a batch of stale rows of any identifier; rows that others have  *)
(* locked are skipped.                                                     *)
PruneStale(r) ==
  /\ At(r, "prune")
  /\ \E S \in SUBSET Before(Since(r)) :
       /\ Cardinality(S) <= Batch
       /\ failures' = Without(S)
  /\ Goto(r, "check")
  /\ UNCHANGED <<now, account, credential, permits, orphans>>

(* The rows of its identifier that a login still counts.                   *)
Counted(r) == Rows(req[r].id) \ Before(Since(r))

Check(r) ==
  /\ At(r, "check")
  /\ failures' = Without(Rows(req[r].id) \cap Before(Since(r)))
  /\ IF Cardinality(Counted(r)) >= MaxFailures THEN Reply(r, "rate_limited")
                                               ELSE Goto(r, "load")
  /\ UNCHANGED <<now, account, credential, permits, orphans>>

Load(r) ==
  /\ At(r, "load")
  /\ req' = [req EXCEPT ![r].step = "verify", ![r].hash = credential[req[r].id]]
  /\ UNCHANGED <<now, account, credential, failures, permits, orphans>>

(* Mutant: the permit is taken without looking whether there is one.       *)
VerifyUnbounded(r) ==
  /\ At(r, "verify")
  /\ Goto(r, "verifying")
  /\ permits' = permits - 1
  /\ UNCHANGED <<now, account, credential, failures, orphans>>

Verify(r) ==
  /\ At(r, "verify")
  /\ IF permits = 0
     THEN Reply(r, "rate_limited") /\ UNCHANGED permits
     ELSE Goto(r, "verifying") /\ permits' = permits - 1
  /\ UNCHANGED <<now, account, credential, failures, orphans>>

(* Without a credential a dummy hash is verified and the answer ignored.   *)
Valid(r) == req[r].hash # None /\ req[r].hash = req[r].password

EndVerify(r) ==
  /\ At(r, "verifying")
  /\ Goto(r, IF Valid(r) THEN "clear" ELSE "record")
  /\ permits' = permits + 1
  /\ UNCHANGED <<now, account, credential, failures, orphans>>

(* The transaction begins; then it waits for the lock of its identifier.   *)
RecordBegin(r) ==
  /\ At(r, "record")
  /\ req' = [req EXCEPT ![r].step = "recording", ![r].stamp = now]
  /\ UNCHANGED <<now, account, credential, failures, permits, orphans>>

Recorded(r, k) ==
  [Without(Rows(req[r].id) \cap Before(Since(r))) EXCEPT
     ![k] = [id |-> req[r].id, at |-> req[r].stamp]]

(* Mutant: the failure is recorded without counting again under the lock.  *)
RecordUncounted(r) ==
  /\ At(r, "recording")
  /\ \E k \in Slots : failures[k] = NoFailure /\ failures' = Recorded(r, k)
  /\ Reply(r, "invalid")
  /\ UNCHANGED <<now, account, credential, permits, orphans>>

Record(r) ==
  /\ At(r, "recording")
  /\ IF Cardinality(Counted(r)) < MaxFailures
     THEN /\ \E k \in Slots : failures[k] = NoFailure /\ failures' = Recorded(r, k)
          /\ Reply(r, "invalid")
     ELSE /\ failures' = Without(Rows(req[r].id) \cap Before(Since(r)))
          /\ Reply(r, "rate_limited")
  /\ UNCHANGED <<now, account, credential, permits, orphans>>

Clear(r) ==
  /\ At(r, "clear")
  /\ failures' = Without(Rows(req[r].id))
  /\ Goto(r, "issue")
  /\ UNCHANGED <<now, account, credential, permits, orphans>>

-----------------------------------------------------------------------------
(* A caller that goes away, or a statement that fails, ends its handler at *)
(* whichever step it has reached. A hashing job it left behind runs on,    *)
(* and holds its permit until it ends.                                     *)

(* Mutant: the permit of an abandoned job is not given back.               *)
AbandonLeaking(r) ==
  /\ ~At(r, "idle")
  /\ Reply(r, "failed")
  /\ UNCHANGED <<now, account, credential, failures, permits, orphans>>

Abandon(r) ==
  /\ ~At(r, "idle")
  /\ Reply(r, "failed")
  /\ orphans' = IF r \in Jobs THEN orphans + 1 ELSE orphans
  /\ UNCHANGED <<now, account, credential, failures, permits>>

EndOrphan ==
  /\ orphans > 0
  /\ orphans' = orphans - 1
  /\ permits' = permits + 1
  /\ UNCHANGED <<now, account, credential, failures, req>>

Restart ==
  /\ permits' = MaxJobs
  /\ orphans' = 0
  /\ req' = [r \in Requests |-> Blank]
  /\ UNCHANGED <<now, account, credential, failures>>

Tick ==
  /\ now < MaxTime
  /\ now' = now + 1
  /\ UNCHANGED <<account, credential, failures, permits, orphans, req>>

SetAccount(i, status) ==
  /\ account[i] \notin {"unknown", status}
  /\ account' = [account EXCEPT ![i] = status]
  /\ UNCHANGED <<now, credential, failures, permits, orphans, req>>

Register(r) == EndHash(r) \/ Ensure(r) \/ Insert(r)
Login(r)    == \/ PruneStale(r) \/ Check(r) \/ Load(r) \/ Verify(r) \/ EndVerify(r)
               \/ RecordBegin(r) \/ Record(r) \/ Clear(r)

Next ==
  \/ \E r \in Requests :
       \/ \E i \in Identifiers, p \in Passwords : RegisterBegin(r, i, p) \/ LoginBegin(r, i, p)
       \/ Register(r) \/ Login(r) \/ Issue(r) \/ Abandon(r)
  \/ EndOrphan
  \/ Restart
  \/ Tick
  \/ \E i \in Identifiers, status \in {"active", "disabled"} : SetAccount(i, status)

Spec == Init /\ [][Next]_vars

(* Time passes, and a hashing job ends: it is a bounded computation on a   *)
(* blocking thread that nothing cancels. No request is assumed to make     *)
(* progress.                                                               *)
FairSpec ==
  /\ Spec
  /\ WF_vars(Tick)
  /\ WF_vars(EndOrphan)
  /\ \A r \in Requests : WF_vars(EndHash(r) \/ EndVerify(r))

-----------------------------------------------------------------------------
(* However many wrong passwords are verified at once, the window of an     *)
(* identifier never holds more than max_failures: all of them may pass the *)
(* first check, the count under the lock admits the rest of the window.    *)
FailureLimit == \A i \in Identifiers : Cardinality(InWindow(i)) <= MaxFailures

(* A recorded failure is forgotten only when it is older than the window   *)
(* or when its identifier signed in with its password: neither the prune   *)
(* of another login, with an older view of the window, nor the reuse of    *)
(* its row takes it away.                                                  *)
NoForgetting ==
  [][\A k \in Slots : failures[k] # NoFailure /\ failures'[k] # failures[k] =>
       \/ failures[k].at < now - Window
       \/ \E r \in Requests : /\ At(r, "clear") /\ req[r].id = failures[k].id
                              /\ credential[req[r].id] = req[r].password]_vars

(* Of concurrent sign-ups for one identifier only the one whose password   *)
(* is stored is answered with a session, and later only that password      *)
(* signs in.                                                               *)
OneRegistrant ==
  \A r \in Requests :
    /\ req[r].outcome \in {"registered", "signed_in"} =>
         credential[req[r].id] = req[r].password
    /\ req[r].outcome = "registered" =>
         \A q \in Requests \ {r} :
           ~(req[q].outcome = "registered" /\ req[q].id = req[r].id)

(* Every permit is free, or held by a job that runs: for a handler that    *)
(* waits for it, or for one that went away.                                *)
PermitsConserved == permits + orphans + Cardinality(Jobs) = MaxJobs

Locked(i) == Cardinality(InWindow(i)) >= MaxFailures

(* An identifier that is locked out is let in again, though wrong          *)
(* passwords keep coming: those refused do not prolong the lock.           *)
LockoutEnds ==
  \A i \in Identifiers : (Locked(i) /\ now + Window < MaxTime) ~> ~Locked(i)

(* Password work that is saturated recovers, though the callers go away.   *)
SaturationEnds == (permits = 0) ~> (permits > 0)
=============================================================================
