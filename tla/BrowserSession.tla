--------------------------- MODULE BrowserSession ---------------------------
(* One browser with a managed session: pages (tabs) that share the session *)
(* cookie and keep the session alive (adapters/password-web-session), the  *)
(* helper that renews it (lenso-auth-session-renewal-plugin/browser), the  *)
(* endpoints they call, and the session rows behind those.  Requests and   *)
(* answers get lost, pages are hidden, closed and reopened, and whoever    *)
(* touches the cookie holds the lock "lenso.identity-transition".          *)
EXTENDS Naturals, Sequences, FiniteSets

CONSTANTS
  Tabs,          \* pages of the browser
  Idle,          \* idle_timeout_seconds of the policy
  Absolute,      \* absolute_timeout_seconds
  Interval,      \* renew_interval_seconds
  None,          \* no cookie, no metadata, no answer
  MaxSessions,   \* bound: sign-ins that reach the server
  MaxQueue,      \* bound: waiters for the lock
  MaxStray,      \* bound: renewals whose page has given up
  MaxTime        \* bound: the clock

(* As ManagedSessionConfig::validate admits them.                          *)
ASSUME PolicyAssumption ==
  /\ Idle \in Nat \ {0} /\ Absolute \in Nat /\ Interval \in Nat \ {0}
  /\ Idle <= Absolute /\ 2 * Interval <= Idle
ASSUME BoundAssumption ==
  MaxSessions \in Nat /\ MaxQueue \in Nat /\ MaxStray \in Nat /\ MaxTime \in Nat

VARIABLES
  clock,
  sessions,  \* the managed sessions at the Account, in the order of their issue
  jar,       \* the session cookie all tabs share
  tab,       \* what each page knows and shows
  seen,      \* the observation (GET state) a page has under way
  queue,     \* those who wait for the lock, first come first served
  run,       \* the page inside the lock, and how far it is
  stray      \* renewals on their way whose page has given up
vars == <<clock, sessions, jar, tab, seen, queue, run, stray>>

Least(a, b) == IF a < b THEN a ELSE b

Meta == [expires: Nat, after: Nat]
Credential == [session: 1..MaxSessions, turn: Nat]
Cookie == [session: 1..MaxSessions, turn: Nat, until: Nat]
Session == [turn: Nat, expires: Nat, after: Nat, absolute: Nat,
            over: {"no", "revoked", "left"}, lost: BOOLEAN]
(* shown: the part of the page in sight, the session with its sign-out or  *)
(* the form, neither at first.  down: the status told last is that the     *)
(* session cannot be checked, which leaves that part as it was.            *)
(* timer: the metadata whose deadline the page waits for.                  *)
Page == [page: {"closed", "hidden", "visible"}, shown: {"none", "active", "login"},
         down: BOOLEAN, timer: Meta \cup {None}]
Kinds == {"ok", "stale", "ended", "early", "refused", "failed"}
Answer == [kind: Kinds, meta: Meta \cup {None}, cookie: Cookie \cup {None}]
Forms == {"signin", "signout"}
Calls == {"renew"} \cup Forms
Waiter == [tab: Tabs, what: Calls, meta: Meta \cup {None}]

Observation == [step: {"none", "sent"}, cookie: Credential \cup {None}]
Run == [step: {"none", "sent", "answered", "checking"}, what: Calls,
        meta: Meta \cup {None}, cookie: Credential \cup {None},
        answer: Answer \cup {None}]

ASSUME NoneAssumption == None \notin Meta \cup Credential \cup Cookie \cup Answer

Nothing == [step |-> "none", cookie |-> None]
Outside == [step |-> "none", what |-> "renew", meta |-> None, cookie |-> None,
            answer |-> None]
Closed == [page |-> "closed", shown |-> "none", down |-> FALSE, timer |-> None]

Init ==
  /\ clock = 0 /\ sessions = <<>> /\ jar = None /\ queue = <<>> /\ stray = {}
  /\ tab = [t \in Tabs |-> Closed]
  /\ seen = [t \in Tabs |-> Nothing]
  /\ run = [t \in Tabs |-> Outside]

-----------------------------------------------------------------------------
(* The server.                                                             *)

(* What the browser sends: the cookie, until its Max-Age is over.          *)
Sent(j) == IF j # None /\ j.until > clock
           THEN [session |-> j.session, turn |-> j.turn] ELSE None

(* How the Account classifies the credential of a request.                 *)
Standing(c) ==
  IF c = None THEN "ended"
  ELSE LET s == sessions[c.session]
       IN  IF s.over # "no" THEN "ended"
           ELSE IF s.turn # c.turn THEN "stale"
           ELSE IF s.expires <= clock THEN "ended" ELSE "live"

Deadlines(s) == [expires |-> s.expires, after |-> Least(s.absolute, s.after)]

Reply(kind) == [kind |-> kind, meta |-> None, cookie |-> None]

(* GET /auth/session/state, and what createSessionValidator makes of it:   *)
(* 401 and 409 are one answer, and so are all other failures.              *)
StateAnswers(c) ==
  {Reply("failed"),
   IF Standing(c) = "live"
   THEN [Reply("ok") EXCEPT !.meta = Deadlines(sessions[c.session])]
   ELSE Reply("ended")}

Rotated(s) ==
  [s EXCEPT !.turn = @ + 1, !.after = clock + Interval,
            !.expires = Least(s.absolute, clock + Idle)]

Issued ==
  [turn |-> 0, expires |-> clock + Idle, after |-> clock + Interval,
   absolute |-> clock + Absolute, over |-> "no", lost |-> FALSE]

(* Mutant: the cookie lives until the next renewal is due.                 *)
InstallingBriefly(n, s) ==
  [kind |-> "ok", meta |-> Deadlines(s),
   cookie |-> [session |-> n, turn |-> s.turn, until |-> Least(s.absolute, s.after)]]

(* A response that installs the current credential of session n.           *)
Installing(n, s) ==
  [kind |-> "ok", meta |-> Deadlines(s),
   cookie |-> [session |-> n, turn |-> s.turn, until |-> s.expires]]

Early(c) == clock < sessions[c.session].after

(* POST /auth/session/renew.                                               *)
Renewable(c) == Standing(c) = "live" /\ ~Early(c)
RenewAnswer(c) ==
  IF Renewable(c) THEN Installing(c.session, Rotated(sessions[c.session]))
  ELSE Reply(IF Standing(c) = "live" THEN "early" ELSE Standing(c))
AfterRenew(c) ==
  IF Renewable(c) THEN [sessions EXCEPT ![c.session] = Rotated(@)] ELSE sessions

(* POST /auth/logout finds the session by any of its credentials.          *)
AfterLogout(c) == [sessions EXCEPT ![c.session].over = IF @ = "no" THEN "revoked" ELSE @]

(* POST /auth/password/login: a selected credential has to go first.       *)
LoginAnswer(c) ==
  IF c # None THEN Reply("refused")
  ELSE IF Len(sessions) = MaxSessions THEN Reply("failed")
  ELSE Installing(Len(sessions) + 1, Issued)
AfterLogin(c) ==
  IF c # None \/ Len(sessions) = MaxSessions THEN sessions ELSE Append(sessions, Issued)

-----------------------------------------------------------------------------
(* The scheduler of a page, and what the page makes of the status it tells. *)

Waits(t, W) == \E i \in DOMAIN queue : queue[i].tab = t /\ queue[i].what \in W
Inside(t, W) == run[t].step # "none" /\ run[t].what \in W

(* A form that was submitted pauses the scheduler until it is done.        *)
Active(t) == tab[t].page # "closed" /\ ~Waits(t, Forms) /\ ~Inside(t, Forms)

Showing(r, part) == [r EXCEPT !.shown = part, !.down = FALSE]
Scheduled(r, m) ==
  [Showing(r, "active") EXCEPT !.timer = IF r.page = "visible" THEN m ELSE None]
LoginRequired(r) == [Showing(r, "login") EXCEPT !.timer = None]
Failed(r) == [r EXCEPT !.down = TRUE, !.timer = None]
Learned(r, a) == CASE a.kind = "ok"     -> Scheduled(r, a.meta)
                   [] a.kind = "ended"  -> LoginRequired(r)
                   [] a.kind = "failed" -> Failed(r)

(* The effect of a callback, none once the scheduler is paused.            *)
Tell(t, r) == tab' = IF Active(t) THEN [tab EXCEPT ![t] = r] ELSE tab

(* When the timer of a page fires: renewalDelay, or the expiry.            *)
Due(m) == IF m.after >= m.expires THEN m.expires ELSE m.after

Observing(j) == [step |-> "sent", cookie |-> Sent(j)]

Open(t) ==
  /\ tab[t].page = "closed"
  /\ tab' = [tab EXCEPT ![t] = [Closed EXCEPT !.page = "visible"]]
  /\ seen' = [seen EXCEPT ![t] = Observing(jar)]
  /\ UNCHANGED <<clock, sessions, jar, queue, run, stray>>

Hide(t) ==
  /\ tab[t].page = "visible"
  /\ tab' = [tab EXCEPT ![t].page = "hidden", ![t].timer = None]
  /\ UNCHANGED <<clock, sessions, jar, seen, queue, run, stray>>

(* Mutant: a page that comes back does not look at the session.            *)
ShowUnaware(t) ==
  /\ tab[t].page = "hidden"
  /\ tab' = [tab EXCEPT ![t].page = "visible"]
  /\ UNCHANGED <<clock, sessions, jar, seen, queue, run, stray>>

Show(t) ==
  /\ tab[t].page = "hidden"
  /\ tab' = [tab EXCEPT ![t].page = "visible"]
  /\ seen' = IF Active(t) /\ seen[t].step = "none"
             THEN [seen EXCEPT ![t] = Observing(jar)] ELSE seen
  /\ UNCHANGED <<clock, sessions, jar, queue, run, stray>>

(* The state endpoint is asked, and its answer applied, in one step.       *)
Observe(t) ==
  /\ seen[t].step = "sent"
  /\ \E a \in StateAnswers(seen[t].cookie) : tab' = [tab EXCEPT ![t] = Learned(@, a)]
  /\ seen' = [seen EXCEPT ![t] = Nothing]
  /\ UNCHANGED <<clock, sessions, jar, queue, run, stray>>

(* The timer fires: maintain captures the metadata and asks for the lock.  *)
Fire(t) ==
  /\ Active(t) /\ tab[t].timer # None /\ Due(tab[t].timer) <= clock
  /\ Len(queue) < MaxQueue
  /\ tab' = [tab EXCEPT ![t].timer = None]
  /\ queue' = Append(queue, [tab |-> t, what |-> "renew", meta |-> tab[t].timer])
  /\ UNCHANGED <<clock, sessions, jar, seen, run, stray>>

(* The user submits the form, or the button, that the page shows.          *)
Submit(t) ==
  /\ Active(t) /\ tab[t].page = "visible" /\ Len(queue) < MaxQueue
  /\ \E what \in Forms :
       /\ tab[t].shown = (IF what = "signin" THEN "login" ELSE "active")
       /\ queue' = Append(queue, [tab |-> t, what |-> what, meta |-> None])
  /\ tab' = [tab EXCEPT ![t].timer = None]
  /\ seen' = [seen EXCEPT ![t] = Nothing]
  /\ UNCHANGED <<clock, sessions, jar, run, stray>>

-----------------------------------------------------------------------------
(* Inside the lock.                                                        *)

LockFree == \A t \in Tabs : run[t].step = "none"

(* Web Locks serve their waiters in order, one at a time.                  *)
Granted(t) == LockFree /\ queue # <<>> /\ Head(queue).tab = t

Started(step) ==
  [step |-> step, what |-> Head(queue).what, meta |-> Head(queue).meta,
   cookie |-> Sent(jar), answer |-> None]

Leave(t) == run' = [run EXCEPT ![t] = Outside]

(* After a form a new scheduler starts: it observes the session first.     *)
Resume(t, j) == seen' = [seen EXCEPT ![t] = Observing(j)]

(* maintain and renewOnce, up to the first request.                        *)
EnterRenew(t) ==
  /\ Granted(t) /\ Head(queue).what = "renew"
  /\ queue' = Tail(queue)
  /\ LET m == Head(queue).meta
         watching == Active(t) /\ tab[t].page = "visible"
     IN  \/ /\ ~watching
            /\ UNCHANGED <<tab, run>>
         \/ /\ watching /\ m.expires <= clock
            /\ run' = [run EXCEPT ![t] = Started("checking")]
            /\ UNCHANGED tab
         \/ /\ watching /\ m.expires > clock /\ m.after <= clock /\ Sent(jar) = None
            /\ tab' = [tab EXCEPT ![t] = Failed(@)]
            /\ UNCHANGED run
         \/ /\ watching /\ m.expires > clock /\ m.after <= clock /\ Sent(jar) # None
            /\ run' = [run EXCEPT ![t] = Started("sent")]
            /\ UNCHANGED tab
  /\ UNCHANGED <<clock, sessions, jar, seen, stray>>

(* Mutant: forms do not wait for a renewal of another page.                *)
EnterFormUnlocked(t) ==
  /\ run[t].step = "none" /\ queue # <<>> /\ Head(queue).tab = t
  /\ Head(queue).what \in Forms
  /\ queue' = Tail(queue)
  /\ IF Head(queue).what = "signout" /\ Sent(jar) = None
     THEN Resume(t, jar) /\ UNCHANGED run
     ELSE run' = [run EXCEPT ![t] = Started("sent")] /\ UNCHANGED seen
  /\ UNCHANGED <<clock, sessions, jar, tab, stray>>

EnterForm(t) ==
  /\ Granted(t) /\ Head(queue).what \in Forms
  /\ queue' = Tail(queue)
  /\ IF Head(queue).what = "signout" /\ Sent(jar) = None
     THEN Resume(t, jar) /\ UNCHANGED run
     ELSE run' = [run EXCEPT ![t] = Started("sent")] /\ UNCHANGED seen
  /\ UNCHANGED <<clock, sessions, jar, tab, stray>>

(* The endpoint of a POST, and what it leaves behind.                      *)
After(what, c) == CASE what = "renew"   -> AfterRenew(c)
                    [] what = "signin"  -> AfterLogin(c)
                    [] what = "signout" -> AfterLogout(c)
AnswerTo(what, c) == CASE what = "renew"   -> RenewAnswer(c)
                       [] what = "signin"  -> LoginAnswer(c)
                       [] what = "signout" -> Reply("ok")

(* The browser never gets the credential that an answer carries.           *)
Dropping(ss, a) ==
  IF a # None /\ a.cookie # None THEN [ss EXCEPT ![a.cookie.session].lost = TRUE] ELSE ss

(* The handler may fail before its call, and after it: a timeout, or a     *)
(* response it does not vouch for.  "failed" is any answer the page makes  *)
(* nothing of, a sign-out's 401 for a session it does not find included.   *)
Serve(t) ==
  /\ run[t].step = "sent"
  /\ LET a == AnswerTo(run[t].what, run[t].cookie)
         after == After(run[t].what, run[t].cookie)
         answered(x) == [run EXCEPT ![t].step = "answered", ![t].answer = x]
     IN  \/ sessions' = after /\ run' = answered(a)
         \/ sessions' \in {sessions, Dropping(after, a)} /\ run' = answered(Reply("failed"))
  /\ UNCHANGED <<clock, jar, tab, seen, queue, stray>>

Check(t) == run' = [run EXCEPT ![t].step = "checking", ![t].cookie = Sent(jar'),
                               ![t].meta = None, ![t].answer = None]

(* The answer to a renewal, with its cookie, reaches the page.             *)
DeliverRenewal(t) ==
  /\ run[t].step = "answered" /\ run[t].what = "renew"
  /\ LET a == run[t].answer
     IN  \/ /\ a.kind = "ok" /\ jar' = a.cookie
            /\ \/ Tell(t, Scheduled(tab[t], a.meta)) /\ Leave(t)
               \/ Check(t) /\ UNCHANGED tab        \* the body was cut off
         \/ /\ a.kind = "stale"
            /\ UNCHANGED <<jar, tab>> /\ Check(t)
         \/ /\ a.kind = "ended" /\ UNCHANGED jar
            /\ Tell(t, LoginRequired(tab[t])) /\ Leave(t)
         \/ /\ a.kind = "early" /\ UNCHANGED jar
            /\ Tell(t, Scheduled(tab[t], run[t].meta)) /\ Leave(t)
         \/ /\ a.kind = "failed" /\ UNCHANGED jar
            /\ Tell(t, Failed(tab[t])) /\ Leave(t)
  /\ UNCHANGED <<clock, sessions, seen, queue, stray>>

DeliverForm(t) ==
  /\ run[t].step = "answered" /\ run[t].what \in Forms
  /\ LET a == run[t].answer
     IN  /\ jar' = IF a.kind = "ok" THEN a.cookie ELSE jar
         /\ sessions' = IF run[t].what = "signout" /\ a.kind = "ok"
                        THEN [sessions EXCEPT ![run[t].cookie.session].over = "left"]
                        ELSE sessions
  /\ Leave(t) /\ Resume(t, jar')
  /\ UNCHANGED <<clock, tab, queue, stray>>

(* A renewal that was given up may be lost or still arrive.  A sign-out    *)
(* that still arrives is Revoke, a sign-in opens a session nobody sees.    *)
GiveUp(t) ==
  /\ sessions' = Dropping(sessions, run[t].answer)
  /\ \/ stray' = stray
     \/ /\ run[t].step = "sent" /\ run[t].what = "renew" /\ Cardinality(stray) < MaxStray
        /\ stray' = stray \cup {run[t].cookie}

(* fetch fails: the request or its answer is lost.                         *)
Lose(t) ==
  /\ run[t].step \in {"sent", "answered"}
  /\ GiveUp(t) /\ UNCHANGED jar
  /\ IF run[t].what = "signout" THEN Leave(t) /\ Resume(t, jar)
     ELSE Check(t) /\ UNCHANGED seen
  /\ UNCHANGED <<clock, tab, queue>>

ServeStray ==
  /\ \E c \in stray :
       /\ sessions' = Dropping(AfterRenew(c), RenewAnswer(c))
       /\ stray' = stray \ {c}
  /\ UNCHANGED <<clock, jar, tab, seen, queue, run>>

(* The form puts the answer on the page itself, its scheduler is paused.   *)
Put(r, a) == CASE a.kind = "ok"     -> Showing(r, "active")
               [] a.kind = "ended"  -> Showing(r, "login")
               [] a.kind = "failed" -> r

(* validateOnce, and the one check after a sign-in whose answer was lost:  *)
(* asked and applied in one step, like Observe.                            *)
Conclude(t) ==
  /\ run[t].step = "checking" /\ Leave(t)
  /\ \/ /\ run[t].what = "signin"
        /\ \E a \in StateAnswers(run[t].cookie) : tab' = [tab EXCEPT ![t] = Put(@, a)]
        /\ Resume(t, jar)
     \/ /\ run[t].what = "renew"
        /\ \E a \in StateAnswers(run[t].cookie) : Tell(t, Learned(tab[t], a))
        /\ UNCHANGED seen
  /\ UNCHANGED <<clock, sessions, jar, queue, stray>>

(* The waiters of the other pages, who stay in their order.                *)
Others(t) == {i \in DOMAIN queue : queue[i].tab # t}
Place(i, t) == Cardinality({j \in Others(t) : j <= i})
Remaining(t) ==
  [n \in 1..Cardinality(Others(t)) |-> queue[CHOOSE i \in Others(t) : Place(i, t) = n]]

(* The page goes away, with everything it had under way.                   *)
Close(t) ==
  /\ tab[t].page # "closed"
  /\ tab' = [tab EXCEPT ![t] = Closed]
  /\ seen' = [seen EXCEPT ![t] = Nothing]
  /\ queue' = Remaining(t)
  /\ Leave(t) /\ GiveUp(t)
  /\ UNCHANGED <<clock, jar>>

(* The administrator revokes the session, or disables its subject.         *)
Revoke ==
  /\ \E n \in DOMAIN sessions :
       /\ sessions[n].over = "no"
       /\ sessions' = [sessions EXCEPT ![n].over = "revoked"]
  /\ UNCHANGED <<clock, jar, tab, seen, queue, run, stray>>

Tick ==
  /\ clock < MaxTime /\ clock' = clock + 1
  /\ UNCHANGED <<sessions, jar, tab, seen, queue, run, stray>>

Next ==
  \/ \E t \in Tabs :
       \/ Open(t) \/ Hide(t) \/ Show(t) \/ Close(t) \/ Observe(t)
       \/ Fire(t) \/ Submit(t) \/ EnterRenew(t) \/ EnterForm(t) \/ Serve(t)
       \/ DeliverRenewal(t) \/ DeliverForm(t) \/ Lose(t) \/ Conclude(t)
  \/ ServeStray \/ Revoke \/ Tick

Spec == Init /\ [][Next]_vars

-----------------------------------------------------------------------------
TypeOK ==
  /\ clock \in 0..MaxTime
  /\ sessions \in Seq(Session) /\ Len(sessions) <= MaxSessions
  /\ jar \in Cookie \cup {None}
  /\ tab \in [Tabs -> Page]
  /\ queue \in Seq(Waiter) /\ Len(queue) <= MaxQueue
  /\ seen \in [Tabs -> Observation]
  /\ run \in [Tabs -> Run]
  /\ stray \subseteq Credential

(* The browser has a cause to ask for a login: the session of a cookie is  *)
(* over, or the credential that replaced it was lost on the way.           *)
Worthless(c) ==
  \/ c = None
  \/ LET s == sessions[c.session] IN s.over # "no" \/ s.expires <= clock \/ s.lost

SentToLogin(t) ==
  \/ run[t].step = "answered" /\ run[t].answer.kind = "ended"
  \/ run[t].step = "checking" /\ run[t].what = "renew" /\ Standing(run[t].cookie) # "live"

(* Renewing sends the user to the login form only for such a cause, never  *)
(* because two pages renewed at once, or one of them missed a renewal: what *)
(* renewOnce promises with its lock and its one validation.                *)
SentToLoginForCause ==
  \A t \in Tabs : SentToLogin(t) =>
    Worthless(IF run[t].cookie = None THEN jar ELSE run[t].cookie)

(* The cookie moves on: an answer replaces it only by a newer credential,  *)
(* and never installs one of a session the user has signed out of, however *)
(* late the answer to a renewal is.  This is what login, logout and renewal *)
(* share the lock for.                                                     *)
Newer(new, old) ==
  \/ new.session > old.session
  \/ new.session = old.session /\ new.turn > old.turn
CookieMovesOn ==
  [][/\ jar # None /\ jar' # None => Newer(jar', jar)
     /\ jar' # None => sessions[jar'.session].over # "left"]_jar

(* A visible page that shows an active session has not lost sight of it:   *)
(* its timer runs, an observation is under way, or a renewal waits or runs, *)
(* whatever became of the ones before (maintain, observe, visible), unless *)
(* it says that the session cannot be checked and has to be reloaded.      *)
Vouches(r) == r.page = "visible" /\ r.shown = "active" /\ ~r.down
AlwaysWatched ==
  \A t \in Tabs : Vouches(tab[t]) /\ Active(t) =>
    \/ tab[t].timer # None \/ seen[t].step # "none"
    \/ Waits(t, {"renew"}) \/ Inside(t, {"renew"})

(* After the loss of a renewed credential the user can sign in again, as   *)
(* docs/managed-sessions.md says.  The endpoint refuses it, while the spent *)
(* cookie lives.                                                           *)
SignInAfterLoss ==
  \A t \in Tabs : run[t].what = "signin" /\ run[t].step = "answered" =>
    (run[t].answer.kind = "refused" => ~sessions[run[t].cookie.session].lost)

=============================================================================
