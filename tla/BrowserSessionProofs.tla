------------------------ MODULE BrowserSessionProofs ------------------------
(***************************************************************************)
(* Proofs about BrowserSession, for all sets of pages, all policies and    *)
(* all bounds: why a page sends the user to the login form, why it does    *)
(* not lose sight of its session, and that the cookie moves on.            *)
(***************************************************************************)
EXTENDS BrowserSession, SequenceTheorems, FiniteSetTheorems, TLAPS

-----------------------------------------------------------------------------
(* The inductive invariant.                                                *)

(* Whatever names a session names one that was issued.                     *)
Row(n) == n \in DOMAIN sessions

Listed ==
  /\ jar # None => Row(jar.session)
  /\ \A t \in Tabs :
       /\ seen[t].cookie # None => Row(seen[t].cookie.session)
       /\ run[t].cookie # None => Row(run[t].cookie.session)
       /\ run[t].answer # None /\ run[t].answer.cookie # None =>
            Row(run[t].answer.cookie.session)
  /\ \A c \in stray : Row(c.session)

(* A renewal waits with the metadata whose deadline let it fire.           *)
Queued == \A i \in DOMAIN queue : queue[i].what = "renew" => queue[i].meta # None

(* The lock: one page at a time is inside.                                 *)
Alone == \A t, u \in Tabs : run[t].step # "none" /\ run[u].step # "none" => t = u

(* The cookie of a living session is its current credential, and dies with *)
(* it, unless the credential that replaced it was lost.                    *)
Current(c) ==
  LET s == sessions[c.session]
  IN  s.over # "no" \/ s.lost \/ (s.turn = c.turn /\ s.expires = c.until)

Carried(t) == run[t].step = "answered" /\ run[t].answer.cookie # None
InFlight(n) == \E t \in Tabs : Carried(t) /\ run[t].answer.cookie.session = n

(* The jar holds the current credential, or the next one is on its way.    *)
JarStands ==
  jar # None =>
    sessions[jar.session].over # "left" /\ (Current(jar) \/ InFlight(jar.session))

(* While a page is inside the lock, the credential it has sent stays the   *)
(* one in the jar.                                                         *)
Holds(c) == jar # None /\ c.session = jar.session /\ c.turn = jar.turn

Asking(t) ==
  run[t].step \in {"sent", "answered"} =>
    /\ run[t].what # "signin" => run[t].cookie # None /\ Holds(run[t].cookie)
    /\ run[t].what = "renew" => run[t].meta # None

Answering(t) ==
  /\ run[t].step = "answered" <=> run[t].answer # None
  /\ run[t].step = "answered" /\ run[t].answer.kind = "ended" =>
       run[t].what = "renew" /\ Worthless(run[t].cookie)
  /\ run[t].step = "answered" /\ run[t].answer.kind = "ok" /\ run[t].what = "renew" =>
       run[t].answer.cookie # None /\ run[t].answer.meta # None

(* A credential on its way to the jar is current, and newer than the jar's.*)
Carrying(t) ==
  Carried(t) =>
    LET c == run[t].answer.cookie
    IN  /\ run[t].answer.kind = "ok" /\ run[t].what # "signout"
        /\ Current(c) /\ sessions[c.session].over # "left"
        /\ run[t].what = "renew" =>
             c.session = run[t].cookie.session /\ c.turn = run[t].cookie.turn + 1
        /\ run[t].what = "signin" /\ jar # None => c.session > jar.session

Checking(t) ==
  run[t].step = "checking" /\ run[t].what = "renew" =>
    IF run[t].cookie = None THEN jar = None \/ jar.until <= clock
    ELSE Holds(run[t].cookie)

Call(t) == Asking(t) /\ Answering(t) /\ Carrying(t) /\ Checking(t)

Locked == Alone /\ JarStands /\ \A t \in Tabs : Call(t)

Inv == TypeOK /\ Listed /\ Queued /\ Locked /\ AlwaysWatched

-----------------------------------------------------------------------------
(* What the helpers return.                                                *)

LEMMA OutsideTyped ==
  /\ Nothing \in Observation /\ Outside \in Run /\ Closed \in Page
BY DEF Nothing, Observation, Outside, Run, Calls, Forms, Closed, Page

LEMMA LeastTyped ==
  ASSUME NEW a \in Nat, NEW b \in Nat
  PROVE  Least(a, b) \in Nat
BY DEF Least

LEMMA SentTyped ==
  ASSUME NEW j \in Cookie \cup {None}
  PROVE  /\ Sent(j) \in Credential \cup {None}
         /\ Sent(j) # None <=> j # None /\ j.until > clock
         /\ Sent(j) # None => Sent(j).session = j.session /\ Sent(j).turn = j.turn
<1>1. j # None => [session |-> j.session, turn |-> j.turn] \in Credential
  BY DEF Cookie, Credential
<1> QED  BY <1>1, NoneAssumption DEF Sent

LEMMA DeadlinesTyped ==
  ASSUME NEW s \in Session
  PROVE  Deadlines(s) \in Meta /\ Deadlines(s) # None
<1>1. Least(s.absolute, s.after) \in Nat  BY LeastTyped DEF Session
<1>2. Deadlines(s) \in Meta  BY <1>1 DEF Deadlines, Meta, Session
<1> QED  BY <1>2, NoneAssumption

LEMMA ReplyTyped ==
  ASSUME NEW kind \in Kinds
  PROVE  /\ Reply(kind) \in Answer /\ Reply(kind) # None
         /\ Reply(kind).kind = kind /\ Reply(kind).cookie = None
<1>1. Reply(kind) \in Answer  BY DEF Reply, Answer
<1> QED  BY <1>1, NoneAssumption DEF Reply

LEMMA RowTyped ==
  ASSUME TypeOK, NEW n, Row(n)
  PROVE  sessions[n] \in Session /\ n \in 1..Len(sessions) /\ n \in 1..MaxSessions
<1>1. sessions \in Seq(Session) /\ Len(sessions) <= MaxSessions  BY DEF TypeOK
<1>2. n \in 1..Len(sessions)  BY <1>1 DEF Row
<1>3. sessions[n] \in Session  BY <1>1, <1>2
<1> QED  BY <1>1, <1>2, <1>3, BoundAssumption

LEMMA RotatedTyped ==
  ASSUME TypeOK, NEW s \in Session
  PROVE  /\ Rotated(s) \in Session
         /\ Rotated(s).turn = s.turn + 1 /\ Rotated(s).over = s.over
         /\ Rotated(s).lost = s.lost
<1>1. clock + Interval \in Nat /\ clock + Idle \in Nat
  BY PolicyAssumption, BoundAssumption DEF TypeOK
<1>2. Least(s.absolute, clock + Idle) \in Nat  BY <1>1, LeastTyped DEF Session
<1> DEFINE after == clock + Interval
           expires == Least(s.absolute, clock + Idle)
<1>3. Rotated(s) = [s EXCEPT !.turn = s.turn + 1, !.after = after, !.expires = expires]
  BY DEF Rotated
<1>4. after \in Nat /\ expires \in Nat  BY <1>1, <1>2
<1> HIDE DEF after, expires
<1> DEFINE y == [s EXCEPT !.turn = s.turn + 1]
           z == [y EXCEPT !.after = after]
<1>5. y \in Session /\ y.turn = s.turn + 1 /\ y.over = s.over /\ y.lost = s.lost
  BY DEF Session
<1>6. Rotated(s) = [z EXCEPT !.expires = expires]  BY <1>3
<1> HIDE DEF y
<1>7. z \in Session /\ z.turn = y.turn /\ z.over = y.over /\ z.lost = y.lost
  BY <1>4, <1>5 DEF Session
<1> HIDE DEF z
<1> QED  BY <1>4, <1>5, <1>6, <1>7 DEF Session

LEMMA IssuedTyped ==
  ASSUME TypeOK
  PROVE  Issued \in Session /\ Issued.over = "no" /\ Issued.turn = 0
<1>1. clock + Interval \in Nat /\ clock + Idle \in Nat /\ clock + Absolute \in Nat
  BY PolicyAssumption, BoundAssumption DEF TypeOK
<1> QED  BY <1>1 DEF Issued, Session

LEMMA InstallingTyped ==
  ASSUME NEW s \in Session, NEW n \in 1..MaxSessions
  PROVE  LET a == Installing(n, s)
         IN  /\ a \in Answer /\ a # None /\ a.kind = "ok"
             /\ a.meta # None /\ a.cookie # None
             /\ a.cookie.session = n /\ a.cookie.turn = s.turn
             /\ a.cookie.until = s.expires
<1> DEFINE c == [session |-> n, turn |-> s.turn, until |-> s.expires]
<1>1. c \in Cookie /\ c # None
  <2>1. c \in Cookie  BY DEF Session, Cookie
  <2> QED  BY <2>1, NoneAssumption
<1>2. Deadlines(s) \in Meta /\ Deadlines(s) # None  BY DeadlinesTyped
<1>3. Installing(n, s) = [kind |-> "ok", meta |-> Deadlines(s), cookie |-> c]
  BY DEF Installing
<1> HIDE DEF c
<1>4. Installing(n, s) \in Answer  BY <1>1, <1>2, <1>3 DEF Answer, Kinds
<1>5. Installing(n, s) # None  BY <1>4, NoneAssumption
<1> QED  BY <1>1, <1>2, <1>3, <1>4, <1>5 DEF c

(* The standing of a credential, and the answers of the state endpoint.    *)
LEMMA StandingCases ==
  ASSUME NEW c
  PROVE  /\ Standing(c) \in {"ended", "stale", "live"}
         /\ Standing(c) = "ended" => Worthless(c)
         /\ Standing(c) = "live" =>
              c # None /\ sessions[c.session].over = "no"
              /\ sessions[c.session].turn = c.turn /\ ~(sessions[c.session].expires <= clock)
         /\ c # None /\ Standing(c) # "live" =>
              Worthless(c) \/ sessions[c.session].turn # c.turn
BY DEF Standing, Worthless

LEMMA StateAnswersTyped ==
  ASSUME TypeOK, NEW c, c # None => Row(c.session), NEW a \in StateAnswers(c)
  PROVE  a \in Answer /\ a.kind \in {"ok", "ended", "failed"} /\ (a.kind = "ok" => a.meta # None)
<1> DEFINE n == c.session
           d == Deadlines(sessions[n])
           b == [Reply("ok") EXCEPT !.meta = d]
<1>1. CASE a = b /\ Standing(c) = "live"
  <2>1. sessions[n] \in Session  BY <1>1, StandingCases, RowTyped
  <2>2. d \in Meta /\ d # None  BY <2>1, DeadlinesTyped
  <2>3. Reply("ok") = [kind |-> "ok", meta |-> None, cookie |-> None]  BY DEF Reply
  <2> HIDE DEF d
  <2> QED  BY <1>1, <2>2, <2>3 DEF Answer, Kinds
<1>2. CASE a = Reply("failed") \/ a = Reply("ended")
  BY <1>2, ReplyTyped DEF Kinds
<1> QED  BY <1>1, <1>2 DEF StateAnswers

(* What a page shows after an answer: an active session only with a timer. *)
Watchful(r) == Vouches(r) => r.timer # None

LEMMA ShownTyped ==
  ASSUME NEW r \in Page, NEW m \in Meta
  PROVE  /\ Scheduled(r, m) \in Page /\ Watchful(Scheduled(r, m))
         /\ LoginRequired(r) \in Page /\ Watchful(LoginRequired(r))
         /\ Failed(r) \in Page /\ Watchful(Failed(r))
<1>1. m # None  BY NoneAssumption
<1>2. Scheduled(r, m) \in Page /\ Watchful(Scheduled(r, m))
  BY <1>1 DEF Page, Scheduled, Showing, Watchful, Vouches
<1> QED  BY <1>2 DEF Page, LoginRequired, Failed, Showing, Watchful, Vouches

(* A form puts no more than the answer on the page.                        *)
LEMMA PutTyped ==
  ASSUME NEW r \in Page, NEW a \in Answer, a.kind \in {"ok", "ended", "failed"}
  PROVE  Put(r, a) \in Page
<1>1. Showing(r, "active") \in Page /\ Showing(r, "login") \in Page  BY DEF Page, Showing
<1> QED  BY <1>1 DEF Put

LEMMA LearnedTyped ==
  ASSUME NEW r \in Page, NEW a \in Answer, a.kind \in {"ok", "ended", "failed"},
         a.kind = "ok" => a.meta # None
  PROVE  Learned(r, a) \in Page /\ Watchful(Learned(r, a))
<1>1. CASE a.kind = "ok"
  <2>1. a.meta \in Meta  BY <1>1 DEF Answer
  <2>2. Learned(r, a) = Scheduled(r, a.meta)  BY <1>1 DEF Learned
  <2> QED  BY <2>1, <2>2, ShownTyped
<1>2. CASE a.kind = "ended"
  <2>1. Learned(r, a) = LoginRequired(r)  BY <1>2 DEF Learned
  <2> QED  BY <2>1 DEF Page, LoginRequired, Showing, Watchful, Vouches
<1>3. CASE a.kind = "failed"
  <2>1. Learned(r, a) = Failed(r)  BY <1>3 DEF Learned
  <2> QED  BY <2>1 DEF Page, Failed, Watchful, Vouches
<1> QED  BY <1>1, <1>2, <1>3

-----------------------------------------------------------------------------
(* The rows of the sessions: what becomes of a row in every step but the   *)
(* success of a renewal and a sign-out.                                    *)

Aged(s, z) ==
  /\ s.over # "no" => z.over # "no"
  /\ s.lost => z.lost
  /\ z.lost \/ (z.turn = s.turn /\ z.expires = s.expires)
  /\ z.over = "left" => s.over = "left"

Ages(ss) ==
  /\ ss \in Seq(Session) /\ Len(sessions) <= Len(ss) /\ Len(ss) <= MaxSessions
  /\ \A n \in DOMAIN sessions : n \in DOMAIN ss /\ Aged(sessions[n], ss[n])

LEMMA PutRow ==
  ASSUME NEW ss \in Seq(Session), NEW n \in DOMAIN ss, NEW s \in Session
  PROVE  LET z == [ss EXCEPT ![n] = s]
         IN  /\ z \in Seq(Session) /\ Len(z) = Len(ss) /\ DOMAIN z = DOMAIN ss
             /\ z[n] = s /\ \A m \in DOMAIN ss : m # n => z[m] = ss[m]
<1>1. n \in 1..Len(ss) /\ DOMAIN ss = 1..Len(ss)  OBVIOUS
<1> QED  BY <1>1, ExceptSeq

LEMMA AppendRow ==
  ASSUME NEW ss \in Seq(Session), NEW s \in Session
  PROVE  LET z == Append(ss, s)
         IN  /\ z \in Seq(Session) /\ Len(z) = Len(ss) + 1 /\ Len(z) \in DOMAIN z
             /\ z[Len(ss) + 1] = s /\ \A m \in DOMAIN ss : m \in DOMAIN z /\ z[m] = ss[m]
<1>1. DOMAIN ss = 1..Len(ss) /\ Len(ss) \in Nat  OBVIOUS
<1>2. DOMAIN Append(ss, s) = 1..(Len(ss) + 1)  OBVIOUS
<1> QED  BY <1>1, <1>2, AppendProperties

LEMMA SessionsTyped ==
  ASSUME TypeOK
  PROVE  /\ sessions \in Seq(Session) /\ DOMAIN sessions = 1..Len(sessions)
         /\ Len(sessions) \in Nat /\ Len(sessions) <= MaxSessions
         /\ Ages(sessions)
<1>1. sessions \in Seq(Session) /\ Len(sessions) <= MaxSessions  BY DEF TypeOK
<1>2. DOMAIN sessions = 1..Len(sessions) /\ Len(sessions) \in Nat  BY <1>1
<1>3. \A n \in DOMAIN sessions : Aged(sessions[n], sessions[n])  BY DEF Aged
<1> QED  BY <1>1, <1>2, <1>3 DEF Ages

(* One row has aged, the others are as they were.                          *)
LEMMA RowAges ==
  ASSUME TypeOK, NEW n, Row(n), NEW z \in Seq(Session), Len(z) = Len(sessions),
         \A m \in DOMAIN sessions : m # n => z[m] = sessions[m],
         Aged(sessions[n], z[n])
  PROVE  Ages(z)
<1>1. sessions \in Seq(Session) /\ Len(sessions) \in Nat /\ Len(sessions) <= MaxSessions
  BY SessionsTyped
<1>2. DOMAIN z = DOMAIN sessions  BY <1>1
<1>3. ASSUME NEW m \in DOMAIN sessions  PROVE Aged(sessions[m], z[m])
  <2>1. CASE m = n  BY <2>1
  <2>2. CASE m # n  BY <2>2 DEF Aged
  <2> QED  BY <2>1, <2>2
<1> QED  BY <1>1, <1>2, <1>3 DEF Ages

(* A session ends.                                                         *)
LEMMA RevokedAges ==
  ASSUME TypeOK, NEW n, Row(n)
  PROVE  /\ Ages([sessions EXCEPT ![n].over = "revoked"])
         /\ Ages([sessions EXCEPT ![n].over = IF @ = "no" THEN "revoked" ELSE @])
<1>1. sessions[n] \in Session  BY RowTyped
<1>2. sessions \in Seq(Session) /\ n \in DOMAIN sessions  BY SessionsTyped DEF Row
<1> DEFINE s == [sessions[n] EXCEPT !.over = "revoked"]
           z == [sessions EXCEPT ![n] = s]
<1>3. s \in Session /\ Aged(sessions[n], s)  BY <1>1 DEF Session, Aged
<1>4. /\ z \in Seq(Session) /\ Len(z) = Len(sessions) /\ DOMAIN z = DOMAIN sessions
      /\ z[n] = s /\ \A m \in DOMAIN sessions : m # n => z[m] = sessions[m]
  <2> HIDE DEF s
  <2> QED  BY <1>2, <1>3, PutRow
<1>5. Ages(z)  
  <2> HIDE DEF z, s
  <2> QED  BY <1>3, <1>4, RowAges
<1>6. [sessions EXCEPT ![n].over = "revoked"] = z  OBVIOUS
<1>7. CASE sessions[n].over = "no"
  <2>1. [sessions EXCEPT ![n].over = IF @ = "no" THEN "revoked" ELSE @] = z  BY <1>7
  <2> QED  BY <1>5, <1>6, <2>1
<1>8. CASE sessions[n].over # "no"
  <2>1. [sessions EXCEPT ![n].over = IF @ = "no" THEN "revoked" ELSE @] = sessions
    BY <1>1, <1>2, <1>8 DEF Session
  <2> QED  BY <1>5, <1>6, <2>1, SessionsTyped
<1> QED  BY <1>7, <1>8

(* The credential of an answer is lost: its row is marked.                 *)
LEMMA LostRow ==
  ASSUME NEW ss \in Seq(Session), NEW a \in Answer \cup {None},
         a # None /\ a.cookie # None => a.cookie.session \in DOMAIN ss
  PROVE  LET z == Dropping(ss, a)
             n == a.cookie.session
         IN  IF a # None /\ a.cookie # None
             THEN /\ z \in Seq(Session) /\ Len(z) = Len(ss)
                  /\ \A m \in DOMAIN ss : m # n => z[m] = ss[m]
                  /\ z[n].lost /\ z[n].over = ss[n].over
             ELSE z = ss
<1>1. CASE a # None /\ a.cookie # None
  <2> DEFINE n == a.cookie.session
             s == [ss[n] EXCEPT !.lost = TRUE]
  <2>1. ss[n] \in Session /\ n \in DOMAIN ss  BY <1>1
  <2>2. s \in Session /\ s.lost /\ s.over = ss[n].over  BY <2>1 DEF Session
  <2>3. Dropping(ss, a) = [ss EXCEPT ![n] = s]  BY <1>1 DEF Dropping
  <2> HIDE DEF s, n
  <2>4. LET z == [ss EXCEPT ![n] = s]
        IN  /\ z \in Seq(Session) /\ Len(z) = Len(ss)
            /\ z[n] = s /\ \A m \in DOMAIN ss : m # n => z[m] = ss[m]
    BY <2>1, <2>2, PutRow
  <2> QED  BY <1>1, <2>2, <2>3, <2>4 DEF n
<1>2. CASE ~(a # None /\ a.cookie # None)
  BY <1>2 DEF Dropping
<1> QED  BY <1>1, <1>2

LEMMA DroppedAges ==
  ASSUME TypeOK, NEW a \in Answer \cup {None},
         a # None /\ a.cookie # None => Row(a.cookie.session)
  PROVE  /\ Ages(Dropping(sessions, a))
         /\ a # None /\ a.cookie # None => Dropping(sessions, a)[a.cookie.session].lost
<1>1. sessions \in Seq(Session)  BY SessionsTyped
<1>2. CASE a # None /\ a.cookie # None
  <2> DEFINE n == a.cookie.session
             z == Dropping(sessions, a)
  <2>1. /\ z \in Seq(Session) /\ Len(z) = Len(sessions)
        /\ \A m \in DOMAIN sessions : m # n => z[m] = sessions[m]
        /\ z[n].lost /\ z[n].over = sessions[n].over
    BY <1>1, <1>2, LostRow DEF Row
  <2>2. Row(n)  BY <1>2
  <2> HIDE DEF z, n
  <2>3. Aged(sessions[n], z[n])  BY <2>1 DEF Aged
  <2>4. Ages(z)  BY <2>1, <2>2, <2>3, RowAges
  <2> QED  BY <2>1, <2>4 DEF z, n
<1>3. CASE ~(a # None /\ a.cookie # None)
  <2>1. Dropping(sessions, a) = sessions  BY <1>3 DEF Dropping
  <2> QED  BY <1>3, <2>1, SessionsTyped
<1> QED  BY <1>2, <1>3

-----------------------------------------------------------------------------
(* The endpoints of the three calls.                                       *)

(* A renewal either rotates the credential of a living session, or changes *)
(* nothing and says why.                                                   *)
LEMMA Renewing ==
  ASSUME TypeOK, NEW c \in Credential, Row(c.session)
  PROVE  LET n == c.session
             a == RenewAnswer(c)
             z == AfterRenew(c)
         IN  IF Renewable(c)
             THEN /\ sessions[n].over = "no" /\ sessions[n].turn = c.turn
                  /\ z \in Seq(Session) /\ Len(z) = Len(sessions)
                  /\ \A m \in DOMAIN sessions : m # n => z[m] = sessions[m]
                  /\ z[n].over = "no" /\ z[n].turn = c.turn + 1 
                  /\ z[n].lost = sessions[n].lost
                  /\ a \in Answer /\ a # None /\ a.kind = "ok"
                  /\ a.meta # None /\ a.cookie # None /\ a.cookie.session = n
                  /\ a.cookie.turn = z[n].turn /\ a.cookie.until = z[n].expires
             ELSE /\ z = sessions /\ a \in Answer /\ a # None /\ a.cookie = None
                  /\ a.kind \in {"early", "stale", "ended"}
                  /\ a.kind = "ended" => Worthless(c)
<1> DEFINE n == c.session
           s == Rotated(sessions[n])
           z == [sessions EXCEPT ![n] = s]
<1>0. c # None  BY NoneAssumption
<1>1. /\ sessions[n] \in Session /\ n \in DOMAIN sessions /\ sessions \in Seq(Session)
      /\ n \in 1..MaxSessions
  BY RowTyped, SessionsTyped DEF Row
<1>2. /\ s \in Session /\ s.turn = sessions[n].turn + 1 /\ s.over = sessions[n].over
      /\ s.lost = sessions[n].lost
  BY <1>1, RotatedTyped
<1>3. CASE Renewable(c)
  <2>1. sessions[n].over = "no" /\ sessions[n].turn = c.turn
    BY <1>3, StandingCases DEF Renewable
  <2>2. AfterRenew(c) = z  BY <1>3 DEF AfterRenew
  <2>3. RenewAnswer(c) = Installing(n, s)  BY <1>3 DEF RenewAnswer
  <2> HIDE DEF s, n
  <2>4. /\ z \in Seq(Session) /\ Len(z) = Len(sessions)
        /\ z[n] = s /\ \A m \in DOMAIN sessions : m # n => z[m] = sessions[m]
    BY <1>1, <1>2, PutRow
  <2>5. LET a == Installing(n, s)
        IN  /\ a \in Answer /\ a # None /\ a.kind = "ok"
            /\ a.meta # None /\ a.cookie # None
            /\ a.cookie.session = n /\ a.cookie.turn = s.turn
            /\ a.cookie.until = s.expires
    BY <1>1, <1>2, InstallingTyped
  <2> HIDE DEF z
  <2> QED  BY <1>2, <1>3, <2>1, <2>2, <2>3, <2>4, <2>5 DEF n
<1>4. CASE ~Renewable(c)
  <2> DEFINE k == IF Standing(c) = "live" THEN "early" ELSE Standing(c)
  <2>1. k \in {"early", "stale", "ended"} /\ (k = "ended" => Worthless(c))
    BY StandingCases
  <2>2. AfterRenew(c) = sessions /\ RenewAnswer(c) = Reply(k)
    BY <1>4 DEF AfterRenew, RenewAnswer
  <2> HIDE DEF k
  <2>3. Reply(k) \in Answer /\ Reply(k) # None /\ Reply(k).kind = k /\ Reply(k).cookie = None
    BY <2>1, ReplyTyped DEF Kinds
  <2> QED  BY <1>4, <2>1, <2>2, <2>3
<1> QED  BY <1>3, <1>4

(* A renewal whose answer is lost makes its row an older one.              *)
LEMMA LostRenewalAges ==
  ASSUME TypeOK, NEW c \in Credential, Row(c.session)
  PROVE  Ages(Dropping(AfterRenew(c), RenewAnswer(c)))
<1> DEFINE n == c.session
           a == RenewAnswer(c)
           y == AfterRenew(c)
           z == Dropping(y, a)
<1>0. sessions \in Seq(Session) /\ n \in DOMAIN sessions  BY SessionsTyped DEF Row
<1>1. CASE Renewable(c)
  <2>1. /\ sessions[n].over = "no"
        /\ y \in Seq(Session) /\ Len(y) = Len(sessions)
        /\ \A m \in DOMAIN sessions : m # n => y[m] = sessions[m]
        /\ y[n].over = "no"
        /\ a \in Answer /\ a # None /\ a.cookie # None /\ a.cookie.session = n
    BY <1>1, Renewing
  <2>2. DOMAIN y = DOMAIN sessions  BY <1>0, <2>1
  <2> HIDE DEF a, y, n
  <2>3. /\ z \in Seq(Session) /\ Len(z) = Len(y)
        /\ \A m \in DOMAIN y : m # n => z[m] = y[m]
        /\ z[n].lost /\ z[n].over = y[n].over
    BY <1>0, <2>1, <2>2, LostRow
  <2>4. Aged(sessions[n], z[n])  BY <2>1, <2>3 DEF Aged
  <2> HIDE DEF z
  <2>5. Ages(z)  BY <1>0, <2>1, <2>2, <2>3, <2>4, RowAges DEF Row
  <2> QED  BY <2>5 DEF z, y, a
<1>2. CASE ~Renewable(c)
  <2>1. y = sessions /\ a \in Answer /\ a # None /\ a.cookie = None
    BY <1>2, Renewing
  <2>2. z = sessions  BY <2>1 DEF Dropping
  <2> QED  BY <2>2, SessionsTyped
<1> QED  BY <1>1, <1>2

(* A sign-in issues a session of its own, or none.                         *)
LEMMA SigningIn ==
  ASSUME TypeOK, NEW c
  PROVE  LET n == Len(sessions) + 1
             a == LoginAnswer(c)
             z == AfterLogin(c)
         IN  /\ a \in Answer /\ a # None
             /\ IF a.cookie # None
                THEN /\ z \in Seq(Session) /\ Len(z) = n /\ n <= MaxSessions
                     /\ n \in DOMAIN z
                     /\ \A m \in DOMAIN sessions : m \in DOMAIN z /\ z[m] = sessions[m]
                     /\ z[n].over = "no" /\ a.kind = "ok" /\ a.cookie.session = n
                     /\ a.cookie.turn = z[n].turn /\ a.cookie.until = z[n].expires
                ELSE z = sessions /\ a.kind \in {"refused", "failed"}
<1> DEFINE n == Len(sessions) + 1
<1>0. sessions \in Seq(Session) /\ Len(sessions) \in Nat /\ Len(sessions) <= MaxSessions
  BY SessionsTyped
<1>1. CASE c # None \/ Len(sessions) = MaxSessions
  <2>1. AfterLogin(c) = sessions  BY <1>1 DEF AfterLogin
  <2>2. LoginAnswer(c) = Reply("refused") \/ LoginAnswer(c) = Reply("failed")
    BY <1>1 DEF LoginAnswer
  <2> QED  BY <2>1, <2>2, ReplyTyped DEF Kinds
<1>2. CASE ~(c # None \/ Len(sessions) = MaxSessions)
  <2>1. n \in 1..MaxSessions  BY <1>0, <1>2, BoundAssumption
  <2>2. Issued \in Session /\ Issued.over = "no"  BY IssuedTyped
  <2>3. AfterLogin(c) = Append(sessions, Issued) /\ LoginAnswer(c) = Installing(n, Issued)
    BY <1>2 DEF AfterLogin, LoginAnswer
  <2>4. LET z == Append(sessions, Issued)
        IN  /\ z \in Seq(Session) /\ Len(z) = n /\ Len(z) \in DOMAIN z /\ z[n] = Issued
            /\ \A m \in DOMAIN sessions : m \in DOMAIN z /\ z[m] = sessions[m]
    BY <1>0, <2>2, AppendRow
  <2>5. LET a == Installing(n, Issued)
        IN  /\ a \in Answer /\ a # None /\ a.kind = "ok" /\ a.cookie # None
            /\ a.cookie.session = n /\ a.cookie.turn = Issued.turn
            /\ a.cookie.until = Issued.expires
    BY <2>1, <2>2, InstallingTyped
  <2> HIDE DEF n
  <2> QED  BY <2>1, <2>2, <2>3, <2>4, <2>5 DEF n
<1> QED  BY <1>1, <1>2

(* A sign-in whose answer is lost leaves a session nobody uses.            *)
LEMMA LostSignInAges ==
  ASSUME TypeOK, NEW c
  PROVE  Ages(Dropping(AfterLogin(c), LoginAnswer(c)))
<1> DEFINE n == Len(sessions) + 1
           a == LoginAnswer(c)
           y == AfterLogin(c)
           z == Dropping(y, a)
<1>0. /\ sessions \in Seq(Session) /\ Len(sessions) \in Nat /\ Len(sessions) <= MaxSessions
      /\ DOMAIN sessions = 1..Len(sessions)
  BY SessionsTyped
<1>a. a \in Answer /\ a # None  BY SigningIn
<1>1. CASE a.cookie # None
  <2>1. /\ y \in Seq(Session) /\ Len(y) = n /\ n <= MaxSessions /\ n \in DOMAIN y
        /\ \A m \in DOMAIN sessions : m \in DOMAIN y /\ y[m] = sessions[m]
        /\ a.cookie.session = n
    BY <1>1, SigningIn
  <2> HIDE DEF a, y
  <2>2. /\ z \in Seq(Session) /\ Len(z) = Len(y)
        /\ \A m \in DOMAIN y : m # n => z[m] = y[m]
    BY <1>1, <1>a, <2>1, LostRow
  <2> HIDE DEF z
  <2>3. DOMAIN z = DOMAIN y  BY <2>1, <2>2
  <2>4. \A m \in DOMAIN sessions : m \in DOMAIN z /\ Aged(sessions[m], z[m])
    <3> TAKE m \in DOMAIN sessions
    <3>1. m # n  BY <1>0
    <3>2. z[m] = sessions[m]  BY <2>1, <2>2, <3>1
    <3> QED  BY <2>1, <2>3, <3>2 DEF Aged
  <2>5. Ages(z)  BY <1>0, <2>1, <2>2, <2>4 DEF Ages
  <2> QED  BY <2>5 DEF z, y, a
<1>2. CASE a.cookie = None
  <2>1. y = sessions  BY <1>2, SigningIn
  <2>2. z = sessions  BY <1>2, <2>1 DEF Dropping
  <2> QED  BY <2>2, SessionsTyped
<1> QED  BY <1>1, <1>2

-----------------------------------------------------------------------------
(* The queue for the lock.                                                 *)

LEMMA Queueing ==
  ASSUME TypeOK, Queued, NEW w \in Waiter, queue' = Append(queue, w), Len(queue) < MaxQueue,
         w.what = "renew" => w.meta # None
  PROVE  /\ queue' \in Seq(Waiter) /\ Len(queue') <= MaxQueue
         /\ Queued'
         /\ \A W : \A u \in Tabs : Waits(u, W) \/ (w.tab = u /\ w.what \in W) => Waits(u, W)'
<1>1. queue \in Seq(Waiter) /\ Len(queue) \in Nat /\ DOMAIN queue = 1..Len(queue)
  BY DEF TypeOK
<1>2. /\ queue' \in Seq(Waiter) /\ Len(queue') = Len(queue) + 1
      /\ \A i \in DOMAIN queue : queue'[i] = queue[i]
      /\ queue'[Len(queue) + 1] = w
  BY <1>1, AppendProperties
<1>3. DOMAIN queue' = 1..(Len(queue) + 1)  BY <1>2
<1>4. Queued'
  <2> SUFFICES ASSUME NEW i \in DOMAIN queue', queue'[i].what = "renew"
               PROVE  queue'[i].meta # None
    BY DEF Queued
  <2>1. i \in DOMAIN queue \/ i = Len(queue) + 1  BY <1>1, <1>3
  <2> QED  BY <1>2, <2>1 DEF Queued
<1>5. ASSUME NEW u \in Tabs, NEW W, Waits(u, W) \/ (w.tab = u /\ w.what \in W)
      PROVE  Waits(u, W)'
  <2>1. CASE Waits(u, W)
    <3>1. PICK i \in DOMAIN queue : queue[i].tab = u /\ queue[i].what \in W
      BY <2>1 DEF Waits
    <3>2. i \in DOMAIN queue'  BY <1>1, <1>3
    <3> QED  BY <1>2, <3>1, <3>2 DEF Waits
  <2>2. CASE w.tab = u /\ w.what \in W
    <3>1. Len(queue) + 1 \in DOMAIN queue'  BY <1>1, <1>3
    <3> QED  BY <1>2, <2>2, <3>1 DEF Waits
  <2> QED  BY <1>5, <2>1, <2>2
<1> QED  BY <1>1, <1>2, <1>4, <1>5, BoundAssumption

(* The first waiter enters: whoever else waits still does.                 *)
LEMMA Unqueueing ==
  ASSUME TypeOK, Queued, queue # <<>>, queue' = Tail(queue)
  PROVE  /\ queue' \in Seq(Waiter) /\ Len(queue') <= MaxQueue
         /\ Head(queue) \in Waiter /\ (Head(queue).what = "renew" => Head(queue).meta # None)
         /\ Queued'
         /\ \A W : \A u \in Tabs :
              (Head(queue).tab # u \/ Head(queue).what \notin W) =>
                (Waits(u, W) <=> Waits(u, W)')
<1>1. /\ queue \in Seq(Waiter) /\ Len(queue) \in Nat /\ DOMAIN queue = 1..Len(queue)
      /\ Len(queue) <= MaxQueue
  BY DEF TypeOK
<1>2. /\ Head(queue) \in Waiter /\ Head(queue) = queue[1] /\ 1 \in DOMAIN queue
      /\ queue' \in Seq(Waiter) /\ Len(queue') = Len(queue) - 1
      /\ \A i \in 1..Len(queue') : queue'[i] = queue[i + 1]
  BY <1>1, HeadTailProperties
<1>3. DOMAIN queue' = 1..(Len(queue) - 1)  BY <1>2
<1>4. Queued'
  BY <1>1, <1>2, <1>3 DEF Queued
<1>5. ASSUME NEW u \in Tabs, NEW W, Head(queue).tab # u \/ Head(queue).what \notin W
      PROVE  Waits(u, W) <=> Waits(u, W)'
  <2>1. ASSUME NEW i \in DOMAIN queue, queue[i].tab = u, queue[i].what \in W
        PROVE  Waits(u, W)'
    <3>1. i # 1  BY <1>2, <1>5, <2>1
    <3>2. i - 1 \in DOMAIN queue' /\ queue'[i - 1] = queue[i]  BY <1>1, <1>2, <1>3, <3>1
    <3> QED  BY <2>1, <3>2 DEF Waits
  <2>2. ASSUME NEW i \in DOMAIN queue', queue'[i].tab = u, queue'[i].what \in W
        PROVE  Waits(u, W)
    <3>1. i + 1 \in DOMAIN queue /\ queue'[i] = queue[i + 1]  BY <1>1, <1>2, <1>3
    <3> QED  BY <2>2, <3>1 DEF Waits
  <2> QED  BY <2>1, <2>2 DEF Waits
<1>6. Len(queue') <= MaxQueue  BY <1>1, <1>2, BoundAssumption
<1> QED  BY <1>2, <1>4, <1>5, <1>6 DEF Queued

(* Each of the others has a place of its own, and no place is empty.       *)
LEMMA Places ==
  ASSUME TypeOK, NEW t \in Tabs
  PROVE  /\ Cardinality(Others(t)) \in 0..Len(queue)
         /\ \A i \in Others(t) : Place(i, t) \in 1..Cardinality(Others(t))
         /\ \A i, k \in Others(t) : Place(i, t) = Place(k, t) => i = k
         /\ \A n \in 1..Cardinality(Others(t)) : \E i \in Others(t) : Place(i, t) = n
<1> DEFINE S == Others(t)
           Upto(i) == {j \in S : j <= i}
           f == [i \in S |-> Place(i, t)]
<1>1. queue \in Seq(Waiter) /\ Len(queue) \in Nat /\ DOMAIN queue = 1..Len(queue)
  BY DEF TypeOK
<1>2. S \in SUBSET (1..Len(queue))  BY <1>1 DEF Others
<1>3. /\ IsFiniteSet(1..Len(queue)) /\ Cardinality(1..Len(queue)) = Len(queue)
  BY <1>1, FS_Interval
<1>4. IsFiniteSet(S) /\ Cardinality(S) \in Nat /\ Cardinality(S) <= Len(queue)
  BY <1>2, <1>3, FS_Subset, FS_CardinalityType
<1>5. ASSUME NEW i \in S
      PROVE  /\ IsFiniteSet(Upto(i)) /\ Cardinality(Upto(i)) \in 1..Cardinality(S)
             /\ Place(i, t) = Cardinality(Upto(i))
  <2>1. Upto(i) \in SUBSET S  OBVIOUS
  <2>2. i \in Upto(i)  BY <1>2
  <2>3. IsFiniteSet(Upto(i)) /\ Cardinality(Upto(i)) <= Cardinality(S)
    BY <1>4, <2>1, FS_Subset
  <2>4. Cardinality(Upto(i)) \in Nat  BY <2>3, FS_CardinalityType
  <2>5. Cardinality(Upto(i)) # 0
    <3> HIDE DEF Upto
    <3> QED  BY <2>2, <2>3, FS_EmptySet
  <2>6. Place(i, t) = Cardinality(Upto(i))  BY DEF Place
  <2> HIDE DEF Upto, S
  <2> QED  BY <1>4, <2>3, <2>4, <2>5, <2>6
<1>6. ASSUME NEW i \in S, NEW k \in S, Place(i, t) = Place(k, t), i <= k
      PROVE  i = k
  <2>1. Upto(i) \in SUBSET Upto(k)  BY <1>2, <1>6
  <2>2. Cardinality(Upto(i)) = Cardinality(Upto(k)) /\ IsFiniteSet(Upto(k))
    BY <1>5, <1>6
  <2>3. Upto(k) = Upto(i)
    <3> HIDE DEF Upto
    <3> QED  BY <2>1, <2>2, FS_Subset
  <2>4. k \in Upto(k)  BY <1>2
  <2>5. k <= i  BY <2>3, <2>4
  <2> QED  BY <1>2, <1>6, <2>5
<1>7. \A i, k \in S : Place(i, t) = Place(k, t) => i = k
  <2> TAKE i \in S, k \in S
  <2>1. i <= k \/ k <= i  BY <1>2
  <2> QED  BY <1>6, <2>1
<1>8. \A i \in S : Place(i, t) \in 1..Cardinality(S)  BY <1>5
<1>9. f \in Injection(S, 1..Cardinality(S))
  <2> HIDE DEF S
  <2>1. f \in [S -> 1..Cardinality(S)]  BY <1>8
  <2> QED  BY <1>7, <2>1 DEF Injection, IsInjective
<1>10. IsFiniteSet(1..Cardinality(S)) /\ Cardinality(1..Cardinality(S)) = Cardinality(S)
  <2> HIDE DEF S
  <2> QED  BY <1>4, FS_Interval
<1>11. f \in Surjection(S, 1..Cardinality(S))
  <2> HIDE DEF S, f
  <2> QED  BY <1>9, <1>10, FS_Injection
<1>12. \A n \in 1..Cardinality(S) : \E i \in S : f[i] = n
  <2> HIDE DEF S, f
  <2> QED  BY <1>11 DEF Surjection
<1> QED  BY <1>4, <1>7, <1>8, <1>12

(* A page that goes away leaves the other waiters as they were.            *)
LEMMA Leaving ==
  ASSUME TypeOK, Queued, NEW t \in Tabs, queue' = Remaining(t)
  PROVE  /\ queue' \in Seq(Waiter) /\ Len(queue') <= MaxQueue
         /\ Queued'
         /\ \A W : \A u \in Tabs : u # t => (Waits(u, W) <=> Waits(u, W)')
<1> DEFINE N == Cardinality(Others(t))
           At(n) == CHOOSE i \in Others(t) : Place(i, t) = n
<1>1. /\ queue \in Seq(Waiter) /\ Len(queue) \in Nat /\ DOMAIN queue = 1..Len(queue)
      /\ Len(queue) <= MaxQueue
  BY DEF TypeOK
<1>2. N \in Nat /\ N <= Len(queue)  BY <1>1, Places
<1>3. ASSUME NEW n \in 1..N
      PROVE  At(n) \in Others(t) /\ Place(At(n), t) = n /\ queue'[n] = queue[At(n)]
  <2>1. \E i \in Others(t) : Place(i, t) = n  BY Places
  <2>2. At(n) \in Others(t) /\ Place(At(n), t) = n  BY <2>1
  <2> QED  BY <2>2 DEF Remaining
<1>4. \A i \in Others(t) : i \in DOMAIN queue /\ queue[i] \in Waiter /\ queue[i].tab # t
  BY <1>1 DEF Others
<1> HIDE DEF At
<1>5. queue' = [n \in 1..N |-> queue[At(n)]]  BY DEF Remaining, At
<1> HIDE DEF N
<1>6. queue' \in Seq(Waiter) /\ Len(queue') = N /\ DOMAIN queue' = 1..N
  <2>1. \A n \in 1..N : queue[At(n)] \in Waiter  BY <1>3, <1>4
  <2>2. queue' \in [1..N -> Waiter]  BY <1>5, <2>1
  <2> QED  BY <1>2, <2>2
<1>7. Queued'
  BY <1>3, <1>4, <1>6 DEF Queued
<1>8. ASSUME NEW u \in Tabs, NEW W, u # t  PROVE Waits(u, W) <=> Waits(u, W)'
  <2>1. ASSUME NEW i \in DOMAIN queue, queue[i].tab = u, queue[i].what \in W
        PROVE  Waits(u, W)'
    <3>1. i \in Others(t)  BY <1>8, <2>1 DEF Others
    <3>2. Place(i, t) \in 1..N  BY <3>1, Places DEF N
    <3>3. At(Place(i, t)) = i  BY <1>3, <3>1, <3>2, Places
    <3>4. queue'[Place(i, t)] = queue[i]  BY <1>3, <3>2, <3>3
    <3> QED  BY <1>6, <2>1, <3>2, <3>4 DEF Waits
  <2>2. ASSUME NEW n \in DOMAIN queue', queue'[n].tab = u, queue'[n].what \in W
        PROVE  Waits(u, W)
    <3>1. At(n) \in DOMAIN queue /\ queue'[n] = queue[At(n)]  BY <1>3, <1>4, <1>6
    <3> QED  BY <2>2, <3>1 DEF Waits
  <2> QED  BY <2>1, <2>2 DEF Waits
<1>9. Len(queue') <= MaxQueue  BY <1>1, <1>2, <1>6, BoundAssumption
<1> QED  BY <1>6, <1>7, <1>8, <1>9

-----------------------------------------------------------------------------
(* What stays while rows age and time passes.                              *)

Passes == clock \in Nat /\ clock' \in Nat /\ clock <= clock' /\ Ages(sessions')

LEMMA RowStays ==
  ASSUME TypeOK, Passes, NEW c, Row(c.session)
  PROVE  /\ Row(c.session)'
         /\ Current(c) => Current(c)'
         /\ Worthless(c) => Worthless(c)'
         /\ sessions[c.session].over # "left" => sessions'[c.session].over # "left"
<1>1. c.session \in DOMAIN sessions' /\ Aged(sessions[c.session], sessions'[c.session])
  BY DEF Passes, Ages, Row
<1>2. sessions[c.session].expires \in Nat  BY RowTyped DEF Session
<1>3. Worthless(c) => Worthless(c)'
  BY <1>1, <1>2 DEF Passes, Aged, Worthless
<1> QED  BY <1>1, <1>3 DEF Row, Aged, Current

LEMMA RowsStay ==
  ASSUME TypeOK, Passes
  PROVE  \A n : Row(n) => Row(n)'
BY DEF Passes, Ages, Row

(* A page inside the lock that makes no step, while the jar stays.         *)
LEMMA CallStays ==
  ASSUME TypeOK, Listed, Passes, jar' = jar, NEW t \in Tabs, run'[t] = run[t], Call(t)
  PROVE  Call(t)'
<1>1. run[t] \in Run  BY DEF TypeOK
<1>2. Asking(t)'  BY DEF Call, Asking, Holds
<1>3. Answering(t)'
  <2>1. ASSUME Answering(t), run[t].step = "answered", run[t].answer.kind = "ended"
        PROVE  Worthless(run[t].cookie)'
    <3>1. run[t].what = "renew" /\ Worthless(run[t].cookie)  BY <2>1 DEF Answering
    <3>2. run[t].cookie # None  BY <2>1, <3>1 DEF Call, Asking
    <3>3. Row(run[t].cookie.session)  BY <3>2 DEF Listed
    <3> QED  BY <3>1, <3>3, RowStays
  <2>2. Answering(t)  BY DEF Call
  <2> QED  BY <2>1, <2>2 DEF Answering
<1>4. Carrying(t)'
  <2> SUFFICES ASSUME Carried(t)  PROVE Carrying(t)'
    BY DEF Carrying, Carried
  <2> PICK c : c = run[t].answer.cookie  OBVIOUS
  <2>1. Answering(t) /\ Carrying(t)  BY DEF Call
  <2>2. run[t].answer # None  BY <2>1 DEF Answering, Carried
  <2>3. Row(c.session)  BY <2>2 DEF Listed, Carried
  <2>4. Current(c) /\ sessions[c.session].over # "left"  BY <2>1 DEF Carrying
  <2>5. Current(c)' /\ sessions'[c.session].over # "left"  BY <2>3, <2>4, RowStays
  <2> QED  BY <2>1, <2>5 DEF Carrying, Carried
<1>5. Checking(t)'
  <2>1. jar # None => jar.until \in Nat  BY DEF TypeOK, Cookie
  <2>2. Checking(t)  BY DEF Call
  <2> QED  BY <2>1, <2>2 DEF Checking, Holds, Passes
<1> QED  BY <1>2, <1>3, <1>4, <1>5 DEF Call

(* The jar stays, and no credential on its way to it goes missing unnoticed.*)
LEMMA JarStays ==
  ASSUME TypeOK, Listed, JarStands, Passes, jar' = jar,
         \A t \in Tabs : Carried(t) /\ run[t].answer.cookie.session = jar.session =>
           run'[t] = run[t] \/ sessions'[jar.session].lost
  PROVE  JarStands'
<1> SUFFICES ASSUME jar # None
             PROVE  sessions'[jar.session].over # "left" /\ (Current(jar)' \/ InFlight(jar.session)')
  BY DEF JarStands
<1>1. Row(jar.session)  BY DEF Listed
<1>2. sessions[jar.session].over # "left" /\ (Current(jar) \/ InFlight(jar.session))
  BY DEF JarStands
<1>3. sessions'[jar.session].over # "left" /\ (Current(jar) => Current(jar)')
  BY <1>1, <1>2, RowStays
<1>4. ASSUME InFlight(jar.session)  PROVE Current(jar)' \/ InFlight(jar.session)'
  <2>1. PICK t \in Tabs : Carried(t) /\ run[t].answer.cookie.session = jar.session
    BY <1>4 DEF InFlight
  <2>2. CASE run'[t] = run[t]  BY <2>1, <2>2 DEF InFlight, Carried
  <2>3. CASE sessions'[jar.session].lost  BY <2>3 DEF Current
  <2> QED  BY <2>1, <2>2, <2>3
<1> QED  BY <1>2, <1>3, <1>4

(* Nobody moves inside the lock.                                           *)
LEMMA LockStays ==
  ASSUME TypeOK, Listed, Locked, Passes, UNCHANGED <<jar, run>>
  PROVE  Locked'
<1>1. Alone'  BY DEF Locked, Alone
<1>2. JarStands'  BY JarStays DEF Locked
<1>3. ASSUME NEW t \in Tabs  PROVE Call(t)'
  BY CallStays DEF Locked
<1> QED  BY <1>1, <1>2, <1>3 DEF Locked

(* Only page t moves inside the lock: the others are outside.              *)
LEMMA OnlyOne ==
  ASSUME TypeOK, Locked, NEW t \in Tabs, NEW r \in Run, run' = [run EXCEPT ![t] = r],
         LockFree \/ run[t].step # "none"
  PROVE  /\ run' \in [Tabs -> Run] /\ run'[t] = r /\ Alone'
         /\ \A u \in Tabs : u # t =>
              run'[u] = run[u] /\ run[u].step = "none" /\ ~Carried(u) /\ ~Carried(u)' /\ Call(u)'
<1>1. run \in [Tabs -> Run]  BY DEF TypeOK
<1>2. run' \in [Tabs -> Run] /\ run'[t] = r /\ \A u \in Tabs : u # t => run'[u] = run[u]
  BY <1>1
<1>3. \A u \in Tabs : u # t => run[u].step = "none"
  BY DEF LockFree, Locked, Alone
<1>4. Alone'  BY <1>2, <1>3 DEF Alone
<1>5. ASSUME NEW u \in Tabs, u # t  PROVE ~Carried(u) /\ ~Carried(u)' /\ Call(u)'
  <2>1. run'[u] = run[u] /\ run[u].step = "none"  BY <1>2, <1>3, <1>5
  <2>2. run[u].answer = None  BY <2>1 DEF Locked, Call, Answering
  <2> QED  BY <2>1, <2>2 DEF Carried, Call, Asking, Answering, Carrying, Checking
<1> QED  BY <1>2, <1>3, <1>4, <1>5

(* What a page waits for stays in sight.                                   *)
Watched(t) ==
  Vouches(tab[t]) /\ Active(t) =>
    \/ tab[t].timer # None \/ seen[t].step # "none"
    \/ Waits(t, {"renew"}) \/ Inside(t, {"renew"})

LEMMA WatchStays ==
  ASSUME NEW u \in Tabs, Watched(u), tab'[u] = tab[u],
         seen'[u] = seen[u] \/ seen'[u].step # "none",
         run'[u] = run[u] \/ (run'[u].what = run[u].what /\ run'[u].step # "none" /\ run[u].step # "none"),
         \A W \in {Forms, {"renew"}} : Waits(u, W) => Waits(u, W)'
  PROVE  Watched(u)'
<1>1. Waits(u, Forms) => Waits(u, Forms)'  OBVIOUS
<1>2. Waits(u, {"renew"}) => Waits(u, {"renew"})'  OBVIOUS
<1>3. \A W : Inside(u, W)' <=> Inside(u, W)  BY DEF Inside
<1>4. Active(u)' => Active(u)  BY <1>1, <1>3 DEF Active
<1> QED  BY <1>2, <1>3, <1>4 DEF Watched

LEMMA WatchedAll ==
  /\ AlwaysWatched => \A t \in Tabs : Watched(t)
  /\ (\A t \in Tabs : Watched(t))' => AlwaysWatched'
BY DEF AlwaysWatched, Watched

(* The same queue keeps whoever waits.                                     *)
LEMMA SameQueue ==
  ASSUME queue' = queue
  PROVE  /\ \A u, W : Waits(u, W)' <=> Waits(u, W)
         /\ Queued => Queued'
BY DEF Waits, Queued

-----------------------------------------------------------------------------
(* Each action keeps the invariant: first those outside the lock.          *)

LEMMA ObservingTyped ==
  ASSUME TypeOK, Listed
  PROVE  LET o == Observing(jar)
         IN  /\ o \in Observation /\ o.step = "sent"
             /\ o.cookie # None => Row(o.cookie.session)
<1>1. jar \in Cookie \cup {None}  BY DEF TypeOK
<1>2. /\ Sent(jar) \in Credential \cup {None}
      /\ Sent(jar) # None => jar # None /\ Sent(jar).session = jar.session
  BY <1>1, SentTyped
<1> QED  BY <1>2 DEF Observing, Observation, Listed

LEMMA PageKeeps ==
  ASSUME Inv, UNCHANGED <<clock, sessions, jar, run, stray>>, NEW t \in Tabs,
         tab' \in [Tabs -> Page],
         NEW o \in {seen[t], Nothing, Observing(jar)}, seen' = [seen EXCEPT ![t] = o],
         queue' \in Seq(Waiter) /\ Len(queue') <= MaxQueue, Queued',
         \A u \in Tabs : Watched(u)'
  PROVE  Inv'
<1>1. TypeOK /\ Listed /\ Locked  BY DEF Inv
<1>2. o \in Observation /\ (o.cookie # None => Row(o.cookie.session))
  <2>1. CASE o = seen[t]  BY <1>1, <2>1 DEF TypeOK, Listed
  <2>2. CASE o = Nothing  BY <2>2, OutsideTyped DEF Nothing
  <2>3. CASE o = Observing(jar)  BY <1>1, <2>3, ObservingTyped
  <2> QED  BY <2>1, <2>2, <2>3
<1>3. TypeOK'  BY <1>1, <1>2 DEF TypeOK
<1>4. Listed'  BY <1>1, <1>2 DEF Listed, Row, TypeOK
<1>5. Passes
  <2>1. clock \in Nat  BY <1>1, BoundAssumption DEF TypeOK
  <2> QED  BY <1>1, <2>1, SessionsTyped DEF Passes
<1>6. Locked'  BY <1>1, <1>5, LockStays
<1> QED  BY <1>3, <1>4, <1>6, WatchedAll DEF Inv

LEMMA InvFacts ==
  ASSUME Inv
  PROVE  /\ TypeOK /\ Listed /\ Queued /\ Locked /\ Alone /\ JarStands
         /\ \A t \in Tabs : Watched(t) /\ Call(t)
         /\ tab \in [Tabs -> Page] /\ seen \in [Tabs -> Observation] /\ run \in [Tabs -> Run]
         /\ queue \in Seq(Waiter) /\ Len(queue) <= MaxQueue
         /\ jar \in Cookie \cup {None} /\ clock \in Nat
<1>1. TypeOK  BY DEF Inv
<1>2. clock \in Nat  BY <1>1, BoundAssumption DEF TypeOK
<1> QED  BY <1>1, <1>2, WatchedAll DEF Inv, Locked, TypeOK

LEMMA OpenKeeps == ASSUME Inv, NEW t \in Tabs, Open(t)  PROVE Inv'
<1> USE InvFacts
<1> DEFINE r == [Closed EXCEPT !.page = "visible"]
<1>1. r \in Page /\ ~Vouches(r)  BY DEF Closed, Page, Vouches
<1>2. tab' = [tab EXCEPT ![t] = r] /\ seen' = [seen EXCEPT ![t] = Observing(jar)]
  BY DEF Open
<1>3. UNCHANGED <<clock, sessions, jar, queue, run, stray>>  BY DEF Open
<1> HIDE DEF r
<1>4. tab' \in [Tabs -> Page]  BY <1>1, <1>2
<1>5. ASSUME NEW u \in Tabs  PROVE Watched(u)'
  <2>1. CASE u = t  BY <1>1, <1>2, <2>1 DEF Watched
  <2>2. CASE u # t
    <3>1. tab'[u] = tab[u] /\ seen'[u] = seen[u] /\ run'[u] = run[u]
      BY <1>2, <1>3, <2>2
    <3> QED  BY <1>3, <3>1, SameQueue, WatchStays
  <2> QED  BY <2>1, <2>2
<1> QED  BY <1>2, <1>3, <1>4, <1>5, PageKeeps, SameQueue

LEMMA HideKeeps == ASSUME Inv, NEW t \in Tabs, Hide(t)  PROVE Inv'
<1> USE InvFacts
<1> DEFINE r == [tab[t] EXCEPT !.page = "hidden", !.timer = None]
<1>1. r \in Page /\ ~Vouches(r)  BY DEF Page, Vouches
<1>2. tab' = [tab EXCEPT ![t] = r]  BY DEF Hide
<1>3. UNCHANGED <<clock, sessions, jar, queue, seen, run, stray>>  BY DEF Hide
<1> HIDE DEF r
<1>4. tab' \in [Tabs -> Page]  BY <1>1, <1>2
<1>5. ASSUME NEW u \in Tabs  PROVE Watched(u)'
  <2>1. CASE u = t  BY <1>1, <1>2, <2>1 DEF Watched
  <2>2. CASE u # t
    <3>1. tab'[u] = tab[u] /\ seen'[u] = seen[u] /\ run'[u] = run[u]
      BY <1>2, <1>3, <2>2
    <3> QED  BY <1>3, <3>1, SameQueue, WatchStays
  <2> QED  BY <2>1, <2>2
<1>6. seen' = [seen EXCEPT ![t] = seen[t]]  BY <1>3
<1> QED  BY <1>3, <1>4, <1>5, <1>6, PageKeeps, SameQueue

LEMMA ShowKeeps == ASSUME Inv, NEW t \in Tabs, Show(t)  PROVE Inv'
<1> USE InvFacts
<1> DEFINE r == [tab[t] EXCEPT !.page = "visible"]
<1>1. r \in Page /\ r.page = "visible" /\ tab[t].page = "hidden"  BY DEF Page, Show
<1>2. tab' = [tab EXCEPT ![t] = r]  BY DEF Show
<1>3. UNCHANGED <<clock, sessions, jar, queue, run, stray>>  BY DEF Show
<1> HIDE DEF r
<1>4. tab' \in [Tabs -> Page]  BY <1>1, <1>2
<1>5. Active(t)' <=> Active(t)
  BY <1>1, <1>2, <1>3, SameQueue DEF Active, Inside
<1>6. PICK o \in {seen[t], Observing(jar)} :
        /\ seen' = [seen EXCEPT ![t] = o]
        /\ Active(t) => o.step # "none"
  <2>1. CASE Active(t) /\ seen[t].step = "none"
    <3>1. seen' = [seen EXCEPT ![t] = Observing(jar)]  BY <2>1 DEF Show
    <3>2. Observing(jar).step # "none"  BY ObservingTyped
    <3> QED  BY <3>1, <3>2
  <2>2. CASE ~(Active(t) /\ seen[t].step = "none")
    <3>1. seen' = seen  BY <2>2 DEF Show
    <3>2. seen' = [seen EXCEPT ![t] = seen[t]]  BY <3>1
    <3> QED  BY <2>2, <3>2
  <2> QED  BY <2>1, <2>2
<1>7. ASSUME NEW u \in Tabs  PROVE Watched(u)'
  <2>1. CASE u = t
    <3>1. seen'[t] = o  BY <1>6
    <3> QED  BY <1>5, <1>6, <2>1, <3>1 DEF Watched
  <2>2. CASE u # t
    <3>1. tab'[u] = tab[u] /\ seen'[u] = seen[u] /\ run'[u] = run[u]
      BY <1>2, <1>3, <1>6, <2>2
    <3> QED  BY <1>3, <3>1, SameQueue, WatchStays
  <2> QED  BY <2>1, <2>2
<1> QED  BY <1>3, <1>4, <1>6, <1>7, PageKeeps, SameQueue

LEMMA ObserveKeeps == ASSUME Inv, NEW t \in Tabs, Observe(t)  PROVE Inv'
<1> USE InvFacts
<1>1. PICK a \in StateAnswers(seen[t].cookie) : tab' = [tab EXCEPT ![t] = Learned(tab[t], a)]
  BY DEF Observe
<1>2. UNCHANGED <<clock, sessions, jar, queue, run, stray>> /\ seen' = [seen EXCEPT ![t] = Nothing]
  BY DEF Observe
<1>3. seen[t].cookie # None => Row(seen[t].cookie.session)  BY DEF Listed
<1>4. a \in Answer /\ a.kind \in {"ok", "ended", "failed"} /\ (a.kind = "ok" => a.meta # None)
  BY <1>3, StateAnswersTyped
<1> DEFINE r == Learned(tab[t], a)
<1>5. r \in Page /\ Watchful(r)  BY <1>4, LearnedTyped
<1> HIDE DEF r
<1>6. tab' = [tab EXCEPT ![t] = r] /\ tab' \in [Tabs -> Page]  BY <1>1, <1>5 DEF r
<1>7. ASSUME NEW u \in Tabs  PROVE Watched(u)'
  <2>1. CASE u = t  BY <1>5, <1>6, <2>1 DEF Watched, Watchful
  <2>2. CASE u # t
    <3>1. tab'[u] = tab[u] /\ seen'[u] = seen[u] /\ run'[u] = run[u]
      BY <1>2, <1>6, <2>2
    <3> QED  BY <1>2, <3>1, SameQueue, WatchStays
  <2> QED  BY <2>1, <2>2
<1> QED  BY <1>2, <1>6, <1>7, PageKeeps, SameQueue

LEMMA FireKeeps == ASSUME Inv, NEW t \in Tabs, Fire(t)  PROVE Inv'
<1> USE InvFacts
<1> DEFINE w == [tab |-> t, what |-> "renew", meta |-> tab[t].timer]
           r == [tab[t] EXCEPT !.timer = None]
<1>1. tab[t].timer \in Meta \cup {None} /\ tab[t].timer # None  BY DEF Fire, Page
<1>2. w \in Waiter /\ w.what = "renew" /\ w.meta # None /\ w.tab = t
  BY <1>1 DEF Waiter, Calls
<1>3. r \in Page /\ tab' = [tab EXCEPT ![t] = r]  BY DEF Page, Fire
<1>4. queue' = Append(queue, w) /\ Len(queue) < MaxQueue  BY DEF Fire
<1>5. UNCHANGED <<clock, sessions, jar, seen, run, stray>>  BY DEF Fire
<1> HIDE DEF w, r
<1>6. /\ queue' \in Seq(Waiter) /\ Len(queue') <= MaxQueue /\ Queued'
      /\ \A W : \A u \in Tabs : Waits(u, W) \/ (t = u /\ "renew" \in W) => Waits(u, W)'
  BY <1>2, <1>4, Queueing
<1>7. ASSUME NEW u \in Tabs  PROVE Watched(u)'
  <2>1. CASE u = t
    <3>1. Waits(t, {"renew"})'  BY <1>6
    <3> QED  BY <2>1, <3>1 DEF Watched
  <2>2. CASE u # t
    <3>1. tab'[u] = tab[u] /\ seen'[u] = seen[u] /\ run'[u] = run[u]
      BY <1>3, <1>5, <2>2
    <3> QED  BY <1>6, <3>1, WatchStays
  <2> QED  BY <2>1, <2>2
<1>8. tab' \in [Tabs -> Page] /\ seen' = [seen EXCEPT ![t] = seen[t]]  BY <1>3, <1>5
<1> QED  BY <1>5, <1>6, <1>7, <1>8, PageKeeps

LEMMA SubmitKeeps == ASSUME Inv, NEW t \in Tabs, Submit(t)  PROVE Inv'
<1> USE InvFacts
<1>1. PICK what \in Forms : queue' = Append(queue, [tab |-> t, what |-> what, meta |-> None])
  BY DEF Submit
<1> DEFINE w == [tab |-> t, what |-> what, meta |-> None]
           r == [tab[t] EXCEPT !.timer = None]
<1>2. w \in Waiter /\ w.what # "renew" /\ w.what \in Forms /\ w.tab = t
  BY DEF Waiter, Calls, Forms
<1>3. r \in Page /\ tab' = [tab EXCEPT ![t] = r]  BY DEF Page, Submit
<1>4. queue' = Append(queue, w) /\ Len(queue) < MaxQueue  BY <1>1 DEF Submit
<1>5. UNCHANGED <<clock, sessions, jar, run, stray>> /\ seen' = [seen EXCEPT ![t] = Nothing]
  BY DEF Submit
<1> HIDE DEF w, r
<1>6. /\ queue' \in Seq(Waiter) /\ Len(queue') <= MaxQueue /\ Queued'
      /\ \A W : \A u \in Tabs : Waits(u, W) \/ (t = u /\ w.what \in W) => Waits(u, W)'
  BY <1>2, <1>4, Queueing
<1>7. ASSUME NEW u \in Tabs  PROVE Watched(u)'
  <2>1. CASE u = t
    <3>1. Waits(t, Forms)'  BY <1>2, <1>6
    <3> QED  BY <2>1, <3>1 DEF Watched, Active
  <2>2. CASE u # t
    <3>1. tab'[u] = tab[u] /\ seen'[u] = seen[u] /\ run'[u] = run[u]
      BY <1>3, <1>5, <2>2
    <3> QED  BY <1>6, <3>1, WatchStays
  <2> QED  BY <2>1, <2>2
<1>8. tab' \in [Tabs -> Page]  BY <1>3
<1> QED  BY <1>5, <1>6, <1>7, <1>8, PageKeeps

-----------------------------------------------------------------------------
(* Inside the lock.                                                        *)

LEMMA TurnKeeps ==
  ASSUME Inv, NEW t \in Tabs, NEW r \in Run, run' = [run EXCEPT ![t] = r],
         LockFree \/ run[t].step # "none",
         TypeOK', Listed', Queued', JarStands', Call(t)', \A u \in Tabs : Watched(u)'
  PROVE  Inv'
<1>1. TypeOK /\ Locked  BY DEF Inv
<1>2. Alone' /\ \A u \in Tabs : Call(u)'  BY <1>1, OnlyOne
<1> QED  BY <1>2, WatchedAll DEF Inv, Locked

(* What the first waiter asks with.                                        *)
LEMMA StartedTyped ==
  ASSUME TypeOK, Queued, Listed, queue # <<>>, NEW step \in {"sent", "checking"}
  PROVE  LET r == Started(step)
         IN  /\ r \in Run /\ r.step = step /\ r.what = Head(queue).what
             /\ r.meta = Head(queue).meta /\ r.cookie = Sent(jar) /\ r.answer = None
             /\ (r.what = "renew" => r.meta # None)
             /\ (r.cookie # None => Row(r.cookie.session) /\ Holds(r.cookie))
             /\ (r.cookie = None => jar = None \/ jar.until <= clock)
<1>1. Head(queue) \in Waiter /\ (Head(queue).what = "renew" => Head(queue).meta # None)
  <2>1. queue \in Seq(Waiter)  BY DEF TypeOK
  <2>2. Head(queue) = queue[1] /\ 1 \in DOMAIN queue /\ Head(queue) \in Waiter  BY <2>1
  <2> QED  BY <2>2 DEF Queued
<1>2. jar \in Cookie \cup {None} /\ clock \in Nat  BY BoundAssumption DEF TypeOK
<1>3. /\ Sent(jar) \in Credential \cup {None}
      /\ Sent(jar) # None => jar # None /\ Sent(jar).session = jar.session /\ Sent(jar).turn = jar.turn
      /\ Sent(jar) = None => jar = None \/ jar.until <= clock
  <2>1. jar # None => jar.until \in Nat  BY <1>2 DEF Cookie
  <2> QED  BY <1>2, <2>1, SentTyped
<1>4. Sent(jar) # None => Row(Sent(jar).session) /\ Holds(Sent(jar))
  BY <1>3 DEF Listed, Holds
<1>5. Started(step) = [step |-> step, what |-> Head(queue).what, meta |-> Head(queue).meta,
                       cookie |-> Sent(jar), answer |-> None]
  BY DEF Started
<1>6. Started(step) \in Run  BY <1>1, <1>3, <1>5 DEF Run, Waiter
<1> QED  BY <1>1, <1>3, <1>4, <1>5, <1>6

(* A waiter enters with a request, or with a look at the session.          *)
LEMMA EnterKeeps ==
  ASSUME Inv, NEW t \in Tabs, Granted(t), queue' = Tail(queue),
         NEW step \in {"sent", "checking"}, run' = [run EXCEPT ![t] = Started(step)],
         Head(queue).what = "signout" => Sent(jar) # None,
         step = "sent" /\ Head(queue).what = "renew" => Sent(jar) # None,
         UNCHANGED <<clock, sessions, jar, tab, seen, stray>>
  PROVE  Inv'
<1> USE InvFacts
<1> DEFINE r == Started(step)
<1>0. queue # <<>> /\ LockFree /\ Head(queue).tab = t  BY DEF Granted
<1>1. /\ r \in Run /\ r.step = step /\ r.what = Head(queue).what
      /\ r.meta = Head(queue).meta /\ r.cookie = Sent(jar) /\ r.answer = None
      /\ (r.what = "renew" => r.meta # None)
      /\ (r.cookie # None => Row(r.cookie.session) /\ Holds(r.cookie))
      /\ (r.cookie = None => jar = None \/ jar.until <= clock)
  BY <1>0, StartedTyped
<1> HIDE DEF r
<1>2. run' = [run EXCEPT ![t] = r]  BY DEF r
<1>3. /\ queue' \in Seq(Waiter) /\ Len(queue') <= MaxQueue /\ Queued'
      /\ \A W : \A u \in Tabs : (t # u \/ r.what \notin W) => (Waits(u, W) <=> Waits(u, W)')
  BY <1>0, <1>1, Unqueueing
<1>4. /\ run' \in [Tabs -> Run] /\ run'[t] = r
      /\ \A u \in Tabs : u # t => run'[u] = run[u] /\ ~Carried(u)
  <2>1. TypeOK /\ Locked  OBVIOUS
  <2>2. LockFree  BY <1>0
  <2>3. r \in Run  BY <1>1
  <2> HIDE InvFacts
  <2> QED  BY <1>2, <2>1, <2>2, <2>3, OnlyOne
<1>5. TypeOK'  BY <1>3, <1>4 DEF TypeOK
<1>6. Listed'  BY <1>1, <1>4 DEF Listed, Row
<1>7. JarStands'
  <2>1. \A u \in Tabs : ~Carried(u)  BY <1>0, <1>4 DEF Carried, LockFree
  <2> QED  BY <2>1 DEF JarStands, InFlight, Current
<1>8. Call(t)'
  <2>1. r.what \in Calls  BY <1>1 DEF Run
  <2>2. step = "sent" /\ r.what # "signin" => r.cookie # None
    BY <1>1, <2>1 DEF Calls, Forms
  <2> QED  BY <1>1, <1>4, <2>2 DEF Call, Asking, Answering, Carrying, Carried, Checking, Holds
<1>9. ASSUME NEW u \in Tabs  PROVE Watched(u)'
  <2>1. CASE u = t
    <3>1. r.what \in Forms \/ r.what = "renew"  BY <1>1 DEF Run, Calls
    <3>2. run'[t].step # "none" /\ run'[t].what = r.what  BY <1>1, <1>4
    <3>3. CASE r.what \in Forms  BY <2>1, <3>2, <3>3 DEF Watched, Active, Inside
    <3>4. CASE r.what = "renew"  BY <2>1, <3>2, <3>4 DEF Watched, Inside
    <3> QED  BY <3>1, <3>3, <3>4
  <2>2. CASE u # t
    <3>1. tab'[u] = tab[u] /\ seen'[u] = seen[u] /\ run'[u] = run[u]
      BY <1>4, <2>2
    <3> QED  BY <1>3, <2>2, <3>1, WatchStays
  <2> QED  BY <2>1, <2>2
<1> QED  BY <1>0, <1>1, <1>2, <1>3, <1>5, <1>6, <1>7, <1>8, <1>9, TurnKeeps

LEMMA EnterRenewKeeps == ASSUME Inv, NEW t \in Tabs, EnterRenew(t)  PROVE Inv'
<1> USE InvFacts
<1> DEFINE watching == Active(t) /\ tab[t].page = "visible"
<1>0. /\ queue # <<>> /\ Head(queue).tab = t /\ Head(queue).what = "renew" /\ Granted(t)
      /\ queue' = Tail(queue) /\ UNCHANGED <<clock, sessions, jar, seen, stray>>
  BY DEF EnterRenew, Granted
<1>1. /\ queue' \in Seq(Waiter) /\ Len(queue') <= MaxQueue /\ Queued'
      /\ \A W : \A u \in Tabs : (t # u \/ "renew" \notin W) => (Waits(u, W) <=> Waits(u, W)')
  BY <1>0, Unqueueing
<1>2. seen' = [seen EXCEPT ![t] = seen[t]]  BY <1>0
<1>3. CASE UNCHANGED run /\ ((UNCHANGED tab /\ ~watching) \/ tab' = [tab EXCEPT ![t] = Failed(tab[t])])
  <2>1. Failed(tab[t]) \in Page /\ ~Vouches(Failed(tab[t]))
    BY DEF Failed, Page, Vouches
  <2>2. tab' \in [Tabs -> Page]  BY <1>3, <2>1
  <2>3. ASSUME NEW u \in Tabs  PROVE Watched(u)'
    <3>1. CASE u # t
      <4>1. tab'[u] = tab[u] /\ seen'[u] = seen[u] /\ run'[u] = run[u]
        BY <1>0, <1>3, <3>1
      <4> QED  BY <1>1, <3>1, <4>1, WatchStays
    <3>2. CASE u = t /\ UNCHANGED tab /\ ~watching
      <4>1. Waits(t, Forms)' <=> Waits(t, Forms)  BY <1>1 DEF Forms
      <4>2. Active(t)' <=> Active(t)  BY <1>3, <3>2, <4>1 DEF Active, Inside
      <4> QED  BY <3>2, <4>2 DEF Watched, Vouches
    <3>3. CASE u = t /\ tab' = [tab EXCEPT ![t] = Failed(tab[t])]
      BY <2>1, <3>3 DEF Watched
    <3> QED  BY <1>3, <3>1, <3>2, <3>3
  <2> QED  BY <1>0, <1>1, <1>2, <1>3, <2>2, <2>3, PageKeeps
<1>4. CASE UNCHANGED tab /\ run' = [run EXCEPT ![t] = Started("checking")]
  BY <1>0, <1>4, EnterKeeps
<1>5. CASE UNCHANGED tab /\ Sent(jar) # None /\ run' = [run EXCEPT ![t] = Started("sent")]
  BY <1>0, <1>5, EnterKeeps
<1> QED  BY <1>3, <1>4, <1>5 DEF EnterRenew

LEMMA EnterFormKeeps == ASSUME Inv, NEW t \in Tabs, EnterForm(t)  PROVE Inv'
<1> USE InvFacts
<1>0. /\ queue # <<>> /\ Head(queue).tab = t /\ Head(queue).what \in Forms /\ Granted(t)
      /\ queue' = Tail(queue) /\ UNCHANGED <<clock, sessions, jar, tab, stray>>
  BY DEF EnterForm, Granted
<1>1. CASE Head(queue).what = "signout" /\ Sent(jar) = None
  <2>1. /\ queue' \in Seq(Waiter) /\ Len(queue') <= MaxQueue /\ Queued'
        /\ \A W : \A u \in Tabs : t # u => (Waits(u, W) <=> Waits(u, W)')
    BY <1>0, Unqueueing
  <2>2. UNCHANGED run /\ seen' = [seen EXCEPT ![t] = Observing(jar)]
    BY <1>1 DEF EnterForm, Resume
  <2>3. ASSUME NEW u \in Tabs  PROVE Watched(u)'
    <3>1. CASE u = t
      <4>1. seen'[t].step # "none"  BY <2>2, ObservingTyped
      <4> QED  BY <3>1, <4>1 DEF Watched
    <3>2. CASE u # t
      <4>1. tab'[u] = tab[u] /\ seen'[u] = seen[u] /\ run'[u] = run[u]
        BY <1>0, <2>2, <3>2
      <4> QED  BY <2>1, <3>2, <4>1, WatchStays
    <3> QED  BY <3>1, <3>2
  <2> QED  BY <1>0, <2>1, <2>2, <2>3, PageKeeps
<1>2. CASE ~(Head(queue).what = "signout" /\ Sent(jar) = None)
  <2>1. run' = [run EXCEPT ![t] = Started("sent")] /\ UNCHANGED seen
    BY <1>2 DEF EnterForm
  <2> QED  BY <1>0, <1>2, <2>1, EnterKeeps DEF Forms
<1> QED  BY <1>1, <1>2

(* Page t moves inside the lock, and names no session but an issued one.   *)
LEMMA ListKeeps ==
  ASSUME TypeOK, Listed, \A n : Row(n) => Row(n)', NEW t \in Tabs, NEW r \in Run,
         run' = [run EXCEPT ![t] = r],
         r.cookie # None => Row(r.cookie.session)',
         r.answer # None /\ r.answer.cookie # None => Row(r.answer.cookie.session)',
         jar' # None => Row(jar.session)',
         \A u \in Tabs : seen'[u].cookie # None => Row(seen[u].cookie.session)',
         \A c \in stray' : Row(c.session)'
  PROVE  Listed'
<1>1. run \in [Tabs -> Run]  BY DEF TypeOK
<1>2. ASSUME NEW u \in Tabs
      PROVE  /\ run'[u].cookie # None => Row(run[u].cookie.session)'
             /\ run'[u].answer # None /\ run'[u].answer.cookie # None =>
                  Row(run[u].answer.cookie.session)'
  <2>1. CASE u = t
    <3>1. run'[u] = r  BY <1>1, <2>1
    <3> QED  BY <3>1 DEF Row
  <2>2. CASE u # t
    <3>1. run'[u] = run[u]  BY <1>1, <2>2
    <3> QED  BY <3>1 DEF Listed, Row
  <2> QED  BY <2>1, <2>2
<1> QED  BY <1>2 DEF Listed

(* The call of page t is answered with a.                                  *)
Replied(t, a) ==
  \E r \in Run : /\ run' = [run EXCEPT ![t] = r]
                 /\ r.step = "answered" /\ r.answer = a
                 /\ r.what = run[t].what /\ r.cookie = run[t].cookie /\ r.meta = run[t].meta

LEMMA ReplyingReplies ==
  ASSUME TypeOK, NEW t \in Tabs, NEW a \in Answer,
         run' = [run EXCEPT ![t].step = "answered", ![t].answer = a]
  PROVE  Replied(t, a)
<1> DEFINE r == [run[t] EXCEPT !.step = "answered", !.answer = a]
<1>1. run' = [run EXCEPT ![t] = r]  OBVIOUS
<1>2. run[t] \in Run  BY DEF TypeOK
<1>3. /\ r \in Run /\ r.step = "answered" /\ r.answer = a
      /\ r.what = run[t].what /\ r.cookie = run[t].cookie /\ r.meta = run[t].meta
  BY <1>2 DEF Run
<1> HIDE DEF r
<1> QED  BY <1>1, <1>3 DEF Replied

LEMMA AnsweredKeeps ==
  ASSUME Inv, NEW t \in Tabs, run[t].step = "sent", NEW a \in Answer, a # None,
         Replied(t, a),
         UNCHANGED <<clock, jar, tab, seen, queue, stray>>,
         sessions' \in Seq(Session), Len(sessions') <= MaxSessions, \A n : Row(n) => Row(n)',
         a.cookie # None => Row(a.cookie.session)',
         JarStands', Answering(t)', Carrying(t)'
  PROVE  Inv'
<1>0. /\ TypeOK /\ Listed /\ Queued /\ Locked /\ run \in [Tabs -> Run]
      /\ \A u \in Tabs : Watched(u) /\ Call(u)
  BY InvFacts
<1>1. PICK r \in Run : /\ run' = [run EXCEPT ![t] = r]
                       /\ r.step = "answered" /\ r.answer = a /\ r.what = run[t].what
                       /\ r.cookie = run[t].cookie /\ r.meta = run[t].meta
  BY DEF Replied
<1>2. run' = [run EXCEPT ![t] = r]  BY <1>1
<1>3. /\ run' \in [Tabs -> Run] /\ run'[t] = r
      /\ \A u \in Tabs : u # t => run'[u] = run[u]
  BY <1>0, <1>2
<1>4. TypeOK'  BY <1>0, <1>3 DEF TypeOK
<1>5. Listed'
  <2>1. r.cookie # None => Row(r.cookie.session)  BY <1>0, <1>1 DEF Listed
  <2>2. /\ jar' # None => Row(jar.session)'
        /\ \A u \in Tabs : seen'[u].cookie # None => Row(seen[u].cookie.session)'
        /\ \A c \in stray' : Row(c.session)'
    BY <1>0 DEF Listed, Row
  <2> QED  BY <1>0, <1>1, <1>2, <2>1, <2>2, ListKeeps
<1>6. Queued'  BY <1>0, SameQueue
<1>7. Asking(t)' /\ Checking(t)'
  <2>1. Asking(t)  BY <1>0 DEF Call
  <2> QED  BY <1>1, <1>3, <2>1 DEF Asking, Checking, Holds
<1>8. ASSUME NEW u \in Tabs  PROVE Watched(u)'
  <2>1. run'[u] = run[u] \/ (run'[u].what = run[u].what /\ run'[u].step # "none" /\ run[u].step # "none")
    BY <1>1, <1>3
  <2> QED  BY <1>0, <2>1, SameQueue, WatchStays
<1> QED  BY <1>1, <1>2, <1>4, <1>5, <1>6, <1>7, <1>8, TurnKeeps DEF Call

(* Nothing is on its way to the jar while a call is under way at the server.*)
LEMMA NothingCarried ==
  ASSUME Inv, NEW t \in Tabs, run[t].step \in {"sent", "checking"}
  PROVE  \A u \in Tabs : ~Carried(u)
BY InvFacts DEF Locked, Alone, Carried

LEMMA ServedKeeps ==
  ASSUME Inv, NEW t \in Tabs, run[t].step = "sent", NEW a \in Answer, a # None,
         Replied(t, a),
         UNCHANGED <<clock, jar, tab, seen, queue, stray>>,
         Ages(sessions'), a.cookie = None,
         a.kind = "ended" => run[t].what = "renew" /\ Worthless(run[t].cookie),
         a.kind = "ok" => run[t].what # "renew"
  PROVE  Inv'
<1>0. TypeOK /\ Listed /\ JarStands /\ clock \in Nat /\ run \in [Tabs -> Run] /\ Call(t)
  BY InvFacts
<1>1. Passes  BY <1>0 DEF Passes
<1>2. JarStands'  BY <1>0, <1>1, JarStays, NothingCarried
<1>3. /\ run'[t].step = "answered" /\ run'[t].answer = a
      /\ run'[t].what = run[t].what /\ run'[t].cookie = run[t].cookie
  BY <1>0 DEF Replied
<1>4. Answering(t)'
  <2>1. ASSUME a.kind = "ended"  PROVE Worthless(run[t].cookie)'
    <3>1. run[t].what = "renew" /\ Worthless(run[t].cookie)  BY <2>1
    <3>2. run[t].cookie # None  BY <1>0, <3>1 DEF Call, Asking
    <3>3. Row(run[t].cookie.session)  BY <1>0, <3>2 DEF Listed
    <3> PICK c : c = run[t].cookie  OBVIOUS
    <3>4. Worthless(c)'  BY <1>0, <1>1, <3>1, <3>3, RowStays
    <3>5. run'[t].cookie = c  BY <1>3
    <3> QED  BY <3>4, <3>5 DEF Worthless
  <2> QED  BY <1>3, <2>1 DEF Answering, Worthless
<1>5. Carrying(t)'  BY <1>3 DEF Carrying, Carried
<1>6. sessions' \in Seq(Session) /\ Len(sessions') <= MaxSessions  BY DEF Ages
<1> QED  BY <1>0, <1>1, <1>2, <1>4, <1>5, <1>6, RowsStay, AnsweredKeeps

LEMMA ServeRenewKeeps ==
  ASSUME Inv, NEW t \in Tabs, run[t].step = "sent", run[t].what = "renew",
         Replied(t, RenewAnswer(run[t].cookie)),
         sessions' = AfterRenew(run[t].cookie),
         UNCHANGED <<clock, jar, tab, seen, queue, stray>>
  PROVE  Inv'
<1> PICK c : c = run[t].cookie  OBVIOUS
<1> PICK a : a = RenewAnswer(c)  OBVIOUS
<1> DEFINE n == c.session
<1>0. TypeOK /\ Listed /\ clock \in Nat /\ run \in [Tabs -> Run] /\ Call(t)
  BY InvFacts
<1>1. c \in Credential /\ Row(n) /\ Holds(c)
  <2>1. c # None /\ Holds(c)  BY <1>0 DEF Call, Asking
  <2> QED  BY <1>0, <2>1 DEF Listed, Run
<1>2. CASE ~Renewable(c)
  <2>1. sessions' = sessions  BY <1>0, <1>1, <1>2, Renewing
  <2>2. /\ a \in Answer /\ a # None /\ a.cookie = None
        /\ a.kind \in {"early", "stale", "ended"} /\ (a.kind = "ended" => Worthless(c))
    BY <1>0, <1>1, <1>2, Renewing
  <2>3. Ages(sessions')  BY <1>0, <2>1, SessionsTyped
  <2> QED  BY <2>2, <2>3, ServedKeeps
<1>3. CASE Renewable(c)
  <2>1. /\ a \in Answer /\ a # None /\ a.kind = "ok" /\ a.meta # None /\ a.cookie # None
        /\ a.cookie.session = n /\ a.cookie.turn = c.turn + 1
        /\ a.cookie.turn = sessions'[n].turn /\ a.cookie.until = sessions'[n].expires
        /\ sessions' \in Seq(Session) /\ Len(sessions') = Len(sessions)
        /\ sessions'[n].over = "no"
    BY <1>0, <1>1, <1>3, Renewing
  <2>2. DOMAIN sessions' = DOMAIN sessions /\ Len(sessions') <= MaxSessions
    BY <1>0, <2>1, SessionsTyped
  <2>3. \A m : Row(m) => Row(m)'  BY <2>2 DEF Row
  <2>4. /\ run'[t].step = "answered" /\ run'[t].answer = a
        /\ run'[t].what = "renew" /\ run'[t].cookie = c
    BY <1>0 DEF Replied
  <2>5. JarStands'
    <3>1. jar.session = n  BY <1>1 DEF Holds
    <3>2. InFlight(n)'  BY <2>1, <2>4 DEF InFlight, Carried
    <3> QED  BY <2>1, <3>1, <3>2 DEF JarStands, InFlight
  <2>6. Answering(t)'  BY <2>1, <2>4 DEF Answering
  <2>7. Carrying(t)'  BY <2>1, <2>4 DEF Carrying, Current
  <2>8. Row(a.cookie.session)'  BY <1>1, <2>1, <2>3
  <2> QED  BY <2>1, <2>2, <2>3, <2>5, <2>6, <2>7, <2>8, AnsweredKeeps
<1> QED  BY <1>2, <1>3

LEMMA ServeSignInKeeps ==
  ASSUME Inv, NEW t \in Tabs, run[t].step = "sent", run[t].what = "signin",
         Replied(t, LoginAnswer(run[t].cookie)),
         sessions' = AfterLogin(run[t].cookie),
         UNCHANGED <<clock, jar, tab, seen, queue, stray>>
  PROVE  Inv'
<1> PICK c : c = run[t].cookie  OBVIOUS
<1> PICK a : a = LoginAnswer(c)  OBVIOUS
<1> DEFINE n == Len(sessions) + 1
<1>0. TypeOK /\ Listed /\ JarStands /\ clock \in Nat /\ run \in [Tabs -> Run] /\ Call(t)
  BY InvFacts
<1>1. a \in Answer /\ a # None  BY <1>0, SigningIn
<1>s. /\ sessions \in Seq(Session) /\ DOMAIN sessions = 1..Len(sessions)
      /\ Len(sessions) \in Nat /\ Ages(sessions)
  BY <1>0, SessionsTyped
<1>2. CASE a.cookie = None
  <2>1. sessions' = sessions /\ a.kind \in {"refused", "failed"}  BY <1>0, <1>2, SigningIn
  <2> QED  BY <1>1, <1>2, <1>s, <2>1, ServedKeeps
<1>3. CASE a.cookie # None
  <2>1. /\ sessions' \in Seq(Session) /\ Len(sessions') = n /\ n <= MaxSessions
        /\ n \in DOMAIN sessions'
        /\ \A m \in DOMAIN sessions : m \in DOMAIN sessions' /\ sessions'[m] = sessions[m]
        /\ sessions'[n].over = "no" /\ a.kind = "ok" /\ a.cookie.session = n
        /\ a.cookie.turn = sessions'[n].turn /\ a.cookie.until = sessions'[n].expires
    BY <1>0, <1>3, SigningIn
  <2>2. Ages(sessions')
    <3>1. \A m \in DOMAIN sessions : Aged(sessions[m], sessions'[m])  BY <2>1 DEF Aged
    <3> QED  BY <1>s, <2>1, <3>1 DEF Ages
  <2>3. Passes  BY <1>0, <2>2 DEF Passes
  <2>4. /\ run'[t].step = "answered" /\ run'[t].answer = a
        /\ run'[t].what = "signin" /\ run'[t].cookie = c
    BY <1>0 DEF Replied
  <2>5. JarStands'  BY <1>0, <2>3, JarStays, NothingCarried
  <2>6. Answering(t)'  BY <1>1, <2>1, <2>4 DEF Answering
  <2>7. Carrying(t)'
    <3>1. jar # None => jar.session \in 1..Len(sessions)  BY <1>0, <1>s DEF Listed, Row
    <3>2. jar # None => n > jar.session  BY <1>s, <3>1
    <3> QED  BY <2>1, <2>4, <3>2 DEF Carrying, Current
  <2>8. Row(a.cookie.session)'  BY <2>1 DEF Row
  <2>9. Len(sessions') <= MaxSessions  BY <2>1
  <2> QED  BY <1>0, <1>1, <2>1, <2>3, <2>5, <2>6, <2>7, <2>8, <2>9, RowsStay, AnsweredKeeps
<1> QED  BY <1>2, <1>3

LEMMA AfterLogoutAges ==
  ASSUME TypeOK, NEW c, Row(c.session)
  PROVE  Ages(AfterLogout(c))
BY RevokedAges DEF AfterLogout

LEMMA ServeKeeps == ASSUME Inv, NEW t \in Tabs, Serve(t)  PROVE Inv'
<1> PICK c : c = run[t].cookie  OBVIOUS
<1> PICK what : what = run[t].what  OBVIOUS
<1> DEFINE a == AnswerTo(what, c)
           after == After(what, c)
<1>0. TypeOK /\ Listed /\ run \in [Tabs -> Run] /\ Call(t)  BY InvFacts
<1>1. /\ run[t].step = "sent" /\ UNCHANGED <<clock, jar, tab, seen, queue, stray>>
      /\ what \in Calls
  BY <1>0 DEF Serve, Run
<1>2. what # "signin" => c \in Credential /\ c # None /\ Row(c.session)
  BY <1>0, <1>1 DEF Call, Asking, Listed, Run
<1>3. /\ what = "renew" => a = RenewAnswer(c) /\ after = AfterRenew(c)
      /\ what = "signin" => a = LoginAnswer(c) /\ after = AfterLogin(c)
      /\ what = "signout" => a = Reply("ok") /\ after = AfterLogout(c)
  BY DEF AnswerTo, After
<1>4. what \in {"renew", "signin", "signout"}  BY <1>1 DEF Calls, Forms
<1> HIDE DEF a, after
<1>o. Reply("ok") \in Answer /\ Reply("ok") # None /\ Reply("ok").kind = "ok" /\ Reply("ok").cookie = None
  BY ReplyTyped DEF Kinds
<1>f. /\ Reply("failed") \in Answer /\ Reply("failed") # None
      /\ Reply("failed").kind = "failed" /\ Reply("failed").cookie = None
  BY ReplyTyped DEF Kinds
<1>a. a \in Answer
  <2>1. CASE what = "renew"  BY <1>0, <1>2, <1>3, <2>1, Renewing
  <2>2. CASE what = "signin"  BY <1>0, <1>3, <2>2, SigningIn
  <2>3. CASE what = "signout"  BY <1>3, <1>o, <2>3
  <2> QED  BY <1>4, <2>1, <2>2, <2>3
<1>5. CASE sessions' = after /\ Replied(t, a)
  <2>1. CASE what = "renew"  BY <1>1, <1>3, <1>5, <2>1, ServeRenewKeeps
  <2>2. CASE what = "signin"  BY <1>1, <1>3, <1>5, <2>2, ServeSignInKeeps
  <2>3. CASE what = "signout"
    <3>1. Ages(AfterLogout(c))  BY <1>0, <1>2, <2>3, AfterLogoutAges
    <3> QED  BY <1>1, <1>3, <1>o, <1>5, <2>3, <3>1, ServedKeeps
  <2> QED  BY <1>4, <2>1, <2>2, <2>3
<1>6. CASE sessions' \in {sessions, Dropping(after, a)} /\ Replied(t, Reply("failed"))
  <2>1. Ages(Dropping(after, a))
    <3>1. CASE what = "renew"  BY <1>0, <1>2, <1>3, <3>1, LostRenewalAges
    <3>2. CASE what = "signin"  BY <1>0, <1>3, <3>2, LostSignInAges
    <3>3. CASE what = "signout"
      <4>1. Dropping(after, a) = AfterLogout(c)  BY <1>3, <1>o, <3>3 DEF Dropping
      <4> QED  BY <1>0, <1>2, <3>3, <4>1, AfterLogoutAges
    <3> QED  BY <1>4, <3>1, <3>2, <3>3
  <2>2. Ages(sessions')  BY <1>0, <1>6, <2>1, SessionsTyped
  <2> QED  BY <1>1, <1>6, <1>f, <2>2, ServedKeeps
<1>7. \/ sessions' = after /\ run' = [run EXCEPT ![t].step = "answered", ![t].answer = a]
      \/ /\ sessions' \in {sessions, Dropping(after, a)}
         /\ run' = [run EXCEPT ![t].step = "answered", ![t].answer = Reply("failed")]
  BY DEF Serve, a, after
<1> QED  BY <1>0, <1>5, <1>6, <1>7, <1>a, <1>f, ReplyingReplies

-----------------------------------------------------------------------------
(* The answers reach page t, or get lost.                                  *)

LEMMA MoveKeeps ==
  ASSUME Inv, NEW t \in Tabs, run[t].step # "none", UNCHANGED <<clock, queue>>,
         NEW r \in Run, run' = [run EXCEPT ![t] = r],
         NEW p \in Page, tab' = [tab EXCEPT ![t] = p],
         NEW o \in Observation, seen' = [seen EXCEPT ![t] = o],
         r.cookie # None => Row(r.cookie.session)',
         r.answer # None /\ r.answer.cookie # None => Row(r.answer.cookie.session)',
         o.cookie # None => Row(o.cookie.session)',
         jar' \in Cookie \cup {None}, jar' # None => Row(jar.session)',
         stray' \subseteq Credential, \A c \in stray' : Row(c.session)',
         sessions' \in Seq(Session), Len(sessions') <= MaxSessions, \A n : Row(n) => Row(n)',
         JarStands', Call(t)', Watched(t)'
  PROVE  Inv'
<1>0. /\ TypeOK /\ Listed /\ Queued /\ Locked /\ run \in [Tabs -> Run]
      /\ tab \in [Tabs -> Page] /\ seen \in [Tabs -> Observation]
      /\ \A u \in Tabs : Watched(u)
  BY InvFacts
<1>1. \A u \in Tabs : u # t => run'[u] = run[u] /\ tab'[u] = tab[u] /\ seen'[u] = seen[u]
  BY <1>0
<1>2. run' \in [Tabs -> Run] /\ tab' \in [Tabs -> Page] /\ seen' \in [Tabs -> Observation]
  BY <1>0
<1>3. TypeOK'  BY <1>0, <1>2 DEF TypeOK
<1>4. \A u \in Tabs : seen'[u].cookie # None => Row(seen[u].cookie.session)'
  <2> TAKE u \in Tabs
  <2>1. CASE u = t
    <3>1. seen'[u] = o  BY <1>0, <2>1
    <3> QED  BY <3>1 DEF Row
  <2>2. CASE u # t  BY <1>0, <1>1, <2>2 DEF Listed, Row
  <2> QED  BY <2>1, <2>2
<1>5. Listed'  BY <1>0, <1>4, ListKeeps
<1>6. Queued'  BY <1>0, SameQueue
<1>7. ASSUME NEW u \in Tabs  PROVE Watched(u)'
  <2>1. CASE u = t  BY <2>1
  <2>2. CASE u # t  BY <1>0, <1>1, <2>2, SameQueue, WatchStays
  <2> QED  BY <2>1, <2>2
<1> QED  BY <1>3, <1>5, <1>6, <1>7, TurnKeeps

(* Inside the lock nobody else carries a credential.                       *)
LEMMA OnlyCarrier ==
  ASSUME Inv, NEW t \in Tabs, run[t].step # "none"
  PROVE  \A u \in Tabs : Carried(u) => u = t
BY InvFacts DEF Alone, Carried

(* The one validation that follows a request with no clear answer.         *)
LEMMA Validating ==
  ASSUME Inv, NEW t \in Tabs, Check(t), jar' \in Cookie \cup {None}, clock' = clock
  PROVE  /\ Call(t)'
         /\ \E r \in Run :
              /\ run' = [run EXCEPT ![t] = r] /\ r.step = "checking"
              /\ r.what = run[t].what /\ r.answer = None
              /\ r.cookie # None => jar' # None /\ r.cookie.session = jar'.session
<1> PICK j \in Cookie \cup {None} : j = jar'  OBVIOUS
<1> PICK c : c = Sent(j)  OBVIOUS
<1>0. run \in [Tabs -> Run] /\ clock \in Nat  BY InvFacts
<1>1. /\ c \in Credential \cup {None}
      /\ c # None => j # None /\ c.session = j.session /\ c.turn = j.turn
      /\ c = None => j = None \/ j.until <= clock
  <2>1. j # None => j.until \in Nat  BY DEF Cookie
  <2> QED  BY <1>0, <2>1, SentTyped
<1> DEFINE r == [run[t] EXCEPT !.step = "checking", !.cookie = c, !.meta = None, !.answer = None]
<1>2. run' = [run EXCEPT ![t] = r]  BY DEF Check
<1>3. run[t] \in Run  BY <1>0
<1>4. /\ r \in Run /\ r.step = "checking" /\ r.what = run[t].what /\ r.answer = None
      /\ r.cookie = c
  BY <1>1, <1>3 DEF Run
<1> HIDE DEF r
<1>5. run'[t] = r  BY <1>0, <1>2
<1>6. Call(t)'
  BY <1>1, <1>4, <1>5 DEF Call, Asking, Answering, Carrying, Carried, Checking, Holds
<1> QED  BY <1>1, <1>2, <1>4, <1>6

(* What a callback of a renewal shows, and that the page keeps watch.      *)
LEMMA Telling ==
  ASSUME Inv, NEW t \in Tabs, run[t].what = "renew", NEW p \in Page, Watchful(p), Tell(t, p),
         queue' = queue, run'[t].step = "none"
  PROVE  /\ Watched(t)'
         /\ \E q \in Page : tab' = [tab EXCEPT ![t] = q]
<1>0. tab \in [Tabs -> Page]  BY InvFacts
<1>1. CASE Active(t)
  <2>1. tab' = [tab EXCEPT ![t] = p]  BY <1>1 DEF Tell
  <2> QED  BY <1>0, <2>1 DEF Watched, Watchful
<1>2. CASE ~Active(t)
  <2>1. tab' = tab  BY <1>2 DEF Tell
  <2>2. ~Inside(t, Forms)  BY DEF Inside, Forms
  <2>3. ~Active(t)'  BY <1>2, <2>1, <2>2, SameQueue DEF Active
  <2>4. tab' = [tab EXCEPT ![t] = tab[t]] /\ tab[t] \in Page  BY <1>0, <2>1
  <2> QED  BY <2>3, <2>4 DEF Watched
<1> QED  BY <1>1, <1>2

LEMMA OutsideCall ==
  ASSUME Inv, NEW t \in Tabs, Leave(t)
  PROVE  Call(t)' /\ run'[t] = Outside
<1>1. run'[t] = Outside  BY InvFacts DEF Leave
<1> QED  BY <1>1 DEF Outside, Call, Asking, Answering, Carrying, Carried, Checking

(* Page t leaves the lock, with a new look at the session or without.      *)
LEMMA LeaveKeeps ==
  ASSUME Inv, NEW t \in Tabs, run[t].step # "none", Leave(t), UNCHANGED <<clock, queue>>,
         NEW p \in Page, tab' = [tab EXCEPT ![t] = p],
         seen' = seen \/ seen' = [seen EXCEPT ![t] = Observing(jar')],
         jar' \in Cookie \cup {None}, jar' # None => Row(jar.session)',
         stray' \subseteq Credential, \A c \in stray' : Row(c.session)',
         sessions' \in Seq(Session), Len(sessions') <= MaxSessions, \A n : Row(n) => Row(n)',
         JarStands', seen' = seen => Watched(t)'
  PROVE  Inv'
<1>0. seen \in [Tabs -> Observation] /\ Listed  BY InvFacts
<1>1. Call(t)' /\ Outside \in Run /\ Outside.cookie = None /\ Outside.answer = None
      /\ run' = [run EXCEPT ![t] = Outside]
  BY OutsideCall, OutsideTyped DEF Outside, Leave
<1>2. CASE seen' = seen
  <2>1. seen' = [seen EXCEPT ![t] = seen[t]] /\ seen[t] \in Observation  BY <1>0, <1>2
  <2>2. seen[t].cookie # None => Row(seen[t].cookie.session)  BY <1>0 DEF Listed
  <2> PICK o \in Observation : o = seen[t]  BY <2>1
  <2>3. o.cookie # None => Row(o.cookie.session)'  BY <2>2
  <2> QED  BY <1>1, <1>2, <2>1, <2>3, MoveKeeps
<1>3. CASE seen' # seen
  <2> PICK j \in Cookie \cup {None} : j = jar'  OBVIOUS
  <2> PICK o : o = Observing(j)  OBVIOUS
  <2>1. o \in Observation /\ o.step = "sent" /\ o.cookie = Sent(j)
    BY SentTyped DEF Observing, Observation
  <2>2. seen' = [seen EXCEPT ![t] = o]  BY <1>3
  <2>3. o.cookie # None => Row(o.cookie.session)'
    <3>1. o.cookie # None => j # None /\ o.cookie.session = j.session  BY <2>1, SentTyped
    <3>2. j # None => Row(j.session)'  BY DEF Row
    <3> QED  BY <3>1, <3>2
  <2>4. Watched(t)'
    <3>1. seen'[t].step = "sent"  BY <1>0, <2>1, <2>2
    <3> QED  BY <3>1 DEF Watched
  <2> QED  BY <1>1, <2>1, <2>2, <2>3, <2>4, MoveKeeps
<1> QED  BY <1>2, <1>3

(* What an answer brings to the jar is current, and newer than what it     *)
(* replaces.                                                               *)
LEMMA Brought ==
  ASSUME Inv, NEW t \in Tabs, run[t].step = "answered"
  PROVE  LET a == run[t].answer
         IN  /\ a \in Answer /\ a # None
             /\ a.cookie # None =>
                  /\ a.cookie \in Cookie /\ Row(a.cookie.session) /\ Current(a.cookie)
                  /\ sessions[a.cookie.session].over # "left"
                  /\ a.kind = "ok" /\ run[t].what # "signout"
                  /\ jar # None => Newer(a.cookie, jar)
             /\ a.kind = "ok" /\ run[t].what = "renew" => a.cookie # None /\ a.meta \in Meta
<1> PICK a : a = run[t].answer  OBVIOUS
<1>0. /\ run \in [Tabs -> Run] /\ jar \in Cookie \cup {None} /\ Listed
      /\ Asking(t) /\ Answering(t) /\ Carrying(t)
  BY InvFacts DEF Call
<1>1. a \in Answer /\ a # None  BY <1>0 DEF Answering, Run
<1>2. a.kind = "ok" /\ run[t].what = "renew" => a.cookie # None /\ a.meta \in Meta
  BY <1>0, <1>1 DEF Answering, Answer
<1>3. ASSUME a.cookie # None
      PROVE  /\ a.cookie \in Cookie /\ Row(a.cookie.session) /\ Current(a.cookie)
             /\ sessions[a.cookie.session].over # "left"
             /\ a.kind = "ok" /\ run[t].what # "signout"
             /\ jar # None => Newer(a.cookie, jar)
  <2>1. a.cookie \in Cookie  BY <1>1, <1>3 DEF Answer
  <2>2. Row(a.cookie.session)  BY <1>0, <1>1, <1>3 DEF Listed
  <2>3. /\ a.kind = "ok" /\ run[t].what # "signout"
        /\ Current(a.cookie) /\ sessions[a.cookie.session].over # "left"
        /\ run[t].what = "renew" =>
             a.cookie.session = run[t].cookie.session /\ a.cookie.turn = run[t].cookie.turn + 1
        /\ run[t].what = "signin" /\ jar # None => a.cookie.session > jar.session
    BY <1>0, <1>3 DEF Carrying, Carried
  <2>4. run[t].what \in {"renew", "signin"}
    <3>1. run[t].what \in Calls  BY <1>0 DEF Run
    <3> QED  BY <2>3, <3>1 DEF Calls, Forms
  <2>5. ASSUME jar # None  PROVE Newer(a.cookie, jar)
    <3>1. jar.turn \in Nat  BY <1>0, <2>5 DEF Cookie
    <3>2. CASE run[t].what = "renew"
      <4>1. Holds(run[t].cookie)  BY <1>0, <3>2 DEF Asking
      <4> QED  BY <2>3, <3>1, <3>2, <4>1 DEF Holds, Newer
    <3>3. CASE run[t].what = "signin"  BY <2>3, <2>5, <3>3 DEF Newer
    <3> QED  BY <2>4, <3>2, <3>3
  <2> QED  BY <2>1, <2>2, <2>3, <2>5
<1> QED  BY <1>1, <1>2, <1>3

LEMMA DeliverRenewalKeeps == ASSUME Inv, NEW t \in Tabs, DeliverRenewal(t)  PROVE Inv'
<1> PICK a : a = run[t].answer  OBVIOUS
<1>0. /\ TypeOK /\ Listed /\ JarStands /\ run \in [Tabs -> Run] /\ tab \in [Tabs -> Page]
      /\ seen \in [Tabs -> Observation] /\ jar \in Cookie \cup {None}
      /\ clock \in Nat /\ Watched(t) /\ Asking(t)
  BY InvFacts DEF Call
<1>1. /\ run[t].step = "answered" /\ run[t].what = "renew"
      /\ UNCHANGED <<clock, sessions, seen, queue, stray>>
  BY DEF DeliverRenewal
<1>2. /\ a \in Answer /\ a # None
      /\ a.cookie # None =>
           /\ a.cookie \in Cookie /\ Row(a.cookie.session) /\ Current(a.cookie)
           /\ sessions[a.cookie.session].over # "left" /\ a.kind = "ok"
      /\ a.kind = "ok" => a.cookie # None /\ a.meta \in Meta
  BY <1>1, Brought
<1>3. /\ jar' = IF a.kind = "ok" THEN a.cookie ELSE jar
      /\ \/ Check(t) /\ UNCHANGED tab
         \/ Leave(t) /\ \E p \in Page : Watchful(p) /\ Tell(t, p)
  <2>0. tab[t] \in Page /\ run[t].meta \in Meta
    BY <1>0, <1>1, NoneAssumption DEF Asking, Run
  <2>1. CASE a.kind = "ok"
    <3>1. /\ jar' = a.cookie
          /\ \/ Tell(t, Scheduled(tab[t], a.meta)) /\ Leave(t)
             \/ Check(t) /\ UNCHANGED tab
      BY <2>1 DEF DeliverRenewal
    <3>2. Scheduled(tab[t], a.meta) \in Page /\ Watchful(Scheduled(tab[t], a.meta))
      BY <1>2, <2>0, <2>1, ShownTyped
    <3> QED  BY <2>1, <3>1, <3>2
  <2>2. CASE a.kind # "ok"
    <3>1. /\ jar' = jar
          /\ \/ UNCHANGED tab /\ Check(t)
             \/ Tell(t, LoginRequired(tab[t])) /\ Leave(t)
             \/ Tell(t, Scheduled(tab[t], run[t].meta)) /\ Leave(t)
             \/ Tell(t, Failed(tab[t])) /\ Leave(t)
      BY <2>2 DEF DeliverRenewal
    <3> QED  BY <2>0, <2>2, <3>1, ShownTyped
  <2> QED  BY <2>1, <2>2
<1>4. jar' \in Cookie \cup {None} /\ (jar' # None => Row(jar.session)')
  BY <1>0, <1>1, <1>2, <1>3 DEF Listed, Row
<1>5. JarStands'
  <2>1. CASE a.kind = "ok"
    <3>1. jar' = a.cookie /\ sessions' = sessions  BY <1>1, <1>3, <2>1
    <3> QED  BY <1>2, <2>1, <3>1 DEF JarStands, Current
  <2>2. CASE a.kind # "ok"
    <3>1. \A u \in Tabs : ~Carried(u)  BY <1>1, <1>2, <2>2, OnlyCarrier DEF Carried
    <3>2. jar' = jar /\ sessions' = sessions  BY <1>1, <1>3, <2>2
    <3> QED  BY <1>0, <3>1, <3>2 DEF JarStands, Current, InFlight
  <2> QED  BY <2>1, <2>2
<1>6. /\ stray' \subseteq Credential /\ (\A c \in stray' : Row(c.session)')
      /\ sessions' \in Seq(Session) /\ Len(sessions') <= MaxSessions /\ \A n : Row(n) => Row(n)'
  BY <1>0, <1>1 DEF TypeOK, Listed, Row
<1>7. CASE Check(t) /\ UNCHANGED tab
  <2>1. PICK r \in Run :
          /\ run' = [run EXCEPT ![t] = r] /\ r.step = "checking"
          /\ r.what = run[t].what /\ r.answer = None
          /\ r.cookie # None => jar' # None /\ r.cookie.session = jar'.session
    BY <1>1, <1>4, <1>7, Validating
  <2>2. Call(t)'  BY <1>1, <1>4, <1>7, Validating
  <2>3. r.cookie # None => Row(r.cookie.session)'  BY <1>4, <2>1 DEF Row
  <2>4. run'[t] = r  BY <1>0, <2>1
  <2>5. Watched(t)'  BY <1>1, <2>1, <2>4 DEF Watched, Inside
  <2>6. tab' = [tab EXCEPT ![t] = tab[t]] /\ tab[t] \in Page  BY <1>0, <1>7
  <2>7. seen' = [seen EXCEPT ![t] = seen[t]] /\ seen[t] \in Observation  BY <1>0, <1>1
  <2> PICK o \in Observation : o = seen[t]  BY <2>7
  <2> PICK p \in Page : p = tab[t]  BY <2>6
  <2>8. o.cookie # None => Row(o.cookie.session)'  BY <1>0, <1>6 DEF Listed
  <2> QED  BY <1>1, <1>4, <1>5, <1>6, <2>1, <2>2, <2>3, <2>5, <2>6, <2>7, <2>8, MoveKeeps
<1>8. CASE Leave(t) /\ \E p \in Page : Watchful(p) /\ Tell(t, p)
  <2>1. run'[t].step = "none"  BY <1>8, OutsideCall DEF Outside
  <2>2. Watched(t)' /\ \E q \in Page : tab' = [tab EXCEPT ![t] = q]
    BY <1>1, <1>8, <2>1, Telling
  <2> QED  BY <1>1, <1>4, <1>5, <1>6, <1>8, <2>2, LeaveKeeps
<1> QED  BY <1>3, <1>7, <1>8

LEMMA DeliverFormKeeps == ASSUME Inv, NEW t \in Tabs, DeliverForm(t)  PROVE Inv'
<1> PICK a : a = run[t].answer  OBVIOUS
<1> DEFINE n == run[t].cookie.session
<1>0. /\ TypeOK /\ Listed /\ JarStands /\ run \in [Tabs -> Run] /\ tab \in [Tabs -> Page]
      /\ jar \in Cookie \cup {None} /\ clock \in Nat /\ Asking(t)
  BY InvFacts DEF Call
<1>1. /\ run[t].step = "answered" /\ run[t].what \in Forms
      /\ Leave(t) /\ seen' = [seen EXCEPT ![t] = Observing(jar')]
      /\ jar' = IF a.kind = "ok" THEN a.cookie ELSE jar
      /\ UNCHANGED <<clock, tab, queue, stray>>
  BY DEF DeliverForm, Resume
<1>2. /\ a \in Answer /\ a # None
      /\ a.cookie # None =>
           /\ a.cookie \in Cookie /\ Row(a.cookie.session) /\ Current(a.cookie)
           /\ sessions[a.cookie.session].over # "left" /\ a.kind = "ok"
           /\ run[t].what # "signout"
  BY <1>1, Brought
<1>s. sessions \in Seq(Session) /\ Len(sessions) <= MaxSessions  BY <1>0 DEF TypeOK
<1>3. CASE run[t].what = "signout" /\ a.kind = "ok"
  <2>1. sessions' = [sessions EXCEPT ![n].over = "left"]  BY <1>3 DEF DeliverForm
  <2>2. n \in DOMAIN sessions /\ sessions[n] \in Session
    <3>1. Row(n)  BY <1>0, <1>1, <1>3 DEF Asking, Listed
    <3> QED  BY <1>0, <3>1, RowTyped DEF Row
  <2> PICK m, s : m = n /\ s = [sessions[m] EXCEPT !.over = "left"]  OBVIOUS
  <2>3. s \in Session  BY <2>2 DEF Session
  <2>4. sessions' = [sessions EXCEPT ![m] = s]  BY <2>1
  <2>5. /\ sessions' \in Seq(Session) /\ Len(sessions') = Len(sessions)
        /\ DOMAIN sessions' = DOMAIN sessions
    BY <1>s, <2>2, <2>3, <2>4, PutRow
  <2>6. jar' = None  BY <1>1, <1>2, <1>3
  <2>7. \A k : Row(k) => Row(k)'  BY <2>5 DEF Row
  <2>8. JarStands'  BY <2>6 DEF JarStands
  <2>9. stray' \subseteq Credential /\ \A c \in stray' : Row(c.session)'
    BY <1>0, <1>1, <2>7 DEF TypeOK, Listed
  <2>10. tab' = [tab EXCEPT ![t] = tab[t]] /\ tab[t] \in Page  BY <1>0, <1>1
  <2>11. seen' = seen => Watched(t)'
    <3>1. seen'[t].step # "none"  BY <1>1, InvFacts DEF Observing
    <3> QED  BY <3>1 DEF Watched
  <2>12. Len(sessions') <= MaxSessions  BY <1>s, <2>5
  <2> QED  BY <1>1, <2>5, <2>6, <2>7, <2>8, <2>9, <2>10, <2>11, <2>12, LeaveKeeps
<1>4. CASE ~(run[t].what = "signout" /\ a.kind = "ok")
  <2>1. sessions' = sessions  BY <1>4 DEF DeliverForm
  <2>2. jar' \in Cookie \cup {None} /\ (jar' # None => Row(jar.session)')
    BY <1>0, <1>1, <1>2, <2>1 DEF Listed, Row, Answer
  <2>3. JarStands'
    <3>1. CASE a.kind = "ok"  BY <1>1, <1>2, <2>1, <3>1 DEF JarStands, Current
    <3>2. CASE a.kind # "ok"
      <4>1. \A u \in Tabs : ~Carried(u)  BY <1>1, <1>2, <3>2, OnlyCarrier DEF Carried
      <4>2. jar' = jar  BY <1>1, <3>2
      <4> QED  BY <1>0, <2>1, <4>1, <4>2 DEF JarStands, Current, InFlight
    <3> QED  BY <3>1, <3>2
  <2>4. /\ stray' \subseteq Credential /\ (\A c \in stray' : Row(c.session)')
        /\ sessions' \in Seq(Session) /\ Len(sessions') <= MaxSessions /\ \A k : Row(k) => Row(k)'
    BY <1>0, <1>1, <1>s, <2>1 DEF TypeOK, Listed, Row
  <2>5. tab' = [tab EXCEPT ![t] = tab[t]] /\ tab[t] \in Page  BY <1>0, <1>1
  <2>6. seen' = seen => Watched(t)'
    <3>1. seen'[t].step # "none"  BY <1>1, InvFacts DEF Observing
    <3> QED  BY <3>1 DEF Watched
  <2> QED  BY <1>1, <2>2, <2>3, <2>4, <2>5, <2>6, LeaveKeeps
<1> QED  BY <1>3, <1>4

(* Whatever page t had under way is given up: a credential that was on its *)
(* way is marked as lost, and nothing else happens to a row.               *)
LEMMA GivingUp ==
  ASSUME Inv, NEW t \in Tabs, GiveUp(t), UNCHANGED <<clock, jar>>
  PROVE  /\ Passes /\ sessions' \in Seq(Session) /\ Len(sessions') <= MaxSessions
         /\ \A n : Row(n) => Row(n)'
         /\ stray' \subseteq Credential /\ \A c \in stray' : Row(c.session)'
         /\ Carried(t) /\ run[t].answer.cookie.session = jar.session =>
              sessions'[jar.session].lost
<1> PICK a : a = run[t].answer  OBVIOUS
<1>0. /\ TypeOK /\ Listed /\ run \in [Tabs -> Run] /\ clock \in Nat /\ Asking(t) /\ Answering(t)
  BY InvFacts DEF Call
<1>1. sessions' = Dropping(sessions, a)  BY DEF GiveUp
<1>2. a \in Answer \cup {None} /\ (a # None /\ a.cookie # None => Row(a.cookie.session))
  BY <1>0 DEF Run, Listed
<1>3. Ages(sessions') /\ (a # None /\ a.cookie # None => sessions'[a.cookie.session].lost)
  BY <1>0, <1>1, <1>2, DroppedAges
<1>4. Passes  BY <1>0, <1>3 DEF Passes
<1>5. \A n : Row(n) => Row(n)'  BY <1>0, <1>4, RowsStay
<1>6. stray' \subseteq Credential /\ \A c \in stray' : Row(c.session)
  <2>1. stray \subseteq Credential /\ \A c \in stray : Row(c.session)
    BY <1>0 DEF TypeOK, Listed
  <2>2. CASE stray' = stray  BY <2>1, <2>2
  <2>3. CASE /\ run[t].step = "sent" /\ run[t].what = "renew"
             /\ stray' = stray \cup {run[t].cookie}
    <3>1. run[t].cookie # None /\ run[t].cookie \in Credential  BY <1>0, <2>3 DEF Asking, Run
    <3>2. Row(run[t].cookie.session)  BY <1>0, <3>1 DEF Listed
    <3> QED  BY <2>1, <2>3, <3>1, <3>2
  <2> QED  BY <2>2, <2>3 DEF GiveUp
<1>7. Carried(t) => a # None /\ a.cookie # None  BY <1>0 DEF Carried, Answering
<1> QED  BY <1>3, <1>4, <1>5, <1>6, <1>7 DEF Ages

LEMMA LoseKeeps == ASSUME Inv, NEW t \in Tabs, Lose(t)  PROVE Inv'
<1>0. /\ TypeOK /\ Listed /\ JarStands /\ run \in [Tabs -> Run] /\ tab \in [Tabs -> Page]
      /\ seen \in [Tabs -> Observation] /\ jar \in Cookie \cup {None} /\ Watched(t)
  BY InvFacts
<1>1. /\ run[t].step \in {"sent", "answered"} /\ GiveUp(t)
      /\ UNCHANGED <<clock, jar, tab, queue>>
  BY DEF Lose
<1>2. /\ Passes /\ sessions' \in Seq(Session) /\ Len(sessions') <= MaxSessions
      /\ \A n : Row(n) => Row(n)'
      /\ stray' \subseteq Credential /\ \A c \in stray' : Row(c.session)'
      /\ Carried(t) /\ run[t].answer.cookie.session = jar.session =>
           sessions'[jar.session].lost
  BY <1>1, GivingUp
<1>3. JarStands'  BY <1>0, <1>1, <1>2, OnlyCarrier, JarStays
<1>4. jar' \in Cookie \cup {None} /\ (jar' # None => Row(jar.session)')
  BY <1>0, <1>1, <1>2 DEF Listed, Row
<1>5. tab' = [tab EXCEPT ![t] = tab[t]] /\ tab[t] \in Page  BY <1>0, <1>1
<1>6. CASE Leave(t) /\ seen' = [seen EXCEPT ![t] = Observing(jar')]
  <2>1. seen'[t].step # "none"  BY <1>0, <1>6 DEF Observing
  <2>2. Watched(t)'  BY <2>1 DEF Watched
  <2> QED  BY <1>1, <1>2, <1>3, <1>4, <1>5, <1>6, <2>2, LeaveKeeps
<1>7. CASE Check(t) /\ UNCHANGED seen
  <2>1. PICK r \in Run :
          /\ run' = [run EXCEPT ![t] = r] /\ r.step = "checking"
          /\ r.what = run[t].what /\ r.answer = None
          /\ r.cookie # None => jar' # None /\ r.cookie.session = jar'.session
    BY <1>1, <1>4, <1>7, Validating
  <2>2. Call(t)'  BY <1>1, <1>4, <1>7, Validating
  <2>3. r.cookie # None => Row(r.cookie.session)'  BY <1>4, <2>1 DEF Row
  <2>4. run'[t] = r  BY <1>0, <2>1
  <2>5. Watched(t)'  BY <1>0, <1>1, <1>7, <2>1, <2>4, SameQueue, WatchStays
  <2> PICK o \in Observation : o = seen[t]  BY <1>0
  <2> PICK p \in Page : p = tab[t]  BY <1>5
  <2>6. tab' = [tab EXCEPT ![t] = p] /\ seen' = [seen EXCEPT ![t] = o]  BY <1>0, <1>1, <1>7
  <2>7. o.cookie # None => Row(o.cookie.session)'  BY <1>0, <1>2 DEF Listed
  <2> QED  BY <1>1, <1>2, <1>3, <1>4, <2>1, <2>2, <2>3, <2>5, <2>6, <2>7, MoveKeeps
<1>8. \/ Leave(t) /\ seen' = [seen EXCEPT ![t] = Observing(jar)]
      \/ Check(t) /\ UNCHANGED seen
  BY DEF Lose, Resume
<1> QED  BY <1>1, <1>6, <1>7, <1>8

LEMMA ConcludeKeeps == ASSUME Inv, NEW t \in Tabs, Conclude(t)  PROVE Inv'
<1>0. /\ TypeOK /\ Listed /\ JarStands /\ run \in [Tabs -> Run] /\ tab \in [Tabs -> Page]
      /\ seen \in [Tabs -> Observation] /\ jar \in Cookie \cup {None} /\ clock \in Nat
  BY InvFacts
<1>1. /\ run[t].step = "checking" /\ Leave(t) /\ UNCHANGED <<clock, sessions, jar, queue, stray>>
  BY DEF Conclude
<1>2. /\ stray' \subseteq Credential /\ (\A c \in stray' : Row(c.session)')
      /\ sessions' \in Seq(Session) /\ Len(sessions') <= MaxSessions /\ \A n : Row(n) => Row(n)'
  BY <1>0, <1>1 DEF TypeOK, Listed, Row
<1>3. JarStands'
  <2>1. Passes  BY <1>0, <1>1, SessionsTyped DEF Passes
  <2> QED  BY <1>0, <1>1, <2>1, NothingCarried, JarStays
<1>4. jar' \in Cookie \cup {None} /\ (jar' # None => Row(jar.session)')
  BY <1>0, <1>1 DEF Listed, Row
<1>5. ASSUME seen' = [seen EXCEPT ![t] = Observing(jar)],
             NEW a \in StateAnswers(run[t].cookie), tab' = [tab EXCEPT ![t] = Put(tab[t], a)]
      PROVE  Inv'
  <2>1. run[t].cookie # None => Row(run[t].cookie.session)  BY <1>0 DEF Listed
  <2>2. a \in Answer /\ a.kind \in {"ok", "ended", "failed"}
    BY <1>0, <2>1, StateAnswersTyped
  <2> PICK p : p = Put(tab[t], a)  OBVIOUS
  <2>3. p \in Page /\ tab' = [tab EXCEPT ![t] = p]  BY <1>0, <1>5, <2>2, PutTyped
  <2>4. seen'[t].step # "none"  BY <1>0, <1>5 DEF Observing
  <2>5. Watched(t)'  BY <2>4 DEF Watched
  <2> QED  BY <1>1, <1>2, <1>3, <1>4, <1>5, <2>3, <2>5, LeaveKeeps
<1>6. ASSUME run[t].what = "renew", UNCHANGED seen,
             NEW a \in StateAnswers(run[t].cookie), Tell(t, Learned(tab[t], a))
      PROVE  Inv'
  <2>1. run[t].cookie # None => Row(run[t].cookie.session)  BY <1>0 DEF Listed
  <2>2. a \in Answer /\ a.kind \in {"ok", "ended", "failed"} /\ (a.kind = "ok" => a.meta # None)
    BY <1>0, <2>1, StateAnswersTyped
  <2> PICK p : p = Learned(tab[t], a)  OBVIOUS
  <2>3. p \in Page /\ Watchful(p)  BY <1>0, <2>2, LearnedTyped
  <2>4. run'[t].step = "none"  BY <1>1, OutsideCall DEF Outside
  <2>5. Watched(t)' /\ \E q \in Page : tab' = [tab EXCEPT ![t] = q]
    BY <1>1, <1>6, <2>3, <2>4, Telling
  <2> QED  BY <1>1, <1>2, <1>3, <1>4, <1>6, <2>5, LeaveKeeps
<1> QED  BY <1>5, <1>6 DEF Conclude, Resume

LEMMA CloseKeeps == ASSUME Inv, NEW t \in Tabs, Close(t)  PROVE Inv'
<1>0. /\ TypeOK /\ Listed /\ Queued /\ Alone /\ JarStands /\ run \in [Tabs -> Run]
      /\ tab \in [Tabs -> Page] /\ seen \in [Tabs -> Observation]
      /\ jar \in Cookie \cup {None} /\ \A u \in Tabs : Watched(u) /\ Call(u)
  BY InvFacts
<1>1. /\ tab' = [tab EXCEPT ![t] = Closed] /\ seen' = [seen EXCEPT ![t] = Nothing]
      /\ queue' = Remaining(t) /\ run' = [run EXCEPT ![t] = Outside]
      /\ GiveUp(t) /\ UNCHANGED <<clock, jar>>
  BY DEF Close, Leave
<1>2. /\ Passes /\ sessions' \in Seq(Session) /\ Len(sessions') <= MaxSessions
      /\ \A n : Row(n) => Row(n)'
      /\ stray' \subseteq Credential /\ \A c \in stray' : Row(c.session)'
      /\ Carried(t) /\ run[t].answer.cookie.session = jar.session =>
           sessions'[jar.session].lost
  BY <1>1, GivingUp
<1>3. /\ queue' \in Seq(Waiter) /\ Len(queue') <= MaxQueue /\ Queued'
      /\ \A W : \A u \in Tabs : u # t => (Waits(u, W) <=> Waits(u, W)')
  BY <1>0, <1>1, Leaving
<1>4. /\ run'[t] = Outside /\ tab'[t] = Closed /\ seen'[t] = Nothing
      /\ \A u \in Tabs : u # t => run'[u] = run[u] /\ tab'[u] = tab[u] /\ seen'[u] = seen[u]
  BY <1>0, <1>1
<1>5. TypeOK'
  <2>1. run' \in [Tabs -> Run] /\ tab' \in [Tabs -> Page] /\ seen' \in [Tabs -> Observation]
    BY <1>0, <1>1, OutsideTyped
  <2> QED  BY <1>0, <1>1, <1>2, <1>3, <2>1 DEF TypeOK
<1>6. Listed'
  <2>1. \A u \in Tabs : seen'[u].cookie # None => Row(seen[u].cookie.session)'
    <3> TAKE u \in Tabs
    <3>1. CASE u = t  BY <1>4, <3>1 DEF Nothing
    <3>2. CASE u # t
      <4>1. seen[u].cookie # None => Row(seen[u].cookie.session)  BY <1>0 DEF Listed
      <4> PICK n : n = seen[u].cookie.session  OBVIOUS
      <4>2. seen[u].cookie # None => Row(n)'  BY <1>2, <4>1
      <4> QED  BY <1>4, <3>2, <4>2 DEF Row
    <3> QED  BY <3>1, <3>2
  <2>2. jar' # None => Row(jar.session)'  BY <1>0, <1>1, <1>2 DEF Listed, Row
  <2>3. Outside \in Run /\ Outside.cookie = None /\ Outside.answer = None
    BY OutsideTyped DEF Outside
  <2> QED  BY <1>0, <1>1, <1>2, <2>1, <2>2, <2>3, ListKeeps
<1>7. Locked'
  <2>1. Alone'  BY <1>0, <1>4 DEF Alone, Outside
  <2>2. JarStands'
    <3>1. \A u \in Tabs : Carried(u) /\ run[u].answer.cookie.session = jar.session =>
            run'[u] = run[u] \/ sessions'[jar.session].lost
      BY <1>2, <1>4
    <3> QED  BY <1>0, <1>1, <1>2, <3>1, JarStays
  <2>3. ASSUME NEW u \in Tabs  PROVE Call(u)'
    <3>1. CASE u = t  BY <1>1, <3>1, OutsideCall DEF Leave
    <3>2. CASE u # t  BY <1>0, <1>1, <1>2, <1>4, <3>2, CallStays
    <3> QED  BY <3>1, <3>2
  <2> QED  BY <2>1, <2>2, <2>3 DEF Locked
<1>8. ASSUME NEW u \in Tabs  PROVE Watched(u)'
  <2>1. CASE u = t  BY <1>4, <2>1 DEF Watched, Vouches, Closed
  <2>2. CASE u # t  BY <1>0, <1>3, <1>4, <2>2, WatchStays
  <2> QED  BY <2>1, <2>2
<1> QED  BY <1>3, <1>5, <1>6, <1>7, <1>8, WatchedAll DEF Inv

(* At the server rows age, and time passes.                                *)
LEMMA ServerKeeps ==
  ASSUME Inv, Passes, clock' \in 0..MaxTime, UNCHANGED <<jar, tab, seen, queue, run>>,
         stray' \subseteq stray
  PROVE  Inv'
<1>0. /\ TypeOK /\ Listed /\ Queued /\ Locked /\ \A u \in Tabs : Watched(u)
  BY InvFacts
<1>1. /\ sessions' \in Seq(Session) /\ Len(sessions') <= MaxSessions
      /\ \A n : Row(n) => Row(n)'
  BY <1>0, RowsStay DEF Passes, Ages
<1>2. TypeOK'  BY <1>0, <1>1 DEF TypeOK
<1>3. Listed'  BY <1>0, <1>1 DEF Listed, Row
<1>4. Locked'  BY <1>0, LockStays
<1>5. Queued'  BY <1>0, SameQueue
<1>6. \A u \in Tabs : Watched(u)'  BY <1>0, SameQueue, WatchStays
<1> QED  BY <1>2, <1>3, <1>4, <1>5, <1>6, WatchedAll DEF Inv

LEMMA ServeStrayKeeps == ASSUME Inv, ServeStray  PROVE Inv'
<1>0. TypeOK /\ Listed /\ clock \in Nat  BY InvFacts
<1>1. PICK c \in stray : /\ sessions' = Dropping(AfterRenew(c), RenewAnswer(c))
                         /\ stray' = stray \ {c}
  BY DEF ServeStray
<1>2. c \in Credential /\ Row(c.session)  BY <1>0 DEF TypeOK, Listed
<1>3. Ages(sessions')  BY <1>0, <1>1, <1>2, LostRenewalAges
<1>4. UNCHANGED <<clock, jar, tab, seen, queue, run>>  BY DEF ServeStray
<1>5. Passes /\ clock' \in 0..MaxTime  BY <1>0, <1>3, <1>4 DEF Passes, TypeOK
<1> QED  BY <1>1, <1>4, <1>5, ServerKeeps

LEMMA RevokeKeeps == ASSUME Inv, Revoke  PROVE Inv'
<1>0. TypeOK /\ clock \in Nat  BY InvFacts
<1>1. PICK n \in DOMAIN sessions : sessions' = [sessions EXCEPT ![n].over = "revoked"]
  BY DEF Revoke
<1>2. Ages(sessions')  BY <1>0, <1>1, RevokedAges DEF Row
<1>3. UNCHANGED <<clock, jar, tab, seen, queue, run, stray>>  BY DEF Revoke
<1>4. Passes /\ clock' \in 0..MaxTime  BY <1>0, <1>2, <1>3 DEF Passes, TypeOK
<1> QED  BY <1>3, <1>4, ServerKeeps

LEMMA TickKeeps == ASSUME Inv, Tick  PROVE Inv'
<1>0. TypeOK /\ clock \in Nat  BY InvFacts
<1>1. /\ clock' = clock + 1 /\ clock < MaxTime
      /\ UNCHANGED <<sessions, jar, tab, seen, queue, run, stray>>
  BY DEF Tick
<1>2. Passes /\ clock' \in 0..MaxTime
  BY <1>0, <1>1, SessionsTyped, BoundAssumption DEF Passes
<1> QED  BY <1>1, <1>2, ServerKeeps

LEMMA StutterKeeps == ASSUME Inv, UNCHANGED vars  PROVE Inv'
<1>0. TypeOK /\ clock \in Nat  BY InvFacts
<1>1. UNCHANGED <<clock, sessions, jar, tab, seen, queue, run, stray>>  BY DEF vars
<1>2. Passes /\ clock' \in 0..MaxTime  BY <1>0, <1>1, SessionsTyped DEF Passes, TypeOK
<1> QED  BY <1>1, <1>2, ServerKeeps

LEMMA InitInv == Init => Inv
<1> SUFFICES ASSUME Init  PROVE Inv
  OBVIOUS
<1>1. /\ clock = 0 /\ sessions = <<>> /\ jar = None /\ queue = <<>> /\ stray = {}
      /\ tab = [t \in Tabs |-> Closed] /\ seen = [t \in Tabs |-> Nothing]
      /\ run = [t \in Tabs |-> Outside]
  BY DEF Init
<1>2. TypeOK  BY <1>1, OutsideTyped, BoundAssumption DEF TypeOK
<1>3. Listed  BY <1>1 DEF Listed, Nothing, Outside
<1>4. Queued  BY <1>1 DEF Queued
<1>5. Alone /\ JarStands  BY <1>1 DEF Alone, JarStands, Outside
<1>6. ASSUME NEW t \in Tabs  PROVE Call(t)
  BY <1>1 DEF Call, Asking, Answering, Carrying, Carried, Checking, Outside
<1>7. AlwaysWatched  BY <1>1 DEF AlwaysWatched, Vouches, Closed
<1> QED  BY <1>2, <1>3, <1>4, <1>5, <1>6, <1>7 DEF Inv, Locked

LEMMA NextInv == Inv /\ [Next]_vars => Inv'
<1> SUFFICES ASSUME Inv, [Next]_vars  PROVE Inv'
  OBVIOUS
<1>1. ASSUME NEW t \in Tabs,
             \/ Open(t) \/ Hide(t) \/ Show(t) \/ Close(t) \/ Observe(t)
             \/ Fire(t) \/ Submit(t) \/ EnterRenew(t) \/ EnterForm(t)
      PROVE  Inv'
  BY <1>1, OpenKeeps, HideKeeps, ShowKeeps, CloseKeeps, ObserveKeeps, FireKeeps, SubmitKeeps,
     EnterRenewKeeps, EnterFormKeeps
<1>2. ASSUME NEW t \in Tabs,
             Serve(t) \/ DeliverRenewal(t) \/ DeliverForm(t) \/ Lose(t) \/ Conclude(t)
      PROVE  Inv'
  BY <1>2, ServeKeeps, DeliverRenewalKeeps, DeliverFormKeeps, LoseKeeps, ConcludeKeeps
<1>3. CASE ServeStray \/ Revoke \/ Tick \/ UNCHANGED vars
  BY <1>3, ServeStrayKeeps, RevokeKeeps, TickKeeps, StutterKeeps
<1> QED  BY <1>1, <1>2, <1>3 DEF Next

LEMMA InvAlways == Spec => []Inv
<1> QED  BY InitInv, NextInv, PTL DEF Spec

-----------------------------------------------------------------------------
(* What follows.                                                           *)

(* Every variable keeps its type: a call is answered or not, the queue and *)
(* the rows stay within their bounds.                                      *)
THEOREM BrowserTyped == Spec => []TypeOK
<1>1. Inv => TypeOK  BY DEF Inv
<1> QED  BY <1>1, InvAlways, PTL

(* A page that shows an active session never loses sight of it (maintain,  *)
(* observe, visible), with any number of pages that come and go.           *)
THEOREM WatchedAlways == Spec => []AlwaysWatched
<1>1. Inv => AlwaysWatched  BY DEF Inv
<1> QED  BY <1>1, InvAlways, PTL

(* Renewing sends the user to the login form only because the session of a *)
(* cookie is over or its credential was lost, whatever other pages did.    *)
THEOREM LoginForCause == Spec => []SentToLoginForCause
<1>1. Inv => SentToLoginForCause
  <2> SUFFICES ASSUME Inv, NEW t \in Tabs, SentToLogin(t)
               PROVE  Worthless(IF run[t].cookie = None THEN jar ELSE run[t].cookie)
    BY DEF SentToLoginForCause
  <2>0. /\ TypeOK /\ Listed /\ JarStands /\ jar \in Cookie \cup {None} /\ clock \in Nat
        /\ Asking(t) /\ Answering(t) /\ Checking(t)
    BY InvFacts DEF Call
  <2>1. CASE run[t].step = "answered" /\ run[t].answer.kind = "ended"
    <3>1. run[t].what = "renew" /\ Worthless(run[t].cookie)  BY <2>0, <2>1 DEF Answering
    <3>2. run[t].cookie # None  BY <2>0, <2>1, <3>1 DEF Asking
    <3> QED  BY <3>1, <3>2
  <2>2. CASE /\ run[t].step = "checking" /\ run[t].what = "renew"
             /\ Standing(run[t].cookie) # "live"
    <3>1. jar # None => Current(jar)
      BY <2>0, <2>2, NothingCarried DEF JarStands, InFlight
    <3>2. CASE run[t].cookie = None
      <4>1. jar = None \/ jar.until <= clock  BY <2>0, <2>2, <3>2 DEF Checking
      <4> QED  BY <3>1, <3>2, <4>1 DEF Worthless, Current
    <3>3. CASE run[t].cookie # None
      <4>1. Holds(run[t].cookie)  BY <2>0, <2>2, <3>3 DEF Checking
      <4>2. Worthless(run[t].cookie) \/ sessions[run[t].cookie.session].turn # run[t].cookie.turn
        BY <2>2, <3>3, StandingCases
      <4> QED  BY <3>1, <3>3, <4>1, <4>2 DEF Worthless, Current, Holds
    <3> QED  BY <3>2, <3>3
  <2> QED  BY <2>1, <2>2 DEF SentToLogin
<1> QED  BY <1>1, InvAlways, PTL

(* Only an answer replaces the cookie, by a newer credential, and by none  *)
(* of a session that the user has left.                                    *)
THEOREM CookieMoves == Spec => CookieMovesOn
<1> DEFINE Moves == /\ jar # None /\ jar' # None => Newer(jar', jar)
                    /\ jar' # None => sessions[jar'.session].over # "left"
<1>1. ASSUME Inv, [Next]_vars  PROVE [Moves]_jar
  <2> SUFFICES ASSUME jar' # jar  PROVE Moves
    OBVIOUS
  <2>1. PICK t \in Tabs : DeliverRenewal(t) \/ DeliverForm(t)
    BY <1>1 DEF Next, vars, Open, Hide, Show, Close, Observe, Fire, Submit, EnterRenew,
                EnterForm, Serve, Lose, Conclude, ServeStray, Revoke, Tick
  <2>2. run[t].step = "answered" /\ jar' = run[t].answer.cookie
    <3>1. CASE DeliverRenewal(t)  BY <3>1 DEF DeliverRenewal
    <3>2. CASE DeliverForm(t)  BY <3>2 DEF DeliverForm
    <3> QED  BY <2>1, <3>1, <3>2
  <2> QED  BY <1>1, <2>2, Brought
<1> QED  BY <1>1, InvAlways, PTL DEF Spec, CookieMovesOn

=============================================================================
