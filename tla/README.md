# Verification of the Lenso auth plugins

TLA+ models of the stateful parts of this repository, the TLC runs that check
them on small instances, and TLAPS proofs for every value of their constants.
Paths below are relative to the repository root, and `account/`, `password/`,
`agent-connection/` ... stand for `crates/lenso-auth-account-plugin/` and so on.

    tlc -workers 2 -config Renewal.cfg MCAccountSessions.tla     # one run
    tlapm BrowserSessionProofs.tla                               # one proof module

## 1. The system

The plugins run in one host process. Each exposes capabilities (typed request
handlers) and calls the capabilities of others. Handlers are asynchronous: they
may be interleaved at every `await`, and dropped there when the caller goes away
or the host stops. Durable state is in PostgreSQL (or in D1 on Workers), a schema
per plugin; the rest is in memory and dies with the process.

| part | state | operations | calls |
|---|---|---|---|
| **Account** (`account/src`) | subjects, bindings of external identities, sessions, their managed metadata, rotation history and delegations | ensure_identity, issue, issue_managed, renew, authenticate, revoke, revoke_credential, set_subject_status, disable_subject, grant, inspect, list, attenuate | signs assertions |
| scoped delegation (`account/src/delegation`) | receipts of scoped grants | grant_scoped | Account tables |
| **operator bindings** (`account/src/operator_binding.rs`, `.../storage/operator_binding.rs`) | one row per source subject: status, revision, intent, receipts | prepare_bootstrap, prepare_activation, activate_binding, revoke, prepare_recovery, complete_revocation, session_admitted | source Account |
| **Password** | credentials, login failures; hashing permits in memory | register, login | directory, issuer or managed sessions of Account |
| **Phone** | OTP challenges, phone identities | start_otp, verify_otp, set_password, login by password | SMS delivery, Account |
| **OAuth flow** | one-time flows | create, consume, revoke | |
| **Federated, OIDC client** | none of their own | start, complete | OAuth flow, provider, Account |
| **OIDC provider** | authorization codes | authorize, exchange | Account |
| **Web session** | browser cookies | start, callback, logout | Federated or OIDC client, Account |
| **Session renewal** (`lenso-auth-session-renewal-plugin`) | browser cookies | state, renew, and `browser/session-renewal.mjs` | managed sessions of Account |
| **Password Web Session** (`adapters/password-web-session`) | browser cookies, timers of a page | login, logout, and `browser/main.ts` | Password, Account |
| **Agent connection** | a table of attempts in memory | begin, authorize, approve, poll | auth and delegation of Account |
| **Operator session** | none of its own | bootstrap, resume, exchange, revoke, recover | operator bindings, Access Control, Audit, source Account |
| **API tokens, human API tokens** | tokens, idempotency receipts | issue, revoke, authenticate, attenuate, list | Account, Access Control |
| Devices | trusted and primary devices | set_device_trust, list | |
| Profile cache | a bounded map in memory | get, put | |
| profile, anonymous, router, account admin tools, SDK, contracts, console, other adapters, Workers bridges | none | translate one call into another | |

What each must guarantee, and what makes it hard:

* **Account.** One subject per external identity, although two first logins may
  insert at once. One holder per credential: each is exchanged at most once, and
  a spent one still names its session, so that logout works and a browser can tell
  "stale" (retry) from "invalid" (log in again). A managed session stays inside
  the envelope it was issued in, under whatever policies it is renewed. Disabling
  a subject ends all of its sessions, also those being issued or delegated.
  A delegation is no better than its parent. Every handler but the administrative
  ones reads, decides and writes in several statements, and another handler, the
  clock, or a restart under a different configuration comes in between.
* **Password.** At most `max_failures` in the window of an identifier, although
  every concurrent login passes the first check; a lockout that ends; failures
  forgotten only when stale; permits that come back when callers go away.
* **Agent connection.** One grant per attempt, to the user who saw the page, for
  the agent that began it; a grant that was made can be collected.
* **Federated login, OIDC.** A flow and a code that two requests use at once are
  handed out to one, before later calls that may fail; a browser with two tabs mixes
  up codes and states, and still logs in only as the person who authorized the flow;
  a session whose callback cannot be answered is revoked again.
* **Phone.** No more codes from one source than allowed, although concurrent starts
  count at once; a code worth one session.
* **Operator session.** A revocation that survives a failure between any two of its
  effects in three systems, and an activation that loses every race against it.
* **API tokens.** An idempotent issue under an advisory lock; permissions read one
  await at a time and the session inspected again before the token is made; a token
  that is revoked while it is being authenticated.
* **Browser.** Tabs that share a cookie and renew it, while a response that rotates
  it may be lost or arrive late; sign-in and sign-out of one tab against a renewal
  of another; a user who is sent to the login form only when there is a cause.

The hazards are listed line by line in `PROJECT.json`, with the property that
would catch each or the reason why none does yet.

## 2. Modules

| module | what it is |
|---|---|
| `AccountSessions` | the Account plugin over PostgreSQL |
| `CredentialChain` | abstract: what a holder of credentials may rely on |
| `AccountSessionsProofs` | proofs about `AccountSessions`: its tables, renewal and the refinement of `CredentialChain`, identities, assertions |
| `PasswordAuth`, `PasswordProofs` | the Password plugin, and proofs about it |
| `AgentConnection`, `AgentConnectionProofs` | the Agent Connection plugin, and proofs |
| `OperatorBinding`, `OperatorBindingProofs` | the operator session plugin and the binding row in the Account, and proofs |
| `BindingLifecycle` | abstract: what an operator binding promises to whoever reads it |
| `FederatedLogin`, `FederatedLoginProofs` | a login with a provider from end to end: web session endpoints, OIDC client, federated plugin, OAuth flow store, OIDC provider; and proofs |
| `OneShot` | abstract: what a flow and an authorization code promise |
| `PhoneOtp`, `PhoneOtpProofs` | one-time codes of the Phone plugin, and proofs |
| `ApiTokens`, `ApiTokensProofs` | both API token plugins, and proofs |
| `BrowserSession`, `BrowserSessionProofs` | the pages of a browser, the renewal helper, the endpoints they call and the managed sessions behind them; and proofs |
| `MC...` | instances for TLC: model values, policies, symmetry |

Definitions named `...Forgetting`, `...Overwriting`, `...Leaking` and the like,
each under a comment that begins with "Mutant", are not used by the specifications.
Each changes one definition the way a plausible bug would, and with it the property
that `PROJECT.json` names next to it is violated.

### AccountSessions

State. `subject` is `identity_subjects`; `binding` is `identity_bindings`;
`session` joins `auth_sessions`, `auth_managed_sessions` and
`auth_session_delegations` (`parent`); `rotation` is `auth_session_rotations`;
`issued` is the set of random tokens drawn so far; `policy` is the configuration
of the running deployment; `req` holds the handlers in progress, each with the step
it has reached and what it has read, and afterwards its answer.

Steps. An SQL transaction is one step. The transactions of `postgres.rs` and
`postgres_managed.rs` lock the subject row and then the session row before they
read, so they are serialisable among themselves. Between two statements or
transactions of a handler anything may happen:

| handler | steps |
|---|---|
| ensure_identity | `EnsureRead`, `EnsureInsert`, `EnsureReread` after a conflict |
| issue, issue_managed | `IssueCheck` / `IssueManagedCheck` (deadlines by the host clock), `IssueInsert` |
| renew | `RenewMetadata`, `RenewLoad`, `RenewClassify` or `RenewTransaction` (with `Rotate`) |
| authenticate | `AuthLoad`, `AuthClock`, `AuthMetadata`, `AuthPolicy` for a delegated or plain session |
| revoke | `RevokeRead`, `RevokeWrite` |
| revoke_credential, set_subject_status, disable_subject | `RevokeCredential`, `Activate` and `Disable`, `DisableSubject` |
| grant | `GrantCheck`, `GrantInsert` |

`Restart` starts another deployment, perhaps with another policy or none, and
loses every handler in progress; that is also how a failed statement, a lost
connection or a caller that goes away shows, since nothing but its committed
transactions is left of a handler.

Abstractions. A credential is its digest. One clock serves the host and the
database. Claims, audiences, assurance and the session ceiling are data the
properties do not look at; operator bindings are absent (`session_admitted` and
`admit_issue` then admit everything). `IssueHorizon` bounds the model, not the
code: no session is asked for that would outlive the clock. The constraint
`expires_at > created_at` of the schema is in `IssueInsert` and `GrantVerdict` as
the answer `failed`. Of `revoked_at` only whether it is set is modelled (`revoked`).
Nothing in the code reads its value, and the value is `transaction_timestamp()`
(`account/src/storage/postgres.rs:178`, `:407`, `operator.rs:161`), the beginning of a
transaction that may wait for a row lock: it can lie before the stamp of an assertion
that was signed before the revocation was committed. What the models say of "after a
revocation" is therefore the order of commits and reads, never a comparison with that
date.

`CredentialChain` has three actions: open a session with an unused credential,
exchange the credential of a session that is not closed for an unused one, close
sessions. `Chain` maps `current` to the digest column, `spent` to the rotation
history, and `closed` to the sessions with `revoked_at`.

### PasswordAuth

`credential` and `failures` are the two tables, a row of the second being one
member of `Slots`; `permits` is the semaphore and `orphans` the jobs on the
blocking pool whose handler is gone (`Abandon`): `run_password_job` moves the permit
into the job, so it comes back only with `EndHash`, `EndVerify` or `EndOrphan`.
A login fixes its look-back (`Since`) when it begins, so that `PruneStale`, `Check`
and `Record` use an older window than the clock shows; a failure carries the time
its transaction began (`RecordBegin`), before it had the advisory lock (`Record`).
A hash is the password it was made from. The Account is external: `account` is the
status it has for the subject of an identifier, changed by `SetAccount`.
A failed statement is `Abandon`: what was committed before it stays.

### AgentConnection

`attempts` is the table in memory, each entry with its expiry, consent and state;
each method of `Attempts` prunes first and is one step. `Authorize` and `Consent`
are the two halves of the consent page, around the authentication of the user;
`Claim`, `MakeGrant` or `RefuseGrant`, and `Finish` are the approval, around the
delegation. `LoseAnswer` is a delegation that the Account committed and that fails for
its caller all the same, by a timeout or a lost answer: `approve` takes every failure
of the call for a refusal (`agent-connection/src/lib.rs:239`). `deadline`, `pages`,
`grants`, `told` and `lost` are history: what was begun, shown, granted, delivered, and
which attempts lost their approval or its answer. Requests that
are refused before they reach the table (origin, body, login) change nothing.

### OperatorBinding

`binding` is the row of the source subject in the Account; `access` is Access
Control: whether the management authority was bootstrapped, the operator role, its
permissions and its holder; `log` is Audit, the applied and revoked events in order;
`sessions` the revisions claimed by operator sessions; `config` the deployment. No
transaction spans the three systems. One SQL statement with the read that follows it
is a step, and so is each call of another plugin:

| operation | steps |
|---|---|
| bootstrap | `Bootstrap` (the window and the source are checked), `Prepare` (the row, perhaps after the window), `BootstrapScope`, then as resume |
| resume | `Resume`, `SnapshotRead`, `SnapshotMint` before each of the three `GrantRole` calls; `Check`, `AuditApplied`, `Check` again, `ActivateRead`, `ActivateWrite`, `ActivateReread`; where the activation is refused or its answer is no receipt, another snapshot and `Confirm` |
| revoke, recover | `Revoke` (the durable denial) or `Recover`, `RevokeRole`, `AuditRevoked`, `CompleteRevocation` |
| exchange | `Exchange`, `Permit`, `Claim`, `Admit`, `AdmitSource`, `Insert` |
| authenticate | `Authenticate`, `Admit`, `AdmitSource` |

A control assertion is minted for `ControlTtl`, but not beyond the bootstrap window,
and verified when it is used. A call that fails, an assertion of the source that
expires and a caller that goes away are `Abandon`. Left out: `bootstrap_not_before`,
the "requested" audit events, the expiry of source assertions, and the revision of
the policy, which makes `ActivateReread` nondeterministic. `BindingLifecycle` has
five actions: prepare, fix the plan, activate, deny, settle.

### FederatedLogin

`flow` is `oauth_flows`, `code` is `oidc_authorization_codes`, `session` the sessions
given to completed logins. Random values (state, verifier, challenge, nonce) are told
apart by the flow they belong to. A callback comes with any flow and any code there
is, which is what a browser with several tabs or a retried request can do. `LockFlow`
and `LockCode` are the `SELECT ... FOR UPDATE`, `UseFlow` and `UseCode` what happens
under the lock; in between the clock moves and other handlers run. When the client
hangs up (`HangUp`) the provider does not learn it and goes on. HTTP, the directory,
the issuer and the provider of the federated plugin are external. `OneShot` has
three actions over flows and codes alike: create, consume, revoke.

### PhoneOtp

A start takes the advisory locks of the phone and of the source (`LockPhone`,
`LockSource`), counts with the window it fixed before it had them (`Count`), inserts
and sends; a refused message deletes the challenge again. A verification locks the
row, compares and consumes it with the clock it read before (`Consume`), and then
ensures the identity and issues the session, each of which may fail. SMS, directory
and issuer are external. The password of a phone number is not modelled again.

### ApiTokens

`token` joins the two tables of a token, `issuance` is the receipt of a key. A person
issues to himself in `HumanIssue`, `MayIssue`, one `CheckPermission` per permission of
the ceiling, `Reinspect` and `MayStillIssue`; the token plugin then takes the advisory
lock of the key and looks the receipt up, commits, and answers. `current` and `late`
are history: whether the session changed since its second inspection, and whether the
token was ended when an authentication began. Access Control answers as it likes. The
bound of 365 days on a lifetime is not modelled, and the ceiling signed into the
assertion is implied by the current one, since ceilings are only narrowed.

### BrowserSession

`sessions` are the managed sessions in the order of their issue; a credential is
the session and the `turn` of its rotation. `jar` is the session cookie with its
Max-Age, shared by all tabs; the CSRF cookie is set and cleared with it and so not
separate. `tab` is what a page shows (its login form or its sign-out button, which stay
as they were when it says that the session cannot be checked: `down`) and the metadata
its timer waits for, `seen` an observation (GET state) under way, `queue` the waiters for the Web Lock
`lenso.identity-transition`, `run` the page inside it: the request was `sent`, is
`answered`, or the page is `checking` (`validateOnce`). `stray` are requests that a
page has given up and that may still reach the server. When a page closes, the waiters
of the other pages keep their order (`Remaining`).

| code | actions |
|---|---|
| `startSessionRenewal`: observe, schedule, visibility | `Open`, `Observe`, `Hide`, `Show`, `Close` |
| `maintain`, `renewOnce`, `attempt` | `Fire`, `EnterRenew`, `Serve`, `DeliverRenewal`, `Lose`, `Conclude` |
| login form, sign-out | `Submit`, `EnterForm`, `Serve`, `DeliverForm`, `Lose`, `Conclude` |
| state, renew, login, logout | `StateAnswers`; `RenewAnswer`, `AfterRenew`; `LoginAnswer`, `AfterLogin`; `AfterLogout` |

A response may be lost before or after its handler committed, or its body cut off;
a handler may fail before or after it calls the Account. What is left out: origin and
CSRF checks, clocks of browser and host that differ, delays shorter than a unit of the
clock. A GET is served and its answer applied in one step. The inner lock
`lenso:session-renewal` is only taken inside the outer one, so `renewOnce` never
answers "busy". An answer the page makes nothing of is "failed", whatever its status: a 5xx, or a
sign-out's 401 for a session the Account does not find
(`password-web-session/src/lib.rs:190`). A page in the back-forward cache is closed and opened again; the Console,
where a successful sign-in leads, is a page like the others. A sign-out that arrives
late is `Revoke`.

Three things seen on the way that no document contradicts. `observe` runs outside the
lock, so a page that is shown while another tab renews can be answered 409 and ask for
a sign-in until it is shown again. The login form's message after an unknown delivery
is at once replaced by that of the next observation. A renewal refused with 429 is retried after one second,
with the metadata that was refused.

## 3. Runs

| run | question | bounds |
|---|---|---|
| `renewal` | do renewal, authentication and revocation of a managed session keep the ledger, the envelope, single winners and correct answers, and refine `CredentialChain`? is there one subject per identity? | one session, 3 credentials (two rotations), 2 handlers, 2 subjects for one identity, 2 deployments of which one narrows the policy, clock 0..4 |
| `delegation` | do disabling, delegation and authentication keep to their bounds? | 3 sessions (parent, child, and a grandchild that must not be), 3 credentials, 1 handler next to the administrator, managed sessions on and off, clock 0..3 |
| `sessions_end` | does a managed session end? | 3 rotations, clock 0..5, no symmetry |
| `disable_subject` | does the operator's disable disable? (violated) | one subject |
| `sign_in` | failure window, sign-up race, permits; do lockouts and saturation end? | 1 identifier, 2 passwords, 2 handlers, limit 1, 2 rows, 1 permit, clock 0..3, window 1, no symmetry |
| `connect` | grants, pages and deliveries of attempts | 3 attempts for 2 places, 2 pages, 2 users, 2 grants, 2 handlers, lifetime 1, clock 0..2 |
| `operator` | activation, revocation, recovery and sessions of a binding; does the row refine `BindingLifecycle`? | 2 handlers, 2 operators, 2 deployments with different plans and windows, 3 audit events, assertions of 2, clock 0..3 |
| `login` | is every login one's own? do flows and codes refine `OneShot`? | 2 flows, 2 codes, 2 sessions, 2 people, 2 handlers, both providers, lifetimes 1, clock 0..1 |
| `phone` | limit on starts, single use | 2 phones, 2 sources, 2 challenges, 2 handlers, limits 1, lifetime, cooldown and window 1, clock 0..2 |
| `tokens` | one token per key, within the session, accepted while live | 1 key asked for with 2 intents, 1 token, 2 permissions, 2 handlers, clock 0..2 |
| `browser` | causes for a login form, watchfulness, what becomes of the cookie | 2 tabs, 2 sign-ins, 1 waiter besides the one inside, 1 late request, idle 2, absolute 3, interval 1, clock 0..2 |
| `sign_in_after_loss` | can one sign in after a lost renewal? (violated) | 1 tab, 1 session |

Why this is enough to be of use: each hazard is a race between two handlers, or a
handler and the clock or the administrator, over one row or one parent and its
child. Two handlers reach every pair of steps; three sessions are the least in which
a nested delegation could be seen; clocks run past every deadline that can be set;
two policies are the least in which one narrows the other; two flows and two people
the least that can be mixed up; one key and two intents the least that can conflict.
In the browser one waiter and one page inside the lock are two tabs that compete, and
a clock of 2 passes the renewal time, the idle deadline, and the deadline of a tab
that missed a renewal. Interleavings of more actors are left to the proofs, which
have no bounds.

Symmetry. Sessions, digests, subjects, requests, rows, nonces and grants are
interchangeable: the only `CHOOSE` over them picks the holder of a digest, which
`CredentialLedger` shows to be unique, or the one session with a current digest.
The runs with liveness properties use no symmetry. `Browser.cfg` also has a VIEW: of
a session that is over only why it is over matters, as no endpoint looks further;
a failure a page has shown (`PageInUse`) and the metadata of a renewal (`RunInUse`)
matter only while something can still look at them.

The type invariants of `renewal`, `operator` and `tokens` are proved, and therefore
not part of their runs.

A handler that is short of a fresh credential or a free row just waits in the
model; that is the bound, and the runs reach the states before it. All runs check
deadlock.

### Properties

* `CredentialLedger`: the credentials handed out are exactly the current and the
  spent ones; each belongs to one session and is not both.
* `ManagedEnvelope`, `ManagedSessionsEnd` (liveness): renewal never leaves the
  envelope the session was issued in, so that the session ends.
* `SingleWinner`: of the requests that present one credential at most one rotates it.
* `KnownNeverInvalid`: a renewal never answers "invalid" for a credential that was
  handed out, although it is classified, loaded and rotated in three reads.
* `NoRevival`: a spent, revoked or expired credential is never honoured again.
* `NoAssertionAfterRevocation`: with managed sessions on, an authentication that reads
  the clock when the revocation of its session is committed is not answered with an
  assertion, although it loaded the session before. It is a statement of order: the
  date in `revoked_at` may be earlier than the stamp of an assertion (section 2).
  Without managed sessions the session is read before the clock and never again, and
  the property does not hold.
* `AssertionBounded`: an assertion never outlives its session, or the absolute
  deadline of the parent.
* `DisabledMeansRevoked`, `OneSubjectPerIdentity`: see section 1.
* `DelegationIsNarrow`: a delegated session is one level deep, of the same subject, not
  renewable, and within the longest life of its parent (`NarrowRows`); and a grant on
  its way when its parent is revoked or expires makes no child of it.
* `ImplementsChain`: the tables refine `CredentialChain`.
* `FailureLimit`, `NoForgetting`, `LockoutEnds`, `OneRegistrant`,
  `PermitsConserved`, `SaturationEnds`: see section 1 under Password.
* `OneGrant`, `ConsentedGrant`, `DeliveredOwn`, `GrantDeliverable`: see section 1
  under Agent connection. A grant may still be made that nobody can collect: when
  its attempt expires or its approval is lost between the delegation and `Finish`, and
  when the delegation fails for its caller after the Account committed it, so that the
  agent is told "failed" while the grant lives (`agent-connection/src/lib.rs:239-242`).

* `ActiveIsAudited`: an active binding has one applied event, which shows its intent.
* `SettledHonestly`: a completed revocation removed the role, and its event names the
  operator who denied, whoever finished the work.
* `NoneHonouredAfterDenial`: no authentication that begins after the denial honours
  an operator session, also one that was being issued.
* `CleanStaysClean`: an activation under way may give the role back to a denied
  operator while the bootstrap window is open, but not afterwards.
* `ImplementsLifecycle`, `ImplementsOneShot`: the row, the flows and the codes refine
  their abstract specifications.
* `LoginIsOwn`: a flow leads to one login, that of the person who authorized it; no
  other callback spends his code; a refused login leaves no live session.
* `StartLimit`, `OtpOnce`: no window holds more challenges of a source than allowed,
  and a challenge is worth one session. `TypeOK` bounds the wrong guesses.
* `OneTokenPerKey`, `WithinSession`, `AcceptedWhileLive`: see section 1 under API tokens.
* `SentToLoginForCause`: renewing sends the user to the login form only when the
  session of the cookie is over or the credential that replaced it was lost, never
  because two tabs renewed at once or one of them missed a renewal.
* `AlwaysWatched`: a visible page that shows an active session has a timer, an
  observation or a renewal under way, unless it says that the session cannot be checked.
* `CookieMovesOn`: an answer replaces the cookie only by a newer credential, and never
  by one of a session that was signed out of.

### Findings

`DisableSubjectDisables` is what the comment on `disable_subject` says
(`account/src/operator.rs:152`): "Disables an identity and revokes all of its
sessions in one transaction." The `UPDATE` below it matches only subjects whose
stored status is not `disabled`, and leaves `disabled_until` alone. A subject whose
temporary disable has lapsed is effectively active but still stored as disabled: the
call revokes its sessions and leaves it active. The run shows it in seven steps: create
the subject (`EnsureRead`, `EnsureInsert`), disable it until 1, let the clock reach 1,
issue it a session (`IssueCheck`, `IssueInsert`), `DisableSubject`. The session is
revoked and the subject stays active.

`SignInAfterLoss` is what `docs/managed-sessions.md:102` says of a renewal whose answer
is lost: "One read-only validation detects this and the user must sign in again." The
validation is answered 409, the page shows its login form and hides the sign-out
button (`main.ts:116`); but the spent cookie is still in the browser, and `login`
refuses a request with any credential (`password-web-session/src/lib.rs:78`, as its README
says: "users must log out before changing identity"). Until the cookie's idle deadline the
user can neither sign in nor sign out on that page.

### Fairness

Only the clock is fair in `FairSpec` of `AccountSessions`: handlers can be lost and
clients can stop. In `PasswordAuth` a hashing job also ends: it is a bounded
computation on a thread of the blocking pool which nothing cancels. No handler is
assumed to get on. Liveness is model-checked only. The other modules state none:
their handlers may be abandoned at any step, and what is then left behind is what
their safety properties are about; in the browser a user may close every tab.

## 4. Proofs

All results hold for every value of the constants that meets the named assumptions:
policies as `ManagedSessionConfig::validate` admits them (`PolicyAssumption`),
numbers that are natural numbers, `None` outside the sets it is added to, an assertion
TTL above zero (`account/src/lib.rs:281` refuses a configuration without), and for
`PasswordAuth` limits above zero and finite sets of rows and requests, as they are
counted. Of the limits of `PhoneOtp` the cooldown may be 0, as in the code
(`phone/src/lib.rs:127`). TLC checks a strengthening on the bounds of section 3 before it is proved.

**AccountSessions.** `TypeCorrect` comes first. A step changes the tables in few
ways, though there are twenty actions: `TableStep` lists seven (nothing, a subject
enrolled, a status set, a root or child session inserted, a rotation, a
revocation), and `NextIsTableStep` shows that every step is one of them, with what
its guard guarantees: an inserted digest is fresh, the owner of an inserted or
rotated session is not disabled, a rotated digest is the current one of a live
session. The invariants of the tables are then shown seven cases at a time
(`Tables`, with `TablesAlways`), together because they lean on each other: single
winners need the ledger, and that the parent of a delegation is not delegated needs
that no session but a root is one's parent. `LedgerHolds`, `DisabledHolds`,
`EnvelopeHolds` and `DelegationHolds` are its conjuncts, the last with `ChildOfLive`:
only the insert of a grant makes a row a child, of a parent that is live at that step.

**Renewal over time.** `RevivalNever` is an action property: `DeadStays` says that no
table step makes a dead credential usable, `DeadIsNotSpent` that none exchanges it.
`ChainRefined` maps each of the seven cases to a step or a stutter of
`CredentialChain`. `OneWinner` and `NeverInvalid` add what is known of the handlers
in progress: the credential of a request that was told "rotated" is spent; the
credential of a renewal in progress is known and its session, if it was current,
managed and not delegated, so that a renewal that finds it gone can only be told
stale, expired or revoked.

**Identities and assertions.** `OneSubject`, `AssertionsStayBounded` and
`NoneAfterRevocation` rest on one invariant, `Dealings`, which joins the tables to what a
request knows of them. That a binding never moves (`IdentityTables`) is not enough for
one subject per identity: a request that lost the insert must find a binding when it reads
again (`ToldIdentity`). `Assertion` follows a request of `authenticate` through its four
reads: the bound it has taken so far is within the ceiling of the session, and of its
parent's, which no renewal and no policy moves (`BoundBy`); the credential it loaded still
belongs to that session, current or spent (`Owns`), so that the second read
is about the same session as the first; and once it has read the metadata of a
session and found it live, that session was live when it read the clock, since the clock
was read before and a revoked session stays revoked (`Begun`). That last part is what
fails without managed sessions, where there is no second read.

**PasswordAuth.** `Inv` joins four parts. `Sound` says what is known of a request at
each step: a hash that was loaded is still the stored one, since credentials never
change, and whoever has reached `clear` or a session presented the stored password.
`Unique` says that one sign-up for an identifier stored its credential. `RowsBounded`
is stronger than `FailureLimit` and what makes it inductive: an identifier has at
most `max_failures` rows altogether, stale ones included, because the transaction
that adds one has just deleted or counted all the others. `PermitsConserved` is
inductive with the typing, and the bounds of the pool in `TypeOK` follow from it.
`NothingForgotten` uses that a login's look-back is never later than the window
(`PrunedIsStale`).

**AgentConnection.** `Inv` adds to the typing who a handler acts for (`Named`), that
an attempt is with one approval or in the table (`Taken`, `Entries`), and that the
entry of an approval is there until its deadline, unless the approval or the answer to it
was lost (`Waiting`); the
bound on the table needs a finite set of attempts (`FiniteAssumption`).

**FederatedLogin.** `Locks`: a row has one holder, and what he read as available still
is. `Winners`: a flow that was handed out belongs to one login in progress or one
session. `Spenders`: the code was spent for the flow it was authorized for, and the
login goes on as that person. The refinement of `OneShot` uses the same locks: two
consumers of a flow cannot both have read it as available.

**PhoneOtp.** `StartLimit` is inductive only with `SourceLock` (one start per source
counts at a time) and `Counted`: between the count of a start and its insertion no other
step adds to what it counted (`Fewer`). `OtpOnce` rests on `RowLock` and `PassedOnce`.
Counting needs finitely many challenges.

**ApiTokens.** `KeyLock` says that the lock of a key has one holder, from which a
transaction at its commit still finds no receipt; `Answering` that an answer on its
way repeats the receipt; `Inspection` that the last inspection holds while nothing
changed; `Authentication` what an authentication read of a deadline that never moves.

**OperatorBinding.** `RowShape` relates status, revision and revocation of the row,
`LogShape` says what the log knows of it, and `Knows` what a handler at each step can
rely on: a row it read differs from the current one only by being older; the revision is
the proof of that. `Kept` is what every step but a restart preserves, so that each action
is a few lines. `LifecycleImplemented` maps the writes of the row to the actions of
`BindingLifecycle` and everything else to a stutter.

**BrowserSession.** None of the three properties is inductive. `Listed` says that
whatever names a session names one that was issued, `Queued` that a renewal waits with
the metadata its timer fired on. `Alone` is the exclusion of the Web Lock, and
`Call` what it gives the page inside: the cookie it sent is still the one in the jar
(`Asking`), an answer "ended" was given for cause and stays true (`Answering`), a
credential on its way to the jar is the current one of its session and newer than the jar's
(`Carrying`). `JarStands` ties the jar to the Account: its credential is
current, unless the session is over, the next credential was lost, or it is in the answer
of the page inside; and it is never one the user signed out of. From these,
`CookieMoves` needs only the steps that write the jar, and `LoginForCause` only the
states in which a renewal is in doubt, because a validation that finds "stale" contradicts
`JarStands` unless a credential was lost. `WatchedAlways` needs that a renewal
that is put off still has the metadata to set its timer by (`Queued`, `Asking`). The
rows at the Account change in one way under every step but a renewal and a sign-out
(`Ages`), which spares the proof a case per action. That `Remaining` drops the waits of one page
and no other takes the counting lemma `Places`, with `FiniteSetTheorems`.

Only model-checked: all liveness (`ManagedSessionsEnd`, `LockoutEnds`,
`SaturationEnds`), which is out of the prover's reach. The two properties that are violated
are refuted, not proved. Every other invariant, action property and refinement of a run
is stated by a theorem.

## 5. Not modelled

* **D1 store and Workers host.** The same operations as guarded batches of D1
  statements. Each batch is one step, as the transactions are here, but its guards are
  in SQL and would need a module of their own for every plugin.
* **Scoped delegation, attenuation of the session ceiling.** Receipts under an
  advisory lock, as in `ApiTokens`; the sessions they make are those of `grant`.
* **Row locks of the Account.** `grant` share-locks the session before the subject and
  the other transactions the subject first. A transaction is one step of
  `AccountSessions`, so the cycle does not show; PostgreSQL aborts one of the two, which is
  a handler that is lost.
* **Phone passwords.** The algorithm of `PasswordAuth` over other tables.
* **Devices, profile cache.** One transaction that locks all rows of a subject, and a
  synchronous map: nothing interleaves.
* **Parts without state**, cryptography, encodings, HTTP parsing, migrations, the
  Console. About 17,000 lines of the repository are generated capability bindings, which
  is why the share of mapped lines stays low although most of the handwritten state is
  modelled.

What would come next: `ScopedGrants` with the attenuation of ceilings; a module of the row
locks (`AccountLocks`) that checks which cycles can form; and for the `sign_in` and
`sessions_end` runs the invariants from which their liveness would follow by hand.
