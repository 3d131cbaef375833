--------------------------- MODULE CredentialChain ---------------------------
(***************************************************************************)
(* What a holder of session credentials may rely on, whatever the tables   *)
(* behind them: a session has one credential at a time, each credential is *)
(* exchanged at most once for a successor that was never used before, a    *)
(* spent credential keeps pointing at its session, and a closed session    *)
(* stays closed and exchanges nothing more.                                *)
(***************************************************************************)
CONSTANTS Sessions, Digests,
          None            \* neither a session nor a digest

VARIABLES
  current,   \* the credential of each session that was opened, or None
  spent,     \* the session each exchanged credential belonged to, or None
  closed     \* the sessions that were revoked

chainVars == <<current, spent, closed>>

ChainTypeOK ==
  /\ current \in [Sessions -> Digests \cup {None}]
  /\ spent \in [Digests -> Sessions \cup {None}]
  /\ closed \subseteq Sessions

ChainInit ==
  /\ current = [s \in Sessions |-> None]
  /\ spent = [d \in Digests |-> None]
  /\ closed = {}

Unused(d) == spent[d] = None /\ \A s \in Sessions : current[s] # d

Open(s, d) ==
  /\ current[s] = None /\ Unused(d)
  /\ current' = [current EXCEPT ![s] = d]
  /\ UNCHANGED <<spent, closed>>

Exchange(s, d) ==
  /\ current[s] # None /\ s \notin closed /\ Unused(d)
  /\ spent' = [spent EXCEPT ![current[s]] = s]
  /\ current' = [current EXCEPT ![s] = d]
  /\ UNCHANGED closed

Close(S) ==
  /\ \A s \in S : current[s] # None
  /\ closed' = closed \cup S
  /\ UNCHANGED <<current, spent>>

ChainNext ==
  \/ \E s \in Sessions, d \in Digests : Open(s, d) \/ Exchange(s, d)
  \/ \E S \in SUBSET Sessions : Close(S)

ChainSpec == ChainInit /\ [][ChainNext]_chainVars
=============================================================================
