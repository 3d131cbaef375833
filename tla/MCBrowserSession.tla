-------------------------- MODULE MCBrowserSession --------------------------
(* Small instances of BrowserSession for TLC.                              *)
EXTENDS BrowserSession, TLC

CONSTANTS t1, t2

Symmetry == Permutations(Tabs)

(* States that differ only in the row of a session that is over behave     *)
(* alike: no endpoint reads its credential or its deadlines any more.      *)
RowInUse(s) == IF s.over = "no" THEN s ELSE [over |-> s.over]

(* So do states that differ only in the last failure of a page that shows  *)
(* no session, is hidden, paused, or waits for an observation: it shows a  *)
(* session again, or goes on, only with a status that replaces the last.   *)
PageInUse(t) ==
  IF /\ tab[t].page = "visible" /\ tab[t].shown = "active"
     /\ Active(t) /\ seen[t].step = "none"
  THEN tab[t] ELSE [tab[t] EXCEPT !.down = FALSE]

(* And in the metadata of a renewal whose answer does not say "too early". *)
RunInUse(t) ==
  IF run[t].step = "answered" /\ run[t].answer.kind # "early"
  THEN [run[t] EXCEPT !.meta = None] ELSE run[t]

View == <<clock, [n \in DOMAIN sessions |-> RowInUse(sessions[n])], jar,
          [t \in Tabs |-> PageInUse(t)], seen, queue, [t \in Tabs |-> RunInUse(t)],
          stray>>
=============================================================================
