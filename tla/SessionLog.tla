----------------------------- MODULE SessionLog ------------------------------
(***************************************************************************)
(* What the Session of a run promises (src/lightworker/sessions.py): a     *)
(* history that only grows, in which no event is stored twice.             *)
(***************************************************************************)
EXTENDS Naturals, Sequences

CONSTANT Events
VARIABLE log

(* s is the beginning of t. *)
Extends(s, t) ==
  /\ Len(s) <= Len(t)
  /\ \A i \in 1 .. Len(s) : t[i] = s[i]

(* No two positions hold the same event. *)
StoredOnce(s) == \A i, j \in 1 .. Len(s) : s[i].id = s[j].id => i = j

Init == log = <<>>

Grow ==
  /\ log' \in Seq(Events)
  /\ Extends(log, log') /\ StoredOnce(log')

Spec == Init /\ [][Grow]_log
=============================================================================
