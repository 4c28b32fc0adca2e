---------------------------- MODULE MCJobRegistry ----------------------------
(* An instance of JobRegistry for TLC: one registry in one process. *)
EXTENDS JobRegistry, TLC

CONSTANTS j1, r1, p1

Alone == r1 :> p1
=============================================================================
