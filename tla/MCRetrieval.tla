----------------------------- MODULE MCRetrieval -----------------------------
(* An instance of Retrieval for TLC: a file of two versions and two        *)
(* requests.                                                               *)
EXTENDS Retrieval

Versions == {[length |-> 9, breaks |-> {4}], [length |-> 8, breaks |-> {}]}
=============================================================================
