------------------------------ MODULE Selections ------------------------------
(***************************************************************************)
(* The elements of a sequence that are in a set, in their order.  This is  *)
(* SelectSeq with a set for its test, written out because SelectSeq is a   *)
(* primitive of the prover, which knows nothing about it.                  *)
(***************************************************************************)
EXTENDS Naturals, Sequences

(* The selections from the first i elements of s, by i. *)
SelectedUpTo(s, S) ==
  LET upTo[i \in 0 .. Len(s)] ==
        IF i = 0 THEN <<>>
        ELSE IF s[i] \in S THEN Append(upTo[i - 1], s[i]) ELSE upTo[i - 1]
  IN  upTo

Selected(s, S) == SelectedUpTo(s, S)[Len(s)]

===============================================================================
