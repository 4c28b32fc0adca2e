--------------------------- MODULE MCConversation ---------------------------
(* Instances of Conversation for TLC. *)
EXTENDS Conversation

CONSTANTS r0

(* Nothing tells two messages, or two runs after the first, apart. *)
Symmetry == Permutations(Messages) \cup Permutations(Runs \ {r0})
=============================================================================
