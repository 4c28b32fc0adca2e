----------------------------- MODULE MCMessages ------------------------------
(***************************************************************************)
(* Instances for TLC of the two queues of messages, a conversation's       *)
(* (Conversation) and a continuable child's (ContinuableAgents), and of    *)
(* delegated children (Subagents).  They share no state here; a behaviour  *)
(* picks one of them and lets it run, and the others stay as they began.   *)
(***************************************************************************)
EXTENDS Conversation, ContinuableAgents, Subagents, TLC

CONSTANTS r0, f1, f2, m1, m2, a1, k1, k2

VARIABLE part

allVars == <<part, vars, childVars, treeVars>>

(* Nothing tells two jobs apart: k1 is the one that is made first. *)
JobsInOrder == jobs[k2].status # "absent" => jobs[k1].status # "absent"

AllInit ==
  part \in {"conversation", "child", "children"} /\ Init /\ ChildInit /\ TreeInit

AllNext ==
  \/ part = "conversation" /\ Next /\ UNCHANGED <<part, childVars, treeVars>>
  \/ part = "child" /\ ChildNext /\ JobsInOrder' /\ UNCHANGED <<part, vars, treeVars>>
  \/ part = "children" /\ TreeNext /\ UNCHANGED <<part, vars, childVars>>

AllSpec == AllInit /\ [][AllNext]_allVars

(* Nothing tells two messages, or two runs after the first, apart. *)
Symmetry == Permutations({m1, m2}) \cup Permutations({f1, f2})
=============================================================================
