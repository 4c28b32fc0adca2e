------------------------- MODULE MCContinuableAgents -------------------------
(* Instances of ContinuableAgents for TLC. *)
EXTENDS ContinuableAgents, TLC

(* Jobs are told apart only by what has been done with them. *)
JobSymmetry == Permutations(JobIds)
=============================================================================
