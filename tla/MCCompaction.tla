---------------------------- MODULE MCCompaction -----------------------------
(* An instance of Compaction for TLC. *)
EXTENDS Compaction
=============================================================================
