------------------------------ MODULE MCTaskRun ------------------------------
(* An instance of TaskRun for TLC: a task that may run a terminal, once    *)
(* that was approved.  MCRuns has the others.                          *)
EXTENDS TaskRun, TLC

CONSTANTS t1, c1

OnlyApproved ==
  {[checks |-> "configured", ralph |-> FALSE, jobs |-> {t1}, requests |-> {"approval", "resume"},
    edits |-> 2]}
=============================================================================
