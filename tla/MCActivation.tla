---------------------------- MODULE MCActivation -----------------------------
(***************************************************************************)
(* Instances for TLC of what an activation works with besides its children *)
(* and its fixed workflow: the gate of the tools, steering, resumable      *)
(* steps, terminals, the index of documents, the history that has to fit   *)
(* the model, and jobs with children of their own.  They share no state,   *)
(* so a behaviour picks one part and lets it run; the others stay as they  *)
(* are.  The gate and steering are parts of one module, ToolGate, and take *)
(* turns.                                                                  *)
(***************************************************************************)
EXTENDS ToolGate, WorkflowSteps, Terminals, Retrieval, Compaction, TLC

CONSTANTS c1, c2, w1, w2, w3, m1, m2, j1, j2, j3, g1, p1, a1, a2, None

VARIABLES
  part,
  jobs, jobControl, jobRecord, drives, handlers, alive, now

jobVars == <<jobs, jobControl, jobRecord, drives, handlers, alive, now>>

allVars == <<part, vars, stepVars, terminalVars, jobVars, indexVars, historyVars>>

-----------------------------------------------------------------------------
(* Of two tools, one is asked for. *)
Tool(w)   == IF w = w3 THEN "b" ELSE "a"
Policy(w) == IF w = w3 THEN "never" ELSE "always"

(* Two calls at a time and no steering, or one call and two messages. *)
NoMessages == steering' = <<>> /\ taken' = {}
OneCall == \A c \in Calls : calls'[c].stage # "idle" => c = c1 /\ calls'[c].work = w1

(* Three jobs, so that a parent can have a grandchild, each started, paused,*)
(* cancelled or both, in a run that is not stopped itself; nothing tells   *)
(* the jobs apart.                                                         *)
Family == INSTANCE JobRegistry WITH
  Jobs <- {j1, j2, j3}, TaskJobs <- {}, Registries <- {g1}, Processes <- {p1},
  ProcessOf <- [g \in {g1} |-> p1], LeaseSeconds <- 1, MaxWorkers <- 1,
  KeptOutput <- 1, MaxJobs <- 3, MaxEpoch <- 2, MaxCursor <- 0, MaxTime <- 1,
  control <- jobControl, record <- jobRecord

(* Two versions of a file. *)
Versions == {[length |-> 9, breaks |-> {4}], [length |-> 8, breaks |-> {}]}

Symmetry == Permutations({j1, j2, j3})

-----------------------------------------------------------------------------
(* The jobs, which are an instance, stay away from the other parts. *)
WithoutJobs ==
  /\ jobs = 0 /\ jobControl = 0 /\ jobRecord = 0 /\ drives = 0 /\ handlers = 0
  /\ alive = 0 /\ now = 0

ActivationInit ==
  /\ Init /\ StepsInit /\ TerminalInit /\ IndexInit /\ HistoryInit
  /\ \/ part \in {"gate", "steering", "steps", "terminal", "history"} /\ WithoutJobs /\ embeds
     \/ part = "index" /\ WithoutJobs
     \/ part = "family" /\ Family!Init /\ embeds

ActivationNext ==
  /\ part' = part
  /\ \/ /\ part = "gate" /\ Next /\ NoMessages
        /\ UNCHANGED <<stepVars, terminalVars, jobVars, indexVars, historyVars>>
     \/ /\ part = "steering" /\ Next /\ OneCall
        /\ UNCHANGED <<stepVars, terminalVars, jobVars, indexVars, historyVars>>
     \/ /\ part = "steps" /\ StepsNext
        /\ UNCHANGED <<vars, terminalVars, jobVars, indexVars, historyVars>>
     \/ /\ part = "terminal" /\ TerminalNext
        /\ UNCHANGED <<vars, stepVars, jobVars, indexVars, historyVars>>
     \/ /\ part = "index" /\ IndexNext
        /\ UNCHANGED <<vars, stepVars, terminalVars, jobVars, historyVars>>
     \/ /\ part = "history" /\ HistoryNext
        /\ UNCHANGED <<vars, stepVars, terminalVars, jobVars, indexVars>>
     \/ /\ part = "family" /\ Family!Next /\ UNCHANGED jobControl
        /\ UNCHANGED <<vars, stepVars, terminalVars, indexVars, historyVars>>

ActivationSpec == ActivationInit /\ [][ActivationNext]_allVars

-----------------------------------------------------------------------------
(* Stopping a job stops its children, and theirs (jobs.py). *)
ControlReachesChildren == [][part = "family" => Family!StopReachesChildren]_allVars
=============================================================================
