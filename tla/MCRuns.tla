------------------------------- MODULE MCRuns --------------------------------
(***************************************************************************)
(* Instances for TLC of a run from its first activation to its last, under *)
(* the agentic supervisor (TaskRun) or in the fixed workflow (CodingFlow), *)
(* and of the schedules that make runs (Schedules).  They share no state:  *)
(* a behaviour picks one and lets it run, and the others stay as they are. *)
(***************************************************************************)
EXTENDS Schedules, TaskRun, CodingFlow

CONSTANTS t1, c1, c2

VARIABLE part

allVars == <<part, scheduleVars, vars, flowVars>>

(* Six tasks: every way a change is checked, what may be started in the    *)
(* background, and the requests that are made, not all at once.            *)
Task(verified, ralph, jobs, requests, changes) ==
  [checks |-> verified, ralph |-> ralph, jobs |-> jobs, requests |-> requests,
   edits |-> changes]

Halted   == Task("configured", FALSE, {}, {"stop", "resume"}, 2)
Parallel == Task("not_needed", FALSE, {c1, c2}, {"jobs"}, 1)
Rounds   == Task("configured", TRUE, {c1}, {"stop"}, 2)
Repeated == Task("needed", FALSE, {c1}, {"stop", "rerun"}, 1)
Approved == Task("configured", FALSE, {t1}, {"approval", "resume"}, 2)
Written  == Task("configured", FALSE, {c1}, {"message"}, 0)

Tasks == {Halted, Parallel, Rounds, Repeated, Approved, Written}

-----------------------------------------------------------------------------
(* A run that is over. *)
RunIsOver ==
  /\ spec = Written
  /\ record = [status |-> "succeeded", bootstrap |-> FALSE]
  /\ control = "running" /\ goal = "completed" /\ request = "none"
  /\ job = [j \in Jobs |-> "none"] /\ work = NoWork
  /\ thread = [Activation("run", "none") EXCEPT !.stage = "none"]
  /\ slot = NoSlots
  /\ web = NoWeb
  /\ activations = 0 /\ restarts = 0

AllInit ==
  /\ \/ part \in {"schedules", "flow"} /\ RunIsOver
     \/ part = "run" /\ Init
  /\ SchedulesInit /\ FlowInit /\ (part # "flow" => checks = "configured")

AllNext ==
  /\ part' = part
  /\ \/ part = "schedules" /\ SchedulesNext /\ UNCHANGED <<vars, flowVars>>
     \/ part = "run" /\ Next /\ UNCHANGED <<scheduleVars, flowVars>>
     \/ part = "flow" /\ FlowNext /\ UNCHANGED <<scheduleVars, vars>>

(* The fairness of Schedules and of TaskRun. *)
SchedulesAreFair ==
  /\ \A d \in Services : /\ WF_scheduleVars(part = "schedules" /\ Due(d))
                         /\ WF_scheduleVars(part = "schedules" /\ DispatchStep(d))
  /\ \A s \in Schedules :
       WF_scheduleVars(part = "schedules" /\ ~InHand(s) /\ LeaseLapses(s))

RunIsFair == WF_vars(part = "run" /\ Continues)

AllSpec == AllInit /\ [][AllNext]_allVars /\ SchedulesAreFair /\ RunIsFair
=============================================================================
