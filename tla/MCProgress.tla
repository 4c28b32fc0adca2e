----------------------------- MODULE MCProgress ------------------------------
(***************************************************************************)
(* Instances for TLC of what must eventually happen outside TaskRun: the   *)
(* job registry of a stopped run drains (JobRegistry), a conversation's    *)
(* queue moves (Conversation) and a call for delegated children returns    *)
(* (Subagents).  They share no state here: a behaviour picks one of them   *)
(* and lets it run.                                                        *)
(***************************************************************************)
EXTENDS Conversation

CONSTANTS j1, j2, g1, p1, r0

VARIABLES
  part,
  jobs, control, record, drives, handlers, alive, now,
  tree, continuable, workers, calls, deaths

jobVars   == <<jobs, control, record, drives, handlers, alive, now>>
treeVars  == <<tree, continuable, workers, calls, deaths>>
allVars   == <<part, jobVars, vars, treeVars>>

(* Two jobs share a pool of one thread. *)
Registry == INSTANCE JobRegistry WITH
  Jobs <- {j1, j2}, TaskJobs <- {}, Registries <- {g1}, Processes <- {p1},
  ProcessOf <- [g \in {g1} |-> p1], LeaseSeconds <- 1, MaxWorkers <- 1,
  KeptOutput <- 1, MaxJobs <- 2, MaxEpoch <- 1, MaxCursor <- 0, MaxTime <- 2

(* Up to four tasks under a cap of two, with one slot. *)
Children == INSTANCE Subagents WITH
  MaxChildren <- 2, MaxDepth <- 2, TreeCap <- 2, ModelSlots <- 1, MaxRequests <- 1,
  MaxCalls <- 2, MaxDeaths <- 1

AllInit ==
  /\ part \in {"jobs", "conversation", "children"}
  /\ Registry!Init /\ Init /\ Children!TreeInit

AllNext ==
  \/ part = "jobs" /\ Registry!Next /\ UNCHANGED <<part, vars, treeVars>>
  \/ part = "conversation" /\ Next /\ UNCHANGED <<part, jobVars, treeVars>>
  \/ part = "children" /\ Children!TreeNext /\ UNCHANGED <<part, jobVars, vars>>

(* The fairness of JobRegistry, Conversation and Subagents. *)
RegistryIsFair ==
  \A j \in {j1, j2} :
    /\ WF_jobVars(part = "jobs" /\ Registry!DriveOf(j, 1, Registry!Scheduled))
    /\ WF_jobVars(part = "jobs" /\ Registry!DriveOf(j, 1, Registry!OperationMoves))
    /\ SF_jobVars(part = "jobs" /\ Registry!DriveOf(j, 1, Registry!LetsThrough))

DialogueIsFair ==
  /\ WF_vars(part = "conversation" /\ Poll)
  /\ WF_vars(part = "conversation" /\ DispatchStep)
  /\ \A m \in Messages : WF_vars(part = "conversation" /\ RequestStep(m))
  /\ \A r \in Runs :
       /\ WF_vars(part = "conversation" /\ Activate(r))
       /\ WF_vars(part = "conversation" /\ Settle(r))
       /\ WF_vars(part = "conversation" /\ TaskEnds(r))
       /\ WF_vars(part = "conversation" /\ \E s \in RunStatuses : RunEnds(r, s))
       /\ SF_vars(part = "conversation" /\ TakeLock(r))

ChildrenAreFair == WF_treeVars(part = "children" /\ Children!TreeThreads)

AllSpec ==
  AllInit /\ [][AllNext]_allVars /\ RegistryIsFair /\ DialogueIsFair /\ ChildrenAreFair

-----------------------------------------------------------------------------
(* Threads of a stopped run end (jobs.py). *)
StoppedRunDrains == Registry!StoppedRunDrains

(* Nobody waits for a slot that a waiting agent holds (resources.py). *)
DelegationReturns == Children!DelegationReturns
=============================================================================
