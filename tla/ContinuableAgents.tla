-------------------------- MODULE ContinuableAgents --------------------------
(***************************************************************************)
(* Continuable child agents (src/lightworker/continuation.py): each child  *)
(* has a FIFO of messages and is activated by background jobs.             *)
(*                                                                         *)
(* The job registry appears here as JobRegistry and FencedJobs specify it: *)
(* a job is its status, its epoch and whether its lease still holds;       *)
(* owners, clocks and output are left to JobRegistry.  Every transaction   *)
(* of continuation.py is one action, and the two reads of a checkpoint are *)
(* one step.  An activation's thread may be anywhere, in a model call for  *)
(* instance, while its job is paused, recovered or superseded.             *)
(***************************************************************************)
EXTENDS Naturals, Sequences, FiniteSets

CONSTANTS
  Agents,       \* child identities
  JobIds,       \* jobs of kind "subagent"
  MaxAgents,    \* the cap of the agent tree
  MaxWorkers,   \* threads of the shared job executor
  Nil,          \* no job, no child
  MaxMessages,  \* bound: messages sent to one child
  MaxEpoch,     \* bound: claims and control actions on one job
  MaxThreads    \* bound: threads at a time, stale ones included

VARIABLES
  agents,     \* agents.json
  jobs,       \* jobs.json
  agentThreads,    \* threads inside the registry's _drive, one per claim
  control,    \* the run's control state
  supervisor, \* the supervisor of the run
  toRecover   \* what recover() has still to look at: children and their jobs

childVars == <<agents, jobs, agentThreads, control, supervisor, toRecover>>

-----------------------------------------------------------------------------
(* States and records *)

AgentStatuses == {"absent", "pending", "running", "idle", "paused",
                  "interrupted", "cancelled", "failed"}
JobStatuses   == {"absent", "running", "paused", "interrupted", "completed",
                  "failed", "cancelled"}
Terminal      == {"completed", "failed", "cancelled"}
(* A cancelled run stops threads as a paused one does, and JobControl       *)
(* cancels jobs, so cancelled is left out.                                  *)
RunControls      == {"running", "paused"}
MessageStatuses == {"pending", "claimed", "completed"}

(* While it starts, a supervisor's children and job handlers are reachable *)
(* from the web but its own agent, and so its tools, do not run yet.  An   *)
(* abandoned one failed in recover(), which nothing catches or cleans up.  *)
Supervisors == {"none", "starting", "serving", "abandoned"}

(* queued: not on a pool thread yet; entry, return: the registry's         *)
(* checkpoints around the operation; loop .. output: the child's loop;     *)
(* caught, error: its two exception handlers; exit, fail: the registry's.  *)
Stages == {"queued", "entry", "loop", "take", "turn", "report", "output",
           "caught", "error", "return", "finish", "exit", "fail"}

Children   == [status : AgentStatuses, job : JobIds \cup {Nil},
               messages : Seq(MessageStatuses)]
JobRecords == [status : JobStatuses, epoch : Nat, lease : BOOLEAN,
               agent : Agents \cup {Nil}]
Threads    == [job : JobIds, epoch : Nat, stage : Stages, turn : Nat]

ChildTypeOK ==
  /\ agents \in [Agents -> Children]
  /\ jobs \in [JobIds -> JobRecords]
  /\ agentThreads \subseteq Threads
  /\ control \in RunControls
  /\ supervisor \in Supervisors
  /\ toRecover \subseteq Agents \X JobIds

-----------------------------------------------------------------------------
(* Helpers *)

ChildOf(t) == jobs[t.job].agent

(* The registry's fence, and a checkpoint: the fence and the run's control. *)
Fence(t)  == jobs[t.job].status = "running" /\ jobs[t.job].epoch = t.epoch
             /\ jobs[t.job].lease
Passes(t) == Fence(t) /\ control = "running"

Goto(t, stage) == agentThreads' = (agentThreads \ {t}) \cup {[t EXCEPT !.stage = stage]}
Leave(t)       == agentThreads' = agentThreads \ {t}

SetAgentStatus(a, s) == agents' = [agents EXCEPT ![a].status = s]

Unfinished(a) ==
  {i \in DOMAIN agents[a].messages : agents[a].messages[i] # "completed"}

(* A choice of the next turn that skips the one a dead activation had      *)
(* claimed (faulty).                                                       *)
PendingOnly(a) ==
  {i \in DOMAIN agents[a].messages :
     /\ agents[a].messages[i] = "pending"
     /\ \A k \in 1 .. i - 1 : agents[a].messages[k] # "pending"}

(* The first message that is pending or claimed, if any. *)
NextTurn(a) == {i \in Unfinished(a) : \A k \in Unfinished(a) : i <= k}

(* Statuses in which send_message only queues; the second is faulty. *)
OnlyQueuesIdleToo == {"running", "paused", "interrupted", "idle"}
OnlyQueues        == {"running", "paused", "interrupted"}

(* _activate, inside the caller's transaction: a new job, claimed at once, *)
(* and its thread queued.  "child" is the record the caller has made.      *)
Activated(a, child, k) ==
  /\ jobs[k].status = "absent" /\ Cardinality(agentThreads) < MaxThreads
  /\ agents' = [agents EXCEPT ![a] =
                  [child EXCEPT !.status = "running", !.job = k]]
  /\ jobs' = [jobs EXCEPT ![k] = [status |-> "running", epoch |-> 1,
                                  lease |-> TRUE, agent |-> a]]
  /\ agentThreads' = agentThreads \cup {[job |-> k, epoch |-> 1, stage |-> "queued", turn |-> 0]}

RecoveredAs(job, status) == [job EXCEPT !.status = status, !.lease = FALSE]

(* The registry's recover(): running jobs without a lease, or whose        *)
(* process died, are interrupted.                                          *)
Recovered ==
  [k \in JobIds |-> IF jobs[k].status = "running" /\ ~jobs[k].lease
                    THEN RecoveredAs(jobs[k], "interrupted") ELSE jobs[k]]

-----------------------------------------------------------------------------
(* The tools of the supervisor, and the web's access to them *)

(* spawn_agent: its first message is a second transaction, SendMessage. *)
Spawn(a) ==
  /\ supervisor = "serving"
  /\ agents[a].status = "absent"
  /\ Cardinality({b \in Agents : agents[b].status # "absent"}) < MaxAgents
  /\ SetAgentStatus(a, "pending")
  /\ UNCHANGED <<jobs, agentThreads, control, supervisor, toRecover>>

(* send_message, by the tool or by web.message_child. *)
SendMessage(a) ==
  LET child == [agents[a] EXCEPT !.messages = Append(@, "pending")] IN
  /\ supervisor # "none"
  /\ agents[a].status # "absent"
  /\ Len(agents[a].messages) < MaxMessages
  /\ \/ /\ agents[a].status \in OnlyQueues
        /\ agents' = [agents EXCEPT ![a] = child]
        /\ UNCHANGED <<jobs, agentThreads>>
     \/ /\ agents[a].status \notin OnlyQueues
        /\ \E k \in JobIds : Activated(a, child, k)
  /\ UNCHANGED <<control, supervisor, toRecover>>

(* interrupt_agent: control(job, pause) refuses a terminal job. *)
InterruptAgent(a) ==
  LET k == agents[a].job IN
  /\ supervisor = "serving"
  /\ k # Nil /\ jobs[k].status \notin Terminal /\ jobs[k].epoch < MaxEpoch
  /\ jobs' = [jobs EXCEPT ![k].status = "paused", ![k].epoch = @ + 1,
                          ![k].lease = FALSE]
  /\ SetAgentStatus(a, "paused")
  /\ UNCHANGED <<agentThreads, control, supervisor, toRecover>>

(* resume_agent refuses a child whose job runs on a lease. *)
Resumable(a) == /\ agents[a].job # Nil
                /\ ~(jobs[agents[a].job].status = "running" /\ jobs[agents[a].job].lease)

ResumeAgent(a) ==
  /\ supervisor = "serving"
  /\ Resumable(a)
  /\ \E k \in JobIds : Activated(a, agents[a], k)
  /\ UNCHANGED <<control, supervisor, toRecover>>

(* job_control on the job of a child, by the tool or the web. *)
JobControl(k, target) ==
  /\ jobs[k].status \in JobStatuses \ (Terminal \cup {"absent"})
  /\ jobs[k].epoch < MaxEpoch
  /\ jobs' = [jobs EXCEPT ![k].status = target, ![k].epoch = @ + 1,
                          ![k].lease = FALSE]
  /\ UNCHANGED <<agents, agentThreads, control, supervisor, toRecover>>

(* job_control(resume) starts the same job again through its handler. *)
JobResume(k) ==
  /\ supervisor # "none"
  /\ jobs[k].status \in {"paused", "interrupted"}
  /\ jobs[k].epoch + 1 < MaxEpoch /\ Cardinality(agentThreads) < MaxThreads
  /\ jobs' = [jobs EXCEPT ![k].status = "running", ![k].epoch = @ + 2,
                          ![k].lease = TRUE]
  /\ agentThreads' = agentThreads \cup {[job |-> k, epoch |-> jobs[k].epoch + 2,
                               stage |-> "queued", turn |-> 0]}
  /\ UNCHANGED <<agents, control, supervisor, toRecover>>

-----------------------------------------------------------------------------
(* Supervisors, leases, processes *)

(* A supervisor starts: recover() of the registry, then one look at every  *)
(* child that has an unfinished message.                                   *)
Open ==
  /\ supervisor \in {"none", "abandoned"} /\ control = "running"
  /\ jobs' = Recovered
  /\ toRecover' = {<<a, agents[a].job>> : a \in {b \in Agents : Unfinished(b) # {}}}
  /\ supervisor' = IF toRecover' = {} THEN "serving" ELSE "starting"
  /\ UNCHANGED <<agents, agentThreads, control>>

(* One turn of the loop of recover(): resume the child or skip it, or end  *)
(* in the error with which resume_agent refuses.                           *)
RecoverChild(a, k) ==
  LET needed == jobs[k].status \in {"interrupted", "paused", "completed", "failed"}
  IN /\ <<a, k>> \in toRecover
     /\ \/ /\ needed /\ ~Resumable(a)
           /\ toRecover' = {} /\ supervisor' = "abandoned"
           /\ UNCHANGED <<agents, jobs, agentThreads>>
        \/ /\ toRecover' = toRecover \ {<<a, k>>}
           /\ supervisor' = IF toRecover' = {} THEN "serving" ELSE "starting"
           /\ IF needed THEN /\ Resumable(a)
                             /\ \E n \in JobIds : Activated(a, agents[a], n)
                        ELSE UNCHANGED <<agents, jobs, agentThreads>>
     /\ UNCHANGED control

(* A supervisor ends: it pauses every job that is still running.  The      *)
(* threads of those jobs go on until their next checkpoint.                *)
CloseSupervisor ==
  /\ supervisor = "serving"
  /\ \A k \in JobIds : jobs[k].status = "running" => jobs[k].epoch < MaxEpoch
  /\ jobs' = [k \in JobIds |->
                IF jobs[k].status = "running"
                THEN [jobs[k] EXCEPT !.status = "paused", !.epoch = @ + 1,
                                     !.lease = FALSE]
                ELSE jobs[k]]
  /\ supervisor' = "none"
  /\ UNCHANGED <<agents, agentThreads, control, toRecover>>

(* Any other reader of the jobs recovers them too. *)
RecoverJobs ==
  /\ jobs' = Recovered
  /\ UNCHANGED <<agents, agentThreads, control, supervisor, toRecover>>

(* A lease runs out: while its thread waits for the pool and nothing       *)
(* renews it, or because the heartbeat was late.                           *)
LeaseLapses(k) ==
  /\ jobs[k].status = "running" /\ jobs[k].lease
  /\ jobs' = [jobs EXCEPT ![k].lease = FALSE]
  /\ UNCHANGED <<agents, agentThreads, control, supervisor, toRecover>>

(* The process dies; recover() finds the jobs it was running without it. *)
Crash ==
  /\ supervisor # "none"
  /\ supervisor' = "none"
  /\ agentThreads' = {}
  /\ toRecover' = {}
  /\ jobs' = [k \in JobIds |-> [jobs[k] EXCEPT !.lease = FALSE]]
  /\ UNCHANGED <<agents, control>>

SetControl(s) ==
  /\ control # s
  /\ control' = s
  /\ UNCHANGED <<agents, jobs, agentThreads, supervisor, toRecover>>

-----------------------------------------------------------------------------
(* The thread of an activation *)

(* The pool takes the call. *)
Begin(t) ==
  /\ t.stage = "queued"
  /\ Cardinality({u \in agentThreads : u.stage # "queued"}) < MaxWorkers
  /\ Goto(t, "entry")
  /\ UNCHANGED <<agents, jobs, control, supervisor, toRecover>>

(* The checkpoints: of the registry before and after the operation, at the *)
(* top of the child's loop, and before its output is published.            *)
AtCheckpoint(t) ==
  /\ \/ t.stage = "entry"  /\ Goto(t, IF Passes(t) THEN "loop"   ELSE "exit")
     \/ t.stage = "loop"   /\ Goto(t, IF Passes(t) THEN "take"   ELSE "caught")
     \/ t.stage = "output" /\ Goto(t, IF Passes(t) THEN "loop"   ELSE "caught")
     \/ t.stage = "return" /\ Goto(t, IF Passes(t) THEN "finish" ELSE "exit")
  /\ UNCHANGED <<agents, jobs, control, supervisor, toRecover>>

(* A loop that returns without saying that the child is idle (faulty). *)
TakeQuietly(t) ==
  /\ t.stage = "take"
  /\ LET a == ChildOf(t) IN
     \/ /\ NextTurn(a) = {}
        /\ Goto(t, "return")
        /\ UNCHANGED agents
     \/ \E i \in NextTurn(a) :
          /\ agents' = [agents EXCEPT ![a].messages[i] = "claimed"]
          /\ agentThreads' = (agentThreads \ {t}) \cup {[t EXCEPT !.stage = "turn", !.turn = i]}
  /\ UNCHANGED <<jobs, control, supervisor, toRecover>>

(* Take the next turn, or mark the child idle and return: one transaction, *)
(* without a checkpoint of its own.                                        *)
Take(t) ==
  /\ t.stage = "take"
  /\ LET a == ChildOf(t) IN
     \/ /\ NextTurn(a) = {}
        /\ SetAgentStatus(a, "idle")
        /\ Goto(t, "return")
     \/ \E i \in NextTurn(a) :
          /\ agents' = [agents EXCEPT ![a].messages[i] = "claimed"]
          /\ agentThreads' = (agentThreads \ {t}) \cup {[t EXCEPT !.stage = "turn", !.turn = i]}
  /\ UNCHANGED <<jobs, control, supervisor, toRecover>>

(* The child agent ran: it raised, a checkpoint during or after it failed, *)
(* or it answered, possibly with an error or nothing valid.                *)
EndTurn(t) ==
  /\ t.stage = "turn"
  /\ \/ Goto(t, "error")
     \/ ~Passes(t) /\ Goto(t, "caught")
     \/ Passes(t)  /\ Goto(t, "report")
  /\ UNCHANGED <<agents, jobs, control, supervisor, toRecover>>

(* The report and its checkpoint are one transaction. *)
Report(t) ==
  /\ t.stage = "report"
  /\ IF Passes(t)
     THEN /\ agents' = [agents EXCEPT ![ChildOf(t)].messages[t.turn] = "completed"]
          /\ Goto(t, "output")
     ELSE Goto(t, "caught") /\ UNCHANGED agents
  /\ UNCHANGED <<jobs, control, supervisor, toRecover>>

(* except JobInterrupted: only the child's current job speaks for it. *)
Caught(t) ==
  LET a == ChildOf(t) IN
  /\ t.stage = "caught"
  /\ IF agents[a].job = t.job
     THEN SetAgentStatus(a, IF jobs[t.job].status \in {"paused", "cancelled"}
                       THEN jobs[t.job].status ELSE "interrupted")
     ELSE UNCHANGED agents
  /\ Goto(t, "exit")
  /\ UNCHANGED <<jobs, control, supervisor, toRecover>>

(* except Exception: any job does. *)
Error(t) ==
  /\ t.stage = "error"
  /\ SetAgentStatus(ChildOf(t), "failed")
  /\ Goto(t, "fail")
  /\ UNCHANGED <<jobs, control, supervisor, toRecover>>

(* The registry's endings: finish, finish with an error, JobInterrupted. *)
Finish(t) ==
  /\ t.stage \in {"finish", "fail"}
  /\ \/ /\ Fence(t)
        /\ jobs' = [jobs EXCEPT ![t.job].status =
                      IF t.stage = "finish" THEN "completed" ELSE "failed"]
        /\ Leave(t)
     \/ /\ ~Fence(t)
        /\ IF t.stage = "finish" THEN Goto(t, "exit") ELSE Leave(t)
        /\ UNCHANGED jobs
  /\ UNCHANGED <<agents, control, supervisor, toRecover>>

Exit(t) ==
  /\ t.stage = "exit"
  /\ jobs' = IF jobs[t.job].status = "running" /\ jobs[t.job].epoch = t.epoch
             THEN [jobs EXCEPT ![t.job].lease = FALSE, ![t.job].status =
                     IF control = "running" THEN "interrupted" ELSE control]
             ELSE jobs
  /\ Leave(t)
  /\ UNCHANGED <<agents, control, supervisor, toRecover>>

-----------------------------------------------------------------------------
ChildInit ==
  /\ agents = [a \in Agents |-> [status |-> "absent", job |-> Nil, messages |-> <<>>]]
  /\ jobs = [k \in JobIds |-> [status |-> "absent", epoch |-> 0, lease |-> FALSE,
                               agent |-> Nil]]
  /\ agentThreads = {}
  /\ control = "running"
  /\ supervisor = "none"
  /\ toRecover = {}

ToolStep ==
  \/ \E a \in Agents : Spawn(a) \/ SendMessage(a)
                       \/ InterruptAgent(a) \/ ResumeAgent(a)
  \/ \E k \in JobIds : JobResume(k) \/ \E s \in {"paused", "cancelled"} : JobControl(k, s)

AgentThreadStep(t) ==
  Begin(t) \/ AtCheckpoint(t) \/ Take(t) \/ EndTurn(t) \/ Report(t)
  \/ Caught(t) \/ Error(t) \/ Finish(t) \/ Exit(t)

ChildNext ==
  \/ ToolStep
  \/ Open \/ CloseSupervisor \/ RecoverJobs \/ Crash
  \/ \E a \in Agents, k \in JobIds : RecoverChild(a, k)
  \/ \E k \in JobIds : LeaseLapses(k)
  \/ \E s \in RunControls : SetControl(s)
  \/ \E t \in agentThreads : AgentThreadStep(t)

ChildSpec == ChildInit /\ [][ChildNext]_childVars

-----------------------------------------------------------------------------
(* Properties *)

(* Turns complete in the order in which they were sent, whatever           *)
(* activations are interrupted, superseded or run twice: a turn claimed by *)
(* a dead activation is taken again before any later one.                  *)
FifoTurns ==
  \A a \in Agents : \A i, k \in DOMAIN agents[a].messages :
    i < k /\ agents[a].messages[k] = "completed" => agents[a].messages[i] = "completed"

(* An idle child has nothing to do: a message never slips in between the   *)
(* last look at the queue and the child's going idle.                      *)
IdleMeansDrained ==
  \A a \in Agents : agents[a].status = "idle" => Unfinished(a) = {}

(* An activation that ended, well or badly, never leaves its child marked  *)
(* running: send_message would only queue for it ever after.               *)
EndedJobFreesChild ==
  \A a \in Agents : agents[a].status = "running" =>
    jobs[agents[a].job].status \notin {"completed", "failed"}

(* continuation.py:155 "A running child consumes it after its current      *)
(* turn": under a supervisor, a child marked running has a thread that     *)
(* will look at its queue.                                                 *)
RunningChildConsumes ==
  \A a \in Agents : supervisor = "serving" /\ agents[a].status = "running" =>
    \E t \in agentThreads : t.job = agents[a].job

(* docs/lightworker_next_runtime.zh-CN.md:31: pausing revokes the epoch,   *)
(* and an old thread publishes nothing any more.  As long as its job stays *)
(* paused and it gets no new one, a paused child stays paused.             *)
PauseHolds ==
  [][\A a \in Agents :
        LET k == agents[a].job IN
        /\ agents[a].status = "paused" /\ agents'[a].job = k
        /\ jobs[k].status = "paused" /\ jobs'[k].status = "paused"
        => agents'[a].status = "paused"]_childVars
=============================================================================
