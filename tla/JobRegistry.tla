----------------------------- MODULE JobRegistry -----------------------------
(***************************************************************************)
(* The durable, epoch-fenced background jobs of one LightWorker run        *)
(* (src/lightworker/jobs.py), with the control state they obey             *)
(* (control.py) and the processes whose threads execute them.              *)
(*                                                                         *)
(* Every registry method runs in one SQLite BEGIN IMMEDIATE transaction    *)
(* (sessions.py), so a method is one atomic action here.  What is NOT      *)
(* atomic is the thread that drives a job: a checkpoint reads the job and  *)
(* the control state in two transactions, and publishing or finishing is a *)
(* third one.  Between any two of them the lease may expire, another       *)
(* registry may claim the job, a user may pause or cancel it, or the       *)
(* process may die.                                                        *)
(***************************************************************************)
EXTENDS Integers, Sequences, FiniteSets

CONSTANTS
  Jobs,          \* job identities of the run
  TaskJobs,      \* the jobs of kind "task"; the others are background jobs
  Registries,    \* JobRegistry objects; each has its own random owner id
  Processes,     \* operating-system processes
  ProcessOf,     \* the process a registry lives in
  LeaseSeconds,  \* length of a lease, in clock ticks
  MaxWorkers,    \* threads of a process's shared job executor
  KeptOutput,    \* output items kept on the job (64 in the code)
  None,          \* absent owner, process or parent
  MaxJobs,       \* bound: jobs created
  MaxEpoch,      \* bound: claims and control actions on one job
  MaxCursor,     \* bound: outputs of one job
  MaxTime        \* bound: the clock

ASSUME ConstantsAssumption ==
  /\ TaskJobs \subseteq Jobs
  /\ ProcessOf \in [Registries -> Processes]
  /\ LeaseSeconds \in Nat \ {0}
  /\ MaxWorkers \in Nat \ {0}
  /\ KeptOutput \in Nat \ {0}
  /\ MaxJobs \in Nat /\ MaxEpoch \in Nat /\ MaxCursor \in Nat /\ MaxTime \in Nat
  /\ None \notin Jobs \cup Registries \cup Processes

VARIABLES
  jobs,      \* jobs.json: the durable job records, keyed by job id
  control,   \* control.json: the run's control state
  record,    \* run.json: the run's status, as far as a job touches it
  drives,    \* the threads inside _drive, one per successful claim
  handlers,  \* processes in which the run's job handlers are registered
  alive,     \* processes that have not died
  now        \* time.time()

vars == <<jobs, control, record, drives, handlers, alive, now>>

-----------------------------------------------------------------------------
(* States and records *)

Terminal  == {"completed", "failed", "cancelled"}
Statuses  == {"pending", "running", "paused", "interrupted"} \cup Terminal
Controls  == {"running", "paused", "cancelled"}

(* RunStatus, reduced to what _drive distinguishes: CREATED, PREPARING and *)
(* RUNNING are "active", every status it leaves alone is "settled".        *)
RecordStatuses == {"active", "paused", "cancelled", "settled"}

(* result: the epoch whose end was recorded.  raised: whether that end was *)
(* an exception; the code keeps only its text, in "error".                 *)
JobRecords ==
  [status : Statuses \cup {"absent"}, epoch : Nat, lease : Nat,
   owner  : Registries \cup {None}, process : Processes \cup {None},
   parent : Jobs \cup {None},
   cursor : Nat, output : Seq([cursor : Nat, epoch : Nat]),
   result : Nat, raised : BOOLEAN]

AbsentJob ==
  [status |-> "absent", epoch |-> 0, lease |-> 0, owner |-> None,
   process |-> None, parent |-> None, cursor |-> 0, output |-> <<>>,
   result |-> 0, raised |-> FALSE]

(* A thread is about to leave the executor queue, to make one of the two   *)
(* reads of a checkpoint, to run the operation, to publish, to finish with *)
(* a result, to finish with an error, or to handle JobInterrupted.  "then" *)
(* is what follows the checkpoint it is in, "lease" the lease the first    *)
(* read saw (0 if the job was not this thread's).                          *)
DriveStages == {"queued", "readJob", "readControl", "working", "publish",
                "finish", "fail", "interrupted"}
AfterCheckpoint == {"begin", "boundary", "publish", "finish"}

Drives == [job : Jobs, epoch : Nat, owner : Registries,
           stage : DriveStages, then : AfterCheckpoint, lease : Nat]

TypeOK ==
  /\ jobs \in [Jobs -> JobRecords]
  /\ control \in Controls
  /\ record \in RecordStatuses
  /\ drives \in SUBSET Drives
  /\ handlers \in SUBSET Processes
  /\ alive \in SUBSET Processes
  /\ now \in Nat \ {0}

-----------------------------------------------------------------------------
(* Helpers *)

Goto(d, stage) == drives' = (drives \ {d}) \cup {[d EXCEPT !.stage = stage]}
Leave(d)       == drives' = drives \ {d}

(* A fence that forgets the epoch (faulty, see README, "Mutants"). *)
HoldsByOwner(j, epoch, owner) ==
  jobs[j].status = "running" /\ jobs[j].owner = owner /\ jobs[j].lease >= now

(* The condition every fenced write and every renewal asks for. *)
Holds(j, epoch, owner) ==
  /\ jobs[j].status = "running"
  /\ jobs[j].epoch = epoch
  /\ jobs[j].owner = owner
  /\ jobs[j].lease >= now

(* A fence that forgets the lease (faulty). *)
FenceIgnoringLease(d) ==
  /\ jobs[d.job].status = "running"
  /\ jobs[d.job].epoch = d.epoch
  /\ jobs[d.job].owner = d.owner

Fence(d) == Holds(d.job, d.epoch, d.owner)

(* claim: who may take the job over, and what it becomes. *)
Claimable(job) ==
  \/ job.status \in {"pending", "interrupted", "paused"}
  \/ job.status = "running" /\ job.lease <= now

Claimed(job, r) ==
  [job EXCEPT !.status = "running", !.owner = r, !.process = ProcessOf[r],
              !.epoch = @ + 1, !.lease = now + LeaseSeconds]

NewDrive(j, epoch, r) ==
  [job |-> j, epoch |-> epoch, owner |-> r,
   stage |-> "queued", then |-> "begin", lease |-> 0]

(* A revocation that writes no deadline instead of a past one (faulty). *)
RevokedWithoutDeadline(job, target) ==
  [job EXCEPT !.status = target, !.epoch = @ + 1, !.lease = None]

(* job.update(status=target, lease_epoch + 1, lease_until=0) *)
Revoked(job, target) ==
  [job EXCEPT !.status = target, !.epoch = @ + 1, !.lease = 0]

(* Only the job and its direct children (faulty). *)
DirectChildren(j) ==
  {j} \cup {c \in Jobs : jobs[c].parent = j /\ jobs[c].status \notin Terminal}

(* The jobs a recursive control(j, pause or cancel) reaches: j and the     *)
(* non-terminal children of every job reached.                             *)
Cascade(j) ==
  {k \in Jobs : \A S \in SUBSET Jobs :
      /\ j \in S
      /\ \A c \in Jobs : jobs[c].parent \in S /\ jobs[c].status \notin Terminal
                           => c \in S
      => k \in S}

(* recover: os.kill(pid, 0) found no process, or the lease ran out. *)
Lost(job) ==
  \/ job.status = "running" /\ job.lease <= now
  \/ job.status \in {"pending", "running"} /\ job.process \notin alive

(* A pool that counts the calls still waiting for a thread (faulty). *)
BusyOrQueued(p) ==
  {d \in drives : d.job \notin TaskJobs /\ ProcessOf[d.owner] = p}

(* Threads of the process's shared job pool that are busy.  Task jobs run  *)
(* in the web scheduler's own pool.                                        *)
Busy(p) ==
  {d \in drives : d.job \notin TaskJobs /\ ProcessOf[d.owner] = p
                  /\ d.stage # "queued"}

Up(r) == ProcessOf[r] \in alive

-----------------------------------------------------------------------------
(* Registry operations *)

(* create: a fresh job id.  A repeated idempotency key returns the job     *)
(* already there and changes nothing.  The web scheduler creates task jobs *)
(* without a parent.                                                       *)
Create(r, j, parent) ==
  /\ Up(r)
  /\ jobs[j].status = "absent"
  /\ Cardinality({k \in Jobs : jobs[k].status # "absent"}) < MaxJobs
  /\ parent = None \/ (j \notin TaskJobs /\ parent \in Jobs /\ jobs[parent].status # "absent")
  /\ jobs' = [jobs EXCEPT ![j] = [AbsentJob EXCEPT !.status = "pending",
                                    !.process = ProcessOf[r], !.parent = parent]]
  /\ UNCHANGED <<control, record, drives, handlers, alive, now>>

(* start, and TaskScheduler._work, which claims a task job once, right     *)
(* after creating it.  The claim precedes the executor queue.              *)
Start(r, j) ==
  /\ Up(r)
  /\ Claimable(jobs[j])
  /\ j \in TaskJobs => jobs[j].status = "pending"
  /\ jobs[j].epoch < MaxEpoch
  /\ jobs' = [jobs EXCEPT ![j] = Claimed(@, r)]
  /\ drives' = drives \cup {NewDrive(j, jobs[j].epoch + 1, r)}
  /\ UNCHANGED <<control, record, handlers, alive, now>>

(* A heartbeat that renews a lease that already ran out (faulty). *)
RenewLate(d) ==
  /\ d.stage # "queued"
  /\ jobs[d.job].status = "running" /\ jobs[d.job].epoch = d.epoch
  /\ jobs[d.job].owner = d.owner
  /\ jobs' = [jobs EXCEPT ![d.job].lease = now + LeaseSeconds]
  /\ UNCHANGED <<control, record, drives, handlers, alive, now>>

(* renew, by the heartbeat thread of a drive; when it may not renew, the   *)
(* heartbeat ends and nothing changes.                                     *)
Renew(d) ==
  /\ d.stage # "queued"
  /\ Holds(d.job, d.epoch, d.owner)
  /\ jobs' = [jobs EXCEPT ![d.job].lease = now + LeaseSeconds]
  /\ UNCHANGED <<control, record, drives, handlers, alive, now>>

(* control(job, pause | cancel); task jobs are controlled through the run. *)
Control(r, j, target) ==
  /\ Up(r)
  /\ j \notin TaskJobs
  /\ jobs[j].status \in Statuses \ Terminal
  /\ \A k \in Cascade(j) : jobs[k].epoch < MaxEpoch
  /\ jobs' = [k \in Jobs |-> IF k \in Cascade(j) THEN Revoked(jobs[k], target)
                                                 ELSE jobs[k]]
  /\ UNCHANGED <<control, record, drives, handlers, alive, now>>

(* control(job, resume): the revocation, the dispatch and its claim are    *)
(* one transaction.                                                        *)
Resume(r, j) ==
  /\ Up(r)
  /\ j \notin TaskJobs
  /\ jobs[j].status \in {"paused", "interrupted"}
  /\ ProcessOf[r] \in handlers
  /\ jobs[j].epoch + 1 < MaxEpoch
  /\ jobs' = [jobs EXCEPT ![j] = Claimed(Revoked(@, "pending"), r)]
  /\ drives' = drives \cup {NewDrive(j, jobs[j].epoch + 2, r)}
  /\ UNCHANGED <<control, record, handlers, alive, now>>

Recovered(job) == [job EXCEPT !.status = "interrupted", !.lease = 0]

(* recover: one pass over all jobs. *)
Recover ==
  /\ alive # {}
  /\ \E j \in Jobs : Lost(jobs[j])
  /\ jobs' = [j \in Jobs |-> IF Lost(jobs[j]) THEN Recovered(jobs[j])
                                              ELSE jobs[j]]
  /\ UNCHANGED <<control, record, drives, handlers, alive, now>>

-----------------------------------------------------------------------------
(* The thread of _drive *)

(* The executor runs the submitted call when it has a thread for it. *)
Begin(d) ==
  /\ d.stage = "queued"
  /\ d.job \in TaskJobs \/ Cardinality(Busy(ProcessOf[d.owner])) < MaxWorkers
  /\ Goto(d, "readJob")
  /\ UNCHANGED <<jobs, control, record, handlers, alive, now>>

(* checkpoint, first read: registry.get. *)
ReadJob(d) ==
  /\ d.stage = "readJob"
  /\ LET mine == jobs[d.job].epoch = d.epoch /\ jobs[d.job].status = "running"
     IN  drives' = (drives \ {d}) \cup
           {[d EXCEPT !.stage = "readControl",
                      !.lease = IF mine THEN jobs[d.job].lease ELSE 0]}
  /\ UNCHANGED <<jobs, control, record, handlers, alive, now>>

(* checkpoint, second read: the control state, then the comparison with    *)
(* the clock.  A checkpoint that fails raises JobInterrupted: _drive       *)
(* handles it when it made the call itself, an operation may let it        *)
(* through or, as an agent's tool loop does, turn it into an answer.       *)
ReadControl(d) ==
  /\ d.stage = "readControl"
  /\ IF control = "running" /\ d.lease >= now
     THEN Goto(d, IF d.then \in {"begin", "boundary"} THEN "working" ELSE d.then)
     ELSE \/ Goto(d, "interrupted")
          \/ d.then \in {"boundary", "publish"} /\ Goto(d, "working")
  /\ UNCHANGED <<jobs, control, record, handlers, alive, now>>

(* The operation reaches a safe boundary, has output, or returns. *)
Checkpoint(d, then) ==
  /\ d.stage = "working"
  /\ then = "publish" => jobs[d.job].cursor < MaxCursor
  /\ drives' = (drives \ {d}) \cup
                 {[d EXCEPT !.stage = "readJob", !.then = then, !.lease = 0]}
  /\ UNCHANGED <<jobs, control, record, handlers, alive, now>>

OperationRaises(d) ==
  /\ d.stage = "working"
  /\ Goto(d, "fail")
  /\ UNCHANGED <<jobs, control, record, handlers, alive, now>>

(* The operation of a task is the runner, which saves the run record as it *)
(* goes.                                                                   *)
RunnerSaves(d, s) ==
  /\ d.stage = "working" /\ d.job \in TaskJobs
  /\ record # s
  /\ record' = s
  /\ UNCHANGED <<jobs, control, drives, handlers, alive, now>>

(* A window that keeps the oldest items (faulty). *)
FirstItems(s, n) == SubSeq(s, 1, IF Len(s) > n THEN n ELSE Len(s))

LastItems(s, n) == SubSeq(s, IF Len(s) > n THEN Len(s) - n + 1 ELSE 1, Len(s))

Published(job, epoch) ==
  [job EXCEPT !.cursor = @ + 1,
              !.output = LastItems(Append(@, [cursor |-> job.cursor + 1,
                                              epoch |-> epoch]), KeptOutput)]

(* output: publish one item, or raise JobInterrupted out of (or into) the  *)
(* operation.                                                              *)
Publish(d) ==
  /\ d.stage = "publish"
  /\ \/ /\ Fence(d)
        /\ jobs' = [jobs EXCEPT ![d.job] = Published(@, d.epoch)]
        /\ Goto(d, "working")
     \/ /\ ~Fence(d)
        /\ Goto(d, "interrupted") \/ Goto(d, "working")
        /\ UNCHANGED jobs
  /\ UNCHANGED <<control, record, handlers, alive, now>>

(* finish(result=...) *)
Finish(d) ==
  /\ d.stage = "finish"
  /\ IF Fence(d)
     THEN /\ jobs' = [jobs EXCEPT ![d.job].status = "completed",
                                  ![d.job].result = d.epoch]
          /\ Leave(d)
     ELSE /\ Goto(d, "interrupted")
          /\ UNCHANGED jobs
  /\ UNCHANGED <<control, record, handlers, alive, now>>

(* finish(error=str(exc)): an exception without a message has an empty     *)
(* string, which finish takes for "no error".  A stale thread just ends.   *)
Fail(d, blank) ==
  /\ d.stage = "fail"
  /\ IF Fence(d)
     THEN jobs' = [jobs EXCEPT ![d.job].status = IF blank THEN "completed"
                                                          ELSE "failed",
                               ![d.job].result = d.epoch,
                               ![d.job].raised = TRUE]
     ELSE UNCHANGED jobs
  /\ Leave(d)
  /\ UNCHANGED <<control, record, handlers, alive, now>>

(* Two faulty handlers of JobInterrupted: one leaves the job alone unless  *)
(* the run is stopped, one forgets the run record.                         *)
InterruptedOnlyIfStopped(d) ==
  LET job  == jobs[d.job]
      mine == job.status = "running" /\ job.epoch = d.epoch /\ job.owner = d.owner
  IN /\ d.stage = "interrupted"
     /\ jobs' = IF mine /\ control # "running"
                THEN [jobs EXCEPT ![d.job].lease = 0, ![d.job].status = control]
                ELSE jobs
     /\ record' = IF mine /\ control # "running" /\ d.job \in TaskJobs
                     /\ record = "active"
                  THEN control ELSE record
     /\ Leave(d)
     /\ UNCHANGED <<control, handlers, alive, now>>

InterruptedJobOnly(d) ==
  LET job  == jobs[d.job]
      mine == job.status = "running" /\ job.epoch = d.epoch /\ job.owner = d.owner
  IN /\ d.stage = "interrupted"
     /\ jobs' = IF mine
                THEN [jobs EXCEPT ![d.job].lease = 0, ![d.job].status =
                       IF control # "running" THEN control ELSE "interrupted"]
                ELSE jobs
     /\ Leave(d)
     /\ UNCHANGED <<control, record, handlers, alive, now>>

(* except JobInterrupted: if the job is still this thread's, its status    *)
(* follows the run's control state, and an active record of a stopped task *)
(* follows too.                                                            *)
Interrupted(d) ==
  LET job     == jobs[d.job]
      mine    == job.status = "running" /\ job.epoch = d.epoch /\ job.owner = d.owner
      stopped == control \in {"paused", "cancelled"}
  IN /\ d.stage = "interrupted"
     /\ jobs' = IF mine
                THEN [jobs EXCEPT ![d.job].lease = 0, ![d.job].status =
                                    IF stopped THEN control ELSE "interrupted"]
                ELSE jobs
     /\ record' = IF mine /\ stopped /\ d.job \in TaskJobs /\ record = "active"
                  THEN control ELSE record
     /\ Leave(d)
     /\ UNCHANGED <<control, handlers, alive, now>>

-----------------------------------------------------------------------------
(* The surroundings *)

(* ControlStore.set_state *)
SetControl(s) ==
  /\ control # s
  /\ control' = s
  /\ UNCHANGED <<jobs, record, drives, handlers, alive, now>>

(* A supervisor registers its job handlers when it starts in a process and *)
(* unregisters them when it ends.                                          *)
RegisterHandlers(p) ==
  /\ p \in alive \ handlers
  /\ handlers' = handlers \cup {p}
  /\ UNCHANGED <<jobs, control, record, drives, alive, now>>

UnregisterHandlers(p) ==
  /\ p \in handlers
  /\ handlers' = handlers \ {p}
  /\ UNCHANGED <<jobs, control, record, drives, alive, now>>

(* A process dies: its threads and its handler table go, the store stays. *)
Crash(p) ==
  /\ p \in alive
  /\ alive' = alive \ {p}
  /\ handlers' = handlers \ {p}
  /\ drives' = {d \in drives : ProcessOf[d.owner] # p}
  /\ UNCHANGED <<jobs, control, record, now>>

Tick ==
  /\ now < MaxTime
  /\ now' = now + 1
  /\ UNCHANGED <<jobs, control, record, drives, handlers, alive>>

Init ==
  /\ jobs = [j \in Jobs |-> AbsentJob]
  /\ control = "running"
  /\ record = "active"
  /\ drives = {}
  /\ handlers = {}
  /\ alive = Processes
  /\ now = 1

RegistryStep ==
  \/ \E r \in Registries, j \in Jobs :
       \/ \E parent \in Jobs \cup {None} : Create(r, j, parent)
       \/ Start(r, j)
       \/ \E target \in {"paused", "cancelled"} : Control(r, j, target)
       \/ Resume(r, j)
  \/ Recover

DriveStep(d) ==
  \/ Begin(d) \/ ReadJob(d) \/ ReadControl(d)
  \/ \E then \in AfterCheckpoint \ {"begin"} : Checkpoint(d, then)
  \/ OperationRaises(d)
  \/ \E s \in RecordStatuses : RunnerSaves(d, s)
  \/ Publish(d) \/ Finish(d)
  \/ \E blank \in BOOLEAN : Fail(d, blank)
  \/ Interrupted(d)

Next ==
  \/ RegistryStep
  \/ \E d \in drives : DriveStep(d) \/ Renew(d)
  \/ \E s \in Controls : SetControl(s)
  \/ \E p \in Processes : RegisterHandlers(p) \/ UnregisterHandlers(p) \/ Crash(p)
  \/ Tick

Spec == Init /\ [][Next]_vars

-----------------------------------------------------------------------------
(* Safety *)

(* epoch e of job j may publish and conclude: what fencing hands out. *)
Authority(j, e) ==
  /\ jobs[j].status = "running"
  /\ jobs[j].epoch = e
  /\ jobs[j].lease >= now

(* At most one thread, over all processes, passes the fence of a job at    *)
(* any time (jobs.py:195 _fence, claim, control, recover).                 *)
SingleHolder ==
  \A d, e \in drives : d.job = e.job /\ Fence(d) /\ Fence(e) => d = e

(* Why: a thread never knows a newer epoch than its job, no two threads    *)
(* share an epoch, and the thread of the current epoch belongs to the      *)
(* owner and process the job names.  This is the inductive core of the     *)
(* invariants proved in JobRegistryProofs.                                 *)
ThreadsMatchJobs ==
  /\ \A d \in drives : 1 <= d.epoch /\ d.epoch <= jobs[d.job].epoch
  /\ \A d \in drives : d.epoch = jobs[d.job].epoch =>
       jobs[d.job].owner = d.owner /\ jobs[d.job].process = ProcessOf[d.owner]
  /\ \A d, e \in drives : d.job = e.job /\ d.epoch = e.epoch => d = e
  /\ \A j \in Jobs : jobs[j].status = "absent" => jobs[j] = AbsentJob

(* An activation that lost its authority, because its lease ran out, it    *)
(* was recovered, paused, cancelled or superseded, never gets it back: no  *)
(* late heartbeat, resume or re-claim revives an old thread.               *)
AuthorityNeverReturns ==
  [][\A j \in Jobs : \A e \in 0 .. jobs[j].epoch :
        ~Authority(j, e) => ~Authority(j, e)']_vars

(* completed, failed and cancelled are final, with their output and result *)
(* (jobs.py TERMINAL): no recover, late finish, resume or interrupted      *)
(* thread touches the job again.                                           *)
TerminalIsFinal ==
  [][\A j \in Jobs : jobs[j].status \in Terminal => jobs'[j] = jobs[j]]_vars

(* What a reader of job_output sees: the kept items have consecutive       *)
(* cursors up to output_cursor, so "after" and output_dropped_before skip  *)
(* nothing, and no item of an older activation follows one of a newer.     *)
OutputIsGapFreeAndOrdered ==
  \A j \in Jobs :
    LET out == jobs[j].output IN
    /\ Len(out) <= KeptOutput
    /\ \A i \in 1 .. Len(out) : out[i].cursor = jobs[j].cursor - Len(out) + i
    /\ \A i, k \in 1 .. Len(out) : i <= k => out[i].epoch <= out[k].epoch
    /\ \A i \in 1 .. Len(out) : out[i].epoch <= jobs[j].epoch

(* A job that is running on a live lease of a live process has a thread:   *)
(* no way out of _drive leaves it "running" with nobody to finish it.      *)
RunningHasThread ==
  \A j \in Jobs :
    Authority(j, jobs[j].epoch) /\ jobs[j].process \in alive
      => \E d \in drives : d.job = j /\ d.epoch = jobs[j].epoch

(* Pausing or cancelling a job through control takes its unfinished        *)
(* children along: none of them stays pending or running.                  *)
StopReachesChildren ==
  \A p, c \in Jobs :
     /\ jobs'[p].epoch > jobs[p].epoch
     /\ jobs'[p].status \in {"paused", "cancelled"}
     /\ jobs[c].parent = p
     => jobs'[c].status \in Terminal \cup {jobs'[p].status}

(* A task stopped between its claim and its end leaves no run record that  *)
(* still looks active (jobs.py:283-294), unless a later activation of the  *)
(* run made it so: such a record would block the conversation's queue      *)
(* until the next restart.                                                 *)
StoppedTaskIsSettled ==
  /\ \E j \in TaskJobs : jobs[j].status \in {"paused", "cancelled"}
  /\ \A j \in TaskJobs : jobs[j].status \in {"absent", "paused", "cancelled"}
  => record # "active"

(* docs/lightworker_next_runtime.zh-CN.md:32: the job store never reports  *)
(* success falsely; an activation whose operation raised is not completed. *)
NoFalseSuccess ==
  \A j \in Jobs : jobs[j].status = "completed" => ~jobs[j].raised

(* Refinement: the registry implements FencedJobs.  The holder is the      *)
(* epoch with authority, the outcome is "open" until the status is final.  *)
LedgerOf(j) ==
  [holder    |-> IF Authority(j, jobs[j].epoch) THEN jobs[j].epoch ELSE 0,
   epoch     |-> jobs[j].epoch,
   published |-> jobs[j].cursor,
   by        |-> IF jobs[j].output = <<>> THEN 0
                 ELSE jobs[j].output[Len(jobs[j].output)].epoch,
   outcome   |-> IF jobs[j].status \in Terminal THEN jobs[j].status ELSE "open"]

Abstract == INSTANCE FencedJobs WITH ledger <- [j \in Jobs |-> LedgerOf(j)]

ImplementsFencedJobs == Abstract!Spec

-----------------------------------------------------------------------------
(* Liveness *)

(* The executor and the operating system run every thread; an operation    *)
(* that is working comes to a checkpoint, returns or raises; and one whose *)
(* checkpoints keep failing lets JobInterrupted through in the end (the    *)
(* child loop checks again after each agent run, and an agent run is at    *)
(* most max_tool_iterations long; the terminal loop never catches it).     *)
(* Users, clocks and crashes are not fair.                                 *)
DriveOf(j, e, A(_)) == \E d \in drives : d.job = j /\ d.epoch = e /\ A(d)

Scheduled(d) == Begin(d) \/ ReadJob(d) \/ ReadControl(d) \/ Publish(d)
                \/ Finish(d) \/ Fail(d, FALSE) \/ Interrupted(d)
OperationMoves(d) ==
  OperationRaises(d) \/ \E then \in AfterCheckpoint \ {"begin"} : Checkpoint(d, then)
LetsThrough(d) == ReadControl(d) /\ Goto(d, "interrupted")

Fairness ==
  \A j \in Jobs, e \in 1 .. MaxEpoch :
    /\ WF_vars(DriveOf(j, e, Scheduled))
    /\ WF_vars(DriveOf(j, e, OperationMoves))
    /\ SF_vars(DriveOf(j, e, LetsThrough))

FairSpec == Spec /\ Fairness

(* A run that stays paused or cancelled drains: every thread that drives   *)
(* one of its jobs ends, the ones still waiting for a pool thread too.     *)
StoppedRunDrains == <>[](control # "running") => <>[](drives = {})
=============================================================================
