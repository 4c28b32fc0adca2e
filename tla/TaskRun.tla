------------------------------- MODULE TaskRun -------------------------------
(***************************************************************************)
(* One run from its first activation to its last: the task runner          *)
(* (src/lightworker/workflow.py), the supervisor it drives in the agentic  *)
(* modes (agentic.py), and the requests of the web service (web.py) that   *)
(* start, stop, approve, repeat or write to the run while a thread of the  *)
(* scheduler executes it.                                                  *)
(*                                                                         *)
(* The record, the control state, the goal, the approvals and the jobs are *)
(* durable; the thread, its copy of the record and the container slot go   *)
(* with the process.  A thread reads and writes the durable parts one step *)
(* at a time, as the code does, and the requests come in between.          *)
(***************************************************************************)
EXTENDS Naturals, FiniteSets

CONSTANTS
  Jobs,            \* what the agent may start in the background: terminals,
  Terminals,       \* which take an exact approval, and read-only children
  Specs,           \* the tasks: how they are checked, their mode, and
                   \* (bounds) the jobs, requests and changes that are made
  MaxRepairs,      \* max_repairs of the task
  RalphRounds,     \* ralph_rounds of the configuration
  MaxEdits,        \* bound: changes of the workspace
  MaxActivations,  \* bound: activations after the first
  MaxRestarts      \* bound: restarts of the service

(* "needed": no verification is configured and the change is of code.      *)
Checks == {"configured", "needed", "not_needed"}

(* "jobs": job_control, of the agent's tool or of the web service.         *)
Requests == {"resume", "rerun", "approval", "stop", "message", "jobs"}

(* What may be put in the set of tasks. *)
EverySpec == [checks : Checks, ralph : BOOLEAN, jobs : SUBSET Jobs, requests : SUBSET Requests,
              edits : 0 .. MaxEdits]

VARIABLES
  spec,      \* the task
  record,    \* run.json
  control,   \* the state of control.json
  goal,      \* the status of goal.json
  request,   \* the request for an exact approval in approvals.json
  job,       \* the background jobs
  work,      \* the workspace and the verification that looked at it last
  thread,    \* the scheduler's call for the run
  slot,      \* the pool's container slots that its activations took and did
             \* not give back, and how many of them nobody ever will
  web,       \* requests between their first read and their write
  activations, restarts

vars == <<spec, record, control, goal, request, job, work, thread, slot, web,
          activations, restarts>>

-----------------------------------------------------------------------------
(* "active": CREATED, PREPARING, RUNNING; "attention": NEEDS_ATTENTION.    *)
Statuses  == {"active", "waiting", "attention", "paused", "cancelled", "budget",
              "failed", "interrupted", "succeeded"}
Resumable == {"failed", "interrupted", "paused", "attention"}
QueueBlocking == {"active", "attention", "paused", "waiting"}
Records   == [status : Statuses, bootstrap : BOOLEAN]
NoRecord  == [status |-> "none", bootstrap |-> FALSE]

Stages == {"none", "queued", "begin", "acquire", "start", "setup", "decide", "open", "gate",
           "build", "prepare", "agent", "collect", "rounds", "again", "judge", "diff",
           "verify", "repair",
           "read", "save", "list", "teardown", "release"}

(* "ended": completed, failed or cancelled. *)
JobStatuses == {"none", "running", "paused", "interrupted", "ended"}
Live(j)     == job[j] = "running"
LiveJobs    == {j \in Jobs : Live(j)}

Controls == {"running", "paused", "cancelled"}
Goals    == {"none", "active", "waiting", "input", "paused", "cancelled", "budget",
             "failed", "completed"}
Works    == [edits : 0 .. MaxEdits, checked : 0 .. MaxEdits, late : BOOLEAN,
             outcome : {"none", "passed", "failed"}]
Threads  == [stage : Stages, kind : {"run", "resume", "rerun", "approval"},
             vote : {"none", "approved", "rejected"}, copy : Records \cup {NoRecord},
             result : {"none", "ok", "failed", "raised"}, diff : 0 .. MaxEdits,
             round : Nat, ctl : Controls, listed : SUBSET Jobs,
             broken : BOOLEAN,    \* a supervisor was left open behind
             escaped : BOOLEAN]   \* it ended on an exception nobody recorded
Webs     == [stop : {"none", "paused", "cancelled"}, letter : Records \cup {NoRecord},
             votes : SUBSET {"approved", "rejected"}, rewound : BOOLEAN,
             woken : SUBSET Jobs] \* jobs started behind the back of a teardown
Slots    == [taken : Nat, lost : Nat]

TypeOK ==
  /\ spec \in Specs \cap EverySpec
  /\ record \in Records /\ control \in Controls /\ goal \in Goals
  /\ request \in {"none", "pending", "approved", "rejected"}
  /\ job \in [Jobs -> JobStatuses]
  /\ work \in Works
  /\ thread \in Threads
  /\ slot \in Slots
  /\ web \in Webs
  /\ activations \in 0 .. MaxActivations /\ restarts \in 0 .. MaxRestarts

-----------------------------------------------------------------------------
NoWork == [edits |-> 0, checked |-> 0, late |-> FALSE, outcome |-> "none"]

Activation(kind, vote) ==
  [stage |-> "queued", kind |-> kind, vote |-> vote, copy |-> NoRecord, result |-> "none",
   diff |-> 0, round |-> 0, ctl |-> "running", listed |-> {}, broken |-> FALSE,
   escaped |-> FALSE]

NoSlots == [taken |-> 0, lost |-> 0]
NoWeb   == [stop |-> "none", letter |-> NoRecord, votes |-> {}, rewound |-> FALSE, woken |-> {}]

(* The record of _submit_spec is there before its job is.                  *)
Init ==
  /\ spec \in Specs
  /\ record = [status |-> "active", bootstrap |-> TRUE]
  /\ control = "running" /\ goal = "none" /\ request = "none"
  /\ job = [j \in Jobs |-> "none"]
  /\ work = NoWork
  /\ thread = Activation("run", "none")
  /\ slot = NoSlots
  /\ web = NoWeb
  /\ activations = 0 /\ restarts = 0

At(s)   == thread.stage = s
Goto(s) == thread' = [thread EXCEPT !.stage = s]
Ended   == [Activation("run", "none") EXCEPT !.stage = "none", !.broken = thread.broken]
Escapes == [Ended EXCEPT !.escaped = TRUE]

(* checkpoint: a stopped run ends its activation as interrupted, and a     *)
(* record that is still active takes the control's state.                  *)
Settled(r) ==
  IF control # "running" /\ r.status = "active" THEN [r EXCEPT !.status = control] ELSE r

(* An exception of a resumed run is not recorded either (faulty). *)
FailedIfFresh(r) == IF thread.kind \in {"rerun", "resume"} THEN r
                    ELSE [r EXCEPT !.status = "failed"]

(* An exception under the runner's handler is recorded as the run's        *)
(* failure.  rerun_from_verify has no handler.                             *)
Failed(r) == IF thread.kind = "rerun" THEN r ELSE [r EXCEPT !.status = "failed"]
Fails     == IF thread.kind = "rerun" THEN Escapes ELSE Ended

Store == <<spec, goal, request, job, work>>
Rest  == <<web, activations, restarts>>

-----------------------------------------------------------------------------
(* TaskScheduler._work and CodingTaskRunner *)

Claim ==
  /\ At("queued")
  /\ IF control # "running" THEN record' = Settled(record) /\ thread' = Ended
                            ELSE Goto("begin") /\ UNCHANGED record
  /\ UNCHANGED <<Store, control, slot, Rest>>

(* run replaces the bootstrap record; resume makes a stopped run run; a    *)
(* workspace that cannot be made or is missing is a failure.               *)
Fresh == [status |-> "active", bootstrap |-> FALSE]

Begin ==
  /\ At("begin")
  /\ ~(thread.kind = "resume" /\ record.status = "cancelled")
  /\ control' = IF thread.kind = "resume" THEN "running" ELSE control
  /\ \E prepared \in {TRUE} \cup IF thread.kind = "rerun" THEN {} ELSE {FALSE} :
       LET r == IF thread.kind = "run" THEN Fresh ELSE record
       IN IF prepared THEN record' = r /\ Goto("acquire")
                      ELSE record' = Failed(r) /\ thread' = Ended
  /\ UNCHANGED <<Store, slot, Rest>>

(* What is raised before the handler: resume refuses a cancelled run, and  *)
(* the record may not be read, understood, or written.                     *)
BeginRaises ==
  /\ At("begin") /\ thread' = Escapes
  /\ record' \in {record} \cup IF thread.kind = "run" THEN {Fresh} ELSE {}
  /\ control' \in {control} \cup IF thread.kind = "resume" /\ record.status # "cancelled"
                                THEN {"running"} ELSE {}
  /\ UNCHANGED <<Store, slot, Rest>>

(* An image that cannot be built, or no container slot in time. *)
NotAcquired ==
  /\ At("acquire")
  /\ record' = Failed(record) /\ thread' = Fails
  /\ UNCHANGED <<Store, control, slot, Rest>>

Active(r) == [r EXCEPT !.status = "active"]

Acquire ==
  /\ At("acquire")
  /\ slot' = [slot EXCEPT !.taken = @ + 1]
  /\ record' = Active(record)
  /\ Goto("start")
  /\ UNCHANGED <<Store, control, Rest>>

(* The record cannot be written: the slot was taken before the try.        *)
AcquireLoses ==
  /\ At("acquire")
  /\ slot' = [slot EXCEPT !.taken = @ + 1, !.lost = @ + 1]
  /\ \E r \in {record, Active(record)} : record' = Failed(r)
  /\ thread' = Fails
  /\ UNCHANGED <<Store, control, Rest>>

(* Whatever raises from here on passes the finally of _execute. *)
Raise == thread' = [thread EXCEPT !.stage = "release", !.result = "raised"]

Raises ==
  /\ thread.stage \in {"start", "setup", "decide", "open", "gate", "build"} /\ Raise
  /\ UNCHANGED <<Store, record, control, slot, Rest>>

Start ==
  /\ At("start") /\ Goto("setup")
  /\ UNCHANGED <<Store, record, control, slot, Rest>>

(* The record that AgenticRuntime keeps and saves again later. *)
Setup ==
  /\ At("setup")
  /\ thread' = [thread EXCEPT !.copy = record,
                              !.stage = IF thread.kind = "approval" THEN "decide" ELSE "open"]
  /\ UNCHANGED <<Store, record, control, slot, Rest>>

Decide ==
  /\ At("decide")
  /\ request' = thread.vote /\ Goto("open")
  /\ UNCHANGED <<spec, record, control, goal, job, work, slot, Rest>>

(* What the last step leaves: the runner's handler records an exception,   *)
(* and the last checkpoint of the job a stop.                              *)
Leave ==
  IF thread.result = "raised" THEN record' = Failed(record) /\ thread' = Fails
                              ELSE record' = Settled(record) /\ thread' = Ended

(* The slot stays with the run whose sandbox failed (faulty). *)
ReleaseIfFine ==
  /\ At("release") /\ Leave
  /\ slot' = IF thread.result = "raised" THEN slot ELSE [slot EXCEPT !.taken = @ - 1]
  /\ UNCHANGED <<Store, control, Rest>>

(* The finally of _execute: sandbox.stop, then the slot; *)
Release ==
  /\ At("release") /\ Leave
  /\ slot' = [slot EXCEPT !.taken = @ - 1]
  /\ UNCHANGED <<Store, control, Rest>>

(* a sandbox that cannot be stopped keeps the slot.                        *)
StopRaises ==
  /\ At("release")
  /\ slot' = [slot EXCEPT !.lost = @ + 1]
  /\ record' = Failed(record) /\ thread' = Fails
  /\ UNCHANGED <<Store, control, Rest>>

-----------------------------------------------------------------------------
(* AgenticRuntime.run *)

(* The copy of the record is saved over what was saved since; a goal that  *)
(* exists is kept as it is.                                                *)
Open ==
  /\ At("open")
  /\ record' = thread.copy
  /\ goal' = IF goal = "none" THEN "active" ELSE goal
  /\ Goto("gate")
  /\ UNCHANGED <<spec, control, request, job, work, slot, Rest>>

Gate ==
  /\ At("gate")
  /\ \/ /\ control = "running"
        /\ thread' = [thread EXCEPT !.stage = "build", !.copy = NoRecord, !.vote = "none"]
        /\ UNCHANGED <<record, goal>>
     \/ /\ control # "running"
        /\ goal' = control
        /\ record' = [thread.copy EXCEPT !.status = control]
        /\ Goto("release")
  /\ UNCHANGED <<spec, control, request, job, work, slot, Rest>>

(* The tools, and with them the supervisor's children, are opened; recover *)
(* starts the children that have messages left, outside the try.  Which    *)
(* have is left open.                                                      *)
Waiting == {j \in spec.jobs \ Terminals : job[j] \notin {"none", "running"}}

Build ==
  /\ At("build") /\ Goto("prepare")
  /\ \E started \in SUBSET Waiting :
       job' = [j \in Jobs |-> IF j \in started THEN "running" ELSE job[j]]
  /\ UNCHANGED <<spec, record, control, goal, request, work, slot, Rest>>

(* What raises between the two is never torn down.                         *)
Enter ==
  /\ At("prepare")
  /\ \/ Goto("agent")
     \/ thread' = [thread EXCEPT !.stage = "release", !.result = "raised", !.broken = TRUE]
  /\ UNCHANGED <<Store, record, control, slot, Rest>>

(* A run of the model with tools: the task itself, a repair or a round of  *)
(* Ralph.  The gate of the tools refuses every call of a stopped run.      *)
Agent == thread.stage \in {"agent", "repair", "again"}

Edited(late) ==
  [work EXCEPT !.edits = @ + 1, !.late = @ \/ late]

AgentEdits ==
  /\ Agent /\ control = "running" /\ work.edits < spec.edits
  /\ work' = Edited(FALSE)
  /\ UNCHANGED <<spec, record, control, goal, request, job, thread, slot, Rest>>

AgentAsks ==
  /\ Agent /\ control = "running" /\ request = "none"
  /\ request' = "pending"
  /\ UNCHANGED <<spec, record, control, goal, job, work, thread, slot, Rest>>

(* A terminal is started, resumed by job_control, or a child is spoken to. *)
AgentStartsJob(j) ==
  /\ Agent /\ control = "running" /\ j \in spec.jobs /\ ~Live(j)
  /\ j \in Terminals /\ job[j] \notin {"paused", "interrupted"} => request = "approved"
  /\ job' = [job EXCEPT ![j] = "running"]
  /\ UNCHANGED <<spec, record, control, goal, request, work, thread, slot, Rest>>

AgentReturns ==
  /\ Agent
  /\ \E r \in {"ok", "failed"} :
       thread' = CASE At("agent")  -> [thread EXCEPT !.stage = "collect", !.result = r]
                   [] At("again")  -> [thread EXCEPT !.stage = "rounds", !.result = r]
                   [] At("repair") -> [thread EXCEPT !.stage = IF request = "pending"
                                                               THEN "judge" ELSE "verify"]
  /\ UNCHANGED <<Store, record, control, slot, Rest>>

Unanswered == thread.result = "failed" /\ control = "running"

(* Whatever raises under the try of the supervisor passes its finally.     *)
Supervised == {"agent", "collect", "rounds", "again", "judge", "diff", "verify", "repair",
               "read", "save"}

AgentRaises ==
  /\ thread.stage \in Supervised
  /\ thread' = [thread EXCEPT !.stage = "list", !.result = "raised"]
  /\ UNCHANGED <<Store, record, control, slot, Rest>>

(* _collect_jobs *)
AfterCollect(result) ==
  [thread EXCEPT !.stage = IF spec.ralph THEN "rounds" ELSE "judge", !.result = result]

CollectStops ==
  /\ At("collect") /\ LiveJobs # {}
  /\ control # "running" \/ request = "pending"
  /\ thread' = AfterCollect(thread.result)
  /\ UNCHANGED <<Store, record, control, slot, Rest>>

(* The wait has no limit (faulty). *)
CollectForEver == FALSE

CollectTimesOut ==
  /\ At("collect") /\ LiveJobs # {}
  /\ control' = "paused"
  /\ thread' = AfterCollect(thread.result)
  /\ UNCHANGED <<Store, record, slot, Rest>>

(* Everything ended: a pass without tools answers from what was captured. *)
Collect ==
  /\ At("collect") /\ LiveJobs = {}
  /\ \/ /\ \A j \in Jobs : job[j] = "none"
        /\ thread' = AfterCollect(thread.result) /\ UNCHANGED control
     \/ /\ \E j \in Jobs : job[j] \in {"paused", "interrupted"}
        /\ control' = "paused" /\ thread' = AfterCollect(thread.result)
     \/ /\ \E j \in Jobs : job[j] # "none"
        /\ \A j \in Jobs : job[j] \notin {"paused", "interrupted"}
        /\ \E r \in {"ok", "failed"} : thread' = AfterCollect(r)
        /\ UNCHANGED control
  /\ UNCHANGED <<Store, record, slot, Rest>>

(* Verification looks at the workspace as it is when it begins. *)
Verified(outcome) == [work EXCEPT !.checked = work.edits, !.outcome = outcome, !.late = FALSE]
Outcomes == IF spec.checks = "configured" THEN {"passed", "failed"} ELSE {"none"}

(* _ralph: until the last round, a stop, a pending approval, a spent       *)
(* budget or a verification that passes.                                   *)
Ralph ==
  /\ At("rounds")
  /\ \/ Goto("judge") /\ UNCHANGED work
     \/ /\ thread.round + 1 < RalphRounds /\ control = "running"
        /\ request # "pending" /\ work.edits > 0
        /\ \E o \in Outcomes :
             /\ work' = Verified(o)
             /\ thread' = [thread EXCEPT !.stage = IF o = "failed" THEN "again" ELSE "judge",
                                         !.round = @ + 1]
  /\ UNCHANGED <<spec, record, control, goal, request, job, slot, Rest>>

(* What follows the tool loop: an approval to wait for, *)
AwaitApproval ==
  /\ At("judge") /\ request = "pending"
  /\ goal' = "waiting"
  /\ record' = [record EXCEPT !.status = "waiting"]
  /\ Goto("list")
  /\ UNCHANGED <<spec, control, request, job, work, slot, Rest>>

(* a last answer without tools in place of one that failed, *)
Recover ==
  /\ At("judge") /\ request # "pending" /\ Unanswered
  /\ \E r \in {"ok", "failed"} : thread' = [thread EXCEPT !.stage = "diff", !.result = r]
  /\ UNCHANGED <<Store, record, control, slot, Rest>>

(* (unless a budget is spent), and the verification of a change.           *)
Judge ==
  /\ At("diff") \/ (At("judge") /\ request # "pending")
  /\ thread' = [thread EXCEPT !.stage = IF work.edits > 0 THEN "verify" ELSE "read",
                              !.diff = work.edits, !.round = 0]
  /\ UNCHANGED <<Store, record, control, slot, Rest>>

Verify ==
  /\ At("verify")
  /\ \E o \in Outcomes :
       /\ work' = Verified(o)
       /\ thread' = IF o = "failed" /\ thread.round < MaxRepairs
                    THEN [thread EXCEPT !.stage = "repair", !.round = @ + 1]
                    ELSE [thread EXCEPT !.stage = "read"]
  /\ UNCHANGED <<spec, record, control, goal, request, job, slot, Rest>>

(* The change is read again once it is verified.  _finalize reads the      *)
(* control, and later the record it saves.                                 *)
ReadControl ==
  /\ At("read")
  /\ thread' = [thread EXCEPT !.ctl = control, !.stage = "save",
                              !.diff = IF thread.diff = 0 THEN 0 ELSE work.edits]
  /\ UNCHANGED <<Store, record, control, slot, Rest>>

(* A failed verification is taken for one that never ran (faulty). *)
VerdictsUnverified ==
  IF thread.ctl # "running" THEN {thread.ctl}
  ELSE IF thread.result = "failed" THEN {"budget", "failed"}
  ELSE IF thread.diff = 0 \/ work.outcome # "none" \/ spec.checks = "not_needed"
       THEN {"succeeded"}
  ELSE {"attention"}

Verdicts ==
  IF thread.ctl # "running" THEN {thread.ctl}
  ELSE IF thread.result = "failed" THEN {"budget", "failed"}
  ELSE IF \/ thread.diff = 0 \/ work.outcome = "passed"
          \/ work.outcome = "none" /\ spec.checks = "not_needed"
       THEN {"succeeded"}
  ELSE {"attention"}

GoalOf(s) == CASE s = "succeeded" -> "completed" [] s = "attention" -> "input" [] OTHER -> s

Save ==
  /\ At("save")
  /\ \E v \in Verdicts :
       /\ goal' = GoalOf(v)
       /\ record' = [record EXCEPT !.status = v]
  /\ Goto("list")
  /\ UNCHANGED <<spec, control, request, job, work, slot, Rest>>

(* The finally of AgenticRuntime.run: the live jobs are listed, then       *)
(* paused one by one; one that ended meanwhile makes it raise.             *)
ListJobs ==
  /\ At("list")
  /\ thread' = [Activation(thread.kind, "none") EXCEPT
                   !.stage = "teardown", !.listed = LiveJobs,
                   !.result = IF thread.result = "raised" THEN "raised" ELSE "none"]
  /\ web' = [web EXCEPT !.woken = {}]
  /\ UNCHANGED <<Store, record, control, slot, activations, restarts>>

PauseJob(j) ==
  /\ At("teardown") /\ j \in thread.listed
  /\ job[j] # "ended"
  /\ thread' = [thread EXCEPT !.listed = @ \ {j}]
  /\ job' = [job EXCEPT ![j] = "paused"]
  /\ UNCHANGED <<spec, record, control, goal, request, work, slot, Rest>>

(* That, and anything else that raises there, leaves the supervisor open.  *)
TeardownRaises ==
  /\ thread.stage \in {"list", "teardown"}
  /\ thread' = [thread EXCEPT !.stage = "release", !.result = "raised", !.broken = TRUE]
  /\ UNCHANGED <<Store, record, control, slot, Rest>>

(* Jobs are left to themselves (faulty). *)
TornDownAnyway ==
  /\ At("teardown") /\ Goto("release")
  /\ UNCHANGED <<Store, record, control, slot, Rest>>

TornDown ==
  /\ At("teardown") /\ thread.listed = {} /\ Goto("release")
  /\ UNCHANGED <<Store, record, control, slot, Rest>>

-----------------------------------------------------------------------------
(* A terminal in the container, or a child, and the thread that drives it. *)

JobEdits(j) ==
  /\ Live(j) /\ j \in Terminals /\ work.edits < spec.edits /\ slot.taken > 0
  /\ work' = Edited(thread.stage \in {"verify", "repair", "read", "save", "list", "teardown"})
  /\ UNCHANGED <<spec, record, control, goal, request, job, thread, slot, Rest>>

JobEnds(j) ==
  /\ Live(j)
  /\ \E s \in {"ended"} \cup IF control # "running" THEN {"paused"} ELSE {} :
       job' = [job EXCEPT ![j] = s]
  /\ UNCHANGED <<spec, record, control, goal, request, work, thread, slot, Rest>>

(* A supervisor takes messages to its children, and runs jobs that are     *)
(* resumed, from when it is built until its teardown is done.              *)
ChildrenOpen == thread.stage \in {"prepare", "list", "teardown"} \cup Supervised \/ thread.broken

(* A job that is started after the teardown listed those to pause.         *)
Woken(j) == web.woken \cup IF At("teardown") THEN {j} ELSE {}

(* job_control: a job may be paused, cancelled or resumed at any time.     *)
JobStops(j) ==
  /\ "jobs" \in spec.requests /\ job[j] \in {"running", "paused", "interrupted"}
  /\ \E s \in {"paused", "ended"} : job' = [job EXCEPT ![j] = s]
  /\ UNCHANGED <<spec, record, control, goal, request, work, thread, slot, Rest>>

JobResumes(j) ==
  /\ "jobs" \in spec.requests /\ job[j] \in {"paused", "interrupted"} /\ ChildrenOpen
  /\ job' = [job EXCEPT ![j] = "running"]
  /\ web' = [web EXCEPT !.woken = Woken(j)]
  /\ UNCHANGED <<spec, record, control, goal, request, work, thread, slot, activations, restarts>>

-----------------------------------------------------------------------------
(* The requests of the web service *)

Submit(kind, vote) ==
  /\ activations < MaxActivations
  /\ thread' = [Activation(kind, vote) EXCEPT !.broken = thread.broken]
  /\ activations' = activations + 1

(* The run is set to run before the scheduler may refuse. *)
Resume ==
  /\ "resume" \in spec.requests /\ record.status \in Resumable
  /\ control' = "running"
  /\ \/ ~At("none") /\ control # "running" /\ UNCHANGED <<thread, activations>>
     \/ At("none") /\ Submit(IF record.bootstrap THEN "run" ELSE "resume", "none")
  /\ UNCHANGED <<Store, record, slot, web, restarts>>

Rerun ==
  /\ "rerun" \in spec.requests /\ record.status # "active" /\ At("none")
  /\ Submit("rerun", "none")
  /\ UNCHANGED <<Store, record, control, slot, web, restarts>>

(* pause_run and cancel_run read the record, then write the control. *)
StopReads ==
  /\ "stop" \in spec.requests /\ record.status = "active" /\ web.stop = "none"
  /\ \E s \in {"paused", "cancelled"} : web' = [web EXCEPT !.stop = s]
  /\ UNCHANGED <<Store, record, control, slot, thread, activations, restarts>>

StopWrites ==
  /\ web.stop # "none"
  /\ control' = web.stop /\ web' = [web EXCEPT !.stop = "none"]
  /\ UNCHANGED <<Store, record, slot, thread, activations, restarts>>

(* decide_approval finds the pending request, then submits the decision. *)
VoteReads ==
  /\ "approval" \in spec.requests /\ request = "pending"
  /\ \E d \in {"approved", "rejected"} \ web.votes : web' = [web EXCEPT !.votes = @ \cup {d}]
  /\ UNCHANGED <<Store, record, control, slot, thread, activations, restarts>>

(* The decision is noted by the request, not by the run (faulty). *)
VoteDecides ==
  /\ \E d \in web.votes :
       /\ web' = [web EXCEPT !.votes = @ \ {d}]
       /\ request' = d
       /\ \/ ~At("none") /\ UNCHANGED <<thread, activations>>
          \/ At("none") /\ Submit("approval", d)
  /\ UNCHANGED <<spec, record, control, goal, job, work, slot, restarts>>

VoteSubmits ==
  /\ \E d \in web.votes :
       /\ web' = [web EXCEPT !.votes = @ \ {d}]
       /\ \/ ~At("none") /\ UNCHANGED <<thread, activations>>
          \/ At("none") /\ Submit("approval", d)
  /\ UNCHANGED <<Store, record, control, slot, restarts>>

(* message_child loads the record; when no supervisor has children open it *)
(* saves what it loaded, with the message, and may resume the parent.      *)
LetterReads ==
  /\ "message" \in spec.requests /\ record.status # "cancelled" /\ web.letter = NoRecord
  /\ web' = [web EXCEPT !.letter = record]
  /\ UNCHANGED <<Store, record, control, slot, thread, activations, restarts>>

(* An open supervisor queues it, and starts the child if that is idle.     *)
LetterSaves ==
  LET resumes == web.letter.status \notin QueueBlocking /\ At("none")
      idle    == {j \in spec.jobs \ Terminals : job[j] = "ended"}
  IN
  /\ web.letter # NoRecord
  /\ \/ /\ ChildrenOpen
        /\ \/ web' = [web EXCEPT !.letter = NoRecord] /\ UNCHANGED job
           \/ \E j \in idle : /\ job' = [job EXCEPT ![j] = "running"]
                             /\ web' = [web EXCEPT !.letter = NoRecord, !.woken = Woken(j)]
        /\ UNCHANGED <<record, control, thread, activations>>
     \/ /\ ~ChildrenOpen
        /\ record' = web.letter
        /\ web' = [web EXCEPT !.letter = NoRecord,
                              !.rewound = @ \/ record.status # web.letter.status]
        /\ UNCHANGED job
        /\ IF resumes /\ activations < MaxActivations
           THEN Submit("resume", "none") /\ control' = "running"
           ELSE UNCHANGED <<control, thread, activations>>
  /\ UNCHANGED <<spec, goal, request, work, slot, restarts>>

(* The process dies.  The next one finds the jobs without their process,   *)
(* and turns an active record into an interrupted one.                     *)
Restart ==
  /\ restarts < MaxRestarts
  /\ restarts' = restarts + 1
  /\ thread' = [Ended EXCEPT !.broken = FALSE]
  /\ slot' = NoSlots
  /\ job' = [j \in Jobs |-> IF Live(j) THEN "interrupted" ELSE job[j]]
  /\ record' = IF record.status = "active" THEN [record EXCEPT !.status = "interrupted"]
                                           ELSE record
  /\ web' = [web EXCEPT !.stop = "none", !.letter = NoRecord, !.votes = {},
                        !.woken = {}]
  /\ UNCHANGED <<spec, control, goal, request, work, activations>>

-----------------------------------------------------------------------------
ThreadStep ==
  \/ Claim \/ Begin \/ BeginRaises \/ NotAcquired \/ Acquire \/ AcquireLoses
  \/ Raises \/ Start \/ Setup \/ Decide \/ Release \/ StopRaises
  \/ Open \/ Gate \/ Build \/ Enter \/ AgentReturns \/ AgentRaises
  \/ CollectStops \/ CollectTimesOut \/ Collect \/ Ralph \/ AwaitApproval \/ Recover \/ Judge
  \/ Verify
  \/ ReadControl \/ Save \/ ListJobs \/ TornDown \/ TeardownRaises \/ \E j \in Jobs : PauseJob(j)

Next ==
  \/ ThreadStep
  \/ AgentEdits \/ AgentAsks
  \/ \E j \in Jobs : AgentStartsJob(j) \/ JobEdits(j) \/ JobEnds(j) \/ JobStops(j) \/ JobResumes(j)
  \/ Resume \/ Rerun \/ StopReads \/ StopWrites \/ VoteReads \/ VoteSubmits
  \/ LetterReads \/ LetterSaves \/ Restart

Spec == Init /\ [][Next]_vars

(* A thread that has started goes on: a model's run and the wait for jobs  *)
(* are bounded by the iterations and the time they are given.  That it     *)
(* might raise is nothing to rely on.                                      *)
Continues == ThreadStep /\ ~Raises /\ ~AgentRaises

FairSpec == Spec /\ WF_vars(Continues)

-----------------------------------------------------------------------------
(* A run that no thread executes is not recorded as active: it does not    *)
(* hold its conversation back for ever.  Two ways out are excepted: an     *)
(* exception outside of the runner's handlers (workflow.py:92, 126, 145),  *)
(* and message_child, which may bring an old status back.                  *)
EndedRunIsSettled ==
  At("none") /\ ~thread.escaped /\ ~web.rewound => record.status # "active"

(* However an activation ends, its container slot is back in the pool, but *)
(* for the two exceptions that lose it (workflow.py:213 and 322).          *)
IdleGivesSlotBack == At("none") => slot.taken = slot.lost

(* The terminals and children are stopped when the supervisor ends, unless *)
(* its teardown was cut short or never reached (agentic.py:129, 178), and  *)
(* but for those a user woke once the teardown had listed what to stop.    *)
JobsEndWithTheRun == At("none") /\ ~thread.broken => LiveJobs \subseteq web.woken

(* A run waits for an approval only while one is asked for. *)
WaitingHasRequest ==
  record.status = "waiting" /\ ~web.rewound /\ At("none") => request = "pending"

(* A change succeeds only when what the supervisor wrote has passed the    *)
(* verification that looked at it last, or none is required.               *)
Succeeds == record.status # "succeeded" /\ record'.status = "succeeded" /\ At("save")
VerifiedIfNeeded ==
  Succeeds /\ thread.diff > 0 /\ spec.checks # "not_needed"
    => work.outcome = "passed" /\ (work.checked = thread.diff \/ work.late)
SuccessIsVerified == [][VerifiedIfNeeded]_vars

(* All file edits pass the verification before they are delivered, those   *)
(* of terminals too.                                                       *)
EveryEditIsVerified ==
  [][Succeeds /\ spec.checks = "configured" /\ thread.diff > 0
       => work.checked = thread.diff]_vars

(* Every activation ends. *)
ActivationEnds == ~At("none") ~> At("none")
=============================================================================
