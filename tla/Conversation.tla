---------------------------- MODULE Conversation ----------------------------
(***************************************************************************)
(* One conversation of the web service (src/lightworker/web.py): the runs  *)
(* that execute its messages one after the other, the queue the others     *)
(* wait in, and everything that moves a message from the queue to a run.   *)
(*                                                                         *)
(* A dispatch holds queue_dispatch_lock, but the requests that queue,      *)
(* remove or guide a message, and the threads of the runs, do not: every   *)
(* read and every write below is a step of its own.  Leases hold while the *)
(* service lives (JobRegistry has them), so a run has an active job        *)
(* exactly while it has a thread in the scheduler.                         *)
(***************************************************************************)
EXTENDS MessageQueue, FiniteSets

CONSTANTS
  Root,          \* the run the conversation began with
  MaxRestarts,   \* bound: restarts of the service
  MaxContinues   \* bound: runs resumed, approved or verified again

ASSUME ConversationConstants ==
  Root \in Runs /\ MaxRestarts \in Nat /\ MaxContinues \in Nat

VARIABLES
  queue,     \* the conversation's queue
  runs,      \* the run records and the control state of each
  convo,     \* the runs in the order of created_at
  threads,   \* where the scheduler's call for a run is
  dispatch,  \* the call of _dispatch_next_queued_message, if any
  requests,  \* the POST that carries each message
  steered,   \* the run each guided message was handed to
  restarts, continues

vars == <<queue, runs, convo, threads, dispatch, requests, steered, restarts, continues>>

-----------------------------------------------------------------------------
(* active: CREATED, PREPARING, RUNNING; waiting: NEEDS_ATTENTION and the   *)
(* WAITING ones; cancelled: BUDGET_LIMITED too.                            *)
RunStatuses == {"absent", "active", "paused", "waiting", "succeeded",
                "failed", "interrupted", "cancelled"}
Blocking == {"active", "paused", "waiting"}
Controls == {"running", "paused", "cancelled"}

ThreadStages   == {"none", "queued", "running", "settle", "dispatch", "waits", "end"}
DispatchStages == {"idle", "look", "handle", "close", "pick", "claim", "submit", "launch"}
RequestStages  == {"none", "look", "enqueue", "wake", "submit", "launch", "done"}

RunRecords == [status : RunStatuses, control : Controls, message : Messages \cup {None},
               item : Messages \cup {None}, bootstrap : BOOLEAN]
Calls      == [stage : ThreadStages, settles : BOOLEAN]
Dispatches == [stage : DispatchStages, by : Runs \cup {None},
               message : Messages \cup {None}, run : Runs \cup {None}, lost : BOOLEAN]
Posts      == [stage : RequestStages, idle : BOOLEAN, run : Runs \cup {None}]
Guidance   == [run : Runs \cup {None}, done : BOOLEAN]

TypeOK ==
  /\ queue \in Queues
  /\ runs \in [Runs -> RunRecords]
  /\ convo \in Seq(Runs) /\ IsInjective(convo)
  /\ threads \in [Runs -> Calls]
  /\ dispatch \in Dispatches
  /\ requests \in [Messages -> Posts]
  /\ steered \in [Messages -> Guidance]
  /\ restarts \in 0 .. MaxRestarts /\ continues \in 0 .. MaxContinues

-----------------------------------------------------------------------------
JobActive(r) == threads[r].stage # "none"

(* A conversation that also waits for an interrupted run (faulty). *)
BlocksInterrupted(r, ignoreJob) ==
  runs[r].status \in Blocking \cup {"interrupted"} \/ (~ignoreJob /\ JobActive(r))

Blocks(r, ignoreJob) == runs[r].status \in Blocking \/ (~ignoreJob /\ JobActive(r))

Parent == Last(convo)

(* Runs whose identity has not been used, as a fresh uuid4 is not. *)
Unused ==
  {r \in Runs : /\ runs[r].status = "absent" /\ dispatch.run # r
                /\ \A m \in Messages : requests[m].run # r /\ queue.items[m].run # r}

(* The record that _submit_spec creates to bootstrap the run.  The runner  *)
(* replaces it when it begins, by one with a new created_at.               *)
Recorded(r, m, item) ==
  [runs[r] EXCEPT !.status = "active", !.message = m, !.item = item, !.bootstrap = TRUE]
MovedLast(r) == Append(Selected(convo, Runs \ {r}), r)

SetStage(r, stage) == threads' = [threads EXCEPT ![r].stage = stage]
Queued(r, settles) == [threads EXCEPT ![r] = [stage |-> "queued", settles |-> settles]]
SetStatus(r, s)    == runs' = [runs EXCEPT ![r].status = s]

NotSteered == [run |-> None, done |-> FALSE]

Idle == [stage |-> "idle", by |-> None, message |-> None, run |-> None, lost |-> FALSE]

(* The dispatch returns; if a thread made the call, its task ends. *)
Return ==
  /\ dispatch' = Idle
  /\ IF dispatch.by = None THEN UNCHANGED threads ELSE SetStage(dispatch.by, "end")

-----------------------------------------------------------------------------
(* create_followup *)

Post(m) ==
  /\ requests[m].stage = "none"
  /\ requests' = [requests EXCEPT ![m].stage = "look"]
  /\ UNCHANGED <<queue, runs, convo, threads, dispatch, steered, restarts, continues>>

(* What it decides on: the last run's record and job, and the queue. *)
PostLooks(m) ==
  LET blocked == Blocks(Parent, FALSE) IN
  /\ requests[m].stage = "look"
  /\ \/ /\ blocked \/ ~NothingActive(queue)
        /\ requests' = [requests EXCEPT ![m].stage = "enqueue", ![m].idle = ~blocked]
     \/ /\ ~blocked /\ NothingActive(queue)
        /\ \E r \in Unused :
             requests' = [requests EXCEPT ![m].stage = "submit", ![m].run = r]
  /\ UNCHANGED <<queue, runs, convo, threads, dispatch, steered, restarts, continues>>

PostEnqueues(m) ==
  /\ requests[m].stage = "enqueue"
  /\ queue' = Enqueue(queue, m)
  /\ requests' = [requests EXCEPT ![m].stage = IF requests[m].idle THEN "wake" ELSE "done"]
  /\ UNCHANGED <<runs, convo, threads, dispatch, steered, restarts, continues>>

(* If the conversation was idle when it looked, it dispatches. *)
PostWakes(m) ==
  /\ requests[m].stage = "wake" /\ dispatch.stage = "idle"
  /\ dispatch' = [dispatch EXCEPT !.stage = "look"]
  /\ requests' = [requests EXCEPT ![m].stage = "done"]
  /\ UNCHANGED <<queue, runs, convo, threads, steered, restarts, continues>>

(* A task that cannot be prepared is refused; else _submit_spec makes the  *)
(* record, then the job.                                                   *)
PostRefused(m) ==
  /\ requests[m].stage = "submit"
  /\ requests' = [requests EXCEPT ![m].stage = "done", ![m].run = None]
  /\ UNCHANGED <<queue, runs, convo, threads, dispatch, steered, restarts, continues>>

PostSubmits(m) ==
  LET r == requests[m].run IN
  /\ requests[m].stage = "submit"
  /\ runs' = [runs EXCEPT ![r] = Recorded(r, m, None)]
  /\ convo' = MovedLast(r)
  /\ requests' = [requests EXCEPT ![m].stage = "launch"]
  /\ UNCHANGED <<queue, threads, dispatch, steered, restarts, continues>>

PostLaunches(m) ==
  /\ requests[m].stage = "launch"
  /\ threads' = Queued(requests[m].run, TRUE)
  /\ requests' = [requests EXCEPT ![m].stage = "done", ![m].run = None]
  /\ UNCHANGED <<queue, runs, convo, dispatch, steered, restarts, continues>>

-----------------------------------------------------------------------------
(* _dispatch_next_queued_message, under its lock *)

(* A page that lists or shows the conversation, or the service's start. *)
Poll ==
  /\ dispatch.stage = "idle"
  /\ dispatch' = [dispatch EXCEPT !.stage = "look"]
  /\ UNCHANGED <<queue, runs, convo, threads, requests, steered, restarts, continues>>

Look ==
  /\ dispatch.stage = "look"
  /\ IF Blocks(Parent, Parent = dispatch.by)
     THEN Return
     ELSE dispatch' = [dispatch EXCEPT !.stage = "handle"] /\ UNCHANGED threads
  /\ UNCHANGED <<queue, runs, convo, requests, steered, restarts, continues>>

(* A running item is taken for one that ran, recorded or not (faulty). *)
HandleAllAsRun ==
  LET running == InStatus(queue, "running") IN
  /\ dispatch.stage = "handle"
  /\ \/ /\ running = <<>>
        /\ dispatch' = [dispatch EXCEPT !.stage = "pick"] /\ UNCHANGED threads
     \/ /\ running # <<>>
        /\ LET m == Head(running)
               r == queue.items[m].run
           IN IF Blocks(r, r = dispatch.by)
              THEN Return
              ELSE /\ dispatch' = [dispatch EXCEPT !.stage = "close", !.message = m]
                   /\ UNCHANGED threads
  /\ UNCHANGED <<queue, runs, convo, requests, steered, restarts, continues>>

(* The item that is running, if any, and the run it was claimed for. *)
Handle ==
  LET running == InStatus(queue, "running") IN
  /\ dispatch.stage = "handle"
  /\ \/ /\ running = <<>>
        /\ dispatch' = [dispatch EXCEPT !.stage = "pick"] /\ UNCHANGED threads
     \/ /\ running # <<>>
        /\ LET m    == Head(running)
               r    == queue.items[m].run
               lost == runs[r].status = "absent"
           IN IF ~lost /\ Blocks(r, r = dispatch.by)
              THEN Return
              ELSE /\ dispatch' = [dispatch EXCEPT !.stage = "close", !.message = m,
                                                   !.lost = lost]
                   /\ UNCHANGED threads
  /\ UNCHANGED <<queue, runs, convo, requests, steered, restarts, continues>>

(* Its claim never got as far as a record: release it.  Else it is done,   *)
(* however its run ended.                                                  *)
Close ==
  LET m == dispatch.message IN
  /\ dispatch.stage = "close"
  /\ queue' = IF dispatch.lost THEN Release(queue, m) ELSE Complete(queue, m, "completed")
  /\ dispatch' = [dispatch EXCEPT !.stage = "pick", !.message = None, !.lost = FALSE]
  /\ UNCHANGED <<runs, convo, threads, requests, steered, restarts, continues>>

(* The next pending item; one whose task cannot be prepared fails. *)
Pick ==
  LET pending == InStatus(queue, "pending") IN
  /\ dispatch.stage = "pick"
  /\ \/ pending = <<>> /\ Return /\ UNCHANGED queue
     \/ pending # <<>> /\ Return /\ queue' = Complete(queue, Head(pending), "failed")
     \/ /\ pending # <<>>
        /\ \E r \in Unused :
             dispatch' = [dispatch EXCEPT !.stage = "claim", !.message = Head(pending),
                                          !.run = r]
        /\ UNCHANGED <<threads, queue>>
  /\ UNCHANGED <<runs, convo, requests, steered, restarts, continues>>

ClaimNext ==
  LET m == dispatch.message IN
  /\ dispatch.stage = "claim"
  /\ IF Claimable(queue, m)
     THEN /\ queue' = Claim(queue, m, dispatch.run)
          /\ dispatch' = [dispatch EXCEPT !.stage = "submit"]
          /\ UNCHANGED threads
     ELSE Return /\ UNCHANGED queue
  /\ UNCHANGED <<runs, convo, requests, steered, restarts, continues>>

Submit ==
  LET r == dispatch.run IN
  /\ dispatch.stage = "submit"
  /\ runs' = [runs EXCEPT ![r] = Recorded(r, dispatch.message, dispatch.message)]
  /\ convo' = MovedLast(r)
  /\ dispatch' = [dispatch EXCEPT !.stage = "launch"]
  /\ UNCHANGED <<queue, threads, requests, steered, restarts, continues>>

Launch ==
  /\ dispatch.stage = "launch"
  /\ dispatch' = Idle
  /\ threads' = LET queued == Queued(dispatch.run, TRUE) IN
                IF dispatch.by = None THEN queued
                ELSE [queued EXCEPT ![dispatch.by].stage = "end"]
  /\ UNCHANGED <<queue, runs, convo, requests, steered, restarts, continues>>

-----------------------------------------------------------------------------
(* The thread of a run *)

(* The scheduler's worker claims the job.  A run stopped before that ends  *)
(* without the call, and so without its settling; a run that begins for    *)
(* the first time is recorded anew.                                        *)
Activate(r) ==
  /\ threads[r].stage = "queued"
  /\ IF runs[r].control # "running"
     THEN /\ IF runs[r].status = "active" THEN SetStatus(r, runs[r].control)
                                          ELSE UNCHANGED runs
          /\ SetStage(r, "none") /\ UNCHANGED convo
     ELSE LET anew == runs[r].bootstrap /\ threads[r].settles IN
          /\ runs' = [runs EXCEPT ![r].status = "active",
                                  ![r].bootstrap = @ /\ ~anew]
          /\ convo' = IF anew THEN MovedLast(r) ELSE convo
          /\ SetStage(r, "running")
  /\ UNCHANGED <<queue, dispatch, requests, steered, restarts, continues>>

(* The runner saves how it ended. *)
RunEnds(r, s) ==
  /\ threads[r].stage = "running"
  /\ s \in {"succeeded", "failed", "waiting", runs[r].control}
  /\ SetStatus(r, s)
  /\ SetStage(r, IF threads[r].settles THEN "settle" ELSE "end")
  /\ UNCHANGED <<queue, convo, dispatch, requests, steered, restarts, continues>>

(* _settle_queue_and_dispatch: unless the run still blocks, its item is    *)
(* done and the next one is dispatched.                                    *)
Settle(r) ==
  LET m == runs[r].item IN
  /\ threads[r].stage = "settle"
  /\ IF Blocks(r, TRUE)
     THEN SetStage(r, "end") /\ UNCHANGED queue
     ELSE /\ SetStage(r, "dispatch")
          /\ queue' = IF m = None THEN queue
                      ELSE Complete(queue, m, IF runs[r].status = "failed"
                                              THEN "failed" ELSE "completed")
  /\ UNCHANGED <<runs, convo, dispatch, requests, steered, restarts, continues>>

TakeLock(r) ==
  /\ threads[r].stage = "dispatch" /\ dispatch.stage = "idle"
  /\ dispatch' = [dispatch EXCEPT !.stage = "look", !.by = r]
  /\ SetStage(r, "waits")
  /\ UNCHANGED <<queue, runs, convo, requests, steered, restarts, continues>>

TaskEnds(r) ==
  /\ threads[r].stage = "end"
  /\ SetStage(r, "none")
  /\ UNCHANGED <<queue, runs, convo, dispatch, requests, steered, restarts, continues>>

-----------------------------------------------------------------------------
(* What users do *)

(* pause_run and cancel_run. *)
Stop(r, s) ==
  /\ runs[r].status = "active" /\ runs[r].control # s
  /\ runs' = [runs EXCEPT ![r].control = s]
  /\ UNCHANGED <<queue, convo, threads, dispatch, requests, steered, restarts, continues>>

(* resume_run sets the control state before the scheduler may refuse. *)
ResumeRun(r) ==
  /\ runs[r].status \in {"failed", "interrupted", "paused", "waiting"}
  /\ continues < MaxContinues /\ continues' = continues + 1
  /\ runs' = [runs EXCEPT ![r].control = "running"]
  /\ threads' = IF JobActive(r) THEN threads ELSE Queued(r, TRUE)
  /\ UNCHANGED <<queue, convo, dispatch, requests, steered, restarts>>

(* decide_approval and rerun_verify submit a call that does not settle. *)
Continue(r) ==
  /\ runs[r].status \notin {"absent", "active"} /\ ~JobActive(r)
  /\ continues < MaxContinues /\ continues' = continues + 1
  /\ threads' = Queued(r, FALSE)
  /\ UNCHANGED <<queue, runs, convo, dispatch, requests, steered, restarts>>

(* guide_queued_message: the queue first, the run's control store next. *)
GuideMessage(m) ==
  /\ runs[Parent].status = "active" \/ JobActive(Parent)
  /\ Removable(queue, m)
  /\ queue' = Guide(queue, m)
  /\ steered' = [steered EXCEPT ![m].run = Parent]
  /\ UNCHANGED <<runs, convo, threads, dispatch, requests, restarts, continues>>

Steer(m) ==
  /\ steered[m].run # None /\ ~steered[m].done
  /\ steered' = [steered EXCEPT ![m].done = TRUE]
  /\ UNCHANGED <<queue, runs, convo, threads, dispatch, requests, restarts, continues>>

CancelMessage(m) ==
  /\ Removable(queue, m)
  /\ queue' = Cancel(queue, m)
  /\ UNCHANGED <<runs, convo, threads, dispatch, requests, steered, restarts, continues>>

ReorderMessages(ids) ==
  /\ ids # <<>>
  /\ queue' = Reorder(queue, ids)
  /\ UNCHANGED <<runs, convo, threads, dispatch, requests, steered, restarts, continues>>

(* The service dies and starts: threads and requests are gone, the jobs    *)
(* are recovered, and _recover_stale_runs interrupts what was active.      *)
Restart ==
  /\ restarts < MaxRestarts /\ restarts' = restarts + 1
  /\ threads' = [r \in Runs |-> [stage |-> "none", settles |-> FALSE]]
  /\ dispatch' = [Idle EXCEPT !.stage = "look"]
  /\ requests' = [m \in Messages |->
                    [requests[m] EXCEPT !.run = None, !.stage =
                       IF @ = "none" THEN "none" ELSE "done"]]
  /\ runs' = [r \in Runs |-> IF runs[r].status = "active"
                             THEN [runs[r] EXCEPT !.status = "interrupted"] ELSE runs[r]]
  /\ steered' = [m \in Messages |-> IF steered[m].done THEN steered[m] ELSE NotSteered]
  /\ UNCHANGED <<queue, convo, continues>>

-----------------------------------------------------------------------------
Init ==
  /\ queue = EmptyQueue
  /\ runs = [r \in Runs |-> [status |-> IF r = Root THEN "active" ELSE "absent",
                             control |-> "running", message |-> None, item |-> None,
                             bootstrap |-> TRUE]]
  /\ convo = <<Root>>
  /\ threads = [r \in Runs |-> [stage |-> IF r = Root THEN "queued" ELSE "none",
                                settles |-> r = Root]]
  /\ dispatch = Idle
  /\ requests = [m \in Messages |-> [stage |-> "none", idle |-> FALSE, run |-> None]]
  /\ steered = [m \in Messages |-> NotSteered]
  /\ restarts = 0 /\ continues = 0

RequestStep(m) ==
  \/ PostLooks(m) \/ PostEnqueues(m) \/ PostWakes(m) \/ PostRefused(m)
  \/ PostSubmits(m)  \/ PostLaunches(m) \/ Steer(m)
DispatchStep == Look \/ Handle \/ Close \/ Pick \/ ClaimNext \/ Submit \/ Launch
ThreadStep(r) ==
  Activate(r) \/ (\E s \in RunStatuses : RunEnds(r, s)) \/ Settle(r)
  \/ TakeLock(r) \/ TaskEnds(r)
UserStep ==
  \/ \E m \in Messages : Post(m) \/ GuideMessage(m) \/ CancelMessage(m)
  \/ \E r \in Runs : (\E s \in {"paused", "cancelled"} : Stop(r, s))
                     \/ ResumeRun(r) \/ Continue(r)
  \/ \E ids \in Reorderings(queue) : ReorderMessages(ids)

Next ==
  \/ UserStep \/ Poll \/ DispatchStep \/ Restart
  \/ \E m \in Messages : RequestStep(m)
  \/ \E r \in Runs : ThreadStep(r)

Spec == Init /\ [][Next]_vars

-----------------------------------------------------------------------------
(* Properties *)

(* A message is handed to one run at most, and to none if it became        *)
(* guidance: whatever a claim that a crash cut off, a release, a retry by  *)
(* another dispatch or a guidance in between do.                           *)
DeliveredOnce ==
  \A m \in Messages :
    Cardinality({r \in Runs : runs[r].status # "absent" /\ runs[r].message = m})
    + (IF steered[m].run # None THEN 1 ELSE 0) <= 1

(* An item is closed as completed only for a run that was recorded: a      *)
(* message whose dispatch died before that goes back to the queue.         *)
CompletedHasRun ==
  \A m \in Messages : StatusOf(queue, m) = "completed" =>
    \E r \in Runs : runs[r].message = m /\ runs[r].status # "absent"

(* A run begins for an item only when everything ahead of it in the queue  *)
(* has been dealt with, whatever reordering, release or crash came between *)
(* its choice, its claim and its record.                                   *)
BeginsInOrder ==
  \A r \in Runs : runs[r].item = None /\ runs'[r].item # None =>
     \A i, k \in DOMAIN queue.order :
        i < k /\ queue.order[k] = runs'[r].item
          => StatusOf(queue, queue.order[i]) \notin {"pending", "running"}
StartsInQueueOrder == [][BeginsInOrder]_vars

(* The runs of a conversation share one workspace and execute one after    *)
(* the other (README.md:144, tests/test_web.py:876).                       *)
OneRunAtATime ==
  \A r, s \in Runs : threads[r].stage = "running" /\ threads[s].stage = "running" => r = s

-----------------------------------------------------------------------------
(* Liveness.  Threads run, dispatches and requests proceed, an agent run   *)
(* ends (its tool iterations are bounded), and some page polls.  The lock  *)
(* is not taken all the time, so a thread that waits for it gets it.       *)
Fairness ==
  /\ WF_vars(Poll) /\ WF_vars(DispatchStep)
  /\ \A m \in Messages : WF_vars(RequestStep(m))
  /\ \A r \in Runs : WF_vars(Activate(r)) /\ WF_vars(Settle(r)) /\ WF_vars(TaskEnds(r))
                    /\ WF_vars(\E s \in RunStatuses : RunEnds(r, s))
                    /\ SF_vars(TakeLock(r))

FairSpec == Spec /\ Fairness

(* A queued message does not wait for ever: it comes out of the queue, or  *)
(* some run waits for its user.                                            *)
QueueMoves ==
  \A m \in Messages :
    StatusOf(queue, m) \in {"pending", "running"} ~>
      \/ StatusOf(queue, m) \notin {"pending", "running"}
      \/ \E r \in Runs : runs[r].status \in {"paused", "waiting"}
=============================================================================
