------------------------------ MODULE Schedules ------------------------------
(***************************************************************************)
(* Persistent schedules (src/lightworker/schedules.py) and the loop of     *)
(* every web service that dispatches them (web.py _dispatch_schedules).    *)
(*                                                                         *)
(* A dispatcher claims all due schedules in one transaction and then works *)
(* through them; claiming, recording the run, submitting its job and       *)
(* reporting are transactions of their own.  Services on one state         *)
(* directory dispatch side by side, and any of them may die in between.    *)
(*                                                                         *)
(* Only two comparisons with the clock matter and both guard the claim:    *)
(* next_at <= now is "due", lease_until > now is "held".  Nothing else     *)
(* looks at the lease: a report is fenced by the epoch alone.              *)
(***************************************************************************)
EXTENDS Naturals, FiniteSets

CONSTANTS
  Schedules,      \* schedule identities
  Services,       \* services that run the schedule loop
  None,
  MaxOccurrence,  \* bound: occurrences of one schedule that come due
  MaxTroubles     \* bound: controls, refusals, crashes, leases lost by the living

VARIABLES
  schedules,  \* schedules.json
  runs,       \* the run of each occurrence; its identity is a hash of the two
  services,   \* where each dispatcher is
  troubles

scheduleVars == <<schedules, runs, services, troubles>>

-----------------------------------------------------------------------------
ScheduleStatuses == {"absent", "active", "paused", "completed", "deleted"}
DispatcherStages   == {"idle", "look", "seek", "prepare", "submit", "report", "error"}

(* A claim is the copy of the schedule that due() returns. *)
Claims == [schedule : Schedules, occurrence : 1 .. MaxOccurrence, epoch : Nat]

ASSUME SchedulesAssumption ==
  MaxOccurrence \in Nat /\ MaxTroubles \in Nat /\ None \notin Claims

Occurrences == Schedules \X (1 .. MaxOccurrence)

ScheduleRecords ==
  [status : ScheduleStatuses, repeats : BOOLEAN, due : BOOLEAN, held : BOOLEAN,
   epoch : Nat, occurrence : Nat, pending : Nat]

RunRecords ==
  [record : {"absent", "bootstrap", "begun"}, begun : Nat,
   job : {"none", "queued", "running", "ended"}, host : Services \cup {None}]

Dispatchers == [stage : DispatcherStages, claim : Claims \cup {None}, batch : SUBSET Claims]

SchedulesTypeOK ==
  /\ schedules \in [Schedules -> ScheduleRecords]
  /\ runs \in [Occurrences -> RunRecords]
  /\ services \in [Services -> Dispatchers]
  /\ troubles \in 0 .. MaxTroubles

-----------------------------------------------------------------------------
Idle == [stage |-> "idle", claim |-> None, batch |-> {}]

Stage(d) == services[d].stage
ClaimOf(d) == services[d].claim
RunOf(c) == <<c.schedule, c.occurrence>>

MoveTo(d, stage) == services' = [services EXCEPT ![d].stage = stage]

(* On to the next claim of the batch. *)
Proceed(d) ==
  LET batch == services[d].batch IN
  \/ batch = {} /\ services' = [services EXCEPT ![d] = Idle]
  \/ \E c \in batch : services' = [services EXCEPT ![d] =
                        [stage |-> "look", claim |-> c, batch |-> batch \ {c}]]

Trouble == troubles < MaxTroubles /\ troubles' = troubles + 1

(* Two claims that choose wrongly: one takes stopped schedules too, one    *)
(* leaves those alone that somebody began to dispatch (faulty, see README, *)
(* "Mutants").                                                             *)
ClaimableStopped(s) == schedules[s].status # "absent" /\ schedules[s].due /\ ~schedules[s].held
ClaimableUnbegun(s) == /\ schedules[s].status = "active" /\ schedules[s].due
                       /\ ~schedules[s].held /\ schedules[s].pending = 0

Claimable(s) == schedules[s].status = "active" /\ schedules[s].due /\ ~schedules[s].held

(* A report is only looked at for the schedule's status (faulty). *)
CurrentByStatus(c) == schedules[c.schedule].status = "active"

Current(c) == /\ schedules[c.schedule].status = "active"
              /\ schedules[c.schedule].epoch = c.epoch

Claimed(s) == [schedules[s] EXCEPT !.held = TRUE, !.epoch = @ + 1,
                                   !.pending = schedules[s].occurrence + 1]

Controlled(s, status) ==
  [schedules[s] EXCEPT !.status = status, !.epoch = @ + 1, !.held = FALSE]

(* An occurrence that was dispatched; one that could not be. *)
Counted(schedule) ==
  [schedule EXCEPT !.occurrence = @ + 1, !.pending = 0, !.held = FALSE,
                   !.due = IF schedule.repeats THEN FALSE ELSE @,
                   !.status = IF schedule.repeats THEN @ ELSE "completed"]
Deferred(schedule) == [schedule EXCEPT !.held = FALSE, !.due = FALSE]

JobActive(o) == runs[o].job \in {"queued", "running"}

-----------------------------------------------------------------------------
(* Users, and the clock *)

Create(s) ==
  /\ schedules[s].status = "absent"
  /\ \E repeats, due \in BOOLEAN :
       schedules' = [schedules EXCEPT ![s] = [@ EXCEPT !.status = "active",
                                                !.repeats = repeats, !.due = due]]
  /\ UNCHANGED <<runs, services, troubles>>

(* control: any schedule may be paused, resumed or deleted at any time. *)
Control(s, status) ==
  /\ schedules[s].status # "absent"
  /\ Trouble
  /\ schedules' = [schedules EXCEPT ![s] = Controlled(s, status)]
  /\ UNCHANGED <<runs, services>>

BecomesDue(s) ==
  /\ schedules[s].status # "absent" /\ ~schedules[s].due
  /\ schedules[s].occurrence < MaxOccurrence
  /\ schedules' = [schedules EXCEPT ![s].due = TRUE]
  /\ UNCHANGED <<runs, services, troubles>>

(* The claim of a schedule is in the hands of a service that lives. *)
InHand(s) == \E d \in Services : \E c \in services[d].batch \cup {ClaimOf(d)} :
               c # None /\ c.schedule = s /\ c.epoch = schedules[s].epoch

LeaseLapses(s) ==
  /\ schedules[s].held
  /\ IF InHand(s) THEN Trouble ELSE UNCHANGED troubles
  /\ schedules' = [schedules EXCEPT ![s].held = FALSE]
  /\ UNCHANGED <<runs, services>>

-----------------------------------------------------------------------------
(* A dispatcher *)

(* due: one transaction for all schedules. *)
Due(d) ==
  LET claimed == {s \in Schedules : Claimable(s) /\ schedules[s].occurrence < MaxOccurrence}
      copies  == {[schedule |-> s, occurrence |-> schedules[s].occurrence + 1,
                   epoch |-> schedules[s].epoch + 1] : s \in claimed}
  IN /\ Stage(d) = "idle"
     /\ claimed # {}
     /\ schedules' = [s \in Schedules |-> IF s \in claimed THEN Claimed(s) ELSE schedules[s]]
     /\ \E c \in copies : services' = [services EXCEPT ![d] =
                            [stage |-> "look", claim |-> c, batch |-> copies \ {c}]]
     /\ UNCHANGED <<runs, troubles>>

(* The source run: missing or still active, the dispatch is put off. *)
Look(d) ==
  /\ Stage(d) = "look"
  /\ \/ MoveTo(d, "seek") /\ UNCHANGED troubles
     \/ MoveTo(d, "error") /\ Trouble
  /\ UNCHANGED <<schedules, runs>>

(* Has the occurrence a job or a record already?  Then it was dispatched. *)
Seek(d) ==
  LET run == runs[RunOf(ClaimOf(d))] IN
  /\ Stage(d) = "seek"
  /\ MoveTo(d, IF run.job # "none" \/ run.record # "absent" THEN "report" ELSE "prepare")
  /\ UNCHANGED <<schedules, runs, troubles>>

(* The task is prepared, or cannot be; _submit_spec records the run unless *)
(* it is recorded.                                                         *)
Prepare(d) ==
  LET o == RunOf(ClaimOf(d)) IN
  /\ Stage(d) = "prepare"
  /\ \/ /\ runs' = [runs EXCEPT ![o].record = IF @ = "absent" THEN "bootstrap" ELSE @]
        /\ MoveTo(d, "submit") /\ UNCHANGED troubles
     \/ MoveTo(d, "error") /\ Trouble /\ UNCHANGED runs
  /\ UNCHANGED schedules

(* TaskScheduler.submit refuses a run that has an active job. *)
SubmitRun(d) ==
  LET o == RunOf(ClaimOf(d)) IN
  /\ Stage(d) = "submit"
  /\ IF JobActive(o)
     THEN MoveTo(d, "error") /\ UNCHANGED runs
     ELSE /\ runs' = [runs EXCEPT ![o].job = "queued", ![o].host = d]
          /\ MoveTo(d, "report")
  /\ UNCHANGED <<schedules, troubles>>

(* dispatched, without and with an error; a stale claim raises, first into *)
(* the handler that reports the error, then past it.                       *)
Report(d) ==
  LET c == ClaimOf(d) IN
  /\ Stage(d) = "report"
  /\ \/ /\ Current(c)
        /\ schedules' = [schedules EXCEPT ![c.schedule] = Counted(@)]
        /\ Proceed(d)
     \/ ~Current(c) /\ MoveTo(d, "error") /\ UNCHANGED schedules
  /\ UNCHANGED <<runs, troubles>>

ReportError(d) ==
  LET c == ClaimOf(d) IN
  /\ Stage(d) = "error"
  /\ schedules' = IF Current(c) THEN [schedules EXCEPT ![c.schedule] = Deferred(@)]
                                ELSE schedules
  /\ Proceed(d)
  /\ UNCHANGED <<runs, troubles>>

(* The service dies: its jobs are found without a process and interrupted. *)
Crash(d) ==
  /\ Trouble
  /\ services' = [services EXCEPT ![d] = Idle]
  /\ runs' = [o \in Occurrences |-> IF JobActive(o) /\ runs[o].host = d
                                    THEN [runs[o] EXCEPT !.job = "ended"] ELSE runs[o]]
  /\ UNCHANGED schedules

-----------------------------------------------------------------------------
(* The run of an occurrence *)

(* A runner that takes any record (faulty). *)
BeginAnyway(o) ==
  /\ runs[o].job = "queued"
  /\ runs' = [runs EXCEPT ![o].record = "begun", ![o].begun = @ + 1, ![o].job = "running"]
  /\ UNCHANGED <<schedules, services, troubles>>

(* The runner takes over a bootstrapped record, and refuses any other. *)
BeginRun(o) ==
  /\ runs[o].job = "queued"
  /\ runs' = IF runs[o].record = "bootstrap"
             THEN [runs EXCEPT ![o].record = "begun", ![o].begun = @ + 1,
                               ![o].job = "running"]
             ELSE [runs EXCEPT ![o].job = "ended"]
  /\ UNCHANGED <<schedules, services, troubles>>

EndRun(o) ==
  /\ runs[o].job = "running"
  /\ runs' = [runs EXCEPT ![o].job = "ended"]
  /\ UNCHANGED <<schedules, services, troubles>>

-----------------------------------------------------------------------------
SchedulesInit ==
  /\ schedules = [s \in Schedules |->
       [status |-> "absent", repeats |-> FALSE, due |-> FALSE, held |-> FALSE,
        epoch |-> 0, occurrence |-> 0, pending |-> 0]]
  /\ runs = [o \in Occurrences |->
       [record |-> "absent", begun |-> 0, job |-> "none", host |-> None]]
  /\ services = [d \in Services |-> Idle]
  /\ troubles = 0

DispatchStep(d) == Look(d) \/ Seek(d) \/ Prepare(d) \/ SubmitRun(d) \/ Report(d) \/ ReportError(d)

SchedulesNext ==
  \/ \E s \in Schedules :
       \/ Create(s) \/ BecomesDue(s) \/ LeaseLapses(s)
       \/ \E status \in {"paused", "active", "deleted"} : Control(s, status)
  \/ \E d \in Services : Due(d) \/ DispatchStep(d) \/ Crash(d)
  \/ \E o \in Occurrences : BeginRun(o) \/ EndRun(o)

SchedulesSpec == SchedulesInit /\ [][SchedulesNext]_scheduleVars

-----------------------------------------------------------------------------
(* Properties *)

(* An occurrence executes at most once, although two dispatchers may both  *)
(* find it missing and both submit it (schedules.py:75, its deterministic  *)
(* run; workflow.py:100, the record a runner takes over only once).        *)
OncePerOccurrence == \A o \in Occurrences : runs[o].begun <= 1

(* The counter never runs ahead of the runs: an occurrence is counted only *)
(* when its run was recorded, whoever reports, and however late.           *)
CountedHasRun ==
  \A s \in Schedules : \A n \in 1 .. schedules[s].occurrence :
    runs[<<s, n>>].record # "absent"

(* A schedule that was paused, deleted or completed changes by its user's  *)
(* hand only: no dispatcher that claimed it before, and none that comes    *)
(* after, counts an occurrence, takes a lease or puts off a time that has  *)
(* come (schedules.py:91-106).  Time itself may make the schedule due;     *)
(* only a control moves its epoch, and leaves all but the lease alone.     *)
StoppedScheduleHolds ==
  [][\A s \in Schedules :
       schedules[s].status \in {"paused", "deleted", "completed"} =>
         \/ schedules'[s] \in {schedules[s], [schedules[s] EXCEPT !.due = TRUE]}
         \/ /\ schedules'[s].epoch = schedules[s].epoch + 1 /\ ~schedules'[s].held
            /\ schedules'[s].occurrence = schedules[s].occurrence
            /\ schedules'[s].due = schedules[s].due]_scheduleVars

(* Fairness: the loop of every service goes on, and the lease of a dead    *)
(* dispatcher ends with time.  Users, runs and crashes are not fair.       *)
Fairness ==
  /\ \A d \in Services : WF_scheduleVars(Due(d)) /\ WF_scheduleVars(DispatchStep(d))
  /\ \A s \in Schedules : WF_scheduleVars(~InHand(s) /\ LeaseLapses(s))

FairSchedulesSpec == SchedulesSpec /\ Fairness

(* A due occurrence is not lost with the dispatcher that claimed it: it is *)
(* counted, put off to a later time, or its schedule is stopped.           *)
DueIsHandled ==
  \A s \in Schedules : \A n \in 0 .. MaxOccurrence - 1 :
    schedules[s].status = "active" /\ schedules[s].due /\ schedules[s].occurrence = n
      ~> \/ schedules[s].occurrence > n
         \/ schedules[s].status # "active"
         \/ ~schedules[s].due
=============================================================================
