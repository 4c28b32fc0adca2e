--------------------------- MODULE SchedulesProofs ---------------------------
(***************************************************************************)
(* Theorems about Schedules, for any schedules, services and bounds: types,*)
(* an occurrence begins at most once, it is counted only with its run on   *)
(* record, and a stopped schedule is changed by its user only.             *)
(***************************************************************************)
EXTENDS Schedules, TLAPS

-----------------------------------------------------------------------------
(* Types *)

(* A schedule stays one when its fields are given fitting values. *)
LEMMA UpdateType ==
  ASSUME NEW v \in ScheduleRecords, NEW due \in BOOLEAN, NEW status \in ScheduleStatuses,
         NEW n \in Nat
  PROVE  [v EXCEPT !.occurrence = n, !.pending = 0, !.held = FALSE, !.due = due,
                   !.status = status] \in ScheduleRecords
BY DEF ScheduleRecords

(* What counting and deferring make of a schedule. *)
LEMMA CountedType ==
  ASSUME NEW v \in ScheduleRecords
  PROVE  Counted(v) \in ScheduleRecords
<1> DEFINE due    == IF v.repeats THEN FALSE ELSE v.due
           status == IF v.repeats THEN v.status ELSE "completed"
           next   == v.occurrence + 1
<1>1. v.due \in BOOLEAN /\ v.status \in ScheduleStatuses /\ v.occurrence \in Nat
  BY DEF ScheduleRecords
<1>2. due \in BOOLEAN
  BY <1>1
<1>3. status \in ScheduleStatuses
  BY <1>1 DEF ScheduleStatuses
<1>4. next \in Nat
  BY <1>1
<1>5. Counted(v) = [v EXCEPT !.occurrence = next, !.pending = 0,
                             !.held = FALSE, !.due = due, !.status = status]
  BY DEF Counted
<1> HIDE DEF due, status, next
<1>6. [v EXCEPT !.occurrence = next, !.pending = 0, !.held = FALSE, !.due = due,
                !.status = status] \in ScheduleRecords
  BY <1>2, <1>3, <1>4, UpdateType
<1> QED BY <1>5, <1>6

LEMMA DeferredType ==
  ASSUME NEW v \in ScheduleRecords
  PROVE  Deferred(v) \in ScheduleRecords
BY DEF ScheduleRecords, Deferred

LEMMA ClaimedType ==
  ASSUME schedules \in [Schedules -> ScheduleRecords], NEW s \in Schedules
  PROVE  Claimed(s) \in ScheduleRecords
<1>1. schedules[s] \in ScheduleRecords
  OBVIOUS
<1>2. schedules[s].occurrence + 1 \in Nat /\ schedules[s].epoch + 1 \in Nat
  BY <1>1 DEF ScheduleRecords
<1> QED BY <1>1, <1>2 DEF ScheduleRecords, Claimed

LEMMA IdleType == Idle \in Dispatchers
BY DEF Idle, Dispatchers, DispatcherStages

(* Moving on in a batch keeps a dispatcher well typed. *)
LEMMA ProceedType ==
  ASSUME services \in [Services -> Dispatchers], NEW d \in Services, Proceed(d)
  PROVE  services' \in [Services -> Dispatchers]
<1>1. CASE services' = [services EXCEPT ![d] = Idle]
  BY <1>1, IdleType
<1>2. ASSUME NEW c \in services[d].batch,
             services' = [services EXCEPT ![d] =
                [stage |-> "look", claim |-> c, batch |-> services[d].batch \ {c}]]
      PROVE  services' \in [Services -> Dispatchers]
  <2>1. services[d].batch \subseteq Claims
    BY DEF Dispatchers
  <2>2. [stage |-> "look", claim |-> c, batch |-> services[d].batch \ {c}] \in Dispatchers
    BY <2>1 DEF Dispatchers, DispatcherStages
  <2> QED BY <1>2, <2>2
<1> QED BY <1>1, <1>2 DEF Proceed

LEMMA GotoType ==
  ASSUME services \in [Services -> Dispatchers], NEW d \in Services,
         NEW stage \in DispatcherStages, MoveTo(d, stage)
  PROVE  services' \in [Services -> Dispatchers]
BY DEF MoveTo, Dispatchers

(* The claims due() hands out, and the dispatcher that takes them. *)
LEMMA DueTypes ==
  ASSUME SchedulesTypeOK, NEW d \in Services, Due(d)
  PROVE  /\ services' \in [Services -> Dispatchers]
         /\ schedules' \in [Schedules -> ScheduleRecords]
         /\ \E c \in Claims, batch \in SUBSET Claims : services' = [services EXCEPT ![d] =
                             [stage |-> "look", claim |-> c, batch |-> batch]]
<1> DEFINE claimed == {s \in Schedules : Claimable(s) /\ schedules[s].occurrence < MaxOccurrence}
           copies  == {[schedule |-> s, occurrence |-> schedules[s].occurrence + 1,
                        epoch |-> schedules[s].epoch + 1] : s \in claimed}
<1>1. copies \subseteq Claims
  <2> SUFFICES ASSUME NEW s \in Schedules, schedules[s].occurrence < MaxOccurrence
               PROVE  [schedule |-> s, occurrence |-> schedules[s].occurrence + 1,
                       epoch |-> schedules[s].epoch + 1] \in Claims
    OBVIOUS
  <2>1. schedules[s].occurrence \in Nat /\ schedules[s].epoch \in Nat
    BY DEF SchedulesTypeOK, ScheduleRecords
  <2>2. schedules[s].occurrence + 1 \in 1 .. MaxOccurrence
    BY <2>1, SchedulesAssumption
  <2> QED BY <2>1, <2>2 DEF Claims
<1>2. PICK c \in copies : services' = [services EXCEPT ![d] =
                            [stage |-> "look", claim |-> c, batch |-> copies \ {c}]]
  BY DEF Due
<1> HIDE DEF copies
<1>3. [stage |-> "look", claim |-> c, batch |-> copies \ {c}] \in Dispatchers
  BY <1>1 DEF Dispatchers, DispatcherStages
<1>4. schedules' = [s \in Schedules |-> IF s \in claimed THEN Claimed(s) ELSE schedules[s]]
  BY DEF Due
<1>5. schedules' \in [Schedules -> ScheduleRecords]
  BY <1>4, ClaimedType DEF SchedulesTypeOK
<1>6. c \in Claims /\ copies \ {c} \in SUBSET Claims
  BY <1>1
<1>7. services' \in [Services -> Dispatchers]
  BY <1>2, <1>3 DEF SchedulesTypeOK
<1> QED BY <1>2, <1>5, <1>6, <1>7

LEMMA TroubleType ==
  ASSUME troubles \in 0 .. MaxTroubles, Trouble \/ UNCHANGED troubles
  PROVE  troubles' \in 0 .. MaxTroubles
BY SchedulesAssumption DEF Trouble

(* The claim in a dispatcher's hand, when there is one, is a claim. *)
LEMMA ClaimType ==
  ASSUME SchedulesTypeOK, NEW d \in Services, ClaimOf(d) # None
  PROVE  ClaimOf(d) \in Claims /\ RunOf(ClaimOf(d)) \in Occurrences
BY DEF SchedulesTypeOK, Dispatchers, ClaimOf, Claims, RunOf, Occurrences

(* A claimable schedule's neighbours: one schedule is replaced, or one run. *)
LEMMA ReplaceTypes ==
  ASSUME SchedulesTypeOK
  PROVE  /\ \A s \in Schedules, v \in ScheduleRecords :
              [schedules EXCEPT ![s] = v] \in [Schedules -> ScheduleRecords]
         /\ \A o \in Occurrences, r \in RunRecords :
              [runs EXCEPT ![o] = r] \in [Occurrences -> RunRecords]
BY DEF SchedulesTypeOK

(* The stage of a dispatcher says that it has a claim in hand. *)
HasClaim == \A d \in Services : Stage(d) # "idle" => ClaimOf(d) # None

(* Every step of the users and of the clock. *)
LEMMA UserTypes ==
  ASSUME SchedulesTypeOK, NEW s \in Schedules,
         \/ Create(s) \/ BecomesDue(s) \/ LeaseLapses(s)
         \/ \E status \in {"paused", "active", "deleted"} : Control(s, status)
  PROVE  SchedulesTypeOK'
<1> USE DEF SchedulesTypeOK
<1>1. CASE Create(s)
  <2>1. PICK repeats, due \in BOOLEAN :
          schedules' = [schedules EXCEPT ![s] = [schedules[s] EXCEPT !.status = "active",
                                                !.repeats = repeats, !.due = due]]
    BY <1>1 DEF Create
  <2>2. [schedules[s] EXCEPT !.status = "active", !.repeats = repeats, !.due = due]
          \in ScheduleRecords
    BY DEF ScheduleRecords, ScheduleStatuses
  <2> QED BY <1>1, <2>1, <2>2 DEF Create
<1>2. CASE BecomesDue(s)
  BY <1>2 DEF BecomesDue, ScheduleRecords
<1>3. CASE LeaseLapses(s)
  <2>1. troubles' \in 0 .. MaxTroubles
    BY <1>3, TroubleType DEF LeaseLapses
  <2> QED BY <1>3, <2>1 DEF LeaseLapses, ScheduleRecords
<1>4. ASSUME NEW status \in {"paused", "active", "deleted"}, Control(s, status)
      PROVE  SchedulesTypeOK'
  <2>1. troubles' \in 0 .. MaxTroubles
    BY <1>4, TroubleType DEF Control
  <2>2. schedules[s] \in ScheduleRecords /\ schedules[s].epoch + 1 \in Nat
    BY DEF ScheduleRecords
  <2>3. Controlled(s, status) \in ScheduleRecords
    BY <2>2 DEF Controlled, ScheduleRecords, ScheduleStatuses
  <2>4. schedules' = [schedules EXCEPT ![s] = Controlled(s, status)]
    BY <1>4 DEF Control
  <2>5. schedules' \in [Schedules -> ScheduleRecords]
    BY <2>3, <2>4, ReplaceTypes
  <2> QED BY <1>4, <2>1, <2>5 DEF Control
<1> QED BY <1>1, <1>2, <1>3, <1>4

(* Every step of a run. *)
LEMMA RunTypes ==
  ASSUME SchedulesTypeOK, NEW o \in Occurrences, BeginRun(o) \/ EndRun(o)
  PROVE  SchedulesTypeOK'
BY DEF SchedulesTypeOK, BeginRun, EndRun, RunRecords

(* Every step of a dispatcher that has a claim, and a crash. *)
LEMMA DispatchTypes ==
  ASSUME SchedulesTypeOK, HasClaim, NEW d \in Services, DispatchStep(d)
  PROVE  SchedulesTypeOK'
<1>1. CASE Look(d)
  <2>1. troubles' \in 0 .. MaxTroubles
    BY <1>1, TroubleType DEF Look, SchedulesTypeOK
  <2>2. services' \in [Services -> Dispatchers]
    BY <1>1, GotoType DEF Look, SchedulesTypeOK, DispatcherStages
  <2> QED BY <1>1, <2>1, <2>2 DEF Look, SchedulesTypeOK
<1>2. CASE Seek(d)
  <2>1. services' \in [Services -> Dispatchers]
    BY <1>2, GotoType DEF Seek, SchedulesTypeOK, DispatcherStages
  <2> QED BY <1>2, <2>1 DEF Seek, SchedulesTypeOK
<1>3. CASE Prepare(d)
  <2>1. ClaimOf(d) \in Claims /\ RunOf(ClaimOf(d)) \in Occurrences
    BY <1>3, ClaimType DEF HasClaim, Prepare
  <2>2. troubles' \in 0 .. MaxTroubles
    BY <1>3, TroubleType DEF Prepare, SchedulesTypeOK
  <2>3. services' \in [Services -> Dispatchers]
    BY <1>3, GotoType DEF Prepare, SchedulesTypeOK, DispatcherStages
  <2>4. runs' \in [Occurrences -> RunRecords]
    BY <1>3, <2>1 DEF Prepare, SchedulesTypeOK, RunRecords
  <2> QED BY <1>3, <2>2, <2>3, <2>4 DEF Prepare, SchedulesTypeOK
<1>4. CASE SubmitRun(d)
  <2>1. ClaimOf(d) \in Claims /\ RunOf(ClaimOf(d)) \in Occurrences
    BY <1>4, ClaimType DEF HasClaim, SubmitRun
  <2>2. services' \in [Services -> Dispatchers]
    BY <1>4, GotoType DEF SubmitRun, SchedulesTypeOK, DispatcherStages
  <2>3. runs' \in [Occurrences -> RunRecords]
    BY <1>4, <2>1 DEF SubmitRun, SchedulesTypeOK, RunRecords
  <2> QED BY <1>4, <2>2, <2>3 DEF SubmitRun, SchedulesTypeOK
<1>5. CASE Report(d)
  <2>1. ClaimOf(d) \in Claims
    BY <1>5, ClaimType DEF HasClaim, Report
  <2>2. services' \in [Services -> Dispatchers]
    BY <1>5, GotoType, ProceedType DEF Report, SchedulesTypeOK, DispatcherStages
  <2>3. ClaimOf(d).schedule \in Schedules
    BY <2>1 DEF Claims
  <2>4. Counted(schedules[ClaimOf(d).schedule]) \in ScheduleRecords
    BY <2>3, CountedType DEF SchedulesTypeOK
  <2>5. schedules' \in [Schedules -> ScheduleRecords]
    BY <1>5, <2>3, <2>4 DEF Report, SchedulesTypeOK
  <2> QED BY <1>5, <2>2, <2>5 DEF Report, SchedulesTypeOK
<1>6. CASE ReportError(d)
  <2>1. ClaimOf(d) \in Claims
    BY <1>6, ClaimType DEF HasClaim, ReportError
  <2>2. services' \in [Services -> Dispatchers]
    BY <1>6, ProceedType DEF ReportError, SchedulesTypeOK
  <2>3. ClaimOf(d).schedule \in Schedules
    BY <2>1 DEF Claims
  <2>4. Deferred(schedules[ClaimOf(d).schedule]) \in ScheduleRecords
    BY <2>3, DeferredType DEF SchedulesTypeOK
  <2>5. schedules' \in [Schedules -> ScheduleRecords]
    BY <1>6, <2>3, <2>4 DEF ReportError, SchedulesTypeOK
  <2> QED BY <1>6, <2>2, <2>5 DEF ReportError, SchedulesTypeOK
<1> QED BY <1>1, <1>2, <1>3, <1>4, <1>5, <1>6 DEF DispatchStep

(* A crash. *)
LEMMA CrashTypes ==
  ASSUME SchedulesTypeOK, NEW d \in Services, Crash(d)
  PROVE  SchedulesTypeOK'
<1>1. troubles' \in 0 .. MaxTroubles
  BY TroubleType DEF Crash, SchedulesTypeOK
<1>2. services' \in [Services -> Dispatchers]
  BY IdleType DEF Crash, SchedulesTypeOK
<1>3. runs' \in [Occurrences -> RunRecords]
  BY DEF Crash, SchedulesTypeOK, RunRecords
<1> QED BY <1>1, <1>2, <1>3 DEF Crash, SchedulesTypeOK

(* A dispatcher that is not idle has a claim, after every step. *)
LEMMA HasClaimStep ==
  ASSUME SchedulesTypeOK, HasClaim, [SchedulesNext]_scheduleVars
  PROVE  HasClaim'
<1> SUFFICES ASSUME NEW e \in Services, Stage(e)' # "idle"
             PROVE  ClaimOf(e)' # None
  BY DEF HasClaim
<1>1. ASSUME NEW d \in Services, NEW stage, MoveTo(d, stage), Stage(d) # "idle"
      PROVE  ClaimOf(e)' # None
  BY <1>1 DEF MoveTo, HasClaim, ClaimOf, Stage, SchedulesTypeOK, Dispatchers
<1>2. ASSUME NEW d \in Services, Proceed(d)
      PROVE  ClaimOf(e)' # None
  <2>1. services[d].batch \subseteq Claims
    BY DEF SchedulesTypeOK, Dispatchers
  <2>2. \A c \in services[d].batch : c # None
    BY <2>1, SchedulesAssumption
  <2> QED BY <1>2, <2>2 DEF Proceed, Idle, HasClaim, ClaimOf, Stage, SchedulesTypeOK, Dispatchers
<1>3. CASE UNCHANGED services
  BY <1>3 DEF HasClaim, ClaimOf, Stage
<1>4. ASSUME NEW d \in Services, DispatchStep(d)
      PROVE  ClaimOf(e)' # None
  BY <1>1, <1>2, <1>4 DEF DispatchStep, Look, Seek, Prepare, SubmitRun, Report, ReportError
<1>5. ASSUME NEW d \in Services, Crash(d)
      PROVE  ClaimOf(e)' # None
  BY <1>5 DEF Crash, Idle, HasClaim, ClaimOf, Stage, SchedulesTypeOK, Dispatchers
<1>6. ASSUME NEW d \in Services, Due(d)
      PROVE  ClaimOf(e)' # None
  <2>1. PICK c \in Claims, batch \in SUBSET Claims : services' = [services EXCEPT ![d] =
                             [stage |-> "look", claim |-> c, batch |-> batch]]
    BY <1>6, DueTypes
  <2>2. c # None
    BY SchedulesAssumption
  <2> QED BY <2>1, <2>2 DEF HasClaim, ClaimOf, Stage, SchedulesTypeOK, Dispatchers
<1> QED BY <1>3, <1>4, <1>5, <1>6 DEF SchedulesNext, scheduleVars, Create, Control, BecomesDue,
           LeaseLapses, BeginRun, EndRun

(* Types are kept by every step. *)
LEMMA TypeStep ==
  ASSUME SchedulesTypeOK, HasClaim, [SchedulesNext]_scheduleVars
  PROVE  SchedulesTypeOK'
<1>1. CASE UNCHANGED scheduleVars
  BY <1>1 DEF SchedulesTypeOK, scheduleVars
<1>2. CASE SchedulesNext
  <2>1. ASSUME NEW d \in Services, Due(d)
        PROVE  SchedulesTypeOK'
    BY <2>1, DueTypes DEF Due, SchedulesTypeOK
  <2> QED BY <1>2, <2>1, UserTypes, RunTypes, DispatchTypes, CrashTypes DEF SchedulesNext
<1> QED BY <1>1, <1>2

(* The initial state. *)
LEMMA TypeInit == SchedulesInit => SchedulesTypeOK /\ HasClaim
BY IdleType, SchedulesAssumption
DEF SchedulesInit, SchedulesTypeOK, HasClaim, Stage, Idle, ScheduleRecords, ScheduleStatuses, RunRecords

(* Every reachable state is well typed. *)
THEOREM TypeCorrect == SchedulesSpec => []SchedulesTypeOK
<1>1. SchedulesTypeOK /\ HasClaim /\ [SchedulesNext]_scheduleVars => SchedulesTypeOK' /\ HasClaim'
  BY TypeStep, HasClaimStep
<1> QED BY <1>1, TypeInit, PTL DEF SchedulesSpec

-----------------------------------------------------------------------------
(* An occurrence begins at most once *)

(* Only the runner begins, and what it began no longer looks bootstrapped. *)
BegunIsRecorded ==
  \A o \in Occurrences : runs[o].begun <= 1 /\ (runs[o].record # "begun" => runs[o].begun = 0)

LEMMA BegunStep ==
  ASSUME SchedulesTypeOK, HasClaim, BegunIsRecorded, [SchedulesNext]_scheduleVars
  PROVE  BegunIsRecorded'
<1> USE DEF BegunIsRecorded
<1>1. CASE UNCHANGED runs
  BY <1>1
<1>2. ASSUME NEW d \in Services, Prepare(d)
      PROVE  BegunIsRecorded'
  <2>1. RunOf(ClaimOf(d)) \in Occurrences
    BY <1>2, ClaimType DEF HasClaim, Prepare
  <2> QED BY <1>2, <2>1 DEF Prepare, SchedulesTypeOK, RunRecords
<1>3. ASSUME NEW d \in Services, SubmitRun(d)
      PROVE  BegunIsRecorded'
  <2>1. RunOf(ClaimOf(d)) \in Occurrences
    BY <1>3, ClaimType DEF HasClaim, SubmitRun
  <2> QED BY <1>3, <2>1 DEF SubmitRun, SchedulesTypeOK, RunRecords
<1>4. ASSUME NEW d \in Services, Crash(d)
      PROVE  BegunIsRecorded'
  BY <1>4 DEF Crash, SchedulesTypeOK, RunRecords
<1>5. ASSUME NEW o \in Occurrences, BeginRun(o)
      PROVE  BegunIsRecorded'
  BY <1>5 DEF BeginRun, SchedulesTypeOK, RunRecords
<1>6. ASSUME NEW o \in Occurrences, EndRun(o)
      PROVE  BegunIsRecorded'
  BY <1>6 DEF EndRun, SchedulesTypeOK, RunRecords
<1> QED BY <1>1, <1>2, <1>3, <1>4, <1>5, <1>6 DEF SchedulesNext, scheduleVars, Create, Control,
           BecomesDue, LeaseLapses, Due, DispatchStep, Look, Seek, Report, ReportError

(* However many dispatchers submit the run of an occurrence, and however   *)
(* they and the run are interrupted, it begins at most once.               *)
THEOREM OncePerOccurrenceHolds == SchedulesSpec => []OncePerOccurrence
<1>1. SchedulesInit => BegunIsRecorded
  BY DEF SchedulesInit, BegunIsRecorded
<1>2. SchedulesTypeOK /\ HasClaim /\ BegunIsRecorded /\ [SchedulesNext]_scheduleVars
        => SchedulesTypeOK' /\ HasClaim' /\ BegunIsRecorded'
  BY TypeStep, HasClaimStep, BegunStep
<1>3. BegunIsRecorded => OncePerOccurrence
  BY DEF BegunIsRecorded, OncePerOccurrence
<1> QED BY <1>1, <1>2, <1>3, TypeInit, PTL DEF SchedulesSpec

-----------------------------------------------------------------------------
(* A stopped schedule is changed by its user only *)

Stopped(s) == schedules[s].status \in {"paused", "deleted", "completed"}

(* No lease outlives the stop of its schedule. *)
StoppedIsFree == \A s \in Schedules : Stopped(s) \/ schedules[s].status = "absent"
                                        => ~schedules[s].held

LEMMA StoppedIsFreeStep ==
  ASSUME SchedulesTypeOK, HasClaim, StoppedIsFree, [SchedulesNext]_scheduleVars
  PROVE  StoppedIsFree'
<1> USE DEF StoppedIsFree, Stopped
<1>1. CASE UNCHANGED schedules
  BY <1>1
<1>2. ASSUME NEW s \in Schedules,
             \/ Create(s) \/ BecomesDue(s) \/ LeaseLapses(s)
             \/ \E status \in {"paused", "active", "deleted"} : Control(s, status)
      PROVE  StoppedIsFree'
  <2>1. CASE Create(s)
    BY <2>1 DEF Create, SchedulesTypeOK, ScheduleRecords
  <2>2. CASE BecomesDue(s) \/ LeaseLapses(s)
    BY <2>2 DEF BecomesDue, LeaseLapses, SchedulesTypeOK, ScheduleRecords
  <2>3. ASSUME NEW status \in {"paused", "active", "deleted"}, Control(s, status)
        PROVE  StoppedIsFree'
    BY <2>3 DEF Control, Controlled, SchedulesTypeOK, ScheduleRecords
  <2> QED BY <1>2, <2>1, <2>2, <2>3
<1>3. ASSUME NEW d \in Services, Due(d)
      PROVE  StoppedIsFree'
  BY <1>3 DEF Due, Claimable, Claimed, SchedulesTypeOK, ScheduleRecords
<1>4. ASSUME NEW d \in Services, Report(d) \/ ReportError(d)
      PROVE  StoppedIsFree'
  <2>1. ClaimOf(d).schedule \in Schedules
    BY <1>4, ClaimType DEF HasClaim, Report, ReportError, Claims
  <2> QED BY <1>4, <2>1 DEF Report, ReportError, Counted, Deferred, SchedulesTypeOK, ScheduleRecords
<1> QED BY <1>1, <1>2, <1>3, <1>4 DEF SchedulesNext, scheduleVars, DispatchStep, Look, Seek, Prepare,
           SubmitRun, Crash, BeginRun, EndRun

(* No dispatcher, whenever it claimed, counts, leases or puts off a         *)
(* schedule that was paused, deleted or completed.                         *)
THEOREM StoppedScheduleIsHeld == SchedulesSpec => StoppedScheduleHolds
<1> DEFINE Moves(s) ==
             \/ schedules'[s] \in {schedules[s], [schedules[s] EXCEPT !.due = TRUE]}
             \/ /\ schedules'[s].epoch = schedules[s].epoch + 1 /\ ~schedules'[s].held
                /\ schedules'[s].occurrence = schedules[s].occurrence
                /\ schedules'[s].due = schedules[s].due
           Holds == \A s \in Schedules :
             schedules[s].status \in {"paused", "deleted", "completed"} => Moves(s)
<1>1. ASSUME SchedulesTypeOK, HasClaim, StoppedIsFree, [SchedulesNext]_scheduleVars
      PROVE  Holds
  <2> SUFFICES ASSUME NEW s \in Schedules, Stopped(s)
               PROVE  Moves(s)
    BY DEF Stopped
  <2>1. schedules[s] \in ScheduleRecords /\ ~schedules[s].held
    BY <1>1 DEF SchedulesTypeOK, StoppedIsFree
  <2>2. CASE schedules'[s] = schedules[s]
    BY <2>1, <2>2 DEF ScheduleRecords
  <2>3. ASSUME NEW t \in Schedules, Create(t) \/ BecomesDue(t) \/ LeaseLapses(t)
        PROVE  schedules'[s] \in {schedules[s], [schedules[s] EXCEPT !.due = TRUE]}
    <3>1. CASE s # t
      BY <1>1, <2>1, <2>3, <3>1 DEF Create, BecomesDue, LeaseLapses, SchedulesTypeOK, ScheduleRecords
    <3>2. CASE s = t
      <4>1. BecomesDue(s)
        BY <2>1, <2>3, <3>2 DEF Create, LeaseLapses, Stopped
      <4>2. schedules'[s] = [schedules[s] EXCEPT !.due = TRUE]
        BY <1>1, <4>1 DEF BecomesDue, SchedulesTypeOK
      <4> QED BY <2>1, <4>2 DEF ScheduleRecords
    <3> QED BY <3>1, <3>2
  <2>4. ASSUME NEW t \in Schedules, NEW status \in {"paused", "active", "deleted"},
               Control(t, status)
        PROVE  \/ schedules'[s] = schedules[s]
               \/ schedules'[s].epoch = schedules[s].epoch + 1 /\ ~schedules'[s].held
                  /\ schedules'[s].occurrence = schedules[s].occurrence
                  /\ schedules'[s].due = schedules[s].due
    BY <1>1, <2>1, <2>4 DEF Control, Controlled, SchedulesTypeOK, ScheduleRecords
  <2>5. ASSUME NEW d \in Services, Due(d)
        PROVE  schedules'[s] = schedules[s]
    BY <2>5 DEF Due, Claimable, Stopped
  <2>6. ASSUME NEW d \in Services, Report(d) \/ ReportError(d)
        PROVE  schedules'[s] = schedules[s]
    BY <1>1, <2>6 DEF Report, ReportError, Current, Stopped, SchedulesTypeOK
  <2>7. CASE UNCHANGED schedules
    BY <2>2, <2>7
  <2> QED BY <1>1, <2>2, <2>3, <2>4, <2>5, <2>6, <2>7 DEF SchedulesNext, scheduleVars, DispatchStep,
             Look, Seek, Prepare, SubmitRun, Crash, BeginRun, EndRun
<1>2. SchedulesInit => StoppedIsFree
  BY DEF SchedulesInit, StoppedIsFree
<1>3. SchedulesTypeOK /\ HasClaim /\ StoppedIsFree /\ [SchedulesNext]_scheduleVars
        => SchedulesTypeOK' /\ HasClaim' /\ StoppedIsFree'
  BY TypeStep, HasClaimStep, StoppedIsFreeStep
<1>4. SchedulesTypeOK /\ HasClaim /\ StoppedIsFree /\ [SchedulesNext]_scheduleVars => [Holds]_scheduleVars
  BY <1>1
<1> QED BY <1>2, <1>3, <1>4, TypeInit, PTL DEF SchedulesSpec, StoppedScheduleHolds

-----------------------------------------------------------------------------
(* An occurrence is counted only with its run on record.  The counter      *)
(* moves only for a current claim, so every current claim must name the    *)
(* occurrence that is next, and that needs claims of one epoch to be one.  *)

Holds(d, c) == c = ClaimOf(d) \/ c \in services[d].batch
SameLease(c, g) == c.schedule = g.schedule /\ c.epoch = g.epoch

ClaimsMatch ==
  \A d \in Services, c \in Claims : Holds(d, c) =>
    /\ c.epoch <= schedules[c.schedule].epoch
    /\ c.epoch = schedules[c.schedule].epoch
         => c.occurrence = schedules[c.schedule].occurrence + 1

LeasesDiffer ==
  \A d, e \in Services, c, g \in Claims :
    Holds(d, c) /\ Holds(e, g) /\ SameLease(c, g) => d = e /\ c = g

ClaimIsTaken == \A d \in Services : ClaimOf(d) \notin services[d].batch

ClaimsInv == ClaimsMatch /\ LeasesDiffer /\ ClaimIsTaken

(* A job has a record, and so has what is being submitted or reported. *)
RunsMatch ==
  /\ \A o \in Occurrences : runs[o].job # "none" => runs[o].record # "absent"
  /\ \A d \in Services : Stage(d) \in {"submit", "report"}
                          => runs[RunOf(ClaimOf(d))].record # "absent"

CountedInRange == \A s \in Schedules : schedules[s].occurrence <= MaxOccurrence

RecordsInv == RunsMatch /\ CountedInRange /\ CountedHasRun

(* What a dispatcher holds after it moved on. *)
LEMMA ProceedHolds ==
  ASSUME SchedulesTypeOK, HasClaim, ClaimIsTaken, NEW d \in Services, Stage(d) # "idle", Proceed(d)
  PROVE  /\ ClaimIsTaken'
         /\ \A e \in Services, c \in Claims : Holds(e, c)' => Holds(e, c)
         /\ \A c \in Claims : Holds(d, c)' => c # ClaimOf(d)
         /\ Stage(d)' \notin {"submit", "report"}
         /\ \A e \in Services \ {d} : services'[e] = services[e]
<1>1. ClaimOf(d) # None /\ None \notin services[d].batch
  BY SchedulesAssumption DEF HasClaim, SchedulesTypeOK, Dispatchers
<1>2. CASE services' = [services EXCEPT ![d] = Idle]
  <2>1. services'[d] = Idle /\ \A e \in Services \ {d} : services'[e] = services[e]
    BY <1>2 DEF SchedulesTypeOK
  <2> QED BY <1>1, <2>1, SchedulesAssumption DEF Holds, ClaimOf, Stage, Idle, ClaimIsTaken
<1>3. ASSUME NEW c \in services[d].batch,
             services' = [services EXCEPT ![d] =
                [stage |-> "look", claim |-> c, batch |-> services[d].batch \ {c}]]
      PROVE  /\ ClaimIsTaken'
             /\ \A e \in Services, g \in Claims : Holds(e, g)' => Holds(e, g)
             /\ \A g \in Claims : Holds(d, g)' => g # ClaimOf(d)
             /\ Stage(d)' \notin {"submit", "report"}
             /\ \A e \in Services \ {d} : services'[e] = services[e]
  <2>1. /\ services'[d] = [stage |-> "look", claim |-> c, batch |-> services[d].batch \ {c}]
        /\ \A e \in Services \ {d} : services'[e] = services[e]
    BY <1>3 DEF SchedulesTypeOK
  <2> QED BY <1>3, <2>1 DEF Holds, ClaimOf, Stage, ClaimIsTaken
<1> QED BY <1>2, <1>3 DEF Proceed

(* Claims stay right when none is taken and no schedule turns back.  *)
LEMMA ClaimsKept ==
  ASSUME SchedulesTypeOK, SchedulesTypeOK', ClaimsInv, ClaimIsTaken',
         \A e \in Services, c \in Claims : Holds(e, c)' => Holds(e, c),
         \A s \in Schedules : \/ schedules'[s].epoch > schedules[s].epoch
                              \/ /\ schedules'[s].epoch = schedules[s].epoch
                                 /\ schedules'[s].occurrence = schedules[s].occurrence
  PROVE  ClaimsInv'
<1>1. \A s \in Schedules : schedules[s].epoch \in Nat /\ schedules'[s].epoch \in Nat
  BY DEF SchedulesTypeOK, ScheduleRecords
<1>2. \A c \in Claims : c.schedule \in Schedules /\ c.epoch \in Nat
  BY DEF Claims
<1>3. ClaimsMatch'
  BY <1>1, <1>2 DEF ClaimsInv, ClaimsMatch
<1>4. LeasesDiffer'
  BY DEF ClaimsInv, LeasesDiffer
<1> QED BY <1>3, <1>4 DEF ClaimsInv

(* A step that goes to another stage, or to none, holds what it held. *)
LEMMA SameHolds ==
  ASSUME SchedulesTypeOK, ClaimsInv,
         UNCHANGED services \/ \E d \in Services, stage \in DispatcherStages : MoveTo(d, stage)
  PROVE  /\ ClaimIsTaken'
         /\ \A e \in Services, c \in Claims : Holds(e, c)' => Holds(e, c)
         /\ \A e \in Services : ClaimOf(e)' = ClaimOf(e)
BY DEF MoveTo, Holds, ClaimOf, ClaimsInv, ClaimIsTaken, SchedulesTypeOK, Dispatchers

(* The two steps that move the schedule of a claim forward: due() hands    *)
(* out claims of a new epoch each, and a current report gives its own up.  *)
LEMMA DueClaims ==
  ASSUME SchedulesTypeOK, SchedulesTypeOK', ClaimsInv, NEW d \in Services, Due(d)
  PROVE  ClaimsInv'
<1> DEFINE claimed == {s \in Schedules : Claimable(s) /\ schedules[s].occurrence < MaxOccurrence}
           copies  == {[schedule |-> s, occurrence |-> schedules[s].occurrence + 1,
                        epoch |-> schedules[s].epoch + 1] : s \in claimed}
<1>1. PICK c \in copies : services' = [services EXCEPT ![d] =
                            [stage |-> "look", claim |-> c, batch |-> copies \ {c}]]
  BY DEF Due
<1>2. schedules' = [s \in Schedules |-> IF s \in claimed THEN Claimed(s) ELSE schedules[s]]
  BY DEF Due
<1>3. \A s \in Schedules :
        /\ schedules[s].epoch \in Nat /\ schedules'[s].epoch \in Nat
        /\ schedules'[s].occurrence = schedules[s].occurrence
        /\ s \in claimed => schedules'[s].epoch = schedules[s].epoch + 1
        /\ s \notin claimed => schedules'[s].epoch = schedules[s].epoch
  BY <1>2 DEF Claimed, SchedulesTypeOK, ScheduleRecords
<1>4. \A g \in copies : /\ g.schedule \in claimed
                       /\ g.epoch = schedules[g.schedule].epoch + 1
                       /\ g.occurrence = schedules[g.schedule].occurrence + 1
                       /\ \A h \in copies : g.schedule = h.schedule => g = h
  OBVIOUS
<1>5. \A g \in copies : g.schedule \in Schedules
  BY <1>4
<1> HIDE DEF copies, claimed
<1>6. services'[d] = [stage |-> "look", claim |-> c, batch |-> copies \ {c}]
      /\ \A e \in Services \ {d} : services'[e] = services[e]
  BY <1>1 DEF SchedulesTypeOK
<1>7. \A e \in Services, g \in Claims : Holds(e, g)' =>
        \/ e = d /\ g \in copies
        \/ e # d /\ Holds(e, g)
  BY <1>6 DEF Holds, ClaimOf
<1>8. \A g \in Claims : g.schedule \in Schedules /\ g.epoch \in Nat
  BY DEF Claims
<1>9. ClaimsMatch'
  <2> SUFFICES ASSUME NEW e \in Services, NEW g \in Claims, Holds(e, g)'
               PROVE  /\ g.epoch <= schedules'[g.schedule].epoch
                      /\ g.epoch = schedules'[g.schedule].epoch
                           => g.occurrence = schedules'[g.schedule].occurrence + 1
    BY DEF ClaimsMatch
  <2>1. CASE g \in copies
    BY <2>1, <1>3, <1>4, <1>5
  <2>2. CASE Holds(e, g)
    <3>1. /\ g.epoch <= schedules[g.schedule].epoch
          /\ g.epoch = schedules[g.schedule].epoch
               => g.occurrence = schedules[g.schedule].occurrence + 1
      BY <2>2 DEF ClaimsInv, ClaimsMatch
    <3> QED BY <3>1, <1>3, <1>8
  <2> QED BY <1>7, <2>1, <2>2
<1>10. LeasesDiffer'
  <2> SUFFICES ASSUME NEW e \in Services, NEW f \in Services, NEW g \in Claims, NEW h \in Claims,
                      Holds(e, g)', Holds(f, h)', SameLease(g, h)
               PROVE  e = f /\ g = h
    BY DEF LeasesDiffer
  <2>1. \A k \in Services, i \in Claims : Holds(k, i) => i.epoch <= schedules[i.schedule].epoch
    BY DEF ClaimsInv, ClaimsMatch
  <2>2. \A i, j \in Claims : i \in copies /\ (\E k \in Services : Holds(k, j))
                              => ~SameLease(i, j)
    BY <2>1, <1>3, <1>4, <1>8 DEF SameLease
  <2>3. CASE e = d /\ f = d
    BY <2>3, <1>4, <1>7 DEF SameLease
  <2>4. CASE e # d /\ f # d
    BY <2>4, <1>7 DEF ClaimsInv, LeasesDiffer
  <2>5. CASE e # f /\ (e = d \/ f = d)
    <3>1. SameLease(h, g)
      BY DEF SameLease
    <3> QED BY <3>1, <2>2, <2>5, <1>7
  <2> QED BY <2>3, <2>4, <2>5
<1>11. ClaimIsTaken'
  BY <1>6 DEF ClaimsInv, ClaimIsTaken, ClaimOf
<1> QED BY <1>9, <1>10, <1>11 DEF ClaimsInv

LEMMA ReportClaims ==
  ASSUME SchedulesTypeOK, SchedulesTypeOK', HasClaim, ClaimsInv, NEW d \in Services, Report(d),
         Current(ClaimOf(d))
  PROVE  ClaimsInv'
<1> DEFINE c == ClaimOf(d)
<1>1. c \in Claims /\ c.schedule \in Schedules
  BY ClaimType DEF HasClaim, Report, Claims
<1>2. Proceed(d) /\ schedules' = [schedules EXCEPT ![c.schedule] = Counted(@)]
  BY DEF Report
<1>3. /\ ClaimIsTaken'
      /\ \A e \in Services, g \in Claims : Holds(e, g)' => Holds(e, g)
      /\ \A g \in Claims : Holds(d, g)' => g # c
  BY <1>2, ProceedHolds DEF ClaimsInv, Report
<1>4. \A s \in Schedules : schedules'[s].epoch = schedules[s].epoch
                          /\ (s # c.schedule => schedules'[s] = schedules[s])
  BY <1>1, <1>2 DEF Counted, SchedulesTypeOK, ScheduleRecords
<1>5. LeasesDiffer'
  BY <1>3 DEF ClaimsInv, LeasesDiffer
<1>6. ClaimsMatch'
  <2> SUFFICES ASSUME NEW e \in Services, NEW g \in Claims, Holds(e, g)'
               PROVE  /\ g.epoch <= schedules'[g.schedule].epoch
                      /\ g.epoch = schedules'[g.schedule].epoch
                           => g.occurrence = schedules'[g.schedule].occurrence + 1
    BY DEF ClaimsMatch
  <2>1. Holds(e, g) /\ Holds(d, c)
    BY <1>3 DEF Holds
  <2>2. /\ g.schedule \in Schedules
        /\ g.epoch <= schedules[g.schedule].epoch
        /\ g.epoch = schedules[g.schedule].epoch
             => g.occurrence = schedules[g.schedule].occurrence + 1
    BY <2>1 DEF ClaimsInv, ClaimsMatch, Claims
  <2>3. CASE g.schedule # c.schedule
    BY <1>4, <2>2, <2>3
  <2>4. CASE g.schedule = c.schedule /\ g.epoch # c.epoch
    <3>1. c.epoch = schedules[c.schedule].epoch
      BY DEF Current
    <3> QED BY <1>1, <1>4, <2>2, <2>4, <3>1
  <2>5. CASE SameLease(g, c)
    <3>1. e = d /\ g = c
      BY <1>1, <2>1, <2>5 DEF ClaimsInv, LeasesDiffer
    <3> QED BY <1>3, <3>1
  <2> QED BY <2>3, <2>4, <2>5 DEF SameLease
<1> QED BY <1>3, <1>5, <1>6 DEF ClaimsInv

(* Every step keeps the claims right. *)
LEMMA ClaimsStep ==
  ASSUME SchedulesTypeOK, HasClaim, ClaimsInv, [SchedulesNext]_scheduleVars
  PROVE  ClaimsInv'
<1> DEFINE Ahead == \A s \in Schedules :
             \/ schedules'[s].epoch > schedules[s].epoch
             \/ /\ schedules'[s].epoch = schedules[s].epoch
                /\ schedules'[s].occurrence = schedules[s].occurrence
           Kept == ClaimIsTaken' /\ \A e \in Services, c \in Claims : Holds(e, c)' => Holds(e, c)
<1>1. SchedulesTypeOK'
  BY TypeStep
<1>2. ASSUME Ahead, Kept
      PROVE  ClaimsInv'
  BY <1>1, <1>2, ClaimsKept
<1>3. UNCHANGED services => Kept
  BY SameHolds
<1>4. UNCHANGED schedules => Ahead
  OBVIOUS
<1>5. ASSUME NEW d \in Services, NEW stage \in DispatcherStages, MoveTo(d, stage)
      PROVE  Kept
  BY <1>5, SameHolds
<1> HIDE DEF Ahead, Kept
<1>6. ASSUME NEW s \in Schedules, Create(s) \/ BecomesDue(s) \/ LeaseLapses(s)
      PROVE  ClaimsInv'
  <2>1. Ahead
    <3>1. CASE Create(s)
      BY <3>1 DEF Ahead, Create, SchedulesTypeOK, ScheduleRecords
    <3>2. CASE BecomesDue(s)
      BY <3>2 DEF Ahead, BecomesDue, SchedulesTypeOK, ScheduleRecords
    <3>3. CASE LeaseLapses(s)
      BY <3>3 DEF Ahead, LeaseLapses, SchedulesTypeOK, ScheduleRecords
    <3> QED BY <1>6, <3>1, <3>2, <3>3
  <2>2. UNCHANGED services
    BY <1>6 DEF Create, BecomesDue, LeaseLapses
  <2> QED BY <1>2, <1>3, <2>1, <2>2
<1>7. ASSUME NEW s \in Schedules, NEW status \in {"paused", "active", "deleted"},
             Control(s, status)
      PROVE  ClaimsInv'
  <2>1. Ahead
    <3>1. schedules[s].epoch \in Nat /\ Controlled(s, status).epoch = schedules[s].epoch + 1
      BY DEF Controlled, SchedulesTypeOK, ScheduleRecords
    <3>2. schedules'[s] = Controlled(s, status)
          /\ \A t \in Schedules \ {s} : schedules'[t] = schedules[t]
      BY <1>7 DEF Control, SchedulesTypeOK
    <3> QED BY <3>1, <3>2 DEF Ahead
  <2> QED BY <1>2, <1>3, <1>7, <2>1 DEF Control
<1>8. ASSUME NEW d \in Services, Look(d) \/ Seek(d) \/ Prepare(d) \/ SubmitRun(d)
      PROVE  ClaimsInv'
  <2>1. Kept
    BY <1>5, <1>8 DEF Look, Seek, Prepare, SubmitRun, DispatcherStages
  <2>2. UNCHANGED schedules
    BY <1>8 DEF Look, Seek, Prepare, SubmitRun
  <2> QED BY <1>2, <1>4, <2>1, <2>2
<1>9. ASSUME NEW d \in Services, Report(d)
      PROVE  ClaimsInv'
  <2>1. CASE Current(ClaimOf(d))
    BY <1>1, <1>9, <2>1, ReportClaims
  <2>2. CASE ~Current(ClaimOf(d))
    <3>1. MoveTo(d, "error") /\ UNCHANGED schedules
      BY <1>9, <2>2 DEF Report
    <3> QED BY <1>2, <1>4, <1>5, <3>1 DEF DispatcherStages
  <2> QED BY <2>1, <2>2
<1>10. ASSUME NEW d \in Services, ReportError(d)
       PROVE  ClaimsInv'
  <2>1. Kept
    BY <1>10, ProceedHolds DEF Kept, ReportError, ClaimsInv
  <2>2. ClaimOf(d).schedule \in Schedules
    BY <1>10, ClaimType DEF HasClaim, ReportError, Claims
  <2>3. Ahead
    BY <1>10, <2>2 DEF Ahead, ReportError, Deferred, SchedulesTypeOK, ScheduleRecords
  <2> QED BY <1>2, <2>1, <2>3
<1>11. ASSUME NEW d \in Services, Crash(d)
       PROVE  ClaimsInv'
  <2>1. services'[d] = Idle /\ \A e \in Services \ {d} : services'[e] = services[e]
    BY <1>11 DEF Crash, SchedulesTypeOK
  <2>2. Kept
    BY <2>1, SchedulesAssumption DEF Kept, Holds, ClaimOf, Idle, ClaimsInv, ClaimIsTaken
  <2> QED BY <1>2, <1>4, <1>11, <2>2 DEF Crash
<1>12. ASSUME NEW o \in Occurrences, BeginRun(o) \/ EndRun(o)
       PROVE  ClaimsInv'
  BY <1>2, <1>3, <1>4, <1>12 DEF BeginRun, EndRun
<1>13. ASSUME NEW d \in Services, Due(d)
       PROVE  ClaimsInv'
  BY <1>1, <1>13, DueClaims
<1>14. CASE UNCHANGED scheduleVars
  BY <1>2, <1>3, <1>4, <1>14 DEF scheduleVars
<1> QED BY <1>6, <1>7, <1>8, <1>9, <1>10, <1>11, <1>12, <1>13, <1>14
        DEF SchedulesNext, DispatchStep

(* A record that was made stays. *)
LEMMA RecordsStay ==
  ASSUME SchedulesTypeOK, HasClaim, [SchedulesNext]_scheduleVars
  PROVE  \A o \in Occurrences : runs[o].record # "absent" => runs'[o].record # "absent"
<1>1. CASE UNCHANGED runs
  BY <1>1
<1>2. ASSUME NEW d \in Services, Prepare(d) \/ SubmitRun(d)
      PROVE  \A o \in Occurrences : runs[o].record # "absent" => runs'[o].record # "absent"
  <2>1. RunOf(ClaimOf(d)) \in Occurrences
    BY <1>2, ClaimType DEF HasClaim, Prepare, SubmitRun
  <2> QED BY <1>2, <2>1 DEF Prepare, SubmitRun, SchedulesTypeOK, RunRecords
<1>3. ASSUME NEW d \in Services, Crash(d)
      PROVE  \A o \in Occurrences : runs[o].record # "absent" => runs'[o].record # "absent"
  BY <1>3 DEF Crash, SchedulesTypeOK, RunRecords
<1>4. ASSUME NEW o \in Occurrences, BeginRun(o) \/ EndRun(o)
      PROVE  \A p \in Occurrences : runs[p].record # "absent" => runs'[p].record # "absent"
  BY <1>4 DEF BeginRun, EndRun, SchedulesTypeOK, RunRecords
<1> QED BY <1>1, <1>2, <1>3, <1>4 DEF SchedulesNext, scheduleVars, Create, Control,
           BecomesDue, LeaseLapses, Due, DispatchStep, Look, Seek, Report, ReportError

(* A job has a record, and a dispatcher submits and reports what has one. *)
LEMMA RunsMatchStep ==
  ASSUME SchedulesTypeOK, HasClaim, ClaimsInv, RunsMatch, [SchedulesNext]_scheduleVars
  PROVE  RunsMatch'
<1> DEFINE JobsMatch == \A o \in Occurrences : runs[o].job # "none" => runs[o].record # "absent"
           At(d) == Stage(d) \in {"submit", "report"} => runs[RunOf(ClaimOf(d))].record # "absent"
<1>1. JobsMatch'
  <2>1. CASE UNCHANGED runs
    BY <2>1 DEF RunsMatch
  <2>2. ASSUME NEW d \in Services, Prepare(d) \/ SubmitRun(d)
        PROVE  JobsMatch'
    <3>1. RunOf(ClaimOf(d)) \in Occurrences
      BY <2>2, ClaimType DEF HasClaim, Prepare, SubmitRun
    <3>2. CASE Prepare(d)
      BY <3>1, <3>2 DEF Prepare, RunsMatch, SchedulesTypeOK, RunRecords
    <3>3. CASE SubmitRun(d)
      BY <3>1, <3>3 DEF SubmitRun, RunsMatch, SchedulesTypeOK, RunRecords
    <3> QED BY <2>2, <3>2, <3>3
  <2>3. ASSUME NEW d \in Services, Crash(d)
        PROVE  JobsMatch'
    BY <2>3 DEF Crash, JobActive, RunsMatch, SchedulesTypeOK, RunRecords
  <2>4. ASSUME NEW o \in Occurrences, BeginRun(o) \/ EndRun(o)
        PROVE  JobsMatch'
    BY <2>4 DEF BeginRun, EndRun, RunsMatch, SchedulesTypeOK, RunRecords
  <2> QED BY <2>1, <2>2, <2>3, <2>4 DEF SchedulesNext, scheduleVars, Create, Control,
             BecomesDue, LeaseLapses, Due, DispatchStep, Look, Seek, Report, ReportError
<1>2. ASSUME NEW e \in Services, Stage(e)' \in {"submit", "report"}
      PROVE  (runs[RunOf(ClaimOf(e))].record)' # "absent"
  <2> DEFINE Goal == (runs[RunOf(ClaimOf(e))].record)' # "absent"
  <2>1. ASSUME services'[e] = services[e]
        PROVE  Goal
    <3>1. Stage(e) \in {"submit", "report"} /\ ClaimOf(e)' = ClaimOf(e)
      BY <1>2, <2>1 DEF Stage, ClaimOf
    <3>2. RunOf(ClaimOf(e)) \in Occurrences
      BY <3>1, ClaimType DEF HasClaim
    <3>3. runs[RunOf(ClaimOf(e))].record # "absent"
      BY <3>1 DEF RunsMatch
    <3> QED BY <3>1, <3>2, <3>3, RecordsStay DEF RunOf
  <2>2. ASSUME NEW d \in Services, NEW stage, MoveTo(d, stage)
        PROVE  /\ ClaimOf(e)' = ClaimOf(e)
               /\ e # d => services'[e] = services[e]
               /\ e = d => Stage(e)' = stage
    BY <2>2 DEF MoveTo, ClaimOf, Stage, SchedulesTypeOK, Dispatchers
  <2>3. ASSUME NEW d \in Services, Look(d)
        PROVE  Goal
    BY <1>2, <2>1, <2>2, <2>3 DEF Look
  <2>4. ASSUME NEW d \in Services, Seek(d)
        PROVE  Goal
    <3>1. RunOf(ClaimOf(d)) \in Occurrences
      BY <2>4, ClaimType DEF HasClaim, Seek
    <3>2. CASE e = d
      BY <1>2, <2>2, <2>4, <3>1, <3>2 DEF Seek, RunsMatch, RunOf
    <3> QED BY <2>1, <2>2, <2>4, <3>2 DEF Seek
  <2>5. ASSUME NEW d \in Services, Prepare(d)
        PROVE  Goal
    <3>1. RunOf(ClaimOf(d)) \in Occurrences
      BY <2>5, ClaimType DEF HasClaim, Prepare
    <3>2. CASE e = d
      BY <1>2, <2>2, <2>5, <3>1, <3>2 DEF Prepare, RunOf, SchedulesTypeOK, RunRecords
    <3> QED BY <2>1, <2>2, <2>5, <3>2 DEF Prepare
  <2>6. ASSUME NEW d \in Services, SubmitRun(d)
        PROVE  Goal
    <3>1. RunOf(ClaimOf(d)) \in Occurrences /\ runs[RunOf(ClaimOf(d))].record # "absent"
      BY <2>6, ClaimType DEF HasClaim, SubmitRun, RunsMatch
    <3>2. CASE e = d
      <4>1. ClaimOf(e)' = ClaimOf(d)
        BY <2>2, <2>6, <3>2 DEF SubmitRun
      <4> QED BY <3>1, <4>1, RecordsStay DEF RunOf
    <3> QED BY <2>1, <2>2, <2>6, <3>2 DEF SubmitRun
  <2>7. ASSUME NEW d \in Services, Report(d) \/ ReportError(d)
        PROVE  Goal
    <3>1. Stage(d) # "idle"
      BY <2>7 DEF Report, ReportError
    <3>2. CASE Proceed(d)
      BY <1>2, <2>1, <3>1, <3>2, ProceedHolds DEF ClaimsInv
    <3>3. CASE MoveTo(d, "error")
      BY <1>2, <2>1, <2>2, <3>3
    <3> QED BY <2>7, <3>2, <3>3 DEF Report, ReportError
  <2>8. ASSUME NEW d \in Services, Due(d) \/ Crash(d)
        PROVE  Goal
    <3>1. (e # d => services'[e] = services[e]) /\ Stage(d)' \in {"look", "idle"}
      BY <2>8 DEF Due, Crash, Idle, Stage, SchedulesTypeOK
    <3> QED BY <1>2, <2>1, <3>1
  <2>9. CASE UNCHANGED services
    BY <2>1, <2>9
  <2> QED BY <2>3, <2>4, <2>5, <2>6, <2>7, <2>8, <2>9 DEF SchedulesNext, scheduleVars, DispatchStep,
             Create, Control, BecomesDue, LeaseLapses, BeginRun, EndRun
<1> QED BY <1>1, <1>2 DEF RunsMatch

(* Only a current report moves a counter, to the occurrence it claimed. *)
LEMMA OccurrenceMoves ==
  ASSUME SchedulesTypeOK, HasClaim, ClaimsInv, [SchedulesNext]_scheduleVars, NEW s \in Schedules
  PROVE  \/ schedules'[s].occurrence = schedules[s].occurrence
         \/ \E d \in Services :
              /\ Stage(d) = "report" /\ ClaimOf(d) \in Claims /\ ClaimOf(d).schedule = s
              /\ schedules'[s].occurrence = schedules[s].occurrence + 1
              /\ schedules'[s].occurrence = ClaimOf(d).occurrence
<1> DEFINE Same == schedules'[s].occurrence = schedules[s].occurrence
<1>1. CASE UNCHANGED schedules
  BY <1>1
<1>2. ASSUME NEW t \in Schedules, Create(t)
      PROVE  Same
  BY <1>2 DEF Create, SchedulesTypeOK, ScheduleRecords
<1>3. ASSUME NEW t \in Schedules, BecomesDue(t) \/ LeaseLapses(t)
      PROVE  Same
  BY <1>3 DEF BecomesDue, LeaseLapses, SchedulesTypeOK, ScheduleRecords
<1>4. ASSUME NEW t \in Schedules, NEW status \in {"paused", "active", "deleted"},
             Control(t, status)
      PROVE  Same
  BY <1>4 DEF Control, Controlled, SchedulesTypeOK, ScheduleRecords
<1>5. ASSUME NEW d \in Services, Due(d)
      PROVE  Same
  BY <1>5 DEF Due, Claimed, SchedulesTypeOK, ScheduleRecords
<1>6. ASSUME NEW d \in Services, ReportError(d)
      PROVE  Same
  BY <1>6 DEF ReportError, Deferred, SchedulesTypeOK, ScheduleRecords
<1>7. ASSUME NEW d \in Services, Report(d), ~Same
      PROVE  /\ Stage(d) = "report" /\ ClaimOf(d) \in Claims /\ ClaimOf(d).schedule = s
             /\ schedules'[s].occurrence = schedules[s].occurrence + 1
             /\ schedules'[s].occurrence = ClaimOf(d).occurrence
  <2>1. ClaimOf(d) \in Claims /\ Stage(d) = "report"
    BY <1>7, ClaimType DEF HasClaim, Report
  <2>2. ClaimOf(d).schedule = s /\ Current(ClaimOf(d))
        /\ schedules'[s] = Counted(schedules[s])
    BY <1>7 DEF Report, SchedulesTypeOK
  <2>3. schedules'[s].occurrence = schedules[s].occurrence + 1
    BY <2>2 DEF Counted, SchedulesTypeOK, ScheduleRecords
  <2>4. ClaimOf(d).occurrence = schedules[s].occurrence + 1
    BY <2>1, <2>2 DEF ClaimsInv, ClaimsMatch, Holds, Current
  <2> QED BY <2>1, <2>2, <2>3, <2>4
<1> QED BY <1>1, <1>2, <1>3, <1>4, <1>5, <1>6, <1>7 DEF SchedulesNext, scheduleVars, DispatchStep,
           Look, Seek, Prepare, SubmitRun, Crash, BeginRun, EndRun

(* Every counted occurrence has its run on record. *)
LEMMA CountedStep ==
  ASSUME SchedulesTypeOK, HasClaim, ClaimsInv, RecordsInv, [SchedulesNext]_scheduleVars
  PROVE  CountedInRange' /\ CountedHasRun'
<1> SUFFICES ASSUME NEW s \in Schedules
             PROVE  /\ schedules'[s].occurrence <= MaxOccurrence
                    /\ \A n \in 1 .. schedules'[s].occurrence :
                         runs'[<<s, n>>].record # "absent"
  BY DEF CountedInRange, CountedHasRun
<1>1. schedules[s].occurrence \in Nat /\ schedules[s].occurrence <= MaxOccurrence
  BY DEF SchedulesTypeOK, ScheduleRecords, RecordsInv, CountedInRange
<1>2. \A n \in 1 .. schedules[s].occurrence :
        <<s, n>> \in Occurrences /\ runs'[<<s, n>>].record # "absent"
  <2> TAKE n \in 1 .. schedules[s].occurrence
  <2>1. n \in 1 .. MaxOccurrence
    BY <1>1, SchedulesAssumption
  <2>2. <<s, n>> \in Occurrences
    BY <2>1 DEF Occurrences
  <2>3. runs[<<s, n>>].record # "absent"
    BY DEF RecordsInv, CountedHasRun
  <2> QED BY <2>2, <2>3, RecordsStay
<1>3. CASE schedules'[s].occurrence = schedules[s].occurrence
  BY <1>1, <1>2, <1>3
<1>4. ASSUME NEW d \in Services, Stage(d) = "report", ClaimOf(d) \in Claims,
             ClaimOf(d).schedule = s,
             schedules'[s].occurrence = schedules[s].occurrence + 1,
             schedules'[s].occurrence = ClaimOf(d).occurrence
      PROVE  /\ schedules'[s].occurrence <= MaxOccurrence
             /\ \A n \in 1 .. schedules'[s].occurrence :
                  runs'[<<s, n>>].record # "absent"
  <2>1. ClaimOf(d).occurrence \in 1 .. MaxOccurrence
    BY <1>4 DEF Claims
  <2>2. RunOf(ClaimOf(d)) = <<s, schedules'[s].occurrence>>
        /\ RunOf(ClaimOf(d)) \in Occurrences
    BY <1>4, <2>1 DEF RunOf, Occurrences
  <2>3. runs[RunOf(ClaimOf(d))].record # "absent"
    BY <1>4 DEF RecordsInv, RunsMatch
  <2>4. runs'[<<s, schedules'[s].occurrence>>].record # "absent"
    BY <2>2, <2>3, RecordsStay
  <2> QED BY <1>1, <1>2, <1>4, <2>1, <2>4, SchedulesAssumption
<1> QED BY <1>3, <1>4, OccurrenceMoves

(* The counter never runs ahead of the runs, whichever dispatcher reports, *)
(* with whatever delay, and whatever was claimed again in between.         *)
THEOREM CountedHasRunHolds == SchedulesSpec => []CountedHasRun
<1> DEFINE Inv == SchedulesTypeOK /\ HasClaim /\ ClaimsInv /\ RecordsInv
<1>1. SchedulesInit => Inv
  <2> SUFFICES ASSUME SchedulesInit
               PROVE  Inv
    OBVIOUS
  <2>1. SchedulesTypeOK /\ HasClaim
    BY TypeInit
  <2>2. ClaimsInv
    BY SchedulesAssumption DEF SchedulesInit, Idle, ClaimsInv, ClaimsMatch, LeasesDiffer,
       ClaimIsTaken, Holds, ClaimOf
  <2>3. RunsMatch
    BY DEF SchedulesInit, Idle, RunsMatch, Stage
  <2>4. CountedInRange /\ CountedHasRun
    BY SchedulesAssumption DEF SchedulesInit, CountedInRange, CountedHasRun
  <2> QED BY <2>1, <2>2, <2>3, <2>4 DEF RecordsInv
<1>2. Inv /\ [SchedulesNext]_scheduleVars => Inv'
  BY TypeStep, HasClaimStep, ClaimsStep, RunsMatchStep, CountedStep DEF RecordsInv
<1>3. Inv => CountedHasRun
  BY DEF RecordsInv
<1> HIDE DEF Inv
<1> QED BY <1>1, <1>2, <1>3, PTL DEF SchedulesSpec
=============================================================================
