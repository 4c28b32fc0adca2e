---------------------------- MODULE TaskRunProofs ----------------------------
(***************************************************************************)
(* Theorems about TaskRun, for any jobs, tasks and bounds: types, what an  *)
(* activation that ended leaves behind, and that a change succeeds on a    *)
(* verification of what the supervisor wrote last.                         *)
(*                                                                         *)
(* And about CodingFlow, the other way a task is run, for any number of    *)
(* repairs: it edits with permission and succeeds on a verification.       *)
(***************************************************************************)
EXTENDS TaskRun, CodingFlow, NaturalsInduction, WellFoundedInduction, TLAPS

(* The instances of TaskRun that make sense. *)
Sensible ==
  /\ Specs \subseteq EverySpec
  /\ MaxEdits \in Nat /\ MaxActivations \in Nat /\ MaxRestarts \in Nat

-----------------------------------------------------------------------------
(* The inductive invariants *)

Unstarted  == {"none", "queued", "begin", "acquire"}
Opening    == {"start", "setup", "decide", "open", "gate", "build"}
Closing    == {"list", "teardown", "release"}

(* A container slot is held from acquire to release, over and above those  *)
(* that were lost.                                                         *)
SlotIsHeld == slot.taken = slot.lost + IF thread.stage \in Unstarted THEN 0 ELSE 1

(* The supervisor opens with a copy of the record. *)
CopyIsThere == thread.stage \in {"decide", "open", "gate"} => thread.copy \in Records

(* The record is active as long as the supervisor works, and so is the     *)
(* copy it saves; it has its verdict when the supervisor closes, unless    *)
(* the run failed with an exception, which the runner's handler records if *)
(* it does not escape it.                                                  *)
RecordFollows ==
  ~web.rewound =>
    /\ thread.stage \in {"decide", "open", "gate"} => thread.copy.status = "active"
    /\ thread.stage \in Opening \cup {"prepare"} \cup Supervised => record.status = "active"
    /\ thread.stage \in Closing /\ thread.result # "raised" => record.status # "active"
    /\ At("none") /\ ~thread.escaped => record.status # "active"
    /\ record.status = "waiting" => request = "pending"

(* Jobs live under a supervisor; the teardown has all of them on its list, *)
(* but those that were started since.                                      *)
JobsAreListed ==
  ~thread.broken =>
    /\ thread.stage \in Unstarted \cup Opening \cup {"release"} => LiveJobs \subseteq web.woken
    /\ At("teardown") => LiveJobs \subseteq thread.listed \cup web.woken

(* What is about to be judged is what the verification looked at, or has   *)
(* been changed by a terminal since.                                       *)
ChangeIsChecked ==
  /\ At("read") /\ thread.diff # 0 => work.checked = work.edits \/ work.late
  /\ At("save") /\ thread.diff # 0 => work.checked = thread.diff \/ work.late

RunInv == TypeOK /\ CopyIsThere /\ SlotIsHeld /\ RecordFollows /\ JobsAreListed /\ ChangeIsChecked

-----------------------------------------------------------------------------
(* Which steps write which part of the state *)

LEMMA Writers ==
  ASSUME [Next]_vars
  PROVE  /\ spec' = spec
         /\ \/ record' = record
            \/ Claim \/ Begin \/ BeginRaises \/ NotAcquired \/ Acquire \/ AcquireLoses
            \/ Release \/ StopRaises \/ Open \/ Gate \/ AwaitApproval \/ Save
            \/ LetterSaves \/ Restart
         /\ \/ control' = control
            \/ Begin \/ BeginRaises \/ CollectTimesOut \/ Collect \/ Resume \/ StopWrites
            \/ LetterSaves
         /\ goal' = goal \/ Open \/ Gate \/ AwaitApproval \/ Save
         /\ request' = request \/ Decide \/ AgentAsks
         /\ \/ job' = job \/ Build \/ LetterSaves \/ Restart
            \/ \E j \in Jobs : \/ PauseJob(j) \/ AgentStartsJob(j) \/ JobEnds(j)
                              \/ JobStops(j) \/ JobResumes(j)
         /\ \/ work' = work \/ Ralph \/ Verify \/ AgentEdits
            \/ \E j \in Jobs : JobEdits(j)
         /\ \/ thread' = thread
            \/ ThreadStep \/ Resume \/ Rerun \/ VoteSubmits \/ LetterSaves \/ Restart
         /\ slot' = slot \/ Acquire \/ AcquireLoses \/ Release \/ StopRaises \/ Restart
         /\ \/ web' = web \/ ListJobs
            \/ StopReads \/ StopWrites \/ VoteReads \/ VoteSubmits \/ LetterReads
            \/ LetterSaves \/ Restart
            \/ \E j \in Jobs : JobResumes(j)
         /\ activations' = activations \/ Resume \/ Rerun \/ VoteSubmits \/ LetterSaves
         /\ restarts' = restarts \/ Restart
<1>1. CASE UNCHANGED vars
  BY <1>1 DEF vars
<1>2. CASE Next
  BY ZenonT(60), <1>2
  DEF Next, ThreadStep, vars, Store, Rest, Claim, Begin, BeginRaises, NotAcquired, Acquire,
     AcquireLoses, Raises, Start, Setup, Decide, Release, StopRaises, Open, Gate, Build,
     Enter, AgentReturns, AgentRaises, CollectStops, CollectTimesOut, Collect, Ralph,
     AwaitApproval, Recover, Judge, Verify, ReadControl, Save, ListJobs, TornDown,
     TeardownRaises, PauseJob, AgentEdits, AgentAsks, AgentStartsJob, JobEdits, JobEnds,
     JobStops, JobResumes, Resume, Rerun, StopReads, StopWrites, VoteReads, VoteSubmits,
     LetterReads, LetterSaves, Restart
<1> QED BY <1>1, <1>2

-----------------------------------------------------------------------------
(* Types *)

(* A thread goes on, begins and ends as a thread. *)
LEMMA MovedType ==
  ASSUME thread \in Threads, NEW s \in Stages
  PROVE  [thread EXCEPT !.stage = s] \in Threads
BY DEF Threads

LEMMA ReturnedType ==
  ASSUME thread \in Threads, NEW s \in Stages,
         NEW r \in {"none", "ok", "failed", "raised"}
  PROVE  [thread EXCEPT !.stage = s, !.result = r] \in Threads
BY DEF Threads

LEMMA CollectedType ==
  ASSUME thread \in Threads, NEW r \in {"none", "ok", "failed", "raised"}
  PROVE  AfterCollect(r) \in Threads
<1> DEFINE s == IF spec.ralph THEN "rounds" ELSE "judge"
<1>1. s \in Stages /\ AfterCollect(r) = [thread EXCEPT !.stage = s, !.result = r]
  BY DEF Stages, AfterCollect
<1> HIDE DEF s
<1> QED BY ZenonT(40), <1>1, ReturnedType

LEMMA ActivationType ==
  ASSUME Sensible, NEW kind \in {"run", "resume", "rerun", "approval"},
         NEW vote \in {"none", "approved", "rejected"}
  PROVE  Activation(kind, vote) \in Threads
BY DEF Sensible, Activation, Threads, Stages, Controls

LEMMA SubmittedType ==
  ASSUME Sensible, TypeOK, NEW kind \in {"run", "resume", "rerun", "approval"},
         NEW vote \in {"none", "approved", "rejected"}, Submit(kind, vote)
  PROVE  thread' \in Threads
<1>1. thread.broken \in BOOLEAN /\ Activation(kind, vote) \in Threads
  BY ActivationType DEF TypeOK, Threads
<1> QED BY <1>1 DEF Submit, Threads

LEMMA EndedType ==
  ASSUME Sensible, TypeOK
  PROVE  {Ended, Escapes, Fails, [Ended EXCEPT !.broken = FALSE]} \subseteq Threads
<1>1. thread.broken \in BOOLEAN /\ Activation("run", "none") \in Threads
  BY ActivationType DEF TypeOK, Threads
<1>2. "none" \in Stages
  BY DEF Stages
<1>3. Ended \in Threads
  BY <1>1, <1>2 DEF Ended, Threads
<1>4. Escapes \in Threads /\ [Ended EXCEPT !.broken = FALSE] \in Threads
  BY <1>3 DEF Escapes, Threads
<1> QED BY <1>3, <1>4 DEF Fails

(* Each step leaves the scheduler's call for the run one of its states. *)
LEMMA ThreadType ==
  ASSUME Sensible, TypeOK, [Next]_vars
  PROVE  thread' \in Threads
<1>1. thread \in Threads
  BY DEF TypeOK
<1>2. CASE thread' = thread
  BY <1>1, <1>2
<1>3. CASE \E s \in Stages : Goto(s)
  BY <1>1, <1>3, MovedType DEF Goto
<1>4. CASE thread' \in {Ended, Escapes, Fails, [Ended EXCEPT !.broken = FALSE]}
  BY <1>4, EndedType
<1>5. CASE \E kind \in {"run", "resume", "rerun", "approval"},
              vote \in {"none", "approved", "rejected"} : Submit(kind, vote)
  BY <1>5, SubmittedType
<1>6. CASE Raises \/ AgentRaises
  BY <1>1, <1>6, ReturnedType DEF Raises, Raise, AgentRaises, Stages
<1>7. CASE Setup \/ ReadControl \/ ListJobs
  <2>1. CASE Setup
    <3>1. ASSUME NEW s \in Stages
          PROVE  [thread EXCEPT !.copy = record, !.stage = s] \in Threads
      BY <1>1 DEF TypeOK, Threads
    <3> QED BY <2>1, <3>1 DEF Setup, Stages
  <2>2. CASE ReadControl
    <3>1. ASSUME NEW d \in 0 .. MaxEdits
          PROVE  [thread EXCEPT !.ctl = control, !.stage = "save", !.diff = d] \in Threads
      BY <1>1 DEF TypeOK, Threads, Stages
    <3>2. thread.diff \in 0 .. MaxEdits /\ work.edits \in 0 .. MaxEdits
      BY <1>1 DEF TypeOK, Threads, Works
    <3> QED BY <2>2, <3>1, <3>2 DEF ReadControl
  <2>3. CASE ListJobs
    <3>1. Activation(thread.kind, "none") \in Threads /\ LiveJobs \in SUBSET Jobs
      BY <1>1, ActivationType DEF LiveJobs, Threads
    <3>2. ASSUME NEW t \in Threads, NEW r \in {"none", "raised"}, NEW jobs \in SUBSET Jobs
          PROVE  [t EXCEPT !.stage = "teardown", !.listed = jobs, !.result = r] \in Threads
      BY DEF Threads, Stages
    <3> QED BY <2>3, <3>1, <3>2 DEF ListJobs
  <2> QED BY <1>7, <2>1, <2>2, <2>3
<1>8. CASE Judge
  BY <1>1, <1>8 DEF Judge, TypeOK, Threads, Stages, Works
<1>9. CASE Gate
  <2>1. [thread EXCEPT !.stage = "build", !.copy = NoRecord, !.vote = "none"] \in Threads
    BY <1>1 DEF Threads, Stages
  <2>2. CASE Goto("release")
    BY <1>3, <2>2 DEF Stages
  <2> QED BY <1>9, <2>1, <2>2 DEF Gate
<1>10. CASE AgentReturns
  <2>1. CASE At("agent") \/ At("again")
    BY <1>1, <1>10, <2>1, ReturnedType DEF AgentReturns, At, Stages
  <2>2. CASE At("repair")
    BY <1>10, <1>3, <2>2 DEF AgentReturns, At, Goto, Stages
  <2> QED BY <1>10, <2>1, <2>2 DEF AgentReturns, Agent, At
<1>11. CASE CollectStops \/ CollectTimesOut \/ Collect
  <2>1. thread.result \in {"none", "ok", "failed", "raised"}
    BY <1>1 DEF Threads
  <2> QED BY <1>1, <1>2, <1>11, <2>1, CollectedType DEF CollectStops, CollectTimesOut,
             Collect
<1>12. CASE Recover
  BY <1>1, <1>12, ReturnedType DEF Recover, Stages
<1>13. CASE Ralph \/ Verify
  <2>1. ASSUME NEW s \in Stages
        PROVE  [thread EXCEPT !.stage = s, !.round = @ + 1] \in Threads
    <3>1. thread.round + 1 \in Nat
      BY <1>1 DEF Threads
    <3> QED BY <1>1, <3>1 DEF Threads
  <2>2. [thread EXCEPT !.stage = "read"] \in Threads
    BY <1>1, MovedType DEF Stages
  <2>3. {"again", "judge", "repair"} \subseteq Stages
    BY DEF Stages
  <2>4. CASE Ralph
    BY ZenonT(40), <1>3, <2>1, <2>3, <2>4 DEF Ralph
  <2>5. CASE Verify
    BY <2>1, <2>2, <2>3, <2>5 DEF Verify
  <2> QED BY <1>13, <2>4, <2>5
<1>14. ASSUME NEW j \in Jobs, PauseJob(j)
       PROVE  thread' \in Threads
  BY <1>1, <1>14 DEF PauseJob, Threads
<1>15. {"begin", "acquire", "start", "setup", "open", "gate", "prepare", "agent", "list",
        "release"} \subseteq Stages
  BY DEF Stages
<1>16. web.votes \subseteq {"approved", "rejected"}
  BY DEF TypeOK, Webs
<1>17. CASE \/ Claim \/ Begin \/ BeginRaises \/ NotAcquired \/ AcquireLoses \/ Release
            \/ StopRaises \/ Restart
  BY <1>3, <1>4, <1>15, <1>17 DEF Claim, Begin, BeginRaises, NotAcquired, AcquireLoses, Leave,
     Release, StopRaises, Restart
<1>18. CASE \/ Acquire \/ Start \/ Decide \/ Open \/ Build \/ AwaitApproval \/ Save
            \/ TornDown
  BY <1>3, <1>15, <1>18 DEF Acquire, Start, Decide, Open, Build, AwaitApproval, Save,
     TornDown
<1>19. CASE Resume \/ Rerun \/ VoteSubmits \/ LetterSaves
  BY <1>2, <1>5, <1>16, <1>19 DEF Resume, Rerun, VoteSubmits, LetterSaves
<1>20. CASE Enter \/ TeardownRaises
  <2>1. [thread EXCEPT !.stage = "release", !.result = "raised", !.broken = TRUE]
          \in Threads
    BY <1>1 DEF Threads, Stages
  <2> QED BY <1>3, <1>15, <1>20, <2>1 DEF Enter, TeardownRaises
<1> QED
  BY <1>2, <1>6, <1>7, <1>8, <1>9, <1>10, <1>11, <1>12, <1>13, <1>14, <1>17, <1>18, <1>19,
     <1>20, Writers DEF ThreadStep

(* Nor does a step leave another record, request or workspace. *)
LEMMA StatusType ==
  ASSUME NEW r \in Records, NEW s \in Statuses
  PROVE  [r EXCEPT !.status = s] \in Records
BY DEF Records

LEMMA RecordType ==
  ASSUME TypeOK, CopyIsThere, [Next]_vars
  PROVE  record' \in Records
<1>1. record \in Records
  BY DEF TypeOK
<1>2. ASSUME NEW r \in Records
      PROVE  Failed(r) \in Records /\ Settled(r) \in Records
  BY <1>1, <1>2, StatusType DEF Failed, Settled, TypeOK, Controls, Statuses
<1>3. CASE record' = record
  BY <1>1, <1>3
<1>4. Fresh \in Records /\ \A r \in Records : Active(r) \in Records
  BY StatusType DEF Fresh, Active, Records, Statuses
<1>5. CASE Claim \/ NotAcquired \/ AcquireLoses \/ Release \/ StopRaises
  BY <1>1, <1>2, <1>4, <1>5 DEF Claim, NotAcquired, AcquireLoses, Leave, Release, StopRaises
<1>6. CASE Acquire \/ AwaitApproval \/ Restart
  BY <1>1, <1>4, <1>6, StatusType DEF Acquire, AwaitApproval, Restart, Statuses
<1>10. CASE Begin \/ BeginRaises
  BY <1>1, <1>2, <1>4, <1>10 DEF Begin, BeginRaises
<1>7. CASE Open \/ Gate
  <2>1. thread.copy \in Records
    BY <1>7 DEF Open, Gate, At, CopyIsThere
  <2>2. control # "running" => control \in Statuses
    BY DEF TypeOK, Controls, Statuses
  <2> QED BY <1>1, <1>7, <2>1, <2>2, StatusType DEF Open, Gate
<1>8. CASE Save
  <2>1. Verdicts \subseteq Statuses
    BY DEF Verdicts, TypeOK, Threads, Controls, Statuses
  <2> QED BY <1>1, <1>8, <2>1, StatusType DEF Save
<1>9. CASE LetterSaves
  <2>1. web.letter # NoRecord => web.letter \in Records
    BY DEF TypeOK, Webs
  <2> QED BY <1>1, <1>9, <2>1 DEF LetterSaves
<1> QED BY <1>3, <1>5, <1>6, <1>7, <1>8, <1>9, <1>10, Writers

LEMMA WebType ==
  ASSUME Sensible, TypeOK, [Next]_vars
  PROVE  web' \in Webs
<1>1. web \in Webs /\ record \in Records
  BY DEF TypeOK
<1>2. CASE web' = web
  BY <1>1, <1>2
<1>3. CASE StopReads \/ StopWrites \/ LetterReads
  BY <1>1, <1>3 DEF StopReads, StopWrites, LetterReads, Webs
<1>4. CASE VoteReads \/ VoteSubmits
  <2>1. ASSUME NEW votes \in SUBSET {"approved", "rejected"}
        PROVE  [web EXCEPT !.votes = votes] \in Webs
    BY <1>1 DEF Webs
  <2>2. web.votes \subseteq {"approved", "rejected"}
    BY <1>1 DEF Webs
  <2>3. ASSUME NEW d \in {"approved", "rejected"}
        PROVE  /\ web.votes \cup {d} \in SUBSET {"approved", "rejected"}
               /\ web.votes \ {d} \in SUBSET {"approved", "rejected"}
    BY <2>2
  <2> HIDE DEF Webs
  <2>4. CASE VoteReads
    <3>1. PICK d \in {"approved", "rejected"} :
            web' = [web EXCEPT !.votes = web.votes \cup {d}]
      BY <2>4 DEF VoteReads
    <3> QED BY <2>1, <2>3, <3>1
  <2>5. CASE VoteSubmits
    <3>1. PICK d \in {"approved", "rejected"} :
            web' = [web EXCEPT !.votes = web.votes \ {d}]
      BY <2>2, <2>5 DEF VoteSubmits
    <3> QED BY <2>1, <2>3, <3>1
  <2> QED BY <1>4, <2>4, <2>5
<1>5. ASSUME NEW j \in Jobs
      PROVE  Woken(j) \in SUBSET Jobs
  BY <1>1 DEF Woken, Webs
<1>6. CASE LetterSaves
  <2>1. [web EXCEPT !.letter = NoRecord] \in Webs
    BY <1>1 DEF Webs
  <2>2. ASSUME NEW woken \in SUBSET Jobs
        PROVE  [web EXCEPT !.letter = NoRecord, !.woken = woken] \in Webs
    BY <1>1 DEF Webs
  <2>3. ASSUME NEW rewound \in BOOLEAN
        PROVE  [web EXCEPT !.letter = NoRecord, !.rewound = rewound] \in Webs
    BY <1>1 DEF Webs
  <2> DEFINE back == web.rewound \/ record.status # web.letter.status
  <2>4. back \in BOOLEAN
    BY <1>1 DEF Webs
  <2>5. spec.jobs \subseteq Jobs
    BY DEF TypeOK, EverySpec
  <2>6. \/ web' = [web EXCEPT !.letter = NoRecord]
        \/ \E j \in spec.jobs : web' = [web EXCEPT !.letter = NoRecord, !.woken = Woken(j)]
        \/ web' = [web EXCEPT !.letter = NoRecord, !.rewound = back]
    BY <1>6 DEF LetterSaves
  <2> HIDE DEF back
  <2> QED BY <1>5, <2>1, <2>2, <2>3, <2>4, <2>5, <2>6
<1>7. CASE Restart
  BY <1>1, <1>7 DEF Restart, Webs
<1>8. CASE ListJobs
  BY <1>1, <1>8 DEF ListJobs, Webs
<1>9. ASSUME NEW j \in Jobs, JobResumes(j)
      PROVE  web' \in Webs
  BY <1>1, <1>5, <1>9 DEF JobResumes, Webs
<1> QED BY <1>2, <1>3, <1>4, <1>6, <1>7, <1>8, <1>9, Writers

LEMMA WorkType ==
  ASSUME Sensible, TypeOK, [Next]_vars
  PROVE  work' \in Works
<1>1. work \in Works
  BY DEF TypeOK
<1>2. CASE work' = work
  BY <1>1, <1>2
<1>3. ASSUME NEW late \in BOOLEAN, work.edits < spec.edits, work' = Edited(late)
      PROVE  work' \in Works
  <2>1. work.edits + 1 \in 0 .. MaxEdits
    BY <1>1, <1>3 DEF TypeOK, EverySpec, Works, Sensible
  <2> QED BY <1>1, <1>3, <2>1 DEF Edited, Works
<1>4. ASSUME NEW o \in Outcomes, work' = Verified(o)
      PROVE  work' \in Works
  BY <1>1, <1>4 DEF Verified, Outcomes, Works
<1>5. CASE AgentEdits \/ \E j \in Jobs : JobEdits(j)
  <2> DEFINE late == thread.stage \in {"verify", "repair", "read", "save", "list", "teardown"}
  <2>1. late \in BOOLEAN
    OBVIOUS
  <2>2. work.edits < spec.edits /\ (work' = Edited(FALSE) \/ work' = Edited(late))
    BY <1>5 DEF AgentEdits, JobEdits
  <2> HIDE DEF late
  <2> QED BY <1>3, <2>1, <2>2
<1>6. CASE Ralph \/ Verify
  BY <1>2, <1>4, <1>6 DEF Ralph, Verify
<1> QED BY <1>2, <1>5, <1>6, Writers

(* The rest of the types, *)
LEMMA OtherTypes ==
  ASSUME Sensible, TypeOK, SlotIsHeld, [Next]_vars
  PROVE  /\ control' \in Controls /\ goal' \in Goals
         /\ request' \in {"none", "pending", "approved", "rejected"}
         /\ job' \in [Jobs -> JobStatuses]
         /\ slot' \in Slots
         /\ activations' \in 0 .. MaxActivations /\ restarts' \in 0 .. MaxRestarts
<1>1. control' \in Controls
  <2>1. control \in Controls /\ (web.stop # "none" => web.stop \in Controls)
    BY DEF TypeOK, Webs, Controls
  <2> QED BY <2>1, Writers DEF Controls, Begin, BeginRaises, CollectTimesOut, Collect, Resume, StopWrites,
             LetterSaves
<1>2. goal' \in Goals
  <2>1. goal \in Goals /\ (control # "running" => control \in Goals)
    BY DEF TypeOK, Controls, Goals
  <2>2. CASE Save
    <3>1. \A v \in Verdicts : GoalOf(v) \in Goals
      BY DEF Verdicts, GoalOf, TypeOK, Threads, Controls, Goals
    <3> QED BY <2>2, <3>1 DEF Save
  <2> QED BY <2>1, <2>2, Writers DEF Goals, Open, Gate, AwaitApproval
<1>3. request' \in {"none", "pending", "approved", "rejected"}
  <2>1. /\ request \in {"none", "pending", "approved", "rejected"}
        /\ thread.vote \in {"none", "approved", "rejected"}
    BY DEF TypeOK, Threads
  <2> QED BY <2>1, Writers DEF Decide, AgentAsks
<1>4. job' \in [Jobs -> JobStatuses]
  <2>1. job \in [Jobs -> JobStatuses]
    BY DEF TypeOK
  <2>2. ASSUME NEW j \in Jobs, \/ PauseJob(j) \/ AgentStartsJob(j) \/ JobEnds(j)
                              \/ JobStops(j) \/ JobResumes(j)
        PROVE  job' \in [Jobs -> JobStatuses]
    BY <2>1, <2>2 DEF PauseJob, AgentStartsJob, JobEnds, JobStops, JobResumes, JobStatuses
  <2>3. CASE Restart \/ Build \/ LetterSaves
    BY <2>1, <2>3 DEF Restart, Build, LetterSaves, JobStatuses
  <2> QED BY <2>1, <2>2, <2>3, Writers
<1>5. slot' \in Slots
  <2>1. slot \in Slots
    BY DEF TypeOK
  <2>2. CASE Acquire \/ StopRaises \/ Restart
    BY <2>1, <2>2 DEF Acquire, StopRaises, Restart, NoSlots, Slots
  <2>4. CASE AcquireLoses
    <3>1. slot' = [slot EXCEPT !.taken = @ + 1, !.lost = @ + 1]
      BY <2>4 DEF AcquireLoses
    <3>2. slot' = [taken |-> slot.taken + 1, lost |-> slot.lost + 1]
      BY <2>1, <3>1 DEF Slots
    <3> QED BY <2>1, <3>2 DEF Slots
  <2>3. CASE Release
    <3>1. slot.taken = slot.lost + 1
      BY <2>3 DEF Release, SlotIsHeld, At, Unstarted
    <3> QED BY <2>1, <2>3, <3>1 DEF Release, Slots
  <2> QED BY <2>1, <2>2, <2>3, <2>4, Writers
<1>6. activations' \in 0 .. MaxActivations
  <2>1. activations \in 0 .. MaxActivations
    BY DEF TypeOK
  <2>2. \/ activations' = activations
        \/ activations < MaxActivations /\ activations' = activations + 1
    <3>1. CASE LetterSaves
      BY <3>1 DEF LetterSaves, Submit
    <3>2. CASE Resume \/ Rerun \/ VoteSubmits
      BY <3>2 DEF Resume, Rerun, VoteSubmits, Submit
    <3> QED BY <3>1, <3>2, Writers
  <2> QED BY <2>1, <2>2 DEF Sensible
<1>7. restarts' \in 0 .. MaxRestarts
  <2>1. restarts \in 0 .. MaxRestarts
    BY DEF TypeOK
  <2>2. CASE Restart
    <3>1. restarts < MaxRestarts /\ restarts' = restarts + 1
      BY <2>2 DEF Restart
    <3> QED BY <2>1, <3>1 DEF Sensible
  <2> QED BY <2>1, <2>2, Writers
<1> QED BY <1>1, <1>2, <1>3, <1>4, <1>5, <1>6, <1>7

(* These steps end the activation, *)
LEMMA StepsThatEnd ==
  ASSUME BeginRaises \/ NotAcquired \/ AcquireLoses \/ Release \/ StopRaises
  PROVE  /\ thread' \in {Ended, Escapes} /\ thread'.stage = "none"
         /\ thread'.broken = thread.broken
<1>1. thread' \in {Ended, Escapes}
  BY DEF BeginRaises, NotAcquired, AcquireLoses, Release, StopRaises, Leave, Fails
<1> QED BY <1>1 DEF Escapes, Ended, Activation

(* and the supervisor's copy is there where one is saved. *)
LEMMA CopyStep ==
  ASSUME Sensible, TypeOK, CopyIsThere, [Next]_vars
  PROVE  CopyIsThere'
<1>1. CASE thread' = thread
  BY <1>1 DEF CopyIsThere
<1>2. CASE Setup
  BY <1>2 DEF Setup, CopyIsThere, TypeOK, Threads
<1>4. CASE Decide \/ Open
  BY <1>4 DEF Decide, Open, CopyIsThere, At, Goto, TypeOK, Threads
<1>5. ASSUME ThreadStep, ~(Setup \/ Decide \/ Open)
      PROVE  thread'.stage \notin {"decide", "open", "gate"}
  <2>1. CASE Claim \/ Begin \/ thread'.stage = "none"
    BY <2>1 DEF Claim, Begin, Fails, Escapes, Ended, Activation, Goto, TypeOK, Threads
  <2>2. CASE Acquire \/ Raises \/ Start \/ Gate \/ Build \/ AgentReturns \/ AgentRaises
    BY <2>2 DEF Acquire, Raises, Raise, Start, Gate, Build, AgentReturns, Agent, AgentRaises,
       At, Goto, TypeOK, Threads
  <2>3. CASE CollectStops \/ CollectTimesOut \/ Collect \/ Ralph
    BY <2>3 DEF CollectStops, CollectTimesOut, Collect, AfterCollect, Ralph, Goto, TypeOK, Threads
  <2>4. CASE AwaitApproval \/ Recover \/ Judge \/ Verify
    BY <2>4 DEF AwaitApproval, Recover, Judge, Verify, Goto, TypeOK, Threads
  <2>5. CASE ReadControl \/ Save \/ ListJobs \/ TornDown \/ \E j \in Jobs : PauseJob(j)
    BY <2>5 DEF ReadControl, Save, ListJobs, Activation, TornDown, PauseJob, At, Goto, TypeOK,
       Threads
  <2>6. CASE Enter \/ TeardownRaises
    BY <2>6 DEF Enter, TeardownRaises, Goto, TypeOK, Threads
  <2> QED BY <1>5, <2>1, <2>2, <2>3, <2>4, <2>5, <2>6, StepsThatEnd DEF ThreadStep
<1>3. CASE Resume \/ Rerun \/ VoteSubmits \/ LetterSaves \/ Restart
  BY <1>1, <1>3 DEF CopyIsThere, Resume, Rerun, VoteSubmits, LetterSaves, Restart, Submit, Ended,
     Activation
<1> QED BY <1>1, <1>2, <1>3, <1>4, <1>5, Writers DEF CopyIsThere

LEMMA TypeStep ==
  ASSUME Sensible, TypeOK, CopyIsThere, SlotIsHeld, [Next]_vars
  PROVE  TypeOK' /\ CopyIsThere'
BY ThreadType, RecordType, WebType, WorkType, OtherTypes, CopyStep, Writers DEF TypeOK

LEMMA TypeInit ==
  ASSUME Sensible, Init
  PROVE  TypeOK /\ CopyIsThere
<1>1. thread \in Threads /\ CopyIsThere
  BY ActivationType DEF Init, Activation, CopyIsThere
<1>2. record \in Records
  BY DEF Init, Records, Statuses
<1>3. work \in Works /\ web \in Webs
  BY DEF Init, NoWork, NoWeb, Works, Webs, Sensible
<1>4. job \in [Jobs -> JobStatuses]
  BY DEF Init, JobStatuses
<1>5. spec \in Specs \cap EverySpec /\ control \in Controls /\ goal \in Goals /\ slot \in Slots
  BY DEF Init, Sensible, Controls, Goals, NoSlots, Slots
<1>6. activations \in 0 .. MaxActivations /\ restarts \in 0 .. MaxRestarts
  BY DEF Init, Sensible
<1>7. request = "none"
  BY DEF Init
<1> QED BY <1>1, <1>2, <1>3, <1>4, <1>5, <1>6, <1>7 DEF TypeOK

-----------------------------------------------------------------------------
(* The slot *)

(* A supervisor that works goes on, or closes with the list of its jobs. *)
LEMMA WorksOn ==
  ASSUME TypeOK,
         \/ AgentReturns \/ AgentRaises \/ CollectStops \/ CollectTimesOut \/ Collect
         \/ Ralph \/ AwaitApproval \/ Recover \/ Judge \/ Verify \/ ReadControl \/ Save
  PROVE  thread'.stage \in Supervised \cup {"list"}
<1>1. thread \in Threads
  BY DEF TypeOK
<1>2. CASE AgentReturns
  <2>1. CASE At("agent") \/ At("again")
    BY <1>1, <1>2, <2>1 DEF AgentReturns, At, Supervised, Threads
  <2>2. CASE At("repair")
    BY <1>1, <1>2, <2>2 DEF AgentReturns, At, Supervised, Threads
  <2> QED BY <1>2, <2>1, <2>2 DEF AgentReturns, Agent, At
<1>3. CASE AgentRaises
  BY <1>1, <1>3 DEF AgentRaises, Threads
<1>4. ASSUME NEW r, thread' = AfterCollect(r)
      PROVE  thread'.stage \in Supervised
  BY <1>1, <1>4 DEF AfterCollect, Supervised, Threads
<1>5. CASE CollectStops \/ CollectTimesOut \/ Collect
  BY <1>4, <1>5 DEF CollectStops, CollectTimesOut, Collect
<1>6. CASE Ralph \/ AwaitApproval \/ Recover
  BY <1>1, <1>6 DEF Ralph, AwaitApproval, Recover, Goto, Supervised, Threads
<1>7. CASE Judge \/ Verify
  BY <1>1, <1>7 DEF Judge, Verify, Supervised, Threads
<1>8. CASE ReadControl \/ Save
  BY <1>1, <1>8 DEF ReadControl, Save, Goto, Supervised, Threads
<1> QED BY <1>2, <1>3, <1>5, <1>6, <1>7, <1>8

(* Only a thread that ends, or has not started, is without a container. *)
LEMMA StaysStarted ==
  ASSUME TypeOK, ThreadStep,
         ~(\/ Claim \/ Begin \/ BeginRaises \/ NotAcquired \/ AcquireLoses \/ Release
           \/ StopRaises)
  PROVE  thread.stage \notin Unstarted \ {"acquire"} /\ thread'.stage \notin Unstarted
<1>1. thread \in Threads
  BY DEF TypeOK
<1>2. CASE Acquire \/ Raises \/ Start \/ Setup \/ Decide \/ Open \/ Gate \/ Build \/ Enter
  BY <1>1, <1>2 DEF Unstarted, Acquire, Raises, Raise, Start, Setup, Decide, Open, Gate, Build,
     Enter, At, Goto, Threads
<1>3. CASE ListJobs \/ TornDown \/ TeardownRaises
  BY <1>1, <1>3 DEF Unstarted, ListJobs, Activation, TornDown, TeardownRaises, At, Goto, Threads
<1>4. ASSUME NEW j \in Jobs, PauseJob(j)
      PROVE  thread.stage \notin Unstarted /\ thread'.stage \notin Unstarted
  BY <1>1, <1>4 DEF Unstarted, PauseJob, At, Threads
<1>5. CASE \/ AgentReturns \/ AgentRaises \/ CollectStops \/ CollectTimesOut \/ Collect
           \/ Ralph \/ AwaitApproval \/ Recover \/ Judge \/ Verify \/ ReadControl \/ Save
  <2>1. thread.stage \in Supervised
    BY <1>5 DEF AgentReturns, Agent, AgentRaises, CollectStops, CollectTimesOut, Collect,
       Ralph, AwaitApproval, Recover, Judge, Verify, ReadControl, Save, At, Supervised
  <2>2. thread'.stage \in Supervised \cup {"list"}
    BY <1>5, WorksOn
  <2> QED BY <2>1, <2>2 DEF Supervised, Unstarted
<1> QED BY <1>2, <1>3, <1>4, <1>5 DEF ThreadStep

(* What begins an activation. *)
LEMMA Submissions ==
  ASSUME Resume \/ Rerun \/ VoteSubmits \/ LetterSaves
  PROVE  \/ thread' = thread
         \/ /\ At("none") /\ thread'.stage = "queued"
            /\ thread'.broken = thread.broken
BY DEF Resume, Rerun, VoteSubmits, LetterSaves, Submit, Activation

LEMMA SlotStep ==
  ASSUME TypeOK, SlotIsHeld, [Next]_vars
  PROVE  SlotIsHeld'
<1> USE DEF SlotIsHeld, At
<1>1. slot.taken \in Nat /\ slot.lost \in Nat /\ slot \in Slots /\ thread \in Threads
  BY DEF TypeOK, Slots
<1>2. CASE Claim \/ Begin
  BY <1>1, <1>2 DEF Unstarted, Claim, Begin, Fails, Ended, Activation, Goto, Threads
<1>3. CASE BeginRaises \/ NotAcquired
  BY <1>3, StepsThatEnd DEF Unstarted, BeginRaises, NotAcquired
<1>4. CASE Acquire
  BY <1>1, <1>4 DEF Unstarted, Acquire, Goto, Threads, Slots
<1>5. CASE AcquireLoses
  <2>1. slot' = [slot EXCEPT !.taken = @ + 1, !.lost = @ + 1] /\ thread.stage = "acquire"
    BY <1>5 DEF AcquireLoses
  <2>2. slot'.taken = slot.taken + 1 /\ slot'.lost = slot.lost + 1
    BY <1>1, <2>1 DEF Slots
  <2> QED BY <1>1, <1>5, <2>1, <2>2, StepsThatEnd DEF Unstarted
<1>6. CASE Release \/ StopRaises
  BY <1>1, <1>6, StepsThatEnd DEF Unstarted, Release, StopRaises, Slots
<1>7. CASE Restart
  BY <1>7 DEF Unstarted, Restart, NoSlots, Ended, Activation
<1>8. CASE slot' = slot /\ thread' = thread
  BY <1>8
<1>9. CASE slot' = slot /\ ThreadStep
  <2>1. CASE thread.stage # "acquire"
    BY <1>2, <1>3, <1>5, <1>6, <1>9, <2>1, StaysStarted
  <2>2. CASE thread.stage = "acquire"
    <3>1. NotAcquired \/ Acquire \/ AcquireLoses
      BY <1>9, <2>2 DEF ThreadStep, Claim, Begin, BeginRaises, Raises, Start, Setup, Decide,
         Release, StopRaises, Open, Gate, Build, Enter, AgentReturns, Agent, AgentRaises,
         Supervised, CollectStops, CollectTimesOut, Collect, Ralph, AwaitApproval, Recover,
         Judge, Verify, ReadControl, Save, ListJobs, TornDown, TeardownRaises, PauseJob
    <3> QED BY <1>3, <1>4, <1>5, <3>1
  <2> QED BY <2>1, <2>2
<1>10. CASE slot' = slot /\ (Resume \/ Rerun \/ VoteSubmits \/ LetterSaves)
  BY <1>10, Submissions DEF Unstarted
<1> QED BY <1>3, <1>4, <1>5, <1>6, <1>7, <1>8, <1>9, <1>10, Writers

-----------------------------------------------------------------------------
(* The jobs *)

(* A job that is started while the supervisor takes messages is one that   *)
(* the teardown will list, or one that it missed.                          *)
LEMMA StartedWhileOpen ==
  ASSUME TypeOK, JobsAreListed, ChildrenOpen, thread' = thread,
         NEW j \in Jobs, job' = [job EXCEPT ![j] = "running"], web'.woken = Woken(j)
  PROVE  JobsAreListed'
<1>1. LiveJobs' \subseteq LiveJobs \cup {j}
  BY DEF LiveJobs, Live, TypeOK
<1>2. At("teardown") => web'.woken = web.woken \cup {j}
  BY DEF Woken
<1>3. ~thread.broken => thread.stage \notin Unstarted \cup Opening \cup {"release"}
  BY DEF ChildrenOpen, Supervised, Unstarted, Opening
<1> QED BY <1>1, <1>2, <1>3 DEF JobsAreListed, At

LEMMA WokenStays ==
  ASSUME TypeOK, [Next]_vars
  PROVE  \/ web'.woken = web.woken \/ ListJobs \/ LetterSaves \/ Restart
         \/ \E j \in Jobs : JobResumes(j)
BY Writers DEF StopReads, StopWrites, VoteReads, VoteSubmits, LetterReads, TypeOK, Webs

LEMMA JobsStep ==
  ASSUME TypeOK, JobsAreListed, [Next]_vars
  PROVE  JobsAreListed'
<1>1. ASSUME LiveJobs' \subseteq LiveJobs, thread' = thread, web'.woken = web.woken
      PROVE  JobsAreListed'
  BY <1>1 DEF JobsAreListed, At
<1>2. CASE job' = job /\ thread' = thread /\ web'.woken = web.woken
  BY <1>1, <1>2 DEF LiveJobs, Live
<1>3. ASSUME job' = job
      PROVE  LiveJobs' = LiveJobs
  BY <1>3 DEF LiveJobs, Live
<1>4. ASSUME NEW j \in Jobs, AgentStartsJob(j)
      PROVE  JobsAreListed'
  BY <1>4 DEF JobsAreListed, AgentStartsJob, Agent, At, Unstarted, Opening
<1>5. ASSUME NEW j \in Jobs, JobEnds(j) \/ JobStops(j)
      PROVE  JobsAreListed'
  <2>1. LiveJobs' \subseteq LiveJobs
    BY <1>5 DEF JobEnds, JobStops, LiveJobs, Live, TypeOK
  <2> QED BY <1>1, <1>5, <2>1 DEF JobEnds, JobStops, Rest
<1>6. ASSUME NEW j \in Jobs, JobResumes(j)
      PROVE  JobsAreListed'
  BY <1>6, StartedWhileOpen DEF JobResumes, TypeOK, Webs
<1>7. ASSUME NEW j \in Jobs, PauseJob(j)
      PROVE  JobsAreListed'
  <2>1. LiveJobs' = LiveJobs \ {j} /\ thread'.listed = thread.listed \ {j}
        /\ thread'.broken = thread.broken /\ thread'.stage = "teardown" /\ web' = web
    BY <1>7 DEF PauseJob, LiveJobs, Live, At, Rest, TypeOK, Threads
  <2> QED BY <1>7, <2>1 DEF PauseJob, JobsAreListed, At, Unstarted, Opening
<1>8. CASE Restart
  <2>1. LiveJobs' = {}
    BY <1>8 DEF Restart, LiveJobs, Live, TypeOK
  <2> QED BY <2>1 DEF JobsAreListed
<1>9. ASSUME job' = job, web'.woken = web.woken, At("none"), thread'.stage = "queued",
             thread'.broken = thread.broken
      PROVE  JobsAreListed'
  BY <1>3, <1>9 DEF JobsAreListed, At, Unstarted
<1>10. CASE job' = job /\ (Resume \/ Rerun \/ VoteSubmits)
  <2>1. web'.woken = web.woken
    BY <1>10 DEF Resume, Rerun, VoteSubmits, TypeOK, Webs
  <2> QED BY <1>2, <1>9, <1>10, <2>1, Submissions
<1>11. CASE LetterSaves
  <2>1. CASE ~ChildrenOpen
    <3>1. job' = job /\ web'.woken = web.woken
      BY <1>11, <2>1 DEF LetterSaves, TypeOK, Webs
    <3> QED BY <1>2, <1>9, <1>11, <3>1, Submissions
  <2>2. CASE ChildrenOpen
    <3>1. thread' = thread
      BY <1>11, <2>2 DEF LetterSaves
    <3>2. CASE job' = job /\ web' = [web EXCEPT !.letter = NoRecord]
      BY <1>2, <3>1, <3>2 DEF TypeOK, Webs
    <3>3. ASSUME NEW j \in spec.jobs, job' = [job EXCEPT ![j] = "running"],
                 web' = [web EXCEPT !.letter = NoRecord, !.woken = Woken(j)]
          PROVE  JobsAreListed'
      <4>1. j \in Jobs /\ web'.woken = Woken(j)
        BY <3>3 DEF TypeOK, EverySpec, Webs
      <4> QED BY <2>2, <3>1, <3>3, <4>1, StartedWhileOpen
    <3> QED BY <1>11, <2>2, <3>2, <3>3 DEF LetterSaves
  <2> QED BY <2>1, <2>2
<1>12. CASE Build
  BY <1>12 DEF Build, JobsAreListed, Unstarted, Opening, At, Goto, TypeOK, Threads
<1>13. CASE ListJobs
  BY <1>3, <1>13 DEF JobsAreListed, Unstarted, Opening, ListJobs, Activation, Store, At
<1>14. CASE job' = job /\ web'.woken = web.woken /\ ThreadStep
  <2>1. LiveJobs' = LiveJobs /\ thread \in Threads
    BY <1>3, <1>14 DEF TypeOK
  <2>2. CASE Claim \/ Begin
    BY <1>14, <2>1, <2>2 DEF JobsAreListed, Unstarted, Opening, Claim, Begin, Ended,
       Activation, At, Goto, Threads
  <2>3. CASE BeginRaises \/ NotAcquired \/ AcquireLoses \/ Release \/ StopRaises
    <3>1. thread.stage \in Unstarted \cup {"release"}
      BY <2>3 DEF BeginRaises, NotAcquired, AcquireLoses, Release, StopRaises, At, Unstarted
    <3>2. thread'.stage = "none" /\ thread'.broken = thread.broken
      BY <2>3, StepsThatEnd
    <3> QED BY <1>14, <2>1, <3>1, <3>2 DEF JobsAreListed, At
  <2>4. CASE Acquire \/ Start \/ Setup \/ Decide \/ Open
    BY <1>14, <2>1, <2>4 DEF JobsAreListed, Unstarted, Opening, Acquire, Start, Setup, Decide,
       Open, At, Goto, Threads
  <2>5. CASE Raises \/ Gate
    BY <1>14, <2>1, <2>5 DEF JobsAreListed, Unstarted, Opening, Raises, Raise, Gate, At, Goto,
       Threads
  <2>6. CASE thread'.stage \in Supervised \cup {"list"}
    BY <2>6 DEF JobsAreListed, Unstarted, Opening, Supervised, At
  <2>7. CASE Enter
    BY <2>1, <2>7 DEF JobsAreListed, Unstarted, Opening, Enter, At, Goto, Threads
  <2>8. CASE TornDown
    BY <1>14, <2>1, <2>8 DEF JobsAreListed, Unstarted, Opening, TornDown, At, Goto, Threads
  <2>9. CASE TeardownRaises
    BY <2>1, <2>9 DEF JobsAreListed, TeardownRaises, Threads
  <2> QED BY <1>7, <1>12, <1>13, <1>14, <2>2, <2>3, <2>4, <2>5, <2>6, <2>7, <2>8, <2>9,
             WorksOn DEF ThreadStep
<1>15. CASE web'.woken # web.woken
  BY <1>6, <1>8, <1>11, <1>13, <1>15, WokenStays
<1>16. CASE job' # job
  BY <1>4, <1>5, <1>6, <1>7, <1>8, <1>11, <1>12, <1>16, Writers
<1> QED BY <1>2, <1>8, <1>10, <1>11, <1>14, <1>15, <1>16, Writers

-----------------------------------------------------------------------------
(* The record *)

(* Requests of the web service and restarts. *)
LEMMA RecordOfRequests ==
  ASSUME TypeOK, RecordFollows,
         Resume \/ Rerun \/ VoteSubmits \/ LetterSaves \/ Restart
  PROVE  RecordFollows'
<1>1. CASE Restart
  <2>1. thread'.stage = "none" /\ web'.rewound = web.rewound /\ request' = request
    BY <1>1 DEF Restart, Ended, Activation, TypeOK, Webs
  <2>2. record'.status # "active" /\ (record'.status = "waiting" => record.status = "waiting")
    BY <1>1 DEF Restart, TypeOK, Records
  <2> QED BY <2>1, <2>2 DEF RecordFollows, At, Opening, Supervised, Closing
<1>2. CASE Resume \/ Rerun \/ VoteSubmits \/ LetterSaves
  <2>1. request' = request
    BY <1>2 DEF Resume, Rerun, VoteSubmits, LetterSaves, Store
  <2>2. ~web'.rewound => ~web.rewound /\ record'.status = record.status
    <3>1. CASE LetterSaves
      <4>1. CASE ChildrenOpen
        <5>1. record' = record
          BY <3>1, <4>1 DEF LetterSaves
        <5>2. web'.rewound = web.rewound
          BY <3>1, <4>1 DEF LetterSaves, TypeOK, Webs
        <5> QED BY <5>1, <5>2
      <4>2. CASE ~ChildrenOpen
        BY <3>1, <4>2 DEF LetterSaves, TypeOK, Webs, Records
      <4> QED BY <4>1, <4>2
    <3>2. CASE Resume \/ Rerun \/ VoteSubmits
      BY <3>2 DEF Resume, Rerun, VoteSubmits, Store, TypeOK, Webs
    <3> QED BY <1>2, <3>1, <3>2
  <2> QED BY <1>2, <2>1, <2>2, Submissions DEF RecordFollows, At, Opening, Supervised, Closing
<1> QED BY <1>1, <1>2

(* An activation that ends leaves a record that is settled, but where an   *)
(* exception escapes the runner.                                           *)
LEMMA RecordOfEnds ==
  ASSUME TypeOK, RecordFollows,
         BeginRaises \/ NotAcquired \/ AcquireLoses \/ Release \/ StopRaises
  PROVE  RecordFollows'
<1>1. record \in Records /\ control \in Controls
  BY DEF TypeOK
<1>2. web' = web /\ request' = request /\ thread'.stage = "none"
  BY StepsThatEnd DEF BeginRaises, NotAcquired, AcquireLoses, Release, StopRaises, Rest, Store
<1>3. Escapes.escaped
  BY DEF Escapes, Ended, Activation
<1>4. ASSUME NEW r \in Records
      PROVE  /\ Failed(r).status = "failed" \/ (thread.kind = "rerun" /\ Failed(r) = r)
             /\ Fails = IF thread.kind = "rerun" THEN Escapes ELSE Ended
             /\ Active(r) \in Records /\ Active(r).status = "active"
  BY DEF Failed, Fails, Active, Records, Statuses
<1>5. CASE BeginRaises
  <2>1. thread' = Escapes /\ (record' = record \/ record'.status = "active")
    BY <1>5 DEF BeginRaises, Fresh
  <2> QED BY <1>2, <1>3, <2>1 DEF RecordFollows, At, Opening, Supervised, Closing
<1>6. ASSUME NEW r \in Records, r.status # "waiting" \/ r = record,
             record' = Failed(r), thread' = Fails
      PROVE  RecordFollows'
  BY <1>2, <1>3, <1>4, <1>6 DEF RecordFollows, At, Opening, Supervised, Closing
<1>7. CASE NotAcquired \/ StopRaises
  BY <1>1, <1>6, <1>7 DEF NotAcquired, StopRaises
<1>8. CASE AcquireLoses
  <2>1. PICK r \in {record, Active(record)} : record' = Failed(r) /\ thread' = Fails
    BY <1>8 DEF AcquireLoses
  <2> QED BY <1>1, <1>4, <1>6, <2>1
<1>9. CASE Release
  <2>1. CASE thread.result = "raised"
    BY <1>1, <1>6, <1>9, <2>1 DEF Release, Leave
  <2>2. CASE thread.result # "raised"
    <3>1. record' = Settled(record) /\ thread' = Ended
      BY <1>9, <2>2 DEF Release, Leave
    <3>2. ~web.rewound => record.status # "active"
      BY <1>9, <2>2 DEF Release, RecordFollows, At, Closing
    <3>3. record.status # "active" => record' = record
      BY <3>1 DEF Settled
    <3> QED BY <1>2, <3>2, <3>3 DEF RecordFollows, At, Opening, Supervised, Closing
  <2> QED BY <2>1, <2>2
<1> QED BY <1>5, <1>7, <1>8, <1>9

(* An activation begins with an active record, *)
LEMMA RecordOfOpening ==
  ASSUME TypeOK, CopyIsThere, RecordFollows,
         Claim \/ Begin \/ Acquire \/ Raises \/ Start \/ Setup
         \/ Decide \/ Open \/ Gate \/ Build \/ Enter
  PROVE  RecordFollows'
<1> USE DEF RecordFollows, At, Opening, Supervised, Closing
<1>1. thread \in Threads /\ record \in Records /\ control \in Controls
  BY DEF TypeOK
<1>2. web' = web
  BY DEF Claim, Begin, Acquire, Raises, Start, Setup, Decide, Open, Gate, Build, Enter, Rest
<1>3. CASE Claim
  BY ZenonT(40), <1>1, <1>2, <1>3 DEF Claim, Settled, Ended, Activation, Goto, Store, Threads,
     Records, Controls
<1>4. CASE Begin
  <2>1. request' = request
    BY <1>4 DEF Begin, Store
  <2>2. \/ /\ thread'.stage = "acquire"
           /\ record'.status = "active" \/ record' = record
        \/ /\ thread' = Ended /\ record'.status = "failed"
    <3> DEFINE r == IF thread.kind = "run" THEN Fresh ELSE record
    <3>1. r = record \/ r.status = "active"
      BY DEF Fresh
    <3>2. r \in Records
      BY <1>1 DEF Fresh, Records, Statuses
    <3> HIDE DEF r
    <3>3. thread.kind # "rerun" => Failed(r).status = "failed"
      BY <3>2 DEF Failed, Records
    <3>4. \/ Goto("acquire") /\ record' = r
          \/ thread.kind # "rerun" /\ record' = Failed(r) /\ thread' = Ended
      BY <1>4 DEF Begin, r
    <3>5. Goto("acquire") => thread'.stage = "acquire"
      BY <1>1 DEF Goto, Threads
    <3> QED BY <3>1, <3>3, <3>4, <3>5
  <2>3. Ended.stage = "none"
    BY DEF Ended, Activation
  <2> QED BY <1>2, <2>1, <2>2, <2>3
<1>5. CASE Acquire \/ Start \/ Build \/ Raises
  BY ZenonT(40), <1>1, <1>2, <1>5 DEF Acquire, Active, Start, Build, Raises, Raise, Goto, Store,
     Threads, Records
<1>6. CASE Setup \/ Decide \/ Open
  BY <1>1, <1>2, <1>6 DEF Setup, Decide, Open, Goto, Store, Threads, Records
<1>7. CASE Gate
  <2>1. thread.copy \in Records
    BY <1>7 DEF Gate, CopyIsThere
  <2> QED BY ZenonT(40), <1>1, <1>2, <1>7, <2>1 DEF Gate, Goto, Threads, Records, Controls
<1>8. CASE Enter
  BY <1>1, <1>2, <1>8 DEF Enter, Goto, Store, Threads
<1> QED BY <1>3, <1>4, <1>5, <1>6, <1>7, <1>8

(* and ends with another one. *)
LEMMA RecordOfWork ==
  ASSUME TypeOK, RecordFollows, ThreadStep,
         ~(Claim \/ Begin \/ Acquire \/ Raises \/ Start \/ Setup
           \/ Decide \/ Open \/ Gate \/ Build \/ Enter),
         ~(BeginRaises \/ NotAcquired \/ AcquireLoses \/ Release \/ StopRaises)
  PROVE  RecordFollows'
<1> USE DEF RecordFollows, At, Opening, Supervised, Closing
<1>1. thread \in Threads /\ record \in Records /\ control \in Controls
  BY DEF TypeOK
<1>2. web'.rewound = web.rewound /\ request' = request
  <2>1. CASE ListJobs
    BY <2>1 DEF ListJobs, Store, TypeOK, Webs
  <2>2. CASE ~ListJobs
    BY <2>2 DEF ThreadStep, AgentReturns, AgentRaises, CollectStops, CollectTimesOut, Collect,
       Ralph, AwaitApproval, Recover, Judge, Verify, ReadControl, Save, TornDown,
       TeardownRaises, PauseJob, Rest, Store
  <2> QED BY <2>1, <2>2
<1>3. CASE AwaitApproval
  BY <1>1, <1>2, <1>3 DEF AwaitApproval, Goto, Threads, Records
<1>4. CASE Save
  <2>1. Verdicts \subseteq Statuses \ {"active", "waiting"}
    BY <1>1 DEF Verdicts, Threads, Controls, Statuses
  <2> QED BY <1>1, <1>2, <1>4, <2>1 DEF Save, Goto, Threads, Records
<1>5. CASE AgentRaises
  BY <1>1, <1>2, <1>5 DEF AgentRaises, Store, Threads
<1>6. CASE ListJobs
  BY <1>1, <1>2, <1>6 DEF ListJobs, Activation, Store
<1>7. CASE TornDown \/ TeardownRaises
  BY <1>1, <1>2, <1>7 DEF TornDown, TeardownRaises, Goto, Store, Threads
<1>8. ASSUME NEW j \in Jobs, PauseJob(j)
      PROVE  RecordFollows'
  BY <1>1, <1>2, <1>8 DEF PauseJob, Threads
<1>9. CASE \/ AgentReturns \/ CollectStops \/ CollectTimesOut \/ Collect \/ Ralph
           \/ Recover \/ Judge \/ Verify \/ ReadControl
  <2>1. thread.stage \in Supervised /\ record' = record
    BY <1>9 DEF AgentReturns, Agent, CollectStops, CollectTimesOut, Collect, Ralph, Recover,
       Judge, Verify, ReadControl, Store
  <2>2. thread'.stage \in Supervised
    <3>1. CASE Ralph \/ Recover \/ Judge \/ Verify \/ ReadControl
      BY <1>1, <3>1 DEF Ralph, Recover, Judge, Verify, ReadControl, Goto, Threads
    <3>2. ASSUME NEW r, thread' = AfterCollect(r)
          PROVE  thread'.stage \in Supervised
      BY <1>1, <3>2 DEF AfterCollect, Threads
    <3>3. CASE CollectStops \/ CollectTimesOut \/ Collect
      BY <3>2, <3>3 DEF CollectStops, CollectTimesOut, Collect
    <3>4. CASE AgentReturns
      <4>1. CASE At("agent") \/ At("again")
        BY <1>1, <3>4, <4>1 DEF AgentReturns, Threads
      <4>2. CASE At("repair")
        BY <1>1, <3>4, <4>2 DEF AgentReturns, Threads
      <4> QED BY <3>4, <4>1, <4>2 DEF AgentReturns, Agent
    <3> QED BY <1>9, <3>1, <3>3, <3>4
  <2> QED BY <1>2, <2>1, <2>2
<1> QED BY <1>3, <1>4, <1>5, <1>6, <1>7, <1>8, <1>9 DEF ThreadStep

LEMMA RecordStep ==
  ASSUME TypeOK, CopyIsThere, RecordFollows, [Next]_vars
  PROVE  RecordFollows'
<1>1. CASE ThreadStep
  BY <1>1, RecordOfOpening, RecordOfWork, RecordOfEnds
<1>2. CASE Resume \/ Rerun \/ VoteSubmits \/ LetterSaves \/ Restart
  BY <1>2, RecordOfRequests
<1>3. CASE /\ record' = record /\ thread' = thread /\ web'.rewound = web.rewound
           /\ request' \in {request, "pending"}
  BY <1>3 DEF RecordFollows, At
<1>4. CASE AgentEdits \/ AgentAsks \/ StopReads \/ StopWrites \/ VoteReads \/ LetterReads
  BY <1>3, <1>4 DEF AgentEdits, AgentAsks, StopReads, StopWrites, VoteReads, LetterReads, Store,
     Rest, TypeOK, Webs
<1>5. ASSUME NEW j \in Jobs, \/ AgentStartsJob(j) \/ JobEdits(j) \/ JobEnds(j)
                            \/ JobStops(j) \/ JobResumes(j)
      PROVE  RecordFollows'
  BY <1>3, <1>5 DEF AgentStartsJob, JobEdits, JobEnds, JobStops, JobResumes, Rest, TypeOK, Webs
<1> QED BY <1>1, <1>2, <1>3, <1>4, <1>5 DEF Next, vars

-----------------------------------------------------------------------------
(* The verification *)

(* The workspace is looked at as a whole, and only then judged. *)
LEMMA CheckedStep ==
  ASSUME TypeOK, ChangeIsChecked, [Next]_vars
  PROVE  ChangeIsChecked'
<1> USE DEF ChangeIsChecked, At
<1>1. thread \in Threads /\ work \in Works
  BY DEF TypeOK
<1>2. CASE thread' = thread /\ work' = work
  BY <1>2
<1>3. CASE AgentEdits
  BY <1>3 DEF AgentEdits, Agent
<1>4. ASSUME NEW j \in Jobs, JobEdits(j)
      PROVE  ChangeIsChecked'
  BY <1>1, <1>4 DEF JobEdits, Edited, Works
<1>5. CASE Judge
  BY <1>1, <1>5 DEF Judge, Store, Threads, Works
<1>6. CASE Verify
  <2>1. work'.checked = work'.edits
    BY <1>1, <1>6 DEF Verify, Verified, Works
  <2>2. thread'.stage \in {"repair", "read"}
    BY <1>1, <1>6 DEF Verify, Threads
  <2> QED BY <2>1, <2>2
<1>7. CASE ReadControl
  BY <1>1, <1>7 DEF ReadControl, Store, Threads
<1>8. CASE thread'.stage \notin {"read", "save"}
  BY <1>8
<1>9. CASE Resume \/ Rerun \/ VoteSubmits \/ LetterSaves \/ Restart
  <2>1. work' = work
    BY <1>9 DEF Resume, Rerun, VoteSubmits, LetterSaves, Restart, Store
  <2>2. CASE Restart
    BY <1>8, <2>2 DEF Restart, Ended, Activation
  <2> QED BY <1>2, <1>8, <1>9, <2>1, <2>2, Submissions
<1>10. ASSUME ThreadStep, ~(Judge \/ Verify \/ ReadControl)
       PROVE  thread'.stage \notin {"read", "save"}
  <2>1. CASE \/ BeginRaises \/ NotAcquired \/ AcquireLoses \/ Release \/ StopRaises
             \/ Claim \/ Begin
    BY <1>1, <2>1, StepsThatEnd DEF Claim, Begin, Ended, Activation, Goto, Threads
  <2>2. CASE \/ Acquire \/ Raises \/ Start \/ Setup \/ Decide \/ Open \/ Gate \/ Build
             \/ Enter
    BY <1>1, <2>2 DEF Acquire, Raises, Raise, Start, Setup, Decide, Open, Gate, Build, Enter,
       Goto, Threads
  <2>8. CASE \/ ListJobs \/ TornDown \/ TeardownRaises \/ Save \/ AwaitApproval \/ Recover
             \/ AgentRaises
    BY <1>1, <2>8 DEF ListJobs, TornDown, TeardownRaises, Activation, Save, AwaitApproval,
       Recover, AgentRaises, Goto, Threads
  <2>3. ASSUME NEW j \in Jobs, PauseJob(j)
        PROVE  thread'.stage \notin {"read", "save"}
    BY <1>1, <2>3 DEF PauseJob, Threads
  <2>4. CASE AgentReturns
    <3>1. CASE thread.stage \in {"agent", "again"}
      BY <1>1, <2>4, <3>1 DEF AgentReturns, Threads
    <3>2. CASE thread.stage = "repair"
      BY <1>1, <2>4, <3>2 DEF AgentReturns, Threads
    <3> QED BY <2>4, <3>1, <3>2 DEF AgentReturns, Agent
  <2>5. ASSUME NEW r, thread' = AfterCollect(r)
        PROVE  thread'.stage \notin {"read", "save"}
    BY <1>1, <2>5 DEF AfterCollect, Threads
  <2>6. CASE CollectStops \/ CollectTimesOut \/ Collect
    BY <2>5, <2>6 DEF CollectStops, CollectTimesOut, Collect
  <2>7. CASE Ralph
    BY <1>1, <2>7 DEF Ralph, Goto, Threads
  <2> QED BY <1>10, <2>1, <2>2, <2>3, <2>4, <2>6, <2>7, <2>8 DEF ThreadStep
<1> QED BY <1>2, <1>3, <1>4, <1>5, <1>6, <1>7, <1>8, <1>9, <1>10, Writers DEF ThreadStep

-----------------------------------------------------------------------------
(* The theorems *)

(* Each part of a run's state is what its place in the code holds. *)
THEOREM RunInvHolds == ASSUME Sensible PROVE Spec => []RunInv
<1>1. Init => RunInv
  <2> SUFFICES ASSUME Init
               PROVE  RunInv
    OBVIOUS
  <2>1. /\ thread.stage = "queued" /\ slot = NoSlots /\ record.status = "active"
        /\ \A j \in Jobs : job[j] = "none"
    BY DEF Init, Activation
  <2> QED BY <2>1, TypeInit DEF RunInv, SlotIsHeld, RecordFollows, JobsAreListed, ChangeIsChecked,
             LiveJobs, Live, At, Unstarted, Opening, Supervised, Closing, NoSlots
<1>2. RunInv /\ [Next]_vars => RunInv'
  BY TypeStep, SlotStep, RecordStep, JobsStep, CheckedStep DEF RunInv
<1> QED BY <1>1, <1>2, PTL DEF Spec

THEOREM TypesHold == ASSUME Sensible PROVE Spec => []TypeOK
<1>1. RunInv => TypeOK
  BY DEF RunInv
<1> QED BY <1>1, RunInvHolds, PTL

(* A run that no thread executes is not recorded as active: whatever was   *)
(* raised under the runner's handlers, stopped or restarted has settled it *)
(* (TaskScheduler._work and CodingTaskRunner).                             *)
THEOREM EndedRunIsSettledHolds == ASSUME Sensible PROVE Spec => []EndedRunIsSettled
<1>1. RunInv => EndedRunIsSettled
  BY DEF RunInv, RecordFollows, EndedRunIsSettled
<1> QED BY <1>1, RunInvHolds, PTL

(* The container slot is given back on every way out of _execute, but for  *)
(* the two exceptions that lose it, each counted once.                     *)
THEOREM IdleGivesSlotBackHolds == ASSUME Sensible PROVE Spec => []IdleGivesSlotBack
<1>1. RunInv => IdleGivesSlotBack
  BY DEF RunInv, TypeOK, Slots, SlotIsHeld, IdleGivesSlotBack, At, Unstarted
<1> QED BY <1>1, RunInvHolds, PTL

(* No job outlives its supervisor, unless the teardown of                  *)
(* AgenticRuntime.run was cut short or never reached, and but for those    *)
(* that a user woke while it ran.                                          *)
THEOREM JobsEndWithTheRunHolds == ASSUME Sensible PROVE Spec => []JobsEndWithTheRun
<1>1. RunInv => JobsEndWithTheRun
  BY DEF RunInv, JobsAreListed, JobsEndWithTheRun, At, Unstarted
<1> QED BY <1>1, RunInvHolds, PTL

(* A run recorded as waiting for an approval has one to be decided. *)
THEOREM WaitingHasRequestHolds == ASSUME Sensible PROVE Spec => []WaitingHasRequest
<1>1. RunInv => WaitingHasRequest
  BY DEF RunInv, RecordFollows, WaitingHasRequest
<1> QED BY <1>1, RunInvHolds, PTL

(* Only Save, in the state in which _finalize judges, makes a run succeed, *)
(* and then on a verification that passed, of what the supervisor wrote    *)
(* last or what a terminal has changed since.                              *)
THEOREM SuccessIsVerifiedHolds == ASSUME Sensible PROVE Spec => SuccessIsVerified
<1>1. ASSUME RunInv, [Next]_vars
      PROVE  VerifiedIfNeeded
  <2> SUFFICES ASSUME Succeeds, thread.diff > 0, spec.checks # "not_needed"
               PROVE  work.outcome = "passed" /\ (work.checked = thread.diff \/ work.late)
    BY DEF VerifiedIfNeeded
  <2>1. At("save") /\ record' # record /\ record'.status = "succeeded"
        /\ record.status # "succeeded" /\ record \in Records /\ web \in Webs
    BY <1>1 DEF Succeeds, RunInv, TypeOK
  <2>2. Save
    <3>1. ~(\/ Claim \/ Begin \/ BeginRaises \/ NotAcquired \/ Acquire \/ AcquireLoses
            \/ Release \/ StopRaises \/ Open \/ Gate \/ AwaitApproval)
      BY <2>1 DEF Claim, Begin, BeginRaises, NotAcquired, Acquire, AcquireLoses, Release,
         StopRaises, Open, Gate, AwaitApproval, At
    <3>2. ~LetterSaves
      BY <2>1 DEF LetterSaves, ChildrenOpen, Supervised, At
    <3>3. ~Restart
      BY <2>1 DEF Restart, Records
    <3> QED BY <1>1, <2>1, <3>1, <3>2, <3>3, Writers
  <2>3. "succeeded" \in Verdicts
    BY <2>1, <2>2 DEF Save, Records
  <2>4. thread.ctl # "running" => thread.ctl # "succeeded"
    BY <1>1 DEF RunInv, TypeOK, Threads, Controls
  <2>5. thread.diff # 0 /\ thread.diff \in Nat
    BY <1>1 DEF RunInv, TypeOK, Threads
  <2>6. work.outcome = "passed"
    BY <2>3, <2>4, <2>5 DEF Verdicts
  <2>7. work.checked = thread.diff \/ work.late
    BY <1>1, <2>1, <2>5 DEF RunInv, ChangeIsChecked
  <2> QED BY <2>6, <2>7
<1>2. RunInv /\ [Next]_vars => [VerifiedIfNeeded]_vars
  BY <1>1
<1> QED BY <1>2, RunInvHolds, PTL DEF Spec, SuccessIsVerified

-----------------------------------------------------------------------------
(* The fixed workflow: the inductive invariant.                            *)

FlowTypeOK ==
  /\ flow \in [Steps -> {"none", "success", "failed", "waiting"}]
  /\ plan \in {"none", "answer", "high", "ordinary"} /\ granted \in {"none", "approved", "rejected"}
  /\ toolRequest \in {"none", "pending", "decided"} /\ edits \in Nat
  /\ found \in [Verifies -> [outcome : {"none", "passed", "failed"}, edits : Nat]]
  /\ review \in BOOLEAN /\ at \in 0 .. NoStep
  /\ flowRecord \in {"active", "succeeded", "failed", "interrupted", "attention", "waiting"}

(* Steps succeed from the first on, up to the one that runs. *)
StepsSucceedInOrder ==
  /\ \A s, t \in Steps : t < s /\ flow[s] # "none" => flow[t] = "success"
  /\ at \in Steps => \A t \in Steps : flow[t] = IF t < at THEN "success" ELSE "none"

(* What allows the execution. *)
Permitted == plan = "ordinary" \/ granted = "approved"

(* What was executed was permitted, and the plan of a change stays. *)
ExecutedIsPermitted ==
  /\ flow[Execute] = "success" => Permitted
  /\ edits > 0 => flow[Plan] = "success" /\ Permitted

(* A verification with nothing to repair stands for the later ones, and    *)
(* nothing was changed after one that passed.                              *)
VerificationsStand ==
  /\ \A s, t \in Succeeded : s < t /\ found[s].outcome # "failed" => found[t] = found[s]
  /\ \A s \in Succeeded : found[s].outcome = "passed" => found[s].edits = edits

(* The conjunction; what success says is part of it. *)
FlowInv ==
  /\ FlowTypeOK /\ StepsSucceedInOrder /\ ExecutedIsPermitted /\ VerificationsStand
  /\ at # NoStep => flowRecord = "active"
  /\ SuccessIsChecked

(* A nonempty bounded set of numbers has a greatest one. *)
LEMMA GreatestNat ==
  ASSUME NEW n \in Nat, NEW T \in SUBSET (0 .. n), T # {}
  PROVE  \E x \in T : \A y \in T : y <= x
<1> DEFINE R == OpToRel(<, Nat)
           D == {n - y : y \in T}
<1>1. IsWellFoundedOn(R, Nat)
  BY NatLessThanWellFounded
<1>2. R = {ss \in Nat \X Nat : ss[1] < ss[2]}
  BY DEF OpToRel
<1>3. ASSUME NEW y \in T PROVE n - y \in Nat
  OBVIOUS
<1>4. D \in SUBSET Nat /\ D # {}
  BY <1>3
<1> HIDE DEF R, D
<1>5. PICK d \in D : \A z \in D : ~(<<z, d>> \in R)
  BY <1>1, <1>4, WFMin
<1>6. PICK x \in T : d = n - x
  BY <1>5 DEF D
<1>7. ASSUME NEW y \in T PROVE y <= x
  <2>1. n - y \in D /\ <<n - y, n - x>> \in Nat \X Nat
    BY <1>3 DEF D
  <2>2. ~(n - y < n - x)
    BY <2>1, <1>2, <1>5, <1>6
  <2>3. n \in Int /\ x \in Int /\ y \in Int
    OBVIOUS
  <2> QED BY <2>2, <2>3
<1> QED BY <1>7

(* How the steps are numbered. *)
LEMMA NumbersOfSteps ==
  /\ Review \in Nat /\ Review >= 4 /\ Steps = 1 .. Review /\ NoStep = Review + 1
  /\ Plan = 1 /\ Execute = 2 /\ VerifyAt(0) = 3 /\ VerifyAt(0) \in Verifies
  /\ \A v \in Verifies : /\ v \in Steps /\ v >= 3 /\ v < Review
                         /\ v # 3 => v - 2 \in Verifies
  /\ \A r \in Repairs : r \in Steps /\ r >= 4 /\ r < Review /\ r - 1 \in Verifies
  /\ \A v, w \in Verifies : v < w => v <= w - 2
<1> USE CodingFlowAssumption
<1>1. Review \in Nat /\ Review >= 4 /\ Review = 2 * FlowRepairs + 4
  BY DEF Review, VerifyAt
<1>2. Steps = 1 .. Review /\ NoStep = Review + 1 /\ Plan = 1 /\ Execute = 2
  BY DEF Steps, Plan, Execute, NoStep
<1>3. VerifyAt(0) = 3 /\ VerifyAt(0) \in Verifies
  BY DEF VerifyAt, Verifies
<1>4. ASSUME NEW v \in Verifies
      PROVE  /\ v \in Steps /\ v >= 3 /\ v < Review
             /\ v # 3 => v - 2 \in Verifies
  <2>1. PICK n \in 0 .. FlowRepairs : v = 3 + 2 * n
    BY DEF Verifies, VerifyAt
  <2>2. v # 3 => n - 1 \in 0 .. FlowRepairs /\ v - 2 = VerifyAt(n - 1)
    BY <2>1 DEF VerifyAt
  <2> QED BY <1>1, <1>2, <2>1, <2>2 DEF Verifies
<1>5. ASSUME NEW r \in Repairs
      PROVE  r \in Steps /\ r >= 4 /\ r < Review /\ r - 1 \in Verifies
  <2>1. PICK n \in 1 .. FlowRepairs : r = 3 + 2 * n - 1
    BY DEF Repairs, VerifyAt
  <2>2. n - 1 \in 0 .. FlowRepairs /\ r - 1 = 3 + 2 * (n - 1)
    BY <2>1
  <2>3. r - 1 \in Verifies
    <3>1. r - 1 = 3 + 2 * n - 2
      BY <2>1
    <3>2. r = 2 * n + 2
      BY <2>1
    <3> QED BY <2>2 DEF Verifies, VerifyAt
  <2> QED BY <1>1, <1>2, <2>1, <2>3
<1>6. ASSUME NEW v \in Verifies, NEW w \in Verifies, v < w
      PROVE  v <= w - 2
  <2>1. PICK n \in 0 .. FlowRepairs : v = 3 + 2 * n
    BY DEF Verifies, VerifyAt
  <2>2. PICK k \in 0 .. FlowRepairs : w = 3 + 2 * k
    BY DEF Verifies, VerifyAt
  <2> QED BY <1>6, <2>1, <2>2
<1> QED BY <1>1, <1>2, <1>3, <1>4, <1>5, <1>6

-----------------------------------------------------------------------------
(* The steps up to the one that runs, and no others, have succeeded. *)
LEMMA BeforeTheStep ==
  ASSUME FlowInv, at \in Steps
  PROVE  /\ \A t \in Steps : t < at => flow[t] = "success"
         /\ \A t \in Steps : ~(t < at) => flow[t] = "none"
         /\ Succeeded = {v \in Verifies : v < at}
         /\ flowRecord = "active"
         /\ at = Plan => edits = 0
<1>1. \A t \in Steps : flow[t] = IF t < at THEN "success" ELSE "none"
  BY DEF FlowInv, StepsSucceedInOrder
<1>2. Succeeded = {v \in Verifies : v < at}
  BY <1>1, NumbersOfSteps DEF Succeeded
<1>3. at # NoStep
  BY NumbersOfSteps
<1>4. at = Plan => edits = 0
  <2>1. at = Plan => flow[Plan] = "none"
    BY <1>1, NumbersOfSteps
  <2>2. edits \in Nat
    BY DEF FlowInv, FlowTypeOK
  <2> QED BY <2>1, <2>2 DEF FlowInv, ExecutedIsPermitted
<1> QED BY <1>1, <1>2, <1>3, <1>4 DEF FlowInv

(* A step that ends keeps the order of the steps. *)
LEMMA StepEnds ==
  ASSUME FlowInv, at \in Steps, NEW status \in {"success", "failed", "waiting"},
         Done(at, status), IF status = "success" THEN Goes(at) ELSE at' = 0
  PROVE  /\ StepsSucceedInOrder'
         /\ flow' \in [Steps -> {"none", "success", "failed", "waiting"}]
         /\ at' \in 0 .. NoStep /\ at' # NoStep
         /\ flow'[at] = status /\ \A t \in Steps : t # at => flow'[t] = flow[t]
         /\ Succeeded' = IF status = "success" /\ at \in Verifies
                         THEN Succeeded \cup {at} ELSE Succeeded
<1>1. flow \in [Steps -> {"none", "success", "failed", "waiting"}]
  BY DEF FlowInv, FlowTypeOK
<1>2. flow'[at] = status /\ \A t \in Steps : t # at => flow'[t] = flow[t]
  BY <1>1 DEF Done
<1>3. flow' \in [Steps -> {"none", "success", "failed", "waiting"}]
  BY <1>1 DEF Done
<1>4. at' \in 0 .. NoStep /\ at' # NoStep
  BY NumbersOfSteps DEF Goes
<1>5. \A t \in Steps : t < at => flow'[t] = "success"
  BY <1>2, BeforeTheStep, NumbersOfSteps
<1>6. \A t \in Steps : at < t => flow'[t] = "none"
  BY <1>2, BeforeTheStep, NumbersOfSteps
<1>7. \A s, t \in Steps : t < s /\ flow'[s] # "none" => flow'[t] = "success"
  BY <1>5, <1>6, NumbersOfSteps
<1>8. at' \in Steps => \A t \in Steps : flow'[t] = IF t < at' THEN "success" ELSE "none"
  <2>1. CASE at' = 0
    BY <2>1, NumbersOfSteps
  <2>2. CASE status = "success" /\ at' = at + 1
    BY <2>2, <1>2, <1>5, <1>6, NumbersOfSteps
  <2> QED BY <2>1, <2>2 DEF Goes
<1>9. Succeeded' = IF status = "success" /\ at \in Verifies
                   THEN Succeeded \cup {at} ELSE Succeeded
  <2>1. flow[at] = "none"
    BY BeforeTheStep, NumbersOfSteps
  <2>2. \A v \in Verifies : v \in Steps
    BY NumbersOfSteps
  <2> QED BY <1>2, <2>1, <2>2 DEF Succeeded
<1>10. StepsSucceedInOrder'
  BY <1>7, <1>8 DEF StepsSucceedInOrder
<1> QED BY <1>2, <1>3, <1>4, <1>9, <1>10

(* A step that stops the flow changes nothing else. *)
LEMMA StopKeeps ==
  ASSUME FlowInv, at \in Steps, NEW status \in {"failed", "waiting"},
         Done(at, status), at' = 0, toolRequest' \in {"none", "pending", "decided"},
         UNCHANGED <<checks, plan, granted, edits, found, review, flowRecord>>
  PROVE  FlowInv'
<1>1. /\ StepsSucceedInOrder'
      /\ flow' \in [Steps -> {"none", "success", "failed", "waiting"}]
      /\ at' \in 0 .. NoStep
      /\ flow'[at] = status /\ \A t \in Steps : t # at => flow'[t] = flow[t]
      /\ Succeeded' = Succeeded
  BY StepEnds
<1>2. FlowTypeOK'
  BY <1>1 DEF FlowInv, FlowTypeOK
<1>3. ExecutedIsPermitted'
  <2>1. Permitted' = Permitted
    BY DEF Permitted
  <2>2. flow'[Execute] = "success" => flow[Execute] = "success"
    BY <1>1, NumbersOfSteps
  <2>3. edits > 0 => flow'[Plan] = "success"
    <3>1. edits > 0 => at # Plan
      BY BeforeTheStep
    <3> QED BY <1>1, <3>1, NumbersOfSteps DEF FlowInv, ExecutedIsPermitted
  <2> QED BY <2>1, <2>2, <2>3 DEF FlowInv, ExecutedIsPermitted
<1>4. VerificationsStand'
  BY <1>1 DEF FlowInv, VerificationsStand
<1>5. flowRecord' = "active"
  BY BeforeTheStep
<1> QED BY <1>1, <1>2, <1>3, <1>4, <1>5 DEF FlowInv, SuccessIsChecked

(* A step that succeeds lets the next one run. *)
LEMMA SuccessKeeps ==
  ASSUME FlowInv, at \in Steps, Done(at, "success"), Goes(at),
         plan' \in {"none", "answer", "high", "ordinary"}, review' \in BOOLEAN,
         plan' # plan => at = Plan, at = Execute => Permitted,
         found' \in [Verifies -> [outcome : {"none", "passed", "failed"}, edits : Nat]],
         \A s, t \in Succeeded' :
           s < t /\ found'[s].outcome # "failed" => found'[t] = found'[s],
         \A s \in Succeeded' : found'[s].outcome = "passed" => found'[s].edits = edits,
         UNCHANGED <<checks, granted, toolRequest, edits, flowRecord>>
  PROVE  FlowInv'
<1>1. /\ StepsSucceedInOrder'
      /\ flow' \in [Steps -> {"none", "success", "failed", "waiting"}]
      /\ at' \in 0 .. NoStep
      /\ flow'[at] = "success" /\ \A t \in Steps : t # at => flow'[t] = flow[t]
  BY StepEnds
<1>2. FlowTypeOK'
  BY <1>1 DEF FlowInv, FlowTypeOK
<1>3. ExecutedIsPermitted'
  <2>1. CASE at = Plan
    <3>1. edits' = 0
      BY <2>1, BeforeTheStep
    <3>2. flow'[Execute] = "none"
      BY <2>1, <1>1, BeforeTheStep, NumbersOfSteps
    <3> QED BY <3>1, <3>2 DEF ExecutedIsPermitted
  <2>2. CASE at # Plan
    <3>1. Permitted' = Permitted
      BY <2>2 DEF Permitted
    <3>2. flow'[Plan] = flow[Plan]
      BY <2>2, <1>1, NumbersOfSteps
    <3>3. flow'[Execute] = "success" => Permitted
      BY <1>1, NumbersOfSteps DEF FlowInv, ExecutedIsPermitted
    <3> QED BY <3>1, <3>2, <3>3 DEF FlowInv, ExecutedIsPermitted
  <2> QED BY <2>1, <2>2
<1>4. VerificationsStand'
  BY DEF VerificationsStand
<1>5. flowRecord' = "active"
  BY BeforeTheStep
<1> QED BY <1>1, <1>2, <1>3, <1>4, <1>5 DEF FlowInv, SuccessIsChecked

(* A verification that is skipped finds what the one before it found, and  *)
(* one that runs follows a failure or is the first.                        *)
LEMMA CheckFinds ==
  ASSUME FlowInv, Check
  PROVE  /\ found' \in [Verifies -> [outcome : {"none", "passed", "failed"}, edits : Nat]]
         /\ \A s, t \in Succeeded' :
              s < t /\ found'[s].outcome # "failed" => found'[t] = found'[s]
         /\ \A s \in Succeeded' : found'[s].outcome = "passed" => found'[s].edits = edits
<1>1. /\ at \in Verifies /\ at \in Steps /\ at \in Nat /\ at >= 3
      /\ at # 3 => at - 2 \in Verifies
      /\ Done(at, "success") /\ Goes(at)
  BY NumbersOfSteps DEF Check
<1>2. Succeeded' = Succeeded \cup {at} /\ Succeeded = {v \in Verifies : v < at}
  BY <1>1, StepEnds, BeforeTheStep
<1>3. found \in [Verifies -> [outcome : {"none", "passed", "failed"}, edits : Nat]] /\ edits \in Nat
  BY DEF FlowInv, FlowTypeOK
<1>4. /\ \A s, t \in Succeeded : s < t /\ found[s].outcome # "failed" => found[t] = found[s]
      /\ \A s \in Succeeded : found[s].outcome = "passed" => found[s].edits = edits
  BY DEF FlowInv, VerificationsStand
<1>5. CASE at # VerifyAt(0) /\ Skip(at - 2)
  <2>1. found' = [found EXCEPT ![at] = found[at - 2]]
    BY <1>5 DEF Check
  <2>2. at - 2 \in Verifies /\ at - 2 \in Succeeded /\ at - 2 < at
    BY <1>1, <1>2, <1>5, NumbersOfSteps
  <2>3. found'[at] = found[at - 2] /\ \A s \in Verifies : s # at => found'[s] = found[s]
    BY <2>1, <1>1, <1>3
  <2>4. found' \in [Verifies -> [outcome : {"none", "passed", "failed"}, edits : Nat]]
    BY <2>1, <2>2, <1>3
  <2>5. ASSUME NEW s \in Succeeded, found[s].outcome # "failed"
        PROVE  found[at - 2] = found[s]
    <3>1. s \in Verifies /\ s < at
      BY <1>2
    <3>2. s <= at - 2 /\ s \in Nat
      BY <3>1, <1>1, NumbersOfSteps
    <3>3. s = at - 2 \/ s < at - 2
      BY <3>2, <1>1, NumbersOfSteps
    <3> QED BY <3>3, <2>2, <2>5, <1>4
  <2>6. ASSUME NEW s \in Succeeded', NEW t \in Succeeded', s < t, found'[s].outcome # "failed"
        PROVE  found'[t] = found'[s]
    <3>1. s \in Succeeded /\ s # at
      BY <2>6, <1>2, <1>1, NumbersOfSteps
    <3>2. found'[s] = found[s]
      BY <3>1, <2>3, <1>2
    <3>3. CASE t = at
      BY <3>3, <3>1, <3>2, <2>3, <2>5, <2>6
    <3>4. CASE t # at
      <4>1. t \in Succeeded /\ found'[t] = found[t]
        BY <3>4, <2>3, <1>2
      <4> QED BY <4>1, <3>1, <3>2, <2>6, <1>4
    <3> QED BY <3>3, <3>4
  <2>7. ASSUME NEW s \in Succeeded', found'[s].outcome = "passed"
        PROVE  found'[s].edits = edits
    BY <2>2, <2>3, <2>7, <1>2, <1>4
  <2> QED BY <2>4, <2>6, <2>7
<1>6. CASE ~(at # VerifyAt(0) /\ Skip(at - 2))
  <2>1. PICK o \in {"none", "passed", "failed"} :
          found' = [found EXCEPT ![at] = [outcome |-> o, edits |-> edits]]
    BY <1>6 DEF Check
  <2> DEFINE w == [outcome |-> o, edits |-> edits]
  <2>2. w \in [outcome : {"none", "passed", "failed"}, edits : Nat] /\ w.edits = edits
    BY <1>3
  <2>3. found' = [found EXCEPT ![at] = w]
    BY <2>1
  <2> HIDE DEF w
  <2>4. found'[at] = w /\ \A s \in Verifies : s # at => found'[s] = found[s]
    BY <2>3, <1>1, <1>3
  <2>5. found' \in [Verifies -> [outcome : {"none", "passed", "failed"}, edits : Nat]]
    BY <2>2, <2>3, <1>3
  <2>6. ASSUME NEW s \in Succeeded PROVE found[s].outcome = "failed"
    <3>1. s \in Verifies /\ s < at
      BY <1>2
    <3>2. s <= at - 2 /\ s \in Nat /\ at # 3
      BY <3>1, <1>1, NumbersOfSteps
    <3>3. at - 2 \in Succeeded
      BY <3>2, <1>1, <1>2, NumbersOfSteps
    <3>4. found[at - 2].outcome = "failed"
      BY <3>2, <3>3, <1>1, <1>3, <1>6, NumbersOfSteps DEF Skip
    <3>5. s = at - 2 \/ s < at - 2
      BY <3>2, <1>1, NumbersOfSteps
    <3> QED BY <3>3, <3>4, <3>5, <1>4
  <2>7. ASSUME NEW s \in Succeeded', NEW t \in Succeeded', s < t, found'[s].outcome # "failed"
        PROVE  FALSE
    <3>1. s \in Succeeded /\ s # at
      BY <2>7, <1>2, <1>1, NumbersOfSteps
    <3> QED BY <3>1, <2>4, <2>6, <2>7, <1>2
  <2>8. ASSUME NEW s \in Succeeded', found'[s].outcome = "passed"
        PROVE  found'[s].edits = edits
    BY <2>2, <2>4, <2>6, <2>8, <1>2
  <2> QED BY <2>5, <2>7, <2>8
<1> QED BY <1>5, <1>6

(* An agent works under a plan that was permitted. *)
LEMMA WorkIsPermitted ==
  ASSUME FlowInv, AgentWorks
  PROVE  at \in Steps /\ at # Plan /\ Permitted /\ flow[Plan] = "success"
<1>1. at \in Steps /\ at > 1
  BY NumbersOfSteps DEF AgentWorks
<1>2. flow[Plan] = "success"
  BY <1>1, BeforeTheStep, NumbersOfSteps
<1>3. CASE at = Execute
  <2>1. granted = "approved" \/ Risk = "go"
    BY <1>3, NumbersOfSteps DEF AgentWorks
  <2>2. Risk = "go" => plan = "ordinary"
    BY DEF Risk
  <2> QED BY <1>1, <1>2, <2>1, <2>2, NumbersOfSteps DEF Permitted
<1>4. CASE at # Execute
  <2>1. flow[Execute] = "success"
    BY <1>1, <1>4, BeforeTheStep, NumbersOfSteps
  <2> QED BY <1>1, <1>2, <2>1, NumbersOfSteps DEF FlowInv, ExecutedIsPermitted
<1> QED BY <1>3, <1>4

(* A change, while every verification that succeeded found a failure. *)
LEMMA EditKeeps ==
  ASSUME FlowInv, Edit
  PROVE  FlowInv'
<1>1. /\ at \in Steps /\ AgentWorks /\ edits' = edits + 1
      /\ at \in Repairs => ~Skip(at - 1)
      /\ UNCHANGED <<checks, flow, plan, granted, toolRequest, found, review, at, flowRecord>>
  BY WorkIsPermitted DEF Edit
<1>2. FlowTypeOK'
  BY <1>1 DEF FlowInv, FlowTypeOK
<1>3. StepsSucceedInOrder'
  BY <1>1 DEF FlowInv, StepsSucceedInOrder
<1>4. ExecutedIsPermitted'
  BY <1>1, WorkIsPermitted DEF FlowInv, ExecutedIsPermitted, Permitted
<1>5. Succeeded' = Succeeded
  BY <1>1 DEF Succeeded
<1>6. ASSUME NEW s \in Succeeded PROVE found[s].outcome = "failed"
  <2>1. s \in Verifies /\ s < at /\ s >= 3 /\ s \in Nat
    BY <1>1, BeforeTheStep, NumbersOfSteps
  <2>2. at \in Repairs
    BY <1>1, <2>1, NumbersOfSteps DEF AgentWorks
  <2>3. at - 1 \in Verifies /\ at \in Nat
    BY <2>2, NumbersOfSteps
  <2>4. at - 1 \in Succeeded
    BY <1>1, <2>3, BeforeTheStep
  <2>5. found[at - 1] \in [outcome : {"none", "passed", "failed"}, edits : Nat]
    BY <2>3 DEF FlowInv, FlowTypeOK
  <2>6. found[at - 1].outcome = "failed"
    BY <1>1, <2>2, <2>5 DEF Skip
  <2>7. s = at - 1 \/ s < at - 1
    BY <2>1, <2>3
  <2> QED BY <2>4, <2>6, <2>7 DEF FlowInv, VerificationsStand
<1>7. VerificationsStand'
  BY <1>1, <1>5, <1>6 DEF FlowInv, VerificationsStand
<1>8. flowRecord' = "active"
  BY <1>1, BeforeTheStep
<1> QED BY <1>1, <1>2, <1>3, <1>4, <1>7, <1>8 DEF FlowInv, SuccessIsChecked

(* What the record says of a flow that ended. *)
LEMMA FinalizeKeeps ==
  ASSUME FlowInv, Finalize
  PROVE  FlowInv'
<1>1. /\ flowRecord' = Verdict /\ at' = NoStep
      /\ UNCHANGED <<checks, flow, plan, granted, toolRequest, edits, found, review>>
  BY DEF Finalize
<1>2. Verdict \in {"succeeded", "failed", "attention", "waiting"}
  <2>1. CASE toolRequest = "pending"
    BY <2>1 DEF Verdict
  <2>2. CASE toolRequest # "pending" /\ flow[Execute] = "waiting"
    BY <2>2 DEF Verdict
  <2>3. CASE toolRequest # "pending" /\ flow[Execute] # "waiting"
    BY <2>3 DEF Verdict
  <2> QED BY <2>1, <2>2, <2>3
<1>3. FlowTypeOK'
  BY <1>1, <1>2, NumbersOfSteps DEF FlowInv, FlowTypeOK
<1>4. StepsSucceedInOrder' /\ at' \notin Steps
  BY <1>1, NumbersOfSteps DEF FlowInv, StepsSucceedInOrder
<1>5. ExecutedIsPermitted'
  BY <1>1 DEF FlowInv, ExecutedIsPermitted, Permitted
<1>6. Succeeded' = Succeeded
  BY <1>1 DEF Succeeded
<1>7. VerificationsStand'
  BY <1>1, <1>6 DEF FlowInv, VerificationsStand
<1>8. ASSUME Verdict = "succeeded", plan # "answer", checks # "not_needed"
      PROVE  \E s \in Verifies : found[s] = [outcome |-> "passed", edits |-> edits]
  <2>1. ~Unchecked
    <3>1. toolRequest # "pending" /\ flow[Execute] # "waiting"
      BY <1>8 DEF Verdict
    <3> QED BY <1>8, <3>1 DEF Verdict
  <2>2. Succeeded # {} /\ LatestFound \notin {"none", "failed"}
    BY <1>8, <2>1 DEF Unchecked, LatestFound
  <2>3. Succeeded \in SUBSET (0 .. Review)
    <3>1. ASSUME NEW v \in Verifies PROVE v \in 0 .. Review
      BY NumbersOfSteps
    <3> QED BY <3>1 DEF Succeeded
  <2>4. \E s \in Succeeded : \A t \in Succeeded : t <= s
    BY <2>2, <2>3, GreatestNat, NumbersOfSteps
  <2> DEFINE last == CHOOSE s \in Succeeded : \A t \in Succeeded : t <= s
  <2>5. last \in Succeeded /\ LatestFound = found[last].outcome
    BY <2>2, <2>4 DEF LatestFound
  <2> HIDE DEF last
  <2>6. last \in Verifies
    BY <2>5 DEF Succeeded
  <2>7. found[last] \in [outcome : {"none", "passed", "failed"}, edits : Nat]
    BY <2>6 DEF FlowInv, FlowTypeOK
  <2>8. found[last].outcome = "passed"
    BY <2>2, <2>5, <2>7
  <2>9. found[last].edits = edits
    BY <2>5, <2>8 DEF FlowInv, VerificationsStand
  <2> QED BY <2>6, <2>7, <2>8, <2>9
<1>9. SuccessIsChecked'
  BY <1>1, <1>8 DEF SuccessIsChecked
<1> QED BY <1>1, <1>3, <1>4, <1>5, <1>7, <1>9 DEF FlowInv

(* A flow that is cut leaves its steps as they are. *)
LEMMA CutKeeps ==
  ASSUME FlowInv, Cut
  PROVE  FlowInv'
<1>1. /\ at' = NoStep /\ flowRecord' \in {"failed", "interrupted"}
      /\ UNCHANGED <<checks, flow, plan, granted, toolRequest, edits, found, review>>
  BY DEF Cut
<1>2. FlowTypeOK'
  BY <1>1, NumbersOfSteps DEF FlowInv, FlowTypeOK
<1>3. StepsSucceedInOrder'
  BY <1>1, NumbersOfSteps DEF FlowInv, StepsSucceedInOrder
<1>4. ExecutedIsPermitted'
  BY <1>1 DEF FlowInv, ExecutedIsPermitted, Permitted
<1>5. VerificationsStand'
  BY <1>1 DEF FlowInv, VerificationsStand, Succeeded
<1> QED BY <1>1, <1>2, <1>3, <1>4, <1>5 DEF FlowInv, SuccessIsChecked

(* An activation at a step before which all succeeded. *)
LEMMA ActivationKeeps ==
  ASSUME FlowInv, NEW s \in Steps, Activate(s), \A t \in Steps : t < s => flow[t] = "success",
         s = Plan => edits = 0, s <= Execute \/ granted' = granted,
         edits > 0 /\ Permitted => Permitted',
         granted' \in {"none", "approved", "rejected"},
         toolRequest' \in {"none", "pending", "decided"}
  PROVE  FlowInv'
<1>1. /\ at' = s /\ flowRecord' = "active"
      /\ flow' = [t \in Steps |-> IF t >= s THEN "none" ELSE flow[t]]
      /\ UNCHANGED <<checks, plan, edits, found, review>>
  BY DEF Activate
<1>2. flow \in [Steps -> {"none", "success", "failed", "waiting"}]
  BY DEF FlowInv, FlowTypeOK
<1>3. \A t \in Steps : flow'[t] = IF t < s THEN "success" ELSE "none"
  BY <1>1, NumbersOfSteps
<1>4. FlowTypeOK'
  <2>1. flow' \in [Steps -> {"none", "success", "failed", "waiting"}]
    BY <1>1, <1>2
  <2>2. at' \in 0 .. NoStep
    BY <1>1, NumbersOfSteps
  <2> QED BY <1>1, <2>1, <2>2 DEF FlowInv, FlowTypeOK
<1>5. StepsSucceedInOrder'
  BY <1>1, <1>3, NumbersOfSteps DEF StepsSucceedInOrder
<1>6. ExecutedIsPermitted'
  <2>1. flow'[Execute] = "success" => flow[Execute] = "success" /\ granted' = granted
    BY <1>3, NumbersOfSteps
  <2>2. edits > 0 => flow'[Plan] = "success"
    BY <1>3, NumbersOfSteps DEF FlowInv, FlowTypeOK
  <2> QED BY <1>1, <2>1, <2>2 DEF FlowInv, ExecutedIsPermitted, Permitted
<1>7. Succeeded' \in SUBSET Succeeded
  BY <1>3, NumbersOfSteps DEF Succeeded
<1>8. VerificationsStand'
  BY <1>1, <1>7 DEF FlowInv, VerificationsStand
<1> QED BY <1>1, <1>4, <1>5, <1>6, <1>8 DEF FlowInv, SuccessIsChecked

(* Every step of the flow keeps the invariant. *)
LEMMA FlowStepKeeps ==
  ASSUME FlowInv, [FlowNext]_flowVars
  PROVE  FlowInv'
<1>1. CASE Fail \/ Refuse \/ Wait \/ Ask
  <2>1. at \in Steps
    BY <1>1, WorkIsPermitted, NumbersOfSteps DEF Fail, Refuse, Wait, Ask
  <2>2. toolRequest \in {"none", "pending", "decided"}
    BY DEF FlowInv, FlowTypeOK
  <2>3. CASE Fail
    BY <2>1, <2>2, <2>3, StopKeeps DEF Fail
  <2>4. CASE Refuse
    BY <2>1, <2>2, <2>4, StopKeeps DEF Refuse
  <2>5. CASE Wait
    BY <2>1, <2>2, <2>5, StopKeeps DEF Wait
  <2>6. CASE Ask
    BY <2>1, <2>6, StopKeeps DEF Ask
  <2> QED BY <1>1, <2>3, <2>4, <2>5, <2>6
<1>2. CASE Check
  <2>1. at \in Steps /\ at # Execute
    BY <1>2, NumbersOfSteps DEF Check
  <2>2. plan \in {"none", "answer", "high", "ordinary"} /\ review \in BOOLEAN
    BY DEF FlowInv, FlowTypeOK
  <2> QED BY <1>2, <2>1, <2>2, CheckFinds, SuccessKeeps DEF Check
<1>3. CASE MakePlan \/ Worked \/ Reviewed
  <2>1. at \in Steps /\ at \notin Verifies
    <3>1. \A r \in Repairs : r \notin Verifies
      BY NumbersOfSteps
    <3> QED BY <1>3, <3>1, NumbersOfSteps DEF MakePlan, Worked, Reviewed, AgentWorks
  <2>2. at = Execute => Permitted
    BY <1>3, WorkIsPermitted, NumbersOfSteps DEF MakePlan, Worked, Reviewed
  <2>3. /\ Done(at, "success") /\ Goes(at)
        /\ plan' # plan => at = Plan
        /\ UNCHANGED <<checks, granted, toolRequest, edits, found, flowRecord>>
    BY <1>3 DEF MakePlan, Worked, Reviewed
  <2>4. plan' \in {"none", "answer", "high", "ordinary"} /\ review' \in BOOLEAN
    BY <1>3 DEF MakePlan, Worked, Reviewed, FlowInv, FlowTypeOK
  <2>5. Succeeded' = Succeeded
    BY <2>1, <2>3, StepEnds
  <2>6. /\ \A s, t \in Succeeded' :
             s < t /\ found'[s].outcome # "failed" => found'[t] = found'[s]
        /\ \A s \in Succeeded' : found'[s].outcome = "passed" => found'[s].edits = edits
        /\ found' \in [Verifies -> [outcome : {"none", "passed", "failed"}, edits : Nat]]
    BY <2>3, <2>5 DEF FlowInv, FlowTypeOK, VerificationsStand
  <2> QED BY <2>1, <2>2, <2>3, <2>4, <2>6, SuccessKeeps
<1>4. CASE Edit
  BY <1>4, EditKeeps
<1>5. CASE Finalize
  BY <1>5, FinalizeKeeps
<1>6. CASE Cut
  BY <1>6, CutKeeps
<1>7. CASE ResumeFlow \/ Approve \/ RerunFlow
  <2>1. /\ edits \in Nat /\ granted \in {"none", "approved", "rejected"}
        /\ toolRequest \in {"none", "pending", "decided"}
        /\ edits > 0 => flow[Plan] = "success"
        /\ \A s, t \in Steps : t < s /\ flow[s] # "none" => flow[t] = "success"
    BY DEF FlowInv, FlowTypeOK, ExecutedIsPermitted, StepsSucceedInOrder
  <2>2. CASE ResumeFlow
    <3>1. PICK s \in Steps : FirstOpen(s) /\ Activate(s) /\ UNCHANGED <<granted, toolRequest>>
      BY <2>2 DEF ResumeFlow
    <3>2. \A t \in Steps : t < s => flow[t] = "success"
      BY <3>1 DEF FirstOpen
    <3>3. s = Plan => edits = 0
      BY <2>1, <3>1, NumbersOfSteps DEF FirstOpen
    <3>4. Permitted' = Permitted
      BY <3>1 DEF Activate, Permitted
    <3> QED BY <2>1, <3>1, <3>2, <3>3, <3>4, ActivationKeeps
  <2>3. CASE Approve /\ UNCHANGED toolRequest /\ granted = "none"
                     /\ flow[Execute] = "waiting" /\ Activate(Execute)
    <3>1. granted' \in {"none", "approved", "rejected"}
      BY <2>1, <2>3 DEF Approve
    <3>2. \A t \in Steps : t < Execute => flow[t] = "success"
      BY <2>1, <2>3, NumbersOfSteps
    <3>3. Permitted => Permitted'
      BY <2>3 DEF Activate, Permitted
    <3> QED BY <2>1, <2>3, <3>1, <3>2, <3>3, ActivationKeeps, NumbersOfSteps
  <2>4. CASE toolRequest' = "decided" /\ UNCHANGED granted
             /\ \E s \in Steps : flow[s] = "failed" /\ Activate(s)
    <3>1. PICK s \in Steps : flow[s] = "failed" /\ Activate(s)
      BY <2>4
    <3>2. \A t \in Steps : t < s => flow[t] = "success"
      BY <2>1, <3>1
    <3>3. s = Plan => edits = 0
      BY <2>1, <3>1
    <3>4. Permitted' = Permitted
      BY <2>4, <3>1 DEF Activate, Permitted
    <3> QED BY <2>1, <2>4, <3>1, <3>2, <3>3, <3>4, ActivationKeeps
  <2>5. CASE RerunFlow
    <3>1. /\ flow[VerifyAt(0)] # "none" /\ Activate(VerifyAt(0))
          /\ UNCHANGED <<granted, toolRequest>>
      BY <2>5 DEF RerunFlow
    <3>2. VerifyAt(0) \in Steps /\ VerifyAt(0) # Plan
      BY NumbersOfSteps
    <3>3. \A t \in Steps : t < VerifyAt(0) => flow[t] = "success"
      BY <2>1, <3>1, <3>2
    <3>4. Permitted' = Permitted
      BY <3>1 DEF Activate, Permitted
    <3> QED BY <2>1, <3>1, <3>2, <3>3, <3>4, ActivationKeeps
  <2> QED BY <1>7, <2>2, <2>3, <2>4, <2>5 DEF Approve
<1>8. CASE UNCHANGED flowVars
  BY <1>8 DEF flowVars, FlowInv, FlowTypeOK, StepsSucceedInOrder, ExecutedIsPermitted, Permitted,
              VerificationsStand, Succeeded, SuccessIsChecked
<1> QED BY <1>1, <1>2, <1>3, <1>4, <1>5, <1>6, <1>7, <1>8 DEF FlowNext

(* The invariant of the fixed workflow: the steps that succeeded are the   *)
(* first ones, and what was executed was permitted (_build_flow).          *)
THEOREM FlowInvHolds == FlowSpec => []FlowInv
<1>1. FlowInit => FlowInv
  <2> SUFFICES ASSUME FlowInit PROVE FlowInv
    OBVIOUS
  <2>1. Succeeded = {}
    BY NumbersOfSteps DEF FlowInit, Succeeded
  <2>2. FlowTypeOK
    <3>1. NotFound \in [outcome : {"none", "passed", "failed"}, edits : Nat]
      BY DEF NotFound
    <3>2. found \in [Verifies -> [outcome : {"none", "passed", "failed"}, edits : Nat]]
      BY <3>1 DEF FlowInit
    <3>3. flow \in [Steps -> {"none", "success", "failed", "waiting"}]
      BY DEF FlowInit
    <3>4. at \in 0 .. NoStep
      BY NumbersOfSteps DEF FlowInit
    <3> QED BY <3>2, <3>3, <3>4 DEF FlowInit, FlowTypeOK
  <2>3. StepsSucceedInOrder
    BY NumbersOfSteps DEF FlowInit, StepsSucceedInOrder
  <2> QED BY <2>1, <2>2, <2>3, NumbersOfSteps
          DEF FlowInit, FlowInv, ExecutedIsPermitted, VerificationsStand, SuccessIsChecked
<1>2. FlowInv /\ [FlowNext]_flowVars => FlowInv'
  BY FlowStepKeeps
<1> QED BY <1>1, <1>2, PTL DEF FlowSpec

(* The workspace is changed only under a plan of ordinary risk or with the *)
(* user's approval, and a change that succeeds has passed its              *)
(* verification as it is (_build_flow, _finalize).                         *)
THEOREM FlowIsSoundHolds == FlowSpec => []FlowIsSound
<1>1. FlowInv => FlowIsSound
  BY DEF FlowInv, FlowTypeOK, ExecutedIsPermitted, Permitted, FlowIsSound, EditsAreApproved
<1> QED BY <1>1, FlowInvHolds, PTL
=============================================================================
