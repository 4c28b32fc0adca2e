-------------------------- MODULE JobRegistryProofs --------------------------
(***************************************************************************)
(* Theorems about JobRegistry, for every set of jobs, registries and       *)
(* processes, every lease length and every value of the bounds.            *)
(***************************************************************************)
EXTENDS JobRegistry, TLAPS

USE ConstantsAssumption

LEMMA LastItemsType ==
  ASSUME NEW S, NEW s \in Seq(S), NEW n \in Nat \ {0}
  PROVE  LastItems(s, n) \in Seq(S)
BY DEF LastItems

Items == [cursor : Nat, epoch : Nat]

LEMMA PublishedType ==
  ASSUME NEW job \in JobRecords, NEW epoch \in Nat
  PROVE  Published(job, epoch) \in JobRecords
<1>1. ASSUME NEW c \in Nat, NEW o \in Seq(Items)
      PROVE  [job EXCEPT !.cursor = c, !.output = o] \in JobRecords
  BY DEF JobRecords, Items
<1>2. /\ job.cursor + 1 \in Nat
      /\ Append(job.output, [cursor |-> job.cursor + 1, epoch |-> epoch]) \in Seq(Items)
  BY DEF JobRecords, Items
<1>3. LastItems(Append(job.output, [cursor |-> job.cursor + 1, epoch |-> epoch]),
                KeptOutput) \in Seq(Items)
  BY <1>2, LastItemsType
<1>4. QED
  BY <1>1, <1>2, <1>3 DEF Published

LEMMA JobTypes ==
  ASSUME TypeOK, NEW j \in Jobs
  PROVE  /\ jobs[j] \in JobRecords
         /\ AbsentJob \in JobRecords
         /\ \A r \in Registries : Claimed(jobs[j], r) \in JobRecords
         /\ \A target \in Statuses : Revoked(jobs[j], target) \in JobRecords
         /\ \A target \in Statuses, r \in Registries :
              Claimed(Revoked(jobs[j], target), r) \in JobRecords
         /\ Recovered(jobs[j]) \in JobRecords
<1>1. jobs[j] \in JobRecords
  BY DEF TypeOK
<1>2. AbsentJob \in JobRecords
  BY DEF AbsentJob, JobRecords
<1>3. ASSUME NEW job \in JobRecords, NEW r \in Registries
      PROVE  Claimed(job, r) \in JobRecords
  <2>1. ASSUME NEW e \in Nat, NEW l \in Nat
        PROVE  [job EXCEPT !.status = "running", !.owner = r,
                           !.process = ProcessOf[r], !.epoch = e, !.lease = l]
                 \in JobRecords
    BY DEF JobRecords, Statuses
  <2>2. job.epoch + 1 \in Nat /\ now + LeaseSeconds \in Nat
    BY DEF JobRecords, TypeOK
  <2>3. QED
    BY <2>1, <2>2 DEF Claimed
<1>4. ASSUME NEW job \in JobRecords, NEW target \in Statuses
      PROVE  Revoked(job, target) \in JobRecords
  <2>1. ASSUME NEW e \in Nat
        PROVE  [job EXCEPT !.status = target, !.epoch = e, !.lease = 0] \in JobRecords
    BY DEF JobRecords
  <2>2. job.epoch + 1 \in Nat
    BY DEF JobRecords
  <2>3. QED
    BY <2>1, <2>2 DEF Revoked
<1>5. Recovered(jobs[j]) \in JobRecords
  BY <1>1 DEF Recovered, JobRecords, Statuses
<1>6. QED
  BY <1>1, <1>2, <1>3, <1>4, <1>5

LEMMA EpochType ==
  ASSUME TypeOK, NEW j \in Jobs
  PROVE  jobs[j].epoch \in Nat
BY DEF TypeOK, JobRecords

(* A cascade reaches its root and otherwise unfinished jobs only. *)
LEMMA CascadeUnfinished ==
  ASSUME TypeOK, ThreadsMatchJobs,
         NEW j \in Jobs, jobs[j].status \in Statuses \ Terminal
  PROVE  \A k \in Cascade(j) : jobs[k].status \in Statuses \ Terminal
<1> DEFINE S == {k \in Jobs : jobs[k].status \in Statuses \ Terminal}
<1>1. \A c \in Jobs : jobs[c].parent \in S /\ jobs[c].status \notin Terminal => c \in S
  <2>1. ASSUME NEW c \in Jobs, jobs[c].parent \in Jobs
        PROVE  jobs[c].status # "absent"
    BY <2>1 DEF ThreadsMatchJobs, AbsentJob
  <2>2. \A c \in Jobs : jobs[c].status \in Statuses \cup {"absent"}
    BY DEF TypeOK, JobRecords
  <2>3. QED
    BY <2>1, <2>2
<1>2. \A k \in Cascade(j) : k \in S
  BY <1>1 DEF Cascade
<1>3. QED
  BY <1>2

LEMMA GotoType ==
  ASSUME TypeOK, NEW d \in drives, NEW stage \in DriveStages, Goto(d, stage)
  PROVE  drives' \in SUBSET Drives
BY DEF TypeOK, Goto, Drives

LEMMA TypeStep == TypeOK /\ [Next]_vars => TypeOK'
<1> SUFFICES ASSUME TypeOK, [Next]_vars
             PROVE  TypeOK'
  OBVIOUS
<1> USE DEF DriveStages
<1>1. ASSUME NEW r \in Registries, NEW j \in Jobs,
             NEW parent \in Jobs \cup {None}, Create(r, j, parent)
      PROVE  TypeOK'
  <2>1. ASSUME NEW job \in JobRecords
        PROVE  [job EXCEPT !.status = "pending", !.process = ProcessOf[r],
                           !.parent = parent] \in JobRecords
    BY DEF JobRecords, Statuses
  <2>2. QED
    BY <1>1, <2>1, JobTypes DEF Create, TypeOK
<1>2. ASSUME NEW r \in Registries, NEW j \in Jobs, Start(r, j)
      PROVE  TypeOK'
  <2>1. Claimed(jobs[j], r) \in JobRecords /\ jobs[j].epoch \in Nat
    BY JobTypes, EpochType
  <2>2. NewDrive(j, jobs[j].epoch + 1, r) \in Drives
    BY <2>1 DEF NewDrive, Drives, AfterCheckpoint
  <2>3. QED
    BY <1>2, <2>1, <2>2 DEF Start, TypeOK
<1>3. ASSUME NEW r \in Registries, NEW j \in Jobs,
             NEW target \in {"paused", "cancelled"}, Control(r, j, target)
      PROVE  TypeOK'
  <2>1. target \in Statuses
    BY DEF Statuses, Terminal
  <2>2. \A k \in Jobs : jobs[k] \in JobRecords /\ Revoked(jobs[k], target) \in JobRecords
    BY <2>1, JobTypes
  <2>3. QED
    BY <1>3, <2>2 DEF Control, TypeOK
<1>4. ASSUME NEW r \in Registries, NEW j \in Jobs, Resume(r, j)
      PROVE  TypeOK'
  <2>1. "pending" \in Statuses
    BY DEF Statuses
  <2>2. Claimed(Revoked(jobs[j], "pending"), r) \in JobRecords /\ jobs[j].epoch \in Nat
    BY <2>1, JobTypes, EpochType
  <2>3. NewDrive(j, jobs[j].epoch + 2, r) \in Drives
    BY <2>2 DEF NewDrive, Drives, AfterCheckpoint
  <2>4. QED
    BY <1>4, <2>2, <2>3 DEF Resume, TypeOK
<1>5. CASE Recover
  <2>1. \A j \in Jobs : jobs[j] \in JobRecords /\ Recovered(jobs[j]) \in JobRecords
    BY JobTypes
  <2>2. QED
    BY <1>5, <2>1 DEF Recover, TypeOK
<1>6. ASSUME NEW d \in drives, Begin(d)
      PROVE  TypeOK'
  BY <1>6, GotoType DEF Begin, TypeOK
<1>7. ASSUME NEW d \in drives, ReadJob(d)
      PROVE  TypeOK'
  <2>1. d \in Drives /\ jobs[d.job].lease \in Nat
    BY DEF TypeOK, Drives, JobRecords
  <2>2. \A l \in Nat : [d EXCEPT !.stage = "readControl", !.lease = l] \in Drives
    BY <2>1 DEF Drives
  <2>3. QED
    BY <1>7, <2>1, <2>2 DEF ReadJob, TypeOK
<1>8. ASSUME NEW d \in drives, ReadControl(d)
      PROVE  TypeOK'
  <2>1. d.then \in AfterCheckpoint
    BY DEF TypeOK, Drives
  <2>2. \E stage \in DriveStages : Goto(d, stage)
    BY <1>8, <2>1 DEF ReadControl, AfterCheckpoint
  <2>3. QED
    BY <1>8, <2>2, GotoType DEF ReadControl, TypeOK
<1>9. ASSUME NEW d \in drives, NEW then \in AfterCheckpoint, Checkpoint(d, then)
      PROVE  TypeOK'
  <2>1. [d EXCEPT !.stage = "readJob", !.then = then, !.lease = 0] \in Drives
    BY DEF TypeOK, Drives
  <2>2. QED
    BY <1>9, <2>1 DEF Checkpoint, TypeOK
<1>10. ASSUME NEW d \in drives, OperationRaises(d)
       PROVE  TypeOK'
  BY <1>10, GotoType DEF OperationRaises, TypeOK
<1>11. ASSUME NEW d \in drives, NEW s \in RecordStatuses, RunnerSaves(d, s)
       PROVE  TypeOK'
  BY <1>11 DEF RunnerSaves, TypeOK
<1>12. ASSUME NEW d \in drives, Publish(d)
       PROVE  TypeOK'
  <2>1. d \in Drives
    BY DEF TypeOK
  <2>2. jobs[d.job] \in JobRecords /\ d.epoch \in Nat
    BY <2>1 DEF TypeOK, Drives
  <2>3. Published(jobs[d.job], d.epoch) \in JobRecords
    BY <2>2, PublishedType
  <2>4. drives' \in SUBSET Drives
    BY <1>12, GotoType DEF Publish
  <2>5. jobs' \in [Jobs -> JobRecords]
    BY <1>12, <2>3 DEF Publish, TypeOK
  <2>6. QED
    BY <1>12, <2>4, <2>5 DEF Publish, TypeOK
<1>13. ASSUME NEW d \in drives, Finish(d)
       PROVE  TypeOK'
  <2>1. d \in Drives
    BY DEF TypeOK
  <2>2. jobs[d.job] \in JobRecords /\ d.epoch \in Nat /\ d.job \in Jobs
    BY <2>1 DEF TypeOK, Drives
  <2>3. [jobs[d.job] EXCEPT !.status = "completed", !.result = d.epoch] \in JobRecords
    BY <2>2 DEF JobRecords, Statuses, Terminal
  <2>4. drives' \in SUBSET Drives
    BY <1>13, GotoType DEF Finish, Leave, TypeOK
  <2>5. jobs' \in [Jobs -> JobRecords]
    BY <1>13, <2>2, <2>3 DEF Finish, TypeOK
  <2>6. QED
    BY <1>13, <2>4, <2>5 DEF Finish, TypeOK
<1>14. ASSUME NEW d \in drives, NEW blank \in BOOLEAN, Fail(d, blank)
       PROVE  TypeOK'
  <2>1. d \in Drives
    BY DEF TypeOK
  <2>2. jobs[d.job] \in JobRecords /\ d.epoch \in Nat /\ d.job \in Jobs
    BY <2>1 DEF TypeOK, Drives
  <2>3. \A status \in {"completed", "failed"} :
          [jobs[d.job] EXCEPT !.status = status, !.result = d.epoch, !.raised = TRUE]
            \in JobRecords
    BY <2>2 DEF JobRecords, Statuses, Terminal
  <2>4. jobs' \in [Jobs -> JobRecords]
    BY <1>14, <2>2, <2>3 DEF Fail, TypeOK
  <2>5. QED
    BY <1>14, <2>4 DEF Fail, Leave, TypeOK
<1>15. ASSUME NEW d \in drives, Interrupted(d)
       PROVE  TypeOK'
  <2>1. d \in Drives
    BY DEF TypeOK
  <2>2. jobs[d.job] \in JobRecords /\ d.job \in Jobs
    BY <2>1 DEF TypeOK, Drives
  <2>3. \A status \in {"paused", "cancelled", "interrupted"} :
          [jobs[d.job] EXCEPT !.lease = 0, !.status = status] \in JobRecords
    BY <2>2 DEF JobRecords, Statuses, Terminal
  <2>4. jobs' \in [Jobs -> JobRecords]
    BY <1>15, <2>2, <2>3 DEF Interrupted, TypeOK
  <2>5. record' \in RecordStatuses
    BY <1>15 DEF Interrupted, TypeOK, RecordStatuses
  <2>6. QED
    BY <1>15, <2>4, <2>5 DEF Interrupted, Leave, TypeOK
<1>16. ASSUME NEW d \in drives, Renew(d)
       PROVE  TypeOK'
  <2>1. d.job \in Jobs /\ jobs[d.job] \in JobRecords
    BY DEF TypeOK, Drives
  <2>2. now + LeaseSeconds \in Nat
    BY DEF TypeOK
  <2>3. [jobs[d.job] EXCEPT !.lease = now + LeaseSeconds] \in JobRecords
    BY <2>1, <2>2 DEF JobRecords
  <2>4. QED
    BY <1>16, <2>1, <2>3 DEF Renew, TypeOK
<1>17. ASSUME NEW s \in Controls, SetControl(s)
       PROVE  TypeOK'
  BY <1>17 DEF SetControl, TypeOK
<1>18. ASSUME NEW p \in Processes,
              RegisterHandlers(p) \/ UnregisterHandlers(p) \/ Crash(p)
       PROVE  TypeOK'
  BY <1>18 DEF RegisterHandlers, UnregisterHandlers, Crash, TypeOK
<1>19. CASE Tick
  BY <1>19 DEF Tick, TypeOK
<1>20. CASE UNCHANGED vars
  BY <1>20 DEF vars, TypeOK
<1>21. QED
  BY <1>1, <1>2, <1>3, <1>4, <1>5, <1>6, <1>7, <1>8, <1>9, <1>10, <1>11, <1>12,
     <1>13, <1>14, <1>15, <1>16, <1>17, <1>18, <1>19, <1>20
     DEF Next, RegistryStep, DriveStep

(* The durable records, the control state, the threads and the clock keep  *)
(* their types through every claim, renewal, control action, crash and     *)
(* recovery.                                                               *)
THEOREM TypeCorrect == Spec => []TypeOK
<1>1. Init => TypeOK
  <2>1. AbsentJob \in JobRecords
    BY DEF AbsentJob, JobRecords
  <2>2. QED
    BY <2>1 DEF Init, TypeOK, Controls, RecordStatuses
<1>2. QED
  BY <1>1, TypeStep, PTL DEF Spec

-----------------------------------------------------------------------------
(* What one step may do to one job record x at time t, with the threads    *)
(* left out.  Every action of JobRegistry is one of these for every job.   *)

Held(x, t) == x.status = "running" /\ x.lease >= t
Unfinished(x) == x.status \in Statuses \ Terminal

Creates(x, y) ==
  /\ x = AbsentJob
  /\ \E p \in Processes, q \in Jobs \cup {None} :
       y = [x EXCEPT !.status = "pending", !.process = p, !.parent = q]

Claims(x, y) ==
  /\ Unfinished(x)
  /\ \E r \in Registries, e \in Nat, l \in Nat :
       /\ e > x.epoch
       /\ y = [x EXCEPT !.status = "running", !.owner = r,
                        !.process = ProcessOf[r], !.epoch = e, !.lease = l]

Revokes(x, y) ==
  /\ Unfinished(x)
  /\ \E e \in Nat, s \in {"paused", "cancelled", "interrupted"} :
       /\ e >= x.epoch
       /\ y = [x EXCEPT !.status = s, !.epoch = e, !.lease = 0]

Renews(x, y, t) ==
  Held(x, t) /\ \E l \in Nat : y = [x EXCEPT !.lease = l]

Publishes(x, y, t) ==
  Held(x, t) /\ y = Published(x, x.epoch)

Concludes(x, y, t) ==
  /\ Held(x, t)
  /\ \E s \in {"completed", "failed"}, b \in BOOLEAN :
       y = [x EXCEPT !.status = s, !.result = x.epoch, !.raised = b]

Effect(x, y, t) ==
  \/ y = x \/ Creates(x, y) \/ Claims(x, y) \/ Revokes(x, y)
  \/ Renews(x, y, t) \/ Publishes(x, y, t) \/ Concludes(x, y, t)

LEMMA ClaimsIntro ==
  ASSUME NEW x, Unfinished(x), NEW r \in Registries, NEW e \in Nat, e > x.epoch,
         NEW l \in Nat, NEW y,
         y = [x EXCEPT !.status = "running", !.owner = r,
                       !.process = ProcessOf[r], !.epoch = e, !.lease = l]
  PROVE  Claims(x, y)
BY DEF Claims

(* The record that control(resume) leaves: revoked, then claimed. *)
LEMMA ReclaimedRecord ==
  ASSUME NEW job \in JobRecords, NEW r \in Registries
  PROVE  Claimed(Revoked(job, "pending"), r) =
           [job EXCEPT !.status = "running", !.owner = r, !.process = ProcessOf[r],
                       !.epoch = job.epoch + 1 + 1, !.lease = now + LeaseSeconds]
<1>1. ASSUME NEW e, NEW f, NEW l
      PROVE  [[job EXCEPT !.status = "pending", !.epoch = e, !.lease = 0]
                EXCEPT !.status = "running", !.owner = r, !.process = ProcessOf[r],
                       !.epoch = f, !.lease = l]
             = [job EXCEPT !.status = "running", !.owner = r, !.process = ProcessOf[r],
                           !.epoch = f, !.lease = l]
  BY DEF JobRecords
<1>2. Revoked(job, "pending").epoch = job.epoch + 1
  BY DEF Revoked, JobRecords
<1>3. Revoked(job, "pending")
        = [job EXCEPT !.status = "pending", !.epoch = job.epoch + 1, !.lease = 0]
  BY DEF Revoked
<1>4. Claimed(Revoked(job, "pending"), r)
        = [Revoked(job, "pending") EXCEPT
             !.status = "running", !.owner = r, !.process = ProcessOf[r],
             !.epoch = job.epoch + 1 + 1, !.lease = now + LeaseSeconds]
  BY <1>2 DEF Claimed
<1>5. QED
  BY <1>1, <1>3, <1>4

(* Every step has one of these effects on every job, and only Tick, which  *)
(* leaves the jobs alone, moves the clock.                                 *)
LEMMA StepEffects ==
  ASSUME TypeOK, ThreadsMatchJobs, [Next]_vars
  PROVE  /\ \A j \in Jobs : Effect(jobs[j], jobs'[j], now)
         /\ now' = now \/ (now' = now + 1 /\ jobs' = jobs)
<1>0. /\ \A d \in drives : d.job \in Jobs
      /\ \A j \in Jobs : jobs[j].epoch \in Nat /\ jobs[j] \in JobRecords
      /\ now \in Nat /\ now + LeaseSeconds \in Nat
  BY EpochType DEF TypeOK, Drives
<1>1. ASSUME NEW r \in Registries, NEW j \in Jobs,
             NEW parent \in Jobs \cup {None}, Create(r, j, parent)
      PROVE  \A k \in Jobs : Effect(jobs[k], jobs'[k], now)
  <2>1. jobs[j] = AbsentJob
    BY <1>1 DEF Create, ThreadsMatchJobs
  <2>2. Creates(jobs[j], jobs'[j])
    BY <1>1, <2>1 DEF Create, Creates, TypeOK
  <2>3. \A k \in Jobs \ {j} : jobs'[k] = jobs[k]
    BY <1>1 DEF Create, TypeOK
  <2>4. QED
    BY <2>2, <2>3 DEF Effect
<1>2. ASSUME NEW r \in Registries, NEW j \in Jobs, Start(r, j)
      PROVE  \A k \in Jobs : Effect(jobs[k], jobs'[k], now)
  <2>1. Unfinished(jobs[j])
    BY <1>2 DEF Start, Claimable, Unfinished, Statuses, Terminal
  <2>2. jobs[j].epoch + 1 \in Nat /\ jobs[j].epoch + 1 > jobs[j].epoch
    BY <1>0
  <2>3. jobs'[j] = Claimed(jobs[j], r) /\ \A k \in Jobs \ {j} : jobs'[k] = jobs[k]
    BY <1>2 DEF Start, TypeOK
  <2>4. jobs'[j] = [jobs[j] EXCEPT !.status = "running", !.owner = r,
                      !.process = ProcessOf[r], !.epoch = jobs[j].epoch + 1,
                      !.lease = now + LeaseSeconds]
    BY <2>3 DEF Claimed
  <2>5. Claims(jobs[j], jobs'[j])
    BY <1>0, <2>1, <2>2, <2>4, ClaimsIntro
  <2>6. QED
    BY <2>3, <2>5 DEF Effect
<1>3. ASSUME NEW r \in Registries, NEW j \in Jobs,
             NEW target \in {"paused", "cancelled"}, Control(r, j, target)
      PROVE  \A k \in Jobs : Effect(jobs[k], jobs'[k], now)
  <2> SUFFICES ASSUME NEW k \in Jobs, k \in Cascade(j)
               PROVE  Revokes(jobs[k], jobs'[k])
    BY <1>3 DEF Control, Effect
  <2>1. Unfinished(jobs[k])
    BY <1>3, CascadeUnfinished DEF Control, Unfinished
  <2>2. jobs'[k] = Revoked(jobs[k], target)
    BY <1>3 DEF Control
  <2>3. jobs[k].epoch + 1 \in Nat /\ jobs[k].epoch + 1 >= jobs[k].epoch
    BY <1>0
  <2>4. QED
    BY <2>1, <2>2, <2>3 DEF Revokes, Revoked
<1>4. ASSUME NEW r \in Registries, NEW j \in Jobs, Resume(r, j)
      PROVE  \A k \in Jobs : Effect(jobs[k], jobs'[k], now)
  <2>1. Unfinished(jobs[j])
    BY <1>4 DEF Resume, Unfinished, Statuses, Terminal
  <2>2. /\ jobs[j].epoch + 1 + 1 \in Nat /\ jobs[j].epoch + 1 + 1 > jobs[j].epoch
    BY <1>0
  <2>3. /\ jobs'[j] = Claimed(Revoked(jobs[j], "pending"), r)
        /\ \A k \in Jobs \ {j} : jobs'[k] = jobs[k]
    BY <1>4 DEF Resume, TypeOK
  <2>4. jobs'[j] = [jobs[j] EXCEPT !.status = "running", !.owner = r,
                      !.process = ProcessOf[r], !.epoch = jobs[j].epoch + 1 + 1,
                      !.lease = now + LeaseSeconds]
    BY <1>0, <2>2, <2>3, ReclaimedRecord
  <2>5. Claims(jobs[j], jobs'[j])
    BY <1>0, <2>1, <2>2, <2>4, ClaimsIntro
  <2>6. QED
    BY <2>3, <2>5 DEF Effect
<1>5. ASSUME Recover
      PROVE  \A k \in Jobs : Effect(jobs[k], jobs'[k], now)
  <2> SUFFICES ASSUME NEW k \in Jobs, Lost(jobs[k])
               PROVE  Revokes(jobs[k], jobs'[k])
    BY <1>5 DEF Recover, Effect
  <2>1. Unfinished(jobs[k])
    BY DEF Lost, Unfinished, Statuses, Terminal
  <2>2. jobs'[k] = [jobs[k] EXCEPT !.status = "interrupted", !.epoch = jobs[k].epoch,
                                   !.lease = 0]
    BY <1>0, <1>5 DEF Recover, Recovered, JobRecords
  <2>3. jobs[k].epoch \in Nat /\ jobs[k].epoch >= jobs[k].epoch
    BY <1>0
  <2>4. QED
    BY <2>1, <2>2, <2>3 DEF Revokes
<1>6. ASSUME NEW d \in drives, Renew(d)
      PROVE  \A k \in Jobs : Effect(jobs[k], jobs'[k], now)
  <2>1. jobs'[d.job] = [jobs[d.job] EXCEPT !.lease = now + LeaseSeconds]
        /\ \A k \in Jobs \ {d.job} : jobs'[k] = jobs[k]
    BY <1>0, <1>6 DEF Renew, TypeOK
  <2>2. Renews(jobs[d.job], jobs'[d.job], now)
    BY <1>0, <1>6, <2>1 DEF Renew, Renews, Holds, Held
  <2>3. QED
    BY <2>1, <2>2 DEF Effect
<1>7. ASSUME NEW d \in drives, Publish(d)
      PROVE  \A k \in Jobs : Effect(jobs[k], jobs'[k], now)
  <2>1. CASE ~Fence(d)
    BY <1>7, <2>1 DEF Publish, Effect
  <2>2. CASE Fence(d)
    <3>1. jobs'[d.job] = Published(jobs[d.job], d.epoch)
          /\ \A k \in Jobs \ {d.job} : jobs'[k] = jobs[k]
      BY <1>0, <1>7, <2>2 DEF Publish, TypeOK
    <3>2. Publishes(jobs[d.job], jobs'[d.job], now)
      BY <2>2, <3>1 DEF Fence, Holds, Publishes, Held
    <3>3. QED
      BY <3>1, <3>2 DEF Effect
  <2>3. QED
    BY <2>1, <2>2
<1>8. ASSUME NEW d \in drives, NEW s \in {"completed", "failed"}, NEW b \in BOOLEAN,
             Fence(d),
             jobs'[d.job] = [jobs[d.job] EXCEPT !.status = s, !.result = d.epoch,
                                                !.raised = b],
             \A k \in Jobs \ {d.job} : jobs'[k] = jobs[k]
      PROVE  \A k \in Jobs : Effect(jobs[k], jobs'[k], now)
  <2>1. Concludes(jobs[d.job], jobs'[d.job], now)
    BY <1>8 DEF Fence, Holds, Concludes, Held
  <2>2. QED
    BY <1>8, <2>1 DEF Effect
<1>9. ASSUME NEW d \in drives, Finish(d)
      PROVE  \A k \in Jobs : Effect(jobs[k], jobs'[k], now)
  <2>1. CASE ~Fence(d)
    BY <1>9, <2>1 DEF Finish, Effect
  <2>2. CASE Fence(d)
    <3>1. jobs[d.job].raised \in BOOLEAN
      BY <1>0 DEF JobRecords
    <3>2. /\ jobs'[d.job] = [jobs[d.job] EXCEPT !.status = "completed",
                                                !.result = d.epoch]
          /\ \A k \in Jobs \ {d.job} : jobs'[k] = jobs[k]
      BY <1>0, <1>9, <2>2 DEF Finish, TypeOK
    <3>3. jobs'[d.job] = [jobs[d.job] EXCEPT !.status = "completed",
                            !.result = d.epoch, !.raised = jobs[d.job].raised]
      BY ZenonT(40), <1>0, <3>2 DEF JobRecords
    <3>4. QED
      BY <1>8, <2>2, <3>1, <3>2, <3>3
  <2>3. QED
    BY <2>1, <2>2
<1>10. ASSUME NEW d \in drives, NEW blank \in BOOLEAN, Fail(d, blank)
       PROVE  \A k \in Jobs : Effect(jobs[k], jobs'[k], now)
  <2>1. CASE ~Fence(d)
    BY <1>10, <2>1 DEF Fail, Effect
  <2>2. CASE Fence(d)
    <3>1. /\ jobs'[d.job] = [jobs[d.job] EXCEPT
                                 !.status = IF blank THEN "completed" ELSE "failed",
                                 !.result = d.epoch, !.raised = TRUE]
          /\ \A k \in Jobs \ {d.job} : jobs'[k] = jobs[k]
      BY <1>0, <1>10, <2>2 DEF Fail, TypeOK
    <3>2. (IF blank THEN "completed" ELSE "failed") \in {"completed", "failed"}
      OBVIOUS
    <3>3. QED
      BY <1>8, <2>2, <3>1, <3>2
  <2>3. QED
    BY <2>1, <2>2
<1>11. ASSUME NEW d \in drives, Interrupted(d)
       PROVE  \A k \in Jobs : Effect(jobs[k], jobs'[k], now)
  <2> DEFINE mine == /\ jobs[d.job].status = "running" /\ jobs[d.job].epoch = d.epoch
                     /\ jobs[d.job].owner = d.owner
  <2>1. CASE ~mine
    BY <1>11, <2>1 DEF Interrupted, Effect
  <2>2. CASE mine
    <3>1. PICK s \in {"paused", "cancelled", "interrupted"} :
            jobs' = [jobs EXCEPT ![d.job].lease = 0, ![d.job].status = s]
      BY <1>11, <2>2 DEF Interrupted
    <3>2. jobs'[d.job] = [jobs[d.job] EXCEPT !.status = s, !.epoch = jobs[d.job].epoch,
                                             !.lease = 0]
          /\ \A k \in Jobs \ {d.job} : jobs'[k] = jobs[k]
      BY <1>0, <3>1 DEF JobRecords, TypeOK
    <3>3. Unfinished(jobs[d.job])
      BY <2>2 DEF Unfinished, Statuses, Terminal
    <3>4. jobs[d.job].epoch \in Nat /\ jobs[d.job].epoch >= jobs[d.job].epoch
      BY <1>0
    <3>5. Revokes(jobs[d.job], jobs'[d.job])
      BY <3>2, <3>3, <3>4 DEF Revokes
    <3>6. QED
      BY <3>2, <3>5 DEF Effect
  <2>3. QED
    BY <2>1, <2>2
<1>12. ASSUME jobs' = jobs
       PROVE  \A k \in Jobs : Effect(jobs[k], jobs'[k], now)
  BY <1>12 DEF Effect
<1>13. \A k \in Jobs : Effect(jobs[k], jobs'[k], now)
  BY <1>1, <1>2, <1>3, <1>4, <1>5, <1>6, <1>7, <1>9, <1>10, <1>11, <1>12
     DEF Next, RegistryStep, DriveStep, Begin, ReadJob, ReadControl, Checkpoint,
         OperationRaises, RunnerSaves, SetControl, RegisterHandlers,
         UnregisterHandlers, Crash, Tick, vars
<1>14. now' = now \/ (now' = now + 1 /\ jobs' = jobs)
  BY DEF Next, RegistryStep, DriveStep, Create, Start, Control, Resume, Recover,
         Begin, ReadJob, ReadControl, Checkpoint, OperationRaises, RunnerSaves,
         Publish, Finish, Fail, Interrupted, Renew, SetControl, RegisterHandlers,
         UnregisterHandlers, Crash, Tick, vars
<1>15. QED
  BY <1>13, <1>14

-----------------------------------------------------------------------------
(* What an effect keeps. *)

LEMMA EffectOnTerminal ==
  ASSUME NEW x, NEW y, NEW t, Effect(x, y, t), x.status \in Terminal
  PROVE  y = x
<1>1. x.status \notin {"absent", "running"} /\ ~Unfinished(x)
  BY DEF Terminal, Unfinished
<1>2. ~Creates(x, y)
  <2>1. AbsentJob.status = "absent"
    BY DEF AbsentJob
  <2>2. QED
    BY <1>1, <2>1 DEF Creates
<1>3. QED
  BY <1>1, <1>2 DEF Effect, Claims, Revokes, Renews, Publishes, Concludes, Held

LEMMA EffectOnEpoch ==
  ASSUME NEW x \in JobRecords, NEW y \in JobRecords, NEW t, Effect(x, y, t)
  PROVE  /\ y.epoch >= x.epoch
         /\ y.epoch = x.epoch /\ x.status # "absent"
              => y.owner = x.owner /\ y.process = x.process
         /\ y.status = "absent" => y = x
         /\ x.status = "absent" => y.epoch = x.epoch
<1>0. x.epoch \in Nat /\ y.epoch \in Nat
  BY DEF JobRecords
<1>1. CASE y = x
  BY <1>0, <1>1
<1>2. CASE Creates(x, y)
  BY <1>0, <1>2 DEF Creates, AbsentJob, JobRecords
<1>3. CASE Claims(x, y)
  BY SMTT(30), <1>0, <1>3 DEF Claims, Unfinished, JobRecords, Statuses, Terminal
<1>4. CASE Revokes(x, y)
  BY <1>0, <1>4 DEF Revokes, Unfinished, JobRecords, Statuses, Terminal
<1>5. CASE Renews(x, y, t)
  BY <1>0, <1>5 DEF Renews, Held, JobRecords
<1>6. CASE Publishes(x, y, t)
  BY <1>0, <1>6 DEF Publishes, Published, Held, JobRecords
<1>7. CASE Concludes(x, y, t)
  BY <1>0, <1>7 DEF Concludes, Held, JobRecords
<1>8. QED
  BY <1>1, <1>2, <1>3, <1>4, <1>5, <1>6, <1>7 DEF Effect

LEMMA EffectOnAuthority ==
  ASSUME NEW x \in JobRecords, NEW y \in JobRecords, NEW t \in Nat \ {0},
         Effect(x, y, t), y.epoch = x.epoch, Held(y, t)
  PROVE  Held(x, t)
<1>0. x.epoch \in Nat /\ y.epoch \in Nat /\ x.lease \in Nat /\ y.lease \in Nat
  BY DEF JobRecords
<1>1. CASE y = x
  BY <1>0, <1>1
<1>2. CASE Creates(x, y)
  BY <1>0, <1>2 DEF Creates, AbsentJob, Held
<1>3. CASE Claims(x, y)
  BY <1>0, <1>3 DEF Claims, JobRecords
<1>4. CASE Revokes(x, y)
  BY <1>0, <1>4 DEF Revokes, JobRecords, Held
<1>5. CASE Renews(x, y, t) \/ Publishes(x, y, t) \/ Concludes(x, y, t)
  BY <1>5 DEF Renews, Publishes, Concludes
<1>6. QED
  BY <1>1, <1>2, <1>3, <1>4, <1>5 DEF Effect

-----------------------------------------------------------------------------
(* What a step does to the threads. *)

Same(x, y) == x.job = y.job /\ x.epoch = y.epoch /\ x.owner = y.owner

(* a thread moves on *)
Moves == \E d \in drives, d2 \in Drives :
           Same(d, d2) /\ drives' = (drives \ {d}) \cup {d2}

(* no thread appears, and one that disappears has finished its job, has no *)
(* authority, or dies with its process *)
Ends ==
  /\ drives' \subseteq drives
  /\ \A d \in drives \ drives' :
       \/ jobs'[d.job].status # "running"
       \/ ~Fence(d) /\ jobs' = jobs
       \/ ProcessOf[d.owner] \notin alive'

(* a thread appears for a newer epoch of its job *)
Starts ==
  \E r \in Registries, j \in Jobs :
    /\ jobs'[j].epoch > jobs[j].epoch
    /\ jobs'[j].owner = r /\ jobs'[j].process = ProcessOf[r]
    /\ \A k \in Jobs \ {j} : jobs'[k] = jobs[k]
    /\ drives' = drives \cup {NewDrive(j, jobs'[j].epoch, r)}

(* without a new thread no job becomes running under a new epoch *)
NoClaim ==
  \A j \in Jobs : jobs'[j].epoch > jobs[j].epoch => jobs'[j].status # "running"

LEMMA GotoMoves ==
  ASSUME TypeOK, NEW d \in drives, NEW stage \in DriveStages, Goto(d, stage)
  PROVE  Moves
<1>1. [d EXCEPT !.stage = stage] \in Drives /\ Same(d, [d EXCEPT !.stage = stage])
  BY DEF TypeOK, Drives, Same
<1>2. QED
  BY <1>1 DEF Moves, Goto

LEMMA SameEpochNoClaim ==
  ASSUME TypeOK, NEW d \in drives,
         \A k \in Jobs \ {d.job} : jobs'[k] = jobs[k],
         jobs'[d.job].epoch = jobs[d.job].epoch
  PROVE  NoClaim
BY EpochType DEF NoClaim

LEMMA StepThreads ==
  ASSUME TypeOK, ThreadsMatchJobs, [Next]_vars
  PROVE  /\ alive' \subseteq alive
         /\ Starts \/ ((Moves \/ Ends) /\ NoClaim)
<1> USE DEF DriveStages
<1>0. /\ \A d \in drives : d \in Drives /\ d.job \in Jobs
      /\ \A j \in Jobs : jobs[j].epoch \in Nat /\ jobs[j] \in JobRecords
  BY EpochType DEF TypeOK, Drives
<1>1. alive' \subseteq alive
  BY DEF Next, RegistryStep, DriveStep, Create, Start, Control, Resume, Recover,
         Begin, ReadJob, ReadControl, Checkpoint, OperationRaises, RunnerSaves,
         Publish, Finish, Fail, Interrupted, Renew, SetControl, RegisterHandlers,
         UnregisterHandlers, Crash, Tick, vars
<1>2. ASSUME drives' = drives  PROVE Ends
  BY <1>2 DEF Ends
<1>3. ASSUME jobs' = jobs  PROVE NoClaim
  BY <1>0, <1>3 DEF NoClaim
<1>4. ASSUME NEW r \in Registries, NEW j \in Jobs,
             NEW parent \in Jobs \cup {None}, Create(r, j, parent)
      PROVE  Ends /\ NoClaim
  <2>1. jobs'[j].status = "pending"
    BY <1>4 DEF Create, TypeOK, AbsentJob
  <2>2. \A k \in Jobs \ {j} : jobs'[k] = jobs[k]
    BY <1>4 DEF Create, TypeOK
  <2>3. QED
    BY <1>0, <1>2, <1>4, <2>1, <2>2 DEF Create, NoClaim
<1>5. ASSUME NEW r \in Registries, NEW j \in Jobs, Start(r, j)
      PROVE  Starts
  <2>1. jobs'[j] = Claimed(jobs[j], r) /\ \A k \in Jobs \ {j} : jobs'[k] = jobs[k]
    BY <1>5 DEF Start, TypeOK
  <2>2. /\ jobs'[j].owner = r /\ jobs'[j].process = ProcessOf[r]
        /\ jobs'[j].epoch = jobs[j].epoch + 1
    BY <1>0, <2>1 DEF Claimed, JobRecords
  <2>3. QED
    BY <1>0, <1>5, <2>1, <2>2 DEF Start, Starts
<1>6. ASSUME NEW r \in Registries, NEW j \in Jobs, Resume(r, j)
      PROVE  Starts
  <2>1. jobs'[j] = Claimed(Revoked(jobs[j], "pending"), r)
        /\ \A k \in Jobs \ {j} : jobs'[k] = jobs[k]
    BY <1>6 DEF Resume, TypeOK
  <2>2. /\ jobs'[j].owner = r /\ jobs'[j].process = ProcessOf[r]
        /\ jobs'[j].epoch = jobs[j].epoch + 1 + 1
    <3>1. jobs'[j] = [jobs[j] EXCEPT !.status = "running", !.owner = r,
                        !.process = ProcessOf[r], !.epoch = jobs[j].epoch + 1 + 1,
                        !.lease = now + LeaseSeconds]
      BY <1>0, <2>1, ReclaimedRecord
    <3>2. QED
      BY <1>0, <3>1 DEF JobRecords
  <2>3. jobs[j].epoch + 1 + 1 = jobs[j].epoch + 2 /\ jobs[j].epoch + 2 > jobs[j].epoch
    BY <1>0
  <2>4. QED
    BY <1>6, <2>1, <2>2, <2>3 DEF Resume, Starts
<1>7. ASSUME NEW r \in Registries, NEW j \in Jobs,
             NEW target \in {"paused", "cancelled"}, Control(r, j, target)
      PROVE  Ends /\ NoClaim
  <2>1. \A k \in Jobs : jobs'[k] = jobs[k] \/ jobs'[k].status = target
    BY <1>0, <1>7 DEF Control, Revoked, JobRecords
  <2>2. QED
    BY <1>0, <1>2, <1>7, <2>1 DEF Control, NoClaim
<1>8. ASSUME Recover  PROVE Ends /\ NoClaim
  <2>1. \A k \in Jobs : jobs'[k] = jobs[k] \/ jobs'[k].status = "interrupted"
    BY <1>0, <1>8 DEF Recover, Recovered, JobRecords
  <2>2. QED
    BY <1>0, <1>2, <1>8, <2>1 DEF Recover, NoClaim
<1>9. ASSUME NEW d \in drives, Begin(d) \/ OperationRaises(d)
      PROVE  Moves /\ NoClaim
  BY <1>3, <1>9, GotoMoves DEF Begin, OperationRaises
<1>10. ASSUME NEW d \in drives, ReadJob(d)
       PROVE  Moves /\ NoClaim
  <2>1. jobs[d.job].lease \in Nat
    BY <1>0 DEF JobRecords
  <2>2. \A l \in Nat : /\ [d EXCEPT !.stage = "readControl", !.lease = l] \in Drives
                       /\ Same(d, [d EXCEPT !.stage = "readControl", !.lease = l])
    BY <1>0 DEF Drives, Same
  <2>3. QED
    BY <1>3, <1>10, <2>1, <2>2 DEF ReadJob, Moves
<1>11. ASSUME NEW d \in drives, ReadControl(d)
       PROVE  Moves /\ NoClaim
  <2>1. d.then \in AfterCheckpoint
    BY <1>0 DEF Drives
  <2>2. \E stage \in DriveStages : Goto(d, stage)
    BY <1>11, <2>1 DEF ReadControl, AfterCheckpoint
  <2>3. QED
    BY <1>3, <1>11, <2>2, GotoMoves DEF ReadControl
<1>12. ASSUME NEW d \in drives, NEW then \in AfterCheckpoint, Checkpoint(d, then)
       PROVE  Moves /\ NoClaim
  <2>1. /\ [d EXCEPT !.stage = "readJob", !.then = then, !.lease = 0] \in Drives
        /\ Same(d, [d EXCEPT !.stage = "readJob", !.then = then, !.lease = 0])
    BY <1>0 DEF Drives, Same
  <2>2. QED
    BY <1>3, <1>12, <2>1 DEF Checkpoint, Moves
<1>13. ASSUME NEW d \in drives, Publish(d)
       PROVE  Moves /\ NoClaim
  <2>1. Moves
    BY <1>13, GotoMoves DEF Publish
  <2>2. CASE Fence(d)
    <3>1. jobs'[d.job] = Published(jobs[d.job], d.epoch)
          /\ \A k \in Jobs \ {d.job} : jobs'[k] = jobs[k]
      BY <1>0, <1>13, <2>2 DEF Publish, TypeOK
    <3>2. jobs'[d.job].epoch = jobs[d.job].epoch
      BY <1>0, <3>1 DEF Published, JobRecords
    <3>3. QED
      BY <2>1, <3>1, <3>2, SameEpochNoClaim
  <2>3. CASE ~Fence(d)
    BY <1>3, <1>13, <2>1, <2>3 DEF Publish
  <2>4. QED
    BY <2>2, <2>3
<1>14. ASSUME NEW d \in drives, Finish(d)
       PROVE  (Moves \/ Ends) /\ NoClaim
  <2>1. CASE Fence(d)
    <3>1. /\ jobs'[d.job] = [jobs[d.job] EXCEPT !.status = "completed",
                                                !.result = d.epoch]
          /\ \A k \in Jobs \ {d.job} : jobs'[k] = jobs[k]
      BY <1>0, <1>14, <2>1 DEF Finish, TypeOK
    <3>2. /\ jobs'[d.job].epoch = jobs[d.job].epoch
          /\ jobs'[d.job].status # "running"
      BY <1>0, <3>1 DEF JobRecords
    <3>3. QED
      BY <1>14, <2>1, <3>1, <3>2, SameEpochNoClaim DEF Finish, Leave, Ends
  <2>2. CASE ~Fence(d)
    BY <1>3, <1>14, <2>2, GotoMoves DEF Finish
  <2>3. QED
    BY <2>1, <2>2
<1>15. ASSUME NEW d \in drives, NEW blank \in BOOLEAN, Fail(d, blank)
       PROVE  Ends /\ NoClaim
  <2>1. CASE Fence(d)
    <3>1. /\ jobs'[d.job] = [jobs[d.job] EXCEPT
                                 !.status = IF blank THEN "completed" ELSE "failed",
                                 !.result = d.epoch, !.raised = TRUE]
          /\ \A k \in Jobs \ {d.job} : jobs'[k] = jobs[k]
      BY <1>0, <1>15, <2>1 DEF Fail, TypeOK
    <3>2. /\ jobs'[d.job].epoch = jobs[d.job].epoch
          /\ jobs'[d.job].status # "running"
      BY <1>0, <3>1 DEF JobRecords
    <3>3. QED
      BY <1>15, <2>1, <3>1, <3>2, SameEpochNoClaim DEF Fail, Leave, Ends
  <2>2. CASE ~Fence(d)
    BY <1>3, <1>15, <2>2 DEF Fail, Leave, Ends
  <2>3. QED
    BY <2>1, <2>2
<1>16. ASSUME NEW d \in drives, Interrupted(d)
       PROVE  Ends /\ NoClaim
  <2> DEFINE mine == /\ jobs[d.job].status = "running" /\ jobs[d.job].epoch = d.epoch
                     /\ jobs[d.job].owner = d.owner
  <2>1. CASE ~mine
    BY <1>3, <1>16, <2>1 DEF Interrupted, Leave, Ends, Fence, Holds
  <2>2. CASE mine
    <3>1. PICK s \in {"paused", "cancelled", "interrupted"} :
            jobs' = [jobs EXCEPT ![d.job].lease = 0, ![d.job].status = s]
      BY <1>16, <2>2 DEF Interrupted
    <3>2. /\ jobs'[d.job] = [jobs[d.job] EXCEPT !.lease = 0, !.status = s]
          /\ \A k \in Jobs \ {d.job} : jobs'[k] = jobs[k]
      BY <1>0, <3>1 DEF TypeOK
    <3>3. /\ jobs'[d.job].epoch = jobs[d.job].epoch
          /\ jobs'[d.job].status # "running"
      BY <1>0, <3>2 DEF JobRecords
    <3>4. QED
      BY <1>16, <3>2, <3>3, SameEpochNoClaim DEF Interrupted, Leave, Ends
  <2>3. QED
    BY <2>1, <2>2
<1>17. ASSUME NEW d \in drives, Renew(d)
       PROVE  Ends /\ NoClaim
  <2>1. /\ jobs'[d.job].epoch = jobs[d.job].epoch
        /\ \A k \in Jobs \ {d.job} : jobs'[k] = jobs[k]
    BY <1>0, <1>17 DEF Renew, TypeOK, JobRecords
  <2>2. QED
    BY <1>2, <1>17, <2>1, SameEpochNoClaim DEF Renew
<1>18. ASSUME NEW p \in Processes, Crash(p)
       PROVE  Ends /\ NoClaim
  BY <1>3, <1>18 DEF Crash, Ends
<1>19. ASSUME \/ \E d \in drives, s \in RecordStatuses : RunnerSaves(d, s)
              \/ \E s \in Controls : SetControl(s)
              \/ \E p \in Processes : RegisterHandlers(p) \/ UnregisterHandlers(p)
              \/ Tick
              \/ UNCHANGED vars
       PROVE  Ends /\ NoClaim
  BY <1>2, <1>3, <1>19
     DEF RunnerSaves, SetControl, RegisterHandlers, UnregisterHandlers, Tick, vars
<1>20. QED
  BY <1>1, <1>4, <1>5, <1>6, <1>7, <1>8, <1>9, <1>10, <1>11, <1>12, <1>13, <1>14,
     <1>15, <1>16, <1>17, <1>18, <1>19 DEF Next, RegistryStep, DriveStep

-----------------------------------------------------------------------------
(* The theorems. *)

LEMMA ThreadsStep ==
  TypeOK /\ ThreadsMatchJobs /\ TypeOK' /\ [Next]_vars => ThreadsMatchJobs'
<1> SUFFICES ASSUME TypeOK, ThreadsMatchJobs, TypeOK', [Next]_vars
             PROVE  ThreadsMatchJobs'
  OBVIOUS
<1>0. /\ \A d \in drives : d \in Drives /\ d.job \in Jobs /\ d.epoch \in Nat
      /\ \A j \in Jobs : jobs[j] \in JobRecords /\ jobs'[j] \in JobRecords
      /\ \A j \in Jobs : jobs[j].epoch \in Nat /\ jobs'[j].epoch \in Nat
  BY DEF TypeOK, Drives, JobRecords
<1>1. \A j \in Jobs : Effect(jobs[j], jobs'[j], now)
  BY StepEffects
<1>2. \A j \in Jobs :
        /\ jobs'[j].epoch >= jobs[j].epoch
        /\ jobs'[j].epoch = jobs[j].epoch /\ jobs[j].status # "absent"
             => jobs'[j].owner = jobs[j].owner /\ jobs'[j].process = jobs[j].process
        /\ jobs'[j].status = "absent" => jobs'[j] = jobs[j]
  BY <1>0, <1>1, EffectOnEpoch
<1>3. \A d \in drives : jobs[d.job].status # "absent"
  BY <1>0 DEF ThreadsMatchJobs, AbsentJob
<1>4. ASSUME NEW x \in drives', NEW y \in drives, Same(x, y)
      PROVE  /\ 1 <= x.epoch /\ x.epoch <= jobs'[x.job].epoch
             /\ x.epoch = jobs'[x.job].epoch =>
                  jobs'[x.job].owner = x.owner
                  /\ jobs'[x.job].process = ProcessOf[x.owner]
  BY <1>0, <1>2, <1>3, <1>4 DEF ThreadsMatchJobs, Same
<1>5. \A j \in Jobs : jobs'[j].status = "absent" => jobs'[j] = AbsentJob
  BY <1>2 DEF ThreadsMatchJobs
<1>6. CASE Moves
  <2>1. PICK d \in drives, d2 \in Drives :
          Same(d, d2) /\ drives' = (drives \ {d}) \cup {d2}
    BY <1>6 DEF Moves
  <2>2. \A x \in drives' : \E y \in drives : Same(x, y)
    BY <2>1 DEF Same
  <2>3. \A x, y \in drives' : x.job = y.job /\ x.epoch = y.epoch => x = y
    BY <2>1 DEF Same, ThreadsMatchJobs
  <2>4. QED
    BY <1>4, <1>5, <2>2, <2>3 DEF ThreadsMatchJobs
<1>7. CASE Ends
  <2>1. \A x \in drives' : x \in drives /\ Same(x, x)
    BY <1>7 DEF Ends, Same
  <2>2. \A x, y \in drives' : x.job = y.job /\ x.epoch = y.epoch => x = y
    BY <2>1 DEF ThreadsMatchJobs
  <2>3. QED
    BY <1>4, <1>5, <2>1, <2>2 DEF ThreadsMatchJobs
<1>8. CASE Starts
  <2>1. PICK r \in Registries, j \in Jobs :
          /\ jobs'[j].epoch > jobs[j].epoch
          /\ jobs'[j].owner = r /\ jobs'[j].process = ProcessOf[r]
          /\ drives' = drives \cup {NewDrive(j, jobs'[j].epoch, r)}
    BY <1>8 DEF Starts
  <2> DEFINE n == NewDrive(j, jobs'[j].epoch, r)
  <2>2. n.job = j /\ n.epoch = jobs'[j].epoch /\ n.owner = r
    BY DEF NewDrive
  <2>3. \A x \in drives : Same(x, x) /\ (x.job = j => x.epoch < n.epoch)
    BY <1>0, <2>1, <2>2 DEF ThreadsMatchJobs, Same
  <2>4. 1 <= n.epoch /\ n.epoch <= jobs'[j].epoch
    BY <1>0, <2>1, <2>2
  <2>5. \A x, y \in drives' : x.job = y.job /\ x.epoch = y.epoch => x = y
    BY <1>0, <2>1, <2>2, <2>3 DEF ThreadsMatchJobs
  <2>6. \A x \in drives' :
          /\ 1 <= x.epoch /\ x.epoch <= jobs'[x.job].epoch
          /\ x.epoch = jobs'[x.job].epoch =>
               jobs'[x.job].owner = x.owner /\ jobs'[x.job].process = ProcessOf[x.owner]
    BY <1>4, <2>1, <2>2, <2>3, <2>4
  <2>7. QED
    BY <1>5, <2>5, <2>6 DEF ThreadsMatchJobs
<1>9. QED
  BY <1>6, <1>7, <1>8, StepThreads

(* A thread's epoch is never newer than its job's, epochs are not shared,  *)
(* and the thread of the current epoch is the one the job names as owner:  *)
(* the invariant the other theorems rest on.                               *)
THEOREM ThreadsMatch == Spec => []ThreadsMatchJobs
<1>1. Init => ThreadsMatchJobs
  BY DEF Init, ThreadsMatchJobs
<1>2. QED
  BY <1>1, ThreadsStep, TypeCorrect, PTL DEF Spec

(* At most one thread anywhere passes the fence of a job. *)
THEOREM Fencing == Spec => []SingleHolder
<1>1. ThreadsMatchJobs => SingleHolder
  BY DEF ThreadsMatchJobs, SingleHolder, Fence, Holds
<1>2. QED
  BY <1>1, ThreadsMatch, PTL

(* completed, failed and cancelled jobs never change again. *)
THEOREM TerminalFinal == Spec => TerminalIsFinal
<1>1. TypeOK /\ ThreadsMatchJobs /\ [Next]_vars
        => [\A j \in Jobs : jobs[j].status \in Terminal => jobs'[j] = jobs[j]]_vars
  BY StepEffects, EffectOnTerminal
<1>2. QED
  BY <1>1, TypeCorrect, ThreadsMatch, PTL DEF Spec, TerminalIsFinal

(* Authority that was lost, by expiry, recovery, pause, cancellation or a  *)
(* newer claim, is never regained by the same epoch.                       *)
THEOREM NoRevival == Spec => AuthorityNeverReturns
<1> DEFINE NoReturn == \A j \in Jobs : \A e \in 0 .. jobs[j].epoch :
                         ~Authority(j, e) => ~Authority(j, e)'
<1>1. TypeOK /\ TypeOK' /\ ThreadsMatchJobs /\ [Next]_vars => [NoReturn]_vars
  <2> SUFFICES ASSUME TypeOK, TypeOK', ThreadsMatchJobs, [Next]_vars,
                      NEW j \in Jobs, NEW e \in 0 .. jobs[j].epoch, Authority(j, e)'
               PROVE  Authority(j, e)
    OBVIOUS
  <2>0. /\ jobs[j] \in JobRecords /\ jobs'[j] \in JobRecords
        /\ jobs[j].epoch \in Nat /\ jobs'[j].epoch \in Nat /\ now \in Nat \ {0}
        /\ jobs'[j].lease \in Nat /\ jobs[j].lease \in Nat
    BY DEF TypeOK, JobRecords
  <2>1. Effect(jobs[j], jobs'[j], now) /\ (now' = now \/ (now' = now + 1 /\ jobs' = jobs))
    BY StepEffects
  <2>2. jobs'[j].epoch = e /\ e = jobs[j].epoch
    BY <2>0, <2>1, EffectOnEpoch DEF Authority
  <2>3. Held(jobs'[j], now)
    BY <2>0, <2>1 DEF Authority, Held
  <2>4. QED
    BY <2>0, <2>1, <2>2, <2>3, EffectOnAuthority DEF Authority, Held
<1>2. QED
  BY <1>1, TypeCorrect, ThreadsMatch, PTL DEF Spec, AuthorityNeverReturns

(* A live lease of a live process always has its thread: Finish, Fail and  *)
(* Interrupted never leave a job running behind them.                      *)
LEMMA RunningStep ==
  /\ TypeOK /\ ThreadsMatchJobs /\ RunningHasThread
  /\ TypeOK' /\ [Next]_vars
  => RunningHasThread'
<1> SUFFICES ASSUME TypeOK, ThreadsMatchJobs, RunningHasThread, TypeOK', [Next]_vars,
                    NEW j \in Jobs, Held(jobs'[j], now'), jobs'[j].process \in alive'
             PROVE  \E d \in drives' : d.job = j /\ d.epoch = jobs'[j].epoch
  BY DEF RunningHasThread, Authority, Held
<1>0. /\ jobs[j] \in JobRecords /\ jobs'[j] \in JobRecords
      /\ jobs[j].epoch \in Nat /\ jobs'[j].epoch \in Nat /\ now \in Nat \ {0}
      /\ jobs'[j].lease \in Nat /\ jobs[j].lease \in Nat
  BY DEF TypeOK, JobRecords
<1>1. /\ Effect(jobs[j], jobs'[j], now)
      /\ now' = now \/ (now' = now + 1 /\ jobs' = jobs)
  BY StepEffects
<1>2. alive' \subseteq alive /\ (Starts \/ ((Moves \/ Ends) /\ NoClaim))
  BY StepThreads
<1>3. CASE jobs'[j].epoch # jobs[j].epoch
  <2>1. jobs'[j].epoch > jobs[j].epoch
    BY <1>0, <1>1, <1>3, EffectOnEpoch
  <2>2. Starts
    BY <1>2, <2>1 DEF NoClaim, Held
  <2>3. PICK r \in Registries : NewDrive(j, jobs'[j].epoch, r) \in drives'
    BY <1>3, <2>2 DEF Starts
  <2>4. QED
    BY <2>3 DEF NewDrive
<1>4. CASE jobs'[j].epoch = jobs[j].epoch
  <2>1. Held(jobs'[j], now)
    BY <1>0, <1>1 DEF Held
  <2>2. Held(jobs[j], now)
    BY <1>0, <1>1, <1>4, <2>1, EffectOnAuthority
  <2>3. /\ jobs'[j].owner = jobs[j].owner
        /\ jobs'[j].process = jobs[j].process
    BY <1>0, <1>1, <1>4, <2>2, EffectOnEpoch DEF Held
  <2>4. PICK d \in drives : d.job = j /\ d.epoch = jobs[j].epoch
    BY <1>2, <2>2, <2>3 DEF RunningHasThread, Authority, Held
  <2>5. Fence(d) /\ ProcessOf[d.owner] \in alive'
    BY <2>2, <2>3, <2>4 DEF ThreadsMatchJobs, Fence, Holds, Held
  <2>6. CASE Starts
    BY <1>4, <2>4, <2>6 DEF Starts
  <2>7. CASE Moves
    BY <1>4, <2>4, <2>7 DEF Moves, Same
  <2>8. CASE Ends
    BY <1>4, <2>4, <2>5, <2>8 DEF Ends, Held
  <2>9. QED
    BY <1>2, <2>6, <2>7, <2>8
<1>5. QED
  BY <1>3, <1>4

THEOREM RunningThread == Spec => []RunningHasThread
<1>1. Init => RunningHasThread
  BY DEF Init, RunningHasThread, Authority, AbsentJob
<1>2. QED
  BY <1>1, RunningStep, TypeCorrect, ThreadsMatch, PTL DEF Spec

-----------------------------------------------------------------------------
(* The registry implements FencedJobs. *)

(* The window of kept items ends with the item just appended. *)
LEMMA LastItemsLast ==
  ASSUME NEW s \in Seq(Items), NEW x \in Items, NEW n \in Nat \ {0}
  PROVE  /\ LastItems(Append(s, x), n) # <<>>
         /\ LastItems(Append(s, x), n)[Len(LastItems(Append(s, x), n))] = x
<1> DEFINE a == Append(s, x)
           m == IF Len(a) > n THEN Len(a) - n + 1 ELSE 1
           t == SubSeq(a, m, Len(a))
<1>1. a \in Seq(Items) /\ Len(a) = Len(s) + 1 /\ a[Len(a)] = x /\ Len(s) \in Nat
  OBVIOUS
<1>2. m \in 1 .. Len(a)
  BY <1>1
<1>3. Len(t) = Len(a) - m + 1 /\ Len(t) >= 1
  BY <1>1, <1>2
<1>4. t[Len(t)] = a[m + Len(t) - 1]
  BY <1>1, <1>2, <1>3
<1>5. t[Len(t)] = x
  BY <1>1, <1>2, <1>3, <1>4
<1>6. t = LastItems(Append(s, x), n)
  BY DEF LastItems
<1> HIDE DEF t
<1>7. t # <<>>
  <2>1. ASSUME t = <<>> PROVE Len(t) = 0
    BY <2>1
  <2>2. QED
    BY <1>3, <2>1
<1>8. QED
  BY <1>5, <1>6, <1>7

(* The parts of a job that FencedJobs sees at time t, and the whole. *)
HolderOf(x, t) == IF Held(x, t) THEN x.epoch ELSE 0
NewestBy(x)    == IF x.output = <<>> THEN 0 ELSE x.output[Len(x.output)].epoch
OutcomeOf(x)   == IF x.status \in Terminal THEN x.status ELSE "open"
View(x, t) ==
  Abstract!Entry(HolderOf(x, t), x.epoch, x.cursor, NewestBy(x), OutcomeOf(x))

(* What the steps of FencedJobs do to an entry. *)
LEMMA GrantEntry ==
  ASSUME NEW h, NEW e \in Nat, NEW f \in Nat, NEW p, NEW b, f > e
  PROVE  Abstract!JobStep(Abstract!Entry(h, e, p, b, "open"),
                          Abstract!Entry(f, f, p, b, "open"))
BY DEF Abstract!Grant, Abstract!Entry, Abstract!JobStep

LEMMA RevokeEntry ==
  ASSUME NEW h, NEW e \in Nat, NEW f \in Nat, NEW p, NEW b, f >= e
  PROVE  Abstract!JobStep(Abstract!Entry(h, e, p, b, "open"),
                          Abstract!Entry(0, f, p, b, "open"))
BY DEF Abstract!Revoke, Abstract!Entry, Abstract!JobStep

LEMMA PublishEntry ==
  ASSUME NEW h \in Nat \ {0}, NEW e, NEW p \in Nat, NEW b, NEW o
  PROVE  Abstract!JobStep(Abstract!Entry(h, e, p, b, o),
                          Abstract!Entry(h, e, p + 1, h, o))
BY DEF Abstract!Publish, Abstract!Entry, Abstract!JobStep

LEMMA ConcludeEntry ==
  ASSUME NEW h \in Nat \ {0}, NEW e, NEW p, NEW b, NEW o,
         NEW s \in {"completed", "failed"}
  PROVE  Abstract!JobStep(Abstract!Entry(h, e, p, b, o),
                          Abstract!Entry(0, e, p, b, s))
BY DEF Abstract!Conclude, Abstract!Entry, Abstract!JobStep

LEMMA CancelEntry ==
  ASSUME NEW h, NEW e \in Nat, NEW f \in Nat, NEW p, NEW b, f >= e
  PROVE  Abstract!JobStep(Abstract!Entry(h, e, p, b, "open"),
                          Abstract!Entry(0, f, p, b, "cancelled"))
BY DEF Abstract!Cancel, Abstract!Entry, Abstract!JobStep

(* Every effect on a job is a step of FencedJobs. *)
LEMMA EffectIsJobStep ==
  ASSUME NEW x \in JobRecords, NEW y \in JobRecords, NEW t \in Nat \ {0},
         Effect(x, y, t), x.status = "running" => x.epoch >= 1
  PROVE  Abstract!JobStep(View(x, t), View(y, t))
<1>0. /\ x.epoch \in Nat /\ y.epoch \in Nat /\ x.lease \in Nat /\ y.lease \in Nat
      /\ x.cursor \in Nat /\ x.output \in Seq(Items)
  BY DEF JobRecords, Items
<1>1. CASE y = x
  BY <1>1 DEF Abstract!JobStep
<1>2. CASE Creates(x, y)
  <2>1. /\ y.status = "pending" /\ y.epoch = x.epoch /\ y.cursor = x.cursor
        /\ y.output = x.output /\ x.status = "absent"
    BY <1>2 DEF Creates, AbsentJob
  <2>2. HolderOf(x, t) = HolderOf(y, t) /\ OutcomeOf(x) = OutcomeOf(y)
    BY <2>1 DEF HolderOf, OutcomeOf, Held, Terminal
  <2>3. View(y, t) = View(x, t)
    BY <2>1, <2>2 DEF View, NewestBy
  <2>4. QED
    BY <2>3 DEF Abstract!JobStep
<1>3. CASE Claims(x, y)
  <2>1. /\ y.epoch > x.epoch /\ y.cursor = x.cursor /\ y.output = x.output
        /\ y.status = "running" /\ x.status \notin Terminal
    BY <1>3 DEF Claims, Unfinished, JobRecords
  <2>2. /\ HolderOf(y, t) \in {0, y.epoch} /\ NewestBy(y) = NewestBy(x)
        /\ OutcomeOf(y) = "open" /\ OutcomeOf(x) = "open"
    BY <2>1 DEF HolderOf, NewestBy, OutcomeOf, Terminal
  <2>3. QED
    BY <1>0, <2>1, <2>2, GrantEntry, RevokeEntry DEF View
<1>4. CASE Revokes(x, y)
  <2>1. /\ y.epoch >= x.epoch /\ y.cursor = x.cursor /\ y.output = x.output
        /\ y.status \in {"paused", "cancelled", "interrupted"}
        /\ x.status \notin Terminal
    BY <1>4 DEF Revokes, Unfinished, JobRecords
  <2>2. /\ HolderOf(y, t) = 0 /\ NewestBy(y) = NewestBy(x)
        /\ OutcomeOf(y) \in {"open", "cancelled"} /\ OutcomeOf(x) = "open"
    BY <2>1 DEF HolderOf, NewestBy, OutcomeOf, Terminal, Held
  <2>3. QED
    BY <1>0, <2>1, <2>2, CancelEntry, RevokeEntry DEF View
<1>5. CASE Renews(x, y, t)
  <2>1. /\ y.epoch = x.epoch /\ y.cursor = x.cursor /\ y.output = x.output
        /\ y.status = x.status /\ x.status = "running" /\ Held(x, t)
    BY <1>5 DEF Renews, Held, JobRecords
  <2>2. /\ HolderOf(y, t) \in {0, HolderOf(x, t)} /\ NewestBy(y) = NewestBy(x)
        /\ OutcomeOf(y) = "open" /\ OutcomeOf(x) = "open"
    BY <2>1 DEF HolderOf, NewestBy, OutcomeOf, Terminal
  <2>3. CASE HolderOf(y, t) = 0
    BY <1>0, <2>1, <2>2, <2>3, RevokeEntry DEF View
  <2>4. CASE HolderOf(y, t) = HolderOf(x, t)
    BY <2>1, <2>2, <2>4 DEF View, Abstract!JobStep
  <2>5. QED
    BY <2>2, <2>3, <2>4
<1>6. CASE Publishes(x, y, t)
  <2> DEFINE item == [cursor |-> x.cursor + 1, epoch |-> x.epoch]
  <2>1. /\ y.epoch = x.epoch /\ y.cursor = x.cursor + 1 /\ y.lease = x.lease
        /\ y.status = x.status /\ y.output = LastItems(Append(x.output, item), KeptOutput)
    BY <1>6 DEF Publishes, Published, JobRecords
  <2>2. item \in Items /\ KeptOutput \in Nat \ {0}
    BY <1>0, ConstantsAssumption DEF Items
  <2>3. y.output # <<>> /\ y.output[Len(y.output)].epoch = x.epoch
    <3>1. item.epoch = x.epoch
      OBVIOUS
    <3> HIDE DEF item
    <3> DEFINE out == LastItems(Append(x.output, item), KeptOutput)
    <3>2. out # <<>> /\ out[Len(out)] = item
      BY <1>0, <2>2, LastItemsLast
    <3> HIDE DEF out
    <3>3. y.output = out
      BY <2>1 DEF out
    <3>4. QED
      BY <3>1, <3>2, <3>3
  <2>4. Held(x, t) /\ Held(y, t) /\ x.status = "running"
    BY <1>6, <2>1 DEF Publishes, Held
  <2>5. /\ HolderOf(x, t) = x.epoch /\ HolderOf(y, t) = x.epoch
        /\ NewestBy(y) = x.epoch /\ OutcomeOf(y) = OutcomeOf(x)
    BY <2>1, <2>3, <2>4 DEF HolderOf, NewestBy, OutcomeOf
  <2>6. QED
    BY <1>0, <2>1, <2>4, <2>5, PublishEntry DEF View
<1>7. CASE Concludes(x, y, t)
  <2>1. PICK s \in {"completed", "failed"} :
          /\ y.epoch = x.epoch /\ y.cursor = x.cursor /\ y.output = x.output
          /\ y.status = s
    BY <1>7 DEF Concludes, JobRecords
  <2>2. Held(x, t) /\ ~Held(y, t) /\ x.status = "running"
    BY <1>7, <2>1 DEF Concludes, Held
  <2>3. /\ HolderOf(x, t) = x.epoch /\ HolderOf(y, t) = 0
        /\ NewestBy(y) = NewestBy(x) /\ OutcomeOf(y) = s
    BY <2>1, <2>2 DEF HolderOf, NewestBy, OutcomeOf, Terminal
  <2>4. QED
    BY <1>0, <2>1, <2>2, <2>3, ConcludeEntry DEF View
<1>8. QED
  BY <1>1, <1>2, <1>3, <1>4, <1>5, <1>6, <1>7 DEF Effect

(* Time alone can only end an authority. *)
LEMMA TimeIsJobStep ==
  ASSUME NEW x \in JobRecords, NEW t \in Nat \ {0}
  PROVE  Abstract!JobStep(View(x, t), View(x, t + 1))
<1>0. x.epoch \in Nat /\ x.lease \in Nat
  BY DEF JobRecords
<1>1. CASE Held(x, t) /\ ~Held(x, t + 1)
  <2>1. HolderOf(x, t + 1) = 0 /\ OutcomeOf(x) = "open"
    BY <1>1 DEF HolderOf, OutcomeOf, Held, Terminal
  <2>2. QED
    BY <1>0, <2>1, RevokeEntry DEF View
<1>2. CASE Held(x, t) <=> Held(x, t + 1)
  <2>1. HolderOf(x, t + 1) = HolderOf(x, t)
    BY <1>2 DEF HolderOf
  <2>2. QED
    BY <2>1 DEF View, Abstract!JobStep
<1>3. QED
  BY <1>0, <1>1, <1>2 DEF Held

(* A job is never running on epoch 0, FencedJobs' "no holder". *)
RunningIsNumbered == \A j \in Jobs : jobs[j].status = "running" => jobs[j].epoch >= 1

LEMMA EffectIsNumbered ==
  ASSUME NEW x \in JobRecords, NEW y \in JobRecords, NEW t, Effect(x, y, t),
         x.status = "running" => x.epoch >= 1
  PROVE  y.status = "running" => y.epoch >= 1
<1>0. x.epoch \in Nat /\ y.epoch \in Nat
  BY DEF JobRecords
<1>1. CASE y = x
  BY <1>1
<1>2. CASE Creates(x, y)
  BY <1>2 DEF Creates, AbsentJob
<1>3. CASE Claims(x, y)
  BY SMTT(30), <1>0, <1>3 DEF Claims, JobRecords
<1>4. CASE Revokes(x, y)
  BY <1>4 DEF Revokes, JobRecords
<1>5. CASE Renews(x, y, t)
  BY <1>5 DEF Renews, Held, JobRecords
<1>6. CASE Publishes(x, y, t)
  BY <1>6 DEF Publishes, Published, Held, JobRecords
<1>7. CASE Concludes(x, y, t)
  BY <1>7 DEF Concludes, JobRecords
<1>8. QED
  BY <1>1, <1>2, <1>3, <1>4, <1>5, <1>6, <1>7 DEF Effect

LEMMA Numbered == Spec => []RunningIsNumbered
<1>1. Init => RunningIsNumbered
  BY DEF Init, RunningIsNumbered, AbsentJob
<1>2. /\ TypeOK /\ ThreadsMatchJobs /\ RunningIsNumbered /\ TypeOK' /\ [Next]_vars
      => RunningIsNumbered'
  <2> SUFFICES ASSUME TypeOK, ThreadsMatchJobs, RunningIsNumbered, TypeOK', [Next]_vars,
                      NEW j \in Jobs
               PROVE  jobs'[j].status = "running" => jobs'[j].epoch >= 1
    BY DEF RunningIsNumbered
  <2>1. /\ jobs[j] \in JobRecords /\ jobs'[j] \in JobRecords
        /\ jobs[j].status = "running" => jobs[j].epoch >= 1
    BY DEF TypeOK, RunningIsNumbered
  <2>2. Effect(jobs[j], jobs'[j], now)
    BY StepEffects
  <2>3. QED
    BY <2>1, <2>2, EffectIsNumbered
<1>3. QED
  BY <1>1, <1>2, TypeCorrect, ThreadsMatch, PTL DEF Spec

(* The registry implements FencedJobs: whatever threads, processes, users  *)
(* and clocks do, a job has one holder, newer than every earlier one, only *)
(* a holder publishes or concludes, and the outcome is final.              *)
THEOREM Implements == Spec => ImplementsFencedJobs
<1>1. Init => Abstract!Init
  <2> SUFFICES ASSUME Init, NEW j \in Jobs
               PROVE  LedgerOf(j) = Abstract!Entry(0, 0, 0, 0, "open")
    BY DEF Abstract!Init
  <2>1. jobs[j] = AbsentJob
    BY DEF Init
  <2>2. QED
    BY <2>1 DEF LedgerOf, Authority, AbsentJob, Terminal, Abstract!Entry
<1>2. /\ TypeOK /\ ThreadsMatchJobs /\ RunningIsNumbered /\ TypeOK' /\ [Next]_vars
      => [Abstract!Next]_([j \in Jobs |-> LedgerOf(j)])
  <2> SUFFICES ASSUME TypeOK, ThreadsMatchJobs, RunningIsNumbered, TypeOK', [Next]_vars,
                      NEW j \in Jobs
               PROVE  Abstract!JobStep(LedgerOf(j), LedgerOf(j)')
    BY DEF Abstract!Next
  <2>1. LedgerOf(j) = View(jobs[j], now) /\ LedgerOf(j)' = View(jobs'[j], now')
    BY DEF LedgerOf, View, Authority, Held, HolderOf, NewestBy, OutcomeOf, Abstract!Entry
  <2>2. /\ jobs[j] \in JobRecords /\ jobs'[j] \in JobRecords /\ now \in Nat \ {0}
        /\ jobs[j].status = "running" => jobs[j].epoch >= 1
    BY DEF TypeOK, RunningIsNumbered
  <2>3. /\ Effect(jobs[j], jobs'[j], now)
        /\ now' = now \/ (now' = now + 1 /\ jobs' = jobs)
    BY StepEffects
  <2>4. CASE now' = now
    BY <2>1, <2>2, <2>3, <2>4, EffectIsJobStep
  <2>5. CASE now' = now + 1 /\ jobs' = jobs
    BY <2>1, <2>2, <2>5, TimeIsJobStep
  <2>6. QED
    BY <2>3, <2>4, <2>5
<1>3. QED
  BY <1>1, <1>2, TypeCorrect, ThreadsMatch, Numbered, PTL
     DEF Spec, ImplementsFencedJobs, Abstract!Spec

-----------------------------------------------------------------------------
(* What readers see of a job's output. *)

(* A window of the newest items, numbered up to cursor c, by epochs in     *)
(* order and none newer than e.                                            *)
Window(s, c, e) ==
  /\ Len(s) <= KeptOutput
  /\ \A i \in 1 .. Len(s) : s[i].cursor = c - Len(s) + i
  /\ \A i, k \in 1 .. Len(s) : i <= k => s[i].epoch <= s[k].epoch
  /\ \A i \in 1 .. Len(s) : s[i].epoch <= e

OutputSound(x) == Window(x.output, x.cursor, x.epoch)

(* The window after one more item: the old items it still holds, moved     *)
(* down, and the new one at its end.                                       *)
LEMMA LastItemsWindow ==
  ASSUME NEW s \in Seq(Items), NEW x \in Items, NEW n \in Nat \ {0}, Len(s) <= n
  PROVE  \E m \in {0, 1}, t \in Seq(Items) :
           /\ t = LastItems(Append(s, x), n)
           /\ Len(t) = Len(s) + 1 - m /\ Len(t) <= n
           /\ \A i \in 1 .. Len(t) - 1 : i + m \in 1 .. Len(s) /\ t[i] = s[i + m]
           /\ t[Len(t)] = x
<1> DEFINE a == Append(s, x)
           m == IF Len(s) + 1 > n THEN 1 ELSE 0
           t == SubSeq(a, m + 1, Len(a))
<1>1. /\ a \in Seq(Items) /\ Len(a) = Len(s) + 1 /\ a[Len(a)] = x /\ Len(s) \in Nat
      /\ \A i \in 1 .. Len(s) : a[i] = s[i]
  OBVIOUS
<1>2. m \in {0, 1} /\ m <= Len(s)
  BY <1>1
<1>3. LastItems(a, n) = t
  <2>1. (IF Len(a) > n THEN Len(a) - n + 1 ELSE 1) = m + 1
    BY <1>1
  <2> QED BY <2>1 DEF LastItems
<1> HIDE DEF a, m
<1>4. t \in Seq(Items)
  BY <1>1, <1>2
<1>5. Len(t) = Len(a) - m /\ \A i \in 1 .. Len(t) : t[i] = a[i + m]
  BY <1>1, <1>2
<1> HIDE DEF t
<1>6. Len(t) = Len(s) + 1 - m /\ Len(t) <= n
  BY <1>1, <1>2, <1>5 DEF m
<1>7. \A i \in 1 .. Len(t) - 1 : i + m \in 1 .. Len(s) /\ t[i] = s[i + m]
  BY <1>1, <1>2, <1>5, <1>6
<1>8. t[Len(t)] = x
  BY <1>1, <1>2, <1>5, <1>6
<1> QED BY <1>2, <1>3, <1>6, <1>7, <1>8, <1>4 DEF a

LEMMA WindowItems ==
  ASSUME NEW s \in Seq(Items)
  PROVE  /\ Len(s) \in Nat
         /\ \A i \in 1 .. Len(s) : s[i] \in Items /\ s[i].cursor \in Nat /\ s[i].epoch \in Nat
<1>1. Len(s) \in Nat /\ \A i \in 1 .. Len(s) : s[i] \in Items
  OBVIOUS
<1> QED BY <1>1 DEF Items

LEMMA WindowMoves ==
  ASSUME NEW s \in Seq(Items), NEW c \in Nat, NEW e \in Nat, Window(s, c, e),
         NEW x \in Items, x.cursor = c + 1, x.epoch = e
  PROVE  Window(LastItems(Append(s, x), KeptOutput), c + 1, e)
<1>1. Len(s) <= KeptOutput /\ KeptOutput \in Nat \ {0}
  BY DEF Window
<1>2. PICK m \in {0, 1}, t \in Seq(Items) :
        /\ t = LastItems(Append(s, x), KeptOutput)
        /\ Len(t) = Len(s) + 1 - m /\ Len(t) <= KeptOutput
        /\ \A i \in 1 .. Len(t) - 1 : i + m \in 1 .. Len(s) /\ t[i] = s[i + m]
        /\ t[Len(t)] = x
  BY ZenonT(40), <1>1, LastItemsWindow
<1>3. Len(s) \in Nat /\ Len(t) \in Nat
  BY WindowItems
<1>4. ASSUME NEW i \in 1 .. Len(t)
      PROVE  /\ t[i].cursor = c + 1 - Len(t) + i
             /\ t[i].epoch \in Nat /\ t[i].epoch <= e
  <2>1. CASE i = Len(t)
    BY <1>2, <1>3, <2>1
  <2>2. CASE i # Len(t)
    <3>1. i \in 1 .. Len(t) - 1
      BY <1>3, <2>2
    <3>2. i + m \in 1 .. Len(s) /\ t[i] = s[i + m]
      BY <1>2, <3>1
    <3>3. s[i + m].cursor = c - Len(s) + (i + m)
      BY <3>2 DEF Window
    <3>4. s[i + m].epoch \in Nat /\ s[i + m].epoch <= e
      BY <3>2, WindowItems DEF Window
    <3>5. c - Len(s) + (i + m) = c + 1 - Len(t) + i
      BY <1>2, <1>3, <3>1
    <3> QED BY <3>2, <3>3, <3>4, <3>5
  <2> QED BY <2>1, <2>2
<1>5. ASSUME NEW i \in 1 .. Len(t), NEW k \in 1 .. Len(t), i <= k
      PROVE  t[i].epoch <= t[k].epoch
  <2>1. CASE k = Len(t)
    BY <1>2, <1>4, <2>1
  <2>2. CASE k # Len(t)
    <3>1. i \in 1 .. Len(t) - 1 /\ k \in 1 .. Len(t) - 1 /\ i + m <= k + m
      BY <1>2, <1>3, <1>5, <2>2
    <3>2. /\ i + m \in 1 .. Len(s) /\ t[i] = s[i + m]
          /\ k + m \in 1 .. Len(s) /\ t[k] = s[k + m]
      BY <1>2, <3>1
    <3> QED BY <3>1, <3>2 DEF Window
  <2> QED BY <2>1, <2>2
<1>6. Window(t, c + 1, e)
  BY <1>2, <1>4, <1>5 DEF Window
<1> QED BY <1>2, <1>6

LEMMA EffectOnOutput ==
  ASSUME NEW x \in JobRecords, NEW y \in JobRecords, NEW t, Effect(x, y, t), OutputSound(x)
  PROVE  OutputSound(y)
<1>1. /\ x.epoch \in Nat /\ y.epoch \in Nat
      /\ x.cursor \in Nat /\ x.output \in Seq(Items)
  BY DEF JobRecords, Items
<1>2. y.epoch >= x.epoch
  BY EffectOnEpoch
<1>3. CASE y.output = x.output /\ y.cursor = x.cursor
  <2> DEFINE s == x.output
  <2>1. Window(s, x.cursor, x.epoch) /\ \A i \in 1 .. Len(s) : s[i].epoch \in Nat
    BY <1>1, WindowItems DEF OutputSound
  <2> HIDE DEF s
  <2>2. \A i \in 1 .. Len(s) : s[i].epoch <= y.epoch
    BY <1>1, <1>2, <2>1 DEF Window
  <2>3. Window(s, x.cursor, y.epoch)
    BY <2>1, <2>2 DEF Window
  <2> QED BY <1>3, <2>3 DEF OutputSound, s
<1>4. CASE Publishes(x, y, t)
  <2> DEFINE item == [cursor |-> x.cursor + 1, epoch |-> x.epoch]
  <2>1. /\ y.epoch = x.epoch /\ y.cursor = x.cursor + 1
        /\ y.output = LastItems(Append(x.output, item), KeptOutput)
    BY <1>4 DEF Publishes, Published, JobRecords
  <2>2. item \in Items /\ item.cursor = x.cursor + 1 /\ item.epoch = x.epoch
    BY <1>1 DEF Items
  <2> HIDE DEF item
  <2>3. Window(LastItems(Append(x.output, item), KeptOutput), x.cursor + 1, x.epoch)
    BY <1>1, <2>2, WindowMoves DEF OutputSound
  <2> QED BY <2>1, <2>3 DEF OutputSound
<1>5. CASE Creates(x, y)
  BY <1>3, <1>5 DEF Creates, AbsentJob, JobRecords
<1>6. CASE Claims(x, y) \/ Revokes(x, y)
  BY <1>3, <1>6 DEF Claims, Revokes, JobRecords
<1>7. CASE Renews(x, y, t) \/ Concludes(x, y, t)
  BY <1>3, <1>7 DEF Renews, Concludes, JobRecords
<1> QED BY <1>3, <1>4, <1>5, <1>6, <1>7 DEF Effect

(* A reader that asks for what came after a cursor is told of every item   *)
(* or of the gap, and never reads a superseded activation's output after   *)
(* its successor's.                                                        *)
THEOREM OutputIsSound == Spec => []OutputIsGapFreeAndOrdered
<1>1. OutputIsGapFreeAndOrdered <=> \A j \in Jobs : OutputSound(jobs[j])
  BY DEF OutputIsGapFreeAndOrdered, OutputSound, Window
<1>2. Init => \A j \in Jobs : OutputSound(jobs[j])
  BY DEF Init, AbsentJob, OutputSound, Window
<1>3. /\ TypeOK /\ ThreadsMatchJobs /\ TypeOK' /\ [Next]_vars
      /\ \A j \in Jobs : OutputSound(jobs[j])
      => (\A j \in Jobs : OutputSound(jobs[j]))'
  <2> SUFFICES ASSUME TypeOK, ThreadsMatchJobs, TypeOK', [Next]_vars,
                      \A j \in Jobs : OutputSound(jobs[j]), NEW j \in Jobs
               PROVE  OutputSound(jobs'[j])
    OBVIOUS
  <2>1. jobs[j] \in JobRecords /\ jobs'[j] \in JobRecords
    BY DEF TypeOK
  <2>2. Effect(jobs[j], jobs'[j], now)
    BY StepEffects
  <2> QED BY <2>1, <2>2, EffectOnOutput
<1> QED BY <1>1, <1>2, <1>3, TypeCorrect, ThreadsMatch, PTL DEF Spec

-----------------------------------------------------------------------------
(* Stopped tasks. *)

Stopped == {"paused", "cancelled"}

(* A task job has no parent, is claimed once, and a thread that drives it  *)
(* leaves with the stop that it records.                                   *)
TasksOnce ==
  /\ \A j \in TaskJobs : /\ jobs[j].epoch <= 1 /\ jobs[j].parent = None
                         /\ jobs[j].status \in {"absent", "pending"} => jobs[j].epoch = 0
  /\ \A d \in drives : d.job \in TaskJobs =>
       jobs[d.job].status \notin {"absent", "pending"} \cup Stopped

TaskInv == TasksOnce /\ StoppedTaskIsSettled

(* What a step does to the status and the epoch of a task job. *)
TaskMoves(j) ==
  LET old == jobs[j]  new == jobs'[j] IN
  \/ new.status = old.status /\ new.epoch = old.epoch
  \/ old.status = "absent" /\ new.status = "pending" /\ new.epoch = 0
  \/ /\ old.status = "pending" /\ new.status = "running"
     /\ new.epoch = old.epoch + 1
  \/ /\ new.status \in {"interrupted", "completed", "failed"}
     /\ new.epoch = old.epoch /\ old.status \in {"pending", "running"}
  \/ /\ new.status \in Stopped /\ new.epoch = old.epoch /\ old.status = "running"
     /\ record' # "active"
     /\ \E d \in drives : d.job = j /\ drives' = drives \ {d}

(* Stopping a background job takes no task along. *)
LEMMA CascadeSparesTasks ==
  ASSUME TasksOnce, NEW j \in TaskJobs, NEW k \in Jobs \ TaskJobs
  PROVE  j \notin Cascade(k)
<1> DEFINE S == Jobs \ {j}
<1>1. k \in S /\ \A c \in Jobs : jobs[c].parent \in S => c \in S
  BY DEF TasksOnce
<1>2. S \in SUBSET Jobs /\ j \notin S
  OBVIOUS
<1> QED BY <1>1, <1>2 DEF Cascade

LEMMA TaskJobsMove ==
  ASSUME TypeOK, ThreadsMatchJobs, TasksOnce, [Next]_vars, NEW j \in TaskJobs
  PROVE  TaskMoves(j) /\ jobs'[j].parent = None
<1>1. j \in Jobs /\ jobs[j] \in JobRecords /\ jobs[j].epoch \in Nat
      /\ jobs[j].parent = None /\ \A d \in drives : d.job \in Jobs
  BY EpochType DEF TypeOK, Drives, TasksOnce
<1>2. CASE jobs'[j] = jobs[j]
  BY <1>1, <1>2 DEF TaskMoves
<1>3. ASSUME NEW r \in Registries, NEW k \in Jobs,
             NEW parent \in Jobs \cup {None}, Create(r, k, parent)
      PROVE  TaskMoves(j) /\ jobs'[j].parent = None
  <2>1. CASE j = k
    BY <1>1, <1>3, <2>1 DEF Create, TypeOK, AbsentJob, TaskMoves
  <2> QED BY <1>2, <1>3, <2>1 DEF Create, TypeOK
<1>4. ASSUME NEW r \in Registries, NEW k \in Jobs, Start(r, k)
      PROVE  TaskMoves(j) /\ jobs'[j].parent = None
  <2>1. CASE j = k
    <3>1. jobs'[j] = Claimed(jobs[j], r) /\ jobs[j].status = "pending"
      BY <1>4, <2>1 DEF Start, TypeOK
    <3> QED BY <1>1, <3>1 DEF Claimed, JobRecords, TaskMoves
  <2> QED BY <1>2, <1>4, <2>1 DEF Start, TypeOK
<1>5. ASSUME NEW r \in Registries, NEW k \in Jobs, NEW target \in {"paused", "cancelled"},
             Control(r, k, target)
      PROVE  TaskMoves(j) /\ jobs'[j].parent = None
  BY <1>1, <1>2, <1>5, CascadeSparesTasks DEF Control
<1>6. ASSUME NEW r \in Registries, NEW k \in Jobs, Resume(r, k)
      PROVE  TaskMoves(j) /\ jobs'[j].parent = None
  BY <1>2, <1>6 DEF Resume, TypeOK
<1>7. CASE Recover
  <2>1. CASE Lost(jobs[j])
    <3>1. jobs'[j] = Recovered(jobs[j]) /\ jobs[j].status \in {"pending", "running"}
      BY <1>1, <1>7, <2>1 DEF Recover, Lost
    <3> QED BY <1>1, <3>1 DEF Recovered, JobRecords, TaskMoves
  <2> QED BY <1>1, <1>2, <1>7, <2>1 DEF Recover
<1>8. ASSUME NEW d \in drives, Renew(d)
      PROVE  TaskMoves(j) /\ jobs'[j].parent = None
  <2>1. CASE j = d.job
    <3>1. jobs'[j] = [jobs[j] EXCEPT !.lease = now + LeaseSeconds]
      BY <1>1, <1>8, <2>1 DEF Renew, TypeOK
    <3> QED BY <1>1, <3>1 DEF JobRecords, TaskMoves
  <2> QED BY <1>1, <1>2, <1>8, <2>1 DEF Renew, TypeOK
<1>9. ASSUME NEW d \in drives, Publish(d)
      PROVE  TaskMoves(j) /\ jobs'[j].parent = None
  <2>1. CASE j = d.job /\ jobs' = [jobs EXCEPT ![d.job] = Published(@, d.epoch)]
    <3>1. jobs'[j] = Published(jobs[j], d.epoch)
      BY <1>1, <2>1 DEF TypeOK
    <3> QED BY <1>1, <3>1 DEF Published, JobRecords, TaskMoves
  <2> QED BY <1>1, <1>2, <1>9, <2>1 DEF Publish, TypeOK
<1>10. ASSUME NEW d \in drives, Finish(d) \/ \E blank \in BOOLEAN : Fail(d, blank)
       PROVE  TaskMoves(j) /\ jobs'[j].parent = None
  <2>1. CASE j = d.job /\ jobs' # jobs
    <3>1. Fence(d) /\ \E s \in {"completed", "failed"}, b \in BOOLEAN :
            \/ jobs' = [jobs EXCEPT ![d.job].status = s, ![d.job].result = d.epoch]
            \/ jobs' = [jobs EXCEPT ![d.job].status = s, ![d.job].result = d.epoch,
                                    ![d.job].raised = b]
      BY <1>10, <2>1 DEF Finish, Fail
    <3>2. PICK s \in {"completed", "failed"}, b \in BOOLEAN :
            \/ jobs'[j] = [jobs[j] EXCEPT !.status = s, !.result = d.epoch]
            \/ jobs'[j] = [jobs[j] EXCEPT !.status = s, !.result = d.epoch, !.raised = b]
      BY <1>1, <2>1, <3>1 DEF TypeOK
    <3>3. jobs[j].status = "running"
      BY <2>1, <3>1 DEF Fence, Holds
    <3> QED BY <1>1, <3>2, <3>3 DEF JobRecords, TaskMoves
  <2> QED BY <1>1, <1>2, <1>10, <2>1 DEF Finish, Fail, TypeOK
<1>11. ASSUME NEW d \in drives, Interrupted(d)
       PROVE  TaskMoves(j) /\ jobs'[j].parent = None
  <2>1. CASE j = d.job /\ jobs' # jobs
    <3>1. /\ jobs[j].status = "running" /\ drives' = drives \ {d}
          /\ \/ jobs' = [jobs EXCEPT ![d.job].lease = 0, ![d.job].status = "interrupted"]
             \/ /\ control \in Stopped /\ record' # "active"
                /\ jobs' = [jobs EXCEPT ![d.job].lease = 0, ![d.job].status = control]
      BY <1>11, <2>1 DEF Interrupted, Leave, Stopped
    <3>2. /\ jobs[j].status = "running" /\ drives' = drives \ {d}
          /\ \/ jobs'[j] = [jobs[j] EXCEPT !.lease = 0, !.status = "interrupted"]
             \/ /\ control \in Stopped /\ record' # "active"
                /\ jobs'[j] = [jobs[j] EXCEPT !.lease = 0, !.status = control]
      BY <1>1, <2>1, <3>1 DEF TypeOK
    <3> QED BY <1>1, <2>1, <3>2 DEF JobRecords, TaskMoves
  <2> QED BY <1>1, <1>2, <1>11, <2>1 DEF Interrupted, TypeOK
<1>12. CASE jobs' = jobs
  BY <1>1, <1>2, <1>12
<1> QED
  BY <1>3, <1>4, <1>5, <1>6, <1>7, <1>8, <1>9, <1>10, <1>11, <1>12
     DEF Next, RegistryStep, DriveStep, Begin, ReadJob, ReadControl, Checkpoint,
         OperationRaises, RunnerSaves, SetControl, RegisterHandlers,
         UnregisterHandlers, Crash, Tick, vars

(* A record becomes active again only by the runner of a task. *)
LEMMA RecordMoves ==
  ASSUME [Next]_vars, record' = "active"
  PROVE  record = "active" \/ \E d \in drives : d.job \in TaskJobs /\ jobs' = jobs
BY DEF Next, RegistryStep, DriveStep, Create, Start, Control, Resume, Recover,
       Begin, ReadJob, ReadControl, Checkpoint, OperationRaises, RunnerSaves,
       Publish, Finish, Fail, Interrupted, Renew, SetControl, RegisterHandlers,
       UnregisterHandlers, Crash, Tick, vars

LEMMA TaskStep ==
  ASSUME TypeOK, TypeOK', ThreadsMatchJobs, TaskInv, [Next]_vars
  PROVE  TaskInv'
<1>1. \A j \in TaskJobs : TaskMoves(j) /\ jobs'[j].parent = None
  BY TaskJobsMove DEF TaskInv
<1>2. \A j \in TaskJobs : jobs[j].epoch \in Nat /\ jobs'[j].epoch \in Nat
  BY EpochType DEF TypeOK, JobRecords
<1>3. ASSUME NEW j \in TaskJobs
      PROVE  /\ jobs'[j].epoch <= 1
             /\ jobs'[j].status \in {"absent", "pending"} => jobs'[j].epoch = 0
  BY <1>1, <1>2, <1>3 DEF TaskMoves, TaskInv, TasksOnce, Stopped
<1>4. ASSUME NEW d \in drives', d.job \in TaskJobs
      PROVE  jobs'[d.job].status \notin {"absent", "pending"} \cup Stopped
  <2>1. TaskMoves(d.job)
    BY <1>1, <1>4
  <2>2. ASSUME NEW e \in drives, e.job = d.job, d = e \/ d \notin drives
        PROVE  jobs'[d.job].status \notin {"absent", "pending"} \cup Stopped
    <3>1. jobs[d.job].status \notin {"absent", "pending"} \cup Stopped
      BY <1>4, <2>2 DEF TaskInv, TasksOnce
    <3>2. ASSUME NEW f \in drives, f.job = d.job, drives' = drives \ {f} PROVE FALSE
      <4>1. /\ 1 <= f.epoch /\ f.epoch <= jobs[d.job].epoch
            /\ 1 <= e.epoch /\ e.epoch <= jobs[d.job].epoch
        BY <2>2, <3>2 DEF ThreadsMatchJobs
      <4>2. jobs[d.job].epoch <= 1 /\ jobs[d.job].epoch \in Nat
        BY <1>2, <1>4 DEF TaskInv, TasksOnce
      <4>3. e.epoch \in Nat /\ f.epoch \in Nat
        BY DEF TypeOK, Drives
      <4>4. e.epoch = f.epoch
        BY <4>1, <4>2, <4>3
      <4>5. e = f
        BY <2>2, <3>2, <4>4 DEF ThreadsMatchJobs
      <4> QED BY <1>4, <2>2, <3>2, <4>5
    <3> QED BY <2>1, <3>1, <3>2 DEF TaskMoves, Stopped
  <2>3. CASE Moves
    BY <2>2, <2>3 DEF Moves, Same
  <2>4. CASE Ends
    BY <2>2, <2>4 DEF Ends
  <2>5. CASE Starts
    <3>1. d \in drives \/ jobs'[d.job].epoch > jobs[d.job].epoch
      BY <2>5 DEF Starts, NewDrive
    <3>2. CASE jobs'[d.job].epoch > jobs[d.job].epoch
      BY <1>2, <1>4, <2>1, <3>2 DEF TaskMoves, TaskInv, TasksOnce, Stopped
    <3> QED BY <2>2, <3>1, <3>2
  <2> QED BY <2>3, <2>4, <2>5, StepThreads
<1>5. StoppedTaskIsSettled'
  <2> SUFFICES ASSUME NEW j \in TaskJobs, jobs'[j].status \in Stopped,
                      \A k \in TaskJobs : jobs'[k].status \in {"absent"} \cup Stopped,
                      record' = "active"
               PROVE  FALSE
    BY DEF StoppedTaskIsSettled, Stopped
  <2>1. \A k \in TaskJobs : jobs[k].status = jobs'[k].status
    BY <1>1 DEF TaskMoves, Stopped
  <2>2. \A d \in drives : d.job \notin TaskJobs
    BY <2>1 DEF TaskInv, TasksOnce
  <2>3. record = "active"
    BY <2>2, RecordMoves
  <2> QED BY <2>1, <2>3 DEF TaskInv, StoppedTaskIsSettled, Stopped
<1> QED BY <1>1, <1>3, <1>4, <1>5 DEF TaskInv, TasksOnce

(* Tasks that are all stopped leave a record that says so: no handler of   *)
(* JobInterrupted forgets the record, no late save brings it back.         *)
THEOREM StoppedTasksSettle == Spec => []StoppedTaskIsSettled
<1>1. Init => TaskInv
  BY DEF Init, TaskInv, TasksOnce, StoppedTaskIsSettled, AbsentJob
<1>2. /\ TypeOK /\ TypeOK' /\ ThreadsMatchJobs /\ TaskInv /\ [Next]_vars => TaskInv'
  BY TaskStep
<1>3. TaskInv => StoppedTaskIsSettled
  BY DEF TaskInv
<1> QED BY <1>1, <1>2, <1>3, TypeCorrect, ThreadsMatch, PTL DEF Spec

-----------------------------------------------------------------------------
(* Children *)

(* A job is stopped with a new epoch by control only. *)
LEMMA StopIsControl ==
  ASSUME TypeOK, [Next]_vars, NEW j \in Jobs,
         jobs'[j].epoch > jobs[j].epoch, jobs'[j].status \in Stopped
  PROVE  \E r \in Registries, k \in Jobs, target \in Stopped : Control(r, k, target)
<1>1. jobs[j] \in JobRecords /\ jobs[j].epoch \in Nat /\ ~(jobs[j].epoch > jobs[j].epoch)
      /\ \A d \in drives : d.job \in Jobs
  BY EpochType DEF TypeOK, Drives
<1>2. CASE jobs'[j] = jobs[j]
  BY <1>1, <1>2
<1>3. ASSUME NEW r \in Registries, NEW k \in Jobs,
             NEW parent \in Jobs \cup {None}, Create(r, k, parent)
      PROVE  FALSE
  <2>1. CASE j = k
    BY <1>3, <2>1 DEF Create, TypeOK, AbsentJob, Stopped
  <2> QED BY <1>1, <1>3, <2>1 DEF Create, TypeOK
<1>4. ASSUME NEW r \in Registries, NEW k \in Jobs, Start(r, k) \/ Resume(r, k)
      PROVE  FALSE
  <2>1. CASE j = k
    <3>1. jobs'[j] = Claimed(jobs[j], r) \/ jobs'[j] = Claimed(Revoked(jobs[j], "pending"), r)
      BY <1>4, <2>1 DEF Start, Resume, TypeOK
    <3>2. \A x \in JobRecords : Claimed(x, r).status = "running"
      BY DEF Claimed, JobRecords
    <3>3. Revoked(jobs[j], "pending") \in JobRecords
      BY JobTypes DEF Statuses
    <3> QED BY <1>1, <3>1, <3>2, <3>3 DEF Stopped
  <2> QED BY <1>1, <1>4, <2>1 DEF Start, Resume, TypeOK
<1>5. ASSUME Recover PROVE FALSE
  <2>1. CASE Lost(jobs[j])
    <3>1. jobs'[j] = Recovered(jobs[j])
      BY <1>5, <2>1 DEF Recover
    <3> QED BY <1>1, <3>1 DEF Recovered, JobRecords, Stopped
  <2> QED BY <1>1, <1>5, <2>1 DEF Recover
<1>6. ASSUME NEW d \in drives,
             \/ Renew(d) \/ Publish(d) \/ Finish(d) \/ Interrupted(d)
             \/ \E blank \in BOOLEAN : Fail(d, blank)
      PROVE  FALSE
  <2>1. CASE j = d.job
    <3>1. \/ jobs'[j] = jobs[j] \/ jobs'[j] = Published(jobs[j], d.epoch)
          \/ \E l : jobs'[j] = [jobs[j] EXCEPT !.lease = l]
          \/ \E s, e : jobs'[j] = [jobs[j] EXCEPT !.status = s, !.result = e]
          \/ \E s, e, b : jobs'[j] = [jobs[j] EXCEPT !.status = s, !.result = e, !.raised = b]
          \/ \E s, l : jobs'[j] = [jobs[j] EXCEPT !.lease = l, !.status = s]
      <4>1. CASE Renew(d)
        BY <1>1, <2>1, <4>1 DEF Renew, TypeOK
      <4>2. CASE Publish(d)
        BY <1>1, <2>1, <4>2 DEF Publish, TypeOK
      <4>3. CASE Finish(d)
        <5>1. \/ jobs'[j] = jobs[j]
              \/ jobs'[j] = [jobs[j] EXCEPT !.status = "completed", !.result = d.epoch]
          BY <1>1, <2>1, <4>3 DEF Finish, TypeOK
        <5> QED BY <5>1
      <4>4. CASE \E blank \in BOOLEAN : Fail(d, blank)
        <5>1. PICK blank \in BOOLEAN : Fail(d, blank)
          BY <4>4
        <5> DEFINE s == IF blank THEN "completed" ELSE "failed"
        <5>2. \/ jobs'[j] = jobs[j]
              \/ jobs'[j] = [jobs[j] EXCEPT !.status = s, !.result = d.epoch, !.raised = TRUE]
          BY <1>1, <2>1, <5>1 DEF Fail, TypeOK
        <5> HIDE DEF s
        <5> QED BY <5>2
      <4>5. CASE Interrupted(d)
        BY <1>1, <2>1, <4>5 DEF Interrupted, TypeOK
      <4> QED BY <1>6, <4>1, <4>2, <4>3, <4>4, <4>5
    <3>2. jobs'[j].epoch = jobs[j].epoch
      BY <1>1, <3>1 DEF Published, JobRecords
    <3> QED BY <1>1, <3>2
  <2> QED BY <1>1, <1>6, <2>1 DEF Renew, Publish, Finish, Interrupted, Fail, TypeOK
<1>7. CASE jobs' = jobs
  BY <1>1, <1>7
<1>8. CASE \E r \in Registries, k \in Jobs, target \in {"paused", "cancelled"} :
             Control(r, k, target)
  BY <1>8 DEF Stopped
<1> QED
  BY <1>3, <1>4, <1>5, <1>6, <1>7, <1>8
     DEF Next, RegistryStep, DriveStep, Begin, ReadJob, ReadControl, Checkpoint,
         OperationRaises, RunnerSaves, SetControl, RegisterHandlers,
         UnregisterHandlers, Crash, Tick, vars

(* What a stop reaches it stops, and it reaches the unfinished children of *)
(* whatever it reaches.                                                    *)
LEMMA CascadeStops ==
  ASSUME TypeOK, NEW r \in Registries, NEW j \in Jobs, NEW target \in Stopped,
         Control(r, j, target)
  PROVE  /\ \A k \in Jobs : /\ k \in Cascade(j) => jobs'[k].status = target
                            /\ k \notin Cascade(j) => jobs'[k] = jobs[k]
         /\ \A k \in Cascade(j), c \in Jobs :
              jobs[c].parent = k /\ jobs[c].status \notin Terminal => c \in Cascade(j)
<1>1. ASSUME NEW k \in Jobs, k \in Cascade(j)
      PROVE  jobs'[k].status = target
  <2>1. jobs'[k] = Revoked(jobs[k], target)
    BY <1>1 DEF Control
  <2>2. jobs[k] \in JobRecords
    BY DEF TypeOK
  <2> QED BY <2>1, <2>2 DEF Revoked, JobRecords
<1>2. ASSUME NEW k \in Jobs, k \notin Cascade(j)
      PROVE  jobs'[k] = jobs[k]
  BY <1>2 DEF Control
<1>3. ASSUME NEW k \in Cascade(j), NEW c \in Jobs,
             jobs[c].parent = k, jobs[c].status \notin Terminal
      PROVE  c \in Cascade(j)
  <2>1. ASSUME NEW S \in SUBSET Jobs, j \in S,
               \A b \in Jobs : jobs[b].parent \in S /\ jobs[b].status \notin Terminal => b \in S
        PROVE  c \in S
    BY <1>3, <2>1 DEF Cascade
  <2> QED BY <2>1 DEF Cascade
<1> QED BY <1>1, <1>2, <1>3

(* Pausing or cancelling a job takes its unfinished children along, and    *)
(* theirs, in one step, for any number of jobs and whatever is whose       *)
(* child: none of them is left pending or running (control in jobs.py).    *)
THEOREM StopsReachChildren == Spec => [][StopReachesChildren]_vars
<1>1. ASSUME TypeOK, TypeOK', ThreadsMatchJobs, [Next]_vars PROVE StopReachesChildren
  <2> SUFFICES ASSUME NEW p \in Jobs, NEW c \in Jobs, jobs'[p].epoch > jobs[p].epoch,
                      jobs'[p].status \in Stopped, jobs[c].parent = p
               PROVE  jobs'[c].status \in Terminal \cup {jobs'[p].status}
    BY DEF StopReachesChildren, Stopped
  <2>1. PICK r \in Registries, k \in Jobs, target \in Stopped : Control(r, k, target)
    BY <1>1, StopIsControl
  <2>2. p \in Cascade(k)
    <3>1. jobs'[p] # jobs[p]
      BY <1>1, EpochType
    <3> QED BY <1>1, <2>1, <3>1, CascadeStops
  <2>3. CASE jobs[c].status \in Terminal
    <3>1. k \in Jobs /\ jobs[k].status \in Statuses \ Terminal
      BY <2>1 DEF Control
    <3>2. c \notin Cascade(k)
      BY <1>1, <2>3, <3>1, CascadeUnfinished
    <3> QED BY <1>1, <2>1, <2>3, <3>2, CascadeStops
  <2>4. CASE jobs[c].status \notin Terminal
    <3>1. c \in Cascade(k)
      BY <1>1, <2>1, <2>2, <2>4, CascadeStops
    <3> QED BY <1>1, <2>1, <2>2, <3>1, CascadeStops
  <2> QED BY <2>3, <2>4
<1> QED BY <1>1, TypeCorrect, ThreadsMatch, PTL DEF Spec
=============================================================================
