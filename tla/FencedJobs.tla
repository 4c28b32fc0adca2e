------------------------------ MODULE FencedJobs ------------------------------
(***************************************************************************)
(* What the job registry promises its readers, without leases, owners,     *)
(* clocks, processes or threads: a job is worked on by at most one holder, *)
(* an authority once taken away is never used again, only the holder       *)
(* publishes or concludes, and the outcome of a job is final.  This is the *)
(* abstract specification; JobRegistry implements it.                      *)
(***************************************************************************)
EXTENDS Integers

CONSTANT Jobs

VARIABLE ledger

(* holder: the epoch that may act, 0 if none; epoch: every later holder is *)
(* newer; published: number of outputs; by: the epoch of the newest        *)
(* output; outcome: "open", "completed", "failed" or "cancelled".          *)
Entry(holder, epoch, published, by, outcome) ==
  [holder |-> holder, epoch |-> epoch, published |-> published, by |-> by,
   outcome |-> outcome]

Init == ledger = [j \in Jobs |-> Entry(0, 0, 0, 0, "open")]

(* A new holder is newer than every holder before it. *)
Grant(x, y) ==
  /\ x.outcome = "open"
  /\ y.epoch > x.epoch
  /\ y = Entry(y.epoch, y.epoch, x.published, x.by, "open")

(* Authority is taken away; later holders are newer still. *)
Revoke(x, y) ==
  /\ x.outcome = "open"
  /\ y.epoch >= x.epoch
  /\ y = Entry(0, y.epoch, x.published, x.by, "open")

Publish(x, y) ==
  /\ x.holder # 0
  /\ y = Entry(x.holder, x.epoch, x.published + 1, x.holder, x.outcome)

Conclude(x, y) ==
  /\ x.holder # 0
  /\ \E o \in {"completed", "failed"} :
       y = Entry(0, x.epoch, x.published, x.by, o)

Cancel(x, y) ==
  /\ x.outcome = "open"
  /\ y.epoch >= x.epoch
  /\ y = Entry(0, y.epoch, x.published, x.by, "cancelled")

JobStep(x, y) ==
  y = x \/ Grant(x, y) \/ Revoke(x, y) \/ Publish(x, y) \/ Conclude(x, y) \/ Cancel(x, y)

(* Time and cascades move several jobs in one step. *)
Next == /\ ledger' = [j \in Jobs |-> ledger'[j]]
        /\ \A j \in Jobs : JobStep(ledger[j], ledger'[j])

Spec == Init /\ [][Next]_ledger
=============================================================================
