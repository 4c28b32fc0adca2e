---------------------------- MODULE MessageQueue ----------------------------
(***************************************************************************)
(* The queue of follow-up messages of one conversation                     *)
(* (src/lightworker/message_queue.py): what each transaction makes of the  *)
(* queue that the conversation's session projects.                         *)
(*                                                                         *)
(* The code appends events and folds them over; here an operation maps the *)
(* projected queue to the next one.  The item's message in LightAgent's    *)
(* inbox is moved by the same transactions and is left out.  A message is  *)
(* identified with its item.                                               *)
(***************************************************************************)
EXTENDS Naturals, Sequences, SequencesExt, Selections

CONSTANTS Messages, Runs, None

ASSUME QueueConstants == None \notin Messages \cup Runs

ItemStatuses == {"absent", "pending", "running", "completed", "guided",
                 "failed", "cancelled"}

Items  == [status : ItemStatuses, run : Runs \cup {None}]
Queues == [order : Seq(Messages), items : [Messages -> Items]]

EmptyQueue ==
  [order |-> <<>>,
   items |-> [m \in Messages |-> [status |-> "absent", run |-> None]]]

-----------------------------------------------------------------------------
StatusOf(q, m) == q.items[m].status

(* The items with a status, in the order of the queue. *)
InStatus(q, s) == Selected(q.order, {m \in Messages : StatusOf(q, m) = s})

SetItem(q, m, status, run) == [q EXCEPT !.items[m] = [status |-> status, run |-> run]]

(* active: what is neither finished nor taken out of the queue. *)
NothingActive(q) == InStatus(q, "pending") = <<>> /\ InStatus(q, "running") = <<>>

Enqueue(q, m) == [SetItem(q, m, "pending", None) EXCEPT !.order = Append(@, m)]

(* A claim that does not look again at the item it was given, and one that *)
(* does not look at the others (both faulty).                              *)
ClaimableBlindly(q, m) == InStatus(q, "running") = <<>>
ClaimableInAnyOrder(q, m) == InStatus(q, "running") = <<>> /\ StatusOf(q, m) = "pending"

(* claim refuses unless m is the first pending item and none is running. *)
Claimable(q, m) ==
  /\ InStatus(q, "running") = <<>>
  /\ InStatus(q, "pending") # <<>> /\ Head(InStatus(q, "pending")) = m

Claim(q, m, run) == SetItem(q, m, "running", run)

(* release and complete ask for nothing. *)
Release(q, m) == SetItem(q, m, "pending", None)
Complete(q, m, outcome) == SetItem(q, m, outcome, q.items[m].run)

(* guide and cancel are for pending items. *)
Removable(q, m) == StatusOf(q, m) = "pending"
Guide(q, m)  == SetItem(q, m, "guided", None)
Cancel(q, m) == SetItem(q, m, "cancelled", None)

(* reorder takes a permutation of the pending items and puts it last. *)
Reorder(q, ids) ==
  [q EXCEPT !.order = Selected(@, Messages \ ToSet(ids)) \o ids]

Reorderings(q) == SetToSeqs(ToSet(InStatus(q, "pending")))
=============================================================================
