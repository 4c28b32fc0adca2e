-------------------------- MODULE ConversationProofs --------------------------
(***************************************************************************)
(* Theorems about Conversation, for any messages and runs, and any number  *)
(* of restarts and continued runs.                                         *)
(***************************************************************************)
EXTENDS Conversation, SelectionProofs, FiniteSetTheorems

-----------------------------------------------------------------------------
(* A run that was recorded, and those recorded for a message. *)
Known(r) == runs[r].status # "absent"
With(m)  == {r \in Runs : Known(r) /\ runs[r].message = m}
ItemRun(m) == queue.items[m].run

(* The same after a step, of a run or an item that the step starts from.   *)
KnownNext(r) == runs'[r].status # "absent"
RunNext(m)   == queue'.items[m].run

(* The stages in which a dispatch, or a POST, has chosen a run. *)
Choosing == {"claim", "submit", "launch"}
Posting  == {"submit", "launch"}

(* What was never recorded has no message, and no thread. *)
UnknownIsBlank ==
  \A r \in Runs : ~Known(r) =>
    runs[r].message = None /\ runs[r].item = None /\ threads[r].stage = "none"

(* A dispatch has a message from the moment it closes or chooses one, and  *)
(* a run of its own from its choice until the run is launched.             *)
DispatchChooses ==
  /\ dispatch.by # None => Known(dispatch.by)
  /\ dispatch.run # None <=> dispatch.stage \in Choosing
  /\ dispatch.stage \in Choosing \cup {"close"} => dispatch.message \in Messages
  /\ dispatch.stage \in {"claim", "submit"} => ~Known(dispatch.run)
  /\ dispatch.stage = "claim" => \A m \in Messages : ItemRun(m) # dispatch.run
  /\ dispatch.stage = "submit" =>
       /\ StatusOf(queue, dispatch.message) = "running"
       /\ \A m \in Messages : ItemRun(m) = dispatch.run <=> m = dispatch.message
  /\ dispatch.stage = "launch" => Known(dispatch.run)

(* So has a POST that submits its message. *)
PostChooses ==
  \A m \in Messages :
    /\ requests[m].run # None <=> requests[m].stage \in Posting
    /\ requests[m].stage = "submit" =>
         /\ ~Known(requests[m].run) /\ dispatch.run # requests[m].run
         /\ \A n \in Messages : /\ ItemRun(n) # requests[m].run
                                /\ requests[n].run = requests[m].run => n = m
    /\ requests[m].stage = "launch" => Known(requests[m].run)

(* Where a message is: before its POST decides, in the queue, with a run,  *)
(* or taken out.                                                           *)
Undecided == {"none", "look", "enqueue", "submit"}

Placed(m) ==
  /\ requests[m].stage \in Undecided \cup Posting => StatusOf(queue, m) = "absent"
  /\ requests[m].stage \in Undecided => With(m) = {}
  /\ StatusOf(queue, m) = "absent" => ItemRun(m) = None /\ \A r \in Runs : runs[r].item # m
  /\ StatusOf(queue, m) \in {"pending", "guided", "cancelled"} => With(m) = {}
  /\ StatusOf(queue, m) = "running" =>
       /\ ItemRun(m) \in Runs /\ With(m) \subseteq {ItemRun(m)}
       /\ Known(ItemRun(m)) => ItemRun(m) \in With(m)
  /\ StatusOf(queue, m) = "completed" => With(m) # {}
  /\ steered[m].run # None => StatusOf(queue, m) = "guided"
  /\ \A r \in Runs : runs[r].item = m => r \in With(m)
  /\ \A r, s \in With(m) : r = s

MessagesPlaced == \A m \in Messages : Placed(m)

(* What a dispatch closes is running, or its run closed it first; it is    *)
(* released only if its run was never recorded.                            *)
CloseIsRight ==
  dispatch.stage = "close" =>
    LET m == dispatch.message IN
    /\ StatusOf(queue, m) \in {"running", "completed", "failed"}
    /\ IF dispatch.lost THEN StatusOf(queue, m) = "running" /\ ~Known(ItemRun(m))
                        ELSE With(m) # {}

(* The order names each queued message once, ... *)
OrderIsSound ==
  /\ \A i, k \in DOMAIN queue.order : queue.order[i] = queue.order[k] => i = k
  /\ \A k \in DOMAIN queue.order : StatusOf(queue, queue.order[k]) # "absent"

(* ... and what stands before a claimed message is done with until its run *)
(* is recorded.                                                            *)
ClaimedIsNext ==
  dispatch.stage = "submit" =>
    \A i, k \in DOMAIN queue.order :
      i < k /\ queue.order[k] = dispatch.message =>
        StatusOf(queue, queue.order[i]) \notin {"pending", "running"}

ConversationInv ==
  /\ TypeOK /\ convo # <<>>
  /\ UnknownIsBlank /\ DispatchChooses /\ PostChooses /\ MessagesPlaced
  /\ CloseIsRight /\ OrderIsSound /\ ClaimedIsNext

-----------------------------------------------------------------------------
(* The queue *)

(* The first item with a status, if there is one, has it, and those that   *)
(* stand before it have not.                                               *)
LEMMA FirstInStatus ==
  ASSUME NEW q \in Queues, NEW s, InStatus(q, s) # <<>>
  PROVE  /\ Head(InStatus(q, s)) \in Messages
         /\ StatusOf(q, Head(InStatus(q, s))) = s
         /\ \E i \in DOMAIN q.order :
              /\ q.order[i] = Head(InStatus(q, s))
              /\ \A j \in DOMAIN q.order : j < i => StatusOf(q, q.order[j]) # s
<1> DEFINE S == {m \in Messages : StatusOf(q, m) = s}
           t == q.order
<1>1. t \in Seq(Messages)
  BY DEF Queues
<1>2. InStatus(q, s) = Selected(t, S)
  BY DEF InStatus
<1>3. S \subseteq Messages /\ \A m \in Messages : m \in S <=> StatusOf(q, m) = s
  OBVIOUS
<1> HIDE DEF S, t
<1>4. PICK i \in 1 .. Len(t) : /\ Head(Selected(t, S)) = t[i] /\ t[i] \in S
                               /\ \A j \in 1 .. Len(t) : j < i => t[j] \notin S
  BY <1>1, <1>2, SelectedHead
<1>5. DOMAIN t = 1 .. Len(t) /\ \A j \in DOMAIN t : t[j] \in Messages
  BY <1>1, LenProperties
<1>6. \A j \in DOMAIN t : j < i => StatusOf(q, t[j]) # s
  BY <1>3, <1>4, <1>5
<1> QED BY <1>2, <1>3, <1>4, <1>5, <1>6 DEF t

(* If no item has a status, nothing in the order has it. *)
LEMMA NoneInStatus ==
  ASSUME NEW q \in Queues, NEW s, InStatus(q, s) = <<>>
  PROVE  \A i \in DOMAIN q.order : StatusOf(q, q.order[i]) # s
<1> DEFINE S == {m \in Messages : StatusOf(q, m) = s}
           t == q.order
<1>1. t \in Seq(Messages)
  BY DEF Queues
<1>2. Selected(t, S) = <<>>
  BY DEF InStatus
<1>3. \A m \in Messages : StatusOf(q, m) = s => m \in S
  OBVIOUS
<1> HIDE DEF S, t
<1>4. \A i \in 1 .. Len(t) : t[i] \in S =>
        \E k \in 1 .. Len(Selected(t, S)) : Selected(t, S)[k] = t[i]
  BY <1>1, SelectedElements
<1>5. 1 .. Len(Selected(t, S)) = {}
  BY <1>2
<1>6. DOMAIN t = 1 .. Len(t) /\ \A j \in DOMAIN t : t[j] \in Messages
  BY <1>1, LenProperties
<1> QED BY <1>3, <1>4, <1>5, <1>6 DEF t

LEMMA ItemIsSet ==
  ASSUME NEW q \in Queues, NEW m \in Messages, NEW s \in ItemStatuses,
         NEW r \in Runs \cup {None}
  PROVE  /\ SetItem(q, m, s, r) \in Queues
         /\ SetItem(q, m, s, r).order = q.order
         /\ SetItem(q, m, s, r).items[m] = [status |-> s, run |-> r]
         /\ \A n \in Messages : n # m => SetItem(q, m, s, r).items[n] = q.items[n]
<1>1. [status |-> s, run |-> r] \in Items
  BY DEF Items
<1> QED BY <1>1 DEF SetItem, Queues

(* The pending items that a reordering lists, each of them once. *)
LEMMA Reordered ==
  ASSUME NEW q \in Queues, NEW ids \in Reorderings(q)
  PROVE  /\ ids \in Seq(Messages)
         /\ \A i \in 1 .. Len(ids) : StatusOf(q, ids[i]) = "pending"
                                     /\ \E k \in DOMAIN q.order : q.order[k] = ids[i]
         /\ \A i, j \in 1 .. Len(ids) : ids[i] = ids[j] => i = j
<1> DEFINE S == {m \in Messages : StatusOf(q, m) = "pending"}
           p == InStatus(q, "pending")
           t == q.order
<1>1. p \in Seq(Messages) /\ t \in Seq(Messages) /\ p = Selected(t, S)
  BY SelectedPlaces DEF Queues, InStatus
<1>2. \A k \in 1 .. Len(p) : \E i \in 1 .. Len(t) : p[k] = t[i] /\ t[i] \in S
  BY <1>1, SelectedElements
<1>3. DOMAIN p = 1 .. Len(p) /\ Len(p) \in Nat /\ DOMAIN t = 1 .. Len(t)
  BY <1>1, LenProperties
<1>4. ids \in SetToSeqs(ToSet(p))
  BY DEF Reorderings
<1> HIDE DEF p, t
<1>5. \A x \in ToSet(p) : x \in S /\ \E i \in 1 .. Len(t) : x = t[i]
  BY <1>2, <1>3 DEF ToSet
<1>6. IsFiniteSet(ToSet(p))
  <2>1. p \in Surjection(1 .. Len(p), ToSet(p))
    <3>1. p \in [1 .. Len(p) -> ToSet(p)]
      <4>1. p \in [1 .. Len(p) -> Messages]
        BY <1>1, LenProperties
      <4>2. \A k \in 1 .. Len(p) : p[k] \in ToSet(p)
        BY <1>3 DEF ToSet
      <4> QED BY <4>1, <4>2
    <3>2. \A x \in ToSet(p) : \E k \in 1 .. Len(p) : p[k] = x
      BY <1>3 DEF ToSet
    <3> QED BY <3>1, <3>2 DEF Surjection
  <2>2. IsFiniteSet(1 .. Len(p))
    BY <1>3, FS_Interval
  <2> QED BY <2>1, <2>2, FS_Surjection
<1>7. Cardinality(ToSet(p)) \in Nat
  BY <1>6, FS_CardinalityType
<1> DEFINE c == Cardinality(ToSet(p))
<1>8. /\ ids \in [1 .. c -> ToSet(p)]
      /\ \A i, j \in 1 .. c : i # j => ids[i] # ids[j]
  BY <1>4 DEF SetToSeqs
<1> HIDE DEF c
<1>9. c \in Nat
  BY <1>7 DEF c
<1>10. ids \in Seq(ToSet(p)) /\ Len(ids) = c
  BY <1>8, <1>9
<1>11. ToSet(p) \subseteq Messages
  BY <1>5
<1>12. ids \in Seq(Messages)
  BY <1>10, <1>11
<1>13. \A i \in 1 .. Len(ids) : ids[i] \in ToSet(p)
  BY <1>8, <1>10
<1> QED BY <1>3, <1>5, <1>8, <1>10, <1>12, <1>13 DEF t

(* The order after a reordering: nothing is repeated, and what stands      *)
(* before an item that was not moved stood there before.                   *)
LEMMA ReorderedOrder ==
  ASSUME NEW q \in Queues, NEW ids \in Reorderings(q),
         \A i, k \in DOMAIN q.order : q.order[i] = q.order[k] => i = k
  PROVE  LET t == Reorder(q, ids).order IN
         /\ Reorder(q, ids) \in Queues
         /\ Reorder(q, ids).items = q.items
         /\ \A i, k \in DOMAIN t : t[i] = t[k] => i = k
         /\ \A k \in DOMAIN t : \E i \in DOMAIN q.order : t[k] = q.order[i]
         /\ \A i, k \in DOMAIN t : i < k /\ StatusOf(q, t[k]) # "pending" =>
              \E j, l \in DOMAIN q.order : j < l /\ t[i] = q.order[j] /\ t[k] = q.order[l]
<1> DEFINE S == Messages \ ToSet(ids)
           o == q.order
           u == Selected(o, S)
           t == u \o ids
<1>1. o \in Seq(Messages) /\ DOMAIN o = 1 .. Len(o)
  BY LenProperties DEF Queues
<1>2. /\ ids \in Seq(Messages)
      /\ \A i \in 1 .. Len(ids) : StatusOf(q, ids[i]) = "pending"
                                  /\ \E k \in DOMAIN o : o[k] = ids[i]
      /\ \A i, j \in 1 .. Len(ids) : ids[i] = ids[j] => i = j
  BY Reordered
<1>3. Reorder(q, ids) = [q EXCEPT !.order = t]
  BY DEF Reorder
<1> HIDE DEF o, S
<1>4. /\ u \in Seq(Messages)
      /\ \A k \in 1 .. Len(u) : \E i \in 1 .. Len(o) : u[k] = o[i] /\ o[i] \in S
  BY <1>1, SelectedElements
<1>5. \A k, l \in 1 .. Len(u) : u[k] = u[l] => k = l
  BY <1>1, SelectedOnce DEF o
<1>6. \A k, l \in 1 .. Len(u) : k < l =>
        \E i, j \in 1 .. Len(o) : i < j /\ u[k] = o[i] /\ u[l] = o[j]
  BY <1>1, SelectedOrder
<1> HIDE DEF u
<1>7. /\ t \in Seq(Messages) /\ DOMAIN t = 1 .. Len(u) + Len(ids)
      /\ \A k \in 1 .. Len(u) : t[k] = u[k]
      /\ \A k \in 1 .. Len(u) + Len(ids) : k > Len(u) =>
           k - Len(u) \in 1 .. Len(ids) /\ t[k] = ids[k - Len(u)]
      /\ Len(u) \in Nat /\ Len(ids) \in Nat
  BY <1>2, <1>4, ConcatProperties, LenProperties
<1> HIDE DEF t
<1>8. \A k \in 1 .. Len(u) : \A i \in 1 .. Len(ids) : u[k] # ids[i]
  <2>1. \A i \in 1 .. Len(ids) : ids[i] \in ToSet(ids)
    BY <1>2, LenProperties DEF ToSet
  <2> QED BY <2>1, <1>4 DEF S
<1>9. \A k \in DOMAIN t : k \in 1 .. Len(u) \/ (k > Len(u) /\ k - Len(u) \in 1 .. Len(ids)
                                                 /\ t[k] = ids[k - Len(u)])
  BY <1>7
<1>10. ASSUME NEW i \in DOMAIN t, NEW k \in DOMAIN t, t[i] = t[k] PROVE i = k
  <2>1. CASE i \in 1 .. Len(u) /\ k \in 1 .. Len(u)
    BY <2>1, <1>5, <1>7, <1>10
  <2>2. CASE i \notin 1 .. Len(u) /\ k \notin 1 .. Len(u)
    <3>1. i - Len(u) = k - Len(u)
      BY <2>2, <1>2, <1>9, <1>10
    <3> QED BY <3>1, <1>7
  <2>3. CASE (i \in 1 .. Len(u)) # (k \in 1 .. Len(u))
    BY SMTT(30), <2>3, <1>7, <1>8, <1>9, <1>10
  <2> QED BY <2>1, <2>2, <2>3
<1>11. ASSUME NEW k \in DOMAIN t PROVE \E i \in DOMAIN o : t[k] = o[i]
  <2>1. CASE k \in 1 .. Len(u)
    BY <2>1, <1>1, <1>4, <1>7
  <2>2. CASE k \notin 1 .. Len(u)
    BY <2>2, <1>2, <1>9
  <2> QED BY <2>1, <2>2
<1>12. ASSUME NEW i \in DOMAIN t, NEW k \in DOMAIN t, i < k, StatusOf(q, t[k]) # "pending"
       PROVE  \E j, l \in DOMAIN o : j < l /\ t[i] = o[j] /\ t[k] = o[l]
  <2>1. k \in 1 .. Len(u)
    BY <1>2, <1>9, <1>12
  <2>2. i \in 1 .. Len(u)
    BY <2>1, <1>7, <1>12
  <2>3. PICK j \in 1 .. Len(o), l \in 1 .. Len(o) : j < l /\ u[i] = o[j] /\ u[k] = o[l]
    BY <2>1, <2>2, <1>6, <1>12
  <2>4. t[i] = o[j] /\ t[k] = o[l] /\ j \in DOMAIN o /\ l \in DOMAIN o
    BY <2>1, <2>2, <2>3, <1>1, <1>7
  <2> QED BY <2>3, <2>4
<1>13. Reorder(q, ids) \in Queues /\ Reorder(q, ids).items = q.items
       /\ Reorder(q, ids).order = t
  BY <1>3, <1>7 DEF Queues
<1> QED BY <1>10, <1>11, <1>12, <1>13 DEF o

-----------------------------------------------------------------------------
(* Types *)

LEMMA MovedLastTyped ==
  ASSUME convo \in Seq(Runs), IsInjective(convo), NEW r \in Runs
  PROVE  MovedLast(r) \in Seq(Runs) /\ IsInjective(MovedLast(r)) /\ MovedLast(r) # <<>>
<1> DEFINE S == Runs \ {r}
           u == Selected(convo, S)
           t == Append(u, r)
<1>1. DOMAIN convo = 1 .. Len(convo)
  BY LenProperties
<1>2. /\ u \in Seq(Runs)
      /\ \A k \in 1 .. Len(u) : \E i \in 1 .. Len(convo) : u[k] = convo[i] /\ convo[i] \in S
  BY SelectedElements
<1>3. \A i, j \in 1 .. Len(convo) : convo[i] = convo[j] => i = j
  BY <1>1 DEF IsInjective
<1>4. \A k, l \in 1 .. Len(u) : u[k] = u[l] => k = l
  BY <1>3, SelectedOnce
<1>5. \A k \in 1 .. Len(u) : u[k] # r
  BY <1>2
<1> HIDE DEF u
<1>6. /\ t \in Seq(Runs) /\ t # <<>> /\ Len(u) \in Nat
      /\ DOMAIN t = 1 .. Len(u) + 1
      /\ \A k \in 1 .. Len(u) : t[k] = u[k]
      /\ t[Len(u) + 1] = r
  BY <1>2, AppendProperties, LenProperties
<1> HIDE DEF t
<1>7. ASSUME NEW k \in DOMAIN t, NEW l \in DOMAIN t, t[k] = t[l] PROVE k = l
  <2>1. CASE k \in 1 .. Len(u) /\ l \in 1 .. Len(u)
    BY <2>1, <1>4, <1>6, <1>7
  <2>2. CASE k = Len(u) + 1 \/ l = Len(u) + 1
    BY <2>2, <1>5, <1>6, <1>7
  <2> QED BY <2>1, <2>2, <1>6
<1>8. IsInjective(t)
  BY <1>7 DEF IsInjective
<1> QED BY <1>6, <1>8 DEF t, u, MovedLast

(* Which steps write the queue, ... *)
LEMMA QueueWriters ==
  ASSUME [Next]_vars
  PROVE  \/ UNCHANGED queue \/ Close \/ Pick \/ ClaimNext
         \/ \E m \in Messages : PostEnqueues(m) \/ GuideMessage(m) \/ CancelMessage(m)
         \/ \E r \in Runs : Settle(r)
         \/ \E ids \in Reorderings(queue) : ReorderMessages(ids)
BY DEF Next, vars, UserStep, DispatchStep, RequestStep, ThreadStep, Post, PostLooks,
       PostWakes, PostRefused, PostSubmits, PostLaunches, Poll, Look, Handle, Submit,
       Launch, Activate, RunEnds, TakeLock, TaskEnds, Stop, ResumeRun, Continue, Steer,
       Restart

(* ... the records of runs, ... *)
LEMMA RunsWriters ==
  ASSUME [Next]_vars
  PROVE  \/ UNCHANGED <<runs, convo>> \/ Submit \/ Restart
         \/ \E m \in Messages : PostSubmits(m)
         \/ \E r \in Runs : \/ Activate(r) \/ \E s \in RunStatuses : RunEnds(r, s)
                            \/ \E s \in {"paused", "cancelled"} : Stop(r, s)
                            \/ ResumeRun(r)
BY DEF Next, vars, UserStep, DispatchStep, RequestStep, ThreadStep, Post, PostLooks,
       PostEnqueues, PostWakes, PostRefused, PostLaunches, Poll, Look, Handle, Close, Pick,
       ClaimNext, Launch, Settle, TakeLock, TaskEnds, Continue, GuideMessage, Steer,
       CancelMessage, ReorderMessages

(* ... the threads, ... *)
LEMMA ThreadsWriters ==
  ASSUME [Next]_vars
  PROVE  \/ UNCHANGED threads \/ Look \/ Handle \/ Pick \/ ClaimNext \/ Launch \/ Restart
         \/ \E m \in Messages : PostLaunches(m)
         \/ \E r \in Runs : \/ Activate(r) \/ \E s \in RunStatuses : RunEnds(r, s)
                            \/ Settle(r) \/ TakeLock(r) \/ TaskEnds(r)
                            \/ ResumeRun(r) \/ Continue(r)
BY DEF Next, vars, UserStep, DispatchStep, RequestStep, ThreadStep, Post, PostLooks,
       PostEnqueues, PostWakes, PostRefused, PostSubmits, Poll, Close, Submit, Stop,
       GuideMessage, Steer, CancelMessage, ReorderMessages

(* ... the dispatch, ... *)
LEMMA DispatchWriters ==
  ASSUME [Next]_vars
  PROVE  \/ UNCHANGED dispatch \/ Poll \/ Look \/ Handle \/ Close \/ Pick \/ ClaimNext
         \/ Submit \/ Launch \/ Restart
         \/ \E m \in Messages : PostWakes(m)
         \/ \E r \in Runs : TakeLock(r)
BY DEF Next, vars, UserStep, DispatchStep, RequestStep, ThreadStep, Post, PostLooks,
       PostEnqueues, PostRefused, PostSubmits, PostLaunches, Activate, RunEnds, Settle,
       TaskEnds, Stop, ResumeRun, Continue, GuideMessage, Steer, CancelMessage,
       ReorderMessages

(* ... the requests, ... *)
LEMMA RequestsWriters ==
  ASSUME [Next]_vars
  PROVE  \/ UNCHANGED requests \/ Restart
         \/ \E m \in Messages : \/ Post(m) \/ PostLooks(m) \/ PostEnqueues(m) \/ PostWakes(m)
                                \/ PostRefused(m) \/ PostSubmits(m) \/ PostLaunches(m)
BY DEF Next, vars, UserStep, DispatchStep, RequestStep, ThreadStep, Poll, Look, Handle,
       Close, Pick, ClaimNext, Submit, Launch, Activate, RunEnds, Settle, TakeLock,
       TaskEnds, Stop, ResumeRun, Continue, GuideMessage, Steer, CancelMessage,
       ReorderMessages

(* ... the guidance, and the counters. *)
LEMMA OtherWriters ==
  ASSUME [Next]_vars
  PROVE  /\ \/ UNCHANGED steered \/ Restart
            \/ \E m \in Messages : GuideMessage(m) \/ Steer(m)
         /\ UNCHANGED restarts \/ Restart
         /\ UNCHANGED continues \/ \E r \in Runs : ResumeRun(r) \/ Continue(r)
BY DEF Next, vars, UserStep, DispatchStep, RequestStep, ThreadStep, Post, PostLooks,
       PostEnqueues, PostWakes, PostRefused, PostSubmits, PostLaunches, Poll, Look, Handle,
       Close, Pick, ClaimNext, Submit, Launch, Activate, RunEnds, Settle, TakeLock,
       TaskEnds, Stop, ResumeRun, Continue, CancelMessage, ReorderMessages, GuideMessage,
       Steer, Restart

LEMMA QueueTyped ==
  ASSUME ConversationInv, [Next]_vars
  PROVE  queue' \in Queues
<1>0. /\ queue \in Queues /\ TypeOK /\ DispatchChooses
      /\ \A m \in Messages : ItemRun(m) \in Runs \cup {None}
  BY DEF ConversationInv, TypeOK, Queues, Items, ItemRun, RunNext
<1>1. /\ {"pending", "running", "completed", "failed", "guided", "cancelled"} \subseteq ItemStatuses
      /\ None \in Runs \cup {None}
  BY DEF ItemStatuses
<1>2. CASE Close
  <2>1. dispatch.message \in Messages
    BY <1>0, <1>2 DEF Close, DispatchChooses
  <2> QED BY <2>1, <1>0, <1>1, <1>2, ItemIsSet DEF Close, Release, Complete, ItemRun, RunNext
<1>3. CASE Pick
  <2>1. InStatus(queue, "pending") # <<>> => Head(InStatus(queue, "pending")) \in Messages
    BY <1>0, FirstInStatus
  <2>2. CASE UNCHANGED queue
    BY <2>2, <1>0
  <2>3. CASE /\ InStatus(queue, "pending") # <<>>
             /\ queue' = Complete(queue, Head(InStatus(queue, "pending")), "failed")
    BY <2>1, <2>3, <1>0, <1>1, ItemIsSet DEF Complete, ItemRun, RunNext
  <2> QED BY <1>3, <2>2, <2>3 DEF Pick
<1>4. CASE ClaimNext
  <2>1. dispatch.message \in Messages /\ dispatch.run \in Runs \cup {None}
    BY <1>0, <1>4 DEF ClaimNext, DispatchChooses, Choosing, TypeOK, Dispatches
  <2>2. UNCHANGED queue \/ queue' = SetItem(queue, dispatch.message, "running", dispatch.run)
    BY <1>4 DEF ClaimNext, Claim
  <2>3. CASE queue' = SetItem(queue, dispatch.message, "running", dispatch.run)
    <3>1. "running" \in ItemStatuses
      BY <1>1
    <3> QED BY <2>1, <2>3, <3>1, <1>0, ItemIsSet
  <2> QED BY <2>2, <2>3, <1>0
<1>5. ASSUME NEW m \in Messages, PostEnqueues(m) PROVE queue' \in Queues
  <2> DEFINE q == SetItem(queue, m, "pending", None)
  <2>1. q \in Queues
    BY <1>0, <1>1, ItemIsSet
  <2>2. Append(q.order, m) \in Seq(Messages)
    BY <2>1 DEF Queues
  <2> HIDE DEF q
  <2>3. [q EXCEPT !.order = Append(@, m)] \in Queues
    BY <2>1, <2>2 DEF Queues
  <2> QED BY <2>3, <1>5 DEF PostEnqueues, Enqueue, q
<1>6. ASSUME NEW m \in Messages, GuideMessage(m) \/ CancelMessage(m) PROVE queue' \in Queues
  <2>1. queue' = SetItem(queue, m, "guided", None) \/ queue' = SetItem(queue, m, "cancelled", None)
    BY <1>6 DEF GuideMessage, CancelMessage, Guide, Cancel
  <2> QED BY <2>1, <1>0, <1>1, ItemIsSet
<1>7. ASSUME NEW r \in Runs, Settle(r) PROVE queue' \in Queues
  <2>1. runs[r].item \in Messages \cup {None}
    BY <1>0 DEF TypeOK, RunRecords
  <2>2. CASE UNCHANGED queue
    BY <2>2, <1>0
  <2>3. CASE /\ runs[r].item # None
             /\ queue' = Complete(queue, runs[r].item,
                                  IF runs[r].status = "failed" THEN "failed" ELSE "completed")
    BY <2>1, <2>3, <1>0, <1>1, ItemIsSet DEF Complete, ItemRun, RunNext
  <2> QED BY <1>7, <2>2, <2>3 DEF Settle
<1>8. ASSUME NEW ids \in Reorderings(queue), ReorderMessages(ids) PROVE queue' \in Queues
  BY <1>0, <1>8, ReorderedOrder DEF ReorderMessages, ConversationInv, OrderIsSound
<1> QED BY <1>0, <1>2, <1>3, <1>4, <1>5, <1>6, <1>7, <1>8, QueueWriters

LEMMA RecordSet ==
  ASSUME NEW f \in [Runs -> RunRecords], NEW r \in Runs, NEW s \in RunStatuses,
         NEW c \in Controls, NEW m \in Messages \cup {None}, NEW i \in Messages \cup {None},
         NEW b \in BOOLEAN
  PROVE  /\ [f EXCEPT ![r].status = s] \in [Runs -> RunRecords]
         /\ [f EXCEPT ![r].control = c] \in [Runs -> RunRecords]
         /\ [f EXCEPT ![r].status = s, ![r].bootstrap = b] \in [Runs -> RunRecords]
         /\ [f EXCEPT ![r] = [f[r] EXCEPT !.status = s, !.message = m, !.item = i,
                                          !.bootstrap = b]] \in [Runs -> RunRecords]
BY DEF RunRecords

LEMMA RunsTyped ==
  ASSUME ConversationInv, [Next]_vars
  PROVE  runs' \in [Runs -> RunRecords]
<1>0. /\ TypeOK /\ DispatchChooses /\ PostChooses
      /\ runs \in [Runs -> RunRecords]
      /\ {"active", "paused", "cancelled", "interrupted"} \subseteq RunStatuses
      /\ {"running", "paused", "cancelled"} \subseteq Controls
      /\ \A r \in Runs : runs[r].control \in Controls /\ runs[r].bootstrap \in BOOLEAN
  BY DEF ConversationInv, TypeOK, RunStatuses, Controls, RunRecords
<1>1. CASE Submit
  <2>1. dispatch.message \in Messages /\ dispatch.run \in Runs
    BY <1>0, <1>1 DEF Submit, DispatchChooses, Choosing, TypeOK, Dispatches
  <2>2. runs' = [runs EXCEPT ![dispatch.run] =
                   [runs[dispatch.run] EXCEPT !.status = "active", !.message = dispatch.message,
                      !.item = dispatch.message, !.bootstrap = TRUE]]
    BY <1>1 DEF Submit, Recorded
  <2>3. "active" \in RunStatuses /\ dispatch.message \in Messages \cup {None}
    BY <2>1, <1>0
  <2> QED BY <2>1, <2>2, <2>3, <1>0, RecordSet
<1>2. ASSUME NEW m \in Messages, PostSubmits(m) PROVE runs' \in [Runs -> RunRecords]
  <2>1. requests[m].run \in Runs
    BY <1>0, <1>2 DEF PostSubmits, PostChooses, Posting, TypeOK, Posts
  <2> QED BY <2>1, <1>0, <1>2, RecordSet DEF PostSubmits, Recorded
<1>3. CASE Restart
  <2>1. \A r \in Runs : [runs[r] EXCEPT !.status = "interrupted"] \in RunRecords
    BY <1>0 DEF RunRecords
  <2> QED BY <1>0, <1>3, <2>1 DEF Restart
<1>4. ASSUME NEW r \in Runs, Activate(r) PROVE runs' \in [Runs -> RunRecords]
  <2>1. CASE UNCHANGED runs
    BY <2>1, <1>0
  <2>2. CASE runs[r].control # "running" /\ SetStatus(r, runs[r].control)
    <3>1. runs[r].control \in RunStatuses
      BY <2>2, <1>0 DEF Controls
    <3> QED BY <2>2, <3>1, <1>0, RecordSet DEF SetStatus
  <2>3. CASE \E anew \in BOOLEAN : runs' = [runs EXCEPT ![r].status = "active",
                                                        ![r].bootstrap = @ /\ ~anew]
    <3>1. PICK anew \in BOOLEAN : runs' = [runs EXCEPT ![r].status = "active",
                                                       ![r].bootstrap = @ /\ ~anew]
      BY <2>3
    <3>2. "active" \in RunStatuses
      BY <1>0
    <3> QED BY ZenonT(40), <3>1, <3>2, <1>0 DEF RunRecords
  <2>4. UNCHANGED runs \/ (runs[r].control # "running" /\ SetStatus(r, runs[r].control))
        \/ runs' = [runs EXCEPT ![r].status = "active",
                                ![r].bootstrap = @ /\ ~(runs[r].bootstrap /\ threads[r].settles)]
    BY <1>4 DEF Activate
  <2>5. (runs[r].bootstrap /\ threads[r].settles) \in BOOLEAN
    BY <1>0 DEF TypeOK, Calls
  <2> QED BY <2>1, <2>2, <2>3, <2>4, <2>5
<1>5. ASSUME NEW r \in Runs, NEW s \in RunStatuses, RunEnds(r, s)
      PROVE  runs' \in [Runs -> RunRecords]
  BY <1>0, <1>5, RecordSet DEF RunEnds, SetStatus
<1>6. ASSUME NEW r \in Runs, NEW s \in {"paused", "cancelled"}, Stop(r, s) \/ ResumeRun(r)
      PROVE  runs' \in [Runs -> RunRecords]
  <2>1. s \in Controls /\ "running" \in Controls
    BY <1>0
  <2>2. runs' = [runs EXCEPT ![r].control = s] \/ runs' = [runs EXCEPT ![r].control = "running"]
    BY <1>6 DEF Stop, ResumeRun
  <2>3. \A c \in Controls : [runs EXCEPT ![r].control = c] \in [Runs -> RunRecords]
    BY <1>0 DEF RunRecords
  <2> QED BY <2>1, <2>2, <2>3
<1> QED BY <1>0, <1>1, <1>2, <1>3, <1>4, <1>5, <1>6, RunsWriters

LEMMA ConvoTyped ==
  ASSUME ConversationInv, [Next]_vars
  PROVE  convo' \in Seq(Runs) /\ IsInjective(convo') /\ convo' # <<>>
<1>0. /\ TypeOK /\ DispatchChooses /\ PostChooses
      /\ convo \in Seq(Runs) /\ IsInjective(convo) /\ convo # <<>>
  BY DEF ConversationInv, TypeOK
<1>1. CASE Submit
  <2>1. dispatch.run \in Runs
    BY <1>0, <1>1 DEF Submit, DispatchChooses, Choosing, TypeOK, Dispatches
  <2> QED BY <2>1, <1>0, <1>1, MovedLastTyped DEF Submit
<1>2. ASSUME NEW m \in Messages, PostSubmits(m)
      PROVE  convo' \in Seq(Runs) /\ IsInjective(convo') /\ convo' # <<>>
  <2>1. requests[m].run \in Runs
    BY <1>0, <1>2 DEF PostSubmits, PostChooses, Posting, TypeOK, Posts
  <2> QED BY <2>1, <1>0, <1>2, MovedLastTyped DEF PostSubmits
<1>3. ASSUME NEW r \in Runs, Activate(r)
      PROVE  convo' \in Seq(Runs) /\ IsInjective(convo') /\ convo' # <<>>
  <2>1. UNCHANGED convo \/ convo' = MovedLast(r)
    BY <1>3 DEF Activate
  <2>2. CASE UNCHANGED convo
    BY <2>2, <1>0
  <2>3. CASE convo' = MovedLast(r)
    BY <2>3, <1>0, MovedLastTyped
  <2> QED BY <2>1, <2>2, <2>3
<1>4. UNCHANGED convo \/ Submit \/ (\E m \in Messages : PostSubmits(m))
      \/ \E r \in Runs : Activate(r)
  BY RunsWriters DEF RunEnds, Stop, ResumeRun, Restart
<1>5. CASE UNCHANGED convo
  BY <1>5, <1>0
<1> QED BY <1>1, <1>2, <1>3, <1>4, <1>5

(* What a step makes of a thread, and of the dispatch it waits for. *)
LEMMA StageSet ==
  ASSUME NEW f \in [Runs -> Calls], NEW r \in Runs, NEW s \in ThreadStages, NEW b \in BOOLEAN
  PROVE  /\ [f EXCEPT ![r].stage = s] \in [Runs -> Calls]
         /\ [f EXCEPT ![r] = [stage |-> "queued", settles |-> b]] \in [Runs -> Calls]
         /\ \A x \in Runs : x # r => /\ [f EXCEPT ![r].stage = s][x] = f[x]
                                     /\ [f EXCEPT ![r] = [stage |-> "queued", settles |-> b]][x] = f[x]
BY DEF Calls, ThreadStages

LEMMA ThreadsTyped ==
  ASSUME ConversationInv, [Next]_vars
  PROVE  /\ threads' \in [Runs -> Calls]
         /\ \A r \in Runs : threads'[r].stage # "none" => threads[r].stage # "none" \/ Known(r)
<1>0. /\ TypeOK /\ DispatchChooses /\ PostChooses /\ threads \in [Runs -> Calls]
      /\ ThreadStages = {"none", "queued", "running", "settle", "dispatch", "waits", "end"}
      /\ dispatch.by \in Runs \cup {None}
  BY DEF ConversationInv, TypeOK, ThreadStages, Dispatches
<1> DEFINE Good == /\ threads' \in [Runs -> Calls]
                   /\ \A r \in Runs : threads'[r].stage # "none" => threads[r].stage # "none" \/ Known(r)
<1>1. ASSUME UNCHANGED threads PROVE Good
  BY <1>0, <1>1
<1>2. ASSUME NEW r \in Runs, NEW s \in ThreadStages, SetStage(r, s),
             s = "none" \/ threads[r].stage # "none" \/ Known(r)
      PROVE  Good
  BY <1>0, <1>2 DEF SetStage, Calls
<1>3. ASSUME NEW r \in Runs, NEW b \in BOOLEAN, threads' = Queued(r, b), Known(r)
      PROVE  Good
  BY <1>0, <1>3 DEF Queued, Calls
<1> HIDE DEF Good
<1>4. ASSUME Return PROVE Good
  <2>1. CASE dispatch.by = None
    BY <2>1, <1>1, <1>4 DEF Return
  <2>2. CASE dispatch.by # None
    <3>1. dispatch.by \in Runs /\ Known(dispatch.by) /\ SetStage(dispatch.by, "end")
      BY <2>2, <1>0, <1>4 DEF Return, DispatchChooses
    <3> QED BY <3>1, <1>0, <1>2
  <2> QED BY <2>1, <2>2
<1>5. ASSUME Look \/ Handle \/ Pick \/ ClaimNext PROVE Good
  <2>1. UNCHANGED threads \/ Return
    BY <1>5 DEF Look, Handle, Pick, ClaimNext
  <2> QED BY <2>1, <1>1, <1>4
<1>6. ASSUME Launch PROVE Good
  <2> DEFINE f == Queued(dispatch.run, TRUE)
  <2>1. dispatch.run \in Runs /\ Known(dispatch.run)
    BY <1>0, <1>6 DEF Launch, DispatchChooses, Choosing, TypeOK, Dispatches
  <2>2. f \in [Runs -> Calls] /\ \A x \in Runs : x # dispatch.run => f[x] = threads[x]
    BY <2>1, <1>0 DEF Queued, Calls
  <2> HIDE DEF f
  <2>3. CASE threads' = f
    BY <2>1, <2>2, <2>3 DEF Good
  <2>4. CASE dispatch.by # None /\ threads' = [f EXCEPT ![dispatch.by].stage = "end"]
    <3>1. dispatch.by \in Runs /\ Known(dispatch.by)
      BY <2>4, <1>0 DEF DispatchChooses
    <3>2. /\ threads' \in [Runs -> Calls]
          /\ \A x \in Runs : x # dispatch.by => threads'[x] = f[x]
      BY <2>2, <2>4, <3>1, <1>0 DEF Calls
    <3> QED BY <2>1, <2>2, <3>1, <3>2 DEF Good
  <2> QED BY <1>6, <2>3, <2>4 DEF Launch, f
<1>7. ASSUME Restart PROVE Good
  <2>1. [stage |-> "none", settles |-> FALSE] \in Calls
    BY <1>0 DEF Calls
  <2> QED BY <2>1, <1>7 DEF Restart, Good
<1>8. ASSUME NEW m \in Messages, PostLaunches(m) PROVE Good
  <2>1. requests[m].run \in Runs /\ Known(requests[m].run)
    BY <1>0, <1>8 DEF PostLaunches, PostChooses, Posting, TypeOK, Posts
  <2> QED BY <2>1, <1>3, <1>8 DEF PostLaunches
<1>9. ASSUME NEW r \in Runs, \/ Activate(r) \/ \E s \in RunStatuses : RunEnds(r, s)
                             \/ Settle(r) \/ TakeLock(r) \/ TaskEnds(r)
      PROVE  Good
  <2>1. /\ threads[r].stage # "none"
        /\ \E s \in {"none", "running", "settle", "dispatch", "waits", "end"} : SetStage(r, s)
    BY <1>9 DEF Activate, RunEnds, Settle, TakeLock, TaskEnds
  <2> QED BY <2>1, <1>0, <1>2
<1>10. ASSUME NEW r \in Runs, ResumeRun(r) \/ Continue(r) PROVE Good
  <2>1. Known(r) /\ (UNCHANGED threads \/ threads' = Queued(r, TRUE) \/ threads' = Queued(r, FALSE))
    BY <1>10 DEF ResumeRun, Continue, Known, KnownNext
  <2> QED BY <2>1, <1>1, <1>3
<1>11. Good
  BY <1>1, <1>5, <1>6, <1>7, <1>8, <1>9, <1>10, ThreadsWriters
<1> QED BY <1>11 DEF Good

(* What the dispatch is after it returned. *)
LEMMA IdleTyped ==
  /\ Idle \in Dispatches /\ [Idle EXCEPT !.stage = "look"] \in Dispatches
  /\ Idle.stage = "idle" /\ Idle.by = None /\ Idle.run = None /\ Idle.message = None
  /\ NotSteered \in Guidance /\ NotSteered.run = None
BY DEF Idle, Dispatches, DispatchStages, NotSteered, Guidance

LEMMA DispatchTyped ==
  ASSUME ConversationInv, [Next]_vars
  PROVE  dispatch' \in Dispatches
<1>0. /\ TypeOK /\ dispatch \in Dispatches /\ queue \in Queues
      /\ DispatchStages = {"idle", "look", "handle", "close", "pick", "claim", "submit", "launch"}
  BY DEF ConversationInv, TypeOK, DispatchStages
<1>1. ASSUME Return PROVE dispatch' \in Dispatches
  BY <1>1, IdleTyped DEF Return
<1>2. ASSUME NEW s \in DispatchStages, NEW m \in Messages \cup {None},
             NEW r \in Runs \cup {None}, NEW l \in BOOLEAN,
             dispatch' \in {[dispatch EXCEPT !.stage = s], [dispatch EXCEPT !.stage = s, !.by = r],
                            [dispatch EXCEPT !.stage = s, !.message = m, !.lost = l],
                            [dispatch EXCEPT !.stage = s, !.message = m, !.run = r]}
      PROVE  dispatch' \in Dispatches
  BY <1>0, <1>2 DEF Dispatches
<1>3. CASE Poll \/ Look \/ Submit \/ ClaimNext \/ (\E m \in Messages : PostWakes(m))
  <2>1. Return \/ \E s \in DispatchStages : dispatch' = [dispatch EXCEPT !.stage = s]
    BY <1>0, <1>3 DEF Poll, Look, Submit, ClaimNext, PostWakes
  <2> QED BY <2>1, <1>1, <1>2
<1>4. CASE Handle
  <2>1. InStatus(queue, "running") # <<>> => Head(InStatus(queue, "running")) \in Messages
    BY <1>0, FirstInStatus
  <2>2. \/ Return \/ dispatch' = [dispatch EXCEPT !.stage = "pick"]
        \/ \E l \in BOOLEAN : /\ InStatus(queue, "running") # <<>>
                              /\ dispatch' = [dispatch EXCEPT !.stage = "close",
                                    !.message = Head(InStatus(queue, "running")), !.lost = l]
    BY <1>4 DEF Handle
  <2> QED BY <2>1, <2>2, <1>0, <1>1, <1>2
<1>5. CASE Close
  <2>1. dispatch' = [dispatch EXCEPT !.stage = "pick", !.message = None, !.lost = FALSE]
    BY <1>5 DEF Close
  <2> QED BY <2>1, <1>0, <1>2
<1>6. CASE Pick
  <2>1. InStatus(queue, "pending") # <<>> => Head(InStatus(queue, "pending")) \in Messages
    BY <1>0, FirstInStatus
  <2>2. \/ Return
        \/ \E r \in Runs : /\ InStatus(queue, "pending") # <<>>
                           /\ dispatch' = [dispatch EXCEPT !.stage = "claim",
                                 !.message = Head(InStatus(queue, "pending")), !.run = r]
    BY <1>6 DEF Pick, Unused
  <2> QED BY <2>1, <2>2, <1>0, <1>1, <1>2
<1>7. CASE Launch \/ Restart
  BY <1>7, IdleTyped DEF Launch, Restart
<1>8. ASSUME NEW r \in Runs, TakeLock(r) PROVE dispatch' \in Dispatches
  BY <1>0, <1>2, <1>8 DEF TakeLock
<1>9. CASE UNCHANGED dispatch
  BY <1>0, <1>9
<1> QED BY <1>3, <1>4, <1>5, <1>6, <1>7, <1>8, <1>9, DispatchWriters

LEMMA RequestsTyped ==
  ASSUME ConversationInv, [Next]_vars
  PROVE  requests' \in [Messages -> Posts]
<1>0. /\ TypeOK /\ requests \in [Messages -> Posts]
      /\ RequestStages = {"none", "look", "enqueue", "wake", "submit", "launch", "done"}
  BY DEF ConversationInv, TypeOK, RequestStages
<1>1. ASSUME NEW m \in Messages, NEW s \in RequestStages, NEW r \in Runs \cup {None},
             NEW b \in BOOLEAN,
             requests' \in {[requests EXCEPT ![m].stage = s],
                            [requests EXCEPT ![m].stage = s, ![m].run = r],
                            [requests EXCEPT ![m].stage = s, ![m].idle = b]}
      PROVE  requests' \in [Messages -> Posts]
  BY <1>0, <1>1 DEF Posts
<1>2. ASSUME NEW m \in Messages, \/ Post(m) \/ PostEnqueues(m) \/ PostWakes(m)
                                 \/ PostRefused(m) \/ PostSubmits(m) \/ PostLaunches(m)
      PROVE  requests' \in [Messages -> Posts]
  <2>1. \E s \in RequestStages : requests' = [requests EXCEPT ![m].stage = s]
                                 \/ requests' = [requests EXCEPT ![m].stage = s, ![m].run = None]
    BY <1>0, <1>2 DEF Post, PostEnqueues, PostWakes, PostRefused, PostSubmits, PostLaunches
  <2> QED BY <2>1, <1>0 DEF Posts
<1>3. ASSUME NEW m \in Messages, PostLooks(m) PROVE requests' \in [Messages -> Posts]
  <2>1. \/ \E b \in BOOLEAN : requests' = [requests EXCEPT ![m].stage = "enqueue", ![m].idle = b]
        \/ \E r \in Runs : requests' = [requests EXCEPT ![m].stage = "submit", ![m].run = r]
    BY <1>3 DEF PostLooks, Unused, Blocks
  <2> QED BY <2>1, <1>0, <1>1
<1>4. CASE Restart
  <2>1. \A m \in Messages : [requests[m] EXCEPT !.run = None, !.stage =
                               IF @ = "none" THEN "none" ELSE "done"] \in Posts
    BY <1>0 DEF Posts
  <2> QED BY <1>4, <2>1 DEF Restart
<1> QED BY <1>0, <1>2, <1>3, <1>4, RequestsWriters

LEMMA OthersTyped ==
  ASSUME ConversationInv, [Next]_vars
  PROVE  /\ steered' \in [Messages -> Guidance]
         /\ restarts' \in 0 .. MaxRestarts /\ continues' \in 0 .. MaxContinues
<1>0. /\ TypeOK /\ steered \in [Messages -> Guidance] /\ convo \in Seq(Runs) /\ convo # <<>>
      /\ restarts \in 0 .. MaxRestarts /\ continues \in 0 .. MaxContinues
  BY DEF ConversationInv, TypeOK
<1>1. Parent \in Runs
  <2>1. Len(convo) \in 1 .. Len(convo)
    BY <1>0, EmptySeq, LenProperties
  <2> QED BY <2>1, <1>0 DEF Parent, Last
<1>2. ASSUME NEW m \in Messages, GuideMessage(m) \/ Steer(m)
      PROVE  steered' \in [Messages -> Guidance]
  <2>1. steered' = [steered EXCEPT ![m].run = Parent] \/ steered' = [steered EXCEPT ![m].done = TRUE]
    BY <1>2 DEF GuideMessage, Steer
  <2> QED BY <2>1, <1>0, <1>1 DEF Guidance
<1>3. ASSUME Restart PROVE steered' \in [Messages -> Guidance]
  <2>1. \A m \in Messages : steered[m] \in Guidance /\ NotSteered \in Guidance
    BY <1>0, IdleTyped
  <2>2. steered' = [m \in Messages |-> IF steered[m].done THEN steered[m] ELSE NotSteered]
    BY <1>3 DEF Restart
  <2> QED BY <2>1, <2>2
<1>4. restarts' \in 0 .. MaxRestarts
  <2>1. restarts' = restarts \/ (restarts < MaxRestarts /\ restarts' = restarts + 1)
    BY OtherWriters DEF Restart
  <2> QED BY <2>1, <1>0, ConversationConstants
<1>5. continues' \in 0 .. MaxContinues
  <2>1. continues' = continues \/ (continues < MaxContinues /\ continues' = continues + 1)
    BY OtherWriters DEF ResumeRun, Continue
  <2> QED BY <2>1, <1>0, ConversationConstants
<1>6. steered' \in [Messages -> Guidance]
  BY <1>0, <1>2, <1>3, OtherWriters
<1> QED BY <1>4, <1>5, <1>6

LEMMA TypesMove ==
  ASSUME ConversationInv, [Next]_vars
  PROVE  TypeOK' /\ convo' # <<>>
BY QueueTyped, RunsTyped, ConvoTyped, ThreadsTyped, DispatchTyped, RequestsTyped, OthersTyped
   DEF TypeOK

-----------------------------------------------------------------------------
(* What a step does to a run, a message and its POST *)

KeptRun(r) ==
  /\ KnownNext(r) <=> Known(r)
  /\ runs'[r].message = runs[r].message /\ runs'[r].item = runs[r].item

(* A run is recorded for a message. *)
Records(r, m, item) ==
  /\ r \in Runs /\ ~Known(r) /\ KnownNext(r)
  /\ runs'[r].message = m /\ runs'[r].item = item
  /\ \A x \in Runs : x # r => KeptRun(x)

LEMMA RecordedRun ==
  ASSUME runs \in [Runs -> RunRecords], NEW r \in Runs, NEW m, NEW i, ~Known(r),
         runs' = [runs EXCEPT ![r] = Recorded(r, m, i)]
  PROVE  Records(r, m, i)
<1>1. runs[r] \in RunRecords
  OBVIOUS
<1>2. /\ Recorded(r, m, i).status = "active"
      /\ Recorded(r, m, i).message = m /\ Recorded(r, m, i).item = i
  BY <1>1 DEF Recorded, RunRecords
<1>3. runs'[r] = Recorded(r, m, i) /\ \A x \in Runs : x # r => runs'[x] = runs[x]
  OBVIOUS
<1> QED BY <1>2, <1>3 DEF Records, KeptRun, Known, KnownNext

LEMMA RunsMove ==
  ASSUME ConversationInv, [Next]_vars
  PROVE  \/ \A r \in Runs : KeptRun(r)
         \/ Submit /\ Records(dispatch.run, dispatch.message, dispatch.message)
         \/ \E m \in Messages : PostSubmits(m) /\ Records(requests[m].run, m, None)
<1>0. /\ TypeOK /\ DispatchChooses /\ PostChooses /\ UnknownIsBlank
      /\ runs \in [Runs -> RunRecords]
      /\ \A r \in Runs : runs[r].control # "absent"
  BY DEF ConversationInv, TypeOK, RunRecords, Controls
<1>1. CASE Submit
  <2>1. /\ dispatch.run \in Runs /\ ~Known(dispatch.run)
        /\ runs' = [runs EXCEPT ![dispatch.run] =
                       Recorded(dispatch.run, dispatch.message, dispatch.message)]
    BY <1>0, <1>1 DEF Submit, DispatchChooses, Choosing, TypeOK, Dispatches
  <2> QED BY <2>1, <1>0, <1>1, RecordedRun
<1>2. ASSUME NEW m \in Messages, PostSubmits(m)
      PROVE  Records(requests[m].run, m, None)
  <2>1. /\ requests[m].run \in Runs /\ ~Known(requests[m].run)
        /\ runs' = [runs EXCEPT ![requests[m].run] = Recorded(requests[m].run, m, None)]
    BY <1>0, <1>2 DEF PostSubmits, PostChooses, Posting, TypeOK, Posts
  <2> QED BY <2>1, <1>0, RecordedRun
<1>3. CASE Restart
  <2>1. \A r \in Runs : runs'[r] = IF runs[r].status = "active"
                                   THEN [runs[r] EXCEPT !.status = "interrupted"] ELSE runs[r]
    BY <1>3 DEF Restart
  <2> QED BY <2>1, <1>0 DEF KeptRun, Known, KnownNext, RunRecords
<1>4. ASSUME NEW r \in Runs, NEW s \in RunStatuses,
             Activate(r) \/ RunEnds(r, s) \/ Stop(r, s) \/ ResumeRun(r)
      PROVE  \A x \in Runs : KeptRun(x)
  <2>1. /\ \A x \in Runs : x # r => runs'[x] = runs[x]
        /\ runs'[r].message = runs[r].message /\ runs'[r].item = runs[r].item
    BY <1>0, <1>4 DEF Activate, RunEnds, Stop, ResumeRun, SetStatus, RunRecords
  <2>2. CASE Stop(r, s) \/ ResumeRun(r)
    BY <2>1, <2>2, <1>0 DEF Stop, ResumeRun, KeptRun, Known, KnownNext, RunRecords
  <2>3. CASE Activate(r) \/ RunEnds(r, s)
    <3>1. threads[r].stage # "none"
      BY <2>3 DEF Activate, RunEnds
    <3>2. Known(r)
      BY <3>1, <1>0 DEF UnknownIsBlank
    <3>3. runs'[r].status # "absent"
      BY <2>3, <3>2, <1>0 DEF Activate, RunEnds, SetStatus, RunRecords, Known, KnownNext
    <3> QED BY <2>1, <3>2, <3>3 DEF KeptRun, Known, KnownNext
  <2> QED BY <1>4, <2>2, <2>3
<1>5. CASE UNCHANGED <<runs, convo>>
  BY <1>5 DEF KeptRun, Known, KnownNext
<1>6. {"paused", "cancelled"} \subseteq RunStatuses /\ "paused" \in RunStatuses
  BY DEF RunStatuses
<1> QED BY <1>1, <1>2, <1>3, <1>4, <1>5, <1>6, RunsWriters

(* So what is known stays so, with its message. *)
LEMMA KnownStays ==
  ASSUME ConversationInv, [Next]_vars, NEW r \in Runs, Known(r)
  PROVE  KnownNext(r) /\ runs'[r].message = runs[r].message /\ runs'[r].item = runs[r].item
BY RunsMove DEF Records, KeptRun

LEMMA UnknownIsBlankStep ==
  ASSUME ConversationInv, [Next]_vars
  PROVE  UnknownIsBlank'
<1> SUFFICES ASSUME NEW r \in Runs, ~KnownNext(r)
             PROVE  runs'[r].message = None /\ runs'[r].item = None /\ threads'[r].stage = "none"
  BY DEF UnknownIsBlank, Known, KnownNext
<1>1. ~Known(r) /\ KeptRun(r)
  <2>1. ASSUME NEW x, NEW m, NEW i, Records(x, m, i) PROVE KeptRun(r)
    <3>1. CASE r = x
      BY <2>1, <3>1 DEF Records, Known, KnownNext
    <3>2. CASE r # x
      BY <2>1, <3>2 DEF Records
    <3> QED BY <3>1, <3>2
  <2>2. KeptRun(r)
    BY <2>1, RunsMove
  <2> QED BY <2>2 DEF KeptRun, Known, KnownNext
<1>2. runs[r].message = None /\ runs[r].item = None /\ threads[r].stage = "none"
  BY <1>1 DEF ConversationInv, UnknownIsBlank
<1>3. threads'[r].stage = "none"
  BY <1>1, <1>2, ThreadsTyped
<1> QED BY <1>1, <1>2, <1>3 DEF KeptRun

(* An item is given a status and a run. *)
Becomes(m, s, r) ==
  /\ m \in Messages /\ queue'.items[m] = [status |-> s, run |-> r]
  /\ \A n \in Messages : n # m => queue'.items[n] = queue.items[n]

LEMMA ItemsMove ==
  ASSUME ConversationInv, [Next]_vars
  PROVE  \/ \A n \in Messages : queue'.items[n] = queue.items[n]
         \/ \E m \in Messages : PostEnqueues(m) /\ Becomes(m, "pending", None)
         \/ Close /\ dispatch.lost /\ Becomes(dispatch.message, "pending", None)
         \/ /\ Close /\ ~dispatch.lost
            /\ Becomes(dispatch.message, "completed", ItemRun(dispatch.message))
         \/ \E m \in Messages : /\ Pick /\ StatusOf(queue, m) = "pending"
                                /\ Becomes(m, "failed", ItemRun(m))
         \/ /\ ClaimNext /\ Claimable(queue, dispatch.message)
            /\ Becomes(dispatch.message, "running", dispatch.run)
         \/ \E r \in Runs, s \in {"failed", "completed"} :
              Settle(r) /\ Becomes(runs[r].item, s, ItemRun(runs[r].item))
         \/ \E m \in Messages, s \in {"guided", "cancelled"} :
              /\ IF s = "guided" THEN GuideMessage(m) ELSE CancelMessage(m)
              /\ Becomes(m, s, None)
<1>0. /\ queue \in Queues /\ TypeOK /\ DispatchChooses
      /\ \A m \in Messages : ItemRun(m) \in Runs \cup {None}
      /\ {"pending", "running", "completed", "failed", "guided", "cancelled"} \subseteq ItemStatuses
  BY DEF ConversationInv, TypeOK, Queues, Items, ItemRun, RunNext, ItemStatuses
<1> DEFINE Same == \A n \in Messages : queue'.items[n] = queue.items[n]
<1>1. ASSUME NEW m \in Messages, NEW s \in ItemStatuses, NEW r \in Runs \cup {None},
             queue' = SetItem(queue, m, s, r)
      PROVE  Becomes(m, s, r)
  BY <1>0, <1>1, ItemIsSet DEF Becomes
<1>2. ASSUME Close
      PROVE  IF dispatch.lost THEN Becomes(dispatch.message, "pending", None)
             ELSE Becomes(dispatch.message, "completed", ItemRun(dispatch.message))
  <2>1. dispatch.message \in Messages
    BY <1>0, <1>2 DEF Close, DispatchChooses
  <2> QED BY <2>1, <1>0, <1>1, <1>2 DEF Close, Release, Complete, ItemRun, RunNext
<1>3. ASSUME Pick
      PROVE  Same \/ \E m \in Messages : StatusOf(queue, m) = "pending" /\ Becomes(m, "failed", ItemRun(m))
  <2>1. CASE UNCHANGED queue
    BY <2>1
  <2>2. CASE /\ InStatus(queue, "pending") # <<>>
             /\ queue' = Complete(queue, Head(InStatus(queue, "pending")), "failed")
    <3>1. PICK m \in Messages : m = Head(InStatus(queue, "pending")) /\ StatusOf(queue, m) = "pending"
      BY <2>2, <1>0, FirstInStatus
    <3>2. Becomes(m, "failed", ItemRun(m))
      BY <3>1, <2>2, <1>0, <1>1 DEF Complete, ItemRun, RunNext
    <3> QED BY <3>1, <3>2
  <2> QED BY <1>3, <2>1, <2>2 DEF Pick
<1>4. ASSUME ClaimNext
      PROVE  Same \/ (/\ Claimable(queue, dispatch.message)
                     /\ Becomes(dispatch.message, "running", dispatch.run))
  <2>1. dispatch.message \in Messages /\ dispatch.run \in Runs \cup {None}
    BY <1>0, <1>4 DEF ClaimNext, DispatchChooses, Choosing, TypeOK, Dispatches
  <2>2. CASE UNCHANGED queue
    BY <2>2
  <2>3. CASE /\ Claimable(queue, dispatch.message)
             /\ queue' = SetItem(queue, dispatch.message, "running", dispatch.run)
    <3>1. "running" \in ItemStatuses
      BY <1>0
    <3> QED BY <2>1, <2>3, <3>1, <1>1
  <2> QED BY <1>4, <2>2, <2>3 DEF ClaimNext, Claim
<1>5. ASSUME NEW m \in Messages, PostEnqueues(m) PROVE Becomes(m, "pending", None)
  <2> DEFINE q == SetItem(queue, m, "pending", None)
  <2>1. /\ q \in Queues /\ q.items[m] = [status |-> "pending", run |-> None]
        /\ \A n \in Messages : n # m => q.items[n] = queue.items[n]
    BY <1>0, ItemIsSet
  <2> HIDE DEF q
  <2>2. queue'.items = q.items
    <3>1. queue' = [q EXCEPT !.order = Append(@, m)]
      BY <1>5 DEF PostEnqueues, Enqueue, q
    <3> QED BY <3>1, <2>1 DEF Queues
  <2> QED BY <2>1, <2>2 DEF Becomes
<1>6. ASSUME NEW m \in Messages, GuideMessage(m) PROVE Becomes(m, "guided", None)
  BY <1>0, <1>1, <1>6 DEF GuideMessage, Guide
<1>7. ASSUME NEW m \in Messages, CancelMessage(m) PROVE Becomes(m, "cancelled", None)
  BY <1>0, <1>1, <1>7 DEF CancelMessage, Cancel
<1>8. ASSUME NEW r \in Runs, Settle(r)
      PROVE  Same \/ \E s \in {"failed", "completed"} :
                       Becomes(runs[r].item, s, ItemRun(runs[r].item))
  <2>1. runs[r].item \in Messages \cup {None}
    BY <1>0 DEF TypeOK, RunRecords
  <2>2. CASE UNCHANGED queue
    BY <2>2
  <2>3. CASE \E s \in {"failed", "completed"} :
               runs[r].item # None /\ queue' = Complete(queue, runs[r].item, s)
    BY <2>1, <2>3, <1>0, <1>1 DEF Complete, ItemRun, RunNext
  <2>4. UNCHANGED queue \/ \E s \in {"failed", "completed"} :
                             runs[r].item # None /\ queue' = Complete(queue, runs[r].item, s)
    BY <1>8 DEF Settle
  <2> QED BY <2>2, <2>3, <2>4
<1>9. ASSUME NEW ids \in Reorderings(queue), ReorderMessages(ids) PROVE Same
  BY <1>0, <1>9, ReorderedOrder DEF ReorderMessages, ConversationInv, OrderIsSound
<1>10. ASSUME UNCHANGED queue PROVE Same
  BY <1>10
<1> HIDE DEF Same
<1>11. Same => \A n \in Messages : queue'.items[n] = queue.items[n]
  BY DEF Same
<1> QED BY <1>2, <1>3, <1>4, <1>5, <1>6, <1>7, <1>8, <1>9, <1>10, <1>11, QueueWriters

LEMMA ItemRunsMove ==
  ASSUME ConversationInv, [Next]_vars, NEW n \in Messages
  PROVE  \/ RunNext(n) \in {ItemRun(n), None}
         \/ /\ ClaimNext /\ Claimable(queue, dispatch.message)
            /\ n = dispatch.message /\ RunNext(n) = dispatch.run
<1>1. ASSUME NEW m, NEW s, NEW r, Becomes(m, s, r), r \in {ItemRun(m), None}
      PROVE  RunNext(n) \in {ItemRun(n), None}
  BY <1>1 DEF Becomes, ItemRun, RunNext
<1>2. ASSUME NEW s, NEW r, Becomes(dispatch.message, s, r)
      PROVE  IF n = dispatch.message THEN RunNext(n) = r ELSE RunNext(n) = ItemRun(n)
  BY <1>2 DEF Becomes, ItemRun, RunNext
<1>3. (\A x \in Messages : queue'.items[x] = queue.items[x]) => RunNext(n) = ItemRun(n)
  BY DEF ItemRun, RunNext
<1> QED BY <1>1, <1>2, <1>3, ItemsMove

LEMMA RequestsMove ==
  ASSUME ConversationInv, [Next]_vars, NEW m \in Messages
  PROVE  /\ \/ requests'[m] = requests[m]
            \/ /\ requests'[m].run = None
               /\ requests'[m].stage \in {"look", "enqueue"} /\ requests[m].stage \in {"none", "look"}
            \/ requests'[m].run = None /\ requests'[m].stage \in {"none", "wake", "done"}
                 /\ (requests'[m].stage = "none" => requests[m].stage = "none")
            \/ /\ PostLooks(m) /\ requests[m].stage = "look"
               /\ requests'[m].stage = "submit" /\ requests'[m].run \in Unused
               /\ UNCHANGED <<queue, runs, dispatch>>
               /\ \A n \in Messages : n # m => requests'[n] = requests[n]
            \/ /\ PostSubmits(m) /\ requests[m].stage = "submit"
               /\ requests'[m].stage = "launch" /\ requests'[m].run = requests[m].run
<1>0. /\ requests \in [Messages -> Posts] /\ PostChooses
      /\ requests[m].run # None <=> requests[m].stage \in Posting
  BY DEF ConversationInv, TypeOK, PostChooses
<1>1. CASE Restart
  <2>1. requests'[m] = [requests[m] EXCEPT !.run = None,
                          !.stage = IF @ = "none" THEN "none" ELSE "done"]
    BY <1>1 DEF Restart
  <2> QED BY <2>1, <1>0 DEF Posts
<1>2. ASSUME NEW n \in Messages, n # m,
             \/ Post(n) \/ PostLooks(n) \/ PostEnqueues(n) \/ PostWakes(n)
             \/ PostRefused(n) \/ PostSubmits(n) \/ PostLaunches(n)
      PROVE  requests'[m] = requests[m]
  <2>1. \/ \E s, r : \/ requests' = [requests EXCEPT ![n].stage = s]
                     \/ requests' = [requests EXCEPT ![n].stage = s, ![n].run = r]
                     \/ requests' = [requests EXCEPT ![n].stage = s, ![n].idle = r]
    BY <1>2 DEF Post, PostLooks, PostEnqueues, PostWakes, PostRefused, PostSubmits, PostLaunches
  <2> QED BY <2>1, <1>2, <1>0
<1>3. CASE Post(m)
  <2>1. requests[m].stage = "none" /\ requests' = [requests EXCEPT ![m].stage = "look"]
    BY <1>3 DEF Post
  <2> QED BY <2>1, <1>0 DEF Posts, Posting
<1>4. CASE PostLooks(m)
  <2>1. requests[m].stage = "look"
    BY <1>4 DEF PostLooks
  <2>2. CASE \E b : requests' = [requests EXCEPT ![m].stage = "enqueue", ![m].idle = b]
    BY <2>1, <2>2, <1>0 DEF Posts, Posting
  <2>3. CASE \E r \in Unused : requests' = [requests EXCEPT ![m].stage = "submit", ![m].run = r]
    <3>1. PICK r \in Unused : requests' = [requests EXCEPT ![m].stage = "submit", ![m].run = r]
      BY <2>3
    <3>2. requests'[m].stage = "submit" /\ requests'[m].run = r
          /\ \A n \in Messages : n # m => requests'[n] = requests[n]
      BY <3>1, <1>0 DEF Posts
    <3>3. UNCHANGED <<queue, runs, dispatch>>
      BY <1>4 DEF PostLooks
    <3> QED BY <1>4, <2>1, <3>2, <3>3
  <2> QED BY <1>4, <2>2, <2>3 DEF PostLooks
<1>5. CASE PostEnqueues(m)
  <2>1. \E s \in {"wake", "done"} : requests' = [requests EXCEPT ![m].stage = s]
    BY <1>5 DEF PostEnqueues
  <2>2. requests[m].run = None
    BY <1>5, <1>0 DEF PostEnqueues, Posting
  <2> QED BY <2>1, <2>2, <1>0 DEF Posts
<1>6. CASE PostWakes(m)
  <2>1. requests[m].stage = "wake" /\ requests' = [requests EXCEPT ![m].stage = "done"]
    BY <1>6 DEF PostWakes
  <2> QED BY <2>1, <1>0 DEF Posts, Posting
<1>7. CASE PostRefused(m) \/ PostLaunches(m)
  <2>1. requests' = [requests EXCEPT ![m].stage = "done", ![m].run = None]
    BY <1>7 DEF PostRefused, PostLaunches
  <2> QED BY <2>1, <1>0 DEF Posts
<1>8. CASE PostSubmits(m)
  <2>1. requests[m].stage = "submit" /\ requests' = [requests EXCEPT ![m].stage = "launch"]
    BY <1>8 DEF PostSubmits
  <2> QED BY <2>1, <1>0, <1>8 DEF Posts
<1> QED BY <1>1, <1>2, <1>3, <1>4, <1>5, <1>6, <1>7, <1>8, RequestsWriters

LEMMA SteeredMove ==
  ASSUME ConversationInv, [Next]_vars, NEW m \in Messages
  PROVE  steered'[m].run \in {steered[m].run, None} \/ GuideMessage(m)
<1>0. steered \in [Messages -> Guidance]
  BY DEF ConversationInv, TypeOK
<1>1. CASE Restart
  <2>1. steered'[m] \in {steered[m], NotSteered}
    BY <1>1 DEF Restart
  <2> QED BY <2>1, IdleTyped
<1>2. ASSUME NEW n \in Messages, Steer(n) PROVE steered'[m].run = steered[m].run
  <2>1. steered' = [steered EXCEPT ![n].done = TRUE]
    BY <1>2 DEF Steer
  <2> QED BY <2>1, <1>0 DEF Guidance
<1>3. ASSUME NEW n \in Messages, GuideMessage(n), n # m PROVE steered'[m].run = steered[m].run
  <2>1. steered' = [steered EXCEPT ![n].run = Parent]
    BY <1>3 DEF GuideMessage
  <2> QED BY <2>1, <1>0, <1>3
<1> QED BY <1>1, <1>2, <1>3, OtherWriters

(* The dispatch goes back to a stage without a run, closes an item, or     *)
(* goes on with a run.                                                     *)
DispatchRests ==
  /\ dispatch'.stage \in {"idle", "look", "handle", "pick"} /\ dispatch'.run = None
  /\ dispatch'.by # None => dispatch'.by = dispatch.by \/ Known(dispatch'.by)

DispatchGoesOn ==
  dispatch'.run = dispatch.run /\ dispatch'.message = dispatch.message /\ dispatch'.by = dispatch.by

LEMMA DispatchMoves ==
  ASSUME ConversationInv, [Next]_vars
  PROVE  \/ UNCHANGED dispatch \/ DispatchRests
         \/ /\ Handle /\ dispatch'.stage = "close" /\ dispatch'.run = None /\ dispatch'.by = dispatch.by
            /\ dispatch'.message \in Messages /\ StatusOf(queue, dispatch'.message) = "running"
            /\ dispatch'.lost = ~Known(ItemRun(dispatch'.message))
         \/ /\ Pick /\ dispatch'.stage = "claim" /\ dispatch'.by = dispatch.by
            /\ dispatch'.message \in Messages /\ dispatch'.run \in Unused
            /\ UNCHANGED <<queue, runs, requests>>
         \/ /\ ClaimNext /\ dispatch.stage = "claim" /\ dispatch'.stage = "submit" /\ DispatchGoesOn
            /\ Claimable(queue, dispatch.message)
            /\ queue' = SetItem(queue, dispatch.message, "running", dispatch.run)
         \/ Submit /\ dispatch.stage = "submit" /\ dispatch'.stage = "launch" /\ DispatchGoesOn
<1>0. /\ dispatch \in Dispatches /\ TypeOK /\ UnknownIsBlank /\ queue \in Queues
      /\ dispatch.run # None <=> dispatch.stage \in Choosing
  BY DEF ConversationInv, TypeOK, DispatchChooses
<1>1. ASSUME Return PROVE DispatchRests
  BY <1>1, IdleTyped DEF Return, DispatchRests
<1>2. ASSUME NEW s \in {"idle", "look", "handle", "pick"}, dispatch.stage \notin Choosing,
             \/ dispatch' = [dispatch EXCEPT !.stage = s]
             \/ dispatch' = [dispatch EXCEPT !.stage = s, !.message = None, !.lost = FALSE]
      PROVE  DispatchRests
  BY <1>0, <1>2 DEF DispatchRests, Dispatches
<1>3. ASSUME Poll \/ Look \/ (\E m \in Messages : PostWakes(m)) PROVE DispatchRests
  <2>1. dispatch.stage \in {"idle", "look"}
        /\ (Return \/ \E s \in {"idle", "look", "handle", "pick"} : dispatch' = [dispatch EXCEPT !.stage = s])
    BY <1>3 DEF Poll, Look, PostWakes
  <2>2. dispatch.stage \notin Choosing
    BY <2>1 DEF Choosing
  <2> QED BY <2>1, <2>2, <1>1, <1>2
<1>4. ASSUME Close PROVE DispatchRests
  BY <1>2, <1>4 DEF Close, Choosing
<1>5. ASSUME Launch \/ Restart PROVE DispatchRests
  BY <1>5, IdleTyped DEF Launch, Restart, DispatchRests, Idle
<1>6. ASSUME NEW r \in Runs, TakeLock(r) PROVE DispatchRests
  <2>1. /\ dispatch.stage = "idle" /\ threads[r].stage # "none"
        /\ dispatch' = [dispatch EXCEPT !.stage = "look", !.by = r]
    BY <1>6 DEF TakeLock
  <2>2. Known(r)
    BY <2>1, <1>0 DEF UnknownIsBlank
  <2>3. dispatch'.stage = "look" /\ dispatch'.by = r /\ dispatch'.run = dispatch.run
    BY <2>1, <1>0 DEF Dispatches
  <2> QED BY <2>1, <2>2, <2>3, <1>0 DEF DispatchRests, Choosing
<1>7. ASSUME Handle
      PROVE  \/ DispatchRests
             \/ /\ dispatch'.stage = "close" /\ dispatch'.run = None /\ dispatch'.by = dispatch.by
                /\ dispatch'.message \in Messages /\ StatusOf(queue, dispatch'.message) = "running"
                /\ dispatch'.lost = ~Known(ItemRun(dispatch'.message))
  <2> DEFINE m == Head(InStatus(queue, "running"))
  <2>1. dispatch.stage \notin Choosing
    BY <1>7 DEF Handle, Choosing
  <2>2. CASE dispatch' = [dispatch EXCEPT !.stage = "pick"]
    BY <2>1, <2>2, <1>2
  <2>3. CASE /\ InStatus(queue, "running") # <<>>
             /\ dispatch' = [dispatch EXCEPT !.stage = "close", !.message = m,
                                             !.lost = (runs[queue.items[m].run].status = "absent")]
    <3>1. m \in Messages /\ StatusOf(queue, m) = "running"
      BY <2>3, <1>0, FirstInStatus
    <3> HIDE DEF m
    <3>2. /\ dispatch'.stage = "close" /\ dispatch'.message = m /\ dispatch'.run = dispatch.run
          /\ dispatch'.by = dispatch.by
          /\ dispatch'.lost = (runs[queue.items[m].run].status = "absent")
      BY <2>3, <1>0 DEF Dispatches
    <3> QED BY <2>1, <3>1, <3>2, <1>0 DEF Known, KnownNext, ItemRun, RunNext
  <2> QED BY <1>1, <1>7, <2>2, <2>3 DEF Handle
<1>8. ASSUME Pick
      PROVE  \/ DispatchRests
             \/ /\ dispatch'.stage = "claim" /\ dispatch'.by = dispatch.by
                /\ dispatch'.message \in Messages /\ dispatch'.run \in Unused
                /\ UNCHANGED <<queue, runs, requests>>
  <2> DEFINE m == Head(InStatus(queue, "pending"))
  <2>1. CASE \E r \in Unused : /\ InStatus(queue, "pending") # <<>>
                               /\ dispatch' = [dispatch EXCEPT !.stage = "claim",
                                                               !.message = m, !.run = r]
                               /\ UNCHANGED <<queue, runs, requests>>
    <3>1. m \in Messages
      BY <2>1, <1>0, FirstInStatus
    <3> HIDE DEF m
    <3>2. PICK r \in Unused : dispatch' = [dispatch EXCEPT !.stage = "claim", !.message = m, !.run = r]
      BY <2>1
    <3> QED BY <2>1, <3>1, <3>2, <1>0 DEF Dispatches
  <2> QED BY <1>1, <1>8, <2>1 DEF Pick
<1>9. ASSUME ClaimNext
      PROVE  \/ DispatchRests
             \/ /\ dispatch.stage = "claim" /\ dispatch'.stage = "submit" /\ DispatchGoesOn
                /\ Claimable(queue, dispatch.message)
                /\ queue' = SetItem(queue, dispatch.message, "running", dispatch.run)
  <2>1. CASE /\ Claimable(queue, dispatch.message) /\ dispatch.stage = "claim"
             /\ queue' = Claim(queue, dispatch.message, dispatch.run)
             /\ dispatch' = [dispatch EXCEPT !.stage = "submit"]
    BY <2>1, <1>0 DEF DispatchGoesOn, Dispatches, Claim
  <2> QED BY <1>1, <1>9, <2>1 DEF ClaimNext
<1>10. ASSUME Submit
       PROVE  dispatch.stage = "submit" /\ dispatch'.stage = "launch" /\ DispatchGoesOn
  BY <1>0, <1>10 DEF Submit, DispatchGoesOn, Dispatches
<1> HIDE DEF DispatchRests, DispatchGoesOn
<1> QED BY <1>3, <1>4, <1>5, <1>6, <1>7, <1>8, <1>9, <1>10, DispatchWriters

-----------------------------------------------------------------------------
(* The invariant is kept *)

LEMMA UnusedIs ==
  ASSUME NEW r \in Unused
  PROVE  /\ r \in Runs /\ ~Known(r) /\ dispatch.run # r
         /\ \A m \in Messages : requests[m].run # r /\ ItemRun(m) # r
BY DEF Unused, Known, KnownNext, ItemRun, RunNext

(* A run that was not chosen by a POST, or by the dispatch, is not known   *)
(* after the step either.                                                  *)
LEMMA StaysUnknown ==
  ASSUME ConversationInv, [Next]_vars, NEW r \in Runs, ~Known(r),
         ~(Submit /\ r = dispatch.run),
         \A m \in Messages : ~(PostSubmits(m) /\ r = requests[m].run)
  PROVE  ~KnownNext(r)
<1>1. ASSUME NEW x, NEW m, NEW i, Records(x, m, i), r # x PROVE ~KnownNext(r)
  BY <1>1 DEF Records, KeptRun
<1>2. (\A x \in Runs : KeptRun(x)) => ~KnownNext(r)
  BY DEF KeptRun
<1> QED BY <1>1, <1>2, RunsMove

(* The item of a dispatch that submits is not touched.                     *)
LEMMA SubmittedStays ==
  ASSUME ConversationInv, [Next]_vars, dispatch.stage = "submit"
  PROVE  queue'.items[dispatch.message] = queue.items[dispatch.message]
<1> DEFINE d == dispatch.message
<1>0. /\ d \in Messages /\ StatusOf(queue, d) = "running" /\ ItemRun(d) = dispatch.run
      /\ ~Known(dispatch.run) /\ MessagesPlaced
  BY DEF ConversationInv, DispatchChooses, Choosing
<1> HIDE DEF d
<1>1. Placed(d)
  BY <1>0 DEF MessagesPlaced
<1>2. With(d) = {}
  BY <1>0, <1>1 DEF Placed, With
<1>3. ASSUME NEW m, NEW s, NEW r, Becomes(m, s, r), m # d
      PROVE  queue'.items[d] = queue.items[d]
  BY <1>0, <1>3 DEF Becomes
<1>4. ASSUME NEW m \in Messages, PostEnqueues(m) PROVE m # d
  BY <1>0, <1>4 DEF PostEnqueues, MessagesPlaced, Placed, Undecided
<1>5. ASSUME NEW r \in Runs, Settle(r) PROVE runs[r].item # d
  BY <1>1, <1>2 DEF Placed
<1>6. ASSUME NEW m \in Messages, GuideMessage(m) \/ CancelMessage(m) PROVE m # d
  BY <1>0, <1>6 DEF GuideMessage, CancelMessage, Removable
<1>7. ~Close /\ ~Pick /\ ~ClaimNext
  BY DEF Close, Pick, ClaimNext
<1>8. queue'.items[d] = queue.items[d]
  BY <1>0, <1>3, <1>4, <1>5, <1>6, <1>7, ItemsMove
<1> QED BY <1>8 DEF d

LEMMA DispatchChoosesStep ==
  ASSUME ConversationInv, [Next]_vars
  PROVE  DispatchChooses'
<1>0. /\ TypeOK /\ DispatchChooses /\ PostChooses
      /\ dispatch.by \in Runs \cup {None} /\ dispatch.run \in Runs \cup {None}
      /\ dispatch.by # None => Known(dispatch.by)
      /\ dispatch.run # None <=> dispatch.stage \in Choosing
      /\ dispatch.stage \in Choosing \cup {"close"} => dispatch.message \in Messages
  BY DEF ConversationInv, TypeOK, DispatchChooses, Dispatches
<1>a. /\ Choosing = {"claim", "submit", "launch"}
      /\ dispatch'.by \in Runs \cup {None}
  BY DispatchTyped DEF Choosing, Dispatches
<1> DEFINE ByKnown == dispatch'.by # None => KnownNext(dispatch'.by)
<1>1. ASSUME dispatch'.by = dispatch.by \/ Known(dispatch'.by) PROVE ByKnown
  BY <1>0, <1>1, <1>a, KnownStays DEF Known, KnownNext
<1>2. CASE UNCHANGED dispatch
  <2>1. ByKnown
    BY <1>1, <1>2
  <2>2. ~Submit
    BY <1>2, <1>0 DEF Submit, TypeOK, Dispatches
  <2>3. ~ClaimNext
    BY <1>2, <1>0, <1>a, ConversationConstants DEF ClaimNext, Return, Idle, TypeOK, Dispatches
  <2>4. ASSUME dispatch.stage \in {"claim", "submit"} PROVE ~KnownNext(dispatch.run)
    <3>1. dispatch.run \in Runs /\ ~Known(dispatch.run)
      BY <2>4, <1>0, <1>a DEF DispatchChooses
    <3>2. ASSUME NEW m \in Messages, PostSubmits(m) PROVE requests[m].run # dispatch.run
      BY <3>2, <1>0 DEF PostSubmits, PostChooses
    <3> QED BY <2>2, <3>1, <3>2, StaysUnknown
  <2>5. ASSUME NEW m \in Messages, dispatch.run # None, ItemRun(m) # dispatch.run
        PROVE  RunNext(m) # dispatch.run
    BY <2>3, <2>5, ItemRunsMove
  <2>6. ASSUME dispatch.stage = "submit"
        PROVE  /\ StatusOf(queue', dispatch.message) = "running"
               /\ \A m \in Messages : RunNext(m) = dispatch.run <=> m = dispatch.message
    <3>1. /\ StatusOf(queue, dispatch.message) = "running" /\ dispatch.run # None
          /\ \A m \in Messages : ItemRun(m) = dispatch.run <=> m = dispatch.message
      BY <2>6, <1>0, <1>a DEF DispatchChooses
    <3>2. queue'.items[dispatch.message] = queue.items[dispatch.message]
      BY <2>6, SubmittedStays
    <3>3. StatusOf(queue', dispatch.message) = "running"
          /\ RunNext(dispatch.message) = ItemRun(dispatch.message)
      BY <1>2, <3>1, <3>2 DEF StatusOf, ItemRun, RunNext
    <3>4. dispatch.message \in Messages
      BY <2>6, <1>0, <1>a
    <3> QED BY <1>2, <2>5, <3>1, <3>3, <3>4
  <2>7. dispatch.stage = "launch" => KnownNext(dispatch.run)
    BY <1>0, <1>a, KnownStays DEF DispatchChooses
  <2> QED BY <1>0, <1>2, <1>a, <2>1, <2>4, <2>5, <2>6, <2>7 DEF DispatchChooses, Known, KnownNext, ItemRun, RunNext, StatusOf
<1>3. CASE DispatchRests
  BY <1>1, <1>3, <1>a DEF DispatchRests, DispatchChooses, Known, KnownNext
<1>4. CASE /\ Handle /\ dispatch'.stage = "close" /\ dispatch'.run = None
           /\ dispatch'.by = dispatch.by /\ dispatch'.message \in Messages
  BY <1>1, <1>4, <1>a DEF DispatchChooses, Known, KnownNext
<1>5. CASE /\ Pick /\ dispatch'.stage = "claim" /\ dispatch'.by = dispatch.by
           /\ dispatch'.message \in Messages /\ dispatch'.run \in Unused
           /\ UNCHANGED <<queue, runs, requests>>
  <2>1. ByKnown
    BY <1>1, <1>5
  <2>2. /\ dispatch'.run \in Runs /\ dispatch'.run # None /\ ~Known(dispatch'.run)
        /\ \A m \in Messages : ItemRun(m) # dispatch'.run
    BY <1>5, UnusedIs, QueueConstants
  <2>3. ~KnownNext(dispatch'.run) /\ \A m \in Messages : RunNext(m) # dispatch'.run
    BY <1>5, <2>2 DEF Known, KnownNext, ItemRun, RunNext
  <2> QED BY <1>5, <1>a, <2>1, <2>2, <2>3 DEF DispatchChooses, Known, KnownNext, ItemRun, RunNext
<1>6. CASE /\ ClaimNext /\ dispatch.stage = "claim" /\ dispatch'.stage = "submit" /\ DispatchGoesOn
           /\ queue' = SetItem(queue, dispatch.message, "running", dispatch.run)
  <2>1. ByKnown
    BY <1>1, <1>6 DEF DispatchGoesOn
  <2>2. /\ dispatch.message \in Messages /\ dispatch.run \in Runs /\ ~Known(dispatch.run)
        /\ \A m \in Messages : ItemRun(m) # dispatch.run
    BY <1>6, <1>0, <1>a DEF DispatchChooses
  <2>3. /\ queue'.items[dispatch.message] = [status |-> "running", run |-> dispatch.run]
        /\ \A n \in Messages : n # dispatch.message => queue'.items[n] = queue.items[n]
    BY <1>6, <1>0, <2>2, ItemIsSet DEF TypeOK, ItemStatuses
  <2>4. /\ StatusOf(queue', dispatch.message) = "running"
        /\ \A m \in Messages : RunNext(m) = dispatch.run <=> m = dispatch.message
    BY <1>6, <2>2, <2>3 DEF StatusOf, ItemRun, RunNext, DispatchGoesOn
  <2>5. ~KnownNext(dispatch.run)
    BY <1>6, <2>2 DEF ClaimNext, Known, KnownNext
  <2> QED BY <1>6, <1>0, <1>a, <2>1, <2>2, <2>4, <2>5 DEF DispatchChooses, DispatchGoesOn, Known, KnownNext, ItemRun, RunNext, StatusOf
<1>7. CASE Submit /\ dispatch.stage = "submit" /\ dispatch'.stage = "launch" /\ DispatchGoesOn
  <2>1. ByKnown
    BY <1>1, <1>7 DEF DispatchGoesOn
  <2>2. Records(dispatch.run, dispatch.message, dispatch.message)
    <3>1. ASSUME NEW m \in Messages PROVE ~PostSubmits(m)
      BY <1>7, <1>0 DEF PostSubmits, TypeOK, Dispatches
    <3>2. ~ \A r \in Runs : KeptRun(r)
      <4>1. dispatch.run \in Runs /\ ~Known(dispatch.run) /\ runs'[dispatch.run].status = "active"
        BY <1>7, <1>0, <1>a DEF DispatchChooses, Submit, Recorded, TypeOK, RunRecords
      <4> QED BY <4>1 DEF KeptRun, Known, KnownNext
    <3> QED BY <3>1, <3>2, RunsMove
  <2> QED BY <1>7, <1>0, <1>a, <2>1, <2>2 DEF DispatchChooses, DispatchGoesOn, Records, Known, KnownNext
<1> HIDE DEF ByKnown
<1> QED BY <1>2, <1>3, <1>4, <1>5, <1>6, <1>7, DispatchMoves

LEMMA PostChoosesStep ==
  ASSUME ConversationInv, [Next]_vars
  PROVE  PostChooses'
<1> SUFFICES ASSUME NEW m \in Messages
             PROVE  /\ requests'[m].run # None <=> requests'[m].stage \in Posting
                    /\ requests'[m].stage = "submit" =>
                         /\ ~KnownNext(requests'[m].run) /\ dispatch'.run # requests'[m].run
                         /\ \A n \in Messages : /\ RunNext(n) # requests'[m].run
                                                /\ requests'[n].run = requests'[m].run => n = m
                    /\ requests'[m].stage = "launch" => KnownNext(requests'[m].run)
  BY DEF PostChooses, Known, KnownNext, ItemRun, RunNext
<1>0. /\ TypeOK /\ DispatchChooses /\ PostChooses
      /\ requests[m].run \in Runs \cup {None} /\ dispatch.run \in Runs \cup {None}
      /\ requests[m].run # None <=> requests[m].stage \in Posting
      /\ Posting = {"submit", "launch"} /\ Choosing = {"claim", "submit", "launch"}
      /\ dispatch.run # None <=> dispatch.stage \in Choosing
  BY DEF ConversationInv, TypeOK, PostChooses, DispatchChooses, Posts, Dispatches, Posting, Choosing
<1>1. CASE requests'[m].run = None /\ requests'[m].stage \notin Posting
  BY <1>0, <1>1
<1>2. CASE requests'[m] = requests[m] /\ requests[m].stage = "submit"
  <2> DEFINE r == requests[m].run
  <2>1. /\ r \in Runs /\ r # None /\ ~Known(r) /\ dispatch.run # r
        /\ \A n \in Messages : ItemRun(n) # r /\ (requests[n].run = r => n = m)
    BY <1>0, <1>2, QueueConstants DEF PostChooses
  <2> HIDE DEF r
  <2>2. ~KnownNext(r)
    <3>1. ~PostSubmits(m)
      BY <1>2, <1>0 DEF PostSubmits, TypeOK, Posts
    <3>2. ASSUME NEW n \in Messages, PostSubmits(n) PROVE r # requests[n].run
      BY <2>1, <3>1, <3>2
    <3>3. Submit => r # dispatch.run
      BY <2>1
    <3> QED BY <2>1, <3>2, <3>3, StaysUnknown
  <2>3. dispatch'.run # r
    <3>1. \A x \in Unused : x # r
      BY <1>2, UnusedIs DEF r
    <3> QED BY <2>1, <3>1, DispatchMoves DEF DispatchRests, DispatchGoesOn
  <2>4. ASSUME NEW n \in Messages PROVE RunNext(n) # r
    BY <2>1, ItemRunsMove
  <2>5. ASSUME NEW n \in Messages, requests'[n].run = r PROVE n = m
    <3>1. CASE n # m /\ PostLooks(n)
      <4>1. \A x \in Unused : x # r
        BY <1>2, UnusedIs DEF r
      <4> QED BY <2>1, <2>5, <3>1, <4>1, RequestsMove
    <3>2. CASE ~PostLooks(n)
      BY <2>1, <2>5, <3>2, RequestsMove
    <3> QED BY <3>1, <3>2
  <2> QED BY <1>0, <1>2, <2>1, <2>2, <2>3, <2>4, <2>5 DEF r
<1>3. CASE requests'[m] = requests[m] /\ requests[m].stage = "launch"
  <2>1. requests[m].run \in Runs /\ Known(requests[m].run)
    BY <1>0, <1>3 DEF PostChooses
  <2>2. KnownNext(requests[m].run)
    BY <2>1, KnownStays
  <2> QED BY <1>0, <1>3, <2>1, <2>2 DEF Known, KnownNext
<1>4. CASE /\ PostLooks(m) /\ requests'[m].stage = "submit" /\ requests'[m].run \in Unused
           /\ UNCHANGED <<queue, runs, dispatch>>
           /\ \A n \in Messages : n # m => requests'[n] = requests[n]
  <2> DEFINE r == requests'[m].run
  <2>1. /\ r \in Runs /\ ~Known(r) /\ dispatch.run # r
        /\ \A n \in Messages : requests[n].run # r /\ ItemRun(n) # r
    BY <1>4, UnusedIs
  <2>2. r # None
    BY <2>1, QueueConstants
  <2>3. ~KnownNext(r) /\ \A n \in Messages : RunNext(n) # r
    BY <2>1, <1>4 DEF Known, KnownNext, ItemRun, RunNext
  <2>4. \A n \in Messages : requests'[n].run = r => n = m
    BY <2>1, <1>4
  <2> HIDE DEF r
  <2>5. dispatch'.run # r /\ requests'[m].stage = "submit"
    BY <1>4, <2>1
  <2> QED BY <2>2, <2>3, <2>4, <2>5, <1>0 DEF r
<1>5. CASE PostSubmits(m) /\ requests[m].stage = "submit"
           /\ requests'[m].stage = "launch" /\ requests'[m].run = requests[m].run
  <2>1. requests[m].run \in Runs /\ ~Known(requests[m].run)
    BY <1>0, <1>5 DEF PostChooses
  <2>2. runs'[requests[m].run].status = "active"
    BY <1>5, <2>1, <1>0 DEF PostSubmits, Recorded, TypeOK, RunRecords
  <2> QED BY <1>0, <1>5, <2>1, <2>2 DEF Known, KnownNext
<1>6. CASE requests'[m] = requests[m] /\ requests[m].stage \notin Posting
  BY <1>0, <1>6
<1>7. requests[m].stage \in Posting => requests[m].stage = "submit" \/ requests[m].stage = "launch"
  BY <1>0
<1>8. \A s : s \in {"look", "enqueue", "none", "wake", "done"} => s \notin Posting
  BY <1>0
<1> QED BY <1>1, <1>2, <1>3, <1>4, <1>5, <1>6, <1>7, <1>8, RequestsMove
(* The runs of a message after a step.                                     *)
WithNext(m) == {r \in Runs : KnownNext(r) /\ runs'[r].message = m}

LEMMA WithMoves ==
  ASSUME ConversationInv, [Next]_vars, NEW m \in Messages
  PROVE  \/ /\ WithNext(m) = With(m)
            /\ \A r \in Runs : runs'[r].item = m => runs[r].item = m
            /\ StatusOf(queue, m) = "running" /\ KnownNext(ItemRun(m)) => Known(ItemRun(m))
         \/ /\ Submit /\ m = dispatch.message /\ ItemRun(m) = dispatch.run
            /\ StatusOf(queue, m) = "running"
            /\ WithNext(m) = {dispatch.run}
            /\ \A r \in Runs : runs'[r].item = m => r = dispatch.run
         \/ /\ PostSubmits(m) /\ StatusOf(queue, m) = "absent" /\ requests'[m].stage = "launch"
            /\ WithNext(m) = {requests[m].run}
            /\ \A r \in Runs : runs'[r].item # m
<1>0. /\ DispatchChooses /\ PostChooses /\ Placed(m) /\ None \notin Messages
      /\ requests \in [Messages -> Posts]
      /\ Choosing = {"claim", "submit", "launch"} /\ Posting = {"submit", "launch"}
  BY QueueConstants DEF ConversationInv, MessagesPlaced, Choosing, Posting, TypeOK
<1>1. StatusOf(queue, m) = "running" => ItemRun(m) \in Runs
  BY <1>0 DEF Placed
<1>2. ASSUME NEW x, NEW n, NEW i, Records(x, n, i), n # m, i # m,
             StatusOf(queue, m) = "running" => ItemRun(m) # x
      PROVE  /\ WithNext(m) = With(m)
             /\ \A r \in Runs : runs'[r].item = m => runs[r].item = m
             /\ StatusOf(queue, m) = "running" /\ KnownNext(ItemRun(m)) => Known(ItemRun(m))
  BY <1>1, <1>2 DEF Records, KeptRun, With, WithNext
<1>3. ASSUME NEW x, NEW i, Records(x, m, i), With(m) = {}
      PROVE  WithNext(m) = {x}
  BY <1>3 DEF Records, KeptRun, With, WithNext
<1>4. ASSUME NEW x, NEW i, Records(x, m, i), With(m) = {}
      PROVE  \A r \in Runs : runs'[r].item = m => r = x /\ i = m
  <2>1. \A r \in Runs : runs[r].item # m
    BY <1>0, <1>4 DEF Placed
  <2> QED BY <1>4, <2>1 DEF Records, KeptRun
<1>5. CASE \A r \in Runs : KeptRun(r)
  BY <1>1, <1>5 DEF KeptRun, With, WithNext
<1>6. CASE Submit /\ Records(dispatch.run, dispatch.message, dispatch.message)
  <2>1. /\ StatusOf(queue, dispatch.message) = "running" /\ ~Known(dispatch.run)
        /\ \A n \in Messages : ItemRun(n) = dispatch.run <=> n = dispatch.message
    BY <1>0, <1>6 DEF Submit, DispatchChooses
  <2>2. CASE m # dispatch.message
    BY <1>2, <1>6, <2>1, <2>2
  <2>3. CASE m = dispatch.message
    <3>1. ItemRun(m) = dispatch.run /\ StatusOf(queue, m) = "running"
      BY <2>1, <2>3
    <3>2. With(m) = {}
      BY <1>0, <2>1, <3>1 DEF Placed, With
    <3>3. WithNext(m) = {dispatch.run} /\ \A r \in Runs : runs'[r].item = m => r = dispatch.run
      BY <1>3, <1>4, <1>6, <2>3, <3>2
    <3> QED BY <1>6, <2>3, <3>1, <3>3
  <2> QED BY <2>2, <2>3
<1>7. ASSUME NEW n \in Messages, PostSubmits(n), Records(requests[n].run, n, None), n # m
      PROVE  /\ WithNext(m) = With(m)
             /\ \A r \in Runs : runs'[r].item = m => runs[r].item = m
             /\ StatusOf(queue, m) = "running" /\ KnownNext(ItemRun(m)) => Known(ItemRun(m))
  <2>1. ItemRun(m) # requests[n].run
    BY <1>0, <1>7 DEF PostSubmits, PostChooses
  <2> QED BY <1>0, <1>2, <1>7, <2>1
<1>8. ASSUME PostSubmits(m), Records(requests[m].run, m, None)
      PROVE  /\ StatusOf(queue, m) = "absent" /\ requests'[m].stage = "launch"
             /\ WithNext(m) = {requests[m].run}
             /\ \A r \in Runs : runs'[r].item # m
  <2>1. StatusOf(queue, m) = "absent" /\ With(m) = {}
    BY <1>0, <1>8 DEF PostSubmits, Placed, Undecided
  <2>2. requests'[m].stage = "launch"
    BY <1>0, <1>8 DEF PostSubmits, Posts
  <2> QED BY <1>0, <1>3, <1>4, <1>8, <2>1, <2>2
<1> QED BY <1>5, <1>6, <1>7, <1>8, RunsMove

(* What a step does to one item; it then leaves the records alone.         *)
ItemMoved(m) ==
  \/ queue'.items[m] = queue.items[m]
  \/ /\ UNCHANGED runs
     /\ \/ /\ PostEnqueues(m) /\ StatusOf(queue, m) = "absent" /\ With(m) = {}
           /\ queue'.items[m] = [status |-> "pending", run |-> None]
        \/ /\ Close /\ dispatch.lost /\ m = dispatch.message
           /\ queue'.items[m] = [status |-> "pending", run |-> None]
        \/ /\ Close /\ ~dispatch.lost /\ m = dispatch.message
           /\ queue'.items[m] = [status |-> "completed", run |-> ItemRun(m)]
        \/ /\ Pick /\ StatusOf(queue, m) = "pending"
           /\ queue'.items[m] = [status |-> "failed", run |-> ItemRun(m)]
        \/ /\ ClaimNext /\ StatusOf(queue, m) = "pending" /\ m = dispatch.message
           /\ Claimable(queue, m)
           /\ queue'.items[m] = [status |-> "running", run |-> dispatch.run]
        \/ \E r \in Runs, s \in {"failed", "completed"} :
             /\ Settle(r) /\ runs[r].item = m
             /\ queue'.items[m] = [status |-> s, run |-> ItemRun(m)]
        \/ \E s \in {"guided", "cancelled"} :
             /\ StatusOf(queue, m) = "pending"
             /\ (GuideMessage(m) => s = "guided")
             /\ queue'.items[m] = [status |-> s, run |-> None]

LEMMA ItemMoves ==
  ASSUME ConversationInv, [Next]_vars, NEW m \in Messages
  PROVE  ItemMoved(m)
<1>0. queue \in Queues /\ Placed(m)
  BY DEF ConversationInv, TypeOK, MessagesPlaced
<1>1. ASSUME NEW n, NEW s, NEW r, Becomes(n, s, r)
      PROVE  queue'.items[m] = IF m = n THEN [status |-> s, run |-> r] ELSE queue.items[m]
  BY <1>1 DEF Becomes
<1>2. ASSUME PostEnqueues(m) PROVE StatusOf(queue, m) = "absent" /\ With(m) = {} /\ UNCHANGED runs
  BY <1>0, <1>2 DEF PostEnqueues, Placed, Undecided
<1>3. /\ Close \/ Pick \/ ClaimNext => UNCHANGED runs
      /\ \A r \in Runs : Settle(r) => UNCHANGED runs
  BY DEF Close, Pick, ClaimNext, Settle
<1>4. ASSUME Claimable(queue, m) PROVE StatusOf(queue, m) = "pending"
  BY <1>0, <1>4, FirstInStatus DEF Claimable
<1>5. ASSUME GuideMessage(m) \/ CancelMessage(m) PROVE StatusOf(queue, m) = "pending" /\ UNCHANGED runs
  BY <1>5 DEF GuideMessage, CancelMessage, Removable
<1>6. ASSUME GuideMessage(m), CancelMessage(m) PROVE FALSE
  <2>1. /\ SetItem(queue, m, "guided", None).items[m] = [status |-> "guided", run |-> None]
        /\ SetItem(queue, m, "cancelled", None).items[m] = [status |-> "cancelled", run |-> None]
    BY <1>0, ItemIsSet DEF ItemStatuses
  <2>2. queue' = SetItem(queue, m, "guided", None) /\ queue' = SetItem(queue, m, "cancelled", None)
    BY <1>6 DEF GuideMessage, CancelMessage, Guide, Cancel
  <2> QED BY <2>1, <2>2
<1>7. queue'.items[m] = queue.items[m] => ItemMoved(m)
  BY DEF ItemMoved
<1>8. ASSUME NEW n \in Messages, PostEnqueues(n), Becomes(n, "pending", None) PROVE ItemMoved(m)
  BY <1>1, <1>2, <1>7, <1>8 DEF ItemMoved
<1>9. ASSUME Close, dispatch.lost, Becomes(dispatch.message, "pending", None) PROVE ItemMoved(m)
  BY <1>1, <1>3, <1>7, <1>9 DEF ItemMoved
<1>10. ASSUME Close, ~dispatch.lost, Becomes(dispatch.message, "completed", ItemRun(dispatch.message))
       PROVE  ItemMoved(m)
  <2>1. ASSUME m # dispatch.message PROVE queue'.items[m] = queue.items[m]
    BY <1>10, <2>1 DEF Becomes
  <2>2. ASSUME m = dispatch.message PROVE queue'.items[m] = [status |-> "completed", run |-> ItemRun(m)]
    BY <1>10, <2>2 DEF Becomes
  <2> QED BY <1>3, <1>7, <1>10, <2>1, <2>2 DEF ItemMoved
<1>11. ASSUME NEW n \in Messages, Pick, StatusOf(queue, n) = "pending", Becomes(n, "failed", ItemRun(n))
       PROVE  ItemMoved(m)
  <2>1. ASSUME m # n PROVE queue'.items[m] = queue.items[m]
    BY <1>11, <2>1 DEF Becomes
  <2>2. ASSUME m = n PROVE queue'.items[m] = [status |-> "failed", run |-> ItemRun(m)]
    BY <1>11, <2>2 DEF Becomes
  <2> QED BY <1>3, <1>7, <1>11, <2>1, <2>2 DEF ItemMoved
<1>12. ASSUME ClaimNext, Claimable(queue, dispatch.message),
              Becomes(dispatch.message, "running", dispatch.run)
       PROVE  ItemMoved(m)
  BY <1>1, <1>3, <1>4, <1>7, <1>12 DEF ItemMoved
<1>13. ASSUME NEW r \in Runs, NEW s \in {"failed", "completed"}, Settle(r),
              Becomes(runs[r].item, s, ItemRun(runs[r].item))
       PROVE  ItemMoved(m)
  <2>1. ASSUME m # runs[r].item PROVE queue'.items[m] = queue.items[m]
    BY <1>13, <2>1 DEF Becomes
  <2>2. ASSUME m = runs[r].item PROVE queue'.items[m] = [status |-> s, run |-> ItemRun(m)]
    BY <1>13, <2>2 DEF Becomes
  <2> QED BY <1>3, <1>7, <1>13, <2>1, <2>2 DEF ItemMoved
<1>14. ASSUME NEW n \in Messages, NEW s \in {"guided", "cancelled"},
              IF s = "guided" THEN GuideMessage(n) ELSE CancelMessage(n), Becomes(n, s, None)
       PROVE  ItemMoved(m)
  BY <1>1, <1>5, <1>6, <1>7, <1>14 DEF ItemMoved
<1> QED BY <1>7, <1>8, <1>9, <1>10, <1>11, <1>12, <1>13, <1>14, ItemsMove
(* A POST decides once.                                                    *)
LEMMA PostDecides ==
  ASSUME ConversationInv, [Next]_vars, NEW m \in Messages
  PROVE  /\ requests'[m].stage \in Undecided => requests[m].stage \in Undecided
         /\ requests'[m].stage \in Undecided \cup Posting =>
              requests[m].stage \in Undecided \cup Posting
         /\ PostEnqueues(m) => requests'[m].stage \notin Undecided \cup Posting
<1>0. /\ Undecided = {"none", "look", "enqueue", "submit"} /\ Posting = {"submit", "launch"}
      /\ requests \in [Messages -> Posts]
  BY DEF Undecided, Posting, ConversationInv, TypeOK
<1>1. ASSUME PostEnqueues(m) PROVE requests'[m].stage \in {"wake", "done"}
  <2>1. \E s \in {"wake", "done"} : requests' = [requests EXCEPT ![m].stage = s]
    BY <1>1 DEF PostEnqueues
  <2> QED BY <2>1, <1>0 DEF Posts
<1> QED BY <1>0, <1>1, RequestsMove

LEMMA MessagesPlacedStep ==
  ASSUME ConversationInv, [Next]_vars
  PROVE  MessagesPlaced'
<1> SUFFICES ASSUME NEW m \in Messages PROVE Placed(m)'
  BY DEF MessagesPlaced
<1>0. /\ Placed(m) /\ CloseIsRight /\ DispatchChooses /\ queue \in Queues
      /\ queue.items[m] = [status |-> StatusOf(queue, m), run |-> ItemRun(m)]
  BY DEF ConversationInv, MessagesPlaced, TypeOK, Queues, Items, StatusOf, ItemRun
<1>1. With(m)' = WithNext(m)
  BY DEF With, WithNext, Known, KnownNext
<1> DEFINE undecided == requests'[m].stage \in Undecided
           open == requests'[m].stage \in Undecided \cup Posting
<1>2. /\ undecided => StatusOf(queue, m) = "absent" /\ With(m) = {} /\ ~PostEnqueues(m)
      /\ open => StatusOf(queue, m) = "absent" /\ ~PostEnqueues(m)
  BY <1>0, PostDecides DEF Placed
<1>3. steered'[m].run # None => steered[m].run # None \/ GuideMessage(m)
  BY SteeredMove
<1>a. ASSUME GuideMessage(m)
      PROVE  /\ StatusOf(queue, m) = "pending" /\ UNCHANGED runs
             /\ queue'.items[m] = [status |-> "guided", run |-> None]
  <2>1. queue' = SetItem(queue, m, "guided", None)
    BY <1>a DEF GuideMessage, Guide
  <2>2. queue'.items[m] = [status |-> "guided", run |-> None]
    BY <2>1, <1>0, ItemIsSet DEF ItemStatuses
  <2> QED BY <2>2, <1>a DEF GuideMessage, Removable
<1>b. ASSUME UNCHANGED runs
      PROVE  /\ WithNext(m) = With(m) /\ \A r \in Runs : runs'[r].item = m <=> runs[r].item = m
             /\ \A r \in Runs : KnownNext(r) <=> Known(r)
  BY <1>b DEF With, WithNext, Known, KnownNext
<1> DEFINE Becoming(s, r) == queue'.items[m] = [status |-> s, run |-> r]
<1>4. ASSUME NEW s \in {"pending", "guided", "cancelled"}, Becoming(s, None), UNCHANGED runs,
             With(m) = {}, StatusOf(queue, m) # "absent" \/ PostEnqueues(m),
             GuideMessage(m) => s = "guided", steered[m].run = None
      PROVE  Placed(m)'
  BY <1>0, <1>1, <1>2, <1>3, <1>4, <1>b DEF Placed, StatusOf, ItemRun, Undecided, Posting
<1>5. ASSUME NEW s \in {"completed", "failed"}, Becoming(s, ItemRun(m)), UNCHANGED runs,
             s = "completed" => With(m) # {}, StatusOf(queue, m) \notin {"absent", "guided"}
      PROVE  Placed(m)'
  BY <1>0, <1>1, <1>2, <1>3, <1>5, <1>a, <1>b DEF Placed, StatusOf, ItemRun, Undecided, Posting
<1>6. ASSUME ClaimNext, m = dispatch.message, Becoming("running", dispatch.run), UNCHANGED runs,
             StatusOf(queue, m) = "pending"
      PROVE  Placed(m)'
  <2>1. dispatch.run \in Runs /\ ~Known(dispatch.run)
    BY <1>0, <1>6 DEF ClaimNext, DispatchChooses, Choosing, ConversationInv, TypeOK, Dispatches
  <2>2. ~KnownNext(dispatch.run)
    BY <2>1, <1>6, <1>b
  <2> QED BY <1>0, <1>1, <1>2, <1>3, <1>6, <1>a, <1>b, <2>1, <2>2
          DEF Placed, StatusOf, ItemRun, Known, KnownNext, Undecided, Posting
<1>7. CASE queue'.items[m] = queue.items[m]
  <2>1. StatusOf(queue', m) = StatusOf(queue, m) /\ RunNext(m) = ItemRun(m)
        /\ (StatusOf(queue, m) \in ItemStatuses) /\ ~GuideMessage(m)
    BY <1>7, <1>0, <1>a DEF StatusOf, ItemRun, RunNext, Queues, Items
  <2>2. CASE /\ WithNext(m) = With(m)
             /\ \A r \in Runs : runs'[r].item = m => runs[r].item = m
             /\ StatusOf(queue, m) = "running" /\ KnownNext(ItemRun(m)) => Known(ItemRun(m))
    BY <1>0, <1>1, <1>2, <1>3, <2>1, <2>2 DEF Placed, KnownNext, Known, RunNext, ItemRun
  <2>3. CASE /\ m = dispatch.message /\ ItemRun(m) = dispatch.run
             /\ StatusOf(queue, m) = "running"
             /\ WithNext(m) = {dispatch.run}
             /\ \A r \in Runs : runs'[r].item = m => r = dispatch.run
    BY <1>0, <1>1, <1>2, <1>3, <2>1, <2>3 DEF Placed, RunNext, ItemRun
  <2>4. CASE /\ StatusOf(queue, m) = "absent" /\ requests'[m].stage = "launch"
             /\ WithNext(m) = {requests[m].run}
             /\ \A r \in Runs : runs'[r].item # m
    BY <1>0, <1>1, <1>2, <1>3, <2>1, <2>4 DEF Placed, RunNext, ItemRun, Undecided
  <2> QED BY <2>2, <2>3, <2>4, WithMoves
<1>8. ASSUME Close, dispatch.lost, m = dispatch.message, Becoming("pending", None), UNCHANGED runs
      PROVE  Placed(m)'
  <2>1. StatusOf(queue, m) = "running" /\ ~Known(ItemRun(m))
    BY <1>0, <1>8 DEF Close, CloseIsRight
  <2>2. With(m) = {}
    BY <1>0, <2>1 DEF Placed, With
  <2> QED BY <1>0, <1>4, <1>8, <1>a, <2>1, <2>2 DEF Placed
<1>9. ASSUME Close, ~dispatch.lost, m = dispatch.message, Becoming("completed", ItemRun(m)),
             UNCHANGED runs
      PROVE  Placed(m)'
  BY <1>0, <1>5, <1>9 DEF Close, CloseIsRight
<1>10. ASSUME NEW r \in Runs, NEW s \in {"failed", "completed"}, runs[r].item = m,
              Becoming(s, ItemRun(m)), UNCHANGED runs
       PROVE  Placed(m)'
  BY <1>0, <1>5, <1>10 DEF Placed
<1>11. ASSUME StatusOf(queue, m) = "pending" PROVE With(m) = {} /\ steered[m].run = None
  BY <1>0, <1>11 DEF Placed
<1>12. ASSUME PostEnqueues(m), StatusOf(queue, m) = "absent" PROVE steered[m].run = None /\ ~GuideMessage(m)
  BY <1>0, <1>12, <1>a DEF Placed
<1> HIDE DEF Becoming, undecided, open
<1>13. ASSUME NEW s, NEW r, queue'.items[m] = [status |-> s, run |-> r] PROVE Becoming(s, r)
  BY <1>13 DEF Becoming
<1>14. ItemMoved(m)
  BY ItemMoves
<1> QED BY <1>4, <1>5, <1>6, <1>7, <1>8, <1>9, <1>10, <1>11, <1>12, <1>13, <1>14 DEF ItemMoved
LEMMA CloseIsRightStep ==
  ASSUME ConversationInv, [Next]_vars
  PROVE  CloseIsRight'
<1>0. /\ CloseIsRight /\ DispatchChooses /\ MessagesPlaced
      /\ \A m \in Messages : Placed(m) /\ With(m)' = WithNext(m)
  BY DEF ConversationInv, MessagesPlaced, With, WithNext, Known, KnownNext
<1>1. ASSUME Handle, NEW m \in Messages, dispatch'.message = m, StatusOf(queue, m) = "running",
             dispatch'.lost = ~Known(ItemRun(m))
      PROVE  CloseIsRight'
  <2>1. UNCHANGED <<queue, runs>>
    BY <1>1 DEF Handle
  <2>2. With(m)' = With(m) /\ StatusOf(queue', m) = "running"
        /\ KnownNext(RunNext(m)) = Known(ItemRun(m))
    BY <2>1, <1>1 DEF With, Known, KnownNext, ItemRun, RunNext
  <2>3. Known(ItemRun(m)) => With(m) # {}
    BY <1>0, <1>1 DEF Placed
  <2> QED BY <1>1, <2>2, <2>3 DEF CloseIsRight, Known, KnownNext, ItemRun, RunNext
<1>2. ASSUME UNCHANGED dispatch, dispatch.stage = "close" PROVE CloseIsRight'
  <2> DEFINE m == dispatch.message
  <2>1. m \in Messages
    BY <1>0, <1>2 DEF DispatchChooses
  <2>2. /\ StatusOf(queue, m) \in {"running", "completed", "failed"}
        /\ IF dispatch.lost THEN StatusOf(queue, m) = "running" /\ ~Known(ItemRun(m))
                            ELSE With(m) # {}
    BY <1>0, <1>2 DEF CloseIsRight
  <2>3. ~Close /\ ~Submit /\ ~ClaimNext /\ ~Pick
    BY <1>2 DEF Close, Submit, ClaimNext, Pick, ConversationInv, TypeOK, Dispatches
  <2> HIDE DEF m
  <2>4. dispatch.lost => With(m) = {}
    BY <1>0, <2>1, <2>2 DEF Placed, With
  <2>5. ASSUME NEW r \in Runs, runs[r].item = m PROVE With(m) # {}
    BY <1>0, <2>1, <2>5 DEF Placed
  <2>6. ItemMoved(m)
    BY <2>1, ItemMoves
  <2>7. With(m) # {} => WithNext(m) # {}
    BY <2>1, WithMoves
  <2>8. CASE queue'.items[m] = queue.items[m]
    <3>1. StatusOf(queue', m) = StatusOf(queue, m) /\ RunNext(m) = ItemRun(m)
      BY <2>8 DEF StatusOf, RunNext, ItemRun
    <3>2. dispatch.lost => ~KnownNext(ItemRun(m))
      BY <2>1, <2>2, <2>3, WithMoves
    <3> QED BY <1>0, <1>2, <2>1, <2>2, <2>7, <3>1, <3>2
            DEF CloseIsRight, m, Known, KnownNext, ItemRun, RunNext
  <2>9. ASSUME NEW s \in {"failed", "completed"}, NEW r \in Runs, runs[r].item = m,
               queue'.items[m] = [status |-> s, run |-> ItemRun(m)]
        PROVE  CloseIsRight'
    <3>1. StatusOf(queue', m) = s /\ ~dispatch.lost /\ With(m) # {}
      BY <2>4, <2>5, <2>9 DEF StatusOf
    <3> QED BY <1>0, <1>2, <2>1, <2>7, <3>1 DEF CloseIsRight, m
  <2> QED BY <2>2, <2>3, <2>6, <2>8, <2>9 DEF ItemMoved
<1>3. dispatch'.stage # "close" => CloseIsRight'
  BY DEF CloseIsRight
<1> QED BY <1>1, <1>2, <1>3, DispatchMoves DEF DispatchRests

(* What a step does to the order of the queue.                             *)
LEMMA OrderMoves ==
  ASSUME ConversationInv, [Next]_vars
  PROVE  \/ queue'.order = queue.order
         \/ \E m \in Messages : /\ StatusOf(queue, m) = "absent"
                                /\ StatusOf(queue', m) = "pending"
                                /\ queue'.order = Append(queue.order, m)
         \/ \E ids \in Reorderings(queue) : queue' = Reorder(queue, ids)
<1>0. /\ queue \in Queues /\ DispatchChooses /\ MessagesPlaced
      /\ \A m \in Messages : ItemRun(m) \in Runs \cup {None}
      /\ {"pending", "running", "completed", "failed", "guided", "cancelled"} \subseteq ItemStatuses
  BY DEF ConversationInv, TypeOK, Queues, Items, ItemRun, ItemStatuses
<1>1. ASSUME NEW m \in Messages, NEW s \in ItemStatuses, NEW r \in Runs \cup {None},
             queue' = SetItem(queue, m, s, r)
      PROVE  queue'.order = queue.order
  <2>1. SetItem(queue, m, s, r).order = queue.order
    BY <1>0 DEF SetItem, Queues
  <2> QED BY <1>1, <2>1
<1>2. ASSUME Close PROVE queue'.order = queue.order
  <2>1. dispatch.message \in Messages
    BY <1>0, <1>2 DEF Close, DispatchChooses
  <2> QED BY <2>1, <1>0, <1>1, <1>2 DEF Close, Release, Complete, ItemRun
<1>3. ASSUME Pick PROVE queue'.order = queue.order
  <2>1. CASE /\ InStatus(queue, "pending") # <<>>
             /\ queue' = Complete(queue, Head(InStatus(queue, "pending")), "failed")
    <3>1. Head(InStatus(queue, "pending")) \in Messages
      BY <2>1, <1>0, FirstInStatus
    <3> QED BY <2>1, <3>1, <1>0, <1>1 DEF Complete, ItemRun
  <2> QED BY <1>3, <2>1 DEF Pick
<1>4. ASSUME ClaimNext PROVE queue'.order = queue.order
  <2>1. dispatch.message \in Messages /\ dispatch.run \in Runs \cup {None}
    BY <1>0, <1>4 DEF ClaimNext, DispatchChooses, Choosing, ConversationInv, TypeOK, Dispatches
  <2>2. UNCHANGED queue \/ queue' = SetItem(queue, dispatch.message, "running", dispatch.run)
    BY <1>4 DEF ClaimNext, Claim
  <2> QED BY <1>0, <1>1, <2>1, <2>2
<1>5. ASSUME NEW m \in Messages, PostEnqueues(m)
      PROVE  /\ StatusOf(queue, m) = "absent" /\ StatusOf(queue', m) = "pending"
             /\ queue'.order = Append(queue.order, m)
  <2>1. StatusOf(queue, m) = "absent"
    BY <1>0, <1>5 DEF PostEnqueues, MessagesPlaced, Placed, Undecided
  <2> DEFINE q == SetItem(queue, m, "pending", None)
  <2>2. q \in Queues /\ q.order = queue.order /\ q.items[m] = [status |-> "pending", run |-> None]
    BY <1>0, ItemIsSet
  <2> HIDE DEF q
  <2>3. queue' = [q EXCEPT !.order = Append(@, m)]
    BY <1>5 DEF PostEnqueues, Enqueue, q
  <2>4. queue'.order = Append(queue.order, m) /\ StatusOf(queue', m) = "pending"
    BY <2>2, <2>3 DEF Queues, StatusOf
  <2> QED BY <2>1, <2>4
<1>6. ASSUME NEW m \in Messages, GuideMessage(m) \/ CancelMessage(m)
      PROVE  queue'.order = queue.order
  <2>1. \E s \in {"guided", "cancelled"} : queue' = SetItem(queue, m, s, None)
    BY <1>6 DEF GuideMessage, CancelMessage, Guide, Cancel
  <2> QED BY <2>1, <1>0, <1>1
<1>7. ASSUME NEW r \in Runs, Settle(r) PROVE queue'.order = queue.order
  <2>1. \/ UNCHANGED queue
        \/ \E s \in {"failed", "completed"} :
             runs[r].item # None /\ queue' = Complete(queue, runs[r].item, s)
    BY <1>7 DEF Settle
  <2>2. runs[r].item \in Messages \cup {None}
    BY DEF ConversationInv, TypeOK, RunRecords
  <2> QED BY <2>1, <2>2, <1>0, <1>1 DEF Complete, ItemRun
<1>8. ASSUME NEW ids \in Reorderings(queue), ReorderMessages(ids)
      PROVE  queue' = Reorder(queue, ids)
  BY <1>8 DEF ReorderMessages
<1> QED BY <1>2, <1>3, <1>4, <1>5, <1>6, <1>7, <1>8, QueueWriters

LEMMA OrderIsSoundStep ==
  ASSUME ConversationInv, [Next]_vars
  PROVE  OrderIsSound'
<1>0. /\ queue \in Queues /\ OrderIsSound /\ queue'.order \in Seq(Messages)
      /\ queue.order \in Seq(Messages)
  BY QueueTyped DEF ConversationInv, TypeOK, Queues
<1>1. DOMAIN queue.order = 1 .. Len(queue.order) /\ Len(queue.order) \in Nat
  BY <1>0, LenProperties
<1>2. ASSUME NEW m \in Messages, StatusOf(queue, m) # "absent" PROVE StatusOf(queue', m) # "absent"
  <2>1. CASE queue'.items[m] = queue.items[m]
    BY <1>2, <2>1 DEF StatusOf
  <2>2. ASSUME NEW s, NEW r, s # "absent", queue'.items[m] = [status |-> s, run |-> r]
        PROVE  StatusOf(queue', m) # "absent"
    BY <2>2 DEF StatusOf
  <2>3. ItemMoved(m)
    BY ItemMoves
  <2> QED BY <2>1, <2>2, <2>3 DEF ItemMoved
<1>3. CASE queue'.order = queue.order
  BY <1>0, <1>2, <1>3 DEF OrderIsSound
<1>4. ASSUME NEW m \in Messages, StatusOf(queue, m) = "absent",
             queue'.order = Append(queue.order, m), StatusOf(queue', m) # "absent"
      PROVE  OrderIsSound'
  <2>1. /\ DOMAIN queue'.order = 1 .. Len(queue.order) + 1
        /\ queue'.order[Len(queue.order) + 1] = m
        /\ \A i \in 1 .. Len(queue.order) : queue'.order[i] = queue.order[i]
    BY <1>0, <1>1, <1>4, AppendProperties
  <2>2. \A i \in 1 .. Len(queue.order) : queue.order[i] \in Messages /\ queue.order[i] # m
    BY <1>0, <1>1, <1>4 DEF OrderIsSound
  <2>3. \A i \in DOMAIN queue'.order : i \in DOMAIN queue.order \/ i = Len(queue.order) + 1
    BY <1>1, <2>1
  <2> QED BY <1>0, <1>1, <1>2, <1>4, <2>1, <2>2, <2>3 DEF OrderIsSound
<1>5. ASSUME NEW ids \in Reorderings(queue), queue' = Reorder(queue, ids) PROVE OrderIsSound'
  <2> DEFINE t == Reorder(queue, ids).order
  <2>1. /\ Reorder(queue, ids).items = queue.items
        /\ \A i, k \in DOMAIN t : t[i] = t[k] => i = k
        /\ \A k \in DOMAIN t : \E i \in DOMAIN queue.order : t[k] = queue.order[i]
    BY <1>0, <1>5, ReorderedOrder DEF OrderIsSound
  <2>2. queue'.order = t /\ queue'.items = queue.items
    BY <1>5, <2>1
  <2> HIDE DEF t
  <2> QED BY <1>0, <2>1, <2>2 DEF OrderIsSound, StatusOf
<1> QED BY <1>3, <1>4, <1>5, OrderMoves
LEMMA ClaimedIsNextStep ==
  ASSUME ConversationInv, [Next]_vars
  PROVE  ClaimedIsNext'
<1>0. /\ queue \in Queues /\ OrderIsSound /\ DispatchChooses /\ ClaimedIsNext
      /\ queue.order \in Seq(Messages) /\ queue'.order \in Seq(Messages)
  BY QueueTyped DEF ConversationInv, TypeOK, Queues
<1>1. /\ DOMAIN queue.order = 1 .. Len(queue.order) /\ Len(queue.order) \in Nat
      /\ DOMAIN queue'.order = 1 .. Len(queue'.order)
      /\ \A i \in DOMAIN queue.order : queue.order[i] \in Messages
  BY <1>0, LenProperties, ElementOfSeq
<1>2. ASSUME UNCHANGED dispatch, dispatch.stage = "submit" PROVE ClaimedIsNext'
  <2> DEFINE d == dispatch.message
             o == queue.order
             Done(n) == StatusOf(queue, n) \notin {"pending", "running"}
             DoneNext(n) == StatusOf(queue', n) \notin {"pending", "running"}
  <2>1. /\ d \in Messages /\ StatusOf(queue, d) = "running"
        /\ \A i, k \in DOMAIN o : i < k /\ o[k] = d => Done(o[i])
    BY <1>0, <1>2 DEF DispatchChooses, Choosing, ClaimedIsNext
  <2>2. ASSUME NEW n \in Messages, Done(n), StatusOf(queue, n) # "absent" PROVE DoneNext(n)
    <3>1. CASE queue'.items[n] = queue.items[n]
      BY <2>2, <3>1 DEF StatusOf
    <3>2. ASSUME NEW s \in {"completed", "failed", "guided", "cancelled"}, NEW r,
                 queue'.items[n] = [status |-> s, run |-> r]
          PROVE  DoneNext(n)
      BY <3>2 DEF StatusOf
    <3>3. ~Close /\ ~ClaimNext
      BY <1>2 DEF Close, ClaimNext
    <3>4. ItemMoved(n)
      BY ItemMoves
    <3> QED BY <2>2, <3>1, <3>2, <3>3, <3>4 DEF ItemMoved
  <2>3. \A i \in DOMAIN o : o[i] \in Messages /\ StatusOf(queue, o[i]) # "absent"
    BY <1>0, <1>1 DEF OrderIsSound
  <2>4. SUFFICES ASSUME NEW i \in DOMAIN queue'.order, NEW k \in DOMAIN queue'.order,
                        i < k, queue'.order[k] = d
                 PROVE  DoneNext(queue'.order[i])
    BY <1>2 DEF ClaimedIsNext
  <2> HIDE DEF d, Done, DoneNext
  <2>5. ASSUME NEW j \in DOMAIN o, NEW l \in DOMAIN o, j < l, o[l] = d PROVE DoneNext(o[j])
    BY <2>1, <2>2, <2>3, <2>5
  <2>6. CASE queue'.order = o
    BY <2>4, <2>5, <2>6
  <2>7. ASSUME NEW m \in Messages, StatusOf(queue, m) = "absent", queue'.order = Append(o, m)
        PROVE  DoneNext(queue'.order[i])
    <3>1. /\ DOMAIN queue'.order = 1 .. Len(o) + 1
          /\ queue'.order[Len(o) + 1] = m
          /\ \A x \in 1 .. Len(o) : queue'.order[x] = o[x]
      BY <1>0, <1>1, <2>7, AppendProperties
    <3>2. m # d
      BY <2>1, <2>7
    <3>3. i \in DOMAIN o /\ k \in DOMAIN o
      BY <1>1, <2>4, <3>1, <3>2
    <3> QED BY <1>1, <2>4, <2>5, <3>1, <3>3
  <2>8. ASSUME NEW ids \in Reorderings(queue), queue' = Reorder(queue, ids)
        PROVE  DoneNext(queue'.order[i])
    <3> DEFINE t == Reorder(queue, ids).order
    <3>1. \A x, y \in DOMAIN t : x < y /\ StatusOf(queue, t[y]) # "pending" =>
             \E j, l \in DOMAIN queue.order : j < l /\ t[x] = queue.order[j] /\ t[y] = queue.order[l]
      BY <1>0, <2>8, ReorderedOrder DEF OrderIsSound
    <3>2. queue'.order = t
      BY <2>8
    <3> HIDE DEF t
    <3>3. StatusOf(queue, t[k]) # "pending" /\ t[k] = d
      BY <2>1, <2>4, <3>2
    <3>4. PICK j, l \in DOMAIN o : j < l /\ t[i] = o[j] /\ t[k] = o[l]
      BY <2>4, <3>1, <3>2, <3>3
    <3> QED BY <2>5, <3>2, <3>3, <3>4
  <2> QED BY <2>6, <2>7, <2>8, OrderMoves
<1>3. ASSUME dispatch.stage = "claim", dispatch'.stage = "submit", DispatchGoesOn,
             Claimable(queue, dispatch.message),
             queue' = SetItem(queue, dispatch.message, "running", dispatch.run)
      PROVE  ClaimedIsNext'
  <2> DEFINE d == dispatch.message
             o == queue.order
  <2>1. d \in Messages /\ dispatch.run \in Runs \cup {None} /\ dispatch'.message = d
    BY <1>0, <1>3 DEF DispatchChooses, Choosing, ConversationInv, TypeOK, Dispatches, DispatchGoesOn
  <2>2. /\ queue'.order = o
        /\ \A n \in Messages : n # d => queue'.items[n] = queue.items[n]
    <3>1. "running" \in ItemStatuses /\ queue \in Queues
      BY <1>0 DEF ItemStatuses
    <3> DEFINE q == SetItem(queue, d, "running", dispatch.run)
               r == dispatch.run
    <3>2. q.order = o /\ \A n \in Messages : n # d => q.items[n] = queue.items[n]
      <4>1. \A m \in Messages, u \in Runs \cup {None} :
               /\ SetItem(queue, m, "running", u).order = queue.order
               /\ \A n \in Messages : n # m =>
                    SetItem(queue, m, "running", u).items[n] = queue.items[n]
        <5>1. ASSUME NEW m \in Messages, NEW u \in Runs \cup {None}
              PROVE  LET c == SetItem(queue, m, "running", u) IN
                     /\ c \in Queues
                     /\ c.order = queue.order
                     /\ c.items[m] = [status |-> "running", run |-> u]
                     /\ \A n \in Messages : n # m => c.items[n] = queue.items[n]
          BY <3>1, ItemIsSet
        <5> QED BY <5>1
      <4>2. d \in Messages /\ r \in Runs \cup {None}
        BY <2>1
      <4> QED BY ONLY <4>1, <4>2
    <3>3. queue' = q
      BY <1>3
    <3> QED BY <3>2, <3>3
  <2>3. /\ InStatus(queue, "running") = <<>> /\ InStatus(queue, "pending") # <<>>
        /\ Head(InStatus(queue, "pending")) = d
    BY <1>3 DEF Claimable
  <2>4. \A i \in DOMAIN o : StatusOf(queue, o[i]) # "running"
    BY <1>0, <2>3, NoneInStatus
  <2>5. PICK p \in DOMAIN o : /\ o[p] = d
                              /\ \A j \in DOMAIN o : j < p => StatusOf(queue, o[j]) # "pending"
    BY <1>0, <2>3, FirstInStatus
  <2> HIDE DEF d
  <2>6. ASSUME NEW i \in DOMAIN o, NEW k \in DOMAIN o, i < k, o[k] = d
        PROVE  StatusOf(queue', o[i]) \notin {"pending", "running"}
    <3>1. k = p
      BY <1>0, <2>5, <2>6 DEF OrderIsSound
    <3>2. o[i] # d
      BY <1>0, <1>1, <2>5, <2>6, <3>1 DEF OrderIsSound
    <3>3. StatusOf(queue, o[i]) \notin {"pending", "running"}
      BY <2>4, <2>5, <2>6, <3>1
    <3> QED BY <1>1, <2>2, <3>2, <3>3 DEF StatusOf
  <2> QED BY <2>1, <2>2, <2>6 DEF ClaimedIsNext
<1>4. dispatch'.stage # "submit" => ClaimedIsNext'
  BY DEF ClaimedIsNext
<1> QED BY <1>2, <1>3, <1>4, DispatchMoves DEF DispatchRests

LEMMA InitHolds ==
  ASSUME Init
  PROVE  ConversationInv
<1>0. None \notin Messages /\ None \notin Runs /\ Root \in Runs
  BY QueueConstants, ConversationConstants
<1>1. TypeOK
  <2>1. queue \in Queues
    BY DEF Init, EmptyQueue, Queues, Items, ItemStatuses
  <2>2. runs \in [Runs -> RunRecords]
    BY DEF Init, RunRecords, RunStatuses, Controls
  <2>3. convo \in Seq(Runs) /\ IsInjective(convo)
    BY <1>0 DEF Init, IsInjective
  <2>4. threads \in [Runs -> Calls]
    BY DEF Init, Calls, ThreadStages
  <2>5. requests \in [Messages -> Posts]
    BY DEF Init, Posts, RequestStages
  <2>6. dispatch \in Dispatches /\ steered \in [Messages -> Guidance]
    BY IdleTyped DEF Init
  <2>7. restarts \in 0 .. MaxRestarts /\ continues \in 0 .. MaxContinues
    BY ConversationConstants DEF Init
  <2> QED BY <2>1, <2>2, <2>3, <2>4, <2>5, <2>6, <2>7 DEF TypeOK
<1>2. convo # <<>>
  BY DEF Init
<1>3. UnknownIsBlank
  BY DEF Init, UnknownIsBlank, Known
<1>4. DispatchChooses
  BY DEF Init, Idle, DispatchChooses, Choosing
<1>5. PostChooses
  BY DEF Init, PostChooses, Posting
<1>6. MessagesPlaced
  <2>1. \A r \in Runs : runs[r].message = None /\ runs[r].item = None
    BY DEF Init
  <2>2. \A m \in Messages : /\ StatusOf(queue, m) = "absent" /\ ItemRun(m) = None
                            /\ steered[m].run = None /\ requests[m].stage = "none"
    BY DEF Init, EmptyQueue, StatusOf, ItemRun, NotSteered
  <2>3. \A m \in Messages : With(m) = {}
    BY <1>0, <2>1 DEF With
  <2> QED BY <1>0, <2>1, <2>2, <2>3 DEF MessagesPlaced, Placed
<1>7. CloseIsRight /\ ClaimedIsNext
  BY DEF Init, Idle, CloseIsRight, ClaimedIsNext
<1>8. OrderIsSound
  BY DEF Init, EmptyQueue, OrderIsSound
<1> QED BY <1>1, <1>2, <1>3, <1>4, <1>5, <1>6, <1>7, <1>8 DEF ConversationInv

(* The invariant of the conversation: where each message is, what the      *)
(* dispatch and the POSTs have chosen, and what the queue's order says.    *)
(* (create_followup, _dispatch_next_queued_message and                     *)
(* _settle_queue_and_dispatch with the queue's transactions.)              *)
THEOREM ConversationInvHolds == Spec => []ConversationInv
<1>1. Init => ConversationInv
  BY InitHolds
<1>2. ConversationInv /\ [Next]_vars => ConversationInv'
  BY TypesMove, UnknownIsBlankStep, DispatchChoosesStep, PostChoosesStep, MessagesPlacedStep,
     CloseIsRightStep, OrderIsSoundStep, ClaimedIsNextStep
     DEF ConversationInv
<1> QED BY <1>1, <1>2, PTL DEF Spec

(* The runs, the queue, the dispatch and the POSTs have their types        *)
(* whatever the interleaving of dispatches, threads and requests is.       *)
THEOREM TypesHold == Spec => []TypeOK
<1>1. ConversationInv => TypeOK
  BY DEF ConversationInv
<1> QED BY <1>1, ConversationInvHolds, PTL

(* No message is executed by two runs, and none both executed and handed   *)
(* to a run as guidance, for any number of messages, runs, restarts.       *)
THEOREM DeliveredOnceHolds == Spec => []DeliveredOnce
<1>1. ConversationInv => DeliveredOnce
  <2> SUFFICES ASSUME ConversationInv, NEW m \in Messages
               PROVE  Cardinality(With(m)) + (IF steered[m].run # None THEN 1 ELSE 0) <= 1
    BY DEF DeliveredOnce, With, Known
  <2>1. Placed(m)
    BY DEF ConversationInv, MessagesPlaced
  <2>2. CASE With(m) = {}
    <3>1. Cardinality(With(m)) = 0
      BY <2>2, FS_EmptySet
    <3> QED BY <2>1, <3>1
  <2>3. CASE With(m) # {}
    <3>1. PICK r : With(m) = {r}
      BY <2>1, <2>3 DEF Placed
    <3>2. Cardinality(With(m)) = 1
      BY <3>1, FS_Singleton
    <3>3. steered[m].run = None
      BY <2>1, <2>3 DEF Placed
    <3> QED BY <2>1, <3>2, <3>3
  <2> QED BY <2>2, <2>3
<1> QED BY <1>1, ConversationInvHolds, PTL

(* An item is completed only for a run that was recorded with its message: *)
(* a dispatch that died before that has its item released.                 *)
THEOREM CompletedHasRunHolds == Spec => []CompletedHasRun
<1>1. ConversationInv => CompletedHasRun
  BY DEF ConversationInv, MessagesPlaced, Placed, CompletedHasRun, With, Known
<1> QED BY <1>1, ConversationInvHolds, PTL

(* A run begins for an item only when what is before it in the queue is    *)
(* dealt with, whatever was reordered, released or cut off meanwhile.      *)
THEOREM StartsInQueueOrderHolds == Spec => StartsInQueueOrder
<1>1. ConversationInv /\ [Next]_vars => BeginsInOrder
  <2> SUFFICES ASSUME ConversationInv, [Next]_vars, NEW r \in Runs,
                      runs[r].item = None, runs'[r].item # None,
                      NEW i \in DOMAIN queue.order, NEW k \in DOMAIN queue.order,
                      i < k, queue.order[k] = runs'[r].item
               PROVE  StatusOf(queue, queue.order[i]) \notin {"pending", "running"}
    BY DEF BeginsInOrder
  <2>1. Submit /\ Records(dispatch.run, dispatch.message, dispatch.message) /\ r = dispatch.run
    BY RunsMove DEF Records, KeptRun
  <2>2. runs'[r].item = dispatch.message /\ dispatch.stage = "submit"
    BY <2>1 DEF Submit, Records
  <2> QED BY <2>2 DEF ConversationInv, ClaimedIsNext
<1>2. ConversationInv /\ [Next]_vars => [BeginsInOrder]_vars
  BY <1>1
<1> QED BY <1>2, ConversationInvHolds, PTL DEF Spec, StartsInQueueOrder
=============================================================================
