----------------------- MODULE ContinuableAgentsProofs -----------------------
(***************************************************************************)
(* Proofs about ContinuableAgents (src/lightworker/continuation.py): its   *)
(* types, the order of a child's turns, an idle child's empty queue and    *)
(* the end of a child's job, for any sets of children and jobs and         *)
(* whatever the bounds, so for any number of stale threads.                *)
(*                                                                         *)
(* And about Subagents (src/lightworker/subagents.py), for any caps: the   *)
(* tree of delegated children and what a call for them reports.            *)
(***************************************************************************)
EXTENDS ContinuableAgents, Subagents, SequenceTheorems, WellFoundedInduction, TLAPS

(* "No job" is not a job. *)
Sensible == Nil \notin JobIds

-----------------------------------------------------------------------------
(* The inductive invariant *)

(* A job that was made belongs to a child, which has had a job since. *)
JobsHaveChildren ==
  \A k \in JobIds : jobs[k].status # "absent" =>
    jobs[k].agent \in Agents /\ agents[jobs[k].agent].job \in JobIds

(* A thread works for a job that was made. *)
ThreadsHaveJobs == \A t \in agentThreads : jobs[t.job].status # "absent"

(* So has every child that was ever sent a message or left its first status. *)
UsedChildHasJob ==
  \A a \in Agents :
    agents[a].messages # <<>> \/ agents[a].status \notin {"absent", "pending"}
    => agents[a].job \in JobIds

(* A child's job was made, and for that child. *)
ChildOwnsJob ==
  \A a \in Agents : agents[a].job # Nil =>
    jobs[agents[a].job].status # "absent" /\ jobs[agents[a].job].agent = a

(* A thread works on a message whose predecessors are all completed: what  *)
(* other threads of the same child have done since cannot change it.       *)
TurnIsFirst ==
  \A t \in agentThreads : t.stage \in {"turn", "report"} =>
    LET messages == agents[ChildOf(t)].messages IN
    /\ t.turn \in DOMAIN messages
    /\ \A i \in DOMAIN messages : i < t.turn => messages[i] = "completed"

(* A thread about to end its job has left its child in another status, or  *)
(* the child has a later job.                                              *)
EndingIsAnnounced ==
  \A t \in agentThreads : t.stage \in {"return", "finish", "fail"} =>
    ~ (agents[ChildOf(t)].status = "running" /\ agents[ChildOf(t)].job = t.job)

AgentsInv ==
  /\ ChildTypeOK /\ JobsHaveChildren /\ ThreadsHaveJobs /\ UsedChildHasJob
  /\ ChildOwnsJob /\ TurnIsFirst /\ EndingIsAnnounced
  /\ FifoTurns /\ IdleMeansDrained /\ EndedJobFreesChild

(* The child that is activated, with or without a new message. *)
Sent(a)    == [agents[a] EXCEPT !.messages = Append(@, "pending")]
Activates(a, k) == Activated(a, agents[a], k) \/ Activated(a, Sent(a), k)

-----------------------------------------------------------------------------
(* Which steps may change which part of the state.  Every step is looked   *)
(* at once here, and the lemmas below only at those that concern them.     *)
LEMMA Writers ==
  ASSUME [ChildNext]_childVars
  PROVE  /\ \/ agents' = agents
            \/ \E a \in Agents : \/ Spawn(a) \/ InterruptAgent(a)
                                 \/ SendMessage(a) /\ agents' = [agents EXCEPT ![a] = Sent(a)]
                                    /\ agents[a].status \in OnlyQueues /\ jobs' = jobs
                                 \/ \E k \in JobIds : Activates(a, k)
            \/ \E t \in agentThreads : Take(t) \/ Report(t) \/ Caught(t) \/ Error(t)
         /\ \/ jobs' = jobs
            \/ \E a \in Agents : InterruptAgent(a)
            \/ \E a \in Agents, k \in JobIds : Activates(a, k)
            \/ \E k \in JobIds : \/ JobResume(k) \/ LeaseLapses(k)
                                 \/ \E s \in {"paused", "cancelled"} : JobControl(k, s)
            \/ Open \/ RecoverJobs \/ CloseSupervisor \/ Crash
            \/ \E t \in agentThreads : Finish(t) \/ Exit(t)
         /\ \/ agentThreads' = agentThreads
            \/ \E a \in Agents, k \in JobIds : Activates(a, k)
            \/ \E k \in JobIds : JobResume(k)
            \/ Crash
            \/ \E t \in agentThreads : AgentThreadStep(t)
         /\ control' = control \/ \E s \in RunControls : SetControl(s)
         /\ \/ supervisor' = supervisor
            \/ Open \/ CloseSupervisor \/ Crash
            \/ \E a \in Agents, k \in JobIds : RecoverChild(a, k)
         /\ \/ toRecover' = toRecover
            \/ Open \/ Crash
            \/ \E a \in Agents, k \in JobIds : RecoverChild(a, k)
<1>1. CASE UNCHANGED childVars
  BY <1>1 DEF childVars
<1>2. CASE \E a \in Agents : Spawn(a) \/ InterruptAgent(a)
  BY <1>2 DEF Spawn, InterruptAgent
<1>3. CASE \E a \in Agents : SendMessage(a)
  <2>1. PICK a \in Agents : SendMessage(a)
    BY <1>3
  <2>2. CASE /\ agents[a].status \in OnlyQueues
             /\ agents' = [agents EXCEPT ![a] = Sent(a)]
             /\ UNCHANGED <<jobs, agentThreads>>
    BY <2>1, <2>2 DEF SendMessage
  <2>3. CASE \E k \in JobIds : Activated(a, Sent(a), k)
    BY <2>1, <2>3 DEF SendMessage, Activates
  <2> QED BY <2>1, <2>2, <2>3 DEF SendMessage, Sent
<1>4. CASE \E a \in Agents : ResumeAgent(a)
  BY <1>4 DEF ResumeAgent, Activates
<1>5. CASE \E k \in JobIds : JobResume(k) \/ \E s \in {"paused", "cancelled"} : JobControl(k, s)
  BY <1>5 DEF JobResume, JobControl
<1>6. CASE Open \/ CloseSupervisor \/ RecoverJobs \/ Crash
  BY <1>6 DEF Open, CloseSupervisor, RecoverJobs, Crash
<1>7. CASE \E a \in Agents, k \in JobIds : RecoverChild(a, k)
  BY <1>7 DEF RecoverChild, Activates
<1>8. CASE \E k \in JobIds : LeaseLapses(k)
  BY <1>8 DEF LeaseLapses
<1>9. CASE \E s \in RunControls : SetControl(s)
  BY <1>9 DEF SetControl
<1>10. CASE \E t \in agentThreads : AgentThreadStep(t)
  BY <1>10 DEF AgentThreadStep, Begin, AtCheckpoint, Take, EndTurn, Report, Caught, Error,
     Finish, Exit
<1> QED BY <1>1, <1>2, <1>3, <1>4, <1>5, <1>6, <1>7, <1>8, <1>9, <1>10 DEF ChildNext, ToolStep

-----------------------------------------------------------------------------
(* Helpers *)

(* A nonempty set of numbers has a least one. *)
LEMMA LeastNat ==
  ASSUME NEW T \in SUBSET Nat, T # {}
  PROVE  \E x \in T : \A y \in T : x <= y
<1> DEFINE R == OpToRel(<, Nat)
<1>1. IsWellFoundedOn(R, Nat)
  BY NatLessThanWellFounded
<1>2. R = {ss \in Nat \X Nat : ss[1] < ss[2]}
  BY DEF OpToRel
<1> HIDE DEF R
<1>3. PICK x \in T : \A y \in T : ~(<<y, x>> \in R)
  BY <1>1, WFMin
<1>4. ASSUME NEW y \in T PROVE x <= y
  <2>1. x \in Nat /\ y \in Nat
    OBVIOUS
  <2>2. <<y, x>> \in Nat \X Nat
    BY <2>1
  <2>3. ~(y < x)
    BY <2>2, <1>2, <1>3
  <2> QED BY <2>1, <2>3
<1> QED BY <1>4

(* A queue with an unfinished message has a next turn, and before that     *)
(* turn everything is completed.                                           *)
LEMMA NextTurnIsFirst ==
  ASSUME ChildTypeOK, NEW a \in Agents
  PROVE  /\ Unfinished(a) # {} => NextTurn(a) # {}
         /\ \A i \in NextTurn(a) :
              /\ i \in DOMAIN agents[a].messages /\ agents[a].messages[i] # "completed"
              /\ \A k \in DOMAIN agents[a].messages :
                   k < i => agents[a].messages[k] = "completed"
<1>1. DOMAIN agents[a].messages \subseteq Nat
  <2>1. agents[a].messages \in Seq(MessageStatuses)
    BY DEF ChildTypeOK, Children
  <2> QED BY <2>1, LenProperties
<1>2. Unfinished(a) \in SUBSET Nat
  BY <1>1 DEF Unfinished
<1>3. ASSUME Unfinished(a) # {} PROVE NextTurn(a) # {}
  BY <1>2, <1>3, LeastNat DEF NextTurn
<1>4. ASSUME NEW i \in NextTurn(a), NEW k \in DOMAIN agents[a].messages, k < i
      PROVE  agents[a].messages[k] = "completed"
  BY <1>1, <1>4 DEF NextTurn, Unfinished
<1> QED BY <1>3, <1>4 DEF NextTurn, Unfinished

(* What a message list is after a message was added or marked. *)
LEMMA SentMessages ==
  ASSUME NEW q \in Seq(MessageStatuses)
  PROVE  /\ Append(q, "pending") \in Seq(MessageStatuses)
         /\ Append(q, "pending") # <<>>
         /\ DOMAIN Append(q, "pending") = 1 .. Len(q) + 1
         /\ DOMAIN q = 1 .. Len(q) /\ Len(q) \in Nat
         /\ \A i \in DOMAIN q : Append(q, "pending")[i] = q[i]
         /\ Append(q, "pending")[Len(q) + 1] = "pending"
<1>1. "pending" \in MessageStatuses
  BY DEF MessageStatuses
<1> QED BY <1>1, AppendProperties, LenProperties

LEMMA MarkedMessages ==
  ASSUME NEW q \in Seq(MessageStatuses), NEW i \in DOMAIN q, NEW s \in MessageStatuses
  PROVE  /\ [q EXCEPT ![i] = s] \in Seq(MessageStatuses)
         /\ [q EXCEPT ![i] = s] # <<>>
         /\ DOMAIN [q EXCEPT ![i] = s] = DOMAIN q
<1>1. /\ [q EXCEPT ![i] = s] \in Seq(MessageStatuses)
      /\ Len([q EXCEPT ![i] = s]) = Len(q)
  BY LenProperties, ExceptSeq
<1>2. DOMAIN q = 1 .. Len(q) /\ Len(q) \in Nat
  BY LenProperties
<1> QED BY <1>1, <1>2

-----------------------------------------------------------------------------
(* What a step does to a child: nothing, a first status, a later one, a    *)
(* message sent or marked, or an activation.                               *)
Kept(a)   == agents'[a] = agents[a]
Born(a)   == /\ agents[a].status = "absent"
             /\ agents'[a] = [agents[a] EXCEPT !.status = "pending"]
Marked(a) == \E s \in AgentStatuses \ {"absent", "pending", "running"} :
               /\ agents'[a] = [agents[a] EXCEPT !.status = s]
               /\ agents[a].job \in JobIds
               /\ s = "idle" => Unfinished(a) = {}
Queued(a) == /\ agents[a].status \in OnlyQueues
             /\ agents'[a] = Sent(a) /\ jobs' = jobs
Stamped(a, i, s) ==
  agents'[a] = [agents[a] EXCEPT !.messages = [agents[a].messages EXCEPT ![i] = s]]
Claimed(a) == \E i \in NextTurn(a) : Stamped(a, i, "claimed")
Reported(a) == \E t \in agentThreads : /\ t.stage = "report" /\ ChildOf(t) = a
                                  /\ Stamped(a, t.turn, "completed")
Started(a, k) == /\ jobs[k].status = "absent"
                 /\ jobs'[k] = [status |-> "running", epoch |-> 1, lease |-> TRUE,
                                agent |-> a]
                 /\ \E c \in {agents[a], Sent(a)} :
                      agents'[a] = [c EXCEPT !.status = "running", !.job = k]

LEMMA ChildrenAreTyped ==
  ASSUME ChildTypeOK, NEW a \in Agents
  PROVE  /\ agents[a] \in Children /\ agents[a].messages \in Seq(MessageStatuses)
         /\ agents[a].status \in AgentStatuses /\ agents[a].job \in JobIds \cup {Nil}
         /\ Sent(a) \in Children
         /\ Sent(a).messages = Append(agents[a].messages, "pending")
         /\ Sent(a).status = agents[a].status /\ Sent(a).job = agents[a].job
<1>1. agents[a] \in Children
  BY DEF ChildTypeOK
<1>2. /\ agents[a].messages \in Seq(MessageStatuses)
      /\ agents[a].status \in AgentStatuses /\ agents[a].job \in JobIds \cup {Nil}
  BY <1>1 DEF Children
<1>3. Append(agents[a].messages, "pending") \in Seq(MessageStatuses)
  BY <1>2, SentMessages
<1>4. Sent(a) = [agents[a] EXCEPT !.messages = Append(agents[a].messages, "pending")]
  BY DEF Sent
<1>5. /\ Sent(a) \in Children
      /\ Sent(a).messages = Append(agents[a].messages, "pending")
      /\ Sent(a).status = agents[a].status /\ Sent(a).job = agents[a].job
  BY <1>1, <1>3, <1>4 DEF Children
<1> QED BY <1>1, <1>2, <1>5

LEMMA MarkedChild ==
  ASSUME NEW c \in Children, NEW s \in AgentStatuses
  PROVE  /\ [c EXCEPT !.status = s] \in Children
         /\ [c EXCEPT !.status = s].status = s
         /\ [c EXCEPT !.status = s].messages = c.messages
         /\ [c EXCEPT !.status = s].job = c.job
BY DEF Children

(* A child's record after each of these. *)
LEMMA NewRecord ==
  ASSUME ChildTypeOK, TurnIsFirst, NEW a \in Agents
  PROVE  /\ Kept(a) => agents'[a] \in Children
         /\ Born(a) \/ Marked(a) => /\ agents'[a] \in Children
                                    /\ agents'[a].messages = agents[a].messages
                                    /\ agents'[a].job = agents[a].job
                                    /\ agents'[a].status # "running"
         /\ Claimed(a) \/ Reported(a) => /\ agents'[a] \in Children
                                         /\ agents'[a].status = agents[a].status
                                         /\ agents'[a].job = agents[a].job
                                         /\ agents[a].messages # <<>>
         /\ \A k \in JobIds : Started(a, k) =>
              /\ agents'[a] \in Children
              /\ agents'[a].status = "running" /\ agents'[a].job = k
              /\ agents'[a].messages \in {agents[a].messages, Sent(a).messages}
<1>1. /\ agents[a] \in Children /\ Sent(a) \in Children
      /\ agents[a].messages \in Seq(MessageStatuses)
  BY ChildrenAreTyped
<1>2. ASSUME Born(a) \/ Marked(a)
      PROVE  /\ agents'[a] \in Children /\ agents'[a].messages = agents[a].messages
             /\ agents'[a].job = agents[a].job /\ agents'[a].status # "running"
  <2>1. PICK s \in AgentStatuses \ {"running"} : agents'[a] = [agents[a] EXCEPT !.status = s]
    BY <1>2 DEF Born, Marked, AgentStatuses
  <2> QED BY <1>1, <2>1, MarkedChild
<1>3. ASSUME Claimed(a) \/ Reported(a)
      PROVE  /\ agents'[a] \in Children /\ agents'[a].status = agents[a].status
             /\ agents'[a].job = agents[a].job /\ agents[a].messages # <<>>
  <2>1. PICK i \in DOMAIN agents[a].messages, s \in MessageStatuses : Stamped(a, i, s)
    <3>1. CASE Claimed(a)
      BY <3>1, NextTurnIsFirst DEF Claimed, MessageStatuses
    <3>2. CASE Reported(a)
      BY <3>2 DEF Reported, TurnIsFirst, MessageStatuses
    <3> QED BY <1>3, <3>1, <3>2
  <2> DEFINE q == [agents[a].messages EXCEPT ![i] = s]
  <2>2. q \in Seq(MessageStatuses)
    BY <1>1, <2>1, MarkedMessages
  <2>3. agents'[a] = [agents[a] EXCEPT !.messages = q]
    BY <2>1 DEF Stamped
  <2> HIDE DEF q
  <2>4. agents[a].messages # <<>>
    BY <2>1, <1>1, LenProperties
  <2> QED BY <1>1, <2>2, <2>3, <2>4 DEF Children
<1>4. ASSUME NEW k \in JobIds, Started(a, k)
      PROVE  /\ agents'[a] \in Children
             /\ agents'[a].status = "running" /\ agents'[a].job = k
             /\ agents'[a].messages \in {agents[a].messages, Sent(a).messages}
  <2>1. PICK c \in {agents[a], Sent(a)} :
          agents'[a] = [c EXCEPT !.status = "running", !.job = k]
    BY <1>4 DEF Started
  <2>2. c \in Children
    BY <1>1
  <2>3. /\ agents'[a] \in Children /\ agents'[a].status = "running"
        /\ agents'[a].job = k /\ agents'[a].messages = c.messages
    BY <2>1, <2>2 DEF Children, AgentStatuses
  <2> QED BY <2>3
<1> QED BY <1>1, <1>2, <1>3, <1>4 DEF Kept

LEMMA OneIsStarted ==
  ASSUME ChildTypeOK, TurnIsFirst, NEW a \in Agents, NEW k \in JobIds, Activates(a, k)
  PROVE  /\ Started(a, k)
         /\ agents' \in [Agents -> Children]
         /\ \A b \in Agents \ {a} : Kept(b)
         /\ \A n \in JobIds \ {k} : jobs'[n] = jobs[n]
         /\ jobs' \in [JobIds -> JobRecords]
         /\ agentThreads' = agentThreads \cup {[job |-> k, epoch |-> 1, stage |-> "queued", turn |-> 0]}
<1>1. PICK c \in {agents[a], Sent(a)} : Activated(a, c, k)
  BY DEF Activates
<1>2. agents \in [Agents -> Children] /\ jobs \in [JobIds -> JobRecords]
  BY DEF ChildTypeOK
<1>3. Started(a, k)
  BY <1>1, <1>2 DEF Activated, Started
<1>4. agents'[a] \in Children
  BY <1>3, NewRecord
<1>5. [status |-> "running", epoch |-> 1, lease |-> TRUE, agent |-> a] \in JobRecords
  BY DEF JobRecords, JobStatuses
<1>6. agents' = [agents EXCEPT ![a] = [c EXCEPT !.status = "running", !.job = k]]
  BY <1>1 DEF Activated
<1>7. agents' = [agents EXCEPT ![a] = agents'[a]]
  BY <1>2, <1>6
<1>8. agents' \in [Agents -> Children] /\ \A b \in Agents \ {a} : Kept(b)
  BY <1>2, <1>4, <1>7 DEF Kept
<1>9. /\ jobs' \in [JobIds -> JobRecords] /\ \A n \in JobIds \ {k} : jobs'[n] = jobs[n]
      /\ agentThreads' = agentThreads \cup {[job |-> k, epoch |-> 1, stage |-> "queued", turn |-> 0]}
  BY <1>1, <1>2, <1>5 DEF Activated
<1> QED BY <1>3, <1>8, <1>9

(* Every child goes through one of them in every step. *)
Moved(a) == \/ Kept(a) \/ Born(a) \/ Marked(a) \/ Queued(a) \/ Claimed(a) \/ Reported(a)
            \/ \E k \in JobIds : Started(a, k)

LEMMA OneByOne ==
  ASSUME ChildTypeOK, NEW a \in Agents, NEW c, agents' = [agents EXCEPT ![a] = c]
  PROVE  agents'[a] = c /\ \A b \in Agents \ {a} : Kept(b)
BY DEF ChildTypeOK, Kept

LEMMA ChildrenMove ==
  ASSUME ChildTypeOK, JobsHaveChildren, ThreadsHaveJobs, UsedChildHasJob, TurnIsFirst,
         [ChildNext]_childVars
  PROVE  \A a \in Agents : Moved(a)
<1>1. ASSUME agents' = agents PROVE \A a \in Agents : Moved(a)
  BY <1>1 DEF Moved, Kept
<1>2. ASSUME NEW a \in Agents, NEW c, agents' = [agents EXCEPT ![a] = c],
             agents'[a] = c => Moved(a)
      PROVE  \A b \in Agents : Moved(b)
  BY <1>2, OneByOne DEF Moved
<1>3. ASSUME NEW t \in agentThreads
      PROVE  ChildOf(t) \in Agents /\ agents[ChildOf(t)].job \in JobIds
  <2>1. t.job \in JobIds
    BY DEF ChildTypeOK, Threads
  <2> QED BY <2>1 DEF ThreadsHaveJobs, JobsHaveChildren, ChildOf
<1>4. ASSUME NEW a \in Agents, Spawn(a) PROVE \A b \in Agents : Moved(b)
  <2>1. agents' = [agents EXCEPT ![a] = [agents[a] EXCEPT !.status = "pending"]]
    BY <1>4 DEF Spawn, SetAgentStatus
  <2> QED BY <1>2, <1>4, <2>1 DEF Spawn, Moved, Born
<1>5. ASSUME NEW a \in Agents, NEW s \in AgentStatuses \ {"absent", "pending", "running"},
             SetAgentStatus(a, s), agents[a].job \in JobIds, s = "idle" => Unfinished(a) = {}
      PROVE  \A b \in Agents : Moved(b)
  <2>1. agents' = [agents EXCEPT ![a] = [agents[a] EXCEPT !.status = s]]
    BY <1>5 DEF SetAgentStatus
  <2> QED BY <1>2, <1>5, <2>1 DEF Moved, Marked
<1>6. ASSUME NEW a \in Agents, InterruptAgent(a) PROVE \A b \in Agents : Moved(b)
  <2>1. agents[a].job \in JobIds
    BY <1>6, ChildrenAreTyped DEF InterruptAgent
  <2> QED BY <1>5, <1>6, <2>1 DEF InterruptAgent, AgentStatuses
<1>7. ASSUME NEW a \in Agents, agents' = [agents EXCEPT ![a] = Sent(a)],
             agents[a].status \in OnlyQueues, jobs' = jobs
      PROVE  \A b \in Agents : Moved(b)
  BY <1>2, <1>7 DEF Moved, Queued
<1>8. ASSUME NEW a \in Agents, NEW k \in JobIds, Activates(a, k)
      PROVE  \A b \in Agents : Moved(b)
  BY <1>8, OneIsStarted DEF Moved
<1>9. ASSUME NEW t \in agentThreads, Take(t) PROVE \A b \in Agents : Moved(b)
  <2> DEFINE a == ChildOf(t)
  <2>1. a \in Agents /\ agents[a].job \in JobIds
    BY <1>3
  <2>2. CASE NextTurn(a) = {} /\ SetAgentStatus(a, "idle")
    <3>1. Unfinished(a) = {}
      BY <2>1, <2>2, NextTurnIsFirst
    <3> QED BY <1>5, <2>1, <2>2, <3>1 DEF AgentStatuses
  <2>3. ASSUME NEW i \in NextTurn(a), agents' = [agents EXCEPT ![a].messages[i] = "claimed"]
        PROVE  \A b \in Agents : Moved(b)
    <3>1. agents' = [agents EXCEPT ![a] = [agents[a] EXCEPT !.messages =
                       [agents[a].messages EXCEPT ![i] = "claimed"]]]
      BY <2>3
    <3> HIDE DEF a
    <3> QED BY <1>2, <2>1, <3>1 DEF Moved, Claimed, Stamped
  <2> QED BY <1>9, <2>2, <2>3 DEF Take
<1>10. ASSUME NEW t \in agentThreads, Report(t) PROVE \A b \in Agents : Moved(b)
  <2> DEFINE a == ChildOf(t)
  <2>1. a \in Agents
    BY <1>3
  <2>2. CASE agents' = [agents EXCEPT ![a].messages[t.turn] = "completed"]
    <3>1. agents' = [agents EXCEPT ![a] = [agents[a] EXCEPT !.messages =
                       [agents[a].messages EXCEPT ![t.turn] = "completed"]]]
      BY <2>2
    <3>2. t.stage = "report" /\ ChildOf(t) = a
      BY <1>10 DEF Report
    <3> HIDE DEF a
    <3> QED BY <1>2, <2>1, <3>1, <3>2 DEF Moved, Reported, Stamped
  <2> QED BY <1>1, <1>10, <2>2 DEF Report
<1>11. ASSUME NEW t \in agentThreads, Caught(t) \/ Error(t) PROVE \A b \in Agents : Moved(b)
  <2>1. \/ agents' = agents
        \/ \E s \in {"paused", "cancelled", "interrupted", "failed"} :
             SetAgentStatus(ChildOf(t), s)
    BY <1>11 DEF Caught, Error
  <2> QED BY <1>1, <1>3, <1>5, <2>1 DEF AgentStatuses
<1> QED BY <1>1, <1>4, <1>6, <1>7, <1>8, <1>9, <1>10, <1>11, Writers

(* What a step does to the jobs: what was made stays and keeps its child,  *)
(* and only a thread about to end a job completes it or has it fail.       *)
Lasts(k) ==
  /\ jobs[k].status # "absent" =>
       jobs'[k].status # "absent" /\ jobs'[k].agent = jobs[k].agent
  /\ jobs'[k].status # "absent" =>
       jobs[k].status # "absent" \/ \E a \in Agents : Started(a, k)
  /\ jobs'[k].status \in {"completed", "failed"} =>
       \/ jobs[k].status = jobs'[k].status
       \/ \E t \in agentThreads : t.job = k /\ t.stage \in {"finish", "fail"}

JobsLast == \A k \in JobIds : Lasts(k)

LEMMA RewrittenJob ==
  ASSUME NEW j \in JobRecords, NEW s \in JobStatuses, NEW e \in Nat, NEW l \in BOOLEAN
  PROVE  /\ [j EXCEPT !.status = s, !.epoch = e, !.lease = l] \in JobRecords
         /\ [j EXCEPT !.status = s, !.epoch = e, !.lease = l].status = s
         /\ [j EXCEPT !.status = s, !.epoch = e, !.lease = l].agent = j.agent
BY DEF JobRecords

LEMMA JobsAreTyped ==
  ASSUME ChildTypeOK, NEW k \in JobIds
  PROVE  /\ jobs[k] \in JobRecords /\ jobs[k].status \in JobStatuses
         /\ jobs[k].epoch \in Nat /\ jobs[k].lease \in BOOLEAN
<1>1. jobs[k] \in JobRecords
  BY DEF ChildTypeOK
<1> QED BY <1>1 DEF JobRecords

LEMMA JobsMove ==
  ASSUME Sensible, ChildTypeOK, TurnIsFirst, ChildOwnsJob, ThreadsHaveJobs, [ChildNext]_childVars
  PROVE  jobs' \in [JobIds -> JobRecords] /\ JobsLast
<1> DEFINE Written(k, r) ==
      /\ r \in JobRecords
      /\ r.agent = jobs[k].agent /\ (r.status = "absent" <=> jobs[k].status = "absent")
      /\ r.status \in {"completed", "failed"} =>
           \/ jobs[k].status = r.status
           \/ \E t \in agentThreads : t.job = k /\ t.stage \in {"finish", "fail"}
<1>1. jobs \in [JobIds -> JobRecords]
  BY DEF ChildTypeOK
<1>2. ASSUME NEW k \in JobIds, Written(k, jobs'[k]) PROVE Lasts(k)
  BY <1>2 DEF Lasts
<1>3. ASSUME NEW k \in JobIds, jobs'[k] = jobs[k] PROVE Lasts(k)
  BY <1>3 DEF Lasts
<1>4. ASSUME NEW k \in JobIds, NEW s \in JobStatuses \ {"absent"}, NEW e \in Nat,
             NEW l \in BOOLEAN, jobs[k].status # "absent",
             s \in {"completed", "failed"} =>
               \/ jobs[k].status = s
               \/ \E t \in agentThreads : t.job = k /\ t.stage \in {"finish", "fail"}
      PROVE  Written(k, [jobs[k] EXCEPT !.status = s, !.epoch = e, !.lease = l])
  <2> DEFINE r == [jobs[k] EXCEPT !.status = s, !.epoch = e, !.lease = l]
  <2>1. jobs[k] \in JobRecords
    BY <1>1
  <2>2. s \in JobStatuses
    OBVIOUS
  <2>3. r \in JobRecords /\ r.status = s /\ r.agent = jobs[k].agent
    BY <2>1, <2>2 DEF JobRecords
  <2> HIDE DEF r
  <2>4. Written(k, r)
    BY <1>4, <2>3
  <2> QED BY <2>4 DEF r
<1> HIDE DEF Written
<1>5. ASSUME NEW k \in JobIds, NEW r, Written(k, r), jobs' = [jobs EXCEPT ![k] = r]
      PROVE  jobs' \in [JobIds -> JobRecords] /\ JobsLast
  <2>1. jobs'[k] = r /\ \A n \in JobIds \ {k} : jobs'[n] = jobs[n]
    BY <1>1, <1>5
  <2>2. r \in JobRecords
    BY <1>5 DEF Written
  <2> QED BY <1>1, <1>2, <1>3, <1>5, <2>1, <2>2 DEF JobsLast
<1>6. ASSUME NEW f, jobs' = [k \in JobIds |-> f[k]],
              \A k \in JobIds : f[k] = jobs[k] \/ Written(k, f[k])
       PROVE  jobs' \in [JobIds -> JobRecords] /\ JobsLast
  <2>1. ASSUME NEW k \in JobIds
        PROVE  jobs'[k] = f[k] /\ f[k] \in JobRecords /\ Lasts(k)
    BY <1>1, <1>2, <1>3, <1>6 DEF Written
  <2> QED BY <1>6, <2>1 DEF JobsLast
<1>7. CASE jobs' = jobs
  BY <1>1, <1>3, <1>7 DEF JobsLast
<1>8. ASSUME NEW k \in JobIds, NEW s \in {"paused", "cancelled"},
             jobs[k].status # "absent",
             jobs' = [jobs EXCEPT ![k].status = s, ![k].epoch = @ + 1, ![k].lease = FALSE]
      PROVE  jobs' \in [JobIds -> JobRecords] /\ JobsLast
  <2> DEFINE r == [jobs[k] EXCEPT !.status = s, !.epoch = jobs[k].epoch + 1, !.lease = FALSE]
  <2>1. jobs' = [jobs EXCEPT ![k] = r]
    BY <1>1, <1>8
  <2>2. jobs[k].epoch + 1 \in Nat
    BY JobsAreTyped
  <2>3. Written(k, r)
    BY <1>4, <1>8, <2>2 DEF JobStatuses
  <2> HIDE DEF r
  <2> QED BY <1>5, <2>1, <2>3
<1>9. CASE \E a \in Agents : InterruptAgent(a)
  <2>1. PICK a \in Agents : InterruptAgent(a)
    BY <1>9
  <2> DEFINE k == agents[a].job
  <2>2. k \in JobIds /\ jobs[k].status # "absent"
    BY <2>1, ChildrenAreTyped DEF InterruptAgent, ChildOwnsJob
  <2> QED BY <1>8, <2>1, <2>2 DEF InterruptAgent
<1>10. ASSUME NEW a \in Agents, NEW k \in JobIds, Activates(a, k)
      PROVE  jobs' \in [JobIds -> JobRecords] /\ JobsLast
  <2>1. jobs' \in [JobIds -> JobRecords] /\ Started(a, k)
        /\ \A n \in JobIds \ {k} : jobs'[n] = jobs[n]
    BY <1>10, OneIsStarted
  <2>2. jobs[k].status = "absent" /\ jobs'[k].status = "running"
    BY <2>1 DEF Started
  <2>3. Lasts(k)
    BY <2>1, <2>2 DEF Lasts
  <2> QED BY <1>3, <2>1, <2>3 DEF JobsLast
<1>11. CASE \E k \in JobIds : JobResume(k)
  <2>1. PICK k \in JobIds : JobResume(k)
    BY <1>11
  <2> DEFINE r == [jobs[k] EXCEPT !.status = "running", !.epoch = jobs[k].epoch + 2,
                                  !.lease = TRUE]
  <2>2. jobs' = [jobs EXCEPT ![k] = r]
    BY <1>1, <2>1 DEF JobResume
  <2>3. jobs[k].epoch + 2 \in Nat
    BY JobsAreTyped
  <2>4. Written(k, r)
    BY <1>4, <2>1, <2>3 DEF JobStatuses, JobResume
  <2> HIDE DEF r
  <2> QED BY <1>5, <2>2, <2>4
<1>12. CASE \E k \in JobIds : \E s \in {"paused", "cancelled"} : JobControl(k, s)
  BY <1>8, <1>12 DEF JobControl
<1>13. ASSUME NEW k \in JobIds, NEW l \in BOOLEAN, NEW s \in JobStatuses, NEW r,
              s = "absent" <=> jobs[k].status = "absent",
              s \in {"completed", "failed"} =>
                \/ jobs[k].status = s
                \/ \E t \in agentThreads : t.job = k /\ t.stage \in {"finish", "fail"},
              \/ r = [jobs[k] EXCEPT !.status = s]
              \/ r = [jobs[k] EXCEPT !.status = s, !.lease = l]
              \/ r = [jobs[k] EXCEPT !.lease = l] /\ s = jobs[k].status
       PROVE  Written(k, r)
  <2>1. jobs[k] \in JobRecords
    BY <1>1
  <2>2. s \in JobStatuses
    OBVIOUS
  <2>3. r \in JobRecords /\ r.status = s /\ r.agent = jobs[k].agent
    BY <1>13, <2>1, <2>2 DEF JobRecords
  <2> QED BY <1>13, <2>3 DEF Written
<1>14. CASE Open \/ RecoverJobs
  <2>1. ASSUME NEW k \in JobIds PROVE Recovered[k] = jobs[k] \/ Written(k, Recovered[k])
    <3>1. CASE jobs[k].status = "running" /\ ~jobs[k].lease
      <4>1. Recovered[k] = [jobs[k] EXCEPT !.status = "interrupted", !.lease = FALSE]
        BY <3>1 DEF Recovered, RecoveredAs
      <4> QED BY <1>13, <3>1, <4>1 DEF JobStatuses
    <3>2. CASE ~ (jobs[k].status = "running" /\ ~jobs[k].lease)
      BY <3>2 DEF Recovered
    <3> QED BY <3>1, <3>2
  <2>2. jobs' = [k \in JobIds |-> Recovered[k]]
    BY <1>14 DEF Open, RecoverJobs, Recovered
  <2> QED BY <1>6, <2>1, <2>2
<1>15. CASE CloseSupervisor
  <2> DEFINE f == [k \in JobIds |->
                     IF jobs[k].status = "running"
                     THEN [jobs[k] EXCEPT !.status = "paused", !.epoch = @ + 1,
                                          !.lease = FALSE]
                     ELSE jobs[k]]
  <2>1. ASSUME NEW k \in JobIds PROVE f[k] = jobs[k] \/ Written(k, f[k])
    <3>1. CASE jobs[k].status = "running"
      <4>1. jobs[k].epoch + 1 \in Nat
        BY JobsAreTyped
      <4>2. Written(k, [jobs[k] EXCEPT !.status = "paused", !.epoch = jobs[k].epoch + 1,
                                       !.lease = FALSE])
        BY <1>4, <3>1, <4>1 DEF JobStatuses
      <4> QED BY <3>1, <4>2
    <3>2. CASE jobs[k].status # "running"
      BY <3>2
    <3> QED BY <3>1, <3>2
  <2>2. jobs' = [k \in JobIds |-> f[k]]
    BY <1>15 DEF CloseSupervisor
  <2> HIDE DEF f
  <2> QED BY <1>6, <2>1, <2>2
<1>16. CASE Crash
  <2> DEFINE f == [k \in JobIds |-> [jobs[k] EXCEPT !.lease = FALSE]]
  <2>1. ASSUME NEW k \in JobIds PROVE Written(k, f[k])
    BY <1>13, JobsAreTyped
  <2>2. jobs' = [k \in JobIds |-> f[k]]
    BY <1>16 DEF Crash
  <2> HIDE DEF f
  <2> QED BY <1>6, <2>1, <2>2
<1>17. CASE \E k \in JobIds : LeaseLapses(k)
  <2>1. PICK k \in JobIds : LeaseLapses(k)
    BY <1>17
  <2>2. jobs' = [jobs EXCEPT ![k] = [jobs[k] EXCEPT !.lease = FALSE]]
    BY <2>1 DEF LeaseLapses
  <2>3. Written(k, [jobs[k] EXCEPT !.lease = FALSE])
    BY <1>13, JobsAreTyped
  <2> QED BY <1>5, <2>2, <2>3
<1>18. ASSUME NEW t \in agentThreads, Finish(t) \/ Exit(t)
       PROVE  jobs' \in [JobIds -> JobRecords] /\ JobsLast
  <2>1. t.job \in JobIds /\ jobs[t.job].status # "absent"
    BY DEF ChildTypeOK, Threads, ThreadsHaveJobs
  <2>2. CASE Finish(t) /\ jobs' # jobs
    <3>1. PICK s \in {"completed", "failed"} : jobs' = [jobs EXCEPT ![t.job].status = s]
      BY <2>2 DEF Finish
    <3>2. jobs' = [jobs EXCEPT ![t.job] = [jobs[t.job] EXCEPT !.status = s]]
      BY <3>1
    <3>3. Written(t.job, [jobs[t.job] EXCEPT !.status = s])
      BY <1>13, <2>1, <2>2 DEF Finish, JobStatuses
    <3> QED BY <1>5, <2>1, <3>2, <3>3
  <2>3. CASE Exit(t) /\ jobs' # jobs
    <3>1. PICK s \in {"interrupted", "paused"} :
            jobs' = [jobs EXCEPT ![t.job].lease = FALSE, ![t.job].status = s]
      BY <2>3 DEF Exit, ChildTypeOK, RunControls
    <3>2. jobs' = [jobs EXCEPT ![t.job] = [jobs[t.job] EXCEPT !.status = s, !.lease = FALSE]]
      BY <1>1, <2>1, <3>1
    <3>3. Written(t.job, [jobs[t.job] EXCEPT !.status = s, !.lease = FALSE])
      BY <1>13, <2>1 DEF JobStatuses
    <3> QED BY <1>5, <2>1, <3>2, <3>3
  <2> QED BY <1>7, <1>18, <2>2, <2>3
<1> QED BY <1>7, <1>9, <1>10, <1>11, <1>12, <1>14, <1>15, <1>16, <1>17, <1>18, Writers

(* Where a thread after a step comes from: it was there, it is queued, or  *)
(* it moved, and then what it left says what it did.                       *)
Comes(u) ==
  \/ u \in agentThreads
  \/ u.stage = "queued" /\ jobs'[u.job].status # "absent"
  \/ \E t \in agentThreads :
       /\ u.job = t.job
       /\ u.stage = "turn"   => u.turn \in NextTurn(ChildOf(t))
       /\ u.stage = "report" => t.stage = "turn" /\ u.turn = t.turn
       /\ u.stage = "return" => SetAgentStatus(ChildOf(t), "idle")
       /\ u.stage = "finish" => t.stage = "return" /\ agents' = agents
       /\ u.stage = "fail"   => SetAgentStatus(ChildOf(t), "failed")

LEMMA MovedThread ==
  ASSUME NEW t \in Threads, NEW s \in Stages
  PROVE  /\ [t EXCEPT !.stage = s] \in Threads
         /\ [t EXCEPT !.stage = s].stage = s
         /\ [t EXCEPT !.stage = s].job = t.job
         /\ [t EXCEPT !.stage = s].turn = t.turn
BY DEF Threads

LEMMA TurningThread ==
  ASSUME NEW t \in Threads, NEW i \in Nat
  PROVE  /\ [t EXCEPT !.stage = "turn", !.turn = i] \in Threads
         /\ [t EXCEPT !.stage = "turn", !.turn = i].stage = "turn"
         /\ [t EXCEPT !.stage = "turn", !.turn = i].job = t.job
         /\ [t EXCEPT !.stage = "turn", !.turn = i].turn = i
BY DEF Threads, Stages

LEMMA ThreadsMove ==
  ASSUME Sensible, ChildTypeOK, JobsHaveChildren, ThreadsHaveJobs, ChildOwnsJob, TurnIsFirst,
         [ChildNext]_childVars
  PROVE  agentThreads' \subseteq Threads /\ \A u \in agentThreads' : Comes(u)
<1>1. agentThreads \subseteq Threads
  BY DEF ChildTypeOK
<1>2. CASE agentThreads' \subseteq agentThreads
  BY <1>1, <1>2 DEF Comes
<1>3. ASSUME NEW u \in Threads, agentThreads' = agentThreads \cup {u}, u.stage = "queued",
             jobs'[u.job].status # "absent"
      PROVE  agentThreads' \subseteq Threads /\ \A v \in agentThreads' : Comes(v)
  BY <1>1, <1>3 DEF Comes
<1>4. ASSUME NEW a \in Agents, NEW k \in JobIds, Activates(a, k)
      PROVE  agentThreads' \subseteq Threads /\ \A u \in agentThreads' : Comes(u)
  <2> DEFINE u == [job |-> k, epoch |-> 1, stage |-> "queued", turn |-> 0]
  <2>1. u \in Threads /\ u.stage = "queued" /\ u.job = k
    BY DEF Threads, Stages
  <2>2. agentThreads' = agentThreads \cup {u} /\ Started(a, k)
    BY <1>4, OneIsStarted
  <2>3. jobs'[k].status = "running"
    BY <2>2 DEF Started
  <2> HIDE DEF u
  <2> QED BY <1>3, <2>1, <2>2, <2>3
<1>5. ASSUME NEW k \in JobIds, JobResume(k)
      PROVE  agentThreads' \subseteq Threads /\ \A u \in agentThreads' : Comes(u)
  <2> DEFINE u == [job |-> k, epoch |-> jobs[k].epoch + 2, stage |-> "queued", turn |-> 0]
  <2>1. jobs[k].epoch + 2 \in Nat
    BY JobsAreTyped
  <2>2. u \in Threads /\ u.stage = "queued" /\ u.job = k
    BY <2>1 DEF Threads, Stages
  <2>3. jobs'[k].status # "absent"
    BY <1>5, JobsMove DEF JobsLast, Lasts, JobResume
  <2>4. agentThreads' = agentThreads \cup {u}
    BY <1>5 DEF JobResume
  <2> HIDE DEF u
  <2> QED BY <1>3, <2>2, <2>3, <2>4
<1>6. ASSUME NEW t \in agentThreads, AgentThreadStep(t)
      PROVE  agentThreads' \subseteq Threads /\ \A u \in agentThreads' : Comes(u)
  <2>1. t \in Threads
    BY <1>1
  <2>2. ASSUME NEW s \in Stages, Goto(t, s),
               s # "turn",
               s = "report" => t.stage = "turn",
               s = "return" => SetAgentStatus(ChildOf(t), "idle"),
               s = "finish" => t.stage = "return" /\ agents' = agents,
               s = "fail"   => SetAgentStatus(ChildOf(t), "failed")
        PROVE  agentThreads' \subseteq Threads /\ \A u \in agentThreads' : Comes(u)
    <3> DEFINE u == [t EXCEPT !.stage = s]
    <3>1. u \in Threads /\ u.stage = s /\ u.job = t.job /\ u.turn = t.turn
      BY <2>1, MovedThread
    <3>2. agentThreads' = (agentThreads \ {t}) \cup {u}
      BY <2>2 DEF Goto
    <3> HIDE DEF u
    <3>3. Comes(u)
      BY <2>2, <3>1 DEF Comes
    <3>4. \A v \in agentThreads : Comes(v)
      BY DEF Comes
    <3> QED BY <1>1, <3>1, <3>2, <3>3, <3>4
  <2>3. CASE Begin(t) \/ AtCheckpoint(t)
    BY <1>2, <2>2, <2>3 DEF Begin, AtCheckpoint, Stages
  <2>4. CASE Take(t)
    <3>1. CASE SetAgentStatus(ChildOf(t), "idle") /\ Goto(t, "return")
      BY <2>2, <3>1 DEF Stages
    <3>2. ASSUME NEW i \in NextTurn(ChildOf(t)),
                 agentThreads' = (agentThreads \ {t}) \cup {[t EXCEPT !.stage = "turn", !.turn = i]}
          PROVE  agentThreads' \subseteq Threads /\ \A u \in agentThreads' : Comes(u)
      <4> DEFINE u == [t EXCEPT !.stage = "turn", !.turn = i]
      <4>1. ChildOf(t) \in Agents
        BY <2>1 DEF ThreadsHaveJobs, JobsHaveChildren, ChildOf, Threads
      <4>2. i \in Nat
        <5>1. i \in DOMAIN agents[ChildOf(t)].messages
          BY <4>1, NextTurnIsFirst
        <5> QED BY <4>1, <5>1, ChildrenAreTyped, LenProperties
      <4>3. u \in Threads /\ u.stage = "turn" /\ u.job = t.job /\ u.turn = i
        BY <2>1, <4>2, TurningThread
      <4> HIDE DEF u
      <4>4. Comes(u)
        BY <4>3 DEF Comes
      <4>5. \A v \in agentThreads : Comes(v)
        BY DEF Comes
      <4> QED BY <1>1, <3>2, <4>3, <4>4, <4>5 DEF u
    <3> QED BY <2>4, <3>1, <3>2 DEF Take
  <2>5. CASE EndTurn(t)
    BY <2>2, <2>5 DEF EndTurn, Stages
  <2>6. CASE Report(t) \/ Caught(t) \/ Error(t)
    BY <2>2, <2>6 DEF Report, Caught, Error, Stages
  <2>7. CASE Finish(t)
    BY <1>2, <2>2, <2>7 DEF Finish, Leave, Stages
  <2>8. CASE Exit(t)
    BY <1>2, <2>8 DEF Exit, Leave
  <2> QED BY <1>6, <2>3, <2>4, <2>5, <2>6, <2>7, <2>8 DEF AgentThreadStep
<1>7. CASE Crash
  BY <1>2, <1>7 DEF Crash
<1> QED BY <1>2, <1>4, <1>5, <1>6, <1>7, Writers

LEMMA TypesGoOn ==
  ASSUME Sensible, ChildTypeOK, JobsHaveChildren, ThreadsHaveJobs, UsedChildHasJob,
         ChildOwnsJob, TurnIsFirst, [ChildNext]_childVars
  PROVE  ChildTypeOK'
<1>1. agents' \in [Agents -> Children]
  <2>1. agents \in [Agents -> Children]
    BY DEF ChildTypeOK
  <2>2. ASSUME NEW a \in Agents PROVE agents'[a] \in Children
    <3>1. agents[a] \in Children /\ Sent(a) \in Children
      BY ChildrenAreTyped
    <3>2. CASE Queued(a)
      BY <3>1, <3>2 DEF Queued
    <3> QED BY <3>2, ChildrenMove, NewRecord DEF Moved
  <2>3. ASSUME NEW a \in Agents, NEW k \in JobIds, Activates(a, k)
        PROVE  agents' \in [Agents -> Children]
    BY <2>3, OneIsStarted
  <2>4. agents' = [a \in Agents |-> agents'[a]]
    BY <2>1, <2>3, Writers DEF Spawn, InterruptAgent, SetAgentStatus, Take, Report, Caught,
       Error
  <2> QED BY <2>2, <2>4
<1>2. jobs' \in [JobIds -> JobRecords] /\ agentThreads' \subseteq Threads
  BY JobsMove, ThreadsMove
<1>3. control' \in RunControls
  BY Writers DEF ChildTypeOK, SetControl
<1>4. supervisor' \in Supervisors
  BY Writers DEF ChildTypeOK, Supervisors, Open, CloseSupervisor, Crash, RecoverChild
<1>5. toRecover' \subseteq Agents \X JobIds
  <2>1. CASE Open
    <3>1. ASSUME NEW a \in Agents, Unfinished(a) # {} PROVE agents[a].job \in JobIds
      <4>1. agents[a].messages # <<>>
        BY <3>1 DEF Unfinished
      <4> QED BY <4>1 DEF UsedChildHasJob
    <3> QED BY <2>1, <3>1 DEF Open
  <2>2. CASE \/ toRecover' = toRecover \/ Crash
             \/ \E a \in Agents, k \in JobIds : RecoverChild(a, k)
    BY <2>2 DEF ChildTypeOK, Crash, RecoverChild
  <2> QED BY <2>1, <2>2, Writers
<1> QED BY <1>1, <1>2, <1>3, <1>4, <1>5 DEF ChildTypeOK

-----------------------------------------------------------------------------
(* The jobs of children *)

LEMMA JobsOfChildren ==
  ASSUME Sensible, ChildTypeOK, JobsHaveChildren, ThreadsHaveJobs, UsedChildHasJob,
         ChildOwnsJob, TurnIsFirst, [ChildNext]_childVars
  PROVE  JobsHaveChildren' /\ ThreadsHaveJobs' /\ UsedChildHasJob' /\ ChildOwnsJob'
<1>1. JobsLast /\ (\A a \in Agents : Moved(a)) /\ \A u \in agentThreads' : Comes(u)
  BY JobsMove, ChildrenMove, ThreadsMove
<1>2. ASSUME NEW a \in Agents
      PROVE  \/ agents'[a].job = agents[a].job
             \/ \E k \in JobIds : Started(a, k) /\ agents'[a].job = k
  BY <1>1, NewRecord, ChildrenAreTyped DEF Moved, Kept, Queued
<1>3. ASSUME NEW a \in Agents, NEW k \in JobIds, Started(a, k)
      PROVE  /\ agents'[a].job = k /\ jobs'[k].agent = a /\ jobs'[k].status = "running"
  <2>1. agents'[a].job = k
    BY <1>3, NewRecord
  <2> QED BY <1>3, <2>1 DEF Started
<1>4. JobsHaveChildren'
  <2> SUFFICES ASSUME NEW k \in JobIds, jobs'[k].status # "absent"
               PROVE  jobs'[k].agent \in Agents /\ agents'[jobs'[k].agent].job \in JobIds
    BY DEF JobsHaveChildren
  <2>1. CASE jobs[k].status # "absent"
    <3>1. jobs'[k].agent = jobs[k].agent
      BY <1>1, <2>1 DEF JobsLast, Lasts
    <3>2. jobs[k].agent \in Agents /\ agents[jobs[k].agent].job \in JobIds
      BY <2>1 DEF JobsHaveChildren
    <3> QED BY <1>2, <3>1, <3>2
  <2>2. CASE \E a \in Agents : Started(a, k)
    BY <1>3, <2>2
  <2> QED BY <1>1, <2>1, <2>2 DEF JobsLast, Lasts
<1>5. ThreadsHaveJobs'
  <2> SUFFICES ASSUME NEW u \in agentThreads' PROVE jobs'[u.job].status # "absent"
    BY DEF ThreadsHaveJobs
  <2>1. Comes(u)
    BY <1>1
  <2>2. ASSUME NEW t \in agentThreads, u.job = t.job PROVE jobs'[u.job].status # "absent"
    <3>1. t.job \in JobIds /\ jobs[t.job].status # "absent"
      BY DEF ChildTypeOK, Threads, ThreadsHaveJobs
    <3> QED BY <1>1, <2>2, <3>1 DEF JobsLast, Lasts
  <2> QED BY <2>1, <2>2 DEF Comes
<1>6. UsedChildHasJob'
  <2> SUFFICES ASSUME NEW a \in Agents,
                      \/ agents'[a].messages # <<>>
                      \/ agents'[a].status \notin {"absent", "pending"}
               PROVE  agents'[a].job \in JobIds
    BY DEF UsedChildHasJob
  <2>1. CASE agents[a].job \in JobIds
    BY <1>2, <2>1
  <2>2. CASE agents[a].job \notin JobIds
    <3>1. agents[a].messages = <<>> /\ agents[a].status \in {"absent", "pending"}
      BY <2>2 DEF UsedChildHasJob
    <3>2. ~ Kept(a) /\ ~ Marked(a) /\ ~ Queued(a)
      BY <2>2, <3>1 DEF Kept, Marked, Queued, OnlyQueues
    <3>3. ~ Claimed(a) /\ ~ Reported(a)
      BY <3>1, NewRecord
    <3>4. ~ Born(a)
      <4>1. ASSUME Born(a) PROVE agents'[a].status = "pending"
        BY <4>1, ChildrenAreTyped, MarkedChild DEF Born, AgentStatuses
      <4> QED BY <3>1, <4>1, NewRecord
    <3> QED BY <1>1, <1>3, <3>2, <3>3, <3>4 DEF Moved
  <2> QED BY <2>1, <2>2
<1>7. ChildOwnsJob'
  <2> SUFFICES ASSUME NEW a \in Agents, agents'[a].job # Nil
               PROVE  /\ jobs'[agents'[a].job].status # "absent"
                      /\ jobs'[agents'[a].job].agent = a
    BY DEF ChildOwnsJob
  <2>1. CASE agents'[a].job = agents[a].job
    <3>1. agents[a].job \in JobIds
      BY <2>1, ChildrenAreTyped
    <3> QED BY <1>1, <2>1, <3>1 DEF ChildOwnsJob, JobsLast, Lasts
  <2>2. CASE \E k \in JobIds : Started(a, k) /\ agents'[a].job = k
    BY <1>3, <2>2
  <2> QED BY <1>2, <2>1, <2>2
<1> QED BY <1>4, <1>5, <1>6, <1>7

-----------------------------------------------------------------------------
(* The order of turns *)

(* What becomes of a child's messages: the list only grows, what is        *)
(* completed stays so, and only the message a report names is completed.   *)
MessagesLast(a) ==
  LET old == agents[a].messages  new == agents'[a].messages IN
  /\ DOMAIN old \subseteq DOMAIN new /\ DOMAIN new \subseteq Nat
  /\ \A i \in DOMAIN new \ DOMAIN old : \A k \in DOMAIN old : k < i
  /\ \A i \in DOMAIN old : old[i] = "completed" => new[i] = "completed"
  /\ \A i \in DOMAIN new : new[i] = "completed" =>
       \/ i \in DOMAIN old /\ old[i] = "completed"
       \/ \E t \in agentThreads : t.stage = "report" /\ ChildOf(t) = a /\ t.turn = i

LEMMA MessagesMove ==
  ASSUME ChildTypeOK, TurnIsFirst, NEW a \in Agents, Moved(a)
  PROVE  MessagesLast(a)
<1> DEFINE old == agents[a].messages
           new == agents'[a].messages
<1>1. agents[a] \in Children /\ old \in Seq(MessageStatuses)
      /\ Sent(a).messages = Append(old, "pending")
  BY ChildrenAreTyped
<1>2. DOMAIN old = 1 .. Len(old) /\ Len(old) \in Nat
  BY <1>1, LenProperties
<1>3. CASE new = old
  BY <1>2, <1>3 DEF MessagesLast
<1>4. CASE new = Append(old, "pending")
  <2>1. /\ DOMAIN new = 1 .. Len(old) + 1
        /\ \A i \in DOMAIN old : new[i] = old[i]
        /\ new[Len(old) + 1] = "pending"
    BY <1>1, <1>4, SentMessages
  <2> HIDE DEF old, new
  <2>2. /\ DOMAIN old \subseteq DOMAIN new /\ DOMAIN new \subseteq Nat
        /\ \A i \in DOMAIN new \ DOMAIN old : i = Len(old) + 1
    BY <1>2, <2>1
  <2>3. \A i \in DOMAIN new \ DOMAIN old : \A k \in DOMAIN old : k < i
    BY <1>2, <2>1
  <2> QED BY <2>1, <2>2, <2>3 DEF MessagesLast, old, new
<1>5. ASSUME NEW i \in DOMAIN old, NEW s, Stamped(a, i, s),
             s = "completed" \/ old[i] # "completed",
             s = "completed" =>
               \E t \in agentThreads : t.stage = "report" /\ ChildOf(t) = a /\ t.turn = i
      PROVE  MessagesLast(a)
  <2>1. new = [old EXCEPT ![i] = s]
    BY <1>1, <1>5 DEF Stamped, Children
  <2> HIDE DEF old, new
  <2>2. DOMAIN new = DOMAIN old /\ new[i] = s /\ \A k \in DOMAIN old \ {i} : new[k] = old[k]
    BY <1>2, <2>1
  <2> QED BY <1>2, <1>5, <2>2 DEF MessagesLast, old, new
<1>6. CASE Kept(a) \/ Born(a) \/ Marked(a) \/ Queued(a) \/ \E k \in JobIds : Started(a, k)
  BY <1>1, <1>3, <1>4, <1>6, NewRecord DEF Kept, Queued
<1>7. CASE Claimed(a)
  BY <1>5, <1>7, NextTurnIsFirst DEF Claimed
<1>8. CASE Reported(a)
  BY <1>5, <1>8 DEF Reported, TurnIsFirst
<1> QED BY <1>6, <1>7, <1>8 DEF Moved

LEMMA TurnsStayInOrder ==
  ASSUME ChildTypeOK, TurnIsFirst, FifoTurns, \A a \in Agents : Moved(a)
  PROVE  FifoTurns'
<1> SUFFICES ASSUME NEW a \in Agents, NEW i \in DOMAIN agents'[a].messages,
                    NEW k \in DOMAIN agents'[a].messages, i < k,
                    agents'[a].messages[k] = "completed"
             PROVE  agents'[a].messages[i] = "completed"
  BY DEF FifoTurns
<1> DEFINE old == agents[a].messages
           new == agents'[a].messages
<1>1. MessagesLast(a)
  BY MessagesMove
<1>2. /\ DOMAIN new \subseteq Nat
      /\ \A n \in DOMAIN new \ DOMAIN old : \A m \in DOMAIN old : m < n
      /\ \A n \in DOMAIN old : old[n] = "completed" => new[n] = "completed"
      /\ \/ k \in DOMAIN old /\ old[k] = "completed"
         \/ \E t \in agentThreads : t.stage = "report" /\ ChildOf(t) = a /\ t.turn = k
  BY <1>1 DEF MessagesLast
<1>3. k \in DOMAIN old /\ \A n \in DOMAIN old : n < k => old[n] = "completed"
  BY <1>2 DEF FifoTurns, TurnIsFirst
<1>4. i \in DOMAIN old
  BY <1>2, <1>3
<1> QED BY <1>2, <1>3, <1>4

LEMMA TurnsStayFirst ==
  ASSUME Sensible, ChildTypeOK, JobsHaveChildren, ThreadsHaveJobs, TurnIsFirst, JobsLast,
         \A a \in Agents : Moved(a), \A u \in agentThreads' : Comes(u)
  PROVE  TurnIsFirst'
<1> SUFFICES ASSUME NEW u \in agentThreads', u.stage \in {"turn", "report"}
             PROVE  LET messages == agents'[jobs'[u.job].agent].messages IN
                    /\ u.turn \in DOMAIN messages
                    /\ \A i \in DOMAIN messages : i < u.turn => messages[i] = "completed"
  BY DEF TurnIsFirst, ChildOf
<1>1. PICK t \in agentThreads :
        /\ t.job = u.job
        /\ \/ t.stage \in {"turn", "report"} /\ t.turn = u.turn
           \/ u.turn \in NextTurn(ChildOf(t))
  BY DEF Comes
<1> DEFINE a == ChildOf(t)
           old == agents[a].messages
           new == agents'[a].messages
<1>2. t.job \in JobIds /\ a \in Agents /\ jobs'[u.job].agent = a
  <2>1. t.job \in JobIds /\ jobs[t.job].status # "absent"
    BY DEF ChildTypeOK, Threads, ThreadsHaveJobs
  <2> QED BY <1>1, <2>1 DEF JobsHaveChildren, JobsLast, Lasts, ChildOf
<1>3. u.turn \in DOMAIN old /\ \A i \in DOMAIN old : i < u.turn => old[i] = "completed"
  BY <1>1, <1>2, NextTurnIsFirst DEF TurnIsFirst
<1>4. /\ DOMAIN old \subseteq DOMAIN new /\ DOMAIN new \subseteq Nat
      /\ \A i \in DOMAIN new \ DOMAIN old : \A k \in DOMAIN old : k < i
      /\ \A i \in DOMAIN old : old[i] = "completed" => new[i] = "completed"
  BY <1>2, MessagesMove DEF MessagesLast
<1>5. u.turn \in DOMAIN new /\ \A i \in DOMAIN new : i < u.turn => new[i] = "completed"
  <2> HIDE DEF old, new
  <2> QED BY <1>3, <1>4
<1> QED BY <1>2, <1>5

-----------------------------------------------------------------------------
(* Idle children and ended jobs *)

LEMMA IdleStaysDrained ==
  ASSUME ChildTypeOK, TurnIsFirst, IdleMeansDrained, \A a \in Agents : Moved(a)
  PROVE  IdleMeansDrained'
<1> SUFFICES ASSUME NEW a \in Agents, agents'[a].status = "idle"
             PROVE  \A i \in DOMAIN agents'[a].messages :
                      agents'[a].messages[i] = "completed"
  BY DEF IdleMeansDrained, Unfinished
<1> DEFINE old == agents[a].messages
           new == agents'[a].messages
<1>1. CASE Unfinished(a) = {} /\ new = old
  BY <1>1 DEF Unfinished
<1>2. CASE Kept(a) \/ Marked(a)
  <2>1. agents[a].status = "idle" \/ Unfinished(a) = {}
    <3>1. CASE Marked(a)
      <4>1. PICK s \in AgentStatuses : /\ agents'[a] = [agents[a] EXCEPT !.status = s]
                                       /\ s = "idle" => Unfinished(a) = {}
        BY <3>1 DEF Marked
      <4>2. s = "idle"
        BY <4>1, ChildrenAreTyped, MarkedChild
      <4> QED BY <4>1, <4>2
    <3> QED BY <1>2, <3>1 DEF Kept
  <2>2. new = old
    BY <1>2, NewRecord DEF Kept
  <2> QED BY <1>1, <2>1, <2>2 DEF IdleMeansDrained
<1>3. ~ Born(a) /\ ~ Queued(a) /\ ~ \E k \in JobIds : Started(a, k)
  <2>1. ~ Born(a)
    BY ChildrenAreTyped, MarkedChild DEF Born, AgentStatuses
  <2>2. ~ Queued(a)
    BY ChildrenAreTyped DEF Queued, OnlyQueues
  <2> QED BY <2>1, <2>2, NewRecord
<1>4. ~ Claimed(a) \/ Unfinished(a) # {}
  BY DEF Claimed, NextTurn
<1>5. CASE Reported(a)
  <2>1. agents[a].status = "idle"
    BY <1>5, NewRecord
  <2>2. \A i \in DOMAIN old : old[i] = "completed"
    BY <2>1 DEF IdleMeansDrained, Unfinished
  <2>3. PICK t \in agentThreads : t.turn \in DOMAIN old /\ Stamped(a, t.turn, "completed")
    BY <1>5 DEF Reported, TurnIsFirst
  <2>4. new = [old EXCEPT ![t.turn] = "completed"]
    BY <2>3, ChildrenAreTyped DEF Stamped, Children
  <2> HIDE DEF old, new
  <2> QED BY <2>2, <2>4 DEF old, new
<1>6. CASE Claimed(a)
  BY <1>4, <1>6, NewRecord DEF IdleMeansDrained
<1> QED BY <1>2, <1>3, <1>5, <1>6 DEF Moved

LEMMA EndingsStayAnnounced ==
  ASSUME Sensible, ChildTypeOK, JobsHaveChildren, ThreadsHaveJobs, TurnIsFirst,
         EndingIsAnnounced, JobsLast, \A a \in Agents : Moved(a), \A u \in agentThreads' : Comes(u)
  PROVE  EndingIsAnnounced'
<1> SUFFICES ASSUME NEW u \in agentThreads', u.stage \in {"return", "finish", "fail"},
                    agents'[jobs'[u.job].agent].status = "running",
                    agents'[jobs'[u.job].agent].job = u.job
             PROVE  FALSE
  BY DEF EndingIsAnnounced, ChildOf
<1>1. PICK t \in agentThreads :
        /\ t.job = u.job
        /\ \/ t.stage \in {"return", "finish", "fail"}
           \/ SetAgentStatus(ChildOf(t), "idle") \/ SetAgentStatus(ChildOf(t), "failed")
  BY DEF Comes
<1> DEFINE a == ChildOf(t)
<1>2. t.job \in JobIds /\ a \in Agents /\ jobs'[u.job].agent = a /\ jobs[t.job].status # "absent"
  <2>1. t.job \in JobIds /\ jobs[t.job].status # "absent"
    BY DEF ChildTypeOK, Threads, ThreadsHaveJobs
  <2> QED BY <1>1, <2>1 DEF JobsHaveChildren, JobsLast, Lasts, ChildOf
<1>3. CASE SetAgentStatus(a, "idle") \/ SetAgentStatus(a, "failed")
  <2>1. agents'[a].status \in {"idle", "failed"}
    <3>1. PICK s \in {"idle", "failed"} :
            agents' = [agents EXCEPT ![a] = [agents[a] EXCEPT !.status = s]]
      BY <1>3 DEF SetAgentStatus
    <3>2. agents'[a] = [agents[a] EXCEPT !.status = s]
      BY <1>2, <3>1, OneByOne
    <3> QED BY <1>2, <3>2, ChildrenAreTyped, MarkedChild DEF AgentStatuses
  <2> QED BY <1>2, <2>1
<1>4. CASE t.stage \in {"return", "finish", "fail"}
  <2>1. ~ (agents[a].status = "running" /\ agents[a].job = t.job)
    BY <1>4 DEF EndingIsAnnounced
  <2>2. ~ \E k \in JobIds : Started(a, k)
    <3>1. ASSUME NEW k \in JobIds, Started(a, k) PROVE FALSE
      <4>1. agents'[a].job = k
        BY <1>2, <3>1, NewRecord
      <4>2. jobs[k].status = "absent"
        BY <3>1 DEF Started
      <4> QED BY <1>1, <1>2, <4>1, <4>2
    <3> QED BY <3>1
  <2>3. agents'[a].status = agents[a].status /\ agents'[a].job = agents[a].job
    BY <1>2, <2>2, NewRecord, ChildrenAreTyped DEF Moved, Kept, Queued
  <2> QED BY <1>1, <1>2, <2>1, <2>3
<1> QED BY <1>1, <1>3, <1>4

LEMMA EndedJobsStayFree ==
  ASSUME Sensible, ChildTypeOK, UsedChildHasJob, ChildOwnsJob, TurnIsFirst, EndingIsAnnounced,
         EndedJobFreesChild, JobsLast, \A a \in Agents : Moved(a)
  PROVE  EndedJobFreesChild'
<1> SUFFICES ASSUME NEW a \in Agents, agents'[a].status = "running",
                    jobs'[agents'[a].job].status \in {"completed", "failed"}
             PROVE  FALSE
  BY DEF EndedJobFreesChild
<1>1. ~ \E k \in JobIds : Started(a, k)
  <2>1. ASSUME NEW k \in JobIds, Started(a, k) PROVE FALSE
    <3>1. agents'[a].job = k
      BY <2>1, NewRecord
    <3>2. jobs'[k].status = "running"
      BY <2>1 DEF Started
    <3> QED BY <3>1, <3>2
  <2> QED BY <2>1
<1>2. agents[a].status = "running" /\ agents'[a].job = agents[a].job
  BY <1>1, NewRecord, ChildrenAreTyped DEF Moved, Kept, Queued
<1>3. agents[a].job \in JobIds
  BY <1>2 DEF UsedChildHasJob
<1>4. PICK t \in agentThreads : t.job = agents[a].job /\ t.stage \in {"finish", "fail"}
  BY <1>2, <1>3 DEF JobsLast, Lasts, EndedJobFreesChild
<1>5. ChildOf(t) = a
  BY <1>3, <1>4 DEF ChildOwnsJob, ChildOf, Sensible
<1> QED BY <1>2, <1>4, <1>5 DEF EndingIsAnnounced

-----------------------------------------------------------------------------
(* The theorems *)

LEMMA InvStarts == ChildInit => AgentsInv
<1> SUFFICES ASSUME ChildInit PROVE AgentsInv
  OBVIOUS
<1>1. ChildTypeOK
  <2>1. [status |-> "absent", job |-> Nil, messages |-> <<>>] \in Children
    BY EmptySeq DEF Children, AgentStatuses
  <2>2. [status |-> "absent", epoch |-> 0, lease |-> FALSE, agent |-> Nil] \in JobRecords
    BY DEF JobRecords, JobStatuses
  <2> QED BY <2>1, <2>2 DEF ChildInit, ChildTypeOK, RunControls, Supervisors
<1> QED BY <1>1 DEF ChildInit, AgentsInv, JobsHaveChildren, ThreadsHaveJobs, UsedChildHasJob,
      ChildOwnsJob, TurnIsFirst, EndingIsAnnounced, FifoTurns, IdleMeansDrained,
      EndedJobFreesChild, Unfinished

(* What children, jobs and threads say of each other, at every step of the *)
(* web, of tools, of supervisors and of threads however stale.             *)
THEOREM AgentsInvHolds ==
  ASSUME Sensible
  PROVE  ChildSpec => []AgentsInv
<1>1. AgentsInv /\ [ChildNext]_childVars => AgentsInv'
  <2> SUFFICES ASSUME AgentsInv, [ChildNext]_childVars PROVE AgentsInv'
    OBVIOUS
  <2>1. ChildTypeOK' /\ JobsHaveChildren' /\ ThreadsHaveJobs' /\ UsedChildHasJob' /\ ChildOwnsJob'
    BY TypesGoOn, JobsOfChildren DEF AgentsInv
  <2>2. JobsLast /\ (\A a \in Agents : Moved(a)) /\ \A u \in agentThreads' : Comes(u)
    BY JobsMove, ChildrenMove, ThreadsMove DEF AgentsInv
  <2>3. TurnIsFirst' /\ FifoTurns' /\ IdleMeansDrained'
    BY <2>2, TurnsStayFirst, TurnsStayInOrder, IdleStaysDrained DEF AgentsInv
  <2>4. EndingIsAnnounced' /\ EndedJobFreesChild'
    BY <2>2, EndingsStayAnnounced, EndedJobsStayFree DEF AgentsInv
  <2> QED BY <2>1, <2>3, <2>4 DEF AgentsInv
<1> QED BY <1>1, InvStarts, PTL DEF ChildSpec

(* A child's messages are completed in the order in which they were sent.  *)
THEOREM FifoTurnsHolds ==
  ASSUME Sensible
  PROVE  ChildSpec => []FifoTurns
<1>1. AgentsInv => FifoTurns
  BY DEF AgentsInv
<1> QED BY <1>1, AgentsInvHolds, PTL

(* A child is idle only with nothing left in its queue.                    *)
THEOREM IdleMeansDrainedHolds ==
  ASSUME Sensible
  PROVE  ChildSpec => []IdleMeansDrained
<1>1. AgentsInv => IdleMeansDrained
  BY DEF AgentsInv
<1> QED BY <1>1, AgentsInvHolds, PTL

(* A child is not left running by a job that completed or failed.          *)
THEOREM EndedJobFreesChildHolds ==
  ASSUME Sensible
  PROVE  ChildSpec => []EndedJobFreesChild
<1>1. AgentsInv => EndedJobFreesChild
  BY DEF AgentsInv
<1> QED BY <1>1, AgentsInvHolds, PTL

-----------------------------------------------------------------------------
(* Delegated children: the inductive invariant.                            *)

WorkerRecords ==
  [stage : TreeStages, call : Nat, depth : Nat, node : Nat, requests : Nat, ok : BOOLEAN]
NodeRecords == [parent : Nat, depth : Nat, status : {"running", "completed", "failed"}]
DelegationRecords == [caller : Nat, open : BOOLEAN, ok : BOOLEAN]

TreeTypeOK ==
  /\ tree \in Seq(NodeRecords) /\ continuable \in Nat
  /\ workers \in Seq(WorkerRecords) /\ Len(workers) >= 1
  /\ calls \in Seq(DelegationRecords)

(* What a thread knows of its call and its node. *)
WorkersKnown ==
  \A a \in DOMAIN workers :
    LET w == workers[a] IN
    /\ w.depth <= MaxDepth /\ w.node <= Len(tree) /\ w.call <= Len(calls)
    /\ w.call = 0 <=> a = Supervisor
    /\ w.stage \in {"start", "again", "lastRequest", "store"} => a # Supervisor
    /\ a = Supervisor => w.node = 0
    /\ w.stage = "start" => w.node = 0 /\ ~w.ok
    /\ a # Supervisor /\ w.stage \notin {"start", "over"} => w.node > 0

(* A thread that is over left its outcome in the tree, if it had a node. *)
OutcomesStored ==
  \A a \in DOMAIN workers :
    LET w == workers[a] IN
    a # Supervisor /\ w.stage = "over" =>
      /\ w.node > 0 => tree[w.node].status # "running"
      /\ w.ok <=> w.node > 0 /\ tree[w.node].status = "completed"

(* No two threads have the same node. *)
NodesDiffer ==
  \A a, b \in DOMAIN workers : a # b /\ workers[a].node = workers[b].node => workers[a].node = 0

(* The callers are threads, and a call that returned has nothing open. *)
CallsKnown ==
  \A c \in DOMAIN calls :
    /\ calls[c].caller \in DOMAIN workers
    /\ ~calls[c].open =>
         /\ \A a \in DOMAIN workers : workers[a].call = c => workers[a].stage = "over"
         /\ calls[c].ok <=> \A a \in DOMAIN workers : workers[a].call = c => workers[a].ok

(* The conjunction, with the bounds. *)
TreeInv ==
  TreeTypeOK /\ WorkersKnown /\ OutcomesStored /\ NodesDiffer /\ CallsKnown /\ AgentsBounded

LEMMA OneWorkerMoves ==
  ASSUME TreeTypeOK, NEW a \in DOMAIN workers, NEW w \in WorkerRecords,
         workers' = [workers EXCEPT ![a] = w]
  PROVE  /\ workers' \in Seq(WorkerRecords) /\ Len(workers') = Len(workers)
         /\ DOMAIN workers' = DOMAIN workers
         /\ \A b \in DOMAIN workers : workers'[b] = IF b = a THEN w ELSE workers[b]
<1>1. DOMAIN workers = 1 .. Len(workers) /\ workers \in Seq(WorkerRecords)
  BY LenProperties DEF TreeTypeOK
<1>2. a \in 1 .. Len(workers)
  BY <1>1
<1>3. /\ workers' \in Seq(WorkerRecords) /\ Len(workers') = Len(workers)
      /\ \A b \in 1 .. Len(workers) : workers'[b] = IF b = a THEN w ELSE workers[b]
  BY <1>1, <1>2, ExceptSeq
<1> QED BY <1>1, <1>3, LenProperties

LEMMA WorkerIsTyped ==
  ASSUME TreeTypeOK, NEW a \in DOMAIN workers
  PROVE  workers[a] \in WorkerRecords /\ a \in Nat /\ Supervisor \in DOMAIN workers
<1>1. DOMAIN workers = 1 .. Len(workers) /\ Len(workers) \in Nat
  BY LenProperties DEF TreeTypeOK
<1> QED BY <1>1, ElementOfSeq DEF TreeTypeOK, Supervisor

(* Calls that returned do not notice a thread of another one. *)
LEMMA CallsGoOn ==
  ASSUME CallsKnown, NEW a \in DOMAIN workers, calls' = calls, DOMAIN workers' = DOMAIN workers,
         \A b \in DOMAIN workers : b # a => workers'[b] = workers[b],
         workers'[a].call = workers[a].call,
         \A c \in DOMAIN calls : ~calls[c].open => workers[a].call # c
  PROVE  CallsKnown'
<1> SUFFICES ASSUME NEW c \in DOMAIN calls
             PROVE  /\ calls[c].caller \in DOMAIN workers
                    /\ ~calls[c].open =>
                         /\ \A b \in DOMAIN workers : workers'[b].call = c => workers'[b].stage = "over"
                         /\ calls[c].ok <=> \A b \in DOMAIN workers : workers'[b].call = c => workers'[b].ok
  BY DEF CallsKnown
<1> QED BY DEF CallsKnown

(* A thread goes on between its start and its end. *)
LEMMA MovingKeeps ==
  ASSUME TreeInv, NEW a \in DOMAIN workers, NEW w \in WorkerRecords,
         workers' = [workers EXCEPT ![a] = w],
         w.call = workers[a].call, w.depth = workers[a].depth, w.node = workers[a].node,
         workers[a].stage \notin {"start", "over"}, w.stage # "start",
         w.stage = "over" => a = Supervisor,
         w.stage \in {"again", "lastRequest", "store"} => a # Supervisor,
         UNCHANGED <<tree, continuable, calls>>
  PROVE  TreeInv'
<1>1. /\ TreeTypeOK /\ workers' \in Seq(WorkerRecords) /\ Len(workers') = Len(workers)
      /\ DOMAIN workers' = DOMAIN workers
      /\ \A b \in DOMAIN workers : workers'[b] = IF b = a THEN w ELSE workers[b]
  BY OneWorkerMoves DEF TreeInv
<1>2. TreeTypeOK'
  BY <1>1 DEF TreeTypeOK
<1>3. WorkersKnown'
  BY <1>1 DEF TreeInv, WorkersKnown
<1>4. OutcomesStored'
  BY <1>1 DEF TreeInv, OutcomesStored
<1>5. NodesDiffer'
  BY <1>1 DEF TreeInv, NodesDiffer
<1>6. CallsKnown'
  <2>1. \A c \in DOMAIN calls : ~calls[c].open => workers[a].call # c
    BY DEF TreeInv, CallsKnown
  <2> QED BY <1>1, <2>1, CallsGoOn DEF TreeInv
<1>7. AgentsBounded'
  BY DEF TreeInv, AgentsBounded
<1> QED BY <1>2, <1>3, <1>4, <1>5, <1>6, <1>7 DEF TreeInv

LEMMA RequestsKeep ==
  ASSUME TreeInv, NEW a \in DOMAIN workers,
         Request(a) \/ Reply(a) \/ Exhausted(a) \/ ToolsReturn(a) \/ RecoverEnds(a)
  PROVE  TreeInv'
<1> DEFINE Stands(w) ==
      /\ w \in WorkerRecords /\ w.call = workers[a].call /\ w.depth = workers[a].depth
      /\ w.node = workers[a].node
<1>1. /\ workers[a] \in WorkerRecords
      /\ WorkersKnown
  BY WorkerIsTyped DEF TreeInv
<1>2. UNCHANGED <<tree, continuable, calls>> /\ workers[a].stage \notin {"start", "over"}
  BY DEF Request, Reply, Exhausted, ToolsReturn, RecoverEnds, At
<1>3. ASSUME NEW stage \in TreeStages \ {"start", "over", "store"}, GotoStage(a, stage),
             stage \in {"again", "lastRequest"} => a # Supervisor
      PROVE  TreeInv'
  <2>1. workers' = [workers EXCEPT ![a] = [workers[a] EXCEPT !.stage = stage]]
    BY <1>3 DEF GotoStage
  <2>2. Stands([workers[a] EXCEPT !.stage = stage]) /\ [workers[a] EXCEPT !.stage = stage].stage = stage
    BY <1>1 DEF WorkerRecords
  <2> QED BY <1>2, <1>3, <2>1, <2>2, MovingKeeps
<1>4. ASSUME NEW outcome \in {"ok", "invalid", "raised"}, Ends(a, outcome)
      PROVE  TreeInv'
  <2> DEFINE stage == IF a = Supervisor THEN "over" ELSE IF outcome = "invalid" THEN "again" ELSE "store"
             w == [[workers[a] EXCEPT !.ok = (outcome = "ok")] EXCEPT !.stage = stage]
  <2>1. workers' = [workers EXCEPT ![a] = w]
    BY <1>4 DEF Ends
  <2>2. stage \in TreeStages /\ (stage = "over" => a = Supervisor) /\ stage # "start"
        /\ (stage \in {"again", "lastRequest", "store"} => a # Supervisor)
    BY DEF TreeStages
  <2> HIDE DEF stage
  <2>3. Stands(w) /\ w.stage = stage
    BY <1>1, <2>2 DEF WorkerRecords
  <2> HIDE DEF w
  <2> QED BY <1>2, <2>1, <2>2, <2>3, MovingKeeps
<1>5. CASE Request(a)
  <2>1. CASE At(a, "run") /\ GotoStage(a, "request")
    BY <1>3, <2>1 DEF TreeStages
  <2>2. CASE At(a, "again") /\ GotoStage(a, "lastRequest")
    <3>1. a # Supervisor
      BY <1>1, <2>2 DEF WorkersKnown, At
    <3> QED BY <1>3, <2>2, <3>1 DEF TreeStages
  <2> QED BY <1>5, <2>1, <2>2 DEF Request
<1>6. CASE Reply(a)
  <2>1. CASE workers' = [workers EXCEPT ![a].stage = "run", ![a].requests = @ + 1]
    <3> DEFINE requests == workers[a].requests + 1
               w == [[workers[a] EXCEPT !.stage = "run"] EXCEPT !.requests = requests]
    <3>1. workers' = [workers EXCEPT ![a] = w]
      BY <2>1
    <3>3. requests \in Nat
      BY <1>1 DEF WorkerRecords
    <3> HIDE DEF requests
    <3>2. Stands(w) /\ w.stage = "run"
      BY <1>1, <3>3 DEF WorkerRecords, TreeStages
    <3> HIDE DEF w
    <3> QED BY <1>2, <3>1, <3>2, MovingKeeps
  <2>2. CASE \E outcome \in {"ok", "invalid", "raised"} : Ends(a, outcome)
    BY <1>4, <2>2
  <2> QED BY <1>6, <2>1, <2>2 DEF Reply
<1>7. CASE Exhausted(a)
  BY <1>4, <1>7 DEF Exhausted
<1>8. CASE ToolsReturn(a)
  BY <1>3, <1>8 DEF ToolsReturn, TreeStages
<1>9. CASE RecoverEnds(a)
  <2>1. PICK ok \in BOOLEAN : workers' = [workers EXCEPT ![a].stage = "store", ![a].ok = ok]
    BY <1>9 DEF RecoverEnds
  <2> DEFINE w == [[workers[a] EXCEPT !.stage = "store"] EXCEPT !.ok = ok]
  <2>2. workers' = [workers EXCEPT ![a] = w]
    BY <2>1
  <2>3. Stands(w) /\ w.stage = "store"
    BY <1>1 DEF WorkerRecords, TreeStages
  <2>4. a # Supervisor
    BY <1>1, <1>9 DEF WorkersKnown, RecoverEnds, At
  <2> HIDE DEF w
  <2> QED BY <1>2, <2>2, <2>3, <2>4, MovingKeeps
<1> QED BY <1>5, <1>6, <1>7, <1>8, <1>9

LEMMA AddNodeKeeps ==
  ASSUME TreeInv, NEW a \in DOMAIN workers, AddNode(a)
  PROVE  TreeInv'
<1>1. /\ TreeTypeOK /\ workers[a] \in WorkerRecords /\ WorkersKnown /\ CallsKnown /\ AgentsBounded
      /\ Len(tree) \in Nat /\ DOMAIN tree = 1 .. Len(tree) /\ DOMAIN calls = 1 .. Len(calls)
      /\ Len(calls) \in Nat
  BY WorkerIsTyped, LenProperties DEF TreeInv, TreeTypeOK
<1>2. /\ workers[a].stage = "start" /\ workers[a].node = 0 /\ ~workers[a].ok /\ a # Supervisor
      /\ UNCHANGED <<continuable, calls>>
  BY <1>1 DEF AddNode, At, WorkersKnown
<1>3. CASE Full /\ GotoStage(a, "over") /\ UNCHANGED tree
  <2> DEFINE w == [workers[a] EXCEPT !.stage = "over"]
  <2>1. workers' = [workers EXCEPT ![a] = w]
    BY <1>3 DEF GotoStage
  <2>2. /\ w \in WorkerRecords /\ w.stage = "over" /\ w.node = 0 /\ ~w.ok
        /\ w.call = workers[a].call /\ w.depth = workers[a].depth
    BY <1>1, <1>2 DEF WorkerRecords, TreeStages
  <2> HIDE DEF w
  <2>3. /\ workers' \in Seq(WorkerRecords) /\ Len(workers') = Len(workers)
        /\ DOMAIN workers' = DOMAIN workers
        /\ \A b \in DOMAIN workers : workers'[b] = IF b = a THEN w ELSE workers[b]
    BY <1>1, <2>1, <2>2, OneWorkerMoves
  <2>4. TreeTypeOK'
    BY <1>1, <1>2, <1>3, <2>3 DEF TreeTypeOK
  <2>5. WorkersKnown'
    BY <1>1, <1>2, <1>3, <2>2, <2>3 DEF WorkersKnown
  <2>6. OutcomesStored'
    BY <1>1, <1>2, <1>3, <2>2, <2>3 DEF TreeInv, OutcomesStored
  <2>7. NodesDiffer'
    BY <1>2, <2>2, <2>3 DEF TreeInv, NodesDiffer
  <2>8. CallsKnown'
    <3>1. \A c \in DOMAIN calls : ~calls[c].open => workers[a].call # c
      BY <1>1, <1>2 DEF CallsKnown
    <3> QED BY <1>1, <1>2, <2>2, <2>3, <3>1, CallsGoOn
  <2>9. AgentsBounded'
    BY <1>1, <1>2, <1>3 DEF AgentsBounded
  <2> QED BY <2>4, <2>5, <2>6, <2>7, <2>8, <2>9 DEF TreeInv
<1>4. CASE /\ ~Full
           /\ tree' = Append(tree, [parent |-> workers[calls[workers[a].call].caller].node,
                                    depth |-> workers[a].depth, status |-> "running"])
           /\ workers' = [workers EXCEPT ![a].stage = "run", ![a].node = Len(tree) + 1]
  <2> DEFINE node == [parent |-> workers[calls[workers[a].call].caller].node,
                      depth |-> workers[a].depth, status |-> "running"]
             length == Len(tree) + 1
             w == [[workers[a] EXCEPT !.stage = "run"] EXCEPT !.node = length]
  <2>1. workers[a].call \in DOMAIN calls
    BY <1>1, <1>2 DEF WorkersKnown, WorkerRecords
  <2>2. workers[calls[workers[a].call].caller] \in WorkerRecords
    BY <1>1, <2>1, WorkerIsTyped DEF CallsKnown
  <2>3. node \in NodeRecords /\ node.depth = workers[a].depth /\ node.status = "running"
    BY <1>1, <2>2 DEF NodeRecords, WorkerRecords
  <2>4. length \in Nat /\ length = Len(tree) + 1 /\ tree' = Append(tree, node)
    BY <1>1, <1>4
  <2>5. workers' = [workers EXCEPT ![a] = w]
    BY <1>4
  <2> HIDE DEF node, length
  <2>6. /\ w \in WorkerRecords /\ w.stage = "run" /\ w.node = length /\ w.ok = workers[a].ok
        /\ w.call = workers[a].call /\ w.depth = workers[a].depth
    BY <1>1, <2>4 DEF WorkerRecords, TreeStages
  <2> HIDE DEF w
  <2>7. /\ workers' \in Seq(WorkerRecords) /\ Len(workers') = Len(workers)
        /\ DOMAIN workers' = DOMAIN workers
        /\ \A b \in DOMAIN workers : workers'[b] = IF b = a THEN w ELSE workers[b]
    BY <1>1, <2>5, <2>6, OneWorkerMoves
  <2>8. /\ tree' \in Seq(NodeRecords) /\ Len(tree') = Len(tree) + 1
        /\ \A i \in 1 .. Len(tree) : tree'[i] = tree[i]
        /\ tree'[Len(tree) + 1] = node /\ DOMAIN tree' = 1 .. Len(tree) + 1
    <3>1. tree \in Seq(NodeRecords)
      BY <1>1 DEF TreeTypeOK
    <3>2. /\ Append(tree, node) \in Seq(NodeRecords) /\ Len(Append(tree, node)) = Len(tree) + 1
          /\ \A i \in 1 .. Len(tree) : Append(tree, node)[i] = tree[i]
          /\ Append(tree, node)[Len(tree) + 1] = node
      BY <2>3, <3>1, AppendProperties
    <3>3. DOMAIN Append(tree, node) = 1 .. Len(Append(tree, node))
      BY <3>2, LenProperties
    <3> QED BY <2>4, <3>2, <3>3
  <2>9. TreeTypeOK'
    BY <1>1, <1>2, <2>7, <2>8 DEF TreeTypeOK
  <2>10. \A b \in DOMAIN workers : workers[b].node \in 0 .. Len(tree)
    BY <1>1, WorkerIsTyped DEF WorkersKnown, WorkerRecords
  <2>11. WorkersKnown'
    <3> SUFFICES ASSUME NEW b \in DOMAIN workers
                 PROVE  LET u == workers'[b] IN
                        /\ u.depth <= MaxDepth /\ u.node <= Len(tree') /\ u.call <= Len(calls)
                        /\ u.call = 0 <=> b = Supervisor
                        /\ u.stage \in {"start", "again", "lastRequest", "store"} => b # Supervisor
                        /\ b = Supervisor => u.node = 0
                        /\ u.stage = "start" => u.node = 0 /\ ~u.ok
                        /\ b # Supervisor /\ u.stage \notin {"start", "over"} => u.node > 0
      BY <1>2, <2>7 DEF WorkersKnown
    <3>1. CASE b = a
      BY <1>1, <1>2, <2>4, <2>6, <2>7, <2>8, <3>1 DEF WorkersKnown
    <3>2. CASE b # a
      BY <1>1, <2>7, <2>8, <2>10, <3>2 DEF WorkersKnown
    <3> QED BY <3>1, <3>2
  <2>12. OutcomesStored'
    <3> SUFFICES ASSUME NEW b \in DOMAIN workers, b # Supervisor, workers'[b].stage = "over"
                 PROVE  LET u == workers'[b] IN
                        /\ u.node > 0 => tree'[u.node].status # "running"
                        /\ u.ok <=> u.node > 0 /\ tree'[u.node].status = "completed"
      BY <2>7 DEF OutcomesStored
    <3>1. workers'[b] = workers[b]
      BY <2>6, <2>7
    <3>2. workers[b].node > 0 => tree'[workers[b].node] = tree[workers[b].node]
      BY <1>1, <2>8, <2>10
    <3> QED BY <3>1, <3>2 DEF TreeInv, OutcomesStored
  <2>13. NodesDiffer'
    <3>1. \A b \in DOMAIN workers \ {a} : workers[b].node # length
      BY <1>1, <2>4, <2>10
    <3> QED BY <2>6, <2>7, <3>1 DEF TreeInv, NodesDiffer
  <2>14. CallsKnown'
    <3>1. \A c \in DOMAIN calls : ~calls[c].open => workers[a].call # c
      BY <1>1, <1>2 DEF CallsKnown
    <3> QED BY <1>1, <1>2, <2>6, <2>7, <3>1, CallsGoOn
  <2>15. AgentsBounded'
    <3>1. Len(tree') + continuable <= TreeCap
      BY <1>1, <1>4, <2>8, SubagentsAssumption DEF Full, TreeTypeOK
    <3>2. \A i \in DOMAIN tree' : tree'[i].depth <= MaxDepth
      BY <1>1, <2>3, <2>8 DEF AgentsBounded, WorkersKnown
    <3> QED BY <1>2, <3>1, <3>2 DEF AgentsBounded
  <2> QED BY <2>9, <2>11, <2>12, <2>13, <2>14, <2>15 DEF TreeInv
<1> QED BY <1>3, <1>4 DEF AddNode

LEMMA FinishNodeKeeps ==
  ASSUME TreeInv, NEW a \in DOMAIN workers, FinishNode(a)
  PROVE  TreeInv'
<1>1. /\ TreeTypeOK /\ workers[a] \in WorkerRecords /\ WorkersKnown /\ CallsKnown /\ AgentsBounded
      /\ tree \in Seq(NodeRecords) /\ Len(tree) \in Nat /\ DOMAIN tree = 1 .. Len(tree)
      /\ \A b \in DOMAIN workers : workers[b].node \in 0 .. Len(tree)
  BY WorkerIsTyped, LenProperties DEF TreeInv, TreeTypeOK, WorkersKnown, WorkerRecords
<1> DEFINE n == workers[a].node
           status == IF workers[a].ok THEN "completed" ELSE "failed"
           node == [tree[n] EXCEPT !.status = status]
           w == [workers[a] EXCEPT !.stage = "over"]
<1>2. /\ workers[a].stage = "store" /\ a # Supervisor /\ n \in 1 .. Len(tree)
      /\ UNCHANGED <<continuable, calls>>
  BY <1>1 DEF FinishNode, At, WorkersKnown
<1>3. workers' = [workers EXCEPT ![a] = w] /\ tree' = [tree EXCEPT ![n] = node]
  BY DEF FinishNode, GotoStage
<1>4. status \in {"completed", "failed"} /\ (workers[a].ok <=> status = "completed")
  OBVIOUS
<1> HIDE DEF status
<1>5. node \in NodeRecords /\ node.status = status /\ node.depth = tree[n].depth
  <2>1. tree[n] \in NodeRecords
    BY <1>1, <1>2, ElementOfSeq
  <2> QED BY <1>4, <2>1 DEF NodeRecords
<1>6. /\ w \in WorkerRecords /\ w.stage = "over" /\ w.node = workers[a].node /\ w.ok = workers[a].ok
      /\ w.call = workers[a].call /\ w.depth = workers[a].depth
  BY <1>1 DEF WorkerRecords, TreeStages
<1> HIDE DEF w, node
<1>7. /\ workers' \in Seq(WorkerRecords) /\ Len(workers') = Len(workers)
      /\ DOMAIN workers' = DOMAIN workers
      /\ \A b \in DOMAIN workers : workers'[b] = IF b = a THEN w ELSE workers[b]
  BY <1>1, <1>3, <1>6, OneWorkerMoves
<1>8. /\ tree' \in Seq(NodeRecords) /\ Len(tree') = Len(tree) /\ DOMAIN tree' = DOMAIN tree
      /\ \A i \in DOMAIN tree : tree'[i] = IF i = n THEN node ELSE tree[i]
  <2>1. /\ [tree EXCEPT ![n] = node] \in Seq(NodeRecords) /\ Len([tree EXCEPT ![n] = node]) = Len(tree)
        /\ \A i \in 1 .. Len(tree) : [tree EXCEPT ![n] = node][i] = IF i = n THEN node ELSE tree[i]
    BY <1>1, <1>2, <1>5, ExceptSeq
  <2> QED BY <1>1, <1>3, <2>1, LenProperties
<1>9. TreeTypeOK'
  BY <1>1, <1>2, <1>7, <1>8 DEF TreeTypeOK
<1>10. WorkersKnown'
  BY <1>1, <1>2, <1>6, <1>7, <1>8 DEF WorkersKnown
<1>11. OutcomesStored'
  <2> SUFFICES ASSUME NEW b \in DOMAIN workers, b # Supervisor, workers'[b].stage = "over"
               PROVE  LET u == workers'[b] IN
                      /\ u.node > 0 => tree'[u.node].status # "running"
                      /\ u.ok <=> u.node > 0 /\ tree'[u.node].status = "completed"
    BY <1>7 DEF OutcomesStored
  <2>1. CASE b = a
    BY <1>1, <1>2, <1>4, <1>5, <1>6, <1>7, <1>8, <2>1
  <2>2. CASE b # a
    <3>1. workers'[b] = workers[b] /\ workers[b].node # n
      BY <1>2, <1>7, <2>2 DEF TreeInv, NodesDiffer
    <3>2. workers[b].node > 0 => tree'[workers[b].node] = tree[workers[b].node]
      BY <1>1, <1>8, <3>1
    <3> QED BY <3>1, <3>2 DEF TreeInv, OutcomesStored
  <2> QED BY <2>1, <2>2
<1>12. NodesDiffer'
  BY <1>6, <1>7 DEF TreeInv, NodesDiffer
<1>13. CallsKnown'
  <2>1. \A c \in DOMAIN calls : ~calls[c].open => workers[a].call # c
    BY <1>1, <1>2 DEF CallsKnown
  <2> QED BY <1>1, <1>2, <1>6, <1>7, <2>1, CallsGoOn
<1>14. AgentsBounded'
  BY <1>1, <1>2, <1>5, <1>8 DEF AgentsBounded
<1> QED BY <1>9, <1>10, <1>11, <1>12, <1>13, <1>14 DEF TreeInv

LEMMA CallReturnsKeeps ==
  ASSUME TreeInv, NEW c \in DOMAIN calls, CallReturns(c)
  PROVE  TreeInv'
<1>1. /\ TreeTypeOK /\ calls \in Seq(DelegationRecords) /\ CallsKnown
      /\ Len(calls) \in Nat /\ DOMAIN calls = 1 .. Len(calls)
  BY LenProperties DEF TreeInv, TreeTypeOK
<1> DEFINE ok == \A a \in AgentsOf(c) : workers[a].ok
           call == [[calls[c] EXCEPT !.open = FALSE] EXCEPT !.ok = ok]
<1>2. /\ UNCHANGED <<tree, continuable, workers>> /\ AllIn(c)
      /\ calls' = [calls EXCEPT ![c] = call]
  BY DEF CallReturns
<1>3. ok \in BOOLEAN /\ (ok <=> \A a \in DOMAIN workers : workers[a].call = c => workers[a].ok)
  BY DEF AgentsOf
<1>4. calls[c] \in DelegationRecords
  BY <1>1, ElementOfSeq
<1> HIDE DEF ok
<1>5. /\ call \in DelegationRecords /\ call.open = FALSE /\ call.ok = ok
      /\ call.caller = calls[c].caller
  BY <1>3, <1>4 DEF DelegationRecords
<1> HIDE DEF call
<1>6. /\ calls' \in Seq(DelegationRecords) /\ Len(calls') = Len(calls) /\ DOMAIN calls' = DOMAIN calls
      /\ \A d \in DOMAIN calls : calls'[d] = IF d = c THEN call ELSE calls[d]
  <2>1. c \in 1 .. Len(calls)
    BY <1>1
  <2>2. /\ [calls EXCEPT ![c] = call] \in Seq(DelegationRecords)
        /\ Len([calls EXCEPT ![c] = call]) = Len(calls)
        /\ \A d \in 1 .. Len(calls) : [calls EXCEPT ![c] = call][d] = IF d = c THEN call ELSE calls[d]
    BY <1>1, <1>5, <2>1, ExceptSeq
  <2> QED BY <1>1, <1>2, <2>2, LenProperties
<1>7. TreeTypeOK'
  BY <1>1, <1>2, <1>6 DEF TreeTypeOK
<1>8. WorkersKnown' /\ OutcomesStored' /\ NodesDiffer' /\ AgentsBounded'
  BY <1>2, <1>6 DEF TreeInv, WorkersKnown, OutcomesStored, NodesDiffer, AgentsBounded
<1>9. CallsKnown'
  <2>1. \A a \in DOMAIN workers : workers[a].call = c => workers[a].stage = "over"
    BY <1>2 DEF AllIn, AgentsOf, At
  <2> SUFFICES ASSUME NEW d \in DOMAIN calls
               PROVE  /\ calls'[d].caller \in DOMAIN workers
                      /\ ~calls'[d].open =>
                           /\ \A a \in DOMAIN workers : workers[a].call = d => workers[a].stage = "over"
                           /\ calls'[d].ok <=> \A a \in DOMAIN workers : workers[a].call = d => workers[a].ok
    BY <1>2, <1>6 DEF CallsKnown
  <2>2. CASE d = c
    BY <1>1, <1>3, <1>5, <1>6, <2>1, <2>2 DEF CallsKnown
  <2>3. CASE d # c
    BY <1>1, <1>6, <2>3 DEF CallsKnown
  <2> QED BY <2>2, <2>3
<1> QED BY <1>7, <1>8, <1>9 DEF TreeInv

LEMMA DelegateKeeps ==
  ASSUME TreeInv, NEW a \in DOMAIN workers, NEW tasks \in 1 .. MaxChildren, Delegate(a, tasks)
  PROVE  TreeInv'
<1>1. /\ TreeTypeOK /\ workers[a] \in WorkerRecords /\ WorkersKnown /\ CallsKnown /\ AgentsBounded
      /\ workers \in Seq(WorkerRecords) /\ Len(workers) \in Nat /\ DOMAIN workers = 1 .. Len(workers)
      /\ calls \in Seq(DelegationRecords) /\ Len(calls) \in Nat /\ DOMAIN calls = 1 .. Len(calls)
      /\ tasks \in Nat /\ Len(workers) >= 1
  BY WorkerIsTyped, LenProperties DEF TreeInv, TreeTypeOK
<1> DEFINE old == [workers[a] EXCEPT !.stage = "tools"]
           fresh == [stage |-> "start", call |-> Len(calls) + 1, node |-> 0,
                     depth |-> workers[a].depth + 1, requests |-> 0, ok |-> FALSE]
           call == [caller |-> a, open |-> TRUE, ok |-> FALSE]
           more == [i \in 1 .. tasks |-> fresh]
<1>2. /\ UNCHANGED <<tree, continuable>> /\ calls' = Append(calls, call)
      /\ workers' = [workers EXCEPT ![a] = old] \o more
      /\ workers[a].stage \in {"run", "tools"} /\ workers[a].depth < MaxDepth
  BY DEF Delegate
<1>3. /\ old \in WorkerRecords /\ old.stage = "tools" /\ old.call = workers[a].call
      /\ old.depth = workers[a].depth /\ old.node = workers[a].node /\ old.ok = workers[a].ok
  BY <1>1 DEF WorkerRecords, TreeStages
<1>4. /\ fresh \in WorkerRecords /\ fresh.stage = "start" /\ fresh.call = Len(calls) + 1
      /\ fresh.node = 0 /\ fresh.depth <= MaxDepth /\ ~fresh.ok
  <2>1. Len(calls) + 1 \in Nat /\ workers[a].depth + 1 \in Nat /\ workers[a].depth + 1 <= MaxDepth
    <3>1. workers[a].depth \in Nat /\ Len(calls) \in Nat /\ workers[a].depth < MaxDepth
      BY <1>1, <1>2 DEF WorkerRecords
    <3> QED BY <3>1, SubagentsAssumption
  <2> QED BY <2>1 DEF WorkerRecords, TreeStages
<1>5. call \in DelegationRecords /\ call.caller = a /\ call.open
  BY <1>1 DEF DelegationRecords
<1> HIDE DEF old, fresh, call
<1>6. more \in Seq(WorkerRecords) /\ Len(more) = tasks /\ \A i \in 1 .. tasks : more[i] = fresh
  BY <1>1, <1>4, IsASeq
<1> HIDE DEF more
<1>7. /\ [workers EXCEPT ![a] = old] \in Seq(WorkerRecords)
      /\ Len([workers EXCEPT ![a] = old]) = Len(workers)
      /\ \A b \in 1 .. Len(workers) : [workers EXCEPT ![a] = old][b] = IF b = a THEN old ELSE workers[b]
  BY <1>1, <1>3, ExceptSeq
<1>8. /\ workers' \in Seq(WorkerRecords) /\ Len(workers') = Len(workers) + tasks
      /\ DOMAIN workers' = 1 .. Len(workers) + tasks
      /\ workers'[a] = old
      /\ \A b \in 1 .. Len(workers) : b # a => workers'[b] = workers[b]
      /\ \A b \in Len(workers) + 1 .. Len(workers) + tasks : workers'[b] = fresh
  <2> DEFINE s == [workers EXCEPT ![a] = old]
  <2>1. s \in Seq(WorkerRecords) /\ Len(s) = Len(workers)
    BY <1>7
  <2>2. \A b \in 1 .. Len(workers) : s[b] = IF b = a THEN old ELSE workers[b]
    BY <1>7
  <2>3. workers' = s \o more
    BY <1>2
  <2> HIDE DEF s
  <2>4. /\ s \o more \in Seq(WorkerRecords) /\ Len(s \o more) = Len(s) + Len(more)
        /\ \A i \in 1 .. Len(s) + Len(more) : (s \o more)[i] = IF i <= Len(s) THEN s[i] ELSE more[i - Len(s)]
    BY <1>6, <2>1, ConcatProperties
  <2>5. DOMAIN workers' = 1 .. Len(workers')
    BY <2>3, <2>4, LenProperties
  <2>6. \A b \in Len(workers) + 1 .. Len(workers) + tasks : workers'[b] = fresh
    <3> SUFFICES ASSUME NEW b \in Len(workers) + 1 .. Len(workers) + tasks PROVE workers'[b] = fresh
      OBVIOUS
    <3>1. b - Len(workers) \in 1 .. tasks /\ b \in 1 .. Len(s) + Len(more) /\ ~(b <= Len(s))
      BY <1>1, <1>6, <2>1
    <3> QED BY <1>6, <2>1, <2>3, <2>4, <3>1
  <2>7. \A b \in 1 .. Len(workers) : workers'[b] = s[b]
    BY <1>1, <1>6, <2>1, <2>3, <2>4
  <2> QED BY <1>1, <1>6, <2>1, <2>2, <2>3, <2>4, <2>5, <2>6, <2>7
<1>9. /\ calls' \in Seq(DelegationRecords) /\ Len(calls') = Len(calls) + 1
      /\ DOMAIN calls' = 1 .. Len(calls) + 1 /\ calls'[Len(calls) + 1] = call
      /\ \A c \in 1 .. Len(calls) : calls'[c] = calls[c]
  <2>1. /\ Append(calls, call) \in Seq(DelegationRecords) /\ Len(Append(calls, call)) = Len(calls) + 1
        /\ \A c \in 1 .. Len(calls) : Append(calls, call)[c] = calls[c]
        /\ Append(calls, call)[Len(calls) + 1] = call
    BY <1>1, <1>5, AppendProperties
  <2>2. DOMAIN Append(calls, call) = 1 .. Len(Append(calls, call))
    BY <2>1, LenProperties
  <2> QED BY <1>2, <2>1, <2>2
<1>10. TreeTypeOK'
  BY <1>1, <1>2, <1>8, <1>9 DEF TreeTypeOK
<1>11. ASSUME NEW b \in DOMAIN workers'
       PROVE  \/ b \in DOMAIN workers /\ b = a /\ workers'[b] = old
              \/ b \in DOMAIN workers /\ b # a /\ workers'[b] = workers[b]
              \/ b \notin DOMAIN workers /\ b # Supervisor /\ workers'[b] = fresh
  BY <1>1, <1>8 DEF Supervisor
<1>12. WorkersKnown'
  <2> SUFFICES ASSUME NEW b \in DOMAIN workers'
               PROVE  LET u == workers'[b] IN
                      /\ u.depth <= MaxDepth /\ u.node <= Len(tree) /\ u.call <= Len(calls')
                      /\ u.call = 0 <=> b = Supervisor
                      /\ u.stage \in {"start", "again", "lastRequest", "store"} => b # Supervisor
                      /\ b = Supervisor => u.node = 0
                      /\ u.stage = "start" => u.node = 0 /\ ~u.ok
                      /\ b # Supervisor /\ u.stage \notin {"start", "over"} => u.node > 0
    BY <1>2 DEF WorkersKnown
  <2>1. CASE b \in DOMAIN workers /\ b = a /\ workers'[b] = old
    <3>1. workers[a].call \in Nat
      BY <1>1 DEF WorkerRecords
    <3> QED BY <1>1, <1>2, <1>3, <1>9, <2>1, <3>1 DEF WorkersKnown
  <2>2. CASE b \in DOMAIN workers /\ b # a /\ workers'[b] = workers[b]
    <3>1. workers[b].call \in Nat
      BY <1>1, <2>2, WorkerIsTyped DEF WorkerRecords
    <3> QED BY <1>1, <1>9, <2>2, <3>1 DEF WorkersKnown
  <2>3. CASE b \notin DOMAIN workers /\ b # Supervisor /\ workers'[b] = fresh
    <3>1. Len(tree) \in Nat
      BY <1>1, LenProperties DEF TreeTypeOK
    <3> QED BY <1>1, <1>4, <1>9, <2>3, <3>1
  <2> QED BY <1>11, <2>1, <2>2, <2>3
<1>13. OutcomesStored'
  <2> SUFFICES ASSUME NEW b \in DOMAIN workers', b # Supervisor, workers'[b].stage = "over"
               PROVE  LET u == workers'[b] IN
                      /\ u.node > 0 => tree[u.node].status # "running"
                      /\ u.ok <=> u.node > 0 /\ tree[u.node].status = "completed"
    BY <1>2 DEF OutcomesStored
  <2>1. b \in DOMAIN workers /\ workers'[b] = workers[b]
    BY <1>3, <1>4, <1>11
  <2> QED BY <2>1 DEF TreeInv, OutcomesStored
<1>14. NodesDiffer'
  <2> SUFFICES ASSUME NEW b \in DOMAIN workers', NEW d \in DOMAIN workers', b # d,
                      workers'[b].node = workers'[d].node
               PROVE  workers'[b].node = 0
    BY DEF NodesDiffer
  <2>1. CASE b \notin DOMAIN workers \/ d \notin DOMAIN workers
    BY <1>4, <1>11, <2>1
  <2>2. CASE b \in DOMAIN workers /\ d \in DOMAIN workers
    <3>1. workers'[b].node = workers[b].node /\ workers'[d].node = workers[d].node
      BY <1>3, <1>11, <2>2
    <3> QED BY <2>2, <3>1 DEF TreeInv, NodesDiffer
  <2> QED BY <2>1, <2>2
<1>15. CallsKnown'
  <2> SUFFICES ASSUME NEW c \in DOMAIN calls'
               PROVE  /\ calls'[c].caller \in DOMAIN workers'
                      /\ ~calls'[c].open =>
                           /\ \A b \in DOMAIN workers' : workers'[b].call = c => workers'[b].stage = "over"
                           /\ calls'[c].ok <=> \A b \in DOMAIN workers' : workers'[b].call = c => workers'[b].ok
    BY DEF CallsKnown
  <2>1. DOMAIN workers \subseteq DOMAIN workers'
    BY <1>1, <1>8
  <2>2. CASE c = Len(calls) + 1
    BY <1>5, <1>9, <2>1, <2>2
  <2>3. CASE c \in DOMAIN calls
    <3>1. calls'[c] = calls[c] /\ c # Len(calls) + 1
      BY <1>1, <1>9, <2>3
    <3>2. ~calls[c].open => workers[a].call # c
      BY <1>1, <1>2, <2>3 DEF CallsKnown
    <3>3. \A b \in DOMAIN workers' : workers'[b].call = c =>
            b \in DOMAIN workers /\ (b # a => workers'[b] = workers[b])
      BY <1>4, <1>11, <3>1
    <3>4. ~calls[c].open => \A b \in DOMAIN workers' : workers'[b].call = c =>
            b \in DOMAIN workers /\ workers'[b] = workers[b]
      BY <1>3, <1>8, <3>2, <3>3
    <3>5. ~calls[c].open => \A b \in DOMAIN workers : workers[b].call = c =>
            b \in DOMAIN workers' /\ workers'[b] = workers[b]
      BY <1>1, <1>8, <2>1, <3>2
    <3> QED BY <1>1, <2>1, <2>3, <3>1, <3>4, <3>5 DEF CallsKnown
  <2> QED BY <1>1, <1>9, <2>2, <2>3
<1>16. AgentsBounded'
  BY <1>1, <1>2 DEF AgentsBounded
<1> QED BY <1>10, <1>12, <1>13, <1>14, <1>15, <1>16 DEF TreeInv

LEMMA NoChildren ==
  ASSUME TreeTypeOK, AgentsBounded, workers' = NewSupervisor, calls' = <<>>, UNCHANGED <<tree, continuable>>
  PROVE  TreeInv'
<1> DEFINE w == [stage |-> "run", call |-> 0, depth |-> 0, node |-> 0, requests |-> 0, ok |-> FALSE]
<1>1. w \in WorkerRecords /\ w.stage = "run" /\ w.call = 0 /\ w.depth = 0 /\ w.node = 0
  BY DEF WorkerRecords, TreeStages
<1>2. workers' = <<w>>
  BY DEF NewSupervisor
<1> HIDE DEF w
<1>3. workers' \in Seq(WorkerRecords) /\ Len(workers') = 1 /\ DOMAIN workers' = {1} /\ workers'[1] = w
  BY <1>1, <1>2
<1>4. calls' \in Seq(DelegationRecords) /\ Len(calls') = 0 /\ DOMAIN calls' = {}
  OBVIOUS
<1>5. Len(tree) \in Nat
  BY LenProperties DEF TreeTypeOK
<1>6. TreeTypeOK'
  BY <1>3, <1>4 DEF TreeTypeOK
<1>7. WorkersKnown' /\ OutcomesStored' /\ NodesDiffer'
  BY <1>1, <1>3, <1>4, <1>5, SubagentsAssumption
     DEF WorkersKnown, OutcomesStored, NodesDiffer, Supervisor
<1>8. CallsKnown' /\ AgentsBounded'
  BY <1>4 DEF CallsKnown, AgentsBounded
<1> QED BY <1>6, <1>7, <1>8 DEF TreeInv

-----------------------------------------------------------------------------
(* The invariant of the agent tree: what threads, calls and nodes know of  *)
(* one another (SubagentManager in subagents.py).                          *)
THEOREM TreeInvHolds == TreeSpec => []TreeInv
<1>1. ASSUME TreeInit PROVE TreeInv
  <2> DEFINE w == [stage |-> "run", call |-> 0, depth |-> 0, node |-> 0, requests |-> 0, ok |-> FALSE]
  <2>1. w \in WorkerRecords /\ w.stage = "run" /\ w.call = 0 /\ w.depth = 0 /\ w.node = 0
    BY DEF WorkerRecords, TreeStages
  <2>2. workers = <<w>> /\ tree = <<>> /\ continuable = 0 /\ calls = <<>>
    BY <1>1 DEF TreeInit, NewSupervisor
  <2> HIDE DEF w
  <2>3. workers \in Seq(WorkerRecords) /\ Len(workers) = 1 /\ DOMAIN workers = {1} /\ workers[1] = w
    BY <2>1, <2>2
  <2>4. /\ calls \in Seq(DelegationRecords) /\ Len(calls) = 0 /\ DOMAIN calls = {}
        /\ tree \in Seq(NodeRecords) /\ Len(tree) = 0 /\ DOMAIN tree = {}
    BY <2>2
  <2>5. TreeTypeOK
    BY <2>2, <2>3, <2>4 DEF TreeTypeOK
  <2>6. WorkersKnown /\ OutcomesStored /\ NodesDiffer
    BY <2>1, <2>3, <2>4, SubagentsAssumption DEF WorkersKnown, OutcomesStored, NodesDiffer, Supervisor
  <2>7. CallsKnown /\ AgentsBounded
    BY <2>2, <2>4, SubagentsAssumption DEF CallsKnown, AgentsBounded
  <2> QED BY <2>5, <2>6, <2>7 DEF TreeInv
<1>2. ASSUME TreeInv, [TreeNext]_treeVars
      PROVE  TreeInv'
  <2>1. ASSUME NEW a \in DOMAIN workers, NEW tasks \in 1 .. MaxChildren, Delegate(a, tasks)
        PROVE  TreeInv'
    BY <1>2, <2>1, DelegateKeeps
  <2>2. ASSUME NEW a \in DOMAIN workers,
               \/ AddNode(a) \/ Request(a) \/ Reply(a) \/ Exhausted(a) \/ ToolsReturn(a)
               \/ RecoverEnds(a) \/ FinishNode(a)
        PROVE  TreeInv'
    BY <1>2, <2>2, AddNodeKeeps, RequestsKeep, FinishNodeKeeps
  <2>3. ASSUME NEW c \in DOMAIN calls, CallReturns(c) PROVE TreeInv'
    BY <1>2, <2>3, CallReturnsKeeps
  <2>4. CASE SpawnOther
    <3>1. UNCHANGED <<tree, workers, calls>> /\ continuable' = continuable + 1
      BY <2>4 DEF SpawnOther
    <3>2. Len(tree) \in Nat /\ continuable \in Nat
      BY <1>2, LenProperties DEF TreeInv, TreeTypeOK
    <3>3. AgentsBounded'
      BY <1>2, <2>4, <3>1, <3>2, SubagentsAssumption DEF SpawnOther, AgentsBounded, TreeInv
    <3>4. TreeTypeOK'
      BY <1>2, <3>1, <3>2 DEF TreeInv, TreeTypeOK
    <3> QED BY <1>2, <3>1, <3>3, <3>4 DEF TreeInv, WorkersKnown, OutcomesStored, NodesDiffer, CallsKnown
  <2>5. CASE ProcessDies
    BY <1>2, <2>5, NoChildren DEF ProcessDies, TreeInv
  <2>6. CASE UNCHANGED treeVars
    BY <1>2, <2>6 DEF treeVars, TreeInv, TreeTypeOK, WorkersKnown, OutcomesStored, NodesDiffer,
                      CallsKnown, AgentsBounded
  <2> QED BY <1>2, <2>1, <2>2, <2>3, <2>4, <2>5, <2>6 DEF TreeNext, TreeThreads
<1> QED BY <1>1, <1>2, PTL DEF TreeSpec

(* The cap of the tree and the depth hold, and a call that returned has    *)
(* each of its tasks settled in the tree and reports what is there         *)
(* (_add_node, _finish_node, delegate_tasks).                              *)
THEOREM ChildrenAreCountedHolds == TreeSpec => []ChildrenAreCounted
<1>1. ASSUME TreeInv PROVE ChildrenAreCounted
  <2>1. ASSUME NEW c \in DOMAIN calls, ~calls[c].open
        PROVE  /\ \A a \in AgentsOf(c) : workers[a].node > 0 => tree[workers[a].node].status # "running"
               /\ calls[c].ok <=> \A a \in AgentsOf(c) :
                                    workers[a].node > 0 /\ tree[workers[a].node].status = "completed"
    <3>1. c # 0
      BY <1>1, LenProperties DEF TreeInv, TreeTypeOK
    <3>2. \A a \in AgentsOf(c) : a \in DOMAIN workers /\ a # Supervisor /\ workers[a].stage = "over"
      BY <1>1, <2>1, <3>1 DEF TreeInv, CallsKnown, WorkersKnown, AgentsOf
    <3>3. calls[c].ok <=> \A a \in AgentsOf(c) : workers[a].ok
      BY <1>1, <2>1 DEF TreeInv, CallsKnown, AgentsOf
    <3> QED BY <1>1, <3>2, <3>3 DEF TreeInv, OutcomesStored
  <2>2. ReturnedIsSettled
    BY <2>1 DEF ReturnedIsSettled
  <2> QED BY <1>1, <2>2 DEF TreeInv, ChildrenAreCounted
<1> QED BY <1>1, TreeInvHolds, PTL
=============================================================================
