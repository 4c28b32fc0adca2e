--------------------------- MODULE ToolGateProofs ---------------------------
(***************************************************************************)
(* Theorems about ToolGate, for any calls, tools, limits and policies:     *)
(* types, and what the gate keeps however its calls interleave: the limits *)
(* of the catalog, the permission of every call that runs, one request for *)
(* an exact call, and no call charged to the goal that was not made.       *)
(*                                                                         *)
(* And about two kinds of tools behind it: orchestrations, for any callers *)
(* and any number of steps (WorkflowSteps), and terminals, for any number  *)
(* of claims (Terminals).  And about the history that an activation hands  *)
(* to its model, for any limit and any messages (Compaction).              *)
(***************************************************************************)
EXTENDS ToolGate, WorkflowSteps, Terminals, Compaction, SelectionProofs, FiniteSetTheorems, SequenceTheorems,
        TLAPS

(* The instances of ToolGate that make sense. *)
Sensible == Works # {} /\ MaxToolCalls \in Nat /\ MaxRepeat \in Nat

-----------------------------------------------------------------------------
(* The inductive invariants *)

(* Each counted call has its number, below the count; a call that runs had *)
(* one within the limits.                                                  *)
NumbersDiffer ==
  /\ \A c \in Calls :
       LET w == calls[c].work IN
       /\ calls[c].stage \in {"idle", "hooked"} => calls[c].number = 0 /\ calls[c].repeat = 0
       /\ calls[c].number <= catalog.count /\ calls[c].repeat <= catalog.repeats[w]
       /\ calls[c].stage = "counted" => calls[c].number > 0 /\ calls[c].repeat > 0
       /\ calls[c].stage = "checked" \/ calls[c].ran => /\ calls[c].number \in 1 .. MaxToolCalls
                                                        /\ calls[c].repeat \in 1 .. MaxRepeat
  /\ \A c, d \in Calls : c # d =>
       /\ calls[c].number # 0 => calls[c].number # calls[d].number
       /\ calls[c].repeat # 0 /\ calls[c].work = calls[d].work => calls[c].repeat # calls[d].repeat

(* A call has seen what stands: the control state and the decision.        *)
SeesWhatStands ==
  \A c \in Calls :
    LET w == calls[c].work IN
    /\ calls[c].stage \in {"idle", "hooked", "counted", "checked", "asks"} => ~calls[c].ran
    /\ calls[c].stage \in {"counted", "checked", "asks", "runs"} =>
         /\ control = "running" => "running" \in calls[c].seen
         /\ decisions[w] = "approved" => "approved" \in calls[c].seen
    /\ calls[c].stage = "checked" => "running" \in calls[c].seen /\ PolicyOf(w) = "always"

(* A decision belongs to a request. *)
DecidedIsAsked == \A w \in Works : decisions[w] # "none" => Asked(w)

(* What the activation counted is not charged yet, or is. *)
ChargedOnce ==
  /\ catalog.count <= goal.made
  /\ turn # "recorded" => /\ goal.used + catalog.count <= goal.made
                          /\ goal.page + catalog.count <= goal.made

GateInv ==
  /\ GateTypes /\ NumbersDiffer /\ SeesWhatStands /\ DecidedIsAsked /\ ChargedOnce
  /\ RunsOnlyIfAllowed /\ OneRequestPerCall /\ GoalNotOvercharged

(* Sent or heard *)
AllSent == heard \o sending

(* Steering is consumed from the front; what was consumed was sent, in its *)
(* order, or was lost; and what a page still holds is not in the queue.    *)
SteeringInOrder ==
  /\ \A k, l \in DOMAIN steering : steering[k].message = steering[l].message => k = l
  /\ \A k \in DOMAIN steering : steering[k].message \notin taken
  /\ \A k, l \in DOMAIN steering : k < l /\ steering[l].consumed => steering[k].consumed
  /\ turn # "request" => sending = <<>>

SentIsConsumed ==
  \A i \in DOMAIN AllSent :
    \E k \in DOMAIN steering : steering[k].consumed /\ steering[k].message = AllSent[i]

SentInOrder ==
  \A i, j \in DOMAIN AllSent, k, l \in DOMAIN steering :
    i < j /\ AllSent[i] = steering[k].message /\ AllSent[j] = steering[l].message => k < l

ConsumedIsSent ==
  \A k \in DOMAIN steering : steering[k].consumed =>
    \/ steering[k].message \in lost
    \/ \E i \in DOMAIN AllSent : AllSent[i] = steering[k].message

SteerInv == SteeringTypes /\ SteeringInOrder /\ SentIsConsumed /\ SentInOrder /\ ConsumedIsSent

-----------------------------------------------------------------------------
(* Which steps write which part of the state *)

LEMMA Writers ==
  ASSUME [Next]_vars
  PROVE  /\ \/ calls' = calls
            \/ Repaired \/ RequestFails \/ Crash
            \/ \E state \in {"running", "paused", "cancelled"} : SetControl(state)
            \/ \E i \in DOMAIN requests, d \in {"approved", "rejected"} : Decide(i, d)
            \/ \E c \in Calls :
                 \/ \E w \in Works : Begin(c, w)
                 \/ Count(c) \/ Check(c) \/ ReadDecision(c) \/ Ask(c) \/ End(c)
         /\ catalog' = catalog \/ Repaired \/ RequestFails \/ Crash \/ \E c \in Calls : Count(c)
         /\ \/ control' = control
            \/ \E state \in {"running", "paused", "cancelled"} : SetControl(state)
         /\ \/ requests' = requests \/ \E c \in Calls : Ask(c)
            \/ \E i \in DOMAIN requests, d \in {"approved", "rejected"} : Decide(i, d)
         /\ \/ decisions' = decisions
            \/ \E i \in DOMAIN requests, d \in {"approved", "rejected"} : Decide(i, d)
         /\ \/ goal' = goal \/ Record \/ Repaired \/ PageLoads \/ PageSaves
            \/ \E c \in Calls : Count(c)
         /\ \/ turn' = turn \/ CheckTurn \/ Consume \/ Answer \/ NextTurn \/ Record \/ Repaired
            \/ RequestFails \/ Crash
         /\ steering' = steering \/ Consume \/ \E m \in Messages : AddSteering(m)
         /\ sending' = sending \/ Consume \/ Answer \/ RequestFails \/ Crash
         /\ heard' = heard \/ Answer
         /\ taken' = taken \/ Crash \/ \E m \in Messages : Guide(m) \/ AddSteering(m)
         /\ lost' = lost \/ RequestFails \/ Crash
         /\ activations' = activations \/ Repaired \/ RequestFails \/ Crash
<1>1. CASE UNCHANGED vars
  BY <1>1 DEF vars
<1>2. CASE \/ CheckTurn \/ Consume \/ Answer \/ NextTurn \/ Record \/ Repaired
           \/ RequestFails \/ Crash
  BY <1>2 DEF CheckTurn, Consume, Answer, NextTurn, Record, Repaired, RequestFails, Crash, Renew
<1>3. ASSUME NEW c \in Calls,
             \/ \E w \in Works : Begin(c, w)
             \/ Count(c) \/ Check(c) \/ ReadDecision(c) \/ Ask(c) \/ End(c)
      PROVE  /\ UNCHANGED <<control, decisions, turn, steering, sending, heard, taken, lost, activations>>
             /\ UNCHANGED <<catalog, goal>> \/ Count(c)
             /\ UNCHANGED requests \/ Ask(c)
  BY <1>3 DEF Begin, Count, Check, ReadDecision, Ask, End, OnlyCalls
<1>4. CASE \/ \E state \in {"running", "paused", "cancelled"} : SetControl(state)
           \/ \E i \in DOMAIN requests, d \in {"approved", "rejected"} : Decide(i, d)
           \/ \E m \in Messages : Guide(m) \/ AddSteering(m)
           \/ PageLoads \/ PageSaves
  BY <1>4 DEF SetControl, Decide, Guide, AddSteering, PageLoads, PageSaves
<1> QED BY <1>1, <1>2, <1>3, <1>4 DEF Next

(* A request that fails ends the activation, or the agent's run. *)
LEMMA FailedRequest ==
  ASSUME RequestFails
  PROVE  \/ RequestFails /\ Renew
         \/ /\ turn = "request" /\ turn' = "over"
            /\ UNCHANGED <<calls, catalog, activations, control, requests, decisions, goal>>
BY DEF RequestFails

-----------------------------------------------------------------------------
(* Types *)

LEMMA NoCallType == ASSUME Sensible PROVE NoCall \in CallRecords
<1>1. (CHOOSE w \in Works : TRUE) \in Works
  BY DEF Sensible
<1> QED BY <1>1 DEF NoCall, CallRecords, Stages

LEMMA StageType ==
  ASSUME NEW call \in CallRecords, NEW stage \in Stages
  PROVE  /\ [call EXCEPT !.stage = stage] \in CallRecords
         /\ [call EXCEPT !.stage = stage, !.ran = TRUE] \in CallRecords
BY DEF CallRecords

LEMMA BegunType ==
  ASSUME NEW call \in CallRecords, NEW stage \in Stages, NEW w \in Works
  PROVE  [call EXCEPT !.stage = stage, !.work = w] \in CallRecords
BY DEF CallRecords

LEMMA CountedType ==
  ASSUME NEW call \in CallRecords, NEW n \in Nat, NEW k \in Nat, NEW seen \in SUBSET Seen
  PROVE  [call EXCEPT !.stage = "counted", !.number = n, !.repeat = k, !.seen = seen]
           \in CallRecords
BY DEF CallRecords, Stages

(* Each step leaves the calls calls. *)
LEMMA CallsType ==
  ASSUME Sensible, GateTypes, [Next]_vars
  PROVE  calls' \in [Calls -> CallRecords]
<1>1. calls \in [Calls -> CallRecords]
  BY DEF GateTypes
<1>2. ASSUME NEW c \in Calls, NEW call \in CallRecords, calls' = [calls EXCEPT ![c] = call]
      PROVE  calls' \in [Calls -> CallRecords]
  BY <1>1, <1>2
<1>3. ASSUME NEW c \in Calls, NEW stage \in Stages
      PROVE  /\ calls' = [calls EXCEPT ![c].stage = stage] => calls' \in [Calls -> CallRecords]
             /\ calls' = [calls EXCEPT ![c].stage = stage, ![c].ran = TRUE]
                  => calls' \in [Calls -> CallRecords]
  <2>1. calls[c] \in CallRecords
    BY <1>1
  <2>2. CASE calls' = [calls EXCEPT ![c].stage = stage]
    <3>1. calls' = [calls EXCEPT ![c] = [calls[c] EXCEPT !.stage = stage]]
      BY <1>1, <2>2
    <3> QED BY <1>2, <2>1, <3>1, StageType
  <2>3. CASE calls' = [calls EXCEPT ![c].stage = stage, ![c].ran = TRUE]
    <3>1. calls' = [calls EXCEPT ![c] = [calls[c] EXCEPT !.stage = stage, !.ran = TRUE]]
      BY <1>1, <2>3
    <3> QED BY <1>2, <2>1, <3>1, StageType
  <2> QED BY <2>2, <2>3
<1>4. ASSUME NEW c \in Calls, NEW w \in Works, Begin(c, w)
      PROVE  calls' \in [Calls -> CallRecords]
  <2> DEFINE stage == IF Hook THEN "hooked" ELSE "done"
  <2>1. stage \in Stages /\ calls[c] \in CallRecords
    BY <1>1 DEF Stages
  <2>2. calls' = [calls EXCEPT ![c] = [calls[c] EXCEPT !.stage = stage, !.work = w]]
    BY <1>1, <1>4 DEF Begin
  <2> HIDE DEF stage
  <2> QED BY <1>2, <2>1, <2>2, BegunType
<1>5. ASSUME NEW c \in Calls, Count(c)
      PROVE  calls' \in [Calls -> CallRecords]
  <2> DEFINE seen == {control, decisions[calls[c].work]} \cap Seen
             n    == catalog.count + 1
             k    == catalog.repeats[calls[c].work] + 1
  <2>1. calls[c] \in CallRecords /\ n \in Nat /\ k \in Nat
    BY <1>1 DEF GateTypes, CallRecords
  <2>2. seen \in SUBSET Seen
    OBVIOUS
  <2>3. calls' = [calls EXCEPT ![c] = [calls[c] EXCEPT !.stage = "counted", !.number = n,
                                                       !.repeat = k, !.seen = seen]]
    BY <1>1, <1>5 DEF Count
  <2> HIDE DEF seen, n, k
  <2> QED BY <1>2, <2>1, <2>2, <2>3, CountedType
<1>6. ASSUME NEW c \in Calls, Check(c) \/ ReadDecision(c) \/ Ask(c) \/ End(c)
      PROVE  calls' \in [Calls -> CallRecords]
  BY <1>3, <1>6 DEF Check, ReadDecision, Ask, End, Step, Stages
<1>7. CASE Repaired \/ RequestFails \/ Crash
  BY <1>1, <1>7, NoCallType DEF Repaired, RequestFails, Crash, Renew
<1>8. ASSUME NEW state \in {"running", "paused", "cancelled"}, SetControl(state)
      PROVE  calls' \in [Calls -> CallRecords]
  <2>1. ASSUME NEW c \in Calls
        PROVE  calls'[c] \in CallRecords
    <3>1. calls[c] \in CallRecords /\ calls[c].seen \subseteq Seen
      BY <1>1 DEF CallRecords
    <3>2. calls[c].seen \cup ({state} \cap Seen) \in SUBSET Seen
      BY <3>1
    <3>3. calls'[c] = [calls[c] EXCEPT !.seen = calls[c].seen \cup ({state} \cap Seen)]
      BY <1>8 DEF SetControl
    <3> QED BY <3>1, <3>2, <3>3 DEF CallRecords
  <2> QED BY <1>8, <2>1 DEF SetControl
<1>9. ASSUME NEW i \in DOMAIN requests, NEW d \in {"approved", "rejected"}, Decide(i, d)
      PROVE  calls' \in [Calls -> CallRecords]
  <2>1. ASSUME NEW c \in Calls
        PROVE  calls'[c] \in CallRecords
    <3>1. calls[c] \in CallRecords /\ calls[c].seen \subseteq Seen
      BY <1>1 DEF CallRecords
    <3>2. calls[c].seen \cup {d} \in SUBSET Seen
      BY <3>1 DEF Seen
    <3>3. \/ calls'[c] = calls[c]
          \/ calls'[c] = [calls[c] EXCEPT !.seen = calls[c].seen \cup {d}]
      BY <1>9 DEF Decide
    <3> QED BY <3>1, <3>2, <3>3 DEF CallRecords
  <2> QED BY <1>9, <2>1 DEF Decide
<1> QED BY <1>1, <1>4, <1>5, <1>6, <1>7, <1>8, <1>9, Writers

(* The rest of the types. *)
LEMMA OtherTypes ==
  ASSUME Sensible, GateTypes, [Next]_vars
  PROVE  /\ turn' \in Turns /\ catalog' \in [count : Nat, repeats : [Works -> Nat]]
         /\ control' \in {"running", "paused", "cancelled"}
         /\ requests' \in Seq([work : Works, status : {"pending", "approved", "rejected"}])
         /\ decisions' \in [Works -> {"none", "approved", "rejected"}]
         /\ goal' \in [used : Nat, made : Nat, page : Nat] /\ activations' \in Nat
<1> DEFINE Asks == [work : Works, status : {"pending", "approved", "rejected"}]
<1>1. turn' \in Turns
  BY Writers DEF GateTypes, Turns, CheckTurn, Consume, Answer, NextTurn, Record, Repaired,
     RequestFails, Crash, Renew
<1>2. catalog' \in [count : Nat, repeats : [Works -> Nat]]
  <2>1. catalog.count \in Nat /\ catalog.repeats \in [Works -> Nat]
        /\ catalog \in [count : Nat, repeats : [Works -> Nat]]
    BY DEF GateTypes
  <2>2. ASSUME NEW c \in Calls, Count(c)
        PROVE  catalog' \in [count : Nat, repeats : [Works -> Nat]]
    <3>1. calls[c].work \in Works
      BY DEF GateTypes, CallRecords
    <3>2. [catalog.repeats EXCEPT ![calls[c].work] = @ + 1] \in [Works -> Nat]
      BY <2>1, <3>1
    <3> QED BY <2>1, <2>2, <3>2 DEF Count
  <2>3. NoCatalog \in [count : Nat, repeats : [Works -> Nat]]
    BY DEF NoCatalog
  <2> QED BY <2>1, <2>2, <2>3, Writers DEF Repaired, RequestFails, Crash, Renew
<1>3. control' \in {"running", "paused", "cancelled"}
  BY Writers DEF GateTypes, SetControl
<1>4. requests' \in Seq(Asks)
  <2>1. requests \in Seq(Asks)
    BY DEF GateTypes
  <2>2. ASSUME NEW c \in Calls, Ask(c)
        PROVE  requests' \in Seq(Asks)
    <3>1. [work |-> calls[c].work, status |-> "pending"] \in Asks
      BY DEF GateTypes, CallRecords
    <3> HIDE DEF Asks
    <3>2. Append(requests, [work |-> calls[c].work, status |-> "pending"]) \in Seq(Asks)
      BY <2>1, <3>1, AppendProperties
    <3> QED BY <2>1, <2>2, <3>2 DEF Ask
  <2>3. ASSUME NEW i \in DOMAIN requests, NEW d \in {"approved", "rejected"}, Decide(i, d)
        PROVE  requests' \in Seq(Asks)
    <3>1. [requests[i] EXCEPT !.status = d] \in Asks
      <4>1. requests[i] \in Asks
        <5> HIDE DEF Asks
        <5>1. i \in 1 .. Len(requests)
          BY <2>1, LenProperties
        <5> QED BY <2>1, <5>1, ElementOfSeq
      <4> QED BY <4>1
    <3>2. requests' = [requests EXCEPT ![i] = [requests[i] EXCEPT !.status = d]]
      BY <2>1, <2>3 DEF Decide
    <3> HIDE DEF Asks
    <3> QED BY <2>1, <2>3, <3>1, <3>2, ExceptSeq
  <2> QED BY <2>1, <2>2, <2>3, Writers
<1>5. decisions' \in [Works -> {"none", "approved", "rejected"}]
  BY Writers DEF GateTypes, Decide
<1>6. goal' \in [used : Nat, made : Nat, page : Nat]
  <2>1. goal \in [used : Nat, made : Nat, page : Nat] /\ catalog.count \in Nat
    BY DEF GateTypes
  <2>2. ASSUME NEW n \in Nat
        PROVE  /\ [goal EXCEPT !.used = n] \in [used : Nat, made : Nat, page : Nat]
               /\ [goal EXCEPT !.page = n] \in [used : Nat, made : Nat, page : Nat]
               /\ [goal EXCEPT !.made = n] \in [used : Nat, made : Nat, page : Nat]
    BY <2>1
  <2>3. goal.used + catalog.count \in Nat /\ goal.made + 1 \in Nat /\ Charge \in Nat
        /\ goal.used \in Nat /\ goal.page \in Nat
    BY <2>1 DEF Charge
  <2>4. \/ goal' = goal \/ goal' = [goal EXCEPT !.used = goal.used + catalog.count]
        \/ goal' = [goal EXCEPT !.used = Charge] \/ goal' = [goal EXCEPT !.page = goal.used]
        \/ goal' = [goal EXCEPT !.used = goal.page]
        \/ goal' = [goal EXCEPT !.made = goal.made + 1]
    BY Writers DEF Record, AddUsage, Repaired, PageLoads, PageSaves, Count
  <2> HIDE DEF Charge
  <2> QED BY <2>1, <2>2, <2>3, <2>4
<1>7. activations' \in Nat
  BY Writers DEF GateTypes, Repaired, RequestFails, Crash, Renew
<1> QED BY <1>1, <1>2, <1>3, <1>4, <1>5, <1>6, <1>7

LEMMA TypeStep ==
  ASSUME Sensible, GateTypes, [Next]_vars
  PROVE  GateTypes'
BY CallsType, OtherTypes DEF GateTypes

-----------------------------------------------------------------------------
(* The limits *)

(* A step of a call that is not its count leaves all numbers alone. *)
LEMMA NumbersStep ==
  ASSUME Sensible, GateTypes, GateTypes', NumbersDiffer, SeesWhatStands, [Next]_vars
  PROVE  NumbersDiffer'
<1>1. calls \in [Calls -> CallRecords] /\ calls' \in [Calls -> CallRecords]
      /\ catalog.count \in Nat /\ catalog.repeats \in [Works -> Nat]
  BY DEF GateTypes
<1>2. CASE calls' = calls /\ catalog' = catalog
  BY <1>2 DEF NumbersDiffer
<1>3. CASE Repaired \/ Crash \/ (RequestFails /\ Renew)
  <2>1. /\ \A c \in Calls : calls'[c] = NoCall
        /\ catalog'.count = 0 /\ \A w \in Works : catalog'.repeats[w] = 0
    BY <1>3 DEF Repaired, Crash, Renew, NoCatalog
  <2>2. NoCall.number = 0 /\ NoCall.repeat = 0 /\ NoCall.work \in Works /\ ~NoCall.ran
        /\ NoCall.stage = "idle"
    BY DEF NoCall, Sensible
  <2> QED BY <2>1, <2>2 DEF NumbersDiffer
<1>5. CASE \/ \E state \in {"running", "paused", "cancelled"} : SetControl(state)
           \/ \E i \in DOMAIN requests, d \in {"approved", "rejected"} : Decide(i, d)
  <2>1. catalog' = catalog
    BY <1>5 DEF SetControl, Decide
  <2>2. ASSUME NEW c \in Calls
        PROVE  UNCHANGED <<calls[c].work, calls[c].number, calls[c].repeat, calls[c].stage,
                           calls[c].ran>>
    <3>1. CASE \E state \in {"running", "paused", "cancelled"} : SetControl(state)
      BY <1>1, <3>1 DEF SetControl, CallRecords
    <3>2. CASE \E i \in DOMAIN requests, d \in {"approved", "rejected"} : Decide(i, d)
      BY <1>1, <3>2 DEF Decide, CallRecords
    <3> QED BY <1>5, <3>1, <3>2
  <2> QED BY <2>1, <2>2 DEF NumbersDiffer
<1>6. ASSUME NEW c \in Calls, NEW w \in Works, Begin(c, w)
      PROVE  NumbersDiffer'
  <2>1. /\ calls[c].stage = "idle" /\ calls[c].number = 0 /\ calls[c].repeat = 0
        /\ ~calls[c].ran
    BY <1>6 DEF Begin, NumbersDiffer, SeesWhatStands
  <2>2. /\ calls'[c].number = 0 /\ calls'[c].repeat = 0 /\ ~calls'[c].ran
        /\ calls'[c].stage \in {"hooked", "done"}
        /\ catalog' = catalog
        /\ \A d \in Calls \ {c} : calls'[d] = calls[d]
    BY <1>1, <1>6, <2>1 DEF Begin, OnlyCalls, CallRecords
  <2>3. calls'[c].work \in Works /\ catalog.repeats[calls'[c].work] >= 0
    BY <1>1 DEF CallRecords
  <2>4. \A d \in Calls :
          LET v == calls'[d].work IN
          /\ calls'[d].stage \in {"idle", "hooked"} => calls'[d].number = 0 /\ calls'[d].repeat = 0
          /\ calls'[d].number <= catalog'.count /\ calls'[d].repeat <= catalog'.repeats[v]
          /\ calls'[d].stage = "counted" => calls'[d].number > 0 /\ calls'[d].repeat > 0
          /\ calls'[d].stage = "checked" \/ calls'[d].ran
               => /\ calls'[d].number \in 1 .. MaxToolCalls
                  /\ calls'[d].repeat \in 1 .. MaxRepeat
    BY <1>1, <2>2, <2>3 DEF NumbersDiffer
  <2>5. \A d, e \in Calls : d # e =>
          /\ calls'[d].number # 0 => calls'[d].number # calls'[e].number
          /\ calls'[d].repeat # 0 /\ calls'[d].work = calls'[e].work
               => calls'[d].repeat # calls'[e].repeat
    BY <2>1, <2>2 DEF NumbersDiffer
  <2> QED BY <2>4, <2>5 DEF NumbersDiffer
<1>7. ASSUME NEW c \in Calls, Count(c)
      PROVE  NumbersDiffer'
  <2> DEFINE w == calls[c].work
  <2>1. w \in Works /\ calls[c].number = 0 /\ calls[c].repeat = 0 /\ ~calls[c].ran
    BY <1>1, <1>7 DEF Count, NumbersDiffer, SeesWhatStands, CallRecords
  <2>2. /\ calls'[c].work = w /\ calls'[c].stage = "counted" /\ ~calls'[c].ran
        /\ calls'[c].number = catalog.count + 1
        /\ calls'[c].repeat = catalog.repeats[w] + 1
        /\ \A d \in Calls \ {c} : calls'[d] = calls[d]
    BY <1>1, <1>7, <2>1 DEF Count, CallRecords
  <2>3. /\ catalog'.count = catalog.count + 1
        /\ catalog'.repeats[w] = catalog.repeats[w] + 1
        /\ \A v \in Works : v # w => catalog'.repeats[v] = catalog.repeats[v]
    BY <1>1, <1>7, <2>1 DEF Count
  <2>4. \A d \in Calls : /\ calls[d].number \in Nat /\ calls[d].repeat \in Nat
                         /\ calls[d].work \in Works
    BY <1>1 DEF CallRecords
  <2>5. \A v \in Works : catalog.repeats[v] \in Nat
    BY <1>1
  <2>6. \A d \in Calls : /\ calls'[d].number <= catalog'.count
                         /\ calls'[d].repeat <= catalog'.repeats[calls'[d].work]
    BY <1>1, <2>1, <2>2, <2>3, <2>4, <2>5 DEF NumbersDiffer
  <2>7. \A d \in Calls :
          /\ calls'[d].stage \in {"idle", "hooked"} => calls'[d].number = 0 /\ calls'[d].repeat = 0
          /\ calls'[d].stage = "counted" => calls'[d].number > 0 /\ calls'[d].repeat > 0
          /\ calls'[d].stage = "checked" \/ calls'[d].ran
               => /\ calls'[d].number \in 1 .. MaxToolCalls
                  /\ calls'[d].repeat \in 1 .. MaxRepeat
    <3>1. calls'[c].number > 0 /\ calls'[c].repeat > 0
      BY <1>1, <2>1, <2>2
    <3> QED BY <2>2, <3>1 DEF NumbersDiffer
  <2>8. \A d \in Calls \ {c} :
          /\ calls[d].number # catalog.count + 1
          /\ calls[d].work = w => calls[d].repeat # catalog.repeats[w] + 1
    BY <1>1, <2>1, <2>4, <2>5 DEF NumbersDiffer
  <2>9. \A d, e \in Calls : d # e =>
          /\ calls'[d].number # 0 => calls'[d].number # calls'[e].number
          /\ calls'[d].repeat # 0 /\ calls'[d].work = calls'[e].work
               => calls'[d].repeat # calls'[e].repeat
    BY <2>2, <2>8 DEF NumbersDiffer
  <2> QED BY <2>6, <2>7, <2>9 DEF NumbersDiffer
<1>8. ASSUME NEW c \in Calls, Check(c) \/ ReadDecision(c) \/ Ask(c) \/ End(c)
      PROVE  NumbersDiffer'
  <2>1. /\ catalog' = catalog
        /\ \A d \in Calls \ {c} : calls'[d] = calls[d]
    BY <1>1, <1>8 DEF Check, ReadDecision, Ask, End, Step, OnlyCalls
  <2>2. /\ UNCHANGED <<calls[c].work, calls[c].number, calls[c].repeat>>
        /\ calls'[c].stage \notin {"idle", "hooked", "counted"}
    BY <1>1, <1>8 DEF Check, ReadDecision, Ask, End, Step, CallRecords
  <2>3. calls'[c].stage = "checked" \/ calls'[c].ran =>
          \/ calls[c].ran \/ calls[c].stage = "checked"
          \/ /\ calls[c].stage = "counted"
             /\ calls[c].number <= MaxToolCalls /\ calls[c].repeat <= MaxRepeat
    <3>1. calls[c].number \in Nat /\ calls[c].repeat \in Nat /\ calls[c] \in CallRecords
      BY <1>1 DEF CallRecords
    <3>2. CASE Check(c)
      BY <1>1, <3>1, <3>2 DEF Check, Step, Sensible, CallRecords
    <3>3. CASE ReadDecision(c) \/ Ask(c) \/ End(c)
      BY <1>1, <3>3 DEF ReadDecision, Ask, End, Step, CallRecords
    <3> QED BY <1>8, <3>2, <3>3
  <2>4. calls'[c].stage = "checked" \/ calls'[c].ran =>
          calls[c].number \in 1 .. MaxToolCalls /\ calls[c].repeat \in 1 .. MaxRepeat
    <3>1. calls[c].number \in Nat /\ calls[c].repeat \in Nat
      BY <1>1 DEF CallRecords
    <3> QED BY <2>3, <3>1 DEF NumbersDiffer, Sensible
  <2> QED BY <2>1, <2>2, <2>4 DEF NumbersDiffer
<1> QED BY <1>2, <1>3, <1>5, <1>6, <1>7, <1>8, FailedRequest, Writers

(* As many calls run as there are numbers within the limits. *)
LEMMA NumbersLimit ==
  ASSUME Sensible, GateTypes, NumbersDiffer
  PROVE  WithinLimits
<1> DEFINE ran == {c \in Calls : calls[c].ran}
<1>1. Cardinality(ran) <= MaxToolCalls
  <2> DEFINE number == [c \in ran |-> calls[c].number]
  <2>1. \A c, d \in ran : c # d => calls[c].number # calls[d].number
    BY DEF NumbersDiffer
  <2>2. \A c \in ran : calls[c].number \in 1 .. MaxToolCalls
    BY DEF NumbersDiffer
  <2>3. number \in Injection(ran, 1 .. MaxToolCalls)
    BY <2>1, <2>2 DEF Injection, IsInjective
  <2>4. /\ IsFiniteSet(1 .. MaxToolCalls)
        /\ Cardinality(1 .. MaxToolCalls) = MaxToolCalls
    BY FS_Interval DEF Sensible
  <2> QED BY <2>3, <2>4, FS_Injection
<1>2. ASSUME NEW w \in Works
      PROVE  Cardinality({c \in ran : calls[c].work = w}) <= MaxRepeat
  <2> DEFINE same   == {c \in ran : calls[c].work = w}
             number == [c \in same |-> calls[c].repeat]
  <2>1. \A c, d \in same : c # d => calls[c].repeat # calls[d].repeat
    BY DEF NumbersDiffer
  <2>2. \A c \in same : calls[c].repeat \in 1 .. MaxRepeat
    BY DEF NumbersDiffer
  <2>3. number \in Injection(same, 1 .. MaxRepeat)
    BY <2>1, <2>2 DEF Injection, IsInjective
  <2>4. /\ IsFiniteSet(1 .. MaxRepeat)
        /\ Cardinality(1 .. MaxRepeat) = MaxRepeat
    BY FS_Interval DEF Sensible
  <2> QED BY <2>3, <2>4, FS_Injection
<1> QED BY <1>1, <1>2 DEF WithinLimits

-----------------------------------------------------------------------------
(* The permissions *)

LEMMA SeenStep ==
  ASSUME Sensible, GateTypes, GateTypes', SeesWhatStands, RunsOnlyIfAllowed, [Next]_vars
  PROVE  SeesWhatStands' /\ RunsOnlyIfAllowed'
<1>1. calls \in [Calls -> CallRecords] /\ calls' \in [Calls -> CallRecords]
      /\ decisions \in [Works -> {"none", "approved", "rejected"}]
      /\ control \in {"running", "paused", "cancelled"}
  BY DEF GateTypes
<1> USE DEF SeesWhatStands, RunsOnlyIfAllowed
<1>2. CASE UNCHANGED <<calls, control, decisions>>
  BY <1>2
<1>3. CASE Repaired \/ Crash \/ (RequestFails /\ Renew)
  BY <1>1, <1>3 DEF Repaired, RequestFails, Crash, Renew, NoCall
<1>4. ASSUME NEW state \in {"running", "paused", "cancelled"}, SetControl(state)
      PROVE  SeesWhatStands' /\ RunsOnlyIfAllowed'
  <2>1. \A c \in Calls :
          /\ UNCHANGED <<calls[c].stage, calls[c].work, calls[c].ran>>
          /\ calls'[c].seen = calls[c].seen \cup ({state} \cap Seen)
    BY <1>1, <1>4 DEF SetControl, CallRecords
  <2>2. control' = state /\ decisions' = decisions /\ "running" \in Seen
    BY <1>4 DEF SetControl, Seen
  <2> QED BY <2>1, <2>2
<1>5. ASSUME NEW i \in DOMAIN requests, NEW d \in {"approved", "rejected"}, Decide(i, d)
      PROVE  SeesWhatStands' /\ RunsOnlyIfAllowed'
  <2> DEFINE w == requests[i].work
  <2>1. \A c \in Calls :
          /\ UNCHANGED <<calls[c].stage, calls[c].work, calls[c].ran>>
          /\ calls[c].seen \subseteq calls'[c].seen
          /\ calls[c].work = w => d \in calls'[c].seen
    BY <1>1, <1>5 DEF Decide, CallRecords
  <2>2. control' = control /\ \A v \in Works : v # w => decisions'[v] = decisions[v]
    BY <1>1, <1>5 DEF Decide
  <2>3. w \in Works => decisions'[w] = d
    BY <1>1, <1>5 DEF Decide
  <2>4. \A c \in Calls : calls[c].work \in Works
    BY <1>1 DEF CallRecords
  <2> HIDE DEF w
  <2> QED BY <2>1, <2>2, <2>3, <2>4
<1>6. ASSUME NEW c \in Calls, NEW w \in Works, Begin(c, w)
      PROVE  SeesWhatStands' /\ RunsOnlyIfAllowed'
  <2>1. /\ calls'[c].stage \in {"hooked", "done"} /\ ~calls'[c].ran
        /\ \A d \in Calls \ {c} : calls'[d] = calls[d]
        /\ UNCHANGED <<control, decisions>>
    BY <1>1, <1>6 DEF Begin, OnlyCalls, CallRecords
  <2> QED BY <2>1
<1>7. ASSUME NEW c \in Calls, Count(c)
      PROVE  SeesWhatStands' /\ RunsOnlyIfAllowed'
  <2>1. /\ calls'[c].stage = "counted" /\ ~calls'[c].ran /\ calls'[c].work = calls[c].work
        /\ calls'[c].seen = {control, decisions[calls[c].work]} \cap Seen
        /\ \A d \in Calls \ {c} : calls'[d] = calls[d]
        /\ UNCHANGED <<control, decisions>>
    BY <1>1, <1>7 DEF Count, CallRecords
  <2> QED BY <2>1 DEF Seen
<1>8. ASSUME NEW c \in Calls, Check(c) \/ ReadDecision(c) \/ Ask(c) \/ End(c)
      PROVE  SeesWhatStands' /\ RunsOnlyIfAllowed'
  <2>1. /\ \A d \in Calls \ {c} : calls'[d] = calls[d]
        /\ UNCHANGED <<control, decisions>>
    BY <1>1, <1>8 DEF Check, ReadDecision, Ask, End, Step, OnlyCalls
  <2>2. calls[c] \in CallRecords /\ calls[c].work \in Works
    BY <1>1 DEF CallRecords
  <2>3. CASE Check(c)
    <3>1. UNCHANGED <<calls[c].work, calls[c].seen>>
      BY <1>1, <2>2, <2>3 DEF Check, Step, CallRecords
    <3>2. \/ calls'[c].stage = "done" /\ ~calls'[c].ran
          \/ /\ control = "running" /\ PolicyOf(calls[c].work) = "always"
             /\ calls'[c].stage = "checked" /\ ~calls'[c].ran
          \/ /\ control = "running" /\ calls'[c].stage = "runs" /\ calls'[c].ran
             /\ PolicyOf(calls[c].work) \notin {"always", "disabled"}
      BY <1>1, <2>2, <2>3 DEF Check, Step, CallRecords
    <3>3. calls[c].stage = "counted"
      BY <2>3 DEF Check
    <3> QED BY <2>1, <3>1, <3>2, <3>3
  <2>4. CASE ReadDecision(c)
    <3>1. UNCHANGED <<calls[c].work, calls[c].seen>> /\ calls[c].stage = "checked"
      BY <1>1, <2>2, <2>4 DEF ReadDecision, Step, CallRecords
    <3>2. \/ calls'[c].stage \in {"done", "asks"} /\ ~calls'[c].ran
          \/ /\ decisions[calls[c].work] = "approved"
             /\ calls'[c].stage = "runs" /\ calls'[c].ran
      BY <1>1, <2>2, <2>4 DEF ReadDecision, Decision, Step, CallRecords
    <3> QED BY <2>1, <3>1, <3>2
  <2>5. CASE Ask(c) \/ End(c)
    <3>1. /\ UNCHANGED <<calls[c].work, calls[c].seen, calls[c].ran>>
          /\ calls'[c].stage = "done"
      BY <1>1, <2>2, <2>5 DEF Ask, End, Step, CallRecords
    <3> QED BY <2>1, <3>1
  <2> QED BY <1>8, <2>3, <2>4, <2>5
<1> QED BY <1>2, <1>3, <1>4, <1>5, <1>6, <1>7, <1>8, FailedRequest, Writers

-----------------------------------------------------------------------------
(* The requests *)

LEMMA RequestsStep ==
  ASSUME GateTypes, DecidedIsAsked, OneRequestPerCall, [Next]_vars
  PROVE  DecidedIsAsked' /\ OneRequestPerCall'
<1> DEFINE Asks == [work : Works, status : {"pending", "approved", "rejected"}]
<1> USE DEF DecidedIsAsked, OneRequestPerCall, Asked
<1>1. requests \in Seq(Asks) /\ DOMAIN requests = 1 .. Len(requests) /\ Len(requests) \in Nat
      /\ decisions \in [Works -> {"none", "approved", "rejected"}]
  BY LenProperties DEF GateTypes
<1>2. \A i \in DOMAIN requests :
        requests[i].work \in Works /\ requests[i].status \in {"pending", "approved", "rejected"}
  <2>1. \A i \in 1 .. Len(requests) : requests[i] \in Asks
    <3> HIDE DEF Asks
    <3> QED BY <1>1, ElementOfSeq
  <2> QED BY <1>1, <2>1
<1>3. CASE UNCHANGED <<requests, decisions>>
  BY <1>3
<1>4. ASSUME NEW c \in Calls, Ask(c), requests' # requests
      PROVE  DecidedIsAsked' /\ OneRequestPerCall'
  <2> DEFINE w == calls[c].work
  <2>1. /\ ~Asked(w) /\ decisions' = decisions
        /\ requests' = Append(requests, [work |-> w, status |-> "pending"])
    BY <1>4 DEF Ask
  <2>2. w \in Works
    BY DEF GateTypes, CallRecords
  <2>3. decisions[w] = "none"
    BY <2>1, <2>2
  <2> HIDE DEF w
  <2>4. /\ DOMAIN requests' = 1 .. Len(requests) + 1
        /\ requests'[Len(requests) + 1] = [work |-> w, status |-> "pending"]
        /\ \A i \in DOMAIN requests : requests'[i] = requests[i]
    BY <1>1, <2>1
  <2>5. \A i \in DOMAIN requests : i \in DOMAIN requests' /\ i # Len(requests) + 1
    BY <1>1, <2>4
  <2>6. \A i \in DOMAIN requests' : i \in DOMAIN requests \/ i = Len(requests) + 1
    BY <1>1, <2>4
  <2>7. DecidedIsAsked'
    BY <2>1, <2>4, <2>5
  <2>8. \A i, j \in DOMAIN requests' : requests'[i].work = requests'[j].work => i = j
    BY <2>1, <2>4, <2>5, <2>6
  <2>9. \A i \in DOMAIN requests' :
          decisions'[requests'[i].work] =
            IF requests'[i].status = "pending" THEN "none" ELSE requests'[i].status
    BY <2>1, <2>3, <2>4, <2>5, <2>6
  <2> QED BY <2>7, <2>8, <2>9
<1>5. ASSUME NEW i \in DOMAIN requests, NEW d \in {"approved", "rejected"}, Decide(i, d)
      PROVE  DecidedIsAsked' /\ OneRequestPerCall'
  <2>1. /\ DOMAIN requests' = DOMAIN requests
        /\ \A j \in DOMAIN requests : requests'[j].work = requests[j].work
        /\ \A j \in DOMAIN requests : j # i => requests'[j].status = requests[j].status
        /\ requests'[i].status = d
    <3>1. requests[i] \in Asks
      <4> HIDE DEF Asks
      <4> QED BY <1>1, ElementOfSeq
    <3>2. requests' = [requests EXCEPT ![i] = [requests[i] EXCEPT !.status = d]]
      BY <1>1, <1>5 DEF Decide
    <3> QED BY <1>1, <3>1, <3>2
  <2>2. /\ decisions'[requests[i].work] = d
        /\ \A w \in Works : w # requests[i].work => decisions'[w] = decisions[w]
    BY <1>1, <1>2, <1>5 DEF Decide
  <2>3. DecidedIsAsked'
    BY <2>1, <2>2
  <2>4. \A j \in DOMAIN requests : j # i => requests[j].work # requests[i].work
    OBVIOUS
  <2> QED BY <1>2, <2>1, <2>2, <2>3, <2>4
<1>6. ASSUME NEW c \in Calls, Ask(c)
      PROVE  decisions' = decisions
  BY <1>6 DEF Ask
<1> QED BY <1>3, <1>4, <1>5, <1>6, Writers

-----------------------------------------------------------------------------
(* The charges *)

LEMMA ChargeStep ==
  ASSUME GateTypes, ChargedOnce, GoalNotOvercharged, [Next]_vars
  PROVE  ChargedOnce' /\ GoalNotOvercharged'
<1> USE DEF ChargedOnce, GoalNotOvercharged
<1>1. /\ goal \in [used : Nat, made : Nat, page : Nat]
      /\ catalog.count \in Nat /\ turn \in Turns
  BY DEF GateTypes
<1>2. /\ goal.used \in Nat /\ goal.made \in Nat /\ goal.page \in Nat
  BY <1>1
<1>3. CASE UNCHANGED <<goal, catalog, turn>>
  BY <1>3
<1>4. CASE \/ CheckTurn \/ Consume \/ Answer \/ NextTurn
           \/ RequestFails /\ turn = "request" /\ UNCHANGED catalog
  <2>1. UNCHANGED <<goal, catalog>> /\ turn # "recorded"
    BY <1>4 DEF CheckTurn, Consume, Answer, NextTurn, RequestFails
  <2> QED BY <2>1
<1>5. CASE Record
  <2>1. /\ turn = "over" /\ turn' = "recorded" /\ catalog' = catalog
        /\ goal'.used = goal.used + catalog.count
        /\ goal'.made = goal.made /\ goal'.page = goal.page
    BY <1>1, <1>5 DEF Record, AddUsage
  <2> QED BY <1>2, <1>1, <2>1
<1>6. CASE Repaired
  <2>1. /\ catalog'.count = 0
        /\ goal'.used = Charge /\ goal'.made = goal.made /\ goal'.page = goal.page
    BY <1>1, <1>6 DEF Repaired, Renew, NoCatalog
  <2> QED BY <1>1, <1>2, <2>1 DEF Charge
<1>7. CASE Crash \/ (RequestFails /\ Renew)
  <2>1. catalog'.count = 0 /\ goal' = goal
    BY <1>7 DEF Crash, RequestFails, Renew, NoCatalog
  <2> QED BY <1>2, <2>1
<1>8. ASSUME NEW c \in Calls, Count(c)
      PROVE  ChargedOnce' /\ GoalNotOvercharged'
  <2>1. /\ catalog'.count = catalog.count + 1 /\ turn' = turn
        /\ goal'.made = goal.made + 1 /\ goal'.used = goal.used /\ goal'.page = goal.page
    BY <1>1, <1>8 DEF Count
  <2> QED BY <1>1, <1>2, <2>1
<1>9. CASE PageLoads \/ PageSaves
  <2>1. /\ UNCHANGED <<catalog, turn>> /\ goal'.made = goal.made
        /\ \/ goal'.page = goal.used /\ goal'.used = goal.used
           \/ goal'.used = goal.page /\ goal'.page = goal.page
    BY <1>1, <1>9 DEF PageLoads, PageSaves
  <2> QED BY <1>2, <2>1
<1> QED BY <1>3, <1>4, <1>5, <1>6, <1>7, <1>8, <1>9, FailedRequest, Writers

-----------------------------------------------------------------------------
(* Steering *)

(* What steering depends on. *)
LEMMA SteeringWriters ==
  ASSUME [Next]_vars
  PROVE  \/ UNCHANGED <<steering, taken, sending, heard, lost, turn>>
         \/ CheckTurn \/ NextTurn \/ Record \/ Repaired
         \/ Consume \/ Answer \/ RequestFails \/ Crash
         \/ \E m \in Messages : Guide(m) \/ AddSteering(m)
BY Writers

(* What is sent after something was heard, element by element. *)
LEMMA SentElements ==
  ASSUME NEW s \in Seq(Messages), NEW t \in Seq(Messages)
  PROVE  /\ s \o t \in Seq(Messages)
         /\ DOMAIN (s \o t) = 1 .. Len(s) + Len(t) /\ Len(s) \in Nat /\ Len(t) \in Nat
         /\ DOMAIN s = 1 .. Len(s) /\ DOMAIN t = 1 .. Len(t)
         /\ \A i \in DOMAIN s : i \in DOMAIN (s \o t) /\ (s \o t)[i] = s[i]
         /\ \A i \in DOMAIN t : /\ Len(s) + i \in DOMAIN (s \o t)
                                /\ (s \o t)[Len(s) + i] = t[i]
         /\ \A i \in DOMAIN (s \o t) :
              \/ i \in DOMAIN s
              \/ i > Len(s) /\ i - Len(s) \in DOMAIN t /\ (s \o t)[i] = t[i - Len(s)]
<1>1. /\ s \o t \in Seq(Messages) /\ Len(s \o t) = Len(s) + Len(t)
      /\ \A i \in 1 .. Len(s) + Len(t) :
           (s \o t)[i] = IF i <= Len(s) THEN s[i] ELSE t[i - Len(s)]
  BY ConcatProperties
<1>2. Len(s) \in Nat /\ Len(t) \in Nat /\ DOMAIN s = 1 .. Len(s) /\ DOMAIN t = 1 .. Len(t)
  BY LenProperties
<1>3. DOMAIN (s \o t) = 1 .. Len(s) + Len(t)
  BY <1>1, LenProperties
<1> DEFINE r == s \o t
<1>4. DOMAIN r = 1 .. Len(s) + Len(t)
      /\ \A i \in 1 .. Len(s) + Len(t) : r[i] = IF i <= Len(s) THEN s[i] ELSE t[i - Len(s)]
  BY <1>1, <1>3
<1> HIDE DEF r
<1>5. \A i \in DOMAIN s : i \in DOMAIN r /\ r[i] = s[i]
  BY <1>2, <1>4
<1>6. \A i \in DOMAIN t : Len(s) + i \in DOMAIN r /\ r[Len(s) + i] = t[i]
  <2> TAKE i \in DOMAIN t
  <2>1. /\ i \in Nat /\ i >= 1 /\ i <= Len(t) /\ ~(Len(s) + i <= Len(s))
        /\ (Len(s) + i) - Len(s) = i /\ Len(s) + i \in 1 .. Len(s) + Len(t)
    BY <1>2
  <2> QED BY <1>4, <2>1
<1>7. \A i \in DOMAIN r : \/ i \in DOMAIN s
                          \/ i > Len(s) /\ i - Len(s) \in DOMAIN t /\ r[i] = t[i - Len(s)]
  BY <1>2, <1>4
<1> QED BY <1>1, <1>2, <1>4, <1>5, <1>6, <1>7 DEF r

(* What a model request takes along: the queue's tail that was not taken   *)
(* yet, in its order.                                                      *)
LEMMA TakenAlong ==
  ASSUME SteeringTypes, SteeringInOrder, Consume
  PROVE  /\ sending' \in Seq(Messages)
         /\ \A i \in DOMAIN sending' : \E k \in DOMAIN steering :
              ~steering[k].consumed /\ steering[k].message = sending'[i]
         /\ \A k \in DOMAIN steering : ~steering[k].consumed =>
              \E i \in DOMAIN sending' : sending'[i] = steering[k].message
         /\ \A i, j \in DOMAIN sending', k, l \in DOMAIN steering :
              i < j /\ sending'[i] = steering[k].message /\ sending'[j] = steering[l].message
                => k < l
<1> DEFINE Entries == [message : Messages, consumed : BOOLEAN]
           S       == [message : Messages, consumed : {FALSE}]
           r       == Selected(steering, S)
<1>1. steering \in Seq(Entries)
  BY DEF SteeringTypes
<1>2. /\ r \in Seq(Entries)
      /\ \A k \in 1 .. Len(r) : \E i \in 1 .. Len(steering) : r[k] = steering[i] /\ steering[i] \in S
      /\ \A i \in 1 .. Len(steering) : steering[i] \in S => \E k \in 1 .. Len(r) : r[k] = steering[i]
  <2> HIDE DEF Entries, S, r
  <2> DEFINE Of(T, s, U) ==
               /\ Selected(s, U) \in Seq(T)
               /\ \A k \in 1 .. Len(Selected(s, U)) :
                    \E i \in 1 .. Len(s) : Selected(s, U)[k] = s[i] /\ s[i] \in U
               /\ \A i \in 1 .. Len(s) : s[i] \in U =>
                    \E k \in 1 .. Len(Selected(s, U)) : Selected(s, U)[k] = s[i]
  <2>1. ASSUME NEW T, NEW s \in Seq(T), NEW U PROVE Of(T, s, U)
    BY SelectedElements
  <2> HIDE DEF Of
  <2>2. Of(Entries, steering, S)
    BY <1>1, <2>1
  <2> QED BY <2>2 DEF Of, r
<1>5. \A k, l \in 1 .. Len(r) : k < l =>
        \E i, j \in 1 .. Len(steering) : i < j /\ r[k] = steering[i] /\ r[l] = steering[j]
  BY <1>1, SelectedOrder
<1>6. sending' = [i \in DOMAIN r |-> r[i].message]
  BY DEF Consume, Unheard
<1>7. DOMAIN steering = 1 .. Len(steering) /\ Len(steering) \in Nat
      /\ \A k \in 1 .. Len(steering) : steering[k] \in Entries
  <2> HIDE DEF Entries
  <2> QED BY <1>1, LenProperties, ElementOfSeq
<1>8. DOMAIN r = 1 .. Len(r) /\ Len(r) \in Nat /\ \A k \in 1 .. Len(r) : r[k] \in Entries
  <2> HIDE DEF Entries, r
  <2> QED BY <1>2, LenProperties, ElementOfSeq
<1> HIDE DEF r
<1>9. sending' \in Seq(Messages)
  <2>1. \A i \in 1 .. Len(r) : r[i].message \in Messages
    BY <1>8
  <2> QED BY <1>6, <1>8, <2>1, SeqDef
<1>10. DOMAIN sending' = 1 .. Len(r) /\ \A i \in 1 .. Len(r) : sending'[i] = r[i].message
  BY <1>6, <1>8
<1>11. \A k \in DOMAIN steering : ~steering[k].consumed <=> steering[k] \in S
  BY <1>7
<1>12. ASSUME NEW i \in DOMAIN sending'
       PROVE  \E k \in DOMAIN steering :
                ~steering[k].consumed /\ steering[k].message = sending'[i]
  <2>1. i \in 1 .. Len(r) /\ sending'[i] = r[i].message
    BY <1>10
  <2>2. PICK k \in 1 .. Len(steering) : r[i] = steering[k] /\ steering[k] \in S
    BY <1>2, <2>1
  <2> QED BY <1>7, <1>11, <2>1, <2>2
<1>13. ASSUME NEW k \in DOMAIN steering, ~steering[k].consumed
       PROVE  \E i \in DOMAIN sending' : sending'[i] = steering[k].message
  <2>1. k \in 1 .. Len(steering) /\ steering[k] \in S
    BY <1>7, <1>11, <1>13
  <2>2. PICK i \in 1 .. Len(r) : r[i] = steering[k]
    BY <1>2, <2>1
  <2> QED BY <1>10, <2>2
<1>14. ASSUME NEW i \in DOMAIN sending', NEW j \in DOMAIN sending',
              NEW k \in DOMAIN steering, NEW l \in DOMAIN steering,
              i < j, sending'[i] = steering[k].message, sending'[j] = steering[l].message
       PROVE  k < l
  <2>1. PICK x, y \in 1 .. Len(steering) : x < y /\ r[i] = steering[x] /\ r[j] = steering[y]
    BY SMTT(30), <1>5, <1>10, <1>14
  <2>2. steering[x].message = steering[k].message /\ steering[y].message = steering[l].message
    BY <1>10, <1>14, <2>1
  <2>3. x = k /\ y = l
    BY <1>7, <2>2 DEF SteeringInOrder
  <2> QED BY <2>1, <2>3
<1> QED BY <1>9, <1>12, <1>13, <1>14

(* The parts of the invariant that are about the queue alone. *)
LEMMA QueueStep ==
  ASSUME SteeringTypes, SteeringInOrder, [Next]_vars
  PROVE  SteeringTypes' /\ SteeringInOrder'
<1> DEFINE Entries == [message : Messages, consumed : BOOLEAN]
<1>1. /\ steering \in Seq(Entries) /\ taken \subseteq Messages /\ lost \subseteq Messages
      /\ sending \in Seq(Messages) /\ heard \in Seq(Messages)
  BY DEF SteeringTypes
<1>2. /\ DOMAIN steering = 1 .. Len(steering) /\ Len(steering) \in Nat
      /\ \A k \in 1 .. Len(steering) : steering[k] \in Entries
  <2> HIDE DEF Entries
  <2> QED BY <1>1, LenProperties, ElementOfSeq
<1>3. CASE UNCHANGED <<steering, taken, sending, heard, lost, turn>>
  BY <1>3 DEF SteeringTypes, SteeringInOrder
<1>4. CASE CheckTurn \/ NextTurn \/ Record \/ Repaired
  <2>1. UNCHANGED <<steering, taken, sending, heard, lost>> /\ turn # "request"
        /\ turn' # "request"
    BY <1>4 DEF CheckTurn, NextTurn, Record, Repaired, Renew
  <2> QED BY <2>1 DEF SteeringTypes, SteeringInOrder
<1>5. CASE Consume
  <2>1. sending' \in Seq(Messages)
    BY <1>5, TakenAlong
  <2>2. /\ DOMAIN steering' = DOMAIN steering
        /\ \A k \in DOMAIN steering : steering'[k] = [steering[k] EXCEPT !.consumed = TRUE]
        /\ UNCHANGED <<taken, heard, lost>> /\ turn' = "request"
    BY <1>5 DEF Consume
  <2>3. \A k \in DOMAIN steering : steering'[k] \in Entries /\ steering'[k].consumed
                                   /\ steering'[k].message = steering[k].message
    BY ZenonT(40), <1>2, <2>2
  <2>4. steering' \in Seq(Entries)
    <3>1. steering' = [k \in 1 .. Len(steering) |-> [steering[k] EXCEPT !.consumed = TRUE]]
      BY <1>2, <1>5 DEF Consume
    <3>2. \A k \in 1 .. Len(steering) : [steering[k] EXCEPT !.consumed = TRUE] \in Entries
      BY <1>2
    <3> HIDE DEF Entries
    <3> QED BY <1>2, <3>1, <3>2, SeqDef
  <2>5. SteeringTypes'
    BY <1>1, <2>1, <2>2, <2>4 DEF SteeringTypes
  <2>6. SteeringInOrder'
    BY <2>2, <2>3 DEF SteeringInOrder
  <2> QED BY <2>5, <2>6
<1>6. CASE Answer
  <2>1. heard \o sending \in Seq(Messages)
    BY <1>1, ConcatProperties
  <2>2. UNCHANGED <<steering, taken, lost>> /\ sending' = <<>> /\ heard' = heard \o sending
    BY <1>6 DEF Answer
  <2>3. sending' \in Seq(Messages)
    BY <2>2
  <2> QED BY <1>1, <2>1, <2>2, <2>3 DEF SteeringTypes, SteeringInOrder
<1>7. CASE RequestFails \/ Crash
  <2>1. /\ UNCHANGED <<steering, heard>> /\ sending' = <<>> /\ taken' \subseteq taken
        /\ turn' # "request"
        /\ lost' \in {lost \cup {sending[i] : i \in DOMAIN sending},
                     lost \cup taken \cup {sending[i] : i \in DOMAIN sending}}
    BY <1>7 DEF RequestFails, Crash, Renew
  <2>2. \A i \in DOMAIN sending : sending[i] \in Messages
    BY <1>1, LenProperties, ElementOfSeq
  <2>3. sending' \in Seq(Messages)
    BY <2>1
  <2>4. SteeringTypes'
    BY <1>1, <2>1, <2>2, <2>3 DEF SteeringTypes
  <2>5. SteeringInOrder'
    BY <2>1 DEF SteeringInOrder
  <2> QED BY <2>4, <2>5
<1>8. ASSUME NEW m \in Messages, Guide(m)
      PROVE  SteeringTypes' /\ SteeringInOrder'
  <2>1. /\ UNCHANGED <<steering, sending, heard, lost, turn>> /\ taken' = taken \cup {m}
        /\ \A k \in DOMAIN steering : steering[k].message # m
    BY <1>8 DEF Guide, New
  <2> QED BY <1>1, <2>1 DEF SteeringTypes, SteeringInOrder
<1>9. ASSUME NEW m \in Messages, AddSteering(m)
      PROVE  SteeringTypes' /\ SteeringInOrder'
  <2> DEFINE entry == [message |-> m, consumed |-> FALSE]
             n     == Len(steering) + 1
  <2>1. /\ UNCHANGED <<sending, heard, lost, turn>> /\ taken' = taken \ {m}
        /\ steering' = Append(steering, entry)
        /\ \A k \in DOMAIN steering : steering[k].message # m
    BY <1>9 DEF AddSteering, New, SteeringInOrder
  <2>2. entry \in Entries /\ entry.message = m /\ entry.consumed = FALSE
    OBVIOUS
  <2>3. /\ steering' \in Seq(Entries) /\ Len(steering') = n
        /\ \A k \in 1 .. Len(steering) : steering'[k] = steering[k]
        /\ steering'[n] = entry
    <3> HIDE DEF Entries, entry
    <3> QED BY <1>1, <2>1, <2>2, AppendProperties
  <2>4. DOMAIN steering' = 1 .. n
    <3> HIDE DEF Entries, n
    <3> QED BY <2>3, LenProperties
  <2> HIDE DEF entry
  <2>5. SteeringTypes'
    BY <1>1, <2>1, <2>3 DEF SteeringTypes
  <2>6. \A k \in 1 .. n : k = n \/ k \in 1 .. Len(steering)
    BY <1>2
  <2>7. SteeringInOrder'
    <3>1. \A k, l \in DOMAIN steering' : steering'[k].message = steering'[l].message => k = l
      BY <1>2, <2>1, <2>2, <2>3, <2>4, <2>6 DEF SteeringInOrder
    <3>2. \A k \in DOMAIN steering' : steering'[k].message \notin taken'
      BY <1>2, <2>1, <2>2, <2>3, <2>4, <2>6 DEF SteeringInOrder
    <3>3. \A k, l \in DOMAIN steering' : k < l /\ steering'[l].consumed => steering'[k].consumed
      BY <1>2, <2>2, <2>3, <2>4, <2>6 DEF SteeringInOrder
    <3>4. turn' # "request" => sending' = <<>>
      BY <2>1 DEF SteeringInOrder
    <3> QED BY <3>1, <3>2, <3>3, <3>4 DEF SteeringInOrder
  <2> QED BY <2>5, <2>7
<1> QED BY <1>3, <1>4, <1>5, <1>6, <1>7, <1>8, <1>9, SteeringWriters

(* What was consumed and what was sent. *)
LEMMA SteerStep ==
  ASSUME SteerInv, [Next]_vars
  PROVE  SteerInv'
<1>1. SteeringTypes' /\ SteeringInOrder'
  BY QueueStep DEF SteerInv
<1>2. heard \in Seq(Messages) /\ sending \in Seq(Messages)
      /\ heard' \in Seq(Messages) /\ sending' \in Seq(Messages)
  BY <1>1 DEF SteerInv, SteeringTypes
<1>3. CASE UNCHANGED <<steering, sending, heard, lost>>
  BY <1>1, <1>3 DEF SteerInv, AllSent, SentIsConsumed, SentInOrder, ConsumedIsSent
<1>4. CASE CheckTurn \/ NextTurn \/ Record \/ Repaired
  BY <1>3, <1>4 DEF CheckTurn, NextTurn, Record, Repaired
<1>5. CASE Consume
  <2>1. sending = <<>>
    BY <1>5 DEF Consume, SteerInv, SteeringInOrder
  <2>2. /\ DOMAIN steering' = DOMAIN steering /\ heard' = heard /\ lost' = lost
        /\ \A k \in DOMAIN steering : steering'[k] = [steering[k] EXCEPT !.consumed = TRUE]
    BY <1>5 DEF Consume
  <2>3. DOMAIN steering = 1 .. Len(steering) /\ Len(steering) \in Nat
        /\ \A k \in DOMAIN steering : steering[k] \in [message : Messages, consumed : BOOLEAN]
    <3> DEFINE Entries == [message : Messages, consumed : BOOLEAN]
    <3>1. steering \in Seq(Entries)
      BY DEF SteerInv, SteeringTypes
    <3> HIDE DEF Entries
    <3>2. DOMAIN steering = 1 .. Len(steering) /\ Len(steering) \in Nat
          /\ \A k \in DOMAIN steering : steering[k] \in Entries
      BY <3>1, LenProperties, ElementOfSeq
    <3> QED BY <3>2 DEF Entries
  <2>4. \A k \in DOMAIN steering : steering'[k].message = steering[k].message
                                   /\ steering'[k].consumed
    BY <2>2, <2>3
  <2>5. AllSent = heard
    BY <1>2, <2>1, ConcatEmptySeq DEF AllSent
  <2> DEFINE t   == sending'
             all == AllSent'
  <2>6. all = heard \o t
    BY <2>2 DEF AllSent
  <2>7. /\ \A i \in DOMAIN t : \E k \in DOMAIN steering :
             ~steering[k].consumed /\ steering[k].message = t[i]
        /\ \A k \in DOMAIN steering : ~steering[k].consumed =>
             \E i \in DOMAIN t : t[i] = steering[k].message
        /\ \A i, j \in DOMAIN t, k, l \in DOMAIN steering :
             i < j /\ t[i] = steering[k].message /\ t[j] = steering[l].message => k < l
    BY <1>5, TakenAlong DEF SteerInv
  <2>8. t \in Seq(Messages)
    BY <1>2
  <2> HIDE DEF t, all
  <2>9. /\ DOMAIN all = 1 .. Len(heard) + Len(t) /\ Len(heard) \in Nat /\ Len(t) \in Nat
        /\ DOMAIN heard = 1 .. Len(heard) /\ DOMAIN t = 1 .. Len(t)
        /\ \A i \in DOMAIN heard : i \in DOMAIN all /\ all[i] = heard[i]
        /\ \A i \in DOMAIN t : Len(heard) + i \in DOMAIN all /\ all[Len(heard) + i] = t[i]
        /\ \A i \in DOMAIN all :
             \/ i \in DOMAIN heard
             \/ i > Len(heard) /\ i - Len(heard) \in DOMAIN t /\ all[i] = t[i - Len(heard)]
    <3>1. heard \in Seq(Messages)
      BY <1>2
    <3>2. /\ DOMAIN (heard \o t) = 1 .. Len(heard) + Len(t)
          /\ Len(heard) \in Nat /\ Len(t) \in Nat
          /\ DOMAIN heard = 1 .. Len(heard) /\ DOMAIN t = 1 .. Len(t)
          /\ \A i \in DOMAIN heard : i \in DOMAIN (heard \o t) /\ (heard \o t)[i] = heard[i]
          /\ \A i \in DOMAIN t : /\ Len(heard) + i \in DOMAIN (heard \o t)
                                 /\ (heard \o t)[Len(heard) + i] = t[i]
          /\ \A i \in DOMAIN (heard \o t) :
               \/ i \in DOMAIN heard
               \/ /\ i > Len(heard) /\ i - Len(heard) \in DOMAIN t
                  /\ (heard \o t)[i] = t[i - Len(heard)]
      BY <3>1, <2>8, SentElements
    <3> QED BY <2>6, <3>2
  <2>10. /\ \A i \in DOMAIN heard : \E k \in DOMAIN steering :
              steering[k].consumed /\ steering[k].message = heard[i]
         /\ \A i, j \in DOMAIN heard, k, l \in DOMAIN steering :
              i < j /\ heard[i] = steering[k].message /\ heard[j] = steering[l].message => k < l
         /\ \A k \in DOMAIN steering : steering[k].consumed =>
              \/ steering[k].message \in lost
              \/ \E i \in DOMAIN heard : heard[i] = steering[k].message
    BY <2>5 DEF SteerInv, SentIsConsumed, SentInOrder, ConsumedIsSent
  <2>11. \A i \in DOMAIN all : \E k \in DOMAIN steering : steering[k].message = all[i]
    <3> TAKE i \in DOMAIN all
    <3>1. CASE i \in DOMAIN heard
      BY <2>9, <2>10, <3>1
    <3>2. CASE i - Len(heard) \in DOMAIN t /\ all[i] = t[i - Len(heard)]
      BY <2>7, <3>2
    <3> QED BY <2>9, <3>1, <3>2
  <2>12. SentIsConsumed'
    BY <2>2, <2>4, <2>11 DEF SentIsConsumed, all
  <2>13. ASSUME NEW i \in DOMAIN all, NEW j \in DOMAIN all,
                NEW k \in DOMAIN steering, NEW l \in DOMAIN steering,
                i < j, all[i] = steering[k].message, all[j] = steering[l].message
         PROVE  k < l
    <3>1. i \in Nat /\ j \in Nat /\ k \in Nat /\ l \in Nat
      BY <2>3, <2>9
    <3>2. CASE i \in DOMAIN heard /\ j \in DOMAIN heard
      BY <2>9, <2>10, <2>13, <3>2
    <3>3. CASE i \in DOMAIN heard /\ j \notin DOMAIN heard
      <4>1. heard[i] = steering[k].message /\ j - Len(heard) \in DOMAIN t
            /\ t[j - Len(heard)] = steering[l].message
        BY <2>9, <2>13, <3>3
      <4>2. PICK x \in DOMAIN steering : steering[x].consumed /\ steering[x].message = heard[i]
        BY <2>10, <3>3
      <4>3. PICK y \in DOMAIN steering : ~steering[y].consumed
                                         /\ steering[y].message = t[j - Len(heard)]
        BY <2>7, <4>1
      <4>4. x = k /\ y = l
        BY <4>1, <4>2, <4>3 DEF SteerInv, SteeringInOrder
      <4>5. ~(l < k) /\ l # k
        BY <4>2, <4>3, <4>4 DEF SteerInv, SteeringInOrder
      <4> QED BY <3>1, <4>5
    <3>4. CASE i \notin DOMAIN heard
      <4>1. /\ i > Len(heard) /\ i - Len(heard) \in DOMAIN t /\ all[i] = t[i - Len(heard)]
            /\ j \notin DOMAIN heard
        BY <2>9, <2>13, <3>1, <3>4
      <4>2. j - Len(heard) \in DOMAIN t /\ all[j] = t[j - Len(heard)]
        BY <2>9, <4>1
      <4>3. i - Len(heard) < j - Len(heard)
        BY <2>9, <2>13, <3>1
      <4> QED BY <2>7, <2>13, <4>1, <4>2, <4>3
    <3> QED BY <3>2, <3>3, <3>4
  <2>14. SentInOrder'
    BY <2>2, <2>4, <2>13 DEF SentInOrder, all
  <2>15. \A k \in DOMAIN steering : \/ steering[k].message \in lost
                                    \/ \E i \in DOMAIN all : all[i] = steering[k].message
    <3> TAKE k \in DOMAIN steering
    <3>1. CASE steering[k].consumed
      BY <2>9, <2>10, <3>1
    <3>2. CASE ~steering[k].consumed
      BY <2>7, <2>9, <3>2
    <3> QED BY <3>1, <3>2
  <2>16. ConsumedIsSent'
    BY <2>2, <2>4, <2>15 DEF ConsumedIsSent, all
  <2> QED BY <1>1, <2>12, <2>14, <2>16 DEF SteerInv
<1>6. CASE Answer
  <2>1. UNCHANGED <<steering, lost>> /\ sending' = <<>> /\ heard' = heard \o sending
    BY <1>6 DEF Answer
  <2>2. AllSent' = AllSent
    BY <1>2, <2>1, ConcatEmptySeq DEF AllSent
  <2> QED BY <1>1, <2>1, <2>2 DEF SteerInv, SentIsConsumed, SentInOrder, ConsumedIsSent
<1>7. CASE RequestFails \/ Crash
  <2>1. /\ UNCHANGED <<steering, heard>> /\ sending' = <<>>
        /\ lost \cup {sending[i] : i \in DOMAIN sending} \subseteq lost'
    BY <1>7 DEF RequestFails, Crash
  <2>2. AllSent' = heard
    BY <1>2, <2>1, ConcatEmptySeq DEF AllSent
  <2>3. /\ DOMAIN heard = 1 .. Len(heard) /\ Len(heard) \in Nat
        /\ \A i \in DOMAIN heard : i \in DOMAIN AllSent /\ AllSent[i] = heard[i]
        /\ \A i \in DOMAIN AllSent :
             \/ i \in DOMAIN heard
             \/ i - Len(heard) \in DOMAIN sending /\ AllSent[i] = sending[i - Len(heard)]
    BY <1>2, SentElements DEF AllSent
  <2>4. SentIsConsumed'
    BY <2>1, <2>2, <2>3 DEF SteerInv, SentIsConsumed
  <2>5. SentInOrder'
    BY <2>1, <2>2, <2>3 DEF SteerInv, SentInOrder
  <2>6. ASSUME NEW k \in DOMAIN steering, steering[k].consumed
        PROVE  \/ steering[k].message \in lost'
               \/ \E i \in DOMAIN heard : heard[i] = steering[k].message
    <3>1. CASE steering[k].message \in lost
      BY <2>1, <3>1
    <3>2. ASSUME NEW i \in DOMAIN AllSent, AllSent[i] = steering[k].message
          PROVE  \/ steering[k].message \in lost'
                 \/ \E j \in DOMAIN heard : heard[j] = steering[k].message
      BY <2>1, <2>3, <3>2
    <3> QED BY <2>6, <3>1, <3>2 DEF SteerInv, ConsumedIsSent
  <2>7. ConsumedIsSent'
    BY <2>1, <2>2, <2>6 DEF ConsumedIsSent
  <2> QED BY <1>1, <2>4, <2>5, <2>7 DEF SteerInv
<1>8. ASSUME NEW m \in Messages, Guide(m)
      PROVE  SteerInv'
  BY <1>3, <1>8 DEF Guide
<1>9. ASSUME NEW m \in Messages, AddSteering(m)
      PROVE  SteerInv'
  <2> DEFINE entry   == [message |-> m, consumed |-> FALSE]
             Entries == [message : Messages, consumed : BOOLEAN]
  <2>1. /\ UNCHANGED <<sending, heard, lost>> /\ steering' = Append(steering, entry)
        /\ \A k \in DOMAIN steering : steering[k].message # m
    BY <1>9 DEF AddSteering, New, SteerInv, SteeringInOrder
  <2>2. entry \in Entries /\ entry.message = m /\ entry.consumed = FALSE
    OBVIOUS
  <2>3. steering \in Seq(Entries)
    BY DEF SteerInv, SteeringTypes
  <2> HIDE DEF Entries, entry
  <2>4. /\ steering' \in Seq(Entries) /\ Len(steering') = Len(steering) + 1
        /\ \A k \in 1 .. Len(steering) : steering'[k] = steering[k]
        /\ steering'[Len(steering) + 1] = entry
    BY <2>1, <2>2, <2>3, AppendProperties
  <2>5. /\ Len(steering) \in Nat /\ DOMAIN steering = 1 .. Len(steering)
        /\ DOMAIN steering' = 1 .. Len(steering) + 1
    BY <2>3, <2>4, LenProperties
  <2>6. AllSent' = AllSent
    BY <2>1 DEF AllSent
  <2>7. \A k \in DOMAIN steering : k \in DOMAIN steering' /\ steering'[k] = steering[k]
    BY <2>4, <2>5
  <2>8. \A k \in DOMAIN steering' : \/ k \in DOMAIN steering
                                    \/ /\ steering'[k].message = m /\ ~steering'[k].consumed
    BY <2>2, <2>4, <2>5
  <2>9. SentIsConsumed'
    BY <2>6, <2>7 DEF SteerInv, SentIsConsumed
  <2>10. \A i \in DOMAIN AllSent : AllSent[i] # m
    BY <2>1 DEF SteerInv, SentIsConsumed
  <2>11. SentInOrder'
    BY <2>6, <2>7, <2>8, <2>10 DEF SteerInv, SentInOrder
  <2>12. ConsumedIsSent'
    BY <2>1, <2>6, <2>7, <2>8 DEF SteerInv, ConsumedIsSent
  <2> QED BY <1>1, <2>9, <2>11, <2>12 DEF SteerInv
<1> QED BY <1>3, <1>4, <1>5, <1>6, <1>7, <1>8, <1>9, SteeringWriters

-----------------------------------------------------------------------------
(* The theorems *)

(* What the gate's parts know of each other. *)
THEOREM GateInvHolds == ASSUME Sensible PROVE Spec => []GateInv
<1>1. Init => GateInv
  <2> SUFFICES ASSUME Init
               PROVE  GateInv
    OBVIOUS
  <2>1. GateTypes
    <3>1. calls \in [Calls -> CallRecords]
      BY NoCallType DEF Init
    <3>2. requests \in Seq([work : Works, status : {"pending", "approved", "rejected"}])
      BY DEF Init
    <3>3. catalog \in [count : Nat, repeats : [Works -> Nat]]
      BY DEF Init, NoCatalog
    <3>4. goal \in [used : Nat, made : Nat, page : Nat]
      BY DEF Init
    <3> QED BY <3>1, <3>2, <3>3, <3>4 DEF Init, GateTypes, Turns
  <2>2. NumbersDiffer
    <3>1. NoCall.number = 0 /\ NoCall.repeat = 0 /\ NoCall.work \in Works /\ ~NoCall.ran
          /\ NoCall.stage = "idle"
      BY DEF NoCall, Sensible
    <3> QED BY <3>1 DEF Init, NoCatalog, NumbersDiffer
  <2>3. SeesWhatStands /\ RunsOnlyIfAllowed
    BY DEF Init, NoCall, SeesWhatStands, RunsOnlyIfAllowed
  <2>4. DecidedIsAsked /\ OneRequestPerCall
    BY DEF Init, DecidedIsAsked, OneRequestPerCall
  <2>5. ChargedOnce /\ GoalNotOvercharged
    BY DEF Init, NoCatalog, ChargedOnce, GoalNotOvercharged
  <2> QED BY <2>1, <2>2, <2>3, <2>4, <2>5 DEF GateInv
<1>2. GateInv /\ [Next]_vars => GateInv'
  BY TypeStep, NumbersStep, SeenStep, RequestsStep, ChargeStep DEF GateInv
<1> QED BY <1>1, <1>2, PTL DEF Spec

(* However the calls of an answer interleave with each other, with the     *)
(* page and with crashes: an activation runs no more calls than its        *)
(* limits, only such as were allowed while they were made, an exact call   *)
(* is asked for once, and the goal is not charged a call that was not      *)
(* made (ToolCatalog and ApprovalBroker in tool_protocol.py, goals.py).    *)
THEOREM GateIsSoundHolds == ASSUME Sensible PROVE Spec => []GateIsSound
<1>1. GateInv => GateIsSound
  BY NumbersLimit DEF GateInv, GateIsSound
<1> QED BY <1>1, GateInvHolds, PTL

(* Steering is consumed once, and reaches the model in its order. *)
THEOREM SteerInvHolds == Spec => []SteerInv
<1>1. Init => SteerInv
  <2> SUFFICES ASSUME Init
               PROVE  SteerInv
    OBVIOUS
  <2>1. /\ steering = <<>> /\ taken = {} /\ sending = <<>> /\ heard = <<>> /\ lost = {}
    BY DEF Init
  <2>2. SteeringTypes
    BY <2>1 DEF SteeringTypes
  <2>3. DOMAIN steering = {}
    BY <2>1
  <2>4. DOMAIN AllSent = {}
    <3>1. <<>> \in Seq(Messages)
      OBVIOUS
    <3>2. AllSent = <<>>
      BY <2>1, <3>1, ConcatEmptySeq DEF AllSent
    <3> QED BY <3>2
  <2> QED BY <2>1, <2>2, <2>3, <2>4
       DEF SteerInv, SteeringInOrder, SentIsConsumed, SentInOrder, ConsumedIsSent
<1>2. SteerInv /\ [Next]_vars => SteerInv'
  BY SteerStep
<1> QED BY <1>1, <1>2, PTL DEF Spec

(* A steering message reaches the model once, in the order of the queue,   *)
(* and is not lost but with a process that dies, whatever pages and guided *)
(* messages of the queue add while the agent runs (add_steering and        *)
(* consume_steering in control.py, guide_queued_message in web.py).        *)
THEOREM SteeringReachesOnceHolds == Spec => []SteeringReachesOnce
<1>1. SteerInv => SteeringReachesOnce
  <2> SUFFICES ASSUME SteerInv
               PROVE  SteeringReachesOnce
    OBVIOUS
  <2> DEFINE all  == AllSent
             gone == {i \in DOMAIN steering : steering[i].consumed}
  <2>1. /\ all \in Seq(Messages) /\ DOMAIN all \subseteq Nat /\ DOMAIN steering \subseteq Nat
    <3>1. all \in Seq(Messages)
      BY ConcatProperties DEF SteerInv, SteeringTypes, AllSent
    <3>2. steering \in Seq([message : Messages, consumed : BOOLEAN])
      BY DEF SteerInv, SteeringTypes
    <3> QED BY <3>1, <3>2, LenProperties
  <2>2. ASSUME NEW i \in DOMAIN all, NEW j \in DOMAIN all, all[i] = all[j]
        PROVE  i = j
    <3>1. PICK k \in DOMAIN steering : steering[k].message = all[i]
      BY DEF SteerInv, SentIsConsumed
    <3>2. ~(i < j) /\ ~(j < i)
      BY <2>1, <2>2, <3>1 DEF SteerInv, SentInOrder
    <3> QED BY <2>1, <3>2
  <2>3. \A i, j \in DOMAIN all, k, l \in DOMAIN steering :
          i < j /\ all[i] = steering[k].message /\ all[j] = steering[l].message => k < l
    BY DEF SteerInv, SentInOrder
  <2>4. {steering[i].message : i \in gone} \ lost = {all[i] : i \in DOMAIN all} \ lost
    BY DEF SteerInv, SentIsConsumed, ConsumedIsSent
  <2> QED BY <2>2, <2>3, <2>4 DEF SteeringReachesOnce, AllSent
<1> QED BY <1>1, SteerInvHolds, PTL

-----------------------------------------------------------------------------
(* Resumable orchestrations: the inductive invariant.                      *)

CallerRecords ==
  [stage : {"none", "next", "tool", "free", "complete"}, step : 1 .. Length + 1, done : SUBSET Steps]

StepsTypeOK ==
  /\ flow \in [done : SUBSET Steps, running : {0} \cup Steps]
  /\ caller \in [Callers -> CallerRecords]
  /\ program \in [status : {"pending", "awaiting", "running", "completed"}, results : 0 .. Length]
  /\ runner \in [stage : {"none", "eval", "tool", "awaiting", "pending"}, results : 0 .. Length]
  /\ effects \in [{"flow", "program"} -> [Steps -> Nat]]
  /\ left \in [flow : Causes, program : Causes]

Holding(c) == caller[c].stage \in {"tool", "free", "complete"}

(* One caller at a time has claimed a step, with the workflow as it is. *)
OneHolder ==
  /\ \A c \in Callers : Holding(c) => flow.running = caller[c].step /\ caller[c].done = flow.done
  /\ \A c, d \in Callers : Holding(c) /\ Holding(d) => c = d
  /\ \A c \in Callers : Holding(c) => caller[c].step \in Steps

(* Done are the first steps, and what a caller remembers of them. *)
DoneInOrder ==
  /\ \A s \in flow.done : 1 .. s \subseteq flow.done
  /\ flow.running \notin flow.done /\ 1 .. flow.running - 1 \subseteq flow.done
  /\ \A c \in Callers : caller[c].stage # "none" =>
       caller[c].done \subseteq flow.done /\ 1 .. caller[c].step - 1 \subseteq caller[c].done

(* A step that did something is done, or is not taken again. *)
StepEffects ==
  /\ \A s \in Steps : /\ effects.flow[s] <= 1
                      /\ effects.flow[s] > 0 => s \in flow.done \/ s = flow.running
  /\ \A c \in Callers : caller[c].stage \in {"tool", "free"} => effects.flow[caller[c].step] = 0

(* The runner works on the results that are stored, one ahead of them once *)
(* a call returned.                                                        *)
RunnerHasProgram ==
  /\ runner.stage = "eval" => program.status \in {"pending", "awaiting"} /\ program.results = runner.results
  /\ runner.stage \in {"tool", "awaiting"} =>
       program.status = "running" /\ program.results = runner.results /\ runner.results < Length
  /\ runner.stage = "pending" => program.status = "running" /\ runner.results = program.results + 1

(* A call of the program has run if its result is stored, or, once, if it  *)
(* is the next one and the program is left running.                        *)
CallEffects ==
  \A s \in Steps :
    /\ effects.program[s] <= 1
    /\ s > program.results + 1 => effects.program[s] = 0
    /\ s = program.results + 1
       /\ (program.status \in {"pending", "awaiting"} \/ runner.stage \in {"tool", "awaiting"})
         => effects.program[s] = 0

(* The conjunction; what is refused is part of it. *)
StepsInv ==
  /\ StepsTypeOK /\ OneHolder /\ DoneInOrder /\ StepEffects
  /\ RunnerHasProgram /\ CallEffects /\ RefusesForCause

-----------------------------------------------------------------------------
(* A step of a caller, and one of the program's runner. *)
FlowStep(c) ==
  Call(c) \/ Skip(c) \/ ClaimStep(c) \/ ToolAnswers(c) \/ Free(c) \/ Complete(c) \/ FinishFlow(c)

ProgramStep == Run \/ Eval \/ Subcall \/ Checkpoint

LEMMA StepsInvStarts == StepsInit => StepsInv
<1> SUFFICES ASSUME StepsInit PROVE StepsInv
  OBVIOUS
<1>1. StepsTypeOK
  BY StepsAssumption DEF StepsInit, StepsTypeOK, CallerRecords, NoCaller, NoRunner, Causes
<1>2. OneHolder /\ DoneInOrder /\ StepEffects
  BY StepsAssumption DEF StepsInit, OneHolder, Holding, DoneInOrder, StepEffects, NoCaller, Steps
<1>3. RunnerHasProgram /\ CallEffects /\ RefusesForCause
  BY DEF StepsInit, RunnerHasProgram, CallEffects, RefusesForCause, NoRunner
<1> QED BY <1>1, <1>2, <1>3 DEF StepsInv

LEMMA RanTypes ==
  ASSUME StepsTypeOK, NEW kind \in {"flow", "program"}, NEW s \in Steps, NEW outcome \in Outcomes,
         Ran(kind, s, outcome)
  PROVE  /\ effects' \in [{"flow", "program"} -> [Steps -> Nat]]
         /\ \A other \in {"flow", "program"}, t \in Steps :
              effects'[other][t] = IF other = kind /\ t = s /\ outcome \notin {"refused", "approval"} /\ s \notin ReadOnly
                                   THEN effects[other][t] + 1 ELSE effects[other][t]
BY DEF StepsTypeOK, Ran

LEMMA FlowTypes ==
  ASSUME StepsTypeOK, OneHolder, NEW c \in Callers, FlowStep(c)
  PROVE  StepsTypeOK'
<1>1. CASE Call(c)
  BY <1>1, StepsAssumption DEF Call, StepsTypeOK, CallerRecords, OfFlow
<1>2. CASE Skip(c)
  <2>1. caller[c] \in CallerRecords /\ caller[c].step \in Steps
    BY <1>2 DEF StepsTypeOK, Skip, CallerRecords
  <2>2. [caller[c] EXCEPT !.step = @ + 1] \in CallerRecords
    BY <2>1, StepsAssumption DEF CallerRecords, Steps
  <2>3. caller' = [caller EXCEPT ![c] = [caller[c] EXCEPT !.step = @ + 1]]
    BY <1>2 DEF Skip
  <2>4. caller' \in [Callers -> CallerRecords]
    BY <2>2, <2>3 DEF StepsTypeOK
  <2> QED BY <1>2, <2>4 DEF Skip, StepsTypeOK, OfFlow
<1>3. CASE ClaimStep(c)
  <2>1. caller[c] \in CallerRecords /\ caller[c].step \in Steps /\ flow.done \in SUBSET Steps
    BY <1>3 DEF StepsTypeOK, ClaimStep, CallerRecords
  <2>2. /\ [caller[c] EXCEPT !.done = flow.done, !.step = @ + 1] \in CallerRecords
        /\ NoCaller \in CallerRecords
        /\ [caller[c] EXCEPT !.stage = "tool", !.done = flow.done] \in CallerRecords
    <3>1. [caller[c] EXCEPT !.done = flow.done, !.step = @ + 1] \in CallerRecords
      <4>1. [caller[c] EXCEPT !.done = flow.done] \in CallerRecords
        BY <2>1 DEF CallerRecords
      <4>2. caller[c].step + 1 \in 1 .. Length + 1
        BY <2>1, StepsAssumption DEF Steps
      <4> QED BY <2>1, <4>1, <4>2 DEF CallerRecords
    <3>2. NoCaller \in CallerRecords
      BY StepsAssumption DEF CallerRecords, NoCaller
    <3>3. [caller[c] EXCEPT !.stage = "tool", !.done = flow.done] \in CallerRecords
      BY <2>1 DEF CallerRecords
    <3> QED BY <3>1, <3>2, <3>3
  <2>3. \/ /\ caller' = [caller EXCEPT ![c] = [caller[c] EXCEPT !.done = flow.done, !.step = @ + 1]]
           /\ UNCHANGED flow
        \/ caller' = [caller EXCEPT ![c] = NoCaller] /\ UNCHANGED flow
        \/ /\ caller' = [caller EXCEPT ![c] = [caller[c] EXCEPT !.stage = "tool", !.done = flow.done]]
           /\ flow' = [flow EXCEPT !.running = caller[c].step]
    BY <1>3 DEF ClaimStep
  <2>4. caller' \in [Callers -> CallerRecords]
    BY <2>2, <2>3 DEF StepsTypeOK
  <2>5. flow' \in [done : SUBSET Steps, running : {0} \cup Steps]
    BY <2>1, <2>3 DEF StepsTypeOK
  <2> QED BY <1>3, <2>4, <2>5 DEF ClaimStep, StepsTypeOK, OfFlow
<1>4. CASE ToolAnswers(c)
  <2>1. PICK outcome \in Outcomes :
          /\ Ran("flow", caller[c].step, outcome)
          /\ left' = [left EXCEPT !.flow =
               CASE outcome = "raised"                                    -> "unsure"
                 [] outcome = "failed" /\ caller[c].step \notin ReadOnly  -> "unsure"
                 [] outcome = "refused" /\ caller[c].step \notin ReadOnly -> "refused"
                 [] OTHER                                                 -> "nothing"]
          /\ caller' = [caller EXCEPT
               ![c] = CASE outcome = "ok"     -> [@ EXCEPT !.stage = "complete"]
                        [] outcome = "raised" -> NoCaller
                        [] outcome \in {"failed", "refused"} /\ caller[c].step \notin ReadOnly -> NoCaller
                        [] OTHER              -> [@ EXCEPT !.stage = "free"]]
    BY <1>4 DEF ToolAnswers
  <2>2. caller[c].step \in Steps
    BY <1>4 DEF ToolAnswers, OneHolder, Holding
  <2>3. effects' \in [{"flow", "program"} -> [Steps -> Nat]]
    BY <2>1, <2>2, RanTypes
  <2>4. left' \in [flow : Causes, program : Causes]
    BY <2>1 DEF StepsTypeOK, Causes
  <2>5. caller' \in [Callers -> CallerRecords]
    BY <2>1, StepsAssumption DEF StepsTypeOK, CallerRecords, NoCaller, Outcomes
  <2> QED BY <1>4, <2>3, <2>4, <2>5 DEF ToolAnswers, StepsTypeOK, OfFlow
<1>5. CASE Free(c)
  BY <1>5, StepsAssumption DEF Free, StepsTypeOK, CallerRecords, OfFlow, NoCaller
<1>6. CASE Complete(c)
  BY <1>6, StepsAssumption DEF Complete, StepsTypeOK, CallerRecords, OfFlow, OneHolder, Holding, Steps
<1>7. CASE FinishFlow(c)
  BY <1>7, StepsAssumption DEF FinishFlow, StepsTypeOK, CallerRecords, OfFlow, NoCaller
<1> QED BY <1>1, <1>2, <1>3, <1>4, <1>5, <1>6, <1>7 DEF FlowStep

LEMMA ProgramTypes ==
  ASSUME StepsTypeOK, RunnerHasProgram, ProgramStep
  PROVE  StepsTypeOK'
<1>1. CASE Run \/ Eval \/ Checkpoint
  BY <1>1, StepsAssumption DEF Run, Eval, Checkpoint, StepsTypeOK, OfProgram, NoRunner, Runnable
<1>2. CASE Subcall
  <2>1. PICK outcome \in Outcomes :
          /\ Ran("program", runner.results + 1, outcome)
          /\ left' = [left EXCEPT !.program = IF outcome = "raised" THEN "unsure" ELSE "nothing"]
          /\ runner' = CASE outcome = "raised"   -> NoRunner
                         [] outcome = "approval" -> [runner EXCEPT !.stage = "awaiting"]
                         [] OTHER                -> [stage |-> "pending", results |-> runner.results + 1]
    BY <1>2 DEF Subcall
  <2>2. runner.results + 1 \in Steps /\ runner.results + 1 \in 0 .. Length
    BY <1>2, StepsAssumption DEF Subcall, RunnerHasProgram, StepsTypeOK, Steps
  <2>3. effects' \in [{"flow", "program"} -> [Steps -> Nat]]
    BY <2>1, <2>2, RanTypes
  <2>4. left' \in [flow : Causes, program : Causes]
    BY <2>1 DEF StepsTypeOK, Causes
  <2>5. runner' \in [stage : {"none", "eval", "tool", "awaiting", "pending"}, results : 0 .. Length]
    BY <2>1, <2>2, StepsAssumption DEF StepsTypeOK, NoRunner, Outcomes
  <2> QED BY <1>2, <2>3, <2>4, <2>5 DEF Subcall, StepsTypeOK, OfProgram
<1> QED BY <1>1, <1>2 DEF ProgramStep

LEMMA RestartTypes ==
  ASSUME StepsTypeOK, Restart
  PROVE  /\ StepsTypeOK'
         /\ \A kind \in {"flow", "program"}, s \in Steps :
              effects'[kind][s] = effects[kind][s] + IF Cut(kind, s) THEN 1 ELSE 0
         /\ caller' = [c \in Callers |-> NoCaller] /\ runner' = NoRunner
         /\ flow' = flow /\ program' = program
<1>1. effects' \in [{"flow", "program"} -> [Steps -> Nat]]
  BY DEF StepsTypeOK, Restart
<1>2. caller' = [c \in Callers |-> NoCaller] /\ runner' = NoRunner /\ flow' = flow /\ program' = program
  BY DEF Restart
<1>3. \A kind \in {"flow", "program"}, s \in Steps :
        effects'[kind][s] = effects[kind][s] + IF Cut(kind, s) THEN 1 ELSE 0
  BY DEF StepsTypeOK, Restart
<1>4. left' \in [flow : Causes, program : Causes]
  BY DEF StepsTypeOK, Restart, Causes
<1> QED BY <1>1, <1>2, <1>3, <1>4, StepsAssumption DEF StepsTypeOK, CallerRecords, NoCaller, NoRunner

-----------------------------------------------------------------------------
(* The parts of the invariant *)

(* A step of a caller changes only its own record; it holds the workflow   *)
(* from its claim to its end.                                              *)
LEMMA FlowStepActs ==
  ASSUME StepsTypeOK, NEW c \in Callers, FlowStep(c)
  PROVE  /\ \A d \in Callers \ {c} : caller'[d] = caller[d]
         /\ program' = program /\ runner' = runner /\ restarts' = restarts
         /\ \/ /\ flow' = flow /\ effects' = effects /\ left' = left
               /\ caller[c].stage = "none"
               /\ caller'[c] = [stage |-> "next", step |-> 1, done |-> flow.done]
            \/ /\ flow' = flow /\ effects' = effects /\ left' = left
               /\ caller[c].stage = "next" /\ caller[c].step \in caller[c].done
               /\ caller'[c] = [caller[c] EXCEPT !.step = @ + 1]
            \/ /\ flow' = flow /\ effects' = effects /\ left' = left
               /\ caller[c].stage = "next" /\ caller[c].step \in flow.done
               /\ caller'[c] = [caller[c] EXCEPT !.done = flow.done, !.step = @ + 1]
            \/ /\ flow' = flow /\ effects' = effects /\ left' = left
               /\ caller[c].stage = "next" /\ caller'[c] = NoCaller
            \/ /\ flow' = [flow EXCEPT !.running = caller[c].step]
               /\ effects' = effects /\ left' = left
               /\ caller[c].stage = "next" /\ caller[c].step \in Steps \ flow.done
               /\ flow.running = 0
               /\ caller'[c] = [caller[c] EXCEPT !.stage = "tool", !.done = flow.done]
            \/ ToolAnswers(c)
            \/ /\ flow' = [flow EXCEPT !.running = 0] /\ effects' = effects /\ left' = left
               /\ caller[c].stage = "free" /\ caller'[c] = NoCaller
            \/ /\ flow' = [done |-> caller[c].done \cup {caller[c].step}, running |-> 0]
               /\ effects' = effects /\ left' = left
               /\ caller[c].stage = "complete"
               /\ caller'[c] = [stage |-> "next", step |-> caller[c].step + 1,
                                done |-> caller[c].done \cup {caller[c].step}]
<1>1. CASE Call(c) \/ Skip(c) \/ FinishFlow(c)
  BY <1>1 DEF Call, Skip, FinishFlow, StepsTypeOK, OfFlow
<1>2. CASE ClaimStep(c)
  BY <1>2 DEF ClaimStep, StepsTypeOK, OfFlow
<1>3. CASE ToolAnswers(c)
  BY <1>3 DEF ToolAnswers, StepsTypeOK, OfFlow
<1>4. CASE Free(c) \/ Complete(c)
  BY <1>4 DEF Free, Complete, StepsTypeOK, OfFlow
<1> QED BY <1>1, <1>2, <1>3, <1>4 DEF FlowStep

LEMMA ToolAnswersActs ==
  ASSUME StepsTypeOK, OneHolder, NEW c \in Callers, ToolAnswers(c)
  PROVE  LET s == caller[c].step IN
         /\ flow' = flow /\ s \in Steps /\ caller[c].stage = "tool"
         /\ \A t \in Steps : /\ t # s => effects'.flow[t] = effects.flow[t]
                             /\ effects'.program[t] = effects.program[t]
         /\ effects'.flow[s] \in {effects.flow[s], effects.flow[s] + 1}
         /\ \/ caller'[c] = [caller[c] EXCEPT !.stage = "complete"]
            \/ caller'[c] = NoCaller /\ left'.flow # "nothing"
            \/ /\ caller'[c] = [caller[c] EXCEPT !.stage = "free"]
               /\ effects'.flow[s] = effects.flow[s]
         /\ left'.program = left.program
<1> DEFINE s == caller[c].step
<1>1. PICK outcome \in Outcomes :
        /\ Ran("flow", s, outcome)
        /\ left' = [left EXCEPT !.flow =
             CASE outcome = "raised"                       -> "unsure"
               [] outcome = "failed" /\ s \notin ReadOnly  -> "unsure"
               [] outcome = "refused" /\ s \notin ReadOnly -> "refused"
               [] OTHER                                    -> "nothing"]
        /\ caller' = [caller EXCEPT
             ![c] = CASE outcome = "ok"     -> [@ EXCEPT !.stage = "complete"]
                      [] outcome = "raised" -> NoCaller
                      [] outcome \in {"failed", "refused"} /\ s \notin ReadOnly -> NoCaller
                      [] OTHER              -> [@ EXCEPT !.stage = "free"]]
  BY DEF ToolAnswers
<1>2. s \in Steps /\ caller[c].stage = "tool" /\ flow' = flow
  BY DEF ToolAnswers, OneHolder, Holding
<1>3. \A other \in {"flow", "program"}, t \in Steps :
        effects'[other][t] = IF other = "flow" /\ t = s /\ outcome \notin {"refused", "approval"} /\ s \notin ReadOnly
                             THEN effects[other][t] + 1 ELSE effects[other][t]
  BY <1>1, <1>2, RanTypes
<1>4. caller'[c] = CASE outcome = "ok"     -> [caller[c] EXCEPT !.stage = "complete"]
                     [] outcome = "raised" -> NoCaller
                     [] outcome \in {"failed", "refused"} /\ s \notin ReadOnly -> NoCaller
                     [] OTHER              -> [caller[c] EXCEPT !.stage = "free"]
  BY <1>1 DEF StepsTypeOK
<1>5. /\ left'.program = left.program
      /\ outcome = "raised" \/ (outcome \in {"failed", "refused"} /\ s \notin ReadOnly)
           => left'.flow # "nothing"
  BY <1>1 DEF StepsTypeOK
<1> HIDE DEF s
<1>6. \/ caller'[c] = [caller[c] EXCEPT !.stage = "complete"]
      \/ caller'[c] = NoCaller /\ left'.flow # "nothing"
      \/ /\ caller'[c] = [caller[c] EXCEPT !.stage = "free"]
         /\ effects'.flow[s] = effects.flow[s]
  BY <1>2, <1>3, <1>4, <1>5 DEF Outcomes
<1>7. /\ effects'.flow[s] \in {effects.flow[s], effects.flow[s] + 1}
      /\ \A t \in Steps : /\ t # s => effects'.flow[t] = effects.flow[t]
                          /\ effects'.program[t] = effects.program[t]
  BY <1>2, <1>3
<1> QED BY <1>2, <1>5, <1>6, <1>7 DEF s

LEMMA FlowStepKeeps ==
  ASSUME StepsTypeOK, OneHolder, DoneInOrder, StepEffects, RefusesForCause,
         NEW c \in Callers, FlowStep(c)
  PROVE  OneHolder' /\ DoneInOrder' /\ StepEffects'
         /\ (flow.running # 0 /\ (\A d \in Callers : caller[d].stage \in {"none", "next"}) => left.flow # "nothing")'
<1> DEFINE Idle == \A d \in Callers : caller[d].stage \in {"none", "next"}
           Others == flow' = flow /\ effects' = effects /\ left' = left
<1> HIDE DEF Idle
<1>1. /\ caller[c] \in CallerRecords /\ caller[c].step \in Nat /\ caller[c].done \in SUBSET Steps
      /\ flow \in [done : SUBSET Steps, running : {0} \cup Steps]
  BY DEF StepsTypeOK, CallerRecords
<1>2. \A d \in Callers \ {c} : caller'[d] = caller[d]
  BY FlowStepActs
<1>3. ASSUME Others, caller'[c].stage \in {"none", "next"}, caller[c].stage \in {"none", "next"},
             caller'[c].stage # "none" =>
               caller'[c].done \subseteq flow.done /\ 1 .. caller'[c].step - 1 \subseteq caller'[c].done
      PROVE  /\ OneHolder' /\ DoneInOrder' /\ StepEffects'
             /\ flow'.running # 0 /\ Idle' => left'.flow # "nothing"
  <2>1. \A d \in Callers : caller'[d].stage \in {"tool", "free", "complete"} => d # c /\ caller'[d] = caller[d]
    BY <1>2, <1>3
  <2>2. OneHolder'
    BY <1>3, <2>1 DEF OneHolder, Holding
  <2>3. DoneInOrder'
    BY <1>2, <1>3 DEF DoneInOrder
  <2>4. StepEffects'
    BY <1>3, <2>1 DEF StepEffects
  <2>5. Idle' => Idle
    BY <1>2, <1>3 DEF Idle
  <2> QED BY <1>3, <2>2, <2>3, <2>4, <2>5 DEF RefusesForCause, Idle
<1>4. CASE Others /\ caller[c].stage = "none" /\ caller'[c] = [stage |-> "next", step |-> 1, done |-> flow.done]
  <2>1. caller'[c].done \subseteq flow.done /\ 1 .. caller'[c].step - 1 \subseteq caller'[c].done
    BY <1>4
  <2> QED BY <1>3, <1>4, <2>1 DEF Idle
<1>5. CASE /\ Others /\ caller[c].stage = "next" /\ caller[c].step \in caller[c].done
           /\ caller'[c] = [caller[c] EXCEPT !.step = @ + 1]
  <2>1. caller'[c].stage = "next" /\ caller'[c].done = caller[c].done /\ caller'[c].step = caller[c].step + 1
    BY <1>1, <1>5 DEF CallerRecords
  <2>2. caller'[c].done \subseteq flow.done /\ 1 .. caller'[c].step - 1 \subseteq caller'[c].done
    BY <1>1, <1>5, <2>1 DEF DoneInOrder
  <2> QED BY <1>3, <1>5, <2>1, <2>2 DEF Idle
<1>6. CASE /\ Others /\ caller[c].stage = "next" /\ caller[c].step \in flow.done
           /\ caller'[c] = [caller[c] EXCEPT !.done = flow.done, !.step = @ + 1]
  <2>1. caller'[c].stage = "next" /\ caller'[c].done = flow.done /\ caller'[c].step = caller[c].step + 1
    BY <1>1, <1>6 DEF CallerRecords
  <2>2. 1 .. caller[c].step \subseteq flow.done
    BY <1>6 DEF DoneInOrder
  <2>3. 1 .. caller'[c].step - 1 \subseteq caller'[c].done
    BY <1>1, <2>1, <2>2
  <2> QED BY <1>3, <1>6, <2>1, <2>3 DEF Idle
<1>7. CASE Others /\ caller[c].stage = "next" /\ caller'[c] = NoCaller
  BY <1>3, <1>7 DEF NoCaller, Idle
<1>8. CASE /\ flow' = [flow EXCEPT !.running = caller[c].step]
           /\ effects' = effects /\ left' = left
           /\ caller[c].stage = "next" /\ caller[c].step \in Steps \ flow.done
           /\ flow.running = 0
           /\ caller'[c] = [caller[c] EXCEPT !.stage = "tool", !.done = flow.done]
  <2>1. /\ caller'[c].stage = "tool" /\ caller'[c].done = flow.done /\ caller'[c].step = caller[c].step
        /\ flow'.done = flow.done /\ flow'.running = caller[c].step
    BY <1>1, <1>8 DEF CallerRecords
  <2>2. \A d \in Callers : ~Holding(d)
    BY <1>8, StepsAssumption DEF OneHolder, Holding, Steps
  <2>9. \A d \in Callers : caller'[d].stage \in {"tool", "free", "complete"} => d = c
    BY <1>2, <2>2 DEF Holding
  <2>3. OneHolder'
    BY <1>8, <2>1, <2>9 DEF OneHolder, Holding
  <2>4. 1 .. caller[c].step - 1 \subseteq flow.done
    BY <1>8 DEF DoneInOrder
  <2>5. DoneInOrder'
    BY <1>2, <1>8, <2>1, <2>4 DEF DoneInOrder
  <2>6. effects.flow[caller[c].step] = 0
    <3>1. effects.flow[caller[c].step] \in Nat
      BY <1>8 DEF StepsTypeOK
    <3> QED BY <1>8, <3>1, StepsAssumption DEF StepEffects, Steps
  <2>7. StepEffects'
    <3>1. \A s \in Steps : effects.flow[s] > 0 => s \in flow.done
      BY <1>8, StepsAssumption DEF StepEffects, Steps
    <3>2. \A d \in Callers : caller'[d].stage \in {"tool", "free"} => effects.flow[caller'[d].step] = 0
      BY <2>1, <2>6, <2>9
    <3> QED BY <1>8, <2>1, <3>1, <3>2 DEF StepEffects
  <2> QED BY <2>1, <2>3, <2>5, <2>7
<1>9. CASE ToolAnswers(c)
  <2>1. PICK s \in Steps :
           /\ s = caller[c].step /\ flow' = flow /\ caller[c].stage = "tool"
           /\ \A t \in Steps : /\ t # s => effects'.flow[t] = effects.flow[t]
                               /\ effects'.program[t] = effects.program[t]
           /\ effects'.flow[s] \in {effects.flow[s], effects.flow[s] + 1}
           /\ \/ caller'[c] = [caller[c] EXCEPT !.stage = "complete"]
              \/ caller'[c] = NoCaller /\ left'.flow # "nothing"
              \/ /\ caller'[c] = [caller[c] EXCEPT !.stage = "free"]
                 /\ effects'.flow[s] = effects.flow[s]
    BY <1>9, ToolAnswersActs
  <2>2. /\ s = flow.running /\ caller[c].done = flow.done /\ effects.flow[s] = 0
        /\ \A d \in Callers \ {c} : ~Holding(d)
    BY <2>1 DEF OneHolder, Holding, StepEffects
  <2>3. /\ caller'[c].stage \in {"complete", "none", "free"}
        /\ caller'[c].stage # "none" => caller'[c].step = s /\ caller'[c].done = flow.done
        /\ caller'[c].stage = "none" => left'.flow # "nothing"
        /\ caller'[c].stage = "free" => effects'.flow[s] = 0
    <3>1. CASE caller'[c] = [caller[c] EXCEPT !.stage = "complete"]
      BY <1>1, <2>1, <2>2, <3>1 DEF CallerRecords
    <3>2. CASE caller'[c] = NoCaller /\ left'.flow # "nothing"
      BY <3>2 DEF NoCaller
    <3>3. CASE caller'[c] = [caller[c] EXCEPT !.stage = "free"] /\ effects'.flow[s] = effects.flow[s]
      BY <1>1, <2>1, <2>2, <3>3 DEF CallerRecords
    <3> QED BY <2>1, <3>1, <3>2, <3>3
  <2>4. OneHolder'
    BY <1>2, <2>1, <2>2, <2>3 DEF OneHolder, Holding
  <2>5. DoneInOrder'
    BY <1>2, <2>1, <2>2, <2>3 DEF DoneInOrder
  <2>6. StepEffects'
    BY <1>2, <2>1, <2>2, <2>3 DEF StepEffects, Holding
  <2>7. Idle' => left'.flow # "nothing"
    BY <2>3 DEF Idle
  <2> QED BY <2>4, <2>5, <2>6, <2>7 DEF Idle
<1>10. CASE /\ flow' = [flow EXCEPT !.running = 0] /\ effects' = effects /\ left' = left
            /\ caller[c].stage = "free" /\ caller'[c] = NoCaller
  <2>1. /\ caller'[c].stage = "none" /\ flow'.done = flow.done /\ flow'.running = 0
        /\ effects.flow[flow.running] = 0 /\ \A d \in Callers \ {c} : ~Holding(d)
    BY <1>1, <1>10 DEF NoCaller, OneHolder, Holding, StepEffects
  <2>2. OneHolder'
    BY <1>2, <2>1 DEF OneHolder, Holding
  <2>3. DoneInOrder'
    BY <1>1, <1>2, <2>1, StepsAssumption DEF DoneInOrder, Steps
  <2>4. StepEffects'
    BY <1>2, <1>10, <2>1 DEF StepEffects, Holding
  <2> QED BY <2>1, <2>2, <2>3, <2>4
<1>11. CASE /\ flow' = [done |-> caller[c].done \cup {caller[c].step}, running |-> 0]
            /\ effects' = effects /\ left' = left
            /\ caller[c].stage = "complete"
            /\ caller'[c] = [stage |-> "next", step |-> caller[c].step + 1,
                             done |-> caller[c].done \cup {caller[c].step}]
  <2>1. /\ caller[c].step = flow.running /\ caller[c].done = flow.done
        /\ \A d \in Callers \ {c} : ~Holding(d)
    BY <1>11 DEF OneHolder, Holding
  <2>2. /\ flow'.done = flow.done \cup {flow.running} /\ flow'.running = 0
        /\ caller'[c].stage = "next" /\ caller'[c].step = flow.running + 1
        /\ caller'[c].done = flow.done \cup {flow.running}
    BY <1>11, <2>1
  <2>3. OneHolder'
    BY <1>2, <2>1, <2>2 DEF OneHolder, Holding
  <2>4. 1 .. flow.running \subseteq flow.done \cup {flow.running}
    BY <1>1, StepsAssumption DEF DoneInOrder, Steps
  <2>5. DoneInOrder'
    <3>1. \A s \in flow'.done : 1 .. s \subseteq flow'.done
      BY <2>2, <2>4 DEF DoneInOrder
    <3>2. flow'.running \notin flow'.done /\ 1 .. flow'.running - 1 \subseteq flow'.done
      BY <1>1, <1>11, <2>1, <2>2, StepsAssumption DEF DoneInOrder, Steps, OneHolder, Holding
    <3>3. ASSUME NEW d \in Callers, caller'[d].stage # "none"
          PROVE  caller'[d].done \subseteq flow'.done /\ 1 .. caller'[d].step - 1 \subseteq caller'[d].done
      <4>1. CASE d = c
        BY <1>1, <2>1, <2>2, <2>4, <4>1
      <4>2. CASE d # c
        BY <1>2, <2>2, <3>3, <4>2 DEF DoneInOrder
      <4> QED BY <4>1, <4>2
    <3> QED BY <3>1, <3>2, <3>3 DEF DoneInOrder
  <2>6. StepEffects'
    BY <1>2, <1>11, <2>1, <2>2 DEF StepEffects, Holding
  <2> QED BY <2>2, <2>3, <2>5, <2>6
<1> QED BY <1>4, <1>5, <1>6, <1>7, <1>8, <1>9, <1>10, <1>11, FlowStepActs DEF Idle

LEMMA ProgramStepKeeps ==
  ASSUME StepsTypeOK, RunnerHasProgram, CallEffects, RefusesForCause, ProgramStep
  PROVE  /\ RunnerHasProgram' /\ CallEffects'
         /\ program'.status = "running" /\ runner'.stage = "none" => left'.program \in {"unsure", "died"}
         /\ flow' = flow /\ caller' = caller /\ left'.flow = left.flow
         /\ \A s \in Steps : effects'.flow[s] = effects.flow[s]
<1>1. /\ program \in [status : {"pending", "awaiting", "running", "completed"}, results : 0 .. Length]
      /\ runner \in [stage : {"none", "eval", "tool", "awaiting", "pending"}, results : 0 .. Length]
      /\ \A s \in Steps : effects.program[s] \in Nat
  BY DEF StepsTypeOK
<1>2. flow' = flow /\ caller' = caller
  BY DEF ProgramStep, Run, Eval, Subcall, Checkpoint, OfProgram
<1>3. CASE Run
  BY <1>1, <1>2, <1>3, StepsAssumption
     DEF Run, Runnable, RunnerHasProgram, CallEffects, RefusesForCause, Steps
<1>4. CASE Eval
  <2>1. effects' = effects /\ left' = left /\ runner.stage = "eval"
    BY <1>4 DEF Eval
  <2>2. CASE runner' = NoRunner /\ UNCHANGED program
    BY <1>1, <1>2, <2>1, <2>2 DEF NoRunner, RunnerHasProgram, CallEffects
  <2>3. CASE /\ runner.results < Length
             /\ program' = [status |-> "running", results |-> runner.results]
             /\ runner' = [runner EXCEPT !.stage = "tool"]
    BY <1>1, <1>2, <2>1, <2>3, StepsAssumption DEF RunnerHasProgram, CallEffects, Steps
  <2>4. CASE /\ runner.results = Length
             /\ program' = [status |-> "completed", results |-> runner.results]
             /\ runner' = NoRunner
    BY <1>1, <1>2, <2>1, <2>4, StepsAssumption DEF NoRunner, RunnerHasProgram, CallEffects, Steps
  <2> QED BY <1>4, <2>2, <2>3, <2>4 DEF Eval
<1>5. CASE Subcall
  <2>1. PICK outcome \in Outcomes :
          /\ Ran("program", runner.results + 1, outcome)
          /\ left' = [left EXCEPT !.program = IF outcome = "raised" THEN "unsure" ELSE "nothing"]
          /\ runner' = CASE outcome = "raised"   -> NoRunner
                         [] outcome = "approval" -> [runner EXCEPT !.stage = "awaiting"]
                         [] OTHER                -> [stage |-> "pending", results |-> runner.results + 1]
    BY <1>5 DEF Subcall
  <2>2. runner.stage = "tool" /\ program' = program
    BY <1>5 DEF Subcall
  <2>3. /\ runner.results + 1 \in Steps /\ program.results = runner.results /\ program.status = "running"
        /\ effects.program[runner.results + 1] = 0
    BY <1>1, <2>2, StepsAssumption DEF RunnerHasProgram, CallEffects, Steps
  <2>4. \A other \in {"flow", "program"}, t \in Steps :
          effects'[other][t] = IF other = "program" /\ t = runner.results + 1
                                  /\ outcome \notin {"refused", "approval"}
                                  /\ runner.results + 1 \notin ReadOnly
                               THEN effects[other][t] + 1 ELSE effects[other][t]
    BY <2>1, <2>3, RanTypes
  <2>5. left'.flow = left.flow /\ (outcome = "raised" => left'.program = "unsure")
    BY <2>1 DEF StepsTypeOK
  <2>6. \/ outcome = "raised" /\ runner' = NoRunner
        \/ outcome = "approval" /\ runner' = [runner EXCEPT !.stage = "awaiting"]
        \/ /\ outcome \in {"ok", "failed", "refused"}
           /\ runner' = [stage |-> "pending", results |-> runner.results + 1]
    BY <2>1 DEF Outcomes
  <2>7. RunnerHasProgram'
    BY <1>1, <2>2, <2>3, <2>6 DEF RunnerHasProgram, NoRunner
  <2>8. CallEffects'
    <3>1. ASSUME NEW s \in Steps, s # runner.results + 1
          PROVE  effects'.program[s] = effects.program[s]
      BY <2>4, <3>1
    <3>2. effects'.program[runner.results + 1] \in {0, 1}
      BY <2>3, <2>4
    <3>3. outcome = "approval" => effects'.program[runner.results + 1] = 0
      BY <2>3, <2>4
    <3>4. runner'.stage \in {"tool", "awaiting"} => outcome = "approval"
      BY <2>6 DEF NoRunner
    <3> QED BY <1>1, <2>2, <2>3, <3>1, <3>2, <3>3, <3>4 DEF CallEffects
  <2>9. program'.status = "running" /\ runner'.stage = "none" => left'.program \in {"unsure", "died"}
    <3>1. runner'.stage = "none" => outcome = "raised"
      BY <1>1, <2>6
    <3> QED BY <2>5, <3>1
  <2>10. \A s \in Steps : effects'.flow[s] = effects.flow[s]
    BY <2>4
  <2> QED BY <1>2, <2>5, <2>7, <2>8, <2>9, <2>10
<1>6. CASE Checkpoint
  <2>1. effects' = effects /\ left' = left /\ program.status = "running"
    BY <1>6 DEF Checkpoint, RunnerHasProgram
  <2>2. CASE /\ runner.stage = "awaiting" /\ runner' = NoRunner
             /\ program' = [status |-> "awaiting", results |-> runner.results]
    BY <1>1, <1>2, <2>1, <2>2, StepsAssumption DEF NoRunner, RunnerHasProgram, CallEffects, Steps
  <2>3. CASE /\ runner.stage = "pending" /\ runner' = [runner EXCEPT !.stage = "eval"]
             /\ program' = [status |-> "pending", results |-> runner.results]
    BY <1>1, <1>2, <2>1, <2>3, StepsAssumption DEF RunnerHasProgram, CallEffects, Steps
  <2> QED BY <1>6, <2>2, <2>3 DEF Checkpoint
<1> QED BY <1>3, <1>4, <1>5, <1>6 DEF ProgramStep

LEMMA RestartKeeps ==
  ASSUME StepsInv, Restart
  PROVE  StepsInv'
<1> USE DEF StepsInv
<1>1. /\ StepsTypeOK'
      /\ \A kind \in {"flow", "program"}, s \in Steps :
           effects'[kind][s] = effects[kind][s] + IF Cut(kind, s) THEN 1 ELSE 0
      /\ \A c \in Callers : caller'[c] = NoCaller
      /\ runner' = NoRunner /\ flow' = flow /\ program' = program
  BY RestartTypes
<1>2. OneHolder' /\ DoneInOrder'
  BY <1>1 DEF OneHolder, Holding, DoneInOrder, NoCaller
<1>3. StepEffects'
  <2>1. ASSUME NEW s \in Steps
        PROVE  effects'.flow[s] <= 1 /\ (effects'.flow[s] > 0 => s \in flow.done \/ s = flow.running)
    <3>1. CASE Cut("flow", s)
      <4>1. PICK c \in Callers : caller[c].stage = "tool" /\ caller[c].step = s
        BY <3>1 DEF Cut
      <4>2. effects.flow[s] = 0 /\ s = flow.running
        BY <4>1 DEF StepEffects, OneHolder, Holding
      <4> QED BY <1>1, <3>1, <4>2
    <3>2. CASE ~Cut("flow", s)
      BY <1>1, <3>2 DEF StepEffects, StepsTypeOK
    <3> QED BY <3>1, <3>2
  <2> QED BY <1>1, <2>1 DEF StepEffects, NoCaller
<1>4. RunnerHasProgram'
  BY <1>1 DEF RunnerHasProgram, NoRunner
<1>5. CallEffects'
  <2> SUFFICES ASSUME NEW s \in Steps
               PROVE  /\ effects'.program[s] <= 1
                      /\ s > program.results + 1 => effects'.program[s] = 0
                      /\ s = program.results + 1 /\ program.status \in {"pending", "awaiting"}
                           => effects'.program[s] = 0
    BY <1>1 DEF CallEffects, NoRunner
  <2>1. CASE Cut("program", s)
    <3>1. runner.stage = "tool" /\ runner.results + 1 = s
      BY <2>1 DEF Cut
    <3>2. /\ s = program.results + 1 /\ program.status = "running" /\ effects.program[s] = 0
      BY <3>1 DEF RunnerHasProgram, CallEffects
    <3> QED BY <1>1, <2>1, <3>2, StepsAssumption DEF Steps
  <2>2. CASE ~Cut("program", s)
    BY <1>1, <2>2 DEF CallEffects, StepsTypeOK
  <2> QED BY <2>1, <2>2
<1>6. RefusesForCause'
  <2>1. /\ left'.flow = IF \E c \in Callers : Holding(c) THEN "died" ELSE left.flow
        /\ left'.program = IF runner.stage \in {"tool", "awaiting", "pending"} THEN "died"
                           ELSE left.program
    BY DEF Restart, Holding
  <2>2. flow.running # 0 => left.flow # "nothing" \/ \E c \in Callers : Holding(c)
    BY DEF RefusesForCause, Holding, StepsTypeOK, CallerRecords
  <2>3. program.status = "running" => \/ left.program \in {"unsure", "died"}
                                      \/ runner.stage \in {"tool", "awaiting", "pending"}
    BY DEF RefusesForCause, RunnerHasProgram, StepsTypeOK
  <2> QED BY <1>1, <2>1, <2>2, <2>3 DEF RefusesForCause
<1> QED BY <1>1, <1>2, <1>3, <1>4, <1>5, <1>6

-----------------------------------------------------------------------------
(* The invariant of the orchestrations: one caller holds a step, done are   *)
(* the first ones, and what ran is done or is not taken again              *)
(* (loop_modes.py).                                                        *)
THEOREM StepsInvHolds == StepsSpec => []StepsInv
<1>1. StepsInit => StepsInv
  BY StepsInvStarts
<1>2. ASSUME StepsInv, [StepsNext]_stepVars
      PROVE  StepsInv'
  <2>1. CASE \E c \in Callers : FlowStep(c)
    <3>1. PICK c \in Callers : FlowStep(c)
      BY <2>1
    <3>2. StepsTypeOK'
      BY <1>2, <3>1, FlowTypes DEF StepsInv
    <3>3. /\ OneHolder' /\ DoneInOrder' /\ StepEffects'
          /\ flow'.running # 0 /\ (\A d \in Callers : caller'[d].stage \in {"none", "next"}) => left'.flow # "nothing"
      BY <1>2, <3>1, FlowStepKeeps DEF StepsInv
    <3>4. program' = program /\ runner' = runner
      BY <1>2, <3>1, FlowStepActs DEF StepsInv
    <3>5. left'.program = left.program /\ \A s \in Steps : effects'.program[s] = effects.program[s]
      <4>1. CASE ToolAnswers(c)
        BY <1>2, <4>1, ToolAnswersActs DEF StepsInv
      <4>2. CASE ~ToolAnswers(c)
        BY <1>2, <3>1, <4>2, FlowStepActs DEF StepsInv
      <4> QED BY <4>1, <4>2
    <3>6. RunnerHasProgram'
      BY <1>2, <3>4 DEF StepsInv, RunnerHasProgram
    <3>7. CallEffects'
      BY <1>2, <3>4, <3>5 DEF StepsInv, CallEffects
    <3>8. RefusesForCause'
      BY <1>2, <3>3, <3>4, <3>5 DEF StepsInv, RefusesForCause
    <3> QED BY <3>2, <3>3, <3>6, <3>7, <3>8 DEF StepsInv
  <2>2. CASE ProgramStep
    <3>1. StepsTypeOK'
      BY <1>2, <2>2, ProgramTypes DEF StepsInv
    <3>2. /\ RunnerHasProgram' /\ CallEffects'
          /\ program'.status = "running" /\ runner'.stage = "none" => left'.program \in {"unsure", "died"}
          /\ flow' = flow /\ caller' = caller /\ left'.flow = left.flow
          /\ \A s \in Steps : effects'.flow[s] = effects.flow[s]
      BY <1>2, <2>2, ProgramStepKeeps DEF StepsInv
    <3>3. OneHolder' /\ DoneInOrder' /\ StepEffects'
      BY <1>2, <3>2 DEF StepsInv, OneHolder, Holding, DoneInOrder, StepEffects
    <3>4. RefusesForCause'
      BY <1>2, <3>2 DEF StepsInv, RefusesForCause
    <3> QED BY <3>1, <3>2, <3>3, <3>4 DEF StepsInv
  <2>3. CASE Restart
    BY <1>2, <2>3, RestartKeeps
  <2>4. CASE UNCHANGED stepVars
    BY <1>2, <2>4 DEF stepVars, StepsInv, StepsTypeOK, OneHolder, Holding, DoneInOrder, StepEffects,
                      RunnerHasProgram, CallEffects, RefusesForCause
  <2> QED BY <1>2, <2>1, <2>2, <2>3, <2>4 DEF StepsNext, FlowStep, ProgramStep
<1> QED BY <1>1, <1>2, PTL DEF StepsSpec

(* A tool call that may change something runs once, steps run in their     *)
(* order, and only an orchestration whose last tool may have done          *)
(* something refuses to go on (workflow_run, run_code).                    *)
THEOREM ResumesSafelyHolds == StepsSpec => []ResumesSafely
<1>1. StepsInv => ResumesSafely
  <2> SUFFICES ASSUME StepsInv PROVE ResumesSafely
    OBVIOUS
  <2>1. NeverRepeated
    BY DEF StepsInv, StepsTypeOK, NeverRepeated, StepEffects, CallEffects
  <2>2. StepsInOrder
    <3>1. ASSUME NEW s \in Steps, effects.flow[s] > 0
          PROVE  1 .. s - 1 \subseteq flow.done
      <4>1. s \in flow.done \/ s = flow.running
        BY <3>1 DEF StepsInv, StepEffects
      <4> QED BY <4>1 DEF StepsInv, DoneInOrder, Steps
    <3> QED BY <3>1 DEF StepsInv, DoneInOrder, StepsInOrder
  <2> QED BY <2>1, <2>2 DEF StepsInv, ResumesSafely
<1> QED BY <1>1, StepsInvHolds, PTL

-----------------------------------------------------------------------------
(* Terminals: the inductive invariant.                                     *)

ThreadRecords ==
  [stage  : {"none", "entry", "start", "check", "read", "look", "probe", "deliver", "stop",
             "finish", "fail", "stopped", "gone"},
   cursor : Nat, output : Nat, exit : BOOLEAN, ends : {"no", "fine", "badly", "error"}]

TerminalRecords ==
  [state  : {"none", "spawning", "unlisted", "running", "ending", "exited", "failed", "killed",
             "orphan", "lost"},
   output : Nat]

TerminalTypeOK ==
  /\ job \in [status : {"pending", "running", "paused", "cancelled", "interrupted", "completed", "failed"},
             epoch  : 0 .. MaxEpoch]
  /\ thread \in [Epochs -> ThreadRecords] /\ terminal \in [Epochs -> TerminalRecords]
  /\ faults \in Nat

(* A program that is there, or about to be. *)
Lives(e) == terminal[e].state \in {"spawning", "unlisted", "running"}

(* A program that has ended, or has no runner any more. *)
Over(e) == terminal[e].state \in {"ending", "exited", "failed", "lost"}

(* The end that counts as one: exited, with so much of the output, or a    *)
(* poll that failed because the program is over.                           *)
EndsWith(e, length) ==
  IF thread[e].ends = "error" THEN Over(e)
  ELSE terminal[e].state = "exited" /\ length = terminal[e].output

(* A claim's thread and its terminal. *)
Driven(e) ==
  /\ e > job.epoch => thread[e].stage = "none"
  /\ thread[e].stage \in {"none", "entry", "start"} => terminal[e].state = "none"
  /\ thread[e].cursor <= terminal[e].output /\ thread[e].output <= terminal[e].output
  /\ At(e, "probe") /\ thread[e].exit => Over(e)
  /\ At(e, "deliver") /\ thread[e].ends \in {"fine", "error"} => EndsWith(e, thread[e].cursor)
  /\ At(e, "finish") => EndsWith(e, thread[e].output)
  /\ At(e, "stopped") => ~Lives(e)
  /\ faults = 0 =>
       /\ terminal[e].state # "lost"
       /\ At(e, "deliver") /\ thread[e].ends # "no" => ~Lives(e)
       /\ thread[e].stage \in {"finish", "fail", "gone"} => ~Lives(e)

(* The thread of a job that completed has left. *)
CompletedHasEnded ==
  job.status = "completed" =>
    job.epoch \in Epochs /\ At(job.epoch, "gone") /\ EndsWith(job.epoch, thread[job.epoch].output)

TerminalInv == TerminalTypeOK /\ (\A e \in Epochs : Driven(e)) /\ CompletedHasEnded

(* A step of a terminal's thread, and one of the container. *)
ThreadStep(e) ==
  \/ Enter(e) \/ Start(e) \/ CheckFence(e) \/ Read(e) \/ Look(e) \/ Probe(e) \/ Deliver(e)
  \/ Stop(e) \/ Fault(e) \/ Finish(e)

ContainerStep(e) == Spawn(e) \/ Write(e) \/ Exit(e) \/ RunnerDies(e)

LEMMA ThreadGoes ==
  ASSUME TerminalTypeOK, NEW e \in Epochs, NEW stage, Goto(e, stage)
  PROVE  /\ \A d \in Epochs \ {e} : thread'[d] = thread[d]
         /\ thread'[e].stage = stage /\ thread'[e].cursor = thread[e].cursor
         /\ thread'[e].output = thread[e].output /\ thread'[e].ends = thread[e].ends
         /\ stage \in {"entry", "start", "check", "read", "look", "deliver", "stop", "finish",
                       "fail", "stopped", "gone"} => thread' \in [Epochs -> ThreadRecords]
<1>1. thread[e] \in ThreadRecords
  BY DEF TerminalTypeOK
<1>2. thread' = [thread EXCEPT ![e] = [thread[e] EXCEPT !.stage = stage]]
  BY DEF Goto
<1>3. thread'[e] = [thread[e] EXCEPT !.stage = stage] /\ \A d \in Epochs \ {e} : thread'[d] = thread[d]
  BY <1>2 DEF TerminalTypeOK
<1>4. stage \in {"entry", "start", "check", "read", "look", "deliver", "stop", "finish",
                 "fail", "stopped", "gone"} => [thread[e] EXCEPT !.stage = stage] \in ThreadRecords
  BY <1>1 DEF ThreadRecords
<1>5. stage \in {"entry", "start", "check", "read", "look", "deliver", "stop", "finish",
                 "fail", "stopped", "gone"} => thread' \in [Epochs -> ThreadRecords]
  BY <1>2, <1>4 DEF TerminalTypeOK
<1> QED BY <1>1, <1>3, <1>5 DEF ThreadRecords

LEMMA TerminalBecomes ==
  ASSUME TerminalTypeOK, NEW e \in Epochs, NEW state, Become(e, state)
  PROVE  /\ \A d \in Epochs \ {e} : terminal'[d] = terminal[d]
         /\ terminal'[e].state = state /\ terminal'[e].output = terminal[e].output
         /\ state \in {"spawning", "unlisted", "running", "ending", "exited", "failed", "killed",
                       "orphan", "lost"}
              => terminal' \in [Epochs -> TerminalRecords]
<1>1. terminal[e] \in TerminalRecords
  BY DEF TerminalTypeOK
<1>2. terminal' = [terminal EXCEPT ![e] = [terminal[e] EXCEPT !.state = state]]
  BY DEF Become
<1>3. terminal'[e] = [terminal[e] EXCEPT !.state = state]
      /\ \A d \in Epochs \ {e} : terminal'[d] = terminal[d]
  BY <1>2 DEF TerminalTypeOK
<1>4. state \in {"spawning", "unlisted", "running", "ending", "exited", "failed", "killed",
                       "orphan", "lost"}
        => [terminal[e] EXCEPT !.state = state] \in TerminalRecords
  BY <1>1 DEF TerminalRecords
<1>5. state \in {"spawning", "unlisted", "running", "ending", "exited", "failed", "killed",
                       "orphan", "lost"}
        => terminal' \in [Epochs -> TerminalRecords]
  BY <1>2, <1>4 DEF TerminalTypeOK
<1> QED BY <1>1, <1>3, <1>5 DEF TerminalRecords

(* What a step of one terminal leaves alone, and keeps of the others. *)
LEMMA OthersDriven ==
  ASSUME TerminalTypeOK, TerminalTypeOK', NEW e \in Epochs, NEW d \in Epochs \ {e}, Driven(d),
         thread'[d] = thread[d], terminal'[d] = terminal[d],
         job'.epoch >= job.epoch, faults' >= faults
  PROVE  Driven(d)'
<1>1. faults' = 0 => faults = 0
  BY DEF TerminalTypeOK
<1>2. d > job'.epoch => d > job.epoch
  BY DEF TerminalTypeOK, Epochs
<1> QED BY <1>1, <1>2 DEF Driven, At, EndsWith, Over, Lives

(* A read stops at the end of the output. *)
LEMMA ReadTypes ==
  ASSUME TerminalTypeOK, NEW e \in Epochs, Read(e), thread[e].cursor <= terminal[e].output
  PROVE  /\ thread' \in [Epochs -> ThreadRecords]
         /\ \A d \in Epochs \ {e} : thread'[d] = thread[d]
         /\ thread'[e].stage = "look" /\ thread'[e].cursor <= terminal[e].output
         /\ thread'[e].output = thread[e].output
<1> DEFINE end == thread[e].cursor + MaxRead
           next == IF terminal[e].output < end THEN terminal[e].output ELSE end
<1>1. thread[e] \in ThreadRecords /\ terminal[e] \in TerminalRecords
  BY DEF TerminalTypeOK
<1>2. next \in Nat /\ next <= terminal[e].output
  BY <1>1, TerminalsAssumption DEF ThreadRecords, TerminalRecords
<1>3. thread' = [thread EXCEPT ![e] = [[thread[e] EXCEPT !.stage = "look"] EXCEPT !.cursor = next]]
  BY DEF Read
<1> HIDE DEF next
<1>4. [[thread[e] EXCEPT !.stage = "look"] EXCEPT !.cursor = next] \in ThreadRecords
  BY <1>1, <1>2 DEF ThreadRecords
<1> QED BY <1>1, <1>2, <1>3, <1>4 DEF TerminalTypeOK, ThreadRecords

LEMMA LookTypes ==
  ASSUME TerminalTypeOK, NEW e \in Epochs, Look(e)
  PROVE  /\ thread' \in [Epochs -> ThreadRecords]
         /\ \A d \in Epochs \ {e} : thread'[d] = thread[d]
         /\ thread'[e].stage = "probe" /\ thread'[e].cursor = thread[e].cursor
         /\ thread'[e].output = thread[e].output
         /\ thread'[e].exit = (terminal[e].state \in {"ending", "exited", "failed"})
<1> DEFINE exit == terminal[e].state \in {"ending", "exited", "failed"}
           next == [[thread[e] EXCEPT !.stage = "probe"] EXCEPT !.exit = exit]
<1>1. thread[e] \in ThreadRecords
  BY DEF TerminalTypeOK
<1>2. thread' = [thread EXCEPT ![e] = next]
  BY DEF Look
<1>3. exit \in BOOLEAN
  OBVIOUS
<1> HIDE DEF exit
<1>4. /\ next \in ThreadRecords /\ next.stage = "probe" /\ next.exit = exit
      /\ next.cursor = thread[e].cursor /\ next.output = thread[e].output
  BY <1>1, <1>3 DEF ThreadRecords
<1> HIDE DEF next
<1>5. /\ thread' \in [Epochs -> ThreadRecords] /\ thread'[e] = next
      /\ \A d \in Epochs \ {e} : thread'[d] = thread[d]
  BY <1>2, <1>4 DEF TerminalTypeOK
<1> QED BY <1>4, <1>5 DEF exit

LEMMA ProbeTypes ==
  ASSUME TerminalTypeOK, NEW e \in Epochs, Probe(e)
  PROVE  LET state == terminal[e].state IN
         /\ thread' \in [Epochs -> ThreadRecords]
         /\ \A d \in Epochs \ {e} : thread'[d] = thread[d]
         /\ thread'[e].stage = "deliver" /\ thread'[e].output = thread[e].output
         /\ \/ PollFails(e) /\ thread'[e].ends = "error" /\ thread'[e].cursor = thread[e].output
            \/ /\ thread[e].exit /\ thread[e].cursor >= terminal[e].output
               /\ state \notin {"lost", "ending"}
               /\ thread'[e].ends = EndOf(state) /\ thread'[e].cursor = thread[e].cursor
            \/ thread'[e].ends = "no" /\ thread'[e].cursor = thread[e].cursor
<1> DEFINE state == terminal[e].state
<1>1. thread[e] \in ThreadRecords
  BY DEF TerminalTypeOK
<1>2. ASSUME NEW ends \in {"no", "fine", "badly", "error"}, NEW cursor \in Nat,
             thread' = [thread EXCEPT ![e] = [[[thread[e] EXCEPT !.stage = "deliver"]
                                                 EXCEPT !.ends = ends] EXCEPT !.cursor = cursor]]
      PROVE  /\ thread' \in [Epochs -> ThreadRecords]
             /\ \A d \in Epochs \ {e} : thread'[d] = thread[d]
             /\ thread'[e].stage = "deliver" /\ thread'[e].output = thread[e].output
             /\ thread'[e].ends = ends /\ thread'[e].cursor = cursor
  <2> DEFINE next == [[[thread[e] EXCEPT !.stage = "deliver"] EXCEPT !.ends = ends] EXCEPT !.cursor = cursor]
  <2>1. /\ next \in ThreadRecords /\ next.stage = "deliver" /\ next.ends = ends
        /\ next.cursor = cursor /\ next.output = thread[e].output
    BY <1>1 DEF ThreadRecords
  <2> HIDE DEF next
  <2>2. thread' = [thread EXCEPT ![e] = next]
    BY <1>2 DEF next
  <2> QED BY <2>1, <2>2 DEF TerminalTypeOK
<1>3. CASE /\ PollFails(e)
           /\ thread' = [thread EXCEPT ![e].stage = "deliver", ![e].ends = "error",
                                       ![e].cursor = thread[e].output]
  <2>1. thread[e].output \in Nat
    BY <1>1 DEF ThreadRecords
  <2>2. /\ thread' \in [Epochs -> ThreadRecords]
        /\ \A d \in Epochs \ {e} : thread'[d] = thread[d]
        /\ thread'[e].stage = "deliver" /\ thread'[e].output = thread[e].output
        /\ thread'[e].ends = "error" /\ thread'[e].cursor = thread[e].output
    BY <1>2, <1>3, <2>1
  <2> QED BY <1>3, <2>2
<1>4. CASE /\ state \notin {"lost", "ending"}
           /\ thread' = [thread EXCEPT ![e].stage = "deliver",
                ![e].ends = IF thread[e].exit /\ Drained(e) THEN EndOf(state) ELSE "no"]
  <2> DEFINE ends == IF thread[e].exit /\ Drained(e) THEN EndOf(state) ELSE "no"
             next == [[thread[e] EXCEPT !.stage = "deliver"] EXCEPT !.ends = ends]
  <2>1. /\ ends \in {"no", "fine", "badly", "error"}
        /\ \/ thread[e].exit /\ thread[e].cursor >= terminal[e].output /\ ends = EndOf(state)
           \/ ends = "no"
    BY DEF EndOf, Drained
  <2>2. thread' = [thread EXCEPT ![e] = next]
    BY <1>4
  <2> HIDE DEF ends
  <2>3. /\ next \in ThreadRecords /\ next.stage = "deliver" /\ next.ends = ends
        /\ next.cursor = thread[e].cursor /\ next.output = thread[e].output
    BY <1>1, <2>1 DEF ThreadRecords
  <2> HIDE DEF next
  <2>4. /\ thread' \in [Epochs -> ThreadRecords] /\ thread'[e] = next
        /\ \A d \in Epochs \ {e} : thread'[d] = thread[d]
    BY <2>2, <2>3 DEF TerminalTypeOK
  <2> QED BY <1>4, <2>1, <2>3, <2>4
<1> QED BY <1>3, <1>4 DEF Probe

LEMMA DeliverTypes ==
  ASSUME TerminalTypeOK, NEW e \in Epochs, Deliver(e)
  PROVE  /\ thread' \in [Epochs -> ThreadRecords]
         /\ \A d \in Epochs \ {e} : thread'[d] = thread[d]
         /\ thread'[e].cursor = thread[e].cursor /\ thread'[e].ends = thread[e].ends
         /\ \/ thread'[e].stage = "stop" /\ thread'[e].output = thread[e].output
            \/ /\ thread'[e].output = thread[e].cursor
               /\ \/ thread[e].ends = "no" /\ thread'[e].stage = "check"
                  \/ thread[e].ends \in {"fine", "error"} /\ thread'[e].stage = "finish"
                  \/ thread[e].ends = "badly" /\ thread'[e].stage = "fail"
<1> DEFINE output == thread[e].output + (thread[e].cursor - thread[e].output)
           stage == CASE thread[e].ends = "no"                -> "check"
                      [] thread[e].ends \in {"fine", "error"} -> "finish"
                      [] thread[e].ends = "badly"             -> "fail"
           next == [[thread[e] EXCEPT !.output = output] EXCEPT !.stage = stage]
<1>1. thread[e] \in ThreadRecords
  BY DEF TerminalTypeOK
<1>2. Goto(e, "stop") \/ thread' = [thread EXCEPT ![e] = next]
  BY DEF Deliver
<1>3. output = thread[e].cursor /\ output \in Nat
  BY <1>1 DEF ThreadRecords
<1>4. \/ thread[e].ends = "no" /\ stage = "check"
      \/ thread[e].ends \in {"fine", "error"} /\ stage = "finish"
      \/ thread[e].ends = "badly" /\ stage = "fail"
  BY <1>1 DEF ThreadRecords
<1> HIDE DEF output, stage
<1>5. next \in ThreadRecords /\ next.output = output /\ next.stage = stage
      /\ next.cursor = thread[e].cursor /\ next.ends = thread[e].ends
  BY <1>1, <1>3, <1>4 DEF ThreadRecords
<1> HIDE DEF next
<1>6. CASE Goto(e, "stop")
  BY <1>6, ThreadGoes
<1>7. CASE thread' = [thread EXCEPT ![e] = next]
  BY <1>3, <1>4, <1>5, <1>7 DEF TerminalTypeOK
<1> QED BY <1>2, <1>6, <1>7

(* A step of a thread or of its terminal concerns no other job, *)
LEMMA CompletedStays ==
  ASSUME TerminalTypeOK, CompletedHasEnded, NEW e \in Epochs,
         \A d \in Epochs \ {e} : thread'[d] = thread[d] /\ terminal'[d] = terminal[d],
         job' = job,
         At(e, "gone") =>
           /\ thread'[e] = thread[e] /\ (Over(e) => Over(e)')
           /\ terminal[e].state = "exited" => terminal'[e] = terminal[e]
  PROVE  CompletedHasEnded'
<1> SUFFICES ASSUME job.status = "completed"
             PROVE  /\ job.epoch \in Epochs /\ thread'[job.epoch].stage = "gone"
                    /\ EndsWith(job.epoch, thread[job.epoch].output)
                    /\ thread'[job.epoch] = thread[job.epoch]
                    /\ Over(job.epoch) => Over(job.epoch)'
                    /\ terminal[job.epoch].state = "exited" => terminal'[job.epoch] = terminal[job.epoch]
  BY DEF CompletedHasEnded, At, EndsWith
<1>1. /\ job.epoch \in Epochs /\ At(job.epoch, "gone")
      /\ EndsWith(job.epoch, thread[job.epoch].output)
  BY DEF CompletedHasEnded
<1>2. /\ thread'[job.epoch] = thread[job.epoch] /\ (Over(job.epoch) => Over(job.epoch)')
      /\ terminal[job.epoch].state = "exited" => terminal'[job.epoch] = terminal[job.epoch]
  BY <1>1 DEF Over
<1> QED BY <1>1, <1>2 DEF At

(* and keeps the invariant if it keeps the pair sound. *)
LEMMA PairKeeps ==
  ASSUME TerminalInv, TerminalTypeOK', NEW e \in Epochs,
         \A d \in Epochs \ {e} : thread'[d] = thread[d] /\ terminal'[d] = terminal[d],
         job' = job, faults' >= faults, Driven(e)',
         At(e, "gone") =>
           /\ thread'[e] = thread[e] /\ (Over(e) => Over(e)')
           /\ terminal[e].state = "exited" => terminal'[e] = terminal[e]
  PROVE  TerminalInv'
<1>1. CompletedHasEnded'
  BY CompletedStays DEF TerminalInv
<1>2. ASSUME NEW d \in Epochs \ {e} PROVE Driven(d)'
  <2>1. job'.epoch >= job.epoch
    BY DEF TerminalInv, TerminalTypeOK
  <2> QED BY <2>1, OthersDriven DEF TerminalInv
<1> QED BY <1>1, <1>2 DEF TerminalInv

LEMMA ThreadStepKeeps ==
  ASSUME TerminalInv, NEW e \in Epochs, ThreadStep(e), ~Finish(e)
  PROVE  TerminalInv'
<1>1. /\ TerminalTypeOK /\ Driven(e) /\ thread[e] \in ThreadRecords /\ terminal[e] \in TerminalRecords
      /\ faults \in Nat /\ job.epoch \in 0 .. MaxEpoch
  BY DEF TerminalInv, TerminalTypeOK
<1>2. CASE Enter(e)
  <2>1. PICK stage \in {"start", "gone"} : Goto(e, stage)
    BY <1>2 DEF Enter
  <2>2. /\ job' = job /\ terminal' = terminal /\ faults' = faults /\ At(e, "entry")
    BY <1>2 DEF Enter
  <2>3. /\ thread' \in [Epochs -> ThreadRecords] /\ \A d \in Epochs \ {e} : thread'[d] = thread[d]
        /\ thread'[e].stage = stage /\ thread'[e].cursor = thread[e].cursor
        /\ thread'[e].output = thread[e].output
    BY <1>1, <2>1, ThreadGoes
  <2>4. Driven(e)'
    BY <1>1, <2>2, <2>3 DEF Driven, At, EndsWith, Over, Lives
  <2>5. TerminalTypeOK'
    BY <1>1, <2>2, <2>3 DEF TerminalTypeOK
  <2> QED BY <1>1, <2>2, <2>3, <2>4, <2>5, PairKeeps DEF At
<1>3. CASE Start(e)
  <2>1. job' = job /\ faults' = faults /\ At(e, "start") /\ Goto(e, "check") /\ Become(e, "spawning")
    BY <1>3 DEF Start
  <2>2. /\ thread' \in [Epochs -> ThreadRecords] /\ \A d \in Epochs \ {e} : thread'[d] = thread[d]
        /\ thread'[e].stage = "check" /\ thread'[e].cursor = thread[e].cursor
        /\ thread'[e].output = thread[e].output
    BY <1>1, <2>1, ThreadGoes
  <2>3. /\ terminal' \in [Epochs -> TerminalRecords] /\ \A d \in Epochs \ {e} : terminal'[d] = terminal[d]
        /\ terminal'[e].state = "spawning" /\ terminal'[e].output = terminal[e].output
    BY <1>1, <2>1, TerminalBecomes
  <2>4. Driven(e)'
    BY <1>1, <2>1, <2>2, <2>3 DEF Driven, At, EndsWith, Over, Lives
  <2>5. TerminalTypeOK'
    BY <1>1, <2>1, <2>2, <2>3 DEF TerminalTypeOK
  <2> QED BY <1>1, <2>1, <2>2, <2>3, <2>4, <2>5, PairKeeps DEF At
<1>4. CASE CheckFence(e)
  <2>1. PICK stage \in {"read", "stop"} : Goto(e, stage)
    BY <1>4 DEF CheckFence
  <2>2. /\ job' = job /\ terminal' = terminal /\ faults' = faults /\ At(e, "check")
    BY <1>4 DEF CheckFence
  <2>3. /\ thread' \in [Epochs -> ThreadRecords] /\ \A d \in Epochs \ {e} : thread'[d] = thread[d]
        /\ thread'[e].stage = stage /\ thread'[e].cursor = thread[e].cursor
        /\ thread'[e].output = thread[e].output
    BY <1>1, <2>1, ThreadGoes
  <2>4. Driven(e)'
    BY <1>1, <2>2, <2>3 DEF Driven, At, EndsWith, Over, Lives
  <2>5. TerminalTypeOK'
    BY <1>1, <2>2, <2>3 DEF TerminalTypeOK
  <2> QED BY <1>1, <2>2, <2>3, <2>4, <2>5, PairKeeps DEF At
<1>5. CASE Read(e)
  <2>1. job' = job /\ terminal' = terminal /\ faults' = faults /\ At(e, "read")
    BY <1>5 DEF Read
  <2>2. /\ thread' \in [Epochs -> ThreadRecords] /\ \A d \in Epochs \ {e} : thread'[d] = thread[d]
        /\ thread'[e].stage = "look" /\ thread'[e].cursor <= terminal[e].output
        /\ thread'[e].output = thread[e].output
    BY <1>1, <1>5, ReadTypes DEF Driven
  <2>3. Driven(e)'
    BY <1>1, <2>1, <2>2 DEF Driven, At, EndsWith, Over, Lives
  <2>4. TerminalTypeOK'
    BY <1>1, <2>1, <2>2 DEF TerminalTypeOK
  <2> QED BY <1>1, <2>1, <2>2, <2>3, <2>4, PairKeeps DEF At
<1>6. CASE Look(e)
  <2>1. job' = job /\ terminal' = terminal /\ faults' = faults /\ At(e, "look")
    BY <1>6 DEF Look
  <2>2. /\ thread' \in [Epochs -> ThreadRecords] /\ \A d \in Epochs \ {e} : thread'[d] = thread[d]
        /\ thread'[e].stage = "probe" /\ thread'[e].cursor = thread[e].cursor
        /\ thread'[e].output = thread[e].output
        /\ thread'[e].exit = (terminal[e].state \in {"ending", "exited", "failed"})
    BY <1>1, <1>6, LookTypes
  <2>3. Driven(e)'
    BY <1>1, <2>1, <2>2 DEF Driven, At, EndsWith, Over, Lives
  <2>4. TerminalTypeOK'
    BY <1>1, <2>1, <2>2 DEF TerminalTypeOK
  <2> QED BY <1>1, <2>1, <2>2, <2>3, <2>4, PairKeeps DEF At
<1>10. CASE Probe(e)
  <2>1. job' = job /\ terminal' = terminal /\ faults' = faults /\ At(e, "probe")
    BY <1>10 DEF Probe
  <2>2. /\ thread' \in [Epochs -> ThreadRecords] /\ \A d \in Epochs \ {e} : thread'[d] = thread[d]
        /\ thread'[e].stage = "deliver" /\ thread'[e].output = thread[e].output
    BY <1>1, <1>10, ProbeTypes
  <2>3. \/ PollFails(e) /\ thread'[e].ends = "error" /\ thread'[e].cursor = thread[e].output
        \/ /\ thread[e].exit /\ thread[e].cursor >= terminal[e].output
           /\ terminal[e].state \notin {"lost", "ending"}
           /\ thread'[e].ends = EndOf(terminal[e].state) /\ thread'[e].cursor = thread[e].cursor
        \/ thread'[e].ends = "no" /\ thread'[e].cursor = thread[e].cursor
    BY <1>1, <1>10, ProbeTypes
  <2>4. Driven(e)'
    <3>1. /\ thread[e].cursor <= terminal[e].output /\ thread[e].cursor \in Nat
          /\ terminal[e].output \in Nat /\ thread[e].output <= terminal[e].output
          /\ thread[e].exit => Over(e)
      BY <1>1, <2>1 DEF Driven, ThreadRecords, TerminalRecords
    <3>2. CASE PollFails(e) /\ thread'[e].ends = "error" /\ thread'[e].cursor = thread[e].output
      BY <1>1, <2>1, <2>2, <3>1, <3>2 DEF Driven, At, EndsWith, Over, Lives, PollFails
    <3>3. CASE /\ thread[e].exit /\ thread[e].cursor >= terminal[e].output
               /\ terminal[e].state \notin {"lost", "ending"}
               /\ thread'[e].ends = EndOf(terminal[e].state) /\ thread'[e].cursor = thread[e].cursor
      <4>1. terminal[e].state \in {"exited", "failed"}
        BY <3>1, <3>3 DEF Over
      <4> QED BY <1>1, <2>1, <2>2, <3>1, <3>3, <4>1 DEF Driven, At, EndsWith, Over, Lives, EndOf
    <3>4. CASE thread'[e].ends = "no" /\ thread'[e].cursor = thread[e].cursor
      BY <1>1, <2>1, <2>2, <3>1, <3>4 DEF Driven, At, EndsWith, Over, Lives
    <3> QED BY <2>3, <3>2, <3>3, <3>4
  <2>5. TerminalTypeOK'
    BY <1>1, <2>1, <2>2 DEF TerminalTypeOK
  <2> QED BY <1>1, <2>1, <2>2, <2>4, <2>5, PairKeeps DEF At
<1>7. CASE Deliver(e)
  <2>1. job' = job /\ terminal' = terminal /\ faults' = faults /\ At(e, "deliver")
    BY <1>7 DEF Deliver
  <2>2. /\ thread' \in [Epochs -> ThreadRecords] /\ \A d \in Epochs \ {e} : thread'[d] = thread[d]
        /\ thread'[e].cursor = thread[e].cursor /\ thread'[e].ends = thread[e].ends
        /\ \/ thread'[e].stage = "stop" /\ thread'[e].output = thread[e].output
           \/ /\ thread'[e].output = thread[e].cursor
              /\ \/ thread[e].ends = "no" /\ thread'[e].stage = "check"
                 \/ thread[e].ends \in {"fine", "error"} /\ thread'[e].stage = "finish"
                 \/ thread[e].ends = "badly" /\ thread'[e].stage = "fail"
    BY <1>1, <1>7, DeliverTypes
  <2>3. Driven(e)'
    BY <1>1, <2>1, <2>2 DEF Driven, At, EndsWith, Over, Lives
  <2>4. TerminalTypeOK'
    BY <1>1, <2>1, <2>2 DEF TerminalTypeOK
  <2> QED BY <1>1, <2>1, <2>2, <2>3, <2>4, PairKeeps DEF At
<1>8. CASE Stop(e)
  <2>1. job' = job /\ faults' = faults /\ At(e, "stop") /\ Goto(e, "stopped")
    BY <1>8 DEF Stop
  <2>2. \/ Become(e, "killed") \/ Become(e, "orphan")
        \/ terminal' = terminal /\ ~Lives(e)
    BY <1>8 DEF Stop, Lives
  <2>3. /\ thread' \in [Epochs -> ThreadRecords] /\ \A d \in Epochs \ {e} : thread'[d] = thread[d]
        /\ thread'[e].stage = "stopped" /\ thread'[e].cursor = thread[e].cursor
        /\ thread'[e].output = thread[e].output
    BY <1>1, <2>1, ThreadGoes
  <2>4. /\ terminal' \in [Epochs -> TerminalRecords] /\ \A d \in Epochs \ {e} : terminal'[d] = terminal[d]
        /\ terminal'[e].state \in {"killed", "orphan"} \/ (terminal' = terminal /\ ~Lives(e))
        /\ terminal'[e].output = terminal[e].output
    <3>1. CASE Become(e, "killed")
      BY <1>1, <3>1, TerminalBecomes
    <3>2. CASE Become(e, "orphan")
      BY <1>1, <3>2, TerminalBecomes
    <3>3. CASE terminal' = terminal /\ ~Lives(e)
      BY <1>1, <3>3 DEF TerminalTypeOK
    <3> QED BY <2>2, <3>1, <3>2, <3>3
  <2>5. Driven(e)'
    BY <1>1, <2>1, <2>3, <2>4 DEF Driven, At, EndsWith, Over, Lives
  <2>6. TerminalTypeOK'
    BY <1>1, <2>1, <2>3, <2>4 DEF TerminalTypeOK
  <2> QED BY <1>1, <2>1, <2>3, <2>4, <2>5, <2>6, PairKeeps DEF At
<1>9. CASE Fault(e)
  <2>1. /\ job' = job /\ terminal' = terminal /\ faults' = faults + 1
        /\ thread[e].stage \in {"start", "read", "stop"} /\ Goto(e, "fail")
    BY <1>9 DEF Fault
  <2>2. /\ thread' \in [Epochs -> ThreadRecords] /\ \A d \in Epochs \ {e} : thread'[d] = thread[d]
        /\ thread'[e].stage = "fail" /\ thread'[e].cursor = thread[e].cursor
        /\ thread'[e].output = thread[e].output
    BY <1>1, <2>1, ThreadGoes
  <2>3. Driven(e)'
    BY <1>1, <2>1, <2>2 DEF Driven, At, EndsWith, Over, Lives
  <2>4. TerminalTypeOK'
    BY <1>1, <2>1, <2>2 DEF TerminalTypeOK
  <2> QED BY <1>1, <2>1, <2>2, <2>3, <2>4, PairKeeps DEF At
<1> QED BY <1>2, <1>3, <1>4, <1>5, <1>6, <1>7, <1>8, <1>9, <1>10 DEF ThreadStep

LEMMA FinishKeeps ==
  ASSUME TerminalInv, NEW e \in Epochs, Finish(e)
  PROVE  TerminalInv'
<1>1. /\ TerminalTypeOK /\ Driven(e) /\ thread[e] \in ThreadRecords /\ terminal[e] \in TerminalRecords
      /\ faults \in Nat /\ CompletedHasEnded
  BY DEF TerminalInv, TerminalTypeOK
<1>2. thread[e].stage \in {"finish", "fail"} /\ Goto(e, "gone") /\ terminal' = terminal /\ faults' = faults
  BY DEF Finish
<1>3. /\ thread' \in [Epochs -> ThreadRecords] /\ \A d \in Epochs \ {e} : thread'[d] = thread[d]
      /\ thread'[e].stage = "gone" /\ thread'[e].cursor = thread[e].cursor
      /\ thread'[e].output = thread[e].output /\ thread'[e].ends = thread[e].ends
  BY <1>1, <1>2, ThreadGoes
<1>4. /\ job'.epoch = job.epoch
      /\ job' \in [status : {"pending", "running", "paused", "cancelled", "interrupted", "completed", "failed"},
                   epoch  : 0 .. MaxEpoch]
      /\ \/ job' = job
         \/ Fenced(e) /\ (job'.status = "completed" => At(e, "finish"))
  BY <1>1 DEF Finish, TerminalTypeOK, Fenced, At
<1>5. TerminalTypeOK'
  BY <1>1, <1>2, <1>3, <1>4 DEF TerminalTypeOK
<1>6. Driven(e)'
  BY <1>1, <1>2, <1>3, <1>4 DEF Driven, At, EndsWith, Over, Lives
<1>7. ASSUME NEW d \in Epochs \ {e} PROVE Driven(d)'
  <2>1. job'.epoch >= job.epoch /\ faults' >= faults
    BY <1>1, <1>2, <1>4 DEF TerminalTypeOK
  <2> QED BY <1>1, <1>2, <1>3, <1>5, <2>1, OthersDriven DEF TerminalInv
<1>8. CompletedHasEnded'
  <2>1. CASE job' = job
    <3>1. At(e, "gone") => FALSE
      BY <1>2 DEF At
    <3> QED BY <1>1, <1>2, <1>3, <2>1, <3>1, CompletedStays DEF Over
  <2>2. CASE Fenced(e) /\ (job'.status = "completed" => At(e, "finish"))
    BY <1>1, <1>2, <1>3, <1>4, <2>2 DEF CompletedHasEnded, Fenced, At, EndsWith, Over, Driven
  <2> QED BY <1>4, <2>1, <2>2
<1> QED BY <1>5, <1>6, <1>7, <1>8 DEF TerminalInv

LEMMA ContainerStepKeeps ==
  ASSUME TerminalInv, NEW e \in Epochs, ContainerStep(e)
  PROVE  TerminalInv'
<1>1. /\ TerminalTypeOK /\ Driven(e) /\ thread[e] \in ThreadRecords /\ terminal[e] \in TerminalRecords
      /\ faults \in Nat
  BY DEF TerminalInv, TerminalTypeOK
<1>2. /\ job' = job /\ thread' = thread /\ faults' \in {faults, faults + 1}
      /\ Lives(e) \/ terminal[e].state = "ending"
  BY DEF ContainerStep, Spawn, Write, Exit, RunnerDies, Lives
<1>3. \/ terminal[e].state = "spawning" /\ Become(e, "unlisted") /\ faults' = faults
      \/ terminal[e].state = "unlisted" /\ Become(e, "running") /\ faults' = faults
      \/ terminal[e].state = "running" /\ Become(e, "ending") /\ faults' = faults
      \/ terminal[e].state = "ending" /\ (Become(e, "exited") \/ Become(e, "failed")) /\ faults' = faults
      \/ Become(e, "lost") /\ faults' = faults + 1
      \/ Lives(e) /\ terminal' = [terminal EXCEPT ![e].output = @ + 1] /\ faults' = faults
  BY DEF ContainerStep, Spawn, Write, Exit, RunnerDies, Lives
<1>4. /\ terminal' \in [Epochs -> TerminalRecords] /\ \A d \in Epochs \ {e} : terminal'[d] = terminal[d]
      /\ terminal'[e].output >= terminal[e].output
      /\ terminal[e].state # "none"
      /\ terminal[e].state = "ending" => terminal'[e].state \in {"exited", "failed", "lost"}
      /\ terminal'[e].state = "lost" => faults' = faults + 1
  <2>1. CASE Lives(e) /\ terminal' = [terminal EXCEPT ![e].output = @ + 1] /\ faults' = faults
    <3>1. terminal' = [terminal EXCEPT ![e] = [terminal[e] EXCEPT !.output = @ + 1]]
      BY <2>1
    <3>2. [terminal[e] EXCEPT !.output = @ + 1] \in TerminalRecords
      BY <1>1 DEF TerminalRecords
    <3> QED BY <1>1, <1>2, <2>1, <3>1, <3>2 DEF TerminalTypeOK, TerminalRecords, Lives
  <2>2. ASSUME NEW state \in {"unlisted", "running", "ending", "exited", "failed", "lost"}, Become(e, state)
        PROVE  /\ terminal' \in [Epochs -> TerminalRecords] /\ \A d \in Epochs \ {e} : terminal'[d] = terminal[d]
               /\ terminal'[e].state = state /\ terminal'[e].output = terminal[e].output
    BY <1>1, <2>2, TerminalBecomes
  <2> QED BY <1>1, <1>2, <1>3, <2>1, <2>2 DEF TerminalRecords, Lives
<1>5. TerminalTypeOK'
  BY <1>1, <1>2, <1>4 DEF TerminalTypeOK
<1>6. Over(e) => Over(e)'
  BY <1>2, <1>4 DEF Over, Lives
<1>7. ~Lives(e) => ~Lives(e)'
  BY <1>2, <1>4 DEF Lives
<1>8. faults' = 0 => faults = 0 /\ terminal'[e].state # "lost"
  BY <1>1, <1>2, <1>4
<1>9. terminal[e].state # "exited"
  BY <1>2 DEF Lives
<1>10. Driven(e)'
  <2>1. /\ e > job.epoch => thread[e].stage = "none"
        /\ thread[e].stage \notin {"none", "entry", "start"}
    BY <1>1, <1>4 DEF Driven
  <2>2. thread[e].cursor <= terminal'[e].output /\ thread[e].output <= terminal'[e].output
    BY <1>1, <1>4 DEF Driven, ThreadRecords, TerminalRecords, TerminalTypeOK
  <2>3. /\ At(e, "probe") /\ thread[e].exit => Over(e)'
        /\ At(e, "deliver") /\ thread[e].ends \in {"fine", "error"} => thread[e].ends = "error" /\ Over(e)'
        /\ At(e, "finish") => thread[e].ends = "error" /\ Over(e)'
    BY <1>1, <1>6, <1>9 DEF Driven, EndsWith
  <2>4. At(e, "stopped") => ~Lives(e)'
    BY <1>1, <1>7 DEF Driven
  <2>5. faults' = 0 =>
          /\ terminal'[e].state # "lost"
          /\ At(e, "deliver") /\ thread[e].ends # "no" => ~Lives(e)'
          /\ thread[e].stage \in {"finish", "fail", "gone"} => ~Lives(e)'
    BY <1>1, <1>7, <1>8 DEF Driven
  <2> QED BY <1>2, <2>1, <2>2, <2>3, <2>4, <2>5 DEF Driven, At, EndsWith, Over, Lives
<1>11. faults' >= faults
  BY <1>1, <1>2
<1> QED BY <1>1, <1>2, <1>4, <1>5, <1>6, <1>9, <1>10, <1>11, PairKeeps DEF Lives

(* The registry knows nothing of the terminals. *)
LEMMA RegistryKeeps ==
  ASSUME TerminalInv, Claim \/ Control \/ LeaseLost
  PROVE  TerminalInv'
<1>1. /\ TerminalTypeOK /\ CompletedHasEnded /\ faults \in Nat /\ job.epoch \in 0 .. MaxEpoch
      /\ job \in [status : {"pending", "running", "paused", "cancelled", "interrupted", "completed", "failed"},
                  epoch  : 0 .. MaxEpoch]
  BY DEF TerminalInv, TerminalTypeOK
<1>2. terminal' = terminal /\ faults' = faults
  BY DEF Claim, Control, LeaseLost
<1>3. CASE Claim
  <2>1. PICK e \in Epochs : /\ e = job.epoch + 1
                            /\ job' = [status |-> "running", epoch |-> e] /\ Goto(e, "entry")
    BY <1>1, <1>3, TerminalsAssumption DEF Claim, Epochs
  <2>2. /\ thread' \in [Epochs -> ThreadRecords] /\ \A d \in Epochs \ {e} : thread'[d] = thread[d]
        /\ thread'[e].stage = "entry" /\ thread'[e].cursor = thread[e].cursor
        /\ thread'[e].output = thread[e].output
    BY <1>1, <2>1, ThreadGoes
  <2>3. TerminalTypeOK'
    BY <1>1, <1>2, <2>1, <2>2 DEF TerminalTypeOK, Epochs
  <2>4. Driven(e)'
    <3>1. e > job.epoch /\ Driven(e)
      BY <1>1, <2>1 DEF TerminalInv
    <3>2. terminal[e].state = "none"
      BY <3>1 DEF Driven
    <3>3. ~(e > job'.epoch)
      BY <2>1 DEF Epochs
    <3> QED BY <1>2, <2>2, <3>1, <3>2, <3>3 DEF Driven, At, EndsWith, Over, Lives
  <2>5. ASSUME NEW d \in Epochs \ {e} PROVE Driven(d)'
    <3>1. job'.epoch >= job.epoch /\ faults' >= faults
      BY <1>1, <1>2, <2>1
    <3> QED BY <1>1, <1>2, <2>1, <2>2, <2>3, <3>1, OthersDriven DEF TerminalInv
  <2>6. CompletedHasEnded'
    BY <2>1 DEF CompletedHasEnded
  <2>7. \A d \in Epochs : Driven(d)'
    BY <2>4, <2>5
  <2> QED BY <2>3, <2>6, <2>7 DEF TerminalInv
<1>4. CASE Control \/ LeaseLost
  <2>1. thread' = thread
    BY <1>4 DEF Control, LeaseLost
  <2>2. /\ job'.epoch \in {job.epoch, job.epoch + 1} /\ job'.status # "completed"
        /\ job' \in [status : {"pending", "running", "paused", "cancelled", "interrupted", "completed", "failed"},
                     epoch  : 0 .. MaxEpoch]
    BY <1>1, <1>4, TerminalsAssumption DEF Control, LeaseLost
  <2>3. TerminalTypeOK'
    BY <1>1, <1>2, <2>1, <2>2 DEF TerminalTypeOK
  <2>4. ASSUME NEW d \in Epochs PROVE Driven(d)'
    BY <1>1, <1>2, <2>1, <2>2 DEF TerminalInv, Driven, At, EndsWith, Over, Lives, Epochs
  <2>5. CompletedHasEnded'
    BY <2>2 DEF CompletedHasEnded
  <2> QED BY <2>3, <2>4, <2>5 DEF TerminalInv
<1> QED BY <1>3, <1>4

-----------------------------------------------------------------------------
(* The invariant of the terminals: each claim's thread knows no more of    *)
(* its terminal than there is, and ends or stops only with it (_drive).    *)
THEOREM TerminalInvHolds == TerminalSpec => []TerminalInv
<1>1. TerminalInit => TerminalInv
  <2> SUFFICES ASSUME TerminalInit PROVE TerminalInv
    OBVIOUS
  <2>1. TerminalTypeOK
    BY TerminalsAssumption DEF TerminalInit, TerminalTypeOK, NoThread, NoTerminal, ThreadRecords, TerminalRecords
  <2>2. \A e \in Epochs : Driven(e)
    BY DEF TerminalInit, Driven, NoThread, NoTerminal, At, EndsWith, Lives
  <2>3. CompletedHasEnded
    BY DEF TerminalInit, CompletedHasEnded
  <2> QED BY <2>1, <2>2, <2>3 DEF TerminalInv
<1>2. ASSUME TerminalInv, [TerminalNext]_terminalVars
      PROVE  TerminalInv'
  <2>1. CASE Claim \/ Control \/ LeaseLost
    BY <1>2, <2>1, RegistryKeeps
  <2>2. ASSUME NEW e \in Epochs, ThreadStep(e) \/ ContainerStep(e)
        PROVE  TerminalInv'
    BY <1>2, <2>2, ThreadStepKeeps, FinishKeeps, ContainerStepKeeps
  <2>3. CASE UNCHANGED terminalVars
    BY <1>2, <2>3 DEF terminalVars, TerminalInv, TerminalTypeOK, Driven, CompletedHasEnded, At, EndsWith,
                      Over, Lives
  <2> QED BY <1>2, <2>1, <2>2, <2>3 DEF TerminalNext, ThreadStep, ContainerStep
<1> QED BY <1>1, <1>2, PTL DEF TerminalSpec

(* A terminal that completed has all of its output, or its last poll       *)
(* failed once its program was over; one whose claim was revoked is        *)
(* cleaned up (_drive, terminal_poll, terminal_stop).                      *)
THEOREM TerminalIsSoundHolds == TerminalSpec => []TerminalIsSound
<1>1. TerminalInv => TerminalIsSound
  <2> SUFFICES ASSUME TerminalInv PROVE TerminalIsSound
    OBVIOUS
  <2>1. CompletedHasOutput
    BY DEF TerminalInv, CompletedHasEnded, CompletedHasOutput, EndsWith, Over
  <2>2. ASSUME NEW e \in Epochs, Lives(e), faults = 0
        PROVE  thread[e].stage \in {"check", "read", "look", "probe", "deliver", "stop"}
    BY <2>2 DEF TerminalInv, TerminalTypeOK, ThreadRecords, Driven, Lives, At
  <2>3. StoppedIsCleaned
    BY <2>2 DEF TerminalInv, Driven, StoppedIsCleaned, Lives
  <2> QED BY <2>1, <2>3 DEF TerminalIsSound
<1> QED BY <1>1, TerminalInvHolds, PTL

-----------------------------------------------------------------------------
(* Lists of messages *)
MessageRecords ==
  [id : Nat, role : {"system", "user", "assistant", "tool"}, size : Nat, of : Nat]

Lists == Seq(MessageRecords)

(* No message twice. *)
Distinct(list) == \A i, j \in 1 .. Len(list) : list[i].id = list[j].id => i = j
Under(list, n) == \A i \in 1 .. Len(list) : list[i].id <= n

(* The call of the result at p is at j, and only its results are between.  *)
CalledAt(list, j, p) ==
  /\ list[j].role = "assistant" /\ list[j].id = list[p].of
  /\ \A q \in j + 1 .. p : list[q].role = "tool" /\ list[q].of = list[p].of

CallsWhole(list) ==
  \A p \in 1 .. Len(list) : list[p].role = "tool" => \E j \in 1 .. p - 1 : CalledAt(list, j, p)

Sound(list) == list \in Lists /\ Distinct(list) /\ CallsWhole(list)

(* So a call stands exactly before its results. *)
LEMMA WholeCalls ==
  ASSUME NEW list, Len(list) \in Nat, CallsWhole(list)
  PROVE  \A i \in 1 .. Len(list) : list[i].role = "tool" =>
           /\ i > 1 /\ CallOf(list[i - 1]) = list[i].of
           /\ \E j \in 1 .. i - 1 : list[j].id = list[i].of
<1> SUFFICES ASSUME NEW i \in 1 .. Len(list), list[i].role = "tool"
             PROVE  /\ i > 1 /\ CallOf(list[i - 1]) = list[i].of
                    /\ \E j \in 1 .. i - 1 : list[j].id = list[i].of
  OBVIOUS
<1>1. PICK j \in 1 .. i - 1 : CalledAt(list, j, i)
  BY DEF CallsWhole
<1>2. i > 1 /\ list[j].id = list[i].of
  BY <1>1 DEF CalledAt
<1>3. CallOf(list[i - 1]) = list[i].of
  <2>1. CASE j = i - 1
    BY <2>1, <1>1 DEF CallOf, CalledAt
  <2>2. CASE j # i - 1
    <3>1. i - 1 \in j + 1 .. i
      BY <2>2
    <3> QED BY <3>1, <1>1 DEF CallOf, CalledAt
  <2> QED BY <2>1, <2>2
<1> QED BY <1>2, <1>3

LEMMA SpillKeeps ==
  ASSUME NEW list \in Lists
  PROVE  /\ Spill(list) \in Lists /\ Len(Spill(list)) = Len(list)
         /\ \A i \in 1 .. Len(list) : /\ Spill(list)[i].id = list[i].id
                                      /\ Spill(list)[i].role = list[i].role
                                      /\ Spill(list)[i].of = list[i].of
<1> DEFINE short(m) == [m EXCEPT !.size = 1]
<1>1. DOMAIN list = 1 .. Len(list) /\ Len(list) \in Nat
      /\ \A i \in 1 .. Len(list) : list[i] \in MessageRecords
  BY DEF Lists
<1>2. \A m \in MessageRecords : /\ short(m) \in MessageRecords /\ short(m).id = m.id
                                /\ short(m).role = m.role /\ short(m).of = m.of
  BY DEF MessageRecords
<1> HIDE DEF short
<1>3. Spill(list) = [i \in 1 .. Len(list) |->
                       IF list[i].role = "tool" /\ list[i].size >= Spilled THEN short(list[i]) ELSE list[i]]
  BY <1>1 DEF Spill, short
<1>4. Spill(list) \in [1 .. Len(list) -> MessageRecords]
  BY <1>1, <1>2, <1>3
<1>5. Spill(list) \in Lists /\ Len(Spill(list)) = Len(list)
  BY <1>4, <1>1 DEF Lists
<1> QED BY <1>1, <1>2, <1>3, <1>5

LEMMA SpillIsSound ==
  ASSUME NEW list, Sound(list)
  PROVE  Sound(Spill(list))
<1> DEFINE t == Spill(list)
<1>1. /\ t \in Lists /\ Len(t) = Len(list) /\ Len(list) \in Nat
      /\ \A i \in 1 .. Len(list) : t[i].id = list[i].id /\ t[i].role = list[i].role /\ t[i].of = list[i].of
  BY SpillKeeps DEF Sound, Lists
<1> HIDE DEF t
<1>2. Distinct(t)
  BY <1>1 DEF Sound, Distinct
<1>3. CallsWhole(t)
  <2> SUFFICES ASSUME NEW p \in 1 .. Len(t), t[p].role = "tool"
               PROVE  \E j \in 1 .. p - 1 : CalledAt(t, j, p)
    BY DEF CallsWhole
  <2>1. PICK j \in 1 .. p - 1 : CalledAt(list, j, p)
    BY <1>1 DEF Sound, CallsWhole
  <2>2. \A q \in j .. p : q \in 1 .. Len(list)
    BY <1>1
  <2>3. j \in j .. p /\ p \in j .. p /\ \A q \in j + 1 .. p : q \in j .. p
    OBVIOUS
  <2>4. CalledAt(t, j, p)
    BY <2>1, <2>2, <2>3, <1>1 DEF CalledAt
  <2> QED BY <2>4
<1> QED BY <1>1, <1>2, <1>3 DEF Sound, t

-----------------------------------------------------------------------------
(* Selections of a list *)
LEMMA SelectionIsDistinct ==
  ASSUME NEW list \in Lists, Distinct(list), NEW S
  PROVE  Distinct(Selected(list, S)) /\ Selected(list, S) \in Lists
<1>1. PICK h : Places(h, Selected(list, S), list, S, Len(list))
  BY SelectedPlaces DEF Lists
<1>2. Selected(list, S) \in Seq(MessageRecords)
  BY SelectedPlaces DEF Lists
<1> DEFINE r == Selected(list, S)
<1> HIDE DEF r
<1>3. ASSUME NEW k \in 1 .. Len(r), NEW l \in 1 .. Len(r), r[k].id = r[l].id PROVE k = l
  <2>1. /\ h[k] \in 1 .. Len(list) /\ h[l] \in 1 .. Len(list)
        /\ r[k] = list[h[k]] /\ r[l] = list[h[l]]
    BY <1>1 DEF Places, r
  <2>2. h[k] = h[l]
    BY <2>1, <1>3 DEF Distinct
  <2>3. ~(k < l) /\ ~(l < k)
    BY <1>1, <2>1, <2>2 DEF Places, r
  <2>4. Len(r) \in Nat
    BY <1>2 DEF r
  <2> QED BY <2>3, <2>4
<1> QED BY <1>2, <1>3 DEF r, Distinct, Lists

(* Messages of two selections differ if the selections have none in common. *)
LEMMA SelectionsDiffer ==
  ASSUME NEW list \in Lists, Distinct(list), NEW S, NEW T, S \cap T = {},
         NEW k \in 1 .. Len(Selected(list, S)), NEW l \in 1 .. Len(Selected(list, T))
  PROVE  Selected(list, S)[k].id # Selected(list, T)[l].id
<1>1. PICK i \in 1 .. Len(list) : Selected(list, S)[k] = list[i] /\ list[i] \in S
  BY SelectedElements DEF Lists
<1>2. PICK j \in 1 .. Len(list) : Selected(list, T)[l] = list[j] /\ list[j] \in T
  BY SelectedElements DEF Lists
<1> QED BY <1>1, <1>2 DEF Distinct

(* A selection with all calls and results keeps them together. *)
LEMMA SelectionIsWhole ==
  ASSUME NEW list, Sound(list), NEW S,
         \A i \in 1 .. Len(list) : list[i].role \in {"assistant", "tool"} => list[i] \in S
  PROVE  Sound(Selected(list, S))
<1> DEFINE r == Selected(list, S)
<1>1. PICK h : Places(h, r, list, S, Len(list))
  BY SelectedPlaces DEF Sound, Lists
<1>2. r \in Lists /\ Distinct(r)
  BY SelectionIsDistinct DEF Sound
<1> HIDE DEF r
<1>3. Len(r) \in Nat /\ Len(list) \in Nat
  BY <1>2 DEF Sound, Lists
<1>4. ASSUME NEW k \in 1 .. Len(r), r[k].role = "tool"
      PROVE  \E l \in 1 .. k - 1 : CalledAt(r, l, k)
  <2> DEFINE p == h[k]
  <2>1. p \in 1 .. Len(list) /\ r[k] = list[p]
    BY <1>1 DEF Places
  <2> HIDE DEF p
  <2>2. PICK j \in 1 .. p - 1 : CalledAt(list, j, p)
    BY <2>1, <1>4 DEF Sound, CallsWhole
  <2>3. j \in 1 .. Len(list) /\ j < p
    BY <2>1, <1>3
  <2>4. PICK l \in 1 .. Len(r) : h[l] = j
    BY <2>2, <2>3, <1>1 DEF CalledAt, Places
  <2>5. l < k
    <3>1. l # k
      BY <2>3, <2>4 DEF p
    <3>2. ~(k < l)
      BY <2>3, <2>4, <2>1, <1>1 DEF p, Places
    <3> QED BY <3>1, <3>2, <1>3
  <2>6. r[l] = list[j]
    BY <2>4, <1>1 DEF Places
  <2>7. ASSUME NEW q \in l + 1 .. k PROVE r[q].role = "tool" /\ r[q].of = r[k].of
    <3>1. q \in 1 .. Len(r) /\ l < q /\ q <= k
      BY <1>3
    <3>2. h[q] \in 1 .. Len(list) /\ r[q] = list[h[q]] /\ h[l] < h[q]
      BY <3>1, <1>1 DEF Places
    <3>3. h[q] <= p
      <4>1. CASE q = k
        BY <4>1, <3>2 DEF p
      <4>2. CASE q # k
        <5>1. q < k
          BY <4>2, <3>1, <1>3
        <5> QED BY <5>1, <3>1, <3>2, <2>1, <1>1 DEF p, Places
      <4> QED BY <4>1, <4>2
    <3>4. h[q] \in j + 1 .. p
      BY <3>2, <3>3, <2>4, <2>1, <2>3
    <3> QED BY <3>4, <3>2, <2>1, <2>2 DEF CalledAt
  <2>8. CalledAt(r, l, k)
    BY <2>6, <2>7, <2>2, <2>1 DEF CalledAt
  <2>9. l \in 1 .. k - 1
    BY <2>5, <1>3
  <2> QED BY <2>8, <2>9
<1> QED BY <1>2, <1>4 DEF Sound, CallsWhole, r

LEMMA RestIsSound ==
  ASSUME NEW list, Sound(list)
  PROVE  Sound(Rest(list))
<1> DEFINE S == Elements(list) \ (Instructions(list) \cup Input(list))
<1>1. list \in Lists /\ DOMAIN list = 1 .. Len(list)
  BY DEF Sound, Lists
<1>2. ASSUME NEW i \in 1 .. Len(list), list[i].role \in {"assistant", "tool"}
      PROVE  list[i] \in S
  BY <1>1, <1>2 DEF Elements, Instructions, Input, Newest, Users
<1> HIDE DEF S
<1>3. Sound(Selected(list, S))
  BY <1>2, SelectionIsWhole
<1> QED BY <1>3 DEF S, Rest

-----------------------------------------------------------------------------
(* The end of a list from the start of a group on *)
LEMMA FromFacts ==
  ASSUME NEW rest \in Lists, NEW s \in 1 .. Len(rest)
  PROVE  /\ From(rest, s) \in Lists /\ Len(From(rest, s)) = Len(rest) - s + 1
         /\ \A k \in 1 .. Len(rest) - s + 1 : From(rest, s)[k] = rest[s + k - 1]
BY DEF From, Lists

LEMMA FromIsSound ==
  ASSUME NEW rest, Sound(rest), NEW s \in Starts(rest)
  PROVE  Sound(From(rest, s))
<1> DEFINE t == From(rest, s)
           n == Len(rest)
<1>1. rest \in Lists /\ n \in Nat /\ s \in 1 .. n /\ (s = 1 \/ rest[s].role # "tool")
  BY DEF Sound, Lists, Starts
<1>2. t \in Lists /\ Len(t) = n - s + 1 /\ \A k \in 1 .. n - s + 1 : t[k] = rest[s + k - 1]
  BY <1>1, FromFacts
<1> HIDE DEF t, n
<1>3. Distinct(t)
  <2> SUFFICES ASSUME NEW k \in 1 .. Len(t), NEW l \in 1 .. Len(t), t[k].id = t[l].id
               PROVE  k = l
    BY DEF Distinct
  <2>1. s + k - 1 \in 1 .. n /\ s + l - 1 \in 1 .. n /\ t[k] = rest[s + k - 1] /\ t[l] = rest[s + l - 1]
    BY <1>1, <1>2
  <2>2. s + k - 1 = s + l - 1
    BY <2>1 DEF Sound, Distinct, n
  <2> QED BY <2>2, <1>1, <1>2
<1>4. CallsWhole(t)
  <2> SUFFICES ASSUME NEW k \in 1 .. Len(t), t[k].role = "tool"
               PROVE  \E l \in 1 .. k - 1 : CalledAt(t, l, k)
    BY DEF CallsWhole
  <2> DEFINE p == s + k - 1
  <2>1. p \in 1 .. n /\ t[k] = rest[p] /\ s <= p
    BY <1>1, <1>2
  <2>2. PICK j \in 1 .. p - 1 : CalledAt(rest, j, p)
    BY <2>1 DEF Sound, CallsWhole, n
  <2>3. s <= j
    <3> SUFFICES ASSUME j < s PROVE FALSE
      BY <1>1, <2>1
    <3>1. s \in j + 1 .. p /\ s # 1
      BY <2>1, <1>1
    <3> QED BY <3>1, <2>2, <1>1 DEF CalledAt
  <2> DEFINE l == j - s + 1
  <2>4. l \in 1 .. k - 1 /\ l \in 1 .. n - s + 1 /\ s + l - 1 = j
    BY <2>3, <1>1, <1>2, <2>1
  <2>5. t[l] = rest[j]
    BY <2>4, <1>2
  <2>6. ASSUME NEW q \in l + 1 .. k PROVE t[q].role = "tool" /\ t[q].of = t[k].of
    <3>1. q \in 1 .. n - s + 1 /\ s + q - 1 \in j + 1 .. p
      <4>1. j \in Nat /\ s \in Nat /\ k \in Nat /\ l = j - s + 1 /\ l \in 1 .. k - 1
        BY <2>4, <1>1, <1>2
      <4>2. q \in Nat /\ l + 1 <= q /\ q <= k /\ k <= n - s + 1
        BY <4>1, <1>1, <1>2
      <4> QED BY SMTT(30), <4>1, <4>2, <1>1
    <3>2. t[q] = rest[s + q - 1]
      BY <3>1, <1>2
    <3> QED BY <3>1, <3>2, <2>1, <2>2 DEF CalledAt
  <2> HIDE DEF l, p
  <2>7. CalledAt(t, l, k)
    BY <2>5, <2>6, <2>1, <2>2 DEF CalledAt
  <2> QED BY <2>7, <2>4
<1> QED BY <1>2, <1>3, <1>4 DEF Sound, t

(* What is kept starts where a group starts. *)
LEMMA KeptIsATail ==
  ASSUME NEW rest \in Lists, rest # <<>>, NEW mandatory
  PROVE  \E s \in Starts(rest) : Kept(rest, mandatory) = From(rest, s)
<1> DEFINE enough == {s \in Starts(rest) : \/ Fits(mandatory \o From(rest, s))
                                           \/ \A t \in Starts(rest) : t <= s}
           n == Len(rest)
           Away == {n - t : t \in Starts(rest)}
<1>1. n \in Nat /\ n # 0 /\ Starts(rest) \subseteq 1 .. n /\ 1 \in Starts(rest)
  BY DEF Lists, Starts
<1> HIDE DEF n
<1>2. \E s \in Starts(rest) : \A t \in Starts(rest) : t <= s
  <2>1. Away \in SUBSET Nat /\ Away # {}
    <3>1. \A t \in Starts(rest) : n - t \in Nat
      BY <1>1
    <3> QED BY <3>1, <1>1
  <2>2. PICK d \in Away : \A y \in Away : d <= y
    BY <2>1, LeastNat
  <2>3. PICK s \in Starts(rest) : d = n - s
    BY <2>2
  <2>4. ASSUME NEW t \in Starts(rest) PROVE t <= s
    <3>1. d <= n - t
      BY <2>2
    <3> QED BY <3>1, <2>3, <1>1
  <2> QED BY <2>4
<1>3. enough \in SUBSET Nat /\ enough # {}
  BY <1>1, <1>2
<1>4. \E s \in enough : \A t \in enough : s <= t
  BY <1>3, LeastNat
<1> DEFINE first == CHOOSE s \in enough : \A t \in enough : s <= t
<1>5. first \in enough
  BY <1>4
<1>6. Kept(rest, mandatory) = From(rest, first)
  BY DEF Kept
<1> HIDE DEF first
<1> QED BY <1>5, <1>6

-----------------------------------------------------------------------------
(* One list after another *)
LEMMA ConcatFacts ==
  ASSUME NEW a \in Lists, NEW b \in Lists
  PROVE  /\ a \o b \in Lists /\ Len(a \o b) = Len(a) + Len(b)
         /\ Len(a) \in Nat /\ Len(b) \in Nat
         /\ \A i \in 1 .. Len(a) : (a \o b)[i] = a[i]
         /\ \A i \in 1 .. Len(b) : (a \o b)[Len(a) + i] = b[i]
         /\ \A i \in 1 .. Len(a) + Len(b) :
              i \in 1 .. Len(a) \/ \E k \in 1 .. Len(b) : i = Len(a) + k
<1>1. /\ a \o b \in Seq(MessageRecords) /\ Len(a \o b) = Len(a) + Len(b)
      /\ \A i \in 1 .. Len(a) + Len(b) :
           (a \o b)[i] = IF i <= Len(a) THEN a[i] ELSE b[i - Len(a)]
  BY ConcatProperties DEF Lists
<1>2. Len(a) \in Nat /\ Len(b) \in Nat
  BY DEF Lists
<1>3. \A i \in 1 .. Len(a) + Len(b) :
        i \in 1 .. Len(a) \/ \E k \in 1 .. Len(b) : i = Len(a) + k
  <2> SUFFICES ASSUME NEW i \in 1 .. Len(a) + Len(b), i \notin 1 .. Len(a)
               PROVE  \E k \in 1 .. Len(b) : i = Len(a) + k
    OBVIOUS
  <2>1. i - Len(a) \in 1 .. Len(b) /\ i = Len(a) + (i - Len(a))
    BY <1>2
  <2> QED BY <2>1
<1>4. \A i \in 1 .. Len(a) : (a \o b)[i] = a[i]
  BY <1>1, <1>2
<1>5. \A i \in 1 .. Len(b) : (a \o b)[Len(a) + i] = b[i]
  <2> SUFFICES ASSUME NEW i \in 1 .. Len(b) PROVE (a \o b)[Len(a) + i] = b[i]
    OBVIOUS
  <2>1. Len(a) + i \in 1 .. Len(a) + Len(b) /\ ~(Len(a) + i <= Len(a)) /\ Len(a) + i - Len(a) = i
    BY <1>2
  <2> QED BY <2>1, <1>1
<1> QED BY <1>1, <1>2, <1>3, <1>4, <1>5 DEF Lists

LEMMA ConcatIsDistinct ==
  ASSUME NEW a \in Lists, NEW b \in Lists, Distinct(a), Distinct(b),
         \A i \in 1 .. Len(a), j \in 1 .. Len(b) : a[i].id # b[j].id
  PROVE  Distinct(a \o b)
<1> DEFINE c == a \o b
<1>1. /\ Len(c) = Len(a) + Len(b) /\ Len(a) \in Nat
      /\ \A i \in 1 .. Len(a) : c[i] = a[i]
      /\ \A i \in 1 .. Len(b) : c[Len(a) + i] = b[i]
      /\ \A i \in 1 .. Len(a) + Len(b) :
           i \in 1 .. Len(a) \/ \E k \in 1 .. Len(b) : i = Len(a) + k
  BY ConcatFacts
<1> HIDE DEF c
<1> SUFFICES ASSUME NEW i \in 1 .. Len(c), NEW j \in 1 .. Len(c), c[i].id = c[j].id
             PROVE  i = j
  BY DEF c, Distinct
<1>2. CASE i \in 1 .. Len(a) /\ j \in 1 .. Len(a)
  BY <1>1, <1>2 DEF Distinct
<1>3. ASSUME NEW k \in 1 .. Len(b), i = Len(a) + k PROVE i = j
  <2>1. c[i] = b[k]
    BY <1>1, <1>3
  <2>2. CASE j \in 1 .. Len(a)
    BY <2>1, <2>2, <1>1
  <2>3. ASSUME NEW l \in 1 .. Len(b), j = Len(a) + l PROVE i = j
    BY <2>1, <2>3, <1>1, <1>3 DEF Distinct
  <2> QED BY <2>2, <2>3, <1>1
<1>4. ASSUME i \in 1 .. Len(a), NEW k \in 1 .. Len(b), j = Len(a) + k PROVE i = j
  BY <1>1, <1>4
<1> QED BY <1>1, <1>2, <1>3, <1>4

(* A list whose calls are whole, after messages without tools. *)
LEMMA ConcatIsWhole ==
  ASSUME NEW a \in Lists, NEW b \in Lists, CallsWhole(b),
         \A i \in 1 .. Len(a) : a[i].role # "tool"
  PROVE  CallsWhole(a \o b)
<1> DEFINE c == a \o b
           n == Len(a)
<1>1. /\ Len(c) = n + Len(b) /\ n \in Nat /\ Len(b) \in Nat
      /\ \A i \in 1 .. n : c[i] = a[i]
      /\ \A i \in 1 .. Len(b) : c[n + i] = b[i]
      /\ \A i \in 1 .. n + Len(b) :
           i \in 1 .. n \/ \E k \in 1 .. Len(b) : i = n + k
  BY ConcatFacts
<1> HIDE DEF c
<1> SUFFICES ASSUME NEW p \in 1 .. Len(c), c[p].role = "tool"
             PROVE  \E j \in 1 .. p - 1 : CalledAt(c, j, p)
  BY DEF CallsWhole, c
<1>2. PICK k \in 1 .. Len(b) : p = n + k
  BY <1>1
<1> HIDE DEF n
<1>3. c[p] = b[k]
  BY <1>1, <1>2
<1>4. PICK l \in 1 .. k - 1 : CalledAt(b, l, k)
  BY <1>3 DEF CallsWhole
<1> DEFINE j == n + l
<1>5. j \in 1 .. p - 1 /\ l \in 1 .. Len(b)
  BY <1>1, <1>2
<1>6. c[j] = b[l]
  BY <1>5, <1>1
<1>7. ASSUME NEW q \in j + 1 .. p PROVE c[q].role = "tool" /\ c[q].of = c[p].of
  <2>1. q - n \in l + 1 .. k /\ q - n \in 1 .. Len(b) /\ n + (q - n) = q
    BY <1>1, <1>2, <1>5
  <2>2. c[q] = b[q - n]
    BY <2>1, <1>1
  <2> QED BY <2>1, <2>2, <1>3, <1>4 DEF CalledAt
<1> HIDE DEF j
<1>8. CalledAt(c, j, p)
  BY <1>6, <1>7, <1>3, <1>4 DEF CalledAt
<1> QED BY <1>5, <1>8

-----------------------------------------------------------------------------
(* What is compacted, for any limit and any list whose calls are whole.    *)
IsState(state, n) ==
  state \in MessageRecords /\ state.role = "user" /\ state.id = n + 1

LEMMA MandatoryFacts ==
  ASSUME NEW list, Sound(list), NEW n \in Nat, Under(list, n), NEW state, IsState(state, n)
  PROVE  /\ Mandatory(list, state) \in Lists /\ Distinct(Mandatory(list, state))
         /\ \A i \in 1 .. Len(Mandatory(list, state)) :
              /\ Mandatory(list, state)[i].role # "tool"
              /\ \/ Mandatory(list, state)[i] = state
                 \/ \E k \in 1 .. Len(list) : /\ Mandatory(list, state)[i] = list[k]
                                              /\ list[k] \in Instructions(list) \cup Input(list)
         /\ \A k \in 1 .. Len(list) :
              list[k] \in Instructions(list) \cup Input(list) =>
                \E i \in 1 .. Len(Mandatory(list, state)) : Mandatory(list, state)[i] = list[k]
<1> DEFINE a == Selected(list, Instructions(list))
           b == <<state>>
           c == Selected(list, Input(list))
<1>1. list \in Lists /\ DOMAIN list = 1 .. Len(list)
  BY DEF Sound, Lists
<1>2. /\ \A m \in Instructions(list) : m.role = "system"
      /\ \A m \in Input(list) : m.role = "user"
  BY <1>1 DEF Instructions, Input, Newest, Users
<1>3. a \in Lists /\ c \in Lists /\ Distinct(a) /\ Distinct(c)
  BY <1>1, SelectionIsDistinct DEF Sound
<1>4. b \in Lists /\ Len(b) = 1 /\ b[1] = state /\ Distinct(b)
  BY DEF IsState, Lists, Distinct
<1>5. /\ \A i \in 1 .. Len(a) : \E k \in 1 .. Len(list) : a[i] = list[k] /\ list[k] \in Instructions(list)
      /\ \A i \in 1 .. Len(c) : \E k \in 1 .. Len(list) : c[i] = list[k] /\ list[k] \in Input(list)
      /\ \A k \in 1 .. Len(list) : list[k] \in Instructions(list) => \E i \in 1 .. Len(a) : a[i] = list[k]
      /\ \A k \in 1 .. Len(list) : list[k] \in Input(list) => \E i \in 1 .. Len(c) : c[i] = list[k]
  <2>1. list \in Seq(MessageRecords)
    BY <1>1 DEF Lists
  <2>2. /\ \A i \in 1 .. Len(a) : \E k \in 1 .. Len(list) : a[i] = list[k] /\ list[k] \in Instructions(list)
        /\ \A k \in 1 .. Len(list) : list[k] \in Instructions(list) => \E i \in 1 .. Len(a) : a[i] = list[k]
    BY <2>1, SelectedElements
  <2>3. /\ \A i \in 1 .. Len(c) : \E k \in 1 .. Len(list) : c[i] = list[k] /\ list[k] \in Input(list)
        /\ \A k \in 1 .. Len(list) : list[k] \in Input(list) => \E i \in 1 .. Len(c) : c[i] = list[k]
    BY <2>1, SelectedElements
  <2> QED BY <2>2, <2>3
<1>6. \A i \in 1 .. Len(a), j \in 1 .. Len(c) : a[i].id # c[j].id
  BY <1>1, <1>2, SelectionsDiffer DEF Sound
<1>7. \A k \in 1 .. Len(list) : list[k].id # state.id
  <2>1. \A k \in 1 .. Len(list) : list[k].id \in Nat /\ list[k].id <= n
    <3>1. \A k \in 1 .. Len(list) : list[k] \in MessageRecords
      BY <1>1 DEF Lists
    <3> QED BY <3>1 DEF Under, MessageRecords
  <2> QED BY <2>1 DEF IsState
<1> HIDE DEF a, b, c
<1> DEFINE d == a \o b
           e == d \o c
<1>8. /\ d \in Lists /\ Len(d) = Len(a) + 1 /\ Len(a) \in Nat
      /\ \A i \in 1 .. Len(a) : d[i] = a[i]
      /\ d[Len(a) + 1] = state
      /\ \A i \in 1 .. Len(a) + 1 : i \in 1 .. Len(a) \/ i = Len(a) + 1
  <2>1. /\ d \in Lists /\ Len(d) = Len(a) + Len(b) /\ Len(a) \in Nat
        /\ \A i \in 1 .. Len(a) : d[i] = a[i]
        /\ \A i \in 1 .. Len(b) : d[Len(a) + i] = b[i]
    BY <1>3, <1>4, ConcatFacts
  <2>2. d[Len(a) + 1] = state
    BY <2>1, <1>4
  <2> QED BY <2>1, <2>2, <1>4
<1>9. Distinct(d)
  <2>1. \A i \in 1 .. Len(a), j \in 1 .. Len(b) : a[i].id # b[j].id
    BY <1>4, <1>5, <1>7
  <2> QED BY <2>1, <1>3, <1>4, ConcatIsDistinct
<1> HIDE DEF d
<1>10. \A i \in 1 .. Len(d), j \in 1 .. Len(c) : d[i].id # c[j].id
  <2> SUFFICES ASSUME NEW i \in 1 .. Len(d), NEW j \in 1 .. Len(c) PROVE d[i].id # c[j].id
    OBVIOUS
  <2>1. CASE i \in 1 .. Len(a)
    BY <2>1, <1>6, <1>8
  <2>2. CASE i = Len(a) + 1
    BY <2>2, <1>5, <1>7, <1>8
  <2> QED BY <2>1, <2>2, <1>8
<1>11. e \in Lists /\ Distinct(e)
  BY <1>3, <1>8, <1>9, <1>10, ConcatFacts, ConcatIsDistinct
<1>12. /\ Len(e) = Len(d) + Len(c) /\ Len(d) \in Nat /\ Len(c) \in Nat
       /\ \A i \in 1 .. Len(d) : e[i] = d[i]
       /\ \A i \in 1 .. Len(c) : e[Len(d) + i] = c[i]
       /\ \A i \in 1 .. Len(d) + Len(c) :
            i \in 1 .. Len(d) \/ \E k \in 1 .. Len(c) : i = Len(d) + k
  BY <1>3, <1>8, ConcatFacts
<1> HIDE DEF e
<1>13. ASSUME NEW i \in 1 .. Len(e)
       PROVE  /\ e[i].role # "tool"
              /\ \/ e[i] = state
                 \/ \E k \in 1 .. Len(list) : /\ e[i] = list[k]
                                              /\ list[k] \in Instructions(list) \cup Input(list)
  <2>1. \/ \E k \in 1 .. Len(a) : e[i] = a[k]
        \/ e[i] = state
        \/ \E k \in 1 .. Len(c) : e[i] = c[k]
    <3>1. CASE i \in 1 .. Len(a)
      <4>1. i \in 1 .. Len(d)
        BY <3>1, <1>8
      <4> QED BY <3>1, <4>1, <1>8, <1>12
    <3>2. CASE i = Len(a) + 1
      <4>1. i \in 1 .. Len(d)
        BY <3>2, <1>8
      <4> QED BY <3>2, <4>1, <1>8, <1>12
    <3>3. CASE i \notin 1 .. Len(d)
      <4>1. PICK k \in 1 .. Len(c) : i = Len(d) + k
        BY <3>3, <1>12
      <4> QED BY <4>1, <1>12
    <3> QED BY <3>1, <3>2, <3>3, <1>8
  <2>2. CASE e[i] = state
    BY <2>2 DEF IsState
  <2>3. ASSUME NEW k \in 1 .. Len(list), e[i] = list[k], list[k] \in Instructions(list) \cup Input(list)
        PROVE  e[i].role # "tool"
    BY <2>3, <1>2
  <2>4. ASSUME NEW k \in 1 .. Len(a), e[i] = a[k]
        PROVE  \E l \in 1 .. Len(list) : /\ e[i] = list[l]
                                         /\ list[l] \in Instructions(list) \cup Input(list)
    <3>1. PICK l \in 1 .. Len(list) : a[k] = list[l] /\ list[l] \in Instructions(list)
      BY <1>5
    <3> QED BY <3>1, <2>4
  <2>5. ASSUME NEW k \in 1 .. Len(c), e[i] = c[k]
        PROVE  \E l \in 1 .. Len(list) : /\ e[i] = list[l]
                                         /\ list[l] \in Instructions(list) \cup Input(list)
    <3>1. PICK l \in 1 .. Len(list) : c[k] = list[l] /\ list[l] \in Input(list)
      BY <1>5
    <3> QED BY <3>1, <2>5
  <2>6. \/ e[i] = state
        \/ \E k \in 1 .. Len(list) : /\ e[i] = list[k]
                                      /\ list[k] \in Instructions(list) \cup Input(list)
    BY <2>1, <2>4, <2>5
  <2>7. e[i].role # "tool"
    BY <2>2, <2>3, <2>6
  <2> QED BY <2>6, <2>7
<1>14. ASSUME NEW k \in 1 .. Len(list), list[k] \in Instructions(list) \cup Input(list)
       PROVE  \E i \in 1 .. Len(e) : e[i] = list[k]
  <2>1. CASE list[k] \in Instructions(list)
    <3>1. PICK i \in 1 .. Len(a) : a[i] = list[k]
      BY <2>1, <1>5
    <3>2. i \in 1 .. Len(d) /\ i \in 1 .. Len(e)
      BY <1>8, <1>12
    <3> QED BY <3>1, <3>2, <1>8, <1>12
  <2>2. CASE list[k] \in Input(list)
    <3>1. PICK i \in 1 .. Len(c) : c[i] = list[k]
      BY <2>2, <1>5
    <3>2. Len(d) + i \in 1 .. Len(e) /\ e[Len(d) + i] = c[i]
      BY <1>8, <1>12
    <3> QED BY <3>1, <3>2
  <2> QED BY <2>1, <2>2, <1>14
<1>15. Mandatory(list, state) = e
  BY DEF Mandatory, a, b, c, d, e
<1> QED BY <1>11, <1>13, <1>14, <1>15

(* What has to stay is there, and of the rest what is newer than anything  *)
(* that is there.                                                          *)
Keeps(list, out) ==
  /\ \A k \in 1 .. Len(list) :
       list[k] \in Instructions(list) \cup Input(list) => \E i \in 1 .. Len(out) : out[i] = list[k]
  /\ \A i, j \in 1 .. Len(Rest(list)) :
       (i < j /\ \E a \in 1 .. Len(out) : out[a] = Rest(list)[i]) =>
         \E a, b \in 1 .. Len(out) : a < b /\ out[a] = Rest(list)[i] /\ out[b] = Rest(list)[j]

LEMMA CompactedFacts ==
  ASSUME NEW list, Sound(list), NEW n \in Nat, Under(list, n), NEW state, IsState(state, n)
  PROVE  /\ Sound(Compacted(list, state)) /\ Under(Compacted(list, state), n + 1)
         /\ Keeps(list, Compacted(list, state))
<1> DEFINE out  == Instructions(list) \cup Input(list)
           rest == Rest(list)
           m    == Mandatory(list, state)
           kept == Kept(rest, m)
           c    == m \o kept
<1>1. list \in Lists /\ Elements(list) = {list[i] : i \in 1 .. Len(list)}
  BY DEF Sound, Lists, Elements
<1>2. Sound(rest)
  BY RestIsSound
<1>3. \A i \in 1 .. Len(rest) : \E k \in 1 .. Len(list) : rest[i] = list[k] /\ list[k] \notin out
  <2>1. list \in Seq(MessageRecords)
    BY <1>1 DEF Lists
  <2> QED BY <2>1, SelectedElements DEF Rest
<1>4. /\ m \in Lists /\ Distinct(m)
      /\ \A i \in 1 .. Len(m) : /\ m[i].role # "tool"
                                /\ \/ m[i] = state
                                   \/ \E k \in 1 .. Len(list) : m[i] = list[k] /\ list[k] \in out
      /\ \A k \in 1 .. Len(list) : list[k] \in out => \E i \in 1 .. Len(m) : m[i] = list[k]
  BY MandatoryFacts
<1> HIDE DEF out, rest, m
<1>5. \A k \in 1 .. Len(list) : list[k].id \in Nat /\ list[k].id <= n /\ list[k].id # state.id
  <2>1. \A k \in 1 .. Len(list) : list[k] \in MessageRecords
    BY <1>1 DEF Lists
  <2>2. \A k \in 1 .. Len(list) : list[k].id \in Nat /\ list[k].id <= n
    BY <2>1 DEF Under, MessageRecords
  <2> QED BY <2>2 DEF IsState
(* A message of the rest is none of the others. *)
<1>6. \A i \in 1 .. Len(m), j \in 1 .. Len(rest) : m[i].id # rest[j].id
  <2> SUFFICES ASSUME NEW i \in 1 .. Len(m), NEW j \in 1 .. Len(rest), m[i].id = rest[j].id
               PROVE  FALSE
    OBVIOUS
  <2>1. PICK k \in 1 .. Len(list) : rest[j] = list[k] /\ list[k] \notin out
    BY <1>3
  <2>2. PICK l \in 1 .. Len(list) : m[i] = list[l] /\ list[l] \in out
    BY <1>4, <1>5, <2>1
  <2> QED BY <2>1, <2>2 DEF Sound, Distinct
<1>7. /\ Sound(kept)
      /\ \A i \in 1 .. Len(kept) : \E k \in 1 .. Len(rest) : kept[i] = rest[k]
      /\ \A i \in 1 .. Len(kept), k, l \in 1 .. Len(rest) :
           kept[i] = rest[k] /\ k < l => \E j \in 1 .. Len(kept) : i < j /\ kept[j] = rest[l]
  <2>1. CASE rest = <<>>
    <3>1. kept = <<>>
      BY <2>1 DEF Kept
    <3>2. Len(kept) = 0 /\ kept \in Lists
      BY <3>1 DEF Lists
    <3> QED BY <3>2 DEF Sound, Distinct, CallsWhole
  <2>2. CASE rest # <<>>
    <3>1. PICK s \in Starts(rest) : kept = From(rest, s)
      BY <2>2, <1>2, KeptIsATail DEF Sound
    <3>2. Sound(kept)
      BY <3>1, <1>2, FromIsSound
    <3> HIDE DEF kept
    <3>3. rest \in Lists /\ s \in 1 .. Len(rest) /\ Len(rest) \in Nat
      BY <1>2 DEF Sound, Lists, Starts
    <3>4. Len(kept) = Len(rest) - s + 1 /\ \A k \in 1 .. Len(kept) : kept[k] = rest[s + k - 1]
      BY <3>1, <3>3, FromFacts
    <3>5. ASSUME NEW i \in 1 .. Len(kept)
          PROVE  s + i - 1 \in 1 .. Len(rest) /\ kept[i] = rest[s + i - 1]
      <4>1. i <= Len(rest) - s + 1 /\ i >= 1
        BY <3>3, <3>4
      <4> QED BY <4>1, <3>3, <3>4
    <3>6. ASSUME NEW i \in 1 .. Len(kept), NEW k \in 1 .. Len(rest), NEW l \in 1 .. Len(rest),
                 kept[i] = rest[k], k < l
          PROVE  \E j \in 1 .. Len(kept) : i < j /\ kept[j] = rest[l]
      <4>1. k = s + i - 1
        BY <3>5, <3>6, <1>2 DEF Sound, Distinct
      <4>2. l - s + 1 \in 1 .. Len(kept) /\ i < l - s + 1 /\ s + (l - s + 1) - 1 = l
        BY <4>1, <3>3, <3>4, <3>6
      <4> QED BY <4>2, <3>5
    <3> QED BY <3>2, <3>5, <3>6
  <2> QED BY <2>1, <2>2
<1> HIDE DEF kept
<1>8. kept \in Lists /\ Distinct(kept) /\ CallsWhole(kept)
  BY <1>7 DEF Sound
<1>9. /\ c \in Lists /\ Len(c) = Len(m) + Len(kept) /\ Len(m) \in Nat /\ Len(kept) \in Nat
      /\ \A i \in 1 .. Len(m) : c[i] = m[i]
      /\ \A i \in 1 .. Len(kept) : c[Len(m) + i] = kept[i]
      /\ \A i \in 1 .. Len(m) + Len(kept) :
           i \in 1 .. Len(m) \/ \E k \in 1 .. Len(kept) : i = Len(m) + k
  BY <1>4, <1>8, ConcatFacts
<1>10. Sound(c)
  <2>1. \A i \in 1 .. Len(m), j \in 1 .. Len(kept) : m[i].id # kept[j].id
    BY <1>6, <1>7
  <2>2. Distinct(c)
    BY <2>1, <1>4, <1>8, ConcatIsDistinct
  <2>3. CallsWhole(c)
    BY <1>4, <1>8, ConcatIsWhole
  <2> QED BY <2>2, <2>3, <1>9 DEF Sound
<1> HIDE DEF c
<1>11. Under(c, n + 1)
  <2>1. ASSUME NEW i \in 1 .. Len(c) PROVE c[i].id <= n + 1
    <3>1. c[i] = state \/ \E k \in 1 .. Len(list) : c[i] = list[k]
      <4>1. CASE i \in 1 .. Len(m)
        BY SMTT(30), <4>1, <1>4, <1>9
      <4>2. ASSUME NEW k \in 1 .. Len(kept), i = Len(m) + k
            PROVE  \E l \in 1 .. Len(list) : c[i] = list[l]
        BY <4>2, <1>3, <1>7, <1>9
      <4> QED BY <4>1, <4>2, <1>9
    <3>2. CASE c[i] = state
      BY <3>2 DEF IsState
    <3>3. ASSUME NEW k \in 1 .. Len(list), c[i] = list[k] PROVE c[i].id <= n + 1
      BY <3>3, <1>5
    <3> QED BY <3>1, <3>2, <3>3
  <2> QED BY <2>1 DEF Under
<1>12. ASSUME NEW k \in 1 .. Len(list), list[k] \in out
       PROVE  \E i \in 1 .. Len(c) : c[i] = list[k]
  <2>1. PICK i \in 1 .. Len(m) : m[i] = list[k]
    BY <1>4, <1>12
  <2> QED BY <2>1, <1>9
<1>13. ASSUME NEW i \in 1 .. Len(rest), NEW j \in 1 .. Len(rest), i < j,
              NEW a \in 1 .. Len(c), c[a] = rest[i]
       PROVE  \E x, y \in 1 .. Len(c) : x < y /\ c[x] = rest[i] /\ c[y] = rest[j]
  <2>1. a \notin 1 .. Len(m)
    BY <1>13, <1>6, <1>9
  <2>2. PICK k \in 1 .. Len(kept) : a = Len(m) + k
    BY <2>1, <1>9
  <2>3. PICK l \in 1 .. Len(kept) : k < l /\ kept[l] = rest[j]
    BY <2>2, <1>7, <1>9, <1>13
  <2>4. Len(m) + l \in 1 .. Len(c) /\ c[Len(m) + l] = rest[j] /\ a < Len(m) + l
    BY <2>2, <2>3, <1>9
  <2> QED BY <2>4, <1>13
<1>14. Compacted(list, state) = c
  BY DEF Compacted, c, m, kept, rest
<1>15. \A i, j \in 1 .. Len(rest) :
         (i < j /\ \E a \in 1 .. Len(c) : c[a] = rest[i])
           => \E a, b \in 1 .. Len(c) : a < b /\ c[a] = rest[i] /\ c[b] = rest[j]
  BY <1>13
<1>16. Keeps(list, c)
  BY <1>12, <1>15 DEF Keeps, out, rest
<1> QED BY <1>10, <1>11, <1>14, <1>16

-----------------------------------------------------------------------------
(* The loop, for any limit, sizes and number of messages.                  *)
(*                                                                         *)
(* While results are awaited, the list ends with their call and those that *)
(* came; so a request is made of whole calls only.                         *)
Awaiting ==
  awaited > 0 =>
    \E j \in 1 .. Len(messages) :
      /\ messages[j].role = "assistant"
      /\ \A i \in 1 .. Len(messages) :
           messages[i].role = "assistant" => messages[i].id <= messages[j].id
      /\ \A q \in j + 1 .. Len(messages) :
           messages[q].role = "tool" /\ messages[q].of = messages[j].id

(* The message with this id is the last one of the user's in the list. *)
Latest(list, id) ==
  \E i \in 1 .. Len(list) :
    /\ list[i].id = id /\ list[i].role = "user"
    /\ \A j \in 1 .. Len(list) : list[j].role = "user" => j <= i

(* What the user said last is, until a compacted list takes its place. *)
InputStands ==
  /\ input \in [id : Nat, intact : BOOLEAN]
  /\ input.id # 0 /\ input.intact => Latest(messages, input.id)

HistoryInv ==
  /\ said \in Nat /\ awaited \in 0 .. 2
  /\ Sound(messages) /\ Under(messages, said)
  /\ Awaiting /\ InputStands
  /\ RequestKeepsTheTask

(* Something is said. *)
LEMMA SayFacts ==
  ASSUME HistoryInv, NEW size \in Sizes, NEW role \in {"user", "assistant", "tool"}, NEW of \in Nat,
         Say(Message(said + 1, role, size, of))
  PROVE  /\ messages' \in Lists /\ Distinct(messages') /\ Under(messages', said') /\ said' = said + 1
         /\ Len(messages') = Len(messages) + 1 /\ Len(messages) \in Nat
         /\ \A i \in 1 .. Len(messages) : messages'[i] = messages[i]
         /\ messages'[Len(messages) + 1].role = role
         /\ messages'[Len(messages) + 1].of = of
         /\ messages'[Len(messages) + 1].id = said + 1
         /\ \A i \in 1 .. Len(messages) : messages[i].id <= said /\ messages[i].id \in Nat
<1> DEFINE w == Message(said + 1, role, size, of)
           n == Len(messages)
<1>1. messages \in Lists /\ n \in Nat /\ said \in Nat /\ size \in Nat
  BY HistoryAssumption DEF HistoryInv, Sound, Lists
<1>2. w \in MessageRecords /\ w.id = said + 1 /\ w.role = role /\ w.of = of
  BY <1>1 DEF Message, MessageRecords
<1>3. messages' = Append(messages, w) /\ said' = said + 1
  BY DEF Say
<1> HIDE DEF w
<1>4. /\ messages' \in Lists /\ Len(messages') = n + 1
      /\ \A i \in 1 .. n : messages'[i] = messages[i]
      /\ messages'[n + 1] = w
  BY <1>1, <1>2, <1>3, AppendProperties DEF Lists
<1>5. \A i \in 1 .. n : messages[i].id <= said /\ messages[i].id \in Nat
  <2>1. \A i \in 1 .. n : messages[i] \in MessageRecords
    BY <1>1 DEF Lists
  <2> QED BY <2>1 DEF HistoryInv, Under, MessageRecords
<1> HIDE DEF n
<1>6. Distinct(messages')
  <2> SUFFICES ASSUME NEW i \in 1 .. n + 1, NEW j \in 1 .. n + 1, messages'[i].id = messages'[j].id
               PROVE  i = j
    BY <1>4 DEF Distinct
  <2>1. CASE i \in 1 .. n /\ j \in 1 .. n
    BY <2>1, <1>4 DEF HistoryInv, Sound, Distinct, n
  <2>2. CASE i \in 1 .. n /\ j = n + 1
    BY <2>2, <1>1, <1>2, <1>4, <1>5
  <2>3. CASE i = n + 1 /\ j \in 1 .. n
    BY <2>3, <1>1, <1>2, <1>4, <1>5
  <2> QED BY <2>1, <2>2, <2>3, <1>1
<1>7. Under(messages', said')
  <2>1. ASSUME NEW i \in 1 .. n + 1 PROVE messages'[i].id <= said + 1
    <3>1. CASE i \in 1 .. n
      BY <3>1, <1>1, <1>4, <1>5
    <3>2. CASE i = n + 1
      BY <3>2, <1>1, <1>2, <1>4
    <3> QED BY <3>1, <3>2, <1>1
  <2> QED BY <2>1, <1>3, <1>4 DEF Under
<1> QED BY <1>1, <1>2, <1>3, <1>4, <1>5, <1>6, <1>7 DEF n

LEMMA WholeBefore ==
  ASSUME HistoryInv, NEW size \in Sizes, NEW role \in {"user", "assistant", "tool"}, NEW of \in Nat,
         Say(Message(said + 1, role, size, of)),
         NEW p \in 1 .. Len(messages), messages'[p].role = "tool"
  PROVE  \E j \in 1 .. p - 1 : CalledAt(messages', j, p)
<1>1. /\ Len(messages) \in Nat
      /\ \A i \in 1 .. Len(messages) : messages'[i] = messages[i]
  BY SayFacts
<1>2. PICK j \in 1 .. p - 1 : CalledAt(messages, j, p)
  BY <1>1 DEF HistoryInv, Sound, CallsWhole
<1>3. \A q \in j .. p : messages'[q] = messages[q]
  BY <1>1
<1>4. j \in j .. p /\ p \in j .. p /\ \A q \in j + 1 .. p : q \in j .. p
  OBVIOUS
<1>5. CalledAt(messages', j, p)
  BY <1>2, <1>3, <1>4 DEF CalledAt
<1> QED BY <1>5

(* It still is when the model or a tool says something, *)
LEMMA LatestStays ==
  ASSUME NEW list, NEW longer, Len(list) \in Nat, Len(longer) = Len(list) + 1,
         \A i \in 1 .. Len(list) : longer[i] = list[i],
         longer[Len(list) + 1].role # "user", NEW id, Latest(list, id)
  PROVE  Latest(longer, id)
<1> DEFINE n == Len(list)
<1>1. PICK i \in 1 .. n : /\ list[i].id = id /\ list[i].role = "user"
                          /\ \A j \in 1 .. n : list[j].role = "user" => j <= i
  BY DEF Latest
<1>2. i \in 1 .. n + 1 /\ longer[i] = list[i]
  OBVIOUS
<1>3. ASSUME NEW j \in 1 .. n + 1, longer[j].role = "user" PROVE j <= i
  <2>1. j \in 1 .. n
    BY <1>3
  <2> QED BY <2>1, <1>1, <1>3
<1> QED BY <1>1, <1>2, <1>3 DEF Latest

(* or when long results become references; and a request keeps it. *)
LEMMA LatestIsSpilled ==
  ASSUME NEW list \in Lists, NEW id, Latest(list, id)
  PROVE  Latest(Spill(list), id)
BY SpillKeeps DEF Latest

LEMMA LatestIsKept ==
  ASSUME NEW list, Sound(list), NEW id, Latest(list, id), NEW out, Sound(out), Keeps(list, out)
  PROVE  Has(out, id)
<1>1. DOMAIN list = 1 .. Len(list) /\ DOMAIN out = 1 .. Len(out)
  BY DEF Sound, Lists
<1>2. PICK i \in 1 .. Len(list) :
        /\ list[i].id = id /\ list[i].role = "user"
        /\ \A j \in 1 .. Len(list) : list[j].role = "user" => j <= i
  BY DEF Latest
<1>3. list[i] \in Input(list)
  BY <1>1, <1>2 DEF Input, Newest, Users
<1>4. PICK k \in 1 .. Len(out) : out[k] = list[i]
  BY <1>3 DEF Keeps
<1> QED BY <1>1, <1>2, <1>4 DEF Has

LEMMA SameRequest ==
  ASSUME HistoryInv, UNCHANGED <<given, sent, asked>>
  PROVE  RequestKeepsTheTask'
BY DEF HistoryInv, RequestKeepsTheTask

LEMMA HearKeeps ==
  ASSUME HistoryInv, Hear
  PROVE  HistoryInv'
<1>1. PICK size \in Sizes : Say(Message(said + 1, "user", size, 0))
  BY DEF Hear
<1> DEFINE n == Len(messages)
<1>2. /\ messages' \in Lists /\ Distinct(messages') /\ Under(messages', said') /\ said' = said + 1
      /\ Len(messages') = n + 1 /\ n \in Nat
      /\ messages'[n + 1].role = "user" /\ messages'[n + 1].id = said + 1
  BY <1>1, SayFacts
<1>3. CallsWhole(messages')
  <2> SUFFICES ASSUME NEW p \in 1 .. n + 1, messages'[p].role = "tool"
               PROVE  \E j \in 1 .. p - 1 : CalledAt(messages', j, p)
    BY <1>2 DEF CallsWhole
  <2>1. p \in 1 .. n
    BY <1>2
  <2> QED BY <2>1, <1>1, WholeBefore
<1>4. awaited = 0 /\ awaited' = 0 /\ UNCHANGED <<given, sent, asked>>
      /\ input' = [id |-> said + 1, intact |-> TRUE]
  BY DEF Hear
<1>5. RequestKeepsTheTask'
  BY <1>4, SameRequest
<1>6. Awaiting'
  BY <1>4 DEF Awaiting
<1>7. said' \in Nat /\ said + 1 \in Nat
  BY <1>2 DEF HistoryInv
<1>8. InputStands'
  <2> HIDE DEF n
  <2>1. Latest(messages', said + 1)
    BY <1>2 DEF Latest
  <2> QED BY <2>1, <1>4, <1>7 DEF InputStands
<1> QED BY <1>2, <1>3, <1>4, <1>5, <1>6, <1>7, <1>8 DEF HistoryInv, Sound

LEMMA ReplyKeeps ==
  ASSUME HistoryInv, Reply
  PROVE  HistoryInv'
<1>1. PICK size \in Sizes : Say(Message(said + 1, "assistant", size, 0))
  BY DEF Reply
<1> DEFINE n == Len(messages)
<1>2. /\ messages' \in Lists /\ Distinct(messages') /\ Under(messages', said') /\ said' = said + 1
      /\ Len(messages') = n + 1 /\ n \in Nat
      /\ \A i \in 1 .. n : messages'[i] = messages[i]
      /\ messages'[n + 1].role = "assistant" /\ messages'[n + 1].id = said + 1
      /\ \A i \in 1 .. n : messages[i].id <= said /\ messages[i].id \in Nat
  BY <1>1, SayFacts
<1>3. CallsWhole(messages')
  <2> SUFFICES ASSUME NEW p \in 1 .. n + 1, messages'[p].role = "tool"
               PROVE  \E j \in 1 .. p - 1 : CalledAt(messages', j, p)
    BY <1>2 DEF CallsWhole
  <2>1. p \in 1 .. n
    BY <1>2
  <2> QED BY <2>1, <1>1, WholeBefore
<1>4. awaited' \in 0 .. 2 /\ UNCHANGED <<given, sent, asked>> /\ input' = input
  BY DEF Reply
<1>5. RequestKeepsTheTask'
  BY <1>4, SameRequest
<1>6. Awaiting'
  <2> HIDE DEF n
  <2>1. n + 1 \in 1 .. Len(messages') /\ n + 1 + 1 .. Len(messages') = {}
    BY <1>2
  <2>2. said \in Nat
    BY DEF HistoryInv
  <2>3. ASSUME NEW i \in 1 .. Len(messages') PROVE messages'[i].id <= messages'[n + 1].id
    <3>1. CASE i \in 1 .. n
      BY <3>1, <1>2, <2>2 DEF n
    <3>2. CASE i = n + 1
      BY <3>2, <1>2, <2>2 DEF n
    <3> QED BY <3>1, <3>2, <1>2
  <2> QED BY <2>1, <2>3, <1>2 DEF Awaiting
<1>7. said' \in Nat
  BY <1>2 DEF HistoryInv
<1>8. InputStands'
  <2>1. input.id # 0 /\ input.intact => Latest(messages', input.id)
    BY <1>2, LatestStays DEF HistoryInv, InputStands
  <2> QED BY <2>1, <1>4 DEF HistoryInv, InputStands
<1> QED BY <1>2, <1>3, <1>4, <1>5, <1>6, <1>7, <1>8 DEF HistoryInv, Sound

LEMMA ToolReturnsKeeps ==
  ASSUME HistoryInv, ToolReturns
  PROVE  HistoryInv'
<1> DEFINE n == Len(messages)
<1>1. /\ awaited > 0 /\ awaited' = awaited - 1 /\ UNCHANGED <<given, sent, asked>> /\ input' = input
      /\ awaited \in 0 .. 2 /\ said \in Nat /\ messages \in Lists
  BY DEF ToolReturns, HistoryInv, Sound
<1>2. PICK j \in 1 .. n :
        /\ messages[j].role = "assistant"
        /\ \A i \in 1 .. n : messages[i].role = "assistant" => messages[i].id <= messages[j].id
        /\ \A q \in j + 1 .. n : messages[q].role = "tool" /\ messages[q].of = messages[j].id
  BY <1>1 DEF HistoryInv, Awaiting
<1>3. Elements(messages) = {messages[i] : i \in 1 .. n}
  BY <1>1 DEF Elements, Lists
<1>4. \A i \in 1 .. n : messages[i].id \in Nat
  <2>1. \A i \in 1 .. n : messages[i] \in MessageRecords
    BY <1>1 DEF Lists
  <2> QED BY <2>1 DEF MessageRecords
(* The last call is the caller. *)
<1>5. Caller.id = messages[j].id
  <2> DEFINE Last(m) == /\ m \in Elements(messages) /\ m.role = "assistant"
                        /\ \A x \in Elements(messages) : x.role = "assistant" => x.id <= m.id
  <2>1. Last(messages[j])
    BY <1>2, <1>3
  <2>2. Caller = CHOOSE m \in Elements(messages) :
                   /\ m.role = "assistant"
                   /\ \A x \in Elements(messages) : x.role = "assistant" => x.id <= m.id
    BY DEF Caller
  <2>3. Last(Caller)
    BY <2>1, <2>2
  <2>4. PICK i \in 1 .. n : Caller = messages[i]
    BY <2>3, <1>3
  <2>5. messages[i].id <= messages[j].id /\ messages[j].id <= messages[i].id
    BY <2>1, <2>3, <2>4
  <2> QED BY <2>4, <2>5, <1>4
<1>6. PICK size \in Sizes : Say(Message(said + 1, "tool", size, messages[j].id))
  BY <1>5 DEF ToolReturns
<1>7. /\ messages' \in Lists /\ Distinct(messages') /\ Under(messages', said') /\ said' = said + 1
      /\ Len(messages') = n + 1 /\ n \in Nat
      /\ \A i \in 1 .. n : messages'[i] = messages[i]
      /\ messages'[n + 1].role = "tool" /\ messages'[n + 1].of = messages[j].id
  BY <1>4, <1>6, SayFacts
<1> HIDE DEF n
<1>8. /\ j \in 1 .. n /\ messages'[j] = messages[j]
      /\ \A q \in j + 1 .. n + 1 : messages'[q].role = "tool" /\ messages'[q].of = messages[j].id
  <2>1. ASSUME NEW q \in j + 1 .. n + 1
        PROVE  messages'[q].role = "tool" /\ messages'[q].of = messages[j].id
    <3>1. CASE q = n + 1
      BY <3>1, <1>7
    <3>2. CASE q # n + 1
      <4>1. q \in j + 1 .. n /\ q \in 1 .. n
        BY <3>2, <1>7
      <4> QED BY <4>1, <1>2, <1>7
    <3> QED BY <3>1, <3>2
  <2> QED BY <2>1, <1>7
<1>9. CallsWhole(messages')
  <2> SUFFICES ASSUME NEW p \in 1 .. n + 1, messages'[p].role = "tool"
               PROVE  \E k \in 1 .. p - 1 : CalledAt(messages', k, p)
    BY <1>7 DEF CallsWhole
  <2>1. CASE p \in 1 .. n
    BY <2>1, <1>4, <1>6, WholeBefore DEF n
  <2>2. CASE p = n + 1
    <3>1. CalledAt(messages', j, n + 1)
      BY <1>2, <1>7, <1>8 DEF CalledAt
    <3>2. j \in 1 .. p - 1
      BY <2>2, <1>7
    <3> QED BY <3>1, <3>2, <2>2
  <2> QED BY <2>1, <2>2, <1>7
<1>10. Awaiting'
  <2>1. ASSUME NEW i \in 1 .. n + 1, messages'[i].role = "assistant"
        PROVE  messages'[i].id <= messages'[j].id
    <3>1. i \in 1 .. n
      BY <2>1, <1>7
    <3> QED BY <3>1, <2>1, <1>2, <1>7, <1>8
  <2>2. j \in 1 .. n + 1
    BY <1>7
  <2> QED BY <2>1, <2>2, <1>2, <1>7, <1>8 DEF Awaiting
<1>11. awaited' \in 0 .. 2 /\ said' \in Nat
  BY <1>1, <1>7
<1>12. RequestKeepsTheTask'
  BY <1>1, SameRequest
<1>13. InputStands'
  <2>1. input.id # 0 /\ input.intact => Latest(messages', input.id)
    BY <1>7, LatestStays DEF HistoryInv, InputStands, n
  <2> QED BY <2>1, <1>1 DEF HistoryInv, InputStands
<1> QED BY <1>7, <1>9, <1>10, <1>11, <1>12, <1>13 DEF HistoryInv, Sound

(* A list that keeps what it has to makes such a request. *)
LEMMA TaskKept ==
  ASSUME NEW list, Sound(list), NEW out, Sound(out), Fits(out), Keeps(list, out),
         given' = list, sent' = out,
         asked'.id # 0 /\ asked'.intact => Latest(list, asked'.id)
  PROVE  RequestKeepsTheTask'
<1>1. /\ DOMAIN list = 1 .. Len(list) /\ DOMAIN out = 1 .. Len(out) /\ Len(out) \in Nat
      /\ DOMAIN Rest(list) = 1 .. Len(Rest(list))
  BY RestIsSound DEF Sound, Lists
<1>2. Elements(out) = {out[i] : i \in 1 .. Len(out)}
  BY <1>1 DEF Elements
<1>3. ASSUME NEW i \in DOMAIN list, list[i].role = "system"
      PROVE  list[i] \in Elements(out)
  <2>1. list[i] \in Instructions(list) \cup Input(list)
    BY <1>3 DEF Instructions, Elements
  <2>2. \E k \in 1 .. Len(out) : out[k] = list[i]
    BY <2>1, <1>1 DEF Keeps
  <2> QED BY <2>2, <1>2
<1>4. \A i \in DOMAIN out : out[i].role = "tool" =>
        /\ i > 1 /\ CallOf(out[i - 1]) = out[i].of
        /\ \E j \in 1 .. i - 1 : out[j].id = out[i].of
  BY <1>1, WholeCalls DEF Sound
<1>5. ASSUME NEW i \in DOMAIN Rest(list), NEW j \in DOMAIN Rest(list), i < j,
             Rest(list)[i] \in Elements(out)
      PROVE  Ordered(Rest(list)[i], Rest(list)[j], out)
  <2>1. i \in 1 .. Len(Rest(list)) /\ j \in 1 .. Len(Rest(list))
    BY <1>1
  <2>2. \E a \in 1 .. Len(out) : out[a] = Rest(list)[i]
    BY <1>2, <1>5
  <2>3. \E a, b \in 1 .. Len(out) : a < b /\ out[a] = Rest(list)[i] /\ out[b] = Rest(list)[j]
    BY <2>1, <2>2, <1>5 DEF Keeps
  <2> QED BY <2>3, <1>1 DEF Ordered
<1>6. /\ \A i \in DOMAIN list : list[i].role = "system" => list[i] \in Elements(out)
      /\ asked'.id # 0 /\ asked'.intact => Has(out, asked'.id)
      /\ \A i, j \in DOMAIN Rest(list) :
           LET r == Rest(list) IN i < j /\ r[i] \in Elements(out) => Ordered(r[i], r[j], out)
  BY <1>3, <1>5, LatestIsKept
<1> QED BY <1>4, <1>6 DEF RequestKeepsTheTask

LEMMA CompactKeeps ==
  ASSUME HistoryInv, Compact
  PROVE  HistoryInv'
<1> DEFINE list   == Spill(messages)
           state  == Message(said + 1, "user", StateSize, 0)
           result == Compacted(list, state)
<1>1. /\ awaited = 0 /\ awaited' = 0 /\ given' = list
      /\ \/ Fits(list) /\ sent' = list /\ said' = said
         \/ ~Fits(list) /\ sent' = (IF Fits(result) THEN result ELSE <<>>) /\ said' = said + 1
      /\ messages' \in {messages, sent'} \ {<<>>}
      /\ asked' = input /\ input' = [input EXCEPT !.intact = @ /\ messages' \in {messages, list}]
  BY DEF Compact, HistoryInv
<1>2. Sound(messages) /\ said \in Nat /\ Under(messages, said)
  BY DEF HistoryInv
<1>3. Sound(list) /\ Under(list, said)
  BY <1>2, SpillIsSound, SpillKeeps DEF Sound, Under
<1>4. IsState(state, said)
  BY <1>2, HistoryAssumption DEF Message, IsState, MessageRecords
<1>10. input.id # 0 /\ input.intact => Latest(messages, input.id) /\ Latest(list, input.id)
  BY <1>2, LatestIsSpilled DEF HistoryInv, InputStands, Sound
<1>11. asked'.id # 0 /\ asked'.intact => Latest(list, asked'.id)
  BY <1>1, <1>10
<1> HIDE DEF list, state
<1>12. InputStands'
  <2>1. /\ input' \in [id : Nat, intact : BOOLEAN] /\ input'.id = input.id
        /\ input'.intact => input.intact /\ messages' \in {messages, list}
    BY <1>1 DEF HistoryInv, InputStands
  <2> QED BY <2>1, <1>10 DEF InputStands
<1>5. Sound(result) /\ Under(result, said + 1) /\ Keeps(list, result)
  BY <1>2, <1>3, <1>4, CompactedFacts
<1> HIDE DEF result
<1>6. Awaiting'
  BY <1>1 DEF Awaiting
<1>7. \A i \in 1 .. Len(messages) : messages[i].id \in Nat /\ messages[i].id <= said + 1
  <2>1. \A i \in 1 .. Len(messages) : messages[i] \in MessageRecords
    BY <1>2 DEF Sound, Lists
  <2> QED BY <2>1, <1>2 DEF Under, MessageRecords
<1>8. CASE Fits(list) /\ sent' = list /\ said' = said
  <2>1. Sound(messages') /\ Under(messages', said')
    BY <1>8, <1>1, <1>2, <1>3
  <2>2. \A i, j \in 1 .. Len(Rest(list)) : i < j =>
          \E a, b \in 1 .. Len(list) : a < b /\ list[a] = Rest(list)[i] /\ list[b] = Rest(list)[j]
    <3>1. list \in Seq(MessageRecords)
      BY <1>3 DEF Sound, Lists
    <3> QED BY <3>1, SelectedOrder DEF Rest
  <2>3. Keeps(list, list)
    BY <2>2 DEF Keeps
  <2>4. RequestKeepsTheTask'
    BY <1>1, <1>3, <1>8, <1>11, <2>3, TaskKept
  <2> QED BY <2>1, <2>4, <1>1, <1>2, <1>6, <1>8, <1>12 DEF HistoryInv
<1>9. CASE ~Fits(list) /\ sent' = (IF Fits(result) THEN result ELSE <<>>) /\ said' = said + 1
  <2>1. Sound(messages') /\ Under(messages', said')
    <3>1. CASE messages' = messages
      BY <3>1, <1>2, <1>7, <1>9 DEF Under
    <3>2. CASE messages' = sent' /\ sent' # <<>>
      BY <3>2, <1>5, <1>9
    <3> QED BY <3>1, <3>2, <1>1
  <2>2. RequestKeepsTheTask'
    <3>1. CASE Fits(result)
      BY <3>1, <1>1, <1>3, <1>5, <1>9, <1>11, TaskKept
    <3>2. CASE ~Fits(result)
      BY <3>2, <1>9 DEF RequestKeepsTheTask
    <3> QED BY <3>1, <3>2
  <2>3. said' \in Nat /\ awaited' \in 0 .. 2
    BY <1>1, <1>2, <1>9
  <2> QED BY <2>1, <2>2, <2>3, <1>6, <1>12 DEF HistoryInv
<1> QED BY <1>1, <1>8, <1>9

(* The invariant of the history: calls stand whole before their results,   *)
(* and what the user said last stands last until a compacted list takes    *)
(* the list's place (compact_to_budget).                                   *)
THEOREM HistoryInvHolds == HistorySpec => []HistoryInv
<1>1. HistoryInit => HistoryInv
  <2> SUFFICES ASSUME HistoryInit PROVE HistoryInv
    OBVIOUS
  <2>1. /\ messages = <<System>> /\ awaited = 0 /\ sent = <<>> /\ said = 1
        /\ System \in MessageRecords /\ System.id = 1 /\ System.role = "system"
    BY DEF HistoryInit, System, Message, MessageRecords
  <2>2. messages \in Lists /\ Len(messages) = 1 /\ messages[1] = System
    BY <2>1 DEF Lists
  <2>3. Sound(messages) /\ Under(messages, said)
    BY <2>1, <2>2 DEF Sound, Distinct, CallsWhole, Under
  <2>4. Awaiting /\ RequestKeepsTheTask /\ InputStands
    BY <2>1 DEF Awaiting, RequestKeepsTheTask, InputStands, HistoryInit, NoInput
  <2> QED BY <2>1, <2>3, <2>4 DEF HistoryInv
<1>2. HistoryInv /\ [HistoryNext]_historyVars => HistoryInv'
  <2> SUFFICES ASSUME HistoryInv, [HistoryNext]_historyVars PROVE HistoryInv'
    OBVIOUS
  <2>1. CASE UNCHANGED historyVars
    BY <2>1, SameRequest DEF historyVars, HistoryInv, Awaiting, InputStands
  <2> QED BY <2>1, HearKeeps, ReplyKeeps, ToolReturnsKeeps, CompactKeeps DEF HistoryNext
<1> QED BY <1>1, <1>2, PTL DEF HistorySpec

(* A request fits, has the instructions, holds a call exactly with its     *)
(* results and right before them, and has what the user said last while    *)
(* the loop works on the list it was said in (context.py,                  *)
(* compact_to_budget).                                                     *)
THEOREM RequestKeepsTheTaskHolds == HistorySpec => []RequestKeepsTheTask
<1>1. HistoryInv => RequestKeepsTheTask
  BY DEF HistoryInv
<1> QED BY <1>1, HistoryInvHolds, PTL
===============================================================================
