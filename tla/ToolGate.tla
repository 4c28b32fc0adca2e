------------------------------ MODULE ToolGate -------------------------------
(***************************************************************************)
(* What stands between the agent of a run and what it wants to do: the     *)
(* runtime hook (make_runtime_hook in src/lightworker/policy.py), the gate *)
(* every tool call passes (ToolCatalog in tool_protocol.py), approvals     *)
(* (ApprovalBroker), control and steering (control.py) and the usage that  *)
(* is charged to the goal (goals.py, agentic.py).                          *)
(*                                                                         *)
(* The calls of one model answer run side by side.  An activation has a    *)
(* catalog of its own, which ends with its process; the rest is stored.    *)
(* Steering comes from the page at once or out of the conversation's queue *)
(* in two steps (guide_queued_message in web.py).                          *)
(***************************************************************************)
EXTENDS Naturals, Sequences, FiniteSets, Selections

CONSTANTS
  Calls,         \* calls one activation can make
  Works,         \* exact calls: a tool and its arguments
  ToolOf(_),     \* the tool of an exact call
  PolicyOf(_),   \* "never", "always" or "disabled", for these arguments
  MaxToolCalls, MaxRepeat,  \* limits of the catalog
  GoalCalls,     \* tool calls the goal's budget has
  Messages,      \* steering
  MaxActivations \* bound: activations

VARIABLES
  turn,          \* where the agent's loop is
  calls,         \* the calls of the activation
  catalog,       \* calls counted, in all and by exact call
  control,       \* the run's control state
  requests,      \* approvals asked for
  decisions,     \* decisions, by exact call
  steering,      \* the stored steering, in order
  taken,         \* messages taken from the queue, not yet stored
  sending,       \* steering that a model request carries
  heard,         \* steering that the model was sent
  lost,          \* messages that a dying process, or a request that failed,
                 \* took along (history)
  goal,          \* usage charged, calls made (history), and the page's copy
  activations

vars == <<turn, calls, catalog, control, requests, decisions, steering, taken,
          sending, heard, lost, goal, activations>>

-----------------------------------------------------------------------------
Stages  == {"idle", "hooked", "counted", "checked", "asks", "runs", "done"}
Turns   == {"idle", "checked", "request", "calls", "recorded", "over"}
Seen    == {"none", "approved", "rejected", "running"}

(* seen: the decisions and control states that stood during the call. *)
CallRecords == [stage : Stages, work : Works, number : Nat, repeat : Nat,
                ran : BOOLEAN, seen : SUBSET Seen]
NoCall == [stage |-> "idle", work |-> CHOOSE w \in Works : TRUE, number |-> 0,
           repeat |-> 0, ran |-> FALSE, seen |-> {}]
NoCatalog == [count |-> 0, repeats |-> [w \in Works |-> 0]]

GateTypes ==
  /\ turn \in Turns /\ calls \in [Calls -> CallRecords]
  /\ catalog \in [count : Nat, repeats : [Works -> Nat]]
  /\ control \in {"running", "paused", "cancelled"}
  /\ requests \in Seq([work : Works, status : {"pending", "approved", "rejected"}])
  /\ decisions \in [Works -> {"none", "approved", "rejected"}]
  /\ goal \in [used : Nat, made : Nat, page : Nat] /\ activations \in Nat

SteeringTypes ==
  /\ steering \in Seq([message : Messages, consumed : BOOLEAN])
  /\ taken \subseteq Messages /\ lost \subseteq Messages
  /\ sending \in Seq(Messages) /\ heard \in Seq(Messages)

TypeOK == GateTypes /\ SteeringTypes

Init ==
  /\ turn = "idle" /\ calls = [c \in Calls |-> NoCall] /\ catalog = NoCatalog
  /\ control = "running" /\ requests = <<>> /\ decisions = [w \in Works |-> "none"]
  /\ steering = <<>> /\ taken = {} /\ sending = <<>> /\ heard = <<>> /\ lost = {}
  /\ goal = [used |-> 0, made |-> 0, page |-> 0] /\ activations = 1

-----------------------------------------------------------------------------
(* The agent's loop *)

OverBudget == goal.used >= GoalCalls
Hook == control = "running" /\ ~OverBudget

(* A hook that blocks ends the agent's run. *)
CheckTurn ==
  /\ turn = "idle"
  /\ turn' = IF Hook THEN "checked" ELSE "over"
  /\ UNCHANGED <<calls, catalog, control, requests, decisions, steering, taken,
                 sending, heard, lost, goal, activations>>

Unheard == Selected(steering, [message : Messages, consumed : {FALSE}])

(* Only the message that came last is marked (faulty). *)
ConsumeLast ==
  /\ turn = "checked"
  /\ turn' = "request"
  /\ sending' = [i \in DOMAIN Unheard |-> Unheard[i].message]
  /\ steering' = [i \in DOMAIN steering |->
                    [steering[i] EXCEPT !.consumed = @ \/ i = Len(steering)]]
  /\ UNCHANGED <<calls, catalog, control, requests, decisions, taken, heard,
                 lost, goal, activations>>

(* consume_steering, in the hook before the request. *)
Consume ==
  /\ turn = "checked"
  /\ turn' = "request"
  /\ sending' = [i \in DOMAIN Unheard |-> Unheard[i].message]
  /\ steering' = [i \in DOMAIN steering |-> [steering[i] EXCEPT !.consumed = TRUE]]
  /\ UNCHANGED <<calls, catalog, control, requests, decisions, taken, heard,
                 lost, goal, activations>>

(* The model answers, with calls or for good. *)
Answer ==
  /\ turn = "request"
  /\ turn' \in {"calls", "over"}
  /\ heard' = heard \o sending /\ sending' = <<>>
  /\ UNCHANGED <<calls, catalog, control, requests, decisions, steering, taken,
                 lost, goal, activations>>

NextTurn ==
  /\ turn = "calls" /\ \A c \in Calls : calls[c].stage \in {"idle", "done"}
  /\ turn' = "idle"
  /\ UNCHANGED <<calls, catalog, control, requests, decisions, steering, taken,
                 sending, heard, lost, goal, activations>>

-----------------------------------------------------------------------------
(* One call *)

Step(c, stage) == calls' = [calls EXCEPT ![c].stage = stage]

OnlyCalls ==
  UNCHANGED <<turn, catalog, control, requests, decisions, steering, taken,
              sending, heard, lost, goal, activations>>

(* The hook before a tool call. *)
Begin(c, w) ==
  /\ turn = "calls" /\ calls[c].stage = "idle"
  /\ calls' = [calls EXCEPT ![c].stage = IF Hook THEN "hooked" ELSE "done", ![c].work = w]
  /\ OnlyCalls

(* A call is counted when it begins to run (faulty). *)
CountRuns(c) ==
  LET begun(S) == {d \in Calls : calls[d].ran /\ calls[d].work \in S} IN
  /\ calls[c].stage = "hooked"
  /\ calls' = [calls EXCEPT ![c].stage = "counted",
                            ![c].number = Cardinality(begun(Works)) + 1,
                            ![c].repeat = Cardinality(begun({calls[c].work})) + 1,
                            ![c].seen = {control, decisions[calls[c].work]} \cap Seen]
  /\ UNCHANGED <<turn, catalog, control, requests, decisions, steering, taken,
                 sending, heard, lost, goal, activations>>

(* Every call counts, the refused ones too. *)
Count(c) ==
  LET w == calls[c].work IN
  /\ calls[c].stage = "hooked"
  /\ catalog' = [count |-> catalog.count + 1,
                 repeats |-> [catalog.repeats EXCEPT ![w] = @ + 1]]
  /\ calls' = [calls EXCEPT ![c].stage = "counted", ![c].number = catalog.count + 1,
                            ![c].repeat = catalog.repeats[w] + 1,
                            ![c].seen = {control, decisions[w]} \cap Seen]
  /\ goal' = [goal EXCEPT !.made = @ + 1]
  /\ UNCHANGED <<turn, control, requests, decisions, steering, taken, sending,
                 heard, lost, activations>>

(* A call beyond a limit, of a stopped run or of a disabled tool is refused. *)
Check(c) ==
  LET policy == PolicyOf(calls[c].work) IN
  /\ calls[c].stage = "counted"
  /\ IF \/ calls[c].number > MaxToolCalls \/ calls[c].repeat > MaxRepeat
        \/ control # "running" \/ policy = "disabled"
     THEN Step(c, "done")
     ELSE IF policy = "always" THEN Step(c, "checked")
     ELSE calls' = [calls EXCEPT ![c].stage = "runs", ![c].ran = TRUE]
  /\ OnlyCalls

(* A decision on the tool stands for any arguments (faulty). *)
DecisionOnTool(w) ==
  IF \E v \in Works : ToolOf(v) = ToolOf(w) /\ decisions[v] # "none"
  THEN decisions[CHOOSE v \in Works : ToolOf(v) = ToolOf(w) /\ decisions[v] # "none"]
  ELSE "none"

Decision(w) == decisions[w]

ReadDecision(c) ==
  LET decision == Decision(calls[c].work) IN
  /\ calls[c].stage = "checked"
  /\ CASE decision = "rejected" -> Step(c, "done")
       [] decision = "none"     -> Step(c, "asks")
       [] OTHER                 -> calls' = [calls EXCEPT ![c].stage = "runs", ![c].ran = TRUE]
  /\ OnlyCalls

(* Only a request that waits is found again (faulty). *)
AskedPending(w) == \E i \in DOMAIN requests : requests[i] = [work |-> w, status |-> "pending"]

Asked(w) == \E i \in DOMAIN requests : requests[i].work = w

(* request: the call is refused for now; an exact call is asked for once. *)
Ask(c) ==
  /\ calls[c].stage = "asks"
  /\ requests' = IF Asked(calls[c].work) THEN requests
                 ELSE Append(requests, [work |-> calls[c].work, status |-> "pending"])
  /\ Step(c, "done")
  /\ UNCHANGED <<turn, catalog, control, decisions, steering, taken, sending,
                 heard, lost, goal, activations>>

(* The tool returns or raises. *)
End(c) == calls[c].stage = "runs" /\ Step(c, "done") /\ OnlyCalls

-----------------------------------------------------------------------------
(* The usage is charged when the agent returns, then what repairs add. *)

AddUsage(n) == [goal EXCEPT !.used = @ + n]

Record ==
  /\ turn = "over"
  /\ turn' = "recorded"
  /\ goal' = AddUsage(catalog.count)
  /\ UNCHANGED <<calls, catalog, control, requests, decisions, steering, taken,
                 sending, heard, lost, activations>>

(* What the catalog counted is charged once more (faulty). *)
RepairCharge == goal.used + catalog.count

Charge == IF goal.used < catalog.count THEN catalog.count ELSE goal.used

(* _verify_and_repair: the end of the activation; the next may begin. *)
Renew ==
  /\ calls' = [c \in Calls |-> NoCall] /\ catalog' = NoCatalog /\ turn' = "idle"
  /\ activations < MaxActivations /\ activations' = activations + 1

Repaired ==
  /\ turn = "recorded"
  /\ goal' = [goal EXCEPT !.used = Charge]
  /\ Renew
  /\ UNCHANGED <<control, requests, decisions, steering, taken, sending, heard, lost>>

(* A request fails once the hook has marked its steering: the provider     *)
(* raises, a later hook blocks or runs out of time.  The agent returns     *)
(* without an answer, or its exception ends the activation.                *)
RequestFails ==
  /\ turn = "request"
  /\ lost' = lost \cup {sending[i] : i \in DOMAIN sending}
  /\ sending' = <<>>
  /\ \/ turn' = "over" /\ UNCHANGED <<calls, catalog, activations>>
     \/ Renew
  /\ UNCHANGED <<control, requests, decisions, steering, taken, heard, goal>>

(* The process dies, with the page's requests and the agent's. *)
Crash ==
  /\ Renew
  /\ lost' = lost \cup taken \cup {sending[i] : i \in DOMAIN sending}
  /\ taken' = {} /\ sending' = <<>>
  /\ UNCHANGED <<control, requests, decisions, steering, heard, goal>>

-----------------------------------------------------------------------------
(* The page *)

SetControl(state) ==
  /\ control' = state
  /\ calls' = [c \in Calls |-> [calls[c] EXCEPT !.seen = @ \cup ({state} \cap Seen)]]
  /\ UNCHANGED <<turn, catalog, requests, decisions, steering, taken, sending,
                 heard, lost, goal, activations>>

(* decide: any request, decided before or not. *)
Decide(i, decision) ==
  LET w == requests[i].work IN
  /\ requests' = [requests EXCEPT ![i].status = decision]
  /\ decisions' = [decisions EXCEPT ![w] = decision]
  /\ calls' = [c \in Calls |-> IF calls[c].work = w
                               THEN [calls[c] EXCEPT !.seen = @ \cup {decision}] ELSE calls[c]]
  /\ UNCHANGED <<turn, catalog, control, steering, taken, sending, heard, lost,
                 goal, activations>>

New(m) == m \notin taken \cup lost /\ \A i \in DOMAIN steering : steering[i].message # m

Guide(m) ==
  /\ New(m)
  /\ taken' = taken \cup {m}
  /\ UNCHANGED <<turn, calls, catalog, control, requests, decisions, steering,
                 sending, heard, lost, goal, activations>>

AddSteering(m) ==
  /\ New(m) \/ m \in taken
  /\ steering' = Append(steering, [message |-> m, consumed |-> FALSE])
  /\ taken' = taken \ {m}
  /\ UNCHANGED <<turn, calls, catalog, control, requests, decisions, sending,
                 heard, lost, goal, activations>>

(* update_goal loads the goal and saves it later, usage and all. *)
PageLoads ==
  /\ goal' = [goal EXCEPT !.page = goal.used]
  /\ UNCHANGED <<turn, calls, catalog, control, requests, decisions, steering, taken,
                 sending, heard, lost, activations>>
PageSaves ==
  /\ goal' = [goal EXCEPT !.used = goal.page]
  /\ UNCHANGED <<turn, calls, catalog, control, requests, decisions, steering, taken,
                 sending, heard, lost, activations>>

-----------------------------------------------------------------------------
Next ==
  \/ CheckTurn \/ Consume \/ Answer \/ NextTurn \/ Record \/ Repaired
  \/ RequestFails \/ Crash
  \/ \E c \in Calls :
       \/ \E w \in Works : Begin(c, w)
       \/ Count(c) \/ Check(c) \/ ReadDecision(c) \/ Ask(c) \/ End(c)
  \/ \E state \in {"running", "paused", "cancelled"} : SetControl(state)
  \/ \E i \in DOMAIN requests, d \in {"approved", "rejected"} : Decide(i, d)
  \/ \E m \in Messages : Guide(m) \/ AddSteering(m)
  \/ PageLoads \/ PageSaves

Spec == Init /\ [][Next]_vars

-----------------------------------------------------------------------------
(* However many calls run side by side, an activation runs no more than    *)
(* its limit, and no exact call more often than the repeat limit.          *)
WithinLimits ==
  LET ran == {c \in Calls : calls[c].ran} IN
  /\ Cardinality(ran) <= MaxToolCalls
  /\ \A w \in Works : Cardinality({c \in ran : calls[c].work = w}) <= MaxRepeat

(* A call runs only if, at some moment of the call, the run was running    *)
(* and, where the policy asks for it, this exact call was approved: an     *)
(* approval of other arguments does not count (README.md, approvals).      *)
RunsOnlyIfAllowed ==
  \A c \in Calls : calls[c].ran =>
    /\ "running" \in calls[c].seen
    /\ PolicyOf(calls[c].work) = "always" => "approved" \in calls[c].seen
    /\ PolicyOf(calls[c].work) # "disabled"

(* An exact call is asked for once, whoever decides while it asks; the     *)
(* request shows the decision that counts.                                 *)
OneRequestPerCall ==
  /\ \A i, j \in DOMAIN requests : requests[i].work = requests[j].work => i = j
  /\ \A i \in DOMAIN requests :
       decisions[requests[i].work] =
         IF requests[i].status = "pending" THEN "none" ELSE requests[i].status

(* A steering message reaches the model once, in the order of the queue.   *)
(* It is marked as consumed before it is sent: what is marked has been     *)
(* sent, or went with a request that failed or with a process that died.   *)
SteeringReachesOnce ==
  LET gone == {i \in DOMAIN steering : steering[i].consumed}
      all  == heard \o sending
  IN /\ \A i, j \in DOMAIN all : all[i] = all[j] => i = j
     /\ \A i, j \in DOMAIN all, k, l \in DOMAIN steering :
          i < j /\ all[i] = steering[k].message /\ all[j] = steering[l].message => k < l
     /\ {steering[i].message : i \in gone} \ lost = {all[i] : i \in DOMAIN all} \ lost

(* The goal is never charged more calls than were made, over all           *)
(* activations, repairs and edits of the goal.                             *)
GoalNotOvercharged == goal.used <= goal.made /\ goal.page <= goal.made

(* What the gate keeps, whatever runs side by side. *)
GateIsSound ==
  WithinLimits /\ RunsOnlyIfAllowed /\ OneRequestPerCall /\ GoalNotOvercharged
=============================================================================
