------------------------------ MODULE Subagents ------------------------------
(***************************************************************************)
(* Delegated children (SubagentManager in src/lightworker/subagents.py) and *)
(* the slots for model requests (resources.py).                            *)
(*                                                                         *)
(* delegate_tasks runs one agent per task on threads of its own and waits  *)
(* for all of them; an agent above the depth limit may delegate again.     *)
(* All agents, the supervisor's too, share one semaphore that is held      *)
(* around a request to the provider and never while tools run.  The tree   *)
(* of agents is stored; the calls and their threads go with the process.   *)
(* Children of the other kind (ContinuableAgents) share the cap.           *)
(***************************************************************************)
EXTENDS Naturals, Sequences, FiniteSets

CONSTANTS
  MaxChildren,   \* tasks of one call
  MaxDepth,      \* levels of children
  TreeCap,       \* the cap of the agent tree, continuable children included
  ModelSlots,    \* model requests at a time
  MaxRequests,   \* bound: requests of one agent's run (max_tool_iterations)
  MaxCalls,      \* bound: calls of one activation
  MaxDeaths      \* bound: deaths of the process

ASSUME SubagentsAssumption ==
  MaxChildren \in Nat /\ MaxDepth \in Nat /\ TreeCap \in Nat

VARIABLES
  tree,          \* agent-tree.json
  continuable,   \* the children in agents.json
  workers,       \* threads: the supervisor's, then one for each task
  calls,         \* calls of delegate_task and delegate_tasks
  deaths

treeVars == <<tree, continuable, workers, calls, deaths>>

-----------------------------------------------------------------------------
(* "again": the second run, without tools; "store": before _finish_node.   *)
TreeStages == {"start", "run", "request", "tools", "again", "lastRequest", "store", "over"}

Supervisor == 1
NewSupervisor ==
  <<[stage |-> "run", call |-> 0, depth |-> 0, node |-> 0, requests |-> 0, ok |-> FALSE]>>

TreeInit ==
  /\ tree = <<>> /\ continuable = 0 /\ workers = NewSupervisor /\ calls = <<>>
  /\ deaths = 0

At(a, stage)        == workers[a].stage = stage
GotoStage(a, stage) == workers' = [workers EXCEPT ![a].stage = stage]
AgentsOf(c)         == {a \in DOMAIN workers : workers[a].call = c}

-----------------------------------------------------------------------------
(* The cap counts delegated children only (faulty). *)
TreeFull == Len(tree) >= TreeCap

Full == Len(tree) + continuable >= TreeCap

(* delegate_tasks: one thread for each task. *)
Delegate(a, tasks) ==
  /\ workers[a].stage \in {"run", "tools"} /\ workers[a].requests > 0
  /\ workers[a].depth < MaxDepth /\ Len(calls) < MaxCalls
  /\ calls' = Append(calls, [caller |-> a, open |-> TRUE, ok |-> FALSE])
  /\ workers' = [workers EXCEPT ![a].stage = "tools"] \o
       [i \in 1 .. tasks |-> [stage |-> "start", call |-> Len(calls) + 1, node |-> 0,
                              depth |-> workers[a].depth + 1, requests |-> 0, ok |-> FALSE]]
  /\ UNCHANGED <<tree, continuable, deaths>>

(* _add_node: over the cap the task fails at once, without a node. *)
AddNode(a) ==
  /\ At(a, "start")
  /\ \/ /\ Full /\ GotoStage(a, "over") /\ UNCHANGED tree
     \/ /\ ~Full
        /\ tree' = Append(tree, [parent |-> workers[calls[workers[a].call].caller].node,
                                 depth |-> workers[a].depth, status |-> "running"])
        /\ workers' = [workers EXCEPT ![a].stage = "run", ![a].node = Len(tree) + 1]
  /\ UNCHANGED <<continuable, calls, deaths>>

(* An agent keeps its slot from its first request to its end (faulty). *)
HoldsThroughout(a) ==
  workers[a].stage \in {"request", "lastRequest", "tools", "again"}
  \/ (At(a, "run") /\ workers[a].requests > 0)

(* _CompletionProxy: the slot is held for the request. *)
Holds(a) == workers[a].stage \in {"request", "lastRequest"}

SlotFree(a) == Cardinality({b \in DOMAIN workers \ {a} : Holds(b)}) < ModelSlots

Request(a) ==
  /\ SlotFree(a)
  /\ \/ At(a, "run") /\ workers[a].requests < MaxRequests /\ GotoStage(a, "request")
     \/ At(a, "again") /\ GotoStage(a, "lastRequest")
  /\ UNCHANGED <<tree, continuable, calls, deaths>>

(* How a run ends: an answer, none, or an exception, which is not given a  *)
(* second run.  The supervisor's end is TaskRun's.                         *)
Ends(a, outcome) ==
  workers' = [workers EXCEPT
    ![a].ok = outcome = "ok",
    ![a].stage = IF a = Supervisor THEN "over"
                 ELSE IF outcome = "invalid" THEN "again" ELSE "store"]

Reply(a) ==
  /\ At(a, "request")
  /\ \/ workers' = [workers EXCEPT ![a].stage = "run", ![a].requests = @ + 1]
     \/ \E outcome \in {"ok", "invalid", "raised"} : Ends(a, outcome)
  /\ UNCHANGED <<tree, continuable, calls, deaths>>

(* The iterations are used up. *)
Exhausted(a) ==
  /\ At(a, "run") /\ workers[a].requests >= MaxRequests
  /\ Ends(a, "invalid")
  /\ UNCHANGED <<tree, continuable, calls, deaths>>

(* The agent's tools have all returned. *)
ToolsReturn(a) ==
  /\ At(a, "tools") /\ \A c \in DOMAIN calls : calls[c].caller = a => ~calls[c].open
  /\ GotoStage(a, "run")
  /\ UNCHANGED <<tree, continuable, calls, deaths>>

(* _recover: what the second run answers, or raises. *)
RecoverEnds(a) ==
  /\ At(a, "lastRequest")
  /\ \E ok \in BOOLEAN : workers' = [workers EXCEPT ![a].stage = "store", ![a].ok = ok]
  /\ UNCHANGED <<tree, continuable, calls, deaths>>

(* A node that failed is left as it is (faulty). *)
FinishIfOk(a) ==
  /\ At(a, "store")
  /\ tree' = [tree EXCEPT ![workers[a].node].status =
                IF workers[a].ok THEN "completed" ELSE @]
  /\ GotoStage(a, "over")
  /\ UNCHANGED <<continuable, calls, deaths>>

FinishNode(a) ==
  /\ At(a, "store")
  /\ tree' = [tree EXCEPT ![workers[a].node].status =
                IF workers[a].ok THEN "completed" ELSE "failed"]
  /\ GotoStage(a, "over")
  /\ UNCHANGED <<continuable, calls, deaths>>

(* The call returns with the first result (faulty). *)
FirstIn(c) == \E a \in AgentsOf(c) : At(a, "over")

AllIn(c) == \A a \in AgentsOf(c) : At(a, "over")

CallReturns(c) ==
  /\ calls[c].open /\ AllIn(c)
  /\ calls' = [calls EXCEPT ![c].open = FALSE,
                            ![c].ok = \A a \in AgentsOf(c) : workers[a].ok]
  /\ UNCHANGED <<tree, continuable, workers, deaths>>

(* spawn_agent counts both kinds, as _add_node does. *)
SpawnOther ==
  /\ At(Supervisor, "run") /\ workers[Supervisor].requests > 0
  /\ Len(tree) + continuable < TreeCap
  /\ continuable' = continuable + 1
  /\ UNCHANGED <<tree, workers, calls, deaths>>

(* The process dies and the run is resumed: the nodes stay as they are. *)
ProcessDies ==
  /\ deaths < MaxDeaths /\ deaths' = deaths + 1
  /\ workers' = NewSupervisor /\ calls' = <<>>
  /\ UNCHANGED <<tree, continuable>>

-----------------------------------------------------------------------------
(* The threads; the supervisor's spawns others as well. *)
TreeThreads ==
  \/ \E a \in DOMAIN workers :
       \/ \E tasks \in 1 .. MaxChildren : Delegate(a, tasks)
       \/ AddNode(a) \/ Request(a) \/ Reply(a) \/ Exhausted(a) \/ ToolsReturn(a)
       \/ RecoverEnds(a) \/ FinishNode(a)
  \/ \E c \in DOMAIN calls : CallReturns(c)

TreeNext == TreeThreads \/ SpawnOther \/ ProcessDies

(* Requests to the provider end, with an answer or a time-out, and the     *)
(* number of them is bounded: some thread always moves on.                 *)
TreeSpec == TreeInit /\ [][TreeNext]_treeVars /\ WF_treeVars(TreeThreads)

-----------------------------------------------------------------------------
(* However many calls race, and whichever kind is started, a run never has *)
(* more children than its cap, and none is deeper than the limit.          *)
AgentsBounded ==
  /\ Len(tree) + continuable <= TreeCap
  /\ \A i \in DOMAIN tree : tree[i].depth <= MaxDepth

(* A call returns only when each of its tasks has its outcome in the tree, *)
(* and reports success only if all completed; tasks over the cap fail it.  *)
ReturnedIsSettled ==
  \A c \in DOMAIN calls : ~calls[c].open =>
    /\ \A a \in AgentsOf(c) : workers[a].node > 0 => tree[workers[a].node].status # "running"
    /\ calls[c].ok <=> \A a \in AgentsOf(c) :
                         workers[a].node > 0 /\ tree[workers[a].node].status = "completed"

(* Both, whatever is running. *)
ChildrenAreCounted == AgentsBounded /\ ReturnedIsSettled

(* A caller never waits for children that wait for the slot it holds: a    *)
(* call returns, though every agent shares the semaphore.                  *)
DelegationReturns ==
  (\E c \in DOMAIN calls : calls[c].open) ~> (\A c \in DOMAIN calls : ~calls[c].open)
=============================================================================
