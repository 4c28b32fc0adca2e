---------------------------- MODULE WorkflowSteps ----------------------------
(***************************************************************************)
(* Orchestrations whose progress is stored, so that a later call goes on   *)
(* where an earlier one stopped (src/lightworker/loop_modes.py): the fixed *)
(* steps of workflow_run, and the programs of run_code, which the          *)
(* container replays with the results so far (ptc_eval in                  *)
(* sandbox_helper.py).                                                     *)
(*                                                                         *)
(* One workflow and one program, each with the same ordered tool calls.    *)
(* Calls of workflow_run may overlap.  Calls of run_code may not here: two *)
(* that overlap both find the program pending and run its tools twice.     *)
(***************************************************************************)
EXTENDS Naturals, FiniteSets

CONSTANTS
  Callers,      \* overlapping calls of workflow_run
  Length,       \* the number of tool calls
  ReadOnly,     \* those that only read
  MaxRestarts   \* bound: restarts of the process

ASSUME StepsAssumption == Length \in Nat

Steps == 1 .. Length

VARIABLES
  flow,      \* the workflow in workflow-state.json
  caller,    \* calls of workflow_run, with their copy of the workflow
  program,   \* the program in code-state.json
  runner,    \* the call of run_code
  effects,   \* tool runs that may have changed something (history)
  left,      \* why the last tool leaves its step running, if it does (history)
  restarts

stepVars == <<flow, caller, program, runner, effects, left, restarts>>

-----------------------------------------------------------------------------
NoCaller == [stage |-> "none", step |-> 1, done |-> {}]
NoRunner == [stage |-> "none", results |-> 0]

StepsInit ==
  /\ flow = [done |-> {}, running |-> 0]
  /\ caller = [c \in Callers |-> NoCaller]
  /\ program = [status |-> "pending", results |-> 0]
  /\ runner = NoRunner
  /\ effects = [kind \in {"flow", "program"} |-> [s \in Steps |-> 0]]
  /\ left = [flow |-> "nothing", program |-> "nothing"] /\ restarts = 0

(* What a tool call comes to: a value, {"ok": false} of the tool, or of    *)
(* the gate, which refuses (a budget, a hold, a rejected approval) or asks *)
(* for approval and in either case runs nothing, or an exception.          *)
Outcomes == {"ok", "failed", "refused", "approval", "raised"}

Ran(kind, s, outcome) ==
  effects' = [effects EXCEPT ![kind][s] =
                IF outcome \in {"refused", "approval"} \/ s \in ReadOnly THEN @ ELSE @ + 1]

(* "unsure": the tool may have done something; "died": its process did. *)
Causes == {"nothing", "unsure", "refused", "died"}

-----------------------------------------------------------------------------
(* workflow_run *)

OfFlow == <<program, runner, restarts>>

Call(c) ==
  /\ caller[c].stage = "none"
  /\ caller' = [caller EXCEPT ![c] = [stage |-> "next", step |-> 1, done |-> flow.done]]
  /\ UNCHANGED <<flow, effects, left, OfFlow>>

Skip(c) ==
  /\ caller[c].stage = "next" /\ caller[c].step \in caller[c].done
  /\ caller' = [caller EXCEPT ![c].step = @ + 1]
  /\ UNCHANGED <<flow, effects, left, OfFlow>>

(* Any step but those that are done is taken (faulty). *)
ClaimAnyway(c) ==
  LET s == caller[c].step IN
  /\ caller[c].stage = "next" /\ s \in Steps \ caller[c].done
  /\ IF s \in flow.done
     THEN caller' = [caller EXCEPT ![c].done = flow.done, ![c].step = @ + 1] /\ UNCHANGED flow
     ELSE /\ flow' = [flow EXCEPT !.running = s]
          /\ caller' = [caller EXCEPT ![c].stage = "tool", ![c].done = flow.done]
  /\ UNCHANGED <<effects, left, OfFlow>>

(* The transaction before a step: a step that is running is refused, since *)
(* nobody knows what it has done.                                          *)
ClaimStep(c) ==
  LET s == caller[c].step IN
  /\ caller[c].stage = "next" /\ s \in Steps \ caller[c].done
  /\ CASE s \in flow.done ->
            caller' = [caller EXCEPT ![c].done = flow.done, ![c].step = @ + 1] /\ UNCHANGED flow
       [] s \notin flow.done /\ flow.running # 0 ->
            caller' = [caller EXCEPT ![c] = NoCaller] /\ UNCHANGED flow
       [] OTHER ->
            /\ flow' = [flow EXCEPT !.running = s]
            /\ caller' = [caller EXCEPT ![c].stage = "tool", ![c].done = flow.done]
  /\ UNCHANGED <<effects, left, OfFlow>>

(* The tool's answer ends the call, or is to be stored.  A write that says *)
(* {"ok": false} stays running, whoever said it.                           *)
ToolAnswers(c) ==
  LET s == caller[c].step IN
  /\ caller[c].stage = "tool"
  /\ \E outcome \in Outcomes :
       /\ Ran("flow", s, outcome)
       /\ left' = [left EXCEPT !.flow =
            CASE outcome = "raised"                         -> "unsure"
              [] outcome = "failed" /\ s \notin ReadOnly    -> "unsure"
              [] outcome = "refused" /\ s \notin ReadOnly   -> "refused"
              [] OTHER                                      -> "nothing"]
       /\ caller' = [caller EXCEPT
            ![c] = CASE outcome = "ok"     -> [@ EXCEPT !.stage = "complete"]
                     [] outcome = "raised" -> NoCaller
                     [] outcome \in {"failed", "refused"} /\ s \notin ReadOnly -> NoCaller
                     [] OTHER              -> [@ EXCEPT !.stage = "free"]]
  /\ UNCHANGED <<flow, OfFlow>>

(* Only a read that failed may be tried again (faulty). *)
FreeReads(c) ==
  /\ caller[c].stage = "free"
  /\ flow' = [flow EXCEPT !.running = IF caller[c].step \in ReadOnly THEN 0 ELSE @]
  /\ caller' = [caller EXCEPT ![c] = NoCaller]
  /\ UNCHANGED <<effects, left, OfFlow>>

(* A step that waits for approval may be tried again, and a read that      *)
(* failed or was refused.                                                  *)
Free(c) ==
  /\ caller[c].stage = "free"
  /\ flow' = [flow EXCEPT !.running = 0]
  /\ caller' = [caller EXCEPT ![c] = NoCaller]
  /\ UNCHANGED <<effects, left, OfFlow>>

(* The caller's copy of the workflow is stored. *)
Complete(c) ==
  LET done == caller[c].done \cup {caller[c].step} IN
  /\ caller[c].stage = "complete"
  /\ flow' = [done |-> done, running |-> 0]
  /\ caller' = [caller EXCEPT ![c] = [stage |-> "next", step |-> @.step + 1, done |-> done]]
  /\ UNCHANGED <<effects, left, OfFlow>>

FinishFlow(c) ==
  /\ caller[c].stage = "next" /\ caller[c].step > Length
  /\ caller' = [caller EXCEPT ![c] = NoCaller]
  /\ UNCHANGED <<flow, effects, left, OfFlow>>

-----------------------------------------------------------------------------
(* run_code *)

OfProgram == <<flow, caller, restarts>>

(* A program that was left running is run again (faulty). *)
Runs == program.status # "completed"

Runnable == program.status \in {"pending", "awaiting"}

Run ==
  /\ runner.stage = "none" /\ Runnable
  /\ runner' = [stage |-> "eval", results |-> program.results]
  /\ UNCHANGED <<program, effects, left, OfProgram>>

(* ptc_eval replays the calls that have results and stops at the next one, *)
(* or ends; it may fail.                                                   *)
Eval ==
  /\ runner.stage = "eval"
  /\ \/ runner' = NoRunner /\ UNCHANGED program
     \/ /\ runner.results < Length
        /\ program' = [status |-> "running", results |-> runner.results]
        /\ runner' = [runner EXCEPT !.stage = "tool"]
     \/ /\ runner.results = Length
        /\ program' = [status |-> "completed", results |-> runner.results]
        /\ runner' = NoRunner
  /\ UNCHANGED <<effects, left, OfProgram>>

Subcall ==
  /\ runner.stage = "tool"
  /\ \E outcome \in Outcomes :
       /\ Ran("program", runner.results + 1, outcome)
       /\ left' = [left EXCEPT !.program = IF outcome = "raised" THEN "unsure" ELSE "nothing"]
       /\ runner' = CASE outcome = "raised"   -> NoRunner
                      [] outcome = "approval" -> [runner EXCEPT !.stage = "awaiting"]
                      [] OTHER                -> [stage |-> "pending", results |-> runner.results + 1]
  /\ UNCHANGED <<program, OfProgram>>

(* A call that failed or was refused counts as one that has its result.    *)
Checkpoint ==
  /\ runner.stage \in {"awaiting", "pending"}
  /\ program' = [status |-> runner.stage, results |-> runner.results]
  /\ runner' = IF runner.stage = "awaiting" THEN NoRunner ELSE [runner EXCEPT !.stage = "eval"]
  /\ UNCHANGED <<effects, left, OfProgram>>

(* The process dies, perhaps just after a tool did its work: what a call   *)
(* had not stored is gone.                                                 *)
Cut(kind, s) ==
  s \notin ReadOnly /\
    \/ kind = "flow" /\ \E c \in Callers : caller[c].stage = "tool" /\ caller[c].step = s
    \/ kind = "program" /\ runner.stage = "tool" /\ runner.results + 1 = s

Restart ==
  /\ restarts < MaxRestarts /\ restarts' = restarts + 1
  /\ effects' = [kind \in DOMAIN effects |->
                   [s \in Steps |-> effects[kind][s] + IF Cut(kind, s) THEN 1 ELSE 0]]
  /\ caller' = [c \in Callers |-> NoCaller] /\ runner' = NoRunner
  /\ left' = [flow    |-> IF \E c \in Callers : caller[c].stage \in {"tool", "free", "complete"}
                          THEN "died" ELSE left.flow,
              program |-> IF runner.stage \in {"tool", "awaiting", "pending"}
                          THEN "died" ELSE left.program]
  /\ UNCHANGED <<flow, program>>

-----------------------------------------------------------------------------
StepsNext ==
  \/ \E c \in Callers : \/ Call(c) \/ Skip(c) \/ ClaimStep(c) \/ ToolAnswers(c) \/ Free(c)
                        \/ Complete(c) \/ FinishFlow(c)
  \/ Run \/ Eval \/ Subcall \/ Checkpoint \/ Restart

StepsSpec == StepsInit /\ [][StepsNext]_stepVars

-----------------------------------------------------------------------------
(* A tool call of an orchestration that may change something runs once,    *)
(* however often the orchestration is called, side by side or after a      *)
(* crash: "不重复执行已经完成的子调用", and what may have run is not        *)
(* replayed (docs/lightworker_next_runtime.zh-CN.md:67).                   *)
NeverRepeated ==
  \A kind \in DOMAIN effects : \A s \in Steps : effects[kind][s] <= 1

(* A step runs only when all steps before it are done. *)
StepsInOrder ==
  /\ \A s \in flow.done : 1 .. s \subseteq flow.done
  /\ \A s \in Steps : effects.flow[s] > 0 => 1 .. s - 1 \subseteq flow.done

(* An orchestration that nobody works on refuses to go on only if its last *)
(* tool raised or failed and may have done something, its process died     *)
(* before the outcome was stored, or the gate refused a step that writes;  *)
(* never because one waits for approval or a read went wrong.              *)
RefusesForCause ==
  /\ flow.running # 0 /\ (\A c \in Callers : caller[c].stage \in {"none", "next"})
       => left.flow # "nothing"
  /\ program.status = "running" /\ runner.stage = "none" => left.program \in {"unsure", "died"}

(* What a resumable orchestration promises, taken together. *)
ResumesSafely == NeverRepeated /\ StepsInOrder /\ RefusesForCause
=============================================================================
