----------------------------- MODULE CodingFlow ------------------------------
(***************************************************************************)
(* The fixed workflow (_build_flow and _finalize in                        *)
(* src/lightworker/workflow.py): a plan, its execution behind an approval  *)
(* by risk, verifications with repairs in between, and a review.           *)
(*                                                                         *)
(* LightFlow, which runs the steps and stores their outcomes, is external: *)
(* it runs them in order, stops at one that fails or waits for approval,   *)
(* resumes behind the last success, and reruns a step with all after it.   *)
(* The steps that lead to the plan are part of it.                         *)
(***************************************************************************)
EXTENDS Naturals

CONSTANTS
  WaysToCheck,     \* "configured", "needed" (none, for code) or "not_needed"
  FlowRepairs,     \* max_repairs of the task
  FlowEdits,       \* bound: changes of the workspace
  FlowActivations  \* bound: activations after the first

ASSUME CodingFlowAssumption == FlowRepairs \in Nat

(* 1: plan; 2: execute; then verify_0, repair_1, verify_1, ...; review.    *)
Plan        == 1
Execute     == 2
VerifyAt(n) == 3 + 2 * n
Review      == VerifyAt(FlowRepairs) + 1
Steps       == Plan .. Review
Verifies    == {VerifyAt(n) : n \in 0 .. FlowRepairs}
Repairs     == {VerifyAt(n) - 1 : n \in 1 .. FlowRepairs}

VARIABLES
  checks,      \* how the task is verified
  flow,        \* the stored status of each step
  plan,        \* the plan: none, for answers only, of high risk or ordinary
  granted,     \* the user's decision on the execution
  toolRequest, \* an exact tool approval: none, pending, decided
  edits,       \* changes made
  found,       \* what each verification found, and of how many changes
  review,      \* the review is valid
  at,          \* the step that runs, 0 for _finalize, or none
  flowRecord,  \* the run's status
  flowRuns     \* activations after the first

flowVars == <<checks, flow, plan, granted, toolRequest, edits, found, review, at,
              flowRecord, flowRuns>>

-----------------------------------------------------------------------------
NotFound == [outcome |-> "none", edits |-> 0]
NoStep   == Review + 1

FlowInit ==
  /\ checks \in WaysToCheck
  /\ flow = [s \in Steps |-> "none"] /\ plan = "none" /\ granted = "none"
  /\ toolRequest = "none" /\ edits = 0 /\ found = [s \in Verifies |-> NotFound]
  /\ review = FALSE /\ at = Plan /\ flowRecord = "active" /\ flowRuns = 0

Done(s, status) == flow' = [flow EXCEPT ![s] = status]
Goes(s)         == at' = IF s = Review THEN 0 ELSE s + 1

(* A step that fails ends the flow, whatever it is. *)
Fail ==
  /\ at \in Steps /\ (at = Execute => granted = "approved" \/ plan = "ordinary")
  /\ Done(at, "failed") /\ at' = 0
  /\ UNCHANGED <<checks, plan, granted, toolRequest, edits, found, review, flowRecord, flowRuns>>

(* StructuredOutputAgent: a plan that cannot be read may pass as none. *)
MakePlan ==
  /\ at = Plan
  /\ plan' \in {"none", "answer", "high", "ordinary"}
  /\ Done(Plan, "success") /\ Goes(Plan)
  /\ UNCHANGED <<checks, granted, toolRequest, edits, found, review, flowRecord, flowRuns>>

(* A plan that nobody could read has no risk (faulty). *)
RiskUnread == CASE plan = "answer" -> "reject" [] plan = "high" -> "pending" [] OTHER -> "go"

(* _approve_edit_by_risk *)
Risk == CASE plan = "answer" -> "reject" [] plan = "ordinary" -> "go" [] OTHER -> "pending"

Refuse ==
  /\ at = Execute /\ (granted = "rejected" \/ Risk = "reject")
  /\ Done(Execute, "failed") /\ at' = 0
  /\ UNCHANGED <<checks, plan, granted, toolRequest, edits, found, review, flowRecord, flowRuns>>

Wait ==
  /\ at = Execute /\ granted = "none" /\ Risk = "pending"
  /\ Done(Execute, "waiting") /\ at' = 0
  /\ UNCHANGED <<checks, plan, granted, toolRequest, edits, found, review, flowRecord, flowRuns>>

AgentWorks ==
  \/ at = Execute /\ (granted = "approved" \/ (granted = "none" /\ Risk = "go"))
  \/ at \in Repairs

(* The verification was not configured, or passed. *)
Skip(s) == found[s].outcome \in {"none", "passed"}

Edit ==
  /\ AgentWorks /\ edits < FlowEdits /\ (at \in Repairs => ~Skip(at - 1))
  /\ edits' = edits + 1
  /\ UNCHANGED <<checks, flow, plan, granted, toolRequest, found, review, at, flowRecord, flowRuns>>

(* _FlowToolApprovalAgent: a step whose tool asks for approval fails. *)
Ask ==
  /\ AgentWorks /\ toolRequest = "none" /\ (at \in Repairs => ~Skip(at - 1))
  /\ toolRequest' = "pending" /\ Done(at, "failed") /\ at' = 0
  /\ UNCHANGED <<checks, plan, granted, edits, found, review, flowRecord, flowRuns>>

(* _ConditionalStep: a repair that is skipped succeeds at once. *)
Worked ==
  /\ AgentWorks /\ Done(at, "success") /\ Goes(at)
  /\ UNCHANGED <<checks, plan, granted, toolRequest, edits, found, review, flowRecord, flowRuns>>

(* A skipped verification repeats what was found before it. *)
Check ==
  /\ at \in Verifies
  /\ IF at # VerifyAt(0) /\ Skip(at - 2)
     THEN found' = [found EXCEPT ![at] = found[at - 2]]
     ELSE \E o \in IF checks = "configured" THEN {"passed", "failed"} ELSE {"none"} :
            found' = [found EXCEPT ![at] = [outcome |-> o, edits |-> edits]]
  /\ Done(at, "success") /\ Goes(at)
  /\ UNCHANGED <<checks, plan, granted, toolRequest, edits, review, flowRecord, flowRuns>>

Reviewed ==
  /\ at = Review
  /\ review' \in BOOLEAN /\ Done(Review, "success") /\ Goes(Review)
  /\ UNCHANGED <<checks, plan, granted, toolRequest, edits, found, flowRecord, flowRuns>>

-----------------------------------------------------------------------------
Succeeded == {s \in Verifies : flow[s] = "success"}

(* _latest_verification *)
LatestFound ==
  IF Succeeded = {} THEN "none"
  ELSE found[CHOOSE s \in Succeeded : \A t \in Succeeded : t <= s].outcome

(* A verification that ran counts as one that passed (faulty). *)
NeverChecked == LatestFound = "none" /\ checks # "not_needed"

Unchecked ==
  LatestFound = "failed" \/ (LatestFound = "none" /\ checks # "not_needed")

(* What _execute and _finalize make of the flow's result. *)
Verdict ==
  CASE toolRequest = "pending"                                  -> "waiting"
    [] toolRequest # "pending" /\ flow[Execute] = "waiting"     -> "attention"
    [] OTHER ->
         IF plan = "answer" THEN "succeeded"
         ELSE IF \E s \in Steps : flow[s] = "failed" THEN "failed"
         ELSE IF edits = 0 \/ ~review \/ Unchecked THEN "attention"
         ELSE "succeeded"

Finalize ==
  /\ at = 0
  /\ flowRecord' = Verdict /\ at' = NoStep
  /\ UNCHANGED <<checks, flow, plan, granted, toolRequest, edits, found, review, flowRuns>>

(* Raised by a step's own plumbing, or the process died. *)
Cut ==
  /\ at # NoStep /\ at' = NoStep
  /\ flowRecord' \in {"failed", "interrupted"}
  /\ UNCHANGED <<checks, flow, plan, granted, toolRequest, edits, found, review, flowRuns>>

-----------------------------------------------------------------------------
(* LightFlow *)

Activate(s) ==
  /\ at = NoStep /\ flowRuns < FlowActivations /\ flowRuns' = flowRuns + 1
  /\ at' = s /\ flowRecord' = "active"
  /\ flow' = [t \in Steps |-> IF t >= s THEN "none" ELSE flow[t]]
  /\ UNCHANGED <<checks, plan, edits, found, review>>

FirstOpen(s) ==
  \/ flow[s] # "success" /\ \A t \in Steps : t < s => flow[t] = "success"
  \/ s = Review /\ \A t \in Steps : flow[t] = "success"

ResumeFlow ==
  /\ flowRecord \in {"failed", "interrupted", "attention"}
  /\ \E s \in Steps : FirstOpen(s) /\ Activate(s)
  /\ UNCHANGED <<granted, toolRequest>>

(* decide_approval, of the execution or of an exact tool call. *)
Approve ==
  \/ /\ flow[Execute] = "waiting" /\ granted = "none" /\ flowRecord = "attention"
     /\ granted' \in {"approved", "rejected"} /\ Activate(Execute)
     /\ UNCHANGED toolRequest
  \/ /\ flowRecord = "waiting" /\ toolRequest = "pending" /\ toolRequest' = "decided"
     /\ \E s \in Steps : flow[s] = "failed" /\ Activate(s)
     /\ UNCHANGED granted

RerunFlow ==
  /\ flow[VerifyAt(0)] # "none" /\ flowRecord # "active"
  /\ Activate(VerifyAt(0))
  /\ UNCHANGED <<granted, toolRequest>>

-----------------------------------------------------------------------------
FlowNext ==
  \/ Fail \/ MakePlan \/ Refuse \/ Wait \/ Edit \/ Ask \/ Worked \/ Check \/ Reviewed
  \/ Finalize \/ Cut \/ ResumeFlow \/ Approve \/ RerunFlow

FlowSpec == FlowInit /\ [][FlowNext]_flowVars

-----------------------------------------------------------------------------
(* The workspace is changed only under a plan that was read and found to   *)
(* be of ordinary risk, or with the user's approval, through resumes,      *)
(* reruns and approvals of single tool calls.                              *)
EditsAreApproved == edits > 0 => plan = "ordinary" \/ granted = "approved"

(* A change of code that succeeds has passed its verification as it is:    *)
(* no repair came after the verification that counts.                      *)
SuccessIsChecked ==
  flowRecord = "succeeded" /\ plan # "answer" /\ checks # "not_needed" =>
    \E s \in Verifies : found[s] = [outcome |-> "passed", edits |-> edits]

(* Both, for every way the flow of a task goes. *)
FlowIsSound == EditsAreApproved /\ SuccessIsChecked
=============================================================================
