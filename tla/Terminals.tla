------------------------------ MODULE Terminals ------------------------------
(***************************************************************************)
(* A terminal as a background job: the thread that drives it (_drive in    *)
(* src/lightworker/terminal.py) and what it drives in the container        *)
(* (terminal_start, terminal_poll and terminal_stop in sandbox_helper.py). *)
(*                                                                         *)
(* The job is its status and epoch, as FencedJobs specifies them; each     *)
(* claim has a thread and a terminal of its own, named by the epoch.  In   *)
(* the container a runner starts the program, writes its pid and, when it  *)
(* ends, creates the file `exit` and then writes the exit code to it.  A   *)
(* poll, which is a process of its own, reads the output, looks whether    *)
(* there is an `exit`, whether the runner is there if not, and what `exit` *)
(* says, in this order.                                                    *)
(* What terminal_send writes to the program is not modelled.               *)
(***************************************************************************)
EXTENDS Naturals

CONSTANTS
  MaxRead,    \* what one poll reads
  MaxOutput,  \* bound: what a program writes
  MaxEpoch,   \* bound: claims and control actions
  MaxFaults   \* bound: requests to the container that fail, and dead runners

ASSUME TerminalsAssumption == MaxRead \in Nat /\ MaxEpoch \in Nat

Epochs == 1 .. MaxEpoch

VARIABLES job, thread, terminal, faults

terminalVars == <<job, thread, terminal, faults>>

-----------------------------------------------------------------------------
(* thread: cursor, what the job's output has of it, whether the poll found *)
(* an exit, and its answer.                                                *)
(* terminal: spawning, a runner only; unlisted, the program runs and its   *)
(* pid is not written yet; ending, it has ended and `exit` is there, empty;*)
(* orphan, it runs with nobody to stop it; lost, the runner died.          *)
NoThread   == [stage |-> "none", cursor |-> 0, output |-> 0, exit |-> FALSE, ends |-> "no"]
NoTerminal == [state |-> "none", output |-> 0]

TerminalInit ==
  /\ job = [status |-> "pending", epoch |-> 0]
  /\ thread = [e \in Epochs |-> NoThread] /\ terminal = [e \in Epochs |-> NoTerminal]
  /\ faults = 0

Fenced(e)        == job.status = "running" /\ job.epoch = e
At(e, stage)     == thread[e].stage = stage
Goto(e, stage)   == thread' = [thread EXCEPT ![e].stage = stage]
Become(e, state) == terminal' = [terminal EXCEPT ![e].state = state]

-----------------------------------------------------------------------------
(* The registry *)

Claim ==
  /\ job.status = "pending" /\ job.epoch < MaxEpoch
  /\ job' = [status |-> "running", epoch |-> job.epoch + 1]
  /\ Goto(job.epoch + 1, "entry")
  /\ UNCHANGED <<terminal, faults>>

Control ==
  /\ job.epoch < MaxEpoch
  /\ \/ /\ job.status \in {"pending", "running", "paused", "interrupted"}
        /\ \E s \in {"paused", "cancelled"} : job' = [status |-> s, epoch |-> job.epoch + 1]
     \/ /\ job.status \in {"paused", "interrupted"}
        /\ job' = [status |-> "pending", epoch |-> job.epoch + 1]
  /\ UNCHANGED <<thread, terminal, faults>>

LeaseLost ==
  /\ job.status = "running" /\ job' = [job EXCEPT !.status = "interrupted"]
  /\ UNCHANGED <<thread, terminal, faults>>

-----------------------------------------------------------------------------
(* The thread *)

Enter(e) ==
  /\ At(e, "entry") /\ Goto(e, IF Fenced(e) THEN "start" ELSE "gone")
  /\ UNCHANGED <<job, terminal, faults>>

Start(e) ==
  /\ At(e, "start") /\ Goto(e, "check") /\ Become(e, "spawning")
  /\ UNCHANGED <<job, faults>>

CheckFence(e) ==
  /\ At(e, "check") /\ Goto(e, IF Fenced(e) THEN "read" ELSE "stop")
  /\ UNCHANGED <<job, terminal, faults>>

(* terminal_poll, the output: at most MaxRead behind the cursor, *)
Read(e) ==
  LET end == thread[e].cursor + MaxRead IN
  /\ At(e, "read")
  /\ thread' = [thread EXCEPT ![e].stage = "look",
       ![e].cursor = IF terminal[e].output < end THEN terminal[e].output ELSE end]
  /\ UNCHANGED <<job, terminal, faults>>

(* whether there is an exit, *)
Look(e) ==
  /\ At(e, "look")
  /\ thread' = [thread EXCEPT ![e].stage = "probe",
       ![e].exit = terminal[e].state \in {"ending", "exited", "failed"}]
  /\ UNCHANGED <<job, terminal, faults>>

(* The end of the program is the end of the output (faulty). *)
AnyEnd(e) == TRUE

Drained(e) == thread[e].cursor >= terminal[e].output

(* The exit code is not looked at (faulty). *)
EndsFine(state) == "fine"

EndOf(state) == IF state = "failed" THEN "badly" ELSE "fine"

(* A poll fails when the runner died, when it finds `exit` still empty, or *)
(* when it found none and the runner has ended since.                      *)
PollFails(e) ==
  \/ terminal[e].state \in {"lost", "ending"}
  \/ terminal[e].state \in {"exited", "failed"} /\ ~thread[e].exit

(* the runner and the exit code, and whether that was all.  A poll that    *)
(* fails is the end of a program that went well to the thread: the answer  *)
(* has no exit code and does not say that it runs.                         *)
Probe(e) ==
  /\ At(e, "probe")
  /\ \/ /\ PollFails(e)
        /\ thread' = [thread EXCEPT ![e].stage = "deliver", ![e].ends = "error",
                                    ![e].cursor = thread[e].output]
     \/ /\ terminal[e].state \notin {"lost", "ending"}
        /\ thread' = [thread EXCEPT ![e].stage = "deliver",
             ![e].ends = IF thread[e].exit /\ Drained(e) THEN EndOf(terminal[e].state) ELSE "no"]
  /\ UNCHANGED <<job, terminal, faults>>

(* context.output refuses a stale thread; then the loop ends or goes on. *)
Deliver(e) ==
  LET some == thread[e].cursor > thread[e].output IN
  /\ At(e, "deliver")
  /\ IF some /\ ~Fenced(e) THEN Goto(e, "stop")
     ELSE thread' = [thread EXCEPT
            ![e].output = @ + (thread[e].cursor - thread[e].output),
            ![e].stage  = CASE thread[e].ends = "no"                -> "check"
                            [] thread[e].ends \in {"fine", "error"} -> "finish"
                            [] thread[e].ends = "badly"             -> "fail"]
  /\ UNCHANGED <<job, terminal, faults>>

(* Only the runner is killed, which has a session of its own (faulty). *)
StopRunner(e) ==
  /\ At(e, "stop") /\ Goto(e, "stopped")
  /\ IF terminal[e].state = "spawning" THEN Become(e, "killed") ELSE UNCHANGED terminal
  /\ UNCHANGED <<job, faults>>

(* terminal_stop: the group of the pid, if there is one, and the runner's. *)
Stop(e) ==
  /\ At(e, "stop") /\ Goto(e, "stopped")
  /\ CASE terminal[e].state \in {"spawning", "running", "ending"} -> Become(e, "killed")
       [] terminal[e].state = "unlisted" -> Become(e, "orphan")
       [] OTHER                          -> UNCHANGED terminal
  /\ UNCHANGED <<job, faults>>

(* A request to the container fails: the job fails, nothing is stopped. *)
Fault(e) ==
  /\ faults < MaxFaults /\ faults' = faults + 1
  /\ thread[e].stage \in {"start", "read", "stop"} /\ Goto(e, "fail")
  /\ UNCHANGED <<job, terminal>>

Finish(e) ==
  /\ thread[e].stage \in {"finish", "fail"} /\ Goto(e, "gone")
  /\ job' = IF ~Fenced(e) THEN job
            ELSE [job EXCEPT !.status = IF At(e, "finish") THEN "completed" ELSE "failed"]
  /\ UNCHANGED <<terminal, faults>>

-----------------------------------------------------------------------------
(* The container *)

Spawn(e) ==
  /\ \/ terminal[e].state = "spawning" /\ Become(e, "unlisted")
     \/ terminal[e].state = "unlisted" /\ Become(e, "running")
  /\ UNCHANGED <<job, thread, faults>>

Write(e) ==
  /\ terminal[e].state \in {"unlisted", "running"} /\ terminal[e].output < MaxOutput
  /\ terminal' = [terminal EXCEPT ![e].output = @ + 1]
  /\ UNCHANGED <<job, thread, faults>>

Exit(e) ==
  /\ \/ terminal[e].state = "running" /\ Become(e, "ending")
     \/ terminal[e].state = "ending" /\ (Become(e, "exited") \/ Become(e, "failed"))
  /\ UNCHANGED <<job, thread, faults>>

RunnerDies(e) ==
  /\ faults < MaxFaults /\ faults' = faults + 1
  /\ terminal[e].state \in {"spawning", "unlisted", "running", "ending"} /\ Become(e, "lost")
  /\ UNCHANGED <<job, thread>>

-----------------------------------------------------------------------------
TerminalNext ==
  \/ Claim \/ Control \/ LeaseLost
  \/ \E e \in Epochs :
       \/ Enter(e) \/ Start(e) \/ CheckFence(e) \/ Read(e) \/ Look(e) \/ Probe(e) \/ Deliver(e)
       \/ Stop(e) \/ Fault(e) \/ Finish(e)
       \/ Spawn(e) \/ Write(e) \/ Exit(e) \/ RunnerDies(e)

TerminalSpec == TerminalInit /\ [][TerminalNext]_terminalVars

-----------------------------------------------------------------------------
(* A job that completed has all that its program wrote, and its program    *)
(* went well, though it writes and ends while it is polled; unless a poll  *)
(* failed, which counts as an end too and may miss output and hide an exit *)
(* code.  Polls fail only once the program has ended or its runner died:   *)
(* no job completes while its program has a runner and runs.               *)
CompletedHasOutput ==
  job.status = "completed" =>
    LET t == terminal[job.epoch] IN
    IF thread[job.epoch].ends = "error" THEN t.state \in {"ending", "exited", "failed", "lost"}
    ELSE t.state = "exited" /\ thread[job.epoch].output = t.output

(* A paused or cancelled terminal is cleaned up in the container (docs/    *)
(* lightworker_next_runtime.zh-CN.md:83), by the thread of the claim that  *)
(* was revoked and whatever has been claimed since; a program whose pid is *)
(* not written yet escapes.                                                *)
StoppedIsCleaned ==
  \A e \in Epochs :
    /\ At(e, "stopped") => terminal[e].state \notin {"spawning", "unlisted", "running"}
    /\ terminal[e].state \in {"spawning", "unlisted", "running"} /\ ~Fenced(e) /\ faults = 0
         => thread[e].stage \in {"check", "read", "look", "probe", "deliver", "stop"}

(* Both, while the container does something at each moment. *)
TerminalIsSound == CompletedHasOutput /\ StoppedIsCleaned
=============================================================================
