# LightWorker in TLA+

LightWorker runs coding tasks for a user: a task is prepared, an agent works on
it in a workspace with tools, the result is verified, and the conversation goes
on with follow-up messages. Most of what is hard about it is not the agent. It
is that a run is worked on by threads that may be late, by children with queues
of their own, by a web service whose requests, pollers and task threads all act
on the same records, and that any of them may stop between two steps. These
modules specify that part, TLC checks them on small instances, and TLAPS proves
the safety of all thirteen of them for every value of their constants: the job
registry, on which everything else rests, the schedules, the session store, the
life of a run and the fixed workflow, both kinds of child agents, the
conversation with its queue, the gate of the tools, the resumable orchestrations,
the terminals, the index of documents and the history that a model is sent.

Paths below are relative to `src/lightworker/` (`jobs.py`, `web.py`, ...) or to
the repository (`docs/...`, `README.md`).

## 1. The system

### 1.1 Components

| component | source | state it keeps | operations that change it |
|---|---|---|---|
| Job registry | `jobs.py` | `jobs.json`: status, lease owner, epoch, deadline, process, output window, result | create, start/claim, renew, output, finish, control, dispatch, recover; the thread of `_drive` |
| Run control | `control.py` | `control.json`: running, paused, cancelled; steering messages | set_state, add_steering, consume_steering |
| Continuable child agents | `continuation.py` | `agents.json`: each child's status, job, FIFO of messages | spawn, send_message, interrupt, resume, recover; the child's message loop |
| Conversation queue | `message_queue.py` | events of the conversation's session, projected to items and their order | enqueue, claim, release, complete, guide, cancel, reorder |
| Web dispatch and scheduler | `web.py` | in-memory task states, the queue lock, run records | create_followup, dispatch, settle, pause, cancel, resume, approve, rerun, guide, restart |
| Schedules | `schedules.py`, `web.py` | schedule events: next time, lease, run identity | create, control, due, dispatched |
| Session and run store | `sessions.py`, `storage.py` | the SQLite events of a run, its JSON state and readable files | transaction, save, append, set state, write JSON |
| Agentic supervisor | `agentic.py` | one service entry per run, the goal, the final record | run, collect, Ralph's rounds, verify, repair, teardown, `_finalize` |
| Task runner | `workflow.py` | run record, plan, approvals, the steps of the fixed workflow | run, resume, decide_approval, rerun_from_verify |
| Tool gate | `tool_protocol.py`, `policy.py` | limits and repeats of an activation, approvals of a run | admit a call, ask, decide, record |
| Code mode, workflow steps | `loop_modes.py` | steps done, running, the results of a program | workflow_run, run_code |
| Delegated subagents | `subagents.py` | the tree of agents | delegate, finish, cap |
| Goals | `goals.py` | budgets, usage, status | set, add usage, exceeded |
| Resource pools | `resources.py` | semaphores | acquire, release |
| Terminals | `terminal.py`, `sandbox_helper.py` | job, cursor; process, exit code and output in the container | start, poll, stop |
| Retrieval | `rag.py`, `memory.py` | SQLite rows of documents, chunks, words and vectors | ingest, remove, search |
| Context | `context.py` | the list of messages a model is sent | compact |
| Evidence, tools, agents, providers, workspaces, configuration, CLI, browser UI | the others | files, or none that steps compete for | |

### 1.2 How they interact

* Every durable structure of a run lives in one SQLite session. A method of the
  registry, of the children or of the queue takes the session with
  `BEGIN IMMEDIATE` and is atomic; nothing is atomic across two methods. JSON
  files are written beside it and are not rolled back.
* The web scheduler creates a job of kind `task` for each run it accepts, claims
  it when its worker reaches the task, and hands the operation to the registry's
  `_drive`. The operation is the runner. In the agentic modes the runner drives
  a supervisor, which registers the handlers of the run's background jobs:
  children and terminals. In the fixed mode it drives LightFlow.
* A child's activation and a terminal are background jobs. `_drive` calls the
  handler, with checkpoints that read the job and then the run's control state.
* Every tool call of an agent passes the gate, which may ask for an approval.
  The run then ends as waiting, and the approval starts another activation.
* Pausing or cancelling a run writes the control state only. Threads see it at
  their next checkpoint, agents before their next request or call.
* A conversation is a chain of runs in one workspace. Messages beyond the first
  wait in the queue; three things dispatch it: a request that found the
  conversation idle, the thread of a run that has settled, and any page that
  lists or shows runs. A lock serialises the dispatches, but not the requests
  that post, remove, reorder or guide messages, nor the threads of runs.
* On start the service recovers jobs, marks active records interrupted, and
  dispatches.

### 1.3 What is hard, and what makes each part correct

* **Registry.** Leases run out, processes die, users pause, other processes
  claim; the thread that lost the job does not know. Correct when at most one
  thread passes the fence, a lost authority never returns, output has no gap and
  no late item, a stop reaches the children, a stopped run drains, and no path
  leaves a job running with no thread.
* **Children.** Activations overlap, die or are replaced between two messages.
  Correct when turns complete in order, no message is lost between the last look
  at the queue and going idle, an ended activation frees its child, a running
  child consumes what it is sent and a paused child stays paused.
* **Queue and dispatch.** Requests, pollers, task threads, users and restarts
  meet in the queue. Correct when a message goes to one run at most, is closed
  only with a run, starts in the order of the queue, does not wait for ever,
  and when the runs of a workspace do not overlap.
* **Schedules.** Dispatchers crash between the record and the job, or report
  late. Correct when an occurrence runs once, is counted only with its run, is
  handled in the end, and a stopped schedule stays stopped.
* **Session store.** Processes save copies that are old, transactions are rolled
  back after they wrote files, lines of an older run are imported. Correct when
  the history only grows, a repeated key is stored once, the state is what was
  set last and a reader's cursor misses nothing.
* **A run.** Requests read the record and write later, jobs end or start while
  they are torn down, calls raise under a handler and outside of one, edits come
  after the verification. Correct when a run without a thread is not active, has
  its slot given back and leaves no job, but for the exceptions that section 2.6
  names; waits only for a request that exists, succeeds only as verified, and
  ends.
* **Gate, steering, goal.** Parallel calls count against one limit; decisions
  are made while a call asks. Correct when the limits hold, a call runs only if
  it was allowed, is asked for once, steering is heard at most once and in order
  (it is lost with a request that fails, and with a process that dies), and the
  goal is never charged too much.
* **Orchestrations.** Correct when a step with effects runs at most once across
  crashes, approvals and overlapping calls, and when one that refuses to go on
  does so for a cause.
* **Subagents, pools.** Correct when the cap holds under racing calls, a result
  is complete, and nobody waits for a slot that a waiting agent holds.
* **Terminals.** Programs write and exit between two polls, and between the steps
  of one. Correct when a completed job has all the output, unless its last poll
  failed, and a stopped one leaves no process.
* **Retrieval, context.** Correct when a search finds the whole of one version,
  a removal removes all, and a cut history keeps the instructions, whole calls
  and, as long as the loop keeps its own list, the latest input.

`PROJECT.json` lists the hazards at their lines, with the properties that watch
them.

## 2. Modules

| module | models | kind |
|---|---|---|
| `FencedJobs` | what a registry promises | abstract specification |
| `JobRegistry` | `jobs.py`, `control.py` | implements `FencedJobs` |
| `JobRegistryProofs` | | theorems about `JobRegistry` |
| `ContinuableAgents` | `continuation.py` over an abstract registry | specification |
| `Subagents` | `subagents.py`, the model slots of `resources.py` | specification |
| `ContinuableAgentsProofs` | | theorems about `ContinuableAgents` and `Subagents` |
| `Selections` | the list comprehensions over a queue's order and over a history | the elements of a sequence that are in a set |
| `SelectionProofs` | | lemmas about `Selections` |
| `MessageQueue` | `message_queue.py` | operators on a queue value |
| `Conversation` | `web.py` over `MessageQueue` | specification |
| `ConversationProofs` | | theorems about `Conversation` and `MessageQueue` |
| `Schedules` | `schedules.py` and the dispatcher of `web.py` | specification |
| `SchedulesProofs` | | theorems about `Schedules` |
| `SessionLog` | what a session promises | abstract specification |
| `SessionStore` | `sessions.py`, `storage.py`, `EventLog` of `tool_protocol.py`, the page's cursor | implements `SessionLog` |
| `SessionStoreProofs` | | theorems about `SessionStore` and `Retrieval` |
| `TaskRun` | `workflow.py`, `agentic.py`, the slots of `resources.py`, the requests of `web.py` about one run | specification |
| `CodingFlow` | the fixed workflow of `workflow.py` | specification |
| `TaskRunProofs` | | theorems about `TaskRun` and `CodingFlow` |
| `ToolGate` | `tool_protocol.py`, `policy.py`, `control.py`, `goals.py` | specification |
| `WorkflowSteps` | `loop_modes.py` | specification |
| `Terminals` | `terminal.py`, the terminals of `sandbox_helper.py` | specification |
| `ToolGateProofs` | | theorems about `ToolGate`, `WorkflowSteps`, `Terminals` and `Compaction` |
| `Retrieval` | `rag.py` | specification |
| `Compaction` | `context.py` | specification |
| `MC...` | | instances for TLC |

Some instances put several specifications into one run: `MCActivation`,
`MCProgress`, `MCMessages`, `MCRuns` and `MCStores` have a variable `part`, which
each behaviour picks in its first state and never changes. The parts share no state
and no step, and a part that is not picked stays as it is; such a run checks each
of them as a run of its own would, and takes the sum of their states, not the
product. `MCMessages` extends `Conversation`, `ContinuableAgents` and
`Subagents`, `MCRuns` extends `Schedules`, `TaskRun` and `CodingFlow`,
`MCStores` extends `JobRegistry` and `SessionStore`, `MCActivation` extends `ToolGate`, `WorkflowSteps`, `Terminals`, `Retrieval` and
`Compaction`; the other parts, among them the family of jobs in `MCActivation`,
are instances (`INSTANCE ... WITH`). What the run checks of an extended module
is, word for word, what the theorems state; this is why the modules that are
extended together do not share names (`StepsInit`, `TerminalInit`, `IndexInit`,
`HistoryInit`, `TreeInit`, `FlowInit`, `StoreInit`).

### 2.1 FencedJobs and JobRegistry

`FencedJobs` has one ledger per job: who holds it (an epoch, or 0), the newest
epoch, how many outputs there are and who made the last, and the outcome. A step
either hands the job to a newer epoch, takes it away, publishes for the holder,
concludes for the holder, or closes the job by cancelling it. Nothing else.

`JobRegistry` maps each registry method to one action, because each is one
transaction, and the thread of `_drive` to several. A thread is a record with
the job, epoch and owner it was started with and a `stage`. Checkpoints are two
steps, `ReadJob` and `ReadControl`, because the code reads twice
(`jobs.py:35`, `jobs.py:36`); publishing and finishing are a third transaction.
Between any of them `Renew`, `Tick`, `Control`, `Recover`, `Crash` and the other
registry may act. The clock is an integer; the deadline comparisons are the
code's (`>=` in the fence, `<=` in claim and recover, so both hold at the very
second a lease ends). A thread whose checkpoint fails inside an operation may
carry on working, because tool loops turn `JobInterrupted` into an answer. The
run record is reduced to what `_drive` distinguishes. Text, metadata, timestamps
and events are left out; `result` and `raised` are history, kept for the
properties.

`ProcessOf` places a registry in a process: two registries in one process are a
supervisor and the web service, two processes are a service and a command line
or two services.

### 2.2 ContinuableAgents

A job is reduced to status, epoch and "the lease holds", as `FencedJobs` allows:
the lease may lapse at any time. `agents` is `agents.json`; a message is its
position in its child's FIFO and its status. Each transaction of
`continuation.py` is an action; `Open` and `RecoverChild` are the two parts of
`recover()`, in which `resume_agent` may raise and leave an abandoned
supervisor. `Take`, `EndTurn`, `Report`, `Caught` and `Error` are the child's
loop and its two exception handlers.

### 2.3 MessageQueue and Conversation

`MessageQueue` is the projection of the queue's events: an order and, for each
item, a status and the run it was claimed for. Every transaction is a function
from queue to queue. The list comprehensions over the order are `Selected` of
`Selections`, written as a recursive function since the prover knows nothing
about `SelectSeq`.

`Conversation` composes it with everything that calls it. A POST is a small
thread (`look`, `enqueue`, `wake`, or `submit`, `launch`) since
`create_followup` reads the record, the job and the queue without the lock and
acts later. A dispatch is a thread too, one at a time, because of the lock; each
of its reads and writes is a step. `threads[r]` follows the scheduler's call for
run `r`: queued, running, settling, waiting for the lock, dispatching.
`convo` is the order of `created_at`, on which "the last run of the
conversation" depends: a run is listed when `_submit_spec` bootstraps it and
again, with a new time, when the runner begins (`workflow.py:92`).

What is assumed: while the service lives, leases hold (so a job is active
exactly while its thread is); every run after the first has a fresh identity;
a message is posted once. What is left out: the inbox that LightAgent keeps
next to the queue, rollback of forked conversations, uploads. `cancelled` stands
for budget-limited too, `waiting` for every status in which the user is asked.
A run that was resumed settles, a run submitted by an approval or a
verification does not (`web.py:852`), as in the code.

### 2.4 Schedules

Several services dispatch the same schedules. A dispatcher claims all that is
due in one transaction and works through the copies it got (`batch`, in any
order): `Look` at the source run, `Seek` the run of the occurrence, `Prepare`
and record it, `Submit` its job, `Report`, and from any failure `ReportError`.
Each is a transaction or a group of reads of its own, and anything may happen in
between: the user pauses, resumes or deletes the schedule, the lease runs out
and another dispatcher claims it again, the service dies, the run executes.

The clock is gone: the code compares it twice, `next_at <= now` and
`lease_until > now`, both in `due()`, so a schedule is `due` or not and `held` or
not. A lease may lapse at any time; under a service that lives this counts as a
trouble (`MaxTroubles` bounds those, with controls, busy sources and crashes).
`Look` may find the source busy or missing whenever it likes. The run of an
occurrence is reduced to its record (absent, made by `_submit_spec`, taken over
by the runner), its job, and how often it began. `begun` is history.

A service that dies between the record and the job leaves an occurrence that the
next dispatcher counts as dispatched although its run never begins. That is the
code's choice of at most once; `CountedHasRun` says what remains true.

### 2.5 SessionLog and SessionStore

`SessionLog` is one variable: a log that only grows and stores nothing twice.

`SessionStore` has the committed events (`log`) and at most one open transaction
(`tx`), because `BEGIN IMMEDIATE` lets one writer in. A transaction is begun
(`OpenTransaction`) for one call (`save`, `append`, `emit`, `set`, `read`, `migrate`), takes its steps
one at a time, and commits or aborts. `held` is the Session an agent loaded
earlier: `Load` copies it, `Think` appends to the copy, and a `save` merges event
by event what the store does not have yet. `file` and `late` are the readable
JSON: what is written inside a transaction (`WriteEarly`) stays when the
transaction is rolled back, what is written after it (`WriteLate`) may be lost
with the process, and a read of a state that the Session lacks adopts the file.
`Migrate` imports the lines of an older `events.jsonl`, one step per line.
`Follow` is the page that asks for what came after its cursor, `ReadLimit` at a
time. One state stands for all canonical files.

A file whose transaction was rolled back is adopted as the first state of a run
that had none; `StateIsLastSet` speaks of states that were set.

### 2.6 TaskRun and CodingFlow

`TaskRun` is one run from its first activation to its last. `thread` is the
scheduler's call for it: `Claim`, `Begin`, `Acquire` the slot, `Start` the
sandbox, `Setup` (the copy of the record that the supervisor saves again later),
then the supervisor: `Open`, `Gate`, `Build`, the agent, `Collect` of background
jobs, `Ralph`, `Judge`, `Verify` and `repair`, `ReadControl` and `Save` (the two
halves of `_finalize`), `ListJobs`, `PauseJob` and `TornDown` (its `finally`),
`Release`.

An exception is raised where the code may raise, and what becomes of it depends
on the handlers it passes:

| where | action | what is left |
|---|---|---|
| before the runner's handlers: the record cannot be read or written, a cancelled run is resumed (`workflow.py:92-108`, `126-133`); anywhere in `rerun_from_verify`, which has none (`145-148`) | `BeginRaises`; `Fails` of a rerun | the record as it is, perhaps active: `escaped` |
| no image, or no slot in time | `NotAcquired` | failed |
| the status is written after the slot is taken and before the `try` (`211-214`) | `AcquireLoses` | failed, and the slot is gone: `slot.lost` |
| under the `try` of `_execute`, before the supervisor's | `Raises` | failed |
| between `recover()`, which starts children that have messages left, and the supervisor's `try` (`agentic.py:129-140`) | `Build`, `Enter` | failed, no teardown, the children run: `broken` |
| under the supervisor's `try`: the agent, the wait, Ralph, verification, `_finalize` | `AgentRaises` | torn down, then failed |
| in the teardown (a job that ended meanwhile) | `TeardownRaises` | failed, the supervisor stays open: `broken` |
| `sandbox.stop()` before the release of the slot (`workflow.py:322-323`) | `StopRaises` | failed, and the slot is gone |

The write that records a failure is taken to succeed; that it may fail in turn is
not modelled.

`slot` counts what the activations took and did not give back (`taken`), and how
much of it nobody ever will (`lost`); a restart makes a new pool. `job_control`
pauses, ends and resumes jobs at any time (`JobStops`, `JobResumes`). A job that
it, or a message to a child, starts after the teardown listed what to stop is
`woken`. `web` holds what requests have read and not yet written: stopping, voting on an
approval, and `message_child`, which loads the record, and later saves what it
loaded (`web.py:1010`) and so may rewind it; `rewound` marks a run where that
happened. `EndedRunIsSettled` excepts `escaped` and `rewound`, `JobsEndWithTheRun`
excepts `broken` and `woken`, `IdleGivesSlotBack` the lost slots, and each
exception is one that the code has. A background job is its status; terminals may edit, children only
read. An edit is a number, `work.checked` is the number that the last
verification saw, `work.late` says that a job edited since. What the model
leaves to choose, it chooses: how the agent answers, which verification fails,
whether a budget is spent.

`CodingFlow` is the other mode: a plan, an execution behind an approval by risk,
verifications with repairs between them, a review. LightFlow, which stores the
steps' outcomes, is external and modelled by what the code relies on: it runs
them in order, stops at a failure or an approval, resumes behind the last
success and reruns a step with all that follow.

### 2.7 ToolGate

The calls of one model answer run side by side, and each goes through its stages
one at a time: the hook of `policy.py`, the count under the lock, the control
check, the decision read, the request for approval, the call itself. An exact
call (tool and arguments) is a model value; `decisions` are by exact call,
`requests` by identity. The loop of the agent is reduced to where the hooks
come: before a request (control, steering), after it, around calls. `goal` has
the usage that is charged, the number of calls really made (history) and the
copy of a page that edits the goal: `update_goal` loads and saves outside a
transaction, and may lose usage. A resumed run charges its repairs less than
they cost (`agentic.py:490`). So the goal may be undercharged, never
overcharged.
Steering comes from the page, or out of the conversation's queue in two steps.
The hook marks it consumed before the request is made (`policy.py:111-125`), so a
request that fails, because the provider raises, a later hook blocks or times
out, loses it, in a process that lives (`RequestFails`); and a process that dies
takes along what it held (`Crash`). `lost` is both. `SteeringReachesOnce` says of
what the model heard, or is about to hear, that nothing is there twice, that it
comes in the order of `control.json`, and that it is what was consumed, but for
the lost.

### 2.8 Subagents

A call of `delegate_tasks` makes one thread per task. Each adds itself to the
tree under the cap, makes requests under the semaphore, runs tools (which may
delegate again), may get a second run without tools, and stores its outcome. The
caller waits for all. Continuable children share the cap and appear as a number.

### 2.9 WorkflowSteps and Terminals

`WorkflowSteps` has one workflow, called by overlapping `workflow_run`s, and one
program of `run_code`, which the container replays with the results so far. A
step is claimed, runs, and is recorded; a crash may come between any two. A tool
answers, answers `{"ok": false}`, or raises; the gate before it asks for approval
or refuses (a budget, a hold, a rejected approval: `tool_protocol.py:284-314`),
and then nothing runs. To `workflow_run` a refusal is an answer that failed, so a
step that writes keeps its claim (`loop_modes.py:148-154`) and the workflow
refuses from then on, although nothing has been done. `left` is history: why the
last tool leaves its step running. `RefusesForCause` allows what the code does,
the refusal by the gate included, and nothing beyond it.
Overlapping calls of `run_code` for one program are left out: both would find it
pending and run its tools twice, which the code does not prevent.

`Terminals` has, for each epoch of the job, the thread that polls and the
terminal in the container: a runner that starts the program, writes its pid and,
at the end, creates the file `exit` and then writes the code to it. A poll is a
process of its own and takes three steps: it reads the output (`Read`), looks
whether `exit` exists (`Look`), and reads it, or looks for the runner (`Probe`).
Control, lost leases, failing requests and dying runners come in between any of
them. What `terminal_send` writes is not modelled.

A poll fails (`{"ok": false}`, or `int('')` on an `exit` that is still empty,
`sandbox_helper.py:196`, `230`) when the runner died, when it comes between the
creation of `exit` and its content, or when the runner ended between `Look` and
`Probe`. (A runner that ended is gone: process 1 of the container is `tini`,
which reaps it.) `_drive` does not look at `ok` and takes the answer for the end
(`terminal.py:47-54`): the job is completed, with output and exit code missing,
though nothing went wrong but the timing. `CompletedHasOutput` states both
cases: after a poll that did not fail all of the output is there and the program
went well; after one that failed the program had at least ended, or lost its
runner. A program whose pid is not written yet escapes
`terminal_stop`; `StoppedIsCleaned` excludes it, and requests that fail.

### 2.10 Retrieval and Compaction

`Retrieval` has one document and several clients, each with a `RAGIndex`, and so
a lock, of its own. Python opens the transaction at the first statement that
writes: the lookups before it are steps, everything from it to the commit is
one. A text is its length and the places of its breaks; chunks are the spans
that `_chunk` cuts. Two clients that index a file for the first time collide on
`UNIQUE`: the second fails and changes nothing.

`Compaction` is one list of messages. The loop that calls it is LightAgent's and
external; whether it goes on with the compacted list or its own is left open. A
message has a role, a size and the call it answers; long results are spilled to
files, and a list that does not fit then is reduced to the instructions, the
preserved state, the latest input and the newest whole exchanges. The code drops
one group after the other until the rest fits; `Kept` says which suffix that
leaves.

The latest input is two things here. The code takes the last user message of the
list (`context.py:92`). `input` is history: what the user did say last, and
whether the list is `intact`, that is, no compacted list has replaced it since;
`asked` is the same at the last compaction. `RequestKeepsTheTask` speaks of
`asked`, not of a position. A compacted list has the latest input among the
mandatory messages, in front of older input that was kept (`context.py:110-113`),
so if the loop goes on with it, the next compaction takes the older for the
latest. That is the finding `LatestInputStays` of section 3.2; with an intact list
the latest input stays.

## 3. Runs

Bounds are constants used only in guards.

| run | instance | checks | states |
|---|---|---|---|
| `stores` | one job, of either kind, two registries in two processes, pool of one, lease of 1, clock to 3, 2 claims or control actions, 3 outputs, window of 2; or a session of two processes, three events, one key, one older line, reads of one | `TypeOK`, `SingleHolder`, `RunningHasThread`, `OutputIsGapFreeAndOrdered`, `AuthorityNeverReturns`, `StoppedTaskIsSettled`, `ImplementsFencedJobs`; `OncePerKey`, `StateIsLastSet`, `LinesStoredOnce`, `FollowsGapFree`, `ImplementsSessionLog` | 1.4 M |
| `messages` | a conversation of two messages after its first run and one restart; or a child with two jobs, three epochs each, two messages, two threads; or two calls of two delegated tasks each, two levels, a cap of two, one slot, a restart | `DeliveredOnce`, `CompletedHasRun`, `StartsInQueueOrder`; `FifoTurns`, `IdleMeansDrained`, `EndedJobFreesChild`; `ChildrenAreCounted` | 4.7 M |
| `runs` | one schedule, two services, two occurrences, three troubles; or one of six tasks, one activation after the first, one restart; fair; or a fixed workflow with one repair, two edits, two activations after the first, all three ways of verification | `OncePerOccurrence`, `CountedHasRun`, `StoppedScheduleHolds`, `DueIsHandled`; `EndedRunIsSettled`, `IdleGivesSlotBack`, `JobsEndWithTheRun`, `WaitingHasRequest`, `SuccessIsVerified`, `ActivationEnds`; `FlowIsSound` | 1.1 M |
| `activation` | seven parts, below | `GateIsSound`, `SteeringReachesOnce`, `ResumesSafely`, `TerminalIsSound`, `FindsWhatIsIndexed`, `RequestKeepsTheTask`, `ControlReachesChildren` | 2.1 M |
| `progress` | two jobs that share one thread; or one queued message, one restart and one continued run; or delegated children that share one slot; fair | `StoppedRunDrains`; `QueueMoves`; `DelegationReturns` | 0.25 M |
| `jobs_blank_error` | one job | `NoFalseSuccess` violated | |
| `agents_stranded` | the child of `messages` | `RunningChildConsumes` violated | |
| `agents_pause` | the same | `PauseHolds` violated | |
| `conversation_overlap` | two messages, no restart | `OneRunAtATime` violated | |
| `task_unverified` | one task with a terminal and an approval, no restart | `EveryEditIsVerified` violated | |
| `retrieval_removed` | two clients, two versions of a file | `RemovesEveryChunk` violated | |
| `compaction_latest_input` | one list, up to ten messages of one size and calls without results, limit of five | `LatestInputStays` violated | |

The parts of `activation`:

| part | specification | instance |
|---|---|---|
| gate | `ToolGate` | two calls at a time of three exact calls of two tools, one of which needs an approval; limits of one; two activations |
| steering | `ToolGate` | two messages, one call at a time, two activations |
| steps | `WorkflowSteps` | three steps, one of which only reads, two callers, a restart |
| terminal | `Terminals` | four epochs, one fault |
| family | `JobRegistry` | three interchangeable jobs, any parent chain, in a run that is not itself paused or cancelled |
| index | `Retrieval` | two clients, two versions, three writes |
| history | `Compaction` | six messages of two sizes after the instructions, limit of five tokens |

Why the bounds are enough.

* Registry: two registries and two claims give a stale thread, a current one and
  a crash of either process. A lease of one tick with a clock to three gives a
  lease that is fresh, ends this very second, or is over, twice. Three outputs
  into a window of two overflow it, from one activation or two. Three jobs give a
  grandchild under a running, stopped or ended parent.
* Queues: two messages give an item that overtakes, is overtaken, is claimed
  while another is guided or removed, and is released by a restart while the
  other waits; a third would add no new pair.
* Schedules: two services and three troubles give a dispatcher that stopped at
  any stage, a second one that passes it, and a user or a crash between them; the
  second occurrence shows what a late report of the first does. With one schedule
  a batch has one claim; batches of any size are in the proofs.
* A run: the six tasks cover each way of verification and each request of the
  web service, with a terminal that needs an approval, two children that end, are
  paused or are resumed by `job_control` in the middle of a teardown, and two
  rounds of Ralph; two edits let one come
  after the verification; one more activation gives the resumed, approved,
  repeated or written-to run, a restart the interrupted one. In the fixed
  workflow one repair lies between two verifications, and two more activations
  give an approval and a rerun, or a resume, of one run.
* Gate: with a limit of one a second call beside the first is what must be
  refused; three exact calls tell an approval of other arguments apart; a second
  activation shows what is kept. Both limits being one, the limit on repeats
  never bites first here: that it holds for all values is in the proof.
* Children and slots: four tasks against a cap of two race for the last place;
  one slot is what parent and children could deadlock on.
* Store: three events give a key that is repeated, a state set twice, or one of
  them and a save that lies behind it, each beside the older line; the proofs
  have no such bound.
* Texts of nine and eight characters, cut at seven with an overlap of one, give
  chunks that end at a break, at the limit and at the end; three writes give a
  replacement of a replacement or a removal in between. Six messages give two
  calls with results and a second compaction.

Symmetry is used for interchangeable jobs, follow-up runs, messages and
processes in runs without liveness; in `messages` the child's two jobs, which are
interchangeable too, are numbered in the order in which they are made.

Deadlock checking is off where it is because bounded counters run out, and a
finished run, job or conversation really stops.

### 3.1 Fairness

* `StoppedRunDrains`: the executor and the operating system run every thread; an
  operation comes to a checkpoint, returns or raises; an operation that turns
  failed checkpoints into answers lets one through in the end, since an agent
  run has a bounded number of tool iterations and the child loop checks after
  it (strong fairness of that step). Users, the clock, heartbeats and crashes
  are not fair.
* `QueueMoves`: task threads, requests and the dispatch take their steps, an
  agent run ends, and a thread that waits for the lock gets it (strong fairness:
  the lock is free again and again). Some page polls: without it the property is
  false, because a run continued by an approval does not dispatch, and a queued
  run cancelled before its activation never settles. Users and restarts are not
  fair.
* `DueIsHandled`: the loop of every service goes on, step by step, and claims
  what is due (`web.py:301`), and the lease of a dispatcher that is gone ends
  with time. The loop has no handler around it, so this takes the store to
  answer. Users, runs and crashes are not fair, nor is the loss of a lease by a
  dispatcher that lives.
* `ActivationEnds`: the thread of the activation takes its next step. A model's
  run is bounded by its iterations and time limits, and the wait for jobs by the
  time `_collect_jobs` is given, which is why that step is part of the thread.
  That a step might raise counts for nothing: the steps that raise where another
  could be taken are not fair (`Continues`).
  Jobs, edits, requests and restarts are not fair.
* `DelegationReturns`: some thread of the agents takes a step whenever one can.
  Requests to the provider end, with an answer or a time-out, and are bounded in
  number, so weak fairness of all threads together is enough.

### 3.2 Findings

Each is a run that TLC ends with a counterexample, and an entry in
`PROJECT.json` with the line and the sentence it disagrees with.

1. `NoFalseSuccess`: `finish(error=str(exc))` with an exception that has no
   text records the job as completed (`jobs.py:189`).
2. `RunningChildConsumes`: a child whose job is cancelled while it waits for a
   pool thread stays running; `recover()` passes over cancelled jobs, and
   messages only queue (`continuation.py:72`).
3. `PauseHolds`: a paused child whose old thread ends in an exception becomes
   failed (`continuation.py:276`).
4. `OneRunAtATime`: two posts to an idle conversation both start a run
   (`web.py:676`).
5. `EveryEditIsVerified`: a terminal that a repair started is not waited for;
   what it writes after the verification is delivered with a run that succeeded
   (`agentic.py:470`). `SuccessIsVerified` says what remains true.
6. `RemovesEveryChunk`: a document removed between the lookup and the first
   write of an ingest leaves chunks under an identifier that no document has;
   searches find them and nothing removes them (`rag.py:142`).
7. `LatestInputStays`: automatic compaction keeps "the latest user input"
   (`docs/lightworker_next_runtime.zh-CN.md:73`), but takes the last user message
   of the list for it (`context.py:92`) and puts that one in front of older input
   it keeps (`context.py:110-113`): the second compaction of one list may drop
   what the user said last. Whether it happens depends on the loop, which is
   LightAgent's: if it keeps its own list, `RequestKeepsTheTask` holds.

Other behaviour the modelling met, in the modules as the code has it and
allowed by the properties:

* A run stopped between the two halves of `_finalize` is reported as succeeded
  (`agentic.py:698`), and the fixed workflow does not read the control there.
* An item whose run a restart interrupted, or that failed just before a page
  polled, is closed as completed (`web.py:502`).
* `message_child` may bring an older record back (`web.py:1010`);
  `rerun_from_verify` leaves its record active when it raises
  (`workflow.py:145-148`), as do `run` and `resume` before their handlers
  (`92-108`, `126-133`).
* A container slot is lost when the record cannot be written just after it was
  taken (`workflow.py:213`), or the sandbox cannot be stopped (`322`).
* Children that `recover()` started go on without their run when something raises
  before the supervisor's `try` (`agentic.py:129-140`); so do jobs that are
  resumed once the teardown has listed what to stop.
* Steering is lost with a request that fails after the hook consumed it
  (`policy.py:111-125`).
* A step of a workflow that writes and is refused by the gate stays claimed: the
  workflow refuses to go on, though nothing ran (`loop_modes.py:148-154`).
* A terminal whose poll fails is recorded as completed (`_drive` in
  `terminal.py` does not look at `ok`), also when the poll merely came between the
  creation of `exit` and its content (`sandbox_helper.py:196`, `230`).
* `update_goal` may write an older usage over a newer one.

### 3.3 Mutants

Next to some operators stands a second one marked *faulty*. It is never used by
the specification. It is the code with one plausible bug: a fence that forgets
the epoch, a heartbeat that renews an expired lease, a loop that returns without
marking its child idle, a claim that does not look at the item again, a report
that looks at the schedule's status only, a save that replaces the history, a
cap that forgets the continuable children, a poll that takes any end for the
end of the output. Putting it in place of the real operator makes TLC violate
the property paired with it in `PROJECT.json`; a property that no such bug can
break would say nothing about the code. A property that is a conjunction has
one for each of the parts that matter.

## 4. Proofs

The theorems are in eight modules, which lay their proofs out in the same way:
the named parts of the inductive invariant, the facts about which action writes
which variable (`Writers`), one lemma per part that every step preserves it, and
the theorems. The bounds of the models (`MaxEpoch`, `MaxJobs`, `MaxCursor`,
`MaxTime`, `MaxOccurrence`, `MaxTroubles`, `MaxEvents`, `MaxActivations`,
`MaxEdits`, `MaxRestarts`, `MaxDeaths`, `MaxFaults`, `MaxWrites`, `MaxMessages`
and so on) are arbitrary constants of the proofs, so they bound nothing there.
Every invariant below was first checked by TLC on the instance of its run.

Beyond the assumptions that the modules state of their constants, four modules
have a hypothesis of their own. Each holds of the program:

| module | hypothesis | why |
|---|---|---|
| `TaskRunProofs` | `Sensible`: tasks are tasks (`Specs \subseteq EverySpec`), bounds are numbers | types only |
| `ToolGateProofs` | `Sensible`: there is a call to make, limits are numbers | `max_tool_calls` and the limit on repeats are integers; used for `GateInv` only |
| `ContinuableAgentsProofs` | `Sensible`, for `ContinuableAgents` only: "no job" is not a job | a job's identifier is never empty |
| `SessionStoreProofs` | `KeysAreNames`, for `LinesInv` only: no key of a caller is the key of an imported line | lines are imported under the prefix `legacy-ui-` (`tool_protocol.py:141`), which no caller uses |

### 4.1 JobRegistry

`JobRegistryProofs` proves, for any sets of jobs, registries and processes, any
lease length, pool and window, under `ConstantsAssumption`:

| theorem | states |
|---|---|
| `TypeCorrect` | `Spec => []TypeOK` |
| `ThreadsMatch` | `Spec => []ThreadsMatchJobs` |
| `Fencing` | `Spec => []SingleHolder` |
| `RunningThread` | `Spec => []RunningHasThread` |
| `OutputIsSound` | `Spec => []OutputIsGapFreeAndOrdered` |
| `StoppedTasksSettle` | `Spec => []StoppedTaskIsSettled` |
| `TerminalFinal` | `Spec => TerminalIsFinal` |
| `StopsReachChildren` | `Spec => [][StopReachesChildren]_vars` |
| `NoRevival` | `Spec => AuthorityNeverReturns` |
| `Implements` | `Spec => Abstract!Spec`: the registry implements `FencedJobs` |

The argument. `SingleHolder` is not inductive: nothing in it stops a claim from
handing a thread the epoch of another one. `ThreadsMatchJobs` is what the code
relies on without saying it: a thread never has a newer epoch than its job, no
two threads share one, and the thread with the job's epoch has the job's owner
and process. It is inductive because every action that starts a thread raises
the epoch first, and no action lowers it. `SingleHolder` follows from it at
once: two threads that pass the fence both have the job's epoch.
`AuthorityNeverReturns` needs that a claim or a resume goes to a new epoch and
that a renewal asks for the authority it extends; `TerminalIsFinal` that every
write to a job asks for a status that is not terminal; `RunningHasThread` that a
thread only leaves after the job stopped being its own, or by the death of its
process. The refinement adds that a running job has an epoch of at least 1
(`RunningIsNumbered`), since in `FencedJobs` epoch 0 means that nobody holds it.
`OutputIsGapFreeAndOrdered` is inductive as it stands, once it is known what the
window of `LastItems` keeps of a list that grew by one (`LastItemsWindow`) and
that a publication has the epoch that the fence compares. `StoppedTaskIsSettled`
needs `TasksOnce`: the job of a task is claimed once, has no parent whose stop
could reach it, and loses its thread in the step that records the stop. Only
then can no late handler find the job stopped and the record still active.
`StopReachesChildren` is what `ControlReachesChildren` of the run `activation`
checks on a family of three jobs. The recursion of `control` over the children is
modelled as the least set that has the job and the unfinished children of what
it has (`Cascade`), so that nothing has to be assumed of who is whose child;
`StopIsControl` shows that no other step stops a job with a new epoch, and
`CascadeStops` what the set reaches. `ThreadsMatchJobs` and `TerminalIsFinal` are
proved and, since the proof covers
every instance, no longer part of a run.

### 4.2 Schedules

`SchedulesProofs` proves, for any sets of schedules and services, under
`SchedulesAssumption`:

| theorem | states |
|---|---|
| `TypeCorrect` | `SchedulesSpec => []SchedulesTypeOK` |
| `OncePerOccurrenceHolds` | `SchedulesSpec => []OncePerOccurrence` |
| `CountedHasRunHolds` | `SchedulesSpec => []CountedHasRun` |
| `StoppedScheduleIsHeld` | `SchedulesSpec => StoppedScheduleHolds` |

An occurrence begins once because the runner takes over a record only while it
is marked as bootstrapped, and nothing marks a record again. A stopped schedule
stays as it is, its status, claim, counter, epoch and time, until its user
controls it; only the passing of time may make it due. That is because every
write of a dispatcher asks for an active schedule and no lease outlives the stop
(`StoppedIsFree`). `CountedHasRun` is the deep
one: a report adds one to the counter without saying which occurrence it means.
The inductive invariant (`ClaimsInv`) says that a claim of the current epoch
names the occurrence after the counter, and that no two claims, wherever they
are held, have the same schedule and epoch. Without the second a report would
leave another current claim behind, and that one would count an occurrence that
was never dispatched. `RunsMatch` adds that what is submitted or reported has a
record, and records stay.

### 4.3 SessionStore

`SessionStoreProofs` proves, for any processes and keys, any number of older
lines and any read limit, under `SessionStoreConstants`:

| theorem | states |
|---|---|
| `StoreTypes` | `StoreSpec => []StoreTypeOK` |
| `KeysOnce` | `StoreSpec => []OncePerKey` |
| `StateLastSet` | `StoreSpec => []StateIsLastSet` |
| `PageMissesNothing` | `StoreSpec => []FollowsGapFree` |
| `StoreIsASessionLog` | `StoreSpec => ImplementsSessionLog`: the store implements `SessionLog` |
| `LinesInvHolds` | `KeysAreNames => (StoreSpec => [](StoreInv /\ LinesInv))` |
| `LinesAreStoredOnce` | `KeysAreNames => (StoreSpec => []LinesStoredOnce)` |

The log changes only in `Commit`, so everything about it is a statement about
the log of the open transaction. The invariant (`StoreInv`) has a part for each
place an event can be: committed (`LogOk`: identifiers and keys once, none newer
than `fresh`), in the transaction (`TxOk`: its log extends the committed one, and
has the same properties), held by an agent (`HeldOk`: what an agent holds and the
store lacks is a note of its own, without a key). So a merge appends notes only;
without this clause a save could bring a repeated key or an older state in
through the back. `StateOk` says which state event an open
transaction shows, so that neither a merge nor the adoption of a file replaces
one that was set. `ReaderOk` bounds the cursor by the log, which only grows.

`LinesStoredOnce` relates three things that no lock holds together: the file
`events.jsonl`, the mark that an import is complete, and the processes that have
the log open. `LinesInv` says that the file begins with the old lines, whoever
appends to it (`FileBegins`); that a marked log has all of them, and no event is
in a log that is not marked (`LinesOf`, `Marks`); and how far an import in
progress has come (`Imports`: the events it has made are the lines up to `at`,
under the numbers of those lines). The clause that matters is the last one of
`Marks`: an import that is done leaves the mark, and only a process that has
been through an import emits. Without it an event could be emitted, and its
line written, before the import of another process reads the file: that line
would then be stored twice, once under its own identity and once as a line.

### 4.4 TaskRun

`TaskRunProofs` proves, for any jobs and tasks, any number of activations, edits
and restarts, under `Sensible`:

| theorem | states |
|---|---|
| `RunInvHolds` | `Spec => []RunInv` |
| `TypesHold` | `Spec => []TypeOK` |
| `EndedRunIsSettledHolds` | `Spec => []EndedRunIsSettled` |
| `IdleGivesSlotBackHolds` | `Spec => []IdleGivesSlotBack` |
| `JobsEndWithTheRunHolds` | `Spec => []JobsEndWithTheRun` |
| `WaitingHasRequestHolds` | `Spec => []WaitingHasRequest` |
| `SuccessIsVerifiedHolds` | `Spec => SuccessIsVerified` |

The properties speak of a run that has no thread; the invariant says how a
thread gets there. At every stage the slots taken are those that were lost, and
one more from `acquire` to `release` (`SlotIsHeld`): so an activation loses at
most its own, and only by the two exceptions of section 2.6. The record is active
while the supervisor works and has its
verdict when the teardown begins, or an exception is on its way to the handler
that writes it (`RecordFollows`); as requests write the record too, this is also
said of the copy that the supervisor will save (`CopyIsThere`). Unless a
supervisor was left open, no job is alive outside of one, and during the teardown
every live job is on its list or was woken since (`JobsAreListed`): it can be
proved because no agent starts a job after the list is read, and because
whoever else starts one needs an open supervisor. `ChangeIsChecked` carries the number that the verification saw from
`Verify` over the read of the control state to `Save`, the two halves of
`_finalize`. The exceptions that the properties make (`escaped`, `rewound`,
`broken`, `woken`, `late`, the lost slots) are those of section 2.6, and the
proofs use no others.

### 4.5 CodingFlow

`TaskRunProofs` proves, for any number of repairs, under `CodingFlowAssumption`
(`max_repairs` is a natural number):

| theorem | states |
|---|---|
| `FlowInvHolds` | `FlowSpec => []FlowInv` |
| `FlowIsSoundHolds` | `FlowSpec => []FlowIsSound` |

Both halves of `FlowIsSound` speak of a step that was long ago: the approval of
an edit, the verification of a success. What carries them over resumes, reruns
and approvals of single calls is the order of the steps (`StepsSucceedInOrder`):
the steps that succeeded are the first ones, up to the one that runs, so an agent
in a repair works behind an execution that succeeded, and that one was permitted
(`ExecutedIsPermitted`; the plan is not made again once there are edits, since
its step has succeeded and no activation goes back before it).
`VerificationsStand` is about the verifications that count: one that found
nothing to repair is repeated by all later ones, and one that passed saw the
edits there are. It is preserved by an edit because an edit needs either the
execution, before which no verification has succeeded, or a repair of a failure,
before which all of them found failures. `_latest_verification` takes the last
verification of any number of them; that there is one is a lemma
(`GreatestNat`).

### 4.6 ToolGate

`ToolGateProofs` proves, for any number of parallel calls, any tools, policies,
limits and messages:

| theorem | states |
|---|---|
| `GateInvHolds` | `Sensible => (Spec => []GateInv)` |
| `GateIsSoundHolds` | `Sensible => (Spec => []GateIsSound)` |
| `SteerInvHolds` | `Spec => []SteerInv` |
| `SteeringReachesOnceHolds` | `Spec => []SteeringReachesOnce` |

`GateIsSound` says that the calls that ran are within the limits, as a statement
about a set of calls and its size. What makes it true is about pairs
(`NumbersDiffer`): each counted call has a number of its own, below the count,
and one of its own among the repeats of the same call; a call that runs has both
within the limits. So the calls that ran inject into the numbers up to the limit
(`NumbersLimit`). `SeesWhatStands` is the other half: a call has seen every
control state and decision that stands, so a permission that is given while it
asks is not missed, and none that was never given is used. `ChargedOnce` says
that what the activation counted is, until it is recorded, in no charge: neither
in the goal's nor in the copy that a page is about to save.

`SteerInv` follows steering from the queue to the model. Steering is consumed
from the front (`SteeringInOrder`), which is what keeps the order; what the model
heard or is about to hear was consumed, in the queue's order (`SentIsConsumed`,
`SentInOrder`), and what was consumed was sent, or is lost with a request that
failed or a process that died (`ConsumedIsSent`). That a message a page still holds is not yet in the queue is
part of it, since the page's second step would otherwise put it there twice.

### 4.7 WorkflowSteps

`ToolGateProofs` proves, for any number of steps, any callers and any number of
restarts, under `StepsAssumption` (the number of steps is a natural number):

| theorem | states |
|---|---|
| `StepsInvHolds` | `StepsSpec => []StepsInv` |
| `ResumesSafelyHolds` | `StepsSpec => []ResumesSafely` |

A caller works with a copy of the workflow that may be old. `OneHolder` says that
at most one caller has a step, that it is the one marked as running, and that
its copy is then up to date; so `Complete`, which stores the copy, forgets no
step that another caller finished. `DoneInOrder` says that what is done, and what
each caller remembers of it, is a first part of the workflow. `StepEffects` is
the point of the protocol: a step that may have done something is done or marked
as running, and a caller that is about to run one finds it untouched. For the
program, `RunnerHasProgram` and `CallEffects` say how far the runner is ahead of
the stored results: by one call at most, and then the program is stored as
running, which nobody runs again. A restart, which takes every caller and the
runner at any stage, keeps all of this because a mark is stored before the tool
runs. `RefusesForCause` is inductive next to these: the claim that is left when a
call ends was left by the tool that ran last, since `OneHolder` admits no other.

### 4.8 Terminals

`ToolGateProofs` proves, for any number of claims and polls, any output and any
number of faults, under `TerminalsAssumption` (bounds are natural numbers):

| theorem | states |
|---|---|
| `TerminalInvHolds` | `TerminalSpec => []TerminalInv` |
| `TerminalIsSoundHolds` | `TerminalSpec => []TerminalIsSound` |

The invariant is about one claim at a time (`Driven`), since each has a thread
and a terminal of its own: a step concerns one pair, and `PairKeeps` reduces the
theorem to that pair. A thread never has more than the terminal wrote; a poll
that found `exit` belongs to a program that is over (`Over`); one that reports a
regular end has a cursor at the end of the output of a program that went well,
one that failed met a program that is over (`EndsWith`); a thread that finishes
has delivered as much; one that has stopped, or left without a fault, leaves
nothing alive. That `exit` is looked for after the output is read is what makes
the regular end complete: a program that is over writes no more.
`CompletedHasEnded` keeps it for the job: the thread of its last claim is gone
and its terminal over, and no later claim follows a completed job.

### 4.9 ContinuableAgents

`ContinuableAgentsProofs` proves, for any children and jobs and any number of
stale threads, under `Sensible`:

| theorem | states |
|---|---|
| `AgentsInvHolds` | `ChildSpec => []AgentsInv` |
| `FifoTurnsHolds` | `ChildSpec => []FifoTurns` |
| `IdleMeansDrainedHolds` | `ChildSpec => []IdleMeansDrained` |
| `EndedJobFreesChildHolds` | `ChildSpec => []EndedJobFreesChild` |

The fence of the registry is not needed for any of them: a lease may lapse at
any step of this model, and several threads of one child may be at work. What is
needed is in the invariant. A thread that has taken a message works on one
whose predecessors are all completed (`TurnIsFirst`), and completed messages stay
so; so even a thread that lost its job cannot complete a message out of turn. A
thread about to end its job has first put its child into another status, or the
child has a later job (`EndingIsAnnounced`); this is why the status is written
in the child's transaction and the job ended in the next one, and not the other
way round. The remaining parts say which job belongs to which child.

### 4.10 Subagents

`ContinuableAgentsProofs` proves, for any caps, any number of slots, calls and
restarts, under `SubagentsAssumption` (the caps are natural numbers):

| theorem | states |
|---|---|
| `TreeInvHolds` | `TreeSpec => []TreeInv` |
| `ChildrenAreCountedHolds` | `TreeSpec => []ChildrenAreCounted` |

A call reports what its threads remember, `ChildrenAreCounted` compares that with
what is stored. Between the two stand `WorkersKnown` (a thread beyond its start
has a node of the tree, and none before), `NodesDiffer` (no two threads share
one, so none writes over another's outcome), `OutcomesStored` (a thread that is
over left in its node what it remembers) and `CallsKnown` (all threads of a call
that returned are over, and none joins it later). The bound is preserved because
the check and the addition are one transaction, for both kinds of children;
the threads that race for a place need not be counted. Restarts cost nothing:
the nodes stay, the threads and calls that knew them go.

### 4.11 Conversation

`ConversationProofs` proves, for any messages and runs, any pool, and any number
of restarts and continued runs, under `ConversationConstants`:

| theorem | states |
|---|---|
| `ConversationInvHolds` | `Spec => []ConversationInv` |
| `TypesHold` | `Spec => []TypeOK` |
| `DeliveredOnceHolds` | `Spec => []DeliveredOnce` |
| `CompletedHasRunHolds` | `Spec => []CompletedHasRun` |
| `StartsInQueueOrderHolds` | `Spec => StartsInQueueOrder` |

A message passes through hands that do not share a lock: the request that posts
it, the queue, the dispatch, a run, a user who guides it. `MessagesPlaced` says
for each message where it is, and that it is nowhere else: while its request is
undecided it is not queued and has no run; while it waits it has no run; a
running item names the one run that can have it; a completed one has a run.
`DispatchChooses` and `PostChooses` say that a run that was chosen and not yet
recorded is nobody else's, which is what a fresh identifier gives and what a
second dispatch between two steps would take away. `CloseIsRight` is the part
that is easy to get wrong: a dispatch decides to close an item, and closes it in
a later step, in which the run's own thread may have closed it already;
releasing is right only if the run was never recorded.

`StartsInQueueOrder` is an action property: a run is recorded two steps after
its item was claimed, and the queue may be reordered in between. `ClaimedIsNext`
carries the order over: what stands before a claimed item is done with. It is
preserved by a reordering since that moves pending items only, behind all
others, which needs facts about `Reorder` for lists of any length. They are
proved from `SelectionProofs`.

### 4.12 Retrieval

`SessionStoreProofs` proves, for any texts, any size and overlap of the chunks,
and any clients, under `RetrievalAssumption` (a chunk has at least one character;
`config.py:187` asks for more):

| theorem | states |
|---|---|
| `ChunksCover` | the chunks of a text are finitely many spans and cover it from the first character to the last |
| `IndexInvHolds` | `IndexSpec => []IndexInv` |
| `FindsWhatIsIndexedHolds` | `IndexSpec => []FindsWhatIsIndexed` |

Two halves. `ChunksCover` is about one text: if the chunks from some place on did
not cover the rest, there would be such a place nearest to the end, but the
chunk that starts there ends at the end, or the next one starts later and not
beyond its end (`ChunkGoesOn`). That chunks solve their recursion at all is shown
in the same way (`CutsExist`, `ChunksFollow`).

`IndexInv` is about the rows. A client deletes words and vectors by identifiers
that it listed before its transaction. `OldAreTheirs` says that these belong to
the document it had found, whoever has written since: a write numbers its rows
anew (`Numbered`) and no row changes its document (`OneOwner`). So a client that
was overtaken deletes nothing of another document, and `IsWhole` holds: the rows
of the document that is listed are the chunks of its recorded text, made by one
write, and all have their words. They need not all have vectors, which is why
the property speaks of searches with and without. What a late client leaves
behind under the number of a removed document is the finding of section 3.2; the
proof shows that it never appears under the number of a listed one. The
property is about the hits of listed documents; `search` itself does not ask
whether a chunk's document is listed, which is why that finding is visible.

### 4.13 Compaction

`ToolGateProofs` proves, for any limit, any sizes and a history of any length,
under `HistoryAssumption` (limits and sizes are natural numbers):

| theorem | states |
|---|---|
| `HistoryInvHolds` | `HistorySpec => []HistoryInv` |
| `RequestKeepsTheTaskHolds` | `HistorySpec => []RequestKeepsTheTask` |

The loop may go on with a compacted list, so a list that is compacted has been
compacted before, and must again be one that can be. This is what `Sound` says
of a list: no message twice, and before every result, with results of the same
call only between them, the message that made the call (`CallsWhole`). Each part
of the compaction keeps it: spilling (`SpillIsSound`), dropping the instructions
and the latest input (`SelectionIsWhole`: neither is a call with results behind
it), cutting at the start of a group (`FromIsSound`; here a cut at any other
place fails), and putting the mandatory messages in front (`ConcatIsWhole`: they
have no results among them). `Awaiting` says of a list whose results are still
to come that it ends with their call, so that the next result lands in the right
place. `InputStands` is about the latest input: what the user said last is
the last user message of a list that is intact (`Latest`), and nobody but the
user adds a user message to such a list; so there the position that the code
looks at is the right one, and the message is kept (`LatestIsKept`). Of a list
that a compacted one has replaced nothing of the kind is invariant, and the run
`compaction_latest_input` shows why. That a request fits is a guard of the code;
which sum of sizes it compares does not matter to the rest.

### 4.14 Selections

`SelectionProofs` has the lemmas that the proofs about queues and histories rest
on: the elements of `Selected(s, S)` are those of `s` that are in `S`, in the
order of `s`, each as often; the first is the first. `Selected` is defined by
recursion on the length. The prover cannot be given an induction over it, as
induction theorems take the property as a parameter. `LeastNat` takes its place,
here and in the proofs of `Retrieval`: a nonempty set of numbers has a least
element, which is a fact about a set, and a set of counterexamples is one. Each lemma assumes a counterexample, takes the
least, and finds the contradiction one step below it. The recursion itself is
solved the same way, by a least length that has no solution.

### 4.15 What is only model-checked

Liveness under fairness, which the prover does not cover: `StoppedRunDrains`,
`QueueMoves`, `DueIsHandled`, `ActivationEnds`, `DelegationReturns`. Every
invariant and every other action property of a passing run is stated by a
theorem; `ControlReachesChildren`, which is `StopReachesChildren` within the run
`activation`, by `StopsReachChildren`.

## 5. Plan

Models: `Schedules` composed with `Conversation` (a schedule is put off while its
source run is active, `web.py:350`, not while its conversation is); the repeated
POST whose idempotency key only the queue looks at (`web.py:705`); overlapping
`run_code` calls; plugin trust; the candidates of the workspace memory.

## 6. Not modelled

Text and wording of prompts, events and reports; provider and network calls;
files, patches and containers behind the sandbox; git; analysis, browser,
language-server and shell tools; evidence and artifacts; the browser's
presentation (it is the `Poll` of `Conversation`); parsing of configuration and
arguments, doctor and benchmark. They have no state that two steps of this
program compete for, or they lie outside it. Of the modelled parts the following
is left out: the migration of an old JSON queue, the inbox of LightAgent and the
rollback of forked conversations (queue); input to a terminal; the evaluation of
program text and overlapping calls of one program (`run_code`); ranking and the
readers of file formats (retrieval); the text compression of earlier turns, whose
size for Chinese text may exceed its threshold (context); parameter schemas
(gate); discovery of commands (runner).
