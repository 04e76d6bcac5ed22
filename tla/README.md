# A TLA+ model of the CLI execution platform

The platform takes a prompt, asks a language model for a plan of actions, runs
the plan (files, and OpenSCAD as a subprocess) in a workspace of its own, and
streams the progress to browsers. This directory models how a job moves through
it, what a failed or retried attempt leaves behind, how a tool is run and its
output recorded, what the model is told of a failure, and what a watcher sees.

## The system

| Part | Code | State | Operations |
|---|---|---|---|
| Job creation, refinement | `jobs/router.py`, `jobs/service.py` | `jobs`, `event_logs` rows, workspace | `create_job`, `create_refinement_job` |
| Gate | `orchestrator/concurrency.py` | semaphore and its queue | `slot` |
| Orchestrator | `orchestrator/service.py` | where each task is | `run`, `_run_in_slot` |
| Repository, recovery | `orchestrator/repository.py`, `recovery.py` | status, plan, log | `transition`, `append_event`, `save_action_plan`, `recover_stale` |
| Attempt loop | `llm/retry.py`, `client.py`, `parser.py`, `validator.py` | attempt number, feedback | `generate_actions` and its stages |
| SCAD check, diagnostics | `llm/scad_validator.py`, `runner/diagnostics.py` | none | `_mask_non_code`, `validate`, `build_runtime_feedback` |
| Action executor | `orchestrator/actions.py`, `storage/local.py` | workspace, artifacts, snapshots, `artifacts` rows | `execute_attempt`, `begin_attempt`, `rollback_attempt`, `complete_attempt` |
| CLI runner | `runner/service.py`, `exceptions.py` | semaphore, processes, temporary directory | `run_tool`, `_execute_with_timeout`, `_launch_with_retry`, `_collect_streams` |
| Downloads | `jobs/router.py`, `jobs/service.py` | none | by name, by id, list |
| SSE stream | `sse/*` | connection count, generator | `stream_job_events`, `stream`, `fetch_snapshot` |
| Lifespan | `main.py` | process up or down | start-up recovery, shutdown |

A request thread writes the job's row, its workspace and its first event, and
registers a background task. The task waits for one of two slots, sets the job
RUNNING, copies the parent's files for a refinement, and enters the attempt
loop. An attempt asks for a plan, parses and validates it, executes it over a
snapshot of the workspace, promotes artifacts, commits their rows and saves the
plan. A tool action waits for one of two permits, runs OpenSCAD in a temporary
directory under a deadline, and writes its output to the event log line by line.
Then the job is COMPLETED; any error on the way makes it FAILED. A stream polls
the status and the events of a job independently of all this.

What makes it hard: several commits per operation, each of which may fail or
take effect without an acknowledgement; retries over shared files; crashes that
lose tasks and leave rows; recovery by age in a process that may not be the only
one; a check in a request that a task relies on minutes later; a deadline that
cancels two drains in the middle of a line while a process is being killed;
and streams that read status and events separately while connections come and
go. `PROJECT.json` lists these hazards at their lines, with the properties aimed
at each.

## The modules

Jobs:

* `JobLifecycle` is the abstract specification: statuses and events of a job as
  a reader of the tables may see them. A change of status and its event appear
  together, and a job that has ended gets no further event. `CLI_OUTPUT` lines
  are left out, there and in `Orchestrator`.
* `Orchestrator` follows jobs from the request to their end. One step is one
  commit or one await. `pc[j]` says where the task of job `j` is; the other
  variables are database columns, the gate, and the processes. `Commit` gives a
  commit its three outcomes: success, failure without effect, and effect with an
  exception. `stale` abstracts `updated_at` to "15 minutes old". `files`
  abstracts the two inherited files to absent, within 5MB, or over it.
  `rows` and `plan` record which attempt they come from. The stages of
  `GeneratePlan` are abstracted to the class of error they end with.
* `ActionAttempt` looks into one job's attempts: files carry the number of the
  attempt that wrote them. It models the snapshot, the actions, promotion, the
  two commits, and the steps of the rollback, each of which may fail half way.
  Downloads are reads of that state. A plan names each artifact once, and a copy
  that breaks off counts as made or not made.

Tools:

* `ToolCalls` is the abstract specification of `run_tool`: at most `MaxTools`
  calls at work, lines in order, all of them shown when a call succeeds.
* `CliRunner` is the runner: the process-wide semaphore, launches and their
  retries, the subprocess, the two drains with their commits, the deadline with
  cancellation, kill and TIMEOUT marker, and the exit code. One step is the code
  between two awaits. Output is counted in half lines, so that a line may lack
  its newline; a pipe holds `PipeSize` of them, and a tool that finds it full waits.
  A tool may close a pipe and go on. A launch fails with an `OSError`, which is
  tried again, or with another exception, which is not. The module implements `ToolCalls` under the mapping `Contract`.
* `LineDrain` is one drain at the level of bytes: chunks, lines, decoding,
  carriage returns and the tail. `CliRunner` has its commits and interleavings.
* `ToolFiles` is the temporary directory: what is copied in, what the tool does
  there, what counts as a result, what the copy-back refuses, and how it can
  break off half way. A file is the number of the write it comes from, which
  stands for its content, size and mtime.

Feedback to the model:

* `ScadMask` is the scan that blanks comments and strings, one step per turn of
  its loop, with a reference definition of comments and strings (`Masked`).
* `RetryFeedback` is what an attempt is told of the one before it: the report of
  the SCAD check with its budget, and the diagnosis of a failed tool. Texts are
  their lengths. Which rules are broken and what a tool printed is the
  environment's choice.

Watching:

* `SseStream` models the stream route and its generator for the clients of one
  job. The writers of the job's events are its environment: an event draws its
  id with the INSERT and is seen after the COMMIT, and `MaxWriters` transactions
  may be open at once. A generator's local variables are one record per client.
  `unstarted` counts generators whose client left before their first step: that
  Starlette sends the response headers before it iterates the body, and that a
  generator which never started does not run its `finally`, is external
  behaviour.

`MCOrchestrator`, `MCActionAttempt`, `MCSseStream` and `MCCliRunner` instantiate
the first four for TLC; where a run checks liveness no symmetry is declared.
`MCSequential` puts the four sequential modules (`RetryFeedback`, `ScadMask`,
`ToolFiles`, `LineDrain`) side by side: they share no variables, and a behaviour
explores one of them from all its initial states. `OrchestratorProofs`,
`JobProofs`, `ActionAttemptProofs`, `CliRunnerProofs`, `LineDrainProofs`,
`SequentialProofs` and `SseStreamProofs` hold the theorems, `SequenceLemmas` the
facts about recursion and sequences that two of them share.

Definitions named `Def_Variant`, marked "Seeded fault", are plausible bugs in
`Def`. Replacing `Def` by one of them makes the property it is paired with in
`PROJECT.json` fail. They are not part of the specification.

## The runs

| Run | Bounds | Checks |
|---|---|---|
| `orch_single` | 1 process, 2 jobs, 1 slot, 2 attempts, 1 fault, 1 crash, `FairSpec` | `TypeOK`, `CompletedByItsPlan`, `WorkerHasItsJob`, `ImplementsLifecycle`, `TasksEnd`, `JobsSettle` |
| `orch_overlap` | 2 processes, 2 jobs, 1 slot, 1 attempt, 1 fault, 1 crash | `SlotsAddUp`, `LogTellsStatus`, `ParentStaysRefinable`, `TerminalIsFinal`, `RecoveryBeforeService`; `WorkerHasItsJob` and `ImplementsLifecycle` need one process |
| `attempt_files` | 2 paths, 2 attempts, 2 faults, 1 crash | `AttemptsStartClean`, `CompletedServesItsArtifacts`, `FailureLeavesNoTrace`, `SnapshotsRemoved` |
| `cli_call` | 1 call, 2 pipes that hold 3 half lines, 2 launches, 4 half lines each, 2 faults, `LoopSpec` | `TypeOK`, `GivesUpAfterAllTries`, `LinesInOrder`, `SuccessIsComplete`, `MarkerIsLast`, `LateOutputIsOrphaned`, `KeepsContract`, `OutputIsShown`, `PipesAreEmptied` |
| `cli_pool` | 2 calls, 1 permit, 1 pipe that holds 1 half line, 1 launch, 2 half lines, 1 fault, `FairSpec` | `ProcessNeedsPermit`, `CallsEnd`, `ProcessesEnd` |
| `sse_safety` | 2 clients, 1 connection, batches of 2, 3 ids, 1 retry, 2 faults, 1 drop, 1 restart, `FairSpec` | `SlotsAddUp`, `NoEventSkipped`, `EndIsComplete`, `WatchersLearnTheEnd` |
| `sequential` | feedback: 3 attempts, all sets of rules with one or two long lines each | `FeedbackBounded`, `ReportTellsEnough` |
| | scan: every text of up to 5 characters of 7 kinds | `MasksTokens`, `LinesKept` |
| | files: 3 paths, 5 writes | `OtherFilesKept`, `SuccessBringsAll` |
| | drain: every output of up to 5 bytes, chunks of up to 3 | `RowsAreLines`, `TailIsRecent` |

The type invariants of the other modules are part of the inductive invariants
below, and so hold for every instance. The safety properties of `Orchestrator`
are shared out between its two runs, each to the one in which it is harder to
keep; the theorems cover both.

Why the bounds are enough to reach the interesting cases: two jobs and one slot
give contention, a queue timeout that races a release, and a refinement of one
job by the other. Two attempts give a retry after a failure. A fault in any
commit, with or without effect, can meet a crash. Three half lines are a line
and one that lacks its newline; with a fourth a tool can fill a pipe and find it
emptied. The drains of the two pipes commit in any order and may both fail. With
two launches one failure is tried again and two are the end. Five bytes give a line break, a carriage return and a
character of two bytes cut by a chunk in every order; five characters hold the
shortest comment, and a string with an escaped quote. Three ids with batches of
two give a full batch followed by another, and gaps. Two faults let a rollback
fail that another fault began. Lines of 301 characters are longer than a snippet
may be, and a tail of 4001 is longer than an error keeps. `MAX_CONCURRENT_JOBS`
is 2, the tools are 2, the launches 3, the attempts 3 and the connections 20 in the code: the
theorems cover every value.

`CHECK_DEADLOCK FALSE` stands where the model comes to rest: a job whose attempts
are over, calls that have returned, input that is used up, and clients that
have been told of the end.

Fairness. In `Orchestrator`, tasks go on because what they wait for has a
timeout (HTTP, subprocess, queue), a free slot goes to the first waiter
(`asyncio.Semaphore` is first come first served), the container is restarted when
it dies (`restart: unless-stopped` in `docker-compose.yml`), and time passes.
Crashes, faults, requests and shutdown are not fair. In `CliRunner`
(`LoopFairness`), the event loop runs every call and every drain that can go on,
and a free permit goes to the first waiter; `FairSpec` adds the timer of
`wait_for`. That a tool prints, closes a pipe or exits is never assumed.
`OutputIsShown` (a whole line becomes a row) and `PipesAreEmptied` (a full pipe is
read, so that the tool does not wait for ever) are checked in `LoopSpec`, without
the timer, so that it is not the deadline that makes them true. In
`SseStream`, the event loop runs generators, abandoned ones are closed in the
end, and an `EventSource` reconnects.

### Where documentation and code disagree

Five runs check a sentence of the documentation, or of a docstring, and find it
violated. `PROJECT.json` quotes the sentences.

* `orch_settle`: a job whose task is lost while CREATED never settles, since
  recovery selects RUNNING jobs. (`JobsSettle` is what does hold.)
* `attempt_promote`: rows of a failed attempt stay in the `artifacts` table of a
  FAILED job. They are committed before the attempt has succeeded. In the shortest
  trace that commit takes effect and raises; a `save_action_plan` that fails after
  it leads to the same end. The rollback restores files only. (The list route refuses FAILED jobs; the
  download by id looks for the file in the workspace.)
* `attempt_download`: the download by name serves artifacts of a RUNNING job.
* `sse_slots`: a client that leaves before the generator starts costs a slot
  until the process is restarted.
* `scan_newlines`: with `mask_strings` a newline inside a string becomes a blank,
  against the docstring of `_mask_non_code`. (Without it newlines are kept, which
  is the theorem `StripKeepsNewlines`; `LinesKept` asks that no string contains a
  line break.)

One sentence needs no run: unit 1's code summary (line 35) says that a graceful
shutdown turns RUNNING and CREATED jobs to FAILED in `lifespan`. `Shutdown`, like
the code, changes no status.

Some passing properties have an exception that the documentation does not make:

* `ProcessNeedsPermit` and `ProcessesEnd` exempt a process one of whose drains has
  failed. Its permit is released while it runs, and only a timeout leads to
  `kill`, so there may be more processes than permits, and one without a
  deadline. Unit 3's NFR requirements (1.1, 1.2) know no such exception.
* `NoEventSkipped` needs one writer at a time. With `MaxWriters = 2`
  in `Sse_safety.cfg` TLC finds a stream whose cursor passes an id that is
  committed late. Two drains share a session and an event loop and
  cannot do this; a recovering process and a task of another process can.

## The proofs

Every theorem holds for all values of the constants that the module's `ASSUME`
allows (counts are natural numbers, sets that are counted are finite), and for
any number of faults, crashes and restarts. Each component has one inductive
invariant, a lemma per action or group of actions that it survives, and then one
short theorem per property that follows from it.

`OrchestratorProofs` (`TypeCorrect`, `SlotsNeverLost`). Neither
property is inductive alone. `Base` adds `Tasks`, which ties the program counter
to status, owner and attempt (a task about to start an attempt has one left, a
task that runs has an owner whose gate it may hold a slot of), and `Waiters`: a
queue holds exactly waiting tasks of its own process, each once, so that the head
of the queue takes a slot it does not yet hold. `GotoKeepsSlots` shows that a step
which moves one task keeps the sum, since the slot comes back exactly when the
task leaves the slot's region.

`JobProofs` (`LogIsTrue`, `CompletedAsPlanned`,
`ParentsStay`, `EndIsFinal`, `RecoveryComesFirst`; for one process also
`WorkersKeepTheirJobs` and `LifecycleKept`). `JobsInv` adds to `Base`: `Plans`
(what rows and plan of a job are at each point of its task: rows of an attempt
are there only after its commit, and a plan only with the rows of the same
attempt), `LiveUp` (a live task's process serves) and `Swept` (a recovering
process has every stale RUNNING job on its list). Every step is shown to be of
one of a few kinds for each job: nothing, a note in the log, or a change of
status with its event. The log and the refinement follow from the kinds. One
process is assumed, as `\A p, q \in Procs : p = q`, exactly where it is needed:
with two, recovery may fail a job that the other still works on, and the task
then goes on writing.

`ActionAttemptProofs` (`EveryAttemptStartsClean`, `CompletedIsServed`,
`FailureIsTraceless`, `NoSnapshotStays`). The invariant has a part for the
snapshot (while an attempt runs, it equals the workspace the job began with), one
for the way forward, one for the way back (what the rollback has restored so far),
and one for the outcome.

`CliRunnerProofs` (`TypeCorrect`, `ProcessesHavePermits`, `LaunchesAreTried`,
`OutputInOrder`, `SuccessShowsAll`). `Pool` says that permits and calls inside
add up; `Call` relates a call's place to its process and outcome; `Pipe` relates
what a tool printed, what a drain has read and holds, and the rows. A process
that runs without a permit must belong to a call one of whose drains failed.

From the same invariant follow `TimeoutEndsOutput`, `LateOutput` and
`RunnerKeepsContract`. The last shows that every step of `CliRunner` is a step of
`ToolCalls` or a stutter, under the mapping that forgets pipes, processes and
launches.

`SequentialProofs`. `WorkspaceProtected` and `ResultsComplete` hold for any paths
and tool. For `FeedbackStaysShort`
and `ReportIsFair` the bound of 1500 characters and the promise of two violations
rest on the lemma that one block has at most 696 characters, so that two of them
and the closing line always fit.

`SseStreamProofs`. `SlotsNeverLost` needs no assumption on the writers.
`NothingSkipped` and `EndComesLast` assume `MaxWriters = 1`, which they need (see
above). Their invariant `Received` says for each client that it has
everything up to its cursor and up to its last event, that the batch in hand is
the beginning of what follows the cursor (all of it up to the terminal event, if
the batch is the last one), and that a terminal status it was told is the job's.

The same module has the scan on texts of any length: `StripKeepsNewlines`,
`ScanMasksTokens` and `ScanKeepsLines`. The code decides from its state and the
next two characters; the reference cuts the whole text into tokens. `TokenInv`
ties them together: `Where` says, for each state of the scan, in which kind of
token the position lies, where that token started and that it has not ended yet
(in a string the parity of the backslashes before a position is what the reference
calls escaped), and `Right` that all characters written so far are the masked ones.
There is a lemma per branch of the loop (`CodeStep`, `QuoteStep`, `OpenStep`,
`StringStep`, `LineStep`, `BlockStep`). `ScanKeepsLines` follows from the same
invariant: under its premise, masked and original text have the same line breaks.

`LineDrainProofs` (`DrainKeepsLines`, `DrainKeepsTail`), for output of any length,
chunks of any size and any limits of the tail. The code cuts bytes at line feeds
and decodes each piece; the reference decodes everything and cuts the text. The
argument has three parts. `DecodeIsText`: the decoder's loop computes the text of
its bytes. `RowsCut`: a line feed cuts the text, and the lines, of any bytes in two
that do not depend on each other, because no character of several bytes contains
a line feed. `SplitCuts`: the pieces before the last are what the line feeds cut
off, and the last has none. The inductive invariant `DrainInv` then says that what
has been read is some whole lines, whose lines are the rows, followed by the
buffer, which has no line feed. `RowsAreLines` itself is not inductive: it does not
mention the buffer. `DrainKeepsTail` needs only that a deque of limited length
after two batches is what it would be after one.

The provers have no induction principle for data, and the reference definitions
are recursive functions. `SequenceLemmas` derives what is needed from the least
element of a set of numbers: induction up to N for a set (`Upto`), the existence
of a function given by a first value and a table of steps (`Recursion`), and of a
fold over a sequence (`FoldExists`, `FoldTyped`).

Only model-checked: liveness (`TasksEnd`, `JobsSettle`, `CallsEnd`,
`ProcessesEnd`, `OutputIsShown`, `PipesAreEmptied`, `WatchersLearnTheEnd`), which is out of the
prover's reach. Every invariant and every action property of the passing runs is
also a theorem.

## What is not modelled

* Checks of text whose verdict is all that matters to the rest: CLI arguments
  (`runner/validator.py`), paths, the rules of the SCAD check, the patterns of the
  diagnostics, the schema of a plan. The verdict is a nondeterministic choice.
* Text itself: prompts, replies, wording of messages, encoding of events. Where a
  length is bounded by the code, `RetryFeedback` has the lengths.
* Stream tokens (an HMAC), the rate limiter (a library's decorator), configuration,
  schemas, exception handlers and migrations: declarations, or code that
  refuses a request without a change of state.
* The database's connection pool. A commit that cannot get a connection is
  one of the failed commits.
* Children of the tool: in the container OpenSCAD runs under a wrapper, and whether
  a kill of the wrapper reaches them is up to the operating system.
* A `Last-Event-ID` of an event of the job which the client has not received: an
  `EventSource` sends only ids it has received, and who sends another asks to skip
  events.
* Read-only lookups (`get_job`, `get_event_logs`) and `clean_workspace`, which the
  application does not call.
* `CliRunner` and `ActionAttempt` are not composed into one specification: to
  `ActionAttempt` a tool is a step that writes files and may fail. What it relies
  on is what `ToolFiles` and `ToolCalls` promise of a call.
