------------------------------ MODULE CliRunner ------------------------------
(***************************************************************************)
(* CLIExecutionRunner (runner/service.py): calls of run_tool in one        *)
(* process share a semaphore; a call launches a subprocess, drains its two *)
(* pipes into event_logs under a deadline, and looks at the exit code.     *)
(*                                                                         *)
(* One step is the code between two awaits.  Output is counted in half     *)
(* lines: after an odd number of them a line lacks its newline.  A commit  *)
(* succeeds, fails without effect, or takes effect and raises.  Each call  *)
(* has a database session of its own, made and closed by the caller        *)
(* (orchestrator/actions.py), and is here the last tool of its job.        *)
(***************************************************************************)
EXTENDS Integers, Sequences, FiniteSets

CONSTANTS
  Calls,                \* calls of run_tool
  Streams,              \* stdout and stderr
  MaxTools,             \* the value of _CLI_SEMAPHORE
  MaxLaunches,          \* _MAX_LAUNCH_RETRIES + 1
  PipeSize,             \* half lines a pipe and its reader hold before the tool waits
  MaxPrints,            \* bound on the half lines of a stream
  MaxFaults             \* bound on database faults

ASSUME RunnerAssumption ==
  /\ IsFiniteSet(Calls)
  /\ MaxTools \in Nat \ {0}
  /\ MaxLaunches \in Nat \ {0}
  /\ PipeSize \in Nat \ {0}
  /\ MaxPrints \in Nat
  /\ MaxFaults \in Nat

VARIABLES
  permits,              \* free permits of the semaphore
  queue,                \* calls that wait for one, first come first served
  pc,                   \* where the call is
  outcome,              \* what it returned or raised
  tries,                \* launches tried
  proc,                 \* the subprocess
  printed,              \* half lines the tool has printed, per stream
  closed,               \* the tool has closed the stream
  taken,                \* half lines its drain has read
  drain,                \* the drain of the stream
  rows,                 \* its CLI_OUTPUT rows: numbers of the lines, by id
  marker,               \* the TIMEOUT row is in
  broken,               \* the session needs a rollback
  faults

pipeVars == <<printed, closed, taken, drain, rows, broken>>
vars == <<permits, queue, pc, outcome, tries, proc, pipeVars, marker, faults>>

\* Where a call holds a permit.
InPool == {"prepare", "launch", "pause", "collect", "kill", "marker", "finish"}

\* CLIArgumentValidationError, the three CLIExecutionErrors, an error of the
\* database, and any other exception.
Results == {"ok", "argument", "launch", "exit", "denied", "timeout", "database", "other"}

Init ==
  /\ permits = MaxTools
  /\ queue = <<>>
  /\ pc = [r \in Calls |-> "none"]
  /\ outcome = [r \in Calls |-> "none"]
  /\ tries = [r \in Calls |-> 0]
  /\ proc = [r \in Calls |-> "none"]
  /\ printed = [r \in Calls |-> [s \in Streams |-> 0]]
  /\ closed = [r \in Calls |-> [s \in Streams |-> FALSE]]
  /\ taken = [r \in Calls |-> [s \in Streams |-> 0]]
  /\ drain = [r \in Calls |-> [s \in Streams |-> "none"]]
  /\ rows = [r \in Calls |-> [s \in Streams |-> <<>>]]
  /\ marker = [r \in Calls |-> FALSE]
  /\ broken = [r \in Calls |-> FALSE]
  /\ faults = 0

Fault == /\ faults < MaxFaults
         /\ faults' = faults + 1

-----------------------------------------------------------------------------
(* run_tool and its semaphore.                                             *)

\* ArgumentValidator.validate, then the wait for a permit.
RunTool(r) ==
  /\ pc[r] = "none"
  /\ \/ /\ pc' = [pc EXCEPT ![r] = "waiting"]
        /\ queue' = Append(queue, r)
        /\ UNCHANGED outcome
     \/ /\ pc' = [pc EXCEPT ![r] = "returned"]
        /\ outcome' = [outcome EXCEPT ![r] = "argument"]
        /\ UNCHANGED queue
  /\ UNCHANGED <<permits, tries, proc, pipeVars, marker, faults>>

Acquire ==
  /\ queue # <<>>
  /\ permits > 0
  /\ permits' = permits - 1
  /\ pc' = [pc EXCEPT ![Head(queue)] = "prepare"]
  /\ queue' = Tail(queue)
  /\ UNCHANGED <<outcome, tries, proc, pipeVars, marker, faults>>

\* Seeded fault: an exception keeps the permit.
Return_KeepOnError(r, res) ==
  /\ permits' = IF res = "ok" THEN permits + 1 ELSE permits
  /\ pc' = [pc EXCEPT ![r] = "returned"]
  /\ outcome' = [outcome EXCEPT ![r] = res]

\* The call is over: the temporary directory is removed and the permit given
\* back, and the caller closes the session, which is then as good as new.
Return(r, res) ==
  /\ permits' = permits + 1
  /\ pc' = [pc EXCEPT ![r] = "returned"]
  /\ outcome' = [outcome EXCEPT ![r] = res]

Close(r) == broken' = [broken EXCEPT ![r] = FALSE]

\* The call goes on at `to` with its permit.
Goto(r, to) ==
  /\ pc' = [pc EXCEPT ![r] = to]
  /\ UNCHANGED <<permits, outcome>>

-----------------------------------------------------------------------------
(* _execute_with_timeout up to the launch.                                 *)

\* The workspace is resolved and mirrored in a temporary directory, and the
\* output path looked at (see ToolFiles).
Prepare(r) ==
  /\ pc[r] = "prepare"
  /\ \/ Goto(r, "launch")
     \/ \E res \in {"launch", "argument", "other"} : Return(r, res)
  /\ UNCHANGED <<queue, tries, proc, pipeVars, marker, faults>>

\* Seeded fault: the two pipes are drained one after the other.
StartDrains_InTurn(r) == \E s \in Streams : drain' = [drain EXCEPT ![r][s] = "reading"]

\* _collect_streams: gather starts a drain for each pipe.
StartDrains(r) == drain' = [drain EXCEPT ![r] = [s \in Streams |-> "reading"]]

\* Seeded fault: the loop is one short of its bound.
GivesUp_Early(r) == tries[r] + 1 >= MaxLaunches - 1

\* Seeded fault: the loop is one beyond its bound.
GivesUp_Late(r) == tries[r] >= MaxLaunches

\* The attempt that is being made is the last one.
GivesUp(r) == tries[r] + 1 >= MaxLaunches

\* One turn of the loop of _launch_with_retry: an OSError is tried again, any
\* other exception leaves the loop at once.
Launch(r) ==
  /\ pc[r] = "launch"
  /\ tries' = [tries EXCEPT ![r] = @ + 1]
  /\ \/ /\ Goto(r, "collect")
        /\ proc' = [proc EXCEPT ![r] = "running"]
        /\ StartDrains(r)
     \/ /\ ~ GivesUp(r)
        /\ Goto(r, "pause")
        /\ UNCHANGED <<proc, drain>>
     \/ /\ GivesUp(r)
        /\ Return(r, "launch")
        /\ UNCHANGED <<proc, drain>>
     \/ /\ Return(r, "other")
        /\ UNCHANGED <<proc, drain>>
  /\ UNCHANGED <<queue, printed, closed, taken, rows, marker, broken, faults>>

LaunchPause(r) ==
  /\ pc[r] = "pause"
  /\ Goto(r, "launch")
  /\ UNCHANGED <<queue, tries, proc, pipeVars, marker, faults>>

-----------------------------------------------------------------------------
(* The tool.                                                               *)

\* The tool waits where the pipe is full.
Full(r, s) == printed[r][s] - taken[r][s] >= PipeSize

Emit(r, s) ==
  /\ proc[r] = "running" /\ ~ closed[r][s]
  /\ ~ Full(r, s)
  /\ printed[r][s] < MaxPrints
  /\ printed' = [printed EXCEPT ![r][s] = @ + 1]
  /\ UNCHANGED <<permits, queue, pc, outcome, tries, proc, closed, taken, drain, rows,
                 broken, marker, faults>>

\* A tool may close a pipe and go on.
ClosePipe(r, s) ==
  /\ proc[r] = "running" /\ ~ closed[r][s]
  /\ closed' = [closed EXCEPT ![r][s] = TRUE]
  /\ UNCHANGED <<permits, queue, pc, outcome, tries, proc, printed, taken, drain, rows,
                 broken, marker, faults>>

Exit(r) ==
  /\ proc[r] = "running"
  /\ \E code \in {"exit 0", "exit 1"} : proc' = [proc EXCEPT ![r] = code]
  /\ UNCHANGED <<permits, queue, pc, outcome, tries, pipeVars, marker, faults>>

-----------------------------------------------------------------------------
(* drain: reads a chunk, splits off the complete lines and persists them   *)
(* before it reads on.  A drain whose call has returned goes on as a task  *)
(* of its own.                                                             *)

\* The lines that become complete when b half lines have been read, not a.
Complete(a, b) == [i \in 1 .. b \div 2 - a \div 2 |-> a \div 2 + i]

\* The unfinished line of a buffer at the end of the stream.
Remainder(n) == IF n % 2 = 1 THEN <<n \div 2 + 1>> ELSE <<>>

\* persist: without lines it does nothing.  A session that has failed refuses
\* to work until it is rolled back or closed.
Persist(r, s, lines, next) ==
  \/ /\ lines = <<>> \/ ~ broken[r]
     /\ rows' = [rows EXCEPT ![r][s] = @ \o lines]
     /\ drain' = [drain EXCEPT ![r][s] = next]
     /\ UNCHANGED <<broken, faults>>
  \/ /\ lines # <<>>
     /\ drain' = [drain EXCEPT ![r][s] = "failed"]
     /\ \/ /\ broken[r]
           /\ UNCHANGED <<rows, broken, faults>>
        \/ /\ ~ broken[r]
           /\ broken' = [broken EXCEPT ![r] = TRUE]
           /\ \/ UNCHANGED rows
              \/ rows' = [rows EXCEPT ![r][s] = @ \o lines]
           /\ Fault

\* Seeded fault: the lines are kept until the end of the stream.
ReadChunk_Hold(r, s) ==
  /\ drain[r][s] = "reading"
  /\ \E n \in taken[r][s] + 1 .. printed[r][s] : taken' = [taken EXCEPT ![r][s] = n]
  /\ UNCHANGED <<permits, queue, pc, outcome, tries, proc, printed, closed, marker,
                 drain, rows, broken, faults>>

ReadChunk(r, s) ==
  /\ drain[r][s] = "reading"
  /\ \E n \in taken[r][s] + 1 .. printed[r][s] :
        /\ taken' = [taken EXCEPT ![r][s] = n]
        /\ Persist(r, s, Complete(taken[r][s], n), "reading")
  /\ UNCHANGED <<permits, queue, pc, outcome, tries, proc, printed, closed, marker>>

\* Nothing more will come out of the pipe.
Ended(r, s) == proc[r] # "running" \/ closed[r][s]

\* Seeded fault: the rest of the buffer is dropped at the end of the stream.
EndOfStream_DropRest(r, s) ==
  /\ drain[r][s] = "reading"
  /\ Ended(r, s)
  /\ taken[r][s] = printed[r][s]
  /\ Persist(r, s, <<>>, "done")
  /\ UNCHANGED <<permits, queue, pc, outcome, tries, proc, printed, closed, taken, marker>>

\* Seeded fault: the buffer is persisted at the end even when it is empty.
EndOfStream_AlwaysFlush(r, s) ==
  /\ drain[r][s] = "reading"
  /\ Ended(r, s)
  /\ taken[r][s] = printed[r][s]
  /\ Persist(r, s, <<taken[r][s] \div 2 + 1>>, "done")
  /\ UNCHANGED <<permits, queue, pc, outcome, tries, proc, printed, closed, taken, marker>>

EndOfStream(r, s) ==
  /\ drain[r][s] = "reading"
  /\ Ended(r, s)
  /\ taken[r][s] = printed[r][s]
  /\ Persist(r, s, Remainder(taken[r][s]), "done")
  /\ UNCHANGED <<permits, queue, pc, outcome, tries, proc, printed, closed, taken, marker>>

-----------------------------------------------------------------------------
(* wait_for and what follows it.                                           *)

DrainFailed(r) == \E s \in Streams : drain[r][s] = "failed"

\* Seeded fault: the end of one pipe is taken for the end of the tool.
Collected_AnyDone(r) ==
  /\ pc[r] = "collect"
  /\ \E s \in Streams : drain[r][s] = "done"
  /\ proc[r] # "running"
  /\ Goto(r, "finish")
  /\ UNCHANGED <<queue, tries, proc, pipeVars, marker, faults>>

\* Both drains are through and the process has been waited for.
Collected(r) ==
  /\ pc[r] = "collect"
  /\ \A s \in Streams : drain[r][s] = "done"
  /\ proc[r] # "running"
  /\ Goto(r, "finish")
  /\ UNCHANGED <<queue, tries, proc, pipeVars, marker, faults>>

\* What comes out when a drain has failed: its error, or that of removing the
\* temporary directory, in which the process may be writing.
DrainErrors == {"database", "other"}

\* gather raises the error of one drain; the other drain and the process are
\* left to themselves.
CollectRaises(r) ==
  /\ pc[r] = "collect"
  /\ DrainFailed(r)
  /\ \E res \in DrainErrors : Return(r, res)
  /\ Close(r)
  /\ UNCHANGED <<queue, tries, proc, printed, closed, taken, drain, rows, marker, faults>>

\* A drain waits in read(), where it is cancelled; what its buffer holds is lost.
Cancelled(r) == [s \in Streams |-> IF drain[r][s] = "reading" THEN "cancelled"
                                   ELSE drain[r][s]]

\* Seeded fault: the drains go on while the process is killed.
Timeout_KeepDrains(r) ==
  /\ pc[r] = "collect"
  /\ ~ DrainFailed(r)
  /\ Goto(r, "kill")
  /\ UNCHANGED <<queue, tries, proc, pipeVars, marker, faults>>

\* The deadline cancels the stream task and waits for it, although the task may
\* have come to its end in the same turn of the loop.
Timeout(r) ==
  /\ pc[r] = "collect"
  /\ ~ DrainFailed(r)
  /\ drain' = [drain EXCEPT ![r] = Cancelled(r)]
  /\ Goto(r, "kill")
  /\ UNCHANGED <<queue, tries, proc, printed, closed, taken, rows, broken, marker, faults>>

\* If it ended with an error of a drain, that error comes out of the wait, past
\* the kill; the other drain may have been cancelled by then.
TimeoutRaises(r) ==
  /\ pc[r] = "collect"
  /\ DrainFailed(r)
  /\ drain' = [drain EXCEPT ![r] = Cancelled(r)]
  /\ \E res \in DrainErrors : Return(r, res)
  /\ Close(r)
  /\ UNCHANGED <<queue, tries, proc, printed, closed, taken, rows, marker, faults>>

\* Seeded fault: the signal is not sent.
Kill_NoSignal(r) ==
  /\ pc[r] = "kill"
  /\ Goto(r, "marker")
  /\ UNCHANGED <<queue, tries, proc, pipeVars, marker, faults>>

\* kill, for which a process that has exited is no error, and wait.
Kill(r) ==
  /\ pc[r] = "kill"
  /\ proc' = [proc EXCEPT ![r] = IF @ = "running" THEN "killed" ELSE @]
  /\ Goto(r, "marker")
  /\ UNCHANGED <<queue, tries, pipeVars, marker, faults>>

\* _write_system_marker and the CLIExecutionTimeoutError.
WriteSystemMarker(r) ==
  /\ pc[r] = "marker"
  /\ \/ /\ marker' = [marker EXCEPT ![r] = TRUE]
        /\ Return(r, "timeout")
        /\ UNCHANGED faults
     \/ /\ marker' \in {marker, [marker EXCEPT ![r] = TRUE]}
        /\ Return(r, "database")
        /\ Fault
  /\ Close(r)
  /\ UNCHANGED <<queue, tries, proc, printed, closed, taken, drain, rows>>

\* The exit code, and after a zero the copy of the results (see ToolFiles).
Finish(r) ==
  /\ pc[r] = "finish"
  /\ \/ proc[r] # "exit 0" /\ Return(r, "exit")
     \/ proc[r] = "exit 0" /\ \E res \in {"ok", "denied", "other"} : Return(r, res)
  /\ Close(r)
  /\ UNCHANGED <<queue, tries, proc, printed, closed, taken, drain, rows, marker, faults>>

\* The job of the call comes to its end, with the event that says so.
CloseJob(r) ==
  /\ pc[r] = "returned"
  /\ pc' = [pc EXCEPT ![r] = "closed"]
  /\ UNCHANGED <<permits, queue, outcome, tries, proc, pipeVars, marker, faults>>

-----------------------------------------------------------------------------
DrainStep(r, s) == ReadChunk(r, s) \/ EndOfStream(r, s)

CallStep(r) ==
  \/ Prepare(r) \/ Launch(r) \/ LaunchPause(r) \/ Collected(r) \/ CollectRaises(r)
  \/ Kill(r) \/ WriteSystemMarker(r) \/ Finish(r) \/ CloseJob(r)

Next ==
  \/ Acquire
  \/ \E r \in Calls : \/ RunTool(r) \/ CallStep(r) \/ Timeout(r) \/ TimeoutRaises(r)
                      \/ Exit(r)
                      \/ \E s \in Streams : Emit(r, s) \/ ClosePipe(r, s) \/ DrainStep(r, s)

Spec == Init /\ [][Next]_vars

\* The event loop runs calls and drains that can go on, and the semaphore serves
\* its queue.  Nothing is assumed of the tool.
LoopFairness ==
  /\ WF_vars(Acquire)
  /\ \A r \in Calls : /\ WF_vars(CallStep(r))
                       /\ \A s \in Streams : WF_vars(DrainStep(r, s))

\* Time passes as well: wait_for's timer goes off.
FairSpec == Spec /\ LoopFairness /\ \A r \in Calls : WF_vars(Timeout(r))

LoopSpec == Spec /\ LoopFairness

-----------------------------------------------------------------------------
(* Properties.                                                             *)

\* The values of the semaphore, the calls, the processes and the drains; no call
\* launches more often than _MAX_LAUNCH_RETRIES allows.
TypeOK ==
  /\ permits \in 0 .. MaxTools
  /\ queue \in Seq(Calls)
  /\ pc \in [Calls -> InPool \cup {"none", "waiting", "returned", "closed"}]
  /\ outcome \in [Calls -> Results \cup {"none"}]
  /\ tries \in [Calls -> 0 .. MaxLaunches]
  /\ proc \in [Calls -> {"none", "running", "exit 0", "exit 1", "killed"}]
  /\ printed \in [Calls -> [Streams -> 0 .. MaxPrints]]
  /\ closed \in [Calls -> [Streams -> BOOLEAN]]
  /\ taken \in [Calls -> [Streams -> 0 .. MaxPrints]]
  /\ drain \in [Calls -> [Streams -> {"none", "reading", "done", "failed", "cancelled"}]]
  /\ rows \in [Calls -> [Streams -> Seq(Nat)]]
  /\ marker \in [Calls -> BOOLEAN]
  /\ broken \in [Calls -> BOOLEAN]
  /\ faults \in 0 .. MaxFaults

Holders == {r \in Calls : pc[r] \in InPool}

\* Every process at work belongs to a call that holds one of the permits, of
\* which there are never more than the semaphore was made with, so that at most
\* MaxTools tools run; the exception is a process that the failure of a drain's
\* commit has cut loose.
ProcessNeedsPermit ==
  /\ permits + Cardinality(Holders) = MaxTools
  /\ \A r \in Calls : proc[r] = "running" => pc[r] \in InPool \/ DrainFailed(r)

\* A call that gives up launching has tried as often as it may, and has left no
\* process behind; one that never came to launch has not tried at all.
GivesUpAfterAllTries ==
  \A r \in Calls : outcome[r] = "launch" =>
    proc[r] = "none" /\ tries[r] \in {0, MaxLaunches}

\* The rows of a stream are its lines from the first on, each once and in order,
\* however chunks, commits and the two drains interleave; a drain that was not
\* disturbed has persisted every complete line it has read, one that saw the end
\* of its pipe everything, and one that a timeout cancelled all complete lines
\* that it had read: what was in the pipe is lost, and an incomplete line.
LinesInOrder ==
  \A r \in Calls, s \in Streams :
    LET have == Len(rows[r][s])
    IN /\ \A i \in 1 .. have : rows[r][s][i] = i
       /\ drain[r][s] \in {"none", "reading", "cancelled"} => have = taken[r][s] \div 2
       /\ drain[r][s] = "done" => have = (printed[r][s] + 1) \div 2
       /\ drain[r][s] = "failed" => have <= (printed[r][s] + 1) \div 2

\* A call succeeds only when the tool has exited with zero and all it printed is
\* in the log.
SuccessIsComplete ==
  \A r \in Calls : outcome[r] = "ok" =>
    /\ proc[r] = "exit 0"
    /\ \A s \in Streams : Len(rows[r][s]) = (printed[r][s] + 1) \div 2

\* Once the TIMEOUT row is in, the process is dead and stays so, and no output
\* of the call follows.
MarkerIsLast ==
  [][\A r \in Calls : marker[r] => proc[r] # "running" /\ rows'[r] = rows[r]]_vars

\* Output that arrives after the end of its job comes from a drain whose sister
\* has failed.
LateOutputIsOrphaned ==
  [][\A r \in Calls : pc[r] = "closed" /\ rows'[r] # rows[r] =>
       outcome[r] \in DrainErrors /\ DrainFailed(r)]_vars

\* The runner keeps the promise of ToolCalls.
Phase(r) == CASE pc[r] \in {"none", "waiting"} -> "idle"
              [] pc[r] \in InPool -> "active"
              [] pc[r] \in {"returned", "closed"} -> "done"

Contract == INSTANCE ToolCalls WITH
  phase <- [r \in Calls |-> Phase(r)],
  shown <- [r \in Calls |-> [s \in Streams |-> Len(rows[r][s])]],
  result <- outcome

\* Seen from outside, the calls are calls of ToolCalls: bounded in number, their
\* output in order, complete when they succeed, and silent once they returned.
KeepsContract == Contract!Spec

\* Every call comes to its end, though tools may hang and print for ever and
\* processes may be cut loose: neither holds up the calls that wait.
CallsEnd == \A r \in Calls : pc[r] = "waiting" ~> pc[r] = "closed"

\* A complete line is in the log before long, without waiting for the tool to
\* end, to close its other pipe or to run into the deadline.
OutputIsShown ==
  \A r \in Calls, s \in Streams, n \in 1 .. MaxPrints \div 2 :
    (pc[r] = "collect" /\ printed[r][s] >= 2 * n) ~>
      (Len(rows[r][s]) >= n \/ pc[r] # "collect")

\* A tool that waits for room in a pipe gets it while its call waits for it, also
\* when it prints on one pipe only and keeps the other open: tool and drains never
\* wait for each other until the deadline.
PipesAreEmptied ==
  \A r \in Calls, s \in Streams :
    (pc[r] = "collect" /\ Full(r, s)) ~> (~ Full(r, s) \/ pc[r] # "collect")

\* A process ends, by itself or by the kill that follows the deadline; only one
\* that the failure of a drain's commit has cut loose may run for ever.
ProcessesEnd ==
  \A r \in Calls : proc[r] = "running" ~> proc[r] # "running" \/ DrainFailed(r)
=============================================================================
