---------------------------- MODULE Orchestrator ----------------------------
(***************************************************************************)
(* Jobs from the request that creates them to their terminal status:       *)
(* jobs/router.py and jobs/service.py (creation, refinement),              *)
(* orchestrator/* (gate, run, repository, stale recovery), llm/retry.py    *)
(* (the attempt loop) and the lifespan handler of main.py.                 *)
(*                                                                         *)
(* One step is one database commit, or one await, of one task.  A commit   *)
(* has three outcomes: it succeeds, it fails and leaves nothing, or it     *)
(* takes effect and the caller still gets an exception because the         *)
(* connection broke before the answer came.                                *)
(***************************************************************************)
EXTENDS Integers, Sequences, FiniteSets

CONSTANTS
  Jobs,                 \* jobs that may be requested
  Procs,                \* application processes (one uvicorn worker each)
  MaxConcurrentJobs,    \* MAX_CONCURRENT_JOBS, slots of a process's gate
  MaxAttempts,          \* len(RETRY_DELAYS_SECONDS) + 1
  MaxFaults,            \* bound on database and storage faults
  MaxCrashes,           \* bound on process crashes
  None                  \* "no parent job", "no owner"

ASSUME ConstantsAssumption ==
  /\ IsFiniteSet(Jobs)
  /\ None \notin Jobs \cup Procs
  /\ MaxConcurrentJobs \in Nat \ {0}
  /\ MaxAttempts \in Nat \ {0}
  /\ MaxFaults \in Nat
  /\ MaxCrashes \in Nat

VARIABLES
  \* the database
  status,               \* jobs.status, "NONE" while there is no row
  parent,               \* jobs.parent_job_id
  stale,                \* jobs.updated_at lies 15 minutes or more in the past
  plan,                 \* attempt whose plan is in jobs.action_plan, 0 if none
  rows,                 \* attempts whose artifacts rows are committed
  log,                  \* codes of the job's SYSTEM, SYSTEM_EVENT and
                        \*   SECURITY_ALERT rows of event_logs, in id order
  \* the workspace
  files,                \* the two inherited files: absent, within 5MB, or over
  \* the processes
  up,                   \* "down", "recovering", "up", or "stopped" by a signal
  sweep,                \* stale jobs that the recovery of the process has left
  permits,              \* free slots of the process's gate
  queue,                \* tasks waiting for a slot, first come first served
  \* the request and background task of each job
  pc, owner, attempt,
  \* bounds
  faults, crashes

dbVars == <<status, parent, stale, plan, rows, log>>
gateVars == <<permits, queue>>
procVars == <<up, sweep>>
vars == <<dbVars, files, procVars, gateVars, pc, owner, attempt, faults, crashes>>

Lifecycle == INSTANCE JobLifecycle
Terminal == Lifecycle!Terminal

\* Where a task is while it holds a slot of its gate ...
InSlot == {"start", "context", "attempt", "generate", "execute", "rows", "save",
           "finish", "complete", "sleep", "fail"}

\* ... and where it is while it runs at all.
Live == InSlot \cup {"workspace", "firstEvent", "scheduled", "queued", "queueTimeout"}

Init ==
  /\ status = [j \in Jobs |-> "NONE"]
  /\ parent = [j \in Jobs |-> None]
  /\ stale = [j \in Jobs |-> FALSE]
  /\ plan = [j \in Jobs |-> 0]
  /\ rows = [j \in Jobs |-> {}]
  /\ log = [j \in Jobs |-> <<>>]
  /\ files = [j \in Jobs |-> "absent"]
  /\ up = [p \in Procs |-> "down"]
  /\ sweep = [p \in Procs |-> {}]
  /\ permits = [p \in Procs |-> MaxConcurrentJobs]
  /\ queue = [p \in Procs |-> <<>>]
  /\ pc = [j \in Jobs |-> "none"]
  /\ owner = [j \in Jobs |-> None]
  /\ attempt = [j \in Jobs |-> 0]
  /\ faults = 0
  /\ crashes = 0

-----------------------------------------------------------------------------
(* What the steps are made of.                                             *)

Fault == /\ faults < MaxFaults
         /\ faults' = faults + 1

\* Seeded fault: the slot is given back although the wait for it timed out.
Goto_ReleaseUnheld(j, to) ==
  /\ pc' = [pc EXCEPT ![j] = to]
  /\ permits' = IF pc[j] \in InSlot \cup {"queued"} /\ to \notin InSlot
                THEN [permits EXCEPT ![owner[j]] = @ + 1]
                ELSE permits

\* Seeded fault: an exception in the slot keeps it.
Goto_KeepOnFailure(j, to) ==
  /\ pc' = [pc EXCEPT ![j] = to]
  /\ permits' = IF pc[j] \in InSlot \ {"fail"} /\ to \notin InSlot
                THEN [permits EXCEPT ![owner[j]] = @ + 1]
                ELSE permits

\* The task goes on at `to`; slot() gives its slot back in a finally clause,
\* so however the task leaves the slot.
Goto(j, to) ==
  /\ pc' = [pc EXCEPT ![j] = to]
  /\ permits' = IF pc[j] \in InSlot /\ to \notin InSlot
                THEN [permits EXCEPT ![owner[j]] = @ + 1]
                ELSE permits

\* A commit with its three outcomes: the task goes on at `ok` or at `raised`.
Commit(j, effect, noEffect, ok, raised) ==
  \/ effect /\ Goto(j, ok) /\ UNCHANGED faults
  \/ effect /\ Goto(j, raised) /\ Fault
  \/ noEffect /\ Goto(j, raised) /\ Fault

Record(j, code) == log' = [log EXCEPT ![j] = Append(@, code)]

\* OrchestratorRepository.append_event
AppendEvent(j, code, ok, raised) ==
  Commit(j, Record(j, code), UNCHANGED log, ok, raised)

\* Seeded fault: the status is set without a look at the present one.
Transition_Unconditional(j, expected, target, code, ok, refused, raised) ==
  Commit(j, /\ status' = [status EXCEPT ![j] = target]
            /\ stale' = [stale EXCEPT ![j] = FALSE]
            /\ Record(j, code),
         UNCHANGED <<status, stale, log>>, ok, raised)

\* Seeded fault: the event has a transaction of its own, and is lost with it.
Transition_TwoCommits(j, expected, target, code, ok, refused, raised) ==
  /\ status[j] \in expected
  /\ status' = [status EXCEPT ![j] = target]
  /\ stale' = [stale EXCEPT ![j] = FALSE]
  /\ AppendEvent(j, code, ok, raised)

\* OrchestratorRepository.transition: the conditional UPDATE and the event in
\* one transaction; no row in an expected status returns False.
Transition(j, expected, target, code, ok, refused, raised) ==
  \/ /\ status[j] \in expected
     /\ Commit(j, /\ status' = [status EXCEPT ![j] = target]
                  /\ stale' = [stale EXCEPT ![j] = FALSE]
                  /\ Record(j, code),
               UNCHANGED <<status, stale, log>>, ok, raised)
  \/ /\ status[j] \notin expected
     /\ UNCHANGED <<status, stale, log>>
     /\ \/ Goto(j, refused) /\ UNCHANGED faults
        \/ Goto(j, raised) /\ Fault

-----------------------------------------------------------------------------
(* Requests: POST /jobs and POST /jobs/{id}/refine, in a worker thread.    *)

\* Seeded fault: the parent's status is not looked at.
Refinable_AnyStatus(q) == files[q] = "fit"

\* create_refinement_job's checks; a refused request changes nothing.
Refinable(q) == status[q] = "COMPLETED" /\ files[q] = "fit"

\* JobService.create_job up to the commit of the row.  A commit that fails
\* leaves no trace; one that takes effect and then raises leaves a row that
\* no task will ever run.
CreateJob(p, j) ==
  /\ up[p] = "up"
  /\ pc[j] = "none"
  /\ \E q \in Jobs \cup {None} :
        /\ q # None => Refinable(q)
        /\ parent' = [parent EXCEPT ![j] = q]
  /\ status' = [status EXCEPT ![j] = "CREATED"]
  /\ owner' = [owner EXCEPT ![j] = p]
  /\ \/ Goto(j, "workspace") /\ UNCHANGED faults
     \/ Goto(j, "ended") /\ Fault
  /\ UNCHANGED <<stale, plan, rows, log, files, procVars, queue, attempt, crashes>>

\* create_workspace, between the two commits of create_job.
CreateWorkspace(j) ==
  /\ pc[j] = "workspace"
  /\ \/ Goto(j, "firstEvent") /\ UNCHANGED faults
     \/ Goto(j, "ended") /\ Fault
  /\ UNCHANGED <<dbVars, files, procVars, queue, owner, attempt, crashes>>

\* The first event log; only when it is in does the route register the task.
FirstEvent(j) ==
  /\ pc[j] = "firstEvent"
  /\ AppendEvent(j, "SYSTEM", "scheduled", "ended")
  /\ UNCHANGED <<status, parent, stale, plan, rows, files, procVars, queue,
                 owner, attempt, crashes>>

\* The response is out and run() enters the gate.
EnterGate(j) ==
  /\ pc[j] = "scheduled"
  /\ Goto(j, "queued")
  /\ queue' = [queue EXCEPT ![owner[j]] = Append(@, j)]
  /\ UNCHANGED <<dbVars, files, procVars, owner, attempt, faults, crashes>>

-----------------------------------------------------------------------------
(* The gate: asyncio.Semaphore serves its waiters in order.                *)

AcquireSlot(p) ==
  /\ queue[p] # <<>>
  /\ permits[p] > 0
  /\ pc' = [pc EXCEPT ![Head(queue[p])] = "start"]
  /\ permits' = [permits EXCEPT ![p] = @ - 1]
  /\ queue' = [queue EXCEPT ![p] = Tail(@)]
  /\ UNCHANGED <<dbVars, files, procVars, owner, attempt, faults, crashes>>

\* The sequence q without its i-th element.
Without(q, i) == SubSeq(q, 1, i - 1) \o SubSeq(q, i + 1, Len(q))

\* wait_for gives up, perhaps in the instant a slot comes free.
QueueTimeout(j) ==
  /\ pc[j] = "queued"
  /\ Goto(j, "queueTimeout")
  /\ \E i \in DOMAIN queue[owner[j]] :
        /\ queue[owner[j]][i] = j
        /\ queue' = [queue EXCEPT ![owner[j]] = Without(@, i)]
  /\ UNCHANGED <<dbVars, files, procVars, owner, attempt, faults, crashes>>

\* run(): the handler of OrchestrationQueueTimeoutError.
FailQueued(j) ==
  /\ pc[j] = "queueTimeout"
  /\ Transition(j, {"CREATED"}, "FAILED", "ORCHESTRATION_QUEUE_TIMEOUT",
                "ended", "ended", "ended")
  /\ UNCHANGED <<parent, plan, rows, files, procVars, queue, owner, attempt, crashes>>

-----------------------------------------------------------------------------
(* _run_in_slot.  Its first transition stands before the try block: an     *)
(* exception there ends the task without a try at FAILED.                  *)

StartRun(j) ==
  /\ pc[j] = "start"
  /\ Transition(j, {"CREATED"}, "RUNNING", "ORCHESTRATION_STARTED",
                "context", "ended", "ended")
  /\ UNCHANGED <<parent, plan, rows, files, procVars, queue, owner, attempt, crashes>>

\* get_job, then for a refinement the copy of the parent's two files and the
\* event.  Reading the row or a file may raise.
CopyContext(j) ==
  /\ pc[j] = "context"
  /\ \/ files' = files
     \/ parent[j] # None /\ files' = [files EXCEPT ![j] = files[parent[j]]]
  /\ \/ /\ parent[j] = None
        /\ Goto(j, "attempt")
        /\ UNCHANGED <<log, faults>>
     \/ /\ parent[j] # None
        /\ files'[j] = files[parent[j]]
        /\ AppendEvent(j, "REFINEMENT_CONTEXT_COPIED", "attempt", "fail")
     \/ /\ Goto(j, "fail")
        /\ Fault
        /\ UNCHANGED log
  /\ UNCHANGED <<status, parent, stale, plan, rows, procVars, queue, owner,
                 attempt, crashes>>

-----------------------------------------------------------------------------
(* LLMPlanRetryExecutor.generate_actions.                                  *)

\* on_attempt: reported before the model is asked.
OnAttempt(j) ==
  /\ pc[j] = "attempt"
  /\ attempt' = [attempt EXCEPT ![j] = @ + 1]
  /\ AppendEvent(j, "LLM_ATTEMPT", "generate", "fail")
  /\ UNCHANGED <<status, parent, stale, plan, rows, files, procVars, queue,
                 owner, crashes>>

\* Seeded fault: one attempt too many.
AfterRetryable_OneMore(j) == IF attempt[j] <= MaxAttempts THEN "sleep" ELSE "fail"

\* Where a retryable error leads: to the pause before the next attempt, or out
\* of the loop when the delays are used up.
AfterRetryable(j) == IF attempt[j] < MaxAttempts THEN "sleep" ELSE "fail"

\* How a stage of an attempt can end: its result goes to the "next" stage, or it
\* raises an error that generate_actions retries or one that it lets through.
After(j, end) == CASE end = "next" -> "execute"
                   [] end = "retryable" -> AfterRetryable(j)
                   [] end = "final" -> "fail"

\* HttpLLMClient.generate_plan.  Time-outs, network errors, 408, 429 and 5xx are
\* retryable; redirects, other refusals, a body over the limit or of another
\* shape are not.
GeneratePlanEnds == {"next", "retryable", "final"}

\* parse_action_plan: no JSON found, JSON that does not parse, and actions that
\* fail the schema are all retried.
ParseActionPlanEnds == {"next", "retryable"}

\* validate_actions without an alert: the SCAD check's 400 is retried, and an
\* OSError of the path checks is not.
ValidateActionsEnds == {"next", "retryable", "final"}

\* The first stage that raises decides, or the last one if none does.
GeneratePlan(j) ==
  /\ pc[j] = "generate"
  /\ \E end \in ((GeneratePlanEnds \cup ParseActionPlanEnds) \ {"next"}) \cup ValidateActionsEnds :
        Goto(j, After(j, end))
  /\ UNCHANGED <<dbVars, files, procVars, queue, owner, attempt, faults, crashes>>

\* validate_actions refuses the plan with a 403, having committed the alert.
RefusePlan(j) ==
  /\ pc[j] = "generate"
  /\ AppendEvent(j, "SECURITY_ALERT", "fail", "fail")
  /\ UNCHANGED <<status, parent, stale, plan, rows, files, procVars, queue,
                 owner, attempt, crashes>>

RetryPause(j) ==
  /\ pc[j] = "sleep"
  /\ Goto(j, "attempt")
  /\ UNCHANGED <<dbVars, files, procVars, queue, owner, attempt, faults, crashes>>

-----------------------------------------------------------------------------
(* ActionExecutor.execute_attempt, seen from the database.                 *)

\* begin_attempt and the actions other than CREATE_ARTIFACT.  A failure is
\* rolled back in the workspace; a CLIExecutionError is retryable, anything
\* else is not.
ExecuteActions(j) ==
  /\ pc[j] = "execute"
  /\ \E to \in {"rows", AfterRetryable(j), "fail"} : Goto(j, to)
  /\ UNCHANGED <<dbVars, files, procVars, queue, owner, attempt, faults, crashes>>

\* A tool runs over its time: run_tool kills it, commits the TIMEOUT marker and
\* raises a CLIExecutionError, or whatever the commit raises.
WriteSystemMarker(j) ==
  /\ pc[j] = "execute"
  /\ AppendEvent(j, "TIMEOUT", AfterRetryable(j), "fail")
  /\ UNCHANGED <<status, parent, stale, plan, rows, files, procVars, queue,
                 owner, attempt, crashes>>

\* The commit of the artifacts rows.
CommitArtifacts(j) ==
  /\ pc[j] = "rows"
  /\ Commit(j, rows' = [rows EXCEPT ![j] = @ \cup {attempt[j]}], UNCHANGED rows,
            "save", "fail")
  /\ UNCHANGED <<status, parent, stale, plan, log, files, procVars, queue, owner,
                 attempt, crashes>>

\* Seeded fault: generate_actions retries an error of the save too.
SaveActionPlan_Retried(j) ==
  /\ pc[j] = "save"
  /\ Commit(j, /\ plan' = [plan EXCEPT ![j] = attempt[j]]
               /\ stale' = [stale EXCEPT ![j] = FALSE],
            UNCHANGED <<plan, stale>>, "finish", AfterRetryable(j))
  /\ UNCHANGED <<status, parent, rows, log, files, procVars, queue, owner,
                 attempt, crashes>>

\* on_success: save_action_plan, which insists on a RUNNING job.  Neither of
\* its errors is one that generate_actions retries.
SaveActionPlan(j) ==
  /\ pc[j] = "save"
  /\ \/ /\ status[j] = "RUNNING"
        /\ Commit(j, /\ plan' = [plan EXCEPT ![j] = attempt[j]]
                     /\ stale' = [stale EXCEPT ![j] = FALSE],
                  UNCHANGED <<plan, stale>>, "finish", "fail")
     \/ /\ status[j] # "RUNNING"
        /\ Goto(j, "fail")
        /\ UNCHANGED <<plan, stale, faults>>
  /\ UNCHANGED <<status, parent, rows, log, files, procVars, queue, owner,
                 attempt, crashes>>

\* complete_attempt drops the snapshot, so what the attempt wrote stays: files
\* may have appeared or grown, no action removes one.  Back in _run_in_slot
\* the event is appended.
FinishAttempt(j) ==
  /\ pc[j] = "finish"
  /\ \E f \in {"absent", "fit", "over"} :
        /\ f = "absent" => files[j] = "absent"
        /\ files' = [files EXCEPT ![j] = f]
  /\ \/ AppendEvent(j, "PLAN_EXECUTED", "complete", "fail")
     \/ /\ Goto(j, "fail")
        /\ UNCHANGED <<log, faults>>
  /\ UNCHANGED <<status, parent, stale, plan, rows, procVars, queue, owner,
                 attempt, crashes>>

\* The last transition; its result is not looked at.
CompleteRun(j) ==
  /\ pc[j] = "complete"
  /\ Transition(j, {"RUNNING"}, "COMPLETED", "ORCHESTRATION_COMPLETED",
                "ended", "ended", "fail")
  /\ UNCHANGED <<parent, plan, rows, files, procVars, queue, owner, attempt, crashes>>

\* Seeded fault: a RUNNING job is not among the expected statuses.
FailRun_CreatedOnly(j) ==
  /\ pc[j] = "fail"
  /\ Transition(j, {"CREATED"}, "FAILED", "ORCHESTRATION_FAILED",
                "ended", "ended", "ended")
  /\ UNCHANGED <<parent, plan, rows, files, procVars, queue, owner, attempt, crashes>>

\* The except block of _run_in_slot: an exception of its own is only logged.
FailRun(j) ==
  /\ pc[j] = "fail"
  /\ Transition(j, {"CREATED", "RUNNING"}, "FAILED", "ORCHESTRATION_FAILED",
                "ended", "ended", "ended")
  /\ UNCHANGED <<parent, plan, rows, files, procVars, queue, owner, attempt, crashes>>

-----------------------------------------------------------------------------
(* Processes and time.                                                     *)

\* lifespan: recover_stale selects the jobs ...
Startup(p) ==
  /\ up[p] \in {"down", "stopped"}
  /\ up' = [up EXCEPT ![p] = "recovering"]
  /\ sweep' = [sweep EXCEPT ![p] = {j \in Jobs : status[j] = "RUNNING" /\ stale[j]}]
  /\ UNCHANGED <<dbVars, files, gateVars, pc, owner, attempt, faults, crashes>>

\* Seeded fault: recovery also runs while the process serves.
RecoverOne_WhileServing(p, j) ==
  /\ up[p] \in {"recovering", "up"}
  /\ status[j] = "RUNNING" /\ stale[j]
  /\ status' = [status EXCEPT ![j] = "FAILED"]
  /\ stale' = [stale EXCEPT ![j] = FALSE]
  /\ Record(j, "STALE_JOB_RECOVERED")
  /\ sweep' = [sweep EXCEPT ![p] = @ \ {j}]
  /\ UNCHANGED <<up, parent, plan, rows, files, gateVars, pc, owner, attempt,
                 faults, crashes>>

\* Seeded fault: a recovered job gets no event.
RecoverOne_Unrecorded(p, j) ==
  /\ up[p] = "recovering"
  /\ j \in sweep[p]
  /\ status' = [status EXCEPT ![j] = "FAILED"]
  /\ stale' = [stale EXCEPT ![j] = FALSE]
  /\ sweep' = [sweep EXCEPT ![p] = @ \ {j}]
  /\ UNCHANGED <<up, log, parent, plan, rows, files, gateVars, pc, owner, attempt,
                 faults, crashes>>

\* ... _recover_one fails them one by one, looking again at status and age; an
\* exception ends the start of the process ...
RecoverOne(p, j) ==
  LET hit == status[j] = "RUNNING" /\ stale[j]
      fail == /\ hit
              /\ status' = [status EXCEPT ![j] = "FAILED"]
              /\ stale' = [stale EXCEPT ![j] = FALSE]
              /\ Record(j, "STALE_JOB_RECOVERED")
      keep == UNCHANGED <<status, stale, log>>
  IN /\ up[p] = "recovering"
     /\ j \in sweep[p]
     /\ \/ /\ fail \/ (~ hit /\ keep)
           /\ sweep' = [sweep EXCEPT ![p] = @ \ {j}]
           /\ UNCHANGED <<up, faults>>
        \/ /\ fail \/ keep
           /\ up' = [up EXCEPT ![p] = "down"]
           /\ sweep' = [sweep EXCEPT ![p] = {}]
           /\ Fault
     /\ UNCHANGED <<parent, plan, rows, files, gateVars, pc, owner, attempt, crashes>>

\* Seeded fault: the application serves while recovery is still at work.
Serve_Early(p) ==
  /\ up[p] = "recovering"
  /\ up' = [up EXCEPT ![p] = "up"]
  /\ UNCHANGED <<dbVars, files, sweep, gateVars, pc, owner, attempt, faults, crashes>>

\* ... and only then does the application serve requests.
Serve(p) ==
  /\ up[p] = "recovering"
  /\ sweep[p] = {}
  /\ up' = [up EXCEPT ![p] = "up"]
  /\ UNCHANGED <<dbVars, files, sweep, gateVars, pc, owner, attempt, faults, crashes>>

LiveTasks(p) == {j \in Jobs : owner[j] = p /\ pc[j] \in Live}

\* The process dies: its requests, tasks and semaphore are gone.
Crash(p) ==
  /\ up[p] \in {"recovering", "up"}
  /\ crashes < MaxCrashes
  /\ crashes' = crashes + 1
  /\ up' = [up EXCEPT ![p] = "down"]
  /\ sweep' = [sweep EXCEPT ![p] = {}]
  /\ pc' = [j \in Jobs |-> IF j \in LiveTasks(p) THEN "ended" ELSE pc[j]]
  /\ permits' = [permits EXCEPT ![p] = MaxConcurrentJobs]
  /\ queue' = [queue EXCEPT ![p] = <<>>]
  /\ UNCHANGED <<dbVars, files, owner, attempt, faults>>

\* uvicorn stops on a signal: it lets requests and tasks finish, then runs the
\* part of lifespan after the yield, which closes the HTTP client.
Shutdown(p) ==
  /\ up[p] = "up"
  /\ LiveTasks(p) = {}
  /\ up' = [up EXCEPT ![p] = "stopped"]
  /\ UNCHANGED <<dbVars, files, sweep, gateVars, pc, owner, attempt, faults, crashes>>

\* STALE_JOB_MINUTES go by without an update of the row.  Recovery reckons with
\* one cutoff, taken at its start: a job that comes of age during a recovery is
\* not stale to it, and becomes so after it.
Age(j) ==
  /\ status[j] = "RUNNING"
  /\ ~ stale[j]
  /\ \A p \in Procs : up[p] # "recovering"
  /\ stale' = [stale EXCEPT ![j] = TRUE]
  /\ UNCHANGED <<status, parent, plan, rows, log, files, procVars, gateVars,
                 pc, owner, attempt, faults, crashes>>

-----------------------------------------------------------------------------
\* The steps a task takes by itself, in the order of the code.
TaskStep(j) ==
  \/ CreateWorkspace(j) \/ FirstEvent(j) \/ EnterGate(j) \/ FailQueued(j)
  \/ StartRun(j) \/ CopyContext(j) \/ OnAttempt(j) \/ GeneratePlan(j)
  \/ RefusePlan(j) \/ RetryPause(j) \/ ExecuteActions(j) \/ WriteSystemMarker(j)
  \/ CommitArtifacts(j) \/ SaveActionPlan(j) \/ FinishAttempt(j) \/ CompleteRun(j)
  \/ FailRun(j)

Next ==
  \/ \E j \in Jobs : TaskStep(j) \/ QueueTimeout(j) \/ Age(j)
  \/ \E p \in Procs : \/ Startup(p) \/ Serve(p) \/ Crash(p) \/ Shutdown(p)
                      \/ AcquireSlot(p)
                      \/ \E j \in Jobs : CreateJob(p, j) \/ RecoverOne(p, j)

Spec == Init /\ [][Next]_vars

\* The event loop runs every task that can go on (the calls a task waits for
\* have timeouts), a free slot goes to the first waiter, and a process that
\* starts recovers and then serves.  A container that has died is started
\* again (restart: unless-stopped), and time passes.
Fairness ==
  /\ \A j \in Jobs : WF_vars(TaskStep(j)) /\ WF_vars(Age(j))
  /\ \A p \in Procs : /\ WF_vars(AcquireSlot(p))
                      /\ WF_vars(up[p] = "down" /\ Startup(p))
                      /\ WF_vars(Serve(p))
                      /\ WF_vars(\E j \in Jobs : RecoverOne(p, j))

FairSpec == Spec /\ Fairness

-----------------------------------------------------------------------------
(* Properties.                                                             *)

\* The values the columns and the in-memory state can take.
TypeOK ==
  /\ status \in [Jobs -> Lifecycle!Statuses]
  /\ parent \in [Jobs -> Jobs \cup {None}]
  /\ stale \in [Jobs -> BOOLEAN]
  /\ plan \in [Jobs -> 0 .. MaxAttempts]
  /\ rows \in [Jobs -> SUBSET (1 .. MaxAttempts)]
  /\ log \in [Jobs -> Seq(Lifecycle!Codes)]
  /\ files \in [Jobs -> {"absent", "fit", "over"}]
  /\ up \in [Procs -> {"down", "recovering", "up", "stopped"}]
  /\ sweep \in [Procs -> SUBSET Jobs]
  /\ permits \in [Procs -> 0 .. MaxConcurrentJobs]
  /\ queue \in [Procs -> Seq(Jobs)]
  /\ pc \in [Jobs -> Live \cup {"none", "ended"}]
  /\ owner \in [Jobs -> Procs \cup {None}]
  /\ attempt \in [Jobs -> 0 .. MaxAttempts]
  /\ faults \in 0 .. MaxFaults
  /\ crashes \in 0 .. MaxCrashes

SlotHolders(p) == {j \in Jobs : owner[j] = p /\ pc[j] \in InSlot}

\* The gate loses no slot and lends none twice, whatever exception ends a task
\* and however a queue timeout meets a release: free and held slots of a process
\* always add up to MAX_CONCURRENT_JOBS.
SlotsAddUp ==
  \A p \in Procs : permits[p] + Cardinality(SlotHolders(p)) = MaxConcurrentJobs

\* Outside the positions I the log s reports no change of status.
QuietOutside(s, I) == \A k \in DOMAIN s \ I : s[k] \in Lifecycle!Notes

ReportsStart(s) ==
  \E i \in DOMAIN s : s[i] = "ORCHESTRATION_STARTED" /\ QuietOutside(s, {i})

ReportsEnd(s, codes) ==
  \E i, k \in DOMAIN s : /\ i < k
                         /\ s[i] = "ORCHESTRATION_STARTED"
                         /\ s[k] \in codes
                         /\ QuietOutside(s, {i, k})

ReportsQueueTimeout(s) ==
  \E i \in DOMAIN s : s[i] = "ORCHESTRATION_QUEUE_TIMEOUT" /\ QuietOutside(s, {i})

\* Status and log tell the same story at every commit, even when the answer to
\* a commit was lost and the task went down its error path: a job is started
\* at most once, it has exactly one terminal event, and that event is the one
\* of its status.
LogTellsStatus ==
  \A j \in Jobs :
    /\ status[j] \in {"NONE", "CREATED"} => QuietOutside(log[j], {})
    /\ status[j] = "RUNNING" => ReportsStart(log[j])
    /\ status[j] = "COMPLETED" => ReportsEnd(log[j], {"ORCHESTRATION_COMPLETED"})
    /\ status[j] = "FAILED" =>
         \/ ReportsQueueTimeout(log[j])
         \/ ReportsEnd(log[j], {"ORCHESTRATION_FAILED", "STALE_JOB_RECOVERED"})

\* A COMPLETED job has the plan of one attempt saved, and the artifacts rows it
\* lists are those of that attempt alone: no row of an attempt that failed
\* after its commit is mixed in by a later attempt.
CompletedByItsPlan ==
  \A j \in Jobs : status[j] = "COMPLETED" => plan[j] # 0 /\ rows[j] = {plan[j]}

\* What create_refinement_job checked when the request came still holds when
\* the background task copies the parent's files, and ever after.
ParentStaysRefinable ==
  \A j \in Jobs : parent[j] # None =>
    status[parent[j]] = "COMPLETED" /\ files[parent[j]] = "fit"

\* Where a task goes about a job that it has set RUNNING.
Working == InSlot \ {"start", "fail"}

\* Stale recovery fails no job that a task of a live process still works on.
\* (It can when a second process starts while a job runs for more than 15
\* minutes; the deployment runs one worker.)
WorkerHasItsJob ==
  \A j \in Jobs : pc[j] \in Working => status[j] = "RUNNING"

\* COMPLETED and FAILED are final, and the plan, rows and files of a COMPLETED
\* job with them, also when a task goes on that has lost its job to recovery.
TerminalIsFinal ==
  [][\A j \in Jobs :
       /\ status[j] \in Terminal => status'[j] = status[j]
       /\ status[j] = "COMPLETED" =>
            plan'[j] = plan[j] /\ rows'[j] = rows[j] /\ files'[j] = files[j]]_vars

\* No process serves requests before every job that was RUNNING and 15 minutes
\* old at its start has been dealt with.
RecoveryBeforeService ==
  [][\A p \in Procs : up[p] # "up" /\ up'[p] = "up" =>
       \A j \in Jobs : ~ (status[j] = "RUNNING" /\ stale[j])]_vars

\* With one process the tables keep the promise of JobLifecycle.
ImplementsLifecycle == Lifecycle!Spec

\* Every task comes to an end, in the gate too: no fault or exception of one
\* task keeps another waiting for ever.
TasksEnd == \A j \in Jobs : pc[j] \in Live ~> pc[j] = "ended"

\* Unless a fault or a crash gets in the way, every job settles.
JobsSettle ==
  \A j \in Jobs : status[j] = "CREATED" ~> \/ status[j] \in Terminal
                                            \/ faults + crashes > 0

\* A claim of the design (unit 5, NFR design: the job status has to converge
\* to a final state), which the code does not keep: a task that is lost before
\* its job is RUNNING leaves a CREATED job that nothing picks up again.
EveryJobSettles == \A j \in Jobs : status[j] = "CREATED" ~> status[j] \in Terminal
=============================================================================
