--------------------------- MODULE ActionAttempt ----------------------------
(***************************************************************************)
(* The attempts of one RUNNING job seen from its files:                    *)
(* ActionExecutor.execute_attempt (orchestrator/actions.py), the snapshot  *)
(* that LocalStorageService takes and restores (storage/local.py), the     *)
(* registration of artifacts (jobs/service.py) and what the download       *)
(* routes of jobs/router.py hand out meanwhile.                            *)
(*                                                                         *)
(* A file is a path with the version it holds: the number of the attempt   *)
(* that wrote it, Inherited from the parent job, or Absent.                *)
(***************************************************************************)
EXTENDS Integers, FiniteSets

CONSTANTS
  Paths,                \* relative paths that plans mention
  MaxAttempts,          \* len(RETRY_DELAYS_SECONDS) + 1
  MaxFaults,            \* bound on storage and database faults
  MaxCrashes            \* bound on crashes of the process

ASSUME AttemptAssumption ==
  /\ IsFiniteSet(Paths)
  /\ MaxAttempts \in Nat \ {0}
  /\ {MaxFaults, MaxCrashes} \subseteq Nat

VARIABLES
  \* the disk
  jobs,                 \* jobs/{id}, the workspace
  artifacts,            \* artifacts/{id}, the copies made by CREATE_ARTIFACT
  snapshots,            \* attempts with a directory in .attempt-snapshots/{id}
  \* the database
  status,               \* jobs.status
  plan,                 \* artifact paths of the plan in jobs.action_plan, by attempt
  rows,                 \* committed artifacts rows, with the version registered
  \* execute_attempt and the loop around it
  pc, attempt,
  snapshot,             \* what begin_attempt copied
  writes,               \* files that actions of the plan have yet to write
  promote,              \* artifact_actions not yet saved
  declared,             \* paths of the plan's CREATE_ARTIFACT actions
  copied,               \* copied_paths
  pending,              \* rows of the open transaction
  retryable,            \* the exception on its way is a CLIExecutionError
  \* history and bounds
  base,                 \* the workspace before the first attempt
  faults, crashes

disk == <<jobs, artifacts, snapshots>>
db == <<status, plan, rows>>
locals == <<attempt, snapshot, writes, promote, declared, copied, pending, retryable>>
bounds == <<base, faults, crashes>>
vars == <<disk, db, pc, locals, bounds>>

Absent == 0
Inherited == MaxAttempts + 1
Files == [Paths -> 0 .. Inherited]
NoFiles == [p \in Paths |-> Absent]
Rows == [path : Paths, version : 1 .. Inherited, attempt : 1 .. MaxAttempts]

\* A new job starts with an empty workspace, a refinement with inherited files.
Init ==
  /\ base \in [Paths -> {Absent, Inherited}]
  /\ jobs = base
  /\ artifacts = NoFiles
  /\ snapshots = {}
  /\ status = "RUNNING"
  /\ plan = [attempt |-> 0, paths |-> {}]
  /\ rows = {}
  /\ pc = "begin"
  /\ attempt = 1
  /\ snapshot = [jobs |-> NoFiles, artifacts |-> NoFiles]
  /\ writes = {} /\ promote = {} /\ declared = {} /\ copied = {} /\ pending = {}
  /\ retryable = FALSE
  /\ faults = 0 /\ crashes = 0

Fault == /\ faults < MaxFaults
         /\ faults' = faults + 1
         /\ UNCHANGED <<base, crashes>>

\* An exception inside the try block of execute_attempt.
Raise(isCLIExecutionError) == pc' = "undo" /\ retryable' = isCLIExecutionError

-----------------------------------------------------------------------------
(* execute_attempt.                                                        *)

\* begin_attempt stands before the try block: when it fails it leaves a partial
\* snapshot and nothing is rolled back.
BeginAttempt ==
  /\ pc = "begin"
  /\ snapshots' = snapshots \cup {attempt}
  /\ \/ /\ pc' = "actions"
        /\ snapshot' = [jobs |-> jobs, artifacts |-> artifacts]
        /\ writes' \in SUBSET Paths
        /\ promote' \in SUBSET Paths
        /\ declared' = promote'
        /\ UNCHANGED bounds
     \/ /\ pc' = "fail"
        /\ UNCHANGED <<snapshot, writes, promote, declared>>
        /\ Fault
  /\ copied' = {} /\ pending' = {} /\ retryable' = FALSE
  /\ UNCHANGED <<jobs, artifacts, db, attempt>>

\* _execute_action: CREATE_DIRECTORY, WRITE_FILE, or RUN_TOOL copying its output
\* back.  Each may raise, with a file written or not; only the tool's errors are
\* retryable.
ExecuteAction ==
  /\ pc = "actions"
  /\ \/ \E p \in writes : /\ jobs' = [jobs EXCEPT ![p] = attempt]
                         /\ writes' = writes \ {p}
                         /\ UNCHANGED <<pc, retryable>>
     \/ /\ promote = declared
        /\ jobs' \in {jobs} \cup {[jobs EXCEPT ![p] = attempt] : p \in writes}
        /\ UNCHANGED writes
        /\ \E r \in BOOLEAN : Raise(r)
  /\ UNCHANGED <<artifacts, snapshots, db, attempt, snapshot, promote, declared, copied,
                 pending, bounds>>

\* Seeded fault: artifacts are promoted where they stand among the actions.
ActionsDone_Inline == pc = "actions"

\* The loop puts CREATE_ARTIFACT actions off until the others are done.
ActionsDone == pc = "actions" /\ writes = {}

\* save_artifact, when the workspace has the file.
SaveArtifact(p) == artifacts' = [artifacts EXCEPT ![p] = jobs[p]]

\* register_artifact: an INSERT in the transaction that is open.
RegisterArtifact(p) ==
  pending' = pending \cup {[path |-> p, version |-> jobs[p], attempt |-> attempt]}

\* The loop body for one CREATE_ARTIFACT action.
PromoteArtifact ==
  /\ ActionsDone
  /\ \E p \in promote :
       \/ /\ jobs[p] # Absent
          /\ SaveArtifact(p)
          /\ RegisterArtifact(p)
          /\ copied' = copied \cup {p}
          /\ promote' = promote \ {p}
          /\ UNCHANGED <<pc, retryable, bounds>>
       \/ \* the file that the plan names is not there
          /\ jobs[p] = Absent
          /\ Raise(FALSE)
          /\ UNCHANGED <<artifacts, copied, pending, promote, bounds>>
       \/ \* register_artifact refuses the form of the path, or its INSERT fails
          /\ jobs[p] # Absent
          /\ SaveArtifact(p)
          /\ copied' = copied \cup {p}
          /\ Raise(FALSE)
          /\ UNCHANGED <<pending, promote, bounds>>
       \/ \* the copy fails, perhaps half way
          /\ jobs[p] # Absent
          /\ UNCHANGED artifacts \/ SaveArtifact(p)
          /\ Raise(FALSE)
          /\ Fault
          /\ UNCHANGED <<copied, pending, promote>>
  /\ UNCHANGED <<jobs, snapshots, db, attempt, snapshot, writes, declared>>

\* db.commit(): succeeds, fails, or takes effect and raises.
CommitRows ==
  /\ ActionsDone
  /\ promote = {}
  /\ pending' = {}
  /\ \/ rows' = rows \cup pending /\ pc' = "save" /\ UNCHANGED <<retryable, bounds>>
     \/ rows' \in {rows, rows \cup pending} /\ Raise(FALSE) /\ Fault
  /\ UNCHANGED <<disk, status, plan, attempt, snapshot, writes, promote, declared, copied>>

\* on_success(): save_action_plan.  Its refusal of a job that is no longer RUNNING
\* needs a second process, which Orchestrator has.
SavePlan ==
  LET saved == [attempt |-> attempt, paths |-> declared]
  IN /\ pc = "save"
     /\ \/ plan' = saved /\ pc' = "complete" /\ UNCHANGED <<retryable, bounds>>
        \/ plan' \in {plan, saved} /\ Raise(FALSE) /\ Fault
     /\ UNCHANGED <<disk, status, rows, attempt, snapshot, writes, promote, declared,
                    copied, pending>>

\* Seeded fault: the snapshot is left behind.
CompleteAttempt_Keep ==
  /\ pc = "complete"
  /\ pc' = "finish"
  /\ UNCHANGED <<disk, db, locals, bounds>>

\* The else branch: complete_attempt.  Its exceptions are not handled here.
CompleteAttempt ==
  /\ pc = "complete"
  /\ \/ snapshots' = snapshots \ {attempt} /\ pc' = "finish" /\ UNCHANGED bounds
     \/ UNCHANGED snapshots /\ pc' = "fail" /\ Fault
  /\ UNCHANGED <<jobs, artifacts, db, locals>>

-----------------------------------------------------------------------------
(* The except branch of execute_attempt.                                   *)

\* db.rollback() and the removal of the copies, where it succeeds.
CleanUp ==
  /\ pc = "undo"
  /\ pending' = {}
  /\ pc' = "restoreJobs"
  /\ \/ /\ artifacts' = [p \in Paths |-> IF p \in copied THEN Absent ELSE artifacts[p]]
        /\ UNCHANGED bounds
     \/ /\ \E left \in SUBSET copied :
              artifacts' = [p \in Paths |-> IF p \in copied \ left THEN Absent ELSE artifacts[p]]
        /\ Fault
  /\ UNCHANGED <<jobs, snapshots, db, attempt, snapshot, writes, promote, declared, copied,
                 retryable>>

\* What a removal and copy of a tree that stops half way may leave.
HalfRestored(now, saved) ==
  {f \in Files : \A p \in Paths : f[p] \in {now[p], Absent, saved[p]}}

\* Seeded fault: an error of the rollback is swallowed.
RollbackJobs_Swallowed ==
  /\ pc = "restoreJobs"
  /\ pc' = "restoreArtifacts"
  /\ \/ jobs' = snapshot.jobs /\ UNCHANGED bounds
     \/ jobs' \in HalfRestored(jobs, snapshot.jobs) /\ Fault
  /\ UNCHANGED <<artifacts, snapshots, db, locals>>

\* Seeded fault: the workspace is restored only when another attempt may follow.
RollbackJobs_RetryOnly ==
  /\ pc = "restoreJobs"
  /\ pc' = "restoreArtifacts"
  /\ jobs' = IF retryable THEN snapshot.jobs ELSE jobs
  /\ UNCHANGED <<artifacts, snapshots, db, locals, bounds>>

\* rollback_attempt, the workspace.  Its own exception replaces the one on its
\* way, and is not a CLIExecutionError.
RollbackJobs ==
  /\ pc = "restoreJobs"
  /\ \/ jobs' = snapshot.jobs /\ pc' = "restoreArtifacts" /\ UNCHANGED bounds
     \/ jobs' \in HalfRestored(jobs, snapshot.jobs) /\ pc' = "fail" /\ Fault
  /\ UNCHANGED <<artifacts, snapshots, db, locals>>

\* ... and the artifacts.
RollbackArtifacts ==
  /\ pc = "restoreArtifacts"
  /\ \/ artifacts' = snapshot.artifacts /\ pc' = "dropSnapshot" /\ UNCHANGED bounds
     \/ /\ artifacts' \in HalfRestored(artifacts, snapshot.artifacts)
        /\ pc' = "fail"
        /\ Fault
  /\ UNCHANGED <<jobs, snapshots, db, locals>>

\* rollback_attempt ends with complete_attempt, and the exception goes on to
\* generate_actions: another attempt for a CLIExecutionError, while there is one.
DropSnapshot ==
  /\ pc = "dropSnapshot"
  /\ \/ /\ snapshots' = snapshots \ {attempt}
        /\ IF retryable /\ attempt < MaxAttempts
           THEN attempt' = attempt + 1 /\ pc' = "begin"
           ELSE UNCHANGED attempt /\ pc' = "fail"
        /\ UNCHANGED bounds
     \/ UNCHANGED <<snapshots, attempt>> /\ pc' = "fail" /\ Fault
  /\ UNCHANGED <<jobs, artifacts, db, snapshot, writes, promote, declared, copied, pending,
                 retryable>>

-----------------------------------------------------------------------------
(* The end of the job.                                                     *)

\* PLAN_EXECUTED and the COMPLETED transition.
FinishRun ==
  /\ pc = "finish"
  /\ \/ status' = "COMPLETED" /\ pc' = "ended" /\ UNCHANGED bounds
     \/ status' \in {"RUNNING", "COMPLETED"} /\ pc' = "fail" /\ Fault
  /\ UNCHANGED <<disk, plan, rows, locals>>

\* The FAILED transition, which passes over a job that is COMPLETED.
FailRun ==
  LET failed == IF status = "RUNNING" THEN "FAILED" ELSE status
  IN /\ pc = "fail"
     /\ pc' = "ended"
     /\ \/ status' = failed /\ UNCHANGED bounds
        \/ status' \in {status, failed} /\ Fault
     /\ UNCHANGED <<disk, plan, rows, locals>>

Crash ==
  /\ pc # "ended"
  /\ crashes < MaxCrashes
  /\ crashes' = crashes + 1
  /\ pc' = "ended"
  /\ UNCHANGED <<disk, db, locals, base, faults>>

\* A later start of the process finds the job stale.
RecoverStale ==
  /\ pc = "ended"
  /\ status = "RUNNING"
  /\ status' = "FAILED"
  /\ UNCHANGED <<disk, plan, rows, pc, locals, bounds>>

Next ==
  \/ BeginAttempt \/ ExecuteAction \/ PromoteArtifact \/ CommitRows \/ SavePlan
  \/ CompleteAttempt \/ CleanUp \/ RollbackJobs \/ RollbackArtifacts \/ DropSnapshot
  \/ FinishRun \/ FailRun \/ Crash \/ RecoverStale

Spec == Init /\ [][Next]_vars

-----------------------------------------------------------------------------
(* What the routes hand out, in worker threads, at any time.               *)

\* GET /jobs/{id}/artifacts/{filename}: any job but a FAILED one.
DownloadByName(p) ==
  IF status # "FAILED" THEN artifacts[p] ELSE Absent

\* GET /artifacts/{artifact_id}/download: the workspace file, whatever the status.
DownloadById(r) == jobs[r.path]

\* GET /jobs/{id}/artifacts
ListArtifacts == IF status = "COMPLETED" THEN rows ELSE {}

-----------------------------------------------------------------------------
(* Properties.                                                             *)

\* The values that the disk, the tables and the local variables can take.
TypeOK ==
  /\ {jobs, artifacts, base, snapshot.jobs, snapshot.artifacts} \subseteq Files
  /\ snapshots \subseteq 1 .. MaxAttempts
  /\ status \in {"RUNNING", "COMPLETED", "FAILED"}
  /\ plan \in [attempt : 0 .. MaxAttempts, paths : SUBSET Paths]
  /\ rows \subseteq Rows /\ pending \subseteq Rows
  /\ pc \in {"begin", "actions", "save", "complete", "finish", "undo", "restoreJobs",
             "restoreArtifacts", "dropSnapshot", "fail", "ended"}
  /\ attempt \in 1 .. MaxAttempts
  /\ {writes, promote, declared, copied} \subseteq SUBSET Paths
  /\ retryable \in BOOLEAN
  /\ faults \in 0 .. MaxFaults /\ crashes \in 0 .. MaxCrashes

\* No attempt sees what an earlier one left: each begins with the workspace of
\* the first and without artifacts, in the directory and in the table, even
\* when a step of a rollback failed.
AttemptsStartClean ==
  pc = "begin" => jobs = base /\ artifacts = NoFiles /\ rows = {}

\* A COMPLETED job lists exactly the artifacts its saved plan declares, and
\* downloads by id and by name both return the version that was registered.
CompletedServesItsArtifacts ==
  status = "COMPLETED" =>
    /\ {r.path : r \in ListArtifacts} = plan.paths
    /\ \A r \in ListArtifacts : /\ r.attempt = plan.attempt
                                /\ DownloadById(r) = r.version
                                /\ DownloadByName(r.path) = r.version

\* Short of faults and crashes a job that fails leaves no trace of its attempts
\* in the workspace, among the artifacts or in the table.
FailureLeavesNoTrace ==
  status = "FAILED" /\ faults + crashes = 0 =>
    jobs = base /\ artifacts = NoFiles /\ rows = {}

\* Short of faults and crashes every snapshot is removed again.
SnapshotsRemoved == pc = "ended" /\ faults + crashes = 0 => snapshots = {}

\* A claim of the requirements (R-15C, 7: the artifact of a failed attempt is not
\* promoted), which the commit of the rows before the end of the attempt breaks: an
\* attempt that fails at this commit once it has taken effect, or after it, is
\* rolled back on the disk and keeps its rows.
FailedAttemptPromotesNothing ==
  status = "FAILED" /\ plan.attempt = 0 => rows = {}

\* A claim of download_artifact's docstring (artifacts of successful jobs only);
\* the code refuses FAILED jobs, and a RUNNING one may still be rolled back.
OnlySuccessIsDownloaded ==
  \A p \in Paths : DownloadByName(p) # Absent => status = "COMPLETED"
=============================================================================
