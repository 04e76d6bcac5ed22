------------------------- MODULE ActionAttemptProofs -------------------------
(***************************************************************************)
(* Theorems about ActionAttempt, for any set of paths and any number of    *)
(* attempts, faults and crashes.                                           *)
(***************************************************************************)
EXTENDS ActionAttempt, TLAPS

-----------------------------------------------------------------------------
(* The inductive invariant.                                                *)

Types ==
  /\ jobs \in Files /\ artifacts \in Files /\ base \in Files
  /\ snapshot \in [jobs : Files, artifacts : Files]
  /\ snapshots \subseteq 1 .. MaxAttempts
  /\ status \in {"RUNNING", "COMPLETED", "FAILED"}
  /\ plan \in [attempt : 0 .. MaxAttempts, paths : SUBSET Paths]
  /\ rows \subseteq Rows /\ pending \subseteq Rows
  /\ pc \in {"begin", "actions", "save", "complete", "finish", "undo", "restoreJobs",
             "restoreArtifacts", "dropSnapshot", "fail", "ended"}
  /\ attempt \in 1 .. MaxAttempts
  /\ writes \in SUBSET Paths /\ promote \in SUBSET Paths
  /\ declared \in SUBSET Paths /\ copied \in SUBSET Paths
  /\ retryable \in BOOLEAN
  /\ faults \in 0 .. MaxFaults /\ crashes \in 0 .. MaxCrashes

Clean == jobs = base /\ artifacts = NoFiles /\ rows = {}

Undoing == {"undo", "restoreJobs", "restoreArtifacts", "dropSnapshot"}

\* The rows R are those of the paths D, of this attempt and as the disk has them.
Registered(R, D, a) ==
  /\ \A r \in R : /\ r.path \in D /\ r.attempt = a
                  /\ jobs[r.path] = r.version /\ artifacts[r.path] = r.version
  /\ \A p \in D : \E r \in R : r.path = p

\* The snapshot is that of the first attempt, and the only one on the disk.
Snapshot ==
  /\ pc \in {"actions", "save", "complete"} \cup Undoing =>
       snapshot.jobs = base /\ snapshot.artifacts = NoFiles /\ snapshots = {attempt}
  /\ pc \in {"begin", "finish"} => snapshots = {}

\* The way to a saved plan ...
Forward ==
  /\ pc = "begin" => Clean
  /\ pc = "actions" =>
       /\ rows = {} /\ promote \subseteq declared
       /\ writes # {} => promote = declared
       /\ Registered(pending, declared \ promote, attempt)
  /\ pc \in {"save", "complete", "finish"} => Registered(rows, declared, attempt)
  /\ pc \in {"complete", "finish"} => plan.attempt = attempt /\ plan.paths = declared

\* ... and the way back: rows that are committed cannot be taken back, but then
\* there is no further attempt.
Backward ==
  /\ pc \in Undoing => rows = {} \/ (faults > 0 /\ ~ retryable)
  /\ pc \in {"restoreArtifacts", "dropSnapshot"} => jobs = base
  /\ pc = "dropSnapshot" => artifacts = NoFiles
  /\ pc = "fail" => faults > 0 \/ (Clean /\ snapshots = {})

Outcome ==
  /\ pc \notin {"fail", "ended"} => status = "RUNNING"
  /\ pc = "fail" => status # "FAILED"
  /\ status = "COMPLETED" => Registered(rows, plan.paths, plan.attempt)
  /\ pc = "ended" => \/ faults > 0 \/ crashes > 0
                     \/ /\ snapshots = {} /\ status # "RUNNING"
                        /\ status = "FAILED" => Clean

Inv == Types /\ Snapshot /\ Forward /\ Backward /\ Outcome

LEMMA ConstantTypes ==
  /\ MaxAttempts \in Nat /\ MaxFaults \in Nat /\ MaxCrashes \in Nat
  /\ Inherited \in Nat /\ Absent \in 0 .. Inherited /\ Inherited \in 0 .. Inherited
  /\ 1 .. MaxAttempts \subseteq 0 .. Inherited
  /\ NoFiles \in Files
BY AttemptAssumption DEF Inherited, Absent, NoFiles, Files

LEMMA InitInv == Init => Inv
<1> SUFFICES ASSUME Init PROVE Inv
  OBVIOUS
<1>1. base \in Files
  BY ConstantTypes DEF Init, Files
<1>2. attempt \in 1 .. MaxAttempts /\ faults \in 0 .. MaxFaults /\ crashes \in 0 .. MaxCrashes
  BY AttemptAssumption DEF Init
<1>3. plan \in [attempt : 0 .. MaxAttempts, paths : SUBSET Paths]
  BY ConstantTypes DEF Init
<1>4. snapshot \in [jobs : Files, artifacts : Files]
  BY ConstantTypes DEF Init
<1>5. retryable \in BOOLEAN
  BY Zenon DEF Init
<1>6. Types
  BY <1>1, <1>2, <1>3, <1>4, <1>5, ConstantTypes DEF Init, Types
<1> QED BY <1>6 DEF Inv, Init, Snapshot, Forward, Backward, Outcome, Clean, Undoing

-----------------------------------------------------------------------------
(* Types.                                                                  *)

\* A file that is replaced by the version of an attempt, or by one that is there.
LEMMA FileTypes ==
  ASSUME NEW f \in Files, NEW p \in Paths, NEW v \in 0 .. Inherited
  PROVE  [f EXCEPT ![p] = v] \in Files
BY DEF Files

LEMMA FaultType ==
  ASSUME Types, Fault PROVE faults' \in 0 .. MaxFaults /\ faults' > 0 /\ UNCHANGED <<base, crashes>>
BY AttemptAssumption DEF Types, Fault

LEMMA BoundTypes ==
  ASSUME Types, Fault \/ UNCHANGED bounds
  PROVE  /\ base' = base /\ faults' \in 0 .. MaxFaults /\ crashes' = crashes
         /\ faults > 0 => faults' > 0
<1>1. CASE Fault
  BY <1>1, FaultType
<1>2. CASE UNCHANGED bounds
  BY <1>2 DEF bounds, Types
<1> QED BY <1>1, <1>2

LEMMA BeginTypes == ASSUME Types, BeginAttempt PROVE Types'
<1>1. base' = base /\ faults' \in 0 .. MaxFaults /\ crashes' = crashes
  BY BoundTypes DEF BeginAttempt
<1>2. snapshots' \subseteq 1 .. MaxAttempts
  BY DEF BeginAttempt, Types
<1>3. snapshot' \in [jobs : Files, artifacts : Files]
  BY DEF BeginAttempt, Types
<1>4. retryable' \in BOOLEAN
  BY Zenon DEF BeginAttempt
<1>5. /\ writes' \in SUBSET Paths /\ promote' \in SUBSET Paths /\ declared' \in SUBSET Paths
      /\ copied' = {} /\ pending' = {} /\ pc' \in {"actions", "fail"}
      /\ UNCHANGED <<jobs, artifacts, status, plan, rows, attempt>>
  BY DEF BeginAttempt, Types, db
<1> QED BY <1>1, <1>2, <1>3, <1>4, <1>5 DEF Types

LEMMA ActionTypes == ASSUME Types, ExecuteAction PROVE Types'
<1>1. retryable' \in BOOLEAN
  BY Zenon DEF ExecuteAction, Raise, Types
<1>2. attempt \in 0 .. Inherited
  BY ConstantTypes DEF Types
<1>3. jobs' \in Files
  <2>1. jobs' = jobs \/ \E p \in Paths : jobs' = [jobs EXCEPT ![p] = attempt]
    BY DEF ExecuteAction, Types
  <2> QED BY <1>2, <2>1, FileTypes DEF Types
<1>4. /\ writes' \in SUBSET Paths /\ pc' \in {"actions", "undo"}
      /\ UNCHANGED <<artifacts, snapshots, status, plan, rows, attempt, snapshot, promote,
                     declared, copied, pending, base, faults, crashes>>
  BY DEF ExecuteAction, Raise, Types, db, bounds
<1> QED BY <1>1, <1>3, <1>4 DEF Types

LEMMA PromoteTypes == ASSUME Types, PromoteArtifact PROVE Types'
<1>1. base' = base /\ faults' \in 0 .. MaxFaults /\ crashes' = crashes
  BY BoundTypes, Zenon DEF PromoteArtifact
<1>2. retryable' \in BOOLEAN
  BY Zenon DEF PromoteArtifact, Raise, Types
<1>3. artifacts' \in Files
  <2>1. artifacts' = artifacts \/ \E p \in Paths : artifacts' = [artifacts EXCEPT ![p] = jobs[p]]
    BY Zenon DEF PromoteArtifact, SaveArtifact, Types
  <2>2. \A p \in Paths : jobs[p] \in 0 .. Inherited
    BY DEF Types, Files
  <2> QED BY <2>1, <2>2, FileTypes DEF Types
<1>4. pending' \subseteq Rows
  <2>1. \/ pending' = pending
        \/ \E p \in Paths : /\ jobs[p] # Absent
                            /\ pending' = pending \cup {[path |-> p, version |-> jobs[p], attempt |-> attempt]}
    BY Zenon DEF PromoteArtifact, RegisterArtifact, Types
  <2>2. ASSUME NEW p \in Paths, jobs[p] # Absent
        PROVE  [path |-> p, version |-> jobs[p], attempt |-> attempt] \in Rows
    <3>1. jobs[p] \in 0 .. Inherited
      BY DEF Types, Files
    <3>2. jobs[p] \in 1 .. Inherited
      BY <2>2, <3>1, ConstantTypes DEF Absent
    <3> QED BY <3>2 DEF Types, Rows
  <2> QED BY <2>1, <2>2 DEF Types
<1>5. /\ copied' \in SUBSET Paths /\ promote' \in SUBSET Paths /\ pc' \in {"actions", "undo"}
      /\ UNCHANGED <<jobs, snapshots, status, plan, rows, attempt, snapshot, writes, declared>>
  BY DEF PromoteArtifact, ActionsDone, Raise, Types, db
<1> QED BY <1>1, <1>2, <1>3, <1>4, <1>5 DEF Types

LEMMA CommitTypes == ASSUME Types, CommitRows \/ SavePlan \/ CompleteAttempt PROVE Types'
<1>1. base' = base /\ faults' \in 0 .. MaxFaults /\ crashes' = crashes
  BY BoundTypes, Zenon DEF CommitRows, SavePlan, CompleteAttempt
<1>2. retryable' \in BOOLEAN
  BY Zenon DEF CommitRows, SavePlan, CompleteAttempt, Raise, Types, locals
<1>3. plan' \in [attempt : 0 .. MaxAttempts, paths : SUBSET Paths]
  <2>1. [attempt |-> attempt, paths |-> declared] \in [attempt : 0 .. MaxAttempts, paths : SUBSET Paths]
    BY ConstantTypes DEF Types
  <2> QED BY <2>1, Zenon DEF CommitRows, SavePlan, CompleteAttempt, Types, db
<1>4. rows' \subseteq Rows /\ pending' \subseteq Rows
  BY Zenon DEF CommitRows, SavePlan, CompleteAttempt, Types, db, locals
<1>5. snapshots' \subseteq 1 .. MaxAttempts
  BY Zenon DEF CommitRows, SavePlan, CompleteAttempt, Types, disk
<1>6. /\ pc' \in {"save", "undo", "complete", "finish", "fail"}
      /\ UNCHANGED <<jobs, artifacts, status, attempt, snapshot, writes, promote, declared, copied>>
  BY DEF CommitRows, SavePlan, CompleteAttempt, Raise, disk, db, locals
<1> QED BY <1>1, <1>2, <1>3, <1>4, <1>5, <1>6 DEF Types

\* What is left of a tree when its removal or its restoration breaks off.
LEMMA LeftTypes ==
  ASSUME NEW f \in Files, NEW S \in SUBSET Paths
  PROVE  [p \in Paths |-> IF p \in S THEN Absent ELSE f[p]] \in Files
BY ConstantTypes DEF Files

LEMMA UndoTypes ==
  ASSUME Types, CleanUp \/ RollbackJobs \/ RollbackArtifacts PROVE Types'
<1>1. base' = base /\ faults' \in 0 .. MaxFaults /\ crashes' = crashes
  BY BoundTypes DEF CleanUp, RollbackJobs, RollbackArtifacts
<1>2. jobs' \in Files
  BY DEF CleanUp, RollbackJobs, RollbackArtifacts, HalfRestored, Types
<1>3. artifacts' \in Files
  <2>1. CASE CleanUp
    <3>1. \E S \in SUBSET Paths : artifacts' = [p \in Paths |-> IF p \in S THEN Absent ELSE artifacts[p]]
      BY <2>1, Zenon DEF CleanUp, Types
    <3> QED BY <3>1, LeftTypes DEF Types
  <2>2. CASE RollbackJobs \/ RollbackArtifacts
    BY <2>2 DEF RollbackJobs, RollbackArtifacts, HalfRestored, Types
  <2> QED BY <2>1, <2>2
<1>4. retryable' = retryable
  BY DEF CleanUp, RollbackJobs, RollbackArtifacts, locals
<1>5. /\ pending' \subseteq Rows /\ pc' \in {"restoreJobs", "restoreArtifacts", "dropSnapshot", "fail"}
      /\ UNCHANGED <<snapshots, status, plan, rows, attempt, snapshot, writes, promote, declared, copied>>
  BY DEF CleanUp, RollbackJobs, RollbackArtifacts, Types, db, locals
<1> QED BY <1>1, <1>2, <1>3, <1>4, <1>5 DEF Types

LEMMA DropTypes == ASSUME Types, DropSnapshot PROVE Types'
<1>1. base' = base /\ faults' \in 0 .. MaxFaults /\ crashes' = crashes
  BY BoundTypes DEF DropSnapshot
<1>2. attempt' \in 1 .. MaxAttempts
  <2>1. attempt' = attempt \/ (attempt < MaxAttempts /\ attempt' = attempt + 1)
    BY DEF DropSnapshot
  <2> QED BY <2>1, ConstantTypes DEF Types
<1>3. retryable' = retryable
  BY DEF DropSnapshot
<1>4. /\ snapshots' \subseteq 1 .. MaxAttempts /\ pc' \in {"begin", "fail"}
      /\ UNCHANGED <<jobs, artifacts, status, plan, rows, snapshot, writes, promote, declared, copied, pending>>
  BY Zenon DEF DropSnapshot, Types, db
<1> QED BY <1>1, <1>2, <1>3, <1>4 DEF Types

LEMMA EndTypes ==
  ASSUME Types, FinishRun \/ FailRun \/ Crash \/ RecoverStale PROVE Types'
<1>1. faults' \in 0 .. MaxFaults
  BY BoundTypes DEF FinishRun, FailRun, Crash, RecoverStale, Types, bounds
<1>2. base' = base /\ crashes' \in 0 .. MaxCrashes
  <2>1. CASE Crash
    <3>1. crashes' = crashes + 1 /\ crashes < MaxCrashes /\ base' = base
      BY <2>1 DEF Crash
    <3> QED BY <3>1, ConstantTypes DEF Types
  <2>2. CASE FinishRun \/ FailRun \/ RecoverStale
    BY <2>2, BoundTypes DEF FinishRun, FailRun, RecoverStale, Types, bounds
  <2> QED BY <2>1, <2>2
<1>3. retryable' = retryable
  BY DEF FinishRun, FailRun, Crash, RecoverStale, locals
<1>4. /\ status' \in {"RUNNING", "COMPLETED", "FAILED"} /\ pc' \in {"fail", "ended"}
      /\ UNCHANGED <<jobs, artifacts, snapshots, plan, rows, attempt, snapshot, writes, promote,
                     declared, copied, pending>>
  BY DEF FinishRun, FailRun, Crash, RecoverStale, Types, disk, db, locals
<1> QED BY <1>1, <1>2, <1>3, <1>4 DEF Types

-----------------------------------------------------------------------------
(* The invariant, one lemma per action or group of actions of one shape.   *)

LEMMA BeginInv == ASSUME Inv, BeginAttempt PROVE Inv'
<1>1. Types'
  BY BeginTypes DEF Inv
<1>2. /\ pc = "begin" /\ Clean /\ snapshots = {} /\ status = "RUNNING"
      /\ UNCHANGED <<jobs, artifacts, status, plan, rows, attempt>> /\ base' = base
  BY BoundTypes DEF Inv, Snapshot, Forward, Outcome, BeginAttempt, db
<1>3. CASE pc' = "actions"
  <2>1. /\ snapshot' = [jobs |-> jobs, artifacts |-> artifacts] /\ snapshots' = {attempt}
        /\ promote' = declared' /\ pending' = {}
    BY <1>2, <1>3 DEF BeginAttempt
  <2>2. snapshot'.jobs = base' /\ snapshot'.artifacts = NoFiles /\ rows' = {}
    BY <1>2, <2>1 DEF Clean
  <2>3. Registered(pending, declared \ promote, attempt)'
    BY <2>1 DEF Registered
  <2> QED BY <1>1, <1>2, <1>3, <2>1, <2>2, <2>3
          DEF Inv, Snapshot, Forward, Backward, Outcome, Undoing
<1>4. CASE pc' = "fail"
  <2>1. faults' > 0
    BY <1>4, FaultType DEF BeginAttempt, Inv
  <2> QED BY <1>1, <1>2, <1>4, <2>1 DEF Inv, Snapshot, Forward, Backward, Outcome, Undoing
<1> QED BY <1>3, <1>4 DEF BeginAttempt

\* An exception before the commit leaves no rows.
LEMMA RaiseInv ==
  ASSUME Inv, Types', pc = "actions", pc' = "undo", rows' = {} \/ (faults' > 0 /\ ~ retryable'),
         UNCHANGED <<base, snapshot, snapshots, attempt, status>>
  PROVE  Inv'
BY DEF Inv, Snapshot, Forward, Backward, Outcome, Undoing

LEMMA ActionInv == ASSUME Inv, ExecuteAction PROVE Inv'
<1>1. Types' /\ pc = "actions" /\ rows = {}
      /\ UNCHANGED <<artifacts, snapshots, status, plan, rows, attempt, snapshot, promote,
                     declared, copied, pending, base, faults, crashes>>
  BY ActionTypes DEF Inv, Forward, ExecuteAction, db, bounds
<1>2. CASE pc' = "undo"
  BY <1>1, <1>2, RaiseInv
<1>3. CASE pc' = "actions"
  <2>1. PICK p \in writes : jobs' = [jobs EXCEPT ![p] = attempt] /\ writes' = writes \ {p}
    BY <1>3 DEF ExecuteAction, Raise
  <2>2. promote = declared
    BY <1>1, <2>1 DEF Inv, Forward
  <2>3. pending = {}
    BY <1>1, <2>2 DEF Inv, Forward, Registered
  <2>4. Registered(pending, declared \ promote, attempt)'
    BY <1>1, <2>2, <2>3 DEF Registered
  <2> QED BY <1>1, <1>3, <2>2, <2>4 DEF Inv, Snapshot, Forward, Backward, Outcome, Undoing
<1> QED BY <1>1, <1>2, <1>3 DEF ExecuteAction, Raise

LEMMA PromoteInv == ASSUME Inv, PromoteArtifact PROVE Inv'
<1>1. Types' /\ pc = "actions" /\ writes = {} /\ rows = {} /\ base' = base
      /\ UNCHANGED <<jobs, snapshots, status, plan, rows, attempt, snapshot, writes, declared>>
  BY PromoteTypes, BoundTypes, Zenon DEF Inv, Forward, PromoteArtifact, ActionsDone, db
<1>2. CASE pc' = "undo"
  BY <1>1, <1>2, RaiseInv
<1>3. CASE pc' # "undo"
  <2>1. PICK p \in promote :
          /\ artifacts' = [artifacts EXCEPT ![p] = jobs[p]]
          /\ pending' = pending \cup {[path |-> p, version |-> jobs[p], attempt |-> attempt]}
          /\ promote' = promote \ {p} /\ pc' = pc
    BY <1>3 DEF PromoteArtifact, Raise, SaveArtifact, RegisterArtifact
  <2>2. promote \subseteq declared /\ Registered(pending, declared \ promote, attempt)
    BY <1>1 DEF Inv, Forward
  <2>3. declared' \ promote' = (declared \ promote) \cup {p}
    BY <1>1, <2>1, <2>2
  <2>4. artifacts \in [Paths -> 0 .. Inherited] /\ p \in Paths
    BY DEF Inv, Types, Files
  <2> DEFINE new == [path |-> p, version |-> jobs[p], attempt |-> attempt]
             D == declared \ promote
             R == pending
  <2>5. new.path = p /\ new.version = jobs[p] /\ new.attempt = attempt
    OBVIOUS
  <2>6. ASSUME NEW r \in pending'
        PROVE  /\ r.path \in declared' \ promote' /\ r.attempt = attempt'
               /\ jobs'[r.path] = r.version /\ artifacts'[r.path] = r.version
    <3>1. CASE r = new
      BY <1>1, <2>1, <2>3, <2>4, <2>5, <3>1
    <3>2. CASE r \in pending
      <4>1. r.path \in declared \ promote /\ r.path # p /\ r.path \in Paths
        BY <2>1, <2>2, <3>2 DEF Registered, Inv, Types
      <4>2. artifacts'[r.path] = artifacts[r.path]
        BY <2>1, <2>4, <4>1
      <4> QED BY <1>1, <2>2, <2>3, <3>2, <4>1, <4>2 DEF Registered
    <3> QED BY <2>1, <3>1, <3>2
  <2>7. ASSUME NEW q \in declared' \ promote' PROVE \E r \in pending' : r.path = q
    <3>1. CASE q = p
      BY <2>1, <2>5, <3>1, Zenon
    <3>2. CASE q # p
      BY <2>1, <2>2, <2>3, <3>2 DEF Registered
    <3> QED BY <3>1, <3>2
  <2>8. Registered(pending, declared \ promote, attempt)'
    BY <2>6, <2>7 DEF Registered
  <2>9. promote' \subseteq declared' /\ pc' = "actions"
    BY <1>1, <2>1, <2>2
  <2> QED BY <1>1, <2>8, <2>9 DEF Inv, Snapshot, Forward, Backward, Outcome, Undoing
<1> QED BY <1>2, <1>3

LEMMA CommitInv == ASSUME Inv, CommitRows PROVE Inv'
<1>1. Types' /\ pc = "actions" /\ promote = {} /\ rows = {} /\ base' = base
      /\ UNCHANGED <<jobs, artifacts, snapshots, status, plan, attempt, snapshot, declared>>
  BY CommitTypes, BoundTypes, Zenon DEF Inv, Forward, CommitRows, ActionsDone, disk
<1>2. CASE rows' = rows \cup pending /\ pc' = "save"
  <2>1. Registered(pending, declared, attempt)
    BY <1>1 DEF Inv, Forward
  <2>2. Registered(rows, declared, attempt)'
    BY <1>1, <1>2, <2>1 DEF Registered
  <2> QED BY <1>1, <1>2, <2>2 DEF Inv, Snapshot, Forward, Backward, Outcome, Undoing
<1>3. CASE Raise(FALSE) /\ Fault
  <2>1. pc' = "undo" /\ faults' > 0
    BY <1>3, FaultType DEF Raise, Inv
  <2>2. ~ retryable'
    BY <1>3, Zenon DEF Raise
  <2> QED BY <1>1, <2>1, <2>2, RaiseInv
<1> QED BY <1>2, <1>3, Zenon DEF CommitRows

LEMMA SaveInv == ASSUME Inv, SavePlan PROVE Inv'
<1>1. Types' /\ pc = "save" /\ base' = base /\ Registered(rows, declared, attempt)
      /\ UNCHANGED <<jobs, artifacts, snapshots, status, rows, attempt, snapshot, declared>>
  BY CommitTypes, BoundTypes, ZenonT(30) DEF Inv, Forward, SavePlan, disk
<1>2. CASE plan' = [attempt |-> attempt, paths |-> declared] /\ pc' = "complete"
  <2>1. plan'.attempt = attempt' /\ plan'.paths = declared'
    BY <1>1, <1>2
  <2>2. Registered(rows, declared, attempt)'
    BY <1>1 DEF Registered
  <2> QED BY <1>1, <1>2, <2>1, <2>2 DEF Inv, Snapshot, Forward, Backward, Outcome, Undoing
<1>3. CASE Raise(FALSE) /\ Fault
  <2>1. pc' = "undo" /\ faults' > 0
    BY <1>3, FaultType DEF Raise, Inv
  <2>2. ~ retryable'
    BY <1>3, Zenon DEF Raise
  <2> QED BY <1>1, <2>1, <2>2 DEF Inv, Snapshot, Forward, Backward, Outcome, Undoing
<1> QED BY <1>2, <1>3, Zenon DEF SavePlan

LEMMA CompleteInv == ASSUME Inv, CompleteAttempt PROVE Inv'
<1>1. Types' /\ pc = "complete" /\ base' = base /\ Registered(rows, declared, attempt)
      /\ UNCHANGED <<jobs, artifacts, status, plan, rows, attempt, snapshot, declared>>
      /\ plan.attempt = attempt /\ plan.paths = declared /\ status = "RUNNING" /\ snapshots = {attempt}
  BY CommitTypes, BoundTypes DEF Inv, Forward, Snapshot, Outcome, CompleteAttempt, db, locals
<1>2. CASE snapshots' = snapshots \ {attempt} /\ pc' = "finish"
  <2>1. Registered(rows, declared, attempt)'
    BY <1>1 DEF Registered
  <2>2. snapshots' = {}
    BY <1>1, <1>2, Zenon
  <2> QED BY <1>1, <1>2, <2>1, <2>2 DEF Inv, Snapshot, Forward, Backward, Outcome, Undoing
<1>3. CASE pc' = "fail" /\ Fault
  <2>1. faults' > 0
    BY <1>3, FaultType DEF Inv
  <2> QED BY <1>1, <1>3, <2>1 DEF Inv, Snapshot, Forward, Backward, Outcome, Undoing
<1> QED BY <1>2, <1>3 DEF CompleteAttempt

\* The way back.
LEMMA UndoInv ==
  ASSUME Inv, CleanUp \/ RollbackJobs \/ RollbackArtifacts PROVE Inv'
<1>1. Types' /\ pc \in {"undo", "restoreJobs", "restoreArtifacts"} /\ base' = base
      /\ (faults > 0 => faults' > 0)
      /\ UNCHANGED <<snapshots, status, plan, rows, attempt, snapshot, retryable>>
  BY UndoTypes, BoundTypes DEF Inv, CleanUp, RollbackJobs, RollbackArtifacts, db, locals
<1>2. /\ snapshot.jobs = base /\ snapshot.artifacts = NoFiles /\ snapshots = {attempt}
      /\ rows = {} \/ (faults > 0 /\ ~ retryable)
      /\ status = "RUNNING"
  BY <1>1, Zenon DEF Inv, Snapshot, Backward, Outcome, Undoing
<1>3. CASE pc' = "fail"
  <2>1. faults' > 0
    BY <1>3, FaultType, Zenon DEF Inv, CleanUp, RollbackJobs, RollbackArtifacts
  <2> QED BY <1>1, <1>2, <1>3, <2>1 DEF Inv, Snapshot, Forward, Backward, Outcome, Undoing
<1>4. CASE pc' # "fail"
  <2>1. /\ pc' \in {"restoreJobs", "restoreArtifacts", "dropSnapshot"}
        /\ pc' = "restoreArtifacts" => jobs' = snapshot.jobs
        /\ pc' = "dropSnapshot" => jobs' = jobs /\ pc = "restoreArtifacts" /\ artifacts' = snapshot.artifacts
    BY <1>4 DEF CleanUp, RollbackJobs, RollbackArtifacts
  <2>2. /\ pc' \in {"restoreArtifacts", "dropSnapshot"} => jobs' = base'
        /\ pc' = "dropSnapshot" => artifacts' = NoFiles
    BY <1>1, <1>2, <2>1 DEF Inv, Backward
  <2> QED BY <1>1, <1>2, <2>1, <2>2, Zenon DEF Inv, Snapshot, Forward, Backward, Outcome, Undoing
<1> QED BY <1>3, <1>4

LEMMA DropInv == ASSUME Inv, DropSnapshot PROVE Inv'
<1>1. Types' /\ pc = "dropSnapshot" /\ base' = base /\ (faults > 0 => faults' > 0)
      /\ UNCHANGED <<jobs, artifacts, status, plan, rows, snapshot>>
      /\ jobs = base /\ artifacts = NoFiles /\ snapshots = {attempt} /\ status = "RUNNING"
      /\ (rows = {} \/ (faults > 0 /\ ~ retryable))
  BY DropTypes, BoundTypes, Zenon DEF Inv, Snapshot, Backward, Outcome, Undoing, DropSnapshot, db
<1>2. CASE pc' = "begin"
  <2>1. retryable /\ snapshots' = {}
    BY <1>1, <1>2 DEF DropSnapshot
  <2> QED BY <1>1, <1>2, <2>1 DEF Inv, Snapshot, Forward, Backward, Outcome, Undoing, Clean
<1>3. CASE pc' = "fail"
  <2>1. CASE Fault
    <3>1. faults' > 0
      BY <2>1, FaultType DEF Inv
    <3> QED BY <1>1, <1>3, <3>1 DEF Inv, Snapshot, Forward, Backward, Outcome, Undoing
  <2>2. CASE snapshots' = snapshots \ {attempt}
    <3>1. snapshots' = {}
      BY <1>1, <2>2
    <3>2. faults' > 0 \/ (jobs' = base' /\ artifacts' = NoFiles /\ rows' = {})
      BY <1>1
    <3> QED BY <1>1, <1>3, <3>1, <3>2 DEF Inv, Snapshot, Forward, Backward, Outcome, Undoing, Clean
  <2> QED BY <2>1, <2>2 DEF DropSnapshot
<1> QED BY <1>2, <1>3 DEF DropSnapshot

\* What the disk and the tables say is left alone when the job ends.
LEMMA EndInv ==
  ASSUME Inv, FinishRun \/ FailRun \/ Crash \/ RecoverStale PROVE Inv'
<1>1. Types' /\ pc' \in {"fail", "ended"} /\ base' = base
      /\ UNCHANGED <<jobs, artifacts, snapshots, plan, rows, attempt, snapshot>>
  BY EndTypes, BoundTypes DEF Inv, FinishRun, FailRun, Crash, RecoverStale, Types, disk, db, locals, bounds
<1>2. /\ faults \in Nat /\ crashes \in Nat /\ (faults > 0 => faults' > 0) /\ (crashes > 0 => crashes' > 0)
  BY BoundTypes, ConstantTypes DEF Inv, FinishRun, FailRun, Crash, RecoverStale, Types, bounds
<1>3. ASSUME status' = "COMPLETED" PROVE Registered(rows, plan.paths, plan.attempt)'
  <2>1. pc = "finish" \/ status = "COMPLETED"
    BY <1>3 DEF FinishRun, FailRun, Crash, RecoverStale, db
  <2>2. Registered(rows, plan.paths, plan.attempt)
    BY <2>1 DEF Inv, Forward, Outcome
  <2> QED BY <1>1, <2>2 DEF Registered
<1>4. Clean' <=> Clean
  BY <1>1 DEF Clean
<1>5. CASE FinishRun
  <2>1. pc = "finish" /\ status = "RUNNING" /\ snapshots = {}
    BY <1>5, Zenon DEF Inv, Snapshot, Outcome, FinishRun
  <2>2. CASE status' = "COMPLETED" /\ pc' = "ended"
    BY <1>1, <1>3, <2>1, <2>2, Zenon DEF Inv, Snapshot, Forward, Backward, Outcome, Undoing
  <2>3. CASE status' \in {"RUNNING", "COMPLETED"} /\ pc' = "fail" /\ Fault
    <3>1. faults' > 0
      BY <2>3, FaultType DEF Inv
    <3> QED BY <1>1, <1>3, <2>3, <3>1 DEF Inv, Snapshot, Forward, Backward, Outcome, Undoing
  <2> QED BY <1>5, <2>2, <2>3 DEF FinishRun
<1>6. CASE FailRun
  <2>1. pc = "fail" /\ pc' = "ended" /\ status \in {"RUNNING", "COMPLETED"}
        /\ (faults > 0 \/ (Clean /\ snapshots = {}))
    BY <1>6, Zenon DEF Inv, Types, Backward, Outcome, FailRun
  <2>2. CASE Fault
    <3>1. faults' > 0
      BY <2>2, FaultType, Zenon DEF Inv
    <3> QED BY <1>1, <1>3, <2>1, <3>1 DEF Inv, Snapshot, Forward, Backward, Outcome, Undoing
  <2>3. CASE status' = IF status = "RUNNING" THEN "FAILED" ELSE status
    BY <1>1, <1>2, <1>3, <1>4, <2>1, <2>3, Zenon DEF Inv, Snapshot, Forward, Backward, Outcome, Undoing
  <2> QED BY <1>6, <2>2, <2>3 DEF FailRun
<1>7. CASE Crash
  <2>1. crashes' > 0 /\ pc' = "ended"
    <3>1. crashes' = crashes + 1 /\ pc' = "ended"
      BY <1>7, Zenon DEF Crash
    <3> QED BY <1>2, <3>1
  <2> QED BY <1>1, <1>3, <2>1 DEF Inv, Snapshot, Forward, Backward, Outcome, Undoing
<1>8. CASE RecoverStale
  <2>1. pc = "ended" /\ pc' = "ended" /\ status = "RUNNING"
    BY <1>8 DEF RecoverStale
  <2>2. faults' > 0 \/ crashes' > 0
    BY <1>2, <2>1 DEF Inv, Outcome
  <2> QED BY <1>1, <1>3, <2>1, <2>2 DEF Inv, Snapshot, Forward, Backward, Outcome, Undoing
<1> QED BY <1>5, <1>6, <1>7, <1>8

LEMMA StepInv == Inv /\ [Next]_vars => Inv'
<1> SUFFICES ASSUME Inv, [Next]_vars PROVE Inv'
  OBVIOUS
<1>1. CASE UNCHANGED vars
  <2>1. Types'
    BY <1>1 DEF Inv, Types, vars, disk, db, locals, bounds
  <2>2. Snapshot' /\ Backward'
    BY <1>1, Zenon DEF Inv, Snapshot, Backward, Clean, vars, disk, db, locals, bounds
  <2>3. Forward' /\ Outcome'
    BY <1>1 DEF Inv, Forward, Outcome, Registered, Clean, vars, disk, db, locals, bounds
  <2> QED BY <2>1, <2>2, <2>3 DEF Inv
<1>2. CASE BeginAttempt \/ ExecuteAction \/ PromoteArtifact \/ CommitRows \/ SavePlan
  BY <1>2, BeginInv, ActionInv, PromoteInv, CommitInv, SaveInv
<1>3. CASE CompleteAttempt \/ CleanUp \/ RollbackJobs \/ RollbackArtifacts \/ DropSnapshot
  BY <1>3, CompleteInv, UndoInv, DropInv
<1>4. CASE FinishRun \/ FailRun \/ Crash \/ RecoverStale
  BY <1>4, EndInv
<1> QED BY <1>1, <1>2, <1>3, <1>4 DEF Next

-----------------------------------------------------------------------------
(* The theorems.                                                           *)

\* The inductive invariant of execute_attempt and of the snapshots it takes.
THEOREM AttemptCorrect == Spec => []Inv
<1> QED BY InitInv, StepInv, PTL DEF Spec

\* No more attempts are made than there are delays in RETRY_DELAYS_SECONDS and one.
THEOREM TypeCorrect == Spec => []TypeOK
<1>1. Inv => TypeOK
  BY DEF Inv, Types, TypeOK
<1> QED BY <1>1, AttemptCorrect, PTL

\* However often execute_attempt fails, and whatever step of a rollback fails, an
\* attempt that begins finds the workspace of the first, and no artifacts.
THEOREM EveryAttemptStartsClean == Spec => []AttemptsStartClean
<1>1. Inv => AttemptsStartClean
  BY DEF Inv, Forward, Clean, AttemptsStartClean
<1> QED BY <1>1, AttemptCorrect, PTL

\* A COMPLETED job lists what its plan declares, and both downloads return it.
THEOREM CompletedIsServed == Spec => []CompletedServesItsArtifacts
<1>1. Inv => CompletedServesItsArtifacts
  <2> SUFFICES ASSUME Inv, status = "COMPLETED"
               PROVE  /\ {r.path : r \in ListArtifacts} = plan.paths
                      /\ \A r \in ListArtifacts : /\ r.attempt = plan.attempt
                                                  /\ DownloadById(r) = r.version
                                                  /\ DownloadByName(r.path) = r.version
    BY DEF CompletedServesItsArtifacts
  <2>1. Registered(rows, plan.paths, plan.attempt)
    BY DEF Inv, Outcome
  <2>2. {r.path : r \in rows} = plan.paths
    BY <2>1 DEF Registered
  <2> QED BY <2>1, <2>2 DEF Registered, ListArtifacts, DownloadById, DownloadByName
<1> QED BY <1>1, AttemptCorrect, PTL

\* Without faults and crashes the rollback leaves nothing of a failed job.
THEOREM FailureIsTraceless == Spec => []FailureLeavesNoTrace
<1>1. Inv => FailureLeavesNoTrace
  <2> SUFFICES ASSUME Inv, status = "FAILED", faults + crashes = 0 PROVE Clean
    BY DEF FailureLeavesNoTrace, Clean
  <2>1. faults \in Nat /\ crashes \in Nat
    BY ConstantTypes DEF Inv, Types
  <2>2. ~ (faults > 0) /\ ~ (crashes > 0)
    BY <2>1
  <2> QED BY <2>2 DEF Inv, Outcome
<1> QED BY <1>1, AttemptCorrect, PTL

\* Without faults and crashes complete_attempt removes every snapshot.
THEOREM NoSnapshotStays == Spec => []SnapshotsRemoved
<1>1. Inv => SnapshotsRemoved
  <2> SUFFICES ASSUME Inv, pc = "ended", faults + crashes = 0 PROVE snapshots = {}
    BY DEF SnapshotsRemoved
  <2>1. faults \in Nat /\ crashes \in Nat
    BY ConstantTypes DEF Inv, Types
  <2>2. ~ (faults > 0) /\ ~ (crashes > 0)
    BY <2>1
  <2> QED BY <2>2 DEF Inv, Outcome
<1> QED BY <1>1, AttemptCorrect, PTL
=============================================================================
