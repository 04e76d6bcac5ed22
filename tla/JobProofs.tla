----------------------------- MODULE JobProofs ------------------------------
(***************************************************************************)
(* Theorems about what Orchestrator does to a job: its status, log, plan,  *)
(* rows and parent.  For one process they end in the refinement of         *)
(* JobLifecycle.                                                           *)
(***************************************************************************)
EXTENDS OrchestratorProofs

-----------------------------------------------------------------------------
(* What the log tells.                                                     *)

\* LogTellsStatus for one job with log s and status st.
Story(s, st) ==
  /\ st \in {"NONE", "CREATED"} => QuietOutside(s, {})
  /\ st = "RUNNING" => ReportsStart(s)
  /\ st = "COMPLETED" => ReportsEnd(s, {"ORCHESTRATION_COMPLETED"})
  /\ st = "FAILED" => \/ ReportsQueueTimeout(s)
                      \/ ReportsEnd(s, {"ORCHESTRATION_FAILED", "STALE_JOB_RECOVERED"})

\* An event at the end of a log.
LEMMA Appended ==
  ASSUME NEW s \in Seq(Lifecycle!Codes), NEW c \in Lifecycle!Codes
  PROVE  /\ DOMAIN s = 1 .. Len(s) /\ Len(s) \in Nat
         /\ DOMAIN Append(s, c) = 1 .. (Len(s) + 1)
         /\ \A i \in 1 .. Len(s) : Append(s, c)[i] = s[i] /\ i < Len(s) + 1 /\ i \in 1 .. (Len(s) + 1)
         /\ Append(s, c)[Len(s) + 1] = c /\ Len(s) + 1 \in 1 .. (Len(s) + 1)
         /\ \A i \in 1 .. (Len(s) + 1) : i \in 1 .. Len(s) \/ i = Len(s) + 1
<1>1. Len(s) \in Nat /\ DOMAIN s = 1 .. Len(s)
  BY LenProperties
<1>2. /\ DOMAIN Append(s, c) = 1 .. (Len(s) + 1) /\ Append(s, c)[Len(s) + 1] = c
      /\ \A i \in 1 .. Len(s) : Append(s, c)[i] = s[i]
  BY <1>1, AppendProperties, LenProperties
<1> QED BY <1>1, <1>2

\* What is quiet outside of I stays so when a note follows, and when the
\* position of what follows joins I.
LEMMA QuietKept ==
  ASSUME NEW s \in Seq(Lifecycle!Codes), NEW c \in Lifecycle!Codes, NEW I, QuietOutside(s, I)
  PROVE  /\ c \in Lifecycle!Notes => QuietOutside(Append(s, c), I)
         /\ QuietOutside(Append(s, c), I \cup {Len(s) + 1})
<1> DEFINE n == Len(s) + 1
           t == Append(s, c)
<1>1. /\ DOMAIN s = 1 .. Len(s) /\ DOMAIN t = 1 .. n /\ t[n] = c
      /\ (\A i \in 1 .. Len(s) : t[i] = s[i]) /\ \A i \in 1 .. n : i \in 1 .. Len(s) \/ i = n
  BY Appended
<1> SUFFICES /\ c \in Lifecycle!Notes => QuietOutside(t, I)
             /\ QuietOutside(t, I \cup {n})
  OBVIOUS
<1> HIDE DEF n, t
<1>2. \A k \in DOMAIN t \ I : k = n \/ t[k] \in Lifecycle!Notes
  BY <1>1 DEF QuietOutside
<1> QED BY <1>1, <1>2 DEF QuietOutside

LEMMA StoryNote ==
  ASSUME NEW s \in Seq(Lifecycle!Codes), NEW c \in Lifecycle!Notes, NEW st, Story(s, st)
  PROVE  Story(Append(s, c), st)
<1> DEFINE t == Append(s, c)
<1>1. c \in Lifecycle!Codes
  BY DEF Lifecycle!Codes
<1>2. \A I : QuietOutside(s, I) => QuietOutside(t, I)
  BY <1>1, QuietKept, Zenon
<1>3. \A i \in DOMAIN s : i \in DOMAIN t /\ t[i] = s[i]
  BY <1>1, Appended
<1> SUFFICES Story(t, st)
  OBVIOUS
<1> HIDE DEF t
<1>4. ReportsStart(s) => ReportsStart(t)
  BY <1>2, <1>3, Zenon DEF ReportsStart
<1>5. ReportsQueueTimeout(s) => ReportsQueueTimeout(t)
  BY <1>2, <1>3, Zenon DEF ReportsQueueTimeout
<1>6. \A codes : ReportsEnd(s, codes) => ReportsEnd(t, codes)
  BY <1>2, <1>3, Zenon DEF ReportsEnd
<1> QED BY <1>2, <1>4, <1>5, <1>6 DEF Story

LEMMA StoryFirst ==
  ASSUME NEW s \in Seq(Lifecycle!Codes), QuietOutside(s, {}), NEW c \in Lifecycle!Codes
  PROVE  /\ c = "ORCHESTRATION_STARTED" => ReportsStart(Append(s, c))
         /\ c = "ORCHESTRATION_QUEUE_TIMEOUT" => ReportsQueueTimeout(Append(s, c))
<1> DEFINE t == Append(s, c)
           n == Len(s) + 1
<1>1. n \in DOMAIN t /\ t[n] = c
  BY Appended
<1>2. QuietOutside(t, {} \cup {n})
  BY QuietKept
<1>3. {} \cup {n} = {n}
  OBVIOUS
<1>4. QuietOutside(t, {n})
  BY <1>2, <1>3
<1> HIDE DEF t, n
<1> QED BY <1>1, <1>4, Zenon DEF ReportsStart, ReportsQueueTimeout, t

LEMMA StoryEnd ==
  ASSUME NEW s \in Seq(Lifecycle!Codes), ReportsStart(s), NEW c \in Lifecycle!Codes,
         NEW codes, c \in codes
  PROVE  ReportsEnd(Append(s, c), codes)
<1> DEFINE t == Append(s, c)
           n == Len(s) + 1
<1>1. PICK i \in DOMAIN s : s[i] = "ORCHESTRATION_STARTED" /\ QuietOutside(s, {i})
  BY Zenon DEF ReportsStart
<1>2. i \in DOMAIN t /\ n \in DOMAIN t /\ i < n /\ t[i] = s[i] /\ t[n] = c
  BY Appended
<1>3. QuietOutside(t, {i} \cup {n})
  BY <1>1, QuietKept
<1>4. {i} \cup {n} = {i, n}
  OBVIOUS
<1>5. QuietOutside(t, {i, n})
  BY <1>3, <1>4
<1> HIDE DEF t, n
<1> QED BY <1>1, <1>2, <1>5, Zenon DEF ReportsEnd, t

-----------------------------------------------------------------------------
(* What a step of one task does to the jobs.                               *)

\* What the program counter of a task says about plan, rows and status.
PlanInv(j) ==
  /\ pc[j] \in Early \cup {"none", "context", "attempt", "sleep", "generate", "execute", "rows"} =>
       rows[j] = {}
  /\ pc[j] \in {"save", "finish", "complete"} => rows[j] = {attempt[j]}
  /\ pc[j] \in {"finish", "complete"} => plan[j] = attempt[j]
  /\ pc[j] \in Working \cup {"fail"} => status[j] \notin {"NONE", "CREATED"}
  /\ status[j] = "COMPLETED" => /\ pc[j] \in {"fail", "ended"}
                                /\ plan[j] # 0 /\ rows[j] = {plan[j]}

Same(k) ==
  /\ status'[k] = status[k] /\ log'[k] = log[k] /\ plan'[k] = plan[k] /\ rows'[k] = rows[k]
  /\ files'[k] = files[k] /\ pc'[k] = pc[k] /\ attempt'[k] = attempt[k]

\* The job's log stays as it is or gets a note, from where notes are written.
Noted(j) ==
  /\ status' = status
  /\ \/ log' = log
     \/ /\ pc[j] \in Working \cup {"firstEvent"}
        /\ \E c \in Lifecycle!Notes : log' = [log EXCEPT ![j] = Append(@, c)]

\* No job becomes stale.
Younger == \A k \in Jobs : status'[k] = "RUNNING" /\ stale'[k] => status[k] = "RUNNING" /\ stale[k]

TaskKind(j) ==
  /\ pc[j] \in Live
  /\ UNCHANGED <<parent, up, sweep, owner>>
  /\ \A k \in Jobs : k # j => Same(k)
  /\ Noted(j) \/ Lifecycle!Move(j)
  /\ PlanInv(j)'
  /\ pc[j] \in Working \/ (plan'[j] = plan[j] /\ rows'[j] = rows[j] /\ files'[j] = files[j])
  /\ (pc[j] \in Working => status[j] = "RUNNING") => (pc'[j] \in Working => status'[j] = "RUNNING")
  /\ Younger

\* What the proofs below take from the base invariant.
Facts(j) ==
  /\ status \in [Jobs -> Lifecycle!Statuses] /\ stale \in [Jobs -> BOOLEAN]
  /\ log \in [Jobs -> Seq(Lifecycle!Codes)] /\ plan \in [Jobs -> 0 .. MaxAttempts]
  /\ rows \in [Jobs -> SUBSET (1 .. MaxAttempts)] /\ files \in [Jobs -> {"absent", "fit", "over"}]
  /\ attempt \in [Jobs -> 0 .. MaxAttempts]
  /\ pc \in [Jobs -> PCs] /\ TaskInv(j) /\ PlanInv(j)
  /\ \A to : Goto(j, to) => pc'[j] = to /\ \A k \in Jobs : k # j => pc'[k] = pc[k]

LEMMA HasFacts ==
  ASSUME Base, NEW j \in Jobs, PlanInv(j)
  PROVE  Facts(j)
<1>1. /\ status \in [Jobs -> Lifecycle!Statuses] /\ stale \in [Jobs -> BOOLEAN]
      /\ log \in [Jobs -> Seq(Lifecycle!Codes)] /\ plan \in [Jobs -> 0 .. MaxAttempts]
      /\ rows \in [Jobs -> SUBSET (1 .. MaxAttempts)] /\ files \in [Jobs -> {"absent", "fit", "over"}]
      /\ attempt \in [Jobs -> 0 .. MaxAttempts]
      /\ pc \in [Jobs -> PCs] /\ TaskInv(j)
  BY DEF Base, TypeOK, Tasks, PCs
<1>2. \A to : Goto(j, to) => pc'[j] = to /\ \A k \in Jobs : k # j => pc'[k] = pc[k]
  BY <1>1 DEF Goto
<1> QED BY <1>1, <1>2 DEF Facts

\* Steps that write no event and leave status and files alone.
LEMMA QuietKind ==
  ASSUME Base, NEW j \in Jobs, PlanInv(j),
         \/ CreateWorkspace(j) \/ EnterGate(j) \/ QueueTimeout(j) \/ GeneratePlan(j)
         \/ RetryPause(j) \/ ExecuteActions(j) \/ CommitArtifacts(j) \/ SaveActionPlan(j)
  PROVE  TaskKind(j)
<1> USE DEF PCs, Live, InSlot, Early, Working
<1>0. Facts(j)
  BY HasFacts, Zenon
<1>1. /\ UNCHANGED <<parent, up, sweep, owner, status, log, files, attempt>>
      /\ \E to : Goto(j, to)
  BY ZenonT(30) DEF CreateWorkspace, EnterGate, QueueTimeout, GeneratePlan, RetryPause, ExecuteActions,
         CommitArtifacts, SaveActionPlan, Commit, dbVars, procVars
<1>2. /\ \A k \in Jobs : k # j => plan'[k] = plan[k] /\ rows'[k] = rows[k]
      /\ pc[j] \in Live
      /\ pc[j] \in Working \/ (plan' = plan /\ rows' = rows)
  BY <1>0 DEF CreateWorkspace, EnterGate, QueueTimeout, GeneratePlan, RetryPause, ExecuteActions,
         CommitArtifacts, SaveActionPlan, Commit, dbVars, Facts
<1>3. \A k \in Jobs : k # j => Same(k)
  BY <1>0, <1>1, <1>2, ZenonT(30) DEF Same, Facts
<1>4. Younger
  <2>1. stale' = stale \/ stale' = [stale EXCEPT ![j] = FALSE]
    BY DEF CreateWorkspace, EnterGate, QueueTimeout, GeneratePlan, RetryPause, ExecuteActions,
           CommitArtifacts, SaveActionPlan, Commit, dbVars
  <2> QED BY <1>0, <1>1, <2>1, ZenonT(30) DEF Younger, Facts
<1>5. PlanInv(j)' /\ (pc'[j] \in Working => pc[j] \in Working)
  <2>1. CASE CreateWorkspace(j)
    <3>1. pc[j] = "workspace" /\ pc'[j] \in {"firstEvent", "ended"} /\ rows' = rows
      BY <1>0, <2>1, Zenon DEF CreateWorkspace, dbVars, Facts
    <3>2. status[j] = "CREATED" /\ rows[j] = {}
      BY <1>0, <3>1, Zenon DEF Facts, PlanInv, TaskInv, Early
    <3> QED BY <1>1, <3>1, <3>2, ZenonT(30) DEF PlanInv, Working, InSlot, Early
  <2>2. CASE EnterGate(j) \/ QueueTimeout(j)
    BY <1>0, <2>2 DEF EnterGate, QueueTimeout, dbVars, Facts, PlanInv, TaskInv
  <2>3. CASE GeneratePlan(j)
    <3>1. \E to \in {"execute", AfterRetryable(j), "fail"} : Goto(j, to)
      BY <2>3, ZenonT(30) DEF GeneratePlan, After, GeneratePlanEnds, ParseActionPlanEnds, ValidateActionsEnds
    <3> QED BY <1>0, <1>1, <2>3, <3>1, ZenonT(30) DEF GeneratePlan, AfterRetryable, dbVars, Facts, PlanInv, TaskInv
  <2>4. CASE RetryPause(j) \/ ExecuteActions(j)
    BY <1>0, <2>4 DEF RetryPause, ExecuteActions, AfterRetryable, dbVars, Facts, PlanInv, TaskInv
  <2>5. CASE CommitArtifacts(j)
    <3>1. /\ pc[j] = "rows" /\ plan' = plan
          /\ \/ pc'[j] = "save" /\ rows' = [rows EXCEPT ![j] = @ \cup {attempt[j]}]
             \/ pc'[j] = "fail"
      BY <1>0, <2>5, Zenon DEF CommitArtifacts, Commit, Facts
    <3>2. rows[j] = {} /\ status[j] # "COMPLETED" /\ status[j] \notin {"NONE", "CREATED"}
      BY <1>0, <3>1, Zenon DEF Facts, PlanInv
    <3>3. pc'[j] = "save" => rows'[j] = {attempt[j]}
      BY <1>0, <3>1, <3>2 DEF Facts
    <3> QED BY <1>1, <3>1, <3>2, <3>3, ZenonT(30) DEF PlanInv
  <2>6. CASE SaveActionPlan(j)
    <3>1. /\ pc[j] = "save" /\ rows' = rows
          /\ \/ pc'[j] = "finish" /\ plan' = [plan EXCEPT ![j] = attempt[j]]
             \/ pc'[j] = "fail"
      BY <1>0, <2>6, ZenonT(30) DEF SaveActionPlan, Commit, Facts
    <3>2. rows[j] = {attempt[j]} /\ status[j] # "COMPLETED" /\ status[j] \notin {"NONE", "CREATED"}
      BY <1>0, <3>1 DEF Facts, PlanInv
    <3>3. pc'[j] = "finish" => plan'[j] = attempt[j]
      BY <1>0, <3>1, Zenon DEF Facts
    <3> QED BY <1>1, <3>1, <3>2, <3>3, ZenonT(30) DEF PlanInv
  <2> QED BY <2>1, <2>2, <2>3, <2>4, <2>5, <2>6, ZenonT(30)
<1> QED BY <1>1, <1>2, <1>3, <1>4, <1>5 DEF TaskKind, Noted

\* Steps that write a note.
LEMMA NoteKind ==
  ASSUME Base, NEW j \in Jobs, PlanInv(j),
         \/ FirstEvent(j) \/ CopyContext(j) \/ OnAttempt(j) \/ RefusePlan(j)
         \/ WriteSystemMarker(j) \/ FinishAttempt(j)
  PROVE  TaskKind(j)
<1> USE DEF PCs, Live, InSlot, Early, Working
<1>0. Facts(j)
  BY HasFacts
<1>1. UNCHANGED <<parent, up, sweep, owner, status, stale, plan, rows>>
  BY DEF FirstEvent, CopyContext, OnAttempt, RefusePlan, WriteSystemMarker, FinishAttempt, procVars
<1>2. pc[j] \in {"firstEvent", "context", "attempt", "generate", "execute", "finish"}
  BY DEF FirstEvent, CopyContext, OnAttempt, RefusePlan, WriteSystemMarker, FinishAttempt
<1>3. /\ log' = log \/ \E c \in Lifecycle!Notes : log' = [log EXCEPT ![j] = Append(@, c)]
      /\ \E to : Goto(j, to)
  <2>1. \A c, ok, raised : AppendEvent(j, c, ok, raised) =>
          /\ log' = log \/ log' = [log EXCEPT ![j] = Append(@, c)]
          /\ \E to : Goto(j, to)
    BY DEF AppendEvent, Commit, Record
  <2>2. {"SYSTEM", "REFINEMENT_CONTEXT_COPIED", "LLM_ATTEMPT", "SECURITY_ALERT", "TIMEOUT",
         "PLAN_EXECUTED"} = Lifecycle!Notes
    BY Zenon DEF Lifecycle!Notes
  <2> QED BY <2>1, <2>2, ZenonT(30)
    DEF FirstEvent, CopyContext, OnAttempt, RefusePlan, WriteSystemMarker, FinishAttempt
<1>4. \A k \in Jobs : k # j => Same(k)
  <2>1. \A k \in Jobs : k # j => log'[k] = log[k]
    BY <1>0, <1>3, ZenonT(30) DEF Facts
  <2>2. \A k \in Jobs : k # j => files'[k] = files[k] /\ attempt'[k] = attempt[k]
    BY <1>0 DEF FirstEvent, CopyContext, OnAttempt, RefusePlan, WriteSystemMarker, FinishAttempt, Facts
  <2> QED BY <1>0, <1>1, <1>3, <2>1, <2>2, Zenon DEF Same, Facts
<1>5. pc[j] \in Working \/ files' = files
  BY DEF FirstEvent, CopyContext, OnAttempt, RefusePlan, WriteSystemMarker, FinishAttempt
<1>6. PlanInv(j)' /\ (pc'[j] \in Working => pc[j] \in Working)
  <2>0. \A c, ok, raised : AppendEvent(j, c, ok, raised) => pc'[j] = ok \/ pc'[j] = raised
    BY <1>0, Zenon DEF AppendEvent, Commit, Facts
  <2>1. CASE FirstEvent(j)
    BY <1>0, <1>1, <2>0, <2>1, Zenon DEF FirstEvent, Facts, PlanInv, TaskInv
  <2>2. CASE CopyContext(j)
    <3>1. pc[j] = "context" /\ pc'[j] \in {"attempt", "fail"} /\ attempt' = attempt
      BY <1>0, <2>0, <2>2, Zenon DEF CopyContext, Facts
    <3> QED BY <1>0, <1>1, <3>1, Zenon DEF Facts, PlanInv
  <2>3. CASE OnAttempt(j)
    <3>1. pc[j] = "attempt" /\ pc'[j] \in {"generate", "fail"}
      BY <1>0, <2>0, <2>3, Zenon DEF OnAttempt
    <3> QED BY <1>0, <1>1, <3>1, Zenon DEF Facts, PlanInv
  <2>4. CASE RefusePlan(j) \/ WriteSystemMarker(j)
    <3>1. /\ pc[j] \in {"generate", "execute"} /\ pc'[j] \in {"sleep", "fail"} /\ attempt' = attempt
      BY <1>0, <2>0, <2>4, Zenon DEF RefusePlan, WriteSystemMarker, AfterRetryable
    <3> QED BY <1>0, <1>1, <3>1, Zenon DEF Facts, PlanInv
  <2>5. CASE FinishAttempt(j)
    <3>1. pc[j] = "finish" /\ pc'[j] \in {"complete", "fail"} /\ attempt' = attempt
      BY <1>0, <2>0, <2>5, ZenonT(30) DEF FinishAttempt, Facts
    <3> QED BY <1>0, <1>1, <3>1, Zenon DEF Facts, PlanInv
  <2> QED BY <2>1, <2>2, <2>3, <2>4, <2>5, ZenonT(30)
<1>7. Younger
  BY <1>1 DEF Younger
<1> QED BY <1>1, <1>2, <1>3, <1>4, <1>5, <1>6, <1>7, ZenonT(30) DEF TaskKind, Noted

\* Steps that try to change the status.
LEMMA MoveKind ==
  ASSUME Base, NEW j \in Jobs, PlanInv(j),
         FailQueued(j) \/ StartRun(j) \/ CompleteRun(j) \/ FailRun(j)
  PROVE  TaskKind(j)
<1> USE DEF PCs, Live, InSlot, Early, Working
<1>0. Facts(j)
  BY HasFacts
<1>1. /\ UNCHANGED <<parent, up, sweep, owner, plan, rows, files, attempt>>
      /\ pc[j] \in {"queueTimeout", "start", "complete", "fail"}
  BY Zenon DEF FailQueued, StartRun, CompleteRun, FailRun, procVars
<1> DEFINE Did(from, to, code) ==
      /\ status[j] = from
      /\ status' = [status EXCEPT ![j] = to]
      /\ stale' = [stale EXCEPT ![j] = FALSE]
      /\ log' = [log EXCEPT ![j] = Append(@, code)]
    Nothing == UNCHANGED <<status, stale, log>>
<1>2. /\ \E to : Goto(j, to)
      /\ \/ Nothing /\ pc'[j] \in {"ended", "fail"}
         \/ Did("CREATED", "FAILED", "ORCHESTRATION_QUEUE_TIMEOUT") /\ pc'[j] = "ended"
         \/ Did("CREATED", "RUNNING", "ORCHESTRATION_STARTED") /\ pc'[j] \in {"context", "ended"}
         \/ /\ Did("RUNNING", "COMPLETED", "ORCHESTRATION_COMPLETED")
            /\ pc[j] = "complete" /\ pc'[j] \in {"ended", "fail"}
         \/ Did("RUNNING", "FAILED", "ORCHESTRATION_FAILED") /\ pc'[j] = "ended"
      /\ pc'[j] = "fail" => pc[j] = "complete"
      /\ pc[j] = "start" \/ pc'[j] \in {"ended", "fail"}
  <2>1. CASE FailQueued(j)
    BY <1>0, <2>1, ZenonT(30) DEF FailQueued, Transition, Commit, Record, Facts
  <2>2. CASE StartRun(j)
    BY <1>0, <2>2 DEF StartRun, Transition, Commit, Record, Facts
  <2>3. CASE CompleteRun(j)
    BY <1>0, <2>3, ZenonT(30) DEF CompleteRun, Transition, Commit, Record, Facts
  <2>4. CASE FailRun(j)
    <3>1. status[j] # "CREATED"
      BY <1>0, <2>4, Zenon DEF FailRun, Facts, PlanInv
    <3> QED BY <1>0, <2>4, <3>1 DEF FailRun, Transition, Commit, Record, Facts
  <2> QED BY <2>1, <2>2, <2>3, <2>4, ZenonT(30)
<1>3. Noted(j) \/ Lifecycle!Move(j)
  <2>1. \A e \in Lifecycle!Edges : Did(e.from, e.to, e.code) => Lifecycle!Move(j)
    BY Zenon DEF Lifecycle!Move
  <2>2. /\ [from |-> "CREATED", to |-> "RUNNING", code |-> "ORCHESTRATION_STARTED"] \in Lifecycle!Edges
        /\ [from |-> "CREATED", to |-> "FAILED", code |-> "ORCHESTRATION_QUEUE_TIMEOUT"] \in Lifecycle!Edges
        /\ [from |-> "RUNNING", to |-> "COMPLETED", code |-> "ORCHESTRATION_COMPLETED"] \in Lifecycle!Edges
        /\ [from |-> "RUNNING", to |-> "FAILED", code |-> "ORCHESTRATION_FAILED"] \in Lifecycle!Edges
    BY DEF Lifecycle!Edges
  <2>3. \A from, to, code : [from |-> from, to |-> to, code |-> code] \in Lifecycle!Edges
          /\ Did(from, to, code) => Lifecycle!Move(j)
    <3> TAKE from, to, code
    <3> DEFINE e == [from |-> from, to |-> to, code |-> code]
    <3>1. e.from = from /\ e.to = to /\ e.code = code
      OBVIOUS
    <3> HIDE DEF e, Did
    <3>2. e \in Lifecycle!Edges /\ Did(e.from, e.to, e.code) => Lifecycle!Move(j)
      BY <2>1
    <3>3. e \in Lifecycle!Edges /\ Did(from, to, code) => Lifecycle!Move(j)
      BY <3>1, <3>2
    <3> QED BY <3>3 DEF e
  <2>4. Nothing => Noted(j)
    BY DEF Noted
  <2> HIDE DEF Did, Nothing
  <2> QED BY <1>2, <2>2, <2>3, <2>4, Zenon
<1>4. \A k \in Jobs : k # j => Same(k)
  BY <1>0, <1>1, <1>2, ZenonT(30) DEF Same, Facts
<1>5. Younger
  BY <1>0, <1>2 DEF Younger, Facts
<1>6. PlanInv(j)' /\ ((pc[j] \in Working => status[j] = "RUNNING")
                       => (pc'[j] \in Working => status'[j] = "RUNNING"))
  <2>1. CASE Nothing
    BY <1>0, <1>1, <1>2, <2>1, ZenonT(30) DEF Facts, PlanInv
  <2>2. CASE Did("CREATED", "FAILED", "ORCHESTRATION_QUEUE_TIMEOUT") /\ pc'[j] = "ended"
    <3>1. status'[j] = "FAILED"
      BY <1>0, <2>2, Zenon DEF Facts
    <3> QED BY <1>1, <2>2, <3>1, ZenonT(30) DEF PlanInv
  <2>3. CASE Did("CREATED", "RUNNING", "ORCHESTRATION_STARTED") /\ pc'[j] \in {"context", "ended"}
    <3>1. status'[j] = "RUNNING"
      BY <1>0, <2>3, Zenon DEF Facts
    <3>2. pc'[j] = "context" => rows'[j] = {}
      BY <1>0, <1>1, <1>2, <2>3, Zenon DEF Facts, PlanInv
    <3> QED BY <1>1, <2>3, <3>1, <3>2, ZenonT(30) DEF PlanInv
  <2>4. CASE /\ Did("RUNNING", "COMPLETED", "ORCHESTRATION_COMPLETED")
             /\ pc[j] = "complete" /\ pc'[j] \in {"ended", "fail"}
    <3>1. status'[j] = "COMPLETED" /\ plan'[j] = attempt[j] /\ rows'[j] = {attempt[j]}
      BY <1>0, <1>1, <2>4, ZenonT(30) DEF Facts, PlanInv
    <3>2. attempt[j] # 0
      BY <1>0, <2>4 DEF Facts, TaskInv
    <3> QED BY <2>4, <3>1, <3>2, ZenonT(30) DEF PlanInv
  <2>5. CASE Did("RUNNING", "FAILED", "ORCHESTRATION_FAILED") /\ pc'[j] = "ended"
    <3>1. status'[j] = "FAILED"
      BY <1>0, <2>5, Zenon DEF Facts
    <3> QED BY <1>1, <2>5, <3>1, Zenon DEF PlanInv
  <2> QED BY <1>2, <2>1, <2>2, <2>3, <2>4, <2>5, ZenonT(30)
<1> HIDE DEF Did, Nothing
<1> QED BY <1>1, <1>3, <1>4, <1>5, <1>6 DEF TaskKind

LEMMA TaskKinds ==
  ASSUME Base, NEW j \in Jobs, PlanInv(j), TaskStep(j) \/ QueueTimeout(j)
  PROVE  TaskKind(j)
  BY QuietKind, NoteKind, MoveKind, ZenonT(30) DEF TaskStep

-----------------------------------------------------------------------------
(* What any step does to the jobs.                                         *)

\* A log and a status that go from s and st to t and nt together.
Tells(s, st, t, nt) ==
  \/ nt = st /\ (t = s \/ \E c \in Lifecycle!Notes : t = Append(s, c))
  \/ st = "NONE" /\ nt = "CREATED" /\ t = s
  \/ \E e \in Lifecycle!Edges : st = e.from /\ nt = e.to /\ t = Append(s, e.code)

LEMMA TellsStory ==
  ASSUME NEW s \in Seq(Lifecycle!Codes), NEW st, NEW t, NEW nt, Story(s, st), Tells(s, st, t, nt)
  PROVE  Story(t, nt) /\ (st \in Terminal => nt = st)
<1>1. CASE nt = st /\ (t = s \/ \E c \in Lifecycle!Notes : t = Append(s, c))
  BY <1>1, StoryNote, Zenon
<1>2. CASE st = "NONE" /\ nt = "CREATED" /\ t = s
  BY <1>2 DEF Story, Terminal, Lifecycle!Terminal
<1>3. CASE \E e \in Lifecycle!Edges : st = e.from /\ nt = e.to /\ t = Append(s, e.code)
  <2>1. PICK e \in Lifecycle!Edges : st = e.from /\ nt = e.to /\ t = Append(s, e.code)
    BY <1>3
  <2>2. e.code \in Lifecycle!Codes
    BY DEF Lifecycle!Codes
  <2>3. \/ e.from = "CREATED" /\ e.to = "RUNNING" /\ e.code = "ORCHESTRATION_STARTED"
        \/ e.from = "CREATED" /\ e.to = "FAILED" /\ e.code = "ORCHESTRATION_QUEUE_TIMEOUT"
        \/ e.from = "RUNNING" /\ e.to = "COMPLETED" /\ e.code = "ORCHESTRATION_COMPLETED"
        \/ /\ e.from = "RUNNING" /\ e.to = "FAILED"
           /\ e.code \in {"ORCHESTRATION_FAILED", "STALE_JOB_RECOVERED"}
    BY DEF Lifecycle!Edges
  <2>4. st \notin Terminal
    BY <2>1, <2>3, ZenonT(30) DEF Terminal, Lifecycle!Terminal
  <2>5. CASE st = "CREATED"
    <3>1. QuietOutside(s, {})
      BY <2>5 DEF Story
    <3> QED BY <2>1, <2>2, <2>3, <2>4, <2>5, <3>1, StoryFirst, ZenonT(30) DEF Story
  <2>6. CASE st = "RUNNING"
    <3>1. ReportsStart(s)
      BY <2>6 DEF Story
    <3>2. \A codes : e.code \in codes => ReportsEnd(t, codes)
      BY <2>1, <2>2, <3>1, StoryEnd, Zenon
    <3> QED BY <2>1, <2>3, <2>4, <2>6, <3>2, ZenonT(30) DEF Story
  <2> QED BY <2>1, <2>3, <2>5, <2>6
<1> QED BY <1>1, <1>2, <1>3 DEF Tells

\* A task runs in a process that serves.
LiveUp == \A j \in Jobs : pc[j] \in Live => up[owner[j]] = "up"

\* A process that recovers has every stale job on its list.
Swept ==
  \A p \in Procs : up[p] = "recovering" =>
    \A j \in Jobs : status[j] = "RUNNING" /\ stale[j] => j \in sweep[p]

Plans == \A j \in Jobs : PlanInv(j)

Told == \A k \in Jobs : Tells(log[k], status[k], log'[k], status'[k])

Kept == \A k \in Jobs : status[k] = "COMPLETED" =>
          plan'[k] = plan[k] /\ rows'[k] = rows[k] /\ files'[k] = files[k]

Parents == \A k \in Jobs : \/ parent'[k] = parent[k]
                           \/ parent'[k] = None
                           \/ parent'[k] \in Jobs /\ Refinable(parent'[k])

JobStep == Plans' /\ Told /\ Kept /\ Parents /\ LiveUp' /\ Swept'

LEMMA TaskJobStep ==
  ASSUME Base, Plans, LiveUp, Swept, NEW j \in Jobs, TaskStep(j) \/ QueueTimeout(j)
  PROVE  JobStep
<1>0. TaskKind(j) /\ PlanInv(j) /\ TaskInv(j)
  BY TaskKinds DEF Plans, Base, Tasks
<1>t. /\ status \in [Jobs -> Lifecycle!Statuses] /\ log \in [Jobs -> Seq(Lifecycle!Codes)]
      /\ pc \in [Jobs -> PCs]
  BY ZenonT(30) DEF Base, TypeOK, PCs
<1>1. Plans'
  BY <1>0 DEF TaskKind, Same, Plans, PlanInv
<1>2. Told
  <2> SUFFICES ASSUME NEW k \in Jobs PROVE Tells(log[k], status[k], log'[k], status'[k])
    BY Zenon DEF Told
  <2>1. CASE k # j
    BY <1>0, <2>1, Zenon DEF TaskKind, Same, Tells
  <2>2. CASE k = j /\ Noted(j)
    BY <1>t, <2>2, Zenon DEF Noted, Tells
  <2>3. CASE k = j /\ Lifecycle!Move(j)
    BY <1>t, <2>3, Zenon DEF Lifecycle!Move, Tells
  <2> QED BY <1>0, <2>1, <2>2, <2>3, ZenonT(30) DEF TaskKind
<1>3. Kept
  <2>1. status[j] = "COMPLETED" => pc[j] \notin Working
    BY <1>0, Zenon DEF PlanInv, Working, InSlot
  <2> QED BY <1>0, <2>1, Zenon DEF TaskKind, Same, Kept
<1>4. Parents
  BY <1>0, Zenon DEF TaskKind, Parents
<1>5. LiveUp'
  <2> SUFFICES ASSUME NEW k \in Jobs, pc'[k] \in Live PROVE up'[owner'[k]] = "up"
    BY Zenon DEF LiveUp
  <2>1. pc[k] \in Live
    BY <1>0, Zenon DEF TaskKind, Same
  <2> QED BY <1>0, <2>1, Zenon DEF TaskKind, LiveUp
<1>6. Swept'
  BY <1>0, ZenonT(30) DEF TaskKind, Younger, Swept
<1> QED BY <1>1, <1>2, <1>3, <1>4, <1>5, <1>6, ZenonT(30) DEF JobStep

LEMMA CreateJobStep ==
  ASSUME Base, Plans, LiveUp, Swept, NEW p \in Procs, NEW j \in Jobs, CreateJob(p, j)
  PROVE  JobStep /\ Lifecycle!Submit(j) /\ pc'[j] \in {"workspace", "ended"}
         /\ \A k \in Jobs : k # j => pc'[k] = pc[k] /\ status'[k] = status[k]
<1> USE DEF Live, InSlot, Early, Working
<1>t. /\ status \in [Jobs -> Lifecycle!Statuses] /\ pc \in [Jobs -> PCs]
      /\ owner \in [Jobs -> Procs \cup {None}] /\ parent \in [Jobs -> Jobs \cup {None}]
  BY ZenonT(30) DEF Base, TypeOK, PCs
<1>1. /\ UNCHANGED <<stale, plan, rows, log, files, up, sweep, attempt>> /\ up[p] = "up"
      /\ status[j] = "NONE" /\ status' = [status EXCEPT ![j] = "CREATED"]
      /\ owner' = [owner EXCEPT ![j] = p] /\ pc[j] = "none"
      /\ pc' = [pc EXCEPT ![j] = "workspace"] \/ pc' = [pc EXCEPT ![j] = "ended"]
  BY DEF CreateJob, Goto, procVars, Base, Tasks, TaskInv
<1>2. /\ pc'[j] \in {"workspace", "ended"} /\ status'[j] = "CREATED" /\ owner'[j] = p
      /\ \A k \in Jobs : k # j => pc'[k] = pc[k] /\ status'[k] = status[k] /\ owner'[k] = owner[k]
  BY <1>t, <1>1
<1>3. Plans'
  <2> SUFFICES ASSUME NEW k \in Jobs PROVE PlanInv(k)'
    BY DEF Plans
  <2>1. PlanInv(k)
    BY Zenon DEF Plans
  <2>2. CASE k = j
    BY <1>1, <1>2, <2>1, <2>2, ZenonT(30) DEF PlanInv
  <2>3. CASE k # j
    BY <1>1, <1>2, <2>1, <2>3, ZenonT(30) DEF PlanInv
  <2> QED BY <2>2, <2>3
<1>4. Told /\ Kept /\ LiveUp'
  BY <1>1, <1>2 DEF Told, Tells, Kept, LiveUp
<1>5. Swept'
  <2>1. \A k \in Jobs : status'[k] = "RUNNING" => status[k] = "RUNNING"
    BY <1>2
  <2> QED BY <1>1, <2>1, ZenonT(30) DEF Swept
<1>6. Parents
  <2>1. PICK q \in Jobs \cup {None} : (q # None => Refinable(q)) /\ parent' = [parent EXCEPT ![j] = q]
    BY ZenonT(30) DEF CreateJob
  <2>2. parent'[j] = q /\ \A k \in Jobs : k # j => parent'[k] = parent[k]
    BY <1>t, <2>1
  <2> QED BY <2>1, <2>2, Zenon DEF Parents
<1>7. Lifecycle!Submit(j)
  BY <1>1 DEF Lifecycle!Submit
<1> QED BY <1>2, <1>3, <1>4, <1>5, <1>6, <1>7 DEF JobStep

LEMMA AcquireSlotStep ==
  ASSUME Base, Plans, LiveUp, Swept, NEW p \in Procs, AcquireSlot(p)
  PROVE  /\ JobStep /\ UNCHANGED <<status, log>>
         /\ \A k \in Jobs : pc'[k] \in Working => pc[k] \in Working
<1> USE DEF Live, InSlot, Early, Working
<1> DEFINE r == Head(queue[p])
<1>1. /\ pc \in [Jobs -> PCs] /\ queue[p] \in Seq(Jobs) /\ queue[p] # <<>>
      /\ pc' = [pc EXCEPT ![r] = "start"]
      /\ UNCHANGED <<status, parent, stale, plan, rows, log, files, up, sweep, owner, attempt>>
  BY Zenon DEF Base, TypeOK, PCs, AcquireSlot, dbVars, procVars
<1>2. r \in Jobs /\ r = queue[p][1] /\ 1 \in DOMAIN queue[p]
  BY <1>1, HeadTailProperties, LenProperties, ElementOfSeq
<1>3. pc[r] = "queued"
  BY <1>2 DEF Base, Waiters
<1> HIDE DEF r
<1>4. pc'[r] = "start" /\ \A k \in Jobs : k # r => pc'[k] = pc[k]
  BY <1>1, <1>2, Zenon
<1>5. \A k \in Jobs : /\ pc'[k] = "start" \/ pc'[k] = pc[k]
                      /\ pc'[k] \in Live => pc[k] \in Live
                      /\ pc'[k] \in Working => pc[k] \in Working
                      /\ pc'[k] # pc[k] => pc[k] = "queued"
  BY <1>3, <1>4
<1>6. Plans'
  <2> SUFFICES ASSUME NEW k \in Jobs PROVE PlanInv(k)'
    BY DEF Plans
  <2>1. PlanInv(k)
    BY Zenon DEF Plans
  <2> QED BY <1>1, <1>5, <2>1 DEF PlanInv
<1>7. Told /\ Kept /\ Parents /\ LiveUp' /\ Swept'
  BY <1>1, <1>5, ZenonT(30) DEF Told, Tells, Kept, Parents, LiveUp, Swept
<1> QED BY <1>1, <1>5, <1>6, <1>7 DEF JobStep

LEMMA CrashStep ==
  ASSUME Base, Plans, LiveUp, Swept, NEW p \in Procs, Crash(p)
  PROVE  /\ JobStep /\ UNCHANGED <<status, log>>
         /\ \A k \in Jobs : pc'[k] \in Working => pc[k] \in Working
<1> USE DEF Live, InSlot, Early, Working
<1>1. /\ up \in [Procs -> {"down", "recovering", "up", "stopped"}]
      /\ sweep \in [Procs -> SUBSET Jobs]
      /\ up' = [up EXCEPT ![p] = "down"] /\ sweep' = [sweep EXCEPT ![p] = {}]
      /\ UNCHANGED <<status, parent, stale, plan, rows, log, files, owner, attempt>>
  BY Zenon DEF Base, TypeOK, Crash, dbVars
<1>2. \A k \in Jobs : \/ pc'[k] = "ended" /\ owner[k] = p
                      \/ pc'[k] = pc[k] /\ (pc[k] \in Live => owner[k] # p)
  BY Zenon DEF Crash, LiveTasks
<1>3. Plans'
  <2> SUFFICES ASSUME NEW k \in Jobs PROVE PlanInv(k)'
    BY DEF Plans
  <2>1. PlanInv(k)
    BY DEF Plans
  <2> QED BY <1>1, <1>2, <2>1, Zenon DEF PlanInv
<1>4. Told /\ Kept /\ Parents
  BY <1>1, Zenon DEF Told, Tells, Kept, Parents
<1>5. LiveUp'
  <2> SUFFICES ASSUME NEW k \in Jobs, pc'[k] \in Live PROVE up'[owner'[k]] = "up"
    BY Zenon DEF LiveUp
  <2>1. pc'[k] = pc[k] /\ owner[k] # p /\ up[owner[k]] = "up" /\ pc[k] # "none"
    BY <1>2, Zenon DEF LiveUp
  <2>2. owner[k] \in Procs
    BY <2>1, Zenon DEF Base, Tasks, TaskInv
  <2> QED BY <1>1, <2>1, <2>2, Zenon
<1>6. Swept'
  BY <1>1, ZenonT(30) DEF Swept
<1> QED BY <1>1, <1>2, <1>3, <1>4, <1>5, <1>6 DEF JobStep

\* Steps of a process that touch neither jobs nor tasks, and time.
LEMMA ProcessStep ==
  ASSUME Base, Plans, LiveUp, Swept,
         \/ \E p \in Procs : Startup(p) \/ Serve(p) \/ Shutdown(p)
         \/ \E j \in Jobs : Age(j)
  PROVE  JobStep /\ UNCHANGED <<status, log, pc>>
<1>1. /\ UNCHANGED <<status, parent, plan, rows, log, files, pc, owner, attempt>>
      /\ up \in [Procs -> {"down", "recovering", "up", "stopped"}]
      /\ sweep \in [Procs -> SUBSET Jobs]
      /\ \A k \in Jobs : pc[k] \in Live => owner[k] \in Procs
  BY DEF Startup, Serve, Shutdown, Age, dbVars, Base, TypeOK, Tasks, TaskInv, Live, InSlot
<1>2. Plans' /\ Told /\ Kept /\ Parents
  BY <1>1 DEF Plans, PlanInv, Told, Tells, Kept, Parents
<1>3. ASSUME NEW p \in Procs, Startup(p) PROVE LiveUp' /\ Swept'
  <2>1. /\ up[p] # "up" /\ up' = [up EXCEPT ![p] = "recovering"] /\ stale' = stale
        /\ sweep' = [sweep EXCEPT ![p] = {j \in Jobs : status[j] = "RUNNING" /\ stale[j]}]
    BY <1>3, ZenonT(30) DEF Startup, dbVars
  <2>2. LiveUp'
    BY <1>1, <2>1, Zenon DEF LiveUp
  <2>3. Swept'
    BY <1>1, <2>1, Zenon DEF Swept
  <2> QED BY <2>2, <2>3, Zenon
<1>4. ASSUME NEW p \in Procs, Serve(p) PROVE LiveUp' /\ Swept'
  <2>1. up' = [up EXCEPT ![p] = "up"] /\ UNCHANGED <<stale, sweep>>
    BY <1>4, ZenonT(30) DEF Serve, dbVars
  <2> QED BY <1>1, <2>1, Zenon DEF LiveUp, Swept
<1>5. ASSUME NEW p \in Procs, Shutdown(p) PROVE LiveUp' /\ Swept'
  <2>1. /\ up' = [up EXCEPT ![p] = "stopped"] /\ UNCHANGED <<stale, sweep>>
        /\ \A k \in Jobs : pc[k] \in Live => owner[k] # p
    BY <1>5, Zenon DEF Shutdown, LiveTasks, dbVars
  <2> QED BY <1>1, <2>1, ZenonT(30) DEF LiveUp, Swept
<1>6. ASSUME NEW j \in Jobs, Age(j) PROVE LiveUp' /\ Swept'
  BY <1>1, <1>6, Zenon DEF Age, procVars, LiveUp, Swept
<1> QED BY <1>1, <1>2, <1>3, <1>4, <1>5, <1>6, ZenonT(30) DEF JobStep

LEMMA RecoverOneStep ==
  ASSUME Base, Plans, LiveUp, Swept, NEW p \in Procs, NEW j \in Jobs, RecoverOne(p, j)
  PROVE  /\ JobStep /\ pc' = pc /\ up[p] = "recovering"
         /\ \A k \in Jobs : k # j => status'[k] = status[k]
         /\ UNCHANGED <<status, log>> \/ Lifecycle!Move(j)
<1>1. /\ UNCHANGED <<parent, plan, rows, files, pc, owner, attempt>> /\ up[p] = "recovering"
      /\ up \in [Procs -> {"down", "recovering", "up", "stopped"}]
      /\ sweep \in [Procs -> SUBSET Jobs] /\ stale \in [Jobs -> BOOLEAN]
      /\ status \in [Jobs -> Lifecycle!Statuses] /\ log \in [Jobs -> Seq(Lifecycle!Codes)]
      /\ \A k \in Jobs : pc[k] \in Live => owner[k] \in Procs
  BY DEF RecoverOne, Base, TypeOK, Tasks, TaskInv, Live, InSlot
<1>2. \/ UNCHANGED <<status, stale, log>>
      \/ /\ status[j] = "RUNNING"
         /\ status' = [status EXCEPT ![j] = "FAILED"]
         /\ stale' = [stale EXCEPT ![j] = FALSE]
         /\ log' = [log EXCEPT ![j] = Append(@, "STALE_JOB_RECOVERED")]
  BY RecoverOneEffect, Zenon
<1>3. /\ \A k \in Jobs : k # j => status'[k] = status[k] /\ stale'[k] = stale[k] /\ log'[k] = log[k]
      /\ \/ status'[j] = status[j] /\ stale'[j] = stale[j] /\ log'[j] = log[j]
         \/ /\ status[j] = "RUNNING" /\ status'[j] = "FAILED"
            /\ log'[j] = Append(log[j], "STALE_JOB_RECOVERED")
  BY <1>1, <1>2, ZenonT(30)
<1>4. Plans'
  BY <1>1, <1>3 DEF Plans, PlanInv
<1> DEFINE e == [from |-> "RUNNING", to |-> "FAILED", code |-> "STALE_JOB_RECOVERED"]
<1>5. /\ e \in Lifecycle!Edges /\ e.from = "RUNNING" /\ e.to = "FAILED"
      /\ e.code = "STALE_JOB_RECOVERED"
  BY Zenon DEF Lifecycle!Edges
<1> HIDE DEF e
<1>6. Told
  BY <1>3, <1>5, ZenonT(30) DEF Told, Tells
<1>7. UNCHANGED <<status, log>> \/ Lifecycle!Move(j)
  BY <1>2, <1>5, ZenonT(30) DEF Lifecycle!Move
<1>8. Kept /\ Parents
  BY <1>1, Zenon DEF Kept, Parents
<1>9. LiveUp'
  <2>1. up' = up \/ up' = [up EXCEPT ![p] = "down"]
    BY Zenon DEF RecoverOne
  <2> QED BY <1>1, <2>1, Zenon DEF LiveUp
<1>10. Swept'
  <2>1. \A k \in Jobs : status'[k] = "RUNNING" /\ stale'[k] => status[k] = "RUNNING" /\ stale[k]
    BY <1>3, Zenon
  <2>2. CASE up' = up /\ sweep' = [sweep EXCEPT ![p] = @ \ {j}] /\ ~ (status'[j] = "RUNNING" /\ stale'[j])
    BY <1>1, <2>1, <2>2, ZenonT(30) DEF Swept
  <2>3. CASE up' = [up EXCEPT ![p] = "down"] /\ sweep' = [sweep EXCEPT ![p] = {}]
    BY <1>1, <2>1, <2>3, ZenonT(30) DEF Swept
  <2>4. \/ up' = up /\ sweep' = [sweep EXCEPT ![p] = @ \ {j}] /\ ~ (status'[j] = "RUNNING" /\ stale'[j])
        \/ up' = [up EXCEPT ![p] = "down"] /\ sweep' = [sweep EXCEPT ![p] = {}]
    BY <1>1 DEF RecoverOne
  <2> QED BY <2>2, <2>3, <2>4, Zenon
<1> QED BY <1>1, <1>3, <1>4, <1>6, <1>7, <1>8, <1>9, <1>10, ZenonT(30) DEF JobStep

-----------------------------------------------------------------------------
(* The theorems about jobs.                                                *)

\* The inductive invariant of the jobs.
JobsInv == Base /\ Plans /\ LogTellsStatus /\ ParentStaysRefinable /\ LiveUp /\ Swept

LEMMA JobsInit == Init => JobsInv
<1> SUFFICES ASSUME Init PROVE JobsInv
  OBVIOUS
<1>1. Base
  BY BaseInit, Zenon
<1>2. \A j \in Jobs : /\ status[j] = "NONE" /\ rows[j] = {} /\ pc[j] = "none" /\ log[j] = <<>>
                      /\ parent[j] = None
  BY DEF Init
<1>3. Plans
  BY <1>2, Zenon DEF Plans, PlanInv, Working, InSlot
<1>4. LogTellsStatus
  <2>1. QuietOutside(<<>>, {})
    BY DEF QuietOutside
  <2> QED BY <1>2, <2>1 DEF LogTellsStatus
<1>5. ParentStaysRefinable /\ LiveUp
  BY <1>2, Zenon DEF ParentStaysRefinable, LiveUp, Live, InSlot
<1>6. Swept
  BY Zenon DEF Init, Swept
<1> QED BY <1>1, <1>3, <1>4, <1>5, <1>6, ZenonT(30) DEF JobsInv

\* Every step keeps status, log, plan and parent in step with one another.
LEMMA NextJobStep ==
  ASSUME Base, Plans, LiveUp, Swept, Next
  PROVE  JobStep
  BY TaskJobStep, CreateJobStep, AcquireSlotStep, CrashStep, ProcessStep, RecoverOneStep, ZenonT(30) DEF Next

LEMMA StutterJobStep ==
  ASSUME Base, Plans, LiveUp, Swept, UNCHANGED vars
  PROVE  JobStep
<1>1. UNCHANGED <<status, parent, stale, plan, rows, log, files, up, sweep, pc, owner, attempt>>
  BY Zenon DEF vars, dbVars, procVars
<1>2. Plans' /\ LiveUp' /\ Swept'
  BY <1>1, Zenon DEF Plans, PlanInv, LiveUp, Swept
<1>3. Told /\ Kept /\ Parents
  BY <1>1 DEF Told, Tells, Kept, Parents
<1> QED BY <1>2, <1>3, Zenon DEF JobStep

\* What a step does to a job that has ended.
FinalStep ==
  \A j \in Jobs :
    /\ status[j] \in Terminal => status'[j] = status[j]
    /\ status[j] = "COMPLETED" =>
         plan'[j] = plan[j] /\ rows'[j] = rows[j] /\ files'[j] = files[j]

LEMMA JobsStep ==
  ASSUME JobsInv, [Next]_vars
  PROVE  JobsInv' /\ FinalStep
<1>1. Base' /\ JobStep
  BY BaseStep, NextJobStep, StutterJobStep, Zenon DEF JobsInv
<1>2. \A k \in Jobs : log[k] \in Seq(Lifecycle!Codes) /\ Story(log[k], status[k])
  BY Zenon DEF JobsInv, Base, TypeOK, LogTellsStatus, Story
<1>3. \A k \in Jobs : /\ Story(log'[k], status'[k])
                      /\ status[k] \in Terminal => status'[k] = status[k]
  BY <1>1, <1>2, TellsStory, Zenon DEF JobStep, Told
<1>4. LogTellsStatus'
  BY <1>3, Zenon DEF LogTellsStatus, Story
<1>5. FinalStep
  BY <1>1, <1>3, Zenon DEF FinalStep, JobStep, Kept
<1>6. ParentStaysRefinable'
  <2> SUFFICES ASSUME NEW k \in Jobs, parent'[k] # None
               PROVE  status'[parent'[k]] = "COMPLETED" /\ files'[parent'[k]] = "fit"
    BY Zenon DEF ParentStaysRefinable
  <2>1. parent'[k] \in Jobs
    BY <1>1, Zenon DEF Base, TypeOK
  <2>2. status[parent'[k]] = "COMPLETED" /\ files[parent'[k]] = "fit"
    BY <1>1 DEF JobStep, Parents, JobsInv, ParentStaysRefinable, Refinable
  <2> QED BY <1>5, <2>1, <2>2, ZenonT(30) DEF FinalStep, Terminal, Lifecycle!Terminal
<1> QED BY <1>1, <1>4, <1>5, <1>6, Zenon DEF JobsInv, JobStep

\* The invariant holds in every reachable state.
THEOREM JobsInvariant == Spec => []JobsInv
  BY JobsInit, JobsStep, PTL DEF Spec

\* Status and log tell the same story at every commit, however many processes
\* write and whatever commits go unanswered.
THEOREM LogIsTrue == Spec => []LogTellsStatus
<1>1. JobsInv => LogTellsStatus
  BY Zenon DEF JobsInv
<1> QED BY <1>1, JobsInvariant, PTL

\* The artifacts rows of a COMPLETED job are those of the attempt whose plan
\* is saved.
THEOREM CompletedAsPlanned == Spec => []CompletedByItsPlan
<1>1. JobsInv => CompletedByItsPlan
  BY ZenonT(30) DEF JobsInv, Plans, PlanInv, CompletedByItsPlan
<1> QED BY <1>1, JobsInvariant, PTL

\* What create_refinement_job checked of the parent holds ever after.
THEOREM ParentsStay == Spec => []ParentStaysRefinable
<1>1. JobsInv => ParentStaysRefinable
  BY DEF JobsInv
<1> QED BY <1>1, JobsInvariant, PTL

\* No step takes a job out of a terminal status, or touches the plan, rows and
\* files of a COMPLETED one.
THEOREM EndIsFinal == Spec => TerminalIsFinal
<1>1. JobsInv /\ [Next]_vars =>
        [\A j \in Jobs :
           /\ status[j] \in Terminal => status'[j] = status[j]
           /\ status[j] = "COMPLETED" =>
                plan'[j] = plan[j] /\ rows'[j] = rows[j] /\ files'[j] = files[j]]_vars
  BY JobsStep, ZenonT(30) DEF FinalStep
<1> QED BY <1>1, JobsInvariant, PTL DEF Spec, TerminalIsFinal

\* A process begins to serve by Serve alone.
LEMMA ServingBegins ==
  ASSUME JobsInv, Next, NEW p \in Procs, up[p] # "up", up'[p] = "up"
  PROVE  Serve(p)
<1>1. up \in [Procs -> {"down", "recovering", "up", "stopped"}]
  BY Zenon DEF JobsInv, Base, TypeOK
<1>2. ASSUME NEW j \in Jobs, TaskStep(j) \/ QueueTimeout(j) PROVE FALSE
  BY <1>2, TaskKinds, ZenonT(30) DEF JobsInv, Plans, TaskKind
<1>3. ASSUME NEW j \in Jobs, Age(j) PROVE FALSE
  BY <1>3, Zenon DEF Age, procVars
<1>4. ASSUME NEW o \in Procs, Startup(o) \/ Crash(o) \/ Shutdown(o) \/ AcquireSlot(o) PROVE FALSE
  BY <1>1, <1>4, Zenon DEF Startup, Crash, Shutdown, AcquireSlot, procVars
<1>5. ASSUME NEW o \in Procs, NEW j \in Jobs, CreateJob(o, j) \/ RecoverOne(o, j) PROVE FALSE
  BY <1>1, <1>5, Zenon DEF CreateJob, RecoverOne, procVars
<1>6. ASSUME NEW o \in Procs, Serve(o) PROVE Serve(p)
  BY <1>1, <1>6, ZenonT(30) DEF Serve
<1> QED BY <1>2, <1>3, <1>4, <1>5, <1>6 DEF Next

\* A process that begins to serve leaves no job RUNNING that is 15 minutes old.
THEOREM RecoveryComesFirst == Spec => RecoveryBeforeService
<1>1. ASSUME JobsInv, [Next]_vars
      PROVE  [\A p \in Procs : up[p] # "up" /\ up'[p] = "up" =>
                \A j \in Jobs : ~ (status[j] = "RUNNING" /\ stale[j])]_vars
  <2> SUFFICES ASSUME Next, NEW p \in Procs, up[p] # "up", up'[p] = "up", NEW j \in Jobs
               PROVE  ~ (status[j] = "RUNNING" /\ stale[j])
    BY <1>1, Zenon
  <2>1. Serve(p)
    BY <1>1, ServingBegins, ZenonT(30)
  <2> QED BY <1>1, <2>1 DEF Serve, JobsInv, Swept
<1> QED BY <1>1, JobsInvariant, PTL DEF Spec, RecoveryBeforeService

-----------------------------------------------------------------------------
(* One process, as the deployment has it.                                  *)

\* What a step of the one process does to status and log is a step of
\* JobLifecycle, and a task keeps its job while it works on it.
LEMMA OneProcessStep ==
  ASSUME \A p, q \in Procs : p = q, JobsInv, WorkerHasItsJob, [Next]_vars
  PROVE  WorkerHasItsJob' /\ [Lifecycle!Next]_(Lifecycle!vars)
<1> USE DEF Lifecycle!Next, Lifecycle!vars
<1>0. Base /\ Plans /\ LiveUp /\ Swept
  BY Zenon DEF JobsInv
<1>1. ASSUME NEW j \in Jobs, TaskStep(j) \/ QueueTimeout(j)
      PROVE  WorkerHasItsJob' /\ [Lifecycle!Next]_(Lifecycle!vars)
  <2>1. TaskKind(j) /\ TaskInv(j)
    BY <1>0, <1>1, TaskKinds, ZenonT(30) DEF Plans, Base, Tasks
  <2>2. WorkerHasItsJob'
    BY <2>1, Zenon DEF TaskKind, Same, WorkerHasItsJob
  <2>3. pc[j] \in Working \cup {"firstEvent"} => status[j] \in {"CREATED", "RUNNING"}
    BY <2>1, Zenon DEF TaskInv, Early, WorkerHasItsJob
  <2>4. Noted(j) => UNCHANGED <<status, log>> \/ Lifecycle!Note(j)
    BY <2>3, Zenon DEF Noted, Lifecycle!Note
  <2> QED BY <2>1, <2>2, <2>4, ZenonT(30) DEF TaskKind
<1>2. ASSUME NEW p \in Procs, NEW j \in Jobs, CreateJob(p, j)
      PROVE  WorkerHasItsJob' /\ [Lifecycle!Next]_(Lifecycle!vars)
  <2>1. /\ Lifecycle!Submit(j) /\ pc'[j] \in {"workspace", "ended"}
        /\ \A k \in Jobs : k # j => pc'[k] = pc[k] /\ status'[k] = status[k]
    BY <1>0, <1>2, CreateJobStep, Zenon
  <2>2. WorkerHasItsJob'
    BY <2>1, Zenon DEF WorkerHasItsJob, Working, InSlot
  <2> QED BY <2>1, <2>2, Zenon
<1>3. ASSUME NEW p \in Procs, AcquireSlot(p) \/ Crash(p)
      PROVE  WorkerHasItsJob' /\ [Lifecycle!Next]_(Lifecycle!vars)
  <2>1. /\ UNCHANGED <<status, log>>
        /\ \A k \in Jobs : pc'[k] \in Working => pc[k] \in Working
    BY <1>0, <1>3, AcquireSlotStep, CrashStep, ZenonT(30)
  <2> QED BY <2>1, Zenon DEF WorkerHasItsJob
<1>4. ASSUME \/ \E p \in Procs : Startup(p) \/ Serve(p) \/ Shutdown(p)
             \/ \E j \in Jobs : Age(j)
      PROVE  WorkerHasItsJob' /\ [Lifecycle!Next]_(Lifecycle!vars)
  <2>1. UNCHANGED <<status, log, pc>>
    BY <1>0, <1>4, ProcessStep, Zenon
  <2> QED BY <2>1, Zenon DEF WorkerHasItsJob
<1>5. ASSUME NEW p \in Procs, NEW j \in Jobs, RecoverOne(p, j)
      PROVE  WorkerHasItsJob' /\ [Lifecycle!Next]_(Lifecycle!vars)
  <2>1. /\ pc' = pc /\ up[p] = "recovering"
        /\ \A k \in Jobs : k # j => status'[k] = status[k]
        /\ UNCHANGED <<status, log>> \/ Lifecycle!Move(j)
    BY <1>0, <1>5, RecoverOneStep, Zenon
  <2>2. pc[j] \notin Live
    <3>1. pc[j] \in Live => owner[j] \in Procs /\ up[owner[j]] = "up"
      BY <1>0, Zenon DEF Base, Tasks, TaskInv, LiveUp, Live, InSlot
    <3> QED BY <2>1, <3>1, Zenon
  <2>3. WorkerHasItsJob'
    BY <2>1, <2>2, Zenon DEF WorkerHasItsJob, Working, Live
  <2> QED BY <2>1, <2>3, Zenon
<1>6. ASSUME UNCHANGED vars
      PROVE  WorkerHasItsJob' /\ [Lifecycle!Next]_(Lifecycle!vars)
  BY <1>6, Zenon DEF vars, dbVars, WorkerHasItsJob
<1> QED BY <1>1, <1>2, <1>3, <1>4, <1>5, <1>6, ZenonT(30) DEF Next

\* With one process, recovery fails no job that a task still works on.
THEOREM WorkersKeepTheirJobs ==
  ASSUME \A p, q \in Procs : p = q
  PROVE  Spec => []WorkerHasItsJob
<1>1. Init => WorkerHasItsJob
  BY DEF Init, WorkerHasItsJob, Working, InSlot
<1>2. JobsInv /\ WorkerHasItsJob /\ [Next]_vars => WorkerHasItsJob'
  BY OneProcessStep
<1> QED BY <1>1, <1>2, JobsInvariant, PTL DEF Spec

\* With one process, what a reader of the tables sees is JobLifecycle.
THEOREM LifecycleKept ==
  ASSUME \A p, q \in Procs : p = q
  PROVE  Spec => ImplementsLifecycle
<1>1. Init => Lifecycle!Init
  BY DEF Init, Lifecycle!Init
<1>2. JobsInv /\ WorkerHasItsJob /\ [Next]_vars => [Lifecycle!Next]_(Lifecycle!vars)
  BY OneProcessStep
<1> QED
  BY <1>1, <1>2, JobsInvariant, WorkersKeepTheirJobs, PTL DEF Spec, ImplementsLifecycle, Lifecycle!Spec
=============================================================================
