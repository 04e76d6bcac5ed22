------------------------- MODULE OrchestratorProofs -------------------------
(***************************************************************************)
(* Theorems about Orchestrator, for any number of jobs, processes, slots,  *)
(* attempts, faults and crashes: its tasks, queues and slots.              *)
(***************************************************************************)
EXTENDS Orchestrator, FiniteSetTheorems, SequenceTheorems, TLAPS

-----------------------------------------------------------------------------
(* The inductive invariant.                                                *)

\* Where a task is before it sets its job RUNNING.
Early == {"workspace", "firstEvent", "scheduled", "queued", "queueTimeout", "start"}

PCs == Live \cup {"none", "ended"}

\* What the program counter of a task says about its job.
TaskInv(j) ==
  /\ pc[j] = "none" <=> status[j] = "NONE"
  /\ pc[j] # "none" => owner[j] \in Procs
  /\ pc[j] \in Early => status[j] = "CREATED"
  /\ pc[j] \in Early \cup {"none", "context"} => attempt[j] = 0
  /\ pc[j] \in {"attempt", "sleep"} => attempt[j] < MaxAttempts
  /\ pc[j] \in {"generate", "execute", "rows", "save", "finish", "complete"} =>
       attempt[j] > 0

Tasks == \A j \in Jobs : TaskInv(j)

\* The queue of a gate holds the tasks that wait for it, each once.
Waiters ==
  \A p \in Procs :
    /\ \A i \in DOMAIN queue[p] : pc[queue[p][i]] = "queued" /\ owner[queue[p][i]] = p
    /\ \A i, k \in DOMAIN queue[p] : queue[p][i] = queue[p][k] => i = k

Base == TypeOK /\ Tasks /\ Waiters /\ SlotsAddUp

-----------------------------------------------------------------------------
(* The gate.                                                               *)

\* A step of a task that does not enter the gate keeps the count: Goto gives
\* the slot back exactly when the task leaves it.
LEMMA GotoKeepsSlots ==
  ASSUME Base, NEW j \in Jobs, NEW to \in PCs, pc[j] # "none", Goto(j, to),
         to \in InSlot => pc[j] \in InSlot, UNCHANGED owner
  PROVE  /\ pc' \in [Jobs -> PCs]
         /\ permits' \in [Procs -> 0 .. MaxConcurrentJobs]
         /\ SlotsAddUp'
<1> DEFINE o == owner[j]
<1>1. o \in Procs /\ pc \in [Jobs -> PCs] /\ permits \in [Procs -> 0 .. MaxConcurrentJobs]
  BY DEF Base, Tasks, TaskInv, TypeOK, PCs
<1>2. pc' \in [Jobs -> PCs] /\ pc' = [pc EXCEPT ![j] = to]
  BY <1>1 DEF Goto
<1>3. \A p \in Procs : IsFiniteSet(SlotHolders(p)) /\ Cardinality(SlotHolders(p)) \in Nat
  BY FS_Subset, FS_CardinalityType, ConstantsAssumption DEF SlotHolders
<1>4. permits' \in [Procs -> Nat] /\ SlotsAddUp'
  <2>1. CASE pc[j] \in InSlot /\ to \notin InSlot
    <3>1. permits' = [permits EXCEPT ![o] = @ + 1]
      BY <2>1 DEF Goto
    <3>2. SlotHolders(o)' = SlotHolders(o) \ {j} /\ j \in SlotHolders(o)
      BY <1>1, <1>2, <2>1 DEF SlotHolders
    <3>3. Cardinality(SlotHolders(o)') = Cardinality(SlotHolders(o)) - 1
      <4>1. IsFiniteSet(SlotHolders(o))
        BY <1>1, <1>3
      <4>2. Cardinality(SlotHolders(o) \ {j}) = Cardinality(SlotHolders(o)) - 1
        BY <3>2, <4>1, FS_RemoveElement, Zenon
      <4> QED
        BY <3>2, <4>2
    <3>4. \A p \in Procs : p # o => SlotHolders(p)' = SlotHolders(p)
      BY <1>1, <1>2 DEF SlotHolders
    <3>5. \A p \in Procs : permits[p] + Cardinality(SlotHolders(p)) = MaxConcurrentJobs
      BY DEF Base, SlotsAddUp
    <3>6. permits'[o] + Cardinality(SlotHolders(o)') = MaxConcurrentJobs
      BY <1>1, <1>3, <3>1, <3>3, <3>5
    <3>7. \A p \in Procs : p # o => permits'[p] + Cardinality(SlotHolders(p)') = MaxConcurrentJobs
      BY <1>1, <3>1, <3>4, <3>5
    <3> QED
      BY <1>1, <3>1, <3>6, <3>7 DEF SlotsAddUp
  <2>2. CASE ~ (pc[j] \in InSlot /\ to \notin InSlot)
    <3>1. permits' = permits
      BY <2>2 DEF Goto
    <3>2. \A p \in Procs : SlotHolders(p)' = SlotHolders(p)
      BY <1>1, <1>2, <2>2 DEF SlotHolders
    <3> QED
      BY <1>1, <3>1, <3>2 DEF SlotsAddUp, Base
  <2> QED
    BY <2>1, <2>2
<1>5. permits' \in [Procs -> 0 .. MaxConcurrentJobs]
  <2> SUFFICES ASSUME NEW p \in Procs PROVE permits'[p] <= MaxConcurrentJobs
    BY <1>4
  <2>1. Cardinality(SlotHolders(p)') \in Nat
    BY FS_Subset, FS_CardinalityType, ConstantsAssumption DEF SlotHolders
  <2> QED
    BY <2>1, <1>4, ConstantsAssumption DEF SlotsAddUp
<1> QED
  BY <1>2, <1>4, <1>5

\* A step of the task of j outside the queue: it touches the rows of j only.
LEMMA TaskStepKeepsBase ==
  ASSUME Base, NEW j \in Jobs, NEW to \in PCs, pc[j] # "none", Goto(j, to),
         to \in InSlot => pc[j] \in InSlot,
         pc[j] # "queued", to # "queued",
         UNCHANGED <<owner, queue>>,
         \A k \in Jobs : k # j => status'[k] = status[k] /\ attempt'[k] = attempt[k],
         TaskInv(j)'
  PROVE  /\ pc' \in [Jobs -> PCs]
         /\ permits' \in [Procs -> 0 .. MaxConcurrentJobs]
         /\ SlotsAddUp' /\ Tasks' /\ Waiters'
<1>1. /\ pc' \in [Jobs -> PCs]
      /\ permits' \in [Procs -> 0 .. MaxConcurrentJobs]
      /\ SlotsAddUp'
  BY GotoKeepsSlots
<1>2. pc \in [Jobs -> PCs] /\ pc' = [pc EXCEPT ![j] = to] /\ queue \in [Procs -> Seq(Jobs)]
  BY DEF Base, TypeOK, PCs, Goto
<1>3. Tasks'
  <2> SUFFICES ASSUME NEW k \in Jobs, k # j PROVE TaskInv(k)'
    BY DEF Tasks
  <2> QED
    BY <1>2 DEF Base, Tasks, TaskInv
<1>4. Waiters'
  <2>1. Waiters
    BY DEF Base
  <2> SUFFICES ASSUME NEW p \in Procs, NEW i \in DOMAIN queue[p]
               PROVE pc'[queue[p][i]] = "queued"
    BY <2>1 DEF Waiters
  <2> QED
    BY <1>2, <2>1 DEF Waiters
<1> QED
  BY <1>1, <1>3, <1>4

-----------------------------------------------------------------------------
(* What a step of a task comes to.                                         *)

\* The part of TypeOK that is about the database and the workspace.
DataOK ==
  /\ status \in [Jobs -> Lifecycle!Statuses]
  /\ parent \in [Jobs -> Jobs \cup {None}]
  /\ stale \in [Jobs -> BOOLEAN]
  /\ plan \in [Jobs -> 0 .. MaxAttempts]
  /\ rows \in [Jobs -> SUBSET (1 .. MaxAttempts)]
  /\ log \in [Jobs -> Seq(Lifecycle!Codes)]
  /\ files \in [Jobs -> {"absent", "fit", "over"}]
  /\ attempt \in [Jobs -> 0 .. MaxAttempts]
  /\ faults \in 0 .. MaxFaults

\* A step of the task of j that neither enters nor leaves the queue.
PlainStep(j) ==
  /\ pc[j] \notin {"none", "queued"}
  /\ pc'[j] \in PCs \ {"queued"}
  /\ Goto(j, pc'[j])
  /\ pc'[j] \in InSlot => pc[j] \in InSlot
  /\ UNCHANGED <<owner, queue, up, sweep, crashes>>
  /\ \A k \in Jobs : k # j => status'[k] = status[k] /\ attempt'[k] = attempt[k]
  /\ TaskInv(j)'
  /\ DataOK'

\* A transition that ends at one of the places of the code.
LEMMA TransitionEffect ==
  ASSUME Base, NEW j \in Jobs, NEW expected, NEW target \in Lifecycle!Statuses,
         NEW code \in Lifecycle!Codes, NEW ok, NEW refused, NEW raised,
         Transition(j, expected, target, code, ok, refused, raised)
  PROVE  /\ \E to \in {ok, refused, raised} : Goto(j, to)
         /\ \/ /\ UNCHANGED <<status, stale, log>>
               /\ status[j] \in expected => Goto(j, raised)
            \/ /\ status[j] \in expected
               /\ status' = [status EXCEPT ![j] = target]
               /\ stale' = [stale EXCEPT ![j] = FALSE]
               /\ log' = [log EXCEPT ![j] = Append(@, code)]
               /\ Goto(j, ok) \/ Goto(j, raised)
         /\ status' \in [Jobs -> Lifecycle!Statuses]
         /\ stale' \in [Jobs -> BOOLEAN]
         /\ log' \in [Jobs -> Seq(Lifecycle!Codes)]
         /\ faults' \in 0 .. MaxFaults
<1>1. /\ status \in [Jobs -> Lifecycle!Statuses]
      /\ stale \in [Jobs -> BOOLEAN]
      /\ log \in [Jobs -> Seq(Lifecycle!Codes)]
      /\ faults \in 0 .. MaxFaults
  BY DEF Base, TypeOK
<1>2. faults' \in 0 .. MaxFaults
  BY <1>1, ConstantsAssumption DEF Transition, Commit, Fault
<1>3. Append(log[j], code) \in Seq(Lifecycle!Codes)
  BY <1>1, AppendProperties
<1> QED
  BY <1>1, <1>2, <1>3, Zenon DEF Transition, Commit, Record

\* An appended event.
LEMMA AppendEffect ==
  ASSUME Base, NEW j \in Jobs, NEW code \in Lifecycle!Codes, NEW ok, NEW raised,
         AppendEvent(j, code, ok, raised)
  PROVE  /\ Goto(j, ok) \/ Goto(j, raised)
         /\ log' = log \/ log' = [log EXCEPT ![j] = Append(@, code)]
         /\ log' \in [Jobs -> Seq(Lifecycle!Codes)]
         /\ faults' \in 0 .. MaxFaults
<1>1. log \in [Jobs -> Seq(Lifecycle!Codes)] /\ faults \in 0 .. MaxFaults
  BY DEF Base, TypeOK
<1>2. faults' \in 0 .. MaxFaults
  BY <1>1, ConstantsAssumption DEF AppendEvent, Commit, Fault
<1>3. Append(log[j], code) \in Seq(Lifecycle!Codes)
  BY <1>1, AppendProperties
<1> QED
  BY <1>1, <1>2, <1>3, Zenon DEF AppendEvent, Commit, Record

LEMMA TaskStepIsPlain ==
  ASSUME Base, NEW j \in Jobs, TaskStep(j), ~ EnterGate(j)
  PROVE  PlainStep(j)
<1> USE DEF PCs, Live, InSlot, Early
<1>1. /\ DataOK /\ pc \in [Jobs -> PCs] /\ TaskInv(j)
      /\ permits \in [Procs -> 0 .. MaxConcurrentJobs]
  BY DEF Base, TypeOK, DataOK, Tasks
<1>2. \A to : Goto(j, to) => pc'[j] = to
  BY <1>1 DEF Goto
<1>3. CASE CreateWorkspace(j)
  BY <1>1, <1>2, <1>3, ConstantsAssumption DEF CreateWorkspace, PlainStep, Fault, DataOK, TaskInv, dbVars, procVars
<1>4. CASE FirstEvent(j)
  <2>1. "SYSTEM" \in Lifecycle!Codes
    BY DEF Lifecycle!Codes, Lifecycle!Notes
  <2>2. /\ Goto(j, "scheduled") \/ Goto(j, "ended")
        /\ log' \in [Jobs -> Seq(Lifecycle!Codes)]
        /\ faults' \in 0 .. MaxFaults
    BY <1>4, <2>1, AppendEffect DEF FirstEvent
  <2>3. DataOK' /\ UNCHANGED <<owner, queue, up, sweep, crashes, status, attempt>>
    BY <1>1, <1>4, <2>2, Zenon DEF FirstEvent, DataOK, procVars
  <2>4. TaskInv(j)'
    BY <1>1, <1>2, <1>4, <2>2, <2>3, Zenon DEF FirstEvent, TaskInv
  <2> QED
    BY <1>2, <1>4, <2>2, <2>3, <2>4 DEF FirstEvent, PlainStep
<1>5. CASE FailQueued(j)
  <2>1. "FAILED" \in Lifecycle!Statuses /\ "ORCHESTRATION_QUEUE_TIMEOUT" \in Lifecycle!Codes
    BY DEF Lifecycle!Codes, Lifecycle!Edges, Lifecycle!Statuses, Lifecycle!Terminal
  <2>2. Transition(j, {"CREATED"}, "FAILED", "ORCHESTRATION_QUEUE_TIMEOUT",
                   "ended", "ended", "ended")
    BY <1>5 DEF FailQueued
  <2>3. /\ \E to \in {"ended", "ended", "ended"} : Goto(j, to)
        /\ \/ /\ UNCHANGED <<status, stale, log>>
              /\ status[j] \in {"CREATED"} => Goto(j, "ended")
           \/ /\ status[j] \in {"CREATED"}
              /\ status' = [status EXCEPT ![j] = "FAILED"]
              /\ Goto(j, "ended") \/ Goto(j, "ended")
        /\ status' \in [Jobs -> Lifecycle!Statuses]
        /\ stale' \in [Jobs -> BOOLEAN]
        /\ log' \in [Jobs -> Seq(Lifecycle!Codes)]
        /\ faults' \in 0 .. MaxFaults
    BY <2>1, <2>2, TransitionEffect, ZenonT(30)
  <2>4. DataOK' /\ UNCHANGED <<owner, queue, up, sweep, crashes, attempt>>
    BY <1>1, <1>5, <2>3 DEF FailQueued, DataOK, procVars
  <2> QED
    BY <1>1, <1>2, <1>5, <2>3, <2>4, ZenonT(30) DEF FailQueued, PlainStep, TaskInv, DataOK
<1>6. CASE StartRun(j)
  <2>1. "RUNNING" \in Lifecycle!Statuses /\ "ORCHESTRATION_STARTED" \in Lifecycle!Codes
    BY DEF Lifecycle!Codes, Lifecycle!Edges, Lifecycle!Statuses, Lifecycle!Terminal
  <2>2. Transition(j, {"CREATED"}, "RUNNING", "ORCHESTRATION_STARTED",
                   "context", "ended", "ended")
    BY <1>6 DEF StartRun
  <2>3. /\ \E to \in {"context", "ended", "ended"} : Goto(j, to)
        /\ \/ /\ UNCHANGED <<status, stale, log>>
              /\ status[j] \in {"CREATED"} => Goto(j, "ended")
           \/ /\ status[j] \in {"CREATED"}
              /\ status' = [status EXCEPT ![j] = "RUNNING"]
              /\ Goto(j, "context") \/ Goto(j, "ended")
        /\ status' \in [Jobs -> Lifecycle!Statuses]
        /\ stale' \in [Jobs -> BOOLEAN]
        /\ log' \in [Jobs -> Seq(Lifecycle!Codes)]
        /\ faults' \in 0 .. MaxFaults
    BY <2>1, <2>2, TransitionEffect, ZenonT(30)
  <2>4. DataOK' /\ UNCHANGED <<owner, queue, up, sweep, crashes, attempt>>
    BY <1>1, <1>6, <2>3 DEF StartRun, DataOK, procVars
  <2> QED
    BY <1>1, <1>2, <1>6, <2>3, <2>4, Zenon DEF StartRun, PlainStep, TaskInv, DataOK
<1>7. CASE CompleteRun(j)
  <2>1. "COMPLETED" \in Lifecycle!Statuses /\ "ORCHESTRATION_COMPLETED" \in Lifecycle!Codes
    BY DEF Lifecycle!Codes, Lifecycle!Edges, Lifecycle!Statuses, Lifecycle!Terminal
  <2>2. Transition(j, {"RUNNING"}, "COMPLETED", "ORCHESTRATION_COMPLETED",
                   "ended", "ended", "fail")
    BY <1>7 DEF CompleteRun
  <2>3. /\ \E to \in {"ended", "ended", "fail"} : Goto(j, to)
        /\ \/ /\ UNCHANGED <<status, stale, log>>
              /\ status[j] \in {"RUNNING"} => Goto(j, "fail")
           \/ /\ status[j] \in {"RUNNING"}
              /\ status' = [status EXCEPT ![j] = "COMPLETED"]
              /\ Goto(j, "ended") \/ Goto(j, "fail")
        /\ status' \in [Jobs -> Lifecycle!Statuses]
        /\ stale' \in [Jobs -> BOOLEAN]
        /\ log' \in [Jobs -> Seq(Lifecycle!Codes)]
        /\ faults' \in 0 .. MaxFaults
    BY <2>1, <2>2, TransitionEffect, Zenon
  <2>4. DataOK' /\ UNCHANGED <<owner, queue, up, sweep, crashes, attempt>>
    BY <1>1, <1>7, <2>3, Zenon DEF CompleteRun, DataOK, procVars
  <2> QED
    BY <1>1, <1>2, <1>7, <2>3, <2>4 DEF CompleteRun, PlainStep, TaskInv, DataOK
<1>8. CASE FailRun(j)
  <2>1. "FAILED" \in Lifecycle!Statuses /\ "ORCHESTRATION_FAILED" \in Lifecycle!Codes
    BY DEF Lifecycle!Codes, Lifecycle!Edges, Lifecycle!Statuses, Lifecycle!Terminal
  <2>2. Transition(j, {"CREATED", "RUNNING"}, "FAILED", "ORCHESTRATION_FAILED",
                   "ended", "ended", "ended")
    BY <1>8 DEF FailRun
  <2>3. /\ \E to \in {"ended", "ended", "ended"} : Goto(j, to)
        /\ \/ /\ UNCHANGED <<status, stale, log>>
              /\ status[j] \in {"CREATED", "RUNNING"} => Goto(j, "ended")
           \/ /\ status[j] \in {"CREATED", "RUNNING"}
              /\ status' = [status EXCEPT ![j] = "FAILED"]
              /\ Goto(j, "ended") \/ Goto(j, "ended")
        /\ status' \in [Jobs -> Lifecycle!Statuses]
        /\ stale' \in [Jobs -> BOOLEAN]
        /\ log' \in [Jobs -> Seq(Lifecycle!Codes)]
        /\ faults' \in 0 .. MaxFaults
    BY <2>1, <2>2, TransitionEffect, ZenonT(30)
  <2>4. DataOK' /\ UNCHANGED <<owner, queue, up, sweep, crashes, attempt>>
    BY <1>1, <1>8, <2>3, Zenon DEF FailRun, DataOK, procVars
  <2> QED
    BY <1>1, <1>2, <1>8, <2>3, <2>4, ZenonT(30) DEF FailRun, PlainStep, TaskInv, DataOK
<1>9. CASE CopyContext(j)
  <2>1. "REFINEMENT_CONTEXT_COPIED" \in Lifecycle!Codes
    BY DEF Lifecycle!Codes, Lifecycle!Notes
  <2>2. /\ Goto(j, "attempt") \/ Goto(j, "fail")
        /\ log' \in [Jobs -> Seq(Lifecycle!Codes)]
        /\ faults' \in 0 .. MaxFaults
        /\ files' \in [Jobs -> {"absent", "fit", "over"}]
    <3>1. files' \in [Jobs -> {"absent", "fit", "over"}]
      <4>1. CASE files' = files
        BY <1>1, <4>1 DEF DataOK
      <4>2. CASE parent[j] # None /\ files' = [files EXCEPT ![j] = files[parent[j]]]
        <5>1. parent[j] \in Jobs
          BY <1>1, <4>2 DEF DataOK
        <5> QED
          BY <1>1, <4>2, <5>1 DEF DataOK
      <4> QED
        BY <1>9, <4>1, <4>2 DEF CopyContext
    <3>2. CASE AppendEvent(j, "REFINEMENT_CONTEXT_COPIED", "attempt", "fail")
      BY <1>1, <2>1, <3>1, <3>2, AppendEffect, ZenonT(30)
    <3>3. CASE ~ AppendEvent(j, "REFINEMENT_CONTEXT_COPIED", "attempt", "fail")
      BY <1>9, <1>1, <3>1, <3>3, ConstantsAssumption DEF CopyContext, DataOK, Fault
    <3> QED
      BY <3>2, <3>3
  <2>3. DataOK' /\ UNCHANGED <<owner, queue, up, sweep, crashes, status>>
    BY <1>1, <1>9, <2>2, ConstantsAssumption, ZenonT(30) DEF CopyContext, DataOK, TaskInv, procVars
  <2>4. pc[j] = "context" /\ attempt' = attempt /\ attempt[j] = 0 /\ status[j] # "NONE"
    BY <1>1, <1>9 DEF CopyContext, TaskInv
  <2>5. pc'[j] \in {"attempt", "fail"} /\ Goto(j, pc'[j])
    BY <1>2, <2>2, ZenonT(30)
  <2>6. TaskInv(j)'
    BY <1>1, <2>3, <2>4, <2>5, ConstantsAssumption DEF TaskInv
  <2> QED
    BY <2>3, <2>4, <2>5, <2>6 DEF PlainStep
<1>10. CASE OnAttempt(j)
  <2>1. "LLM_ATTEMPT" \in Lifecycle!Codes
    BY DEF Lifecycle!Codes, Lifecycle!Notes
  <2>2. /\ Goto(j, "generate") \/ Goto(j, "fail")
        /\ log' \in [Jobs -> Seq(Lifecycle!Codes)]
        /\ faults' \in 0 .. MaxFaults
    BY <1>10, <2>1, AppendEffect DEF OnAttempt
  <2>a. attempt' = [attempt EXCEPT ![j] = @ + 1] /\ attempt[j] < MaxAttempts
    BY <1>1, <1>10 DEF OnAttempt, TaskInv
  <2>b. attempt' \in [Jobs -> 0 .. MaxAttempts]
    BY <1>1, <2>a, ConstantsAssumption DEF DataOK
  <2>3. DataOK' /\ UNCHANGED <<owner, queue, up, sweep, crashes, status>>
    BY <1>1, <1>10, <2>2, <2>b DEF OnAttempt, DataOK, procVars
  <2>c. /\ attempt[j] \in Nat /\ attempt'[j] = attempt[j] + 1
        /\ \A k \in Jobs : k # j => attempt'[k] = attempt[k]
    BY <1>1, <2>a, ConstantsAssumption DEF DataOK
  <2>4. TaskInv(j)'
    BY <1>1, <1>2, <1>10, <2>2, <2>3, <2>c DEF OnAttempt, TaskInv
  <2> QED
    BY <1>2, <1>10, <2>2, <2>3, <2>c, <2>4, Zenon DEF OnAttempt, PlainStep
<1>11. CASE RefusePlan(j)
  <2>1. "SECURITY_ALERT" \in Lifecycle!Codes
    BY DEF Lifecycle!Codes, Lifecycle!Notes
  <2>2. /\ Goto(j, "fail") \/ Goto(j, "fail")
        /\ log' \in [Jobs -> Seq(Lifecycle!Codes)]
        /\ faults' \in 0 .. MaxFaults
    BY <1>11, <2>1, AppendEffect, Zenon DEF RefusePlan
  <2>3. DataOK' /\ UNCHANGED <<owner, queue, up, sweep, crashes, status>>
    BY <1>1, <1>11, <2>2, ConstantsAssumption, Zenon DEF RefusePlan, DataOK, TaskInv, procVars
  <2> QED
    BY <1>1, <1>2, <1>11, <2>2, <2>3, ConstantsAssumption, Zenon DEF RefusePlan, PlainStep, TaskInv, DataOK
<1>12. CASE FinishAttempt(j)
  <2>1. "PLAN_EXECUTED" \in Lifecycle!Codes
    BY DEF Lifecycle!Codes, Lifecycle!Notes
  <2>2. /\ Goto(j, "complete") \/ Goto(j, "fail")
        /\ log' \in [Jobs -> Seq(Lifecycle!Codes)]
        /\ faults' \in 0 .. MaxFaults
        /\ files' \in [Jobs -> {"absent", "fit", "over"}]
    BY <1>12, <1>1, <2>1, AppendEffect DEF FinishAttempt, DataOK
  <2>3. DataOK' /\ UNCHANGED <<owner, queue, up, sweep, crashes, status>>
    BY <1>1, <1>12, <2>2, ConstantsAssumption, ZenonT(30) DEF FinishAttempt, DataOK, TaskInv, procVars
  <2> QED
    BY <1>1, <1>2, <1>12, <2>2, <2>3, ConstantsAssumption, ZenonT(30) DEF FinishAttempt, PlainStep, TaskInv, DataOK
<1>13. CASE GeneratePlan(j)
  <2>1. DataOK' /\ UNCHANGED <<owner, queue, up, sweep, crashes, status, attempt>>
    BY <1>1, <1>13, ConstantsAssumption DEF GeneratePlan, DataOK, TaskInv, AfterRetryable, dbVars, procVars
  <2>2. \E to \in {"execute", AfterRetryable(j), "fail"} : Goto(j, to)
    BY <1>13, Zenon DEF GeneratePlan, After, GeneratePlanEnds, ParseActionPlanEnds, ValidateActionsEnds
  <2> QED
    BY <1>1, <1>2, <1>13, <2>1, <2>2, ZenonT(30) DEF GeneratePlan, PlainStep, TaskInv, DataOK, AfterRetryable, dbVars
<1>14. CASE RetryPause(j)
  <2>1. DataOK' /\ UNCHANGED <<owner, queue, up, sweep, crashes, status, attempt>>
    BY <1>1, <1>14, ConstantsAssumption, Zenon DEF RetryPause, DataOK, TaskInv, dbVars, procVars
  <2> QED
    BY <1>1, <1>2, <1>14, <2>1, Zenon DEF RetryPause, PlainStep, TaskInv, DataOK, dbVars
<1>15. CASE ExecuteActions(j)
  <2>1. DataOK' /\ UNCHANGED <<owner, queue, up, sweep, crashes, status, attempt>>
    BY <1>1, <1>15, ConstantsAssumption, Zenon DEF ExecuteActions, DataOK, TaskInv, AfterRetryable, dbVars, procVars
  <2> QED
    BY <1>1, <1>2, <1>15, <2>1, ZenonT(30) DEF ExecuteActions, PlainStep, TaskInv, DataOK, AfterRetryable, dbVars
<1>16. CASE CommitArtifacts(j)
  <2>c. attempt[j] \in 0 .. MaxAttempts /\ attempt[j] > 0 /\ faults \in 0 .. MaxFaults
    BY <1>1, <1>16, ZenonT(30) DEF CommitArtifacts, DataOK, TaskInv
  <2>d. faults' = faults \/ Fault
    BY <1>16 DEF CommitArtifacts, Commit
  <2>a. attempt[j] \in 1 .. MaxAttempts /\ faults' \in 0 .. MaxFaults
    BY <2>c, <2>d, ConstantsAssumption DEF Fault
  <2>b. rows' \in [Jobs -> SUBSET (1 .. MaxAttempts)]
    BY <1>1, <1>16, <2>a DEF CommitArtifacts, DataOK, Commit
  <2>1. DataOK' /\ UNCHANGED <<owner, queue, up, sweep, crashes, status, attempt>>
    BY <1>1, <1>16, <2>a, <2>b, Zenon DEF CommitArtifacts, DataOK, procVars
  <2> QED
    BY <1>1, <1>2, <1>16, <2>1, Zenon DEF CommitArtifacts, PlainStep, TaskInv, DataOK, Commit, Fault
<1>17. CASE SaveActionPlan(j)
  <2>c. attempt[j] \in 0 .. MaxAttempts /\ attempt[j] > 0 /\ faults \in 0 .. MaxFaults
    BY <1>1, <1>17, Zenon DEF SaveActionPlan, DataOK, TaskInv
  <2>d. faults' = faults \/ Fault
    BY <1>17, Zenon DEF SaveActionPlan, Commit
  <2>a. attempt[j] \in 1 .. MaxAttempts /\ faults' \in 0 .. MaxFaults
    BY <2>c, <2>d, ConstantsAssumption DEF Fault
  <2>b. plan' \in [Jobs -> 0 .. MaxAttempts] /\ stale' \in [Jobs -> BOOLEAN]
    BY <1>1, <1>17, <2>a, ZenonT(30) DEF SaveActionPlan, DataOK, Commit
  <2>1. DataOK' /\ UNCHANGED <<owner, queue, up, sweep, crashes, status, attempt>>
    BY <1>1, <1>17, <2>a, <2>b, ZenonT(30) DEF SaveActionPlan, DataOK, procVars
  <2> QED
    BY <1>1, <1>2, <1>17, <2>1, Zenon DEF SaveActionPlan, PlainStep, TaskInv, DataOK, Commit, Fault
<1>18. CASE WriteSystemMarker(j)
  <2>1. "TIMEOUT" \in Lifecycle!Codes
    BY DEF Lifecycle!Codes, Lifecycle!Notes
  <2>2. /\ Goto(j, AfterRetryable(j)) \/ Goto(j, "fail")
        /\ log' \in [Jobs -> Seq(Lifecycle!Codes)]
        /\ faults' \in 0 .. MaxFaults
    BY <1>18, <2>1, AppendEffect DEF WriteSystemMarker
  <2>3. DataOK' /\ UNCHANGED <<owner, queue, up, sweep, crashes, status, attempt>>
    BY <1>1, <1>18, <2>2, ConstantsAssumption DEF WriteSystemMarker, DataOK, TaskInv, procVars
  <2> QED
    BY <1>1, <1>2, <1>18, <2>2, <2>3, ConstantsAssumption
    DEF WriteSystemMarker, PlainStep, TaskInv, DataOK, AfterRetryable
<1> QED
  BY <1>3, <1>4, <1>5, <1>6, <1>7, <1>8, <1>9, <1>10, <1>11, <1>12, <1>13, <1>14, <1>15, <1>16, <1>17,
     <1>18 DEF TaskStep

-----------------------------------------------------------------------------
(* The base invariant is inductive.                                        *)

LEMMA BaseInit == Init => Base
<1> SUFFICES ASSUME Init PROVE Base
  OBVIOUS
<1> USE ConstantsAssumption DEF Init
<1>1. TypeOK
  <2>1. \A S : <<>> \in Seq(S)
    BY EmptySeq
  <2> QED
    BY <2>1 DEF TypeOK, Lifecycle!Statuses
<1>2. Tasks /\ Waiters
  BY DEF Tasks, TaskInv, Waiters, Early
<1>3. \A p \in Procs : SlotHolders(p) = {}
  BY DEF SlotHolders, InSlot
<1>4. SlotsAddUp
  <2>1. Cardinality({}) = 0
    BY FS_EmptySet
  <2>2. \A p \in Procs : Cardinality(SlotHolders(p)) = 0
    BY <1>3, <2>1, Zenon
  <2> QED
    BY <2>2 DEF SlotsAddUp
<1> QED
  BY <1>1, <1>2, <1>4 DEF Base

\* A task enters the queue of its gate.
LEMMA EnterGateKeepsBase ==
  ASSUME Base, NEW j \in Jobs, EnterGate(j)
  PROVE  Base'
<1>1. /\ TypeOK /\ TaskInv(j) /\ Waiters
      /\ pc[j] = "scheduled" /\ Goto(j, "queued") /\ owner' = owner
  BY DEF Base, Tasks, EnterGate
<1>2. /\ pc' \in [Jobs -> PCs]
      /\ permits' \in [Procs -> 0 .. MaxConcurrentJobs]
      /\ SlotsAddUp'
  BY <1>1, GotoKeepsSlots DEF PCs, Live, InSlot
<1>3. pc \in [Jobs -> PCs] /\ pc' = [pc EXCEPT ![j] = "queued"] /\ owner[j] \in Procs
  BY <1>1 DEF TypeOK, PCs, Goto, TaskInv
<1>4. queue \in [Procs -> Seq(Jobs)] /\ queue' = [queue EXCEPT ![owner[j]] = Append(@, j)]
  BY <1>1 DEF TypeOK, EnterGate
<1>5. queue' \in [Procs -> Seq(Jobs)]
  BY <1>3, <1>4, AppendProperties, Zenon
<1>6. TypeOK'
  BY <1>1, <1>2, <1>5, ZenonT(30) DEF TypeOK, EnterGate, dbVars, procVars, PCs
<1>7. Tasks'
  <2> SUFFICES ASSUME NEW k \in Jobs PROVE TaskInv(k)'
    BY Zenon DEF Tasks
  <2> QED
    BY <1>1, <1>3 DEF Base, Tasks, TaskInv, EnterGate, dbVars, Early
<1>8. Waiters'
  <2> SUFFICES ASSUME NEW p \in Procs
               PROVE  /\ \A i \in DOMAIN queue'[p] :
                           pc'[queue'[p][i]] = "queued" /\ owner'[queue'[p][i]] = p
                      /\ \A i, k \in DOMAIN queue'[p] : queue'[p][i] = queue'[p][k] => i = k
    BY Zenon DEF Waiters
  <2>1. CASE p # owner[j]
    <3>1. queue'[p] = queue[p]
      BY <1>3, <1>4, <2>1, Zenon
    <3>2. ASSUME NEW i \in DOMAIN queue[p]
          PROVE  pc'[queue[p][i]] = "queued" /\ owner'[queue[p][i]] = p
      <4>1. pc[queue[p][i]] = "queued" /\ owner[queue[p][i]] = p /\ queue[p][i] \in Jobs
        BY <1>1, <1>4, <3>2, ElementOfSeq, LenProperties DEF Waiters
      <4> QED BY <1>1, <1>3, <2>1, <4>1
    <3>3. \A i, k \in DOMAIN queue[p] : queue[p][i] = queue[p][k] => i = k
      BY <1>1, Zenon DEF Waiters
    <3> QED BY <3>1, <3>2, <3>3, Zenon
  <2>2. CASE p = owner[j]
    <3>1. /\ queue[p] \in Seq(Jobs) /\ queue'[p] = Append(queue[p], j)
          /\ \A i \in 1 .. Len(queue[p]) : queue[p][i] # j
      BY <1>1, <1>3, <1>4, <2>2 DEF Waiters
    <3>2. /\ DOMAIN queue'[p] = 1 .. (Len(queue[p]) + 1) /\ Len(queue[p]) \in Nat
          /\ queue'[p][Len(queue[p]) + 1] = j
          /\ \A i \in 1 .. Len(queue[p]) : queue'[p][i] = queue[p][i]
      BY <3>1, AppendProperties, LenProperties
    <3>3. \A i \in 1 .. Len(queue[p]) :
             queue[p][i] \in Jobs /\ pc[queue[p][i]] = "queued" /\ owner[queue[p][i]] = p
      BY <1>1, <3>1, ElementOfSeq, LenProperties DEF Waiters
    <3>4. \A i, k \in 1 .. Len(queue[p]) : queue[p][i] = queue[p][k] => i = k
      BY <1>1, <3>1, LenProperties DEF Waiters
    <3>5. pc'[j] = "queued" /\ \A k \in Jobs : k # j => pc'[k] = pc[k]
      BY <1>3
    <3>6. \A i \in DOMAIN queue'[p] : i \in 1 .. Len(queue[p]) \/ i = Len(queue[p]) + 1
      BY <3>2
    <3>7. ASSUME NEW i \in DOMAIN queue'[p]
          PROVE  pc'[queue'[p][i]] = "queued" /\ owner'[queue'[p][i]] = p
      <4>1. CASE i \in 1 .. Len(queue[p])
        BY <1>1, <3>1, <3>2, <3>3, <3>5, <4>1
      <4>2. CASE i = Len(queue[p]) + 1
        BY <1>1, <2>2, <3>2, <3>5, <4>2
      <4> QED BY <3>6, <3>7, <4>1, <4>2, Zenon
    <3>8. ASSUME NEW i \in DOMAIN queue'[p], NEW k \in DOMAIN queue'[p],
                 queue'[p][i] = queue'[p][k]
          PROVE  i = k
      BY <3>1, <3>2, <3>4, <3>6, <3>8
    <3> QED BY <3>7, <3>8, Zenon
  <2> QED
    BY <2>1, <2>2
<1> QED
  BY <1>2, <1>6, <1>7, <1>8 DEF Base

\* What is left of a sequence without its n-th element.
LEMMA WithoutProperties ==
  ASSUME NEW S, NEW q \in Seq(S), NEW n \in 1 .. Len(q)
  PROVE  /\ Without(q, n) \in Seq(S)
         /\ DOMAIN Without(q, n) = 1 .. (Len(q) - 1)
         /\ \A i \in 1 .. (Len(q) - 1) : Without(q, n)[i] = IF i < n THEN q[i] ELSE q[i + 1]
<1> DEFINE a == SubSeq(q, 1, n - 1)
           b == SubSeq(q, n + 1, Len(q))
<1>1. Len(q) \in Nat /\ \A i \in 1 .. Len(q) : q[i] \in S
  BY LenProperties, ElementOfSeq
<1>2. a \in Seq(S) /\ Len(a) = n - 1 /\ \A i \in 1 .. n - 1 : a[i] = q[i]
  BY <1>1, SubSeqProperties
<1>3. /\ b \in Seq(S) /\ Len(b) = Len(q) - n
      /\ \A i \in 1 .. Len(q) - n : b[i] = q[n + i]
  BY <1>1, SubSeqProperties
<1> HIDE DEF a, b
<1>4. /\ a \o b \in Seq(S) /\ Len(a \o b) = Len(q) - 1
      /\ \A i \in 1 .. Len(q) - 1 : (a \o b)[i] = IF i <= n - 1 THEN a[i] ELSE b[i - (n - 1)]
  BY <1>1, <1>2, <1>3, ConcatProperties
<1>5. \A i \in 1 .. Len(q) - 1 : (a \o b)[i] = IF i < n THEN q[i] ELSE q[i + 1]
  <2> TAKE i \in 1 .. Len(q) - 1
  <2>1. CASE i < n
    BY <1>1, <1>2, <1>4, <2>1
  <2>2. CASE ~ (i < n)
    <3>1. i - (n - 1) \in 1 .. Len(q) - n /\ n + (i - (n - 1)) = i + 1
      BY <1>1, <2>2
    <3>2. b[i - (n - 1)] = q[n + (i - (n - 1))]
      BY <1>3, <3>1
    <3>3. (a \o b)[i] = b[i - (n - 1)] /\ ~ (i <= n - 1)
      BY <1>1, <1>4, <2>2
    <3>4. (a \o b)[i] = q[i + 1]
      BY <3>1, <3>2, <3>3
    <3> QED
      BY <2>2, <3>4
  <2> QED
    BY <2>1, <2>2, Zenon
<1>6. Without(q, n) = a \o b
  BY DEF Without, a, b
<1> QED
  BY <1>1, <1>4, <1>5, <1>6, LenProperties, Zenon

\* A waiter gives up.
LEMMA QueueTimeoutKeepsBase ==
  ASSUME Base, NEW j \in Jobs, QueueTimeout(j)
  PROVE  Base'
<1>1. /\ TypeOK /\ TaskInv(j) /\ Waiters
      /\ pc[j] = "queued" /\ Goto(j, "queueTimeout") /\ owner' = owner
  BY DEF Base, Tasks, QueueTimeout
<1>2. /\ pc' \in [Jobs -> PCs]
      /\ permits' \in [Procs -> 0 .. MaxConcurrentJobs]
      /\ SlotsAddUp'
  BY <1>1, GotoKeepsSlots DEF PCs, Live, InSlot
<1> DEFINE o == owner[j]
           q == queue[o]
<1>3. /\ pc \in [Jobs -> PCs] /\ pc' = [pc EXCEPT ![j] = "queueTimeout"]
      /\ o \in Procs /\ queue \in [Procs -> Seq(Jobs)]
  BY <1>1, Zenon DEF TypeOK, PCs, Goto, TaskInv
<1>4. PICK n \in DOMAIN q :
        /\ q[n] = j
        /\ queue' = [queue EXCEPT ![o] = Without(q, n)]
  BY <1>3, Zenon DEF QueueTimeout
<1> DEFINE r == Without(q, n)
<1>5. /\ q \in Seq(Jobs) /\ n \in 1 .. Len(q) /\ Len(q) \in Nat
      /\ queue' = [queue EXCEPT ![o] = r]
  BY <1>3, <1>4
<1>6. /\ r \in Seq(Jobs) /\ DOMAIN r = 1 .. (Len(q) - 1)
      /\ \A i \in 1 .. (Len(q) - 1) : r[i] = IF i < n THEN q[i] ELSE q[i + 1]
  BY <1>5, WithoutProperties, Zenon
<1>7. TypeOK'
  BY <1>1, <1>2, <1>3, <1>5, <1>6, Zenon DEF TypeOK, QueueTimeout, dbVars, procVars, PCs
<1>8. Tasks'
  <2> SUFFICES ASSUME NEW k \in Jobs PROVE TaskInv(k)'
    BY Zenon DEF Tasks
  <2> QED
    BY <1>1, <1>3, Zenon DEF Base, Tasks, TaskInv, QueueTimeout, dbVars, Early
<1>9. Waiters'
  <2> SUFFICES ASSUME NEW p \in Procs
               PROVE  /\ \A i \in DOMAIN queue'[p] :
                           pc'[queue'[p][i]] = "queued" /\ owner'[queue'[p][i]] = p
                      /\ \A i, k \in DOMAIN queue'[p] : queue'[p][i] = queue'[p][k] => i = k
    BY ZenonT(30) DEF Waiters
  <2>1. CASE p # o
    <3>1. queue'[p] = queue[p] /\ queue[p] \in Seq(Jobs)
      BY <1>3, <1>5, <2>1, Zenon
    <3>2. \A i \in DOMAIN queue[p] : queue[p][i] # j /\ queue[p][i] \in Jobs
      <4> TAKE i \in DOMAIN queue[p]
      <4>1. owner[queue[p][i]] = p
        BY <1>1, Zenon DEF Waiters
      <4>2. queue[p][i] \in Jobs
        BY <3>1, LenProperties, ElementOfSeq, Zenon
      <4> QED
        BY <2>1, <4>1, <4>2, Zenon
    <3>3. \A i \in DOMAIN queue[p] : pc'[queue[p][i]] = pc[queue[p][i]]
      BY <1>3, <3>2, Zenon
    <3> QED
      BY <1>1, <3>1, <3>3 DEF Waiters
  <2>2. CASE p = o
    <3>1. /\ \A i \in 1 .. Len(q) : pc[q[i]] = "queued" /\ owner[q[i]] = o /\ q[i] \in Jobs
          /\ \A i, k \in 1 .. Len(q) : q[i] = q[k] => i = k
      <4>1. DOMAIN q = 1 .. Len(q) /\ \A i \in 1 .. Len(q) : q[i] \in Jobs
        BY <1>5, LenProperties, ElementOfSeq, Zenon
      <4>2. /\ \A i \in DOMAIN q : pc[q[i]] = "queued" /\ owner[q[i]] = o
            /\ \A i, k \in DOMAIN q : q[i] = q[k] => i = k
        BY <1>1, <1>3, Zenon DEF Waiters
      <4> QED
        BY <4>1, <4>2, Zenon
    <3> HIDE DEF r, q
    <3>2. \A i \in 1 .. (Len(q) - 1) : r[i] \in Jobs /\ r[i] # j /\ pc[r[i]] = "queued" /\ owner[r[i]] = o
      <4> TAKE i \in 1 .. (Len(q) - 1)
      <4>1. PICK m \in 1 .. Len(q) : r[i] = q[m] /\ m # n
        <5>1. CASE i < n
          BY <1>5, <1>6, <5>1
        <5>2. CASE ~ (i < n)
          BY <1>5, <1>6, <5>2
        <5> QED
          BY <5>1, <5>2, ZenonT(30)
      <4>2. n \in 1 .. Len(q) /\ q[n] = j
        BY <1>4, <1>5
      <4> QED
        BY <3>1, <4>1, <4>2, Zenon
    <3>3. \A i, k \in 1 .. (Len(q) - 1) : r[i] = r[k] => i = k
      <4> TAKE i, k \in 1 .. (Len(q) - 1)
      <4> HAVE r[i] = r[k]
      <4> DEFINE at(x) == IF x < n THEN x ELSE x + 1
      <4>1. at(i) \in 1 .. Len(q) /\ at(k) \in 1 .. Len(q)
        BY <1>5
      <4>2. r[i] = q[at(i)] /\ r[k] = q[at(k)]
        BY <1>6, Zenon
      <4>3. at(i) = at(k)
        BY <3>1, <4>1, <4>2, Zenon
      <4> QED
        BY <1>5, <4>3
    <3>4. queue'[p] = r
      BY <1>3, <1>5, <2>2
    <3> QED
      BY <1>1, <1>3, <1>6, <2>2, <3>2, <3>3, <3>4, ZenonT(30)
  <2> QED
    BY <2>1, <2>2, Zenon
<1> QED
  BY <1>2, <1>7, <1>8, <1>9, Zenon DEF Base

\* The first waiter takes a slot.
LEMMA AcquireSlotKeepsBase ==
  ASSUME Base, NEW p \in Procs, AcquireSlot(p)
  PROVE  Base'
<1> DEFINE q == queue[p]
           j == Head(q)
<1>1. /\ TypeOK /\ Tasks /\ Waiters /\ SlotsAddUp
      /\ permits[p] > 0 /\ q # <<>> /\ owner' = owner
      /\ pc \in [Jobs -> PCs] /\ permits \in [Procs -> 0 .. MaxConcurrentJobs]
      /\ queue \in [Procs -> Seq(Jobs)] /\ q \in Seq(Jobs)
  BY ZenonT(30) DEF Base, AcquireSlot, TypeOK, PCs
<1>2. /\ j \in Jobs /\ j = q[1] /\ Len(q) \in Nat \ {0} /\ DOMAIN q = 1 .. Len(q)
      /\ Tail(q) \in Seq(Jobs) /\ DOMAIN Tail(q) = 1 .. (Len(q) - 1)
      /\ \A i \in 1 .. (Len(q) - 1) : Tail(q)[i] = q[i + 1]
  BY <1>1, HeadTailProperties, LenProperties, EmptySeq
<1>3. /\ pc' = [pc EXCEPT ![j] = "start"]
      /\ permits' = [permits EXCEPT ![p] = @ - 1]
      /\ queue' = [queue EXCEPT ![p] = Tail(q)]
  BY <1>1 DEF AcquireSlot
<1>4. \A i \in 1 .. Len(q) : pc[q[i]] = "queued" /\ owner[q[i]] = p /\ q[i] \in Jobs
  BY <1>1, <1>2, ElementOfSeq DEF Waiters
<1>5. \A i, k \in 1 .. Len(q) : q[i] = q[k] => i = k
  BY <1>1, <1>2, Zenon DEF Waiters
<1>6. pc[j] = "queued" /\ owner[j] = p
  BY <1>2, <1>4
<1> HIDE DEF j, q
<1>7. TypeOK'
  <2>1. pc' \in [Jobs -> PCs]
    BY <1>1, <1>3, Zenon DEF PCs, Live, InSlot
  <2>2. permits' \in [Procs -> 0 .. MaxConcurrentJobs]
    BY <1>1, <1>3, ConstantsAssumption
  <2>3. queue' \in [Procs -> Seq(Jobs)]
    BY <1>1, <1>2, <1>3, ZenonT(30)
  <2> QED
    BY <1>1, <2>1, <2>2, <2>3, Zenon DEF TypeOK, AcquireSlot, dbVars, procVars, PCs
<1>8. Tasks'
  <2> SUFFICES ASSUME NEW k \in Jobs PROVE TaskInv(k)'
    BY DEF Tasks
  <2> QED
    BY <1>1, <1>2, <1>3, <1>6 DEF Tasks, TaskInv, AcquireSlot, dbVars, Early
<1>9. SlotsAddUp'
  <2>1. \A o \in Procs : IsFiniteSet(SlotHolders(o)) /\ Cardinality(SlotHolders(o)) \in Nat
    BY FS_Subset, FS_CardinalityType, ConstantsAssumption, Zenon DEF SlotHolders
  <2>2. SlotHolders(p)' = SlotHolders(p) \cup {j} /\ j \notin SlotHolders(p)
    BY <1>1, <1>2, <1>3, <1>6, Zenon DEF SlotHolders, InSlot
  <2>3. Cardinality(SlotHolders(p)') = Cardinality(SlotHolders(p)) + 1
    BY <2>1, <2>2, FS_AddElement, Zenon
  <2>4. \A o \in Procs : o # p => SlotHolders(o)' = SlotHolders(o)
    BY <1>1, <1>2, <1>3, <1>6, Zenon DEF SlotHolders, InSlot
  <2>5. \A o \in Procs : permits[o] + Cardinality(SlotHolders(o)) = MaxConcurrentJobs
    BY <1>1 DEF SlotsAddUp
  <2>6. permits'[p] + Cardinality(SlotHolders(p)') = MaxConcurrentJobs
    BY <1>1, <1>3, <2>1, <2>3, <2>5
  <2>7. \A o \in Procs : o # p => permits'[o] + Cardinality(SlotHolders(o)') = MaxConcurrentJobs
    BY <1>1, <1>3, <2>4, <2>5, ZenonT(30)
  <2> QED
    BY <2>6, <2>7 DEF SlotsAddUp
<1>10. Waiters'
  <2> SUFFICES ASSUME NEW o \in Procs
               PROVE  /\ \A i \in DOMAIN queue'[o] :
                           pc'[queue'[o][i]] = "queued" /\ owner'[queue'[o][i]] = o
                      /\ \A i, k \in DOMAIN queue'[o] : queue'[o][i] = queue'[o][k] => i = k
    BY Zenon DEF Waiters
  <2>1. CASE o # p
    BY <1>1, <1>3, <1>6, <2>1 DEF Waiters
  <2>2. CASE o = p
    <3>1. queue'[o] = Tail(q)
      BY <1>1, <1>3, <2>2, Zenon
    <3>2. \A i \in 1 .. (Len(q) - 1) : i + 1 \in 1 .. Len(q) /\ i + 1 # 1
      BY <1>2
    <3>3. \A i \in 1 .. (Len(q) - 1) : q[i + 1] # j
      BY <1>2, <1>5, <3>2
    <3>4. \A i \in 1 .. (Len(q) - 1) : pc'[q[i + 1]] = "queued" /\ owner'[q[i + 1]] = p
      BY <1>1, <1>3, <1>4, <3>2, <3>3, ZenonT(30)
    <3>5. \A i, k \in 1 .. (Len(q) - 1) : q[i + 1] = q[k + 1] => i = k
      BY <1>2, <1>5, <3>2
    <3>6. DOMAIN queue'[o] = 1 .. (Len(q) - 1)
      BY <1>2, <3>1
    <3>7. \A i \in 1 .. (Len(q) - 1) : queue'[o][i] = q[i + 1]
      BY <1>2, <3>1, Zenon
    <3>8. \A i \in DOMAIN queue'[o] : pc'[queue'[o][i]] = "queued" /\ owner'[queue'[o][i]] = o
      BY <2>2, <3>4, <3>6, <3>7
    <3>9. \A i, k \in DOMAIN queue'[o] : queue'[o][i] = queue'[o][k] => i = k
      BY <3>5, <3>6, <3>7, Zenon
    <3> QED
      BY <3>8, <3>9
  <2> QED
    BY <2>1, <2>2, Zenon
<1> QED
  BY <1>7, <1>8, <1>9, <1>10 DEF Base

\* A request creates a job.
LEMMA CreateJobKeepsBase ==
  ASSUME Base, NEW p \in Procs, NEW j \in Jobs, CreateJob(p, j)
  PROVE  Base'
<1>1. /\ TypeOK /\ Tasks /\ Waiters /\ SlotsAddUp
      /\ pc[j] = "none" /\ pc \in [Jobs -> PCs] /\ owner \in [Jobs -> Procs \cup {None}]
  BY Zenon DEF Base, TypeOK, PCs, CreateJob
<1>2. PICK to \in {"workspace", "ended"} : pc' = [pc EXCEPT ![j] = to]
  BY ZenonT(30) DEF CreateJob, Goto
<1>3. permits' = permits /\ queue' = queue /\ owner' = [owner EXCEPT ![j] = p]
  BY <1>1, Zenon DEF CreateJob, Goto, InSlot
<1>4. /\ status' = [status EXCEPT ![j] = "CREATED"] /\ attempt' = attempt
      /\ parent' \in [Jobs -> Jobs \cup {None}] /\ faults' \in 0 .. MaxFaults
  BY <1>1, ConstantsAssumption DEF CreateJob, TypeOK, Fault
<1>5. TypeOK'
  BY <1>1, <1>2, <1>3, <1>4
     DEF TypeOK, CreateJob, procVars, PCs, Live, InSlot, Lifecycle!Statuses
<1>6. Tasks'
  <2> SUFFICES ASSUME NEW k \in Jobs PROVE TaskInv(k)'
    BY DEF Tasks
  <2> status \in [Jobs -> Lifecycle!Statuses]
    BY <1>1 DEF TypeOK
  <2> QED
    BY <1>1, <1>2, <1>3, <1>4 DEF Tasks, TaskInv, Early
<1>7. \A o \in Procs : SlotHolders(o)' = SlotHolders(o)
  BY <1>1, <1>2, <1>3 DEF SlotHolders, InSlot
<1>8. SlotsAddUp'
  BY <1>1, <1>3, <1>7, Zenon DEF SlotsAddUp
<1>9. Waiters'
  <2>1. \A o \in Procs : \A i \in DOMAIN queue[o] : queue[o][i] \in Jobs /\ queue[o][i] # j
    BY <1>1, ElementOfSeq, LenProperties DEF Waiters, TypeOK
  <2> QED
    BY <1>1, <1>2, <1>3, <2>1 DEF Waiters
<1> QED
  BY <1>5, <1>6, <1>8, <1>9 DEF Base

\* A process dies and takes its tasks with it.
LEMMA CrashKeepsBase ==
  ASSUME Base, NEW p \in Procs, Crash(p)
  PROVE  Base'
<1>1. TypeOK /\ Tasks /\ Waiters /\ SlotsAddUp
  BY Zenon DEF Base
<1>2. TypeOK'
  <2>1. crashes' \in 0 .. MaxCrashes
    BY <1>1, ConstantsAssumption DEF TypeOK, Crash
  <2>2. queue' \in [Procs -> Seq(Jobs)]
    BY <1>1, EmptySeq, Zenon DEF TypeOK, Crash
  <2>3. permits' \in [Procs -> 0 .. MaxConcurrentJobs]
    BY <1>1, ConstantsAssumption DEF TypeOK, Crash
  <2>4. pc' \in [Jobs -> PCs]
    BY <1>1, Zenon DEF TypeOK, Crash, PCs
  <2>5. up' \in [Procs -> {"down", "recovering", "up", "stopped"}] /\ sweep' \in [Procs -> SUBSET Jobs]
    BY <1>1 DEF TypeOK, Crash
  <2> QED
    BY <1>1, <2>1, <2>2, <2>3, <2>4, <2>5, ZenonT(30) DEF TypeOK, Crash, dbVars, PCs
<1>3. Tasks'
  <2> SUFFICES ASSUME NEW k \in Jobs PROVE TaskInv(k)'
    BY DEF Tasks
  <2>1. UNCHANGED <<status, owner, attempt>>
    BY DEF Crash, dbVars
  <2>2. pc'[k] = pc[k] \/ (pc'[k] = "ended" /\ pc[k] # "none")
    BY DEF Crash, LiveTasks, Live, InSlot
  <2>3. TaskInv(k)
    BY <1>1, ZenonT(30) DEF Tasks
  <2> QED
    BY <2>1, <2>2, <2>3 DEF TaskInv, Early
<1>4. SlotHolders(p)' = {}
  BY <1>1 DEF SlotHolders, Crash, LiveTasks, Live, InSlot
<1>5. \A o \in Procs : o # p => SlotHolders(o)' = SlotHolders(o)
  BY <1>1, Zenon DEF SlotHolders, Crash, LiveTasks
<1>6. SlotsAddUp'
  <2>1. Cardinality({}) = 0
    BY FS_EmptySet, Zenon
  <2>2. permits'[p] = MaxConcurrentJobs /\ \A o \in Procs : o # p => permits'[o] = permits[o]
    BY <1>1, ZenonT(30) DEF TypeOK, Crash
  <2> QED
    BY <1>1, <1>4, <1>5, <2>1, <2>2, ConstantsAssumption DEF SlotsAddUp
<1>7. Waiters'
  <2> SUFFICES ASSUME NEW o \in Procs
               PROVE  /\ \A i \in DOMAIN queue'[o] :
                           pc'[queue'[o][i]] = "queued" /\ owner'[queue'[o][i]] = o
                      /\ \A i, k \in DOMAIN queue'[o] : queue'[o][i] = queue'[o][k] => i = k
    BY DEF Waiters
  <2>1. CASE o = p
    <3>1. queue'[o] = <<>>
      BY <1>1, <2>1, Zenon DEF TypeOK, Crash
    <3> QED
      BY <3>1
  <2>2. CASE o # p
    <3>1. queue'[o] = queue[o] /\ \A i \in DOMAIN queue[o] : queue[o][i] \in Jobs
      BY <1>1, <2>2, ElementOfSeq, LenProperties DEF TypeOK, Crash
    <3>2. /\ \A i \in DOMAIN queue[o] : pc[queue[o][i]] = "queued" /\ owner[queue[o][i]] = o
          /\ \A i, k \in DOMAIN queue[o] : queue[o][i] = queue[o][k] => i = k
      BY <1>1 DEF Waiters
    <3>3. owner' = owner /\ \A k \in Jobs : owner[k] = o => pc'[k] = pc[k]
      BY <2>2, Zenon DEF Crash, LiveTasks
    <3> QED
      BY <3>1, <3>2, <3>3, ZenonT(30)
  <2> QED
    BY <2>1, <2>2
<1> QED
  BY <1>2, <1>3, <1>6, <1>7 DEF Base

\* What the recovery of a job comes to.
LEMMA RecoverOneEffect ==
  ASSUME NEW p \in Procs, NEW j \in Jobs, RecoverOne(p, j)
  PROVE  \/ UNCHANGED <<status, stale, log>>
         \/ /\ status[j] = "RUNNING"
            /\ status' = [status EXCEPT ![j] = "FAILED"]
            /\ stale' = [stale EXCEPT ![j] = FALSE]
            /\ log' = [log EXCEPT ![j] = Append(@, "STALE_JOB_RECOVERED")]
  BY DEF RecoverOne, Record

\* Steps of a process other than a crash, and the passing of time, touch no
\* task.
LEMMA ProcessStepKeepsBase ==
  ASSUME Base,
         \/ \E p \in Procs : \/ Startup(p) \/ Serve(p) \/ Shutdown(p)
                             \/ \E j \in Jobs : RecoverOne(p, j)
         \/ \E j \in Jobs : Age(j)
  PROVE  Base'
<1>1. TypeOK /\ Tasks /\ Waiters /\ SlotsAddUp
  BY ZenonT(30) DEF Base
<1>2. UNCHANGED <<parent, plan, rows, files, permits, queue, pc, owner, attempt, crashes>>
  BY DEF Startup, RecoverOne, Serve, Shutdown, Age, dbVars, gateVars
<1>3. /\ status' \in [Jobs -> Lifecycle!Statuses]
      /\ \A k \in Jobs : status'[k] = status[k] \/ (status[k] = "RUNNING" /\ status'[k] = "FAILED")
      /\ log' \in [Jobs -> Seq(Lifecycle!Codes)]
      /\ stale' \in [Jobs -> BOOLEAN]
  <2>1. CASE \E p \in Procs, j \in Jobs : RecoverOne(p, j)
    <3>1. PICK p \in Procs, j \in Jobs : RecoverOne(p, j)
      BY <2>1, Zenon
    <3>2. "STALE_JOB_RECOVERED" \in Lifecycle!Codes /\ "FAILED" \in Lifecycle!Statuses
      BY ZenonT(30) DEF Lifecycle!Codes, Lifecycle!Edges, Lifecycle!Statuses, Lifecycle!Terminal
    <3>3. CASE UNCHANGED <<status, stale, log>>
      BY <1>1, <3>3, Zenon DEF TypeOK
    <3>4. CASE /\ status[j] = "RUNNING"
               /\ status' = [status EXCEPT ![j] = "FAILED"]
               /\ stale' = [stale EXCEPT ![j] = FALSE]
               /\ log' = [log EXCEPT ![j] = Append(@, "STALE_JOB_RECOVERED")]
      <4>1. Append(log[j], "STALE_JOB_RECOVERED") \in Seq(Lifecycle!Codes)
        BY <1>1, <3>2, AppendProperties DEF TypeOK
      <4>2. log' \in [Jobs -> Seq(Lifecycle!Codes)]
        BY <1>1, <3>4, <4>1, Zenon DEF TypeOK
      <4>3. stale' \in [Jobs -> BOOLEAN]
        BY <1>1, <3>4, Zenon DEF TypeOK
      <4>4. /\ status' \in [Jobs -> Lifecycle!Statuses]
            /\ \A k \in Jobs : status'[k] = status[k]
                              \/ (status[k] = "RUNNING" /\ status'[k] = "FAILED")
        BY <1>1, <3>2, <3>4, Zenon DEF TypeOK
      <4> QED
        BY <4>2, <4>3, <4>4, ZenonT(30)
    <3> QED
      BY <3>1, <3>3, <3>4, RecoverOneEffect, Zenon
  <2>2. CASE ~ \E p \in Procs, j \in Jobs : RecoverOne(p, j)
    BY <1>1, <2>2, ZenonT(30) DEF Startup, Serve, Shutdown, Age, TypeOK, dbVars
  <2> QED
    BY <2>1, <2>2, Zenon
<1>4. TypeOK'
  <2>1. /\ up' \in [Procs -> {"down", "recovering", "up", "stopped"}]
        /\ sweep' \in [Procs -> SUBSET Jobs]
    <3>1. ASSUME NEW p \in Procs, NEW j \in Jobs, RecoverOne(p, j)
          PROVE  /\ up' \in [Procs -> {"down", "recovering", "up", "stopped"}]
                 /\ sweep' \in [Procs -> SUBSET Jobs]
      <4>1. \/ sweep' = [sweep EXCEPT ![p] = @ \ {j}] /\ up' = up
            \/ sweep' = [sweep EXCEPT ![p] = {}] /\ up' = [up EXCEPT ![p] = "down"]
        BY <3>1 DEF RecoverOne
      <4>2. /\ up \in [Procs -> {"down", "recovering", "up", "stopped"}]
            /\ sweep \in [Procs -> SUBSET Jobs]
        BY <1>1 DEF TypeOK
      <4>3. up' \in [Procs -> {"down", "recovering", "up", "stopped"}]
        BY <4>1, <4>2
      <4>4. sweep' \in [Procs -> SUBSET Jobs]
        BY <4>1, <4>2, Zenon
      <4> QED
        BY <4>3, <4>4, ZenonT(30)
    <3>2. ASSUME NEW p \in Procs, Startup(p)
          PROVE  /\ up' \in [Procs -> {"down", "recovering", "up", "stopped"}]
                 /\ sweep' \in [Procs -> SUBSET Jobs]
      <4>1. {j \in Jobs : status[j] = "RUNNING" /\ stale[j]} \in SUBSET Jobs
        BY ZenonT(30)
      <4> QED
        BY <1>1, <3>2, <4>1, Zenon DEF TypeOK, Startup
    <3>3. ASSUME NEW p \in Procs, Serve(p) \/ Shutdown(p)
          PROVE  /\ up' \in [Procs -> {"down", "recovering", "up", "stopped"}]
                 /\ sweep' \in [Procs -> SUBSET Jobs]
      BY <1>1, <3>3, ZenonT(30) DEF TypeOK, Serve, Shutdown
    <3>4. ASSUME NEW j \in Jobs, Age(j)
          PROVE  /\ up' \in [Procs -> {"down", "recovering", "up", "stopped"}]
                 /\ sweep' \in [Procs -> SUBSET Jobs]
      BY <1>1, <3>4 DEF TypeOK, Age, procVars
    <3> QED
      BY <3>1, <3>2, <3>3, <3>4, Zenon
  <2>2. faults' \in 0 .. MaxFaults
    <3>1. faults' = faults \/ Fault
      BY <1>1 DEF Startup, RecoverOne, Serve, Shutdown, Age
    <3>2. faults \in 0 .. MaxFaults
      BY <1>1, Zenon DEF TypeOK
    <3> QED
      BY <3>1, <3>2, ConstantsAssumption DEF Fault
  <2> QED
    BY <1>1, <1>2, <1>3, <2>1, <2>2, Zenon DEF TypeOK
<1>5. Tasks'
  BY <1>1, <1>2, <1>3, ZenonT(30) DEF Tasks, TaskInv, Early
<1>6. Waiters' /\ SlotsAddUp'
  BY <1>1, <1>2, ZenonT(30) DEF Waiters, SlotsAddUp, SlotHolders
<1> QED
  BY <1>4, <1>5, <1>6 DEF Base

LEMMA BaseStep == Base /\ [Next]_vars => Base'
<1> SUFFICES ASSUME Base, [Next]_vars PROVE Base'
  OBVIOUS
<1>1. ASSUME NEW j \in Jobs, TaskStep(j) PROVE Base'
  <2>1. CASE EnterGate(j)
    BY <2>1, EnterGateKeepsBase
  <2>2. CASE ~ EnterGate(j)
    <3>1. PlainStep(j)
      BY <1>1, <2>2, TaskStepIsPlain, Zenon
    <3>2. /\ pc' \in [Jobs -> PCs]
          /\ permits' \in [Procs -> 0 .. MaxConcurrentJobs]
          /\ SlotsAddUp' /\ Tasks' /\ Waiters'
      BY <3>1, TaskStepKeepsBase, Zenon DEF PlainStep
    <3>3. TypeOK'
      BY <3>1, <3>2, Zenon DEF Base, TypeOK, PlainStep, DataOK, PCs
    <3> QED
      BY <3>2, <3>3 DEF Base
  <2> QED
    BY <2>1, <2>2
<1>2. ASSUME NEW j \in Jobs, QueueTimeout(j) PROVE Base'
  BY <1>2, QueueTimeoutKeepsBase
<1>3. ASSUME NEW p \in Procs, Startup(p) \/ Serve(p) \/ Shutdown(p) PROVE Base'
  BY <1>3, ProcessStepKeepsBase
<1>4. ASSUME NEW p \in Procs, Crash(p) PROVE Base'
  BY <1>4, CrashKeepsBase
<1>5. ASSUME NEW p \in Procs, AcquireSlot(p) PROVE Base'
  BY <1>5, AcquireSlotKeepsBase
<1>6. ASSUME NEW p \in Procs, NEW j \in Jobs, CreateJob(p, j) \/ RecoverOne(p, j) PROVE Base'
  BY <1>6, CreateJobKeepsBase, ProcessStepKeepsBase
<1>7. ASSUME NEW j \in Jobs, Age(j) PROVE Base'
  BY <1>7, ProcessStepKeepsBase
<1>8. CASE UNCHANGED vars
  <2>1. UNCHANGED <<status, parent, stale, plan, rows, log, files, up, sweep,
                    permits, queue, pc, owner, attempt, faults, crashes>>
    BY <1>8, Zenon DEF vars, dbVars, procVars, gateVars
  <2>2. TypeOK'
    BY <2>1, ZenonT(30) DEF Base, TypeOK
  <2>3. Tasks'
    BY <2>1 DEF Base, Tasks, TaskInv
  <2>4. Waiters' /\ SlotsAddUp'
    BY <2>1 DEF Base, Waiters, SlotsAddUp, SlotHolders
  <2> QED
    BY <2>2, <2>3, <2>4, Zenon DEF Base
<1> QED
  BY <1>1, <1>2, <1>3, <1>4, <1>5, <1>6, <1>7, <1>8, Zenon DEF Next

\* Types, queue and slot accounting hold in every reachable state.
THEOREM BaseInvariant == Spec => []Base
<1> QED
  BY BaseInit, BaseStep, PTL DEF Spec

\* Every value stays in the range TypeOK gives it, whatever exceptions, faults
\* and crashes occur.
THEOREM TypeCorrect == Spec => []TypeOK
<1>1. Base => TypeOK
  BY DEF Base
<1> QED
  BY <1>1, BaseInvariant, PTL

\* The gate never lends more than MAX_CONCURRENT_JOBS slots and never loses one.
THEOREM SlotsNeverLost == Spec => []SlotsAddUp
<1>1. Base => SlotsAddUp
  BY DEF Base
<1> QED
  BY <1>1, BaseInvariant, PTL
=============================================================================
