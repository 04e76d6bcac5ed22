--------------------------- MODULE CliRunnerProofs ---------------------------
(***************************************************************************)
(* Theorems about CliRunner, for any number of calls, permits, launches,   *)
(* streams and lines.                                                      *)
(***************************************************************************)
EXTENDS CliRunner, FiniteSetTheorems, SequenceTheorems, TLAPS

-----------------------------------------------------------------------------
(* The semaphore.                                                          *)

PCs == InPool \cup {"none", "waiting", "returned", "closed"}

\* The queue of the semaphore holds calls that wait for it, each once.
Waiters ==
  /\ \A i \in 1 .. Len(queue) : pc[queue[i]] = "waiting"
  /\ \A i, k \in 1 .. Len(queue) : queue[i] = queue[k] => i = k

Pool ==
  /\ permits \in 0 .. MaxTools
  /\ queue \in Seq(Calls)
  /\ pc \in [Calls -> PCs]
  /\ outcome \in [Calls -> Results \cup {"none"}]
  /\ permits + Cardinality(Holders) = MaxTools
  /\ Waiters

LEMMA PoolTypes ==
  ASSUME Pool
  PROVE  /\ permits \in Nat /\ MaxTools \in Nat /\ Len(queue) \in Nat
         /\ IsFiniteSet(Holders) /\ Cardinality(Holders) \in Nat
         /\ \A i \in 1 .. Len(queue) : queue[i] \in Calls
<1>1. permits \in Nat /\ MaxTools \in Nat
  BY RunnerAssumption DEF Pool
<1>2. Len(queue) \in Nat /\ \A i \in 1 .. Len(queue) : queue[i] \in Calls
  BY DEF Pool
<1>3. IsFiniteSet(Holders) /\ Cardinality(Holders) \in Nat
  BY RunnerAssumption, FS_Subset, FS_CardinalityType DEF Holders
<1> QED BY <1>1, <1>2, <1>3

\* A step of a call that is not in the queue leaves the queue as it should be.
LEMMA WaitersKept ==
  ASSUME Pool, NEW r \in Calls, pc[r] # "waiting", NEW to, pc' = [pc EXCEPT ![r] = to],
         UNCHANGED queue
  PROVE  Waiters'
<1>1. \A i \in 1 .. Len(queue) : queue[i] \in Calls /\ pc[queue[i]] = "waiting"
  BY PoolTypes DEF Pool, Waiters
<1>2. \A i \in 1 .. Len(queue) : pc'[queue[i]] = "waiting"
  BY <1>1 DEF Pool
<1> QED BY <1>2 DEF Pool, Waiters

\* A call that goes on keeps its permit.
LEMMA GotoPool ==
  ASSUME Pool, NEW r \in Calls, pc[r] \in InPool, NEW to \in InPool, Goto(r, to),
         UNCHANGED queue
  PROVE  Pool'
<1>1. pc' = [pc EXCEPT ![r] = to] /\ UNCHANGED <<permits, outcome>>
  BY DEF Goto
<1>2. pc' \in [Calls -> PCs] /\ Holders' = Holders
  BY <1>1 DEF Pool, PCs, Holders
<1>3. Waiters'
  BY <1>1, WaitersKept, Zenon DEF InPool
<1> QED BY <1>1, <1>2, <1>3 DEF Pool

\* A call that returns gives its permit back.
LEMMA ReturnPool ==
  ASSUME Pool, NEW r \in Calls, pc[r] \in InPool, NEW res \in Results, Return(r, res),
         UNCHANGED queue
  PROVE  Pool'
<1>1. pc' = [pc EXCEPT ![r] = "returned"] /\ permits' = permits + 1
      /\ outcome' = [outcome EXCEPT ![r] = res]
  BY DEF Return
<1>2. pc' \in [Calls -> PCs] /\ outcome' \in [Calls -> Results \cup {"none"}]
  BY <1>1 DEF Pool, PCs
<1>3. Holders' = Holders \ {r} /\ r \in Holders
  BY <1>1 DEF Pool, Holders, InPool
<1>4. Cardinality(Holders)' = Cardinality(Holders) - 1
  BY <1>3, PoolTypes, FS_RemoveElement, Zenon
<1>5. Cardinality(Holders)' \in Nat
  <2>1. IsFiniteSet(Holders')
    BY <1>3, PoolTypes, FS_RemoveElement
  <2> QED BY <2>1, FS_CardinalityType
<1>6. permits' \in 0 .. MaxTools /\ permits' + Cardinality(Holders)' = MaxTools
  <2> DEFINE n == Cardinality(Holders)
             m == Cardinality(Holders)'
  <2>1. n \in Nat /\ m \in Nat /\ permits \in Nat /\ MaxTools \in Nat /\ permits + n = MaxTools
        /\ m = n - 1
    BY <1>4, <1>5, PoolTypes DEF Pool
  <2> SUFFICES permits' \in 0 .. MaxTools /\ permits' + m = MaxTools
    OBVIOUS
  <2> HIDE DEF n, m
  <2> QED BY <1>1, <2>1
<1>7. Waiters'
  BY <1>1, WaitersKept, Zenon DEF InPool
<1> QED BY <1>2, <1>6, <1>7 DEF Pool

\* The head of the queue takes a permit that it does not hold yet.
LEMMA AcquirePool ==
  ASSUME Pool, Acquire
  PROVE  /\ Pool' /\ Head(queue) \in Calls /\ pc[Head(queue)] = "waiting"
         /\ Cardinality(Holders) < MaxTools
<1> DEFINE r == Head(queue)
<1>1. /\ pc' = [pc EXCEPT ![r] = "prepare"] /\ permits' = permits - 1 /\ permits > 0
      /\ queue' = Tail(queue) /\ queue # <<>> /\ UNCHANGED outcome
  BY DEF Acquire
<1>2. /\ queue \in Seq(Calls) /\ Len(queue) \in Nat /\ Len(queue) > 0 /\ r = queue[1] /\ r \in Calls
      /\ queue' \in Seq(Calls) /\ Len(queue') = Len(queue) - 1
      /\ \A i \in 1 .. Len(queue') : queue'[i] = queue[i + 1]
  BY <1>1, HeadTailProperties DEF Pool
<1>3. pc[r] = "waiting"
  <2>1. 1 \in 1 .. Len(queue) /\ r = queue[1]
    BY <1>2
  <2>2. \A i \in 1 .. Len(queue) : pc[queue[i]] = "waiting"
    BY DEF Pool, Waiters
  <2> HIDE DEF r
  <2> QED BY <2>1, <2>2
<1> HIDE DEF r
<1>4. pc' \in [Calls -> PCs]
  BY <1>1, <1>2 DEF Pool, PCs, InPool
<1>5. Holders' = Holders \cup {r} /\ r \notin Holders
  BY <1>1, <1>2, <1>3 DEF Pool, Holders, InPool
<1>6. Cardinality(Holders)' = Cardinality(Holders) + 1
  BY <1>5, PoolTypes, FS_AddElement, Zenon
<1>7. permits' \in 0 .. MaxTools /\ permits' + Cardinality(Holders)' = MaxTools
      /\ Cardinality(Holders) < MaxTools
  <2> DEFINE n == Cardinality(Holders)
             m == Cardinality(Holders)'
  <2>1. n \in Nat /\ permits \in Nat /\ MaxTools \in Nat /\ permits + n = MaxTools /\ m = n + 1
    BY <1>6, PoolTypes DEF Pool
  <2> SUFFICES permits' \in 0 .. MaxTools /\ permits' + m = MaxTools /\ n < MaxTools
    OBVIOUS
  <2> HIDE DEF n, m
  <2> QED BY <1>1, <2>1
<1>8. Waiters'
  <2>1. \A i \in 1 .. Len(queue') : i + 1 \in 1 .. Len(queue) /\ i + 1 # 1
    BY <1>2
  <2>2. \A i \in 1 .. Len(queue') : queue[i + 1] # r /\ queue[i + 1] \in Calls
    BY <1>2, <2>1 DEF Pool, Waiters
  <2>3. \A i \in 1 .. Len(queue') : pc'[queue'[i]] = "waiting"
    BY <1>1, <1>2, <2>1, <2>2 DEF Pool, Waiters
  <2>4. \A i, k \in 1 .. Len(queue') : queue[i + 1] = queue[k + 1] => i = k
    BY <1>2, <2>1 DEF Pool, Waiters
  <2>5. \A i, k \in 1 .. Len(queue') : queue'[i] = queue'[k] => i = k
    BY <1>2, <2>4
  <2> QED BY <2>3, <2>5 DEF Waiters
<1> QED BY <1>1, <1>2, <1>3, <1>4, <1>7, <1>8 DEF Pool, r

\* A call that is refused, or that joins the queue.
LEMMA RunToolPool ==
  ASSUME Pool, NEW r \in Calls, RunTool(r) PROVE Pool'
<1>1. pc[r] = "none" /\ UNCHANGED permits
  BY DEF RunTool
<1>2. CASE /\ pc' = [pc EXCEPT ![r] = "returned"] /\ UNCHANGED queue
           /\ outcome' = [outcome EXCEPT ![r] = "argument"]
  <2>1. pc' \in [Calls -> PCs] /\ outcome' \in [Calls -> Results \cup {"none"}] /\ Holders' = Holders
    BY <1>1, <1>2 DEF Pool, PCs, Holders, InPool, Results
  <2>2. Waiters'
    BY <1>1, <1>2, WaitersKept, Zenon
  <2> QED BY <1>1, <1>2, <2>1, <2>2 DEF Pool
<1>3. CASE pc' = [pc EXCEPT ![r] = "waiting"] /\ queue' = Append(queue, r) /\ UNCHANGED outcome
  <2>1. pc' \in [Calls -> PCs] /\ Holders' = Holders
    BY <1>1, <1>3 DEF Pool, PCs, Holders, InPool
  <2>2. /\ queue' \in Seq(Calls) /\ Len(queue) \in Nat /\ Len(queue') = Len(queue) + 1
        /\ \A i \in 1 .. Len(queue) : queue'[i] = queue[i]
        /\ queue'[Len(queue) + 1] = r
    BY <1>3 DEF Pool
  <2>3. \A i \in 1 .. Len(queue') : i \in 1 .. Len(queue) \/ i = Len(queue) + 1
    BY <2>2
  <2>4. \A i \in 1 .. Len(queue) : queue[i] \in Calls /\ pc[queue[i]] = "waiting" /\ queue[i] # r
    BY <1>1, PoolTypes DEF Pool, Waiters
  <2>5. \A i \in 1 .. Len(queue) : pc'[queue[i]] = "waiting"
    BY <1>3, <2>4 DEF Pool
  <2>6. pc'[r] = "waiting"
    BY <1>3 DEF Pool
  <2>7. \A i \in 1 .. Len(queue') : pc'[queue'[i]] = "waiting"
    BY <2>2, <2>3, <2>5, <2>6
  <2>8. \A i, k \in 1 .. Len(queue') : queue'[i] = queue'[k] => i = k
    <3> SUFFICES ASSUME NEW i \in 1 .. Len(queue'), NEW k \in 1 .. Len(queue'), queue'[i] = queue'[k]
                 PROVE  i = k
      OBVIOUS
    <3>1. CASE i \in 1 .. Len(queue) /\ k \in 1 .. Len(queue)
      BY <2>2, <3>1 DEF Pool, Waiters
    <3>2. CASE i = Len(queue) + 1 /\ k = Len(queue) + 1
      BY <3>2
    <3> QED BY <2>2, <2>3, <2>4, <3>1, <3>2, Zenon
  <2> QED BY <1>1, <1>3, <2>1, <2>2, <2>7, <2>8 DEF Pool, Waiters
<1> QED BY <1>2, <1>3 DEF RunTool

LEMMA CloseJobPool ==
  ASSUME Pool, NEW r \in Calls, CloseJob(r) PROVE Pool'
<1>1. /\ pc[r] = "returned" /\ pc' = [pc EXCEPT ![r] = "closed"]
      /\ UNCHANGED <<permits, queue, outcome>>
  BY DEF CloseJob
<1>2. pc' \in [Calls -> PCs] /\ Holders' = Holders
  BY <1>1 DEF Pool, PCs, Holders, InPool
<1>3. Waiters'
  BY <1>1, WaitersKept, Zenon
<1> QED BY <1>1, <1>2, <1>3 DEF Pool

\* Every step of a call, and the steps of tools and drains.
LEMMA StepPool ==
  ASSUME Pool, NEW r \in Calls,
         CallStep(r) \/ Timeout(r) \/ TimeoutRaises(r)
  PROVE  Pool'
<1>1. CASE Prepare(r)
  BY <1>1, GotoPool, ReturnPool DEF Prepare, InPool, Results
<1>2. CASE Launch(r)
  BY <1>2, GotoPool, ReturnPool DEF Launch, InPool, Results
<1>3. CASE LaunchPause(r) \/ Collected(r) \/ Timeout(r) \/ Kill(r)
  BY <1>3, GotoPool DEF LaunchPause, Collected, Timeout, Kill, InPool
<1>4. CASE CollectRaises(r) \/ TimeoutRaises(r)
  <2>1. PICK res \in DrainErrors : Return(r, res)
    BY <1>4 DEF CollectRaises, TimeoutRaises
  <2>2. res \in Results /\ pc[r] \in InPool /\ UNCHANGED queue
    BY <1>4 DEF CollectRaises, TimeoutRaises, DrainErrors, Results, InPool
  <2> QED BY <2>1, <2>2, ReturnPool
<1>5. CASE WriteSystemMarker(r)
  BY <1>5, ReturnPool DEF WriteSystemMarker, InPool, Results
<1>6. CASE Finish(r)
  BY <1>6, ReturnPool, Zenon DEF Finish, InPool, Results
<1>7. CASE CloseJob(r)
  BY <1>7, CloseJobPool
<1> QED BY <1>1, <1>2, <1>3, <1>4, <1>5, <1>6, <1>7 DEF CallStep

LEMMA ToolPool ==
  ASSUME Pool, UNCHANGED <<permits, queue, pc, outcome>> PROVE Pool'
BY DEF Pool, Waiters, Holders

-----------------------------------------------------------------------------
(* The pipes.                                                              *)

Drains == {"none", "reading", "done", "failed", "cancelled"}

Pipes ==
  /\ tries \in [Calls -> 0 .. MaxLaunches]
  /\ proc \in [Calls -> {"none", "running", "exit 0", "exit 1", "killed"}]
  /\ printed \in [Calls -> [Streams -> 0 .. MaxPrints]]
  /\ closed \in [Calls -> [Streams -> BOOLEAN]]
  /\ taken \in [Calls -> [Streams -> 0 .. MaxPrints]]
  /\ drain \in [Calls -> [Streams -> Drains]]
  /\ rows \in [Calls -> [Streams -> Seq(Nat)]]
  /\ marker \in [Calls -> BOOLEAN]
  /\ broken \in [Calls -> BOOLEAN]
  /\ faults \in 0 .. MaxFaults

LEMMA TypeParts == Pool /\ Pipes => TypeOK
BY Zenon DEF Pool, Pipes, TypeOK, PCs, Drains

\* A call that has returned while its process or a drain went on.
Loose(r) ==
  pc[r] \in {"returned", "closed"} /\ outcome[r] \in DrainErrors /\ DrainFailed(r)

\* What the program counter of a call says about its process ...
Process(r) ==
  /\ pc[r] \in {"returned", "closed"} \/ outcome[r] = "none"
  /\ pc[r] \in {"none", "waiting", "prepare"} => tries[r] = 0
  /\ pc[r] \in {"launch", "pause"} => tries[r] < MaxLaunches
  /\ pc[r] \in {"none", "waiting", "prepare", "launch", "pause"} => proc[r] = "none"
  /\ proc[r] = "running" => pc[r] \in {"collect", "kill"} \/ Loose(r)
  /\ marker[r] => pc[r] \in {"returned", "closed"} /\ proc[r] # "running"
  /\ outcome[r] = "launch" => proc[r] = "none" /\ tries[r] \in {0, MaxLaunches}
  /\ outcome[r] = "ok" => proc[r] = "exit 0"

\* ... and about a drain.
Drain(r, s) ==
  /\ proc[r] = "none" => drain[r][s] = "none"
  /\ pc[r] \in {"kill", "marker"} => drain[r][s] \notin {"reading", "failed"}
  /\ pc[r] = "finish" => drain[r][s] = "done"
  /\ pc[r] \in {"returned", "closed"} /\ drain[r][s] = "reading" => Loose(r)
  /\ marker[r] => drain[r][s] # "reading"
  /\ outcome[r] = "ok" => drain[r][s] = "done"

Call(r) == Process(r) /\ \A s \in Streams : Drain(r, s)

\* The rows of a stream: LinesInOrder, and what the drain has read was printed.
Pipe(r, s) ==
  LET have == Len(rows[r][s])
  IN /\ taken[r][s] <= printed[r][s]
     /\ \A i \in 1 .. have : rows[r][s][i] = i
     /\ drain[r][s] \in {"none", "reading", "cancelled"} => have = taken[r][s] \div 2
     /\ drain[r][s] = "done" => Ended(r, s) /\ have = (printed[r][s] + 1) \div 2
     /\ drain[r][s] = "failed" => have <= (printed[r][s] + 1) \div 2

\* The inductive invariant.
Inv ==
  /\ Pool /\ Pipes
  /\ \A r \in Calls : Call(r) /\ \A s \in Streams : Pipe(r, s)

LEMMA InitInv == Init => Inv
<1> SUFFICES ASSUME Init PROVE Inv
  OBVIOUS
<1>1. Pool
  <2>1. Holders = {}
    BY DEF Init, Holders, InPool
  <2>2. Cardinality(Holders) = 0
    BY <2>1, FS_EmptySet
  <2>3. queue = <<>> /\ Len(queue) = 0 /\ queue \in Seq(Calls)
    BY DEF Init
  <2> QED BY <2>2, <2>3, RunnerAssumption DEF Init, Pool, Waiters, PCs
<1>2. Pipes
  BY RunnerAssumption DEF Init, Pipes, Drains
<1>3. ASSUME NEW r \in Calls PROVE Call(r)
  BY RunnerAssumption DEF Init, Call, Process, Drain
<1>4. ASSUME NEW r \in Calls, NEW s \in Streams PROVE Pipe(r, s)
  BY DEF Init, Pipe
<1> QED BY <1>1, <1>2, <1>3, <1>4 DEF Inv

\* Lines are counted in halves.
LEMMA Halves ==
  ASSUME NEW n \in Nat
  PROVE  /\ n \div 2 \in Nat /\ (n + 1) \div 2 \in Nat
         /\ n \div 2 <= (n + 1) \div 2 /\ (n + 1) \div 2 <= (n + 1 + 1) \div 2
         /\ (n + 1) \div 2 = IF n % 2 = 1 THEN n \div 2 + 1 ELSE n \div 2
OBVIOUS

LEMMA HalvesGrow ==
  ASSUME NEW n \in Nat, NEW m \in Nat, n <= m
  PROVE  n \div 2 <= m \div 2 /\ n \div 2 \in Nat /\ m \div 2 \in Nat
OBVIOUS

\* Counters and rows of one stream.
LEMMA Counts ==
  ASSUME Pipes, NEW r \in Calls, NEW s \in Streams
  PROVE  /\ printed[r][s] \in Nat /\ printed[r][s] <= MaxPrints
         /\ taken[r][s] \in Nat /\ taken[r][s] <= MaxPrints
         /\ rows[r][s] \in Seq(Nat) /\ Len(rows[r][s]) \in Nat
<1>1. printed[r][s] \in 0 .. MaxPrints /\ taken[r][s] \in 0 .. MaxPrints
  BY Zenon DEF Pipes
<1>2. \A n \in 0 .. MaxPrints : n \in Nat /\ n <= MaxPrints
  BY RunnerAssumption
<1>3. rows[r][s] \in Seq(Nat)
  BY Zenon DEF Pipes
<1>4. Len(rows[r][s]) \in Nat
  BY <1>3
<1> QED BY <1>1, <1>2, <1>3, <1>4, Zenon

\* A count of one stream is replaced.
LEMMA Replace ==
  ASSUME NEW S, NEW f \in [Calls -> [Streams -> S]], NEW r \in Calls, NEW s \in Streams, NEW n \in S,
         NEW g, g = [f EXCEPT ![r][s] = n]
  PROVE  /\ g \in [Calls -> [Streams -> S]] /\ g[r][s] = n
         /\ \A t \in Streams : t # s => g[r][t] = f[r][t]
         /\ \A q \in Calls : q # r => g[q] = f[q]
OBVIOUS

\* Nothing of a call has changed.
Same(q) ==
  /\ pc'[q] = pc[q] /\ outcome'[q] = outcome[q] /\ tries'[q] = tries[q] /\ proc'[q] = proc[q]
  /\ printed'[q] = printed[q] /\ closed'[q] = closed[q] /\ taken'[q] = taken[q] /\ drain'[q] = drain[q]
  /\ rows'[q] = rows[q] /\ (marker'[q] <=> marker[q])

\* A step of one call: what remains to be shown is about this call.
LEMMA OneCall ==
  ASSUME Inv, Pool', Pipes', NEW r \in Calls, \A q \in Calls : q # r => Same(q),
         Call(r)', \A s \in Streams : Pipe(r, s)'
  PROVE  Inv'
<1>1. ASSUME NEW q \in Calls, q # r PROVE Call(q)'
  <2>1. Call(q) /\ Same(q)
    BY <1>1, Zenon DEF Inv
  <2>2. Loose(q)' <=> Loose(q)
    BY <2>1 DEF Same, Loose, DrainFailed
  <2>3. Process(q)'
    BY <2>1, <2>2, ZenonT(30) DEF Call, Process, Same
  <2>4. ASSUME NEW s \in Streams PROVE Drain(q, s)'
    <3>1. Drain(q, s)
      BY <2>1, Zenon DEF Call
    <3>2. /\ pc'[q] = pc[q] /\ outcome'[q] = outcome[q] /\ proc'[q] = proc[q]
          /\ drain'[q][s] = drain[q][s] /\ (marker'[q] <=> marker[q])
      BY <2>1, Zenon DEF Same
    <3> QED BY <2>2, <3>1, <3>2, ZenonT(30) DEF Drain
  <2> QED BY <2>3, <2>4 DEF Call
<1>2. ASSUME NEW q \in Calls, q # r, NEW s \in Streams PROVE Pipe(q, s)'
  <2>1. Pipe(q, s) /\ Same(q)
    BY <1>2 DEF Inv
  <2> QED BY <2>1 DEF Pipe, Ended, Same
<1> QED BY <1>1, <1>2 DEF Inv

\* The rows of a call stay as they are when its drains are left alone, or begin
\* or cease to read.
LEMMA PipesKept ==
  ASSUME Inv, NEW r \in Calls,
         printed'[r] = printed[r], closed'[r] = closed[r], taken'[r] = taken[r], rows'[r] = rows[r],
         proc'[r] = "running" => proc[r] \in {"running", "none"},
         \A s \in Streams : \/ drain'[r][s] = drain[r][s]
                            \/ /\ drain[r][s] \in {"none", "reading"}
                               /\ drain'[r][s] \in {"reading", "cancelled"}
  PROVE  \A s \in Streams : Pipe(r, s)'
<1> SUFFICES ASSUME NEW s \in Streams PROVE Pipe(r, s)'
  OBVIOUS
<1>1. Pipe(r, s) /\ (proc[r] = "none" => drain[r][s] = "none")
  BY Zenon DEF Inv, Call, Drain
<1>2. CASE drain'[r][s] = drain[r][s]
  BY <1>1, <1>2, Zenon DEF Pipe, Ended
<1>3. CASE drain[r][s] \in {"none", "reading"} /\ drain'[r][s] \in {"reading", "cancelled"}
  BY <1>1, <1>3, Zenon DEF Pipe
<1> QED BY <1>2, <1>3

\* Steps that leave the process and its pipes alone.
LEMMA QuietInv ==
  ASSUME Inv, Pool', NEW r \in Calls, UNCHANGED <<tries, proc, printed, closed, taken, drain, rows, marker, faults>>,
         broken' = broken \/ broken' = [broken EXCEPT ![r] = FALSE],
         \A q \in Calls : q # r => pc'[q] = pc[q] /\ outcome'[q] = outcome[q],
         Call(r)'
  PROVE  Inv'
<1>1. Pipes'
  BY Zenon DEF Inv, Pipes
<1>2. \A q \in Calls : q # r => Same(q)
  BY DEF Same
<1>3. \A s \in Streams : Pipe(r, s)'
  BY PipesKept, Zenon
<1> QED BY <1>1, <1>2, <1>3, OneCall, Zenon

\* The way into the pool, and what does not touch the process.
LEMMA EnterInv ==
  ASSUME Inv, NEW r \in Calls, RunTool(r) \/ (Acquire /\ r = Head(queue)) \/ Prepare(r)
  PROVE  Inv'
<1>1. Pool'
  BY RunToolPool, AcquirePool, StepPool, Zenon DEF Inv, CallStep
<1>2. UNCHANGED <<tries, proc, pipeVars, marker, faults>>
  BY DEF RunTool, Acquire, Prepare
<1>3. pc \in [Calls -> PCs] /\ outcome \in [Calls -> Results \cup {"none"}] /\ Call(r)
  BY DEF Inv, Pool
<1>4. /\ pc[r] \in {"none", "waiting", "prepare"}
      /\ \/ pc'[r] \in {"waiting", "prepare", "launch"} /\ outcome'[r] = outcome[r]
         \/ pc'[r] = "returned" /\ outcome'[r] \in {"launch", "argument", "other"}
      /\ \A q \in Calls : q # r => pc'[q] = pc[q] /\ outcome'[q] = outcome[q]
  <2>1. CASE RunTool(r)
    BY <1>3, <2>1, Zenon DEF RunTool
  <2>2. CASE Acquire /\ r = Head(queue)
    <3>1. pc[r] = "waiting"
      BY <2>2, AcquirePool, Zenon DEF Inv
    <3> QED BY <1>3, <2>2, <3>1, Zenon DEF Acquire
  <2>3. CASE Prepare(r)
    BY <1>3, <2>3, Zenon DEF Prepare, Goto, Return
  <2> QED BY <2>1, <2>2, <2>3, ZenonT(30)
<1>5. /\ tries[r] = 0 /\ proc[r] = "none" /\ \A s \in Streams : drain[r][s] = "none"
      /\ ~ marker[r] /\ outcome[r] = "none"
  BY <1>3, <1>4, ZenonT(30) DEF Call, Process, Drain
<1>6. Call(r)'
  <2>1. 0 < MaxLaunches
    BY RunnerAssumption
  <2> QED BY <1>2, <1>4, <1>5, <2>1, ZenonT(30) DEF Call, Process, Drain, pipeVars
<1> QED BY <1>1, <1>2, <1>4, <1>6, QuietInv, ZenonT(30) DEF pipeVars

\* The launch.
LEMMA LaunchInv ==
  ASSUME Inv, NEW r \in Calls, Launch(r) \/ LaunchPause(r)
  PROVE  Inv'
<1>1. Pool'
  BY StepPool DEF Inv, CallStep
<1>2. /\ pc \in [Calls -> PCs] /\ outcome \in [Calls -> Results \cup {"none"}] /\ Call(r)
      /\ tries \in [Calls -> 0 .. MaxLaunches] /\ MaxLaunches \in Nat
  BY RunnerAssumption, ZenonT(30) DEF Inv, Pool, Pipes
<1>3. /\ pc[r] \in {"launch", "pause"} /\ tries[r] < MaxLaunches /\ proc[r] = "none"
      /\ \A s \in Streams : drain[r][s] = "none"
      /\ ~ marker[r] /\ outcome[r] = "none"
  BY <1>2, Zenon DEF Call, Process, Drain, Launch, LaunchPause
<1>4. CASE LaunchPause(r)
  <2>1. /\ pc'[r] = "launch" /\ UNCHANGED <<outcome, tries, proc, pipeVars, marker, faults>>
        /\ \A q \in Calls : q # r => pc'[q] = pc[q]
    BY <1>2, <1>4, Zenon DEF LaunchPause, Goto
  <2>2. Call(r)'
    BY <1>3, <2>1, Zenon DEF Call, Process, Drain, pipeVars
  <2> QED BY <1>1, <2>1, <2>2, QuietInv, ZenonT(30) DEF pipeVars
<1>5. CASE Launch(r)
  <2>1. /\ tries' = [tries EXCEPT ![r] = @ + 1] /\ tries'[r] = tries[r] + 1
        /\ tries' \in [Calls -> 0 .. MaxLaunches]
        /\ UNCHANGED <<printed, closed, taken, rows, marker, broken, faults>>
    BY <1>2, <1>3, <1>5 DEF Launch
  <2>2. CASE /\ Goto(r, "collect") /\ proc' = [proc EXCEPT ![r] = "running"]
             /\ drain' = [drain EXCEPT ![r] = [s \in Streams |-> "reading"]]
    <3>1. /\ pc'[r] = "collect" /\ outcome' = outcome /\ proc'[r] = "running"
          /\ \A s \in Streams : drain'[r][s] = "reading"
      BY <1>2, <2>2, ZenonT(30) DEF Goto, Inv, Pipes
    <3>2. Pipes'
      BY <2>1, <2>2, ZenonT(30) DEF Inv, Pipes, Drains
    <3>3. \A q \in Calls : q # r => Same(q)
      BY <1>2, <2>1, <2>2, ZenonT(30) DEF Goto, Inv, Pipes, Same
    <3>4. Call(r)'
      BY <1>3, <2>1, <3>1, ZenonT(30) DEF Call, Process, Drain
    <3>5. \A s \in Streams : Pipe(r, s)'
      BY <1>3, <2>1, <3>1, PipesKept, ZenonT(30)
    <3> QED BY <1>1, <3>2, <3>3, <3>4, <3>5, OneCall, ZenonT(30)
  <2>3. CASE /\ UNCHANGED <<proc, drain>>
             /\ \/ ~ GivesUp(r) /\ Goto(r, "pause")
                \/ GivesUp(r) /\ Return(r, "launch")
                \/ Return(r, "other")
    <3>1. /\ \/ pc'[r] = "pause" /\ outcome'[r] = outcome[r] /\ tries'[r] < MaxLaunches
             \/ pc'[r] = "returned" /\ outcome'[r] = "launch" /\ tries'[r] = MaxLaunches
             \/ pc'[r] = "returned" /\ outcome'[r] = "other"
          /\ \A q \in Calls : q # r => pc'[q] = pc[q] /\ outcome'[q] = outcome[q]
      BY <1>2, <1>3, <2>1, <2>3 DEF Goto, Return, GivesUp
    <3>2. Pipes'
      BY <2>1, <2>3, ZenonT(30) DEF Inv, Pipes
    <3>3. \A q \in Calls : q # r => Same(q)
      BY <1>2, <2>1, <2>3, <3>1, Zenon DEF Same
    <3>4. Call(r)'
      BY <1>3, <2>1, <2>3, <3>1, ZenonT(30) DEF Call, Process, Drain
    <3>5. \A s \in Streams : Pipe(r, s)'
      BY <2>1, <2>3, PipesKept
    <3> QED BY <1>1, <3>2, <3>3, <3>4, <3>5, OneCall, ZenonT(30)
  <2>4. \/ Goto(r, "collect") /\ proc' = [proc EXCEPT ![r] = "running"] /\ StartDrains(r)
        \/ ~ GivesUp(r) /\ Goto(r, "pause") /\ UNCHANGED <<proc, drain>>
        \/ GivesUp(r) /\ Return(r, "launch") /\ UNCHANGED <<proc, drain>>
        \/ Return(r, "other") /\ UNCHANGED <<proc, drain>>
    BY <1>5, Zenon DEF Launch
  <2>5. CASE Goto(r, "collect") /\ proc' = [proc EXCEPT ![r] = "running"] /\ StartDrains(r)
    BY <2>2, <2>5 DEF StartDrains
  <2>6. CASE ~ GivesUp(r) /\ Goto(r, "pause") /\ UNCHANGED <<proc, drain>>
    BY <2>3, <2>6, Zenon
  <2>7. CASE GivesUp(r) /\ Return(r, "launch") /\ UNCHANGED <<proc, drain>>
    BY <2>3, <2>7
  <2>8. CASE Return(r, "other") /\ UNCHANGED <<proc, drain>>
    BY <2>3, <2>8
  <2> QED BY <2>4, <2>5, <2>6, <2>7, <2>8, ZenonT(30)
<1> QED BY <1>4, <1>5

\* The end of a call whose drains are through, or of its wait for them.
LEMMA EndsInv ==
  ASSUME Inv, NEW r \in Calls, Collected(r) \/ CollectRaises(r) \/ Finish(r) \/ CloseJob(r)
  PROVE  Inv'
<1>1. Pool'
  BY StepPool DEF Inv, CallStep
<1>2. /\ pc \in [Calls -> PCs] /\ outcome \in [Calls -> Results \cup {"none"}] /\ Call(r)
      /\ broken \in [Calls -> BOOLEAN]
  BY ZenonT(30) DEF Inv, Pool, Pipes
<1>3. /\ UNCHANGED <<tries, proc, printed, closed, taken, drain, rows, marker, faults>>
      /\ broken' = broken \/ broken' = [broken EXCEPT ![r] = FALSE]
      /\ \A q \in Calls : q # r => pc'[q] = pc[q] /\ outcome'[q] = outcome[q]
  BY <1>2, ZenonT(30) DEF Collected, CollectRaises, Finish, CloseJob, Goto, Return, Close, pipeVars
<1>4. CASE Collected(r)
  <2>1. /\ pc[r] = "collect" /\ pc'[r] = "finish" /\ outcome'[r] = outcome[r] /\ proc[r] # "running"
        /\ \A s \in Streams : drain[r][s] = "done"
    BY <1>2, <1>4, Zenon DEF Collected, Goto
  <2>2. Call(r)'
    BY <1>2, <1>3, <2>1, ZenonT(30) DEF Call, Process, Drain
  <2> QED BY <1>1, <1>3, <2>2, QuietInv, Zenon
<1>5. CASE CollectRaises(r)
  <2>1. /\ pc[r] = "collect" /\ pc'[r] = "returned" /\ outcome'[r] \in DrainErrors
        /\ DrainFailed(r)
    BY <1>2, <1>5, Zenon DEF CollectRaises, Return
  <2>2. Loose(r)' /\ outcome'[r] \notin {"none", "launch", "ok"}
    BY <1>3, <2>1, Zenon DEF Loose, DrainFailed, DrainErrors
  <2>3. Call(r)'
    BY <1>2, <1>3, <2>1, <2>2, ZenonT(30) DEF Call, Process, Drain
  <2> QED BY <1>1, <1>3, <2>3, QuietInv
<1>6. CASE Finish(r)
  <2>1. /\ pc[r] = "finish" /\ pc'[r] = "returned" /\ outcome'[r] \in {"exit", "ok", "denied", "other"}
        /\ outcome'[r] = "ok" => proc[r] = "exit 0"
    BY <1>2, <1>6, ZenonT(30) DEF Finish, Return
  <2>2. proc[r] # "running" /\ ~ marker[r] /\ \A s \in Streams : drain[r][s] = "done"
    BY <1>2, <2>1, ZenonT(30) DEF Call, Process, Drain, Loose
  <2>3. Call(r)'
    BY <1>2, <1>3, <2>1, <2>2, ZenonT(30) DEF Call, Process, Drain
  <2> QED BY <1>1, <1>3, <2>3, QuietInv
<1>7. CASE CloseJob(r)
  <2>1. pc[r] = "returned" /\ pc'[r] = "closed" /\ outcome'[r] = outcome[r]
    BY <1>2, <1>7, Zenon DEF CloseJob
  <2>2. Loose(r) => Loose(r)'
    BY <1>3, <2>1, Zenon DEF Loose, DrainFailed
  <2>3. Call(r)'
    BY <1>2, <1>3, <2>1, <2>2, ZenonT(30) DEF Call, Process, Drain
  <2> QED BY <1>1, <1>3, <2>3, QuietInv
<1> QED BY <1>4, <1>5, <1>6, <1>7, Zenon

\* The deadline: the drains are cancelled ...
LEMMA TimeoutInv ==
  ASSUME Inv, NEW r \in Calls, Timeout(r) \/ TimeoutRaises(r)
  PROVE  Inv'
<1>1. Pool'
  BY StepPool DEF Inv
<1>2. /\ pc \in [Calls -> PCs] /\ outcome \in [Calls -> Results \cup {"none"}] /\ Call(r)
      /\ drain \in [Calls -> [Streams -> Drains]] /\ broken \in [Calls -> BOOLEAN]
  BY Zenon DEF Inv, Pool, Pipes
<1>3. /\ UNCHANGED <<tries, proc, printed, closed, taken, rows, marker, faults>>
      /\ drain' = [drain EXCEPT ![r] = Cancelled(r)]
      /\ broken' = broken \/ broken' = [broken EXCEPT ![r] = FALSE]
      /\ \A q \in Calls : q # r => pc'[q] = pc[q] /\ outcome'[q] = outcome[q]
  BY <1>2 DEF Timeout, TimeoutRaises, Goto, Return, Close
<1>4. Cancelled(r) \in [Streams -> Drains]
  BY <1>2, Zenon DEF Cancelled, Drains
<1>5. Pipes'
  <2>1. drain' \in [Calls -> [Streams -> Drains]]
    BY <1>2, <1>3, <1>4, Zenon
  <2>2. broken' \in [Calls -> BOOLEAN]
    BY <1>2, <1>3, ZenonT(30)
  <2> QED BY <1>3, <2>1, <2>2, ZenonT(30) DEF Inv, Pipes
<1>6. \A q \in Calls : q # r => Same(q)
  BY <1>2, <1>3 DEF Same
<1>7. \A s \in Streams : drain'[r][s] = IF drain[r][s] = "reading" THEN "cancelled" ELSE drain[r][s]
  BY <1>2, <1>3 DEF Cancelled
<1>8. \A s \in Streams : Pipe(r, s)'
  BY <1>3, <1>7, PipesKept, Zenon
<1>9. Call(r)'
  <2>1. CASE Timeout(r)
    <3>1. pc[r] = "collect" /\ pc'[r] = "kill" /\ outcome'[r] = outcome[r] /\ ~ DrainFailed(r)
      BY <1>2, <2>1, Zenon DEF Timeout, Goto
    <3>2. Process(r)'
      BY <1>2, <1>3, <3>1, Zenon DEF Call, Process
    <3>3. ASSUME NEW s \in Streams PROVE Drain(r, s)'
      <4>1. drain[r][s] # "failed" /\ Drain(r, s) /\ Process(r)
        BY <1>2, <3>1, Zenon DEF DrainFailed, Call
      <4>2. ~ marker[r] /\ outcome[r] = "none" /\ (proc[r] = "none" => drain[r][s] = "none")
        BY <3>1, <4>1, ZenonT(30) DEF Drain, Process
      <4>3. drain'[r][s] \notin {"reading", "failed"} /\ (proc[r] = "none" => drain'[r][s] = "none")
        BY <1>7, <4>1, <4>2, Zenon
      <4> QED BY <1>3, <3>1, <4>2, <4>3, ZenonT(30) DEF Drain
    <3> QED BY <3>2, <3>3, Zenon DEF Call
  <2>2. CASE TimeoutRaises(r)
    <3>1. /\ pc[r] = "collect" /\ pc'[r] = "returned" /\ outcome'[r] \in DrainErrors
          /\ DrainFailed(r)
      BY <1>2, <2>2, Zenon DEF TimeoutRaises, Return
    <3>2. Loose(r)' /\ outcome'[r] \notin {"none", "launch", "ok"}
      BY <1>7, <3>1, Zenon DEF Loose, DrainFailed, DrainErrors
    <3>3. Process(r)'
      BY <1>2, <1>3, <3>1, <3>2, ZenonT(30) DEF Call, Process
    <3>4. ASSUME NEW s \in Streams PROVE Drain(r, s)'
      <4>1. Drain(r, s) /\ Process(r)
        BY <1>2 DEF Call
      <4> QED BY <1>3, <1>7, <3>1, <3>2, <4>1, ZenonT(30) DEF Drain, Process
    <3> QED BY <3>3, <3>4 DEF Call
  <2> QED BY <2>1, <2>2
<1> QED BY <1>1, <1>5, <1>6, <1>8, <1>9, OneCall, ZenonT(30)

\* ... and the process is killed before the marker is written.
LEMMA KillInv ==
  ASSUME Inv, NEW r \in Calls, Kill(r) PROVE Inv'
<1>1. Pool'
  BY StepPool DEF Inv, CallStep
<1>2. /\ pc \in [Calls -> PCs] /\ Call(r)
      /\ proc \in [Calls -> {"none", "running", "exit 0", "exit 1", "killed"}]
  BY Zenon DEF Inv, Pool, Pipes
<1>3. /\ pc[r] = "kill" /\ pc'[r] = "marker" /\ UNCHANGED <<outcome, tries, pipeVars, marker, faults>>
      /\ proc' = [proc EXCEPT ![r] = IF @ = "running" THEN "killed" ELSE @]
      /\ proc'[r] # "running" /\ (proc'[r] = "none" => proc[r] = "none")
      /\ proc' \in [Calls -> {"none", "running", "exit 0", "exit 1", "killed"}]
      /\ \A q \in Calls : q # r => pc'[q] = pc[q] /\ proc'[q] = proc[q]
  BY <1>2, ZenonT(30) DEF Kill, Goto
<1>4. Pipes'
  BY <1>3, ZenonT(30) DEF Inv, Pipes, pipeVars
<1>5. \A q \in Calls : q # r => Same(q)
  BY <1>3, ZenonT(30) DEF Same, pipeVars
<1>6. Call(r)'
  BY <1>2, <1>3, ZenonT(30) DEF Call, Process, Drain, pipeVars
<1>7. \A s \in Streams : Pipe(r, s)'
  BY <1>3, PipesKept, ZenonT(30) DEF pipeVars
<1> QED BY <1>1, <1>4, <1>5, <1>6, <1>7, OneCall, ZenonT(30)

LEMMA MarkerInv ==
  ASSUME Inv, NEW r \in Calls, WriteSystemMarker(r) PROVE Inv'
<1>1. Pool'
  BY StepPool DEF Inv, CallStep
<1>2. /\ pc \in [Calls -> PCs] /\ outcome \in [Calls -> Results \cup {"none"}] /\ Call(r)
      /\ marker \in [Calls -> BOOLEAN] /\ broken \in [Calls -> BOOLEAN] /\ faults \in 0 .. MaxFaults
  BY Zenon DEF Inv, Pool, Pipes
<1>3. /\ pc[r] = "marker" /\ pc'[r] = "returned" /\ outcome'[r] \in {"timeout", "database"}
      /\ UNCHANGED <<tries, proc, printed, closed, taken, drain, rows>>
      /\ \A q \in Calls : q # r => pc'[q] = pc[q] /\ outcome'[q] = outcome[q]
  BY <1>2 DEF WriteSystemMarker, Return
<1>4. marker' \in {marker, [marker EXCEPT ![r] = TRUE]} /\ broken' = [broken EXCEPT ![r] = FALSE]
      /\ (UNCHANGED faults \/ Fault)
  BY Zenon DEF WriteSystemMarker, Close
<1>5. Pipes'
  <2>1. marker' \in [Calls -> BOOLEAN]
    BY <1>2, <1>4, Zenon
  <2>2. broken' \in [Calls -> BOOLEAN]
    BY <1>2, <1>4
  <2>3. faults' \in 0 .. MaxFaults
    BY <1>2, <1>4, RunnerAssumption DEF Fault
  <2> QED BY <1>3, <2>1, <2>2, <2>3, ZenonT(30) DEF Inv, Pipes
<1>6. \A q \in Calls : q # r => Same(q)
  <2>1. \A q \in Calls : q # r => (marker'[q] <=> marker[q])
    BY <1>2, <1>4
  <2> QED BY <1>3, <2>1 DEF Same
<1>7. Call(r)'
  <2>1. Process(r) /\ \A s \in Streams : Drain(r, s) /\ drain[r][s] \notin {"reading", "failed"}
    BY <1>2, <1>3, Zenon DEF Call, Drain
  <2>2. proc[r] # "running"
    BY <1>3, <2>1, ZenonT(30) DEF Process, Loose
  <2>3. Process(r)'
    BY <1>3, <2>1, <2>2, ZenonT(30) DEF Process
  <2>4. ASSUME NEW s \in Streams PROVE Drain(r, s)'
    BY <1>3, <2>1, Zenon DEF Drain
  <2> QED BY <2>3, <2>4, Zenon DEF Call
<1>8. \A s \in Streams : Pipe(r, s)'
  BY <1>3, PipesKept
<1> QED BY <1>1, <1>5, <1>6, <1>7, <1>8, OneCall

\* The tool prints, or exits.
LEMMA ToolInv ==
  ASSUME Inv, NEW r \in Calls, Exit(r) \/ \E s \in Streams : Emit(r, s) PROVE Inv'
<1>1. Pool' /\ UNCHANGED <<permits, queue, pc, outcome, tries, closed, taken, drain, rows, broken, marker, faults>>
  BY ToolPool, ZenonT(30) DEF Inv, Exit, Emit, pipeVars
<1>2. /\ Call(r) /\ proc[r] = "running"
      /\ proc \in [Calls -> {"none", "running", "exit 0", "exit 1", "killed"}]
      /\ printed \in [Calls -> [Streams -> 0 .. MaxPrints]]
      /\ taken \in [Calls -> [Streams -> 0 .. MaxPrints]] /\ MaxPrints \in Nat
  BY RunnerAssumption, ZenonT(30) DEF Inv, Pipes, Exit, Emit
<1>3. Loose(r)' <=> Loose(r)
  BY <1>1, Zenon DEF Loose, DrainFailed
<1>4. CASE Exit(r)
  <2>1. /\ proc' \in [Calls -> {"none", "running", "exit 0", "exit 1", "killed"}]
        /\ proc'[r] \in {"exit 0", "exit 1"} /\ printed' = printed
        /\ \A q \in Calls : q # r => proc'[q] = proc[q]
    BY <1>2, <1>4, ZenonT(30) DEF Exit, pipeVars
  <2>2. Pipes'
    BY <1>1, <2>1, ZenonT(30) DEF Inv, Pipes
  <2>3. \A q \in Calls : q # r => Same(q)
    BY <1>1, <2>1, ZenonT(30) DEF Same
  <2>4. Call(r)'
    BY <1>1, <1>2, <1>3, <2>1, ZenonT(30) DEF Call, Process, Drain
  <2>5. \A s \in Streams : Pipe(r, s)'
    BY <1>1, <2>1, PipesKept, ZenonT(30)
  <2> QED BY <1>1, <2>2, <2>3, <2>4, <2>5, OneCall
<1>5. ASSUME NEW s \in Streams, Emit(r, s) PROVE Inv'
  <2>1. /\ proc' = proc /\ printed[r][s] \in Nat /\ printed[r][s] < MaxPrints /\ ~ closed[r][s]
        /\ printed' = [printed EXCEPT ![r][s] = @ + 1]
    BY <1>5, Counts, Zenon DEF Emit, Inv
  <2>2. /\ printed' \in [Calls -> [Streams -> 0 .. MaxPrints]]
        /\ printed'[r][s] = printed[r][s] + 1
        /\ \A t \in Streams : t # s => printed'[r][t] = printed[r][t]
        /\ \A q \in Calls : q # r => printed'[q] = printed[q]
    <3> DEFINE n == printed[r][s] + 1
               S == 0 .. MaxPrints
    <3>1. n \in S
      BY <2>1, RunnerAssumption
    <3>2. printed' = [printed EXCEPT ![r][s] = n]
      BY <2>1
    <3>3. printed \in [Calls -> [Streams -> S]]
      BY <1>2, ZenonT(30)
    <3> SUFFICES /\ printed' \in [Calls -> [Streams -> S]] /\ printed'[r][s] = n
                 /\ \A t \in Streams : t # s => printed'[r][t] = printed[r][t]
                 /\ \A q \in Calls : q # r => printed'[q] = printed[q]
      BY Zenon
    <3> HIDE DEF n, S
    <3> QED BY <3>1, <3>2, <3>3, Replace
  <2>3. Pipes'
    BY <1>1, <2>1, <2>2, ZenonT(30) DEF Inv, Pipes
  <2>4. \A q \in Calls : q # r => Same(q)
    BY <1>1, <2>1, <2>2, Zenon DEF Same
  <2>5. Call(r)'
    BY <1>1, <1>2, <1>3, <2>1, ZenonT(30) DEF Call, Process, Drain
  <2>6. ASSUME NEW t \in Streams PROVE Pipe(r, t)'
    <3>1. Pipe(r, t)
      BY ZenonT(30) DEF Inv
    <3>2. CASE t # s
      BY <1>1, <2>1, <2>2, <3>1, <3>2, ZenonT(30) DEF Pipe, Ended
    <3>3. CASE t = s
      <4>1. printed[r][s] \in Nat /\ taken[r][s] \in Nat /\ Len(rows[r][s]) \in Nat
        BY Counts, Zenon DEF Inv
      <4>2. (printed[r][s] + 1) \div 2 <= (printed'[r][s] + 1) \div 2
            /\ (printed[r][s] + 1) \div 2 \in Nat /\ (printed'[r][s] + 1) \div 2 \in Nat
            /\ taken[r][s] <= printed'[r][s]
        <5> DEFINE n == printed[r][s]
        <5>1. n \in Nat /\ n + 1 \in Nat /\ taken[r][s] <= n /\ printed'[r][s] = n + 1
          BY <2>2, <3>1, <3>3, <4>1 DEF Pipe
        <5> HIDE DEF n
        <5>2. (n + 1) \div 2 <= (n + 1 + 1) \div 2 /\ (n + 1) \div 2 \in Nat /\ (n + 1 + 1) \div 2 \in Nat
          BY <5>1, Halves, Zenon
        <5>3. taken[r][s] <= n + 1
          BY <4>1, <5>1
        <5> QED BY <5>1, <5>2, <5>3, Zenon DEF n
      <4>3. drain[r][s] # "done"
        BY <1>2, <2>1, <3>1, <3>3, ZenonT(30) DEF Pipe, Ended
      <4>4. taken'[r][s] = taken[r][s] /\ rows'[r][s] = rows[r][s] /\ drain'[r][s] = drain[r][s]
        BY <1>1, Zenon
      <4>5. drain[r][s] = "failed" => Len(rows[r][s]) <= (printed'[r][s] + 1) \div 2
        <5> DEFINE before == (printed[r][s] + 1) \div 2
                   now == (printed'[r][s] + 1) \div 2
                   have == Len(rows[r][s])
        <5>1. drain[r][s] = "failed" => have <= before
          BY <3>1, <3>3, Zenon DEF Pipe
        <5>2. before <= now /\ before \in Nat /\ now \in Nat /\ have \in Nat
          BY <4>1, <4>2, Zenon
        <5> SUFFICES drain[r][s] = "failed" => have <= now
          BY Zenon
        <5> HIDE DEF before, now, have
        <5> QED BY <5>1, <5>2
      <4>6. /\ \A i \in 1 .. Len(rows[r][s]) : rows[r][s][i] = i
            /\ drain[r][s] \in {"none", "reading", "cancelled"} =>
                 Len(rows[r][s]) = taken[r][s] \div 2
        BY <3>1, <3>3, Zenon DEF Pipe
      <4> QED BY <3>3, <4>2, <4>3, <4>4, <4>5, <4>6, ZenonT(30) DEF Pipe
    <3> QED BY <3>2, <3>3
  <2> QED BY <1>1, <2>3, <2>4, <2>5, <2>6, OneCall
<1> QED BY <1>4, <1>5, Zenon

\* The tool closes a pipe.
LEMMA CloseInv ==
  ASSUME Inv, NEW r \in Calls, NEW s \in Streams, ClosePipe(r, s) PROVE Inv'
<1>1. /\ Pool'
      /\ UNCHANGED <<pc, outcome, tries, proc, printed, taken, drain, rows, broken, marker, faults>>
  BY ToolPool, ZenonT(30) DEF Inv, ClosePipe
<1>2. /\ closed' \in [Calls -> [Streams -> BOOLEAN]] /\ closed'[r][s] = TRUE
      /\ \A t \in Streams : t # s => closed'[r][t] = closed[r][t]
      /\ \A q \in Calls : q # r => closed'[q] = closed[q]
  <2>1. closed \in [Calls -> [Streams -> BOOLEAN]]
    BY Zenon DEF Inv, Pipes
  <2>2. closed' = [closed EXCEPT ![r] = [closed[r] EXCEPT ![s] = TRUE]]
    BY Zenon DEF ClosePipe
  <2>3. /\ [closed[r] EXCEPT ![s] = TRUE] \in [Streams -> BOOLEAN]
        /\ [closed[r] EXCEPT ![s] = TRUE][s] = TRUE
        /\ \A t \in Streams : t # s => [closed[r] EXCEPT ![s] = TRUE][t] = closed[r][t]
    BY <2>1, Zenon
  <2>4. closed'[r] = [closed[r] EXCEPT ![s] = TRUE]
    BY <2>1, <2>2, Zenon
  <2> QED BY <2>1, <2>2, <2>3, <2>4, ZenonT(30)
<1>3. Pipes'
  BY <1>1, <1>2, ZenonT(30) DEF Inv, Pipes
<1>4. \A q \in Calls : q # r => Same(q)
  BY <1>1, <1>2, ZenonT(30) DEF Same
<1>5. Call(r)'
  <2>1. Call(r) /\ (Loose(r)' <=> Loose(r))
    BY <1>1, Zenon DEF Inv, Loose, DrainFailed
  <2> QED BY <1>1, <2>1, ZenonT(30) DEF Call, Process, Drain
<1>6. ASSUME NEW t \in Streams PROVE Pipe(r, t)'
  <2>1. Pipe(r, t) /\ (Ended(r, t) => Ended(r, t)')
    BY <1>1, <1>2, ZenonT(30) DEF Inv, Ended
  <2> QED BY <1>1, <2>1, ZenonT(30) DEF Pipe
<1> QED BY <1>1, <1>3, <1>4, <1>5, <1>6, OneCall

-----------------------------------------------------------------------------
(* The drains.                                                             *)

\* Lines that follow those a log has are in order behind them.
LEMMA InOrder ==
  ASSUME NEW have \in Seq(Nat), NEW lines \in Seq(Nat),
         \A i \in 1 .. Len(have) : have[i] = i,
         \A i \in 1 .. Len(lines) : lines[i] = Len(have) + i
  PROVE  /\ have \o lines \in Seq(Nat)
         /\ Len(have \o lines) = Len(have) + Len(lines)
         /\ \A i \in 1 .. Len(have \o lines) : (have \o lines)[i] = i
<1> DEFINE all == have \o lines
           m == Len(have)
           k == Len(lines)
<1>1. all \in Seq(Nat) /\ Len(all) = m + k
      /\ \A i \in 1 .. m + k : all[i] = IF i <= m THEN have[i] ELSE lines[i - m]
  BY ConcatProperties
<1>2. m \in Nat /\ k \in Nat
  OBVIOUS
<1>3. (\A i \in 1 .. m : have[i] = i) /\ (\A i \in 1 .. k : lines[i] = m + i)
  OBVIOUS
<1> SUFFICES all \in Seq(Nat) /\ Len(all) = m + k /\ \A i \in 1 .. Len(all) : all[i] = i
  OBVIOUS
<1> HIDE DEF all, m, k
<1>4. ASSUME NEW i \in 1 .. m + k PROVE all[i] = i
  <2>1. CASE i <= m
    <3>1. i \in 1 .. m /\ all[i] = have[i]
      BY <1>1, <1>2, <2>1
    <3> QED BY <1>3, <3>1
  <2>2. CASE i > m
    <3>1. i - m \in 1 .. k
      BY <1>2, <2>2
    <3>2. all[i] = lines[i - m] /\ lines[i - m] = m + (i - m)
      BY <1>1, <1>2, <1>3, <2>2, <3>1
    <3>3. m + (i - m) = i
      BY <1>2
    <3> QED BY <3>2, <3>3
  <2> QED BY <1>2, <2>1, <2>2
<1> QED BY <1>1, <1>4, Zenon

\* The lines a chunk completes.
LEMMA CompleteProps ==
  ASSUME NEW a \in Nat, NEW b \in Nat, a <= b
  PROVE  /\ Complete(a, b) \in Seq(Nat)
         /\ Len(Complete(a, b)) = b \div 2 - a \div 2
         /\ \A i \in 1 .. Len(Complete(a, b)) : Complete(a, b)[i] = a \div 2 + i
<1> DEFINE m == a \div 2
           k == b \div 2 - m
<1>1. m \in Nat /\ k \in Nat
  BY HalvesGrow
<1>2. Complete(a, b) = [i \in 1 .. k |-> m + i]
  BY DEF Complete
<1> SUFFICES /\ Complete(a, b) \in Seq(Nat) /\ Len(Complete(a, b)) = k
             /\ \A i \in 1 .. Len(Complete(a, b)) : Complete(a, b)[i] = m + i
  OBVIOUS
<1> HIDE DEF m, k
<1>3. \A i \in 1 .. k : m + i \in Nat
  BY <1>1
<1> QED BY <1>1, <1>2, <1>3

\* The line that lacks its newline.
LEMMA RemainderProps ==
  ASSUME NEW n \in Nat
  PROVE  /\ Remainder(n) \in Seq(Nat)
         /\ n \div 2 + Len(Remainder(n)) = (n + 1) \div 2
         /\ \A i \in 1 .. Len(Remainder(n)) : Remainder(n)[i] = n \div 2 + i
<1> DEFINE m == n \div 2
           k == (n + 1) \div 2
<1>1. m \in Nat /\ k = IF n % 2 = 1 THEN m + 1 ELSE m
  BY Halves
<1>2. Remainder(n) = IF n % 2 = 1 THEN <<m + 1>> ELSE <<>>
  BY DEF Remainder
<1> SUFFICES /\ Remainder(n) \in Seq(Nat) /\ m + Len(Remainder(n)) = k
             /\ \A i \in 1 .. Len(Remainder(n)) : Remainder(n)[i] = m + i
  OBVIOUS
<1> HIDE DEF m, k
<1>3. CASE n % 2 = 1
  <2>1. Remainder(n) = <<m + 1>> /\ k = m + 1 /\ m + 1 \in Nat
    BY <1>1, <1>2, <1>3
  <2> QED BY <1>1, <2>1
<1>4. CASE n % 2 # 1
  <2>1. Remainder(n) = <<>> /\ k = m
    BY <1>1, <1>2, <1>4
  <2> QED BY <1>1, <2>1
<1> QED BY <1>3, <1>4, Zenon

\* What a drain writes, and what becomes of it.
Persisted(r, s, d, new) ==
  /\ drain' = [drain EXCEPT ![r][s] = d] /\ rows' = [rows EXCEPT ![r][s] = new]
  /\ broken' \in [Calls -> BOOLEAN] /\ faults' \in 0 .. MaxFaults

LEMMA PersistCases ==
  ASSUME Inv, NEW r \in Calls, NEW s \in Streams, NEW lines \in Seq(Nat), NEW next,
         Persist(r, s, lines, next)
  PROVE  \/ Persisted(r, s, next, rows[r][s] \o lines)
         \/ Persisted(r, s, "failed", rows[r][s] \o lines)
         \/ Persisted(r, s, "failed", rows[r][s])
<1>1. rows \in [Calls -> [Streams -> Seq(Nat)]] /\ broken \in [Calls -> BOOLEAN]
      /\ faults \in 0 .. MaxFaults
  BY Zenon DEF Inv, Pipes
<1> DEFINE old == rows[r][s]
           longer == rows[r][s] \o lines
<1>2. rows = [rows EXCEPT ![r][s] = old]
  BY <1>1
<1>3. ASSUME faults < MaxFaults, faults' = faults + 1 PROVE faults' \in 0 .. MaxFaults
  BY <1>1, <1>3, RunnerAssumption
<1>4. ASSUME broken' = [broken EXCEPT ![r] = TRUE] PROVE broken' \in [Calls -> BOOLEAN]
  BY <1>1, <1>4, Zenon
<1>5. CASE /\ rows' = [rows EXCEPT ![r][s] = longer]
           /\ drain' = [drain EXCEPT ![r][s] = next]
           /\ UNCHANGED <<broken, faults>>
  <2> HIDE DEF old, longer
  <2> QED BY <1>1, <1>5, Zenon DEF longer, Persisted
<1>6. CASE /\ drain' = [drain EXCEPT ![r][s] = "failed"]
           /\ UNCHANGED <<rows, broken, faults>>
  BY <1>1, <1>2, <1>6, Zenon DEF Persisted
<1>7. CASE /\ drain' = [drain EXCEPT ![r][s] = "failed"]
           /\ broken' = [broken EXCEPT ![r] = TRUE] /\ Fault
           /\ rows' = rows \/ rows' = [rows EXCEPT ![r][s] = longer]
  <2>1. faults' \in 0 .. MaxFaults
    BY <1>3, <1>7, Zenon DEF Fault
  <2>2. broken' \in [Calls -> BOOLEAN]
    BY <1>4, <1>7, Zenon
  <2>3. CASE rows' = rows
    BY <1>2, <1>7, <2>1, <2>2, <2>3, ZenonT(30) DEF Persisted
  <2>4. CASE rows' = [rows EXCEPT ![r][s] = longer]
    BY <1>7, <2>1, <2>2, <2>4, ZenonT(30) DEF Persisted
  <2> QED BY <1>7, <2>3, <2>4, Zenon
<1> QED BY <1>5, <1>6, <1>7, Zenon DEF Persist

\* A drain that has read up to n writes the lines that follow its rows.
LEMMA DrainInv ==
  ASSUME Inv, NEW r \in Calls, NEW s \in Streams, drain[r][s] = "reading",
         NEW n \in Nat, n <= printed[r][s], taken' = [taken EXCEPT ![r][s] = n],
         NEW lines \in Seq(Nat), NEW next \in {"reading", "done"}, Persist(r, s, lines, next),
         \A i \in 1 .. Len(lines) : lines[i] = Len(rows[r][s]) + i,
         Len(rows[r][s]) + Len(lines) <= (printed[r][s] + 1) \div 2,
         next = "reading" => Len(rows[r][s]) + Len(lines) = n \div 2,
         next = "done" => /\ Ended(r, s)
                          /\ Len(rows[r][s]) + Len(lines) = (printed[r][s] + 1) \div 2,
         UNCHANGED <<permits, queue, pc, outcome, tries, proc, printed, closed, marker>>
  PROVE  Inv'
<1>0. \/ Persisted(r, s, next, rows[r][s] \o lines)
      \/ Persisted(r, s, "failed", rows[r][s] \o lines)
      \/ Persisted(r, s, "failed", rows[r][s])
  BY PersistCases, Zenon
<1>1. PICK d \in {next, "failed"}, new \in {rows[r][s], rows[r][s] \o lines} :
           /\ drain' = [drain EXCEPT ![r][s] = d] /\ rows' = [rows EXCEPT ![r][s] = new]
           /\ d = "failed" \/ new = rows[r][s] \o lines
           /\ broken' \in [Calls -> BOOLEAN] /\ faults' \in 0 .. MaxFaults
  <2> DEFINE old == rows[r][s]
             longer == rows[r][s] \o lines
  <2>1. \/ Persisted(r, s, next, longer) \/ Persisted(r, s, "failed", longer)
        \/ Persisted(r, s, "failed", old)
    BY <1>0, Zenon
  <2> SUFFICES \E d \in {next, "failed"}, new \in {old, longer} :
                 Persisted(r, s, d, new) /\ (d = "failed" \/ new = longer)
    BY ZenonT(30) DEF Persisted
  <2> HIDE DEF old, longer
  <2> QED BY <2>1, Zenon
<1>2. Pool' /\ Pipes /\ Pipe(r, s) /\ Call(r)
  BY Zenon DEF Inv, Pool, Holders, Waiters
<1>3. /\ printed[r][s] \in Nat /\ printed[r][s] <= MaxPrints /\ rows[r][s] \in Seq(Nat)
      /\ \A i \in 1 .. Len(rows[r][s]) : rows[r][s][i] = i
  BY <1>2, Counts, Zenon DEF Pipe
<1>4. /\ new \in Seq(Nat) /\ \A i \in 1 .. Len(new) : new[i] = i
      /\ Len(new) \in Nat /\ Len(new) <= (printed[r][s] + 1) \div 2
      /\ d = "reading" => Len(new) = n \div 2
      /\ d = "done" => Ended(r, s) /\ Len(new) = (printed[r][s] + 1) \div 2
  <2> DEFINE old == rows[r][s]
             longer == old \o lines
             most == (printed[r][s] + 1) \div 2
             half == n \div 2
  <2>1. /\ longer \in Seq(Nat) /\ Len(longer) = Len(old) + Len(lines)
        /\ \A i \in 1 .. Len(longer) : longer[i] = i
    BY <1>3, InOrder, ZenonT(30)
  <2>2. /\ old \in Seq(Nat) /\ \A i \in 1 .. Len(old) : old[i] = i /\ Len(old) \in Nat
        /\ Len(lines) \in Nat /\ Len(longer) \in Nat
    <3>1. old \in Seq(Nat) /\ \A i \in 1 .. Len(old) : old[i] = i
      BY <1>3, Zenon
    <3> HIDE DEF old, longer
    <3>2. Len(old) \in Nat /\ Len(lines) \in Nat /\ Len(longer) \in Nat
      BY <2>1, <3>1
    <3> QED BY <3>1, <3>2, Zenon
  <2>3. most \in Nat /\ half \in Nat
    BY <1>3, Halves, ZenonT(30)
  <2>4. /\ Len(longer) <= most /\ (next = "reading" => Len(longer) = half)
        /\ (next = "done" => Ended(r, s) /\ Len(longer) = most)
    BY <2>1
  <2>5. new \in {old, longer} /\ (d = "failed" \/ new = longer)
    BY <1>1, Zenon
  <2> SUFFICES /\ new \in Seq(Nat) /\ \A i \in 1 .. Len(new) : new[i] = i
               /\ Len(new) \in Nat /\ Len(new) <= most
               /\ d = "reading" => Len(new) = half
               /\ d = "done" => Ended(r, s) /\ Len(new) = most
    BY ZenonT(30)
  <2> HIDE DEF old, longer, most, half
  <2>6. CASE new = longer
    BY <2>1, <2>2, <2>3, <2>4, <2>6, <1>1, ZenonT(30)
  <2>7. CASE new # longer
    <3>1. d = "failed" /\ new = old
      BY <2>5, <2>7, ZenonT(30)
    <3>2. Len(old) <= most
      BY <2>1, <2>2, <2>3, <2>4
    <3> QED BY <2>2, <3>1, <3>2
  <2> QED BY <2>6, <2>7, Zenon
<1>5. /\ taken' \in [Calls -> [Streams -> 0 .. MaxPrints]] /\ taken'[r][s] = n
      /\ \A t \in Streams : t # s => taken'[r][t] = taken[r][t]
      /\ \A q \in Calls : q # r => taken'[q] = taken[q]
  <2> DEFINE S == 0 .. MaxPrints
  <2>1. n \in S
    BY <1>3, RunnerAssumption
  <2>2. taken \in [Calls -> [Streams -> S]]
    BY <1>2, ZenonT(30) DEF Pipes
  <2> SUFFICES /\ taken' \in [Calls -> [Streams -> S]] /\ taken'[r][s] = n
               /\ \A t \in Streams : t # s => taken'[r][t] = taken[r][t]
               /\ \A q \in Calls : q # r => taken'[q] = taken[q]
    BY Zenon
  <2> HIDE DEF S
  <2> QED BY <2>1, <2>2, Replace
<1>6. /\ rows' \in [Calls -> [Streams -> Seq(Nat)]] /\ rows'[r][s] = new
      /\ \A t \in Streams : t # s => rows'[r][t] = rows[r][t]
      /\ \A q \in Calls : q # r => rows'[q] = rows[q]
  <2> DEFINE S == Seq(Nat)
  <2>1. new \in S /\ rows' = [rows EXCEPT ![r][s] = new]
    BY <1>1, <1>4, Zenon
  <2>2. rows \in [Calls -> [Streams -> S]]
    BY <1>2, ZenonT(30) DEF Pipes
  <2> SUFFICES /\ rows' \in [Calls -> [Streams -> S]] /\ rows'[r][s] = new
               /\ \A t \in Streams : t # s => rows'[r][t] = rows[r][t]
               /\ \A q \in Calls : q # r => rows'[q] = rows[q]
    BY ZenonT(30)
  <2> HIDE DEF S
  <2> QED BY <2>1, <2>2, Replace
<1>7. /\ drain' \in [Calls -> [Streams -> Drains]] /\ drain'[r][s] = d
      /\ \A t \in Streams : t # s => drain'[r][t] = drain[r][t]
      /\ \A q \in Calls : q # r => drain'[q] = drain[q]
  <2>1. d \in Drains /\ drain' = [drain EXCEPT ![r][s] = d]
    BY <1>1, Zenon DEF Drains
  <2>2. drain \in [Calls -> [Streams -> Drains]]
    BY <1>2, ZenonT(30) DEF Pipes
  <2> QED BY <2>1, <2>2, Replace
<1>8. Pipes'
  BY <1>1, <1>2, <1>5, <1>6, <1>7, ZenonT(30) DEF Pipes
<1>9. \A q \in Calls : q # r => Same(q)
  BY <1>5, <1>6, <1>7, ZenonT(30) DEF Same
<1>10. Call(r)'
  <2>1. Process(r) /\ \A t \in Streams : Drain(r, t)
    BY <1>2, Zenon DEF Call
  <2>2. d \in {"reading", "done", "failed"}
    BY <1>1, Zenon
  <2>3. Loose(r) => Loose(r)'
    <3> SUFFICES ASSUME Loose(r) PROVE Loose(r)'
      BY Zenon
    <3>1. PICK t \in Streams : drain[r][t] = "failed"
      BY Zenon DEF Loose, DrainFailed
    <3>2. drain'[r][t] = "failed"
      BY <1>7, <3>1, Zenon
    <3> QED BY <3>2, Zenon DEF Loose, DrainFailed
  <2>4. Process(r)'
    BY <2>1, <2>3, ZenonT(30) DEF Process
  <2>5. ASSUME NEW t \in Streams PROVE Drain(r, t)'
    <3>1. CASE t # s
      BY <1>7, <2>1, <2>3, <3>1, ZenonT(30) DEF Drain
    <3>2. CASE t = s
      <4>1. Drain(r, s) /\ drain[r][s] = "reading"
        BY <2>1, ZenonT(30)
      <4> QED BY <1>7, <2>2, <2>3, <3>2, <4>1, ZenonT(30) DEF Drain
    <3> QED BY <3>1, <3>2, Zenon
  <2> QED BY <2>4, <2>5, Zenon DEF Call
<1>11. ASSUME NEW t \in Streams PROVE Pipe(r, t)'
  <2>1. Pipe(r, t)
    BY Zenon DEF Inv
  <2>2. CASE t # s
    BY <1>5, <1>6, <1>7, <2>1, <2>2, ZenonT(30) DEF Pipe, Ended
  <2>3. CASE t = s
    <3>1. d \in {"reading", "done", "failed"}
      BY <1>1, Zenon
    <3>2. d = "done" => Ended(r, s)'
      BY <1>4, ZenonT(30) DEF Ended
    <3> QED BY <1>4, <1>5, <1>6, <1>7, <2>3, <3>1, <3>2, ZenonT(30) DEF Pipe
  <2> QED BY <2>2, <2>3
<1> QED BY <1>2, <1>8, <1>9, <1>10, <1>11, OneCall

LEMMA ReadInv ==
  ASSUME Inv, NEW r \in Calls, NEW s \in Streams, ReadChunk(r, s)
  PROVE  Inv'
<1>1. PICK n \in taken[r][s] + 1 .. printed[r][s] :
         /\ taken' = [taken EXCEPT ![r][s] = n]
         /\ Persist(r, s, Complete(taken[r][s], n), "reading")
  BY Zenon DEF ReadChunk
<1>2. /\ drain[r][s] = "reading"
      /\ UNCHANGED <<permits, queue, pc, outcome, tries, proc, printed, closed, marker>>
  BY DEF ReadChunk
<1> DEFINE a == taken[r][s]
           p == printed[r][s]
           have == Len(rows[r][s])
           lines == Complete(a, n)
<1>3. a \in Nat /\ p \in Nat /\ have \in Nat /\ have = a \div 2
  BY <1>2, Counts, Zenon DEF Inv, Pipe
<1>4. n \in a + 1 .. p
  OBVIOUS
<1>5. n \in Nat /\ a <= n /\ n <= p
  <2> HIDE DEF a, p
  <2> QED BY <1>3, <1>4
<1>6. /\ lines \in Seq(Nat) /\ Len(lines) = n \div 2 - a \div 2
      /\ \A i \in 1 .. Len(lines) : lines[i] = a \div 2 + i
  BY <1>3, <1>5, CompleteProps, ZenonT(30)
<1>7. have + Len(lines) = n \div 2 /\ have + Len(lines) <= (p + 1) \div 2
      /\ \A i \in 1 .. Len(lines) : lines[i] = have + i
  <2> HIDE DEF a, p, have, lines
  <2>1. n \div 2 \in Nat /\ a \div 2 \in Nat /\ n \div 2 <= p \div 2 /\ p \div 2 \in Nat
        /\ p \div 2 <= (p + 1) \div 2 /\ (p + 1) \div 2 \in Nat
    BY <1>3, <1>5, Halves, HalvesGrow
  <2> QED BY <1>3, <1>6, <2>1
<1> QED BY <1>1, <1>2, <1>5, <1>6, <1>7, DrainInv, ZenonT(30)

LEMMA EndInv ==
  ASSUME Inv, NEW r \in Calls, NEW s \in Streams, EndOfStream(r, s)
  PROVE  Inv'
<1> DEFINE p == printed[r][s]
           have == Len(rows[r][s])
           lines == Remainder(p)
<1>1. /\ drain[r][s] = "reading" /\ Ended(r, s) /\ taken[r][s] = p
      /\ Persist(r, s, lines, "done")
      /\ UNCHANGED <<permits, queue, pc, outcome, tries, proc, printed, closed, taken, marker>>
  BY DEF EndOfStream
<1>2. p \in Nat /\ have \in Nat /\ have = p \div 2
  BY <1>1, Counts, Zenon DEF Inv, Pipe
<1>3. /\ lines \in Seq(Nat) /\ have + Len(lines) = (p + 1) \div 2
      /\ \A i \in 1 .. Len(lines) : lines[i] = have + i
  BY <1>2, RemainderProps, ZenonT(30)
<1>4. taken' = [taken EXCEPT ![r][s] = p]
  BY <1>1, Zenon DEF Inv, Pipes
<1>5. p <= p /\ (p + 1) \div 2 <= (p + 1) \div 2
  BY <1>2, Halves
<1> QED BY <1>1, <1>2, <1>3, <1>4, <1>5, DrainInv, ZenonT(30)

-----------------------------------------------------------------------------
(* The theorems.                                                           *)

LEMMA StepInv == Inv /\ [Next]_vars => Inv'
<1> SUFFICES ASSUME Inv, [Next]_vars PROVE Inv'
  OBVIOUS
<1>1. CASE Acquire
  BY <1>1, EnterInv, AcquirePool, Zenon DEF Inv
<1>2. ASSUME NEW r \in Calls, RunTool(r) \/ CallStep(r) \/ Timeout(r) \/ TimeoutRaises(r) \/ Exit(r)
      PROVE  Inv'
  BY <1>2, EnterInv, LaunchInv, EndsInv, TimeoutInv, KillInv, MarkerInv, ToolInv DEF CallStep
<1>3. ASSUME NEW r \in Calls, NEW s \in Streams, Emit(r, s) \/ ClosePipe(r, s) \/ DrainStep(r, s)
      PROVE  Inv'
  BY <1>3, ToolInv, CloseInv, ReadInv, EndInv, Zenon DEF DrainStep
<1>4. CASE UNCHANGED vars
  <2>1. Pool' /\ Pipes'
    BY <1>4, ZenonT(30) DEF Inv, vars, pipeVars, Pool, Pipes, Holders, Waiters
  <2>2. ASSUME NEW r \in Calls PROVE Call(r)'
    <3>1. Call(r) /\ (Loose(r)' <=> Loose(r))
      BY <1>4, Zenon DEF Inv, vars, pipeVars, Loose, DrainFailed
    <3>2. Process(r)'
      BY <1>4, <3>1, ZenonT(30) DEF vars, pipeVars, Call, Process
    <3>3. ASSUME NEW s \in Streams PROVE Drain(r, s)'
      BY <1>4, <3>1, ZenonT(30) DEF vars, pipeVars, Call, Drain
    <3> QED BY <3>2, <3>3 DEF Call
  <2>3. ASSUME NEW r \in Calls, NEW s \in Streams PROVE Pipe(r, s)'
    BY <1>4, Zenon DEF Inv, vars, pipeVars, Pipe, Ended
  <2> QED BY <2>1, <2>2, <2>3, Zenon DEF Inv
<1> QED BY <1>1, <1>2, <1>3, <1>4 DEF Next

\* The inductive invariant of runner/service.py's run_tool holds, for any number
\* of calls, permits, launches, streams and lines, whichever commits fail.
THEOREM RunnerCorrect == Spec => []Inv
<1> QED BY InitInv, StepInv, PTL DEF Spec

\* No call launches its tool more often than _MAX_LAUNCH_RETRIES allows, and the
\* semaphore stays within its bounds.
THEOREM TypeCorrect == Spec => []TypeOK
<1>1. Inv => TypeOK
  BY TypeParts DEF Inv
<1> QED BY <1>1, RunnerCorrect, PTL

\* A process at work belongs to a call with a permit of _CLI_SEMAPHORE, unless
\* the failure of a drain's commit has cut it loose.
THEOREM ProcessesHavePermits == Spec => []ProcessNeedsPermit
<1>1. Inv => ProcessNeedsPermit
  BY ZenonT(30) DEF Inv, Pool, Call, Process, Loose, ProcessNeedsPermit, InPool
<1> QED BY <1>1, RunnerCorrect, PTL

\* _launch_with_retry gives up only after all its tries, and leaves no process.
THEOREM LaunchesAreTried == Spec => []GivesUpAfterAllTries
<1>1. Inv => GivesUpAfterAllTries
  BY ZenonT(30) DEF Inv, Call, Process, GivesUpAfterAllTries
<1> QED BY <1>1, RunnerCorrect, PTL

\* The two drains write the lines of their pipes in order, each once, and those
\* that see the end of the pipe write all of them.
THEOREM OutputInOrder == Spec => []LinesInOrder
<1>1. Inv => LinesInOrder
  BY Zenon DEF Inv, Pipe, LinesInOrder
<1> QED BY <1>1, RunnerCorrect, PTL

\* run_tool succeeds only after an exit code of zero and with all output logged.
THEOREM SuccessShowsAll == Spec => []SuccessIsComplete
<1>1. Inv => SuccessIsComplete
  <2> SUFFICES ASSUME Inv, NEW r \in Calls, outcome[r] = "ok"
               PROVE  /\ proc[r] = "exit 0"
                      /\ \A s \in Streams : Len(rows[r][s]) = (printed[r][s] + 1) \div 2
    BY Zenon DEF SuccessIsComplete
  <2>1. Call(r)
    BY Zenon DEF Inv
  <2>2. proc[r] = "exit 0"
    BY <2>1, ZenonT(30) DEF Call, Process
  <2>3. ASSUME NEW s \in Streams PROVE Len(rows[r][s]) = (printed[r][s] + 1) \div 2
    <3>1. drain[r][s] = "done"
      BY <2>1 DEF Call, Drain
    <3>2. Pipe(r, s)
      BY DEF Inv
    <3> QED BY <3>1, <3>2, ZenonT(30) DEF Pipe
  <2> QED BY <2>2, <2>3, ZenonT(30)
<1> QED BY <1>1, RunnerCorrect, PTL

-----------------------------------------------------------------------------
(* What no step does to the output of a call, and that the runner          *)
(* implements ToolCalls.                                                   *)

\* Rows come from drains only.
LEMMA WhoWrites ==
  ASSUME Inv, [Next]_vars, NEW r \in Calls, rows'[r] # rows[r]
  PROVE  \E s \in Streams : drain[r][s] = "reading" /\ DrainStep(r, s)
<1>1. ASSUME NEW q \in Calls, NEW s \in Streams, DrainStep(q, s), q # r PROVE rows'[r] = rows[r]
  <2>1. rows' = rows \/ \E new : rows' = [rows EXCEPT ![q][s] = new]
    BY <1>1, Zenon DEF DrainStep, ReadChunk, EndOfStream, Persist
  <2>2. rows \in [Calls -> [Streams -> Seq(Nat)]]
    BY Zenon DEF Inv, Pipes
  <2> QED BY <1>1, <2>1, <2>2, Zenon
<1>2. ASSUME NEW q \in Calls, CallStep(q) PROVE rows' = rows
  BY <1>2, Zenon DEF CallStep, Prepare, Launch, LaunchPause, Collected, CollectRaises, Kill,
              WriteSystemMarker, Finish, CloseJob, pipeVars
<1>3. ASSUME NEW q \in Calls, RunTool(q) \/ Timeout(q) \/ TimeoutRaises(q) \/ Exit(q)
      PROVE  rows' = rows
  BY <1>3, Zenon DEF RunTool, Timeout, TimeoutRaises, Exit, pipeVars
<1>4. ASSUME NEW q \in Calls, NEW s \in Streams, Emit(q, s) \/ ClosePipe(q, s)
      PROVE  rows' = rows
  BY <1>4 DEF Emit, ClosePipe
<1>5. Acquire => rows' = rows
  BY DEF Acquire, pipeVars
<1>6. UNCHANGED vars => rows' = rows
  BY DEF vars, pipeVars
<1>7. PICK q \in Calls, s \in Streams : DrainStep(q, s)
  BY <1>2, <1>3, <1>4, <1>5, <1>6 DEF Next
<1>8. q = r /\ drain[q][s] = "reading"
  BY <1>1, <1>7 DEF DrainStep, ReadChunk, EndOfStream
<1> QED BY <1>7, <1>8

\* After the TIMEOUT row of _write_system_marker no output of the call follows,
\* and its process is dead.
THEOREM TimeoutEndsOutput == Spec => MarkerIsLast
<1> DEFINE Last == \A r \in Calls : marker[r] => proc[r] # "running" /\ rows'[r] = rows[r]
<1>1. Inv /\ [Next]_vars => Last
  <2> SUFFICES ASSUME Inv, [Next]_vars, NEW r \in Calls, marker[r]
               PROVE  proc[r] # "running" /\ rows'[r] = rows[r]
    OBVIOUS
  <2>1. proc[r] # "running" /\ \A s \in Streams : drain[r][s] # "reading"
    BY Zenon DEF Inv, Call, Process, Drain
  <2> QED BY <2>1, WhoWrites
<1>2. Inv /\ [Next]_vars => [Last]_vars
  BY <1>1
<1> QED BY <1>2, RunnerCorrect, PTL DEF Spec, MarkerIsLast

\* CLI_OUTPUT rows after the end of a job come from a drain that gather left
\* behind when its sister failed.
THEOREM LateOutput == Spec => LateOutputIsOrphaned
<1> DEFINE Orphaned == \A r \in Calls : pc[r] = "closed" /\ rows'[r] # rows[r] =>
                         outcome[r] \in DrainErrors /\ DrainFailed(r)
<1>1. Inv /\ [Next]_vars => Orphaned
  <2> SUFFICES ASSUME Inv, [Next]_vars, NEW r \in Calls, pc[r] = "closed", rows'[r] # rows[r]
               PROVE  outcome[r] \in DrainErrors /\ DrainFailed(r)
    OBVIOUS
  <2>1. PICK s \in Streams : drain[r][s] = "reading"
    BY WhoWrites
  <2>2. Drain(r, s)
    BY DEF Inv, Call
  <2> QED BY <2>1, <2>2 DEF Drain, Loose
<1>2. Inv /\ [Next]_vars => [Orphaned]_vars
  BY <1>1
<1> QED BY <1>2, RunnerCorrect, PTL DEF Spec, LateOutputIsOrphaned

-----------------------------------------------------------------------------
(* The refinement.                                                         *)

\* What the contract sees of the state.
PhaseBar == [r \in Calls |-> Phase(r)]

ShownBar == [r \in Calls |-> [s \in Streams |-> Len(rows[r][s])]]

LEMMA Phases ==
  ASSUME NEW r \in Calls, pc \in [Calls -> PCs]
  PROVE  /\ pc[r] \in {"none", "waiting"} <=> Phase(r) = "idle"
         /\ pc[r] \in InPool <=> Phase(r) = "active"
         /\ pc[r] \in {"returned", "closed"} <=> Phase(r) = "done"
<1>1. pc[r] \in PCs
  OBVIOUS
<1>2. CASE pc[r] \in {"none", "waiting"}
  BY <1>2 DEF Phase, InPool
<1>3. CASE pc[r] \in InPool
  BY <1>3 DEF Phase, InPool
<1>4. CASE pc[r] \in {"returned", "closed"}
  BY <1>4 DEF Phase, InPool
<1> QED BY <1>1, <1>2, <1>3, <1>4, Zenon DEF PCs, InPool

\* The calls at work are the holders of permits.
LEMMA ActiveHolders == Pool => Contract!Active = Holders
<1> SUFFICES ASSUME Pool PROVE Contract!Active = Holders
  OBVIOUS
<1>1. Contract!Active = {r \in Calls : PhaseBar[r] = "active"}
  BY DEF Contract!Active, PhaseBar
<1>2. \A r \in Calls : PhaseBar[r] = "active" <=> pc[r] \in InPool
  BY Phases DEF Pool, PhaseBar
<1> QED BY <1>1, <1>2 DEF Holders

LEMMA InitContract == Init => Contract!Init
<1> SUFFICES ASSUME Init PROVE Contract!Init
  OBVIOUS
<1>1. PhaseBar = [r \in Calls |-> "idle"]
  <2>1. ASSUME NEW r \in Calls PROVE Phase(r) = "idle"
    <3>1. pc[r] = "none"
      BY DEF Init
    <3> QED BY <3>1 DEF Phase, InPool
  <2> QED BY <2>1 DEF PhaseBar
<1>2. ShownBar = [r \in Calls |-> [s \in Streams |-> 0]]
  BY DEF Init, ShownBar
<1> QED BY <1>1, <1>2 DEF Init, Contract!Init, PhaseBar, ShownBar

\* A step that moves a call within its phase, and writes nothing, is no step of
\* the contract.
LEMMA Stutters ==
  ASSUME Inv, Inv', \A r \in Calls : Phase(r)' = Phase(r), UNCHANGED <<printed, rows, outcome>>
  PROVE  UNCHANGED Contract!vars
<1>1. PhaseBar' = PhaseBar
  BY DEF PhaseBar
<1>2. ShownBar' = ShownBar
  BY DEF ShownBar
<1> QED BY <1>1, <1>2 DEF Contract!vars, PhaseBar, ShownBar

\* A call that goes on stays in the pool.
LEMMA GotoStutters ==
  ASSUME Inv, Inv', NEW r \in Calls, pc[r] \in InPool, NEW to \in InPool, Goto(r, to),
         UNCHANGED <<printed, rows>>
  PROVE  UNCHANGED Contract!vars
<1>1. pc \in [Calls -> PCs] /\ pc' \in [Calls -> PCs]
  BY DEF Inv, Pool
<1>2. pc' = [pc EXCEPT ![r] = to] /\ outcome' = outcome
  BY DEF Goto
<1>3. ASSUME NEW q \in Calls PROVE Phase(q)' = Phase(q)
  <2>1. CASE q = r
    BY <1>1, <1>2, <2>1 DEF Phase, InPool
  <2>2. CASE q # r
    <3>1. pc'[q] = pc[q]
      BY <1>1, <1>2, <2>2
    <3> QED BY <3>1 DEF Phase
  <2> QED BY <2>1, <2>2
<1> QED BY <1>2, <1>3, Stutters, Zenon

\* The phase of one call changes.
LEMMA PhaseChange ==
  ASSUME NEW r \in Calls, pc \in [Calls -> PCs], NEW to \in PCs, pc' = [pc EXCEPT ![r] = to]
  PROVE  PhaseBar' = [PhaseBar EXCEPT ![r] = Phase(r)']
<1>1. \A q \in Calls : q # r => Phase(q)' = Phase(q)
  <2> SUFFICES ASSUME NEW q \in Calls, q # r PROVE Phase(q)' = Phase(q)
    OBVIOUS
  <2>1. pc'[q] = pc[q]
    OBVIOUS
  <2> QED BY <2>1, Zenon DEF Phase
<1> QED BY <1>1, Zenon DEF PhaseBar

\* Giving the permit back is the end of a call.
LEMMA ReturnFinishes ==
  ASSUME Inv, Inv', NEW r \in Calls, pc[r] \in InPool, NEW res \in Results, Return(r, res),
         UNCHANGED <<printed, rows>>,
         res = "ok" => \A s \in Streams : Len(rows[r][s]) = (printed[r][s] + 1) \div 2
  PROVE  Contract!Finish(r, res)
<1>1. pc \in [Calls -> PCs] /\ pc' = [pc EXCEPT ![r] = "returned"]
      /\ outcome' = [outcome EXCEPT ![r] = res]
  BY DEF Inv, Pool, Return
<1>2. PhaseBar[r] = "active" /\ Phase(r)' = "done"
  <2>1. pc'[r] = "returned"
    BY <1>1
  <2> QED BY <1>1, <2>1, Phases, Zenon DEF PhaseBar, Phase, InPool
<1>3. PhaseBar' = [PhaseBar EXCEPT ![r] = "done"]
  BY <1>1, <1>2, PhaseChange, Zenon DEF PCs
<1>4. ShownBar' = ShownBar
  BY DEF ShownBar
<1>5. res = "ok" => \A s \in Streams : ShownBar[r][s] = (printed[r][s] + 1) \div 2
  BY DEF ShownBar
<1> QED BY <1>1, <1>2, <1>3, <1>4, <1>5, ZenonT(30)
        DEF Contract!Finish, Contract!Lines, PhaseBar, ShownBar

\* The semaphore lets in the first call that waits.
LEMMA AcquireBegins ==
  ASSUME Inv, Inv', NEW r \in Calls, r = Head(queue), Acquire
  PROVE  Contract!Begin(r)
<1>1. r \in Calls /\ pc[r] = "waiting" /\ Cardinality(Holders) < MaxTools
  BY AcquirePool DEF Inv
<1>2. /\ pc \in [Calls -> PCs] /\ pc' = [pc EXCEPT ![r] = "prepare"]
      /\ UNCHANGED <<printed, rows, outcome>>
  BY DEF Inv, Pool, Acquire, pipeVars
<1>3. PhaseBar[r] = "idle" /\ Phase(r)' = "active"
  <2>1. pc'[r] = "prepare"
    BY <1>1, <1>2, Zenon
  <2> QED BY <1>1, <1>2, <2>1, Phases, Zenon DEF PhaseBar, Phase, InPool
<1>4. PhaseBar' = [PhaseBar EXCEPT ![r] = "active"]
  BY <1>1, <1>2, <1>3, PhaseChange, ZenonT(30) DEF PCs, InPool
<1>5. ShownBar' = ShownBar
  BY <1>2 DEF ShownBar
<1>6. Contract!Cardinality(Contract!Active) < MaxTools
  <2>1. \A S : Contract!Cardinality(S) = Cardinality(S)
    BY DEF Cardinality, Contract!Cardinality
  <2> QED BY <1>1, <2>1, ActiveHolders, Zenon DEF Inv
<1>7. /\ PhaseBar[r] = "idle" /\ PhaseBar' = [PhaseBar EXCEPT ![r] = "active"]
      /\ UNCHANGED <<printed, ShownBar, outcome>>
  BY <1>2, <1>3, <1>4, <1>5
<1> QED BY <1>6, <1>7, Zenon DEF Contract!Begin, PhaseBar, ShownBar

\* A call waits, or is refused for its arguments.
LEMMA RunToolContract ==
  ASSUME Inv, Inv', NEW r \in Calls, RunTool(r)
  PROVE  Contract!Refuse(r) \/ UNCHANGED Contract!vars
<1>1. pc \in [Calls -> PCs] /\ pc[r] = "none" /\ UNCHANGED <<printed, rows>>
  BY DEF Inv, Pool, RunTool, pipeVars
<1>2. CASE pc' = [pc EXCEPT ![r] = "waiting"] /\ UNCHANGED outcome
  <2>1. ASSUME NEW q \in Calls PROVE Phase(q)' = Phase(q)
    <3>1. pc'[q] = pc[q] \/ (pc[q] = "none" /\ pc'[q] = "waiting")
      BY <1>1, <1>2
    <3> QED BY <3>1, ZenonT(30) DEF Phase, InPool
  <2> QED BY <1>1, <1>2, <2>1, Stutters, Zenon
<1>3. CASE /\ pc' = [pc EXCEPT ![r] = "returned"]
           /\ outcome' = [outcome EXCEPT ![r] = "argument"]
  <2>1. PhaseBar[r] = "idle" /\ Phase(r)' = "done"
    <3>1. pc'[r] = "returned"
      BY <1>1, <1>3, Zenon
    <3> QED BY <1>1, <3>1, Phases DEF PhaseBar, Phase, InPool
  <2>2. PhaseBar' = [PhaseBar EXCEPT ![r] = "done"]
    BY <1>1, <1>3, <2>1, PhaseChange, ZenonT(30) DEF PCs
  <2>3. ShownBar' = ShownBar
    BY <1>1 DEF ShownBar
  <2> QED BY <1>1, <1>3, <2>1, <2>2, <2>3 DEF Contract!Refuse, PhaseBar, ShownBar
<1> QED BY <1>2, <1>3, Zenon DEF RunTool

\* What a call does between its permit and its end.
LEMMA CallContract ==
  ASSUME Inv, Inv', NEW r \in Calls, CallStep(r) \/ Timeout(r) \/ TimeoutRaises(r)
  PROVE  (\E res \in Results : Contract!Finish(r, res)) \/ UNCHANGED Contract!vars
<1>1. UNCHANGED <<printed, rows>>
  BY Zenon DEF CallStep, Prepare, Launch, LaunchPause, Collected, CollectRaises, Kill,
         WriteSystemMarker, Finish, CloseJob, Timeout, TimeoutRaises, pipeVars
<1>2. ASSUME pc[r] \in InPool, NEW to \in InPool, Goto(r, to) PROVE UNCHANGED Contract!vars
  BY <1>1, <1>2, GotoStutters, Zenon
<1>3. ASSUME pc[r] \in InPool, NEW res \in Results \ {"ok"}, Return(r, res)
      PROVE  \E e \in Results : Contract!Finish(r, e)
  BY <1>1, <1>3, ReturnFinishes, Zenon
<1>4. CASE CloseJob(r)
  <2>1. pc \in [Calls -> PCs] /\ pc[r] = "returned" /\ pc' = [pc EXCEPT ![r] = "closed"]
        /\ outcome' = outcome
    BY <1>4 DEF CloseJob, Inv, Pool
  <2>2. ASSUME NEW q \in Calls PROVE Phase(q)' = Phase(q)
    <3>1. pc'[q] = pc[q] \/ (pc[q] = "returned" /\ pc'[q] = "closed")
      BY <2>1
    <3> QED BY <3>1, Zenon DEF Phase, InPool
  <2> QED BY <1>1, <2>1, <2>2, Stutters
<1>5. CASE Finish(r)
  <2>1. PICK res \in {"exit", "ok", "denied", "other"} : Return(r, res)
    BY <1>5, Zenon DEF Finish
  <2>2. pc[r] = "finish" /\ pc[r] \in InPool /\ res \in Results
    BY <1>5, ZenonT(30) DEF Finish, InPool, Results
  <2>3. ASSUME NEW s \in Streams PROVE Len(rows[r][s]) = (printed[r][s] + 1) \div 2
    <3>1. drain[r][s] = "done" /\ Pipe(r, s)
      BY <2>2 DEF Inv, Call, Drain
    <3> QED BY <3>1, Zenon DEF Pipe
  <2> QED BY <1>1, <2>1, <2>2, <2>3, ReturnFinishes
<1>6. CASE Prepare(r) \/ Launch(r) \/ LaunchPause(r)
  <2>1. pc[r] \in InPool
    BY <1>6, Zenon DEF Prepare, Launch, LaunchPause, InPool
  <2>2. \/ \E to \in InPool : Goto(r, to)
        \/ \E res \in Results \ {"ok"} : Return(r, res)
    BY <1>6, Zenon DEF Prepare, Launch, LaunchPause, InPool, Results
  <2> QED BY <1>2, <1>3, <2>1, <2>2, Zenon
<1>7. CASE Collected(r) \/ CollectRaises(r) \/ Kill(r) \/ WriteSystemMarker(r)
  <2>1. pc[r] \in InPool
    BY <1>7, Zenon DEF Collected, CollectRaises, Kill, WriteSystemMarker, InPool
  <2>2. \/ \E to \in InPool : Goto(r, to)
        \/ \E res \in Results \ {"ok"} : Return(r, res)
    BY <1>7 DEF Collected, CollectRaises, Kill, WriteSystemMarker, InPool, Results, DrainErrors
  <2> QED BY <1>2, <1>3, <2>1, <2>2
<1>8. CASE Timeout(r) \/ TimeoutRaises(r)
  <2>1. pc[r] \in InPool
    BY <1>8, Zenon DEF Timeout, TimeoutRaises, InPool
  <2>2. \/ \E to \in InPool : Goto(r, to)
        \/ \E res \in Results \ {"ok"} : Return(r, res)
    BY <1>8 DEF Timeout, TimeoutRaises, InPool, Results, DrainErrors
  <2> QED BY <1>2, <1>3, <2>1, <2>2
<1> QED BY <1>4, <1>5, <1>6, <1>7, <1>8 DEF CallStep

\* What is in the log was printed.
Bounded ==
  \A r \in Calls, s \in Streams :
    Len(rows[r][s]) \in Nat /\ Len(rows[r][s]) <= (printed[r][s] + 1) \div 2

LEMMA ShownBound == Inv => Bounded
<1> SUFFICES ASSUME Inv, NEW r \in Calls, NEW s \in Streams
             PROVE  Len(rows[r][s]) \in Nat /\ Len(rows[r][s]) <= (printed[r][s] + 1) \div 2
  BY DEF Bounded
<1> DEFINE a == taken[r][s]
           p == printed[r][s]
           have == Len(rows[r][s])
<1>1. a \in Nat /\ p \in Nat /\ have \in Nat
  BY Counts DEF Inv
<1>2. drain[r][s] \in Drains
  BY ZenonT(30) DEF Inv, Pipes
<1>3. a <= p /\ (have = a \div 2 \/ have = (p + 1) \div 2 \/ have <= (p + 1) \div 2)
  BY <1>2 DEF Inv, Pipe, Drains
<1> SUFFICES have \in Nat /\ have <= (p + 1) \div 2
  OBVIOUS
<1> HIDE DEF a, p, have
<1>4. a \div 2 <= p \div 2 /\ p \div 2 <= (p + 1) \div 2 /\ a \div 2 \in Nat /\ p \div 2 \in Nat
      /\ (p + 1) \div 2 \in Nat
  BY <1>1, <1>3, Halves, HalvesGrow
<1> QED BY <1>1, <1>3, <1>4

\* The caller still waits for the tool, or has been told of an error of its drains.
LEMMA InSight ==
  ASSUME Inv, NEW r \in Calls, proc[r] = "running" \/ \E s \in Streams : drain[r][s] = "reading"
  PROVE  PhaseBar[r] = "active" \/ outcome[r] \in DrainErrors
<1>1. pc \in [Calls -> PCs] /\ Call(r)
  BY DEF Inv, Pool
<1>2. pc[r] \in InPool \/ Loose(r)
  <2>1. pc[r] \in PCs
    BY <1>1, Zenon
  <2>2. CASE proc[r] = "running"
    BY <1>1, <2>2, Zenon DEF Call, Process, InPool
  <2>3. CASE \E s \in Streams : drain[r][s] = "reading"
    <3>1. PICK s \in Streams : drain[r][s] = "reading"
      BY <2>3
    <3>2. Drain(r, s) /\ Process(r)
      BY <1>1, Zenon DEF Call
    <3>3. proc[r] # "none" /\ pc[r] \notin {"none", "waiting"}
      BY <3>1, <3>2, ZenonT(30) DEF Drain, Process
    <3> QED BY <2>1, <3>1, <3>2, <3>3 DEF Drain, PCs
  <2> QED BY <2>2, <2>3, Zenon
<1>3. pc[r] \in InPool => PhaseBar[r] = "active"
  BY <1>1, Phases, Zenon DEF PhaseBar
<1> QED BY <1>2, <1>3, Zenon DEF Loose

\* The tool prints.
LEMMA EmitContract ==
  ASSUME Inv, Inv', NEW r \in Calls, NEW s \in Streams, Emit(r, s)
  PROVE  Contract!Emit(r, s)
<1>1. /\ proc[r] = "running" /\ printed' = [printed EXCEPT ![r][s] = @ + 1]
      /\ UNCHANGED <<pc, rows, outcome>>
  BY DEF Emit
<1>2. PhaseBar' = PhaseBar
  BY <1>1 DEF PhaseBar, Phase
<1>3. ShownBar' = ShownBar
  BY <1>1 DEF ShownBar
<1>4. PhaseBar[r] = "active" \/ outcome[r] \in Contract!Lost
  BY <1>1, InSight DEF DrainErrors, Contract!Lost
<1> QED BY <1>1, <1>2, <1>3, <1>4 DEF Contract!Emit, PhaseBar, ShownBar

\* A drain shows lines, or finds none to show.
LEMMA DrainContract ==
  ASSUME Inv, Inv', NEW r \in Calls, NEW s \in Streams, DrainStep(r, s)
  PROVE  Contract!Show(r, s) \/ UNCHANGED Contract!vars
<1>1. drain[r][s] = "reading" /\ UNCHANGED <<pc, outcome, printed>>
  BY DEF DrainStep, ReadChunk, EndOfStream
<1>2. PICK new : new \in Seq(Nat) /\ Len(new) >= Len(rows[r][s]) /\ rows' = [rows EXCEPT ![r][s] = new]
  <2>1. rows \in [Calls -> [Streams -> Seq(Nat)]] /\ rows[r][s] \in Seq(Nat)
    BY Zenon DEF Inv, Pipes
  <2>2. PICK lines \in Seq(Nat), next \in {"reading", "done"} : Persist(r, s, lines, next)
    <3>1. taken[r][s] \in Nat /\ printed[r][s] \in Nat
      BY Counts, Zenon DEF Inv
    <3>2. CASE ReadChunk(r, s)
      <4>1. PICK n \in taken[r][s] + 1 .. printed[r][s] :
              Persist(r, s, Complete(taken[r][s], n), "reading")
        BY <3>2 DEF ReadChunk
      <4>2. n \in Nat /\ taken[r][s] <= n
        BY <3>1
      <4>3. Complete(taken[r][s], n) \in Seq(Nat)
        BY <3>1, <4>2, CompleteProps, ZenonT(30)
      <4> QED BY <4>1, <4>3, Zenon
    <3>3. CASE EndOfStream(r, s)
      <4>1. Remainder(taken[r][s]) \in Seq(Nat)
        BY <3>1, RemainderProps, Zenon
      <4> QED BY <3>3, <4>1 DEF EndOfStream
    <3> QED BY <3>2, <3>3 DEF DrainStep
  <2>3. \/ Persisted(r, s, next, rows[r][s] \o lines)
        \/ Persisted(r, s, "failed", rows[r][s] \o lines)
        \/ Persisted(r, s, "failed", rows[r][s])
    BY <2>2, PersistCases, ZenonT(30)
  <2> DEFINE old == rows[r][s]
             longer == old \o lines
  <2>4. rows' = [rows EXCEPT ![r][s] = longer] \/ rows' = [rows EXCEPT ![r][s] = old]
    BY <2>3 DEF Persisted
  <2>5. longer \in Seq(Nat) /\ Len(longer) >= Len(old) /\ Len(old) >= Len(old) /\ old \in Seq(Nat)
    BY <2>1, ConcatProperties
  <2> SUFFICES \E new : new \in Seq(Nat) /\ Len(new) >= Len(old) /\ rows' = [rows EXCEPT ![r][s] = new]
    BY ZenonT(30)
  <2> HIDE DEF old, longer
  <2> QED BY <2>4, <2>5, Zenon
<1>3. PhaseBar' = PhaseBar
  BY <1>1 DEF PhaseBar, Phase
<1>4. \A q \in Calls, t \in Streams :
        Len(rows'[q][t]) = IF q = r /\ t = s THEN Len(new) ELSE Len(rows[q][t])
  <2> DEFINE S == Seq(Nat)
  <2>1. rows \in [Calls -> [Streams -> S]] /\ new \in S /\ rows' = [rows EXCEPT ![r][s] = new]
    BY <1>2, Zenon DEF Inv, Pipes
  <2> HIDE DEF S
  <2>2. /\ rows'[r][s] = new /\ (\A t \in Streams : t # s => rows'[r][t] = rows[r][t])
        /\ \A q \in Calls : q # r => rows'[q] = rows[q]
    BY <2>1, Replace
  <2> QED BY <2>2
<1>5. Len(new) \in Nat /\ Len(new) <= (printed[r][s] + 1) \div 2 /\ (printed[r][s] + 1) \div 2 \in Nat
  <2>1. printed[r][s] \in Nat
    BY Counts DEF Inv
  <2>2. Bounded'
    BY ShownBound, PTL
  <2>3. Len(rows'[r][s]) <= (printed'[r][s] + 1) \div 2
    BY <2>2, Zenon DEF Bounded
  <2> QED BY <1>1, <1>2, <1>4, <2>1, <2>3, Halves
<1>6. ShownBar[r][s] = Len(rows[r][s]) /\ Len(rows[r][s]) \in Nat
  BY Counts, Zenon DEF Inv, ShownBar
<1>7. PhaseBar[r] = "active" \/ outcome[r] \in Contract!Lost
  BY <1>1, InSight, Zenon DEF DrainErrors, Contract!Lost
<1>8. CASE Len(new) = Len(rows[r][s])
  <2>1. ShownBar' = ShownBar
    BY <1>4, <1>8, Zenon DEF ShownBar
  <2> QED BY <1>1, <1>3, <2>1, Zenon DEF Contract!vars, PhaseBar, ShownBar
<1>9. CASE Len(new) # Len(rows[r][s])
  <2>1. Len(new) \in ShownBar[r][s] + 1 .. (printed[r][s] + 1) \div 2
    <3> DEFINE m == Len(new)
               o == Len(rows[r][s])
               b == (printed[r][s] + 1) \div 2
    <3>1. m \in Nat /\ o \in Nat /\ b \in Nat /\ m >= o /\ m # o /\ m <= b
      BY <1>2, <1>5, <1>6, <1>9, Zenon
    <3>2. ShownBar[r][s] = o
      BY <1>6, Zenon
    <3> HIDE DEF m, o, b
    <3>3. m \in o + 1 .. b
      BY <3>1
    <3> QED BY <3>2, <3>3, Zenon DEF m, b
  <2>2. \E n \in ShownBar[r][s] + 1 .. (printed[r][s] + 1) \div 2 :
          ShownBar' = [ShownBar EXCEPT ![r][s] = n]
    <3> DEFINE m == Len(new)
               row == [ShownBar[r] EXCEPT ![s] = m]
    <3>1. /\ \A t \in Streams : ShownBar'[r][t] = row[t]
          /\ \A q \in Calls, t \in Streams : q # r => ShownBar'[q][t] = ShownBar[q][t]
      <4>1. \A q \in Calls, t \in Streams : ShownBar'[q][t] = Len(rows'[q][t])
        BY Zenon DEF ShownBar
      <4>2. \A q \in Calls, t \in Streams : ShownBar[q][t] = Len(rows[q][t])
        BY Zenon DEF ShownBar
      <4>3. \A t \in Streams : row[t] = IF t = s THEN m ELSE ShownBar[r][t]
        BY Zenon DEF ShownBar
      <4>4. ASSUME NEW t \in Streams PROVE ShownBar'[r][t] = row[t]
        <5>1. Len(rows'[r][t]) = IF t = s THEN m ELSE Len(rows[r][t])
          BY <1>4, Zenon
        <5>2. ShownBar'[r][t] = Len(rows'[r][t]) /\ ShownBar[r][t] = Len(rows[r][t])
          BY <4>1, <4>2, Zenon
        <5> HIDE DEF m, row
        <5> QED BY <4>3, <5>1, <5>2, Zenon
      <4>5. ASSUME NEW q \in Calls, NEW t \in Streams, q # r
            PROVE  ShownBar'[q][t] = ShownBar[q][t]
        <5>1. Len(rows'[q][t]) = Len(rows[q][t])
          BY <1>4, <4>5, Zenon
        <5>2. ShownBar'[q][t] = Len(rows'[q][t]) /\ ShownBar[q][t] = Len(rows[q][t])
          BY <4>1, <4>2, Zenon
        <5> QED BY <5>1, <5>2
      <4> QED BY <4>4, <4>5, Zenon
    <3>2. ShownBar'[r] = row /\ \A q \in Calls : q # r => ShownBar'[q] = ShownBar[q]
      BY <3>1, Zenon DEF ShownBar
    <3>3. ShownBar' = [ShownBar EXCEPT ![r] = row]
      <4> HIDE DEF row
      <4> QED BY <3>2, ZenonT(30) DEF ShownBar
    <3> QED BY <2>1, <3>3, Zenon
  <2> QED BY <1>1, <1>3, <1>7, <2>2, ZenonT(30) DEF Contract!Show, Contract!Lines, PhaseBar, ShownBar
<1> QED BY <1>8, <1>9, ZenonT(30)

LEMMA StepContract == Inv /\ Inv' /\ [Next]_vars => [Contract!Next]_(Contract!vars)
<1> SUFFICES ASSUME Inv, Inv', [Next]_vars PROVE Contract!Next \/ UNCHANGED Contract!vars
  OBVIOUS
<1>1. CASE Acquire
  <2>1. PICK r \in Calls : r = Head(queue)
    BY <1>1, AcquirePool DEF Inv
  <2> QED BY <1>1, <2>1, AcquireBegins, Zenon DEF Contract!Next
<1>2. ASSUME NEW r \in Calls, RunTool(r) PROVE Contract!Next \/ UNCHANGED Contract!vars
  BY <1>2, RunToolContract DEF Contract!Next
<1>3. ASSUME NEW r \in Calls, CallStep(r) \/ Timeout(r) \/ TimeoutRaises(r)
      PROVE  Contract!Next \/ UNCHANGED Contract!vars
  BY <1>3, CallContract DEF Contract!Next
<1>4. ASSUME NEW r \in Calls, Exit(r) \/ \E s \in Streams : ClosePipe(r, s)
      PROVE  UNCHANGED Contract!vars
  <2>1. UNCHANGED <<pc, printed, rows, outcome>>
    BY <1>4, Zenon DEF Exit, ClosePipe, pipeVars
  <2>2. \A q \in Calls : Phase(q)' = Phase(q)
    BY <2>1 DEF Phase
  <2> QED BY <2>1, <2>2, Stutters, Zenon
<1>5. ASSUME NEW r \in Calls, NEW s \in Streams, Emit(r, s) PROVE Contract!Next
  BY <1>5, EmitContract, Zenon DEF Contract!Next
<1>6. ASSUME NEW r \in Calls, NEW s \in Streams, DrainStep(r, s)
      PROVE  Contract!Next \/ UNCHANGED Contract!vars
  BY <1>6, DrainContract, Zenon DEF Contract!Next
<1>7. CASE UNCHANGED vars
  <2>1. UNCHANGED <<pc, printed, rows, outcome>>
    BY <1>7 DEF vars, pipeVars
  <2>2. \A q \in Calls : Phase(q)' = Phase(q)
    BY <2>1 DEF Phase
  <2> QED BY <2>1, <2>2, Stutters, Zenon
<1> QED BY <1>1, <1>2, <1>3, <1>4, <1>5, <1>6, <1>7 DEF Next

\* run_tool, with its semaphore, subprocess, drains and deadline, does nothing that
\* ToolCalls does not allow.
THEOREM RunnerKeepsContract == Spec => KeepsContract
<1> QED BY InitContract, StepContract, RunnerCorrect, PTL DEF Spec, KeepsContract, Contract!Spec
=============================================================================
