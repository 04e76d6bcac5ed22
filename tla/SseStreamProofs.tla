--------------------------- MODULE SseStreamProofs ---------------------------
(***************************************************************************)
(* Theorems about SseStream: the registry for any number of clients,       *)
(* connections and writers; the completeness of what clients receive for   *)
(* one writer and batches of any size.                                     *)
(***************************************************************************)
EXTENDS SseStream, FiniteSetTheorems, WellFoundedInduction, TLAPS

PCs == InStream \cup {"idle", "resolved"}

Generator == [pc : PCs, cursor : 0 .. MaxId, seen : Statuses, batch : SUBSET (1 .. MaxId),
              more : {"maybe", "no"}, tries : 0 .. MaxRetries]

-----------------------------------------------------------------------------
(* The registry.                                                           *)

Base == TypeOK /\ SlotsAddUp

LEMMA Types ==
  ASSUME TypeOK
  PROVE  /\ gen \in [Clients -> Generator]
         /\ {lastId, active, dropped, unstarted, faults, drops, restarts} \subseteq Nat
         /\ IsFiniteSet(Streaming) /\ Cardinality(Streaming) \in Nat
<1>1. gen \in [Clients -> Generator]
  BY DEF TypeOK, Generator, PCs
<1>2. {lastId, active, dropped, unstarted, faults, drops, restarts} \subseteq Nat
  BY StreamAssumption DEF TypeOK
<1>3. IsFiniteSet(Streaming) /\ Cardinality(Streaming) \in Nat
  BY FS_Subset, FS_CardinalityType, StreamAssumption DEF Streaming
<1> QED BY <1>1, <1>2, <1>3

LEMMA GeneratorStep ==
  ASSUME TypeOK, NEW c \in Clients PROVE gen[c] \in Generator
BY Types

LEMMA IdleType == Idle \in Generator /\ Idle.pc = "idle"
BY StreamAssumption DEF Idle, Generator, PCs, Statuses

\* A generator that ends, or loses its client, leaves the set of open streams.
LEMMA Leaves ==
  ASSUME TypeOK, NEW c \in Clients, gen[c].pc \in InStream, gen' = [gen EXCEPT ![c] = Idle]
  PROVE  /\ gen' \in [Clients -> Generator]
         /\ Cardinality(Streaming)' = Cardinality(Streaming) - 1
         /\ Cardinality(Streaming) >= 1
<1>1. gen \in [Clients -> Generator] /\ IsFiniteSet(Streaming) /\ Cardinality(Streaming) \in Nat
  BY Types
<1>2. gen' \in [Clients -> Generator]
  BY <1>1, IdleType
<1>3. Streaming' = Streaming \ {c} /\ c \in Streaming
  BY <1>1, IdleType DEF Streaming, InStream
<1>4. IsFiniteSet(Streaming \ {c}) /\ Cardinality(Streaming \ {c}) = Cardinality(Streaming) - 1
  BY <1>1, <1>3, FS_RemoveElement
<1>5. Cardinality(Streaming \ {c}) \in Nat
  BY <1>4, FS_CardinalityType
<1> QED BY <1>1, <1>2, <1>3, <1>4, <1>5

\* Other steps of a generator do not.
LEMMA Stays ==
  ASSUME TypeOK, NEW c \in Clients, NEW g \in Generator, gen' = [gen EXCEPT ![c] = g],
         g.pc \in InStream <=> gen[c].pc \in InStream
  PROVE  gen' \in [Clients -> Generator] /\ Streaming' = Streaming
<1>1. gen \in [Clients -> Generator]
  BY Types
<1> QED BY <1>1 DEF Streaming

\* The values of everything but generators and registry.
Others ==
  /\ status \in Statuses
  /\ lastId \in 0 .. MaxId /\ endId \in 0 .. lastId
  /\ events \subseteq 1 .. lastId /\ open \subseteq 1 .. lastId
  /\ last \in [Clients -> 0 .. MaxId]
  /\ got \in [Clients -> SUBSET (1 .. MaxId)]
  /\ verdict \in [Clients -> {"none"} \cup Terminal]
  /\ faults \in 0 .. MaxFaults /\ drops \in 0 .. MaxDrops /\ restarts \in 0 .. MaxRestarts

LEMMA TypeParts ==
  TypeOK <=> /\ Others /\ gen \in [Clients -> Generator]
             /\ active \in 0 .. MaxConnections /\ {dropped, unstarted} \subseteq Nat
BY DEF TypeOK, Others, Generator, PCs

LEMMA TypePartsPrimed ==
  TypeOK' <=> /\ Others' /\ gen' \in [Clients -> Generator]
              /\ active' \in 0 .. MaxConnections /\ {dropped', unstarted'} \subseteq Nat
BY DEF TypeOK, Others, Generator, PCs

\* A step inside or outside of a stream that leaves the registry alone.
LEMMA StaysBase ==
  ASSUME Base, Others', NEW c \in Clients, NEW g \in Generator, gen' = [gen EXCEPT ![c] = g],
         g.pc \in InStream <=> gen[c].pc \in InStream, UNCHANGED <<active, dropped, unstarted>>
  PROVE  Base'
<1>1. gen' \in [Clients -> Generator] /\ Streaming' = Streaming
  BY Stays, Zenon DEF Base
<1>2. TypeOK'
  BY <1>1, TypeParts, TypePartsPrimed DEF Base
<1>3. SlotsAddUp'
  BY <1>1 DEF Base, SlotsAddUp
<1> QED BY <1>2, <1>3 DEF Base

\* The finally clause gives back a slot that was counted.
LEMMA ReturnBase ==
  ASSUME Base, Others', NEW c \in Clients, gen[c].pc \in InStream, Return(c),
         UNCHANGED <<dropped, unstarted>>
  PROVE  Base'
<1>1. /\ gen' \in [Clients -> Generator]
      /\ Cardinality(Streaming)' = Cardinality(Streaming) - 1
      /\ Cardinality(Streaming) >= 1
  BY Leaves, Zenon DEF Base, Return
<1>2. active \in 0 .. MaxConnections /\ dropped \in Nat /\ unstarted \in Nat
      /\ Cardinality(Streaming) \in Nat /\ MaxConnections \in Nat
      /\ active = Cardinality(Streaming) + dropped + unstarted
  BY Types, StreamAssumption DEF Base, TypeOK, SlotsAddUp
<1>3. active' = active - 1
  BY <1>1, <1>2 DEF Return, Release
<1>4. TypeOK'
  BY <1>1, <1>2, <1>3, TypePartsPrimed
<1>5. SlotsAddUp'
  BY <1>1, <1>2, <1>3 DEF SlotsAddUp
<1> QED BY <1>4, <1>5 DEF Base

\* The writers do not touch the streams.
LEMMA WriterBase ==
  ASSUME Base, CreateJob \/ AppendEvent \/ CommitEvent \/ Transition
  PROVE  Base'
<1>1. UNCHANGED <<active, gen, deadVars, clientVars, boundVars>>
  BY DEF CreateJob, AppendEvent, CommitEvent, Transition
<1>2. /\ status \in Statuses /\ lastId \in 0 .. MaxId /\ endId \in 0 .. lastId
      /\ events \subseteq 1 .. lastId /\ open \subseteq 1 .. lastId /\ MaxId \in Nat
  BY StreamAssumption DEF Base, TypeOK
<1>3. /\ status' \in Statuses /\ lastId' \in 0 .. MaxId /\ endId' \in 0 .. lastId'
      /\ events' \subseteq 1 .. lastId' /\ open' \subseteq 1 .. lastId'
  <2>1. CASE CreateJob
    BY <1>2, <2>1 DEF CreateJob, Statuses
  <2>2. CASE AppendEvent
    BY <1>2, <2>2 DEF AppendEvent, NextId
  <2>3. CASE CommitEvent
    BY <1>2, <2>3 DEF CommitEvent
  <2>4. CASE Transition
    <3>1. status' \in Statuses
      BY <2>4 DEF Transition, Statuses, Terminal
    <3>2. lastId' \in 0 .. MaxId /\ lastId' = lastId + 1
      BY <1>2, <2>4 DEF Transition, NextId
    <3> QED BY <1>2, <2>4, <3>1, <3>2 DEF Transition
  <2> QED BY <2>1, <2>2, <2>3, <2>4
<1>4. Others'
  BY <1>1, <1>3 DEF Others, Base, TypeOK, clientVars, boundVars
<1>5. TypeOK' /\ SlotsAddUp'
  BY <1>1, <1>4, TypeParts, TypePartsPrimed DEF Base, SlotsAddUp, Streaming, deadVars
<1> QED BY <1>5 DEF Base

\* The route: a slot is counted when the stream becomes one.
LEMMA RouteBase ==
  ASSUME Base, NEW c \in Clients, ResolveCursor(c) \/ Connect(c)
  PROVE  Base'
<1>1. gen \in [Clients -> Generator] /\ gen[c] \in Generator
  BY Types DEF Base
<1>2. CASE ResolveCursor(c)
  <2>0. PICK candidate \in 0 .. MaxId :
          /\ \/ candidate = last[c] /\ UNCHANGED drops
             \/ candidate \notin events /\ drops < MaxDrops /\ drops' = drops + 1
          /\ gen' = [gen EXCEPT ![c].pc = "resolved",
                                ![c].cursor = IF candidate \in events THEN candidate ELSE 0]
    BY <1>2, Zenon DEF ResolveCursor
  <2>1. Others'
    <3>1. drops' \in 0 .. MaxDrops
      BY <2>0, StreamAssumption DEF Base, TypeOK
    <3> QED BY <1>2, <3>1, Zenon DEF ResolveCursor, Base, TypeOK, Others, jobVars, clientVars
  <2>2. PICK cursor \in 0 .. MaxId : gen' = [gen EXCEPT ![c].pc = "resolved", ![c].cursor = cursor]
    <3>1. 0 \in 0 .. MaxId
      BY StreamAssumption
    <3> QED BY <2>0, <3>1, Zenon
  <2> DEFINE g == [gen[c] EXCEPT !.pc = "resolved", !.cursor = cursor]
  <2>3. g \in Generator /\ g.pc = "resolved" /\ gen' = [gen EXCEPT ![c] = g]
    BY <1>1, <2>2, Zenon DEF Generator, PCs
  <2>4. g.pc \in InStream <=> gen[c].pc \in InStream
    BY <1>2, <2>3 DEF ResolveCursor, InStream
  <2> HIDE DEF g
  <2> QED BY <1>2, <2>1, <2>3, <2>4, StaysBase, Zenon DEF ResolveCursor, deadVars
<1>3. CASE Connect(c)
  <2>1. Others'
    BY <1>3 DEF Connect, Base, TypeOK, Others, jobVars, clientVars, boundVars
  <2>2. CASE gen' = [gen EXCEPT ![c] = Idle] /\ UNCHANGED active
    BY <1>3, <2>1, <2>2, IdleType, StaysBase, Zenon DEF Connect, deadVars, InStream
  <2>3. CASE TryAcquire /\ gen' = [gen EXCEPT ![c].pc = "acquired"]
    <3> DEFINE g == [gen[c] EXCEPT !.pc = "acquired"]
    <3>1. g \in Generator /\ g.pc = "acquired" /\ gen' = [gen EXCEPT ![c] = g]
      BY <1>1, <2>3 DEF Generator, PCs, InStream
    <3> HIDE DEF g
    <3>2. gen' \in [Clients -> Generator]
      BY <1>1, <3>1
    <3>3. Streaming' = Streaming \cup {c} /\ c \notin Streaming
      BY <1>1, <1>3, <3>1 DEF Streaming, InStream, Connect
    <3>4. Cardinality(Streaming)' = Cardinality(Streaming) + 1
      BY <3>3, Types, FS_AddElement, Zenon DEF Base
    <3>5. active' = active + 1 /\ active' \in 0 .. MaxConnections
      BY <2>3, StreamAssumption DEF TryAcquire, Base, TypeOK
    <3>6. TypeOK'
      BY <1>3, <2>1, <3>2, <3>5, TypeParts, TypePartsPrimed DEF Base, Connect, deadVars
    <3>7. Cardinality(Streaming) \in Nat /\ active \in Nat /\ dropped \in Nat /\ unstarted \in Nat
      BY Types DEF Base
    <3>8. SlotsAddUp'
      BY <1>3, <3>4, <3>5, <3>7 DEF SlotsAddUp, Base, Connect, deadVars
    <3> QED BY <3>6, <3>8 DEF Base
  <2> QED BY <1>3, <2>2, <2>3 DEF Connect
<1> QED BY <1>2, <1>3

\* The batch is a set of ids.
LEMMA BatchType ==
  ASSUME TypeOK, NEW c \in Clients PROVE Batch(c) \subseteq events /\ Batch(c) \in SUBSET (1 .. MaxId)
<1>1. events \subseteq 1 .. MaxId
  BY StreamAssumption DEF TypeOK
<1> QED BY <1>1, Zenon DEF Batch

\* The generator: a slot is given back where it ends, and only there.
LEMMA GeneratorBase ==
  ASSUME Base, NEW c \in Clients,
         Start(c) \/ CheckDuration(c) \/ ReadStatus(c) \/ ReadEvents(c)
         \/ QueryFails(c) \/ YieldEvent(c) \/ AfterBatch(c)
  PROVE  Base'
<1>1. gen \in [Clients -> Generator] /\ gen[c] \in Generator
  BY Types DEF Base
<1>2. UNCHANGED <<jobVars, deadVars, drops, restarts>> /\ gen[c].pc \in InStream
  BY DEF Start, CheckDuration, ReadStatus, ReadEvents, QueryFails, YieldEvent, AfterBatch,
         InStream, boundVars
<1>3. Others'
  <2>1. faults' \in 0 .. MaxFaults
    BY StreamAssumption DEF Start, CheckDuration, ReadStatus, ReadEvents, QueryFails, YieldEvent,
       AfterBatch, boundVars, Base, TypeOK
  <2>2. last' \in [Clients -> 0 .. MaxId] /\ got' \in [Clients -> SUBSET (1 .. MaxId)]
    <3>1. /\ last \in [Clients -> 0 .. MaxId] /\ got \in [Clients -> SUBSET (1 .. MaxId)]
          /\ gen[c].batch \subseteq 1 .. MaxId
      BY <1>1 DEF Base, TypeOK, Generator
    <3>2. CASE YieldEvent(c)
      <4>1. PICK e \in gen[c].batch : /\ last' = [last EXCEPT ![c] = e]
                                      /\ got' = [got EXCEPT ![c] = @ \cup {e}]
        BY <3>2, Zenon DEF YieldEvent
      <4>2. e \in 1 .. MaxId /\ e \in 0 .. MaxId
        BY <3>1, <4>1, StreamAssumption
      <4> QED BY <3>1, <4>1, <4>2
    <3>3. CASE UNCHANGED <<last, got>>
      BY <3>1, <3>3
    <3> QED BY <3>2, <3>3 DEF Start, CheckDuration, ReadStatus, ReadEvents, QueryFails, AfterBatch,
               clientVars
  <2>3. verdict' \in [Clients -> {"none"} \cup Terminal]
    <3>1. verdict \in [Clients -> {"none"} \cup Terminal]
      BY DEF Base, TypeOK
    <3>2. CASE AfterBatch(c)
      BY <3>1, <3>2 DEF AfterBatch
    <3>3. CASE UNCHANGED verdict
      BY <3>1, <3>3
    <3> QED BY <3>2, <3>3 DEF Start, CheckDuration, ReadStatus, ReadEvents, QueryFails, YieldEvent,
               clientVars
  <2> QED BY <1>2, <2>1, <2>2, <2>3 DEF Others, Base, TypeOK, jobVars
<1>4. CASE Return(c)
  BY <1>2, <1>3, <1>4, ReturnBase DEF deadVars
<1>5. ASSUME UNCHANGED active, NEW g \in Generator, gen' = [gen EXCEPT ![c] = g], g.pc \in InStream
      PROVE  Base'
  BY <1>2, <1>3, <1>5, StaysBase, Zenon DEF deadVars
<1>6. ASSUME UNCHANGED active, NEW to \in InStream, gen' = [gen EXCEPT ![c].pc = to]
      PROVE  Base'
  <2>1. [gen[c] EXCEPT !.pc = to] \in Generator
    BY <1>1 DEF Generator, PCs
  <2>2. [gen[c] EXCEPT !.pc = to].pc \in InStream /\ gen' = [gen EXCEPT ![c] = [gen[c] EXCEPT !.pc = to]]
    BY <1>1, <1>6 DEF Generator
  <2> QED BY <1>5, <1>6, <2>1, <2>2, Zenon
<1>7. CASE Start(c)
  BY <1>6, <1>7 DEF Start, InStream
<1>8. CASE CheckDuration(c)
  BY <1>4, <1>6, <1>8 DEF CheckDuration, InStream
<1>9. CASE ReadStatus(c)
  <2> DEFINE g == [gen[c] EXCEPT !.pc = "events", !.seen = status]
  <2>1. g \in Generator
    BY <1>1, Zenon DEF Generator, PCs, InStream, Base, TypeOK
  <2>2. g.pc \in InStream /\ gen' = [gen EXCEPT ![c] = g]
    BY <1>1, <1>9, Zenon DEF ReadStatus, Generator, InStream
  <2> HIDE DEF g
  <2> QED BY <1>5, <1>9, <2>1, <2>2, Zenon DEF ReadStatus
<1>10. CASE ReadEvents(c)
  <2> DEFINE m == IF Cardinality(Batch(c)) >= BatchSize THEN "maybe" ELSE "no"
             g == [gen[c] EXCEPT !.pc = "yield", !.batch = Batch(c), !.more = m, !.tries = 0]
  <2>1. gen' = [gen EXCEPT ![c] = g]
    BY <1>1, <1>10, Zenon DEF ReadEvents, Generator
  <2>2. m \in {"maybe", "no"} /\ Batch(c) \in SUBSET (1 .. MaxId) /\ 0 \in 0 .. MaxRetries
    BY BatchType, StreamAssumption DEF Base
  <2> HIDE DEF m
  <2>3. g \in Generator /\ g.pc \in InStream
    BY <1>1, <2>2, Zenon DEF Generator, PCs, InStream
  <2> HIDE DEF g
  <2> QED BY <1>5, <1>10, <2>1, <2>3, Zenon DEF ReadEvents
<1>11. CASE QueryFails(c)
  <2>1. CASE /\ gen[c].tries < MaxRetries /\ UNCHANGED active
             /\ gen' = [gen EXCEPT ![c].pc = "status", ![c].tries = @ + 1]
    <3> DEFINE g == [gen[c] EXCEPT !.pc = "status", !.tries = @ + 1]
    <3>1. gen' = [gen EXCEPT ![c] = g]
      BY <1>1, <2>1 DEF Generator
    <3>2. gen[c].tries + 1 \in 0 .. MaxRetries
      BY <1>1, <2>1, StreamAssumption DEF Generator
    <3>3. g \in Generator /\ g.pc \in InStream
      BY <1>1, <3>2, Zenon DEF Generator, PCs, InStream
    <3> HIDE DEF g
    <3> QED BY <1>5, <2>1, <3>1, <3>3, Zenon
  <2> QED BY <1>4, <1>11, <2>1 DEF QueryFails
<1>12. CASE YieldEvent(c)
  <2>1. PICK e \in gen[c].batch : gen' = [gen EXCEPT ![c].batch = @ \ {e}, ![c].cursor = e]
    BY <1>12, Zenon DEF YieldEvent
  <2> DEFINE g == [gen[c] EXCEPT !.batch = @ \ {e}, !.cursor = e]
  <2>2. gen' = [gen EXCEPT ![c] = g]
    BY <1>1, <2>1, Zenon DEF Generator
  <2>3. e \in 0 .. MaxId
    BY <1>1, StreamAssumption DEF Generator
  <2>4. g \in Generator /\ g.pc \in InStream
    BY <1>1, <1>2, <2>3, Zenon DEF Generator
  <2> HIDE DEF g
  <2> QED BY <1>5, <1>12, <2>2, <2>4, Zenon DEF YieldEvent
<1>13. CASE AfterBatch(c)
  BY <1>4, <1>6, <1>13 DEF AfterBatch, InStream
<1> QED BY <1>7, <1>8, <1>9, <1>10, <1>11, <1>12, <1>13

\* Lost clients keep their slot until their generator is closed.
LEMMA LossBase ==
  ASSUME Base, CloseDropped \/ Restart \/ \E c \in Clients : Disconnect(c) \/ DisconnectEarly(c)
  PROVE  Base'
<1>1. /\ active \in 0 .. MaxConnections /\ dropped \in Nat /\ unstarted \in Nat
      /\ Cardinality(Streaming) \in Nat /\ MaxConnections \in Nat
      /\ active = Cardinality(Streaming) + dropped + unstarted
  BY Types, StreamAssumption DEF Base, TypeOK, SlotsAddUp
<1>2. CASE CloseDropped
  <2>1. active' = active - 1 /\ dropped' = dropped - 1 /\ dropped' \in Nat
    BY <1>1, <1>2 DEF CloseDropped, Release
  <2>2. Others' /\ UNCHANGED <<gen, unstarted, Streaming>>
    BY <1>2 DEF CloseDropped, Others, Base, TypeOK, jobVars, clientVars, boundVars, Streaming
  <2>3. TypeOK'
    BY <1>1, <2>1, <2>2, TypeParts, TypePartsPrimed DEF Base
  <2>4. SlotsAddUp'
    BY <1>1, <2>1, <2>2 DEF SlotsAddUp
  <2> QED BY <2>3, <2>4 DEF Base
<1>3. CASE Restart
  <2>1. Others'
    BY <1>3, StreamAssumption DEF Restart, Others, Base, TypeOK, jobVars, clientVars
  <2>2. gen' \in [Clients -> Generator] /\ Streaming' = {}
    BY <1>3, IdleType DEF Restart, Streaming, InStream
  <2>3. Cardinality(Streaming)' = 0
    BY <2>2, FS_EmptySet
  <2>4. TypeOK'
    BY <1>1, <1>3, <2>1, <2>2, TypePartsPrimed DEF Restart
  <2>5. SlotsAddUp'
    BY <1>3, <2>3 DEF SlotsAddUp, Restart
  <2> QED BY <2>4, <2>5 DEF Base
<1>4. ASSUME NEW c \in Clients, Disconnect(c) \/ DisconnectEarly(c) PROVE Base'
  <2>1. gen[c].pc \in InStream /\ gen' = [gen EXCEPT ![c] = Idle] /\ UNCHANGED active
    BY <1>4 DEF Disconnect, DisconnectEarly, InStream
  <2>2. Others'
    <3>1. drops \in 0 .. MaxDrops /\ MaxDrops \in Nat /\ drops < MaxDrops /\ drops' = drops + 1
      BY <1>4, StreamAssumption DEF Disconnect, DisconnectEarly, Base, TypeOK
    <3>2. drops' \in 0 .. MaxDrops
      BY <3>1
    <3> QED BY <1>4, <3>2, Zenon DEF Disconnect, DisconnectEarly, Others, Base, TypeOK, jobVars, clientVars
  <2>3. /\ gen' \in [Clients -> Generator]
        /\ Cardinality(Streaming)' = Cardinality(Streaming) - 1
    BY <2>1, Leaves, Zenon DEF Base
  <2>4. \/ dropped' = dropped + 1 /\ unstarted' = unstarted
        \/ dropped' = dropped /\ unstarted' = unstarted + 1
    BY <1>4 DEF Disconnect, DisconnectEarly
  <2>5. TypeOK'
    BY <1>1, <2>1, <2>2, <2>3, <2>4, TypePartsPrimed
  <2>6. active' = (Cardinality(Streaming) - 1) + dropped' + unstarted'
    <3> DEFINE n == Cardinality(Streaming)
    <3>1. n \in Nat /\ active' = n + dropped + unstarted
      BY <1>1, <2>1
    <3> SUFFICES active' = (n - 1) + dropped' + unstarted'
      OBVIOUS
    <3> HIDE DEF n
    <3>2. CASE dropped' = dropped + 1 /\ unstarted' = unstarted
      BY <1>1, <3>1, <3>2
    <3>3. CASE dropped' = dropped /\ unstarted' = unstarted + 1
      BY <1>1, <3>1, <3>3
    <3> QED BY <2>4, <3>2, <3>3
  <2>7. SlotsAddUp'
    BY <2>3, <2>6 DEF SlotsAddUp
  <2> QED BY <2>5, <2>7 DEF Base
<1> QED BY <1>2, <1>3, <1>4

\* For any clients, limits and writers: the values are what they should be, and
\* the registry counts every slot exactly once.
THEOREM RegistryCorrect == Spec => []Base
<1>1. Init => Base
  <2> SUFFICES ASSUME Init PROVE Base
    OBVIOUS
  <2>1. Others
    BY StreamAssumption DEF Init, Others, Statuses
  <2>2. gen \in [Clients -> Generator] /\ Streaming = {}
    BY IdleType DEF Init, Streaming, InStream
  <2>3. TypeOK
    BY <2>1, <2>2, StreamAssumption, TypeParts DEF Init
  <2>4. SlotsAddUp
    BY <2>2, FS_EmptySet DEF Init, SlotsAddUp
  <2> QED BY <2>3, <2>4 DEF Base
<1>2. Base /\ [Next]_vars => Base'
  <2>1. ASSUME Base, UNCHANGED vars PROVE Base'
    <3>1. Others' /\ UNCHANGED <<gen, active, dropped, unstarted>>
      BY <2>1 DEF vars, Base, TypeOK, Others, jobVars, clientVars, boundVars, deadVars
    <3> QED BY <2>1, <3>1, TypeParts, TypePartsPrimed DEF Base, SlotsAddUp, Streaming
  <2> QED BY <2>1, WriterBase, RouteBase, GeneratorBase, LossBase DEF Next, ServerStep
<1> QED BY <1>1, <1>2, PTL DEF Spec

\* StreamConnectionRegistry loses no slot and frees none twice: every way out of
\* a stream that has started gives back exactly the slot it took.
THEOREM SlotsNeverLost == Spec => []SlotsAddUp
<1>1. Base => SlotsAddUp
  BY DEF Base
<1> QED BY <1>1, RegistryCorrect, PTL

-----------------------------------------------------------------------------
(* What clients receive, with one writer.                                  *)

\* The event being written has the highest id so far and is not yet seen; once
\* the job has ended it comes after the event that said so.
Order == \A e \in open : e = lastId /\ e \notin events /\ (status \in Terminal => endId < e)

\* Whatever lies before the cursor, or before the last event received, is there.
Position(c) ==
  /\ last[c] \in events \cup {0}
  /\ \A e \in events : e <= last[c] => e \in got[c]
  /\ gen[c].cursor \in events \cup {0}
  /\ \A e \in events : e <= gen[c].cursor => e \in got[c]

\* What is left of a snapshot is the beginning of what follows the cursor; all of
\* it up to the end of the job, if the snapshot was the last one.
Snapshot(c) ==
  gen[c].pc = "yield" =>
    /\ gen[c].batch \subseteq events
    /\ \A b \in gen[c].batch : gen[c].cursor < b
    /\ \A e \in events : gen[c].cursor < e =>
         e \in gen[c].batch \/ \A b \in gen[c].batch : b < e
    /\ gen[c].seen \in Terminal /\ gen[c].more = "no" =>
         \A e \in events : gen[c].cursor < e /\ e <= endId => e \in gen[c].batch

\* A terminal status that was read, or told to the client, is that of the job.
Ends(c) ==
  /\ gen[c].seen \in Terminal => gen[c].seen = status
  /\ verdict[c] # "none" =>
       /\ verdict[c] = status
       /\ \A e \in events : e <= endId => e \in got[c]

Good(c) == Position(c) /\ Snapshot(c) /\ Ends(c)

\* The inductive invariant, next to TypeOK.
Received == Order /\ \A c \in Clients : Good(c)

\* A set of numbers that is not empty has a least one.
LEMMA Least ==
  ASSUME NEW T \in SUBSET Nat, T # {}
  PROVE  \E x \in T : \A y \in T : x <= y
<1> DEFINE R == OpToRel(<, Nat)
<1>1. PICK x \in T : \A y \in T : ~ (<<y, x>> \in R)
  BY WFMin, NatLessThanWellFounded, Zenon
<1>2. \A y \in T : ~ (y < x)
  <2> SUFFICES ASSUME NEW y \in T, y < x PROVE FALSE
    OBVIOUS
  <2>1. <<y, x>> \in R
    BY DEF OpToRel
  <2> QED BY <1>1, <2>1, Zenon
<1>3. \A y \in T : x <= y
  BY <1>2
<1> QED BY <1>3

\* The query returns the beginning of what follows the cursor, and all of it if
\* the batch is not full.
LEMMA BatchIsPrefix ==
  ASSUME TypeOK, NEW c \in Clients
  PROVE  /\ Batch(c) \subseteq {e \in events : gen[c].cursor < e}
         /\ \A e \in events : gen[c].cursor < e =>
              e \in Batch(c) \/ \A b \in Batch(c) : b < e
         /\ ~ (Cardinality(Batch(c)) >= BatchSize) =>
              \A e \in events : gen[c].cursor < e => e \in Batch(c)
<1> DEFINE after(n) == {e \in events : gen[c].cursor < e /\ e <= n}
<1>1. gen[c].cursor \in Nat /\ MaxId \in Nat /\ BatchSize \in Nat /\ events \subseteq 1 .. MaxId
  BY GeneratorStep, StreamAssumption DEF TypeOK, Generator
<1>2. Batch(c) = {e \in after(MaxId) : Cardinality(after(e)) <= BatchSize}
  BY DEF Batch
<1>3. \A n, e : e \in after(n) <=> e \in events /\ gen[c].cursor < e /\ e <= n
  OBVIOUS
<1> HIDE DEF after
<1>4. \A e \in events : e \in Nat /\ e <= MaxId
  BY <1>1
<1>8. \A n : IsFiniteSet(after(n)) /\ Cardinality(after(n)) \in Nat
  <2>1. IsFiniteSet(1 .. MaxId)
    BY <1>1, FS_Interval
  <2>2. ASSUME NEW n PROVE after(n) \in SUBSET (1 .. MaxId)
    BY <1>1, <1>3, Zenon
  <2> QED BY <2>1, <2>2, FS_Subset, FS_CardinalityType, Zenon
<1>9. \A e \in events : gen[c].cursor < e => e \in after(MaxId) /\ e \in after(e)
  BY <1>3, <1>4
<1>5. Batch(c) \subseteq {e \in events : gen[c].cursor < e}
  BY <1>2, <1>3
<1>6. ASSUME NEW e \in events, gen[c].cursor < e, e \notin Batch(c), NEW b \in Batch(c)
      PROVE  b < e
  <2> SUFFICES ASSUME e < b PROVE FALSE
    <3>1. b \in Nat /\ e \in Nat /\ b # e
      BY <1>4, <1>5, <1>6
    <3> QED BY <3>1
  <2>1. b \in Nat /\ e \in Nat /\ Cardinality(after(b)) <= BatchSize
    BY <1>2, <1>4, <1>5
  <2>2. after(e) \in SUBSET after(b)
    <3>1. ASSUME NEW y \in after(e) PROVE y \in after(b)
      <4>1. y \in events /\ gen[c].cursor < y /\ y <= e /\ y \in Nat
        BY <1>3, <1>4
      <4>2. y <= b
        BY <2>1, <4>1
      <4> QED BY <1>3, <4>1, <4>2
    <3> QED BY <3>1
  <2>3. IsFiniteSet(after(b)) /\ Cardinality(after(b)) \in Nat /\ Cardinality(after(e)) \in Nat
    BY <1>8
  <2>4. Cardinality(after(e)) <= Cardinality(after(b))
    BY <2>2, <2>3, FS_Subset
  <2>5. Cardinality(after(e)) <= BatchSize
    BY <1>1, <2>1, <2>3, <2>4
  <2> QED BY <1>2, <1>6, <1>9, <2>5
<1>7. ASSUME ~ (Cardinality(Batch(c)) >= BatchSize), NEW f \in events, gen[c].cursor < f,
             f \notin Batch(c)
      PROVE  FALSE
  <2> DEFINE left == {e \in events : gen[c].cursor < e /\ e \notin Batch(c)}
  <2>1. left \in SUBSET Nat /\ left # {}
    BY <1>4, <1>7
  <2>2. PICK x \in left : \A y \in left : x <= y
    BY <2>1, Least, Zenon
  <2>3. after(x) \subseteq Batch(c) \cup {x} /\ x \in Nat
    <3>1. x \in Nat
      BY <2>1, <2>2
    <3>2. ASSUME NEW y \in after(x), y \notin Batch(c) PROVE y = x
      <4>1. y \in events /\ gen[c].cursor < y /\ y <= x /\ y \in Nat
        BY <1>3, <1>4, <3>2
      <4>2. y \in left
        BY <3>2, <4>1
      <4>3. x <= y
        BY <2>2, <4>2
      <4> QED BY <3>1, <4>1, <4>3
    <3> QED BY <3>1, <3>2
  <2>4. IsFiniteSet(Batch(c))
    <3>1. IsFiniteSet(after(MaxId)) /\ Batch(c) \in SUBSET after(MaxId)
      BY <1>2, <1>8
    <3> QED BY <3>1, FS_Subset
  <2>5. IsFiniteSet(Batch(c) \cup {x}) /\ Cardinality(Batch(c) \cup {x}) = Cardinality(Batch(c)) + 1
    BY <2>2, <2>4, FS_AddElement
  <2>6. Cardinality(after(x)) <= Cardinality(Batch(c)) + 1
    <3>1. after(x) \in SUBSET (Batch(c) \cup {x})
      BY <2>3
    <3>2. Cardinality(after(x)) <= Cardinality(Batch(c) \cup {x})
      BY <2>5, <3>1, FS_Subset
    <3> QED BY <2>5, <3>2
  <2>7. Cardinality(Batch(c)) \in Nat /\ Cardinality(after(x)) \in Nat
    BY <1>8, <2>4, FS_CardinalityType
  <2>8. Cardinality(after(x)) <= BatchSize
    <3> DEFINE p == Cardinality(Batch(c))
               q == Cardinality(after(x))
    <3>1. p \in Nat /\ q \in Nat /\ ~ (p >= BatchSize) /\ q <= p + 1
      BY <1>7, <2>6, <2>7
    <3> HIDE DEF p, q
    <3>2. q <= BatchSize
      BY <1>1, <3>1
    <3> QED BY <3>2 DEF q
  <2>9. x \in after(MaxId)
    BY <1>9, <2>2
  <2>10. x \in Batch(c)
    BY <1>2, <2>8, <2>9
  <2> QED BY <2>2, <2>10
<1> QED BY <1>5, <1>6, <1>7

\* A client that a step does not concern.
LEMMA GoodKept ==
  ASSUME NEW d \in Clients, Good(d), UNCHANGED jobVars, gen'[d] = gen[d],
         last'[d] = last[d], got'[d] = got[d], verdict'[d] = verdict[d]
  PROVE  Good(d)'
<1>1. Position(d)'
  BY DEF Good, Position, jobVars
<1>2. Snapshot(d)'
  BY DEF Good, Snapshot, jobVars
<1>3. Ends(d)'
  BY DEF Good, Ends, jobVars
<1> QED BY <1>1, <1>2, <1>3 DEF Good

\* A step of one client: what remains to be shown is about this client.
LEMMA OneClient ==
  ASSUME TypeOK, Received, NEW c \in Clients, UNCHANGED jobVars, Good(c)',
         \A d \in Clients : d # c => /\ gen'[d] = gen[d] /\ last'[d] = last[d]
                                     /\ got'[d] = got[d] /\ verdict'[d] = verdict[d]
  PROVE  Received'
<1>1. Order'
  BY DEF Received, Order, jobVars
<1>2. ASSUME NEW d \in Clients, d # c PROVE Good(d)'
  BY <1>2, GoodKept DEF Received
<1> QED BY <1>1, <1>2 DEF Received

\* Ids are positive.
LEMMA Ids ==
  ASSUME TypeOK
  PROVE  /\ \A e \in events : e \in Nat /\ 0 < e /\ e <= lastId
         /\ lastId \in Nat /\ endId \in Nat /\ endId <= lastId
BY StreamAssumption DEF TypeOK

\* A client without a generator keeps what it has received.
LEMMA IdleGood ==
  ASSUME TypeOK, NEW d \in Clients, Good(d), UNCHANGED jobVars, gen'[d] = Idle,
         last'[d] = last[d], got'[d] = got[d], verdict'[d] = verdict[d]
  PROVE  Good(d)'
<1>1. /\ gen'[d].cursor = 0 /\ gen'[d].seen = "NONE" /\ gen'[d].pc = "idle"
  BY DEF Idle
<1>2. Position(d)'
  <2>1. \A e \in events' : ~ (e <= 0)
    BY Ids DEF jobVars
  <2> QED BY <1>1, <2>1 DEF Good, Position, jobVars
<1>3. Snapshot(d)'
  BY <1>1 DEF Snapshot
<1>4. Ends(d)'
  BY <1>1 DEF Good, Ends, jobVars, Terminal
<1> QED BY <1>2, <1>3, <1>4 DEF Good

\* A new event has an id above those of all others, and above that of the event
\* that reported the end.
LEMMA NewEvent ==
  ASSUME TypeOK, NEW d \in Clients, Good(d), NEW n \in Nat, \A e \in events : e < n, 0 < n,
         events' = events \/ events' = events \cup {n},
         UNCHANGED <<gen, last, got, verdict>>,
         status \in Terminal => status' = status /\ endId' = endId /\ endId < n
  PROVE  Good(d)'
<1> DEFINE g == gen[d]
<1>1. gen' = gen /\ last' = last /\ got' = got /\ verdict' = verdict /\ events \subseteq events'
  OBVIOUS
<1>2. \A e \in events' : e \in events \/ e = n
  OBVIOUS
<1>3. Position(d) /\ Snapshot(d) /\ Ends(d)
  BY DEF Good
<1>4. last[d] < n /\ g.cursor < n /\ last[d] \in Nat /\ g.cursor \in Nat
  BY <1>3, Ids DEF Position
<1>5. Position(d)'
  BY <1>1, <1>2, <1>3, <1>4 DEF Position
<1>6. Snapshot(d)'
  <2> SUFFICES ASSUME g.pc = "yield" PROVE Snapshot(d)'
    BY <1>1 DEF Snapshot
  <2>1. /\ g.batch \subseteq events
        /\ \A b \in g.batch : g.cursor < b
        /\ \A e \in events : g.cursor < e => e \in g.batch \/ \A b \in g.batch : b < e
        /\ g.seen \in Terminal /\ g.more = "no" =>
             \A e \in events : g.cursor < e /\ e <= endId => e \in g.batch
    BY <1>3 DEF Snapshot
  <2>2. \A b \in g.batch : b < n
    BY <2>1
  <2>3. \A e \in events' : g.cursor < e => e \in g.batch \/ \A b \in g.batch : b < e
    BY <1>2, <2>1, <2>2
  <2>4. ASSUME g.seen \in Terminal, g.more = "no", NEW e \in events', g.cursor < e, e <= endId'
        PROVE  e \in g.batch
    <3>1. status \in Terminal /\ endId' = endId /\ endId < n
      BY <1>3, <2>4 DEF Ends
    <3>2. e # n
      BY <2>4, <3>1, Ids
    <3> QED BY <1>2, <2>1, <2>4, <3>1, <3>2, Zenon
  <2> QED BY <1>1, <2>1, <2>3, <2>4, ZenonT(30) DEF Snapshot
<1>7. Ends(d)'
  <2>1. verdict[d] # "none" => verdict[d] \in Terminal
    BY DEF TypeOK
  <2>2. g.seen \in Terminal => g.seen = status'
    BY <1>3 DEF Ends
  <2>3. ASSUME verdict[d] # "none" PROVE verdict[d] = status' /\ \A e \in events' : e <= endId' => e \in got[d]
    <3>1. status \in Terminal /\ status' = status /\ endId' = endId /\ endId < n
      BY <1>3, <2>1, <2>3 DEF Ends
    <3>2. ~ (n <= endId)
      BY <3>1, Ids
    <3> QED BY <1>2, <1>3, <2>3, <3>1, <3>2 DEF Ends
  <2> QED BY <1>1, <2>2, <2>3 DEF Ends
<1> QED BY <1>5, <1>6, <1>7 DEF Good

\* One writer: its events become visible in the order of their ids.
LEMMA WriterReceived ==
  ASSUME MaxWriters = 1, TypeOK, Received, CreateJob \/ AppendEvent \/ CommitEvent \/ Transition
  PROVE  Received'
<1>1. UNCHANGED <<gen, last, got, verdict>>
  BY DEF CreateJob, AppendEvent, CommitEvent, Transition, clientVars
<1>2. lastId \in Nat /\ \A e \in events : e < lastId + 1
  BY Ids
<1>3. NextId => open = {} /\ lastId' = lastId + 1
  <2>1. IsFiniteSet(open)
    <3>1. open \in SUBSET (1 .. lastId) /\ IsFiniteSet(1 .. lastId)
      BY <1>2, FS_Interval DEF TypeOK
    <3> QED BY <3>1, FS_Subset, Zenon
  <2>2. Cardinality(open) \in Nat
    BY <2>1, FS_CardinalityType
  <2>3. Cardinality(open) < MaxWriters => Cardinality(open) = 0
    BY <2>2
  <2> QED BY <2>1, <2>3, FS_EmptySet DEF NextId
<1>4. CASE CreateJob
  <2>1. ASSUME NEW d \in Clients PROVE Good(d)'
    <3>1. status \notin Terminal /\ events' = events /\ 0 < lastId + 1 /\ lastId + 1 \in Nat
      BY <1>2, <1>4 DEF CreateJob, Terminal
    <3> QED BY <1>1, <1>2, <3>1, NewEvent DEF Received
  <2>2. Order'
    BY <1>4 DEF CreateJob, Received, Order, Terminal
  <2> QED BY <2>1, <2>2 DEF Received
<1>5. CASE AppendEvent
  <2>1. open = {} /\ open' = {lastId + 1} /\ lastId' = lastId + 1 /\ UNCHANGED <<status, events, endId>>
    BY <1>3, <1>5 DEF AppendEvent
  <2>2. ASSUME NEW d \in Clients PROVE Good(d)'
    <3>1. 0 < lastId + 1 /\ lastId + 1 \in Nat /\ endId < lastId + 1
      BY <1>2, Ids
    <3> QED BY <1>1, <1>2, <2>1, <3>1, NewEvent DEF Received
  <2>3. Order'
    <3>1. endId < lastId + 1 /\ lastId + 1 \notin events
      BY <1>2, Ids
    <3> QED BY <2>1, <3>1 DEF Order
  <2> QED BY <2>2, <2>3 DEF Received
<1>6. CASE CommitEvent
  <2>1. PICK e \in open : open' = open \ {e} /\ events' \in {events, events \cup {e}}
    BY <1>6 DEF CommitEvent
  <2>2. e = lastId /\ e \notin events /\ (status \in Terminal => endId < e) /\ open' = {}
    BY <2>1 DEF Received, Order
  <2>3. UNCHANGED <<status, endId>>
    BY <1>6 DEF CommitEvent
  <2>4. ASSUME NEW d \in Clients PROVE Good(d)'
    <3>1. e \in Nat /\ 0 < e
      BY <1>2, <2>1 DEF TypeOK
    <3>2. \A f \in events : f < e
      BY <2>2, Ids
    <3> QED BY <1>1, <2>1, <2>2, <2>3, <3>1, <3>2, NewEvent DEF Received
  <2>5. Order'
    BY <2>2 DEF Order
  <2> QED BY <2>4, <2>5 DEF Received
<1>7. CASE Transition
  <2>1. open' = {} /\ events' = events \cup {lastId + 1} /\ status \notin Terminal
    BY <1>3, <1>7 DEF Transition, Terminal
  <2>2. ASSUME NEW d \in Clients PROVE Good(d)'
    <3>1. 0 < lastId + 1 /\ lastId + 1 \in Nat
      BY <1>2
    <3> QED BY <1>1, <1>2, <2>1, <3>1, NewEvent DEF Received
  <2>3. Order'
    BY <2>1 DEF Order
  <2> QED BY <2>2, <2>3 DEF Received
<1> QED BY <1>4, <1>5, <1>6, <1>7

\* The cursor of a new request is one the client has caught up to, or the start.
LEMMA RouteReceived ==
  ASSUME TypeOK, Received, NEW c \in Clients, ResolveCursor(c) \/ Connect(c)
  PROVE  Received'
<1>1. gen \in [Clients -> Generator] /\ gen[c] \in Generator
  BY Types
<1>2. Good(c) /\ UNCHANGED jobVars /\ UNCHANGED <<last, got, verdict>>
  BY ZenonT(30) DEF Received, ResolveCursor, Connect, clientVars
<1>3. CASE ResolveCursor(c)
  <2>1. PICK candidate \in 0 .. MaxId :
          /\ candidate = last[c] \/ candidate \notin events
          /\ gen' = [gen EXCEPT ![c].pc = "resolved",
                                ![c].cursor = IF candidate \in events THEN candidate ELSE 0]
    BY <1>3, ZenonT(30) DEF ResolveCursor
  <2> DEFINE k == IF candidate \in events THEN candidate ELSE 0
  <2>2. /\ gen'[c].pc = "resolved" /\ gen'[c].cursor = k /\ gen'[c].seen = gen[c].seen
        /\ \A d \in Clients : d # c => gen'[d] = gen[d]
    BY <1>1, <2>1 DEF Generator
  <2>3. k \in events \cup {0} /\ \A e \in events : e <= k => e \in got[c]
    BY <1>2, <2>1, Ids DEF Good, Position
  <2> HIDE DEF k
  <2>4. Good(c)'
    BY <1>2, <2>2, <2>3 DEF Good, Position, Snapshot, Ends, jobVars
  <2> QED BY <1>2, <2>2, <2>4, OneClient
<1>4. CASE Connect(c)
  <2>1. CASE gen' = [gen EXCEPT ![c] = Idle]
    BY <1>1, <1>2, <2>1, IdleGood, OneClient
  <2>2. CASE gen' = [gen EXCEPT ![c].pc = "acquired"]
    <3>1. /\ gen'[c].pc = "acquired" /\ gen'[c].cursor = gen[c].cursor /\ gen'[c].seen = gen[c].seen
          /\ \A d \in Clients : d # c => gen'[d] = gen[d]
      BY <1>1, <2>2, Zenon DEF Generator
    <3>2. Good(c)'
      BY <1>2, <3>1, Zenon DEF Good, Position, Snapshot, Ends, jobVars
    <3> QED BY <1>2, <3>1, <3>2, OneClient
  <2> QED BY <1>4, <2>1, <2>2, ZenonT(30) DEF Connect
<1> QED BY <1>3, <1>4

\* A step of the generator that does not come to a yield and moves no cursor.
LEMMA MoveGood ==
  ASSUME TypeOK, Received, NEW c \in Clients, UNCHANGED jobVars, UNCHANGED <<last, got, verdict>>,
         gen'[c].pc # "yield", gen'[c].cursor = gen[c].cursor, gen'[c].seen \in {gen[c].seen, status},
         \A d \in Clients : d # c => gen'[d] = gen[d]
  PROVE  Received'
<1>1. Good(c)'
  BY DEF Received, Good, Position, Snapshot, Ends, jobVars
<1> QED BY <1>1, OneClient, ZenonT(30)

\* The generator: between two reads, at a yield, at the end.
LEMMA GeneratorReceived ==
  ASSUME TypeOK, Received, NEW c \in Clients,
         Start(c) \/ CheckDuration(c) \/ ReadStatus(c) \/ QueryFails(c)
  PROVE  Received'
<1>1. gen \in [Clients -> Generator] /\ gen[c] \in Generator
  BY Types
<1>2. Good(c) /\ UNCHANGED jobVars /\ UNCHANGED <<last, got, verdict>>
  BY Zenon DEF Received, Start, CheckDuration, ReadStatus, QueryFails, clientVars
<1>3. CASE gen' = [gen EXCEPT ![c] = Idle]
  BY <1>1, <1>2, <1>3, IdleGood, OneClient, Zenon
<1>4. CASE gen' = [gen EXCEPT ![c].pc = "status"]
  <2>1. /\ gen'[c].pc = "status" /\ gen'[c].cursor = gen[c].cursor /\ gen'[c].seen = gen[c].seen
        /\ \A d \in Clients : d # c => gen'[d] = gen[d]
    BY <1>1, <1>4, ZenonT(30) DEF Generator
  <2> QED BY <1>2, <2>1, MoveGood
<1>5. CASE gen' = [gen EXCEPT ![c].pc = "events", ![c].seen = status]
  <2>1. /\ gen'[c].pc = "events" /\ gen'[c].cursor = gen[c].cursor /\ gen'[c].seen = status
        /\ \A d \in Clients : d # c => gen'[d] = gen[d]
    BY <1>1, <1>5 DEF Generator
  <2> QED BY <1>2, <2>1, MoveGood
<1>6. CASE gen' = [gen EXCEPT ![c].pc = "status", ![c].tries = @ + 1]
  <2>1. /\ gen'[c].pc = "status" /\ gen'[c].cursor = gen[c].cursor /\ gen'[c].seen = gen[c].seen
        /\ \A d \in Clients : d # c => gen'[d] = gen[d]
    BY <1>1, <1>6, ZenonT(30) DEF Generator
  <2> QED BY <1>2, <2>1, MoveGood
<1> QED BY <1>3, <1>4, <1>5, <1>6, ZenonT(30) DEF Start, CheckDuration, ReadStatus, QueryFails, Return

\* The events are read after the status: a snapshot with a terminal status that is
\* not full holds all that is left up to the end of the job.
LEMMA ReadReceived ==
  ASSUME TypeOK, Received, NEW c \in Clients, ReadEvents(c) PROVE Received'
<1> DEFINE m == IF Cardinality(Batch(c)) >= BatchSize THEN "maybe" ELSE "no"
<1>1. gen \in [Clients -> Generator] /\ gen[c] \in Generator
  BY Types
<1>2. Good(c) /\ UNCHANGED jobVars /\ UNCHANGED <<last, got, verdict>>
  BY DEF Received, ReadEvents, clientVars
<1>3. /\ gen'[c].pc = "yield" /\ gen'[c].cursor = gen[c].cursor /\ gen'[c].seen = gen[c].seen
      /\ gen'[c].batch = Batch(c) /\ gen'[c].more = m
      /\ \A d \in Clients : d # c => gen'[d] = gen[d]
  BY <1>1 DEF ReadEvents, Generator
<1>4. m = "no" => ~ (Cardinality(Batch(c)) >= BatchSize)
  OBVIOUS
<1> HIDE DEF m
<1>5. Snapshot(c)'
  BY <1>2, <1>3, <1>4, BatchIsPrefix DEF Snapshot, jobVars
<1>6. Position(c)' /\ Ends(c)'
  BY <1>2, <1>3, Zenon DEF Good, Position, Ends, jobVars
<1> QED BY <1>2, <1>3, <1>5, <1>6, OneClient DEF Good

\* The least event of the batch is the next one for the client.
LEMMA YieldReceived ==
  ASSUME TypeOK, Received, NEW c \in Clients, YieldEvent(c) PROVE Received'
<1> DEFINE g == gen[c]
<1>1. gen \in [Clients -> Generator] /\ gen[c] \in Generator
      /\ last \in [Clients -> 0 .. MaxId] /\ got \in [Clients -> SUBSET (1 .. MaxId)]
  BY Types DEF TypeOK
<1>2. Good(c) /\ UNCHANGED jobVars /\ UNCHANGED verdict /\ g.pc = "yield"
  BY DEF Received, YieldEvent
<1>3. PICK e \in g.batch : /\ \A f \in g.batch : e <= f
                           /\ gen' = [gen EXCEPT ![c].batch = @ \ {e}, ![c].cursor = e]
                           /\ last' = [last EXCEPT ![c] = e]
                           /\ got' = [got EXCEPT ![c] = @ \cup {e}]
  BY ZenonT(30) DEF YieldEvent
<1>4. /\ gen'[c].pc = "yield" /\ gen'[c].cursor = e /\ gen'[c].seen = g.seen
      /\ gen'[c].batch = g.batch \ {e} /\ gen'[c].more = g.more
      /\ last'[c] = e /\ got'[c] = got[c] \cup {e}
  <2>1. gen'[c] = [g EXCEPT !.batch = @ \ {e}, !.cursor = e]
    BY <1>1, <1>3
  <2>2. /\ gen'[c].pc = g.pc /\ gen'[c].cursor = e /\ gen'[c].seen = g.seen
        /\ gen'[c].batch = g.batch \ {e} /\ gen'[c].more = g.more
    BY <1>1, <2>1 DEF Generator
  <2>3. last'[c] = e /\ got'[c] = got[c] \cup {e}
    BY <1>1, <1>3
  <2> QED BY <1>2, <2>2, <2>3
<1>5. \A d \in Clients : d # c => gen'[d] = gen[d] /\ last'[d] = last[d] /\ got'[d] = got[d]
  BY <1>1, <1>3
<1>6. /\ g.batch \subseteq events
      /\ \A b \in g.batch : g.cursor < b
      /\ \A f \in events : g.cursor < f => f \in g.batch \/ \A b \in g.batch : b < f
      /\ g.seen \in Terminal /\ g.more = "no" =>
           \A f \in events : g.cursor < f /\ f <= endId => f \in g.batch
  BY <1>2 DEF Good, Snapshot
<1>7. e \in events /\ e \in Nat /\ g.cursor \in Nat /\ g.cursor < e
  BY <1>1, <1>3, <1>6, Ids DEF Generator
<1>8. ASSUME NEW f \in events, f <= e PROVE f \in got'[c]
  <2>1. f \in Nat
    BY Ids, Zenon
  <2>2. CASE f <= g.cursor
    BY <1>2, <1>4, <2>2, ZenonT(30) DEF Good, Position
  <2>3. CASE g.cursor < f
    <3>1. f \in g.batch
      <4>1. ~ (e < f)
        BY <1>7, <1>8, <2>1
      <4> QED BY <1>3, <1>6, <2>3, <4>1
    <3>2. f = e
      BY <1>3, <1>7, <1>8, <2>1, <3>1
    <3> QED BY <1>4, <3>2
  <2> QED BY <1>7, <2>1, <2>2, <2>3
<1>9. Position(c)'
  BY <1>2, <1>4, <1>7, <1>8, ZenonT(30) DEF Position, jobVars
<1>10. Snapshot(c)'
  <2>1. \A b \in g.batch \ {e} : e < b
    <3> SUFFICES ASSUME NEW b \in g.batch, b # e PROVE e < b
      OBVIOUS
    <3>1. b \in Nat /\ e <= b
      BY <1>3, <1>6, Ids
    <3> QED BY <1>7, <3>1
  <2>2. \A f \in events : e < f => g.cursor < f /\ f # e
    BY <1>7, Ids
  <2>3. \A f \in events : e < f => f \in g.batch \ {e} \/ \A b \in g.batch \ {e} : b < f
    BY <1>6, <2>2, Zenon
  <2>4. g.seen \in Terminal /\ g.more = "no" =>
          \A f \in events : e < f /\ f <= endId => f \in g.batch \ {e}
    BY <1>6, <2>2
  <2>5. events' = events /\ endId' = endId
    BY <1>2, Zenon DEF jobVars
  <2> HIDE DEF g
  <2> QED BY <1>4, <1>6, <2>1, <2>3, <2>4, <2>5 DEF Snapshot
<1>11. Ends(c)'
  BY <1>2, <1>4 DEF Good, Ends, jobVars
<1> QED BY <1>2, <1>5, <1>9, <1>10, <1>11, OneClient, ZenonT(30) DEF Good

\* STREAM_END: nothing is left of a last snapshot.
LEMMA EndReceived ==
  ASSUME TypeOK, Received, NEW c \in Clients, AfterBatch(c) PROVE Received'
<1> DEFINE g == gen[c]
<1>1. gen \in [Clients -> Generator] /\ gen[c] \in Generator
      /\ verdict \in [Clients -> {"none"} \cup Terminal]
  BY Types DEF TypeOK
<1>2. Good(c) /\ UNCHANGED jobVars /\ UNCHANGED <<last, got>> /\ g.pc = "yield" /\ g.batch = {}
  BY ZenonT(30) DEF Received, AfterBatch
<1>3. CASE g.seen \in Terminal /\ g.more = "no"
  <2>1. gen' = [gen EXCEPT ![c] = Idle] /\ verdict' = [verdict EXCEPT ![c] = g.seen]
    BY <1>3 DEF AfterBatch, Return
  <2>2. /\ gen'[c] = Idle /\ verdict'[c] = g.seen
        /\ \A d \in Clients : d # c => gen'[d] = gen[d] /\ verdict'[d] = verdict[d]
    BY <1>1, <2>1, ZenonT(30)
  <2>3. g.seen = status /\ g.cursor \in Nat
    BY <1>1, <1>2, <1>3 DEF Good, Ends, Generator
  <2>4. ASSUME NEW e \in events, e <= endId PROVE e \in got[c]
    <3>1. ~ (g.cursor < e)
      BY <1>2, <1>3, <2>4 DEF Good, Snapshot
    <3>2. e <= g.cursor
      BY <2>3, <3>1, Ids
    <3> QED BY <1>2, <3>2, Zenon DEF Good, Position
  <2>5. gen'[c].cursor = 0 /\ gen'[c].seen = "NONE" /\ gen'[c].pc = "idle"
    BY <2>2 DEF Idle
  <2>6. Position(c)'
    <3>1. \A e \in events' : ~ (e <= 0)
      BY <1>2, Ids DEF jobVars
    <3> QED BY <1>2, <2>5, <3>1, Zenon DEF Good, Position, jobVars
  <2>7. Snapshot(c)'
    BY <2>5, ZenonT(30) DEF Snapshot
  <2>8. Ends(c)'
    BY <1>2, <2>2, <2>3, <2>4, <2>5 DEF Ends, jobVars, Terminal
  <2> QED BY <1>2, <2>2, <2>6, <2>7, <2>8, OneClient, ZenonT(30) DEF Good
<1>4. CASE ~ (g.seen \in Terminal /\ g.more = "no")
  <2>1. gen' = [gen EXCEPT ![c].pc = "top"] /\ verdict' = verdict
    BY <1>4 DEF AfterBatch
  <2>2. /\ gen'[c].pc = "top" /\ gen'[c].cursor = gen[c].cursor /\ gen'[c].seen = gen[c].seen
        /\ \A d \in Clients : d # c => gen'[d] = gen[d]
    BY <1>1, <2>1 DEF Generator
  <2> QED BY <1>2, <2>1, <2>2, MoveGood
<1> QED BY <1>3, <1>4

\* Lost connections and restarts cost the clients nothing they have received.
LEMMA LossReceived ==
  ASSUME TypeOK, Received,
         CloseDropped \/ Restart \/ \E c \in Clients : Disconnect(c) \/ DisconnectEarly(c)
  PROVE  Received'
<1>1. gen \in [Clients -> Generator]
  BY Types
<1>2. UNCHANGED jobVars /\ UNCHANGED <<last, got, verdict>>
  BY DEF CloseDropped, Restart, Disconnect, DisconnectEarly, clientVars
<1>3. ASSUME NEW d \in Clients PROVE gen'[d] = gen[d] \/ gen'[d] = Idle
  <2>1. CASE CloseDropped
    BY <2>1 DEF CloseDropped
  <2>2. CASE Restart
    BY <2>2 DEF Restart
  <2>3. ASSUME NEW c \in Clients, Disconnect(c) \/ DisconnectEarly(c)
        PROVE  gen'[d] = gen[d] \/ gen'[d] = Idle
    <3>1. gen' = [gen EXCEPT ![c] = Idle]
      BY <2>3, ZenonT(30) DEF Disconnect, DisconnectEarly
    <3> QED BY <1>1, <3>1, Zenon
  <2> QED BY <2>1, <2>2, <2>3
<1>4. ASSUME NEW d \in Clients PROVE Good(d)'
  <2>1. Good(d)
    BY DEF Received
  <2> QED BY <1>2, <1>3, <2>1, GoodKept, IdleGood
<1>5. Order'
  BY <1>2 DEF Received, Order, jobVars
<1> QED BY <1>4, <1>5 DEF Received

\* With one writer, for batches of any size and any number of clients: clients
\* miss nothing, and the end that they are told of is the end.
THEOREM StreamCorrect == ASSUME MaxWriters = 1 PROVE Spec => []Received
<1>1. Init => Received
  <2> SUFFICES ASSUME Init PROVE Received
    BY Zenon
  <2>1. ASSUME NEW d \in Clients PROVE Good(d)
    BY DEF Init, Idle, Good, Position, Snapshot, Ends, Terminal
  <2> QED BY <2>1 DEF Init, Received, Order
<1>2. TypeOK /\ Received /\ [Next]_vars => Received'
  <2>1. ASSUME Received, UNCHANGED vars PROVE Received'
    <3>1. UNCHANGED jobVars /\ UNCHANGED <<gen, last, got, verdict>>
      BY <2>1 DEF vars, clientVars
    <3>2. \A d \in Clients : Good(d)'
      BY <2>1, <3>1, GoodKept DEF Received
    <3> QED BY <2>1, <3>1, <3>2 DEF Received, Order, jobVars
  <2> QED BY <2>1, WriterReceived, RouteReceived, GeneratorReceived, ReadReceived, YieldReceived,
             EndReceived, LossReceived DEF Next, ServerStep
<1>3. Base => TypeOK
  BY DEF Base
<1> QED BY <1>1, <1>2, <1>3, RegistryCorrect, PTL DEF Spec

\* SSEStreamService leaves no event behind its cursor, whatever Last-Event-ID a
\* client sends after whatever loss of its connection.
THEOREM NothingSkipped == ASSUME MaxWriters = 1 PROVE Spec => []NoEventSkipped
<1>1. Received => NoEventSkipped
  BY Zenon DEF Received, Good, Position, NoEventSkipped
<1> QED BY <1>1, StreamCorrect, PTL

\* STREAM_END carries the final status and follows every event up to the one that
\* reported it, although status and events are read by two queries.
THEOREM EndComesLast == ASSUME MaxWriters = 1 PROVE Spec => []EndIsComplete
<1>1. Received => EndIsComplete
  BY DEF Received, Good, Ends, EndIsComplete
<1> QED BY <1>1, StreamCorrect, PTL
=============================================================================
