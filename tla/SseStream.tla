----------------------------- MODULE SseStream ------------------------------
(***************************************************************************)
(* GET /api/v1/jobs/{id}/stream: the route (sse/router.py), the polling    *)
(* queries (sse/repository.py), the generator behind the response          *)
(* (sse/service.py) and the registry that bounds the number of streams     *)
(* (sse/connection_registry.py).  All clients watch one job; the registry  *)
(* is the only thing streams of different jobs share.                      *)
(*                                                                         *)
(* The writers of the job's events are the environment.  An event has its  *)
(* id from the INSERT and is seen after the COMMIT.  The tasks of one      *)
(* process write one after the other; a second process that recovers the   *)
(* job may write at the same time.  A terminal status is reported in the   *)
(* transaction that sets it; a tool's output may still arrive after that.  *)
(* Event ids come from one sequence for all jobs, so the ids of one job    *)
(* have gaps.                                                              *)
(***************************************************************************)
EXTENDS Integers, FiniteSets

CONSTANTS
  Clients,              \* browsers watching the job
  MaxWriters,           \* processes that write events of the job
  MaxConnections,       \* MAX_CONNECTIONS
  BatchSize,            \* EVENT_BATCH_SIZE
  MaxRetries,           \* len(RETRY_DELAYS_SECONDS)
  MaxId,                \* bound on event ids
  MaxFaults,            \* bound on failing queries
  MaxDrops,             \* bound on connections lost and on odd headers sent
  MaxRestarts           \* bound on restarts of the process

ASSUME StreamAssumption ==
  /\ IsFiniteSet(Clients)
  /\ MaxWriters \in Nat \ {0}
  /\ MaxConnections \in Nat \ {0}
  /\ BatchSize \in Nat \ {0}
  /\ {MaxRetries, MaxId, MaxFaults, MaxDrops, MaxRestarts} \subseteq Nat

VARIABLES
  \* the database
  status,               \* jobs.status, "NONE" while there is no row
  events,               \* ids of the committed events of the job
  open,                 \* ids of events that are inserted but not committed
  lastId,               \* the last id the sequence has handed out
  endId,                \* id of the event that reported the terminal status
  \* the registry
  active,               \* _active_connections
  \* the request of each client and the generator that answers it
  gen,                  \* where it is, and the generator's local variables
  dropped,              \* started generators whose client is gone
  unstarted,            \* generators whose client was gone before they started
  \* the clients
  last,                 \* id of the last event received, 0 if none
  got,                  \* ids of the events received
  verdict,              \* status reported by STREAM_END, "none" before it
  \* bounds
  faults, drops, restarts

jobVars == <<status, events, open, lastId, endId>>
clientVars == <<last, got, verdict>>
deadVars == <<dropped, unstarted>>
boundVars == <<faults, drops, restarts>>
vars == <<jobVars, active, gen, deadVars, clientVars, boundVars>>

Terminal == {"COMPLETED", "FAILED"}

Statuses == {"NONE", "CREATED", "RUNNING"} \cup Terminal

\* Where a client's generator is while it owns a connection: not yet started,
\* at the top of its loop, between the reads of a snapshot, or at a yield.
InStream == {"acquired", "top", "status", "events", "yield"}

\* No request: pc, the cursor, the snapshot (status, events left to send, and
\* whether more may be due, as after a full batch), and the retries of the fetch.
Idle == [pc |-> "idle", cursor |-> 0, seen |-> "NONE", batch |-> {}, more |-> "no",
         tries |-> 0]

Init ==
  /\ status = "NONE" /\ events = {} /\ open = {} /\ lastId = 0 /\ endId = 0
  /\ active = 0
  /\ gen = [c \in Clients |-> Idle]
  /\ dropped = 0 /\ unstarted = 0
  /\ last = [c \in Clients |-> 0]
  /\ got = [c \in Clients |-> {}]
  /\ verdict = [c \in Clients |-> "none"]
  /\ faults = 0 /\ drops = 0 /\ restarts = 0

-----------------------------------------------------------------------------
(* The writers.                                                            *)

\* The row of the job, committed before its first event.
CreateJob ==
  /\ status = "NONE"
  /\ status' = "CREATED"
  /\ UNCHANGED <<events, open, lastId, endId, active, gen, deadVars, clientVars, boundVars>>

\* The sequence hands out the next id to a writer.
NextId ==
  /\ Cardinality(open) < MaxWriters
  /\ lastId < MaxId
  /\ lastId' = lastId + 1

\* The INSERT of an event without a change of status.
AppendEvent ==
  /\ status # "NONE"
  /\ NextId
  /\ open' = open \cup {lastId + 1}
  /\ UNCHANGED <<status, events, endId, active, gen, deadVars, clientVars, boundVars>>

\* Its COMMIT; or a rollback, which leaves a gap as ids of other jobs do.
CommitEvent ==
  /\ \E e \in open : open' = open \ {e} /\ events' \in {events, events \cup {e}}
  /\ UNCHANGED <<status, lastId, endId, active, gen, deadVars, clientVars, boundVars>>

\* OrchestratorRepository.transition and _recover_one: status and event in one
\* transaction.
Transition ==
  /\ NextId
  /\ \/ status = "CREATED" /\ status' \in {"RUNNING", "FAILED"}
     \/ status = "RUNNING" /\ status' \in Terminal
  /\ events' = events \cup {lastId + 1}
  /\ endId' = IF status' \in Terminal THEN lastId + 1 ELSE endId
  /\ UNCHANGED <<open, active, gen, deadVars, clientVars, boundVars>>

-----------------------------------------------------------------------------
(* The registry.  Its lock is never held across an await of its own, so    *)
(* each operation is one step.                                             *)

\* try_acquire when it returns True.
TryAcquire ==
  /\ active < MaxConnections
  /\ active' = active + 1

\* release
Release == active' = IF active > 0 THEN active - 1 ELSE active

-----------------------------------------------------------------------------
(* The route.  A request that is refused changes nothing.                  *)

\* Seeded fault: resolve_cursor takes the candidate as it comes.
ResolveCursor_Unchecked(c) ==
  /\ gen[c].pc = "idle"
  /\ verdict[c] = "none"
  /\ status # "NONE"
  /\ \E candidate \in 0 .. MaxId :
        /\ \/ candidate = last[c] /\ UNCHANGED drops
           \/ candidate \notin events /\ drops < MaxDrops /\ drops' = drops + 1
        /\ gen' = [gen EXCEPT ![c].pc = "resolved", ![c].cursor = candidate]
  /\ UNCHANGED <<jobVars, active, deadVars, clientVars, faults, restarts>>

\* job_exists and the token have let the request through; the header parses to
\* the last id the client has received, to nothing or to an id that is not one
\* of this job's events.  resolve_cursor accepts events of the job alone.  An
\* EventSource sends no id that it has not received.
ResolveCursor(c) ==
  /\ gen[c].pc = "idle"
  /\ verdict[c] = "none"
  /\ status # "NONE"
  /\ \E candidate \in 0 .. MaxId :
        /\ \/ candidate = last[c] /\ UNCHANGED drops
           \/ candidate \notin events /\ drops < MaxDrops /\ drops' = drops + 1
        /\ gen' = [gen EXCEPT ![c].pc = "resolved",
                              ![c].cursor = IF candidate \in events THEN candidate ELSE 0]
  /\ UNCHANGED <<jobVars, active, deadVars, clientVars, faults, restarts>>

\* A slot and the response, or 503 STREAM_CAPACITY_EXCEEDED.
Connect(c) ==
  /\ gen[c].pc = "resolved"
  /\ \/ TryAcquire /\ gen' = [gen EXCEPT ![c].pc = "acquired"]
     \/ active >= MaxConnections /\ gen' = [gen EXCEPT ![c] = Idle] /\ UNCHANGED active
  /\ UNCHANGED <<jobVars, deadVars, clientVars, boundVars>>

-----------------------------------------------------------------------------
(* SSEStreamService.stream.                                                *)

\* Seeded fault: the slot is not given back.
Return_KeepSlot(c) == UNCHANGED active /\ gen' = [gen EXCEPT ![c] = Idle]

\* The generator leaves its try block: the finally clause gives the slot back.
Return(c) == Release /\ gen' = [gen EXCEPT ![c] = Idle]

\* The first step of the generator, when no time has gone by yet ...
Start(c) ==
  /\ gen[c].pc = "acquired"
  /\ gen' = [gen EXCEPT ![c].pc = "status"]
  /\ UNCHANGED <<jobVars, active, deadVars, clientVars, boundVars>>

\* ... and the top of its loop later on: STREAM_RECONNECT after ten minutes.
CheckDuration(c) ==
  /\ gen[c].pc = "top"
  /\ \/ gen' = [gen EXCEPT ![c].pc = "status"] /\ UNCHANGED active
     \/ Return(c)
  /\ UNCHANGED <<jobVars, deadVars, clientVars, boundVars>>

\* fetch_snapshot, first query.  Rows of jobs are never deleted.
ReadStatus(c) ==
  /\ gen[c].pc = "status"
  /\ gen' = [gen EXCEPT ![c].pc = "events", ![c].seen = status]
  /\ UNCHANGED <<jobVars, active, deadVars, clientVars, boundVars>>

\* The first EVENT_BATCH_SIZE events after the cursor.
Batch(c) ==
  LET after(n) == {e \in events : gen[c].cursor < e /\ e <= n}
  IN {e \in after(MaxId) : Cardinality(after(e)) <= BatchSize}

\* fetch_snapshot, second query: its own statement, so it may see more.
ReadEvents(c) ==
  /\ gen[c].pc = "events"
  /\ gen' = [gen EXCEPT ![c].pc = "yield",
                        ![c].batch = Batch(c),
                        ![c].more = IF Cardinality(Batch(c)) >= BatchSize THEN "maybe"
                                     ELSE "no",
                        ![c].tries = 0]
  /\ UNCHANGED <<jobVars, active, deadVars, clientVars, boundVars>>

\* A query of fetch_snapshot raises.  _fetch_with_retry takes the whole
\* snapshot again after a transient error while it has delays left; any other
\* error ends the stream with STREAM_ERROR.
QueryFails(c) ==
  /\ gen[c].pc \in {"status", "events"}
  /\ faults < MaxFaults
  /\ faults' = faults + 1
  /\ \/ /\ gen[c].tries < MaxRetries
        /\ gen' = [gen EXCEPT ![c].pc = "status", ![c].tries = @ + 1]
        /\ UNCHANGED active
     \/ Return(c)
  /\ UNCHANGED <<jobVars, deadVars, clientVars, drops, restarts>>

\* Seeded fault: the cursor stays where it was.
YieldEvent_SameCursor(c) ==
  /\ gen[c].pc = "yield"
  /\ \E e \in gen[c].batch :
        /\ \A f \in gen[c].batch : e <= f
        /\ gen' = [gen EXCEPT ![c].batch = @ \ {e}]
        /\ last' = [last EXCEPT ![c] = e]
        /\ got' = [got EXCEPT ![c] = @ \cup {e}]
  /\ UNCHANGED <<jobVars, active, deadVars, verdict, boundVars>>

\* One event of the snapshot goes out and becomes the cursor.
YieldEvent(c) ==
  /\ gen[c].pc = "yield"
  /\ \E e \in gen[c].batch :
        /\ \A f \in gen[c].batch : e <= f
        /\ gen' = [gen EXCEPT ![c].batch = @ \ {e}, ![c].cursor = e]
        /\ last' = [last EXCEPT ![c] = e]
        /\ got' = [got EXCEPT ![c] = @ \cup {e}]
  /\ UNCHANGED <<jobVars, active, deadVars, verdict, boundVars>>

\* Seeded fault: a terminal status ends the stream after a full batch too.
AfterBatch_FullToo(c) ==
  /\ gen[c].pc = "yield"
  /\ gen[c].batch = {}
  /\ IF gen[c].seen \in Terminal
     THEN Return(c) /\ verdict' = [verdict EXCEPT ![c] = gen[c].seen]
     ELSE gen' = [gen EXCEPT ![c].pc = "top"] /\ UNCHANGED <<active, verdict>>
  /\ UNCHANGED <<jobVars, deadVars, last, got, boundVars>>

\* The snapshot is out.  STREAM_END, if the status was terminal and no further
\* batch is due; else the next round, at once or after a pause.
AfterBatch(c) ==
  /\ gen[c].pc = "yield"
  /\ gen[c].batch = {}
  /\ IF gen[c].seen \in Terminal /\ gen[c].more = "no"
     THEN Return(c) /\ verdict' = [verdict EXCEPT ![c] = gen[c].seen]
     ELSE gen' = [gen EXCEPT ![c].pc = "top"] /\ UNCHANGED <<active, verdict>>
  /\ UNCHANGED <<jobVars, deadVars, last, got, boundVars>>

-----------------------------------------------------------------------------
(* Lost connections.                                                       *)

\* The client goes away.  The server finds out at an await: one inside the
\* generator raises CancelledError there; one outside drops the generator,
\* which is closed when it is collected.
Disconnect(c) ==
  /\ gen[c].pc \in InStream \ {"acquired"}
  /\ drops < MaxDrops
  /\ drops' = drops + 1
  /\ gen' = [gen EXCEPT ![c] = Idle]
  /\ dropped' = dropped + 1
  /\ UNCHANGED <<jobVars, active, unstarted, clientVars, faults, restarts>>

\* CancelledError or GeneratorExit reaches the finally clause.
CloseDropped ==
  /\ dropped > 0
  /\ dropped' = dropped - 1
  /\ Release
  /\ UNCHANGED <<jobVars, gen, unstarted, clientVars, boundVars>>

\* The client goes away while the response still sends its headers: nobody
\* iterates the generator, and the body of a generator that never started
\* does not run, its finally clause included.
DisconnectEarly(c) ==
  /\ gen[c].pc = "acquired"
  /\ drops < MaxDrops
  /\ drops' = drops + 1
  /\ gen' = [gen EXCEPT ![c] = Idle]
  /\ unstarted' = unstarted + 1
  /\ UNCHANGED <<jobVars, active, dropped, clientVars, faults, restarts>>

\* The process is started anew with an empty registry.
Restart ==
  /\ restarts < MaxRestarts
  /\ restarts' = restarts + 1
  /\ active' = 0
  /\ gen' = [c \in Clients |-> Idle]
  /\ dropped' = 0
  /\ unstarted' = 0
  /\ UNCHANGED <<jobVars, clientVars, faults, drops>>

-----------------------------------------------------------------------------
\* What the server does for a client without outside help.
ServerStep(c) ==
  \/ Connect(c) \/ Start(c) \/ CheckDuration(c) \/ ReadStatus(c) \/ ReadEvents(c)
  \/ YieldEvent(c) \/ AfterBatch(c)

Next ==
  \/ CreateJob \/ AppendEvent \/ CommitEvent \/ Transition \/ CloseDropped \/ Restart
  \/ \E c \in Clients : \/ ResolveCursor(c) \/ ServerStep(c) \/ QueryFails(c)
                        \/ Disconnect(c) \/ DisconnectEarly(c)

Spec == Init /\ [][Next]_vars

\* The event loop and its threads run on, a dropped generator is closed in the
\* end, and an EventSource reconnects until it is told of the end.
Fairness ==
  /\ \A c \in Clients : WF_vars(ResolveCursor(c)) /\ WF_vars(ServerStep(c))
  /\ WF_vars(CloseDropped)

FairSpec == Spec /\ Fairness

-----------------------------------------------------------------------------
(* Properties.                                                             *)

\* The values the database, the registry and the streams can take.
TypeOK ==
  /\ status \in Statuses
  /\ lastId \in 0 .. MaxId /\ endId \in 0 .. lastId
  /\ events \subseteq 1 .. lastId /\ open \subseteq 1 .. lastId
  /\ active \in 0 .. MaxConnections
  /\ gen \in [Clients -> [pc : InStream \cup {"idle", "resolved"}, cursor : 0 .. MaxId,
                         seen : Statuses, batch : SUBSET (1 .. MaxId), more : {"maybe", "no"},
                         tries : 0 .. MaxRetries]]
  /\ {dropped, unstarted} \subseteq Nat
  /\ last \in [Clients -> 0 .. MaxId]
  /\ got \in [Clients -> SUBSET (1 .. MaxId)]
  /\ verdict \in [Clients -> {"none"} \cup Terminal]
  /\ faults \in 0 .. MaxFaults /\ drops \in 0 .. MaxDrops /\ restarts \in 0 .. MaxRestarts

Streaming == {c \in Clients : gen[c].pc \in InStream}

\* Every way out of a stream that has started gives its slot back exactly once:
\* the registry counts the open streams, those about to be closed, and those
\* whose generator never started, no more and no less.
SlotsAddUp == active = Cardinality(Streaming) + dropped + unstarted

\* A client misses no event before the last one it received, over any number of
\* batches, retries, reconnects and restarts, whatever Last-Event-ID it sends.
NoEventSkipped ==
  \A c \in Clients : \A e \in events : e <= last[c] => e \in got[c]

\* STREAM_END tells the final status, and the client that reads it has received
\* every event up to the one that reported this status, although the status is
\* read before the events and both may change in between.
EndIsComplete ==
  \A c \in Clients : verdict[c] # "none" =>
    /\ verdict[c] = status
    /\ \A e \in events : e <= endId => e \in got[c]

\* A client that keeps reconnecting learns of the end of the job, unless
\* generators that never started hold all the slots.
WatchersLearnTheEnd ==
  \A c \in Clients :
    status \in Terminal ~> verdict[c] # "none" \/ unstarted >= MaxConnections

\* A claim of the documentation (unit 4, ND-4-4: the normal end, an error, a
\* timeout and a client that cancels all return the slot exactly once in
\* finally), which does not hold for a client that leaves before the generator
\* has started.
EverySlotReturns == active <= Cardinality(Streaming) + dropped
=============================================================================
