---------------------------- MODULE JobLifecycle ----------------------------
(***************************************************************************)
(* What the platform promises a reader of the jobs and event_logs tables.  *)
(*                                                                         *)
(* A job is born CREATED, moves along the edges below and stays where it   *)
(* ends.  A move and the event that reports it become visible together,    *)
(* and once a job has ended its log does not grow.  The SSE stream relies  *)
(* on exactly this: it closes a stream when it has read a terminal status  *)
(* and the events that follow its cursor.                                  *)
(***************************************************************************)
EXTENDS Sequences

CONSTANT Jobs           \* identifiers of the jobs rows

VARIABLES
  status,               \* jobs.status, "NONE" while there is no row
  log                   \* the event codes of the job, in event_logs.id order;
                        \*   the CLI_OUTPUT lines of its tools are left out

Terminal == {"COMPLETED", "FAILED"}

Statuses == {"NONE", "CREATED", "RUNNING"} \cup Terminal

\* Events that report no change of status.
Notes == {"SYSTEM", "REFINEMENT_CONTEXT_COPIED", "LLM_ATTEMPT",
          "SECURITY_ALERT", "TIMEOUT", "PLAN_EXECUTED"}

\* The moves of a job and the event each is reported by.
Edges == { [from |-> "CREATED", to |-> "RUNNING",   code |-> "ORCHESTRATION_STARTED"],
           [from |-> "CREATED", to |-> "FAILED",    code |-> "ORCHESTRATION_QUEUE_TIMEOUT"],
           [from |-> "RUNNING", to |-> "COMPLETED", code |-> "ORCHESTRATION_COMPLETED"],
           [from |-> "RUNNING", to |-> "FAILED",    code |-> "ORCHESTRATION_FAILED"],
           [from |-> "RUNNING", to |-> "FAILED",    code |-> "STALE_JOB_RECOVERED"] }

Codes == Notes \cup {e.code : e \in Edges}

vars == <<status, log>>

Init == /\ status = [j \in Jobs |-> "NONE"]
        /\ log = [j \in Jobs |-> <<>>]

Submit(j) == /\ status[j] = "NONE"
             /\ status' = [status EXCEPT ![j] = "CREATED"]
             /\ UNCHANGED log

Note(j) == /\ status[j] \in {"CREATED", "RUNNING"}
           /\ \E c \in Notes : log' = [log EXCEPT ![j] = Append(@, c)]
           /\ UNCHANGED status

Move(j) == \E e \in Edges : /\ status[j] = e.from
                            /\ status' = [status EXCEPT ![j] = e.to]
                            /\ log' = [log EXCEPT ![j] = Append(@, e.code)]

Next == \E j \in Jobs : Submit(j) \/ Note(j) \/ Move(j)

Spec == Init /\ [][Next]_vars
=============================================================================
