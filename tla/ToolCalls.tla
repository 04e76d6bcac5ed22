------------------------------ MODULE ToolCalls ------------------------------
(***************************************************************************)
(* What CLIExecutionRunner.run_tool promises its caller, without the       *)
(* semaphore, the subprocess, the drains and the deadline: no more than    *)
(* MaxTools calls are at work, the lines the tool prints appear in the     *)
(* job's log in order, and a call that succeeds has shown all of them.     *)
(***************************************************************************)
EXTENDS Naturals, FiniteSets

CONSTANTS Calls, Streams, MaxTools, Results

VARIABLES
  phase,                \* "idle", "active" or "done"
  printed,              \* half lines printed so far, per stream
  shown,                \* lines in the job's log, per stream
  result                \* how the call ended, "none" while it has not

vars == <<phase, printed, shown, result>>

\* Lines in n half lines; the last one may lack its newline.
Lines(n) == (n + 1) \div 2

Active == {r \in Calls : phase[r] = "active"}

Init ==
  /\ phase = [r \in Calls |-> "idle"]
  /\ printed = [r \in Calls |-> [s \in Streams |-> 0]]
  /\ shown = [r \in Calls |-> [s \in Streams |-> 0]]
  /\ result = [r \in Calls |-> "none"]

Begin(r) ==
  /\ phase[r] = "idle"
  /\ Cardinality(Active) < MaxTools
  /\ phase' = [phase EXCEPT ![r] = "active"]
  /\ UNCHANGED <<printed, shown, result>>

\* Arguments that are not allowed.
Refuse(r) ==
  /\ phase[r] = "idle"
  /\ phase' = [phase EXCEPT ![r] = "done"]
  /\ result' = [result EXCEPT ![r] = "argument"]
  /\ UNCHANGED <<printed, shown>>

\* Errors that may mean that the runner lost sight of the tool.
Lost == {"database", "other"}

\* The tool prints; one that the runner lost sight of may go on printing.
Emit(r, s) ==
  /\ phase[r] = "active" \/ result[r] \in Lost
  /\ printed' = [printed EXCEPT ![r][s] = @ + 1]
  /\ UNCHANGED <<phase, shown, result>>

\* More lines are in the log, but no line that was not printed.  Nothing is
\* added once the caller has its result, unless that is one of Lost.
Show(r, s) ==
  /\ phase[r] = "active" \/ result[r] \in Lost
  /\ \E n \in shown[r][s] + 1 .. Lines(printed[r][s]) :
        shown' = [shown EXCEPT ![r][s] = n]
  /\ UNCHANGED <<phase, printed, result>>

Finish(r, res) ==
  /\ phase[r] = "active"
  /\ res = "ok" => \A s \in Streams : shown[r][s] = Lines(printed[r][s])
  /\ phase' = [phase EXCEPT ![r] = "done"]
  /\ result' = [result EXCEPT ![r] = res]
  /\ UNCHANGED <<printed, shown>>

Next ==
  \E r \in Calls : \/ Begin(r) \/ Refuse(r)
                   \/ \E s \in Streams : Emit(r, s) \/ Show(r, s)
                   \/ \E res \in Results : Finish(r, res)

Spec == Init /\ [][Next]_vars
=============================================================================
