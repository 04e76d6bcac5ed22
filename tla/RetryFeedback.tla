---------------------------- MODULE RetryFeedback ----------------------------
(***************************************************************************)
(* What the next attempt is told about the failure of the last one:        *)
(* generate_actions (llm/retry.py), the report of ScadStaticValidator      *)
(* (llm/scad_validator.py), and build_runtime_feedback                     *)
(* (runner/diagnostics.py) over the tails of a CLIExecutionError.          *)
(*                                                                         *)
(* Texts are their lengths.  Which rules a file breaks, on how long lines, *)
(* and what a tool printed are the environment's choice.                   *)
(***************************************************************************)
EXTENDS Integers, Sequences

CONSTANTS
  MaxAttempts,          \* len(RETRY_DELAYS_SECONDS) + 1
  LineLengths,          \* lengths of the lines of a file or of an output
  TailLengths,          \* lengths of what the drains return
  Digits,               \* digits of a line number or an exit code
  OtherLengths          \* lengths of the messages of other errors

ASSUME FeedbackAssumption ==
  /\ MaxAttempts \in Nat \ {0}
  /\ LineLengths \subseteq Nat
  /\ TailLengths \subseteq Nat
  /\ Digits \subseteq 1 .. 100
  /\ OtherLengths \subseteq Nat

VARIABLES
  pc,
  attempt,              \* from 1
  rule,                 \* the next rule of ScadStaticValidator.validate
  violations,           \* lengths of the blocks of the rules broken so far
  named,                \* blocks in final_lines
  current_len,
  feedback,             \* the variable of the loop: no except clause resets it
  retry_feedback        \* that of current_request

loopVars == <<attempt, feedback, retry_feedback>>

vars == <<pc, rule, violations, named, current_len, loopVars>>

\* A message: what it is about, its length, and for a report how many of the
\* violations it names and the note that ends it when there are more.
Message(kind, len, k, n, note) ==
  [kind |-> kind, len |-> len, named |-> k, of |-> n, note |-> note]

\* A message that is no report.
Told(kind, len) == Message(kind, len, 0, 0, "none")

Init ==
  /\ pc = "ask"
  /\ attempt = 1
  /\ rule = 1
  /\ violations = <<>>
  /\ named = 0
  /\ current_len = 0
  /\ feedback = Told("none", 0)
  /\ retry_feedback = Told("none", 0)

\* An except clause that may retry: the last attempt raises, the others assign
\* `feedback` and go on to the sleep.
Retry(fb) ==
  /\ IF attempt >= MaxAttempts
     THEN pc' = "failed" /\ UNCHANGED feedback
     ELSE pc' = "sleep" /\ feedback' = fb
  /\ rule' = 1 /\ violations' = <<>> /\ named' = 0 /\ current_len' = 0
  /\ UNCHANGED <<attempt, retry_feedback>>

\* After the sleep the next request carries what `feedback` holds.
Sleep ==
  /\ pc = "sleep"
  /\ pc' = "ask"
  /\ attempt' = attempt + 1
  /\ retry_feedback' = feedback
  /\ UNCHANGED <<rule, violations, named, current_len, feedback>>

\* generate_plan and parse_action_plan: a client error, a reply without JSON, a
\* plan of the wrong shape, an error that is not retried, or a plan; and the
\* checks of validate_actions that end with 403.
Ask ==
  /\ pc = "ask"
  /\ \/ Retry(Told("client", 68))
     \/ \E n \in OtherLengths : Retry(Told("parse", 35 + n)) \/ Retry(Told("schema", n))
     \/ /\ pc' \in {"failed", "rules", "execute"}
        /\ UNCHANGED <<rule, violations, named, current_len, loopVars>>

-----------------------------------------------------------------------------
(* ScadStaticValidator.validate.                                           *)

\* Rule 1: the file is empty.
CheckEmpty ==
  /\ pc = "rules" /\ rule = 1
  /\ \/ Retry(Message("scad", 100, 1, 1, "none"))
     \/ /\ rule' = 2
        /\ UNCHANGED <<pc, violations, named, current_len, loopVars>>

\* The descriptions of rules 2 to 7.
Desc == <<0, 118, 154, 83, 144, 96, 156>>

\* Seeded fault: the line is quoted as it is.
Snippet_Whole(line, digits) == 11 + digits + line

\* A line of get_snippets: its number and up to 150 characters of it.
Snippet(line, digits) ==
  11 + digits + IF line > 150 THEN 153 ELSE line

Snippets == {1 + Snippet(line, digits) : line \in LineLengths, digits \in Digits}

\* A rule is kept, or broken; all but the last show one or two of the lines.
CheckRule ==
  /\ pc = "rules" /\ rule \in 2 .. 7
  /\ rule' = rule + 1
  /\ \/ UNCHANGED violations
     \/ /\ rule = 7
        /\ violations' = Append(violations, Desc[rule] + 1)
     \/ /\ rule < 7
        /\ \E first \in Snippets, second \in Snippets \cup {0} :
             violations' = Append(violations, Desc[rule] + 12 + first + second)
  /\ UNCHANGED <<pc, named, current_len, loopVars>>

\* Without violations the plan is executed; else the report has its header.
RulesDone ==
  /\ pc = "rules" /\ rule = 8
  /\ pc' = IF violations = <<>> THEN "execute" ELSE "report"
  /\ current_len' = 35
  /\ UNCHANGED <<rule, violations, named, loopVars>>

\* Seeded fault: the budget is compared before the block is added.
Fits_Before(block) == current_len <= 1450

Fits(block) == current_len + block <= 1450

AppendBlock ==
  /\ pc = "report" /\ named < Len(violations)
  /\ Fits(violations[named + 1])
  /\ named' = named + 1
  /\ current_len' = current_len + violations[named + 1]
  /\ UNCHANGED <<pc, rule, violations, loopVars>>

\* Blanks at the end of a line, which strip() and rstrip() remove.
Blanks == {n \in LineLengths : n <= 150} \cup {0}

\* The message of the exception: the note on omitted violations comes last, or
\* the blanks at the end of the last block are removed.
Report(note) ==
  \E n \in IF note = "omitted" THEN {current_len + 35}
         ELSE {current_len - 1 - b : b \in Blanks \cap 0 .. current_len - 36} :
    Retry(Message("scad", n, named, Len(violations), note))

RaiseReport ==
  /\ pc = "report"
  /\ \/ named < Len(violations) /\ ~ Fits(violations[named + 1]) /\ Report("omitted")
     \/ named = Len(violations) /\ Report("none")

-----------------------------------------------------------------------------
(* execute_attempt and build_runtime_feedback.                             *)

\* _bounded_stream_tail
BoundedTail(n) == IF n <= 4000 THEN n ELSE 15 + 4000

\* What known messages of OpenSCAD add: the rule and up to 300 characters of the
\* line that shows it.
Match(text, line) == 1 + text + IF line > 300 THEN 300 ELSE line

\* What the tail of a stream adds where no known message was found.
Quote(n) == IF BoundedTail(n) = 0 THEN 0 ELSE 1 + 23 + BoundedTail(n)

Details ==
  {Match(76, l) : l \in LineLengths} \cup {Match(82, l) : l \in LineLengths}
  \cup {Match(76, l) + Match(82, k) : l, k \in LineLengths}
  \cup {Quote(n) + Quote(k) : n, k \in TailLengths}

\* The last lines of build_runtime_feedback.
Clipped(n) == IF n > 1500 THEN {1500 - 36 - b + 32 : b \in Blanks} ELSE {n}

Execute ==
  /\ pc = "execute"
  /\ \/ /\ pc' \in {"done", "failed"}
        /\ UNCHANGED <<rule, violations, named, current_len, loopVars>>
     \/ \E d \in Digits, n \in Details :
          \E len \in Clipped(42 + d + n) : Retry(Told("runtime", len))

Next ==
  \/ Ask \/ CheckEmpty \/ CheckRule \/ RulesDone \/ AppendBlock \/ RaiseReport
  \/ Execute \/ Sleep

Spec == Init /\ [][Next]_vars

-----------------------------------------------------------------------------
(* Properties.                                                             *)

\* The loop makes MaxAttempts attempts at most, the report names no violation
\* that was not found, and lengths are lengths.
TypeOK ==
  /\ pc \in {"ask", "rules", "report", "execute", "sleep", "done", "failed"}
  /\ attempt \in 1 .. MaxAttempts
  /\ pc = "sleep" => attempt < MaxAttempts
  /\ rule \in 1 .. 8
  /\ violations \in Seq(Nat)
  /\ named \in 0 .. Len(violations)
  /\ current_len \in Nat
  /\ {feedback, retry_feedback} \subseteq
       [kind : {"none", "client", "parse", "schema", "scad", "runtime"}, len : Nat,
        named : Nat, of : Nat, note : {"none", "omitted"}]

\* A request carries a report of broken rules, or the diagnosis of a failed tool,
\* of 1500 characters at most, the notes on what is left out included, however
\* long the lines of the file or of the output are.
FeedbackBounded ==
  retry_feedback.kind \in {"scad", "runtime"} => retry_feedback.len <= 1500

\* The budget never costs the first two violations, and a report that leaves
\* one out says so, in the request that is to bring the repair.
ReportTellsEnough ==
  retry_feedback.kind = "scad" =>
    /\ retry_feedback.named = retry_feedback.of \/ retry_feedback.named >= 2
    /\ retry_feedback.note = "omitted" <=> retry_feedback.named < retry_feedback.of
=============================================================================
