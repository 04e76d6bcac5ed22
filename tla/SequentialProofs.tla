-------------------------- MODULE SequentialProofs ---------------------------
(***************************************************************************)
(* Theorems about the sequential parts of an attempt: the retry feedback,  *)
(* for lines and outputs of any length; the files of a tool, for any paths *)
(* and any tool; the scan of a .scad file, for texts of any length.        *)
(***************************************************************************)
EXTENDS RetryFeedback, ScadMask, ToolFiles, SequenceLemmas

-----------------------------------------------------------------------------
(* The retry feedback.                                                     *)

FeedbackType ==
  [kind : {"none", "client", "parse", "schema", "scad", "runtime"}, len : Nat,
   named : Nat, of : Nat, note : {"none", "omitted"}]

\* A message that FeedbackBounded and ReportTellsEnough allow.
Fine(fb) ==
  /\ fb.kind \in {"scad", "runtime"} => fb.len <= 1500
  /\ fb.kind = "scad" =>
       /\ fb.named = fb.of \/ fb.named >= 2
       /\ fb.note = "omitted" <=> fb.named < fb.of

\* No block is longer than 696 characters, a report is within its budget, and as
\* long as two blocks are not in there is room for another.
Budget ==
  /\ \A k \in 1 .. Len(violations) : violations[k] <= 696
  /\ pc # "report" => named = 0
  /\ pc = "report" =>
       /\ Len(violations) > 0
       /\ 35 <= current_len /\ current_len <= 1450
       /\ named = 0 => current_len = 35
       /\ named = 1 => current_len <= 35 + 696

\* The inductive invariant.
FeedbackInv == TypeOK /\ Fine(feedback) /\ Fine(retry_feedback) /\ Budget

\* An except clause replaces the feedback; nothing of the attempt is left.
LEMMA RetryInv ==
  ASSUME FeedbackInv, NEW fb \in FeedbackType, Fine(fb), Retry(fb)
  PROVE  FeedbackInv'
<1> USE FeedbackAssumption
<1>1. /\ attempt \in 1 .. MaxAttempts /\ feedback \in FeedbackType
      /\ retry_feedback \in FeedbackType
  BY DEF FeedbackInv, TypeOK, FeedbackType
<1>2. /\ violations' = <<>> /\ named' = 0 /\ rule' = 1 /\ current_len' = 0
      /\ attempt' = attempt /\ retry_feedback' = retry_feedback
  BY DEF Retry
<1>3. /\ pc' \in {"sleep", "failed"} /\ (pc' = "sleep" => attempt < MaxAttempts)
      /\ feedback' \in {feedback, fb}
  BY <1>1 DEF Retry
<1>4. TypeOK' /\ Budget'
  BY <1>1, <1>2, <1>3 DEF TypeOK, Budget, FeedbackType
<1>5. Fine(feedback)' /\ Fine(retry_feedback)'
  BY <1>2, <1>3 DEF FeedbackInv, Fine
<1> QED BY <1>4, <1>5 DEF FeedbackInv

\* After the sleep the request has the feedback of the loop.
LEMMA SleepInv == FeedbackInv /\ Sleep => FeedbackInv'
<1> SUFFICES ASSUME FeedbackInv, Sleep PROVE FeedbackInv'
  OBVIOUS
<1>1. attempt' \in 1 .. MaxAttempts
  BY FeedbackAssumption DEF FeedbackInv, TypeOK, Sleep
<1>2. TypeOK'
  BY <1>1 DEF FeedbackInv, TypeOK, Sleep
<1>3. Budget'
  BY DEF FeedbackInv, Budget, Sleep
<1>4. Fine(feedback)' /\ Fine(retry_feedback)'
  BY DEF FeedbackInv, Fine, Sleep
<1> QED BY <1>2, <1>3, <1>4 DEF FeedbackInv

\* A message that is no report is allowed; that of a tool if it is short.
LEMMA ToldFine ==
  ASSUME NEW kind \in {"none", "client", "parse", "schema", "runtime"}, NEW len \in Nat,
         kind = "runtime" => len <= 1500
  PROVE  Told(kind, len) \in FeedbackType /\ Fine(Told(kind, len))
<1> DEFINE fb == Told(kind, len)
<1>1. fb \in FeedbackType
  BY DEF Told, Message, FeedbackType
<1>2. fb.kind = kind /\ fb.len = len /\ kind # "scad"
  BY DEF Told, Message
<1>3. Fine(fb)
  BY <1>2 DEF Fine
<1> QED BY <1>1, <1>3

\* So is a report that names all of the violations ...
LEMMA WholeReportFine ==
  ASSUME NEW len \in Nat, NEW n \in Nat, len <= 1500
  PROVE  Message("scad", len, n, n, "none") \in FeedbackType
         /\ Fine(Message("scad", len, n, n, "none"))
<1> DEFINE fb == Message("scad", len, n, n, "none")
<1>1. fb \in FeedbackType
  BY DEF Message, FeedbackType
<1>2. fb.len = len /\ fb.named = n /\ fb.of = n /\ fb.note = "none"
  BY DEF Message
<1>3. Fine(fb)
  BY <1>2 DEF Fine
<1> QED BY <1>1, <1>3

\* ... and one that names two or more and mentions that there are others.
LEMMA PartReportFine ==
  ASSUME NEW len \in Nat, NEW k \in Nat, NEW n \in Nat, len <= 1500, 2 <= k, k < n
  PROVE  Message("scad", len, k, n, "omitted") \in FeedbackType
         /\ Fine(Message("scad", len, k, n, "omitted"))
<1> DEFINE fb == Message("scad", len, k, n, "omitted")
<1>1. fb \in FeedbackType
  BY DEF Message, FeedbackType
<1>2. fb.len = len /\ fb.named = k /\ fb.of = n /\ fb.note = "omitted"
  BY DEF Message
<1>3. Fine(fb)
  BY <1>2 DEF Fine
<1> QED BY <1>1, <1>3

\* The other steps do not touch the messages.
LEMMA FeedbackKept ==
  ASSUME FeedbackInv, UNCHANGED loopVars PROVE Fine(feedback)' /\ Fine(retry_feedback)'
BY DEF FeedbackInv, Fine, loopVars

\* The first stage of an attempt.
LEMMA AskInv == FeedbackInv /\ Ask => FeedbackInv'
<1> SUFFICES ASSUME FeedbackInv, Ask PROVE FeedbackInv'
  OBVIOUS
<1>1. CASE Retry(Told("client", 68))
  BY <1>1, RetryInv, ToldFine
<1>2. ASSUME NEW n \in OtherLengths, Retry(Told("parse", 35 + n)) \/ Retry(Told("schema", n))
      PROVE  FeedbackInv'
  <2>1. n \in Nat /\ 35 + n \in Nat
    BY FeedbackAssumption
  <2> QED BY <1>2, <2>1, RetryInv, ToldFine
<1>3. CASE /\ pc' \in {"failed", "rules", "execute"}
           /\ UNCHANGED <<rule, violations, named, current_len, loopVars>>
  <2>1. TypeOK' /\ Budget'
    BY <1>3 DEF FeedbackInv, TypeOK, Budget, loopVars, Ask
  <2> QED BY <1>3, <2>1, FeedbackKept DEF FeedbackInv
<1> QED BY <1>1, <1>2, <1>3 DEF Ask

\* A line of a snippet has 265 characters at most, with its line break.
LEMMA SnippetBound == \A s \in Snippets : s \in Nat /\ s <= 265
<1> SUFFICES ASSUME NEW line \in LineLengths, NEW digits \in Digits
             PROVE  1 + Snippet(line, digits) \in Nat /\ 1 + Snippet(line, digits) <= 265
  BY DEF Snippets
<1>1. line \in Nat /\ digits \in 1 .. 100
  BY FeedbackAssumption
<1> QED BY <1>1 DEF Snippet

\* The rules add blocks of at most 696 characters.
LEMMA RulesInv == FeedbackInv /\ (CheckEmpty \/ CheckRule \/ RulesDone) => FeedbackInv'
<1> SUFFICES ASSUME FeedbackInv, CheckEmpty \/ CheckRule \/ RulesDone PROVE FeedbackInv'
  OBVIOUS
<1>1. CASE CheckEmpty
  <2>1. CASE Retry(Message("scad", 100, 1, 1, "none"))
    BY <2>1, RetryInv, WholeReportFine
  <2>2. CASE rule' = 2 /\ UNCHANGED <<pc, violations, named, current_len, loopVars>>
    <3>1. TypeOK' /\ Budget'
      BY <2>2 DEF FeedbackInv, TypeOK, Budget, loopVars
    <3> QED BY <2>2, <3>1, FeedbackKept DEF FeedbackInv
  <2> QED BY <1>1, <2>1, <2>2 DEF CheckEmpty
<1>2. CASE CheckRule
  <2>1. FeedbackInv /\ pc = "rules" /\ pc' = "rules" /\ rule \in 2 .. 7 /\ rule' = rule + 1
        /\ UNCHANGED <<named, current_len, loopVars>>
    BY <1>2 DEF CheckRule
  <2>2. ASSUME NEW b \in Nat, b <= 696, violations' = Append(violations, b) PROVE FeedbackInv'
    <3>1. /\ violations \in Seq(Nat) /\ violations' \in Seq(Nat)
          /\ Len(violations') = Len(violations) + 1
          /\ \A k \in 1 .. Len(violations) : violations'[k] = violations[k]
          /\ violations'[Len(violations) + 1] = b
      BY <2>2 DEF FeedbackInv, TypeOK
    <3>2. \A k \in 1 .. Len(violations') : violations'[k] <= 696
      BY <2>2, <3>1 DEF FeedbackInv, Budget
    <3>3. named' = 0
      BY <2>1 DEF FeedbackInv, Budget
    <3>4. TypeOK' /\ Budget'
      BY <2>1, <3>1, <3>2, <3>3 DEF FeedbackInv, TypeOK, Budget, loopVars
    <3> QED BY <2>1, <3>4, FeedbackKept DEF FeedbackInv
  <2>3. CASE UNCHANGED violations
    <3>1. TypeOK' /\ Budget'
      BY <2>1, <2>3 DEF FeedbackInv, TypeOK, Budget, loopVars
    <3> QED BY <2>1, <3>1, FeedbackKept DEF FeedbackInv
  <2>4. Desc[rule] \in Nat /\ Desc[rule] <= 156 /\ (rule < 7 => Desc[rule] <= 154)
    BY <2>1 DEF Desc
  <2>5. CASE rule = 7 /\ violations' = Append(violations, Desc[rule] + 1)
    BY <2>2, <2>4, <2>5
  <2>6. ASSUME rule < 7, NEW first \in Snippets, NEW second \in Snippets \cup {0},
               violations' = Append(violations, Desc[rule] + 12 + first + second)
        PROVE  FeedbackInv'
    <3>1. first \in Nat /\ first <= 265 /\ second \in Nat /\ second <= 265
      BY SnippetBound
    <3>2. Desc[rule] + 12 + first + second \in Nat /\ Desc[rule] + 12 + first + second <= 696
      BY <2>4, <2>6, <3>1
    <3> QED BY <2>2, <2>6, <3>2
  <2> QED BY <1>2, <2>3, <2>5, <2>6 DEF CheckRule
<1>3. CASE RulesDone
  <2>1. Len(violations) \in Nat /\ (violations # <<>> => Len(violations) > 0) /\ named = 0
    BY <1>3 DEF FeedbackInv, TypeOK, Budget, RulesDone
  <2>2. TypeOK'
    BY <1>3 DEF FeedbackInv, TypeOK, RulesDone, loopVars
  <2>3. Budget'
    BY <1>3, <2>1 DEF FeedbackInv, Budget, RulesDone
  <2> QED BY <1>3, <2>2, <2>3, FeedbackKept DEF FeedbackInv, RulesDone
<1> QED BY <1>1, <1>2, <1>3

\* A block is appended only where it fits, and one of the first two always does.
LEMMA ReportInv == FeedbackInv /\ (AppendBlock \/ RaiseReport) => FeedbackInv'
<1> SUFFICES ASSUME FeedbackInv, pc = "report", AppendBlock \/ RaiseReport PROVE FeedbackInv'
  BY DEF AppendBlock, RaiseReport
<1>1. /\ violations \in Seq(Nat) /\ Len(violations) \in Nat /\ Len(violations) > 0
      /\ named \in 0 .. Len(violations)
      /\ current_len \in Nat /\ 35 <= current_len /\ current_len <= 1450
      /\ named = 0 => current_len = 35
      /\ named = 1 => current_len <= 35 + 696
  BY DEF FeedbackInv, TypeOK, Budget
<1>2. named < Len(violations) =>
        violations[named + 1] \in Nat /\ violations[named + 1] <= 696
  BY <1>1 DEF FeedbackInv, Budget
<1>3. CASE AppendBlock
  <2>1. /\ named < Len(violations) /\ named' = named + 1
        /\ current_len' = current_len + violations[named + 1]
        /\ current_len + violations[named + 1] <= 1450
        /\ UNCHANGED <<pc, rule, violations, loopVars>>
    BY <1>3 DEF AppendBlock, Fits
  <2>2. /\ named' \in 0 .. Len(violations) /\ current_len' \in Nat /\ named' # 0
        /\ 35 <= current_len' /\ current_len' <= 1450
        /\ named' = 1 => current_len' <= 35 + 696
    <3> DEFINE b == violations[named + 1]
    <3>1. /\ b \in Nat /\ b <= 696 /\ current_len' = current_len + b /\ current_len + b <= 1450
          /\ named \in Nat /\ named < Len(violations) /\ named' = named + 1
      BY <1>1, <1>2, <2>1
    <3> HIDE DEF b
    <3> QED BY <1>1, <3>1
  <2>3. TypeOK'
    BY <2>1, <2>2 DEF FeedbackInv, TypeOK, loopVars
  <2>4. Budget'
    <3>1. pc' = "report" /\ violations' = violations /\ Len(violations') > 0
      BY <1>1, <2>1
    <3>2. \A k \in 1 .. Len(violations') : violations'[k] <= 696
      BY <3>1 DEF FeedbackInv, Budget
    <3> QED BY <2>2, <3>1, <3>2 DEF Budget
  <2> QED BY <2>1, <2>3, <2>4, FeedbackKept DEF FeedbackInv
<1>4. CASE named < Len(violations) /\ ~ Fits(violations[named + 1]) /\ Report("omitted")
  <2>1. current_len + 35 \in Nat /\ current_len + 35 <= 1500 /\ named \in Nat /\ 2 <= named
    BY <1>1, <1>2, <1>4 DEF Fits
  <2>2. Retry(Message("scad", current_len + 35, named, Len(violations), "omitted"))
    BY <1>4 DEF Report
  <2> QED BY <1>1, <1>4, <2>1, <2>2, RetryInv, PartReportFine
<1>5. CASE named = Len(violations) /\ Report("none")
  <2>1. PICK b \in Blanks \cap 0 .. current_len - 36 :
          Retry(Message("scad", current_len - 1 - b, named, Len(violations), "none"))
    BY <1>5 DEF Report
  <2>2. current_len - 1 - b \in Nat /\ current_len - 1 - b <= 1500
    BY <1>1
  <2> QED BY <1>1, <1>5, <2>1, <2>2, RetryInv, WholeReportFine
<1> QED BY <1>3, <1>4, <1>5 DEF RaiseReport

\* The diagnosis of a failed tool is cut to size.
LEMMA ExecuteInv == FeedbackInv /\ Execute => FeedbackInv'
<1> SUFFICES ASSUME FeedbackInv, Execute PROVE FeedbackInv'
  OBVIOUS
<1>1. CASE /\ pc' \in {"done", "failed"}
           /\ UNCHANGED <<rule, violations, named, current_len, loopVars>>
  <2>1. TypeOK' /\ Budget'
    BY <1>1 DEF FeedbackInv, TypeOK, Budget, loopVars, Execute
  <2> QED BY <1>1, <2>1, FeedbackKept DEF FeedbackInv
<1>2. ASSUME NEW d \in Digits, NEW n \in Details, NEW len \in Clipped(42 + d + n),
             Retry(Told("runtime", len))
      PROVE  FeedbackInv'
  <2>1. d \in Nat /\ LineLengths \subseteq Nat /\ TailLengths \subseteq Nat
    BY FeedbackAssumption
  <2>2. \A k \in Nat : BoundedTail(k) \in Nat
    BY DEF BoundedTail
  <2>3. \A k \in Nat : Quote(k) \in Nat
    BY <2>2 DEF Quote
  <2>4. \A l \in Nat : Match(76, l) \in Nat /\ Match(82, l) \in Nat
    BY DEF Match
  <2>5. n \in Nat
    BY <2>1, <2>3, <2>4 DEF Details
  <2>6. \A b \in Blanks : b \in 0 .. 150
    BY <2>1 DEF Blanks
  <2>7. len \in Nat /\ len <= 1500
    BY <2>1, <2>5, <2>6 DEF Clipped
  <2> QED BY <1>2, <2>7, RetryInv, ToldFine
<1> QED BY <1>1, <1>2 DEF Execute

\* The invariant holds of the loop of generate_actions at every step: its
\* attempts are bounded, and its feedback is short and fair.
THEOREM FeedbackCorrect == Spec => []FeedbackInv
<1>1. Init => FeedbackInv
  <2> SUFFICES ASSUME Init PROVE FeedbackInv
    OBVIOUS
  <2>1. /\ feedback \in FeedbackType /\ Fine(feedback)
        /\ retry_feedback \in FeedbackType /\ Fine(retry_feedback)
    BY ToldFine DEF Init
  <2>2. TypeOK
    BY <2>1, FeedbackAssumption DEF Init, TypeOK, FeedbackType
  <2>3. Budget
    BY DEF Init, Budget
  <2> QED BY <2>1, <2>2, <2>3 DEF FeedbackInv
<1>2. FeedbackInv /\ [Next]_vars => FeedbackInv'
  <2>1. ASSUME FeedbackInv, UNCHANGED vars PROVE FeedbackInv'
    BY <2>1 DEF FeedbackInv, TypeOK, Fine, Budget, vars, loopVars
  <2> QED BY <2>1, AskInv, RulesInv, ReportInv, ExecuteInv, SleepInv DEF Next
<1> QED BY <1>1, <1>2, PTL DEF Spec

\* build_runtime_feedback and the report of ScadStaticValidator stay within 1500
\* characters, whatever the lengths of lines and tails.
THEOREM FeedbackStaysShort == Spec => []FeedbackBounded
<1>1. FeedbackInv => FeedbackBounded
  BY DEF FeedbackInv, Fine, FeedbackBounded
<1> QED BY <1>1, FeedbackCorrect, PTL

\* The budget of the report never hides one of the first two violations, and
\* what it hides it mentions.
THEOREM ReportIsFair == Spec => []ReportTellsEnough
<1>1. FeedbackInv => ReportTellsEnough
  BY DEF FeedbackInv, Fine, ReportTellsEnough
<1> QED BY <1>1, FeedbackCorrect, PTL

-----------------------------------------------------------------------------
(* The files of a tool.                                                    *)

\* What the file contents have to do with each other: the copy that has begun
\* has done its part for every result that is not to do any more.
Copying ==
  /\ stage \in {"idle", "tool"} \/ (stage = "returned" /\ ending = "ok") => todo = {}
  /\ stage \in {"tool", "copy"} => \A p \in Paths : before[p] # 0 => before[p] = start[p]
  /\ stage = "tool" => workspace = start
  /\ stage = "copy" =>
       /\ todo \subseteq Results
       /\ \A p \in Paths : workspace[p] = IF p \in Results \ todo THEN tmp[p] ELSE start[p]

\* The inductive invariant.
FilesInv == FilesTypeOK /\ OtherFilesKept /\ SuccessBringsAll /\ Copying

\* In the first state there are no files.
LEMMA FilesInitInv == FilesInit => FilesInv
BY FilesAssumption
   DEF FilesInit, FilesInv, FilesTypeOK, OtherFilesKept, SuccessBringsAll, Copying, Empty, Contents

\* Preparing a call, and a call that is refused there.
LEMMA PrepareInv == FilesInv /\ Prepare => FilesInv'
<1> SUFFICES ASSUME FilesInv, Prepare PROVE FilesInv'
  OBVIOUS
<1> USE FilesAssumption DEF Prepare, Return
<1>0. todo = {}
  BY DEF FilesInv, Copying
<1>1. FilesTypeOK'
  BY <1>0 DEF FilesInv, FilesTypeOK, Contents
<1>2. OtherFilesKept'
  BY DEF OtherFilesKept
<1>3. SuccessBringsAll'
  <2>1. stage' = "returned" => ending' # "ok"
    OBVIOUS
  <2> QED BY <2>1 DEF SuccessBringsAll
<1>4. Copying'
  <2>1. \A p \in Paths : stage' = "tool" /\ before'[p] # 0 => before'[p] = start'[p]
    OBVIOUS
  <2>2. stage' # "copy" /\ stage' # "idle" /\ todo' = {}
    BY <1>0
  <2>3. workspace' = start'
    OBVIOUS
  <2> QED BY <2>1, <2>2, <2>3 DEF Copying
<1> QED BY <1>1, <1>2, <1>3, <1>4 DEF FilesInv

\* The tool changes its own directory only.
LEMMA ToolInv == ASSUME NEW p \in Paths PROVE FilesInv /\ ToolWrites(p) => FilesInv'
<1> SUFFICES ASSUME FilesInv, ToolWrites(p) PROVE FilesInv'
  OBVIOUS
<1> USE FilesAssumption DEF ToolWrites
<1>0. todo = {} /\ stage = "tool"
  BY DEF FilesInv, Copying
<1>1. FilesTypeOK'
  BY <1>0 DEF FilesInv, FilesTypeOK, Contents, Write
<1>2. OtherFilesKept' /\ SuccessBringsAll' /\ Copying'
  BY <1>0 DEF FilesInv, OtherFilesKept, SuccessBringsAll, Copying
<1> QED BY <1>1, <1>2 DEF FilesInv

\* The end of the tool, with or without results.
LEMMA EndsInv == FilesInv /\ ToolEnds => FilesInv'
<1> SUFFICES ASSUME FilesInv, ToolEnds PROVE FilesInv'
  OBVIOUS
<1> USE FilesAssumption DEF ToolEnds, Return
<1>0. stage = "tool" /\ workspace = start /\ todo = {} /\ stage' \in {"copy", "returned"}
  BY DEF FilesInv, Copying
<1>1. FilesTypeOK'
  BY DEF FilesInv, FilesTypeOK, Contents, Results
<1>2. OtherFilesKept'
  BY DEF FilesInv, OtherFilesKept
<1>3. SuccessBringsAll'
  BY DEF SuccessBringsAll
<1>4. Copying'
  <2>1. CASE stage' = "copy"
    <3>1. todo' = Results /\ Results' = Results
      BY <2>1 DEF Results
    <3>2. \A p \in Paths : before[p] # 0 => before[p] = start[p]
      BY <1>0 DEF FilesInv, Copying
    <3> QED BY <1>0, <2>1, <3>1, <3>2 DEF Copying
  <2>2. CASE stage' = "returned"
    BY <2>2 DEF Copying
  <2> QED BY <1>0, <2>1, <2>2
<1> QED BY <1>1, <1>2, <1>3, <1>4 DEF FilesInv

\* One result is copied, refused, or copied in part.  A file that was in the
\* workspace is still there, so that the check on existing files protects it.
LEMMA CopyInv == ASSUME NEW p \in Paths PROVE FilesInv /\ CopyBack(p) => FilesInv'
<1> SUFFICES ASSUME FilesInv, CopyBack(p) PROVE FilesInv'
  OBVIOUS
<1> USE FilesAssumption DEF CopyBack, Return
<1>0. stage = "copy" /\ p \in todo /\ p \in Results /\ Results' = Results
  BY DEF FilesInv, Copying, Results
<1>1. FilesTypeOK'
  BY DEF FilesInv, FilesTypeOK, Contents, Write
<1>2. OtherFilesKept'
  <2> SUFFICES ASSUME NEW q \in Paths, start[q] # 0, q # output_file
               PROVE workspace'[q] = start[q]
    BY DEF OtherFilesKept
  <2>1. workspace[q] = start[q]
    BY <1>0 DEF FilesInv, OtherFilesKept
  <2>2. CASE Denied(p)
    BY <2>1, <2>2
  <2>3. CASE ~ Denied(p)
    <3>1. q # p
      BY <2>1, <2>3 DEF Denied
    <3> QED BY <2>1, <2>3, <3>1 DEF FilesInv, FilesTypeOK, Contents
  <2> QED BY <2>2, <2>3
<1>3. SuccessBringsAll'
  BY <1>0 DEF SuccessBringsAll
<1>4. Copying'
  <2>1. CASE stage' = "returned"
    BY <2>1 DEF Copying
  <2>2. CASE stage' # "returned"
    <3>1. workspace' = [workspace EXCEPT ![p] = tmp[p]] /\ todo' = todo \ {p} /\ stage' = "copy"
      BY <1>0, <2>2
    <3>2. \A q \in Paths : workspace'[q] = IF q \in Results \ todo' THEN tmp[q] ELSE start[q]
      BY <1>0, <3>1 DEF FilesInv, Copying, FilesTypeOK, Contents
    <3>3. todo' \subseteq Results
      BY <1>0, <3>1 DEF FilesInv, Copying
    <3> QED BY <1>0, <3>1, <3>2, <3>3 DEF FilesInv, Copying
  <2> QED BY <2>1, <2>2
<1> QED BY <1>1, <1>2, <1>3, <1>4 DEF FilesInv

\* The end of the copying, when every result is in place.
LEMMA CopiedInv == FilesInv /\ CopiedBack => FilesInv'
<1> SUFFICES ASSUME FilesInv, CopiedBack PROVE FilesInv'
  OBVIOUS
<1> USE DEF CopiedBack, Return
<1>1. FilesTypeOK'
  BY DEF FilesInv, FilesTypeOK, Contents
<1>2. OtherFilesKept'
  BY DEF FilesInv, OtherFilesKept
<1>3. SuccessBringsAll'
  BY DEF FilesInv, SuccessBringsAll, Copying, Results
<1>4. Copying'
  BY DEF Copying
<1> QED BY <1>1, <1>2, <1>3, <1>4 DEF FilesInv

\* The executor's own actions happen between calls.
LEMMA BetweenInv ==
  FilesInv /\ (NextAction \/ (\E p \in Paths : WriteFile(p)) \/ UNCHANGED fileVars) => FilesInv'
<1> SUFFICES ASSUME FilesInv
             PROVE  NextAction \/ (\E p \in Paths : WriteFile(p)) \/ UNCHANGED fileVars => FilesInv'
  OBVIOUS
<1>1. CASE NextAction
  <2>1. FilesTypeOK'
    BY <1>1 DEF NextAction, FilesInv, FilesTypeOK, Contents
  <2>2. OtherFilesKept' /\ SuccessBringsAll'
    BY <1>1 DEF NextAction, OtherFilesKept, SuccessBringsAll
  <2>3. Copying'
    BY <1>1 DEF NextAction, FilesInv, Copying
  <2> QED BY <2>1, <2>2, <2>3 DEF FilesInv
<1>2. ASSUME NEW p \in Paths, WriteFile(p) PROVE FilesInv'
  <2>1. FilesTypeOK'
    BY <1>2, FilesAssumption DEF WriteFile, Write, FilesInv, FilesTypeOK, Contents
  <2>2. OtherFilesKept' /\ SuccessBringsAll' /\ Copying'
    BY <1>2 DEF WriteFile, FilesInv, OtherFilesKept, SuccessBringsAll, Copying
  <2> QED BY <2>1, <2>2 DEF FilesInv
<1>3. CASE UNCHANGED fileVars
  BY <1>3 DEF fileVars, FilesInv, FilesTypeOK, Contents, OtherFilesKept, SuccessBringsAll,
              Copying, Results
<1> QED BY <1>1, <1>2, <1>3

\* A call changes no file of the workspace but its output, and a call that
\* succeeds brings back exactly what the tool made or changed, for any paths,
\* any tool and any failure on the way (_execute_with_timeout).
THEOREM FilesCorrect == FilesSpec => []FilesInv
<1>1. FilesInv /\ [FilesNext]_fileVars => FilesInv'
  BY PrepareInv, ToolInv, EndsInv, CopyInv, CopiedInv, BetweenInv DEF FilesNext
<1> QED BY FilesInitInv, <1>1, PTL DEF FilesSpec

\* A call changes no other file of the workspace (the copy-back of run_tool).
THEOREM WorkspaceProtected == FilesSpec => []OtherFilesKept
BY FilesCorrect, PTL DEF FilesInv

\* What a call reports as success is complete.
THEOREM ResultsComplete == FilesSpec => []SuccessBringsAll
BY FilesCorrect, PTL DEF FilesInv

-----------------------------------------------------------------------------
(* The tokens of a text.                                                   *)

\* The positions at which the token at p may end.
Ends(t, p) ==
  CASE Kind(t, p) = "string" -> {k \in p + 1 .. Len(t) : t[k] = "quote" /\ k \notin Escaped(t, p)}
    [] Kind(t, p) = "line" -> {k \in p + 1 .. Len(t) - 1 : t[k + 1] = "lf"}
    [] Kind(t, p) = "block" -> {k \in p + 3 .. Len(t) : t[k - 1] = "star" /\ t[k] = "slash"}
    [] OTHER -> {p}

\* What each kind of token begins with.
LEMMA Kinds ==
  ASSUME NEW t, NEW p
  PROVE  /\ Kind(t, p) \in {"string", "line", "block", "code"}
         /\ Kind(t, p) = "string" <=> t[p] = "quote"
         /\ Kind(t, p) = "line" <=> t[p] = "slash" /\ p < Len(t) /\ t[p + 1] = "slash"
         /\ Kind(t, p) = "block" <=> t[p] = "slash" /\ p < Len(t) /\ t[p + 1] = "star"
BY DEF Kind

\* TokenEnd is the least of the positions at which the token may end.
LEMMA EndsOf ==
  ASSUME NEW t \in Seq(Chars), NEW p \in 1 .. Len(t)
  PROVE  /\ Ends(t, p) \in SUBSET Nat
         /\ TokenEnd(t, p) = IF Ends(t, p) = {} THEN Len(t)
                             ELSE CHOOSE k \in Ends(t, p) : \A l \in Ends(t, p) : k <= l
         /\ Kind(t, p) = "string" =>
              Ends(t, p) = {k \in p + 1 .. Len(t) : t[k] = "quote" /\ k \notin Escaped(t, p)}
         /\ Kind(t, p) = "line" => Ends(t, p) = {k \in p + 1 .. Len(t) - 1 : t[k + 1] = "lf"}
         /\ Kind(t, p) = "block" =>
              Ends(t, p) = {k \in p + 3 .. Len(t) : t[k - 1] = "star" /\ t[k] = "slash"}
         /\ Kind(t, p) = "code" => Ends(t, p) = {p}
<1>1. TokenEnd(t, p) = IF Ends(t, p) = {} THEN Len(t)
                       ELSE CHOOSE k \in Ends(t, p) : \A l \in Ends(t, p) : k <= l
  BY Zenon DEF TokenEnd, Ends
<1>2. /\ Kind(t, p) = "string" =>
           Ends(t, p) = {k \in p + 1 .. Len(t) : t[k] = "quote" /\ k \notin Escaped(t, p)}
      /\ Kind(t, p) = "line" => Ends(t, p) = {k \in p + 1 .. Len(t) - 1 : t[k + 1] = "lf"}
      /\ Kind(t, p) = "block" =>
           Ends(t, p) = {k \in p + 3 .. Len(t) : t[k - 1] = "star" /\ t[k] = "slash"}
      /\ Kind(t, p) = "code" => Ends(t, p) = {p}
  BY DEF Ends
<1>3. Ends(t, p) \in SUBSET Nat
  <2>1. Len(t) \in Nat /\ p \in Nat
    OBVIOUS
  <2> QED BY <1>2, <2>1, Kinds
<1> QED BY <1>1, <1>2, <1>3, Zenon

\* The token ends at the first of them.
LEMMA EndIs ==
  ASSUME NEW t \in Seq(Chars), NEW p \in 1 .. Len(t), NEW k \in Ends(t, p),
         \A l \in Ends(t, p) : k <= l
  PROVE  TokenEnd(t, p) = k
<1> DEFINE c == CHOOSE x \in Ends(t, p) : \A l \in Ends(t, p) : x <= l
<1>1. c \in Ends(t, p) /\ \A l \in Ends(t, p) : c <= l
  BY Zenon
<1>2. TokenEnd(t, p) = c
  BY EndsOf, Zenon
<1>3. Ends(t, p) \in SUBSET Nat
  BY EndsOf
<1> HIDE DEF c
<1>4. c <= k /\ k <= c /\ c \in Nat /\ k \in Nat
  BY <1>1, <1>3
<1> QED BY <1>2, <1>4

\* It ends at one of them or with the text.
LEMMA EndIsNot ==
  ASSUME NEW t \in Seq(Chars), NEW p \in 1 .. Len(t), NEW e, e \notin Ends(t, p), e # Len(t)
  PROVE  TokenEnd(t, p) # e
<1> DEFINE c == CHOOSE x \in Ends(t, p) : \A l \in Ends(t, p) : x <= l
<1>1. CASE Ends(t, p) = {}
  BY <1>1, EndsOf, Zenon
<1>2. CASE Ends(t, p) # {}
  <2>1. Ends(t, p) \in SUBSET Nat
    BY EndsOf
  <2>2. \E x \in Ends(t, p) : \A l \in Ends(t, p) : x <= l
    BY <1>2, <2>1, Least
  <2>3. c \in Ends(t, p)
    BY <2>2, Zenon
  <2>4. TokenEnd(t, p) = c
    BY <1>2, EndsOf, Zenon
  <2> QED BY <2>3, <2>4, Zenon
<1> QED BY <1>1, <1>2

\* The recursive definition of the tokens' beginnings has a solution.
LEMMA Starts ==
  ASSUME NEW t \in Seq(Chars)
  PROVE  \A p \in 1 .. Len(t) :
           TokenStart(t)[p] = IF p = 1 \/ TokenEnd(t, TokenStart(t)[p - 1]) = p - 1
                              THEN p ELSE TokenStart(t)[p - 1]
<1> DEFINE N == Len(t)
           S == 0 .. N
           G == [n \in 1 .. N |-> [x \in S |-> IF n = 1 \/ TokenEnd(t, x) = n - 1 THEN n ELSE x]]
           Solves(f) == f = [p \in 1 .. N |-> IF p = 1 \/ TokenEnd(t, f[p - 1]) = p - 1
                                              THEN p ELSE f[p - 1]]
<1>1. N \in Nat /\ 0 \in S
  OBVIOUS
<1>2. ASSUME NEW n \in 1 .. N, NEW x \in S
      PROVE  (IF n = 1 \/ TokenEnd(t, x) = n - 1 THEN n ELSE x) \in S
  BY <1>1
<1>3. G \in [1 .. N -> [S -> S]]
  BY <1>2, Zenon
<1>4. PICK f \in [0 .. N -> S] : \A n \in 1 .. N : f[n] = G[n][f[n - 1]]
  <2> HIDE DEF N, S, G
  <2>1. Computable(N, S, 0, G)
    BY <1>1, <1>3, Recursion, Zenon
  <2> QED BY <2>1, Zenon DEF Computable
<1>5. ASSUME NEW n \in 1 .. N
      PROVE  f[n] = IF n = 1 \/ TokenEnd(t, f[n - 1]) = n - 1 THEN n ELSE f[n - 1]
  <2>1. n - 1 \in 0 .. N
    BY <1>1
  <2>2. f[n - 1] \in S
    BY <2>1, Zenon
  <2> QED BY <1>4, <2>2, Zenon
<1> DEFINE h == [p \in 1 .. N |-> f[p]]
<1>6. ASSUME NEW p \in 1 .. N
      PROVE  h[p] = IF p = 1 \/ TokenEnd(t, h[p - 1]) = p - 1 THEN p ELSE h[p - 1]
  <2>1. CASE p = 1
    BY <1>5, <2>1, Zenon
  <2>2. CASE p # 1
    <3>1. p - 1 \in 1 .. N
      BY <1>1, <2>2
    <3>2. h[p - 1] = f[p - 1] /\ h[p] = f[p]
      BY <3>1, Zenon
    <3> QED BY <1>5, <3>2, Zenon
  <2> QED BY <2>1, <2>2
<1>7. Solves(h)
  BY <1>6, Zenon
<1>8. Solves(CHOOSE g : Solves(g))
  BY <1>7, Zenon
<1>9. TokenStart(t) = CHOOSE g : Solves(g)
  BY Zenon DEF TokenStart
<1>10. Solves(TokenStart(t))
  BY <1>8, <1>9, Zenon
<1> QED BY <1>10, Zenon

\* So has the one of the characters that a backslash escapes.
LEMMA Escapes ==
  ASSUME NEW t \in Seq(Chars), NEW p \in 1 .. Len(t), NEW k \in p .. Len(t)
  PROVE  k \in Escaped(t, p) <=> k > p + 1 /\ t[k - 1] = "backslash" /\ k - 1 \notin Escaped(t, p)
<1> DEFINE N == Len(t)
           G == [n \in 1 .. N |-> [x \in BOOLEAN |-> n > p + 1 /\ t[n - 1] = "backslash" /\ ~ x]]
           Solves(f) == f = [n \in p .. N |-> n > p + 1 /\ t[n - 1] = "backslash" /\ ~ f[n - 1]]
<1>1. N \in Nat /\ p \in Nat /\ FALSE \in BOOLEAN
  OBVIOUS
<1>3. G \in [1 .. N -> [BOOLEAN -> BOOLEAN]]
  BY Zenon
<1>4. PICK f \in [0 .. N -> BOOLEAN] : \A n \in 1 .. N : f[n] = G[n][f[n - 1]]
  <2> HIDE DEF N, G
  <2>1. Computable(N, BOOLEAN, FALSE, G)
    BY <1>1, <1>3, Recursion, Zenon
  <2> QED BY <2>1, Zenon DEF Computable
<1>5. ASSUME NEW n \in p .. N
      PROVE  f[n] = (n > p + 1 /\ t[n - 1] = "backslash" /\ ~ f[n - 1])
  <2>1. n - 1 \in 0 .. N /\ n \in 1 .. N
    BY <1>1
  <2>2. f[n - 1] \in BOOLEAN
    BY <2>1, Zenon
  <2> QED BY <1>4, <2>1, <2>2, Zenon
<1> DEFINE h == [n \in p .. N |-> f[n]]
<1>6. ASSUME NEW n \in p .. N
      PROVE  h[n] = (n > p + 1 /\ t[n - 1] = "backslash" /\ ~ h[n - 1])
  <2>1. CASE n > p + 1
    <3>1. n - 1 \in p .. N
      BY <1>1, <2>1
    <3>2. h[n - 1] = f[n - 1] /\ h[n] = f[n]
      BY <3>1, Zenon
    <3> QED BY <1>5, <3>2, Zenon
  <2>2. CASE ~ (n > p + 1)
    <3>1. f[n] = FALSE /\ h[n] = f[n]
      BY <1>5, <2>2, Zenon
    <3> QED BY <2>2, <3>1, Zenon
  <2> QED BY <2>1, <2>2
<1>7. Solves(h)
  BY <1>6, Zenon
<1>8. Solves(CHOOSE g : Solves(g))
  BY <1>7, Zenon
<1> DEFINE esc == CHOOSE g : Solves(g)
<1>9. Escaped(t, p) = {n \in p .. N : esc[n]}
  BY Zenon DEF Escaped
<1>10. \A n \in p .. N : esc[n] = (n > p + 1 /\ t[n - 1] = "backslash" /\ ~ esc[n - 1])
  BY <1>8, Zenon
<1> HIDE DEF esc
<1>11. CASE k > p + 1
  <2>1. k - 1 \in p .. N
    BY <1>1, <1>11
  <2> QED BY <1>9, <1>10, <2>1, Zenon
<1>12. CASE ~ (k > p + 1)
  BY <1>9, <1>10, <1>12, Zenon
<1> QED BY <1>11, <1>12

\* A token goes on after a position at which it cannot end.
LEMMA GoesOn ==
  ASSUME NEW t \in Seq(Chars), NEW p \in 1 .. Len(t), NEW n \in p + 1 .. Len(t),
         TokenStart(t)[n - 1] = p, n - 1 \notin Ends(t, p)
  PROVE  TokenStart(t)[n] = p
<1>1. n \in 1 .. Len(t) /\ n # 1 /\ n - 1 # Len(t)
  OBVIOUS
<1>2. TokenEnd(t, p) # n - 1
  BY <1>1, EndIsNot
<1> QED BY <1>1, <1>2, Starts, Zenon

\* The next token begins after the end of the one before.
AtToken(t, n) == n = 1 \/ TokenEnd(t, TokenStart(t)[n - 1]) = n - 1

\* A position after the end of a token begins the next one.
LEMMA Begins ==
  ASSUME NEW t \in Seq(Chars), NEW n \in 1 .. Len(t), AtToken(t, n)
  PROVE  TokenStart(t)[n] = n
BY Starts, Zenon DEF AtToken

\* The mask of a position by the kind of its token.
LEMMA MaskAt ==
  ASSUME NEW t \in Seq(Chars), NEW s, NEW n \in 1 .. Len(t), NEW p, TokenStart(t)[n] = p
  PROVE  /\ Kind(t, p) = "code" => Masked(t, s)[n] = t[n]
         /\ Kind(t, p) = "string" => Masked(t, s)[n] = IF s THEN Blank ELSE t[n]
         /\ Kind(t, p) \in {"line", "block"} =>
              Masked(t, s)[n] = IF t[n] = "lf" THEN "lf" ELSE Blank
<1> DEFINE m(q) == CASE Kind(t, TokenStart(t)[q]) = "code" -> t[q]
                     [] Kind(t, TokenStart(t)[q]) = "string" -> IF s THEN Blank ELSE t[q]
                     [] Kind(t, TokenStart(t)[q]) \in {"line", "block"} ->
                          IF t[q] = "lf" THEN "lf" ELSE Blank
<1>1. Masked(t, s) = [q \in 1 .. Len(t) |-> m(q)]
  BY Zenon DEF Masked
<1>2. Masked(t, s)[n] = m(n)
  BY <1>1, Zenon
<1> QED BY <1>2

-----------------------------------------------------------------------------
(* Where the scan is in the tokens of the text, in each of its states.     *)

\* The backslashes right before position n.
Count(t, n) == Cardinality({k \in 1 .. n - 1 : \A j \in k .. n - 1 : t[j] = "backslash"})

\* The backslashes before a position, counted one character at a time.
LEMMA CountStep ==
  ASSUME NEW t \in Seq(Chars), NEW n \in 1 .. Len(t)
  PROVE  /\ Count(t, n) \in Nat
         /\ Count(t, n + 1) = IF t[n] = "backslash" THEN Count(t, n) + 1 ELSE 0
<1> DEFINE run(m) == {k \in 1 .. m - 1 : \A j \in k .. m - 1 : t[j] = "backslash"}
<1>0. n \in Nat /\ n - 1 \in Int /\ n + 1 - 1 = n
  OBVIOUS
<1>1. IsFiniteSet(run(n)) /\ Count(t, n) \in Nat
  <2>1. run(n) \in SUBSET (1 .. n - 1)
    OBVIOUS
  <2>2. IsFiniteSet(1 .. n - 1)
    BY <1>0, FS_Interval
  <2> HIDE DEF run
  <2>3. IsFiniteSet(run(n))
    BY <2>1, <2>2, FS_Subset
  <2>4. Cardinality(run(n)) \in Nat
    BY <2>3, FS_CardinalityType
  <2> QED BY <2>3, <2>4 DEF Count, run
<1>2. Count(t, n) = Cardinality(run(n)) /\ Count(t, n + 1) = Cardinality(run(n + 1))
  BY Zenon DEF Count
<1>3. CASE t[n] = "backslash"
  <2>1. run(n + 1) = run(n) \cup {n} /\ n \notin run(n)
    BY <1>0, <1>3
  <2> HIDE DEF run
  <2>2. Cardinality(run(n) \cup {n}) = Cardinality(run(n)) + 1
    BY <1>1, <2>1, FS_AddElement
  <2> QED BY <1>1, <1>2, <1>3, <2>1, <2>2
<1>4. CASE t[n] # "backslash"
  <2>1. run(n + 1) = {}
    BY <1>0, <1>4
  <2> HIDE DEF run
  <2> QED BY <1>1, <1>2, <1>4, <2>1, FS_EmptySet
<1> QED BY <1>3, <1>4

\* In the string at p.
StringFrom(t, p, n) ==
  /\ Kind(t, p) = "string"
  /\ \A k \in p + 1 .. n - 1 : k \notin Ends(t, p)
  /\ n <= Len(t) => (n \in Escaped(t, p) <=> Count(t, n) % 2 = 1)

\* In the comment at p that ends with the line.
LineFrom(t, p, n) ==
  /\ Kind(t, p) = "line" /\ p + 1 < n
  /\ \A k \in p + 2 .. n - 1 : t[k] # "lf"

\* In the block comment at p.
BlockFrom(t, p, n) ==
  /\ Kind(t, p) = "block" /\ p + 1 < n
  /\ \A k \in p + 3 .. n : k <= Len(t) => ~ (t[k - 1] = "star" /\ t[k] = "slash")

Where(t, st, n) ==
  /\ st = "normal" => AtToken(t, n)
  /\ st # "normal" => \E p \in 1 .. n - 1 :
       /\ TokenStart(t)[n - 1] = p
       /\ st = "in_string" => StringFrom(t, p, n)
       /\ st = "in_line_comment" => LineFrom(t, p, n)
       /\ st = "in_block_comment" => BlockFrom(t, p, n)

-----------------------------------------------------------------------------
(* One turn of the loop against the tokens: what the turn reads is masked  *)
(* as the token says, and the scan is where the next state says.           *)

\* A character of code is a token of its own.
LEMMA CodeStep ==
  ASSUME NEW t \in Seq(Chars), NEW s, NEW n \in 1 .. Len(t), AtToken(t, n),
         Kind(t, n) = "code"
  PROVE  Masked(t, s)[n] = t[n] /\ Where(t, "normal", n + 1)
<1>1. TokenStart(t)[n] = n
  BY Begins
<1>2. TokenEnd(t, n) = n
  <2>1. Ends(t, n) = {n}
    BY EndsOf
  <2>2. n \in Ends(t, n) /\ \A l \in Ends(t, n) : n <= l
    BY <2>1
  <2> QED BY <2>2, EndIs
<1>3. n + 1 - 1 = n
  OBVIOUS
<1> QED BY <1>1, <1>2, <1>3, MaskAt DEF Where, AtToken

\* A quote begins a string.
LEMMA QuoteStep ==
  ASSUME NEW t \in Seq(Chars), NEW s, NEW n \in 1 .. Len(t), AtToken(t, n), t[n] = "quote"
  PROVE  Masked(t, s)[n] = (IF s THEN Blank ELSE t[n]) /\ Where(t, "in_string", n + 1)
<1>1. TokenStart(t)[n] = n /\ Kind(t, n) = "string"
  BY Begins, Kinds
<1>2. n + 1 - 1 = n /\ n \in 1 .. (n + 1) - 1 /\ n + 1 \in Nat
  OBVIOUS
<1>3. Count(t, n + 1) = 0
  BY CountStep
<1>4. StringFrom(t, n, n + 1)
  <2>1. ASSUME n + 1 <= Len(t) PROVE n + 1 \notin Escaped(t, n)
    <3>1. n + 1 \in n .. Len(t)
      BY <2>1
    <3> QED BY <3>1, Escapes
  <2>2. (n + 1) .. (n + 1) - 1 = {}
    OBVIOUS
  <2> QED BY <1>1, <1>3, <2>1, <2>2 DEF StringFrom
<1> QED BY <1>1, <1>2, <1>4, MaskAt DEF Where

\* Two characters begin a comment.
LEMMA OpenStep ==
  ASSUME NEW t \in Seq(Chars), NEW s, NEW n \in 1 .. Len(t), AtToken(t, n),
         Kind(t, n) \in {"line", "block"}
  PROVE  /\ Masked(t, s)[n] = Blank /\ Masked(t, s)[n + 1] = Blank
         /\ Kind(t, n) = "line" => Where(t, "in_line_comment", n + 2)
         /\ Kind(t, n) = "block" => Where(t, "in_block_comment", n + 2)
<1>1. TokenStart(t)[n] = n /\ t[n] # "lf" /\ n < Len(t) /\ t[n + 1] # "lf" /\ t[n + 1] # "quote"
  BY Begins, Kinds
<1>2. /\ n + 1 \in n + 1 .. Len(t) /\ n + 1 \in 1 .. Len(t) /\ n + 1 - 1 = n
      /\ n + 2 - 1 = n + 1 /\ n \in 1 .. (n + 2) - 1
  BY <1>1
<1>3. n \notin Ends(t, n)
  BY EndsOf
<1>4. TokenStart(t)[n + 1] = n
  BY <1>1, <1>2, <1>3, GoesOn
<1>5. Masked(t, s)[n] = Blank /\ Masked(t, s)[n + 1] = Blank
  BY <1>1, <1>2, <1>4, MaskAt
<1>6. Kind(t, n) = "line" => LineFrom(t, n, n + 2)
  BY DEF LineFrom
<1>7. Kind(t, n) = "block" => BlockFrom(t, n, n + 2)
  BY DEF BlockFrom
<1> QED BY <1>2, <1>4, <1>5, <1>6, <1>7 DEF Where

\* A character of a string: the closing quote ends it.
LEMMA StringStep ==
  ASSUME NEW t \in Seq(Chars), NEW s, NEW n \in 1 .. Len(t), Where(t, "in_string", n)
  PROVE  /\ Masked(t, s)[n] = IF s THEN Blank ELSE t[n]
         /\ Where(t, IF t[n] = "quote" /\ Count(t, n) % 2 = 0 THEN "normal" ELSE "in_string",
                  n + 1)
<1>1. PICK p \in 1 .. n - 1 : TokenStart(t)[n - 1] = p /\ StringFrom(t, p, n)
  BY DEF Where
<1>2. p \in 1 .. Len(t) /\ n \in p + 1 .. Len(t) /\ n \in p .. Len(t) /\ n + 1 - 1 = n
  BY <1>1
<1>3. Kind(t, p) = "string"
  BY <1>1 DEF StringFrom
<1>4. Ends(t, p) = {k \in p + 1 .. Len(t) : t[k] = "quote" /\ k \notin Escaped(t, p)}
  BY <1>2, <1>3, EndsOf, Zenon
<1>5. \A k \in 1 .. n - 1 : k \notin Ends(t, p)
  BY <1>1, <1>2, <1>4 DEF StringFrom
<1>6. TokenStart(t)[n] = p
  BY <1>1, <1>2, <1>5, GoesOn
<1>7. Masked(t, s)[n] = IF s THEN Blank ELSE t[n]
  BY <1>3, <1>6, MaskAt
<1>8. /\ Count(t, n) \in Nat
      /\ Count(t, n + 1) = IF t[n] = "backslash" THEN Count(t, n) + 1 ELSE 0
      /\ n \in Escaped(t, p) <=> Count(t, n) % 2 = 1
  BY <1>1, CountStep DEF StringFrom
<1>9. CASE t[n] = "quote" /\ Count(t, n) % 2 = 0
  <2>1. n \in Ends(t, p) /\ \A l \in Ends(t, p) : n <= l
    <3>1. n \notin Escaped(t, p)
      BY <1>8, <1>9
    <3> QED BY <1>2, <1>4, <1>5, <1>9, <3>1
  <2>2. TokenEnd(t, p) = n
    BY <1>2, <2>1, EndIs
  <2> QED BY <1>2, <1>6, <1>7, <1>9, <2>2 DEF Where, AtToken
<1>10. CASE ~ (t[n] = "quote" /\ Count(t, n) % 2 = 0)
  <2>1. n \notin Ends(t, p)
    BY <1>4, <1>8, <1>10
  <2>2. \A k \in p + 1 .. (n + 1) - 1 : k \notin Ends(t, p)
    BY <1>2, <1>5, <2>1
  <2>3. ASSUME n + 1 <= Len(t) PROVE n + 1 \in Escaped(t, p) <=> Count(t, n + 1) % 2 = 1
    <3>1. n + 1 \in p .. Len(t) /\ n + 1 > p + 1
      BY <1>2, <2>3
    <3>2. n + 1 \in Escaped(t, p) <=> t[n] = "backslash" /\ n \notin Escaped(t, p)
      BY <1>2, <3>1, Escapes
    <3> QED BY <1>8, <3>2
  <2>4. StringFrom(t, p, n + 1)
    BY <1>3, <2>2, <2>3 DEF StringFrom
  <2> QED BY <1>2, <1>6, <1>7, <1>10, <2>4 DEF Where
<1> QED BY <1>9, <1>10

\* A character of a comment that the line feed ends.
LEMMA LineStep ==
  ASSUME NEW t \in Seq(Chars), NEW s, NEW n \in 1 .. Len(t), Where(t, "in_line_comment", n)
  PROVE  /\ Masked(t, s)[n] = IF t[n] = "lf" THEN "lf" ELSE Blank
         /\ Where(t, IF t[n] = "lf" THEN "normal" ELSE "in_line_comment", n + 1)
<1>1. PICK p \in 1 .. n - 1 : TokenStart(t)[n - 1] = p /\ LineFrom(t, p, n)
  BY DEF Where
<1>2. /\ p \in 1 .. Len(t) /\ n \in p + 2 .. Len(t) /\ n \in p + 1 .. Len(t)
      /\ n + 1 - 1 = n /\ n - 1 + 1 = n
  BY <1>1 DEF LineFrom
<1>3. Kind(t, p) = "line" /\ \A k \in p + 2 .. n - 1 : t[k] # "lf"
  BY <1>1 DEF LineFrom
<1>4. Ends(t, p) = {k \in p + 1 .. Len(t) - 1 : t[k + 1] = "lf"}
  BY <1>2, <1>3, EndsOf, Zenon
<1>5. CASE t[n] = "lf"
  <2>1. n - 1 \in Ends(t, p)
    BY <1>2, <1>4, <1>5
  <2>2. ASSUME NEW l \in Ends(t, p) PROVE n - 1 <= l
    <3>1. l \in p + 1 .. Len(t) - 1 /\ t[l + 1] = "lf"
      BY <1>4
    <3>2. l + 1 \notin p + 2 .. n - 1
      BY <1>3, <3>1
    <3> QED BY <1>2, <3>1, <3>2
  <2>3. TokenEnd(t, p) = n - 1
    BY <1>2, <2>1, <2>2, EndIs
  <2>4. AtToken(t, n) /\ Kind(t, n) = "code"
    BY <1>1, <1>5, <2>3, Kinds DEF AtToken
  <2> QED BY <1>5, <2>4, CodeStep
<1>6. CASE t[n] # "lf"
  <2>1. n - 1 \notin Ends(t, p)
    BY <1>2, <1>4, <1>6
  <2>2. TokenStart(t)[n] = p
    BY <1>1, <1>2, <2>1, GoesOn
  <2>3. LineFrom(t, p, n + 1)
    BY <1>2, <1>3, <1>6 DEF LineFrom
  <2>4. Masked(t, s)[n] = Blank
    BY <1>3, <1>6, <2>2, MaskAt
  <2> QED BY <1>2, <1>6, <2>2, <2>3, <2>4 DEF Where
<1> QED BY <1>5, <1>6

\* A character of a block comment, or the two that end it.
LEMMA BlockStep ==
  ASSUME NEW t \in Seq(Chars), NEW s, NEW n \in 1 .. Len(t), Where(t, "in_block_comment", n)
  PROVE  /\ Masked(t, s)[n] = IF t[n] = "lf" THEN "lf" ELSE Blank
         /\ n + 1 <= Len(t) /\ t[n] = "star" /\ t[n + 1] = "slash"
              => Masked(t, s)[n + 1] = Blank /\ Where(t, "normal", n + 2)
         /\ ~ (n + 1 <= Len(t) /\ t[n] = "star" /\ t[n + 1] = "slash")
              => Where(t, "in_block_comment", n + 1)
<1>1. PICK p \in 1 .. n - 1 : TokenStart(t)[n - 1] = p /\ BlockFrom(t, p, n)
  BY DEF Where
<1>2. /\ p \in 1 .. Len(t) /\ n \in p + 2 .. Len(t) /\ n \in p + 1 .. Len(t)
      /\ n + 1 - 1 = n /\ n + 2 - 1 = n + 1
  BY <1>1 DEF BlockFrom
<1>3. Kind(t, p) = "block"
  BY <1>1 DEF BlockFrom
<1>4. Ends(t, p) = {k \in p + 3 .. Len(t) : t[k - 1] = "star" /\ t[k] = "slash"}
  BY <1>2, <1>3, EndsOf, Zenon
<1>5. \A k \in Ends(t, p) : k > n
  BY <1>1, <1>2, <1>4 DEF BlockFrom
<1>6. n - 1 \notin Ends(t, p) /\ n \notin Ends(t, p)
  BY <1>2, <1>5
<1>7. TokenStart(t)[n] = p
  BY <1>1, <1>2, <1>6, GoesOn
<1>8. Masked(t, s)[n] = IF t[n] = "lf" THEN "lf" ELSE Blank
  BY <1>3, <1>7, MaskAt
<1>9. ASSUME n + 1 <= Len(t), t[n] = "star", t[n + 1] = "slash"
      PROVE  Masked(t, s)[n + 1] = Blank /\ Where(t, "normal", n + 2)
  <2>1. n + 1 \in 1 .. Len(t) /\ n + 1 \in p + 3 .. Len(t) /\ n + 1 \in p + 1 .. Len(t)
    BY <1>2, <1>9
  <2>2. TokenStart(t)[n + 1] = p
    BY <1>2, <1>6, <1>7, <2>1, GoesOn
  <2>3. Masked(t, s)[n + 1] = Blank
    BY <1>3, <1>9, <2>1, <2>2, MaskAt
  <2>4. n + 1 \in Ends(t, p) /\ \A l \in Ends(t, p) : n + 1 <= l
    BY <1>2, <1>4, <1>5, <1>9, <2>1
  <2>5. TokenEnd(t, p) = n + 1
    BY <1>2, <2>4, EndIs
  <2> QED BY <1>2, <2>2, <2>3, <2>5 DEF Where, AtToken
<1>10. ASSUME ~ (n + 1 <= Len(t) /\ t[n] = "star" /\ t[n + 1] = "slash")
       PROVE  Where(t, "in_block_comment", n + 1)
  <2>1. BlockFrom(t, p, n + 1)
    BY <1>1, <1>2, <1>10 DEF BlockFrom
  <2> QED BY <1>2, <1>7, <2>1 DEF Where
<1> QED BY <1>8, <1>9, <1>10

-----------------------------------------------------------------------------
(* The scan on texts of any length: the result has a character for every   *)
(* character of the text, in the same place.                               *)

States == {"normal", "in_string", "in_line_comment", "in_block_comment"}

\* Each character read has one character in the result: itself or a blank, and a
\* line feed is blanked only if strings are masked.
PositionsKept ==
  /\ Len(result) = i - 1
  /\ \A p \in 1 .. i - 1 :
       \/ result[p] = content[p]
       \/ result[p] = Blank /\ (content[p] = "lf" => mask_strings)

\* The inductive invariant of the loop.
ScanInv == ScanTypeOK /\ PositionsKept

\* A character may be written for the one at position p.
Allowed(c, p) ==
  c = content[p] \/ (c = Blank /\ (content[p] = "lf" => mask_strings))

\* What a turn that reads and writes one character does.
LEMMA OneWritten ==
  ASSUME ScanInv, i <= Len(content), NEW c \in Chars \cup {Blank}, NEW next,
         Take(1, <<c>>, next)
  PROVE  /\ i \in 1 .. Len(content)
         /\ i' = i + 1 /\ state' = next /\ content' = content /\ mask_strings' = mask_strings
         /\ result' \in Seq(Chars \cup {Blank}) /\ Len(result') = i
         /\ result'[i] = c
         /\ \A p \in 1 .. i - 1 : result'[p] = result[p]
<1>1. /\ content \in Seq(Chars) /\ i \in Nat \ {0} /\ result \in Seq(Chars \cup {Blank})
      /\ Len(result) = i - 1 /\ i \in 1 .. Len(content)
  BY DEF ScanInv, ScanTypeOK, PositionsKept
<1>2. /\ result' \in Seq(Chars \cup {Blank}) /\ Len(result') = i
      /\ result'[i] = c
      /\ \A p \in 1 .. i - 1 : result'[p] = result[p]
  BY <1>1 DEF Take
<1>3. i' = i + 1 /\ content' = content /\ mask_strings' = mask_strings /\ state' = next
  BY DEF Take
<1> QED BY <1>1, <1>2, <1>3

\* What a turn that reads a comment sign and writes two blanks does.
LEMMA TwoWritten ==
  ASSUME ScanInv, i + 1 <= Len(content), NEW next, Take(2, <<Blank, Blank>>, next)
  PROVE  /\ i \in 1 .. Len(content) /\ i + 1 \in 1 .. Len(content)
         /\ i' = i + 2 /\ state' = next /\ content' = content /\ mask_strings' = mask_strings
         /\ result' \in Seq(Chars \cup {Blank}) /\ Len(result') = i + 1
         /\ result'[i] = Blank /\ result'[i + 1] = Blank
         /\ \A p \in 1 .. i - 1 : result'[p] = result[p]
<1>1. /\ content \in Seq(Chars) /\ i \in Nat \ {0} /\ result \in Seq(Chars \cup {Blank})
      /\ Len(result) = i - 1 /\ i + 1 \in 1 .. Len(content) /\ i \in 1 .. Len(content)
  BY DEF ScanInv, ScanTypeOK, PositionsKept
<1>3. /\ result' \in Seq(Chars \cup {Blank}) /\ Len(result') = i + 1
      /\ result'[i] = Blank /\ result'[i + 1] = Blank
      /\ \A p \in 1 .. i - 1 : result'[p] = result[p]
  <2> DEFINE two == <<Blank, Blank>>
  <2>1. two \in Seq(Chars \cup {Blank}) /\ Len(two) = 2 /\ two[1] = Blank /\ two[2] = Blank
    OBVIOUS
  <2>2. result' = result \o two
    BY DEF Take
  <2> HIDE DEF two
  <2>3. result' \in Seq(Chars \cup {Blank}) /\ Len(result') = Len(result) + Len(two)
    <3>1. /\ result \o two \in Seq(Chars \cup {Blank})
          /\ Len(result \o two) = Len(result) + Len(two)
      BY <1>1, <2>1, ConcatProperties, Zenon
    <3> QED BY <2>2, <3>1, Zenon
  <2>6. Len(result') = i + 1
    BY <1>1, <2>1, <2>3
  <2>4. result'[i] = two[1] /\ result'[i + 1] = two[2]
    <3>1. \A k \in 1 .. Len(result) + Len(two) :
            result'[k] = IF k <= Len(result) THEN result[k] ELSE two[k - Len(result)]
      BY <1>1, <2>1, <2>2, ConcatProperties, ZenonT(30)
    <3>2. i - Len(result) = 1 /\ i + 1 - Len(result) = 2
      BY <1>1
    <3> QED BY <1>1, <2>1, <3>1, <3>2
  <2>5. \A p \in 1 .. i - 1 : result'[p] = result[p]
    BY <1>1, <2>1, <2>2
  <2> QED BY <2>1, <2>3, <2>4, <2>5, <2>6
<1>4. i' = i + 2 /\ content' = content /\ mask_strings' = mask_strings /\ state' = next
  BY DEF Take
<1> QED BY <1>1, <1>3, <1>4

\* A turn that reads and writes one character.
LEMMA TakeOne ==
  ASSUME ScanInv, i <= Len(content), NEW c, NEW next \in States,
         c = content[i] \/ c = Blank, Allowed(c, i), Take(1, <<c>>, next)
  PROVE  ScanInv'
<1>1. content \in Seq(Chars) /\ i \in 1 .. Len(content)
  BY DEF ScanInv, ScanTypeOK
<1>2. c \in Chars \cup {Blank}
  BY <1>1
<1>3. /\ i' = i + 1 /\ state' = next /\ content' = content /\ mask_strings' = mask_strings
      /\ result' \in Seq(Chars \cup {Blank}) /\ Len(result') = i
      /\ result'[i] = c
      /\ \A p \in 1 .. i - 1 : result'[p] = result[p]
  BY <1>2, OneWritten
<1>5. ScanTypeOK'
  BY <1>1, <1>3 DEF ScanInv, ScanTypeOK, States
<1>6. PositionsKept'
  <2>1. \A p \in 1 .. i - 1 : Allowed(result'[p], p)
    BY <1>3 DEF ScanInv, PositionsKept, Allowed
  <2>2. \A p \in 1 .. i : Allowed(result'[p], p)
    BY <1>1, <1>3, <2>1
  <2> QED BY <1>1, <1>3, <2>2 DEF PositionsKept, Allowed
<1> QED BY <1>5, <1>6 DEF ScanInv

\* A turn that reads a comment sign and writes two blanks.
LEMMA TakeTwo ==
  ASSUME ScanInv, i + 1 <= Len(content), NEW next \in States,
         content[i] # "lf", content[i + 1] # "lf", Take(2, <<Blank, Blank>>, next)
  PROVE  ScanInv'
<1>1. content \in Seq(Chars) /\ i + 1 \in 1 .. Len(content) /\ i \in 1 .. Len(content)
  BY DEF ScanInv, ScanTypeOK
<1>3. /\ i' = i + 2 /\ state' = next /\ content' = content /\ mask_strings' = mask_strings
      /\ result' \in Seq(Chars \cup {Blank}) /\ Len(result') = i + 1
      /\ result'[i] = Blank /\ result'[i + 1] = Blank
      /\ \A p \in 1 .. i - 1 : result'[p] = result[p]
  BY TwoWritten
<1>5. ScanTypeOK'
  BY <1>1, <1>3 DEF ScanInv, ScanTypeOK, States
<1>6. PositionsKept'
  <2>1. \A p \in 1 .. i - 1 : Allowed(result'[p], p)
    BY <1>3 DEF ScanInv, PositionsKept, Allowed
  <2>2. Allowed(result'[i], i) /\ Allowed(result'[i + 1], i + 1)
    BY <1>3 DEF Allowed
  <2>3. \A p \in 1 .. i + 1 : Allowed(result'[p], p)
    BY <1>1, <2>1, <2>2
  <2> QED BY <1>1, <1>3, <2>3 DEF PositionsKept, Allowed
<1> QED BY <1>5, <1>6 DEF ScanInv

\* Every turn of the loop takes one of these two forms.
LEMMA ScanStep == ScanInv /\ [ScanNext]_scanVars => ScanInv'
<1> SUFFICES ASSUME ScanInv, [ScanNext]_scanVars PROVE ScanInv'
  OBVIOUS
<1>0. mask_strings \in BOOLEAN /\ i \in Nat
  BY DEF ScanInv, ScanTypeOK
<1>1. CASE Normal
  <2>1. CASE content[i] = "quote" /\ Take(1, <<MaskedString>>, "in_string")
    <3>1. Allowed(MaskedString, i) /\ (MaskedString = content[i] \/ MaskedString = Blank)
      BY <1>0 DEF Allowed, MaskedString
    <3> QED BY <1>1, <2>1, <3>1, TakeOne DEF Normal, States
  <2>2. CASE \/ Pair("slash", "slash") /\ Take(2, <<Blank, Blank>>, "in_line_comment")
             \/ Pair("slash", "star") /\ Take(2, <<Blank, Blank>>, "in_block_comment")
    BY <2>2, TakeTwo DEF Pair, States
  <2>3. CASE Take(1, <<content[i]>>, "normal")
    BY <1>1, <2>3, TakeOne DEF Normal, States, Allowed
  <2> QED BY <1>1, <2>1, <2>2, <2>3 DEF Normal
<1>2. CASE InString
  <2>1. Allowed(MaskedString, i) /\ (MaskedString = content[i] \/ MaskedString = Blank)
    BY <1>0 DEF Allowed, MaskedString
  <2>2. PICK next \in States : Take(1, <<MaskedString>>, next)
    BY <1>2 DEF InString, States
  <2> QED BY <1>2, <2>1, <2>2, TakeOne DEF InString
<1>3. CASE InLineComment
  <2>1. CASE content[i] = "lf"
    BY <1>3, <2>1, TakeOne DEF InLineComment, States, Allowed
  <2>2. CASE content[i] # "lf"
    BY <1>3, <2>2, TakeOne DEF InLineComment, States, Allowed
  <2> QED BY <2>1, <2>2
<1>4. CASE InBlockComment
  <2>1. CASE Pair("star", "slash") /\ Take(2, <<Blank, Blank>>, "normal")
    BY <2>1, TakeTwo DEF Pair, States
  <2>2. CASE ~ Pair("star", "slash")
    <3>1. CASE content[i] = "lf"
      BY <1>4, <2>2, <3>1, TakeOne DEF InBlockComment, States, Allowed
    <3>2. CASE content[i] # "lf"
      BY <1>4, <2>2, <3>2, TakeOne DEF InBlockComment, States, Allowed
    <3> QED BY <3>1, <3>2
  <2> QED BY <1>4, <2>1, <2>2 DEF InBlockComment
<1>5. CASE UNCHANGED scanVars
  BY <1>5 DEF scanVars, ScanInv, ScanTypeOK, PositionsKept
<1> QED BY <1>1, <1>2, <1>3, <1>4, <1>5 DEF ScanNext

\* Where strings are kept (strip_comments), what the docstring of _mask_non_code
\* says is so: through comments, strings and escapes, closed or not, the scan
\* keeps every newline and every position, for texts of any length.
THEOREM StripKeepsNewlines == ScanSpec => [](~ mask_strings => NewlinesKept)
<1>1. ScanInit => ScanInv
  BY TextsAssumption DEF ScanInit, ScanInv, ScanTypeOK, PositionsKept
<1>2. ScanInv => (~ mask_strings => NewlinesKept)
  <2> SUFFICES ASSUME ScanInv, ~ mask_strings PROVE NewlinesKept
    OBVIOUS
  <2>1. ASSUME NEW p \in 1 .. i - 1 PROVE content[p] = "lf" <=> result[p] = "lf"
    BY <2>1 DEF ScanInv, PositionsKept, Blank
  <2> QED BY <2>1 DEF ScanInv, PositionsKept, NewlinesKept
<1> QED BY <1>1, <1>2, ScanStep, PTL DEF ScanSpec

-----------------------------------------------------------------------------
(* What the scan has written is the mask of the tokens.                    *)

\* Every character written is the mask of its token.
Right == \A q \in 1 .. i - 1 : result[q] = Masked(content, mask_strings)[q]

\* The inductive invariant: the scan's state tells its place in the tokens.
TokenInv == ScanInv /\ Where(content, state, i) /\ Right

\* A turn that writes the mask of the one character it reads.
LEMMA OneRight ==
  ASSUME TokenInv, ScanInv', i <= Len(content), NEW c \in Chars \cup {Blank}, NEW next,
         Take(1, <<c>>, next), c = Masked(content, mask_strings)[i],
         Where(content, next, i + 1)
  PROVE  TokenInv'
<1>1. /\ i \in 1 .. Len(content)
      /\ i' = i + 1 /\ state' = next /\ content' = content /\ mask_strings' = mask_strings
      /\ result'[i] = c
      /\ \A p \in 1 .. i - 1 : result'[p] = result[p]
  BY OneWritten DEF TokenInv
<1>2. Where(content', state', i')
  BY <1>1, Zenon
<1>0. i \in 1 .. Len(content) /\ i' = i + 1
  BY <1>1, Zenon
<1>3. ASSUME NEW q \in 1 .. i PROVE result'[q] = Masked(content, mask_strings)[q]
  <2>1. q = i \/ q \in 1 .. i - 1
    BY <1>0
  <2> QED BY <1>1, <2>1, Zenon DEF TokenInv, Right
<1>4. Right'
  <2>1. i' - 1 = i
    BY <1>0
  <2> QED BY <1>1, <1>3, <2>1, Zenon DEF Right
<1> QED BY <1>2, <1>4 DEF TokenInv

\* A turn that reads a comment sign, which the mask blanks.
LEMMA TwoRight ==
  ASSUME TokenInv, ScanInv', i + 1 <= Len(content), NEW next,
         Take(2, <<Blank, Blank>>, next), Masked(content, mask_strings)[i] = Blank,
         Masked(content, mask_strings)[i + 1] = Blank, Where(content, next, i + 2)
  PROVE  TokenInv'
<1>1. /\ i \in 1 .. Len(content)
      /\ i' = i + 2 /\ state' = next /\ content' = content /\ mask_strings' = mask_strings
      /\ result'[i] = Blank /\ result'[i + 1] = Blank
      /\ \A p \in 1 .. i - 1 : result'[p] = result[p]
  BY TwoWritten DEF TokenInv
<1>2. Where(content', state', i')
  BY <1>1, Zenon
<1>0. i \in 1 .. Len(content) /\ i' = i + 2
  BY <1>1, Zenon
<1>3. ASSUME NEW q \in 1 .. i + 1 PROVE result'[q] = Masked(content, mask_strings)[q]
  <2>1. q = i \/ q = i + 1 \/ q \in 1 .. i - 1
    BY <1>0
  <2> QED BY <1>1, <2>1, Zenon DEF TokenInv, Right
<1>4. Right'
  <2>1. i' - 1 = i + 1
    BY <1>0
  <2> QED BY <1>1, <1>3, <2>1, Zenon DEF Right
<1> QED BY <1>2, <1>4 DEF TokenInv

\* One case per state of the scan.
LEMMA TokenInvStep == TokenInv /\ [ScanNext]_scanVars => TokenInv'
<1> SUFFICES ASSUME TokenInv, [ScanNext]_scanVars PROVE TokenInv'
  OBVIOUS
<1> DEFINE t == content
           s == mask_strings
<1>1. /\ t \in Seq(Chars) /\ s \in BOOLEAN /\ i \in 1 .. Len(t) + 1
      /\ \A q \in 1 .. Len(t) : t[q] \in Chars \cup {Blank}
      /\ Blank \in Chars \cup {Blank}
  BY DEF TokenInv, ScanInv, ScanTypeOK
<1>2. ScanInv' /\ Where(t, state, i)
  BY ScanStep DEF TokenInv
<1>3. CASE Normal
  <2>0. i <= Len(t) /\ AtToken(t, i)
    BY <1>2, <1>3, Zenon DEF Normal, Where
  <2>1. i \in 1 .. Len(t) /\ i <= Len(t) /\ AtToken(t, i)
    BY <1>1, <2>0
  <2>2. CASE t[i] = "quote" /\ Take(1, <<MaskedString>>, "in_string")
    <3>1. MaskedString \in Chars \cup {Blank} /\ MaskedString = Masked(t, s)[i]
      BY <1>1, <2>1, <2>2, QuoteStep DEF MaskedString
    <3>2. Where(t, "in_string", i + 1)
      BY <1>1, <2>1, <2>2, QuoteStep, Zenon
    <3> QED BY <1>2, <2>1, <2>2, <3>1, <3>2, OneRight
  <2>3. CASE Pair("slash", "slash") /\ Take(2, <<Blank, Blank>>, "in_line_comment")
    <3>1. Kind(t, i) = "line" /\ i + 1 <= Len(t)
      BY <1>1, <2>1, <2>3, Kinds DEF Pair
    <3>2. /\ Masked(t, s)[i] = Blank /\ Masked(t, s)[i + 1] = Blank
          /\ Where(t, "in_line_comment", i + 2)
      BY <1>1, <2>1, <3>1, OpenStep
    <3> QED BY <1>2, <2>3, <3>1, <3>2, TwoRight
  <2>4. CASE Pair("slash", "star") /\ Take(2, <<Blank, Blank>>, "in_block_comment")
    <3>1. Kind(t, i) = "block" /\ i + 1 <= Len(t)
      BY <1>1, <2>1, <2>4, Kinds DEF Pair
    <3>2. /\ Masked(t, s)[i] = Blank /\ Masked(t, s)[i + 1] = Blank
          /\ Where(t, "in_block_comment", i + 2)
      BY <1>1, <2>1, <3>1, OpenStep
    <3> QED BY <1>2, <2>4, <3>1, <3>2, TwoRight
  <2>5. CASE /\ t[i] # "quote" /\ ~ Pair("slash", "slash") /\ ~ Pair("slash", "star")
             /\ Take(1, <<t[i]>>, "normal")
    <3>0. i < Len(t) => i + 1 <= Len(t)
      BY <1>1
    <3>1. Kind(t, i) = "code"
      BY <2>5, <3>0, Kinds, Zenon DEF Pair
    <3>2. Masked(t, s)[i] = t[i] /\ Where(t, "normal", i + 1)
      BY <1>1, <2>1, <3>1, CodeStep
    <3> QED BY <1>1, <1>2, <2>1, <2>5, <3>2, OneRight
  <2> QED BY <1>3, <2>2, <2>3, <2>4, <2>5 DEF Normal
<1>4. CASE InString
  <2>1. i \in 1 .. Len(t) /\ i <= Len(t) /\ Where(t, "in_string", i)
    BY <1>1, <1>2, <1>4 DEF InString
  <2> DEFINE next == IF Closes THEN "normal" ELSE "in_string"
  <2>2. BackslashCount(i) = Count(t, i)
    BY Zenon DEF BackslashCount, Count
  <2>3. next = IF t[i] = "quote" /\ Count(t, i) % 2 = 0 THEN "normal" ELSE "in_string"
    BY <2>2 DEF Closes
  <2>4. MaskedString \in Chars \cup {Blank} /\ MaskedString = Masked(t, s)[i]
    BY <1>1, <2>1, StringStep DEF MaskedString
  <2>5. Where(t, next, i + 1)
    BY <1>1, <2>1, <2>3, StringStep
  <2>6. Take(1, <<MaskedString>>, next)
    BY <1>4 DEF InString
  <2> HIDE DEF next
  <2> QED BY <1>2, <2>1, <2>4, <2>5, <2>6, OneRight
<1>5. CASE InLineComment
  <2>1. i \in 1 .. Len(t) /\ i <= Len(t) /\ Where(t, "in_line_comment", i)
    BY <1>1, <1>2, <1>5 DEF InLineComment
  <2>2. CASE t[i] = "lf" /\ Take(1, <<"lf">>, "normal")
    <3>1. Masked(t, s)[i] = "lf" /\ Where(t, "normal", i + 1)
      BY <1>1, <2>1, <2>2, LineStep
    <3> QED BY <1>1, <1>2, <2>1, <2>2, <3>1, OneRight
  <2>3. CASE t[i] # "lf" /\ Take(1, <<Blank>>, "in_line_comment")
    <3>1. Masked(t, s)[i] = Blank /\ Where(t, "in_line_comment", i + 1)
      BY <1>1, <2>1, <2>3, LineStep
    <3> QED BY <1>1, <1>2, <2>1, <2>3, <3>1, OneRight
  <2> QED BY <1>5, <2>2, <2>3 DEF InLineComment
<1>6. CASE InBlockComment
  <2>1. i \in 1 .. Len(t) /\ i <= Len(t) /\ Where(t, "in_block_comment", i)
    BY <1>1, <1>2, <1>6 DEF InBlockComment
  <2>2. CASE Pair("star", "slash") /\ Take(2, <<Blank, Blank>>, "normal")
    <3>1. i + 1 <= Len(t) /\ t[i] = "star" /\ t[i + 1] = "slash"
      BY <2>2 DEF Pair
    <3>2. /\ Masked(t, s)[i] = Blank /\ Masked(t, s)[i + 1] = Blank
          /\ Where(t, "normal", i + 2)
      BY <1>1, <2>1, <3>1, BlockStep
    <3> QED BY <1>2, <2>2, <3>1, <3>2, TwoRight
  <2>3. CASE /\ ~ Pair("star", "slash")
             /\ Take(1, <<IF t[i] = "lf" THEN "lf" ELSE Blank>>, "in_block_comment")
    <3> DEFINE c == IF t[i] = "lf" THEN "lf" ELSE Blank
    <3>1. ~ (i + 1 <= Len(t) /\ t[i] = "star" /\ t[i + 1] = "slash")
      BY <2>3 DEF Pair
    <3>2. c = Masked(t, s)[i] /\ Where(t, "in_block_comment", i + 1)
      BY <1>1, <2>1, <3>1, BlockStep
    <3>3. c \in Chars \cup {Blank}
      BY DEF Chars
    <3>4. Take(1, <<c>>, "in_block_comment")
      BY <2>3
    <3> HIDE DEF c
    <3> QED BY <1>2, <2>1, <3>2, <3>3, <3>4, OneRight
  <2> QED BY <1>6, <2>2, <2>3 DEF InBlockComment
<1>7. CASE UNCHANGED scanVars
  <2>1. Where(content', state', i')
    BY <1>2, <1>7, Zenon DEF scanVars
  <2>2. Right'
    BY <1>7 DEF scanVars, TokenInv, Right
  <2> QED BY <1>2, <2>1, <2>2 DEF TokenInv
<1> QED BY <1>3, <1>4, <1>5, <1>6, <1>7 DEF ScanNext

\* The invariant of the scan holds in every reachable state.
LEMMA TokenInvAlways == ScanSpec => []TokenInv
<1>1. ScanInit => TokenInv
  <2> SUFFICES ASSUME ScanInit PROVE TokenInv
    OBVIOUS
  <2>1. ScanInv
    BY TextsAssumption DEF ScanInit, ScanInv, ScanTypeOK, PositionsKept
  <2>2. Where(content, state, i) /\ Right
    BY DEF ScanInit, Where, AtToken, Right
  <2> QED BY <2>1, <2>2 DEF TokenInv
<1> QED BY <1>1, TokenInvStep, PTL DEF ScanSpec

\* What the scan blanks are exactly the comments and strings of the text, in
\* texts of any length (_mask_non_code): its four states and its count of
\* backslashes agree with the tokens of the text.
THEOREM ScanMasksTokens == ScanSpec => []MasksTokens
<1>1. TokenInv => MasksTokens
  <2> SUFFICES ASSUME TokenInv PROVE MasksTokens
    OBVIOUS
  <2> DEFINE M == Masked(content, mask_strings)
             C == Chars \cup {Blank}
  <2>1. /\ content \in Seq(Chars) /\ i \in 1 .. Len(content) + 1
        /\ result \in Seq(C) /\ Len(result) = i - 1
        /\ \A q \in 1 .. i - 1 : result[q] = M[q]
    BY DEF TokenInv, ScanInv, ScanTypeOK, PositionsKept, Right
  <2> DEFINE N == Len(content)
             D == {M[q] : q \in 1 .. N}
  <2>4. N \in Nat /\ i - 1 \in 0 .. N
    BY <2>1
  <2>5. M \in [1 .. N -> D]
    BY Zenon DEF Masked
  <2>6. M \in Seq(D) /\ Len(M) = N
    <3> HIDE DEF M, N, D
    <3> QED BY <2>4, <2>5
  <2>2. SubSeq(M, 1, i - 1) = [q \in 1 .. i - 1 |-> M[q]]
    <3> HIDE DEF M, N, D
    <3> QED BY <2>4, <2>6
  <2>3. result = [q \in 1 .. i - 1 |-> result[q]]
    BY <2>1
  <2> QED BY <2>1, <2>2, <2>3 DEF MasksTokens
<1> QED BY <1>1, TokenInvAlways, PTL

\* A finding's line number in the masked text is its line number in the file,
\* in texts of any length in which no string runs over lines and the comments'
\* lines end with line feeds (_mask_non_code, the line numbers that the rules
\* report).
THEOREM ScanKeepsLines == ScanSpec => []LinesKept
<1>1. TokenInv => LinesKept
  <2> DEFINE inside(p) == Kind(content, TokenStart(content)[p])
  <2> SUFFICES ASSUME TokenInv,
                      \A p \in 1 .. Len(content) :
                        /\ content[p] = "break" => inside(p) = "code"
                        /\ content[p] = "lf" => inside(p) # "string",
                      NEW p \in 1 .. i - 1
               PROVE  LineOf(result, p) = LineOf(content, p)
    BY Zenon DEF LinesKept
  <2>1. /\ content \in Seq(Chars) /\ i \in 1 .. Len(content) + 1
        /\ \A q \in 1 .. i - 1 : result[q] = Masked(content, mask_strings)[q]
    BY DEF TokenInv, ScanInv, ScanTypeOK, PositionsKept, Right
  <2>2. ASSUME NEW q \in 1 .. p - 1
        PROVE  result[q] \in {"lf", "break"} <=> content[q] \in {"lf", "break"}
    <3>0. i \in 1 .. Len(content) + 1 /\ Len(content) \in Nat
      BY <2>1, LenProperties, Zenon
    <3>1. q \in 1 .. Len(content) /\ q \in 1 .. i - 1
      BY <3>0
    <3>2. Kind(content, TokenStart(content)[q]) \in {"string", "line", "block", "code"}
      BY Kinds
    <3>3. /\ inside(q) = "code" => result[q] = content[q]
          /\ inside(q) = "string" =>
               result[q] = IF mask_strings THEN Blank ELSE content[q]
          /\ inside(q) \in {"line", "block"} =>
               result[q] = IF content[q] = "lf" THEN "lf" ELSE Blank
      <4>1. content \in Seq(Chars) /\ result[q] = Masked(content, mask_strings)[q]
        BY <2>1, <3>1, Zenon
      <4> DEFINE b == TokenStart(content)[q]
      <4>2. /\ Kind(content, b) = "code" => Masked(content, mask_strings)[q] = content[q]
            /\ Kind(content, b) = "string" =>
                 Masked(content, mask_strings)[q] = IF mask_strings THEN Blank ELSE content[q]
            /\ Kind(content, b) \in {"line", "block"} =>
                 Masked(content, mask_strings)[q] = IF content[q] = "lf" THEN "lf" ELSE Blank
        <5>1. TokenStart(content)[q] = b
          OBVIOUS
        <5> HIDE DEF b
        <5> QED BY <3>1, <4>1, <5>1, MaskAt
      <4> QED BY <4>1, <4>2, Zenon
    <3> QED BY <3>1, <3>2, <3>3 DEF Blank
  <2>3. {q \in 1 .. p - 1 : result[q] \in {"lf", "break"}}
          = {q \in 1 .. p - 1 : content[q] \in {"lf", "break"}}
    BY <2>2, Zenon
  <2> QED BY <2>3, Zenon DEF LineOf
<1> QED BY <1>1, TokenInvAlways, PTL
=============================================================================
