------------------------------- MODULE ScadMask -------------------------------
(***************************************************************************)
(* _mask_non_code (llm/scad_validator.py): the scan that blanks comments,  *)
(* and strings if asked to, before the rules look at a .scad file.  One    *)
(* step is one turn of the loop.                                           *)
(***************************************************************************)
EXTENDS Integers, Sequences, FiniteSets

CONSTANT Texts          \* the contents of .scad files

\* The quote, the backslash, the slash, the star, the line feed, any other
\* character at which splitlines() breaks a line, and the rest.
Chars == {"quote", "backslash", "slash", "star", "lf", "break", "other"}

\* What a character is masked with.
Blank == "blank"

ASSUME TextsAssumption == Texts \subseteq Seq(Chars)

VARIABLES
  content,
  mask_strings,
  i,                    \* the next character, counted from 1
  state,
  result

scanVars == <<content, mask_strings, i, state, result>>

ScanInit ==
  /\ content \in Texts
  /\ mask_strings \in BOOLEAN
  /\ i = 1
  /\ state = "normal"
  /\ result = <<>>

-----------------------------------------------------------------------------
\* The scan takes k characters, writes `out` for them and goes on in `next`.
Take(k, out, next) ==
  /\ i' = i + k
  /\ state' = next
  /\ result' = result \o out
  /\ UNCHANGED <<content, mask_strings>>

\* The next two characters are a and b.
Pair(a, b) == content[i] = a /\ i + 1 <= Len(content) /\ content[i + 1] = b

MaskedString == IF mask_strings THEN Blank ELSE content[i]

Normal ==
  /\ i <= Len(content)
  /\ state = "normal"
  /\ \/ /\ content[i] = "quote"
        /\ Take(1, <<MaskedString>>, "in_string")
     \/ /\ Pair("slash", "slash")
        /\ Take(2, <<Blank, Blank>>, "in_line_comment")
     \/ /\ Pair("slash", "star")
        /\ Take(2, <<Blank, Blank>>, "in_block_comment")
     \/ /\ content[i] # "quote" /\ ~ Pair("slash", "slash") /\ ~ Pair("slash", "star")
        /\ Take(1, <<content[i]>>, "normal")

\* backslash_count: the backslashes right before position p.
BackslashCount(p) ==
  Cardinality({k \in 1 .. p - 1 : \A j \in k .. p - 1 : content[j] = "backslash"})

\* Seeded fault: the one character before the quote decides.
Closes_Last ==
  content[i] = "quote" /\ (i > 1 => content[i - 1] # "backslash")

\* The quote ends the string unless it is escaped.
Closes == content[i] = "quote" /\ BackslashCount(i) % 2 = 0

InString ==
  /\ i <= Len(content)
  /\ state = "in_string"
  /\ Take(1, <<MaskedString>>, IF Closes THEN "normal" ELSE "in_string")

InLineComment ==
  /\ i <= Len(content)
  /\ state = "in_line_comment"
  /\ IF content[i] = "lf" THEN Take(1, <<"lf">>, "normal")
                          ELSE Take(1, <<Blank>>, "in_line_comment")

\* Seeded fault: the comment's line feeds are blanked.
InBlockComment_NoBreaks ==
  /\ i <= Len(content)
  /\ state = "in_block_comment"
  /\ \/ /\ Pair("star", "slash")
        /\ Take(2, <<Blank, Blank>>, "normal")
     \/ /\ ~ Pair("star", "slash")
        /\ Take(1, <<Blank>>, "in_block_comment")

InBlockComment ==
  /\ i <= Len(content)
  /\ state = "in_block_comment"
  /\ \/ /\ Pair("star", "slash")
        /\ Take(2, <<Blank, Blank>>, "normal")
     \/ /\ ~ Pair("star", "slash")
        /\ Take(1, <<IF content[i] = "lf" THEN "lf" ELSE Blank>>, "in_block_comment")

ScanNext == Normal \/ InString \/ InLineComment \/ InBlockComment

ScanSpec == ScanInit /\ [][ScanNext]_scanVars

-----------------------------------------------------------------------------
(* The reference: the text as a sequence of tokens.                        *)

\* The characters of the text that a backslash escapes, in a string that begins
\* at position p.
Escaped(t, p) ==
  LET esc[k \in p .. Len(t)] ==
        k > p + 1 /\ t[k - 1] = "backslash" /\ ~ esc[k - 1]
  IN {k \in p .. Len(t) : esc[k]}

Kind(t, p) ==
  LET opens(c) == t[p] = "slash" /\ p < Len(t) /\ t[p + 1] = c
  IN CASE t[p] = "quote" -> "string"
       [] opens("slash") -> "line"
       [] opens("star") -> "block"
       [] OTHER -> "code"

\* The last position of the token at p: the closing quote, the last character of
\* the line, the end of the comment, or all the rest if there is none.
TokenEnd(t, p) ==
  LET ends == CASE Kind(t, p) = "string" ->
                     {k \in p + 1 .. Len(t) : t[k] = "quote" /\ k \notin Escaped(t, p)}
                [] Kind(t, p) = "line" -> {k \in p + 1 .. Len(t) - 1 : t[k + 1] = "lf"}
                [] Kind(t, p) = "block" ->
                     {k \in p + 3 .. Len(t) : t[k - 1] = "star" /\ t[k] = "slash"}
                [] OTHER -> {p}
  IN IF ends = {} THEN Len(t) ELSE CHOOSE k \in ends : \A l \in ends : k <= l

\* For every position the position at which its token begins.
TokenStart(t) ==
  LET start[p \in 1 .. Len(t)] ==
        IF p = 1 \/ TokenEnd(t, start[p - 1]) = p - 1 THEN p ELSE start[p - 1]
  IN start

\* What the scan is to make of the text: comments keep their line feeds.  Masked
\* strings lose theirs, as in the code and against its docstring: see NewlinesKept.
Masked(t, strings) ==
  LET start == TokenStart(t)
  IN [p \in 1 .. Len(t) |->
        CASE Kind(t, start[p]) = "code" -> t[p]
          [] Kind(t, start[p]) = "string" -> IF strings THEN Blank ELSE t[p]
          [] Kind(t, start[p]) \in {"line", "block"} -> IF t[p] = "lf" THEN "lf" ELSE Blank]

\* The number of the line that position p is on.
LineOf(t, p) == 1 + Cardinality({k \in 1 .. p - 1 : t[k] \in {"lf", "break"}})

-----------------------------------------------------------------------------
(* Properties.                                                             *)

\* The scan's variables.
ScanTypeOK ==
  /\ content \in Seq(Chars)
  /\ mask_strings \in BOOLEAN
  /\ i \in 1 .. Len(content) + 1
  /\ state \in {"normal", "in_string", "in_line_comment", "in_block_comment"}
  /\ result \in Seq(Chars \cup {Blank})

\* The docstring of _mask_non_code: every newline and every position is kept.
\* The code replaces a line feed in a string by a blank when strings are masked.
NewlinesKept ==
  /\ Len(result) = i - 1
  /\ \A p \in 1 .. i - 1 : content[p] = "lf" <=> result[p] = "lf"

\* What the scan blanks are the comments and strings of the text, with comment
\* signs in strings, quotes in comments, escaped quotes, and comments and strings
\* that are never closed.
MasksTokens == result = SubSeq(Masked(content, mask_strings), 1, i - 1)

\* The line numbers that the rules report are those of the file as long as no
\* string runs over several lines and comments break lines with line feeds only.
LinesKept ==
  LET start == TokenStart(content)
      inside(p) == Kind(content, start[p])
  IN (\A p \in 1 .. Len(content) :
        /\ content[p] = "break" => inside(p) = "code"
        /\ content[p] = "lf" => inside(p) # "string")
     => \A p \in 1 .. i - 1 : LineOf(result, p) = LineOf(content, p)
=============================================================================
