------------------------------ MODULE LineDrain ------------------------------
(***************************************************************************)
(* The drain of one pipe (_collect_streams in runner/service.py) at the    *)
(* level of bytes: chunks of any size are joined, split at line feeds,     *)
(* decoded and stripped, and the lines become CLI_OUTPUT rows and the tail *)
(* that an error message quotes.  CliRunner models its commits.            *)
(*                                                                         *)
(* Bytes are a (a character of one byte), n (line feed), r (carriage       *)
(* return), h and t (the first and second byte of a character of two).     *)
(* Decoding gives e for the character of two bytes and ? for U+FFFD; ...   *)
(* stands for the three dots after a line that was cut.                    *)
(***************************************************************************)
EXTENDS Integers, Sequences, FiniteSetsExt

CONSTANTS
  MaxBytes,             \* bound on what the tool writes
  ChunkSize,            \* _CHUNK_SIZE
  TailLines,            \* _TAIL_MAX_LINES
  TailChars             \* _TAIL_MAX_LINE_CHARS

ASSUME DrainAssumption ==
  /\ MaxBytes \in Nat
  /\ {ChunkSize, TailLines, TailChars} \subseteq Nat \ {0}

Bytes == {"a", "n", "r", "h", "t"}

VARIABLES
  stream,               \* what the tool writes until it closes the pipe
  read,                 \* bytes of it read so far
  buffer,               \* line_buffer
  rows,                 \* messages of the CLI_OUTPUT rows
  tail,                 \* the deque
  done                  \* drain has returned

drainVars == <<stream, read, buffer, rows, tail, done>>

DrainInit ==
  /\ \E n \in 0 .. MaxBytes : stream \in [1 .. n -> Bytes]
  /\ read = 0
  /\ buffer = <<>>
  /\ rows = <<>>
  /\ tail = <<>>
  /\ done = FALSE

-----------------------------------------------------------------------------
(* Of SequencesExt only these three are needed; without it the proofs do   *)
(* not carry the modules it extends.                                       *)

Front(s) == SubSeq(s, 1, Len(s) - 1)

Last(s) == s[Len(s)]

\* The elements of s in a row.
Flatten(s) ==
  LET flat[k \in 0 .. Len(s)] == IF k = 0 THEN <<>> ELSE flat[k - 1] \o s[k]
  IN flat[Len(s)]

-----------------------------------------------------------------------------
\* line_buffer.split(b"\n"): one more piece than there are line feeds.
Split(bytes) ==
  LET pieces[k \in 0 .. Len(bytes)] ==
        IF k = 0 THEN << <<>> >>
        ELSE IF bytes[k] = "n" THEN Append(pieces[k - 1], <<>>)
        ELSE Append(Front(pieces[k - 1]), Append(Last(pieces[k - 1]), bytes[k]))
  IN pieces[Len(bytes)]

\* decode("utf-8", errors="replace"): a first byte waits as h for its second.
Decode(bytes) ==
  LET chars[k \in 0 .. Len(bytes)] ==
        IF k = 0 THEN <<>>
        ELSE IF bytes[k] # "t" THEN Append(chars[k - 1], bytes[k])
        ELSE IF chars[k - 1] # <<>> /\ Last(chars[k - 1]) = "h"
          THEN Append(Front(chars[k - 1]), "e")
        ELSE Append(chars[k - 1], "?")
      all == chars[Len(bytes)]
  IN [i \in DOMAIN all |-> IF all[i] = "h" THEN "?" ELSE all[i]]

\* rstrip("\r")
RStrip(chars) ==
  SubSeq(chars, 1, Max({0} \cup {i \in DOMAIN chars : chars[i] # "r"}))

Cut(line) == IF Len(line) <= TailChars THEN line
             ELSE SubSeq(line, 1, TailChars) \o <<"...">>

\* Seeded fault: a batch replaces what the deque held.
Pushed_Batch(lines) ==
  LET all == [i \in DOMAIN lines |-> Cut(lines[i])]
  IN SubSeq(all, Max({1, Len(all) - TailLines + 1}), Len(all))

\* The deque after a batch of lines: the last ones of what it held and got.
Pushed(lines) ==
  LET all == tail \o [i \in DOMAIN lines |-> Cut(lines[i])]
  IN SubSeq(all, Max({1, Len(all) - TailLines + 1}), Len(all))

\* A line that is not empty, or nothing.
Kept(line) == IF line = <<>> THEN <<>> ELSE <<line>>

\* persist
Persist(pieces) ==
  LET lines == Flatten([i \in DOMAIN pieces |-> Kept(RStrip(Decode(pieces[i])))])
  IN /\ rows' = rows \o lines
     /\ tail' = Pushed(lines)

\* Seeded fault: the piece after the last line feed is persisted as a line.
ReadChunk_Whole ==
  \E n \in 1 .. Min({ChunkSize, Len(stream) - read}) :
    LET pieces == Split(buffer \o SubSeq(stream, read + 1, read + n))
    IN /\ ~ done
       /\ read' = read + n
       /\ buffer' = <<>>
       /\ Persist(pieces)
       /\ UNCHANGED <<stream, done>>

\* One turn of the loop: read() returns what is there, up to a chunk.
ReadChunk ==
  \E n \in 1 .. Min({ChunkSize, Len(stream) - read}) :
    LET pieces == Split(buffer \o SubSeq(stream, read + 1, read + n))
    IN /\ ~ done
       /\ read' = read + n
       /\ buffer' = Last(pieces)
       /\ Persist(Front(pieces))
       /\ UNCHANGED <<stream, done>>

\* read() returns nothing, and the rest of the buffer is a line.
EndOfStream ==
  /\ ~ done
  /\ read = Len(stream)
  /\ done' = TRUE
  /\ IF buffer # <<>> THEN Persist(<<buffer>>) ELSE UNCHANGED <<rows, tail>>
  /\ UNCHANGED <<stream, read, buffer>>

DrainNext == ReadChunk \/ EndOfStream

DrainSpec == DrainInit /\ [][DrainNext]_drainVars

-----------------------------------------------------------------------------
(* The reference: what the tool wrote, decoded as a whole and then cut     *)
(* into lines.                                                             *)

\* A character starts at every byte but the second of a pair.
Text(bytes) ==
  LET paired(k) == k \in 1 .. Len(bytes) - 1 /\ bytes[k] = "h" /\ bytes[k + 1] = "t"
  IN Flatten([k \in DOMAIN bytes |->
       CASE paired(k) -> <<"e">>
         [] paired(k - 1) -> <<>>
         [] bytes[k] \in {"h", "t"} /\ ~ paired(k) /\ ~ paired(k - 1) -> <<"?">>
         [] OTHER -> <<bytes[k]>>])

\* The lines of a text, each at the position where it ends, without the empty
\* ones and those of carriage returns.
LinesOf(text) ==
  LET ends == {i \in DOMAIN text : text[i] = "n"} \cup {Len(text) + 1}
      begin(e) == Max({0} \cup {x \in ends : x < e})
      line(e) == RStrip(SubSeq(text, begin(e) + 1, e - 1))
  IN Flatten([e \in 1 .. Len(text) + 1 |-> IF e \in ends THEN Kept(line(e)) ELSE <<>>])

\* The bytes read up to the last line feed, or all of them at the end.
Settled == IF done THEN stream
           ELSE SubSeq(stream, 1, Max({0} \cup {i \in 1 .. read : stream[i] = "n"}))

-----------------------------------------------------------------------------
(* Properties.                                                             *)

\* However the output arrives in chunks, in the middle of a line or of a
\* character, the rows are the lines of the whole output: none lost, doubled, cut
\* or joined, and no character damaged that was not damaged in the output.
RowsAreLines == rows = LinesOf(Text(Settled))

\* The tail that an error quotes is the end of those rows, whatever the batches
\* they came in.
TailIsRecent ==
  /\ Len(tail) = Min({TailLines, Len(rows)})
  /\ \A i \in DOMAIN tail : tail[i] = Cut(rows[Len(rows) - Len(tail) + i])
=============================================================================
