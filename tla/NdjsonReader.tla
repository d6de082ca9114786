----------------------------- MODULE NdjsonReader -----------------------------
(***************************************************************************)
(* createNdjsonParser: the events of a streamed answer come as lines of JSON  *)
(* and the network cuts the text wherever it likes.  Of a line's characters  *)
(* the model tells "x" and one that spoils it, "bad", apart.                 *)
(***************************************************************************)
EXTENDS Integers, Sequences, SequencesExt

CONSTANT MaxBytes   \* bound: characters of a stream

VARIABLES
  written,   \* what the server wrote
  taken,     \* how much of it was pushed into the parser
  buffer,    \* the line that is not whole yet
  heardOf,   \* events and malformed lines, in order
  flushed    \* the stream ended and the parser was flushed

readerVars == <<written, taken, buffer, heardOf, flushed>>

ReaderInit ==
  /\ written = <<>> /\ taken = 0 /\ buffer = <<>> /\ heardOf = <<>> /\ flushed = FALSE

\* text.split("\n"): a newline ends the last piece and begins another.
SplitLines(text) ==
  LET pieces[n \in 0..Len(text)] ==
        IF n = 0 THEN << <<>> >>
        ELSE IF text[n] = "nl" THEN Append(pieces[n - 1], <<>>)
        ELSE Append(Front(pieces[n - 1]), Append(Last(pieces[n - 1]), text[n]))
  IN  pieces[Len(text)]

Heard(line) == IF Contains(line, "bad") THEN <<"malformed">> ELSE line

\* Blank lines are skipped, malformed ones reported and skipped.
Emitted(lines) ==
  LET said[n \in 0..Len(lines)] ==
        IF n = 0 THEN <<>>
        ELSE IF lines[n] = <<>> THEN said[n - 1] ELSE Append(said[n - 1], Heard(lines[n]))
  IN  said[Len(lines)]

ServerWrites(ch) ==
  /\ Len(written) < MaxBytes /\ ~flushed
  /\ written' = Append(written, ch)
  /\ UNCHANGED <<taken, buffer, heardOf, flushed>>

\* One chunk, of any length: the last piece waits for the next one.
Feed(n, textChunk) ==
  LET lines == SplitLines(textChunk) IN
  /\ taken < n /\ ~flushed
  /\ taken' = n
  /\ buffer' = Last(lines)
  /\ heardOf' = heardOf \o Emitted(Front(lines))
  /\ UNCHANGED <<written, flushed>>

\* Mutant: the piece that waited is forgotten.
PushTextAlone(n) == Feed(n, SubSeq(written, taken + 1, n))

PushText(n) == Feed(n, buffer \o SubSeq(written, taken + 1, n))

FlushText ==
  /\ taken = Len(written) /\ ~flushed
  /\ flushed' = TRUE
  /\ heardOf' = heardOf \o Emitted(<<buffer>>)
  /\ buffer' = <<>>
  /\ UNCHANGED <<written, taken>>

ReaderNext ==
  \/ \E ch \in {"x", "bad", "nl"} : ServerWrites(ch)
  \/ \E n \in 1..Len(written) : PushText(n)
  \/ FlushText

ReaderSpec == ReaderInit /\ [][ReaderNext]_readerVars

-----------------------------------------------------------------------------
\* However the text was cut, what has been heard is what its lines say, in order
\* and once each; the end of the stream adds the last line if it is not empty.
ChunkingIrrelevant ==
  LET lines == SplitLines(SubSeq(written, 1, taken)) IN
  heardOf = Emitted(IF flushed THEN lines ELSE Front(lines))
=============================================================================
