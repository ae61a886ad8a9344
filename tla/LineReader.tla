------------------------------ MODULE LineReader ------------------------------
(***************************************************************************)
(* setOnReadLine of tiprocessmodule.js, which turns the READ events of a   *)
(* process into calls of a function, one for each line.  A text is a       *)
(* sequence of characters of which "end" is a line end; a READ brings any  *)
(* part of the output.                                                     *)
(***************************************************************************)
EXTENDS Naturals, Sequences, SequencesExt

CONSTANTS Characters,  \* characters of a line
          MaxText,     \* length of the output of all launches, at most
          MaxExits     \* ends of launches, at most

ASSUME LineReaderAssumption ==
  /\ "end" \notin Characters /\ MaxText \in Nat /\ MaxExits \in Nat

VARIABLES
  buffer,    \* process.buffer
  isNull,    \* it is null
  fnLines,   \* history: the lines fn was called with
  read,      \* history: the output that READs brought
  exits      \* history: launches that ended

lineVars == <<buffer, isNull, fnLines, read, exits>>

Texts(n) == UNION {[1 .. k -> Characters \cup {"end"}] : k \in 1 .. n}

\* A character ends the last of the lines, or makes it longer.
With(lines, c) ==
  IF c = "end" THEN Append(lines, <<>>) ELSE Append(Front(lines), Append(Last(lines), c))

\* str.split(/\r?\n/)
Split(str) ==
  LET lines[i \in 0 .. Len(str)] == IF i = 0 THEN << <<>> >> ELSE With(lines[i - 1], str[i])
  IN lines[Len(str)]

\* str.indexOf(sub), of a sub that str holds.
IndexOf(str, sub) ==
  CHOOSE i \in 0 .. Len(str) - Len(sub) :
    /\ SubSeq(str, i + 1, i + Len(sub)) = sub
    /\ \A j \in 0 .. i - 1 : SubSeq(str, j + 1, j + Len(sub)) # sub

LinesInit ==
  buffer = <<>> /\ isNull = FALSE /\ fnLines = <<>> /\ read = <<>> /\ exits = 0

\* Mutant: what was kept is not put before what comes next.
Mutant_BufferDropped(data) ==
  LET lines == Split(data)
      last == lines[Len(lines)]
      keep == IndexOf(data, last) + Len(last) < Len(data)
  IN /\ buffer' = IF keep THEN last ELSE <<>>
     /\ fnLines' = fnLines \o IF keep THEN Front(lines) ELSE lines

\* The last line is kept if its text first occurs before the end of the data, so that a
\* last line that ends is taken off, and so is one whose text was there before.
Pass(data) ==
  LET str == buffer \o data
      lines == Split(str)
      last == lines[Len(lines)]
      keep == IndexOf(str, last) + Len(last) < Len(str)
  IN /\ buffer' = IF keep THEN last ELSE <<>>
     /\ fnLines' = fnLines \o IF keep THEN Front(lines) ELSE lines

OnRead(data) ==
  /\ ~isNull
  /\ Pass(data)
  /\ read' = read \o data
  /\ UNCHANGED <<isNull, exits>>

\* null has no length: the listener throws.
OnReadThrows(data) ==
  /\ isNull
  /\ read' = read \o data
  /\ UNCHANGED <<buffer, isNull, fnLines, exits>>

OnExit ==
  /\ exits < MaxExits /\ exits' = exits + 1
  /\ ~isNull /\ buffer # <<>>
  /\ fnLines' = Append(fnLines, buffer)
  /\ buffer' = <<>> /\ isNull' = TRUE
  /\ UNCHANGED read

OnExitEmpty ==
  /\ exits < MaxExits /\ exits' = exits + 1
  /\ isNull \/ buffer = <<>>
  /\ UNCHANGED <<buffer, isNull, fnLines, read>>

LinesNext ==
  \/ \E data \in Texts(MaxText - Len(read)) : OnRead(data) \/ OnReadThrows(data)
  \/ OnExit \/ OnExitEmpty

LinesSpec == LinesInit /\ [][LinesNext]_lineVars

-----------------------------------------------------------------------------
(* Properties.                                                             *)

WithoutEnds(text) ==
  LET kept[i \in 0 .. Len(text)] ==
        IF i = 0 THEN <<>>
        ELSE IF text[i] = "end" THEN kept[i - 1] ELSE Append(kept[i - 1], text[i])
  IN kept[Len(text)]

\* However the output is cut into READs, no text of a line is lost or repeated: it was
\* passed to fn or is in the buffer, until an exit has made the buffer null.
TextIsPassed ==
  ~isNull => FlattenSeq(fnLines) \o buffer = WithoutEnds(read)

\* "a callback that is called with every line of output": as long as the process has not
\* exited, what fn was called with are the first lines of the output.
LinesAreWhole == exits = 0 => IsPrefix(fnLines, Split(read))
===============================================================================
