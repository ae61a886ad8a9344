------------------------------ MODULE FileStream ------------------------------
(***************************************************************************)
(* A FileStream of ti.Filesystem (file_stream.cpp) and the file it is      *)
(* opened on, which nobody else changes meanwhile.  What is written is a   *)
(* sequence of line ends and of pieces of text, which are all alike; what  *)
(* the stream has not flushed yet is not in the file.                      *)
(***************************************************************************)
EXTENDS Naturals, Sequences, SequencesExt

CONSTANT MaxWritten   \* pieces written, at most

ASSUME StreamAssumption == MaxWritten \in Nat

Pieces == {"text", "end"}

VARIABLES
  stream,     \* stream: "none", "in" or "out"
  atEnd,      \* eof() of a stream that reads
  position,   \* how much of the file has been read
  disk,       \* the file
  exists,     \* there is a file
  unflushed,  \* what the stream keeps in its buffer
  lines,      \* history: the lines readLine returned since open
  rest,       \* history: what read returned since open
  meant       \* history: what the file should hold

streamVars == <<stream, atEnd, position, disk, exists, unflushed, lines, rest, meant>>

StreamInit ==
  /\ stream = "none" /\ atEnd = FALSE /\ position = 0
  /\ disk = <<>> /\ exists = FALSE /\ unflushed = <<>>
  /\ lines = <<>> /\ rest = <<>> /\ meant = <<>>

-----------------------------------------------------------------------------
(* Opening and closing.                                                    *)

\* Mutant: closing does not flush.
Mutant_NoFlush == unflushed' = <<>> /\ UNCHANGED disk

\* Close writes what is in the buffer.
Flush == disk' = disk \o unflushed /\ unflushed' = <<>>

Fresh == position' = 0 /\ atEnd' = FALSE /\ lines' = <<>> /\ rest' = <<>>

Close ==
  /\ stream # "none"
  /\ stream' = "none"
  /\ Flush
  /\ UNCHANGED <<atEnd, position, exists, lines, rest, meant>>

\* Open closes the previous stream first: the file then holds all that was written.
OpenRead ==
  /\ exists
  /\ stream' = "in" /\ Fresh
  /\ Flush
  /\ UNCHANGED <<exists, meant>>

OpenAppend ==
  /\ stream' = "out" /\ Fresh
  /\ Flush /\ exists' = TRUE
  /\ UNCHANGED meant

OpenWrite ==
  /\ stream' = "out" /\ Fresh
  /\ disk' = <<>> /\ unflushed' = <<>> /\ exists' = TRUE
  /\ meant' = <<>>

\* The file cannot be opened: the previous stream is closed all the same.
OpenRefused ==
  /\ stream' = "none"
  /\ Flush
  /\ UNCHANGED <<atEnd, position, exists, lines, rest, meant>>

-----------------------------------------------------------------------------
(* Writing.  A stream that does not write throws.                          *)

Puts(pieces) ==
  /\ stream = "out" /\ Len(meant \o pieces) <= MaxWritten
  /\ unflushed' = unflushed \o pieces
  /\ meant' = meant \o pieces
  /\ UNCHANGED <<stream, atEnd, position, disk, exists, lines, rest>>

Write(piece) == Puts(<<piece>>)

\* Of an empty text writeLine writes nothing, not even the end of the line.
WriteLine == Puts(<<"text", "end">>)

\* The stream may write what it keeps, and whenever.
BufferWritten ==
  /\ unflushed # <<>>
  /\ disk' = disk \o unflushed /\ unflushed' = <<>>
  /\ UNCHANGED <<stream, atEnd, position, exists, lines, rest, meant>>

-----------------------------------------------------------------------------
(* Reading.                                                                *)

Rest == SubSeq(disk, position + 1, Len(disk))

\* read() takes all there is.
Read ==
  /\ stream = "in"
  /\ position' = Len(disk) /\ atEnd' = TRUE
  /\ rest' = rest \o Rest
  /\ UNCHANGED <<stream, disk, exists, unflushed, lines, meant>>

\* readLine() takes what is before the next end of a line, which it skips ...
ReadLine ==
  /\ stream = "in" /\ ~atEnd /\ "end" \in Range(Rest)
  /\ LET length == SelectInSeq(Rest, LAMBDA p : p = "end")
     IN lines' = Append(lines, SubSeq(Rest, 1, length - 1)) /\ position' = position + length
  /\ UNCHANGED <<stream, atEnd, disk, exists, unflushed, rest, meant>>

\* Mutant: nothing is returned at the end of the file.
Mutant_EndIsNull ==
  /\ stream = "in" /\ ~atEnd /\ "end" \notin Range(Rest)
  /\ atEnd' = TRUE /\ position' = Len(disk)
  /\ UNCHANGED <<stream, disk, exists, unflushed, lines, rest, meant>>

\* ... or the rest of the file; it returns null when there is none.
ReadLastLine ==
  /\ stream = "in" /\ ~atEnd /\ "end" \notin Range(Rest)
  /\ atEnd' = TRUE /\ position' = Len(disk)
  /\ lines' = IF Rest = <<>> THEN lines ELSE Append(lines, Rest)
  /\ UNCHANGED <<stream, disk, exists, unflushed, rest, meant>>

StreamNext ==
  \/ Close \/ OpenRead \/ OpenAppend \/ OpenWrite \/ OpenRefused
  \/ \E p \in Pieces : Write(p)
  \/ WriteLine \/ BufferWritten \/ Read \/ ReadLine \/ ReadLastLine

-----------------------------------------------------------------------------
(* Properties.                                                             *)

\* Whatever the script opened, wrote and closed before, and in which order: what it
\* wrote is in the file when the stream no longer writes, open(READ) included.
WrittenIsKept == stream # "out" => disk = meant

\* The lines readLine returned, and what read did, are what was written: no line
\* is skipped, cut or made up, and null is returned when there is no more, be the
\* last line ended or not.
LinesReadBack ==
  LET given == FlattenSeq([i \in DOMAIN lines |-> Append(lines[i], "end")]) \o rest
  IN stream = "in" =>
       /\ \A i \in DOMAIN lines : "end" \notin Range(lines[i])
       /\ \/ ~atEnd /\ given = SubSeq(meant, 1, Len(given))
          \/ atEnd /\ given = meant
          \/ atEnd /\ given = Append(meant, "end") /\ Last(meant) # "end"

===============================================================================
