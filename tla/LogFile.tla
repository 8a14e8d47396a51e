------------------------------ MODULE LogFile -------------------------------
(***************************************************************************)
(* CommandReader of src/aof.rs, which reads the append-only file at the     *)
(* start of the server.  A crash has cut the file at any byte.              *)
(*                                                                          *)
(* Positions are those of the file as it was written.                       *)
(***************************************************************************)
EXTENDS Frames

VARIABLES
    mode,           \* "writing"; "next", "parts": in next_command; "clean", "error"
    cut,            \* the length of the file
    spot,           \* the next byte to be read
    missing, parts, \* how many arguments of the command are missing, and those there are
    read            \* the commands read

readerVars == <<mode, cut, spot, missing, parts, read>>
logVars == <<framesVars, readerVars>>

ReaderInit == mode = "writing" /\ cut = 0 /\ spot = 1 /\ missing = 0 /\ parts = <<>> /\ read = <<>>

LogInit == FramesInit /\ ReaderInit

Crash ==
    /\ mode = "writing"
    /\ mode' = "next" /\ cut' \in 0..Len(stream)
    /\ UNCHANGED <<spot, missing, parts, read>>

\* read_until(LF): the last position of the line.
LineEnd == LET S == {i \in spot..cut : stream[i] = LF}
           IN IF S = {} THEN cut ELSE CHOOSE i \in S : \A j \in S : i <= j

\* The line is a header with this mark: it ends with CRLF, and parse_num accepts what is
\* between.  (It would take a leading + too; nothing writes one.)
IsHeader(mark) ==
    /\ LineEnd > spot + 2
    /\ stream[LineEnd - 1] = CR /\ stream[LineEnd] = LF /\ stream[spot] = mark
    /\ \A i \in spot + 1..LineEnd - 2 : stream[i] \in Digits
Size == Prefixes(stream, spot, 0)[LineEnd - 2]

Fail == mode' = "error" /\ UNCHANGED <<cut, spot, missing, parts, read>>

NextCommand ==
    /\ mode = "next" /\ spot <= cut
    /\ IF ~IsHeader(STAR) THEN Fail
       ELSE /\ mode' = "parts" /\ missing' = Size /\ parts' = <<>> /\ spot' = LineEnd + 1
            /\ UNCHANGED <<cut, read>>

EndOfFile == mode = "next" /\ spot > cut /\ mode' = "clean" /\ UNCHANGED <<cut, spot, missing, parts, read>>

\* Mutant of Closed: the two bytes behind an argument are skipped unread.
ClosedAny(i) == i - 1 <= cut

\* read_exact: the argument that ends before i is there, and so is the CRLF at i.
Closed(i) == i + 1 <= cut /\ stream[i] = CR /\ stream[i + 1] = LF

NextPart ==
    /\ mode = "parts" /\ missing > 0
    /\ IF ~IsHeader(DOLLAR) THEN Fail
       ELSE IF ~Closed(LineEnd + 1 + Size) THEN Fail
       ELSE /\ parts' = Append(parts, SubSeq(stream, LineEnd + 1, LineEnd + Size))
            /\ spot' = LineEnd + Size + 3 /\ missing' = missing - 1
            /\ UNCHANGED <<mode, cut, read>>

CommandRead ==
    /\ mode = "parts" /\ missing = 0
    /\ mode' = "next" /\ read' = Append(read, parts)
    /\ UNCHANGED <<cut, spot, missing, parts>>

ReaderNext == Crash \/ NextCommand \/ EndOfFile \/ NextPart \/ CommandRead

LogNext == (mode = "writing" /\ WriteFrame /\ UNCHANGED readerVars) \/ (ReaderNext /\ UNCHANGED framesVars)

LogSpec == LogInit /\ [][LogNext]_logVars

----------------------------------------------------------------------------

\* A log cut off at any byte, as a crash between two writes leaves it, is read back to the
\* last command that is there in full, none changed, and the reader reports a clean end if
\* and only if the cut is between two commands.
TornLogDetected ==
    LET n == Len(read)
    IN /\ n <= Len(sent) /\ \A k \in 1..n : InFull(k) /\ read[k] = sent[k]
       /\ mode = "clean" => cut = End(n)
       /\ mode = "error" => /\ n < Len(sent) /\ End(n) < cut
                            /\ InFull(n + 1) => cut < End(n + 1)
=============================================================================
