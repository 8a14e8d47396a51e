-------------------------------- MODULE Resp --------------------------------
(***************************************************************************)
(* RespParser of src/protocol.rs, one byte or argument a step, on the bytes *)
(* of a connection, which arrive in pieces of any size: parse_command,      *)
(* called again and again, and try_parse, which begins anew at the start of *)
(* the buffer whenever bytes were missing.                                  *)
(*                                                                          *)
(* Positions are those of the stream.  The buffer holds its bytes from      *)
(* base + 1 to arrived.                                                     *)
(***************************************************************************)
EXTENDS Frames

CONSTANTS
    MaxArray,    \* MAX_ARRAY_LEN
    MaxString,   \* MAX_STRING_LEN
    MaxBuffer,   \* MAX_BUFFER_SIZE
    MinBuffer    \* the least number of bytes try_parse looks at: 4

\* The least command is *0 CR LF.
ASSUME RespAssumption ==
    /\ MaxArray \in Nat /\ MaxString \in Nat /\ MaxBuffer \in Nat /\ MinBuffer \in 1..4
    /\ \A c \in Commands : Len(c) <= MaxArray /\ \A i \in 1..Len(c) : Len(c[i]) <= MaxString

VARIABLES
    arrived, base,  \* bytes received, bytes consumed
    delivered,       \* the commands parse_command returned
    state,          \* of try_parse: "try"; "array", "bulk": in the digits of a header;
                    \* "args"; "payload"; "wait": for bytes; "refused"
    offset, num,    \* the position, and the number read so far
    left, result    \* how many arguments are missing, and those there are

parserVars == <<arrived, base, delivered, state, offset, num, left, result>>
respVars == <<framesVars, parserVars>>

ParserInit ==
    /\ arrived = 0 /\ base = 0 /\ delivered = <<>> /\ state = "try"
    /\ offset = 1 /\ num = 0 /\ left = 0 /\ result = <<>>

RespInit == FramesInit /\ ParserInit

Buffered == arrived - base

\* try_parse goes to p without having moved; "wait" is Ok(None), "refused" is Err.
Leave(p) == state' = p /\ UNCHANGED <<arrived, base, delivered, offset, num, left, result>>

TryParse ==
    /\ state = "try"
    /\ IF Buffered < MinBuffer THEN Leave("wait")
       ELSE IF stream[base + 1] # STAR THEN Leave("refused")
       ELSE /\ state' = "array" /\ offset' = base + 2 /\ num' = 0
            /\ UNCHANGED <<arrived, base, delivered, left, result>>

\* A round of the loop over the digits of a header, in state p; the number is refused above max.
NumberByte(p, max) ==
    /\ state = p /\ ~(offset <= arrived /\ stream[offset] = CR)
    /\ IF offset > arrived THEN Leave("wait")
       ELSE IF stream[offset] \notin Digits \/ num * 10 + Digit(stream[offset]) > max THEN Leave("refused")
       ELSE /\ num' = num * 10 + Digit(stream[offset]) /\ offset' = offset + 1
            /\ UNCHANGED <<arrived, base, delivered, state, left, result>>

\* The CR of a header.
Ends(p) == state = p /\ offset <= arrived /\ stream[offset] = CR
LineFeed == offset + 1 <= arrived /\ stream[offset + 1] = LF

ArrayHeader ==
    /\ Ends("array")
    /\ IF ~LineFeed THEN Leave("wait")
       ELSE /\ state' = "args" /\ offset' = offset + 2 /\ left' = num /\ result' = <<>>
            /\ UNCHANGED <<arrived, base, delivered, num>>

BulkHeader ==
    /\ Ends("bulk")
    /\ IF ~LineFeed THEN Leave("wait")
       ELSE /\ state' = "payload" /\ offset' = offset + 2
            /\ UNCHANGED <<arrived, base, delivered, num, left, result>>

Argument ==
    /\ state = "args" /\ left > 0
    /\ IF offset > arrived \/ stream[offset] # DOLLAR THEN Leave("wait")
       ELSE /\ state' = "bulk" /\ offset' = offset + 1 /\ num' = 0
            /\ UNCHANGED <<arrived, base, delivered, left, result>>

\* Mutant of Complete: the CRLF behind the argument is not waited for.
CompleteBare == offset + num - 1 <= arrived

\* The bytes of the argument, and its CRLF, have arrived.
Complete == offset + num + 1 <= arrived

Payload ==
    /\ state = "payload"
    /\ IF ~Complete THEN Leave("wait")
       ELSE /\ state' = "args" /\ offset' = offset + num + 2 /\ left' = left - 1
            /\ result' = Append(result, SubSeq(stream, offset, offset + num - 1))
            /\ UNCHANGED <<arrived, base, delivered, num>>

\* The command is returned, its bytes leave the buffer, and parse_command is called again.
Deliver ==
    /\ state = "args" /\ left = 0
    /\ delivered' = Append(delivered, result) /\ base' = offset - 1 /\ state' = "try"
    /\ UNCHANGED <<arrived, offset, num, left, result>>

\* read_buf, of any number of bytes.  (The end of the stream is in Server.)
Receive ==
    /\ state = "wait" /\ Buffered <= MaxBuffer
    /\ arrived' \in arrived + 1..Len(stream) /\ state' = "try"
    /\ UNCHANGED <<base, delivered, offset, num, left, result>>

Overflow == state = "wait" /\ Buffered > MaxBuffer /\ Leave("refused")

ParserNext ==
    \/ TryParse \/ NumberByte("array", MaxArray) \/ NumberByte("bulk", MaxString) \/ ArrayHeader \/ BulkHeader
    \/ Argument \/ Payload \/ Deliver \/ Receive \/ Overflow

RespNext == (WriteFrame /\ UNCHANGED parserVars) \/ (ParserNext /\ UNCHANGED framesVars)

RespSpec == RespInit /\ [][RespNext]_respVars

----------------------------------------------------------------------------

\* However a pipeline of commands is cut into reads, the parser returns the commands in the
\* order in which they were sent, none changed, and consumes their bytes and no others; when
\* it waits, the next command has not arrived in full; and it never refuses the stream, unless
\* MaxBuffer bytes do not hold the next command.  So a payload that contains CR, LF, $ or
\* digits is not mistaken for a header.
FragmentSafe ==
    LET n == Len(delivered)
    IN /\ n <= Len(sent) /\ (\A k \in 1..n : InFull(k) /\ delivered[k] = sent[k])
       /\ base = End(n) /\ base <= arrived
       /\ state = "wait" /\ n < Len(sent) /\ InFull(n + 1) => End(n + 1) > arrived
       /\ state = "refused" => Buffered > MaxBuffer
=============================================================================
