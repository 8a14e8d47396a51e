------------------------------- MODULE Frames -------------------------------
(***************************************************************************)
(* Commands as bytes: RESP arrays of bulk strings, one behind the other, as *)
(* a client sends them and as write_resp_array of src/aof.rs logs them.     *)
(*                                                                          *)
(* A command is a sequence of arguments, an argument a sequence of bytes.   *)
(***************************************************************************)
EXTENDS Decimal

CONSTANTS
    Commands,       \* the commands that are written
    DigitStrings,   \* decimal numerals, long enough for their sizes
    MaxSent         \* how many commands are written

ASSUME FramesAssumption ==
    /\ Commands \subseteq Seq(Seq(0..255))
    /\ DigitStrings \subseteq Seq(Digits)
    /\ MaxSent \in Nat

VARIABLES
    stream,     \* the bytes written
    sent,       \* the commands, the last of them perhaps in part
    frames      \* history: for each command its headers, the array's first; where a header
                \* begins, where its CR is, and where it or the argument behind it ends

framesVars == <<stream, sent, frames>>

FramesInit == stream = <<>> /\ sent = <<>> /\ frames = <<>>

\* All of the command k has been written, up to the position End(k).
InFull(k) == Len(frames[k]) = Len(sent[k]) + 1
End(k) == IF k = 0 THEN 0 ELSE frames[k][Len(frames[k])].last

CrLf == <<CR, LF>>

\* format!("{}", n), and what clients send.
IsDecimal(d, n) == d # <<>> /\ (d[1] = 48 => Len(d) = 1) /\ Meaning(d, 0, 0) = n

Header(mark, d) == <<mark>> \o d \o CrLf

\* The header of d, written behind the bytes there are, and size bytes behind it.
Frame(d, size) ==
    [at |-> Len(stream) + 1, cr |-> Len(stream) + Len(d) + 2, last |-> Len(stream) + Len(d) + 3 + size]

\* write_resp_array: the header of the array, then the arguments.
WriteArray(c, d) ==
    /\ Len(sent) < MaxSent /\ (sent # <<>> => InFull(Len(sent)))
    /\ IsDecimal(d, Len(c))
    /\ stream' = stream \o Header(STAR, d)
    /\ sent' = Append(sent, c) /\ frames' = Append(frames, <<Frame(d, 0)>>)

WriteBulk(d) ==
    /\ sent # <<>> /\ ~InFull(Len(sent))
    /\ LET k == Len(sent)
           a == sent[k][Len(frames[k])]
       IN /\ IsDecimal(d, Len(a))
          /\ stream' = stream \o Header(DOLLAR, d) \o a \o CrLf
          /\ frames' = [frames EXCEPT ![k] = Append(@, Frame(d, Len(a) + 2))]
    /\ UNCHANGED sent

WriteFrame == \E d \in DigitStrings : WriteBulk(d) \/ \E c \in Commands : WriteArray(c, d)
=============================================================================
