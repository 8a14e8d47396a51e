----------------------------- MODULE Algorithms -----------------------------
(***************************************************************************)
(* The sequential algorithms of the server, each a machine of its own that  *)
(* takes one round of its loop a step: glob matching, SCAN, the RESP        *)
(* parser, the reader of the log, integer parsing, and recovery from        *)
(* snapshot and log.  A behaviour runs one of them, on one input.           *)
(***************************************************************************)
EXTENDS Glob, Scan, Resp, LogFile, Numeral, Recovery

VARIABLE machine   \* the machine that runs

vars == <<machine, globVars, scanVars, framesVars, parserVars, readerVars, numeralVars, historyVars>>

\* The machines that do not run stay at the start of an empty input.
Init ==
    /\ machine \in {"glob", "scan", "stream", "log", "numeral", "history"}
    /\ IF machine = "glob" THEN GlobInit ELSE GlobStart(<<>>, <<>>)
    /\ IF machine = "scan" THEN ScanInit ELSE ScanStart(<<>>, 0)
    /\ IF machine = "numeral" THEN NumeralInit ELSE GivenBytes(<<>>)
    /\ FramesInit /\ ParserInit /\ ReaderInit /\ HistoryStart

RunGlob ==
    /\ machine = "glob" /\ GlobNext
    /\ UNCHANGED <<machine, scanVars, framesVars, parserVars, readerVars, numeralVars, historyVars>>
RunScan ==
    /\ machine = "scan" /\ ScanNext
    /\ UNCHANGED <<machine, globVars, framesVars, parserVars, readerVars, numeralVars, historyVars>>
RunParser ==
    /\ machine = "stream" /\ RespNext
    /\ UNCHANGED <<machine, globVars, scanVars, readerVars, numeralVars, historyVars>>
RunReader ==
    /\ machine = "log" /\ LogNext
    /\ UNCHANGED <<machine, globVars, scanVars, parserVars, numeralVars, historyVars>>
RunNumeral ==
    /\ machine = "numeral" /\ NumeralNext
    /\ UNCHANGED <<machine, globVars, scanVars, framesVars, parserVars, readerVars, historyVars>>
RunHistory ==
    /\ machine = "history" /\ HistoryNext
    /\ UNCHANGED <<machine, globVars, scanVars, framesVars, parserVars, readerVars, numeralVars>>

Next == RunGlob \/ RunScan \/ RunParser \/ RunReader \/ RunNumeral \/ RunHistory

Spec == Init /\ [][Next]_vars
=============================================================================
