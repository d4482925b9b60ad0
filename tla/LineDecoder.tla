------------------------------ MODULE LineDecoder ------------------------------
(***************************************************************************)
(* Decoder.Events() of postgres/decode/decoder and of mongo/decode/decoder *)
(* (the two are the same loop): one line of the file per turn, numbered    *)
(* from 1 by the local variable position.                                  *)
(***************************************************************************)
EXTENDS OfflineLog

(* The scanner delivers another line, and it is counted before anything    *)
(* else is looked at.                                                      *)
ScanLine ==
  /\ phase = "decoding"
  /\ format = "lines"
  /\ place = "between"
  /\ read < Len(log)
  /\ log[read + 1] # "long"
  /\ read' = read + 1
  /\ position' = position + 1
  /\ UNCHANGED <<fileVars, start, place>>

(* Plausible mistakes in Skipped: the line of the checkpoint taken as new, *)
(* and one line too many taken as old.                                     *)
SkippedTooFew  == position + 1 < start
SkippedTooMany == position + 1 <= start + (IF start > 0 THEN 1 ELSE 0)

(* position <= d.startPosition, for the line about to be counted.          *)
Skipped == position + 1 <= start

(* A plausible mistake in SkipLine: a blank line ends the stream.          *)
SkipLineEnds ==
  /\ ScanLine
  /\ IF log[read + 1] = "blank" THEN Return ELSE Skipped /\ UNCHANGED streamVars

(* A line at or before the start position, or a blank one.                 *)
SkipLine ==
  /\ ScanLine
  /\ Skipped \/ log[read + 1] = "blank"
  /\ UNCHANGED streamVars

DecodeLine ==
  /\ ScanLine
  /\ ~Skipped
  /\ log[read + 1] \in EventKinds
  /\ Yield(log[read + 1], position + 1, read + 1)

(* parseLine fails: the error is yielded and Events() returns.             *)
FailLine ==
  /\ ScanLine
  /\ ~Skipped
  /\ log[read + 1] = "bad"
  /\ YieldError

(* Scan() returns false without an error at the end of the file and with   *)
(* one before a line that does not fit its buffer; the latter is yielded.  *)
EndOfLines ==
  /\ phase = "decoding"
  /\ format = "lines"
  /\ place = "between"
  /\ \/ read = Len(log) /\ Return /\ place' = "ended"
     \/ read < Len(log) /\ log[read + 1] = "long" /\ YieldError /\ UNCHANGED place
  /\ UNCHANGED <<fileVars, read, position, start>>

(* Once at the end the scanner keeps its io.EOF: a further loop over the   *)
(* decoder ends at once, however the file has grown.                       *)
StayEnded ==
  /\ phase = "decoding"
  /\ format = "lines"
  /\ place = "ended"
  /\ Return
  /\ UNCHANGED <<fileVars, cursorVars>>

LineStep == SkipLine \/ DecodeLine \/ FailLine \/ EndOfLines \/ StayEnded

================================================================================
