------------------------------ MODULE RespDecoder ------------------------------
(***************************************************************************)
(* Decoder.Events() of redis/decode/decoder over an AOF file: one RESP     *)
(* frame per turn.  A frame is parsed before its position is known, so a   *)
(* malformed frame fails even before the start position, and what a        *)
(* truncated frame does depends on where the file ends.                    *)
(***************************************************************************)
EXTENDS OfflineLog

(* parseCommand returns a command, and it is counted.                      *)
ParseCommand ==
  /\ phase = "decoding"
  /\ format = "resp"
  /\ place = "between"
  /\ read < Len(log)
  /\ log[read + 1] # "bad"
  /\ read' = read + 1
  /\ position' = position + 1
  /\ UNCHANGED <<fileVars, start, place>>

SkipCommand ==
  /\ ParseCommand
  /\ position + 1 <= start
  /\ UNCHANGED streamVars

DecodeCommand ==
  /\ ParseCommand
  /\ position + 1 > start
  /\ log[read + 1] \in EventKinds
  /\ Yield(log[read + 1], position + 1, read + 1)

(* A command plugin fails.                                                 *)
RefuseCommand ==
  /\ ParseCommand
  /\ position + 1 > start
  /\ log[read + 1] = "refused"
  /\ YieldError

(* ErrInvalidRESP, before the position is counted.                         *)
FailFrame ==
  /\ phase = "decoding"
  /\ format = "resp"
  /\ place = "between"
  /\ read < Len(log)
  /\ log[read + 1] = "bad"
  /\ YieldError
  /\ UNCHANGED <<fileVars, cursorVars>>

(* A plausible mistake in EndOfFrames: a torn payload taken for a command. *)
EndOfFramesLenient ==
  /\ phase = "decoding"
  /\ format = "resp"
  /\ place = "between"
  /\ read = Len(log)
  /\ position' = position + 1
  /\ \/ torn \in {"no", "header"} /\ Return
     \/ torn = "payload" /\ Yield("step", position + 1, read + 1)
  /\ place' = IF torn = "no" THEN "between" ELSE "inside"
  /\ UNCHANGED <<fileVars, read, start>>

(* readLine returns io.EOF, which ends Events() silently, at the end of    *)
(* the file and inside a line of a torn frame; inside a bulk payload the   *)
(* error is ErrInvalidRESP and is yielded.  What there is of a torn frame  *)
(* is consumed.                                                            *)
EndOfFrames ==
  /\ phase = "decoding"
  /\ format = "resp"
  /\ place = "between"
  /\ read = Len(log)
  /\ \/ torn \in {"no", "header"} /\ Return
     \/ torn = "payload" /\ YieldError
  /\ place' = IF torn = "no" THEN "between" ELSE "inside"
  /\ UNCHANGED <<fileVars, read, position, start>>

(* A further loop that begins inside a frame finds a line that is no array *)
(* header and yields ErrInvalidRESP, or the end of the file again.         *)
ResumeInside ==
  /\ phase = "decoding"
  /\ format = "resp"
  /\ place = "inside"
  /\ YieldError \/ (read = Len(log) /\ Return)
  /\ UNCHANGED <<fileVars, cursorVars>>

RespStep ==
  \/ SkipCommand \/ DecodeCommand \/ RefuseCommand \/ FailFrame \/ EndOfFrames
  \/ ResumeInside

================================================================================
