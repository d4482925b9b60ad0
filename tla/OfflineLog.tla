------------------------------- MODULE OfflineLog -------------------------------
(***************************************************************************)
(* A log file, the writer that appends to it, and the state of an offline  *)
(* decoder that reads it once from its beginning.  LineDecoder and         *)
(* RespDecoder are the two forms Events() has over such a file.            *)
(***************************************************************************)
EXTENDS EventStream, Sequences

CONSTANT MaxLog   \* bound on the records written to the file

VARIABLES
  format,     \* "lines" (PostgreSQL, MongoDB) or "resp" (Redis)
  log,        \* the complete records of the file
  torn,       \* how much of one more record is written behind them
  read,       \* records consumed from the reader: d.scanner, d.reader
  position,   \* the local variable position of Events()
  start,      \* d.startPosition
  place       \* where the reader stands (below)

fileVars   == <<format, log, torn>>
cursorVars == <<read, position, start, place>>

(* "between"  between two records, at the next one                         *)
(* "ended"    the bufio.Scanner came to the end: it never reads more       *)
(* "inside"   inside a torn frame whose beginning was consumed             *)
Places == {"between", "ended", "inside"}

(* "step"     an event with a compensating operation (EventStream)         *)
(* "info"     an event without one, like BEGIN or SET                      *)
(* "blank"    a blank line                                                 *)
(* "bad"      a record that does not parse                                 *)
(* "refused"  a record that parses and that a plugin rejects               *)
(* "long"     a line beyond the scanner's buffer                           *)
LineKinds == {"step", "info", "blank", "bad", "long"}
RespKinds == {"step", "info", "bad", "refused"}
Kinds     == LineKinds \cup RespKinds

KindsOf(f) == IF f = "lines" THEN LineKinds ELSE RespKinds

(* Records the decoder never gets past.                                    *)
Faulty == {"bad", "refused", "long"}

LogInit ==
  /\ format \in {"lines", "resp"}
  /\ log = <<>>
  /\ torn = "no"
  /\ read = 0
  /\ position = 0
  /\ start = 0
  /\ place = "between"

(* The server completes a record at the end of the file.                   *)
AppendRecord(k) ==
  /\ Len(log) < MaxLog
  /\ k \in KindsOf(format)
  /\ log' = Append(log, k)
  /\ torn' = "no"
  /\ UNCHANGED <<format, cursorVars, streamVars>>

(* A Redis server stopped in the middle of a command: up to a line of the  *)
(* frame, or inside a bulk payload.  Line logs are written line by line.   *)
TearRecord(how) ==
  /\ format = "resp"
  /\ torn = "no"
  /\ Len(log) < MaxLog
  /\ torn' = how
  /\ UNCHANGED <<format, log, cursorVars, streamVars>>

(* Plausible mistakes in NewDecoder: the checkpoint taken for the first    *)
(* record to deliver, and the checkpoint dropped.                          *)
NewDecoderAt(checkpoint) ==
  /\ phase = "closed"
  /\ phase' = "open"
  /\ start' = checkpoint - 1
  /\ read' = 0
  /\ UNCHANGED <<fileVars, position, place, out>>

NewDecoderFromScratch(checkpoint) ==
  /\ phase = "closed"
  /\ phase' = "open"
  /\ start' = 0
  /\ read' = 0
  /\ UNCHANGED <<fileVars, position, place, out>>

(* NewDecoder over the file, with the start position of the checkpoint.    *)
NewDecoder(checkpoint) ==
  /\ phase = "closed"
  /\ phase' = "open"
  /\ start' = checkpoint
  /\ read' = 0
  /\ UNCHANGED <<fileVars, position, place, out>>

LogTypeOK ==
  /\ format \in {"lines", "resp"}
  /\ log \in Seq(Kinds)
  /\ torn \in {"no", "header", "payload"}
  /\ read \in Nat
  /\ position \in Nat
  /\ start \in Nat
  /\ place \in Places

================================================================================
