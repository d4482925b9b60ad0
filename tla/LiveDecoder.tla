------------------------------- MODULE LiveDecoder -------------------------------
(***************************************************************************)
(* What the live decoders of postgres/decode and mongo/decode have in      *)
(* common: a start position, a position that counts the events received,   *)
(* and the context they were opened with.                                  *)
(***************************************************************************)
EXTENDS EventStream, Sequences, SequencesExt

VARIABLES
  reader,      \* "poll", "wire" or "watch": which decoder the DSN selects
  step,        \* where the goroutine stands in Events()
  position,    \* d.position
  start,       \* d.startPosition
  ctx          \* "live" or "cancelled"

cursorVars == <<step, position, start, ctx>>

Decoders == {"poll", "wire", "watch"}

DecoderInit ==
  /\ reader \in Decoders
  /\ position = 0
  /\ start = 0
  /\ ctx = "live"

Cancel ==
  /\ ctx = "live"
  /\ ctx' = "cancelled"
  /\ UNCHANGED <<reader, step, position, start, streamVars>>

DecoderTypeOK ==
  /\ reader \in Decoders
  /\ step \in {"check", "query", "rows", "wait", "start", "receive", "watch", "next"}
  /\ position \in Nat
  /\ start \in Nat
  /\ ctx \in {"live", "cancelled"}

================================================================================
