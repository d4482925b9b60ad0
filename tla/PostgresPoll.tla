------------------------------- MODULE PostgresPoll -------------------------------
(***************************************************************************)
(* LiveDecoder of postgres/decode/decoder/live.go: it polls the slot with  *)
(* pg_logical_slot_get_changes, which consumes what it returns, and hands  *)
(* the rows of each answer over one by one.                                *)
(***************************************************************************)
EXTENDS PostgresSlot

VARIABLES
  rows,   \* the numbers of the lines of the answer not yet scanned
  saw     \* an event of this answer was handed over

pollVars == <<rows, saw>>

PollInit == rows = <<>> /\ saw = FALSE

LinesUpTo(n) == [i \in 1..(n - confirmed) |-> confirmed + i]

(* The condition of the for statement.                                     *)
PollCheck ==
  /\ phase = "decoding"
  /\ step = "check"
  /\ \/ ctx = "live" /\ step' = "query" /\ UNCHANGED streamVars
     \/ ctx = "cancelled" /\ Return /\ UNCHANGED step
  /\ UNCHANGED <<slotVars, pollVars, position, start, ctx>>

(* A plausible mistake in Query: pg_logical_slot_peek_changes.             *)
QueryPeeks ==
  /\ phase = "decoding"
  /\ step = "query"
  /\ ctx = "live"
  /\ rows' = LinesUpTo(Len(wal))
  /\ saw' = FALSE
  /\ step' = "rows"
  /\ UNCHANGED <<reader, wal, confirmed, position, start, ctx, streamVars>>

Query ==
  /\ phase = "decoding"
  /\ step = "query"
  /\ ctx = "live"
  /\ rows' = LinesUpTo(Len(wal))
  /\ confirmed' = Len(wal)
  /\ saw' = FALSE
  /\ step' = "rows"
  /\ UNCHANGED <<reader, wal, position, start, ctx, streamVars>>

(* The query itself fails; the error is not handed over once the context   *)
(* is cancelled.                                                           *)
QueryFails ==
  /\ phase = "decoding"
  /\ step = "query"
  /\ IF ctx = "live" THEN YieldError ELSE Return
  /\ UNCHANGED <<slotVars, pollVars, cursorVars>>

(* rows.Next() and rows.Scan(): the row is counted, blank or not.          *)
ScanRow ==
  /\ phase = "decoding"
  /\ step = "rows"
  /\ rows # <<>>
  /\ position' = position + 1
  /\ UNCHANGED <<slotVars, step, start, ctx>>

SkipRow ==
  /\ ScanRow
  /\ position + 1 <= start \/ wal[Head(rows)] = "blank"
  /\ rows' = Tail(rows)
  /\ UNCHANGED <<saw, streamVars>>

DeliverRow ==
  /\ ScanRow
  /\ position + 1 > start
  /\ wal[Head(rows)] \notin {"blank", "bad"}
  /\ rows' = Tail(rows)
  /\ saw' = TRUE
  /\ Yield(EventOf(wal[Head(rows)]), position + 1, Head(rows))

(* parseLine fails: rows.Close() discards the rest of the answer.          *)
FailRow ==
  /\ ScanRow
  /\ position + 1 > start
  /\ wal[Head(rows)] = "bad"
  /\ rows' = <<>>
  /\ YieldError
  /\ UNCHANGED saw

(* rows.Err(): the connection failed or the context was cancelled in the   *)
(* middle of an answer.                                                    *)
RowsFail ==
  /\ phase = "decoding"
  /\ step = "rows"
  /\ rows' = <<>>
  /\ IF ctx = "live" THEN YieldError ELSE Return
  /\ UNCHANGED <<slotVars, saw, cursorVars>>

(* After an answer without an event the decoder waits before it asks again. *)
EndOfRows ==
  /\ phase = "decoding"
  /\ step = "rows"
  /\ rows = <<>>
  /\ step' = IF saw THEN "check" ELSE "wait"
  /\ UNCHANGED <<slotVars, pollVars, position, start, ctx, streamVars>>

(* waitForNextPoll: the timer or the context, whichever is seen.           *)
WaitForNextPoll ==
  /\ phase = "decoding"
  /\ step = "wait"
  /\ \/ step' = "check" /\ UNCHANGED streamVars
     \/ ctx = "cancelled" /\ Return /\ UNCHANGED step
  /\ UNCHANGED <<slotVars, pollVars, position, start, ctx>>

PollStep ==
  \/ PollCheck \/ Query \/ QueryFails \/ SkipRow \/ DeliverRow \/ FailRow
  \/ RowsFail \/ EndOfRows \/ WaitForNextPoll

================================================================================
