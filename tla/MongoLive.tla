-------------------------------- MODULE MongoLive --------------------------------
(***************************************************************************)
(* LiveDecoder of mongo/decode/decoder/live.go.  Every call of Events()    *)
(* opens a change stream of its own, without a resume token: it begins     *)
(* behind whatever the collection has been through by then.  The position  *)
(* belongs to the decoder and goes on counting.                            *)
(***************************************************************************)
EXTENDS LiveDecoder

CONSTANT MaxOplog   \* bound on the changes of the collection

VARIABLES
  oplog,    \* the changes of the collection
  opened,   \* how many of them came before the stream
  cursor    \* the last change the stream returned

mongoVars == <<oplog, opened, cursor>>

(* A "step" is a change whose Reverse() returns a command, an "info" one   *)
(* without.  A "bad" change is refused by Decode or parseRaw.  Dropping    *)
(* the collection invalidates its streams.                                 *)
Entries == {"step", "info", "bad", "invalidate"}

MongoInit ==
  /\ oplog = <<>>
  /\ opened = 0
  /\ cursor = 0

Write(entry) ==
  /\ Len(oplog) < MaxOplog
  /\ oplog' = Append(oplog, entry)
  /\ UNCHANGED <<reader, opened, cursor, cursorVars, streamVars>>

(* The first condition of Events(): d.ctx.Err() != nil.                    *)
CheckContext ==
  /\ phase = "decoding"
  /\ step = "check"
  /\ \/ ctx = "live" /\ step' = "watch" /\ UNCHANGED streamVars
     \/ ctx = "cancelled" /\ Return /\ UNCHANGED step
  /\ UNCHANGED <<reader, mongoVars, position, start, ctx>>

(* A plausible mistake in Watch: the stream starts at the oldest operation *)
(* the server still has.                                                   *)
WatchFromOldest ==
  /\ phase = "decoding"
  /\ step = "watch"
  /\ ctx = "live"
  /\ opened' = 0
  /\ cursor' = 0
  /\ step' = "next"
  /\ UNCHANGED <<reader, oplog, position, start, ctx, streamVars>>

Watch ==
  /\ phase = "decoding"
  /\ step = "watch"
  /\ ctx = "live"
  /\ opened' = Len(oplog)
  /\ cursor' = Len(oplog)
  /\ step' = "next"
  /\ UNCHANGED <<reader, oplog, position, start, ctx, streamVars>>

(* Watch fails, or cursor.Next returns false with cursor.Err() set; the    *)
(* error is not handed over once the context is cancelled.                 *)
StreamFails ==
  /\ phase = "decoding"
  /\ step \in {"watch", "next"}
  /\ IF ctx = "live" THEN YieldError ELSE Return
  /\ UNCHANGED <<reader, mongoVars, cursorVars>>

Invalidated == cursor > opened /\ oplog[cursor] = "invalidate"

(* cursor.Next behind an invalidate returns false without an error.        *)
StreamEnds ==
  /\ phase = "decoding"
  /\ step = "next"
  /\ Invalidated
  /\ Return
  /\ UNCHANGED <<reader, mongoVars, cursorVars>>

(* cursor.Next returns true; after a cancellation only for a change of the *)
(* batch the driver holds.                                                 *)
NextChange ==
  /\ phase = "decoding"
  /\ step = "next"
  /\ cursor < Len(oplog)
  /\ ~Invalidated
  /\ cursor' = cursor + 1
  /\ UNCHANGED <<reader, oplog, opened, step, start, ctx>>

DecodeFails ==
  /\ NextChange
  /\ oplog[cursor'] = "bad"
  /\ YieldError
  /\ UNCHANGED position

CountChange == NextChange /\ position' = position + 1

(* A plausible mistake in SkipChange: the change behind the start position *)
(* is skipped as well.                                                     *)
SkipChangeNext == CountChange /\ position <= start /\ UNCHANGED streamVars

SkipChange == CountChange /\ position + 1 <= start /\ UNCHANGED streamVars

DeliverChange ==
  /\ CountChange
  /\ position + 1 > start
  /\ oplog[cursor'] # "bad"
  /\ Yield(IF oplog[cursor'] = "step" THEN "step" ELSE "info", position + 1, cursor')

FailChange ==
  /\ CountChange
  /\ position + 1 > start
  /\ oplog[cursor'] = "bad"
  /\ YieldError

MongoStep ==
  \/ CheckContext \/ Watch \/ StreamFails \/ StreamEnds
  \/ DecodeFails \/ SkipChange \/ DeliverChange \/ FailChange

MongoTypeOK ==
  /\ oplog \in Seq(Entries)
  /\ cursor \in 0..Len(oplog)
  /\ opened \in 0..cursor

================================================================================
