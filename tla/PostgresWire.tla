------------------------------- MODULE PostgresWire -------------------------------
(***************************************************************************)
(* WireLiveDecoder of postgres/decode/decoder/wire.go: it starts logical   *)
(* replication once per connection and acknowledges each message of the    *)
(* server before it hands the line in it over.                             *)
(***************************************************************************)
EXTENDS PostgresSlot

VARIABLES
  started,   \* d.started
  sent,      \* the last line the server sent on this connection
  wire       \* the messages the decoder has yet to receive

wireVars == <<started, sent, wire>>

(* XLogData carries a line and its LSN; a keepalive carries the LSN up to  *)
(* which everything was sent.                                              *)
Message(kind, rec) == [kind |-> kind, rec |-> rec]
Messages == [kind : {"data", "keepalive", "error"}, rec : Nat]

WireInit ==
  /\ started = FALSE
  /\ sent = 0
  /\ wire = <<>>

(* The server: it sends the lines in order, keepalives in between, and may *)
(* end the stream with an ErrorResponse.                                   *)
SendLine ==
  /\ started
  /\ Len(wire) < MaxFlight
  /\ sent < Len(wal)
  /\ sent' = sent + 1
  /\ wire' = Append(wire, Message("data", sent + 1))
  /\ UNCHANGED <<slotVars, started, cursorVars, streamVars>>

SendKeepalive ==
  /\ started
  /\ Len(wire) < MaxFlight
  /\ wire # <<>> => Last(wire).kind = "data"
  /\ wire' = Append(wire, Message("keepalive", sent))
  /\ UNCHANGED <<slotVars, started, sent, cursorVars, streamVars>>

SendError ==
  /\ started
  /\ Len(wire) < MaxFlight
  /\ wire # <<>> => Last(wire).kind = "data"
  /\ wire' = Append(wire, Message("error", 0))
  /\ UNCHANGED <<slotVars, started, sent, cursorVars, streamVars>>

Server == SendLine \/ SendKeepalive \/ SendError

(* startReplication, at 0/0: from where the slot stands.                   *)
StartReplication ==
  /\ phase = "decoding"
  /\ step = "start"
  /\ ctx = "live"
  /\ started' = TRUE
  /\ sent' = ResumePoint
  /\ step' = "check"
  /\ UNCHANGED <<slotVars, wire, position, start, ctx, streamVars>>

(* A plausible mistake in WireFails: the calls are not bound to the        *)
(* context, so that cancelling it does not make them fail.                 *)
WireFailsUnbound ==
  /\ phase = "decoding"
  /\ step \in {"start", "receive"}
  /\ ctx = "live"
  /\ YieldError
  /\ UNCHANGED <<slotVars, wireVars, cursorVars>>

(* An error of the handshake, or of ReceiveMessage or Flush later on, is   *)
(* not handed over once the context is cancelled.                          *)
WireFails ==
  /\ phase = "decoding"
  /\ step \in {"start", "receive"}
  /\ IF ctx = "live" THEN YieldError ELSE Return
  /\ UNCHANGED <<slotVars, wireVars, cursorVars>>

WireCheck ==
  /\ phase = "decoding"
  /\ step = "check"
  /\ \/ ctx = "live" /\ step' = "receive" /\ UNCHANGED streamVars
     \/ ctx = "cancelled" /\ Return /\ UNCHANGED step
  /\ UNCHANGED <<slotVars, wireVars, position, start, ctx>>

Receive(kind) ==
  /\ phase = "decoding"
  /\ step = "receive"
  /\ wire # <<>>
  /\ Head(wire).kind = kind
  /\ wire' = Tail(wire)
  /\ step' = "check"
  /\ UNCHANGED <<reader, wal, started, sent, start, ctx>>

(* Plausible mistakes in Acknowledge: all that the server has decoded is   *)
(* acknowledged, and the line after the one received.                      *)
AcknowledgeAll(lsn)  == confirmed' \in {confirmed, Len(wal)}
AcknowledgeNext(lsn) == confirmed' \in {confirmed, Max({confirmed, lsn + 1})}

(* sendStandbyStatus: the LSN counts as written, flushed and applied.  It  *)
(* reaches the server unless the connection ends first.                    *)
Acknowledge(lsn) == confirmed' \in {confirmed, Max({confirmed, lsn})}

(* The status cannot be written: the error is handed over in any case.     *)
AcknowledgeFails ==
  /\ \E kind \in {"data", "keepalive"} : Receive(kind)
  /\ YieldError
  /\ UNCHANGED <<confirmed, position>>

ReceiveKeepalive ==
  /\ Receive("keepalive")
  /\ Acknowledge(Head(wire).rec)
  /\ UNCHANGED <<position, streamVars>>

ReceiveError ==
  /\ Receive("error")
  /\ YieldError
  /\ UNCHANGED <<confirmed, position>>

ReceiveLine ==
  /\ Receive("data")
  /\ Acknowledge(Head(wire).rec)

(* A blank line is not counted.                                            *)
SkipBlank ==
  /\ ReceiveLine
  /\ wal[Head(wire).rec] = "blank"
  /\ UNCHANGED <<position, streamVars>>

CountLine ==
  /\ ReceiveLine
  /\ wal[Head(wire).rec] # "blank"
  /\ position' = position + 1

SkipLine == CountLine /\ position + 1 <= start /\ UNCHANGED streamVars

DeliverLine ==
  /\ CountLine
  /\ position + 1 > start
  /\ wal[Head(wire).rec] # "bad"
  /\ Yield(EventOf(wal[Head(wire).rec]), position + 1, Head(wire).rec)

FailLine ==
  /\ CountLine
  /\ position + 1 > start
  /\ wal[Head(wire).rec] = "bad"
  /\ YieldError

WireStep ==
  \/ StartReplication \/ WireFails \/ WireCheck \/ AcknowledgeFails
  \/ ReceiveKeepalive \/ ReceiveError \/ SkipBlank \/ SkipLine \/ DeliverLine \/ FailLine

================================================================================
