-------------------------------- MODULE RedisLive --------------------------------
(***************************************************************************)
(* LiveDecoder of redis/decode/decoder: a decoder that poses as a replica  *)
(* of a Redis server.  Each call of Events() starts a watcher goroutine    *)
(* that closes the connection when the context is cancelled, performs the  *)
(* handshake unless an earlier call did, and turns the replicated commands *)
(* into events.  Context, Close(), the server and the watchers run beside  *)
(* the goroutine that ranges over Events().                                *)
(***************************************************************************)
EXTENDS EventStream, Sequences

CONSTANTS
  Authenticate,  \* the DSN carries a password
  Sent,          \* the kinds of commands the server executes
  MaxCommands,   \* bound on the commands the server executes
  MaxLoops,      \* bound on the calls of Events()
  MaxHandshakes, \* bound on the calls that perform the handshake
  MaxWaits       \* bound on the calls a newline of the server reaches

VARIABLES
  executed,   \* how many commands the server executed
  base,       \* how many of them the initial snapshot holds
  streaming,  \* the server sends its commands over the connection
  owed,       \* requests other than PSYNC the server has not answered
  psync,      \* the server has not answered a PSYNC
  conn,       \* "none", "open", "dropped" by the server, "closed" by Close()
  wire,       \* what the decoder has yet to read, its bufio.Reader included
  step,       \* where the goroutine stands in NewLiveDecoder or Events()
  asked,      \* the request of this step is sent, its reply not read
  handshook,  \* d.handshook
  position,   \* d.position
  start,      \* d.startPosition
  garbled,    \* history: something read was not what the decoder expects
  ctx,        \* "live" or "cancelled"
  loop,       \* calls of Events() so far
  watchers,   \* the calls whose watcher goroutine has not exited
  late        \* history: events handed over since the context was cancelled

serverVars  == <<executed, base, streaming, owed, psync>>
socketVars  == <<conn, wire>>
decoderVars == <<step, asked, handshook, position, start, garbled>>
contextVars == <<ctx, loop, watchers, late>>

(* Commands: one with a reverse, one without, and one over the limits of   *)
(* parseCommand (maxRESPArrayElements, maxRESPBulkStringBytes).            *)
CommandKinds == EventKinds \cup {"long"}

ASSUME SentAssumption == Sent \subseteq CommandKinds

(* A command cut off inside a line or inside a bulk payload.               *)
TornKinds == {"header", "payload"}

(* A newline that keeps a waiting replica alive, and the other replies.    *)
ReplyKinds == {"ok", "error", "fullresync", "continue", "rdb", "ping"}

(* What one call of readLine consumes whole.                               *)
OneLine == ReplyKinds \ {"rdb"}

(* Next to these, what is left of an item that was consumed in part.       *)
Items == [kind : CommandKinds \cup TornKinds \cup ReplyKinds \cup {"rest"}, rec : Nat]

Item(k) == [kind |-> k, rec |-> 0]

(* The requests of the decoder, and what follows each of them.             *)
Requests == {"auth", "port", "capa", "psync"}

Steps == Requests \cup {"rdb", "loop", "read"}

Running == phase \in {"decoding", "yielding"}

LiveInit ==
  /\ executed = 0
  /\ base = 0
  /\ streaming = FALSE
  /\ owed = 0
  /\ psync = FALSE
  /\ conn = "none"
  /\ wire = <<>>
  /\ step = "port"
  /\ asked = FALSE
  /\ handshook = FALSE
  /\ position = 0
  /\ start = 0
  /\ garbled = FALSE
  /\ ctx = "live"
  /\ loop = 0
  /\ watchers = {}
  /\ late = 0

--------------------------------------------------------------------------------

(* The server, as far as the decoder relies on it.                         *)

(* A command is executed; a streaming server sends it.  What is executed   *)
(* once the connection is gone makes no difference to this decoder.        *)
Execute(k) ==
  /\ executed < MaxCommands
  /\ conn \in {"none", "open"}
  /\ executed' = executed + 1
  /\ wire' = IF streaming /\ conn = "open"
             THEN Append(wire, [kind |-> k, rec |-> executed + 1])
             ELSE wire
  /\ UNCHANGED <<base, streaming, owed, psync, conn, decoderVars, contextVars, streamVars>>

(* A request other than PSYNC is granted or refused, whether the server is *)
(* streaming by then or not; one that took PSYNC refuses no REPLCONF.      *)
Answer(k) ==
  /\ conn = "open"
  /\ owed > 0
  /\ k \in IF streaming \/ psync THEN {"ok"} ELSE {"ok", "error"}
  /\ owed' = owed - 1
  /\ wire' = Append(wire, Item(k))
  /\ UNCHANGED <<executed, base, streaming, psync, conn, decoderVars, contextVars,
                 streamVars>>

RefuseSync ==
  /\ conn = "open"
  /\ psync
  /\ psync' = FALSE
  /\ wire' = Append(wire, Item("error"))
  /\ UNCHANGED <<executed, base, streaming, owed, conn, decoderVars, contextVars,
                 streamVars>>

(* A replica that waits for its snapshot is sent a newline now and then.   *)
KeepAlive ==
  /\ conn = "open"
  /\ psync
  /\ loop <= MaxWaits
  /\ \A i \in 1..Len(wire) : wire[i].kind # "ping"
  /\ wire' = Append(wire, Item("ping"))
  /\ UNCHANGED <<serverVars, conn, decoderVars, contextVars, streamVars>>

(* +FULLRESYNC is followed by a snapshot of everything executed so far,    *)
(* which may take a while, +CONTINUE by nothing; both by the commands from *)
(* here on.                                                                *)
GrantSync(k) ==
  /\ conn = "open"
  /\ psync
  /\ k \in {"fullresync", "continue"}
  /\ psync' = FALSE
  /\ base' = executed
  /\ streaming' = TRUE
  /\ \/ k = "continue" /\ wire' = wire \o <<Item(k)>>
     \/ k = "fullresync" /\ wire' = wire \o <<Item(k), Item("rdb")>>
     \/ /\ k = "fullresync"
        /\ loop <= MaxWaits
        /\ wire' = wire \o <<Item(k), Item("ping"), Item("rdb")>>
  /\ UNCHANGED <<executed, owed, conn, decoderVars, contextVars, streamVars>>

(* The server goes away; a last command may have been sent in part.        *)
Drop(torn) ==
  /\ conn = "open"
  /\ conn' = "dropped"
  /\ owed' = 0
  /\ psync' = FALSE
  /\ streaming' = FALSE
  /\ \/ torn = "no" /\ UNCHANGED wire
     \/ torn \in TornKinds /\ streaming /\ wire' = Append(wire, Item(torn))
  /\ UNCHANGED <<executed, base, decoderVars, contextVars, streamVars>>

--------------------------------------------------------------------------------

(* Of what is still to be read only a part will be, up to some point that  *)
(* may lie inside a command; one over the limits shows that in its first   *)
(* line already.                                                           *)
CutWire ==
  \E n \in 0..Len(wire) :
    \/ wire' = SubSeq(wire, 1, n)
    \/ /\ n < Len(wire)
       /\ wire[n + 1].kind \in CommandKinds \cup {"payload"}
       /\ \E t \in TornKinds :
            /\ wire[n + 1].kind = "long" => t = "header"
            /\ wire' = Append(SubSeq(wire, 1, n), Item(t))

(* d.Close(): what the reader had buffered can still be read.              *)
CloseConn ==
  /\ conn' = (IF conn = "none" THEN "none" ELSE "closed")
  /\ streaming' = FALSE
  /\ owed' = 0
  /\ psync' = FALSE
  /\ IF conn \in {"none", "closed"} THEN UNCHANGED wire ELSE CutWire

Cancel ==
  /\ ctx = "live"
  /\ ctx' = "cancelled"
  /\ UNCHANGED <<serverVars, socketVars, decoderVars, loop, watchers, late, streamVars>>

(* Close() by the owner of the decoder, from any goroutine.                *)
OwnerClose ==
  /\ conn \in {"open", "dropped"}
  /\ phase # "closed"
  /\ CloseConn
  /\ UNCHANGED <<executed, base, decoderVars, contextVars, streamVars>>

(* The channel done of call k is closed.                                   *)
Returned(k) == k < loop \/ ~Running

(* A plausible mistake in WatcherDone: nothing closes the channel done.    *)
WatcherNeverDone(k) == FALSE

WatcherDone(k) ==
  /\ k \in watchers
  /\ Returned(k)
  /\ watchers' = watchers \ {k}
  /\ UNCHANGED <<serverVars, socketVars, decoderVars, ctx, loop, late, streamVars>>

(* A plausible mistake in WatcherCancel: the connection is left open.      *)
WatcherForgetsClose(k) ==
  /\ k \in watchers
  /\ ctx = "cancelled"
  /\ watchers' = watchers \ {k}
  /\ UNCHANGED <<serverVars, socketVars, decoderVars, ctx, loop, late, streamVars>>

(* select takes either case when both are ready.                           *)
WatcherCancel(k) ==
  /\ k \in watchers
  /\ ctx = "cancelled"
  /\ watchers' = watchers \ {k}
  /\ CloseConn
  /\ UNCHANGED <<executed, base, decoderVars, ctx, loop, late, streamVars>>

--------------------------------------------------------------------------------

(* NewLiveDecoder: the dial is bound to the context, the AUTH that may     *)
(* follow is not.                                                          *)
Dial(checkpoint) ==
  /\ phase = "closed"
  /\ conn = "none"
  /\ ctx = "live"
  /\ conn' = "open"
  /\ start' = checkpoint
  /\ step' = IF Authenticate THEN "auth" ELSE "port"
  /\ phase' = IF Authenticate THEN "closed" ELSE "open"
  /\ UNCHANGED <<serverVars, wire, asked, handshook, position, garbled, contextVars, out>>

(* Plausible mistakes in EnterEvents: the call makes its own reader, which *)
(* loses what the last one had buffered, and counts from 0 again.          *)
EnterEventsNewReader ==
  /\ loop < (IF handshook THEN MaxLoops ELSE MaxHandshakes)
  /\ loop' = loop + 1
  /\ watchers' = watchers \cup {loop + 1}
  /\ step' = IF handshook THEN "loop" ELSE "port"
  /\ wire' = <<>>
  /\ UNCHANGED <<serverVars, conn, asked, handshook, position, start, garbled, ctx, late>>

EnterEventsFromZero ==
  /\ loop < (IF handshook THEN MaxLoops ELSE MaxHandshakes)
  /\ loop' = loop + 1
  /\ watchers' = watchers \cup {loop + 1}
  /\ step' = IF handshook THEN "loop" ELSE "port"
  /\ position' = 0
  /\ UNCHANGED <<serverVars, socketVars, asked, handshook, start, garbled, ctx, late>>

(* Events() is called: a watcher is started, and the handshake unless it   *)
(* was done.                                                               *)
EnterEvents ==
  /\ loop < (IF handshook THEN MaxLoops ELSE MaxHandshakes)
  /\ loop' = loop + 1
  /\ watchers' = watchers \cup {loop + 1}
  /\ step' = IF handshook THEN "loop" ELSE "port"
  /\ UNCHANGED <<serverVars, socketVars, asked, handshook, position, start, garbled, ctx,
                 late>>

(* The handshake runs inside Events(), AUTH inside NewLiveDecoder.         *)
Connecting ==
  /\ step \in Requests
  /\ IF step = "auth" THEN phase = "closed" ELSE phase = "decoding"

(* A write to a connection the server dropped may still succeed.  A server *)
(* that streams already takes no notice of another PSYNC.                  *)
SendRequest ==
  /\ Connecting
  /\ ~asked
  /\ conn \in {"open", "dropped"}
  /\ asked' = TRUE
  /\ owed' = IF conn = "open" /\ step # "psync" THEN owed + 1 ELSE owed
  /\ psync' = IF conn = "open" /\ step = "psync" /\ ~streaming THEN TRUE ELSE psync
  /\ UNCHANGED <<executed, base, streaming, socketVars, step, handshook, position,
                 start, garbled, contextVars, streamVars>>

(* NewLiveDecoder closes the connection and returns the error; Events()    *)
(* yields it unless the context is cancelled, and returns.                 *)
GiveUp ==
  /\ asked' = FALSE
  /\ step' = "port"
  /\ IF step = "auth"
     THEN conn' = "closed" /\ wire' = <<>> /\ streaming' = FALSE
          /\ owed' = 0 /\ psync' = FALSE /\ UNCHANGED streamVars
     ELSE UNCHANGED <<conn, streaming, owed, psync>>
          /\ IF ctx = "live" THEN YieldError ELSE Return
  /\ UNCHANGED <<executed, base, handshook, position, start, contextVars>>

FailSend ==
  /\ Connecting
  /\ ~asked
  /\ conn \in {"dropped", "closed"}
  /\ GiveUp
  /\ step # "auth" => UNCHANGED wire
  /\ UNCHANGED garbled

(* ErrInvalidRESP: the line that shows it is consumed and no more, so that *)
(* the next call reads on behind it.  What is left of an item yields       *)
(* another error for each of its lines, the last of which may run into the *)
(* item behind it; none of them is taken for a message of its own.         *)
Misread ==
  /\ garbled' = TRUE
  /\ \/ Head(wire).kind \in OneLine /\ wire' = Tail(wire)
     \/ Head(wire).kind \notin OneLine \cup {"rest"}
        /\ wire' = <<Item("rest")>> \o Tail(wire)
     \/ /\ Head(wire).kind = "rest"
        /\ \E left \in {<<>>, <<Item("rest")>>}, n \in {2, 3} :
             n <= Len(wire) + 1 /\ wire' = left \o SubSeq(wire, n, Len(wire))

(* What readOK, and the reply to PSYNC, is expected to be.                 *)
Granting ==
  {"fullresync", "continue"} \cup (IF step = "psync" THEN {} ELSE {"ok"})

(* readOK, and the reply to PSYNC: a refusal, no reply any more, or        *)
(* something that is no reply.                                             *)
FailReply ==
  /\ Connecting
  /\ asked
  /\ GiveUp
  /\ \/ /\ wire = <<>>
        /\ conn \in {"dropped", "closed"}
        /\ step # "auth" => UNCHANGED wire
        /\ UNCHANGED garbled
     \/ /\ wire # <<>>
        /\ Head(wire).kind \in {"error", "header"}
        /\ step # "auth" => wire' = Tail(wire)
        /\ UNCHANGED garbled
     \/ /\ wire # <<>>
        /\ Head(wire).kind \notin Granting \cup {"error"}
        /\ step # "auth"
        /\ Misread

ReadReply ==
  /\ Connecting
  /\ asked
  /\ wire # <<>>
  /\ Head(wire).kind \in Granting
  /\ wire' = Tail(wire)
  /\ asked' = FALSE
  /\ UNCHANGED <<serverVars, conn, position, start, garbled, contextVars, out>>

(* A request granted leads to the next one; readOK takes any simple string *)
(* for the grant.                                                          *)
Greet ==
  /\ ReadReply
  /\ \/ step = "auth" /\ phase' = "open" /\ step' = "port"
     \/ step = "port" /\ step' = "capa" /\ UNCHANGED phase
     \/ step = "capa" /\ step' = "psync" /\ UNCHANGED phase
  /\ UNCHANGED handshook

(* A plausible mistake in Synchronise: the snapshot is not skipped.        *)
SynchroniseUnskipped ==
  /\ ReadReply
  /\ step = "psync"
  /\ step' = "loop"
  /\ handshook' = TRUE
  /\ UNCHANGED phase

Synchronise ==
  /\ ReadReply
  /\ step = "psync"
  /\ \/ Head(wire).kind = "fullresync" /\ step' = "rdb" /\ UNCHANGED handshook
     \/ Head(wire).kind = "continue" /\ step' = "loop" /\ handshook' = TRUE
  /\ UNCHANGED phase

(* skipRDB                                                                 *)
SkipRDB ==
  /\ phase = "decoding"
  /\ step = "rdb"
  /\ wire # <<>>
  /\ Head(wire).kind = "rdb"
  /\ wire' = Tail(wire)
  /\ step' = "loop"
  /\ handshook' = TRUE
  /\ UNCHANGED <<serverVars, conn, asked, position, start, garbled, contextVars,
                 streamVars>>

(* The connection is gone, or no bulk header follows.                      *)
FailRDB ==
  /\ phase = "decoding"
  /\ step = "rdb"
  /\ GiveUp
  /\ \/ wire = <<>> /\ conn \in {"dropped", "closed"} /\ UNCHANGED <<wire, garbled>>
     \/ wire # <<>> /\ Head(wire).kind # "rdb" /\ Misread

(* A plausible mistake in CheckContext: the loop does not ask.             *)
CheckContextNever ==
  /\ phase = "decoding"
  /\ step = "loop"
  /\ step' = "read"
  /\ UNCHANGED <<serverVars, socketVars, asked, handshook, position, start, garbled,
                 contextVars, streamVars>>

(* for d.ctx.Err() == nil                                                  *)
CheckContext ==
  /\ phase = "decoding"
  /\ step = "loop"
  /\ \/ ctx = "live" /\ step' = "read" /\ UNCHANGED streamVars
     \/ ctx = "cancelled" /\ Return /\ UNCHANGED step
  /\ UNCHANGED <<serverVars, socketVars, asked, handshook, position, start, garbled,
                 contextVars>>

(* A plausible mistake in ParseCommand: startPosition as a countdown.      *)
ParseCommandCountdown ==
  /\ phase = "decoding"
  /\ step = "read"
  /\ wire # <<>>
  /\ Head(wire).kind \in EventKinds
  /\ wire' = Tail(wire)
  /\ position' = position + 1
  /\ step' = "loop"
  /\ start' = start - 1
  /\ UNCHANGED <<serverVars, conn, asked, handshook, garbled, ctx, loop, watchers>>

(* parseCommand blocks until a command, or the end of the stream, is here. *)
ParseCommand ==
  /\ phase = "decoding"
  /\ step = "read"
  /\ wire # <<>>
  /\ Head(wire).kind \in EventKinds
  /\ wire' = Tail(wire)
  /\ position' = position + 1
  /\ step' = "loop"
  /\ UNCHANGED <<serverVars, conn, asked, handshook, start, garbled, ctx, loop, watchers>>

SkipCommand ==
  /\ ParseCommand
  /\ position + 1 <= start
  /\ UNCHANGED <<streamVars, late>>

DeliverCommand ==
  /\ ParseCommand
  /\ position + 1 > start
  /\ Yield(Head(wire).kind, position + 1, Head(wire).rec)
  /\ late' = IF ctx = "cancelled" THEN late + 1 ELSE late

(* A plugin may reject any command; its error is yielded whatever the      *)
(* context says.                                                           *)
RefuseCommand ==
  /\ ParseCommand
  /\ position + 1 > start
  /\ YieldError
  /\ UNCHANGED late

(* ErrInvalidRESP in the loop: the command is neither counted nor consumed *)
(* to its end, and the handshake stays done.                               *)
MisreadCommand ==
  /\ phase = "decoding"
  /\ step = "read"
  /\ wire # <<>>
  /\ Head(wire).kind \notin EventKinds \cup TornKinds
  /\ Misread
  /\ IF ctx = "live" THEN YieldError ELSE Return
  /\ UNCHANGED <<serverVars, conn, step, asked, handshook, position, start, contextVars>>

(* io.EOF and net.ErrClosed end Events() silently, the connection reset by *)
(* the server is an error that is yielded.                                 *)
Ended == Return \/ (conn = "dropped" /\ ctx = "live" /\ YieldError)

(* The stream is over, before a command, inside a line, or inside a bulk   *)
(* payload, where the error is ErrInvalidRESP.                             *)
EndOfStream ==
  /\ phase = "decoding"
  /\ step = "read"
  /\ conn \in {"dropped", "closed"}
  /\ \/ wire = <<>> /\ Ended /\ UNCHANGED wire
     \/ /\ wire # <<>>
        /\ \/ Head(wire).kind = "header"
           \/ Head(wire).kind = "rest" /\ Len(wire) = 1
        /\ Ended
        /\ wire' = Tail(wire)
     \/ /\ wire # <<>>
        /\ Head(wire).kind = "payload"
        /\ IF ctx = "live" THEN YieldError ELSE Return
        /\ wire' = Tail(wire)
  /\ UNCHANGED <<serverVars, conn, decoderVars, contextVars>>

LiveTypeOK ==
  /\ executed \in Nat
  /\ base \in 0..executed
  /\ streaming \in BOOLEAN
  /\ owed \in Nat
  /\ psync \in BOOLEAN
  /\ conn \in {"none", "open", "dropped", "closed"}
  /\ wire \in Seq(Items)
  /\ step \in Steps
  /\ asked \in BOOLEAN
  /\ handshook \in BOOLEAN
  /\ position \in Nat
  /\ start \in Nat
  /\ garbled \in BOOLEAN
  /\ ctx \in {"live", "cancelled"}
  /\ loop \in Nat
  /\ watchers \subseteq 1..loop
  /\ late \in Nat

Server ==
  \/ \E k \in Sent : Execute(k)
  \/ \E k \in {"ok", "error"} : Answer(k)
  \/ RefuseSync
  \/ KeepAlive
  \/ \E k \in {"fullresync", "continue"} : GrantSync(k)
  \/ \E t \in TornKinds \cup {"no"} : Drop(t)

Watchers == \E k \in watchers : WatcherDone(k) \/ WatcherCancel(k)

Handshake ==
  SendRequest \/ FailSend \/ FailReply \/ Greet \/ Synchronise \/ SkipRDB \/ FailRDB

Replicate ==
  \/ CheckContext
  \/ SkipCommand
  \/ DeliverCommand
  \/ RefuseCommand
  \/ MisreadCommand
  \/ EndOfStream

================================================================================
