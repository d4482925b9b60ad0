-------------------------------- MODULE MySQLLive --------------------------------
(***************************************************************************)
(* LiveDecoder of mysql/decode/decoder/live.go behind mysql/backend, and   *)
(* the server and the go-mysql streamer it reads from.  The server writes  *)
(* one binlog file after another and the streamer follows; a position is a *)
(* file and an offset, and the decoder keeps both from the moment it was   *)
(* opened.  A statement's table maps and its rows event are one record.    *)
(***************************************************************************)
EXTENDS EventStream, FiniteSets, Sequences, SequencesExt

CONSTANTS
  DsnFiles,       \* files the DSN may name, 0 for none
  DsnPositions,   \* positions it may name, 0 for none
  MaxLog,         \* bound on the records of all files
  MaxFiles,       \* bound on the files
  MaxReconnects   \* bound on the reconnections of the streamer

ASSUME ConstantsAssumption ==
  /\ DsnFiles \subseteq 0..MaxFiles /\ DsnPositions \subseteq Nat
  /\ {MaxLog, MaxFiles} \subseteq Nat \ {0} /\ MaxReconnects \in Nat

VARIABLES
  binlog,       \* the records of all files, in order
  dsn,          \* the DSN the program opens
  checksummed,  \* events on the wire end in a checksum
  next,         \* the record the streamer hands out next
  prologue,     \* artificial events it hands out before that
  refused,      \* the server refuses the position asked for
  reconnects,   \* reconnections so far
  source,       \* d.source.Name
  start,        \* d.startPosition, 0 when unset
  verify,       \* Description.HasCheckSum
  cancelled     \* d.ctx is cancelled

serverVars  == <<binlog, dsn, checksummed>>
streamerVars == <<next, prologue, refused, reconnects>>
liveVars    == <<source, start, verify, cancelled>>

(* "fde" begins a file and "rotate" ends it; "rows" is a statement with    *)
(* complete row images, "other" any event without a compensating           *)
(* operation, "garbled" one that does not decode.                          *)
Kinds == {"fde", "rows", "other", "garbled", "rotate"}

(* Offset 1 is where a file begins (4 in a real one), and every record     *)
(* moves the end of its file, which is its LogPos, by one.                 *)
Records == [file : 1..MaxFiles, pos : 2..(MaxLog + 1), kind : Kinds]

End == binlog[Len(binlog)]

BinlogInit ==
  /\ binlog = <<[file |-> 1, pos |-> 2, kind |-> "fde"]>>
  /\ dsn \in [file : DsnFiles, pos : DsnPositions]
  /\ checksummed \in BOOLEAN

StreamerInit ==
  /\ next = 1
  /\ prologue = <<>>
  /\ refused = FALSE
  /\ reconnects = 0

LiveInit ==
  /\ source = 0
  /\ start = 0
  /\ verify = FALSE
  /\ cancelled = FALSE

----------------------------------------------------------------------------------

(* The server.                                                             *)
WriteEvent(kind) ==
  /\ Len(binlog) < MaxLog
  /\ binlog' = Append(binlog, [file |-> End.file, pos |-> End.pos + 1, kind |-> kind])
  /\ UNCHANGED <<dsn, checksummed, streamerVars, liveVars, streamVars>>

RotateLog ==
  /\ Len(binlog) + 1 < MaxLog
  /\ End.file < MaxFiles
  /\ binlog' = binlog \o
       << [file |-> End.file, pos |-> End.pos + 1, kind |-> "rotate"],
          [file |-> End.file + 1, pos |-> 2, kind |-> "fde"] >>
  /\ UNCHANGED <<dsn, checksummed, streamerVars, liveVars, streamVars>>

(* The artificial events of a connection, with LogPos 0: a rotation that   *)
(* names the file, and the format description when the dump begins behind  *)
(* the one of the file.                                                    *)
Prologue(pos) == IF pos > 1 THEN <<"rotate", "fde">> ELSE <<"rotate">>

CanDump(file, pos) ==
  \/ pos = 1 /\ file <= End.file
  \/ \E i \in DOMAIN binlog : binlog[i].file = file /\ binlog[i].pos = pos

RecordsUpTo(file, pos) ==
  {i \in DOMAIN binlog : binlog[i].file < file \/ (binlog[i].file = file /\ binlog[i].pos <= pos)}

(* BinlogSyncer.StartSync                                                  *)
StartSync(file, pos) ==
  /\ refused' = ~CanDump(file, pos)
  /\ next' = Cardinality(RecordsUpTo(file, pos)) + 1
  /\ prologue' = Prologue(pos)
  /\ UNCHANGED reconnects

(* The connection breaks, or was silent for ReadTimeout, and the streamer  *)
(* goes on behind the last event it received.                              *)
Reconnect ==
  /\ phase # "closed"
  /\ ~refused
  /\ reconnects < MaxReconnects
  /\ reconnects' = reconnects + 1
  /\ prologue' = Prologue(IF next \in DOMAIN binlog /\ binlog[next].kind = "fde" THEN 1 ELSE 2)
  /\ UNCHANGED <<serverVars, next, refused, liveVars, streamVars>>

----------------------------------------------------------------------------------

OrElse(x, default) == IF x = 0 THEN default ELSE x

(* dsnWithStartFile: the file of the checkpoint unless the DSN names one.  *)
AskedFile(file) == OrElse(dsn.file, file)

(* A plausible mistake in OpenLive: the source is named before the file is *)
(* known.                                                                  *)
OpenLiveUnnamed(file, pos) ==
  /\ phase = "closed"
  /\ phase' = "open"
  /\ source' = AskedFile(file)
  /\ start' = pos
  /\ verify' = FALSE
  /\ StartSync(OrElse(AskedFile(file), End.file), OrElse(dsn.pos, OrElse(pos, End.pos)))
  /\ UNCHANGED <<serverVars, cancelled, out>>

(* Backend.Open and NewLiveDecoder with a checkpoint, file:pos, whose      *)
(* parts are 0 without one.  What neither the DSN nor the checkpoint says  *)
(* is where the server stands now.  Without its own position a DSN that    *)
(* names a file gets the server's, of whatever file that is.               *)
OpenLive(file, pos) ==
  LET cfgFile == OrElse(AskedFile(file), End.file)
      cfgPos  == OrElse(dsn.pos, OrElse(pos, End.pos))
  IN  /\ phase = "closed"
      /\ phase' = "open"
      /\ source' = cfgFile
      /\ start' = pos
      /\ verify' = FALSE
      /\ StartSync(cfgFile, cfgPos)
      /\ UNCHANGED <<serverVars, cancelled, out>>

(* GetEvent has an event for the loop: an artificial one, or a record.     *)
TakeArtificial ==
  /\ phase = "decoding"
  /\ ~refused
  /\ prologue # <<>>
  /\ prologue' = Tail(prologue)
  /\ UNCHANGED <<serverVars, next, refused, reconnects, source, start, cancelled>>

(* The server announces the next file when it has sent the end of one.     *)
TakeRecord ==
  /\ phase = "decoding"
  /\ ~refused
  /\ prologue = <<>>
  /\ next <= Len(binlog)
  /\ next' = next + 1
  /\ prologue' = IF binlog[next].kind = "rotate" THEN <<"rotate">> ELSE <<>>
  /\ UNCHANGED <<serverVars, refused, reconnects, source, start, cancelled>>

(* ValidateData: once a format description was decoded, every event has to *)
(* end in a checksum, because the version of the server says so.           *)
Rejected == verify /\ ~checksummed

Describe(kind) == verify' = (verify \/ kind = "fde")

(* Plausible mistakes in Filtered: one event too many, and one too few.    *)
FilteredNext(pos) == start > 0 /\ pos <= start + 1
FilteredLess(pos) == start > 0 /\ pos < start

(* LogPos <= startPosition, whatever file the event is of.                 *)
Filtered(pos) == start > 0 /\ pos <= start

(* DecodeRawEvent, the filter and the yield.                               *)
DecodeArtificial ==
  /\ TakeArtificial
  /\ ~Rejected
  /\ Describe(Head(prologue))
  /\ IF Filtered(0) THEN UNCHANGED streamVars ELSE Yield("info", 0, 0)

DecodeRecord ==
  /\ TakeRecord
  /\ ~Rejected
  /\ binlog[next].kind # "garbled"
  /\ Describe(binlog[next].kind)
  /\ IF Filtered(binlog[next].pos)
     THEN UNCHANGED streamVars
     ELSE Yield(IF binlog[next].kind = "rows" THEN "step" ELSE "info", binlog[next].pos, next)

(* DecodeRawEvent fails.                                                   *)
FailDecode ==
  /\ \/ Rejected /\ (TakeArtificial \/ TakeRecord)
     \/ TakeRecord /\ binlog[next].kind = "garbled"
  /\ YieldError
  /\ UNCHANGED verify

(* GetEvent returns an error: the server refused the position, or the      *)
(* streamer gave up or was closed.  It is not yielded when the context is  *)
(* cancelled.                                                              *)
FailStream ==
  /\ phase = "decoding"
  /\ IF cancelled THEN Return ELSE YieldError
  /\ UNCHANGED <<serverVars, streamerVars, liveVars>>

RefuseStream == refused /\ FailStream
LoseStream   == ~refused /\ FailStream

(* A plausible mistake in EndCancelled: the loop goes on.                  *)
EndCancelledContinues ==
  /\ phase = "decoding"
  /\ cancelled
  /\ UNCHANGED <<serverVars, streamerVars, liveVars, streamVars>>

(* GetEvent returns ctx.Err(), possibly with events waiting.               *)
EndCancelled ==
  /\ phase = "decoding"
  /\ cancelled
  /\ Return
  /\ UNCHANGED <<serverVars, streamerVars, liveVars>>

Cancel ==
  /\ phase # "closed"
  /\ cancelled' = TRUE
  /\ UNCHANGED <<serverVars, streamerVars, source, start, verify, streamVars>>

LiveStep == DecodeArtificial \/ DecodeRecord \/ FailDecode \/ RefuseStream \/ EndCancelled

LiveTypeOK ==
  /\ binlog \in Seq(Records)
  /\ dsn \in [file : DsnFiles, pos : DsnPositions]
  /\ checksummed \in BOOLEAN
  /\ next \in 1..(Len(binlog) + 1)
  /\ prologue \in {<<>>, <<"rotate">>, <<"fde">>, <<"rotate", "fde">>}
  /\ refused \in BOOLEAN
  /\ reconnects \in 0..MaxReconnects
  /\ source \in IF phase = "closed" THEN {0} ELSE 1..MaxFiles
  /\ start \in 0..(MaxLog + 1)
  /\ verify \in BOOLEAN
  /\ cancelled \in BOOLEAN

==================================================================================
