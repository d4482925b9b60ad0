----------------------------- MODULE BinlogDecoder -----------------------------
(***************************************************************************)
(* A MySQL binlog file and the file decoder of mysql/decode/decoder behind *)
(* mysql/backend.  Unlike the other offline logs its events carry their    *)
(* own position (LogPos, the end of the event) and depend on earlier ones: *)
(* a rows event is decoded with the table map and the format description   *)
(* that came before it.  Record i of log stands for the event with         *)
(* LogPos = i and EventSize = 1.                                           *)
(***************************************************************************)
EXTENDS EventStream, FiniteSets, Sequences

CONSTANTS
  Tables,    \* table ids
  Layout,    \* how a statement is laid out, "single" or "split" (below)
  MaxLog     \* bound on the records of the file

VARIABLES
  log,       \* the complete events of the file
  torn,      \* part of one more event is written behind them
  group,     \* the tables mapped by the statement being written
  read,      \* events consumed from decoder.buf
  skewed,    \* decoder.buf stands inside an event
  desc,      \* EventContext.Description is set
  tables,    \* the keys of EventContext.TableInfo
  start,     \* Option.StartPos, 0 when unset
  astray     \* history: the events consumed by reads from inside an event

binlogVars == <<log, torn, group, astray>>
fileDecoderVars == <<read, skewed, desc, tables, start>>

(* "fde"      the FORMAT_DESCRIPTION_EVENT that begins the file            *)
(* "map"      TABLE_MAP_EVENT                                              *)
(* "rows"     a rows event with complete row images                        *)
(* "other"    any other event: GTID, QUERY, XID, an irreversible rows event *)
(* "garbled"  an event whose body does not decode                          *)
(* "corrupt"  an event of unknown type or with a wrong checksum            *)
PlainKinds == {"fde", "other", "garbled", "corrupt"}

Records ==
  [kind : PlainKinds] \cup [kind : {"map", "rows"}, table : Tables]

Plain(k)    == [kind |-> k]
OfTable(k, t) == [kind |-> k, table |-> t]

(* Events the decoder never gets past.                                     *)
Faulty == {"garbled", "corrupt"}

BinlogInit ==
  /\ log = <<Plain("fde")>>
  /\ torn = FALSE
  /\ group = {}
  /\ read = 0
  /\ skewed = FALSE
  /\ desc = FALSE
  /\ tables = {}
  /\ start = 0
  /\ astray = {}

--------------------------------------------------------------------------------

LastKind == log[Len(log)].kind

(* The server maps the tables of a statement and then writes its rows.  In *)
(* the "single" layout a rows event comes straight after its own map; in   *)
(* the "split" layout a statement maps all its tables first and may take   *)
(* several rows events, as large or multi-table statements do.             *)
CanMap(t)  == LastKind # "map" \/ (Layout = "split" /\ t \notin group)
CanRows(t) == t \in group /\ (Layout = "split" \/ LastKind = "map")

Write(r) ==
  /\ Len(log) < MaxLog
  /\ log' = Append(log, r)
  /\ torn' = FALSE
  /\ UNCHANGED <<astray, fileDecoderVars, streamVars>>

WriteMap(t) ==
  /\ CanMap(t)
  /\ Write(OfTable("map", t))
  /\ group' = IF LastKind = "map" THEN group \cup {t} ELSE {t}

WriteRows(t) ==
  /\ CanRows(t)
  /\ Write(OfTable("rows", t))
  /\ UNCHANGED group

WritePlain(k) ==
  /\ k # "fde"
  /\ k \in Faulty \/ LastKind # "map"
  /\ Write(Plain(k))
  /\ group' = {}

(* The file ends inside an event: the server is writing it, or stopped.    *)
TearEvent ==
  /\ ~torn
  /\ Len(log) < MaxLog
  /\ torn' = TRUE
  /\ UNCHANGED <<log, group, astray, fileDecoderVars, streamVars>>

--------------------------------------------------------------------------------

(* A plausible mistake in OpenBinlog: the checkpoint is dropped.           *)
OpenFromStart(checkpoint) ==
  /\ phase = "closed"
  /\ phase' = "open"
  /\ start' = 0
  /\ UNCHANGED <<binlogVars, out, read, skewed, desc, tables>>

(* Backend.Open: parsePosition takes the number behind the last ":".       *)
OpenBinlog(checkpoint) ==
  /\ phase = "closed"
  /\ phase' = "open"
  /\ start' = checkpoint
  /\ UNCHANGED <<binlogVars, out, read, skewed, desc, tables>>

(* The event DecodeEvent is about to take, its number and its kind.        *)
Next1 == read + 1
Kind1 == log[Next1].kind

(* decodeEventHeader and readEventData succeed.                            *)
ReadEvent ==
  /\ phase = "decoding"
  /\ ~skewed
  /\ read < Len(log)
  /\ Kind1 # "corrupt"
  /\ read' = Next1
  /\ UNCHANGED <<binlogVars, skewed, start>>

(* Plausible mistakes in CheckSkip: the event behind the start position    *)
(* skipped too, and the format description skipped like any other event.   *)
CheckSkipNext == Kind1 # "fde" /\ start # 0 /\ Next1 - 1 <= start
CheckSkipAll  == start # 0 /\ Next1 - 1 < start

(* checkSkip and NeedStart: LogPos - EventSize < StartPos, and never for   *)
(* the format description.                                                 *)
CheckSkip == Kind1 # "fde" /\ start # 0 /\ Next1 - 1 < start

(* An event that is skipped is read and validated, its body not decoded.   *)
SkipEvent ==
  /\ ReadEvent
  /\ CheckSkip
  /\ UNCHANGED <<streamVars, desc, tables>>

(* eventsAfterPosition: with a start position, an event at or before it is *)
(* decoded and not handed on.                                              *)
Emit(kind) ==
  IF start > 0 /\ Next1 <= start
  THEN UNCHANGED streamVars
  ELSE Yield(kind, Next1, Next1)

DecodeFormat ==
  /\ ReadEvent
  /\ ~CheckSkip
  /\ Kind1 = "fde"
  /\ desc' = TRUE
  /\ Emit("info")
  /\ UNCHANGED tables

(* A plausible mistake in DecodeTableMap: the map is kept under the        *)
(* position of its event.                                                  *)
DecodeTableMapByPosition ==
  /\ ReadEvent
  /\ ~CheckSkip
  /\ Kind1 = "map"
  /\ tables' = tables \cup {Next1}
  /\ Emit("info")
  /\ UNCHANGED desc

DecodeTableMap ==
  /\ ReadEvent
  /\ ~CheckSkip
  /\ Kind1 = "map"
  /\ tables' = tables \cup {log[Next1].table}
  /\ Emit("info")
  /\ UNCHANGED desc

(* Without its table map a rows event carries a DecodeError and Reverse    *)
(* yields nothing.                                                         *)
DecodeRows ==
  /\ ReadEvent
  /\ ~CheckSkip
  /\ Kind1 = "rows"
  /\ desc
  /\ Emit(IF log[Next1].table \in tables THEN "step" ELSE "info")
  /\ UNCHANGED <<desc, tables>>

DecodeOther ==
  /\ ReadEvent
  /\ ~CheckSkip
  /\ Kind1 = "other"
  /\ Emit("info")
  /\ UNCHANGED <<desc, tables>>

(* A body that does not decode, and a rows event before any format         *)
(* description.  A table map that is too short fails with io.EOF, which    *)
(* ends Events() silently.                                                 *)
FailBody ==
  /\ ReadEvent
  /\ ~CheckSkip
  /\ \/ Kind1 = "garbled" /\ (YieldError \/ Return)
     \/ Kind1 = "rows" /\ ~desc /\ YieldError
  /\ UNCHANGED <<desc, tables>>

(* An unknown type or a checksum that does not match fails before          *)
(* anything is skipped.                                                    *)
FailHeader ==
  /\ phase = "decoding"
  /\ ~skewed
  /\ read < Len(log)
  /\ Kind1 = "corrupt"
  /\ read' = Next1
  /\ YieldError
  /\ UNCHANGED <<binlogVars, skewed, desc, tables, start>>

(* ReadNBytes returns io.EOF, which ends Events() silently, whether the    *)
(* file ends between two events or inside one; the bytes of a torn event   *)
(* are consumed.                                                           *)
EndOfBinlog ==
  /\ phase = "decoding"
  /\ ~skewed
  /\ read = Len(log)
  /\ skewed' = torn
  /\ Return
  /\ UNCHANGED <<binlogVars, read, desc, tables, start>>

(* A decoder that stands inside an event takes the bytes there for a       *)
(* header.  An unknown type or a checksum that does not match is an error. *)
(* When the file holds less than the header or the size in it ask for,     *)
(* ReadNBytes consumes all there is and Events() ends silently: the        *)
(* decoder then stands behind the last event, and inside the torn one.     *)
ReadAstray ==
  /\ phase = "decoding"
  /\ skewed
  /\ \/ YieldError /\ UNCHANGED <<read, skewed, astray>>
     \/ /\ Return
        /\ read' = Len(log)
        /\ skewed' = torn
        /\ astray' = astray \cup ((read + 1)..Len(log))
  /\ UNCHANGED <<log, torn, group, desc, tables, start>>

BinlogStep ==
  \/ SkipEvent \/ DecodeFormat \/ DecodeTableMap \/ DecodeRows \/ DecodeOther
  \/ FailBody \/ FailHeader \/ EndOfBinlog \/ ReadAstray

BinlogTypeOK ==
  /\ log \in Seq(Records)
  /\ torn \in BOOLEAN
  /\ group \subseteq Tables
  /\ read \in Nat
  /\ skewed \in BOOLEAN
  /\ desc \in BOOLEAN
  /\ tables \subseteq Tables
  /\ start \in Nat
  /\ astray \subseteq 1..Len(log)

================================================================================
