# A verification of go-dblog

go-dblog reads the logs of databases (MySQL binlogs, PostgreSQL logical
decoding, MongoDB change streams, Redis AOF and replication) as one stream of
events, and derives from it a *recovery plan*: a compensating operation for
each reversible event, with a checkpoint to resume from. What matters most in
it is what a recovery worker relies on: **no reversible event is lost or
invented, one is repeated only after a crash, a checkpoint means what it says,
and a loop ends when it is cancelled.** The modules here model the parts of the
program on which that depends; TLC checks them on small instances, and TLAPS
proves the safety of every recovery worker, of the rollback of a window, of the
parser of PostgreSQL lines, of the registries and of the logger for instances of
any size.

## The system

| Component (src/) | State it keeps | Operations | Interacts through |
|---|---|---|---|
| Root API, `dblog.go` | none between calls; iterators | `Events`, `RecoveryPlan`, `CheckpointOf`, `WithCheckpoint`, `Filter`, `Bodies`, `Flashbacks` | pulls a backend's `Events()` by yield, hands steps to the loop |
| Registry, `dblog.go` | map of backends under an RWMutex | `Register`, `Open` | calls `Backend.Open`; logs |
| Logger slot, `logger.go` | current logger under an RWMutex, levels | `Logf`, `SetLevel`, `SetLogger`, `Enabled`, `Level` | called by everything |
| Offline decoders, `postgres`, `mongo` and `redis` `decode/decoder/decoder.go`, `resp.go` | a reader, a start position | `NewDecoder`, `Events`, `Close` | the file, which a server may be writing |
| MySQL file decoder, `mysql/decode/decoder/file_decoder.go` | reader, format description, table maps, event registry | `DecodeEvent`, `Events`, `DecodeRawEvent` | `mysql/backend` filters its events |
| MySQL event bodies, `mysql/decode/events/types` | none, context of the decoder | `Decode`, `Reverse` | table maps and registry in the context |
| MySQL event registry and MariaDB plugin | decoders and names by event type | `Register`, `Clone`, plugin application | applied at a format description |
| MySQL live decoder, `mysql/decode/decoder/live.go` | syncer, start position, source name | `NewLiveDecoder`, `Events`, `Close` | replication library, `DecodeRawEvent` |
| Redis live decoder, `redis/decode/decoder/live.go` | connection, reader, position, handshake done | `NewLiveDecoder`, `Events`, `Close`, a watcher goroutine per loop | the server, the context |
| PostgreSQL polling decoder, `postgres/.../live.go` | connection, position | `Events`, `Close` | a logical slot, by SQL |
| PostgreSQL wire decoder, `postgres/.../wire.go` | connection, position, started | `Events`, `Close` | a logical slot, by the replication protocol |
| MongoDB live decoder, `mongo/.../live.go` | client, position | `Events`, `Close` | a change stream per loop |
| Parsers, `postgres` and `mongo` `parser.go` | none | `parseLine`, `parseRaw` | called by the decoders |
| Flashbacks, `Reverse()` of each backend | none | `Reverse` | called by `RecoveryPlan` |
| Backends, `*/backend` | none | `Open`, `startPosition` | called by the registry |
| CI report, `internal/cireport` | none | render tables | files |

The hard behaviours are: crashes between a replay and the save of its
checkpoint; loops that break and begin again over one decoder; files that end
inside a record or are being written; positions that are counted per loop, per
connection or per file; rows events that depend on earlier events; a watcher
goroutine that closes a connection under its reader; servers that refuse, fall
silent or go away at any point of a handshake; slots that consume or
acknowledge before events are handed over; goroutines that share the registry
and the logger. PROJECT.json lists each with its line under "hazards".

What makes each component correct:

- *recovery worker over any backend*: the promise of `ResumableStream` below;
- *offline decoders*: a position names its record (which it does in the first
  loop over a decoder only); damaged and torn records yield nothing; everything
  before the first damage is delivered in the end;
- *binlog file decoder*: the same although records depend on each other, two
  filters look at the start position and a torn event is consumed;
- *MySQL live*: where the dump begins and the filter of `Events()` agree with
  the checkpoint, over every DSN and every reconnection;
- *Redis live*: reader and stream stay in step over failed handshakes, late
  replies and several loops, and positions never run ahead of the stream;
  cancelling ends a loop and every watcher exits;
- *PostgreSQL live*: what the slot gave up was replayed;
- *MongoDB live*: what a change stream returned is replayed, once;
- *parser of test_decoding lines*: what a reversal names in SQL is what the
  server printed, whatever a value holds;
- *event registry*: events of a type go to one body for good, whatever other
  decoders and the program register;
- *flashbacks*: the operations of a window, replayed from the last to the first,
  restore the rows, documents and keys it changed;
- *registry and logger*: a driver is registered once, calls return, a record
  goes to a logger that was current.

## The modules

```
ResumableStream          the abstract promise (refined by the recoveries)
EventStream              iter.Seq2: yield, continue, break
RecoveryWorker           RecoveryPlan and the loop of doc/RECOVERY.md
OfflineLog               a log file, its writer, an offline decoder's fields
  LineDecoder            Events() of postgres and mongo over a file
  RespDecoder            Events() of redis over an AOF file
FileRecovery             = LineDecoder + RespDecoder + RecoveryWorker
FileRecovery_proofs      theorems about FileRecovery
BinlogDecoder            the MySQL file decoder behind mysql/backend
BinlogRecovery           = BinlogDecoder + RecoveryWorker
BinlogRecovery_proofs    theorems about BinlogRecovery
MySQLLive                mysql live.go behind mysql/backend, the server, go-mysql's streamer
MySQLRecovery            = MySQLLive + RecoveryWorker
MySQLRecovery_proofs     theorems about MySQLRecovery
RedisLive                redis live.go and the server it talks to
  RedisStream            = one decoder under a caller that loops and cancels
  RedisStream_proofs     theorems about RedisStream
  RedisRecovery          = RedisLive + RecoveryWorker
LiveDecoder              the fields the next three decoders have in common
  PostgresSlot           a replication slot
    PostgresPoll         postgres live.go
    PostgresWire         postgres wire.go
  MongoLive              mongo live.go and a collection's changes
LiveRecovery             = PostgresPoll + PostgresWire + MongoLive + RecoveryWorker
LiveRecovery_proofs      theorems about LiveRecovery
PostgresLine             a line from test_decoding through parser.go to SQL
  MCPostgresLine         names and values for it
PostgresLine_proofs      theorems about PostgresLine
EventRegistry            base_event_factory.go and the plugins of decoders
  MCEventRegistry        bodies and plugins for it
RowTable                 a table with a primary key and the images of its rows
  MySQLRows              Reverse() of rows events, and what they are replayed on
  PostgresChange         Reverse() of test_decoding lines, the same
  MongoDocument          Reverse() of changes, the same
RedisCommand             Reverse() of commands and the keys they change
Rollback                 = the rollback of a window of any of the four
Rollback_proofs          theorems about Rollback
RWLock                   sync.RWMutex
LoggerSlot               logger.go
Registry                 Registry of dblog.go, logging through the slot
RootPackage              = goroutines that call both
MCRegistries             RootPackage beside EventRegistry, for one run
Registries_proofs        theorems about RootPackage and EventRegistry
```

**How state and actions correspond to code.** `EventStream.phase` says where an
`Events()` closure stands and `out` what it is handing to `yield`; an action
of a decoder is one turn of its loop up to the next yield, return or blocking
call, split wherever another goroutine, the server or the context could make a
difference (Redis: the context check, the read and the delivery are separate;
PostgreSQL: query, scan and wait are). `position`, `start`, `handshook`,
`started`, `read` are the variables of the same names, `read` standing for the
place of the reader or scanner. `rec` in an event is a history variable: the
record it was decoded from, which the code does not keep and the properties
compare with `pos`. `applied`, `repeats`, `late`, `known` and `seen` are
history too. A record, line or command is one of the kinds the control flow tells
apart ("step" is an event whose `Reverse()` returns an operation). The worker's
`saved`, `applied` are durable; `Die` forgets the rest.

In `BinlogDecoder` record *i* has `LogPos = i` and size 1, so that the two
comparisons of the code, one with the start of an event (`NeedStart`) and one
with its end (`eventsAfterPosition`), differ as they do in a file. Binlogs are
assumed to have checksums, so that a damaged event is noticed. A decoder that
meets the end of the file inside an event has consumed the part there is
(`ReadNBytes`), ends silently and stands inside it (`skewed`). Its next loop takes
the bytes there for a header (`ReadAstray`): that is an error, or asks for more
than the file holds, in which case the rest of the file is consumed, the loop ends
silently too, and the decoder stands behind the last event again, from where a
third loop decodes on. `astray` keeps the events passed over like that. What is
left of a torn event is taken to be no valid event by accident.

In `OfflineLog` `place` says what becomes of a reader at the end of a file: a
`bufio.Scanner` never reads on (`StayEnded`), a RESP reader that met the end
inside a frame is inside it (`EndOfFrames`), where a further loop finds no
command header (`ResumeInside`). `again` records that a decoder was ranged over
a second time, which the properties of `FileRecovery` are stated up to.

`MySQLLive` has one sequence of records for all files of the server; a record is
a file, the end position of the event (its `LogPos`) and a kind, and offset 1
stands for the 4 a file begins at. A statement's table maps and rows event
are one record, since `BinlogDecoder` deals with what separates them. `dsn`
is what the program configures and stays the same over restarts, so that `OpenLive`
holds the precedence of DSN, checkpoint and the server's own position, as
`dsnWithStartFile`, `startPosition` and `NewLiveDecoder` compute it between
them. The streamer (go-mysql, external) opens a connection with artificial
events (`prologue`) and may reconnect behind its last event. `checksummed` is
chosen at the start: the comment at `live.go:76` says that events arrive without
checksums while `FmtDesc.Decode` demands one of every later event by the version
of the server, so a stream without checksums is a stream of errors; which of the
two arrives is up to the library, and the properties hold for both.

`RedisLive` models the server as far as the decoder relies on it: it answers or
refuses each request when it likes (`owed`, `psync` say what it still has to
answer), sends newlines while it prepares a snapshot, then the snapshot and the
commands it executes, some of them over the limits of the parser (`"long"`), and
drops the connection whenever it likes, also inside a command. What the decoder
cannot parse it consumes up to the line that shows it (`Misread`, `ErrInvalidRESP`)
and leaves the rest of the item on the wire, where a later call of `Events()`
begins; `garbled` records that this happened. What is left of an item is taken
to look like no message of its own: a bulk string that holds a whole RESP
command is not modelled. Closing the
connection keeps whatever the `bufio.Reader` had buffered: any prefix of the
stream, cut anywhere. `PostgresSlot` assumes of PostgreSQL that a slot sends
transactions in commit order, whole, and goes on with the first transaction
that was not confirmed up to its end. `MongoLive` assumes that a change stream
returns the changes behind its beginning in order and ends behind an
`invalidate`; the driver resumes it after network errors unseen. `LiveRecovery`
looks at one of the three decoders in each behaviour (`reader`), over workers
that pass their checkpoints or never do (`resumes`).

`PostgresLine` follows one change through text. `PrintLine` is what
test_decoding prints of it (external), a sequence of `Symbols`: those of the
format, which `parser.go` looks for, and any others, which names and values
may hold. A line reaches the parser in a file, which
a line break in a value cuts, or in an answer of a slot, whole (`Carried`).
`ParseChange`, `NextColumn`, `EndOldKey`, `EndColumns` and the refusals are the
loops of `parseChange` and `parseColumns` with `pos` where theirs is;
`ParseQuoted`, `ParseScalar` and the rest are the functions of those names, and
return no element where the code returns false. `SqlValue` and `QuoteIdent` are
what `sql.go` prints, `LiteralDenotes` and `IdentNames` how PostgreSQL takes it.
`RefusedForItsText` and `SqlDenotesChange` say *exactly* which lines are refused
(`Unreadable`) and which are read as something else (`Misread`). Names of columns
and tables are any texts that do not hold what ends them (`NamesAssumption`: the
parser takes `]:` in a name for the end of a type and `: ` in a table's name for
the separator).

`EventRegistry` has a map per decoder and the package's default one. Opening a
decoder copies the default (`NewEventContext`), a format description starts
`applyEventPlugins`, which goes on body by body (`RegisterBody`, `RefuseBody`,
`NextPlugin`, `FinishPlugins`), so that other decoders and the program act in
between and a refused body leaves the ones before it registered. `origin`,
`appliedTo` and `last` are history.

`Rollback` and the modules under it are about what `Reverse()` returns, and
have no decoder. A write changes the database and logs the event a backend
would decode from it (`MySQLWrites`, `PostgresWrites`, ...), with the images
the server's settings leave in its log: `binlog_row_image`, `REPLICA IDENTITY`,
pre-images. Whatever may be absent is a set of at most one element. `Reverse()`
returns a set of operations, empty for `false`; a database executes an
operation to a set of states, empty when it refuses. A row is a key and one
column, an image may skip either. Integers of Redis have `Width`; the deltas
are texts (a sign and digits), because the code negates them as such. `trail`
and `undone` are history.

## The runs

| Run | Bounds | Shows |
|---|---|---|
| `file_recovery` | 3 records of any kind, 2 crashes, 2 loops per decoder | nothing invented; up to a second loop over one decoder nothing lost or repeated without a crash, refinement of `ResumableStream`; every reachable step replayed |
| `file_loops` (violated) | 3 records, 2 loops per decoder | the second loop numbers its events from 1 again |
| `binlog_recovery` | 5 events, 2 tables, 1 crash, 3 loops per decoder | the same over a binlog with one map per rows event, but for what a loop reads astray |
| `binlog_split` (violated) | 6 events, 1 table | a checkpoint inside a statement with several rows events loses the rest of it |
| `mysql_live` | 5 records in 2 files, 1 reconnection, 1 crash, DSN with or without a file and a position | nothing of the decoder's own file lost, no repeat without a crash, cancellation |
| `mysql_rotation` (violated) | 6 records in 2 files, 1 crash | the start position of one file hides events of the next |
| `redis_stream` | 2 commands, each parsable or over the limits, 3 loops, 2 of them with a handshake, newlines in the first, AUTH, start position 0 or 1 | stream in step, positions right, cancellation and watchers |
| `redis_resume` (violated) | 2 commands, 1 loop per connection, no AUTH, 1 crash | a checkpoint skips commands of another connection |
| `live_recovery` | 7 lines (two transactions), 1 message in flight, 4 MongoDB changes, 1 crash, 2 loops per decoder | wire at least once, poll and MongoDB at most once, an open change stream leaves nothing out, cancellation |
| `rollback` | windows of 2 writes, 3 keys, statements of 2 rows, 2-bit integers, 1 crash, all settings | a rollback goes back through the states of the database; what makes it fail |
| `postgres_lines` | rows of 1 or 2 columns with 3 names and 17 values, 3 tables, file and slot | exactly which lines are refused; the SQL of a reversal names what was printed |
| `registries` | 3 goroutines, 3 calls, 1 driver, 2 loggers; 2 decoders, 3 lists of plugins, 2 dialects, 2 bodies of the program | registration, logging and locks; one body per type for good, no body in part, plugins whole |

**Why the bounds are enough.** The decoders are loops without memory beyond
their position, start position and context, so that three records give a record
before, at and behind the checkpoint, each of any kind; two crashes let a
repeated operation meet another crash, and a second loop over a decoder is where
the numbering of its events goes wrong. Five binlog events hold the format
description and two statements with their maps, or one with records around it;
three loops are what it takes to come back from a torn event: one that meets it,
one that reads astray, one that decodes on. Five live MySQL records are a file
with its format description, a step, and the rotation to a second file with its
own, so that a checkpoint can lie before and behind each. Two Redis commands let
the start position fall before, at and behind one, and a command follow one that
cannot be parsed. Of three loops two may perform the handshake, so that one that
failed is begun again and a third loop goes on behind what the second misread; a
newline in the first handshake leaves replies, and the snapshot, unread for the
second. One kind of unread reply needs a handshake more, the late answer to a
request read among commands: `InSync` allows for it, and the proof covers it for
any number of handshakes. Seven lines are two PostgreSQL transactions, one of
them with two changes, so that a crash can fall inside one behind a complete
one; a message in flight is one the server sent and the decoder has not received
when either goes away. Four changes of a collection fall before, into, between
and behind two streams. Two writes are the least a wrong order of replay or a
repeated step disturbs, and three keys the least over which rows of a statement
hand one on. Rows of two columns let a value be followed by another column, the
17 values hold every symbol the parser looks for, alone and as the text of a
whole column or marker, and the names hold brackets, a line break, the marker
and a dot; the proofs below take away every one of these bounds. Two decoders
are one and another that may disturb it, and the three lists hold a plugin that
matches one dialect, one that matches all and one that clashes. Three goroutines
with one call each are two rivals for a driver, or a lock holder, a waiter and a
third party; a writer that waits for a `sync.RWMutex` keeps new readers out
(`Announce`). The two registries share no variable, so that a behaviour of
`MCRegistries` takes steps of one of them. Every bound is a constant:
`MaxWrites`, `MaxRows`, `MaxList`, `Width`, `MaxLog`, `MaxCrashes`, `MaxRanges`,
`MaxCommands`, `MaxLoops`, `MaxHandshakes`, `MaxWaits` (the loops a newline
reaches), `MaxWal`, `MaxFlight`, `MaxOplog`, `MaxRepeats`, `MaxCalls`,
`MaxFiles`, `MaxReconnects`, and the sets `DsnFiles` and `DsnPositions` hold
what a DSN may say. `MaxRepeats` keeps the wire decoder, which may send a
transaction again for each process, finite.

**Deadlock** is not checked in the Redis, PostgreSQL and MongoDB runs, where a
silent server and a program that has nothing left to do may stop for good, nor
in those of `Rollback` and `PostgresLine`, which end. The other runs check it.

**Fairness.** Every liveness property assumes weak fairness of what the Go
scheduler runs: the goroutine of the worker or of the loop, the watcher
goroutines, and each goroutine inside a call of the registry or slot (a
`sync.RWMutex` that stays free is given to a waiter). Nothing is assumed of
servers, of the writer of a file, of crashes, of cancellation or of a caller
that may call again. `EveryStepApplied` also relies on the worker being
started again after it stopped, and in the binlog on its reopening the file after
`MaxRanges` loops over one decoder: a decoder inside a torn event either fails
at once or comes back by consuming everything up to the end of the file, and what
it passed over only a reopened one can deliver, if the checkpoint is not behind
it by then (`PassedAstray`). `CancelEndsLoop` of `mysql_live` assumes strong
fairness of one branch of the `select` in go-mysql's `GetEvent`, which Go
chooses at random among those that are ready: with events always waiting, weak
fairness would let it pass over a cancelled context for ever.

## What the violated runs show

Each is a disagreement of the code with what the documentation says of it;
PROJECT.json quotes it under "findings".

1. *Resuming inside a statement.* MySQL writes one table map for a statement and
   may follow it with several rows events. Resuming behind the first of them
   skips the map; the others carry a `DecodeError` and yield no operation.
2. *Resuming a Redis connection.* A checkpoint counts commands of a connection
   that is gone; the new one is counted from 0, and that many new commands are
   skipped.
3. *Resuming before a rotation.* `Events()` of the live decoder drops every event
   with `LogPos <= startPosition`, also in the files behind the one the
   checkpoint is of. For the same reason the file of a position is the one the
   decoder was opened with, so that a checkpoint saved behind a rotation pairs
   the old file with an offset of the new one. `NoStepLostInFile` is what remains.
4. *Ranging twice over an offline decoder.* `position` is a variable of the
   `Events()` closure, the reader the decoder's. After a `break`, ranging again
   over the same decoder numbers the next record 1 (`file_loops`), and skips
   as many records as the start position counts once more. Saving the checkpoint
   of such an event makes a restarted worker repeat what it did, or pass over
   what it did not. `NoStepLost`, `RepeatsNeedCrashes`, `ImplementsStream` and
   `EveryStepApplied` of `FileRecovery` are therefore stated up to the first such
   loop (`again`), and each of them fails behind it; types and
   `OnlyStepsApplied` hold however often a decoder is ranged over.

Three more limits need no run of their own. A worker that tails a binlog file by
ranging again over its decoder may lose the operations of an event that was being
written when a loop ended, and of the events behind it up to the end of the
next loop: its checkpoints go on behind them. `NoStepLost` of `BinlogRecovery`
excepts these events (`PassedAstray`), and those whose table map is among them;
without the exception TLC finds a reader behind such an event with two loops
over one decoder, and a checkpoint behind it with three. The query of the polling
decoder consumes all it returns, so that a worker that stops inside an answer has
lost the rest of it: `ConsumedWasReplayed` of `LiveRecovery` fails for that
reader within four changes. And `Reverse()` of a MongoDB delete takes any document for
the deleted one, while an oplog entry has only its `_id`: without that case in
`unsafe`, `MatchesHistory` fails.

`MatchesHistory` and `RefusedForCause` name three more kinds of writes whose
operation is not safe (`unsafe` in the log of `Rollback`), and without any one of
them TLC finds a violation: a PostgreSQL delete whose old image is only the key; a
MySQL update whose rows hand a key on, which `Reverse()` leaves in their order
(`HandsOver`); and a Redis delta whose opposite is not a number Redis takes
(`HasNoOpposite`). After a crash a step may be replayed twice: over rows and
documents the second replay changes nothing or is refused, over Redis it counts
or pops once more.

`postgres_lines` states what the parser cannot read (`Unreadable`) and what it
reads as something else (`Misread`), and each cause is needed: the type
`integer[]`, a name with brackets, TRUNCATE, an old row of NULLs, a line break
in a name or a value of a file and an old name or value that holds the marker of
the new tuple are refused; quoted names, integers beyond 64 bits, NaN, bits and
unchanged TOAST values become other text.

A Redis command over the limits of `parseCommand` (`const.go:12`) ends a loop
with an error and is neither counted nor consumed to its end. The handshake
stays done, so that another loop begins inside the command; each turn ends with
an error until the reader happens to stand before a command again. Positions are
behind the stream from there on (`PositionCountsStream`), and conservation of
the stream is claimed up to there (`StreamConserved`). A newline of a server
that prepares its snapshot ends a handshake in the same way; the next one then
meets the replies of the first, and a snapshot taken for a reply is misread and
skipped line by line.

The wire decoder resumed with a checkpoint skips lines in the same way as the
Redis decoder (`wire.go:156`), and so does the MongoDB live decoder
(`live.go:144`). `live_recovery` shows what holds in spite of it: without
checkpoints the wire decoder is safe, although it acknowledges before it
delivers, and a change stream leaves nothing out while it is open; with or
without them neither the polling nor the MongoDB decoder repeats an operation.
Without a resume token, changes between two streams are seen by nobody.

## What is proved

`FileRecovery_proofs`, for every `MaxLog`, `MaxCrashes` and `MaxRanges`:

- `TypeCorrect` and `OnlyRealSteps`, however often a decoder is ranged over;
- `NothingLost`, `RepeatsBounded` and `Refinement` (the worker implements
  `ResumableStream`) up to the first second loop over a decoder, as the
  properties say.

The safety properties are not inductive. The invariant `IInv` adds what ties the
pieces together, until `again` holds: while a loop runs, `position = read`, so
that the record about to be read is the position about to be counted
(`CursorInv`); every step between the start position and the reader is replayed
or being handed over (`DecodingInv`); an event handed over is the record just
read and is a step iff the log says so (`OutInv`); a worker between replay and
save stands at a step that is replayed, and then only (`WorkerInv`); steps
beyond the checkpoint that are already replayed are at most the one a crash left
(`AheadInv`), and each crash pays for one such step (`RepeatsInv`). Each action
preserves it in a lemma of its own; all the ways a decoder takes a record are
first reduced to four effects (`DecodeEffect`: skip, deliver, fail, end), so
that both decoders share one proof. `Refinement` then maps a replay to `Replay`,
a save to `Save`, a crash to `Restart` and the growth of the file to `Extend`.

`Registries_proofs`, of `RootPackage` for every set of goroutines, drivers and
loggers and every `MaxCalls`: `TypeCorrect`, `NeverReplacedHolds`,
`OpenFindsRegisteredHolds` and `PrintedWhereCurrentHolds`. None is inductive
alone. The invariant `IInv` adds what the arguments of a call are where they are
used (`ArgInv`); that a writer of the registry is alone (`WriterInv`), so that a
goroutine about to insert a driver has seen that it is absent and nobody can
have added it since (`AbsentInv`); that what was registered when a call began
still is (`KnownInv`); and that the logger a call of `Logf` takes has been
current since it began (`SeenInv`). Every action preserves it in a lemma of its
own; the locks are taken in the two steps of `RWLock`. Assumed: nil is no
goroutine and the empty name is no driver (`ProcsAssumption`,
`NoDriverAssumption`).

`BinlogRecovery_proofs`, for every `MaxLog`, number of tables, crashes and
loops, under `SingleLayout` (a rows event follows its own table map; in the
other layout `NoStepLost` is what `binlog_split` refutes): the safety properties
of run `binlog_recovery` and, as long as no loop read astray, the refinement of
`ResumableStream`. `IInv` says that rows events stand behind their map (`LogInv`),
that a decoder which has passed the description and a map, not astray, knows both
(`ContextInv`), where its reader
stands relative to the start position (`CursorInv`), and that a step the decoder
is done with was replayed although its map may have been skipped
(`PassedInv`); `AheadInv` and `RepeatsInv` as above.

`MySQLRecovery_proofs`, for servers with any number of files and events, any
DSN, reconnections, loops and crashes: the safety properties of run
`mysql_live`. Records are ordered by file and offset (`OrderInv`), so that the
records a dump passes over are the first ones (`DumpLemma`); what a checkpoint
covers of its file was replayed (`CoveredInv`), what comes behind the place where
the worker joined lies behind the position of the DSN (`OriginInv`), and while
there is one file the steps the stream is past lie at or before the checkpoint or
that position (`SingleFileInv`). The constants are assumed to be what a DSN and
a server may have (`ConstantsAssumption`).

`RedisStream_proofs`, for any number of commands, loops, failed handshakes, late
replies, newlines, commands that cannot be parsed and dropped connections, under
`CheckpointsAssumption` (start positions are numbers) and `SentAssumption` (the
commands executed are of known kinds): the five safety properties of run
`redis_stream`. The invariant `IInv` has two parts. `BaseInv` holds
always: where the handshake stands (`StageInv`), that a connection is
synchronised once and nothing of the synchronisation is sent before
(`ServerInv`), what may follow what on the wire (`WireInv`), that the commands on
it lie behind the position in their order (`RecInv`), and what may still be handed
over after a cancellation (`OutInv`, `LateInv`). `ExactInv` holds until something is
misread: it ties the place of the handshake to the replies under way
(`Prelude`, `RequestInv`, `ReplyInv`), says that behind them only commands
come, numbered on from the position (`StreamingInv`, `CommandsInv`), and that the
position and what is buffered add up to what the server sent (`CountInv`). A
newline is misread only when it is read, so that both hold while it waits
(`Disturbed`).

`LiveRecovery_proofs`, for logs of any length, any number of messages in flight,
crashes and loops: the safety properties of run `live_recovery`. The slot
resumes behind the last commit that was confirmed (`StreamInv`); per reader,
`PollInv` says what was consumed, `WireInv` with `OrderInv` that the lines on
the wire are in order, so that every operation before an acknowledged line was
replayed, and `WatchInv` what the open change stream has returned.

`Registries_proofs`, of `EventRegistry` for any bodies, plugins, lists of
plugins and decoders, under `BodiesAssumption` and `PluginsAssumption` (the
bodies of the package do not clash): `BodiesStay` and `PluginsWhole`. Every
registry holds bodies whole (`WholeInv`); per decoder, it refers to its own copy
(`RefInv`), nothing that was in it changes (`StayInv`), the bodies before the
one the loop stands at are in place (`TurnInv`) and so are all of applied
plugins (`AppliedInv`).

`Rollback_proofs`, for windows of any length over MySQL and PostgreSQL tables,
MongoDB collections and Redis keys, with statements of any number of rows, any
keys, values, settings of the images and number of crashes: the three properties
of run `rollback`, under no assumption on the drivers. One lemma per database
says what the replay of one step does to any state that agrees with the one
before or after the write on the keys the write names (`MySQLLemma`,
`PostgresLemma`, `MongoLemma`, `RedisLemma`, joined in `UndoLemma`): it leaves
other keys alone, restores the named ones and, over rows, restores them again.
The rest is about windows. `Window` says that the log and the history of states
fit, and that a key no write of a part of the window names is the same before
and after it (`Framed`), so that events without a step may be skipped
(`SkipLemma`); `Tainted` is closed, so a write names tainted keys or none
(`TaintLemma`). For MySQL the steps of a statement are stages of a recursive
function, which `StagesLemma` shows to exist; as long as no row takes over the
key of an earlier one, the changes of a statement name different keys
(`SeparateLemma`), which is why `Reverse` may leave the rows of an event in
their order (`BackwardsLemma`). `PlanInv` ties `pending` to the step replayed
last, and `MatchInv` is `MatchesHistory`.

`PostgresLine_proofs`, for rows of any number of columns, any names, tables and
values, texts of any length over any alphabet that holds the format, carried by
a file or a slot, where numbers and booleans are one representative of each
class the parser tells apart (`Scalars`: 64-bit integers, larger ones, NaN,
true, false) and stand for no others: both properties of run `postgres_lines`,
from the assumptions of the module (`SymbolsAssumption`, `NamesAssumption`,
`DatumsAssumption`, `ColumnsAssumption`, `CarriersAssumption`), which say what
PostgreSQL can print. The proof follows the printed line symbol by symbol, in
four layers.

1. *Texts.* A concatenation of parts lays them one behind another at places
   `at[i]` (`Laid`, `Flat`, `Placed`), which gives a doubled text
   (`Doubles`) and a printed tuple (`At`, `AtSymbols`) their symbols by index.
2. *Values and columns.* `parseQuotedValue` undoes the doubling of a value of any
   length and stops behind its closing quote, because a quote inside is never a
   single one; `parseColumn` finds the brackets of the type because no name and
   type before them has any, and fails at every column that has (`Bracketing`).
3. *The line.* The first separator stands behind the table's name, and the second
   behind the operation (`OneHead`, `NoBody`); the first new-tuple marker is the
   printed one unless an old name or value holds one (`FirstMarkAt`, `MarkedIn`);
   and what a file keeps of a line is a tuple up to the first break
   (`LineBreaks`, `Cut`).
4. *The parser.* `IInv`, inductive, says per phase where it stands: the columns
   collected are the first ones of the printed tuple and `pos` is where the next
   is printed (`Reads`), the text at hand is the whole tuple or ends inside the
   column a break or a marker stands in (`KeyAt`, `RowAt`), and a list that was
   read whole has no cause to be refused (`Complete`, `KeyWhole`). Without it
   neither property is inductive: `columns` and `pos` alone do not say what of
   the line is left. A refusal is then one of `Unreadable` because a column can
   only be refused for its brackets or because the text ends inside it, and a
   reading names the change exactly unless a column or the table is `Misread`.

The functions that recurse over a text (`QuotedFrom`) are unfolded from place to
place by an induction over positions that is done once, with the least
counterexample (`UpTo`, `QuotedFromLemma`). TLC cannot evaluate `IInv`, which
speaks of places it would have to search for; it checks the two properties
themselves.

Model-checked only: the liveness properties (`EveryStepApplied`,
`CancelEndsLoop`, `WatchersExit`, `CallsReturn`); temporal proofs with fairness
are beyond the prover used. Every invariant and every refinement that a passing
run checks is stated by a theorem.

## What is not modelled

- Layout of binary events, BSON and JSON: data the properties do not tell
  apart. Outside `PostgresLine` a record parses, fails or is refused.
- A last line without its newline. The scanner delivers it, so the offline line
  decoders are modelled for writers that append whole lines.
- `WithEndPos`, times and compatibility modes of the binlog decoder; a decoder
  that ends early ends as at the end of the file.
- `types.Register` during the opening of a decoder: the default registry has no
  lock, and a program that registers has to do so in between.
- Display names and compatibility modes of the event registry, which decide no
  body, and the layout of the MariaDB bodies.
- Event plugins of the PostgreSQL parser, which see a line before
  `parseChange`; names of columns with `]:`, which end the type early, and names
  of tables with `: `, which end the name.
- Tables without a primary key, where the WHERE of a reversal may match more
  than one row (`sql.go:22`).
- The validation of checkpoints in `*/backend` and the choice of the reader.
- What is left of a misread item as a message of its own: a Redis bulk string that
  holds a RESP command, a torn binlog event whose rest looks like one.
- Numbers of `PostgresLine` beyond one representative of each class.
- The wait for the reply to AUTH, outside the context: over a silent server
  nothing ends it, and no property says so.
- `internal/cireport` (renders tables), the facade packages (re-exports) and
  generated lists.

## State of the work and what is left

1. Done: the offline decoders, the binlog decoder, the live decoders of all
   four databases, the registry and the logger slot, the flashbacks, the event
   registry, the parser of test_decoding lines.
2. Done: proofs of the safety properties of the recoveries, of `RedisStream`,
   `EventRegistry`, `RootPackage`, `Rollback` over all four databases, and
   `PostgresLine`.
3. Left: tables without a primary key in `Rollback`, and the streaming
   compensation of `doc/RECOVERY.md`, which replays each step while the database
   goes on; RESP framing and length-encoded integers as pure functions; a torn
   last line in `OfflineLog`; end positions in `BinlogDecoder`.
