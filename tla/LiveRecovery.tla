------------------------------- MODULE LiveRecovery -------------------------------
(***************************************************************************)
(* The recovery worker over a live PostgreSQL slot, read by either of its  *)
(* decoders, or over a live MongoDB collection.  A worker that restarts    *)
(* opens a new connection, with the saved checkpoint or without one.       *)
(***************************************************************************)
EXTENDS PostgresPoll, PostgresWire, MongoLive, RecoveryWorker

CONSTANTS
  Readers,       \* the decoders looked at
  Checkpoints,   \* whether workers reopen WithCheckpoint(saved)
  MaxRepeats     \* bound: no process starts after more repeated replays

ASSUME CheckpointsAssumption == Checkpoints \subseteq BOOLEAN

VARIABLE resumes   \* this worker passes its checkpoint, or never does

serverVars == <<wal, confirmed, oplog, resumes>>
readerVars == <<pollVars, wireVars, opened, cursor>>
vars == <<reader, serverVars, readerVars, cursorVars, streamVars, workerVars>>

FirstStep(r) == IF r = "wire" THEN "start" ELSE "check"

Init ==
  /\ DecoderInit /\ SlotInit /\ PollInit /\ WireInit /\ MongoInit /\ WorkerInit
  /\ reader \in Readers
  /\ resumes \in Checkpoints
  /\ step = FirstStep(reader)

(* The fields of the decoder and its connection are gone.                  *)
Disconnect ==
  /\ rows' = <<>>
  /\ saw' = FALSE
  /\ started' = FALSE
  /\ sent' = 0
  /\ wire' = <<>>
  /\ opened' = 0
  /\ cursor' = 0
  /\ step' = FirstStep(reader)
  /\ position' = 0
  /\ start' = 0
  /\ UNCHANGED <<reader, serverVars, ctx>>

Open ==
  /\ phase = "closed"
  /\ ctx = "live"
  /\ repeats <= MaxRepeats
  /\ phase' = "open"
  /\ start' = IF resumes THEN saved ELSE 0
  /\ UNCHANGED <<reader, serverVars, readerVars, step, position, ctx, out, workerVars>>

(* Events() begins anew; the wire decoder starts replication only once.    *)
RangeOver ==
  /\ BeginLoop \/ RangeAgain
  /\ step' = IF started THEN "check" ELSE FirstStep(reader)
  /\ UNCHANGED <<reader, serverVars, readerVars, position, start, ctx>>

Decode ==
  /\ \/ reader = "poll" /\ PollStep /\ UNCHANGED <<wireVars, mongoVars>>
     \/ reader = "wire" /\ WireStep /\ UNCHANGED <<pollVars, mongoVars>>
     \/ reader = "watch" /\ MongoStep /\ UNCHANGED <<wal, confirmed, pollVars, wireVars>>
  /\ UNCHANGED <<resumes, workerVars>>

(* A loop that breaks closes the rows of the current answer.               *)
Consume ==
  /\ PassOver \/ Replay \/ SaveCheckpoint
  /\ rows' = IF phase' = "open" THEN <<>> ELSE rows
  /\ UNCHANGED <<reader, serverVars, saw, wireVars, opened, cursor, cursorVars>>

Stop == (PanicOnError \/ Leave) /\ Disconnect

Fail == Crash /\ Disconnect

(* PostgreSQL commits transactions of one or two changes.                  *)
Database ==
  /\ reader # "watch"
  /\ \/ \E c \in Changes : Commit(<<c>>)
     \/ \E c, d \in Changes : Commit(<<c, d>>)
  /\ UNCHANGED <<readerVars, oplog, resumes, workerVars>>

ReplicationServer ==
  /\ reader = "wire"
  /\ Server
  /\ UNCHANGED <<pollVars, mongoVars, resumes, workerVars>>

Collection ==
  /\ reader = "watch"
  /\ \E e \in Entries : Write(e)
  /\ UNCHANGED <<wal, confirmed, resumes, pollVars, wireVars, workerVars>>

CancelContext == Cancel /\ UNCHANGED <<serverVars, readerVars, workerVars>>

Program == Open \/ RangeOver \/ Decode \/ Consume \/ Stop

Next == Program \/ Fail \/ Database \/ ReplicationServer \/ Collection \/ CancelContext

(* The process runs; the database need never do anything.                  *)
Spec == Init /\ [][Next]_vars /\ WF_vars(Program)

--------------------------------------------------------------------------------

Steps == {i \in 1..Len(wal) : wal[i] = "step"}

TypeOK ==
  /\ DecoderTypeOK
  /\ SlotTypeOK
  /\ MongoTypeOK
  /\ WorkerTypeOK
  /\ rows \in Seq(Nat)
  /\ saw \in BOOLEAN
  /\ started \in BOOLEAN
  /\ sent \in 0..Len(wal)
  /\ wire \in Seq(Messages)
  /\ resumes \in BOOLEAN

(* The lines the slot will not send again.                                 *)
Consumed == 1..(IF reader = "poll" THEN confirmed ELSE ResumePoint)

(* What the slot gave up was replayed, or is in the answer being scanned,  *)
(* or is being handed over.                                                *)
ConsumedWasReplayed ==
  \A i \in Steps \cap Consumed : i \in applied \cup ToSet(rows) \/ i = out.rec

(* The wire decoder acknowledges a line before it hands it over, and still *)
(* loses none, whenever the process crashes, breaks the loop or fails: the *)
(* slot goes on with whole transactions, and the COMMIT is received after  *)
(* the changes before it were replayed.  Checkpoints would break this.     *)
WireAtLeastOnce == reader = "wire" /\ ~resumes => ConsumedWasReplayed

(* The poll decoder consumes what it asks for and a change stream begins   *)
(* behind all earlier changes: no operation is ever repeated, whatever     *)
(* checkpoint a restarted worker passes.                                   *)
AtMostOnce == reader # "wire" => repeats = 0

(* What the current change stream returned was replayed, also by the       *)
(* second loop over a decoder, whose position goes on from the first.      *)
WatchedWasReplayed ==
  reader = "watch" /\ ~resumes =>
    \A i \in opened+1..cursor : oplog[i] = "step" => i \in applied \/ i = out.rec

(* Cancelling the context ends a loop, also over a silent server.          *)
CancelEndsLoop ==
  ctx = "cancelled" ~> phase \notin {"decoding", "yielding"}

================================================================================
